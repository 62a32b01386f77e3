# A verification project for sth (static-html)

`sth` is a Go server that stores HTML documents produced by agents and serves
them under `/s/<session>/`, with a command line client, live reload, accounts
and version chains. This directory holds TLA+ modules of its components, TLC
configurations that model-check them, and proofs for TLAPS.

Contents: 1 inventory, 2 plan, 3 modules and code, 4 runs, 5 proofs, 6 what is
not covered. `PROJECT.json` is the machine-readable index: components, runs,
mutants, the definition-to-source map, findings, hazards and theorems.

## 1. Inventory

| Component | State | Operations | Interacts with |
|---|---|---|---|
| Live reload (`internal/live`) | `Manager.hubs`, `Hub.clients`, watcher goroutines with a debounce timer, WebSocket connections | connect, `GetOrCreateHub`, `Register`, `Unregister`/`onEmpty`, `Broadcast`, `BroadcastTo`, `WatchDir` loop | browser script, file system, update handler |
| Upload pipeline (`server.go`, `session/store.go`, `session/metadata.go`) | one row per session, metadata tables, one `session-*` directory per archive | `POST /api/sessions`: extract, insert, owner, tags, category, project | the one SQLite connection, version chains |
| Version chains (`session/version.go`) | `document_chains`, `sessions.chain_id`, `version_no` | `LinkToChain`; `GetChainOfSession`, `DiffChainMetadata` | uploads, soft deletion, views |
| SQLite connection (`store.go`) | connection state, open transaction, committed file | every statement of every handler (`SetMaxOpenConns(1)`) | everything |
| Document store (`session/metadata.go`) | tags, category, project, `deleted_at` | edit, clear, list, count, search, peers, soft delete | uploads, home page, CLI |
| Incremental update (`handleUpdateFiles`) | files below the session's root | write each posted file, then broadcast | live reload, `sth watch` |
| `sth watch` (`cli/watch.go`) | pending paths, debounce timer, uploads under way | file event, flush, upload, Ctrl-C | update handler |
| Auth (`session/auth.go`, `credentials.go`, `loginsession.go`, `server/auth.go`, `loginauth.go`) | users, API keys, passwords, login sessions | register, log in and out, issue, verify, revoke, middleware, `requireOwner` | every handler |
| HTML diff (`htmldiff.go`) | none | `DiffLines`, `SplitLines`, `Summarize` | diff view |
| Path, archive and URL helpers | none | `IsSubpath`, `normalizeArchivePath`, `extractZIPArchive`, `copyToLimit`, `injectScript`, `parsePreviewPath` | uploads, previews |
| Server life cycle | listener | `Start`, `Stop` | process |
| Backup (`deploy/backup`) | dated copies of database and uploads | snapshot, copy, prune | database file, upload directories |
| `sth send` (`cli.go`) | none | collect, pack, post | `POST /api/sessions` |
| Command line (`cli.go`) | none | `popBoolFlag`, `parseArgs`, `resolveBool` | every command |
| Other CLI commands, analytics, skill scripts, deployment files | none of their own | one request or store call each | server or database |

What is hard, and what makes each component correct:

* **Live reload.** Connection goroutines, watcher goroutines, timer goroutines
  and update handlers share two locks and act between their critical sections.
  No watcher may run for nobody; a change must reach every client attached when
  it happened; a client must never be stranded on a hub nobody uses.
* **Uploads, chains, connection.** Handlers run concurrently, but there is one
  connection. `LinkToChain` opens its transaction with `Exec("BEGIN
  IMMEDIATE")` and gives the connection back after every statement, so other
  handlers' statements run inside it: they are committed or rolled back with
  it, and a second `BEGIN` fails at once. Version numbers must stay unique, an
  answered upload must stay as answered through other handlers' rollbacks and
  through crashes, chains must not mix owners or documents, no row may lose its
  directory, and the transaction must end.
* **`sth watch`.** The event loop and the flushes share a timer variable without
  a lock; flushes overlap, uploads fail, time out or are stopped: does the server
  end with the files the developer has, and is "Synced" true when it is printed?
* **Auth.** Non-atomic registration; revocation and expiry against requests under
  way; which credential counts for which method; databases that are served with
  and without authentication in turn; Stop against requests that need its mutex.
* **Document store.** Lists, counts, peers and chain views must agree on what is
  deleted and who owns what, over several reads.
* **Diff and helpers.** Pure, but with boundaries: budgets, limits, empty input.

`PROJECT.json` "hazards" has each of these at its line.

## 2. Plan

In this order, the most important behaviour first:

1. `LiveReload`, `LiveReloadProofs`: done.
2. `VersionHistory` (abstract), `Uploads` (implements it), `UploadsProofs`: done.
3. `WatchSync`, `WatchSyncProofs`: the client composed with the update handler:
   done. Its promise is stated directly (`NoForgottenChange`, `SavesArrive`).
4. `Auth`, `AuthProofs`: users, keys, login sessions, middleware, posture, Start
   and Stop: done.
5. `DocViews`: edits and the multi-read views over the document set, with
   `DocViewsProofs`: done.
6. `HtmlDiff`, `SendArchive`, `CommandLine`: pure algorithms against reference
   definitions, put together by `Algorithms`, with `HtmlDiffProofs` and
   `AlgorithmsProofs`: done. `Lists` and `ListLemmas` are what they share with
   `DocViews`.
7. Left: the two copies of the backup; the redial of the browser script as a run
   of its own.

## 3. Modules and the code

### LiveReload

State: `entry` is `Manager.hubs`, `clients` is `Hub.clients`, `watcher`, `event`,
`timer`, `notifying` are a `WatchDir` goroutine, its channel, its debounce timer
and a notify that has fired; `pc`, `sid`, `hub` are a connection's handler and
read goroutine; `pages` and `sending` are the browsers and the sends under way;
`upd`, `updHub` an update handler. `owed` is history: clients attached when their
directory changed.

An action is one critical section of `Manager.mu` or `Hub.mu`, or one receive of
the watcher's select. `Unregister` and `OnEmpty` are two actions because the code
unlocks between them. `GetOrCreateHub` starts the watcher under the lock, so
`CreateHub` is one. A cancelled watcher may still take an event (select chooses
among ready cases). A connection slot stands for a connection and its page, and
is used again when nothing refers to it: behaviours are unbounded, states finite.
Sends of one broadcast are separate, in any order; a `Send` that fails closes its
connection. Updates of one session are modelled one at a time, for the sessions
in `Updated`; `Faults` chooses which failures happen.

### Uploads

`db` is the tables as the connection sees them, `disk` as last committed,
`inTxn` says that `LinkToChain`'s transaction is open. `Execute` is a statement:
it changes `db`, and `disk` too unless a transaction is open. Each upload has a
program counter named after its next statement:

    insert -> owner -> tags -> category -> project -> begin -> chain -> select
           -> max -> update -> commit -> linked -> done

`AddTags` uses a `database/sql` transaction, which holds the connection from its
`BEGIN` to its `COMMIT`: it is one action, and it fails while another handler's
transaction is open. A failing statement after `BEGIN` goes to `rollback`
(`defer` in `LinkToChain`), which undoes everything since the `BEGIN`. A path
session skips the link. `RequireOwner` and `SoftDelete` are the two statements
of a deletion; uploads and deletions of other users interleave freely. `Crash`
restarts the process, perhaps with another `--auth`.

What is abstracted: document identity is a member of `Docs` (project and
basename of the entry file), ids of chains are row numbers, tags and the like
are present or not. The existence check before `BEGIN` is one action with it: by
then the row is committed, so nothing can come between that matters. A deletion
whose statement fails is a deletion that does not happen. Requests refused
before the first write change nothing and are left out. A tag list of empty
strings is a failing `AddTags` statement. How SQLite itself reacts to a full
disk, and a `ROLLBACK` that fails, are not modelled.

### VersionHistory

The abstract specification: sessions appear, may join one chain once, and may be
deleted; the number of a joining session is above every live version's and at
most one above the highest. `Uploads!VersionHistorySpec` instantiates it with
the columns of `disk`: every commit, with all that other handlers put into it,
is one step or none.

### WatchSync

`local`, `edits`, `subdir`, `events`, `dirEvent` are the watched directory and
fsnotify's queue; `pending` is the map under the mutex; `debounce` the timer
variable, `loop` and `held` the event loop between reading it and acting on it,
`armed` the running timers; `flush`, `paths`, `body` each flush goroutine with
the request its writer goroutine fills, `skipped` the paths it leaves out;
`handler`, `written` the server's handler of that request; `server` the bytes of
each file of the session. History: `lost` are files whose latest change was given
up with an error or with the client, `missed` files left out although they exist,
`contended` files taken while another upload still had them.

Flush empties `pending` and `debounce` under the mutex, but the loop reads,
resets and assigns `debounce` outside it. The code reads the variable twice, for
the nil test (`ReadDebounce`) and for `Reset` (`ResetTimer`); the flush may set it
to nil in between, and then the client dies of a nil dereference
(`ResetPanics`). Since the reads race, the compiler may also keep the first one:
`ResetTimer` takes the timer tested or the one the variable has by then.
`NewTimer` and `AssignDebounce` are steps of their own. The writer goroutine
either sends a path (`SendFile`) or leaves it out (`SkipFile`), because it is gone
or because opening it fails; "Synced" is printed for all paths of the flush
either way. A handler truncates a file (`OpenTarget`) and then fills it
(`CopyTarget`); of two writers of one file the longer content may show under the
shorter one, which is the second outcome of `CopyTarget`. A timed-out client
leaves its handler running. `Stop` and `Start` are Ctrl-C and a new `sth watch`;
`Stop` and the panic share `Die`. A version number stands for the bytes of one
save; saving is one step. Files are regular: a path that became something else is
left out like one that cannot be opened.

`StoredAs` is where the handler puts a file. The client sends the path below the
watched directory, but `hdr.Filename` is its base name only (mime/multipart
drops the directories), so uploads land in the session's root. Where base names
differ, everything below holds for that place.

One execution the properties leave out: flush 1 reads version 1 of a file, a
second save starts flush 2, both handlers open the file, flush 2's copy ends and
then flush 1's. The server keeps version 1 although nothing failed; the code
orders nothing here (watch.go:137). Such files are in `contended` until a later
flush takes them alone.

### Auth

`posture` is what `runStart` gave the server, `life` the server with the mutex
`Stop` holds during `Shutdown`; `users`, `password`, `keyUser`, `revoked`,
`login`, `loginUser`, `owner` are the tables' columns; each request of `req`
stands before its next store statement:

    cookie -> purge -> bearer -> inside     the middleware, then the handler
    inside -> owns                          requireOwner, then the change
    inside -> made -> stamped               INSERT, owner, answer
    inside -> found | created -> granted    password, login session

The posture is read once, when a request passes the gate. `DELETE` of an expired
login session, and its ignored error, is `Purge`. Keys and users are also made
and revoked from the command line at any time, the server running or not.
`StoreFails` ends a request at any statement. `stale` is history: the request's
credentials that were dead when it arrived. Hashing and randomness are
abstracted to distinct values; time is the moment a login session expires.

### DocViews

`row` is a session's columns, metadata rows and entry file; `posted` the upload
of a session, statement by statement; each request of `req` has the number of
its next statement in `next` (`Statements` lists them by handler) and what it
has read so far. `touched` is history: sessions somebody else changed since it
arrived. `Lists!Ordered` is an `ORDER BY`: the member at place i is the one that
i - 1 members come before.
`LinkToChain` is one step here, its transaction being the subject of `Uploads`.
Tags, categories, contents and search words are values compared for equality; a
LIKE pattern that matches part of a word is not modelled. A list answer keeps
ids in the order of the SQL `ORDER BY`. Files may be unreadable at any read: a
search takes such a file, and one that has the word beyond its first 10 MB, for
no match (`fileContentContains`, in `Grep`), and a diff takes it for an empty text
(`ReadSessionHTML`), both with a 200. `unread` records for which sessions that
happened to a request, and the properties of searches and diffs say exactly what
it may change.

### HtmlDiff, SendArchive, CommandLine, Algorithms

The first three are operators and recursive functions, without state. A loop is
a function of the number of its rounds (`Walk`, `ExtractAll`, `Clean`,
`ParseAll`), made of one operator for one round (`Advance`, `Extract`,
`CleanStep`, `ParseOne`).

* `HtmlDiff`: `SplitLines` cuts a text at its newlines (`Ends`), `Table` is the
  table of `DiffLines` cell by cell with the size limits before it, `Advance` one
  round of the walk or of the two loops that drain what is left, then
  `Summarize`. A line is any value: only equality of lines matters.
* `SendArchive`: `runSend`'s checks, what `writeZIPArchive` packs out of a site,
  then `normalizeArchivePath`, `extractZIPArchive` and `copyToLimit` on the
  server. A path is a sequence of names, with nothing before its first slash if it
  is absolute and nothing after its last if it is a directory's; a size is a
  number of bytes. `TrimSpace` takes white space from the beginning of the first
  name and from the end of the last (`TrimLeft`, `TrimRight`, which leave a name of
  nothing else empty), before `Clean`: so names that differ in such white space
  become one path, and the later file replaces the earlier. A denied directory
  (`Listed`) is passed over without a word. `Receive` refuses a request that is
  longer than `MaxBytes` (`MaxBytesReader`), whatever its archive extracts to. Left
  out: the client's timeout of 60 seconds, a site that changes during the walk, and
  files that can be listed but not opened, for which the command ends with an error
  and nothing is stored.
* `CommandLine`: `popBoolFlag` takes the switches out, `parseArgs` pairs flags with
  the arguments after them, `resolveBool` asks the environment, and `Posture` is
  what `runStart` sets. Case and blanks around a value are left out.

`Algorithms` gives them a specification: a behaviour picks one input of one kind
(two lists of lines, two texts, a site and how it is sent, a posted archive, a
command line with an environment), and each property speaks about the inputs of
its kind. The sets of inputs are constants, of which only the kind is assumed.

## 4. Runs

| Run | Instance | Shows |
|---|---|---|
| `live` | 1 session, 2 connections, 2 hubs, updates, all failures | `TypeOK`, `NoWatcherLeak`, `NoLostReload` |
| `live_live` | 1 session, 2 connections, 2 hubs, no failures, `FairSpec` | `AttachedChangeReloads`, `QuietServerStopsWatchers` |
| `live_orphan` | as above, safety | **violated** `EveryClientReachable` |
| `uploads` | 3 uploads, 1 user, 1 document, auth on and off, 1 fault of either kind, 1 deletion | `TypeOK`, `LiveVersionsUnique`, `RowsHaveFiles`, `AnswerIsDurable`, `AcknowledgedIsKept`, refinement of `VersionHistory` |
| `uploads_mixed` | 2 uploads, 2 users, 2 documents, archives and paths, auth on and off, faults, `FairSpec` | `LinksAreSound`, `TransactionEnds` |
| `uploads_concurrent` | 2 uploads, nothing fails | **violated** `ConcurrentUploadsAreLinked` |
| `uploads_owner` | 2 uploads under auth, 1 failing statement | **violated** `CreatedSessionsAreOwned` |
| `watch` | 2 files, one in a directory made later, 3 changes, 2 flushes, 2 timers, all faults | `TypeOK`, `PendingIsScheduled`, `NoForgottenChange`, `SyncedIsStored`, `SavesArrive` |
| `watch_nested` | the same files under one base name, nothing fails | **violated** `SessionMirrorsDirectory` |
| `auth` | 2 users, 2 passwords, 2 keys with one prefix, 1 login session, 1 session, 2 requests, no authentication and `--protect-previews` in turn, failing statements | `TypeOK`, `DeadCredentialsAdmitNobody`, `OnlyOwnersChange`, `SignInsKnowThePassword`, `StopEnds` |
| `views` | 2 users with an old session each under one project, a second session of one of them being uploaded, 1 reader (any view; metadata as the start of a peers view), 1 writer and 1 write (a tag removed, a project changed, a deletion or an update: one edit of the tags and one of a column stand for two of each, and the theorems cover all four), pages and peer lists of 1, auth on and off | `TypeOK` and eight properties of the answers |
| `algorithms` | texts of up to 4 lines or characters, trees of up to 4 files out of 7 paths, blanks at the ends of names, no or one denied directory, archives of up to 3 entries, requests within and beyond the limit, command lines of up to 3 pieces | `DiffsRebuildBothTexts`, `DiffsAreMinimal`, `DiffsShowEveryChange`, `SentSitesArrive`, `ExtractionIsBounded`, `LinesReadBack`, `StartsAsAsked` |

Bounds. Sessions of the live-reload model share no state but the manager's lock,
so one session shows what happens in each. Two connections and two hubs are the
least with which a hub is replaced under a client; every interleaving of a
connect, a disconnect and a late `onEmpty` needs no third. Three uploads are the
least with a version to delete, one holding the transaction and one whose
statements run inside it. `MaxFaults` and `MaxDeleted` bound how often the
environment acts; the proofs are for every value of them.

Two flushes and two timers are the least with which flushes overlap and the loop
meets a timer of an earlier flush; three changes are a directory, a save in it
and a save during an upload. Two requests are the least for every race between a
check and its use; the slots of `auth` are given the kinds that race with each
other, registration being in both. In `views` a request's statements meet one
foreign write and an upload, so every pair of its reads has a change between
them. Pages and peer lists of one make a second page and a cut list out of three
documents. `algorithms` enumerates all inputs of its sizes as the successors of
one initial state. `MaxDiffLines = 4`, `MaxDiffCells = 20`, `MaxFiles = 2` and
`MaxBytes = 3` stand for the code's limits: the number of lines is met, the others
are met and exceeded. `watch` has about 150,000 states, `uploads_mixed` 500,000,
`views` 680,000 and `algorithms` 400,000.

Fairness. `live_live`: goroutines that can run do run, a send ends within its five
seconds, a read ends when its peer is gone. The debounce timer is only promised
to fire when no further event waits, since each event starts it again; so
`AttachedChangeReloads` is stated for behaviours whose events eventually pause.
Browsers, editors and failures owe nothing. `uploads_mixed`: a handler's goroutine
is scheduled until it returns; requests, faults and deletions owe nothing.
`watch`: the event loop, a running timer, and each flush with its handler go on;
saves, faults, Ctrl-C and a restart owe nothing. `auth`: handlers run, `Shutdown`
returns when they are done or after five seconds; nobody has to start or stop
the server.

Deadlock. `uploads`, `watch` and `auth` do not check it: when all uploads are
answered, all changes made, or the users, keys and sessions of the instance used
up, the system is at rest. A state of `algorithms` is one input and has no
further step. `live`, `live_live` and `views` check it.

Every property of a passing run has a mutant in `PROJECT.json`: a change of a
mapped definition that a plausible bug would make (a `BEGIN` without its
`ROLLBACK`, a count instead of a maximum, a query without its owner clause, a
revocation that is not looked at, an answer before the last file) and that
violates it.

Findings, each a violated run:

* `live_orphan`: `Unregister` (hub.go:46-58) calls `onEmpty` after unlocking. A
  client that registers in between stays connected to a hub that is no longer in
  the manager: neither the watcher nor `BroadcastTo` reaches it again. The code's
  comment expects a missed broadcast at worst.
* `uploads_concurrent`: concurrent uploads do not wait for each other's
  transaction, as version.go:60-64 says; the second is answered without a chain,
  or with 500 from `AddTags`.
* `uploads_owner`: another upload's `ROLLBACK` undoes the owner of a session that
  is then answered 201.
* `watch_nested`: a file saved as `docs/index.html` is written to the session's
  `index.html`, and "Synced: docs/index.html" is printed.

Other disagreements met while modelling, with no run of their own:

* With a NULL owner every upload adds a `document_chains` row (version.go:110),
  where version-chain/spec.md:18 says none is created.
* The reload script redials without reloading (inject.go:24);
  websocket-live-reload/spec.md:47 has the page reload on reconnection. `Redial`
  in `LiveReload` does as the code does.
* A password of more than 72 bytes fails in bcrypt after `CreateUser`: 500, and
  the name is taken for good. Users of `sth user add` have no password at all.
* `Server.Stop` holds the server's mutex during `Shutdown`, and handlers that
  create a session need it to answer: they wait the full five seconds and are cut
  (server.go:618-628). `StopEnds` rests on `ShutdownTimesOut` for that reason.
* `sth send` with the entry under a hidden name packs an archive without it and
  is answered 400; README.md:54 says the entry may be nested anywhere.
* `--tag --single page.html`: taking out `--single` makes the page the tag's
  value. `--tag=x` is a flag of that odd name, which takes the next argument.
* The home page counts and lists in two statements: a deletion in between can
  show an empty last page. `PagesFollowTheRanks` asks for quiet in between.
* `sth watch` reads `debounce` for the nil test and again for `Reset`
  (watch.go:171-172); the flush goroutine sets it to nil between the two
  (watch.go:130) if the compiler keeps both reads, and the client dies with its
  pending paths. The comments and the spec know of no such end.
  `NoForgottenChange` and `SavesArrive` count such paths as `lost`.
* "Synced" is printed for every path of a flush, also for one that was left out
  because it could not be opened, or that was deleted (watch.go:139-143, 203-212);
  sth-watch-command/spec.md:12-13 has the file uploaded "AND print a log message
  indicating the file was synced". `SyncedIsStored` says what the line does mean.
* Peers of a deleted session are answered 200, with the session as `current`
  (`handleGetPeers` looks at existence and owner only, server.go:1847-1862);
  specs/peers-api/spec.md:14-16 has "Deleted session" answered 404.
  `DeletedStayHidden` names this exception, and the same one for its metadata.
* Names are trimmed on upload (server.go:1425): " page.html" of a site is stored
  as page.html, over a file of that name.
* Numbers of deleted versions are used again when they were the highest. Previews
  of a deleted session are still answered to its owner; its chain view and its
  diffs are not (404, version.go:193). An unlinked session's chain view shows
  number 0.
* `renderLoginError` forgets where the visitor wanted to go, and offers
  registration also when it is closed.
* A directory made under `sth watch` is watched, but files made in it before are
  neither listed nor uploaded; hidden directories' subtrees are watched; watcher
  errors are ignored.

## 5. Proofs

Assumptions are those of the modules (`ASSUME`): kinds and faults are among the
named ones, `Anon` is no user, `NoDoc` no document, a key is no cookie, no user
is called nobody, no word is called none, a flag is not empty and not called
like a switch, no name is ".", ".." or empty, trimming leaves "." and ".." alone
and an extension at the end of a name, the newline is a character, an upload
posts at least one tag, a tag to be added and a word to be searched are not
empty, the sessions in the database at the start are different ones, a page and
a peer list hold at least one session, bounds are naturals. Nothing else about
the constants, so all sets may be of any size.

`LiveReloadProofs`: `TypeCorrect`, `NoWatcherLeaks`, `NoReloadLost`. The inductive
invariant `IInv` adds to the properties that client sets agree with what
connections hold, that hubs keep the session they were made for, that a running
watcher belongs to its session's entry, and that an entry is served by some
connection. The last two together give `NoWatcherLeak`: only `OnEmpty` removes an
entry, and it cancels the watcher it finds there.

`UploadsProofs`: `TypeCorrect`, `VersionsStayUnique`, `LinksStaySound`,
`AnswersAreDurable`, and `ImplementsVersionHistory` (`Spec => VersionHistorySpec`).
The inductive invariant says: outside a transaction `db` and `disk` agree;
inside, committed rows are still there (`DiskFollowsConnection`); a row appears
with its insert and is committed once `AddTags` succeeded (`RowFollowsHandler`),
because `AddTags` cannot run inside another transaction; only its own handler links
and commits a row (`LinkFollowsHandler`); the selected chain is the first of the
upload's document and owner (`SelectedChainIsOwn`), and stays the first because
chains are only added at the end (`EarlierRowsStay`); and the number read stays above every live version of
the chain until the commit, and at most one above a committed one
(`NumberIsNext`): without this the maximum that was read says nothing about the
state in which it is written. The proof first describes every statement column by
column (`Effect`), then separates the few steps from `SELECT` to `COMMIT` from the
quiet ones (`QuietOrLink`).

`RowsKeepFiles` and `AcknowledgedStays` are about what other handlers' rollbacks
can undo. A directory is removed only after an insert that failed, so a row that
exists has its directory. An answered session may have been written inside
somebody else's transaction, which then rolls back: the promise only holds as
long as nothing has failed, and `KeepInv` says why it holds then
(`WrittenIsKept`): without a failure no `LinkToChain` reaches its `ROLLBACK`, so
what the connection shows of an answered session is what the next commit puts
on disk.

`WatchSyncProofs`: `TypeCorrect` and `PendingStaysScheduled`, from the client's
invariant `CInv`, which adds how far a flush and its handler can be together
(`StagesAgree`) and that a request holds files its flush has taken and not left
out (`SentIsTaken`); `NothingIsForgotten` and `SyncedFilesAreStored`, from `IInv` and
the hypothesis `OwnBaseNames`: no two files are stored under one name, without
which `watch_nested` refutes them. `IInv` says what makes overlapping uploads
harmless: what two of them have is contended (`SharedIsContended`), so that a
file that is not contended has one writer, is empty while that writer fills it
(`CopyingIsEmpty`) and stays as written until the answer (`WrittenIsStored`); a
complete request has every path that was not left out (`WaitingIsComplete`); a
version that was read before a later change was noticed to be old
(`OldIsNoticed`); and a handler nobody waits for any more has nothing but lost
or contended files (`GivenUpIsLost`). The proof rests on two facts about every
step: an upload under way keeps its contended files contended
(`ContentionStays`), and an uncontended file is only changed by its own handler
(`OwnFilesStay`).

`AuthProofs`: `TypeCorrect`, `DeadCredentialsStayOut`, `OwnersChange`,
`SignInsAreEarned`. The invariant says that what was dead stays dead
(`StaleIsDead`); that under authentication an edit past the gate has its user
from a key (`EditsHaveKeys`) and, past `requireOwner`, still edits that user's
session (`OwnsWhatItEdits`), because the only later change of an owner is by the
one request that made the session (`MadeIsUnowned`); that a name between its
INSERT and its password is one request's own (`CreatedIsOwn`), so that a
password that was accepted is still the stored one (`GrantedKnows`); and that a
server that is down serves nobody (`DownIsIdle`), so that no request sees two
postures. One lemma per action kind says what the step does to the requests
field by field; one lemma per conjunct goes through the actions.

`ListLemmas`: what the lists of the models are. `OrderedBySmallerKeys` says that
`Ordered` has every member of a finite set once, by increasing key: ranks of
different members differ (`RanksDiffer`), and an injection of a finite set into
as many numbers takes all of them (`RanksAreTaken`). `EntriesAppend` says what
the entries of a list at some places become when the list grows. The library's
induction theorems take an operator as a parameter, which the provers here cannot
instantiate, so induction is stated about sets: a set of numbers, or of lists,
that has the first and with each member the next has all of them (`SetInduction`,
`IntervalInduction`, `RankedInduction`, `SeqInduction`). A recursive function is
a `CHOOSE`, about which nothing follows until a function that satisfies its
equation is shown to exist: `RankedRecursion` does so for a function on a ranked
set (the cells of a table), `ListRecursion` and `RunExists` for one on the rounds of a
loop, and `RunsMeet` says that a loop over a longer list begins like the loop
over the shorter one, so that each loop of the models is its round applied to what
it had before.

`DocViewsProofs` has in front what the lists of views are: the newest-first
lists (`NewestFirst`), and what a page is: `PageNumbers` bounds the clamped page
number, and `PageShowsItsRanks` says that the page holds what its quotient and
remainder say, and something unless there is nothing. Then `TypeCorrect` and one
theorem for each of the eight properties
of `views`. The invariant `IInv` has two parts. Of the documents it says how far
an upload has got when its row has an owner and a chain (`RowFollowsUpload`) and
that live versions of a chain differ in number (`VersionsDiffer`). Of a request
it says what its passed statements have established for good (`Flow`): the
session exists, the owner was right, the row is linked, everything named so far
exists. These facts are stable, because rows stay, an owner and a chain are set
once, and a deleted row stays deleted (`Changes`). They also carry
`AnswersOnlyOwn`: a chain's key has the poster in it, so the other versions of
one's own chain are one's own. What a view answers is not stable, so each
property has an invariant that holds up to the touched sessions (`NamedAreOwn`,
`EditsHold`, `SidesHold`, `PeersHold`, `SearchHolds`, `VersionsHold`, `ListHolds`,
`FoundHolds`): what was read is so, or its file could not be read, or somebody has changed it
since. `DeletedStayHidden` is about what a request shows by what it named on the
way (`ShownAreNamed`), apart from the session it asked about. All of
them are kept for one reason, shown once (`StepOutcome`): a step changes a set
`T` of at most one session, and every request either learns of `T`, ends,
begins, writes, or reads its next statement while nothing changes (`Outcome`). So
the proof of each invariant has six cases, whatever the handlers are.

`HtmlDiffProofs`: for texts of any length. `TableOfCells` says that the table
exists and that each cell is what the code writes. A common subsequence is two
increasing lists of line numbers with equal lines (`Common`); by induction over
the cells from the lower right, none from a cell on is longer than the cell says
(`TableBounds`), and one is as long (`TableIsReached`), so the table's first cell
is the length that the reference definition takes as a maximum over sets of
lines (`TableIsCommonLength`). The walk keeps an invariant, `Reached`: what it has written
is the first i - 1 lines of the old side and the first j - 1 of the new one,
numbered, and the equal lines so far and the present cell make the first cell
(`AdvanceIsReached`). Each round reads a line until none is left
(`WalkReadsBoth`). From both follow `DiffRebuilds` and `DiffIsMinimal`. For
`DiffHidesNothing` the lines of a text determine the text (`SplitDetermines`), and
`SplitLines` drops an empty line at the end, which is one newline
(`NewlineAddsEmptyLine`); the diff is empty only when nothing was added or
deleted, and then both sides are the same list.

`AlgorithmsProofs`: for sites, archives and command lines of any size, by one
invariant of each loop. Every theorem about `Spec` combines a theorem about all
inputs of one kind with the invariant `InputOK`: the input is one of the five
kinds.
`AnyArchiveIsBounded`: while the extraction succeeds its total is the sum of the sizes
written, or more, and at most the limit, each stored file has its parents among
the directories and is no directory itself (`Sound`), so that no file lies below
another; and what is left of a path that never climbs above the root is as many
names as it is deep, while one that has climbed keeps its ".." in front
(`CleanShape`), so the accepted paths are those that never climb; trimming only
touches the two ends of a path (`TrimIs`) and keeps the extension of its last
name (`NormalizedEndIs`).
`AnySiteArrives`: what is packed has different names, because relative paths under
one directory differ as the paths do (`RelativesAreApart`); the server makes a path
of each, and as long as none of these is below another, no file meets one of its
own on the way. So after each file, what is stored are the paths of the names so
far, each with the size of a file of that path (`PostsArrive`), until the limit is
reached; the entry is among the packed files when no directory on the way to it is
hidden or denied (`EntryIsPacked`).
`AnyLineReadsBack` and `AnyPostureIsAsked`: `LineIs` says of a line built piece by
piece what each switch has heard and what `parseArgs` has read of the rest; one
lemma per kind of piece shows that it stays so when a piece is added (`WordAppend`,
`SwitchAppend`, `FlagAppend`). A flag's value may be any word, a switch may stand
anywhere between pieces.

All invariants and action properties that the runs check, and the refinement, are
theorems, each for every value of the constants. Only model-checked: the liveness
properties (`AttachedChangeReloads`, `QuietServerStopsWatchers`, `TransactionEnds`,
`SavesArrive`, `StopEnds`), since liveness under fairness and `ENABLED` are out of
the provers' reach; and that the four violated properties are violated, which is
a behaviour to find and not a theorem.

## 6. Not covered

* Preview and download: one `Get` and one file, read-only, no state.
* Backup: a shell script that copies the database and then the uploads; its one
  hazard is listed.
* Text functions of one input with direct unit tests: `injectScript`,
  `parsePreviewPath`, `resolveExternalPort`, `serverBaseURL`.
* Presentation and deployment: page text, analytics, skill scripts, nginx and
  docker files.
* `sth delete` and the metadata commands: one store call each, which `DocViews`
  has as handlers.
* net/http, SQLite, fsnotify, bcrypt and the WebSocket library, which are
  external and modelled only as far as the code uses them.
