-------------------------------- MODULE Uploads --------------------------------
(***************************************************************************)
(* POST /api/sessions, the version chains and DELETE /api/sessions/{id},   *)
(* over the one database connection the store opens                        *)
(* (src/internal/session/store.go: SetMaxOpenConns(1)).                    *)
(*                                                                         *)
(* Every request runs in its own goroutine, and every statement takes the  *)
(* connection for itself, so an action is one statement (or one whole      *)
(* database/sql transaction, which keeps the connection from BEGIN to      *)
(* COMMIT).  LinkToChain does not keep it: it opens its transaction with a *)
(* pooled Exec("BEGIN IMMEDIATE"), and a statement another handler issues   *)
(* before the COMMIT runs inside that transaction.                         *)
(*                                                                         *)
(* db is what the connection sees, disk what has been committed.           *)
(***************************************************************************)
EXTENDS Integers, Sequences, FiniteSets

CONSTANTS
    Uploads,    \* upload requests, and the session each one creates
    Users,      \* authenticated users
    Anon,       \* no user: SQL NULL
    Docs,       \* (project, basename of the entry file) pairs
    NoDoc,
    Kinds,      \* what is posted: an archive, or the path of a file on the host
    AuthModes,  \* whether the server may run with --auth, without, or be
                \* restarted from one to the other
    Faults,     \* "statement": a statement fails; "crash": the process dies
    MaxFaults,  \* how many of them may happen
    MaxDeleted  \* how many sessions somebody deletes

ASSUME KindsAssumption == Kinds \subseteq {"zip", "path"}
ASSUME AnonAssumption == Anon \notin Users
ASSUME DocsAssumption == NoDoc \notin Docs
ASSUME AuthAssumption == AuthModes \subseteq BOOLEAN
ASSUME FaultsAssumption == Faults \subseteq {"statement", "crash"} /\ MaxFaults \in Nat
ASSUME MaxDeletedAssumption == MaxDeleted \in Nat

VARIABLES
    auth,       \* the running server has authentication enabled
    db,         \* the tables as the connection sees them
    disk,       \* the tables as last committed
    inTxn,      \* LinkToChain's transaction is open on the connection
    files,      \* the session-* directory of an upload
    pc,         \* the statement an upload's handler performs next
    req,        \* what was posted, and by whom
    loc,        \* LinkToChain's chainID and versionNo
    reply,      \* the response, with the chain and version it names
    deleting,   \* deletions past requireOwner
    gone,       \* history: deletions answered with "deleted"
    faults      \* history: faults so far

tables == <<db, disk, inTxn>>
handlerVars == <<files, pc, req, loc, reply>>
deleteVars == <<deleting, gone>>
vars == <<auth, tables, handlerVars, deleteVars, faults>>

Owners == Users \cup {Anon}
Meta == {"tags", "category", "project"}

(***************************************************************************)
(* Types                                                                   *)
(***************************************************************************)

\* The columns of sessions by session, what the metadata tables hold for it,
\* and document_chains in the order of its rowids.
Tables == [state : [Uploads -> {"absent", "live", "deleted"}],
           owner : [Uploads -> Owners],
           meta : [Uploads -> SUBSET Meta],
           chain : [Uploads -> Nat],
           ver : [Uploads -> Nat],
           chains : Seq([doc : Docs, owner : Owners])]

\* Statements of LinkToChain between its BEGIN and its COMMIT or ROLLBACK.
InTxnPC == {"chain", "select", "max", "update", "commit", "rollback"}
UploadPC == InTxnPC \cup {"idle", "insert", "owner", "tags", "category", "project", "begin", "linked",
                        "done"}

Requests == [kind : {"zip", "path"}, doc : Docs \cup {NoDoc}, user : Owners]
Links == [chain : Nat, ver : Nat]
Replies == [code : {"none", "400", "500", "201"}, chain : Nat, ver : Nat]

HandlersTyped ==
    /\ files \in [Uploads -> {"none", "temp", "kept"}]
    /\ pc \in [Uploads -> UploadPC]
    /\ req \in [Uploads -> Requests]
    /\ \A u \in Uploads : pc[u] \notin {"idle", "done"} => req[u].doc \in Docs
    /\ loc \in [Uploads -> Links]
    /\ reply \in [Uploads -> Replies]

\* The transaction is open while one LinkToChain is between its BEGIN and its
\* COMMIT or ROLLBACK, and belongs to that one alone.
TransactionHeld ==
    /\ inTxn <=> \E u \in Uploads : pc[u] \in InTxnPC
    /\ \A u, v \in Uploads : pc[u] \in InTxnPC /\ pc[v] \in InTxnPC => u = v

TypeOK ==
    /\ auth \in BOOLEAN
    /\ db \in Tables /\ disk \in Tables
    /\ inTxn \in BOOLEAN
    /\ HandlersTyped
    /\ TransactionHeld
    /\ deleting \in SUBSET Uploads
    /\ gone \in SUBSET Uploads
    /\ faults \in 0..MaxFaults

EmptyTables ==
    [state |-> [u \in Uploads |-> "absent"],
     owner |-> [u \in Uploads |-> Anon],
     meta |-> [u \in Uploads |-> {}],
     chain |-> [u \in Uploads |-> 0],
     ver |-> [u \in Uploads |-> 0],
     chains |-> <<>>]

NoLink == [chain |-> 0, ver |-> 0]
Silent == [code |-> "none", chain |-> 0, ver |-> 0]

Init ==
    /\ auth \in AuthModes
    /\ db = EmptyTables
    /\ disk = EmptyTables
    /\ inTxn = FALSE
    /\ files = [u \in Uploads |-> "none"]
    /\ pc = [u \in Uploads |-> "idle"]
    /\ req = [u \in Uploads |-> [kind |-> "zip", doc |-> NoDoc, user |-> Anon]]
    /\ loc = [u \in Uploads |-> NoLink]
    /\ reply = [u \in Uploads |-> Silent]
    /\ deleting = {}
    /\ gone = {}
    /\ faults = 0

(***************************************************************************)
(* The connection.  A statement outside a transaction commits by itself.   *)
(***************************************************************************)
Execute(new) ==
    /\ db' = new
    /\ disk' = IF inTxn THEN disk ELSE new
    /\ inTxn' = inTxn

\* The handler goes on to its next statement.
GoTo(u, label) ==
    /\ pc' = [pc EXCEPT ![u] = label]
    /\ UNCHANGED reply

\* The handler returns with this response.
Answer(u, code, chain, ver) ==
    /\ pc' = [pc EXCEPT ![u] = "done"]
    /\ reply' = [reply EXCEPT ![u] = [code |-> code, chain |-> chain, ver |-> ver]]
    /\ loc' = [loc EXCEPT ![u] = NoLink]

(***************************************************************************)
(* handleCreateUploadedSession and handleCreatePathSession.                *)
(***************************************************************************)

\* Who a request comes from, by the mode of the server that answers it.
IsRequester(user) == IF auth THEN user \in Users ELSE user = Anon

\* The request passes validation; an archive gets its MkdirTemp directory.
Receive(u, kind, doc, user) ==
    /\ pc[u] = "idle"
    /\ IsRequester(user)
    /\ req' = [req EXCEPT ![u] = [kind |-> kind, doc |-> doc, user |-> user]]
    /\ files' = [files EXCEPT ![u] = IF kind = "zip" THEN "temp" ELSE "none"]
    /\ GoTo(u, "insert")
    /\ UNCHANGED <<auth, tables, loc, deleteVars, faults>>

\* extractZIPArchive or a check of the entry file fails: the deferred
\* RemoveAll takes the directory away.
RejectArchive(u) ==
    /\ pc[u] = "insert" /\ req[u].kind = "zip"
    /\ files' = [files EXCEPT ![u] = "none"]
    /\ Answer(u, "400", 0, 0)
    /\ UNCHANGED <<auth, tables, req, deleteVars, faults>>

\* CreateUploaded: a live row, and from here on the directory stays.
InsertRow(u) ==
    /\ pc[u] = "insert"
    /\ Execute([db EXCEPT !.state[u] = "live"])
    /\ files' = [files EXCEPT ![u] = IF req[u].kind = "zip" THEN "kept" ELSE "none"]
    /\ GoTo(u, "owner")
    /\ UNCHANGED <<auth, req, loc, deleteVars, faults>>

\* assignOwnerIfNeeded: no statement without a user, and an UPDATE that finds
\* no row is not an error.
AssignOwner(u) ==
    /\ pc[u] = "owner"
    /\ IF db.state[u] = "absent" \/ req[u].user = Anon
       THEN UNCHANGED tables
       ELSE Execute([db EXCEPT !.owner[u] = req[u].user])
    /\ GoTo(u, "tags")
    /\ UNCHANGED <<auth, files, req, loc, deleteVars, faults>>

\* A mutant of SetTags: the tags join whatever transaction is open, as the
\* other metadata statements do.
SetTagsInOpenTxn(u) ==
    /\ pc[u] = "tags"
    /\ db.state[u] # "absent"
    /\ Execute([db EXCEPT !.meta[u] = @ \cup {"tags"}])
    /\ GoTo(u, "category")
    /\ UNCHANGED <<auth, files, req, loc, deleteVars, faults>>

\* AddTags writes inside a database/sql transaction of its own: its BEGIN
\* fails while LinkToChain's is open, its INSERTs when the row is not there.
SetTags(u) ==
    /\ pc[u] = "tags"
    /\ ~inTxn /\ db.state[u] # "absent"
    /\ Execute([db EXCEPT !.meta[u] = @ \cup {"tags"}])
    /\ GoTo(u, "category")
    /\ UNCHANGED <<auth, files, req, loc, deleteVars, faults>>

\* A mutant of TagsFail: the upload's directory is cleaned up although its
\* row may stay.
TagsFailAndCleanUp(u) ==
    /\ pc[u] = "tags"
    /\ inTxn \/ db.state[u] = "absent"
    /\ files' = [files EXCEPT ![u] = "none"]
    /\ Answer(u, "500", 0, 0)
    /\ UNCHANGED <<auth, tables, req, deleteVars, faults>>

TagsFail(u) ==
    /\ pc[u] = "tags"
    /\ inTxn \/ db.state[u] = "absent"
    /\ Answer(u, "500", 0, 0)
    /\ UNCHANGED <<auth, tables, files, req, deleteVars, faults>>

\* SetCategory and SetProject look for the session first; AddTags has committed
\* it by now (RowFollowsHandler), so they find it.
SetCategory(u) ==
    /\ pc[u] = "category"
    /\ db.state[u] # "absent"
    /\ Execute([db EXCEPT !.meta[u] = @ \cup {"category"}])
    /\ GoTo(u, "project")
    /\ UNCHANGED <<auth, files, req, loc, deleteVars, faults>>

\* The last statement of setSessionMetadata.  A path session is answered now:
\* only an archive is linked to a chain.
SetProject(u) ==
    /\ pc[u] = "project"
    /\ db.state[u] # "absent"
    /\ Execute([db EXCEPT !.meta[u] = @ \cup {"project"}])
    /\ IF req[u].kind = "zip"
       THEN GoTo(u, "begin") /\ UNCHANGED loc
       ELSE Answer(u, "201", 0, 0)
    /\ UNCHANGED <<auth, files, req, deleteVars, faults>>

(***************************************************************************)
(* LinkToChain.                                                            *)
(***************************************************************************)
BeginLink(u) ==
    /\ pc[u] = "begin"
    /\ ~inTxn /\ db.state[u] # "absent"
    /\ inTxn' = TRUE
    /\ GoTo(u, "chain")
    /\ UNCHANGED <<auth, db, disk, files, req, loc, deleteVars, faults>>

\* A mutant of LinkFailsToBegin: the ROLLBACK is deferred before the BEGIN, so
\* a BEGIN that fails undoes the transaction of another handler.
RollBackOnFailedBegin(u) ==
    /\ pc[u] = "begin"
    /\ inTxn \/ db.state[u] = "absent"
    /\ db' = disk
    /\ inTxn' = FALSE
    /\ pc' = [v \in Uploads |-> IF v = u \/ pc[v] \in InTxnPC THEN "done" ELSE pc[v]]
    /\ reply' = [reply EXCEPT ![u].code = "201"]
    /\ UNCHANGED <<auth, disk, files, req, loc, deleteVars, faults>>

\* The session is gone, or BEGIN fails inside the transaction of another
\* LinkToChain: the upload is answered without a chain.
LinkFailsToBegin(u) ==
    /\ pc[u] = "begin"
    /\ inTxn \/ db.state[u] = "absent"
    /\ Answer(u, "201", 0, 0)
    /\ UNCHANGED <<auth, tables, files, req, deleteVars, faults>>

\* The chains row i that is for document and owner of upload u.
IsChainOf(i, u) == db.chains[i] = [doc |-> req[u].doc, owner |-> req[u].user]

\* INSERT ... ON CONFLICT DO NOTHING: SQL takes two NULL owners for distinct,
\* so without a user nothing ever conflicts.
InsertChain(u) ==
    /\ pc[u] = "chain"
    /\ IF req[u].user # Anon /\ \E i \in DOMAIN db.chains : IsChainOf(i, u)
       THEN UNCHANGED tables
       ELSE Execute([db EXCEPT !.chains =
                        Append(@, [doc |-> req[u].doc, owner |-> req[u].user])])
    /\ GoTo(u, "select")
    /\ UNCHANGED <<auth, files, req, loc, deleteVars, faults>>

\* A mutant of SelectChain: the query is not scoped by owner.
SelectAnyOwnersChain(u) ==
    /\ pc[u] = "select"
    /\ \E i \in DOMAIN db.chains :
        /\ db.chains[i].doc = req[u].doc
        /\ \A j \in 1..(i - 1) : db.chains[j].doc # req[u].doc
        /\ loc' = [loc EXCEPT ![u] = [chain |-> i, ver |-> 0]]
    /\ GoTo(u, "max")
    /\ UNCHANGED <<auth, tables, files, req, deleteVars, faults>>

\* The row QueryRow returns is the first in rowid order.
SelectChain(u) ==
    /\ pc[u] = "select"
    /\ \E i \in DOMAIN db.chains :
        /\ IsChainOf(i, u)
        /\ \A j \in 1..(i - 1) : ~IsChainOf(j, u)
        /\ loc' = [loc EXCEPT ![u] = [chain |-> i, ver |-> 0]]
    /\ GoTo(u, "max")
    /\ UNCHANGED <<auth, tables, files, req, deleteVars, faults>>

\* The version numbers of the live sessions of chain c, and COALESCE's 0.
LiveNumbers(t, c) ==
    {0} \cup {t.ver[v] : v \in {s \in Uploads : t.state[s] = "live" /\ t.chain[s] = c}}

\* A mutant of ReadMax: versions are counted, so a gap a deletion left moves
\* the next number onto one that is taken.
CountVersions(u) ==
    /\ pc[u] = "max"
    /\ loc' = [loc EXCEPT ![u].ver = Cardinality(LiveNumbers(db, loc[u].chain))]
    /\ GoTo(u, "update")
    /\ UNCHANGED <<auth, tables, files, req, deleteVars, faults>>

\* A mutant of ReadMax: deleted versions count too.
MaxOfAllVersions(u) ==
    /\ pc[u] = "max"
    /\ \E m \in {0} \cup {db.ver[s] : s \in {s \in Uploads : db.chain[s] = loc[u].chain}} :
        /\ \A s \in Uploads : db.chain[s] = loc[u].chain => db.ver[s] <= m
        /\ loc' = [loc EXCEPT ![u] = [chain |-> loc[u].chain, ver |-> m + 1]]
    /\ GoTo(u, "update")
    /\ UNCHANGED <<auth, tables, files, req, deleteVars, faults>>

ReadMax(u) ==
    /\ pc[u] = "max"
    /\ \E m \in LiveNumbers(db, loc[u].chain) :
        /\ \A n \in LiveNumbers(db, loc[u].chain) : n <= m
        /\ loc' = [loc EXCEPT ![u] = [chain |-> loc[u].chain, ver |-> m + 1]]
    /\ GoTo(u, "update")
    /\ UNCHANGED <<auth, tables, files, req, deleteVars, faults>>

UpdateRow(u) ==
    /\ pc[u] = "update"
    /\ Execute([db EXCEPT !.chain[u] = loc[u].chain, !.ver[u] = loc[u].ver])
    /\ GoTo(u, "commit")
    /\ UNCHANGED <<auth, files, req, loc, deleteVars, faults>>

CommitLink(u) ==
    /\ pc[u] = "commit"
    /\ disk' = db
    /\ inTxn' = FALSE
    /\ GoTo(u, "linked")
    /\ UNCHANGED <<auth, db, files, req, loc, deleteVars, faults>>

\* The handler answers with the link LinkToChain returned.
AnswerLinked(u) ==
    /\ pc[u] = "linked"
    /\ Answer(u, "201", loc[u].chain, loc[u].ver)
    /\ UNCHANGED <<auth, tables, files, req, deleteVars, faults>>

\* The deferred ROLLBACK, after which the upload is answered unlinked.  What
\* other handlers wrote since the BEGIN goes with it.
RollbackLink(u) ==
    /\ pc[u] = "rollback"
    /\ db' = disk
    /\ inTxn' = FALSE
    /\ Answer(u, "201", 0, 0)
    /\ UNCHANGED <<auth, disk, files, req, deleteVars, faults>>

(***************************************************************************)
(* DELETE /api/sessions/{id}: requireOwner reads, then SoftDelete writes.  *)
(* An id becomes known when its row can be read.                           *)
(***************************************************************************)
RequireOwner(u, user) ==
    /\ u \notin deleting /\ Cardinality(deleting \cup gone \cup {u}) <= MaxDeleted
    /\ db.state[u] # "absent"
    /\ IsRequester(user)
    /\ auth => db.owner[u] = user
    /\ deleting' = deleting \cup {u}
    /\ UNCHANGED <<auth, tables, handlerVars, gone, faults>>

\* The UPDATE marks the row whether or not it is marked already; no row: 404.
SoftDelete(u) ==
    /\ u \in deleting
    /\ IF db.state[u] = "absent"
       THEN UNCHANGED <<tables, gone>>
       ELSE /\ Execute([db EXCEPT !.state[u] = "deleted"])
            /\ gone' = gone \cup {u}
    /\ deleting' = deleting \ {u}
    /\ UNCHANGED <<auth, handlerVars, faults>>

(***************************************************************************)
(* Faults.                                                                 *)
(***************************************************************************)

\* A mutant of StatementFails: LinkToChain returns without its ROLLBACK.
ReturnsWithoutRollback(u) ==
    /\ "statement" \in Faults /\ faults < MaxFaults
    /\ faults' = faults + 1
    /\ pc[u] \in InTxnPC \ {"rollback"}
    /\ Answer(u, "201", 0, 0)
    /\ UNCHANGED <<auth, tables, files, req, deleteVars>>

\* The statement a handler is at fails and changes nothing.  Before BEGIN the
\* request ends with a 500 (and CreateUploaded's failure takes the directory
\* away); LinkToChain's failures only cost the link.
StatementFails(u) ==
    /\ "statement" \in Faults /\ faults < MaxFaults
    /\ faults' = faults + 1
    /\ \/ /\ pc[u] \in {"insert", "owner", "tags", "category", "project"}
          /\ pc[u] = "owner" => req[u].user # Anon
          /\ files' = IF pc[u] = "insert" THEN [files EXCEPT ![u] = "none"] ELSE files
          /\ Answer(u, "500", 0, 0)
       \/ /\ pc[u] = "begin"
          /\ Answer(u, "201", 0, 0)
          /\ UNCHANGED files
       \/ /\ pc[u] \in InTxnPC \ {"rollback"}
          /\ GoTo(u, "rollback")
          /\ UNCHANGED <<files, loc>>
    /\ UNCHANGED <<auth, tables, req, deleteVars>>

\* The process dies and is started again, possibly with another --auth; what
\* was not committed is lost, the handlers go without an answer, and the
\* directories stay as they are.
Crash ==
    /\ "crash" \in Faults /\ faults < MaxFaults
    /\ faults' = faults + 1
    /\ auth' \in AuthModes
    /\ db' = disk
    /\ inTxn' = FALSE
    /\ pc' = [u \in Uploads |-> IF pc[u] = "idle" THEN "idle" ELSE "done"]
    /\ loc' = [u \in Uploads |-> NoLink]
    /\ deleting' = {}
    /\ UNCHANGED <<disk, files, req, reply, gone>>

(***************************************************************************)
(* The specification                                                       *)
(***************************************************************************)
HandlerStep(u) ==
    \/ RejectArchive(u) \/ InsertRow(u) \/ AssignOwner(u)
    \/ SetTags(u) \/ TagsFail(u) \/ SetCategory(u) \/ SetProject(u)
    \/ BeginLink(u) \/ LinkFailsToBegin(u) \/ InsertChain(u) \/ SelectChain(u)
    \/ ReadMax(u) \/ UpdateRow(u) \/ CommitLink(u) \/ AnswerLinked(u)
    \/ RollbackLink(u)

DeleteStep(u) == (\E user \in Owners : RequireOwner(u, user)) \/ SoftDelete(u)

Next ==
    \/ \E u \in Uploads :
        \/ \E kind \in Kinds, doc \in Docs, user \in Owners : Receive(u, kind, doc, user)
        \/ HandlerStep(u)
        \/ DeleteStep(u)
        \/ StatementFails(u)
    \/ Crash

Spec == Init /\ [][Next]_vars

\* A goroutine that is serving a request is scheduled until it returns.
Fairness == \A u \in Uploads : WF_vars(HandlerStep(u))
FairSpec == Spec /\ Fairness

(***************************************************************************)
(* Properties                                                              *)
(***************************************************************************)

\* No two live versions of a chain have the same number, neither in what the
\* connection sees nor in what a crash leaves, however uploads, deletions and
\* rollbacks interleave with LinkToChain's read-modify-write.
VersionsAreUnique(t) ==
    \A u, v \in Uploads :
        /\ u # v
        /\ t.state[u] = "live" /\ t.state[v] = "live"
        /\ t.chain[u] = t.chain[v] /\ t.chain[u] # 0
        => t.ver[u] # t.ver[v]

LiveVersionsUnique == VersionsAreUnique(db) /\ VersionsAreUnique(disk)

\* Row c of the chains is the first for the document and the owner of upload u.
IsFirstChainOf(t, c, u) ==
    /\ c \in DOMAIN t.chains
    /\ t.chains[c] = [doc |-> req[u].doc, owner |-> req[u].user]
    /\ \A i \in 1..(c - 1) : t.chains[i] # t.chains[c]

\* A linked session is in a chain for the document it was posted as and for the
\* user who posted it, and in the first such chain: no chain mixes owners or
\* documents, and no document of one owner is split into two chains, although
\* the rows of a document without owner multiply.
LinksMatchRequests(t) ==
    \A u \in Uploads : t.chain[u] # 0 => IsFirstChainOf(t, t.chain[u], u)

LinksAreSound == LinksMatchRequests(db) /\ LinksMatchRequests(disk)

\* Whatever happens to its request, a session whose row can be read, now or
\* after a crash, still has the directory its archive was extracted to.
RowsHaveFiles ==
    \A u \in Uploads :
        req[u].kind = "zip" /\ (db.state[u] # "absent" \/ disk.state[u] # "absent")
            => files[u] = "kept"

\* A created session is on disk when the response says so, and stays there in
\* the chain and with the version number the response names, through crashes
\* and the rollbacks of other handlers; named unlinked, it stays unlinked.
AnswerIsDurable ==
    \A u \in Uploads : reply[u].code = "201" =>
        /\ disk.state[u] # "absent"
        /\ disk.chain[u] = reply[u].chain
        /\ disk.ver[u] = reply[u].ver

\* As long as nothing has failed, nothing acknowledged is lost: a created
\* session keeps its metadata and its owner, and a deleted one stays deleted,
\* although their statements may have run inside another handler's transaction.
AcknowledgedIsKept ==
    faults = 0 => \A u \in Uploads :
        /\ reply[u].code = "201" => db.meta[u] = Meta /\ db.owner[u] = req[u].user
        /\ u \in gone => db.state[u] = "deleted"

(***************************************************************************)
(* The inductive invariant: what makes AnswerIsDurable, LiveVersionsUnique  *)
(* and VersionHistorySpec hold step by step.                               *)
(***************************************************************************)

\* Outside a transaction everything written is committed; inside, what is
\* committed differs from it by younger rows only.
DiskFollowsConnection ==
    /\ ~inTxn => db = disk
    /\ \A u \in Uploads :
        /\ disk.state[u] # "absent" => db.state[u] # "absent"
        /\ disk.state[u] = "deleted" => db.state[u] = "deleted"

\* A row appears with its INSERT, and is committed once AddTags has succeeded:
\* AddTags cannot run inside another handler's transaction.
RowFollowsHandler(u) ==
    /\ pc[u] # "done" => reply[u] = Silent
    /\ pc[u] \in {"idle", "insert"} => db.state[u] = "absent" /\ disk.state[u] = "absent"
    /\ pc[u] \in {"category", "project", "begin", "linked"} \cup InTxnPC
            \/ reply[u].code = "201" \/ disk.chain[u] # 0
          => disk.state[u] # "absent"

\* A row is linked by its own handler's UPDATE, and that is committed by its
\* own handler's COMMIT, before the response names it.
LinkFollowsHandler(u) ==
    /\ pc[u] \notin {"commit", "rollback"} =>
           db.chain[u] = disk.chain[u] /\ db.ver[u] = disk.ver[u]
    /\ pc[u] \notin {"linked", "done"} => disk.chain[u] = 0 /\ disk.ver[u] = 0
    /\ pc[u] \in {"commit", "linked"} =>
           db.chain[u] = loc[u].chain /\ db.ver[u] = loc[u].ver
    /\ reply[u].code = "201" => disk.chain[u] = reply[u].chain /\ disk.ver[u] = reply[u].ver

\* The chain a LinkToChain has selected is the one its upload belongs to.
SelectedChainIsOwn(u) ==
    pc[u] \in {"max", "update", "commit"} => IsFirstChainOf(db, loc[u].chain, u)

\* The number it has read stays the next one until its COMMIT: no other
\* session can join the chain in between, only leave it by deletion.
NumberIsNext(u) ==
    pc[u] \in {"update", "commit"} =>
        /\ \A v \in Uploads \ {u} :
              db.state[v] = "live" /\ db.chain[v] = loc[u].chain => db.ver[v] < loc[u].ver
        /\ \E m \in LiveNumbers(disk, loc[u].chain) : loc[u].ver <= m + 1

IInv ==
    /\ TypeOK
    /\ DiskFollowsConnection
    /\ \A u \in Uploads :
        /\ RowFollowsHandler(u)
        /\ LinkFollowsHandler(u)
        /\ SelectedChainIsOwn(u)
        /\ NumberIsNext(u)
    /\ LinksAreSound
    /\ LiveVersionsUnique

\* Nothing that was not rolled back is lost: while nothing has failed, no
\* LinkToChain is on its way to a ROLLBACK, so each handler still finds what it
\* has written, whichever transaction its statements ran in.
WrittenIsKept(u) ==
    faults = 0 =>
        /\ pc[u] # "rollback"
        /\ pc[u] \in {"idle", "insert", "owner"} => db.owner[u] = Anon
        /\ pc[u] \notin {"idle", "insert", "done"} => db.state[u] # "absent"
        /\ pc[u] \notin {"idle", "insert", "owner", "done"} \/ reply[u].code = "201"
              => db.owner[u] = req[u].user
        /\ pc[u] \notin {"idle", "insert", "owner", "tags", "done"} => "tags" \in db.meta[u]
        /\ pc[u] \in {"project", "begin", "linked"} \cup InTxnPC => "category" \in db.meta[u]
        /\ pc[u] \in {"begin", "linked"} \cup InTxnPC \/ reply[u].code = "201"
              => db.meta[u] = Meta
        /\ u \in gone => db.state[u] = "deleted"

\* The second invariant: what makes RowsHaveFiles and AcknowledgedIsKept hold.
KeepInv == IInv /\ RowsHaveFiles /\ \A u \in Uploads : WrittenIsKept(u)

\* LinkToChain always gives the connection back: whichever of its statements
\* fails, its transaction ends, so that BEGINs and commits become possible again.
TransactionEnds == inTxn ~> ~inTxn

\* The committed tables are a version history: see VersionHistory.
History == INSTANCE VersionHistory
    WITH Sessions <- Uploads, state <- disk.state, chain <- disk.chain, ver <- disk.ver

\* Every commit, with all that other handlers put into it, is one step of the
\* version history: it links one session at most, with a number above every
\* live version's, and never renumbers or revives a session.
VersionHistorySpec == History!HistorySpec

\* openspec/changes/version-chain-sessions/specs/version-chain/spec.md:4: each
\* successful upload is linked, as concurrent uploads are "serialized at the
\* write lock" (version.go:60-64).  With nothing failing, every archive that
\* was accepted should be answered 201 with a chain.
ConcurrentUploadsAreLinked ==
    faults = 0 => \A u \in Uploads :
        reply[u].code \in {"201", "500"} /\ req[u].kind = "zip"
            => reply[u].code = "201" /\ reply[u].chain # 0

\* server/auth.go:167-171: when the owner cannot be stamped the upload fails
\* instead of leaving an unowned session under auth.
CreatedSessionsAreOwned ==
    \A u \in Uploads : reply[u].code = "201" => disk.owner[u] = req[u].user
================================================================================
