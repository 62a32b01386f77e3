------------------------------ MODULE DocViews ------------------------------
(***************************************************************************)
(* The document store as it is read and edited while it changes: the home  *)
(* page and its search, metadata, peers, chain and diff views, metadata    *)
(* edits, deletion and file updates (src/internal/server/server.go,        *)
(* src/internal/session/metadata.go and version.go).                       *)
(*                                                                         *)
(* A handler is a list of store statements; other handlers run between any *)
(* two of them.  What the statements of an upload do inside LinkToChain's  *)
(* transaction is in Uploads; here linking is one step.  Rows are never    *)
(* removed, so a handler's second Get of a session it has found finds it.  *)
(* Every document has the same file name.                                  *)
(***************************************************************************)
EXTENDS Lists

CONSTANTS
    Docs,       \* sessions
    Old,        \* those in the database when the server starts, oldest first
    Form,       \* bound: what each upload posts, and as whom
    Users,
    Nobody,     \* no user: SQL NULL, or no user in the request's context
    Words,      \* tags, categories, projects, contents and search words
    None,       \* no row, no word
    Asks,       \* bound: what each kind of request may ask: word, filter, page, versions
    PageSize,   \* defaultPageSize, 20 in the code
    PeerLimit,  \* DefaultPeerLimit, 20 in the code
    Requests,   \* bound: requests at the same time
    Serves,     \* bound: the kinds of request each slot is used for
    MaxWrites   \* bound: edits, deletions and updates

Chains == (Users \cup {Nobody}) \X Words

ASSUME NamesAssumption == Nobody \notin Users /\ None \notin Words \cup Chains
ASSUME OldAssumption == Old \in Seq(Docs) /\ IsInjective(Old)
ASSUME SizesAssumption == PageSize \in Nat \ {0} /\ PeerLimit \in Nat \ {0} /\ MaxWrites \in Nat
ASSUME FormAssumption ==
    Form \in [Docs -> [user : Users, tags : (SUBSET Words) \ {{}}, category : Words,
                       project : Words, text : Words, zip : BOOLEAN]]

VARIABLES
    auth,       \* whether the server runs with --auth
    made,       \* sessions, oldest first
    row,        \* their columns, metadata rows and entry file
    posted,     \* the statement the upload of a session performs next
    req,        \* the requests
    writes

vars == <<auth, made, row, posted, req, writes>>

Edits == {"add", "remove", "categorize", "place"}
Views == {"list", "search", "metadata", "peers", "chain", "diff"}
Kinds == Edits \cup Views \cup {"delete", "update"}
Word == Words \cup {None}
Meta == [tags : SUBSET Words, category : Word, project : Word]
MetaParts == {"tags", "category", "project"}
Upload == <<"insert", "owner", "tags", "category", "project", "link">>

(***************************************************************************)
(* The store statements of each handler, in order.                         *)
(***************************************************************************)
\* A plausible bug: the metadata an edit answers is read before the write.
StatementsReadFirst(kind) ==
    CASE kind \in Edits -> <<"owner", "session", "tags", "category", "project", "write">>
      [] kind = "delete" -> <<"owner", "write">>
      [] kind = "update" -> <<"session", "owner", "write">>
      [] kind = "list" -> <<"count", "page">>
      [] kind = "search" -> <<"search", "list", "grep">>
      [] kind = "metadata" -> <<"session", "owner", "tags", "category", "project">>
      [] kind = "peers" -> <<"session", "owner", "tags", "category", "project",
                             "byCategory", "byProject">>
      [] kind = "chain" -> <<"session", "owner", "tags", "category", "project",
                             "row", "versions", "diffs">>
      [] kind = "diff" -> <<"session", "owner", "tags", "category", "project",
                            "row", "versions", "from", "to">>

Statements(kind) ==
    CASE kind \in Edits -> <<"owner", "session", "write", "tags", "category", "project">>
      [] kind = "delete" -> <<"owner", "write">>
      [] kind = "update" -> <<"session", "owner", "write">>
      [] kind = "list" -> <<"count", "page">>
      [] kind = "search" -> <<"search", "list", "grep">>
      [] kind = "metadata" -> <<"session", "owner", "tags", "category", "project">>
      [] kind = "peers" -> <<"session", "owner", "tags", "category", "project",
                             "byCategory", "byProject">>
      [] kind = "chain" -> <<"session", "owner", "tags", "category", "project",
                             "row", "versions", "diffs">>
      [] kind = "diff" -> <<"session", "owner", "tags", "category", "project",
                            "row", "versions", "from", "to">>

Versions == [doc : Docs, no : Nat, meta : Meta]
Diffs == [from : Nat, to : Nat, added : SUBSET Words, removed : SUBSET Words,
          categoryOld : Word, categoryNew : Word, projectOld : Word, projectNew : Word]

Asking == [word : Word, filter : [tag : Word, category : Word, project : Word],
           page : Nat \ {0}, pair : Nat \X Nat]
\* No tag and no search word is empty; a category or project of None is cleared.
ASSUME AsksAssumption ==
    /\ Asks \in [Kinds -> SUBSET Asking]
    /\ \A k \in {"add", "search"} : \A a \in Asks[k] : a.word # None
ASSUME ServesAssumption == Serves \in [Requests -> SUBSET Kinds]

\* A request: the number of its next statement, what it asks for, what it has read, the sessions that others
\* have changed since it arrived (since its own write, for an edit), and those whose file it could not read, or
\* not as far as its word.
RequestType ==
    [status : {"off", "busy", "done"}, next : Nat \ {0}, kind : Kinds,
     uid : Users \cup {Nobody}, doc : Docs \cup {None}, ask : Asking, page : Nat \ {0},
     meta : Meta, total : Nat, found : Seq(Docs), others : Seq(Docs),
     versions : Seq(Versions), diffs : Seq(Diffs), texts : Seq(Word), touched : SUBSET Docs,
     unread : SUBSET Docs]

TypeOK ==
    /\ auth \in BOOLEAN
    /\ made \in Seq(Docs) /\ IsInjective(made)
    /\ row \in [Docs -> [owner : Users \cup {Nobody}, tags : SUBSET Words, category : Word,
                         project : Word, chain : Chains \cup {None}, no : Nat, text : Word,
                         deleted : BOOLEAN]]
    /\ posted \in [Docs -> 1..Len(Upload) + 1]
    /\ req \in [Requests -> RequestType]
    /\ writes \in 0..MaxWrites

MetaOf(d) == [tags |-> row[d].tags, category |-> row[d].category, project |-> row[d].project]
NoMeta == [tags |-> {}, category |-> None, project |-> None]

NoAsk == [word |-> None, filter |-> [tag |-> None, category |-> None, project |-> None],
          page |-> 1, pair |-> <<0, 0>>]

Blank ==
    [status |-> "off", next |-> 1, kind |-> "list", uid |-> Nobody, doc |-> None,
     ask |-> NoAsk, page |-> 1, meta |-> NoMeta, total |-> 0,
     found |-> <<>>, others |-> <<>>, versions |-> <<>>, diffs |-> <<>>, texts |-> <<>>,
     touched |-> {}, unread |-> {}]

NoRow == [owner |-> Nobody, tags |-> {}, category |-> None, project |-> None, chain |-> None,
          no |-> 0, text |-> None, deleted |-> FALSE]

\* A plausible bug: the chain is looked up without the owner.
ChainKeyOfProject(d, withAuth) == <<Nobody, Form[d].project>>
\* The chain of an upload: its poster's, for the project it was posted under.
ChainKey(d, withAuth) == <<IF withAuth THEN Form[d].user ELSE Nobody, Form[d].project>>

\* The row of an old session: uploaded, and numbered in its chain.
OldRow(i, withAuth) ==
    LET f == Form[Old[i]]
        key == ChainKey(Old[i], withAuth)
        linked == {j \in 1..i : Form[Old[j]].zip /\ ChainKey(Old[j], withAuth) = key}
    IN  [owner |-> IF withAuth THEN f.user ELSE Nobody,
         tags |-> f.tags, category |-> f.category, project |-> f.project,
         chain |-> IF f.zip THEN key ELSE None, no |-> IF f.zip THEN Cardinality(linked) ELSE 0,
         text |-> f.text, deleted |-> FALSE]

Init ==
    /\ auth \in BOOLEAN
    /\ made = Old
    /\ row = [d \in Docs |-> IF \E i \in DOMAIN Old : Old[i] = d
                             THEN OldRow(CHOOSE i \in DOMAIN Old : Old[i] = d, auth) ELSE NoRow]
    /\ posted = [d \in Docs |-> IF d \in ToSet(Old) THEN Len(Upload) + 1 ELSE 1]
    /\ req = [r \in Requests |-> Blank]
    /\ writes = 0

Here(d) == d \in ToSet(made)
Callers == IF auth THEN Users ELSE {Nobody}

\* The requests after somebody has changed a session.
Touch(d) == [q \in Requests |->
               IF req[q].status = "off" THEN req[q] ELSE [req[q] EXCEPT !.touched = @ \cup {d}]]

(***************************************************************************)
(* Uploads, one statement at a time.                                       *)
(***************************************************************************)
Doing(d, statement) == posted[d] \in DOMAIN Upload /\ Upload[posted[d]] = statement
Posted(d) == posted' = [posted EXCEPT ![d] = @ + 1]

Insert(d) ==
    /\ Doing(d, "insert") /\ Posted(d)
    /\ made' = Append(made, d)
    /\ row' = [row EXCEPT ![d].text = Form[d].text]
    /\ req' = Touch(d)
    /\ UNCHANGED <<auth, writes>>

SetSessionOwner(d) ==
    /\ Doing(d, "owner") /\ Posted(d)
    /\ row' = [row EXCEPT ![d].owner = IF auth THEN Form[d].user ELSE @]
    /\ req' = Touch(d)
    /\ UNCHANGED <<auth, made, writes>>

SetSessionMetadata(d) ==
    \E part \in MetaParts :
        /\ Doing(d, part) /\ Posted(d)
        /\ row' = [row EXCEPT ![d][part] = IF part = "tags" THEN @ \cup Form[d].tags ELSE Form[d][part]]
        /\ req' = Touch(d)
        /\ UNCHANGED <<auth, made, writes>>

Live(d) == Here(d) /\ ~row[d].deleted
InChain(c) == {d \in Docs : Live(d) /\ row[d].chain = c}

\* Only archives are linked; the next number looks at live versions only.
LinkToChain(d) ==
    /\ Doing(d, "link") /\ Posted(d)
    /\ row' = IF Form[d].zip
                  THEN [row EXCEPT ![d].chain = ChainKey(d, auth),
                                   ![d].no = 1 + Max({0} \cup {row[e].no : e \in InChain(ChainKey(d, auth))})]
                  ELSE row
    /\ req' = Touch(d)
    /\ UNCHANGED <<auth, made, writes>>

UploadStep(d) == Insert(d) \/ SetSessionOwner(d) \/ SetSessionMetadata(d) \/ LinkToChain(d)

(***************************************************************************)
(* What all handlers do.                                                   *)
(***************************************************************************)
Home == {"list", "search"}
Writing == Edits \cup {"delete", "update"}

\* A caller past the authentication middleware is a user, or nobody when it is
\* off.  Anybody may ask for a session that is not there.
Arrive(r, k, u, d, ask) ==
    /\ req[r].status = "off"
    /\ IF k \in Writing THEN writes < MaxWrites /\ writes' = writes + 1 ELSE UNCHANGED writes
    /\ req' = [req EXCEPT ![r] = [Blank EXCEPT
                 !.status = "busy", !.kind = k, !.uid = u,
                 !.doc = d, !.ask = ask, !.page = ask.page]]
    /\ UNCHANGED <<auth, made, row, posted>>

At(r, statement) == req[r].status = "busy" /\ Statements(req[r].kind)[req[r].next] = statement

\* The request after its current statement, which made it new.
Then(new) ==
    [new EXCEPT !.next = @ + 1,
                !.status = IF new.next = Len(Statements(new.kind)) THEN "done" ELSE "busy"]

\* An error answer: 400, 403, 404 or 500.
Refused(r) == req' = [req EXCEPT ![r] = Blank]
ContinueIf(r, condition) ==
    IF condition THEN req' = [req EXCEPT ![r] = Then(@)] ELSE Refused(r)

Leave(r) ==
    /\ req[r].status = "done" /\ Refused(r)
    /\ UNCHANGED <<auth, made, row, posted, writes>>

\* A store statement fails, or the client is gone.
Fails(r) ==
    /\ req[r].status = "busy" /\ Refused(r)
    /\ UNCHANGED <<auth, made, row, posted, writes>>

RequireSession(r) ==
    /\ At(r, "session") /\ ContinueIf(r, Here(req[r].doc))
    /\ UNCHANGED <<auth, made, row, posted, writes>>

RequireOwner(r) ==
    LET d == req[r].doc
    IN  /\ At(r, "owner")
        /\ ContinueIf(r, req[r].uid = Nobody \/ (Here(d) /\ row[d].owner = req[r].uid))
        /\ UNCHANGED <<auth, made, row, posted, writes>>

(***************************************************************************)
(* Edits: AddTags, RemoveTags, SetCategory, SetProject, SoftDelete, and    *)
(* the files of an update.                                                 *)
(***************************************************************************)
Edited(old, kind, w) ==
    CASE kind = "add" -> [old EXCEPT !.tags = @ \cup {w}]
      [] kind = "remove" -> [old EXCEPT !.tags = @ \ {w}]
      [] kind = "categorize" -> [old EXCEPT !.category = w]
      [] kind = "place" -> [old EXCEPT !.project = w]
      [] kind = "delete" -> [old EXCEPT !.deleted = TRUE]
      [] kind = "update" -> [old EXCEPT !.text = w]

Write(r) ==
    LET d == req[r].doc
        new == Edited(row[d], req[r].kind, req[r].ask.word)
    IN  /\ At(r, "write")
        /\ IF ~Here(d) THEN Refused(r) /\ UNCHANGED row    \* no row was affected
           ELSE /\ row' = [row EXCEPT ![d] = new]
                /\ req' = [(IF new = row[d] THEN req ELSE Touch(d))
                             EXCEPT ![r] = Then([req[r] EXCEPT !.touched = {}])]
        /\ UNCHANGED <<auth, made, posted, writes>>

ReadMetadata(r) ==
    \E part \in MetaParts :
        /\ At(r, part)
        /\ req' = [req EXCEPT ![r] = Then([@ EXCEPT !.meta[part] = row[req[r].doc][part]])]
        /\ UNCHANGED <<auth, made, row, posted, writes>>

(***************************************************************************)
(* The home page.                                                          *)
(***************************************************************************)
CreatedAt(d) == CHOOSE i \in DOMAIN made : made[i] = d
Newest(S) == Ordered(S, [d \in S |-> -CreatedAt(d)])

\* LIMIT n OFFSET off.
Slice(s, off, n) == SubSeq(s, off + 1, Min({off + n, Len(s)}))

Scope(r) == {d \in Docs : Live(d) /\ (req[r].uid # Nobody => row[d].owner = req[r].uid)}

Filtered(r) ==
    LET f == req[r].ask.filter
    IN  {d \in Scope(r) : /\ f.tag = None \/ f.tag \in row[d].tags
                          /\ f.category \in {None, row[d].category}
                          /\ f.project \in {None, row[d].project}}

MetaMatches(r) == {d \in Filtered(r) : req[r].ask.word \in row[d].tags \cup {row[d].category, row[d].project}}
FileMatches(r) == {d \in Docs : row[d].text = req[r].ask.word}

\* A plausible bug: the page asked for is not clamped.
ClampedPageNot(page, total) == page
ClampedPage(page, total) == Min({page, Max({1, (total + PageSize - 1) \div PageSize})})

\* A plausible bug: no documents make no page.
CountNoPage(r) ==
    LET total == Cardinality(Filtered(r))
        page == Min({req[r].page, (total + PageSize - 1) \div PageSize})
    IN  /\ At(r, "count")
        /\ req' = [req EXCEPT ![r] = Then([@ EXCEPT !.total = total, !.page = page])]
        /\ UNCHANGED <<auth, made, row, posted, writes>>

CountDocuments(r) ==
    LET total == Cardinality(Filtered(r))
    IN  /\ At(r, "count")
        /\ req' = [req EXCEPT ![r] =
                     Then([@ EXCEPT !.total = total, !.page = ClampedPage(req[r].page, total)])]
        /\ UNCHANGED <<auth, made, row, posted, writes>>

PageOf(s, page) == Slice(s, (page - 1) * PageSize, PageSize)

ListPage(r) ==
    /\ At(r, "page")
    /\ req' = [req EXCEPT ![r] = Then([@ EXCEPT !.found = PageOf(Newest(Filtered(r)), req[r].page)])]
    /\ UNCHANGED <<auth, made, row, posted, writes>>

SearchDocuments(r) ==
    /\ At(r, "search")
    /\ req' = [req EXCEPT ![r] = Then([@ EXCEPT !.found = Newest(MetaMatches(r))])]
    /\ UNCHANGED <<auth, made, row, posted, writes>>

\* A plausible bug: the second list is limited to a page as well.
ListOnePage(r) ==
    /\ At(r, "list")
    /\ req' = [req EXCEPT ![r] = Then([@ EXCEPT !.others = Slice(Newest(Filtered(r)), 0, PageSize)])]
    /\ UNCHANGED <<auth, made, row, posted, writes>>

ListDocuments(r) ==
    /\ At(r, "list")
    /\ req' = [req EXCEPT ![r] = Then([@ EXCEPT !.others = Newest(Filtered(r))])]
    /\ UNCHANGED <<auth, made, row, posted, writes>>

\* The files of the listed documents that did not match by their metadata are
\* read, in the order of the list; the whole result stays in others.  A file that
\* cannot be opened or read, or has the word beyond its first 10 MB, is no match.
Grep(r) ==
    LET q == req[r]
        matching == (ToSet(q.others) \ ToSet(q.found)) \cap FileMatches(r)
    IN  /\ At(r, "grep")
        /\ \E unread \in SUBSET matching :
              LET all == q.found \o Newest(matching \ unread)
                  page == ClampedPage(q.page, Len(all))
              IN  req' = [req EXCEPT ![r] = Then([@ EXCEPT
                            !.others = all, !.total = Len(all), !.page = page,
                            !.found = PageOf(all, page), !.unread = unread])]
        /\ UNCHANGED <<auth, made, row, posted, writes>>

(***************************************************************************)
(* Peers.                                                                  *)
(***************************************************************************)
\* A plausible bug: the session is its own peer.
PeersAndItself(r, part) ==
    LET w == req[r].meta[part]
        alike == {d \in Scope(r) : row[d][part] = w}
    IN  IF w = None THEN <<>> ELSE Slice(Newest(alike), 0, PeerLimit)

Peers(r, part) ==
    LET w == req[r].meta[part]
        alike == {d \in Scope(r) \ {req[r].doc} : row[d][part] = w}
    IN  IF w = None THEN <<>> ELSE Slice(Newest(alike), 0, PeerLimit)

PeersByCategory(r) ==
    /\ At(r, "byCategory")
    /\ req' = [req EXCEPT ![r] = Then([@ EXCEPT !.found = Peers(r, "category")])]
    /\ UNCHANGED <<auth, made, row, posted, writes>>

PeersByProject(r) ==
    /\ At(r, "byProject")
    /\ req' = [req EXCEPT ![r] = Then([@ EXCEPT !.others = Peers(r, "project")])]
    /\ UNCHANGED <<auth, made, row, posted, writes>>

(***************************************************************************)
(* Chain and diff.                                                         *)
(***************************************************************************)
Version(d) == [doc |-> d, no |-> row[d].no, meta |-> MetaOf(d)]

\* A session in no chain is a view of one version, which the diff view then does
\* not find under a number from 1.
Unlinked(r) ==
    IF req[r].kind = "diff" THEN Refused(r)
    ELSE req' = [req EXCEPT ![r].status = "done",
                            ![r].versions = <<[Version(req[r].doc) EXCEPT !.meta = req[r].meta]>>]

\* A plausible bug: deleted_at is not looked at.
ReadAnyRow(r) ==
    /\ At(r, "row")
    /\ IF row[req[r].doc].chain = None THEN Unlinked(r) ELSE ContinueIf(r, TRUE)
    /\ UNCHANGED <<auth, made, row, posted, writes>>

ReadRow(r) ==
    LET d == req[r].doc
    IN  /\ At(r, "row")
        /\ IF row[d].deleted THEN Refused(r)
           ELSE IF row[d].chain = None THEN Unlinked(r) ELSE ContinueIf(r, TRUE)
        /\ UNCHANGED <<auth, made, row, posted, writes>>

\* The live versions of a session's chain, which it has for good once linked.
ChainVersions(d) ==
    LET members == Ordered(InChain(row[d].chain), [e \in Docs |-> row[e].no])
    IN  [i \in DOMAIN members |-> Version(members[i])]

VersionSession(versions, no) == {versions[i].doc : i \in {j \in DOMAIN versions : versions[j].no = no}}

ListVersions(r) ==
    LET q == req[r]
        vs == ChainVersions(q.doc)
        from == VersionSession(vs, q.ask.pair[1])
        to == VersionSession(vs, q.ask.pair[2])
        resolves == q.kind = "diff" /\ from # {} /\ to # {} /\ from # to
        sides == IF resolves THEN <<CHOOSE d \in from : TRUE, CHOOSE d \in to : TRUE>> ELSE <<>>
    IN  /\ At(r, "versions")
        /\ IF IF q.kind = "diff" THEN resolves ELSE \E i \in DOMAIN vs : vs[i].doc = q.doc
               THEN req' = [req EXCEPT ![r] = Then([@ EXCEPT !.versions = vs, !.found = sides])]
               ELSE Refused(r)
        /\ UNCHANGED <<auth, made, row, posted, writes>>

\* A plausible bug: a version is compared with the one after it.
DiffVersionsBackwards(from, to) ==
    [from |-> from.no, to |-> to.no,
     added |-> from.meta.tags \ to.meta.tags, removed |-> to.meta.tags \ from.meta.tags,
     categoryOld |-> from.meta.category, categoryNew |-> to.meta.category,
     projectOld |-> from.meta.project, projectNew |-> to.meta.project]

DiffVersions(from, to) ==
    [from |-> from.no, to |-> to.no,
     added |-> to.meta.tags \ from.meta.tags, removed |-> from.meta.tags \ to.meta.tags,
     categoryOld |-> from.meta.category, categoryNew |-> to.meta.category,
     projectOld |-> from.meta.project, projectNew |-> to.meta.project]

\* The versions are read again; the first one is compared with nothing.
DiffChainMetadata(r) ==
    LET vs == ChainVersions(req[r].doc)
        before(i) == IF i = 1 THEN [no |-> 0, meta |-> NoMeta] ELSE vs[i - 1]
    IN  /\ At(r, "diffs")
        /\ req' = [req EXCEPT ![r] = Then([@ EXCEPT
                     !.diffs = [i \in DOMAIN vs |-> DiffVersions(before(i), vs[i])]])]
        /\ UNCHANGED <<auth, made, row, posted, writes>>

\* A plausible bug: one file is read twice.
ReadOneSide(r) ==
    /\ At(r, "from") \/ At(r, "to")
    /\ req' = [req EXCEPT ![r] = Then([@ EXCEPT !.texts = Append(req[r].texts, row[req[r].found[1]].text)])]
    /\ UNCHANGED <<auth, made, row, posted, writes>>

\* The two files are read one after the other, deleted or not; one that cannot be
\* read is an empty text.
ReadSessionHTML(r) ==
    LET q == req[r]
        side == q.found[IF At(r, "from") THEN 1 ELSE 2]
    IN  /\ At(r, "from") \/ At(r, "to")
        /\ \/ req' = [req EXCEPT ![r] = Then([@ EXCEPT !.texts = Append(q.texts, row[side].text)])]
           \/ req' = [req EXCEPT ![r] = Then([@ EXCEPT !.texts = Append(q.texts, None),
                                                      !.unread = q.unread \cup {side}])]
        /\ UNCHANGED <<auth, made, row, posted, writes>>

HandlerStep(r) ==
    \/ RequireSession(r) \/ RequireOwner(r) \/ Write(r) \/ ReadMetadata(r)
    \/ CountDocuments(r) \/ ListPage(r) \/ SearchDocuments(r) \/ ListDocuments(r) \/ Grep(r)
    \/ PeersByCategory(r) \/ PeersByProject(r)
    \/ ReadRow(r) \/ ListVersions(r) \/ DiffChainMetadata(r) \/ ReadSessionHTML(r)

Next ==
    \/ \E d \in Docs : UploadStep(d)
    \/ \E r \in Requests : \E k \in Serves[r], u \in Callers :
          \E d \in IF k \in Home THEN {None} ELSE Docs, ask \in Asks[k] : Arrive(r, k, u, d, ask)
    \/ \E r \in Requests : HandlerStep(r) \/ Leave(r) \/ Fails(r)

Spec == Init /\ [][Next]_vars

(***************************************************************************)
(* Properties.  Someone's change between two statements of a request may   *)
(* show in its answer; a session nobody touched must show as it is.        *)
(***************************************************************************)
Done(r, kinds) == req[r].status = "done" /\ req[r].kind \in kinds

\* The sessions an answer names: metadata and peers name the one asked about too.
Shown(r) ==
    LET q == req[r]
    IN  ToSet(q.found) \cup {q.versions[i].doc : i \in DOMAIN q.versions}
          \cup (IF q.kind = "peers" THEN ToSet(q.others) ELSE {})
          \cup (IF q.kind \in {"metadata", "peers"} THEN {q.doc} ELSE {})

(***************************************************************************)
(* No answer to a user names somebody else's session.  Chain and diff do   *)
(* not look at the owner of the other versions: that rests on the key      *)
(* LinkToChain chose when each was uploaded (GetChainOfSession).           *)
(***************************************************************************)
AnswersStayWithTheOwner ==
    \A r \in Requests : Done(r, Views) /\ req[r].uid # Nobody =>
        \A d \in Shown(r) : row[d].owner = req[r].uid

(***************************************************************************)
(* A session deleted before a request arrived is in no list, search        *)
(* result, peer list, chain or diff it is answered (soft deletion over     *)
(* handlers of several statements).  Only who asks for the metadata or the *)
(* peers of a deleted session by its own id is still answered, with that   *)
(* session as the current one (handleGetPeers does not look at             *)
(* deleted_at, although the peers API promises 404).                       *)
(***************************************************************************)
DeletedStayHidden ==
    \A r \in Requests : Done(r, Views) =>
        \A d \in Shown(r) : row[d].deleted =>
            \/ d \in req[r].touched
            \/ d = req[r].doc /\ req[r].kind \in {"metadata", "peers"}

(***************************************************************************)
(* A search that runs while documents change finds every document nobody   *)
(* changed that matches, by metadata or by content, and none twice,        *)
(* although it is put together from two queries and the files              *)
(* (handleHome).  What it misses is a match by content alone whose file    *)
(* fileContentContains could not read, or not as far as the word.          *)
(***************************************************************************)
SearchMissesNothing ==
    \A r \in Requests : Done(r, {"search"}) =>
        /\ IsInjective(req[r].others)
        /\ Filtered(r) \cap (MetaMatches(r) \cup (FileMatches(r) \ req[r].unread))
             \subseteq ToSet(req[r].others) \cup req[r].touched

(***************************************************************************)
(* When nothing changes meanwhile, a page of the home page holds the       *)
(* documents of its ranks, newest first (metadata matches before content   *)
(* matches, as far as the files could be read), and is empty only when     *)
(* nothing matches (handleHome's clamp, LIMIT and OFFSET, and its slice in *)
(* memory).                                                                *)
(***************************************************************************)
PagesFollowTheRanks ==
    \A r \in Requests : Done(r, Home) /\ req[r].touched = {} =>
        LET q == req[r]
            byMeta(d) == q.kind = "list" \/ d \in MetaMatches(r)
            matching == {d \in Filtered(r) : byMeta(d) \/ d \in FileMatches(r) \ q.unread}
            age(d) == CHOOSE i \in DOMAIN made : made[i] = d
            before(d) == {e \in matching : IF byMeta(e) = byMeta(d) THEN age(e) > age(d) ELSE byMeta(e)}
        IN  /\ q.total = Cardinality(matching)
            /\ ToSet(q.found) = {d \in matching : Cardinality(before(d)) \div PageSize = q.page - 1}
            /\ \A i \in DOMAIN q.found : Cardinality(before(q.found[i])) % PageSize = i - 1
            /\ q.found = <<>> => matching = {}

(***************************************************************************)
(* An edit is answered with the metadata it left behind, when nobody else  *)
(* changed the session since (writeMetaOrError reads in three statements). *)
(***************************************************************************)
EditsAnswerWhatTheyLeft ==
    \A r \in Requests : Done(r, Edits) /\ req[r].doc \notin req[r].touched =>
        /\ req[r].meta = MetaOf(req[r].doc)
        /\ row[req[r].doc] = Edited(row[req[r].doc], req[r].kind, req[r].ask.word)

(***************************************************************************)
(* Peers share the category, and the project, that the answer shows for    *)
(* the session; nobody's unchanged peer is missing while there is room     *)
(* (GetPeersForOwner: five statements).                                    *)
(***************************************************************************)
PeersAreAlike ==
    \A r \in Requests : Done(r, {"peers"}) =>
        \A part \in {"category", "project"} :
            LET peers == IF part = "category" THEN req[r].found ELSE req[r].others
                alike(d) == row[d][part] = req[r].meta[part] /\ d # req[r].doc
            IN  /\ \A d \in ToSet(peers) \ req[r].touched : alike(d)
                /\ Len(peers) <= PeerLimit
                /\ req[r].meta[part] # None /\ Len(peers) < PeerLimit =>
                      {d \in Scope(r) : alike(d)} \subseteq ToSet(peers) \cup req[r].touched

(***************************************************************************)
(* A chain view has the session asked about exactly once, in versions of   *)
(* increasing number, and each of its metadata differences, applied to the *)
(* version before (the first to nothing), gives the version's metadata     *)
(* when nothing changed meanwhile (handleGetChain reads the versions       *)
(* twice).                                                                 *)
(***************************************************************************)
ChainViewIsOneHistory ==
    \A r \in Requests : Done(r, {"chain"}) =>
        LET vs == req[r].versions
            ds == req[r].diffs
            before(n) == IF n = 1 THEN [no |-> 0, meta |-> NoMeta]
                         ELSE [no |-> vs[n - 1].no, meta |-> vs[n - 1].meta]
        IN  /\ \E i \in DOMAIN vs : vs[i].doc = req[r].doc
            /\ \A i, j \in DOMAIN vs : i < j => vs[i].no < vs[j].no /\ vs[i].doc # vs[j].doc
            /\ req[r].touched = {} /\ row[req[r].doc].chain # None =>
                  /\ Len(ds) = Len(vs)
                  /\ \A n \in DOMAIN vs :
                        /\ ds[n].from = before(n).no /\ ds[n].to = vs[n].no
                        /\ (before(n).meta.tags \ ds[n].removed) \cup ds[n].added = vs[n].meta.tags
                        /\ ds[n].categoryOld = before(n).meta.category
                        /\ ds[n].categoryNew = vs[n].meta.category
                        /\ ds[n].projectOld = before(n).meta.project
                        /\ ds[n].projectNew = vs[n].meta.project

(***************************************************************************)
(* A diff compares two different sessions of the chain asked about, which  *)
(* carry the numbers asked for, and takes for each its own file as it is   *)
(* unless somebody changed it meanwhile, or the empty text when that file  *)
(* could not be read (handleGetDiff, versionSessionID, readSessionHTML).   *)
(***************************************************************************)
DiffsCompareTheNamedVersions ==
    \A r \in Requests : Done(r, {"diff"}) =>
        LET q == req[r]
        IN  /\ q.found[1] # q.found[2]
            /\ \A i \in 1..2 :
                  /\ row[q.found[i]].chain = row[q.doc].chain
                  /\ row[q.found[i]].no = q.ask.pair[i]
                  /\ q.found[i] \notin q.touched =>
                        q.texts[i] = IF q.found[i] \in q.unread THEN None ELSE row[q.found[i]].text
=============================================================================
