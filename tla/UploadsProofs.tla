----------------------------- MODULE UploadsProofs -----------------------------
(***************************************************************************)
(* Proofs about Uploads for every set of uploads, users and documents and  *)
(* every budget of faults.                                                 *)
(***************************************************************************)
EXTENDS Uploads, SequenceTheorems, TLAPS

(***************************************************************************)
(* What the statements do to the tables, column by column.                 *)
(***************************************************************************)

\* A statement changed the connection's tables, and has committed by itself if
\* no transaction is open.
Executed ==
    /\ db' \in Tables
    /\ disk' = IF inTxn THEN disk ELSE db'
    /\ inTxn' = inTxn

\* INSERT INTO sessions makes a live row.
RowInserted(u) ==
    /\ Executed
    /\ pc[u] = "insert" /\ GoTo(u, "owner") /\ UNCHANGED <<req, loc, gone, faults>>
    /\ files' = [files EXCEPT ![u] = IF req[u].kind = "zip" THEN "kept" ELSE "none"]
    /\ db'.state = [db.state EXCEPT ![u] = "live"]
    /\ db'.owner = db.owner /\ db'.meta = db.meta
    /\ db'.chain = db.chain /\ db'.ver = db.ver /\ db'.chains = db.chains

\* SetSessionOwner touches the owner column at most.
OwnerAssigned(u) ==
    /\ Executed \/ UNCHANGED tables
    /\ pc[u] = "owner" /\ GoTo(u, "tags") /\ UNCHANGED <<req, loc, files, gone, faults>>
    /\ db'.owner = IF db.state[u] = "absent" \/ req[u].user = Anon
                   THEN db.owner
                   ELSE [db.owner EXCEPT ![u] = req[u].user]
    /\ db'.state = db.state /\ db'.meta = db.meta
    /\ db'.chain = db.chain /\ db'.ver = db.ver /\ db'.chains = db.chains

\* The three metadata statements touch the metadata tables only.
MetadataSet(u) ==
    /\ Executed
    /\ pc[u] \in Meta
    /\ pc[u] = "tags" => ~inTxn
    /\ db.state[u] # "absent"
    /\ \/ pc[u] = "tags" /\ GoTo(u, "category") /\ UNCHANGED loc
       \/ pc[u] = "category" /\ GoTo(u, "project") /\ UNCHANGED loc
       \/ pc[u] = "project" /\ GoTo(u, "begin") /\ UNCHANGED loc
       \/ pc[u] = "project" /\ Answer(u, "201", 0, 0)
    /\ UNCHANGED <<req, files, gone, faults>>
    /\ db'.meta = [db.meta EXCEPT ![u] = @ \cup {pc[u]}]
    /\ db'.state = db.state /\ db'.owner = db.owner
    /\ db'.chain = db.chain /\ db'.ver = db.ver /\ db'.chains = db.chains

\* INSERT INTO document_chains only ever adds a row at the end.
ChainInserted(u) ==
    /\ Executed \/ UNCHANGED tables
    /\ pc[u] = "chain" /\ GoTo(u, "select") /\ UNCHANGED <<req, loc, files, gone, faults>>
    /\ DOMAIN db.chains \subseteq DOMAIN db'.chains
    /\ \A i \in DOMAIN db.chains : db'.chains[i] = db.chains[i]
    /\ db'.state = db.state /\ db'.owner = db.owner /\ db'.meta = db.meta
    /\ db'.chain = db.chain /\ db'.ver = db.ver

\* LinkToChain's UPDATE touches the chain and version of its own row only.
RowLinked(u) ==
    /\ Executed
    /\ pc[u] = "update" /\ GoTo(u, "commit") /\ UNCHANGED <<req, loc, files, gone, faults>>
    /\ db'.chain = [db.chain EXCEPT ![u] = loc[u].chain]
    /\ db'.ver = [db.ver EXCEPT ![u] = loc[u].ver]
    /\ db'.state = db.state /\ db'.owner = db.owner /\ db'.meta = db.meta
    /\ db'.chains = db.chains

\* SoftDelete marks a row that is there and changes nothing else.
RowDeleted(u) ==
    /\ Executed \/ UNCHANGED tables
    /\ UNCHANGED <<handlerVars, faults>>
    /\ db'.state = IF db.state[u] = "absent" THEN db.state
                   ELSE [db.state EXCEPT ![u] = "deleted"]
    /\ gone' = IF db.state[u] = "absent" THEN gone ELSE gone \cup {u}
    /\ db'.owner = db.owner /\ db'.meta = db.meta
    /\ db'.chain = db.chain /\ db'.ver = db.ver /\ db'.chains = db.chains

\* What InsertRow does, column by column.
LEMMA InsertRowEffect ==
    ASSUME TypeOK, NEW u \in Uploads, InsertRow(u)
    PROVE  RowInserted(u)
<1> USE DEF RowInserted
<1>1. /\ db' = [db EXCEPT !.state[u] = "live"]
      /\ pc[u] = "insert" /\ GoTo(u, "owner") /\ UNCHANGED <<req, loc, gone, faults>>
      /\ files' = [files EXCEPT ![u] = IF req[u].kind = "zip" THEN "kept" ELSE "none"]
  BY DEF InsertRow, Execute, deleteVars
<1>2. db \in Tables /\ inTxn' = inTxn /\ disk' = IF inTxn THEN disk ELSE db'
  BY DEF TypeOK, InsertRow, Execute
<1> QED
  BY <1>1, <1>2 DEF Executed, Tables

\* What AssignOwner does, column by column.
LEMMA AssignOwnerEffect ==
    ASSUME TypeOK, NEW u \in Uploads, AssignOwner(u)
    PROVE  OwnerAssigned(u)
<1> USE DEF OwnerAssigned
<1>0. pc[u] = "owner" /\ GoTo(u, "tags") /\ UNCHANGED <<req, loc, files, gone, faults>>
  BY DEF AssignOwner, deleteVars
<1>1. CASE db.state[u] = "absent" \/ req[u].user = Anon
  BY <1>0, <1>1 DEF AssignOwner, tables
<1>2. CASE ~(db.state[u] = "absent" \/ req[u].user = Anon)
  <2>1. db' = [db EXCEPT !.owner[u] = req[u].user]
    BY <1>2 DEF AssignOwner, Execute
  <2>2. db \in Tables /\ inTxn' = inTxn /\ disk' = IF inTxn THEN disk ELSE db'
    BY <1>2 DEF TypeOK, AssignOwner, Execute
  <2>3. req[u].user \in Owners
    BY DEF TypeOK, HandlersTyped, Requests
  <2> QED
    BY <1>0, <1>2, <2>1, <2>2, <2>3 DEF Executed, Tables
<1> QED
  BY <1>0, <1>1, <1>2

\* What the metadata statements do, column by column.
LEMMA MetadataEffect ==
    ASSUME TypeOK, NEW u \in Uploads, SetTags(u) \/ SetCategory(u) \/ SetProject(u)
    PROVE  MetadataSet(u)
<1> USE DEF MetadataSet
<1>1. pc[u] \in Meta /\ db' = [db EXCEPT !.meta[u] = @ \cup {pc[u]}]
  BY DEF SetTags, SetCategory, SetProject, Execute, Meta
<1>2. db \in Tables /\ inTxn' = inTxn /\ disk' = IF inTxn THEN disk ELSE db'
  BY DEF TypeOK, SetTags, SetCategory, SetProject, Execute
<1>3. /\ pc[u] = "tags" => ~inTxn
      /\ db.state[u] # "absent"
      /\ \/ pc[u] = "tags" /\ GoTo(u, "category") /\ UNCHANGED loc
         \/ pc[u] = "category" /\ GoTo(u, "project") /\ UNCHANGED loc
         \/ pc[u] = "project" /\ GoTo(u, "begin") /\ UNCHANGED loc
         \/ pc[u] = "project" /\ Answer(u, "201", 0, 0)
      /\ UNCHANGED <<req, files, gone, faults>>
  BY DEF SetTags, SetCategory, SetProject, deleteVars
<1> QED
  BY <1>1, <1>2, <1>3 DEF Executed, Tables

\* What InsertChain does, column by column.
LEMMA InsertChainEffect ==
    ASSUME TypeOK, NEW u \in Uploads, InsertChain(u)
    PROVE  ChainInserted(u)
<1> USE DEF ChainInserted
<1>0. pc[u] = "chain" /\ GoTo(u, "select") /\ UNCHANGED <<req, loc, files, gone, faults>>
  BY DEF InsertChain, deleteVars
<1>1. CASE UNCHANGED tables
  BY <1>0, <1>1 DEF tables
<1>2. CASE ~UNCHANGED tables
  <2> DEFINE row == [doc |-> req[u].doc, owner |-> req[u].user]
  <2>1. db' = [db EXCEPT !.chains = Append(@, row)]
    BY <1>2 DEF InsertChain, Execute
  <2>2. db \in Tables /\ inTxn' = inTxn /\ disk' = IF inTxn THEN disk ELSE db'
    BY <1>2 DEF TypeOK, InsertChain, Execute
  <2>3. row \in [doc : Docs, owner : Owners]
    BY DEF TypeOK, HandlersTyped, Requests, InsertChain
  <2> HIDE DEF row
  <2>4. db.chains \in Seq([doc : Docs, owner : Owners])
    BY <2>2 DEF Tables
  <2>5. db'.chains = Append(db.chains, row)
    BY <2>1, <2>2 DEF Tables
  <2>6. /\ db'.chains \in Seq([doc : Docs, owner : Owners])
        /\ DOMAIN db.chains = 1..Len(db.chains)
        /\ DOMAIN db'.chains = 1..(Len(db.chains) + 1)
        /\ Len(db.chains) \in Nat
        /\ \A i \in 1..Len(db.chains) : db'.chains[i] = db.chains[i]
    BY <2>3, <2>4, <2>5, AppendProperties, LenProperties
  <2>7. /\ db' \in Tables
        /\ db'.state = db.state /\ db'.owner = db.owner /\ db'.meta = db.meta
        /\ db'.chain = db.chain /\ db'.ver = db.ver
    BY <2>1, <2>2, <2>5, <2>6 DEF Tables
  <2> QED
    BY <1>0, <2>2, <2>6, <2>7 DEF Executed
<1> QED
  BY <1>0, <1>1, <1>2

\* What UpdateRow does, column by column.
LEMMA UpdateRowEffect ==
    ASSUME TypeOK, NEW u \in Uploads, UpdateRow(u)
    PROVE  RowLinked(u)
<1> USE DEF RowLinked
<1>1. /\ db' = [db EXCEPT !.chain[u] = loc[u].chain, !.ver[u] = loc[u].ver]
      /\ pc[u] = "update" /\ GoTo(u, "commit") /\ UNCHANGED <<req, loc, files, gone, faults>>
  BY DEF UpdateRow, Execute, deleteVars
<1>2. db \in Tables /\ inTxn' = inTxn /\ disk' = IF inTxn THEN disk ELSE db'
  BY DEF TypeOK, UpdateRow, Execute
<1>3. loc[u].chain \in Nat /\ loc[u].ver \in Nat
  BY DEF TypeOK, HandlersTyped, Links
<1> QED
  BY <1>1, <1>2, <1>3 DEF Executed, Tables

\* What SoftDelete does, column by column.
LEMMA SoftDeleteEffect ==
    ASSUME TypeOK, NEW u \in Uploads, SoftDelete(u)
    PROVE  RowDeleted(u)
<1> USE DEF RowDeleted
<1>0. UNCHANGED <<handlerVars, faults>>
  BY DEF SoftDelete
<1>1. CASE db.state[u] = "absent"
  BY <1>0, <1>1 DEF SoftDelete, tables
<1>2. CASE db.state[u] # "absent"
  <2>1. db' = [db EXCEPT !.state[u] = "deleted"] /\ gone' = gone \cup {u}
    BY <1>2 DEF SoftDelete, Execute
  <2>2. db \in Tables /\ inTxn' = inTxn /\ disk' = IF inTxn THEN disk ELSE db'
    BY <1>2 DEF TypeOK, SoftDelete, Execute
  <2> QED
    BY <1>0, <1>2, <2>1, <2>2 DEF Executed, Tables
<1> QED
  BY <1>0, <1>1, <1>2

\* A step, with the statements replaced by what they do.
Effect ==
    \/ \E u \in Uploads :
        \/ \E kind \in Kinds, doc \in Docs, user \in Owners : Receive(u, kind, doc, user)
        \/ RejectArchive(u) \/ RowInserted(u) \/ OwnerAssigned(u)
        \/ MetadataSet(u) \/ TagsFail(u)
        \/ BeginLink(u) \/ LinkFailsToBegin(u) \/ ChainInserted(u) \/ SelectChain(u)
        \/ ReadMax(u) \/ RowLinked(u) \/ CommitLink(u) \/ AnswerLinked(u)
        \/ RollbackLink(u)
        \/ \E user \in Owners : RequireOwner(u, user)
        \/ RowDeleted(u) \/ StatementFails(u)
    \/ Crash
    \/ UNCHANGED vars

\* Every step has one of these effects.
LEMMA StepEffect == TypeOK /\ [Next]_vars => Effect
  BY InsertRowEffect, AssignOwnerEffect, MetadataEffect, InsertChainEffect,
     UpdateRowEffect, SoftDeleteEffect DEF Effect, Next, HandlerStep, DeleteStep

\* The part of TypeOK about the tables.
TablesTyped == db \in Tables /\ disk \in Tables /\ inTxn \in BOOLEAN

(***************************************************************************)
(* Types.                                                                  *)
(***************************************************************************)

\* The sets the handlers' own variables range over have these members.
LEMMA RecordsTyped ==
    /\ NoLink \in Links /\ Silent \in Replies
    /\ \A c, v \in Nat : [chain |-> c, ver |-> v] \in Links
    /\ \A code \in {"400", "500", "201"}, c, v \in Nat :
          [code |-> code, chain |-> c, ver |-> v] \in Replies
    /\ \A l \in Links : l.chain \in Nat /\ l.ver \in Nat
    /\ \A kind \in Kinds, doc \in Docs, user \in Owners :
          [kind |-> kind, doc |-> doc, user |-> user] \in Requests
  BY KindsAssumption DEF NoLink, Links, Silent, Replies, Requests

\* The columns of well-typed tables.
LEMMA ColumnsTyped ==
    ASSUME NEW t \in Tables
    PROVE  /\ t.state \in [Uploads -> {"absent", "live", "deleted"}]
           /\ t.owner \in [Uploads -> Owners]
           /\ t.meta \in [Uploads -> SUBSET Meta]
           /\ t.chain \in [Uploads -> Nat]
           /\ t.ver \in [Uploads -> Nat]
           /\ t.chains \in Seq([doc : Docs, owner : Owners])
           /\ DOMAIN t.chains \subseteq Nat \ {0}
<1>1. t.chains \in Seq([doc : Docs, owner : Owners])
  BY DEF Tables
<1>2. DOMAIN t.chains = 1..Len(t.chains) /\ Len(t.chains) \in Nat
  BY <1>1, LenProperties
<1> QED
  BY <1>1, <1>2 DEF Tables

\* The tables stay well typed.
LEMMA TablesStep ==
    IInv /\ [Next]_vars => TablesTyped'
<1> SUFFICES ASSUME IInv, Effect PROVE TablesTyped'
  BY StepEffect DEF IInv
<1> USE DEF vars, tables, handlerVars, deleteVars, GoTo, Answer, Silent, NoLink
<1>1. ASSUME NEW u \in Uploads, NEW kind \in Kinds, NEW doc \in Docs, NEW user \in Owners,
             Receive(u, kind, doc, user)
      PROVE  TablesTyped'
  BY <1>1 DEF Receive, IInv, TypeOK, TablesTyped
<1>2. ASSUME NEW u \in Uploads, RejectArchive(u) PROVE TablesTyped'
  BY <1>2 DEF RejectArchive, IInv, TypeOK, TablesTyped
<1>3. ASSUME NEW u \in Uploads, RowInserted(u) PROVE TablesTyped'
  BY <1>3 DEF RowInserted, IInv, TypeOK, TablesTyped, Executed
<1>4. ASSUME NEW u \in Uploads, OwnerAssigned(u) PROVE TablesTyped'
  BY <1>4 DEF OwnerAssigned, IInv, TypeOK, TablesTyped, Executed
<1>5. ASSUME NEW u \in Uploads, MetadataSet(u) PROVE TablesTyped'
  BY <1>5 DEF MetadataSet, IInv, TypeOK, TablesTyped, Executed
<1>6. ASSUME NEW u \in Uploads, TagsFail(u) PROVE TablesTyped'
  BY <1>6 DEF TagsFail, IInv, TypeOK, TablesTyped
<1>7. ASSUME NEW u \in Uploads, BeginLink(u) PROVE TablesTyped'
  BY <1>7 DEF BeginLink, IInv, TypeOK, TablesTyped
<1>8. ASSUME NEW u \in Uploads, LinkFailsToBegin(u) PROVE TablesTyped'
  BY <1>8 DEF LinkFailsToBegin, IInv, TypeOK, TablesTyped
<1>9. ASSUME NEW u \in Uploads, ChainInserted(u) PROVE TablesTyped'
  BY <1>9 DEF ChainInserted, IInv, TypeOK, TablesTyped, Executed
<1>10. ASSUME NEW u \in Uploads, SelectChain(u) PROVE TablesTyped'
  BY <1>10 DEF SelectChain, IInv, TypeOK, TablesTyped
<1>11. ASSUME NEW u \in Uploads, ReadMax(u) PROVE TablesTyped'
  BY <1>11 DEF ReadMax, IInv, TypeOK, TablesTyped
<1>12. ASSUME NEW u \in Uploads, RowLinked(u) PROVE TablesTyped'
  BY <1>12 DEF RowLinked, IInv, TypeOK, TablesTyped, Executed
<1>13. ASSUME NEW u \in Uploads, CommitLink(u) PROVE TablesTyped'
  BY <1>13 DEF CommitLink, IInv, TypeOK, TablesTyped
<1>14. ASSUME NEW u \in Uploads, AnswerLinked(u) PROVE TablesTyped'
  BY <1>14 DEF AnswerLinked, IInv, TypeOK, TablesTyped
<1>15. ASSUME NEW u \in Uploads, RollbackLink(u) PROVE TablesTyped'
  BY <1>15 DEF RollbackLink, IInv, TypeOK, TablesTyped
<1>16. ASSUME NEW u \in Uploads, NEW user \in Owners, RequireOwner(u, user)
       PROVE  TablesTyped'
  BY <1>16 DEF RequireOwner, IInv, TypeOK, TablesTyped
<1>17. ASSUME NEW u \in Uploads, RowDeleted(u) PROVE TablesTyped'
  BY <1>17 DEF RowDeleted, IInv, TypeOK, TablesTyped, Executed
<1>18. ASSUME NEW u \in Uploads, StatementFails(u) PROVE TablesTyped'
  BY <1>18 DEF StatementFails, IInv, TypeOK, TablesTyped
<1>19. CASE Crash
  BY <1>19 DEF Crash, IInv, TypeOK, TablesTyped
<1>20. CASE UNCHANGED vars
  BY <1>20 DEF IInv, TypeOK, TablesTyped
<1> QED
  BY <1>1, <1>2, <1>3, <1>4, <1>5, <1>6, <1>7, <1>8, <1>9, <1>10, <1>11, <1>12,
     <1>13, <1>14, <1>15, <1>16, <1>17, <1>18, <1>19, <1>20 DEF Effect

\* The handlers' variables stay well typed.
LEMMA HandlersStep ==
    IInv /\ [Next]_vars => HandlersTyped'
<1> SUFFICES ASSUME IInv, Effect PROVE HandlersTyped'
  BY StepEffect DEF IInv
<1> USE DEF vars, tables, handlerVars, deleteVars, GoTo, Answer
<1>1. ASSUME NEW u \in Uploads, NEW kind \in Kinds, NEW doc \in Docs, NEW user \in Owners,
             Receive(u, kind, doc, user)
      PROVE  HandlersTyped'
  BY <1>1, RecordsTyped
     DEF Receive, IInv, TypeOK, HandlersTyped, UploadPC, InTxnPC
<1>2. ASSUME NEW u \in Uploads, RejectArchive(u) PROVE HandlersTyped'
  BY <1>2, RecordsTyped
     DEF RejectArchive, IInv, TypeOK, HandlersTyped, UploadPC, InTxnPC
<1>3. ASSUME NEW u \in Uploads, RowInserted(u) PROVE HandlersTyped'
  BY <1>3, RecordsTyped
     DEF RowInserted, IInv, TypeOK, HandlersTyped, UploadPC, InTxnPC
<1>4. ASSUME NEW u \in Uploads, OwnerAssigned(u) PROVE HandlersTyped'
  BY <1>4, RecordsTyped
     DEF OwnerAssigned, IInv, TypeOK, HandlersTyped, UploadPC, InTxnPC
<1>5. ASSUME NEW u \in Uploads, MetadataSet(u) PROVE HandlersTyped'
  <2>1. CASE loc' = loc /\ reply' = reply
    BY <1>5, <2>1 DEF MetadataSet, IInv, TypeOK, HandlersTyped, UploadPC, InTxnPC
  <2>2. CASE pc[u] = "project" /\ Answer(u, "201", 0, 0)
    BY <1>5, <2>2, RecordsTyped
       DEF MetadataSet, IInv, TypeOK, HandlersTyped, UploadPC, InTxnPC
  <2> QED
    BY <1>5, <2>1, <2>2 DEF MetadataSet
<1>6. ASSUME NEW u \in Uploads, TagsFail(u) PROVE HandlersTyped'
  BY <1>6, RecordsTyped
     DEF TagsFail, IInv, TypeOK, HandlersTyped, UploadPC, InTxnPC
<1>7. ASSUME NEW u \in Uploads, BeginLink(u) PROVE HandlersTyped'
  BY <1>7, RecordsTyped
     DEF BeginLink, IInv, TypeOK, HandlersTyped, UploadPC, InTxnPC
<1>8. ASSUME NEW u \in Uploads, LinkFailsToBegin(u) PROVE HandlersTyped'
  BY <1>8, RecordsTyped
     DEF LinkFailsToBegin, IInv, TypeOK, HandlersTyped, UploadPC, InTxnPC
<1>9. ASSUME NEW u \in Uploads, ChainInserted(u) PROVE HandlersTyped'
  BY <1>9, RecordsTyped
     DEF ChainInserted, IInv, TypeOK, HandlersTyped, UploadPC, InTxnPC
<1>10. ASSUME NEW u \in Uploads, SelectChain(u) PROVE HandlersTyped'
  BY <1>10, RecordsTyped, ColumnsTyped
     DEF SelectChain, IInv, TypeOK, HandlersTyped, UploadPC, InTxnPC
<1>11. ASSUME NEW u \in Uploads, ReadMax(u) PROVE HandlersTyped'
  <2>1. LiveNumbers(db, loc[u].chain) \subseteq Nat
    BY ColumnsTyped DEF IInv, TypeOK, LiveNumbers
  <2>2. PICK m \in Nat : loc' = [loc EXCEPT ![u] = [chain |-> loc[u].chain, ver |-> m + 1]]
    BY <1>11, <2>1 DEF ReadMax
  <2>3. [chain |-> loc[u].chain, ver |-> m + 1] \in Links
    BY RecordsTyped DEF IInv, TypeOK, HandlersTyped
  <2>4. loc' \in [Uploads -> Links]
    BY <2>2, <2>3 DEF IInv, TypeOK, HandlersTyped
  <2> QED
    BY <1>11, <2>4 DEF ReadMax, IInv, TypeOK, HandlersTyped, UploadPC, InTxnPC
<1>12. ASSUME NEW u \in Uploads, RowLinked(u) PROVE HandlersTyped'
  BY <1>12, RecordsTyped
     DEF RowLinked, IInv, TypeOK, HandlersTyped, UploadPC, InTxnPC
<1>13. ASSUME NEW u \in Uploads, CommitLink(u) PROVE HandlersTyped'
  BY <1>13, RecordsTyped
     DEF CommitLink, IInv, TypeOK, HandlersTyped, UploadPC, InTxnPC
<1>14. ASSUME NEW u \in Uploads, AnswerLinked(u) PROVE HandlersTyped'
  BY <1>14, RecordsTyped
     DEF AnswerLinked, IInv, TypeOK, HandlersTyped, UploadPC, InTxnPC
<1>15. ASSUME NEW u \in Uploads, RollbackLink(u) PROVE HandlersTyped'
  BY <1>15, RecordsTyped
     DEF RollbackLink, IInv, TypeOK, HandlersTyped, UploadPC, InTxnPC
<1>16. ASSUME NEW u \in Uploads, NEW user \in Owners, RequireOwner(u, user)
       PROVE  HandlersTyped'
  BY <1>16, RecordsTyped
     DEF RequireOwner, IInv, TypeOK, HandlersTyped, UploadPC, InTxnPC
<1>17. ASSUME NEW u \in Uploads, RowDeleted(u) PROVE HandlersTyped'
  BY <1>17, RecordsTyped
     DEF RowDeleted, IInv, TypeOK, HandlersTyped, UploadPC, InTxnPC
<1>18. ASSUME NEW u \in Uploads, StatementFails(u) PROVE HandlersTyped'
  <2> HIDE DEF Answer
  <2>1. CASE pc[u] \in {"insert", "owner", "tags", "category", "project"}
    <3>1. /\ Answer(u, "500", 0, 0) /\ req' = req
          /\ files' = IF pc[u] = "insert" THEN [files EXCEPT ![u] = "none"] ELSE files
      BY <1>18, <2>1 DEF StatementFails, InTxnPC
    <3> QED
      BY <3>1, RecordsTyped DEF Answer, IInv, TypeOK, HandlersTyped, UploadPC
  <2>2. CASE pc[u] = "begin"
    <3>1. Answer(u, "201", 0, 0) /\ req' = req /\ files' = files
      BY <1>18, <2>2 DEF StatementFails, InTxnPC
    <3> QED
      BY <3>1, RecordsTyped DEF Answer, IInv, TypeOK, HandlersTyped, UploadPC
  <2>3. CASE pc[u] \in InTxnPC
    BY <1>18, <2>3, RecordsTyped
       DEF StatementFails, IInv, TypeOK, HandlersTyped, UploadPC, InTxnPC
  <2> QED
    BY <1>18, <2>1, <2>2, <2>3 DEF StatementFails
<1>19. CASE Crash
  BY <1>19, RecordsTyped
     DEF Crash, IInv, TypeOK, HandlersTyped, UploadPC, InTxnPC
<1>20. CASE UNCHANGED vars
  BY <1>20, RecordsTyped DEF IInv, TypeOK, HandlersTyped, UploadPC, InTxnPC
<1> QED
  BY <1>1, <1>2, <1>3, <1>4, <1>5, <1>6, <1>7, <1>8, <1>9, <1>10, <1>11, <1>12,
     <1>13, <1>14, <1>15, <1>16, <1>17, <1>18, <1>19, <1>20 DEF Effect

\* One LinkToChain holds the transaction.
LEMMA HeldStep ==
    IInv /\ [Next]_vars => TransactionHeld'
<1> SUFFICES ASSUME IInv, Effect PROVE TransactionHeld'
  BY StepEffect DEF IInv
<1> USE DEF vars, tables, handlerVars, deleteVars, GoTo, Answer, Silent, NoLink
<1>1. ASSUME NEW u \in Uploads, NEW kind \in Kinds, NEW doc \in Docs, NEW user \in Owners,
             Receive(u, kind, doc, user)
      PROVE  TransactionHeld'
  BY <1>1 DEF Receive, IInv, TypeOK, HandlersTyped, TransactionHeld, InTxnPC
<1>2. ASSUME NEW u \in Uploads, RejectArchive(u) PROVE TransactionHeld'
  BY <1>2
     DEF RejectArchive, IInv, TypeOK, HandlersTyped, TransactionHeld, InTxnPC
<1>3. ASSUME NEW u \in Uploads, RowInserted(u) PROVE TransactionHeld'
  BY <1>3
     DEF RowInserted, IInv, TypeOK, HandlersTyped, TransactionHeld, InTxnPC,
        Executed
<1>4. ASSUME NEW u \in Uploads, OwnerAssigned(u) PROVE TransactionHeld'
  BY <1>4
     DEF OwnerAssigned, IInv, TypeOK, HandlersTyped, TransactionHeld, InTxnPC,
        Executed
<1>5. ASSUME NEW u \in Uploads, MetadataSet(u) PROVE TransactionHeld'
  BY <1>5
     DEF MetadataSet, IInv, TypeOK, HandlersTyped, TransactionHeld, InTxnPC,
        Executed
<1>6. ASSUME NEW u \in Uploads, TagsFail(u) PROVE TransactionHeld'
  BY <1>6 DEF TagsFail, IInv, TypeOK, HandlersTyped, TransactionHeld, InTxnPC
<1>7. ASSUME NEW u \in Uploads, BeginLink(u) PROVE TransactionHeld'
  BY <1>7 DEF BeginLink, IInv, TypeOK, HandlersTyped, TransactionHeld, InTxnPC
<1>8. ASSUME NEW u \in Uploads, LinkFailsToBegin(u) PROVE TransactionHeld'
  BY <1>8
     DEF LinkFailsToBegin, IInv, TypeOK, HandlersTyped, TransactionHeld,
        InTxnPC
<1>9. ASSUME NEW u \in Uploads, ChainInserted(u) PROVE TransactionHeld'
  BY <1>9
     DEF ChainInserted, IInv, TypeOK, HandlersTyped, TransactionHeld, InTxnPC,
        Executed
<1>10. ASSUME NEW u \in Uploads, SelectChain(u) PROVE TransactionHeld'
  BY <1>10
     DEF SelectChain, IInv, TypeOK, HandlersTyped, TransactionHeld, InTxnPC
<1>11. ASSUME NEW u \in Uploads, ReadMax(u) PROVE TransactionHeld'
  BY <1>11 DEF ReadMax, IInv, TypeOK, HandlersTyped, TransactionHeld, InTxnPC
<1>12. ASSUME NEW u \in Uploads, RowLinked(u) PROVE TransactionHeld'
  BY <1>12
     DEF RowLinked, IInv, TypeOK, HandlersTyped, TransactionHeld, InTxnPC,
        Executed
<1>13. ASSUME NEW u \in Uploads, CommitLink(u) PROVE TransactionHeld'
  BY <1>13
     DEF CommitLink, IInv, TypeOK, HandlersTyped, TransactionHeld, InTxnPC
<1>14. ASSUME NEW u \in Uploads, AnswerLinked(u) PROVE TransactionHeld'
  BY <1>14
     DEF AnswerLinked, IInv, TypeOK, HandlersTyped, TransactionHeld, InTxnPC
<1>15. ASSUME NEW u \in Uploads, RollbackLink(u) PROVE TransactionHeld'
  BY <1>15
     DEF RollbackLink, IInv, TypeOK, HandlersTyped, TransactionHeld, InTxnPC
<1>16. ASSUME NEW u \in Uploads, NEW user \in Owners, RequireOwner(u, user)
       PROVE  TransactionHeld'
  BY <1>16
     DEF RequireOwner, IInv, TypeOK, HandlersTyped, TransactionHeld, InTxnPC
<1>17. ASSUME NEW u \in Uploads, RowDeleted(u) PROVE TransactionHeld'
  BY <1>17
     DEF RowDeleted, IInv, TypeOK, HandlersTyped, TransactionHeld, InTxnPC,
        Executed
<1>18. ASSUME NEW u \in Uploads, StatementFails(u) PROVE TransactionHeld'
  BY <1>18
     DEF StatementFails, IInv, TypeOK, HandlersTyped, TransactionHeld, InTxnPC
<1>19. CASE Crash
  BY <1>19 DEF Crash, IInv, TypeOK, HandlersTyped, TransactionHeld, InTxnPC
<1>20. CASE UNCHANGED vars
  BY <1>20 DEF IInv, TypeOK, HandlersTyped, TransactionHeld, InTxnPC
<1> QED
  BY <1>1, <1>2, <1>3, <1>4, <1>5, <1>6, <1>7, <1>8, <1>9, <1>10, <1>11, <1>12,
     <1>13, <1>14, <1>15, <1>16, <1>17, <1>18, <1>19, <1>20 DEF Effect

\* TypeOK is preserved.
LEMMA TypeStep == IInv /\ [Next]_vars => TypeOK'
<1> SUFFICES ASSUME IInv, [Next]_vars PROVE TypeOK'
  OBVIOUS
<1>1. TablesTyped' /\ HandlersTyped' /\ TransactionHeld'
  BY TablesStep, HandlersStep, HeldStep
<1>2. /\ UNCHANGED auth \/ Crash
      /\ deleting' \cup gone' \subseteq deleting \cup gone \cup Uploads
      /\ UNCHANGED faults \/ (faults < MaxFaults /\ faults' = faults + 1)
  <2> USE DEF Next, HandlerStep, DeleteStep, vars, deleteVars, tables,
          handlerVars, Receive, RejectArchive, InsertRow, AssignOwner, SetTags,
          TagsFail, SetCategory, SetProject, BeginLink,
          LinkFailsToBegin, InsertChain, SelectChain, ReadMax, UpdateRow,
          CommitLink, AnswerLinked, RollbackLink, RequireOwner, SoftDelete,
          StatementFails, Crash
  <2>1. UNCHANGED auth \/ Crash
    BY ZenonT(40)
  <2>2. deleting' \cup gone' \subseteq deleting \cup gone \cup Uploads
    BY ZenonT(40)
  <2>3. UNCHANGED faults \/ (faults < MaxFaults /\ faults' = faults + 1)
    BY ZenonT(40)
  <2> QED
    BY <2>1, <2>2, <2>3
<1>3. auth' \in BOOLEAN
  BY <1>2, AuthAssumption DEF IInv, TypeOK, Crash
<1>4. deleting' \in SUBSET Uploads /\ gone' \in SUBSET Uploads
  BY <1>2 DEF IInv, TypeOK, Crash
<1>5. faults' \in 0..MaxFaults
  BY <1>2, FaultsAssumption DEF IInv, TypeOK
<1> QED
  BY <1>1, <1>3, <1>4, <1>5 DEF TypeOK, TablesTyped

(***************************************************************************)
(* The other parts of the inductive invariant.                             *)
(***************************************************************************)

\* What is committed lags behind the connection inside a transaction only.
LEMMA DiskStep ==
    IInv /\ [Next]_vars => DiskFollowsConnection'
<1> SUFFICES ASSUME IInv, Effect PROVE DiskFollowsConnection'
  BY StepEffect DEF IInv
<1> USE DEF vars, tables, handlerVars, deleteVars, GoTo, Answer, Silent, NoLink
<1>1. ASSUME NEW u \in Uploads, NEW kind \in Kinds, NEW doc \in Docs, NEW user \in Owners,
             Receive(u, kind, doc, user)
      PROVE  DiskFollowsConnection'
  BY <1>1, ColumnsTyped
     DEF Receive, IInv, TypeOK, HandlersTyped, InTxnPC, TransactionHeld,
        DiskFollowsConnection, RowFollowsHandler
<1>2. ASSUME NEW u \in Uploads, RejectArchive(u) PROVE DiskFollowsConnection'
  BY <1>2, ColumnsTyped
     DEF RejectArchive, IInv, TypeOK, HandlersTyped, InTxnPC, TransactionHeld,
        DiskFollowsConnection, RowFollowsHandler
<1>3. ASSUME NEW u \in Uploads, RowInserted(u) PROVE DiskFollowsConnection'
  BY <1>3, ColumnsTyped
     DEF RowInserted, IInv, TypeOK, HandlersTyped, InTxnPC, TransactionHeld,
        DiskFollowsConnection, RowFollowsHandler, Executed
<1>4. ASSUME NEW u \in Uploads, OwnerAssigned(u) PROVE DiskFollowsConnection'
  BY <1>4, ColumnsTyped
     DEF OwnerAssigned, IInv, TypeOK, HandlersTyped, InTxnPC, TransactionHeld,
        DiskFollowsConnection, RowFollowsHandler, Executed
<1>5. ASSUME NEW u \in Uploads, MetadataSet(u) PROVE DiskFollowsConnection'
  BY <1>5, ColumnsTyped
     DEF MetadataSet, IInv, TypeOK, HandlersTyped, InTxnPC, TransactionHeld,
        DiskFollowsConnection, RowFollowsHandler, Executed
<1>6. ASSUME NEW u \in Uploads, TagsFail(u) PROVE DiskFollowsConnection'
  BY <1>6, ColumnsTyped
     DEF TagsFail, IInv, TypeOK, HandlersTyped, InTxnPC, TransactionHeld,
        DiskFollowsConnection, RowFollowsHandler
<1>7. ASSUME NEW u \in Uploads, BeginLink(u) PROVE DiskFollowsConnection'
  BY <1>7, ColumnsTyped
     DEF BeginLink, IInv, TypeOK, HandlersTyped, InTxnPC, TransactionHeld,
        DiskFollowsConnection, RowFollowsHandler
<1>8. ASSUME NEW u \in Uploads, LinkFailsToBegin(u) PROVE DiskFollowsConnection'
  BY <1>8, ColumnsTyped
     DEF LinkFailsToBegin, IInv, TypeOK, HandlersTyped, InTxnPC,
        TransactionHeld, DiskFollowsConnection, RowFollowsHandler
<1>9. ASSUME NEW u \in Uploads, ChainInserted(u) PROVE DiskFollowsConnection'
  BY <1>9, ColumnsTyped
     DEF ChainInserted, IInv, TypeOK, HandlersTyped, InTxnPC, TransactionHeld,
        DiskFollowsConnection, RowFollowsHandler, Executed
<1>10. ASSUME NEW u \in Uploads, SelectChain(u) PROVE DiskFollowsConnection'
  BY <1>10, ColumnsTyped
     DEF SelectChain, IInv, TypeOK, HandlersTyped, InTxnPC, TransactionHeld,
        DiskFollowsConnection, RowFollowsHandler
<1>11. ASSUME NEW u \in Uploads, ReadMax(u) PROVE DiskFollowsConnection'
  BY <1>11, ColumnsTyped
     DEF ReadMax, IInv, TypeOK, HandlersTyped, InTxnPC, TransactionHeld,
        DiskFollowsConnection, RowFollowsHandler
<1>12. ASSUME NEW u \in Uploads, RowLinked(u) PROVE DiskFollowsConnection'
  BY <1>12, ColumnsTyped
     DEF RowLinked, IInv, TypeOK, HandlersTyped, InTxnPC, TransactionHeld,
        DiskFollowsConnection, RowFollowsHandler, Executed
<1>13. ASSUME NEW u \in Uploads, CommitLink(u) PROVE DiskFollowsConnection'
  BY <1>13, ColumnsTyped
     DEF CommitLink, IInv, TypeOK, HandlersTyped, InTxnPC, TransactionHeld,
        DiskFollowsConnection, RowFollowsHandler
<1>14. ASSUME NEW u \in Uploads, AnswerLinked(u) PROVE DiskFollowsConnection'
  BY <1>14, ColumnsTyped
     DEF AnswerLinked, IInv, TypeOK, HandlersTyped, InTxnPC, TransactionHeld,
        DiskFollowsConnection, RowFollowsHandler
<1>15. ASSUME NEW u \in Uploads, RollbackLink(u) PROVE DiskFollowsConnection'
  BY <1>15, ColumnsTyped
     DEF RollbackLink, IInv, TypeOK, HandlersTyped, InTxnPC, TransactionHeld,
        DiskFollowsConnection, RowFollowsHandler
<1>16. ASSUME NEW u \in Uploads, NEW user \in Owners, RequireOwner(u, user)
       PROVE  DiskFollowsConnection'
  BY <1>16, ColumnsTyped
     DEF RequireOwner, IInv, TypeOK, HandlersTyped, InTxnPC, TransactionHeld,
        DiskFollowsConnection, RowFollowsHandler
<1>17. ASSUME NEW u \in Uploads, RowDeleted(u) PROVE DiskFollowsConnection'
  BY <1>17, ColumnsTyped
     DEF RowDeleted, IInv, TypeOK, HandlersTyped, InTxnPC, TransactionHeld,
        DiskFollowsConnection, RowFollowsHandler, Executed
<1>18. ASSUME NEW u \in Uploads, StatementFails(u) PROVE DiskFollowsConnection'
  BY <1>18, ColumnsTyped
     DEF StatementFails, IInv, TypeOK, HandlersTyped, InTxnPC, TransactionHeld,
        DiskFollowsConnection, RowFollowsHandler
<1>19. CASE Crash
  BY <1>19, ColumnsTyped
     DEF Crash, IInv, TypeOK, HandlersTyped, InTxnPC, TransactionHeld,
        DiskFollowsConnection, RowFollowsHandler
<1>20. CASE UNCHANGED vars
  BY <1>20, ColumnsTyped
     DEF IInv, TypeOK, HandlersTyped, InTxnPC, TransactionHeld,
        DiskFollowsConnection, RowFollowsHandler
<1> QED
  BY <1>1, <1>2, <1>3, <1>4, <1>5, <1>6, <1>7, <1>8, <1>9, <1>10, <1>11, <1>12,
     <1>13, <1>14, <1>15, <1>16, <1>17, <1>18, <1>19, <1>20 DEF Effect

\* Rows are inserted and committed by their own handlers.
LEMMA RowStep ==
    IInv /\ [Next]_vars => \A v \in Uploads : RowFollowsHandler(v)'
<1> SUFFICES ASSUME IInv, Effect, NEW v \in Uploads PROVE RowFollowsHandler(v)'
  BY StepEffect DEF IInv
<1> USE DEF vars, tables, handlerVars, deleteVars, GoTo, Answer, Silent, NoLink
<1>1. ASSUME NEW u \in Uploads, NEW kind \in Kinds, NEW doc \in Docs, NEW user \in Owners,
             Receive(u, kind, doc, user)
      PROVE  RowFollowsHandler(v)'
  BY <1>1, ColumnsTyped
     DEF Receive, IInv, TypeOK, HandlersTyped, InTxnPC, TransactionHeld,
        DiskFollowsConnection, RowFollowsHandler, LinkFollowsHandler
<1>2. ASSUME NEW u \in Uploads, RejectArchive(u) PROVE RowFollowsHandler(v)'
  BY <1>2, ColumnsTyped
     DEF RejectArchive, IInv, TypeOK, HandlersTyped, InTxnPC, TransactionHeld,
        DiskFollowsConnection, RowFollowsHandler, LinkFollowsHandler
<1>3. ASSUME NEW u \in Uploads, RowInserted(u) PROVE RowFollowsHandler(v)'
  BY <1>3, ColumnsTyped
     DEF RowInserted, IInv, TypeOK, HandlersTyped, InTxnPC, TransactionHeld,
        DiskFollowsConnection, RowFollowsHandler, LinkFollowsHandler, Executed
<1>4. ASSUME NEW u \in Uploads, OwnerAssigned(u) PROVE RowFollowsHandler(v)'
  BY <1>4, ColumnsTyped
     DEF OwnerAssigned, IInv, TypeOK, HandlersTyped, InTxnPC, TransactionHeld,
        DiskFollowsConnection, RowFollowsHandler, LinkFollowsHandler, Executed
<1>5. ASSUME NEW u \in Uploads, MetadataSet(u) PROVE RowFollowsHandler(v)'
  BY <1>5, ColumnsTyped
     DEF MetadataSet, IInv, TypeOK, HandlersTyped, InTxnPC, TransactionHeld,
        DiskFollowsConnection, RowFollowsHandler, LinkFollowsHandler, Executed
<1>6. ASSUME NEW u \in Uploads, TagsFail(u) PROVE RowFollowsHandler(v)'
  BY <1>6, ColumnsTyped
     DEF TagsFail, IInv, TypeOK, HandlersTyped, InTxnPC, TransactionHeld,
        DiskFollowsConnection, RowFollowsHandler, LinkFollowsHandler
<1>7. ASSUME NEW u \in Uploads, BeginLink(u) PROVE RowFollowsHandler(v)'
  BY <1>7, ColumnsTyped
     DEF BeginLink, IInv, TypeOK, HandlersTyped, InTxnPC, TransactionHeld,
        DiskFollowsConnection, RowFollowsHandler, LinkFollowsHandler
<1>8. ASSUME NEW u \in Uploads, LinkFailsToBegin(u) PROVE RowFollowsHandler(v)'
  BY <1>8, ColumnsTyped
     DEF LinkFailsToBegin, IInv, TypeOK, HandlersTyped, InTxnPC,
        TransactionHeld, DiskFollowsConnection, RowFollowsHandler,
        LinkFollowsHandler
<1>9. ASSUME NEW u \in Uploads, ChainInserted(u) PROVE RowFollowsHandler(v)'
  BY <1>9, ColumnsTyped
     DEF ChainInserted, IInv, TypeOK, HandlersTyped, InTxnPC, TransactionHeld,
        DiskFollowsConnection, RowFollowsHandler, LinkFollowsHandler, Executed
<1>10. ASSUME NEW u \in Uploads, SelectChain(u) PROVE RowFollowsHandler(v)'
  BY <1>10, ColumnsTyped
     DEF SelectChain, IInv, TypeOK, HandlersTyped, InTxnPC, TransactionHeld,
        DiskFollowsConnection, RowFollowsHandler, LinkFollowsHandler
<1>11. ASSUME NEW u \in Uploads, ReadMax(u) PROVE RowFollowsHandler(v)'
  BY <1>11, ColumnsTyped
     DEF ReadMax, IInv, TypeOK, HandlersTyped, InTxnPC, TransactionHeld,
        DiskFollowsConnection, RowFollowsHandler, LinkFollowsHandler
<1>12. ASSUME NEW u \in Uploads, RowLinked(u) PROVE RowFollowsHandler(v)'
  BY <1>12, ColumnsTyped
     DEF RowLinked, IInv, TypeOK, HandlersTyped, InTxnPC, TransactionHeld,
        DiskFollowsConnection, RowFollowsHandler, LinkFollowsHandler, Executed
<1>13. ASSUME NEW u \in Uploads, CommitLink(u) PROVE RowFollowsHandler(v)'
  BY <1>13, ColumnsTyped
     DEF CommitLink, IInv, TypeOK, HandlersTyped, InTxnPC, TransactionHeld,
        DiskFollowsConnection, RowFollowsHandler, LinkFollowsHandler
<1>14. ASSUME NEW u \in Uploads, AnswerLinked(u) PROVE RowFollowsHandler(v)'
  BY <1>14, ColumnsTyped
     DEF AnswerLinked, IInv, TypeOK, HandlersTyped, InTxnPC, TransactionHeld,
        DiskFollowsConnection, RowFollowsHandler, LinkFollowsHandler
<1>15. ASSUME NEW u \in Uploads, RollbackLink(u) PROVE RowFollowsHandler(v)'
  BY <1>15, ColumnsTyped
     DEF RollbackLink, IInv, TypeOK, HandlersTyped, InTxnPC, TransactionHeld,
        DiskFollowsConnection, RowFollowsHandler, LinkFollowsHandler
<1>16. ASSUME NEW u \in Uploads, NEW user \in Owners, RequireOwner(u, user)
       PROVE  RowFollowsHandler(v)'
  BY <1>16, ColumnsTyped
     DEF RequireOwner, IInv, TypeOK, HandlersTyped, InTxnPC, TransactionHeld,
        DiskFollowsConnection, RowFollowsHandler, LinkFollowsHandler
<1>17. ASSUME NEW u \in Uploads, RowDeleted(u) PROVE RowFollowsHandler(v)'
  BY <1>17, ColumnsTyped
     DEF RowDeleted, IInv, TypeOK, HandlersTyped, InTxnPC, TransactionHeld,
        DiskFollowsConnection, RowFollowsHandler, LinkFollowsHandler, Executed
<1>18. ASSUME NEW u \in Uploads, StatementFails(u) PROVE RowFollowsHandler(v)'
  BY <1>18, ColumnsTyped
     DEF StatementFails, IInv, TypeOK, HandlersTyped, InTxnPC, TransactionHeld,
        DiskFollowsConnection, RowFollowsHandler, LinkFollowsHandler
<1>19. CASE Crash
  BY <1>19, ColumnsTyped
     DEF Crash, IInv, TypeOK, HandlersTyped, InTxnPC, TransactionHeld,
        DiskFollowsConnection, RowFollowsHandler, LinkFollowsHandler
<1>20. CASE UNCHANGED vars
  BY <1>20, ColumnsTyped
     DEF IInv, TypeOK, HandlersTyped, InTxnPC, TransactionHeld,
        DiskFollowsConnection, RowFollowsHandler, LinkFollowsHandler
<1> QED
  BY <1>1, <1>2, <1>3, <1>4, <1>5, <1>6, <1>7, <1>8, <1>9, <1>10, <1>11, <1>12,
     <1>13, <1>14, <1>15, <1>16, <1>17, <1>18, <1>19, <1>20 DEF Effect

\* A statement that leaves the link columns alone leaves the committed ones
\* alone too.
LEMMA LinksKept ==
    ASSUME IInv, Executed \/ UNCHANGED tables,
           db'.chain = db.chain, db'.ver = db.ver
    PROVE  disk'.chain = disk.chain /\ disk'.ver = disk.ver
  BY DEF IInv, DiskFollowsConnection, Executed, tables

\* Rows are linked by their own handlers.
LEMMA LinkStep ==
    IInv /\ [Next]_vars => \A v \in Uploads : LinkFollowsHandler(v)'
<1> SUFFICES ASSUME IInv, Effect, NEW v \in Uploads PROVE LinkFollowsHandler(v)'
  BY StepEffect DEF IInv
<1> USE DEF vars, tables, handlerVars, deleteVars, GoTo, Answer, Silent, NoLink
<1>1. ASSUME NEW u \in Uploads, NEW kind \in Kinds, NEW doc \in Docs, NEW user \in Owners,
             Receive(u, kind, doc, user)
      PROVE  LinkFollowsHandler(v)'
  BY <1>1, ColumnsTyped
     DEF Receive, IInv, TypeOK, HandlersTyped, InTxnPC, TransactionHeld,
        DiskFollowsConnection, RowFollowsHandler, LinkFollowsHandler
<1>2. ASSUME NEW u \in Uploads, RejectArchive(u) PROVE LinkFollowsHandler(v)'
  BY <1>2, ColumnsTyped
     DEF RejectArchive, IInv, TypeOK, HandlersTyped, InTxnPC, TransactionHeld,
        DiskFollowsConnection, RowFollowsHandler, LinkFollowsHandler
<1>3. ASSUME NEW u \in Uploads, RowInserted(u) PROVE LinkFollowsHandler(v)'
  BY <1>3, ColumnsTyped
     DEF RowInserted, IInv, TypeOK, HandlersTyped, InTxnPC, TransactionHeld,
        DiskFollowsConnection, RowFollowsHandler, LinkFollowsHandler, Executed
<1>4. ASSUME NEW u \in Uploads, OwnerAssigned(u) PROVE LinkFollowsHandler(v)'
  BY <1>4, ColumnsTyped
     DEF OwnerAssigned, IInv, TypeOK, HandlersTyped, InTxnPC, TransactionHeld,
        DiskFollowsConnection, RowFollowsHandler, LinkFollowsHandler, Executed
<1>5. ASSUME NEW u \in Uploads, MetadataSet(u) PROVE LinkFollowsHandler(v)'
  <2>1. /\ disk'.chain = disk.chain /\ disk'.ver = disk.ver
        /\ db'.chain = db.chain /\ db'.ver = db.ver
    BY <1>5, LinksKept DEF MetadataSet
  <2>2. pc[u] \notin InTxnPC \cup {"linked", "done"}
    BY <1>5 DEF MetadataSet, Meta, InTxnPC
  <2>3. LinkFollowsHandler(v) /\ LinkFollowsHandler(u)
    BY DEF IInv
  <2>4. pc \in [Uploads -> UploadPC] /\ reply \in [Uploads -> Replies]
    BY DEF IInv, TypeOK, HandlersTyped
  <2>5. CASE v # u
    <3>1. pc'[v] = pc[v] /\ reply'[v] = reply[v] /\ loc'[v] = loc[v]
      BY <1>5, <2>4, <2>5 DEF MetadataSet, IInv, TypeOK, HandlersTyped
    <3> QED
      BY <2>1, <2>3, <3>1 DEF LinkFollowsHandler
  <2>6. CASE v = u
    <3>1. /\ pc'[u] \notin {"commit", "rollback", "linked"}
          /\ \/ reply'[u] = reply[u] /\ pc'[u] # "done"
             \/ reply'[u].chain = 0 /\ reply'[u].ver = 0
      BY <1>5, <2>4 DEF MetadataSet
    <3>2. reply[u].code # "201"
      BY <2>2 DEF IInv, RowFollowsHandler
    <3> QED
      BY <2>1, <2>2, <2>3, <2>6, <3>1, <3>2 DEF LinkFollowsHandler, InTxnPC
  <2> QED
    BY <2>5, <2>6
<1>6. ASSUME NEW u \in Uploads, TagsFail(u) PROVE LinkFollowsHandler(v)'
  BY <1>6, ColumnsTyped
     DEF TagsFail, IInv, TypeOK, HandlersTyped, InTxnPC, TransactionHeld,
        DiskFollowsConnection, RowFollowsHandler, LinkFollowsHandler
<1>7. ASSUME NEW u \in Uploads, BeginLink(u) PROVE LinkFollowsHandler(v)'
  BY <1>7, ColumnsTyped
     DEF BeginLink, IInv, TypeOK, HandlersTyped, InTxnPC, TransactionHeld,
        DiskFollowsConnection, RowFollowsHandler, LinkFollowsHandler
<1>8. ASSUME NEW u \in Uploads, LinkFailsToBegin(u) PROVE LinkFollowsHandler(v)'
  BY <1>8, ColumnsTyped
     DEF LinkFailsToBegin, IInv, TypeOK, HandlersTyped, InTxnPC,
        TransactionHeld, DiskFollowsConnection, RowFollowsHandler,
        LinkFollowsHandler
<1>9. ASSUME NEW u \in Uploads, ChainInserted(u) PROVE LinkFollowsHandler(v)'
  BY <1>9, ColumnsTyped
     DEF ChainInserted, IInv, TypeOK, HandlersTyped, InTxnPC, TransactionHeld,
        DiskFollowsConnection, RowFollowsHandler, LinkFollowsHandler, Executed
<1>10. ASSUME NEW u \in Uploads, SelectChain(u) PROVE LinkFollowsHandler(v)'
  BY <1>10, ColumnsTyped
     DEF SelectChain, IInv, TypeOK, HandlersTyped, InTxnPC, TransactionHeld,
        DiskFollowsConnection, RowFollowsHandler, LinkFollowsHandler
<1>11. ASSUME NEW u \in Uploads, ReadMax(u) PROVE LinkFollowsHandler(v)'
  BY <1>11, ColumnsTyped
     DEF ReadMax, IInv, TypeOK, HandlersTyped, InTxnPC, TransactionHeld,
        DiskFollowsConnection, RowFollowsHandler, LinkFollowsHandler
<1>12. ASSUME NEW u \in Uploads, RowLinked(u) PROVE LinkFollowsHandler(v)'
  BY <1>12, ColumnsTyped
     DEF RowLinked, IInv, TypeOK, HandlersTyped, InTxnPC, TransactionHeld,
        DiskFollowsConnection, RowFollowsHandler, LinkFollowsHandler, Executed
<1>13. ASSUME NEW u \in Uploads, CommitLink(u) PROVE LinkFollowsHandler(v)'
  BY <1>13, ColumnsTyped
     DEF CommitLink, IInv, TypeOK, HandlersTyped, InTxnPC, TransactionHeld,
        DiskFollowsConnection, RowFollowsHandler, LinkFollowsHandler
<1>14. ASSUME NEW u \in Uploads, AnswerLinked(u) PROVE LinkFollowsHandler(v)'
  BY <1>14, ColumnsTyped
     DEF AnswerLinked, IInv, TypeOK, HandlersTyped, InTxnPC, TransactionHeld,
        DiskFollowsConnection, RowFollowsHandler, LinkFollowsHandler
<1>15. ASSUME NEW u \in Uploads, RollbackLink(u) PROVE LinkFollowsHandler(v)'
  BY <1>15, ColumnsTyped
     DEF RollbackLink, IInv, TypeOK, HandlersTyped, InTxnPC, TransactionHeld,
        DiskFollowsConnection, RowFollowsHandler, LinkFollowsHandler
<1>16. ASSUME NEW u \in Uploads, NEW user \in Owners, RequireOwner(u, user)
       PROVE  LinkFollowsHandler(v)'
  BY <1>16, ColumnsTyped
     DEF RequireOwner, IInv, TypeOK, HandlersTyped, InTxnPC, TransactionHeld,
        DiskFollowsConnection, RowFollowsHandler, LinkFollowsHandler
<1>17. ASSUME NEW u \in Uploads, RowDeleted(u) PROVE LinkFollowsHandler(v)'
  BY <1>17, ColumnsTyped
     DEF RowDeleted, IInv, TypeOK, HandlersTyped, InTxnPC, TransactionHeld,
        DiskFollowsConnection, RowFollowsHandler, LinkFollowsHandler, Executed
<1>18. ASSUME NEW u \in Uploads, StatementFails(u) PROVE LinkFollowsHandler(v)'
  BY <1>18, ColumnsTyped, SMTT(30)
     DEF StatementFails, IInv, TypeOK, HandlersTyped, InTxnPC, TransactionHeld,
        DiskFollowsConnection, RowFollowsHandler, LinkFollowsHandler
<1>19. CASE Crash
  BY <1>19, ColumnsTyped
     DEF Crash, IInv, TypeOK, HandlersTyped, InTxnPC, TransactionHeld,
        DiskFollowsConnection, RowFollowsHandler, LinkFollowsHandler
<1>20. CASE UNCHANGED vars
  BY <1>20, ColumnsTyped
     DEF IInv, TypeOK, HandlersTyped, InTxnPC, TransactionHeld,
        DiskFollowsConnection, RowFollowsHandler, LinkFollowsHandler
<1> QED
  BY <1>1, <1>2, <1>3, <1>4, <1>5, <1>6, <1>7, <1>8, <1>9, <1>10, <1>11, <1>12,
     <1>13, <1>14, <1>15, <1>16, <1>17, <1>18, <1>19, <1>20 DEF Effect

(***************************************************************************)
(* Most steps neither link a row nor move a LinkToChain past its SELECT.   *)
(***************************************************************************)

\* Such a step keeps the link columns, the chains rows and the chains and
\* numbers LinkToChain holds, and brings no linked session to life.
Quiet ==
    /\ db'.chain = db.chain /\ db'.ver = db.ver
    /\ disk'.chain = disk.chain /\ disk'.ver = disk.ver
    /\ IF inTxn THEN disk' = disk ELSE disk' = db'
    /\ \A w \in Uploads :
          \/ db'.state[w] = db.state[w]
          \/ db.state[w] = "absent" /\ db.chain[w] = 0 /\ db'.state[w] = "live"
          \/ db.state[w] = "live" /\ db'.state[w] = "deleted"
    /\ DOMAIN db.chains \subseteq DOMAIN db'.chains
    /\ \A i \in DOMAIN db.chains : db'.chains[i] = db.chains[i]

QuietHandlers ==
    \A w \in Uploads :
        /\ pc'[w] \in {"max", "update", "commit"} => pc'[w] = pc[w] /\ loc'[w] = loc[w]
        /\ pc[w] # "idle" => req'[w] = req[w]

\* Every step is quiet, or is one of the steps from SELECT to COMMIT or the
\* loss of a transaction.
LEMMA QuietOrLink ==
    ASSUME IInv, Effect
    PROVE  \/ Quiet /\ QuietHandlers
           \/ \E u \in Uploads : \/ SelectChain(u) \/ ReadMax(u) \/ RowLinked(u)
                                 \/ CommitLink(u) \/ RollbackLink(u)
           \/ Crash
<1>0. /\ ~inTxn => disk = db
      /\ pc \in [Uploads -> UploadPC] /\ loc \in [Uploads -> Links]
      /\ req \in [Uploads -> Requests]
      /\ \A w \in Uploads : pc[w] = "insert" => db.chain[w] = 0 /\ db.state[w] = "absent"
      /\ db.state \in [Uploads -> {"absent", "live", "deleted"}]
  BY ColumnsTyped, ZenonT(40) DEF IInv, TypeOK, HandlersTyped, DiskFollowsConnection, LinkFollowsHandler,
      RowFollowsHandler
<1> USE DEF vars, tables, handlerVars, deleteVars, GoTo, Answer
<1>1. ASSUME NEW u \in Uploads, NEW kind \in Kinds, NEW doc \in Docs, NEW user \in Owners,
             Receive(u, kind, doc, user)
      PROVE  Quiet /\ QuietHandlers
  <2>1. Quiet
    BY <1>1, <1>0 DEF Receive, Quiet
  <2>2. QuietHandlers
    BY <1>1, <1>0 DEF Receive, QuietHandlers
  <2> QED
    BY <2>1, <2>2
<1>2. ASSUME NEW u \in Uploads, RejectArchive(u) PROVE Quiet /\ QuietHandlers
  <2>1. Quiet
    BY <1>2, <1>0 DEF RejectArchive, Quiet
  <2>2. QuietHandlers
    BY <1>2, <1>0 DEF RejectArchive, QuietHandlers
  <2> QED
    BY <2>1, <2>2
<1>3. ASSUME NEW u \in Uploads, RowInserted(u) PROVE Quiet /\ QuietHandlers
  <2>1. Quiet
    BY <1>3, <1>0 DEF RowInserted, Quiet, Executed
  <2>2. QuietHandlers
    BY <1>3, <1>0 DEF RowInserted, QuietHandlers
  <2> QED
    BY <2>1, <2>2
<1>4. ASSUME NEW u \in Uploads, OwnerAssigned(u) PROVE Quiet /\ QuietHandlers
  <2>1. Quiet
    BY <1>4, <1>0 DEF OwnerAssigned, Quiet, Executed
  <2>2. QuietHandlers
    BY <1>4, <1>0 DEF OwnerAssigned, QuietHandlers
  <2> QED
    BY <2>1, <2>2
<1>5. ASSUME NEW u \in Uploads, MetadataSet(u) PROVE Quiet /\ QuietHandlers
  <2>1. Quiet
    BY <1>5, <1>0 DEF MetadataSet, Quiet, Executed
  <2>2. QuietHandlers
    BY <1>5, <1>0 DEF MetadataSet, QuietHandlers, Meta
  <2> QED
    BY <2>1, <2>2
<1>6. ASSUME NEW u \in Uploads, TagsFail(u) PROVE Quiet /\ QuietHandlers
  <2>1. Quiet
    BY <1>6, <1>0 DEF TagsFail, Quiet
  <2>2. QuietHandlers
    BY <1>6, <1>0 DEF TagsFail, QuietHandlers
  <2> QED
    BY <2>1, <2>2
<1>7. ASSUME NEW u \in Uploads, BeginLink(u) PROVE Quiet /\ QuietHandlers
  <2>1. Quiet
    BY <1>7, <1>0 DEF BeginLink, Quiet
  <2>2. QuietHandlers
    BY <1>7, <1>0 DEF BeginLink, QuietHandlers
  <2> QED
    BY <2>1, <2>2
<1>8. ASSUME NEW u \in Uploads, LinkFailsToBegin(u) PROVE Quiet /\ QuietHandlers
  <2>1. Quiet
    BY <1>8, <1>0 DEF LinkFailsToBegin, Quiet
  <2>2. QuietHandlers
    BY <1>8, <1>0 DEF LinkFailsToBegin, QuietHandlers
  <2> QED
    BY <2>1, <2>2
<1>9. ASSUME NEW u \in Uploads, ChainInserted(u) PROVE Quiet /\ QuietHandlers
  <2>1. Quiet
    BY <1>9, <1>0 DEF ChainInserted, Quiet, Executed
  <2>2. QuietHandlers
    BY <1>9, <1>0 DEF ChainInserted, QuietHandlers
  <2> QED
    BY <2>1, <2>2
<1>10. ASSUME NEW u \in Uploads, AnswerLinked(u) PROVE Quiet /\ QuietHandlers
  <2>1. Quiet
    BY <1>10, <1>0 DEF AnswerLinked, Quiet
  <2>2. QuietHandlers
    BY <1>10, <1>0 DEF AnswerLinked, QuietHandlers
  <2> QED
    BY <2>1, <2>2
<1>11. ASSUME NEW u \in Uploads, NEW user \in Owners, RequireOwner(u, user)
       PROVE  Quiet /\ QuietHandlers
  <2>1. Quiet
    BY <1>11, <1>0 DEF RequireOwner, Quiet
  <2>2. QuietHandlers
    BY <1>11, <1>0 DEF RequireOwner, QuietHandlers
  <2> QED
    BY <2>1, <2>2
<1>12. ASSUME NEW u \in Uploads, RowDeleted(u) PROVE Quiet /\ QuietHandlers
  <2>1. Quiet
    BY <1>12, <1>0 DEF RowDeleted, Quiet, Executed
  <2>2. QuietHandlers
    BY <1>12, <1>0 DEF RowDeleted, QuietHandlers
  <2> QED
    BY <2>1, <2>2
<1>13. ASSUME NEW u \in Uploads, StatementFails(u) PROVE Quiet /\ QuietHandlers
  <2>1. Quiet
    BY <1>13, <1>0 DEF StatementFails, Quiet
  <2>2. QuietHandlers
    BY <1>13, <1>0 DEF StatementFails, QuietHandlers, InTxnPC
  <2> QED
    BY <2>1, <2>2
<1>14. CASE UNCHANGED vars
  <2>1. Quiet
    BY <1>14, <1>0 DEF Quiet
  <2>2. QuietHandlers
    BY <1>14, <1>0 DEF QuietHandlers
  <2> QED
    BY <2>1, <2>2
<1> QED
  BY <1>1, <1>2, <1>3, <1>4, <1>5, <1>6, <1>7, <1>8, <1>9, <1>10, <1>11, <1>12,
     <1>13, <1>14 DEF Effect

\* Rows added at the end of the chains change no row up to a given one.
LEMMA EarlierRowsStay ==
    ASSUME NEW t \in Tables, NEW chains, NEW c \in DOMAIN t.chains,
           DOMAIN t.chains \subseteq DOMAIN chains,
           \A i \in DOMAIN t.chains : chains[i] = t.chains[i]
    PROVE  /\ c \in DOMAIN chains
           /\ \A i \in 1..c : chains[i] = t.chains[i]
<1>1. c \in 1..Len(t.chains) /\ Len(t.chains) \in Nat /\ DOMAIN t.chains = 1..Len(t.chains)
  BY ColumnsTyped, LenProperties
<1>2. \A i \in 1..c : i \in DOMAIN t.chains
  BY <1>1
<1> QED
  BY <1>2

\* A selected chain stays the upload's own.
LEMMA SelectedStep == IInv /\ [Next]_vars => \A v \in Uploads : SelectedChainIsOwn(v)'
<1> SUFFICES ASSUME IInv, Effect, NEW v \in Uploads PROVE SelectedChainIsOwn(v)'
  BY StepEffect DEF IInv
<1>0. /\ pc \in [Uploads -> UploadPC] /\ loc \in [Uploads -> Links]
      /\ req \in [Uploads -> Requests] /\ db \in Tables
      /\ \A w \in Uploads : SelectedChainIsOwn(w)
      /\ \A w, x \in Uploads : pc[w] \in InTxnPC /\ pc[x] \in InTxnPC => w = x
  BY DEF IInv, TypeOK, HandlersTyped, TransactionHeld
<1> USE DEF vars, tables, handlerVars, deleteVars, GoTo, Answer
<1>1. CASE Quiet /\ QuietHandlers
  <2> SUFFICES ASSUME pc'[v] \in {"max", "update", "commit"}
               PROVE  IsFirstChainOf(db, loc[v].chain, v)'
    BY DEF SelectedChainIsOwn, IsFirstChainOf
  <2> DEFINE c == loc[v].chain
  <2>1. c' = c /\ req'[v] = req[v] /\ IsFirstChainOf(db, c, v) /\ c \in Nat \ {0}
    BY <1>0, <1>1, ColumnsTyped DEF QuietHandlers, SelectedChainIsOwn, IsFirstChainOf
  <2>2. c \in DOMAIN db'.chains /\ \A i \in 1..c : db'.chains[i] = db.chains[i]
    BY <1>0, <1>1, <2>1, EarlierRowsStay DEF Quiet, IsFirstChainOf
  <2> QED
    BY <2>1, <2>2 DEF IsFirstChainOf
<1>2. ASSUME NEW u \in Uploads, SelectChain(u) PROVE SelectedChainIsOwn(v)'
  BY <1>0, <1>2 DEF SelectChain, IsChainOf, SelectedChainIsOwn, IsFirstChainOf, InTxnPC
<1>3. ASSUME NEW u \in Uploads, ReadMax(u) PROVE SelectedChainIsOwn(v)'
  <2>1. CASE v = u
    BY <1>0, <1>3, <2>1 DEF ReadMax, SelectedChainIsOwn, IsFirstChainOf
  <2>2. CASE v # u
    BY <1>0, <1>3, <2>2 DEF ReadMax, SelectedChainIsOwn, IsFirstChainOf
  <2> QED
    BY <2>1, <2>2
<1>4. ASSUME NEW u \in Uploads, RowLinked(u) PROVE SelectedChainIsOwn(v)'
  BY <1>4, <1>0 DEF RowLinked, SelectedChainIsOwn, IsFirstChainOf, InTxnPC, Executed
<1>5. ASSUME NEW u \in Uploads, CommitLink(u) PROVE SelectedChainIsOwn(v)'
  BY <1>5, <1>0 DEF CommitLink, SelectedChainIsOwn, IsFirstChainOf, InTxnPC
<1>6. ASSUME NEW u \in Uploads, RollbackLink(u) PROVE SelectedChainIsOwn(v)'
  BY <1>6, <1>0 DEF RollbackLink, SelectedChainIsOwn, IsFirstChainOf, InTxnPC
<1>7. CASE Crash
  BY <1>7, <1>0 DEF Crash, SelectedChainIsOwn, IsFirstChainOf, InTxnPC
<1> QED
  BY <1>1, <1>2, <1>3, <1>4, <1>5, <1>6, <1>7, QuietOrLink

\* Links stay sound.
LEMMA SoundStep == IInv /\ [Next]_vars => LinksAreSound'
<1> SUFFICES ASSUME IInv, Effect PROVE LinksAreSound'
  BY StepEffect DEF IInv
<1>0. /\ req \in [Uploads -> Requests] /\ loc \in [Uploads -> Links]
      /\ \A w \in Uploads : SelectedChainIsOwn(w)
      /\ \A w \in Uploads : pc[w] = "idle" => db.chain[w] = 0 /\ disk.chain[w] = 0
      /\ db \in Tables /\ disk \in Tables
      /\ db.chain \in [Uploads -> Nat] /\ disk.chain \in [Uploads -> Nat]
      /\ LinksMatchRequests(db) /\ LinksMatchRequests(disk)
      /\ ~inTxn => disk = db
  BY ColumnsTyped DEF IInv, TypeOK, HandlersTyped, LinkFollowsHandler, LinksAreSound,
      DiskFollowsConnection
<1> USE DEF vars, tables, handlerVars, deleteVars, GoTo, Answer
<1>1. CASE Quiet /\ QuietHandlers
  <2>1. LinksMatchRequests(db)'
    <3> SUFFICES ASSUME NEW w \in Uploads, db'.chain[w] # 0
                 PROVE  IsFirstChainOf(db, db.chain[w], w)'
      BY DEF LinksMatchRequests
    <3> DEFINE c == db.chain[w]
    <3>1. c' = c /\ req'[w] = req[w] /\ IsFirstChainOf(db, c, w) /\ c \in Nat \ {0}
      BY <1>0, <1>1 DEF Quiet, QuietHandlers, LinksMatchRequests
    <3>2. c \in DOMAIN db'.chains /\ \A i \in 1..c : db'.chains[i] = db.chains[i]
      BY <1>0, <1>1, <3>1, EarlierRowsStay DEF Quiet, IsFirstChainOf
    <3> QED
      BY <3>1, <3>2 DEF IsFirstChainOf
  <2>2. CASE inTxn
    <3>1. disk' = disk
      BY <1>1, <2>2 DEF Quiet
    <3>2. LinksMatchRequests(disk)'
      BY <1>0, <1>1, <3>1 DEF QuietHandlers, LinksMatchRequests, IsFirstChainOf
    <3> QED
      BY <2>1, <3>2 DEF LinksAreSound
  <2>3. CASE ~inTxn
    BY <1>1, <2>1, <2>3 DEF Quiet, LinksAreSound, LinksMatchRequests, IsFirstChainOf
  <2> QED
    BY <2>2, <2>3
<1>2. ASSUME NEW u \in Uploads, SelectChain(u) PROVE LinksAreSound'
  BY <1>2, <1>0 DEF SelectChain, LinksAreSound, LinksMatchRequests, IsFirstChainOf
<1>3. ASSUME NEW u \in Uploads, ReadMax(u) PROVE LinksAreSound'
  BY <1>3, <1>0 DEF ReadMax, LinksAreSound, LinksMatchRequests, IsFirstChainOf
<1>4. ASSUME NEW u \in Uploads, RowLinked(u) PROVE LinksAreSound'
  <2>1. LinksMatchRequests(db)'
    <3> SUFFICES ASSUME NEW w \in Uploads, db'.chain[w] # 0
                 PROVE  IsFirstChainOf(db, db.chain[w], w)'
      BY DEF LinksMatchRequests
    <3>1. CASE w = u
      BY <1>0, <1>4, <3>1, SMTT(30) DEF RowLinked, SelectedChainIsOwn, IsFirstChainOf
    <3>2. CASE w # u
      BY <1>0, <1>4, <3>2 DEF RowLinked, LinksMatchRequests, IsFirstChainOf
    <3> QED
      BY <3>1, <3>2
  <2>2. disk' = disk \/ disk' = db'
    BY <1>4 DEF RowLinked, Executed
  <2> QED
    BY <1>0, <1>4, <2>1, <2>2 DEF RowLinked, LinksAreSound, LinksMatchRequests, IsFirstChainOf
<1>5. ASSUME NEW u \in Uploads, CommitLink(u) PROVE LinksAreSound'
  BY <1>5, <1>0 DEF CommitLink, LinksAreSound, LinksMatchRequests, IsFirstChainOf
<1>6. ASSUME NEW u \in Uploads, RollbackLink(u) PROVE LinksAreSound'
  BY <1>6, <1>0 DEF RollbackLink, LinksAreSound, LinksMatchRequests, IsFirstChainOf
<1>7. CASE Crash
  BY <1>7, <1>0 DEF Crash, LinksAreSound, LinksMatchRequests, IsFirstChainOf
<1> QED
  BY <1>1, <1>2, <1>3, <1>4, <1>5, <1>6, <1>7, QuietOrLink

\* A number that was read stays the next one.
LEMMA NumberStep == IInv /\ [Next]_vars => \A v \in Uploads : NumberIsNext(v)'
<1> SUFFICES ASSUME IInv, Effect, NEW v \in Uploads PROVE NumberIsNext(v)'
  BY StepEffect DEF IInv
<1>0. /\ pc \in [Uploads -> UploadPC] /\ loc \in [Uploads -> Links]
      /\ \A w \in Uploads : SelectedChainIsOwn(w) /\ NumberIsNext(w)
      /\ \A w, x \in Uploads : pc[w] \in InTxnPC /\ pc[x] \in InTxnPC => w = x
      /\ \A w \in Uploads : pc[w] \in InTxnPC => inTxn
      /\ DOMAIN db.chains \subseteq Nat \ {0}
      /\ db.chain \in [Uploads -> Nat] /\ db.ver \in [Uploads -> Nat]
  BY ColumnsTyped DEF IInv, TypeOK, HandlersTyped, TransactionHeld
<1> SUFFICES ASSUME pc'[v] \in {"update", "commit"} PROVE NumberIsNext(v)'
  BY DEF NumberIsNext
<1> USE DEF vars, tables, handlerVars, deleteVars, GoTo, Answer
<1>1. CASE Quiet /\ QuietHandlers
  <2>1. pc[v] = pc'[v] /\ loc'[v] = loc[v]
    BY <1>1 DEF QuietHandlers
  <2>2. inTxn
    BY <1>0, <2>1 DEF InTxnPC
  <2>3. disk' = disk
    BY <1>1, <2>2 DEF Quiet
  <2>4. loc[v].chain # 0 /\ NumberIsNext(v)
    BY <1>0, <2>1 DEF SelectedChainIsOwn, IsFirstChainOf
  <2>5. \A w \in Uploads \ {v} :
          db'.state[w] = "live" /\ db'.chain[w] = loc'[v].chain => db'.ver[w] < loc'[v].ver
    BY <1>1, <2>1, <2>4 DEF Quiet, NumberIsNext
  <2>6. \E m \in LiveNumbers(disk, loc[v].chain) : loc[v].ver <= m + 1
    BY <2>1, <2>4 DEF NumberIsNext
  <2>7. \E m \in LiveNumbers(disk', loc'[v].chain) : loc'[v].ver <= m + 1
    BY <2>1, <2>3, <2>6
  <2> QED
    BY <2>5, <2>7 DEF NumberIsNext, LiveNumbers
<1>2. ASSUME NEW u \in Uploads, SelectChain(u) PROVE NumberIsNext(v)'
  BY <1>0, <1>2 DEF SelectChain, InTxnPC
<1>3. ASSUME NEW u \in Uploads, ReadMax(u) PROVE NumberIsNext(v)'
  <2> DEFINE c == loc[u].chain
  <2>1. v = u
    BY <1>0, <1>3 DEF ReadMax, InTxnPC
  <2>2. PICK m \in LiveNumbers(db, c) :
          /\ \A n \in LiveNumbers(db, c) : n <= m
          /\ loc' = [loc EXCEPT ![u] = [chain |-> c, ver |-> m + 1]]
    BY <1>3 DEF ReadMax
  <2>3. loc'[u].chain = c /\ loc'[u].ver = m + 1 /\ db' = db /\ disk' = disk /\ pc[u] = "max"
    BY <1>0, <1>3, <2>2 DEF ReadMax
  <2>4. m \in Nat
    BY <1>0 DEF LiveNumbers
  <2>5. c # 0
    BY <1>0, <2>3 DEF SelectedChainIsOwn, IsFirstChainOf
  <2>6. \A w \in Uploads :
          db.state[w] = "live" /\ db.chain[w] = c => db.ver[w] \in LiveNumbers(db, c)
    BY DEF LiveNumbers
  <2>7. \A w \in Uploads : db.state[w] = "live" /\ db.chain[w] = c => db.ver[w] < m + 1
    BY <1>0, <2>2, <2>4, <2>6
  <2>8. m \in LiveNumbers(disk, c)
    <3>1. CASE m = 0
      BY <3>1 DEF LiveNumbers
    <3>2. CASE m # 0
      <4>1. PICK w \in Uploads : db.state[w] = "live" /\ db.chain[w] = c /\ db.ver[w] = m
        BY <3>2 DEF LiveNumbers
      <4>2. pc[w] \notin {"commit", "rollback"}
        BY <1>0, <2>3 DEF InTxnPC
      <4>3. disk.chain[w] = c /\ disk.ver[w] = m
        BY <4>1, <4>2 DEF IInv, LinkFollowsHandler
      <4>4. disk.state[w] = "live"
        <5>1. disk.state[w] # "absent"
          BY <2>5, <4>3 DEF IInv, RowFollowsHandler
        <5>2. disk.state[w] # "deleted"
          BY <4>1 DEF IInv, DiskFollowsConnection
        <5> QED
          BY <5>1, <5>2, ColumnsTyped DEF IInv, TypeOK
      <4> QED
        BY <4>3, <4>4 DEF LiveNumbers
    <3> QED
      BY <3>1, <3>2
  <2>9. \E n \in LiveNumbers(disk, c) : m + 1 <= n + 1
    BY <2>4, <2>8
  <2>10. \A w \in Uploads \ {v} :
           db'.state[w] = "live" /\ db'.chain[w] = loc'[v].chain => db'.ver[w] < loc'[v].ver
    BY <2>1, <2>3, <2>7
  <2>11. \E n \in LiveNumbers(disk', loc'[v].chain) : loc'[v].ver <= n + 1
    BY <2>1, <2>3, <2>9
  <2> QED
    BY <2>10, <2>11 DEF NumberIsNext, LiveNumbers
<1>4. ASSUME NEW u \in Uploads, RowLinked(u) PROVE NumberIsNext(v)'
  <2>1. v = u /\ loc' = loc /\ pc[u] = "update"
    BY <1>0, <1>4 DEF RowLinked, InTxnPC
  <2>2. disk' = disk
    BY <1>0, <1>4, <2>1 DEF RowLinked, Executed, InTxnPC
  <2>3. \A w \in Uploads \ {u} :
          db'.state[w] = db.state[w] /\ db'.chain[w] = db.chain[w] /\ db'.ver[w] = db.ver[w]
    BY <1>0, <1>4 DEF RowLinked
  <2>4. NumberIsNext(u)
    BY <1>0
  <2>5. \A w \in Uploads \ {u} :
          db'.state[w] = "live" /\ db'.chain[w] = loc'[u].chain => db'.ver[w] < loc'[u].ver
    BY <2>1, <2>3, <2>4 DEF NumberIsNext
  <2>6. \E m \in LiveNumbers(disk', loc'[u].chain) : loc'[u].ver <= m + 1
    BY <2>1, <2>2, <2>4 DEF NumberIsNext
  <2> QED
    BY <2>1, <2>5, <2>6 DEF NumberIsNext, LiveNumbers
<1>5. ASSUME NEW u \in Uploads, CommitLink(u) PROVE NumberIsNext(v)'
  BY <1>5, <1>0 DEF CommitLink, NumberIsNext, InTxnPC
<1>6. ASSUME NEW u \in Uploads, RollbackLink(u) PROVE NumberIsNext(v)'
  BY <1>6, <1>0 DEF RollbackLink, NumberIsNext, InTxnPC
<1>7. CASE Crash
  BY <1>7, <1>0 DEF Crash, NumberIsNext, InTxnPC
<1> QED
  BY <1>1, <1>2, <1>3, <1>4, <1>5, <1>6, <1>7, QuietOrLink

\* Live versions keep different numbers.
LEMMA UniqueStep == IInv /\ [Next]_vars => LiveVersionsUnique'
<1> SUFFICES ASSUME IInv, Effect PROVE LiveVersionsUnique'
  BY StepEffect DEF IInv
<1>0. /\ VersionsAreUnique(db) /\ VersionsAreUnique(disk)
      /\ ~inTxn => disk = db
      /\ \A w \in Uploads : NumberIsNext(w)
      /\ loc \in [Uploads -> Links]
      /\ db.chain \in [Uploads -> Nat] /\ db.ver \in [Uploads -> Nat]
  BY ColumnsTyped DEF IInv, TypeOK, HandlersTyped, DiskFollowsConnection, LiveVersionsUnique
<1> USE DEF vars, tables, handlerVars, deleteVars, GoTo, Answer
<1>1. CASE Quiet /\ QuietHandlers
  <2>1. VersionsAreUnique(db)'
    BY <1>0, <1>1 DEF Quiet, VersionsAreUnique
  <2>2. disk' = disk \/ disk' = db'
    BY <1>1 DEF Quiet
  <2> QED
    BY <1>0, <2>1, <2>2 DEF LiveVersionsUnique, VersionsAreUnique
<1>2. ASSUME NEW u \in Uploads, SelectChain(u) PROVE LiveVersionsUnique'
  BY <1>2, <1>0 DEF SelectChain, LiveVersionsUnique, VersionsAreUnique
<1>3. ASSUME NEW u \in Uploads, ReadMax(u) PROVE LiveVersionsUnique'
  BY <1>3, <1>0 DEF ReadMax, LiveVersionsUnique, VersionsAreUnique
<1>4. ASSUME NEW u \in Uploads, RowLinked(u) PROVE LiveVersionsUnique'
  <2>1. \A w \in Uploads \ {u} : /\ db'.state[w] = db.state[w]
                                  /\ db'.chain[w] = db.chain[w]
                                  /\ db'.ver[w] = db.ver[w]
    BY <1>0, <1>4 DEF RowLinked
  <2>2. db'.chain[u] = loc[u].chain /\ db'.ver[u] = loc[u].ver
    BY <1>0, <1>4 DEF RowLinked
  <2>3. \A w \in Uploads \ {u} :
          db.state[w] = "live" /\ db.chain[w] = loc[u].chain => db.ver[w] < loc[u].ver
    BY <1>0, <1>4 DEF RowLinked, NumberIsNext
  <2>4. \A w \in Uploads \ {u} : db'.state[w] = "live" /\ db'.chain[w] = db'.chain[u]
          => db'.ver[w] # db'.ver[u]
    <3>1. loc[u].ver \in Nat
      BY <1>0 DEF Links
    <3> QED
      BY <1>0, <2>1, <2>2, <2>3, <3>1
  <2>5. VersionsAreUnique(db)'
    BY <1>0, <2>1, <2>4 DEF VersionsAreUnique
  <2>6. disk' = disk \/ disk' = db'
    BY <1>4 DEF RowLinked, Executed
  <2> QED
    BY <1>0, <2>5, <2>6 DEF LiveVersionsUnique, VersionsAreUnique
<1>5. ASSUME NEW u \in Uploads, CommitLink(u) PROVE LiveVersionsUnique'
  BY <1>5, <1>0 DEF CommitLink, LiveVersionsUnique, VersionsAreUnique
<1>6. ASSUME NEW u \in Uploads, RollbackLink(u) PROVE LiveVersionsUnique'
  BY <1>6, <1>0 DEF RollbackLink, LiveVersionsUnique, VersionsAreUnique
<1>7. CASE Crash
  BY <1>7, <1>0 DEF Crash, LiveVersionsUnique, VersionsAreUnique
<1> QED
  BY <1>1, <1>2, <1>3, <1>4, <1>5, <1>6, <1>7, QuietOrLink

(***************************************************************************)
(* The theorems.                                                           *)
(***************************************************************************)

\* The invariant holds in a fresh store.
LEMMA InitInv == Init => IInv
<1> SUFFICES ASSUME Init PROVE IInv
  OBVIOUS
<1>0. /\ db = EmptyTables /\ disk = EmptyTables /\ inTxn = FALSE
      /\ \A u \in Uploads : /\ pc[u] = "idle" /\ reply[u] = Silent /\ loc[u] = NoLink
                            /\ EmptyTables.state[u] = "absent"
                            /\ EmptyTables.chain[u] = 0 /\ EmptyTables.ver[u] = 0
  BY DEF Init, EmptyTables
<1>1. TypeOK
  <2>1. <<>> \in Seq([doc : Docs, owner : Owners])
    BY EmptySeq
  <2>2. EmptyTables \in Tables
    BY <2>1 DEF EmptyTables, Tables, Owners
  <2>3. HandlersTyped
    BY DEF Init, HandlersTyped, UploadPC, Requests, Links, NoLink, Replies, Silent, Owners
  <2>4. TransactionHeld
    BY <1>0 DEF TransactionHeld, InTxnPC
  <2>5. faults \in 0..MaxFaults
    BY FaultsAssumption DEF Init
  <2>6. /\ auth \in BOOLEAN /\ inTxn \in BOOLEAN
        /\ deleting \in SUBSET Uploads /\ gone \in SUBSET Uploads
    BY AuthAssumption DEF Init
  <2> QED
    BY <1>0, <2>2, <2>3, <2>4, <2>5, <2>6 DEF TypeOK
<1>2. DiskFollowsConnection
  BY <1>0 DEF DiskFollowsConnection
<1>3. ASSUME NEW u \in Uploads
      PROVE  /\ RowFollowsHandler(u) /\ LinkFollowsHandler(u)
             /\ SelectedChainIsOwn(u) /\ NumberIsNext(u)
  BY <1>0 DEF RowFollowsHandler, LinkFollowsHandler, SelectedChainIsOwn, NumberIsNext, InTxnPC,
      Silent
<1>4. LinksAreSound /\ LiveVersionsUnique
  BY <1>0 DEF LinksAreSound, LinksMatchRequests, LiveVersionsUnique, VersionsAreUnique
<1> QED
  BY <1>1, <1>2, <1>3, <1>4 DEF IInv

\* Every step preserves the invariant.
LEMMA InvStep == IInv /\ [Next]_vars => IInv'
  BY TypeStep, DiskStep, RowStep, LinkStep, SelectedStep, NumberStep, SoundStep, UniqueStep
     DEF IInv

\* IInv is an invariant of every behaviour.
LEMMA Inductive == Spec => []IInv
  BY InitInv, InvStep, PTL DEF Spec

(***************************************************************************)
(* The second invariant: what is kept.                                     *)
(***************************************************************************)

\* The parts of the first invariant the steps below rest on.
LEMMA KeepFacts ==
    ASSUME IInv
    PROVE  /\ pc \in [Uploads -> UploadPC] /\ files \in [Uploads -> {"none", "temp", "kept"}]
           /\ req \in [Uploads -> Requests] /\ reply \in [Uploads -> Replies]
           /\ db.state \in [Uploads -> {"absent", "live", "deleted"}]
           /\ db.owner \in [Uploads -> Owners] /\ db.meta \in [Uploads -> SUBSET Meta]
           /\ faults \in Nat /\ gone \in SUBSET Uploads
           /\ \A w \in Uploads :
                 /\ pc[w] \in {"idle", "insert"} => db.state[w] = "absent" /\ disk.state[w] = "absent"
                 /\ pc[w] # "done" => reply[w].code = "none"
  BY ColumnsTyped DEF IInv, TypeOK, HandlersTyped, RowFollowsHandler, Silent

\* RowsHaveFiles for one upload.
HasFiles(u) ==
    req[u].kind = "zip" /\ (db.state[u] # "absent" \/ disk.state[u] # "absent")
        => files[u] = "kept"

\* The directory of an archive goes only while its row is not there.
LEMMA FilesStep == KeepInv /\ [Next]_vars => RowsHaveFiles'
<1> SUFFICES ASSUME KeepInv, Effect, NEW v \in Uploads
             PROVE  HasFiles(v)'
  BY StepEffect DEF KeepInv, IInv, RowsHaveFiles, HasFiles
<1>0. HasFiles(v) /\ IInv
  BY DEF KeepInv, RowsHaveFiles, HasFiles
<1> USE DEF vars, tables, handlerVars, deleteVars, GoTo, Answer
<1>1. ASSUME NEW u \in Uploads, NEW kind \in Kinds, NEW doc \in Docs, NEW user \in Owners,
             Receive(u, kind, doc, user)
      PROVE  HasFiles(v)'
  BY <1>0, <1>1, KeepFacts DEF Receive, HasFiles
<1>2. ASSUME NEW u \in Uploads, RejectArchive(u) PROVE HasFiles(v)'
  BY <1>0, <1>2, KeepFacts DEF RejectArchive, HasFiles
<1>3. ASSUME NEW u \in Uploads, RowInserted(u) PROVE HasFiles(v)'
  BY <1>0, <1>3, KeepFacts DEF RowInserted, HasFiles, Executed
<1>4. ASSUME NEW u \in Uploads, OwnerAssigned(u) PROVE HasFiles(v)'
  BY <1>0, <1>4, KeepFacts DEF OwnerAssigned, HasFiles, Executed
<1>5. ASSUME NEW u \in Uploads, MetadataSet(u) PROVE HasFiles(v)'
  BY <1>0, <1>5, KeepFacts DEF MetadataSet, HasFiles, Executed, Meta
<1>6. ASSUME NEW u \in Uploads, TagsFail(u) PROVE HasFiles(v)'
  BY <1>0, <1>6, KeepFacts DEF TagsFail, HasFiles
<1>7. ASSUME NEW u \in Uploads, BeginLink(u) PROVE HasFiles(v)'
  BY <1>0, <1>7, KeepFacts DEF BeginLink, HasFiles
<1>8. ASSUME NEW u \in Uploads, LinkFailsToBegin(u) PROVE HasFiles(v)'
  BY <1>0, <1>8, KeepFacts DEF LinkFailsToBegin, HasFiles
<1>9. ASSUME NEW u \in Uploads, ChainInserted(u) PROVE HasFiles(v)'
  BY <1>0, <1>9, KeepFacts DEF ChainInserted, HasFiles, Executed
<1>10. ASSUME NEW u \in Uploads, SelectChain(u) PROVE HasFiles(v)'
  BY <1>0, <1>10, KeepFacts DEF SelectChain, HasFiles
<1>11. ASSUME NEW u \in Uploads, ReadMax(u) PROVE HasFiles(v)'
  BY <1>0, <1>11, KeepFacts DEF ReadMax, HasFiles
<1>12. ASSUME NEW u \in Uploads, RowLinked(u) PROVE HasFiles(v)'
  BY <1>0, <1>12, KeepFacts DEF RowLinked, HasFiles, Executed
<1>13. ASSUME NEW u \in Uploads, CommitLink(u) PROVE HasFiles(v)'
  BY <1>0, <1>13, KeepFacts DEF CommitLink, HasFiles
<1>14. ASSUME NEW u \in Uploads, AnswerLinked(u) PROVE HasFiles(v)'
  BY <1>0, <1>14, KeepFacts DEF AnswerLinked, HasFiles
<1>15. ASSUME NEW u \in Uploads, RollbackLink(u) PROVE HasFiles(v)'
  BY <1>0, <1>15, KeepFacts DEF RollbackLink, HasFiles
<1>16. ASSUME NEW u \in Uploads, NEW user \in Owners, RequireOwner(u, user)
      PROVE  HasFiles(v)'
  BY <1>0, <1>16, KeepFacts DEF RequireOwner, HasFiles
<1>17. ASSUME NEW u \in Uploads, RowDeleted(u) PROVE HasFiles(v)'
  BY <1>0, <1>17, KeepFacts DEF RowDeleted, HasFiles, Executed
<1>18. ASSUME NEW u \in Uploads, StatementFails(u) PROVE HasFiles(v)'
  BY <1>0, <1>18, KeepFacts DEF StatementFails, HasFiles
<1>19. CASE Crash
  BY <1>0, <1>19, KeepFacts DEF Crash, HasFiles
<1>20. CASE UNCHANGED vars
  BY <1>0, <1>20, KeepFacts DEF HasFiles
<1> QED
  BY <1>1, <1>2, <1>3, <1>4, <1>5, <1>6, <1>7, <1>8, <1>9, <1>10, <1>11, <1>12,
     <1>13, <1>14, <1>15, <1>16, <1>17, <1>18, <1>19, <1>20 DEF Effect

\* As long as nothing fails, what a handler has written stays.
LEMMA WrittenStep == KeepInv /\ [Next]_vars => \A v \in Uploads : WrittenIsKept(v)'
<1> SUFFICES ASSUME KeepInv, Effect, NEW v \in Uploads PROVE WrittenIsKept(v)'
  BY StepEffect DEF KeepInv, IInv
<1>0. WrittenIsKept(v) /\ IInv /\ \A w \in Uploads : WrittenIsKept(w)
  BY DEF KeepInv
<1> USE DEF vars, tables, handlerVars, deleteVars, GoTo, Answer
<1>1. ASSUME NEW u \in Uploads, NEW kind \in Kinds, NEW doc \in Docs, NEW user \in Owners,
             Receive(u, kind, doc, user)
      PROVE  WrittenIsKept(v)'
  BY <1>0, <1>1, KeepFacts DEF Receive, WrittenIsKept, InTxnPC, UploadPC
<1>2. ASSUME NEW u \in Uploads, RejectArchive(u) PROVE WrittenIsKept(v)'
  BY <1>0, <1>2, KeepFacts DEF RejectArchive, WrittenIsKept, InTxnPC, UploadPC
<1>3. ASSUME NEW u \in Uploads, RowInserted(u) PROVE WrittenIsKept(v)'
  BY <1>0, <1>3, KeepFacts DEF RowInserted, WrittenIsKept, InTxnPC, UploadPC, Executed
<1>4. ASSUME NEW u \in Uploads, OwnerAssigned(u) PROVE WrittenIsKept(v)'
  BY <1>0, <1>4, KeepFacts DEF OwnerAssigned, WrittenIsKept, InTxnPC, UploadPC, Executed
<1>5. ASSUME NEW u \in Uploads, MetadataSet(u) PROVE WrittenIsKept(v)'
  BY <1>0, <1>5, KeepFacts DEF MetadataSet, WrittenIsKept, InTxnPC, UploadPC, Executed, Meta
<1>6. ASSUME NEW u \in Uploads, TagsFail(u) PROVE WrittenIsKept(v)'
  BY <1>0, <1>6, KeepFacts DEF TagsFail, WrittenIsKept, InTxnPC, UploadPC
<1>7. ASSUME NEW u \in Uploads, BeginLink(u) PROVE WrittenIsKept(v)'
  BY <1>0, <1>7, KeepFacts DEF BeginLink, WrittenIsKept, InTxnPC, UploadPC
<1>8. ASSUME NEW u \in Uploads, LinkFailsToBegin(u) PROVE WrittenIsKept(v)'
  BY <1>0, <1>8, KeepFacts DEF LinkFailsToBegin, WrittenIsKept, InTxnPC, UploadPC
<1>9. ASSUME NEW u \in Uploads, ChainInserted(u) PROVE WrittenIsKept(v)'
  BY <1>0, <1>9, KeepFacts DEF ChainInserted, WrittenIsKept, InTxnPC, UploadPC, Executed
<1>10. ASSUME NEW u \in Uploads, SelectChain(u) PROVE WrittenIsKept(v)'
  BY <1>0, <1>10, KeepFacts DEF SelectChain, WrittenIsKept, InTxnPC, UploadPC
<1>11. ASSUME NEW u \in Uploads, ReadMax(u) PROVE WrittenIsKept(v)'
  BY <1>0, <1>11, KeepFacts DEF ReadMax, WrittenIsKept, InTxnPC, UploadPC
<1>12. ASSUME NEW u \in Uploads, RowLinked(u) PROVE WrittenIsKept(v)'
  BY <1>0, <1>12, KeepFacts DEF RowLinked, WrittenIsKept, InTxnPC, UploadPC, Executed
<1>13. ASSUME NEW u \in Uploads, CommitLink(u) PROVE WrittenIsKept(v)'
  BY <1>0, <1>13, KeepFacts DEF CommitLink, WrittenIsKept, InTxnPC, UploadPC
<1>14. ASSUME NEW u \in Uploads, AnswerLinked(u) PROVE WrittenIsKept(v)'
  BY <1>0, <1>14, KeepFacts DEF AnswerLinked, WrittenIsKept, InTxnPC, UploadPC
<1>15. ASSUME NEW u \in Uploads, RollbackLink(u) PROVE WrittenIsKept(v)'
  BY <1>0, <1>15, KeepFacts DEF RollbackLink, WrittenIsKept, InTxnPC, UploadPC
<1>16. ASSUME NEW u \in Uploads, NEW user \in Owners, RequireOwner(u, user)
      PROVE  WrittenIsKept(v)'
  BY <1>0, <1>16, KeepFacts DEF RequireOwner, WrittenIsKept, InTxnPC, UploadPC
<1>17. ASSUME NEW u \in Uploads, RowDeleted(u) PROVE WrittenIsKept(v)'
  BY <1>0, <1>17, KeepFacts DEF RowDeleted, WrittenIsKept, InTxnPC, UploadPC, Executed
<1>18. ASSUME NEW u \in Uploads, StatementFails(u) PROVE WrittenIsKept(v)'
  BY <1>0, <1>18, KeepFacts DEF StatementFails, WrittenIsKept, InTxnPC, UploadPC
<1>19. CASE Crash
  BY <1>0, <1>19, KeepFacts DEF Crash, WrittenIsKept, InTxnPC, UploadPC
<1>20. CASE UNCHANGED vars
  BY <1>0, <1>20, KeepFacts DEF WrittenIsKept, InTxnPC, UploadPC
<1> QED
  BY <1>1, <1>2, <1>3, <1>4, <1>5, <1>6, <1>7, <1>8, <1>9, <1>10, <1>11, <1>12,
     <1>13, <1>14, <1>15, <1>16, <1>17, <1>18, <1>19, <1>20 DEF Effect

\* KeepInv is an invariant of every behaviour.
LEMMA Keeping == Spec => []KeepInv
<1>1. Init => KeepInv
  <2>1. Init => RowsHaveFiles
    BY DEF Init, EmptyTables, RowsHaveFiles
  <2>2. Init => \A u \in Uploads : WrittenIsKept(u)
    BY DEF Init, EmptyTables, WrittenIsKept, Silent, InTxnPC
  <2> QED
    BY <2>1, <2>2, InitInv DEF KeepInv
<1>2. KeepInv /\ [Next]_vars => KeepInv'
  BY InvStep, FilesStep, WrittenStep DEF KeepInv
<1> QED
  BY <1>1, <1>2, PTL DEF Spec

\* Every variable keeps its type, and LinkToChain's transaction belongs to one
\* handler at a time, for any number of uploads, users and faults.
THEOREM TypeCorrect == Spec => []TypeOK
<1>1. IInv => TypeOK
  BY DEF IInv
<1> QED
  BY Inductive, <1>1, PTL

\* version.go's promise that the MAX + 1 read and its write are one step: no two
\* live versions of a chain ever have the same number, on the connection or on
\* disk.
THEOREM VersionsStayUnique == Spec => []LiveVersionsUnique
<1>1. IInv => LiveVersionsUnique
  BY DEF IInv
<1> QED
  BY Inductive, <1>1, PTL

\* No chain ever mixes owners or documents, and no document of one owner is split
\* into two chains, committed or not.
THEOREM LinksStaySound == Spec => []LinksAreSound
<1>1. IInv => LinksAreSound
  BY DEF IInv
<1> QED
  BY Inductive, <1>1, PTL

\* A 201 is on disk, with the link it names, whatever other handlers roll back
\* and whenever the process dies.
THEOREM AnswersAreDurable == Spec => []AnswerIsDurable
<1>1. IInv => AnswerIsDurable
  BY DEF IInv, RowFollowsHandler, LinkFollowsHandler, AnswerIsDurable
<1> QED
  BY Inductive, <1>1, PTL

\* Whatever happens to its request, and whenever the process dies, a session
\* that can be read has the directory its archive was extracted to.
THEOREM RowsKeepFiles == Spec => []RowsHaveFiles
<1>1. KeepInv => RowsHaveFiles
  BY DEF KeepInv
<1> QED
  BY Keeping, <1>1, PTL

\* As long as nothing has failed, what was acknowledged is kept, although other
\* handlers' transactions may have carried it.
THEOREM AcknowledgedStays == Spec => []AcknowledgedIsKept
<1>1. KeepInv => AcknowledgedIsKept
  BY DEF KeepInv, WrittenIsKept, AcknowledgedIsKept
<1> QED
  BY Keeping, <1>1, PTL

\* Every step is a step of the version history, or none: most of what happens
\* inside a transaction reaches the disk with its COMMIT.
LEMMA HistoryStep == IInv /\ [Next]_vars => [History!HistoryNext]_(History!historyVars)
<1> SUFFICES ASSUME IInv, [Next]_vars
             PROVE  History!HistoryNext \/ UNCHANGED disk
  BY DEF History!historyVars
<1>0. /\ ~inTxn => disk = db
      /\ disk' \in Tables
      /\ \A w \in Uploads : pc[w] \in InTxnPC => inTxn
  BY TypeStep DEF IInv, TypeOK, DiskFollowsConnection, TransactionHeld
<1>1. CASE Quiet /\ QuietHandlers
  <2>1. CASE inTxn
    BY <1>1, <2>1 DEF Quiet
  <2>2. CASE ~inTxn
    <3>1. disk' = db' /\ disk = db
      BY <1>0, <1>1, <2>2 DEF Quiet
    <3>2. disk'.state \in [Uploads -> History!RowStates]
      BY <1>0, ColumnsTyped DEF History!RowStates
    <3>3. \A s \in Uploads : History!Ages(s)
      BY <1>1, <3>1 DEF Quiet, History!Ages
    <3>4. disk'.chain = disk.chain /\ disk'.ver = disk.ver
      BY <1>1 DEF Quiet
    <3> QED
      BY <3>2, <3>3, <3>4 DEF History!HistoryNext
  <2> QED
    BY <2>1, <2>2
<1>2. ASSUME NEW u \in Uploads, SelectChain(u) \/ ReadMax(u) \/ RollbackLink(u)
      PROVE  UNCHANGED disk
  BY <1>2 DEF SelectChain, ReadMax, RollbackLink, tables
<1>3. ASSUME NEW u \in Uploads, RowLinked(u) PROVE UNCHANGED disk
  BY <1>0, <1>3 DEF RowLinked, Executed, InTxnPC
<1>4. ASSUME NEW u \in Uploads, CommitLink(u) PROVE History!HistoryNext
  <2> DEFINE c == loc[u].chain
             n == loc[u].ver
  <2>1. /\ pc[u] = "commit" /\ disk' = db
        /\ NumberIsNext(u) /\ SelectedChainIsOwn(u)
        /\ \A w \in Uploads : LinkFollowsHandler(w)
        /\ \A w, x \in Uploads : pc[w] \in InTxnPC /\ pc[x] \in InTxnPC => w = x
    BY <1>4 DEF CommitLink, IInv, TypeOK, TransactionHeld
  <2>2. /\ db.state \in [Uploads -> {"absent", "live", "deleted"}]
        /\ disk.state \in [Uploads -> {"absent", "live", "deleted"}]
        /\ db.chain \in [Uploads -> Nat] /\ db.ver \in [Uploads -> Nat]
        /\ disk.chain \in [Uploads -> Nat] /\ disk.ver \in [Uploads -> Nat]
        /\ DOMAIN db.chains \subseteq Nat \ {0}
    BY ColumnsTyped DEF IInv, TypeOK
  <2>3. /\ disk.chain[u] = 0
        /\ db.chain[u] = c /\ db.ver[u] = n /\ c > 0
    BY <2>1, <2>2 DEF LinkFollowsHandler, SelectedChainIsOwn, IsFirstChainOf
  <2>4. \A w \in Uploads \ {u} : db.chain[w] = disk.chain[w] /\ db.ver[w] = disk.ver[w]
    BY <2>1 DEF LinkFollowsHandler, InTxnPC
  <2>5. /\ db.chain = [disk.chain EXCEPT ![u] = c]
        /\ db.ver = [disk.ver EXCEPT ![u] = n]
    BY <2>2, <2>3, <2>4
  <2>6. \E m \in LiveNumbers(disk, c) : n <= m + 1
    BY <2>1 DEF NumberIsNext
  <2>7. LiveNumbers(disk, c) = History!Numbers(c)
    BY DEF LiveNumbers, History!Numbers
  <2>8. \A t \in Uploads \ {u} : disk.chain[t] = c /\ db.state[t] = "live" => disk.ver[t] < n
    BY <2>1, <2>4 DEF NumberIsNext
  <2>9. History!Joins(u, c, n)
    BY <2>1, <2>3, <2>5, <2>6, <2>7, <2>8 DEF History!Joins
  <2>10. db.state[u] # "absent"
    BY <2>1 DEF IInv, RowFollowsHandler, DiskFollowsConnection, InTxnPC
  <2>11. \A s \in Uploads : History!Ages(s)
    BY <2>1, <2>2 DEF IInv, DiskFollowsConnection, History!Ages
  <2> QED
    BY <2>1, <2>2, <2>3, <2>9, <2>10, <2>11 DEF History!HistoryNext, History!RowStates
<1>5. CASE Crash
  BY <1>5 DEF Crash
<1>6. Effect
  BY StepEffect DEF IInv
<1> QED
  BY <1>1, <1>2, <1>3, <1>4, <1>5, <1>6, QuietOrLink

\* The committed tables implement VersionHistory: each commit links at most one
\* session, numbers it above every live version, and never renumbers, revives
\* or removes one.
THEOREM ImplementsVersionHistory == Spec => VersionHistorySpec
<1>1. Init => History!HistoryInit
  BY DEF Init, EmptyTables, History!HistoryInit
<1> QED
  BY Inductive, HistoryStep, <1>1, PTL DEF Spec, VersionHistorySpec, History!HistorySpec

================================================================================
