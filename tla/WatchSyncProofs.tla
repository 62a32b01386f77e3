--------------------------- MODULE WatchSyncProofs ---------------------------
(***************************************************************************)
(* Proofs about WatchSync for any number of files, edits, flushes, timers  *)
(* and every choice of faults: what is pending is scheduled, and, as long  *)
(* as no two files are stored under one name, a change that was noticed is *)
(* forgotten in the ways NoForgottenChange names and in no other, and      *)
(* every path printed as "Synced" is stored, left out or contended.        *)
(***************************************************************************)
EXTENDS WatchSync, TLAPS

\* The paths of a flush that its request does not leave out.
Carried(u) == paths[u] \ skipped[u]

\* These three are only abbreviations.
USE DEF Carried, request, history

\* No two files of the watched directory have the same base name.
OwnBaseNames == \A f, g \in Files : StoredAs[f] = StoredAs[g] => f = g

\* TypeOK but for the contents of the requests.
BasicTypes ==
    /\ local \in [Files -> Versions \cup {0, Absent}]
    /\ edits \in 0 .. MaxEdits
    /\ subdir \in {"none", "made", "watched"}
    /\ events \subseteq Files /\ dirEvent \in BOOLEAN
    /\ running \in BOOLEAN
    /\ pending \subseteq Files
    /\ debounce \in Timers \cup {NoTimer}
    /\ loop \in {"idle", "added", "reset", "new"}
    /\ held \in Timers \cup {NoTimer}
    /\ loop \in {"reset", "new"} <=> held # NoTimer
    /\ armed \subseteq Timers
    /\ flush \in [Flushes -> {"off", "begun", "streaming", "waiting", "synced"}]
    /\ paths \in [Flushes -> SUBSET Files]
    /\ skipped \in [Flushes -> SUBSET Files]
    /\ body \in [Flushes -> Seq(Parts)]
    /\ handler \in [Flushes -> {"none", "writing", "copying"}]
    /\ written \in [Flushes -> Nat]
    /\ server \in [SessionPaths -> SUBSET (0 .. MaxEdits)]
    /\ lost \subseteq Files /\ missed \subseteq Files /\ contended \subseteq Files

\* A request holds files its flush has taken.
SentIsTaken ==
    \A u \in Flushes :
        /\ written[u] <= Len(body[u]) /\ skipped[u] \subseteq paths[u]
        /\ \A i \in 1 .. Len(body[u]) : body[u][i].file \in Carried(u)

\* How far a flush and its handler can be together.
StagesAgree ==
    \A u \in Flushes :
        /\ flush[u] \in {"begun", "streaming", "synced"} => handler[u] = "none"
        /\ flush[u] \in {"begun", "streaming"} => written[u] = 0
        /\ flush[u] = "begun" => body[u] = <<>> /\ paths[u] = {} /\ skipped[u] = {}
        /\ flush[u] = "waiting" => handler[u] # "none"
        /\ handler[u] = "copying" => written[u] < Len(body[u])

\* A request holds each file once.
FilesAreSentOnce ==
    \A u \in Flushes : \A i, j \in 1 .. Len(body[u]) :
        body[u][i].file = body[u][j].file => i = j

\* A file that two uploads have is contended.
SharedIsContended ==
    \A u, o \in Flushes : u # o => InFlight(u) \cap InFlight(o) \subseteq contended

\* The paths of a request the client has given up on are lost.
GivenUpIsLost ==
    \A u \in Flushes : handler[u] # "none" /\ flush[u] = "off" =>
        Carried(u) \subseteq lost \cup contended

\* A version that has become old since it was read was noticed to be.
OldIsNoticed ==
    \A u \in Flushes : ~Idle(u) => \A i \in 1 .. Len(body[u]) :
        \/ body[u][i].version = local[body[u][i].file]
        \/ body[u][i].file \in lost \cup contended \cup events \cup pending

\* A file a handler is about to fill is empty.
CopyingIsEmpty ==
    \A u \in Flushes : handler[u] = "copying" /\ Target(u).file \notin contended =>
        server[StoredAs[Target(u).file]] = {}

\* A complete request has every path of its flush that it does not leave out.
WaitingIsComplete ==
    \A u \in Flushes : flush[u] = "waiting" => \A f \in Carried(u) :
        \E i \in 1 .. Len(body[u]) : body[u][i].file = f

\* What a handler has written stays written until it answers.
WrittenIsStored ==
    \A u \in Flushes : handler[u] # "none" => \A i \in 1 .. written[u] :
        body[u][i].file \notin contended =>
            server[StoredAs[body[u][i].file]] = {body[u][i].version}

\* NoForgottenChange, with the contents of the requests by position.
Kept(f) ==
    \/ local[f] \in {0, Absent}
    \/ server[StoredAs[f]] = {local[f]}
    \/ f \in events \cup pending
    \/ \E u \in Flushes :
          /\ flush[u] = "streaming" /\ f \in Carried(u)
          /\ \A i \in 1 .. Len(body[u]) : body[u][i].file # f
    \/ \E u \in Flushes :
          /\ flush[u] \in {"streaming", "waiting"}
          /\ \E i \in 1 .. Len(body[u]) :
                body[u][i].file = f /\ body[u][i].version = local[f]

ChangesAreKept == \A f \in Files \ (lost \cup missed \cup contended) : Kept(f)

\* What holds whatever the files are called ...
CInv ==
    /\ BasicTypes /\ SentIsTaken
    /\ PendingIsScheduled
    /\ StagesAgree

\* ... and what is kept when no two of them are stored under one name.
IInv ==
    /\ OwnBaseNames
    /\ CInv
    /\ FilesAreSentOnce
    /\ SharedIsContended /\ GivenUpIsLost /\ OldIsNoticed
    /\ CopyingIsEmpty /\ WrittenIsStored /\ WaitingIsComplete
    /\ ChangesAreKept

\* The file a handler is about to open or fill is a part of its request.
LEMMA TargetIsPart ==
    ASSUME BasicTypes, NEW u \in Flushes, written[u] < Len(body[u])
    PROVE  /\ Target(u) \in Parts /\ Target(u).file \in Files
           /\ Target(u).version \in 0 .. MaxEdits
           /\ Target(u) = body[u][written[u] + 1] /\ written[u] + 1 \in 1 .. Len(body[u])
<1>1. written[u] + 1 \in 1 .. Len(body[u]) /\ body[u] \in Seq(Parts)
  BY DEF BasicTypes
<1>2. Target(u) \in Parts
  BY <1>1 DEF Target
<1> QED
  BY <1>1, <1>2, MaxEditsAssumption DEF Parts, Target, Versions

\* What a request holds, by position.
LEMMA ReadByPosition ==
    ASSUME BasicTypes, NEW u \in Flushes
    PROVE  /\ Entries(u) = {body[u][i] : i \in 1 .. Len(body[u])}
           /\ Read(u) = {body[u][i].file : i \in 1 .. Len(body[u])}
  BY DEF BasicTypes, Read, Entries

\* A file is streamed that the flush has taken and the request does not hold yet.
LEMMA StreamedIsNew ==
    ASSUME BasicTypes, NEW u \in Flushes, NEW f \in Files, StreamFile(u, f)
    PROVE  f \in Carried(u) /\ \A i \in 1 .. Len(body[u]) : body[u][i].file # f
  BY ReadByPosition DEF StreamFile, Handled

\* A file that can be opened is added to the request, another one is left out.
LEMMA StreamFileEffect ==
    ASSUME BasicTypes, NEW u \in Flushes, NEW f \in Files, StreamFile(u, f)
    PROVE  /\ body' \in [Flushes -> Seq(Parts)] /\ skipped' \in [Flushes -> SUBSET Files]
           /\ paths' = paths /\ missed' \subseteq Files /\ missed \subseteq missed'
           /\ \A o \in Flushes : o # u => body'[o] = body[o] /\ skipped'[o] = skipped[o]
           /\ \A o \in Flushes : Carried(o)' \subseteq Carried(o)
           /\ \/ /\ local[f] = Absent \/ f \in missed'
                 /\ body'[u] = body[u] /\ skipped'[u] = skipped[u] \cup {f}
              \/ /\ skipped' = skipped
                 /\ Len(body'[u]) = Len(body[u]) + 1
                 /\ \A i \in 1 .. Len(body[u]) : body'[u][i] = body[u][i]
                 /\ body'[u][Len(body[u]) + 1] = [file |-> f, version |-> local[f]]
<1>1. CASE SkipFile(u, f)
  <2>1. skipped' = [skipped EXCEPT ![u] = skipped[u] \cup {f}] /\ paths' = paths /\ body' = body
    BY <1>1 DEF StreamFile, SkipFile
  <2>2. /\ skipped' \in [Flushes -> SUBSET Files] /\ skipped'[u] = skipped[u] \cup {f}
        /\ \A o \in Flushes : o # u => skipped'[o] = skipped[o]
    BY <2>1 DEF BasicTypes
  <2>3. \A o \in Flushes : Carried(o)' \subseteq Carried(o)
    BY <2>1, <2>2
  <2>4. /\ missed' \subseteq Files /\ missed \subseteq missed'
        /\ local[f] = Absent \/ f \in missed'
    BY <1>1 DEF SkipFile, BasicTypes
  <2> QED
    BY <2>1, <2>2, <2>3, <2>4 DEF BasicTypes
<1>2. CASE SendFile(u, f)
  <2> DEFINE e == [file |-> f, version |-> local[f]]
  <2>1. e \in Parts
    BY <1>2 DEF BasicTypes, Parts, SendFile
  <2>2. /\ body[u] \in Seq(Parts) /\ body' = [body EXCEPT ![u] = Append(body[u], e)]
        /\ paths' = paths /\ skipped' = skipped /\ missed' = missed
    BY <1>2 DEF StreamFile, SendFile, BasicTypes
  <2> HIDE DEF e
  <2>3. body'[u] = Append(body[u], e) /\ \A o \in Flushes : o # u => body'[o] = body[o]
    BY <2>2 DEF BasicTypes
  <2>4. /\ Append(body[u], e) \in Seq(Parts)
        /\ Len(Append(body[u], e)) = Len(body[u]) + 1
        /\ \A i \in 1 .. Len(body[u]) : Append(body[u], e)[i] = body[u][i]
        /\ Append(body[u], e)[Len(body[u]) + 1] = e
    BY <2>1, <2>2
  <2>5. body' \in [Flushes -> Seq(Parts)]
    BY <2>2, <2>4 DEF BasicTypes
  <2> QED
    BY <2>2, <2>3, <2>4, <2>5 DEF e, BasicTypes
<1> QED
  BY <1>1, <1>2 DEF StreamFile

\* Taking what is pending makes it contended where another upload has it, and no
\* other file less contended.
LEMMA TakePendingEffect ==
    ASSUME BasicTypes, NEW u \in Flushes, TakePending(u)
    PROVE  /\ paths'[u] = pending /\ skipped'[u] = skipped[u]
           /\ \A f \in contended : f \in contended' \/ f \in pending
           /\ \A f \in lost : f \in lost' \/ f \in pending
           /\ \A f \in missed : f \in missed' \/ f \in pending
           /\ \A o \in Flushes : o # u =>
                 /\ paths'[o] = paths[o] /\ skipped'[o] = skipped[o] /\ flush'[o] = flush[o]
                 /\ \A f \in pending : f \in InFlight(o) => f \in contended'
  BY DEF BasicTypes, TakePending

\* The files of an upload under way do not become uncontended, nor unlost without
\* becoming contended.
LEMMA ContentionStays ==
    ASSUME IInv, [Next]_vars, NEW u \in Flushes, ~Idle(u), NEW f \in Carried(u)
    PROVE  /\ f \in contended => f \in contended'
           /\ f \in lost \cup contended => f \in lost' \cup contended'
<1>1. ASSUME NEW o \in Flushes, TakePending(o)
      PROVE  /\ f \in contended => f \in contended'
             /\ f \in lost \cup contended => f \in lost' \cup contended'
  <2>1. o # u
    BY <1>1 DEF IInv, CInv, StagesAgree, TakePending
  <2>2. f \in InFlight(u)
    BY DEF InFlight
  <2> QED
    BY <1>1, <2>1, <2>2, TakePendingEffect DEF IInv, CInv
<1>2. CASE contended' = contended /\ lost \subseteq lost'
  BY <1>2
<1>3. \/ contended' = contended /\ lost \subseteq lost'
      \/ \E o \in Flushes : TakePending(o)
  BY DEF Next, vars, LoopStep, FlushStep, HandlerStep, Save, Remove, Notice, MakeDir,
       ReceiveDir, ReceiveFile, ReadDebounce, ResetTimer, ResetPanics, NewTimer,
       AssignDebounce, EventsOverflow, Stop, Die, Start, TimerFires, StreamFile, SkipFile,
       SendFile, RequestComplete, Report, OpenTarget, CopyTarget, Answer, Reject, TimeOut,
       WriteFails, Fail
<1> QED
  BY <1>1, <1>2, <1>3

\* No other handler writes to a file that is not contended.
LEMMA WritersAreApart ==
    ASSUME IInv, NEW u \in Flushes, ~Idle(u), NEW f \in Carried(u) \ contended,
           NEW o \in Flushes, o # u, handler[o] # "none", written[o] < Len(body[o])
    PROVE  StoredAs[Target(o).file] # StoredAs[f]
<1>1. Target(o).file \in Files /\ Target(o).file \in Carried(o) /\ f \in Files
  BY TargetIsPart DEF IInv, CInv, SentIsTaken, BasicTypes
<1>2. Target(o).file # f
  BY <1>1 DEF IInv, CInv, SharedIsContended, InFlight, Idle
<1> QED
  BY <1>1, <1>2 DEF IInv, CInv, OwnBaseNames

\* A handler empties the file it opens.
LEMMA OpenTargetEffect ==
    ASSUME IInv, NEW u \in Flushes, OpenTarget(u)
    PROVE  /\ handler[u] = "writing" /\ written[u] < Len(body[u]) /\ handler'[u] = "copying"
           /\ \A o \in Flushes : o # u => handler'[o] = handler[o]
           /\ server'[StoredAs[Target(u).file]] = {}
           /\ \A g \in SessionPaths : g # StoredAs[Target(u).file] => server'[g] = server[g]
<1>1. handler[u] = "writing" /\ written[u] < Len(body[u])
  BY DEF OpenTarget
<1>2. StoredAs[Target(u).file] \in SessionPaths
  BY <1>1, TargetIsPart DEF SessionPaths, IInv, CInv
<1> QED
  BY <1>1, <1>2 DEF OpenTarget, IInv, CInv, BasicTypes

\* A handler fills the file it has opened.
LEMMA CopyTargetEffect ==
    ASSUME IInv, NEW u \in Flushes, CopyTarget(u)
    PROVE  /\ handler[u] = "copying" /\ written[u] < Len(body[u]) /\ handler'[u] = "writing"
           /\ \A o \in Flushes : o # u => handler'[o] = handler[o] /\ written'[o] = written[o]
           /\ written'[u] = written[u] + 1
           /\ Target(u).file \notin contended =>
                 server'[StoredAs[Target(u).file]] = {Target(u).version}
           /\ \A g \in SessionPaths : g # StoredAs[Target(u).file] => server'[g] = server[g]
<1> DEFINE g == StoredAs[Target(u).file]
           v == Target(u).version
<1>1. handler[u] = "copying" /\ written[u] < Len(body[u])
  BY DEF CopyTarget, IInv, CInv, StagesAgree
<1>2. g \in SessionPaths /\ server \in [SessionPaths -> SUBSET (0 .. MaxEdits)]
  BY <1>1, TargetIsPart DEF SessionPaths, IInv, CInv, BasicTypes
<1>3. /\ \/ server' = [server EXCEPT ![g] = {v}]
         \/ server' = [server EXCEPT ![g] = server[g] \cup {v}]
      /\ handler' = [handler EXCEPT ![u] = "writing"]
      /\ written' = [written EXCEPT ![u] = written[u] + 1]
  BY DEF CopyTarget
<1>4. Target(u).file \notin contended => server[g] = {}
  BY <1>1 DEF IInv, CInv, CopyingIsEmpty
<1>5. /\ handler'[u] = "writing" /\ written'[u] = written[u] + 1
      /\ \A o \in Flushes : o # u => handler'[o] = handler[o] /\ written'[o] = written[o]
  BY <1>3 DEF IInv, CInv, BasicTypes
<1> HIDE DEF g, v
<1>6. /\ Target(u).file \notin contended => server'[g] = {v}
      /\ \A p \in SessionPaths : p # g => server'[p] = server[p]
  BY <1>2, <1>3, <1>4
<1> QED
  BY <1>1, <1>5, <1>6 DEF g, v

\* Every variable keeps its type.
LEMMA TypesStep == CInv /\ [Next]_vars => BasicTypes'
<1> SUFFICES ASSUME CInv, [Next]_vars PROVE BasicTypes'
  OBVIOUS
<1> USE InnerAssumption, NoTimerAssumption, AbsentAssumption DEF CInv, BasicTypes,
     fileVars, loopVars, uploadVars
<1>1. ASSUME NEW f \in Files, Save(f) PROVE BasicTypes'
  <2>1. edits' \in 0 .. MaxEdits /\ edits' \in Versions
    BY <1>1, MaxEditsAssumption DEF Save, Versions
  <2> QED
    BY <1>1, <2>1 DEF Save, Notice
<1>2. ASSUME NEW f \in Files, Remove(f) PROVE BasicTypes'
  <2>1. edits' \in 0 .. MaxEdits /\ edits' \in Versions
    BY <1>2, MaxEditsAssumption DEF Remove, Versions
  <2> QED
    BY <1>2, <2>1 DEF Remove, Notice
<1>3. ASSUME MakeDir PROVE BasicTypes'
  <2>1. edits' \in 0 .. MaxEdits /\ edits' \in Versions
    BY <1>3, MaxEditsAssumption DEF MakeDir, Versions
  <2> QED
    BY <1>3, <2>1 DEF MakeDir, Notice
<1>4. ASSUME ReceiveDir PROVE BasicTypes'
  BY <1>4 DEF ReceiveDir
<1>5. ASSUME NEW f \in Files, ReceiveFile(f) PROVE BasicTypes'
  BY <1>5 DEF ReceiveFile
<1>6. ASSUME ReadDebounce PROVE BasicTypes'
  BY <1>6 DEF ReadDebounce
<1>7. ASSUME ResetTimer PROVE BasicTypes'
  BY <1>7 DEF ResetTimer
<1>8. ASSUME NewTimer PROVE BasicTypes'
  BY <1>8 DEF NewTimer
<1>9. ASSUME AssignDebounce PROVE BasicTypes'
  BY <1>9 DEF AssignDebounce
<1>10. ASSUME EventsOverflow PROVE BasicTypes'
  BY <1>10 DEF EventsOverflow
<1>11. ASSUME Stop PROVE BasicTypes'
  <2>1. UNION {paths[u] : u \in {v \in Flushes : flush[v] # "off"}} \subseteq Files
    OBVIOUS
  <2>2. lost' \subseteq Files
    BY <1>11, <2>1 DEF Stop, Die
  <2>3. flush' \in [Flushes -> {"off", "begun", "streaming", "waiting", "synced"}]
    BY <1>11 DEF Stop, Die
  <2> QED
    BY <1>11, <2>2, <2>3 DEF Stop, Die
<1>12. ASSUME ResetPanics PROVE BasicTypes'
  <2>1. UNION {paths[u] : u \in {v \in Flushes : flush[v] # "off"}} \subseteq Files
    OBVIOUS
  <2>2. lost' \subseteq Files
    BY <1>12, <2>1 DEF ResetPanics, Die
  <2>3. flush' \in [Flushes -> {"off", "begun", "streaming", "waiting", "synced"}]
    BY <1>12 DEF ResetPanics, Die
  <2> QED
    BY <1>12, <2>2, <2>3 DEF ResetPanics, Die
<1>13. ASSUME Start PROVE BasicTypes'
  BY <1>13 DEF Start
<1>14. ASSUME NEW t \in Timers, NEW u \in Flushes, TimerFires(t, u) PROVE BasicTypes'
  <2>1. <<>> \in Seq(Parts)
    OBVIOUS
  <2> QED
    BY <1>14, <2>1 DEF TimerFires
<1>15. ASSUME NEW u \in Flushes, TakePending(u) PROVE BasicTypes'
  BY <1>15 DEF TakePending
<1>16. ASSUME NEW u \in Flushes, NEW f \in Files, StreamFile(u, f) PROVE BasicTypes'
  BY <1>16, StreamFileEffect DEF StreamFile, SkipFile, SendFile
<1>17. ASSUME NEW u \in Flushes, RequestComplete(u) PROVE BasicTypes'
  BY <1>17 DEF RequestComplete
<1>18. ASSUME NEW u \in Flushes, Report(u) PROVE BasicTypes'
  BY <1>18 DEF Report
<1>19. ASSUME NEW u \in Flushes, OpenTarget(u) PROVE BasicTypes'
  BY <1>19 DEF OpenTarget
<1>20. ASSUME NEW u \in Flushes, CopyTarget(u) PROVE BasicTypes'
  <2>1. written[u] < Len(body[u])
    BY <1>20 DEF CopyTarget, StagesAgree
  <2>2. Target(u).file \in Files /\ Target(u).version \in 0 .. MaxEdits
    BY <2>1, TargetIsPart
  <2>3. StoredAs[Target(u).file] \in SessionPaths
    BY <2>2 DEF SessionPaths
  <2>4. server' \in [SessionPaths -> SUBSET (0 .. MaxEdits)]
    <3> DEFINE g == StoredAs[Target(u).file]
               v == Target(u).version
    <3>1. \/ server' = [server EXCEPT ![g] = {v}]
          \/ server' = [server EXCEPT ![g] = server[g] \cup {v}]
      BY <1>20 DEF CopyTarget
    <3>2. g \in SessionPaths /\ v \in 0 .. MaxEdits
      BY <2>2, <2>3
    <3> HIDE DEF g, v
    <3>3. server[g] \in SUBSET (0 .. MaxEdits)
      BY <3>2
    <3>4. {v} \in SUBSET (0 .. MaxEdits) /\ server[g] \cup {v} \in SUBSET (0 .. MaxEdits)
      BY <3>2, <3>3
    <3>5. \E new \in SUBSET (0 .. MaxEdits) : server' = [server EXCEPT ![g] = new]
      BY <3>1, <3>4
    <3> QED
      BY <3>5
  <2> QED
    BY <1>20, <2>4 DEF CopyTarget
<1>21. ASSUME NEW u \in Flushes, Answer(u) PROVE BasicTypes'
  BY <1>21 DEF Answer
<1>22. ASSUME NEW u \in Flushes, Reject(u) PROVE BasicTypes'
  BY <1>22 DEF Reject, Fail
<1>23. ASSUME NEW u \in Flushes, TimeOut(u) PROVE BasicTypes'
  BY <1>23 DEF TimeOut, Fail
<1>24. ASSUME NEW u \in Flushes, WriteFails(u) PROVE BasicTypes'
  BY <1>24 DEF WriteFails, Fail
<1>25. CASE UNCHANGED vars
  BY <1>25 DEF vars
<1> HIDE DEF CInv, BasicTypes, fileVars, loopVars, uploadVars
<1> QED
  BY <1>1, <1>2, <1>3, <1>4, <1>5, <1>6, <1>7, <1>8, <1>9, <1>10, <1>11, <1>12,
       <1>13, <1>14, <1>15, <1>16, <1>17, <1>18, <1>19, <1>20, <1>21, <1>22, <1>23, <1>24, <1>25
       DEF Next, LoopStep, FlushStep, HandlerStep

\* A request only ever holds files its flush has taken.
LEMMA TakenStep == CInv /\ [Next]_vars => SentIsTaken'
<1> SUFFICES ASSUME CInv, [Next]_vars PROVE SentIsTaken'
  OBVIOUS
<1> USE DEF CInv, BasicTypes, SentIsTaken, StagesAgree, fileVars, loopVars, uploadVars
<1>1. ASSUME NEW f \in Files, Save(f) PROVE SentIsTaken'
  BY <1>1 DEF Save, Notice
<1>2. ASSUME NEW f \in Files, Remove(f) PROVE SentIsTaken'
  BY <1>2 DEF Remove, Notice
<1>3. ASSUME MakeDir PROVE SentIsTaken'
  BY <1>3 DEF MakeDir
<1>4. ASSUME ReceiveDir PROVE SentIsTaken'
  BY <1>4 DEF ReceiveDir
<1>5. ASSUME NEW f \in Files, ReceiveFile(f) PROVE SentIsTaken'
  BY <1>5 DEF ReceiveFile
<1>6. ASSUME ReadDebounce PROVE SentIsTaken'
  BY <1>6 DEF ReadDebounce
<1>7. ASSUME ResetTimer PROVE SentIsTaken'
  BY <1>7 DEF ResetTimer
<1>8. ASSUME NewTimer PROVE SentIsTaken'
  BY <1>8 DEF NewTimer
<1>9. ASSUME AssignDebounce PROVE SentIsTaken'
  BY <1>9 DEF AssignDebounce
<1>10. ASSUME EventsOverflow PROVE SentIsTaken'
  BY <1>10 DEF EventsOverflow
<1>11. ASSUME Stop PROVE SentIsTaken'
  BY <1>11 DEF Stop, Die
<1>12. ASSUME ResetPanics PROVE SentIsTaken'
  BY <1>12 DEF ResetPanics, Die
<1>13. ASSUME Start PROVE SentIsTaken'
  BY <1>13 DEF Start
<1>14. ASSUME NEW t \in Timers, NEW u \in Flushes, TimerFires(t, u) PROVE SentIsTaken'
  BY <1>14 DEF TimerFires
<1>15. ASSUME NEW u \in Flushes, TakePending(u) PROVE SentIsTaken'
  BY <1>15 DEF TakePending
<1>16. ASSUME NEW u \in Flushes, NEW f \in Files, StreamFile(u, f) PROVE SentIsTaken'
  <2>1. /\ \A o \in Flushes : o # u => body'[o] = body[o] /\ skipped'[o] = skipped[o]
        /\ paths' = paths
    BY <1>16, StreamFileEffect
  <2>2. written' = written /\ written[u] \in Nat /\ Len(body[u]) \in Nat
    BY <1>16 DEF StreamFile
  <2>3. f \in Carried(u) /\ \A i \in 1 .. Len(body[u]) : body[u][i].file # f
    BY <1>16, StreamedIsNew
  <2>4. /\ written[u] <= Len(body[u]) /\ skipped[u] \subseteq paths[u]
        /\ \A i \in 1 .. Len(body[u]) : body[u][i].file \in Carried(u)
    OBVIOUS
  <2>5. \/ body'[u] = body[u] /\ skipped'[u] = skipped[u] \cup {f}
        \/ /\ skipped' = skipped
           /\ Len(body'[u]) = Len(body[u]) + 1
           /\ \A i \in 1 .. Len(body[u]) : body'[u][i] = body[u][i]
           /\ body'[u][Len(body[u]) + 1] = [file |-> f, version |-> local[f]]
    BY <1>16, StreamFileEffect
  <2> HIDE DEF CInv, BasicTypes, SentIsTaken, StagesAgree
  <2>6. /\ written[u] <= Len(body'[u]) /\ skipped'[u] \subseteq paths'[u]
        /\ \A i \in 1 .. Len(body'[u]) : body'[u][i].file \in Carried(u)'
    BY <2>1, <2>2, <2>3, <2>4, <2>5
  <2> QED
    BY <2>1, <2>2, <2>6 DEF CInv, SentIsTaken
<1>17. ASSUME NEW u \in Flushes, RequestComplete(u) PROVE SentIsTaken'
  BY <1>17 DEF RequestComplete
<1>18. ASSUME NEW u \in Flushes, Report(u) PROVE SentIsTaken'
  BY <1>18 DEF Report
<1>19. ASSUME NEW u \in Flushes, OpenTarget(u) PROVE SentIsTaken'
  BY <1>19 DEF OpenTarget
<1>20. ASSUME NEW u \in Flushes, CopyTarget(u) PROVE SentIsTaken'
  BY <1>20 DEF CopyTarget
<1>21. ASSUME NEW u \in Flushes, Answer(u) PROVE SentIsTaken'
  BY <1>21 DEF Answer
<1>22. ASSUME NEW u \in Flushes, Reject(u) PROVE SentIsTaken'
  BY <1>22 DEF Reject, Fail
<1>23. ASSUME NEW u \in Flushes, TimeOut(u) PROVE SentIsTaken'
  BY <1>23 DEF TimeOut, Fail
<1>24. ASSUME NEW u \in Flushes, WriteFails(u) PROVE SentIsTaken'
  BY <1>24 DEF WriteFails, Fail
<1>25. CASE UNCHANGED vars
  BY <1>25 DEF vars
<1> HIDE DEF CInv, BasicTypes, SentIsTaken, StagesAgree, fileVars, loopVars, uploadVars
<1> QED
  BY <1>1, <1>2, <1>3, <1>4, <1>5, <1>6, <1>7, <1>8, <1>9, <1>10, <1>11, <1>12,
       <1>13, <1>14, <1>15, <1>16, <1>17, <1>18, <1>19, <1>20, <1>21, <1>22, <1>23, <1>24, <1>25
       DEF Next, LoopStep, FlushStep, HandlerStep

\* A flush and its handler go on together.
LEMMA StagesStep == CInv /\ [Next]_vars => StagesAgree'
<1> SUFFICES ASSUME CInv, [Next]_vars PROVE StagesAgree'
  OBVIOUS
<1> USE DEF CInv, BasicTypes, StagesAgree, SentIsTaken, Idle, fileVars, loopVars,
     uploadVars
<1>1. ASSUME NEW f \in Files, Save(f) PROVE StagesAgree'
  BY <1>1 DEF Save, Notice
<1>2. ASSUME NEW f \in Files, Remove(f) PROVE StagesAgree'
  BY <1>2 DEF Remove, Notice
<1>3. ASSUME MakeDir PROVE StagesAgree'
  BY <1>3 DEF MakeDir
<1>4. ASSUME ReceiveDir PROVE StagesAgree'
  BY <1>4 DEF ReceiveDir
<1>5. ASSUME NEW f \in Files, ReceiveFile(f) PROVE StagesAgree'
  BY <1>5 DEF ReceiveFile
<1>6. ASSUME ReadDebounce PROVE StagesAgree'
  BY <1>6 DEF ReadDebounce
<1>7. ASSUME ResetTimer PROVE StagesAgree'
  BY <1>7 DEF ResetTimer
<1>8. ASSUME NewTimer PROVE StagesAgree'
  BY <1>8 DEF NewTimer
<1>9. ASSUME AssignDebounce PROVE StagesAgree'
  BY <1>9 DEF AssignDebounce
<1>10. ASSUME EventsOverflow PROVE StagesAgree'
  BY <1>10 DEF EventsOverflow
<1>11. ASSUME Stop PROVE StagesAgree'
  BY <1>11 DEF Stop, Die
<1>12. ASSUME ResetPanics PROVE StagesAgree'
  BY <1>12 DEF ResetPanics, Die
<1>13. ASSUME Start PROVE StagesAgree'
  BY <1>13 DEF Start
<1>14. ASSUME NEW t \in Timers, NEW u \in Flushes, TimerFires(t, u) PROVE StagesAgree'
  BY <1>14 DEF TimerFires
<1>15. ASSUME NEW u \in Flushes, TakePending(u) PROVE StagesAgree'
  BY <1>15 DEF TakePending
<1>16. ASSUME NEW u \in Flushes, NEW f \in Files, StreamFile(u, f) PROVE StagesAgree'
  BY <1>16 DEF StreamFile, SkipFile, SendFile
<1>17. ASSUME NEW u \in Flushes, RequestComplete(u) PROVE StagesAgree'
  BY <1>17 DEF RequestComplete
<1>18. ASSUME NEW u \in Flushes, Report(u) PROVE StagesAgree'
  BY <1>18 DEF Report
<1>19. ASSUME NEW u \in Flushes, OpenTarget(u) PROVE StagesAgree'
  BY <1>19 DEF OpenTarget
<1>20. ASSUME NEW u \in Flushes, CopyTarget(u) PROVE StagesAgree'
  BY <1>20 DEF CopyTarget
<1>21. ASSUME NEW u \in Flushes, Answer(u) PROVE StagesAgree'
  BY <1>21 DEF Answer
<1>22. ASSUME NEW u \in Flushes, Reject(u) PROVE StagesAgree'
  BY <1>22 DEF Reject, Fail
<1>23. ASSUME NEW u \in Flushes, TimeOut(u) PROVE StagesAgree'
  BY <1>23 DEF TimeOut, Fail
<1>24. ASSUME NEW u \in Flushes, WriteFails(u) PROVE StagesAgree'
  BY <1>24 DEF WriteFails, Fail
<1>25. CASE UNCHANGED vars
  BY <1>25 DEF vars
<1> HIDE DEF CInv, BasicTypes, StagesAgree, SentIsTaken, Idle, fileVars, loopVars,
     uploadVars
<1> QED
  BY <1>1, <1>2, <1>3, <1>4, <1>5, <1>6, <1>7, <1>8, <1>9, <1>10, <1>11, <1>12,
       <1>13, <1>14, <1>15, <1>16, <1>17, <1>18, <1>19, <1>20, <1>21, <1>22, <1>23, <1>24, <1>25
       DEF Next, LoopStep, FlushStep, HandlerStep

\* What is pending is not left without a timer or a flush.
LEMMA PendingStep == CInv /\ [Next]_vars => PendingIsScheduled'
<1> SUFFICES ASSUME CInv, [Next]_vars PROVE PendingIsScheduled'
  OBVIOUS
<1> USE DEF CInv, BasicTypes, PendingIsScheduled, StagesAgree, fileVars, loopVars,
     uploadVars
<1>1. ASSUME NEW f \in Files, Save(f) PROVE PendingIsScheduled'
  BY <1>1 DEF Save, Notice
<1>2. ASSUME NEW f \in Files, Remove(f) PROVE PendingIsScheduled'
  BY <1>2 DEF Remove, Notice
<1>3. ASSUME MakeDir PROVE PendingIsScheduled'
  BY <1>3 DEF MakeDir
<1>4. ASSUME ReceiveDir PROVE PendingIsScheduled'
  BY <1>4 DEF ReceiveDir
<1>5. ASSUME NEW f \in Files, ReceiveFile(f) PROVE PendingIsScheduled'
  BY <1>5 DEF ReceiveFile
<1>6. ASSUME ReadDebounce PROVE PendingIsScheduled'
  BY <1>6 DEF ReadDebounce
<1>7. ASSUME ResetTimer PROVE PendingIsScheduled'
  BY <1>7 DEF ResetTimer
<1>8. ASSUME NewTimer PROVE PendingIsScheduled'
  BY <1>8 DEF NewTimer
<1>9. ASSUME AssignDebounce PROVE PendingIsScheduled'
  BY <1>9 DEF AssignDebounce
<1>10. ASSUME EventsOverflow PROVE PendingIsScheduled'
  BY <1>10 DEF EventsOverflow
<1>11. ASSUME Stop PROVE PendingIsScheduled'
  BY <1>11 DEF Stop, Die
<1>12. ASSUME ResetPanics PROVE PendingIsScheduled'
  BY <1>12 DEF ResetPanics, Die
<1>13. ASSUME Start PROVE PendingIsScheduled'
  BY <1>13 DEF Start
<1>14. ASSUME NEW t \in Timers, NEW u \in Flushes, TimerFires(t, u) PROVE PendingIsScheduled'
  BY <1>14 DEF TimerFires
<1>15. ASSUME NEW u \in Flushes, TakePending(u) PROVE PendingIsScheduled'
  BY <1>15 DEF TakePending
<1>16. ASSUME NEW u \in Flushes, NEW f \in Files, StreamFile(u, f) PROVE PendingIsScheduled'
  BY <1>16 DEF StreamFile, SkipFile, SendFile
<1>17. ASSUME NEW u \in Flushes, RequestComplete(u) PROVE PendingIsScheduled'
  BY <1>17 DEF RequestComplete
<1>18. ASSUME NEW u \in Flushes, Report(u) PROVE PendingIsScheduled'
  BY <1>18 DEF Report
<1>19. ASSUME NEW u \in Flushes, OpenTarget(u) PROVE PendingIsScheduled'
  BY <1>19 DEF OpenTarget
<1>20. ASSUME NEW u \in Flushes, CopyTarget(u) PROVE PendingIsScheduled'
  BY <1>20 DEF CopyTarget
<1>21. ASSUME NEW u \in Flushes, Answer(u) PROVE PendingIsScheduled'
  BY <1>21 DEF Answer
<1>22. ASSUME NEW u \in Flushes, Reject(u) PROVE PendingIsScheduled'
  BY <1>22 DEF Reject, Fail
<1>23. ASSUME NEW u \in Flushes, TimeOut(u) PROVE PendingIsScheduled'
  BY <1>23 DEF TimeOut, Fail
<1>24. ASSUME NEW u \in Flushes, WriteFails(u) PROVE PendingIsScheduled'
  BY <1>24 DEF WriteFails, Fail
<1>25. CASE UNCHANGED vars
  BY <1>25 DEF vars
<1> HIDE DEF CInv, BasicTypes, PendingIsScheduled, StagesAgree, fileVars, loopVars,
     uploadVars
<1> QED
  BY <1>1, <1>2, <1>3, <1>4, <1>5, <1>6, <1>7, <1>8, <1>9, <1>10, <1>11, <1>12,
       <1>13, <1>14, <1>15, <1>16, <1>17, <1>18, <1>19, <1>20, <1>21, <1>22, <1>23, <1>24, <1>25
       DEF Next, LoopStep, FlushStep, HandlerStep

\* A file is sent once in a request.
LEMMA OnceStep == IInv /\ [Next]_vars => FilesAreSentOnce'
<1> SUFFICES ASSUME IInv, [Next]_vars PROVE FilesAreSentOnce'
  OBVIOUS
<1> USE DEF IInv, CInv, BasicTypes, FilesAreSentOnce, fileVars, loopVars, uploadVars
<1>1. ASSUME NEW f \in Files, Save(f) PROVE FilesAreSentOnce'
  BY <1>1 DEF Save, Notice
<1>2. ASSUME NEW f \in Files, Remove(f) PROVE FilesAreSentOnce'
  BY <1>2 DEF Remove, Notice
<1>3. ASSUME MakeDir PROVE FilesAreSentOnce'
  BY <1>3 DEF MakeDir
<1>4. ASSUME ReceiveDir PROVE FilesAreSentOnce'
  BY <1>4 DEF ReceiveDir
<1>5. ASSUME NEW f \in Files, ReceiveFile(f) PROVE FilesAreSentOnce'
  BY <1>5 DEF ReceiveFile
<1>6. ASSUME ReadDebounce PROVE FilesAreSentOnce'
  BY <1>6 DEF ReadDebounce
<1>7. ASSUME ResetTimer PROVE FilesAreSentOnce'
  BY <1>7 DEF ResetTimer
<1>8. ASSUME NewTimer PROVE FilesAreSentOnce'
  BY <1>8 DEF NewTimer
<1>9. ASSUME AssignDebounce PROVE FilesAreSentOnce'
  BY <1>9 DEF AssignDebounce
<1>10. ASSUME EventsOverflow PROVE FilesAreSentOnce'
  BY <1>10 DEF EventsOverflow
<1>11. ASSUME Stop PROVE FilesAreSentOnce'
  BY <1>11 DEF Stop, Die
<1>12. ASSUME ResetPanics PROVE FilesAreSentOnce'
  BY <1>12 DEF ResetPanics, Die
<1>13. ASSUME Start PROVE FilesAreSentOnce'
  BY <1>13 DEF Start
<1>14. ASSUME NEW t \in Timers, NEW u \in Flushes, TimerFires(t, u) PROVE FilesAreSentOnce'
  BY <1>14 DEF TimerFires
<1>15. ASSUME NEW u \in Flushes, TakePending(u) PROVE FilesAreSentOnce'
  BY <1>15 DEF TakePending
<1>16. ASSUME NEW u \in Flushes, NEW f \in Files, StreamFile(u, f) PROVE FilesAreSentOnce'
  <2>1. \A o \in Flushes : o # u => body'[o] = body[o]
    BY <1>16, StreamFileEffect
  <2>2. \A i \in 1 .. Len(body[u]) : body[u][i].file # f
    BY <1>16, StreamedIsNew
  <2>3. \/ body'[u] = body[u]
        \/ /\ Len(body'[u]) = Len(body[u]) + 1
           /\ \A i \in 1 .. Len(body[u]) : body'[u][i] = body[u][i]
           /\ body'[u][Len(body[u]) + 1] = [file |-> f, version |-> local[f]]
    BY <1>16, StreamFileEffect
  <2>4. /\ Len(body[u]) \in Nat
        /\ \A i, j \in 1 .. Len(body[u]) : body[u][i].file = body[u][j].file => i = j
    OBVIOUS
  <2> HIDE DEF IInv, CInv, BasicTypes, FilesAreSentOnce
  <2>5. \A i, j \in 1 .. Len(body'[u]) : body'[u][i].file = body'[u][j].file => i = j
    <3>1. CASE body'[u] = body[u]
      BY <2>4, <3>1
    <3>2. CASE body'[u] # body[u]
      <4>1. \A i \in 1 .. Len(body[u]) : body'[u][i].file = body[u][i].file
        BY <2>3, <3>2
      <4>2. body'[u][Len(body[u]) + 1].file = f /\ Len(body'[u]) = Len(body[u]) + 1
        BY <2>3, <3>2
      <4>3. \A i \in 1 .. Len(body'[u]) : i \in 1 .. Len(body[u]) \/ i = Len(body[u]) + 1
        BY <2>4, <4>2
      <4> QED
        BY <2>2, <2>4, <4>1, <4>2, <4>3
    <3> QED
      BY <3>1, <3>2
  <2> QED
    BY <2>1, <2>5 DEF FilesAreSentOnce, IInv
<1>17. ASSUME NEW u \in Flushes, RequestComplete(u) PROVE FilesAreSentOnce'
  BY <1>17 DEF RequestComplete
<1>18. ASSUME NEW u \in Flushes, Report(u) PROVE FilesAreSentOnce'
  BY <1>18 DEF Report
<1>19. ASSUME NEW u \in Flushes, OpenTarget(u) PROVE FilesAreSentOnce'
  BY <1>19 DEF OpenTarget
<1>20. ASSUME NEW u \in Flushes, CopyTarget(u) PROVE FilesAreSentOnce'
  BY <1>20 DEF CopyTarget
<1>21. ASSUME NEW u \in Flushes, Answer(u) PROVE FilesAreSentOnce'
  BY <1>21 DEF Answer
<1>22. ASSUME NEW u \in Flushes, Reject(u) PROVE FilesAreSentOnce'
  BY <1>22 DEF Reject, Fail
<1>23. ASSUME NEW u \in Flushes, TimeOut(u) PROVE FilesAreSentOnce'
  BY <1>23 DEF TimeOut, Fail
<1>24. ASSUME NEW u \in Flushes, WriteFails(u) PROVE FilesAreSentOnce'
  BY <1>24 DEF WriteFails, Fail
<1>25. CASE UNCHANGED vars
  BY <1>25 DEF vars
<1> HIDE DEF IInv, CInv, BasicTypes, FilesAreSentOnce, fileVars, loopVars, uploadVars
<1> QED
  BY <1>1, <1>2, <1>3, <1>4, <1>5, <1>6, <1>7, <1>8, <1>9, <1>10, <1>11, <1>12,
       <1>13, <1>14, <1>15, <1>16, <1>17, <1>18, <1>19, <1>20, <1>21, <1>22, <1>23, <1>24, <1>25
       DEF Next, LoopStep, FlushStep, HandlerStep

\* What two uploads have at once is contended.
LEMMA SharedStep == IInv /\ [Next]_vars => SharedIsContended'
<1> SUFFICES ASSUME IInv, [Next]_vars PROVE SharedIsContended'
  OBVIOUS
<1> USE DEF IInv, CInv, BasicTypes, SharedIsContended, InFlight, Idle, StagesAgree,
     fileVars, loopVars, uploadVars
<1>1. ASSUME NEW f \in Files, Save(f) PROVE SharedIsContended'
  BY <1>1 DEF Save, Notice
<1>2. ASSUME NEW f \in Files, Remove(f) PROVE SharedIsContended'
  BY <1>2 DEF Remove, Notice
<1>3. ASSUME MakeDir PROVE SharedIsContended'
  BY <1>3 DEF MakeDir
<1>4. ASSUME ReceiveDir PROVE SharedIsContended'
  BY <1>4 DEF ReceiveDir
<1>5. ASSUME NEW f \in Files, ReceiveFile(f) PROVE SharedIsContended'
  BY <1>5 DEF ReceiveFile
<1>6. ASSUME ReadDebounce PROVE SharedIsContended'
  BY <1>6 DEF ReadDebounce
<1>7. ASSUME ResetTimer PROVE SharedIsContended'
  BY <1>7 DEF ResetTimer
<1>8. ASSUME NewTimer PROVE SharedIsContended'
  BY <1>8 DEF NewTimer
<1>9. ASSUME AssignDebounce PROVE SharedIsContended'
  BY <1>9 DEF AssignDebounce
<1>10. ASSUME EventsOverflow PROVE SharedIsContended'
  BY <1>10 DEF EventsOverflow
<1>11. ASSUME Stop PROVE SharedIsContended'
  BY <1>11 DEF Stop, Die
<1>12. ASSUME ResetPanics PROVE SharedIsContended'
  BY <1>12 DEF ResetPanics, Die
<1>13. ASSUME Start PROVE SharedIsContended'
  BY <1>13 DEF Start
<1>14. ASSUME NEW t \in Timers, NEW u \in Flushes, TimerFires(t, u) PROVE SharedIsContended'
  BY <1>14 DEF TimerFires
<1>15. ASSUME NEW u \in Flushes, TakePending(u) PROVE SharedIsContended'
  <2>1. \A o \in Flushes : o # u =>
           \A f \in pending : f \in InFlight(o) => f \in contended'
    BY <1>15, TakePendingEffect
  <2>2. \A f \in contended : f \in contended' \/ f \in pending
    BY <1>15, TakePendingEffect
  <2>3. InFlight(u)' \subseteq pending /\ \A o \in Flushes : o # u => InFlight(o)' = InFlight(o)
    BY <1>15, TakePendingEffect DEF InFlight, Idle, TakePending
  <2> QED
    BY <2>1, <2>2, <2>3, ZenonT(40)
<1>16. ASSUME NEW u \in Flushes, NEW f \in Files, StreamFile(u, f) PROVE SharedIsContended'
  <2>1. \A o \in Flushes : Carried(o)' \subseteq Carried(o)
    BY <1>16, StreamFileEffect
  <2>2. flush' = flush /\ handler' = handler /\ contended' = contended
    BY <1>16 DEF StreamFile, SkipFile, SendFile
  <2>3. \A o \in Flushes : InFlight(o)' \subseteq InFlight(o)
    BY <2>1, <2>2
  <2> HIDE DEF InFlight, BasicTypes
  <2> QED
    BY <2>2, <2>3
<1>17. ASSUME NEW u \in Flushes, RequestComplete(u) PROVE SharedIsContended'
  BY <1>17 DEF RequestComplete
<1>18. ASSUME NEW u \in Flushes, Report(u) PROVE SharedIsContended'
  BY <1>18 DEF Report
<1>19. ASSUME NEW u \in Flushes, OpenTarget(u) PROVE SharedIsContended'
  BY <1>19 DEF OpenTarget
<1>20. ASSUME NEW u \in Flushes, CopyTarget(u) PROVE SharedIsContended'
  BY <1>20 DEF CopyTarget
<1>21. ASSUME NEW u \in Flushes, Answer(u) PROVE SharedIsContended'
  BY <1>21 DEF Answer
<1>22. ASSUME NEW u \in Flushes, Reject(u) PROVE SharedIsContended'
  BY <1>22 DEF Reject, Fail
<1>23. ASSUME NEW u \in Flushes, TimeOut(u) PROVE SharedIsContended'
  BY <1>23 DEF TimeOut, Fail
<1>24. ASSUME NEW u \in Flushes, WriteFails(u) PROVE SharedIsContended'
  BY <1>24 DEF WriteFails, Fail
<1>25. CASE UNCHANGED vars
  BY <1>25 DEF vars
<1> HIDE DEF IInv, CInv, BasicTypes, SharedIsContended, InFlight, Idle, StagesAgree,
     fileVars, loopVars, uploadVars
<1> QED
  BY <1>1, <1>2, <1>3, <1>4, <1>5, <1>6, <1>7, <1>8, <1>9, <1>10, <1>11, <1>12,
       <1>13, <1>14, <1>15, <1>16, <1>17, <1>18, <1>19, <1>20, <1>21, <1>22, <1>23, <1>24, <1>25
       DEF Next, LoopStep, FlushStep, HandlerStep

\* What the client gives up on is lost, whatever the handler still does.
LEMMA GivenUpStep == IInv /\ [Next]_vars => GivenUpIsLost'
<1> SUFFICES ASSUME IInv, [Next]_vars PROVE GivenUpIsLost'
  OBVIOUS
<1> USE ContentionStays DEF IInv, CInv, BasicTypes, GivenUpIsLost, Idle, StagesAgree,
     fileVars, loopVars, uploadVars
<1>1. ASSUME NEW f \in Files, Save(f) PROVE GivenUpIsLost'
  BY <1>1 DEF Save, Notice
<1>2. ASSUME NEW f \in Files, Remove(f) PROVE GivenUpIsLost'
  BY <1>2 DEF Remove, Notice
<1>3. ASSUME MakeDir PROVE GivenUpIsLost'
  BY <1>3 DEF MakeDir
<1>4. ASSUME ReceiveDir PROVE GivenUpIsLost'
  BY <1>4 DEF ReceiveDir
<1>5. ASSUME NEW f \in Files, ReceiveFile(f) PROVE GivenUpIsLost'
  BY <1>5 DEF ReceiveFile
<1>6. ASSUME ReadDebounce PROVE GivenUpIsLost'
  BY <1>6 DEF ReadDebounce
<1>7. ASSUME ResetTimer PROVE GivenUpIsLost'
  BY <1>7 DEF ResetTimer
<1>8. ASSUME NewTimer PROVE GivenUpIsLost'
  BY <1>8 DEF NewTimer
<1>9. ASSUME AssignDebounce PROVE GivenUpIsLost'
  BY <1>9 DEF AssignDebounce
<1>10. ASSUME EventsOverflow PROVE GivenUpIsLost'
  BY <1>10 DEF EventsOverflow
<1>11. ASSUME Stop PROVE GivenUpIsLost'
  BY <1>11 DEF Stop, Die
<1>12. ASSUME ResetPanics PROVE GivenUpIsLost'
  BY <1>12 DEF ResetPanics, Die
<1>13. ASSUME Start PROVE GivenUpIsLost'
  BY <1>13 DEF Start
<1>14. ASSUME NEW t \in Timers, NEW u \in Flushes, TimerFires(t, u) PROVE GivenUpIsLost'
  BY <1>14 DEF TimerFires
<1>15. ASSUME NEW u \in Flushes, TakePending(u) PROVE GivenUpIsLost'
  <2>1. /\ handler' = handler /\ handler[u] = "none" /\ paths'[u] = pending
        /\ \A o \in Flushes : o # u => flush'[o] = flush[o] /\ Carried(o)' = Carried(o)
    BY <1>15, TakePendingEffect DEF TakePending
  <2> QED
    BY <1>15, <2>1
<1>16. ASSUME NEW u \in Flushes, NEW f \in Files, StreamFile(u, f) PROVE GivenUpIsLost'
  BY <1>16, StreamFileEffect DEF StreamFile, SkipFile, SendFile
<1>17. ASSUME NEW u \in Flushes, RequestComplete(u) PROVE GivenUpIsLost'
  BY <1>17 DEF RequestComplete
<1>18. ASSUME NEW u \in Flushes, Report(u) PROVE GivenUpIsLost'
  BY <1>18 DEF Report
<1>19. ASSUME NEW u \in Flushes, OpenTarget(u) PROVE GivenUpIsLost'
  BY <1>19 DEF OpenTarget
<1>20. ASSUME NEW u \in Flushes, CopyTarget(u) PROVE GivenUpIsLost'
  BY <1>20 DEF CopyTarget
<1>21. ASSUME NEW u \in Flushes, Answer(u) PROVE GivenUpIsLost'
  BY <1>21 DEF Answer
<1>22. ASSUME NEW u \in Flushes, Reject(u) PROVE GivenUpIsLost'
  BY <1>22 DEF Reject, Fail
<1>23. ASSUME NEW u \in Flushes, TimeOut(u) PROVE GivenUpIsLost'
  BY <1>23 DEF TimeOut, Fail
<1>24. ASSUME NEW u \in Flushes, WriteFails(u) PROVE GivenUpIsLost'
  BY <1>24 DEF WriteFails, Fail
<1>25. CASE UNCHANGED vars
  BY <1>25 DEF vars
<1> HIDE DEF IInv, CInv, BasicTypes, GivenUpIsLost, Idle, StagesAgree, fileVars,
     loopVars, uploadVars
<1> QED
  BY <1>1, <1>2, <1>3, <1>4, <1>5, <1>6, <1>7, <1>8, <1>9, <1>10, <1>11, <1>12,
       <1>13, <1>14, <1>15, <1>16, <1>17, <1>18, <1>19, <1>20, <1>21, <1>22, <1>23, <1>24, <1>25
       DEF Next, LoopStep, FlushStep, HandlerStep

\* What was read before a change is noticed to be old.
LEMMA OldStep == IInv /\ [Next]_vars => OldIsNoticed'
<1> SUFFICES ASSUME IInv, [Next]_vars PROVE OldIsNoticed'
  OBVIOUS
<1> USE ContentionStays DEF IInv, CInv, BasicTypes, OldIsNoticed, Idle, StagesAgree,
     SentIsTaken, fileVars, loopVars, uploadVars
<1>1. ASSUME NEW f \in Files, Save(f) PROVE OldIsNoticed'
  BY <1>1 DEF Save, Notice
<1>2. ASSUME NEW f \in Files, Remove(f) PROVE OldIsNoticed'
  BY <1>2 DEF Remove, Notice
<1>3. ASSUME MakeDir PROVE OldIsNoticed'
  BY <1>3 DEF MakeDir
<1>4. ASSUME ReceiveDir PROVE OldIsNoticed'
  BY <1>4 DEF ReceiveDir
<1>5. ASSUME NEW f \in Files, ReceiveFile(f) PROVE OldIsNoticed'
  BY <1>5 DEF ReceiveFile
<1>6. ASSUME ReadDebounce PROVE OldIsNoticed'
  BY <1>6 DEF ReadDebounce
<1>7. ASSUME ResetTimer PROVE OldIsNoticed'
  BY <1>7 DEF ResetTimer
<1>8. ASSUME NewTimer PROVE OldIsNoticed'
  BY <1>8 DEF NewTimer
<1>9. ASSUME AssignDebounce PROVE OldIsNoticed'
  BY <1>9 DEF AssignDebounce
<1>10. ASSUME EventsOverflow PROVE OldIsNoticed'
  BY <1>10 DEF EventsOverflow
<1>11. ASSUME Stop PROVE OldIsNoticed'
  BY <1>11 DEF Stop, Die
<1>12. ASSUME ResetPanics PROVE OldIsNoticed'
  BY <1>12 DEF ResetPanics, Die
<1>13. ASSUME Start PROVE OldIsNoticed'
  BY <1>13 DEF Start
<1>14. ASSUME NEW t \in Timers, NEW u \in Flushes, TimerFires(t, u) PROVE OldIsNoticed'
  BY <1>14 DEF TimerFires
<1>15. ASSUME NEW u \in Flushes, TakePending(u) PROVE OldIsNoticed'
  <2>1. body' = body /\ local' = local /\ events' = events /\ body[u] = <<>>
    BY <1>15 DEF TakePending
  <2>2. \A o \in Flushes : o # u =>
           Idle(o)' = Idle(o) /\ paths'[o] = paths[o] /\ skipped'[o] = skipped[o]
    BY <1>15, TakePendingEffect DEF TakePending
  <2>3. ASSUME NEW o \in Flushes, o # u, ~Idle(o), NEW i \in 1 .. Len(body[o])
        PROVE  \/ body[o][i].version = local[body[o][i].file]
               \/ body[o][i].file \in lost' \cup contended' \cup events
    <3>1. body[o][i].file \in InFlight(o)
      BY <2>3 DEF InFlight
    <3>2. body[o][i].file \in pending => body[o][i].file \in contended'
      BY <1>15, <2>3, <3>1, TakePendingEffect
    <3> QED
      BY <1>15, <2>3, <3>2, TakePendingEffect
  <2>4. \A i \in 1 .. Len(body'[u]) : FALSE
    BY <2>1
  <2> HIDE DEF BasicTypes, Idle
  <2> QED
    BY <2>1, <2>2, <2>3, <2>4
<1>16. ASSUME NEW u \in Flushes, NEW f \in Files, StreamFile(u, f) PROVE OldIsNoticed'
  <2>1. /\ \A o \in Flushes : o # u => body'[o] = body[o]
        /\ UNCHANGED <<local, events, pending, lost, contended, flush, handler>> /\ ~Idle(u)
    BY <1>16, StreamFileEffect DEF StreamFile, SkipFile, SendFile
  <2>2. \/ body'[u] = body[u]
        \/ /\ Len(body'[u]) = Len(body[u]) + 1
           /\ \A i \in 1 .. Len(body[u]) : body'[u][i] = body[u][i]
           /\ body'[u][Len(body[u]) + 1] = [file |-> f, version |-> local[f]]
    BY <1>16, StreamFileEffect
  <2>3. /\ Len(body[u]) \in Nat
        /\ \A i \in 1 .. Len(body[u]) :
              \/ body[u][i].version = local[body[u][i].file]
              \/ body[u][i].file \in lost \cup contended \cup events \cup pending
    BY <2>1
  <2> HIDE DEF BasicTypes
  <2>4. \A i \in 1 .. Len(body'[u]) :
              \/ body'[u][i].version = local[body'[u][i].file]
              \/ body'[u][i].file \in lost \cup contended \cup events \cup pending
    BY <2>2, <2>3
  <2> QED
    BY <2>1, <2>4
<1>17. ASSUME NEW u \in Flushes, RequestComplete(u) PROVE OldIsNoticed'
  BY <1>17 DEF RequestComplete
<1>18. ASSUME NEW u \in Flushes, Report(u) PROVE OldIsNoticed'
  BY <1>18 DEF Report
<1>19. ASSUME NEW u \in Flushes, OpenTarget(u) PROVE OldIsNoticed'
  BY <1>19 DEF OpenTarget
<1>20. ASSUME NEW u \in Flushes, CopyTarget(u) PROVE OldIsNoticed'
  BY <1>20 DEF CopyTarget
<1>21. ASSUME NEW u \in Flushes, Answer(u) PROVE OldIsNoticed'
  BY <1>21 DEF Answer
<1>22. ASSUME NEW u \in Flushes, Reject(u) PROVE OldIsNoticed'
  BY <1>22 DEF Reject, Fail
<1>23. ASSUME NEW u \in Flushes, TimeOut(u) PROVE OldIsNoticed'
  BY <1>23 DEF TimeOut, Fail
<1>24. ASSUME NEW u \in Flushes, WriteFails(u) PROVE OldIsNoticed'
  BY <1>24 DEF WriteFails, Fail
<1>25. CASE UNCHANGED vars
  BY <1>25 DEF vars
<1> HIDE DEF IInv, CInv, BasicTypes, OldIsNoticed, Idle, StagesAgree, SentIsTaken,
     fileVars, loopVars, uploadVars
<1> QED
  BY <1>1, <1>2, <1>3, <1>4, <1>5, <1>6, <1>7, <1>8, <1>9, <1>10, <1>11, <1>12,
       <1>13, <1>14, <1>15, <1>16, <1>17, <1>18, <1>19, <1>20, <1>21, <1>22, <1>23, <1>24, <1>25
       DEF Next, LoopStep, FlushStep, HandlerStep

\* While a handler has a request, its contents and paths stay.
LEMMA RequestStays ==
    ASSUME IInv, [Next]_vars, NEW u \in Flushes, handler[u] # "none"
    PROVE  /\ body'[u] = body[u] /\ paths'[u] = paths[u] /\ skipped'[u] = skipped[u]
           /\ handler'[u] # handler[u] =>
                 OpenTarget(u) \/ CopyTarget(u) \/ handler'[u] = "none"
           /\ written'[u] # written[u] => CopyTarget(u)
<1> USE DEF IInv, CInv, BasicTypes, StagesAgree, Idle, fileVars, loopVars, uploadVars
<1>1. ASSUME NEW o \in Flushes, NEW f \in Files, StreamFile(o, f)
      PROVE  /\ body'[u] = body[u] /\ paths'[u] = paths[u] /\ skipped'[u] = skipped[u]
             /\ UNCHANGED <<handler, written>>
  <2>1. o # u
    BY <1>1 DEF StreamFile, SkipFile, SendFile
  <2> QED
    BY <1>1, <2>1, StreamFileEffect DEF StreamFile, SkipFile, SendFile
<1>2. CASE ~\E o \in Flushes, f \in Files : StreamFile(o, f)
  BY <1>2, SMTT(40) DEF Next, vars, LoopStep, FlushStep, HandlerStep, Save, Remove, Notice,
       MakeDir, ReceiveDir, ReceiveFile, ReadDebounce, ResetTimer, ResetPanics, NewTimer,
       AssignDebounce, EventsOverflow, Stop, Die, Start, TimerFires, TakePending,
       RequestComplete, Report, OpenTarget, CopyTarget, Answer, Reject, TimeOut, WriteFails,
       Fail
<1> HIDE DEF IInv, CInv, BasicTypes, StagesAgree, Idle, fileVars, loopVars, uploadVars
<1> QED
  BY <1>1, <1>2

\* A file a handler has, and no other upload, is only changed by that handler.
LEMMA OwnFilesStay ==
    ASSUME IInv, [Next]_vars, NEW u \in Flushes, handler[u] # "none",
           NEW f \in Carried(u) \ contended
    PROVE  \/ server'[StoredAs[f]] = server[StoredAs[f]]
           \/ (OpenTarget(u) \/ CopyTarget(u)) /\ Target(u).file = f
<1>1. f \in Files /\ StoredAs[f] \in SessionPaths /\ ~Idle(u)
  BY DEF IInv, CInv, BasicTypes, SessionPaths, Idle
<1>2. ASSUME NEW o \in Flushes, OpenTarget(o) \/ CopyTarget(o), o # u \/ Target(u).file # f
      PROVE  server'[StoredAs[f]] = server[StoredAs[f]]
  <2>1. handler[o] # "none" /\ written[o] < Len(body[o])
    BY <1>2, OpenTargetEffect, CopyTargetEffect
  <2>2. StoredAs[Target(o).file] # StoredAs[f]
    <3>1. CASE o # u
      BY <1>1, <2>1, <3>1, WritersAreApart
    <3>2. CASE o = u
      <4>1. Target(u).file \in Files /\ Target(u).file # f
        BY <1>2, <2>1, <3>2, TargetIsPart DEF IInv, CInv
      <4> QED
        BY <1>1, <3>2, <4>1 DEF IInv, CInv, OwnBaseNames
    <3> QED
      BY <3>1, <3>2
  <2> QED
    BY <1>1, <1>2, <2>2, OpenTargetEffect, CopyTargetEffect
<1>3. server' = server \/ \E o \in Flushes : OpenTarget(o) \/ CopyTarget(o)
  BY DEF Next, vars, LoopStep, FlushStep, HandlerStep, Save, Remove, MakeDir, ReceiveDir,
       ReceiveFile, ReadDebounce, ResetTimer, ResetPanics, NewTimer, AssignDebounce,
       EventsOverflow, Stop, Die, Start, TimerFires, TakePending, StreamFile, SkipFile,
       SendFile, RequestComplete, Report, Answer, Reject, TimeOut, WriteFails
<1> QED
  BY <1>2, <1>3

\* A file that was opened is empty until its own handler fills it.
LEMMA CopyingStep == IInv /\ [Next]_vars => CopyingIsEmpty'
<1> SUFFICES ASSUME IInv, [Next]_vars, NEW u \in Flushes,
                    handler'[u] = "copying", Target(u)'.file \notin contended'
             PROVE  server'[StoredAs[Target(u)'.file]] = {}
  BY DEF CopyingIsEmpty
<1>1. CASE OpenTarget(u)
  BY <1>1, OpenTargetEffect DEF OpenTarget, Target, uploadVars
<1>2. CASE ~OpenTarget(u)
  <2>1. handler[u] # "none"
    BY <1>2, StagesStep, ZenonT(40) DEF IInv, CInv, BasicTypes, StagesAgree, Next, vars,
         LoopStep, FlushStep, HandlerStep, Save, Remove, MakeDir, ReceiveDir, ReceiveFile,
         ReadDebounce, ResetTimer, ResetPanics, NewTimer, AssignDebounce, EventsOverflow,
         Stop, Die, Start, TimerFires, TakePending, StreamFile, SkipFile, SendFile,
         RequestComplete, Report, OpenTarget, CopyTarget, Answer, Reject, TimeOut,
         WriteFails, uploadVars
  <2>2. ~CopyTarget(u)
    BY CopyTargetEffect
  <2>3. handler[u] = "copying" /\ written'[u] = written[u] /\ body'[u] = body[u]
    BY <1>2, <2>1, <2>2, RequestStays
  <2>4. Target(u)' = Target(u) /\ written[u] < Len(body[u])
    BY <2>3 DEF Target, IInv, CInv, StagesAgree
  <2>5. Target(u).file \in Carried(u) /\ ~Idle(u)
    BY <2>1, <2>4, TargetIsPart DEF IInv, CInv, SentIsTaken, Idle
  <2>6. Target(u).file \in Carried(u) \ contended
    BY <2>4, <2>5, ContentionStays
  <2>7. server[StoredAs[Target(u).file]] = {}
    BY <2>3, <2>6 DEF IInv, CInv, CopyingIsEmpty
  <2> QED
    BY <1>2, <2>1, <2>2, <2>4, <2>6, <2>7, OwnFilesStay
<1> QED
  BY <1>1, <1>2

\* What a handler has written stays until it answers.
LEMMA WrittenStep == IInv /\ [Next]_vars => WrittenIsStored'
<1> SUFFICES ASSUME IInv, [Next]_vars, NEW u \in Flushes, handler'[u] # "none",
                    NEW i \in 1 .. written'[u], body'[u][i].file \notin contended'
             PROVE  server'[StoredAs[body'[u][i].file]] = {body'[u][i].version}
  BY DEF WrittenIsStored
<1>1. handler[u] # "none"
  <2>1. CASE RequestComplete(u)
    BY <2>1 DEF RequestComplete, IInv, CInv, StagesAgree, uploadVars
  <2>2. CASE ~RequestComplete(u)
    BY <2>2, ZenonT(40) DEF IInv, CInv, BasicTypes, Next, vars, LoopStep, FlushStep,
         HandlerStep, Save, Remove, MakeDir, ReceiveDir, ReceiveFile, ReadDebounce,
         ResetTimer, ResetPanics, NewTimer, AssignDebounce, EventsOverflow, Stop, Die,
         Start, TimerFires, TakePending, StreamFile, SkipFile, SendFile, RequestComplete,
         Report, OpenTarget, CopyTarget, Answer, Reject, TimeOut, WriteFails, uploadVars
  <2> QED
    BY <2>1, <2>2
<1>2. body'[u] = body[u] /\ (written'[u] # written[u] => CopyTarget(u)) /\ ~Idle(u)
  BY <1>1, RequestStays DEF Idle
<1>3. written[u] \in Nat /\ written[u] <= Len(body[u]) /\ Len(body[u]) \in Nat
  BY DEF IInv, CInv, BasicTypes, SentIsTaken
<1>4. CASE CopyTarget(u) /\ i = written[u] + 1
  <2>1. Target(u) = body[u][i] /\ written[u] < Len(body[u]) /\ Target(u).file \in Carried(u)
    BY <1>4, CopyTargetEffect, TargetIsPart DEF IInv, CInv, SentIsTaken
  <2>2. Target(u).file \notin contended
    BY <1>2, <2>1, ContentionStays
  <2> QED
    BY <1>2, <1>4, <2>1, <2>2, CopyTargetEffect
<1>5. CASE ~(CopyTarget(u) /\ i = written[u] + 1)
  <2>1. i \in 1 .. written[u]
    BY <1>2, <1>3, <1>5, CopyTargetEffect
  <2>2. i \in 1 .. Len(body[u])
    BY <1>3, <2>1
  <2>3. body[u][i].file \in Carried(u)
    BY <2>2 DEF IInv, CInv, SentIsTaken
  <2>4. body[u][i].file \in Carried(u) \ contended
    BY <1>2, <2>3, ContentionStays
  <2>5. server[StoredAs[body[u][i].file]] = {body[u][i].version}
    BY <1>1, <2>1, <2>4 DEF IInv, CInv, WrittenIsStored
  <2>6. ASSUME OpenTarget(u) \/ CopyTarget(u) PROVE Target(u).file # body[u][i].file
    <3>1. written[u] < Len(body[u])
      BY <2>6, OpenTargetEffect, CopyTargetEffect
    <3>2. Target(u) = body[u][written[u] + 1] /\ written[u] + 1 \in 1 .. Len(body[u])
      BY <3>1, TargetIsPart DEF IInv, CInv
    <3> QED
      BY <1>3, <2>1, <2>2, <3>2 DEF IInv, CInv, FilesAreSentOnce
  <2> QED
    BY <1>1, <1>2, <2>4, <2>5, <2>6, OwnFilesStay
<1> QED
  BY <1>4, <1>5

\* A request is complete when the client begins to wait for the answer.
LEMMA WaitingStep == IInv /\ [Next]_vars => WaitingIsComplete'
<1> SUFFICES ASSUME IInv, [Next]_vars, NEW u \in Flushes, flush'[u] = "waiting",
                    NEW f \in Carried(u)'
             PROVE  \E i \in 1 .. Len(body'[u]) : body'[u][i].file = f
  BY DEF WaitingIsComplete
<1>1. CASE RequestComplete(u)
  BY <1>1, ReadByPosition DEF RequestComplete, Handled, IInv, CInv
<1>2. CASE ~RequestComplete(u)
  <2>1. flush[u] = "waiting"
    BY <1>2, ZenonT(40) DEF IInv, CInv, BasicTypes, Next, vars, LoopStep, FlushStep,
         HandlerStep, Save, Remove, MakeDir, ReceiveDir, ReceiveFile, ReadDebounce,
         ResetTimer, ResetPanics, NewTimer, AssignDebounce, EventsOverflow, Stop, Die,
         Start, TimerFires, TakePending, StreamFile, RequestComplete, Report, OpenTarget,
         CopyTarget, Answer, Reject, TimeOut, WriteFails, Fail, uploadVars
  <2>2. body'[u] = body[u] /\ Carried(u)' = Carried(u)
    BY <2>1, RequestStays DEF IInv, CInv, StagesAgree
  <2> QED
    BY <2>1, <2>2 DEF IInv, WaitingIsComplete
<1> QED
  BY <1>1, <1>2

\* NoForgottenChange speaks of the same requests.
LEMMA KeptIsNotForgotten == BasicTypes => (ChangesAreKept <=> NoForgottenChange)
<1> SUFFICES ASSUME BasicTypes, NEW f \in Files
             PROVE  Kept(f) <=> \/ local[f] \in {0, Absent}
                                \/ server[StoredAs[f]] = {local[f]}
                                \/ OnItsWay(f)
  BY DEF ChangesAreKept, NoForgottenChange
<1>1. ASSUME NEW u \in Flushes
      PROVE  /\ (\A i \in 1 .. Len(body[u]) : body[u][i].file # f) <=> f \notin Read(u)
             /\ (\E i \in 1 .. Len(body[u]) :
                    body[u][i].file = f /\ body[u][i].version = local[f])
                <=> [file |-> f, version |-> local[f]] \in Entries(u)
  <2>1. \A i \in 1 .. Len(body[u]) : body[u][i] \in Parts
    BY DEF BasicTypes
  <2>2. \A i \in 1 .. Len(body[u]) :
           body[u][i].file = f /\ body[u][i].version = local[f]
           <=> body[u][i] = [file |-> f, version |-> local[f]]
    BY <2>1 DEF Parts
  <2> QED
    BY <2>2, ReadByPosition
<1> QED
  BY <1>1 DEF Kept, OnItsWay, Handled

\* Requests under way, the server's files and local versions stay, as does what is
\* on its way: a step that only adds to events, pending, lost or contended.
LEMMA KeptOnward ==
    ASSUME IInv, server' = server, UNCHANGED <<request>>,
           lost \cup missed \cup contended \subseteq lost' \cup missed' \cup contended',
           \A f \in Files : local'[f] = local[f] \/ f \in events' \cup lost',
           events \cup pending \subseteq events' \cup pending' \cup lost',
           \A u \in Flushes : flush[u] \in {"streaming", "waiting"} =>
               flush'[u] = flush[u] \/ paths[u] \subseteq lost'
    PROVE  ChangesAreKept'
<1> SUFFICES ASSUME NEW f \in Files, f \notin lost' \cup missed' \cup contended'
             PROVE  Kept(f)'
  BY DEF ChangesAreKept
<1>1. Kept(f)
  BY DEF IInv, CInv, ChangesAreKept
<1>2. CASE f \in events' \cup pending'
  BY <1>2 DEF Kept
<1>3. CASE f \notin events' \cup pending'
  <2>1. local'[f] = local[f] /\ f \notin events \cup pending
    BY <1>3
  <2>2. CASE local[f] \in {0, Absent} \/ server[StoredAs[f]] = {local[f]}
    BY <2>1, <2>2 DEF Kept
  <2>3. ASSUME NEW u \in Flushes, flush[u] = "streaming", f \in Carried(u),
               \A i \in 1 .. Len(body[u]) : body[u][i].file # f
        PROVE  Kept(f)'
    <3>1. flush'[u] = "streaming"
      BY <2>3
    <3> QED
      BY <2>3, <3>1 DEF Kept
  <2>4. ASSUME NEW u \in Flushes, flush[u] \in {"streaming", "waiting"},
               NEW i \in 1 .. Len(body[u]), body[u][i].file = f, body[u][i].version = local[f]
        PROVE  Kept(f)'
    <3>1. f \in Carried(u)
      BY <2>4 DEF IInv, CInv, SentIsTaken
    <3>2. flush'[u] = flush[u]
      BY <2>4, <3>1
    <3> QED
      BY <2>1, <2>4, <3>2 DEF Kept
  <2> QED
    BY <1>1, <2>1, <2>2, <2>3, <2>4 DEF Kept
<1> QED
  BY <1>2, <1>3

\* A flush takes what is pending: it is on its way in the new request.
LEMMA KeptByTakePending ==
    ASSUME IInv, NEW u \in Flushes, TakePending(u) PROVE ChangesAreKept'
<1> SUFFICES ASSUME NEW f \in Files, f \notin lost' \cup missed' \cup contended'
             PROVE  Kept(f)'
  BY DEF ChangesAreKept
<1>1. /\ flush[u] = "begun" /\ body[u] = <<>> /\ paths'[u] = pending /\ skipped'[u] = skipped[u]
      /\ UNCHANGED <<local, server, events, body>>
      /\ pending # {} => flush'[u] = "streaming"
      /\ \A o \in Flushes : o # u =>
            paths'[o] = paths[o] /\ skipped'[o] = skipped[o] /\ flush'[o] = flush[o]
      /\ skipped'[u] = {}
  BY TakePendingEffect DEF TakePending, IInv, CInv, BasicTypes, StagesAgree, fileVars
<1>2. CASE f \in pending
  <2>1. flush'[u] = "streaming" /\ f \in Carried(u)'
    BY <1>1, <1>2
  <2>2. \A i \in 1 .. Len(body'[u]) : body'[u][i].file # f
    BY <1>1
  <2> QED
    BY <2>1, <2>2 DEF Kept
<1>3. CASE f \notin pending
  <2>1. f \notin lost \cup missed \cup contended
    BY <1>3, TakePendingEffect DEF IInv, CInv
  <2>2. Kept(f)
    BY <2>1 DEF IInv, CInv, ChangesAreKept
  <2> QED
    BY <1>1, <1>3, <2>2 DEF Kept
<1> QED
  BY <1>2, <1>3

\* The version that is read is the latest, and a file that is gone needs none.
LEMMA KeptByStreamFile ==
    ASSUME IInv, NEW u \in Flushes, NEW g \in Files, StreamFile(u, g) PROVE ChangesAreKept'
<1> SUFFICES ASSUME NEW f \in Files, f \notin lost' \cup missed' \cup contended'
             PROVE  Kept(f)'
  BY DEF ChangesAreKept
<1>1. /\ UNCHANGED <<local, server, events, pending, lost, contended, flush>>
      /\ flush[u] = "streaming" /\ Len(body[u]) \in Nat
  BY DEF StreamFile, SkipFile, SendFile, fileVars, loopVars, IInv, CInv, BasicTypes
<1>2. missed \subseteq missed' /\ Kept(f)
  <2>1. missed \subseteq missed'
    BY StreamFileEffect DEF IInv, CInv
  <2> QED
    BY <1>1, <2>1 DEF IInv, CInv, ChangesAreKept
<1>3. /\ \A o \in Flushes : o # u => body'[o] = body[o] /\ skipped'[o] = skipped[o]
      /\ paths' = paths
      /\ \/ /\ local[g] = Absent \/ g \in missed'
            /\ body'[u] = body[u] /\ skipped'[u] = skipped[u] \cup {g}
         \/ /\ skipped' = skipped
            /\ Len(body'[u]) = Len(body[u]) + 1
            /\ \A i \in 1 .. Len(body[u]) : body'[u][i] = body[u][i]
            /\ body'[u][Len(body[u]) + 1] = [file |-> g, version |-> local[g]]
  BY StreamFileEffect DEF IInv, CInv
<1>4. CASE f = g
  <2>1. CASE local[g] = Absent \/ g \in missed'
    BY <1>1, <1>4, <2>1 DEF Kept
  <2>2. CASE ~(local[g] = Absent \/ g \in missed')
    <3>1. /\ Len(body[u]) + 1 \in 1 .. Len(body'[u])
          /\ body'[u][Len(body[u]) + 1].file = f
          /\ body'[u][Len(body[u]) + 1].version = local'[f]
      BY <1>1, <1>3, <1>4, <2>2
    <3> QED
      BY <1>1, <3>1 DEF Kept
  <2> QED
    BY <2>1, <2>2
<1>5. CASE f # g
  <2>1. CASE \/ local[f] \in {0, Absent} \/ server[StoredAs[f]] = {local[f]}
             \/ f \in events \cup pending
    BY <1>1, <2>1 DEF Kept
  <2>2. ASSUME NEW o \in Flushes, flush[o] = "streaming", f \in Carried(o),
               \A i \in 1 .. Len(body[o]) : body[o][i].file # f
        PROVE  Kept(f)'
    <3>1. flush'[o] = "streaming" /\ f \notin skipped'[o]
      BY <1>1, <1>3, <1>5, <2>2
    <3>2. \A i \in 1 .. Len(body'[o]) : body'[o][i].file # f
      <4>1. CASE body'[o] = body[o]
        BY <2>2, <4>1
      <4>2. CASE body'[o] # body[o]
        <5>1. /\ o = u /\ Len(body'[u]) = Len(body[u]) + 1
              /\ \A i \in 1 .. Len(body[u]) : body'[u][i] = body[u][i]
              /\ body'[u][Len(body[u]) + 1].file = g
          BY <1>3, <4>2
        <5>2. \A i \in 1 .. Len(body'[u]) : i \in 1 .. Len(body[u]) \/ i = Len(body[u]) + 1
          BY <1>1, <5>1
        <5> QED
          BY <1>5, <2>2, <5>1, <5>2
      <4> QED
        BY <4>1, <4>2
    <3> QED
      BY <1>3, <2>2, <3>1, <3>2 DEF Kept
  <2>3. ASSUME NEW o \in Flushes, flush[o] \in {"streaming", "waiting"},
               NEW i \in 1 .. Len(body[o]), body[o][i].file = f, body[o][i].version = local[f]
        PROVE  Kept(f)'
    <3>1. i \in 1 .. Len(body'[o]) /\ body'[o][i] = body[o][i]
      BY <1>1, <1>3, <2>3
    <3> QED
      BY <1>1, <2>3, <3>1 DEF Kept
  <2> QED
    BY <1>2, <2>1, <2>2, <2>3 DEF Kept
<1> QED
  BY <1>4, <1>5

\* What the handler has of a file is the latest, unless a change was noticed.
LEMMA LatestOrNoticed ==
    ASSUME IInv, NEW u \in Flushes, handler[u] # "none", NEW i \in 1 .. Len(body[u]),
           NEW f \in Files \ (lost \cup missed \cup contended), body[u][i].file = f
    PROVE  \/ f \in events \cup pending
           \/ flush[u] = "waiting" /\ body[u][i].version = local[f]
<1>1. f \in Carried(u) /\ ~Idle(u)
  BY DEF IInv, CInv, SentIsTaken, Idle
<1>2. flush[u] = "waiting"
  BY <1>1 DEF IInv, CInv, GivenUpIsLost, StagesAgree, BasicTypes
<1> QED
  BY <1>1, <1>2 DEF IInv, CInv, OldIsNoticed

\* A file that is opened or filled keeps its latest version on its way.
LEMMA KeptByHandler ==
    ASSUME IInv, NEW u \in Flushes, OpenTarget(u) \/ CopyTarget(u) PROVE ChangesAreKept'
<1> SUFFICES ASSUME NEW f \in Files, f \notin lost' \cup missed' \cup contended'
             PROVE  Kept(f)'
  BY DEF ChangesAreKept
<1>1. UNCHANGED <<local, events, pending, history, flush, request>>
  BY DEF OpenTarget, CopyTarget, fileVars, loopVars
<1>2. /\ Kept(f) /\ f \in Files \ (lost \cup missed \cup contended)
      /\ StoredAs[f] \in SessionPaths
  BY <1>1 DEF IInv, CInv, ChangesAreKept, SessionPaths
<1>3. handler[u] # "none" /\ written[u] < Len(body[u])
  BY OpenTargetEffect, CopyTargetEffect
<1>4. /\ Target(u).file \in Files
      /\ Target(u) = body[u][written[u] + 1] /\ written[u] + 1 \in 1 .. Len(body[u])
  BY <1>3, TargetIsPart DEF IInv, CInv
<1>5. CASE Target(u).file = f
  <2>1. f \in events \cup pending \/ (flush[u] = "waiting" /\ Target(u).version = local[f])
    BY <1>2, <1>3, <1>4, <1>5, LatestOrNoticed
  <2> QED
    BY <1>1, <1>4, <1>5, <2>1 DEF Kept
<1>6. CASE Target(u).file # f
  <2>1. StoredAs[Target(u).file] # StoredAs[f]
    BY <1>4, <1>6 DEF IInv, CInv, OwnBaseNames
  <2>2. server'[StoredAs[f]] = server[StoredAs[f]]
    BY <1>2, <2>1, OpenTargetEffect, CopyTargetEffect
  <2> QED
    BY <1>1, <1>2, <2>2 DEF Kept
<1> QED
  BY <1>5, <1>6

\* With the answer, everything in the request is written.
LEMMA KeptByAnswer ==
    ASSUME IInv, NEW u \in Flushes, Answer(u) PROVE ChangesAreKept'
<1> SUFFICES ASSUME NEW f \in Files, f \notin lost' \cup missed' \cup contended'
             PROVE  Kept(f)'
  BY DEF ChangesAreKept
<1>1. /\ UNCHANGED <<local, server, events, pending, history, request>>
      /\ handler[u] # "none" /\ written[u] = Len(body[u])
      /\ \A o \in Flushes : o # u => flush'[o] = flush[o]
      /\ flush[u] # "streaming"
  BY DEF Answer, fileVars, loopVars, IInv, CInv, BasicTypes, StagesAgree
<1>2. Kept(f)
  BY <1>1 DEF IInv, CInv, ChangesAreKept
<1>3. ASSUME NEW i \in 1 .. Len(body[u]), body[u][i].file = f, body[u][i].version = local[f]
      PROVE  server[StoredAs[f]] = {local[f]}
  BY <1>1, <1>3 DEF IInv, CInv, WrittenIsStored
<1> QED
  BY <1>1, <1>2, <1>3 DEF Kept

\* A complete request holds every path of its flush.
LEMMA KeptByRequestComplete ==
    ASSUME IInv, NEW u \in Flushes, RequestComplete(u) PROVE ChangesAreKept'
<1> SUFFICES ASSUME NEW f \in Files, f \notin lost' \cup missed' \cup contended'
             PROVE  Kept(f)'
  BY DEF ChangesAreKept
<1>1. /\ UNCHANGED <<local, server, events, pending, history, request>>
      /\ \A o \in Flushes : o # u => flush'[o] = flush[o]
      /\ flush[u] = "streaming" /\ flush'[u] = "waiting"
  BY DEF RequestComplete, fileVars, loopVars, IInv, CInv, BasicTypes
<1>2. f \in Carried(u) => \E i \in 1 .. Len(body[u]) : body[u][i].file = f
  BY ReadByPosition DEF RequestComplete, Handled, IInv, CInv
<1>3. Kept(f)
  BY <1>1 DEF IInv, CInv, ChangesAreKept
<1> QED
  BY <1>1, <1>2, <1>3 DEF Kept

\* A new flush has a request of its own.
LEMMA KeptByTimer ==
    ASSUME IInv, NEW t \in Timers, NEW u \in Flushes, TimerFires(t, u) PROVE ChangesAreKept'
<1> SUFFICES ASSUME NEW f \in Files, f \notin lost' \cup missed' \cup contended'
             PROVE  Kept(f)'
  BY DEF ChangesAreKept
<1>1. /\ UNCHANGED <<local, server, events, pending, history>>
      /\ flush[u] = "off"
      /\ \A o \in Flushes : o # u =>
            /\ flush'[o] = flush[o] /\ paths'[o] = paths[o]
            /\ skipped'[o] = skipped[o] /\ body'[o] = body[o]
  BY DEF TimerFires, Idle, fileVars, IInv, CInv, BasicTypes
<1>2. Kept(f)
  BY <1>1 DEF IInv, CInv, ChangesAreKept
<1> QED
  BY <1>1, <1>2 DEF Kept

\* No step forgets a change that was noticed.
LEMMA KeptStep == IInv /\ [Next]_vars => ChangesAreKept'
<1> SUFFICES ASSUME IInv, [Next]_vars PROVE ChangesAreKept'
  OBVIOUS
<1>1. CASE \E u \in Flushes : OpenTarget(u) \/ CopyTarget(u)
  BY <1>1, KeptByHandler
<1>2. CASE \E u \in Flushes : Answer(u)
  BY <1>2, KeptByAnswer
<1>3. CASE \E u \in Flushes : TakePending(u)
  BY <1>3, KeptByTakePending
<1>4. CASE \E u \in Flushes, f \in Files : StreamFile(u, f)
  BY <1>4, KeptByStreamFile
<1>5. CASE \E t \in Timers, u \in Flushes : TimerFires(t, u)
  BY <1>5, KeptByTimer
<1>6. ASSUME NEW f \in Files, Save(f) \/ Remove(f) PROVE ChangesAreKept'
  BY <1>6, KeptOnward DEF Save, Remove, Notice, loopVars, uploadVars, IInv, CInv,
       BasicTypes
<1>7. CASE \/ MakeDir \/ ReceiveDir \/ ReadDebounce \/ ResetTimer \/ NewTimer
           \/ AssignDebounce \/ Start \/ UNCHANGED vars
  BY <1>7, KeptOnward DEF MakeDir, ReceiveDir, ReadDebounce, ResetTimer, NewTimer,
       AssignDebounce, Start, vars, fileVars, loopVars, uploadVars
<1>8. ASSUME NEW f \in Files, ReceiveFile(f) PROVE ChangesAreKept'
  BY <1>8, KeptOnward DEF ReceiveFile, uploadVars
<1>9. CASE EventsOverflow
  BY <1>9, KeptOnward DEF EventsOverflow, loopVars, uploadVars
<1>10. CASE Stop \/ ResetPanics
  <2>1. \A u \in Flushes : flush[u] \in {"streaming", "waiting"} => paths[u] \subseteq lost'
    BY <1>10 DEF Stop, ResetPanics, Die
  <2> QED
    BY <1>10, <2>1, KeptOnward DEF Stop, ResetPanics, Die
<1>11. ASSUME NEW u \in Flushes, RequestComplete(u) PROVE ChangesAreKept'
  BY <1>11, KeptByRequestComplete
<1>12. ASSUME NEW u \in Flushes, Report(u) PROVE ChangesAreKept'
  BY <1>12, KeptOnward DEF Report, fileVars, loopVars, IInv, CInv, BasicTypes
<1>13. ASSUME NEW u \in Flushes, Reject(u) \/ TimeOut(u) \/ WriteFails(u) PROVE ChangesAreKept'
  BY <1>13, KeptOnward DEF Reject, TimeOut, WriteFails, Fail, fileVars, loopVars,
       IInv, CInv, BasicTypes
<1> QED
  BY <1>1, <1>2, <1>3, <1>4, <1>5, <1>6, <1>7, <1>8, <1>9, <1>10, <1>11, <1>12, <1>13
     DEF Next, LoopStep, FlushStep, HandlerStep

\* The client runs on an unchanged directory that the session mirrors.
LEMMA InitClient == Init => CInv
<1> SUFFICES ASSUME Init PROVE CInv
  OBVIOUS
<1> USE DEF Init
<1>1. BasicTypes
  <2>1. <<>> \in Seq(Parts) /\ 0 \in 0 .. MaxEdits
    BY MaxEditsAssumption
  <2>2. body \in [Flushes -> Seq(Parts)]
    BY <2>1
  <2>3. server \in [SessionPaths -> SUBSET (0 .. MaxEdits)]
    BY <2>1
  <2> QED
    BY <2>1, <2>2, <2>3 DEF BasicTypes
<1> QED
  BY <1>1 DEF CInv, SentIsTaken, PendingIsScheduled, StagesAgree

\* Nothing is under way, nothing has changed.
LEMMA InitInv == OwnBaseNames /\ Init => IInv
<1> SUFFICES ASSUME OwnBaseNames, Init PROVE IInv
  OBVIOUS
<1>1. CInv
  BY InitClient
<1>2. /\ FilesAreSentOnce /\ SharedIsContended /\ GivenUpIsLost /\ OldIsNoticed
      /\ CopyingIsEmpty /\ WrittenIsStored /\ WaitingIsComplete
  BY DEF Init, FilesAreSentOnce, SharedIsContended, GivenUpIsLost, OldIsNoticed,
         CopyingIsEmpty, WrittenIsStored, WaitingIsComplete, InFlight, Idle
<1>3. ChangesAreKept
  BY DEF Init, ChangesAreKept, Kept
<1> QED
  BY <1>1, <1>2, <1>3 DEF IInv

\* Every step keeps the invariant.
LEMMA InvStep == IInv /\ [Next]_vars => IInv'
<1>1. IInv => OwnBaseNames'
  BY DEF IInv, CInv, OwnBaseNames
<1> QED
  BY <1>1, TypesStep, TakenStep, StagesStep, PendingStep, OnceStep, SharedStep,
       GivenUpStep,
     OldStep, CopyingStep, WrittenStep, WaitingStep, KeptStep DEF IInv, CInv

\* The client's part needs no assumption about names.
LEMMA ClientInvariant == Spec => []CInv
<1>1. Init => CInv
  BY InitClient
<1>2. CInv /\ [Next]_vars => CInv'
  BY TypesStep, TakenStep, StagesStep, PendingStep DEF CInv
<1> QED
  BY <1>1, <1>2, PTL DEF Spec

\* The invariant holds in every reachable state.
LEMMA Inductive == OwnBaseNames /\ Spec => []IInv
<1>1. OwnBaseNames /\ Init => IInv
  BY InitInv
<1> QED
  BY <1>1, InvStep, PTL DEF Spec

\* Every variable keeps its type, and a request holds files its flush has taken.
THEOREM TypeCorrect == Spec => []TypeOK
<1>1. CInv => TypeOK
  <2> SUFFICES ASSUME CInv PROVE TypeOK
    OBVIOUS
  <2>1. \A u \in Flushes : written[u] <= Len(body[u]) /\ Handled(u) \subseteq paths[u]
    BY ReadByPosition DEF CInv, SentIsTaken, Handled
  <2> QED
    BY <2>1 DEF CInv, BasicTypes, TypeOK
<1> QED
  BY <1>1, ClientInvariant, PTL

\* As long as the client lives, a pending path has a timer or a flush, although the
\* loop and the flushes race for the debounce variable and the loop reads it twice;
\* where the second read finds nil, the client ends with nothing pending
\* (watch.go:123-175).
THEOREM PendingStaysScheduled == Spec => []PendingIsScheduled
<1>1. CInv => PendingIsScheduled
  BY DEF CInv
<1> QED
  BY <1>1, ClientInvariant, PTL

\* As long as no two files have the same base name, a change that `sth watch` has
\* noticed is stored, on its way, lost to a printed error or to the end of the
\* client, missed because its file could not be opened, or contended, whatever
\* fails and in whatever order flushes, uploads and handlers run (watch.go flush and
\* uploadFiles, handleUpdateFiles).
THEOREM NothingIsForgotten == OwnBaseNames /\ Spec => []NoForgottenChange
<1>1. IInv => NoForgottenChange
  BY KeptIsNotForgotten DEF IInv, CInv
<1> QED
  BY <1>1, Inductive, PTL

\* Every path printed as "Synced" is one the server holds as it was uploaded, one
\* that was left out of the upload, or one that another upload had at the same time.
THEOREM SyncedFilesAreStored == OwnBaseNames /\ Spec => SyncedIsStored
<1>1. IInv /\ [Next]_vars =>
        [\A u \in Flushes : flush[u] = "waiting" /\ flush'[u] = "synced" =>
            \A f \in paths[u] :
               \/ \E e \in Entries(u) : e.file = f /\ server[StoredAs[f]] = {e.version}
               \/ f \in skipped[u] \/ f \in contended]_vars
  <2> SUFFICES ASSUME IInv, [Next]_vars, NEW u \in Flushes, flush[u] = "waiting",
                      flush'[u] = "synced", NEW f \in paths[u], f \notin skipped[u],
                      f \notin contended
               PROVE  \E e \in Entries(u) : e.file = f /\ server[StoredAs[f]] = {e.version}
    OBVIOUS
  <2>1. Answer(u)
    BY ZenonT(40) DEF IInv, CInv, BasicTypes, Next, vars, LoopStep, FlushStep, HandlerStep,
         Save, Remove, MakeDir, ReceiveDir, ReceiveFile, ReadDebounce, ResetTimer,
         ResetPanics, NewTimer, AssignDebounce, EventsOverflow, Stop, Die, Start,
         TimerFires, TakePending, StreamFile, RequestComplete, Report, OpenTarget,
         CopyTarget, Answer, Reject, TimeOut, WriteFails, Fail, uploadVars
  <2>2. PICK i \in 1 .. Len(body[u]) : body[u][i].file = f
    BY DEF IInv, WaitingIsComplete
  <2>3. handler[u] # "none" /\ i \in 1 .. written[u]
    BY <2>1, <2>2 DEF Answer
  <2>4. server[StoredAs[f]] = {body[u][i].version}
    BY <2>2, <2>3 DEF IInv, WrittenIsStored
  <2>5. body[u][i] \in Entries(u)
    BY <2>2, ReadByPosition DEF IInv, CInv
  <2> QED
    BY <2>2, <2>4, <2>5
<1> QED
  BY <1>1, Inductive, PTL DEF Spec, SyncedIsStored
=============================================================================
