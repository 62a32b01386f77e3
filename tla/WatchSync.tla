------------------------------ MODULE WatchSync ------------------------------
(***************************************************************************)
(* `sth watch` (src/internal/cli/watch.go) against the incremental update  *)
(* handler PUT /api/sessions/{id}/files (src/internal/server/server.go):   *)
(* the event loop, its pending set and debounce timer, the flush           *)
(* goroutines the timer starts, their uploads, and the handler that writes *)
(* the uploaded files into the session's directory.                        *)
(*                                                                         *)
(* The mutex guards the pending set.  The debounce variable is also read   *)
(* and written by the event loop outside the mutex, so those accesses are  *)
(* steps of their own.  A save of a file is one step that replaces its     *)
(* content; versions are numbered over all files.                          *)
(***************************************************************************)
EXTENDS Integers, Sequences, FiniteSets

CONSTANTS
    Files,      \* regular, not ignored files under the watched directory
    Inner,      \* those of a subdirectory that is made later
    StoredAs,   \* where the handler puts each uploaded file
    MaxEdits,   \* bound: changes made in the directory
    Flushes,    \* bound: flush goroutines at the same time
    Timers,     \* bound: timers at the same time
    NoTimer,    \* debounce == nil
    Absent,     \* the file does not exist
    Faults      \* which failures happen: see FaultKinds

\* "unreadable": opening a file that exists, or its Stat, fails; "reject": the
\* server answers 4xx before it reads the files; "io": writing a file fails;
\* "timeout": the client gives up after 30 seconds; "overflow": the kernel's event
\* queue overflows; "stop": Ctrl-C.
FaultKinds == {"unreadable", "reject", "io", "timeout", "overflow", "stop"}

ASSUME InnerAssumption == Inner \subseteq Files

\* The client names a file by its path below the watched directory, but the
\* handler's hdr.Filename is only the last element of it: mime/multipart drops
\* the directories (Part.FileName).  Every upload lands in the session's root.
ASSUME StoredAsAssumption ==
    /\ DOMAIN StoredAs = Files
    /\ \A f \in Files : StoredAs[f] \notin Inner /\ (f \notin Inner => StoredAs[f] = f)
SessionPaths == Files \cup {StoredAs[f] : f \in Files}

ASSUME MaxEditsAssumption == MaxEdits \in Nat
ASSUME NoTimerAssumption == NoTimer \notin Timers
ASSUME AbsentAssumption == Absent \notin Nat
ASSUME WatchFaultsAssumption == Faults \subseteq FaultKinds

VARIABLES
    local,      \* the version of each file in the watched directory
    edits,      \* how many changes were made in it
    subdir,     \* the subdirectory: "none", "made" or "watched"
    events,     \* files with a file system event the loop has not received
    dirEvent,   \* the subdirectory's Create event waits
    running,    \* `sth watch` runs
    pending,    \* paths to upload with the next flush
    debounce,   \* the debounce variable
    loop,       \* where the event loop stands
    held,       \* the timer the loop has tested or created
    armed,      \* running timers
    flush,      \* where each flush goroutine stands
    paths,      \* the paths it has taken from pending
    skipped,    \* those of them its request leaves out
    body,       \* the files its request holds so far: file and version
    handler,    \* where the server's handler of its request stands
    written,    \* how many files of the body that handler has written
    server,     \* the versions whose bytes a file of the session holds
    lost,       \* history: files whose latest change an error or the end took
    missed,     \* history: files left out although they exist
    contended   \* history: files taken while another upload still had them

fileVars == <<local, edits, subdir, events, dirEvent>>
loopVars == <<running, pending, debounce, loop, held, armed>>
request == <<paths, skipped, body>>
uploadVars == <<flush, request, handler, written>>
history == <<lost, missed, contended>>
vars == <<fileVars, loopVars, uploadVars, server, history>>

Versions == 1 .. MaxEdits
Parts == [file : Files, version : Versions \cup {0}]
Entries(u) == {body[u][i] : i \in DOMAIN body[u]}
Read(u) == {e.file : e \in Entries(u)}

Idle(u) == flush[u] = "off" /\ handler[u] = "none"

\* The writer goroutine has dealt with it.
Handled(u) == Read(u) \cup skipped[u]

\* Files a flush has taken and neither stored nor given up yet.
InFlight(u) == IF Idle(u) THEN {} ELSE paths[u] \ skipped[u]

TypeOK ==
    /\ local \in [Files -> Versions \cup {0, Absent}]
    /\ edits \in 0 .. MaxEdits
    /\ subdir \in {"none", "made", "watched"}
    /\ events \subseteq Files /\ dirEvent \in BOOLEAN
    /\ running \in BOOLEAN
    /\ pending \subseteq Files
    /\ debounce \in Timers \cup {NoTimer}
    /\ loop \in {"idle", "added", "reset", "new"}
    /\ held \in Timers \cup {NoTimer}
    /\ loop \in {"reset", "new"} <=> held # NoTimer
    /\ armed \subseteq Timers
    /\ flush \in [Flushes -> {"off", "begun", "streaming", "waiting", "synced"}]
    /\ paths \in [Flushes -> SUBSET Files]
    /\ skipped \in [Flushes -> SUBSET Files]
    /\ body \in [Flushes -> Seq(Parts)]
    /\ handler \in [Flushes -> {"none", "writing", "copying"}]
    /\ written \in [Flushes -> Nat]
    /\ \A u \in Flushes : written[u] <= Len(body[u]) /\ Handled(u) \subseteq paths[u]
    /\ server \in [SessionPaths -> SUBSET (0 .. MaxEdits)]
    /\ lost \subseteq Files /\ missed \subseteq Files /\ contended \subseteq Files

Init ==
    /\ local = [f \in Files |-> IF f \in Inner THEN Absent ELSE 0]
    /\ edits = 0 /\ subdir = "none"
    /\ events = {} /\ dirEvent = FALSE
    /\ running = TRUE
    /\ pending = {} /\ debounce = NoTimer
    /\ loop = "idle" /\ held = NoTimer /\ armed = {}
    /\ flush = [u \in Flushes |-> "off"]
    /\ paths = [u \in Flushes |-> {}]
    /\ skipped = [u \in Flushes |-> {}]
    /\ body = [u \in Flushes |-> <<>>]
    /\ handler = [u \in Flushes |-> "none"]
    /\ written = [u \in Flushes |-> 0]
    /\ server = [f \in SessionPaths |-> IF f \in Files \ Inner THEN {0} ELSE {}]
    /\ lost = {} /\ missed = {} /\ contended = {}

(***************************************************************************)
(* The watched directory.  Whether a change is noticed depends on the      *)
(* watches of its directory at that moment.                                *)
(***************************************************************************)
Watched(f) == running /\ (f \in Inner => subdir = "watched")

Notice(f) ==
    IF Watched(f)
        THEN events' = events \cup {f} /\ UNCHANGED lost
        ELSE lost' = lost \cup {f} /\ UNCHANGED events

Save(f) ==
    /\ edits < MaxEdits
    /\ f \in Inner => subdir # "none"
    /\ edits' = edits + 1
    /\ local' = [local EXCEPT ![f] = edits + 1]
    /\ Notice(f)
    /\ UNCHANGED <<subdir, dirEvent, loopVars, uploadVars, server, missed, contended>>

Remove(f) ==
    /\ edits < MaxEdits
    /\ local[f] # Absent
    /\ edits' = edits + 1
    /\ local' = [local EXCEPT ![f] = Absent]
    /\ Notice(f)
    /\ UNCHANGED <<subdir, dirEvent, loopVars, uploadVars, server, missed, contended>>

MakeDir ==
    /\ subdir = "none" /\ Inner # {} /\ edits < MaxEdits
    /\ edits' = edits + 1
    /\ subdir' = "made"
    /\ dirEvent' = running
    /\ UNCHANGED <<local, events, loopVars, uploadVars, server, history>>

(***************************************************************************)
(* The event loop.  A Create event of a directory only adds watches: what  *)
(* is in it by then is neither listed nor uploaded.                        *)
(***************************************************************************)
ReceiveDir ==
    /\ running /\ loop = "idle" /\ dirEvent
    /\ dirEvent' = FALSE
    /\ subdir' = "watched"
    /\ UNCHANGED <<local, edits, events, loopVars, uploadVars, server, history>>

ReceiveFile(f) ==
    /\ running /\ loop = "idle" /\ f \in events
    /\ events' = events \ {f}
    /\ pending' = pending \cup {f}
    /\ loop' = "added"
    /\ UNCHANGED <<local, edits, subdir, dirEvent, running, debounce, held, armed,
                   uploadVars, server, history>>

\* A plausible bug: "There is a timer already": the loop does not reset it.
TrustDebounce ==
    /\ running /\ loop = "added" /\ debounce # NoTimer
    /\ loop' = "idle"
    /\ UNCHANGED <<fileVars, running, pending, debounce, held, armed, uploadVars,
                   server, history>>

\* `if debounce != nil`.  The flush goroutine may set it to nil before the next
\* line reads it again.
ReadDebounce ==
    /\ running /\ loop = "added" /\ debounce # NoTimer
    /\ held' = debounce
    /\ loop' = "reset"
    /\ UNCHANGED <<fileVars, running, pending, debounce, armed, uploadVars,
                   server, history>>

\* The timer tested (the compiler may keep its first read) or the one read again.
ResetTimer ==
    /\ running /\ loop = "reset"
    /\ \E t \in {held, debounce} \ {NoTimer} : armed' = armed \cup {t}
    /\ held' = NoTimer
    /\ loop' = "idle"
    /\ UNCHANGED <<fileVars, running, pending, debounce, uploadVars, server, history>>

\* The process ends with whatever is pending or under way; handlers that have
\* their request go on.
Die ==
    /\ running' = FALSE
    /\ loop' = "idle" /\ held' = NoTimer
    /\ lost' = lost \cup events \cup pending \cup
                 UNION {paths[u] : u \in {v \in Flushes : flush[v] # "off"}}
    /\ events' = {} /\ dirEvent' = FALSE
    /\ pending' = {} /\ debounce' = NoTimer /\ armed' = {}
    /\ flush' = [u \in Flushes |-> "off"]
    /\ UNCHANGED <<local, edits, subdir, request, handler, written,
                   server, missed, contended>>

\* The second read of debounce finds nil: the nil dereference kills the client.
ResetPanics ==
    /\ running /\ loop = "reset" /\ debounce = NoTimer
    /\ Die

\* time.AfterFunc runs the timer before its result is assigned.
NewTimer ==
    /\ running /\ loop = "added" /\ debounce = NoTimer
    /\ armed # Timers
    /\ held' = CHOOSE t \in Timers : t \notin armed
    /\ armed' = armed \cup {held'}
    /\ loop' = "new"
    /\ UNCHANGED <<fileVars, running, pending, debounce, uploadVars, server, history>>

AssignDebounce ==
    /\ running /\ loop = "new"
    /\ debounce' = held
    /\ held' = NoTimer
    /\ loop' = "idle"
    /\ UNCHANGED <<fileVars, running, pending, armed, uploadVars, server, history>>

\* w.Errors is drained and ignored: after an overflow the events are gone.
EventsOverflow ==
    /\ "overflow" \in Faults /\ running /\ loop = "idle" /\ events # {}
    /\ events' = {}
    /\ lost' = lost \cup events
    /\ UNCHANGED <<local, edits, subdir, dirEvent, loopVars, uploadVars, server, missed,
                   contended>>

\* A plausible bug: a slot is taken again with the count of its last request.
TimerFiresKeepsCount(t, u) ==
    /\ running /\ t \in armed
    /\ Idle(u) /\ u = CHOOSE v \in Flushes : Idle(v)
    /\ armed' = armed \ {t}
    /\ flush' = [flush EXCEPT ![u] = "begun"]
    /\ paths' = [paths EXCEPT ![u] = {}]
    /\ skipped' = [skipped EXCEPT ![u] = {}]
    /\ body' = [body EXCEPT ![u] = <<>>]
    /\ UNCHANGED <<fileVars, running, pending, debounce, loop, held, handler, written,
                   server, history>>

(***************************************************************************)
(* The flush goroutines.  Flush empties pending and debounce under the     *)
(* mutex, then uploads: another flush may start while it does.             *)
(***************************************************************************)
TimerFires(t, u) ==
    /\ running /\ t \in armed
    /\ Idle(u) /\ u = CHOOSE v \in Flushes : Idle(v)
    /\ armed' = armed \ {t}
    /\ flush' = [flush EXCEPT ![u] = "begun"]
    /\ paths' = [paths EXCEPT ![u] = {}]
    /\ skipped' = [skipped EXCEPT ![u] = {}]
    /\ body' = [body EXCEPT ![u] = <<>>]
    /\ written' = [written EXCEPT ![u] = 0]
    /\ UNCHANGED <<fileVars, running, pending, debounce, loop, held, handler,
                   server, history>>

TakePending(u) ==
    /\ flush[u] = "begun"
    /\ paths' = [paths EXCEPT ![u] = pending]
    /\ pending' = {}
    /\ debounce' = NoTimer
    /\ flush' = [flush EXCEPT ![u] = IF pending = {} THEN "off" ELSE "streaming"]
    /\ lost' = lost \ pending /\ missed' = missed \ pending
    /\ LET busy == UNION {InFlight(o) : o \in Flushes \ {u}}
       IN  contended' = (contended \ pending) \cup (pending \cap busy)
    /\ UNCHANGED <<fileVars, running, loop, held, armed, skipped, body, handler, written, server>>

\* The writer goroutine leaves out a file that it cannot open or Stat, whether it
\* does not exist any more or the call fails; it stays one of the flush's paths.
SkipFile(u, f) ==
    /\ local[f] = Absent \/ "unreadable" \in Faults
    /\ skipped' = [skipped EXCEPT ![u] = @ \cup {f}]
    /\ missed' = IF local[f] = Absent THEN missed ELSE missed \cup {f}
    /\ UNCHANGED body

SendFile(u, f) ==
    /\ local[f] # Absent
    /\ body' = [body EXCEPT ![u] = Append(@, [file |-> f, version |-> local[f]])]
    /\ UNCHANGED <<skipped, missed>>

\* A file is opened when the request is ready for it.
StreamFile(u, f) ==
    /\ flush[u] = "streaming"
    /\ f \in paths[u] \ Handled(u)
    /\ SkipFile(u, f) \/ SendFile(u, f)
    /\ UNCHANGED <<fileVars, loopVars, flush, paths, handler, written, server, lost, contended>>

\* The handler parses the whole form before it writes the first file.
RequestComplete(u) ==
    /\ flush[u] = "streaming"
    /\ paths[u] \subseteq Handled(u)
    /\ flush' = [flush EXCEPT ![u] = "waiting"]
    /\ handler' = [handler EXCEPT ![u] = "writing"]
    /\ UNCHANGED <<fileVars, loopVars, request, written, server, history>>

\* uploadFiles returns an error: it is printed and the paths are forgotten.
Fail(u) ==
    /\ flush' = [flush EXCEPT ![u] = "off"]
    /\ lost' = lost \cup paths[u]

\* 401, 403, 404 before the form is read, or the connection fails.
Reject(u) ==
    /\ "reject" \in Faults /\ flush[u] = "streaming"
    /\ Fail(u)
    /\ UNCHANGED <<fileVars, loopVars, request, handler, written, server, missed, contended>>

\* The handler goes on when it has the whole request already.
TimeOut(u) ==
    /\ "timeout" \in Faults /\ flush[u] \in {"streaming", "waiting"}
    /\ Fail(u)
    /\ UNCHANGED <<fileVars, loopVars, request, handler, written, server, missed, contended>>

Report(u) ==
    /\ flush[u] = "synced"
    /\ flush' = [flush EXCEPT ![u] = "off"]
    /\ UNCHANGED <<fileVars, loopVars, request, handler, written, server, history>>

(***************************************************************************)
(* The handler of PUT /api/sessions/{id}/files, once the form is parsed:   *)
(* each file is truncated when it is opened and then written.              *)
(***************************************************************************)
Target(u) == body[u][written[u] + 1]

\* A plausible bug: the file is opened without O_TRUNC.
OpenTargetKeepsTail(u) ==
    /\ handler[u] = "writing" /\ written[u] < Len(body[u])
    /\ handler' = [handler EXCEPT ![u] = "copying"]
    /\ UNCHANGED <<fileVars, loopVars, flush, request, written, server, history>>

OpenTarget(u) ==
    /\ handler[u] = "writing" /\ written[u] < Len(body[u])
    /\ handler' = [handler EXCEPT ![u] = "copying"]
    /\ server' = [server EXCEPT ![StoredAs[Target(u).file]] = {}]
    /\ UNCHANGED <<fileVars, loopVars, flush, request, written, history>>

\* Each writer has its own offset: what another one wrote meanwhile stays where
\* it is longer.
CopyTarget(u) ==
    /\ handler[u] = "copying"
    /\ handler' = [handler EXCEPT ![u] = "writing"]
    /\ written' = [written EXCEPT ![u] = @ + 1]
    /\ LET f == StoredAs[Target(u).file]
           new == {Target(u).version}
       IN  server' \in {[server EXCEPT ![f] = new], [server EXCEPT ![f] = @ \cup new]}
    /\ UNCHANGED <<fileVars, loopVars, flush, request, history>>

\* A plausible bug: 200 is sent with files of the form unwritten.
AnswerEarly(u) ==
    /\ handler[u] = "writing"
    /\ handler' = [handler EXCEPT ![u] = "none"]
    /\ flush' = [flush EXCEPT ![u] = IF @ = "waiting" THEN "synced" ELSE @]
    /\ UNCHANGED <<fileVars, loopVars, request, written, server, history>>

\* BroadcastTo and the 200 answer.
Answer(u) ==
    /\ handler[u] = "writing" /\ written[u] = Len(body[u])
    /\ handler' = [handler EXCEPT ![u] = "none"]
    /\ flush' = [flush EXCEPT ![u] = IF @ = "waiting" THEN "synced" ELSE @]
    /\ UNCHANGED <<fileVars, loopVars, request, written, server, history>>

\* MkdirAll, OpenFile or Copy fails: 500, the files before it stay written.
WriteFails(u) ==
    /\ "io" \in Faults
    /\ handler[u] # "none" /\ written[u] < Len(body[u])
    /\ handler' = [handler EXCEPT ![u] = "none"]
    /\ Fail(u)
    /\ UNCHANGED <<fileVars, loopVars, request, written, server, missed, contended>>

(***************************************************************************)
(* Ctrl-C, whose `if debounce != nil { debounce.Stop() }` ends the process *)
(* one way or the other.  A restart uploads nothing by itself.             *)
(***************************************************************************)
Stop ==
    /\ "stop" \in Faults /\ running /\ loop = "idle"
    /\ Die

Start ==
    /\ ~running
    /\ running' = TRUE
    /\ subdir' = IF subdir = "none" THEN "none" ELSE "watched"
    /\ UNCHANGED <<local, edits, events, dirEvent, pending, debounce, loop, held, armed,
                   uploadVars, server, history>>

LoopStep ==
    \/ ReceiveDir \/ (\E f \in Files : ReceiveFile(f))
    \/ ReadDebounce \/ ResetTimer \/ ResetPanics \/ NewTimer \/ AssignDebounce

FlushStep(u) ==
    \/ TakePending(u) \/ (\E f \in Files : StreamFile(u, f)) \/ RequestComplete(u)
    \/ Report(u)

HandlerStep(u) == OpenTarget(u) \/ CopyTarget(u) \/ Answer(u)

Next ==
    \/ \E f \in Files : Save(f) \/ Remove(f)
    \/ MakeDir \/ LoopStep \/ EventsOverflow \/ Stop \/ Start
    \/ \E t \in Timers, u \in Flushes : TimerFires(t, u)
    \/ \E u \in Flushes :
          \/ FlushStep(u) \/ HandlerStep(u)
          \/ Reject(u) \/ TimeOut(u) \/ WriteFails(u)

\* The goroutines, timers and handlers run; nobody has to save, stop or fail.  A
\* flush and its handler never wait for a step at the same time.
Fairness ==
    /\ WF_vars(LoopStep)
    /\ WF_vars(\E t \in Timers, u \in Flushes : TimerFires(t, u))
    /\ \A u \in Flushes : WF_vars(FlushStep(u) \/ HandlerStep(u))

Spec == Init /\ [][Next]_vars /\ Fairness

(***************************************************************************)
(* As long as the client lives, a pending path is on its way to a flush:   *)
(* the loop is about to run the timer, a timer runs, or a flush goroutine  *)
(* is about to take it (the unsynchronised debounce variable of            *)
(* watch.go:167-175).  When the loop's second read of that variable finds  *)
(* nil there is no client any more and nothing pending with it.            *)
(***************************************************************************)
PendingIsScheduled ==
    pending # {} => \/ loop \in {"added", "reset"}
                    \/ armed # {}
                    \/ \E u \in Flushes : flush[u] = "begun"

(***************************************************************************)
(* What becomes of a change the client has noticed: the latest version of  *)
(* a file is on the server (where StoredAs puts it) or on its way there,   *)
(* or it is lost to an error the client prints or to its own end (a stop,  *)
(* or the nil debounce), missed because the file could not be opened when  *)
(* its turn came, or contended, written by two uploads at once.  There is  *)
(* no other way to forget it; the last two happen without an error.        *)
(***************************************************************************)
OnItsWay(f) ==
    \/ f \in events \cup pending
    \/ \E u \in Flushes :
          \/ flush[u] = "streaming" /\ f \in paths[u] \ Handled(u)
          \/ /\ flush[u] \in {"streaming", "waiting"}
             /\ [file |-> f, version |-> local[f]] \in Entries(u)

NoForgottenChange ==
    \A f \in Files :
        \/ local[f] \in {0, Absent} \/ server[StoredAs[f]] = {local[f]} \/ OnItsWay(f)
        \/ f \in lost \/ f \in missed \/ f \in contended

(***************************************************************************)
(* "Synced" is printed for every path of a flush.  Each of them is one     *)
(* whose uploaded version is what the server holds then, one of which      *)
(* nothing was uploaded because it was gone or could not be opened, or one *)
(* that another upload had at the same time.                               *)
(***************************************************************************)
SyncedIsStored ==
    [][\A u \in Flushes : flush[u] = "waiting" /\ flush'[u] = "synced" =>
          \A f \in paths[u] :
             \/ \E e \in Entries(u) : e.file = f /\ server[StoredAs[f]] = {e.version}
             \/ f \in skipped[u] \/ f \in contended]_vars

(***************************************************************************)
(* Saves do reach the server: with goroutines, timers and handlers fair,   *)
(* and saves at an end (MaxEdits), every file's latest version is stored   *)
(* for good, unless it was lost, missed or contended as above.             *)
(***************************************************************************)
Settled ==
    \A f \in Files \ (lost \cup missed \cup contended) :
        local[f] \in {0, Absent} \/ server[StoredAs[f]] = {local[f]}

SavesArrive == <>[]Settled

(***************************************************************************)
(* openspec/changes/realtime-html-update/specs/session-incremental-update/ *)
(* spec.md:14 has the server put a file under its relative path: once all  *)
(* is quiet and nothing failed, each file the session has is the one of    *)
(* the watched directory.                                                  *)
(***************************************************************************)
Quiet ==
    /\ running /\ loop = "idle" /\ events \cup pending = {} /\ armed = {}
    /\ \A u \in Flushes : Idle(u)

SessionMirrorsDirectory ==
    Quiet /\ lost \cup missed \cup contended = {} =>
        \A f \in Files : local[f] = Absent \/ server[f] = {local[f]}
=============================================================================
