------------------------------ MODULE LiveReload ------------------------------
(***************************************************************************)
(* The live-reload subsystem of the server (src/internal/live): the hub    *)
(* manager, its hubs, the WebSocket connections registered with them, the  *)
(* file watcher each hub entry owns, and the two sources of reload         *)
(* messages, the watcher and PUT /api/sessions/{id}/files.                 *)
(*                                                                         *)
(* Manager.mu and Hub.mu are held inside one action each; what the code    *)
(* does between two critical sections is a separate action, so every       *)
(* interleaving of connection goroutines, watcher goroutines, timer        *)
(* goroutines and update handlers is a behaviour.                          *)
(*                                                                         *)
(* A connection slot stands for one server-side WebSocket connection and   *)
(* the browser page that uses it; a hub slot for one *Hub value.  A slot is *)
(* taken again once nothing refers to it any more, so behaviours are       *)
(* unbounded while the state space is finite.                              *)
(***************************************************************************)
EXTENDS FiniteSets

CONSTANTS
    Sessions,   \* session ids that exist in the store
    Updated,    \* those that PUT /api/sessions/{id}/files is called for
    Faults,     \* which failures happen: see FaultKinds
    Conns,      \* connection slots
    Hubs,       \* hub slots
    NoHub

\* "network": connections fail under a page that stays; "watchDir": a watcher
\* cannot be set up; "watcher": a running watcher reports an error.
FaultKinds == {"network", "watchDir", "watcher"}

ASSUME FaultsAssumption == Faults \subseteq FaultKinds
ASSUME UpdatedAssumption == Updated \subseteq Sessions
ASSUME NoHubAssumption == NoHub \notin Hubs

VARIABLES
    entry,      \* Manager.hubs: the hub registered for each session
    clients,    \* Hub.clients of each hub
    dir,        \* the session a hub was created for (its watcher's directory)
    watcher,    \* the watcher goroutine of a hub
    event,      \* a file event waits in that watcher's channel
    timer,      \* that watcher's debounce timer is running
    notifying,  \* the timer has fired and Broadcast has not read Hub.clients
    pc,         \* where a connection's handler and read goroutine stand
    sid,        \* the session a connection is for
    hub,        \* the hub a connection's handler holds
    pages,      \* connections whose browser page is still shown
    sending,    \* connections with a Send still to be performed
    upd,        \* where the update handler of a session stands
    updHub,     \* the hub BroadcastTo has looked up
    owed        \* history: clients attached when their directory changed

managerVars == <<entry, clients, dir>>
watchVars == <<watcher, event, timer, notifying>>
connVars == <<pc, sid, hub>>
pageVars == <<pages, sending, owed>>
updVars == <<upd, updHub>>
vars == <<managerVars, watchVars, connVars, pageVars, updVars>>

(***************************************************************************)
(* Types                                                                   *)
(***************************************************************************)
ConnPC == {"off", "dialing", "accepted", "gotHub", "open", "closing", "empty"}

\* From GetOrCreateHub until its goroutine ends a connection refers to a hub.
HoldsHub == {"gotHub", "open", "closing", "empty"}

TypeOK ==
    /\ entry \in [Sessions -> Hubs \cup {NoHub}]
    /\ clients \in [Hubs -> SUBSET Conns]
    /\ dir \in [Hubs -> Sessions]
    /\ watcher \in [Hubs -> {"none", "running", "cancelled"}]
    /\ event \in [Hubs -> BOOLEAN]
    /\ timer \in [Hubs -> BOOLEAN]
    /\ notifying \in [Hubs -> BOOLEAN]
    /\ pc \in [Conns -> ConnPC]
    /\ sid \in [Conns -> Sessions]
    /\ hub \in [Conns -> Hubs \cup {NoHub}]
    /\ \A c \in Conns : pc[c] \in HoldsHub <=> hub[c] # NoHub
    /\ pages \in SUBSET Conns
    /\ sending \in SUBSET Conns
    /\ upd \in [Sessions -> {"idle", "written", "found"}]
    /\ updHub \in [Sessions -> Hubs \cup {NoHub}]
    /\ \A s \in Sessions : upd[s] = "found" <=> updHub[s] # NoHub
    /\ owed \in SUBSET {c \in Conns : pc[c] = "open"}

Init ==
    /\ entry = [s \in Sessions |-> NoHub]
    /\ clients = [h \in Hubs |-> {}]
    /\ dir \in [Hubs -> Sessions]      \* meaningless until CreateHub
    /\ watcher = [h \in Hubs |-> "none"]
    /\ event = [h \in Hubs |-> FALSE]
    /\ timer = [h \in Hubs |-> FALSE]
    /\ notifying = [h \in Hubs |-> FALSE]
    /\ pc = [c \in Conns |-> "off"]
    /\ sid \in [Conns -> Sessions]     \* meaningless until LoadPage
    /\ hub = [c \in Conns |-> NoHub]
    /\ pages = {}
    /\ sending = {}
    /\ upd = [s \in Sessions |-> "idle"]
    /\ updHub = [s \in Sessions |-> NoHub]
    /\ owed = {}

(***************************************************************************)
(* Nothing refers to hub slot h: NewHub may use it for a new hub.          *)
(***************************************************************************)
Unreferenced(h) ==
    /\ \A s \in Sessions : entry[s] # h /\ updHub[s] # h
    /\ \A c \in Conns : hub[c] # h
    /\ clients[h] = {}
    /\ watcher[h] = "none" /\ ~timer[h] /\ ~notifying[h]

(***************************************************************************)
(* A client the watcher of its session's current hub serves: the clients   *)
(* a reload must reach when the session's files change.                    *)
(***************************************************************************)
Attached(c) ==
    /\ pc[c] = "open"
    /\ entry[sid[c]] = hub[c]
    /\ watcher[hub[c]] = "running"

(***************************************************************************)
(* The browser.                                                            *)
(***************************************************************************)

\* A browser loads /s/<id>/; the injected script is about to dial the
\* WebSocket.  The slot must be free of an earlier connection.
LoadPage(c, s) ==
    /\ pc[c] = "off" /\ c \notin pages \cup sending
    /\ pc' = [pc EXCEPT ![c] = "dialing"]
    /\ sid' = [sid EXCEPT ![c] = s]
    /\ pages' = pages \cup {c}
    /\ UNCHANGED <<managerVars, watchVars, updVars, hub, sending, owed>>

\* The page goes away (tab closed, user reload) without the server knowing.
Leave(c) ==
    /\ c \in pages
    /\ pages' = pages \ {c}
    /\ owed' = owed \ {c}
    /\ UNCHANGED <<managerVars, watchVars, connVars, updVars, sending>>

\* ws.onclose: the script saw its socket close and dials again from the same
\* page, over a new connection d; the page is not loaded again.
Redial(c, d) ==
    /\ "network" \in Faults
    /\ c \in pages /\ pc[c] # "dialing"
    /\ pc[d] = "off" /\ d \notin sending /\ (d = c \/ d \notin pages)
    /\ pc' = [pc EXCEPT ![d] = "dialing"]
    /\ sid' = [sid EXCEPT ![d] = sid[c]]
    /\ pages' = (pages \ {c}) \cup {d}
    /\ owed' = owed \ {c}
    /\ UNCHANGED <<managerVars, watchVars, updVars, hub, sending>>

(***************************************************************************)
(* HandleWebSocket and the goroutine it starts, one connection each.       *)
(***************************************************************************)

\* websocket.Accept succeeds: the browser's onopen runs.
Accept(c) ==
    /\ pc[c] = "dialing"
    /\ pc' = [pc EXCEPT ![c] = "accepted"]
    /\ UNCHANGED <<managerVars, watchVars, updVars, pageVars, sid, hub>>

\* The upgrade fails or the browser gave up: nothing was registered yet.
AcceptFails(c) ==
    /\ pc[c] = "dialing" /\ ("network" \in Faults \/ c \notin pages)
    /\ pc' = [pc EXCEPT ![c] = "off"]
    /\ UNCHANGED <<managerVars, watchVars, updVars, pageVars, sid, hub>>

\* Mutant of GetHub: the ok result of the map lookup is not looked at.
GetHubUnchecked(c) ==
    /\ pc[c] = "accepted"
    /\ hub' = [hub EXCEPT ![c] = entry[sid[c]]]
    /\ pc' = [pc EXCEPT ![c] = "gotHub"]
    /\ UNCHANGED <<managerVars, watchVars, updVars, pageVars, sid>>

\* Manager.GetOrCreateHub finds the session's entry.
GetHub(c) ==
    /\ pc[c] = "accepted"
    /\ entry[sid[c]] # NoHub
    /\ hub' = [hub EXCEPT ![c] = entry[sid[c]]]
    /\ pc' = [pc EXCEPT ![c] = "gotHub"]
    /\ UNCHANGED <<managerVars, watchVars, updVars, pageVars, sid>>

\* Manager.GetOrCreateHub creates hub h and starts its watcher; when watchDir
\* fails, the entry is stored without one.
CreateHub(c, h) ==
    /\ pc[c] = "accepted"
    /\ entry[sid[c]] = NoHub
    /\ Unreferenced(h)
    /\ entry' = [entry EXCEPT ![sid[c]] = h]
    /\ dir' = [dir EXCEPT ![h] = sid[c]]
    /\ \/ watcher' = [watcher EXCEPT ![h] = "running"]
       \/ "watchDir" \in Faults /\ UNCHANGED watcher
    /\ event' = [event EXCEPT ![h] = FALSE]
    /\ hub' = [hub EXCEPT ![c] = h]
    /\ pc' = [pc EXCEPT ![c] = "gotHub"]
    /\ UNCHANGED <<clients, timer, notifying, updVars, pageVars, sid>>

\* Hub.Register, then the read goroutine starts.
Register(c) ==
    /\ pc[c] = "gotHub"
    /\ clients' = [clients EXCEPT ![hub[c]] = @ \cup {c}]
    /\ pc' = [pc EXCEPT ![c] = "open"]
    /\ UNCHANGED <<entry, dir, watchVars, updVars, pageVars, sid, hub>>

\* conn.Read returns an error: the peer went away, the network dropped the
\* connection, or the 24 hour context expired.
ReadFails(c) ==
    /\ pc[c] = "open" /\ ("network" \in Faults \/ c \notin pages)
    /\ pc' = [pc EXCEPT ![c] = "closing"]
    /\ owed' = owed \ {c}
    /\ UNCHANGED <<managerVars, watchVars, updVars, sid, hub, pages, sending>>

\* Mutant of Unregister: onEmpty is not called for the last client.
UnregisterForgetsEmpty(c) ==
    /\ pc[c] = "closing"
    /\ clients' = [clients EXCEPT ![hub[c]] = @ \ {c}]
    /\ pc' = [pc EXCEPT ![c] = "off"]
    /\ hub' = [hub EXCEPT ![c] = NoHub]
    /\ UNCHANGED <<entry, dir, watchVars, updVars, pageVars, sid>>

\* Hub.Unregister up to its unlock and c.Close(): only the goroutine that
\* leaves the client set empty goes on to call onEmpty.
Unregister(c) ==
    /\ pc[c] = "closing"
    /\ clients' = [clients EXCEPT ![hub[c]] = @ \ {c}]
    /\ IF clients[hub[c]] \ {c} = {}
       THEN /\ pc' = [pc EXCEPT ![c] = "empty"]
            /\ UNCHANGED hub
       ELSE /\ pc' = [pc EXCEPT ![c] = "off"]
            /\ hub' = [hub EXCEPT ![c] = NoHub]
    /\ UNCHANGED <<entry, dir, watchVars, updVars, pageVars, sid>>

\* hub.onEmpty: whichever entry the session has now is removed and its
\* watcher cancelled, the hub's own entry or a later one.
OnEmpty(c) ==
    LET s == sid[c]
        h == entry[s]
    IN  /\ pc[c] = "empty"
        /\ entry' = [entry EXCEPT ![s] = NoHub]
        /\ watcher' = [g \in Hubs |-> IF g = h /\ watcher[g] = "running"
                                      THEN "cancelled" ELSE watcher[g]]
        /\ pc' = [pc EXCEPT ![c] = "off"]
        /\ hub' = [hub EXCEPT ![c] = NoHub]
        /\ UNCHANGED <<clients, dir, event, timer, notifying, updVars,
                       pageVars, sid>>

(***************************************************************************)
(* Files, the watcher goroutine and its timer (WatchDir).                  *)
(***************************************************************************)

\* The effect of a write in session s's directory: every watcher goroutine on
\* that directory has an event, also one that was cancelled and has not left
\* its loop, and every attached client is owed a reload.
FilesChange(s) ==
    /\ event' = [h \in Hubs |-> event[h] \/ (watcher[h] # "none" /\ dir[h] = s)]
    /\ owed' = owed \cup {c \in pages : sid[c] = s /\ Attached(c)}
    /\ UNCHANGED pages

\* Someone edits a file of the session on the server's disk (one the watcher
\* does not ignore: not hidden, no .swp or .tmp).
EditFile(s) ==
    /\ FilesChange(s)
    /\ UNCHANGED <<managerVars, connVars, updVars, watcher, timer, notifying, sending>>

\* Mutant of WatcherEvent: a fired timer is not started again.
WatcherEventNoReset(h) ==
    /\ watcher[h] # "none" /\ event[h]
    /\ event' = [event EXCEPT ![h] = FALSE]
    /\ UNCHANGED <<managerVars, connVars, updVars, pageVars, watcher, timer, notifying>>

\* The loop takes the waiting events and starts or resets the debounce timer.
\* A cancelled goroutine may still do so: select picks among ready cases.
WatcherEvent(h) ==
    /\ watcher[h] # "none" /\ event[h]
    /\ event' = [event EXCEPT ![h] = FALSE]
    /\ timer' = [timer EXCEPT ![h] = TRUE]
    /\ UNCHANGED <<managerVars, connVars, updVars, pageVars, watcher, notifying>>

\* The debounce timer fires; notify runs in a goroutine of its own.
TimerFires(h) ==
    /\ timer[h]
    /\ timer' = [timer EXCEPT ![h] = FALSE]
    /\ notifying' = [notifying EXCEPT ![h] = TRUE]
    /\ UNCHANGED <<managerVars, connVars, updVars, pageVars, watcher, event>>

\* notify: Hub.Broadcast copies the client set under Hub.mu.
WatcherBroadcast(h) ==
    /\ notifying[h]
    /\ notifying' = [notifying EXCEPT ![h] = FALSE]
    /\ sending' = sending \cup clients[h]
    /\ UNCHANGED <<managerVars, connVars, updVars, watcher, event, timer, pages, owed>>

\* <-ctx.Done(): the timer is stopped and the goroutine returns.
WatcherStops(h) ==
    /\ watcher[h] = "cancelled"
    /\ watcher' = [watcher EXCEPT ![h] = "none"]
    /\ event' = [event EXCEPT ![h] = FALSE]
    /\ timer' = [timer EXCEPT ![h] = FALSE]
    /\ UNCHANGED <<managerVars, connVars, updVars, pageVars, notifying>>

\* <-w.Errors: the goroutine returns, leaving the entry and a running timer.
WatcherDies(h) ==
    /\ "watcher" \in Faults /\ watcher[h] # "none"
    /\ watcher' = [watcher EXCEPT ![h] = "none"]
    /\ event' = [event EXCEPT ![h] = FALSE]
    /\ UNCHANGED <<managerVars, connVars, updVars, pageVars, timer, notifying>>

(***************************************************************************)
(* The sends of a broadcast.                                               *)
(***************************************************************************)

\* WSClient.Send delivers the message: the page reloads, so its socket
\* closes and its content is loaded anew over another connection.
Deliver(c) ==
    /\ c \in sending
    /\ pc[c] = "open" /\ c \in pages
    /\ sending' = sending \ {c}
    /\ pages' = pages \ {c}
    /\ owed' = owed \ {c}
    /\ UNCHANGED <<managerVars, watchVars, connVars, updVars>>

\* The write fails because the connection or its peer is gone, or after five
\* seconds; a failed write closes the connection, so its Read fails too.
SendFails(c) ==
    /\ c \in sending
    /\ "network" \in Faults \/ pc[c] # "open" \/ c \notin pages
    /\ sending' = sending \ {c}
    /\ pc' = [pc EXCEPT ![c] = IF @ = "open" THEN "closing" ELSE @]
    /\ owed' = owed \ {c}
    /\ UNCHANGED <<managerVars, watchVars, updVars, sid, hub, pages>>

(***************************************************************************)
(* The tail of handleUpdateFiles, one update of a session at a time.       *)
(***************************************************************************)

\* The uploaded files are written into the session's directory.
UpdateWrites(s) ==
    /\ s \in Updated /\ upd[s] = "idle"
    /\ FilesChange(s)
    /\ upd' = [upd EXCEPT ![s] = "written"]
    /\ UNCHANGED <<managerVars, connVars, watcher, timer, notifying, sending, updHub>>

\* A later file of the request fails: the handler answers 500 and returns
\* before BroadcastTo.
UpdateFails(s) ==
    /\ upd[s] = "written"
    /\ upd' = [upd EXCEPT ![s] = "idle"]
    /\ UNCHANGED <<managerVars, watchVars, connVars, pageVars, updHub>>

\* BroadcastTo reads the entry under Manager.mu and finds none.
UpdateFindsNoHub(s) ==
    /\ upd[s] = "written" /\ entry[s] = NoHub
    /\ upd' = [upd EXCEPT ![s] = "idle"]
    /\ UNCHANGED <<managerVars, watchVars, connVars, pageVars, updHub>>

\* BroadcastTo reads the entry under Manager.mu and holds its hub.
UpdateFindsHub(s) ==
    /\ upd[s] = "written" /\ entry[s] # NoHub
    /\ upd' = [upd EXCEPT ![s] = "found"]
    /\ updHub' = [updHub EXCEPT ![s] = entry[s]]
    /\ UNCHANGED <<managerVars, watchVars, connVars, pageVars>>

\* Hub.Broadcast copies the client set under Hub.mu.
UpdateBroadcast(s) ==
    /\ upd[s] = "found"
    /\ sending' = sending \cup clients[updHub[s]]
    /\ upd' = [upd EXCEPT ![s] = "idle"]
    /\ updHub' = [updHub EXCEPT ![s] = NoHub]
    /\ UNCHANGED <<managerVars, watchVars, connVars, pages, owed>>

-------------------------------------------------------------------------------
ConnStep(c) ==
    \/ Accept(c) \/ GetHub(c) \/ Register(c) \/ ReadFails(c)
    \/ Unregister(c) \/ OnEmpty(c) \/ AcceptFails(c)
    \/ \E h \in Hubs : CreateHub(c, h)

BrowserStep(c) ==
    \/ \E s \in Sessions : LoadPage(c, s)
    \/ \E d \in Conns : Redial(c, d)
    \/ Leave(c) \/ Deliver(c) \/ SendFails(c)

WatcherStep(h) ==
    \/ WatcherEvent(h) \/ TimerFires(h) \/ WatcherBroadcast(h)
    \/ WatcherStops(h) \/ WatcherDies(h)

SessionStep(s) ==
    \/ EditFile(s) \/ UpdateWrites(s) \/ UpdateFails(s)
    \/ UpdateFindsNoHub(s) \/ UpdateFindsHub(s) \/ UpdateBroadcast(s)

Next ==
    \/ \E c \in Conns : ConnStep(c) \/ BrowserStep(c)
    \/ \E h \in Hubs : WatcherStep(h)
    \/ \E s \in Sessions : SessionStep(s)

Spec == Init /\ [][Next]_vars
(***************************************************************************)
(* Fairness.  Goroutines that can run do run; a Send ends within its five  *)
(* seconds; a Read ends once the peer is gone; a timer fires unless events *)
(* keep coming that start it again.  Browsers, editors, networks and       *)
(* failures owe nothing.                                                   *)
(***************************************************************************)
HandlerStep(c) ==
    \/ Accept(c) \/ AcceptFails(c) \/ GetHub(c) \/ Register(c)
    \/ \E h \in Hubs : CreateHub(c, h)
    \/ c \notin pages /\ ReadFails(c)
    \/ Unregister(c) \/ OnEmpty(c)

Fairness ==
    /\ \A c \in Conns :
        /\ WF_vars(HandlerStep(c))
        /\ WF_vars(Deliver(c) \/ SendFails(c))
    /\ \A h \in Hubs :
        /\ WF_vars(WatcherEvent(h))
        /\ WF_vars(~event[h] /\ TimerFires(h))
        /\ WF_vars(WatcherBroadcast(h))
        /\ WF_vars(WatcherStops(h))

FairSpec == Spec /\ Fairness

(***************************************************************************)
(* Properties.                                                             *)
(***************************************************************************)

\* A watcher that has not been told to stop works for a connection: one that
\* is about to register with its hub, is registered, or is about to run
\* onEmpty.  However connects, disconnects and onEmpty calls interleave, no
\* watcher is left running for nobody (Unregister and onEmpty of hub.go).
NoWatcherLeak ==
    \A h \in Hubs : watcher[h] = "running" => \E c \in Conns : hub[c] = h

\* A file change made while a client is attached stays on its way to that
\* client as an event, a running timer, a fired timer or a pending Send,
\* until it is sent or the client stops being attached: resetting the timer,
\* overlapping broadcasts and other clients coming and going lose nothing
\* (WatchDir's loop, Broadcast's copy of the client set).
NoLostReload ==
    \A c \in owed :
        Attached(c) => \/ event[hub[c]] \/ timer[hub[c]] \/ notifying[hub[c]]
                       \/ c \in sending

\* The inductive invariant behind NoWatcherLeak and NoLostReload: the client
\* sets agree with what the connections hold, hubs are used for the session
\* they were created for, a running watcher belongs to its session's entry,
\* and an entry's hub has a registered connection, one about to register, or
\* one about to call onEmpty.
ClientsHoldTheirHub ==
    \A c \in Conns : \A h \in Hubs :
        c \in clients[h] <=> hub[c] = h /\ pc[c] \in {"open", "closing"}

HubsKeepTheirSession ==
    /\ \A c \in Conns : hub[c] # NoHub => dir[hub[c]] = sid[c]
    /\ \A s \in Sessions : entry[s] # NoHub => dir[entry[s]] = s

RunningWatcherHasEntry ==
    \A h \in Hubs : watcher[h] = "running" => entry[dir[h]] = h

EntryIsServed ==
    \A s \in Sessions : entry[s] # NoHub => \E c \in Conns : hub[c] = entry[s]

IInv ==
    /\ TypeOK
    /\ ClientsHoldTheirHub
    /\ HubsKeepTheirSession
    /\ RunningWatcherHasEntry
    /\ EntryIsServed
    /\ NoLostReload

\* Every open page is registered with the hub BroadcastTo and the session's
\* watcher find for its session: the spec's "send ... to all connected
\* WebSocket clients of that session".  It fails in the code: Unregister
\* calls onEmpty after unlocking, and onEmpty removes the entry by session.
EveryClientReachable ==
    \A c \in pages :
        pc[c] = "open" =>
            /\ entry[sid[c]] # NoHub
            /\ c \in clients[entry[sid[c]]]

\* Unless file events never cease, a change made while a client is attached is
\* followed by a reload of that client, or the client stops being attached
\* (its connection ends, its watcher dies or its entry is removed).
AttachedChangeReloads ==
    <>[](\A h \in Hubs : ~event[h]) =>
        \A c \in Conns : c \in owed ~> (c \notin owed \/ ~Attached(c))

\* When every page has gone for good, every watcher goroutine ends: the
\* spec's "last WebSocket client disconnects ... stop the file watcher".
QuietServerStopsWatchers ==
    <>[](pages = {}) =>
        <>[](\A h \in Hubs : watcher[h] = "none")

===============================================================================
