--------------------------- MODULE LiveReloadProofs ---------------------------
(***************************************************************************)
(* Proofs about LiveReload for every set of sessions, connections and hubs *)
(* and every choice of faults: the inductive invariant IInv holds, and     *)
(* with it no watcher leaks and no reload owed to an attached client is    *)
(* lost.                                                                   *)
(***************************************************************************)
EXTENDS LiveReload, TLAPS

\* The invariant holds on a server no page has connected to.
LEMMA InitInv == Init => IInv
  BY NoHubAssumption DEF Init, IInv, TypeOK, ClientsHoldTheirHub,
       HubsKeepTheirSession, RunningWatcherHasEntry, EntryIsServed,
       NoLostReload, HoldsHub, ConnPC, Attached

\* A change in a directory leaves events and owed reloads well typed.
LEMMA FilesChangeTyped ==
    ASSUME TypeOK, NEW s \in Sessions, FilesChange(s)
    PROVE  /\ event' \in [Hubs -> BOOLEAN]
           /\ owed' \in SUBSET {c \in Conns : pc[c] = "open"}
           /\ pages' = pages
  BY DEF TypeOK, FilesChange, Attached

\* Every variable keeps its type.
LEMMA TypeStep == IInv /\ [Next]_vars => TypeOK'
<1> SUFFICES ASSUME IInv, [Next]_vars PROVE TypeOK'
  OBVIOUS
<1> USE NoHubAssumption DEF vars, managerVars, watchVars, connVars, pageVars, updVars, HoldsHub
<1>1. ASSUME NEW c \in Conns, Accept(c) PROVE TypeOK'
  BY <1>1 DEF Accept, IInv, TypeOK, ConnPC
<1>2. ASSUME NEW c \in Conns, AcceptFails(c) PROVE TypeOK'
  BY <1>2 DEF AcceptFails, IInv, TypeOK, ConnPC
<1>3. ASSUME NEW c \in Conns, GetHub(c) PROVE TypeOK'
  BY <1>3 DEF GetHub, IInv, TypeOK, ConnPC
<1>4. ASSUME NEW c \in Conns, NEW h \in Hubs, CreateHub(c, h) PROVE TypeOK'
  BY <1>4 DEF CreateHub, IInv, TypeOK, ConnPC
<1>5. ASSUME NEW c \in Conns, Register(c) PROVE TypeOK'
  BY <1>5 DEF Register, IInv, TypeOK, ConnPC
<1>6. ASSUME NEW c \in Conns, ReadFails(c) PROVE TypeOK'
  BY <1>6 DEF ReadFails, IInv, TypeOK, ConnPC
<1>7. ASSUME NEW c \in Conns, Unregister(c) PROVE TypeOK'
  BY <1>7 DEF Unregister, IInv, TypeOK, ConnPC
<1>8. ASSUME NEW c \in Conns, OnEmpty(c) PROVE TypeOK'
  BY <1>8 DEF OnEmpty, IInv, TypeOK, ConnPC
<1>9. ASSUME NEW c \in Conns, NEW s \in Sessions, LoadPage(c, s) PROVE TypeOK'
  BY <1>9 DEF LoadPage, IInv, TypeOK, ConnPC
<1>10. ASSUME NEW c \in Conns, NEW d \in Conns, Redial(c, d) PROVE TypeOK'
  BY <1>10 DEF Redial, IInv, TypeOK, ConnPC
<1>11. ASSUME NEW c \in Conns, Leave(c) PROVE TypeOK'
  BY <1>11 DEF Leave, IInv, TypeOK, ConnPC
<1>12. ASSUME NEW c \in Conns, Deliver(c) PROVE TypeOK'
  BY <1>12 DEF Deliver, IInv, TypeOK, ConnPC
<1>13. ASSUME NEW c \in Conns, SendFails(c) PROVE TypeOK'
  BY <1>13 DEF SendFails, IInv, TypeOK, ConnPC
<1>14. ASSUME NEW h \in Hubs, WatcherEvent(h) PROVE TypeOK'
  BY <1>14 DEF WatcherEvent, IInv, TypeOK, ConnPC
<1>15. ASSUME NEW h \in Hubs, TimerFires(h) PROVE TypeOK'
  BY <1>15 DEF TimerFires, IInv, TypeOK, ConnPC
<1>16. ASSUME NEW h \in Hubs, WatcherBroadcast(h) PROVE TypeOK'
  BY <1>16 DEF WatcherBroadcast, IInv, TypeOK, ConnPC
<1>17. ASSUME NEW h \in Hubs, WatcherStops(h) PROVE TypeOK'
  BY <1>17 DEF WatcherStops, IInv, TypeOK, ConnPC
<1>18. ASSUME NEW h \in Hubs, WatcherDies(h) PROVE TypeOK'
  BY <1>18 DEF WatcherDies, IInv, TypeOK, ConnPC
<1>19. ASSUME NEW s \in Sessions, EditFile(s) PROVE TypeOK'
  BY <1>19, FilesChangeTyped DEF EditFile, IInv, TypeOK, ConnPC
<1>20. ASSUME NEW s \in Sessions, UpdateWrites(s) PROVE TypeOK'
  BY <1>20, FilesChangeTyped DEF UpdateWrites, IInv, TypeOK, ConnPC
<1>21. ASSUME NEW s \in Sessions, UpdateFails(s) PROVE TypeOK'
  BY <1>21 DEF UpdateFails, IInv, TypeOK, ConnPC
<1>22. ASSUME NEW s \in Sessions, UpdateFindsNoHub(s) PROVE TypeOK'
  BY <1>22 DEF UpdateFindsNoHub, IInv, TypeOK, ConnPC
<1>23. ASSUME NEW s \in Sessions, UpdateFindsHub(s) PROVE TypeOK'
  BY <1>23 DEF UpdateFindsHub, IInv, TypeOK, ConnPC
<1>24. ASSUME NEW s \in Sessions, UpdateBroadcast(s) PROVE TypeOK'
  BY <1>24 DEF UpdateBroadcast, IInv, TypeOK, ConnPC
<1>25. CASE UNCHANGED vars
  BY <1>25 DEF IInv, TypeOK, ConnPC
<1> QED
  BY <1>1, <1>2, <1>3, <1>4, <1>5, <1>6, <1>7, <1>8, <1>9, <1>10, <1>11,
       <1>12, <1>13, <1>14, <1>15, <1>16, <1>17, <1>18, <1>19, <1>20, <1>21,
       <1>22, <1>23, <1>24, <1>25 DEF Next, ConnStep, BrowserStep,
       WatcherStep, SessionStep

\* Only Register and Unregister change a client set, and both say so in pc.
LEMMA ClientsStep == IInv /\ [Next]_vars => ClientsHoldTheirHub'
<1> SUFFICES ASSUME IInv, [Next]_vars PROVE ClientsHoldTheirHub'
  OBVIOUS
<1> USE NoHubAssumption DEF vars, managerVars, watchVars, connVars, pageVars, updVars, HoldsHub
<1>1. ASSUME NEW c \in Conns, Accept(c) PROVE ClientsHoldTheirHub'
  BY <1>1 DEF Accept, IInv, TypeOK, ClientsHoldTheirHub
<1>2. ASSUME NEW c \in Conns, AcceptFails(c) PROVE ClientsHoldTheirHub'
  BY <1>2 DEF AcceptFails, IInv, TypeOK, ClientsHoldTheirHub
<1>3. ASSUME NEW c \in Conns, GetHub(c) PROVE ClientsHoldTheirHub'
  BY <1>3 DEF GetHub, IInv, TypeOK, ClientsHoldTheirHub
<1>4. ASSUME NEW c \in Conns, NEW h \in Hubs, CreateHub(c, h) PROVE ClientsHoldTheirHub'
  BY <1>4 DEF CreateHub, IInv, TypeOK, ClientsHoldTheirHub, Unreferenced
<1>5. ASSUME NEW c \in Conns, Register(c) PROVE ClientsHoldTheirHub'
  BY <1>5 DEF Register, IInv, TypeOK, ClientsHoldTheirHub
<1>6. ASSUME NEW c \in Conns, ReadFails(c) PROVE ClientsHoldTheirHub'
  BY <1>6 DEF ReadFails, IInv, TypeOK, ClientsHoldTheirHub
<1>7. ASSUME NEW c \in Conns, Unregister(c) PROVE ClientsHoldTheirHub'
  BY <1>7 DEF Unregister, IInv, TypeOK, ClientsHoldTheirHub
<1>8. ASSUME NEW c \in Conns, OnEmpty(c) PROVE ClientsHoldTheirHub'
  BY <1>8 DEF OnEmpty, IInv, TypeOK, ClientsHoldTheirHub
<1>9. ASSUME NEW c \in Conns, NEW s \in Sessions, LoadPage(c, s) PROVE ClientsHoldTheirHub'
  BY <1>9 DEF LoadPage, IInv, TypeOK, ClientsHoldTheirHub
<1>10. ASSUME NEW c \in Conns, NEW d \in Conns, Redial(c, d) PROVE ClientsHoldTheirHub'
  BY <1>10 DEF Redial, IInv, TypeOK, ClientsHoldTheirHub
<1>11. ASSUME NEW c \in Conns, Leave(c) PROVE ClientsHoldTheirHub'
  BY <1>11 DEF Leave, IInv, TypeOK, ClientsHoldTheirHub
<1>12. ASSUME NEW c \in Conns, Deliver(c) PROVE ClientsHoldTheirHub'
  BY <1>12 DEF Deliver, IInv, TypeOK, ClientsHoldTheirHub
<1>13. ASSUME NEW c \in Conns, SendFails(c) PROVE ClientsHoldTheirHub'
  BY <1>13 DEF SendFails, IInv, TypeOK, ClientsHoldTheirHub
<1>14. ASSUME NEW h \in Hubs, WatcherEvent(h) PROVE ClientsHoldTheirHub'
  BY <1>14 DEF WatcherEvent, IInv, TypeOK, ClientsHoldTheirHub
<1>15. ASSUME NEW h \in Hubs, TimerFires(h) PROVE ClientsHoldTheirHub'
  BY <1>15 DEF TimerFires, IInv, TypeOK, ClientsHoldTheirHub
<1>16. ASSUME NEW h \in Hubs, WatcherBroadcast(h) PROVE ClientsHoldTheirHub'
  BY <1>16 DEF WatcherBroadcast, IInv, TypeOK, ClientsHoldTheirHub
<1>17. ASSUME NEW h \in Hubs, WatcherStops(h) PROVE ClientsHoldTheirHub'
  BY <1>17 DEF WatcherStops, IInv, TypeOK, ClientsHoldTheirHub
<1>18. ASSUME NEW h \in Hubs, WatcherDies(h) PROVE ClientsHoldTheirHub'
  BY <1>18 DEF WatcherDies, IInv, TypeOK, ClientsHoldTheirHub
<1>19. ASSUME NEW s \in Sessions, EditFile(s) PROVE ClientsHoldTheirHub'
  BY <1>19 DEF EditFile, IInv, TypeOK, ClientsHoldTheirHub, FilesChange
<1>20. ASSUME NEW s \in Sessions, UpdateWrites(s) PROVE ClientsHoldTheirHub'
  BY <1>20 DEF UpdateWrites, IInv, TypeOK, ClientsHoldTheirHub, FilesChange
<1>21. ASSUME NEW s \in Sessions, UpdateFails(s) PROVE ClientsHoldTheirHub'
  BY <1>21 DEF UpdateFails, IInv, TypeOK, ClientsHoldTheirHub
<1>22. ASSUME NEW s \in Sessions, UpdateFindsNoHub(s) PROVE ClientsHoldTheirHub'
  BY <1>22 DEF UpdateFindsNoHub, IInv, TypeOK, ClientsHoldTheirHub
<1>23. ASSUME NEW s \in Sessions, UpdateFindsHub(s) PROVE ClientsHoldTheirHub'
  BY <1>23 DEF UpdateFindsHub, IInv, TypeOK, ClientsHoldTheirHub
<1>24. ASSUME NEW s \in Sessions, UpdateBroadcast(s) PROVE ClientsHoldTheirHub'
  BY <1>24 DEF UpdateBroadcast, IInv, TypeOK, ClientsHoldTheirHub
<1>25. CASE UNCHANGED vars
  BY <1>25 DEF IInv, TypeOK, ClientsHoldTheirHub
<1> QED
  BY <1>1, <1>2, <1>3, <1>4, <1>5, <1>6, <1>7, <1>8, <1>9, <1>10, <1>11,
       <1>12, <1>13, <1>14, <1>15, <1>16, <1>17, <1>18, <1>19, <1>20, <1>21,
       <1>22, <1>23, <1>24, <1>25 DEF Next, ConnStep, BrowserStep,
       WatcherStep, SessionStep

\* A hub in use keeps the session it was created for.
LEMMA SessionsStep == IInv /\ [Next]_vars => HubsKeepTheirSession'
<1> SUFFICES ASSUME IInv, [Next]_vars PROVE HubsKeepTheirSession'
  OBVIOUS
<1> USE NoHubAssumption DEF vars, managerVars, watchVars, connVars, pageVars, updVars, HoldsHub
<1>1. ASSUME NEW c \in Conns, Accept(c) PROVE HubsKeepTheirSession'
  BY <1>1 DEF Accept, IInv, TypeOK, HubsKeepTheirSession
<1>2. ASSUME NEW c \in Conns, AcceptFails(c) PROVE HubsKeepTheirSession'
  BY <1>2 DEF AcceptFails, IInv, TypeOK, HubsKeepTheirSession
<1>3. ASSUME NEW c \in Conns, GetHub(c) PROVE HubsKeepTheirSession'
  BY <1>3 DEF GetHub, IInv, TypeOK, HubsKeepTheirSession
<1>4. ASSUME NEW c \in Conns, NEW h \in Hubs, CreateHub(c, h) PROVE HubsKeepTheirSession'
  BY <1>4 DEF CreateHub, IInv, TypeOK, HubsKeepTheirSession, Unreferenced
<1>5. ASSUME NEW c \in Conns, Register(c) PROVE HubsKeepTheirSession'
  BY <1>5 DEF Register, IInv, TypeOK, HubsKeepTheirSession
<1>6. ASSUME NEW c \in Conns, ReadFails(c) PROVE HubsKeepTheirSession'
  BY <1>6 DEF ReadFails, IInv, TypeOK, HubsKeepTheirSession
<1>7. ASSUME NEW c \in Conns, Unregister(c) PROVE HubsKeepTheirSession'
  BY <1>7 DEF Unregister, IInv, TypeOK, HubsKeepTheirSession
<1>8. ASSUME NEW c \in Conns, OnEmpty(c) PROVE HubsKeepTheirSession'
  BY <1>8 DEF OnEmpty, IInv, TypeOK, HubsKeepTheirSession
<1>9. ASSUME NEW c \in Conns, NEW s \in Sessions, LoadPage(c, s) PROVE HubsKeepTheirSession'
  BY <1>9 DEF LoadPage, IInv, TypeOK, HubsKeepTheirSession
<1>10. ASSUME NEW c \in Conns, NEW d \in Conns, Redial(c, d) PROVE HubsKeepTheirSession'
  BY <1>10 DEF Redial, IInv, TypeOK, HubsKeepTheirSession
<1>11. ASSUME NEW c \in Conns, Leave(c) PROVE HubsKeepTheirSession'
  BY <1>11 DEF Leave, IInv, TypeOK, HubsKeepTheirSession
<1>12. ASSUME NEW c \in Conns, Deliver(c) PROVE HubsKeepTheirSession'
  BY <1>12 DEF Deliver, IInv, TypeOK, HubsKeepTheirSession
<1>13. ASSUME NEW c \in Conns, SendFails(c) PROVE HubsKeepTheirSession'
  BY <1>13 DEF SendFails, IInv, TypeOK, HubsKeepTheirSession
<1>14. ASSUME NEW h \in Hubs, WatcherEvent(h) PROVE HubsKeepTheirSession'
  BY <1>14 DEF WatcherEvent, IInv, TypeOK, HubsKeepTheirSession
<1>15. ASSUME NEW h \in Hubs, TimerFires(h) PROVE HubsKeepTheirSession'
  BY <1>15 DEF TimerFires, IInv, TypeOK, HubsKeepTheirSession
<1>16. ASSUME NEW h \in Hubs, WatcherBroadcast(h) PROVE HubsKeepTheirSession'
  BY <1>16 DEF WatcherBroadcast, IInv, TypeOK, HubsKeepTheirSession
<1>17. ASSUME NEW h \in Hubs, WatcherStops(h) PROVE HubsKeepTheirSession'
  BY <1>17 DEF WatcherStops, IInv, TypeOK, HubsKeepTheirSession
<1>18. ASSUME NEW h \in Hubs, WatcherDies(h) PROVE HubsKeepTheirSession'
  BY <1>18 DEF WatcherDies, IInv, TypeOK, HubsKeepTheirSession
<1>19. ASSUME NEW s \in Sessions, EditFile(s) PROVE HubsKeepTheirSession'
  BY <1>19 DEF EditFile, IInv, TypeOK, HubsKeepTheirSession, FilesChange
<1>20. ASSUME NEW s \in Sessions, UpdateWrites(s) PROVE HubsKeepTheirSession'
  BY <1>20 DEF UpdateWrites, IInv, TypeOK, HubsKeepTheirSession, FilesChange
<1>21. ASSUME NEW s \in Sessions, UpdateFails(s) PROVE HubsKeepTheirSession'
  BY <1>21 DEF UpdateFails, IInv, TypeOK, HubsKeepTheirSession
<1>22. ASSUME NEW s \in Sessions, UpdateFindsNoHub(s) PROVE HubsKeepTheirSession'
  BY <1>22 DEF UpdateFindsNoHub, IInv, TypeOK, HubsKeepTheirSession
<1>23. ASSUME NEW s \in Sessions, UpdateFindsHub(s) PROVE HubsKeepTheirSession'
  BY <1>23 DEF UpdateFindsHub, IInv, TypeOK, HubsKeepTheirSession
<1>24. ASSUME NEW s \in Sessions, UpdateBroadcast(s) PROVE HubsKeepTheirSession'
  BY <1>24 DEF UpdateBroadcast, IInv, TypeOK, HubsKeepTheirSession
<1>25. CASE UNCHANGED vars
  BY <1>25 DEF IInv, TypeOK, HubsKeepTheirSession
<1> QED
  BY <1>1, <1>2, <1>3, <1>4, <1>5, <1>6, <1>7, <1>8, <1>9, <1>10, <1>11,
       <1>12, <1>13, <1>14, <1>15, <1>16, <1>17, <1>18, <1>19, <1>20, <1>21,
       <1>22, <1>23, <1>24, <1>25 DEF Next, ConnStep, BrowserStep,
       WatcherStep, SessionStep

\* A running watcher loses its entry only together with its cancellation.
LEMMA WatcherEntryStep == IInv /\ [Next]_vars => RunningWatcherHasEntry'
<1> SUFFICES ASSUME IInv, [Next]_vars PROVE RunningWatcherHasEntry'
  OBVIOUS
<1> USE NoHubAssumption DEF vars, managerVars, watchVars, connVars, pageVars, updVars, HoldsHub
<1>1. ASSUME NEW c \in Conns, Accept(c) PROVE RunningWatcherHasEntry'
  BY <1>1 DEF Accept, IInv, TypeOK, HubsKeepTheirSession,
       RunningWatcherHasEntry
<1>2. ASSUME NEW c \in Conns, AcceptFails(c) PROVE RunningWatcherHasEntry'
  BY <1>2 DEF AcceptFails, IInv, TypeOK, HubsKeepTheirSession,
       RunningWatcherHasEntry
<1>3. ASSUME NEW c \in Conns, GetHub(c) PROVE RunningWatcherHasEntry'
  BY <1>3 DEF GetHub, IInv, TypeOK, HubsKeepTheirSession,
       RunningWatcherHasEntry
<1>4. ASSUME NEW c \in Conns, NEW h \in Hubs, CreateHub(c, h) PROVE RunningWatcherHasEntry'
  BY <1>4 DEF CreateHub, IInv, TypeOK, HubsKeepTheirSession,
       RunningWatcherHasEntry, Unreferenced
<1>5. ASSUME NEW c \in Conns, Register(c) PROVE RunningWatcherHasEntry'
  BY <1>5 DEF Register, IInv, TypeOK, HubsKeepTheirSession,
       RunningWatcherHasEntry
<1>6. ASSUME NEW c \in Conns, ReadFails(c) PROVE RunningWatcherHasEntry'
  BY <1>6 DEF ReadFails, IInv, TypeOK, HubsKeepTheirSession,
       RunningWatcherHasEntry
<1>7. ASSUME NEW c \in Conns, Unregister(c) PROVE RunningWatcherHasEntry'
  BY <1>7 DEF Unregister, IInv, TypeOK, HubsKeepTheirSession,
       RunningWatcherHasEntry
<1>8. ASSUME NEW c \in Conns, OnEmpty(c) PROVE RunningWatcherHasEntry'
  BY <1>8 DEF OnEmpty, IInv, TypeOK, HubsKeepTheirSession,
       RunningWatcherHasEntry
<1>9. ASSUME NEW c \in Conns, NEW s \in Sessions, LoadPage(c, s) PROVE RunningWatcherHasEntry'
  BY <1>9 DEF LoadPage, IInv, TypeOK, HubsKeepTheirSession,
       RunningWatcherHasEntry
<1>10. ASSUME NEW c \in Conns, NEW d \in Conns, Redial(c, d) PROVE RunningWatcherHasEntry'
  BY <1>10 DEF Redial, IInv, TypeOK, HubsKeepTheirSession,
       RunningWatcherHasEntry
<1>11. ASSUME NEW c \in Conns, Leave(c) PROVE RunningWatcherHasEntry'
  BY <1>11 DEF Leave, IInv, TypeOK, HubsKeepTheirSession,
       RunningWatcherHasEntry
<1>12. ASSUME NEW c \in Conns, Deliver(c) PROVE RunningWatcherHasEntry'
  BY <1>12 DEF Deliver, IInv, TypeOK, HubsKeepTheirSession,
       RunningWatcherHasEntry
<1>13. ASSUME NEW c \in Conns, SendFails(c) PROVE RunningWatcherHasEntry'
  BY <1>13 DEF SendFails, IInv, TypeOK, HubsKeepTheirSession,
       RunningWatcherHasEntry
<1>14. ASSUME NEW h \in Hubs, WatcherEvent(h) PROVE RunningWatcherHasEntry'
  BY <1>14 DEF WatcherEvent, IInv, TypeOK, HubsKeepTheirSession,
       RunningWatcherHasEntry
<1>15. ASSUME NEW h \in Hubs, TimerFires(h) PROVE RunningWatcherHasEntry'
  BY <1>15 DEF TimerFires, IInv, TypeOK, HubsKeepTheirSession,
       RunningWatcherHasEntry
<1>16. ASSUME NEW h \in Hubs, WatcherBroadcast(h) PROVE RunningWatcherHasEntry'
  BY <1>16 DEF WatcherBroadcast, IInv, TypeOK, HubsKeepTheirSession,
       RunningWatcherHasEntry
<1>17. ASSUME NEW h \in Hubs, WatcherStops(h) PROVE RunningWatcherHasEntry'
  BY <1>17 DEF WatcherStops, IInv, TypeOK, HubsKeepTheirSession,
       RunningWatcherHasEntry
<1>18. ASSUME NEW h \in Hubs, WatcherDies(h) PROVE RunningWatcherHasEntry'
  BY <1>18 DEF WatcherDies, IInv, TypeOK, HubsKeepTheirSession,
       RunningWatcherHasEntry
<1>19. ASSUME NEW s \in Sessions, EditFile(s) PROVE RunningWatcherHasEntry'
  BY <1>19 DEF EditFile, IInv, TypeOK, HubsKeepTheirSession,
       RunningWatcherHasEntry, FilesChange
<1>20. ASSUME NEW s \in Sessions, UpdateWrites(s) PROVE RunningWatcherHasEntry'
  BY <1>20 DEF UpdateWrites, IInv, TypeOK, HubsKeepTheirSession,
       RunningWatcherHasEntry, FilesChange
<1>21. ASSUME NEW s \in Sessions, UpdateFails(s) PROVE RunningWatcherHasEntry'
  BY <1>21 DEF UpdateFails, IInv, TypeOK, HubsKeepTheirSession,
       RunningWatcherHasEntry
<1>22. ASSUME NEW s \in Sessions, UpdateFindsNoHub(s) PROVE RunningWatcherHasEntry'
  BY <1>22 DEF UpdateFindsNoHub, IInv, TypeOK, HubsKeepTheirSession,
       RunningWatcherHasEntry
<1>23. ASSUME NEW s \in Sessions, UpdateFindsHub(s) PROVE RunningWatcherHasEntry'
  BY <1>23 DEF UpdateFindsHub, IInv, TypeOK, HubsKeepTheirSession,
       RunningWatcherHasEntry
<1>24. ASSUME NEW s \in Sessions, UpdateBroadcast(s) PROVE RunningWatcherHasEntry'
  BY <1>24 DEF UpdateBroadcast, IInv, TypeOK, HubsKeepTheirSession,
       RunningWatcherHasEntry
<1>25. CASE UNCHANGED vars
  BY <1>25 DEF IInv, TypeOK, HubsKeepTheirSession, RunningWatcherHasEntry
<1> QED
  BY <1>1, <1>2, <1>3, <1>4, <1>5, <1>6, <1>7, <1>8, <1>9, <1>10, <1>11,
       <1>12, <1>13, <1>14, <1>15, <1>16, <1>17, <1>18, <1>19, <1>20, <1>21,
       <1>22, <1>23, <1>24, <1>25 DEF Next, ConnStep, BrowserStep,
       WatcherStep, SessionStep

\* An entry appears with a connection that holds its hub, and the last one to
\* let go of it goes through OnEmpty.
LEMMA ServedStep == IInv /\ [Next]_vars => EntryIsServed'
<1> SUFFICES ASSUME IInv, [Next]_vars PROVE EntryIsServed'
  OBVIOUS
<1> USE NoHubAssumption DEF vars, managerVars, watchVars, connVars, pageVars, updVars, HoldsHub
<1>1. ASSUME NEW c \in Conns, Accept(c) PROVE EntryIsServed'
  BY <1>1 DEF Accept, IInv, TypeOK, ClientsHoldTheirHub, HubsKeepTheirSession,
       EntryIsServed
<1>2. ASSUME NEW c \in Conns, AcceptFails(c) PROVE EntryIsServed'
  BY <1>2 DEF AcceptFails, IInv, TypeOK, ClientsHoldTheirHub,
       HubsKeepTheirSession, EntryIsServed
<1>3. ASSUME NEW c \in Conns, GetHub(c) PROVE EntryIsServed'
  BY <1>3 DEF GetHub, IInv, TypeOK, ClientsHoldTheirHub, HubsKeepTheirSession,
       EntryIsServed
<1>4. ASSUME NEW c \in Conns, NEW h \in Hubs, CreateHub(c, h) PROVE EntryIsServed'
  BY <1>4 DEF CreateHub, IInv, TypeOK, ClientsHoldTheirHub,
       HubsKeepTheirSession, EntryIsServed, Unreferenced
<1>5. ASSUME NEW c \in Conns, Register(c) PROVE EntryIsServed'
  BY <1>5 DEF Register, IInv, TypeOK, ClientsHoldTheirHub,
       HubsKeepTheirSession, EntryIsServed
<1>6. ASSUME NEW c \in Conns, ReadFails(c) PROVE EntryIsServed'
  BY <1>6 DEF ReadFails, IInv, TypeOK, ClientsHoldTheirHub,
       HubsKeepTheirSession, EntryIsServed
<1>7. ASSUME NEW c \in Conns, Unregister(c) PROVE EntryIsServed'
  BY <1>7 DEF Unregister, IInv, TypeOK, ClientsHoldTheirHub,
       HubsKeepTheirSession, EntryIsServed
<1>8. ASSUME NEW c \in Conns, OnEmpty(c) PROVE EntryIsServed'
  BY <1>8 DEF OnEmpty, IInv, TypeOK, ClientsHoldTheirHub,
       HubsKeepTheirSession, EntryIsServed
<1>9. ASSUME NEW c \in Conns, NEW s \in Sessions, LoadPage(c, s) PROVE EntryIsServed'
  BY <1>9 DEF LoadPage, IInv, TypeOK, ClientsHoldTheirHub,
       HubsKeepTheirSession, EntryIsServed
<1>10. ASSUME NEW c \in Conns, NEW d \in Conns, Redial(c, d) PROVE EntryIsServed'
  BY <1>10 DEF Redial, IInv, TypeOK, ClientsHoldTheirHub,
       HubsKeepTheirSession, EntryIsServed
<1>11. ASSUME NEW c \in Conns, Leave(c) PROVE EntryIsServed'
  BY <1>11 DEF Leave, IInv, TypeOK, ClientsHoldTheirHub, HubsKeepTheirSession,
       EntryIsServed
<1>12. ASSUME NEW c \in Conns, Deliver(c) PROVE EntryIsServed'
  BY <1>12 DEF Deliver, IInv, TypeOK, ClientsHoldTheirHub,
       HubsKeepTheirSession, EntryIsServed
<1>13. ASSUME NEW c \in Conns, SendFails(c) PROVE EntryIsServed'
  BY <1>13 DEF SendFails, IInv, TypeOK, ClientsHoldTheirHub,
       HubsKeepTheirSession, EntryIsServed
<1>14. ASSUME NEW h \in Hubs, WatcherEvent(h) PROVE EntryIsServed'
  BY <1>14 DEF WatcherEvent, IInv, TypeOK, ClientsHoldTheirHub,
       HubsKeepTheirSession, EntryIsServed
<1>15. ASSUME NEW h \in Hubs, TimerFires(h) PROVE EntryIsServed'
  BY <1>15 DEF TimerFires, IInv, TypeOK, ClientsHoldTheirHub,
       HubsKeepTheirSession, EntryIsServed
<1>16. ASSUME NEW h \in Hubs, WatcherBroadcast(h) PROVE EntryIsServed'
  BY <1>16 DEF WatcherBroadcast, IInv, TypeOK, ClientsHoldTheirHub,
       HubsKeepTheirSession, EntryIsServed
<1>17. ASSUME NEW h \in Hubs, WatcherStops(h) PROVE EntryIsServed'
  BY <1>17 DEF WatcherStops, IInv, TypeOK, ClientsHoldTheirHub,
       HubsKeepTheirSession, EntryIsServed
<1>18. ASSUME NEW h \in Hubs, WatcherDies(h) PROVE EntryIsServed'
  BY <1>18 DEF WatcherDies, IInv, TypeOK, ClientsHoldTheirHub,
       HubsKeepTheirSession, EntryIsServed
<1>19. ASSUME NEW s \in Sessions, EditFile(s) PROVE EntryIsServed'
  BY <1>19 DEF EditFile, IInv, TypeOK, ClientsHoldTheirHub,
       HubsKeepTheirSession, EntryIsServed, FilesChange
<1>20. ASSUME NEW s \in Sessions, UpdateWrites(s) PROVE EntryIsServed'
  BY <1>20 DEF UpdateWrites, IInv, TypeOK, ClientsHoldTheirHub,
       HubsKeepTheirSession, EntryIsServed, FilesChange
<1>21. ASSUME NEW s \in Sessions, UpdateFails(s) PROVE EntryIsServed'
  BY <1>21 DEF UpdateFails, IInv, TypeOK, ClientsHoldTheirHub,
       HubsKeepTheirSession, EntryIsServed
<1>22. ASSUME NEW s \in Sessions, UpdateFindsNoHub(s) PROVE EntryIsServed'
  BY <1>22 DEF UpdateFindsNoHub, IInv, TypeOK, ClientsHoldTheirHub,
       HubsKeepTheirSession, EntryIsServed
<1>23. ASSUME NEW s \in Sessions, UpdateFindsHub(s) PROVE EntryIsServed'
  BY <1>23 DEF UpdateFindsHub, IInv, TypeOK, ClientsHoldTheirHub,
       HubsKeepTheirSession, EntryIsServed
<1>24. ASSUME NEW s \in Sessions, UpdateBroadcast(s) PROVE EntryIsServed'
  BY <1>24 DEF UpdateBroadcast, IInv, TypeOK, ClientsHoldTheirHub,
       HubsKeepTheirSession, EntryIsServed
<1>25. CASE UNCHANGED vars
  BY <1>25 DEF IInv, TypeOK, ClientsHoldTheirHub, HubsKeepTheirSession,
       EntryIsServed
<1> QED
  BY <1>1, <1>2, <1>3, <1>4, <1>5, <1>6, <1>7, <1>8, <1>9, <1>10, <1>11,
       <1>12, <1>13, <1>14, <1>15, <1>16, <1>17, <1>18, <1>19, <1>20, <1>21,
       <1>22, <1>23, <1>24, <1>25 DEF Next, ConnStep, BrowserStep,
       WatcherStep, SessionStep

\* A change in a directory leaves every attached client that is owed a reload
\* with the change on its way.
LEMMA FilesChangeOwed ==
    ASSUME IInv, NEW s \in Sessions, FilesChange(s),
           UNCHANGED <<managerVars, connVars, watcher, timer, notifying,
       sending>>
    PROVE  NoLostReload'
<1> USE NoHubAssumption DEF managerVars, connVars, HoldsHub
<1> SUFFICES ASSUME NEW c \in owed', Attached(c)'
             PROVE  event'[hub[c]] \/ timer[hub[c]] \/ notifying[hub[c]] \/ c
       \in sending
  BY DEF NoLostReload
<1>1. c \in Conns /\ pc[c] = "open" /\ hub[c] \in Hubs /\ Attached(c)
  BY DEF FilesChange, IInv, TypeOK, Attached
<1>2. CASE c \in owed
  BY <1>1, <1>2 DEF FilesChange, IInv, TypeOK, NoLostReload
<1>3. CASE c \notin owed
  <2>1. sid[c] = s
    BY <1>3 DEF FilesChange
  <2>2. watcher[hub[c]] = "running" /\ dir[hub[c]] = s
    BY <1>1, <2>1 DEF Attached, IInv, TypeOK, HubsKeepTheirSession
  <2> QED
    BY <1>1, <2>2 DEF FilesChange
<1> QED
  BY <1>2, <1>3

\* A change on its way to a client is handed on from event to timer to send.
LEMMA OwedStep == IInv /\ [Next]_vars => NoLostReload'
<1> SUFFICES ASSUME IInv, [Next]_vars PROVE NoLostReload'
  OBVIOUS
<1> USE NoHubAssumption DEF vars, managerVars, watchVars, connVars, pageVars, updVars, HoldsHub
<1>1. ASSUME NEW c \in Conns, Accept(c) PROVE NoLostReload'
  BY <1>1 DEF Accept, IInv, TypeOK, ClientsHoldTheirHub, HubsKeepTheirSession,
       NoLostReload, Attached
<1>2. ASSUME NEW c \in Conns, AcceptFails(c) PROVE NoLostReload'
  BY <1>2 DEF AcceptFails, IInv, TypeOK, ClientsHoldTheirHub,
       HubsKeepTheirSession, NoLostReload, Attached
<1>3. ASSUME NEW c \in Conns, GetHub(c) PROVE NoLostReload'
  BY <1>3 DEF GetHub, IInv, TypeOK, ClientsHoldTheirHub, HubsKeepTheirSession,
       NoLostReload, Attached
<1>4. ASSUME NEW c \in Conns, NEW h \in Hubs, CreateHub(c, h) PROVE NoLostReload'
  BY <1>4 DEF CreateHub, IInv, TypeOK, ClientsHoldTheirHub,
       HubsKeepTheirSession, NoLostReload, Attached, Unreferenced
<1>5. ASSUME NEW c \in Conns, Register(c) PROVE NoLostReload'
  BY <1>5 DEF Register, IInv, TypeOK, ClientsHoldTheirHub,
       HubsKeepTheirSession, NoLostReload, Attached
<1>6. ASSUME NEW c \in Conns, ReadFails(c) PROVE NoLostReload'
  BY <1>6 DEF ReadFails, IInv, TypeOK, ClientsHoldTheirHub,
       HubsKeepTheirSession, NoLostReload, Attached
<1>7. ASSUME NEW c \in Conns, Unregister(c) PROVE NoLostReload'
  BY <1>7 DEF Unregister, IInv, TypeOK, ClientsHoldTheirHub,
       HubsKeepTheirSession, NoLostReload, Attached
<1>8. ASSUME NEW c \in Conns, OnEmpty(c) PROVE NoLostReload'
  BY <1>8 DEF OnEmpty, IInv, TypeOK, ClientsHoldTheirHub,
       HubsKeepTheirSession, NoLostReload, Attached
<1>9. ASSUME NEW c \in Conns, NEW s \in Sessions, LoadPage(c, s) PROVE NoLostReload'
  BY <1>9 DEF LoadPage, IInv, TypeOK, ClientsHoldTheirHub,
       HubsKeepTheirSession, NoLostReload, Attached
<1>10. ASSUME NEW c \in Conns, NEW d \in Conns, Redial(c, d) PROVE NoLostReload'
  BY <1>10 DEF Redial, IInv, TypeOK, ClientsHoldTheirHub,
       HubsKeepTheirSession, NoLostReload, Attached
<1>11. ASSUME NEW c \in Conns, Leave(c) PROVE NoLostReload'
  BY <1>11 DEF Leave, IInv, TypeOK, ClientsHoldTheirHub, HubsKeepTheirSession,
       NoLostReload, Attached
<1>12. ASSUME NEW c \in Conns, Deliver(c) PROVE NoLostReload'
  BY <1>12 DEF Deliver, IInv, TypeOK, ClientsHoldTheirHub,
       HubsKeepTheirSession, NoLostReload, Attached
<1>13. ASSUME NEW c \in Conns, SendFails(c) PROVE NoLostReload'
  BY <1>13 DEF SendFails, IInv, TypeOK, ClientsHoldTheirHub,
       HubsKeepTheirSession, NoLostReload, Attached
<1>14. ASSUME NEW h \in Hubs, WatcherEvent(h) PROVE NoLostReload'
  BY <1>14 DEF WatcherEvent, IInv, TypeOK, ClientsHoldTheirHub,
       HubsKeepTheirSession, NoLostReload, Attached
<1>15. ASSUME NEW h \in Hubs, TimerFires(h) PROVE NoLostReload'
  BY <1>15 DEF TimerFires, IInv, TypeOK, ClientsHoldTheirHub,
       HubsKeepTheirSession, NoLostReload, Attached
<1>16. ASSUME NEW h \in Hubs, WatcherBroadcast(h) PROVE NoLostReload'
  BY <1>16 DEF WatcherBroadcast, IInv, TypeOK, ClientsHoldTheirHub,
       HubsKeepTheirSession, NoLostReload, Attached
<1>17. ASSUME NEW h \in Hubs, WatcherStops(h) PROVE NoLostReload'
  BY <1>17 DEF WatcherStops, IInv, TypeOK, ClientsHoldTheirHub,
       HubsKeepTheirSession, NoLostReload, Attached
<1>18. ASSUME NEW h \in Hubs, WatcherDies(h) PROVE NoLostReload'
  BY <1>18 DEF WatcherDies, IInv, TypeOK, ClientsHoldTheirHub,
       HubsKeepTheirSession, NoLostReload, Attached
<1>19. ASSUME NEW s \in Sessions, EditFile(s) PROVE NoLostReload'
  BY <1>19, FilesChangeOwed DEF EditFile
<1>20. ASSUME NEW s \in Sessions, UpdateWrites(s) PROVE NoLostReload'
  BY <1>20, FilesChangeOwed DEF UpdateWrites
<1>21. ASSUME NEW s \in Sessions, UpdateFails(s) PROVE NoLostReload'
  BY <1>21 DEF UpdateFails, IInv, TypeOK, ClientsHoldTheirHub,
       HubsKeepTheirSession, NoLostReload, Attached
<1>22. ASSUME NEW s \in Sessions, UpdateFindsNoHub(s) PROVE NoLostReload'
  BY <1>22 DEF UpdateFindsNoHub, IInv, TypeOK, ClientsHoldTheirHub,
       HubsKeepTheirSession, NoLostReload, Attached
<1>23. ASSUME NEW s \in Sessions, UpdateFindsHub(s) PROVE NoLostReload'
  BY <1>23 DEF UpdateFindsHub, IInv, TypeOK, ClientsHoldTheirHub,
       HubsKeepTheirSession, NoLostReload, Attached
<1>24. ASSUME NEW s \in Sessions, UpdateBroadcast(s) PROVE NoLostReload'
  BY <1>24 DEF UpdateBroadcast, IInv, TypeOK, ClientsHoldTheirHub,
       HubsKeepTheirSession, NoLostReload, Attached
<1>25. CASE UNCHANGED vars
  BY <1>25 DEF IInv, TypeOK, ClientsHoldTheirHub, HubsKeepTheirSession,
       NoLostReload, Attached
<1> QED
  BY <1>1, <1>2, <1>3, <1>4, <1>5, <1>6, <1>7, <1>8, <1>9, <1>10, <1>11,
       <1>12, <1>13, <1>14, <1>15, <1>16, <1>17, <1>18, <1>19, <1>20, <1>21,
       <1>22, <1>23, <1>24, <1>25 DEF Next, ConnStep, BrowserStep,
       WatcherStep, SessionStep

\* IInv holds in every reachable state.
LEMMA Inductive == Spec => []IInv
<1>1. IInv /\ [Next]_vars => IInv'
  BY TypeStep, ClientsStep, SessionsStep, WatcherEntryStep, ServedStep,
       OwedStep DEF IInv
<1> QED
  BY InitInv, <1>1, PTL DEF Spec

\* Every variable keeps to its type; a connection refers to a hub exactly while
\* its handler or read goroutine uses one.
THEOREM TypeCorrect == Spec => []TypeOK
<1>1. IInv => TypeOK
  BY DEF IInv
<1> QED
  BY Inductive, <1>1, PTL

\* A watcher that has not been cancelled works for some connection: the entry
\* it belongs to always has a connection that will run onEmpty.
THEOREM NoWatcherLeaks == Spec => []NoWatcherLeak
<1>1. IInv => NoWatcherLeak
  <2> SUFFICES ASSUME IInv, NEW h \in Hubs, watcher[h] = "running"
               PROVE  \E c \in Conns : hub[c] = h
    BY DEF NoWatcherLeak
  <2>1. dir[h] \in Sessions /\ entry[dir[h]] = h /\ h # NoHub
    BY NoHubAssumption DEF IInv, TypeOK, RunningWatcherHasEntry
  <2> QED
    BY <2>1 DEF IInv, EntryIsServed
<1> QED
  BY Inductive, <1>1, PTL

\* No reload owed to an attached client is lost between the file system, the
\* debounce timer, the broadcast and the Send.
THEOREM NoReloadLost == Spec => []NoLostReload
<1>1. IInv => NoLostReload
  BY DEF IInv
<1> QED
  BY Inductive, <1>1, PTL

===============================================================================
