---------------------------- MODULE VersionHistory ----------------------------
(***************************************************************************)
(* What version chains promise to whoever reads the database: a session    *)
(* appears, may join one chain, and may be deleted.  It joins at most one  *)
(* chain, never moves to another and is never renumbered; the number it    *)
(* joins with is above every other live version of that chain and at most  *)
(* one above the highest that was live.  How an upload gets there (the     *)
(* statements, the shared connection, the rollbacks) is in Uploads, whose  *)
(* durable database implements this module.                                *)
(***************************************************************************)
EXTENDS Integers

CONSTANT Sessions

VARIABLES
    state,   \* sessions.deleted_at: is there a row, and is it deleted
    chain,   \* sessions.chain_id, 0 for NULL
    ver      \* sessions.version_no, 0 for NULL

historyVars == <<state, chain, ver>>

RowStates == {"absent", "live", "deleted"}

HistoryInit ==
    /\ state = [s \in Sessions |-> "absent"]
    /\ chain = [s \in Sessions |-> 0]
    /\ ver = [s \in Sessions |-> 0]

\* A session never disappears and never comes back from deletion.  One commit
\* may carry what several requests wrote, so any number of rows may move.
Ages(s) ==
    \/ state'[s] = state[s]
    \/ state[s] = "absent" /\ state'[s] \in {"live", "deleted"}
    \/ state[s] = "live" /\ state'[s] = "deleted"

\* The numbers the live versions of chain c have, 0 for a chain with none.
Numbers(c) == {0} \cup {ver[s] : s \in {t \in Sessions : state[t] = "live" /\ chain[t] = c}}

\* Session s becomes version n of chain c.
Joins(s, c, n) ==
    /\ chain[s] = 0
    /\ chain' = [chain EXCEPT ![s] = c]
    /\ ver' = [ver EXCEPT ![s] = n]
    /\ \E m \in Numbers(c) : n <= m + 1
    /\ \A t \in Sessions \ {s} : chain[t] = c /\ state'[t] = "live" => ver[t] < n

HistoryNext ==
    /\ state' \in [Sessions -> RowStates]
    /\ \A s \in Sessions : Ages(s)
    /\ \/ UNCHANGED <<chain, ver>>
       \/ \E s \in Sessions : /\ chain'[s] > 0
                              /\ state'[s] # "absent"
                              /\ Joins(s, chain'[s], ver'[s])

HistorySpec == HistoryInit /\ [][HistoryNext]_historyVars
===============================================================================
