---------------------------- MODULE MCLiveReload ----------------------------
(* Instances of LiveReload for TLC. *)
EXTENDS LiveReload, TLC

\* Connection and hub slots are interchangeable (safety runs only).
SlotSymmetry == Permutations(Conns) \cup Permutations(Hubs)
=============================================================================
