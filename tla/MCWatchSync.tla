---------------------------- MODULE MCWatchSync ----------------------------
(* Instances of WatchSync for TLC. *)
EXTENDS WatchSync

CONSTANTS page, inner, copy

\* A nested file whose base name the session's root does not have yet ...
NewBaseName == [f \in {page, inner} |-> IF f = inner THEN copy ELSE page]

\* ... and one that has the base name of another file, say docs/index.html.
SameBaseName == [f \in {page, inner} |-> page]
=============================================================================
