-------------------------------- MODULE Lists --------------------------------
(***************************************************************************)
(* Lists made from finite sets by counting, without recursion.             *)
(***************************************************************************)
EXTENDS Integers, SequencesExt, FiniteSetsExt

\* The members of S by increasing key: each has as many before it as have a
\* smaller key.
Ordered(S, key) ==
    [i \in 1..Cardinality(S) |-> CHOOSE d \in S : Cardinality({e \in S : key[e] < key[d]}) = i - 1]

\* A finite set of numbers in order.
Increasing(S) == Ordered(S, [i \in S |-> i])

\* The entries of a list at the places in S, in order.
Entries(s, S) == [k \in 1..Cardinality(S) |-> s[Increasing(S)[k]]]
=============================================================================
