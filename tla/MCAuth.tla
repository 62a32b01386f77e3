------------------------------- MODULE MCAuth -------------------------------
(* Instances of Auth for TLC. *)
EXTENDS Auth

\* Kinds that race with each other are in different slots, registration in both.
TwoSlots ==
    LET first == CHOOSE r \in Requests : TRUE
    IN  [r \in Requests |->
           IF r = first THEN {"login", "register", "logout", "create"}
                        ELSE {"edit", "register", "read", "preview"}]

\* Two keys with the same stored prefix.
OnePrefix == [k \in Keys |-> "sth_12345678"]

\* Both people choose the same name; the other user is made by `sth user add`.
OneName == {CHOOSE n \in Names : TRUE} \X Secrets

\* The first key belongs to that user, the second to the other one.
OneKeyEach ==
    [k \in Keys |-> IF k = CHOOSE j \in Keys : TRUE THEN CHOOSE n \in Names : TRUE
                    ELSE CHOOSE n \in Names : n # CHOOSE m \in Names : TRUE]

\* No authentication, and authentication by way of --protect-previews.
OffAndProtected ==
    {[auth |-> FALSE, protect |-> FALSE, openReg |-> TRUE],
     [auth |-> FALSE, protect |-> TRUE, openReg |-> TRUE]}
=============================================================================
