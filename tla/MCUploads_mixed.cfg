SPECIFICATION FairSpec
CONSTANTS
    Uploads = {u1, u2}
    Users = {alice, bob}
    Anon = Anon
    Docs = {d1, d2}
    NoDoc = NoDoc
    Kinds = {"zip", "path"}
    AuthModes = {TRUE, FALSE}
    Faults = {"statement", "crash"}
    MaxFaults = 1
    MaxDeleted = 1
CHECK_DEADLOCK FALSE
INVARIANTS
    LinksAreSound
PROPERTIES
    TransactionEnds
