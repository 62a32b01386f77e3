SPECIFICATION Spec
CONSTANTS
    Uploads = {u1, u2}
    Users = {alice}
    Anon = Anon
    Docs = {d1}
    NoDoc = NoDoc
    Kinds = {"zip"}
    AuthModes = {TRUE}
    Faults = {"statement"}
    MaxFaults = 1
    MaxDeleted = 0
CHECK_DEADLOCK FALSE
INVARIANT
    CreatedSessionsAreOwned
