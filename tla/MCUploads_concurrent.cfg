SPECIFICATION Spec
CONSTANTS
    Uploads = {u1, u2}
    Users = {alice}
    Anon = Anon
    Docs = {d1}
    NoDoc = NoDoc
    Kinds = {"zip"}
    AuthModes = {FALSE}
    Faults = {}
    MaxFaults = 0
    MaxDeleted = 0
CHECK_DEADLOCK FALSE
INVARIANT
    ConcurrentUploadsAreLinked
