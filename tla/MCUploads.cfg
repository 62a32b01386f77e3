SPECIFICATION Spec
CONSTANTS
    Uploads = {u1, u2, u3}
    Users = {alice}
    Anon = Anon
    Docs = {d1}
    NoDoc = NoDoc
    Kinds = {"zip"}
    AuthModes = {TRUE, FALSE}
    Faults = {"statement", "crash"}
    MaxFaults = 1
    MaxDeleted = 1
SYMMETRY UploadSymmetry
CHECK_DEADLOCK FALSE
INVARIANTS
    TypeOK
    LiveVersionsUnique
    RowsHaveFiles
    AnswerIsDurable
    AcknowledgedIsKept
PROPERTIES
    VersionHistorySpec
