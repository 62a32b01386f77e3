SPECIFICATION Spec
CONSTANTS
    Names = {ann, bob}
    Secrets = {p1, p2}
    Logins <- OneName
    Keys = {k1, k2}
    Holder <- OneKeyEach
    Prefix <- OnePrefix
    Cookies = {c1}
    Docs = {d1}
    Postures <- OffAndProtected
    Requests = {r1, r2}
    Serves <- TwoSlots
    StoreFaults = TRUE
    None = None
CHECK_DEADLOCK FALSE
INVARIANTS
    TypeOK
    DeadCredentialsAdmitNobody
PROPERTIES
    OnlyOwnersChange
    SignInsKnowThePassword
    StopEnds
