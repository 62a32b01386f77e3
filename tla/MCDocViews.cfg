SPECIFICATION Spec
CONSTANTS
    d1 = d1
    d2 = d2
    d3 = d3
    ann = ann
    bob = bob
    x = x
    y = y
    r1 = r1
    r2 = r2
    Docs = {d1, d2, d3}
    Old <- OldSessions
    Form <- Forms
    Users = {ann, bob}
    Nobody = Nobody
    Words = {x, y}
    None = None
    Asks <- FewAsks
    PageSize = 1
    PeerLimit = 1
    Requests = {r1, r2}
    Serves <- Slots
    MaxWrites = 1
INVARIANTS
    TypeOK
    AnswersStayWithTheOwner
    DeletedStayHidden
    SearchMissesNothing
    PagesFollowTheRanks
    EditsAnswerWhatTheyLeft
    PeersAreAlike
    ChainViewIsOneHistory
    DiffsCompareTheNamedVersions
