SPECIFICATION Spec
CONSTANTS
    page = page
    inner = inner
    copy = copy
    Files = {page, inner}
    Inner = {inner}
    StoredAs <- SameBaseName
    MaxEdits = 3
    Flushes = {u1, u2}
    Timers = {t1, t2}
    NoTimer = NoTimer
    Absent = Absent
    Faults = {}
CHECK_DEADLOCK FALSE
INVARIANT
    SessionMirrorsDirectory
