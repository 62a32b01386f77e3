SPECIFICATION Spec
CONSTANTS
    page = page
    inner = inner
    copy = copy
    Files = {page, inner}
    Inner = {inner}
    StoredAs <- NewBaseName
    MaxEdits = 3
    Flushes = {u1, u2}
    Timers = {t1, t2}
    NoTimer = NoTimer
    Absent = Absent
    Faults = {"unreadable", "reject", "io", "timeout", "overflow", "stop"}
CHECK_DEADLOCK FALSE
INVARIANTS
    TypeOK
    PendingIsScheduled
    NoForgottenChange
PROPERTIES
    SyncedIsStored
    SavesArrive
