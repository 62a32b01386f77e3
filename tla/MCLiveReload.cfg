SPECIFICATION Spec
CONSTANTS
    Sessions = {s1}
    Updated = {s1}
    Faults = {"network", "watchDir", "watcher"}
    Conns = {c1, c2}
    Hubs = {h1, h2}
    NoHub = NoHub
SYMMETRY SlotSymmetry
INVARIANTS
    TypeOK
    NoWatcherLeak
    NoLostReload
