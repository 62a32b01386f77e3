SPECIFICATION FairSpec
CONSTANTS
    Sessions = {s1}
    Updated = {}
    Faults = {}
    Conns = {c1, c2}
    Hubs = {h1, h2}
    NoHub = NoHub
PROPERTIES
    AttachedChangeReloads
    QuietServerStopsWatchers
