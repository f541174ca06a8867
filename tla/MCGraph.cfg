\* One caller (the agent's consumer loop, or the hub's WAL replay), two hosts.
CONSTANTS
    Workers = {w1}
    Hosts = {h1, h2}
    Pids = {p1}
    Entities = {g1}
    Absent = absent
    MaxTs = 2
    Interval = 1
    ErrorWindow = 0
    ProcessWindow = 0
    EdgeTtl = 1
    MaxEdges = 2
SPECIFICATION Spec
INVARIANTS TypeOK IndexesExact NoDangling WhyExact
PROPERTIES CleanupRemovesOnlyDead CleanupComplete
SYMMETRY Symmetry
