\* Two hub connections feeding one graph.
CONSTANTS
    Workers = {w1, w2}
    Hosts = {h1}
    Pids = {p1}
    Entities = {g1}
    Absent = absent
    MaxTs = 3
    Interval = 1
    ErrorWindow = 1
    ProcessWindow = 1
    EdgeTtl = 1
    MaxEdges = 2
SPECIFICATION Spec

PROPERTIES CleanupRemovesOnlyDead
