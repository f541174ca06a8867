\* Two connections, three events, a log of one line per file.
CONSTANTS
    Conns = {c1, c2}
    e1 = e1
    e2 = e2
    e3 = e3
    Events = {e1, e2, e3}
    ts <- Times
    Window = 1
    BufferSize = 1
    MaxLines = 1
    Bad = bad
    None = none
SPECIFICATION Spec
SYMMETRY Symmetry
INVARIANTS TypeOK WalBounded RecentLogged
PROPERTIES RestartRestores DedupSuppresses
