\* Rules are loaded and migrated, signals and incidents are computed.
CONSTANTS
    Absent = Absent
    NoNumber = NoNumber
    NaN = NaN
    Stray = Stray
    Err = Err
    NoPoint = NoPoint
    Conditions <- MCConditions
    Nesting = 2
    NumRules = 2
    Place <- MCPlace
    KnownPacks = {"core", "nvidia", "ascend", "k8s", "legacy"}
    Directories <- MCDirectories
    MaxRuns = 2
    Callers = {c1, c2}
    Values = {1}
    window_ms = 1
    step_ms = 1
    MaxTs = 2
    MaxSamples = 3
    Jobs = {j1, j2}
    Candidates <- MCCandidates
    Edges <- MCEdges
    Nodes <- MCNodes
    SignalNode <- MCSignalNode
    Limits = {2}
    Texts <- MCTexts
    PatternTexts <- MCPatternTexts
    RequestSamples = 1
    c1 = c1
    c2 = c2
    j1 = j1
    j2 = j2
SYMMETRY Symmetry
SPECIFICATION Spec
INVARIANTS WindowExact NodeIsRecent IncidentsJustified MigrationKeepsRules PatternIsGlob
CHECK_DEADLOCK FALSE
