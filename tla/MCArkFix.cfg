CONSTANTS
    Callers = {f1, f2}
    Loggers = {f1, f2}
    f1 = f1
    f2 = f2
    Streamer = t
    None = None
    Answers <- MCAnswers
    MaxFrames = 2
    MaxRestarts = 1
    max_size = 1
    MaxSecond = 1
    MaxCommands = 2
SPECIFICATION Spec
INVARIANTS AnswersAligned EntryKept SuccessMeansKilled
PROPERTY FixEnds
CHECK_DEADLOCK FALSE
