\* One event handler and one root-cause query.
CONSTANTS
    Tasks = {t1, t2}
    Ops = {"handler", "why"}
SPECIFICATION LockSpec
PROPERTIES WhyReturns
CHECK_DEADLOCK FALSE
