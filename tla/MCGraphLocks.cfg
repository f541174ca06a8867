\* Every method of the graph except the root-cause query.
CONSTANTS
    Tasks = {t1, t2, t3}
    Ops = {"process_state", "handler", "should_cleanup", "snapshot", "apply", "stamp", "signals", "metrics", "resources", "all_edges"}
SPECIFICATION LockSpec
INVARIANTS NoDeadlock
PROPERTIES CallsReturn
