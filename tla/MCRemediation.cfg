SPECIFICATION MCSpec
CONSTANTS
    Nodes = {n1}
    Requests = {r1, r2}
    Faults = {f1}
    Remediations = {o1, o2}
    Kinds = {"no spec", "no node", "dry run", "taint_only", "taint_evict", "unsupported"}
    execute_cooldown = 2
    max_actions = 1
    list_limit = 1
    max_concurrency = 1
    cooldown_duration = 2
    MaxTime = 3
    MaxProcs = 2
    MaxFailures = 2
    MaxRestarts = 1
    Never = Never
SYMMETRY Symmetry
INVARIANTS TypeOK PermitsHeld TaintFirst SucceededIsTrue RunsOnce
PROPERTIES CooldownUpToLag
