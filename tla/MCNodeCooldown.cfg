SPECIFICATION Spec
CONSTANTS
    Nodes = {n1}
    Requests = {}
    Faults = {f1, f2}
    Remediations = {}
    Kinds = {}
    execute_cooldown = 2
    max_actions = 1
    list_limit = 1
    max_concurrency = 1
    cooldown_duration = 2
    MaxTime = 3
    MaxProcs = 2
    MaxFailures = 0
    MaxRestarts = 0
    Never = Never
PROPERTIES NodeCooldown
