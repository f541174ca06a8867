\* A queue of two, three forwarded events, three connections, one binding. The
\* supply of events ends.
CONSTANTS
    Capacity = 2
    MaxEvents = 3
    MaxConns = 3
    Bindings = {b1}
    NoPid = NoPid
    None = None
SPECIFICATION RollupSpec
INVARIANTS TypeOK Accounted HubSees PictureHolds
PROPERTIES KeepsPromise CallEnds
CHECK_DEADLOCK FALSE
