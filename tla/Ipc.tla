-------------------------------- MODULE Ipc --------------------------------
(***************************************************************************)
(* The daemon's Unix socket (agent/src/ipc.rs): a task per connection that *)
(* reads frames and answers them, and clients that make one call per       *)
(* connection, beside one that keeps its connection and sends frames       *)
(* without waiting. The daemon may die and be started again.               *)
(*                                                                         *)
(* A frame is a length and a body. A length above MAX_REQUEST_SIZE is      *)
(* answered with an error and its body stays in the stream, where every    *)
(* four bytes of the JSON text read as another such length.                *)
(***************************************************************************)
EXTENDS Naturals, Sequences

CONSTANTS
    Callers,        \* clients that make calls
    Streamer,       \* the client that keeps its connection
    Answers,        \* what find_root_cause may find
    MaxFrames,      \* bound: frames of the streamer
    MaxRestarts,    \* bound: restarts of the daemon
    None            \* no connection, no answer

Clients == Callers \union {Streamer}
RequestNames == {"list", "why", "ping"}

VARIABLES
    daemon,         \* "up", "down", or "locked": up, with its graph locked for good
    restarts,
    conn            \* per client: its connection, or None

ipcVars == <<daemon, restarts, conn>>

\* in: what the server has yet to answer; out: what the client has yet to read;
\* server: the task that serves it is "open", waits for the graph's locks for
\* ever ("blocked") or has ended ("ended").
\* History: frames, every frame sent, and answers, every answer given.
NewConn == [in |-> <<>>, out |-> <<>>, server |-> "open", frames |-> <<>>, answers |-> <<>>]

IpcInit ==
    /\ daemon = "up" /\ restarts = 0
    /\ conn = [c \in Clients |-> None]

-----------------------------------------------------------------------------
(* Clients. *)

\* A frame as the server will read it.
Wire(frame) == IF frame = "huge" THEN <<"huge", "huge">> ELSE <<frame>>

Sends(cn, frame) ==
    [cn EXCEPT !.in = IF cn.server = "open" THEN @ \o Wire(frame) ELSE @,
               !.frames = Append(@, frame)]

\* call, up to the response: a new connection with one frame. While the daemon
\* is down connect fails and the caller has an error at once. (Bound: the
\* streamer has left by then.)
Call(c, request) ==
    conn' = [conn EXCEPT ![c] = IF daemon = "down" THEN None ELSE Sends(NewConn, request),
                         ![Streamer] = None]

\* Mutant: a connection that is lost goes unnoticed.
CallReturns_NoEof(c, response) ==
    \/ conn[c] = None /\ response = None
    \/ conn[c] # None /\ conn[c].out # <<>> /\ response = Head(conn[c].out)

\* The rest of call: the response, or an error when there was no connection or
\* the connection has been lost (what it still held may be lost with it).
CallReturns(c, response) ==
    \/ conn[c] = None /\ response = None
    \/ conn[c] # None /\ conn[c].out # <<>> /\ response = Head(conn[c].out)
    \/ conn[c] # None /\ conn[c].server = "ended" /\ response = None

StreamerSends(frame) ==
    /\ conn[Streamer] # None /\ Len(conn[Streamer].frames) < MaxFrames
    /\ conn' = [conn EXCEPT ![Streamer] = Sends(@, frame)]
    /\ UNCHANGED <<daemon, restarts>>

StreamerConnects ==
    /\ daemon # "down" /\ conn[Streamer] = None
    /\ conn' = [conn EXCEPT ![Streamer] = NewConn]
    /\ UNCHANGED <<daemon, restarts>>

-----------------------------------------------------------------------------
(* The daemon. *)

Failure == [success |-> FALSE, request |-> None, data |-> None]

\* The data of a request that is not about causes is left out.
handle_request(request, found) ==
    [success |-> TRUE, request |-> request, data |-> IF request = "why" THEN found ELSE None]

Respond(c, response) ==
    conn' = [conn EXCEPT ![c].in = Tail(@), ![c].out = Append(@, response),
                         ![c].answers = Append(@, response)]

Block(c) == conn' = [conn EXCEPT ![c].server = "blocked"]

\* A request: find_root_cause may lock the graph for good, it and an event's
\* handler each waiting for the other (see GraphLocks), and then whoever reads
\* the graph waits for ever.
Answer(c, request) ==
    \/ /\ daemon = "up" \/ request = "ping"
       /\ \E found \in Answers : Respond(c, handle_request(request, found))
       /\ UNCHANGED daemon
    \/ daemon = "up" /\ request = "why" /\ Block(c) /\ daemon' = "locked"
    \/ daemon = "locked" /\ request # "ping" /\ Block(c) /\ UNCHANGED daemon

\* Mutant: a body that does not parse is dropped without a word.
handle_client_unix_Silent(c) ==
    /\ conn[c] # None /\ conn[c].server = "open" /\ conn[c].in # <<>>
    /\ LET frame == Head(conn[c].in) IN
       \/ frame = "zero" /\ conn' = [conn EXCEPT ![c].server = "ended"] /\ UNCHANGED daemon
       \/ frame = "huge" /\ Respond(c, Failure) /\ UNCHANGED daemon
       \/ frame = "bad" /\ conn' = [conn EXCEPT ![c].in = Tail(@)] /\ UNCHANGED daemon
       \/ frame \in RequestNames /\ Answer(c, frame)
    /\ UNCHANGED restarts

\* One round of the loop. (A client that has gone ends it: its connection is
\* then None, or replaced.)
handle_client_unix(c) ==
    /\ conn[c] # None /\ conn[c].server = "open" /\ conn[c].in # <<>>
    /\ LET frame == Head(conn[c].in) IN
       \/ frame = "zero" /\ conn' = [conn EXCEPT ![c].server = "ended"] /\ UNCHANGED daemon
       \/ frame \in {"huge", "bad"} /\ Respond(c, Failure) /\ UNCHANGED daemon
       \/ frame \in RequestNames /\ Answer(c, frame)
    /\ UNCHANGED restarts

\* Bound: while somebody is connected.
DaemonDies ==
    /\ daemon # "down" /\ restarts < MaxRestarts
    /\ \E c \in Clients : conn[c] # None
    /\ daemon' = "down"
    /\ conn' = [c \in Clients |-> IF conn[c] = None THEN None
                                  ELSE [conn[c] EXCEPT !.server = "ended", !.in = <<>>]]
    /\ UNCHANGED restarts

\* serve removes the socket that a daemon before it has left.
serve ==
    /\ daemon = "down"
    /\ daemon' = "up" /\ restarts' = restarts + 1
    /\ UNCHANGED conn

IpcNext ==
    \/ StreamerConnects
    \/ \E frame \in RequestNames \union {"zero", "bad", "huge"} : StreamerSends(frame)
    \/ \E c \in Clients : handle_client_unix(c)
    \/ DaemonDies \/ serve

-----------------------------------------------------------------------------

\* On every connection the answers come in the order of the frames, one for
\* each and each about its frame, up to the first frame that was too large.
AnswersAligned ==
    \A c \in Clients : conn[c] # None =>
        LET frames == conn[c].frames
            Plain(i) == i <= Len(frames) /\ \A k \in 1..i : frames[k] # "huge" IN
        \A i \in DOMAIN conn[c].answers :
            LET answer == conn[c].answers[i] IN
            \/ Plain(i) /\ (IF frames[i] = "bad" THEN ~ answer.success
                            ELSE answer.success /\ answer.request = frames[i])
            \/ \E k \in 1..i : k <= Len(frames) /\ frames[k] = "huge"

=============================================================================
