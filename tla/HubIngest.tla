------------------------------ MODULE HubIngest ------------------------------
(***************************************************************************)
(* What the hub does with an event, and what a restart gives back.         *)
(*                                                                         *)
(* Each WebSocket connection runs one event at a time through              *)
(* handle_connection (hub/src/main.rs): the dedup store, the graph, the    *)
(* window buffer, the write-ahead log. The log (hub/src/wal.rs) is one     *)
(* active file and one rotated file. A crash may come between any two      *)
(* steps; main() then replays both files before it serves again.           *)
(*                                                                         *)
(* The graph is the set of events it has processed. A line is an event, or *)
(* Bad when it does not parse; every line has length one.                  *)
(***************************************************************************)
EXTENDS Naturals, Sequences, Functions

CONSTANTS
    Conns,          \* the connections
    Events,         \* the events agents send; their fingerprints differ
    ts,             \* event.ts of each event
    Window,         \* dedup_window_ms
    BufferSize,     \* event_buffer_size
    MaxLines,       \* max_bytes, in lines; 0 switches the rotation off
    Bad,            \* a line that does not parse
    None            \* no event, no connection

ASSUME IngestConstants ==
    /\ ts \in [Events -> Nat] /\ Window \in Nat
    /\ BufferSize \in Nat \ {0} /\ MaxLines \in Nat
    /\ Conns # {} /\ Bad \notin Events /\ None \notin Events \union Conns

VARIABLES
    dedup,          \* the fingerprints in dedup_store (they carry their ts)
    graph,          \* the events the state graph has processed
    buffer,         \* event_buffer
    pc, ev,         \* per connection: the step it is at, and its event
    holder,         \* the connection that holds the mutex of the WalWriter
    active,         \* the active file: exists, its lines, an unfinished tail
    rotated,        \* the rotated file, "<path>.1"
    fd,             \* the file WalState.file writes to
    inflight,       \* the line tokio's File has accepted and not yet written
    \* history
    acked,          \* the last MaxLines events whose line the writer has accepted
    lost,           \* those of them whose line is known to be gone
    overtaken       \* events processed before some event more than Window later

vars == <<dedup, graph, buffer, pc, ev, holder, active, rotated, fd, inflight,
          acked, lost, overtaken>>

NoFile == [exists |-> FALSE, lines |-> <<>>, torn |-> FALSE]
EmptyFile == [exists |-> TRUE, lines |-> <<>>, torn |-> FALSE]

Init ==
    /\ dedup = {} /\ graph = {} /\ buffer = <<>>
    /\ pc = [c \in Conns |-> "idle"] /\ ev = [c \in Conns |-> None]
    /\ holder = None
    /\ active = EmptyFile /\ rotated = NoFile /\ fd = "active"
    /\ inflight = None
    /\ acked = <<>> /\ lost = {} /\ overtaken = {}

Minus(a, b) == IF a > b THEN a - b ELSE 0

-----------------------------------------------------------------------------
(* The dedup store and the window buffer. *)

\* What the store keeps when an event of time t comes in.
Pruned(store, t) == {e \in store : ts[e] >= Minus(t, Window)}

\* Mutant: the buffer is compared with its size after the push.
Pushed_Late(buf, e) == Append(IF Len(buf) > BufferSize THEN Tail(buf) ELSE buf, e)

\* The window buffer with e pushed at the back.
Pushed(buf, e) == Append(IF Len(buf) >= BufferSize THEN Tail(buf) ELSE buf, e)

To(c, step) == pc' = [pc EXCEPT ![c] = step]

\* Events that an event of time t leaves more than a window behind.
Behind(t) == {e \in Events : ts[e] + Window < t}

\* Mutant: an event at the very edge of the window is pruned.
accept_event_with_dedup_Short(c, e) ==
    LET store == {x \in dedup : ts[x] > Minus(ts[e], Window)} IN
    /\ pc[c] = "idle"
    /\ IF e \in store
       THEN /\ dedup' = store
            /\ overtaken' = overtaken \union Behind(ts[e])
            /\ UNCHANGED <<pc, ev>>
       ELSE /\ dedup' = store \union {e}
            /\ overtaken' = (overtaken \union Behind(ts[e])) \ {e}
            /\ To(c, "graph") /\ ev' = [ev EXCEPT ![c] = e]
    /\ UNCHANGED <<graph, buffer, holder, active, rotated, fd, inflight, acked, lost>>

\* A message with event e arrives; a duplicate is dropped, but it prunes too.
accept_event_with_dedup(c, e) ==
    LET store == Pruned(dedup, ts[e]) IN
    /\ pc[c] = "idle"
    /\ IF e \in store
       THEN /\ dedup' = store
            /\ overtaken' = overtaken \union Behind(ts[e])
            /\ UNCHANGED <<pc, ev>>
       ELSE /\ dedup' = store \union {e}
            /\ overtaken' = (overtaken \union Behind(ts[e])) \ {e}
            /\ To(c, "graph") /\ ev' = [ev EXCEPT ![c] = e]
    /\ UNCHANGED <<graph, buffer, holder, active, rotated, fd, inflight, acked, lost>>

ProcessEvent(c) ==
    /\ pc[c] = "graph"
    /\ graph' = graph \union {ev[c]}
    /\ To(c, "buffer")
    /\ UNCHANGED <<dedup, buffer, ev, holder, active, rotated, fd, inflight, acked, lost, overtaken>>

PushBuffer(c) ==
    /\ pc[c] = "buffer"
    /\ buffer' = Pushed(buffer, ev[c])
    /\ To(c, "lock")
    /\ UNCHANGED <<dedup, graph, ev, holder, active, rotated, fd, inflight, acked, lost, overtaken>>

-----------------------------------------------------------------------------
(* append_wal_event and rotate_wal, under the mutex of the writer. *)

\* The file that the writer's descriptor refers to; "unlinked" is a rotated
\* file that was removed while the descriptor was still open on it, full.
SizeOfFd ==
    CASE fd = "active"   -> Len(active.lines)
      [] fd = "rotated"  -> Len(rotated.lines)
      [] fd = "unlinked" -> MaxLines

\* Mutant: the size is compared before the line is counted.
WalLock_OffByOne(c) ==
    /\ pc[c] = "lock" /\ holder = None
    /\ holder' = c
    /\ To(c, IF MaxLines > 0 /\ SizeOfFd > MaxLines THEN "remove" ELSE "write")
    /\ UNCHANGED <<dedup, graph, buffer, ev, active, rotated, fd, inflight, acked, lost, overtaken>>

\* The mutex, the size of the file (a line in flight is not counted) and the
\* decision to rotate.
WalLock(c) ==
    /\ pc[c] = "lock" /\ holder = None
    /\ holder' = c
    /\ To(c, IF MaxLines > 0 /\ SizeOfFd + 1 > MaxLines THEN "remove" ELSE "write")
    /\ UNCHANGED <<dedup, graph, buffer, ev, active, rotated, fd, inflight, acked, lost, overtaken>>

\* flush, then the removal of an existing rotated file. After a failed reopening
\* this is the file the writer has been left with, and what it holds is lost.
RotateRemove(c) ==
    /\ pc[c] = "remove" /\ inflight = None
    /\ rotated' = NoFile
    /\ fd' = IF fd = "rotated" THEN "unlinked" ELSE fd
    /\ lost' = IF fd = "rotated" THEN lost \union (Range(rotated.lines) \intersect Range(acked))
               ELSE lost
    /\ To(c, "rename")
    /\ UNCHANGED <<dedup, graph, buffer, ev, holder, active, inflight, acked, overtaken>>

\* Mutant: the active file is truncated in place.
RotateRename_Truncates(c) ==
    /\ pc[c] = "rename"
    /\ active' = EmptyFile
    /\ To(c, "open")
    /\ UNCHANGED <<dedup, graph, buffer, ev, holder, rotated, fd, inflight, acked, lost, overtaken>>

\* The active file, if there is one, becomes the rotated file.
RotateRename(c) ==
    /\ pc[c] = "rename"
    /\ IF active.exists
       THEN /\ rotated' = active /\ active' = NoFile
            /\ fd' = IF fd = "active" THEN "rotated" ELSE fd
       ELSE UNCHANGED <<rotated, active, fd>>
    /\ To(c, "open")
    /\ UNCHANGED <<dedup, graph, buffer, ev, holder, inflight, acked, lost, overtaken>>

RotateOpen(c) ==
    /\ pc[c] = "open"
    /\ active' = IF active.exists THEN active ELSE EmptyFile
    /\ fd' = "active"
    /\ To(c, "write")
    /\ UNCHANGED <<dedup, graph, buffer, ev, holder, rotated, inflight, acked, lost, overtaken>>

Idle(c) ==
    /\ To(c, "idle")
    /\ ev' = [ev EXCEPT ![c] = None]
    /\ holder' = None

\* The size cannot be read, or remove_file, rename or open fails:
\* append_wal_event returns the error, which the connection counts and forgets.
\* After a failed open the descriptor stays on the rotated file.
AppendFails(c) ==
    /\ \/ pc[c] = "lock" /\ holder = None
       \/ pc[c] \in {"remove", "rename", "open"} /\ inflight = None
    /\ Idle(c)
    /\ UNCHANGED <<dedup, graph, buffer, active, rotated, fd, inflight, acked, lost, overtaken>>

LastLines(s) == IF Len(s) > MaxLines THEN Tail(s) ELSE s

\* write_all: tokio's File first waits for the line in flight, then takes the
\* new one and returns; a thread of its pool writes it later. (The size is read
\* once more, for the result; the line is on its way whether or not that fails.)
WalWrite(c) ==
    /\ pc[c] = "write" /\ inflight = None
    /\ inflight' = ev[c]
    /\ acked' = LastLines(Append(acked, ev[c]))
    /\ lost' = (lost \ {ev[c]}) \intersect Range(acked')
    /\ Idle(c)
    /\ UNCHANGED <<dedup, graph, buffer, active, rotated, fd, overtaken>>

\* A line written after an unfinished one makes one line with it.
WithLine(f, l) ==
    [exists |-> f.exists, lines |-> Append(f.lines, IF f.torn THEN Bad ELSE l), torn |-> FALSE]

\* The line in flight reaches the file of the descriptor, which is the active
\* one: an append writes only after it has opened the file it rotated to.
WriteBack ==
    /\ inflight # None
    /\ active' = WithLine(active, inflight)
    /\ lost' = IF active.torn THEN lost \union ({inflight} \intersect Range(acked)) ELSE lost
    /\ inflight' = None
    /\ UNCHANGED <<dedup, graph, buffer, pc, ev, holder, rotated, fd, acked, overtaken>>

-----------------------------------------------------------------------------
(* Crash and restart. *)

Fresh == [dedup |-> {}, graph |-> {}, buffer |-> <<>>]

\* One turn of the loop of replay_wal_file: a bad line is skipped, a duplicate dropped.
replay_line(s, l) ==
    IF l = Bad THEN s
    ELSE LET store == Pruned(s.dedup, ts[l]) IN
         IF l \in store THEN [s EXCEPT !.dedup = store]
         ELSE [dedup  |-> store \union {l},
               graph  |-> s.graph \union {l},
               buffer |-> Pushed(s.buffer, l)]

\* What the lines of one file make of the state s, one after the other.
replay_wal_file(s, lines) ==
    LET after[n \in 0..Len(lines)] == IF n = 0 THEN s ELSE replay_line(after[n - 1], lines[n])
    IN  after[Len(lines)]

\* Mutant: only the active file is replayed.
replay_wal_ActiveOnly(old, cur) == replay_wal_file(Fresh, cur.lines)

\* The rotated file first, then the active one; an unfinished tail is a line
\* that does not parse.
replay_wal(old, cur) == replay_wal_file(replay_wal_file(Fresh, old.lines), cur.lines)

\* What a crash leaves of the active file: the line in flight is lost, written
\* in part, or written.
AfterCrash ==
    IF inflight = None THEN {active}
    ELSE {active, [active EXCEPT !.torn = TRUE], WithLine(active, inflight)}

Down == \E c \in Conns : pc[c] = "down"
CrashLoses(file) ==
    IF inflight = None \/ file.lines = Append(active.lines, inflight) THEN lost
    ELSE lost \union ({inflight} \intersect Range(acked))

\* The hub dies and starts again: replay_wal, then open_wal_writer.
Restart ==
    /\ ~ Down
    /\ \E file \in AfterCrash :
        LET s == replay_wal(rotated, file) IN
        /\ dedup' = s.dedup /\ graph' = s.graph /\ buffer' = s.buffer
        /\ active' = [file EXCEPT !.exists = TRUE]
        /\ lost' = CrashLoses(file)
        /\ overtaken' = {e \in s.graph : \E x \in s.graph : ts[x] > ts[e] + Window}
        /\ pc' = [c \in Conns |-> "idle"] /\ ev' = [c \in Conns |-> None]
        /\ holder' = None /\ fd' = "active" /\ inflight' = None
        /\ UNCHANGED <<rotated, acked>>

\* The line in flight was cut off inside a character: next_line returns an
\* error, main ends with it, and so does every later start, until somebody
\* repairs the file, which is not modelled.
RestartFails ==
    /\ ~ Down /\ inflight # None
    /\ dedup' = {} /\ graph' = {} /\ buffer' = <<>>
    /\ active' = [active EXCEPT !.torn = TRUE]
    /\ lost' = CrashLoses(active)
    /\ overtaken' = {}
    /\ pc' = [c \in Conns |-> "down"] /\ ev' = [c \in Conns |-> None]
    /\ holder' = None /\ inflight' = None
    /\ UNCHANGED <<rotated, fd, acked>>

StartsInVain == Down /\ UNCHANGED vars

Next ==
    \/ \E c \in Conns :
          \/ \E e \in Events : accept_event_with_dedup(c, e)
          \/ ProcessEvent(c) \/ PushBuffer(c)
          \/ WalLock(c) \/ RotateRemove(c) \/ RotateRename(c) \/ RotateOpen(c)
          \/ AppendFails(c) \/ WalWrite(c)
    \/ WriteBack
    \/ Restart \/ RestartFails \/ StartsInVain

Spec == Init /\ [][Next]_vars

-----------------------------------------------------------------------------
(* Properties. *)

Steps == {"idle", "graph", "buffer", "lock", "remove", "rename", "open", "write", "down"}
OnDisk == (Range(active.lines) \union Range(rotated.lines)) \ {Bad}

TypeOK ==
    /\ dedup \subseteq Events /\ graph \subseteq Events /\ overtaken \subseteq Events
    /\ buffer \in Seq(Events) /\ Len(buffer) <= BufferSize
    /\ pc \in [Conns -> Steps] /\ ev \in [Conns -> Events \union {None}]
    /\ \A c \in Conns : pc[c] \in {"idle", "down"} <=> ev[c] = None
    /\ \A c \in Conns : pc[c] \in {"remove", "rename", "open", "write"} <=> holder = c
    /\ \A f \in {active, rotated} :
          f.lines \in Seq(Events \union {Bad}) /\ f.exists \in BOOLEAN /\ f.torn \in BOOLEAN
    /\ fd \in {"active", "rotated", "unlinked"} /\ inflight \in Events \union {None}
    /\ acked \in Seq(Events) /\ lost \subseteq Range(acked)

\* The active file is at most one line over its limit: the size is read while
\* the previous line may still be in flight, and never further behind.
WalBounded ==
    MaxLines > 0 => Len(active.lines) <= MaxLines + 1 /\ Len(rotated.lines) <= MaxLines + 1

\* The last MaxLines events whose line was accepted are in the files or in
\* flight at every moment, also in the middle of a rotation, after a rotation
\* that failed, and whatever the other connections do, except where the code
\* loses a line: a crash cuts it off while it is in flight; it is glued to a
\* line a crash has left unfinished; or it is in the file that the writer was
\* left with when the reopening failed, and that the next rotation removes.
RecentLogged == Range(acked) \ lost \subseteq OnDisk \union {inflight}

\* A restart gives the graph back every recent event that is not lost in one of
\* these ways, and processes none that was not processed before; unless the
\* line in flight was cut off inside a character, and the hub does not start.
RestartRestores ==
    [][Restart => Range(acked') \ lost' \subseteq graph' /\ graph' \subseteq graph]_vars

\* A duplicate is processed again only after some event more than a window
\* later has come in: two connections that deliver the same event at once,
\* or a replay, do not make the graph see it twice.
DedupSuppresses ==
    [][\A c \in Conns : pc[c] = "idle" /\ pc'[c] = "graph" =>
         (ev'[c] \in graph \union {ev[d] : d \in Conns} => ev'[c] \in overtaken)]_vars

=============================================================================
