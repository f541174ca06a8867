# ark-infra in TLA+

A verification development for the agent, the hub and the shared core of
ark-infra. The modules are translated from the Rust sources; each definition
that stands for code is listed with its lines in `PROJECT.json` ("map").
Paths below are relative to the repository's root.

## The system

An **agent** runs on every node. Probes write events (JSON lines), an event bus
hands them to one consumer loop, which updates a local **state graph** and gives
some of the events to the **forwarder**. The forwarder sends them over a
WebSocket to the **hub**, which keeps one graph of the whole cluster, a window
of recent events and a write-ahead log (WAL), matches **rules** against them,
answers HTTP queries, sends fix commands back over the WebSockets, and taints
and evicts Kubernetes nodes. On the node itself `ark fix` and `ark zap` ask the
agent's daemon over a Unix socket (IPC), act on a process and write an audit log.

| part | modules | what is hard about it |
| --- | --- | --- |
| graph (`core/src/graph.rs`) | StateGraph | several lock sections per event, one caller per connection, timestamps in any order |
| graph locks (same) | GraphLocks | lock order, fair queueing |
| signals (`core/src/signals/`) | Signals | late events, a point written in a later lock section |
| rules (`core/src/rules/`), incidents (`hub/src/main.rs`), `ark diagnose` (`agent/src/diag.rs`) | Patterns, Matching, Diagnosis | a graph that changes while it is matched, wildcards |
| rule files and `rules-migrate` (`core/src/bin/`) | RuleFiles | writes that fail half way, ids, packs |
| hub ingest (`hub/src/main.rs`, `dedup.rs`, `wal.rs`) | HubIngest | connections interleave, crash in a rotation, torn lines, buffered writes |
| forwarder (`agent/src/hub_forwarder.rs`) | OutboundQueue, HubForwarder, EdgeRollup | sends that fail late or never, full queue, folded events |
| connection table and fix commands (`hub/src/main.rs`, `agent/src/hub_forwarder.rs`, `exec/`) | Connections, FixDelivery | an old task ends after the node is back, an abort in the middle of an action |
| diagnose and execute guard, Kubernetes controller and operator (`hub/src/`) | Remediation | a time taken early, check and record apart, failing API calls, restarts |
| IPC, audit log, `ark fix`, `ark zap` (`agent/src/`) | Ipc, AuditLog, ArkFix | a daemon that dies, a reused pid, two processes rotating one file |

`PROJECT.json` lists every part ("components") and every hazard with its line
and the properties that cover it ("hazards").

## The modules

### Core

**StateGraph** — one action per lock section of `process_event`: the handler,
the check of `last_cleanup_ts`, the snapshot of the cleanup under a read lock,
its application under the write locks, the stamp. A `Worker` is a caller: the
agent and the WAL replay have one, the hub one per connection. The node map is
split by node type; a process keeps `last_update` and `state`, an error its
`last_update`, a resource only its existence. The edge vector is a set: the
choice among edges of equal timestamp when it is truncated is left open.
`exit` and `zombie` are one state. `find_root_cause_by_id` is an operator; its
answer is the set of errors and of awaited resources, without their texts.
The `signal::` nodes are in Signals: no edge reaches them.

**GraphLocks** — the locks alone: each method is the sequence of locks it takes,
tokio's `RwLock` is a first-come-first-served queue. It justifies, and limits,
taking a lock section of StateGraph as one step.

**Signals** — one signal of one entity: `on_event` in one section of the engine's
lock (window, trimming, emission at most once per step), the node of the graph
written in a later section of another lock. A value is kept as sum and count.

**Patterns, Matching** — `matches_single_pattern`, which looks for the parts
between the stars one behind the other, and the meaning of a wildcard (`Glob`:
the text can be cut into one piece per place of the pattern); every kind of
condition, `all` and `any`, and `match_first_simple`, as operators. A value is
the number it parses to, which may be NaN, or that it is none, and the words it
contains. `Conditions` are the conditions there are, trees of a bounded depth
(`Nesting`).

**RuleFiles** — `load_from_dir` (manifest, packs, ids, legacy conditions, strict
mode, priorities) and `rules-migrate` file after file, in place, beside the files
or into another directory. A file is what loading looks at: a rule, or no YAML
mapping, or a mapping that lacks something, or bytes that are no text. The tool
reads any YAML: of an `all` or `any` that is no list (`Stray`), which loading
refuses, it takes no notice. A write may fail and leave nothing, a file that is
no rule, or a rule with some of its conditions.

**Diagnosis** — composes RuleFiles, Matching and Signals: the hub loads the
rules; the graph and the signal change at any time; an incidents request copies
its events and reads edges and nodes anew for every rule, in two lock sections.
`seen` and `kept` record what was in the graph at some time, and all the time,
since the request began. `run_diagnosis` is the rule part of `ark diagnose`,
which may end before it has a verdict: the daemon does not answer, or the rules
do not load.

### Hub

**HubIngest** — one event at a time per connection through
`accept_event_with_dedup`, graph, buffer and `append_wal_event`; the steps of
`rotate_wal` are separate, and they and the reading of the size may fail;
tokio's `File` accepts a line before it is written (`inflight`). A crash may
fall between any two steps and lose, tear or keep the line in flight; `Restart`
is the crash, `replay_wal` (a `replay_wal_file` per file, line by line) and
`open_wal_writer`. A line cut off inside a character makes `replay_wal` fail,
and the hub does not start (`RestartFails`). A line has length one, and the
graph is the set of events it has processed. A restart is one step: nothing is
served before the replay is complete. A write that fails after tokio's `File`
has accepted its line is not modelled.

**Connections** — the hub's table: temporary id at accept, the node's id at its
first event (a removal and an insertion, two steps), removal at the end, no
removal after a read error; `Fix` is the HTTP route. How many messages a broken
connection takes before a write fails is open.

**Remediation** — diagnose requests behind the `ExecuteGuard`, tasks spawned for
faults, and the operator loop, with failing API calls and restarts. A diagnose
request is dropped where it waits when its client goes away (`Cancel`). A poll
sees as many requests as the list limit allows. An eviction empties a node of
the pods it is for (`occupied`), or the API refuses some, which is only logged;
the cluster places new ones on nodes that are not tainted. Rule matching is any
scene and any list of processes. Kubernetes names and which pods an eviction
is for are abstracted; the controller is enabled.

### Agent

**OutboundQueue** — the abstract specification of the forwarder: a queue that
keeps the order, sends nothing twice, and gives up only its oldest event, only
when it is full, and counts it.

**HubForwarder** — `forward_event_with_retry` step by step, the connections it
opens, and a hub that reads each of them in a task of its own. A connection is
cut unnoticed; a send on it may still return Ok, or fail with the bytes gone or
not. It implements OutboundQueue (`KeepsPromise`): the queue is the pending
events followed by the one in hand.

**EdgeRollup** — the consumer loop: `should_forward` and what it remembers, in
front of HubForwarder. A load is above 80, below 1, between, or no number.

**FixDelivery** — composes Connections with the agent: the inbox of each
WebSocket, the command listener, `handle_command`, and the executor's steps
(signal, sleep, kill; link down, link up), any of which may fail. A reconnect
aborts the listener wherever it is, and throws away what it had not read; an `ip`
command the listener was waiting for goes on without it (`orphan`).

**Ipc** — `handle_client_unix` one frame at a time, clients that make one call
per connection, one that streams frames, and a daemon that dies and is started
again. A root-cause query may lock the daemon's graph for good (see
`why_deadlock`); whoever asks for the graph after that waits as long as the
daemon lives. Four bytes of JSON text always read as a length above the limit,
so the body of an oversized frame is one more such frame.

**AuditLog** — open, `log` and the two steps of `rotate_log`, by several processes.
A file is the set of its entries; an open file outlives its name.

**ArkFix** — composes Ipc and AuditLog with `ark fix` (ping, why, the question, the
actions by priority, the entry) and `ark zap` (group, kill) on one pid, whose
process may end and whose number may be used again. A SIGKILL is sent in one step
and the process ends in a later one.

`*Proofs` hold theorems; `MC*` modules and `.cfg` files instantiate the modules
for TLC. A definition marked "Mutant" is a wrong version of the one that follows
it; `PROJECT.json` names the property that notices it.

## The runs

| run | checks | result |
| --- | --- | --- |
| `graph` | `TypeOK IndexesExact NoDangling WhyExact CleanupRemovesOnlyDead CleanupComplete`: one caller, two hosts | holds |
| `stale_cleanup` | `CleanupRemovesOnlyDead` with two callers | violated |
| `graph_locks` | `NoDeadlock CallsReturn`: three tasks, every method but `why` | holds |
| `why_deadlock` | `WhyReturns`: a handler and a root-cause query | violated |
| `hub_ingest` | `TypeOK WalBounded RecentLogged RestartRestores DedupSuppresses` | holds |
| `forwarder` | `TypeOK Accounted HubSees PictureHolds KeepsPromise CallEnds`: EdgeRollup over HubForwarder | holds |
| `fix_delivery` | `TypeOK EntriesOwned LostToNamesake CommandsInOrder DownWhileRestarting InboxDrains` | holds |
| `fix_unreachable` | `NotConnectedIsTrue` | violated |
| `remediation` | `TypeOK PermitsHeld CooldownUpToLag TaintFirst SucceededIsTrue RunsOnce` | holds |
| `node_cooldown` | `NodeCooldown` | violated |
| `diagnosis` | `WindowExact NodeIsRecent IncidentsJustified MigrationKeepsRules PatternIsGlob` | holds |
| `ark_fix` | `AnswersAligned EntryKept SuccessMeansKilled FixEnds` | holds |

The four violations are differences between the code and what its comments,
documents or answers say; each is described under "findings":

* the cleanup applies a snapshot that another connection may have overtaken, and
  removes a process that has been started again;
* `find_root_cause_by_id` takes `edge_out_index` before `nodes`, every writer the
  other way round, and the two can block each other for good;
* the task of an old connection removes the entry of the node's new one, after
  which `POST /api/v1/fix` says that a connected node is not connected;
* two fault tasks of one node both pass the cooldown check.

Several properties hold only up to an exception that the code really has; the
property names it, and what it leaves out is part of the result:

* `EntryKept`: two rotations within one second take the same name, and the second
  one replaces the first one's file;
* `DownWhileRestarting`: a failed `ip link set up`, a reconnect between down and
  up, or a `down` that outlives its listener leaves the interface down, until the
  next `up` that succeeds;
* `NodeIsRecent`: two callers that both have a point to write may write them in
  either order, so that the node may show a point that was still to be written
  when the last one was emitted, but none older;
* `SucceededIsTrue`: an eviction the API refused is only logged, and the request
  is marked Succeeded;
* `FixEnds`: a fix whose request waits in a daemon that is locked for good;
* `AnswersAligned`: after an oversized frame answers and frames are out of step;
* `SuccessMeansKilled`: `ark zap` may have a group through which the process is not
  reached (a blank in its name makes the tool read another field, or others of
  the group may be signalled and it may not). A process that was sent a SIGKILL
  may be long in ending. The property is about the process that held the pid at
  first; the next holder of a reused pid may be killed;
* `MigrationKeepsRules`: files a failed write has left in pieces; files refused for
  something stray in their conditions, of which the tool makes rules; copies beside
  their originals, whose ids clash so that the directory does not load; a rule
  without an id in a pack the tool does not know, which gets another id;
* `RunsOnce`: a request runs again when the phase Running could not be written;
* `CooldownUpToLag`: the cooldown is shorter by the time a request spent before
  the guard;
* `RecentLogged`, `RestartRestores`: a line is lost when a crash cuts it off in
  flight, when it is glued to one that was cut off, or when it went into the
  rotated file because the reopening had failed and the next rotation removes
  that file; and a hub whose log cannot be read as text does not start;
* `PictureHolds` is about the events the filter lets through, not about their
  arrival, and a binding announced by an event without a number is not told again.

**Bounds.** Time is a few ticks, chosen so that a window can be inside, at its
edge and exceeded, with one exception: in `graph` the timestamps are 1 and 2 and
`EdgeTtl` is 1, so that no edge expires. A third timestamp takes the run beyond
four million states, and a TTL of 0 leaves too few edges for the truncation. The
part of `CleanupComplete` about expired edges rests on the theorem
`OneCallerCleansUp`, which is for every TTL.

* `graph`: one pid and one entity per host, two edges at most before truncation,
  so that the three kinds of edge of one process overflow it. Two callers are
  left to the theorems, which hold for any number, and to `stale_cleanup`.
* `graph_locks`: three tasks, enough for a writer queued between two readers.
* `hub_ingest`: two connections, three events (two within a dedup window of each
  other, the third beyond), one line per file, so that every append rotates.
* `forwarder`: a queue of two and three forwarded events, so that it overflows;
  three connections (a reconnect within a call and one after it); one binding,
  with every kind of event and load.
* `fix_delivery`: two nodes behind one address, one of which reconnects; two
  commands to that one.
* `remediation`: two diagnose requests, or the operator with two requests beside a
  fault task, failing calls, a list limit below the number of requests, and a
  restart. A behaviour exercises one of the
  two halves: they share only the taints and the processed nodes. The theorems
  are about the whole of Remediation.
* `diagnosis`: one rule file in the root and one in a pack, in eleven
  directories that cover the manifests, legacy forms, stray conditions, blank,
  clashing and missing ids, files that are no rules, and an empty one; two runs
  of the tool; three samples; two jobs, one request. A request falls among the
  first samples, and the hub starts on files that were not migrated: what
  migrated files load as is `MigrationKeepsRules`. Texts and patterns are all
  those of up to four characters.
* `ark_fix`: two fixes and a zap, of which two run in one behaviour; a streamer
  with two frames that comes and goes before the first command; one restart of
  the daemon, which dies while somebody is connected; one entry per log file;
  two seconds.

The larger runs have 138,542 (`graph`), 458,019 (`hub_ingest`), 569,930
(`forwarder`), 286,630 (`fix_delivery`), 1,532,061 (`remediation`), 95,741
(`diagnosis`) and 182,086 (`ark_fix`) distinct states.

**Fairness.**

* `GraphLocks`: weak fairness of granting a free lock to the head of its queue and
  of a method that has its locks (tokio polls woken tasks, and the sections await
  nothing but locks); none of calling.
* `EdgeRollup`: weak fairness of the agent's own steps; `CallEnds` therefore
  assumes that a send and a connect return, well or badly: the code sets no
  timeout on them.
* `FixDelivery`: weak fairness of each listener; `InboxDrains` therefore assumes
  that sleeps and the commands run on the host end. None of connecting.
* `ArkFix`: weak fairness of each `ark fix` (except its question, which waits for a
  person) and of the daemon's task for its connection, as long as the daemon
  lives and the task does not wait for the graph's locks; none of starting the
  daemon. A file operation is taken to end.

The other modules claim no liveness.

**Deadlock** is checked except where the system may stop. In `forwarder`,
`fix_delivery`, `diagnosis` and `ark_fix` the bounded supply of events,
commands or requests ends; in `why_deadlock` the stop is the subject, stated as
the temporal property `WhyReturns`.

## What is proved

Every theorem is for all values of the constants, from the named assumptions of
the module it is about: bounds and limits are naturals (queue and buffer not of
size zero), the markers (for "nothing", for a stray condition, for an error) are
none of the things they stand beside, every socket has an owner and an address,
the set of diagnose requests is finite, the processes that write the audit log
are the `ark fix` processes, conditions are trees, a rule file that parses has a
priority and conditions made of them, a rules directory has no migrated copies
before the first migration, a copy lies in its original's folder, no pack is
called `root`, a job has finitely many events in the window, ids and patterns
are sequences of characters. Some theorems assume more and say so:
`RecentAreLogged` and `RestartGivesBack` a limit of at least one line,
`CooldownHolds` a cooldown other than zero, `GraphNeverDeadlocks` that nobody
calls the root-cause query, the one-caller theorems a single caller. The bounds
of a module (events, samples, commands, time) are constants, so the theorems
hold for each of their values; the other restrictions marked "Bound" in the
modules remain.

| module | theorem | property |
| --- | --- | --- |
| GraphProofs | `TypeCorrect`, `IndexesCorrect`, `NoDanglingEdges`, `WhyCorrect` | `TypeOK`, `IndexesExact`, `NoDangling`, `WhyExact`, any number of callers |
| | `OneCallerRemovesOnlyDead`, `OneCallerCleansUp` | `CleanupRemovesOnlyDead`, `CleanupComplete`, one caller |
| | `GraphNeverDeadlocks` | `NoDeadlock`, any number of tasks, every method but `why` |
| HubIngestProofs | `IngestTyped`, `LogBounded`, `RecentAreLogged` | `TypeOK`, `WalBounded`, `RecentLogged` |
| | `RestartGivesBack`, `DuplicatesSuppressed` | `RestartRestores`, `DedupSuppresses` |
| EdgeRollupProofs | `QueueBounded`, `EventsAccountedFor`, `EventsInOrder`, `PictureNeverOpposite` | `TypeOK`, `Accounted`, `SentInOrder`, `PictureHolds` |
| | `HubReadsInOrder` | `HubSees` |
| | `ForwarderKeepsPromise` | `KeepsPromise`: the refinement of OutboundQueue |
| FixDeliveryProofs | `TableTyped`, `EntriesCorrect`, `DisplacedByNamesake`, `DownIsAccountedFor`, `CommandsOrdered` | `TypeOK`, `EntriesOwned`, `LostToNamesake`, `DownWhileRestarting`, `CommandsInOrder` |
| RemediationProofs | `HubTyped`, `PhasesTellTheTruth`, `ExecutedOnce`, `TaintsComeFirst`, `PermitsConserved`, `CooldownHolds` | `TypeOK`, `SucceededIsTrue`, `RunsOnce`, `TaintFirst`, `PermitsHeld`, `CooldownUpToLag` |
| ArkFixProofs | `KillsAreReal`, `EntriesKept`, `AnswersInStep` | `SuccessMeansKilled`, `EntryKept`, `AnswersAligned` |
| PartsProofs | `GraphShowsRecent`, `WindowsCorrect` | `NodeIsRecent`, `WindowExact` of Signals alone |
| | `PatternsMeanGlob` | `matches_single_pattern` is `Glob`, for any text and any pattern with or without stars |
| | `SignalsUndisturbed` | `NodeIsRecent`, `WindowExact` of the whole hub |
| | `PatternsNameProcesses` | `PatternIsGlob` |
| DiagnosisProofs | `IncidentsAreJustified` | `IncidentsJustified` |
| | `FilesInvariant`, `MigrationKeepsMeaning` | the invariant of the rule files, `MigrationKeepsRules` |

*The arguments.*

* **StateGraph.** `TypeOK` is inductive. `IndexesExact` is inductive relative to
  it: an upsert adds the same fresh edges to the vector and the indexes
  (`UpsertExact`), and a cleanup rebuilds both from what it keeps. `NoDangling`: a
  handler creates the ends of an edge in the section that creates the edge, and a
  cleanup, outdated or not, removes in one section a node and the edges at it.
  `WhyExact` follows from the two. The one-caller theorems need `SnapshotFresh`:
  while the only caller is between snapshot and application, the snapshot is what
  it would compute now. With a second caller this is false, and `stale_cleanup` is
  the counterexample.
* **GraphLocks.** `LockInv`: who holds a lock has taken it in its plan, who
  waits for it takes it next, and nobody waits twice. Every plan but that of
  `why` takes its locks in one order (`PlansAscend`), so a task waits for a lock
  above all it holds (`HoldsLower`) and only for one (`WaitsOnce`). If every
  task of a set waited for one of the set, the task in its way, or the one in
  front of it, would hold that lock and wait for a higher one, and so on above
  the highest.
* **HubIngest.** `LogInv` says where the descriptor is after a failed rotation and
  what the writer knows at each step; the line in flight counts, which gives the
  one line over. `RecentInv`: the event acknowledged k-th last is lost or is one of
  the last k lines of the log, read as the rotated file followed by the active
  one and the line in flight. A rotation moves the boundary between the files and
  does not change that reading. A loss is marked where it happens (`lost`), so the
  invariant has to show that nothing else goes missing.
  `Restored`: what the replay of a list of lines has built when it is through,
  whatever the list: an event of the graph is still in the deduplicator, or one
  more than a window later has been seen. With `RecentInv`, and every line of the
  list being in the graph, this gives `RestartRestores`. `Seen` says the same of the
  hub between restarts: an event of the graph or in a connection's hands is in
  the deduplicator or overtaken, and what is on disk is in the graph. A hub that
  cannot start has seen nothing and does nothing.
* **EdgeRollup.** `Sound`: an event is sent directly while others wait only over a
  connection that is not usable, so the send fails and nothing overtakes. From it
  every step is a step of the queue or a stutter (`QueueStep`), and the order and
  the accounts follow from the queue's steps alone (`Books`). `Pictured`: what the
  hub was told last is the value the filter compares with. `Delivery` follows the
  events on: what is on the wires and what the hub has read was sent or is
  doubtful, goes up along every wire and continues what was read from it, and an
  event in two places is doubtful.
* **FixDelivery.** `TableInv`: a task goes by no id, its address's or its node's.
  `OrderInv`: a node has at most one inbox that holds commands, and its numbers go
  up from the ones taken up; a reconnect empties the old inbox, which is what
  makes it true.
* **Remediation.** `OperatorInv`: what a poll has yet to take up is Pending, and
  a request that is Pending has only runs whose Running was not written; and
  what has been carried out stays so, for nobody removes a taint and pods come
  only to nodes without one (`CarriedStays`). `ControllerInv`: a call that
  evicts or records has tainted. `PermitInv`. `GuardInv`: the time recorded for
  a command is not after the time it was sent. `Clocked` adds what the type
  invariant needs beside these: no time lies in the future.
* **ArkFix.** `Done`: a kill that counts as executed has hit the first holder of
  the pid or came when that had left it, and a group read from another process
  was read after it. `Kept`: a file a process has open has a name, until two
  rotations collide. `InStep`: what is left to read continues the frames where
  the answers end, every answer is about its frame and no frame is lost, each up
  to the first oversized frame; the pieces of such a frame only add to what is
  read after it.
* **Patterns.** From a cut of the text as `Glob` wants it, the cursor after each
  part is never behind the cut (`CursorWaits`), so the search does not fail.
  From a search that succeeds, the places where the parts were found are a cut,
  with the last part moved to the end of the text (`FoundCuts`).
* **Diagnosis.** More edges and nodes never make a condition fail
  (`MatchGrows`), so a match against edges and nodes read in two sections is one
  against all that was `seen`, and a match against what was `kept` is found.
  `Serving` carries this through the request: the incidents so far are
  justified, and every pair of job and rule already dealt with that matches
  `kept` is among them (`Working`). At the end the sort and the limit keep what
  nothing left out outranks (`EndJustified`).
* **RuleFiles.** `FilesInv`: a file of the rules directory or of the output
  directory that no failed write has torn is what a migration may make of its
  original (`Migrated`): absent or no rule as that is, or a rule of the same
  scene and priority, with the same id or the one `ensure_rule_id` infers, whose
  conditions match the same (`Means`). `Means` is transitive and an `all` is its
  parts taken together (`AllIsItsParts`), so a file that is migrated again is
  still covered. A file with something stray counts as torn once the tool has
  written it, since what it becomes is no migration of a rule.
  `MigrationKeepsRules` then compares two loads. The files that load are in
  one-to-one correspondence, a file with its original, and this keeps the order
  of their names (`DirMeansTheSame`, `OutMeansTheSame`); a file's place among
  the rules is the number of those before it by priority and name, which such a
  correspondence keeps (`PlacesKept`, from the library's theorems on
  cardinality); and a file that is no text, which makes the whole load fail, is
  one in both or torn (`UnreadableKept`); hence the lists agree rule by rule
  (`LoadsAlike`).
* **Signals.** `RecentInv`: what is yet to be written is the last point or one
  of its rivals, and once nothing is, the graph shows one of them. `WindowInv`:
  the window is a suffix of what arrived, and what left it is too old for some
  sample that arrived.

What a recursive function computes is proved without an induction rule: if a
statement fails for some index there is a least one (`LeastExists`, from the
well-foundedness of the naturals), and the equation of the function contradicts
it there. That such a function exists at all is proved in the same way
(`CursorsExist`, `MetSetExists`, and the replay's states).

Only model-checked: liveness, which is out of the prover's reach (`CallsReturn`,
`CallEnds`, `InboxDrains`, `FixEnds`). Every invariant and every action property
that a passing run checks is also a theorem.

## Not modelled

* Metrics: no decision depends on them. Report texts and HTTP formatting.
* The read-only routes of the hub other than incidents: they change no state. The
  classification of slow training is a table of thresholds.
* The request to a language model in `ark diagnose`, and the doctor command: I/O.
* The scene analyzers (`agent/src/scene/`): no command calls them. `ark fix` has an
  identification of its own, which is in ArkFix.
* Probes, plugins and the event bus: they supply the events that the modules take
  as inputs; the bounded channel delays them. The eBPF probe is kernel code.
* The effects of the cgroup throttle, of node isolation and of custom commands on
  the host: in FixDelivery they are one step of the listener.
* The mapping of node ids to Kubernetes names, and which pods an eviction is for.
* The repair of a log that cannot be replayed.
* `ark diagnose` with more than one rule: the choice among rules is in
  `match_first_simple`, which the model calls with one.
* The 64-bit fingerprint of an event is taken to be unique.
* The load generator `graph-stress`.
