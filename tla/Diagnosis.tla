----------------------------- MODULE Diagnosis -----------------------------
(***************************************************************************)
(* From evidence to incidents: the hub loads the rules when it starts      *)
(* (RuleFiles), events feed the graph and its signals (Signals), and       *)
(* GET /api/v1/incidents (hub/src/main.rs) matches every rule against the  *)
(* events of every job and the graph (Matching). `ark diagnose'            *)
(* (agent/src/diag.rs) matches events alone.                               *)
(*                                                                         *)
(* Other tasks change the graph at any time (StateGraph says how); a rule  *)
(* is matched against edges and nodes read in two lock sections, and the   *)
(* next rule against edges and nodes read again.                           *)
(***************************************************************************)
EXTENDS RuleFiles, Signals

CONSTANTS
    Jobs,           \* the keys of `grouped', "__no_job__" among them
    Candidates,     \* sets of events a job may have in the window
    Edges, Nodes,   \* edges and nodes of the graph, apart from the signal's
    SignalNode,     \* the name and the entity of the signal
    Limits,         \* values of the `limit' parameter
    Texts,          \* entity ids
    PatternTexts,   \* entity_id_patterns
    RequestSamples  \* bound: a request falls among the first samples

ASSUME DiagnosisConstants ==
    /\ \A events \in Candidates : IsFiniteSet(events)
    /\ Limits \subseteq Nat
    /\ Texts \subseteq Seq(STRING) /\ PatternTexts \subseteq Seq(STRING)
    /\ \A pattern \in PatternTexts : {pattern} # Absent

VARIABLES
    phase,          \* "offline", "refused", "serving", "diagnosed", "undiagnosed"
    rules,          \* RuleEngine.rules
    edges, nodes,
    request,        \* the incidents request
    \* history
    seen, kept,     \* the edges and nodes that were there at some time, and all
                    \* the time, since the request began
    verdict         \* what `ark diagnose' was asked and which rule it named

graphVars == <<edges, nodes>>
requestVars == <<request, seen, kept>>
diagVars == <<phase, rules, graphVars, requestVars, verdict>>
allVars == <<fileVars, signalVars, diagVars>>

NoRequest == [pc |-> "none"]
Nothing == [edges |-> {}, nodes |-> {}]
NoFiles == [manifest |-> "none", files |-> Empty]

\* The node that InsertNode writes. Its value is that of a counter, in samples
\* per window.
SignalNodes(point) ==
    IF point = NoPoint THEN {}
    ELSE {[id |-> <<"signal">>, node_type |-> "resource",
           signal |-> SignalNode.signal, entity |-> SignalNode.entity,
           metadata |-> [value |-> [num |-> point.count, says |-> {}]]]}

Graph == [edges |-> edges, nodes |-> nodes \union SignalNodes(signal)]

Init ==
    /\ FilesInit /\ SignalInit
    /\ phase = "offline" /\ rules = <<>>
    /\ edges = {} /\ nodes = {}
    /\ request = NoRequest /\ seen = Nothing /\ kept = Nothing
    /\ verdict = [rule |-> 0, text |-> <<>>, pattern |-> <<>>]

\* What every step means for the history of the request.
Witness ==
    IF request.pc = "none" THEN UNCHANGED <<seen, kept>>
    ELSE /\ seen' = [edges |-> seen.edges \union Graph'.edges, nodes |-> seen.nodes \union Graph'.nodes]
         /\ kept' = [edges |-> kept.edges \intersect Graph'.edges,
                     nodes |-> kept.nodes \intersect Graph'.nodes]

-----------------------------------------------------------------------------
(* Before the hub serves. *)

Migrate ==
    /\ phase = "offline"
    /\ FilesNext
    /\ UNCHANGED <<signalVars, diagVars>>

\* main: the rules are loaded once, and the hub ends when that fails. What
\* becomes of the files afterwards no longer matters, and neither does a rule's
\* id. Bound: before any migration; what the files load as during and after one
\* is what MigrationKeepsRules is about.
Start(strict) ==
    /\ phase = "offline" /\ runs = 0
    /\ LET loaded == load_from_dir(dir, strict) IN
       IF loaded = Err
       THEN phase' = "refused" /\ rules' = <<>>
       ELSE /\ phase' = "serving"
            /\ rules' = [i \in DOMAIN loaded |-> [loaded[i] EXCEPT !.id = i]]
    /\ dir' = NoFiles /\ out' = NoFiles /\ tool' = Idle /\ runs' = 0
    /\ original' = NoFiles /\ torn' = {}
    /\ UNCHANGED <<signalVars, graphVars, requestVars, verdict>>

\* extract_virtual_events_from_causes: the words of a cause decide its type,
\* and the entity of what it becomes is a pattern's text; processes that wait
\* become events of their own.
GpuAny == <<"g", Star>>
NetworkAny == <<"n", Star>>
extract_virtual_events_from_causes(causes, processes) ==
    LET Virtual(type, id, value) == [event_type |-> type, entity_id |-> id, value |-> value]
        hw == {c \in causes : {"error.hw", "GPU", "OOM"} \intersect c.says # {}}
        net == {c \in causes \ hw : {"network"} \intersect c.says # {}} IN
    {Virtual("error.hw", GpuAny, c) : c \in hw} \union {Virtual("error.net", NetworkAny, c) : c \in net}
    \union {Virtual("process.state", p.id, p.state) :
            p \in {q \in processes : q.state.says \intersect {"blocked", "waiting"} # {}}}

ProcessRule(pattern) ==
    [id |-> 1, priority |-> 1,
     conditions |-> <<[type |-> "event", event_type |-> "process.state",
                       entity_id_pattern |-> {pattern}, value_pattern |-> Absent,
                       value_threshold |-> Absent]>>]

\* run_diagnosis with the rule for processes whose ids look like the pattern,
\* when the process `text' is blocked. Without a match the model is asked, and
\* so it is when the rules do not load; when the daemon does not answer, nobody.
run_diagnosis(text, pattern) ==
    /\ phase = "offline" /\ tool = Idle /\ runs = 0 /\ dir = NoFiles
    /\ LET blocked == [id |-> text, state |-> [num |-> NoNumber, says |-> {"blocked"}]] IN
       \/ /\ phase' = "diagnosed"
          /\ verdict' = [text |-> text, pattern |-> pattern,
                         rule |-> match_first_simple(<<ProcessRule(pattern)>>,
                                      extract_virtual_events_from_causes({}, {blocked}))]
       \/ phase' = "undiagnosed" /\ UNCHANGED verdict
    /\ UNCHANGED <<fileVars, signalVars, rules, graphVars, requestVars>>
-----------------------------------------------------------------------------
(* The incidents request. *)

\* The other tasks that write to the graph.
GraphChanges ==
    /\ phase = "serving"
    /\ \/ edges' \in SUBSET Edges /\ UNCHANGED nodes
       \/ nodes' \in SUBSET Nodes /\ UNCHANGED edges
    /\ UNCHANGED <<fileVars, signalVars, phase, rules, request, verdict>>
    /\ Witness

SignalChanges ==
    /\ phase = "serving"
    /\ SignalNext
    /\ request.pc = "none" \/ Len(arrived') <= RequestSamples
    /\ UNCHANGED <<fileVars, phase, rules, graphVars, request, verdict>>
    /\ Witness

\* incidents_route: the events of the window, copied in one lock section and
\* grouped by job. Bound: one request.
BeginRequest(events, limit) ==
    /\ phase = "serving" /\ request = NoRequest
    /\ Len(arrived) <= RequestSamples
    /\ request' = [pc |-> "group", events |-> events, limit |-> limit,
                   todo |-> {j \in Jobs : events[j] # {}}, job |-> Absent, rule |-> 0,
                   edges |-> {}, incidents |-> <<>>]
    /\ seen' = Graph /\ kept' = Graph
    /\ UNCHANGED <<fileVars, signalVars, phase, rules, graphVars, verdict>>

\* aggregate_incidents takes the groups in any order.
NextGroup(j) ==
    /\ request.pc = "group" /\ j \in request.todo
    /\ request' = [request EXCEPT !.pc = "edges", !.todo = @ \ {j}, !.job = j, !.rule = 1]
    /\ UNCHANGED <<fileVars, signalVars, phase, rules, graphVars, seen, kept, verdict>>

\* match_rules: a rule begins with the edges, or there is none left.
ReadEdges ==
    /\ request.pc = "edges"
    /\ request' = IF request.rule > Len(rules) THEN [request EXCEPT !.pc = "group"]
                  ELSE [request EXCEPT !.pc = "nodes", !.edges = edges]
    /\ UNCHANGED <<fileVars, signalVars, phase, rules, graphVars, seen, kept, verdict>>

Incident(i, j) ==
    [rule |-> i, job |-> j, priority |-> rules[i].priority,
     event_count |-> Cardinality(request.events[j])]

\* Mutant: the first rule that matches ends the group.
ReadNodes_FirstOnly ==
    /\ request.pc = "nodes"
    /\ LET i == request.rule
           hit == match_all_conditions(rules[i].conditions, request.events[request.job],
                                       request.edges, Graph.nodes) IN
       request' = [request EXCEPT !.pc = IF hit THEN "group" ELSE "edges", !.rule = i + 1, !.edges = {},
                       !.incidents = IF hit THEN Append(@, Incident(i, request.job)) ELSE @]
    /\ UNCHANGED <<fileVars, signalVars, phase, rules, graphVars, seen, kept, verdict>>

\* Then the nodes, in a section of their own, and the rule is matched.
ReadNodes ==
    /\ request.pc = "nodes"
    /\ LET i == request.rule
           hit == match_all_conditions(rules[i].conditions, request.events[request.job],
                                       request.edges, Graph.nodes) IN
       request' = [request EXCEPT !.pc = "edges", !.rule = i + 1, !.edges = {},
                       !.incidents = IF hit THEN Append(@, Incident(i, request.job)) ELSE @]
    /\ UNCHANGED <<fileVars, signalVars, phase, rules, graphVars, seen, kept, verdict>>

\* Sorted by priority, then by the number of events (a stable sort), and cut.
Outranks(x, y) ==
    \/ x.priority > y.priority
    \/ x.priority = y.priority /\ x.event_count > y.event_count

Sorts(order, incidents) ==
    /\ \A n \in DOMAIN incidents : \E k \in DOMAIN order : order[k] = n
    /\ \A k, l \in DOMAIN order : k < l =>
          \/ Outranks(incidents[order[k]], incidents[order[l]])
          \/ ~ Outranks(incidents[order[l]], incidents[order[k]]) /\ order[k] < order[l]

aggregate_incidents(order, incidents, limit) ==
    LET sorted == [k \in DOMAIN order |-> incidents[order[k]]] IN
    SubSeq(sorted, 1, IF limit < Len(incidents) THEN limit ELSE Len(incidents))

EndRequest ==
    /\ request.pc = "group" /\ request.todo = {}
    /\ \E order \in [DOMAIN request.incidents -> DOMAIN request.incidents] :
          /\ Sorts(order, request.incidents)
          /\ request' = [pc |-> "done", events |-> request.events, limit |-> request.limit,
                         todo |-> {}, job |-> Absent, rule |-> 0, edges |-> {},
                         incidents |-> aggregate_incidents(order, request.incidents, request.limit)]
    /\ UNCHANGED <<fileVars, signalVars, phase, rules, graphVars, seen, kept, verdict>>

Request ==
    \/ \E events \in [Jobs -> Candidates], limit \in Limits : BeginRequest(events, limit)
    \/ \E j \in Jobs : NextGroup(j)
    \/ ReadEdges \/ ReadNodes \/ EndRequest

Next ==
    \/ Migrate
    \/ \E strict \in BOOLEAN : Start(strict)
    \/ \E text \in Texts, pattern \in PatternTexts : run_diagnosis(text, pattern)
    \/ request.pc # "done" /\ (GraphChanges \/ SignalChanges)
    \/ Request

Spec == Init /\ [][Next]_allVars

-----------------------------------------------------------------------------
(* Properties. *)

\* Rules are matched against a graph that moves on between the lock sections,
\* and still: every incident of an answer has its conditions met by events of
\* its job and by edges and nodes that were there during the request; and a
\* rule whose conditions are met by a job's events and by what was there all
\* the time is in the answer, unless the limit cut it off and nothing in the
\* answer ranks lower.
IncidentsJustified ==
    request.pc = "done" =>
        LET answer == Range(request.incidents) IN
        /\ \A x \in answer : match_all_conditions(rules[x.rule].conditions, request.events[x.job],
                                                 seen.edges, seen.nodes)
        /\ \A i \in DOMAIN rules, j \in Jobs :
               request.events[j] # {} /\ match_all_conditions(rules[i].conditions, request.events[j],
                                                              kept.edges, kept.nodes)
               => \/ Incident(i, j) \in answer
                  \/ /\ Len(request.incidents) = request.limit
                     /\ \A x \in answer : ~ Outranks(Incident(i, j), x)

\* Two lists of loaded rules are the same, apart from how conditions are put.
Alike(cs, ds) ==
    \A events \in Candidates, es \in SUBSET Edges, ns \in SUBSET Nodes :
        match_all_conditions(cs, events, es, ns) = match_all_conditions(ds, events, es, ns)

SameRules(x, y) ==
    /\ x # Err /\ y # Err /\ Len(x) = Len(y)
    /\ \A i \in 1..Len(x) : /\ x[i].id = y[i].id /\ x[i].priority = y[i].priority
                            /\ Alike(x[i].conditions, y[i].conditions)

\* What a directory without some of its files loads as.
LoadWithout(d, ps) ==
    load_from_dir([manifest |-> d.manifest,
                   files |-> [p \in Paths |-> IF p \in ps THEN Absent ELSE d.files[p]]], FALSE)

\* The rules there were to begin with; the ones without an id lie where the
\* tool and the engine agree about their pack.
Readable(p) == original.files[p] # Absent /\ original.files[p].parses
PacksKnown ==
    \A p \in Originals : Readable(p) =>
        original.files[p].id # Absent \/ Place[p] \in KnownPacks \union {"root", "legacy"}
PackFiles == {p \in Originals : Place[p] \notin {"root", "legacy"}}

TornIn(where) == {p \in Paths : <<where, p>> \in torn}

\* rules-migrate never changes what the rules mean: at any moment, also when a
\* run has ended half way, the directory loads as the rules it held at first,
\* or, when copies lie beside them, not at all; and so does the directory of
\* --out-dir once it is complete, except for the packs, which need the
\* manifest. Apart from files a failed write has left in pieces and files that
\* the engine refuses for something stray in their conditions and the tool makes
\* a rule of, and unless a rule without an id lies in a pack that the tool does
\* not know.
MigrationKeepsRules ==
    load_from_dir(original, FALSE) # Err /\ PacksKnown =>
        /\ LET now == LoadWithout(dir, TornIn("dir")) IN
           \/ now = Err /\ \E p \in Paths \ Originals : dir.files[p] # Absent
           \/ \E lost \in SUBSET TornIn("dir") : SameRules(now, LoadWithout(original, lost))
        /\ (\A p \in Originals : Readable(p) => out.files[p] # Absent)
           /\ original.manifest \in {"none", "ok"}
           => LET anyTorn == TornIn("dir") \union TornIn("out") IN
              \E lost \in SUBSET anyTorn :
                  SameRules(LoadWithout(out, anyTorn \union (Paths \ Originals)),
                            LoadWithout(original, lost \union PackFiles))

\* A process whose id is a text is named by the rule with an entity_id_pattern
\* exactly when the pattern, read as a wildcard pattern, describes the text:
\* looking for the parts from left to right, each at its first place, misses
\* nothing and takes nothing else.
PatternIsGlob ==
    phase = "diagnosed" => (verdict.rule = 1 <=> Glob(verdict.text, verdict.pattern))

=============================================================================
