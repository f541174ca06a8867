---------------------------- MODULE MCDiagnosis ----------------------------
(* One rule file in the root and one in a pack, two jobs, one edge, one node *)
(* and one signal.                                                           *)
EXTENDS Diagnosis

MCPlace == <<"root", "nvidia", "root", "nvidia">>

Number(n) == [num |-> n, says |-> {}]
Text(w) == [num |-> NoNumber, says |-> {w}]

OomEvent == [event_type |-> "error.hw", entity_id |-> <<"g", "0">>, value |-> Text("OOM")]
LoadEvent == [event_type |-> "compute.util", entity_id |-> <<"g", "0">>, value |-> Number(90)]
NaNEvent == [LoadEvent EXCEPT !.value.num = NaN]
MCCandidates == {{}, {OomEvent, NaNEvent}, {OomEvent, NaNEvent, LoadEvent}}

MCEdges == {[edge_type |-> "blocked_by", from |-> <<"p">>, to |-> <<"e">>]}
MCNodes == {[id |-> <<"g", "0">>, node_type |-> "resource", signal |-> Absent, entity |-> <<>>,
             metadata |-> [util |-> Number(90)]]}
MCSignalNode == [signal |-> "rate", entity |-> <<"g", "0">>]

Oom == [type |-> "event", event_type |-> "error.hw", entity_id_pattern |-> {<<"g", "*">>},
        value_pattern |-> {"OOM"}, value_threshold |-> Absent]
Load == [type |-> "event", event_type |-> "compute.util", entity_id_pattern |-> Absent,
         value_pattern |-> Absent, value_threshold |-> 80]
Blocked == [type |-> "graph", edge_type |-> "blocked_by", from_pattern |-> {<<"p", "*">>},
            to_pattern |-> Absent]
Busy == [type |-> "metric", node_type |-> "resource", entity_id_pattern |-> {<<"g", "*">>},
         metrics |-> {[key |-> "util", op |-> "gte", target |-> Number(80), value_type |-> "auto"]}]
Often == [type |-> "signal", signal |-> "rate", entity_id_pattern |-> Absent, op |-> "gt",
          target |-> Number(0), value_type |-> "numeric"]

AllAre(cs) == [type |-> "all", conditions |-> cs]
AnyIs(cs) == [type |-> "any", conditions |-> cs]
MCConditions ==
    {Oom, Load, Blocked, Busy, Often, AllAre(<<Oom, Blocked, Busy>>), AllAre(<<Blocked, Busy>>),
     AnyIs(<<Load, AllAre(<<Blocked, Busy>>)>>), AllAre(<<Oom, Often>>)}

File(id, scene, priority, conditions) ==
    [parses |-> TRUE, id |-> id, scene |-> scene, priority |-> priority, conditions |-> conditions]
Legacy(all, any) == [form |-> "legacy", all |-> all, any |-> any]

\* The root's file has legacy conditions of every form, without an id; the
\* pack's file has one of its own, none, a blank one, or the root file's.
RootFile(c) == File(Absent, "oom", 2, c)
AllOf == RootFile(Legacy(<<Oom, Blocked, Busy>>, Absent))
AnyOf == RootFile(Legacy(Absent, <<Load, AllAre(<<Blocked, Busy>>)>>))
AllAndSignal == RootFile(Legacy(<<Oom, Often>>, Absent))
AnyAndStray == RootFile(Legacy(Stray, <<Load, AllAre(<<Blocked, Busy>>)>>))
Both == RootFile(Legacy(<<Oom>>, <<Load>>))

PackFile(id, c) == File(id, "slow", 2, AsList(c))
Always == PackFile(<<"x", "y">>, <<>>)
Signal == PackFile(Absent, <<Often>>)

Directory(m, f, g) == [manifest |-> m, files |-> [Empty EXCEPT ![1] = f, ![2] = g]]

MCDirectories ==
    {NoFiles, Directory("ok", AllOf, Signal), Directory("ok", AnyOf, Always),
     Directory("none", AllAndSignal, Always), Directory("no legacy", AllAndSignal, Always),
     Directory("ok", Both, PackFile(Blank, <<Often>>)),
     Directory("ok", AllOf, PackFile(<<"legacy", "oom">>, <<Busy>>)),
     Directory("bad", AllOf, Signal), Directory("ok", AllOf, Unreadable),
     Directory("ok", Fragment, [Always EXCEPT !.priority = 1]),
     Directory("ok", AnyAndStray, Always)}

Symmetry == Permutations(Callers) \union Permutations(Jobs)

Strings(A, n) == UNION {[1..k -> A] : k \in 0..n}
MCTexts == Strings({"a", "b"}, 4)
MCPatternTexts == Strings({"a", "b", "*"}, 4)
=============================================================================
