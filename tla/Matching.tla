------------------------------ MODULE Matching ------------------------------
(***************************************************************************)
(* RuleMatcher (core/src/rules/matcher.rs) and match_first_simple          *)
(* (core/src/rules/mod.rs): conditions against events, edges and nodes.    *)
(*                                                                         *)
(* A value is [num, says]: the number it parses to, which may be NaN, or   *)
(* NoNumber, and the words it contains. A pattern is the set of its        *)
(* alternatives, each a sequence of characters. An optional field that is  *)
(* not there is Absent.                                                    *)
(***************************************************************************)
EXTENDS Integers, Patterns

CONSTANTS
    Absent,
    NoNumber, NaN,  \* a text that is no number, and one that says `NaN'
    Conditions,     \* the conditions rules are made of, with the parts of `all' and `any'
    Nesting         \* bound: how deep `all' and `any' are nested

\* enum Condition: a tree, of finite depth.
ASSUME ConditionsAreTrees ==
    /\ Nesting \in Nat
    /\ \E depth \in [Conditions -> 0..Nesting] :
           \A c \in Conditions : c.type \in {"all", "any"} =>
               \A i \in DOMAIN c.conditions :
                   c.conditions[i] \in Conditions /\ depth[c.conditions[i]] < depth[c]

matches_pattern(text, pattern) == \E p \in pattern : matches_single_pattern(text, p)
matches_value_pattern(value, words) == words \intersect value.says # {}

\* An optional condition: absent, or met.
Given(field, met) == field = Absent \/ met

\* Every comparison with NaN is false.
Below(x, y) == NaN \notin {x, y} /\ x < y
AtMost(x, y) == NaN \notin {x, y} /\ x <= y

\* Numbers when both sides are numbers (or the rule insists on it), else texts,
\* which can only be compared for equality and searched. Numbers closer than
\* 0.001 are equal: here they are multiples of it.
compare_value(actual, target, op, value_type) ==
    LET numbers == NoNumber \notin {actual.num, target.num}
        ByNumber == \/ op = "gt" /\ Below(target.num, actual.num)
                    \/ op = "lt" /\ Below(actual.num, target.num)
                    \/ op = "gte" /\ AtMost(target.num, actual.num)
                    \/ op = "lte" /\ AtMost(actual.num, target.num)
                    \/ op = "eq" /\ AtMost(actual.num, target.num) /\ AtMost(target.num, actual.num)
                    \/ op = "ne" /\ (Below(actual.num, target.num) \/ Below(target.num, actual.num))
                    \/ op = "contains" /\ target.says \subseteq actual.says
        ByText == \/ op = "eq" /\ actual = target
                  \/ op = "ne" /\ actual # target
                  \/ op = "contains" /\ target.says \subseteq actual.says IN
    CASE value_type = "numeric" -> numbers /\ ByNumber
      [] value_type = "string" -> ByText
      [] value_type = "auto" -> IF numbers THEN ByNumber ELSE ByText

\* A value below the threshold does not match, and NaN is not below.
EventMatches(c, e) ==
    /\ e.event_type = c.event_type
    /\ Given(c.entity_id_pattern, matches_pattern(e.entity_id, c.entity_id_pattern))
    /\ Given(c.value_pattern, matches_value_pattern(e.value, c.value_pattern))
    /\ Given(c.value_threshold, e.value.num # NoNumber /\ ~ Below(e.value.num, c.value_threshold))

EdgeMatches(c, e) ==
    /\ e.edge_type = c.edge_type
    /\ Given(c.from_pattern, matches_pattern(e.from, c.from_pattern))
    /\ Given(c.to_pattern, matches_pattern(e.to, c.to_pattern))

match_metric_condition(m, metadata) ==
    m.key \in DOMAIN metadata /\ compare_value(metadata[m.key], m.target, m.op, m.value_type)

NodeMatches(c, n) ==
    /\ Given(c.node_type, n.node_type = c.node_type)
    /\ Given(c.entity_id_pattern, matches_pattern(n.id, c.entity_id_pattern))
    /\ \A m \in c.metrics : match_metric_condition(m, n.metadata)

\* The id of a signal node is made of the signal's name and its entity; the
\* signal of any other node is Absent.
SignalMatches(c, n) ==
    /\ n.signal = c.signal
    /\ Given(c.entity_id_pattern, matches_pattern(n.entity, c.entity_id_pattern))
    /\ "value" \in DOMAIN n.metadata
    /\ compare_value(n.metadata["value"], c.target, c.op, c.value_type)

LeafHolds(c, events, edges, nodes) ==
    \/ c.type = "event" /\ \E e \in events : EventMatches(c, e)
    \/ c.type = "graph" /\ \E e \in edges : EdgeMatches(c, e)
    \/ c.type = "metric" /\ \E n \in nodes : NodeMatches(c, n)
    \/ c.type = "signal" /\ \E n \in nodes : SignalMatches(c, n)

match_condition_with_snapshot(condition, events, edges, nodes) ==
    LET holds[c \in Conditions] ==
            \/ c.type = "any" /\ \E i \in DOMAIN c.conditions : holds[c.conditions[i]]
            \/ c.type = "all" /\ \A i \in DOMAIN c.conditions : holds[c.conditions[i]]
            \/ LeafHolds(c, events, edges, nodes) IN
    holds[condition]

\* A rule matches when all its conditions do; one without conditions always.
match_all_conditions(conditions, events, edges, nodes) ==
    \A i \in DOMAIN conditions : match_condition_with_snapshot(conditions[i], events, edges, nodes)

\* Only the event conditions of the top level count, and there must be one;
\* the conditions of `all' and `any' are not looked into.
MatchesSimple(conditions, events) ==
    LET top == {i \in DOMAIN conditions : conditions[i].type = "event"} IN
    top # {} /\ \A i \in top : \E e \in events : EventMatches(conditions[i], e)

\* The first rule that matches, by its place in the list, or 0.
match_first_simple(rules, events) ==
    LET hits == {i \in DOMAIN rules : MatchesSimple(rules[i].conditions, events)} IN
    IF hits = {} THEN 0 ELSE Least(hits)

=============================================================================
