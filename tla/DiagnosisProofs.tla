-------------------------- MODULE DiagnosisProofs --------------------------
(***************************************************************************)
(* Theorems about Diagnosis: what the incidents request answers, for any   *)
(* rules, jobs, graphs and interleavings, and what rules-migrate leaves of *)
(* the rules, for any rule files, however often it runs and wherever its   *)
(* writes fail.                                                            *)
(***************************************************************************)
EXTENDS Diagnosis, FiniteSetTheorems, TLAPS

\* What makes induction over the naturals available to the provers: a set of
\* counterexamples has a least element.
LEMMA LeastExists ==
    ASSUME NEW T, T \subseteq Nat, T # {} PROVE \E x \in T : \A y \in T : x <= y
<1> DEFINE R == OpToRel(<, Nat)
<1>1. IsWellFoundedOn(R, Nat)
  BY NatLessThanWellFounded, Zenon
<1>2. \A x, y \in Nat : x < y => <<x, y>> \in R
  BY Zenon DEF OpToRel
<1> HIDE DEF R
<1>3. PICK x \in T : \A y \in T : ~ (<<y, x>> \in R)
  BY <1>1, WFMin, Zenon
<1>4. ASSUME NEW y \in T PROVE x <= y
  <2>1. x \in Nat /\ y \in Nat /\ ~ (<<y, x>> \in R)
    BY <1>3, Zenon
  <2>2. ~ (y < x)
    BY <1>2, <2>1, Zenon
  <2> QED  BY <2>1, <2>2
<1> QED  BY <1>3, <1>4, Zenon

-----------------------------------------------------------------------------
(* Conditions. *)

\* What makes a condition hold when the ones in S do.
Met(S, c, events, es, ns) ==
    \/ c.type = "any" /\ \E i \in DOMAIN c.conditions : c.conditions[i] \in S
    \/ c.type = "all" /\ \A i \in DOMAIN c.conditions : c.conditions[i] \in S
    \/ LeafHolds(c, events, es, ns)

MetSet(S, events, es, ns) ==
    S \subseteq Conditions /\ \A c \in Conditions : c \in S <=> Met(S, c, events, es, ns)

Deeper(depth) ==
    \A c \in Conditions : c.type \in {"all", "any"} =>
        \A i \in DOMAIN c.conditions :
            c.conditions[i] \in Conditions /\ depth[c.conditions[i]] < depth[c]

LEMMA DepthExists ==
    \E depth : Deeper(depth) /\ \A c \in Conditions : depth[c] \in Nat /\ depth[c] < Nesting + 1
<1>1. PICK depth \in [Conditions -> 0..Nesting] : Deeper(depth)
  BY ConditionsAreTrees, Zenon DEF Deeper
<1>2. \A c \in Conditions : depth[c] \in Nat /\ depth[c] < Nesting + 1
  BY ConditionsAreTrees
<1> QED  BY <1>1, <1>2, Zenon

\* There is one set of conditions that hold.
LEMMA MetSetExists ==
    ASSUME NEW events, NEW es, NEW ns PROVE \E S : MetSet(S, events, es, ns)
<1> DEFINE M(S, c) == Met(S, c, events, es, ns)
<1>1. PICK depth : Deeper(depth) /\ \A c \in Conditions : depth[c] \in Nat /\ depth[c] < Nesting + 1
  BY DepthExists, Zenon
<1> DEFINE Upto(n, S) == \A c \in Conditions : depth[c] < n => (c \in S <=> M(S, c))
           Bad == {n \in Nat : ~ \E S \in SUBSET Conditions : Upto(n, S)}
<1>2. ASSUME NEW n \in Nat, NEW S \in SUBSET Conditions, Upto(n, S)
      PROVE  \E R \in SUBSET Conditions : Upto(n + 1, R)
  <2> DEFINE R == {c \in Conditions : M(S, c)}
  <2>1. ASSUME NEW c \in Conditions, depth[c] < n PROVE c \in S <=> c \in R
    BY <1>2, <2>1, Zenon
  <2>2. ASSUME NEW c \in Conditions, depth[c] < n + 1 PROVE M(S, c) <=> M(R, c)
    <3>1. ASSUME c.type \in {"all", "any"}, NEW i \in DOMAIN c.conditions
          PROVE  c.conditions[i] \in S <=> c.conditions[i] \in R
      <4>1. c.conditions[i] \in Conditions /\ depth[c.conditions[i]] < depth[c]
            /\ depth[c.conditions[i]] \in Nat /\ depth[c] \in Nat
        BY <1>1, <3>1, Zenon DEF Deeper
      <4>2. depth[c.conditions[i]] < n
        BY <2>2, <4>1
      <4> HIDE DEF R
      <4> QED  BY <2>1, <4>1, <4>2, Zenon
    <3> HIDE DEF R
    <3> QED  BY <3>1, Zenon DEF Met
  <2>3. Upto(n + 1, R)
    BY <2>2, Zenon
  <2> QED  BY <2>3, Zenon
<1>3. \E S \in SUBSET Conditions : Upto(0, S)
  <2>1. \A c \in Conditions : ~ (depth[c] < 0)
    BY <1>1
  <2>2. Upto(0, {})
    BY <2>1, Zenon
  <2> QED  BY <2>2
<1> HIDE DEF M
<1>4. Bad = {}
  <2> SUFFICES ASSUME Bad # {} PROVE FALSE
    OBVIOUS
  <2>1. PICK n \in Bad : \A m \in Bad : n <= m
    <3>1. Bad \subseteq Nat
      OBVIOUS
    <3> HIDE DEF Bad
    <3> QED  BY <3>1, LeastExists, Zenon
  <2>2. n \in Nat /\ n # 0
    BY <1>3, Zenon
  <2>3. n - 1 \in Nat /\ n - 1 \notin Bad
    <3>1. n - 1 \in Nat /\ ~ (n <= n - 1)
      BY <2>2
    <3> HIDE DEF Bad
    <3> QED  BY <2>1, <3>1, Zenon
  <2>4. PICK S \in SUBSET Conditions : Upto(n - 1, S)
    BY <2>3, Zenon
  <2>5. (n - 1) + 1 = n
    BY <2>2
  <2> DEFINE p == n - 1
  <2>6. p \in Nat /\ p + 1 = n /\ Upto(p, S)
    BY <2>3, <2>4, <2>5, Zenon
  <2> HIDE DEF p, Upto
  <2>7. \E R \in SUBSET Conditions : Upto(p + 1, R)
    BY <1>2, <2>6, Zenon
  <2> QED  BY <2>1, <2>6, <2>7, Zenon
<1>5. Nesting + 1 \in Nat
  BY ConditionsAreTrees
<1>6. PICK S \in SUBSET Conditions : Upto(Nesting + 1, S)
  BY <1>4, <1>5, Zenon
<1>7. \A c \in Conditions : c \in S <=> M(S, c)
  BY <1>1, <1>6, Zenon
<1> QED  BY <1>7, Zenon DEF MetSet, M

LEMMA ConditionsHold ==
    ASSUME NEW events, NEW es, NEW ns
    PROVE  \E S : /\ MetSet(S, events, es, ns)
                  /\ \A c \in Conditions : match_condition_with_snapshot(c, events, es, ns) <=> c \in S
<1> DEFINE Body(f, c) ==
               \/ c.type = "any" /\ \E i \in DOMAIN c.conditions : f[c.conditions[i]]
               \/ c.type = "all" /\ \A i \in DOMAIN c.conditions : f[c.conditions[i]]
               \/ LeafHolds(c, events, es, ns)
           Is(f) == f = [c \in Conditions |-> Body(f, c)]
           g == CHOOSE f : f = [c \in Conditions |->
                   \/ c.type = "any" /\ \E i \in DOMAIN c.conditions : f[c.conditions[i]]
                   \/ c.type = "all" /\ \A i \in DOMAIN c.conditions : f[c.conditions[i]]
                   \/ LeafHolds(c, events, es, ns)]
<1>1. \A c : match_condition_with_snapshot(c, events, es, ns) = g[c]
  BY Zenon DEF match_condition_with_snapshot
<1>2. PICK S : MetSet(S, events, es, ns)
  BY MetSetExists, Zenon
<1> DEFINE h == [c \in Conditions |-> c \in S]
<1>3. \A c \in Conditions : h[c] = (c \in S)
  OBVIOUS
<1>4. ASSUME NEW c \in Conditions PROVE (c \in S) = Body(h, c)
  <2>1. c.type \in {"all", "any"} =>
            \A i \in DOMAIN c.conditions : c.conditions[i] \in Conditions
    BY ConditionsAreTrees, Zenon
  <2> HIDE DEF h
  <2>2. c \in S <=> Body(h, c)
    BY <1>2, <1>3, <2>1, ZenonT(30) DEF MetSet, Met
  <2> HIDE DEF Body
  <2>3. Body(h, c) \in BOOLEAN
    BY Zenon DEF Body
  <2> QED  BY <2>2, <2>3
<1>5. Is(h)
  BY <1>4, Zenon
<1>6. Is(g)
  BY <1>5, Zenon
<1> HIDE DEF h, g
<1>7. \A c \in Conditions : g[c] = Body(g, c)
  BY <1>6, Zenon
<1> DEFINE R == {c \in Conditions : g[c]}
<1>8. ASSUME NEW c \in Conditions PROVE c \in R <=> Met(R, c, events, es, ns)
  <2>1. c.type \in {"all", "any"} =>
            \A i \in DOMAIN c.conditions : c.conditions[i] \in Conditions
    BY ConditionsAreTrees, Zenon
  <2>2. c \in R <=> Body(g, c)
    BY <1>7, Zenon
  <2> QED  BY <2>1, <2>2, Zenon DEF Met
<1>9. \A c \in Conditions : match_condition_with_snapshot(c, events, es, ns) <=> c \in R
  BY <1>1, Zenon
<1>10. MetSet(R, events, es, ns)
  BY <1>8, Zenon DEF MetSet
<1> QED  BY <1>9, <1>10, Zenon

\* A leaf that holds still does when there is more.
LEMMA LeafGrows ==
    ASSUME NEW c, NEW events, NEW es, NEW ns, NEW es2, NEW ns2, es \subseteq es2, ns \subseteq ns2,
           LeafHolds(c, events, es, ns)
    PROVE  LeafHolds(c, events, es2, ns2)
BY Zenon DEF LeafHolds

LEMMA ConditionGrows ==
    ASSUME NEW events, NEW es, NEW ns, NEW es2, NEW ns2, es \subseteq es2, ns \subseteq ns2,
           NEW condition \in Conditions, match_condition_with_snapshot(condition, events, es, ns)
    PROVE  match_condition_with_snapshot(condition, events, es2, ns2)
<1>1. PICK S : /\ MetSet(S, events, es, ns)
               /\ \A c \in Conditions : match_condition_with_snapshot(c, events, es, ns) <=> c \in S
  BY ConditionsHold, Zenon
<1>2. PICK R : /\ MetSet(R, events, es2, ns2)
               /\ \A c \in Conditions : match_condition_with_snapshot(c, events, es2, ns2) <=> c \in R
  BY ConditionsHold, Zenon
<1>3. PICK depth : Deeper(depth) /\ \A c \in Conditions : depth[c] \in Nat /\ depth[c] < Nesting + 1
  BY DepthExists, Zenon
<1> DEFINE Bad == {n \in Nat : \E c \in S \ R : depth[c] = n}
<1>4. Bad = {}
  <2> SUFFICES ASSUME Bad # {} PROVE FALSE
    OBVIOUS
  <2>1. PICK n \in Bad : \A m \in Bad : n <= m
    <3>1. Bad \subseteq Nat
      OBVIOUS
    <3> HIDE DEF Bad
    <3> QED  BY <3>1, LeastExists, Zenon
  <2>2. PICK c \in S \ R : depth[c] = n
    OBVIOUS
  <2>3. ASSUME c.type \in {"all", "any"}, NEW i \in DOMAIN c.conditions, c.conditions[i] \in S
        PROVE  c.conditions[i] \in R
    <3>1. c \in Conditions
      BY <1>1, Zenon DEF MetSet
    <3>2. c.conditions[i] \in Conditions /\ depth[c.conditions[i]] < depth[c]
          /\ depth[c.conditions[i]] \in Nat /\ depth[c] \in Nat
      BY <1>3, <2>3, <3>1, Zenon DEF Deeper
    <3>3. depth[c.conditions[i]] \notin Bad
      <4> HIDE DEF Bad
      <4> QED  BY <2>1, <2>2, <3>2
    <3> QED  BY <2>3, <3>2, <3>3, Zenon
  <2>4. c \in Conditions /\ Met(S, c, events, es, ns)
    BY <1>1, <2>2, Zenon DEF MetSet
  <2>5. Met(R, c, events, es2, ns2)
    BY <2>3, <2>4, LeafGrows, Zenon DEF Met
  <2> QED  BY <1>2, <2>2, <2>4, <2>5, Zenon DEF MetSet
<1>5. S \subseteq R
  <2>1. S \subseteq Conditions
    BY <1>1, Zenon DEF MetSet
  <2> QED  BY <1>3, <1>4, <2>1, Zenon
<1> QED  BY <1>1, <1>2, <1>5, Zenon

\* A rule that matches still does when the graph has more.
LEMMA MatchGrows ==
    ASSUME NEW conditions \in Seq(Conditions), NEW events, NEW es, NEW ns, NEW es2, NEW ns2,
           es \subseteq es2, ns \subseteq ns2, match_all_conditions(conditions, events, es, ns)
    PROVE  match_all_conditions(conditions, events, es2, ns2)
<1>1. \A i \in DOMAIN conditions : conditions[i] \in Conditions
  OBVIOUS
<1> QED  BY <1>1, ConditionGrows, Zenon DEF match_all_conditions

StrictOrder(R, S) ==
    /\ \A p \in S : <<p, p>> \notin R
    /\ \A p, q \in S : p # q => <<p, q>> \in R \/ <<q, p>> \in R
    /\ \A p, q, r \in S : <<p, q>> \in R /\ <<q, r>> \in R => <<p, r>> \in R

\* In a finite set with a strict total order, for every i less than its size
\* some element has i elements before it.
LEMMA RankOnto ==
    ASSUME NEW S, IsFiniteSet(S), NEW R, StrictOrder(R, S), NEW i \in 1..Cardinality(S)
    PROVE  \E p \in S : Cardinality({q \in S : <<q, p>> \in R}) = i - 1
<1> DEFINE Before(p) == {q \in S : <<q, p>> \in R}
           N == Cardinality(S)
           f == [p \in S |-> Cardinality(Before(p))]
<1>1. N \in Nat /\ N >= 1 /\ i - 1 \in 0..(N - 1)
  <2>1. N \in Nat
    BY FS_CardinalityType, Zenon
  <2> HIDE DEF N
  <2>2. i \in 1..N
    BY Zenon DEF N
  <2> QED  BY <2>1, <2>2
<1>2. ASSUME NEW p \in S
      PROVE  IsFiniteSet(Before(p)) /\ Cardinality(Before(p)) \in 0..(N - 1)
  <2>1. Before(p) \in SUBSET (S \ {p})
    BY Zenon DEF StrictOrder
  <2>2. IsFiniteSet(S \ {p}) /\ Cardinality(S \ {p}) = N - 1
    BY FS_RemoveElement, Zenon
  <2> HIDE DEF Before
  <2>3. IsFiniteSet(Before(p)) /\ Cardinality(Before(p)) <= Cardinality(S \ {p})
    BY <2>1, <2>2, FS_Subset, Zenon
  <2>4. Cardinality(Before(p)) \in Nat
    BY <2>3, FS_CardinalityType, Zenon
  <2> HIDE DEF N
  <2> QED  BY <1>1, <2>2, <2>3, <2>4
<1>3. ASSUME NEW p \in S, NEW q \in S, <<p, q>> \in R
      PROVE  Cardinality(Before(p)) # Cardinality(Before(q))
  <2>1. Before(p) \in SUBSET Before(q) /\ p \in Before(q) /\ p \notin Before(p)
    BY <1>3, Zenon DEF StrictOrder
  <2> HIDE DEF Before
  <2>2. IsFiniteSet(Before(q))
    BY <1>2, Zenon
  <2> QED  BY <2>1, <2>2, FS_Subset, Zenon
<1> HIDE DEF Before, N
<1>4. f \in Injection(S, 0..(N - 1))
  <2>1. f \in [S -> 0..(N - 1)]
    BY <1>2, Zenon
  <2>2. ASSUME NEW p \in S, NEW q \in S, p # q PROVE f[p] # f[q]
    BY <1>3, <2>2, Zenon DEF StrictOrder
  <2> QED  BY <2>1, <2>2, Zenon DEF Injection, IsInjective
<1>5. IsFiniteSet(0..(N - 1)) /\ Cardinality(0..(N - 1)) = N
  <2>1. 0 \in Int /\ N - 1 \in Int /\ ~ (0 > N - 1) /\ (N - 1) - 0 + 1 = N
    BY <1>1
  <2> QED  BY <2>1, FS_Interval, Zenon
<1> HIDE DEF f
<1>6. f \in Surjection(S, 0..(N - 1))
  BY <1>4, <1>5, FS_Injection, Zenon DEF N
<1>7. PICK p \in S : f[p] = i - 1
  BY <1>1, <1>6, Zenon DEF Surjection
<1> QED  BY <1>7, Zenon DEF f, Before

LEMMA NamesDiffer ==
    ASSUME NEW p \in Paths, NEW q \in Paths, p # q PROVE Name(p) # Name(q)
<1>1. NumRules \in Nat /\ p \in Int /\ q \in Int
  BY RuleFilesConstants DEF Paths
<1> QED  BY <1>1 DEF Name, Originals, Paths

LEMMA PathsFinite == IsFiniteSet(Paths)
BY RuleFilesConstants, FS_Interval DEF Paths

\* And no two have as many before them.
LEMMA RankUnique ==
    ASSUME NEW S, IsFiniteSet(S), NEW R, StrictOrder(R, S), NEW p \in S, NEW q \in S,
           Cardinality({r \in S : <<r, p>> \in R}) = Cardinality({r \in S : <<r, q>> \in R})
    PROVE  p = q
<1> DEFINE Before(x) == {r \in S : <<r, x>> \in R}
<1>1. ASSUME NEW x \in S, NEW y \in S, <<x, y>> \in R
      PROVE  Cardinality(Before(x)) # Cardinality(Before(y))
  <2>1. Before(x) \in SUBSET Before(y) /\ x \in Before(y) /\ x \notin Before(x)
    BY <1>1, Zenon DEF StrictOrder
  <2>2. Before(y) \in SUBSET S
    BY Zenon
  <2> HIDE DEF Before
  <2>3. IsFiniteSet(Before(y))
    BY <2>2, FS_Subset, Zenon
  <2> QED  BY <2>1, <2>3, FS_Subset, Zenon
<1>2. Cardinality(Before(p)) = Cardinality(Before(q))
  BY Zenon
<1> HIDE DEF Before
<1> QED  BY <1>1, <1>2, Zenon DEF StrictOrder

LEMMA PriorityOrders ==
    ASSUME NEW d, NEW ps \in SUBSET Paths, \A p \in ps : d.files[p].priority \in Nat
    PROVE  /\ IsFiniteSet(ps)
           /\ StrictOrder({x \in ps \X ps : ByPriority(d, x[1], x[2])}, ps)
           /\ \A p \in ps : {q \in ps : <<q, p>> \in {x \in ps \X ps : ByPriority(d, x[1], x[2])}}
                                = {q \in ps : ByPriority(d, q, p)}
<1> DEFINE R == {x \in ps \X ps : ByPriority(d, x[1], x[2])}
<1>1. IsFiniteSet(ps)
  BY PathsFinite, FS_Subset, Zenon
<1>2. \A p \in ps : Name(p) \in Int
  BY RuleFilesConstants DEF Name, Paths, Originals
<1>3. \A p, q \in ps : <<p, q>> \in R <=> ByPriority(d, p, q)
  OBVIOUS
<1>4. \A p \in ps : ~ ByPriority(d, p, p)
  BY <1>2 DEF ByPriority
<1>5. \A p, q \in ps : p # q => ByPriority(d, p, q) \/ ByPriority(d, q, p)
  BY <1>2, NamesDiffer DEF ByPriority
<1>6. \A p, q, r \in ps : ByPriority(d, p, q) /\ ByPriority(d, q, r) => ByPriority(d, p, r)
  BY <1>2 DEF ByPriority
<1> HIDE DEF R
<1>7. StrictOrder(R, ps)
  BY <1>3, <1>4, <1>5, <1>6, Zenon DEF StrictOrder
<1>8. \A p \in ps : {q \in ps : <<q, p>> \in R} = {q \in ps : ByPriority(d, q, p)}
  BY <1>3, Zenon
<1> QED  BY <1>1, <1>7, <1>8, Zenon DEF R

Rank(d, ps, p) == Cardinality({q \in ps : ByPriority(d, q, p)})

\* The path at a place is the one with that many before it.
LEMMA PlaceRank ==
    ASSUME NEW d, NEW ps \in SUBSET Paths, \A p \in ps : d.files[p].priority \in Nat,
           NEW i \in 1..Cardinality(ps)
    PROVE  PathAt(d, ps, i) \in ps /\ Rank(d, ps, PathAt(d, ps, i)) = i - 1
<1> DEFINE R == {x \in ps \X ps : ByPriority(d, x[1], x[2])}
<1>1. /\ IsFiniteSet(ps) /\ StrictOrder(R, ps)
      /\ \A p \in ps : {q \in ps : <<q, p>> \in R} = {q \in ps : ByPriority(d, q, p)}
  BY PriorityOrders, Zenon
<1> HIDE DEF R
<1>2. PICK p \in ps : Cardinality({q \in ps : <<q, p>> \in R}) = i - 1
  BY <1>1, RankOnto
<1>3. Rank(d, ps, p) = i - 1
  BY <1>1, <1>2, Zenon DEF Rank
<1> QED  BY <1>3, Zenon DEF PathAt, Rank

LEMMA PathsAt ==
    ASSUME NEW d, NEW ps \in SUBSET Paths, \A p \in ps : d.files[p].priority \in Nat,
           NEW i \in 1..Cardinality(ps)
    PROVE  PathAt(d, ps, i) \in ps
BY PlaceRank, Zenon

LEMMA PlaceUnique ==
    ASSUME NEW d, NEW ps \in SUBSET Paths, \A p \in ps : d.files[p].priority \in Nat,
           NEW i \in 1..Cardinality(ps), NEW p \in ps, Rank(d, ps, p) = i - 1
    PROVE  PathAt(d, ps, i) = p
<1> DEFINE R == {x \in ps \X ps : ByPriority(d, x[1], x[2])}
           r == PathAt(d, ps, i)
<1>1. /\ IsFiniteSet(ps) /\ StrictOrder(R, ps)
      /\ \A q \in ps : {x \in ps : <<x, q>> \in R} = {x \in ps : ByPriority(d, x, q)}
  BY PriorityOrders, Zenon
<1>2. r \in ps /\ Rank(d, ps, r) = i - 1
  BY PlaceRank
<1> HIDE DEF R, r
<1>3. Cardinality({x \in ps : <<x, r>> \in R}) = Cardinality({x \in ps : <<x, p>> \in R})
  BY <1>1, <1>2, Zenon DEF Rank
<1>4. r = p
  BY <1>1, <1>2, <1>3, RankUnique
<1> QED  BY <1>4, Zenon DEF r

\* A one-to-one map that keeps the order keeps the places.
OrderKept(d, e, ps, qs, m) ==
    /\ m \in Bijection(ps, qs)
    /\ (\A p \in ps : d.files[p].priority \in Nat) /\ (\A q \in qs : e.files[q].priority \in Nat)
    /\ \A p, q \in ps : ByPriority(d, p, q) <=> ByPriority(e, m[p], m[q])

PlacesMatch(d, e, ps, qs, m) ==
    /\ Cardinality(ps) = Cardinality(qs)
    /\ \A i \in 1..Cardinality(ps) : PathAt(e, qs, i) = m[PathAt(d, ps, i)]

LEMMA PlacesKept ==
    ASSUME NEW d, NEW e, NEW ps \in SUBSET Paths, NEW qs \in SUBSET Paths,
           NEW m, OrderKept(d, e, ps, qs, m)
    PROVE  PlacesMatch(d, e, ps, qs, m)
<1> USE DEF OrderKept
<1>0. /\ m \in [ps -> qs] /\ \A p, q \in ps : m[p] = m[q] => p = q
      /\ \A q \in qs : \E p \in ps : m[p] = q
  BY Zenon DEF Bijection, Injection, Surjection, IsInjective
<1>1. IsFiniteSet(ps) /\ IsFiniteSet(qs)
  BY PathsFinite, FS_Subset, Zenon
<1>2. Cardinality(ps) = Cardinality(qs)
  BY <1>1, FS_Bijection, Zenon DEF ExistsBijection
<1>3. ASSUME NEW i \in 1..Cardinality(ps) PROVE PathAt(e, qs, i) = m[PathAt(d, ps, i)]
  <2>0. PathAt(d, ps, i) \in ps /\ Rank(d, ps, PathAt(d, ps, i)) = i - 1
    BY PlaceRank, Zenon
  <2> DEFINE p == PathAt(d, ps, i)
             A == {q \in ps : ByPriority(d, q, p)}
             B == {q \in qs : ByPriority(e, q, m[p])}
             k == [q \in A |-> m[q]]
  <2>1. p \in ps /\ Rank(d, ps, p) = i - 1
    BY <2>0, Zenon
  <2> HIDE DEF p
  <2>2. m[p] \in qs
    BY <1>0, <2>1, Zenon
  <2>3. A \in SUBSET ps /\ IsFiniteSet(A)
    <3>1. A \in SUBSET ps
      BY Zenon
    <3> HIDE DEF A
    <3> QED  BY <1>1, <3>1, FS_Subset, Zenon
  <2>4. \A q \in A : m[q] \in B
    BY <1>0, <2>1, Zenon
  <2>5. \A q \in B : \E r \in A : m[r] = q
    BY <1>0, <2>1, Zenon
  <2> HIDE DEF A, B
  <2>6. k \in Bijection(A, B)
    <3>1. k \in [A -> B] /\ \A q \in A : k[q] = m[q]
      BY <2>4, Zenon
    <3> HIDE DEF k
    <3>2. \A q, r \in A : k[q] = k[r] => q = r
      BY <1>0, <2>3, <3>1, Zenon
    <3>3. \A q \in B : \E r \in A : k[r] = q
      BY <2>5, <3>1, Zenon
    <3> QED  BY <3>1, <3>2, <3>3, Zenon DEF Bijection, Injection, Surjection, IsInjective
  <2> HIDE DEF k
  <2>7. Cardinality(A) = Cardinality(B)
    <3>1. B \in SUBSET qs
      BY Zenon DEF B
    <3>2. IsFiniteSet(B)
      BY <1>1, <3>1, FS_Subset, Zenon
    <3> QED  BY <2>3, <2>6, <3>2, FS_Bijection, Zenon DEF ExistsBijection
  <2>8. Rank(e, qs, m[p]) = i - 1
    BY <2>1, <2>7, Zenon DEF Rank, A, B
  <2>9. i \in 1..Cardinality(qs)
    BY <1>2, Zenon
  <2>10. PathAt(e, qs, i) = m[p]
    BY <2>2, <2>8, <2>9, PlaceUnique, Zenon
  <2> QED  BY <2>10, Zenon DEF p
<1> QED  BY <1>2, <1>3, Zenon DEF PlacesMatch

-----------------------------------------------------------------------------
(* What rules-migrate makes of a file. *)

RuleFile(id, scene, priority, wire) ==
    [parses |-> TRUE, id |-> id, scene |-> scene, priority |-> priority, conditions |-> wire]

\* The same to a load: errors, or conditions that match the same.
Means(w, v) ==
    /\ normalize(w) = Err <=> normalize(v) = Err
    /\ normalize(w) # Err => \A events, es, ns :
           match_all_conditions(normalize(w), events, es, ns)
               = match_all_conditions(normalize(v), events, es, ns)

\* An `all' is what its parts are, taken together.
LEMMA AllIsItsParts ==
    ASSUME NEW cs \in Seq(Conditions), [type |-> "all", conditions |-> cs] \in Conditions,
           NEW events, NEW es, NEW ns
    PROVE  match_all_conditions(<<[type |-> "all", conditions |-> cs]>>, events, es, ns)
               = match_all_conditions(cs, events, es, ns)
<1> DEFINE all == [type |-> "all", conditions |-> cs]
           Holds(c) == match_condition_with_snapshot(c, events, es, ns)
<1>1. PICK S : /\ MetSet(S, events, es, ns)
               /\ \A c \in Conditions : match_condition_with_snapshot(c, events, es, ns) <=> c \in S
  BY ConditionsHold, Zenon
<1>2. all.type = "all" /\ all.conditions = cs
  OBVIOUS
<1>3. \A i \in DOMAIN cs : cs[i] \in Conditions
  OBVIOUS
<1>4. DOMAIN <<all>> = {1} /\ <<all>>[1] = all
  OBVIOUS
<1> HIDE DEF all
<1>5. all \in Conditions
  BY Zenon DEF all
<1>6. ~ LeafHolds(all, events, es, ns)
  BY <1>2 DEF LeafHolds
<1>7. all \in S <=> \A i \in DOMAIN cs : cs[i] \in S
  BY <1>1, <1>2, <1>5, <1>6 DEF MetSet, Met
<1>8. match_all_conditions(<<all>>, events, es, ns) <=> Holds(all)
  BY <1>4, Zenon DEF match_all_conditions
<1>9. match_all_conditions(cs, events, es, ns) <=> \A i \in DOMAIN cs : Holds(cs[i])
  BY Zenon DEF match_all_conditions
<1>10. match_all_conditions(<<all>>, events, es, ns) <=> match_all_conditions(cs, events, es, ns)
  BY <1>1, <1>3, <1>5, <1>7, <1>8, <1>9, Zenon
<1> QED  BY <1>10, Zenon DEF all, match_all_conditions

MigratedWire(w) ==
    LET v == AsRead(w) IN
    IF v.form = "list" THEN v
    ELSE IF v.all # Absent /\ v.any = Absent /\ AllSupported(v.all) THEN AsList(v.all)
    ELSE IF v.all = Absent /\ v.any # Absent /\ AllSupported(v.any)
    THEN AsList(<<[type |-> "any", conditions |-> v.any]>>)
    ELSE w

\* Without anything stray the tool reads what the engine does.
LEMMA ReadParts ==
    ASSUME NEW w
    PROVE  /\ w.form = "list" => AsRead(w) = w
           /\ w.form # "list" => /\ AsRead(w).form = "legacy"
                                 /\ AsRead(w).all = as_sequence(w.all)
                                 /\ AsRead(w).any = as_sequence(w.any)
<1>1. w.form = "list" => AsRead(w) = w
  BY Zenon DEF AsRead
<1>2. ASSUME w.form # "list"
      PROVE  /\ AsRead(w).form = "legacy" /\ AsRead(w).all = as_sequence(w.all)
             /\ AsRead(w).any = as_sequence(w.any)
  <2> DEFINE a == as_sequence(w.all)
             b == as_sequence(w.any)
  <2>1. AsRead(w) = [form |-> "legacy", all |-> a, any |-> b]
    BY <1>2, Zenon DEF AsRead
  <2> HIDE DEF a, b
  <2>2. AsRead(w).form = "legacy" /\ AsRead(w).all = a /\ AsRead(w).any = b
    BY <2>1
  <2> QED  BY <2>2, Zenon DEF a, b
<1> QED  BY <1>1, <1>2, Zenon

LEMMA ReadPlain ==
    ASSUME NEW w, ~ HasStray(w) PROVE normalize(AsRead(w)) = normalize(w)
<1>1. CASE w.form = "list"
  BY <1>1, ReadParts, Zenon
<1>2. CASE w.form # "list"
  <2>1. w.all # Stray /\ w.any # Stray
    BY <1>2, Zenon DEF HasStray
  <2>2. AsRead(w).form = "legacy" /\ AsRead(w).all = w.all /\ AsRead(w).any = w.any
    BY <1>2, <2>1, ReadParts, Zenon DEF as_sequence
  <2>3. AsRead(w).form # "list"
    BY <2>2
  <2> QED  BY <1>2, <2>2, <2>3, Zenon DEF normalize
<1> QED  BY <1>1, <1>2, Zenon

\* Whatever the tool finds supported, it keeps the meaning, if there was one.
LEMMA WireKept ==
    ASSUME NEW w \in Wires, Sensible(w)
    PROVE  /\ MigratedWire(w) \in Wires /\ Sensible(MigratedWire(w))
           /\ ~ HasStray(w) => Means(w, MigratedWire(w))
<1> DEFINE v == AsRead(w)
<1>1. CASE MigratedWire(w) = w
  BY <1>1, Zenon DEF Means
<1>2. ASSUME NEW cs \in Seq(Conditions)
      PROVE  AsList(cs) \in Wires /\ normalize(AsList(cs)) = cs /\ Sensible(AsList(cs))
  <2>1. AsList(cs).form = "list" /\ AsList(cs).list = cs
    BY DEF AsList
  <2>2. normalize(AsList(cs)) = cs
    BY <2>1, Zenon DEF normalize
  <2>3. AsList(cs) \in Wires
    BY DEF Wires, AsList
  <2>4. AsRead(AsList(cs)) = AsList(cs)
    BY <2>1, ReadParts, Zenon
  <2> QED  BY <2>2, <2>3, <2>4, Zenon DEF Sensible
<1>3. CASE w.form = "list"
  <2>1. MigratedWire(w) = w
    BY <1>3, ReadParts, Zenon DEF MigratedWire
  <2> QED  BY <1>1, <2>1, Zenon
<1>4. CASE w.form # "list"
  <2>1. /\ w.all \in Seq(Conditions) \union {Absent, Stray} /\ w.any \in Seq(Conditions) \union {Absent, Stray}
    BY <1>4 DEF Wires
  <2>2. v.form # "list" /\ v.all = as_sequence(w.all) /\ v.any = as_sequence(w.any)
    <3>1. "legacy" # "list"
      OBVIOUS
    <3> QED  BY <1>4, <3>1, ReadParts, Zenon
  <2>3. /\ v.all \in Seq(Conditions) \union {Absent} /\ v.any \in Seq(Conditions) \union {Absent}
    BY <2>1, <2>2, Zenon DEF as_sequence
  <2>4. Stray \notin {v.all, v.any}
    BY <2>3, RuleFilesConstants, Zenon
  <2>5. ~ HasStray(w) => normalize(w) = normalize(v)
    BY ReadPlain, Zenon
  <2>6. (v.all = Absent <=> v.any # Absent) => normalize(v) \in Seq(Conditions)
    BY Zenon DEF Sensible
  <2> HIDE DEF v
  <2>7. CASE v.all # Absent /\ v.any = Absent
    <3> DEFINE cs == v.all
    <3>1. cs \in Seq(Conditions)
      BY <2>3, <2>7, Zenon
    <3>2. normalize(v) = <<[type |-> "all", conditions |-> cs]>>
      BY <2>2, <2>4, <2>7, Zenon DEF normalize
    <3>3. normalize(v) \in Seq(Conditions)
      BY <2>6, <2>7, Zenon
    <3> HIDE DEF cs
    <3>4. [type |-> "all", conditions |-> cs] \in Conditions
      BY <3>2, <3>3
    <3>5. \A events, es, ns : match_all_conditions(normalize(v), events, es, ns)
                                 = match_all_conditions(cs, events, es, ns)
      BY <3>1, <3>2, <3>4, AllIsItsParts
    <3>6. normalize(v) # Err /\ cs # Err
      BY <3>1, <3>3, RuleFilesConstants, Zenon
    <3>7. normalize(AsList(cs)) = cs
      BY <1>2, <3>1, Zenon
    <3>8. ~ HasStray(w) => Means(w, AsList(cs))
      BY <2>5, <3>5, <3>6, <3>7, Zenon DEF Means
    <3>9. MigratedWire(w) = w \/ MigratedWire(w) = AsList(cs)
      BY <2>2, <2>7, Zenon DEF MigratedWire, v, cs
    <3> QED  BY <1>1, <1>2, <3>1, <3>8, <3>9, Zenon
  <2>8. CASE v.all = Absent /\ v.any # Absent
    <3> DEFINE any == <<[type |-> "any", conditions |-> v.any]>>
    <3>1. normalize(v) = any
      BY <2>2, <2>4, <2>8, Zenon DEF normalize
    <3>2. any \in Seq(Conditions)
      BY <2>6, <2>8, <3>1, Zenon
    <3>3. MigratedWire(w) = w \/ MigratedWire(w) = AsList(any)
      BY <2>2, <2>8, Zenon DEF MigratedWire, v
    <3> HIDE DEF any
    <3>4. ~ HasStray(w) => Means(w, AsList(any))
      BY <1>2, <2>5, <3>1, <3>2, Zenon DEF Means
    <3> QED  BY <1>1, <1>2, <3>2, <3>3, <3>4, Zenon
  <2>9. MigratedWire(w) = w \/ (v.all = Absent <=> v.any # Absent)
    BY <2>2, Zenon DEF MigratedWire, v
  <2> QED  BY <1>1, <2>7, <2>8, <2>9, Zenon
<1> QED  BY <1>3, <1>4, Zenon

Base(p) == IF p \in Originals THEN p ELSE p - NumRules

\* What may have become of the file f at p.
Migrated(p, f, g) ==
    IF f = Absent THEN g = Absent
    ELSE IF ~ f.parses THEN g = f
    ELSE /\ g # Absent /\ g.parses /\ g.scene = f.scene /\ g.priority = f.priority
         /\ g.id = f.id \/ (f.id = Absent /\ g.id = <<infer_pack(p), f.scene>>)
         /\ Sensible(g.conditions) /\ Means(f.conditions, g.conditions)

LEMMA Bases ==
    ASSUME NEW p \in Paths
    PROVE  /\ Base(p) \in Originals /\ Base(p) \in Paths /\ Place[Base(p)] = Place[p]
           /\ p \in Originals => p + NumRules \in Paths \ Originals /\ Base(p + NumRules) = p
           /\ p \in Originals => Base(p) = p
<1>1. NumRules \in Nat /\ \A q \in Originals : Place[q + NumRules] = Place[q]
  BY RuleFilesConstants, Zenon
<1>2. CASE p \in Originals
  <2>1. Base(p) = p
    BY <1>2, Zenon DEF Base
  <2>2. p + NumRules \in Paths \ Originals /\ (p + NumRules) - NumRules = p
    BY <1>1, <1>2 DEF Paths, Originals
  <2> QED  BY <1>2, <2>1, <2>2, Zenon DEF Base
<1>3. CASE p \notin Originals
  <2>1. p - NumRules \in Originals /\ p - NumRules \in Paths /\ (p - NumRules) + NumRules = p
    BY <1>1, <1>3 DEF Paths, Originals
  <2>2. Base(p) = p - NumRules
    BY <1>3, Zenon DEF Base
  <2>3. Place[(p - NumRules) + NumRules] = Place[p - NumRules]
    BY <1>1, <2>1, Zenon
  <2> QED  BY <1>3, <2>1, <2>2, <2>3, Zenon
<1> QED  BY <1>2, <1>3, Zenon

\* A file that parses, field by field, and what the tool makes of it.
LEMMA FileFields ==
    ASSUME NEW f \in Files, f.parses
    PROVE  f \in [parses : {TRUE}, id : Seq(Words) \union {Absent}, scene : Words,
                  priority : Nat, conditions : Wires]
<1>1. Torn.parses = FALSE /\ Fragment.parses = FALSE /\ Unreadable.parses = FALSE
  BY DEF Torn, Fragment, Unreadable
<1>2. f \notin {Torn, Fragment, Unreadable}
  BY <1>1, Zenon
<1> QED  BY <1>2, Zenon DEF Files

LEMMA RuleFileTyped ==
    ASSUME NEW id \in Seq(Words) \union {Absent}, NEW scene \in Words, NEW priority \in Nat,
           NEW wire \in Wires
    PROVE  RuleFile(id, scene, priority, wire) \in Files
<1> DEFINE ids == Seq(Words) \union {Absent}
<1>1. id \in ids
  OBVIOUS
<1> HIDE DEF ids
<1>2. RuleFile(id, scene, priority, wire)
          \in [parses : {TRUE}, id : ids, scene : Words, priority : Nat, conditions : Wires]
  BY <1>1 DEF RuleFile
<1> QED  BY <1>2, Zenon DEF Files, ids

LEMMA ValueFields ==
    ASSUME NEW p \in Paths, NEW f \in Files, f.parses
    PROVE  LET g == migrate_rule_value(p, f) IN
           /\ g.parses /\ g.scene = f.scene /\ g.priority = f.priority
           /\ g.id = (IF f.id = Absent THEN <<infer_pack(p), f.scene>> ELSE f.id)
           /\ g.conditions = MigratedWire(f.conditions)
           /\ g = RuleFile(g.id, f.scene, f.priority, g.conditions)
<1> DEFINE id == IF f.id = Absent THEN <<infer_pack(p), f.scene>> ELSE f.id
           w == MigratedWire(f.conditions)
<1>1. migrate_rule_value(p, f) = [ensure_rule_id(p, f) EXCEPT !.conditions = w]
  BY Zenon DEF migrate_rule_value, MigratedWire
<1>2. ensure_rule_id(p, f) = [f EXCEPT !.id = id]
  BY Zenon DEF ensure_rule_id
<1> HIDE DEF id, w
<1>3. migrate_rule_value(p, f) = RuleFile(id, f.scene, f.priority, w)
  BY <1>1, <1>2, FileFields, Zenon DEF RuleFile
<1> QED  BY <1>3 DEF RuleFile, id, w

LEMMA ValueTyped ==
    ASSUME NEW p \in Paths, NEW f \in Files, f.parses, Sensible(f.conditions)
    PROVE  migrate_rule_value(p, f) \in Files /\ Sensible(migrate_rule_value(p, f).conditions)
<1> DEFINE g == migrate_rule_value(p, f)
<1>1. f.id \in Seq(Words) \union {Absent} /\ f.scene \in Words /\ f.priority \in Nat
      /\ f.conditions \in Wires
  BY FileFields, Zenon
<1>2. infer_pack(p) \in Words
  <2>1. Place[p] \in Words
    BY RuleFilesConstants, Zenon
  <2>2. "legacy" \in Words
    BY Zenon DEF Words
  <2> QED  BY <2>1, <2>2, Zenon DEF infer_pack
<1>3. <<infer_pack(p), f.scene>> \in Seq(Words)
  BY <1>1, <1>2
<1>4. g.id \in Seq(Words) \union {Absent}
  BY <1>1, <1>3, ValueFields, Zenon
<1>5. g.conditions \in Wires /\ Sensible(g.conditions)
  BY <1>1, WireKept, ValueFields, Zenon
<1>6. g = RuleFile(g.id, f.scene, f.priority, g.conditions)
  BY ValueFields, Zenon
<1> HIDE DEF g
<1>7. g \in Files
  BY <1>1, <1>4, <1>5, <1>6, RuleFileTyped, Zenon
<1> QED  BY <1>5, <1>7, Zenon DEF g

LEMMA MeansTransitive ==
    ASSUME NEW u, NEW v, NEW w, Means(u, v), Means(v, w) PROVE Means(u, w)
<1>1. normalize(u) = Err <=> normalize(w) = Err
  BY Zenon DEF Means
<1>2. ASSUME normalize(u) # Err, NEW events, NEW es, NEW ns
      PROVE  match_all_conditions(normalize(u), events, es, ns)
                 = match_all_conditions(normalize(w), events, es, ns)
  <2>1. match_all_conditions(normalize(u), events, es, ns)
            = match_all_conditions(normalize(v), events, es, ns)
    BY <1>2, Zenon DEF Means
  <2>2. normalize(v) # Err
    BY <1>2, Zenon DEF Means
  <2>3. match_all_conditions(normalize(v), events, es, ns)
            = match_all_conditions(normalize(w), events, es, ns)
    BY <2>2, Zenon DEF Means
  <2> QED  BY <2>1, <2>3, Zenon
<1> QED  BY <1>1, <1>2, Zenon DEF Means

\* A file migrated once more is still what became of the first one.
LEMMA MigratedAgain ==
    ASSUME NEW q \in Paths, NEW f \in Files \union {Absent}, NEW g \in Files, g.parses,
           Migrated(Base(q), f, g), ~ HasStray(g.conditions)
    PROVE  Migrated(Base(q), f, migrate_rule_value(q, g)) /\ migrate_rule_value(q, g) \in Files
<1> DEFINE h == migrate_rule_value(q, g)
<1>1. g # Absent
  BY RuleFilesConstants, Zenon
<1>2. f # Absent /\ f.parses
  BY <1>1, Zenon DEF Migrated
<1>3. /\ g.scene = f.scene /\ g.priority = f.priority
      /\ g.id = f.id \/ (f.id = Absent /\ g.id = <<infer_pack(Base(q)), f.scene>>)
      /\ Sensible(g.conditions) /\ Means(f.conditions, g.conditions)
  BY <1>2, Zenon DEF Migrated
<1>4. h \in Files /\ h # Absent
  <2>1. h \in Files
    BY <1>3, ValueTyped, Zenon
  <2> HIDE DEF h
  <2> QED  BY <2>1, RuleFilesConstants, Zenon
<1>5. g.conditions \in Wires
  BY FileFields, Zenon
<1>6. Sensible(h.conditions) /\ Means(f.conditions, h.conditions)
  <2> DEFINE v == MigratedWire(g.conditions)
  <2>1. Sensible(v) /\ Means(g.conditions, v)
    BY <1>3, <1>5, WireKept, Zenon
  <2>2. h.conditions = v
    BY ValueFields, Zenon
  <2> HIDE DEF v, h
  <2>3. Means(f.conditions, v)
    BY <1>3, <2>1, MeansTransitive, Zenon
  <2> QED  BY <2>1, <2>2, <2>3, Zenon
<1>7. infer_pack(q) = infer_pack(Base(q))
  BY Bases, Zenon DEF infer_pack
<1>8. h.parses /\ h.scene = g.scene /\ h.priority = g.priority
      /\ h.id = (IF g.id = Absent THEN <<infer_pack(q), g.scene>> ELSE g.id)
  BY ValueFields, Zenon
<1> HIDE DEF h
<1>9. h.id = f.id \/ (f.id = Absent /\ h.id = <<infer_pack(Base(q)), f.scene>>)
  BY <1>3, <1>7, <1>8, Zenon
<1>10. h.scene = f.scene /\ h.priority = f.priority
  BY <1>3, <1>8, Zenon
<1>11. Migrated(Base(q), f, h)
  BY <1>2, <1>4, <1>6, <1>8, <1>9, <1>10, Zenon DEF Migrated
<1> QED  BY <1>4, <1>11, Zenon DEF h

\* What a failed write leaves is a file, whatever it says.
LEMMA TornTyped ==
    ASSUME NEW old \in Files, NEW f \in Files, f.parses => old.parses, NEW x \in TornFiles(old, f)
    PROVE  x \in Files /\ (x.parses => Sensible(x.conditions))
<1>1. CASE x \in {Torn, Fragment, Unreadable}
  <2>1. Torn.parses = FALSE /\ Fragment.parses = FALSE /\ Unreadable.parses = FALSE
    BY DEF Torn, Fragment, Unreadable
  <2> QED  BY <1>1, <2>1, Zenon DEF Files
<1>2. CASE x \notin {Torn, Fragment, Unreadable}
  <2>1. f.parses /\ old.parses /\ f.conditions.form = "list"
    BY <1>2, Zenon DEF TornFiles
  <2> DEFINE Piece(k) == AsList(SubSeq(f.conditions.list, 1, k))
  <2>2. PICK k \in 1..Len(f.conditions.list) :
            x = [f EXCEPT !.id = old.id, !.conditions = Piece(k)]
    BY <1>2, <2>1, Zenon DEF TornFiles
  <2>3. f.conditions \in Wires /\ f.scene \in Words /\ f.priority \in Nat
        /\ old.id \in Seq(Words) \union {Absent}
    BY <2>1, FileFields, Zenon
  <2>4. f.conditions.list \in Seq(Conditions)
    BY <2>1, <2>3 DEF Wires
  <2>5. SubSeq(f.conditions.list, 1, k) \in Seq(Conditions)
    BY <2>4
  <2>6. Piece(k) \in Wires
    BY <2>5 DEF Wires, AsList
  <2>7. normalize(Piece(k)) = SubSeq(f.conditions.list, 1, k)
    BY DEF normalize, AsList
  <2> HIDE DEF Piece
  <2>8. x = RuleFile(old.id, f.scene, f.priority, Piece(k))
    BY <2>1, <2>2, FileFields, Zenon DEF RuleFile
  <2>9. x.conditions = Piece(k)
    BY <2>8 DEF RuleFile
  <2>10. Sensible(Piece(k))
    <3>1. Piece(k).form = "list"
      BY DEF Piece, AsList
    <3>2. AsRead(Piece(k)) = Piece(k)
      BY <3>1, ReadParts, Zenon
    <3> QED  BY <2>5, <2>7, <3>2, Zenon DEF Sensible
  <2>11. x \in Files
    BY <2>3, <2>6, <2>8, RuleFileTyped, Zenon
  <2> QED  BY <2>9, <2>10, <2>11, Zenon
<1> QED  BY <1>1, <1>2, Zenon

\* The first of some names is one of them.
LEMMA FirstNameIn ==
    ASSUME NEW S \in SUBSET Paths, S # {} PROVE FirstName(S) \in S
<1> DEFINE T == {Name(p) : p \in S}
<1>1. \A p \in S : Name(p) \in Nat
  BY RuleFilesConstants DEF Name, Paths, Originals
<1>2. T \subseteq Nat /\ T # {}
  BY <1>1, Zenon
<1>3. PICK x \in T : \A y \in T : x <= y
  <2> HIDE DEF T
  <2> QED  BY <1>2, LeastExists, Zenon
<1>4. PICK p \in S : x = Name(p)
  OBVIOUS
<1>5. \A q \in S : Name(p) <= Name(q)
  BY <1>3, <1>4, Zenon
<1> QED  BY <1>5, Zenon DEF FirstName

-----------------------------------------------------------------------------
(* Rules and files. *)

\* A file that makes a rule.
Makes(f) == f # Absent /\ f.parses /\ normalize(f.conditions) # Err /\ f.id # Blank

\* The rule at a path of one directory, and the one at a path of another.
SameRule(d, p, e, q) ==
    /\ final_id(p, d.files[p]) = final_id(q, e.files[q])
    /\ d.files[p].priority = e.files[q].priority
    /\ Means(d.files[p].conditions, e.files[q].conditions)

\* What a rule is made of has its types.
MakesRule(d, p) ==
    d.files[p] \in Files /\ Makes(d.files[p]) /\ Sensible(d.files[p].conditions)

LEMMA SensibleNormal ==
    ASSUME NEW w, Sensible(w), normalize(w) # Err PROVE normalize(w) \in Seq(Conditions)
<1>1. ~ HasStray(w)
  BY Zenon DEF HasStray, normalize
<1>2. normalize(AsRead(w)) = normalize(w)
  BY <1>1, ReadPlain, Zenon
<1>3. CASE w.form = "list"
  <2>1. w.form # "legacy"
    BY <1>3
  <2> QED  BY <1>2, <2>1, Zenon DEF Sensible
<1>4. CASE w.form # "list"
  <2>1. AsRead(w).all = w.all /\ AsRead(w).any = w.any
    BY <1>1, <1>4, ReadParts, Zenon DEF as_sequence, HasStray
  <2>2. ~ (w.all = Absent <=> w.any = Absent)
    BY <1>4, Zenon DEF normalize
  <2> QED  BY <1>2, <2>1, <2>2, Zenon DEF Sensible
<1> QED  BY <1>3, <1>4, Zenon

LEMMA RuleParts ==
    ASSUME NEW d, NEW p \in Paths, MakesRule(d, p)
    PROVE  /\ final_id(p, d.files[p]) \in Seq(Words) /\ d.files[p].priority \in Nat
           /\ normalize(d.files[p].conditions) \in Seq(Conditions)
<1> DEFINE f == d.files[p]
<1>1. f \in Files /\ f.parses /\ normalize(f.conditions) \in Seq(Conditions)
  BY SensibleNormal, Zenon DEF MakesRule, Makes
<1> HIDE DEF f
<1>2. f.id \in Seq(Words) \union {Absent} /\ f.scene \in Words /\ f.priority \in Nat
  BY <1>1, FileFields, Zenon
<1>3. Pack(p) \in Words
  <2>1. Place[p] \in Words
    BY RuleFilesConstants, Zenon
  <2>2. "legacy" \in Words
    BY Zenon DEF Words
  <2> QED  BY <2>1, <2>2, Zenon DEF Pack
<1>4. <<Pack(p), f.scene>> \in Seq(Words)
  BY <1>2, <1>3
<1>5. final_id(p, f) \in Seq(Words)
  BY <1>2, <1>4, Zenon DEF final_id
<1> QED  BY <1>1, <1>2, <1>5, Zenon DEF f

RuleAt(d, p) ==
    [id |-> final_id(p, d.files[p]), priority |-> d.files[p].priority,
     conditions |-> normalize(d.files[p].conditions)]

LEMMA RulesList ==
    ASSUME NEW d, NEW ps \in SUBSET Paths, \A p \in ps : MakesRule(d, p)
    PROVE  /\ RulesOf(d, ps) # Err /\ Len(RulesOf(d, ps)) = Cardinality(ps)
           /\ \A i \in 1..Cardinality(ps) :
                  PathAt(d, ps, i) \in ps /\ RulesOf(d, ps)[i] = RuleAt(d, PathAt(d, ps, i))
<1> DEFINE n == Cardinality(ps)
           s == [i \in 1..n |-> RuleAt(d, PathAt(d, ps, i))]
<1>1. RulesOf(d, ps) = s
  BY Zenon DEF RulesOf, RuleAt
<1>2. n \in Nat
  <2>1. IsFiniteSet(ps)
    BY PathsFinite, FS_Subset, Zenon
  <2> QED  BY <2>1, FS_CardinalityType, Zenon
<1>3. \A p \in ps : d.files[p].priority \in Nat
  BY RuleParts, Zenon
<1>4. \A i \in 1..n : PathAt(d, ps, i) \in ps
  BY <1>3, PathsAt, Zenon
<1>5. ASSUME NEW p \in ps PROVE RuleAt(d, p) \in Rules
  <2> DEFINE a == final_id(p, d.files[p])
             b == d.files[p].priority
             c == normalize(d.files[p].conditions)
  <2>1. a \in Seq(Words) /\ b \in Nat /\ c \in Seq(Conditions)
    BY RuleParts, Zenon
  <2>2. RuleAt(d, p) = [id |-> a, priority |-> b, conditions |-> c]
    BY Zenon DEF RuleAt
  <2> HIDE DEF a, b, c
  <2> QED  BY <2>1, <2>2 DEF Rules
<1> HIDE DEF n
<1>6. \A i \in 1..n : RuleAt(d, PathAt(d, ps, i)) \in Rules
  BY <1>4, <1>5, Zenon
<1>7. s \in Seq(Rules) /\ Len(s) = n /\ \A i \in 1..n : s[i] = RuleAt(d, PathAt(d, ps, i))
  <2> DEFINE At(i) == RuleAt(d, PathAt(d, ps, i))
  <2>1. \A i \in 1..n : At(i) \in Rules
    BY <1>6, Zenon
  <2>2. s = [i \in 1..n |-> At(i)]
    BY Zenon
  <2> HIDE DEF At, s
  <2>3. s \in Seq(Rules) /\ Len(s) = n /\ \A i \in 1..n : s[i] = At(i)
    BY <1>2, <2>1, <2>2
  <2> QED  BY <2>3, Zenon DEF At
<1>8. s # Err
  <2> HIDE DEF s
  <2> QED  BY <1>7, RuleFilesConstants, Zenon
<1> HIDE DEF s
<1> QED  BY <1>1, <1>4, <1>7, <1>8, Zenon DEF n

\* Whether a path is looked at, which its place and the manifest decide.
Collected(manifest, p) ==
    IF Place[p] \in {"root", "legacy"} THEN manifest \in {"none", "ok"}
                                       ELSE manifest \in {"ok", "no legacy"}

Clash(d) ==
    \E p, q \in Loadable(d) : p # q /\ final_id(p, d.files[p]) = final_id(q, d.files[q])

LEMMA LoadableIs ==
    ASSUME NEW d, NEW p
    PROVE  p \in Loadable(d) <=> p \in Paths /\ Collected(d.manifest, p) /\ Makes(d.files[p])
BY Zenon DEF Loadable, Skipped, collect_rule_files, Collected, Makes

\* A file that cannot be read is among those looked at.
Unread(d) == \E p \in collect_rule_files(d) : d.files[p] = Unreadable

LEMMA LoadIs ==
    ASSUME NEW d
    PROVE  load_from_dir(d, FALSE) =
               IF d.manifest = "bad" \/ Clash(d) \/ Unread(d) THEN Err ELSE RulesOf(d, Loadable(d))
BY Zenon DEF load_from_dir, Clash, Unread

LEMMA UnreadableIs == Unreadable # Absent /\ Unreadable.parses = FALSE
<1>1. Unreadable \in Files
  BY Zenon DEF Files
<1>2. Unreadable # Absent
  BY <1>1, RuleFilesConstants, Zenon
<1>3. Unreadable.parses = FALSE
  BY DEF Unreadable
<1> QED  BY <1>2, <1>3

LEMMA UnreadIs ==
    ASSUME NEW d
    PROVE  Unread(d) <=> \E p \in Paths : Collected(d.manifest, p) /\ d.files[p] = Unreadable
BY UnreadableIs, Zenon DEF Unread, collect_rule_files, Collected

\* The tool makes no such file of another.
LEMMA UnreadableKept ==
    ASSUME NEW p, NEW f, Migrated(p, f, Unreadable) PROVE f = Unreadable
BY UnreadableIs, Zenon DEF Migrated

\* Where the tool and the engine agree about a pack.
LEMMA PacksAgree ==
    ASSUME NEW p, Place[p] \in KnownPacks \union {"root", "legacy"} PROVE infer_pack(p) = Pack(p)
<1>1. "root" \notin KnownPacks
  BY RuleFilesConstants, Zenon
<1> QED  BY <1>1, Zenon DEF infer_pack, Pack

\* A file and what became of it make the same rule, or neither makes one.
LEMMA MigratedMakes ==
    ASSUME NEW p \in Paths, NEW f \in Files \union {Absent}, NEW g \in Files \union {Absent},
           Migrated(Base(p), f, g), f # Absent /\ f.parses => Sensible(f.conditions),
           f # Absent /\ f.parses => f.id # Absent \/ Place[Base(p)] \in KnownPacks \union {"root", "legacy"}
    PROVE  /\ Makes(g) <=> Makes(f)
           /\ Makes(f) => /\ final_id(p, g) = final_id(Base(p), f) /\ g.priority = f.priority
                          /\ Means(g.conditions, f.conditions)
                          /\ Sensible(f.conditions) /\ Sensible(g.conditions)
                          /\ f \in Files /\ g \in Files
<1>1. CASE f = Absent \/ ~ f.parses
  <2>1. ~ Makes(f) /\ ~ Makes(g)
    BY <1>1, Zenon DEF Migrated, Makes
  <2> QED  BY <2>1, Zenon
<1>2. CASE f # Absent /\ f.parses
  <2> DEFINE b == Base(p)
             made == <<infer_pack(b), f.scene>>
  <2>1. /\ g # Absent /\ g.parses /\ g.scene = f.scene /\ g.priority = f.priority
        /\ g.id = f.id \/ (f.id = Absent /\ g.id = made)
        /\ Sensible(g.conditions) /\ Means(f.conditions, g.conditions)
    BY <1>2, Zenon DEF Migrated
  <2>2. made # Blank /\ Absent # Blank
    <3>1. made # Blank
      BY DEF Blank
    <3>2. Blank \in Seq(Words)
      BY DEF Blank
    <3> QED  BY <3>1, <3>2, RuleFilesConstants, Zenon
  <2>3. Place[b] = Place[p]
    BY Bases, Zenon
  <2>4. Pack(p) = Pack(b)
    BY <2>3, Zenon DEF Pack
  <2>5. f.id = Absent => infer_pack(b) = Pack(b)
    BY <1>2, PacksAgree, Zenon
  <2>6. Makes(g) <=> Makes(f)
    <3>1. normalize(f.conditions) = Err <=> normalize(g.conditions) = Err
      BY <2>1, Zenon DEF Means
    <3>2. f.id = Blank <=> g.id = Blank
      <4> HIDE DEF made
      <4> QED  BY <2>1, <2>2, Zenon
    <3> QED  BY <1>2, <2>1, <3>1, <3>2, Zenon DEF Makes
  <2>7. final_id(p, g) = final_id(b, f)
    <3>1. CASE f.id # Absent
      BY <2>1, <3>1, Zenon DEF final_id
    <3>2. CASE f.id = Absent
      <4>1. final_id(b, f) = <<Pack(b), f.scene>>
        BY <3>2, Zenon DEF final_id
      <4>2. CASE g.id = Absent
        BY <2>1, <2>4, <4>1, <4>2, Zenon DEF final_id
      <4>3. CASE g.id # Absent
        <5>1. g.id = made
          BY <2>1, <3>2, <4>3, Zenon
        <5> QED  BY <2>5, <3>2, <4>1, <4>3, <5>1, Zenon DEF final_id
      <4> QED  BY <4>2, <4>3, Zenon
    <3> QED  BY <3>1, <3>2, Zenon
  <2>8. Makes(f) => Means(g.conditions, f.conditions)
    <3> DEFINE w == f.conditions
               v == g.conditions
    <3>1. Means(w, v)
      BY <2>1, Zenon
    <3> HIDE DEF w, v
    <3>2. Means(v, w)
      BY <3>1, Zenon DEF Means
    <3> QED  BY <3>2, Zenon DEF w, v
  <2>9. f \in Files /\ g \in Files /\ Sensible(f.conditions)
    BY <1>2, <2>1, Zenon
  <2> QED  BY <2>1, <2>6, <2>7, <2>8, <2>9, Zenon
<1> QED  BY <1>1, <1>2, Zenon

\* The names of files with different bases are in the order of these.
LEMMA NamesKept ==
    ASSUME NEW p \in Paths, NEW q \in Paths, Base(p) # Base(q)
    PROVE  Name(p) < Name(q) <=> Name(Base(p)) < Name(Base(q))
<1>1. NumRules \in Nat /\ p \in Int /\ q \in Int
  BY RuleFilesConstants DEF Paths
<1>2. /\ Base(p) \in Originals /\ Base(q) \in Originals
  BY Bases, Zenon
<1>3. Name(Base(p)) = 2 * Base(p) /\ Name(Base(q)) = 2 * Base(q)
  BY <1>2, Zenon DEF Name
<1>4. \A x \in {p, q} : Name(x) = 2 * Base(x) \/ Name(x) = 2 * Base(x) - 1
  BY Zenon DEF Name, Base
<1>5. Base(p) \in Int /\ Base(q) \in Int
  BY <1>1, <1>2 DEF Originals
<1> QED  BY <1>3, <1>4, <1>5

-----------------------------------------------------------------------------
(* The files during migrations. *)

Sound(d) ==
    \A p \in Paths : d.files[p] # Absent /\ d.files[p].parses => Sensible(d.files[p].conditions)

ToolTyped ==
    tool # Idle => /\ tool \in [mode : {"in_place", "beside", "out_dir"}, todo : SUBSET Paths]
                   /\ \A p \in tool.todo : dir.files[p] # Absent
                   /\ tool.mode = "beside" => tool.todo \subseteq Originals

DirKept ==
    \A p \in Paths : <<"dir", p>> \notin torn /\ (p \in Originals \/ dir.files[p] # Absent) =>
        Migrated(Base(p), original.files[Base(p)], dir.files[p])

OutKept ==
    \A p \in Originals : <<"out", p>> \notin torn /\ out.files[p] # Absent =>
        Migrated(p, original.files[p], out.files[p])

FilesInv ==
    /\ Pristine(original)
    /\ dir \in Listings /\ dir.manifest = original.manifest /\ Sound(dir)
    /\ out \in Listings /\ out.manifest = "none"
    /\ ToolTyped /\ DirKept /\ OutKept

LEMMA MigratedSelf ==
    ASSUME NEW p, NEW f, f # Absent /\ f.parses => Sensible(f.conditions)
    PROVE  Migrated(p, f, f)
<1>1. \A w : Means(w, w)
  BY Zenon DEF Means
<1> QED  BY <1>1, Zenon DEF Migrated

LEMMA PristineKept ==
    ASSUME Pristine(dir), original = dir, torn = {}, tool = Idle,
           out = [manifest |-> "none", files |-> Empty]
    PROVE  FilesInv
<1>1. dir \in Listings
  BY Zenon DEF Pristine, Listings
<1>3. out \in Listings /\ out.manifest = "none" /\ \A p \in Paths : out.files[p] = Absent
  <2>1. Empty \in [Paths -> Files \union {Absent}] /\ \A p \in Paths : Empty[p] = Absent
    BY Zenon DEF Empty
  <2> HIDE DEF Empty
  <2>3. out.manifest = "none" /\ out.files = Empty
    OBVIOUS
  <2> DEFINE fs == [Paths -> Files \union {Absent}]
  <2>4. Empty \in fs
    BY <2>1, Zenon
  <2> HIDE DEF fs
  <2>5. out \in [manifest : {"none", "ok", "no legacy", "bad"}, files : fs]
    BY <2>4
  <2> QED  BY <2>1, <2>3, <2>5, Zenon DEF Listings, fs
<1>2. Sound(dir)
  BY Zenon DEF Pristine, Sound
<1>4. DirKept
  <2> SUFFICES ASSUME NEW p \in Paths, p \in Originals \/ dir.files[p] # Absent
               PROVE  Migrated(Base(p), original.files[Base(p)], dir.files[p])
    BY Zenon DEF DirKept
  <2>1. p \in Originals
    BY Zenon DEF Pristine
  <2>2. Base(p) = p
    BY <2>1, Zenon DEF Base
  <2>3. dir.files[p] # Absent /\ dir.files[p].parses => Sensible(dir.files[p].conditions)
    BY <1>2, Zenon DEF Sound
  <2> QED  BY <2>2, <2>3, MigratedSelf, Zenon
<1>5. \A p \in Originals : p \in Paths
  BY RuleFilesConstants DEF Originals, Paths
<1>6. OutKept
  BY <1>3, <1>5, Zenon DEF OutKept
<1> QED  BY <1>1, <1>2, <1>3, <1>4, <1>6, Zenon DEF FilesInv, ToolTyped

LEMMA FileOf ==
    ASSUME NEW d \in Listings, NEW p \in Paths
    PROVE  d.files[p] \in Files \union {Absent}
<1> DEFINE fs == [Paths -> Files \union {Absent}]
<1>1. d \in [manifest : {"none", "ok", "no legacy", "bad"}, files : fs]
  BY Zenon DEF Listings
<1> HIDE DEF fs
<1>2. d.files \in fs
  BY <1>1, Zenon
<1> QED  BY <1>2, Zenon DEF fs

\* A file of a directory before any migration that makes a rule has its types.
LEMMA PristineMakes ==
    ASSUME NEW d, Pristine(d), NEW p \in Paths, Makes(d.files[p])
    PROVE  p \in Originals /\ MakesRule(d, p)
<1>1. d.files[p] # Absent /\ d.files[p].parses
  BY Zenon DEF Makes
<1>2. p \in Originals /\ Sensible(d.files[p].conditions)
  BY <1>1, Zenon DEF Pristine
<1>3. d.files[p] \in Files
  BY <1>1, FileOf, Zenon DEF Pristine
<1> QED  BY <1>2, <1>3, Zenon DEF MakesRule

Put(d, to, x) == [d EXCEPT !.files[to] = x]

LEMMA PutFile ==
    ASSUME NEW d \in Listings, NEW to \in Paths, NEW x \in Files
    PROVE  /\ Put(d, to, x) \in Listings /\ Put(d, to, x).manifest = d.manifest
           /\ Put(d, to, x).files[to] = x
           /\ \A q \in Paths : q # to => Put(d, to, x).files[q] = d.files[q]
<1> DEFINE e == Put(d, to, x)
           fs == [Paths -> Files \union {Absent}]
           g == [d.files EXCEPT ![to] = x]
<1>1. d \in [manifest : {"none", "ok", "no legacy", "bad"}, files : fs]
  BY Zenon DEF Listings
<1>2. d.files \in fs
  <2> HIDE DEF fs
  <2> QED  BY <1>1, Zenon
<1>3. g \in fs /\ g[to] = x /\ \A q \in Paths : q # to => g[q] = d.files[q]
  <2> DEFINE S == Files \union {Absent}
  <2>1. x \in S /\ d.files \in [Paths -> S]
    BY <1>2, Zenon
  <2> HIDE DEF S
  <2>2. g \in [Paths -> S] /\ g[to] = x /\ \A q \in Paths : q # to => g[q] = d.files[q]
    BY <2>1
  <2> QED  BY <2>2, Zenon DEF S
<1>4. e = [d EXCEPT !.files = g]
  BY DEF Put
<1> HIDE DEF fs, g, e
<1>5. e \in [manifest : {"none", "ok", "no legacy", "bad"}, files : fs] /\ e.manifest = d.manifest /\ e.files = g
  BY <1>1, <1>3, <1>4, Zenon
<1> QED  BY <1>3, <1>5, Zenon DEF Listings, fs, e

\* The file the tool is at, and where it writes.
LEMMA ToolAt ==
    ASSUME FilesInv, tool # Idle, tool.todo # {}
    PROVE  LET p == FirstName(tool.todo) IN
           /\ p \in tool.todo /\ p \in Paths /\ dir.files[p] \in Files
           /\ output_path(p) \in Paths /\ Base(output_path(p)) = Base(p)
           /\ Target = "out" => output_path(p) = p
           /\ Target \in {"out", "dir"}
<1> DEFINE p == FirstName(tool.todo)
<1>1. /\ tool \in [mode : {"in_place", "beside", "out_dir"}, todo : SUBSET Paths]
      /\ \A q \in tool.todo : dir.files[q] # Absent
      /\ tool.mode = "beside" => tool.todo \subseteq Originals
  BY Zenon DEF FilesInv, ToolTyped
<1>2. tool.todo \in SUBSET Paths
  BY <1>1
<1>3. p \in tool.todo
  BY <1>2, FirstNameIn, Zenon
<1> HIDE DEF p
<1>4. p \in Paths
  BY <1>2, <1>3, Zenon
<1>5. dir.files[p] \in Files
  <2>1. dir.files[p] \in Files \union {Absent}
    BY <1>4, FileOf, Zenon DEF FilesInv
  <2> QED  BY <1>1, <1>3, <2>1, Zenon
<1>6. output_path(p) \in Paths /\ Base(output_path(p)) = Base(p)
  <2>1. CASE tool.mode = "beside"
    <3>1. p \in Originals /\ output_path(p) = p + NumRules
      BY <1>1, <1>3, <2>1, Zenon DEF output_path
    <3> QED  BY <1>4, <3>1, Bases, Zenon
  <2>2. CASE tool.mode # "beside"
    BY <1>4, <2>2, Zenon DEF output_path
  <2> QED  BY <2>1, <2>2, Zenon
<1>7. Target \in {"out", "dir"}
  BY Zenon DEF Target
<1>8. Target = "out" => output_path(p) = p
  <2>1. tool.mode = "out_dir" => tool.mode # "beside"
    OBVIOUS
  <2>2. Target = "out" => tool.mode = "out_dir"
    BY DEF Target
  <2> QED  BY <2>1, <2>2, Zenon DEF output_path
<1> QED  BY <1>3, <1>4, <1>5, <1>6, <1>7, <1>8, Zenon DEF p

\* A write into the rules directory: of a whole file made from one that is not
\* torn, or of one that counts as torn.
LEMMA DirWritten ==
    ASSUME FilesInv, NEW to \in Paths, NEW x \in Files, x.parses => Sensible(x.conditions),
           dir' = [dir EXCEPT !.files[to] = x], UNCHANGED <<out, original>>, torn \subseteq torn',
           <<"dir", to>> \in torn' \/ Migrated(Base(to), original.files[Base(to)], x)
    PROVE  /\ dir' \in Listings /\ dir'.manifest = dir.manifest /\ Sound(dir)' /\ DirKept' /\ OutKept'
           /\ \A q \in Paths : dir.files[q] # Absent => dir'.files[q] # Absent
<1>1. dir \in Listings /\ Sound(dir) /\ DirKept /\ OutKept
  BY Zenon DEF FilesInv
<1>2. /\ dir' \in Listings /\ dir'.manifest = dir.manifest /\ dir'.files[to] = x
      /\ \A q \in Paths : q # to => dir'.files[q] = dir.files[q]
  <2>1. dir' = Put(dir, to, x)
    BY Zenon DEF Put
  <2>2. /\ Put(dir, to, x) \in Listings /\ Put(dir, to, x).manifest = dir.manifest
        /\ Put(dir, to, x).files[to] = x
        /\ \A q \in Paths : q # to => Put(dir, to, x).files[q] = dir.files[q]
    BY <1>1, PutFile, Zenon
  <2> QED  BY <2>1, <2>2, Zenon
<1>3. x # Absent
  BY RuleFilesConstants, Zenon
<1>4. Sound(dir)'
  BY <1>1, <1>2, Zenon DEF Sound
<1>5. DirKept'
  <2> SUFFICES ASSUME NEW q \in Paths, <<"dir", q>> \notin torn',
                      q \in Originals \/ dir'.files[q] # Absent
               PROVE  Migrated(Base(q), original'.files[Base(q)], dir'.files[q])
    BY Zenon DEF DirKept
  <2>1. original' = original
    OBVIOUS
  <2>2. CASE q = to
    BY <1>2, <2>1, <2>2, Zenon
  <2>3. CASE q # to
    <3>1. dir'.files[q] = dir.files[q] /\ <<"dir", q>> \notin torn
      BY <1>2, <2>3, Zenon
    <3>2. Migrated(Base(q), original.files[Base(q)], dir.files[q])
      BY <1>1, <3>1, Zenon DEF DirKept
    <3> QED  BY <2>1, <3>1, <3>2, Zenon
  <2> QED  BY <2>2, <2>3, Zenon
<1>6. OutKept'
  <2>1. original' = original /\ out' = out
    OBVIOUS
  <2> SUFFICES ASSUME NEW q \in Originals, <<"out", q>> \notin torn', out'.files[q] # Absent
               PROVE  Migrated(q, original'.files[q], out'.files[q])
    BY Zenon DEF OutKept
  <2>2. <<"out", q>> \notin torn
    BY Zenon
  <2> QED  BY <1>1, <2>1, <2>2, Zenon DEF OutKept
<1> QED  BY <1>2, <1>3, <1>4, <1>5, <1>6, Zenon

\* And one into the other directory.
LEMMA OutWritten ==
    ASSUME FilesInv, NEW to \in Paths, NEW x \in Files,
           out' = [out EXCEPT !.files[to] = x], UNCHANGED <<dir, original>>, torn \subseteq torn',
           <<"out", to>> \in torn' \/ Migrated(Base(to), original.files[Base(to)], x)
    PROVE  out' \in Listings /\ out'.manifest = out.manifest /\ DirKept' /\ OutKept'
<1>1. out \in Listings /\ DirKept /\ OutKept
  BY Zenon DEF FilesInv
<1>2. /\ out' \in Listings /\ out'.manifest = out.manifest /\ out'.files[to] = x
      /\ \A q \in Paths : q # to => out'.files[q] = out.files[q]
  <2>1. out' = Put(out, to, x)
    BY Zenon DEF Put
  <2>2. /\ Put(out, to, x) \in Listings /\ Put(out, to, x).manifest = out.manifest
        /\ Put(out, to, x).files[to] = x
        /\ \A q \in Paths : q # to => Put(out, to, x).files[q] = out.files[q]
    BY <1>1, PutFile, Zenon
  <2> QED  BY <2>1, <2>2, Zenon
<1>3. original' = original /\ dir' = dir
  OBVIOUS
<1>4. DirKept'
  <2> SUFFICES ASSUME NEW q \in Paths, <<"dir", q>> \notin torn',
                      q \in Originals \/ dir'.files[q] # Absent
               PROVE  Migrated(Base(q), original'.files[Base(q)], dir'.files[q])
    BY Zenon DEF DirKept
  <2>1. <<"dir", q>> \notin torn
    BY Zenon
  <2> QED  BY <1>1, <1>3, <2>1, Zenon DEF DirKept
<1>5. OutKept'
  <2> SUFFICES ASSUME NEW q \in Originals, <<"out", q>> \notin torn', out'.files[q] # Absent
               PROVE  Migrated(q, original'.files[q], out'.files[q])
    BY Zenon DEF OutKept
  <2>1. q \in Paths
    BY RuleFilesConstants DEF Originals, Paths
  <2>2. CASE q = to
    <3>1. Base(q) = q
      BY Zenon DEF Base
    <3> QED  BY <1>2, <1>3, <2>2, <3>1, Zenon
  <2>3. CASE q # to
    <3>1. out'.files[q] = out.files[q] /\ <<"out", q>> \notin torn
      BY <1>2, <2>1, <2>3, Zenon
    <3> QED  BY <1>1, <1>3, <3>1, Zenon DEF OutKept
  <2> QED  BY <2>2, <2>3, Zenon
<1> QED  BY <1>2, <1>4, <1>5, Zenon

\* What is written for the file the tool is at, whole or torn.
LEMMA FileWritten ==
    ASSUME FilesInv, tool # Idle, tool.todo # {}, NEW p, p = FirstName(tool.todo),
           NEW f, f = dir.files[p], NEW g,
           (f.parses /\ g = migrate_rule_value(p, f)) \/ (f = Fragment /\ g = f),
           NEW x, UNCHANGED original, torn \subseteq torn',
           \/ x = g /\ (<<"dir", p>> \in torn \/ Strays(p) => <<Target, output_path(p)>> \in torn')
           \/ x \in TornFiles(f, g) /\ <<Target, output_path(p)>> \in torn',
           IF Target = "out"
           THEN out' = [out EXCEPT !.files[output_path(p)] = x] /\ UNCHANGED dir
           ELSE dir' = [dir EXCEPT !.files[output_path(p)] = x] /\ UNCHANGED out,
           tool' = Idle \/ tool' = [tool EXCEPT !.todo = @ \ {p}]
    PROVE  FilesInv'
<1> DEFINE to == output_path(p)
<1>1. /\ p \in tool.todo /\ p \in Paths /\ f \in Files /\ to \in Paths /\ Base(to) = Base(p)
      /\ Target = "out" => to = p
      /\ Target \in {"out", "dir"}
  BY ToolAt, Zenon
<1>2. f # Absent
  BY <1>1, RuleFilesConstants, Zenon
<1>3. f.parses => Sensible(f.conditions)
  BY <1>1, <1>2, Zenon DEF FilesInv, Sound
<1>4. g \in Files /\ (g.parses => f.parses /\ Sensible(g.conditions))
  <2>1. CASE f.parses /\ g = migrate_rule_value(p, f)
    BY <1>1, <1>3, <2>1, ValueTyped, Zenon
  <2>2. CASE f = Fragment /\ g = f
    <3>1. Fragment.parses = FALSE
      BY DEF Fragment
    <3> QED  BY <1>1, <2>2, <3>1, Zenon
  <2> QED  BY <2>1, <2>2, Zenon
<1>5. x \in Files /\ (x.parses => Sensible(x.conditions))
  <2>1. CASE x = g
    BY <1>4, <2>1, Zenon
  <2>2. CASE x \in TornFiles(f, g)
    BY <1>1, <1>4, <2>2, TornTyped, Zenon
  <2> QED  BY <2>1, <2>2, Zenon
<1>6. <<Target, to>> \in torn' \/ Migrated(Base(to), original.files[Base(to)], x)
  <2> SUFFICES ASSUME <<Target, to>> \notin torn'
               PROVE  Migrated(Base(to), original.files[Base(to)], x)
    BY Zenon
  <2>1. x = g /\ <<"dir", p>> \notin torn /\ ~ Strays(p)
    BY Zenon
  <2>2. Migrated(Base(p), original.files[Base(p)], f)
    BY <1>1, <1>2, <2>1, Zenon DEF FilesInv, DirKept
  <2>3. original.files[Base(p)] \in Files \union {Absent}
    <3>1. Base(p) \in Paths
      BY <1>1, Bases, Zenon
    <3> QED  BY <3>1, FileOf, Zenon DEF FilesInv, Pristine
  <2>4. Migrated(Base(p), original.files[Base(p)], g)
    <3>1. CASE f.parses /\ g = migrate_rule_value(p, f)
      <4>1. ~ HasStray(f.conditions)
        BY <2>1, <3>1, Zenon DEF Strays
      <4> QED  BY <1>1, <2>2, <2>3, <3>1, <4>1, MigratedAgain, Zenon
    <3>2. CASE f = Fragment /\ g = f
      BY <2>2, <3>2, Zenon
    <3> QED  BY <3>1, <3>2, Zenon
  <2> QED  BY <1>1, <2>1, <2>4, Zenon
<1> HIDE DEF to
<1>7. ASSUME \A q \in Paths : dir.files[q] # Absent => dir'.files[q] # Absent
      PROVE  ToolTyped'
  <2>1. /\ tool \in [mode : {"in_place", "beside", "out_dir"}, todo : SUBSET Paths]
        /\ \A q \in tool.todo : dir.files[q] # Absent
        /\ tool.mode = "beside" => tool.todo \subseteq Originals
    BY Zenon DEF FilesInv, ToolTyped
  <2>2. CASE tool' = Idle
    BY <2>2, Zenon DEF ToolTyped
  <2>3. CASE tool' = [tool EXCEPT !.todo = @ \ {p}]
    <3>1. /\ tool' \in [mode : {"in_place", "beside", "out_dir"}, todo : SUBSET Paths]
          /\ tool'.mode = tool.mode /\ tool'.todo \subseteq tool.todo
      BY <2>1, <2>3
    <3>2. tool.todo \subseteq Paths
      BY <2>1
    <3> QED  BY <1>7, <2>1, <3>1, <3>2, Zenon DEF ToolTyped
  <2> QED  BY <2>2, <2>3, Zenon
<1>8. CASE Target = "out"
  <2>1. out' = [out EXCEPT !.files[to] = x] /\ dir' = dir
    BY <1>8, Zenon DEF to
  <2>2. UNCHANGED <<dir, original>> /\ (<<"out", to>> \in torn' \/ Migrated(Base(to), original.files[Base(to)], x))
    BY <1>6, <1>8, <2>1, Zenon
  <2>3. out' \in Listings /\ out'.manifest = out.manifest /\ DirKept' /\ OutKept'
    BY <1>1, <1>5, <2>1, <2>2, OutWritten, Zenon
  <2>4. ToolTyped'
    BY <1>7, <2>1, Zenon
  <2>5. dir' \in Listings /\ dir'.manifest = original'.manifest /\ Sound(dir)' /\ Pristine(original)'
        /\ out'.manifest = "none"
    BY <2>1, <2>2, <2>3, Zenon DEF FilesInv, Sound, Pristine
  <2> QED  BY <2>3, <2>4, <2>5, Zenon DEF FilesInv
<1>9. CASE Target # "out"
  <2>1. dir' = [dir EXCEPT !.files[to] = x] /\ out' = out /\ Target = "dir"
    BY <1>1, <1>9, Zenon DEF to
  <2>2. UNCHANGED <<out, original>> /\ (<<"dir", to>> \in torn' \/ Migrated(Base(to), original.files[Base(to)], x))
    BY <1>6, <2>1, Zenon
  <2>3. /\ dir' \in Listings /\ dir'.manifest = dir.manifest /\ Sound(dir)' /\ DirKept' /\ OutKept'
        /\ \A q \in Paths : dir.files[q] # Absent => dir'.files[q] # Absent
    BY <1>1, <1>5, <2>1, <2>2, DirWritten, Zenon
  <2>4. ToolTyped'
    BY <1>7, <2>3, Zenon
  <2>5. Pristine(original)' /\ out' \in Listings /\ out'.manifest = "none"
        /\ dir'.manifest = original'.manifest
    BY <2>1, <2>2, <2>3, Zenon DEF FilesInv, Pristine
  <2> QED  BY <2>3, <2>4, <2>5, Zenon DEF FilesInv
<1> QED  BY <1>8, <1>9, Zenon

LEMMA FilesUnchanged ==
    ASSUME FilesInv, UNCHANGED <<dir, out, original, torn>>, ToolTyped'
    PROVE  FilesInv'
<1>1. dir' = dir /\ out' = out /\ original' = original /\ torn' = torn
  OBVIOUS
<1>2. DirKept' /\ OutKept'
  BY <1>1, Zenon DEF FilesInv, DirKept, OutKept
<1>3. Pristine(original)' /\ Sound(dir)'
  BY <1>1, Zenon DEF FilesInv, Pristine, Sound
<1>4. dir' \in Listings /\ dir'.manifest = original'.manifest /\ out' \in Listings
      /\ out'.manifest = "none"
  BY <1>1, Zenon DEF FilesInv
<1> QED  BY <1>2, <1>3, <1>4, Zenon DEF FilesInv

LEMMA StartMigrateKept ==
    ASSUME FilesInv, NEW mode \in {"in_place", "beside", "out_dir"}, NEW pack,
           StartMigrate(mode, pack)
    PROVE  FilesInv'
<1> DEFINE todo == {p \in Paths : dir.files[p] # Absent /\ pack \in {Absent, Place[p]}}
<1>1. tool' = [mode |-> mode, todo |-> todo] /\ UNCHANGED <<dir, out, original, torn>>
  BY Zenon DEF StartMigrate
<1>2. todo \in SUBSET Paths /\ \A p \in todo : dir.files[p] # Absent
  BY Zenon
<1>3. mode = "beside" => todo \subseteq Originals
  BY Zenon DEF StartMigrate
<1> HIDE DEF todo
<1>4. /\ tool' \in [mode : {"in_place", "beside", "out_dir"}, todo : SUBSET Paths]
      /\ tool'.mode = mode /\ tool'.todo = todo
  BY <1>1, <1>2
<1>5. dir' = dir
  BY <1>1, Zenon
<1>6. ToolTyped'
  BY <1>2, <1>3, <1>4, <1>5, Zenon DEF ToolTyped
<1> QED  BY <1>1, <1>6, FilesUnchanged, Zenon

LEMMA WriteKept ==
    ASSUME FilesInv, tool # Idle, tool.todo # {}, original' = original, NEW p, p = FirstName(tool.todo),
           NEW f, f = dir.files[p], NEW g,
           (f.parses /\ g = migrate_rule_value(p, f)) \/ (f = Fragment /\ g = f),
           write_migrated(p, g)
    PROVE  FilesInv'
<1> DEFINE to == output_path(p)
           put(x) == IF Target = "out"
                     THEN out' = [out EXCEPT !.files[to] = x] /\ UNCHANGED dir
                     ELSE dir' = [dir EXCEPT !.files[to] = x] /\ UNCHANGED out
<1>1. \/ /\ put(g) /\ tool' = [tool EXCEPT !.todo = @ \ {p}]
         /\ torn' = torn \union (IF <<"dir", p>> \in torn \/ Strays(p) THEN {<<Target, to>>} ELSE {})
      \/ /\ \E x \in TornFiles(f, g) : put(x)
         /\ tool' = Idle /\ torn' = torn \union {<<Target, to>>}
      \/ UNCHANGED <<dir, out, torn>> /\ tool' = Idle
  BY Zenon DEF write_migrated
<1>2. CASE /\ put(g) /\ tool' = [tool EXCEPT !.todo = @ \ {p}]
           /\ torn' = torn \union (IF <<"dir", p>> \in torn \/ Strays(p) THEN {<<Target, to>>} ELSE {})
  <2>1. torn \subseteq torn' /\ (<<"dir", p>> \in torn \/ Strays(p) => <<Target, to>> \in torn')
    BY <1>2, Zenon
  <2> QED  BY <1>2, <2>1, FileWritten, Zenon
<1>3. CASE /\ \E x \in TornFiles(f, g) : put(x)
           /\ tool' = Idle /\ torn' = torn \union {<<Target, to>>}
  <2>1. PICK x \in TornFiles(f, g) : put(x)
    BY <1>3, Zenon
  <2>2. torn \subseteq torn' /\ <<Target, to>> \in torn'
    BY <1>3, Zenon
  <2> QED  BY <1>3, <2>1, <2>2, FileWritten, Zenon
<1>4. CASE UNCHANGED <<dir, out, torn>> /\ tool' = Idle
  <2>1. ToolTyped'
    BY <1>4, Zenon DEF ToolTyped
  <2> QED  BY <1>4, <2>1, FilesUnchanged, Zenon
<1> QED  BY <1>1, <1>2, <1>3, <1>4, Zenon

LEMMA MigrateFileKept ==
    ASSUME FilesInv, MigrateFile PROVE FilesInv'
<1> DEFINE p == FirstName(tool.todo)
           f == dir.files[p]
           g == migrate_rule_value(p, f)
<1>1. tool # Idle /\ tool.todo # {} /\ original' = original
  BY Zenon DEF MigrateFile
<1>2. \/ f.parses /\ write_migrated(p, g)
      \/ f = Fragment /\ write_migrated(p, f)
      \/ tool' = [tool EXCEPT !.todo = @ \ {p}] /\ UNCHANGED <<dir, out, torn>>
      \/ tool' = Idle /\ UNCHANGED <<dir, out, torn>>
  BY Zenon DEF MigrateFile
<1>3. CASE f.parses /\ write_migrated(p, g)
  BY <1>1, <1>3, WriteKept, Zenon
<1>4. CASE f = Fragment /\ write_migrated(p, f)
  BY <1>1, <1>4, WriteKept, Zenon
<1>5. CASE tool' = [tool EXCEPT !.todo = @ \ {p}] /\ UNCHANGED <<dir, out, torn>>
  <2>1. /\ tool \in [mode : {"in_place", "beside", "out_dir"}, todo : SUBSET Paths]
        /\ \A q \in tool.todo : dir.files[q] # Absent
        /\ tool.mode = "beside" => tool.todo \subseteq Originals
    BY <1>1, Zenon DEF FilesInv, ToolTyped
  <2> HIDE DEF p
  <2>2. /\ tool' \in [mode : {"in_place", "beside", "out_dir"}, todo : SUBSET Paths]
        /\ tool'.mode = tool.mode /\ tool'.todo \subseteq tool.todo
    BY <1>5, <2>1
  <2>3. ToolTyped'
    BY <1>5, <2>1, <2>2, Zenon DEF ToolTyped
  <2> QED  BY <1>1, <1>5, <2>3, FilesUnchanged, Zenon
<1>6. CASE tool' = Idle /\ UNCHANGED <<dir, out, torn>>
  <2>1. ToolTyped'
    BY <1>6, Zenon DEF ToolTyped
  <2> QED  BY <1>1, <1>6, <2>1, FilesUnchanged, Zenon
<1> QED  BY <1>2, <1>3, <1>4, <1>5, <1>6, Zenon

-----------------------------------------------------------------------------
(* The rules the hub serves with. *)

RuleTypes == [id : Nat, priority : Nat, conditions : Seq(Conditions)]

LEMMA OtherId ==
    ASSUME NEW id, NEW priority, NEW conditions, NEW i
    PROVE  [[id |-> id, priority |-> priority, conditions |-> conditions] EXCEPT !.id = i]
               = [id |-> i, priority |-> priority, conditions |-> conditions]
OBVIOUS

LEMMA LoadTyped ==
    ASSUME NEW d \in Directories, NEW strict, load_from_dir(d, strict) # Err
    PROVE  LET loaded == load_from_dir(d, strict) IN
           [i \in DOMAIN loaded |-> [loaded[i] EXCEPT !.id = i]] \in Seq(RuleTypes)
<1> DEFINE ps == Loadable(d)
           N == Cardinality(ps)
           At(i) == PathAt(d, ps, i)
           rs == RulesOf(d, ps)
<1>1. load_from_dir(d, strict) = rs
  BY Zenon DEF load_from_dir
<1>2. ps \in SUBSET Paths
  BY Zenon DEF Loadable, collect_rule_files
<1>3. \A p \in ps : d.files[p].priority \in Nat /\ normalize(d.files[p].conditions) \in Seq(Conditions)
  <2> SUFFICES ASSUME NEW p \in ps
               PROVE  d.files[p].priority \in Nat /\ normalize(d.files[p].conditions) \in Seq(Conditions)
    BY Zenon
  <2>1. Pristine(d)
    BY RuleFilesConstants, Zenon
  <2>2. p \in Paths /\ Makes(d.files[p])
    BY LoadableIs, Zenon
  <2>3. MakesRule(d, p)
    BY <2>1, <2>2, PristineMakes, Zenon
  <2> QED  BY <2>2, <2>3, RuleParts, Zenon
<1>4. N \in Nat
  <2>1. IsFiniteSet(ps)
    BY <1>2, PathsFinite, FS_Subset, Zenon
  <2> QED  BY <2>1, FS_CardinalityType, Zenon
<1> HIDE DEF ps
<1>5. \A i \in 1..N : At(i) \in ps
  BY <1>2, <1>3, PathsAt, Zenon
<1>6. DOMAIN rs = 1..N
  BY Zenon DEF RulesOf
<1>7. \A i \in 1..N : rs[i] = [id |-> final_id(At(i), d.files[At(i)]), priority |-> d.files[At(i)].priority,
                               conditions |-> normalize(d.files[At(i)].conditions)]
  BY Zenon DEF RulesOf
<1> HIDE DEF rs, At, N
<1>8. ASSUME NEW i \in 1..N PROVE [rs[i] EXCEPT !.id = i] \in RuleTypes
  <2>1. [rs[i] EXCEPT !.id = i] = [id |-> i, priority |-> d.files[At(i)].priority,
                                   conditions |-> normalize(d.files[At(i)].conditions)]
    <3> DEFINE a == final_id(At(i), d.files[At(i)])
               b == d.files[At(i)].priority
               c == normalize(d.files[At(i)].conditions)
    <3>1. rs[i] = [id |-> a, priority |-> b, conditions |-> c]
      BY <1>7, Zenon
    <3> HIDE DEF a, b, c
    <3>2. [rs[i] EXCEPT !.id = i] = [id |-> i, priority |-> b, conditions |-> c]
      BY <3>1, OtherId
    <3> QED  BY <3>2, Zenon DEF b, c
  <2>2. i \in Nat
    BY <1>4
  <2> QED  BY <1>3, <1>5, <2>1, <2>2, Zenon DEF RuleTypes
<1>9. [i \in 1..N |-> [rs[i] EXCEPT !.id = i]] \in Seq(RuleTypes)
  <2> DEFINE g(i) == [rs[i] EXCEPT !.id = i]
  <2>1. \A i \in 1..N : g(i) \in RuleTypes
    BY <1>8, Zenon
  <2> HIDE DEF g
  <2>2. [i \in 1..N |-> g(i)] \in Seq(RuleTypes)
    BY <1>4, <2>1
  <2> QED  BY <2>2, Zenon DEF g
<1> QED  BY <1>1, <1>6, <1>9, Zenon

-----------------------------------------------------------------------------
(* The incidents request. *)

Req(pc, events, limit, todo, job, rule, es, incidents) ==
    [pc |-> pc, events |-> events, limit |-> limit, todo |-> todo, job |-> job, rule |-> rule,
     edges |-> es, incidents |-> incidents]

IncidentTypes == [rule : Nat, job : Jobs, priority : Nat, event_count : Nat]

IncidentOf(rs, events, i, j) ==
    [rule |-> i, job |-> j, priority |-> rs[i].priority, event_count |-> Cardinality(events[j])]

MatchesOn(rs, events, i, j, g) == match_all_conditions(rs[i].conditions, events[j], g.edges, g.nodes)

Within(g, h) == g.edges \subseteq h.edges /\ g.nodes \subseteq h.nodes

\* What has been found is there, and what has been looked at and is there all
\* the time has been found.
FoundHolds(rs, see, events, incidents) ==
    \A k \in DOMAIN incidents : \E i \in DOMAIN rs, j \in Jobs :
        incidents[k] = IncidentOf(rs, events, i, j) /\ MatchesOn(rs, events, i, j, see)

Finished(pc, todo, job, rule, i, j) == j \notin todo /\ (pc # "group" /\ j = job => i < rule)

NoneMissed(rs, keep, pc, events, todo, job, rule, incidents) ==
    \A i \in DOMAIN rs, j \in Jobs :
        Finished(pc, todo, job, rule, i, j) /\ events[j] # {} /\ MatchesOn(rs, events, i, j, keep)
        => \E k \in DOMAIN incidents : incidents[k] = IncidentOf(rs, events, i, j)

Typed(pc, events, limit, todo, job, rule, incidents) ==
    /\ pc \in {"group", "edges", "nodes"}
    /\ events \in [Jobs -> Candidates] /\ limit \in Nat /\ todo \subseteq Jobs /\ rule \in Nat
    /\ incidents \in Seq(IncidentTypes)
    /\ pc # "group" => job \in Jobs /\ rule >= 1

Working(rs, see, keep, pc, events, limit, todo, job, rule, es, incidents) ==
    /\ Typed(pc, events, limit, todo, job, rule, incidents)
    /\ pc = "nodes" => rule \in DOMAIN rs /\ keep.edges \subseteq es /\ es \subseteq see.edges
    /\ FoundHolds(rs, see, events, incidents)
    /\ NoneMissed(rs, keep, pc, events, todo, job, rule, incidents)

Justified(rs, see, keep, events, limit, answer) ==
    /\ \A k \in DOMAIN answer : MatchesOn(rs, events, answer[k].rule, answer[k].job, see)
    /\ \A i \in DOMAIN rs, j \in Jobs :
           events[j] # {} /\ MatchesOn(rs, events, i, j, keep)
           => \/ \E k \in DOMAIN answer : answer[k] = IncidentOf(rs, events, i, j)
              \/ /\ Len(answer) = limit
                 /\ \A k \in DOMAIN answer : ~ Outranks(IncidentOf(rs, events, i, j), answer[k])

LEMMA Indices == ASSUME NEW S, NEW s \in Seq(S), NEW i \in DOMAIN s PROVE i \in Nat /\ i >= 1
OBVIOUS

LEMMA NextIndex == ASSUME NEW i \in Nat, NEW n \in Nat, i < n + 1, i # n PROVE i < n
OBVIOUS

LEMMA OfSeq ==
    ASSUME NEW S, NEW s \in Seq(S)
    PROVE  Len(s) \in Nat /\ DOMAIN s = 1..Len(s) /\ \A k \in 1..Len(s) : s[k] \in S
OBVIOUS

LEMMA Initial ==
    ASSUME NEW m \in Nat, NEW n \in Nat, m <= n
    PROVE  /\ 1 \in Int /\ m \in Int /\ 1..m \subseteq 1..n
           /\ m - 1 + 1 = m /\ \A k \in 1..m : 1 + k - 1 = k
OBVIOUS

LEMMA Prefix ==
    ASSUME NEW S, NEW s, NEW m \in Nat, \A k \in 1..m : s[k] \in S
    PROVE  /\ Len(SubSeq(s, 1, m)) = m /\ DOMAIN SubSeq(s, 1, m) = 1..m
           /\ \A k \in 1..m : SubSeq(s, 1, m)[k] = s[k]
OBVIOUS

LEMMA Longer ==
    ASSUME NEW S, NEW s \in Seq(S), NEW x \in S
    PROVE  /\ Append(s, x) \in Seq(S) /\ DOMAIN Append(s, x) = 1..(Len(s) + 1)
           /\ DOMAIN s = 1..Len(s) /\ Len(s) \in Nat
           /\ Append(s, x)[Len(s) + 1] = x /\ \A k \in 1..Len(s) : Append(s, x)[k] = s[k]
OBVIOUS

LEMMA IncidentFields ==
    ASSUME NEW rs, NEW events, NEW i, NEW j, NEW x, x = IncidentOf(rs, events, i, j)
    PROVE  x.rule = i /\ x.job = j
BY Zenon DEF IncidentOf

LEMMA MatchesGrow ==
    ASSUME NEW rs \in Seq(RuleTypes), NEW events, NEW i \in DOMAIN rs, NEW j, NEW g, NEW h, Within(g, h),
           MatchesOn(rs, events, i, j, g)
    PROVE  MatchesOn(rs, events, i, j, h)
<1>1. rs[i] \in RuleTypes
  OBVIOUS
<1>2. rs[i].conditions \in Seq(Conditions)
  BY <1>1, Zenon DEF RuleTypes
<1> QED  BY <1>2, MatchGrows, Zenon DEF MatchesOn, Within

LEMMA IncidentTyped ==
    ASSUME NEW rs \in Seq(RuleTypes), NEW events \in [Jobs -> Candidates], NEW i \in DOMAIN rs, NEW j \in Jobs
    PROVE  IncidentOf(rs, events, i, j) \in IncidentTypes
<1>1. rs[i] \in RuleTypes /\ i \in Nat
  OBVIOUS
<1>2. rs[i].priority \in Nat
  BY <1>1, Zenon DEF RuleTypes
<1>3. IsFiniteSet(events[j])
  BY DiagnosisConstants, Zenon
<1>4. Cardinality(events[j]) \in Nat
  BY <1>3, FS_CardinalityType, Zenon
<1> QED  BY <1>1, <1>2, <1>4, Zenon DEF IncidentOf, IncidentTypes

\* The graph moves on.
LEMMA WorkingMoves ==
    ASSUME NEW rs \in Seq(RuleTypes), NEW see, NEW keep, NEW see2, NEW keep2,
           Within(see, see2), Within(keep2, keep),
           NEW pc, NEW events, NEW limit, NEW todo, NEW job, NEW rule, NEW es, NEW incidents,
           Working(rs, see, keep, pc, events, limit, todo, job, rule, es, incidents)
    PROVE  Working(rs, see2, keep2, pc, events, limit, todo, job, rule, es, incidents)
<1>1. FoundHolds(rs, see2, events, incidents)
  BY MatchesGrow, Zenon DEF Working, FoundHolds
<1>2. NoneMissed(rs, keep2, pc, events, todo, job, rule, incidents)
  BY MatchesGrow, Zenon DEF Working, NoneMissed
<1> QED  BY <1>1, <1>2, Zenon DEF Working, Within

LEMMA BeginWorks ==
    ASSUME NEW rs, NEW see, NEW keep, NEW events \in [Jobs -> Candidates], NEW limit \in Limits
    PROVE  Working(rs, see, keep, "group", events, limit, {j \in Jobs : events[j] # {}}, Absent, 0, {}, <<>>)
<1>1. Typed("group", events, limit, {j \in Jobs : events[j] # {}}, Absent, 0, <<>>)
  BY DiagnosisConstants DEF Typed
<1>2. DOMAIN <<>> = {}
  OBVIOUS
<1> QED  BY <1>1, <1>2, Zenon DEF Working, FoundHolds, NoneMissed, Finished

LEMMA GroupWorks ==
    ASSUME NEW rs \in Seq(RuleTypes), NEW see, NEW keep,
           NEW events, NEW limit, NEW todo, NEW job, NEW rule, NEW es, NEW incidents,
           Working(rs, see, keep, "group", events, limit, todo, job, rule, es, incidents), NEW j \in todo
    PROVE  Working(rs, see, keep, "edges", events, limit, todo \ {j}, j, 1, es, incidents)
<1>0. 1 \in Nat /\ 1 >= 1
  BY Initial
<1>1. Typed("edges", events, limit, todo \ {j}, j, 1, incidents)
  BY <1>0, Zenon DEF Working, Typed
<1>2. ASSUME NEW i \in DOMAIN rs, NEW x \in Jobs, Finished("edges", todo \ {j}, j, 1, i, x)
      PROVE  Finished("group", todo, job, rule, i, x)
  <2>1. i \in Nat /\ i >= 1
    BY Indices, Zenon
  <2> QED  BY <1>2, <2>1 DEF Finished
<1>3. NoneMissed(rs, keep, "edges", events, todo \ {j}, j, 1, incidents)
  BY <1>2, Zenon DEF Working, NoneMissed
<1> QED  BY <1>1, <1>3, Zenon DEF Working

LEMMA EdgesWork ==
    ASSUME NEW rs \in Seq(RuleTypes), NEW see, NEW keep,
           NEW events, NEW limit, NEW todo, NEW job, NEW rule, NEW es, NEW incidents,
           Working(rs, see, keep, "edges", events, limit, todo, job, rule, es, incidents)
    PROVE  /\ rule > Len(rs) => Working(rs, see, keep, "group", events, limit, todo, job, rule, es, incidents)
           /\ ~ (rule > Len(rs)) => \A read : keep.edges \subseteq read /\ read \subseteq see.edges =>
                  Working(rs, see, keep, "nodes", events, limit, todo, job, rule, read, incidents)
<1>1. rule \in Nat /\ rule >= 1 /\ Len(rs) \in Nat /\ DOMAIN rs = 1..Len(rs)
  BY OfSeq, Zenon DEF Working, Typed
<1>2. /\ Typed("group", events, limit, todo, job, rule, incidents)
      /\ Typed("nodes", events, limit, todo, job, rule, incidents)
  BY Zenon DEF Working, Typed
<1>3. ASSUME rule > Len(rs) PROVE NoneMissed(rs, keep, "group", events, todo, job, rule, incidents)
  <2>1. ASSUME NEW i \in DOMAIN rs, NEW x \in Jobs, Finished("group", todo, job, rule, i, x)
        PROVE  Finished("edges", todo, job, rule, i, x)
    BY <1>1, <1>3, <2>1 DEF Finished
  <2> QED  BY <2>1, Zenon DEF Working, NoneMissed
<1>4. NoneMissed(rs, keep, "nodes", events, todo, job, rule, incidents)
  BY Zenon DEF Working, NoneMissed, Finished
<1>5. ~ (rule > Len(rs)) => rule \in DOMAIN rs
  BY <1>1
<1> QED  BY <1>2, <1>3, <1>4, <1>5, Zenon DEF Working

LEMMA NodesWork ==
    ASSUME NEW rs \in Seq(RuleTypes), NEW see, NEW keep,
           NEW events, NEW limit, NEW todo, NEW job, NEW rule, NEW es, NEW incidents,
           Working(rs, see, keep, "nodes", events, limit, todo, job, rule, es, incidents),
           NEW ns, keep.nodes \subseteq ns, ns \subseteq see.nodes
    PROVE  LET hit == match_all_conditions(rs[rule].conditions, events[job], es, ns) IN
           Working(rs, see, keep, "edges", events, limit, todo, job, rule + 1, {},
                   IF hit THEN Append(incidents, IncidentOf(rs, events, rule, job)) ELSE incidents)
<1> DEFINE hit == match_all_conditions(rs[rule].conditions, events[job], es, ns)
           g == [edges |-> es, nodes |-> ns]
           new == IncidentOf(rs, events, rule, job)
           longer == IF hit THEN Append(incidents, new) ELSE incidents
<1>1. /\ events \in [Jobs -> Candidates] /\ limit \in Nat /\ todo \subseteq Jobs /\ rule \in Nat /\ rule >= 1
      /\ incidents \in Seq(IncidentTypes) /\ job \in Jobs /\ rule \in DOMAIN rs
  BY Zenon DEF Working, Typed
<1>2. Within(keep, g) /\ Within(g, see)
  BY Zenon DEF Working, Within
<1>3. hit <=> MatchesOn(rs, events, rule, job, g)
  BY Zenon DEF MatchesOn
<1>4. new \in IncidentTypes
  BY <1>1, IncidentTyped, Zenon
<1> HIDE DEF g, new, hit
<1>5. hit => MatchesOn(rs, events, rule, job, see)
  BY <1>1, <1>2, <1>3, MatchesGrow, Zenon
<1>6. MatchesOn(rs, events, rule, job, keep) => hit
  BY <1>1, <1>2, <1>3, MatchesGrow, Zenon
<1>7. /\ longer \in Seq(IncidentTypes) /\ DOMAIN incidents \subseteq DOMAIN longer
      /\ \A k \in DOMAIN incidents : longer[k] = incidents[k]
      /\ \A k \in DOMAIN longer : k \in DOMAIN incidents \/ (hit /\ longer[k] = new)
      /\ hit => \E k \in DOMAIN longer : longer[k] = new
  <2> DEFINE more == Append(incidents, new)
             n == Len(incidents)
  <2>1. /\ more \in Seq(IncidentTypes) /\ DOMAIN more = 1..(n + 1) /\ DOMAIN incidents = 1..n /\ n \in Nat
        /\ more[n + 1] = new /\ \A k \in 1..n : more[k] = incidents[k]
    BY <1>1, <1>4, Longer, SMTT(30)
  <2> HIDE DEF n, more
  <2>2. \A k \in 1..(n + 1) : k \in 1..n \/ k = n + 1
    BY <2>1
  <2>3. 1..n \subseteq 1..(n + 1) /\ n + 1 \in 1..(n + 1)
    BY <2>1
  <2>4. longer = IF hit THEN more ELSE incidents
    BY Zenon DEF more
  <2> HIDE DEF longer
  <2> QED  BY <1>1, <2>1, <2>2, <2>3, <2>4, Zenon
<1> HIDE DEF longer
<1>8. Typed("edges", events, limit, todo, job, rule + 1, longer)
  BY <1>1, <1>7 DEF Typed
<1>9. FoundHolds(rs, see, events, longer)
  <2> SUFFICES ASSUME NEW k \in DOMAIN longer
               PROVE  \E i \in DOMAIN rs, j \in Jobs :
                          longer[k] = IncidentOf(rs, events, i, j) /\ MatchesOn(rs, events, i, j, see)
    BY Zenon DEF FoundHolds
  <2>1. CASE k \in DOMAIN incidents
    BY <1>7, <2>1, Zenon DEF Working, FoundHolds
  <2>2. CASE hit /\ longer[k] = new
    BY <1>1, <1>5, <2>2, Zenon DEF new
  <2> QED  BY <1>7, <2>1, <2>2, Zenon
<1>10. NoneMissed(rs, keep, "edges", events, todo, job, rule + 1, longer)
  <2> SUFFICES ASSUME NEW i \in DOMAIN rs, NEW j \in Jobs,
                      Finished("edges", todo, job, rule + 1, i, j), events[j] # {},
                      MatchesOn(rs, events, i, j, keep)
               PROVE  \E k \in DOMAIN longer : longer[k] = IncidentOf(rs, events, i, j)
    BY Zenon DEF NoneMissed
  <2>1. CASE j = job /\ i = rule
    BY <1>6, <1>7, <2>1, Zenon DEF new
  <2>2. CASE ~ (j = job /\ i = rule)
    <3>1. i \in Nat
      BY Indices, Zenon
    <3>2. Finished("nodes", todo, job, rule, i, j)
      BY <1>1, <2>2, <3>1, NextIndex, Zenon DEF Finished
    <3>3. PICK k \in DOMAIN incidents : incidents[k] = IncidentOf(rs, events, i, j)
      BY <3>2, Zenon DEF Working, NoneMissed
    <3> QED  BY <1>7, <3>3, Zenon
  <2> QED  BY <2>1, <2>2, Zenon
<1>11. Working(rs, see, keep, "edges", events, limit, todo, job, rule + 1, {}, longer)
  BY <1>8, <1>9, <1>10, Zenon DEF Working
<1> QED  BY <1>11, Zenon DEF longer, hit, new

\* The answer: sorted, cut, and nothing that outranks it left out.
LEMMA EndJustified ==
    ASSUME NEW rs \in Seq(RuleTypes), NEW see, NEW keep,
           NEW events, NEW limit, NEW job, NEW rule, NEW es, NEW incidents,
           Working(rs, see, keep, "group", events, limit, {}, job, rule, es, incidents),
           NEW order \in [DOMAIN incidents -> DOMAIN incidents], Sorts(order, incidents)
    PROVE  Justified(rs, see, keep, events, limit, aggregate_incidents(order, incidents, limit))
<1> DEFINE n == Len(incidents)
           m == IF limit < n THEN limit ELSE n
           sorted == [k \in DOMAIN order |-> incidents[order[k]]]
           answer == aggregate_incidents(order, incidents, limit)
<1>1. /\ events \in [Jobs -> Candidates] /\ limit \in Nat /\ incidents \in Seq(IncidentTypes)
      /\ n \in Nat /\ DOMAIN incidents = 1..n /\ DOMAIN order = 1..n
      /\ \A k \in 1..n : incidents[k] \in IncidentTypes
  BY OfSeq, Zenon DEF Working, Typed
<1>2. answer = SubSeq(sorted, 1, m)
  BY Zenon DEF aggregate_incidents
<1> HIDE DEF answer, n
<1>3. m \in Nat /\ m <= n /\ (m < n => m = limit)
  BY <1>1
<1>4. \A k \in 1..n : order[k] \in 1..n /\ sorted[k] = incidents[order[k]]
  BY <1>1, Zenon
<1> HIDE DEF m, sorted
<1>5. Len(answer) = m /\ DOMAIN answer = 1..m /\ \A k \in 1..m : answer[k] = incidents[order[k]]
  <2>1. \A k \in 1..m : k \in 1..n /\ sorted[k] \in IncidentTypes
    BY <1>1, <1>3, <1>4, Initial, Zenon
  <2>2. \A k \in 1..m : sorted[k] \in IncidentTypes
    BY <2>1, Zenon
  <2>3. /\ Len(SubSeq(sorted, 1, m)) = m /\ DOMAIN SubSeq(sorted, 1, m) = 1..m
        /\ \A k \in 1..m : SubSeq(sorted, 1, m)[k] = sorted[k]
    BY <1>3, <2>2, Prefix
  <2>4. Len(answer) = m /\ DOMAIN answer = 1..m /\ \A k \in 1..m : answer[k] = sorted[k]
    BY <1>2, <2>3, Zenon
  <2> QED  BY <1>4, <2>1, <2>4, Zenon
<1>6. \A x, y \in IncidentTypes : Outranks(x, y) => ~ Outranks(y, x)
  <2> SUFFICES ASSUME NEW x \in IncidentTypes, NEW y \in IncidentTypes, Outranks(x, y) PROVE ~ Outranks(y, x)
    OBVIOUS
  <2>1. x.priority \in Nat /\ y.priority \in Nat /\ x.event_count \in Nat /\ y.event_count \in Nat
    BY Zenon DEF IncidentTypes
  <2> QED  BY <2>1 DEF Outranks
<1>7. ASSUME NEW k \in 1..m PROVE MatchesOn(rs, events, answer[k].rule, answer[k].job, see)
  <2>1. order[k] \in DOMAIN incidents /\ answer[k] = incidents[order[k]]
    BY <1>1, <1>3, <1>4, <1>5, Initial, Zenon
  <2>2. PICK i \in DOMAIN rs, j \in Jobs :
            incidents[order[k]] = IncidentOf(rs, events, i, j) /\ MatchesOn(rs, events, i, j, see)
    BY <2>1, Zenon DEF Working, FoundHolds
  <2>3. answer[k] = IncidentOf(rs, events, i, j)
    BY <2>1, <2>2, ZenonT(30)
  <2>4. answer[k].rule = i /\ answer[k].job = j
    BY <2>3, IncidentFields, SMTT(30)
  <2> QED  BY <2>2, <2>4, Zenon
<1>8. ASSUME NEW i \in DOMAIN rs, NEW j \in Jobs, events[j] # {}, MatchesOn(rs, events, i, j, keep)
      PROVE  \/ \E k \in DOMAIN answer : answer[k] = IncidentOf(rs, events, i, j)
             \/ /\ Len(answer) = limit
                /\ \A k \in DOMAIN answer : ~ Outranks(IncidentOf(rs, events, i, j), answer[k])
  <2>1. PICK p \in DOMAIN incidents : incidents[p] = IncidentOf(rs, events, i, j)
    BY <1>8, Zenon DEF Working, NoneMissed, Finished
  <2>2. PICK k \in DOMAIN order : order[k] = p
    BY <2>1, Zenon DEF Sorts
  <2>3. CASE k <= m
    <3>1. k \in 1..m
      BY <1>1, <1>3, <2>3
    <3> QED  BY <1>5, <2>1, <2>2, <3>1, Zenon
  <2>4. CASE ~ (k <= m)
    <3>1. k \in 1..n
      BY <1>1, Zenon
    <3>2. m < n
      BY <1>1, <1>3, <2>4, <3>1, SMTT(30)
    <3>3. m = limit
      BY <1>3, <3>2, Zenon
    <3>4. ASSUME NEW l \in 1..m PROVE ~ Outranks(incidents[p], answer[l])
      <4>1. l \in DOMAIN order /\ l \in 1..n /\ l < k
        BY <1>1, <1>3, <2>4, <3>1, SMTT(30)
      <4>2. Outranks(incidents[order[l]], incidents[p]) \/ ~ Outranks(incidents[p], incidents[order[l]])
        BY <2>2, <4>1, Zenon DEF Sorts
      <4>3. incidents[order[l]] \in IncidentTypes /\ incidents[p] \in IncidentTypes
        BY <1>1, <1>4, <4>1, Zenon
      <4> QED  BY <1>5, <1>6, <4>2, <4>3, Zenon
    <3> QED  BY <1>5, <2>1, <3>3, <3>4, Zenon
  <2> QED  BY <2>3, <2>4, Zenon
<1> QED  BY <1>5, <1>7, <1>8, Zenon DEF Justified, answer

-----------------------------------------------------------------------------

OnGroup(r, j) == [r EXCEPT !.pc = "edges", !.todo = @ \ {j}, !.job = j, !.rule = 1]
OnEdges(r, es) == [r EXCEPT !.pc = "nodes", !.edges = es]
OnNodes(r, i, incidents) == [r EXCEPT !.pc = "edges", !.rule = i, !.edges = {}, !.incidents = incidents]

LEMMA GroupExcept ==
    ASSUME NEW pc, NEW events, NEW limit, NEW todo, NEW job, NEW rule, NEW es, NEW incidents, NEW j,
           NEW r, r = Req(pc, events, limit, todo, job, rule, es, incidents)
    PROVE  OnGroup(r, j)
             = Req("edges", events, limit, todo \ {j}, j, 1, es, incidents)
<1> DEFINE r1 == [r EXCEPT !.pc = "edges"]
           r2 == [r1 EXCEPT !.todo = @ \ {j}]
           r3 == [r2 EXCEPT !.job = j]
           r4 == [r3 EXCEPT !.rule = 1]
<1>1. OnGroup(r, j) = r4
  BY Zenon DEF OnGroup
<1>2. r1 = Req("edges", events, limit, todo, job, rule, es, incidents)
  BY DEF Req
<1> HIDE DEF r1
<1>3. r2 = Req("edges", events, limit, todo \ {j}, job, rule, es, incidents)
  BY <1>2 DEF Req
<1> HIDE DEF r2
<1>4. r3 = Req("edges", events, limit, todo \ {j}, j, rule, es, incidents)
  BY <1>3 DEF Req
<1> HIDE DEF r3
<1>5. r4 = Req("edges", events, limit, todo \ {j}, j, 1, es, incidents)
  BY <1>4 DEF Req
<1> HIDE DEF r4
<1> QED  BY <1>1, <1>5, Zenon

LEMMA EdgesExcept ==
    ASSUME NEW pc, NEW events, NEW limit, NEW todo, NEW job, NEW rule, NEW es, NEW incidents, NEW read,
           NEW r, r = Req(pc, events, limit, todo, job, rule, es, incidents)
    PROVE  OnEdges(r, read)
             = Req("nodes", events, limit, todo, job, rule, read, incidents)
<1> DEFINE r1 == [r EXCEPT !.pc = "nodes"]
           r2 == [r1 EXCEPT !.edges = read]
<1>1. OnEdges(r, read) = r2
  BY Zenon DEF OnEdges
<1>2. r1 = Req("nodes", events, limit, todo, job, rule, es, incidents)
  BY DEF Req
<1> HIDE DEF r1
<1>3. r2 = Req("nodes", events, limit, todo, job, rule, read, incidents)
  BY <1>2 DEF Req
<1> HIDE DEF r2
<1> QED  BY <1>1, <1>3, Zenon

LEMMA NodesExcept ==
    ASSUME NEW pc, NEW events, NEW limit, NEW todo, NEW job, NEW rule, NEW es, NEW incidents, NEW i, NEW longer,
           NEW r, r = Req(pc, events, limit, todo, job, rule, es, incidents)
    PROVE  OnNodes(r, i, longer)
             = Req("edges", events, limit, todo, job, i, {}, longer)
<1> DEFINE r1 == [r EXCEPT !.pc = "edges"]
           r2 == [r1 EXCEPT !.rule = i]
           r3 == [r2 EXCEPT !.edges = {}]
           r4 == [r3 EXCEPT !.incidents = longer]
<1>1. OnNodes(r, i, longer) = r4
  BY Zenon DEF OnNodes
<1>2. r1 = Req("edges", events, limit, todo, job, rule, es, incidents)
  BY DEF Req
<1> HIDE DEF r1
<1>3. r2 = Req("edges", events, limit, todo, job, i, es, incidents)
  BY <1>2 DEF Req
<1> HIDE DEF r2
<1>4. r3 = Req("edges", events, limit, todo, job, i, {}, incidents)
  BY <1>3 DEF Req
<1> HIDE DEF r3
<1>5. r4 = Req("edges", events, limit, todo, job, i, {}, longer)
  BY <1>4 DEF Req
<1> HIDE DEF r4
<1> QED  BY <1>1, <1>5, Zenon

\* The request is under way, or has been answered.
InRequest ==
    \E pc, events, limit, todo, job, rule, es, incidents :
        /\ request = Req(pc, events, limit, todo, job, rule, es, incidents)
        /\ \/ Working(rules, seen, kept, pc, events, limit, todo, job, rule, es, incidents)
           \/ pc = "done" /\ Justified(rules, seen, kept, events, limit, incidents)

Serving ==
    /\ rules \in Seq(RuleTypes)
    /\ phase # "serving" => request = NoRequest
    /\ request # NoRequest => Within(kept, Graph) /\ Within(Graph, seen) /\ InRequest

Offline == runs \in Nat /\ (phase = "offline" /\ runs = 0 => tool = Idle /\ dir \in Directories)

LEMMA MigrateOffline == ASSUME Offline, Migrate PROVE Offline'
<1>1. UNCHANGED phase
  BY Zenon DEF Migrate, diagVars
<1>2. ASSUME NEW mode, NEW pack, StartMigrate(mode, pack) PROVE Offline'
  BY <1>1, <1>2 DEF Offline, StartMigrate
<1>3. CASE MigrateFile
  BY <1>1, <1>3, Zenon DEF Offline, MigrateFile, Migrate
<1>4. CASE MigrateEnds
  BY <1>1, <1>4, Zenon DEF Offline, MigrateEnds, Migrate
<1> QED  BY <1>2, <1>3, <1>4, Zenon DEF Migrate, FilesNext

LEMMA StartServes ==
    ASSUME Serving, Offline, NEW strict, Start(strict) PROVE Serving' /\ Offline'
<1>1. /\ phase = "offline" /\ runs = 0 /\ phase' # "offline" /\ runs' = 0
      /\ UNCHANGED request /\ request = NoRequest /\ dir \in Directories
  BY Zenon DEF Start, Serving, Offline, requestVars
<1>2. rules' \in Seq(RuleTypes)
  <2>1. CASE load_from_dir(dir, strict) = Err
    BY <2>1 DEF Start
  <2>2. CASE load_from_dir(dir, strict) # Err
    <3>1. rules' = [i \in DOMAIN load_from_dir(dir, strict) |->
                       [load_from_dir(dir, strict)[i] EXCEPT !.id = i]]
      BY <2>2, Zenon DEF Start
    <3>2. [i \in DOMAIN load_from_dir(dir, strict) |->
              [load_from_dir(dir, strict)[i] EXCEPT !.id = i]] \in Seq(RuleTypes)
      BY <1>1, <2>2, LoadTyped, Zenon
    <3> QED  BY <3>1, <3>2, Zenon
  <2> QED  BY <2>1, <2>2, Zenon
<1> QED  BY <1>1, <1>2, Zenon DEF Serving, Offline

LEMMA AskedServes ==
    ASSUME Serving, Offline, NEW text, NEW pattern, run_diagnosis(text, pattern) PROVE Serving' /\ Offline'
<1>1. /\ phase = "offline" /\ phase' \in {"diagnosed", "undiagnosed"}
      /\ UNCHANGED <<rules, request, runs>> /\ request = NoRequest
  BY Zenon DEF run_diagnosis, Serving, fileVars, requestVars
<1> QED  BY <1>1, Zenon DEF Serving, Offline

\* Whatever else happens to the graph.
LEMMA WitnessServes ==
    ASSUME Serving, UNCHANGED <<phase, rules, request>>, request.pc # "done", Witness PROVE Serving'
<1>1. CASE request = NoRequest
  BY <1>1, Zenon DEF Serving
<1>2. CASE request # NoRequest
  <2>1. PICK pc, events, limit, todo, job, rule, es, incidents :
            /\ request = Req(pc, events, limit, todo, job, rule, es, incidents)
            /\ \/ Working(rules, seen, kept, pc, events, limit, todo, job, rule, es, incidents)
               \/ pc = "done" /\ Justified(rules, seen, kept, events, limit, incidents)
    BY <1>2, Zenon DEF Serving, InRequest
  <2>2. request.pc # "none"
    BY <2>1, Zenon DEF Req, Working, Typed
  <2>3. /\ seen' = [edges |-> seen.edges \union Graph'.edges, nodes |-> seen.nodes \union Graph'.nodes]
        /\ kept' = [edges |-> kept.edges \intersect Graph'.edges,
                    nodes |-> kept.nodes \intersect Graph'.nodes]
    BY <2>2, Zenon DEF Witness
  <2>4. Within(seen, seen') /\ Within(kept', kept) /\ Within(kept', Graph') /\ Within(Graph', seen')
    BY <2>3, Zenon DEF Within
  <2>5. rules \in Seq(RuleTypes)
    BY Zenon DEF Serving
  <2>6. pc # "done"
    BY <2>1, Zenon DEF Req
  <2>7. Working(rules, seen', kept', pc, events, limit, todo, job, rule, es, incidents)
    BY <2>1, <2>4, <2>5, <2>6, WorkingMoves, SMTT(30)
  <2>8. Working(rules, seen, kept, pc, events, limit, todo, job, rule, es, incidents)'
    BY <2>7, Zenon
  <2>9. InRequest'
    BY <2>1, <2>8, Zenon DEF InRequest
  <2> QED  BY <2>4, <2>9, Zenon DEF Serving
<1> QED  BY <1>1, <1>2, Zenon

\* A step of the request leaves the graph and the rules alone.
LEMMA RequestStep ==
    ASSUME Serving, UNCHANGED <<signalVars, phase, rules, graphVars>>, UNCHANGED <<seen, kept>>,
           request # NoRequest, phase = "serving",
           NEW pc, NEW events, NEW limit, NEW todo, NEW job, NEW rule, NEW es, NEW incidents,
           request' = Req(pc, events, limit, todo, job, rule, es, incidents),
           \/ Working(rules, seen, kept, pc, events, limit, todo, job, rule, es, incidents)
           \/ pc = "done" /\ Justified(rules, seen, kept, events, limit, incidents)
    PROVE  Serving'
<1>1. UNCHANGED <<signal, edges, nodes, rules, seen, kept, phase>>
  BY Zenon DEF signalVars, graphVars
<1>2. Graph' = Graph
  BY <1>1, Zenon DEF Graph
<1>3. \/ Working(rules, seen, kept, pc, events, limit, todo, job, rule, es, incidents)'
      \/ (pc = "done" /\ Justified(rules, seen, kept, events, limit, incidents))'
  BY <1>1, Zenon
<1>4. InRequest'
  BY <1>3, Zenon DEF InRequest
<1> QED  BY <1>1, <1>2, <1>4, Zenon DEF Serving

LEMMA RequestIs ==
    ASSUME Serving, request.pc \in {"group", "edges", "nodes"}
    PROVE  /\ request # NoRequest /\ phase = "serving" /\ Within(kept, Graph) /\ Within(Graph, seen)
           /\ \E events, limit, todo, job, rule, es, incidents :
                  /\ request = Req(request.pc, events, limit, todo, job, rule, es, incidents)
                  /\ Working(rules, seen, kept, request.pc, events, limit, todo, job, rule, es, incidents)
<1>1. request # NoRequest
  BY DEF NoRequest
<1>2. PICK pc, events, limit, todo, job, rule, es, incidents :
            /\ request = Req(pc, events, limit, todo, job, rule, es, incidents)
            /\ \/ Working(rules, seen, kept, pc, events, limit, todo, job, rule, es, incidents)
               \/ pc = "done" /\ Justified(rules, seen, kept, events, limit, incidents)
  BY <1>1, Zenon DEF Serving, InRequest
<1>3. request.pc = pc
  BY <1>2, Zenon DEF Req
<1>4. pc # "done"
  BY <1>3, Zenon
<1>5. /\ request = Req(request.pc, events, limit, todo, job, rule, es, incidents)
      /\ Working(rules, seen, kept, request.pc, events, limit, todo, job, rule, es, incidents)
  BY <1>2, <1>3, <1>4, Zenon
<1> QED  BY <1>1, <1>5, Zenon DEF Serving

LEMMA BeginServes ==
    ASSUME Serving, NEW events \in [Jobs -> Candidates], NEW limit \in Limits, BeginRequest(events, limit)
    PROVE  Serving'
<1> DEFINE todo == {j \in Jobs : events[j] # {}}
<1>1. /\ request' = Req("group", events, limit, todo, Absent, 0, {}, <<>>)
      /\ seen' = Graph /\ kept' = Graph /\ phase = "serving"
      /\ UNCHANGED <<signal, edges, nodes, rules, phase>>
  BY Zenon DEF BeginRequest, Req, signalVars, graphVars
<1>2. Graph' = Graph
  BY <1>1, Zenon DEF Graph
<1>3. Working(rules', seen', kept', "group", events, limit, todo, Absent, 0, {}, <<>>)
  BY BeginWorks, Zenon
<1> HIDE DEF todo
<1>4. InRequest'
  BY <1>1, <1>3, Zenon DEF InRequest
<1>5. Within(kept', Graph') /\ Within(Graph', seen')
  BY <1>1, <1>2, Zenon DEF Within
<1> QED  BY <1>1, <1>4, <1>5, Zenon DEF Serving

LEMMA GroupServes ==
    ASSUME Serving, NEW j, NextGroup(j) PROVE Serving'
<1>1. /\ request.pc = "group" /\ j \in request.todo /\ request' = OnGroup(request, j)
      /\ UNCHANGED <<signalVars, phase, rules, graphVars>> /\ UNCHANGED <<seen, kept>>
  BY Zenon DEF NextGroup, OnGroup
<1>2. PICK events, limit, todo, job, rule, es, incidents :
          /\ request = Req("group", events, limit, todo, job, rule, es, incidents)
          /\ Working(rules, seen, kept, "group", events, limit, todo, job, rule, es, incidents)
  BY <1>1, RequestIs, Zenon
<1>3. j \in todo
  BY <1>1, <1>2, Zenon DEF Req
<1>4. request' = Req("edges", events, limit, todo \ {j}, j, 1, es, incidents)
  <2>1. OnGroup(request, j) = Req("edges", events, limit, todo \ {j}, j, 1, es, incidents)
    BY <1>2, GroupExcept, SMTT(30)
  <2> QED  BY <1>1, <2>1, Zenon
<1>5. Working(rules, seen, kept, "edges", events, limit, todo \ {j}, j, 1, es, incidents)
  BY <1>2, <1>3, GroupWorks, Zenon DEF Serving
<1>6. request # NoRequest /\ phase = "serving"
  BY <1>1, RequestIs, Zenon
<1> QED  BY <1>1, <1>4, <1>5, <1>6, RequestStep, Zenon

LEMMA EdgesServe == ASSUME Serving, ReadEdges PROVE Serving'
<1>1. /\ request.pc = "edges"
      /\ UNCHANGED <<signalVars, phase, rules, graphVars>> /\ UNCHANGED <<seen, kept>>
  BY Zenon DEF ReadEdges
<1>2. PICK events, limit, todo, job, rule, es, incidents :
          /\ request = Req("edges", events, limit, todo, job, rule, es, incidents)
          /\ Working(rules, seen, kept, "edges", events, limit, todo, job, rule, es, incidents)
  BY <1>1, RequestIs, Zenon
<1>3. request.rule = rule
  BY <1>2, Zenon DEF Req
<1>4. request # NoRequest /\ phase = "serving" /\ kept.edges \subseteq edges /\ edges \subseteq seen.edges
  BY <1>1, RequestIs, Zenon DEF Within, Graph
<1>5. CASE rule > Len(rules)
  <2>1. request' = [request EXCEPT !.pc = "group"]
    BY <1>3, <1>5, Zenon DEF ReadEdges
  <2>2. request' = Req("group", events, limit, todo, job, rule, es, incidents)
    BY <1>2, <2>1, Zenon DEF Req
  <2>3. Working(rules, seen, kept, "group", events, limit, todo, job, rule, es, incidents)
    BY <1>2, <1>5, EdgesWork, Zenon DEF Serving
  <2> QED  BY <1>1, <1>4, <2>2, <2>3, RequestStep, Zenon
<1>6. CASE ~ (rule > Len(rules))
  <2>1. request' = OnEdges(request, edges)
    BY <1>3, <1>6, Zenon DEF ReadEdges, OnEdges
  <2>2. request' = Req("nodes", events, limit, todo, job, rule, edges, incidents)
    BY <1>2, <2>1, EdgesExcept
  <2>3. Working(rules, seen, kept, "nodes", events, limit, todo, job, rule, edges, incidents)
    BY <1>2, <1>4, <1>6, EdgesWork, Zenon DEF Serving
  <2> QED  BY <1>1, <1>4, <2>2, <2>3, RequestStep, Zenon
<1> QED  BY <1>5, <1>6, Zenon

LEMMA NodesServe == ASSUME Serving, ReadNodes PROVE Serving'
<1>1. /\ request.pc = "nodes"
      /\ UNCHANGED <<signalVars, phase, rules, graphVars>> /\ UNCHANGED <<seen, kept>>
  BY Zenon DEF ReadNodes
<1>2. PICK events, limit, todo, job, rule, es, incidents :
          /\ request = Req("nodes", events, limit, todo, job, rule, es, incidents)
          /\ Working(rules, seen, kept, "nodes", events, limit, todo, job, rule, es, incidents)
  BY <1>1, RequestIs, Zenon
<1>3. /\ request.rule = rule /\ request.job = job /\ request.edges = es /\ request.events = events
      /\ request.incidents = incidents
  BY <1>2, Zenon DEF Req
<1>4. request # NoRequest /\ phase = "serving"
      /\ kept.nodes \subseteq Graph.nodes /\ Graph.nodes \subseteq seen.nodes
  BY <1>1, RequestIs, ZenonT(30) DEF Within
<1> DEFINE hit == match_all_conditions(rules[rule].conditions, events[job], es, Graph.nodes)
           longer == IF hit THEN Append(incidents, IncidentOf(rules, events, rule, job)) ELSE incidents
<1>5. Incident(rule, job) = IncidentOf(rules, events, rule, job)
  BY <1>3, Zenon DEF Incident, IncidentOf
<1>6. request' = OnNodes(request, rule + 1, longer)
  BY <1>3, <1>5, Zenon DEF ReadNodes, OnNodes
<1>7. Working(rules, seen, kept, "edges", events, limit, todo, job, rule + 1, {}, longer)
  BY <1>2, <1>4, NodesWork, Zenon DEF Serving
<1> HIDE DEF longer
<1>8. request' = Req("edges", events, limit, todo, job, rule + 1, {}, longer)
  BY <1>2, <1>6, NodesExcept, SMTT(30)
<1> QED  BY <1>1, <1>4, <1>7, <1>8, RequestStep, Zenon

LEMMA EndServes == ASSUME Serving, EndRequest PROVE Serving'
<1>1. /\ request.pc = "group" /\ request.todo = {}
      /\ UNCHANGED <<signalVars, phase, rules, graphVars>> /\ UNCHANGED <<seen, kept>>
  BY Zenon DEF EndRequest
<1>2. PICK events, limit, todo, job, rule, es, incidents :
          /\ request = Req("group", events, limit, todo, job, rule, es, incidents)
          /\ Working(rules, seen, kept, "group", events, limit, todo, job, rule, es, incidents)
  BY <1>1, RequestIs, Zenon
<1>3. request.incidents = incidents /\ request.events = events /\ request.limit = limit /\ todo = {}
  BY <1>1, <1>2, Zenon DEF Req
<1>4. PICK order \in [DOMAIN incidents -> DOMAIN incidents] :
          /\ Sorts(order, incidents)
          /\ request' = Req("done", events, limit, {}, Absent, 0, {},
                            aggregate_incidents(order, incidents, limit))
  BY <1>3, Zenon DEF EndRequest, Req
<1>5. Justified(rules, seen, kept, events, limit, aggregate_incidents(order, incidents, limit))
  BY <1>2, <1>3, <1>4, EndJustified, Zenon DEF Serving
<1>6. request # NoRequest /\ phase = "serving"
  BY <1>1, RequestIs, Zenon
<1> QED  BY <1>1, <1>4, <1>5, <1>6, RequestStep, Zenon

LEMMA InitServing == Init => Serving /\ Offline
BY DEF Init, FilesInit, Serving, Offline

LEMMA NextServing ==
    ASSUME Serving, Offline, [Next]_allVars PROVE Serving' /\ Offline'
<1>1. CASE UNCHANGED allVars
  <2>1. UNCHANGED <<rules, phase, request, seen, kept, edges, nodes, signal, runs, tool, dir>>
    BY <1>1, Zenon DEF allVars, fileVars, signalVars, diagVars, graphVars, requestVars
  <2>2. Graph' = Graph
    BY <2>1, Zenon DEF Graph
  <2>3. InRequest => InRequest'
    BY <2>1 DEF InRequest
  <2> QED  BY <2>1, <2>2, <2>3, Zenon DEF Serving, Offline
<1>2. CASE Migrate
  <2>1. UNCHANGED <<rules, phase, request, seen, kept, edges, nodes, signal>>
    BY <1>2, Zenon DEF Migrate, signalVars, diagVars, graphVars, requestVars
  <2>2. Graph' = Graph
    BY <2>1, Zenon DEF Graph
  <2>3. InRequest => InRequest'
    BY <2>1 DEF InRequest
  <2> QED  BY <1>2, <2>1, <2>2, <2>3, MigrateOffline, Zenon DEF Serving
<1>3. ASSUME NEW strict \in BOOLEAN, Start(strict) PROVE Serving' /\ Offline'
  BY <1>3, StartServes, Zenon
<1>4. ASSUME NEW text \in Texts, NEW pattern \in PatternTexts, run_diagnosis(text, pattern)
      PROVE  Serving' /\ Offline'
  BY <1>4, AskedServes, Zenon
<1>5. CASE request.pc # "done" /\ (GraphChanges \/ SignalChanges)
  <2>1. UNCHANGED <<phase, rules, request>> /\ UNCHANGED <<runs, tool, dir>> /\ Witness /\ phase = "serving"
    BY <1>5, Zenon DEF GraphChanges, SignalChanges, fileVars
  <2> QED  BY <1>5, <2>1, WitnessServes, Zenon DEF Offline
<1>6. CASE Request
  <2>1. Serving'
    BY <1>6, BeginServes, GroupServes, EdgesServe, NodesServe, EndServes, SMTT(30) DEF Request
  <2>2. UNCHANGED <<phase, runs, tool, dir>>
    BY <1>6, Zenon DEF Request, BeginRequest, NextGroup, ReadEdges, ReadNodes, EndRequest, fileVars
  <2> QED  BY <2>1, <2>2, Zenon DEF Offline
<1> QED  BY <1>1, <1>2, <1>3, <1>4, <1>5, <1>6, Zenon DEF Next

LEMMA ServingJustifies == ASSUME Serving PROVE IncidentsJustified
<1> SUFFICES ASSUME request.pc = "done" PROVE IncidentsJustified
  BY Zenon DEF IncidentsJustified
<1>1. request # NoRequest
  BY DEF NoRequest
<1>2. PICK pc, events, limit, todo, job, rule, es, incidents :
          /\ request = Req(pc, events, limit, todo, job, rule, es, incidents)
          /\ \/ Working(rules, seen, kept, pc, events, limit, todo, job, rule, es, incidents)
             \/ pc = "done" /\ Justified(rules, seen, kept, events, limit, incidents)
  BY <1>1, Zenon DEF Serving, InRequest
<1>3. /\ request.pc = pc /\ request.events = events /\ request.limit = limit
      /\ request.incidents = incidents
  BY <1>2, Zenon DEF Req
<1>4. Justified(rules, seen, kept, events, limit, incidents)
  BY <1>2, <1>3, Zenon DEF Working, Typed
<1>5. \A i, j : Incident(i, j) = IncidentOf(rules, events, i, j)
  BY <1>3, Zenon DEF Incident, IncidentOf
<1> QED  BY <1>3, <1>4, <1>5, Zenon DEF IncidentsJustified, Justified, MatchesOn, Range

\* Every incident of an answer is backed by what was there during the request,
\* and a rule that is met all the time is in the answer or was cut off below
\* it (Diagnosis!IncidentsJustified).
THEOREM IncidentsAreJustified == Spec => []IncidentsJustified
<1>1. Init => Serving /\ Offline
  BY InitServing, Zenon
<1>2. Serving /\ Offline /\ [Next]_allVars => Serving' /\ Offline'
  BY NextServing, Zenon
<1>3. Serving => IncidentsJustified
  BY ServingJustifies, Zenon
<1> QED  BY <1>1, <1>2, <1>3, PTL DEF Spec

-----------------------------------------------------------------------------
(* What rules-migrate leaves of the rules. *)

\* Lists of rules that correspond, in the same order, are the same.
LEMMA RulesAlike ==
    ASSUME NEW d, NEW e, NEW ps \in SUBSET Paths, NEW qs \in SUBSET Paths,
           NEW m \in Bijection(ps, qs),
           \A p \in ps : MakesRule(d, p) /\ SameRule(d, p, e, m[p]),
           \A q \in qs : MakesRule(e, q),
           \A p, q \in ps : p # q => (Name(p) < Name(q) <=> Name(m[p]) < Name(m[q]))
    PROVE  SameRules(RulesOf(d, ps), RulesOf(e, qs))
<1>1. (\A p \in ps : d.files[p].priority \in Nat) /\ (\A q \in qs : e.files[q].priority \in Nat)
  BY RuleParts, Zenon
<1>2. m \in [ps -> qs]
  BY Zenon DEF Bijection, Injection
<1>3. ASSUME NEW p \in ps, NEW q \in ps PROVE ByPriority(d, p, q) <=> ByPriority(e, m[p], m[q])
  <2>1. d.files[p].priority = e.files[m[p]].priority /\ d.files[q].priority = e.files[m[q]].priority
    BY Zenon DEF SameRule
  <2>2. CASE p # q
    BY <2>1, <2>2, Zenon DEF ByPriority
  <2>3. CASE p = q
    <3>1. p \in Paths /\ m[p] \in Paths
      BY <1>2, Zenon
    <3>2. \A x \in Paths : Name(x) \in Int
      BY RuleFilesConstants DEF Name, Paths, Originals
    <3>3. ~ (Name(p) < Name(p)) /\ ~ (Name(m[p]) < Name(m[p]))
      BY <3>1, <3>2
    <3> QED  BY <2>1, <2>3, <3>3, Zenon DEF ByPriority
  <2> QED  BY <2>2, <2>3, Zenon
<1>4. /\ Cardinality(ps) = Cardinality(qs)
      /\ \A i \in 1..Cardinality(ps) : PathAt(e, qs, i) = m[PathAt(d, ps, i)]
  <2>1. OrderKept(d, e, ps, qs, m)
    BY <1>1, <1>3, Zenon DEF OrderKept
  <2>2. PlacesMatch(d, e, ps, qs, m)
    BY <2>1, PlacesKept, Zenon
  <2> QED  BY <2>2, Zenon DEF PlacesMatch
<1>5. /\ RulesOf(d, ps) # Err /\ Len(RulesOf(d, ps)) = Cardinality(ps)
      /\ \A i \in 1..Cardinality(ps) :
             PathAt(d, ps, i) \in ps /\ RulesOf(d, ps)[i] = RuleAt(d, PathAt(d, ps, i))
  BY RulesList, Zenon
<1>6. /\ RulesOf(e, qs) # Err /\ Len(RulesOf(e, qs)) = Cardinality(qs)
      /\ \A i \in 1..Cardinality(qs) : RulesOf(e, qs)[i] = RuleAt(e, PathAt(e, qs, i))
  BY RulesList, Zenon
<1>7. ASSUME NEW p \in ps
      PROVE  /\ RuleAt(d, p).id = RuleAt(e, m[p]).id /\ RuleAt(d, p).priority = RuleAt(e, m[p]).priority
             /\ Alike(RuleAt(d, p).conditions, RuleAt(e, m[p]).conditions)
  <2>1. SameRule(d, p, e, m[p]) /\ normalize(d.files[p].conditions) # Err
    BY Zenon DEF MakesRule, Makes
  <2>2. \A x, y : /\ RuleAt(x, y).id = final_id(y, x.files[y])
                  /\ RuleAt(x, y).priority = x.files[y].priority
                  /\ RuleAt(x, y).conditions = normalize(x.files[y].conditions)
    BY DEF RuleAt
  <2>3. Alike(normalize(d.files[p].conditions), normalize(e.files[m[p]].conditions))
    <3> DEFINE w == d.files[p].conditions
               v == e.files[m[p]].conditions
    <3>1. normalize(w) # Err /\ Means(w, v)
      BY <2>1, Zenon DEF SameRule
    <3> HIDE DEF w, v
    <3>2. Alike(normalize(w), normalize(v))
      <4> SUFFICES ASSUME NEW events \in Candidates, NEW es \in SUBSET Edges, NEW ns \in SUBSET Nodes
                   PROVE  match_all_conditions(normalize(w), events, es, ns)
                              = match_all_conditions(normalize(v), events, es, ns)
        BY Zenon DEF Alike
      <4> QED  BY <3>1, Zenon DEF Means
    <3> QED  BY <3>2, Zenon DEF w, v
  <2>4. /\ final_id(p, d.files[p]) = final_id(m[p], e.files[m[p]])
        /\ d.files[p].priority = e.files[m[p]].priority
    BY <2>1, Zenon DEF SameRule
  <2>5. RuleAt(d, p).id = RuleAt(e, m[p]).id /\ RuleAt(d, p).priority = RuleAt(e, m[p]).priority
    BY <2>2, <2>4
  <2>6. Alike(RuleAt(d, p).conditions, RuleAt(e, m[p]).conditions)
    BY <2>2, <2>3, Zenon
  <2> QED  BY <2>5, <2>6, Zenon
<1> DEFINE x == RulesOf(d, ps)
           y == RulesOf(e, qs)
<1>8. x # Err /\ y # Err /\ Len(x) = Len(y) /\ Len(x) = Cardinality(ps)
  BY <1>4, <1>5, <1>6, Zenon
<1>9. ASSUME NEW i \in 1..Cardinality(ps)
      PROVE  /\ x[i].id = y[i].id /\ x[i].priority = y[i].priority
             /\ Alike(x[i].conditions, y[i].conditions)
  <2> DEFINE p == PathAt(d, ps, i)
  <2>1. p \in ps /\ x[i] = RuleAt(d, p)
    BY <1>5, Zenon
  <2>2. y[i] = RuleAt(e, m[p])
    BY <1>4, <1>6, Zenon
  <2> HIDE DEF p, x, y
  <2> QED  BY <1>7, <2>1, <2>2, Zenon
<1> HIDE DEF x, y
<1>10. SameRules(x, y)
  BY <1>8, <1>9, Zenon DEF SameRules
<1> QED  BY <1>10, Zenon DEF x, y

Without(d, ps) ==
    [manifest |-> d.manifest, files |-> [p \in Paths |-> IF p \in ps THEN Absent ELSE d.files[p]]]

LEMMA WithoutFields ==
    ASSUME NEW d, NEW ps
    PROVE  /\ Without(d, ps).manifest = d.manifest
           /\ \A p \in Paths \ ps : Without(d, ps).files[p] = d.files[p]
           /\ \A p \in Paths : p \in ps => Without(d, ps).files[p] = Absent
<1> DEFINE fs == [p \in Paths |-> IF p \in ps THEN Absent ELSE d.files[p]]
<1>1. \A p \in Paths : fs[p] = IF p \in ps THEN Absent ELSE d.files[p]
  BY Zenon
<1>2. Without(d, ps) = [manifest |-> d.manifest, files |-> fs]
  BY Zenon DEF Without
<1> HIDE DEF fs
<1>3. Without(d, ps).manifest = d.manifest /\ Without(d, ps).files = fs
  BY <1>2
<1> QED  BY <1>1, <1>3, Zenon

LEMMA WithoutIs ==
    ASSUME NEW d, NEW ps
    PROVE  /\ LoadWithout(d, ps) = load_from_dir(Without(d, ps), FALSE)
           /\ Without(d, ps).manifest = d.manifest
           /\ \A p \in Paths \ ps : Without(d, ps).files[p] = d.files[p]
           /\ \A p : p \in Loadable(Without(d, ps)) <=> p \in Loadable(d) /\ p \notin ps
<1>1. LoadWithout(d, ps) = load_from_dir(Without(d, ps), FALSE)
  BY Zenon DEF LoadWithout, Without
<1>2. /\ Without(d, ps).manifest = d.manifest
      /\ \A p \in Paths \ ps : Without(d, ps).files[p] = d.files[p]
      /\ \A p \in Paths : p \in ps => Without(d, ps).files[p] = Absent
  BY WithoutFields
<1>3. ASSUME NEW p PROVE p \in Loadable(Without(d, ps)) <=> p \in Loadable(d) /\ p \notin ps
  <2> DEFINE e == Without(d, ps)
  <2>1. p \in Loadable(e) <=> p \in Paths /\ Collected(e.manifest, p) /\ Makes(e.files[p])
    BY LoadableIs, Zenon
  <2>2. p \in Loadable(d) <=> p \in Paths /\ Collected(d.manifest, p) /\ Makes(d.files[p])
    BY LoadableIs, Zenon
  <2>3. ~ Makes(Absent)
    BY Zenon DEF Makes
  <2> QED  BY <1>2, <2>1, <2>2, <2>3, Zenon
<1> QED  BY <1>1, <1>2, <1>3, Zenon

\* A file that cannot be read is one in the whole directory too.
LEMMA WithoutUnread ==
    ASSUME NEW d, NEW ps, Unread(Without(d, ps))
    PROVE  \E p \in Paths \ ps : Collected(d.manifest, p) /\ d.files[p] = Unreadable
<1>1. /\ Without(d, ps).manifest = d.manifest
      /\ \A p \in Paths \ ps : Without(d, ps).files[p] = d.files[p]
      /\ \A p \in Paths : p \in ps => Without(d, ps).files[p] = Absent
  BY WithoutFields
<1>2. PICK p \in Paths : Collected(Without(d, ps).manifest, p) /\ Without(d, ps).files[p] = Unreadable
  BY UnreadIs
<1>3. p \notin ps
  BY <1>1, <1>2, UnreadableIs, Zenon
<1> QED  BY <1>1, <1>2, <1>3, Zenon

\* Directories whose rules correspond one to one load the same, when one of
\* them loads at all.
LEMMA LoadsAlike ==
    ASSUME NEW d, NEW e, NEW m \in Bijection(Loadable(d), Loadable(e)),
           \A p \in Loadable(d) : MakesRule(d, p) /\ SameRule(d, p, e, m[p]),
           \A q \in Loadable(e) : MakesRule(e, q),
           \A p, q \in Loadable(d) : p # q => (Name(p) < Name(q) <=> Name(m[p]) < Name(m[q])),
           d.manifest # "bad", e.manifest # "bad", ~ Clash(e), ~ Unread(d), ~ Unread(e)
    PROVE  SameRules(load_from_dir(d, FALSE), load_from_dir(e, FALSE))
<1>1. /\ m \in [Loadable(d) -> Loadable(e)]
      /\ \A p, q \in Loadable(d) : m[p] = m[q] => p = q
  BY Zenon DEF Bijection, Injection, IsInjective
<1>2. ~ Clash(d)
  <2> SUFFICES ASSUME NEW p \in Loadable(d), NEW q \in Loadable(d), p # q,
                      final_id(p, d.files[p]) = final_id(q, d.files[q])
               PROVE  Clash(e)
    BY Zenon DEF Clash
  <2>1. m[p] \in Loadable(e) /\ m[q] \in Loadable(e) /\ m[p] # m[q]
    BY <1>1, Zenon
  <2>2. /\ final_id(p, d.files[p]) = final_id(m[p], e.files[m[p]])
        /\ final_id(q, d.files[q]) = final_id(m[q], e.files[m[q]])
    BY Zenon DEF SameRule
  <2> QED  BY <2>1, <2>2, Zenon DEF Clash
<1>3. load_from_dir(d, FALSE) = RulesOf(d, Loadable(d)) /\ load_from_dir(e, FALSE) = RulesOf(e, Loadable(e))
  BY <1>2, LoadIs, Zenon
<1>4. Loadable(d) \in SUBSET Paths /\ Loadable(e) \in SUBSET Paths
  BY LoadableIs, Zenon
<1>5. SameRules(RulesOf(d, Loadable(d)), RulesOf(e, Loadable(e)))
  BY <1>4, RulesAlike, Zenon
<1> QED  BY <1>3, <1>5, Zenon

LEMMA FilesStart == Init => FilesInv
<1> SUFFICES ASSUME Init PROVE FilesInv
  OBVIOUS
<1>1. Pristine(dir)
  BY RuleFilesConstants, Zenon DEF Init, FilesInit
<1> QED  BY <1>1, PristineKept, Zenon DEF Init, FilesInit

LEMMA FilesStep == FilesInv /\ [Next]_allVars => FilesInv'
<1> SUFFICES ASSUME FilesInv, [Next]_allVars PROVE FilesInv'
  OBVIOUS
<1>1. ASSUME UNCHANGED fileVars PROVE FilesInv'
  <2>1. UNCHANGED <<dir, out, original, torn>> /\ tool' = tool /\ dir' = dir
    BY <1>1, Zenon DEF fileVars
  <2>2. ToolTyped'
    BY <2>1, Zenon DEF FilesInv, ToolTyped
  <2> QED  BY <2>1, <2>2, FilesUnchanged, Zenon
<1>2. ASSUME FilesNext PROVE FilesInv'
  <2>1. ASSUME MigrateEnds PROVE FilesInv'
    <3>1. tool' = Idle /\ UNCHANGED <<dir, out, original, torn>>
      BY <2>1, Zenon DEF MigrateEnds
    <3>2. ToolTyped'
      BY <3>1, Zenon DEF ToolTyped
    <3> QED  BY <3>1, <3>2, FilesUnchanged, Zenon
  <2> QED  BY <1>2, <2>1, StartMigrateKept, MigrateFileKept, Zenon DEF FilesNext
<1>3. ASSUME NEW strict, Start(strict) PROVE FilesInv'
  <2>1. /\ dir' = NoFiles /\ out' = NoFiles /\ original' = NoFiles /\ torn' = {} /\ tool' = Idle
    BY <1>3, Zenon DEF Start
  <2>2. Pristine(NoFiles)
    <3> DEFINE fs == [Paths -> Files \union {Absent}]
    <3>1. Empty \in fs /\ \A p \in Paths : Empty[p] = Absent
      BY Zenon DEF Empty
    <3> HIDE DEF fs
    <3>2. NoFiles \in [manifest : {"none", "ok", "no legacy", "bad"}, files : fs]
          /\ NoFiles.files = Empty
      BY <3>1 DEF NoFiles
    <3>3. \A p \in Originals : p \in Paths
      BY RuleFilesConstants DEF Originals, Paths
    <3> QED  BY <3>1, <3>2, <3>3, Zenon DEF Pristine, Listings, fs
  <2>3. (Pristine(dir) /\ original = dir /\ torn = {} /\ tool = Idle
         /\ out = [manifest |-> "none", files |-> Empty] => FilesInv)'
    BY PristineKept, PTL
  <2>4. Pristine(dir)' /\ out' = [manifest |-> "none", files |-> Empty]
    BY <2>1, <2>2, Zenon DEF Pristine, NoFiles
  <2> QED  BY <2>1, <2>3, <2>4, Zenon
<1>4. ASSUME Next PROVE UNCHANGED fileVars \/ FilesNext \/ \E strict : Start(strict)
  BY <1>4, Zenon DEF Next, Migrate, run_diagnosis, GraphChanges, SignalChanges, Request,
     BeginRequest, NextGroup, ReadEdges, ReadNodes, EndRequest
<1>5. UNCHANGED allVars => UNCHANGED fileVars
  BY Zenon DEF allVars
<1> QED  BY <1>1, <1>2, <1>3, <1>4, <1>5, Zenon

\* In every reachable state each whole file of the rules directory and of the
\* output directory is what a migration may make of the file it comes from:
\* same scene and priority, its own id or the one ensure_rule_id gives it, and
\* conditions that match the same.
THEOREM FilesInvariant == Spec => []FilesInv
BY FilesStart, FilesStep, PTL DEF Spec

\* The rules there were to begin with.
LEMMA OriginalRules ==
    ASSUME FilesInv, load_from_dir(original, FALSE) # Err
    PROVE  /\ original.manifest # "bad" /\ ~ Clash(original) /\ ~ Unread(original)
           /\ \A p \in Loadable(original) : p \in Originals /\ MakesRule(original, p)
<1>1. original.manifest # "bad" /\ ~ Clash(original) /\ ~ Unread(original)
  BY LoadIs, Zenon
<1>2. ASSUME NEW p \in Loadable(original) PROVE p \in Originals /\ MakesRule(original, p)
  <2>1. p \in Paths /\ Makes(original.files[p])
    BY LoadableIs, Zenon
  <2> QED  BY <2>1, PristineMakes, Zenon DEF FilesInv
<1> QED  BY <1>1, <1>2, Zenon

\* A file and the one it came from make the same rule.
LEMMA MakesSame ==
    ASSUME FilesInv, PacksKnown, NEW p \in Paths, NEW d \in Listings,
           Migrated(Base(p), original.files[Base(p)], d.files[p])
    PROVE  /\ Makes(d.files[p]) <=> Makes(original.files[Base(p)])
           /\ Makes(d.files[p]) => /\ MakesRule(d, p) /\ SameRule(d, p, original, Base(p))
<1> DEFINE b == Base(p)
           f == original.files[b]
           g == d.files[p]
<1>1. b \in Originals /\ b \in Paths
  BY Bases, Zenon
<1>2. f \in Files \union {Absent} /\ g \in Files \union {Absent}
  BY <1>1, FileOf, Zenon DEF FilesInv, Pristine
<1>3. f # Absent /\ f.parses => Sensible(f.conditions)
  BY <1>1, Zenon DEF FilesInv, Pristine
<1>4. f # Absent /\ f.parses => f.id # Absent \/ Place[b] \in KnownPacks \union {"root", "legacy"}
  BY <1>1, Zenon DEF PacksKnown, Readable
<1>5. /\ Makes(g) <=> Makes(f)
      /\ Makes(f) => /\ final_id(p, g) = final_id(b, f) /\ g.priority = f.priority
                     /\ Means(g.conditions, f.conditions)
                     /\ Sensible(f.conditions) /\ Sensible(g.conditions)
                     /\ f \in Files /\ g \in Files
  BY <1>2, <1>3, <1>4, MigratedMakes, Zenon
<1>6. Makes(g) => MakesRule(d, p)
  BY <1>5, Zenon DEF MakesRule
<1>7. Makes(g) => SameRule(d, p, original, b)
  BY <1>5, Zenon DEF SameRule
<1> QED  BY <1>5, <1>6, <1>7, Zenon

LEMMA SameRuleMoves ==
    ASSUME NEW d, NEW e, NEW x, NEW y, NEW p, NEW q, x.files[p] = d.files[p], y.files[q] = e.files[q]
    PROVE  /\ SameRule(d, p, e, q) => SameRule(x, p, y, q)
           /\ MakesRule(d, p) => MakesRule(x, p)
BY Zenon DEF SameRule, MakesRule

\* The rules directory, during and after migrations.
LEMMA DirMeansTheSame ==
    ASSUME FilesInv, load_from_dir(original, FALSE) # Err, PacksKnown
    PROVE  LET now == LoadWithout(dir, TornIn("dir")) IN
           \/ now = Err /\ \E p \in Paths \ Originals : dir.files[p] # Absent
           \/ \E lost \in SUBSET TornIn("dir") : SameRules(now, LoadWithout(original, lost))
<1> DEFINE T == TornIn("dir")
           X == Without(dir, T)
           ps == Loadable(X)
           bases == {Base(p) : p \in ps}
           lost == Loadable(original) \ bases
           Y == Without(original, lost)
<1>1. /\ original.manifest # "bad" /\ ~ Clash(original) /\ ~ Unread(original)
      /\ \A p \in Loadable(original) : p \in Originals /\ MakesRule(original, p)
  BY OriginalRules, Zenon
<1>2. /\ LoadWithout(dir, T) = load_from_dir(X, FALSE) /\ X.manifest = dir.manifest
      /\ \A p \in Paths \ T : X.files[p] = dir.files[p]
      /\ \A p : p \in ps <=> p \in Loadable(dir) /\ p \notin T
  BY WithoutIs, Zenon
<1>12. Unread(X) => \E p \in Paths \ T : Collected(dir.manifest, p) /\ dir.files[p] = Unreadable
  <2> HIDE DEF T
  <2> QED  BY WithoutUnread, Zenon
<1>3. /\ LoadWithout(original, lost) = load_from_dir(Y, FALSE) /\ Y.manifest = original.manifest
      /\ \A p \in Paths \ lost : Y.files[p] = original.files[p]
      /\ \A p : p \in Loadable(Y) <=> p \in Loadable(original) /\ p \notin lost
  <2> HIDE DEF lost
  <2> QED  BY WithoutIs, Zenon
<1>13. Unread(Y) => \E p \in Paths \ lost : Collected(original.manifest, p) /\ original.files[p] = Unreadable
  <2> HIDE DEF lost
  <2> QED  BY WithoutUnread, Zenon
<1>4. dir.manifest = original.manifest /\ dir \in Listings
  BY Zenon DEF FilesInv
<1>5. \A p \in Paths : p \notin T <=> <<"dir", p>> \notin torn
  BY Zenon DEF TornIn
<1> HIDE DEF T, X, Y, ps
<1>11. ~ Unread(X) /\ ~ Unread(Y)
  <2>1. ASSUME NEW p \in Paths, p \notin T, Collected(dir.manifest, p), dir.files[p] = Unreadable
        PROVE  FALSE
    <3>1. Migrated(Base(p), original.files[Base(p)], Unreadable)
      BY <1>5, <2>1, UnreadableIs, Zenon DEF FilesInv, DirKept
    <3>2. original.files[Base(p)] = Unreadable
      BY <3>1, UnreadableKept, Zenon
    <3>3. Base(p) \in Paths /\ Place[Base(p)] = Place[p]
      BY <2>1, Bases, Zenon
    <3>4. Collected(original.manifest, Base(p))
      BY <1>4, <2>1, <3>3, Zenon DEF Collected
    <3> QED  BY <1>1, <3>2, <3>3, <3>4, UnreadIs, Zenon
  <2>2. ~ Unread(Y)
    BY <1>1, <1>13, UnreadIs, Zenon
  <2> QED  BY <1>12, <2>1, <2>2, Zenon
<1>6. ASSUME NEW p \in ps
      PROVE  /\ p \in Paths /\ Base(p) \in Loadable(original) /\ dir.files[p] # Absent
             /\ X.files[p] = dir.files[p]
             /\ MakesRule(dir, p) /\ SameRule(dir, p, original, Base(p))
  <2>1. p \in Paths /\ p \notin T /\ Collected(dir.manifest, p) /\ Makes(dir.files[p])
    BY <1>2, LoadableIs, Zenon
  <2>2. dir.files[p] # Absent
    BY <2>1, Zenon DEF Makes
  <2>3. Migrated(Base(p), original.files[Base(p)], dir.files[p])
    BY <1>5, <2>1, <2>2, Zenon DEF FilesInv, DirKept
  <2>4. /\ Makes(original.files[Base(p)])
        /\ MakesRule(dir, p) /\ SameRule(dir, p, original, Base(p))
    BY <1>4, <2>1, <2>3, MakesSame, Zenon
  <2>5. Base(p) \in Paths /\ Place[Base(p)] = Place[p]
    BY <2>1, Bases, Zenon
  <2>6. Collected(original.manifest, Base(p))
    BY <1>4, <2>1, <2>5, Zenon DEF Collected
  <2>7. Base(p) \in Loadable(original)
    BY <2>4, <2>5, <2>6, LoadableIs, Zenon
  <2> QED  BY <1>2, <2>1, <2>2, <2>4, <2>7, Zenon
<1>7. lost \in SUBSET T
  <2> SUFFICES ASSUME NEW p \in Loadable(original), p \notin T PROVE p \in bases
    BY Zenon
  <2>1. p \in Originals /\ p \in Paths /\ Collected(original.manifest, p) /\ Makes(original.files[p])
    BY <1>1, LoadableIs, Zenon
  <2>2. Base(p) = p
    BY <2>1, Zenon DEF Base
  <2>3. Migrated(Base(p), original.files[Base(p)], dir.files[p])
    BY <1>5, <2>1, Zenon DEF FilesInv, DirKept
  <2>4. Makes(dir.files[p])
    BY <1>4, <2>1, <2>2, <2>3, MakesSame, Zenon
  <2>5. p \in ps
    BY <1>2, <1>4, <2>1, <2>4, LoadableIs, Zenon
  <2> QED  BY <2>2, <2>5, Zenon
<1>8. ASSUME NEW p \in ps, NEW q \in ps
      PROVE  final_id(p, dir.files[p]) = final_id(q, dir.files[q]) <=> Base(p) = Base(q)
  <2>1. /\ final_id(p, dir.files[p]) = final_id(Base(p), original.files[Base(p)])
        /\ final_id(q, dir.files[q]) = final_id(Base(q), original.files[Base(q)])
    BY <1>6, Zenon DEF SameRule
  <2>2. Base(p) \in Loadable(original) /\ Base(q) \in Loadable(original)
    BY <1>6, Zenon
  <2> QED  BY <1>1, <2>1, <2>2, Zenon DEF Clash
<1>9. CASE Clash(X)
  <2>1. load_from_dir(X, FALSE) = Err
    BY <1>9, LoadIs, Zenon
  <2>2. PICK p \in ps, q \in ps : p # q /\ final_id(p, X.files[p]) = final_id(q, X.files[q])
    BY <1>9, Zenon DEF Clash, ps
  <2>3. Base(p) = Base(q) /\ p \in Paths /\ q \in Paths
    BY <1>6, <1>8, <2>2, Zenon
  <2>4. p \notin Originals \/ q \notin Originals
    BY <2>2, <2>3, Zenon DEF Base
  <2>5. \E r \in Paths \ Originals : dir.files[r] # Absent
    BY <1>6, <2>3, <2>4, Zenon
  <2> QED  BY <1>2, <2>1, <2>5, Zenon DEF T
<1>10. CASE ~ Clash(X)
  <2> DEFINE m == [p \in ps |-> Base(p)]
  <2>1. ASSUME NEW p \in ps, NEW q \in ps, p # q PROVE Base(p) # Base(q)
    <3>1. X.files[p] = dir.files[p] /\ X.files[q] = dir.files[q]
      BY <1>6, Zenon
    <3>2. final_id(p, dir.files[p]) # final_id(q, dir.files[q])
      BY <1>10, <2>1, <3>1, Zenon DEF Clash, ps
    <3> QED  BY <1>8, <3>2, Zenon
  <2>2. \A p \in ps : Base(p) \in Loadable(Y) /\ Y.files[Base(p)] = original.files[Base(p)]
    <3> SUFFICES ASSUME NEW p \in ps
                 PROVE  Base(p) \in Loadable(Y) /\ Y.files[Base(p)] = original.files[Base(p)]
      BY Zenon
    <3>1. Base(p) \in Loadable(original) /\ Base(p) \notin lost /\ Base(p) \in Paths
      BY <1>6, Bases, Zenon
    <3> HIDE DEF lost
    <3> QED  BY <1>3, <3>1, Zenon
  <2>3. \A q \in Loadable(Y) : /\ q \in bases /\ q \in Loadable(original)
                               /\ Y.files[q] = original.files[q] /\ MakesRule(original, q)
    <3> SUFFICES ASSUME NEW q \in Loadable(Y)
                 PROVE  /\ q \in bases /\ q \in Loadable(original)
                        /\ Y.files[q] = original.files[q] /\ MakesRule(original, q)
      BY Zenon
    <3>1. q \in Loadable(original) /\ q \notin lost
      BY <1>3, Zenon
    <3>2. q \in Paths
      BY <3>1, LoadableIs, Zenon
    <3> QED  BY <1>1, <1>3, <3>1, <3>2, Zenon
  <2>4. m \in Bijection(ps, Loadable(Y))
    <3>1. m \in [ps -> Loadable(Y)] /\ \A p \in ps : m[p] = Base(p)
      BY <2>2, Zenon
    <3> HIDE DEF m
    <3>2. \A p, q \in ps : m[p] = m[q] => p = q
      BY <2>1, <3>1, Zenon
    <3>3. \A q \in Loadable(Y) : \E p \in ps : m[p] = q
      BY <2>3, <3>1, Zenon
    <3> QED  BY <3>1, <3>2, <3>3, Zenon DEF Bijection, Injection, Surjection, IsInjective
  <2>5. \A p \in ps : m[p] = Base(p)
    BY Zenon
  <2> HIDE DEF m, lost, bases
  <2>6. \A p \in ps : MakesRule(X, p) /\ SameRule(X, p, Y, m[p])
    BY <1>6, <2>2, <2>5, SameRuleMoves, Zenon
  <2>7. \A q \in Loadable(Y) : MakesRule(Y, q)
    BY <2>3, SameRuleMoves, Zenon
  <2>8. \A p, q \in ps : p # q => (Name(p) < Name(q) <=> Name(m[p]) < Name(m[q]))
    BY <1>6, <2>1, <2>5, NamesKept, Zenon
  <2>9. ~ Clash(Y)
    BY <1>1, <2>3, Zenon DEF Clash
  <2>10. X.manifest # "bad" /\ Y.manifest # "bad"
    BY <1>1, <1>2, <1>3, <1>4, Zenon
  <2>11. SameRules(load_from_dir(X, FALSE), load_from_dir(Y, FALSE))
    BY <1>11, <2>4, <2>6, <2>7, <2>8, <2>9, <2>10, LoadsAlike, Zenon DEF ps
  <2> QED  BY <1>2, <1>3, <1>7, <2>11, Zenon DEF T
<1> QED  BY <1>9, <1>10, Zenon

\* The directory of --out-dir, once it is complete.
LEMMA OutMeansTheSame ==
    ASSUME FilesInv, load_from_dir(original, FALSE) # Err, PacksKnown,
           \A p \in Originals : Readable(p) => out.files[p] # Absent,
           original.manifest \in {"none", "ok"}
    PROVE  LET anyTorn == TornIn("dir") \union TornIn("out") IN
           \E lost \in SUBSET anyTorn :
               SameRules(LoadWithout(out, anyTorn \union (Paths \ Originals)),
                         LoadWithout(original, lost \union PackFiles))
<1> DEFINE T == TornIn("dir") \union TornIn("out")
           A == T \union (Paths \ Originals)
           B == T \union PackFiles
           X == Without(out, A)
           Y == Without(original, B)
<1>1. /\ original.manifest # "bad" /\ ~ Clash(original) /\ ~ Unread(original)
      /\ \A p \in Loadable(original) : p \in Originals /\ MakesRule(original, p)
  BY OriginalRules, Zenon
<1>2. /\ LoadWithout(out, A) = load_from_dir(X, FALSE) /\ X.manifest = out.manifest
      /\ \A p \in Paths \ A : X.files[p] = out.files[p]
      /\ \A p : p \in Loadable(X) <=> p \in Loadable(out) /\ p \notin A
  <2> HIDE DEF A
  <2> QED  BY WithoutIs, Zenon
<1>21. Unread(X) => \E p \in Paths \ A : Collected(out.manifest, p) /\ out.files[p] = Unreadable
  <2> HIDE DEF A
  <2> QED  BY WithoutUnread, Zenon
<1>3. /\ LoadWithout(original, B) = load_from_dir(Y, FALSE) /\ Y.manifest = original.manifest
      /\ \A p \in Paths \ B : Y.files[p] = original.files[p]
      /\ \A p : p \in Loadable(Y) <=> p \in Loadable(original) /\ p \notin B
  <2> HIDE DEF B
  <2> QED  BY WithoutIs, Zenon
<1>22. Unread(Y) => \E p \in Paths \ B : Collected(original.manifest, p) /\ original.files[p] = Unreadable
  <2> HIDE DEF B
  <2> QED  BY WithoutUnread, Zenon
<1>4. out.manifest = "none" /\ out \in Listings
  BY Zenon DEF FilesInv
<1>5. \A p \in Paths : p \notin T => <<"out", p>> \notin torn
  BY Zenon DEF TornIn
<1>6. \A p \in Originals : p \in Paths /\ Base(p) = p
  <2>1. \A p \in Originals : p \in Paths
    BY RuleFilesConstants DEF Originals, Paths
  <2> QED  BY <2>1, Zenon DEF Base
<1>7. ASSUME NEW p \in Originals
      PROVE  /\ Collected("none", p) <=> p \notin PackFiles
             /\ Collected("none", p) => Collected(original.manifest, p)
  <2>1. "none" \in {"none", "ok"} /\ "none" \notin {"ok", "no legacy"}
    OBVIOUS
  <2>2. Collected("none", p) <=> Place[p] \in {"root", "legacy"}
    BY <2>1, Zenon DEF Collected
  <2>3. Place[p] \in {"root", "legacy"} => Collected(original.manifest, p)
    BY Zenon DEF Collected
  <2> QED  BY <2>2, <2>3, Zenon DEF PackFiles
<1> HIDE DEF T, X, Y
<1>20. ~ Unread(X) /\ ~ Unread(Y)
  <2>1. ASSUME NEW p \in Paths, p \notin A, Collected(out.manifest, p), out.files[p] = Unreadable
        PROVE  FALSE
    <3>1. p \in Originals /\ p \notin T
      BY <2>1, Zenon
    <3>2. Migrated(p, original.files[p], Unreadable)
      BY <1>5, <2>1, <3>1, UnreadableIs, Zenon DEF FilesInv, OutKept
    <3>3. original.files[p] = Unreadable
      BY <3>2, UnreadableKept, Zenon
    <3>4. Collected(original.manifest, p)
      BY <1>4, <1>7, <2>1, <3>1, Zenon
    <3> QED  BY <1>1, <2>1, <3>3, <3>4, UnreadIs, Zenon
  <2> HIDE DEF A, B
  <2>2. ~ Unread(Y)
    BY <1>1, <1>22, UnreadIs, Zenon
  <2> QED  BY <1>21, <2>1, <2>2, Zenon
<1>8. ASSUME NEW p \in Originals, p \notin T, out.files[p] # Absent
      PROVE  /\ Makes(out.files[p]) <=> Makes(original.files[p])
             /\ Makes(out.files[p]) => MakesRule(out, p) /\ SameRule(out, p, original, p)
  <2>1. Migrated(Base(p), original.files[Base(p)], out.files[p])
    BY <1>5, <1>6, <1>8, Zenon DEF FilesInv, OutKept
  <2> QED  BY <1>4, <1>6, <2>1, MakesSame, Zenon
<1>9. ASSUME NEW p \in Loadable(X)
      PROVE  /\ p \in Loadable(Y) /\ X.files[p] = out.files[p] /\ Y.files[p] = original.files[p]
             /\ MakesRule(out, p) /\ SameRule(out, p, original, p)
  <2>1. p \in Paths /\ p \notin A /\ Collected("none", p) /\ Makes(out.files[p])
    <3> HIDE DEF A, B
    <3>1. p \in Loadable(out) /\ p \notin A
      BY <1>2, <1>9, Zenon
    <3> QED  BY <1>4, <3>1, LoadableIs, Zenon
  <2>2. p \in Originals /\ p \notin T
    BY <2>1, Zenon
  <2>3. out.files[p] # Absent
    BY <2>1, Zenon DEF Makes
  <2>4. Makes(original.files[p]) /\ MakesRule(out, p) /\ SameRule(out, p, original, p)
    BY <1>8, <2>1, <2>2, <2>3, Zenon
  <2>5. p \in Loadable(original) /\ p \notin B
    BY <1>7, <2>1, <2>2, <2>4, LoadableIs, Zenon
  <2> HIDE DEF A, B
  <2> QED  BY <1>2, <1>3, <2>1, <2>4, <2>5, Zenon
<1>10. ASSUME NEW p \in Loadable(Y)
       PROVE  /\ p \in Loadable(X) /\ p \in Loadable(original)
              /\ Y.files[p] = original.files[p] /\ MakesRule(original, p)
  <2>1. p \in Loadable(original) /\ p \notin B
    BY <1>3, Zenon
  <2>2. p \in Originals /\ p \in Paths /\ MakesRule(original, p) /\ Makes(original.files[p])
    BY <1>1, <1>6, <2>1, Zenon DEF MakesRule
  <2>3. out.files[p] # Absent
    BY <2>2, Zenon DEF Makes, Readable
  <2>4. p \notin T /\ p \notin PackFiles
    BY <2>1, Zenon
  <2>5. Makes(out.files[p])
    BY <1>8, <2>2, <2>3, <2>4, Zenon
  <2>6. p \in Loadable(out) /\ p \notin A
    BY <1>4, <1>7, <2>2, <2>4, <2>5, LoadableIs, Zenon
  <2> HIDE DEF A, B
  <2> QED  BY <1>2, <1>3, <2>1, <2>2, <2>6, Zenon
<1> HIDE DEF A, B
<1> DEFINE m == [p \in Loadable(X) |-> p]
<1>11. m \in Bijection(Loadable(X), Loadable(Y)) /\ \A p \in Loadable(X) : m[p] = p
  <2>1. m \in [Loadable(X) -> Loadable(Y)] /\ \A p \in Loadable(X) : m[p] = p
    BY <1>9, Zenon
  <2> HIDE DEF m
  <2>2. \A p, q \in Loadable(X) : m[p] = m[q] => p = q
    BY <2>1, Zenon
  <2>3. \A q \in Loadable(Y) : \E p \in Loadable(X) : m[p] = q
    BY <1>10, <2>1, Zenon
  <2> QED  BY <2>1, <2>2, <2>3, Zenon DEF Bijection, Injection, Surjection, IsInjective
<1> HIDE DEF m
<1>12. ASSUME NEW p \in Loadable(X) PROVE MakesRule(X, p) /\ SameRule(X, p, Y, m[p])
  <2>1. /\ X.files[p] = out.files[p] /\ Y.files[p] = original.files[p]
        /\ MakesRule(out, p) /\ SameRule(out, p, original, p)
    BY <1>9, Zenon
  <2>2. MakesRule(X, p) /\ SameRule(X, p, Y, p)
    BY <2>1, SameRuleMoves, Zenon
  <2> QED  BY <1>11, <2>2, Zenon
<1>13. \A q \in Loadable(Y) : MakesRule(Y, q)
  BY <1>10, SameRuleMoves, Zenon
<1>14. \A p, q \in Loadable(X) : p # q => (Name(p) < Name(q) <=> Name(m[p]) < Name(m[q]))
  BY <1>11, Zenon
<1>15. ~ Clash(Y)
  BY <1>1, <1>10, Zenon DEF Clash
<1>16. X.manifest # "bad" /\ Y.manifest # "bad"
  <2>1. "none" # "bad"
    OBVIOUS
  <2> QED  BY <1>1, <1>2, <1>3, <1>4, <2>1, Zenon
<1>17. SameRules(load_from_dir(X, FALSE), load_from_dir(Y, FALSE))
  BY <1>11, <1>12, <1>13, <1>14, <1>15, <1>16, <1>20, LoadsAlike, Zenon
<1>18. SameRules(LoadWithout(out, A), LoadWithout(original, B))
  BY <1>2, <1>3, <1>17, Zenon
<1> QED  BY <1>18, Zenon DEF A, B, T

\* rules-migrate never changes what the rules mean: apart from files a failed
\* write left in pieces and files it made a rule of that were none, a directory loads as the same rules in the same order,
\* or not at all when copies lie beside their originals, whatever the rules and
\* their number, however often the tool runs and wherever it fails
\* (Diagnosis!MigrationKeepsRules).
THEOREM MigrationKeepsMeaning == Spec => []MigrationKeepsRules
<1>1. FilesInv => MigrationKeepsRules
  <2> SUFFICES ASSUME FilesInv, load_from_dir(original, FALSE) # Err, PacksKnown
               PROVE  MigrationKeepsRules
    BY Zenon DEF MigrationKeepsRules
  <2> QED  BY DirMeansTheSame, OutMeansTheSame, Zenon DEF MigrationKeepsRules
<1> QED  BY <1>1, FilesInvariant, PTL

=============================================================================
