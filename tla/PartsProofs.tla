---------------------------- MODULE PartsProofs ----------------------------
(***************************************************************************)
(* Theorems about the parts Diagnosis is made of: wildcard patterns        *)
(* (Patterns), for any texts over any characters, and signals (Signals),   *)
(* for any number of callers, any window and any step, whatever the order  *)
(* in which timestamps come; and that both keep what they promise within   *)
(* Diagnosis.                                                              *)
(***************************************************************************)
EXTENDS Diagnosis, SequenceTheorems, WellFoundedInduction, TLAPS

\* What makes induction over the naturals available to the provers: a set of
\* counterexamples has a least element.
LEMMA LeastExists ==
    ASSUME NEW T, T \subseteq Nat, T # {} PROVE \E x \in T : \A y \in T : x <= y
<1> DEFINE R == OpToRel(<, Nat)
<1>1. IsWellFoundedOn(R, Nat)
  BY NatLessThanWellFounded, Zenon
<1>2. \A x, y \in Nat : x < y => <<x, y>> \in R
  BY Zenon DEF OpToRel
<1> HIDE DEF R
<1>3. PICK x \in T : \A y \in T : ~ (<<y, x>> \in R)
  BY <1>1, WFMin, Zenon
<1>4. ASSUME NEW y \in T PROVE x <= y
  <2>1. x \in Nat /\ y \in Nat /\ ~ (<<y, x>> \in R)
    BY <1>3, Zenon
  <2>2. ~ (y < x)
    BY <1>2, <2>1, Zenon
  <2> QED  BY <2>1, <2>2
<1> QED  BY <1>3, <1>4, Zenon

-----------------------------------------------------------------------------
(* Wildcard patterns. *)

LEMMA LeastIs ==
    ASSUME NEW T, T \subseteq Nat, T # {}
    PROVE  Least(T) \in T /\ Least(T) \in Nat /\ \A y \in T : Least(T) <= y
<1>1. \E x \in T : \A y \in T : x <= y
  BY LeastExists, Zenon
<1> QED  BY <1>1, Zenon DEF Least

\* The places s to i of the pattern stand in the text behind its place p.
Stands(text, pattern, p, s, i) ==
    /\ p \in Nat /\ p + (i - s + 1) <= Len(text)
    /\ \A k \in s..i : text[p + (k - s + 1)] = pattern[k]

LEMMA FoundIs ==
    ASSUME NEW C, NEW text \in Seq(C), NEW pattern \in Seq(C), NEW cursor \in Nat,
           NEW i \in 1..Len(pattern), NEW s \in 1..i
    PROVE  /\ Len(SubSeq(pattern, s, i)) = i - s + 1
           /\ \A p : p \in Found(text, cursor, SubSeq(pattern, s, i))
                        <=> Stands(text, pattern, p, s, i) /\ cursor <= p
<1> DEFINE part == SubSeq(pattern, s, i)
           m == i - s + 1
<1>1. Len(pattern) \in Nat /\ Len(text) \in Nat /\ m \in Nat /\ m >= 1
  BY LenProperties
<1>2. /\ part \in Seq(C) /\ Len(part) = m /\ DOMAIN part = 1..m
      /\ \A k \in 1..m : part[k] = pattern[s + k - 1]
  BY <1>1, SubSeqProperties
<1> HIDE DEF part
<1>3. ASSUME NEW p \in Nat, p + m <= Len(text)
      PROVE  SubSeq(text, p + 1, p + m) = part <=> \A k \in s..i : text[p + (k - s + 1)] = pattern[k]
  <2> DEFINE t == SubSeq(text, p + 1, p + m)
  <2>1. /\ t \in Seq(C) /\ Len(t) = m /\ \A k \in 1..m : t[k] = text[p + k]
    <3>1. \A k \in (p + 1)..(p + m) : text[k] \in C
      BY <1>1, <1>3, ElementOfSeq
    <3>2. p + 1 <= p + m /\ (p + m) - (p + 1) + 1 = m /\ \A k \in 1..m : p + 1 + k - 1 = p + k
      BY <1>1
    <3> HIDE DEF m
    <3>3. p + 1 \in Int /\ p + m \in Int
      BY <1>1
    <3> QED  BY <3>1, <3>2, <3>3, SubSeqProperties
  <2> HIDE DEF t
  <2>2. t = part <=> \A k \in 1..m : t[k] = part[k]
    BY <1>1, <1>2, <2>1, SeqEqual, Zenon
  <2>3. (\A k \in 1..m : text[p + k] = pattern[s + k - 1])
        <=> \A k \in s..i : text[p + (k - s + 1)] = pattern[k]
    <3>1. ASSUME \A k \in 1..m : text[p + k] = pattern[s + k - 1], NEW k \in s..i
          PROVE  text[p + (k - s + 1)] = pattern[k]
      <4>1. k - s + 1 \in 1..m /\ s + (k - s + 1) - 1 = k
        BY <1>1
      <4> QED  BY <3>1, <4>1, Zenon
    <3>2. ASSUME \A k \in s..i : text[p + (k - s + 1)] = pattern[k], NEW k \in 1..m
          PROVE  text[p + k] = pattern[s + k - 1]
      <4>1. s + k - 1 \in s..i /\ (s + k - 1) - s + 1 = k
        BY <1>1
      <4> QED  BY <3>2, <4>1, Zenon
    <3> QED  BY <3>1, <3>2, Zenon
  <2> QED  BY <1>2, <2>1, <2>2, <2>3, Zenon DEF t
<1>4. ASSUME NEW p PROVE p \in Found(text, cursor, part) <=> Stands(text, pattern, p, s, i) /\ cursor <= p
  <2>1. p \in cursor..(Len(text) - m) <=> p \in Nat /\ cursor <= p /\ p + m <= Len(text)
    BY <1>1
  <2> HIDE DEF m
  <2> QED  BY <1>2, <1>3, <2>1, Zenon DEF Found, Stands, m
<1> QED  BY <1>2, <1>4, Zenon DEF part

\* A part is free of stars and begins the pattern or behind a star.
LEMMA PartIs ==
    ASSUME NEW C, NEW pattern \in Seq(C), NEW i \in Parts(pattern)
    PROVE  /\ i \in 1..Len(pattern) /\ PartStart(pattern, i) \in 1..i
           /\ \A k \in PartStart(pattern, i)..i : pattern[k] # Star
           /\ \A s \in 1..i : (\A k \in s..i : pattern[k] # Star) => PartStart(pattern, i) <= s
<1> DEFINE S == {s \in 1..i : \A k \in s..i : pattern[k] # Star}
<1>1. i \in 1..Len(pattern) /\ pattern[i] # Star
  BY LenProperties, Zenon DEF Parts
<1>2. S \subseteq Nat /\ i \in S
  BY <1>1, LenProperties
<1>3. Least(S) \in S /\ \A y \in S : Least(S) <= y
  <2> HIDE DEF S
  <2> QED  BY <1>2, LeastIs, Zenon
<1>4. PartStart(pattern, i) = Least(S)
  BY Zenon DEF PartStart
<1> QED  BY <1>1, <1>3, <1>4, Zenon

-----------------------------------------------------------------------------
(* The loop over the parts. *)

\* The cursor behind the parts that end among the first places, up to place n.
Cursors(text, pattern, n, f) ==
    f = [i \in 0..n |-> IF i = 0 THEN 0 ELSE FindPart(text, pattern, i, f[i - 1])]

LEMMA CursorsExist ==
    ASSUME NEW text, NEW pattern, NEW N \in Nat PROVE \E f : Cursors(text, pattern, N, f)
<1> DEFINE T == {n \in Nat : ~ \E f : Cursors(text, pattern, n, f)}
<1> SUFFICES ASSUME T # {} PROVE FALSE
  OBVIOUS
<1>1. PICK n \in T : \A y \in T : n <= y
  BY LeastExists, Zenon
<1>2. n # 0
  <2>1. Cursors(text, pattern, 0, [i \in 0..0 |-> 0])
    BY DEF Cursors
  <2> QED  BY <1>1, <2>1, Zenon
<1>3. n \in Nat /\ n - 1 \in Nat /\ ~ (n <= n - 1)
  BY <1>1, <1>2
<1>4. PICK f : Cursors(text, pattern, n - 1, f)
  BY <1>1, <1>3, Zenon
<1> DEFINE g == [i \in 0..n |-> IF i = n THEN FindPart(text, pattern, n, f[n - 1]) ELSE f[i]]
<1>5. \A i \in 0..n : g[i] = IF i = 0 THEN 0 ELSE FindPart(text, pattern, i, g[i - 1])
  <2> SUFFICES ASSUME NEW i \in 0..n PROVE g[i] = IF i = 0 THEN 0 ELSE FindPart(text, pattern, i, g[i - 1])
    OBVIOUS
  <2>1. CASE i = n
    BY <1>2, <1>3, <2>1
  <2>2. CASE i # n
    <3>1. i \in 0..(n - 1) /\ g[i] = f[i] /\ (i # 0 => g[i - 1] = f[i - 1])
      BY <1>3, <2>2
    <3>2. f[i] = IF i = 0 THEN 0 ELSE FindPart(text, pattern, i, f[i - 1])
      BY <1>4, <3>1, Zenon DEF Cursors
    <3> QED  BY <3>1, <3>2, Zenon
  <2> QED  BY <2>1, <2>2, Zenon
<1> HIDE DEF g
<1>6. Cursors(text, pattern, n, [i \in 0..n |-> g[i]])
  BY <1>5 DEF Cursors
<1> QED  BY <1>1, <1>6, Zenon

LEMMA FindPartsIs ==
    ASSUME NEW C, NEW text, NEW pattern \in Seq(C)
    PROVE  \E f : /\ Cursors(text, pattern, Len(pattern), f)
                  /\ FindParts(text, pattern) <=> f[Len(pattern)] <= Len(text)
<1> DEFINE g == CHOOSE f : f = [i \in 0..Len(pattern) |-> IF i = 0 THEN 0 ELSE FindPart(text, pattern, i, f[i - 1])]
<1>0. \E f : Cursors(text, pattern, Len(pattern), f)
  BY LenProperties, CursorsExist, Zenon
<1>1. \E f : f = [i \in 0..Len(pattern) |-> IF i = 0 THEN 0 ELSE FindPart(text, pattern, i, f[i - 1])]
  BY <1>0, Zenon DEF Cursors
<1>2. g = [i \in 0..Len(pattern) |-> IF i = 0 THEN 0 ELSE FindPart(text, pattern, i, g[i - 1])]
  BY <1>1, Zenon
<1>3. FindParts(text, pattern) <=> g[Len(pattern)] <= Len(text)
  BY Zenon DEF FindParts
<1> HIDE DEF g
<1>4. Cursors(text, pattern, Len(pattern), g)
  BY <1>2, Zenon DEF Cursors
<1> QED  BY <1>3, <1>4, Zenon

\* What one turn does to a cursor: it finds the first place where the part
\* stands, or goes past the text.
Looked(text, pattern, i, c, d) ==
    LET s == PartStart(pattern, i) IN
    \/ /\ d = Len(text) + 1
       /\ \A p \in Nat : ~ (Stands(text, pattern, p, s, i) /\ c <= p /\ (s = 1 => p = 0))
    \/ \E p \in Nat : /\ d = p + (i - s + 1)
                      /\ Stands(text, pattern, p, s, i) /\ c <= p /\ (s = 1 => p = 0)
                      /\ \A q \in Nat : Stands(text, pattern, q, s, i) /\ c <= q /\ (s = 1 => q = 0)
                                           => p <= q

LEMMA FindPartLooks ==
    ASSUME NEW C, NEW text \in Seq(C), NEW pattern \in Seq(C), NEW i \in Parts(pattern), NEW c \in Nat
    PROVE  Looked(text, pattern, i, c, FindPart(text, pattern, i, c))
<1> DEFINE s == PartStart(pattern, i)
           start == IF s = 1 THEN {0} ELSE Nat
           found == Found(text, c, Part(pattern, i)) \intersect start
<1>1. i \in 1..Len(pattern) /\ s \in 1..i
  BY PartIs, Zenon
<1>2. Part(pattern, i) = SubSeq(pattern, s, i)
  BY Zenon DEF Part
<1>3. Len(Part(pattern, i)) = i - s + 1
  BY <1>1, <1>2, FoundIs
<1>4. \A p : p \in found <=> p \in Nat /\ Stands(text, pattern, p, s, i) /\ c <= p /\ (s = 1 => p = 0)
  <2>1. \A p : p \in Found(text, c, Part(pattern, i)) <=> Stands(text, pattern, p, s, i) /\ c <= p
    BY <1>1, <1>2, FoundIs, Zenon
  <2>2. \A p : Stands(text, pattern, p, s, i) => p \in Nat
    BY Zenon DEF Stands
  <2> HIDE DEF s
  <2> QED  BY <2>1, <2>2, Zenon
<1>5. FindPart(text, pattern, i, c) = IF found = {} THEN Len(text) + 1 ELSE Least(found) + Len(Part(pattern, i))
  BY Zenon DEF FindPart
<1> HIDE DEF found, s
<1>6. CASE found = {}
  BY <1>4, <1>5, <1>6, Zenon DEF Looked, s
<1>7. CASE found # {}
  <2>1. Least(found) \in found /\ Least(found) \in Nat /\ \A y \in found : Least(found) <= y
    BY <1>4, <1>7, LeastIs, Zenon
  <2> DEFINE p == Least(found)
  <2>2. FindPart(text, pattern, i, c) = p + (i - s + 1)
    BY <1>3, <1>5, <1>7, Zenon
  <2> HIDE DEF p
  <2>3. /\ p \in Nat /\ Stands(text, pattern, p, s, i) /\ c <= p /\ (s = 1 => p = 0)
        /\ \A q \in Nat : Stands(text, pattern, q, s, i) /\ c <= q /\ (s = 1 => q = 0) => p <= q
    BY <1>4, <2>1, Zenon DEF p
  <2> QED  BY <2>2, <2>3, Zenon DEF Looked, s
<1> QED  BY <1>6, <1>7, Zenon

\* The cursors, as the steps of the loop.
Loop(text, pattern, f) ==
    /\ f[0] = 0
    /\ \A i \in 0..Len(pattern) : f[i] \in 0..(Len(text) + 1)
    /\ \A i \in 1..Len(pattern) : i \notin Parts(pattern) => f[i] = f[i - 1]
    /\ \A i \in Parts(pattern) : Looked(text, pattern, i, f[i - 1], f[i])

LEMMA CursorsLoop ==
    ASSUME NEW C, NEW text \in Seq(C), NEW pattern \in Seq(C), NEW f,
           Cursors(text, pattern, Len(pattern), f)
    PROVE  Loop(text, pattern, f)
<1> DEFINE n == Len(pattern)
<1>0. n \in Nat /\ Len(text) \in Nat /\ DOMAIN pattern = 1..n
  BY LenProperties, Zenon
<1>1. f[0] = 0 /\ \A i \in 1..n : f[i] = FindPart(text, pattern, i, f[i - 1])
  <2> HIDE DEF n
  <2>1. Cursors(text, pattern, n, f)
    BY Zenon DEF n
  <2> QED  BY <1>0, <2>1 DEF Cursors
<1> HIDE DEF n
<1>2. \A i \in 0..n : f[i] \in 0..(Len(text) + 1)
  <2> DEFINE T == {i \in 0..n : f[i] \notin 0..(Len(text) + 1)}
  <2> SUFFICES ASSUME T # {} PROVE FALSE
    OBVIOUS
  <2>1. T \subseteq Nat
    BY <1>0
  <2>2. PICK i \in T : \A y \in T : i <= y
    BY <2>1, LeastExists, Zenon
  <2>3. i # 0
    BY <1>0, <1>1, <2>2
  <2>4. i \in 1..n /\ i - 1 \in 0..n /\ ~ (i <= i - 1)
    BY <1>0, <2>2, <2>3
  <2>5. f[i - 1] \in 0..(Len(text) + 1) /\ f[i - 1] \in Nat
    BY <1>0, <2>2, <2>4
  <2>6. f[i] = FindPart(text, pattern, i, f[i - 1])
    BY <1>1, <2>4, Zenon
  <2>7. CASE i \notin Parts(pattern)
    BY <2>2, <2>5, <2>6, <2>7, Zenon DEF FindPart
  <2>8. CASE i \in Parts(pattern)
    <3>1. Looked(text, pattern, i, f[i - 1], f[i])
      BY <2>5, <2>6, <2>8, FindPartLooks, Zenon
    <3>2. PartStart(pattern, i) \in 1..i
      BY <2>8, PartIs, Zenon
    <3>3. f[i] \in 0..(Len(text) + 1)
      BY <1>0, <2>4, <3>1, <3>2 DEF Looked, Stands
    <3> QED  BY <2>2, <3>3, Zenon
  <2> QED  BY <2>7, <2>8, Zenon
<1>3. ASSUME NEW i \in Parts(pattern) PROVE Looked(text, pattern, i, f[i - 1], f[i])
  <2>1. i \in 1..n /\ i - 1 \in 0..n
    BY <1>0 DEF Parts
  <2>2. f[i - 1] \in Nat
    BY <1>0, <1>2, <2>1
  <2> QED  BY <1>1, <2>1, <2>2, FindPartLooks, Zenon
<1>4. \A i \in 1..n : i \notin Parts(pattern) => f[i] = f[i - 1]
  BY <1>1, Zenon DEF FindPart
<1> QED  BY <1>1, <1>2, <1>3, <1>4, Zenon DEF Loop, n

\* A cursor never goes back.
LEMMA CursorGrows ==
    ASSUME NEW C, NEW text \in Seq(C), NEW pattern \in Seq(C), NEW f, Loop(text, pattern, f),
           NEW i \in 0..Len(pattern), NEW j \in i..Len(pattern)
    PROVE  f[i] <= f[j]
<1> DEFINE n == Len(pattern)
           T == {k \in i..n : ~ (f[i] <= f[k])}
<1>0. n \in Nat /\ Len(text) \in Nat /\ DOMAIN pattern = 1..n
  BY LenProperties, Zenon
<1>1. \A k \in 0..n : f[k] \in 0..(Len(text) + 1)
  BY Zenon DEF Loop
<1>2. ASSUME NEW k \in 1..n PROVE f[k - 1] <= f[k]
  <2>1. f[k] \in 0..(Len(text) + 1) /\ f[k - 1] \in 0..(Len(text) + 1)
    BY <1>0, <1>1
  <2>2. CASE k \notin Parts(pattern)
    BY <1>0, <2>1, <2>2 DEF Loop
  <2>3. CASE k \in Parts(pattern)
    <3>1. PartStart(pattern, k) \in 1..k
      BY <2>3, PartIs, Zenon
    <3>2. Looked(text, pattern, k, f[k - 1], f[k])
      BY <2>3, Zenon DEF Loop
    <3> QED  BY <1>0, <2>1, <3>1, <3>2 DEF Looked
  <2> QED  BY <2>2, <2>3, Zenon
<1> HIDE DEF n
<1> SUFFICES ASSUME T # {} PROVE FALSE
  BY Zenon DEF n
<1>3. T \subseteq Nat
  BY <1>0 DEF n
<1>4. PICK k \in T : \A y \in T : k <= y
  BY <1>3, LeastExists, Zenon
<1>5. i \in 0..n
  BY Zenon DEF n
<1>6. k # i
  BY <1>0, <1>1, <1>4, <1>5
<1>7. k \in 1..n /\ k - 1 \in i..n /\ ~ (k <= k - 1) /\ k - 1 \in 0..n
  BY <1>0, <1>4, <1>5, <1>6
<1>8. f[i] <= f[k - 1]
  BY <1>4, <1>7, Zenon
<1>9. f[k - 1] <= f[k]
  BY <1>2, <1>7, Zenon
<1> QED  BY <1>0, <1>1, <1>4, <1>5, <1>7, <1>8, <1>9

\* Nothing is looked for inside a part.
LEMMA CursorWaits ==
    ASSUME NEW C, NEW text \in Seq(C), NEW pattern \in Seq(C), NEW f, Loop(text, pattern, f),
           NEW i \in Parts(pattern)
    PROVE  f[i - 1] = f[PartStart(pattern, i) - 1]
<1> DEFINE n == Len(pattern)
           s == PartStart(pattern, i)
           T == {k \in (s - 1)..(i - 1) : f[k] # f[s - 1]}
<1>0. n \in Nat /\ DOMAIN pattern = 1..n
  BY LenProperties, Zenon
<1>1. i \in 1..n /\ s \in 1..i /\ \A k \in s..i : pattern[k] # Star
  BY PartIs, Zenon
<1> HIDE DEF n, s
<1> SUFFICES ASSUME T # {} PROVE FALSE
  BY <1>0, <1>1 DEF s
<1>2. T \subseteq Nat
  BY <1>0, <1>1
<1>3. PICK k \in T : \A y \in T : k <= y
  BY <1>2, LeastExists, Zenon
<1>4. k # s - 1
  BY <1>3, Zenon
<1>5. k \in s..(i - 1) /\ k \in 1..n /\ k + 1 \in s..i /\ k # n
      /\ k - 1 \in (s - 1)..(i - 1) /\ ~ (k <= k - 1)
  BY <1>0, <1>1, <1>3, <1>4
<1>6. k \notin Parts(pattern)
  BY <1>1, <1>5, Zenon DEF Parts, n
<1>7. f[k] = f[k - 1]
  BY <1>5, <1>6, Zenon DEF Loop, n
<1>8. f[k - 1] = f[s - 1]
  BY <1>3, <1>5, Zenon
<1> QED  BY <1>3, <1>7, <1>8, Zenon

-----------------------------------------------------------------------------
(* The loop against the meaning of a pattern. *)

\* The text is cut at these places.
Cuts(text, pattern, cut) ==
    /\ cut \in [0..Len(pattern) -> 0..Len(text)]
    /\ cut[0] = 0 /\ cut[Len(pattern)] = Len(text)
    /\ \A i \in DOMAIN pattern :
           IF pattern[i] = Star THEN cut[i - 1] <= cut[i]
           ELSE cut[i] = cut[i - 1] + 1 /\ text[cut[i]] = pattern[i]

\* A part stands where the text is cut for it.
LEMMA CutStands ==
    ASSUME NEW C, NEW text \in Seq(C), NEW pattern \in Seq(C), NEW cut, Cuts(text, pattern, cut),
           NEW i \in 1..Len(pattern), NEW s \in 1..i, \A k \in s..i : pattern[k] # Star
    PROVE  Stands(text, pattern, cut[s - 1], s, i) /\ cut[i] = cut[s - 1] + (i - s + 1)
<1> DEFINE n == Len(pattern)
           T == {k \in (s - 1)..i : cut[k] # cut[s - 1] + (k - s + 1)}
<1>0. n \in Nat /\ Len(text) \in Nat /\ DOMAIN pattern = 1..n
  BY LenProperties, Zenon
<1>1. /\ \A k \in 0..n : cut[k] \in 0..Len(text)
      /\ \A k \in 1..n : pattern[k] # Star => cut[k] = cut[k - 1] + 1 /\ text[cut[k]] = pattern[k]
  BY <1>0, Zenon DEF Cuts
<1>2. i \in 1..n
  OBVIOUS
<1> HIDE DEF n
<1>3. T = {}
  <2> SUFFICES ASSUME T # {} PROVE FALSE
    OBVIOUS
  <2>1. T \subseteq Nat
    BY <1>0, <1>2
  <2>2. PICK k \in T : \A y \in T : k <= y
    BY <2>1, LeastExists, Zenon
  <2>3. k # s - 1
    <3>1. s - 1 \in 0..n /\ (s - 1) - s + 1 = 0
      BY <1>0, <1>2
    <3>2. cut[s - 1] \in Nat
      BY <1>1, <3>1
    <3>3. cut[k] # cut[s - 1] + (k - s + 1)
      BY <2>2, Zenon
    <3> SUFFICES ASSUME k = s - 1 PROVE FALSE
      OBVIOUS
    <3>4. k - s + 1 = 0 /\ cut[k] = cut[s - 1]
      BY <1>2
    <3> QED  BY <3>2, <3>3, <3>4
  <2>4. k \in s..i /\ k \in 1..n /\ k - 1 \in (s - 1)..i /\ ~ (k <= k - 1)
    BY <1>0, <1>2, <2>2, <2>3
  <2>5. cut[k - 1] = cut[s - 1] + ((k - 1) - s + 1)
    BY <2>2, <2>4, Zenon
  <2>6. cut[k] = cut[k - 1] + 1
    BY <1>1, <2>4, Zenon
  <2>7. cut[s - 1] \in Nat
    BY <1>0, <1>1, <1>2
  <2> QED  BY <2>2, <2>4, <2>5, <2>6, <2>7
<1>4. \A k \in (s - 1)..i : cut[k] = cut[s - 1] + (k - s + 1)
  BY <1>3, Zenon
<1>5. ASSUME NEW k \in s..i PROVE text[cut[s - 1] + (k - s + 1)] = pattern[k]
  <2>1. k \in (s - 1)..i /\ k \in 1..n
    BY <1>0, <1>2
  <2> QED  BY <1>1, <1>4, <2>1, Zenon
<1>6. i \in (s - 1)..i /\ s - 1 \in 0..n /\ i \in 0..n
  BY <1>0, <1>2
<1>7. cut[s - 1] \in Nat /\ cut[i] <= Len(text)
  BY <1>0, <1>1, <1>6
<1> QED  BY <1>4, <1>5, <1>6, <1>7, Zenon DEF Stands

\* The cursor is never behind the cuts: no match is missed.
LEMMA CutsFound ==
    ASSUME NEW C, NEW text \in Seq(C), NEW pattern \in Seq(C), NEW cut, Cuts(text, pattern, cut),
           NEW f, Loop(text, pattern, f)
    PROVE  f[Len(pattern)] <= Len(text)
<1> DEFINE n == Len(pattern)
           T == {i \in 0..n : ~ (f[i] <= cut[i])}
<1>0. n \in Nat /\ Len(text) \in Nat /\ DOMAIN pattern = 1..n
  BY LenProperties, Zenon
<1>1. /\ \A k \in 0..n : cut[k] \in 0..Len(text)
      /\ \A k \in 1..n : cut[k - 1] <= cut[k]
      /\ cut[0] = 0 /\ cut[n] = Len(text)
  <2>1. ASSUME NEW k \in 1..n PROVE cut[k - 1] <= cut[k]
    <3>0. k - 1 \in 0..n
      BY <1>0
    <3>1. cut[k - 1] \in 0..Len(text)
      BY <3>0, Zenon DEF Cuts
    <3> QED  BY <1>0, <3>1 DEF Cuts
  <2> QED  BY <2>1, Zenon DEF Cuts
<1>2. f[0] = 0 /\ \A k \in 0..n : f[k] \in 0..(Len(text) + 1)
  BY Zenon DEF Loop
<1>3. \A k \in 1..n : k \notin Parts(pattern) => f[k] = f[k - 1]
  BY Zenon DEF Loop
<1> HIDE DEF n
<1>4. T = {}
  <2> SUFFICES ASSUME T # {} PROVE FALSE
    OBVIOUS
  <2>1. T \subseteq Nat
    BY <1>0
  <2>2. PICK i \in T : \A y \in T : i <= y
    BY <2>1, LeastExists, Zenon
  <2>3. i # 0
    BY <1>0, <1>1, <1>2, <2>2, Zenon
  <2>4. i \in 1..n /\ i - 1 \in 0..n /\ ~ (i <= i - 1)
    BY <1>0, <2>2, <2>3
  <2>5. CASE i \notin Parts(pattern)
    <3>1. f[i - 1] <= cut[i - 1] /\ f[i] = f[i - 1] /\ cut[i - 1] <= cut[i]
      BY <1>1, <1>3, <2>2, <2>4, <2>5, Zenon
    <3> QED  BY <1>0, <1>1, <1>2, <2>2, <2>4, <3>1
  <2>6. CASE i \in Parts(pattern)
    <3> DEFINE s == PartStart(pattern, i)
    <3>1. s \in 1..i /\ \A k \in s..i : pattern[k] # Star
      BY <2>6, PartIs, Zenon
    <3>2. f[i - 1] = f[s - 1]
      BY <2>6, CursorWaits
    <3>3. Looked(text, pattern, i, f[i - 1], f[i])
      BY <2>6, Zenon DEF Loop
    <3>4. Stands(text, pattern, cut[s - 1], s, i) /\ cut[i] = cut[s - 1] + (i - s + 1)
      BY <2>4, <3>1, CutStands DEF n
    <3>5. s - 1 \in 0..n /\ ~ (i <= s - 1)
      BY <1>0, <2>4, <3>1
    <3>6. f[s - 1] <= cut[s - 1] /\ cut[s - 1] \in Nat /\ f[s - 1] \in Nat
      BY <1>0, <1>1, <1>2, <2>2, <3>5
    <3>7. s = 1 => cut[s - 1] = 0
      BY <1>1
    <3>8. f[i] <= cut[i]
      <4> HIDE DEF s
      <4>1. \E p \in Nat : f[i] = p + (i - s + 1) /\ p <= cut[s - 1]
        BY <3>2, <3>3, <3>4, <3>6, <3>7, Zenon DEF Looked, s
      <4> QED  BY <2>4, <3>1, <3>4, <3>6, <4>1
    <3> QED  BY <2>2, <3>8, Zenon
  <2> QED  BY <2>5, <2>6, Zenon
<1>5. f[n] <= cut[n]
  BY <1>0, <1>4
<1> QED  BY <1>1, <1>5, Zenon DEF n

\* The place where the part that place i is in, or stands before, ends; i
\* itself when no part follows.
End(pattern, i) == Least({j \in i..Len(pattern) : j = Len(pattern) \/ pattern[j + 1] = Star})

LEMMA EndIs ==
    ASSUME NEW C, NEW pattern \in Seq(C), NEW i \in 0..Len(pattern)
    PROVE  LET e == End(pattern, i) IN
           /\ e \in i..Len(pattern)
           /\ e = Len(pattern) \/ pattern[e + 1] = Star
           /\ \A k \in (i + 1)..e : pattern[k] # Star
           /\ \A j \in i..Len(pattern) : j = Len(pattern) \/ pattern[j + 1] = Star => e <= j
<1> DEFINE n == Len(pattern)
           S == {j \in i..n : j = n \/ pattern[j + 1] = Star}
           e == End(pattern, i)
<1>0. n \in Nat /\ i \in 0..n
  BY LenProperties, Zenon
<1>1. e = Least(S)
  BY Zenon DEF End
<1> HIDE DEF n, e
<1>2. S \subseteq Nat /\ n \in S
  BY <1>0
<1>3. e \in S /\ \A y \in S : e <= y
  <2> HIDE DEF S
  <2> QED  BY <1>1, <1>2, LeastIs, Zenon
<1>4. ASSUME NEW k \in (i + 1)..e PROVE pattern[k] # Star
  <2>1. k - 1 \in i..n /\ (k - 1) + 1 = k /\ ~ (e <= k - 1)
    BY <1>0, <1>3
  <2> QED  BY <1>3, <2>1, Zenon
<1> QED  BY <1>3, <1>4, Zenon DEF n, e

\* What is found is a match: every part is cut where it was found, except for a
\* last one that ends the pattern, which is cut at the end of the text.
LEMMA FoundCuts ==
    ASSUME NEW C, NEW text \in Seq(C), NEW pattern \in Seq(C), NEW f, Loop(text, pattern, f),
           NEW star \in 1..Len(pattern), pattern[star] = Star,
           f[Len(pattern)] <= Len(text),
           pattern[Len(pattern)] # Star => EndsWith(text, Part(pattern, Len(pattern)))
    PROVE  \E cut : Cuts(text, pattern, cut)
<1> DEFINE n == Len(pattern)
           To(e) == IF e = n THEN Len(text) ELSE f[e]
           At(i) == To(End(pattern, i)) - (End(pattern, i) - i)
<1>0. n \in Nat /\ Len(text) \in Nat /\ DOMAIN pattern = 1..n /\ star \in 1..n
  BY LenProperties, Zenon
<1>1. /\ f[0] = 0 /\ \A i \in 0..n : f[i] \in 0..Len(text)
      /\ \A i \in 1..n : i \notin Parts(pattern) => f[i] = f[i - 1]
  <2>1. ASSUME NEW i \in 0..n PROVE f[i] \in 0..Len(text)
    <3>1. n \in i..n /\ n \in 0..n
      BY <1>0
    <3>2. f[i] <= f[n]
      BY <3>1, CursorGrows, Zenon
    <3>3. f[i] \in 0..(Len(text) + 1) /\ f[n] \in 0..(Len(text) + 1)
      BY <3>1, Zenon DEF Loop
    <3> QED  BY <1>0, <3>2, <3>3
  <2> QED  BY <2>1, Zenon DEF Loop
<1>2. ASSUME NEW i \in 0..n
      PROVE  /\ End(pattern, i) \in i..n
             /\ End(pattern, i) = n \/ pattern[End(pattern, i) + 1] = Star
             /\ \A k \in (i + 1)..End(pattern, i) : pattern[k] # Star
             /\ \A j \in i..n : j = n \/ pattern[j + 1] = Star => End(pattern, i) <= j
  BY <1>2, EndIs, Zenon
\* Where a part stands, and that it ends where the cursor or the text does.
<1>3. ASSUME NEW e \in Parts(pattern)
      PROVE  LET s == PartStart(pattern, e) IN
             \E p \in Nat : /\ Stands(text, pattern, p, s, e) /\ To(e) = p + (e - s + 1)
                            /\ f[s - 1] <= p /\ (s = 1 /\ e # n => p = 0)
  <2> DEFINE s == PartStart(pattern, e)
  <2>1. e \in 1..n /\ s \in 1..e
    BY PartIs, Zenon
  <2>2. Looked(text, pattern, e, f[e - 1], f[e]) /\ f[e - 1] = f[s - 1]
    BY CursorWaits DEF Loop
  <2>3. f[e] # Len(text) + 1 /\ s - 1 \in 0..n /\ f[s - 1] \in Nat
    BY <1>0, <1>1, <2>1
  <2>4. PICK p \in Nat : /\ f[e] = p + (e - s + 1) /\ Stands(text, pattern, p, s, e)
                         /\ f[s - 1] <= p /\ (s = 1 => p = 0)
    BY <2>2, <2>3, Zenon DEF Looked
  <2>5. CASE e # n
    BY <2>4, <2>5, Zenon
  <2>6. CASE e = n
    <3>1. EndsWith(text, Part(pattern, n))
      BY <2>6, Zenon DEF Parts
    <3>2. Part(pattern, n) = SubSeq(pattern, s, n)
      BY <2>6, Zenon DEF Part
    <3>3. /\ Len(SubSeq(pattern, s, n)) = n - s + 1
          /\ \A q : q \in Found(text, 0, SubSeq(pattern, s, n)) => Stands(text, pattern, q, s, n)
      BY <2>1, <2>6, FoundIs
    <3> DEFINE q == Len(text) - (n - s + 1)
    <3>4. Stands(text, pattern, q, s, n)
      BY <3>1, <3>2, <3>3, Zenon DEF EndsWith
    <3>5. q \in Nat /\ p <= q
      <4>1. p + (n - s + 1) <= Len(text)
        BY <2>4, <2>6, Zenon DEF Stands
      <4> QED  BY <1>0, <2>1, <2>6, <4>1
    <3>6. To(e) = q + (e - s + 1)
      BY <1>0, <2>1, <2>6
    <3>7. f[s - 1] <= q
      BY <2>3, <2>4, <3>5
    <3> HIDE DEF q
    <3> QED  BY <2>6, <3>4, <3>5, <3>6, <3>7, Zenon
  <2> QED  BY <2>5, <2>6, Zenon
<1> HIDE DEF n
\* The part that a place is in or stands before.
<1>4. ASSUME NEW i \in 0..n, End(pattern, i) # i \/ (i # 0 /\ pattern[i] # Star)
      PROVE  /\ End(pattern, i) \in Parts(pattern)
             /\ PartStart(pattern, End(pattern, i)) <= i + 1
             /\ i # 0 /\ pattern[i] # Star => PartStart(pattern, End(pattern, i)) <= i
             /\ i # 0 /\ pattern[i] = Star => PartStart(pattern, End(pattern, i)) = i + 1
  <2> DEFINE e == End(pattern, i)
  <2>1. /\ e \in i..n /\ (e = n \/ pattern[e + 1] = Star)
        /\ \A k \in (i + 1)..e : pattern[k] # Star
    BY <1>2, Zenon
  <2> HIDE DEF e
  <2>2. e \in 1..n /\ pattern[e] # Star
    <3>1. CASE e # i
      <4>1. e \in (i + 1)..e /\ e \in 1..n
        BY <1>0, <2>1, <3>1
      <4> QED  BY <2>1, <4>1, Zenon
    <3>2. CASE e = i
      BY <1>0, <1>4, <2>1, <3>2 DEF e
    <3> QED  BY <3>1, <3>2, Zenon
  <2>3. e \in Parts(pattern)
    BY <1>0, <2>1, <2>2, Zenon DEF Parts, n
  <2> DEFINE s == PartStart(pattern, e)
  <2>4. /\ s \in 1..e /\ \A k \in s..e : pattern[k] # Star
        /\ \A t \in 1..e : (\A k \in t..e : pattern[k] # Star) => s <= t
    BY <2>3, PartIs, Zenon
  <2> HIDE DEF s
  <2>5. s <= i + 1
    <3>1. CASE e = i
      BY <2>2, <2>4, <3>1
    <3>2. CASE e # i
      <4>1. i + 1 \in 1..e
        BY <1>0, <2>1, <3>2
      <4> QED  BY <2>1, <2>4, <4>1, Zenon
    <3> QED  BY <3>1, <3>2, Zenon
  <2>6. ASSUME i # 0, pattern[i] # Star PROVE s <= i
    <3>1. i \in 1..e /\ \A k \in i..e : k = i \/ k \in (i + 1)..e
      BY <1>0, <2>1, <2>6
    <3>2. \A k \in i..e : pattern[k] # Star
      BY <2>1, <2>6, <3>1, Zenon
    <3> QED  BY <2>4, <3>1, <3>2, Zenon
  <2>7. ASSUME i # 0, pattern[i] = Star PROVE s = i + 1
    <3>1. i \notin s..e
      BY <2>4, <2>7, Zenon
    <3> QED  BY <1>0, <2>1, <2>4, <2>5, <3>1
  <2> QED  BY <2>3, <2>5, <2>6, <2>7, Zenon DEF e, s
\* Cuts inside the text.
<1>5. ASSUME NEW i \in 0..n PROVE At(i) \in 0..Len(text)
  <2> DEFINE e == End(pattern, i)
             s == PartStart(pattern, e)
  <2>1. e \in i..n
    BY <1>2, Zenon
  <2>2. CASE e = i
    <3>1. To(i) \in 0..Len(text)
      BY <1>0, <1>1
    <3>2. At(i) = To(i) - (i - i)
      BY <2>2, Zenon
    <3> HIDE DEF At, To
    <3> QED  BY <1>0, <3>1, <3>2
  <2>3. CASE e # i
    <3>1. e \in Parts(pattern) /\ s <= i + 1
      BY <1>4, <2>3, Zenon
    <3>2. s \in 1..e
      BY <3>1, PartIs, Zenon
    <3>3. PICK p \in Nat : Stands(text, pattern, p, s, e) /\ To(e) = p + (e - s + 1)
      BY <1>3, <3>1, Zenon
    <3>4. p + (e - s + 1) <= Len(text)
      BY <3>3, Zenon DEF Stands
    <3>5. At(i) = To(e) - (e - i)
      OBVIOUS
    <3> HIDE DEF e, s, At, To
    <3> QED  BY <1>0, <2>1, <3>1, <3>2, <3>3, <3>4, <3>5
  <2> QED  BY <2>2, <2>3, Zenon
<1>6. At(0) = 0
  <2> DEFINE e == End(pattern, 0)
             s == PartStart(pattern, e)
  <2>0. 0 \in 0..n
    BY <1>0
  <2>1. e \in 0..n /\ \A k \in (0 + 1)..e : pattern[k] # Star
    BY <1>2, <2>0, Zenon
  <2>2. e # n
    BY <1>0, <2>1
  <2>3. CASE e = 0
    BY <1>0, <1>1, <2>2, <2>3
  <2>4. CASE e # 0
    <3>1. e \in Parts(pattern) /\ s <= 0 + 1
      BY <1>4, <2>0, <2>4, Zenon
    <3>2. s \in 1..e
      BY <3>1, PartIs, Zenon
    <3>3. s = 1
      BY <1>0, <2>1, <3>1, <3>2
    <3>4. To(e) = 0 + (e - s + 1)
      BY <1>3, <2>2, <3>1, <3>3, Zenon
    <3>5. At(0) = To(e) - (e - 0)
      OBVIOUS
    <3> HIDE DEF e, s, At, To
    <3> QED  BY <1>0, <2>1, <3>3, <3>4, <3>5
  <2> QED  BY <2>3, <2>4, Zenon
<1>7. At(n) = Len(text)
  <2>1. n \in 0..n
    BY <1>0
  <2>2. End(pattern, n) = n
    BY <1>0, <1>2, <2>1
  <2> QED  BY <1>0, <2>2
<1>8. ASSUME NEW i \in 1..n, pattern[i] = Star PROVE At(i - 1) <= At(i)
  <2> DEFINE e == End(pattern, i)
             s == PartStart(pattern, e)
  <2>0. i \in 0..n /\ i - 1 \in 0..n /\ i - 1 # n /\ (i - 1) + 1 = i /\ i # 0
    BY <1>0
  <2>1. End(pattern, i - 1) = i - 1
    <3>1. i - 1 \in (i - 1)..n
      BY <1>0, <2>0
    <3>2. End(pattern, i - 1) <= i - 1 /\ End(pattern, i - 1) \in (i - 1)..n
      BY <1>2, <1>8, <2>0, <3>1, Zenon
    <3> QED  BY <1>0, <2>0, <3>2
  <2>2. At(i - 1) = f[i - 1] /\ f[i - 1] \in 0..Len(text)
    BY <1>0, <1>1, <2>0, <2>1
  <2>3. i \notin Parts(pattern)
    BY <1>8, Zenon DEF Parts
  <2>4. f[i] = f[i - 1]
    BY <1>1, <2>3, Zenon
  <2>5. e \in i..n
    BY <1>2, <2>0, Zenon
  <2>6. CASE e = i
    <3>1. To(i) \in 0..Len(text) /\ f[i - 1] <= To(i)
      BY <1>0, <1>1, <2>0, <2>2, <2>4
    <3>2. At(i) = To(i) - (i - i)
      BY <2>6, Zenon
    <3> HIDE DEF At, To
    <3> QED  BY <1>0, <2>2, <3>1, <3>2
  <2>7. CASE e # i
    <3>1. e \in Parts(pattern) /\ s = i + 1
      BY <1>4, <1>8, <2>0, <2>7, Zenon
    <3>2. PICK p \in Nat : To(e) = p + (e - s + 1) /\ f[s - 1] <= p
      BY <1>3, <3>1, Zenon
    <3>3. s - 1 = i
      BY <1>0, <3>1
    <3>4. f[i] <= p
      BY <3>2, <3>3, Zenon
    <3>5. At(i) = To(e) - (e - i)
      OBVIOUS
    <3> HIDE DEF e, s, At, To
    <3> QED  BY <1>0, <2>2, <2>4, <2>5, <3>1, <3>2, <3>4, <3>5
  <2> QED  BY <2>6, <2>7, Zenon
<1>9. ASSUME NEW i \in 1..n, pattern[i] # Star
      PROVE  At(i) = At(i - 1) + 1 /\ text[At(i)] = pattern[i]
  <2> DEFINE e == End(pattern, i)
             s == PartStart(pattern, e)
  <2>0. i \in 0..n /\ i - 1 \in 0..n /\ i # 0
    BY <1>0
  <2>1. e \in i..n /\ (e = n \/ pattern[e + 1] = Star)
    BY <1>2, <2>0, Zenon
  <2>2. End(pattern, i - 1) = e
    <3> DEFINE d == End(pattern, i - 1)
    <3>1. /\ d \in (i - 1)..n /\ (d = n \/ pattern[d + 1] = Star)
          /\ \A j \in (i - 1)..n : j = n \/ pattern[j + 1] = Star => d <= j
      BY <1>2, <2>0, Zenon
    <3>2. \A j \in i..n : j = n \/ pattern[j + 1] = Star => e <= j
      BY <1>2, <2>0, Zenon
    <3> HIDE DEF d, e
    <3>3. d # i - 1
      <4>1. (i - 1) + 1 = i /\ i - 1 # n
        BY <1>0
      <4> QED  BY <1>9, <3>1, <4>1, Zenon
    <3>4. d \in i..n /\ e \in (i - 1)..n
      BY <1>0, <2>1, <3>1, <3>3
    <3>5. e <= d /\ d <= e
      BY <2>1, <3>1, <3>2, <3>4, Zenon
    <3> QED  BY <1>0, <3>4, <2>1, <3>5 DEF d, e
  <2>3. e \in Parts(pattern) /\ s <= i
    BY <1>4, <1>9, <2>0, Zenon
  <2>4. s \in 1..e
    BY <2>3, PartIs, Zenon
  <2>5. PICK p \in Nat : Stands(text, pattern, p, s, e) /\ To(e) = p + (e - s + 1)
    BY <1>3, <2>3, Zenon
  <2>6. At(i) = To(e) - (e - i) /\ At(i - 1) = To(e) - (e - (i - 1))
    BY <2>2, Zenon
  <2> HIDE DEF e, s, At, To
  <2>7. At(i) = p + (i - s + 1) /\ At(i - 1) = p + (i - s)
    BY <1>0, <2>1, <2>3, <2>4, <2>5, <2>6
  <2>8. i \in s..e
    BY <1>0, <2>1, <2>3, <2>4
  <2>9. text[At(i)] = pattern[i]
    BY <2>5, <2>7, <2>8, Zenon DEF Stands
  <2> QED  BY <1>0, <2>4, <2>7, <2>9
<1> HIDE DEF At
<1> DEFINE cut == [i \in 0..n |-> At(i)]
<1>10. /\ cut \in [0..n -> 0..Len(text)] /\ cut[0] = 0 /\ cut[n] = Len(text)
  BY <1>0, <1>5, <1>6, <1>7
<1>11. ASSUME NEW i \in 1..n
       PROVE  IF pattern[i] = Star THEN cut[i - 1] <= cut[i]
              ELSE cut[i] = cut[i - 1] + 1 /\ text[cut[i]] = pattern[i]
  <2>1. cut[i] = At(i) /\ cut[i - 1] = At(i - 1)
    BY <1>0
  <2> QED  BY <1>8, <1>9, <2>1, Zenon
<1> HIDE DEF cut
<1> QED  BY <1>0, <1>10, <1>11, Zenon DEF Cuts, n

\* Looking for the parts from left to right, each at its first place, finds
\* exactly the texts that the pattern describes, whatever its length and its
\* stars (Patterns!matches_single_pattern, Patterns!Glob).
THEOREM PatternsMeanGlob ==
    ASSUME NEW C, NEW text \in Seq(C), NEW pattern \in Seq(C)
    PROVE  matches_single_pattern(text, pattern) <=> Glob(text, pattern)
<1> DEFINE n == Len(pattern)
<1>0. n \in Nat /\ Len(text) \in Nat /\ DOMAIN pattern = 1..n /\ DOMAIN text = 1..Len(text)
  BY LenProperties, Zenon
<1>1. Glob(text, pattern) <=> \E cut : Cuts(text, pattern, cut)
  BY Zenon DEF Glob, Cuts
<1>2. PICK f : /\ Cursors(text, pattern, n, f)
               /\ FindParts(text, pattern) <=> f[n] <= Len(text)
  BY FindPartsIs, Zenon
<1>3. Loop(text, pattern, f)
  BY <1>2, CursorsLoop, Zenon
<1>4. CASE Star \in Range(pattern)
  <2>1. PICK star \in 1..n : pattern[star] = Star
    BY <1>4 DEF Range
  <2>2. ASSUME matches_single_pattern(text, pattern) PROVE \E cut : Cuts(text, pattern, cut)
    <3>1. /\ FindParts(text, pattern)
          /\ pattern[n] # Star => EndsWith(text, Part(pattern, n))
      BY <1>4, <2>2, Zenon DEF matches_single_pattern
    <3> QED  BY <1>2, <1>3, <2>1, <3>1, FoundCuts, Zenon
  <2>3. ASSUME NEW cut, Cuts(text, pattern, cut) PROVE matches_single_pattern(text, pattern)
    <3>1. FindParts(text, pattern)
      BY <1>2, <1>3, <2>3, CutsFound, Zenon
    <3>2. ASSUME pattern[n] # Star PROVE EndsWith(text, Part(pattern, n))
      <4>1. n \in Parts(pattern)
        BY <1>0, <2>1, <3>2 DEF Parts
      <4> DEFINE s == PartStart(pattern, n)
      <4>2. n \in 1..Len(pattern) /\ s \in 1..n /\ \A k \in s..n : pattern[k] # Star
        BY <4>1, PartIs, Zenon
      <4>7. Part(pattern, n) = SubSeq(pattern, s, n)
        BY Zenon DEF Part
      <4> HIDE DEF n, s
      <4>3. Stands(text, pattern, cut[s - 1], s, n) /\ cut[n] = cut[s - 1] + (n - s + 1)
        BY <2>3, <4>2, CutStands
      <4>4. cut[n] = Len(text) /\ cut[s - 1] \in Nat
        BY <2>3, <4>3, Zenon DEF Cuts, Stands, n
      <4>5. Len(text) - (n - s + 1) = cut[s - 1]
        BY <1>0, <4>2, <4>3, <4>4
      <4>6. /\ Len(SubSeq(pattern, s, n)) = n - s + 1
            /\ \A p : Stands(text, pattern, p, s, n) /\ 0 <= p
                         => p \in Found(text, 0, SubSeq(pattern, s, n))
        BY <4>2, FoundIs
      <4>8. cut[s - 1] \in Found(text, 0, Part(pattern, n))
        BY <4>3, <4>4, <4>6, <4>7
      <4>9. Len(text) - Len(Part(pattern, n)) = cut[s - 1]
        BY <4>5, <4>6, <4>7, Zenon
      <4> QED  BY <4>8, <4>9, Zenon DEF EndsWith
    <3> QED  BY <1>4, <3>1, <3>2, Zenon DEF matches_single_pattern
  <2> QED  BY <1>1, <2>2, <2>3, Zenon
<1>5. CASE Star \notin Range(pattern)
  <2>1. \A k \in 1..n : pattern[k] # Star
    BY <1>5 DEF Range
  <2>2. matches_single_pattern(text, pattern) <=> text = pattern
    BY <1>5, Zenon DEF matches_single_pattern
  <2>3. ASSUME text = pattern PROVE \E cut : Cuts(text, pattern, cut)
    <3> DEFINE cut == [i \in 0..n |-> i]
    <3>1. Cuts(text, pattern, cut)
      BY <1>0, <2>1, <2>3 DEF Cuts
    <3> QED  BY <3>1, Zenon
  <2>4. ASSUME NEW cut, Cuts(text, pattern, cut) PROVE text = pattern
    <3>1. CASE n = 0
      <4>1. Len(text) = 0
        BY <2>4, <3>1, Zenon DEF Cuts
      <4> QED  BY <3>1, <4>1, EmptySeq, Zenon
    <3>2. CASE n # 0
      <4>1. n \in 1..n /\ 1 \in 1..n /\ \A k \in 1..n : pattern[k] # Star
        BY <1>0, <2>1, <3>2
      <4>2. Stands(text, pattern, cut[1 - 1], 1, n) /\ cut[n] = cut[1 - 1] + (n - 1 + 1)
        BY <2>4, <4>1, CutStands
      <4>3. cut[0] = 0 /\ cut[n] = Len(text)
        BY <2>4, Zenon DEF Cuts
      <4>4. Len(text) = n
        <5>1. cut[1 - 1] = 0
          BY <4>3
        <5> HIDE DEF n
        <5>2. cut[n] = 0 + (n - 1 + 1)
          BY <4>2, <5>1, Zenon
        <5>3. 0 + (n - 1 + 1) = n
          BY <1>0
        <5> QED  BY <4>3, <5>2, <5>3, Zenon
      <4>5. ASSUME NEW k \in 1..n PROVE text[k] = pattern[k]
        <5>0. cut[1 - 1] = 0
          BY <4>3
        <5>1. text[0 + (k - 1 + 1)] = pattern[k]
          BY <4>2, <5>0, Zenon DEF Stands
        <5> QED  BY <1>0, <5>1
      <4> QED  BY <4>4, <4>5, SeqEqual, Zenon
    <3> QED  BY <3>1, <3>2, Zenon
  <2> QED  BY <1>1, <2>2, <2>3, <2>4, Zenon
<1> QED  BY <1>4, <1>5, Zenon

-----------------------------------------------------------------------------
(* The point in the graph. *)

\* What is yet to be written is the last point or one of its rivals, and until
\* the last point is written the graph need not show one of them.
RecentInv ==
    /\ DOMAIN caller = Callers
    /\ \A c \in Callers : caller[c] # <<>> => Head(caller[c]) \in {emitted} \union rivals
    /\ (\E c \in Callers : caller[c] # <<>>) \/ signal \in {emitted} \union rivals

LEMMA InsertRecent ==
    ASSUME RecentInv, NEW c \in Callers, InsertNode(c) PROVE RecentInv'
<1>1. /\ caller[c] # <<>> /\ signal' = Head(caller[c]) /\ caller' = [caller EXCEPT ![c] = <<>>]
      /\ UNCHANGED <<emitted, rivals>>
  BY Zenon DEF InsertNode
<1>2. DOMAIN caller' = Callers
  BY <1>1, Zenon DEF RecentInv
<1>3. caller'[c] = <<>> /\ \A d \in Callers \ {c} : caller'[d] = caller[d]
  BY <1>1, Zenon DEF RecentInv
<1>4. signal' \in {emitted'} \union rivals'
  BY <1>1, Zenon DEF RecentInv
<1> QED  BY <1>1, <1>2, <1>3, <1>4, Zenon DEF RecentInv

LEMMA EventRecent ==
    ASSUME RecentInv, NEW c \in Callers, NEW x \in Samples, on_event(c, x) PROVE RecentInv'
<1>1. CASE should_emit(x.ts)
  <2>1. /\ caller' = [caller EXCEPT ![c] = <<emitted'>>]
        /\ rivals' = {Head(caller[d]) : d \in {d \in Callers : caller[d] # <<>>}}
    BY <1>1, Zenon DEF on_event
  <2>2. /\ DOMAIN caller' = Callers /\ caller'[c] = <<emitted'>>
        /\ \A d \in Callers \ {c} : caller'[d] = caller[d]
    BY <2>1, Zenon DEF RecentInv
  <2>3. caller'[c] # <<>> /\ Head(caller'[c]) = emitted'
    BY <2>2
  <2>4. ASSUME NEW d \in Callers, caller'[d] # <<>> PROVE Head(caller'[d]) \in {emitted'} \union rivals'
    BY <2>1, <2>2, <2>3, <2>4, Zenon
  <2> QED  BY <2>2, <2>3, <2>4, Zenon DEF RecentInv
<1>2. CASE ~ should_emit(x.ts)
  <2>1. UNCHANGED <<caller, rivals, emitted, signal>>
    BY <1>2, Zenon DEF on_event
  <2> QED  BY <2>1, Zenon DEF RecentInv
<1> QED  BY <1>1, <1>2, Zenon

\* When no caller has a point left to write, the graph shows the last point
\* emitted or one that was yet to be written then, for any number of callers
\* and any order of their sections (Signals!NodeIsRecent).
THEOREM GraphShowsRecent == SignalSpec => []NodeIsRecent
<1>1. SignalInit => RecentInv
  BY Zenon DEF SignalInit, RecentInv
<1>2. RecentInv /\ [SignalNext]_signalVars => RecentInv'
  <2> SUFFICES ASSUME RecentInv, [SignalNext]_signalVars PROVE RecentInv'
    OBVIOUS
  <2>1. CASE UNCHANGED signalVars
    BY <2>1, Zenon DEF signalVars, RecentInv
  <2>2. CASE SignalNext
    BY <2>2, InsertRecent, EventRecent, Zenon DEF SignalNext
  <2> QED  BY <2>1, <2>2, Zenon
<1>3. RecentInv => NodeIsRecent
  BY Zenon DEF RecentInv, NodeIsRecent
<1> QED  BY <1>1, <1>2, <1>3, PTL DEF SignalSpec

-----------------------------------------------------------------------------
(* The window. *)

\* The window is a suffix of what arrived; what has left it is too old for some
\* sample that arrived.
Gone == Len(arrived) - Len(samples)
WindowInv ==
    /\ samples \in Seq(Samples) /\ arrived \in Seq(Samples)
    /\ Len(samples) <= Len(arrived)
    /\ \A i \in 1..Len(samples) : samples[i] = arrived[Gone + i]
    /\ \A i \in 1..Gone : \E j \in 1..Len(arrived) : arrived[i].ts + window_ms < arrived[j].ts
    /\ (\A i, j \in 1..Len(arrived) : i < j => arrived[i].ts <= arrived[j].ts) =>
          \A i \in 1..Len(samples) : samples[i].ts + window_ms >= arrived[Len(arrived)].ts

SamplesTyped == \A x \in Samples : x.ts \in Nat

LEMMA TypedSamples == SamplesTyped
BY SignalConstants DEF SamplesTyped, Samples

\* What trim returns: the part of the window from its first live sample on.
LEMMA TrimIs ==
    ASSUME NEW s \in Seq(Samples), NEW now \in Nat, Len(s) > 0, s[Len(s)].ts = now
    PROVE  \E k \in 1..Len(s) :
              /\ trim(s, now) \in Seq(Samples) /\ Len(trim(s, now)) = Len(s) - k + 1
              /\ \A i \in 1..(Len(s) - k + 1) : trim(s, now)[i] = s[k + i - 1]
              /\ s[k].ts + window_ms >= now
              /\ \A i \in 1..(k - 1) : s[i].ts + window_ms < now
<1> DEFINE live == {i \in DOMAIN s : s[i].ts >= monus(now, window_ms)}
           k == CHOOSE i \in live : \A j \in live : i <= j
           n == Len(s)
<1>0. window_ms \in Nat
  BY SignalConstants, Zenon
<1>1. /\ n \in Nat /\ n > 0 /\ DOMAIN s = 1..n
      /\ \A i \in 1..n : s[i] \in Samples /\ s[i].ts \in Nat
  <2>1. n \in Nat /\ n > 0 /\ DOMAIN s = 1..n /\ \A i \in 1..n : s[i] \in Samples
    BY LenProperties, ElementOfSeq, Zenon
  <2> QED  BY <2>1, TypedSamples, Zenon DEF SamplesTyped
<1>2. trim(s, now) = SubSeq(s, k, n)
  BY Zenon DEF trim
<1>3. s[n].ts = now
  OBVIOUS
<1> HIDE DEF n
<1>4. n \in live
  BY <1>0, <1>1, <1>3 DEF monus
<1>5. live \subseteq Nat
  BY <1>1
<1>6. \E i \in live : \A j \in live : i <= j
  <2> HIDE DEF live
  <2> QED  BY <1>4, <1>5, LeastExists, Zenon
<1>7. k \in live /\ \A j \in live : k <= j
  <2> HIDE DEF live
  <2> QED  BY <1>6, Zenon
<1> HIDE DEF k
<1>8. k \in 1..n /\ s[k].ts >= monus(now, window_ms)
  BY <1>1, <1>7, Zenon
<1>9. s[k].ts + window_ms >= now
  BY <1>0, <1>1, <1>8 DEF monus
<1>10. ASSUME NEW i \in 1..(k - 1) PROVE s[i].ts + window_ms < now
  <2>1. i \in 1..n /\ i < k
    BY <1>1, <1>8
  <2>2. i \notin live
    <3>1. ~ (k <= i)
      BY <1>1, <1>8, <2>1
    <3> HIDE DEF live
    <3> QED  BY <1>7, <3>1, Zenon
  <2>3. s[i].ts < monus(now, window_ms) /\ s[i].ts \in Nat
    <3>1. monus(now, window_ms) \in Nat
      BY <1>0 DEF monus
    <3> QED  BY <1>1, <2>1, <2>2, <3>1
  <2> QED  BY <1>0, <2>3 DEF monus
<1>11. /\ SubSeq(s, k, n) \in Seq(Samples) /\ Len(SubSeq(s, k, n)) = n - k + 1
       /\ \A i \in 1..(n - k + 1) : SubSeq(s, k, n)[i] = s[k + i - 1]
  <2>1. \A i \in k..n : s[i] \in Samples
    BY <1>1, <1>8
  <2>2. k \in Int /\ n \in Int /\ k <= n
    BY <1>1, <1>8
  <2>3. Len(SubSeq(s, k, n)) = IF k <= n THEN n - k + 1 ELSE 0
    BY <2>1, <2>2, SubSeqProperties, Zenon
  <2>4. SubSeq(s, k, n) \in Seq(Samples)
    BY <2>1, <2>2, SubSeqProperties, Zenon
  <2>5. \A i \in 1..(n - k + 1) : SubSeq(s, k, n)[i] = s[k + i - 1]
    BY <2>1, <2>2, SubSeqProperties
  <2> QED  BY <2>2, <2>3, <2>4, <2>5, Zenon
<1> QED  BY <1>2, <1>8, <1>9, <1>10, <1>11, Zenon DEF n

LEMMA EventWindow ==
    ASSUME WindowInv, NEW c \in Callers, NEW x \in Samples, on_event(c, x) PROVE WindowInv'
<1> DEFINE s == Append(samples, x)
           a == Append(arrived, x)
           m == Len(samples)
           n == Len(arrived)
<1>1. arrived' = a /\ samples' = trim(s, x.ts)
  BY Zenon DEF on_event
<1>2. /\ s \in Seq(Samples) /\ Len(s) = m + 1 /\ s[m + 1] = x
      /\ \A i \in 1..m : s[i] = samples[i]
      /\ a \in Seq(Samples) /\ Len(a) = n + 1 /\ a[n + 1] = x
      /\ \A i \in 1..n : a[i] = arrived[i]
  BY AppendProperties DEF WindowInv
<1>3. /\ m \in Nat /\ n \in Nat /\ m <= n /\ x.ts \in Nat /\ window_ms \in Nat
      /\ \A i \in 1..(n + 1) : a[i].ts \in Nat
  <2>1. m \in Nat /\ n \in Nat /\ m <= n
    BY LenProperties, Zenon DEF WindowInv
  <2>2. \A i \in 1..(n + 1) : a[i] \in Samples
    BY <1>2, ElementOfSeq, Zenon
  <2> QED  BY <2>1, <2>2, SignalConstants, TypedSamples, Zenon DEF SamplesTyped
<1>4. \A i \in 1..m : samples[i] = arrived[n - m + i]
  BY Zenon DEF WindowInv, Gone
<1>5. \A i \in 1..(n - m) : \E j \in 1..n : arrived[i].ts + window_ms < arrived[j].ts
  BY Zenon DEF WindowInv, Gone
<1> HIDE DEF s, a, m, n
<1>6. \A i \in 1..(m + 1) : s[i] = a[n - m + i]
  <2>1. ASSUME NEW i \in 1..m PROVE s[i] = a[n - m + i]
    <3>1. n - m + i \in 1..n
      BY <1>3
    <3> QED  BY <1>2, <1>4, <3>1, Zenon
  <2>2. s[m + 1] = a[n - m + (m + 1)]
    BY <1>2, <1>3
  <2>3. \A i \in 1..(m + 1) : i \in 1..m \/ i = m + 1
    BY <1>3
  <2> QED  BY <2>1, <2>2, <2>3, Zenon
<1> DEFINE t == trim(s, x.ts)
<1>7. PICK k \in 1..(m + 1) :
        /\ t \in Seq(Samples) /\ Len(t) = (m + 1) - k + 1
        /\ \A i \in 1..((m + 1) - k + 1) : t[i] = s[k + i - 1]
        /\ s[k].ts + window_ms >= x.ts
        /\ \A i \in 1..(k - 1) : s[i].ts + window_ms < x.ts
  <2>1. Len(s) > 0 /\ s[Len(s)].ts = x.ts /\ Len(s) = m + 1
    BY <1>2, <1>3
  <2>2. \E k \in 1..Len(s) :
          /\ trim(s, x.ts) \in Seq(Samples) /\ Len(trim(s, x.ts)) = Len(s) - k + 1
          /\ \A i \in 1..(Len(s) - k + 1) : trim(s, x.ts)[i] = s[k + i - 1]
          /\ s[k].ts + window_ms >= x.ts
          /\ \A i \in 1..(k - 1) : s[i].ts + window_ms < x.ts
    BY <1>2, <1>3, <2>1, TrimIs, Zenon
  <2> QED  BY <2>1, <2>2, Zenon
<1>8. samples' = t /\ arrived' = a
  BY <1>1, Zenon
<1> HIDE DEF t
<1> DEFINE g == n - m + (k - 1)
<1>9. g \in Nat /\ Len(t) \in Nat /\ Len(t) <= n + 1 /\ (n + 1) - Len(t) = g /\ Len(t) >= 1
  BY <1>3, <1>7
<1>10. \A i \in 1..Len(t) : t[i] = a[g + i]
  <2> SUFFICES ASSUME NEW i \in 1..Len(t) PROVE t[i] = a[g + i]
    OBVIOUS
  <2>1. k + i - 1 \in 1..(m + 1) /\ n - m + (k + i - 1) = g + i /\ i \in 1..((m + 1) - k + 1)
    BY <1>3, <1>7
  <2>2. t[i] = s[k + i - 1]
    BY <1>7, <2>1, Zenon
  <2> QED  BY <1>6, <2>1, <2>2, Zenon
<1>11. \A i \in 1..g : \E j \in 1..(n + 1) : a[i].ts + window_ms < a[j].ts
  <2> SUFFICES ASSUME NEW i \in 1..g PROVE \E j \in 1..(n + 1) : a[i].ts + window_ms < a[j].ts
    OBVIOUS
  <2>1. CASE i <= n - m
    <3>1. i \in 1..(n - m) /\ i \in 1..n
      BY <1>3, <2>1
    <3>2. PICK j \in 1..n : arrived[i].ts + window_ms < arrived[j].ts
      BY <1>5, <3>1, Zenon
    <3>3. a[i] = arrived[i] /\ a[j] = arrived[j] /\ j \in 1..(n + 1)
      BY <1>2, <1>3, <3>1, SMTT(30)
    <3> QED  BY <3>2, <3>3, Zenon
  <2>2. CASE i > n - m
    <3> DEFINE h == i - (n - m)
    <3>1. h \in 1..(k - 1) /\ h \in 1..(m + 1) /\ n - m + h = i /\ n + 1 \in 1..(n + 1)
      BY <1>3, <1>7, <2>2
    <3> HIDE DEF h
    <3>2. s[h] = a[i]
      BY <1>6, <3>1, Zenon
    <3>3. s[h].ts + window_ms < x.ts
      BY <1>7, <3>1, Zenon
    <3> QED  BY <1>2, <3>1, <3>2, <3>3, Zenon
  <2> QED  BY <1>3, <2>1, <2>2
<1>12. ASSUME \A i, j \in 1..(n + 1) : i < j => a[i].ts <= a[j].ts
       PROVE  \A i \in 1..Len(t) : t[i].ts + window_ms >= a[n + 1].ts
  <2> SUFFICES ASSUME NEW i \in 1..Len(t) PROVE t[i].ts + window_ms >= a[n + 1].ts
    OBVIOUS
  <2>1. g + 1 \in 1..(n + 1) /\ g + i \in 1..(n + 1) /\ 1 \in 1..Len(t)
        /\ (g + 1 = g + i \/ g + 1 < g + i)
    <3> DEFINE l == Len(t)
    <3>1. g \in Nat /\ l \in Nat /\ l <= n + 1 /\ (n + 1) - l = g /\ l >= 1 /\ i \in 1..l
      BY <1>9, Zenon
    <3> HIDE DEF g, l
    <3>2. g + 1 \in 1..(n + 1) /\ g + i \in 1..(n + 1) /\ 1 \in 1..l /\ (g + 1 = g + i \/ g + 1 < g + i)
      BY <1>3, <3>1
    <3> QED  BY <3>2, Zenon DEF l
  <2>2. t[1] = a[g + 1] /\ t[i] = a[g + i]
    BY <1>10, <2>1, Zenon
  <2>3. t[1].ts + window_ms >= x.ts
    <3>1. n - m + k = g + 1 /\ k \in 1..(m + 1)
      BY <1>3, <1>7
    <3>2. s[k] = a[g + 1]
      BY <1>6, <3>1, Zenon
    <3> QED  BY <1>7, <2>2, <3>2, Zenon
  <2>4. a[g + 1].ts \in Nat /\ a[g + i].ts \in Nat
    BY <1>3, <2>1, Zenon
  <2> HIDE DEF g
  <2>5. a[g + 1].ts <= a[g + i].ts
    BY <1>12, <2>1, <2>4
  <2>6. a[n + 1].ts = x.ts
    BY <1>2, Zenon
  <2> DEFINE first == a[g + 1].ts
             this == a[g + i].ts
             last == x.ts
  <2>7. first + window_ms >= last /\ first <= this /\ first \in Nat /\ this \in Nat
        /\ last \in Nat /\ t[i].ts = this
    BY <1>3, <2>2, <2>3, <2>4, <2>5, Zenon
  <2> HIDE DEF first, this, last
  <2>8. this + window_ms >= last
    BY <1>3, <2>7
  <2> QED  BY <2>6, <2>7, <2>8, Zenon DEF last
<1>13. Gone' = g /\ Len(arrived') = n + 1 /\ Len(samples') = Len(t)
  BY <1>2, <1>8, <1>9, Zenon DEF Gone
<1> HIDE DEF g
<1> QED  BY <1>2, <1>7, <1>8, <1>9, <1>10, <1>11, <1>12, <1>13, Zenon DEF WindowInv

LEMMA WindowIs == ASSUME WindowInv PROVE WindowExact
<1> DEFINE m == Len(samples)
           n == Len(arrived)
<1>1. m \in Nat /\ n \in Nat /\ m <= n /\ DOMAIN arrived = 1..n /\ DOMAIN samples = 1..m
  BY LenProperties, Zenon DEF WindowInv
<1>2. \A i \in 1..m : samples[i] = arrived[n - m + i]
  BY Zenon DEF WindowInv, Gone
<1>3. \A i \in 1..n : arrived[i] \in Samples
  BY ElementOfSeq, Zenon DEF WindowInv
<1> HIDE DEF m, n
<1> DEFINE q == SubSeq(arrived, n - m + 1, n)
<1>4. q \in Seq(Samples) /\ Len(q) = m /\ \A i \in 1..m : q[i] = arrived[n - m + i]
  <2> DEFINE b == n - m + 1
  <2>1. b \in Int /\ n \in Int /\ n - b + 1 = m /\ b <= n + 1 /\ (b <= n \/ m = 0)
        /\ \A i \in 1..m : b + i - 1 = n - m + i
    BY <1>1
  <2>2. \A i \in b..n : arrived[i] \in Samples
    BY <1>1, <1>3
  <2> HIDE DEF b
  <2>3. SubSeq(arrived, b, n) \in Seq(Samples)
    BY <2>1, <2>2, SubSeqProperties, Zenon
  <2>4. Len(SubSeq(arrived, b, n)) = IF b <= n THEN n - b + 1 ELSE 0
    BY <2>1, <2>2, SubSeqProperties
  <2>5. \A i \in 1..(n - b + 1) : SubSeq(arrived, b, n)[i] = arrived[b + i - 1]
    BY <2>1, <2>2, SubSeqProperties
  <2>6. Len(SubSeq(arrived, b, n)) = m
    BY <1>1, <2>1, <2>4, Zenon
  <2>7. \A i \in 1..m : SubSeq(arrived, b, n)[i] = arrived[n - m + i]
    BY <2>1, <2>5, Zenon
  <2> QED  BY <2>3, <2>6, <2>7, Zenon DEF b
<1> HIDE DEF q
<1>5. samples = q
  <2>1. Len(samples) = Len(q) /\ \A i \in 1..Len(samples) : samples[i] = q[i]
    BY <1>2, <1>4, Zenon DEF m
  <2>2. samples \in Seq(Samples)
    BY Zenon DEF WindowInv
  <2> QED  BY <1>4, <2>1, <2>2, SeqEqual, Zenon
<1>6. IsSuffixOf(samples, arrived)
  BY <1>1, <1>5, Zenon DEF IsSuffixOf, q, m, n
<1>7. /\ DOMAIN arrived = 1..Len(arrived) /\ DOMAIN samples = 1..Len(samples)
  BY <1>1, Zenon DEF m, n
<1> QED  BY <1>6, <1>7, Zenon DEF WindowInv, WindowExact, Gone

\* No sample in the window of the newest one is ever missing from the window,
\* and while timestamps come in order it holds nothing else
\* (Signals!WindowExact).
THEOREM WindowsCorrect == SignalSpec => []WindowExact
<1>1. SignalInit => WindowInv
  <2> SUFFICES ASSUME SignalInit PROVE WindowInv
    OBVIOUS
  <2>1. samples = <<>> /\ arrived = <<>> /\ <<>> \in Seq(Samples) /\ Len(<<>>) = 0
    BY EmptySeq, Zenon DEF SignalInit
  <2> QED  BY <2>1 DEF WindowInv, Gone
<1>2. WindowInv /\ [SignalNext]_signalVars => WindowInv'
  <2> SUFFICES ASSUME WindowInv, [SignalNext]_signalVars PROVE WindowInv'
    OBVIOUS
  <2>1. CASE UNCHANGED signalVars
    BY <2>1, Zenon DEF signalVars, WindowInv, Gone
  <2>2. ASSUME NEW c \in Callers, InsertNode(c) PROVE WindowInv'
    BY <2>2, Zenon DEF InsertNode, WindowInv, Gone
  <2> QED  BY <2>1, <2>2, EventWindow, Zenon DEF SignalNext
<1>3. WindowInv => WindowExact
  BY WindowIs, Zenon
<1> QED  BY <1>1, <1>2, <1>3, PTL DEF SignalSpec

-----------------------------------------------------------------------------
(* The signals of a hub that serves. *)

LEMMA SignalStep == ASSUME [Next]_allVars PROVE [SignalNext]_signalVars
<1>1. CASE UNCHANGED allVars
  BY <1>1, Zenon DEF allVars
<1>2. CASE Migrate
  BY <1>2, Zenon DEF Migrate
<1>3. ASSUME NEW strict \in BOOLEAN, Start(strict) PROVE UNCHANGED signalVars
  BY <1>3, Zenon DEF Start
<1>4. ASSUME NEW text \in Texts, NEW pattern \in PatternTexts, run_diagnosis(text, pattern)
      PROVE  UNCHANGED signalVars
  BY <1>4, Zenon DEF run_diagnosis
<1>5. CASE GraphChanges \/ SignalChanges
  BY <1>5, Zenon DEF GraphChanges, SignalChanges
<1>6. CASE Request
  BY <1>6, Zenon DEF Request, BeginRequest, NextGroup, ReadEdges, ReadNodes, EndRequest
<1> QED  BY <1>1, <1>2, <1>3, <1>4, <1>5, <1>6, Zenon DEF Next

\* Whatever else goes on in the hub, its signals behave as Signals describes
\* them, and what holds of that module holds here.
THEOREM SignalsUndisturbed == Spec => SignalSpec /\ []WindowExact /\ []NodeIsRecent
<1>1. Init => SignalInit
  BY Zenon DEF Init
<1>2. [Next]_allVars => [SignalNext]_signalVars
  BY SignalStep, Zenon
<1> QED  BY <1>1, <1>2, GraphShowsRecent, WindowsCorrect, PTL DEF Spec, SignalSpec

-----------------------------------------------------------------------------
(* What `ark diagnose' names. *)

IsBlocked(text) == [id |-> text, state |-> [num |-> NoNumber, says |-> {"blocked"}]]
Waits(text) ==
    [event_type |-> "process.state", entity_id |-> text, value |-> [num |-> NoNumber, says |-> {"blocked"}]]

LEMMA OneEvent ==
    ASSUME NEW text
    PROVE  extract_virtual_events_from_causes({}, {IsBlocked(text)}) = {Waits(text)}
<1>1. {q \in {IsBlocked(text)} : q.state.says \intersect {"blocked", "waiting"} # {}} = {IsBlocked(text)}
  BY DEF IsBlocked
<1>2. extract_virtual_events_from_causes({}, {IsBlocked(text)}) =
          {[event_type |-> "process.state", entity_id |-> p.id, value |-> p.state] :
           p \in {q \in {IsBlocked(text)} : q.state.says \intersect {"blocked", "waiting"} # {}}}
  BY Zenon DEF extract_virtual_events_from_causes
<1>3. extract_virtual_events_from_causes({}, {IsBlocked(text)}) =
          {[event_type |-> "process.state", entity_id |-> p.id, value |-> p.state] : p \in {IsBlocked(text)}}
  BY <1>1, <1>2, Zenon
<1> QED  BY <1>3, Zenon DEF IsBlocked, Waits

LEMMA RuleNames ==
    ASSUME NEW text \in Seq(STRING), NEW pattern \in Seq(STRING), {pattern} # Absent
    PROVE  match_first_simple(<<ProcessRule(pattern)>>, {Waits(text)}) = 1 <=> Glob(text, pattern)
<1> DEFINE c == [type |-> "event", event_type |-> "process.state", entity_id_pattern |-> {pattern},
                 value_pattern |-> Absent, value_threshold |-> Absent]
           rs == <<ProcessRule(pattern)>>
           hits == {i \in DOMAIN rs : MatchesSimple(rs[i].conditions, {Waits(text)})}
<1>1. DOMAIN rs = {1} /\ rs[1].conditions = <<c>>
  <2>1. ProcessRule(pattern).conditions = <<c>>
    BY Zenon DEF ProcessRule
  <2>2. DOMAIN rs = {1} /\ rs[1] = ProcessRule(pattern)
    OBVIOUS
  <2> HIDE DEF rs
  <2> QED  BY <2>1, <2>2, Zenon
<1>2. EventMatches(c, Waits(text)) <=> matches_single_pattern(text, pattern)
  BY Zenon DEF EventMatches, Given, Waits, matches_pattern
<1>3. MatchesSimple(<<c>>, {Waits(text)}) <=> EventMatches(c, Waits(text))
  <2>1. DOMAIN <<c>> = {1} /\ <<c>>[1] = c /\ c.type = "event"
    OBVIOUS
  <2> HIDE DEF c
  <2> QED  BY <2>1, Zenon DEF MatchesSimple
<1>4. match_first_simple(rs, {Waits(text)}) = IF hits = {} THEN 0 ELSE Least(hits)
  BY Zenon DEF match_first_simple
<1>5. hits = IF Glob(text, pattern) THEN {1} ELSE {}
  <2>1. MatchesSimple(rs[1].conditions, {Waits(text)}) <=> Glob(text, pattern)
    <3> HIDE DEF rs, c
    <3> QED  BY <1>1, <1>2, <1>3, PatternsMeanGlob, Zenon
  <2> HIDE DEF rs
  <2> QED  BY <1>1, <2>1, Zenon
<1> HIDE DEF hits, rs
<1>6. Least({1}) = 1
  BY DEF Least
<1> QED  BY <1>4, <1>5, <1>6 DEF rs

LEMMA DiagnosisNames ==
    ASSUME NEW text \in Texts, NEW pattern \in PatternTexts, run_diagnosis(text, pattern)
    PROVE  PatternIsGlob'
<1>1. text \in Seq(STRING) /\ pattern \in Seq(STRING) /\ {pattern} # Absent
  BY DiagnosisConstants, Zenon
<1>2. \/ verdict' = [text |-> text, pattern |-> pattern,
                     rule |-> match_first_simple(<<ProcessRule(pattern)>>,
                                  extract_virtual_events_from_causes({}, {IsBlocked(text)}))]
      \/ phase' = "undiagnosed"
  BY Zenon DEF run_diagnosis, IsBlocked
<1>3. CASE phase' = "undiagnosed"
  <2>1. phase' # "diagnosed"
    BY <1>3
  <2> QED  BY <2>1, Zenon DEF PatternIsGlob
<1>4. CASE verdict' = [text |-> text, pattern |-> pattern,
                       rule |-> match_first_simple(<<ProcessRule(pattern)>>,
                                    extract_virtual_events_from_causes({}, {IsBlocked(text)}))]
  <2>1. verdict' = [text |-> text, pattern |-> pattern,
                    rule |-> match_first_simple(<<ProcessRule(pattern)>>, {Waits(text)})]
    BY <1>4, OneEvent, Zenon
  <2>2. verdict'.rule = 1 <=> Glob(text, pattern)
    BY <1>1, <2>1, RuleNames, Zenon
  <2>3. verdict'.text = text /\ verdict'.pattern = pattern
    BY <2>1, Zenon
  <2> QED  BY <2>2, <2>3, Zenon DEF PatternIsGlob
<1> QED  BY <1>2, <1>3, <1>4, Zenon

\* `ark diagnose' names the rule exactly when its pattern, read as a wildcard
\* pattern, describes the process's id (Diagnosis!PatternIsGlob).
THEOREM PatternsNameProcesses == Spec => []PatternIsGlob
<1>1. Init => PatternIsGlob
  BY Zenon DEF Init, PatternIsGlob
<1>2. PatternIsGlob /\ [Next]_allVars => PatternIsGlob'
  <2> SUFFICES ASSUME PatternIsGlob, [Next]_allVars PROVE PatternIsGlob'
    OBVIOUS
  <2>1. ASSUME UNCHANGED <<phase, verdict>> PROVE PatternIsGlob'
    BY <2>1, Zenon DEF PatternIsGlob
  <2>2. CASE UNCHANGED allVars
    BY <2>1, <2>2, Zenon DEF allVars, diagVars
  <2>3. CASE Migrate
    BY <2>1, <2>3, Zenon DEF Migrate, diagVars
  <2>4. ASSUME NEW strict, Start(strict) PROVE PatternIsGlob'
    BY <2>4, Zenon DEF Start, PatternIsGlob
  <2>5. CASE GraphChanges \/ SignalChanges \/ Request
    BY <2>1, <2>5, Zenon DEF GraphChanges, SignalChanges, Request, BeginRequest, NextGroup, ReadEdges, ReadNodes,
                      EndRequest
  <2> QED  BY <2>2, <2>3, <2>4, <2>5, DiagnosisNames, Zenon DEF Next
<1> QED  BY <1>1, <1>2, PTL DEF Spec

=============================================================================
