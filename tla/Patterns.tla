------------------------------ MODULE Patterns ------------------------------
(***************************************************************************)
(* matches_single_pattern (core/src/rules/matcher.rs, and its copy in      *)
(* core/src/rules/mod.rs): a pattern with `*' against a text, both         *)
(* sequences of characters, and the meaning the wildcard is meant to have. *)
(***************************************************************************)
EXTENDS Naturals, Sequences, Functions

Star == "*"

Least(S) == CHOOSE i \in S : \A j \in S : i <= j

\* The parts of a pattern between its stars, without the empty ones: a part is
\* known by the place of its last character.
Parts(pattern) ==
    {i \in DOMAIN pattern : pattern[i] # Star /\ (i = Len(pattern) \/ pattern[i + 1] = Star)}
PartStart(pattern, i) == Least({s \in 1..i : \A k \in s..i : pattern[k] # Star})
Part(pattern, i) == SubSeq(pattern, PartStart(pattern, i), i)

\* text[cursor..].find(part): the places behind the cursor where part stands.
Found(text, cursor, part) ==
    {i \in cursor..(Len(text) - Len(part)) : SubSeq(text, i + 1, i + Len(part)) = part}

\* One turn of the loop, for the part that ends at place i of the pattern, if
\* one does: it is looked for behind the one before, and at the very start when
\* the pattern begins with it. The cursor goes behind it, or past the text,
\* where no other part will be found.
FindPart(text, pattern, i, cursor) ==
    LET start == IF PartStart(pattern, i) = 1 THEN {0} ELSE Nat
        found == Found(text, cursor, Part(pattern, i)) \intersect start IN
    IF i \notin Parts(pattern) THEN cursor
    ELSE IF found = {} THEN Len(text) + 1 ELSE Least(found) + Len(Part(pattern, i))

FindParts(text, pattern) ==
    LET cursor[i \in 0..Len(pattern)] ==
            IF i = 0 THEN 0 ELSE FindPart(text, pattern, i, cursor[i - 1]) IN
    cursor[Len(pattern)] <= Len(text)

EndsWith(text, part) == Len(text) - Len(part) \in Found(text, 0, part)

\* Mutant: the end of the text is not looked at.
matches_single_pattern_OpenEnd(text, pattern) ==
    IF Star \notin Range(pattern) THEN text = pattern ELSE FindParts(text, pattern)

\* The last part, when the pattern is anchored at its end, must also end the
\* text: not where it was found, but anywhere.
matches_single_pattern(text, pattern) ==
    IF Star \notin Range(pattern) THEN text = pattern
    ELSE /\ FindParts(text, pattern)
         /\ pattern[Len(pattern)] # Star => EndsWith(text, Part(pattern, Len(pattern)))

\* What a pattern means: the text can be cut into pieces, one for each place of
\* the pattern, any piece for a star and the character itself for another.
Glob(text, pattern) ==
    \E cut \in [0..Len(pattern) -> 0..Len(text)] :
        /\ cut[0] = 0 /\ cut[Len(pattern)] = Len(text)
        /\ \A i \in DOMAIN pattern :
               IF pattern[i] = Star THEN cut[i - 1] <= cut[i]
               ELSE cut[i] = cut[i - 1] + 1 /\ text[cut[i]] = pattern[i]

=============================================================================
