----------------------------- MODULE RuleFiles -----------------------------
(***************************************************************************)
(* Rules on disk: how the engine loads a directory of them                 *)
(* (core/src/rules/mod.rs, rule.rs) and how the rules-migrate tool         *)
(* (core/src/bin/rules-migrate.rs) rewrites legacy ones, file after file,  *)
(* with writes that may fail half way.                                     *)
(*                                                                         *)
(* A file is what its YAML says that loading looks at. Its conditions      *)
(* (Matching) are a list, or a legacy mapping with `all', `any', both or   *)
(* neither, each a list or something stray, which the engine refuses and   *)
(* the tool, which reads any YAML, takes for nothing. Paths are numbers:   *)
(* 1..NumRules for the files that are there, path p + NumRules for the     *)
(* copy of p called <stem>.migrated.yaml. Packs have the names of their    *)
(* directories, and the directory that is migrated is called `rules',      *)
(* which is where infer_pack looks for a pack.                             *)
(***************************************************************************)
EXTENDS FiniteSets, Matching

CONSTANTS
    NumRules,       \* bound: files that are there before a migration
    Place,          \* per path: "root", "legacy", or the directory of a pack
    KnownPacks,     \* the pack directories that infer_pack knows
    Directories,    \* the directories that may be there to begin with
    MaxRuns,        \* bound: runs of the tool
    Stray,          \* an `all' or `any' that is there and no list
    Err             \* load_from_dir returned an error

Originals == 1..NumRules
Paths == 1..(2 * NumRules)

\* The place of a path among the sorted names: x.migrated.yaml before x.yaml.
Name(p) == IF p \in Originals THEN 2 * p ELSE 2 * (p - NumRules) - 1
FirstName(S) == CHOOSE p \in S : \A q \in S : Name(p) <= Name(q)

VARIABLES
    dir,            \* the rules directory: its manifest and its files
    out,            \* the directory given to --out-dir
    tool,           \* the running rules-migrate, if any
    runs,
    original,       \* history: dir before the first run
    torn            \* history: files left in pieces, files made a rule of that were
                    \* none, and what was made of them

fileVars == <<dir, out, tool, runs, original, torn>>

Empty == [p \in Paths |-> Absent]
\* Files that make no rule: no YAML mapping, a mapping that lacks something a
\* rule needs, and bytes that cannot be read as text.
Torn == [parses |-> FALSE]
Fragment == [parses |-> FALSE, yaml |-> "mapping"]
Unreadable == [parses |-> FALSE, yaml |-> "no text"]
Blank == <<>>           \* an id that is there and empty
Idle == [mode |-> "idle"]

FilesInit ==
    /\ dir \in Directories
    /\ out = [manifest |-> "none", files |-> Empty]
    /\ tool = Idle /\ runs = 0
    /\ original = dir /\ torn = {}

-----------------------------------------------------------------------------
(* load_from_dir. *)

\* The files of the enabled packs, and those of the root and of legacy/; a
\* directory without a manifest has no packs.
collect_rule_files(d) ==
    {p \in Paths : /\ d.files[p] # Absent
                   /\ IF Place[p] \in {"root", "legacy"} THEN d.manifest \in {"none", "ok"}
                                                         ELSE d.manifest \in {"ok", "no legacy"}}

\* `all' and `any' become one condition; both or neither is an error, and what
\* is no list does not even parse.
normalize(wire) ==
    IF wire.form = "list" THEN wire.list
    ELSE IF Stray \in {wire.all, wire.any} THEN Err
    ELSE IF wire.all # Absent /\ wire.any = Absent THEN <<[type |-> "all", conditions |-> wire.all]>>
    ELSE IF wire.all = Absent /\ wire.any # Absent THEN <<[type |-> "any", conditions |-> wire.any]>>
    ELSE Err

\* What serde makes of a file: nothing, or a rule; and what is loaded of a rule.
Words == {"legacy"} \union STRING      \* names of packs and scenes
Wires ==
    [form : {"list"}, list : Seq(Conditions)]
        \union [form : {"legacy"}, all : Seq(Conditions) \union {Absent, Stray},
                                   any : Seq(Conditions) \union {Absent, Stray}]
Files ==
    {Torn, Fragment, Unreadable} \union
                  [parses : {TRUE}, id : Seq(Words) \union {Absent}, scene : Words,
                   priority : Nat, conditions : Wires]
Rules == [id : Seq(Words), priority : Nat, conditions : Seq(Conditions)]

\* The conditions as the tool reads them (Value::as_sequence).
as_sequence(part) == IF part = Stray THEN Absent ELSE part
AsRead(wire) ==
    IF wire.form = "list" THEN wire
    ELSE [form |-> "legacy", all |-> as_sequence(wire.all), any |-> as_sequence(wire.any)]
HasStray(wire) == wire.form # "list" /\ Stray \in {wire.all, wire.any}

\* What is written as conditions are conditions, or an error.
Sensible(wire) ==
    LET read == AsRead(wire) IN
    \/ wire.form = "legacy" /\ (read.all = Absent <=> read.any = Absent)
    \/ normalize(read) \in Seq(Conditions)

\* A directory before any migration has no copies.
Listings == [manifest : {"none", "ok", "no legacy", "bad"}, files : [Paths -> Files \union {Absent}]]
Pristine(d) ==
    /\ d \in Listings
    /\ \A p \in Paths \ Originals : d.files[p] = Absent
    /\ \A p \in Originals :
           d.files[p] # Absent /\ d.files[p].parses => Sensible(d.files[p].conditions)

\* A copy lies where its original does, and "root" is no pack's name.
ASSUME RuleFilesConstants ==
    /\ NumRules \in Nat
    /\ Place \in [Paths -> Words] /\ \A p \in Originals : Place[p + NumRules] = Place[p]
    /\ "root" \notin KnownPacks
    /\ \A d \in Directories : Pristine(d)
    /\ Absent \notin Files \union Seq(Words)
    /\ Stray \notin Seq(Conditions) \union {Absent}
    /\ Err \notin Seq(Conditions) \union Seq(Rules)

Pack(p) == IF Place[p] \in {"root", "legacy"} THEN "legacy" ELSE Place[p]

\* The id of a rule without one is made of its pack and its scene.
final_id(p, f) == IF f.id = Absent THEN <<Pack(p), f.scene>> ELSE f.id

\* Files that do not parse and legacy conditions that make no sense are counted
\* and skipped; a blank id is skipped and not counted.
Skipped(d) ==
    {p \in collect_rule_files(d) : ~ d.files[p].parses \/ normalize(d.files[p].conditions) = Err}
Loadable(d) == {p \in collect_rule_files(d) \ Skipped(d) : d.files[p].id # Blank}

ByPriority(d, p, q) ==
    \/ d.files[p].priority > d.files[q].priority
    \/ d.files[p].priority = d.files[q].priority /\ Name(p) < Name(q)

\* The rules of some files, sorted by priority, equal ones as the files were:
\* the one at place i has i - 1 before it.
PathAt(d, ps, i) == CHOOSE p \in ps : Cardinality({q \in ps : ByPriority(d, q, p)}) = i - 1
RulesOf(d, ps) ==
    [i \in 1..Cardinality(ps) |->
        LET p == PathAt(d, ps, i)
            f == d.files[p] IN
        [id |-> final_id(p, f), priority |-> f.priority, conditions |-> normalize(f.conditions)]]

\* Two files with one id, a file that cannot be read, a manifest of another
\* version, and in strict mode a skipped file, make loading fail.
load_from_dir(d, strict) ==
    LET clash == \E p, q \in Loadable(d) :
                    p # q /\ final_id(p, d.files[p]) = final_id(q, d.files[q])
        unreadable == \E p \in collect_rule_files(d) : d.files[p] = Unreadable IN
    IF d.manifest = "bad" \/ clash \/ unreadable \/ (strict /\ Skipped(d) # {}) THEN Err
    ELSE RulesOf(d, Loadable(d))

-----------------------------------------------------------------------------
(* rules-migrate. *)

supports_condition(condition) ==
    LET supported[c \in Conditions] ==
            \/ c.type \in {"event", "graph", "metric"}
            \/ c.type \in {"all", "any"} /\ \A i \in DOMAIN c.conditions : supported[c.conditions[i]] IN
    supported[condition]

AllSupported(cs) == \A i \in DOMAIN cs : supports_condition(cs[i])

infer_pack(p) == IF Place[p] \in KnownPacks THEN Place[p] ELSE "legacy"

ensure_rule_id(p, f) ==
    [f EXCEPT !.id = IF f.id = Absent THEN <<infer_pack(p), f.scene>> ELSE f.id]

AsList(cs) == [form |-> "list", list |-> cs]

\* Mutant: `any' becomes the list itself, as `all' does.
migrate_rule_value_AnyAsAll(p, f) ==
    LET w == AsRead(f.conditions) IN
    [ensure_rule_id(p, f) EXCEPT !.conditions =
        IF w.form = "list" THEN w
        ELSE IF w.all # Absent /\ w.any = Absent /\ AllSupported(w.all) THEN AsList(w.all)
        ELSE IF w.all = Absent /\ w.any # Absent /\ AllSupported(w.any) THEN AsList(w.any)
        ELSE f.conditions]

\* `all' becomes the list itself, `any' a list of one condition; a rule with an
\* unsupported condition, or with both, keeps its conditions and is marked as
\* incomplete, which loading does not look at.
migrate_rule_value(p, f) ==
    LET w == AsRead(f.conditions) IN
    [ensure_rule_id(p, f) EXCEPT !.conditions =
        IF w.form = "list" THEN w
        ELSE IF w.all # Absent /\ w.any = Absent /\ AllSupported(w.all) THEN AsList(w.all)
        ELSE IF w.all = Absent /\ w.any # Absent /\ AllSupported(w.any)
        THEN AsList(<<[type |-> "any", conditions |-> w.any]>>)
        ELSE f.conditions]

\* The tool with its mode and its --filter-pack, if any. Bound: a second run
\* beside the files, which would copy the copies, is left out.
StartMigrate(mode, pack) ==
    /\ tool = Idle /\ runs < MaxRuns
    /\ mode = "beside" => \A p \in Paths \ Originals : dir.files[p] = Absent
    /\ runs' = runs + 1
    /\ tool' = [mode |-> mode, todo |-> {p \in Paths : /\ dir.files[p] # Absent
                                                      /\ pack \in {Absent, Place[p]}}]
    /\ UNCHANGED <<dir, out, original, torn>>

\* The file itself, the same name in the other directory, or a copy beside it.
output_path(p) == IF tool.mode = "beside" THEN p + NumRules ELSE p

Target == IF tool.mode = "out_dir" THEN "out" ELSE "dir"

\* What a failed write can leave of f, where old is the file it was made from:
\* no rule at all, or one with some of its conditions and without the id the
\* tool added, which comes last.
TornFiles(old, f) ==
    {Torn, Fragment, Unreadable} \union
        (IF ~ f.parses \/ f.conditions.form # "list" THEN {} ELSE
         {[f EXCEPT !.id = old.id, !.conditions = AsList(SubSeq(f.conditions.list, 1, k))] :
          k \in 1..Len(f.conditions.list)})

\* The file at p is no rule because of something stray in its conditions.
Strays(p) == dir.files[p].parses /\ HasStray(dir.files[p].conditions)

\* write_migrated, of the file p as f: the whole of it, or nothing or a part
\* and the tool ends.
write_migrated(p, f) ==
    LET to == output_path(p)
        put(x) == IF Target = "out"
                  THEN out' = [out EXCEPT !.files[to] = x] /\ UNCHANGED dir
                  ELSE dir' = [dir EXCEPT !.files[to] = x] /\ UNCHANGED out IN
    \/ /\ put(f)
       /\ tool' = [tool EXCEPT !.todo = @ \ {p}]
       /\ torn' = torn \union (IF <<"dir", p>> \in torn \/ Strays(p) THEN {<<Target, to>>} ELSE {})
    \/ /\ \E x \in TornFiles(dir.files[p], f) : put(x)
       /\ tool' = Idle /\ torn' = torn \union {<<Target, to>>}
    \/ UNCHANGED <<dir, out, torn>> /\ tool' = Idle

\* The next file in order. One that cannot be read ends the tool, as does any
\* file when reading it fails (the write that leaves nothing); one that is no
\* mapping is counted and left alone; and one that lacks something is written
\* with an id, and still lacks it.
MigrateFile ==
    /\ tool # Idle /\ tool.todo # {}
    /\ LET p == FirstName(tool.todo)
           f == dir.files[p] IN
       \/ f.parses /\ write_migrated(p, migrate_rule_value(p, f))
       \/ f = Fragment /\ write_migrated(p, f)
       \/ f = Torn /\ tool' = [tool EXCEPT !.todo = @ \ {p}] /\ UNCHANGED <<dir, out, torn>>
       \/ f = Unreadable /\ tool' = Idle /\ UNCHANGED <<dir, out, torn>>
    /\ UNCHANGED <<runs, original>>

MigrateEnds ==
    /\ tool # Idle /\ tool.todo = {}
    /\ tool' = Idle
    /\ UNCHANGED <<dir, out, runs, original, torn>>

FilesNext ==
    \/ \E mode \in {"in_place", "beside", "out_dir"} :
           \E pack \in {Absent} \union ({Place[p] : p \in Paths} \ {"root"}) : StartMigrate(mode, pack)
    \/ MigrateFile \/ MigrateEnds

=============================================================================
