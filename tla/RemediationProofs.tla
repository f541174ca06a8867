------------------------- MODULE RemediationProofs -------------------------
(***************************************************************************)
(* Proofs about the controller, the operator loop and the execute guard,   *)
(* for any nodes, requests and remediations, any number of failing calls   *)
(* and restarts.                                                           *)
(***************************************************************************)
EXTENDS Remediation, FiniteSetTheorems, SequenceTheorems, TLAPS

\* Only Tick moves the clock.
LEMMA NowStep ==
    ASSUME [Next]_vars
    PROVE  now' = now \/ now' = now + 1
<1>1. ASSUME NEW c \in Callers, handle_irreversible_fault(c)
      PROVE  now' = now
  BY <1>1, Zenon DEF handle_irreversible_fault, Check, Taint, Evict, Record
<1>2. ASSUME NEW r \in Requests, Diagnose(r) \/ Request(r)
      PROVE  now' = now
  <2>1. CASE handle_irreversible_fault(r)
    BY <1>1, <2>1, Zenon DEF Callers
  <2>2. CASE ~ handle_irreversible_fault(r)
    BY <1>2, <2>2, Zenon
       DEF Request, Diagnose, Cancel, PolicyAndAcquire, Act, ActionsDone, Isolate, Respond
  <2> QED BY <2>1, <2>2, Zenon
<1>3. ASSUME Operator
      PROVE  now' = now
  BY <1>3, Zenon DEF Operator, List, Begin, execute_operator_action, OperatorEvict, Finish, Sleep
<1>4. ASSUME NEW f \in Faults, FaultDetected(f) \/ handle_irreversible_fault(f)
      PROVE  now' = now
  BY <1>1, <1>4, Zenon DEF FaultDetected, Callers
<1> QED
  BY <1>2, <1>3, <1>4, Zenon DEF Next, Create, Schedule, Tick, Restart, vars

-----------------------------------------------------------------------------
(* The diagnose requests. *)

Matching == [pc : {"matching"}, now_ts : Nat]
Acting == [pc : {"acting"}, now_ts : Nat, degraded : BOOLEAN, todo : Seq(Nodes), procs : Seq(Nodes)]
Isolating == [pc : {"isolating"}, left : Seq(Nodes) \ {<<>>}]
Waiting == [pc : {"waiting"}]

DiagTypes ==
    /\ diag \in [Requests -> {Idle} \union Matching \union Acting \union Isolating \union Waiting]
    /\ now \in Nat

LEMMA StateOf ==
    ASSUME DiagTypes, NEW r \in Requests
    PROVE  /\ diag[r].pc = "matching" => diag[r] \in Matching
           /\ diag[r].pc = "acting" => diag[r] \in Acting
           /\ diag[r].pc = "isolating" => diag[r] \in Isolating
BY DEF DiagTypes, Idle, Matching, Acting, Isolating, Waiting

LEMMA JobsAreSeqs == Jobs \subseteq Seq(Nodes)
BY RemediationConstants, SeqDef DEF Jobs

LEMMA ShortTail ==
    ASSUME NEW S, NEW s \in Seq(S), s # <<>>, Len(s) # 1
    PROVE  Tail(s) \in Seq(S) \ {<<>>}
<1>1. Tail(s) \in Seq(S) /\ Len(Tail(s)) = Len(s) - 1 /\ Len(s) \in Nat \ {0}
  BY HeadTailProperties, EmptySeq, Zenon
<1>2. Len(Tail(s)) # 0
  BY <1>1
<1> QED BY <1>1, <1>2, EmptySeq, Zenon

LEMMA AfterActionsTyped ==
    ASSUME NEW d, d.procs \in Seq(Nodes)
    PROVE  AfterActions(d) \in {Idle} \union Isolating /\ AfterActions(d).pc # "acting"
BY Zenon DEF AfterActions, Idle, Isolating

LEMMA DiagTyped == Spec => []DiagTypes
<1>1. Init => DiagTypes
  BY SMTT(30) DEF Init, DiagTypes
<1>2. ASSUME DiagTypes, [Next]_vars
      PROVE  DiagTypes'
  <2>1. now' \in Nat
    BY <1>2, NowStep DEF DiagTypes
  <2>2. ASSUME NEW r \in Requests, Diagnose(r)
        PROVE  DiagTypes'
    BY <1>2, <2>1, <2>2, Zenon DEF DiagTypes, Diagnose, Matching
  <2>3. ASSUME NEW r \in Requests, PolicyAndAcquire(r)
        PROVE  DiagTypes'
    <3>1. diag[r].now_ts \in Nat
      BY <1>2, <2>3, StateOf, Zenon DEF PolicyAndAcquire, Matching
    <3>2. PICK procs \in Jobs, degraded \in BOOLEAN :
            LET d == [pc |-> "acting", now_ts |-> diag[r].now_ts, degraded |-> degraded,
                      todo |-> SubSeq(procs, 1, IF Len(procs) < max_actions THEN Len(procs)
                                                ELSE max_actions),
                      procs |-> IF degraded THEN procs ELSE <<>>] IN
            diag' = [diag EXCEPT ![r] = d] \/ diag' = [diag EXCEPT ![r] = AfterActions(d)]
      BY <2>3, Zenon DEF PolicyAndAcquire
    <3> DEFINE cut == IF Len(procs) < max_actions THEN Len(procs) ELSE max_actions
               d == [pc |-> "acting", now_ts |-> diag[r].now_ts, degraded |-> degraded,
                     todo |-> SubSeq(procs, 1, cut),
                     procs |-> IF degraded THEN procs ELSE <<>>]
    <3>3. procs \in Seq(Nodes)
      BY JobsAreSeqs, Zenon
    <3>4. SubSeq(procs, 1, cut) \in Seq(Nodes)
      <4>1. cut \in Int /\ \A i \in 1..cut : procs[i] \in Nodes
        BY <3>3, RemediationConstants, ElementOfSeq
      <4> QED BY <4>1, SubSeqProperties
    <3>5. d \in Acting /\ d.procs \in Seq(Nodes)
      BY <3>1, <3>3, <3>4 DEF Acting
    <3>6. AfterActions(d) \in {Idle} \union Isolating
      BY <3>5, AfterActionsTyped, Zenon
    <3>7. diag' = [diag EXCEPT ![r] = d] \/ diag' = [diag EXCEPT ![r] = AfterActions(d)]
      BY <3>2, Zenon
    <3> HIDE DEF d
    <3> QED BY <1>2, <2>1, <3>5, <3>6, <3>7, Zenon DEF DiagTypes
  <2>4. ASSUME NEW r \in Requests, Act(r)
        PROVE  DiagTypes'
    <3>1. diag[r] \in Acting /\ diag[r].todo \in Seq(Nodes) /\ diag[r].todo # <<>>
      BY <1>2, <2>4, StateOf, Zenon DEF Act, Acting
    <3>2. Tail(diag[r].todo) \in Seq(Nodes)
      BY <3>1, HeadTailProperties, Zenon
    <3>3. [diag[r] EXCEPT !.todo = Tail(@)] \in Acting
      BY <3>1, <3>2, Zenon DEF Acting
    <3>4. diag' = [diag EXCEPT ![r] = [diag[r] EXCEPT !.todo = Tail(@)]]
      BY <2>4, Zenon DEF Act
    <3> QED BY <1>2, <2>1, <3>3, <3>4, Zenon DEF DiagTypes
  <2>5. ASSUME NEW r \in Requests, ActionsDone(r)
        PROVE  DiagTypes'
    <3>1. AfterActions(diag[r]) \in {Idle} \union Isolating
      BY <1>2, <2>5, StateOf, AfterActionsTyped, Zenon DEF ActionsDone, Acting
    <3> QED BY <1>2, <2>1, <2>5, <3>1, Zenon DEF DiagTypes, ActionsDone
  <2>6. ASSUME NEW r \in Requests, Isolate(r)
        PROVE  DiagTypes'
    <3>1. diag[r] \in Isolating /\ diag[r].left \in Seq(Nodes) /\ diag[r].left # <<>>
      BY <1>2, <2>6, StateOf, Zenon DEF Isolate, Isolating
    <3>2. Len(diag[r].left) # 1 => Tail(diag[r].left) \in Seq(Nodes) \ {<<>>}
      BY <3>1, ShortTail, Zenon
    <3>3. Len(diag[r].left) # 1 => [pc |-> "isolating", left |-> Tail(diag[r].left)] \in Isolating
      BY <3>1, <3>2, Zenon DEF Isolating
    <3>4. [pc |-> "waiting"] \in Waiting
      BY Zenon DEF Waiting
    <3>5. \/ diag' = [diag EXCEPT ![r] = [pc |-> "waiting"]]
          \/ /\ Len(diag[r].left) # 1
             /\ diag' = [diag EXCEPT ![r] = [pc |-> "isolating", left |-> Tail(diag[r].left)]]
      <4>1. CASE Len(diag[r].left) = 1
        BY <2>6, <4>1, Zenon DEF Isolate
      <4>2. CASE Len(diag[r].left) # 1
        BY <2>6, <4>2, Zenon DEF Isolate
      <4> QED BY <4>1, <4>2, Zenon
    <3> QED BY <1>2, <2>1, <3>3, <3>4, <3>5, Zenon DEF DiagTypes
  <2>7. ASSUME NEW r \in Requests, Respond(r) \/ Cancel(r)
        PROVE  DiagTypes'
    BY <1>2, <2>1, <2>7, Zenon DEF DiagTypes, Respond, Cancel
  <2>8. CASE Restart
    BY <1>2, <2>1, <2>8, Zenon DEF DiagTypes, Restart
  <2>9. CASE UNCHANGED diag
    BY <1>2, <2>1, <2>9, Zenon DEF DiagTypes
  <2> QED
    BY <1>2, <2>2, <2>3, <2>4, <2>5, <2>6, <2>7, <2>8, <2>9, Zenon DEF Next, Request,
       handle_irreversible_fault, Check, Taint, Evict, Record, FaultDetected, Create, Schedule,
       Operator, List, Begin, execute_operator_action, OperatorEvict, Finish, Sleep, Tick,
       vars, guard
<1> QED BY <1>1, <1>2, PTL DEF Spec

-----------------------------------------------------------------------------
(* The operator loop. *)

Specs == [kind : SpecKinds, node : Nodes]
Phases == {"Pending", "Running", "Succeeded", "Failed"}
Listing == [pc : {"list"}]
Choosing == [pc : {"next"}, todo : SUBSET Remediations]
Executing == [pc : {"execute"}, todo : SUBSET Remediations, cur : Remediations]
Finishing == [pc : {"evict", "finish"}, todo : SUBSET Remediations, cur : Remediations,
              result : {"Succeeded", "Failed"}]

OperatorTypes ==
    /\ spec \in [Remediations -> Specs \union {Never}]
    /\ phase \in [Remediations -> Phases]
    /\ op \in Listing \union Choosing \union Executing \union Finishing
    /\ runs \in [Remediations -> [all : Nat, unmarked : Nat]]

\* The requests a poll has yet to take up are still Pending, ...
TodoPending ==
    op.pc # "list" => \A o \in op.todo : spec[o] # Never /\ phase[o] = "Pending"

\* ... the one in hand is none of them, ...
InHand ==
    op.pc \in {"execute", "evict", "finish"} => op.cur \notin op.todo /\ spec[op.cur] # Never

\* ... its node is tainted before the pods go, and the result it is about to
\* report is true.
ResultTrue ==
    /\ op.pc = "evict" => spec[op.cur].kind = "taint_evict" /\ spec[op.cur].node \in tainted
    /\ op.pc = "finish" /\ op.result = "Succeeded" => Carried(op.cur)

\* A request without a phase has only runs whose Running was not written.
PendingUnmarked ==
    \A o \in Remediations :
        /\ spec[o] = Never => phase[o] = "Pending"
        /\ phase[o] = "Pending" => runs[o].all = runs[o].unmarked

OperatorInv ==
    /\ OperatorTypes /\ TodoPending /\ InHand /\ ResultTrue /\ PendingUnmarked
    /\ SucceededIsTrue /\ RunsOnce

\* No step of the others removes a taint, and pods come only to nodes without.
ClusterKeeps ==
    /\ tainted \subseteq tainted' /\ refused' = refused
    /\ \A n \in occupied' : n \in occupied \/ n \notin tainted

LEMMA CarriedStays ==
    ASSUME ClusterKeeps, spec' = spec, NEW o, Carried(o)
    PROVE  Carried(o)'
BY Zenon DEF ClusterKeeps, Carried

LEMMA OperatorIdle ==
    ASSUME OperatorInv, UNCHANGED <<spec, phase, op, runs>>, ClusterKeeps
    PROVE  OperatorInv'
<1> USE DEF OperatorInv
<1>1. OperatorTypes' /\ TodoPending' /\ InHand' /\ PendingUnmarked' /\ RunsOnce'
  BY Zenon DEF OperatorTypes, TodoPending, InHand, PendingUnmarked, RunsOnce
<1>2. ResultTrue'
  BY CarriedStays, Zenon DEF ResultTrue, ClusterKeeps
<1>3. SucceededIsTrue'
  BY CarriedStays, Zenon DEF SucceededIsTrue
<1> QED BY <1>1, <1>2, <1>3, Zenon

\* A step that leaves the cluster alone.
LEMMA ClusterStays == UNCHANGED cluster => ClusterKeeps
BY Zenon DEF cluster, ClusterKeeps

LEMMA OpShape ==
    ASSUME OperatorTypes
    PROVE  /\ op.pc = "next" => op \in Choosing
           /\ op.pc = "execute" => op \in Executing
           /\ op.pc \in {"evict", "finish"} => op \in Finishing
BY Zenon DEF OperatorTypes, Listing, Choosing, Executing, Finishing

LEMMA CreateKeeps ==
    ASSUME OperatorInv, NEW o \in Remediations, Create(o)
    PROVE  OperatorInv'
<1> USE DEF OperatorInv
<1>1. PICK s \in Specs : spec' = [spec EXCEPT ![o] = s]
  BY RemediationConstants, Zenon DEF Create, Specs
<1>2. UNCHANGED <<phase, op, runs, tainted, occupied, refused>> /\ spec[o] = Never
  BY Zenon DEF Create, cluster
<1>3. OperatorTypes'
  BY <1>1, <1>2, Zenon DEF OperatorTypes
<1>4. TodoPending'
  <2> SUFFICES ASSUME op.pc # "list", NEW p \in op.todo
               PROVE  spec'[p] # Never /\ phase[p] = "Pending"
    BY <1>2, Zenon DEF TodoPending
  <2>1. p \in Remediations
    BY Zenon DEF OperatorTypes, Listing, Choosing, Executing, Finishing
  <2> QED BY <1>1, <1>2, <2>1, Zenon DEF TodoPending, OperatorTypes
<1>5. InHand' /\ ResultTrue'
  <2>1. CASE op.pc \in {"execute", "evict", "finish"}
    <3>1. op.cur \in Remediations /\ op.cur # o
      BY <1>2, <2>1, OpShape, Zenon DEF InHand, Executing, Finishing
    <3>2. spec'[op.cur] = spec[op.cur]
      BY <1>1, <3>1, Zenon DEF OperatorTypes
    <3> QED BY <1>2, <3>2, Zenon DEF InHand, ResultTrue, Carried
  <2>2. CASE op.pc \notin {"execute", "evict", "finish"}
    BY <1>2, <2>2, Zenon DEF InHand, ResultTrue
  <2> QED BY <2>1, <2>2, Zenon
<1>6. PendingUnmarked' /\ RunsOnce'
  BY <1>1, <1>2, Zenon DEF PendingUnmarked, RunsOnce, OperatorTypes
<1>7. SucceededIsTrue'
  <2> SUFFICES ASSUME NEW p \in Remediations, phase'[p] = "Succeeded" PROVE Carried(p)'
    BY Zenon DEF SucceededIsTrue
  <2>1. p # o /\ Carried(p)
    BY <1>2, Zenon DEF PendingUnmarked, SucceededIsTrue
  <2>2. spec'[p] = spec[p]
    BY <1>1, <2>1, Zenon DEF OperatorTypes
  <2> QED BY <1>2, <2>1, <2>2, Zenon DEF Carried
<1> QED BY <1>3, <1>4, <1>5, <1>6, <1>7, Zenon

\* What a poll, a marking, an execution and a report do to the operator.
LEMMA OperatorKeeps ==
    ASSUME OperatorInv, Operator
    PROVE  OperatorInv'
<1> USE DEF OperatorInv
<1>1. CASE List
  <2>1. UNCHANGED <<spec, phase, runs>> /\ ClusterKeeps
    BY <1>1, ClusterStays, Zenon DEF List
  <2>2. CASE op' = op
    BY <2>1, <2>2, OperatorIdle, Zenon
  <2>3. CASE op' # op
    <3>0. PICK listed \in SUBSET Remediations :
             /\ Page(listed)
             /\ op' = [pc |-> "next", todo |->
                          {o \in listed : phase[o] \notin {"Succeeded", "Failed", "Running"}}]
      BY <1>1, <2>3, Zenon DEF List
    <3> DEFINE todo == {o \in listed : phase[o] \notin {"Succeeded", "Failed", "Running"}}
    <3>1. op' = [pc |-> "next", todo |-> todo]
      BY <3>0, Zenon
    <3>2. \A o \in todo : spec[o] # Never /\ phase[o] = "Pending"
      BY <3>0, Zenon DEF OperatorTypes, Phases, Page
    <3>3. OperatorTypes'
      BY <2>1, <3>1, Zenon DEF OperatorTypes, Choosing
    <3>4. TodoPending' /\ InHand' /\ ResultTrue'
      BY <2>1, <3>1, <3>2, Zenon DEF TodoPending, InHand, ResultTrue
    <3>5. PendingUnmarked' /\ SucceededIsTrue' /\ RunsOnce'
      BY <2>1, CarriedStays, Zenon DEF PendingUnmarked, SucceededIsTrue, RunsOnce
    <3> QED BY <3>3, <3>4, <3>5, Zenon
  <2> QED BY <2>2, <2>3, Zenon
<1>2. CASE Begin
  <2>1. PICK o \in Remediations :
          /\ op.pc = "next" /\ o \in op.todo
          /\ IF spec[o].kind \in {"no spec", "no node"}
             THEN /\ patch_request_status(o, "Failed")
                  /\ op' = [op EXCEPT !.todo = @ \ {o}]
                  /\ UNCHANGED runs
             ELSE /\ patch_request_status(o, "Running")
                  /\ op' = [pc |-> "execute", todo |-> op.todo \ {o}, cur |-> o]
                  /\ runs' = [runs EXCEPT ![o] = [all |-> @.all + 1, unmarked |->
                                   IF phase'[o] = "Running" THEN @.unmarked ELSE @.unmarked + 1]]
    BY <1>2, Zenon DEF Begin
  <2>2. spec' = spec /\ ClusterKeeps
    BY <1>2, ClusterStays, Zenon DEF Begin
  <2>3. op \in Choosing /\ spec[o] # Never /\ phase[o] = "Pending"
    BY <2>1, OpShape, Zenon DEF TodoPending
  <2>4. runs[o] \in [all : Nat, unmarked : Nat] /\ runs[o].all = runs[o].unmarked
    BY <2>3, Zenon DEF PendingUnmarked, OperatorTypes
  <2>5. \/ phase' = phase
        \/ phase' = [phase EXCEPT ![o] = "Failed"] \/ phase' = [phase EXCEPT ![o] = "Running"]
    BY <2>1, Zenon DEF patch_request_status
  <2>6. /\ phase' \in [Remediations -> Phases]
        /\ \A p \in Remediations \ {o} : phase'[p] = phase[p]
        /\ phase'[o] \in {"Pending", "Failed", "Running"}
    BY <2>3, <2>5, Zenon DEF OperatorTypes, Phases
  <2>7. /\ op' \in Choosing \union Executing /\ op'.todo = op.todo \ {o}
        /\ op'.pc \in {"next", "execute"} /\ (op'.pc = "execute" => op'.cur = o)
    <3>1. CASE spec[o].kind \in {"no spec", "no node"}
      BY <2>1, <2>3, <3>1, Zenon DEF Choosing
    <3>2. CASE spec[o].kind \notin {"no spec", "no node"}
      <4>1. op' = [pc |-> "execute", todo |-> op.todo \ {o}, cur |-> o]
        BY <2>1, <3>2, Zenon
      <4>2. op.todo \ {o} \subseteq Remediations
        BY <2>3, Zenon DEF Choosing
      <4>3. op' \in Executing
        BY <4>1, <4>2, Zenon DEF Executing
      <4> QED BY <4>1, <4>3, Zenon
    <3> QED BY <3>1, <3>2, Zenon
  <2>8. /\ runs' \in [Remediations -> [all : Nat, unmarked : Nat]]
        /\ \A p \in Remediations \ {o} : runs'[p] = runs[p]
        /\ runs'[o].all - runs'[o].unmarked <= 1
        /\ phase'[o] = "Pending" => runs'[o].all = runs'[o].unmarked
    <3>1. CASE runs' = runs
      BY <2>4, <3>1 DEF OperatorTypes
    <3>2. CASE runs' # runs
      <4>1. \E u \in Nat :
               /\ runs' = [runs EXCEPT ![o] = [all |-> runs[o].all + 1, unmarked |-> u]]
               /\ IF phase'[o] = "Running" THEN u = runs[o].unmarked ELSE u = runs[o].unmarked + 1
        <5> DEFINE v == IF phase'[o] = "Running" THEN runs[o].unmarked ELSE runs[o].unmarked + 1
        <5>1. runs' = [runs EXCEPT ![o] = [all |-> runs[o].all + 1, unmarked |-> v]]
          BY <2>1, <3>2, Zenon
        <5>2. v \in Nat
          BY <2>4
        <5> WITNESS v \in Nat
        <5> QED BY <5>1, Zenon
      <4> QED BY <2>4, <4>1 DEF OperatorTypes
    <3> QED BY <3>1, <3>2, Zenon
  <2>9. OperatorTypes'
    BY <2>2, <2>6, <2>7, <2>8, Zenon DEF OperatorTypes
  <2>10. TodoPending'
    BY <2>1, <2>2, <2>3, <2>6, <2>7, Zenon DEF TodoPending, Choosing
  <2>11. InHand' /\ ResultTrue'
    BY <2>2, <2>3, <2>7, Zenon DEF InHand, ResultTrue
  <2>12. PendingUnmarked'
    BY <2>2, <2>3, <2>6, <2>8, Zenon DEF PendingUnmarked
  <2>13. SucceededIsTrue'
    BY <2>2, <2>6, CarriedStays, Zenon DEF SucceededIsTrue
  <2>14. RunsOnce'
    BY <2>8, Zenon DEF RunsOnce
  <2> QED BY <2>9, <2>10, <2>11, <2>12, <2>13, <2>14, Zenon
<1>3. CASE execute_operator_action
  <2>1. op \in Executing /\ op.cur \in Remediations /\ spec[op.cur] # Never /\ op.cur \notin op.todo
    BY <1>3, OpShape, Zenon DEF execute_operator_action, InHand, Executing
  <2>2. UNCHANGED <<spec, phase, runs>> /\ op.pc = "execute"
    BY <1>3, Zenon DEF execute_operator_action
  <2>3. /\ ClusterKeeps
        /\ \E pc \in {"evict", "finish"}, result \in {"Succeeded", "Failed"} :
              /\ op' = [pc |-> pc, todo |-> op.todo, cur |-> op.cur, result |-> result]
              /\ pc = "evict" => spec[op.cur].kind = "taint_evict" /\ spec[op.cur].node \in tainted'
              /\ pc = "finish" /\ result = "Succeeded"
                    => \/ spec[op.cur].kind = "dry run"
                       \/ spec[op.cur].kind = "taint_only" /\ spec[op.cur].node \in tainted'
    <3>1. ClusterKeeps
      BY <1>3, Zenon DEF execute_operator_action, ClusterKeeps
    <3>2. CASE spec[op.cur].kind \in {"dry run", "unsupported"}
      BY <1>3, <3>1, <3>2 DEF execute_operator_action
    <3>3. CASE spec[op.cur].kind = "taint_only"
      BY <1>3, <3>1, <3>3 DEF execute_operator_action
    <3>4. CASE spec[op.cur].kind = "taint_evict"
      BY <1>3, <3>1, <3>4 DEF execute_operator_action
    <3> QED BY <1>3, <3>2, <3>3, <3>4, Zenon DEF execute_operator_action
  <2>4. /\ op' \in Finishing /\ op'.todo = op.todo /\ op'.cur = op.cur
        /\ op'.pc \in {"evict", "finish"}
        /\ op'.pc = "evict" => spec[op.cur].kind = "taint_evict" /\ spec[op.cur].node \in tainted'
        /\ op'.pc = "finish" /\ op'.result = "Succeeded"
              => \/ spec[op.cur].kind = "dry run"
                 \/ spec[op.cur].kind = "taint_only" /\ spec[op.cur].node \in tainted'
    <3>1. PICK pc \in {"evict", "finish"}, result \in {"Succeeded", "Failed"} :
              /\ op' = [pc |-> pc, todo |-> op.todo, cur |-> op.cur, result |-> result]
              /\ pc = "evict" => spec[op.cur].kind = "taint_evict" /\ spec[op.cur].node \in tainted'
              /\ pc = "finish" /\ result = "Succeeded"
                    => \/ spec[op.cur].kind = "dry run"
                       \/ spec[op.cur].kind = "taint_only" /\ spec[op.cur].node \in tainted'
      BY <2>3, Zenon
    <3>2. op' \in Finishing
      BY <2>1, <3>1, Zenon DEF Executing, Finishing
    <3>3. op'.pc = pc /\ op'.result = result /\ op'.todo = op.todo /\ op'.cur = op.cur
      BY <3>1, Zenon
    <3> QED BY <3>1, <3>2, <3>3, Zenon
  <2>5. OperatorTypes'
    BY <2>2, <2>4, Zenon DEF OperatorTypes
  <2>6. TodoPending' /\ InHand'
    BY <2>1, <2>2, <2>4, Zenon DEF TodoPending, InHand
  <2>7. ResultTrue'
    BY <2>2, <2>4, Zenon DEF ResultTrue, Carried
  <2>8. PendingUnmarked' /\ SucceededIsTrue' /\ RunsOnce'
    BY <2>2, <2>3, CarriedStays, Zenon DEF PendingUnmarked, SucceededIsTrue, RunsOnce
  <2> QED BY <2>5, <2>6, <2>7, <2>8, Zenon
<1>4. CASE OperatorEvict
  <2>1. UNCHANGED <<spec, phase, runs, tainted>> /\ op \in Finishing /\ op.pc = "evict"
    BY <1>4, OpShape, Zenon DEF OperatorEvict
  <2>2. /\ op' \in Finishing /\ op'.todo = op.todo /\ op'.cur = op.cur /\ op'.pc = "finish"
        /\ op'.result \in {op.result, "Failed"}
    BY <1>4, <2>1, Zenon DEF OperatorEvict, Finishing
  <2>3. OperatorTypes'
    BY <2>1, <2>2, Zenon DEF OperatorTypes
  <2>4. /\ occupied' \subseteq occupied
        /\ \A o : o # op.cur => (o \in refused' <=> o \in refused)
        /\ \/ op'.result = "Failed"
           \/ spec[op.cur].node \notin occupied' \/ op.cur \in refused'
    <3>1. CASE EvictsAll(spec[op.cur].node) /\ refused' = refused \ {op.cur}
      BY <3>1, Zenon DEF EvictsAll
    <3>2. CASE Refuses /\ refused' = refused \union {op.cur}
      BY <3>2, Zenon DEF Refuses
    <3>3. CASE UNCHANGED <<occupied, refused>> /\ op' = [op EXCEPT !.pc = "finish", !.result = "Failed"]
      BY <2>1, <3>3, Zenon DEF Finishing
    <3> QED BY <1>4, <3>1, <3>2, <3>3, Zenon DEF OperatorEvict
  <2>5. TodoPending' /\ InHand'
    BY <2>1, <2>2, Zenon DEF TodoPending, InHand
  <2>6. ResultTrue'
    BY <2>1, <2>2, <2>4, Zenon DEF ResultTrue, Carried
  <2>7. PendingUnmarked' /\ RunsOnce'
    BY <2>1, Zenon DEF PendingUnmarked, RunsOnce
  <2>8. SucceededIsTrue'
    <3> SUFFICES ASSUME NEW o \in Remediations, phase[o] = "Succeeded" PROVE Carried(o)'
      BY <2>1, Zenon DEF SucceededIsTrue
    <3>1. Carried(o)
      BY Zenon DEF SucceededIsTrue
    <3>2. o # op.cur \/ spec[o].node \notin occupied' \/ o \in refused'
      <4>1. CASE op.cur = o /\ op'.result = "Failed" /\ o \notin refused' /\ spec[o].node \in occupied'
        <5>1. UNCHANGED <<occupied, refused>>
          BY <1>4, <4>1, Zenon DEF OperatorEvict, EvictsAll, Refuses
        <5> QED BY <2>1, <3>1, <4>1, <5>1, Zenon DEF Carried, ResultTrue
      <4> QED BY <2>4, <4>1, Zenon
    <3> QED BY <2>1, <2>4, <3>1, <3>2, Zenon DEF Carried
  <2> QED BY <2>3, <2>5, <2>6, <2>7, <2>8, Zenon
<1>5. CASE Finish
  <2>1. /\ UNCHANGED <<spec, runs>> /\ ClusterKeeps /\ op' = [pc |-> "next", todo |-> op.todo]
        /\ op \in Finishing /\ op.pc = "finish"
    BY <1>5, OpShape, ClusterStays, Zenon DEF Finish
  <2>2. /\ op.cur \in Remediations /\ op.cur \notin op.todo /\ spec[op.cur] # Never
        /\ op.result \in {"Succeeded", "Failed"} /\ op.todo \subseteq Remediations
    BY <2>1, Zenon DEF Finishing, InHand
  <2>3. phase' = phase \/ phase' = [phase EXCEPT ![op.cur] = op.result]
    BY <1>5, Zenon DEF Finish, patch_request_status
  <2>4. OperatorTypes'
    BY <2>1, <2>2, <2>3, Zenon DEF OperatorTypes, Choosing, Phases
  <2>5. TodoPending' /\ InHand' /\ ResultTrue'
    BY <2>1, <2>2, <2>3, Zenon DEF TodoPending, InHand, ResultTrue, OperatorTypes
  <2>6. PendingUnmarked' /\ RunsOnce'
    BY <2>1, <2>2, <2>3, Zenon DEF PendingUnmarked, RunsOnce, OperatorTypes
  <2>7. SucceededIsTrue'
    <3>1. \A o \in Remediations : phase'[o] = "Succeeded" => Carried(o)
      BY <2>1, <2>2, <2>3, Zenon DEF SucceededIsTrue, ResultTrue, OperatorTypes
    <3> QED BY <2>1, <3>1, CarriedStays, Zenon DEF SucceededIsTrue
  <2> QED BY <2>4, <2>5, <2>6, <2>7, Zenon
<1>6. CASE Sleep
  <2>1. UNCHANGED <<spec, phase, runs>> /\ ClusterKeeps /\ op' = Start
    BY <1>6, ClusterStays, Zenon DEF Sleep
  <2>2. OperatorTypes' /\ TodoPending' /\ InHand' /\ ResultTrue'
    BY <2>1, Zenon DEF Start, OperatorTypes, TodoPending, InHand, ResultTrue, Listing
  <2>3. PendingUnmarked' /\ SucceededIsTrue' /\ RunsOnce'
    BY <2>1, CarriedStays, Zenon DEF PendingUnmarked, SucceededIsTrue, RunsOnce
  <2> QED BY <2>2, <2>3, Zenon
<1> QED BY <1>1, <1>2, <1>3, <1>4, <1>5, <1>6, Zenon DEF Operator

LEMMA OperatorCorrect == Spec => []OperatorInv
<1>1. Init => OperatorInv
  BY DEF Init, OperatorInv, OperatorTypes, TodoPending, InHand, ResultTrue, PendingUnmarked,
     SucceededIsTrue, RunsOnce, Start, Listing, Phases
<1>2. ASSUME OperatorInv, [Next]_vars
      PROVE  OperatorInv'
  <2> USE <1>2
  <2>1. ASSUME NEW c \in Callers, handle_irreversible_fault(c)
        PROVE  UNCHANGED <<spec, phase, op, runs>> /\ ClusterKeeps
    BY <2>1, ClusterStays, Zenon DEF handle_irreversible_fault, Check, Taint, Evict, Record, operator,
       ClusterKeeps, EvictsAll, Refuses
  <2>2. ASSUME NEW r \in Requests, Diagnose(r) \/ Request(r)
        PROVE  OperatorInv'
    <3>1. CASE handle_irreversible_fault(r)
      BY <2>1, <3>1, OperatorIdle, Zenon DEF Callers
    <3>2. CASE ~ handle_irreversible_fault(r)
      <4>1. UNCHANGED <<spec, phase, op, runs>> /\ ClusterKeeps
        BY <2>2, <3>2, ClusterStays, Zenon DEF Request, Diagnose, Cancel, PolicyAndAcquire, Act, ActionsDone, Isolate,
           Respond, operator
      <4> QED BY <4>1, OperatorIdle, Zenon
    <3> QED BY <3>1, <3>2, Zenon
  <2>3. ASSUME NEW f \in Faults, FaultDetected(f) \/ handle_irreversible_fault(f)
        PROVE  OperatorInv'
    BY <2>1, <2>3, OperatorIdle, ClusterStays, Zenon DEF FaultDetected, Callers, operator
  <2>4. CASE Restart
    <3>1. UNCHANGED <<spec, phase, runs>> /\ ClusterKeeps /\ op' = Start
      BY <2>4, ClusterStays, Zenon DEF Restart
    <3>2. OperatorTypes' /\ TodoPending' /\ InHand' /\ ResultTrue'
      BY <3>1, Zenon DEF OperatorInv, Start, OperatorTypes, TodoPending, InHand, ResultTrue, Listing
    <3>3. PendingUnmarked' /\ SucceededIsTrue' /\ RunsOnce'
      BY <3>1, CarriedStays, Zenon DEF OperatorInv, PendingUnmarked, SucceededIsTrue, RunsOnce
    <3> QED BY <3>2, <3>3, Zenon DEF OperatorInv
  <2>5. CASE Tick \/ UNCHANGED vars
    BY <2>5, OperatorIdle, ClusterStays, Zenon DEF Tick, vars, operator
  <2>6. ASSUME NEW n \in Nodes, Schedule(n)
        PROVE  OperatorInv'
    BY <2>6, OperatorIdle, Zenon DEF Schedule, ClusterKeeps, operator
  <2> QED BY <2>2, <2>3, <2>4, <2>5, <2>6, OperatorKeeps, CreateKeeps, Zenon DEF Next
<1> QED BY <1>1, <1>2, PTL DEF Spec

\* A request that Succeeded has tainted its node, and a taint_evict that met no
\* refusal leaves no pod on it, whatever else fails, whoever else taints and
\* evicts, wherever pods are placed and whenever the hub restarts.
THEOREM PhasesTellTheTruth == Spec => []SucceededIsTrue
BY OperatorCorrect, PTL DEF OperatorInv

\* A request is executed a second time only when its Running was not written.
THEOREM ExecutedOnce == Spec => []RunsOnce
BY OperatorCorrect, PTL DEF OperatorInv

-----------------------------------------------------------------------------
(* The controller: taint, then evict, then record. *)

Calls == [pc : {"check", "taint", "evict", "record"}, node : Nodes]

ControllerTypes ==
    /\ ctl \in [Callers -> {Idle} \union Calls]
    /\ processed_nodes \in [Nodes -> Nat \union {Never}]
    /\ evicted_at \in [Nodes -> Nat \union {Never}]
    /\ tainted \subseteq Nodes /\ occupied \subseteq Nodes
    /\ now \in Nat

\* What a call has in hand: the taint stands before it evicts or records.
TaintedInHand ==
    \A c \in Callers : ctl[c].pc \in {"evict", "record"} => ctl[c].node \in tainted

ControllerInv == ControllerTypes /\ TaintedInHand /\ TaintFirst

\* Steps that leave the controller alone, or taint one more node.
LEMMA ControllerIdle ==
    ASSUME ControllerInv, UNCHANGED <<ctl, processed_nodes, evicted_at>>,
           tainted \subseteq tainted', tainted' \subseteq Nodes, occupied' \subseteq Nodes,
           now' \in Nat
    PROVE  ControllerInv'
BY Zenon DEF ControllerInv, ControllerTypes, TaintedInHand, TaintFirst

LEMMA CallKeepsTaints ==
    ASSUME ControllerInv, NEW c \in Callers, handle_irreversible_fault(c)
    PROVE  ControllerInv'
<1> USE DEF ControllerInv, ControllerTypes, TaintedInHand, TaintFirst
<1>1. CASE Check(c)
  <2>1. ctl[c] \in Calls /\ ctl[c].node \in Nodes
    BY <1>1 DEF Check, Idle, Calls
  <2>2. [ctl[c] EXCEPT !.pc = "taint"] \in Calls /\ [ctl[c] EXCEPT !.pc = "taint"].pc = "taint"
    BY <2>1, Zenon DEF Calls
  <2> QED BY <1>1, <2>2, Zenon DEF Check, Idle, cluster
<1>2. CASE Taint(c)
  <2>1. ctl[c] \in Calls /\ ctl[c].node \in Nodes
    BY <1>2 DEF Taint, Idle, Calls
  <2>2. /\ [ctl[c] EXCEPT !.pc = "evict"] \in Calls
        /\ [ctl[c] EXCEPT !.pc = "evict"].node = ctl[c].node
    BY <2>1, Zenon DEF Calls
  <2>3. UNCHANGED <<now, processed_nodes, evicted_at, occupied>>
    BY <1>2, Zenon DEF Taint
  <2>4. \/ ctl' = [ctl EXCEPT ![c] = Idle] /\ tainted' = tainted
        \/ /\ ctl' = [ctl EXCEPT ![c] = [ctl[c] EXCEPT !.pc = "evict"]]
           /\ tainted' = tainted \union {ctl[c].node}
    BY <1>2, Zenon DEF Taint
  <2>5. ControllerTypes'
    BY <2>1, <2>2, <2>3, <2>4, Zenon
  <2>6. TaintedInHand'
    <3> SUFFICES ASSUME NEW b \in Callers, ctl'[b].pc \in {"evict", "record"}
                 PROVE  ctl'[b].node \in tainted'
      OBVIOUS
    <3>1. CASE b # c
      <4>1. ctl'[b] = ctl[b] /\ tainted \subseteq tainted'
        BY <2>4, <3>1, Zenon
      <4> QED BY <4>1, Zenon
    <3>2. CASE b = c
      <4>1. \/ ctl'[c] = Idle
            \/ ctl'[c] = [ctl[c] EXCEPT !.pc = "evict"] /\ ctl[c].node \in tainted'
        BY <2>4, Zenon
      <4>2. CASE ctl'[c] = Idle
        BY <3>2, <4>2 DEF Idle
      <4>3. CASE ctl'[c] = [ctl[c] EXCEPT !.pc = "evict"] /\ ctl[c].node \in tainted'
        BY <2>2, <3>2, <4>3, Zenon
      <4> QED BY <4>1, <4>2, <4>3, Zenon
    <3> QED BY <3>1, <3>2, Zenon
  <2>7. TaintFirst'
    BY <2>3, <2>4, Zenon
  <2> QED BY <2>5, <2>6, <2>7, Zenon
<1>3. CASE Evict(c)
  <2>1. ctl[c] \in Calls /\ ctl[c].node \in tainted
    BY <1>3 DEF Evict, Idle, Calls
  <2>2. /\ [ctl[c] EXCEPT !.pc = "record"] \in Calls
        /\ [ctl[c] EXCEPT !.pc = "record"].node = ctl[c].node
    BY <2>1, Zenon DEF Calls
  <2>3. occupied' \subseteq Nodes
    BY <1>3, Zenon DEF Evict, EvictsAll, Refuses
  <2> QED BY <1>3, <2>1, <2>2, <2>3 DEF Evict
<1>4. CASE Record(c)
  <2>1. ctl[c] \in Calls /\ ctl[c].node \in tainted
    BY <1>4 DEF Record, Idle, Calls
  <2> QED BY <1>4, <2>1, Zenon DEF Record, Idle, cluster
<1> QED BY <1>1, <1>2, <1>3, <1>4, Zenon DEF handle_irreversible_fault

LEMMA ControllerCorrect == Spec => []ControllerInv
<1>1. Init => ControllerInv
  BY DEF Init, ControllerInv, ControllerTypes, TaintedInHand, TaintFirst, Idle
<1>2. ASSUME DiagTypes, OperatorInv, ControllerInv, [Next]_vars
      PROVE  ControllerInv'
  <2> USE <1>2
  <2>1. now' \in Nat
    BY NowStep DEF DiagTypes
  <2>2. ASSUME NEW c \in Callers, NEW n \in Nodes,
               ctl' = [ctl EXCEPT ![c] = [pc |-> "check", node |-> n]],
               UNCHANGED <<now, processed_nodes, evicted_at, tainted, occupied>>
        PROVE  ControllerInv'
    <3>1. [pc |-> "check", node |-> n] \in Calls
      BY Zenon DEF Calls
    <3> QED BY <2>2, <3>1, Zenon DEF ControllerInv, ControllerTypes, TaintedInHand, TaintFirst
  <2>3. ASSUME NEW r \in Requests, Diagnose(r) \/ Request(r)
        PROVE  ControllerInv'
    <3>1. CASE Isolate(r)
      <4>1. Head(diag[r].left) \in Nodes
        <5>1. diag[r].left \in Seq(Nodes) /\ diag[r].left # <<>>
          BY <3>1, StateOf, Zenon DEF Isolate, Isolating
        <5> QED BY <5>1, HeadTailProperties, Zenon
      <4> QED BY <2>2, <3>1, <4>1, Zenon DEF Isolate, Callers, cluster
    <3>2. CASE handle_irreversible_fault(r)
      BY <3>2, CallKeepsTaints, Zenon DEF Callers
    <3>3. CASE Diagnose(r) \/ PolicyAndAcquire(r) \/ Act(r) \/ ActionsDone(r) \/ Respond(r)
      <4>1. UNCHANGED <<ctl, processed_nodes, evicted_at, tainted, occupied>>
        BY <3>3, Zenon DEF Diagnose, PolicyAndAcquire, Act, ActionsDone, Respond, controller, cluster
      <4> QED BY <2>1, <4>1, ControllerIdle, Zenon DEF ControllerInv, ControllerTypes
    <3>4. CASE Cancel(r)
      BY <3>4, Zenon
         DEF Cancel, Callers, ControllerInv, ControllerTypes, TaintedInHand, TaintFirst, Idle, cluster
    <3> QED BY <2>3, <3>1, <3>2, <3>3, <3>4, Zenon DEF Request
  <2>4. ASSUME NEW f \in Faults, FaultDetected(f) \/ handle_irreversible_fault(f)
        PROVE  ControllerInv'
    BY <2>2, <2>4, CallKeepsTaints, Zenon DEF FaultDetected, Callers, cluster
  <2>5. CASE Operator
    <3>1. CASE execute_operator_action
      <4>1. spec[op.cur].node \in Nodes
        <5>1. op.cur \in Remediations /\ spec[op.cur] # Never
          BY <3>1, OpShape, Zenon DEF OperatorInv, execute_operator_action, InHand, Executing
        <5> QED BY <5>1, Zenon DEF OperatorInv, OperatorTypes, Specs
      <4>2. UNCHANGED <<ctl, processed_nodes, evicted_at, occupied>>
        BY <3>1, Zenon DEF execute_operator_action, controller
      <4>3. tainted' = tainted \/ tainted' = tainted \union {spec[op.cur].node}
        BY <3>1, Zenon DEF execute_operator_action
      <4> QED BY <2>1, <4>1, <4>2, <4>3, ControllerIdle, Zenon DEF ControllerInv, ControllerTypes
    <3>2. CASE ~ execute_operator_action
      <4>1. UNCHANGED <<ctl, processed_nodes, evicted_at, tainted>> /\ occupied' \subseteq occupied
        BY <2>5, <3>2, Zenon DEF Operator, List, Begin, OperatorEvict, EvictsAll, Refuses, Finish, Sleep,
           controller, cluster
      <4> QED BY <2>1, <4>1, ControllerIdle, Zenon DEF ControllerInv, ControllerTypes
    <3> QED BY <3>1, <3>2, Zenon
  <2>6. CASE Restart
    BY <2>6, Zenon DEF Restart, ControllerInv, ControllerTypes, TaintedInHand, TaintFirst, Idle, cluster
  <2>7. CASE Tick \/ (\E o \in Remediations : Create(o)) \/ UNCHANGED vars
           \/ (\E n \in Nodes : Schedule(n))
    <3>1. UNCHANGED <<ctl, processed_nodes, evicted_at, tainted>> /\ occupied' \subseteq Nodes
      BY <2>7, Zenon DEF Tick, Create, Schedule, vars, controller, cluster, ControllerInv, ControllerTypes
    <3> QED BY <2>1, <3>1, ControllerIdle, Zenon DEF ControllerInv, ControllerTypes
  <2> QED BY <2>3, <2>4, <2>5, <2>6, <2>7, Zenon DEF Next
<1> QED BY <1>1, <1>2, DiagTyped, OperatorCorrect, PTL DEF Spec

\* No pod is evicted from a node that is not tainted, and no node is recorded
\* as processed without its taint.
THEOREM TaintsComeFirst == Spec => []TaintFirst
BY ControllerCorrect, PTL DEF ControllerInv

-----------------------------------------------------------------------------
(* The execute guard. *)

Active == {r \in Requests : diag[r].pc = "acting"}

LEMMA ActiveFinite ==
    IsFiniteSet(Active) /\ Cardinality(Active) \in Nat
<1>1. IsFiniteSet(Active)
  BY RemediationConstants, FS_Subset, Zenon DEF Active
<1> QED BY <1>1, FS_CardinalityType, Zenon

\* What a step of a request does to the permits and the requests that act.
LEMMA PermitStep ==
    ASSUME DiagTypes, [Next]_vars
    PROVE  \/ permits' = permits /\ Active' = Active
           \/ \E r \in Requests \ Active : permits > 0 /\ permits' = permits - 1
                                           /\ Active' = Active \union {r}
           \/ \E r \in Active : permits' = permits + 1 /\ Active' = Active \ {r}
           \/ permits' = max_concurrency /\ Active' = {}
<1> DEFINE Same == permits' = permits /\ Active' = Active
<1> USE DEF DiagTypes
<1>1. ASSUME NEW r \in Requests, NEW v, diag' = [diag EXCEPT ![r] = v]
      PROVE  /\ v.pc = "acting" => Active' = Active \union {r}
             /\ v.pc # "acting" => Active' = Active \ {r}
  BY <1>1, Zenon DEF Active
<1>2. ASSUME NEW r \in Requests, Diagnose(r)
      PROVE  Same
  <2>1. r \notin Active
    BY <1>2 DEF Diagnose, Active, Idle
  <2>2. [pc |-> "matching", now_ts |-> now].pc # "acting"
    OBVIOUS
  <2>3. diag' = [diag EXCEPT ![r] = [pc |-> "matching", now_ts |-> now]] /\ permits' = permits
    BY <1>2, Zenon DEF Diagnose
  <2>4. Active' = Active \ {r}
    BY <1>1, <2>2, <2>3, Zenon
  <2> QED BY <2>1, <2>3, <2>4, Zenon
<1>3. ASSUME NEW r \in Requests, PolicyAndAcquire(r)
      PROVE  Same \/ (/\ r \notin Active /\ permits > 0 /\ permits' = permits - 1
                      /\ Active' = Active \union {r})
  <2>1. r \notin Active
    BY <1>3, Zenon DEF PolicyAndAcquire, Active
  <2>2. PICK procs \in Jobs, degraded \in BOOLEAN :
          LET d == [pc |-> "acting", now_ts |-> diag[r].now_ts, degraded |-> degraded,
                    todo |-> SubSeq(procs, 1, IF Len(procs) < max_actions THEN Len(procs)
                                              ELSE max_actions),
                    procs |-> IF degraded THEN procs ELSE <<>>] IN
          IF permits > 0
          THEN diag' = [diag EXCEPT ![r] = d] /\ permits' = permits - 1
          ELSE diag' = [diag EXCEPT ![r] = AfterActions(d)] /\ UNCHANGED permits
    BY <1>3, Zenon DEF PolicyAndAcquire
  <2> DEFINE d == [pc |-> "acting", now_ts |-> diag[r].now_ts, degraded |-> degraded,
                   todo |-> SubSeq(procs, 1, IF Len(procs) < max_actions THEN Len(procs)
                                             ELSE max_actions),
                   procs |-> IF degraded THEN procs ELSE <<>>]
  <2>3. d.pc = "acting" /\ d.procs \in Seq(Nodes)
    BY JobsAreSeqs
  <2>4. IF permits > 0
        THEN diag' = [diag EXCEPT ![r] = d] /\ permits' = permits - 1
        ELSE diag' = [diag EXCEPT ![r] = AfterActions(d)] /\ UNCHANGED permits
    BY <2>2, Zenon
  <2> HIDE DEF d
  <2>5. AfterActions(d).pc # "acting"
    BY <2>3, AfterActionsTyped, Zenon
  <2>6. CASE permits > 0
    BY <1>1, <2>1, <2>3, <2>4, <2>6, Zenon
  <2>7. CASE ~ (permits > 0)
    <3>1. Active' = Active \ {r} /\ permits' = permits
      BY <1>1, <2>4, <2>5, <2>7, Zenon
    <3> QED BY <2>1, <3>1, Zenon
  <2> QED BY <2>6, <2>7, Zenon
<1>4. ASSUME NEW r \in Requests, Act(r)
      PROVE  Same
  <2>1. diag[r] \in Acting /\ r \in Active /\ permits' = permits
    BY <1>4, StateOf, Zenon DEF Act, Active
  <2>2. diag' = [diag EXCEPT ![r] = [diag[r] EXCEPT !.todo = Tail(@)]]
    BY <1>4, Zenon DEF Act
  <2>3. [diag[r] EXCEPT !.todo = Tail(@)].pc = "acting"
    BY <2>1, Zenon DEF Acting
  <2>4. Active' = Active \union {r}
    BY <1>1, <2>2, <2>3, Zenon
  <2> QED BY <2>1, <2>4, Zenon
<1>5. ASSUME NEW r \in Requests, ActionsDone(r)
      PROVE  r \in Active /\ permits' = permits + 1 /\ Active' = Active \ {r}
  <2>1. AfterActions(diag[r]).pc # "acting"
    BY <1>5, StateOf, AfterActionsTyped, Zenon DEF ActionsDone, Acting
  <2> QED BY <1>1, <1>5, <2>1, Zenon DEF ActionsDone, Active
<1>6. ASSUME NEW r \in Requests, Isolate(r)
      PROVE  Same
  <2> DEFINE v == IF Len(diag[r].left) = 1 THEN [pc |-> "waiting"]
                  ELSE [pc |-> "isolating", left |-> Tail(diag[r].left)]
  <2>1. r \notin Active /\ permits' = permits /\ diag' = [diag EXCEPT ![r] = v]
    BY <1>6, Zenon DEF Isolate, Active
  <2>2. v.pc # "acting"
    OBVIOUS
  <2> HIDE DEF v
  <2>3. Active' = Active \ {r}
    BY <1>1, <2>1, <2>2, Zenon
  <2> QED BY <2>1, <2>3, Zenon
<1>7. ASSUME NEW r \in Requests, Respond(r)
      PROVE  Same
  <2>1. r \notin Active /\ permits' = permits /\ diag' = [diag EXCEPT ![r] = Idle]
    BY <1>7, Zenon DEF Respond, Active
  <2>2. Idle.pc # "acting"
    BY Zenon DEF Idle
  <2>3. Active' = Active \ {r}
    BY <1>1, <2>1, <2>2, Zenon
  <2> QED BY <2>1, <2>3, Zenon
<1>8. CASE Restart
  BY <1>8, Zenon DEF Restart, Active, Idle
<1>9. CASE UNCHANGED <<diag, permits>>
  BY <1>9, Zenon DEF Active
<1>10. ASSUME NEW c \in Callers, handle_irreversible_fault(c)
       PROVE  UNCHANGED <<diag, permits>>
  BY <1>10, Zenon DEF handle_irreversible_fault, Check, Taint, Evict, Record, guard
<1>11. ASSUME NEW f \in Faults, FaultDetected(f)
       PROVE  UNCHANGED <<diag, permits>>
  BY <1>11, Zenon DEF FaultDetected, guard
<1>12. CASE Operator \/ Tick \/ (\E o \in Remediations : Create(o)) \/ UNCHANGED vars
           \/ (\E n \in Nodes : Schedule(n))
  <2>1. UNCHANGED <<diag, permits>>
    BY <1>12, Zenon DEF Operator, List, Begin, execute_operator_action, OperatorEvict, Finish,
       Sleep, Tick, Create, Schedule, vars, guard
  <2> QED BY <1>9, <2>1, Zenon
<1>14. ASSUME NEW r \in Requests, Cancel(r)
       PROVE  Same \/ (r \in Active /\ permits' = permits + 1 /\ Active' = Active \ {r})
  <2>1. diag' = [diag EXCEPT ![r] = Idle]
        /\ permits' = IF diag[r].pc = "acting" THEN permits + 1 ELSE permits
    BY <1>14, Zenon DEF Cancel
  <2>2. Idle.pc # "acting"
    BY Zenon DEF Idle
  <2>3. Active' = Active \ {r}
    BY <1>1, <2>1, <2>2, Zenon
  <2>4. CASE r \in Active
    BY <2>1, <2>3, <2>4, Zenon DEF Active
  <2>5. CASE r \notin Active
    <3>1. permits' = permits
      BY <2>1, <2>5, Zenon DEF Active
    <3> QED BY <2>3, <2>5, <3>1, Zenon
  <2> QED BY <2>4, <2>5, Zenon
<1> HIDE DEF Same
<1>13. Same => (permits' = permits /\ Active' = Active)
  BY Zenon DEF Same
<1> QED
  BY <1>2, <1>3, <1>4, <1>5, <1>6, <1>7, <1>8, <1>9, <1>10, <1>11, <1>12, <1>13, <1>14, Zenon
     DEF Next, Request, Callers

PermitInv == permits \in Nat /\ permits + Cardinality(Active) = max_concurrency

LEMMA PermitsCorrect == Spec => []PermitInv
<1>1. Init => PermitInv
  <2> SUFFICES ASSUME Init PROVE PermitInv
    OBVIOUS
  <2>1. Active = {} /\ permits = max_concurrency
    BY Zenon DEF Init, Active, Idle
  <2> QED BY <2>1, FS_EmptySet, RemediationConstants DEF PermitInv
<1>2. ASSUME DiagTypes, PermitInv, [Next]_vars
      PROVE  PermitInv'
  <2>1. IsFiniteSet(Active) /\ Cardinality(Active) \in Nat
    BY ActiveFinite, Zenon
  <2>2. CASE permits' = permits /\ Active' = Active
    BY <1>2, <2>2, Zenon DEF PermitInv
  <2>3. ASSUME NEW r \in Requests \ Active, permits > 0, permits' = permits - 1,
               Active' = Active \union {r}
        PROVE  PermitInv'
    <3>1. Cardinality(Active') = Cardinality(Active) + 1
      BY <2>1, <2>3, FS_AddElement, Zenon
    <3> QED BY <1>2, <2>1, <2>3, <3>1, RemediationConstants DEF PermitInv
  <2>4. ASSUME NEW r \in Active, permits' = permits + 1, Active' = Active \ {r}
        PROVE  PermitInv'
    <3>1. Cardinality(Active') = Cardinality(Active) - 1
      BY <2>1, <2>4, FS_RemoveElement, Zenon
    <3> QED BY <1>2, <2>1, <2>4, <3>1, RemediationConstants DEF PermitInv
  <2>5. CASE permits' = max_concurrency /\ Active' = {}
    BY <2>5, FS_EmptySet, RemediationConstants DEF PermitInv
  <2> QED BY <1>2, <2>2, <2>3, <2>4, <2>5, PermitStep, Zenon
<1> QED BY <1>1, <1>2, DiagTyped, PTL DEF Spec

\* The semaphore is never over- or underspent, for any number of requests and
\* permits, and whichever way a request ends.
THEOREM PermitsConserved == Spec => []PermitsHeld
<1>1. PermitInv => PermitsHeld
  BY Zenon DEF PermitInv, PermitsHeld, Active
<1> QED BY <1>1, PermitsCorrect, PTL

Timed == {"matching", "acting"}

\* A request's time is the one it began at.
BeganBefore == \A r \in Requests : diag[r].pc \in Timed => diag[r].now_ts <= now

LEMMA BeganStep ==
    ASSUME DiagTypes, DiagTypes', BeganBefore, [Next]_vars
    PROVE  BeganBefore'
<1> USE DEF DiagTypes, Timed
<1>1. now \in Nat /\ now' \in Nat /\ now <= now'
  BY NowStep
<1>2. ASSUME NEW r \in Requests, NEW v, diag' = [diag EXCEPT ![r] = v],
             v.pc \in Timed => v.now_ts <= now'
      PROVE  BeganBefore'
  <2>1. \A q \in Requests : diag[q].pc \in Timed => diag[q].now_ts \in Nat
    BY StateOf, Zenon DEF Matching, Acting
  <2> QED BY <1>1, <1>2, <2>1 DEF BeganBefore
<1>3. ASSUME NEW r \in Requests, Diagnose(r)
      PROVE  BeganBefore'
  BY <1>1, <1>2, <1>3, Zenon DEF Diagnose
<1>4. ASSUME NEW r \in Requests, PolicyAndAcquire(r)
      PROVE  BeganBefore'
  <2>1. diag[r].now_ts <= now'
    BY <1>1, <1>4, StateOf, Zenon DEF PolicyAndAcquire, BeganBefore, Matching
  <2>2. PICK procs \in Jobs, degraded \in BOOLEAN :
          LET d == [pc |-> "acting", now_ts |-> diag[r].now_ts, degraded |-> degraded,
                    todo |-> SubSeq(procs, 1, IF Len(procs) < max_actions THEN Len(procs)
                                              ELSE max_actions),
                    procs |-> IF degraded THEN procs ELSE <<>>] IN
          diag' = [diag EXCEPT ![r] = d] \/ diag' = [diag EXCEPT ![r] = AfterActions(d)]
    BY <1>4, Zenon DEF PolicyAndAcquire
  <2> DEFINE d == [pc |-> "acting", now_ts |-> diag[r].now_ts, degraded |-> degraded,
                   todo |-> SubSeq(procs, 1, IF Len(procs) < max_actions THEN Len(procs)
                                             ELSE max_actions),
                   procs |-> IF degraded THEN procs ELSE <<>>]
  <2>3. d.now_ts <= now' /\ d.procs \in Seq(Nodes)
    BY <2>1, JobsAreSeqs
  <2>4. diag' = [diag EXCEPT ![r] = d] \/ diag' = [diag EXCEPT ![r] = AfterActions(d)]
    BY <2>2, Zenon
  <2> HIDE DEF d
  <2>5. AfterActions(d).pc \notin Timed
    BY <2>3, AfterActionsTyped DEF Idle, Isolating
  <2> QED BY <1>2, <2>3, <2>4, <2>5, Zenon
<1>5. ASSUME NEW r \in Requests, Act(r)
      PROVE  BeganBefore'
  <2> DEFINE v == [diag[r] EXCEPT !.todo = Tail(@)]
  <2>1. diag[r] \in Acting /\ diag[r].now_ts <= now'
    BY <1>1, <1>5, StateOf, Zenon DEF Act, BeganBefore, Acting
  <2>2. diag' = [diag EXCEPT ![r] = v] /\ v.now_ts = diag[r].now_ts
    BY <1>5, <2>1, Zenon DEF Act, Acting
  <2> HIDE DEF v
  <2> QED BY <1>2, <2>1, <2>2, Zenon
<1>6. ASSUME NEW r \in Requests, ActionsDone(r) \/ Isolate(r) \/ Respond(r) \/ Cancel(r)
      PROVE  BeganBefore'
  <2>1. CASE ActionsDone(r)
    <3>1. AfterActions(diag[r]).pc \notin Timed
      <4>1. diag[r].procs \in Seq(Nodes)
        BY <2>1, StateOf, Zenon DEF ActionsDone, Acting
      <4> QED BY <4>1, AfterActionsTyped DEF Idle, Isolating
    <3> QED BY <1>2, <2>1, <3>1, Zenon DEF ActionsDone
  <2>2. CASE Isolate(r)
    <3> DEFINE v == IF Len(diag[r].left) = 1 THEN [pc |-> "waiting"]
                    ELSE [pc |-> "isolating", left |-> Tail(diag[r].left)]
    <3>1. diag' = [diag EXCEPT ![r] = v] /\ v.pc \notin Timed
      BY <2>2, Zenon DEF Isolate
    <3> HIDE DEF v
    <3> QED BY <1>2, <3>1, Zenon
  <2>3. CASE Respond(r) \/ Cancel(r)
    <3>1. Idle.pc \notin Timed
      BY Zenon DEF Idle
    <3> QED BY <1>2, <2>3, <3>1, Zenon DEF Respond, Cancel
  <2> QED BY <1>6, <2>1, <2>2, <2>3, Zenon
<1>7. CASE Restart
  BY <1>7, Zenon DEF Restart, BeganBefore, Idle
<1>8. CASE UNCHANGED diag
  <2>1. \A q \in Requests : diag[q].pc \in Timed => diag[q].now_ts \in Nat
    BY StateOf, Zenon DEF Matching, Acting
  <2> QED BY <1>1, <1>8, <2>1 DEF BeganBefore
<1>9. ASSUME NEW c \in Callers, handle_irreversible_fault(c)
       PROVE  UNCHANGED diag
  BY <1>9, Zenon DEF handle_irreversible_fault, Check, Taint, Evict, Record, guard
<1>10. CASE Operator \/ Tick \/ (\E o \in Remediations : Create(o)) \/ UNCHANGED vars
           \/ (\E n \in Nodes : Schedule(n))
            \/ \E f \in Faults : FaultDetected(f)
  <2>1. UNCHANGED diag
    BY <1>10, Zenon DEF Operator, List, Begin, execute_operator_action, OperatorEvict, Finish,
       Sleep, Tick, Create, Schedule, vars, guard, FaultDetected
  <2> QED BY <1>8, <2>1, Zenon
<1> QED BY <1>3, <1>4, <1>5, <1>6, <1>7, <1>8, <1>9, <1>10, Zenon DEF Next, Request, Callers

\* A time is recorded with the key's last pass, and it is the earlier of the two.
Recorded ==
    /\ last_action_ms \in [Keys -> Nat \union {Never}]
    /\ sent \in [Keys -> Nat \union {Never}]
    /\ \A k \in Keys : sent[k] # Never =>
          last_action_ms[k] # Never /\ last_action_ms[k] <= sent[k] /\ sent[k] <= now

Passes(r, k) ==
    /\ diag[r].pc = "acting"
    /\ last_action_ms' = [last_action_ms EXCEPT ![k] = diag[r].now_ts]
    /\ sent' = [sent EXCEPT ![k] = now]
    /\ now' = now
    /\ last_action_ms[k] # Never =>
          ~ ((IF diag[r].now_ts < last_action_ms[k] THEN 0
              ELSE diag[r].now_ts - last_action_ms[k]) < execute_cooldown)

\* The maps change only when a request passes the guard, or at a restart.
LEMMA GuardStep ==
    ASSUME DiagTypes, [Next]_vars
    PROVE  \/ UNCHANGED <<last_action_ms, sent>>
           \/ Restart
           \/ \E r \in Requests, k \in Keys : Passes(r, k)
<1>1. ASSUME NEW r \in Requests, Act(r)
      PROVE  UNCHANGED <<last_action_ms, sent>> \/ \E k \in Keys : Passes(r, k)
  <2>1. diag[r].todo \in Seq(Nodes) /\ diag[r].todo # <<>>
    BY <1>1, StateOf, Zenon DEF Act, Acting
  <2>2. Head(diag[r].todo) \in Nodes
    BY <2>1, HeadTailProperties, Zenon
  <2> DEFINE key == <<Head(diag[r].todo),
                      IF diag[r].degraded THEN "KillProcess" ELSE "GracefulShutdown">>
  <2>3. key \in Keys
    BY <2>2, Zenon DEF Keys, Actions
  <2>4. UNCHANGED <<last_action_ms, sent>> \/ Passes(r, key)
    BY <1>1, Zenon DEF Act, Passes
  <2> QED BY <2>3, <2>4, Zenon
<1>2. ASSUME NEW r \in Requests,
             \/ Diagnose(r) \/ PolicyAndAcquire(r) \/ ActionsDone(r)
             \/ Isolate(r) \/ Respond(r) \/ Cancel(r)
      PROVE  UNCHANGED <<last_action_ms, sent>>
  BY <1>2, Zenon DEF Diagnose, Cancel, PolicyAndAcquire, ActionsDone, Isolate, Respond
<1>3. ASSUME NEW c \in Callers, handle_irreversible_fault(c)
      PROVE  UNCHANGED <<last_action_ms, sent>>
  BY <1>3, Zenon DEF handle_irreversible_fault, Check, Taint, Evict, Record, guard
<1>4. CASE Operator \/ Tick \/ (\E o \in Remediations : Create(o)) \/ UNCHANGED vars
           \/ (\E n \in Nodes : Schedule(n))
           \/ \E f \in Faults : FaultDetected(f)
  BY <1>4, Zenon DEF Operator, List, Begin, execute_operator_action, OperatorEvict, Finish,
     Sleep, Tick, Create, Schedule, vars, guard, FaultDetected
<1> QED BY <1>1, <1>2, <1>3, <1>4, Zenon DEF Next, Request, Callers

GuardInv == DiagTypes /\ BeganBefore /\ Recorded

LEMMA GuardCorrect == Spec => []GuardInv
<1>1. Init => BeganBefore /\ Recorded
  BY DEF Init, BeganBefore, Recorded, Idle, Timed
<1>2. ASSUME DiagTypes, BeganBefore, Recorded, [Next]_vars
      PROVE  Recorded'
  <2> USE <1>2 DEF Recorded
  <2>1. now \in Nat /\ now' \in Nat /\ now <= now'
    BY NowStep, SMTT(30) DEF DiagTypes
  <2>2. CASE UNCHANGED <<last_action_ms, sent>>
    BY <2>1, <2>2, RemediationConstants
  <2>3. CASE Restart
    BY <2>3, Zenon DEF Restart
  <2>4. ASSUME NEW r \in Requests, NEW k \in Keys, Passes(r, k)
        PROVE  Recorded'
    <3>1. diag[r].now_ts \in Nat /\ diag[r].now_ts <= now
      BY <2>4, StateOf, Zenon DEF Passes, Acting, BeganBefore, Timed
    <3> QED BY <2>1, <2>4, <3>1, RemediationConstants, Zenon DEF Passes
  <2> QED BY <2>2, <2>3, <2>4, GuardStep, Zenon
<1> QED BY <1>1, <1>2, BeganStep, DiagTyped, PTL DEF Spec, GuardInv

\* The guard's cooldown in real time, up to the time a request had spent before
\* it reached the guard: for any cooldown but none at all.
THEOREM CooldownHolds ==
    ASSUME execute_cooldown # 0
    PROVE  Spec => CooldownUpToLag
<1>1. ASSUME GuardInv, [Next]_vars, NEW k \in Keys,
             sent[k] # Never, last_action_ms'[k] \notin {last_action_ms[k], Never}
      PROVE  /\ now - sent[k] >= execute_cooldown - (sent[k] - last_action_ms[k])
             /\ last_action_ms'[k] > last_action_ms[k]
  <2> USE <1>1 DEF GuardInv, Recorded
  <2>1. PICK r \in Requests, j \in Keys : Passes(r, j)
    BY GuardStep, Zenon DEF Restart
  <2>2. j = k /\ last_action_ms'[k] = diag[r].now_ts
    BY <2>1, Zenon DEF Passes
  <2>3. diag[r].now_ts \in Nat /\ diag[r].now_ts <= now /\ now \in Nat
    BY <2>1, StateOf, Zenon DEF Passes, Acting, BeganBefore, Timed, DiagTypes
  <2>4. last_action_ms[k] \in Nat /\ sent[k] \in Nat
    OBVIOUS
  <2>5. ~ ((IF diag[r].now_ts < last_action_ms[k] THEN 0
            ELSE diag[r].now_ts - last_action_ms[k]) < execute_cooldown)
    BY <2>1, <2>2, Zenon DEF Passes
  <2> QED BY <2>2, <2>3, <2>4, <2>5, RemediationConstants
<1>2. GuardInv /\ [Next]_vars =>
        [\A k \in Keys : (sent[k] # Never /\ last_action_ms'[k] \notin {last_action_ms[k], Never}) =>
          /\ now - sent[k] >= execute_cooldown - (sent[k] - last_action_ms[k])
          /\ last_action_ms'[k] > last_action_ms[k]]_vars
  BY <1>1, Zenon
<1> QED BY <1>2, GuardCorrect, PTL DEF Spec, CooldownUpToLag

-----------------------------------------------------------------------------
(* The types of the whole hub: every time it remembers lies in the past. *)

Clocked ==
    /\ now <= MaxTime
    /\ \A n \in Nodes : processed_nodes[n] # Never => processed_nodes[n] <= now
    /\ \A k \in Keys : last_action_ms[k] # Never => last_action_ms[k] <= now

\* The clock stands still in every step but Tick, which has its bound.
LEMMA ClockBound ==
    ASSUME DiagTypes, now <= MaxTime, [Next]_vars
    PROVE  now' <= MaxTime
<1>1. now' = now \/ Tick
  <2>1. ASSUME NEW c \in Callers, handle_irreversible_fault(c)
        PROVE  now' = now
    BY <2>1, Zenon DEF handle_irreversible_fault, Check, Taint, Evict, Record
  <2>2. ASSUME NEW r \in Requests,
               \/ Diagnose(r) \/ PolicyAndAcquire(r) \/ Act(r) \/ ActionsDone(r)
               \/ Isolate(r) \/ Respond(r) \/ Cancel(r)
        PROVE  now' = now
    BY <2>2, Zenon DEF Diagnose, Cancel, PolicyAndAcquire, Act, ActionsDone, Isolate, Respond
  <2>3. ASSUME Operator
        PROVE  now' = now
    BY <2>3, Zenon DEF Operator, List, Begin, execute_operator_action, OperatorEvict, Finish, Sleep
  <2> QED BY <2>1, <2>2, <2>3, Zenon DEF Next, Request, Callers, FaultDetected, Create, Schedule,
    Restart, vars
<1> QED BY <1>1, RemediationConstants DEF Tick, DiagTypes

\* A node is recorded with the present time, or forgotten at a restart.
LEMMA NodesStep ==
    ASSUME [Next]_vars
    PROVE  \/ UNCHANGED processed_nodes
           \/ Restart
           \/ \E c \in Callers : Record(c)
<1>1. ASSUME NEW r \in Requests,
             \/ Diagnose(r) \/ PolicyAndAcquire(r) \/ Act(r) \/ ActionsDone(r)
             \/ Isolate(r) \/ Respond(r) \/ Cancel(r)
      PROVE  UNCHANGED processed_nodes
  BY <1>1, Zenon DEF Diagnose, Cancel, PolicyAndAcquire, Act, ActionsDone, Isolate, Respond, controller
<1>2. ASSUME NEW c \in Callers, handle_irreversible_fault(c)
      PROVE  UNCHANGED processed_nodes \/ Record(c)
  BY <1>2, Zenon DEF handle_irreversible_fault, Check, Taint, Evict
<1>3. CASE Operator \/ Tick \/ (\E o \in Remediations : Create(o)) \/ UNCHANGED vars
           \/ (\E n \in Nodes : Schedule(n))
           \/ \E f \in Faults : FaultDetected(f)
  BY <1>3, Zenon DEF Operator, List, Begin, execute_operator_action, OperatorEvict, Finish,
     Sleep, Tick, Create, Schedule, vars, controller, FaultDetected
<1> QED BY <1>1, <1>2, <1>3, Zenon DEF Next, Request, Callers

\* The hub's state has its type at every moment: no time it remembers is later
\* than the present one, so that no difference it computes is negative, and no
\* permit is lost or made up.
THEOREM HubTyped == Spec => []TypeOK
<1>1. Init => Clocked
  BY RemediationConstants DEF Init, Clocked
<1>2. ASSUME GuardInv, ControllerInv, Clocked, [Next]_vars
      PROVE  Clocked'
  <2>1. now \in Nat /\ now' \in Nat /\ now <= now'
    BY <1>2, NowStep DEF GuardInv, DiagTypes
  <2>2. now' <= MaxTime
    BY <1>2, ClockBound, Zenon DEF GuardInv, Clocked
  <2>3. ASSUME NEW n \in Nodes, processed_nodes'[n] # Never
        PROVE  processed_nodes'[n] <= now'
    <3>1. CASE UNCHANGED processed_nodes
      BY <1>2, <2>1, <2>3, <3>1 DEF Clocked, ControllerInv, ControllerTypes
    <3>2. CASE Restart
      BY <2>3, <3>2, Zenon DEF Restart
    <3>3. ASSUME NEW c \in Callers, Record(c)
          PROVE  processed_nodes'[n] <= now'
      BY <1>2, <2>1, <2>3, <3>3, Zenon DEF Record, Clocked, ControllerInv, ControllerTypes
    <3> QED BY <1>2, <3>1, <3>2, <3>3, NodesStep, Zenon
  <2>4. ASSUME NEW k \in Keys, last_action_ms'[k] # Never
        PROVE  last_action_ms'[k] <= now'
    <3>1. CASE UNCHANGED last_action_ms
      BY <1>2, <2>1, <2>4, <3>1 DEF Clocked, GuardInv, Recorded
    <3>2. CASE Restart
      BY <2>4, <3>2, Zenon DEF Restart
    <3>3. ASSUME NEW r \in Requests, NEW j \in Keys, Passes(r, j)
          PROVE  last_action_ms'[k] <= now'
      <4>1. diag[r].now_ts \in Nat /\ diag[r].now_ts <= now
        BY <1>2, <3>3, StateOf, Zenon DEF GuardInv, Passes, Acting, BeganBefore, Timed
      <4> QED BY <1>2, <2>1, <2>4, <3>3, <4>1, Zenon DEF Passes, Clocked, GuardInv, Recorded
    <3> QED BY <1>2, <3>1, <3>2, <3>3, GuardStep, Zenon DEF GuardInv
  <2> QED BY <2>2, <2>3, <2>4, Zenon DEF Clocked
<1>3. ASSUME GuardInv, ControllerInv, OperatorInv, PermitInv, Clocked
      PROVE  TypeOK
  <2>1. now \in 0..MaxTime
    BY <1>3, RemediationConstants DEF GuardInv, DiagTypes, Clocked
  <2>2. permits \in 0..max_concurrency
    BY <1>3, ActiveFinite, RemediationConstants DEF PermitInv
  <2>3. \A r \in Requests : diag[r].pc \in {"idle", "matching", "acting", "isolating", "waiting"}
    BY <1>3 DEF GuardInv, DiagTypes, Idle, Matching, Acting, Isolating, Waiting
  <2>4. \A c \in Callers : ctl[c].pc \in {"idle", "check", "taint", "evict", "record"}
    BY <1>3 DEF ControllerInv, ControllerTypes, Idle, Calls
  <2>5. last_action_ms \in [Keys -> 0..MaxTime \union {Never}]
    BY <1>3, <2>1, RemediationConstants DEF GuardInv, Recorded, Clocked
  <2>6. processed_nodes \in [Nodes -> 0..MaxTime \union {Never}]
    BY <1>3, <2>1, RemediationConstants DEF ControllerInv, ControllerTypes, Clocked
  <2>7. tainted \subseteq Nodes /\ occupied \subseteq Nodes
    BY <1>3, Zenon DEF ControllerInv, ControllerTypes
  <2>8. /\ phase \in [Remediations -> {"Pending", "Running", "Succeeded", "Failed"}]
        /\ op.pc \in {"list", "next", "execute", "evict", "finish"}
    BY <1>3, Zenon DEF OperatorInv, OperatorTypes, Phases, Listing, Choosing, Executing, Finishing
  <2> QED BY <2>1, <2>2, <2>3, <2>4, <2>5, <2>6, <2>7, <2>8, Zenon DEF TypeOK
<1> QED BY <1>1, <1>2, <1>3, GuardCorrect, ControllerCorrect, OperatorCorrect, PermitsCorrect, PTL DEF Spec

=============================================================================
