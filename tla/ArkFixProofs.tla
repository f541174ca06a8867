---------------------------- MODULE ArkFixProofs ----------------------------
(***************************************************************************)
(* Proofs about `ark fix', `ark zap', their audit log and the daemon's IPC *)
(* server, for any number of processes, any answers of the daemon and any  *)
(* size of the log.                                                        *)
(***************************************************************************)
EXTENDS ArkFix, SequenceTheorems, TLAPS

-----------------------------------------------------------------------------
(* What is reported as done is done. *)

IsFix(r) == r = [pc |-> r.pc, todo |-> r.todo, executed |-> r.executed, failed |-> r.failed]
IsZap(r) == r = [pc |-> r.pc, group |-> r.group]

\* A kill that was executed has hit the process that held the pid at first or
\* came when it had left it; a group read from another process came after it.
Done ==
    /\ fix = [f \in Fixes |-> fix[f]] /\ \A f \in Fixes : IsFix(fix[f])
    /\ IsZap(zap)
    /\ holder \in {"target", "other", "none"}
    /\ \A f \in Fixes : "kill" \in fix[f].executed => Hit
    /\ zap.group = "other" => holder # "target"
    /\ zap.pc = "succeeded" => Hit \/ zap.group = "another"

LEMMA InitDone == Init => Done
BY DEF Init, Done, IsFix, IsZap, NewFix, FixAt

\* A step of one `ark fix' that executes no action.
LEMMA FixPassive ==
    ASSUME Done, NEW f \in Fixes, NEW r, IsFix(r), r.executed \subseteq fix[f].executed,
           fix' = [fix EXCEPT ![f] = r], zap' = zap, UNCHANGED pidVars
    PROVE  Done'
BY Zenon DEF Done, Hit, pidVars

\* A step that moves one `ark fix' on, and perhaps gives it other actions to do.
LEMMA FixMoves ==
    ASSUME Done, NEW f \in Fixes, NEW p, NEW t,
           fix' = [fix EXCEPT ![f] = [fix[f] EXCEPT !.pc = p, !.todo = t]],
           zap' = zap, UNCHANGED pidVars
    PROVE  Done'
<1> DEFINE r == [fix[f] EXCEPT !.pc = p, !.todo = t]
<1>1. IsFix(fix[f])
  BY Zenon DEF Done
<1> DEFINE x == [pc |-> fix[f].pc, todo |-> fix[f].todo,
                 executed |-> fix[f].executed, failed |-> fix[f].failed]
<1>4. fix[f] = x
  BY <1>1, Zenon DEF IsFix
<1> DEFINE y == [fix[f] EXCEPT !.pc = p]
<1>6. y = [pc |-> p, todo |-> fix[f].todo, executed |-> fix[f].executed, failed |-> fix[f].failed]
  BY <1>4
<1>7. r = [y EXCEPT !.todo = t]
  BY Zenon
<1> HIDE DEF y
<1>8. [y EXCEPT !.todo = t]
        = [pc |-> p, todo |-> t, executed |-> fix[f].executed, failed |-> fix[f].failed]
  BY <1>6
<1>5. r = [pc |-> p, todo |-> t, executed |-> fix[f].executed, failed |-> fix[f].failed]
  BY <1>7, <1>8, Zenon
<1>2. IsFix(r) /\ r.executed = fix[f].executed
  BY <1>5, Zenon DEF IsFix
<1>3. fix' = [fix EXCEPT ![f] = r]
  OBVIOUS
<1> HIDE DEF r
<1> QED  BY <1>2, <1>3, FixPassive, Zenon

LEMMA FixGoesOn ==
    ASSUME Done, NEW f \in Fixes, NEW p,
           fix' = [fix EXCEPT ![f] = [fix[f] EXCEPT !.pc = p]],
           zap' = zap, UNCHANGED pidVars
    PROVE  Done'
<1> DEFINE r == [fix[f] EXCEPT !.pc = p]
<1>1. IsFix(fix[f])
  BY Zenon DEF Done
<1> DEFINE x == [pc |-> fix[f].pc, todo |-> fix[f].todo,
                 executed |-> fix[f].executed, failed |-> fix[f].failed]
<1>4. fix[f] = x
  BY <1>1, Zenon DEF IsFix
<1>5. r = [pc |-> p, todo |-> fix[f].todo, executed |-> fix[f].executed, failed |-> fix[f].failed]
  BY <1>4
<1>2. IsFix(r) /\ r.executed = fix[f].executed
  BY <1>5, Zenon DEF IsFix
<1>3. fix' = [fix EXCEPT ![f] = r]
  OBVIOUS
<1> HIDE DEF r
<1> QED  BY <1>2, <1>3, FixPassive, Zenon

LEMMA KillHits ==
    ASSUME NEW ok \in BOOLEAN, KillByPid(ok), holder \in {"target", "other", "none"}
    PROVE  /\ holder' = holder
           /\ ok => Hit'
           /\ Hit => Hit'
BY DEF KillByPid, Hit

LEMMA ActDone ==
    ASSUME Done, NEW f \in Fixes, Act(f) PROVE Done'
<1> DEFINE action == Head(fix[f].todo)
           done(ok) == [pc       |-> "act",
                        todo     |-> Tail(fix[f].todo),
                        executed |-> IF ok THEN fix[f].executed \union {action} ELSE fix[f].executed,
                        failed   |-> IF ok THEN fix[f].failed ELSE fix[f].failed \union {action}]
<1>1. PICK ok \in BOOLEAN :
         /\ execute(action, ok)
         /\ fix' = [fix EXCEPT ![f] = done(ok)]
  BY Zenon DEF Act
<1>2. zap' = zap
  BY Zenon DEF Act
<1>3. /\ fix' = [g \in Fixes |-> fix'[g]]
      /\ \A g \in Fixes : IsFix(fix'[g])
      /\ \A g \in Fixes : g # f => fix'[g] = fix[g]
      /\ fix'[f].executed = IF ok THEN fix[f].executed \union {action} ELSE fix[f].executed
  BY <1>1, Zenon DEF Done, IsFix
<1>4. /\ holder' = holder
      /\ Hit => Hit'
      /\ ok /\ action = "kill" => Hit'
  <2>1. ASSUME UNCHANGED pidVars PROVE holder' = holder /\ (Hit => Hit')
    BY <2>1 DEF pidVars, Hit
  <2>2. holder \in {"target", "other", "none"}
    BY Zenon DEF Done
  <2> QED  BY <1>1, <2>1, <2>2, KillHits, Zenon DEF execute
<1>5. ASSUME NEW g \in Fixes, "kill" \in fix'[g].executed PROVE Hit'
  BY <1>3, <1>4, <1>5, Zenon DEF Done
<1> QED  BY <1>2, <1>3, <1>4, <1>5, Zenon DEF Done

\* The record of an `ark fix' that has no action left.
LEMMA EndedRecord ==
    ASSUME NEW p, NEW X PROVE IsFix(FixAt(p, X)) /\ FixAt(p, X).executed = X
BY Zenon DEF FixAt, IsFix

LEMMA NextDone == Done /\ [Next]_allVars => Done'
<1> SUFFICES ASSUME Done, [Next]_allVars PROVE Done'
  OBVIOUS
<1>0. ASSUME UNCHANGED procVars PROVE Done'
  BY <1>0, Zenon DEF Done, Hit, procVars, pidVars
<1>1. ASSUME NEW f \in Fixes, StartFix(f) PROVE Done'
  <2>1. fix' = [fix EXCEPT ![f] = [fix[f] EXCEPT !.pc = "ping"]] /\ UNCHANGED <<zap, pidVars>>
    BY <1>1, Zenon DEF StartFix
  <2> QED  BY <2>1, FixGoesOn, Zenon
<1>2. ASSUME NEW f \in Fixes, PingReturns(f) PROVE Done'
  <2>1. /\ \E p \in {"why", "ended"} : fix' = [fix EXCEPT ![f] = [fix[f] EXCEPT !.pc = p]]
        /\ UNCHANGED <<zap, pidVars>>
    BY <1>2, Zenon DEF PingReturns
  <2> QED  BY <2>1, FixGoesOn, Zenon
<1>3. ASSUME NEW f \in Fixes, WhyReturns(f) PROVE Done'
  <2>1. /\ \E p, t : fix' = [fix EXCEPT ![f] = [fix[f] EXCEPT !.pc = p, !.todo = t]]
        /\ UNCHANGED <<zap, pidVars>>
    <3>1. PICK response : fix' = [fix EXCEPT ![f] =
              IF response # None /\ response.success
              THEN [@ EXCEPT !.pc = "confirm", !.todo = parse_recommendations(
                        create_analysis_from_causes(identify_scene_from_causes(response.data)))]
              ELSE [@ EXCEPT !.pc = "ended"]]
      BY <1>3, Zenon DEF WhyReturns
    <3>2. CASE response # None /\ response.success
      BY <1>3, <3>1, <3>2, Zenon DEF WhyReturns
    <3>3. CASE ~ (response # None /\ response.success)
      <4>1. fix' = [fix EXCEPT ![f] = [fix[f] EXCEPT !.pc = "ended", !.todo = fix[f].todo]]
        BY <3>1, <3>3, Zenon DEF Done, IsFix
      <4> QED  BY <1>3, <4>1, Zenon DEF WhyReturns
    <3> QED  BY <3>2, <3>3, Zenon
  <2> QED  BY <2>1, FixMoves, Zenon
<1>4. ASSUME NEW f \in Fixes, Confirm(f) PROVE Done'
  <2>1. /\ \E p \in {"act", "ended"} : fix' = [fix EXCEPT ![f] = [fix[f] EXCEPT !.pc = p]]
        /\ UNCHANGED <<zap, pidVars>>
    BY <1>4, Zenon DEF Confirm
  <2> QED  BY <2>1, FixGoesOn, Zenon
<1>5. ASSUME NEW f \in Fixes, NEW p, fix' = [fix EXCEPT ![f] = FixAt(p, Result(f))],
             UNCHANGED <<zap, pidVars>>
      PROVE  Done'
  <2> DEFINE r == FixAt(p, Result(f))
  <2>1. Result(f) \subseteq fix[f].executed
    BY Zenon DEF Result
  <2>2. IsFix(r) /\ r.executed \subseteq fix[f].executed
    BY <2>1, EndedRecord, Zenon
  <2>3. fix' = [fix EXCEPT ![f] = r]
    BY <1>5, Zenon
  <2> HIDE DEF r
  <2> QED  BY <1>5, <2>2, <2>3, FixPassive, Zenon
<1>6. ASSUME NEW f \in Fixes, LogResult(f) PROVE Done'
  BY <1>5, <1>6, Zenon DEF LogResult, Ended
<1>7. ASSUME NEW f \in Fixes, LogSteps(f) PROVE Done'
  BY <1>0, <1>7, Zenon DEF LogSteps, procVars
<1>8. ASSUME NEW f \in Fixes, EndFix(f) PROVE Done'
  BY <1>5, <1>8, Zenon DEF EndFix, Ended
<1>9. ASSUME NEW f \in Fixes, Interrupt(f) PROVE Done'
  <2> DEFINE r == FixAt("ended", {})
  <2>1. IsFix(r) /\ r.executed \subseteq fix[f].executed
    BY EndedRecord, Zenon
  <2>2. fix' = [fix EXCEPT ![f] = r] /\ UNCHANGED <<zap, pidVars>>
    BY <1>9, Zenon DEF Interrupt
  <2> QED  BY <2>1, <2>2, FixPassive, Zenon
<1>10. ASSUME get_process_group PROVE Done'
  <2>1. PICK group \in IF holder = "none" THEN {"unknown"} ELSE {holder, "another", "unknown"} :
           zap' = [pc |-> "kill", group |-> group]
    BY <1>10, Zenon DEF get_process_group
  <2>2. UNCHANGED <<fix, pidVars>>
    BY <1>10, Zenon DEF get_process_group
  <2> QED  BY <2>1, <2>2, Zenon DEF Done, IsZap, Hit, pidVars
<1>11. ASSUME kill_process_tree PROVE Done'
  <2>1. PICK ok \in BOOLEAN :
        /\ \/ zap.group = "unknown" /\ KillByPid(ok)
           \/ zap.group = holder /\ KillByPid(ok)
           \/ zap.group \in {"target", "other"} /\ zap.group # holder /\ UNCHANGED pidVars
           \/ zap.group = "another" /\ UNCHANGED pidVars
        /\ zap' = [zap EXCEPT !.pc = IF ok THEN "succeeded" ELSE "failed"]
    BY <1>11, Zenon DEF kill_process_tree
  <2>2. fix' = fix
    BY <1>11, Zenon DEF kill_process_tree
  <2>3. /\ IsZap(zap') /\ zap'.group = zap.group /\ (zap'.pc = "succeeded" => ok)
    BY <2>1, Zenon DEF Done, IsZap
  <2>4. holder' = holder /\ (Hit => Hit')
    <3>1. ASSUME UNCHANGED pidVars PROVE holder' = holder /\ (Hit => Hit')
      BY <3>1 DEF pidVars, Hit
    <3>2. holder \in {"target", "other", "none"}
      BY Zenon DEF Done
    <3> QED  BY <2>1, <3>1, <3>2, KillHits, Zenon
  <2>5. ok => Hit' \/ zap.group = "another"
    BY <2>1, KillHits, Zenon DEF Done, Hit, pidVars
  <2> QED  BY <2>2, <2>3, <2>4, <2>5, Zenon DEF Done
<1>12. ASSUME ProcessEnds \/ PidReused PROVE Done'
  BY <1>12, Zenon DEF ProcessEnds, PidReused, Done, Hit
<1>13. ASSUME Daemon \/ Clock PROVE Done'
  BY <1>0, <1>13, Zenon DEF Daemon, Clock
<1>14. ASSUME UNCHANGED allVars PROVE Done'
  BY <1>0, <1>14, Zenon DEF allVars
<1> QED
  BY <1>1, <1>2, <1>3, <1>4, <1>6, <1>7, <1>8, <1>9, <1>10, <1>11, <1>12, <1>13, <1>14, ActDone, Zenon
  DEF Next, FixSteps

\* When `ark fix' ends with success and a kill was among its actions, or
\* `ark zap' succeeds, the process that held the pid at first is gone or has a
\* SIGKILL pending, whatever other commands, ends of processes and reuses of the
\* pid came in between; unless zap had a group that does not reach it.
THEOREM KillsAreReal == Spec => []SuccessMeansKilled
<1>1. Done => SuccessMeansKilled
  BY Zenon DEF Done, SuccessMeansKilled
<1> QED  BY <1>1, InitDone, NextDone, PTL DEF Spec

-----------------------------------------------------------------------------
(* Entries are kept. *)

IsLogger(r) == r = [pc |-> r.pc, file |-> r.file, current_size |-> r.current_size]

\* The file that p has open is there; and it has a name, as long as no rotation
\* took the name of another.
OpenIsNamed(p) ==
    logger[p].pc # "closed" =>
        /\ logger[p].file \in 1..Len(files)
        /\ ~ collided => \E n \in Names : names[n] = logger[p].file

Kept ==
    /\ files \in Seq(SUBSET (Loggers \union {Old}))
    /\ names \in [Names -> 0..Len(files)]
    /\ now \in 0..MaxSecond
    /\ logger = [p \in Loggers |-> logger[p]] /\ \A p \in Loggers : IsLogger(logger[p])
    /\ collided \in BOOLEAN
    /\ \A p \in Loggers : OpenIsNamed(p)
    /\ EntryKept

LEMMA InitKept == Init => Kept
<1> SUFFICES ASSUME Init PROVE Kept
  OBVIOUS
<1>1. /\ files = <<{Old}>> /\ names = [n \in Names |-> IF n = Log THEN 1 ELSE 0] /\ now = 0
      /\ logger = [p \in Loggers |-> NewLogger] /\ acked = {Old} /\ collided = FALSE
  BY Zenon DEF Init, AuditInit
<1>2. /\ files \in Seq(SUBSET (Loggers \union {Old})) /\ Len(files) = 1 /\ files[1] = {Old}
  BY <1>1
<1>3. 0 \in Names /\ now \in 0..MaxSecond
  BY <1>1, AuditConstants DEF Names
<1>4. names \in [Names -> 0..Len(files)] /\ names[0] = 1
  BY <1>1, <1>2, <1>3 DEF Log
<1>5. EntryKept
  BY <1>1, <1>2, <1>3, <1>4 DEF EntryKept
<1>6. /\ logger = [p \in Loggers |-> logger[p]]
      /\ \A p \in Loggers : IsLogger(logger[p]) /\ logger[p].pc = "closed"
  BY <1>1, Zenon DEF NewLogger, IsLogger
<1> QED  BY <1>1, <1>2, <1>3, <1>4, <1>5, <1>6, Zenon DEF Kept, OpenIsNamed

\* A step that leaves the files and their names alone and opens nothing.
LEMMA KeptPassive ==
    ASSUME Kept, UNCHANGED <<files, names, acked, collided>>, now' \in 0..MaxSecond,
           logger' = [p \in Loggers |-> logger'[p]],
           \A p \in Loggers : /\ IsLogger(logger'[p])
                              /\ \/ logger'[p].pc = "closed"
                                 \/ logger[p].pc # "closed" /\ logger'[p].file = logger[p].file
    PROVE  Kept'
<1>1. EntryKept'
  BY Zenon DEF Kept, EntryKept
<1>2. ASSUME NEW p \in Loggers PROVE OpenIsNamed(p)'
  <2>1. CASE logger'[p].pc = "closed"
    BY <2>1, Zenon DEF OpenIsNamed
  <2>2. CASE logger[p].pc # "closed" /\ logger'[p].file = logger[p].file
    BY <2>2, Zenon DEF Kept, OpenIsNamed
  <2> QED  BY <2>1, <2>2, Zenon
<1> QED  BY <1>1, <1>2, Zenon DEF Kept

\* The log is opened, and made when it is not there.
LEMMA KeptOpen ==
    ASSUME Kept, NEW p \in Loggers, NEW pc, NEW size, OpenLog(p, pc, size),
           UNCHANGED <<now, acked, collided>>
    PROVE  Kept'
<1>0. 0 \in Names
  BY AuditConstants DEF Names
<1>1. CASE names[Log] # 0
  <2>1. UNCHANGED <<files, names>>
    BY <1>1, Zenon DEF OpenLog
  <2>2. logger' = [logger EXCEPT ![p] = [pc |-> pc, file |-> names[Log], current_size |-> size]]
    BY <1>1, Zenon DEF OpenLog
  <2>3. /\ logger' = [q \in Loggers |-> logger'[q]]
        /\ logger'[p] = [pc |-> pc, file |-> names[Log], current_size |-> size]
        /\ \A q \in Loggers : q # p => logger'[q] = logger[q]
    BY <2>2, Zenon DEF Kept
  <2>4. \A q \in Loggers : IsLogger(logger'[q])
    BY <2>3, Zenon DEF Kept, IsLogger
  <2>5. names[Log] \in 1..Len(files)
    BY <1>0, <1>1, LenProperties DEF Kept, Log
  <2>6. EntryKept'
    BY <2>1, Zenon DEF Kept, EntryKept
  <2>7. ASSUME NEW q \in Loggers PROVE OpenIsNamed(q)'
    <3>1. CASE q = p
      <4>1. logger'[q].file = names[Log]
        BY <2>3, <3>1
      <4> QED  BY <1>0, <2>1, <2>5, <4>1, Zenon DEF OpenIsNamed, Log
    <3>2. CASE q # p
      BY <2>1, <2>3, <3>2, Zenon DEF Kept, OpenIsNamed
    <3> QED  BY <3>1, <3>2, Zenon
  <2> QED  BY <2>1, <2>3, <2>4, <2>6, <2>7, Zenon DEF Kept
<1>2. CASE names[Log] = 0
  <2> DEFINE k == Len(files) + 1
             S == SUBSET (Loggers \union {Old})
  <2>0. files \in Seq(S) /\ Len(files) \in Nat /\ {} \in S
    BY LenProperties, Zenon DEF Kept
  <2>1. files' = Append(files, {})
    BY <1>2, Zenon DEF OpenLog
  <2>2. /\ files' \in Seq(S) /\ Len(files') = k
        /\ \A i \in 1..Len(files) : files'[i] = files[i]
    BY <2>0, <2>1, AppendProperties
  <2>3. names' = [names EXCEPT ![Log] = k]
    BY <1>2, <2>2, Zenon DEF OpenLog
  <2>4. logger' = [logger EXCEPT ![p] = [pc |-> pc, file |-> k, current_size |-> 0]]
    BY <1>2, <2>2, Zenon DEF OpenLog
  <2>5. /\ logger' = [q \in Loggers |-> logger'[q]]
        /\ logger'[p] = [pc |-> pc, file |-> k, current_size |-> 0]
        /\ \A q \in Loggers : q # p => logger'[q] = logger[q]
    BY <2>4, Zenon DEF Kept
  <2>6. \A q \in Loggers : IsLogger(logger'[q])
    BY <2>5, Zenon DEF Kept, IsLogger
  <2>7. /\ names' \in [Names -> 0..Len(files')]
        /\ names'[0] = k /\ \A n \in Names : n # 0 => names'[n] = names[n]
    BY <1>0, <2>0, <2>2, <2>3 DEF Kept, Log
  <2>10. EntryKept'
    <3> SUFFICES ASSUME ~ collided, NEW e \in acked
                 PROVE  \E n \in Names : names'[n] # 0 /\ e \in files'[names'[n]]
      BY Zenon DEF EntryKept
    <3>1. PICK n \in Names : names[n] # 0 /\ e \in files[names[n]]
      BY Zenon DEF Kept, EntryKept
    <3>2. n # 0 /\ names[n] \in 1..Len(files)
      BY <1>2, <2>0, <3>1 DEF Kept, Log
    <3> QED  BY <2>2, <2>7, <3>1, <3>2, Zenon
  <2>11. ASSUME NEW q \in Loggers PROVE OpenIsNamed(q)'
    <3>1. CASE q = p
      <4>1. logger'[q].file = k
        BY <2>5, <3>1
      <4> QED  BY <1>0, <2>0, <2>2, <2>7, <4>1 DEF OpenIsNamed
    <3>2. CASE q # p /\ logger[q].pc # "closed"
      <4>1. /\ logger[q].file \in 1..Len(files) /\ logger'[q] = logger[q]
            /\ ~ collided => \E n \in Names : names[n] = logger[q].file
        BY <2>5, <3>2, Zenon DEF Kept, OpenIsNamed
      <4>2. \A n \in Names : names[n] = logger[q].file => names'[n] = logger[q].file
        BY <1>2, <2>0, <2>7, <4>1 DEF Log
      <4> QED  BY <2>0, <2>2, <4>1, <4>2 DEF OpenIsNamed
    <3>3. CASE q # p /\ logger[q].pc = "closed"
      BY <2>5, <3>3, Zenon DEF OpenIsNamed
    <3> QED  BY <3>1, <3>2, <3>3, Zenon
  <2> QED  BY <2>2, <2>5, <2>6, <2>7, <2>10, <2>11, Zenon DEF Kept
<1> QED  BY <1>1, <1>2, Zenon

\* The rename: what was named is named, unless the new name was taken.
LEMMA KeptRename ==
    ASSUME Kept, NEW p \in Loggers, Rename(p) PROVE Kept'
<1>1. logger[p].pc = "rename" /\ UNCHANGED <<files, now, acked>>
  BY Zenon DEF Rename
<1>2. ASSUME NEW pc, logger' = [logger EXCEPT ![p].pc = pc]
      PROVE  /\ logger' = [q \in Loggers |-> logger'[q]]
             /\ \A q \in Loggers : /\ IsLogger(logger'[q]) /\ logger'[q].file = logger[q].file
                                   /\ logger'[q].pc # "closed" => logger[q].pc # "closed"
  <2>1. logger' = [q \in Loggers |-> IF q = p
                     THEN [pc |-> pc, file |-> logger[p].file, current_size |-> logger[p].current_size]
                     ELSE logger[q]]
    BY <1>2 DEF Kept, IsLogger
  <2> QED  BY <1>1, <2>1, Zenon DEF Kept, IsLogger
<1>3. CASE names[Log] = 0
  <2>1. UNCHANGED <<names, collided>> /\ logger' = [logger EXCEPT ![p].pc = "failed"]
    BY <1>3, Zenon DEF Rename
  <2>2. /\ logger' = [q \in Loggers |-> logger'[q]]
        /\ \A q \in Loggers : /\ IsLogger(logger'[q]) /\ logger'[q].file = logger[q].file
                              /\ logger'[q].pc # "closed" => logger[q].pc # "closed"
    BY <1>2, <2>1, Zenon
  <2>3. now' \in 0..MaxSecond
    BY <1>1, Zenon DEF Kept
  <2> QED  BY <1>1, <2>1, <2>2, <2>3, KeptPassive, Zenon
<1>4. CASE names[Log] # 0
  <2>0. 0 \in Names /\ now + 1 \in Names /\ now + 1 # 0 /\ Len(files) \in Nat
    BY AuditConstants, LenProperties DEF Names, Kept
  <2>1. /\ names' = [names EXCEPT ![0] = 0, ![now + 1] = names[0]]
        /\ collided' = (collided \/ names[now + 1] # 0)
        /\ logger' = [logger EXCEPT ![p].pc = "reopen"]
    BY <1>4, Zenon DEF Rename, Log, Rotated
  <2>2. /\ logger' = [q \in Loggers |-> logger'[q]]
        /\ \A q \in Loggers : /\ IsLogger(logger'[q]) /\ logger'[q].file = logger[q].file
                              /\ logger'[q].pc # "closed" => logger[q].pc # "closed"
    BY <1>2, <2>1, Zenon
  <2>3. /\ names' \in [Names -> 0..Len(files)]
        /\ names'[0] = 0 /\ names'[now + 1] = names[0]
        /\ \A n \in Names \ {0, now + 1} : names'[n] = names[n]
    <3>1. names' = [n \in Names |-> IF n = now + 1 THEN names[0]
                                     ELSE IF n = 0 THEN 0 ELSE names[n]]
      <4>1. names \in [Names -> 0..Len(files)]
        BY Zenon DEF Kept
      <4> QED  BY <2>0, <2>1, <4>1, Zenon
    <3>2. \A n \in Names : names[n] \in 0..Len(files)
      BY Zenon DEF Kept
    <3>3. \A n \in Names : names'[n] = IF n = now + 1 THEN names[0]
                                       ELSE IF n = 0 THEN 0 ELSE names[n]
      BY <3>1, Zenon
    <3>4. \A n \in Names : names'[n] \in 0..Len(files)
      BY <2>0, <3>2, <3>3
    <3>5. names' \in [Names -> 0..Len(files)]
      BY <3>1, <3>4, Zenon
    <3> QED  BY <2>0, <3>3, <3>5, Zenon
  <2>4. ASSUME ~ collided', NEW n \in Names, names[n] # 0
        PROVE  \E m \in Names : names'[m] = names[n]
    <3>1. n # now + 1
      BY <2>1, <2>4, Zenon
    <3>2. CASE n = 0
      BY <2>0, <2>3, <3>2, Zenon
    <3>3. CASE n # 0
      BY <2>3, <3>1, <3>3, Zenon
    <3> QED  BY <3>2, <3>3, Zenon
  <2>5. ~ collided' => ~ collided
    BY <2>1, Zenon DEF Kept
  <2>6. EntryKept'
    <3> SUFFICES ASSUME ~ collided', NEW e \in acked
                 PROVE  \E m \in Names : names'[m] # 0 /\ e \in files[names'[m]]
      BY <1>1, Zenon DEF EntryKept
    <3>1. PICK n \in Names : names[n] # 0 /\ e \in files[names[n]]
      BY <2>5, Zenon DEF Kept, EntryKept
    <3> QED  BY <2>4, <3>1, Zenon
  <2>7. ASSUME NEW q \in Loggers PROVE OpenIsNamed(q)'
    <3>1. CASE logger[q].pc = "closed"
      BY <2>2, <3>1, Zenon DEF OpenIsNamed
    <3>2. CASE logger[q].pc # "closed"
      <4>1. logger[q].file \in 1..Len(files)
        BY <3>2, Zenon DEF Kept, OpenIsNamed
      <4>2. ASSUME ~ collided' PROVE \E m \in Names : names'[m] = logger[q].file
        <5>1. PICK n \in Names : names[n] = logger[q].file
          BY <2>5, <3>2, <4>2, Zenon DEF Kept, OpenIsNamed
        <5>2. names[n] # 0
          BY <2>0, <4>1, <5>1
        <5> QED  BY <2>4, <4>2, <5>1, <5>2, Zenon
      <4> QED  BY <1>1, <2>2, <4>1, <4>2, Zenon DEF OpenIsNamed
    <3> QED  BY <3>1, <3>2, Zenon
  <2>8. collided' \in BOOLEAN
    BY <2>1, Zenon DEF Kept
  <2> QED  BY <1>1, <2>2, <2>3, <2>6, <2>7, <2>8, Zenon DEF Kept
<1> QED  BY <1>3, <1>4, Zenon

\* The write goes to the open file, which has a name.
LEMMA KeptWrite ==
    ASSUME Kept, NEW p \in Loggers, WriteEntry(p) PROVE Kept'
<1>0. logger[p].pc = "write" /\ UNCHANGED <<names, now, collided>> /\ now' \in 0..MaxSecond
  BY Zenon DEF WriteEntry, Kept
<1>1. CASE logger' = [logger EXCEPT ![p].pc = "failed"] /\ UNCHANGED <<files, acked>>
  <2>1. logger' = [q \in Loggers |-> IF q = p
                     THEN [pc |-> "failed", file |-> logger[p].file, current_size |-> logger[p].current_size]
                     ELSE logger[q]]
    BY <1>1 DEF Kept, IsLogger
  <2>2. /\ logger' = [q \in Loggers |-> logger'[q]]
        /\ \A q \in Loggers : /\ IsLogger(logger'[q]) /\ logger'[q].file = logger[q].file
                              /\ logger'[q].pc # "closed" => logger[q].pc # "closed"
    BY <1>0, <2>1, Zenon DEF Kept, IsLogger
  <2> QED  BY <1>0, <1>1, <2>2, KeptPassive, Zenon
<1>2. CASE /\ files' = [files EXCEPT ![logger[p].file] = @ \union {p}]
           /\ logger' = [logger EXCEPT ![p] = [pc |-> "logged", file |-> @.file,
                                               current_size |-> @.current_size + 1]]
           /\ acked' = acked \union {p}
  <2> DEFINE k == logger[p].file
             S == SUBSET (Loggers \union {Old})
             size == logger[p].current_size + 1
  <2>1. logger' = [q \in Loggers |-> IF q = p
                     THEN [pc |-> "logged", file |-> k, current_size |-> size] ELSE logger[q]]
    BY <1>2, Zenon DEF Kept
  <2>2. /\ logger' = [q \in Loggers |-> logger'[q]]
        /\ \A q \in Loggers : /\ IsLogger(logger'[q]) /\ logger'[q].file = logger[q].file
                              /\ logger'[q].pc # "closed" => logger[q].pc # "closed"
    BY <1>0, <2>1, Zenon DEF Kept, IsLogger
  <2>3. k \in 1..Len(files) /\ (~ collided => \E n \in Names : names[n] = k)
    BY <1>0, Zenon DEF Kept, OpenIsNamed
  <2>4. files \in Seq(S) /\ Len(files) \in Nat /\ files[k] \union {p} \in S
    BY <2>3, LenProperties, ElementOfSeq, Zenon DEF Kept
  <2>5. /\ files' \in Seq(S) /\ Len(files') = Len(files)
        /\ files'[k] = files[k] \union {p}
        /\ \A i \in 1..Len(files) : i # k => files'[i] = files[i]
    BY <1>2, <2>3, <2>4, ExceptSeq
  <2>6. EntryKept'
    <3> SUFFICES ASSUME ~ collided, NEW e \in acked \union {p}
                 PROVE  \E n \in Names : names[n] # 0 /\ e \in files'[names[n]]
      BY <1>0, <1>2, Zenon DEF EntryKept
    <3>1. CASE e = p
      BY <2>3, <2>4, <2>5, <3>1
    <3>2. CASE e \in acked
      <4>1. PICK n \in Names : names[n] # 0 /\ e \in files[names[n]]
        BY <3>2, Zenon DEF Kept, EntryKept
      <4>2. names[n] \in 1..Len(files)
        BY <2>4, <4>1 DEF Kept
      <4> QED  BY <2>5, <4>1, <4>2, Zenon
    <3> QED  BY <3>1, <3>2, Zenon
  <2>7. ASSUME NEW q \in Loggers PROVE OpenIsNamed(q)'
    BY <1>0, <2>2, <2>5, Zenon DEF Kept, OpenIsNamed
  <2> QED  BY <1>0, <2>2, <2>5, <2>6, <2>7, Zenon DEF Kept
<1> QED  BY <1>1, <1>2, Zenon DEF WriteEntry

LEMMA NextKept == Kept /\ [Next]_allVars => Kept'
<1> SUFFICES ASSUME Kept, [Next]_allVars PROVE Kept'
  OBVIOUS
<1> USE FixesLog DEF Fixes
<1>0. ASSUME UNCHANGED auditVars PROVE Kept'
  BY <1>0, Zenon DEF Kept, EntryKept, OpenIsNamed, auditVars
<1>1. ASSUME NEW p \in Loggers, UNCHANGED <<files, names, now, acked, collided>>,
             logger' = [logger EXCEPT ![p] = NewLogger]
      PROVE  Kept'
  <2>1. logger' = [q \in Loggers |-> IF q = p THEN NewLogger ELSE logger[q]]
    BY <1>1, Zenon DEF Kept
  <2>2. /\ logger' = [q \in Loggers |-> logger'[q]]
        /\ \A q \in Loggers :
              /\ IsLogger(logger'[q])
              /\ \/ logger'[q].pc = "closed"
                 \/ logger[q].pc # "closed" /\ logger'[q].file = logger[q].file
    BY <2>1, Zenon DEF Kept, IsLogger, NewLogger
  <2>3. now' \in 0..MaxSecond
    BY <1>1, Zenon DEF Kept
  <2> QED  BY <1>1, <2>2, <2>3, KeptPassive, Zenon
<1>2. ASSUME NEW p \in Loggers, BeginLog(p) PROVE Kept'
  <2>1. PICK pc : logger' = [logger EXCEPT ![p].pc = pc]
    BY <1>2, Zenon DEF BeginLog
  <2>2. logger' = [q \in Loggers |-> IF q = p
                     THEN [pc |-> pc, file |-> logger[p].file, current_size |-> logger[p].current_size]
                     ELSE logger[q]]
    BY <2>1 DEF Kept, IsLogger
  <2>3. /\ logger' = [q \in Loggers |-> logger'[q]]
        /\ \A q \in Loggers :
              /\ IsLogger(logger'[q])
              /\ \/ logger'[q].pc = "closed"
                 \/ logger[q].pc # "closed" /\ logger'[q].file = logger[q].file
    <3>1. logger[p].pc = "open"
      BY <1>2, Zenon DEF BeginLog
    <3> QED  BY <2>2, <3>1, Zenon DEF Kept, IsLogger
  <2>4. UNCHANGED <<files, names, acked, collided>> /\ now' \in 0..MaxSecond
    BY <1>2, Zenon DEF BeginLog, Kept
  <2> QED  BY <2>3, <2>4, KeptPassive, Zenon
<1>3. ASSUME Tick PROVE Kept'
  <2>1. UNCHANGED <<files, names, logger, acked, collided>> /\ now' \in 0..MaxSecond
    BY <1>3, AuditConstants DEF Tick, Kept
  <2>2. \A q \in Loggers : OpenIsNamed(q)'
    BY <2>1, Zenon DEF Kept, OpenIsNamed
  <2> QED  BY <2>1, <2>2, Zenon DEF Kept, EntryKept
<1>4. ASSUME NEW f \in Fixes, StartFix(f) \/ PingReturns(f) \/ WhyReturns(f) \/ Act(f) PROVE Kept'
  <2>1. UNCHANGED auditVars
    BY <1>4, Zenon DEF StartFix, PingReturns, WhyReturns, Act
  <2> QED  BY <1>0, <2>1, Zenon
<1>5. ASSUME NEW f \in Fixes, Confirm(f) PROVE Kept'
  <2>1. CASE UNCHANGED auditVars
    BY <1>0, <2>1, Zenon
  <2>2. CASE OpenLogger(f)
    BY <2>2, KeptOpen, Zenon DEF OpenLogger
  <2> QED  BY <1>5, <2>1, <2>2, Zenon DEF Confirm
<1>6. ASSUME NEW f \in Fixes, LogResult(f) \/ EndFix(f) PROVE Kept'
  <2>1. CASE Ended(f)
    BY <1>1, <2>1, Zenon DEF Ended
  <2>2. CASE BeginLog(f)
    BY <1>2, <2>2, Zenon
  <2> QED  BY <1>6, <2>1, <2>2, Zenon DEF LogResult, EndFix
<1>7. ASSUME NEW f \in Fixes, LogSteps(f) PROVE Kept'
  <2>1. CASE Reopen(f)
    BY <2>1, KeptOpen, Zenon DEF Reopen
  <2> QED  BY <1>7, <2>1, KeptRename, KeptWrite, Zenon DEF LogSteps
<1>8. ASSUME NEW f \in Fixes, Interrupt(f) PROVE Kept'
  BY <1>1, <1>8, Zenon DEF Interrupt
<1>9. ASSUME get_process_group \/ kill_process_tree \/ ProcessEnds \/ PidReused \/ Daemon
      PROVE  Kept'
  <2>1. UNCHANGED auditVars
    BY <1>9, Zenon DEF get_process_group, kill_process_tree, ProcessEnds, PidReused, Daemon
  <2> QED  BY <1>0, <2>1, Zenon
<1>10. ASSUME Clock PROVE Kept'
  BY <1>3, <1>10, Zenon DEF Clock
<1>11. ASSUME UNCHANGED allVars PROVE Kept'
  BY <1>0, <1>11, Zenon DEF allVars
<1> QED
  BY <1>4, <1>5, <1>6, <1>7, <1>8, <1>9, <1>10, <1>11, Zenon DEF Next, FixSteps

\* An entry for which log has returned Ok stays in a file that has a name,
\* however many processes rotate and write, unless two rotations fell into one
\* second.
THEOREM EntriesKept == Spec => []EntryKept
<1>1. Kept => EntryKept
  BY Zenon DEF Kept
<1> QED  BY <1>1, InitKept, NextKept, PTL DEF Spec

-----------------------------------------------------------------------------
(* The answers on a connection are in step with its frames.  Where a frame is
   too large the task reads its payload as further frames, so that what is
   said about a frame is said up to the first frame of that kind. *)

Frames == RequestNames \union {"zero", "bad", "huge"}
Responses == {Failure} \union {handle_request(r, x) : r \in RequestNames, x \in Answers}

\* One of the first p frames was too large.
HugeBy(frames, p) == \E k \in 1..p : k <= Len(frames) /\ frames[k] = "huge"

\* Frame p is x and none up to it was too large; or one was.
FrameIs(frames, p, x) ==
    \/ p <= Len(frames) /\ (\A k \in 1..p : frames[k] # "huge") /\ frames[p] = x
    \/ HugeBy(frames, p)

AnswerTo(x, answer) ==
    IF x = "bad" THEN ~ answer.success ELSE answer.success /\ answer.request = x

\* What is left to read continues the frames where the answers end, every
\* answer is about its frame, and the task has lost no frame.
Unread(in, frames, answers) ==
    \A i \in 1..Len(in) : FrameIs(frames, Len(answers) + i, in[i])
Answered(frames, answers) ==
    \A i \in 1..Len(answers) : \E x \in Frames : FrameIs(frames, i, x) /\ AnswerTo(x, answers[i])
NoneLost(in, frames, answers) ==
    /\ Len(frames) <= Len(answers) + Len(in)
    /\ ~ HugeBy(frames, Len(frames)) => Len(frames) = Len(answers) + Len(in)
InStep(in, frames, answers, server) ==
    /\ in \in Seq(Frames) /\ frames \in Seq(Frames) /\ answers \in Seq(Responses)
    /\ Unread(in, frames, answers) /\ Answered(frames, answers)
    /\ server = "open" => NoneLost(in, frames, answers)

\* A fresh connection.
LEMMA StartsInStep == InStep(<<>>, <<>>, <<>>, "open")
BY DEF InStep, Unread, Answered, NoneLost

\* A further frame changes nothing about the frames before it.
LEMMA FrameStays ==
    ASSUME NEW frames \in Seq(Frames), NEW f \in Frames, NEW p \in Nat \ {0}, NEW x, FrameIs(frames, p, x)
    PROVE  FrameIs(Append(frames, f), p, x)
<1>1. /\ Len(frames) \in Nat /\ Len(Append(frames, f)) = Len(frames) + 1
      /\ \A k \in 1..Len(frames) : Append(frames, f)[k] = frames[k]
  BY LenProperties, AppendProperties
<1>2. CASE HugeBy(frames, p)
  BY <1>1, <1>2 DEF FrameIs, HugeBy
<1>3. CASE p <= Len(frames) /\ (\A k \in 1..p : frames[k] # "huge") /\ frames[p] = x
  BY <1>1, <1>3 DEF FrameIs
<1> QED  BY <1>2, <1>3, Zenon DEF FrameIs

\* A frame is sent.
LEMMA SendInStep ==
    ASSUME NEW in, NEW frames, NEW answers, NEW server, NEW f \in Frames,
           InStep(in, frames, answers, server)
    PROVE  InStep(IF server = "open" THEN in \o Wire(f) ELSE in, Append(frames, f), answers, server)
<1> DEFINE fs == Append(frames, f)
           w == IF server = "open" THEN in \o Wire(f) ELSE in
           n == Len(answers) + Len(in)
<1>1. /\ Len(frames) \in Nat /\ Len(in) \in Nat /\ Len(answers) \in Nat
      /\ fs \in Seq(Frames) /\ Len(fs) = Len(frames) + 1 /\ fs[Len(frames) + 1] = f
      /\ \A k \in 1..Len(frames) : fs[k] = frames[k]
  BY LenProperties, AppendProperties DEF InStep
<1>2. /\ Wire(f) \in Seq(Frames) /\ Len(Wire(f)) \in Nat /\ Len(Wire(f)) >= 1 /\ Wire(f)[1] = f
      /\ f # "huge" => Len(Wire(f)) = 1
  <2>1. CASE f = "huge"
    BY <2>1 DEF Wire, Frames
  <2>2. CASE f # "huge"
    BY <2>2 DEF Wire
  <2> QED  BY <2>1, <2>2, Zenon
<1>3. /\ w \in Seq(Frames)
      /\ server = "open" => Len(w) = Len(in) + Len(Wire(f))
      /\ server # "open" => Len(w) = Len(in)
      /\ \A i \in 1..Len(in) : w[i] = in[i]
      /\ server = "open" => \A i \in 1..Len(Wire(f)) : w[Len(in) + i] = Wire(f)[i]
  BY <1>1, <1>2, ConcatProperties DEF InStep
<1> HIDE DEF fs, w
<1>4. ASSUME NEW i \in 1..Len(answers)
      PROVE  \E x \in Frames : FrameIs(fs, i, x) /\ AnswerTo(x, answers[i])
  <2>1. PICK x \in Frames : FrameIs(frames, i, x) /\ AnswerTo(x, answers[i])
    BY Zenon DEF InStep, Answered
  <2>2. i \in Nat \ {0} /\ frames \in Seq(Frames)
    BY <1>1 DEF InStep
  <2> QED  BY <2>1, <2>2, FrameStays, Zenon DEF fs
<1>5. ASSUME NEW i \in 1..Len(in) PROVE FrameIs(fs, Len(answers) + i, w[i])
  <2>1. FrameIs(frames, Len(answers) + i, in[i])
    BY Zenon DEF InStep, Unread
  <2>2. Len(answers) + i \in Nat \ {0} /\ frames \in Seq(Frames)
    BY <1>1 DEF InStep
  <2> QED  BY <1>3, <2>1, <2>2, FrameStays, Zenon DEF fs
<1>6. ASSUME server = "open", NEW i \in 1..Len(Wire(f)) PROVE FrameIs(fs, n + i, w[Len(in) + i])
  <2>1. /\ Len(frames) <= n
        /\ ~ HugeBy(frames, Len(frames)) => Len(frames) = n
    BY <1>6, Zenon DEF InStep, NoneLost
  <2>2. CASE f = "huge"
    BY <1>1, <1>2, <2>1, <2>2 DEF FrameIs, HugeBy
  <2>3. CASE HugeBy(frames, Len(frames))
    BY <1>1, <1>2, <2>1, <2>3 DEF FrameIs, HugeBy
  <2>4. CASE f # "huge" /\ ~ HugeBy(frames, Len(frames))
    <3>0. Len(Wire(f)) = 1
      BY <1>2, <2>4, Zenon
    <3>3. i = 1
      BY <3>0
    <3>4. w[Len(in) + i] = Wire(f)[i]
      BY <1>3, <1>6, Zenon
    <3>1. i = 1 /\ w[Len(in) + i] = f /\ n + i = Len(frames) + 1
      BY <1>1, <1>2, <3>3, <3>4, <2>1, <2>4, Zenon
    <3>2. \A k \in 1..(Len(frames) + 1) : fs[k] # "huge"
      BY <1>1, <2>4 DEF HugeBy
    <3> QED  BY <1>1, <3>1, <3>2 DEF FrameIs
  <2> QED  BY <2>2, <2>3, <2>4, Zenon
<1>7. ASSUME NEW i \in 1..Len(w) PROVE FrameIs(fs, Len(answers) + i, w[i])
  <2>1. CASE i \in 1..Len(in)
    BY <1>5, <2>1, Zenon
  <2>2. CASE i \notin 1..Len(in)
    <3>1. server = "open" /\ i - Len(in) \in 1..Len(Wire(f))
      BY <1>1, <1>2, <1>3, <2>2
    <3>2. FrameIs(fs, n + (i - Len(in)), w[Len(in) + (i - Len(in))])
      BY <1>6, <3>1, Zenon
    <3>3. n + (i - Len(in)) = Len(answers) + i /\ Len(in) + (i - Len(in)) = i
      BY <1>1
    <3> QED  BY <3>2, <3>3, Zenon
  <2> QED  BY <2>1, <2>2, Zenon
<1>8. ASSUME server = "open" PROVE NoneLost(w, fs, answers)
  <2>1. /\ Len(frames) <= n
        /\ ~ HugeBy(frames, Len(frames)) => Len(frames) = n
    BY <1>8, Zenon DEF InStep, NoneLost
  <2>2. ~ HugeBy(fs, Len(fs)) => ~ HugeBy(frames, Len(frames)) /\ f # "huge"
    <3>1. HugeBy(frames, Len(frames)) => HugeBy(fs, Len(fs))
      BY <1>1 DEF HugeBy
    <3>2. f = "huge" => HugeBy(fs, Len(fs))
      BY <1>1 DEF HugeBy
    <3> QED  BY <3>1, <3>2, Zenon
  <2>3. Len(w) = Len(in) + Len(Wire(f)) /\ Len(Wire(f)) \in Nat /\ Len(Wire(f)) >= 1
    BY <1>2, <1>3, <1>8, Zenon
  <2>4. Len(fs) <= Len(answers) + Len(w)
    BY <1>1, <2>1, <2>3
  <2>5. ASSUME ~ HugeBy(fs, Len(fs)) PROVE Len(fs) = Len(answers) + Len(w)
    <3>1. Len(Wire(f)) = 1 /\ Len(frames) = n
      BY <1>2, <2>1, <2>2, <2>5, Zenon
    <3> QED  BY <1>1, <2>3, <3>1
  <2> QED  BY <2>4, <2>5, Zenon DEF NoneLost
<1>9. answers \in Seq(Responses)
  BY Zenon DEF InStep
<1>10. Unread(w, fs, answers) /\ Answered(fs, answers)
  BY <1>4, <1>7, Zenon DEF Unread, Answered
<1>11. InStep(w, fs, answers, server)
  BY <1>1, <1>3, <1>8, <1>9, <1>10, Zenon DEF InStep
<1> QED  BY <1>11, Zenon DEF fs, w

\* A frame is answered.
LEMMA AnswerInStep ==
    ASSUME NEW in, NEW frames, NEW answers, NEW server, NEW r \in Responses, in # <<>>,
           InStep(in, frames, answers, server),
           \/ Head(in) \in {"huge", "bad"} /\ r = Failure
           \/ Head(in) \in RequestNames /\ \E x \in Answers : r = handle_request(Head(in), x)
    PROVE  InStep(Tail(in), frames, Append(answers, r), server)
<1> DEFINE as == Append(answers, r)
           t == Tail(in)
<1>1. /\ Len(frames) \in Nat /\ Len(in) \in Nat \ {0} /\ Len(answers) \in Nat
      /\ frames \in Seq(Frames)
      /\ as \in Seq(Responses) /\ Len(as) = Len(answers) + 1 /\ as[Len(answers) + 1] = r
      /\ \A k \in 1..Len(answers) : as[k] = answers[k]
  BY LenProperties, AppendProperties, EmptySeq DEF InStep
<1>2. /\ t \in Seq(Frames) /\ Len(t) = Len(in) - 1 /\ Head(in) = in[1] /\ in[1] \in Frames
      /\ \A i \in 1..Len(t) : t[i] = in[i + 1]
  BY <1>1, HeadTailProperties, ElementOfSeq DEF InStep
<1>3. FrameIs(frames, Len(answers) + 1, Head(in))
  BY <1>1, <1>2 DEF InStep, Unread
<1>4. \E x \in Frames : FrameIs(frames, Len(answers) + 1, x) /\ AnswerTo(x, r)
  <2>1. CASE Head(in) \in RequestNames /\ \E x \in Answers : r = handle_request(Head(in), x)
    BY <1>2, <1>3, <2>1 DEF AnswerTo, handle_request, RequestNames
  <2>2. CASE Head(in) = "bad" /\ r = Failure
    BY <1>2, <1>3, <2>2, Zenon DEF AnswerTo, Failure
  <2>3. CASE Head(in) = "huge" /\ r = Failure
    <3>1. HugeBy(frames, Len(answers) + 1)
      BY <1>1, <1>3, <2>3 DEF FrameIs, HugeBy
    <3> QED  BY <2>3, <3>1, Zenon DEF FrameIs, AnswerTo, Failure, Frames
  <2> QED  BY <2>1, <2>2, <2>3, Zenon
<1>5. ASSUME NEW i \in 1..Len(as)
      PROVE  \E x \in Frames : FrameIs(frames, i, x) /\ AnswerTo(x, as[i])
  <2>1. CASE i = Len(answers) + 1
    BY <1>1, <1>4, <2>1, Zenon
  <2>2. CASE i \in 1..Len(answers)
    BY <1>1, <2>2, Zenon DEF InStep, Answered
  <2> QED  BY <1>1, <2>1, <2>2
<1>6. ASSUME NEW i \in 1..Len(t) PROVE FrameIs(frames, Len(as) + i, t[i])
  <2>1. i + 1 \in 1..Len(in) /\ Len(as) + i = Len(answers) + (i + 1)
    BY <1>1, <1>2
  <2>2. FrameIs(frames, Len(answers) + (i + 1), in[i + 1])
    BY <2>1, Zenon DEF InStep, Unread
  <2> QED  BY <1>2, <2>1, <2>2, Zenon
<1>7. Len(as) + Len(t) = Len(answers) + Len(in)
  BY <1>1, <1>2
<1> HIDE DEF as, t
<1>8. Unread(t, frames, as) /\ Answered(frames, as)
  BY <1>5, <1>6, Zenon DEF Unread, Answered
<1>9. server = "open" => NoneLost(t, frames, as)
  BY <1>7, Zenon DEF InStep, NoneLost
<1>10. InStep(t, frames, as, server)
  BY <1>1, <1>2, <1>8, <1>9, Zenon DEF InStep
<1> QED  BY <1>10, Zenon DEF as, t

\* A connection of the daemon by its fields.
ConnOf(in, out, server, frames, answers) ==
    [in |-> in, out |-> out, server |-> server, frames |-> frames, answers |-> answers]

LEMMA ConnFields ==
    ASSUME NEW i, NEW o, NEW s, NEW f, NEW a
    PROVE  LET cn == ConnOf(i, o, s, f, a) IN
           cn.in = i /\ cn.out = o /\ cn.server = s /\ cn.frames = f /\ cn.answers = a
BY Zenon DEF ConnOf

\* A connection after an answer, after a frame and after the daemon's death.
OnAnswer(cn, x, y, z) == [cn EXCEPT !.in = x, !.out = y, !.answers = z]
OnFrame(cn, x, y) == [cn EXCEPT !.in = x, !.frames = y]
OnDeath(cn, x, y) == [cn EXCEPT !.server = x, !.in = y]

LEMMA AnswerExcept ==
    ASSUME NEW i, NEW o, NEW s, NEW f, NEW a, NEW x, NEW y, NEW z
    PROVE  OnAnswer(ConnOf(i, o, s, f, a), x, y, z) = ConnOf(x, y, s, f, z)
<1> DEFINE o1 == [ConnOf(i, o, s, f, a) EXCEPT !.in = x]
           o2 == [o1 EXCEPT !.out = y]
           o3 == [o2 EXCEPT !.answers = z]
<1>1. OnAnswer(ConnOf(i, o, s, f, a), x, y, z) = o3
  BY Zenon DEF OnAnswer
<1>2. o1 = ConnOf(x, o, s, f, a)
  BY DEF ConnOf
<1> HIDE DEF o1
<1>3. o2 = ConnOf(x, y, s, f, a)
  BY <1>2 DEF ConnOf
<1> HIDE DEF o2
<1>4. o3 = ConnOf(x, y, s, f, z)
  BY <1>3 DEF ConnOf
<1> HIDE DEF o3
<1> QED  BY <1>1, <1>4, Zenon

LEMMA FrameExcept ==
    ASSUME NEW i, NEW o, NEW s, NEW f, NEW a, NEW x, NEW y
    PROVE  OnFrame(ConnOf(i, o, s, f, a), x, y) = ConnOf(x, o, s, y, a)
<1> DEFINE o1 == [ConnOf(i, o, s, f, a) EXCEPT !.in = x]
           o2 == [o1 EXCEPT !.frames = y]
<1>1. OnFrame(ConnOf(i, o, s, f, a), x, y) = o2
  BY Zenon DEF OnFrame
<1>2. o1 = ConnOf(x, o, s, f, a)
  BY DEF ConnOf
<1> HIDE DEF o1
<1>3. o2 = ConnOf(x, o, s, y, a)
  BY <1>2 DEF ConnOf
<1> HIDE DEF o2
<1> QED  BY <1>1, <1>3, Zenon

LEMMA DeathExcept ==
    ASSUME NEW i, NEW o, NEW s, NEW f, NEW a, NEW x, NEW y
    PROVE  OnDeath(ConnOf(i, o, s, f, a), x, y) = ConnOf(y, o, x, f, a)
<1> DEFINE o1 == [ConnOf(i, o, s, f, a) EXCEPT !.server = x]
           o2 == [o1 EXCEPT !.in = y]
<1>1. OnDeath(ConnOf(i, o, s, f, a), x, y) = o2
  BY Zenon DEF OnDeath
<1>2. o1 = ConnOf(i, o, x, f, a)
  BY DEF ConnOf
<1> HIDE DEF o1
<1>3. o2 = ConnOf(y, o, x, f, a)
  BY <1>2 DEF ConnOf
<1> HIDE DEF o2
<1> QED  BY <1>1, <1>3, Zenon

\* The inductive invariant: every open connection is in step.
GoodConn(cn) == \E i, o, s, f, a : cn = ConnOf(i, o, s, f, a) /\ InStep(i, f, a, s)
Connected ==
    /\ conn = [c \in Clients |-> conn[c]]
    /\ \A c \in Clients : conn[c] # None => GoodConn(conn[c])

\* What the handlers make of one connection.
LEMMA NewConnGood == GoodConn(NewConn)
BY StartsInStep, Zenon DEF GoodConn, ConnOf, NewConn

LEMMA SendsGood == ASSUME NEW cn, GoodConn(cn), NEW frame \in Frames PROVE GoodConn(Sends(cn, frame))
<1>1. PICK i, o, s, f, a : cn = ConnOf(i, o, s, f, a) /\ InStep(i, f, a, s)
  BY Zenon DEF GoodConn
<1>2. cn.in = i /\ cn.server = s /\ cn.frames = f
  BY <1>1, ConnFields
<1> DEFINE w == IF s = "open" THEN i \o Wire(frame) ELSE i
           fs == Append(f, frame)
<1>3. InStep(w, fs, a, s)
  BY <1>1, SendInStep, Zenon
<1>4. Sends(cn, frame) = OnFrame(ConnOf(i, o, s, f, a), w, fs)
  BY <1>1, <1>2, Zenon DEF Sends, OnFrame
<1> HIDE DEF w, fs
<1>5. Sends(cn, frame) = ConnOf(w, o, s, fs, a)
  BY <1>4, FrameExcept
<1> QED  BY <1>3, <1>5, Zenon DEF GoodConn

\* One connection is replaced.
LEMMA ConnReplaced ==
    ASSUME Connected, NEW c \in Clients, NEW cn, conn' = [conn EXCEPT ![c] = cn],
           cn # None => GoodConn(cn)
    PROVE  Connected'
BY Zenon DEF Connected

\* A call opens its own connection and closes the streamer's.
LEMMA CallGood ==
    ASSUME Connected, NEW c \in Callers, NEW request \in RequestNames, Call(c, request)
    PROVE  Connected'
<1> DEFINE cn == IF daemon = "down" THEN None ELSE Sends(NewConn, request)
<1>1. cn # None => GoodConn(cn)
  BY SendsGood, NewConnGood, Zenon DEF Frames
<1>2. conn' = [conn EXCEPT ![c] = cn, ![Streamer] = None]
  BY Zenon DEF Call
<1> HIDE DEF cn
<1>3. conn' = [d \in Clients |-> IF d = Streamer THEN None ELSE IF d = c THEN cn ELSE conn[d]]
  BY <1>2, Zenon DEF Connected, Clients
<1> QED  BY <1>1, <1>3, Zenon DEF Connected

\* The connection task answers the first unread frame.
LEMMA RespondGood ==
    ASSUME Connected, NEW c \in Clients, conn[c] # None, conn[c].in # <<>>, NEW r,
           \/ Head(conn[c].in) \in {"huge", "bad"} /\ r = Failure
           \/ /\ Head(conn[c].in) \in RequestNames
              /\ \E x \in Answers : r = handle_request(Head(conn[c].in), x),
           Respond(c, r)
    PROVE  Connected'
<1>1. PICK i, o, s, f, a : conn[c] = ConnOf(i, o, s, f, a) /\ InStep(i, f, a, s)
  BY Zenon DEF Connected, GoodConn
<1>2. conn[c].in = i /\ conn[c].out = o /\ conn[c].answers = a
  BY <1>1, ConnFields
<1>3. r \in Responses
  BY DEF Responses
<1>4. InStep(Tail(i), f, Append(a, r), s)
  BY <1>1, <1>2, <1>3, AnswerInStep, Zenon
<1> DEFINE cn == OnAnswer(ConnOf(i, o, s, f, a), Tail(i), Append(o, r), Append(a, r))
<1>5. conn' = [conn EXCEPT ![c] = cn]
  BY <1>1, <1>2, Zenon DEF Respond, OnAnswer
<1>6. cn = ConnOf(Tail(i), Append(o, r), s, f, Append(a, r))
  BY AnswerExcept
<1> HIDE DEF cn
<1>7. GoodConn(cn)
  BY <1>4, <1>6, Zenon DEF GoodConn
<1> QED  BY <1>5, <1>7, ConnReplaced, Zenon

LEMMA InitConnected == Init => Connected
BY Zenon DEF Init, IpcInit, Connected

\* The task of a connection ends, waits for the graph, or dies with the daemon.
LEMMA EndedInStep ==
    ASSUME NEW in, NEW frames, NEW answers, NEW server, InStep(in, frames, answers, server)
    PROVE  /\ InStep(in, frames, answers, "ended")
           /\ InStep(in, frames, answers, "blocked")
           /\ InStep(<<>>, frames, answers, "ended")
BY DEF InStep, Unread

\* Every step of the daemon and of the streaming client.
LEMMA IpcConnected == ASSUME Connected, IpcNext PROVE Connected'
<1>1. CASE StreamerConnects
  BY <1>1, NewConnGood, ConnReplaced, Zenon DEF StreamerConnects, Clients
<1>2. ASSUME NEW f \in RequestNames \union {"zero", "bad", "huge"}, StreamerSends(f) PROVE Connected'
  <2>1. /\ conn[Streamer] # None /\ Streamer \in Clients
        /\ conn' = [conn EXCEPT ![Streamer] = Sends(conn[Streamer], f)]
    BY <1>2, Zenon DEF StreamerSends, Connected, Clients
  <2>2. GoodConn(Sends(conn[Streamer], f))
    BY <2>1, SendsGood, Zenon DEF Connected, Frames
  <2> QED  BY <2>1, <2>2, ConnReplaced, Zenon
<1>3. ASSUME NEW c \in Clients, handle_client_unix(c) PROVE Connected'
  <2>1. conn[c] # None /\ conn[c].in # <<>> /\ GoodConn(conn[c])
    BY <1>3, Zenon DEF handle_client_unix, Connected
  <2>2. ASSUME NEW x \in {"ended", "blocked"}, conn' = [conn EXCEPT ![c].server = x]
        PROVE  Connected'
    <3>1. PICK i, o, s, f, a : conn[c] = ConnOf(i, o, s, f, a) /\ InStep(i, f, a, s)
      BY <2>1, Zenon DEF GoodConn
    <3> DEFINE cn == [ConnOf(i, o, s, f, a) EXCEPT !.server = x]
    <3>2. conn' = [conn EXCEPT ![c] = cn]
      BY <2>2, <3>1, Zenon DEF Connected
    <3>3. cn = ConnOf(i, o, x, f, a)
      BY DEF ConnOf
    <3>4. InStep(i, f, a, x)
      BY <3>1, EndedInStep, Zenon
    <3> HIDE DEF cn
    <3>5. GoodConn(cn)
      BY <3>3, <3>4, Zenon DEF GoodConn
    <3> QED  BY <3>2, <3>5, ConnReplaced, Zenon
  <2>3. CASE Head(conn[c].in) \in {"huge", "bad"} /\ Respond(c, Failure)
    BY <2>1, <2>3, RespondGood, Zenon
  <2>4. ASSUME Head(conn[c].in) \in RequestNames, NEW x \in Answers,
               Respond(c, handle_request(Head(conn[c].in), x))
        PROVE  Connected'
    BY <2>1, <2>4, RespondGood, Zenon
  <2>5. CASE Head(conn[c].in) \in RequestNames /\ Answer(c, Head(conn[c].in))
    BY <2>2, <2>4, <2>5, Zenon DEF Answer, Block
  <2> QED  BY <1>3, <2>2, <2>3, <2>5, Zenon DEF handle_client_unix
<1>4. CASE DaemonDies
  <2>1. conn' = [c \in Clients |-> IF conn[c] = None THEN None
                                  ELSE [conn[c] EXCEPT !.server = "ended", !.in = <<>>]]
    BY <1>4, Zenon DEF DaemonDies
  <2>2. ASSUME NEW c \in Clients, conn[c] # None
        PROVE  GoodConn([conn[c] EXCEPT !.server = "ended", !.in = <<>>])
    <3>1. PICK i, o, s, f, a : conn[c] = ConnOf(i, o, s, f, a) /\ InStep(i, f, a, s)
      BY <2>2, Zenon DEF Connected, GoodConn
    <3>2. [conn[c] EXCEPT !.server = "ended", !.in = <<>>]
              = OnDeath(ConnOf(i, o, s, f, a), "ended", <<>>)
      BY <3>1, Zenon DEF OnDeath
    <3>3. OnDeath(ConnOf(i, o, s, f, a), "ended", <<>>)
              = ConnOf(<<>>, o, "ended", f, a)
      BY DeathExcept
    <3>4. InStep(<<>>, f, a, "ended")
      BY <3>1, EndedInStep, Zenon
    <3>5. GoodConn(ConnOf(<<>>, o, "ended", f, a))
      BY <3>4, Zenon DEF GoodConn
    <3> QED  BY <3>2, <3>3, <3>5, Zenon
  <2> QED  BY <2>1, <2>2, Zenon DEF Connected
<1>5. CASE serve
  BY <1>5, Zenon DEF serve, Connected
<1> QED  BY <1>1, <1>2, <1>3, <1>4, <1>5, Zenon DEF IpcNext

\* Every step of the system.
LEMMA NextConnected == Connected /\ [Next]_allVars => Connected'
<1> SUFFICES ASSUME Connected, [Next]_allVars PROVE Connected'
  OBVIOUS
<1>0. ASSUME UNCHANGED conn PROVE Connected'
  BY <1>0, Zenon DEF Connected
<1>1. ASSUME NEW f \in Fixes, conn' = [conn EXCEPT ![f] = None] PROVE Connected'
  BY <1>1, ConnReplaced, Zenon DEF Fixes, Clients
<1>2. ASSUME NEW f \in Fixes, StartFix(f) PROVE Connected'
  BY <1>2, CallGood, Zenon DEF StartFix, Fixes, RequestNames
<1>3. ASSUME NEW f \in Fixes, PingReturns(f) PROVE Connected'
  <2>1. Call(f, "why") \/ conn' = [conn EXCEPT ![f] = None]
    BY <1>3, Zenon DEF PingReturns
  <2> QED  BY <1>1, <2>1, CallGood, Zenon DEF Fixes, RequestNames
<1>4. ASSUME NEW f \in Fixes, WhyReturns(f) PROVE Connected'
  BY <1>1, <1>4, Zenon DEF WhyReturns
<1>5. ASSUME NEW f \in Fixes,
             Act(f) \/ LogResult(f) \/ LogSteps(f) \/ EndFix(f) \/ Confirm(f) \/ Interrupt(f)
      PROVE  Connected'
  BY <1>0, <1>5, Zenon DEF Act, LogResult, LogSteps, EndFix, Confirm, Interrupt, ipcVars
<1>6. CASE get_process_group \/ kill_process_tree \/ ProcessEnds \/ PidReused \/ Clock
  BY <1>0, <1>6, Zenon DEF get_process_group, kill_process_tree, ProcessEnds, PidReused, Clock, ipcVars
<1>7. CASE Daemon
  BY <1>7, IpcConnected, Zenon DEF Daemon
<1>8. CASE UNCHANGED allVars
  BY <1>0, <1>8, Zenon DEF allVars, ipcVars
<1> QED  BY <1>2, <1>3, <1>4, <1>5, <1>6, <1>7, <1>8, Zenon DEF Next, FixSteps

\* The answers on a connection are about its frames, in their order, whatever
\* the frames, however the reads and answers of several connections
\* interleave, and though the daemon dies in between; up to an oversized frame.
THEOREM AnswersInStep == Spec => []AnswersAligned
<1>1. Connected => AnswersAligned
  <2> SUFFICES ASSUME Connected, NEW c \in Clients, conn[c] # None,
                      NEW i \in DOMAIN conn[c].answers
               PROVE  LET frames == conn[c].frames
                          Plain(p) == p <= Len(frames) /\ \A k \in 1..p : frames[k] # "huge"
                          answer == conn[c].answers[i] IN
                      \/ Plain(i) /\ (IF frames[i] = "bad" THEN ~ answer.success
                                      ELSE answer.success /\ answer.request = frames[i])
                      \/ \E k \in 1..i : k <= Len(frames) /\ frames[k] = "huge"
    BY Zenon DEF AnswersAligned
  <2>0. PICK j, o, s, f, a : conn[c] = ConnOf(j, o, s, f, a) /\ InStep(j, f, a, s)
    BY Zenon DEF Connected, GoodConn
  <2>1. InStep(conn[c].in, conn[c].frames, conn[c].answers, conn[c].server)
    BY <2>0, ConnFields
  <2>2. i \in 1..Len(conn[c].answers)
    BY <2>1, LenProperties, Zenon DEF InStep
  <2>3. PICK x \in Frames : FrameIs(conn[c].frames, i, x) /\ AnswerTo(x, conn[c].answers[i])
    BY <2>1, <2>2, Zenon DEF InStep, Answered
  <2> QED  BY <2>3, Zenon DEF FrameIs, HugeBy, AnswerTo
<1> QED  BY <1>1, InitConnected, NextConnected, PTL DEF Spec

=============================================================================
