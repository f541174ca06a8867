------------------------------- MODULE ArkFix -------------------------------
(***************************************************************************)
(* `ark fix' and `ark zap' (agent/src/main.rs, agent/src/exec): several    *)
(* processes that ask the daemon about one pid (Ipc), act on the process   *)
(* that holds it and write to one audit log (AuditLog).                    *)
(*                                                                         *)
(* The process may end by itself and its pid may go to another one.        *)
(***************************************************************************)
EXTENDS Ipc, AuditLog, TLC

CONSTANT MaxCommands

Fixes == Callers    \* the `ark fix' processes, each a client and a logger
ASSUME FixesLog == Loggers = Callers

VARIABLES
    fix,            \* per `ark fix': pc, the actions left, the results
    zap,            \* the `ark zap': pc and what get_process_group told it
    holder,         \* who holds the pid: "target", "other" or "none"
    signalled       \* has it been sent a SIGKILL?

pidVars == <<holder, signalled>>
procVars == <<fix, zap, pidVars>>
allVars == <<ipcVars, auditVars, procVars>>

\* A process that has no action to do.
FixAt(pc, executed) == [pc |-> pc, todo |-> <<>>, executed |-> executed, failed |-> {}]
NewFix == FixAt("start", {})

Init ==
    /\ IpcInit /\ AuditInit
    /\ fix = [f \in Fixes |-> NewFix]
    /\ zap = [pc |-> "start", group |-> "unknown"]
    /\ holder = "target" /\ signalled = FALSE

-----------------------------------------------------------------------------
(* The process and its pid. *)

\* kill -9 <pid>: whoever holds the pid is sent the signal, unless that is
\* refused; no such process counts as done.
KillByPid(ok) ==
    /\ UNCHANGED holder
    /\ \/ holder = "none" /\ ok /\ UNCHANGED signalled
       \/ holder # "none" /\ ok /\ signalled' = TRUE
       \/ holder # "none" /\ ~ ok /\ UNCHANGED signalled

\* A process holds its pid until it has ended and its parent has waited for it:
\* by itself, or some time after the signal.
ProcessEnds ==
    /\ holder # "none" /\ holder' = "none" /\ signalled' = FALSE
    /\ UNCHANGED <<ipcVars, auditVars, fix, zap>>
PidReused ==
    /\ holder = "none" /\ holder' = "other"
    /\ UNCHANGED <<ipcVars, auditVars, fix, zap, signalled>>

-----------------------------------------------------------------------------
(* ark fix. *)

\* The scene of the first cause that has the words of one. A cause is the set
\* of its words that matter.
SceneOf(cause) ==
    IF {"gpu", "oom"} \subseteq cause THEN "GpuOom"
    ELSE IF "network" \in cause THEN "NetworkStall"
    ELSE IF "storage" \in cause THEN "StorageIoError"
    ELSE IF "crash" \in cause THEN "ProcessCrash" ELSE "none"

identify_scene_from_causes(causes) ==
    LET scenes == SelectSeq([i \in DOMAIN causes |-> SceneOf(causes[i])], LAMBDA x : x # "none") IN
    IF scenes = <<>> THEN "WorkloadStalled" ELSE Head(scenes)

create_analysis_from_causes(scene) ==
    CASE scene = "GpuOom" -> <<"dump signal", "isolate, zap">>
      [] scene = "NetworkStall" -> <<"check PFC", "check RoCE">>
      [] scene = "WorkloadStalled" -> <<"zap", "check checkpoint">>
      [] OTHER -> <<"zap">>

\* The first kind of action whose words the text has; none for the network's.
from_recommendation(text) ==
    CASE text = "dump signal" -> "signal"
      [] text \in {"isolate, zap", "zap"} -> "kill"
      [] text = "check checkpoint" -> "check"
      [] OTHER -> None

Priority(action) == CASE action = "signal" -> 1 [] action = "check" -> 4 [] action = "kill" -> 10

\* The actions of the recommendations, the kill last.
parse_recommendations(texts) ==
    LET actions == SelectSeq([i \in DOMAIN texts |-> from_recommendation(texts[i])],
                             LAMBDA a : a # None) IN
    SortSeq(actions, LAMBDA a, b : Priority(a) < Priority(b))

\* Bound: how many of the commands run in one behaviour.
MayStart == Cardinality({f \in Fixes : fix[f].pc # "start"} \union
                        (IF zap.pc # "start" THEN {Streamer} ELSE {})) < MaxCommands

\* fix_process: ping, then the causes, each over a connection of its own.
StartFix(f) ==
    /\ fix[f].pc = "start" /\ MayStart
    /\ Call(f, "ping")
    /\ fix' = [fix EXCEPT ![f].pc = "ping"]
    /\ UNCHANGED <<daemon, restarts, auditVars, zap, pidVars>>

PingReturns(f) ==
    /\ fix[f].pc = "ping"
    /\ \E response \in {None, Failure} \union {handle_request("ping", None)} :
        /\ CallReturns(f, response)
        /\ IF response # None /\ response.success
           THEN Call(f, "why") /\ fix' = [fix EXCEPT ![f].pc = "why"]
           ELSE /\ conn' = [conn EXCEPT ![f] = None]
                /\ fix' = [fix EXCEPT ![f].pc = "ended"]
    /\ UNCHANGED <<daemon, restarts, auditVars, zap, pidVars>>

WhyReturns(f) ==
    /\ fix[f].pc = "why"
    /\ \E response \in {None, Failure} \union {handle_request("why", found) : found \in Answers} :
        /\ CallReturns(f, response)
        /\ fix' = [fix EXCEPT ![f] =
              IF response # None /\ response.success
              THEN [@ EXCEPT !.pc = "confirm", !.todo = parse_recommendations(
                        create_analysis_from_causes(identify_scene_from_causes(response.data)))]
              ELSE [@ EXCEPT !.pc = "ended"]]
    /\ conn' = [conn EXCEPT ![f] = None]
    /\ UNCHANGED <<daemon, restarts, auditVars, zap, pidVars>>

\* The answer to the question, and the audit log when one is asked for; fix
\* ends before it acts when the log cannot be opened.
Confirm(f) ==
    /\ fix[f].pc = "confirm"
    /\ \/ fix' = [fix EXCEPT ![f].pc = "ended"] /\ UNCHANGED auditVars
       \/ fix' = [fix EXCEPT ![f].pc = "act"] /\ OpenLogger(f)
       \/ fix' = [fix EXCEPT ![f].pc = "act"] /\ UNCHANGED auditVars
    /\ UNCHANGED <<ipcVars, zap, pidVars>>

\* Mutant: whatever kill prints is taken for a process that is gone.
execute_KillIsDone(action, ok) ==
    \/ action = "signal" /\ (ok => holder # "none") /\ UNCHANGED pidVars
    \/ action = "check" /\ UNCHANGED pidVars
    \/ action = "kill" /\ ok /\ \E killed \in BOOLEAN : KillByPid(killed)

\* send_signal, check_checkpoint and kill_process.
execute(action, ok) ==
    \/ action = "signal" /\ (ok => holder # "none") /\ UNCHANGED pidVars
    \/ action = "check" /\ UNCHANGED pidVars
    \/ action = "kill" /\ KillByPid(ok)

\* fix_from_analysis: one action after the other, whatever became of the ones
\* before.
Act(f) ==
    /\ fix[f].pc = "act" /\ fix[f].todo # <<>>
    /\ LET action == Head(fix[f].todo) IN
       \E ok \in BOOLEAN :
          /\ execute(action, ok)
          /\ fix' = [fix EXCEPT ![f] =
                [pc       |-> "act",
                 todo     |-> Tail(fix[f].todo),
                 executed |-> IF ok THEN @.executed \union {action} ELSE @.executed,
                 failed   |-> IF ok THEN @.failed ELSE @.failed \union {action}]]
    /\ UNCHANGED <<ipcVars, auditVars, zap>>

\* The result: without actions, or with one that failed, it is no success. What
\* was executed matters only in a success.
Result(f) == IF fix[f].failed = {} THEN fix[f].executed ELSE {}

Ended(f) ==
    /\ fix' = [fix EXCEPT ![f] = FixAt(IF Result(f) # {} THEN "succeeded" ELSE "ended", Result(f))]
    /\ logger' = [logger EXCEPT ![f] = NewLogger]
    /\ UNCHANGED <<files, names, now, acked, collided>>

LogResult(f) ==
    /\ fix[f].pc = "act" /\ fix[f].todo = <<>>
    /\ IF logger[f].pc = "closed" THEN Ended(f)
       ELSE fix' = [fix EXCEPT ![f] = FixAt("log", Result(f))] /\ BeginLog(f)
    /\ UNCHANGED <<ipcVars, zap, pidVars>>

LogSteps(f) ==
    /\ fix[f].pc = "log"
    /\ Rename(f) \/ Reopen(f) \/ WriteEntry(f)
    /\ UNCHANGED <<ipcVars, fix, zap, pidVars>>

\* An entry that could not be written is only reported on stderr.
EndFix(f) ==
    /\ fix[f].pc = "log" /\ logger[f].pc \in {"logged", "failed"}
    /\ Ended(f)
    /\ UNCHANGED <<ipcVars, zap, pidVars>>

\* `ark fix' is killed on the way; before it acts that is as if it had ended.
Interrupt(f) ==
    /\ fix[f].pc \in {"act", "log"}
    /\ fix' = [fix EXCEPT ![f] = FixAt("ended", {})]
    /\ logger' = [logger EXCEPT ![f] = NewLogger]
    /\ UNCHANGED <<ipcVars, files, names, now, acked, collided, zap, pidVars>>

-----------------------------------------------------------------------------
(* ark zap. *)

\* get_process_group: the fifth field of /proc/<pid>/stat, if it is a number.
\* "another" is a group through which the process is not reached: a blank in its
\* name has moved the fields, or it may not be signalled and others of its
\* group may.
get_process_group ==
    /\ zap.pc = "start"
    /\ MayStart
    /\ \E group \in IF holder = "none" THEN {"unknown"} ELSE {holder, "another", "unknown"} :
           zap' = [pc |-> "kill", group |-> group]
    /\ UNCHANGED <<ipcVars, auditVars, fix, pidVars>>

\* kill_process_tree: the group, or without one the pid. A group that is not
\* there counts as done; of one that has lost the process others may be left.
kill_process_tree ==
    /\ zap.pc = "kill"
    /\ \E ok \in BOOLEAN :
        /\ \/ zap.group = "unknown" /\ KillByPid(ok)
           \/ zap.group = holder /\ KillByPid(ok)
           \/ zap.group \in {"target", "other"} /\ zap.group # holder /\ UNCHANGED pidVars
           \/ zap.group = "another" /\ UNCHANGED pidVars
        /\ zap' = [zap EXCEPT !.pc = IF ok THEN "succeeded" ELSE "failed"]
    /\ UNCHANGED <<ipcVars, auditVars, fix>>

-----------------------------------------------------------------------------

FixSteps(f) ==
    \/ StartFix(f) \/ PingReturns(f) \/ WhyReturns(f)
    \/ Act(f) \/ LogResult(f) \/ LogSteps(f) \/ EndFix(f)

\* Bound: the streamer comes before the first command.
Daemon ==
    /\ IpcNext
    /\ conn[Streamer] = None /\ conn'[Streamer] # None => \A f \in Fixes : fix[f].pc = "start"
    /\ UNCHANGED <<auditVars, procVars>>
Clock == Tick /\ UNCHANGED <<ipcVars, procVars>>

Next ==
    \/ \E f \in Fixes : FixSteps(f) \/ Confirm(f) \/ Interrupt(f)
    \/ get_process_group \/ kill_process_tree
    \/ ProcessEnds \/ PidReused
    \/ Daemon \/ Clock

\* The processes run, and so does the task of every connection, as long as it
\* does not wait for the graph's locks.
Spec ==
    /\ Init /\ [][Next]_allVars
    /\ \A f \in Fixes : WF_allVars(FixSteps(f))
    /\ \A f \in Fixes : WF_allVars(handle_client_unix(f) /\ UNCHANGED <<auditVars, procVars>>)

-----------------------------------------------------------------------------
(* Properties. *)

\* What is reported as done is done: when `ark fix' ends with success and a
\* kill was among its actions, or `ark zap' succeeds, the process that held the
\* pid at first is gone or has been sent a SIGKILL, which it cannot escape,
\* though it may be long in ending; unless zap had a group through which the
\* process is not reached.
Hit == holder # "target" \/ signalled
SuccessMeansKilled ==
    /\ \A f \in Fixes : fix[f].pc = "succeeded" /\ "kill" \in fix[f].executed => Hit
    /\ zap.pc = "succeeded" => Hit \/ zap.group = "another"

\* `ark fix' comes to its question or its end, though its calls have no timeout
\* and the daemon may die during any of them; and once it has been told to go
\* on it ends. It hangs only in one case: its request waits in a daemon whose
\* graph is locked for good (GraphLocks), as long as that daemon lives.
FixEnds ==
    \A f \in Fixes :
        fix[f].pc \in {"ping", "why", "act", "log"}
            ~> \/ fix[f].pc \in {"confirm", "succeeded", "ended"}
               \/ fix[f].pc = "why" /\ conn[f] # None /\ conn[f].server = "blocked"

=============================================================================
