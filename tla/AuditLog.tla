------------------------------ MODULE AuditLog ------------------------------
(***************************************************************************)
(* The audit log (agent/src/audit.rs). Every `ark fix' opens the file for  *)
(* itself, remembers its size, and much later appends one entry, rotating  *)
(* the file first when the entry would make it too large. The locks of an  *)
(* AuditLogger are between its own tasks: nothing orders two processes.    *)
(*                                                                         *)
(* A file is the set of its entries, each of size 1. An open file is kept  *)
(* when its name goes to another one, as file systems do.                  *)
(***************************************************************************)
EXTENDS Naturals, FiniteSets, Sequences

CONSTANTS
    Loggers,        \* processes that write to the log
    max_size,       \* entries in a file
    MaxSecond       \* bound: seconds

ASSUME AuditConstants == max_size \in Nat /\ MaxSecond \in Nat

Old == "old"        \* the entry of an earlier process
\* The log's own name, and those of the files rotated in each second.
Log == 0
Rotated(second) == second + 1
Names == 0..(MaxSecond + 1)

VARIABLES
    files,          \* the files ever made, as sets of entries
    names,          \* the file that a name stands for, or 0
    now,            \* the clock, in seconds
    logger,         \* per process: the open file, current_size, and how far it is
    \* history
    acked,          \* entries for which log returned Ok
    collided        \* a rotation took the name of an earlier one

auditVars == <<files, names, now, logger, acked, collided>>

NewLogger == [pc |-> "closed", file |-> 0, current_size |-> 0]

AuditInit ==
    /\ files = <<{Old}>> /\ names = [n \in Names |-> IF n = Log THEN 1 ELSE 0]
    /\ now = 0
    /\ logger = [p \in Loggers |-> NewLogger]
    /\ acked = {Old} /\ collided = FALSE

\* Open for appending, creating the file when there is none; size is what
\* current_size is set to for a file that is there.
OpenLog(p, pc, size) ==
    IF names[Log] # 0
    THEN /\ logger' = [logger EXCEPT ![p] = [pc |-> pc, file |-> names[Log],
                                             current_size |-> size]]
         /\ UNCHANGED <<files, names>>
    ELSE /\ files' = Append(files, {})
         /\ names' = [names EXCEPT ![Log] = Len(files')]
         /\ logger' = [logger EXCEPT ![p] = [pc |-> pc, file |-> Len(files'), current_size |-> 0]]

\* AuditLogger::new
OpenLogger(p) ==
    /\ logger[p].pc = "closed"
    /\ OpenLog(p, "open", Cardinality(files[names[Log]]))
    /\ UNCHANGED <<now, acked, collided>>

\* The beginning of log.
BeginLog(p) ==
    /\ logger[p].pc = "open"
    /\ logger' = [logger EXCEPT ![p].pc =
                     IF logger[p].current_size + 1 > max_size THEN "rename" ELSE "write"]
    /\ UNCHANGED <<files, names, now, acked, collided>>

\* rotate_log, the rename: by the second, over a file of that name if there is
\* one. When another process has just renamed the log there is nothing to
\* rename, and log returns that error.
Rename(p) ==
    /\ logger[p].pc = "rename"
    /\ IF names[Log] = 0
       THEN /\ logger' = [logger EXCEPT ![p].pc = "failed"]
            /\ UNCHANGED <<names, collided>>
       ELSE /\ names' = [names EXCEPT ![Log] = 0, ![Rotated(now)] = names[Log]]
            /\ collided' = (collided \/ names[Rotated(now)] # 0)
            /\ logger' = [logger EXCEPT ![p].pc = "reopen"]
    /\ UNCHANGED <<files, now, acked>>

\* Mutant: the new file is created, and emptied if it is there.
Reopen_Create(p) ==
    /\ logger[p].pc = "reopen"
    /\ files' = Append(files, {})
    /\ names' = [names EXCEPT ![Log] = Len(files')]
    /\ logger' = [logger EXCEPT ![p] = [pc |-> "write", file |-> Len(files'), current_size |-> 0]]
    /\ UNCHANGED <<now, acked, collided>>

\* rotate_log, the new file: another process may have made it already.
Reopen(p) ==
    /\ logger[p].pc = "reopen"
    /\ OpenLog(p, "write", 0)
    /\ UNCHANGED <<now, acked, collided>>

\* The write, to the file that is open whatever it is called by now.
WriteEntry(p) ==
    /\ logger[p].pc = "write"
    /\ \/ /\ files' = [files EXCEPT ![logger[p].file] = @ \union {p}]
          /\ logger' = [logger EXCEPT ![p] = [pc |-> "logged", file |-> @.file,
                                              current_size |-> @.current_size + 1]]
          /\ acked' = acked \union {p}
       \/ logger' = [logger EXCEPT ![p].pc = "failed"] /\ UNCHANGED <<files, acked>>
    /\ UNCHANGED <<names, now, collided>>

\* Only Rename looks at the clock, which may as well move just before one.
Tick ==
    /\ now < MaxSecond /\ now' = now + 1
    /\ \E p \in Loggers : logger[p].pc = "rename"
    /\ UNCHANGED <<files, names, logger, acked, collided>>

-----------------------------------------------------------------------------

\* An entry for which log has returned Ok stays in a file that has a name,
\* however the processes' rotations and writes interleave, unless two
\* rotations fell into one second.
EntryKept ==
    ~ collided => \A e \in acked : \E n \in Names : names[n] # 0 /\ e \in files[names[n]]

=============================================================================
