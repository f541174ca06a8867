-------------------------- MODULE HubIngestProofs --------------------------
(***************************************************************************)
(* The write-ahead log stays bounded and holds what was acknowledged last, *)
(* a replay gives it back, and the dedup store lets no recent event pass   *)
(* twice: for any number of connections and events and any limit of the    *)
(* file, across rotations that fail half-way and restarts at any moment.   *)
(***************************************************************************)
EXTENDS HubIngest, SequenceTheorems, WellFoundedInduction, NaturalsInduction, TLAPS

Lines == Events \union {Bad}
Files == [exists : BOOLEAN, lines : Seq(Lines), torn : BOOLEAN]
Writing == {"remove", "rename", "open", "write"}
Off == {"idle", "down"}

\* The line in flight counts too.
OnItsWay == IF inflight = None THEN 0 ELSE 1
Held == Len(active.lines) + OnItsWay

\* The files and the step of the one writer.
Types ==
    /\ active \in Files /\ rotated \in Files
    /\ inflight \in Events \union {None}
    /\ fd \in {"active", "rotated", "unlinked"}
    /\ pc \in [Conns -> Steps]
    /\ ev \in [Conns -> Events \union {None}]
    /\ \A c \in Conns : pc[c] \notin Off => ev[c] # None
    /\ \A c \in Conns : pc[c] \in Writing => holder = c

\* Where the descriptor is: on the active file, or still on one that a failed
\* rotation has renamed or removed, full and with nothing in flight.
Descriptor ==
    /\ ~ active.exists => active.lines = <<>>
    /\ fd = "active" => active.exists
    /\ fd # "active" => inflight = None /\ ~ active.exists
    /\ fd = "rotated" => Len(rotated.lines) >= MaxLines

\* What the writer relies on at each step after it has read the size.
Writer(c) ==
    /\ pc[c] = "remove" /\ fd = "active" => Len(active.lines) >= MaxLines
    /\ pc[c] = "rename" => /\ inflight = None /\ fd # "rotated"
                           /\ fd = "active" => Len(active.lines) >= MaxLines
    /\ pc[c] = "open" => inflight = None /\ fd # "active"
    /\ pc[c] = "write" => fd = "active" /\ Held <= MaxLines

Bounds == Held <= MaxLines + 1 /\ Len(rotated.lines) <= MaxLines + 1

LogInv == Types /\ Descriptor /\ Bounds /\ \A c \in Conns : Writer(c)

LEMMA FileTyped ==
    ASSUME NEW f \in Files
    PROVE  f.exists \in BOOLEAN /\ f.lines \in Seq(Lines) /\ f.torn \in BOOLEAN /\ Len(f.lines) \in Nat
BY LenProperties, Zenon DEF Files

LEMMA NewFiles ==
    /\ NoFile \in Files /\ EmptyFile \in Files
    /\ NoFile.lines = <<>> /\ EmptyFile.lines = <<>> /\ Len(<<>>) = 0
    /\ ~ NoFile.exists /\ EmptyFile.exists
BY EmptySeq, Zenon DEF NoFile, EmptyFile, Files

LEMMA LineAdded ==
    ASSUME NEW f \in Files, NEW l \in Events
    PROVE  /\ WithLine(f, l) \in Files
           /\ WithLine(f, l).exists = f.exists
           /\ Len(WithLine(f, l).lines) = Len(f.lines) + 1
<1> DEFINE x == IF f.torn THEN Bad ELSE l
<1>1. x \in Lines /\ f.lines \in Seq(Lines) /\ f.exists \in BOOLEAN
  BY Zenon DEF Lines, Files
<1>2. Append(f.lines, x) \in Seq(Lines) /\ Len(Append(f.lines, x)) = Len(f.lines) + 1
  BY <1>1, AppendProperties
<1> QED  BY <1>1, <1>2, Zenon DEF WithLine, Files

LEMMA InitInv == ASSUME MaxLines > 0 PROVE Init => LogInv
BY NewFiles, IngestConstants
DEF Init, LogInv, Types, Descriptor, Bounds, Writer, Held, OnItsWay, Steps, Writing, Off

\* The steps outside the log, and the way to its mutex.
LEMMA OutsideInv ==
    ASSUME LogInv, MaxLines > 0, NEW c \in Conns,
           UNCHANGED <<active, rotated, fd, inflight>>,
           pc' \in [Conns -> Steps], ev' \in [Conns -> Events \union {None}],
           \A d \in Conns : d # c => pc'[d] = pc[d] /\ ev'[d] = ev[d],
           pc'[c] \notin Off => ev'[c] # None,
           pc'[c] \notin Writing,
           \A d \in Conns : d # c /\ pc[d] \in Writing => holder' = d
    PROVE  LogInv'
<1>1. Types'
  BY Zenon DEF LogInv, Types
<1>2. Descriptor' /\ Bounds'
  BY Zenon DEF LogInv, Descriptor, Bounds, Held, OnItsWay
<1>3. ASSUME NEW d \in Conns PROVE Writer(d)'
  <2>1. CASE d = c
    BY <2>1, Zenon DEF Writer, Writing
  <2>2. CASE d # c
    BY <2>2, Zenon DEF LogInv, Writer, Held, OnItsWay
  <2> QED  BY <2>1, <2>2, Zenon
<1> QED  BY <1>1, <1>2, <1>3, Zenon DEF LogInv

LEMMA HeldIs ==
    /\ inflight = None => Held = Len(active.lines) + 0
    /\ inflight # None => Held = Len(active.lines) + 1
BY Zenon DEF Held, OnItsWay

LEMMA OneWriter ==
    ASSUME LogInv, NEW c \in Conns, holder = c \/ holder = None
    PROVE  \A d \in Conns : d # c => pc[d] \notin Writing
BY IngestConstants, Zenon DEF LogInv, Types

\* A step of the writer leaves the other connections where they are.
LEMMA WriterStep ==
    ASSUME LogInv, NEW c \in Conns, NEW step \in Steps,
           holder = c \/ holder = None, holder' = c, To(c, step), step \notin Off, ev' = ev, ev[c] # None,
           active' \in Files, rotated' \in Files, inflight' \in Events \union {None},
           fd' \in {"active", "rotated", "unlinked"},
           Descriptor', Bounds', Writer(c)'
    PROVE  LogInv'
<1>1. pc' = [pc EXCEPT ![c] = step] /\ pc \in [Conns -> Steps]
  BY Zenon DEF To, LogInv, Types
<1>2. pc' \in [Conns -> Steps] /\ pc'[c] = step /\ \A d \in Conns : d # c => pc'[d] = pc[d]
  BY <1>1, Zenon
<1>3. \A d \in Conns : d # c => pc'[d] \notin Writing
  BY <1>2, OneWriter, Zenon
<1>4. Types'
  BY <1>2, <1>3, Zenon DEF LogInv, Types
<1>5. ASSUME NEW d \in Conns, d # c PROVE Writer(d)'
  BY <1>3, <1>5, Zenon DEF Writer, Writing
<1> QED  BY <1>4, <1>5, Zenon DEF LogInv

LEMMA NextInv ==
    ASSUME MaxLines > 0, LogInv, [Next]_vars PROVE LogInv'
<1>0. /\ active \in Files /\ rotated \in Files /\ inflight \in Events \union {None}
      /\ fd \in {"active", "rotated", "unlinked"}
      /\ active.exists \in BOOLEAN /\ Len(active.lines) \in Nat /\ Len(rotated.lines) \in Nat
      /\ MaxLines \in Nat /\ pc \in [Conns -> Steps] /\ ev \in [Conns -> Events \union {None}]
      /\ \A c \in Conns : pc[c] \in Writing => holder = c
      /\ \A c \in Conns : pc[c] \notin Off => ev[c] # None
  BY FileTyped, IngestConstants, Zenon DEF LogInv, Types
<1>1. ASSUME NEW c \in Conns, NEW e \in Events, accept_event_with_dedup(c, e) PROVE LogInv'
  <2>1. /\ UNCHANGED <<active, rotated, fd, inflight, holder>> /\ pc[c] = "idle"
        /\ \/ UNCHANGED <<pc, ev>>
           \/ pc' = [pc EXCEPT ![c] = "graph"] /\ ev' = [ev EXCEPT ![c] = e]
    BY <1>1, Zenon DEF accept_event_with_dedup, To
  <2>2. /\ pc' \in [Conns -> Steps] /\ ev' \in [Conns -> Events \union {None}]
        /\ \A d \in Conns : d # c => pc'[d] = pc[d] /\ ev'[d] = ev[d]
        /\ pc'[c] \in {"idle", "graph"} /\ (pc'[c] \notin Off => ev'[c] # None)
    BY <1>0, <2>1, IngestConstants, Zenon DEF Steps, Off
  <2> QED  BY <1>0, <2>1, <2>2, OutsideInv, Zenon DEF Writing
<1>2. ASSUME NEW c \in Conns, ProcessEvent(c) \/ PushBuffer(c) PROVE LogInv'
  <2>1. /\ UNCHANGED <<active, rotated, fd, inflight, holder, ev>>
        /\ \E p \in {"buffer", "lock"} : pc' = [pc EXCEPT ![c] = p]
        /\ pc[c] \notin Off
    BY <1>2, Zenon DEF ProcessEvent, PushBuffer, To, Off
  <2>2. /\ pc' \in [Conns -> Steps] /\ ev' \in [Conns -> Events \union {None}]
        /\ \A d \in Conns : d # c => pc'[d] = pc[d] /\ ev'[d] = ev[d]
        /\ pc'[c] \in {"buffer", "lock"} /\ ev'[c] # None
    BY <1>0, <2>1, Zenon DEF Steps
  <2> QED  BY <1>0, <2>1, <2>2, OutsideInv, Zenon DEF Writing
<1>3. ASSUME NEW c \in Conns, WalLock(c) PROVE LogInv'
  <2>1. /\ pc[c] = "lock" /\ holder = None /\ holder' = c
        /\ UNCHANGED <<active, rotated, fd, inflight, ev>>
    BY <1>3, Zenon DEF WalLock
  <2>2. Descriptor' /\ Bounds'
    BY <2>1, Zenon DEF LogInv, Descriptor, Bounds, Held, OnItsWay
  <2>3. CASE SizeOfFd + 1 > MaxLines
    <3>1. pc' = [pc EXCEPT ![c] = "remove"]
      BY <1>3, <2>3, Zenon DEF WalLock, To
    <3>2. pc'[c] = "remove"
      BY <1>0, <3>1, Zenon
    <3>3. fd = "active" => Len(active.lines) >= MaxLines
      BY <1>0, <2>3 DEF SizeOfFd
    <3>4. Writer(c)'
      BY <2>1, <3>2, <3>3, Zenon DEF Writer
    <3>5. To(c, "remove") /\ "remove" \in Steps /\ "remove" \notin Off /\ "lock" \notin Off
      BY <3>1, Zenon DEF To, Steps, Off
    <3> QED  BY <1>0, <2>1, <2>2, <3>4, <3>5, WriterStep, Zenon
  <2>4. CASE ~ (SizeOfFd + 1 > MaxLines)
    <3>1. pc' = [pc EXCEPT ![c] = "write"]
      BY <1>3, <2>4, Zenon DEF WalLock, To
    <3>2. pc'[c] = "write"
      BY <1>0, <3>1, Zenon
    <3>3. fd = "active" /\ Len(active.lines) + 1 <= MaxLines
      BY <1>0, <2>4 DEF SizeOfFd, LogInv, Descriptor
    <3>4. Held <= MaxLines
      <4>1. CASE inflight = None
        BY <1>0, <3>3, <4>1, HeldIs
      <4>2. CASE inflight # None
        BY <1>0, <3>3, <4>2, HeldIs, Zenon
      <4> QED  BY <4>1, <4>2, Zenon
    <3>5. Writer(c)'
      BY <2>1, <3>2, <3>3, <3>4, Zenon DEF Writer, Held, OnItsWay
    <3>6. To(c, "write") /\ "write" \in Steps /\ "write" \notin Off /\ "lock" \notin Off
      BY <3>1, Zenon DEF To, Steps, Off
    <3> QED  BY <1>0, <2>1, <2>2, <3>5, <3>6, WriterStep, Zenon
  <2> QED  BY <2>3, <2>4, Zenon
<1>4. ASSUME NEW c \in Conns, RotateRemove(c) PROVE LogInv'
  <2>1. /\ pc[c] = "remove" /\ inflight = None /\ rotated' = NoFile
        /\ fd' = IF fd = "rotated" THEN "unlinked" ELSE fd
        /\ To(c, "rename") /\ UNCHANGED <<ev, holder, active, inflight>>
    BY <1>4, Zenon DEF RotateRemove
  <2>2. holder = c /\ ev[c] # None /\ pc'[c] = "rename" /\ "rename" \notin Off
    BY <1>0, <2>1, Zenon DEF Writing, To, Off
  <2>3. Descriptor'
    BY <1>0, <2>1, Zenon DEF LogInv, Descriptor
  <2>4. Bounds'
    BY <1>0, <2>1, NewFiles DEF LogInv, Bounds, Held, OnItsWay
  <2>5. Writer(c)'
    <3>1. Writer(c)
      BY Zenon DEF LogInv
    <3> QED  BY <1>0, <2>1, <2>2, <3>1, Zenon DEF Writer
  <2>6. fd' \in {"active", "rotated", "unlinked"} /\ "rename" \in Steps
    BY <1>0, <2>1, Zenon DEF Steps
  <2> QED  BY <1>0, <2>1, <2>2, <2>3, <2>4, <2>5, <2>6, NewFiles, WriterStep, Zenon
<1>5. ASSUME NEW c \in Conns, RotateRename(c) PROVE LogInv'
  <2>1. /\ pc[c] = "rename" /\ To(c, "open") /\ UNCHANGED <<ev, holder, inflight>>
    BY <1>5, Zenon DEF RotateRename
  <2>2. holder = c /\ ev[c] # None /\ pc'[c] = "open" /\ "open" \in Steps /\ "open" \notin Off
    BY <1>0, <2>1, Zenon DEF Writing, To, Steps, Off
  <2>3. inflight = None /\ fd # "rotated" /\ (fd = "active" => Len(active.lines) >= MaxLines)
    BY <2>1, Zenon DEF LogInv, Writer
  <2>4. CASE active.exists
    <3>1. /\ rotated' = active /\ active' = NoFile
          /\ fd' = IF fd = "active" THEN "rotated" ELSE fd
      BY <1>5, <2>4, Zenon DEF RotateRename
    <3>2. fd = "active"
      BY <2>4, Zenon DEF LogInv, Descriptor
    <3>3. Descriptor'
      BY <1>0, <2>1, <2>3, <3>1, <3>2, NewFiles, Zenon DEF Descriptor
    <3>4. Bounds'
      BY <1>0, <2>1, <2>3, <3>1, NewFiles DEF LogInv, Bounds, Held, OnItsWay
    <3>5. Writer(c)'
      BY <2>1, <2>2, <2>3, <3>1, <3>2, Zenon DEF Writer
    <3> QED  BY <1>0, <2>1, <2>2, <3>1, <3>2, <3>3, <3>4, <3>5, NewFiles, WriterStep, Zenon
  <2>5. CASE ~ active.exists
    <3>1. UNCHANGED <<rotated, active, fd>>
      BY <1>5, <2>5, Zenon DEF RotateRename
    <3>2. fd # "active"
      BY <2>5, Zenon DEF LogInv, Descriptor
    <3>3. Descriptor' /\ Bounds'
      BY <2>1, <3>1, Zenon DEF LogInv, Descriptor, Bounds, Held, OnItsWay
    <3>4. Writer(c)'
      BY <2>1, <2>2, <2>3, <3>1, <3>2, Zenon DEF Writer
    <3> QED  BY <1>0, <2>1, <2>2, <3>1, <3>3, <3>4, WriterStep, Zenon
  <2> QED  BY <2>4, <2>5, Zenon
<1>6. ASSUME NEW c \in Conns, RotateOpen(c) PROVE LogInv'
  <2>1. /\ pc[c] = "open" /\ To(c, "write") /\ UNCHANGED <<ev, holder, rotated, inflight>>
        /\ active' = IF active.exists THEN active ELSE EmptyFile
        /\ fd' = "active"
    BY <1>6, Zenon DEF RotateOpen
  <2>2. holder = c /\ ev[c] # None /\ pc'[c] = "write" /\ "write" \in Steps /\ "write" \notin Off
    BY <1>0, <2>1, Zenon DEF Writing, To, Steps, Off
  <2>3. inflight = None /\ ~ active.exists
    BY <2>1, Zenon DEF LogInv, Writer, Descriptor
  <2>4. active' = EmptyFile /\ active'.exists /\ Len(active'.lines) = 0 /\ active' \in Files
    BY <2>1, <2>3, NewFiles, Zenon
  <2>5. Descriptor' /\ Bounds' /\ Writer(c)'
    BY <1>0, <2>1, <2>2, <2>3, <2>4 DEF LogInv, Descriptor, Bounds, Writer, Held, OnItsWay
  <2> QED  BY <1>0, <2>1, <2>2, <2>4, <2>5, WriterStep, Zenon
<1>7. ASSUME NEW c \in Conns, Idle(c), holder = c \/ holder = None,
             UNCHANGED <<active, rotated, fd, inflight>> PROVE LogInv'
  <2>1. /\ pc' = [pc EXCEPT ![c] = "idle"] /\ ev' = [ev EXCEPT ![c] = None] /\ holder' = None
    BY <1>7, Zenon DEF Idle, To
  <2>2. /\ pc' \in [Conns -> Steps] /\ ev' \in [Conns -> Events \union {None}]
        /\ \A d \in Conns : d # c => pc'[d] = pc[d] /\ ev'[d] = ev[d]
        /\ pc'[c] = "idle"
    BY <1>0, <2>1, Zenon DEF Steps
  <2>3. \A d \in Conns : d # c => pc[d] \notin Writing
    BY <1>7, OneWriter, Zenon
  <2> QED  BY <1>7, <2>2, <2>3, OutsideInv, Zenon DEF Writing, Off
<1>8. ASSUME NEW c \in Conns, AppendFails(c) PROVE LogInv'
  <2>1. /\ pc[c] \in Writing \/ holder = None
        /\ Idle(c) /\ UNCHANGED <<active, rotated, fd, inflight>>
    BY <1>8, Zenon DEF AppendFails, Writing
  <2> QED  BY <1>0, <1>7, <2>1, Zenon
<1>9. ASSUME NEW c \in Conns, WalWrite(c) PROVE LogInv'
  <2>1. /\ pc[c] = "write" /\ inflight = None /\ inflight' = ev[c]
        /\ UNCHANGED <<active, rotated, fd>>
        /\ pc' = [pc EXCEPT ![c] = "idle"] /\ ev' = [ev EXCEPT ![c] = None] /\ holder' = None
    BY <1>9, Zenon DEF WalWrite, Idle, To
  <2>2. /\ pc' \in [Conns -> Steps] /\ ev' \in [Conns -> Events \union {None}]
        /\ \A d \in Conns : d # c => pc'[d] = pc[d] /\ ev'[d] = ev[d]
        /\ pc'[c] = "idle"
    BY <1>0, <2>1, Zenon DEF Steps
  <2>3. holder = c /\ fd = "active" /\ Held <= MaxLines /\ ev[c] # None
    BY <1>0, <2>1, Zenon DEF LogInv, Writer, Writing, Off
  <2>4. \A d \in Conns : pc'[d] \notin Writing
    BY <2>2, <2>3, OneWriter, Zenon DEF Writing
  <2>5. Types'
    BY <1>0, <2>1, <2>2, <2>4, Zenon DEF Types, Off
  <2>6. Descriptor' /\ Bounds'
    <3>1. Len(active.lines) <= MaxLines /\ inflight' # None
      BY <1>0, <2>1, <2>3, HeldIs
    <3>2. Held' = Len(active.lines) + 1
      BY <2>1, <3>1, Zenon DEF Held, OnItsWay
    <3>3. Bounds'
      BY <1>0, <2>1, <3>1, <3>2 DEF LogInv, Bounds
    <3>4. Descriptor'
      BY <2>1, <2>3, Zenon DEF LogInv, Descriptor
    <3> QED  BY <3>3, <3>4, Zenon
  <2>7. \A d \in Conns : Writer(d)'
    BY <2>4, Zenon DEF Writer, Writing
  <2> QED  BY <2>5, <2>6, <2>7, Zenon DEF LogInv
<1>10. ASSUME WriteBack PROVE LogInv'
  <2>1. /\ inflight # None /\ active' = WithLine(active, inflight) /\ inflight' = None
        /\ UNCHANGED <<pc, ev, holder, rotated, fd>>
    BY <1>10, Zenon DEF WriteBack
  <2>2. fd = "active" /\ active.exists
    BY <1>0, <2>1, Zenon DEF LogInv, Descriptor
  <2>3. /\ active' \in Files /\ active'.exists = active.exists
        /\ Len(active'.lines) = Len(active.lines) + 1
    BY <1>0, <2>1, LineAdded, Zenon
  <2>4. Held' = Held
    BY <1>0, <2>1, <2>3 DEF Held, OnItsWay
  <2>5. Types'
    BY <1>0, <2>1, <2>3, Zenon DEF Types
  <2>6. Descriptor' /\ Bounds'
    BY <2>1, <2>2, <2>3, <2>4, Zenon DEF LogInv, Descriptor, Bounds
  <2>7. ASSUME NEW d \in Conns PROVE Writer(d)'
    <3>1. Writer(d)
      BY Zenon DEF LogInv
    <3> QED  BY <1>0, <2>1, <2>2, <2>3, <2>4, <3>1 DEF Writer
  <2> QED  BY <2>5, <2>6, <2>7, Zenon DEF LogInv
<1>11. ASSUME Restart PROVE LogInv'
  <2>1. PICK file \in AfterCrash : active' = [file EXCEPT !.exists = TRUE]
    BY <1>11, Zenon DEF Restart
  <2>2. /\ pc' = [c \in Conns |-> "idle"] /\ ev' = [c \in Conns |-> None]
        /\ holder' = None /\ fd' = "active" /\ inflight' = None /\ rotated' = rotated
    BY <1>11, Zenon DEF Restart
  <2>3. file \in Files /\ Len(file.lines) <= Held
    <3>1. CASE inflight = None
      BY <1>0, <2>1, <3>1 DEF AfterCrash, Held, OnItsWay
    <3>2. CASE inflight # None
      <4>1. [active EXCEPT !.torn = TRUE] \in Files
            /\ [active EXCEPT !.torn = TRUE].lines = active.lines
        BY <1>0, Zenon DEF Files
      <4>2. /\ WithLine(active, inflight) \in Files
            /\ Len(WithLine(active, inflight).lines) = Len(active.lines) + 1
        BY <1>0, <3>2, LineAdded, Zenon
      <4>3. \/ file = active \/ file = [active EXCEPT !.torn = TRUE]
            \/ file = WithLine(active, inflight)
        BY <2>1, <3>2, Zenon DEF AfterCrash
      <4>4. Held = Len(active.lines) + 1
        BY <3>2, HeldIs, Zenon
      <4>5. file \in Files /\ Len(file.lines) \in {Len(active.lines), Len(active.lines) + 1}
        <5>1. CASE file = active
          BY <1>0, <5>1, Zenon
        <5>2. CASE file = [active EXCEPT !.torn = TRUE]
          BY <4>1, <5>2, Zenon
        <5>3. CASE file = WithLine(active, inflight)
          BY <4>2, <5>3, Zenon
        <5> QED  BY <4>3, <5>1, <5>2, <5>3, Zenon
      <4> QED  BY <1>0, <4>4, <4>5
    <3> QED  BY <3>1, <3>2, Zenon
  <2>4. /\ active' \in Files /\ active'.exists /\ active'.lines = file.lines
        /\ Len(active'.lines) \in Nat
    BY <2>1, <2>3, LenProperties, Zenon DEF Files
  <2>5. Held' <= MaxLines + 1
    <3>1. Held' = Len(active'.lines) + 0
      BY <2>2, Zenon DEF Held, OnItsWay
    <3>2. Held <= MaxLines + 1 /\ Held \in Nat
      <4>1. Held \in Nat
        BY <1>0, HeldIs
      <4> QED  BY <4>1, Zenon DEF LogInv, Bounds
    <3> QED  BY <1>0, <2>3, <2>4, <3>1, <3>2
  <2>6. Types'
    BY <1>0, <2>2, <2>4, Zenon DEF Types, Steps, Writing, Off
  <2>7. Descriptor' /\ Bounds' /\ \A d \in Conns : Writer(d)'
    BY <2>2, <2>4, <2>5, Zenon DEF LogInv, Descriptor, Bounds, Writer
  <2> QED  BY <2>6, <2>7, Zenon DEF LogInv
<1>12. ASSUME RestartFails PROVE LogInv'
  <2>1. /\ active' = [active EXCEPT !.torn = TRUE] /\ inflight # None /\ inflight' = None
        /\ pc' = [c \in Conns |-> "down"] /\ ev' = [c \in Conns |-> None]
        /\ holder' = None /\ rotated' = rotated /\ fd' = fd
    BY <1>12, Zenon DEF RestartFails
  <2>2. active' \in Files /\ active'.lines = active.lines /\ active'.exists = active.exists
    BY <1>0, <2>1, Zenon DEF Files
  <2>3. Types'
    BY <1>0, <2>1, <2>2, Zenon DEF Types, Steps, Writing, Off
  <2>4. Held' = Len(active.lines) + 0 /\ Held = Len(active.lines) + 1
    BY <2>1, <2>2, Zenon DEF Held, OnItsWay
  <2>5. Bounds'
    BY <1>0, <2>1, <2>4 DEF LogInv, Bounds
  <2>6. Descriptor' /\ \A d \in Conns : Writer(d)'
    BY <2>1, <2>2, Zenon DEF LogInv, Descriptor, Writer
  <2> QED  BY <2>3, <2>5, <2>6, Zenon DEF LogInv
<1>13. ASSUME UNCHANGED vars PROVE LogInv'
  BY <1>13, Zenon DEF vars, LogInv, Types, Descriptor, Bounds, Writer, Held, OnItsWay
<1> QED
  BY <1>1, <1>2, <1>3, <1>4, <1>5, <1>6, <1>8, <1>9, <1>10, <1>11, <1>12, <1>13, Zenon DEF Next, StartsInVain

\* Neither file of the write-ahead log ever holds more than one line over its
\* limit (HubIngest!WalBounded).
THEOREM LogBounded == Spec => []WalBounded
<1>1. CASE MaxLines > 0
  <2>1. LogInv => WalBounded
    <3> SUFFICES ASSUME LogInv PROVE WalBounded
      OBVIOUS
    <3>1. Len(active.lines) \in Nat /\ Len(rotated.lines) \in Nat /\ MaxLines \in Nat
      BY FileTyped, IngestConstants, Zenon DEF LogInv, Types
    <3>2. Len(active.lines) <= Held /\ Held \in Nat
      BY <3>1, HeldIs
    <3> QED  BY <3>1, <3>2 DEF LogInv, Bounds, WalBounded
  <2>2. LogInv /\ [Next]_vars => LogInv'
    BY <1>1, NextInv, Zenon
  <2>3. Init => LogInv
    BY <1>1, InitInv, Zenon
  <2> QED  BY <2>1, <2>2, <2>3, PTL DEF Spec
<1>2. CASE ~ (MaxLines > 0)
  <2>1. Init => WalBounded
    BY <1>2, Zenon DEF WalBounded
  <2>2. WalBounded /\ [Next]_vars => WalBounded'
    BY <1>2, Zenon DEF WalBounded
  <2> QED  BY <2>1, <2>2, PTL DEF Spec
<1> QED  BY <1>1, <1>2, Zenon

-----------------------------------------------------------------------------
(* The last acknowledged events are near the end of the log. *)

\* The line at position j of the sequence R followed by A, counted from the end of R.
At(R, A, j) == IF j >= 1 THEN A[j] ELSE R[Len(R) + j]

\* x is one of the last k lines.
Kept(x, k, R, A) == \E j \in (Len(A) + 1 - k)..Len(A) : j >= 1 - Len(R) /\ At(R, A, j) = x

LEMMA SetOfAppend ==
    ASSUME NEW S, NEW s \in Seq(S), NEW x \in S
    PROVE  Range(Append(s, x)) = Range(s) \union {x}
<1> DEFINE t == Append(s, x)
<1>1. /\ DOMAIN s = 1..Len(s) /\ Len(s) \in Nat /\ DOMAIN t = 1..(Len(s) + 1) /\ t[Len(s) + 1] = x
      /\ \A i \in 1..Len(s) : t[i] = s[i]
  BY AppendProperties, LenProperties
<1> HIDE DEF t
<1>2. Range(t) = Range(s) \union {x}
  BY <1>1 DEF Range
<1> QED  BY <1>2, Zenon DEF t

LEMMA SetOfEmpty == Range(<<>>) = {}
BY EmptySeq DEF Range

LEMMA Appended ==
    ASSUME NEW A \in Seq(Lines), NEW e \in Lines
    PROVE  /\ Append(A, e) \in Seq(Lines) /\ Len(A) \in Nat /\ Len(Append(A, e)) = Len(A) + 1
           /\ Append(A, e)[Len(A) + 1] = e /\ \A i \in 1..Len(A) : Append(A, e)[i] = A[i]
BY AppendProperties, LenProperties

\* A line is the last one when it is written, and every other line is one further
\* from the end.
LEMMA KeptWritten ==
    ASSUME NEW R \in Seq(Lines), NEW A \in Seq(Lines), NEW e \in Lines, NEW k \in Nat
    PROVE  /\ Kept(e, k + 1, R, Append(A, e))
           /\ \A x : Kept(x, k, R, A) => Kept(x, k + 1, R, Append(A, e))
<1> DEFINE B == Append(A, e)
<1>1. /\ Len(A) \in Nat /\ Len(B) = Len(A) + 1 /\ B[Len(A) + 1] = e
      /\ \A i \in 1..Len(A) : B[i] = A[i] /\ Len(R) \in Nat
  BY Appended, LenProperties
<1> HIDE DEF B
<1>2. Kept(e, k + 1, R, B)
  <2>1. Len(B) \in (Len(B) + 1 - (k + 1))..Len(B) /\ Len(B) >= 1 - Len(R) /\ At(R, B, Len(B)) = e
    BY <1>1 DEF At
  <2> QED  BY <2>1, Zenon DEF Kept
<1>3. ASSUME NEW x, Kept(x, k, R, A) PROVE Kept(x, k + 1, R, B)
  <2>1. PICK j \in (Len(A) + 1 - k)..Len(A) : j >= 1 - Len(R) /\ At(R, A, j) = x
    BY <1>3, Zenon DEF Kept
  <2>2. j \in (Len(B) + 1 - (k + 1))..Len(B)
    BY <1>1, <2>1
  <2>3. At(R, B, j) = x
    BY <1>1, <2>1 DEF At
  <2> QED  BY <2>1, <2>2, <2>3, Zenon DEF Kept
<1> QED  BY <1>2, <1>3, Zenon DEF B

\* The last line is lost, or ends as another one.
LEMMA KeptSettled ==
    ASSUME NEW R \in Seq(Lines), NEW A \in Seq(Lines), NEW e \in Lines, NEW y \in Lines,
           NEW k \in Nat, NEW x, x # e, Kept(x, k, R, Append(A, e))
    PROVE  Kept(x, k, R, A) /\ Kept(x, k, R, Append(A, y))
<1> DEFINE B == Append(A, e)
           C == Append(A, y)
<1>1. /\ Len(A) \in Nat /\ Len(B) = Len(A) + 1 /\ B[Len(A) + 1] = e
      /\ \A i \in 1..Len(A) : B[i] = A[i]
      /\ Len(C) = Len(A) + 1 /\ \A i \in 1..Len(A) : C[i] = A[i]
  BY Appended
<1>2. PICK j \in (Len(B) + 1 - k)..Len(B) : j >= 1 - Len(R) /\ At(R, B, j) = x
  BY Zenon DEF Kept, B
<1> HIDE DEF B, C
<1>3. j # Len(B)
  BY <1>1, <1>2 DEF At
<1>4. j \in (Len(A) + 1 - k)..Len(A) /\ j \in (Len(C) + 1 - k)..Len(C)
  BY <1>1, <1>2, <1>3
<1>5. At(R, A, j) = x /\ At(R, C, j) = x
  BY <1>1, <1>2, <1>4 DEF At
<1> QED  BY <1>2, <1>4, <1>5, Zenon DEF Kept, C

\* When the active file alone has k lines, the rotated file may go, and the
\* active one may take its place.
LEMMA KeptRotated ==
    ASSUME NEW R \in Seq(Lines), NEW A \in Seq(Lines), NEW k \in Nat, k <= Len(A),
           NEW x, Kept(x, k, R, A)
    PROVE  Kept(x, k, <<>>, A) /\ Kept(x, k, A, <<>>)
<1>1. Len(A) \in Nat /\ Len(<<>>) = 0
  BY LenProperties, EmptySeq
<1>2. PICK j \in (Len(A) + 1 - k)..Len(A) : j >= 1 - Len(R) /\ At(R, A, j) = x
  BY Zenon DEF Kept
<1>3. j >= 1 /\ A[j] = x
  BY <1>1, <1>2 DEF At
<1>4. Kept(x, k, <<>>, A)
  <2>1. j >= 1 - Len(<<>>) /\ At(<<>>, A, j) = x
    BY <1>1, <1>3 DEF At
  <2> QED  BY <1>2, <2>1, Zenon DEF Kept
<1>5. Kept(x, k, A, <<>>)
  <2> DEFINE i == j - Len(A)
  <2>1. i \in (Len(<<>>) + 1 - k)..Len(<<>>) /\ i >= 1 - Len(A) /\ ~ (i >= 1) /\ Len(A) + i = j
    BY <1>1, <1>2, <1>3
  <2>2. At(A, <<>>, i) = x
    BY <1>3, <2>1, Zenon DEF At
  <2> QED  BY <2>1, <2>2, Zenon DEF Kept
<1> QED  BY <1>4, <1>5, Zenon

LEMMA KeptIn ==
    ASSUME NEW R \in Seq(Lines), NEW A \in Seq(Lines), NEW k \in Nat, NEW x, Kept(x, k, R, A)
    PROVE  x \in Range(R) \union Range(A)
<1>1. /\ DOMAIN R = 1..Len(R) /\ DOMAIN A = 1..Len(A) /\ Len(A) \in Nat /\ Len(R) \in Nat
  BY LenProperties, Zenon
<1>2. PICK j \in (Len(A) + 1 - k)..Len(A) : j >= 1 - Len(R) /\ At(R, A, j) = x
  BY Zenon DEF Kept
<1>3. CASE j >= 1
  <2>1. j \in DOMAIN A /\ x = A[j]
    BY <1>1, <1>2, <1>3 DEF At
  <2> QED  BY <2>1, Zenon DEF Range
<1>4. CASE ~ (j >= 1)
  <2>1. Len(R) + j \in DOMAIN R /\ x = R[Len(R) + j]
    BY <1>1, <1>2, <1>4 DEF At
  <2> QED  BY <2>1, Zenon DEF Range
<1> QED  BY <1>3, <1>4, Zenon

\* The active file with the line in flight.
Reaching == IF inflight = None THEN active.lines ELSE Append(active.lines, inflight)

\* The event acknowledged k-th last is lost, or one of the last k lines.
RecentInv ==
    /\ acked \in Seq(Events) /\ Len(acked) <= MaxLines
    /\ fd = "unlinked" => rotated.lines = <<>>
    /\ \A k \in 1..Len(acked) :
          LET x == acked[Len(acked) + 1 - k] IN
          x \in lost \/ Kept(x, k, rotated.lines, Reaching)

\* A step that keeps the lines of what it does not lose.
LEMMA RecentKept ==
    ASSUME RecentInv, acked' = acked, lost \subseteq lost', MaxLines \in Nat,
           fd' = "unlinked" => rotated'.lines = <<>>,
           \A k \in 1..MaxLines : \A x \in Range(acked) \ lost' :
               Kept(x, k, rotated.lines, Reaching) => Kept(x, k, rotated'.lines, Reaching')
    PROVE  RecentInv'
<1>1. Len(acked) \in Nat /\ DOMAIN acked = 1..Len(acked) /\ Len(acked) <= MaxLines
  BY LenProperties, Zenon DEF RecentInv
<1>2. ASSUME NEW k \in 1..Len(acked)
      PROVE  \/ acked[Len(acked) + 1 - k] \in lost'
             \/ Kept(acked[Len(acked) + 1 - k], k, rotated'.lines, Reaching')
  <2>1. k \in 1..MaxLines /\ Len(acked) + 1 - k \in DOMAIN acked
    BY <1>1
  <2> DEFINE x == acked[Len(acked) + 1 - k]
  <2>2. x \in Range(acked) /\ (x \in lost \/ Kept(x, k, rotated.lines, Reaching))
    BY <2>1, Zenon DEF RecentInv, Range
  <2> QED  BY <2>1, <2>2, Zenon
<1> QED  BY <1>2, Zenon DEF RecentInv

LEMMA RecentUnchanged ==
    ASSUME RecentInv, UNCHANGED <<active, rotated, fd, inflight, acked, lost>>
    PROVE  RecentInv'
BY Zenon DEF RecentInv, Reaching

\* The active file, or what is to become of it, has the new line; the events
\* acknowledged before are one further from the end.
LEMMA RecentWrite ==
    ASSUME LogInv, RecentInv, NEW c \in Conns, WalWrite(c) PROVE RecentInv'
<1> DEFINE e == ev[c]
           t == Append(acked, e)
<1>0. /\ active.lines \in Seq(Lines) /\ rotated.lines \in Seq(Lines) /\ acked \in Seq(Events)
      /\ e \in Events /\ e \in Lines /\ e # None /\ MaxLines \in Nat
      /\ Len(acked) \in Nat /\ Len(acked) <= MaxLines
  BY FileTyped, IngestConstants, LenProperties, Zenon
  DEF LogInv, Types, Off, WalWrite, RecentInv, Lines
<1>1. /\ inflight = None /\ inflight' = e /\ UNCHANGED <<active, rotated, fd>>
      /\ acked' = (IF Len(t) > MaxLines THEN Tail(t) ELSE t)
      /\ lost' = (lost \ {e}) \intersect Range(acked')
  BY Zenon DEF WalWrite, LastLines
<1>2. /\ t \in Seq(Events) /\ t # <<>> /\ Len(t) = Len(acked) + 1 /\ t[Len(acked) + 1] = e
      /\ \A i \in 1..Len(acked) : t[i] = acked[i]
  BY <1>0, AppendProperties
<1>3. Reaching = active.lines /\ Reaching' = Append(active.lines, e)
  BY <1>0, <1>1, Zenon DEF Reaching
<1>4. /\ Tail(t) \in Seq(Events) /\ Len(Tail(t)) = Len(t) - 1
      /\ \A i \in 1..Len(Tail(t)) : Tail(t)[i] = t[i + 1]
  BY <1>2, HeadTailProperties
<1> HIDE DEF t
\* What was k-th last is (k + 1)-th last, the new event is the last one.
<1>5. /\ acked' \in Seq(Events) /\ Len(acked') \in Nat /\ Len(acked') <= MaxLines
      /\ DOMAIN acked' = 1..Len(acked')
      /\ \A k \in 1..Len(acked') :
            acked'[Len(acked') + 1 - k] = IF k = 1 THEN e ELSE acked[Len(acked) + 2 - k]
      /\ Len(acked') <= Len(acked) + 1
  <2>1. CASE Len(t) > MaxLines
    <3> DEFINE u == Tail(t)
    <3>1. acked' = u
      BY <1>1, <2>1, Zenon
    <3>2. /\ u \in Seq(Events) /\ DOMAIN u = 1..Len(u)
          /\ \A i \in 1..Len(u) : u[i] = t[i + 1]
      BY <1>4, LenProperties, Zenon
    <3>3. Len(u) = Len(acked)
      BY <1>0, <1>2, <1>4
    <3> HIDE DEF u
    <3>4. ASSUME NEW k \in 1..Len(u)
          PROVE  u[Len(u) + 1 - k] = IF k = 1 THEN e ELSE acked[Len(acked) + 2 - k]
      <4> DEFINE i == Len(u) + 1 - k
      <4>1. /\ i \in 1..Len(u)
            /\ k = 1 => i + 1 = Len(acked) + 1
            /\ k # 1 => i + 1 \in 1..Len(acked) /\ i + 1 = Len(acked) + 2 - k
        BY <1>0, <3>3
      <4> HIDE DEF i
      <4>2. u[i] = t[i + 1]
        BY <3>2, <4>1, Zenon
      <4>3. u[i] = IF k = 1 THEN e ELSE acked[Len(acked) + 2 - k]
        BY <1>2, <4>1, <4>2, Zenon
      <4> QED  BY <4>3, Zenon DEF i
    <3>5. Len(u) \in Nat /\ Len(u) <= MaxLines /\ Len(u) <= Len(acked) + 1
      BY <1>0, <3>3
    <3> QED  BY <3>1, <3>2, <3>4, <3>5, Zenon
  <2>2. CASE ~ (Len(t) > MaxLines)
    <3>1. acked' = t
      BY <1>1, <2>2, Zenon
    <3>2. DOMAIN t = 1..Len(t)
      BY <1>2, LenProperties, Zenon
    <3>3. \A k \in 1..Len(t) : t[Len(t) + 1 - k] = IF k = 1 THEN e ELSE acked[Len(acked) + 2 - k]
      BY <1>0, <1>2
    <3>4. Len(t) \in Nat /\ Len(t) <= MaxLines /\ Len(t) <= Len(acked) + 1
      BY <1>0, <1>2, <2>2
    <3> QED  BY <1>2, <3>1, <3>2, <3>3, <3>4, Zenon
  <2> QED  BY <2>1, <2>2, Zenon
<1>6. ASSUME NEW k \in 1..Len(acked')
      PROVE  \/ acked'[Len(acked') + 1 - k] \in lost'
             \/ Kept(acked'[Len(acked') + 1 - k], k, rotated'.lines, Reaching')
  <2> DEFINE x == acked'[Len(acked') + 1 - k]
  <2>1. x \in Range(acked')
    <3>1. Len(acked') + 1 - k \in DOMAIN acked'
      BY <1>5
    <3> QED  BY <3>1, Zenon DEF Range
  <2>2. CASE k = 1
    <3>1. x = e /\ 0 \in Nat /\ k = 0 + 1
      BY <1>5, <2>2
    <3>2. Kept(e, 0 + 1, rotated.lines, Append(active.lines, e))
      BY <1>0, <3>1, KeptWritten, Zenon
    <3> QED  BY <1>1, <1>3, <3>1, <3>2, Zenon
  <2>3. CASE k # 1
    <3> DEFINE h == k - 1
    <3>1. h \in 1..Len(acked) /\ h \in Nat /\ k = h + 1 /\ Len(acked) + 2 - k = Len(acked) + 1 - h
      BY <1>0, <1>5, <2>3
    <3>2. x = acked[Len(acked) + 1 - h]
      BY <1>5, <2>3, <3>1, Zenon
    <3> HIDE DEF h, x
    <3>3. x \in lost \/ Kept(x, h, rotated.lines, active.lines)
      BY <1>3, <3>1, <3>2, Zenon DEF RecentInv
    <3>4. CASE x = e
      <4>1. Kept(e, h + 1, rotated.lines, Append(active.lines, e))
        BY <1>0, <3>1, KeptWritten, Zenon
      <4> QED  BY <1>1, <1>3, <3>1, <3>4, <4>1, Zenon DEF x
    <3>5. CASE x # e /\ x \in lost
      BY <1>1, <2>1, <3>5, Zenon DEF x
    <3>6. CASE Kept(x, h, rotated.lines, active.lines)
      <4>1. Kept(x, h + 1, rotated.lines, Append(active.lines, e))
        BY <1>0, <3>1, <3>6, KeptWritten, Zenon
      <4> QED  BY <1>1, <1>3, <3>1, <4>1, Zenon DEF x
    <3> QED  BY <3>3, <3>4, <3>5, <3>6, Zenon
  <2> QED  BY <2>2, <2>3, Zenon
<1> QED  BY <1>1, <1>5, <1>6, Zenon DEF RecentInv

\* The line in flight is written, glued or cut off: what is not lost with it
\* stays where it was.
LEMMA RecentSettled ==
    ASSUME LogInv, RecentInv, inflight # None, inflight' = None, acked' = acked,
           UNCHANGED <<rotated, fd>>, lost \subseteq lost',
           \/ /\ active'.lines = active.lines
              /\ inflight \in Range(acked) => inflight \in lost'
           \/ /\ active'.lines = Append(active.lines, Bad)
              /\ inflight \in Range(acked) => inflight \in lost'
           \/ active'.lines = Append(active.lines, inflight)
    PROVE  RecentInv'
<1>0. /\ active.lines \in Seq(Lines) /\ rotated.lines \in Seq(Lines) /\ inflight \in Lines
      /\ Bad \in Lines /\ MaxLines \in Nat
  BY FileTyped, IngestConstants, Zenon DEF LogInv, Types, Lines
<1>1. Reaching = Append(active.lines, inflight) /\ Reaching' = active'.lines
  BY Zenon DEF Reaching
<1>2. ASSUME NEW k \in 1..MaxLines, NEW x \in Range(acked) \ lost', Kept(x, k, rotated.lines, Reaching)
      PROVE  Kept(x, k, rotated'.lines, Reaching')
  <2>1. CASE active'.lines = Append(active.lines, inflight)
    BY <1>1, <1>2, <2>1, Zenon
  <2>2. CASE x # inflight
    <3>1. k \in Nat
      BY <1>0
    <3>2. Kept(x, k, rotated.lines, active.lines) /\ Kept(x, k, rotated.lines, Append(active.lines, Bad))
      BY <1>0, <1>1, <1>2, <2>2, <3>1, KeptSettled, Zenon
    <3> QED  BY <1>1, <2>1, <3>2, Zenon
  <2> QED  BY <1>2, <2>1, <2>2, Zenon
<1> QED  BY <1>0, <1>2, RecentKept, Zenon DEF RecentInv

LEMMA RecentWriteBack == ASSUME LogInv, RecentInv, WriteBack PROVE RecentInv'
<1>1. /\ inflight # None /\ inflight' = None /\ acked' = acked /\ UNCHANGED <<rotated, fd>>
      /\ lost' = (IF active.torn THEN lost \union ({inflight} \intersect Range(acked)) ELSE lost)
      /\ active'.lines = Append(active.lines, IF active.torn THEN Bad ELSE inflight)
  BY Zenon DEF WriteBack, WithLine
<1>2. lost \subseteq lost'
  BY <1>1, Zenon
<1>3. CASE active.torn
  <2>1. active'.lines = Append(active.lines, Bad) /\ (inflight \in Range(acked) => inflight \in lost')
    BY <1>1, <1>3, Zenon
  <2> QED  BY <1>1, <1>2, <2>1, RecentSettled, Zenon
<1>4. CASE ~ active.torn
  <2>1. active'.lines = Append(active.lines, inflight)
    BY <1>1, <1>4, Zenon
  <2> QED  BY <1>1, <1>2, <2>1, RecentSettled, Zenon
<1> QED  BY <1>3, <1>4, Zenon

LEMMA RecentRestart == ASSUME LogInv, RecentInv, Restart \/ RestartFails PROVE RecentInv'
<1>1. /\ inflight' = None /\ rotated' = rotated /\ acked' = acked
      /\ active \in Files /\ inflight \in Events \union {None}
  BY Zenon DEF Restart, RestartFails, LogInv, Types
<1>2. PICK file \in AfterCrash :
        /\ active'.lines = file.lines /\ lost' = CrashLoses(file)
        /\ inflight # None \/ fd' = "active"
        /\ inflight # None => fd' = fd
  <2>1. CASE Restart
    <3>1. PICK file \in AfterCrash : active' = [file EXCEPT !.exists = TRUE] /\ lost' = CrashLoses(file)
      BY <2>1, Zenon DEF Restart
    <3>2. active'.lines = file.lines
      BY <1>1, <3>1, Zenon DEF AfterCrash, WithLine, Files
    <3>3. fd' = "active" /\ (inflight # None => fd = "active")
      BY <2>1, Zenon DEF Restart, LogInv, Descriptor
    <3> QED  BY <3>1, <3>2, <3>3, Zenon
  <2>2. CASE RestartFails
    <3>1. /\ active' = [active EXCEPT !.torn = TRUE] /\ lost' = CrashLoses(active)
          /\ inflight # None /\ fd' = fd
      BY <2>2, Zenon DEF RestartFails
    <3>2. active \in AfterCrash /\ active'.lines = active.lines
      BY <1>1, <3>1, Zenon DEF AfterCrash, Files
    <3> QED  BY <3>1, <3>2, Zenon
  <2> QED  BY <2>1, <2>2, Zenon
<1>3. CASE inflight = None
  <2>1. active'.lines = active.lines /\ lost' = lost /\ fd' = "active"
    BY <1>2, <1>3, Zenon DEF AfterCrash, CrashLoses
  <2>2. Reaching' = Reaching
    BY <1>1, <1>3, <2>1, Zenon DEF Reaching
  <2> QED  BY <1>1, <2>1, <2>2, Zenon DEF RecentInv
<1>4. CASE inflight # None /\ file.lines # Append(active.lines, inflight)
  <2>1. lost \subseteq lost' /\ (inflight \in Range(acked) => inflight \in lost')
    BY <1>2, <1>4, Zenon DEF CrashLoses
  <2>2. file.lines = active.lines \/ file.lines = Append(active.lines, Bad)
    <3>1. CASE file = active \/ file = [active EXCEPT !.torn = TRUE]
      BY <1>1, <3>1, Zenon DEF Files
    <3>2. CASE file = WithLine(active, inflight)
      <4>1. active.torn
        BY <1>4, <3>2, Zenon DEF WithLine
      <4> QED  BY <3>2, <4>1, Zenon DEF WithLine
    <3> QED  BY <1>2, <1>4, <3>1, <3>2, Zenon DEF AfterCrash
  <2> QED  BY <1>1, <1>2, <1>4, <2>1, <2>2, RecentSettled, Zenon
<1>5. CASE inflight # None /\ file.lines = Append(active.lines, inflight)
  <2>1. lost' = lost /\ file.lines = Append(active.lines, inflight)
    BY <1>1, <1>2, <1>5, Zenon DEF CrashLoses, Files
  <2> QED  BY <1>1, <1>2, <1>5, <2>1, RecentSettled, Zenon
<1> QED  BY <1>3, <1>4, <1>5, Zenon

LEMMA NextRecent ==
    ASSUME LogInv, RecentInv, [Next]_vars PROVE RecentInv'
<1>0. /\ active.lines \in Seq(Lines) /\ rotated.lines \in Seq(Lines) /\ MaxLines \in Nat
      /\ Len(active.lines) \in Nat /\ <<>> \in Seq(Lines) /\ Range(<<>>) = {}
  BY FileTyped, IngestConstants, LenProperties, EmptySeq, SetOfEmpty, Zenon DEF LogInv, Types, RecentInv
<1>1. ASSUME NEW c \in Conns,
             \/ \E e \in Events : accept_event_with_dedup(c, e)
             \/ ProcessEvent(c) \/ PushBuffer(c) \/ WalLock(c) \/ AppendFails(c)
      PROVE  RecentInv'
  <2>1. UNCHANGED <<active, rotated, fd, inflight, acked, lost>>
    BY <1>1, Zenon DEF accept_event_with_dedup, ProcessEvent, PushBuffer, WalLock, AppendFails
  <2> QED  BY <2>1, RecentUnchanged, Zenon
<1>2. ASSUME NEW c \in Conns, RotateRemove(c) PROVE RecentInv'
  <2>1. /\ pc[c] = "remove" /\ inflight = None /\ rotated' = NoFile
        /\ lost' = (IF fd = "rotated" THEN lost \union (Range(rotated.lines) \intersect Range(acked))
                    ELSE lost)
        /\ UNCHANGED <<active, inflight, acked>>
    BY <1>2, Zenon DEF RotateRemove
  <2>2. Reaching = active.lines /\ Reaching' = active.lines /\ rotated'.lines = <<>>
    BY <2>1, NewFiles, Zenon DEF Reaching
  <2>3. lost \subseteq lost'
    BY <2>1, Zenon
  <2>4. ASSUME NEW k \in 1..MaxLines, NEW x \in Range(acked) \ lost', Kept(x, k, rotated.lines, Reaching)
        PROVE  Kept(x, k, rotated'.lines, Reaching')
    <3>0. k \in Nat
      BY <1>0
    <3>1. CASE fd = "active"
      <4>1. Len(active.lines) >= MaxLines
        BY <2>1, <3>1, Zenon DEF LogInv, Writer
      <4>2. k <= Len(active.lines)
        BY <1>0, <4>1
      <4> QED  BY <1>0, <2>2, <2>4, <3>0, <4>2, KeptRotated, Zenon
    <3>2. CASE fd = "rotated"
      <4>1. active.lines = <<>>
        BY <3>2, Zenon DEF LogInv, Descriptor
      <4>2. x \in Range(rotated.lines)
        BY <1>0, <2>2, <2>4, <3>0, <4>1, KeptIn, Zenon
      <4> QED  BY <2>1, <2>4, <3>2, <4>2, Zenon
    <3>3. CASE fd = "unlinked"
      BY <2>2, <2>4, <3>3, Zenon DEF RecentInv
    <3> QED  BY <3>1, <3>2, <3>3, Zenon DEF LogInv, Types
  <2> QED  BY <1>0, <2>1, <2>2, <2>3, <2>4, RecentKept, Zenon
<1>3. ASSUME NEW c \in Conns, RotateRename(c) PROVE RecentInv'
  <2>1. pc[c] = "rename" /\ UNCHANGED <<inflight, acked, lost>>
    BY <1>3, Zenon DEF RotateRename
  <2>2. inflight = None /\ (fd = "active" => Len(active.lines) >= MaxLines)
    BY <2>1, Zenon DEF LogInv, Writer
  <2>3. CASE active.exists
    <3>1. fd = "active" /\ rotated' = active /\ active' = NoFile /\ fd' = "rotated"
      BY <1>3, <2>3, Zenon DEF RotateRename, LogInv, Types, Descriptor
    <3>2. Reaching = active.lines /\ Reaching' = <<>>
      BY <2>1, <2>2, <3>1, NewFiles, Zenon DEF Reaching
    <3>3. ASSUME NEW k \in 1..MaxLines, NEW x, Kept(x, k, rotated.lines, Reaching)
          PROVE  Kept(x, k, rotated'.lines, Reaching')
      <4>1. k <= Len(active.lines) /\ k \in Nat
        BY <1>0, <2>2, <3>1
      <4> QED  BY <1>0, <3>1, <3>2, <3>3, <4>1, KeptRotated, Zenon
    <3> QED  BY <1>0, <2>1, <3>1, <3>3, RecentKept, Zenon
  <2>4. CASE ~ active.exists
    <3>1. UNCHANGED <<active, rotated, fd>>
      BY <1>3, <2>4, Zenon DEF RotateRename
    <3> QED  BY <2>1, <3>1, RecentUnchanged, Zenon
  <2> QED  BY <2>3, <2>4, Zenon
<1>4. ASSUME NEW c \in Conns, RotateOpen(c) PROVE RecentInv'
  <2>1. /\ pc[c] = "open" /\ fd' = "active" /\ UNCHANGED <<rotated, inflight, acked, lost>>
        /\ active' = IF active.exists THEN active ELSE EmptyFile
    BY <1>4, Zenon DEF RotateOpen
  <2>2. inflight = None /\ active.lines = <<>> /\ active' = EmptyFile
    BY <2>1, Zenon DEF LogInv, Writer, Descriptor
  <2>3. Reaching' = Reaching
    BY <2>1, <2>2, NewFiles, Zenon DEF Reaching
  <2> QED  BY <2>1, <2>2, <2>3, Zenon DEF RecentInv
<1>5. ASSUME UNCHANGED vars PROVE RecentInv'
  BY <1>5, RecentUnchanged, Zenon DEF vars
<1> QED
  BY <1>1, <1>2, <1>3, <1>4, <1>5, RecentWrite, RecentWriteBack, RecentRestart, Zenon DEF Next, StartsInVain

LEMMA RecentIsLogged ==
    ASSUME LogInv, RecentInv PROVE RecentLogged
<1>0. /\ active.lines \in Seq(Lines) /\ rotated.lines \in Seq(Lines) /\ acked \in Seq(Events)
      /\ inflight \in Events \union {None} /\ Bad \notin Events
  BY FileTyped, IngestConstants, Zenon DEF LogInv, Types, RecentInv
<1>1. Reaching \in Seq(Lines) /\ Range(Reaching) \subseteq Range(active.lines) \union {inflight}
  <2>1. CASE inflight = None
    BY <1>0, <2>1, Zenon DEF Reaching
  <2>2. CASE inflight # None
    <3>1. inflight \in Lines /\ Reaching = Append(active.lines, inflight)
      BY <1>0, <2>2, Zenon DEF Reaching, Lines
    <3>2. Append(active.lines, inflight) \in Seq(Lines)
      BY <1>0, <3>1, AppendProperties, Zenon
    <3>3. Range(Append(active.lines, inflight)) = Range(active.lines) \union {inflight}
      BY <1>0, <3>1, SetOfAppend
    <3> QED  BY <3>1, <3>2, <3>3, Zenon
  <2> QED  BY <2>1, <2>2, Zenon
<1>2. ASSUME NEW x \in Range(acked) \ lost PROVE x \in OnDisk \union {inflight}
  <2>1. PICK i \in 1..Len(acked) : x = acked[i]
    BY <1>0, <1>2, LenProperties, Zenon DEF Range
  <2> DEFINE k == Len(acked) + 1 - i
  <2>2. k \in 1..Len(acked) /\ k \in Nat /\ Len(acked) + 1 - k = i
    BY <1>0, LenProperties
  <2> HIDE DEF k
  <2>3. Kept(x, k, rotated.lines, Reaching)
    BY <1>2, <2>1, <2>2, Zenon DEF RecentInv
  <2>4. x \in Range(rotated.lines) \union Range(Reaching)
    BY <1>0, <1>1, <2>2, <2>3, KeptIn, Zenon
  <2>5. x # Bad
    <3>1. x \in Events
      BY <1>0, <2>1, ElementOfSeq, Zenon
    <3> QED  BY <1>0, <3>1, Zenon
  <2> QED  BY <1>1, <2>4, <2>5, Zenon DEF OnDisk
<1> QED  BY <1>2, Zenon DEF RecentLogged

\* With a limit set, the last MaxLines events whose line was accepted are in the
\* files or in flight at every moment, save those whose line a crash cut off,
\* that were glued to an unfinished line, or that were in the file a failed
\* reopening left to the next removal (HubIngest!RecentLogged).
THEOREM RecentAreLogged == ASSUME MaxLines > 0 PROVE Spec => []RecentLogged
<1>1. Init => LogInv /\ RecentInv
  <2>1. ASSUME Init PROVE RecentInv
    <3>1. acked = <<>> /\ fd = "active"
      BY <2>1, Zenon DEF Init
    <3>2. Len(<<>>) <= MaxLines /\ <<>> \in Seq(Events) /\ 1..Len(<<>>) = {}
      BY EmptySeq, IngestConstants
    <3> QED  BY <3>1, <3>2, Zenon DEF RecentInv
  <2> QED  BY <2>1, InitInv, Zenon
<1>2. LogInv /\ [Next]_vars => LogInv'
  BY NextInv, Zenon
<1>3. LogInv /\ RecentInv /\ [Next]_vars => RecentInv'
  BY NextRecent, Zenon
<1>4. LogInv /\ RecentInv => RecentLogged
  BY RecentIsLogged, Zenon
<1> QED  BY <1>1, <1>2, <1>3, <1>4, PTL DEF Spec

-----------------------------------------------------------------------------
(* What a replay gives back. The states of the loop are a recursive function
   of the line number; that there is one, and what it computes, is shown with
   the least line for which it would fail. *)

\* A non-empty set of numbers has a least one.
LEMMA LeastExists ==
    ASSUME NEW T, T \subseteq Nat, T # {} PROVE \E x \in T : \A y \in T : x <= y
<1> DEFINE R == OpToRel(<, Nat)
<1>1. IsWellFoundedOn(R, Nat)
  BY NatLessThanWellFounded, Zenon
<1>2. \A x, y \in Nat : x < y => <<x, y>> \in R
  BY Zenon DEF OpToRel
<1> HIDE DEF R
<1>3. PICK x \in T : \A y \in T : ~ (<<y, x>> \in R)
  BY <1>1, WFMin, Zenon
<1>4. ASSUME NEW y \in T PROVE x <= y
  <2>1. x \in Nat /\ y \in Nat /\ ~ (<<y, x>> \in R)
    BY <1>3, Zenon
  <2>2. ~ (y < x)
    BY <1>2, <2>1, Zenon
  <2> QED  BY <2>1, <2>2
<1> QED  BY <1>3, <1>4, Zenon

\* The states after the first lines, up to line n.
States(s, lines, n, f) ==
    f = [m \in 0..n |-> IF m = 0 THEN s ELSE replay_line(f[m - 1], lines[m])]

\* The recursion over the lines has a solution, whatever the lines.
LEMMA StatesExist ==
    ASSUME NEW s, NEW lines, NEW N \in Nat PROVE \E f : States(s, lines, N, f)
<1> DEFINE T == {n \in Nat : ~ \E f : States(s, lines, n, f)}
<1> SUFFICES ASSUME T # {} PROVE FALSE
  OBVIOUS
<1>1. PICK n \in T : \A y \in T : n <= y
  BY LeastExists, Zenon
<1>2. n # 0
  <2>1. States(s, lines, 0, [m \in 0..0 |-> s])
    BY DEF States
  <2> QED  BY <1>1, <2>1, Zenon
<1>3. n \in Nat /\ n - 1 \in Nat /\ ~ (n <= n - 1)
  BY <1>1, <1>2
<1>4. PICK f : States(s, lines, n - 1, f)
  BY <1>1, <1>3, Zenon
<1> DEFINE g == [m \in 0..n |-> IF m = n THEN replay_line(f[n - 1], lines[n]) ELSE f[m]]
<1>5. \A m \in 0..n : g[m] = IF m = 0 THEN s ELSE replay_line(g[m - 1], lines[m])
  <2> SUFFICES ASSUME NEW m \in 0..n PROVE g[m] = IF m = 0 THEN s ELSE replay_line(g[m - 1], lines[m])
    OBVIOUS
  <2>1. CASE m = n
    BY <1>2, <1>3, <2>1
  <2>2. CASE m # n
    <3>1. m \in 0..(n - 1) /\ g[m] = f[m] /\ (m # 0 => g[m - 1] = f[m - 1])
      BY <1>3, <2>2
    <3>2. f[m] = IF m = 0 THEN s ELSE replay_line(f[m - 1], lines[m])
      BY <1>4, <3>1, Zenon DEF States
    <3> QED  BY <3>1, <3>2, Zenon
  <2> QED  BY <2>1, <2>2, Zenon
<1>6. States(s, lines, n, g)
  BY <1>5, Zenon DEF States
<1> QED  BY <1>1, <1>6, Zenon

\* The loop ends in the last of its states.
LEMMA ReplayFile ==
    ASSUME NEW s, NEW lines \in Seq(Lines)
    PROVE  \E f : States(s, lines, Len(lines), f) /\ replay_wal_file(s, lines) = f[Len(lines)]
<1> DEFINE g == CHOOSE f : f = [m \in 0..Len(lines) |-> IF m = 0 THEN s ELSE replay_line(f[m - 1], lines[m])]
<1>0. Len(lines) \in Nat
  BY LenProperties, Zenon
<1>1. PICK h : States(s, lines, Len(lines), h)
  BY <1>0, StatesExist, Zenon
<1>2. g = [m \in 0..Len(lines) |-> IF m = 0 THEN s ELSE replay_line(g[m - 1], lines[m])]
  BY <1>1, Zenon DEF States
<1>3. replay_wal_file(s, lines) = g[Len(lines)]
  BY Zenon DEF replay_wal_file
<1> HIDE DEF g
<1> QED  BY <1>2, <1>3, Zenon DEF States

\* What a replay makes: every event the graph has seen is still in the store,
\* or some event more than a window later has been seen.
Late(e, seen) == \E x \in seen : ts[x] > ts[e] + Window
Restored(s) ==
    /\ s = [dedup |-> s.dedup, graph |-> s.graph, buffer |-> s.buffer]
    /\ s.dedup \subseteq s.graph /\ s.graph \subseteq Events
    /\ s.buffer \in Seq(Events) /\ Len(s.buffer) <= BufferSize
    /\ \A e \in s.graph : e \in s.dedup \/ Late(e, s.graph)

LEMMA PushedTyped ==
    ASSUME NEW b \in Seq(Events), Len(b) <= BufferSize, NEW e \in Events
    PROVE  Pushed(b, e) \in Seq(Events) /\ Len(Pushed(b, e)) <= BufferSize
<1>0. Len(b) \in Nat /\ BufferSize \in Nat \ {0}
  BY LenProperties, IngestConstants, Zenon
<1>1. CASE Len(b) >= BufferSize
  <2>1. b # <<>>
    BY <1>0, <1>1, EmptySeq
  <2>2. Tail(b) \in Seq(Events) /\ Len(Tail(b)) = Len(b) - 1
    BY <2>1, HeadTailProperties, Zenon
  <2>3. Append(Tail(b), e) \in Seq(Events) /\ Len(Append(Tail(b), e)) = Len(Tail(b)) + 1
    BY <2>2, AppendProperties, Zenon
  <2> QED  BY <1>0, <1>1, <2>2, <2>3 DEF Pushed
<1>2. CASE ~ (Len(b) >= BufferSize)
  <2>1. Append(b, e) \in Seq(Events) /\ Len(Append(b, e)) = Len(b) + 1
    BY AppendProperties, Zenon
  <2> QED  BY <1>0, <1>2, <2>1 DEF Pushed
<1> QED  BY <1>1, <1>2, Zenon

\* What leaves the store is more than a window behind the event that came in.
LEMMA PrunedLate ==
    ASSUME NEW e \in Events, NEW x \in Events, NEW store, e \in store, e \notin Pruned(store, ts[x])
    PROVE  ts[x] > ts[e] + Window /\ e # x
BY IngestConstants DEF Pruned, Minus

\* One turn of the loop.
LEMMA LineRestored ==
    ASSUME NEW s, Restored(s), NEW l \in Lines
    PROVE  Restored(replay_line(s, l)) /\ replay_line(s, l).graph = s.graph \union ({l} \ {Bad})
<1>1. CASE l = Bad
  BY <1>1, Zenon DEF replay_line
<1>2. CASE l # Bad
  <2> DEFINE store == Pruned(s.dedup, ts[l])
             t == replay_line(s, l)
  <2>1. l \in Events /\ store \subseteq s.dedup
    BY <1>2, Zenon DEF Lines, Pruned
  <2>2. \A e \in s.dedup \ store : ts[l] > ts[e] + Window
    BY <2>1, PrunedLate, Zenon DEF Restored
  <2>3. CASE l \in store
    <3>1. t = [s EXCEPT !.dedup = store]
      BY <1>2, <2>3, Zenon DEF replay_line
    <3> HIDE DEF store, t
    <3>2. t = [dedup |-> store, graph |-> s.graph, buffer |-> s.buffer]
      BY <3>1, Zenon DEF Restored
    <3>3. t.dedup = store /\ t.graph = s.graph /\ t.buffer = s.buffer
      BY <3>2, Zenon
    <3>4. l \in s.graph
      BY <2>1, <2>3, Zenon DEF Restored
    <3>5. \A e \in t.graph : e \in t.dedup \/ Late(e, t.graph)
      BY <2>2, <3>3, <3>4, Zenon DEF Restored, Late
    <3>6. Restored(t)
      BY <2>1, <3>2, <3>3, <3>5, Zenon DEF Restored
    <3> QED  BY <1>2, <3>3, <3>4, <3>6, Zenon DEF t
  <2>4. CASE l \notin store
    <3>1. t = [dedup |-> store \union {l}, graph |-> s.graph \union {l}, buffer |-> Pushed(s.buffer, l)]
      BY <1>2, <2>4, Zenon DEF replay_line
    <3> HIDE DEF store, t
    <3>2. t.dedup = store \union {l} /\ t.graph = s.graph \union {l} /\ t.buffer = Pushed(s.buffer, l)
      BY <3>1, Zenon
    <3>3. t.buffer \in Seq(Events) /\ Len(t.buffer) <= BufferSize
      BY <2>1, <3>2, PushedTyped, Zenon DEF Restored
    <3>4. \A e \in t.graph : e \in t.dedup \/ Late(e, t.graph)
      BY <2>2, <3>2, Zenon DEF Restored, Late
    <3>5. Restored(t)
      BY <2>1, <3>1, <3>2, <3>3, <3>4, Zenon DEF Restored
    <3> QED  BY <1>2, <3>2, <3>5, Zenon DEF t
  <2> QED  BY <2>3, <2>4, Zenon
<1> QED  BY <1>1, <1>2, Zenon

\* A file adds to the graph exactly the events in its lines.
LEMMA FileRestored ==
    ASSUME NEW s, Restored(s), NEW lines \in Seq(Lines)
    PROVE  LET t == replay_wal_file(s, lines) IN
           Restored(t) /\ t.graph = s.graph \union (Range(lines) \ {Bad})
<1>0. Len(lines) \in Nat /\ DOMAIN lines = 1..Len(lines) /\ \A i \in 1..Len(lines) : lines[i] \in Lines
  BY LenProperties, ElementOfSeq, Zenon
<1>1. PICK f : States(s, lines, Len(lines), f) /\ replay_wal_file(s, lines) = f[Len(lines)]
  BY ReplayFile, Zenon
<1> DEFINE Seen(n) == {lines[i] : i \in 1..n}
           Good(n) == Restored(f[n]) /\ f[n].graph = s.graph \union (Seen(n) \ {Bad})
           T == {n \in 0..Len(lines) : ~ Good(n)}
<1>2. f[0] = s /\ \A n \in 1..Len(lines) : f[n] = replay_line(f[n - 1], lines[n])
  BY <1>0, <1>1 DEF States
<1>3. Good(0)
  BY <1>2
<1>4. ASSUME NEW n \in 1..Len(lines), Good(n - 1) PROVE Good(n)
  <2>1. f[n] = replay_line(f[n - 1], lines[n]) /\ lines[n] \in Lines
    BY <1>0, <1>2, Zenon
  <2>2. Restored(f[n]) /\ f[n].graph = f[n - 1].graph \union ({lines[n]} \ {Bad})
    BY <1>4, <2>1, LineRestored
  <2>3. Seen(n) = Seen(n - 1) \union {lines[n]}
    BY <1>0
  <2> HIDE DEF Seen
  <2> QED  BY <1>4, <2>2, <2>3, Zenon
<1> HIDE DEF Good
<1>5. T = {}
  <2> SUFFICES ASSUME T # {} PROVE FALSE
    OBVIOUS
  <2>1. T \subseteq Nat
    BY <1>0
  <2>2. PICK n \in T : \A y \in T : n <= y
    BY <2>1, LeastExists, Zenon
  <2>3. n \in 1..Len(lines)
    BY <1>0, <1>3, <2>2
  <2>4. n - 1 \in 0..Len(lines) /\ ~ (n <= n - 1)
    BY <1>0, <2>3
  <2>5. Good(n - 1)
    BY <2>2, <2>4, Zenon
  <2> QED  BY <1>4, <2>2, <2>3, <2>5, Zenon
<1>6. Good(Len(lines))
  BY <1>0, <1>5
<1>7. Seen(Len(lines)) = Range(lines)
  BY <1>0, Zenon DEF Range
<1> QED  BY <1>1, <1>6, <1>7, Zenon DEF Good

\* Both files: the graph is what the lines say.
LEMMA WalRestored ==
    ASSUME NEW old, NEW cur, old.lines \in Seq(Lines), cur.lines \in Seq(Lines)
    PROVE  LET t == replay_wal(old, cur) IN
           Restored(t) /\ t.graph = (Range(old.lines) \union Range(cur.lines)) \ {Bad}
<1>1. Restored(Fresh) /\ Fresh.graph = {}
  BY EmptySeq, IngestConstants DEF Restored, Fresh
<1> DEFINE m == replay_wal_file(Fresh, old.lines)
<1>2. Restored(m) /\ m.graph = Range(old.lines) \ {Bad}
  BY <1>1, FileRestored
<1> DEFINE t == replay_wal_file(m, cur.lines)
<1> HIDE DEF m
<1>3. Restored(t) /\ t.graph = m.graph \union (Range(cur.lines) \ {Bad})
  BY <1>2, FileRestored, Zenon
<1>4. replay_wal(old, cur) = t
  BY Zenon DEF replay_wal, t, m
<1> QED  BY <1>2, <1>3, <1>4, Zenon

-----------------------------------------------------------------------------
(* The types of the whole state, with a limit of the file or without. *)

\* The store, the graph and the buffer; the connections; the files.
MemoryTyped ==
    /\ dedup \subseteq Events /\ graph \subseteq Events /\ overtaken \subseteq Events
    /\ buffer \in Seq(Events) /\ Len(buffer) <= BufferSize

ConnsTyped ==
    /\ pc \in [Conns -> Steps] /\ ev \in [Conns -> Events \union {None}]
    /\ \A c \in Conns : pc[c] \in Off <=> ev[c] = None
    /\ \A c \in Conns : pc[c] \in Writing <=> holder = c
    /\ Down => \A c \in Conns : pc[c] = "down"

DiskTyped ==
    /\ active \in Files /\ rotated \in Files
    /\ fd \in {"active", "rotated", "unlinked"} /\ inflight \in Events \union {None}
    /\ acked \in Seq(Events) /\ lost \subseteq Range(acked)

Typed == MemoryTyped /\ ConnsTyped /\ DiskTyped

LEMMA InitTyped == Init => Typed
BY NewFiles, EmptySeq, IngestConstants
DEF Init, Typed, MemoryTyped, ConnsTyped, DiskTyped, Steps, Writing, Off, Down

\* One connection moves on.
LEMMA ConnMoves ==
    ASSUME ConnsTyped, NEW c \in Conns, NEW step \in Steps, To(c, step),
           NEW x \in Events \union {None}, ev' = [ev EXCEPT ![c] = x],
           step \in Off <=> x = None, pc[c] # "down", step # "down", step \in Writing <=> holder' = c,
           \A d \in Conns : d # c => (holder' = d <=> holder = d)
    PROVE  ConnsTyped'
BY Zenon DEF ConnsTyped, To, Down, Off

LEMMA ConnKeepsEvent ==
    ASSUME ConnsTyped, NEW c \in Conns, NEW step \in Steps, To(c, step), ev' = ev,
           pc[c] \notin Off, step \notin Off, step \in Writing <=> holder' = c,
           \A d \in Conns : d # c => (holder' = d <=> holder = d)
    PROVE  ConnsTyped'
BY Zenon DEF ConnsTyped, To, Down, Off

\* The steps of the connections.
LEMMA NextConns == ASSUME ConnsTyped, [Next]_vars PROVE ConnsTyped'
<1>0. None \notin Conns /\ None \notin Events
  BY IngestConstants, Zenon
<1>1. ASSUME NEW c \in Conns, NEW e \in Events, accept_event_with_dedup(c, e) PROVE ConnsTyped'
  <2>1. pc[c] = "idle" /\ holder' = holder
    BY <1>1, Zenon DEF accept_event_with_dedup
  <2>2. CASE UNCHANGED <<pc, ev>>
    BY <2>1, <2>2, Zenon DEF ConnsTyped, Down
  <2>3. CASE To(c, "graph") /\ ev' = [ev EXCEPT ![c] = e]
    BY <1>0, <2>1, <2>3, ConnMoves, Zenon DEF Steps, Writing, ConnsTyped, Off
  <2> QED  BY <1>1, <2>2, <2>3, Zenon DEF accept_event_with_dedup
<1>2. ASSUME NEW c \in Conns, ProcessEvent(c) \/ PushBuffer(c) PROVE ConnsTyped'
  <2>1. pc[c] \in {"graph", "buffer"} /\ holder' = holder /\ ev' = ev
        /\ (To(c, "buffer") \/ To(c, "lock"))
    BY <1>2, Zenon DEF ProcessEvent, PushBuffer
  <2> QED  BY <2>1, ConnKeepsEvent, Zenon DEF Steps, Writing, ConnsTyped, Off
<1>3. ASSUME NEW c \in Conns, WalLock(c) PROVE ConnsTyped'
  <2>1. pc[c] = "lock" /\ holder = None /\ holder' = c /\ ev' = ev
        /\ (To(c, "remove") \/ To(c, "write"))
    BY <1>3, Zenon DEF WalLock
  <2> QED  BY <1>0, <2>1, ConnKeepsEvent, Zenon DEF Steps, Writing, Off
<1>4. ASSUME NEW c \in Conns, RotateRemove(c) \/ RotateRename(c) \/ RotateOpen(c) PROVE ConnsTyped'
  <2>1. pc[c] \in Writing /\ holder' = holder /\ ev' = ev
        /\ (To(c, "rename") \/ To(c, "open") \/ To(c, "write"))
    BY <1>4, Zenon DEF RotateRemove, RotateRename, RotateOpen, Writing
  <2>2. holder = c /\ pc[c] \notin Off
    BY <2>1, Zenon DEF ConnsTyped, Writing, Off
  <2> QED  BY <2>1, <2>2, ConnKeepsEvent, Zenon DEF Steps, Writing, Off
<1>5. ASSUME NEW c \in Conns, AppendFails(c) \/ WalWrite(c) PROVE ConnsTyped'
  <2>1. (pc[c] \in Writing \/ (pc[c] = "lock" /\ holder = None)) /\ Idle(c)
    BY <1>5, Zenon DEF AppendFails, WalWrite, Writing
  <2>2. (holder = c \/ holder = None) /\ pc[c] # "down" /\ holder' = None /\ To(c, "idle") /\ ev' = [ev EXCEPT ![c] = None]
    BY <2>1, Zenon DEF ConnsTyped, Idle, Writing
  <2> QED  BY <1>0, <2>2, ConnMoves, Zenon DEF Steps, Writing, Off
<1>6. CASE WriteBack \/ UNCHANGED vars
  BY <1>6, Zenon DEF WriteBack, vars, ConnsTyped, Down
<1>7. CASE Restart
  <2>1. pc' = [c \in Conns |-> "idle"] /\ ev' = [c \in Conns |-> None] /\ holder' = None
    BY <1>7, Zenon DEF Restart
  <2> QED  BY <1>0, <2>1, Zenon DEF ConnsTyped, Steps, Writing, Off, Down
<1>8. CASE RestartFails
  <2>1. pc' = [c \in Conns |-> "down"] /\ ev' = [c \in Conns |-> None] /\ holder' = None
    BY <1>8, Zenon DEF RestartFails
  <2> QED  BY <1>0, <2>1, Zenon DEF ConnsTyped, Steps, Writing, Off, Down
<1> QED  BY <1>1, <1>2, <1>3, <1>4, <1>5, <1>6, <1>7, <1>8, Zenon DEF Next, StartsInVain

\* The steps of the store, the graph and the buffer.
LEMMA NextMemory == ASSUME Typed, [Next]_vars PROVE MemoryTyped'
<1> USE DEF Typed
<1>1. ASSUME NEW c \in Conns, NEW e \in Events, accept_event_with_dedup(c, e) PROVE MemoryTyped'
  <2>1. /\ dedup' \subseteq dedup \union {e} /\ overtaken' \subseteq overtaken \union Events
        /\ graph' = graph /\ buffer' = buffer
    BY <1>1, Zenon DEF accept_event_with_dedup, Pruned, Behind
  <2> QED  BY <2>1, Zenon DEF MemoryTyped
<1>2. ASSUME NEW c \in Conns, ProcessEvent(c) PROVE MemoryTyped'
  <2>1. ev[c] \in Events
    BY <1>2, Zenon DEF ProcessEvent, ConnsTyped, Off
  <2> QED  BY <1>2, <2>1, Zenon DEF ProcessEvent, MemoryTyped
<1>3. ASSUME NEW c \in Conns, PushBuffer(c) PROVE MemoryTyped'
  <2>1. ev[c] \in Events
    BY <1>3, Zenon DEF PushBuffer, ConnsTyped, Off
  <2>2. Pushed(buffer, ev[c]) \in Seq(Events) /\ Len(Pushed(buffer, ev[c])) <= BufferSize
    BY <2>1, PushedTyped, Zenon DEF MemoryTyped
  <2> QED  BY <1>3, <2>2, Zenon DEF PushBuffer, MemoryTyped
<1>4. CASE Restart
  <2>1. PICK file \in AfterCrash :
          LET s == replay_wal(rotated, file) IN
          /\ dedup' = s.dedup /\ graph' = s.graph /\ buffer' = s.buffer
          /\ overtaken' = {e \in s.graph : \E x \in s.graph : ts[x] > ts[e] + Window}
    BY <1>4, Zenon DEF Restart
  <2>2. file.lines \in Seq(Lines) /\ rotated.lines \in Seq(Lines)
    <3>1. inflight # None => WithLine(active, inflight) \in Files
      BY LineAdded, Zenon DEF DiskTyped
    <3>2. [active EXCEPT !.torn = TRUE].lines = active.lines
      BY Zenon DEF DiskTyped, Files
    <3> QED  BY <3>1, <3>2, FileTyped, Zenon DEF AfterCrash, DiskTyped
  <2> DEFINE s == replay_wal(rotated, file)
  <2>3. Restored(s)
    BY <2>2, WalRestored, Zenon
  <2> HIDE DEF s
  <2> QED  BY <2>1, <2>3, Zenon DEF MemoryTyped, Restored, s
<1>5. CASE UNCHANGED <<dedup, graph, overtaken, buffer>>
  BY <1>5, Zenon DEF MemoryTyped
<1>6. CASE RestartFails
  <2>1. /\ dedup' = {} /\ graph' = {} /\ overtaken' = {} /\ buffer' = <<>>
    BY <1>6, Zenon DEF RestartFails
  <2>2. <<>> \in Seq(Events) /\ Len(<<>>) <= BufferSize
    BY EmptySeq, IngestConstants
  <2> QED  BY <2>1, <2>2, Zenon DEF MemoryTyped
<1> QED  BY <1>1, <1>2, <1>3, <1>4, <1>5, <1>6, Zenon
         DEF Next, StartsInVain, WalLock, RotateRemove, RotateRename, RotateOpen, AppendFails, WalWrite, WriteBack, vars

\* What a crash leaves is a file again; its lines are those of the active file,
\* perhaps with the line in flight, or a bad one in its place.
LEMMA CrashFile ==
    ASSUME DiskTyped, NEW file \in AfterCrash
    PROVE  /\ file \in Files /\ [file EXCEPT !.exists = TRUE] \in Files
           /\ [file EXCEPT !.exists = TRUE].lines = file.lines
           /\ \/ file.lines = active.lines
              \/ /\ inflight # None
                 /\ file.lines = Append(active.lines, IF active.torn THEN Bad ELSE inflight)
<1>1. CASE file = active \/ file = [active EXCEPT !.torn = TRUE]
  BY <1>1, Zenon DEF DiskTyped, Files
<1>2. CASE inflight # None /\ file = WithLine(active, inflight)
  <2>1. file \in Files /\ file.lines = Append(active.lines, IF active.torn THEN Bad ELSE inflight)
    BY <1>2, LineAdded, Zenon DEF DiskTyped, WithLine
  <2> QED  BY <1>2, <2>1, Zenon DEF Files
<1> QED  BY <1>1, <1>2, Zenon DEF AfterCrash

\* The steps of the files.
LEMMA NextDisk == ASSUME Typed, [Next]_vars PROVE DiskTyped'
<1> USE DEF Typed
<1>1. ASSUME NEW c \in Conns, RotateRemove(c) PROVE DiskTyped'
  BY <1>1, NewFiles, Zenon DEF RotateRemove, DiskTyped
<1>2. ASSUME NEW c \in Conns, RotateRename(c) PROVE DiskTyped'
  BY <1>2, NewFiles, Zenon DEF RotateRename, DiskTyped
<1>3. ASSUME NEW c \in Conns, RotateOpen(c) PROVE DiskTyped'
  BY <1>3, NewFiles, Zenon DEF RotateOpen, DiskTyped
<1>4. ASSUME NEW c \in Conns, AppendFails(c) PROVE DiskTyped'
  BY <1>4, Zenon DEF AppendFails, DiskTyped
<1>5. ASSUME NEW c \in Conns, WalWrite(c) PROVE DiskTyped'
  <2>1. ev[c] \in Events
    BY <1>5, Zenon DEF WalWrite, ConnsTyped, Off
  <2> DEFINE t == Append(acked, ev[c])
  <2>2. t \in Seq(Events) /\ t # <<>>
    BY <2>1, AppendProperties DEF DiskTyped
  <2> HIDE DEF t
  <2>3. LastLines(t) \in Seq(Events)
    BY <2>2, HeadTailProperties, Zenon DEF LastLines
  <2> QED  BY <1>5, <2>1, <2>3, Zenon DEF WalWrite, DiskTyped, t
<1>6. CASE WriteBack
  <2>1. WithLine(active, inflight) \in Files
    BY <1>6, LineAdded, Zenon DEF WriteBack, DiskTyped
  <2> QED  BY <1>6, <2>1, Zenon DEF WriteBack, DiskTyped
<1>7. CASE Restart \/ RestartFails
  <2>1. PICK file \in AfterCrash :
          active' \in {[file EXCEPT !.exists = TRUE], [active EXCEPT !.torn = TRUE]} /\ lost' = CrashLoses(file)
    BY <1>7, Zenon DEF Restart, RestartFails, AfterCrash
  <2>2. fd' \in {"active", fd} /\ inflight' = None /\ rotated' = rotated /\ acked' = acked
    BY <1>7, Zenon DEF Restart, RestartFails
  <2>3. active' \in Files
    <3>1. [file EXCEPT !.exists = TRUE] \in Files
      BY CrashFile, Zenon
    <3>2. [active EXCEPT !.torn = TRUE] \in Files
      BY Zenon DEF DiskTyped, Files
    <3> QED  BY <2>1, <3>1, <3>2, Zenon
  <2>4. lost' \subseteq Range(acked)
    BY <2>1, Zenon DEF CrashLoses, DiskTyped
  <2> QED  BY <2>2, <2>3, <2>4, Zenon DEF DiskTyped
<1>8. CASE UNCHANGED <<active, rotated, fd, inflight, acked, lost>>
  BY <1>8, Zenon DEF DiskTyped
<1> QED  BY <1>1, <1>2, <1>3, <1>4, <1>5, <1>6, <1>7, <1>8, Zenon
         DEF Next, StartsInVain, accept_event_with_dedup, ProcessEvent, PushBuffer, WalLock, vars

LEMMA TypedCorrect == Spec => []Typed
<1>1. Typed /\ [Next]_vars => Typed'
  BY NextMemory, NextConns, NextDisk, Zenon DEF Typed
<1> QED  BY <1>1, InitTyped, PTL DEF Spec

\* The hub's state has its type, a connection is idle (or the hub down) exactly
\* when it has no event, the one that is writing is the one that holds the mutex, and the
\* window buffer never outgrows its size, after a replay as before.
THEOREM IngestTyped == Spec => []TypeOK
<1>1. Typed => TypeOK
  BY FileTyped, Zenon DEF Typed, MemoryTyped, ConnsTyped, DiskTyped, TypeOK, Writing, Off, Lines
<1> QED  BY <1>1, TypedCorrect, PTL

-----------------------------------------------------------------------------
(* What the graph has seen. *)

\* An event is in the graph before its line is written, and an event that was
\* taken up is in the store until one more than a window later comes in.
SeenUp ==
    /\ \A c \in Conns : pc[c] \notin {"idle", "graph"} => ev[c] \in graph
    /\ OnDisk \union ({inflight} \ {None}) \subseteq graph
    /\ graph \union ({ev[c] : c \in Conns} \ {None}) \subseteq dedup \union overtaken

\* A hub that cannot start has seen nothing, and does nothing.
Seen == IF Down THEN inflight = None ELSE SeenUp

\* The steps of a connection, which is not down before or after.
ConnStep(c) ==
    \/ \E e \in Events : accept_event_with_dedup(c, e)
    \/ ProcessEvent(c) \/ PushBuffer(c) \/ WalLock(c) \/ RotateRemove(c) \/ RotateRename(c)
    \/ RotateOpen(c) \/ AppendFails(c) \/ WalWrite(c)

LEMMA ConnIsUp ==
    ASSUME ConnsTyped, NEW c \in Conns, ConnStep(c)
    PROVE  pc[c] # "down" /\ (pc' = pc \/ \E step \in Steps \ {"down"} : To(c, step))
BY Zenon DEF ConnStep, accept_event_with_dedup, ProcessEvent, PushBuffer, WalLock, RotateRemove,
             RotateRename, RotateOpen, AppendFails, WalWrite, Idle, Steps

LEMMA UpStays == ASSUME ConnsTyped, ~ Down, [Next]_vars, ~ RestartFails PROVE ~ Down'
<1>1. ASSUME NEW c \in Conns, ConnStep(c) PROVE ~ Down'
  BY <1>1, ConnIsUp, Zenon DEF Down, To, ConnsTyped
<1>2. CASE WriteBack \/ UNCHANGED vars
  BY <1>2, Zenon DEF WriteBack, vars, Down
<1>3. CASE Restart
  BY <1>3, Zenon DEF Restart, Down
<1> QED  BY <1>1, <1>2, <1>3, Zenon DEF Next, StartsInVain, ConnStep

LEMMA DownStays == ASSUME ConnsTyped, Down, inflight = None, [Next]_vars PROVE UNCHANGED vars
<1>1. ASSUME NEW c \in Conns, ConnStep(c) PROVE FALSE
  BY <1>1, ConnIsUp, Zenon DEF ConnsTyped
<1> QED  BY <1>1, Zenon DEF Next, StartsInVain, ConnStep, WriteBack, Restart, RestartFails

\* Every step of a hub that is up, and of one that comes up, keeps what was seen.
LEMMA SeenUpStep == ASSUME Typed, SeenUp, [Next]_vars, ~ RestartFails PROVE SeenUp'
<1> USE DEF Typed
<1>0. None \notin Conns /\ None \notin Events
  BY IngestConstants, Zenon
<1>1. ASSUME NEW c \in Conns, NEW e \in Events, accept_event_with_dedup(c, e) PROVE SeenUp'
  <2>1. pc[c] = "idle" /\ UNCHANGED <<graph, active, rotated, inflight>>
    BY <1>1, Zenon DEF accept_event_with_dedup
  <2>2. /\ dedup' \subseteq dedup \union {e} /\ \A x \in dedup : x \in dedup' \/ x \in overtaken'
        /\ \A x \in overtaken : x \in dedup' \/ x \in overtaken'
    <3>1. \A x \in dedup : x \notin Pruned(dedup, ts[e]) => x \in Behind(ts[e]) /\ x # e
      BY PrunedLate, Zenon DEF MemoryTyped, Behind
    <3> QED  BY <1>1, <3>1, Zenon DEF accept_event_with_dedup, Pruned
  <2>3. CASE UNCHANGED <<pc, ev>>
    BY <2>1, <2>2, <2>3, Zenon DEF SeenUp, OnDisk
  <2>4. CASE To(c, "graph") /\ ev' = [ev EXCEPT ![c] = e] /\ e \in dedup'
    <3>1. \A d \in Conns : d # c => pc'[d] = pc[d] /\ ev'[d] = ev[d]
      BY <2>4, Zenon DEF To, ConnsTyped
    <3>2. pc'[c] = "graph" /\ ev'[c] = e
      BY <2>4, Zenon DEF To, ConnsTyped
    <3>3. \A d \in Conns : pc'[d] \notin {"idle", "graph"} => ev'[d] \in graph'
      BY <2>1, <3>1, <3>2, Zenon DEF SeenUp
    <3>4. graph' \union ({ev'[d] : d \in Conns} \ {None}) \subseteq dedup' \union overtaken'
      BY <2>1, <2>2, <2>4, <3>1, <3>2 DEF SeenUp
    <3> QED  BY <2>1, <3>3, <3>4, Zenon DEF SeenUp, OnDisk
  <2> QED  BY <1>1, <2>3, <2>4, Zenon DEF accept_event_with_dedup
\* A step of one connection that changes neither the graph nor the store, and
\* writes nothing.
<1>2. ASSUME NEW c \in Conns, NEW step \in Steps, To(c, step), ev' = ev, pc[c] \notin {"idle", "graph"},
             UNCHANGED <<graph, dedup, overtaken>>,
             OnDisk' \union ({inflight'} \ {None}) \subseteq OnDisk \union ({inflight} \ {None})
      PROVE  SeenUp'
  <2>1. \A d \in Conns : pc'[d] \notin {"idle", "graph"} => ev'[d] \in graph'
    BY <1>2, Zenon DEF SeenUp, To, ConnsTyped
  <2> QED  BY <1>2, <2>1, Zenon DEF SeenUp
<1>3. ASSUME NEW c \in Conns, ProcessEvent(c) PROVE SeenUp'
  <2>1. /\ pc[c] = "graph" /\ graph' = graph \union {ev[c]} /\ To(c, "buffer")
        /\ UNCHANGED <<dedup, ev, active, rotated, inflight, overtaken>>
    BY <1>3, Zenon DEF ProcessEvent
  <2>2. ev[c] \in Events
    BY <2>1, Zenon DEF ConnsTyped, Off
  <2>3. \A d \in Conns : pc'[d] \notin {"idle", "graph"} => ev'[d] \in graph'
    BY <2>1, Zenon DEF SeenUp, To, ConnsTyped
  <2>4. graph' \union ({ev'[d] : d \in Conns} \ {None}) \subseteq dedup' \union overtaken'
    BY <1>0, <2>1, <2>2, Zenon DEF SeenUp
  <2> QED  BY <2>1, <2>3, <2>4, Zenon DEF SeenUp, OnDisk
<1>4. ASSUME NEW c \in Conns, PushBuffer(c) \/ WalLock(c) PROVE SeenUp'
  <2>1. /\ UNCHANGED <<graph, dedup, overtaken, ev, active, rotated, inflight>> /\ pc[c] \notin {"idle", "graph"}
        /\ (To(c, "lock") \/ To(c, "remove") \/ To(c, "write"))
    BY <1>4, Zenon DEF PushBuffer, WalLock
  <2> QED  BY <1>2, <2>1, Zenon DEF OnDisk, Steps
<1>5. ASSUME NEW c \in Conns, RotateRemove(c) \/ RotateRename(c) \/ RotateOpen(c) PROVE SeenUp'
  <2>1. /\ UNCHANGED <<graph, dedup, overtaken, ev, inflight>> /\ pc[c] \notin {"idle", "graph"}
        /\ (To(c, "rename") \/ To(c, "open") \/ To(c, "write"))
    BY <1>5, Zenon DEF RotateRemove, RotateRename, RotateOpen
  <2>2. OnDisk' \subseteq OnDisk
    <3>1. CASE RotateRemove(c)
      BY <3>1, NewFiles, SetOfEmpty, Zenon DEF RotateRemove, OnDisk
    <3>2. CASE RotateRename(c)
      BY <3>2, NewFiles, SetOfEmpty, Zenon DEF RotateRename, OnDisk
    <3>3. CASE RotateOpen(c)
      BY <3>3, NewFiles, SetOfEmpty, Zenon DEF RotateOpen, OnDisk
    <3> QED  BY <1>5, <3>1, <3>2, <3>3, Zenon
  <2> QED  BY <1>2, <2>1, <2>2, Zenon DEF Steps
<1>6. ASSUME NEW c \in Conns, AppendFails(c) \/ WalWrite(c) PROVE SeenUp'
  <2>1. /\ UNCHANGED <<graph, dedup, overtaken, active, rotated>> /\ pc[c] \notin {"idle", "graph"}
        /\ pc' = [pc EXCEPT ![c] = "idle"] /\ ev' = [ev EXCEPT ![c] = None]
        /\ inflight' \in {inflight, ev[c]}
    BY <1>6, Zenon DEF AppendFails, WalWrite, Idle, To
  <2>2. ev[c] \in graph
    BY <2>1, Zenon DEF SeenUp
  <2>3. \A d \in Conns : d # c => pc'[d] = pc[d] /\ ev'[d] = ev[d]
    BY <2>1, Zenon DEF ConnsTyped, Off
  <2>4. pc'[c] = "idle" /\ ev'[c] = None
    BY <2>1, Zenon DEF ConnsTyped, Off
  <2>5. \A d \in Conns : pc'[d] \notin {"idle", "graph"} => ev'[d] \in graph'
    BY <2>1, <2>3, <2>4 DEF SeenUp
  <2>6. graph' \union ({ev'[d] : d \in Conns} \ {None}) \subseteq dedup' \union overtaken'
    BY <2>1, <2>3, <2>4, SMTT(30) DEF SeenUp
  <2> QED  BY <2>1, <2>2, <2>5, <2>6, Zenon DEF SeenUp, OnDisk
<1>7. CASE WriteBack
  <2>1. /\ UNCHANGED <<graph, dedup, overtaken, pc, ev, rotated>> /\ inflight # None /\ inflight' = None
        /\ active' = WithLine(active, inflight)
    BY <1>7, Zenon DEF WriteBack
  <2> DEFINE x == IF active.torn THEN Bad ELSE inflight
  <2>2. active'.lines = Append(active.lines, x) /\ x \in Lines /\ active.lines \in Seq(Lines)
    BY <2>1, FileTyped, Zenon DEF WithLine, DiskTyped, Lines
  <2>3. Range(active'.lines) = Range(active.lines) \union {x} /\ x \in {Bad, inflight}
    BY <2>2, SetOfAppend
  <2>4. OnDisk' \subseteq OnDisk \union ({inflight} \ {None})
    BY <2>1, <2>3, Zenon DEF OnDisk
  <2> QED  BY <2>1, <2>4, Zenon DEF SeenUp
<1>8. CASE Restart
  <2>1. PICK file \in AfterCrash :
          LET s == replay_wal(rotated, file) IN
          /\ dedup' = s.dedup /\ graph' = s.graph
          /\ active' = [file EXCEPT !.exists = TRUE]
          /\ overtaken' = {e \in s.graph : \E x \in s.graph : ts[x] > ts[e] + Window}
    BY <1>8, Zenon DEF Restart
  <2>2. pc' = [c \in Conns |-> "idle"] /\ ev' = [c \in Conns |-> None] /\ inflight' = None /\ rotated' = rotated
    BY <1>8, Zenon DEF Restart
  <2>3. file.lines \in Seq(Lines) /\ rotated.lines \in Seq(Lines) /\ active'.lines = file.lines
    BY <2>1, CrashFile, FileTyped, Zenon DEF DiskTyped
  <2> DEFINE s == replay_wal(rotated, file)
  <2>4. Restored(s) /\ s.graph = (Range(rotated.lines) \union Range(file.lines)) \ {Bad}
    BY <2>3, WalRestored, Zenon
  <2> HIDE DEF s
  <2>5. dedup' = s.dedup /\ graph' = s.graph /\ overtaken' = {e \in s.graph : Late(e, s.graph)}
    BY <2>1, Zenon DEF s, Late
  <2>6. graph' \subseteq dedup' \union overtaken'
    BY <2>4, <2>5, Zenon DEF Restored
  <2>7. OnDisk' = graph'
    BY <2>2, <2>3, <2>4, <2>5, Zenon DEF OnDisk
  <2> QED  BY <2>2, <2>6, <2>7, Zenon DEF SeenUp
<1>9. CASE UNCHANGED vars
  BY <1>9, Zenon DEF vars, SeenUp, OnDisk
<1> QED  BY <1>1, <1>3, <1>4, <1>5, <1>6, <1>7, <1>8, <1>9, Zenon DEF Next, StartsInVain

LEMMA SeenStep == ASSUME Typed, Seen, [Next]_vars PROVE Seen'
<1>1. CASE Down
  <2>1. UNCHANGED vars
    BY <1>1, DownStays, Zenon DEF Typed, Seen
  <2> QED  BY <1>1, <2>1, Zenon DEF Seen, Down, vars
<1>2. CASE ~ Down /\ RestartFails
  <2>1. PICK c \in Conns : TRUE
    BY IngestConstants, Zenon
  <2>2. pc'[c] = "down" /\ inflight' = None
    BY <1>2, Zenon DEF RestartFails
  <2> QED  BY <2>2, Zenon DEF Seen, Down
<1>3. CASE ~ Down /\ ~ RestartFails
  <2>1. ~ Down' /\ SeenUp'
    BY <1>3, UpStays, SeenUpStep, Zenon DEF Typed, Seen
  <2> QED  BY <2>1, Zenon DEF Seen
<1> QED  BY <1>1, <1>2, <1>3, Zenon

LEMMA SeenCorrect == Spec => []Seen
<1>1. Init => Seen
  BY NewFiles, SetOfEmpty, Zenon DEF Init, Seen, SeenUp, Down, OnDisk
<1> QED  BY <1>1, SeenStep, TypedCorrect, PTL DEF Spec

\* A duplicate is processed again only after some event more than a window
\* later has come in: for any connections that deliver it at once, any window
\* and any number of restarts and replays.
THEOREM DuplicatesSuppressed == Spec => DedupSuppresses
<1>1. ASSUME Typed, Seen, [Next]_vars, NEW c \in Conns, pc[c] = "idle", pc'[c] = "graph",
             ev'[c] \in graph \union {ev[d] : d \in Conns}
      PROVE  ev'[c] \in overtaken
  <2>1. PICK e \in Events : accept_event_with_dedup(c, e)
    <3>1. ASSUME NEW d \in Conns, NEW step \in Steps, pc[d] # "idle" \/ d # c, To(d, step), step # "graph"
          PROVE  FALSE
      BY <1>1, <3>1, Zenon DEF To, Typed, ConnsTyped
    <3>2. ASSUME NEW d \in Conns, NEW e \in Events, accept_event_with_dedup(d, e), d # c PROVE FALSE
      BY <1>1, <3>2, Zenon DEF accept_event_with_dedup, To, Typed, ConnsTyped
    <3>3. ASSUME NEW d \in Conns,
                 \/ ProcessEvent(d) \/ PushBuffer(d) \/ WalLock(d) \/ RotateRemove(d) \/ RotateRename(d)
                 \/ RotateOpen(d) \/ AppendFails(d) \/ WalWrite(d)
          PROVE  FALSE
      <4>1. pc[d] # "idle" /\ \E step \in Steps \ {"graph"} : To(d, step)
        BY <3>3, Zenon DEF ProcessEvent, PushBuffer, WalLock, RotateRemove, RotateRename, RotateOpen,
                    AppendFails, WalWrite, Idle, Steps
      <4> QED  BY <3>1, <4>1, Zenon
    <3>4. CASE WriteBack \/ UNCHANGED vars
      BY <1>1, <3>4, Zenon DEF WriteBack, vars
    <3>5. CASE Restart \/ RestartFails
      BY <1>1, <3>5, Zenon DEF Restart, RestartFails
    <3> QED  BY <1>1, <3>2, <3>3, <3>4, <3>5, Zenon DEF Next, StartsInVain
  <2>2. ev'[c] = e /\ e \notin Pruned(dedup, ts[e])
    BY <1>1, <2>1, Zenon DEF accept_event_with_dedup, Typed, ConnsTyped
  <2>3. e \notin dedup
    BY <1>1, <2>2, PrunedLate, Zenon
  <2>4. SeenUp
    BY <1>1, Zenon DEF Seen, Typed, ConnsTyped
  <2> QED  BY <1>1, <2>2, <2>3, <2>4, IngestConstants, Zenon DEF SeenUp
<1>2. Typed /\ Seen /\ [Next]_vars =>
        [\A c \in Conns : pc[c] = "idle" /\ pc'[c] = "graph" =>
            (ev'[c] \in graph \union {ev[d] : d \in Conns} => ev'[c] \in overtaken)]_vars
  BY <1>1, Zenon
<1> QED  BY <1>2, TypedCorrect, SeenCorrect, PTL DEF Spec, DedupSuppresses

\* With a limit set, a restart gives the graph back every recent acknowledged
\* event whose line is not lost (see RecentAreLogged) and processes none that was
\* not processed before: whenever it comes, if the hub starts at all.
THEOREM RestartGivesBack == ASSUME MaxLines > 0 PROVE Spec => RestartRestores
<1>1. ASSUME Typed, Typed', Seen, RecentLogged', Restart
      PROVE  Range(acked') \ lost' \subseteq graph' /\ graph' \subseteq graph
  <2>1. PICK file \in AfterCrash :
          graph' = replay_wal(rotated, file).graph /\ active' = [file EXCEPT !.exists = TRUE]
    BY <1>1, Zenon DEF Restart
  <2>2. file.lines \in Seq(Lines) /\ rotated.lines \in Seq(Lines) /\ active'.lines = file.lines
        /\ rotated' = rotated /\ inflight' = None
    BY <1>1, <2>1, CrashFile, FileTyped, Zenon DEF Typed, DiskTyped, Restart
  <2>3. graph' = OnDisk'
    BY <2>1, <2>2, WalRestored DEF OnDisk
  <2>4. OnDisk' \subseteq OnDisk \union ({inflight} \ {None})
    <3>1. CASE file.lines = active.lines
      BY <2>2, <3>1, Zenon DEF OnDisk
    <3>2. CASE file.lines # active.lines
      <4> DEFINE x == IF active.torn THEN Bad ELSE inflight
      <4>1. inflight # None /\ file.lines = Append(active.lines, x)
        BY <1>1, <3>2, CrashFile, Zenon DEF Typed
      <4>2. x \in Lines /\ active.lines \in Seq(Lines)
        BY <1>1, <4>1, FileTyped, Zenon DEF Typed, DiskTyped, Lines
      <4>3. Range(file.lines) = Range(active.lines) \union {x} /\ x \in {Bad, inflight}
        BY <4>1, <4>2, SetOfAppend
      <4> QED  BY <2>2, <4>1, <4>3, Zenon DEF OnDisk
    <3> QED  BY <3>1, <3>2, Zenon
  <2>5. Range(acked') \subseteq Events
    <3>1. acked' \in Seq(Events)
      BY <1>1, Zenon DEF Typed, DiskTyped
    <3> QED  BY <3>1, ElementOfSeq, LenProperties, Zenon DEF Range
  <2>6. None \notin Range(acked') \ lost'
    BY <2>5, IngestConstants, Zenon
  <2>7. SeenUp
    BY <1>1, Zenon DEF Seen, Restart
  <2> QED  BY <1>1, <2>2, <2>3, <2>4, <2>6, <2>7, Zenon DEF RecentLogged, SeenUp
<1>2. Typed /\ Typed' /\ Seen /\ RecentLogged' =>
        [Restart => Range(acked') \ lost' \subseteq graph' /\ graph' \subseteq graph]_vars
  BY <1>1, Zenon
<1> QED  BY <1>2, TypedCorrect, SeenCorrect, RecentAreLogged, PTL DEF RestartRestores

=============================================================================
