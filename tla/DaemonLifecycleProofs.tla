----------------------- MODULE DaemonLifecycleProofs -----------------------
(***************************************************************************)
(* What the lock protocol of DaemonLifecycle guarantees for every set of   *)
(* processes that start, stop, crash, attach and ask, with no condition on *)
(* which of them do.                                                       *)
(***************************************************************************)
EXTENDS DaemonLifecycle, TLAPS

(* Every step keeps the type invariant. *)
LEMMA DaemonTypeStep == DaemonTypeOK /\ [Next]_vars => DaemonTypeOK'
<1> SUFFICES ASSUME DaemonTypeOK, [Next]_vars PROVE DaemonTypeOK'
  OBVIOUS
<1> USE NamesAssumption DEF DaemonTypeOK, Files, Phases, Goto
<1>1. ASSUME NEW d \in Daemons, Launch(d) PROVE DaemonTypeOK'
  BY <1>1 DEF Launch
<1>2. ASSUME NEW d \in Daemons, OpenLock(d) PROVE DaemonTypeOK'
  BY <1>2 DEF OpenLock
<1>3. ASSUME NEW d \in Daemons, FlockNB(d) PROVE DaemonTypeOK'
  BY <1>3 DEF FlockNB
<1>4. ASSUME NEW d \in Daemons, CheckStale(d) PROVE DaemonTypeOK'
  BY <1>4 DEF CheckStale
<1>5. ASSUME NEW d \in Daemons, RemoveStale(d) PROVE DaemonTypeOK'
  BY <1>5 DEF RemoveStale
<1>6. ASSUME NEW d \in Daemons, Bind(d) PROVE DaemonTypeOK'
  BY <1>6 DEF Bind
<1>7. ASSUME NEW d \in Daemons, Listen(d) PROVE DaemonTypeOK'
  BY <1>7 DEF Listen
<1>8. ASSUME NEW d \in Daemons, CleanSocket(d) PROVE DaemonTypeOK'
  BY <1>8 DEF CleanSocket
<1>9. ASSUME NEW d \in Daemons, UnlinkLock(d) PROVE DaemonTypeOK'
  BY <1>9 DEF UnlinkLock
<1>10. ASSUME NEW d \in Daemons, DropLock(d) PROVE DaemonTypeOK'
  BY <1>10 DEF DropLock
<1>11. ASSUME NEW d \in Daemons, StopServing(d) PROVE DaemonTypeOK'
  BY <1>11 DEF StopServing
<1>12. ASSUME NEW d \in Daemons, CrashDaemon(d) PROVE DaemonTypeOK'
  BY <1>12 DEF CrashDaemon
<1>13. ASSUME NEW a \in Attachers, Connect(a) PROVE DaemonTypeOK'
  <2>1. CASE Answers
    BY <1>13, <2>1 DEF Connect
  <2>2. CASE ~Answers
    <3>1. PICK d \in Daemons : pc[d] = "absent" /\ Goto(d, "starting")
      BY <1>13, <2>2 DEF Connect
    <3>2. QED
      BY <1>13, <2>2, <3>1 DEF Connect
  <2>3. QED
    BY <2>1, <2>2
<1>14. ASSUME NEW a \in Attachers, Poll(a) PROVE DaemonTypeOK'
  BY <1>14 DEF Poll, daemonVars
<1>15. ASSUME NEW a \in Attachers, GiveUp(a) PROVE DaemonTypeOK'
  BY <1>15 DEF GiveUp, daemonVars
<1>16. ASSUME NEW c \in Controls, Ask(c) PROVE DaemonTypeOK'
  BY <1>16 DEF Ask, daemonVars
<1>17. ASSUME NEW c \in Controls, Classify(c) PROVE DaemonTypeOK'
  BY <1>17 DEF Classify, daemonVars
<1>18. ASSUME NEW c \in Controls, RemoveRefused(c) PROVE DaemonTypeOK'
  BY <1>18 DEF RemoveRefused
<1>19. CASE UNCHANGED vars
  BY <1>19 DEF vars
<1>20. QED
  BY <1>1, <1>2, <1>3, <1>4, <1>5, <1>6, <1>7, <1>8, <1>9, <1>10, <1>11, <1>12,
     <1>13, <1>14, <1>15, <1>16, <1>17, <1>18, <1>19 DEF Next, DaemonStep

(* A daemon process past its open of the lockfile has a file open, and the *)
(* state is of its type, for every set of processes.                       *)
THEOREM DaemonTypeCorrect == Spec => []DaemonTypeOK
<1>1. Init => DaemonTypeOK
  BY DEF Init, DaemonTypeOK, Files, Phases
<1>2. QED
  BY <1>1, DaemonTypeStep, PTL DEF Spec

-----------------------------------------------------------------------------
(* The handover of the path from daemon to daemon.                         *)

(* What a step of daemon d that opens no lockfile and locks none does to   *)
(* the handover: d does not come to own, a socket is bound by an owner     *)
(* only, and the lockfile's name goes with its owner.                      *)
Yields(d) ==
  /\ fd' = fd
  /\ \A e \in Daemons : e # d => pc'[e] = pc[e]
  /\ pc[d] \in Owning \/ pc'[d] \notin Owning
  /\ lockPath' = lockPath \/ (pc[d] \in Owning /\ pc'[d] \notin Owning)
  /\ pc'[d] = "clear" => sock' = Nothing
  /\ \/ sock' = sock /\ (pc'[d] \in Bound \cup {"stopped"} => pc[d] \in Bound \cup {"stopped"})
     \/ sock' = Nothing /\ pc'[d] \notin Bound \cup {"stopped"}
     \/ sock' = d /\ pc[d] \in Owning /\ pc'[d] # "clear"

(* A step that only yields keeps the handover. *)
LEMMA YieldsKeeps ==
  ASSUME Handover, NEW d \in Daemons, Yields(d)
  PROVE  Handover'
<1> USE DEF Handover, CleanupRemovesOwn, Yields, Owning, Holding, Bound
<1>1. (\A e \in Daemons : pc[e] \in Owning => fd[e] = lockPath)'
  OBVIOUS
<1>2. (\A e, f \in Daemons : pc[e] \in Owning /\ pc[f] \in Owning => e = f)'
  OBVIOUS
<1>3. (\A e \in Daemons : pc[e] \in Bound \cup {"stopped"} => sock \in {e, Nothing})'
  <2> SUFFICES ASSUME NEW e \in Daemons, (pc[e] \in Bound \cup {"stopped"})'
               PROVE  sock' \in {e, Nothing}
    OBVIOUS
  <2>1. CASE e = d
    BY <2>1
  <2>2. CASE e # d
    BY <2>2
  <2>3. QED
    BY <2>1, <2>2
<1>4. (\A e \in Daemons : pc[e] = "clear" => sock = Nothing)'
  <2> SUFFICES ASSUME NEW e \in Daemons, pc'[e] = "clear" PROVE sock' = Nothing
    OBVIOUS
  <2>1. CASE e = d
    BY <2>1
  <2>2. CASE e # d
    BY <2>2
  <2>3. QED
    BY <2>1, <2>2
<1>5. QED
  BY <1>1, <1>2, <1>3, <1>4

(* Every step but a stale flock keeps the handover. *)
LEMMA HandoverStep ==
  DaemonTypeOK /\ Handover /\ [Next]_vars => Handover' \/ \E d \in Daemons : StaleFlock(d)
<1> SUFFICES ASSUME DaemonTypeOK, Handover, [Next]_vars, \A d \in Daemons : ~StaleFlock(d)
             PROVE  Handover'
  OBVIOUS
<1>a. pc \in [Daemons -> Phases] /\ fd \in [Daemons -> Files]
  BY DEF DaemonTypeOK
<1>1. ASSUME NEW d \in Daemons,
             \/ Launch(d) \/ CheckStale(d) \/ RemoveStale(d) \/ Bind(d) \/ Listen(d)
             \/ StopServing(d) \/ CleanSocket(d) \/ UnlinkLock(d) \/ DropLock(d)
             \/ CrashDaemon(d)
      PROVE  Handover'
  <2> USE <1>a, NamesAssumption DEF Yields, Owning, Holding, Bound, Goto, Phases
  <2>1. CASE Launch(d) \/ CrashDaemon(d)
    <3>1. Yields(d)
      BY <2>1 DEF Launch, CrashDaemon
    <3>2. QED
      BY <3>1, YieldsKeeps
  <2>2. CASE CheckStale(d) \/ Listen(d) \/ StopServing(d)
    <3>1. Yields(d)
      BY <2>2 DEF CheckStale, Listen, StopServing
    <3>2. QED
      BY <3>1, YieldsKeeps
  <2>3. CASE RemoveStale(d) \/ Bind(d) \/ CleanSocket(d)
    <3>1. Yields(d)
      BY <2>3 DEF RemoveStale, Bind, CleanSocket
    <3>2. QED
      BY <3>1, YieldsKeeps
  <2>4. CASE UnlinkLock(d) \/ DropLock(d)
    <3>1. Yields(d)
      BY <2>4 DEF UnlinkLock, DropLock
    <3>2. QED
      BY <3>1, YieldsKeeps
  <2>5. QED
    BY <1>1, <2>1, <2>2, <2>3, <2>4
<1>2. ASSUME NEW d \in Daemons, OpenLock(d) PROVE Handover'
  <2>1. /\ \A e \in Daemons : pc'[e] = IF e = d THEN "opened" ELSE pc[e]
        /\ \A e \in Daemons : fd'[e] = IF e = d THEN lockPath' ELSE fd[e]
        /\ lockPath # Nothing => lockPath' = lockPath
        /\ sock' = sock
    BY <1>2, <1>a DEF OpenLock, Goto
  <2>2. \A e \in Daemons : pc[e] \in Owning => lockPath # Nothing
    BY DEF Handover, DaemonTypeOK, Owning, Holding
  <2>3. QED
    BY <2>1, <2>2 DEF Handover, CleanupRemovesOwn, Owning, Holding, Bound
<1>3. ASSUME NEW d \in Daemons, FlockNB(d) PROVE Handover'
  <2>1. UNCHANGED <<fd, lockPath, sock, ops>> /\ pc[d] = "opened"
    BY <1>3 DEF FlockNB
  <2>2. CASE \E e \in Daemons : Holds(e) /\ fd[e] = fd[d]
    <3>1. \A e \in Daemons : pc'[e] = IF e = d THEN "exited" ELSE pc[e]
      BY <1>3, <1>a, <2>2 DEF FlockNB, Goto
    <3>2. QED
      BY <2>1, <3>1 DEF Handover, CleanupRemovesOwn, Owning, Holding, Bound
  <2>3. CASE ~ \E e \in Daemons : Holds(e) /\ fd[e] = fd[d]
    <3>1. \A e \in Daemons : pc'[e] = IF e = d THEN "locked" ELSE pc[e]
      BY <1>3, <1>a, <2>3 DEF FlockNB, Goto
    <3>2. fd[d] = lockPath
      BY <2>1, <3>1 DEF StaleFlock
    <3>3. \A e \in Daemons : pc[e] \notin Owning
      BY <2>3, <3>2 DEF Handover, Owning, Holds
    <3>4. QED
      BY <2>1, <3>1, <3>2, <3>3 DEF Handover, CleanupRemovesOwn, Owning, Holding, Bound
  <2>4. QED
    BY <2>2, <2>3
<1>4. ASSUME UNCHANGED <<pc, fd, lockPath, ops>>, sock' \in {sock, Nothing} PROVE Handover'
  BY <1>4 DEF Handover, CleanupRemovesOwn
<1>5. ASSUME NEW a \in Attachers, Connect(a) PROVE Handover'
  <2>1. UNCHANGED <<fd, lockPath, sock, ops>>
    BY <1>5 DEF Connect
  <2>2. CASE Answers
    BY <1>4, <1>5, <2>1, <2>2 DEF Connect
  <2>3. CASE ~Answers
    <3>1. PICK d \in Daemons : pc[d] = "absent" /\ Goto(d, "starting")
      BY <1>5, <2>3 DEF Connect
    <3>2. Yields(d)
      BY <1>a, <2>1, <3>1 DEF Yields, Goto, Owning, Holding, Bound
    <3>3. QED
      BY <3>2, YieldsKeeps
  <2>4. QED
    BY <2>2, <2>3
<1>6. ASSUME NEW a \in Attachers, Poll(a) \/ GiveUp(a) PROVE Handover'
  BY <1>4, <1>6 DEF Poll, GiveUp, daemonVars
<1>7. ASSUME NEW c \in Controls, Ask(c) \/ Classify(c) \/ RemoveRefused(c) PROVE Handover'
  BY <1>4, <1>7 DEF Ask, Classify, RemoveRefused, daemonVars
<1>8. CASE UNCHANGED vars
  BY <1>4, <1>8 DEF vars
<1>9. QED
  BY <1>1, <1>2, <1>3, <1>5, <1>6, <1>7, <1>8 DEF Next, DaemonStep

(* The handover holds at the start, and whatever stops, crashes, starts,   *)
(* attaches or asks, in any numbers, no step loses it but one that locks a *)
(* lockfile which is no longer at its path.                                *)
THEOREM ExclusionKept == Spec => Handover /\ HandoverKept
<1>1. Init => Handover
  BY DEF Init, Handover, CleanupRemovesOwn, Owning, Holding, Bound
<1>2. [DaemonTypeOK /\ Next]_vars =>
         [Handover => Handover' \/ \E d \in Daemons : StaleFlock(d)]_vars
  BY HandoverStep
<1>3. QED
  BY <1>1, <1>2, DaemonTypeCorrect, PTL DEF Spec, HandoverKept

(* What the handover is for: while it lasts one daemon serves, and a       *)
(* cleanup removes no socket but its own.                                  *)
COROLLARY HandoverSafe == Spec => [](Handover => AtMostOneServing /\ CleanupRemovesOwn)
<1>1. Handover => AtMostOneServing /\ CleanupRemovesOwn
  BY DEF Handover, AtMostOneServing, Bound, Owning, Holding
<1>2. QED
  BY <1>1, PTL

-----------------------------------------------------------------------------
(* flock(2) itself: a lockfile is held by one process at most, which has   *)
(* it open; stale ones too.                                                *)
LockInv ==
  /\ DaemonTypeOK
  /\ \A d, e \in Daemons : Holds(d) /\ Holds(e) /\ fd[d] = fd[e] => d = e

(* Every step keeps it. *)
LEMMA LockStep == LockInv /\ [Next]_vars => LockInv'
<1> SUFFICES ASSUME LockInv, [Next]_vars PROVE LockInv'
  OBVIOUS
<1>0. DaemonTypeOK'
  BY DaemonTypeStep DEF LockInv
<1>a. pc \in [Daemons -> Phases] /\ fd \in [Daemons -> Files]
  BY DEF LockInv, DaemonTypeOK
<1>1. ASSUME NEW d \in Daemons, fd' = fd, \A e \in Daemons : e # d => pc'[e] = pc[e],
             pc[d] \in Holding \/ pc'[d] \notin Holding
      PROVE  LockInv'
  BY <1>0, <1>1 DEF LockInv, Holds
<1>2. ASSUME NEW d \in Daemons,
             \/ Launch(d) \/ CheckStale(d) \/ RemoveStale(d) \/ Bind(d) \/ Listen(d)
             \/ StopServing(d) \/ CleanSocket(d) \/ UnlinkLock(d) \/ DropLock(d)
             \/ CrashDaemon(d)
      PROVE  LockInv'
  <2>1. fd' = fd
    BY <1>2 DEF Launch, CheckStale, RemoveStale, Bind, Listen, StopServing, CleanSocket,
                UnlinkLock, DropLock, CrashDaemon
  <2>2. \A e \in Daemons : e # d => pc'[e] = pc[e]
    BY <1>2, <1>a DEF Launch, CheckStale, RemoveStale, Bind, Listen, StopServing,
                      CleanSocket, UnlinkLock, DropLock, CrashDaemon, Goto
  <2>3. pc[d] \in Holding \/ pc'[d] \notin Holding
    BY <1>2, <1>a DEF Launch, CheckStale, RemoveStale, Bind, Listen, StopServing,
                      CleanSocket, UnlinkLock, DropLock, CrashDaemon, Goto, Holding
  <2>4. QED
    BY <1>1, <2>1, <2>2, <2>3
<1>3. ASSUME NEW d \in Daemons, OpenLock(d) PROVE LockInv'
  <2>1. /\ \A e \in Daemons : pc'[e] = IF e = d THEN "opened" ELSE pc[e]
        /\ \A e \in Daemons : e # d => fd'[e] = fd[e]
    BY <1>3, <1>a DEF OpenLock, Goto
  <2>2. QED
    BY <1>0, <2>1 DEF LockInv, Holds, Holding
<1>4. ASSUME NEW d \in Daemons, FlockNB(d) PROVE LockInv'
  <2>1. fd' = fd
    BY <1>4 DEF FlockNB
  <2>2. CASE \E e \in Daemons : Holds(e) /\ fd[e] = fd[d]
    <3>1. \A e \in Daemons : pc'[e] = IF e = d THEN "exited" ELSE pc[e]
      BY <1>4, <1>a, <2>2 DEF FlockNB, Goto
    <3>2. QED
      BY <1>1, <2>1, <3>1 DEF Holding
  <2>3. CASE ~ \E e \in Daemons : Holds(e) /\ fd[e] = fd[d]
    <3>1. \A e \in Daemons : pc'[e] = IF e = d THEN "locked" ELSE pc[e]
      BY <1>4, <1>a, <2>3 DEF FlockNB, Goto
    <3>2. QED
      BY <1>0, <2>1, <2>3, <3>1 DEF LockInv, Holds
  <2>4. QED
    BY <2>2, <2>3
<1>5. ASSUME UNCHANGED <<pc, fd, ops>> PROVE LockInv'
  BY <1>0, <1>5 DEF LockInv, Holds
<1>6. ASSUME NEW a \in Attachers, Connect(a) PROVE LockInv'
  <2>1. CASE Answers
    BY <1>5, <1>6, <2>1 DEF Connect
  <2>2. CASE ~Answers
    <3>1. PICK d \in Daemons : pc[d] = "absent" /\ Goto(d, "starting")
      BY <1>6, <2>2 DEF Connect
    <3>2. fd' = fd
      BY <1>6 DEF Connect
    <3>3. QED
      BY <1>1, <1>a, <3>1, <3>2 DEF Goto, Holding
  <2>3. QED
    BY <2>1, <2>2
<1>7. ASSUME NEW a \in Attachers, Poll(a) \/ GiveUp(a) PROVE LockInv'
  BY <1>5, <1>7 DEF Poll, GiveUp, daemonVars
<1>8. ASSUME NEW c \in Controls, Ask(c) \/ Classify(c) \/ RemoveRefused(c) PROVE LockInv'
  BY <1>5, <1>8 DEF Ask, Classify, RemoveRefused, daemonVars
<1>9. CASE UNCHANGED vars
  BY <1>5, <1>9 DEF vars
<1>10. QED
  BY <1>2, <1>3, <1>4, <1>6, <1>7, <1>8, <1>9 DEF Next, DaemonStep

(* What the step is that changes the path under a daemon which needs it.   *)
TakesSocket(d) ==
  \/ pc[d] = "replacing" /\ pc'[d] = "clear"
  \/ \E c \in Controls : control[c] = "removing" /\ control'[c] = "start"
  \/ \E e \in Daemons : Holds(e) /\ fd[e] # fd[d]

(* A step that takes the socket away is of one of the three kinds.         *)
LEMMA SocketStep ==
  ASSUME LockInv, [Next]_vars, NEW d \in Daemons, NeedsSocket(d), sock' # sock
  PROVE  TakesSocket(d)
<1>a. pc \in [Daemons -> Phases] /\ control \in [Controls -> {"start", "refused", "removing"}]
  BY DEF LockInv, DaemonTypeOK
<1>b. sock # Nothing /\ Holds(d)
  BY NamesAssumption DEF NeedsSocket, Holds, Holding, Bound
<1>1. ASSUME NEW e \in Daemons, e # d, Holds(e) PROVE TakesSocket(d)
  BY <1>1, <1>b DEF LockInv, TakesSocket
<1>2. ASSUME NEW e \in Daemons, RemoveStale(e) PROVE TakesSocket(d)
  <2>1. CASE e = d
    BY <1>2, <1>a, <1>b, <2>1 DEF RemoveStale, Goto, TakesSocket
  <2>2. CASE e # d
    BY <1>1, <1>2, <2>2 DEF RemoveStale, Holds, Holding
  <2>3. QED
    BY <2>1, <2>2
<1>3. ASSUME NEW e \in Daemons, CleanSocket(e) PROVE TakesSocket(d)
  BY <1>1, <1>3 DEF CleanSocket, Holds, Holding, NeedsSocket, Bound
<1>4. ASSUME NEW e \in Daemons, Bind(e) PROVE FALSE
  BY <1>4, <1>b DEF Bind
<1>5. ASSUME NEW c \in Controls, RemoveRefused(c) PROVE TakesSocket(d)
  BY <1>5, <1>a DEF RemoveRefused, TakesSocket
<1>6. QED
  BY <1>2, <1>3, <1>4, <1>5
     DEF Next, DaemonStep, Launch, OpenLock, FlockNB, CheckStale, Listen, StopServing,
         UnlinkLock, DropLock, CrashDaemon, Connect, Poll, GiveUp, Ask, Classify, vars,
         daemonVars

(* In every behaviour, the socket a daemon bound or is about to replace is *)
(* taken from it only by a control client that was refused before, or by a *)
(* process that holds another lockfile.                                    *)
THEOREM SocketTakers == Spec => SocketKept
<1>1. Init => LockInv
  BY DEF Init, LockInv, DaemonTypeOK, Files, Phases, Holds, Holding
<1>2. [LockInv /\ Next]_vars =>
        [\A d \in Daemons : NeedsSocket(d) /\ sock' # sock =>
           \/ pc[d] = "replacing" /\ pc'[d] = "clear"
           \/ \E c \in Controls : control[c] = "removing" /\ control'[c] = "start"
           \/ \E e \in Daemons : Holds(e) /\ fd[e] # fd[d]]_vars
  <2> SUFFICES ASSUME LockInv, Next, NEW d \in Daemons, NeedsSocket(d), sock' # sock
               PROVE  TakesSocket(d)
    BY DEF TakesSocket
  <2>1. QED
    BY SocketStep
<1>3. QED
  BY <1>1, <1>2, LockStep, PTL DEF Spec, SocketKept
=============================================================================
