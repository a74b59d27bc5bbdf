-------------------------- MODULE DaemonLifecycle --------------------------
(***************************************************************************)
(* One daemon per socket path: src/lockfile.rs, run_daemon and cleanup of  *)
(* src/daemon.rs, the questions of src/daemon_control.rs, and the starts   *)
(* of src/daemon_attach.rs and pmacs-gpu/src/attach.rs.                    *)
(*                                                                         *)
(* Every process runs its system calls one at a time, interleaved with     *)
(* those of all others.  A lockfile is a path naming an inode: flock(2)    *)
(* locks the inode an open file refers to, unlink(2) only the name.  The   *)
(* inode a process creates and the socket a daemon binds are named after   *)
(* it, since each makes at most one.                                       *)
(***************************************************************************)
EXTENDS Naturals, FiniteSets

CONSTANTS Daemons,    \* processes that run `pmacs --daemon` on the path
          Attachers,  \* --daemon-attach and managed attaches
          Controls,   \* --daemon --status and --stop
          Nothing,    \* no file at a path
          Leftover,   \* a file of a daemon that ran before
          Scenarios   \* what may happen in a behaviour: "stop", "crash",
                      \* "timeout", "ask" (control clients)

ASSUME NamesAssumption == Nothing \notin Daemons /\ Leftover \notin Daemons
                            /\ Nothing # Leftover

VARIABLES pc,        \* where each daemon process is in run_daemon
          fd,        \* the lockfile inode each has open
          lockPath,  \* the inode at <socket>.lock
          sock,      \* the socket at the socket path
          attach,    \* where each attacher is
          control,   \* where each control client is
          ops        \* the scenario of this behaviour

vars == <<pc, fd, lockPath, sock, attach, control, ops>>
daemonVars == <<pc, fd, lockPath, sock>>

Files == Daemons \cup {Nothing, Leftover}

(* Mutant of Holding: the lock goes when the dispatcher loop ends, before  *)
(* the cleanup.                                                            *)
HoldingUntilStop == {"locked", "replacing", "clear", "bound", "serving"}

(* Between flock and the drop of the LockHandle. *)
Holding == {"locked", "replacing", "clear", "bound", "serving", "stopped",
            "unlinked", "dropping"}
(* The kernel has a socket of the daemon's at the path, by its account.    *)
Bound == {"bound", "serving"}
Phases == {"absent", "starting", "opened", "locked", "replacing", "clear", "bound",
           "serving", "stopped", "unlinked", "dropping", "exited"}

Holds(d) == pc[d] \in Holding

(* A connect to the path is accepted; a socket that is bound and not yet   *)
(* listening refuses, as one whose daemon is gone does.                    *)
Answers == sock \in Daemons /\ pc[sock] = "serving"

(* The state is of its type, and a process past the open of the lockfile   *)
(* has a file open.                                                        *)
DaemonTypeOK ==
  /\ pc \in [Daemons -> Phases]
  /\ \A d \in Daemons : pc[d] \notin {"absent", "starting", "exited"} => fd[d] # Nothing
  /\ fd \in [Daemons -> Files]
  /\ lockPath \in Files
  /\ sock \in Files
  /\ attach \in [Attachers -> {"start", "polling", "connected", "timedout"}]
  /\ control \in [Controls -> {"start", "refused", "removing"}]
  /\ ops \in Scenarios

(* A daemon that crashed before may have left its socket, its lockfile, or *)
(* both behind; nothing runs yet.                                          *)
Init ==
  /\ pc = [d \in Daemons |-> "absent"]
  /\ fd = [d \in Daemons |-> Nothing]
  /\ lockPath \in {Nothing, Leftover}
  /\ sock \in {Nothing, Leftover}
  /\ attach = [a \in Attachers |-> "start"]
  /\ control = [c \in Controls |-> "start"]
  /\ ops \in Scenarios

-----------------------------------------------------------------------------
(* A daemon. *)
Goto(d, phase) == pc' = [pc EXCEPT ![d] = phase]

(* The user starts one from a shell. *)
Launch(d) ==
  /\ pc[d] = "absent"
  /\ Goto(d, "starting")
  /\ UNCHANGED <<fd, lockPath, sock, attach, control, ops>>

(* Mutant of OpenLock: open without create.                                *)
OpenExisting(d) ==
  /\ pc[d] = "starting"
  /\ fd' = [fd EXCEPT ![d] = lockPath]
  /\ Goto(d, "opened")
  /\ UNCHANGED <<lockPath, sock, attach, control, ops>>

(* acquire_lock: open, creating the file if nothing is at the path.        *)
OpenLock(d) ==
  /\ pc[d] = "starting"
  /\ lockPath' = IF lockPath = Nothing THEN d ELSE lockPath
  /\ fd' = [fd EXCEPT ![d] = lockPath']
  /\ Goto(d, "opened")
  /\ UNCHANGED <<sock, attach, control, ops>>

(* Mutant of FlockNB: the lock is taken to be ours.                        *)
FlockAnyway(d) ==
  /\ pc[d] = "opened"
  /\ Goto(d, "locked")
  /\ UNCHANGED <<fd, lockPath, sock, attach, control, ops>>

(* acquire_lock: flock(LOCK_EX | LOCK_NB) on the inode that was opened;    *)
(* AlreadyHeld ends the process.                                           *)
FlockNB(d) ==
  /\ pc[d] = "opened"
  /\ Goto(d, IF \E e \in Daemons : Holds(e) /\ fd[e] = fd[d] THEN "exited" ELSE "locked")
  /\ UNCHANGED <<fd, lockPath, sock, attach, control, ops>>

(* Mutant of CheckStale: a socket file is never looked for.                *)
CheckNothing(d) ==
  /\ pc[d] = "locked"
  /\ Goto(d, "clear")
  /\ UNCHANGED <<fd, lockPath, sock, attach, control, ops>>

(* run_daemon: socket_path.exists(). *)
CheckStale(d) ==
  /\ pc[d] = "locked"
  /\ Goto(d, IF sock = Nothing THEN "clear" ELSE "replacing")
  /\ UNCHANGED <<fd, lockPath, sock, attach, control, ops>>

(* run_daemon: remove_file, whose failure ends the process.                *)
RemoveStale(d) ==
  /\ pc[d] = "replacing"
  /\ Goto(d, IF sock = Nothing THEN "exited" ELSE "clear")
  /\ sock' = Nothing
  /\ UNCHANGED <<fd, lockPath, attach, control, ops>>

(* UnixListener::bind, its bind(2): EADDRINUSE ends the process.           *)
Bind(d) ==
  /\ pc[d] = "clear"
  /\ IF sock = Nothing THEN sock' = d /\ Goto(d, "bound")
                       ELSE UNCHANGED sock /\ Goto(d, "exited")
  /\ UNCHANGED <<fd, lockPath, attach, control, ops>>

(* UnixListener::bind, its listen(2). *)
Listen(d) ==
  /\ pc[d] = "bound"
  /\ Goto(d, "serving")
  /\ UNCHANGED <<fd, lockPath, sock, attach, control, ops>>

(* A signal, a quit or --stop: the dispatcher loop ends, the accept thread *)
(* is joined and the listener with it.                                     *)
StopServing(d) ==
  /\ "stop" \in ops
  /\ pc[d] = "serving"
  /\ Goto(d, "stopped")
  /\ UNCHANGED <<fd, lockPath, sock, attach, control, ops>>

(* cleanup: remove_file(socket_path), whatever is there.                   *)
CleanSocket(d) ==
  /\ pc[d] = "stopped"
  /\ sock' = Nothing
  /\ Goto(d, "unlinked")
  /\ UNCHANGED <<fd, lockPath, attach, control, ops>>

(* LockHandle::release: the lockfile's name goes first. *)
UnlinkLock(d) ==
  /\ pc[d] = "unlinked"
  /\ lockPath' = Nothing
  /\ Goto(d, "dropping")
  /\ UNCHANGED <<fd, sock, attach, control, ops>>

(* ... then the file closes, and with it the flock. *)
DropLock(d) ==
  /\ pc[d] = "dropping"
  /\ Goto(d, "exited")
  /\ UNCHANGED <<fd, lockPath, sock, attach, control, ops>>

(* The process dies where it is, an error return of run_daemon among the   *)
(* ways; the kernel closes its files and every name stays.                 *)
CrashDaemon(d) ==
  /\ "crash" \in ops
  /\ pc[d] \notin {"absent", "exited"}
  /\ Goto(d, "exited")
  /\ UNCHANGED <<fd, lockPath, sock, attach, control, ops>>

DaemonStep(d) ==
  \/ OpenLock(d) \/ FlockNB(d) \/ CheckStale(d) \/ RemoveStale(d) \/ Bind(d)
  \/ Listen(d) \/ CleanSocket(d) \/ UnlinkLock(d) \/ DropLock(d)

-----------------------------------------------------------------------------
(* An attacher: ensure_daemon_running_with and connect_managed_inner.      *)

(* Mutant of Connect: a socket file is taken for a running daemon.         *)
ConnectTrusting(a) ==
  /\ attach[a] = "start"
  /\ IF sock # Nothing
     THEN attach' = [attach EXCEPT ![a] = "polling"] /\ UNCHANGED pc
     ELSE /\ attach' = [attach EXCEPT ![a] = "polling"]
          /\ \E d \in Daemons : pc[d] = "absent" /\ Goto(d, "starting")
  /\ UNCHANGED <<fd, lockPath, sock, control, ops>>

(* The first connect; if it fails, nothing or a stale socket being at the  *)
(* path, a daemon process is spawned.                                      *)
Connect(a) ==
  /\ attach[a] = "start"
  /\ IF Answers
     THEN attach' = [attach EXCEPT ![a] = "connected"] /\ UNCHANGED pc
     ELSE /\ attach' = [attach EXCEPT ![a] = "polling"]
          /\ \E d \in Daemons : pc[d] = "absent" /\ Goto(d, "starting")
  /\ UNCHANGED <<fd, lockPath, sock, control, ops>>

(* A later connect that succeeds, whoever's daemon answers. *)
Poll(a) ==
  /\ attach[a] = "polling"
  /\ Answers
  /\ attach' = [attach EXCEPT ![a] = "connected"]
  /\ UNCHANGED <<daemonVars, control, ops>>

(* AutoStartTimeout, StartupTimeout: the spawned process is left running.  *)
GiveUp(a) ==
  /\ "timeout" \in ops
  /\ attach[a] = "polling"
  /\ attach' = [attach EXCEPT ![a] = "timedout"]
  /\ UNCHANGED <<daemonVars, control, ops>>

-----------------------------------------------------------------------------
(* --status and --stop. *)

(* connect: an answer or nothing at the path ends it.                      *)
Ask(c) ==
  /\ "ask" \in ops
  /\ control[c] = "start"
  /\ sock # Nothing /\ ~Answers
  /\ control' = [control EXCEPT ![c] = "refused"]
  /\ UNCHANGED <<daemonVars, attach, ops>>

(* classify_connect_failure: the path is looked at again. *)
Classify(c) ==
  /\ control[c] = "refused"
  /\ control' = [control EXCEPT ![c] = IF sock = Nothing THEN "start" ELSE "removing"]
  /\ UNCHANGED <<daemonVars, attach, ops>>

(* connect_failure: remove_file, whatever is there by now. *)
RemoveRefused(c) ==
  /\ control[c] = "removing"
  /\ control' = [control EXCEPT ![c] = "start"]
  /\ sock' = Nothing
  /\ UNCHANGED <<pc, fd, lockPath, attach, ops>>

-----------------------------------------------------------------------------
Next ==
  \/ \E d \in Daemons : Launch(d) \/ DaemonStep(d) \/ StopServing(d) \/ CrashDaemon(d)
  \/ \E a \in Attachers : Connect(a) \/ Poll(a) \/ GiveUp(a)
  \/ \E c \in Controls : Ask(c) \/ Classify(c) \/ RemoveRefused(c)

Spec == Init /\ [][Next]_vars

(* Every process runs; an attacher polls every 50 ms.                      *)
Fairness ==
  /\ \A d \in Daemons : WF_vars(DaemonStep(d))
  /\ \A a \in Attachers : WF_vars(Poll(a))

FairSpec == Spec /\ Fairness

-----------------------------------------------------------------------------
(* lockfile.rs:16: "only one daemon holds the exclusive flock at a time",  *)
(* so that one daemon at most has a socket bound to the path.  A clean     *)
(* shutdown refutes it (DaemonStopRace.cfg): it unlinks a lockfile that a  *)
(* third process has opened and not yet locked.                            *)
AtMostOneServing ==
  \A d, e \in Daemons : pc[d] \in Bound /\ pc[e] \in Bound => d = e

(* daemon_control.rs:25: "A live daemon is never touched this way".  It is *)
(* reachable: the socket at the path is the one it bound.  --status        *)
(* refutes it (DaemonStatusRace.cfg): it removes what it finds at the path *)
(* on the evidence of an earlier connect.                                  *)
ServingReachable ==
  \A d \in Daemons : pc[d] \in Bound => sock = d

(* lockfile.rs: "the unlink-then-bind sequence happens under               *)
(* serialization".  A daemon that got the lock finds the path as it left   *)
(* it: neither its remove_file nor its bind fails.                         *)
StartupSerialized ==
  \A d \in Daemons : /\ pc[d] = "replacing" => sock # Nothing
                     /\ pc[d] = "clear" => sock = Nothing

(* Nobody is shut down cleanly, and no --status or --stop runs. *)
Undisturbed == ops \cap {"stop", "ask"} = {}

(* All three hold whatever starts and crashes, over any leftovers, as long *)
(* as nobody stops a daemon or asks for its status: what the lock is for.  *)
(* HandoverKept and SocketKept are about the rest.                         *)
StartupSafe ==
  Undisturbed => AtMostOneServing /\ ServingReachable /\ StartupSerialized

-----------------------------------------------------------------------------
(* With clean shutdowns, crashes and control clients all together.         *)

(* From the lock to the unlinking of the lockfile.                         *)
Owning == Holding \ {"dropping"}

(* A stopping daemon's cleanup, which removes by name whatever is at the   *)
(* path, finds no socket but its own.                                      *)
CleanupRemovesOwn ==
  \A d \in Daemons : pc[d] = "stopped" => sock \in {d, Nothing}

(* One process owns the path at most, by a lock of the file that is at the *)
(* lock path; the socket there is the one it bound, or gone; and the path  *)
(* it cleared stays clear for its bind.                                    *)
Handover ==
  /\ \A d, e \in Daemons : pc[d] \in Owning /\ pc[e] \in Owning => d = e
  /\ \A d \in Daemons : pc[d] \in Owning => fd[d] = lockPath
  /\ \A d \in Daemons : pc[d] \in Bound => sock \in {d, Nothing}
  /\ \A d \in Daemons : pc[d] = "clear" => sock = Nothing
  /\ CleanupRemovesOwn

(* The lock is taken on a lockfile that was unlinked, or replaced, between *)
(* this process's open(2) and its flock(2).                                *)
StaleFlock(d) ==
  pc[d] = "opened" /\ pc'[d] = "locked" /\ fd[d] # lockPath

(* lockfile.rs:134: release unlinks first so that "there is no window".    *)
(* There is one, and only one: among any processes that start, stop,       *)
(* crash, attach and ask, in any order, the handover of the path from one  *)
(* daemon to the next is lost in no step but a stale flock.                *)
HandoverKept ==
  [][Handover => Handover' \/ \E d \in Daemons : StaleFlock(d)]_vars

(* The daemon relies on the socket file at the path: it is the one it      *)
(* bound, or the leftover it found and is about to remove.                 *)
NeedsSocket(d) ==
  (pc[d] \in Bound /\ sock = d) \/ (pc[d] = "replacing" /\ sock # Nothing)

(* daemon_control.rs:25: "A live daemon is never touched this way".  What  *)
(* can take the socket from under a daemon, in every state, after a lost   *)
(* handover too: a control client that was refused earlier, or a process   *)
(* that holds another lockfile; never one that shares its lockfile, and    *)
(* never an attacher.                                                      *)
SocketKept ==
  [][\A d \in Daemons : NeedsSocket(d) /\ sock' # sock =>
       \/ pc[d] = "replacing" /\ pc'[d] = "clear"
       \/ \E c \in Controls : control[c] = "removing" /\ control'[c] = "start"
       \/ \E e \in Daemons : Holds(e) /\ fd[e] # fd[d]]_vars

(* daemon_attach.rs: "ensure a daemon is listening".  An attacher that had *)
(* to start a daemon does not poll for ever, though several may race to    *)
(* start one and a stale socket and lockfile may be in the way, unless all *)
(* that was started has died.  Of sessions with stops and questions, which *)
(* may take the socket away, nothing is said.                              *)
AllDied == /\ \A d \in Daemons : pc[d] \in {"absent", "exited"}
           /\ \E d \in Daemons : pc[d] = "exited"
AutoStartConnects ==
  \A a \in Attachers :
    (Undisturbed /\ attach[a] = "polling") ~> (attach[a] # "polling" \/ AllDied)
=============================================================================
