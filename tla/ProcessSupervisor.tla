------------------------- MODULE ProcessSupervisor -------------------------
(***************************************************************************)
(* The supervisor of child processes (src/src/process.rs).                 *)
(*                                                                         *)
(* One thread, the editor's, owns the supervisor: between ticks it spawns, *)
(* signals, forgets and takes events, and a tick drains the channels,      *)
(* polls every child, reaps the dead, restarts what its policy restarts    *)
(* and probes the groups in the reap ledger.  The children, what they      *)
(* leave behind and the reader threads run beside it, so a tick and a      *)
(* final drain are split into steps where those may come between.          *)
(*                                                                         *)
(* Output is counted in chunks; an exit is "clean" (code 0) or "bad" (any  *)
(* other code, a signal, a failed spawn).  Time is a set of deadlines that *)
(* pass: the restart back-off, a ledger entry's grace, the drain's bound   *)
(* and the two bounds of shutdown.  Children run on pipes; the generations *)
(* of an id are numbered by attempt_count, and <<id, gen>> stands for the  *)
(* generation's pid, which is also its process group when it leads one.    *)
(***************************************************************************)
EXTENDS Integers, Sequences, FiniteSets

CONSTANTS
    Ids,        \* processes a session may spawn
    MaxGen,     \* bound on attempt_count
    MaxChunks,  \* bound on the chunks a generation writes
    ChanCap,    \* BYTE_CHUNK_CHANNEL_CAP
    MaxFaults,  \* bound on the injected failures
    Scenarios   \* sets of what may happen in one session: "write", "take",
                \* "forget", "quit", "fork", "escape", "spawnfail", "killfail"

ASSUME ConstantsAssumption ==
    /\ MaxChunks \in Nat /\ MaxFaults \in Nat
    /\ MaxGen \in Nat \ {0} /\ ChanCap \in Nat \ {0}

VARIABLES
    procs,     \* id -> its ManagedProcess
    leaders,   \* generations whose leader is alive
    status,    \* id -> how the current generation's leader ended
    desc,      \* generation -> the descendant it left, if any
    out,       \* id -> output pipeline of the current generation
    evq,       \* id -> its lifecycle events in the events channel
    pending,   \* id -> events waiting for take_events
    told,      \* id -> the last event handed to the caller
    ledger,    \* the reap ledger: armed generation -> its entry
    main,      \* where the supervisor's thread is
    phase,     \* "up", then the phases of shutdown, then "down"
    faults,    \* failures injected so far
    missed,    \* groups and children a failed kill or probe let go
    ops        \* what may happen in this session, chosen once

vars == <<procs, leaders, status, desc, out, evq, pending, told, ledger, main,
          phase, faults, missed, ops>>

Gens == 1..MaxGen
Pids == Ids \X Gens
Kinds == {"restarting", "started", "output", "ended"}
Event == [kind : Kinds, gen : 0..MaxGen]
NoEvent == [kind |-> "restarting", gen |-> 0]
NoOut == [pipe |-> 0, chan |-> 0, reader |-> "none", written |-> 0]
Idle == [pc |-> "idle", todo |-> {}, cur |-> <<>>, got |-> FALSE, any |-> FALSE,
         late |-> FALSE, killed |-> FALSE, why |-> "none"]

Ev(k, g) == [kind |-> k, gen |-> g]
Pid(id) == <<id, procs[id].gen>>

\* A generation's group: its leader and the descendants that stayed in it.
GroupAlive(p) == p \in leaders \/ desc[p] \in {"quiet", "loud"}

\* What still holds the write end of a generation's output.
OutputHeld(p) == p \in leaders \/ desc[p] \in {"loud", "escaped"}

Policies == {"never", "oncrash", "always"}

\* The ids spawned with group = true.
Group == {id \in Ids : procs[id].group}

Live(id) == procs[id].st \in {"running", "exiting"}
Managed == {id \in Ids : procs[id].st \notin {"none", "forgotten"}}

-----------------------------------------------------------------------------
(* The children, their descendants and the reader threads.                 *)

\* A leader writes a chunk to its pipe.
ChildWrites(id) ==
    /\ "write" \in ops
    /\ Pid(id) \in leaders /\ out[id].written < MaxChunks
    /\ out' = [out EXCEPT ![id].pipe = @ + 1, ![id].written = @ + 1]
    /\ UNCHANGED <<procs, leaders, status, desc, evq, pending, told, ledger,
                   main, phase, faults, missed, ops>>

\* A leader ends by itself, or of a SIGTERM it obeys.
ChildExits(id, how) ==
    /\ Pid(id) \in leaders
    /\ leaders' = leaders \ {Pid(id)}
    /\ status' = [status EXCEPT ![id] = how]
    /\ UNCHANGED <<procs, desc, out, evq, pending, told, ledger, main, phase,
                   faults, missed, ops>>

\* A leader starts a descendant that will ignore SIGTERM: "quiet" redirects
\* its output, "loud" holds the pipe, "escaped" holds it from another group.
ChildForks(id, kind) ==
    /\ Pid(id) \in leaders /\ desc[Pid(id)] = "none"
    /\ IF kind = "escaped" THEN "escape" \in ops ELSE "fork" \in ops /\ id \in Group
    /\ desc' = [desc EXCEPT ![Pid(id)] = kind]
    /\ UNCHANGED <<procs, leaders, status, out, evq, pending, told, ledger,
                   main, phase, faults, missed, ops>>

\* spawn_reader, spawn_group_reader: read a chunk and send it, blocking while
\* the channel is full; the runtime is there while the generation is live.
ReaderMoves(id) ==
    /\ Live(id) /\ out[id].reader = "reading"
    /\ out[id].pipe > 0 /\ out[id].chan < ChanCap
    /\ out' = [out EXCEPT ![id].pipe = @ - 1, ![id].chan = @ + 1]
    /\ UNCHANGED <<procs, leaders, status, desc, evq, pending, told, ledger,
                   main, phase, faults, missed, ops>>

\* The reader meets the end of its pipe once nobody holds the other end.
ReaderEnds(id) ==
    /\ Live(id) /\ out[id].reader = "reading"
    /\ out[id].pipe = 0 /\ ~OutputHeld(Pid(id))
    /\ out' = [out EXCEPT ![id].reader = "done"]
    /\ UNCHANGED <<procs, leaders, status, desc, evq, pending, told, ledger,
                   main, phase, faults, missed, ops>>

-----------------------------------------------------------------------------
(* Time.                                                                   *)

\* restart_backoff has passed since the restart of id was scheduled.
BackoffPasses(id) ==
    /\ procs[id].due = "waiting" /\ procs[id].gen < MaxGen
    /\ procs' = [procs EXCEPT ![id].due = "ready"]
    /\ UNCHANGED <<leaders, status, desc, out, evq, pending, told, ledger,
                   main, phase, faults, missed, ops>>

\* The TERM-to-KILL window of an armed group has passed.
GracePasses(p) ==
    /\ p \in DOMAIN ledger /\ ~ledger[p].due
    /\ ledger' = [ledger EXCEPT ![p].due = TRUE]
    /\ UNCHANGED <<procs, leaders, status, desc, out, evq, pending, told,
                   main, phase, faults, missed, ops>>

\* The bound on waiting for a dead generation's output has passed.
DrainBoundPasses ==
    /\ main.pc \in {"drain", "check"} /\ ~main.late
    /\ main' = [main EXCEPT !.late = TRUE]
    /\ UNCHANGED <<procs, leaders, status, desc, out, evq, pending, told,
                   ledger, phase, faults, missed, ops>>

-----------------------------------------------------------------------------
(* Starting a generation.                                                  *)

\* start_generation: the record, its first event and the fresh pipeline.
StartGeneration(id, group, policy, ok) ==
    LET g == procs[id].gen + 1 IN
    /\ g \in Gens
    /\ ~ok => "spawnfail" \in ops /\ faults < MaxFaults
    /\ procs' = [procs EXCEPT ![id] =
                    [st |-> IF ok THEN "running" ELSE "terminated", how |-> "bad",
                     gen |-> g, due |-> "none", group |-> group, policy |-> policy]]
    /\ leaders' = IF ok THEN leaders \cup {<<id, g>>} ELSE leaders
    /\ out' = [out EXCEPT ![id] = IF ok THEN [NoOut EXCEPT !.reader = "reading"]
                                        ELSE NoOut]
    /\ evq' = [evq EXCEPT ![id] = Append(@, Ev(IF ok THEN "started" ELSE "ended", g))]
    /\ faults' = IF ok THEN faults ELSE faults + 1

\* spawn: refused after shutdown; a failed spawn leaves no record behind, and
\* its id is never handed out again.
Spawn(id, group, policy, ok) ==
    /\ main = Idle /\ phase = "up" /\ procs[id].st = "none"
    /\ IF ok
       THEN StartGeneration(id, group, policy, TRUE)
       ELSE /\ "spawnfail" \in ops /\ faults < MaxFaults
            /\ procs' = [procs EXCEPT ![id].st = "forgotten"]
            /\ evq' = [evq EXCEPT ![id] = Append(@, Ev("ended", 1))]
            /\ faults' = faults + 1
            /\ UNCHANGED <<leaders, out>>
    /\ UNCHANGED <<status, desc, pending, told, ledger, main, phase, missed, ops>>

-----------------------------------------------------------------------------
(* Signals.                                                                *)

\* What a SIGKILL of the process groups gs and of the plain leaders ls
\* leaves: those are dead at once, and a killed leader ended badly.
KillAll(gs, ls) ==
    /\ leaders' = leaders \ (gs \cup ls)
    /\ status' = [id \in Ids |-> IF \E p \in (gs \cup ls) \cap leaders : p = Pid(id)
                                 THEN "bad" ELSE status[id]]
    /\ desc' = [p \in Pids |-> IF p \in gs /\ desc[p] \in {"quiet", "loud"}
                               THEN "none" ELSE desc[p]]

\* Insert-if-absent: an armed deadline is never pushed out.
Arm(led, ps) ==
    [p \in DOMAIN led \cup ps |->
        IF p \in DOMAIN led THEN led[p] ELSE [due |-> FALSE, killed |-> FALSE]]

\* The groups that a fatal signal to the processes ids arms.
ArmedBy(ids) == {Pid(id) : id \in ids \cap Group}

\* signal: SIGTERM ("term", also SIGHUP) or SIGKILL ("kill") to a live
\* process.  A kill(2) that fails changes nothing, so it is no step.
SignalOp(id, sig) ==
    /\ main = Idle /\ phase = "up" /\ Live(id)
    /\ procs' = [procs EXCEPT ![id].st = "exiting"]
    /\ ledger' = Arm(ledger, ArmedBy({id}))
    /\ IF sig = "kill"
       THEN KillAll(ArmedBy({id}), {Pid(id)})
       ELSE UNCHANGED <<leaders, status, desc>>
    /\ UNCHANGED <<out, evq, pending, told, main, phase, faults, missed, ops>>

\* forget: only of a terminated process; its unread events go with it.
Forget(id) ==
    /\ "forget" \in ops
    /\ main = Idle /\ phase = "up" /\ procs[id].st = "terminated"
    /\ procs' = [procs EXCEPT ![id].st = "forgotten", ![id].due = "none"]
    /\ pending' = [pending EXCEPT ![id] = <<>>]
    /\ UNCHANGED <<leaders, status, desc, out, evq, told, ledger, main, phase,
                   faults, missed, ops>>

\* take_events hands the caller everything pending for id, in order.
TakeEvents(id) ==
    /\ "take" \in ops
    /\ main = Idle /\ phase = "up" /\ pending[id] # <<>>
    /\ told' = [told EXCEPT ![id] = pending[id][Len(pending[id])]]
    /\ pending' = [pending EXCEPT ![id] = <<>>]
    /\ UNCHANGED <<procs, leaders, status, desc, out, evq, ledger, main, phase,
                   faults, missed, ops>>

-----------------------------------------------------------------------------
(* The tick.                                                               *)

AnyRunning == \E id \in Ids : Live(id)

\* Who calls tick: the frame loop, then the two loops of shutdown for as long
\* as each has something to wait for.
Ticking ==
    \/ phase = "up"
    \/ phase = "termwait" /\ AnyRunning
    \/ phase = "final" /\ (AnyRunning \/ DOMAIN ledger # {})

Output(id, some) == IF some THEN <<Ev("output", procs[id].gen)>> ELSE <<>>

\* Mutant: the byte channels drained before the lifecycle events.
TickDrainBytesFirst ==
    /\ main = Idle /\ Ticking
    /\ pending' = [id \in Ids |-> pending[id] \o
                        (IF Live(id) THEN Output(id, out[id].chan > 0) ELSE <<>>) \o evq[id]]
    /\ evq' = [id \in Ids |-> <<>>]
    /\ out' = [id \in Ids |-> IF Live(id) THEN [out[id] EXCEPT !.chan = 0] ELSE out[id]]
    /\ main' = [Idle EXCEPT !.pc = "poll", !.todo = Managed]
    /\ UNCHANGED <<procs, leaders, status, desc, told, ledger, phase, faults, missed, ops>>

\* A tick begins: the lifecycle events move to pending, then each process's
\* byte channel is drained into one output event.
TickDrain ==
    /\ main = Idle /\ Ticking
    /\ pending' = [id \in Ids |-> pending[id] \o evq[id] \o
                        (IF Live(id) THEN Output(id, out[id].chan > 0) ELSE <<>>)]
    /\ evq' = [id \in Ids |-> <<>>]
    /\ out' = [id \in Ids |-> IF Live(id) THEN [out[id] EXCEPT !.chan = 0] ELSE out[id]]
    /\ main' = [Idle EXCEPT !.pc = "poll", !.todo = Managed]
    /\ UNCHANGED <<procs, leaders, status, desc, told, ledger, phase, faults, missed, ops>>

\* Whether the policy restarts a process that ended how it did.
Should(id, how) ==
    procs[id].policy = "always" \/ (procs[id].policy = "oncrash" /\ how = "bad")

\* maybe_restart of a process that is not due: schedule it once.  Only a
\* process that the policy restarts gets this far.
Scheduled(id, how, due) ==
    IF phase = "up" /\ Should(id, how) /\ due = "none" THEN "waiting" ELSE due

\* poll_one of a process that is not to be reaped, and its maybe_restart: the
\* process is alive, or ended and waits out its back-off.
PollQuiet(id) ==
    /\ main.pc = "poll" /\ id \in main.todo
    /\ main' = [main EXCEPT !.todo = @ \ {id}]
    /\ \/ /\ Live(id) /\ Pid(id) \in leaders
          /\ UNCHANGED procs
       \/ /\ procs[id].st = "terminated"
          /\ ~(phase = "up" /\ procs[id].due = "ready")
          /\ procs' = [procs EXCEPT ![id].due = Scheduled(id, procs[id].how, @)]
    /\ UNCHANGED <<leaders, status, desc, out, evq, pending, told, ledger,
                   phase, faults, missed, ops>>

\* Mutant: maybe_restart without its shut_down check.
PollRestartAnyPhase(id, ok) ==
    /\ main.pc = "poll" /\ id \in main.todo
    /\ procs[id].st = "terminated" /\ procs[id].due = "ready"
    /\ Should(id, procs[id].how)
    /\ pending' = [pending EXCEPT ![id] = Append(@, Ev("restarting", procs[id].gen + 1))]
    /\ StartGeneration(id, procs[id].group, procs[id].policy, ok)
    /\ main' = [main EXCEPT !.todo = @ \ {id}]
    /\ UNCHANGED <<status, desc, told, ledger, phase, missed, ops>>

\* maybe_restart of a process whose back-off has passed: announced, then a
\* new generation started (or failed to start); inert once shut down.
PollRestart(id, ok) ==
    /\ main.pc = "poll" /\ id \in main.todo
    /\ phase = "up"
    /\ procs[id].st = "terminated" /\ procs[id].due = "ready"
    /\ Should(id, procs[id].how)
    /\ pending' = [pending EXCEPT ![id] = Append(@, Ev("restarting", procs[id].gen + 1))]
    /\ StartGeneration(id, procs[id].group, procs[id].policy, ok)
    /\ main' = [main EXCEPT !.todo = @ \ {id}]
    /\ UNCHANGED <<status, desc, told, ledger, phase, missed, ops>>

\* poll_one finds the leader dead: the rest of its group gets SIGTERM and is
\* armed before the final drain.
PollDead(id) ==
    /\ main.pc = "poll" /\ id \in main.todo
    /\ Live(id) /\ Pid(id) \notin leaders
    /\ ledger' = Arm(ledger, ArmedBy({id}))
    /\ main' = [main EXCEPT !.pc = "drain", !.cur = <<id>>, !.got = FALSE,
                            !.late = FALSE, !.killed = FALSE, !.why = "none"]
    /\ UNCHANGED <<procs, leaders, status, desc, out, evq, pending, told, phase,
                   faults, missed, ops>>

\* final_drain_runtime, top of the loop: take what the channel holds.
DrainTake ==
    /\ main.pc = "drain"
    /\ LET id == main.cur[1] IN
       /\ main' = [main EXCEPT !.pc = "check", !.got = @ \/ out[id].chan > 0,
                               !.any = out[id].chan > 0]
       /\ out' = [out EXCEPT ![id].chan = 0]
    /\ UNCHANGED <<procs, leaders, status, desc, evq, pending, told, ledger,
                   phase, faults, missed, ops>>

\* The readers have all finished and the last take found nothing.
DrainFinished ==
    /\ main.pc = "check"
    /\ LET id == main.cur[1] IN
       /\ out[id].reader = "done" /\ ~main.any
       /\ main' = [main EXCEPT !.pc = "reap", !.why = "finished"]
    /\ UNCHANGED <<procs, leaders, status, desc, out, evq, pending, told,
                   ledger, phase, faults, missed, ops>>

\* Past its group's grace a drain sends the group SIGKILL, once.
DrainKills(id) ==
    id \in Group /\ GroupAlive(Pid(id)) /\ ledger[Pid(id)].due /\ ~main.killed

DrainKill(id) ==
    IF DrainKills(id) THEN KillAll({Pid(id)}, {}) ELSE UNCHANGED <<leaders, status, desc>>

\* The drain gives up: its bound has passed, or, for a group, the group is
\* gone and its output quiet, or its grace has passed.  A group drain cancels
\* its readers and takes the channel once more.
DrainCut ==
    /\ main.pc = "check"
    /\ LET id == main.cur[1] IN
       /\ ~(out[id].reader = "done" /\ ~main.any)
       /\ \/ main.late
          \/ id \in Group /\ ~GroupAlive(Pid(id)) /\ ~main.any
          \/ id \in Group /\ ledger[Pid(id)].due
       /\ main' = [main EXCEPT !.pc = "reap", !.why = "cut",
                      !.got = @ \/ (id \in Group /\ out[id].chan > 0)]
       /\ out' = IF id \in Group THEN [out EXCEPT ![id].chan = 0] ELSE out
       /\ DrainKill(id)
    /\ UNCHANGED <<procs, evq, pending, told, ledger, phase, faults, missed, ops>>

\* The drain goes round.
DrainAgain ==
    /\ main.pc = "check" /\ ~main.late
    /\ LET id == main.cur[1] IN
       /\ ~(out[id].reader = "done" /\ ~main.any)
       /\ main' = [main EXCEPT !.pc = "drain", !.killed = @ \/ DrainKills(id)]
       /\ DrainKill(id)
    /\ UNCHANGED <<procs, out, evq, pending, told, ledger, phase, faults, missed, ops>>

\* The rest of poll_one: readers released, state and runtime settled, output
\* and exit appended in that order; maybe_restart then schedules a restart.
Reap ==
    /\ main.pc = "reap"
    /\ LET id == main.cur[1] IN
       /\ procs' = [procs EXCEPT
            ![id].st = "terminated", ![id].how = status[id],
            ![id].due = Scheduled(id, status[id], @)]
       /\ out' = [out EXCEPT ![id] = NoOut]
       /\ pending' = [pending EXCEPT ![id] =
            @ \o Output(id, main.got) \o <<Ev("ended", procs[id].gen)>>]
       /\ main' = [Idle EXCEPT !.pc = "poll", !.todo = main.todo \ {id}]
    /\ UNCHANGED <<leaders, status, desc, evq, told, ledger, phase, faults, missed, ops>>

\* Mutant: the escalation is marked as sent at the first probe, due or not.
TickLedgerEarlyMark(bad, site) ==
    LET gone == {p \in DOMAIN ledger : ~GroupAlive(p)}
        escalated == {p \in DOMAIN ledger \ gone : ledger[p].due /\ ~ledger[p].killed}
    IN  /\ main.pc = "poll" /\ main.todo = {} /\ bad = {} /\ site = "none"
        /\ ledger' = [p \in DOMAIN ledger \ gone |-> [ledger[p] EXCEPT !.killed = TRUE]]
        /\ KillAll(escalated, {})
        /\ main' = Idle
        /\ UNCHANGED <<procs, out, evq, pending, told, phase, faults, missed, ops>>

\* tick_reap_ledger: an entry whose probe fails is dropped, one past its
\* grace gets SIGKILL once and stays.  bad is the group whose probe ("probe")
\* or escalation ("kill") fails with another error, if any does.
TickLedger(bad, site) ==
    LET gone == {p \in DOMAIN ledger : ~GroupAlive(p)}
        dropped == gone \cup (IF site = "probe" THEN bad ELSE {})
        escalated == {p \in DOMAIN ledger \ dropped : ledger[p].due /\ ~ledger[p].killed}
    IN  /\ main.pc = "poll" /\ main.todo = {}
        /\ \/ bad = {} /\ site = "none"
           \/ /\ "killfail" \in ops /\ faults < MaxFaults /\ Cardinality(bad) = 1
              /\ IF site = "probe" THEN bad \subseteq DOMAIN ledger \ gone
                                   ELSE site = "kill" /\ bad \subseteq escalated
        /\ faults' = faults + Cardinality(bad)
        /\ missed' = missed \cup {<<p, site>> : p \in bad}
        /\ ledger' = [p \in DOMAIN ledger \ dropped |->
                        [ledger[p] EXCEPT !.killed = @ \/ p \in escalated]]
        /\ KillAll(escalated \ bad, {})
        /\ main' = Idle
        /\ UNCHANGED <<procs, out, evq, pending, told, phase, ops>>

-----------------------------------------------------------------------------
(* Shutdown.                                                               *)

\* A set of at most one thing whose kill(2) fails.
MayFail(bad) ==
    bad = {} \/ ("killfail" \in ops /\ faults < MaxFaults /\ Cardinality(bad) = 1)

\* shutdown begins: no more spawns or restarts, SIGTERM to every live process.
ShutdownTerm(bad) ==
    LET sent == {id \in Ids : Live(id)} \ bad IN
    /\ "quit" \in ops
    /\ main = Idle /\ phase = "up"
    /\ MayFail(bad) /\ \A id \in bad : Live(id)
    /\ phase' = "termwait"
    /\ procs' = [id \in Ids |-> IF id \in sent THEN [procs[id] EXCEPT !.st = "exiting"]
                                               ELSE procs[id]]
    /\ ledger' = Arm(ledger, ArmedBy(sent))
    /\ faults' = faults + Cardinality(bad)
    /\ missed' = missed \cup {<<Pid(id), "term">> : id \in bad}
    /\ UNCHANGED <<leaders, status, desc, out, evq, pending, told, main, ops>>

\* Mutant: shutdown leaves the groups of the ledger to their own deadlines.
ShutdownKillProcsOnly(bad, worse) ==
    LET sent == {id \in Ids : Live(id)} IN
    /\ main = Idle /\ phase = "termwait" /\ bad = {} /\ worse = {}
    /\ phase' = "final"
    /\ procs' = [id \in Ids |-> IF id \in sent THEN [procs[id] EXCEPT !.st = "exiting"]
                                               ELSE procs[id]]
    /\ KillAll(ArmedBy(sent), {Pid(id) : id \in sent})
    /\ ledger' = Arm(ledger, ArmedBy(sent))
    /\ UNCHANGED <<out, evq, pending, told, main, faults, missed, ops>>

\* Everything exited or the grace period passed: SIGKILL to what is still
\* live, then to every group of the ledger.  The signal fails for the
\* processes in bad, the ledger's kill for the groups in worse.
ShutdownKill(bad, worse) ==
    LET left == {id \in Ids : Live(id)}
        sent == left \ bad
        armed == Arm(ledger, ArmedBy(sent))
    IN  /\ main = Idle /\ phase = "termwait"
        /\ MayFail(bad) /\ MayFail(worse) /\ (bad = {} \/ worse = {})
        /\ bad \subseteq left /\ worse \subseteq DOMAIN armed
        /\ phase' = "final"
        /\ procs' = [id \in Ids |-> IF id \in sent THEN [procs[id] EXCEPT !.st = "exiting"]
                                                   ELSE procs[id]]
        /\ KillAll((DOMAIN armed \ worse) \cup ArmedBy(sent), {Pid(id) : id \in sent})
        /\ ledger' = [p \in DOMAIN armed |-> [armed[p] EXCEPT !.killed = TRUE]]
        /\ faults' = faults + Cardinality(bad \cup worse)
        /\ missed' = missed \cup {<<Pid(id), "signal">> : id \in bad}
                             \cup {<<p, "force">> : p \in worse}
        /\ UNCHANGED <<out, evq, pending, told, main, ops>>

\* The final loop ends: all reaped and every group gone, or its bound passed.
ShutdownDone ==
    /\ main = Idle /\ phase = "final"
    /\ phase' = "down"
    /\ UNCHANGED <<procs, leaders, status, desc, out, evq, pending, told,
                   ledger, main, faults, missed, ops>>

-----------------------------------------------------------------------------
Init ==
    /\ procs = [id \in Ids |-> [st |-> "none", how |-> "bad", gen |-> 0, due |-> "none",
                              group |-> FALSE, policy |-> "never"]]
    /\ leaders = {} /\ ledger = <<>>
    /\ status = [id \in Ids |-> "bad"]
    /\ desc = [p \in Pids |-> "none"]
    /\ out = [id \in Ids |-> NoOut]
    /\ evq = [id \in Ids |-> <<>>]
    /\ pending = [id \in Ids |-> <<>>]
    /\ told = [id \in Ids |-> NoEvent]
    /\ main = Idle
    /\ phase = "up"
    /\ faults = 0 /\ missed = {}
    /\ ops \in Scenarios

Children == \E id \in Ids :
    \/ ChildWrites(id)
    \/ \E how \in {"clean", "bad"} : ChildExits(id, how)
    \/ \E kind \in {"quiet", "loud", "escaped"} : ChildForks(id, kind)

Readers == \E id \in Ids : ReaderMoves(id) \/ ReaderEnds(id)

Time ==
    \/ \E id \in Ids : BackoffPasses(id)
    \/ \E p \in Pids : GracePasses(p)
    \/ DrainBoundPasses

Calls == \E id \in Ids :
    \/ \E group, ok \in BOOLEAN, policy \in Policies : Spawn(id, group, policy, ok)
    \/ \E sig \in {"term", "kill"} : SignalOp(id, sig)
    \/ Forget(id)
    \/ TakeEvents(id)

Tick ==
    \/ TickDrain
    \/ \E id \in Ids : PollQuiet(id) \/ PollDead(id)
                       \/ \E ok \in BOOLEAN : PollRestart(id, ok)
    \/ DrainTake \/ DrainFinished \/ DrainCut \/ DrainAgain \/ Reap
    \/ \E bad \in SUBSET DOMAIN ledger, site \in {"none", "probe", "kill"} :
            TickLedger(bad, site)

ShutdownGoesOn ==
    \/ \E bad \in SUBSET Ids, worse \in SUBSET Pids : ShutdownKill(bad, worse)
    \/ ShutdownDone

Shutdown == ShutdownGoesOn \/ \E bad \in SUBSET Ids : ShutdownTerm(bad)

\* The editor has gone: nothing moves any more.
Down == phase = "down" /\ UNCHANGED vars

Next == Children \/ Readers \/ Time \/ Calls \/ Tick \/ Shutdown \/ Down

Spec == Init /\ [][Next]_vars

\* The frame loop keeps ticking, deadlines pass, readers get to run, and the
\* loops of a shutdown end at their own bounds.
FairSpec == Spec /\ WF_vars(Tick) /\ WF_vars(Readers)
                 /\ WF_vars(ShutdownGoesOn) /\ WF_vars(DrainBoundPasses)
                 /\ \A p \in Pids : WF_vars(GracePasses(p))
-----------------------------------------------------------------------------
(* Properties.                                                             *)

\* The shape of every variable of the supervisor and of its surroundings.
TypeOK ==
    /\ procs \in [Ids -> [st : {"none", "running", "exiting", "terminated", "forgotten"},
                          how : {"clean", "bad"}, gen : 0..MaxGen,
                          due : {"none", "waiting", "ready"},
                          group : BOOLEAN, policy : Policies]]
    /\ leaders \subseteq Pids
    /\ status \in [Ids -> {"clean", "bad"}]
    /\ desc \in [Pids -> {"none", "quiet", "loud", "escaped"}]
    /\ out \in [Ids -> [pipe : Nat, chan : Nat, written : Nat,
                        reader : {"none", "reading", "done"}]]
    /\ evq \in [Ids -> Seq(Event)] /\ pending \in [Ids -> Seq(Event)]
    /\ told \in [Ids -> Event]
    /\ DOMAIN ledger \subseteq Pids
    /\ \A p \in DOMAIN ledger : ledger[p] \in [due : BOOLEAN, killed : BOOLEAN]
    /\ main.pc \in {"idle", "poll", "drain", "check", "reap"}
    /\ main.todo \subseteq Ids /\ main.got \in BOOLEAN
    /\ main.pc \in {"drain", "check", "reap"} => main.cur \in {<<id>> : id \in main.todo}
    /\ phase \in {"up", "termwait", "final", "down"}
    /\ faults \in Nat
    /\ missed \subseteq (Pids \X {"probe", "kill", "term", "signal", "force"})

\* The place of an event in the life of a process.
Rank(e) == 4 * e.gen + (CASE e.kind = "restarting" -> 0 [] e.kind = "started" -> 1
                          [] e.kind = "output" -> 2 [] e.kind = "ended" -> 3)

\* What the caller has been told of a process, and will be, in that order.
Story(id) == <<told[id]>> \o pending[id] \o evq[id]

\* A process's events reach the caller in the order of its life, whichever
\* way they travel: a generation starts, its output follows, its end comes
\* once and after all of it, and only then is the next generation announced
\* (the events channel, the byte channels and the direct pushes of process.rs
\* meet in pending).
StoryInOrder ==
    \A id \in Ids : \A i, j \in 1..Len(Story(id)) : i < j =>
        LET a == Rank(Story(id)[i])
            b == Rank(Story(id)[j])
        IN  a < b \/ (a = b /\ Story(id)[i].kind = "output")

\* At most one generation of a process is alive, and none of a process that
\* has ended, was forgotten or never started: a restart never runs beside the
\* generation it replaces, and no record is given up while its child lives.
OneLiveGeneration ==
    \A p \in leaders : p = Pid(p[1]) /\ Live(p[1])

\* When the supervisor has shut down, no child and no member of a group it
\* ever signalled or reaped is alive, unless the kill that should have ended
\* it failed or a failed probe dropped it from the ledger.  A failed escalation
\* or one failed signal alone never leaks a group: shutdown's own SIGKILL to the
\* ledger, or both of its signals, must fail too.
ShutdownLeavesNothing ==
    phase = "down" =>
        \A p \in Pids :
            (p \in leaders \/ (p[1] \in Group /\ GroupAlive(p))) =>
                \/ \E why \in {"probe", "force"} : <<p, why>> \in missed
                \/ <<p, "signal">> \in missed /\ (p[1] \in Group => <<p, "term">> \in missed)

\* What the supervisor holds agrees with what runs: the three above.
SupervisorInv == TypeOK /\ OneLiveGeneration /\ ShutdownLeavesNothing

\* Once shutdown has begun, and once a process was forgotten, no generation
\* of it starts: a restart scheduled before does not outlive either.
NoLateStart ==
    [][\A id \in Ids : procs'[id].gen # procs[id].gen =>
            /\ phase = "up"
            /\ procs[id].st = "none" \/ (procs[id].st = "terminated"
                                         /\ Should(id, procs[id].how))]_vars

\* A group in the reap ledger is gone in the end, though its members ignore
\* SIGTERM and its leader may have left first; only a failed kill or probe
\* lets one live on.
GroupsEventuallyGone ==
    \A p \in Pids : p \in DOMAIN ledger
        ~> (~GroupAlive(p) \/ \E why \in {"probe", "kill", "signal", "force"} :
                                    <<p, why>> \in missed)

\* Refuted by ProcessDrain.cfg.  The comment of final_drain_runtime promises a
\* dead generation's output "until its readers have all finished and nothing
\* is left": when it stops because they have, the channel is empty.
NothingLeft ==
    (main.pc = "reap" /\ main.why = "finished") => out[main.cur[1]].chan = 0
=============================================================================
