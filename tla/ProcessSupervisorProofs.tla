---------------------- MODULE ProcessSupervisorProofs ----------------------
(***************************************************************************)
(* What the supervisor of src/src/process.rs guarantees for any number of  *)
(* processes, restarts, chunks and failed signals: one live generation of  *)
(* each process, nothing left by a shutdown but what every kill of it      *)
(* failed for, no start after a shutdown began, and events in order.       *)
(***************************************************************************)
EXTENDS ProcessSupervisor, FiniteSetTheorems, TLAPS

Proc == [st : {"none", "running", "exiting", "terminated", "forgotten"},
         how : {"clean", "bad"}, gen : 0..MaxGen, due : {"none", "waiting", "ready"},
         group : BOOLEAN, policy : Policies]
Pipeline == [pipe : Nat, chan : Nat, written : Nat, reader : {"none", "reading", "done"}]
Entry == [due : BOOLEAN, killed : BOOLEAN]
Main == [pc : {"idle", "poll", "drain", "check", "reap"}, todo : SUBSET Ids,
         cur : {<<>>} \cup {<<id>> : id \in Ids}, got : BOOLEAN, any : BOOLEAN,
         late : BOOLEAN, killed : BOOLEAN, why : {"none", "finished", "cut"}]

Draining == main.pc \in {"drain", "check", "reap"}

(* Only a generation that was started leaves descendants, and only those   *)
(* of a group process stay in its group.                                   *)
StartedInv ==
    /\ \A id \in Ids : /\ procs[id].st = "none" => procs[id].gen = 0
                       /\ procs[id].st \notin {"none", "forgotten"} => procs[id].gen # 0
    /\ \A p \in Pids : /\ desc[p] # "none" => p[2] <= procs[p[1]].gen
                       /\ desc[p] \in {"quiet", "loud"} => p[1] \in Group

(* A drain is of a process whose leader is dead and whose group is armed.  *)
DrainInv ==
    Draining => /\ Live(main.cur[1]) /\ Pid(main.cur[1]) \notin leaders
                /\ main.cur[1] \in Group => Pid(main.cur[1]) \in DOMAIN ledger

(* A group whose leader was reaped is in the ledger, unless a failed probe *)
(* dropped it.                                                             *)
LedgerInv ==
    \A p \in Pids : desc[p] \in {"quiet", "loud"} =>
        \/ p \in DOMAIN ledger
        \/ <<p, "probe">> \in missed
        \/ p = Pid(p[1]) /\ Live(p[1])

(* Between the two signals of a shutdown every group is in the ledger but  *)
(* those that the first could not be sent to.                              *)
TermInv ==
    phase = "termwait" =>
        \A p \in Pids : p[1] \in Group /\ GroupAlive(p) =>
            p \in DOMAIN ledger \/ \E why \in {"probe", "term"} : <<p, why>> \in missed

(* After the second, what lives is what both could not be sent to.         *)
FinalInv ==
    phase \in {"final", "down"} =>
        \A p \in Pids :
            (p \in leaders \/ (p[1] \in Group /\ GroupAlive(p))) =>
                \/ \E why \in {"probe", "force"} : <<p, why>> \in missed
                \/ <<p, "signal">> \in missed /\ (p[1] \in Group => <<p, "term">> \in missed)

LivesInv == OneLiveGeneration /\ StartedInv /\ LedgerInv /\ TermInv /\ FinalInv

SupervisorIInv == TypeOK /\ main \in Main /\ LivesInv /\ DrainInv

(* Whether b may come right after a, or later, in a process's story.       *)
Before(a, b) == Rank(a) < Rank(b) \/ (Rank(a) = Rank(b) /\ a.kind = "output")
Sorted(s) == \A i, j \in 1..Len(s) : i < j => Before(s[i], s[j])
Precedes(s, t) == \A i \in 1..Len(s), j \in 1..Len(t) : Before(s[i], t[j])
UpTo(s, n) == \A i \in 1..Len(s) : Rank(s[i]) <= n

(* How far the story of a process may have come.                           *)
Reached(p) == CASE p.st = "none" -> 0
                [] p.st \in {"running", "exiting"} -> 4 * p.gen + 2
                [] p.st = "terminated" -> 4 * p.gen + 3
                [] p.st = "forgotten" -> 4 * MaxGen + 3

(* The story of a process is in order, and gets no further than it has.    *)
Consistent(id) == Sorted(Story(id)) /\ UpTo(Story(id), Reached(procs[id]))

StoryInv ==
    /\ main.pc # "idle" => \A id \in main.todo : evq[id] = <<>>
    /\ \A id \in Ids : Consistent(id)

-----------------------------------------------------------------------------
(* The types.                                                              *)

Missable == Pids \X {"probe", "kill", "term", "signal", "force"}

Typed ==
    /\ procs \in [Ids -> Proc] /\ leaders \subseteq Pids
    /\ status \in [Ids -> {"clean", "bad"}]
    /\ desc \in [Pids -> {"none", "quiet", "loud", "escaped"}]
    /\ out \in [Ids -> Pipeline]
    /\ evq \in [Ids -> Seq(Event)] /\ pending \in [Ids -> Seq(Event)]
    /\ told \in [Ids -> Event]
    /\ DOMAIN ledger \subseteq Pids /\ \A p \in DOMAIN ledger : ledger[p] \in Entry
    /\ main \in Main /\ (Draining => main.cur \in {<<id>> : id \in main.todo})
    /\ phase \in {"up", "termwait", "final", "down"}
    /\ faults \in Nat /\ missed \subseteq Missable

(* The types are those of TypeOK, and the record of the thread's own.      *)
LEMMA TypeParts == TypeOK /\ main \in Main <=> Typed
  BY DEF TypeOK, Typed, Proc, Pipeline, Entry, Main, Draining, Missable

(* The thread at rest, and a pipeline that is not there.                   *)
LEMMA EmptyTypes == Idle \in Main /\ Idle.pc = "idle" /\ NoOut \in Pipeline /\ NoEvent \in Event
  BY ConstantsAssumption DEF Idle, Main, NoOut, Pipeline, NoEvent, Event, Kinds

(* A generation that was started has a pid.                                *)
LEMMA PidType ==
  ASSUME Typed, NEW id \in Ids, procs[id].gen # 0
  PROVE  Pid(id) \in Pids
  BY ConstantsAssumption DEF Typed, Proc, Pid, Pids, Gens

(* Arming keeps the entries there are, and adds fresh ones.                *)
LEMMA ArmType ==
  ASSUME Typed, NEW ps \in SUBSET Pids, ledger' = Arm(ledger, ps)
  PROVE  /\ DOMAIN ledger' = DOMAIN ledger \cup ps
         /\ \A p \in DOMAIN ledger' : ledger'[p] \in Entry
         /\ \A p \in DOMAIN ledger : ledger'[p] = ledger[p]
  BY DEF Arm, Entry, Typed

(* Only live processes of a group are armed, under pids of theirs.         *)
LEMMA ArmedByType ==
  ASSUME Typed, StartedInv, NEW ids \in SUBSET {id \in Ids : Live(id)}
  PROVE  ArmedBy(ids) \in SUBSET Pids
<1>1. \A id \in ids : procs[id].gen # 0
  BY DEF StartedInv, Live
<1>2. QED
  BY <1>1, PidType DEF ArmedBy

(* A kill only takes lives.                                                *)
LEMMA KillAllShape ==
  ASSUME Typed, NEW gs, NEW ls, KillAll(gs, ls)
  PROVE  /\ leaders' = leaders \ (gs \cup ls)
         /\ status' \in [Ids -> {"clean", "bad"}]
         /\ desc' \in [Pids -> {"none", "quiet", "loud", "escaped"}]
         /\ \A p \in Pids : desc'[p] \in {"none", desc[p]}
         /\ \A p \in Pids : p \in gs => desc'[p] \notin {"quiet", "loud"}
         /\ \A p \in Pids : p \notin gs => desc'[p] = desc[p]
<1>1. status' \in [Ids -> {"clean", "bad"}]
  BY DEF KillAll, Typed
<1>2. desc' \in [Pids -> {"none", "quiet", "loud", "escaped"}]
  BY DEF KillAll, Typed
<1>3. QED
  BY <1>1, <1>2 DEF KillAll, Typed

(* A set of one thing or none has a size.                                  *)
LEMMA FewType ==
  ASSUME NEW bad, bad = {} \/ Cardinality(bad) = 1
  PROVE  Cardinality(bad) \in Nat
  BY FS_EmptySet

(* A started generation has the types of its process and its pipeline.     *)
LEMMA StartType ==
  ASSUME Typed, NEW id \in Ids, NEW group \in BOOLEAN, NEW policy \in Policies,
         NEW ok \in BOOLEAN, StartGeneration(id, group, policy, ok)
  PROVE  /\ procs' \in [Ids -> Proc] /\ leaders' \subseteq Pids /\ out' \in [Ids -> Pipeline]
         /\ evq' \in [Ids -> Seq(Event)] /\ faults' \in Nat
<1> DEFINE g == procs[id].gen + 1
           e == Ev(IF ok THEN "started" ELSE "ended", g)
           p == [st |-> IF ok THEN "running" ELSE "terminated", how |-> "bad",
                 gen |-> g, due |-> "none", group |-> group, policy |-> policy]
<1>1. g \in Gens /\ g \in 0..MaxGen
  BY DEF StartGeneration, Gens
<1>2. e \in Event
  BY <1>1 DEF Ev, Event, Kinds
<1>3. p \in Proc
  BY <1>1 DEF Proc
<1>4. procs' = [procs EXCEPT ![id] = p] /\ evq' = [evq EXCEPT ![id] = Append(@, e)]
  BY DEF StartGeneration
<1>5. procs \in [Ids -> Proc] /\ evq \in [Ids -> Seq(Event)] /\ out \in [Ids -> Pipeline]
  BY DEF Typed
<1> HIDE DEF e, p
<1>6. procs' \in [Ids -> Proc]
  BY <1>3, <1>4, <1>5
<1>7. evq' \in [Ids -> Seq(Event)]
  <2>1. Append(evq[id], e) \in Seq(Event)
    BY <1>2, <1>5
  <2>2. QED
    BY <1>4, <1>5, <2>1
<1>8. leaders' \subseteq Pids
  BY <1>1 DEF StartGeneration, Typed, Pids
<1>9. out' \in [Ids -> Pipeline]
  <2>1. [NoOut EXCEPT !.reader = "reading"] \in Pipeline
    BY EmptyTypes DEF Pipeline
  <2>2. QED
    BY <1>5, <2>1, EmptyTypes DEF StartGeneration
<1>10. faults' \in Nat
  BY DEF StartGeneration, Typed
<1>11. QED
  BY <1>6, <1>7, <1>8, <1>9, <1>10

(* Every step keeps the types.                                             *)
LEMMA SupervisorTypeStep == SupervisorIInv /\ [Next]_vars => Typed'
<1> SUFFICES ASSUME SupervisorIInv, [Next]_vars PROVE Typed'
  OBVIOUS
<1>0. Typed /\ StartedInv /\ DrainInv
  BY TypeParts DEF SupervisorIInv, LivesInv
<1>t. /\ procs \in [Ids -> Proc] /\ out \in [Ids -> Pipeline] /\ main \in Main
      /\ evq \in [Ids -> Seq(Event)] /\ pending \in [Ids -> Seq(Event)]
      /\ DOMAIN ledger \subseteq Pids /\ (\A p \in DOMAIN ledger : ledger[p] \in Entry)
  BY <1>0 DEF Typed
<1>i. Idle \in Main /\ Idle.pc = "idle" /\ NoOut \in Pipeline
  BY EmptyTypes
<1>c. ASSUME Draining
      PROVE  main.cur[1] \in Ids /\ main.cur[1] \in main.todo /\ main.cur = <<main.cur[1]>>
  <2>1. PICK id \in main.todo : main.cur = <<id>>
    BY <1>0, <1>c DEF Typed
  <2>2. id \in Ids
    BY <1>t DEF Main
  <2>3. QED
    BY <2>1, <2>2
<1>1. ASSUME NEW id \in Ids, ChildWrites(id) PROVE Typed'
  <2>1. out' \in [Ids -> Pipeline]
    <3> DEFINE n == out[id].pipe + 1
               w == out[id].written + 1
    <3>1. n \in Nat /\ w \in Nat
      BY <1>t DEF Pipeline
    <3>2. out' = [out EXCEPT ![id].pipe = n, ![id].written = w]
      BY <1>1 DEF ChildWrites
    <3> HIDE DEF n, w
    <3>3. QED
      BY <1>t, <3>1, <3>2 DEF Pipeline
  <2>2. QED
    BY <1>0, <1>1, <2>1 DEF ChildWrites, Typed, Draining
<1>2. ASSUME NEW id \in Ids, NEW how \in {"clean", "bad"}, ChildExits(id, how) PROVE Typed'
  BY <1>0, <1>2 DEF ChildExits, Typed, Draining
<1>3. ASSUME NEW id \in Ids, NEW kind \in {"quiet", "loud", "escaped"}, ChildForks(id, kind)
      PROVE Typed'
  BY <1>0, <1>3 DEF ChildForks, Typed, Draining
<1>4. ASSUME NEW id \in Ids, ReaderMoves(id) \/ ReaderEnds(id) PROVE Typed'
  <2>1. out' \in [Ids -> Pipeline]
    <3>1. CASE ReaderMoves(id)
      <4> DEFINE n == out[id].pipe - 1
                 m == out[id].chan + 1
      <4>1. n \in Nat /\ m \in Nat
        BY <1>t, <3>1 DEF ReaderMoves, Pipeline
      <4>2. out' = [out EXCEPT ![id].pipe = n, ![id].chan = m]
        BY <3>1 DEF ReaderMoves
      <4> HIDE DEF n, m
      <4>3. QED
        BY <1>t, <4>1, <4>2 DEF Pipeline
    <3>2. CASE ReaderEnds(id)
      BY <1>t, <3>2 DEF ReaderEnds, Pipeline
    <3>3. QED
      BY <1>4, <3>1, <3>2
  <2>2. QED
    BY <1>0, <1>4, <2>1 DEF ReaderMoves, ReaderEnds, Typed, Draining
<1>5. ASSUME NEW id \in Ids, BackoffPasses(id) PROVE Typed'
  <2>1. procs' \in [Ids -> Proc]
    BY <1>t, <1>5 DEF BackoffPasses, Proc
  <2>2. QED
    BY <1>0, <1>5, <2>1 DEF BackoffPasses, Typed, Draining
<1>6. ASSUME NEW p \in Pids, GracePasses(p) PROVE Typed'
  <2>1. DOMAIN ledger' = DOMAIN ledger /\ \A q \in DOMAIN ledger : ledger'[q] \in Entry
    BY <1>t, <1>6 DEF GracePasses, Entry
  <2>2. QED
    BY <1>0, <1>6, <2>1 DEF GracePasses, Typed, Draining
<1>7. CASE DrainBoundPasses
  <2>1. main' \in Main /\ main'.pc = main.pc /\ main'.cur = main.cur /\ main'.todo = main.todo
    BY <1>t, <1>7 DEF DrainBoundPasses, Main
  <2>2. QED
    BY <1>0, <1>7, <2>1 DEF DrainBoundPasses, Typed, Draining
<1>8. ASSUME NEW id \in Ids, NEW group \in BOOLEAN, NEW policy \in Policies, NEW ok \in BOOLEAN,
             Spawn(id, group, policy, ok)
      PROVE  Typed'
  <2>1. CASE ok
    <3>1. StartGeneration(id, group, policy, TRUE)
      BY <1>8, <2>1 DEF Spawn
    <3>2. /\ procs' \in [Ids -> Proc] /\ leaders' \subseteq Pids /\ out' \in [Ids -> Pipeline]
          /\ evq' \in [Ids -> Seq(Event)] /\ faults' \in Nat
      BY <1>0, <3>1, StartType
    <3>3. QED
      BY <1>0, <1>8, <3>2 DEF Spawn, Typed, Draining
  <2>2. CASE ~ok
    <3>1. procs' \in [Ids -> Proc]
      <4>1. procs' = [procs EXCEPT ![id].st = "forgotten"]
        BY <1>8, <2>2 DEF Spawn
      <4>2. QED
        BY <1>t, <4>1 DEF Proc
    <3>2. Ev("ended", 1) \in Event
      BY ConstantsAssumption DEF Ev, Event, Kinds
    <3>3. evq' \in [Ids -> Seq(Event)]
      <4> DEFINE e == Ev("ended", 1)
      <4>1. evq' = [evq EXCEPT ![id] = Append(@, e)] /\ e \in Event
        BY <1>8, <2>2, <3>2 DEF Spawn
      <4> HIDE DEF e
      <4>2. Append(evq[id], e) \in Seq(Event)
        BY <1>t, <4>1
      <4>3. QED
        BY <1>t, <4>1, <4>2
    <3>4. faults' \in Nat /\ UNCHANGED <<leaders, out>>
      BY <1>0, <1>8, <2>2 DEF Spawn, Typed
    <3>5. QED
      BY <1>0, <1>8, <3>1, <3>3, <3>4 DEF Spawn, Typed, Draining
  <2>3. QED
    BY <2>1, <2>2
<1>9. ASSUME NEW id \in Ids, NEW sig \in {"term", "kill"}, SignalOp(id, sig) PROVE Typed'
  <2>1. procs' \in [Ids -> Proc]
    BY <1>t, <1>9 DEF SignalOp, Proc
  <2>2. DOMAIN ledger' \subseteq Pids /\ \A p \in DOMAIN ledger' : ledger'[p] \in Entry
    <3>1. PICK ps \in SUBSET Pids : ledger' = Arm(ledger, ps)
      BY <1>0, <1>9, ArmedByType DEF SignalOp
    <3>2. QED
      BY <1>0, <1>t, <3>1, ArmType
  <2>3. /\ leaders' \subseteq Pids /\ status' \in [Ids -> {"clean", "bad"}]
        /\ desc' \in [Pids -> {"none", "quiet", "loud", "escaped"}]
    <3>1. CASE sig = "kill"
      <4>1. KillAll(ArmedBy({id}), {Pid(id)})
        BY <1>9, <3>1 DEF SignalOp
      <4>2. QED
        BY <1>0, <4>1, KillAllShape DEF Typed
    <3>2. CASE sig # "kill"
      BY <1>0, <1>9, <3>2 DEF SignalOp, Typed
    <3>3. QED
      BY <3>1, <3>2
  <2>4. QED
    BY <1>0, <1>9, <2>1, <2>2, <2>3 DEF SignalOp, Typed, Draining
<1>10. ASSUME NEW id \in Ids, Forget(id) PROVE Typed'
  <2>1. procs' \in [Ids -> Proc]
    BY <1>t, <1>10 DEF Forget, Proc
  <2>2. pending' \in [Ids -> Seq(Event)]
    BY <1>t, <1>10 DEF Forget
  <2>3. QED
    BY <1>0, <1>10, <2>1, <2>2 DEF Forget, Typed, Draining
<1>11. ASSUME NEW id \in Ids, TakeEvents(id) PROVE Typed'
  <2>1. pending' \in [Ids -> Seq(Event)]
    BY <1>t, <1>11 DEF TakeEvents
  <2>2. pending[id][Len(pending[id])] \in Event
    BY <1>t, <1>11 DEF TakeEvents
  <2>3. QED
    BY <1>0, <1>11, <2>1, <2>2 DEF TakeEvents, Typed, Draining

<1>12. CASE TickDrain
  <2>1. ASSUME NEW id \in Ids PROVE pending'[id] \in Seq(Event)
    <3> DEFINE o == IF Live(id) THEN Output(id, out[id].chan > 0) ELSE <<>>
    <3>1. o \in Seq(Event)
      <4>1. procs[id].gen \in 0..MaxGen
        BY <1>t DEF Proc
      <4>2. Ev("output", procs[id].gen) \in Event
        BY <4>1 DEF Ev, Event, Kinds
      <4>3. QED
        BY <4>2 DEF Output
    <3>2. pending'[id] = pending[id] \o evq[id] \o o
      BY <1>12 DEF TickDrain
    <3> HIDE DEF o
    <3>3. QED
      BY <1>t, <3>1, <3>2
  <2>2. pending' \in [Ids -> Seq(Event)] /\ evq' \in [Ids -> Seq(Event)]
    BY <1>12, <2>1 DEF TickDrain
  <2>3. out' \in [Ids -> Pipeline]
    BY <1>t, <1>12 DEF TickDrain, Pipeline
  <2>4. main' \in Main /\ main'.pc = "poll"
    BY <1>12, <1>i DEF TickDrain, Main, Managed
  <2>5. QED
    BY <1>0, <1>12, <2>2, <2>3, <2>4 DEF TickDrain, Typed, Draining
<1>m. ASSUME NEW id \in Ids, main' = [main EXCEPT !.todo = @ \ {id}]
      PROVE  main' \in Main /\ main'.pc = main.pc
  BY <1>t, <1>m DEF Main
<1>13. ASSUME NEW id \in Ids, PollQuiet(id) PROVE Typed'
  <2>1. main' \in Main /\ main'.pc = "poll"
    BY <1>m, <1>13 DEF PollQuiet
  <2>2. procs' \in [Ids -> Proc]
    <3>1. procs[id].due \in {"none", "waiting", "ready"}
      BY <1>t DEF Proc
    <3>2. Scheduled(id, procs[id].how, procs[id].due) \in {"none", "waiting", "ready"}
      BY <3>1 DEF Scheduled
    <3>3. [procs[id] EXCEPT !.due = Scheduled(id, procs[id].how, @)] \in Proc
      BY <1>t, <3>2 DEF Proc
    <3>4. QED
      BY <1>t, <1>13, <3>3 DEF PollQuiet
  <2>3. QED
    BY <1>0, <1>13, <2>1, <2>2 DEF PollQuiet, Typed, Draining
<1>14. ASSUME NEW id \in Ids, PollDead(id) PROVE Typed'
  <2>1. id \in main.todo /\ Live(id)
    BY <1>14 DEF PollDead
  <2>2. main' \in Main /\ main'.cur = <<id>> /\ main'.todo = main.todo
    BY <1>t, <1>14 DEF PollDead, Main
  <2>3. DOMAIN ledger' \subseteq Pids /\ \A p \in DOMAIN ledger' : ledger'[p] \in Entry
    <3>1. PICK ps \in SUBSET Pids : ledger' = Arm(ledger, ps)
      BY <1>0, <1>14, ArmedByType DEF PollDead
    <3>2. QED
      BY <1>0, <1>t, <3>1, ArmType
  <2>4. QED
    BY <1>0, <1>14, <2>1, <2>2, <2>3 DEF PollDead, Typed, Draining
<1>15. ASSUME NEW id \in Ids, NEW ok \in BOOLEAN, PollRestart(id, ok) PROVE Typed'
  <2>1. main' \in Main /\ main'.pc = "poll"
    BY <1>m, <1>15 DEF PollRestart
  <2>2. StartGeneration(id, procs[id].group, procs[id].policy, ok)
    BY <1>15 DEF PollRestart
  <2>3. /\ procs' \in [Ids -> Proc] /\ leaders' \subseteq Pids /\ out' \in [Ids -> Pipeline]
        /\ evq' \in [Ids -> Seq(Event)] /\ faults' \in Nat
    <3> DEFINE group == procs[id].group
               policy == procs[id].policy
    <3>1. StartGeneration(id, group, policy, ok) /\ group \in BOOLEAN /\ policy \in Policies
      BY <1>t, <2>2 DEF Proc
    <3> HIDE DEF group, policy
    <3>2. QED
      BY <1>0, <3>1, StartType
  <2>4. pending' \in [Ids -> Seq(Event)]
    <3> DEFINE e == Ev("restarting", procs[id].gen + 1)
    <3>1. procs[id].gen + 1 \in 0..MaxGen
      BY <1>t, <2>2 DEF StartGeneration, Gens, Proc
    <3>2. e \in Event /\ pending' = [pending EXCEPT ![id] = Append(@, e)]
      BY <1>15, <3>1 DEF PollRestart, Ev, Event, Kinds
    <3> HIDE DEF e
    <3>3. Append(pending[id], e) \in Seq(Event)
      BY <1>t, <3>2
    <3>4. QED
      BY <1>t, <3>2, <3>3
  <2>5. QED
    BY <1>0, <1>15, <2>1, <2>3, <2>4 DEF PollRestart, Typed, Draining
<1>16. CASE DrainTake
  <2> DEFINE id == main.cur[1]
             some == out[id].chan > 0
             got == main.got \/ some
  <2>1. id \in Ids /\ Draining
    BY <1>c, <1>16 DEF DrainTake, Draining
  <2>2. main' = [main EXCEPT !.pc = "check", !.got = got, !.any = some]
    BY <1>16 DEF DrainTake
  <2>3. some \in BOOLEAN /\ got \in BOOLEAN
    OBVIOUS
  <2>4. out' = [out EXCEPT ![id].chan = 0]
    BY <1>16 DEF DrainTake
  <2> HIDE DEF some, got, id
  <2>5. main' \in Main /\ main'.cur = main.cur /\ main'.todo = main.todo
    BY <1>t, <2>2, <2>3 DEF Main
  <2>6. out' \in [Ids -> Pipeline]
    <3>1. [out[id] EXCEPT !.chan = 0] \in Pipeline
      BY <1>t, <2>1 DEF Pipeline
    <3>2. QED
      BY <1>t, <2>1, <2>4, <3>1
  <2>7. QED
    BY <1>0, <1>16, <2>1, <2>5, <2>6 DEF DrainTake, Typed, Draining
<1>17. CASE DrainFinished
  <2>1. main' \in Main /\ main'.cur = main.cur /\ main'.todo = main.todo
    BY <1>t, <1>17 DEF DrainFinished, Main
  <2>2. QED
    BY <1>0, <1>17, <2>1 DEF DrainFinished, Typed, Draining
<1>k. ASSUME NEW id \in Ids, DrainKill(id)
      PROVE  /\ leaders' \subseteq Pids /\ status' \in [Ids -> {"clean", "bad"}]
             /\ desc' \in [Pids -> {"none", "quiet", "loud", "escaped"}]
  <2>1. CASE DrainKills(id)
    <3>1. KillAll({Pid(id)}, {})
      BY <1>k, <2>1 DEF DrainKill
    <3>2. QED
      BY <1>0, <3>1, KillAllShape DEF Typed
  <2>2. CASE ~DrainKills(id)
    BY <1>0, <1>k, <2>2 DEF DrainKill, Typed
  <2>3. QED
    BY <2>1, <2>2
<1>18. CASE DrainCut
  <2> DEFINE id == main.cur[1]
             got == main.got \/ (id \in Group /\ out[id].chan > 0)
  <2>1. id \in Ids /\ Draining
    BY <1>c, <1>18 DEF DrainCut, Draining
  <2>2. main' = [main EXCEPT !.pc = "reap", !.why = "cut", !.got = got]
    BY <1>18 DEF DrainCut
  <2>3. got \in BOOLEAN
    OBVIOUS
  <2>4. out' \in {out, [out EXCEPT ![id].chan = 0]} /\ DrainKill(id)
    BY <1>18 DEF DrainCut
  <2> HIDE DEF got, id
  <2>5. main' \in Main /\ main'.cur = main.cur /\ main'.todo = main.todo
    BY <1>t, <2>2, <2>3 DEF Main
  <2>6. out' \in [Ids -> Pipeline]
    <3>1. [out[id] EXCEPT !.chan = 0] \in Pipeline
      BY <1>t, <2>1 DEF Pipeline
    <3>2. QED
      BY <1>t, <2>1, <2>4, <3>1
  <2>7. /\ leaders' \subseteq Pids /\ status' \in [Ids -> {"clean", "bad"}]
        /\ desc' \in [Pids -> {"none", "quiet", "loud", "escaped"}]
    BY <1>k, <2>1, <2>4
  <2>8. QED
    BY <1>0, <1>18, <2>1, <2>5, <2>6, <2>7 DEF DrainCut, Typed, Draining
<1>19. CASE DrainAgain
  <2> DEFINE id == main.cur[1]
             killed == main.killed \/ DrainKills(id)
  <2>1. id \in Ids /\ Draining
    BY <1>c, <1>19 DEF DrainAgain, Draining
  <2>2. main' = [main EXCEPT !.pc = "drain", !.killed = killed] /\ DrainKill(id)
    BY <1>19 DEF DrainAgain
  <2>3. killed \in BOOLEAN
    OBVIOUS
  <2> HIDE DEF killed, id
  <2>5. main' \in Main /\ main'.cur = main.cur /\ main'.todo = main.todo
    BY <1>t, <2>2, <2>3 DEF Main
  <2>6. /\ leaders' \subseteq Pids /\ status' \in [Ids -> {"clean", "bad"}]
        /\ desc' \in [Pids -> {"none", "quiet", "loud", "escaped"}]
    BY <1>k, <2>1, <2>2
  <2>7. QED
    BY <1>0, <1>19, <2>1, <2>5, <2>6 DEF DrainAgain, Typed, Draining
<1>20. CASE Reap
  <2> DEFINE id == main.cur[1]
  <2>1. id \in Ids
    BY <1>c, <1>20 DEF Reap, Draining
  <2>2. procs' = [procs EXCEPT ![id].st = "terminated", ![id].how = status[id],
                               ![id].due = Scheduled(id, status[id], @)]
        /\ out' = [out EXCEPT ![id] = NoOut]
        /\ pending' = [pending EXCEPT ![id] =
             @ \o Output(id, main.got) \o <<Ev("ended", procs[id].gen)>>]
        /\ main' = [Idle EXCEPT !.pc = "poll", !.todo = main.todo \ {id}]
    BY <1>20 DEF Reap
  <2> HIDE DEF id
  <2>3. main' \in Main /\ main'.pc = "poll"
    BY <1>t, <1>i, <2>2 DEF Main
  <2>4. procs' \in [Ids -> Proc]
    <3> DEFINE due == Scheduled(id, status[id], procs[id].due)
    <3>1. due \in {"none", "waiting", "ready"}
      BY <1>t, <2>1 DEF Scheduled, Proc
    <3>2. [procs[id] EXCEPT !.st = "terminated", !.how = status[id], !.due = due] \in Proc
      <4>1. status[id] \in {"clean", "bad"}
        BY <1>0, <2>1 DEF Typed
      <4> HIDE DEF due
      <4>2. QED
        BY <1>t, <2>1, <3>1, <4>1 DEF Proc
    <3>3. QED
      BY <1>t, <2>1, <2>2, <3>2
  <2>5. pending' \in [Ids -> Seq(Event)]
    <3> DEFINE o == Output(id, main.got)
               e == Ev("ended", procs[id].gen)
    <3>1. procs[id].gen \in 0..MaxGen
      BY <1>t, <2>1 DEF Proc
    <3>2. o \in Seq(Event) /\ e \in Event
      <4>1. e \in Event /\ Ev("output", procs[id].gen) \in Event
        BY <3>1 DEF Ev, Event, Kinds
      <4>2. QED
        BY <4>1 DEF Output
    <3>3. pending' = [pending EXCEPT ![id] = @ \o o \o <<e>>]
      BY <2>2
    <3> HIDE DEF o, e
    <3>4. pending[id] \o o \o <<e>> \in Seq(Event)
      BY <1>t, <2>1, <3>2
    <3>5. QED
      BY <1>t, <3>3, <3>4
  <2>6. out' \in [Ids -> Pipeline]
    BY <1>t, <1>i, <2>2
  <2>7. QED
    BY <1>0, <1>20, <2>3, <2>4, <2>5, <2>6 DEF Reap, Typed, Draining

<1>21. ASSUME NEW bad \in SUBSET DOMAIN ledger, NEW site \in {"none", "probe", "kill"},
              TickLedger(bad, site)
       PROVE  Typed'
  <2> DEFINE gone == {p \in DOMAIN ledger : ~GroupAlive(p)}
             dropped == gone \cup (IF site = "probe" THEN bad ELSE {})
             escalated == {p \in DOMAIN ledger \ dropped : ledger[p].due /\ ~ledger[p].killed}
  <2>1. /\ ledger' = [p \in DOMAIN ledger \ dropped |->
                        [ledger[p] EXCEPT !.killed = @ \/ p \in escalated]]
        /\ KillAll(escalated \ bad, {}) /\ main' = Idle
        /\ faults' = faults + Cardinality(bad)
        /\ missed' = missed \cup {<<p, site>> : p \in bad}
        /\ bad = {} \/ Cardinality(bad) = 1
        /\ bad = {} \/ site # "none"
    BY <1>21 DEF TickLedger
  <2>2. DOMAIN ledger' \subseteq Pids /\ \A p \in DOMAIN ledger' : ledger'[p] \in Entry
    <3>1. ASSUME NEW p \in DOMAIN ledger, NEW e \in BOOLEAN
          PROVE  [ledger[p] EXCEPT !.killed = @ \/ e] \in Entry
      <4> DEFINE k == ledger[p].killed \/ e
      <4>1. k \in BOOLEAN
        OBVIOUS
      <4> HIDE DEF k
      <4>2. [ledger[p] EXCEPT !.killed = k] \in Entry
        BY <1>t, <4>1 DEF Entry
      <4>3. QED
        BY <4>2 DEF k
    <3>2. ASSUME NEW p \in DOMAIN ledger \ dropped PROVE ledger'[p] \in Entry
      <4> DEFINE e == p \in escalated
      <4>1. ledger'[p] = [ledger[p] EXCEPT !.killed = @ \/ e] /\ e \in BOOLEAN
        BY <2>1
      <4> HIDE DEF e
      <4>2. QED
        BY <3>1, <4>1
    <3>3. DOMAIN ledger' = DOMAIN ledger \ dropped
      BY <2>1
    <3> HIDE DEF dropped
    <3>4. QED
      BY <1>t, <3>2, <3>3
  <2>3. faults' \in Nat /\ missed' \subseteq Missable
    <3>1. {<<p, site>> : p \in bad} \subseteq Missable
      BY <1>t, <2>1 DEF Missable
    <3>2. QED
      BY <1>0, <2>1, <3>1, FewType DEF Typed
  <2>4. /\ leaders' \subseteq Pids /\ status' \in [Ids -> {"clean", "bad"}]
        /\ desc' \in [Pids -> {"none", "quiet", "loud", "escaped"}]
    BY <1>0, <2>1, KillAllShape DEF Typed
  <2>5. UNCHANGED <<procs, out, evq, pending, told, phase>>
    BY <1>21 DEF TickLedger
  <2> HIDE DEF gone, dropped, escalated
  <2>6. QED
    BY <1>0, <1>i, <2>1, <2>2, <2>3, <2>4, <2>5 DEF Typed, Draining
<1>e. ASSUME NEW sent \in SUBSET {id \in Ids : Live(id)},
             procs' = [id \in Ids |-> IF id \in sent THEN [procs[id] EXCEPT !.st = "exiting"]
                                                    ELSE procs[id]]
      PROVE  procs' \in [Ids -> Proc]
  BY <1>t, <1>e DEF Proc
<1>22. ASSUME NEW bad \in SUBSET Ids, ShutdownTerm(bad) PROVE Typed'
  <2> DEFINE sent == {id \in Ids : Live(id)} \ bad
  <2>1. /\ procs' = [id \in Ids |-> IF id \in sent THEN [procs[id] EXCEPT !.st = "exiting"]
                                                  ELSE procs[id]]
        /\ ledger' = Arm(ledger, ArmedBy(sent))
        /\ faults' = faults + Cardinality(bad)
        /\ missed' = missed \cup {<<Pid(id), "term">> : id \in bad}
        /\ phase' = "termwait" /\ (bad = {} \/ Cardinality(bad) = 1)
        /\ \A id \in bad : Live(id)
        /\ UNCHANGED <<leaders, status, desc, out, evq, pending, told, main>>
    BY <1>22 DEF ShutdownTerm, MayFail
  <2>2. sent \in SUBSET {id \in Ids : Live(id)}
    OBVIOUS
  <2> HIDE DEF sent
  <2>3. procs' \in [Ids -> Proc]
    BY <1>e, <2>1, <2>2
  <2>4. DOMAIN ledger' \subseteq Pids /\ \A p \in DOMAIN ledger' : ledger'[p] \in Entry
    <3>1. ArmedBy(sent) \in SUBSET Pids
      BY <1>0, <2>2, ArmedByType
    <3>2. QED
      BY <1>0, <1>t, <2>1, <3>1, ArmType
  <2>5. faults' \in Nat /\ missed' \subseteq Missable
    <3>1. \A id \in bad : Pid(id) \in Pids
      BY <1>0, <2>1, PidType DEF StartedInv, Live
    <3>2. {<<Pid(id), "term">> : id \in bad} \subseteq Missable
      BY <3>1 DEF Missable
    <3>3. QED
      BY <1>0, <2>1, <3>2, FewType DEF Typed
  <2>6. QED
    BY <1>0, <2>1, <2>3, <2>4, <2>5 DEF Typed, Draining
<1>23. ASSUME NEW bad \in SUBSET Ids, NEW worse \in SUBSET Pids, ShutdownKill(bad, worse)
       PROVE  Typed'
  <2> DEFINE left == {id \in Ids : Live(id)}
             sent == left \ bad
             armed == Arm(ledger, ArmedBy(sent))
  <2>1. /\ procs' = [id \in Ids |-> IF id \in sent THEN [procs[id] EXCEPT !.st = "exiting"]
                                                  ELSE procs[id]]
        /\ ledger' = [p \in DOMAIN armed |-> [armed[p] EXCEPT !.killed = TRUE]]
        /\ faults' = faults + Cardinality(bad \cup worse)
        /\ missed' = missed \cup {<<Pid(id), "signal">> : id \in bad}
                             \cup {<<p, "force">> : p \in worse}
        /\ KillAll((DOMAIN armed \ worse) \cup ArmedBy(sent), {Pid(id) : id \in sent})
        /\ phase' = "final"
        /\ bad = {} \/ Cardinality(bad) = 1
        /\ worse = {} \/ Cardinality(worse) = 1
        /\ bad = {} \/ worse = {} 
        /\ bad \subseteq left
        /\ UNCHANGED <<out, evq, pending, told, main>>
    BY <1>23 DEF ShutdownKill, MayFail
  <2>2. sent \in SUBSET {id \in Ids : Live(id)} /\ \A id \in bad : Live(id)
    BY <2>1
  <2>3. procs' \in [Ids -> Proc]
    BY <1>e, <2>1, <2>2
  <2>4. DOMAIN ledger' \subseteq Pids /\ \A p \in DOMAIN ledger' : ledger'[p] \in Entry
    <3>1. ArmedBy(sent) \in SUBSET Pids
      BY <1>0, <2>2, ArmedByType
    <3>2. armed = Arm(ledger, ArmedBy(sent))
      OBVIOUS
    <3> HIDE DEF sent, armed
    <3>3. DOMAIN armed \subseteq Pids /\ \A p \in DOMAIN armed : armed[p] \in Entry
      BY <1>t, <3>1, <3>2 DEF Arm, Entry
    <3>4. \A p \in DOMAIN armed : [armed[p] EXCEPT !.killed = TRUE] \in Entry
      BY <3>3 DEF Entry
    <3>5. QED
      BY <2>1, <3>3, <3>4
  <2>5. faults' \in Nat /\ missed' \subseteq Missable
    <3>1. \A id \in bad : Pid(id) \in Pids
      BY <1>0, <2>2, PidType DEF StartedInv, Live
    <3>2. {<<Pid(id), "signal">> : id \in bad} \subseteq Missable
          /\ {<<p, "force">> : p \in worse} \subseteq Missable
      BY <3>1 DEF Missable
    <3>3. Cardinality(bad \cup worse) \in Nat
      <4>1. (bad \cup worse = bad /\ (bad = {} \/ Cardinality(bad) = 1))
            \/ (bad \cup worse = worse /\ (worse = {} \/ Cardinality(worse) = 1))
        BY <2>1
      <4>2. QED
        BY <4>1, FewType
    <3>4. QED
      BY <1>0, <2>1, <3>2, <3>3 DEF Typed
  <2>6. /\ leaders' \subseteq Pids /\ status' \in [Ids -> {"clean", "bad"}]
        /\ desc' \in [Pids -> {"none", "quiet", "loud", "escaped"}]
    BY <1>0, <2>1, KillAllShape DEF Typed
  <2> HIDE DEF left, sent, armed
  <2>7. QED
    BY <1>0, <2>1, <2>3, <2>4, <2>5, <2>6 DEF Typed, Draining
<1>24. CASE ShutdownDone
  BY <1>0, <1>24 DEF ShutdownDone, Typed, Draining
<1>25. CASE UNCHANGED vars
  BY <1>0, <1>25 DEF vars, Typed, Draining
<1>26. QED
  BY <1>1, <1>2, <1>3, <1>4, <1>5, <1>6, <1>7, <1>8, <1>9, <1>10, <1>11, <1>12, <1>13,
     <1>14, <1>15, <1>16, <1>17, <1>18, <1>19, <1>20, <1>21, <1>22, <1>23, <1>24, <1>25
     DEF Next, Children, Readers, Time, Calls, Tick, Shutdown, ShutdownGoesOn, Down

-----------------------------------------------------------------------------
(* Lives: of leaders, of groups, and what the ledger knows of them.        *)

(* A step that only takes lives, arms groups and gives up on processes     *)
(* whose leader is dead and whose group is armed keeps what is known.      *)
LEMMA LivesKept ==
  ASSUME Typed, LivesInv,
         \A id \in Ids : /\ procs'[id].gen = procs[id].gen /\ procs'[id].group = procs[id].group
                         /\ procs'[id].st = "none" => procs[id].st = "none"
                         /\ procs'[id].st \notin {"none", "forgotten"} =>
                                procs[id].st \notin {"none", "forgotten"},
         \A id \in Ids : Live(id) => \/ procs'[id].st \in {"running", "exiting"}
                                     \/ /\ Pid(id) \notin leaders
                                        /\ procs[id].group => Pid(id) \in DOMAIN ledger,
         leaders' \subseteq leaders, \A p \in Pids : desc'[p] \in {"none", desc[p]},
         DOMAIN ledger \subseteq DOMAIN ledger', missed \subseteq missed'
  PROVE  /\ OneLiveGeneration' /\ StartedInv' /\ LedgerInv'
         /\ phase' = phase => TermInv' /\ FinalInv'
<1>1. \A p \in Pids : p[1] \in Ids /\ p[2] \in Nat
  BY ConstantsAssumption DEF Pids, Gens
<1>2. leaders \subseteq Pids
  BY DEF Typed
<1>g. Group' = Group /\ \A id \in Ids : id \in Group <=> procs[id].group
  BY DEF Group
<1>p. \A id \in Ids : Pid(id)' = Pid(id)
  BY DEF Pid
<1>3. OneLiveGeneration'
  <2>1. ASSUME NEW p \in leaders' PROVE p = Pid(p[1])' /\ Live(p[1])'
    <3>1. p \in leaders /\ p[1] \in Ids /\ p = Pid(p[1]) /\ Live(p[1])
      BY <1>1, <1>2, <2>1 DEF LivesInv, OneLiveGeneration
    <3>2. QED
      BY <1>p, <3>1 DEF Live
  <2>2. QED
    BY <2>1 DEF OneLiveGeneration
<1>4. StartedInv'
  BY <1>1, <1>g DEF LivesInv, StartedInv
<1>5. LedgerInv'
  <2>1. ASSUME NEW p \in Pids, desc'[p] \in {"quiet", "loud"}
        PROVE  \/ p \in DOMAIN ledger'
               \/ <<p, "probe">> \in missed'
               \/ p = Pid(p[1])' /\ Live(p[1])'
    <3>1. p[1] \in Ids /\ p[1] \in Group /\ desc[p] \in {"quiet", "loud"}
      BY <1>1, <2>1 DEF LivesInv, StartedInv
    <3>2. CASE p = Pid(p[1]) /\ Live(p[1])
      BY <1>g, <1>p, <3>1, <3>2 DEF Live
    <3>3. CASE ~(p = Pid(p[1]) /\ Live(p[1]))
      BY <3>1, <3>3 DEF LivesInv, LedgerInv
    <3>4. QED
      BY <3>2, <3>3
  <2>2. QED
    BY <2>1 DEF LedgerInv
<1>6. \A p \in Pids : GroupAlive(p)' => GroupAlive(p)
  BY DEF GroupAlive
<1>7. phase' = phase => TermInv'
  BY <1>g, <1>6 DEF LivesInv, TermInv
<1>8. phase' = phase => FinalInv'
  BY <1>g, <1>6 DEF LivesInv, FinalInv
<1>9. QED
  BY <1>3, <1>4, <1>5, <1>7, <1>8

(* A generation starts when none of its process is alive, and with no      *)
(* descendant of its own.                                                  *)
LEMMA LivesStart ==
  ASSUME Typed, LivesInv, NEW id \in Ids, NEW group, NEW policy, NEW ok \in BOOLEAN,
         StartGeneration(id, group, policy, ok), ~Live(id), phase' = "up",
         procs[id].st = "none" \/ (procs[id].st = "terminated" /\ group = procs[id].group),
         UNCHANGED <<desc, ledger, missed>>
  PROVE  LivesInv'
<1> DEFINE g == procs[id].gen + 1
<1>1. \A p \in Pids : p = <<p[1], p[2]>> /\ p[1] \in Ids /\ p[2] \in Nat /\ 0 < p[2]
  BY ConstantsAssumption DEF Pids, Gens
<1>2. /\ procs'[id].gen = g /\ procs'[id].group = group
      /\ procs'[id].st = IF ok THEN "running" ELSE "terminated"
      /\ \A k \in Ids \ {id} : procs'[k] = procs[k]
      /\ leaders' = IF ok THEN leaders \cup {<<id, g>>} ELSE leaders
  BY DEF StartGeneration, Typed
<1>3. procs[id].gen \in Nat /\ leaders \subseteq Pids
  BY DEF Typed, Proc
<1>4. OneLiveGeneration'
  <2>1. ASSUME NEW p \in leaders' PROVE p = Pid(p[1])' /\ Live(p[1])'
    <3>1. CASE p \in leaders
      <4>1. p[1] \in Ids /\ p = Pid(p[1]) /\ Live(p[1])
        BY <1>1, <1>3, <3>1 DEF LivesInv, OneLiveGeneration
      <4>2. p[1] # id
        BY <4>1
      <4>3. QED
        BY <1>2, <4>1, <4>2 DEF Pid, Live
    <3>2. CASE p \notin leaders
      <4>1. ok /\ p = <<id, g>>
        BY <1>2, <2>1, <3>2
      <4>2. QED
        BY <1>2, <4>1 DEF Pid, Live
    <3>3. QED
      BY <3>1, <3>2
  <2>2. QED
    BY <2>1 DEF OneLiveGeneration
<1>5. \A p \in Pids : p[1] = id /\ desc[p] # "none" => procs[id].st = "terminated"
  BY <1>1 DEF LivesInv, StartedInv
<1>6. \A p \in Pids : desc[p] # "none" => (p[1] \in Group' <=> p[1] \in Group)
  BY <1>1, <1>2, <1>5 DEF Group
<1>7. StartedInv'
  <2>1. \A k \in Ids : /\ procs'[k].st = "none" => procs'[k].gen = 0
                       /\ procs'[k].st \notin {"none", "forgotten"} => procs'[k].gen # 0
    BY <1>2, <1>3 DEF LivesInv, StartedInv
  <2>2. ASSUME NEW p \in Pids, desc[p] # "none"
        PROVE  /\ p[2] <= procs'[p[1]].gen
               /\ desc[p] \in {"quiet", "loud"} => p[1] \in Group'
    <3>1. p[2] <= procs[p[1]].gen /\ (desc[p] \in {"quiet", "loud"} => p[1] \in Group)
      BY <2>2 DEF LivesInv, StartedInv
    <3>2. p[2] <= procs'[p[1]].gen
      BY <1>1, <1>2, <1>3, <3>1
    <3>3. QED
      BY <1>6, <2>2, <3>1, <3>2
  <2>3. QED
    BY <2>1, <2>2 DEF StartedInv
<1>8. LedgerInv'
  <2>1. ASSUME NEW p \in Pids, desc[p] \in {"quiet", "loud"},
               p \notin DOMAIN ledger, <<p, "probe">> \notin missed
        PROVE  p = Pid(p[1])' /\ Live(p[1])'
    <3>1. p = Pid(p[1]) /\ Live(p[1]) /\ p[1] \in Ids
      BY <1>1, <2>1 DEF LivesInv, LedgerInv
    <3>2. p[1] # id
      BY <3>1
    <3>3. QED
      BY <1>2, <3>1, <3>2 DEF Pid, Live
  <2>2. QED
    BY <2>1 DEF LedgerInv
<1>9. QED
  BY <1>4, <1>7, <1>8 DEF LivesInv, TermInv, FinalInv

(* Every step keeps what is known of the lives.                            *)
LEMMA LivesStep == SupervisorIInv /\ [Next]_vars => LivesInv'
<1> SUFFICES ASSUME SupervisorIInv, [Next]_vars PROVE LivesInv'
  OBVIOUS
<1>0. Typed /\ LivesInv /\ StartedInv /\ DrainInv
  BY TypeParts DEF SupervisorIInv, LivesInv
<1>t. /\ procs \in [Ids -> Proc] /\ leaders \subseteq Pids /\ DOMAIN ledger \subseteq Pids
      /\ desc \in [Pids -> {"none", "quiet", "loud", "escaped"}]
  BY <1>0 DEF Typed
<1>d. \A p \in Pids : p = <<p[1], p[2]>> /\ p[1] \in Ids /\ p[2] \in Nat
  BY ConstantsAssumption DEF Pids, Gens
<1>c. Draining => main.cur[1] \in Ids
  <2>1. Draining => \E id \in main.todo : main.cur = <<id>>
    BY <1>0 DEF Typed
  <2>2. main.todo \subseteq Ids
    BY <1>0 DEF Typed, Main
  <2>3. QED
    BY <2>1, <2>2
(* a step that leaves the records alone *)
<1>k. ASSUME procs' = procs, leaders' \subseteq leaders,
             \A p \in Pids : desc'[p] \in {"none", desc[p]},
             DOMAIN ledger \subseteq DOMAIN ledger', missed' = missed, phase' = phase
      PROVE  LivesInv'
  BY <1>0, <1>k, LivesKept DEF LivesInv, Live
<1>u. \A p \in Pids : desc[p] \in {"none", desc[p]}
  OBVIOUS
<1>1. ASSUME NEW id \in Ids, \/ ChildWrites(id) \/ ReaderMoves(id) \/ ReaderEnds(id)
                             \/ TakeEvents(id)
      PROVE LivesInv'
  BY <1>1, <1>k DEF ChildWrites, ReaderMoves, ReaderEnds, TakeEvents
<1>2. ASSUME NEW id \in Ids, NEW how \in {"clean", "bad"}, ChildExits(id, how) PROVE LivesInv'
  BY <1>2, <1>k DEF ChildExits
<1>3. ASSUME NEW id \in Ids, NEW kind \in {"quiet", "loud", "escaped"}, ChildForks(id, kind)
      PROVE LivesInv'
  <2>1. /\ UNCHANGED <<procs, leaders, ledger, missed, phase>> /\ Pid(id) \in leaders
        /\ Pid(id) \in Pids /\ desc' = [desc EXCEPT ![Pid(id)] = kind]
        /\ kind = "escaped" \/ id \in Group
    BY <1>3, <1>t DEF ChildForks
  <2>p. Pid(id)[1] = id /\ Pid(id)[2] = procs[id].gen /\ procs[id].gen \in Nat
    BY <1>t DEF Pid, Proc
  <2>2. Live(id)
    BY <1>0, <2>1, <2>p DEF LivesInv, OneLiveGeneration
  <2>3. OneLiveGeneration'
    BY <1>0, <2>1 DEF LivesInv, OneLiveGeneration, Pid, Live
  <2>4. \A p \in Pids \ {Pid(id)} : desc'[p] = desc[p]
    BY <1>t, <2>1
  <2>5. desc'[Pid(id)] = kind
    BY <1>t, <2>1
  <2>g. Group' = Group
    BY <2>1 DEF Group
  <2>6. StartedInv'
    <3>1. ASSUME NEW p \in Pids
          PROVE  /\ desc'[p] # "none" => p[2] <= procs'[p[1]].gen
                 /\ desc'[p] \in {"quiet", "loud"} => p[1] \in Group'
      <4>1. CASE p = Pid(id)
        <5> DEFINE q == Pid(id)
        <5>1. q[1] = id /\ q[2] <= procs[id].gen
          BY <2>p
        <5> HIDE DEF q
        <5>2. QED
          BY <2>1, <2>5, <2>g, <4>1, <5>1 DEF q
      <4>2. CASE p # Pid(id)
        BY <1>0, <2>1, <2>4, <2>g, <4>2 DEF StartedInv
      <4>3. QED
        BY <4>1, <4>2
    <3>2. QED
      BY <1>0, <2>1, <3>1 DEF StartedInv
  <2>7. LedgerInv'
    <3>1. ASSUME NEW p \in Pids, desc'[p] \in {"quiet", "loud"}
          PROVE  \/ p \in DOMAIN ledger'
                 \/ <<p, "probe">> \in missed'
                 \/ p = Pid(p[1])' /\ Live(p[1])'
      <4>1. CASE p = Pid(id)
        BY <2>1, <2>2, <2>p, <4>1 DEF Pid, Live
      <4>2. CASE p # Pid(id)
        BY <1>0, <2>1, <2>4, <3>1, <4>2 DEF LivesInv, LedgerInv, Pid, Live
      <4>3. QED
        BY <4>1, <4>2
    <3>2. QED
      BY <3>1 DEF LedgerInv
  <2>8. \A p \in Pids : GroupAlive(p)' => GroupAlive(p)
    BY <2>1, <2>4 DEF GroupAlive
  <2>9. QED
    BY <1>0, <2>1, <2>3, <2>6, <2>7, <2>8, <2>g DEF LivesInv, TermInv, FinalInv
<1>5. ASSUME NEW id \in Ids, BackoffPasses(id) PROVE LivesInv'
  <2>1. /\ \A k \in Ids : /\ procs'[k].gen = procs[k].gen /\ procs'[k].group = procs[k].group
                          /\ procs'[k].st = procs[k].st
        /\ UNCHANGED <<leaders, desc, ledger, missed, phase>>
    BY <1>5, <1>t DEF BackoffPasses, Proc
  <2>2. QED
    BY <1>0, <2>1, LivesKept DEF LivesInv, Live
<1>6. ASSUME NEW p \in Pids, GracePasses(p) PROVE LivesInv'
  <2>1. DOMAIN ledger' = DOMAIN ledger /\ UNCHANGED <<procs, leaders, desc, missed, phase>>
    BY <1>6 DEF GracePasses
  <2>2. QED
    BY <1>k, <2>1
<1>7. CASE DrainBoundPasses \/ TickDrain \/ DrainTake \/ DrainFinished
  BY <1>7, <1>k DEF DrainBoundPasses, TickDrain, DrainTake, DrainFinished
<1>8. ASSUME NEW id \in Ids, NEW group \in BOOLEAN, NEW policy \in Policies, NEW ok \in BOOLEAN,
             Spawn(id, group, policy, ok)
      PROVE  LivesInv'
  <2>1. /\ procs[id].st = "none" /\ ~Live(id) /\ phase' = "up"
        /\ UNCHANGED <<desc, ledger, missed, phase>>
    BY <1>8 DEF Spawn, Live
  <2>2. CASE ok
    <3>1. StartGeneration(id, group, policy, TRUE)
      BY <1>8, <2>2 DEF Spawn
    <3>2. QED
      BY <1>0, <2>1, <3>1, LivesStart
  <2>3. CASE ~ok
    <3>1. procs' = [procs EXCEPT ![id].st = "forgotten"] /\ leaders' = leaders
      BY <1>8, <2>3 DEF Spawn
    <3>2. \A k \in Ids : /\ procs'[k].gen = procs[k].gen /\ procs'[k].group = procs[k].group
                         /\ procs'[k].st = IF k = id THEN "forgotten" ELSE procs[k].st
      BY <1>t, <3>1 DEF Proc
    <3>3. QED
      BY <1>0, <2>1, <3>1, <3>2, LivesKept DEF LivesInv, Live
  <2>4. QED
    BY <2>2, <2>3
<1>9. ASSUME NEW id \in Ids, NEW sig \in {"term", "kill"}, SignalOp(id, sig) PROVE LivesInv'
  <2>1. procs' = [procs EXCEPT ![id].st = "exiting"] /\ Live(id) /\ UNCHANGED <<missed, phase>>
    BY <1>9 DEF SignalOp
  <2>2. \A k \in Ids : /\ procs'[k].gen = procs[k].gen /\ procs'[k].group = procs[k].group
                       /\ procs'[k].st = IF k = id THEN "exiting" ELSE procs[k].st
    BY <1>t, <2>1 DEF Proc
  <2>3. DOMAIN ledger \subseteq DOMAIN ledger'
    BY <1>9 DEF SignalOp, Arm
  <2>4. leaders' \subseteq leaders /\ \A p \in Pids : desc'[p] \in {"none", desc[p]}
    <3>1. CASE sig = "kill"
      <4>1. KillAll(ArmedBy({id}), {Pid(id)})
        BY <1>9, <3>1 DEF SignalOp
      <4>2. QED
        BY <1>0, <4>1, KillAllShape
    <3>2. CASE sig # "kill"
      BY <1>9, <3>2 DEF SignalOp
    <3>3. QED
      BY <3>1, <3>2
  <2>5. QED
    BY <1>0, <2>1, <2>2, <2>3, <2>4, LivesKept DEF LivesInv, Live
<1>10. ASSUME NEW id \in Ids, Forget(id) PROVE LivesInv'
  <2>1. /\ \A k \in Ids : /\ procs'[k].gen = procs[k].gen /\ procs'[k].group = procs[k].group
                          /\ procs'[k].st = IF k = id THEN "forgotten" ELSE procs[k].st
        /\ procs[id].st = "terminated"
        /\ UNCHANGED <<leaders, desc, ledger, missed, phase>>
    BY <1>10, <1>t DEF Forget, Proc
  <2>2. QED
    BY <1>0, <2>1, LivesKept DEF LivesInv, Live
<1>13. ASSUME NEW id \in Ids, PollQuiet(id) PROVE LivesInv'
  <2>1. \A k \in Ids : /\ procs'[k].gen = procs[k].gen /\ procs'[k].group = procs[k].group
                       /\ procs'[k].st = procs[k].st
    BY <1>13, <1>t DEF PollQuiet, Proc
  <2>2. UNCHANGED <<leaders, desc, ledger, missed, phase>>
    BY <1>13 DEF PollQuiet
  <2>3. QED
    BY <1>0, <2>1, <2>2, LivesKept DEF LivesInv, Live
<1>14. ASSUME NEW id \in Ids, PollDead(id) PROVE LivesInv'
  <2>1. DOMAIN ledger \subseteq DOMAIN ledger'
    BY <1>14 DEF PollDead, Arm
  <2>2. QED
    BY <1>14, <1>k, <2>1 DEF PollDead
<1>15. ASSUME NEW id \in Ids, NEW ok \in BOOLEAN, PollRestart(id, ok) PROVE LivesInv'
  <2>1. /\ procs[id].st = "terminated" /\ ~Live(id) /\ phase' = "up"
        /\ UNCHANGED <<desc, ledger, missed, phase>>
        /\ StartGeneration(id, procs[id].group, procs[id].policy, ok)
    BY <1>15 DEF PollRestart, Live
  <2>2. QED
    BY <1>0, <2>1, LivesStart

<1>16. CASE DrainCut \/ DrainAgain
  <2> DEFINE id == main.cur[1]
  <2>1. DrainKill(id) /\ UNCHANGED <<procs, ledger, missed, phase>>
    BY <1>16 DEF DrainCut, DrainAgain
  <2>2. leaders' \subseteq leaders /\ \A p \in Pids : desc'[p] \in {"none", desc[p]}
    <3>1. CASE DrainKills(id)
      BY <1>0, <2>1, <3>1, KillAllShape DEF DrainKill
    <3>2. CASE ~DrainKills(id)
      BY <2>1, <3>2 DEF DrainKill
    <3>3. QED
      BY <3>1, <3>2
  <2>3. QED
    BY <1>k, <2>1, <2>2
<1>20. CASE Reap
  <2> DEFINE id == main.cur[1]
  <2>1. Draining /\ id \in Ids /\ UNCHANGED <<leaders, desc, ledger, missed, phase>>
    BY <1>20, <1>c DEF Reap, Draining
  <2>2. Live(id) /\ Pid(id) \notin leaders /\ (id \in Group => Pid(id) \in DOMAIN ledger)
    BY <1>0, <2>1 DEF DrainInv
  <2>3. \A k \in Ids : /\ procs'[k].gen = procs[k].gen /\ procs'[k].group = procs[k].group
                       /\ procs'[k].st = IF k = id THEN "terminated" ELSE procs[k].st
    BY <1>20, <1>t, <2>1 DEF Reap, Proc
  <2> HIDE DEF id
  <2>4. QED
    BY <1>0, <2>1, <2>2, <2>3, LivesKept DEF LivesInv, Live, Group
<1>21. ASSUME NEW bad \in SUBSET DOMAIN ledger, NEW site \in {"none", "probe", "kill"},
              TickLedger(bad, site)
       PROVE  LivesInv'
  <2> DEFINE gone == {p \in DOMAIN ledger : ~GroupAlive(p)}
             dropped == gone \cup (IF site = "probe" THEN bad ELSE {})
             escalated == {p \in DOMAIN ledger \ dropped : ledger[p].due /\ ~ledger[p].killed}
  <2>1. /\ ledger' = [p \in DOMAIN ledger \ dropped |->
                        [ledger[p] EXCEPT !.killed = @ \/ p \in escalated]]
        /\ KillAll(escalated \ bad, {})
        /\ missed' = missed \cup {<<p, site>> : p \in bad}
        /\ UNCHANGED <<procs, phase>>
    BY <1>21 DEF TickLedger
  <2>2. leaders' \subseteq leaders /\ \A p \in Pids : desc'[p] \in {"none", desc[p]}
    BY <1>0, <2>1, KillAllShape
  <2>3. DOMAIN ledger' = DOMAIN ledger \ dropped
    BY <2>1
  <2>4. \A p \in DOMAIN ledger : p \notin DOMAIN ledger' =>
              ~GroupAlive(p) \/ <<p, "probe">> \in missed'
    BY <2>1, <2>3
  <2>5. \A p \in Pids : GroupAlive(p)' => GroupAlive(p)
    BY <2>2 DEF GroupAlive
  <2>6. missed \subseteq missed' /\ Group' = Group
    BY <2>1 DEF Group
  <2> HIDE DEF gone, dropped, escalated
  <2>7. OneLiveGeneration'
    BY <1>0, <2>1, <2>2 DEF LivesInv, OneLiveGeneration, Pid, Live
  <2>8. StartedInv'
    BY <1>0, <2>1, <2>2, <2>6 DEF StartedInv
  <2>9. LedgerInv'
    <3>1. ASSUME NEW p \in Pids, desc'[p] \in {"quiet", "loud"}
          PROVE  \/ p \in DOMAIN ledger'
                 \/ <<p, "probe">> \in missed'
                 \/ p = Pid(p[1])' /\ Live(p[1])'
      <4>1. desc[p] \in {"quiet", "loud"} /\ GroupAlive(p)
        BY <2>2, <3>1 DEF GroupAlive
      <4>2. CASE p \in DOMAIN ledger
        BY <2>4, <4>1, <4>2
      <4>3. CASE p \notin DOMAIN ledger
        BY <1>0, <2>1, <2>6, <4>1, <4>3 DEF LivesInv, LedgerInv, Pid, Live
      <4>4. QED
        BY <4>2, <4>3
    <3>2. QED
      BY <3>1 DEF LedgerInv
  <2>10. TermInv'
    <3>1. ASSUME phase = "termwait", NEW p \in Pids, p[1] \in Group, GroupAlive(p)'
          PROVE  p \in DOMAIN ledger' \/ \E why \in {"probe", "term"} : <<p, why>> \in missed'
      <4>1. p \in DOMAIN ledger \/ \E why \in {"probe", "term"} : <<p, why>> \in missed
        BY <1>0, <2>5, <3>1 DEF LivesInv, TermInv
      <4>2. QED
        BY <2>4, <2>5, <2>6, <3>1, <4>1
    <3>2. QED
      BY <2>1, <2>6, <3>1 DEF TermInv
  <2>11. FinalInv'
    BY <1>0, <2>1, <2>2, <2>5, <2>6 DEF LivesInv, FinalInv
  <2>12. QED
    BY <2>7, <2>8, <2>9, <2>10, <2>11 DEF LivesInv
<1>e. ASSUME NEW sent \in SUBSET {id \in Ids : Live(id)},
             procs' = [id \in Ids |-> IF id \in sent THEN [procs[id] EXCEPT !.st = "exiting"]
                                                    ELSE procs[id]]
      PROVE  \A k \in Ids : /\ procs'[k].gen = procs[k].gen /\ procs'[k].group = procs[k].group
                            /\ procs'[k].st = IF k \in sent THEN "exiting" ELSE procs[k].st
  BY <1>t, <1>e DEF Proc
(* a live group leader or member belongs to a live process or is known *)
<1>w. ASSUME NEW p \in Pids, GroupAlive(p)
      PROVE  \/ p \in DOMAIN ledger \/ <<p, "probe">> \in missed
             \/ p = Pid(p[1]) /\ Live(p[1])
  BY <1>0, <1>w DEF GroupAlive, LivesInv, LedgerInv, OneLiveGeneration
<1>22. ASSUME NEW bad \in SUBSET Ids, ShutdownTerm(bad) PROVE LivesInv'
  <2> DEFINE sent == {id \in Ids : Live(id)} \ bad
  <2>1. /\ procs' = [id \in Ids |-> IF id \in sent THEN [procs[id] EXCEPT !.st = "exiting"]
                                                  ELSE procs[id]]
        /\ ledger' = Arm(ledger, ArmedBy(sent))
        /\ missed' = missed \cup {<<Pid(id), "term">> : id \in bad}
        /\ phase' = "termwait"
        /\ UNCHANGED <<leaders, desc>>
    BY <1>22 DEF ShutdownTerm
  <2>2. sent \in SUBSET {id \in Ids : Live(id)} /\ \A id \in Ids : Live(id) => id \in sent \/ id \in bad
    OBVIOUS
  <2> HIDE DEF sent
  <2>3. \A k \in Ids : /\ procs'[k].gen = procs[k].gen /\ procs'[k].group = procs[k].group
                       /\ procs'[k].st = IF k \in sent THEN "exiting" ELSE procs[k].st
    BY <1>e, <2>1, <2>2
  <2>4. DOMAIN ledger' = DOMAIN ledger \cup ArmedBy(sent)
    BY <2>1 DEF Arm
  <2>5. OneLiveGeneration' /\ StartedInv' /\ LedgerInv'
    BY <1>0, <2>1, <2>2, <2>3, <2>4, LivesKept DEF Live
  <2>6. TermInv'
    <3>g. Group' = Group /\ \A p \in Pids : GroupAlive(p)' = GroupAlive(p)
      BY <2>1, <2>3 DEF Group, GroupAlive
    <3>1. ASSUME NEW p \in Pids, p[1] \in Group, GroupAlive(p)
          PROVE  p \in DOMAIN ledger' \/ \E why \in {"probe", "term"} : <<p, why>> \in missed'
      <4>1. CASE p = Pid(p[1]) /\ Live(p[1])
        <5>1. CASE p[1] \in sent
          BY <2>4, <3>1, <4>1, <5>1 DEF ArmedBy
        <5>2. CASE p[1] \in bad
          BY <2>1, <4>1, <5>2
        <5>3. QED
          BY <1>d, <2>2, <4>1, <5>1, <5>2
      <4>2. QED
        BY <1>w, <2>1, <2>4, <3>1, <4>1
    <3>2. QED
      BY <3>g, <3>1 DEF TermInv
  <2>7. QED
    BY <2>1, <2>5, <2>6 DEF LivesInv, FinalInv
<1>23. ASSUME NEW bad \in SUBSET Ids, NEW worse \in SUBSET Pids, ShutdownKill(bad, worse)
       PROVE  LivesInv'
  <2> DEFINE left == {id \in Ids : Live(id)}
             sent == left \ bad
             armed == Arm(ledger, ArmedBy(sent))
             gs == (DOMAIN armed \ worse) \cup ArmedBy(sent)
             ls == {Pid(id) : id \in sent}
  <2>1. /\ procs' = [id \in Ids |-> IF id \in sent THEN [procs[id] EXCEPT !.st = "exiting"]
                                                  ELSE procs[id]]
        /\ ledger' = [p \in DOMAIN armed |-> [armed[p] EXCEPT !.killed = TRUE]]
        /\ missed' = missed \cup {<<Pid(id), "signal">> : id \in bad}
                             \cup {<<p, "force">> : p \in worse}
        /\ KillAll(gs, ls)
        /\ phase = "termwait" /\ phase' = "final" /\ bad \subseteq left
    BY <1>23 DEF ShutdownKill
  <2>2. sent \in SUBSET {id \in Ids : Live(id)} /\ \A id \in Ids : Live(id) => id \in sent \/ id \in bad
    OBVIOUS
  <2>4. DOMAIN armed = DOMAIN ledger \cup ArmedBy(sent)
    BY DEF Arm
  <2>5. DOMAIN ledger' = DOMAIN armed
    BY <2>1
  <2>6. \A p \in DOMAIN ledger : p \in gs \/ p \in worse
    BY <2>4
  <2>7. \A id \in sent : Pid(id) \in ls
    OBVIOUS
  <2> HIDE DEF left, sent, armed, gs, ls
  <2>8. \A k \in Ids : /\ procs'[k].gen = procs[k].gen /\ procs'[k].group = procs[k].group
                       /\ procs'[k].st = IF k \in sent THEN "exiting" ELSE procs[k].st
    BY <1>e, <2>1, <2>2
  <2>9. /\ leaders' = leaders \ (gs \cup ls)
        /\ \A p \in Pids : desc'[p] \in {"none", desc[p]}
        /\ \A p \in Pids : p \in gs => desc'[p] \notin {"quiet", "loud"}
    BY <1>0, <2>1, KillAllShape
  <2>10. OneLiveGeneration' /\ StartedInv' /\ LedgerInv'
    BY <1>0, <2>1, <2>2, <2>4, <2>5, <2>8, <2>9, LivesKept DEF Live
  <2>11. FinalInv'
    <3>g. Group' = Group
      BY <2>8 DEF Group
    <3>1. ASSUME NEW p \in Pids, p \in leaders' \/ (p[1] \in Group /\ GroupAlive(p)')
          PROVE  \/ \E why \in {"probe", "force"} : <<p, why>> \in missed'
                 \/ <<p, "signal">> \in missed' /\ (p[1] \in Group => <<p, "term">> \in missed')
      <4>1. p \notin gs
        BY <2>9, <3>1 DEF GroupAlive
      <4>2. GroupAlive(p)
        BY <2>9, <3>1 DEF GroupAlive
      <4>3. CASE p \in DOMAIN ledger
        BY <2>1, <2>6, <4>1, <4>3
      <4>4. CASE <<p, "probe">> \in missed
        BY <2>1, <4>4
      <4>5. CASE p \notin DOMAIN ledger /\ <<p, "probe">> \notin missed
        <5>1. p = Pid(p[1]) /\ Live(p[1]) /\ p[1] \in Ids
          BY <1>d, <1>w, <4>2, <4>5
        <5>2. p[1] \in Group => <<p, "term">> \in missed
          BY <1>0, <2>1, <4>2, <4>5 DEF LivesInv, TermInv
        <5>3. CASE p[1] \in bad
          BY <2>1, <5>1, <5>2, <5>3
        <5>4. CASE p[1] \in sent
          <6>1. p \in ls /\ p \notin leaders'
            BY <2>7, <2>9, <5>1, <5>4
          <6>2. p[1] \in Group /\ p \in ArmedBy(sent)
            BY <3>1, <5>1, <5>4, <6>1 DEF ArmedBy
          <6>3. QED
            BY <4>1, <6>2 DEF gs
        <5>5. QED
          BY <2>2, <5>1, <5>3, <5>4
      <4>6. QED
        BY <4>3, <4>4, <4>5
    <3>2. QED
      BY <3>g, <3>1 DEF FinalInv
  <2>12. QED
    BY <2>1, <2>10, <2>11 DEF LivesInv, TermInv
<1>24. CASE ShutdownDone
  <2>1. /\ phase = "final" /\ phase' = "down"
        /\ UNCHANGED <<procs, leaders, desc, ledger, missed>>
    BY <1>24 DEF ShutdownDone
  <2>2. OneLiveGeneration' /\ StartedInv' /\ LedgerInv'
    BY <1>0, <2>1, LivesKept DEF Live
  <2>3. QED
    BY <1>0, <2>1, <2>2 DEF LivesInv, TermInv, FinalInv, GroupAlive, Group
<1>25. CASE UNCHANGED vars
  BY <1>25, <1>k DEF vars
<1>26. QED
  BY <1>1, <1>2, <1>3, <1>5, <1>6, <1>7, <1>8, <1>9, <1>10, <1>13, <1>14, <1>15, <1>16, <1>20,
     <1>21, <1>22, <1>23, <1>24, <1>25
     DEF Next, Children, Readers, Time, Calls, Tick, Shutdown, ShutdownGoesOn, Down

(* Every step keeps what a drain relies on.                                *)
LEMMA DrainStep == SupervisorIInv /\ [Next]_vars => DrainInv'
<1> SUFFICES ASSUME SupervisorIInv, [Next]_vars PROVE DrainInv'
  OBVIOUS
<1>0. Typed /\ StartedInv /\ DrainInv
  BY TypeParts DEF SupervisorIInv, LivesInv
<1>t. procs \in [Ids -> Proc] /\ main \in Main
  BY <1>0 DEF Typed
<1>i. Idle.pc = "idle"
  BY EmptyTypes
<1>c. Draining => main.cur[1] \in Ids
  <2>1. Draining => \E id \in main.todo : main.cur = <<id>>
    BY <1>0 DEF Typed
  <2>2. QED
    BY <1>t, <2>1 DEF Main
(* the drain goes on, or there is none *)
<1>k. ASSUME main'.pc \in {"drain", "check", "reap"} => Draining /\ main'.cur = main.cur,
             \A id \in Ids : /\ procs'[id].st = procs[id].st /\ procs'[id].gen = procs[id].gen
                             /\ procs'[id].group = procs[id].group,
             leaders' \subseteq leaders, DOMAIN ledger \subseteq DOMAIN ledger'
      PROVE  DrainInv'
  BY <1>0, <1>c, <1>k DEF DrainInv, Draining, Live, Pid, Group
<1>n. ASSUME main'.pc \in {"idle", "poll"} PROVE DrainInv'
  BY <1>n DEF DrainInv, Draining
<1>1. ASSUME NEW id \in Ids,
             \/ ChildWrites(id) \/ ReaderMoves(id) \/ ReaderEnds(id)
             \/ \E how \in {"clean", "bad"} : ChildExits(id, how)
             \/ \E kind \in {"quiet", "loud", "escaped"} : ChildForks(id, kind)
      PROVE DrainInv'
  <2>1. UNCHANGED <<procs, main, ledger>> /\ leaders' \subseteq leaders
    BY <1>1 DEF ChildWrites, ReaderMoves, ReaderEnds, ChildExits, ChildForks
  <2>2. QED
    BY <1>k, <2>1 DEF Draining
<1>2. ASSUME NEW id \in Ids, BackoffPasses(id) PROVE DrainInv'
  <2>1. \A k \in Ids : /\ procs'[k].gen = procs[k].gen /\ procs'[k].group = procs[k].group
                       /\ procs'[k].st = procs[k].st
    BY <1>2, <1>t DEF BackoffPasses, Proc
  <2>2. QED
    BY <1>2, <1>k, <2>1 DEF BackoffPasses, Draining
<1>3. ASSUME NEW p \in Pids, GracePasses(p) PROVE DrainInv'
  <2>1. DOMAIN ledger' = DOMAIN ledger /\ UNCHANGED <<procs, leaders, main>>
    BY <1>3 DEF GracePasses
  <2>2. QED
    BY <1>k, <2>1 DEF Draining
<1>4. CASE DrainBoundPasses
  <2>1. main'.pc = main.pc /\ main'.cur = main.cur /\ UNCHANGED <<procs, leaders, ledger>>
    BY <1>4, <1>t DEF DrainBoundPasses, Main
  <2>2. QED
    BY <1>k, <2>1 DEF Draining
<1>5. ASSUME NEW id \in Ids,
             \/ \E group, ok \in BOOLEAN, policy \in Policies : Spawn(id, group, policy, ok)
             \/ \E sig \in {"term", "kill"} : SignalOp(id, sig)
             \/ Forget(id) \/ TakeEvents(id)
      PROVE  DrainInv'
  BY <1>5, <1>i, <1>n DEF Spawn, SignalOp, Forget, TakeEvents
<1>6. CASE TickDrain
  BY <1>6, <1>n, EmptyTypes DEF TickDrain, Main
<1>7. ASSUME NEW id \in Ids, PollQuiet(id) \/ \E ok \in BOOLEAN : PollRestart(id, ok)
      PROVE  DrainInv'
  <2>1. main' = [main EXCEPT !.todo = @ \ {id}] /\ main.pc = "poll"
    BY <1>7 DEF PollQuiet, PollRestart
  <2>2. main'.pc = "poll"
    BY <1>t, <2>1 DEF Main
  <2>3. QED
    BY <1>n, <2>2
<1>8. ASSUME NEW id \in Ids, PollDead(id) PROVE DrainInv'
  <2>1. /\ Live(id) /\ Pid(id) \notin leaders
        /\ main' = [main EXCEPT !.pc = "drain", !.cur = <<id>>, !.got = FALSE,
                                !.late = FALSE, !.killed = FALSE, !.why = "none"]
        /\ ledger' = Arm(ledger, ArmedBy({id})) /\ UNCHANGED <<procs, leaders>>
    BY <1>8 DEF PollDead
  <2>2. main'.cur[1] = id
    BY <1>t, <2>1 DEF Main
  <2>3. id \in Group => Pid(id) \in DOMAIN ledger'
    BY <2>1 DEF Arm, ArmedBy
  <2>4. QED
    BY <2>1, <2>2, <2>3 DEF DrainInv, Live, Pid, Group
<1>9. CASE DrainTake \/ DrainFinished
  <2>1. main'.cur = main.cur /\ Draining /\ UNCHANGED <<procs, leaders, ledger>>
    BY <1>9, <1>t DEF DrainTake, DrainFinished, Main, Draining
  <2>2. QED
    BY <1>k, <2>1
<1>10. CASE DrainCut \/ DrainAgain
  <2> DEFINE id == main.cur[1]
  <2>1. main'.cur = main.cur /\ Draining /\ UNCHANGED <<procs, ledger>> /\ DrainKill(id)
    BY <1>10, <1>t DEF DrainCut, DrainAgain, Main, Draining
  <2>2. leaders' \subseteq leaders
    BY <2>1 DEF DrainKill, KillAll
  <2>3. QED
    BY <1>k, <2>1, <2>2
<1>11. CASE Reap
  BY <1>11, <1>n, EmptyTypes DEF Reap, Main
<1>12. ASSUME NEW bad \in SUBSET DOMAIN ledger, NEW site \in {"none", "probe", "kill"},
              TickLedger(bad, site)
       PROVE  DrainInv'
  BY <1>12, <1>i, <1>n DEF TickLedger
<1>13. ASSUME NEW bad \in SUBSET Ids, ShutdownTerm(bad) PROVE DrainInv'
  BY <1>13, <1>i, <1>n DEF ShutdownTerm
<1>14. ASSUME NEW bad \in SUBSET Ids, NEW worse \in SUBSET Pids, ShutdownKill(bad, worse)
       PROVE  DrainInv'
  BY <1>14, <1>i, <1>n DEF ShutdownKill
<1>15. CASE ShutdownDone
  BY <1>15, <1>i, <1>n DEF ShutdownDone
<1>16. CASE UNCHANGED vars
  BY <1>16, <1>k DEF vars, Draining
<1>17. QED
  BY <1>1, <1>2, <1>3, <1>4, <1>5, <1>6, <1>7, <1>8, <1>9, <1>10, <1>11, <1>12, <1>13, <1>14,
     <1>15, <1>16
     DEF Next, Children, Readers, Time, Calls, Tick, Shutdown, ShutdownGoesOn, Down

(* The session starts with nothing.                                        *)
LEMMA SupervisorInit == Init => SupervisorIInv
<1> SUFFICES ASSUME Init PROVE SupervisorIInv
  OBVIOUS
<1>i. Idle \in Main /\ Idle.pc = "idle" /\ NoOut \in Pipeline /\ NoEvent \in Event
  BY EmptyTypes
<1>1. Typed
  <2>1. procs \in [Ids -> Proc]
    BY ConstantsAssumption DEF Init, Proc, Policies
  <2>2. QED
    BY <1>i, <2>1 DEF Init, Typed, Draining
<1>2. \A id \in Ids : procs[id].st = "none" /\ procs[id].gen = 0
  BY DEF Init
<1>3. LivesInv
  BY <1>2 DEF Init, LivesInv, OneLiveGeneration, StartedInv, LedgerInv, TermInv, FinalInv
<1>4. DrainInv
  BY <1>i DEF Init, DrainInv, Draining
<1>5. QED
  BY <1>1, <1>3, <1>4, TypeParts DEF SupervisorIInv

(* Every step keeps the whole invariant.                                   *)
LEMMA SupervisorStep == SupervisorIInv /\ [Next]_vars => SupervisorIInv'
<1>1. Typed' => (TypeOK /\ main \in Main)'
  BY TypeParts, PTL
<1>2. QED
  BY <1>1, SupervisorTypeStep, LivesStep, DrainStep DEF SupervisorIInv

(* The thread finds its records true in every state: at most one           *)
(* generation of a process is alive, none of a process that ended or was   *)
(* forgotten, and a shutdown leaves no child and no member of a signalled  *)
(* group alive unless every kill that should have ended it failed          *)
(* (start_generation, poll_one, tick_reap_ledger and shutdown of           *)
(* src/src/process.rs).                                                    *)
THEOREM NothingLeftBehind == Spec => []SupervisorInv
<1>1. SupervisorIInv => SupervisorInv
  <2>1. FinalInv => ShutdownLeavesNothing
    BY DEF FinalInv, ShutdownLeavesNothing
  <2>2. QED
    BY <2>1 DEF SupervisorIInv, LivesInv, SupervisorInv
<1>2. QED
  BY <1>1, SupervisorInit, SupervisorStep, PTL DEF Spec

(* No generation starts once a shutdown has begun or its process was       *)
(* forgotten (spawn, maybe_restart).                                       *)
THEOREM NothingStartsLate == Spec => NoLateStart
<1> DEFINE Starts == \A id \in Ids : procs'[id].gen # procs[id].gen =>
                        /\ phase = "up"
                        /\ procs[id].st = "none" \/ (procs[id].st = "terminated"
                                                     /\ Should(id, procs[id].how))
<1>1. ASSUME SupervisorIInv, [Next]_vars PROVE [Starts]_vars
  <2>t. procs \in [Ids -> Proc] /\ Typed
    BY <1>1, TypeParts DEF SupervisorIInv, Typed
  <2>k. ASSUME procs' = procs PROVE Starts
    BY <2>k
  <2>1. ASSUME NEW id \in Ids,
               \/ ChildWrites(id) \/ ReaderMoves(id) \/ ReaderEnds(id) \/ PollDead(id)
               \/ \E how \in {"clean", "bad"} : ChildExits(id, how)
               \/ \E kind \in {"quiet", "loud", "escaped"} : ChildForks(id, kind)
               \/ TakeEvents(id)
        PROVE Starts
    BY <2>1, <2>k DEF ChildWrites, ReaderMoves, ReaderEnds, ChildExits, ChildForks, PollDead,
                      TakeEvents
  <2>2. ASSUME NEW id \in Ids,
               BackoffPasses(id) \/ Forget(id) \/ PollQuiet(id)
               \/ \E sig \in {"term", "kill"} : SignalOp(id, sig)
        PROVE Starts
    <3>1. \A k \in Ids : procs'[k].gen = procs[k].gen
      <4>1. CASE BackoffPasses(id)
        BY <4>1, <2>t DEF BackoffPasses, Proc
      <4>2. CASE Forget(id)
        BY <4>2, <2>t DEF Forget, Proc
      <4>3. CASE PollQuiet(id)
        BY <4>3, <2>t DEF PollQuiet, Proc
      <4>4. CASE \E sig \in {"term", "kill"} : SignalOp(id, sig)
        <5>1. procs' = [procs EXCEPT ![id].st = "exiting"]
          BY <4>4 DEF SignalOp
        <5>2. QED
          BY <5>1, <2>t DEF Proc
      <4>5. QED
        BY <2>2, <4>1, <4>2, <4>3, <4>4
    <3>2. QED
      BY <3>1
  <2>3. CASE \/ DrainBoundPasses \/ TickDrain \/ DrainTake \/ DrainFinished \/ DrainCut
             \/ DrainAgain \/ ShutdownDone \/ UNCHANGED vars
             \/ \E p \in Pids : GracePasses(p)
             \/ \E bad \in SUBSET DOMAIN ledger, site \in {"none", "probe", "kill"} :
                    TickLedger(bad, site)
    BY <2>3, <2>k DEF DrainBoundPasses, TickDrain, DrainTake, DrainFinished, DrainCut,
                      DrainAgain, ShutdownDone, vars, GracePasses, TickLedger
  <2>4. CASE Reap
    <3>1. \A k \in Ids : procs'[k].gen = procs[k].gen
      BY <2>4, <2>t DEF Reap, Proc
    <3>2. QED
      BY <3>1
  <2>5. CASE \/ \E bad \in SUBSET Ids : ShutdownTerm(bad)
             \/ \E bad \in SUBSET Ids, worse \in SUBSET Pids : ShutdownKill(bad, worse)
    <3>1. \A k \in Ids : procs'[k].gen = procs[k].gen
      <4>1. PICK sent : procs' = [id \in Ids |-> IF id \in sent
                                       THEN [procs[id] EXCEPT !.st = "exiting"] ELSE procs[id]]
        <5>1. CASE \E bad \in SUBSET Ids : ShutdownTerm(bad)
          BY <5>1 DEF ShutdownTerm
        <5>2. CASE \E bad \in SUBSET Ids, worse \in SUBSET Pids : ShutdownKill(bad, worse)
          BY <5>2 DEF ShutdownKill
        <5>3. QED
          BY <2>5, <5>1, <5>2
      <4>2. QED
        BY <2>t, <4>1 DEF Proc
    <3>2. QED
      BY <3>1
  <2>6. ASSUME NEW id \in Ids, NEW group \in BOOLEAN, NEW policy \in Policies, NEW ok \in BOOLEAN,
               Spawn(id, group, policy, ok)
        PROVE  Starts
    <3>1. phase = "up" /\ procs[id].st = "none"
      BY <2>6 DEF Spawn
    <3>2. \A k \in Ids \ {id} : procs'[k] = procs[k]
      BY <2>6, <2>t DEF Spawn, StartGeneration
    <3>3. QED
      BY <3>1, <3>2
  <2>7. ASSUME NEW id \in Ids, NEW ok \in BOOLEAN, PollRestart(id, ok) PROVE Starts
    <3>1. phase = "up" /\ procs[id].st = "terminated" /\ Should(id, procs[id].how)
      BY <2>7 DEF PollRestart
    <3>2. \A k \in Ids \ {id} : procs'[k] = procs[k]
      BY <2>7, <2>t DEF PollRestart, StartGeneration
    <3>3. QED
      BY <3>1, <3>2
  <2>8. QED
    BY <1>1, <2>1, <2>2, <2>3, <2>4, <2>5, <2>6, <2>7
       DEF Next, Children, Readers, Time, Calls, Tick, Shutdown, ShutdownGoesOn, Down
<1>2. QED
  BY <1>1, SupervisorInit, SupervisorStep, PTL DEF Spec, NoLateStart

-----------------------------------------------------------------------------
(* The story of a process.                                                 *)

(* An event's place is a number, and says what the event is.               *)
LEMMA RankType ==
  ASSUME NEW e \in Event
  PROVE  /\ Rank(e) \in Nat /\ e.gen \in Nat
         /\ e.kind = "restarting" => Rank(e) = 4 * e.gen
         /\ e.kind = "started" => Rank(e) = 4 * e.gen + 1
         /\ e.kind = "output" => Rank(e) = 4 * e.gen + 2
         /\ e.kind = "ended" => Rank(e) = 4 * e.gen + 3
         /\ e.kind \in Kinds
  BY ConstantsAssumption DEF Event, Kinds, Rank

(* A concatenation is in order when its halves are, and one precedes the   *)
(* other.                                                                  *)
LEMMA SortedConcat ==
  ASSUME NEW s \in Seq(Event), NEW t \in Seq(Event)
  PROVE  Sorted(s \o t) <=> Sorted(s) /\ Sorted(t) /\ Precedes(s, t)
<1> DEFINE m == Len(s)
           n == Len(t)
<1>1. /\ m \in Nat /\ n \in Nat /\ Len(s \o t) = m + n
      /\ \A i \in 1..m : (s \o t)[i] = s[i]
      /\ \A j \in 1..n : (s \o t)[m + j] = t[j]
  OBVIOUS
<1>2. ASSUME Sorted(s \o t) PROVE Sorted(s) /\ Sorted(t) /\ Precedes(s, t)
  <2>1. ASSUME NEW i \in 1..m, NEW j \in 1..m, i < j PROVE Before(s[i], s[j])
    <3>1. i \in 1..(m + n) /\ j \in 1..(m + n)
      BY <1>1
    <3>2. Before((s \o t)[i], (s \o t)[j])
      BY <1>1, <1>2, <2>1, <3>1 DEF Sorted
    <3>3. QED
      BY <1>1, <3>2
  <2>2. ASSUME NEW i \in 1..n, NEW j \in 1..n, i < j PROVE Before(t[i], t[j])
    <3>1. m + i \in 1..(m + n) /\ m + j \in 1..(m + n) /\ m + i < m + j
      BY <1>1, <2>2
    <3>2. Before((s \o t)[m + i], (s \o t)[m + j])
      BY <1>1, <1>2, <3>1 DEF Sorted
    <3>3. QED
      BY <1>1, <3>2
  <2>3. ASSUME NEW i \in 1..m, NEW j \in 1..n PROVE Before(s[i], t[j])
    <3>1. i \in 1..(m + n) /\ m + j \in 1..(m + n) /\ i < m + j
      BY <1>1
    <3>2. Before((s \o t)[i], (s \o t)[m + j])
      BY <1>1, <1>2, <3>1 DEF Sorted
    <3>3. QED
      BY <1>1, <3>2
  <2>4. QED
    BY <2>1, <2>2, <2>3 DEF Sorted, Precedes
<1>3. ASSUME Sorted(s), Sorted(t), Precedes(s, t) PROVE Sorted(s \o t)
  <2>1. ASSUME NEW i \in 1..(m + n), NEW j \in 1..(m + n), i < j
        PROVE  Before((s \o t)[i], (s \o t)[j])
    <3>1. CASE j <= m
      <4>1. i \in 1..m /\ j \in 1..m
        BY <1>1, <2>1, <3>1
      <4>2. QED
        BY <1>1, <1>3, <2>1, <4>1 DEF Sorted
    <3>2. CASE i <= m /\ m < j
      <4>1. i \in 1..m /\ j - m \in 1..n /\ j = m + (j - m)
        BY <1>1, <2>1, <3>2
      <4>2. (s \o t)[j] = t[j - m]
        BY <1>1, <4>1
      <4>3. QED
        BY <1>1, <1>3, <4>1, <4>2 DEF Precedes
    <3>3. CASE m < i
      <4>1. i - m \in 1..n /\ j - m \in 1..n /\ i = m + (i - m) /\ j = m + (j - m) /\ i - m < j - m
        BY <1>1, <2>1, <3>3
      <4>2. (s \o t)[j] = t[j - m] /\ (s \o t)[i] = t[i - m]
        BY <1>1, <4>1
      <4>3. QED
        BY <1>3, <4>1, <4>2 DEF Sorted
    <3>4. QED
      BY <1>1, <2>1, <3>1, <3>2, <3>3
  <2>2. QED
    BY <1>1, <2>1 DEF Sorted
<1>4. QED
  BY <1>2, <1>3

(* What holds of a concatenation holds of its halves, and the converse.    *)
LEMMA UpToConcat ==
  ASSUME NEW s \in Seq(Event), NEW t \in Seq(Event), NEW n
  PROVE  UpTo(s \o t, n) <=> UpTo(s, n) /\ UpTo(t, n)
<1>1. /\ Len(s) \in Nat /\ Len(t) \in Nat /\ Len(s \o t) = Len(s) + Len(t)
      /\ \A i \in 1..Len(s) : (s \o t)[i] = s[i]
      /\ \A j \in 1..Len(t) : (s \o t)[Len(s) + j] = t[j]
  OBVIOUS
<1>2. ASSUME UpTo(s \o t, n) PROVE UpTo(s, n) /\ UpTo(t, n)
  <2>1. \A i \in 1..Len(s) : i \in 1..Len(s \o t)
    BY <1>1
  <2>2. \A j \in 1..Len(t) : Len(s) + j \in 1..Len(s \o t)
    BY <1>1
  <2>3. ASSUME NEW i \in 1..Len(s) PROVE Rank(s[i]) <= n
    BY <1>1, <1>2, <2>1 DEF UpTo
  <2>4. ASSUME NEW j \in 1..Len(t) PROVE Rank(t[j]) <= n
    <3>1. Rank((s \o t)[Len(s) + j]) <= n
      BY <1>2, <2>2 DEF UpTo
    <3>2. QED
      BY <1>1, <3>1
  <2>5. QED
    BY <2>3, <2>4 DEF UpTo
<1>3. ASSUME UpTo(s, n), UpTo(t, n) PROVE UpTo(s \o t, n)
  <2>1. ASSUME NEW i \in 1..Len(s \o t) PROVE Rank((s \o t)[i]) <= n
    <3>1. CASE i <= Len(s)
      BY <1>1, <1>3, <3>1 DEF UpTo
    <3>2. CASE Len(s) < i
      <4>1. i - Len(s) \in 1..Len(t) /\ i = Len(s) + (i - Len(s))
        BY <1>1, <3>2
      <4>2. (s \o t)[i] = t[i - Len(s)]
        BY <1>1, <4>1
      <4>3. QED
        BY <1>3, <4>1, <4>2 DEF UpTo
    <3>3. QED
      BY <1>1, <3>1, <3>2
  <2>2. QED
    BY <2>1 DEF UpTo
<1>4. QED
  BY <1>2, <1>3

(* A longer bound is a bound.                                              *)
LEMMA UpToMore ==
  ASSUME NEW s \in Seq(Event), NEW m \in Nat, NEW n \in Nat, m <= n, UpTo(s, m)
  PROVE  UpTo(s, n)
<1>1. ASSUME NEW i \in 1..Len(s) PROVE Rank(s[i]) <= n
  <2>1. Rank(s[i]) \in Nat /\ Rank(s[i]) <= m
    BY RankType DEF UpTo
  <2>2. QED
    BY <2>1
<1>2. QED
  BY <1>1 DEF UpTo

(* An event that comes after a story's bound goes at its end; output may   *)
(* also come where output was the last.                                    *)
LEMMA Appended ==
  ASSUME NEW s \in Seq(Event), NEW e \in Event, NEW m \in Nat, Sorted(s), UpTo(s, m),
         m < Rank(e) \/ (m = Rank(e) /\ e.kind = "output")
  PROVE  /\ s \o <<e>> \in Seq(Event)
         /\ Sorted(s \o <<e>>) /\ UpTo(s \o <<e>>, Rank(e))
<1>1. <<e>> \in Seq(Event) /\ Len(<<e>>) = 1 /\ <<e>>[1] = e
  OBVIOUS
<1>2. Rank(e) \in Nat
  BY RankType
<1>3. Sorted(<<e>>) /\ UpTo(<<e>>, Rank(e))
  BY <1>1, <1>2 DEF Sorted, UpTo
<1>4. Precedes(s, <<e>>)
  <2>1. ASSUME NEW i \in 1..Len(s) PROVE Before(s[i], e)
    <3>1. s[i] \in Event
      OBVIOUS
    <3>2. /\ Rank(s[i]) \in Nat /\ Rank(s[i]) <= m
      BY <3>1, RankType DEF UpTo
    <3>3. CASE Rank(s[i]) < Rank(e)
      BY <3>3 DEF Before
    <3>4. CASE Rank(s[i]) = Rank(e)
      <4>1. e.kind = "output"
        BY <1>2, <3>2, <3>4
      <4>2. s[i].kind = "output"
        <5> DEFINE a == s[i]
        <5>1. /\ a \in Event /\ Rank(a) = Rank(e)
          BY <3>1, <3>4
        <5> HIDE DEF a
        <5>2. Rank(e) = 4 * e.gen + 2 /\ e.gen \in Nat
          BY <4>1, RankType
        <5>3. /\ a.gen \in Nat /\ a.kind \in Kinds
              /\ a.kind = "restarting" => Rank(a) = 4 * a.gen
              /\ a.kind = "started" => Rank(a) = 4 * a.gen + 1
              /\ a.kind = "ended" => Rank(a) = 4 * a.gen + 3
          BY <5>1, RankType
        <5>4. a.kind = "output"
          BY <5>1, <5>2, <5>3 DEF Kinds
        <5>5. QED
          BY <5>4 DEF a
      <4>3. QED
        BY <3>4, <4>2 DEF Before
    <3>5. QED
      BY <1>2, <3>2, <3>3, <3>4
  <2>2. QED
    BY <1>1, <2>1 DEF Precedes
<1>5. UpTo(s, Rank(e))
  BY <1>2, UpToMore
<1> DEFINE t == <<e>>
<1>6. t \in Seq(Event) /\ Sorted(t) /\ UpTo(t, Rank(e)) /\ Precedes(s, t)
  BY <1>1, <1>3, <1>4
<1> HIDE DEF t
<1>7. s \o t \in Seq(Event) /\ Sorted(s \o t) /\ UpTo(s \o t, Rank(e))
  BY <1>5, <1>6, SortedConcat, UpToConcat
<1>8. QED
  BY <1>7 DEF t

(* Events concatenate in any grouping.                                     *)
LEMMA ConcatAssoc ==
  ASSUME NEW s \in Seq(Event), NEW t \in Seq(Event), NEW u \in Seq(Event)
  PROVE  (s \o t) \o u = s \o (t \o u)
  OBVIOUS

(* No events, before others or after them, change nothing.                 *)
LEMMA ConcatNone ==
  ASSUME NEW s \in Seq(Event)
  PROVE  s \o <<>> = s /\ <<>> \o s = s
  OBVIOUS

(* To append an event is to concatenate it.                                *)
LEMMA AppendConcat ==
  ASSUME NEW s \in Seq(Event), NEW e \in Event
  PROVE  Append(s, e) = s \o <<e>>
  OBVIOUS

(* The parts of a story are events, and its bound is a number.             *)
LEMMA StoryTypes ==
  ASSUME Typed, NEW id \in Ids
  PROVE  /\ told[id] \in Event /\ <<told[id]>> \in Seq(Event)
         /\ pending[id] \in Seq(Event) /\ evq[id] \in Seq(Event)
         /\ <<told[id]>> \o pending[id] \in Seq(Event) /\ Story(id) \in Seq(Event)
         /\ Reached(procs[id]) \in Nat
<1>1. told[id] \in Event /\ pending[id] \in Seq(Event) /\ evq[id] \in Seq(Event)
  BY DEF Typed
<1>2. <<told[id]>> \in Seq(Event)
  BY <1>1
<1>3. Reached(procs[id]) \in Nat
  <2>1. /\ procs[id].st \in {"none", "running", "exiting", "terminated", "forgotten"}
        /\ procs[id].gen \in Nat /\ MaxGen \in Nat
    BY ConstantsAssumption DEF Typed, Proc
  <2>2. QED
    BY <2>1 DEF Reached
<1>4. QED
  BY <1>1, <1>2, <1>3 DEF Story

(* A tick's output event comes where the generation has come.              *)
LEMMA OutputType ==
  ASSUME Typed, NEW id \in Ids, NEW some \in BOOLEAN, NEW s \in Seq(Event), Live(id),
         Sorted(s), UpTo(s, Reached(procs[id]))
  PROVE  /\ s \o Output(id, some) \in Seq(Event) /\ Output(id, some) \in Seq(Event)
         /\ Sorted(s \o Output(id, some)) /\ UpTo(s \o Output(id, some), Reached(procs[id]))
<1> DEFINE e == Ev("output", procs[id].gen)
<1>1. e \in Event /\ e.kind = "output" /\ e.gen = procs[id].gen /\ procs[id].gen \in Nat
  BY ConstantsAssumption DEF Typed, Proc, Ev, Event, Kinds
<1>2. Reached(procs[id]) = 4 * procs[id].gen + 2 /\ Reached(procs[id]) \in Nat
  BY <1>1 DEF Live, Reached
<1>3. Rank(e) = Reached(procs[id])
  <2> HIDE DEF e
  <2>1. QED
    BY <1>1, <1>2, RankType
<1>4. CASE some
  <2>1. Output(id, some) = <<e>>
    BY <1>4 DEF Output
  <2> HIDE DEF e
  <2>2. s \o <<e>> \in Seq(Event) /\ Sorted(s \o <<e>>) /\ UpTo(s \o <<e>>, Rank(e))
    BY <1>1, <1>2, <1>3, Appended
  <2>3. QED
    BY <1>1, <1>3, <2>1, <2>2
<1>5. CASE ~some
  BY <1>5, ConcatNone DEF Output
<1>6. QED
  BY <1>4, <1>5

(* Every step keeps the stories in order.                                  *)
LEMMA StoryStep == SupervisorIInv /\ StoryInv /\ [Next]_vars => StoryInv'
<1> SUFFICES ASSUME SupervisorIInv, StoryInv, [Next]_vars PROVE StoryInv'
  OBVIOUS
<1>0. Typed /\ StartedInv /\ DrainInv
  BY TypeParts DEF SupervisorIInv, LivesInv
<1>t. /\ procs \in [Ids -> Proc] /\ main \in Main /\ told \in [Ids -> Event]
      /\ evq \in [Ids -> Seq(Event)] /\ pending \in [Ids -> Seq(Event)]
  BY <1>0 DEF Typed
<1>i. Idle \in Main /\ Idle.pc = "idle"
  BY EmptyTypes
<1>y. Typed'
  BY SupervisorTypeStep
<1>s. \A id \in Ids : Consistent(id)
  BY DEF StoryInv
(* what is not touched stays consistent *)
<1>k. ASSUME NEW id \in Ids, told'[id] = told[id], pending'[id] = pending[id],
             evq'[id] = evq[id], procs'[id].gen = procs[id].gen,
             procs'[id].st = procs[id].st \/ (Live(id) /\ procs'[id].st = "exiting")
      PROVE  Consistent(id)'
  <2>1. Story(id)' = Story(id)
    BY <1>k DEF Story
  <2>2. Reached(procs'[id]) = Reached(procs[id])
    <3>1. CASE procs'[id].st = procs[id].st
      BY <1>k, <3>1 DEF Reached
    <3>2. CASE Live(id) /\ procs'[id].st = "exiting"
      BY <1>k, <3>2 DEF Reached, Live
    <3>3. QED
      BY <1>k, <3>1, <3>2
  <2>3. QED
    BY <1>s, <2>1, <2>2 DEF Consistent
<1>m. ASSUME main'.pc # "idle" => main.pc # "idle" /\ main'.todo \subseteq main.todo,
             evq' = evq
      PROVE  main'.pc # "idle" => \A id \in main'.todo : evq'[id] = <<>>
  BY <1>m DEF StoryInv
(* a step that moves no event *)
<1>q. ASSUME UNCHANGED <<told, pending, evq>>,
             \A id \in Ids : /\ procs'[id].gen = procs[id].gen
                             /\ procs'[id].st = procs[id].st
                                \/ (Live(id) /\ procs'[id].st = "exiting"),
             main'.pc # "idle" => main.pc # "idle" /\ main'.todo \subseteq main.todo
      PROVE  StoryInv'
  <2>1. \A id \in Ids : Consistent(id)'
    BY <1>k, <1>q
  <2>2. QED
    BY <1>m, <1>q, <2>1 DEF StoryInv
<1>1. ASSUME NEW id \in Ids,
             \/ ChildWrites(id) \/ ReaderMoves(id) \/ ReaderEnds(id)
             \/ \E how \in {"clean", "bad"} : ChildExits(id, how)
             \/ \E kind \in {"quiet", "loud", "escaped"} : ChildForks(id, kind)
      PROVE StoryInv'
  BY <1>1, <1>q DEF ChildWrites, ReaderMoves, ReaderEnds, ChildExits, ChildForks
<1>2. ASSUME NEW id \in Ids, BackoffPasses(id) PROVE StoryInv'
  <2>1. \A k \in Ids : procs'[k].gen = procs[k].gen /\ procs'[k].st = procs[k].st
    BY <1>2, <1>t DEF BackoffPasses, Proc
  <2>2. QED
    BY <1>2, <1>q, <2>1 DEF BackoffPasses
<1>3. ASSUME NEW p \in Pids, GracePasses(p) PROVE StoryInv'
  BY <1>3, <1>q DEF GracePasses
<1>4. CASE DrainBoundPasses \/ DrainTake \/ DrainFinished \/ DrainCut \/ DrainAgain
  <2>1. main'.todo = main.todo /\ main.pc # "idle" /\ UNCHANGED <<procs, told, pending, evq>>
    BY <1>4, <1>t DEF DrainBoundPasses, DrainTake, DrainFinished, DrainCut, DrainAgain, Main
  <2>2. QED
    BY <1>q, <2>1
<1>5. ASSUME NEW id \in Ids, NEW sig \in {"term", "kill"}, SignalOp(id, sig) PROVE StoryInv'
  <2>1. procs' = [procs EXCEPT ![id].st = "exiting"] /\ Live(id)
    BY <1>5 DEF SignalOp
  <2>2. \A k \in Ids : /\ procs'[k].gen = procs[k].gen
                       /\ procs'[k].st = IF k = id THEN "exiting" ELSE procs[k].st
    BY <1>t, <2>1 DEF Proc
  <2>3. QED
    BY <1>5, <1>i, <1>q, <2>1, <2>2 DEF SignalOp
<1>6. CASE \/ \E bad \in SUBSET Ids : ShutdownTerm(bad)
           \/ \E bad \in SUBSET Ids, worse \in SUBSET Pids : ShutdownKill(bad, worse)
  <2>1. PICK sent \in SUBSET {id \in Ids : Live(id)} :
                procs' = [id \in Ids |-> IF id \in sent
                                         THEN [procs[id] EXCEPT !.st = "exiting"] ELSE procs[id]]
    <3>1. ASSUME NEW bad \in SUBSET Ids
          PROVE  {id \in Ids : Live(id)} \ bad \in SUBSET {id \in Ids : Live(id)}
      OBVIOUS
    <3>2. CASE \E bad \in SUBSET Ids : ShutdownTerm(bad)
      BY <3>1, <3>2 DEF ShutdownTerm
    <3>3. CASE \E bad \in SUBSET Ids, worse \in SUBSET Pids : ShutdownKill(bad, worse)
      BY <3>1, <3>3 DEF ShutdownKill
    <3>4. QED
      BY <1>6, <3>2, <3>3
  <2>2. \A k \in Ids : /\ procs'[k].gen = procs[k].gen
                       /\ procs'[k].st = IF k \in sent THEN "exiting" ELSE procs[k].st
    BY <1>t, <2>1 DEF Proc
  <2>3. main' = main /\ UNCHANGED <<told, pending, evq>>
    BY <1>6 DEF ShutdownTerm, ShutdownKill
  <2>4. QED
    BY <1>q, <2>1, <2>2, <2>3
<1>7. CASE ShutdownDone \/ UNCHANGED vars
  BY <1>7, <1>q DEF ShutdownDone, vars
<1>8. ASSUME NEW bad \in SUBSET DOMAIN ledger, NEW site \in {"none", "probe", "kill"},
              TickLedger(bad, site)
       PROVE  StoryInv'
  BY <1>8, <1>i, <1>q DEF TickLedger
<1>9. ASSUME NEW id \in Ids, PollQuiet(id) PROVE StoryInv'
  <2>1. \A k \in Ids : procs'[k].gen = procs[k].gen /\ procs'[k].st = procs[k].st
    <3>1. CASE procs' = procs
      BY <3>1
    <3>2. CASE procs' # procs
      <4>1. PICK due : procs' = [procs EXCEPT ![id].due = due]
        BY <1>9, <3>2 DEF PollQuiet
      <4>2. QED
        BY <1>t, <4>1 DEF Proc
    <3>3. QED
      BY <3>1, <3>2
  <2>2. main'.todo \subseteq main.todo /\ main.pc # "idle" /\ UNCHANGED <<told, pending, evq>>
    BY <1>9, <1>t DEF PollQuiet, Main
  <2>3. QED
    BY <1>q, <2>1, <2>2
<1>10. ASSUME NEW id \in Ids, PollDead(id) PROVE StoryInv'
  <2>1. main'.todo = main.todo /\ main.pc # "idle" /\ UNCHANGED <<procs, told, pending, evq>>
    BY <1>10, <1>t DEF PollDead, Main
  <2>2. QED
    BY <1>q, <2>1

(* the others of a step that moves the events of one process *)
<1>o. ASSUME NEW id \in Ids, \A k \in Ids \ {id} : /\ told'[k] = told[k] /\ evq'[k] = evq[k]
                                                   /\ pending'[k] = pending[k]
                                                   /\ procs'[k] = procs[k],
             Consistent(id)',
             main'.pc # "idle" => /\ main.pc # "idle" /\ main'.todo \subseteq main.todo
                                  /\ id \in main'.todo => evq'[id] = evq[id]
      PROVE  StoryInv'
  <2>1. \A k \in Ids : Consistent(k)'
    BY <1>k, <1>o
  <2>2. main'.todo \subseteq Ids
    BY <1>y DEF Typed, Main
  <2>3. main'.pc # "idle" =>
            main.pc # "idle" /\ \A k \in main'.todo : evq'[k] = evq[k] /\ k \in main.todo
    BY <1>o, <2>2
  <2>4. QED
    BY <2>1, <2>3 DEF StoryInv
<1>11. ASSUME NEW id \in Ids, NEW group \in BOOLEAN, NEW policy \in Policies, NEW ok \in BOOLEAN,
             Spawn(id, group, policy, ok)
      PROVE  StoryInv'
  <2> DEFINE e == IF ok THEN Ev("started", 1) ELSE Ev("ended", 1)
  <2>1. /\ procs[id].st = "none" /\ procs[id].gen = 0 /\ main' = main /\ main.pc = "idle"
        /\ UNCHANGED <<told, pending>>
    BY <1>0, <1>11, <1>i DEF Spawn, StartedInv
  <2>2. evq' = [evq EXCEPT ![id] = Append(@, e)]
    BY <1>11, <2>1 DEF Spawn, StartGeneration
  <2>3. /\ \A k \in Ids \ {id} : procs'[k] = procs[k]
        /\ procs'[id].st = IF ok THEN "running" ELSE "forgotten"
        /\ ok => procs'[id].gen = 1
    BY <1>11, <1>t, <2>1 DEF Spawn, StartGeneration, Proc
  <2>4. e \in Event /\ Rank(e) = (IF ok THEN 5 ELSE 7)
    BY ConstantsAssumption DEF Ev, Event, Kinds, Rank
  <2> HIDE DEF e
  <2>5. Story(id)' = Story(id) \o <<e>>
    <3> DEFINE s == <<told[id]>> \o pending[id]
    <3>1. evq'[id] = evq[id] \o <<e>> /\ evq[id] \in Seq(Event) /\ <<e>> \in Seq(Event)
      BY <1>t, <2>2, <2>4, AppendConcat
    <3>2. s \in Seq(Event) /\ Story(id) = s \o evq[id] /\ Story(id)' = s \o evq'[id]
      BY <1>0, <2>1, StoryTypes DEF Story
    <3> DEFINE q == evq[id]
               u == <<e>>
    <3>3. /\ s \in Seq(Event) /\ q \in Seq(Event) /\ u \in Seq(Event)
          /\ Story(id) = s \o q /\ Story(id)' = s \o (q \o u)
      BY <3>1, <3>2
    <3> HIDE DEF s, q, u
    <3>4. Story(id)' = Story(id) \o u
      BY <3>3, ConcatAssoc
    <3>5. QED
      BY <3>4 DEF u
  <2>6. Sorted(Story(id)) /\ UpTo(Story(id), 0) /\ Story(id) \in Seq(Event)
    BY <1>0, <1>s, <2>1, StoryTypes DEF Consistent, Reached
  <2>7. Sorted(Story(id)') /\ UpTo(Story(id)', Rank(e)) /\ Story(id)' \in Seq(Event)
    <3> DEFINE s == Story(id)
    <3>1. s \in Seq(Event) /\ Sorted(s) /\ UpTo(s, 0) /\ 0 < Rank(e) /\ Story(id)' = s \o <<e>>
      BY <2>4, <2>5, <2>6
    <3> HIDE DEF s
    <3>2. QED
      BY <2>4, <3>1, Appended
  <2>8. Reached(procs'[id]) \in Nat /\ Rank(e) <= Reached(procs'[id]) /\ Rank(e) \in Nat
    BY <2>3, <2>4, ConstantsAssumption DEF Reached
  <2>9. Consistent(id)'
    BY <2>7, <2>8, UpToMore DEF Consistent
  <2>10. \A k \in Ids \ {id} : told'[k] = told[k] /\ evq'[k] = evq[k] /\ pending'[k] = pending[k]
    BY <1>t, <2>1, <2>2
  <2>11. QED
    BY <1>o, <2>1, <2>3, <2>9, <2>10
<1>12. ASSUME NEW id \in Ids, Forget(id) PROVE StoryInv'
  <2>1. /\ procs[id].st = "terminated" /\ main' = main /\ main.pc = "idle"
        /\ pending' = [pending EXCEPT ![id] = <<>>] /\ UNCHANGED <<told, evq>>
    BY <1>12, <1>i DEF Forget
  <2>2. /\ \A k \in Ids \ {id} : procs'[k] = procs[k]
        /\ procs'[id].st = "forgotten" /\ procs'[id].gen = procs[id].gen
    BY <1>12, <1>t DEF Forget, Proc
  <2> DEFINE s == <<told[id]>>
             t == pending[id]
             u == evq[id]
             n == Reached(procs[id])
             m == Reached(procs'[id])
  <2>3. s \in Seq(Event) /\ t \in Seq(Event) /\ u \in Seq(Event) /\ s \o t \in Seq(Event)
        /\ n \in Nat
    BY <1>0, StoryTypes
  <2>4. Sorted((s \o t) \o u) /\ UpTo((s \o t) \o u, n)
    BY <1>s DEF Consistent, Story
  <2>5. Story(id)' = s \o u
    <3>1. Story(id)' = (s \o <<>>) \o u
      BY <1>t, <2>1 DEF Story
    <3>2. s \o <<>> = s
      BY <2>3, ConcatNone
    <3>3. QED
      BY <3>1, <3>2
  <2>6. n <= m /\ m \in Nat
    <3>1. procs[id].gen \in 0..MaxGen
      BY <1>t DEF Proc
    <3>2. n = 4 * procs[id].gen + 3 /\ m = 4 * MaxGen + 3
      BY <2>1, <2>2 DEF Reached
    <3>3. QED
      BY <3>1, <3>2, ConstantsAssumption
  <2> HIDE DEF s, t, u, n
  <2>7. Sorted(s \o u) /\ UpTo(s \o u, n) /\ s \o u \in Seq(Event)
    <3>1. /\ Sorted(s \o t) /\ Sorted(u) /\ Precedes(s \o t, u)
          /\ UpTo(s \o t, n) /\ UpTo(u, n)
      BY <2>3, <2>4, SortedConcat, UpToConcat
    <3>2. Sorted(s) /\ UpTo(s, n)
      BY <2>3, <3>1, SortedConcat, UpToConcat
    <3>3. Precedes(s, u)
      <4>1. \A i \in 1..Len(s) : i \in 1..Len(s \o t) /\ (s \o t)[i] = s[i]
        BY <2>3
      <4>2. QED
        BY <3>1, <4>1 DEF Precedes
    <3>4. QED
      BY <2>3, <3>1, <3>2, <3>3, SortedConcat, UpToConcat
  <2>8. Consistent(id)'
    BY <2>3, <2>5, <2>6, <2>7, UpToMore DEF Consistent
  <2>9. \A k \in Ids \ {id} : pending'[k] = pending[k]
    BY <1>t, <2>1
  <2>10. QED
    BY <1>o, <2>1, <2>2, <2>8, <2>9
<1>13. ASSUME NEW id \in Ids, TakeEvents(id) PROVE StoryInv'
  <2>1. /\ pending[id] # <<>> /\ main' = main /\ main.pc = "idle"
        /\ told' = [told EXCEPT ![id] = pending[id][Len(pending[id])]]
        /\ pending' = [pending EXCEPT ![id] = <<>>] /\ UNCHANGED <<procs, evq>>
    BY <1>13, <1>i DEF TakeEvents
  <2> DEFINE s == <<told[id]>>
             t == pending[id]
             u == evq[id]
             n == Reached(procs[id])
             e == t[Len(t)]
             v == <<e>>
  <2>3. s \in Seq(Event) /\ t \in Seq(Event) /\ u \in Seq(Event) /\ s \o t \in Seq(Event)
        /\ n \in Nat
    BY <1>0, StoryTypes
  <2>4. Sorted((s \o t) \o u) /\ UpTo((s \o t) \o u, n)
    BY <1>s DEF Consistent, Story
  <2>e. Len(t) \in 1..Len(t) /\ e \in Event
    BY <2>1, <2>3
  <2>f. /\ v \in Seq(Event) /\ Len(v) = 1 /\ v[1] = e
    BY <2>e
  <2>5. Story(id)' = v \o u
    <3>1. Story(id)' = (v \o <<>>) \o u
      BY <1>t, <2>1 DEF Story
    <3>2. v \o <<>> = v
      BY <2>f, ConcatNone
    <3>3. QED
      BY <3>1, <3>2
  <2> HIDE DEF s, t, u, n, e, v
  <2>6. Len(t) \in Nat /\ e = t[Len(t)]
    BY <2>3 DEF e
  <2>7. Sorted(v \o u) /\ UpTo(v \o u, n)
    <3>1. /\ Sorted(u) /\ Precedes(s \o t, u) /\ UpTo(s \o t, n) /\ UpTo(u, n)
      BY <2>3, <2>4, SortedConcat, UpToConcat
    <3>2. UpTo(t, n)
      BY <2>3, <3>1, UpToConcat
    <3>3. Sorted(v) /\ UpTo(v, n)
      <4>1. Rank(e) <= n
        BY <2>e, <2>6, <3>2 DEF UpTo
      <4>2. QED
        BY <2>f, <4>1 DEF Sorted, UpTo
    <3>4. Precedes(v, u)
      <4>1. /\ Len(s) + Len(t) \in 1..Len(s \o t)
            /\ (s \o t)[Len(s) + Len(t)] = t[Len(t)]
        BY <2>3, <2>e
      <4>2. \A j \in 1..Len(u) : Before(e, u[j])
        BY <2>6, <3>1, <4>1 DEF Precedes
      <4>3. QED
        BY <2>f, <4>2 DEF Precedes
    <3>5. QED
      BY <2>3, <2>f, <3>1, <3>3, <3>4, SortedConcat, UpToConcat
  <2>8. Consistent(id)'
    BY <2>1, <2>5, <2>7 DEF Consistent, n
  <2>9. \A k \in Ids \ {id} : pending'[k] = pending[k] /\ told'[k] = told[k]
    BY <1>t, <2>1
  <2>10. QED
    BY <1>o, <2>1, <2>8, <2>9

<1>14. CASE TickDrain
  <2>1. ASSUME NEW id \in Ids PROVE Consistent(id)'
    <3> DEFINE some == out[id].chan > 0
               o == IF Live(id) THEN Output(id, some) ELSE <<>>
               s == Story(id)
    <3>1. pending'[id] = (pending[id] \o evq[id]) \o o /\ evq'[id] = <<>>
          /\ UNCHANGED <<told, procs>>
      BY <1>14 DEF TickDrain
    <3>2. /\ s \in Seq(Event) /\ Sorted(s) /\ UpTo(s, Reached(procs[id]))
          /\ some \in BOOLEAN
      BY <1>0, <1>s, StoryTypes DEF Consistent
    <3>3. o \in Seq(Event) /\ Sorted(s \o o) /\ UpTo(s \o o, Reached(procs[id]))
      <4> HIDE DEF s, some
      <4>1. CASE Live(id)
        BY <1>0, <3>2, <4>1, OutputType
      <4>2. CASE ~Live(id)
        BY <3>2, <4>2, ConcatNone
      <4>3. QED
        BY <4>1, <4>2
    <3> HIDE DEF o
    <3>4. Story(id)' = s \o o
      <4> DEFINE a == <<told[id]>>
                 b == pending[id]
                 c == evq[id]
      <4>1. a \in Seq(Event) /\ b \in Seq(Event) /\ c \in Seq(Event) /\ s = (a \o b) \o c
        BY <1>0, StoryTypes DEF Story
      <4>2. Story(id)' = (a \o ((b \o c) \o o)) \o <<>>
        BY <3>1 DEF Story
      <4> HIDE DEF a, b, c, s
      <4>3. b \o c \in Seq(Event) /\ (b \o c) \o o \in Seq(Event)
            /\ a \o ((b \o c) \o o) \in Seq(Event)
        BY <3>3, <4>1
      <4>4. Story(id)' = a \o ((b \o c) \o o)
        BY <4>2, <4>3, ConcatNone
      <4>5. a \o ((b \o c) \o o) = (a \o (b \o c)) \o o
        <5> DEFINE d == b \o c
        <5>1. d \in Seq(Event)
          BY <4>3
        <5> HIDE DEF d
        <5>2. a \o (d \o o) = (a \o d) \o o
          BY <3>3, <4>1, <5>1, ConcatAssoc
        <5>3. QED
          BY <5>2 DEF d
      <4>6. a \o (b \o c) = s
        BY <4>1, ConcatAssoc
      <4>7. QED
        BY <4>4, <4>5, <4>6
    <3>5. QED
      BY <3>1, <3>3, <3>4 DEF Consistent
  <2>2. main'.todo \subseteq Ids /\ \A id \in Ids : evq'[id] = <<>>
    BY <1>14, <1>i DEF TickDrain, Main, Managed
  <2>3. QED
    BY <2>1, <2>2 DEF StoryInv
<1>15. ASSUME NEW id \in Ids, NEW ok \in BOOLEAN, PollRestart(id, ok) PROVE StoryInv'
  <2> DEFINE g == procs[id].gen + 1
             e == Ev("restarting", g)
             f == Ev(IF ok THEN "started" ELSE "ended", g)
             s == <<told[id]>>
             t == pending[id]
  <2>1. /\ main.pc = "poll" /\ id \in main.todo /\ procs[id].st = "terminated"
        /\ main' = [main EXCEPT !.todo = @ \ {id}] /\ told' = told
        /\ pending' = [pending EXCEPT ![id] = Append(@, e)]
        /\ evq' = [evq EXCEPT ![id] = Append(@, f)]
        /\ g \in Gens
    BY <1>15 DEF PollRestart, StartGeneration
  <2>2. /\ \A k \in Ids \ {id} : procs'[k] = procs[k]
        /\ procs'[id].st = (IF ok THEN "running" ELSE "terminated") /\ procs'[id].gen = g
    BY <1>15, <1>t DEF PollRestart, StartGeneration
  <2>3. evq[id] = <<>> /\ main'.todo = main.todo \ {id}
    BY <1>t, <2>1 DEF StoryInv, Main
  <2>4. /\ e \in Event /\ Rank(e) = 4 * g /\ g \in Nat /\ 0 < g
        /\ f \in Event /\ Rank(f) = (IF ok THEN 4 * g + 1 ELSE 4 * g + 3)
    BY <2>1, ConstantsAssumption DEF Ev, Event, Kinds, Rank, Gens
  <2>5. procs[id].gen \in Nat /\ procs[id].gen = g - 1
    BY <1>t, ConstantsAssumption DEF Proc
  <2>6. s \in Seq(Event) /\ t \in Seq(Event) /\ s \o t \in Seq(Event)
    BY <1>0, StoryTypes
  <2> HIDE DEF e, f, s, t, g
  <2>7. Sorted(s \o t) /\ UpTo(s \o t, 4 * g - 1)
    <3>1. Story(id) = s \o t
      <4>1. Story(id) = (s \o t) \o <<>>
        BY <2>3 DEF Story, s, t
      <4>2. QED
        BY <2>6, <4>1, ConcatNone
    <3>2. Reached(procs[id]) = 4 * g - 1
      BY <2>1, <2>4, <2>5 DEF Reached
    <3>3. QED
      BY <1>s, <3>1, <3>2 DEF Consistent
  <2>8. /\ (s \o t) \o <<e>> \in Seq(Event) /\ Sorted((s \o t) \o <<e>>)
        /\ UpTo((s \o t) \o <<e>>, Rank(e))
    <3>1. 4 * g - 1 \in Nat /\ 4 * g - 1 < Rank(e)
      BY <2>4
    <3>2. QED
      BY <2>4, <2>6, <2>7, <3>1, Appended
  <2> DEFINE w == (s \o t) \o <<e>>
  <2>9. Sorted(w \o <<f>>) /\ UpTo(w \o <<f>>, Rank(f)) /\ w \o <<f>> \in Seq(Event)
    <3>1. w \in Seq(Event) /\ Sorted(w) /\ UpTo(w, Rank(e))
      BY <2>8
    <3>2. Rank(e) \in Nat /\ Rank(e) < Rank(f)
      BY <2>4
    <3> HIDE DEF w
    <3>3. QED
      BY <2>4, <3>1, <3>2, Appended
  <2>10. Story(id)' = w \o <<f>>
    <3>1. pending'[id] = t \o <<e>> /\ evq'[id] = <<>> \o <<f>>
      BY <1>t, <2>1, <2>3, <2>4, <2>6, AppendConcat DEF t
    <3>2. evq'[id] = <<f>>
      BY <2>4, <3>1, ConcatNone
    <3>3. Story(id)' = (s \o (t \o <<e>>)) \o <<f>>
      BY <2>1, <3>1, <3>2 DEF Story, s
    <3>4. s \o (t \o <<e>>) = w
      <4>1. <<e>> \in Seq(Event)
        BY <2>4
      <4>2. QED
        BY <2>6, <4>1, ConcatAssoc
    <3>5. QED
      BY <3>3, <3>4
  <2> HIDE DEF w
  <2>11. Reached(procs'[id]) \in Nat /\ Rank(f) <= Reached(procs'[id]) /\ Rank(f) \in Nat
    BY <2>2, <2>4 DEF Reached
  <2>12. Consistent(id)'
    BY <2>9, <2>10, <2>11, UpToMore DEF Consistent
  <2>13. \A k \in Ids \ {id} : told'[k] = told[k] /\ evq'[k] = evq[k] /\ pending'[k] = pending[k]
    BY <1>t, <2>1
  <2>14. QED
    BY <1>o, <2>1, <2>2, <2>3, <2>12, <2>13
<1>16. CASE Reap
  <2>0. PICK id \in main.todo : main.cur = <<id>>
    BY <1>0, <1>16 DEF Typed, Draining, Reap
  <2> DEFINE o == Output(id, main.got)
             g == procs[id].gen
             e == Ev("ended", g)
             s == <<told[id]>>
             t == pending[id]
  <2>1. Draining /\ main.pc # "idle" /\ id \in main.todo /\ id \in Ids /\ Live(id)
    <3>1. Draining
      BY <1>16 DEF Reap, Draining
    <3>2. QED
      BY <1>0, <1>t, <2>0, <3>1 DEF DrainInv, Draining, Main
  <2>2. /\ procs' = [procs EXCEPT ![id].st = "terminated", ![id].how = status[id],
                                  ![id].due = Scheduled(id, status[id], @)]
        /\ pending' = [pending EXCEPT ![id] = @ \o o \o <<e>>]
        /\ main' = [Idle EXCEPT !.pc = "poll", !.todo = main.todo \ {id}]
        /\ UNCHANGED <<evq, told>>
    BY <1>16, <2>0 DEF Reap
  <2>3. evq[id] = <<>>
    BY <2>1 DEF StoryInv
  <2>4. /\ e \in Event /\ Rank(e) = 4 * g + 3 /\ g \in Nat /\ main.got \in BOOLEAN
    <3>1. g \in 0..MaxGen /\ main.got \in BOOLEAN
      BY <1>t, <2>1 DEF Proc, Main
    <3>2. QED
      BY <3>1, ConstantsAssumption DEF Ev, Event, Kinds, Rank
  <2>5. s \in Seq(Event) /\ t \in Seq(Event) /\ s \o t \in Seq(Event)
    BY <1>0, <2>1, StoryTypes
  <2>6. Reached(procs[id]) = 4 * g + 2 /\ Consistent(id)
    BY <1>s, <2>1 DEF Live, Reached
  <2>7. Story(id) = (s \o t) \o <<>>
    BY <2>3 DEF Story
  <2>8. main'.todo = main.todo \ {id}
    BY <1>i, <2>2 DEF Main
  <2>9. /\ \A k \in Ids \ {id} : procs'[k] = procs[k] /\ pending'[k] = pending[k]
        /\ procs'[id].st = "terminated" /\ procs'[id].gen = g
        /\ pending'[id] = (t \o o) \o <<e>>
    BY <1>t, <2>1, <2>2 DEF Proc
  <2> HIDE DEF s, t, e
  <2>10. /\ o \in Seq(Event) /\ (s \o t) \o o \in Seq(Event) /\ Sorted((s \o t) \o o)
         /\ UpTo((s \o t) \o o, 4 * g + 2)
    <3> DEFINE w == s \o t
    <3>1. w \in Seq(Event) /\ Sorted(w) /\ UpTo(w, Reached(procs[id]))
      BY <2>5, <2>6, <2>7, ConcatNone DEF Consistent
    <3> HIDE DEF w
    <3>2. /\ o \in Seq(Event) /\ w \o o \in Seq(Event) /\ Sorted(w \o o)
          /\ UpTo(w \o o, Reached(procs[id]))
      BY <1>0, <2>4, <2>1, <3>1, OutputType
    <3>3. QED
      BY <2>6, <3>2 DEF w
  <2> HIDE DEF o, g
  <2>11. /\ Sorted(((s \o t) \o o) \o <<e>>) /\ UpTo(((s \o t) \o o) \o <<e>>, 4 * g + 3)
    <3>1. 4 * g + 2 \in Nat /\ 4 * g + 2 < Rank(e)
      BY <2>4
    <3>2. QED
      BY <2>4, <2>10, <3>1, Appended
  <2>12. Story(id)' = ((s \o t) \o o) \o <<e>>
    <3>1. <<e>> \in Seq(Event) /\ t \o o \in Seq(Event) /\ (t \o o) \o <<e>> \in Seq(Event)
      BY <2>4, <2>5, <2>10
    <3>2. <<told'[id]>> = s /\ evq'[id] = <<>>
      BY <2>2, <2>3 DEF s
    <3>3. Story(id)' = (s \o ((t \o o) \o <<e>>)) \o <<>>
      BY <2>9, <3>2 DEF Story
    <3>4. s \o ((t \o o) \o <<e>>) = (s \o (t \o o)) \o <<e>>
      BY <2>5, <3>1, ConcatAssoc
    <3>5. s \o (t \o o) = (s \o t) \o o
      BY <2>5, <2>10, ConcatAssoc
    <3>6. QED
      BY <2>5, <3>1, <3>3, <3>4, ConcatNone, <3>5
  <2>13. Reached(procs'[id]) = 4 * g + 3
    BY <2>9 DEF Reached
  <2>14. Consistent(id)'
    BY <2>11, <2>12, <2>13 DEF Consistent
  <2>15. QED
    BY <1>o, <2>1, <2>2, <2>8, <2>9, <2>14
<1>17. QED
  BY <1>1, <1>2, <1>3, <1>4, <1>5, <1>6, <1>7, <1>8, <1>9, <1>10, <1>11, <1>12, <1>13, <1>14,
     <1>15, <1>16
     DEF Next, Children, Readers, Time, Calls, Tick, Shutdown, ShutdownGoesOn, Down

(* Nothing has been told of any process at first.                          *)
LEMMA StoryInit == Init => StoryInv
<1> SUFFICES ASSUME Init PROVE StoryInv
  OBVIOUS
<1>1. Typed
  BY SupervisorInit, TypeParts DEF SupervisorIInv
<1>2. ASSUME NEW id \in Ids PROVE Consistent(id)
  <2>1. told[id] = NoEvent /\ pending[id] = <<>> /\ evq[id] = <<>> /\ procs[id].st = "none"
    BY DEF Init
  <2> DEFINE s == <<told[id]>>
  <2>2. s \in Seq(Event) /\ Story(id) = (s \o <<>>) \o <<>>
    BY <1>1, <2>1, StoryTypes DEF Story
  <2>3. Sorted(s) /\ UpTo(s, 0)
    BY <2>1 DEF Sorted, UpTo, NoEvent, Rank
  <2> HIDE DEF s
  <2>4. Story(id) = s
    BY <2>2, ConcatNone
  <2>5. QED
    BY <2>1, <2>3, <2>4 DEF Consistent, Reached
<1>3. QED
  BY <1>2, EmptyTypes DEF StoryInv, Init

(* In every state the events of a process, told, pending and queued, are   *)
(* in the order of its life: start_generation, the byte channels and       *)
(* poll_one of src/src/process.rs meet in pending_events.                  *)
THEOREM EventsInOrder == Spec => []StoryInOrder
<1>1. StoryInv => StoryInOrder
  <2> SUFFICES ASSUME StoryInv PROVE StoryInOrder
    OBVIOUS
  <2>1. \A id \in Ids : Sorted(Story(id))
    BY DEF StoryInv, Consistent
  <2>2. QED
    BY <2>1 DEF Sorted, Before, StoryInOrder
<1>2. QED
  BY <1>1, SupervisorInit, SupervisorStep, StoryInit, StoryStep, PTL DEF Spec
=============================================================================
