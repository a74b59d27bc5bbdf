------------------------- MODULE AsyncRuntimeProofs -------------------------
(* Proofs about AsyncRuntime, for any number of jobs, items, workers, keys  *)
(* and tasks, and any dispatches.                                           *)
EXTENDS AsyncRuntime, SequenceTheorems, TLAPS

USE DEF Outcomes, NoJob

(* What a queue holds after an append and after its head is taken. *)
LEMMA RangeAppend ==
  ASSUME NEW S, NEW s \in Seq(S), NEW x \in S
  PROVE  Range(Append(s, x)) = Range(s) \cup {x}
<1>1. /\ Len(s) \in Nat /\ DOMAIN s = 1..Len(s)
      /\ DOMAIN Append(s, x) = 1..(Len(s) + 1)
  OBVIOUS
<1>2. /\ \A i \in 1..Len(s) : Append(s, x)[i] = s[i]
      /\ Append(s, x)[Len(s) + 1] = x
  OBVIOUS
<1>3. 1..(Len(s) + 1) = 1..Len(s) \cup {Len(s) + 1}
  BY <1>1
<1>4. QED
  BY <1>1, <1>2, <1>3 DEF Range

LEMMA RangeTail ==
  ASSUME NEW S, NEW s \in Seq(S), s # <<>>
  PROVE  /\ Head(s) \in Range(s)
         /\ Range(Tail(s)) \subseteq Range(s)
         /\ Tail(s) \in Seq(S)
         /\ Head(s) \in S
  BY DEF Range

LEMMA RangeType ==
  ASSUME NEW S, NEW s \in Seq(S)
  PROVE  Range(s) \subseteq S
  BY DEF Range

LEMMA RangeEmpty == Range(<<>>) = {}
  BY DEF Range

-----------------------------------------------------------------------------
(* Type correctness, one lemma for each group of actions.                   *)

LEMMA TypeInit == Init => AsyncTypeOK
<1> SUFFICES ASSUME Init PROVE AsyncTypeOK
  OBVIOUS
<1>1. next \in 1..(MaxJobs + 1) /\ \A j \in Jobs : j < next <=> state[j] # "unborn"
  BY BoundsAssumption DEF Init, Jobs
<1>2. /\ spec \in [Jobs -> Load]
      /\ state \in [Jobs -> States]
      /\ pool \in [Jobs -> PoolStates]
  BY DEF Init, Load, Kinds, States, PoolStates
<1>3. /\ buf \in [Jobs -> Seq(1..MaxItems)] /\ delivered \in [Jobs -> Seq(1..MaxItems)]
      /\ bus \in Seq(Reply) /\ settled \in Seq(Jobs) /\ callbacks \in [Jobs -> Seq(Tasks)]
  BY DEF Init
<1>4. emitted \in [Jobs -> 0..MaxItems]
  BY BoundsAssumption DEF Init
<1>5. QED
  BY <1>1, <1>2, <1>3, <1>4 DEF Init, AsyncTypeOK

LEMMA TypeDispatch ==
  ASSUME AsyncTypeOK, NEW load \in Loads, Dispatch(load)
  PROVE  AsyncTypeOK'
<1>1. load \in Load
  BY LoadsAssumption
<1>2. token' \in SUBSET Jobs
  BY DEF AsyncTypeOK, Dispatch
<1>3. supersede' \in [SupKeys -> Jobs \cup {NoJob}]
  BY DEF AsyncTypeOK, Dispatch
<1>4. next' \in 1..(MaxJobs + 1) /\ \A j \in Jobs : j < next' <=> state'[j] # "unborn"
  BY BoundsAssumption DEF AsyncTypeOK, Dispatch, Jobs
<1>5. /\ spec' \in [Jobs -> Load]
      /\ state' \in [Jobs -> States]
      /\ pool' \in [Jobs -> PoolStates]
  BY <1>1 DEF AsyncTypeOK, Dispatch, States, PoolStates
<1>6. QED
  BY <1>2, <1>3, <1>4, <1>5
  DEF AsyncTypeOK, Dispatch, tickVars, luaVars, streamVars

LEMMA TypeTake ==
  ASSUME AsyncTypeOK, NEW js, TakeResult(js)
  PROVE  /\ token' \in SUBSET Jobs
         /\ handoff' \in SUBSET Jobs
         /\ state' \in [Jobs -> States]
         /\ \A j \in Jobs : state'[j] = "unborn" <=> state[j] = "unborn"
  BY DEF AsyncTypeOK, TakeResult, Settled, States

LEMMA TypeUser ==
  ASSUME AsyncTypeOK,
         \/ \E j \in Jobs : Cancel(j)
         \/ \E t \in Tasks, j \in Jobs : Await(t, j) \/ OnComplete(t, j)
  PROVE  AsyncTypeOK'
<1>1. ASSUME NEW j \in Jobs, Cancel(j) PROVE AsyncTypeOK'
  BY <1>1 DEF AsyncTypeOK, Cancel, poolVars, tickVars, luaVars, streamVars
<1>2. ASSUME NEW t \in Tasks, NEW j \in Jobs, Await(t, j) PROVE AsyncTypeOK'
  <2>1. CASE Settled(j)
    <3>1. TakeResult({j}) /\ UNCHANGED parked
      BY <1>2, <2>1 DEF Await
    <3>2. told' \in [Tasks -> {"nothing", "pending"} \cup Outcomes]
      BY <1>2, <2>1 DEF Await, AsyncTypeOK, Status, Settled
    <3>3. uses' \in [Tasks -> Jobs \cup {NoJob}]
      BY <1>2 DEF Await, AsyncTypeOK
    <3>4. QED
      BY <1>2, <3>1, <3>2, <3>3, TypeTake DEF Await, AsyncTypeOK, tickVars, streamVars
  <2>2. CASE ~Settled(j)
    BY <1>2, <2>2 DEF Await, AsyncTypeOK, tickVars, streamVars
  <2>3. QED
    BY <2>1, <2>2
<1>3. ASSUME NEW t \in Tasks, NEW j \in Jobs, OnComplete(t, j) PROVE AsyncTypeOK'
  <2>1. CASE Settled(j)
    <3>1. TakeResult({j}) /\ UNCHANGED callbacks
      BY <1>3, <2>1 DEF OnComplete
    <3>2. told' \in [Tasks -> {"nothing", "pending"} \cup Outcomes]
      BY <1>3, <2>1 DEF OnComplete, AsyncTypeOK, Status, Settled
    <3>3. uses' \in [Tasks -> Jobs \cup {NoJob}]
      BY <1>3 DEF OnComplete, AsyncTypeOK
    <3>4. QED
      BY <1>3, <3>1, <3>2, <3>3, TypeTake DEF OnComplete, AsyncTypeOK, tickVars, streamVars
  <2>2. CASE ~Settled(j)
    <3>1. callbacks' \in [Jobs -> Seq(Tasks)]
      <4>1. Append(callbacks[j], t) \in Seq(Tasks)
        BY DEF AsyncTypeOK
      <4>2. callbacks' = [callbacks EXCEPT ![j] = Append(callbacks[j], t)]
        BY <1>3, <2>2 DEF OnComplete
      <4>3. QED
        BY <4>1, <4>2 DEF AsyncTypeOK
    <3>2. QED
      BY <1>3, <2>2, <3>1 DEF OnComplete, AsyncTypeOK, tickVars, streamVars
  <2>3. QED
    BY <2>1, <2>2
<1>4. QED
  BY <1>1, <1>2, <1>3

LEMMA SendType ==
  ASSUME AsyncTypeOK, NEW j \in Jobs, NEW kind, NEW item,
         \/ kind \in Outcomes /\ item = 0
         \/ kind = "item" /\ item \in 1..MaxItems,
         Send(j, kind, item)
  PROVE  /\ [job |-> j, kind |-> kind, item |-> item] \in Reply
         /\ bus' \in Seq(Reply)
<1>1. [job |-> j, kind |-> kind, item |-> item] \in Reply
  BY DEF Reply
<1>2. QED
  BY <1>1 DEF AsyncTypeOK, Send

LEMMA AnswersType == \A j \in Jobs : Answers(j) \subseteq Outcomes
  BY DEF Answers

LEMMA TypePool ==
  ASSUME AsyncTypeOK, NEW j \in Jobs,
         \/ WorkerStart(j) \/ WorkerEmit(j) \/ WorkerHandOff(j)
         \/ WorkerReply(j) \/ WorkerPanic(j)
         \/ \E outcome \in Outcomes : ExternalComplete(j, outcome)
  PROVE  AsyncTypeOK'
<1> USE DEF PoolStates, pendingVars, tickVars, luaVars, streamVars
<1>1. CASE WorkerStart(j)
  <2>1. bus' \in Seq(Reply)
    BY <1>1, SendType DEF WorkerStart, AsyncTypeOK
  <2>2. pool' \in [Jobs -> PoolStates]
    <3>1. \/ pool' = [pool EXCEPT ![j] = "over"]
          \/ pool' = [pool EXCEPT ![j] = "working"]
      BY <1>1 DEF WorkerStart
    <3>2. pool \in [Jobs -> PoolStates]
      BY DEF AsyncTypeOK
    <3>3. QED
      BY <3>1, <3>2
  <2>3. QED
    BY <1>1, <2>1, <2>2 DEF WorkerStart, AsyncTypeOK
<1>2. CASE WorkerEmit(j)
  <2>1. emitted[j] + 1 \in 1..MaxItems /\ emitted' \in [Jobs -> 0..MaxItems]
    BY <1>2, BoundsAssumption DEF WorkerEmit, AsyncTypeOK
  <2>2. bus' \in Seq(Reply)
    BY <1>2, <2>1, SendType DEF WorkerEmit
  <2>3. QED
    BY <1>2, <2>1, <2>2 DEF WorkerEmit, AsyncTypeOK
<1>3. CASE WorkerHandOff(j)
  BY <1>3 DEF WorkerHandOff, AsyncTypeOK
<1>4. CASE WorkerReply(j)
  <2>1. bus' \in Seq(Reply)
    BY <1>4, SendType, AnswersType DEF WorkerReply
  <2>2. QED
    BY <1>4, <2>1 DEF WorkerReply, AsyncTypeOK
<1>5. CASE WorkerPanic(j)
  BY <1>5 DEF WorkerPanic, AsyncTypeOK
<1>6. ASSUME NEW outcome \in Outcomes, ExternalComplete(j, outcome) PROVE AsyncTypeOK'
  <2>1. bus' \in Seq(Reply)
    BY <1>6, SendType DEF ExternalComplete
  <2>2. QED
    BY <1>6, <2>1 DEF ExternalComplete, AsyncTypeOK
<1>7. QED
  BY <1>1, <1>2, <1>3, <1>4, <1>5, <1>6

LEMMA TypeRecv ==
  ASSUME AsyncTypeOK, TickRecv
  PROVE  AsyncTypeOK'
<1> DEFINE r == Head(bus)
<1>1. r \in Reply /\ bus' \in Seq(Reply)
  BY RangeTail DEF TickRecv, AsyncTypeOK
<1>2. /\ r.job \in Jobs /\ r.kind \in Outcomes \cup {"item"}
      /\ r.kind = "item" => r.item \in 1..MaxItems
  BY <1>1 DEF Reply
<1>3. buf' \in [Jobs -> Seq(1..MaxItems)]
  <2>1. CASE r.kind = "item" /\ state[r.job] # "taken"
    <3>1. Append(buf[r.job], r.item) \in Seq(1..MaxItems)
      BY <1>2, <2>1 DEF AsyncTypeOK
    <3>2. buf' = [buf EXCEPT ![r.job] = Append(buf[r.job], r.item)]
      BY <2>1 DEF TickRecv
    <3>3. QED
      BY <1>2, <3>1, <3>2 DEF AsyncTypeOK
  <2>2. CASE ~(r.kind = "item" /\ state[r.job] # "taken")
    BY <2>2 DEF TickRecv, AsyncTypeOK
  <2>3. QED
    BY <2>1, <2>2
<1>4. /\ state' \in [Jobs -> States]
      /\ \A j \in Jobs : state'[j] = "unborn" <=> state[j] = "unborn"
  BY <1>2 DEF TickRecv, AsyncTypeOK, States, Settles
<1>5. settled' \in Seq(Jobs)
  BY <1>2 DEF TickRecv, AsyncTypeOK
<1>6. QED
  BY <1>1, <1>3, <1>4, <1>5 DEF TickRecv, AsyncTypeOK, luaVars, streamVars

LEMMA TypePrune ==
  ASSUME AsyncTypeOK, TickPrune
  PROVE  AsyncTypeOK'
  BY DEF TickPrune, AsyncTypeOK, poolVars, luaVars, streamVars

LEMMA TypeDeliver ==
  ASSUME AsyncTypeOK, Deliver
  PROVE  AsyncTypeOK'
<1> DEFINE j == Head(settled)
           ws == Waiters(j)
<1>1. j \in Jobs /\ settled' \in Seq(Jobs)
  BY RangeTail DEF Deliver, AsyncTypeOK
<1>2. TakeResult(IF ws = <<>> THEN {} ELSE {j})
  BY DEF Deliver
<1>3. told' \in [Tasks -> {"nothing", "pending"} \cup Outcomes]
  BY DEF Deliver, AsyncTypeOK, Status, Settled
<1>4. callbacks' \in [Jobs -> Seq(Tasks)] /\ parked' \in [Jobs -> Tasks \cup {NoTask}]
  BY <1>1 DEF Deliver, AsyncTypeOK
<1>5. inUser' \in BOOLEAN
  BY DEF Deliver
<1>6. QED
  BY <1>1, <1>2, <1>3, <1>4, <1>5, TypeTake DEF Deliver, AsyncTypeOK, streamVars

LEMMA TypeBatches ==
  ASSUME AsyncTypeOK, TakeStreamBatches
  PROVE  AsyncTypeOK'
<1>1. ASSUME NEW j \in Jobs
      PROVE  /\ Taken(j) \in 0..Len(buf[j])
             /\ SubSeq(buf[j], 1, Taken(j)) \in Seq(1..MaxItems)
             /\ SubSeq(buf[j], Taken(j) + 1, Len(buf[j])) \in Seq(1..MaxItems)
  <2>1. buf[j] \in Seq(1..MaxItems) /\ Len(buf[j]) \in Nat
    BY <1>1 DEF AsyncTypeOK
  <2>2. Taken(j) \in 0..Len(buf[j])
    BY <2>1, BoundsAssumption DEF Taken
  <2>3. \A i \in 1..Len(buf[j]) : buf[j][i] \in 1..MaxItems
    BY <2>1, ElementOfSeq
  <2>4. SubSeq(buf[j], 1, Taken(j)) \in Seq(1..MaxItems)
    <3>1. \A i \in 1..Taken(j) : buf[j][i] \in 1..MaxItems
      BY <2>1, <2>2, <2>3
    <3>2. QED
      BY <2>1, <2>2, <3>1, SubSeqProperties
  <2>5. SubSeq(buf[j], Taken(j) + 1, Len(buf[j])) \in Seq(1..MaxItems)
    <3>1. \A i \in (Taken(j) + 1)..Len(buf[j]) : buf[j][i] \in 1..MaxItems
      BY <2>1, <2>2, <2>3
    <3>2. Taken(j) + 1 \in Int /\ Len(buf[j]) \in Int
      BY <2>1, <2>2
    <3>3. QED
      BY <3>1, <3>2, SubSeqProperties
  <2>6. QED
    BY <2>2, <2>4, <2>5
<1>2. buf' \in [Jobs -> Seq(1..MaxItems)] /\ delivered' \in [Jobs -> Seq(1..MaxItems)]
  <2>1. \A j \in Jobs : delivered[j] \o SubSeq(buf[j], 1, Taken(j)) \in Seq(1..MaxItems)
    BY <1>1, ConcatProperties DEF AsyncTypeOK
  <2>2. QED
    BY <1>1, <2>1 DEF TakeStreamBatches, AsyncTypeOK
<1>3. /\ state' \in [Jobs -> States]
      /\ \A j \in Jobs : state'[j] = "unborn" <=> state[j] = "unborn"
      /\ closed' \in [Jobs -> {"open"} \cup Outcomes]
      /\ token' \in SUBSET Jobs
  BY DEF TakeStreamBatches, AsyncTypeOK, States, Closes, Settled
<1>4. QED
  BY <1>2, <1>3 DEF TakeStreamBatches, AsyncTypeOK, poolVars, luaVars

LEMMA TypeInstall ==
  ASSUME AsyncTypeOK, InstallSettled
  PROVE  AsyncTypeOK'
<1>1. TakeResult({j \in Jobs : spec[j].kind = "parse"})
  BY DEF InstallSettled
<1>2. QED
  BY <1>1, TypeTake DEF InstallSettled, AsyncTypeOK, luaVars, streamVars

LEMMA TypeStep == AsyncTypeOK /\ [Next]_vars => AsyncTypeOK'
<1> SUFFICES ASSUME AsyncTypeOK, [Next]_vars PROVE AsyncTypeOK'
  OBVIOUS
<1>1. CASE UNCHANGED vars
  BY <1>1 DEF AsyncTypeOK, vars, pendingVars, poolVars, tickVars, luaVars, streamVars
<1>2. CASE Next
  BY <1>2, TypeDispatch, TypeUser, TypePool, TypeRecv, TypePrune, TypeDeliver,
     TypeBatches, TypeInstall DEF Next, Tick
<1>3. QED
  BY <1>1, <1>2

(* Every reachable state is of its type: ids are handed out in order and    *)
(* never twice, an item on the bus is one its stream may emit.              *)
THEOREM AsyncTypeCorrect == Spec => []AsyncTypeOK
  BY TypeInit, TypeStep, PTL DEF Spec

-----------------------------------------------------------------------------
(* What a step may do to a job's state. *)
StateMove(j) ==
  \/ state'[j] = state[j]
  \/ state[j] = "unborn" /\ state'[j] = "running"
  \/ state[j] = "running" /\ Settled(j)'
  \/ Settled(j) /\ state'[j] = "taken"

LEMMA TakeMoves ==
  ASSUME AsyncTypeOK, NEW js, TakeResult(js), NEW j \in Jobs
  PROVE  StateMove(j)
  BY DEF TakeResult, StateMove

LEMMA StateMoves ==
  ASSUME AsyncTypeOK, [Next]_vars
  PROVE  \A j \in Jobs : StateMove(j)
<1> USE DEF StateMove
<1>1. ASSUME NEW load \in Loads, Dispatch(load) PROVE \A j \in Jobs : StateMove(j)
  BY <1>1 DEF Dispatch, AsyncTypeOK, Jobs
<1>2. ASSUME NEW t \in Tasks, NEW i \in Jobs, Await(t, i) \/ OnComplete(t, i)
      PROVE  \A j \in Jobs : StateMove(j)
  <2>1. TakeResult({i}) \/ UNCHANGED state
    BY <1>2 DEF Await, OnComplete
  <2>2. QED
    BY <2>1, TakeMoves
<1>3. CASE Deliver
  <2>1. PICK js : TakeResult(js)
    BY <1>3 DEF Deliver
  <2>2. QED
    BY <2>1, TakeMoves
<1>4. CASE InstallSettled
  <2>1. PICK js : TakeResult(js)
    BY <1>4 DEF InstallSettled
  <2>2. QED
    BY <2>1, TakeMoves
<1>5. CASE TakeStreamBatches
  BY <1>5 DEF TakeStreamBatches, Closes, AsyncTypeOK
<1>6. CASE TickRecv
  <2>1. Head(bus) \in Reply
    BY <1>6, RangeTail DEF TickRecv, AsyncTypeOK
  <2>2. Head(bus).kind \in Outcomes \cup {"item"} /\ Head(bus).job \in Jobs
    BY <2>1 DEF Reply
  <2>3. QED
    BY <1>6, <2>2 DEF TickRecv, Settles, Settled, AsyncTypeOK
<1>7. CASE TickPrune \/ (\E i \in Jobs : Cancel(i)) \/ UNCHANGED vars
  BY <1>7 DEF TickPrune, Cancel, vars, pendingVars
<1>8. ASSUME NEW i \in Jobs,
             \/ WorkerStart(i) \/ WorkerEmit(i) \/ WorkerHandOff(i)
             \/ WorkerReply(i) \/ WorkerPanic(i)
             \/ \E outcome \in Outcomes : ExternalComplete(i, outcome)
      PROVE  \A j \in Jobs : StateMove(j)
  BY <1>8 DEF WorkerStart, WorkerEmit, WorkerHandOff, WorkerReply, WorkerPanic,
     ExternalComplete, pendingVars
<1>9. QED
  BY <1>1, <1>2, <1>3, <1>4, <1>5, <1>6, <1>7, <1>8 DEF Next, Tick

(* A settled job keeps its outcome until it is taken, and stays taken,      *)
(* whatever duplicate or late replies the bus carries.                      *)
THEOREM OutcomesStable == Spec => OutcomeStable
<1>1. AsyncTypeOK /\ [Next]_vars
        => [\A j \in Jobs : /\ Settled(j) => state'[j] \in {state[j], "taken"}
                            /\ state[j] = "taken" => state'[j] = "taken"]_vars
  BY StateMoves DEF StateMove, Settled
<1>2. QED
  BY <1>1, AsyncTypeCorrect, PTL DEF Spec, OutcomeStable

-----------------------------------------------------------------------------
(* The supersede table.  SupersedeTracks alone does not survive the tick:   *)
(* what settled must be pruned before the queue of settled jobs is worked   *)
(* off, and be gone from it when the user's code runs between ticks.        *)
SupersedeInv ==
  /\ AsyncTypeOK
  /\ SupersedeTracks
  /\ \A j \in Range(settled) : state[j] \notin {"unborn", "running"}
  /\ phase \in {"user", "install"} => settled = <<>>
  /\ phase = "deliver" => \A k \in SupKeys : supersede[k] \notin Range(settled)

LEMMA SupersedeInit == Init => SupersedeInv
  BY TypeInit, RangeEmpty DEF Init, SupersedeInv, SupersedeTracks

(* Steps that leave the table, the queue, the phase and what is running     *)
(* alone.                                                                   *)
LEMMA SupersedeFrame ==
  ASSUME SupersedeInv, [Next]_vars,
         UNCHANGED <<spec, supersede, settled, phase>>,
         \A j \in Jobs : state'[j] = "running" <=> state[j] = "running",
         \A j \in Jobs : state[j] = "running" => (j \in token => j \in token')
  PROVE  SupersedeInv'
<1>1. AsyncTypeOK'
  BY TypeStep DEF SupersedeInv
<1>2. Range(settled) \subseteq Jobs
  BY RangeType DEF SupersedeInv, AsyncTypeOK
<1>3. SupersedeTracks'
  <2>1. /\ \A k \in SupKeys : supersede[k] # NoJob => supersede[k] \in Jobs
        /\ supersede' = supersede /\ spec' = spec /\ Range(settled)' = Range(settled)
    BY DEF SupersedeInv, AsyncTypeOK
  <2>2. QED
    BY <2>1 DEF SupersedeInv, SupersedeTracks
<1>4. \A j \in Range(settled)' : state'[j] \notin {"unborn", "running"}
  BY <1>1, <1>2, StateMoves DEF SupersedeInv, StateMove, Settled
<1>5. QED
  BY <1>1, <1>3, <1>4 DEF SupersedeInv

LEMMA SupersedeDispatch ==
  ASSUME SupersedeInv, NEW load \in Loads, Dispatch(load)
  PROVE  SupersedeInv'
<1>1. AsyncTypeOK' /\ AsyncTypeOK
  BY TypeDispatch DEF SupersedeInv
<1>2. next \in Jobs /\ state[next] = "unborn" /\ load.key \in SupKeys \cup {NoKey}
  BY <1>1, LoadsAssumption DEF Dispatch, AsyncTypeOK, Load, Jobs
<1>3. Range(settled) \subseteq Jobs /\ next \notin Range(settled)
  BY <1>1, <1>2, RangeType DEF SupersedeInv, AsyncTypeOK
<1>4. /\ settled' = settled /\ phase' = phase
      /\ spec' = [spec EXCEPT ![next] = load]
      /\ state' = [state EXCEPT ![next] = "running"]
      /\ supersede' = [k \in SupKeys |-> IF k = load.key THEN next ELSE supersede[k]]
  BY DEF Dispatch, tickVars
<1>5. ASSUME NEW j \in Jobs, state'[j] = "running", spec'[j].key # NoKey, j \notin token'
      PROVE  supersede'[spec'[j].key] = j
  <2>1. CASE j = next
    BY <1>1, <1>2, <1>4, <1>5, <2>1 DEF AsyncTypeOK
  <2>2. CASE j # next
    <3>1. /\ state[j] = "running" /\ spec[j].key # NoKey /\ spec'[j] = spec[j]
          /\ spec[j].key \in SupKeys
      BY <1>1, <1>4, <1>5, <2>2 DEF AsyncTypeOK, Load
    <3>2. j \notin token
      BY <1>5 DEF Dispatch
    <3>3. supersede[spec[j].key] = j
      BY <3>1, <3>2 DEF SupersedeInv, SupersedeTracks
    <3>4. spec[j].key # load.key
      BY <1>5, <3>1, <3>3 DEF Dispatch
    <3>5. QED
      BY <1>4, <3>1, <3>3, <3>4
  <2>3. QED
    BY <2>1, <2>2
<1>6. ASSUME NEW k \in SupKeys, supersede'[k] # NoJob
      PROVE  /\ spec'[supersede'[k]].key = k
             /\ state'[supersede'[k]] = "running" \/ supersede'[k] \in Range(settled')
             /\ phase' = "deliver" => supersede'[k] \notin Range(settled')
  <2>1. CASE k = load.key
    BY <1>1, <1>2, <1>3, <1>4, <2>1 DEF AsyncTypeOK
  <2>2. CASE k # load.key
    <3>1. supersede'[k] = supersede[k] /\ supersede[k] \in Jobs
      BY <1>1, <1>4, <1>6, <2>2 DEF AsyncTypeOK
    <3>2. /\ spec[supersede[k]].key = k
          /\ state[supersede[k]] = "running" \/ supersede[k] \in Range(settled)
          /\ phase = "deliver" => supersede[k] \notin Range(settled)
      BY <1>6, <3>1 DEF SupersedeInv, SupersedeTracks
    <3>3. supersede[k] # next
      BY <1>2, <1>3, <3>2
    <3>4. spec'[supersede[k]] = spec[supersede[k]] /\ state'[supersede[k]] = state[supersede[k]]
      BY <1>1, <1>4, <3>1, <3>3 DEF AsyncTypeOK
    <3>5. QED
      BY <1>4, <3>1, <3>2, <3>4
  <2>3. QED
    BY <2>1, <2>2
<1>7. SupersedeTracks'
  BY <1>5, <1>6 DEF SupersedeTracks
<1>8. \A j \in Range(settled') : state'[j] \notin {"unborn", "running"}
  BY <1>1, <1>3, <1>4 DEF SupersedeInv, AsyncTypeOK
<1>9. phase' = "deliver" => \A k \in SupKeys : supersede'[k] \notin Range(settled')
  <2>1. NoJob \notin Range(settled')
    BY <1>3, <1>4, BoundsAssumption DEF Jobs
  <2>2. QED
    BY <1>6, <2>1
<1>10. phase' \in {"user", "install"} => settled' = <<>>
  BY <1>4 DEF SupersedeInv
<1>11. QED
  BY <1>1, <1>7, <1>8, <1>9, <1>10 DEF SupersedeInv

LEMMA SupersedeRecv ==
  ASSUME SupersedeInv, TickRecv
  PROVE  SupersedeInv'
<1> DEFINE r == Head(bus)
<1>1. AsyncTypeOK' /\ AsyncTypeOK
  BY TypeRecv DEF SupersedeInv
<1>2. r \in Reply
  BY <1>1, RangeTail DEF TickRecv, AsyncTypeOK
<1>3. r.job \in Jobs /\ r.kind \in Outcomes \cup {"item"}
  BY <1>2 DEF Reply
<1>4. UNCHANGED <<spec, supersede, token>> /\ phase' = "drain"
  BY DEF TickRecv
<1>5. CASE Settles(r)
  <2>1. state' = [state EXCEPT ![r.job] = r.kind] /\ settled' = Append(settled, r.job)
    BY <1>5 DEF TickRecv
  <2>2. Range(settled') = Range(settled) \cup {r.job} /\ Range(settled) \subseteq Jobs
    BY <1>1, <1>3, <2>1, RangeAppend, RangeType DEF AsyncTypeOK
  <2>3. r.kind \in Outcomes /\ state[r.job] = "running"
    BY <1>3, <1>5 DEF Settles
  <2>4. ASSUME NEW j \in Range(settled') PROVE state'[j] \notin {"unborn", "running"}
    <3>1. CASE j = r.job
      BY <1>1, <1>3, <2>1, <2>3, <3>1 DEF AsyncTypeOK
    <3>2. CASE j # r.job
      <4>1. j \in Range(settled) /\ j \in Jobs
        BY <2>2, <2>4, <3>2
      <4>2. state'[j] = state[j]
        BY <1>1, <2>1, <3>2, <4>1 DEF AsyncTypeOK
      <4>3. QED
        BY <4>1, <4>2 DEF SupersedeInv
    <3>3. QED
      BY <3>1, <3>2
  <2>5. \A j \in Jobs : state'[j] = "running" => state[j] = "running"
    BY <1>1, <1>3, <2>1, <2>3 DEF AsyncTypeOK
  <2>6. \A j \in Jobs : state[j] = "running" => state'[j] = "running" \/ j \in Range(settled')
    BY <1>1, <1>3, <2>1, <2>2 DEF AsyncTypeOK
  <2>7. SupersedeTracks'
    <3>1. /\ \A k \in SupKeys : supersede[k] # NoJob => supersede[k] \in Jobs
          /\ supersede' = supersede /\ spec' = spec /\ token' = token
      BY <1>1, <1>4 DEF AsyncTypeOK
    <3>2. QED
      BY <2>2, <2>5, <2>6, <3>1 DEF SupersedeInv, SupersedeTracks
  <2>8. QED
    BY <1>1, <1>4, <2>4, <2>7 DEF SupersedeInv
<1>6. CASE ~Settles(r)
  <2>1. state' = state /\ settled' = settled
    BY <1>6 DEF TickRecv
  <2>2. QED
    BY <1>1, <1>4, <2>1 DEF SupersedeInv, SupersedeTracks
<1>7. QED
  BY <1>5, <1>6

LEMMA SupersedePrune ==
  ASSUME SupersedeInv, TickPrune
  PROVE  SupersedeInv'
<1>1. AsyncTypeOK' /\ AsyncTypeOK
  BY TypePrune DEF SupersedeInv
<1>2. Range(settled) \subseteq Jobs /\ NoJob \notin Jobs
  <2>1. settled \in Seq(Jobs)
    BY <1>1 DEF AsyncTypeOK
  <2>2. 0 \notin Jobs
    BY BoundsAssumption DEF Jobs
  <2>3. QED
    BY <2>1, <2>2, RangeType
<1>3. /\ UNCHANGED <<spec, state, token, settled>> /\ phase' = "deliver"
      /\ supersede' = [k \in SupKeys |-> IF Stale(k) THEN NoJob ELSE supersede[k]]
  BY DEF TickPrune
<1>4. SupersedeTracks'
  BY <1>1, <1>3 DEF SupersedeInv, SupersedeTracks, Stale, AsyncTypeOK, Load
<1>5. \A k \in SupKeys : supersede'[k] \notin Range(settled')
  BY <1>2, <1>3 DEF Stale
<1>6. QED
  BY <1>1, <1>3, <1>4, <1>5 DEF SupersedeInv

LEMMA SupersedeDeliver ==
  ASSUME SupersedeInv, Deliver
  PROVE  SupersedeInv'
<1>1. AsyncTypeOK' /\ AsyncTypeOK
  BY TypeDeliver DEF SupersedeInv
<1>2. Range(settled') \subseteq Range(settled) /\ Range(settled) \subseteq Jobs
  BY <1>1, RangeTail, RangeType DEF Deliver, AsyncTypeOK
<1>3. PICK js : TakeResult(js)
  BY DEF Deliver
<1>4. /\ \A j \in Jobs : state'[j] = "running" <=> state[j] = "running"
      /\ \A j \in Jobs : state'[j] = "unborn" <=> state[j] = "unborn"
      /\ \A j \in Jobs : state[j] = "running" => (j \in token => j \in token')
  BY <1>1, <1>3 DEF TakeResult, Settled, AsyncTypeOK
<1>5. UNCHANGED <<spec, supersede, phase>> /\ phase = "deliver"
  BY DEF Deliver
<1>6. SupersedeTracks'
  BY <1>1, <1>2, <1>4, <1>5 DEF SupersedeInv, SupersedeTracks, AsyncTypeOK
<1>7. QED
  BY <1>1, <1>2, <1>4, <1>5, <1>6 DEF SupersedeInv

LEMMA SupersedeBatches ==
  ASSUME SupersedeInv, TakeStreamBatches
  PROVE  SupersedeInv'
<1>1. AsyncTypeOK' /\ AsyncTypeOK
  BY TypeBatches DEF SupersedeInv
<1>2. /\ settled = <<>> /\ settled' = <<>> /\ phase' = "install"
      /\ UNCHANGED <<spec, supersede>>
  BY DEF TakeStreamBatches
<1>3. /\ \A j \in Jobs : state'[j] = "running" <=> state[j] = "running"
      /\ \A j \in Jobs : state[j] = "running" => (j \in token => j \in token')
  BY <1>1 DEF TakeStreamBatches, Closes, Settled, AsyncTypeOK
<1>4. SupersedeTracks'
  BY <1>1, <1>2, <1>3, RangeEmpty DEF SupersedeInv, SupersedeTracks, AsyncTypeOK
<1>5. QED
  BY <1>1, <1>2, <1>4, RangeEmpty DEF SupersedeInv

LEMMA SupersedeInstall ==
  ASSUME SupersedeInv, InstallSettled
  PROVE  SupersedeInv'
<1>1. AsyncTypeOK' /\ AsyncTypeOK
  BY TypeInstall DEF SupersedeInv
<1>2. /\ settled = <<>> /\ settled' = <<>> /\ phase' = "user"
      /\ UNCHANGED <<spec, supersede>>
  BY DEF InstallSettled, SupersedeInv
<1>3. PICK js : TakeResult(js)
  BY DEF InstallSettled
<1>4. /\ \A j \in Jobs : state'[j] = "running" <=> state[j] = "running"
      /\ \A j \in Jobs : state[j] = "running" => (j \in token => j \in token')
  BY <1>1, <1>3 DEF TakeResult, Settled, AsyncTypeOK
<1>5. SupersedeTracks'
  BY <1>1, <1>2, <1>4, RangeEmpty DEF SupersedeInv, SupersedeTracks, AsyncTypeOK
<1>6. QED
  BY <1>1, <1>2, <1>5, RangeEmpty DEF SupersedeInv

LEMMA SupersedeStep == SupersedeInv /\ [Next]_vars => SupersedeInv'
<1> SUFFICES ASSUME SupersedeInv, [Next]_vars PROVE SupersedeInv'
  OBVIOUS
<1>1. ASSUME NEW t \in Tasks, NEW i \in Jobs, Await(t, i) \/ OnComplete(t, i)
      PROVE  SupersedeInv'
  <2>1. \/ TakeResult({i})
        \/ UNCHANGED <<state, token>>
    BY <1>1 DEF Await, OnComplete
  <2>2. UNCHANGED <<spec, supersede, settled, phase>>
    BY <1>1 DEF Await, OnComplete, tickVars
  <2>3. /\ \A j \in Jobs : state'[j] = "running" <=> state[j] = "running"
        /\ \A j \in Jobs : state[j] = "running" => (j \in token => j \in token')
    BY <2>1 DEF TakeResult, Settled, SupersedeInv, AsyncTypeOK
  <2>4. QED
    BY <2>2, <2>3, SupersedeFrame
<1>2. ASSUME NEW i \in Jobs, Cancel(i) PROVE SupersedeInv'
  BY <1>2, SupersedeFrame DEF Cancel, tickVars
<1>3. ASSUME NEW i \in Jobs,
             \/ WorkerStart(i) \/ WorkerEmit(i) \/ WorkerHandOff(i)
             \/ WorkerReply(i) \/ WorkerPanic(i)
             \/ \E outcome \in Outcomes : ExternalComplete(i, outcome)
      PROVE  SupersedeInv'
  <2>1. UNCHANGED <<spec, supersede, settled, phase, state, token>>
    BY <1>3 DEF WorkerStart, WorkerEmit, WorkerHandOff, WorkerReply, WorkerPanic,
       ExternalComplete, pendingVars, tickVars
  <2>2. QED
    BY <2>1, SupersedeFrame
<1>4. CASE UNCHANGED vars
  BY <1>4, SupersedeFrame DEF vars, pendingVars, tickVars
<1>5. QED
  BY <1>1, <1>2, <1>3, <1>4, SupersedeDispatch, SupersedeRecv, SupersedePrune,
     SupersedeDeliver, SupersedeBatches, SupersedeInstall DEF Next, Tick

(* The table names the one uncancelled job of each key, so that a new       *)
(* dispatch under the key cancels it, whatever settles in between.          *)
THEOREM SupersedeKept == Spec => []SupersedeTracks
<1>1. SupersedeInv => SupersedeTracks
  BY DEF SupersedeInv
<1>2. QED
  BY <1>1, SupersedeInit, SupersedeStep, PTL DEF Spec

-----------------------------------------------------------------------------
(* The handoff.  A job of the pool answers once, so while it is with the    *)
(* pool it is running and nothing on the bus can settle it; a tree goes in  *)
(* before the only reply its job sends.                                     *)
WithPool(j) == pool[j] \in {"queued", "working", "handed", "panicked"}
Replies(j) == {r \in Range(bus) : r.job = j /\ r.kind # "item"}

JobHandoff(j) ==
  /\ WithPool(j) => /\ state[j] = "running"
                    /\ spec[j].kind # "external"
                    /\ Replies(j) = {}
  /\ pool[j] = "handed" => j \in handoff
  /\ j \in handoff => /\ spec[j].kind = "parse"
                      /\ pool[j] \in {"handed", "over", "panicked"}
                      /\ state[j] \in {"running", "complete"}
                      /\ \A r \in Replies(j) : r.kind = "complete"
  /\ (/\ spec[j].kind = "parse"
      /\ \/ state[j] = "complete"
         \/ state[j] = "running" /\ \E r \in Replies(j) : r.kind = "complete")
     => j \in handoff

HandoffInv ==
  /\ AsyncTypeOK
  /\ \A r \in Range(bus) : state[r.job] # "unborn"
  /\ \A j \in Jobs : JobHandoff(j)

LEMMA HandoffInit == Init => HandoffInv
  BY TypeInit, RangeEmpty DEF Init, HandoffInv, JobHandoff, WithPool, Replies

(* Taking results off the table takes their trees too. *)
LEMMA HandoffTake ==
  ASSUME HandoffInv, NEW js, TakeResult(js), UNCHANGED <<spec, pool, bus>>, AsyncTypeOK'
  PROVE  HandoffInv'
<1>1. \A j \in Jobs : /\ state'[j] # state[j] => Settled(j) /\ j \in js /\ state'[j] = "taken"
                      /\ j \in js /\ Settled(j) => state'[j] = "taken" /\ j \notin handoff'
                      /\ ~(j \in js /\ Settled(j)) => (j \in handoff' <=> j \in handoff)
  BY DEF TakeResult
<1>2. \A j \in Jobs : Replies(j)' = Replies(j)
  BY DEF Replies
<1>3. ASSUME NEW j \in Jobs PROVE JobHandoff(j)'
  <2>1. JobHandoff(j)
    BY DEF HandoffInv
  <2>2. QED
    BY <1>1, <1>2, <2>1 DEF JobHandoff, WithPool, Settled
<1>4. \A r \in Range(bus)' : state'[r.job] # "unborn"
  <2>1. \A r \in Range(bus) : r.job \in Jobs
    BY RangeType DEF HandoffInv, AsyncTypeOK, Reply
  <2>2. QED
    BY <1>1, <2>1 DEF HandoffInv
<1>5. QED
  BY <1>3, <1>4 DEF HandoffInv

(* Steps that touch neither the jobs' states, the pool, the bus nor the     *)
(* handoff.                                                                 *)
LEMMA HandoffFrame ==
  ASSUME HandoffInv, AsyncTypeOK', UNCHANGED <<spec, state, pool, bus, handoff>>
  PROVE  HandoffInv'
  BY DEF HandoffInv, JobHandoff, WithPool, Replies

LEMMA HandoffDispatch ==
  ASSUME HandoffInv, NEW load \in Loads, Dispatch(load)
  PROVE  HandoffInv'
<1>1. AsyncTypeOK' /\ AsyncTypeOK
  BY TypeDispatch DEF HandoffInv
<1>2. next \in Jobs /\ state[next] = "unborn"
  BY <1>1 DEF Dispatch, AsyncTypeOK, Jobs
<1>3. /\ UNCHANGED <<bus, handoff>>
      /\ spec' = [spec EXCEPT ![next] = load]
      /\ state' = [state EXCEPT ![next] = "running"]
      /\ pool' = [pool EXCEPT ![next] = IF load.kind = "external" THEN "none" ELSE "queued"]
  BY DEF Dispatch
<1>4. \A j \in Jobs : Replies(j)' = Replies(j)
  BY <1>3 DEF Replies
<1>5. \A r \in Range(bus) : r.job \in Jobs /\ r.job # next
  BY <1>1, <1>2, RangeType DEF HandoffInv, AsyncTypeOK, Reply
<1>6. ASSUME NEW j \in Jobs PROVE JobHandoff(j)'
  <2>1. JobHandoff(j)
    BY DEF HandoffInv
  <2>2. CASE j # next
    <3>1. spec'[j] = spec[j] /\ state'[j] = state[j] /\ pool'[j] = pool[j]
      BY <1>1, <1>3, <2>2 DEF AsyncTypeOK
    <3>2. QED
      BY <1>3, <1>4, <2>1, <3>1 DEF JobHandoff, WithPool
  <2>3. CASE j = next
    <3>1. j \notin handoff
      BY <1>2, <2>1, <2>3 DEF JobHandoff
    <3>2. Replies(j) = {}
      BY <1>5, <2>3 DEF Replies
    <3>3. /\ spec'[j] = load /\ state'[j] = "running"
          /\ pool'[j] = IF load.kind = "external" THEN "none" ELSE "queued"
      BY <1>1, <1>3, <2>3 DEF AsyncTypeOK
    <3>4. QED
      BY <1>3, <1>4, <3>1, <3>2, <3>3 DEF JobHandoff, WithPool
  <2>4. QED
    BY <2>2, <2>3
<1>7. \A r \in Range(bus)' : state'[r.job] # "unborn"
  BY <1>1, <1>3, <1>5 DEF HandoffInv, AsyncTypeOK
<1>8. QED
  BY <1>1, <1>6, <1>7 DEF HandoffInv

(* What a send adds. *)
LEMMA SendReplies ==
  ASSUME AsyncTypeOK, NEW i \in Jobs, NEW kind, NEW item,
         \/ kind \in Outcomes /\ item = 0
         \/ kind = "item" /\ item \in 1..MaxItems,
         Send(i, kind, item)
  PROVE  /\ Range(bus)' = Range(bus) \cup {[job |-> i, kind |-> kind, item |-> item]}
         /\ \A j \in Jobs : j # i => Replies(j)' = Replies(j)
         /\ kind = "item" => Replies(i)' = Replies(i)
         /\ kind # "item" =>
              Replies(i)' = Replies(i) \cup {[job |-> i, kind |-> kind, item |-> item]}
<1> DEFINE m == [job |-> i, kind |-> kind, item |-> item]
<1>1. m \in Reply /\ bus \in Seq(Reply) /\ bus' = Append(bus, m)
  BY SendType DEF AsyncTypeOK, Send
<1>2. Range(bus') = Range(bus) \cup {m}
  BY <1>1, RangeAppend
<1>3. m.job = i /\ m.kind = kind
  OBVIOUS
<1> HIDE DEF m
<1>4. QED
  BY <1>2, <1>3 DEF Replies, m

(* A step of the pool concerns one job. *)
LEMMA OtherJobs ==
  ASSUME NEW i \in Jobs, NEW j \in Jobs, j # i, NEW w,
         AsyncTypeOK, JobHandoff(j), UNCHANGED <<spec, state>>,
         pool' = [pool EXCEPT ![i] = w],
         Replies(j)' = Replies(j),
         j \in handoff' <=> j \in handoff
  PROVE  JobHandoff(j)'
<1>1. pool'[j] = pool[j]
  BY DEF AsyncTypeOK
<1>2. QED
  BY <1>1 DEF JobHandoff, WithPool

LEMMA HandoffPool ==
  ASSUME HandoffInv, NEW i \in Jobs,
         \/ WorkerStart(i) \/ WorkerEmit(i) \/ WorkerHandOff(i)
         \/ WorkerReply(i) \/ WorkerPanic(i)
         \/ \E outcome \in Outcomes : ExternalComplete(i, outcome)
  PROVE  HandoffInv'
<1>1. AsyncTypeOK' /\ AsyncTypeOK /\ UNCHANGED <<spec, state, next>>
  BY TypePool DEF HandoffInv, WorkerStart, WorkerEmit, WorkerHandOff, WorkerReply,
     WorkerPanic, ExternalComplete, pendingVars
<1>2. \A j \in Jobs : JobHandoff(j)
  BY DEF HandoffInv
<1>3. ASSUME NEW kind, NEW item,
             \/ kind \in Outcomes /\ item = 0
             \/ kind = "item" /\ item \in 1..MaxItems,
             Send(i, kind, item), state[i] # "unborn"
      PROVE  \A r \in Range(bus)' : state'[r.job] # "unborn"
  <2>1. [job |-> i, kind |-> kind, item |-> item].job = i
    OBVIOUS
  <2>2. QED
    BY <1>1, <1>3, <2>1, SendReplies DEF HandoffInv
<1>4. \A j \in Jobs : WithPool(j) => state[j] # "unborn"
  BY <1>2 DEF JobHandoff
<1>5. CASE WorkerStart(i)
  <2>1. CASE spec[i].kind = "parse" /\ i \in token
    <3>1. Send(i, "cancelled", 0) /\ pool' = [pool EXCEPT ![i] = "over"] /\ UNCHANGED handoff
      BY <1>5, <2>1 DEF WorkerStart
    <3>2. pool[i] = "queued" /\ state[i] = "running" /\ i \notin handoff /\ Replies(i) = {}
      BY <1>2, <1>5 DEF WorkerStart, JobHandoff, WithPool
    <3>3. /\ Replies(i)' = {[job |-> i, kind |-> "cancelled", item |-> 0]}
          /\ \A j \in Jobs : j # i => Replies(j)' = Replies(j)
      BY <1>1, <3>1, <3>2, SendReplies
    <3>4. \A r \in Replies(i)' : r.kind = "cancelled"
      BY <3>3
    <3>5. ASSUME NEW j \in Jobs PROVE JobHandoff(j)'
      <4>1. pool'[i] = "over"
        BY <1>1, <3>1 DEF AsyncTypeOK
      <4>2. CASE j = i
        BY <1>1, <3>1, <3>2, <3>4, <4>1, <4>2 DEF JobHandoff, WithPool
      <4>3. CASE j # i
        BY <1>1, <1>2, <3>1, <3>3, <4>3, OtherJobs
      <4>4. QED
        BY <4>2, <4>3
    <3>6. QED
      BY <1>1, <1>3, <3>1, <3>2, <3>5 DEF HandoffInv
  <2>2. CASE ~(spec[i].kind = "parse" /\ i \in token)
    <3>1. UNCHANGED <<bus, handoff>> /\ pool' = [pool EXCEPT ![i] = "working"]
      BY <1>5, <2>2 DEF WorkerStart
    <3>2. pool[i] = "queued"
      BY <1>5 DEF WorkerStart
    <3>3. \A j \in Jobs : Replies(j)' = Replies(j)
      BY <3>1 DEF Replies
    <3>4. ASSUME NEW j \in Jobs PROVE JobHandoff(j)'
      <4>1. pool'[i] = "working"
        BY <1>1, <3>1 DEF AsyncTypeOK
      <4>2. CASE j = i
        BY <1>1, <1>2, <3>1, <3>2, <3>3, <4>1, <4>2 DEF JobHandoff, WithPool
      <4>3. CASE j # i
        BY <1>1, <1>2, <3>1, <3>3, <4>3, OtherJobs
      <4>4. QED
        BY <4>2, <4>3
    <3>5. QED
      BY <1>1, <3>1, <3>4 DEF HandoffInv
  <2>3. QED
    BY <2>1, <2>2
<1>6. CASE WorkerEmit(i)
  <2>1. emitted[i] + 1 \in 1..MaxItems /\ Send(i, "item", emitted[i] + 1)
    BY <1>1, <1>6, BoundsAssumption DEF WorkerEmit, AsyncTypeOK
  <2>2. UNCHANGED <<pool, handoff>> /\ state[i] # "unborn"
    BY <1>4, <1>6 DEF WorkerEmit, WithPool
  <2>3. \A j \in Jobs : Replies(j)' = Replies(j)
    BY <1>1, <2>1, SendReplies
  <2>4. \A j \in Jobs : JobHandoff(j)'
    BY <1>1, <1>2, <2>2, <2>3 DEF JobHandoff, WithPool
  <2>5. QED
    BY <1>1, <1>3, <2>1, <2>2, <2>4 DEF HandoffInv
<1>7. CASE WorkerHandOff(i) \/ WorkerPanic(i)
  <2>1. UNCHANGED bus /\ \A j \in Jobs : Replies(j)' = Replies(j)
    BY <1>7 DEF WorkerHandOff, WorkerPanic, Replies
  <2>2. ASSUME NEW j \in Jobs PROVE JobHandoff(j)'
    <3>1. PICK w \in {"handed", "panicked"} :
            /\ pool' = [pool EXCEPT ![i] = w]
            /\ handoff' = IF w = "handed" THEN handoff \cup {i} ELSE handoff
            /\ w = "handed" => pool[i] = "working" /\ spec[i].kind = "parse"
            /\ w = "panicked" => pool[i] \in {"working", "handed"}
      BY <1>7 DEF WorkerHandOff, WorkerPanic
    <3>2. pool'[i] = w
      BY <1>1, <3>1 DEF AsyncTypeOK
    <3>3. CASE j = i
      <4>1. JobHandoff(i)
        BY <1>2
      <4>2. state[i] = "running" /\ spec[i].kind # "external" /\ Replies(i) = {}
        BY <3>1, <4>1 DEF JobHandoff, WithPool
      <4>3. i \in handoff' => spec[i].kind = "parse"
        BY <3>1, <4>1 DEF JobHandoff
      <4>4. w = "handed" => i \in handoff'
        BY <3>1
      <4>5. QED
        BY <1>1, <2>1, <3>1, <3>2, <3>3, <4>2, <4>3, <4>4 DEF JobHandoff, WithPool
    <3>4. CASE j # i
      BY <1>1, <1>2, <2>1, <3>1, <3>4, OtherJobs
    <3>5. QED
      BY <3>3, <3>4
  <2>3. QED
    BY <1>1, <2>1, <2>2 DEF HandoffInv
<1>8. CASE WorkerReply(i)
  <2>1. PICK a \in Answers(i) : Send(i, a, 0)
    BY <1>8 DEF WorkerReply
  <2>2. /\ a \in Outcomes
        /\ spec[i].kind = "parse" => a = IF pool[i] = "handed" THEN "complete" ELSE "failed"
    BY <2>1, AnswersType DEF Answers
  <2>3. /\ pool[i] \in {"working", "handed"} /\ UNCHANGED handoff
        /\ pool' = [pool EXCEPT ![i] = "over"]
    BY <1>8 DEF WorkerReply
  <2>4. state[i] = "running" /\ Replies(i) = {}
    BY <1>2, <2>3 DEF JobHandoff, WithPool
  <2>5. /\ Replies(i)' = {[job |-> i, kind |-> a, item |-> 0]}
        /\ \A j \in Jobs : j # i => Replies(j)' = Replies(j)
    BY <1>1, <2>1, <2>2, <2>4, SendReplies
  <2>6. \A r \in Replies(i)' : r.kind = a
    BY <2>5
  <2>7. ASSUME NEW j \in Jobs PROVE JobHandoff(j)'
    <3>1. CASE j = i
      <4>1. pool'[i] = "over"
        BY <1>1, <2>3 DEF AsyncTypeOK
      <4>2. /\ i \in handoff => pool[i] = "handed" /\ spec[i].kind = "parse"
            /\ pool[i] = "handed" => i \in handoff
        BY <1>2, <2>3 DEF JobHandoff
      <4>3. QED
        BY <1>1, <2>2, <2>3, <2>4, <2>6, <3>1, <4>1, <4>2 DEF JobHandoff, WithPool
    <3>2. CASE j # i
      BY <1>1, <1>2, <2>3, <2>5, <3>2, OtherJobs
    <3>3. QED
      BY <3>1, <3>2
  <2>8. QED
    BY <1>1, <1>3, <2>1, <2>2, <2>4, <2>7 DEF HandoffInv
<1>9. ASSUME NEW outcome \in Outcomes, ExternalComplete(i, outcome) PROVE HandoffInv'
  <2>1. /\ Send(i, outcome, 0) /\ UNCHANGED handoff /\ spec[i].kind = "external"
        /\ pool[i] \in {"none", "answered"} /\ i < next
        /\ pool' = [pool EXCEPT ![i] = IF pool[i] = "none" THEN "answered" ELSE "over"]
    BY <1>9 DEF ExternalComplete
  <2>2. state[i] # "unborn" /\ i \notin handoff
    BY <1>1, <1>2, <2>1 DEF AsyncTypeOK, JobHandoff
  <2>3. \A j \in Jobs : j # i => Replies(j)' = Replies(j)
    BY <1>1, <2>1, SendReplies
  <2>4. ASSUME NEW j \in Jobs PROVE JobHandoff(j)'
    <3>1. pool'[i] \in {"answered", "over"}
      BY <1>1, <2>1 DEF AsyncTypeOK
    <3>2. CASE j = i
      BY <1>1, <2>1, <2>2, <3>1, <3>2 DEF JobHandoff, WithPool
    <3>3. CASE j # i
      BY <1>1, <1>2, <2>1, <2>3, <3>3, OtherJobs
    <3>4. QED
      BY <3>2, <3>3
  <2>5. QED
    BY <1>1, <1>3, <2>1, <2>2, <2>4 DEF HandoffInv
<1>10. QED
  BY <1>5, <1>6, <1>7, <1>8, <1>9

LEMMA HandoffRecv ==
  ASSUME HandoffInv, TickRecv
  PROVE  HandoffInv'
<1> DEFINE m == Head(bus)
<1>1. AsyncTypeOK' /\ AsyncTypeOK
  BY TypeRecv DEF HandoffInv
<1>2. m \in Reply /\ m \in Range(bus) /\ Range(bus') \subseteq Range(bus)
  BY <1>1, RangeTail DEF TickRecv, AsyncTypeOK
<1>3. m.job \in Jobs /\ m.kind \in Outcomes \cup {"item"}
  BY <1>2 DEF Reply
<1>4. UNCHANGED <<spec, pool, handoff>>
  BY DEF TickRecv
<1>5. \A j \in Jobs : Replies(j)' \subseteq Replies(j)
  BY <1>2 DEF Replies
<1>6. \A j \in Jobs : /\ j # m.job \/ ~Settles(m) => state'[j] = state[j]
                      /\ j = m.job /\ Settles(m) => state'[j] = m.kind
  BY <1>1, <1>3 DEF TickRecv, AsyncTypeOK
<1>7. Settles(m) => m \in Replies(m.job) /\ state[m.job] = "running"
  BY <1>2 DEF Settles, Replies
<1>8. ASSUME NEW j \in Jobs PROVE JobHandoff(j)'
  <2>1. JobHandoff(j)
    BY DEF HandoffInv
  <2>2. CASE j # m.job \/ ~Settles(m)
    <3>1. state'[j] = state[j]
      BY <1>6, <2>2
    <3>2. QED
      BY <1>4, <1>5, <2>1, <3>1 DEF JobHandoff, WithPool
  <2>3. CASE j = m.job /\ Settles(m)
    <3>1. state'[j] = m.kind /\ m \in Replies(j) /\ state[j] = "running" /\ m.kind \in Outcomes
      BY <1>3, <1>6, <1>7, <2>3 DEF Settles
    <3>2. QED
      BY <1>4, <1>5, <2>1, <3>1 DEF JobHandoff, WithPool
  <2>4. QED
    BY <2>2, <2>3
<1>9. \A r \in Range(bus)' : state'[r.job] # "unborn"
  <2>1. \A r \in Range(bus) : r.job \in Jobs
    BY <1>1, RangeType DEF AsyncTypeOK, Reply
  <2>2. \A j \in Jobs : state[j] # "unborn" => state'[j] # "unborn"
    BY <1>3, <1>6 DEF Settles
  <2>3. QED
    BY <1>2, <2>1, <2>2 DEF HandoffInv
<1>10. QED
  BY <1>1, <1>8, <1>9 DEF HandoffInv

LEMMA HandoffBatches ==
  ASSUME HandoffInv, TakeStreamBatches
  PROVE  HandoffInv'
<1>1. AsyncTypeOK' /\ AsyncTypeOK
  BY TypeBatches DEF HandoffInv
<1>2. UNCHANGED <<spec, pool, bus, handoff>> /\ \A j \in Jobs : Replies(j)' = Replies(j)
  BY DEF TakeStreamBatches, poolVars, Replies
<1>3. \A j \in Jobs : \/ state'[j] = state[j]
                      \/ spec[j].kind = "stream" /\ Settled(j) /\ state'[j] = "taken"
  BY <1>1 DEF TakeStreamBatches, Streams, Closes, AsyncTypeOK
<1>4. ASSUME NEW j \in Jobs PROVE JobHandoff(j)'
  <2>1. JobHandoff(j)
    BY DEF HandoffInv
  <2>2. QED
    BY <1>2, <1>3, <2>1 DEF JobHandoff, WithPool, Settled
<1>5. \A r \in Range(bus)' : state'[r.job] # "unborn"
  <2>1. \A r \in Range(bus) : r.job \in Jobs
    BY <1>1, RangeType DEF AsyncTypeOK, Reply
  <2>2. QED
    BY <1>2, <1>3, <2>1 DEF HandoffInv
<1>6. QED
  BY <1>1, <1>4, <1>5 DEF HandoffInv

LEMMA HandoffStep == HandoffInv /\ [Next]_vars => HandoffInv'
<1> SUFFICES ASSUME HandoffInv, [Next]_vars PROVE HandoffInv'
  OBVIOUS
<1>1. AsyncTypeOK'
  BY TypeStep DEF HandoffInv
<1>2. ASSUME NEW t \in Tasks, NEW i \in Jobs, Await(t, i) \/ OnComplete(t, i)
      PROVE  HandoffInv'
  <2>1. \/ TakeResult({i})
        \/ UNCHANGED <<state, handoff>>
    BY <1>2 DEF Await, OnComplete
  <2>2. UNCHANGED <<spec, pool, bus>>
    BY <1>2 DEF Await, OnComplete
  <2>3. QED
    BY <1>1, <2>1, <2>2, HandoffTake, HandoffFrame
<1>3. ASSUME NEW i \in Jobs, Cancel(i) PROVE HandoffInv'
  BY <1>1, <1>3, HandoffFrame DEF Cancel, poolVars
<1>4. CASE TickPrune
  BY <1>1, <1>4, HandoffFrame DEF TickPrune, poolVars
<1>5. CASE Deliver \/ InstallSettled
  <2>1. PICK js : TakeResult(js)
    BY <1>5 DEF Deliver, InstallSettled
  <2>2. UNCHANGED <<spec, pool, bus>>
    BY <1>5 DEF Deliver, InstallSettled
  <2>3. QED
    BY <1>1, <2>1, <2>2, HandoffTake
<1>6. CASE UNCHANGED vars
  BY <1>1, <1>6, HandoffFrame DEF vars, pendingVars, poolVars
<1>7. QED
  BY <1>2, <1>3, <1>4, <1>5, <1>6, HandoffDispatch, HandoffPool, HandoffRecv,
     HandoffBatches DEF Next, Tick

(* A completed parse has its tree parked until both are taken, and no tree  *)
(* is parked for a job that failed, was cancelled or is gone.               *)
THEOREM ParsesHandedOff == Spec => []ParseHandoff
<1>1. HandoffInv => ParseHandoff
  BY DEF HandoffInv, JobHandoff, ParseHandoff
<1>2. QED
  BY <1>1, HandoffInit, HandoffStep, PTL DEF Spec

-----------------------------------------------------------------------------
(* Who waits.  A task waits on the one handle it uses, which is that of a   *)
(* call or of an external request.                                          *)
Waiting(j) == Range(callbacks[j]) \cup ({parked[j]} \ {NoTask})

WaitersInv ==
  /\ AsyncTypeOK
  /\ \A j \in Jobs : Waiting(j) # {} =>
        spec[j].kind \in {"call", "external"} /\ state[j] # "unborn"

LEMMA WaitersInit == Init => WaitersInv
  BY TypeInit, RangeEmpty DEF Init, WaitersInv, Waiting

(* Whoever is told is waiting, in the order of Waiters. *)
LEMMA WaitersWait ==
  ASSUME AsyncTypeOK, NEW j \in Jobs
  PROVE  /\ Waiters(j) \in Seq(Tasks)
         /\ Range(Waiters(j)) \subseteq Waiting(j)
         /\ Waiters(j) # <<>> => Head(Waiters(j)) \in Range(Waiters(j))
<1> DEFINE tail == IF parked[j] = NoTask THEN <<>> ELSE <<parked[j]>>
<1>1. callbacks[j] \in Seq(Tasks) /\ parked[j] \in Tasks \cup {NoTask}
  BY DEF AsyncTypeOK
<1>2. tail \in Seq(Tasks) /\ \A i \in 1..Len(tail) : tail[i] = parked[j] /\ parked[j] # NoTask
  <2>1. CASE parked[j] = NoTask
    <3>1. tail = <<>> /\ tail \in Seq(Tasks) /\ Len(tail) = 0
      BY <2>1
    <3>2. QED
      BY <3>1
  <2>2. CASE parked[j] # NoTask
    <3>1. tail = <<parked[j]>> /\ parked[j] \in Tasks
      BY <1>1, <2>2
    <3>2. QED
      BY <2>2, <3>1
  <2>3. QED
    BY <2>1, <2>2
<1>3. Waiters(j) = callbacks[j] \o tail
  BY DEF Waiters
<1> HIDE DEF tail
<1>4. /\ Waiters(j) \in Seq(Tasks)
      /\ Len(Waiters(j)) = Len(callbacks[j]) + Len(tail)
      /\ \A i \in 1..Len(Waiters(j)) :
           Waiters(j)[i] = IF i <= Len(callbacks[j]) THEN callbacks[j][i]
                           ELSE tail[i - Len(callbacks[j])]
  BY <1>1, <1>2, <1>3, ConcatProperties
<1>5. ASSUME NEW i \in 1..Len(Waiters(j)) PROVE Waiters(j)[i] \in Waiting(j)
  <2>0. Len(callbacks[j]) \in Nat /\ Len(tail) \in Nat
    BY <1>1, <1>2
  <2>1. CASE i <= Len(callbacks[j])
    <3>1. i \in DOMAIN callbacks[j] /\ Waiters(j)[i] = callbacks[j][i]
      BY <1>1, <1>4, <2>0, <2>1
    <3>2. QED
      BY <3>1 DEF Waiting, Range
  <2>2. CASE ~(i <= Len(callbacks[j]))
    <3>1. i - Len(callbacks[j]) \in 1..Len(tail)
      BY <1>4, <2>0, <2>2
    <3>2. Waiters(j)[i] = parked[j] /\ parked[j] # NoTask
      BY <1>2, <1>4, <2>2, <3>1
    <3>3. QED
      BY <3>2 DEF Waiting
  <2>3. QED
    BY <2>1, <2>2
<1>6. QED
  BY <1>4, <1>5 DEF Range

(* What becomes of those who wait, whatever the step. *)
LEMMA WaitingAwait ==
  ASSUME AsyncTypeOK, NEW t \in Tasks, NEW i \in Jobs, Await(t, i) \/ OnComplete(t, i)
  PROVE  /\ \A j \in Jobs : j # i => Waiting(j)' = Waiting(j)
         /\ Waiting(i)' \subseteq Waiting(i) \cup {t}
         /\ Settled(i) => Waiting(i)' = Waiting(i)
<1>1. callbacks \in [Jobs -> Seq(Tasks)] /\ parked \in [Jobs -> Tasks \cup {NoTask}]
  BY DEF AsyncTypeOK
<1>2. CASE Settled(i)
  BY <1>2 DEF Await, OnComplete, Waiting
<1>3. CASE ~Settled(i) /\ Await(t, i)
  <2>1. callbacks' = callbacks /\ parked' = [parked EXCEPT ![i] = t]
    BY <1>3 DEF Await
  <2>2. QED
    BY <1>1, <1>3, <2>1 DEF Waiting
<1>4. CASE ~Settled(i) /\ OnComplete(t, i)
  <2>1. callbacks' = [callbacks EXCEPT ![i] = Append(callbacks[i], t)] /\ parked' = parked
    BY <1>4 DEF OnComplete
  <2>2. Range(Append(callbacks[i], t)) = Range(callbacks[i]) \cup {t}
    BY <1>1, RangeAppend
  <2>3. QED
    BY <1>1, <1>4, <2>1, <2>2 DEF Waiting
<1>5. QED
  BY <1>2, <1>3, <1>4

LEMMA WaitingDeliver ==
  ASSUME AsyncTypeOK, Deliver, NEW i \in Jobs, i = Head(settled)
  PROVE  /\ Waiting(i)' = {}
         /\ \A j \in Jobs : j # i => Waiting(j)' = Waiting(j)
<1>1. /\ callbacks' = [callbacks EXCEPT ![i] = <<>>]
      /\ parked' = [parked EXCEPT ![i] = NoTask]
  BY DEF Deliver
<1>2. callbacks \in [Jobs -> Seq(Tasks)] /\ parked \in [Jobs -> Tasks \cup {NoTask}]
  BY DEF AsyncTypeOK
<1>3. /\ callbacks'[i] = <<>> /\ parked'[i] = NoTask
      /\ \A j \in Jobs : j # i => callbacks'[j] = callbacks[j] /\ parked'[j] = parked[j]
  BY <1>1, <1>2
<1>4. Range(callbacks'[i]) = {}
  BY <1>3, RangeEmpty
<1>5. QED
  BY <1>3, <1>4 DEF Waiting

LEMMA WaitersStep == WaitersInv /\ [Next]_vars => WaitersInv'
<1> SUFFICES ASSUME WaitersInv, [Next]_vars PROVE WaitersInv'
  OBVIOUS
<1>1. AsyncTypeOK /\ AsyncTypeOK'
  BY TypeStep DEF WaitersInv
<1>2. \A j \in Jobs : state[j] # "unborn" => state'[j] # "unborn"
  BY <1>1, StateMoves DEF StateMove, Settled
<1>3. ASSUME NEW load \in Loads, Dispatch(load) PROVE WaitersInv'
  <2>1. \A j \in Jobs : Waiting(j)' = Waiting(j)
    BY <1>3 DEF Dispatch, luaVars, Waiting
  <2>2. next \in Jobs /\ state[next] = "unborn" /\ spec' = [spec EXCEPT ![next] = load]
    BY <1>1, <1>3 DEF Dispatch, AsyncTypeOK, Jobs
  <2>3. \A j \in Jobs : j # next => spec'[j] = spec[j]
    BY <1>1, <2>2 DEF AsyncTypeOK
  <2>4. QED
    BY <1>1, <1>2, <2>1, <2>2, <2>3 DEF WaitersInv
<1>4. ASSUME NEW t \in Tasks, NEW i \in Jobs, Await(t, i) \/ OnComplete(t, i)
      PROVE  WaitersInv'
  <2>1. spec' = spec /\ spec[i].kind \in {"call", "external"} /\ state[i] # "unborn"
    BY <1>1, <1>4 DEF Await, OnComplete, MayUse, AsyncTypeOK
  <2>2. \A j \in Jobs : j # i => Waiting(j)' = Waiting(j)
    BY <1>1, <1>4, WaitingAwait
  <2>3. QED
    BY <1>1, <1>2, <2>1, <2>2 DEF WaitersInv
<1>5. CASE Deliver
  <2>1. spec' = spec
    BY <1>5 DEF Deliver
  <2>2. PICK i \in Jobs : i = Head(settled)
    BY <1>1, <1>5, RangeTail DEF Deliver, AsyncTypeOK
  <2>3. Waiting(i)' = {} /\ \A j \in Jobs : j # i => Waiting(j)' = Waiting(j)
    BY <1>1, <1>5, <2>2, WaitingDeliver
  <2>4. QED
    BY <1>1, <1>2, <2>1, <2>3 DEF WaitersInv
<1>6. ASSUME UNCHANGED <<spec, callbacks, parked>> PROVE WaitersInv'
  <2>1. \A j \in Jobs : Waiting(j)' = Waiting(j)
    BY <1>6 DEF Waiting
  <2>2. QED
    BY <1>1, <1>2, <1>6, <2>1 DEF WaitersInv
<1>7. ASSUME NEW i \in Jobs,
             \/ Cancel(i) \/ WorkerStart(i) \/ WorkerEmit(i) \/ WorkerHandOff(i)
             \/ WorkerReply(i) \/ WorkerPanic(i)
             \/ \E outcome \in Outcomes : ExternalComplete(i, outcome)
      PROVE  WaitersInv'
  BY <1>6, <1>7 DEF Cancel, WorkerStart, WorkerEmit, WorkerHandOff, WorkerReply,
     WorkerPanic, ExternalComplete, pendingVars, luaVars
<1>8. CASE TickRecv \/ TickPrune \/ TakeStreamBatches \/ InstallSettled
  BY <1>6, <1>8 DEF TickRecv, TickPrune, TakeStreamBatches, InstallSettled, luaVars
<1>9. CASE UNCHANGED vars
  BY <1>6, <1>9 DEF vars, pendingVars, luaVars
<1>10. QED
  BY <1>3, <1>4, <1>5, <1>7, <1>8, <1>9 DEF Next, Tick

(* Whoever waits has been told nothing; whoever was told something uses a   *)
(* job that is gone, and of a job that is gone one user has the outcome.    *)
TakerInv ==
  /\ SupersedeInv
  /\ WaitersInv
  /\ \A j \in Jobs : \A t \in Waiting(j) : uses[t] = j /\ told[t] = "nothing"
  /\ \A t \in Tasks : told[t] # "nothing" => uses[t] \in Jobs /\ state[uses[t]] = "taken"
  /\ \A t \in Tasks : uses[t] \in Jobs
        => spec[uses[t]].kind \in {"call", "external"} /\ state[uses[t]] # "unborn"
  /\ \A j \in Jobs : state[j] = "taken" /\ spec[j].kind \in {"call", "external"}
        => \E u \in Tasks : uses[u] = j /\ told[u] \in Outcomes
  /\ \A t, u \in Tasks :
        told[t] \in Outcomes /\ told[u] \in Outcomes /\ uses[t] = uses[u] => t = u

LEMMA TakerOne == TakerInv => OneTaker
<1> SUFFICES ASSUME TakerInv PROVE OneTaker
  OBVIOUS
<1>1. ASSUME NEW t \in Tasks, told[t] = "pending"
      PROVE  \E u \in Tasks \ {t} : uses[u] = uses[t] /\ told[u] \in Outcomes
  <2>1. /\ uses[t] \in Jobs /\ state[uses[t]] = "taken"
        /\ spec[uses[t]].kind \in {"call", "external"}
    BY <1>1 DEF TakerInv
  <2>2. PICK u \in Tasks : uses[u] = uses[t] /\ told[u] \in Outcomes
    BY <2>1 DEF TakerInv
  <2>3. QED
    BY <1>1, <2>2
<1>2. QED
  BY <1>1 DEF TakerInv, OneTaker

LEMMA TakerInit == Init => TakerInv
<1>1. SUFFICES ASSUME Init PROVE TakerInv
  OBVIOUS
<1>2. SupersedeInv /\ WaitersInv
  BY <1>1, SupersedeInit, WaitersInit
<1>3. \A j \in Jobs : Waiting(j) = {}
  BY <1>1, RangeEmpty DEF Init, Waiting
<1>4. \A t \in Tasks : uses[t] \notin Jobs /\ told[t] = "nothing"
  BY <1>1, BoundsAssumption DEF Init, Jobs
<1>5. \A j \in Jobs : state[j] = "unborn"
  BY <1>1 DEF Init
<1>6. QED
  BY <1>2, <1>3, <1>4, <1>5 DEF TakerInv

LEMMA WaitingTasks == AsyncTypeOK => \A j \in Jobs : Waiting(j) \subseteq Tasks
  BY RangeType DEF AsyncTypeOK, Waiting

(* Steps that tell nobody and take nothing a task can use. *)
LEMMA TakerFrame ==
  ASSUME TakerInv, [Next]_vars, SupersedeInv', WaitersInv', UNCHANGED luaVars,
         \A j \in Jobs : state[j] # "unborn" => spec'[j] = spec[j],
         \A j \in Jobs : state'[j] = "taken" =>
            state[j] = "taken" \/ spec[j].kind \notin {"call", "external"}
  PROVE  TakerInv'
<1>1. \A j \in Jobs : Waiting(j)' = Waiting(j)
  BY DEF luaVars, Waiting
<1>2. UNCHANGED <<uses, told>>
  BY DEF luaVars
<1>3. \A j \in Jobs : /\ state[j] = "taken" => state'[j] = "taken"
                      /\ state[j] # "unborn" => state'[j] # "unborn"
                      /\ state'[j] = "taken" => state[j] # "unborn"
  BY StateMoves DEF TakerInv, WaitersInv, StateMove, Settled
<1>4. \A j \in Jobs : \A t \in Waiting(j)' : uses'[t] = j /\ told'[t] = "nothing"
  BY <1>1, <1>2 DEF TakerInv
<1>5. \A t \in Tasks : told'[t] # "nothing" => uses'[t] \in Jobs /\ state'[uses'[t]] = "taken"
  BY <1>2, <1>3 DEF TakerInv
<1>6. \A t \in Tasks : uses'[t] \in Jobs
        => spec'[uses'[t]].kind \in {"call", "external"} /\ state'[uses'[t]] # "unborn"
  BY <1>2, <1>3 DEF TakerInv
<1>7. \A j \in Jobs : state'[j] = "taken" /\ spec'[j].kind \in {"call", "external"}
        => \E u \in Tasks : uses'[u] = j /\ told'[u] \in Outcomes
  BY <1>2, <1>3 DEF TakerInv
<1>8. \A t, u \in Tasks :
        told'[t] \in Outcomes /\ told'[u] \in Outcomes /\ uses'[t] = uses'[u] => t = u
  BY <1>2 DEF TakerInv
<1>9. QED
  BY <1>4, <1>5, <1>6, <1>7, <1>8 DEF TakerInv

(* A task that looks at a handle takes a settled result, or waits. *)
LEMMA TakerAwait ==
  ASSUME TakerInv, SupersedeInv', WaitersInv',
         NEW t \in Tasks, NEW i \in Jobs, Await(t, i) \/ OnComplete(t, i)
  PROVE  TakerInv'
<1>0. AsyncTypeOK /\ NoJob \notin Jobs
  BY BoundsAssumption DEF TakerInv, WaitersInv, Jobs
<1>1. /\ uses[t] = NoJob
      /\ spec[i].kind \in {"call", "external"} /\ state[i] # "unborn"
  BY <1>0 DEF Await, OnComplete, MayUse, AsyncTypeOK
<1>2. spec' = spec /\ \A u \in Tasks : uses'[u] = IF u = t THEN i ELSE uses[u]
  BY <1>0 DEF Await, OnComplete, AsyncTypeOK
<1>3. told[t] = "nothing" /\ \A j \in Jobs : t \notin Waiting(j)
  BY <1>0, <1>1 DEF TakerInv
<1>4. /\ \A j \in Jobs : j # i => Waiting(j)' = Waiting(j)
      /\ Waiting(i)' \subseteq Waiting(i) \cup {t}
      /\ Settled(i) => Waiting(i)' = Waiting(i)
  BY <1>0, WaitingAwait
<1>5. \A j \in Jobs : \A u \in Waiting(j) : u \in Tasks /\ u # t
  BY <1>0, <1>3, WaitingTasks
<1>6. CASE Settled(i)
  <2>1. /\ told' = [told EXCEPT ![t] = state[i]] /\ state[i] \in Outcomes
        /\ state' = [j \in Jobs |-> IF j = i THEN "taken" ELSE state[j]]
    BY <1>6 DEF Await, OnComplete, TakeResult, Status, Settled
  <2>2. \A u \in Tasks : told'[u] = IF u = t THEN state[i] ELSE told[u]
    BY <1>0, <2>1 DEF AsyncTypeOK
  <2>3. \A u \in Tasks : uses[u] = i => told[u] = "nothing"
    BY <2>1 DEF TakerInv
  <2>4. \A j \in Jobs : \A u \in Waiting(j)' : uses'[u] = j /\ told'[u] = "nothing"
    BY <1>2, <1>4, <1>5, <1>6, <2>2 DEF TakerInv
  <2>5. \A u \in Tasks : told'[u] # "nothing" => uses'[u] \in Jobs /\ state'[uses'[u]] = "taken"
    BY <1>2, <2>1, <2>2 DEF TakerInv
  <2>6. \A u \in Tasks : uses'[u] \in Jobs
          => spec'[uses'[u]].kind \in {"call", "external"} /\ state'[uses'[u]] # "unborn"
    BY <1>1, <1>2, <2>1 DEF TakerInv
  <2>7. \A j \in Jobs : state'[j] = "taken" /\ spec'[j].kind \in {"call", "external"}
          => \E u \in Tasks : uses'[u] = j /\ told'[u] \in Outcomes
    <3>1. uses'[t] = i /\ told'[t] \in Outcomes
      BY <1>2, <2>1, <2>2
    <3>2. ASSUME NEW j \in Jobs, j # i,
                 state'[j] = "taken" /\ spec'[j].kind \in {"call", "external"}
          PROVE  \E u \in Tasks : uses'[u] = j /\ told'[u] \in Outcomes
      <4>1. PICK u \in Tasks : uses[u] = j /\ told[u] \in Outcomes
        BY <1>2, <2>1, <3>2 DEF TakerInv
      <4>2. u # t
        BY <1>0, <1>1, <4>1
      <4>3. QED
        BY <1>2, <2>2, <4>1, <4>2
    <3>3. QED
      BY <3>1, <3>2
  <2>8. \A u, v \in Tasks :
          told'[u] \in Outcomes /\ told'[v] \in Outcomes /\ uses'[u] = uses'[v] => u = v
    BY <1>2, <2>2, <2>3 DEF TakerInv
  <2>9. QED
    BY <2>4, <2>5, <2>6, <2>7, <2>8 DEF TakerInv
<1>7. CASE ~Settled(i)
  <2>1. UNCHANGED <<told, state>>
    BY <1>7 DEF Await, OnComplete
  <2>2. \A j \in Jobs : \A u \in Waiting(j)' : uses'[u] = j /\ told'[u] = "nothing"
    BY <1>2, <1>3, <1>4, <1>5, <2>1 DEF TakerInv
  <2>3. \A u \in Tasks : told'[u] # "nothing" => uses'[u] \in Jobs /\ state'[uses'[u]] = "taken"
    BY <1>2, <1>3, <2>1 DEF TakerInv
  <2>4. \A u \in Tasks : uses'[u] \in Jobs
          => spec'[uses'[u]].kind \in {"call", "external"} /\ state'[uses'[u]] # "unborn"
    BY <1>1, <1>2, <2>1 DEF TakerInv
  <2>5. \A j \in Jobs : state'[j] = "taken" /\ spec'[j].kind \in {"call", "external"}
          => \E u \in Tasks : uses'[u] = j /\ told'[u] \in Outcomes
    BY <1>2, <1>3, <2>1 DEF TakerInv
  <2>6. \A u, v \in Tasks :
          told'[u] \in Outcomes /\ told'[v] \in Outcomes /\ uses'[u] = uses'[v] => u = v
    BY <1>2, <1>3, <2>1 DEF TakerInv
  <2>7. QED
    BY <2>2, <2>3, <2>4, <2>5, <2>6 DEF TakerInv
<1>8. QED
  BY <1>6, <1>7

(* The first of the waiters takes a settled result; when the result is gone *)
(* somebody was told it before, and all the waiters find it gone.           *)
LEMMA TakerDeliver ==
  ASSUME TakerInv, SupersedeInv', WaitersInv', Deliver
  PROVE  TakerInv'
<1>0. AsyncTypeOK
  BY DEF TakerInv, WaitersInv
<1>1. PICK i \in Jobs : i = Head(settled) /\ i \in Range(settled)
  BY <1>0, RangeTail DEF Deliver, AsyncTypeOK
<1>2. Waiting(i)' = {} /\ \A j \in Jobs : j # i => Waiting(j)' = Waiting(j)
  BY <1>0, <1>1, WaitingDeliver
<1>3. UNCHANGED <<uses, spec>>
  BY DEF Deliver
<1> DEFINE ws == Waiters(i)
<1>4. /\ ws \in Seq(Tasks) /\ Range(ws) \subseteq Waiting(i)
      /\ ws # <<>> => Head(ws) \in Range(ws)
  BY <1>0, WaitersWait
<1>5. /\ told' = [t \in Tasks |-> IF ws # <<>> /\ t = Head(ws) THEN Status(i)
                                  ELSE IF t \in Range(ws) THEN "pending" ELSE told[t]]
      /\ TakeResult(IF ws = <<>> THEN {} ELSE {i})
  BY <1>1 DEF Deliver
<1> HIDE DEF ws
<1>6. \A t \in Range(ws) : t \in Tasks /\ uses[t] = i /\ told[t] = "nothing"
  BY <1>0, <1>4, WaitingTasks DEF TakerInv
<1>7. \A t \in Tasks : t \notin Range(ws) => told'[t] = told[t]
  BY <1>4, <1>5
<1>8. Settled(i) \/ state[i] = "taken"
  <2>1. state[i] \notin {"unborn", "running"}
    BY <1>1 DEF TakerInv, SupersedeInv
  <2>2. state[i] \in States
    BY <1>0 DEF AsyncTypeOK
  <2>3. QED
    BY <2>1, <2>2 DEF Settled, States
<1>9. /\ \A j \in Jobs : state[j] = "taken" => state'[j] = "taken"
      /\ \A j \in Jobs : state'[j] = "taken"
            => state[j] = "taken" \/ (j = i /\ ws # <<>> /\ Settled(i))
      /\ \A j \in Jobs : state[j] # "unborn" => state'[j] # "unborn"
      /\ ws # <<>> => state'[i] = "taken"
  BY <1>5, <1>8 DEF TakeResult
<1>10. \A t \in Range(ws) : told'[t] \in Outcomes => t = Head(ws) /\ Settled(i)
  BY <1>5, <1>6 DEF Status
<1>11. \A j \in Jobs : \A t \in Waiting(j)' : uses'[t] = j /\ told'[t] = "nothing"
  <2>1. ASSUME NEW j \in Jobs, NEW t \in Waiting(j)'
        PROVE  uses'[t] = j /\ told'[t] = "nothing"
    <3>1. j # i /\ t \in Waiting(j) /\ t \in Tasks
      BY <1>0, <1>2, <2>1, WaitingTasks
    <3>2. uses[t] = j /\ told[t] = "nothing"
      BY <3>1 DEF TakerInv
    <3>3. t \notin Range(ws)
      BY <1>6, <3>1, <3>2
    <3>4. QED
      BY <1>3, <1>7, <3>1, <3>2, <3>3
  <2>2. QED
    BY <2>1
<1>12. \A t \in Tasks : told'[t] # "nothing" => uses'[t] \in Jobs /\ state'[uses'[t]] = "taken"
  <2>1. \A t \in Range(ws) : ws # <<>>
    BY RangeEmpty
  <2>2. QED
    BY <1>3, <1>6, <1>7, <1>9, <2>1 DEF TakerInv
<1>13. \A t \in Tasks : uses'[t] \in Jobs
         => spec'[uses'[t]].kind \in {"call", "external"} /\ state'[uses'[t]] # "unborn"
  BY <1>3, <1>9 DEF TakerInv
<1>14. \A j \in Jobs : state'[j] = "taken" /\ spec'[j].kind \in {"call", "external"}
         => \E u \in Tasks : uses'[u] = j /\ told'[u] \in Outcomes
  <2>1. ASSUME NEW j \in Jobs, state[j] = "taken", spec[j].kind \in {"call", "external"}
        PROVE  \E u \in Tasks : uses'[u] = j /\ told'[u] \in Outcomes
    <3>1. PICK u \in Tasks : uses[u] = j /\ told[u] \in Outcomes
      BY <2>1 DEF TakerInv
    <3>2. u \notin Range(ws)
      BY <1>6, <3>1
    <3>3. QED
      BY <1>3, <1>7, <3>1, <3>2
  <2>2. ASSUME ws # <<>>, Settled(i)
        PROVE  \E u \in Tasks : uses'[u] = i /\ told'[u] \in Outcomes
    <3>1. Head(ws) \in Tasks /\ uses[Head(ws)] = i
      BY <1>4, <1>6, <2>2
    <3>2. told'[Head(ws)] \in Outcomes
      BY <1>5, <2>2, <3>1 DEF Status, Settled
    <3>3. QED
      BY <1>3, <3>1, <3>2
  <2>3. QED
    BY <1>3, <1>9, <2>1, <2>2
<1>15. \A t, u \in Tasks :
         told'[t] \in Outcomes /\ told'[u] \in Outcomes /\ uses'[t] = uses'[u] => t = u
  <2>1. ASSUME NEW t \in Range(ws), NEW u \in Tasks \ Range(ws),
               told'[t] \in Outcomes, told'[u] \in Outcomes, uses[t] = uses[u]
        PROVE  FALSE
    <3>1. Settled(i) /\ uses[u] = i /\ told[u] \in Outcomes
      BY <1>6, <1>7, <1>10, <2>1
    <3>2. state[i] = "taken"
      BY <3>1 DEF TakerInv
    <3>3. QED
      BY <3>1, <3>2 DEF Settled
  <2>2. QED
    BY <1>3, <1>7, <1>10, <2>1 DEF TakerInv
<1>16. QED
  BY <1>11, <1>12, <1>13, <1>14, <1>15 DEF TakerInv

LEMMA TakerStep == TakerInv /\ [Next]_vars => TakerInv'
<1> SUFFICES ASSUME TakerInv, [Next]_vars PROVE TakerInv'
  OBVIOUS
<1>1. SupersedeInv' /\ WaitersInv' /\ AsyncTypeOK
  BY SupersedeStep, WaitersStep DEF TakerInv, WaitersInv
<1>2. ASSUME NEW load \in Loads, Dispatch(load) PROVE TakerInv'
  <2>1. next \in Jobs /\ state[next] = "unborn"
    BY <1>1, <1>2 DEF Dispatch, AsyncTypeOK, Jobs
  <2>2. /\ \A j \in Jobs : state[j] # "unborn" => spec'[j] = spec[j]
        /\ \A j \in Jobs : state'[j] = "taken" => state[j] = "taken"
    BY <1>1, <1>2, <2>1 DEF Dispatch, AsyncTypeOK
  <2>3. UNCHANGED luaVars
    BY <1>2 DEF Dispatch
  <2>4. QED
    BY <1>1, <2>2, <2>3, TakerFrame
<1>3. ASSUME NEW i \in Jobs,
             \/ Cancel(i) \/ WorkerStart(i) \/ WorkerEmit(i) \/ WorkerHandOff(i)
             \/ WorkerReply(i) \/ WorkerPanic(i)
             \/ \E outcome \in Outcomes : ExternalComplete(i, outcome)
      PROVE  TakerInv'
  <2>1. UNCHANGED <<spec, state, luaVars>>
    BY <1>3 DEF Cancel, WorkerStart, WorkerEmit, WorkerHandOff,
       WorkerReply, WorkerPanic, ExternalComplete, pendingVars
  <2>2. QED
    BY <1>1, <2>1, TakerFrame
<1>4. CASE TickPrune \/ UNCHANGED vars
  <2>1. UNCHANGED <<spec, state, luaVars>>
    BY <1>4 DEF TickPrune, vars, pendingVars
  <2>2. QED
    BY <1>1, <2>1, TakerFrame
<1>5. CASE TickRecv
  <2>1. Head(bus) \in Reply
    BY <1>1, <1>5, RangeTail DEF TickRecv, AsyncTypeOK
  <2>2. Head(bus).kind # "taken" /\ Head(bus).job \in Jobs
    BY <2>1 DEF Reply
  <2>3. \A j \in Jobs : state'[j] = "taken" => state[j] = "taken"
    BY <1>1, <1>5, <2>2 DEF TickRecv, AsyncTypeOK
  <2>4. UNCHANGED <<spec, luaVars>>
    BY <1>5 DEF TickRecv
  <2>5. QED
    BY <1>1, <2>3, <2>4, TakerFrame
<1>6. CASE TakeStreamBatches
  <2>1. \A j \in Jobs : state'[j] = "taken" => state[j] = "taken" \/ spec[j].kind = "stream"
    BY <1>6 DEF TakeStreamBatches, Streams
  <2>2. UNCHANGED <<spec, luaVars>>
    BY <1>6 DEF TakeStreamBatches
  <2>3. QED
    BY <1>1, <2>1, <2>2, TakerFrame
<1>7. CASE InstallSettled
  <2>1. \A j \in Jobs : state'[j] = "taken" => state[j] = "taken" \/ spec[j].kind = "parse"
    BY <1>7 DEF InstallSettled, TakeResult
  <2>2. UNCHANGED <<spec, luaVars>>
    BY <1>7 DEF InstallSettled
  <2>3. QED
    BY <1>1, <2>1, <2>2, TakerFrame
<1>8. QED
  BY <1>1, <1>2, <1>3, <1>4, <1>5, <1>6, <1>7, TakerAwait, TakerDeliver DEF Next, Tick

(* A result is taken by one of those who use its handle and is never lost:  *)
(* whoever finds it gone shares the handle with the one that was told, for  *)
(* any number of tasks, shared handles or not, and whatever their code does *)
(* in the middle of a tick.                                                 *)
THEOREM ResultTakenOnce == Spec => []OneTaker
  BY TakerInit, TakerStep, TakerOne, PTL DEF Spec

-----------------------------------------------------------------------------
(* The items of a stream: those handed out, those buffered and those on the *)
(* bus follow one another without a gap, none comes after the reply that    *)
(* settles the stream, and it is closed with none left.                     *)
IsItem(p, j) == bus[p].job = j /\ bus[p].kind = "item"
Got(j) == Len(delivered[j]) + Len(buf[j])

Handed(j) ==
  /\ \A i \in 1..Len(delivered[j]) : delivered[j][i] = i
  /\ \A i \in 1..Len(buf[j]) : buf[j][i] = Len(delivered[j]) + i

OnTheWay(j) ==
  /\ \A p \in 1..Len(bus) : IsItem(p, j) => bus[p].item \in (Got(j) + 1)..emitted[j]
  /\ \A n \in (Got(j) + 1)..emitted[j] : \E p \in 1..Len(bus) : IsItem(p, j) /\ bus[p].item = n
  /\ \A p, q \in 1..Len(bus) : p < q /\ IsItem(q, j) /\ bus[p].job = j =>
        IsItem(p, j) /\ bus[p].item < bus[q].item

Counted(j) ==
  /\ Got(j) <= emitted[j]
  /\ state[j] \notin {"unborn", "running"} => Got(j) = emitted[j]
  /\ state[j] = "taken" => buf[j] = <<>>
  /\ closed[j] # "open" => state[j] = "taken"
  /\ (spec[j].kind # "stream" \/ state[j] = "unborn") => emitted[j] = 0

StreamInv ==
  /\ HandoffInv
  /\ WaitersInv
  /\ \A j \in Jobs : Handed(j) /\ OnTheWay(j) /\ Counted(j)

(* Lengths and counts are numbers. *)
LEMMA StreamTypes ==
  ASSUME AsyncTypeOK, NEW j \in Jobs
  PROVE  /\ Len(delivered[j]) \in Nat /\ Len(buf[j]) \in Nat /\ Got(j) \in Nat
         /\ emitted[j] \in Nat /\ Len(bus) \in Nat
         /\ Len(buf[j]) = 0 => buf[j] = <<>>
<1>1. /\ delivered[j] \in Seq(1..MaxItems) /\ buf[j] \in Seq(1..MaxItems)
      /\ emitted[j] \in 0..MaxItems /\ bus \in Seq(Reply)
  BY DEF AsyncTypeOK
<1>2. /\ Len(delivered[j]) \in Nat /\ Len(buf[j]) \in Nat /\ Len(bus) \in Nat
      /\ emitted[j] \in Nat
  BY <1>1, BoundsAssumption
<1>3. Len(buf[j]) = 0 => buf[j] = <<>>
  BY <1>1
<1>4. Got(j) \in Nat
  <2>1. \A a, b \in Nat : a + b \in Nat
    OBVIOUS
  <2>2. QED
    BY <1>2, <2>1, Zenon DEF Got
<1>5. QED
  BY <1>2, <1>3, <1>4

LEMMA StreamInit == Init => StreamInv
<1> SUFFICES ASSUME Init PROVE StreamInv
  OBVIOUS
<1>1. HandoffInv /\ WaitersInv
  BY HandoffInit, WaitersInit
<1>2. ASSUME NEW j \in Jobs PROVE Handed(j) /\ OnTheWay(j) /\ Counted(j)
  <2>1. /\ delivered[j] = <<>> /\ buf[j] = <<>> /\ bus = <<>> /\ emitted[j] = 0
        /\ state[j] = "unborn" /\ closed[j] = "open"
    BY DEF Init
  <2>2. Got(j) = 0 /\ Len(bus) = 0 /\ Len(delivered[j]) = 0 /\ Len(buf[j]) = 0
    BY <2>1 DEF Got
  <2>3. QED
    BY <2>1, <2>2 DEF Handed, OnTheWay, Counted
<1>3. QED
  BY <1>1, <1>2 DEF StreamInv

(* Steps that leave the items alone and take the results of no stream. *)
LEMMA StreamQuiet ==
  ASSUME StreamInv, HandoffInv', WaitersInv',
         UNCHANGED <<bus, buf, delivered, emitted, closed>>,
         \A j \in Jobs :
            \/ state'[j] = state[j] /\ spec'[j] = spec[j]
            \/ state[j] = "unborn" /\ state'[j] = "running"
            \/ /\ spec'[j] = spec[j] /\ spec[j].kind # "stream"
               /\ state'[j] = "taken" /\ state[j] # "unborn"
  PROVE  StreamInv'
<1>1. ASSUME NEW j \in Jobs PROVE (Handed(j) /\ OnTheWay(j) /\ Counted(j))'
  <2>1. Handed(j) /\ OnTheWay(j) /\ Counted(j)
    BY DEF StreamInv
  <2>2. Got(j)' = Got(j) /\ \A p : IsItem(p, j)' <=> IsItem(p, j)
    BY DEF Got, IsItem
  <2>3. Handed(j)' /\ OnTheWay(j)'
    BY <2>1, <2>2 DEF Handed, OnTheWay
  <2>4. AsyncTypeOK
    BY DEF StreamInv, WaitersInv
  <2>5. emitted[j] = 0 => Got(j) = 0 /\ buf[j] = <<>>
    <3>1. Len(delivered[j]) \in Nat /\ Len(buf[j]) \in Nat
      BY <2>4, StreamTypes
    <3>2. Got(j) = Len(delivered[j]) + Len(buf[j]) /\ Got(j) <= emitted[j]
      BY <2>1 DEF Counted, Got
    <3>3. emitted[j] = 0 => Got(j) = 0 /\ Len(buf[j]) = 0
      <4>1. Got(j) \in Nat
        BY <2>4, StreamTypes
      <4>2. \A a, b, c \in Nat : c = a + b /\ c <= 0 => c = 0 /\ b = 0
        OBVIOUS
      <4>3. QED
        BY <3>1, <3>2, <4>1, <4>2, Zenon
    <3>4. Len(buf[j]) = 0 => buf[j] = <<>>
      BY <2>4, StreamTypes
    <3>5. QED
      BY <3>3, <3>4
  <2>6. Counted(j)'
    BY <2>1, <2>2, <2>5 DEF Counted
  <2>7. QED
    BY <2>3, <2>6
<1>2. QED
  BY <1>1 DEF StreamInv

(* The bus after a send. *)
LEMMA SendIndex ==
  ASSUME AsyncTypeOK, NEW i \in Jobs, NEW kind, NEW item, Send(i, kind, item)
  PROVE  /\ Len(bus') = Len(bus) + 1
         /\ \A p \in 1..Len(bus) : bus'[p] = bus[p]
         /\ bus'[Len(bus) + 1].job = i
         /\ bus'[Len(bus) + 1].kind = kind
         /\ bus'[Len(bus) + 1].item = item
<1> DEFINE m == [job |-> i, kind |-> kind, item |-> item]
<1>1. bus \in Seq(Reply) /\ bus' = Append(bus, m)
  BY DEF AsyncTypeOK, Send
<1>2. m.job = i /\ m.kind = kind /\ m.item = item
  OBVIOUS
<1> HIDE DEF m
<1>3. /\ Len(bus') = Len(bus) + 1 /\ bus'[Len(bus) + 1] = m
      /\ \A p \in 1..Len(bus) : bus'[p] = bus[p]
  BY <1>1
<1>4. QED
  BY <1>2, <1>3

(* A reply leaves the items on the bus as they were, before it. *)
LEMMA StreamReply ==
  ASSUME StreamInv, HandoffInv', WaitersInv',
         UNCHANGED <<spec, state, buf, delivered, emitted, closed>>,
         NEW i \in Jobs, NEW kind \in Outcomes, Send(i, kind, 0)
  PROVE  StreamInv'
<1>0. AsyncTypeOK
  BY DEF StreamInv, WaitersInv
<1>1. /\ Len(bus') = Len(bus) + 1 /\ Len(bus) \in Nat
      /\ \A p \in 1..Len(bus) : bus'[p] = bus[p]
      /\ bus'[Len(bus) + 1].kind # "item"
  BY <1>0, SendIndex, StreamTypes
<1>2. ASSUME NEW j \in Jobs PROVE (Handed(j) /\ OnTheWay(j) /\ Counted(j))'
  <2>1. Handed(j) /\ OnTheWay(j) /\ Counted(j)
    BY DEF StreamInv
  <2>2. Got(j)' = Got(j)
    BY DEF Got
  <2>3. Handed(j)' /\ Counted(j)'
    BY <2>1, <2>2 DEF Handed, Counted
  <2>4. \A p \in 1..Len(bus') : IsItem(p, j)' => p \in 1..Len(bus) /\ IsItem(p, j)
    BY <1>1 DEF IsItem
  <2>5. \A p \in 1..Len(bus) : p \in 1..Len(bus') /\ (IsItem(p, j)' <=> IsItem(p, j))
    BY <1>1 DEF IsItem
  <2>6. OnTheWay(j)'
    <3>1. \A p \in 1..Len(bus') : IsItem(p, j)' => bus'[p].item \in (Got(j)' + 1)..emitted'[j]
      BY <1>1, <2>1, <2>2, <2>4 DEF OnTheWay
    <3>2. \A n \in (Got(j)' + 1)..emitted'[j] :
            \E p \in 1..Len(bus') : IsItem(p, j)' /\ bus'[p].item = n
      BY <1>1, <2>1, <2>2, <2>5 DEF OnTheWay
    <3>3. ASSUME NEW p \in 1..Len(bus'), NEW q \in 1..Len(bus'),
                 p < q, IsItem(q, j)', bus'[p].job = j
          PROVE  IsItem(p, j)' /\ bus'[p].item < bus'[q].item
      <4>1. q \in 1..Len(bus) /\ p \in 1..Len(bus) /\ IsItem(q, j)
        BY <1>1, <2>4, <3>3
      <4>2. bus'[p] = bus[p] /\ bus'[q] = bus[q]
        BY <1>1, <4>1
      <4>3. QED
        BY <2>1, <2>5, <3>3, <4>1, <4>2 DEF OnTheWay
    <3>4. QED
      BY <3>1, <3>2, <3>3 DEF OnTheWay
  <2>7. QED
    BY <2>3, <2>6
<1>3. QED
  BY <1>2 DEF StreamInv

(* An item is the next of its stream, which has not been answered for. *)
LEMMA StreamEmit ==
  ASSUME StreamInv, HandoffInv', WaitersInv', NEW i \in Jobs, WorkerEmit(i)
  PROVE  StreamInv'
<1>0. AsyncTypeOK
  BY DEF StreamInv, WaitersInv
<1>1. /\ Send(i, "item", emitted[i] + 1)
      /\ UNCHANGED <<spec, state, buf, delivered, closed>>
      /\ \A j \in Jobs : emitted'[j] = IF j = i THEN emitted[j] + 1 ELSE emitted[j]
      /\ spec[i].kind = "stream" /\ pool[i] = "working"
  BY <1>0 DEF WorkerEmit, pendingVars, streamVars, AsyncTypeOK
<1>2. /\ Len(bus') = Len(bus) + 1 /\ Len(bus) \in Nat
      /\ \A p \in 1..Len(bus) : bus'[p] = bus[p]
      /\ bus'[Len(bus) + 1].job = i /\ bus'[Len(bus) + 1].kind = "item"
      /\ bus'[Len(bus) + 1].item = emitted[i] + 1
  BY <1>0, <1>1, SendIndex, StreamTypes
<1>3. state[i] = "running" /\ \A p \in 1..Len(bus) : bus[p].job = i => IsItem(p, i)
  <2>1. state[i] = "running" /\ Replies(i) = {}
    BY <1>1 DEF StreamInv, HandoffInv, JobHandoff, WithPool
  <2>2. \A p \in 1..Len(bus) : bus[p] \in Range(bus)
    BY <1>0 DEF AsyncTypeOK, Range
  <2>3. QED
    BY <2>1, <2>2 DEF Replies, IsItem
<1>4. ASSUME NEW j \in Jobs PROVE (Handed(j) /\ OnTheWay(j) /\ Counted(j))'
  <2>1. Handed(j) /\ OnTheWay(j) /\ Counted(j)
    BY DEF StreamInv
  <2>2. Got(j)' = Got(j)
    BY <1>1 DEF Got
  <2>3. Got(j) \in Nat /\ emitted[j] \in Nat
    BY <1>0, StreamTypes
  <2>4. Handed(j)' /\ Counted(j)'
    BY <1>1, <1>3, <2>1, <2>2, <2>3 DEF Handed, Counted
  <2>5. \A p \in 1..Len(bus) : p \in 1..Len(bus') /\ (IsItem(p, j)' <=> IsItem(p, j))
    BY <1>2 DEF IsItem
  <2>6. CASE j # i
    <3>1. \A p \in 1..Len(bus') : IsItem(p, j)' => p \in 1..Len(bus) /\ IsItem(p, j)
      BY <1>2, <2>6 DEF IsItem
    <3>2. \A p \in 1..Len(bus') : IsItem(p, j)' => bus'[p].item \in (Got(j)' + 1)..emitted'[j]
      BY <1>1, <1>2, <2>1, <2>2, <2>6, <3>1 DEF OnTheWay
    <3>3. \A n \in (Got(j)' + 1)..emitted'[j] :
            \E p \in 1..Len(bus') : IsItem(p, j)' /\ bus'[p].item = n
      BY <1>1, <1>2, <2>1, <2>2, <2>5, <2>6 DEF OnTheWay
    <3>4. ASSUME NEW p \in 1..Len(bus'), NEW q \in 1..Len(bus'),
                 p < q, IsItem(q, j)', bus'[p].job = j
          PROVE  IsItem(p, j)' /\ bus'[p].item < bus'[q].item
      <4>1. q \in 1..Len(bus) /\ p \in 1..Len(bus) /\ IsItem(q, j)
        BY <1>2, <3>1, <3>4
      <4>2. bus'[p] = bus[p] /\ bus'[q] = bus[q]
        BY <1>2, <4>1
      <4>3. QED
        BY <2>1, <2>5, <3>4, <4>1, <4>2 DEF OnTheWay
    <3>5. QED
      BY <2>4, <3>2, <3>3, <3>4 DEF OnTheWay
  <2>7. CASE j = i
    <3>1. Got(i) <= emitted[i] /\ emitted'[i] = emitted[i] + 1
      BY <1>1, <2>1, <2>7 DEF Counted
    <3>2. ASSUME NEW p \in 1..Len(bus'), IsItem(p, i)'
          PROVE  bus'[p].item \in (Got(i)' + 1)..emitted'[i]
      <4>1. CASE p = Len(bus) + 1
        BY <1>2, <2>2, <2>3, <2>7, <3>1, <4>1
      <4>2. CASE p # Len(bus) + 1
        <5>1. p \in 1..Len(bus) /\ bus'[p] = bus[p]
          BY <1>2, <4>2
        <5>2. bus[p].item \in (Got(i) + 1)..emitted[i]
          BY <2>1, <2>5, <2>7, <3>2, <5>1 DEF OnTheWay
        <5>3. QED
          BY <2>2, <2>3, <2>7, <3>1, <5>1, <5>2
      <4>3. QED
        BY <4>1, <4>2
    <3>3. ASSUME NEW n \in (Got(i)' + 1)..emitted'[i]
          PROVE  \E p \in 1..Len(bus') : IsItem(p, i)' /\ bus'[p].item = n
      <4>1. CASE n = emitted[i] + 1
        BY <1>2, <4>1 DEF IsItem
      <4>2. CASE n # emitted[i] + 1
        <5>1. n \in (Got(i) + 1)..emitted[i]
          BY <2>2, <2>3, <2>7, <3>1, <4>2
        <5>2. PICK p \in 1..Len(bus) : IsItem(p, i) /\ bus[p].item = n
          BY <2>1, <2>7, <5>1 DEF OnTheWay
        <5>3. QED
          BY <1>2, <2>5, <2>7, <5>2
      <4>3. QED
        BY <4>1, <4>2
    <3>4. ASSUME NEW p \in 1..Len(bus'), NEW q \in 1..Len(bus'),
                 p < q, IsItem(q, i)', bus'[p].job = i
          PROVE  IsItem(p, i)' /\ bus'[p].item < bus'[q].item
      <4>1. p \in 1..Len(bus) /\ bus'[p] = bus[p]
        BY <1>2, <3>4
      <4>2. IsItem(p, i) /\ IsItem(p, i)'
        BY <1>3, <2>5, <2>7, <3>4, <4>1
      <4>3. bus[p].item \in (Got(i) + 1)..emitted[i]
        BY <2>1, <2>7, <4>1, <4>2 DEF OnTheWay
      <4>4. CASE q = Len(bus) + 1
        BY <1>2, <2>3, <2>7, <4>1, <4>2, <4>3, <4>4
      <4>5. CASE q # Len(bus) + 1
        <5>1. q \in 1..Len(bus) /\ bus'[q] = bus[q]
          BY <1>2, <4>5
        <5>2. IsItem(q, i)
          BY <2>5, <2>7, <3>4, <5>1
        <5>3. QED
          BY <2>1, <2>7, <3>4, <4>1, <4>2, <5>1, <5>2 DEF OnTheWay
      <4>6. QED
        BY <4>4, <4>5
    <3>5. QED
      BY <2>4, <2>7, <3>2, <3>3, <3>4 DEF OnTheWay
  <2>8. QED
    BY <2>6, <2>7
<1>5. QED
  BY <1>4 DEF StreamInv

(* The bus after a receive. *)
LEMMA TailIndex ==
  ASSUME AsyncTypeOK, bus # <<>>, bus' = Tail(bus)
  PROVE  /\ Len(bus) \in Nat /\ Len(bus) > 0 /\ Len(bus') = Len(bus) - 1
         /\ \A p \in 1..Len(bus') : bus'[p] = bus[p + 1]
         /\ Head(bus) = bus[1] /\ bus[1] \in Reply
<1>1. bus \in Seq(Reply)
  BY DEF AsyncTypeOK
<1>2. QED
  BY <1>1

(* What is on the way of a job whose item is not the one received. *)
LEMMA TailOnTheWay ==
  ASSUME AsyncTypeOK, bus # <<>>, bus' = Tail(bus), NEW j \in Jobs, OnTheWay(j),
         ~IsItem(1, j), Got(j)' = Got(j), emitted'[j] = emitted[j]
  PROVE  OnTheWay(j)'
<1>1. /\ Len(bus) \in Nat /\ Len(bus) > 0 /\ Len(bus') = Len(bus) - 1
      /\ \A p \in 1..Len(bus') : bus'[p] = bus[p + 1]
  BY TailIndex
<1>2. \A p \in 1..Len(bus') : p + 1 \in 1..Len(bus) /\ (IsItem(p, j)' <=> IsItem(p + 1, j))
  BY <1>1 DEF IsItem
<1>3. \A p \in 1..Len(bus') : IsItem(p, j)' => bus'[p].item \in (Got(j)' + 1)..emitted'[j]
  BY <1>1, <1>2 DEF OnTheWay
<1>4. ASSUME NEW n \in (Got(j)' + 1)..emitted'[j]
      PROVE  \E p \in 1..Len(bus') : IsItem(p, j)' /\ bus'[p].item = n
  <2>1. PICK q \in 1..Len(bus) : IsItem(q, j) /\ bus[q].item = n
    BY <1>4 DEF OnTheWay
  <2>2. q # 1
    BY <2>1
  <2>3. q - 1 \in 1..Len(bus') /\ (q - 1) + 1 = q
    BY <1>1, <2>1, <2>2
  <2>4. IsItem(q - 1, j)' /\ bus'[q - 1] = bus[q]
    BY <1>1, <1>2, <2>1, <2>3
  <2>5. QED
    BY <2>1, <2>3, <2>4
<1>5. ASSUME NEW p \in 1..Len(bus'), NEW q \in 1..Len(bus'), p < q, IsItem(q, j)', bus'[p].job = j
      PROVE  IsItem(p, j)' /\ bus'[p].item < bus'[q].item
  <2>1. p + 1 \in 1..Len(bus) /\ q + 1 \in 1..Len(bus) /\ p + 1 < q + 1
    BY <1>2, <1>5
  <2>2. IsItem(q + 1, j) /\ bus[p + 1].job = j /\ bus'[p] = bus[p + 1] /\ bus'[q] = bus[q + 1]
    BY <1>1, <1>2, <1>5
  <2>3. QED
    BY <1>2, <2>1, <2>2 DEF OnTheWay
<1>6. QED
  BY <1>3, <1>4, <1>5 DEF OnTheWay

(* The item received is the next one of a stream that runs. *)
LEMMA HeadItem ==
  ASSUME StreamInv, bus # <<>>, NEW i \in Jobs, IsItem(1, i)
  PROVE  bus[1].item = Got(i) + 1 /\ Got(i) + 1 <= emitted[i] /\ state[i] = "running"
<1>0. AsyncTypeOK
  BY DEF StreamInv, WaitersInv
<1>1. Handed(i) /\ OnTheWay(i) /\ Counted(i)
  BY DEF StreamInv
<1>2. Got(i) \in Nat /\ emitted[i] \in Nat /\ 1 \in 1..Len(bus)
  <2>1. bus \in Seq(Reply)
    BY <1>0 DEF AsyncTypeOK
  <2>2. 1 \in 1..Len(bus)
    BY <2>1
  <2>3. QED
    BY <1>0, <2>2, StreamTypes
<1>3. bus[1].item \in (Got(i) + 1)..emitted[i]
  BY <1>1, <1>2 DEF OnTheWay
<1>4. Got(i) + 1 <= emitted[i] /\ Got(i) + 1 \in (Got(i) + 1)..emitted[i]
  BY <1>2, <1>3
<1>5. PICK p \in 1..Len(bus) : IsItem(p, i) /\ bus[p].item = Got(i) + 1
  BY <1>1, <1>4 DEF OnTheWay
<1>6. p = 1
  <2>1. p # 1 => 1 < p
    BY <1>2, <1>5
  <2>2. 1 < p => bus[1].item < bus[p].item
    BY <1>1, <1>2, <1>5 DEF OnTheWay, IsItem
  <2>3. QED
    BY <1>2, <1>3, <1>5, <2>1, <2>2
<1>7. state[i] = "running"
  BY <1>1, <1>2, <1>4 DEF Counted
<1>8. QED
  BY <1>4, <1>5, <1>6, <1>7

(* When a reply settles a job, all its items have come. *)
LEMMA HeadReply ==
  ASSUME StreamInv, bus # <<>>, NEW i \in Jobs, bus[1].job = i, ~IsItem(1, i)
  PROVE  Got(i) = emitted[i]
<1>0. AsyncTypeOK
  BY DEF StreamInv, WaitersInv
<1>1. OnTheWay(i) /\ Counted(i)
  BY DEF StreamInv
<1>2. Got(i) \in Nat /\ emitted[i] \in Nat /\ 1 \in 1..Len(bus)
  <2>1. bus \in Seq(Reply)
    BY <1>0 DEF AsyncTypeOK
  <2>2. 1 \in 1..Len(bus)
    BY <2>1
  <2>3. QED
    BY <1>0, <2>2, StreamTypes
<1>3. ASSUME Got(i) # emitted[i] PROVE FALSE
  <2>1. Got(i) + 1 \in (Got(i) + 1)..emitted[i]
    BY <1>1, <1>2, <1>3 DEF Counted
  <2>2. PICK p \in 1..Len(bus) : IsItem(p, i)
    BY <1>1, <2>1 DEF OnTheWay
  <2>3. 1 < p
    BY <2>2
  <2>4. QED
    BY <1>1, <1>2, <2>2, <2>3 DEF OnTheWay
<1>4. QED
  BY <1>3

LEMMA StreamRecv ==
  ASSUME StreamInv, HandoffInv', WaitersInv', TickRecv
  PROVE  StreamInv'
<1>0. AsyncTypeOK
  BY DEF StreamInv, WaitersInv
<1>1. /\ bus # <<>> /\ bus' = Tail(bus)
      /\ UNCHANGED <<spec, emitted, delivered, closed>>
  BY DEF TickRecv, streamVars
<1>2. /\ Len(bus) \in Nat /\ Len(bus) > 0 /\ Len(bus') = Len(bus) - 1
      /\ \A p \in 1..Len(bus') : bus'[p] = bus[p + 1]
      /\ Head(bus) = bus[1] /\ bus[1] \in Reply
  BY <1>0, <1>1, TailIndex
<1>3. PICK i \in Jobs : i = bus[1].job
  BY <1>2 DEF Reply
<1>4. bus[1].kind \in Outcomes \cup {"item"}
  BY <1>2 DEF Reply
<1>5. \A j \in Jobs : Handed(j) /\ OnTheWay(j) /\ Counted(j)
  BY DEF StreamInv
<1>6. \A j \in Jobs : j # i => ~IsItem(1, j)
  BY <1>3 DEF IsItem
<1>7. CASE bus[1].kind = "item"
  <2>1. IsItem(1, i)
    BY <1>3, <1>7 DEF IsItem
  <2>2. bus[1].item = Got(i) + 1 /\ Got(i) + 1 <= emitted[i] /\ state[i] = "running"
    BY <1>1, <2>1, HeadItem
  <2>3. /\ buf' = [buf EXCEPT ![i] = Append(buf[i], bus[1].item)]
        /\ state' = state
    BY <1>2, <1>3, <1>7, <2>2 DEF TickRecv, Settles
  <2>4. ASSUME NEW j \in Jobs, j # i PROVE (Handed(j) /\ OnTheWay(j) /\ Counted(j))'
    <3>1. buf'[j] = buf[j]
      BY <1>0, <2>3, <2>4 DEF AsyncTypeOK
    <3>2. Got(j)' = Got(j)
      BY <1>1, <3>1 DEF Got
    <3>3. Handed(j)' /\ Counted(j)'
      BY <1>1, <1>5, <2>3, <3>1, <3>2 DEF Handed, Counted
    <3>4. OnTheWay(j)'
      BY <1>0, <1>1, <1>5, <1>6, <2>4, <3>2, TailOnTheWay
    <3>5. QED
      BY <3>3, <3>4
  <2>5. (Handed(i) /\ OnTheWay(i) /\ Counted(i))'
    <3>1. buf[i] \in Seq(1..MaxItems) /\ buf'[i] = Append(buf[i], Got(i) + 1)
      BY <1>0, <2>2, <2>3 DEF AsyncTypeOK
    <3>2. /\ Len(buf'[i]) = Len(buf[i]) + 1
          /\ \A k \in 1..Len(buf[i]) : buf'[i][k] = buf[i][k]
          /\ buf'[i][Len(buf[i]) + 1] = Got(i) + 1
      BY <3>1
    <3>3. Len(buf[i]) \in Nat /\ Len(delivered[i]) \in Nat /\ Got(i) \in Nat /\ emitted[i] \in Nat
      BY <1>0, StreamTypes
    <3>4. Got(i)' = Got(i) + 1 /\ Got(i) = Len(delivered[i]) + Len(buf[i])
      <4>1. \A a, b \in Nat : a + (b + 1) = (a + b) + 1
        OBVIOUS
      <4>2. Got(i)' = Len(delivered[i]) + (Len(buf[i]) + 1)
        BY <1>1, <3>2 DEF Got
      <4>3. QED
        BY <3>3, <4>1, <4>2, Zenon DEF Got
    <3>5. Handed(i)'
      <4>1. ASSUME NEW k \in 1..Len(buf'[i]) PROVE buf'[i][k] = Len(delivered[i]) + k
        <5>1. CASE k = Len(buf[i]) + 1
          <6>1. \A a, b \in Nat : (a + b) + 1 = a + (b + 1)
            OBVIOUS
          <6>2. buf'[i][k] = (Len(delivered[i]) + Len(buf[i])) + 1
            BY <3>2, <3>4, <5>1
          <6>3. QED
            BY <3>3, <5>1, <6>1, <6>2, Zenon
        <5>2. CASE k # Len(buf[i]) + 1
          <6>1. k \in 1..Len(buf[i])
            BY <3>2, <3>3, <5>2
          <6>2. QED
            BY <1>5, <3>2, <6>1 DEF Handed
        <5>3. QED
          BY <5>1, <5>2
      <4>2. QED
        BY <1>1, <1>5, <4>1 DEF Handed
    <3>6. Counted(i)'
      BY <1>1, <1>5, <2>2, <2>3, <3>4 DEF Counted
    <3>7. OnTheWay(i)'
      <4>1. \A p \in 1..Len(bus') :
              p + 1 \in 1..Len(bus) /\ 1 < p + 1 /\ (IsItem(p, i)' <=> IsItem(p + 1, i))
        BY <1>2 DEF IsItem
      <4>2. 1 \in 1..Len(bus) /\ Got(i)' = Got(i) + 1 /\ emitted'[i] = emitted[i]
        BY <1>1, <1>2, <3>4
      <4>3. ASSUME NEW p \in 1..Len(bus'), IsItem(p, i)'
            PROVE  bus'[p].item \in (Got(i)' + 1)..emitted'[i]
        <5>1. bus[p + 1].item \in (Got(i) + 1)..emitted[i] /\ bus[1].item < bus[p + 1].item
          BY <1>3, <1>5, <4>1, <4>2, <4>3 DEF OnTheWay
        <5>2. QED
          <6>1. Got(i) \in Nat /\ emitted[i] \in Nat
            BY <3>3
          <6>2. bus[p + 1].item \in (Got(i) + 1 + 1)..emitted[i]
            BY <2>2, <5>1, <6>1
          <6>3. bus'[p] = bus[p + 1]
            BY <1>2
          <6>4. QED
            BY <4>2, <6>2, <6>3, Zenon
      <4>4. ASSUME NEW n \in (Got(i)' + 1)..emitted'[i]
            PROVE  \E p \in 1..Len(bus') : IsItem(p, i)' /\ bus'[p].item = n
        <5>1. n \in (Got(i) + 1)..emitted[i] /\ n # Got(i) + 1
          <6>1. n \in (Got(i) + 1 + 1)..emitted[i]
            BY <4>2, <4>4, Zenon
          <6>2. Got(i) \in Nat /\ emitted[i] \in Nat
            BY <3>3
          <6>3. QED
            BY <6>1, <6>2
        <5>2. PICK q \in 1..Len(bus) : IsItem(q, i) /\ bus[q].item = n
          BY <1>5, <5>1 DEF OnTheWay
        <5>3. q # 1
          BY <2>2, <5>1, <5>2
        <5>4. q - 1 \in 1..Len(bus') /\ (q - 1) + 1 = q
          BY <1>2, <5>2, <5>3
        <5>5. IsItem(q - 1, i)' /\ bus'[q - 1] = bus[q]
          BY <1>2, <4>1, <5>2, <5>4
        <5>6. QED
          BY <5>2, <5>4, <5>5
      <4>5. ASSUME NEW p \in 1..Len(bus'), NEW q \in 1..Len(bus'),
                   p < q, IsItem(q, i)', bus'[p].job = i
            PROVE  IsItem(p, i)' /\ bus'[p].item < bus'[q].item
        <5>1. p + 1 \in 1..Len(bus) /\ q + 1 \in 1..Len(bus) /\ p + 1 < q + 1
          BY <4>1, <4>5
        <5>2. /\ IsItem(q + 1, i) /\ bus[p + 1].job = i
              /\ bus'[p] = bus[p + 1] /\ bus'[q] = bus[q + 1]
          BY <1>2, <4>1, <4>5
        <5>3. QED
          BY <1>5, <4>1, <5>1, <5>2 DEF OnTheWay
      <4>6. QED
        BY <4>3, <4>4, <4>5 DEF OnTheWay
    <3>8. QED
      BY <3>5, <3>6, <3>7
  <2>6. QED
    BY <2>4, <2>5 DEF StreamInv
<1>8. CASE bus[1].kind # "item"
  <2>1. buf' = buf
    BY <1>2, <1>8 DEF TickRecv
  <2>2. \A j \in Jobs : ~IsItem(1, j)
    BY <1>8 DEF IsItem
  <2>3. Got(i) = emitted[i]
    BY <1>1, <1>3, <2>2, HeadReply
  <2>4. \A j \in Jobs : \/ state'[j] = state[j]
                        \/ j = i /\ state[j] = "running" /\ state'[j] \in Outcomes
    BY <1>0, <1>2, <1>3, <1>4, <1>8 DEF TickRecv, Settles, AsyncTypeOK
  <2>5. ASSUME NEW j \in Jobs PROVE (Handed(j) /\ OnTheWay(j) /\ Counted(j))'
    <3>1. Got(j)' = Got(j)
      BY <1>1, <2>1 DEF Got
    <3>2. Handed(j)'
      BY <1>1, <1>5, <2>1 DEF Handed
    <3>3. Counted(j)'
      BY <1>1, <1>5, <2>1, <2>3, <2>4, <3>1 DEF Counted
    <3>4. OnTheWay(j)'
      BY <1>0, <1>1, <1>5, <2>2, <3>1, TailOnTheWay
    <3>5. QED
      BY <3>2, <3>3, <3>4
  <2>6. QED
    BY <2>5 DEF StreamInv
<1>9. QED
  BY <1>7, <1>8

(* Cutting a batch off the buffer. *)
LEMMA BatchCut ==
  ASSUME AsyncTypeOK, NEW j \in Jobs, Handed(j),
         NEW d, d = delivered[j] \o SubSeq(buf[j], 1, Taken(j)),
         NEW b, b = SubSeq(buf[j], Taken(j) + 1, Len(buf[j]))
  PROVE  /\ Len(d) + Len(b) = Got(j)
         /\ \A i \in 1..Len(d) : d[i] = i
         /\ \A i \in 1..Len(b) : b[i] = Len(d) + i
         /\ Taken(j) = Len(buf[j]) => b = <<>>
<1>1. /\ buf[j] \in Seq(1..MaxItems) /\ Len(buf[j]) \in Nat
      /\ delivered[j] \in Seq(1..MaxItems) /\ Len(delivered[j]) \in Nat
  BY DEF AsyncTypeOK
<1>2. Taken(j) \in 0..Len(buf[j])
  BY <1>1, BoundsAssumption DEF Taken
<1>3. \A i \in 1..Len(buf[j]) : buf[j][i] \in 1..MaxItems
  BY <1>1, ElementOfSeq
<1> DEFINE c == SubSeq(buf[j], 1, Taken(j))
<1>4. c \in Seq(1..MaxItems) /\ Len(c) = Taken(j) /\ \A i \in 1..Taken(j) : c[i] = buf[j][i]
  <2>1. \A i \in 1..Taken(j) : buf[j][i] \in 1..MaxItems
    BY <1>1, <1>2, <1>3
  <2>2. QED
    BY <1>1, <1>2, <2>1, SubSeqProperties
<1>5. /\ b \in Seq(1..MaxItems) /\ Len(b) = Len(buf[j]) - Taken(j)
      /\ \A i \in 1..Len(b) : b[i] = buf[j][Taken(j) + i]
  <2>1. \A i \in (Taken(j) + 1)..Len(buf[j]) : buf[j][i] \in 1..MaxItems
    BY <1>1, <1>2, <1>3
  <2>2. Taken(j) + 1 \in Int /\ Len(buf[j]) \in Int
    BY <1>1, <1>2
  <2>3. /\ b \in Seq(1..MaxItems)
        /\ Len(b) = IF Taken(j) + 1 <= Len(buf[j]) THEN Len(buf[j]) - (Taken(j) + 1) + 1 ELSE 0
        /\ \A i \in 1..(Len(buf[j]) - (Taken(j) + 1) + 1) :
              b[i] = buf[j][(Taken(j) + 1) + i - 1]
    BY <1>1, <2>1, <2>2, SubSeqProperties
  <2>4. ASSUME NEW L \in Nat, NEW T \in 0..L
        PROVE  /\ (IF T + 1 <= L THEN L - (T + 1) + 1 ELSE 0) = L - T
               /\ L - (T + 1) + 1 = L - T
               /\ \A i \in 1..(L - T) : (T + 1) + i - 1 = T + i
    OBVIOUS
  <2>5. /\ Len(b) = Len(buf[j]) - Taken(j)
        /\ \A i \in 1..(Len(buf[j]) - Taken(j)) : b[i] = buf[j][Taken(j) + i]
    <3>1. Len(b) = Len(buf[j]) - Taken(j)
      BY <1>1, <1>2, <2>3, <2>4, Zenon
    <3>2. ASSUME NEW i \in 1..(Len(buf[j]) - Taken(j))
          PROVE  b[i] = buf[j][Taken(j) + i]
      <4>1. i \in 1..(Len(buf[j]) - (Taken(j) + 1) + 1)
        BY <1>1, <1>2, <2>4, Zenon
      <4>2. (Taken(j) + 1) + i - 1 = Taken(j) + i
        BY <1>1, <1>2, <2>4, Zenon
      <4>3. QED
        BY <2>3, <4>1, <4>2, Zenon
    <3>3. QED
      BY <3>1, <3>2
  <2>6. QED
    BY <2>3, <2>5, Zenon
<1> HIDE DEF c
<1>6. /\ Len(d) = Len(delivered[j]) + Taken(j)
      /\ \A i \in 1..Len(d) : d[i] = IF i <= Len(delivered[j]) THEN delivered[j][i]
                                     ELSE c[i - Len(delivered[j])]
  BY <1>1, <1>4, ConcatProperties DEF c
<1>7. ASSUME NEW i \in 1..Len(d) PROVE d[i] = i
  <2>1. CASE i <= Len(delivered[j])
    <3>1. i \in 1..Len(delivered[j])
      BY <1>1, <1>2, <1>6, <2>1
    <3>2. QED
      BY <1>6, <2>1, <3>1 DEF Handed
  <2>2. CASE ~(i <= Len(delivered[j]))
    <3>1. /\ i - Len(delivered[j]) \in 1..Taken(j)
          /\ i - Len(delivered[j]) \in 1..Len(buf[j])
          /\ Len(delivered[j]) + (i - Len(delivered[j])) = i
      BY <1>1, <1>2, <1>6, <2>2
    <3>2. d[i] = buf[j][i - Len(delivered[j])]
      BY <1>4, <1>6, <2>2, <3>1
    <3>3. QED
      BY <3>1, <3>2 DEF Handed
  <2>3. QED
    BY <2>1, <2>2
<1>8. ASSUME NEW i \in 1..Len(b) PROVE b[i] = Len(d) + i
  <2>1. Taken(j) + i \in 1..Len(buf[j])
    BY <1>1, <1>2, <1>5, <1>8
  <2>2. b[i] = Len(delivered[j]) + (Taken(j) + i)
    BY <1>5, <1>8, <2>1 DEF Handed
  <2>3. QED
    BY <1>1, <1>2, <1>5, <1>6, <1>8, <2>2
<1>9. Len(d) + Len(b) = Got(j)
  <2>1. \A n, L \in Nat : \A T \in 0..L : (n + T) + (L - T) = n + L
    OBVIOUS
  <2>2. QED
    BY <1>1, <1>2, <1>5, <1>6, <2>1, Zenon DEF Got
<1>10. Taken(j) = Len(buf[j]) => b = <<>>
  BY <1>1, <1>5
<1>11. QED
  BY <1>7, <1>8, <1>9, <1>10

LEMMA StreamBatches ==
  ASSUME StreamInv, HandoffInv', WaitersInv', TakeStreamBatches
  PROVE  StreamInv'
<1>0. AsyncTypeOK
  BY DEF StreamInv, WaitersInv
<1>1. UNCHANGED <<spec, bus, emitted>>
  BY DEF TakeStreamBatches, poolVars
<1> DEFINE Live == {j \in Streams : state[j] # "taken"}
<1>2. ASSUME NEW j \in Jobs PROVE (Handed(j) /\ OnTheWay(j) /\ Counted(j))'
  <2>1. Handed(j) /\ OnTheWay(j) /\ Counted(j)
    BY DEF StreamInv
  <2>2. /\ delivered'[j] = IF j \in Live THEN delivered[j] \o SubSeq(buf[j], 1, Taken(j))
                           ELSE delivered[j]
        /\ buf'[j] = IF j \in Live THEN SubSeq(buf[j], Taken(j) + 1, Len(buf[j])) ELSE buf[j]
        /\ closed'[j] = IF j \in Live /\ Closes(j) THEN state[j] ELSE closed[j]
        /\ state'[j] = IF j \in Live /\ Closes(j) THEN "taken" ELSE state[j]
    BY DEF TakeStreamBatches
  <2>3. Handed(j)' /\ Got(j)' = Got(j) /\ (j \in Live /\ Taken(j) = Len(buf[j]) => buf'[j] = <<>>)
    <3>1. CASE j \in Live
      <4>1. /\ delivered'[j] = delivered[j] \o SubSeq(buf[j], 1, Taken(j))
            /\ buf'[j] = SubSeq(buf[j], Taken(j) + 1, Len(buf[j]))
        BY <2>2, <3>1
      <4>2. /\ Len(delivered'[j]) + Len(buf'[j]) = Got(j)
            /\ \A i \in 1..Len(delivered'[j]) : delivered'[j][i] = i
            /\ \A i \in 1..Len(buf'[j]) : buf'[j][i] = Len(delivered'[j]) + i
            /\ Taken(j) = Len(buf[j]) => buf'[j] = <<>>
        BY <1>0, <2>1, <4>1, BatchCut
      <4>3. Got(j)' = Len(delivered'[j]) + Len(buf'[j])
        BY DEF Got
      <4>4. QED
        BY <4>2, <4>3 DEF Handed
    <3>2. CASE j \notin Live
      BY <2>1, <2>2, <3>2 DEF Handed, Got
    <3>3. QED
      BY <3>1, <3>2
  <2>4. OnTheWay(j)'
    <3>1. \A p : IsItem(p, j)' <=> IsItem(p, j)
      BY <1>1 DEF IsItem
    <3>2. QED
      BY <1>1, <2>1, <2>3, <3>1 DEF OnTheWay
  <2>5. Counted(j)'
    <3>1. CASE j \in Live /\ Closes(j)
      <4>1. /\ Settled(j) /\ Taken(j) = Len(buf[j])
            /\ state'[j] = "taken" /\ buf'[j] = <<>>
        BY <2>2, <2>3, <3>1 DEF Closes
      <4>2. state[j] \notin {"unborn", "running"}
        BY <4>1 DEF Settled
      <4>3. QED
        BY <1>1, <2>1, <2>3, <4>1, <4>2 DEF Counted
    <3>2. CASE ~(j \in Live /\ Closes(j))
      <4>1. state'[j] = state[j] /\ closed'[j] = closed[j] /\ (state[j] = "taken" => buf'[j] = buf[j])
        BY <2>2, <3>2
      <4>2. QED
        BY <1>1, <2>1, <2>3, <4>1 DEF Counted
    <3>3. QED
      BY <3>1, <3>2
  <2>6. QED
    BY <2>3, <2>4, <2>5
<1>3. QED
  BY <1>2 DEF StreamInv

LEMMA StreamStep == StreamInv /\ [Next]_vars => StreamInv'
<1> SUFFICES ASSUME StreamInv, [Next]_vars PROVE StreamInv'
  OBVIOUS
<1>0. AsyncTypeOK /\ HandoffInv' /\ WaitersInv'
  BY HandoffStep, WaitersStep DEF StreamInv, WaitersInv
<1>1. ASSUME NEW load \in Loads, Dispatch(load) PROVE StreamInv'
  <2>1. next \in Jobs /\ state[next] = "unborn"
    BY <1>0, <1>1 DEF Dispatch, AsyncTypeOK, Jobs
  <2>2. \A j \in Jobs : \/ state'[j] = state[j] /\ spec'[j] = spec[j]
                        \/ state[j] = "unborn" /\ state'[j] = "running"
    BY <1>0, <1>1, <2>1 DEF Dispatch, AsyncTypeOK
  <2>3. UNCHANGED <<bus, buf, delivered, emitted, closed>>
    BY <1>1 DEF Dispatch, streamVars
  <2>4. QED
    BY <1>0, <2>2, <2>3, StreamQuiet
<1>2. ASSUME NEW i \in Jobs, spec[i].kind # "stream", TakeResult({i}) \/ UNCHANGED state,
             UNCHANGED <<spec, bus, buf, delivered, emitted, closed>>
      PROVE  StreamInv'
  <2>1. \A j \in Jobs : \/ state'[j] = state[j]
                        \/ spec[j].kind # "stream" /\ state'[j] = "taken" /\ state[j] # "unborn"
    BY <1>2 DEF TakeResult, Settled
  <2>2. QED
    BY <1>0, <1>2, <2>1, StreamQuiet
<1>3. ASSUME NEW t \in Tasks, NEW i \in Jobs, Await(t, i) \/ OnComplete(t, i)
      PROVE  StreamInv'
  <2>1. spec[i].kind # "stream" /\ (TakeResult({i}) \/ UNCHANGED state)
    BY <1>3 DEF Await, OnComplete, MayUse
  <2>2. UNCHANGED <<spec, bus, buf, delivered, emitted, closed>>
    BY <1>3 DEF Await, OnComplete, streamVars
  <2>3. QED
    BY <1>2, <2>1, <2>2
<1>4. ASSUME UNCHANGED <<spec, state, bus, buf, delivered, emitted, closed>> PROVE StreamInv'
  BY <1>0, <1>4, StreamQuiet
<1>5. CASE Deliver
  <2>1. PICK i \in Jobs : i = Head(settled)
    BY <1>0, <1>5, RangeTail DEF Deliver, AsyncTypeOK
  <2>2. UNCHANGED <<spec, bus, buf, delivered, emitted, closed>>
    BY <1>5 DEF Deliver, streamVars
  <2>3. CASE Waiters(i) = <<>>
    <3>1. TakeResult({})
      BY <1>5, <2>1, <2>3 DEF Deliver
    <3>2. \A j \in Jobs : state'[j] = state[j]
      BY <3>1 DEF TakeResult
    <3>3. QED
      BY <1>0, <2>2, <3>2, StreamQuiet
  <2>4. CASE Waiters(i) # <<>>
    <3>1. TakeResult({i})
      BY <1>5, <2>1, <2>4 DEF Deliver
    <3>2. Waiting(i) # {}
      BY <1>0, <2>4, WaitersWait
    <3>3. spec[i].kind # "stream"
      BY <3>2 DEF StreamInv, WaitersInv
    <3>4. QED
      BY <1>2, <2>2, <3>1, <3>3
  <2>5. QED
    BY <2>3, <2>4
<1>6. ASSUME NEW i \in Jobs, Cancel(i) \/ WorkerHandOff(i) \/ WorkerPanic(i) PROVE StreamInv'
  BY <1>4, <1>6 DEF Cancel, WorkerHandOff, WorkerPanic, pendingVars, poolVars, streamVars
<1>7. ASSUME NEW i \in Jobs, WorkerStart(i) PROVE StreamInv'
  <2>1. UNCHANGED <<spec, state, buf, delivered, emitted, closed>>
    BY <1>7 DEF WorkerStart, pendingVars, streamVars
  <2>2. Send(i, "cancelled", 0) \/ UNCHANGED bus
    BY <1>7 DEF WorkerStart
  <2>3. "cancelled" \in Outcomes
    OBVIOUS
  <2>4. QED
    BY <1>0, <1>4, <2>1, <2>2, <2>3, StreamReply
<1>8. ASSUME NEW i \in Jobs,
             WorkerReply(i) \/ \E outcome \in Outcomes : ExternalComplete(i, outcome)
      PROVE  StreamInv'
  <2>1. UNCHANGED <<spec, state, buf, delivered, emitted, closed>>
    BY <1>8 DEF WorkerReply, ExternalComplete, pendingVars, streamVars
  <2>2. PICK kind \in Outcomes : Send(i, kind, 0)
    BY <1>8, AnswersType DEF WorkerReply, ExternalComplete
  <2>3. QED
    BY <1>0, <2>1, <2>2, StreamReply
<1>9. CASE TickPrune \/ UNCHANGED vars
  BY <1>4, <1>9 DEF TickPrune, vars, pendingVars, poolVars, streamVars
<1>10. CASE InstallSettled
  <2>1. UNCHANGED <<spec, bus, buf, delivered, emitted, closed>>
    BY <1>10 DEF InstallSettled, streamVars
  <2>2. \A j \in Jobs : \/ state'[j] = state[j]
                        \/ spec[j].kind # "stream" /\ state'[j] = "taken" /\ state[j] # "unborn"
    BY <1>10 DEF InstallSettled, TakeResult, Settled
  <2>3. QED
    BY <1>0, <2>1, <2>2, StreamQuiet
<1>11. QED
  BY <1>0, <1>1, <1>3, <1>5, <1>6, <1>7, <1>8, <1>9, <1>10, StreamEmit, StreamRecv,
     StreamBatches DEF Next, Tick

(* on_batch gets a stream's items in order, none lost and none twice, in    *)
(* batches of any size, and on_close comes after the last of them, however  *)
(* many streams, workers and items there are and whatever is cancelled or   *)
(* panics.                                                                  *)
THEOREM StreamsFaithful == Spec => []StreamFaithful
<1>1. ASSUME StreamInv PROVE StreamFaithful
  <2>1. ASSUME NEW j \in Jobs
        PROVE  /\ Len(delivered[j]) <= emitted[j]
               /\ \A i \in DOMAIN delivered[j] : delivered[j][i] = i
               /\ closed[j] # "open" => Len(delivered[j]) = emitted[j]
    <3>1. AsyncTypeOK /\ Handed(j) /\ Counted(j)
      BY <1>1 DEF StreamInv, WaitersInv
    <3>2. /\ Len(delivered[j]) \in Nat /\ Len(buf[j]) \in Nat /\ emitted[j] \in Nat
          /\ DOMAIN delivered[j] = 1..Len(delivered[j])
      BY <3>1, BoundsAssumption DEF AsyncTypeOK
    <3>3. Got(j) = Len(delivered[j]) + Len(buf[j])
      BY DEF Got
    <3>4. \A a, b, e \in Nat : a + b <= e => a <= e
      OBVIOUS
    <3>5. Len(delivered[j]) <= emitted[j]
      <4>1. Len(delivered[j]) + Len(buf[j]) <= emitted[j]
        BY <3>1, Zenon DEF Counted, Got
      <4>2. QED
        BY <3>2, <3>4, <4>1, Zenon
    <3>6. closed[j] # "open" => Len(buf[j]) = 0 /\ Got(j) = emitted[j]
      BY <3>1 DEF Counted
    <3>7. \A a \in Nat : a + 0 = a
      OBVIOUS
    <3>8. closed[j] # "open" => Len(delivered[j]) = emitted[j]
      BY <3>2, <3>3, <3>6, <3>7, Zenon
    <3>9. QED
      BY <3>1, <3>2, <3>5, <3>8 DEF Handed
  <2>2. QED
    BY <2>1 DEF StreamFaithful
<1>2. QED
  BY <1>1, StreamInit, StreamStep, PTL DEF Spec
=============================================================================
