---------------------------- MODULE AsyncRuntime ----------------------------
(***************************************************************************)
(* Background jobs: src/async_runtime.rs over the pool of src/worker.rs    *)
(* and the bus of src/message_bus.rs, with builtin/runtime/async.lua's     *)
(* handles and streams and the parse installs of syntax.lua's tick.        *)
(*                                                                         *)
(* The main thread dispatches, cancels and waits, and once a frame ticks:  *)
(* it drains the bus, prunes the supersede table, tells the waiters of     *)
(* what settled, hands out stream batches and installs parses.  Workers    *)
(* run jobs meanwhile and answer over the bus; an external responder (LSP, *)
(* MCP) answers over the same bus.  Code the waiters run may dispatch,     *)
(* cancel and wait in the middle of a tick.                                *)
(***************************************************************************)
EXTENDS Naturals, Sequences, FiniteSets, Functions

CONSTANTS MaxJobs,    \* bound on the jobs of a behaviour
          MaxItems,   \* bound on the items a stream emits
          MaxBatch,   \* default_max_batch
          PoolSize,   \* worker threads
          SupKeys,    \* supersede names
          NoKey,      \* dispatched without one
          Tasks,      \* coroutines that await, callbacks of on_complete
          NoTask,     \* nobody
          Loads,      \* the dispatches made: records of a kind and a key
          Ops         \* "share": several tasks may use one handle

ASSUME BoundsAssumption ==
  /\ MaxJobs \in Nat /\ MaxItems \in Nat
  /\ MaxBatch \in Nat \ {0} /\ PoolSize \in Nat \ {0}
ASSUME NoneAssumption == NoKey \notin SupKeys /\ NoTask \notin Tasks

(* "call" is every dispatch_* that answers once: sleep, sum, and the file  *)
(* operations.                                                             *)
Kinds == {"call", "parse", "stream", "external"}
Load == [kind : Kinds, key : SupKeys \cup {NoKey}]

ASSUME LoadsAssumption == Loads \subseteq Load

Jobs == 1..MaxJobs
NoJob == 0

VARIABLES next,       \* next_job_id
          spec,       \* the kind and the supersede key a job was born with
          state,      \* pending: PendingState, "taken" once removed
          token,      \* the jobs whose CancellationToken is set
          buf,        \* pending: stream_buffer
          supersede,  \* key -> job
          handoff,    \* parse_handoff: jobs whose tree is parked
          pool,       \* where the pool is with a job
          emitted,    \* items a stream's worker has sent
          bus,        \* replies on their way to the main thread
          phase,      \* where the main thread is in its tick
          settled,    \* newly_settled, then those not yet reported to Lua
          inUser,     \* the code of a waiter just told is running
          parked,     \* parked_coroutines
          callbacks,  \* on_complete_callbacks
          uses,       \* the handle each task waits on, or waited on
          told,       \* what each task was told
          delivered,  \* items handed to on_batch
          closed      \* the outcome handed to on_close

pendingVars == <<next, spec, state, token, buf, supersede>>
poolVars == <<pool, emitted, bus, handoff>>
tickVars == <<phase, settled, inUser>>
luaVars == <<parked, callbacks, uses, told>>
streamVars == <<delivered, closed>>
vars == <<pendingVars, poolVars, tickVars, luaVars, streamVars>>

Outcomes == {"complete", "cancelled", "failed"}
States == {"unborn", "running", "taken"} \cup Outcomes
Reply == [job : Jobs, kind : {"item"}, item : 1..MaxItems]
         \cup [job : Jobs, kind : Outcomes, item : {0}]

(* An external job is never in the pool: it is "none" until its responder  *)
(* answers, and a responder may answer twice.                              *)
PoolStates == {"none", "queued", "working", "handed", "answered", "over", "panicked"}

Settled(j) == state[j] \in Outcomes

AsyncTypeOK ==
  /\ next \in 1..(MaxJobs + 1)
  /\ spec \in [Jobs -> Load]
  /\ state \in [Jobs -> States]
  /\ \A j \in Jobs : j < next <=> state[j] # "unborn"
  /\ token \in SUBSET Jobs
  /\ buf \in [Jobs -> Seq(1..MaxItems)]
  /\ supersede \in [SupKeys -> Jobs \cup {NoJob}]
  /\ handoff \in SUBSET Jobs
  /\ pool \in [Jobs -> PoolStates]
  /\ emitted \in [Jobs -> 0..MaxItems]
  /\ bus \in Seq(Reply)
  /\ phase \in {"user", "drain", "deliver", "install"}
  /\ settled \in Seq(Jobs)
  /\ inUser \in BOOLEAN
  /\ parked \in [Jobs -> Tasks \cup {NoTask}]
  /\ callbacks \in [Jobs -> Seq(Tasks)]
  /\ uses \in [Tasks -> Jobs \cup {NoJob}]
  /\ told \in [Tasks -> {"nothing", "pending"} \cup Outcomes]
  /\ delivered \in [Jobs -> Seq(1..MaxItems)]
  /\ closed \in [Jobs -> {"open"} \cup Outcomes]

Init ==
  /\ next = 1
  /\ spec = [j \in Jobs |-> [kind |-> "call", key |-> NoKey]]
  /\ state = [j \in Jobs |-> "unborn"]
  /\ token = {}
  /\ buf = [j \in Jobs |-> <<>>]
  /\ supersede = [k \in SupKeys |-> NoJob]
  /\ handoff = {}
  /\ pool = [j \in Jobs |-> "none"]
  /\ emitted = [j \in Jobs |-> 0]
  /\ bus = <<>>
  /\ phase = "user"
  /\ settled = <<>>
  /\ inUser = FALSE
  /\ parked = [j \in Jobs |-> NoTask]
  /\ callbacks = [j \in Jobs |-> <<>>]
  /\ uses = [t \in Tasks |-> NoJob]
  /\ told = [t \in Tasks |-> "nothing"]
  /\ delivered = [j \in Jobs |-> <<>>]
  /\ closed = [j \in Jobs |-> "open"]

-----------------------------------------------------------------------------
(* The main thread outside the runtime: commands between ticks, and what   *)
(* a waiter does when it is told.                                          *)
UserCode == phase = "user" \/ (phase = "deliver" /\ inUser)

Streams == {j \in 1..(next - 1) : spec[j].kind = "stream"}

(* Mutant of Dispatch: the id is not used up. *)
DispatchReused(load) ==
  /\ UserCode
  /\ next \in Jobs
  /\ spec' = [spec EXCEPT ![next] = load]
  /\ state' = [state EXCEPT ![next] = "running"]
  /\ pool' = [pool EXCEPT ![next] = "queued"]
  /\ UNCHANGED <<next, token, buf, supersede, emitted, bus, handoff>>
  /\ UNCHANGED <<tickVars, luaVars, streamVars>>

(* allocate and the pool's dispatch, of all dispatch_* and of              *)
(* register_external: the predecessor under the key is cancelled first.    *)
Dispatch(load) ==
  /\ UserCode
  /\ next \in Jobs
  /\ next' = next + 1
  /\ spec' = [spec EXCEPT ![next] = load]
  /\ state' = [state EXCEPT ![next] = "running"]
  /\ token' = token \cup {j \in Jobs : /\ load.key # NoKey /\ supersede[load.key] = j
                                       /\ state[j] # "taken"}
  /\ supersede' = [k \in SupKeys |-> IF k = load.key THEN next ELSE supersede[k]]
  /\ pool' = [pool EXCEPT ![next] = IF load.kind = "external" THEN "none" ELSE "queued"]
  /\ UNCHANGED <<buf, emitted, bus, handoff>>
  /\ UNCHANGED <<tickVars, luaVars, streamVars>>

(* cancel: unknown and evicted ids are left alone.                         *)
Cancel(j) ==
  /\ UserCode
  /\ state[j] \notin {"unborn", "taken"}
  /\ token' = token \cup {j}
  /\ UNCHANGED <<next, spec, state, buf, supersede>>
  /\ UNCHANGED <<poolVars, tickVars, luaVars, streamVars>>

(* What _take_result returns. *)
Status(j) == IF Settled(j) THEN state[j] ELSE "pending"

(* A task gets hold of a handle: of a request, never of a stream or of a   *)
(* parse, which syntax.lua keeps for itself.                               *)
MayUse(t, j) ==
  /\ UserCode
  /\ uses[t] = NoJob
  /\ j < next /\ spec[j].kind \in {"call", "external"}
  /\ "share" \in Ops \/ \A u \in Tasks : uses[u] # j

(* take_result: the entry goes, and with it its token and a tree nobody    *)
(* took.                                                                   *)
TakeResult(js) ==
  /\ token' = token \ {j \in js : Settled(j)}
  /\ state' = [j \in Jobs |-> IF j \in js /\ Settled(j) THEN "taken" ELSE state[j]]
  /\ handoff' = handoff \ {j \in js : Settled(j)}

(* Mutants of Await: the result is taken, or the coroutine parked, without *)
(* the look at is_complete.                                                *)
AwaitUnchecked(t, j) ==
  /\ MayUse(t, j)
  /\ uses' = [uses EXCEPT ![t] = j]
  /\ told' = [told EXCEPT ![t] = Status(j)]
  /\ TakeResult({j})
  /\ UNCHANGED <<next, spec, buf, supersede, pool, emitted, bus, callbacks, parked>>
  /\ UNCHANGED <<tickVars, streamVars>>
AwaitParks(t, j) ==
  /\ MayUse(t, j)
  /\ uses' = [uses EXCEPT ![t] = j]
  /\ parked' = [parked EXCEPT ![j] = t]
  /\ UNCHANGED <<pendingVars, poolVars, callbacks, told>>
  /\ UNCHANGED <<tickVars, streamVars>>

(* Handle:await.  A coroutine that finds the job running is parked in the  *)
(* place of whoever was parked there.                                      *)
Await(t, j) ==
  /\ MayUse(t, j)
  /\ uses' = [uses EXCEPT ![t] = j]
  /\ IF Settled(j)
     THEN /\ told' = [told EXCEPT ![t] = Status(j)]
          /\ TakeResult({j})
          /\ UNCHANGED parked
     ELSE /\ parked' = [parked EXCEPT ![j] = t]
          /\ UNCHANGED <<told, state, token, handoff>>
  /\ UNCHANGED <<next, spec, buf, supersede, pool, emitted, bus, callbacks>>
  /\ UNCHANGED <<tickVars, streamVars>>

(* Handle:on_complete *)
OnComplete(t, j) ==
  /\ MayUse(t, j)
  /\ uses' = [uses EXCEPT ![t] = j]
  /\ IF Settled(j)
     THEN /\ told' = [told EXCEPT ![t] = Status(j)]
          /\ TakeResult({j})
          /\ UNCHANGED callbacks
     ELSE /\ callbacks' = [callbacks EXCEPT ![j] = Append(@, t)]
          /\ UNCHANGED <<told, state, token, handoff>>
  /\ UNCHANGED <<next, spec, buf, supersede, pool, emitted, bus, parked>>
  /\ UNCHANGED <<tickVars, streamVars>>

-----------------------------------------------------------------------------
(* The pool.  Results go to the bus, trees to the handoff.                 *)
Send(j, kind, item) == bus' = Append(bus, [job |-> j, kind |-> kind, item |-> item])

Busy == {j \in Jobs : pool[j] \in {"working", "handed"}}

(* worker_loop and find_work.  A parse looks at its token here and never   *)
(* again.                                                                  *)
WorkerStart(j) ==
  /\ pool[j] = "queued"
  /\ Cardinality(Busy) < PoolSize
  /\ IF spec[j].kind = "parse" /\ j \in token
     THEN pool' = [pool EXCEPT ![j] = "over"] /\ Send(j, "cancelled", 0)
     ELSE pool' = [pool EXCEPT ![j] = "working"] /\ UNCHANGED bus
  /\ UNCHANGED <<emitted, handoff>>
  /\ UNCHANGED <<pendingVars, tickVars, luaVars, streamVars>>

(* run_emit_n, run_grep.  The token is looked at between items: one that   *)
(* is set after the look does not keep the item back.                      *)
WorkerEmit(j) ==
  /\ pool[j] = "working" /\ spec[j].kind = "stream"
  /\ emitted[j] < MaxItems
  /\ emitted' = [emitted EXCEPT ![j] = @ + 1]
  /\ Send(j, "item", emitted[j] + 1)
  /\ UNCHANGED <<pool, handoff>>
  /\ UNCHANGED <<pendingVars, tickVars, luaVars, streamVars>>

(* run_parse, run_isolated_parse: the tree goes in before the reply. *)
WorkerHandOff(j) ==
  /\ pool[j] = "working" /\ spec[j].kind = "parse"
  /\ pool' = [pool EXCEPT ![j] = "handed"]
  /\ handoff' = handoff \cup {j}
  /\ UNCHANGED <<emitted, bus>>
  /\ UNCHANGED <<pendingVars, tickVars, luaVars, streamVars>>

(* Mutant of Answers: a parse replies before its tree is handed over. *)
AnswersEarly(j) ==
  IF spec[j].kind = "external" THEN {} ELSE {"complete"}

(* What a handler may answer with.  Handlers look at the token now and     *)
(* then, not after their last look: one that is set may still be missed.   *)
Answers(j) ==
  LET Seen == IF j \in token THEN {"cancelled"} ELSE {} IN
  CASE spec[j].kind = "call" -> {"complete", "failed"} \cup Seen
    [] spec[j].kind = "stream" -> {"complete"} \cup Seen
    [] spec[j].kind = "parse" -> IF pool[j] = "handed" THEN {"complete"} ELSE {"failed"}
    [] OTHER -> {}

(* The reply that ends a job of the pool. *)
WorkerReply(j) ==
  /\ pool[j] \in {"working", "handed"}
  /\ \E a \in Answers(j) : Send(j, a, 0)
  /\ pool' = [pool EXCEPT ![j] = "over"]
  /\ UNCHANGED <<emitted, handoff>>
  /\ UNCHANGED <<pendingVars, tickVars, luaVars, streamVars>>

(* dispatch's catch_unwind: the thread survives, nobody is told. *)
WorkerPanic(j) ==
  /\ pool[j] \in {"working", "handed"}
  /\ pool' = [pool EXCEPT ![j] = "panicked"]
  /\ UNCHANGED <<emitted, handoff, bus>>
  /\ UNCHANGED <<pendingVars, tickVars, luaVars, streamVars>>

(* complete_external_*, from the main thread's LSP and MCP ticks; what     *)
(* follows a first answer is the cancellation of a clean-up.               *)
ExternalComplete(j, outcome) ==
  /\ phase = "user"
  /\ j < next /\ spec[j].kind = "external"
  /\ pool[j] = "none" \/ (pool[j] = "answered" /\ outcome = "cancelled")
  /\ pool' = [pool EXCEPT ![j] = IF @ = "none" THEN "answered" ELSE "over"]
  /\ Send(j, outcome, 0)
  /\ UNCHANGED <<emitted, handoff>>
  /\ UNCHANGED <<pendingVars, tickVars, luaVars, streamVars>>

-----------------------------------------------------------------------------
(* Mutant of Settles: without the Running guard. *)
SettlesAlways(r) == r.kind # "item"

(* The tick.  One turn of its try_recv loop: items go to the job's buffer, *)
(* a reply settles a job that is still running.                            *)
Settles(r) == r.kind # "item" /\ state[r.job] = "running"

TickRecv ==
  /\ phase \in {"user", "drain"}
  /\ bus # <<>>
  /\ LET r == Head(bus) IN
     /\ buf' = IF r.kind = "item" /\ state[r.job] # "taken"
               THEN [buf EXCEPT ![r.job] = Append(@, r.item)] ELSE buf
     /\ state' = IF Settles(r) THEN [state EXCEPT ![r.job] = r.kind] ELSE state
     /\ settled' = IF Settles(r) THEN Append(settled, r.job) ELSE settled
  /\ bus' = Tail(bus)
  /\ phase' = "drain"
  /\ inUser' = FALSE
  /\ UNCHANGED <<next, spec, token, supersede, pool, emitted, handoff>>
  /\ UNCHANGED <<luaVars, streamVars>>

(* Mutant of Stale: the entries of the settled jobs' keys. *)
StaleByKey(k) == \E j \in Range(settled) : spec[j].key = k

(* The supersede entries that still name a job that just settled. *)
Stale(k) == supersede[k] \in Range(settled)

(* The end of the runtime's tick. *)
TickPrune ==
  /\ phase \in {"user", "drain"}
  /\ bus = <<>>
  /\ supersede' = [k \in SupKeys |-> IF Stale(k) THEN NoJob ELSE supersede[k]]
  /\ phase' = "deliver"
  /\ inUser' = FALSE
  /\ UNCHANGED settled
  /\ UNCHANGED <<next, spec, state, token, buf>>
  /\ UNCHANGED <<poolVars, luaVars, streamVars>>

(* The callbacks of a job, then the coroutine parked on it. *)
Waiters(j) == callbacks[j] \o (IF parked[j] = NoTask THEN <<>> ELSE <<parked[j]>>)

(* pmacs._async.tick: each waiter of the next settled job takes the result *)
(* for itself, and the first take removes it.                              *)
Deliver ==
  /\ phase = "deliver"
  /\ settled # <<>>
  /\ LET j == Head(settled)
         ws == Waiters(j) IN
     /\ told' = [t \in Tasks |-> IF ws # <<>> /\ t = Head(ws) THEN Status(j)
                                 ELSE IF t \in Range(ws) THEN "pending"
                                 ELSE told[t]]
     /\ TakeResult(IF ws = <<>> THEN {} ELSE {j})
     /\ callbacks' = [callbacks EXCEPT ![j] = <<>>]
     /\ parked' = [parked EXCEPT ![j] = NoTask]
     /\ inUser' = (ws # <<>>)
  /\ settled' = Tail(settled)
  /\ UNCHANGED phase
  /\ UNCHANGED <<next, spec, buf, supersede, pool, emitted, bus, uses>>
  /\ UNCHANGED streamVars

(* The items a stream's batch carries. *)
Taken(j) == IF Len(buf[j]) < MaxBatch THEN Len(buf[j]) ELSE MaxBatch

(* Mutants of Closes: with items left to deliver, or only with some.       *)
ClosesOnSettle(j) == Settled(j)
ClosesWithItems(j) == Settled(j) /\ Taken(j) = Len(buf[j]) /\ Taken(j) # 0

(* The batch is the stream's last. *)
Closes(j) == Settled(j) /\ Taken(j) = Len(buf[j])

(* take_stream_batches: every stream with something to say gets one batch. *)
TakeStreamBatches ==
  /\ phase = "deliver"
  /\ settled = <<>>
  /\ LET Live == {j \in Streams : state[j] # "taken"} IN
     /\ delivered' = [j \in Jobs |->
          IF j \in Live THEN delivered[j] \o SubSeq(buf[j], 1, Taken(j)) ELSE delivered[j]]
     /\ buf' = [j \in Jobs |->
          IF j \in Live THEN SubSeq(buf[j], Taken(j) + 1, Len(buf[j])) ELSE buf[j]]
     /\ closed' = [j \in Jobs |->
          IF j \in Live /\ Closes(j) THEN state[j] ELSE closed[j]]
     /\ state' = [j \in Jobs |->
          IF j \in Live /\ Closes(j) THEN "taken" ELSE state[j]]
     /\ token' = token \ {j \in Live : Closes(j)}
  /\ phase' = "install"
  /\ inUser' = FALSE
  /\ UNCHANGED <<settled, next, spec, supersede>>
  /\ UNCHANGED <<poolVars, luaVars>>

(* syntax.lua's tick: _install_settled takes the tree, then the entry, of  *)
(* every parse that has settled.                                           *)
InstallSettled ==
  /\ phase = "install"
  /\ TakeResult({j \in Jobs : spec[j].kind = "parse"})
  /\ phase' = "user"
  /\ UNCHANGED <<next, spec, buf, supersede, pool, emitted, bus, settled, inUser>>
  /\ UNCHANGED <<luaVars, streamVars>>

Tick == TickRecv \/ TickPrune \/ Deliver \/ TakeStreamBatches \/ InstallSettled

Next ==
  \/ \E load \in Loads : Dispatch(load)
  \/ \E j \in Jobs :
       \/ Cancel(j)
       \/ \E t \in Tasks : Await(t, j) \/ OnComplete(t, j)
       \/ WorkerStart(j) \/ WorkerEmit(j) \/ WorkerHandOff(j)
       \/ WorkerReply(j) \/ WorkerPanic(j)
       \/ \E outcome \in Outcomes : ExternalComplete(j, outcome)
  \/ Tick

Spec == Init /\ [][Next]_vars

(* The editor loop ticks every frame and the pool goes on while it holds   *)
(* a job; nothing makes a user act, a handler panic or a server answer.    *)
Work(j) == WorkerStart(j) \/ WorkerEmit(j) \/ WorkerHandOff(j) \/ WorkerReply(j)
Fairness == WF_vars(Tick) /\ WF_vars(\E j \in Jobs : Work(j))

FairSpec == Spec /\ Fairness

-----------------------------------------------------------------------------
(* Properties                                                              *)

(* SupersedeTracks: a job that still runs uncancelled under a key is the   *)
(* one the table names, so a key has one such job at most and its next     *)
(* dispatch cancels it; what the table names is running or settles in this *)
(* very drain (allocate, and the prune at the end of tick).                *)
SupersedeTracks ==
  /\ \A j \in Jobs :
       (state[j] = "running" /\ spec[j].key # NoKey /\ j \notin token)
          => supersede[spec[j].key] = j
  /\ \A k \in SupKeys :
       supersede[k] # NoJob
          => /\ spec[supersede[k]].key = k
             /\ \/ state[supersede[k]] = "running"
                \/ supersede[k] \in Range(settled)

(* ParseHandoff: a parse reported complete has its tree parked until the   *)
(* install takes both, and no tree is parked for a job that is gone or did *)
(* not complete (run_parse's insert before its send; take_result).         *)
ParseHandoff ==
  \A j \in Jobs :
    /\ (spec[j].kind = "parse" /\ state[j] = "complete") => j \in handoff
    /\ j \in handoff => state[j] \in {"running", "complete"}

(* StreamFaithful: on_batch gets a stream's items in order, none lost and  *)
(* none twice, however they are cut into batches, and on_close comes after *)
(* the last of them (tick's buffering and take_stream_batches).            *)
StreamFaithful ==
  \A j \in Jobs :
    /\ Len(delivered[j]) <= emitted[j]
    /\ \A i \in DOMAIN delivered[j] : delivered[j][i] = i
    /\ closed[j] # "open" => Len(delivered[j]) = emitted[j]

(* OutcomeStable: once settled, a job keeps its outcome until it is taken, *)
(* whatever replies come after (tick's Running guards), and a taken entry  *)
(* does not come back.                                                     *)
OutcomeStable ==
  [][\A j \in Jobs : /\ Settled(j) => state'[j] \in {state[j], "taken"}
                     /\ state[j] = "taken" => state'[j] = "taken"]_vars

(* ToldOutcome: a callback or a coroutine is told how its job ended, never *)
(* that it is pending (Handle:await raises an internal error on that).     *)
(* async.lua:525 means it for several users of one handle too, "callbacks  *)
(* first"; AsyncShared.cfg refutes it, since the first callback's take     *)
(* removes the result from under the others.                               *)
ToldOutcome == \A t \in Tasks : told[t] # "pending"

(* OneTaker: what does hold of any users of a handle, shared or not.  Its  *)
(* result is taken once, and never lost: whoever finds it gone shares the  *)
(* handle with the one that was told the outcome (take_result, tick).      *)
OneTaker ==
  /\ \A t, u \in Tasks :
       (told[t] \in Outcomes /\ told[u] \in Outcomes /\ uses[t] = uses[u]) => t = u
  /\ \A t \in Tasks :
       told[t] = "pending"
          => \E u \in Tasks \ {t} : uses[u] = uses[t] /\ told[u] \in Outcomes

(* Nobody has answered for the job, and nobody needs to. *)
Unanswered(j) == pool[j] = "panicked" \/ (spec[j].kind = "external" /\ pool[j] = "none")

(* Somebody else uses the task's handle. *)
Shared(t) == \E u \in Tasks \ {t} : uses[u] = uses[t]

(* AwaitResumes: whoever waits alone on a job that is answered for is      *)
(* told, also when the answer arrives between its look at the job and its  *)
(* parking, or while a tick is handing out others (Handle:await,           *)
(* on_complete, tick).  Of several on one handle a coroutine may be        *)
(* forgotten, parked over by the next one.                                 *)
AwaitResumes ==
  \A t \in Tasks :
    (uses[t] # NoJob)
       ~> (told[t] # "nothing" \/ Shared(t) \/ uses[t] \in {j \in Jobs : Unanswered(j)})

(* StreamCloses: every stream whose handler returns is closed, also one    *)
(* that settles with nothing left to deliver (take_stream_batches).        *)
StreamCloses ==
  \A j \in Jobs :
    (state[j] # "unborn" /\ spec[j].kind = "stream")
       ~> (closed[j] # "open" \/ Unanswered(j))
=============================================================================
