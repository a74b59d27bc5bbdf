----------------------------- MODULE ParseUnits -----------------------------
(***************************************************************************)
(* Parsing a buffer in a worker process of its own: the parse view         *)
(* (src/src/syntax.rs), the scheduling of parses and what is told of them  *)
(* (src/builtin/runtime/syntax.lua, the parse bindings of                  *)
(* src/src/lua_bindings/mod.rs), the boundary (src/src/parse_isolation.rs) *)
(* and the worker's text mirror (src/pmacs-parse-unit/src/lib.rs).         *)
(*                                                                         *)
(* One buffer: the slots of two buffers share nothing but the watchdog,    *)
(* which may kill any worker at any time.  Texts are numbered by edits;    *)
(* a worker's mirror is the text it holds, Garbled when edits were applied *)
(* to another text than they were made on.  The threads are the editor's   *)
(* (edits, ticks, reads of the tree), a pool thread per parse job, and the *)
(* workers, which crash, are killed or miss their deadline at any time.    *)
(***************************************************************************)
EXTENDS Integers, FiniteSets

CONSTANTS
    MaxText,      \* bound on the texts a session makes
    MaxCrashes,   \* MAX_CRASHES
    Serials,      \* serials of the workers, reused once nothing holds one
    Scenarios     \* what a session lets happen, one set for each: "kill" the
                  \* buffer, "cancel" a queued parse, "overwrite" (edits that
                  \* keep the length), "recycle" large workers, "fail" a parse
                  \* without a tree, "slow" parses and reads past their
                  \* bounds, "nospawn", "late" settles

ASSUME ConstantsAssumption ==
    /\ MaxText \in Nat \ {0} /\ MaxCrashes \in Nat \ {0}
    /\ Serials \subseteq Nat \ {0} /\ Serials # {}

VARIABLES
    text,     \* the buffer's text; 0 once it is killed
    view,     \* its ParseView: the parse on display, the worker holding it
    lua,      \* what syntax.lua keeps of it
    jobs,     \* parse jobs, by number
    slot,     \* the host's slot for the buffer
    units,    \* the worker processes, by serial
    died,     \* crashes of the slot's workers since a parse last came back
    ops       \* the session's scenario

vars == <<text, view, lua, jobs, slot, units, died, ops>>

Garbled == MaxText + 1
Jobs == {1, 2}

NoJob == [stage |-> "none", src |-> 0, base |-> 0, unit |-> 0, full |-> FALSE,
          first |-> TRUE, cancel |-> FALSE, ans |-> "none", got |-> 0]
NoSlot == [here |-> FALSE, unit |-> 0, retiring |-> 0, synced |-> FALSE,
           crashes |-> 0, backoff |-> FALSE, recycle |-> FALSE]
NoUnit == [alive |-> FALSE, mirror |-> 0, cause |-> "none"]

Stopped(s) == s.crashes >= MaxCrashes

\* One more crash in died, which is of no interest past MaxCrashes.
Crashed(d) == IF d < MaxCrashes THEN d + 1 ELSE d

\* Serials nothing refers to any more, and the one the next worker takes.
Free == {s \in Serials : /\ s \notin {slot.unit, slot.retiring, view.unit}
                         /\ \A j \in Jobs : jobs[j].unit # s}
Fresh(s) == s \in Free /\ \A r \in Free : s <= r

-----------------------------------------------------------------------------
(* The editor: edits and dispatch.                                         *)

\* make_isolated_request drains the view's edits into job j, queued on the
\* pool: the text t, and the edits that lead to it from the last request's.
Request(js, j, t, v) ==
    [js EXCEPT ![j] = [NoJob EXCEPT !.stage = "queued", !.src = t, !.base = v.base]]

\* Mutant: a parse in flight does not hold the next one back.
DispatchAnyway(t, v, l, js) ==
    IF \A j \in Jobs : js[j].stage # "none"
    THEN lua' = l /\ view' = v /\ jobs' = js
    ELSE \E j \in Jobs :
         /\ js[j].stage = "none"
         /\ \A k \in Jobs : js[k].stage = "none" => j <= k
         /\ lua' = [l EXCEPT !.inflight = j]
         /\ view' = [v EXCEPT !.base = t]
         /\ jobs' = Request(js, j, t, v)

\* syntax.lua's _dispatch of text t: while a parse of the buffer is in flight
\* the next one is only asked for.
Dispatch(t, v, l, js) ==
    IF l.inflight # 0
    THEN /\ lua' = [l EXCEPT !.requested = TRUE]
         /\ view' = v
         /\ jobs' = js
    ELSE \E j \in Jobs :
         /\ js[j].stage = "none"
         /\ \A k \in Jobs : js[k].stage = "none" => j <= k
         /\ lua' = [l EXCEPT !.inflight = j]
         /\ view' = [v EXCEPT !.base = t]
         /\ jobs' = Request(js, j, t, v)

\* An edit of the active buffer: the view records it, and after-edit asks for
\* a parse of the text it made.
Edit ==
    /\ text \in 1..(MaxText - 1)
    /\ text' = text + 1
    /\ Dispatch(text + 1, view, lua, jobs)
    /\ UNCHANGED <<slot, units, died, ops>>

\* Loading the buffer, or switching to it, parses it, edited or not.
Visit ==
    /\ text # 0
    /\ Dispatch(text, view, lua, jobs)
    /\ UNCHANGED <<text, slot, units, died, ops>>

\* The user cancels a parse in *workers*; only a queued one looks.
Cancel(j) ==
    /\ "cancel" \in ops
    /\ jobs[j].stage = "queued" /\ ~jobs[j].cancel
    /\ jobs' = [jobs EXCEPT ![j].cancel = TRUE]
    /\ UNCHANGED <<text, view, lua, slot, units, died, ops>>

-----------------------------------------------------------------------------
(* A parse on its pool thread.                                             *)

Settled(j, ans, got) ==
    jobs' = [jobs EXCEPT ![j] =
        [NoJob EXCEPT !.stage = "done", !.src = jobs[j].src, !.ans = ans, !.got = got,
                      !.unit = IF ans = "ok" THEN jobs[j].unit ELSE 0]]

\* run_isolated_parse: a job cancelled before it started replies so.
JobCancelled(j) ==
    /\ jobs[j].stage = "queued" /\ jobs[j].cancel
    /\ Settled(j, "cancelled", 0)
    /\ UNCHANGED <<text, view, lua, slot, units, died, ops>>

\* One parse at a time holds the slot's parse lock; a second attempt has it.
MayRun(j) ==
    \/ jobs[j].stage = "again" /\ slot.here
    \/ /\ jobs[j].stage = "queued" /\ ~jobs[j].cancel
       /\ \A k \in Jobs : jobs[k].stage \notin {"calling", "again"}

\* The slot of a buffer that has none is made afresh, a killed buffer's too.
Cell == IF slot.here THEN slot ELSE [NoSlot EXCEPT !.here = TRUE]

\* unit_for, its first part: on a parse's first attempt a worker past the
\* recycle threshold retires, and the one that was retiring is let go.
Retire(s, first) ==
    IF ~first THEN s
    ELSE IF s.recycle
         THEN [s EXCEPT !.retiring = s.unit, !.unit = 0, !.recycle = FALSE,
                        !.synced = FALSE]
         ELSE [s EXCEPT !.retiring = 0]

\* A worker the slot lets go of is killed as its last holder drops it.
LetGo(us, s) ==
    [u \in Serials |-> IF u \in {s.unit, s.retiring} THEN us[u]
                       ELSE NoUnit]

\* unit_for refuses: no worker, and the buffer is backing off or stopped.
JobHeld(j) ==
    LET s == Retire(Cell, jobs[j].first) IN
    /\ MayRun(j)
    /\ s.unit = 0 /\ (Stopped(s) \/ s.backoff)
    /\ slot' = s
    /\ units' = LetGo(units, s)
    /\ Settled(j, "held", 0)
    /\ UNCHANGED <<text, view, lua, died, ops>>

\* unit_for cannot start a worker.
JobUnavailable(j) ==
    LET s == Retire(Cell, jobs[j].first) IN
    /\ "nospawn" \in ops
    /\ MayRun(j)
    /\ s.unit = 0 /\ ~Stopped(s) /\ ~s.backoff
    /\ slot' = s
    /\ units' = LetGo(units, s)
    /\ Settled(j, "unavailable", 0)
    /\ UNCHANGED <<text, view, lua, died, ops>>

\* The request goes to the slot's worker: the whole text unless the worker's
\* mirror is in step.
Called(j, s) ==
    jobs' = [jobs EXCEPT ![j].stage = "calling", ![j].unit = s.unit,
                         ![j].full = ~s.synced, ![j].ans = "none"]

\* unit_for gives the buffer's worker, or starts a fresh one.
JobCalls(j) ==
    LET s == Retire(Cell, jobs[j].first) IN
    /\ MayRun(j)
    /\ \/ /\ s.unit # 0
          /\ slot' = s
          /\ units' = LetGo(units, s)
       \/ /\ s.unit = 0 /\ ~Stopped(s) /\ ~s.backoff
          /\ \E n \in Serials :
                /\ Fresh(n)
                /\ slot' = [s EXCEPT !.unit = n, !.synced = FALSE]
                /\ units' = [LetGo(units, s) EXCEPT ![n] = [NoUnit EXCEPT !.alive = TRUE]]
    /\ Called(j, slot')
    /\ UNCHANGED <<text, view, lua, died, ops>>

\* A second attempt after the buffer was killed runs in a worker of its own,
\* which goes with its answer.
JobOrphaned(j) ==
    /\ jobs[j].stage = "again" /\ ~slot.here
    /\ Settled(j, "failed", 0)
    /\ UNCHANGED <<text, view, lua, slot, units, died, ops>>

\* The worker's text after a request: the whole text, or its mirror with the
\* edits applied, which is the text only if the edits were made on the mirror.
Mirrored(j) ==
    LET m == units[jobs[j].unit].mirror IN
    IF jobs[j].full \/ m = jobs[j].base THEN jobs[j].src ELSE Garbled

\* The worker answers: parsed, stopped at the in-worker deadline, failed for
\* want of a tree or a language, or out of step, which it knows by a length or
\* a range that does not fit.
UnitAnswers(j, ans) ==
    LET u == jobs[j].unit IN
    /\ jobs[j].stage = "calling" /\ jobs[j].ans = "none" /\ units[u].alive
    /\ ans = "failed" => "fail" \in ops
    /\ ans = "overran" => "slow" \in ops
    /\ IF Mirrored(j) = Garbled THEN ans = "desync" \/ "overwrite" \in ops
                                ELSE ans # "desync"
    /\ units' = [units EXCEPT ![u].mirror = Mirrored(j)]
    /\ jobs' = [jobs EXCEPT ![j].ans = ans, ![j].got = Mirrored(j)]
    /\ UNCHANGED <<text, view, lua, slot, died, ops>>

\* A worker dies: it crashes, or a limit, the watchdog or the system kills it.
UnitDies(u, cause) ==
    /\ units[u].alive
    /\ units' = [units EXCEPT ![u] = [NoUnit EXCEPT !.cause = cause]]
    /\ died' = IF cause = "crash" /\ u = slot.unit THEN Crashed(died) ELSE died
    /\ UNCHANGED <<text, view, lua, jobs, slot, ops>>

\* Slot::note: a crash lengthens the streak and starts a back-off, until the
\* streak stops the buffer's parsing.
Note(s, cause) ==
    IF cause # "crash" THEN s
    ELSE [s EXCEPT !.crashes = @ + 1, !.backoff = s.crashes + 1 < MaxCrashes]

\* Mutant: the serial of the dead worker is not compared with the slot's.
BuryAny(s, u, cause) == Note([s EXCEPT !.unit = 0, !.synced = FALSE], cause)

\* SlotCell::bury: only a worker the slot still has is forgotten and noted.
Bury(s, u, cause) ==
    IF s.unit = u
    THEN Note([s EXCEPT !.unit = 0, !.synced = FALSE], cause)
    ELSE s

\* How a death reads to the settle path.  A limit's or an outside kill's has a
\* status of its own; the editor's other reasons (a read that ran too long, a
\* killed buffer) have none.  Of a crash, note's message says that it stopped
\* the parsing, the message of a worker already buried does not.
DeathMessage(s, u, cause) ==
    CASE cause = "kill" -> "stop"
      [] cause = "end" -> "failed"
      [] OTHER -> IF s.unit = u /\ Stopped(Bury(s, u, cause))
                  THEN "crash-stopped" ELSE "crashed"

\* run receives the parse: the mirror is in step, the streak ends, and the
\* tree is the one the worker parsed.
JobParsed(j) ==
    /\ jobs[j].stage = "calling" /\ jobs[j].ans = "parsed"
    /\ \E r \in BOOLEAN :
        /\ r => "recycle" \in ops
        /\ slot' = IF slot.here
                   THEN [slot EXCEPT !.synced = TRUE, !.crashes = 0, !.backoff = FALSE,
                                     !.recycle = r]
                   ELSE slot
    /\ died' = IF slot.unit # 0 /\ units[slot.unit].cause = "crash" THEN 1 ELSE 0
    /\ Settled(j, "ok", jobs[j].got)
    /\ UNCHANGED <<text, view, lua, units, ops>>

\* A parse that failed in a live worker: its text was applied.  Only the
\* deadline's message has a status, the others read "failed" (failure_message).
JobFailed(j) ==
    /\ jobs[j].stage = "calling" /\ jobs[j].ans \in {"overran", "failed"}
    /\ slot' = IF slot.here THEN [slot EXCEPT !.synced = TRUE] ELSE slot
    /\ Settled(j, IF jobs[j].ans = "overran" THEN "stop" ELSE "failed", 0)
    /\ UNCHANGED <<text, view, lua, units, died, ops>>

\* Out of step: once, the whole text is sent; twice, the parse gives up.
JobDesync(j) ==
    /\ jobs[j].stage = "calling" /\ jobs[j].ans = "desync"
    /\ slot' = IF slot.here THEN [slot EXCEPT !.synced = FALSE] ELSE slot
    /\ IF jobs[j].first
       THEN jobs' = [jobs EXCEPT ![j].stage = "again", ![j].first = FALSE]
       ELSE Settled(j, "failed", 0)
    /\ UNCHANGED <<text, view, lua, units, died, ops>>

\* The worker died before its answer came through: the death is buried.
JobDeath(j) ==
    LET u == jobs[j].unit IN
    /\ jobs[j].stage = "calling" /\ jobs[j].ans = "none" /\ ~units[u].alive
    /\ slot' = Bury(slot, u, units[u].cause)
    /\ units' = [units EXCEPT ![u] = NoUnit]
    /\ Settled(j, DeathMessage(slot, u, units[u].cause), 0)
    /\ UNCHANGED <<text, view, lua, died, ops>>

\* The deadline passes, or the time to install a parse that returned: the
\* worker is killed, whether or not its answer is on the way, and the answer
\* is lost with it.
JobTimesOut(j) ==
    LET u == jobs[j].unit IN
    /\ "slow" \in ops
    /\ jobs[j].stage = "calling"
    /\ slot' = Bury(slot, u, "kill")
    /\ units' = [units EXCEPT ![u] = NoUnit]
    /\ Settled(j, "stop", 0)
    /\ UNCHANGED <<text, view, lua, died, ops>>

-----------------------------------------------------------------------------
(* The editor's tick.                                                      *)

\* _install_settled: the bundle into the view; a failure drops the parse on
\* display if an edit moved its text (an append does not), or if no other
\* parse will come.
Installed(j, moved) ==
    LET r == jobs[j] IN
    CASE r.ans = "ok" -> [view EXCEPT !.current = r.src, !.shown = r.got, !.unit = r.unit,
                                      !.newest = r.src]
      [] r.ans = "cancelled" -> view
      [] OTHER -> IF r.ans = "crash-stopped" \/ (moved /\ view.current # text)
                  THEN [view EXCEPT !.current = 0, !.shown = 0, !.unit = 0]
                  ELSE view

\* What syntax.lua marks the buffer with, and whether a retry is set for the
\* end of the back-off.  Three outcomes set no mark: that no worker can start
\* is told once a session, a failed or cancelled parse is told to nobody; lost
\* records which.
Marked(j) ==
    LET r == jobs[j] IN
    CASE r.ans = "ok" -> [lua EXCEPT !.mark = "none", !.retry = FALSE, !.lost = "no"]
      [] r.ans \in {"crashed", "crash-stopped", "held"} ->
            [lua EXCEPT !.mark = IF r.ans = "crash-stopped" \/ @ = "stopped"
                                 THEN "stopped" ELSE "crashed",
                        !.retry = @ \/ (~Stopped(slot) /\ slot.backoff)]
      [] r.ans = "stop" -> [lua EXCEPT !.mark = IF @ = "stopped" THEN @ ELSE "stop"]
      [] r.ans = "unavailable" -> [lua EXCEPT !.lost = "told"]
      [] r.ans \in {"failed", "cancelled"} -> [lua EXCEPT !.lost = "silently"]

\* Mutant: what was asked for while a parse was in flight is forgotten.
FollowUpForgets(v, l, js) ==
    lua' = [l EXCEPT !.requested = FALSE] /\ view' = v /\ jobs' = js

\* dispatch_follow_up_if_dirty: the parse asked for while this one was in
\* flight, or edits nothing has asked to be parsed.
FollowUp(v, l, js) ==
    IF l.requested \/ text > v.base
    THEN Dispatch(text, v, [l EXCEPT !.requested = FALSE], js)
    ELSE lua' = l /\ view' = v /\ jobs' = js

\* The tick settles job j: installs it, tells of it, and dispatches the parse
\* that was asked for meanwhile.
Settle(j) ==
    LET l == Marked(j) IN
    /\ jobs[j].stage = "done" /\ text # 0
    /\ \E moved \in BOOLEAN :
        IF lua.inflight = j
        THEN FollowUp(Installed(j, moved), [l EXCEPT !.inflight = 0],
                      [jobs EXCEPT ![j] = NoJob])
        ELSE lua' = l /\ view' = Installed(j, moved) /\ jobs' = [jobs EXCEPT ![j] = NoJob]
    /\ UNCHANGED <<text, slot, units, died, ops>>

\* A settled parse of a killed buffer finds no view, and its bundle goes.
SettleGone(j) ==
    /\ jobs[j].stage = "done" /\ text = 0
    /\ jobs' = [jobs EXCEPT ![j] = NoJob]
    /\ UNCHANGED <<text, view, lua, slot, units, died, ops>>

\* retry_backed_off_parses: due once the back-off has ended.
Retry ==
    /\ lua.retry /\ text # 0 /\ ~slot.backoff
    /\ IF lua.mark = "crashed"
       THEN Dispatch(text, view, [lua EXCEPT !.retry = FALSE], jobs)
       ELSE lua' = [lua EXCEPT !.retry = FALSE] /\ UNCHANGED <<view, jobs>>
    /\ UNCHANGED <<text, slot, units, died, ops>>

\* A back-off ends.  It lasts a second or more and ticks come every frame, so
\* whatever saw it has been settled, unless settles come "late".
BackoffEnds ==
    /\ slot.backoff
    /\ "late" \in ops \/ \A j \in Jobs :
            /\ jobs[j].ans \notin {"crashed", "held"}
            /\ jobs[j].stage = "calling" => units[jobs[j].unit].alive
    /\ slot' = [slot EXCEPT !.backoff = FALSE]
    /\ UNCHANGED <<text, view, lua, jobs, units, died, ops>>

-----------------------------------------------------------------------------
(* Reads of the tree, by the renderers, on the editor's thread.            *)

Readable == text # 0 /\ view.current # 0 /\ slot.here

\* ask: the worker holding the tree turns out to be dead, and is buried.  The
\* read of a retiring worker changes nothing.
ReadFindsDeath ==
    LET u == view.unit IN
    /\ Readable /\ u = slot.unit /\ ~units[u].alive
    /\ slot' = Bury(slot, u, units[u].cause)
    /\ units' = IF \E j \in Jobs : jobs[j].unit = u THEN units
                ELSE [units EXCEPT ![u] = NoUnit]
    /\ UNCHANGED <<text, view, lua, jobs, died, ops>>

\* ask: the worker holding the tree does not answer in time and is killed for
\* it, a parse that runs in it too.
ReadTimesOut ==
    LET u == view.unit IN
    /\ "slow" \in ops
    /\ Readable /\ u \in {slot.unit, slot.retiring} /\ units[u].alive
    /\ slot' = Bury(slot, u, "end")
    /\ units' = [units EXCEPT ![u] =
            IF u = slot.retiring \/ \E j \in Jobs : jobs[j].unit = u
            THEN [NoUnit EXCEPT !.cause = "end"] ELSE NoUnit]
    /\ UNCHANGED <<text, view, lua, jobs, died, ops>>

\* Nothing holds the buffer, no parse of it runs and its parsing has not
\* stopped: the tree's text may be parsed into a fresh worker.
MayReestablish ==
    /\ slot.unit = 0 /\ ~Stopped(slot)
    /\ \A j \in Jobs : jobs[j].stage \notin {"calling", "again"}

\* reestablish, when the fresh worker parses it.
Reestablish ==
    /\ Readable /\ view.unit # slot.retiring /\ MayReestablish
    /\ \E n \in Serials :
        /\ Fresh(n)
        /\ slot' = [slot EXCEPT !.unit = n, !.synced = FALSE]
        /\ units' = [units EXCEPT ![n] = [NoUnit EXCEPT !.alive = TRUE,
                                                        !.mirror = view.current]]
        /\ view' = [view EXCEPT !.unit = n, !.shown = view.current]
    /\ UNCHANGED <<text, lua, jobs, died, ops>>

\* reestablish, when the fresh worker crashes: that counts like any crash.
ReestablishCrashes ==
    /\ Readable /\ view.unit # slot.retiring /\ MayReestablish
    /\ slot' = Note(slot, "crash")
    /\ died' = Crashed(died)
    /\ UNCHANGED <<text, view, lua, jobs, units, ops>>

-----------------------------------------------------------------------------
\* Killing the buffer detaches its view and forgets its slot: its workers are
\* killed, and a parse still in flight fails as for a dead worker.
KillBuffer ==
    /\ "kill" \in ops /\ text # 0
    /\ text' = 0
    /\ view' = [view EXCEPT !.current = 0, !.shown = 0, !.unit = 0]
    /\ slot' = NoSlot
    /\ units' = [u \in Serials |->
            IF u \in {slot.unit, slot.retiring} /\ units[u].alive
            THEN [NoUnit EXCEPT !.cause = "end"] ELSE units[u]]
    /\ died' = 0
    /\ UNCHANGED <<lua, jobs, ops>>

-----------------------------------------------------------------------------
\* The buffer has just been loaded, and its first parse dispatched.
Init ==
    /\ text = 1
    /\ view = [current |-> 0, shown |-> 0, unit |-> 0, base |-> 1, newest |-> 0]
    /\ lua = [inflight |-> 1, requested |-> FALSE, mark |-> "none", retry |-> FALSE,
              lost |-> "no"]
    /\ jobs = Request([j \in Jobs |-> NoJob], 1, 1, view)
    /\ slot = NoSlot
    /\ units = [u \in Serials |-> NoUnit]
    /\ died = 0
    /\ ops \in Scenarios

\* The steps of job j's pool thread and of the worker it waits for.
Runs(j) ==
    \/ JobCancelled(j) \/ JobHeld(j) \/ JobUnavailable(j) \/ JobCalls(j)
    \/ JobOrphaned(j) \/ JobParsed(j) \/ JobFailed(j) \/ JobDesync(j)
    \/ JobDeath(j) \/ JobTimesOut(j)
    \/ \E ans \in {"parsed", "overran", "failed", "desync"} : UnitAnswers(j, ans)

Next ==
    \/ Edit \/ Visit \/ Retry \/ BackoffEnds
    \/ ReadFindsDeath \/ ReadTimesOut \/ Reestablish \/ ReestablishCrashes \/ KillBuffer
    \/ \E j \in Jobs : Cancel(j) \/ Runs(j) \/ Settle(j) \/ SettleGone(j)
    \/ \E u \in Serials, cause \in {"crash", "kill"} : UnitDies(u, cause)

Spec == Init /\ [][Next]_vars

\* The pool runs its jobs, workers answer or die, the daemon ticks every frame,
\* and time ends a back-off whatever happens.
Fairness ==
    /\ \A j \in Jobs : WF_vars(Runs(j)) /\ WF_vars(Settle(j))
    /\ WF_vars(Retry) /\ SF_vars(BackoffEnds)

FairSpec == Spec /\ Fairness

-----------------------------------------------------------------------------
(* Properties.                                                             *)

\* The shape of every variable; the streak of crashes never passes its cap.
TypeOK ==
    /\ text \in 0..MaxText
    /\ view \in [current : 0..MaxText, shown : 0..Garbled, unit : Serials \cup {0},
                 base : 1..MaxText, newest : 0..MaxText]
    /\ lua \in [inflight : {0} \cup Jobs, requested : BOOLEAN, retry : BOOLEAN,
                mark : {"none", "crashed", "stopped", "stop"}, lost : {"no", "told", "silently"}]
    /\ jobs \in [Jobs ->
         [stage : {"none", "queued", "calling", "again", "done"}, src : 0..MaxText,
          base : 0..MaxText, unit : Serials \cup {0}, full : BOOLEAN, first : BOOLEAN,
          cancel : BOOLEAN, got : 0..Garbled,
          ans : {"none", "parsed", "overran", "failed", "desync", "ok", "cancelled", "held",
                 "unavailable", "stop", "crashed", "crash-stopped"}]]
    /\ slot \in [here : BOOLEAN, unit : Serials \cup {0}, retiring : Serials \cup {0},
                 synced : BOOLEAN, crashes : 0..MaxCrashes, backoff : BOOLEAN,
                 recycle : BOOLEAN]
    /\ units \in [Serials -> [alive : BOOLEAN, mirror : 0..Garbled,
                              cause : {"none", "crash", "kill", "end"}]]
    /\ died \in 0..MaxCrashes

\* Whatever workers crash, are replaced or answer late, what is painted comes
\* from a parse of one of the buffer's own texts, and an older parse never
\* replaces a newer one: the view implements Highlighter.
H == INSTANCE Highlighter WITH painted <- view.shown, newest <- view.newest
Highlights == H!Spec

\* Several readers find one worker dead; the streak counts each crash at most
\* once, so parsing stops only after MAX_CRASHES real crashes in a row.
EarnedStop == slot.crashes <= died

\* A buffer that shows no mark and has no parse in flight shows its own text,
\* unless the parse that came back last set no mark: whatever is edited, asked
\* for and settled meanwhile, no request is dropped.
UnmarkedIsCurrent ==
    text # 0 /\ lua.inflight = 0 /\ lua.mark = "none" /\ lua.lost = "no"
        => view.current = text

\* What is kept of a buffer's worker and of its parse: the three above.
ParseInv == TypeOK /\ EarnedStop /\ UnmarkedIsCurrent

\* Refuted by ParseLeak.cfg.  parse_isolation.rs, forget: "so a long-lived
\* editor does not keep a worker per buffer it ever opened".
KilledKeepsNoWorker ==
    text = 0 /\ (\A j \in Jobs : jobs[j].stage = "none") => \A u \in Serials : ~units[u].alive

\* Refuted by ParseCancel.cfg.  The tree on display is a parse of the text it is
\* kept with.
TreeOfItsText == view.shown = view.current

\* Refuted by ParseSilent.cfg.  lua_bindings/mod.rs:8762: what happened is
\* returned "for `syntax.lua` to tell the user once", "failed" among it.  An old
\* tree is not left on display with nothing said.
LossIsTold ==
    text # 0 /\ lua.inflight = 0 /\ lua.mark = "none" /\ lua.lost # "told"
        => view.current = text

\* Parses may come back failed or cancelled, which syntax.lua tells nobody.
MayLoseSilently == ops \cap {"cancel", "fail", "slow"} # {}

\* Once the edits stop, the buffer is painted from its last text, or a mark or
\* the session's notice says why not, or it was lost silently: only to a parse
\* the user cancelled, one its worker failed, or one killed by a slow read.  A
\* mark of a crash that backs off does not stay.
EventuallyCurrent ==
    <>[](\/ view.current = text \/ text = 0
         \/ lua.lost = "told" \/ (lua.lost = "silently" /\ MayLoseSilently)
         \/ lua.mark = "stop" \/ Stopped(slot))
=============================================================================
