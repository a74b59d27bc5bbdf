-------------------------- MODULE ParseUnitsProofs --------------------------
(***************************************************************************)
(* What ParseUnits guarantees for any number of texts, workers and crashes *)
(* (src/src/parse_isolation.rs, src/src/syntax.rs, syntax.lua): its types, *)
(* that parsing stops only for crashes that happened, that no request is   *)
(* dropped, and that what is painted implements Highlighter.               *)
(***************************************************************************)
EXTENDS ParseUnits, TLAPS

Views == [current : 0..MaxText, shown : 0..Garbled, unit : Serials \cup {0},
          base : 1..MaxText, newest : 0..MaxText]
Luas == [inflight : {0} \cup Jobs, requested : BOOLEAN, retry : BOOLEAN,
         mark : {"none", "crashed", "stopped", "stop"}, lost : {"no", "told", "silently"}]
Answers == {"ok", "cancelled", "held", "unavailable", "stop", "failed",
            "crashed", "crash-stopped"}
Replies == {"none", "parsed", "overran", "failed", "desync", "ok", "cancelled", "held",
            "unavailable", "stop", "crashed", "crash-stopped"}
Job == [stage : {"none", "queued", "calling", "again", "done"}, src : 0..MaxText,
        base : 0..MaxText, unit : Serials \cup {0}, full : BOOLEAN, first : BOOLEAN,
        cancel : BOOLEAN, got : 0..Garbled,
        ans : Replies]
Slots == [here : BOOLEAN, unit : Serials \cup {0}, retiring : Serials \cup {0},
          synced : BOOLEAN, crashes : 0..MaxCrashes, backoff : BOOLEAN,
          recycle : BOOLEAN]
Causes == {"none", "crash", "kill", "end"}
Unit == [alive : BOOLEAN, mirror : 0..Garbled, cause : Causes]

(* A slot that is not there is empty, one with a worker has not stopped,   *)
(* and a crash its worker died of is not in the streak yet.                *)
SlotInv ==
    /\ ~slot.here => slot = NoSlot
    /\ slot.unit # 0 => slot.crashes < MaxCrashes
    /\ slot.unit # 0 /\ units[slot.unit].cause = "crash" => slot.crashes < died
    /\ EarnedStop

(* One parse at a time, and it is the one syntax.lua waits for; one that   *)
(* calls has a worker, the slot's unless that was buried.                  *)
JobsFit(js, l, v, s) ==
    \A j \in Jobs :
      /\ js[j].stage # "none" => l.inflight = j /\ js[j].src = v.base
      /\ js[j].stage = "calling" => js[j].unit # 0 /\ s.unit \in {0, js[j].unit}
      /\ js[j].stage = "done" => js[j].ans \in Answers
      /\ js[j].ans = "ok" => js[j].unit # 0

JobInv ==
    /\ JobsFit(jobs, lua, view, slot)
    /\ text # 0 /\ lua.inflight # 0 => jobs[lua.inflight].stage # "none"

(* What is on display was asked for before the last request, which was of  *)
(* a text of the buffer.                                                   *)
ViewFits(v) ==
    /\ v.current \in {0, v.newest}
    /\ v.current # 0 => v.unit # 0
    /\ v.newest <= v.base

ViewInv == ViewFits(view) /\ (text # 0 => view.base <= text)

ParseIInv == TypeOK /\ SlotInv /\ JobInv /\ ViewInv /\ UnmarkedIsCurrent

-----------------------------------------------------------------------------
(* The types of the operators.                                             *)

(* The empty records.                                                      *)
LEMMA EmptyTypes == NoJob \in Job /\ NoSlot \in Slots /\ NoUnit \in Unit
  BY ConstantsAssumption DEF NoJob, Job, Replies, NoSlot, Slots, NoUnit, Unit, Causes, Garbled

(* A settled parse is a job.                                               *)
LEMMA SettledType ==
  ASSUME TypeOK, NEW j \in Jobs, NEW ans \in Answers, NEW got \in 0..Garbled,
         Settled(j, ans, got)
  PROVE  jobs' \in [Jobs -> Job]
<1> DEFINE r == [NoJob EXCEPT !.stage = "done", !.src = jobs[j].src, !.ans = ans,
                              !.got = got,
                              !.unit = IF ans = "ok" THEN jobs[j].unit ELSE 0]
<1>1. jobs[j].src \in 0..MaxText /\ jobs[j].unit \in Serials \cup {0}
  BY DEF TypeOK
<1>2. r \in Job
  <2>1. ans \in Replies
    BY DEF Answers, Replies
  <2>2. (IF ans = "ok" THEN jobs[j].unit ELSE 0) \in Serials \cup {0}
    BY <1>1
  <2>3. 0 \in 0..MaxText
    BY ConstantsAssumption
  <2>4. QED
    BY <1>1, <2>1, <2>2, <2>3 DEF Job, NoJob
<1>3. jobs' = [jobs EXCEPT ![j] = r]
  BY DEF Settled
<1>4. jobs \in [Jobs -> Job]
  BY DEF TypeOK, Job, Replies
<1> HIDE DEF r
<1>5. QED
  BY <1>2, <1>3, <1>4

(* A dispatch keeps the types of what it changes.                          *)
LEMMA DispatchType ==
  ASSUME NEW t \in 1..MaxText, NEW v \in Views, NEW l \in Luas,
         NEW js \in [Jobs -> Job], Dispatch(t, v, l, js)
  PROVE  lua' \in Luas /\ view' \in Views /\ jobs' \in [Jobs -> Job]
<1>1. CASE l.inflight # 0
  BY <1>1 DEF Dispatch, Luas
<1>2. CASE l.inflight = 0
  <2>1. PICK j \in Jobs : /\ lua' = [l EXCEPT !.inflight = j]
                          /\ view' = [v EXCEPT !.base = t]
                          /\ jobs' = Request(js, j, t, v)
    BY <1>2 DEF Dispatch
  <2>2. jobs' \in [Jobs -> Job]
    <3> DEFINE r == [NoJob EXCEPT !.stage = "queued", !.src = t, !.base = v.base]
    <3>1. r \in Job
      <4>1. t \in 0..MaxText /\ v.base \in 0..MaxText
        BY ConstantsAssumption DEF Views
      <4>2. QED
        BY <4>1, EmptyTypes DEF Job
    <3>2. jobs' = [js EXCEPT ![j] = r]
      BY <2>1 DEF Request
    <3> HIDE DEF r
    <3>3. QED
      BY <3>1, <3>2
  <2>3. QED
    BY <2>1, <2>2 DEF Luas, Views
<1>3. QED
  BY <1>1, <1>2

(* The choice of a slot's worker keeps its streak and its back-off, and    *)
(* puts nothing in step.                                                   *)
LEMMA RetireType ==
  ASSUME NEW s \in Slots, NEW first \in BOOLEAN
  PROVE  /\ Retire(s, first) \in Slots
         /\ Retire(s, first).crashes = s.crashes
         /\ Retire(s, first).backoff = s.backoff
         /\ Retire(s, first).here = s.here
         /\ Retire(s, first).unit \in {0, s.unit}
         /\ Retire(s, first).unit = s.unit => Retire(s, first).synced \in {FALSE, s.synced}
  BY DEF Retire, Slots

(* The workers stay workers when some of them are let go.                  *)
LEMMA LetGoType ==
  ASSUME NEW us \in [Serials -> Unit], NEW s \in Slots
  PROVE  LetGo(us, s) \in [Serials -> Unit]
  BY EmptyTypes DEF LetGo

(* A crash is one more of the streak.                                      *)
LEMMA NoteType ==
  ASSUME NEW s \in Slots, s.crashes < MaxCrashes
  PROVE  /\ Note(s, "crash") \in Slots
         /\ Note(s, "crash").crashes = s.crashes + 1
         /\ Note(s, "crash").unit = s.unit
         /\ Note(s, "crash").here = s.here
         /\ Note(s, "crash").synced = s.synced
<1> DEFINE b == s.crashes + 1 < MaxCrashes
<1>1. b \in BOOLEAN
  OBVIOUS
<1>2. Note(s, "crash") = [s EXCEPT !.crashes = @ + 1, !.backoff = b]
  BY DEF Note
<1>3. s.crashes + 1 \in 0..MaxCrashes
  BY ConstantsAssumption DEF Slots
<1> HIDE DEF b
<1>4. QED
  BY <1>1, <1>2, <1>3 DEF Slots

(* A burial empties the slot of its worker and counts its crash, in a slot *)
(* whose streak has room, and leaves a slot with another worker alone.     *)
LEMMA BuryType ==
  ASSUME NEW s \in Slots, NEW u \in Serials \cup {0}, NEW cause \in Causes,
         s.unit # 0 => s.crashes < MaxCrashes, u # 0
  PROVE  /\ Bury(s, u, cause) \in Slots
         /\ Bury(s, u, cause).unit \in {0, s.unit}
         /\ s.unit = u => Bury(s, u, cause).unit = 0
         /\ s.unit # u => Bury(s, u, cause) = s
         /\ Bury(s, u, cause).here = s.here
         /\ s.unit = u => Bury(s, u, cause).synced = FALSE
         /\ Bury(s, u, cause).crashes =
              IF s.unit = u /\ cause = "crash" THEN s.crashes + 1 ELSE s.crashes
<1>1. CASE s.unit # u
  BY <1>1 DEF Bury
<1>2. CASE s.unit = u
  <2> DEFINE t == [s EXCEPT !.unit = 0, !.synced = FALSE]
  <2>1. /\ t \in Slots /\ t.crashes = s.crashes /\ t.unit = 0 /\ t.here = s.here
        /\ t.synced = FALSE
    BY DEF Slots
  <2>2. Bury(s, u, cause) = Note(t, cause)
    BY <1>2 DEF Bury
  <2>3. s.crashes < MaxCrashes
    BY <1>2
  <2> HIDE DEF t
  <2>4. CASE cause = "crash"
    BY <1>2, <2>1, <2>2, <2>3, <2>4, NoteType
  <2>5. CASE cause # "crash"
    BY <1>2, <2>1, <2>2, <2>5 DEF Note
  <2>6. QED
    BY <2>4, <2>5
<1>3. QED
  BY <1>1, <1>2

(* The same of the buffer's slot. *)
LEMMA BuryShape ==
  ASSUME slot \in Slots, slot.unit # 0 => slot.crashes < MaxCrashes,
         NEW u \in Serials, NEW cause \in Causes, slot' = Bury(slot, u, cause)
  PROVE  /\ slot' \in Slots /\ slot'.here = slot.here /\ slot'.unit \in {0, slot.unit}
         /\ slot.unit = u => slot'.unit = 0
         /\ slot.unit # u => slot' = slot
         /\ slot'.crashes = IF slot.unit = u /\ cause = "crash" THEN slot.crashes + 1
                            ELSE slot.crashes
<1>1. u \in Serials \cup {0} /\ u # 0
  BY ConstantsAssumption
<1> HIDE DEF Slots, Causes
<1>2. QED
  BY <1>1, BuryType

(* The types, in terms of the sets above.                                  *)
Typed ==
  /\ text \in 0..MaxText /\ view \in Views /\ lua \in Luas
  /\ jobs \in [Jobs -> Job] /\ slot \in Slots
  /\ units \in [Serials -> Unit] /\ died \in 0..MaxCrashes

(* They are those of TypeOK.                                               *)
LEMMA TypeParts == TypeOK <=> Typed
  BY DEF TypeOK, Typed, Views, Luas, Job, Replies, Slots, Unit, Causes

(* Every step keeps the types.                                             *)
LEMMA ParseTypeStep == ParseIInv /\ [Next]_vars => TypeOK'
<1> SUFFICES ASSUME ParseIInv, [Next]_vars PROVE Typed'
  BY TypeParts, PTL
<1>0. Typed /\ TypeOK
  BY TypeParts DEF ParseIInv
<1>c. Cell \in Slots
  BY <1>0, EmptyTypes DEF Typed, Cell, Slots
<1>d. Crashed(died) \in 0..MaxCrashes
  BY <1>0, ConstantsAssumption DEF Typed, Crashed
<1>r. ASSUME NEW j \in Jobs PROVE Retire(Cell, jobs[j].first) \in Slots
  BY <1>0, <1>c, RetireType DEF Typed, Job
<1>t. text # 0 => text \in 1..MaxText
  BY <1>0, ConstantsAssumption DEF Typed
<1>g. 0 \in 0..Garbled /\ 0 \in 0..MaxText /\ 0 \in 0..MaxCrashes
  BY ConstantsAssumption DEF Garbled
<1>b. ASSUME NEW u \in Serials, NEW cause \in Causes
      PROVE  Bury(slot, u, cause) \in Slots
  <2>1. slot.unit # 0 => slot.crashes < MaxCrashes
    BY DEF ParseIInv, SlotInv
  <2>2. u # 0 /\ u \in Serials \cup {0}
    BY ConstantsAssumption
  <2>3. QED
    BY <1>0, <2>1, <2>2, BuryType DEF Typed
<1>1. CASE Edit
  BY <1>0, <1>1, DispatchType, ConstantsAssumption DEF Edit, Typed
<1>2. CASE Visit
  BY <1>0, <1>2, <1>t, DispatchType DEF Visit, Typed
<1>3. CASE Retry
  <2>1. [lua EXCEPT !.retry = FALSE] \in Luas
    BY <1>0 DEF Luas, Typed
  <2>2. lua' \in Luas /\ view' \in Views /\ jobs' \in [Jobs -> Job]
    <3>1. CASE lua.mark = "crashed"
      BY <1>0, <1>3, <1>t, <2>1, <3>1, DispatchType DEF Retry, Typed
    <3>2. CASE lua.mark # "crashed"
      BY <1>0, <1>3, <2>1, <3>2 DEF Retry, Typed
    <3>3. QED
      BY <3>1, <3>2
  <2>3. QED
    BY <1>0, <1>3, <2>2 DEF Retry, Typed
<1>4. CASE BackoffEnds
  BY <1>0, <1>4 DEF BackoffEnds, Slots, Typed
<1>5. CASE ReadFindsDeath
  <2>1. view.unit \in Serials
    BY <1>0, <1>5 DEF ReadFindsDeath, Readable, ParseIInv, ViewInv, ViewFits, Typed, Views
  <2>2. units[view.unit].cause \in Causes
    BY <1>0, <2>1 DEF Typed, Unit
  <2>3. slot' \in Slots
    BY <1>5, <1>b, <2>1, <2>2 DEF ReadFindsDeath
  <2>4. units' \in [Serials -> Unit]
    BY <1>0, <1>5, EmptyTypes DEF ReadFindsDeath, Typed
  <2>5. QED
    BY <1>0, <1>5, <2>3, <2>4 DEF ReadFindsDeath, Typed
<1>5a. CASE ReadTimesOut
  <2>1. view.unit \in Serials
    BY <1>0, <1>5a DEF ReadTimesOut, Readable, ParseIInv, ViewInv, ViewFits, Typed, Views
  <2>2. slot' \in Slots
    <3>1. "end" \in Causes
      BY DEF Causes
    <3> HIDE DEF Causes
    <3>2. QED
      BY <1>5a, <1>b, <2>1, <3>1 DEF ReadTimesOut
  <2>3. [NoUnit EXCEPT !.cause = "end"] \in Unit
    BY EmptyTypes DEF Unit, Causes
  <2>4. units' \in [Serials -> Unit]
    BY <1>0, <1>5a, <2>1, <2>3, EmptyTypes DEF ReadTimesOut, Typed
  <2>5. QED
    BY <1>0, <1>5a, <2>2, <2>4 DEF ReadTimesOut, Typed
<1>6. CASE Reestablish
  <2>1. PICK n \in Serials :
          /\ slot' = [slot EXCEPT !.unit = n, !.synced = FALSE]
          /\ units' = [units EXCEPT ![n] = [NoUnit EXCEPT !.alive = TRUE,
                                                          !.mirror = view.current]]
          /\ view' = [view EXCEPT !.unit = n, !.shown = view.current]
    BY <1>6 DEF Reestablish
  <2>2. view.current \in 0..Garbled
    BY <1>0, ConstantsAssumption DEF Typed, Views, Garbled
  <2>3. [NoUnit EXCEPT !.alive = TRUE, !.mirror = view.current] \in Unit
    BY <2>2, EmptyTypes DEF Unit
  <2>4. slot' \in Slots
    BY <1>0, <2>1 DEF Typed, Slots
  <2>5. view' \in Views
    BY <1>0, <2>1, <2>2 DEF Typed, Views
  <2>6. QED
    BY <1>0, <1>6, <2>1, <2>3, <2>4, <2>5 DEF Reestablish, Typed
<1>7. CASE ReestablishCrashes
  <2>1. slot.crashes < MaxCrashes
    BY <1>0, <1>7, ConstantsAssumption
       DEF ReestablishCrashes, MayReestablish, Stopped, Typed, Slots
  <2>2. slot' \in Slots
    BY <1>0, <1>7, <2>1, NoteType DEF ReestablishCrashes, Typed
  <2>3. QED
    BY <1>0, <1>7, <1>d, <2>2 DEF ReestablishCrashes, Typed
<1>8. CASE KillBuffer
  <2>1. view' \in Views
    BY <1>0, <1>8, <1>g DEF KillBuffer, Typed, Views
  <2>2. [NoUnit EXCEPT !.cause = "end"] \in Unit
    BY EmptyTypes DEF Unit, Causes
  <2>3. units' \in [Serials -> Unit]
    BY <1>0, <1>8, <2>2 DEF KillBuffer, Typed
  <2>4. QED
    BY <1>0, <1>8, <2>1, <2>3, EmptyTypes, ConstantsAssumption DEF KillBuffer, Typed
<1>9. ASSUME NEW j \in Jobs, Cancel(j) PROVE Typed'
  <2>1. jobs \in [Jobs -> Job]
    BY <1>0 DEF Typed
  <2>2. [jobs[j] EXCEPT !.cancel = TRUE] \in Job
    BY <2>1 DEF Job
  <2>3. jobs' = [jobs EXCEPT ![j] = [jobs[j] EXCEPT !.cancel = TRUE]]
    BY <1>9 DEF Cancel
  <2> HIDE DEF Job
  <2>4. jobs' \in [Jobs -> Job]
    BY <2>1, <2>2, <2>3
  <2>5. QED
    BY <1>0, <1>9, <2>4 DEF Cancel, Typed
<1>10. ASSUME NEW j \in Jobs, JobCancelled(j) PROVE Typed'
  BY <1>0, <1>10, <1>g, SettledType DEF JobCancelled, Answers, Typed
<1>11. ASSUME NEW j \in Jobs, JobHeld(j) PROVE Typed'
  BY <1>0, <1>r, <1>11, <1>g, SettledType, LetGoType DEF JobHeld, Answers, Typed
<1>12. ASSUME NEW j \in Jobs, JobUnavailable(j) PROVE Typed'
  BY <1>0, <1>r, <1>12, <1>g, SettledType, LetGoType DEF JobUnavailable, Answers, Typed
<1>13. ASSUME NEW j \in Jobs, JobCalls(j) PROVE Typed'
  <2> DEFINE s == Retire(Cell, jobs[j].first)
  <2>1. s \in Slots /\ LetGo(units, s) \in [Serials -> Unit]
    BY <1>0, <1>r, LetGoType DEF Typed
  <2> HIDE DEF s
  <2>2. slot' \in Slots
    BY <1>13, <2>1 DEF JobCalls, Slots, s
  <2>3. [NoUnit EXCEPT !.alive = TRUE] \in Unit
    BY EmptyTypes DEF Unit, Causes
  <2>4. units' \in [Serials -> Unit]
    BY <1>13, <2>1, <2>3 DEF JobCalls, s
  <2>5. jobs' \in [Jobs -> Job]
    <3> DEFINE full == ~slot'.synced
    <3>1. full \in BOOLEAN /\ slot'.unit \in Serials \cup {0}
      BY <2>2 DEF Slots
    <3>2. jobs' = [jobs EXCEPT ![j].stage = "calling", ![j].unit = slot'.unit,
                               ![j].full = full, ![j].ans = "none"]
      BY <1>13 DEF JobCalls, Called
    <3> HIDE DEF full
    <3>3. [jobs[j] EXCEPT !.stage = "calling", !.unit = slot'.unit, !.full = full,
                          !.ans = "none"] \in Job
      <4>1. jobs[j] \in Job /\ "none" \in Replies
        BY <1>0 DEF Typed, Replies
      <4>2. QED
        BY <3>1, <4>1 DEF Job
    <3>4. QED
      BY <1>0, <3>2, <3>3 DEF Typed
  <2>6. QED
    BY <1>0, <1>13, <2>2, <2>4, <2>5 DEF JobCalls, Typed
<1>14. ASSUME NEW j \in Jobs, JobOrphaned(j) PROVE Typed'
  BY <1>0, <1>14, <1>g, SettledType DEF JobOrphaned, Answers, Typed
<1>15. ASSUME NEW j \in Jobs, JobParsed(j) PROVE Typed'
  <2>1. jobs' \in [Jobs -> Job]
    BY <1>0, <1>15, SettledType DEF JobParsed, Answers, Typed, Job
  <2>2. slot' \in Slots
    BY <1>0, <1>15, <1>g, ZenonT(40) DEF JobParsed, Typed, Slots
  <2>3. QED
    BY <1>0, <1>15, <2>1, <2>2, ConstantsAssumption DEF JobParsed, Typed
<1>16. ASSUME NEW j \in Jobs, JobFailed(j) PROVE Typed'
  <2>1. jobs' \in [Jobs -> Job]
    BY <1>0, <1>16, <1>g, SettledType DEF JobFailed, Answers, Typed
  <2>2. slot' \in Slots
    BY <1>0, <1>16 DEF JobFailed, Typed, Slots
  <2>3. QED
    BY <1>0, <1>16, <2>1, <2>2 DEF JobFailed, Typed
<1>17. ASSUME NEW j \in Jobs, JobDesync(j) PROVE Typed'
  <2>1. jobs' \in [Jobs -> Job]
    <3>1. CASE jobs[j].first
      BY <1>0, <1>17, <3>1 DEF JobDesync, Typed, Job
    <3>2. CASE ~jobs[j].first
      BY <1>0, <1>17, <1>g, <3>2, SettledType DEF JobDesync, Answers, Typed
    <3>3. QED
      BY <3>1, <3>2
  <2>2. slot' \in Slots
    BY <1>0, <1>17 DEF JobDesync, Typed, Slots
  <2>3. QED
    BY <1>0, <1>17, <2>1, <2>2 DEF JobDesync, Typed
<1>18. ASSUME NEW j \in Jobs, JobDeath(j) PROVE Typed'
  <2>1. jobs[j].unit \in Serials
    BY <1>0, <1>18 DEF JobDeath, ParseIInv, JobInv, JobsFit, Typed, Job
  <2>2. units[jobs[j].unit].cause \in Causes
    BY <1>0, <2>1 DEF Typed, Unit
  <2>3. slot' \in Slots
    BY <1>18, <1>b, <2>1, <2>2 DEF JobDeath
  <2>4. DeathMessage(slot, jobs[j].unit, units[jobs[j].unit].cause) \in Answers
    BY DEF DeathMessage, Answers
  <2>5. jobs' \in [Jobs -> Job]
    BY <1>0, <1>18, <1>g, <2>4, SettledType DEF JobDeath
  <2>6. QED
    BY <1>0, <1>18, <2>3, <2>5, EmptyTypes DEF JobDeath, Typed
<1>19. ASSUME NEW j \in Jobs, JobTimesOut(j) PROVE Typed'
  <2>1. jobs[j].unit \in Serials
    BY <1>0, <1>19 DEF JobTimesOut, ParseIInv, JobInv, JobsFit, Typed, Job
  <2>2. slot' \in Slots
    <3>1. "kill" \in Causes
      BY DEF Causes
    <3> HIDE DEF Causes
    <3>2. QED
      BY <1>19, <1>b, <2>1, <3>1 DEF JobTimesOut
  <2>3. jobs' \in [Jobs -> Job]
    BY <1>0, <1>19, <1>g, SettledType DEF JobTimesOut, Answers
  <2>4. QED
    BY <1>0, <1>19, <2>2, <2>3, EmptyTypes DEF JobTimesOut, Typed
<1>20. ASSUME NEW j \in Jobs, NEW ans \in {"parsed", "overran", "failed", "desync"}, UnitAnswers(j, ans)
       PROVE Typed'
  <2>1. Mirrored(j) \in 0..Garbled
    BY <1>0, ConstantsAssumption DEF Mirrored, Garbled, Typed, Job
  <2>2. units' \in [Serials -> Unit]
    BY <1>0, <1>20, <2>1 DEF UnitAnswers, Unit, Typed
  <2>3. jobs' \in [Jobs -> Job]
    <3>1. [jobs[j] EXCEPT !.ans = ans, !.got = Mirrored(j)] \in Job
      <4>1. jobs[j] \in Job /\ ans \in Replies
        BY <1>0 DEF Typed, Replies
      <4>2. QED
        BY <2>1, <4>1 DEF Job
    <3>2. jobs' = [jobs EXCEPT ![j].ans = ans, ![j].got = Mirrored(j)]
      BY <1>20 DEF UnitAnswers
    <3>3. QED
      BY <1>0, <3>1, <3>2 DEF Typed
  <2>4. QED
    BY <1>0, <1>20, <2>2, <2>3 DEF UnitAnswers, Typed
<1>21. ASSUME NEW j \in Jobs, Settle(j) PROVE Typed'
  <2>1. Marked(j) \in Luas
    BY <1>0, <1>21 DEF Marked, Settle, Luas, Typed, ParseIInv, JobInv, JobsFit, Answers
  <2>2. ASSUME NEW moved \in BOOLEAN PROVE Installed(j, moved) \in Views
    <3>1. /\ jobs[j].src \in 0..MaxText /\ jobs[j].got \in 0..Garbled
          /\ jobs[j].unit \in Serials \cup {0}
      BY <1>0 DEF Typed, Job
    <3>2. /\ [view EXCEPT !.current = 0, !.shown = 0, !.unit = 0] \in Views
          /\ [view EXCEPT !.current = jobs[j].src, !.shown = jobs[j].got,
                          !.unit = jobs[j].unit, !.newest = jobs[j].src] \in Views
      BY <1>0, <1>g, <3>1 DEF Typed, Views
    <3>3. QED
      BY <1>0, <3>2 DEF Installed, Typed
  <2>3. [jobs EXCEPT ![j] = NoJob] \in [Jobs -> Job]
    BY <1>0, EmptyTypes DEF Typed
  <2>4. [Marked(j) EXCEPT !.inflight = 0] \in Luas
    BY <2>1 DEF Luas
  <2>5. PICK moved \in BOOLEAN :
          IF lua.inflight = j
          THEN FollowUp(Installed(j, moved), [Marked(j) EXCEPT !.inflight = 0],
                        [jobs EXCEPT ![j] = NoJob])
          ELSE /\ lua' = Marked(j) /\ view' = Installed(j, moved)
               /\ jobs' = [jobs EXCEPT ![j] = NoJob]
    BY <1>21 DEF Settle
  <2>6. lua' \in Luas /\ view' \in Views /\ jobs' \in [Jobs -> Job]
    <3> DEFINE l == [Marked(j) EXCEPT !.inflight = 0]
               v == Installed(j, moved)
               js == [jobs EXCEPT ![j] = NoJob]
               l2 == [l EXCEPT !.requested = FALSE]
    <3>1. l \in Luas /\ v \in Views /\ js \in [Jobs -> Job] /\ l2 \in Luas
      BY <2>2, <2>3, <2>4 DEF Luas
    <3>2. CASE lua.inflight = j
      <4>1. FollowUp(v, l, js)
        BY <2>5, <3>2
      <4>2. text \in 1..MaxText
        BY <1>21, <1>t DEF Settle
      <4> HIDE DEF l, v, js
      <4>3. CASE l.requested \/ text > v.base
        <5>1. Dispatch(text, v, l2, js)
          BY <4>1, <4>3 DEF FollowUp
        <5> HIDE DEF l2
        <5>2. QED
          BY <3>1, <4>2, <5>1, DispatchType
      <4>4. CASE ~(l.requested \/ text > v.base)
        BY <3>1, <4>1, <4>4 DEF FollowUp
      <4>5. QED
        BY <4>3, <4>4
    <3>3. CASE lua.inflight # j
      BY <2>1, <2>2, <2>3, <2>5, <3>3
    <3>4. QED
      BY <3>2, <3>3
  <2>7. QED
    BY <1>0, <1>21, <2>6 DEF Settle, Typed
<1>22. ASSUME NEW j \in Jobs, SettleGone(j) PROVE Typed'
  BY <1>0, <1>22, EmptyTypes DEF SettleGone, Typed
<1>23. ASSUME NEW u \in Serials, NEW cause \in {"crash", "kill"}, UnitDies(u, cause)
       PROVE Typed'
  <2>1. [NoUnit EXCEPT !.cause = cause] \in Unit
    BY EmptyTypes DEF Unit, Causes
  <2>2. QED
    BY <1>0, <1>d, <1>23, <2>1 DEF UnitDies, Typed
<1>24. CASE UNCHANGED vars
  BY <1>0, <1>24 DEF vars, Typed
<1>25. QED
  BY <1>1, <1>2, <1>3, <1>4, <1>5, <1>5a, <1>6, <1>7, <1>8, <1>9, <1>10, <1>11, <1>12,
     <1>13, <1>14, <1>15, <1>16, <1>17, <1>18, <1>19, <1>20, <1>21, <1>22, <1>23,
     <1>24 DEF Next, Runs

(* What becomes of the jobs when one is settled.                           *)
LEMMA SettledShape ==
  ASSUME Typed, NEW j \in Jobs, NEW ans, NEW got, Settled(j, ans, got)
  PROVE  /\ jobs'[j].stage = "done" /\ jobs'[j].ans = ans /\ jobs'[j].got = got
         /\ jobs'[j].src = jobs[j].src /\ jobs'[j].cancel = FALSE
         /\ ans = "ok" => jobs'[j].unit = jobs[j].unit
         /\ \A k \in Jobs \ {j} : jobs'[k] = jobs[k]
<1>1. NoJob.cancel = FALSE
  BY DEF NoJob
<1>2. QED
  BY <1>1, EmptyTypes DEF Typed, Settled, Job

(* Letting go keeps the slot's workers as they are.                        *)
LEMMA LetGoShape ==
  ASSUME NEW us \in [Serials -> Unit], NEW s \in Slots, NEW u \in Serials
  PROVE  LetGo(us, s)[u] = IF u \in {s.unit, s.retiring} THEN us[u] ELSE NoUnit
  BY DEF LetGo

(* A slot's worker is chosen among the one it has, which keeps its streak. *)
LEMMA CellShape ==
  ASSUME Typed, SlotInv, NEW j \in Jobs
  PROVE  LET s == Retire(Cell, jobs[j].first) IN
         /\ s \in Slots /\ s.here /\ s.crashes = slot.crashes
         /\ s.backoff = slot.backoff /\ s.unit \in {0, slot.unit}
         /\ s.unit = slot.unit => s.synced \in {FALSE, slot.synced}
<1>1. jobs[j].first \in BOOLEAN
  BY DEF Typed, Job
<1>2. CASE slot.here
  <2>1. Cell = slot /\ slot \in Slots
    BY <1>2 DEF Cell, Typed
  <2>2. QED
    BY <1>1, <1>2, <2>1, RetireType
<1>3. CASE ~slot.here
  <2>1. slot = NoSlot
    BY <1>3 DEF SlotInv
  <2>2. /\ Cell \in Slots /\ Cell.here /\ Cell.crashes = slot.crashes
        /\ Cell.backoff = slot.backoff /\ Cell.unit = slot.unit
        /\ Cell.synced = slot.synced
    BY <1>3, <2>1, EmptyTypes DEF Cell, Slots
  <2> DEFINE c == Cell
             s == Retire(c, jobs[j].first)
  <2> HIDE DEF c
  <2>3. /\ s \in Slots /\ s.crashes = c.crashes /\ s.backoff = c.backoff
        /\ s.here = c.here /\ s.unit \in {0, c.unit}
        /\ s.unit = c.unit => s.synced \in {FALSE, c.synced}
    BY <1>1, <2>2, RetireType, ZenonT(40) DEF c
  <2>4. QED
    BY <2>2, <2>3 DEF c
<1>4. QED
  BY <1>2, <1>3

(* Every step keeps the streak of crashes within those that happened.      *)
LEMMA SlotStep == ParseIInv /\ [Next]_vars => SlotInv'
<1> SUFFICES ASSUME ParseIInv, [Next]_vars PROVE SlotInv'
  OBVIOUS
<1>0. Typed /\ SlotInv /\ JobInv /\ ViewInv
  BY TypeParts DEF ParseIInv
<1>t. /\ slot \in Slots /\ units \in [Serials -> Unit] /\ died \in Nat /\ died <= MaxCrashes
      /\ slot.crashes \in Nat /\ slot.crashes <= MaxCrashes
      /\ MaxCrashes \in Nat \ {0} /\ slot.unit \in Serials \cup {0} /\ 0 \notin Serials
  BY <1>0, ConstantsAssumption DEF Typed, Slots
<1>n. /\ NoSlot.unit = 0 /\ NoSlot.crashes = 0 /\ NoUnit.cause = "none"
      /\ NoSlot.here = FALSE /\ NoUnit.alive = FALSE
  BY DEF NoSlot, NoUnit
<1>u. CASE UNCHANGED <<slot, units, died>>
  BY <1>0, <1>u DEF SlotInv, EarnedStop
<1>1. CASE BackoffEnds
  BY <1>0, <1>t, <1>n, <1>1 DEF BackoffEnds, SlotInv, EarnedStop, Slots, NoSlot
<1>2. CASE ReadFindsDeath
  <2>1. slot.unit \in Serials /\ slot.here
    BY <1>0, <1>2, <1>t DEF ReadFindsDeath, Readable, ViewInv, ViewFits
  <2>2. units[slot.unit].cause \in Causes
    BY <1>t, <2>1 DEF Unit
  <2>3. slot' = Bury(slot, slot.unit, units[slot.unit].cause) /\ died' = died
    BY <1>2 DEF ReadFindsDeath
  <2>4. /\ slot'.unit = 0 /\ slot'.here
        /\ slot'.crashes = IF units[slot.unit].cause = "crash" THEN slot.crashes + 1
                           ELSE slot.crashes
    <3> DEFINE u == slot.unit
               c == units[u].cause
    <3>1. u \in Serials /\ c \in Causes /\ (slot.unit # 0 => slot.crashes < MaxCrashes)
      BY <1>0, <1>t, <2>1, <2>2 DEF SlotInv
    <3>2. slot' = Bury(slot, u, c) /\ slot.unit = u
      BY <2>3
    <3> HIDE DEF u, c
    <3>3. /\ slot'.unit = 0 /\ slot'.here = slot.here
          /\ slot'.crashes = IF c = "crash" THEN slot.crashes + 1 ELSE slot.crashes
      BY <1>t, <3>1, <3>2, BuryShape
    <3>4. QED
      BY <2>1, <3>3 DEF c, u
  <2>5. QED
    BY <1>0, <1>t, <2>1, <2>3, <2>4 DEF SlotInv, EarnedStop
<1>2a. CASE ReadTimesOut
  <2> DEFINE u == view.unit
  <2>1. u \in Serials /\ slot.here /\ u # 0 /\ u \in Serials \cup {0}
    BY <1>0, <1>2a, <1>t DEF ReadTimesOut, Readable, ViewInv, ViewFits, Typed, Views
  <2>2. /\ slot' = Bury(slot, u, "end") /\ died' = died
        /\ \A w \in Serials : w # u => units'[w] = units[w]
    BY <1>2a, <1>t DEF ReadTimesOut
  <2> HIDE DEF u
  <2>3. /\ slot'.unit \in {0, slot.unit} /\ slot'.here = slot.here
        /\ slot.unit = u => slot'.unit = 0
        /\ slot.unit # u => slot' = slot
        /\ slot'.crashes = slot.crashes
    <3> DEFINE c == "end"
    <3>1. c \in Causes /\ c # "crash" /\ slot' = Bury(slot, u, c)
      BY <2>2 DEF Causes
    <3>2. slot.unit # 0 => slot.crashes < MaxCrashes
      BY <1>0 DEF SlotInv
    <3> HIDE DEF c
    <3>3. QED
      BY <1>t, <2>1, <3>1, <3>2, BuryShape
  <2>4. QED
    BY <1>0, <1>t, <2>1, <2>2, <2>3 DEF SlotInv, EarnedStop
<1>3. CASE Reestablish
  <2>1. PICK n \in Serials :
          /\ slot' = [slot EXCEPT !.unit = n, !.synced = FALSE]
          /\ units' = [units EXCEPT ![n] = [NoUnit EXCEPT !.alive = TRUE,
                                                          !.mirror = view.current]]
    BY <1>3 DEF Reestablish
  <2>2. units'[n].cause = "none"
    BY <1>t, <1>n, <2>1, EmptyTypes DEF Unit
  <2>3. slot'.unit = n /\ slot'.here = slot.here /\ slot'.crashes = slot.crashes
    BY <1>t, <2>1 DEF Slots
  <2>4. slot.here /\ slot.crashes < MaxCrashes /\ died' = died
    BY <1>t, <1>3 DEF Reestablish, Readable, MayReestablish, Stopped
  <2>5. QED
    BY <1>0, <2>2, <2>3, <2>4 DEF SlotInv, EarnedStop
<1>4. CASE ReestablishCrashes
  <2>1. slot.unit = 0 /\ slot.here /\ slot.crashes < MaxCrashes
    BY <1>t, <1>4 DEF ReestablishCrashes, Readable, MayReestablish, Stopped
  <2>2. slot'.unit = 0 /\ slot'.here /\ slot'.crashes = slot.crashes + 1
    BY <1>t, <1>4, <2>1, NoteType DEF ReestablishCrashes
  <2>3. died' = IF died < MaxCrashes THEN died + 1 ELSE died
    BY <1>4 DEF ReestablishCrashes, Crashed
  <2>4. QED
    BY <1>0, <1>t, <2>1, <2>2, <2>3 DEF SlotInv, EarnedStop
<1>5. CASE KillBuffer
  BY <1>t, <1>n, <1>5 DEF KillBuffer, SlotInv, EarnedStop
<1>6. ASSUME NEW j \in Jobs, JobHeld(j) PROVE SlotInv'
  <2>1. /\ slot' = Retire(Cell, jobs[j].first) /\ slot'.unit = 0 /\ died' = died
    BY <1>6 DEF JobHeld
  <2>2. slot'.here /\ slot'.crashes = slot.crashes
    BY <1>0, <2>1, CellShape
  <2>3. QED
    BY <1>0, <2>1, <2>2 DEF SlotInv, EarnedStop
<1>7. ASSUME NEW j \in Jobs, JobUnavailable(j) PROVE SlotInv'
  <2>1. /\ slot' = Retire(Cell, jobs[j].first) /\ slot'.unit = 0 /\ died' = died
    BY <1>7 DEF JobUnavailable
  <2>2. slot'.here /\ slot'.crashes = slot.crashes
    BY <1>0, <2>1, CellShape
  <2>3. QED
    BY <1>0, <2>1, <2>2 DEF SlotInv, EarnedStop
<1>8. ASSUME NEW j \in Jobs, JobCalls(j) PROVE SlotInv'
  <2> DEFINE s == Retire(Cell, jobs[j].first)
  <2>1. /\ s \in Slots /\ s.here /\ s.crashes = slot.crashes
        /\ s.backoff = slot.backoff /\ s.unit \in {0, slot.unit}
    BY <1>0, CellShape
  <2>2. LetGo(units, s) \in [Serials -> Unit] /\ died' = died
    BY <1>t, <1>8, <2>1, LetGoType DEF JobCalls
  <2> HIDE DEF s
  <2>3. CASE s.unit # 0 /\ slot' = s /\ units' = LetGo(units, s)
    <3>1. s.unit = slot.unit /\ units'[s.unit] = units[s.unit]
      BY <1>t, <2>1, <2>3, LetGoShape
    <3>2. QED
      BY <1>0, <2>1, <2>2, <2>3, <3>1 DEF SlotInv, EarnedStop
  <2>4. CASE s.unit = 0 /\ ~Stopped(s) /\ ~s.backoff /\
             \E n \in Serials :
                /\ Fresh(n)
                /\ slot' = [s EXCEPT !.unit = n, !.synced = FALSE]
                /\ units' = [LetGo(units, s) EXCEPT ![n] = [NoUnit EXCEPT !.alive = TRUE]]
    <3>1. PICK n \in Serials :
             /\ slot' = [s EXCEPT !.unit = n, !.synced = FALSE]
             /\ units' = [LetGo(units, s) EXCEPT ![n] = [NoUnit EXCEPT !.alive = TRUE]]
      BY <2>4
    <3>2. units'[n].cause = "none"
      BY <1>n, <2>2, <3>1, EmptyTypes DEF Unit
    <3>3. slot'.unit = n /\ slot'.here /\ slot'.crashes = slot.crashes
      BY <2>1, <3>1 DEF Slots
    <3>4. slot.crashes < MaxCrashes
      BY <1>t, <2>1, <2>4 DEF Stopped
    <3>5. QED
      BY <1>0, <2>2, <3>2, <3>3, <3>4 DEF SlotInv, EarnedStop
  <2>5. QED
    BY <1>8, <2>3, <2>4 DEF JobCalls, s
<1>9. ASSUME NEW j \in Jobs, JobParsed(j) PROVE SlotInv'
  <2>1. units' = units /\ died' \in {0, 1}
        /\ (slot.unit # 0 /\ units[slot.unit].cause = "crash" => died' = 1)
    BY <1>9 DEF JobParsed
  <2>2. CASE slot.here
    <3>1. slot'.here /\ slot'.unit = slot.unit /\ slot'.crashes = 0
      BY <1>9, <1>t, <2>2 DEF JobParsed, Slots
    <3>2. QED
      BY <1>t, <2>1, <3>1 DEF SlotInv, EarnedStop
  <2>3. CASE ~slot.here
    <3>1. slot' = slot /\ slot = NoSlot
      BY <1>0, <1>9, <2>3 DEF JobParsed, SlotInv
    <3>2. QED
      BY <1>t, <1>n, <2>1, <3>1 DEF SlotInv, EarnedStop
  <2>4. QED
    BY <2>2, <2>3
<1>10. ASSUME NEW j \in Jobs, JobFailed(j) \/ JobDesync(j) PROVE SlotInv'
  BY <1>0, <1>t, <1>n, <1>10 DEF JobFailed, JobDesync, SlotInv, EarnedStop, Slots
<1>11. ASSUME NEW j \in Jobs, JobDeath(j) PROVE SlotInv'
  <2> DEFINE u == jobs[j].unit
  <2>1. u \in Serials /\ slot.unit \in {0, u}
    BY <1>0, <1>11 DEF JobDeath, JobInv, JobsFit, Typed, Job
  <2>2. units[u].cause \in Causes
    BY <1>t, <2>1 DEF Unit
  <2>3. slot' = Bury(slot, u, units[u].cause) /\ died' = died
    BY <1>11 DEF JobDeath
  <2> HIDE DEF u
  <2>4. /\ slot'.unit = 0 /\ slot'.here = slot.here /\ (slot.unit # u => slot' = slot)
        /\ slot'.crashes = IF slot.unit = u /\ units[u].cause = "crash" THEN slot.crashes + 1
                           ELSE slot.crashes
    <3> DEFINE c == units[u].cause
    <3>1. slot' = Bury(slot, u, c) /\ c \in Causes
      BY <2>2, <2>3
    <3> HIDE DEF c
    <3>2. /\ slot'.unit = 0 /\ slot'.here = slot.here /\ (slot.unit # u => slot' = slot)
          /\ slot'.crashes = IF slot.unit = u /\ c = "crash" THEN slot.crashes + 1
                             ELSE slot.crashes
      <4>1. slot.unit # 0 => slot.crashes < MaxCrashes
        BY <1>0 DEF SlotInv
      <4>2. /\ slot'.here = slot.here
            /\ slot.unit = u => slot'.unit = 0
            /\ slot.unit # u => slot' = slot
            /\ slot'.crashes = IF slot.unit = u /\ c = "crash" THEN slot.crashes + 1
                               ELSE slot.crashes
        BY <1>t, <2>1, <3>1, <4>1, BuryShape
      <4>3. QED
        BY <2>1, <4>2
    <3>3. QED
      BY <3>2 DEF c
  <2>5. slot.unit = u => slot.here
    BY <1>0, <1>t, <1>n, <2>1 DEF SlotInv
  <2>6. QED
    BY <1>0, <1>t, <2>1, <2>3, <2>4, <2>5 DEF SlotInv, EarnedStop
<1>12. ASSUME NEW j \in Jobs, JobTimesOut(j) PROVE SlotInv'
  <2> DEFINE u == jobs[j].unit
  <2>1. u \in Serials /\ slot.unit \in {0, u}
    BY <1>0, <1>12 DEF JobTimesOut, JobInv, JobsFit, Typed, Job
  <2>3. slot' = Bury(slot, u, "kill") /\ died' = died
    BY <1>12 DEF JobTimesOut
  <2> HIDE DEF u
  <2>b. /\ slot'.here = slot.here
        /\ slot.unit = u => slot'.unit = 0
        /\ slot.unit # u => slot' = slot
        /\ slot'.crashes = slot.crashes
    <3> DEFINE c == "kill"
    <3>1. c \in Causes /\ c # "crash" /\ slot' = Bury(slot, u, c)
      BY <2>3 DEF Causes
    <3>2. slot.unit # 0 => slot.crashes < MaxCrashes
      BY <1>0 DEF SlotInv
    <3> HIDE DEF c
    <3>3. QED
      BY <1>t, <2>1, <3>1, <3>2, BuryShape
  <2>4. /\ slot'.unit = 0 /\ slot'.here = slot.here /\ (slot.unit # u => slot' = slot)
        /\ slot'.crashes = slot.crashes
    BY <2>1, <2>b
  <2>5. slot.unit = u => slot.here
    BY <1>0, <1>t, <1>n, <2>1 DEF SlotInv
  <2>6. QED
    BY <1>0, <1>t, <2>1, <2>3, <2>4, <2>5 DEF SlotInv, EarnedStop
<1>13. ASSUME NEW j \in Jobs, NEW ans \in {"parsed", "overran", "failed", "desync"}, UnitAnswers(j, ans)
       PROVE SlotInv'
  <2>1. jobs[j].unit \in Serials
    BY <1>0, <1>13 DEF UnitAnswers, JobInv, JobsFit, Typed, Job
  <2>2. \A u \in Serials : units'[u].cause = units[u].cause
    BY <1>13, <1>t, <2>1 DEF UnitAnswers, Unit
  <2>3. QED
    BY <1>0, <1>13, <1>t, <2>2 DEF UnitAnswers, SlotInv, EarnedStop
<1>14. ASSUME NEW u \in Serials, NEW cause \in {"crash", "kill"}, UnitDies(u, cause)
       PROVE SlotInv'
  <2>1. /\ units'[u].cause = cause /\ slot' = slot
        /\ \A v \in Serials \ {u} : units'[v] = units[v]
    BY <1>t, <1>14, EmptyTypes DEF UnitDies, Unit
  <2>2. died' = IF cause = "crash" /\ u = slot.unit /\ died < MaxCrashes THEN died + 1 ELSE died
    BY <1>14 DEF UnitDies, Crashed
  <2>3. QED
    BY <1>0, <1>t, <2>1, <2>2 DEF SlotInv, EarnedStop
<1>15. QED
  BY <1>u, <1>1, <1>2, <1>2a, <1>3, <1>4, <1>5, <1>6, <1>7, <1>8, <1>9, <1>10, <1>11, <1>12,
     <1>13, <1>14
     DEF Next, Runs, vars, Edit, Visit, Retry, Cancel, JobCancelled, JobOrphaned, Settle,
         SettleGone

(* What a request leaves in the jobs.                                      *)
LEMMA RequestShape ==
  ASSUME NEW js \in [Jobs -> Job], NEW j \in Jobs, NEW t \in 1..MaxText, NEW v \in Views,
         jobs' = Request(js, j, t, v)
  PROVE  /\ jobs'[j].stage = "queued" /\ jobs'[j].src = t
         /\ jobs'[j].ans = "none" /\ jobs'[j].cancel = FALSE
         /\ \A k \in Jobs \ {j} : jobs'[k] = js[k]
<1>1. NoJob.ans = "none" /\ NoJob.cancel = FALSE
  BY DEF NoJob
<1>2. QED
  BY <1>1, EmptyTypes DEF Request, Job

(* A dispatch keeps one parse at a time.                                   *)
LEMMA DispatchKeeps ==
  ASSUME NEW t \in 1..MaxText, NEW v \in Views, NEW l \in Luas,
         NEW js \in [Jobs -> Job], Dispatch(t, v, l, js), text' = t, slot' = slot,
         JobsFit(js, l, v, slot), l.inflight # 0 => js[l.inflight].stage # "none",
         ViewFits(v), v.base <= t
  PROVE  JobInv' /\ ViewInv' /\ UnmarkedIsCurrent'
<1>1. CASE /\ l.inflight # 0 /\ view' = v /\ jobs' = js
           /\ lua' = [l EXCEPT !.requested = TRUE]
  <2>1. lua'.inflight = l.inflight
    BY <1>1 DEF Luas
  <2>2. QED
    BY <1>1, <2>1 DEF JobInv, JobsFit, ViewInv, ViewFits, UnmarkedIsCurrent
<1>2. ASSUME l.inflight = 0, NEW j \in Jobs,
             lua' = [l EXCEPT !.inflight = j], view' = [v EXCEPT !.base = t],
             jobs'[j].stage = "queued", jobs'[j].src = t, jobs'[j].ans = "none",
             \A k \in Jobs \ {j} : jobs'[k] = js[k]
      PROVE  JobInv' /\ ViewInv' /\ UnmarkedIsCurrent'
  <2>1. lua'.inflight = j /\ j # 0
    BY <1>2 DEF Luas, Jobs
  <2>2. /\ view'.base = t /\ view'.current = v.current /\ view'.newest = v.newest
        /\ view'.unit = v.unit
    BY <1>2 DEF Views
  <2>3. \A k \in Jobs : js[k].stage = "none"
    BY <1>2 DEF JobsFit, Jobs
  <2>4. JobInv'
    BY <1>2, <2>1, <2>2, <2>3 DEF JobInv, JobsFit
  <2>5. ViewInv'
    BY <2>2 DEF ViewInv, ViewFits, Views
  <2>6. QED
    BY <2>1, <2>4, <2>5 DEF UnmarkedIsCurrent
<1>3. CASE l.inflight # 0
  BY <1>1, <1>3 DEF Dispatch
<1>4. CASE l.inflight = 0
  <2>1. PICK j \in Jobs :
          /\ lua' = [l EXCEPT !.inflight = j] /\ view' = [v EXCEPT !.base = t]
          /\ jobs' = Request(js, j, t, v)
    BY <1>4 DEF Dispatch
  <2>2. /\ jobs'[j].stage = "queued" /\ jobs'[j].src = t /\ jobs'[j].ans = "none"
        /\ \A k \in Jobs \ {j} : jobs'[k] = js[k]
    BY <2>1, RequestShape
  <2>3. QED
    BY <1>2, <1>4, <2>1, <2>2
<1>5. QED
  BY <1>3, <1>4

(* The settling of the parse in flight keeps one parse at a time.          *)
LEMMA SettledKeeps ==
  ASSUME Typed, JobInv, ViewInv, UnmarkedIsCurrent, NEW j \in Jobs, jobs[j].stage # "none",
         NEW ans \in Answers, NEW got, Settled(j, ans, got), ans = "ok" => jobs[j].unit # 0,
         UNCHANGED <<lua, view, text>>
  PROVE  JobInv' /\ ViewInv' /\ UnmarkedIsCurrent'
<1>1. /\ jobs'[j].stage = "done" /\ jobs'[j].ans = ans /\ jobs'[j].src = jobs[j].src
      /\ ans = "ok" => jobs'[j].unit = jobs[j].unit
      /\ \A k \in Jobs \ {j} : jobs'[k] = jobs[k]
  BY SettledShape
<1>2. \A k \in Jobs \ {j} : jobs[k].stage = "none"
  BY DEF JobInv, JobsFit
<1>3. QED
  BY <1>1, <1>2 DEF JobInv, JobsFit, ViewInv, ViewFits, UnmarkedIsCurrent

(* What is installed is what was asked for, or nothing.                    *)
LEMMA InstalledShape ==
  ASSUME Typed, JobInv, ViewInv, NEW j \in Jobs, jobs[j].stage = "done", NEW moved
  PROVE  LET v == Installed(j, moved) IN
         /\ v \in Views /\ v.base = view.base /\ ViewFits(v)
         /\ jobs[j].ans = "ok" => v.current = view.base
<1>1. /\ jobs[j].src \in 0..MaxText /\ jobs[j].got \in 0..Garbled
      /\ jobs[j].unit \in Serials \cup {0} /\ jobs[j].src = view.base
      /\ jobs[j].ans = "ok" => jobs[j].unit # 0
  BY DEF Typed, Job, JobInv, JobsFit
<1>2. 0 \in 0..MaxText /\ 0 \in 0..Garbled /\ view \in Views
  BY ConstantsAssumption DEF Typed, Garbled
<1>3. CASE jobs[j].ans = "ok"
  <2>1. Installed(j, moved) = [view EXCEPT !.current = jobs[j].src, !.shown = jobs[j].got,
                                  !.unit = jobs[j].unit, !.newest = jobs[j].src]
    BY <1>3 DEF Installed
  <2>2. Installed(j, moved) \in Views
    BY <1>1, <1>2, <2>1 DEF Views
  <2>3. /\ Installed(j, moved).current = view.base /\ Installed(j, moved).base = view.base
        /\ Installed(j, moved).newest = view.base /\ Installed(j, moved).unit # 0
    BY <1>1, <1>2, <1>3, <2>1 DEF Views
  <2>4. view.base \in Int
    BY <1>2, ConstantsAssumption DEF Views
  <2>5. QED
    BY <2>2, <2>3, <2>4 DEF ViewFits
<1>4. CASE jobs[j].ans # "ok"
  <2>1. Installed(j, moved) \in {view, [view EXCEPT !.current = 0, !.shown = 0, !.unit = 0]}
    BY <1>4 DEF Installed
  <2>2. QED
    BY <1>2, <1>4, <2>1 DEF Views, ViewFits, ViewInv
<1>5. QED
  BY <1>3, <1>4

(* A parse that did not come back leaves a mark, or is known to be lost.   *)
LEMMA MarkedShape ==
  ASSUME Typed, JobInv, NEW j \in Jobs, jobs[j].stage = "done"
  PROVE  /\ Marked(j) \in Luas /\ Marked(j).inflight = lua.inflight
         /\ jobs[j].ans = "ok" \/ Marked(j).mark # "none" \/ Marked(j).lost # "no"
  BY DEF Marked, Luas, Typed, JobInv, JobsFit, Answers

(* The tick that settles a parse keeps one parse at a time, and what it    *)
(* leaves unmarked is current: when nothing was asked for meanwhile, the   *)
(* text is still the one of the request.                                   *)
LEMMA SettleKeeps ==
  ASSUME Typed, JobInv, ViewInv, UnmarkedIsCurrent, NEW j \in Jobs, Settle(j)
  PROVE  JobInv' /\ ViewInv' /\ UnmarkedIsCurrent'
<1>1. PICK moved \in BOOLEAN :
        IF lua.inflight = j
        THEN FollowUp(Installed(j, moved), [Marked(j) EXCEPT !.inflight = 0],
                      [jobs EXCEPT ![j] = NoJob])
        ELSE /\ lua' = Marked(j) /\ view' = Installed(j, moved)
             /\ jobs' = [jobs EXCEPT ![j] = NoJob]
  BY DEF Settle
<1>2. /\ jobs[j].stage = "done" /\ text # 0 /\ text' = text /\ slot' = slot
      /\ text \in 1..MaxText
  BY ConstantsAssumption DEF Settle, Typed
<1>3. lua.inflight = j /\ \A k \in Jobs \ {j} : jobs[k].stage = "none"
  BY <1>2 DEF JobInv, JobsFit
<1> DEFINE v == Installed(j, moved)
           l == [Marked(j) EXCEPT !.inflight = 0]
           l2 == [l EXCEPT !.requested = FALSE]
           js == [jobs EXCEPT ![j] = NoJob]
<1>4. FollowUp(v, l, js)
  BY <1>1, <1>3
<1>5. /\ v \in Views /\ v.base = view.base /\ ViewFits(v) /\ v.base <= text
      /\ jobs[j].ans = "ok" => v.current = v.base
      /\ v.base \in 1..MaxText
  <2>1. view.base <= text
    BY <1>2 DEF ViewInv
  <2>2. QED
    BY <1>2, <2>1, InstalledShape DEF Views
<1>6. /\ l \in Luas /\ l.inflight = 0 /\ l2 \in Luas /\ l2.inflight = 0
      /\ jobs[j].ans = "ok" \/ l.mark # "none" \/ l.lost # "no"
  BY <1>2, MarkedShape DEF Luas
<1>7. /\ js \in [Jobs -> Job]
      /\ \A k \in Jobs : /\ js[k].stage = "none"
                         /\ js[k].ans = "ok" => js[k].unit # 0
  <2>1. NoJob.stage = "none" /\ NoJob.ans = "none" /\ jobs \in [Jobs -> Job]
    BY DEF NoJob, Typed
  <2>2. QED
    BY <1>3, <2>1, EmptyTypes DEF JobInv, JobsFit
<1>8. (l.requested \/ text > v.base) => Dispatch(text, v, l2, js)
  BY <1>4 DEF FollowUp
<1>9. ~(l.requested \/ text > v.base) => lua' = l /\ view' = v /\ jobs' = js
  BY <1>4 DEF FollowUp
<1> HIDE DEF v, l, l2, js
<1>10. JobsFit(js, l2, v, slot) /\ JobsFit(js, l, v, slot)
  BY <1>7 DEF JobsFit
<1>11. CASE l.requested \/ text > v.base
  BY <1>2, <1>5, <1>6, <1>7, <1>8, <1>10, <1>11, DispatchKeeps
<1>12. CASE ~(l.requested \/ text > v.base)
  <2>1. v.base = text
    BY <1>2, <1>5, <1>12
  <2>2. QED
    BY <1>2, <1>5, <1>6, <1>9, <1>10, <1>12, <2>1
       DEF JobInv, JobsFit, ViewInv, ViewFits, UnmarkedIsCurrent
<1>13. QED
  BY <1>11, <1>12

(* Every step keeps one parse at a time, the order of what is displayed,   *)
(* and that a buffer with no mark and no parse in flight is current.       *)
LEMMA JobStep == ParseIInv /\ [Next]_vars => JobInv' /\ ViewInv' /\ UnmarkedIsCurrent'
<1> DEFINE Kept == JobInv /\ ViewInv /\ UnmarkedIsCurrent
<1> SUFFICES ASSUME ParseIInv, [Next]_vars PROVE Kept'
  OBVIOUS
<1>0. Typed /\ SlotInv /\ Kept
  BY TypeParts DEF ParseIInv
<1>t. /\ text \in 0..MaxText /\ view \in Views /\ lua \in Luas /\ jobs \in [Jobs -> Job]
      /\ slot \in Slots
  BY <1>0 DEF Typed
<1>v. /\ ViewFits(view) /\ (text # 0 => view.base <= text) /\ view.base \in 1..MaxText
      /\ JobsFit(jobs, lua, view, slot)
      /\ text # 0 /\ lua.inflight # 0 => jobs[lua.inflight].stage # "none"
      /\ text # 0 => text \in 1..MaxText
  BY <1>0, <1>t, ConstantsAssumption DEF ViewInv, JobInv, Views
<1>n. NoJob.stage = "none" /\ NoJob.ans = "none" /\ NoSlot.unit = 0
  BY DEF NoJob, NoSlot
<1>u. CASE UNCHANGED <<text, view, lua, jobs, slot>>
  BY <1>0, <1>u DEF JobInv, JobsFit, ViewInv, ViewFits, UnmarkedIsCurrent
<1>s. ASSUME UNCHANGED <<text, lua, jobs, view>>, slot'.unit \in {0, slot.unit} PROVE Kept'
  BY <1>0, <1>s DEF JobInv, JobsFit, ViewInv, ViewFits, UnmarkedIsCurrent
<1>1. CASE Edit
  <2>1. text + 1 \in 1..MaxText /\ text # 0 /\ view.base <= text + 1
    BY <1>t, <1>v, <1>1, ConstantsAssumption DEF Edit
  <2> DEFINE t == text + 1
  <2>2. Dispatch(t, view, lua, jobs) /\ text' = t /\ slot' = slot
    BY <1>1 DEF Edit
  <2> HIDE DEF t
  <2>3. t \in 1..MaxText /\ view.base <= t
    BY <2>1 DEF t
  <2>4. QED
    BY <1>t, <1>v, <2>1, <2>2, <2>3, DispatchKeeps
<1>2. CASE Visit
  <2>1. Dispatch(text, view, lua, jobs) /\ text' = text /\ slot' = slot /\ text # 0
    BY <1>2 DEF Visit
  <2>2. QED
    BY <1>t, <1>v, <2>1, DispatchKeeps
<1>3. CASE Retry
  <2> DEFINE l == [lua EXCEPT !.retry = FALSE]
  <2>1. /\ l \in Luas /\ l.inflight = lua.inflight /\ l.mark = lua.mark
        /\ l.lost = lua.lost
    BY <1>t DEF Luas
  <2>2. text # 0 /\ text' = text /\ slot' = slot
    BY <1>3 DEF Retry
  <2>3. JobsFit(jobs, l, view, slot)
    BY <1>v, <2>1 DEF JobsFit
  <2>4. CASE lua.mark = "crashed"
    <3>1. Dispatch(text, view, l, jobs)
      BY <1>3, <2>4 DEF Retry
    <3> HIDE DEF l
    <3>2. QED
      BY <1>t, <1>v, <2>1, <2>2, <2>3, <3>1, DispatchKeeps
  <2>5. CASE lua.mark # "crashed"
    <3>1. lua' = l /\ UNCHANGED <<view, jobs>>
      BY <1>3, <2>5 DEF Retry
    <3> HIDE DEF l
    <3>2. QED
      BY <1>0, <2>1, <2>2, <2>3, <3>1
         DEF JobInv, JobsFit, ViewInv, ViewFits, UnmarkedIsCurrent
  <2>6. QED
    BY <2>4, <2>5
<1>4. CASE BackoffEnds
  BY <1>t, <1>s, <1>4 DEF BackoffEnds, Slots
<1>5. CASE ReadFindsDeath
  <2>1. slot' = Bury(slot, slot.unit, units[slot.unit].cause)
    BY <1>5 DEF ReadFindsDeath
  <2>2. slot'.unit = 0
    BY <1>t, <2>1 DEF Bury, Note, Slots
  <2>3. QED
    BY <1>s, <1>5, <2>2 DEF ReadFindsDeath
<1>5a. CASE ReadTimesOut
  <2>1. slot'.unit \in {0, slot.unit}
    BY <1>t, <1>5a DEF ReadTimesOut, Bury, Note, Slots
  <2>2. QED
    BY <1>s, <1>5a, <2>1 DEF ReadTimesOut
<1>6. CASE Reestablish
  <2>1. PICK n \in Serials : view' = [view EXCEPT !.unit = n, !.shown = view.current]
    BY <1>6 DEF Reestablish
  <2>2. /\ view'.current = view.current /\ view'.base = view.base
        /\ view'.newest = view.newest /\ view'.unit # 0
    BY <1>t, <2>1, ConstantsAssumption DEF Views
  <2>3. \A j \in Jobs : jobs[j].stage # "calling"
    BY <1>6 DEF Reestablish, MayReestablish
  <2>4. UNCHANGED <<text, lua, jobs>>
    BY <1>6 DEF Reestablish
  <2>5. QED
    BY <1>0, <2>2, <2>3, <2>4 DEF JobInv, JobsFit, ViewInv, ViewFits, UnmarkedIsCurrent
<1>7. CASE ReestablishCrashes
  <2>1. slot'.unit = slot.unit
    BY <1>t, <1>7 DEF ReestablishCrashes, Note, Slots
  <2>2. QED
    BY <1>s, <1>7, <2>1 DEF ReestablishCrashes
<1>8. CASE KillBuffer
  <2>1. /\ view'.current = 0 /\ view'.base = view.base /\ view'.newest = view.newest
        /\ text' = 0 /\ slot'.unit = 0 /\ UNCHANGED <<lua, jobs>>
    BY <1>t, <1>n, <1>8 DEF KillBuffer, Views
  <2>2. QED
    BY <1>v, <2>1 DEF JobInv, JobsFit, ViewInv, ViewFits, UnmarkedIsCurrent
<1>9. ASSUME NEW j \in Jobs, Cancel(j) PROVE Kept'
  <2>1. \A k \in Jobs : /\ jobs'[k].stage = jobs[k].stage /\ jobs'[k].src = jobs[k].src
                        /\ jobs'[k].ans = jobs[k].ans /\ jobs'[k].unit = jobs[k].unit
    BY <1>t, <1>9 DEF Cancel, Job
  <2>2. UNCHANGED <<text, lua, view, slot>>
    BY <1>9 DEF Cancel
  <2>3. lua.inflight \in {0} \cup Jobs
    BY <1>t DEF Luas
  <2>4. QED
    BY <1>0, <2>1, <2>2, <2>3 DEF JobInv, JobsFit, ViewInv, ViewFits, UnmarkedIsCurrent
<1>10. ASSUME NEW j \in Jobs, JobCancelled(j) PROVE Kept'
  BY <1>0, <1>10, SettledKeeps DEF JobCancelled, Answers
<1>11. ASSUME NEW j \in Jobs, JobHeld(j) PROVE Kept'
  BY <1>0, <1>11, SettledKeeps DEF JobHeld, MayRun, Answers
<1>12. ASSUME NEW j \in Jobs, JobUnavailable(j) PROVE Kept'
  BY <1>0, <1>12, SettledKeeps DEF JobUnavailable, MayRun, Answers
<1>13. ASSUME NEW j \in Jobs, JobOrphaned(j) PROVE Kept'
  BY <1>0, <1>13, SettledKeeps DEF JobOrphaned, Answers
<1>14. ASSUME NEW j \in Jobs, JobParsed(j) PROVE Kept'
  <2>1. jobs[j].unit # 0
    BY <1>v, <1>14 DEF JobParsed, JobsFit
  <2>2. QED
    BY <1>0, <1>14, <2>1, SettledKeeps DEF JobParsed, Answers
<1>15. ASSUME NEW j \in Jobs, JobFailed(j) PROVE Kept'
  BY <1>0, <1>15, SettledKeeps DEF JobFailed, Answers
<1>16. ASSUME NEW j \in Jobs, JobDeath(j) PROVE Kept'
  <2> DEFINE m == DeathMessage(slot, jobs[j].unit, units[jobs[j].unit].cause)
  <2>1. m \in Answers /\ m # "ok"
    BY DEF DeathMessage, Answers
  <2>2. /\ Settled(j, m, 0) /\ jobs[j].stage = "calling" /\ UNCHANGED <<lua, view, text>>
    BY <1>16 DEF JobDeath
  <2> HIDE DEF m
  <2>3. QED
    BY <1>0, <2>1, <2>2, SettledKeeps
<1>17. ASSUME NEW j \in Jobs, JobTimesOut(j) PROVE Kept'
  BY <1>0, <1>17, SettledKeeps DEF JobTimesOut, Answers
<1>18. ASSUME NEW j \in Jobs, JobDesync(j) PROVE Kept'
  <2>1. CASE jobs[j].first
    <3>1. /\ jobs'[j].stage = "again" /\ jobs'[j].src = jobs[j].src
          /\ jobs'[j].ans = jobs[j].ans /\ jobs'[j].unit = jobs[j].unit
          /\ \A k \in Jobs \ {j} : jobs'[k] = jobs[k]
      BY <1>t, <1>18, <2>1 DEF JobDesync, Job
    <3>2. jobs[j].stage = "calling" /\ UNCHANGED <<text, lua, view>>
      BY <1>18 DEF JobDesync
    <3>3. \A k \in Jobs \ {j} : jobs[k].stage = "none"
      BY <1>v, <3>2 DEF JobsFit
    <3>4. lua.inflight = j
      BY <1>v, <3>2 DEF JobsFit
    <3>5. JobInv'
      BY <1>v, <3>1, <3>2, <3>3, <3>4 DEF JobInv, JobsFit
    <3>6. QED
      BY <1>0, <3>2, <3>5 DEF ViewInv, ViewFits, UnmarkedIsCurrent
  <2>2. CASE ~jobs[j].first
    BY <1>0, <1>18, <2>2, SettledKeeps DEF JobDesync, Answers
  <2>3. QED
    BY <2>1, <2>2
<1>19. ASSUME NEW j \in Jobs, JobCalls(j) PROVE Kept'
  <2>1. slot'.unit # 0
    <3> DEFINE s == Retire(Cell, jobs[j].first)
    <3>1. s \in Slots
      BY <1>0, CellShape
    <3> HIDE DEF s
    <3>2. \/ s.unit # 0 /\ slot' = s
          \/ \E n \in Serials : slot' = [s EXCEPT !.unit = n, !.synced = FALSE]
      BY <1>19 DEF JobCalls, s
    <3>3. QED
      BY <3>1, <3>2, ConstantsAssumption DEF Slots
  <2>2. /\ jobs'[j].stage = "calling" /\ jobs'[j].src = jobs[j].src
        /\ jobs'[j].ans = "none" /\ jobs'[j].unit = slot'.unit
        /\ \A k \in Jobs \ {j} : jobs'[k] = jobs[k]
    <3> DEFINE full == ~slot'.synced
    <3>1. jobs' = [jobs EXCEPT ![j].stage = "calling", ![j].unit = slot'.unit,
                               ![j].full = full, ![j].ans = "none"]
      BY <1>19 DEF JobCalls, Called
    <3> HIDE DEF full
    <3>2. QED
      BY <1>t, <3>1 DEF Job
  <2>3. jobs[j].stage \in {"queued", "again"} /\ UNCHANGED <<text, lua, view>>
    BY <1>19 DEF JobCalls, MayRun
  <2>4. lua.inflight = j /\ \A k \in Jobs \ {j} : jobs[k].stage = "none"
    BY <1>v, <2>3 DEF JobsFit
  <2>5. JobInv'
    BY <1>v, <2>1, <2>2, <2>3, <2>4 DEF JobInv, JobsFit
  <2>6. QED
    BY <1>0, <2>3, <2>5 DEF ViewInv, ViewFits, UnmarkedIsCurrent
<1>20. ASSUME NEW j \in Jobs, NEW ans \in {"parsed", "overran", "failed", "desync"}, UnitAnswers(j, ans)
       PROVE Kept'
  <2>1. /\ jobs'[j].stage = jobs[j].stage /\ jobs'[j].src = jobs[j].src
        /\ jobs'[j].ans = ans /\ jobs'[j].unit = jobs[j].unit
        /\ \A k \in Jobs \ {j} : jobs'[k] = jobs[k]
    <3>1. jobs' = [jobs EXCEPT ![j].ans = ans, ![j].got = Mirrored(j)]
      BY <1>20 DEF UnitAnswers
    <3>2. QED
      BY <1>t, <3>1 DEF Job
  <2>2. jobs[j].stage = "calling" /\ UNCHANGED <<text, lua, view, slot>>
    BY <1>20 DEF UnitAnswers
  <2>3. lua.inflight = j /\ \A k \in Jobs \ {j} : jobs[k].stage = "none"
    BY <1>v, <2>2 DEF JobsFit
  <2>4. JobInv'
    BY <1>v, <2>1, <2>2, <2>3 DEF JobInv, JobsFit
  <2>5. QED
    BY <1>0, <2>2, <2>4 DEF ViewInv, ViewFits, UnmarkedIsCurrent

<1>21. ASSUME NEW j \in Jobs, Settle(j) PROVE Kept'
  BY <1>0, <1>21, SettleKeeps
<1>22. ASSUME NEW j \in Jobs, SettleGone(j) PROVE Kept'
  <2>1. /\ jobs'[j].stage = "none" /\ jobs'[j].ans = "none"
        /\ \A k \in Jobs \ {j} : jobs'[k] = jobs[k]
    BY <1>t, <1>n, <1>22 DEF SettleGone
  <2>2. text = 0 /\ UNCHANGED <<text, view, lua, slot>>
    BY <1>22 DEF SettleGone
  <2>3. QED
    BY <1>0, <2>1, <2>2 DEF JobInv, JobsFit, ViewInv, ViewFits, UnmarkedIsCurrent
<1>23. QED
  BY <1>u, <1>1, <1>2, <1>3, <1>4, <1>5, <1>5a, <1>6, <1>7, <1>8, <1>9, <1>10, <1>11, <1>12,
     <1>13, <1>14, <1>15, <1>16, <1>17, <1>18, <1>19, <1>20, <1>21, <1>22
     DEF Next, Runs, vars, UnitDies

-----------------------------------------------------------------------------
(* The first parse is queued, and no other.                                *)
LEMMA FirstParse ==
  ASSUME Init
  PROVE  /\ jobs \in [Jobs -> Job]
         /\ jobs[1].stage = "queued" /\ jobs[1].src = 1
         /\ \A j \in Jobs : jobs[j].ans = "none" /\ jobs[j].cancel = FALSE
         /\ \A j \in Jobs \ {1} : jobs[j].stage = "none"
<1> DEFINE js == [j \in Jobs |-> NoJob]
           r == [NoJob EXCEPT !.stage = "queued", !.src = 1, !.base = 1]
<1>1. js \in [Jobs -> Job] /\ 1 \in Jobs /\ \A j \in Jobs : js[j] = NoJob
  BY EmptyTypes DEF Jobs
<1>2. jobs = [js EXCEPT ![1] = r]
  <2>1. view.base = 1
    BY DEF Init
  <2>2. QED
    BY <2>1 DEF Init, Request
<1>3. r \in Job
  <2>1. 1 \in 0..MaxText
    BY ConstantsAssumption
  <2>2. QED
    BY <2>1, EmptyTypes DEF Job
<1>4. NoJob.ans = "none" /\ NoJob.cancel = FALSE /\ NoJob.stage = "none"
  BY DEF NoJob
<1>5. r.stage = "queued" /\ r.src = 1 /\ r.ans = "none" /\ r.cancel = FALSE
  BY <1>4, EmptyTypes DEF Job
<1> HIDE DEF js, r
<1>6. jobs[1] = r /\ (\A j \in Jobs \ {1} : jobs[j] = NoJob) /\ jobs \in [Jobs -> Job]
  BY <1>1, <1>2, <1>3
<1>7. QED
  BY <1>4, <1>5, <1>6

(* A session begins with the parse of the buffer it has just loaded.       *)
LEMMA ParseInit == Init => ParseIInv
<1> SUFFICES ASSUME Init PROVE ParseIInv
  OBVIOUS
<1>1. 0 \in 0..MaxText /\ 1 \in 0..MaxText /\ 1 \in 1..MaxText /\ 0 \in 0..Garbled
      /\ 0 \in 0..MaxCrashes /\ 0 < MaxCrashes /\ text # 0
  BY ConstantsAssumption DEF Init, Garbled
<1>2. /\ view \in Views /\ view.current = 0 /\ view.base = 1 /\ view.newest = 0
      /\ lua \in Luas /\ lua.inflight = 1
  BY <1>1 DEF Init, Views, Luas, Jobs
<1>6. jobs \in [Jobs -> Job]
  BY FirstParse
<1>7. /\ jobs[1].stage = "queued" /\ jobs[1].src = 1 /\ jobs[1].ans = "none"
      /\ \A j \in Jobs \ {1} : jobs[j].stage = "none" /\ jobs[j].ans = "none"
  BY FirstParse DEF Jobs
<1> USE DEF Init
<1>9. NoSlot.unit = 0 /\ NoSlot.crashes = 0
  BY DEF NoSlot
<1>10. TypeOK
  <2>1. units \in [Serials -> Unit]
    BY EmptyTypes
  <2>2. QED
    BY <1>1, <1>2, <1>6, <2>1, EmptyTypes, TypeParts DEF Typed
<1>11. SlotInv
  BY <1>9 DEF SlotInv, EarnedStop
<1>12. JobInv
  BY <1>2, <1>7, <1>9 DEF JobInv, JobsFit
<1>13. ViewInv /\ UnmarkedIsCurrent
  BY <1>2 DEF ViewInv, ViewFits, UnmarkedIsCurrent
<1>14. QED
  BY <1>10, <1>11, <1>12, <1>13 DEF ParseIInv

(* Each part of the invariant is kept by every step.                       *)
LEMMA ParseIInvAlways == Spec => []ParseIInv
<1>1. ParseIInv /\ [Next]_vars => ParseIInv'
  BY ParseTypeStep, SlotStep, JobStep DEF ParseIInv
<1>2. QED
  BY <1>1, ParseInit, PTL DEF Spec

(* Whatever crashes, is killed, or answers late: the streak never counts a *)
(* crash that did not happen, so parsing stops only for MAX_CRASHES real   *)
(* ones in a row; and a buffer with no mark and no parse in flight shows   *)
(* the tree of its own text, unless the parse that came back last was one  *)
(* of those that set no mark: announced unavailable, failed or cancelled.  *)
THEOREM ParsingEarned == Spec => []ParseInv
<1>1. ParseIInv => ParseInv
  BY DEF ParseIInv, ParseInv, SlotInv
<1>2. QED
  BY <1>1, ParseIInvAlways, PTL

-----------------------------------------------------------------------------
(* The edits that a worker is sent are made on its mirror.  A cancelled    *)
(* parse breaks that: its edits are lost, which a worker notices by their  *)
(* lengths unless edits that overwrite keep the length.                    *)

Careful == ~({"cancel", "overwrite"} \subseteq ops)

(* What a worker parsed is the text of its request.                        *)
GotFits(js) == \A j \in Jobs : js[j].ans \in {"parsed", "ok"} => js[j].got = js[j].src

(* The mirror of a worker in step is the text the next request's edits     *)
(* start from, and a parse that is called sends the whole text otherwise.  *)
CallFits(r, us) ==
    r.stage = "calling" /\ us[r.unit].alive =>
      IF r.ans = "none" THEN r.full \/ us[r.unit].mirror = r.base
                        ELSE us[r.unit].mirror = r.src

StepFits(js, v, s, us) ==
    s.synced /\ s.unit # 0 /\ us[s.unit].alive =>
      /\ \A j \in Jobs : js[j].stage = "queued" => us[s.unit].mirror = js[j].base
      /\ (\A j \in Jobs : js[j].stage \in {"none", "done"}) => us[s.unit].mirror = v.base

MirrorFits(js, v, s, us) ==
    /\ \A j \in Jobs : /\ ~js[j].cancel
                       /\ js[j].stage = "again" => ~s.synced
                       /\ CallFits(js[j], us)
    /\ StepFits(js, v, s, us)

MirrorInv ==
    /\ Careful /\ GotFits(jobs)
    /\ "overwrite" \in ops => MirrorFits(jobs, view, slot, units)

(* A worker that answers in time applied the request to the right text.    *)
LEMMA AnswerFits ==
  ASSUME Typed, MirrorInv, NEW j \in Jobs, NEW ans \in {"parsed", "overran", "failed", "desync"},
         UnitAnswers(j, ans)
  PROVE  /\ "overwrite" \in ops => Mirrored(j) = jobs[j].src
         /\ ans = "parsed" => Mirrored(j) = jobs[j].src
<1>1. Mirrored(j) \in {jobs[j].src, Garbled}
  BY DEF Mirrored
<1>2. "overwrite" \in ops => Mirrored(j) = jobs[j].src
  BY DEF MirrorInv, MirrorFits, CallFits, Mirrored, UnitAnswers
<1>3. "overwrite" \notin ops /\ ans = "parsed" => Mirrored(j) # Garbled
  BY DEF UnitAnswers
<1>4. QED
  BY <1>1, <1>2, <1>3

(* A dispatch with the worker in step queues a request whose edits start   *)
(* from the worker's mirror.                                               *)
LEMMA DispatchMirrors ==
  ASSUME NEW t \in 1..MaxText, NEW v \in Views, NEW l \in Luas,
         NEW js \in [Jobs -> Job], Dispatch(t, v, l, js), JobsFit(js, l, v, slot),
         UNCHANGED <<slot, units>>
  PROVE  /\ GotFits(js) => GotFits(jobs')
         /\ MirrorFits(js, v, slot, units) => MirrorFits(jobs', view', slot', units')
<1>1. CASE l.inflight # 0
  BY <1>1 DEF Dispatch
<1>2. CASE l.inflight = 0
  <2>1. PICK j \in Jobs : view' = [v EXCEPT !.base = t] /\ jobs' = Request(js, j, t, v)
    BY <1>2 DEF Dispatch
  <2>2. /\ jobs'[j].stage = "queued" /\ jobs'[j].base = v.base
        /\ jobs'[j].ans = "none" /\ jobs'[j].cancel = FALSE
        /\ \A k \in Jobs \ {j} : jobs'[k] = js[k]
    <3>1. jobs' = Request(js, j, t, v)
      BY <2>1
    <3>2. jobs'[j].base = v.base
      BY <3>1, EmptyTypes DEF Request, Job
    <3>3. QED
      BY <3>1, <3>2, RequestShape
  <2>3. \A k \in Jobs : js[k].stage = "none"
    BY <1>2 DEF JobsFit, Jobs
  <2>4. GotFits(js) => GotFits(jobs')
    BY <2>2 DEF GotFits
  <2>5. MirrorFits(js, v, slot, units) => MirrorFits(jobs', view', slot', units')
    BY <2>2, <2>3 DEF MirrorFits, CallFits, StepFits
  <2>6. QED
    BY <2>4, <2>5
<1>3. QED
  BY <1>1, <1>2

(* When no parse is queued, called or called again, only the worker in     *)
(* step counts.                                                            *)
LEMMA IdleMirrors ==
  ASSUME NEW js, NEW v, NEW s, NEW us,
         \A k \in Jobs : js[k].stage \in {"none", "done"} /\ js[k].cancel = FALSE,
         s.synced /\ s.unit # 0 /\ us[s.unit].alive => us[s.unit].mirror = v.base
  PROVE  MirrorFits(js, v, s, us)
  BY DEF MirrorFits, CallFits, StepFits

(* A settled parse leaves none queued, called or called again.             *)
LEMMA SettledMirrors ==
  ASSUME Typed, JobInv, MirrorInv, NEW j \in Jobs, NEW ans, NEW got, Settled(j, ans, got),
         jobs[j].stage # "none", "overwrite" \in ops,
         slot'.synced /\ slot'.unit # 0 /\ units'[slot'.unit].alive =>
             units'[slot'.unit].mirror = view'.base
  PROVE  MirrorFits(jobs', view', slot', units')
<1>1. /\ jobs'[j].stage = "done" /\ jobs'[j].cancel = FALSE
      /\ \A k \in Jobs \ {j} : jobs'[k] = jobs[k]
  BY SettledShape
<1>2. \A k \in Jobs \ {j} : jobs[k].stage = "none" /\ jobs[k].cancel = FALSE
  BY DEF JobInv, JobsFit, MirrorInv, MirrorFits, Typed, Job
<1>3. \A k \in Jobs : jobs'[k].stage \in {"none", "done"} /\ jobs'[k].cancel = FALSE
  BY <1>1, <1>2
<1> DEFINE js == jobs'
           v == view'
           s == slot'
           us == units'
<1>4. /\ \A k \in Jobs : js[k].stage \in {"none", "done"} /\ js[k].cancel = FALSE
      /\ s.synced /\ s.unit # 0 /\ us[s.unit].alive => us[s.unit].mirror = v.base
  BY <1>3
<1> HIDE DEF js, v, s, us
<1>5. MirrorFits(js, v, s, us)
  BY <1>4, IdleMirrors
<1>6. QED
  BY <1>5 DEF js, v, s, us

(* Every step that ends in a settled parse or none keeps the worker's      *)
(* answers true to their requests.                                         *)
LEMMA GotStep == ParseIInv /\ MirrorInv /\ [Next]_vars => GotFits(jobs')
<1> SUFFICES ASSUME ParseIInv, MirrorInv, [Next]_vars PROVE GotFits(jobs')
  OBVIOUS
<1>0. Typed /\ SlotInv /\ JobInv /\ ViewInv /\ GotFits(jobs)
  BY TypeParts DEF ParseIInv, MirrorInv
<1>t. /\ text \in 0..MaxText /\ view \in Views /\ lua \in Luas /\ jobs \in [Jobs -> Job]
      /\ slot \in Slots /\ JobsFit(jobs, lua, view, slot)
      /\ text # 0 => text \in 1..MaxText
  BY <1>0, ConstantsAssumption DEF Typed, JobInv
<1>u. CASE UNCHANGED jobs
  BY <1>0, <1>u
<1>s. ASSUME NEW j \in Jobs, NEW ans, NEW got, Settled(j, ans, got), ans \notin {"parsed", "ok"}
      PROVE  GotFits(jobs')
  <2>1. jobs'[j].ans = ans /\ \A k \in Jobs \ {j} : jobs'[k] = jobs[k]
    BY <1>0, <1>s, SettledShape
  <2>2. QED
    BY <1>0, <1>s, <2>1 DEF GotFits
<1>d. ASSUME NEW t \in 1..MaxText, NEW v \in Views, NEW l \in Luas, NEW js \in [Jobs -> Job],
             GotFits(js), Dispatch(t, v, l, js)
      PROVE  GotFits(jobs')
  <2>1. CASE l.inflight # 0
    BY <1>d, <2>1 DEF Dispatch
  <2>2. CASE l.inflight = 0
    <3>1. PICK j \in Jobs : jobs' = Request(js, j, t, v)
      BY <1>d, <2>2 DEF Dispatch
    <3>2. jobs'[j].ans = "none" /\ \A k \in Jobs \ {j} : jobs'[k] = js[k]
      BY <3>1, RequestShape
    <3>3. QED
      BY <1>d, <3>2 DEF GotFits
  <2>3. QED
    BY <2>1, <2>2
<1>1. CASE Edit
  <2> DEFINE t == text + 1
  <2>1. t \in 1..MaxText /\ Dispatch(t, view, lua, jobs)
    BY <1>t, <1>1, ConstantsAssumption DEF Edit
  <2> HIDE DEF t
  <2>2. QED
    BY <1>0, <1>t, <1>d, <2>1
<1>2. CASE Visit
  BY <1>0, <1>t, <1>d, <1>2 DEF Visit
<1>3. CASE Retry
  <2> DEFINE l == [lua EXCEPT !.retry = FALSE]
  <2>1. l \in Luas /\ text \in 1..MaxText
    BY <1>t, <1>3 DEF Luas, Retry
  <2>2. Dispatch(text, view, l, jobs) \/ jobs' = jobs
    BY <1>3 DEF Retry
  <2> HIDE DEF l
  <2>3. QED
    BY <1>0, <1>t, <1>d, <1>u, <2>1, <2>2
<1>4. ASSUME NEW j \in Jobs, Cancel(j) PROVE GotFits(jobs')
  <2>1. \A k \in Jobs : /\ jobs'[k].ans = jobs[k].ans /\ jobs'[k].got = jobs[k].got
                        /\ jobs'[k].src = jobs[k].src
    BY <1>t, <1>4 DEF Cancel, Job
  <2>2. QED
    BY <1>0, <2>1 DEF GotFits
<1>5. ASSUME NEW j \in Jobs, JobCancelled(j) \/ JobHeld(j) \/ JobUnavailable(j)
                  \/ JobOrphaned(j) \/ JobFailed(j) \/ JobTimesOut(j)
      PROVE  GotFits(jobs')
  BY <1>5, <1>s
     DEF JobCancelled, JobHeld, JobUnavailable, JobOrphaned, JobFailed, JobTimesOut
<1>6. ASSUME NEW j \in Jobs, JobDeath(j) PROVE GotFits(jobs')
  <2> DEFINE m == DeathMessage(slot, jobs[j].unit, units[jobs[j].unit].cause)
  <2>1. m \notin {"parsed", "ok"}
    BY DEF DeathMessage
  <2>2. Settled(j, m, 0)
    BY <1>6 DEF JobDeath
  <2> HIDE DEF m
  <2>3. QED
    BY <1>s, <2>1, <2>2
<1>7. ASSUME NEW j \in Jobs, JobParsed(j) PROVE GotFits(jobs')
  <2>1. /\ jobs[j].ans = "parsed" /\ jobs[j].got = jobs[j].src
        /\ Settled(j, "ok", jobs[j].got)
    BY <1>0, <1>7 DEF JobParsed, GotFits
  <2>2. /\ jobs'[j].got = jobs[j].got /\ jobs'[j].src = jobs[j].src
        /\ \A k \in Jobs \ {j} : jobs'[k] = jobs[k]
    BY <1>0, <2>1, SettledShape, ZenonT(40)
  <2>3. QED
    BY <1>0, <2>1, <2>2 DEF GotFits
<1>8. ASSUME NEW j \in Jobs, JobDesync(j) PROVE GotFits(jobs')
  <2>1. CASE jobs[j].first
    <3>1. \A k \in Jobs : /\ jobs'[k].ans = jobs[k].ans /\ jobs'[k].got = jobs[k].got
                          /\ jobs'[k].src = jobs[k].src
      BY <1>t, <1>8, <2>1 DEF JobDesync, Job
    <3>2. QED
      BY <1>0, <3>1 DEF GotFits
  <2>2. CASE ~jobs[j].first
    BY <1>8, <1>s, <2>2 DEF JobDesync
  <2>3. QED
    BY <2>1, <2>2
<1>9. ASSUME NEW j \in Jobs, JobCalls(j) PROVE GotFits(jobs')
  <2>1. jobs'[j].ans = "none" /\ \A k \in Jobs \ {j} : jobs'[k] = jobs[k]
    <3> DEFINE full == ~slot'.synced
    <3>1. jobs' = [jobs EXCEPT ![j].stage = "calling", ![j].unit = slot'.unit,
                               ![j].full = full, ![j].ans = "none"]
      BY <1>9 DEF JobCalls, Called
    <3> HIDE DEF full
    <3>2. QED
      BY <1>t, <3>1 DEF Job
  <2>2. QED
    BY <1>0, <2>1 DEF GotFits
<1>10. ASSUME NEW j \in Jobs, NEW ans \in {"parsed", "overran", "failed", "desync"}, UnitAnswers(j, ans)
       PROVE GotFits(jobs')
  <2>1. ans = "parsed" => Mirrored(j) = jobs[j].src
    BY <1>0, <1>10, AnswerFits
  <2> DEFINE m == Mirrored(j)
  <2>2. jobs' = [jobs EXCEPT ![j].ans = ans, ![j].got = m]
    BY <1>10 DEF UnitAnswers
  <2>3. ans = "parsed" => m = jobs[j].src
    BY <2>1
  <2> HIDE DEF m
  <2>4. /\ jobs'[j].ans = ans /\ jobs'[j].got = m /\ jobs'[j].src = jobs[j].src
        /\ \A k \in Jobs \ {j} : jobs'[k] = jobs[k]
    BY <1>t, <2>2 DEF Job
  <2>5. QED
    BY <1>0, <2>3, <2>4 DEF GotFits
<1>11. ASSUME NEW j \in Jobs, Settle(j) \/ SettleGone(j) PROVE GotFits(jobs')
  <2> DEFINE js == [jobs EXCEPT ![j] = NoJob]
  <2>1. js \in [Jobs -> Job] /\ GotFits(js)
    <3>1. NoJob.ans = "none"
      BY DEF NoJob
    <3>2. QED
      BY <1>0, <1>t, <3>1, EmptyTypes DEF GotFits
  <2>2. CASE jobs' = js
    BY <2>1, <2>2
  <2>3. CASE \E moved \in BOOLEAN :
               Dispatch(text, Installed(j, moved),
                        [[Marked(j) EXCEPT !.inflight = 0] EXCEPT !.requested = FALSE], js)
    <3>1. PICK moved \in BOOLEAN :
            Dispatch(text, Installed(j, moved),
                     [[Marked(j) EXCEPT !.inflight = 0] EXCEPT !.requested = FALSE], js)
      BY <2>3
    <3> DEFINE v == Installed(j, moved)
               l == [[Marked(j) EXCEPT !.inflight = 0] EXCEPT !.requested = FALSE]
    <3>2. CASE jobs[j].stage = "done" /\ text # 0
      <4>1. v \in Views /\ l \in Luas /\ text \in 1..MaxText
        BY <1>0, <1>t, <3>2, InstalledShape, MarkedShape DEF Luas
      <4>2. Dispatch(text, v, l, js)
        BY <3>1
      <4> HIDE DEF v, l, js
      <4>3. QED
        BY <1>d, <2>1, <4>1, <4>2
    <3>3. CASE ~(jobs[j].stage = "done" /\ text # 0)
      BY <1>11, <2>2, <3>3 DEF Settle, SettleGone
    <3>4. QED
      BY <3>2, <3>3
  <2>4. QED
    BY <1>11, <2>2, <2>3 DEF Settle, SettleGone, FollowUp
<1>12. QED
  BY <1>u, <1>1, <1>2, <1>3, <1>4, <1>5, <1>6, <1>7, <1>8, <1>9, <1>10, <1>11
     DEF Next, Runs, vars, BackoffEnds, ReadFindsDeath, ReadTimesOut, Reestablish, ReestablishCrashes,
         KillBuffer, UnitDies

(* Every step keeps the mirror of the worker in step on the text that the  *)
(* next request's edits start from.                                        *)
LEMMA MirrorsStep ==
  ParseIInv /\ MirrorInv /\ [Next]_vars /\ "overwrite" \in ops =>
    MirrorFits(jobs', view', slot', units')
<1> DEFINE Kept == MirrorFits(jobs', view', slot', units')
<1> SUFFICES ASSUME ParseIInv, MirrorInv, [Next]_vars, "overwrite" \in ops PROVE Kept
  OBVIOUS
<1>0. Typed /\ SlotInv /\ JobInv /\ ViewInv /\ MirrorFits(jobs, view, slot, units)
  BY TypeParts DEF ParseIInv, MirrorInv
<1>t. /\ text \in 0..MaxText /\ view \in Views /\ lua \in Luas /\ jobs \in [Jobs -> Job]
      /\ slot \in Slots /\ units \in [Serials -> Unit] /\ JobsFit(jobs, lua, view, slot)
      /\ text # 0 => text \in 1..MaxText
  BY <1>0, ConstantsAssumption DEF Typed, JobInv
<1>f. /\ \A k \in Jobs : ~jobs[k].cancel /\ (jobs[k].stage = "again" => ~slot.synced)
      /\ \A k \in Jobs : CallFits(jobs[k], units)
      /\ StepFits(jobs, view, slot, units)
  BY <1>0 DEF MirrorFits
<1>n. /\ NoSlot.unit = 0 /\ NoSlot.synced = FALSE /\ NoUnit.alive = FALSE
      /\ NoJob.stage = "none" /\ NoJob.cancel = FALSE
  BY DEF NoSlot, NoUnit, NoJob
<1>h. ~slot.here => slot.unit = 0 /\ slot.synced = FALSE
  BY <1>0, <1>n DEF SlotInv
<1>o. ASSUME NEW j \in Jobs, jobs[j].stage # "none"
      PROVE  \A k \in Jobs \ {j} : jobs[k].stage = "none"
  BY <1>t, <1>o DEF JobsFit
<1>u. CASE UNCHANGED <<view, jobs, slot, units>>
  BY <1>0, <1>u
<1>1. CASE Edit
  <2> DEFINE t == text + 1
  <2>1. t \in 1..MaxText /\ Dispatch(t, view, lua, jobs) /\ UNCHANGED <<slot, units>>
    BY <1>t, <1>1, ConstantsAssumption DEF Edit
  <2> HIDE DEF t
  <2>2. QED
    BY <1>0, <1>t, <2>1, DispatchMirrors
<1>2. CASE Visit
  BY <1>0, <1>t, <1>2, DispatchMirrors DEF Visit
<1>3. CASE Retry
  <2> DEFINE l == [lua EXCEPT !.retry = FALSE]
  <2>1. l \in Luas /\ l.inflight = lua.inflight /\ text \in 1..MaxText
    BY <1>t, <1>3 DEF Luas, Retry
  <2>2. \/ Dispatch(text, view, l, jobs)
        \/ UNCHANGED <<view, jobs>>
    BY <1>3 DEF Retry
  <2>3. UNCHANGED <<slot, units>>
    BY <1>3 DEF Retry
  <2>4. JobsFit(jobs, l, view, slot)
    BY <1>t, <2>1 DEF JobsFit
  <2> HIDE DEF l
  <2>5. QED
    BY <1>0, <1>t, <1>u, <2>1, <2>2, <2>3, <2>4, DispatchMirrors
<1>4. CASE BackoffEnds
  <2>1. slot'.unit = slot.unit /\ slot'.synced = slot.synced
    BY <1>t, <1>4 DEF BackoffEnds, Slots
  <2>2. QED
    BY <1>f, <1>4, <2>1 DEF BackoffEnds, MirrorFits, StepFits
<1>5. CASE ReadFindsDeath
  <2>1. slot' = Bury(slot, slot.unit, units[slot.unit].cause)
    BY <1>5 DEF ReadFindsDeath
  <2>2. slot'.unit = 0 /\ slot'.synced = FALSE
    BY <1>t, <2>1 DEF Bury, Note, Slots
  <2>3. \A k \in Jobs : units'[jobs[k].unit] = units[jobs[k].unit]
    BY <1>t, <1>5 DEF ReadFindsDeath
  <2>4. QED
    BY <1>f, <1>5, <2>2, <2>3 DEF ReadFindsDeath, MirrorFits, CallFits, StepFits
<1>5a. CASE ReadTimesOut
  <2>1. /\ slot'.unit \in {0, slot.unit}
        /\ slot' = slot \/ (slot'.unit = 0 /\ slot'.synced = FALSE)
    BY <1>t, <1>5a DEF ReadTimesOut, Bury, Note, Slots
  <2>2. [NoUnit EXCEPT !.cause = "end"].alive = FALSE
    BY <1>n, EmptyTypes DEF Unit
  <2>3. \A w \in Serials : units'[w].alive => units'[w] = units[w]
    BY <1>t, <1>n, <1>5a, <2>2 DEF ReadTimesOut
  <2>4. /\ \A k \in Jobs : jobs[k].stage = "calling" => jobs[k].unit \in Serials
        /\ slot.unit # 0 => slot.unit \in Serials
    BY <1>t DEF JobsFit, Job, Slots
  <2>5. UNCHANGED <<jobs, view>>
    BY <1>5a DEF ReadTimesOut
  <2>6. QED
    BY <1>f, <2>1, <2>3, <2>4, <2>5 DEF MirrorFits, CallFits, StepFits
<1>6. CASE Reestablish
  <2>1. slot'.synced = FALSE /\ jobs' = jobs
    BY <1>t, <1>6 DEF Reestablish, Slots
  <2>2. \A k \in Jobs : jobs[k].stage \notin {"calling", "again"}
    BY <1>6 DEF Reestablish, MayReestablish
  <2>3. QED
    BY <1>f, <2>1, <2>2 DEF MirrorFits, CallFits, StepFits
<1>7. CASE ReestablishCrashes
  <2>1. slot'.unit = slot.unit /\ slot'.synced = slot.synced
    BY <1>t, <1>7 DEF ReestablishCrashes, Note, Slots
  <2>2. QED
    BY <1>f, <1>7, <2>1 DEF ReestablishCrashes, MirrorFits, StepFits
<1>8. CASE KillBuffer
  <2>1. slot'.unit = 0 /\ slot'.synced = FALSE /\ jobs' = jobs
    BY <1>n, <1>8 DEF KillBuffer
  <2>2. [NoUnit EXCEPT !.cause = "end"].alive = FALSE
    BY <1>n, EmptyTypes DEF Unit
  <2>3. \A u \in Serials : units'[u].alive => units'[u] = units[u]
    BY <1>t, <1>8, <2>2 DEF KillBuffer
  <2>4. \A k \in Jobs : jobs[k].stage = "calling" => jobs[k].unit \in Serials
    BY <1>t DEF JobsFit, Job
  <2>5. QED
    BY <1>f, <2>1, <2>3, <2>4 DEF MirrorFits, CallFits, StepFits
<1>9. ASSUME NEW j \in Jobs, Cancel(j) PROVE FALSE
  BY <1>9 DEF Cancel, MirrorInv, Careful
<1>10. ASSUME NEW j \in Jobs, JobCancelled(j) PROVE FALSE
  BY <1>f, <1>10 DEF JobCancelled
<1>11. ASSUME NEW j \in Jobs, JobHeld(j) \/ JobUnavailable(j) PROVE Kept
  <2>1. slot'.unit = 0 /\ jobs[j].stage # "none"
    BY <1>11 DEF JobHeld, JobUnavailable, MayRun
  <2>2. Settled(j, "held", 0) \/ Settled(j, "unavailable", 0)
    BY <1>11 DEF JobHeld, JobUnavailable
  <2>3. QED
    BY <1>0, <2>1, <2>2, SettledMirrors
<1>12. ASSUME NEW j \in Jobs, JobOrphaned(j) PROVE Kept
  <2>1. slot'.unit = 0 /\ jobs[j].stage # "none" /\ Settled(j, "failed", 0)
    BY <1>h, <1>12 DEF JobOrphaned
  <2>2. QED
    BY <1>0, <2>1, SettledMirrors
<1>13. ASSUME NEW j \in Jobs, NEW ans, NEW got, jobs[j].stage = "calling", Settled(j, ans, got),
              jobs[j].ans # "none", slot'.unit = slot.unit, UNCHANGED <<units, view>>
       PROVE  Kept
  <2>1. /\ slot.unit # 0 => slot.unit = jobs[j].unit
        /\ jobs[j].src = view.base
    BY <1>t, <1>13 DEF JobsFit
  <2>2. units[jobs[j].unit].alive => units[jobs[j].unit].mirror = jobs[j].src
    BY <1>f, <1>13 DEF CallFits
  <2>3. slot'.unit # 0 /\ units'[slot'.unit].alive => units'[slot'.unit].mirror = view'.base
    BY <1>13, <2>1, <2>2
  <2>4. QED
    BY <1>0, <1>13, <2>3, SettledMirrors
<1>14. ASSUME NEW j \in Jobs, JobParsed(j) \/ JobFailed(j) PROVE Kept
  <2>1. slot'.unit = slot.unit
    BY <1>t, <1>14 DEF JobParsed, JobFailed, Slots
  <2>2. \E ans, got : Settled(j, ans, got)
    BY <1>14 DEF JobParsed, JobFailed
  <2>3. jobs[j].stage = "calling" /\ jobs[j].ans # "none" /\ UNCHANGED <<units, view>>
    BY <1>14 DEF JobParsed, JobFailed
  <2>4. QED
    BY <1>13, <2>1, <2>2, <2>3
<1>15. ASSUME NEW j \in Jobs, JobDesync(j) PROVE Kept
  <2>1. slot'.synced = FALSE /\ slot'.unit = slot.unit
    BY <1>t, <1>h, <1>15 DEF JobDesync, Slots
  <2>2. jobs[j].stage = "calling" /\ jobs[j].ans # "none" /\ UNCHANGED <<units, view>>
    BY <1>15 DEF JobDesync
  <2>3. CASE jobs[j].first
    <3>1. /\ jobs'[j].stage = "again" /\ jobs'[j].cancel = jobs[j].cancel
          /\ \A k \in Jobs \ {j} : jobs'[k] = jobs[k]
      BY <1>t, <1>15, <2>3 DEF JobDesync, Job
    <3>2. \A k \in Jobs \ {j} : jobs[k].stage = "none"
      BY <1>o, <2>2
    <3>3. QED
      BY <1>f, <2>1, <3>1, <3>2 DEF MirrorFits, CallFits, StepFits
  <2>4. CASE ~jobs[j].first
    <3>1. Settled(j, "failed", 0)
      BY <1>15, <2>4 DEF JobDesync
    <3>2. QED
      BY <1>13, <2>1, <2>2, <3>1
  <2>5. QED
    BY <2>3, <2>4

<1>16. ASSUME NEW j \in Jobs, JobDeath(j) \/ JobTimesOut(j) PROVE Kept
  <2> DEFINE u == jobs[j].unit
  <2>1. jobs[j].stage = "calling" /\ u # 0 /\ slot.unit \in {0, u}
    BY <1>t, <1>16 DEF JobDeath, JobTimesOut, JobsFit
  <2>2. PICK cause : slot' = Bury(slot, u, cause)
    BY <1>16 DEF JobDeath, JobTimesOut
  <2>3. PICK ans : Settled(j, ans, 0)
    BY <1>16 DEF JobDeath, JobTimesOut
  <2> HIDE DEF u
  <2>4. slot'.unit = 0
    BY <1>t, <2>1, <2>2 DEF Bury, Note, Slots
  <2>5. QED
    BY <1>0, <2>1, <2>3, <2>4, SettledMirrors
<1>17. ASSUME NEW j \in Jobs, NEW ans \in {"parsed", "overran", "failed", "desync"}, UnitAnswers(j, ans)
       PROVE Kept
  <2> DEFINE m == Mirrored(j)
             u == jobs[j].unit
  <2>1. m = jobs[j].src
    BY <1>17, AnswerFits, <1>0
  <2>2. /\ jobs' = [jobs EXCEPT ![j].ans = ans, ![j].got = m]
        /\ units' = [units EXCEPT ![u].mirror = m]
        /\ jobs[j].stage = "calling" /\ UNCHANGED <<slot, view>>
    BY <1>17 DEF UnitAnswers
  <2>3. u \in Serials
    BY <1>t, <2>2 DEF JobsFit, Job
  <2> HIDE DEF m
  <2>4. /\ jobs'[j].ans = ans /\ jobs'[j].src = jobs[j].src /\ jobs'[j].stage = "calling"
        /\ jobs'[j].unit = u /\ jobs'[j].cancel = jobs[j].cancel
        /\ \A k \in Jobs \ {j} : jobs'[k] = jobs[k]
    BY <1>t, <2>2 DEF Job
  <2>5. units'[u].mirror = m
    BY <1>t, <2>2, <2>3 DEF Unit
  <2>6. \A k \in Jobs \ {j} : jobs[k].stage = "none"
    BY <1>o, <2>2
  <2> HIDE DEF u
  <2>7. CallFits(jobs'[j], units')
    BY <2>1, <2>4, <2>5 DEF CallFits
  <2>8. \A k \in Jobs \ {j} : CallFits(jobs'[k], units')
    BY <2>4, <2>6 DEF CallFits
  <2>9. QED
    BY <1>f, <2>2, <2>4, <2>6, <2>7, <2>8, ZenonT(40) DEF MirrorFits, StepFits
<1>18. ASSUME NEW j \in Jobs, JobCalls(j) PROVE Kept
  <2> DEFINE full == ~slot'.synced
             s == Retire(Cell, jobs[j].first)
  <2>1. /\ jobs' = [jobs EXCEPT ![j].stage = "calling", ![j].unit = slot'.unit,
                                ![j].full = full, ![j].ans = "none"]
        /\ jobs[j].stage \in {"queued", "again"} /\ view' = view
    BY <1>18 DEF JobCalls, Called, MayRun
  <2>2. full = TRUE <=> ~slot'.synced
    OBVIOUS
  <2>3. /\ s \in Slots /\ s.unit \in {0, slot.unit}
        /\ s.unit = slot.unit => s.synced \in {FALSE, slot.synced}
    BY <1>0, CellShape
  <2>4. full \in BOOLEAN
    OBVIOUS
  <2> HIDE DEF full, s
  <2>5. /\ jobs'[j].stage = "calling" /\ jobs'[j].ans = "none" /\ jobs'[j].full = full
        /\ jobs'[j].unit = slot'.unit /\ jobs'[j].base = jobs[j].base
        /\ jobs'[j].cancel = jobs[j].cancel
        /\ \A k \in Jobs \ {j} : jobs'[k] = jobs[k]
    BY <1>t, <2>1 DEF Job
  <2>6. \A k \in Jobs \ {j} : jobs[k].stage = "none"
    BY <1>o, <2>1
  <2>7. slot'.synced /\ units'[slot'.unit].alive => units'[slot'.unit].mirror = jobs[j].base
    <3>1. CASE s.unit # 0 /\ slot' = s /\ units' = LetGo(units, s)
      <4>1. s.unit = slot.unit /\ s.unit \in Serials
        BY <2>3, <3>1 DEF Slots
      <4>2. units'[s.unit] = units[s.unit]
        BY <1>t, <2>3, <3>1, <4>1, LetGoShape
      <4>3. slot'.synced => slot.synced /\ jobs[j].stage = "queued"
        BY <1>f, <2>1, <2>3, <3>1, <4>1
      <4>4. QED
        BY <1>f, <3>1, <4>1, <4>2, <4>3 DEF StepFits
    <3>2. CASE \E n \in Serials : slot' = [s EXCEPT !.unit = n, !.synced = FALSE]
      BY <2>3, <3>2 DEF Slots
    <3>3. QED
      BY <1>18, <3>1, <3>2 DEF JobCalls, s
  <2>8. CallFits(jobs'[j], units')
    BY <2>2, <2>4, <2>5, <2>7 DEF CallFits
  <2>9. \A k \in Jobs \ {j} : CallFits(jobs'[k], units')
    BY <2>5, <2>6 DEF CallFits
  <2>10. QED
    BY <1>f, <2>5, <2>6, <2>8, <2>9 DEF MirrorFits, StepFits
<1>19. ASSUME NEW j \in Jobs, Settle(j) \/ SettleGone(j) PROVE Kept
  <2> DEFINE js == [jobs EXCEPT ![j] = NoJob]
  <2>1. js \in [Jobs -> Job] /\ js[j] = NoJob /\ \A k \in Jobs \ {j} : js[k] = jobs[k]
    BY <1>t, EmptyTypes
  <2>2. jobs[j].stage = "done" /\ UNCHANGED <<slot, units>>
    BY <1>19 DEF Settle, SettleGone
  <2>3. \A k \in Jobs \ {j} : jobs[k].stage = "none"
    BY <1>o, <2>2
  <2> HIDE DEF js
  <2>4. /\ \A k \in Jobs : js[k].stage = "none" /\ js[k].cancel = FALSE
        /\ \A k \in Jobs : jobs[k].stage \in {"none", "done"}
    <3>1. \A k \in Jobs : jobs[k].cancel = FALSE
      BY <1>f, <1>t DEF Job
    <3>2. QED
      BY <1>n, <2>1, <2>2, <2>3, <3>1
  <2>5. slot.synced /\ slot.unit # 0 /\ units[slot.unit].alive =>
          units[slot.unit].mirror = view.base
    BY <1>f, <2>4 DEF StepFits
  <2>6. ASSUME NEW v, v.base = view.base PROVE MirrorFits(js, v, slot, units)
    BY <2>4, <2>5, <2>6, IdleMirrors
  <2>7. CASE SettleGone(j)
    <3>1. jobs' = js /\ view' = view
      BY <2>7 DEF SettleGone, js
    <3>2. MirrorFits(js, view, slot, units)
      BY <2>6
    <3>3. QED
      BY <2>2, <3>1, <3>2
  <2>8. CASE Settle(j)
    <3>1. PICK moved \in BOOLEAN :
            IF lua.inflight = j
            THEN FollowUp(Installed(j, moved), [Marked(j) EXCEPT !.inflight = 0], js)
            ELSE lua' = Marked(j) /\ view' = Installed(j, moved) /\ jobs' = js
      BY <2>8 DEF Settle, js
    <3> DEFINE v == Installed(j, moved)
               l == [[Marked(j) EXCEPT !.inflight = 0] EXCEPT !.requested = FALSE]
    <3>2. Dispatch(text, v, l, js) \/ (view' = v /\ jobs' = js)
      BY <3>1 DEF FollowUp
    <3>3. v \in Views /\ v.base = view.base /\ l \in Luas /\ text \in 1..MaxText
      BY <1>0, <1>t, <2>8, InstalledShape, MarkedShape DEF Luas, Settle
    <3> HIDE DEF v, l
    <3>4. MirrorFits(js, v, slot, units)
      BY <2>6, <3>3
    <3>5. JobsFit(js, l, v, slot)
      <4>1. NoJob.ans = "none"
        BY DEF NoJob
      <4>2. \A k \in Jobs : js[k].ans = "ok" => js[k].unit # 0
        BY <1>t, <2>1, <4>1 DEF JobsFit
      <4>3. QED
        BY <2>4, <4>2 DEF JobsFit
    <3>6. QED
      BY <2>1, <2>2, <3>2, <3>3, <3>4, <3>5, DispatchMirrors
  <2>9. QED
    BY <1>19, <2>7, <2>8
<1>20. ASSUME NEW u \in Serials, NEW cause \in {"crash", "kill"}, UnitDies(u, cause)
       PROVE Kept
  <2>1. [NoUnit EXCEPT !.cause = cause].alive = FALSE
    BY <1>n, EmptyTypes DEF Unit
  <2>2. \A w \in Serials : units'[w].alive => units'[w] = units[w]
    BY <1>t, <1>20, <2>1 DEF UnitDies
  <2>3. /\ \A k \in Jobs : jobs[k].stage = "calling" => jobs[k].unit \in Serials
        /\ slot.unit # 0 => slot.unit \in Serials
    BY <1>t DEF JobsFit, Job, Slots
  <2>4. UNCHANGED <<jobs, slot, view>>
    BY <1>20 DEF UnitDies
  <2>5. QED
    BY <1>f, <2>2, <2>3, <2>4 DEF MirrorFits, CallFits, StepFits
<1>21. QED
  BY <1>u, <1>1, <1>2, <1>3, <1>4, <1>5, <1>5a, <1>6, <1>7, <1>8, <1>9, <1>10, <1>11, <1>12,
     <1>14, <1>15, <1>16, <1>17, <1>18, <1>19, <1>20 DEF Next, Runs, vars

-----------------------------------------------------------------------------
(* What is painted implements Highlighter.                                 *)

(* A dispatch changes neither what is painted nor the newest parse.        *)
LEMMA DispatchPaints ==
  ASSUME NEW t \in 1..MaxText, NEW v \in Views, NEW l \in Luas,
         NEW js \in [Jobs -> Job], Dispatch(t, v, l, js)
  PROVE  view'.shown = v.shown /\ view'.newest = v.newest
<1>1. view' = v \/ view' = [v EXCEPT !.base = t]
  BY DEF Dispatch
<1>2. QED
  BY <1>1 DEF Views

(* The tick that settles a parse paints from its text, or paints plain, or *)
(* leaves what is painted.                                                 *)
LEMMA SettlePaints ==
  ASSUME Typed, JobInv, ViewInv, MirrorInv, NEW j \in Jobs, Settle(j)
  PROVE  \/ /\ view'.shown = view.base /\ view'.newest = view.base
         \/ view'.shown \in {0, view.shown} /\ view'.newest = view.newest
<1>1. PICK moved \in BOOLEAN :
        IF lua.inflight = j
        THEN FollowUp(Installed(j, moved), [Marked(j) EXCEPT !.inflight = 0],
                      [jobs EXCEPT ![j] = NoJob])
        ELSE /\ lua' = Marked(j) /\ view' = Installed(j, moved)
             /\ jobs' = [jobs EXCEPT ![j] = NoJob]
  BY DEF Settle
<1> DEFINE v == Installed(j, moved)
           l == [[Marked(j) EXCEPT !.inflight = 0] EXCEPT !.requested = FALSE]
           js == [jobs EXCEPT ![j] = NoJob]
<1>2. \/ v.shown = view.base /\ v.newest = view.base
      \/ v.shown \in {0, view.shown} /\ v.newest = view.newest
  <2>1. /\ jobs[j].src = view.base /\ view \in Views
        /\ jobs[j].ans = "ok" => jobs[j].got = jobs[j].src
    BY DEF Settle, JobInv, JobsFit, MirrorInv, GotFits, Typed
  <2>2. CASE jobs[j].ans = "ok"
    BY <2>1, <2>2 DEF Installed, Views
  <2>3. CASE jobs[j].ans # "ok"
    <3>1. v \in {view, [view EXCEPT !.current = 0, !.shown = 0, !.unit = 0]}
      BY <2>3 DEF Installed
    <3>2. QED
      BY <2>1, <3>1 DEF Views
  <2>4. QED
    BY <2>2, <2>3
<1>3. Dispatch(text, v, l, js) \/ (view' = v /\ jobs' = js)
  BY <1>1 DEF FollowUp
<1>4. v \in Views /\ l \in Luas /\ js \in [Jobs -> Job] /\ text \in 1..MaxText
  <2>1. jobs[j].stage = "done" /\ text \in 1..MaxText
    BY ConstantsAssumption DEF Settle, Typed
  <2>2. v \in Views
    BY <2>1, InstalledShape
  <2>3. Marked(j) \in Luas
    BY <2>1, MarkedShape
  <2>4. l \in Luas
    BY <2>3 DEF Luas
  <2>5. js \in [Jobs -> Job]
    BY EmptyTypes DEF Typed
  <2>6. QED
    BY <2>1, <2>2, <2>4, <2>5
<1> HIDE DEF v, l, js
<1>5. view'.shown = v.shown /\ view'.newest = v.newest
  BY <1>3, <1>4, DispatchPaints
<1>6. QED
  BY <1>2, <1>5

(* Every step paints from a text of the buffer no older than what was      *)
(* painted, or paints plain, or leaves what is painted.                    *)
LEMMA HighlightStep ==
  ParseIInv /\ MirrorInv /\ [Next]_vars =>
    [H!Next]_<<text, view.shown, view.newest>>
<1> SUFFICES ASSUME ParseIInv, MirrorInv, [Next]_vars
             PROVE  [H!Next]_<<text, view.shown, view.newest>>
  OBVIOUS
<1>0. Typed /\ SlotInv /\ JobInv /\ ViewInv
  BY TypeParts DEF ParseIInv
<1>t. /\ text \in 0..MaxText /\ view \in Views /\ lua \in Luas /\ jobs \in [Jobs -> Job]
      /\ text # 0 => text \in 1..MaxText
  BY <1>0, ConstantsAssumption DEF Typed
<1>b. /\ view.base \in Nat /\ view.newest \in Nat /\ text \in Nat /\ 0 < view.base
      /\ view.newest <= view.base /\ (text # 0 => view.base <= text)
      /\ view.current \in {0, view.newest} /\ view.current \in Nat
  BY <1>0, <1>t, ConstantsAssumption DEF ViewInv, ViewFits, Views
<1>u. CASE UNCHANGED <<text, view>>
  BY <1>u
<1>s. CASE UNCHANGED text /\ view'.shown = view.shown /\ view'.newest = view.newest
  BY <1>s
<1>1. CASE Edit
  <2> DEFINE t == text + 1
  <2>1. t \in 1..MaxText /\ Dispatch(t, view, lua, jobs) /\ text' = t
        /\ text \in 1..(MaxText - 1)
    BY <1>t, <1>1, ConstantsAssumption DEF Edit
  <2> HIDE DEF t
  <2>2. view'.shown = view.shown /\ view'.newest = view.newest
    BY <1>t, <2>1, DispatchPaints
  <2>3. QED
    BY <2>1, <2>2 DEF H!Next, H!Edit, t
<1>2. CASE Visit
  BY <1>t, <1>s, <1>2, DispatchPaints DEF Visit
<1>3. CASE Retry
  <2> DEFINE l == [lua EXCEPT !.retry = FALSE]
  <2>1. l \in Luas /\ text \in 1..MaxText /\ text' = text
    BY <1>t, <1>3 DEF Luas, Retry
  <2>2. Dispatch(text, view, l, jobs) \/ view' = view
    BY <1>3 DEF Retry
  <2> HIDE DEF l
  <2>3. QED
    BY <1>t, <1>s, <2>1, <2>2, DispatchPaints
<1>4. CASE Reestablish
  <2>1. PICK n \in Serials : view' = [view EXCEPT !.unit = n, !.shown = view.current]
    BY <1>4 DEF Reestablish
  <2>2. view'.shown = view.current /\ view'.newest = view.newest
    BY <1>t, <2>1 DEF Views
  <2>3. text' = text /\ text # 0 /\ view.current # 0
    BY <1>4 DEF Reestablish, Readable
  <2> DEFINE t == view.newest
  <2>4. t \in t..text /\ t > 0 /\ view'.shown = t /\ view'.newest = t
    BY <1>b, <2>2, <2>3
  <2>5. H!Paint
    BY <2>3, <2>4 DEF H!Paint
  <2>6. QED
    BY <2>5 DEF H!Next
<1>5. CASE KillBuffer
  <2>1. text' = 0 /\ view'.shown = 0 /\ view'.newest = view.newest
    BY <1>t, <1>5 DEF KillBuffer, Views
  <2>2. QED
    BY <2>1 DEF H!Next, H!Close
<1>6. ASSUME NEW j \in Jobs, Settle(j) PROVE [H!Next]_<<text, view.shown, view.newest>>
  <2>1. text' = text /\ text # 0
    BY <1>6 DEF Settle
  <2>2. CASE view'.shown = view.base /\ view'.newest = view.base
    <3>1. view.base \in view.newest..text
      BY <1>b, <2>1
    <3>2. H!Paint
      BY <1>b, <2>1, <2>2, <3>1 DEF H!Paint
    <3>3. QED
      BY <3>2 DEF H!Next
  <2>3. CASE view'.shown \in {0, view.shown} /\ view'.newest = view.newest
    BY <2>1, <2>3 DEF H!Next, H!PaintPlain
  <2>4. QED
    BY <1>0, <1>6, <2>2, <2>3, SettlePaints
<1>7. QED
  BY <1>u, <1>1, <1>2, <1>3, <1>4, <1>5, <1>6
     DEF Next, Runs, vars, Cancel, JobCancelled, JobHeld, JobUnavailable, JobCalls,
         JobOrphaned, JobParsed, JobFailed, JobDesync, JobDeath, JobTimesOut, UnitAnswers,
         SettleGone, UnitDies, BackoffEnds, ReadFindsDeath, ReadTimesOut, ReestablishCrashes

(* In a session that does not both cancel queued parses and overwrite in   *)
(* place, whatever workers crash, are replaced or answer late, what is     *)
(* painted comes from a parse of one of the buffer's own texts, and an     *)
(* older parse never replaces a newer one.                                 *)
THEOREM PaintsItsTexts ==
  ASSUME \A S \in Scenarios : ~({"cancel", "overwrite"} \subseteq S)
  PROVE  Spec => Highlights
<1>1. Init => H!Init
  BY DEF Init, H!Init
<1>2. Init => MirrorInv
  <2> SUFFICES ASSUME Init PROVE MirrorInv
    OBVIOUS
  <2>1. Careful
    BY DEF Init, Careful
  <2>2. ParseIInv /\ NoSlot.synced = FALSE /\ NoJob.cancel = FALSE
    BY ParseInit DEF NoSlot, NoJob
  <2>3. \A j \in Jobs : jobs[j].stage \in {"none", "queued"} /\ jobs[j].ans = "none"
                        /\ jobs[j].cancel = FALSE
    BY FirstParse DEF Jobs
  <2>4. QED
    BY <2>1, <2>2, <2>3
       DEF Init, MirrorInv, GotFits, MirrorFits, CallFits, StepFits
<1>3. ParseIInv /\ MirrorInv /\ [Next]_vars => MirrorInv'
  <2>1. ParseIInv /\ MirrorInv /\ [Next]_vars => ops' = ops
    BY DEF Next, Runs, vars, Edit, Visit, Retry, Cancel, JobCancelled, JobHeld,
           JobUnavailable, JobCalls, JobOrphaned, JobParsed, JobFailed, JobDesync,
           JobDeath, JobTimesOut, UnitAnswers, Settle, SettleGone, UnitDies, BackoffEnds,
           ReadFindsDeath, ReadTimesOut, Reestablish, ReestablishCrashes, KillBuffer
  <2>2. QED
    BY <2>1, GotStep, MirrorsStep DEF MirrorInv, Careful
<1>4. QED
  BY <1>1, <1>2, <1>3, ParseIInvAlways, HighlightStep, PTL DEF Spec, Highlights, H!Spec
=============================================================================
