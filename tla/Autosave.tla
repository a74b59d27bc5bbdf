------------------------------ MODULE Autosave ------------------------------
(***************************************************************************)
(* Crash-recovery copies of modified buffers: src/autosave.rs and its      *)
(* cadence, builtin/runtime/autosave.lua.                                  *)
(*                                                                         *)
(* A recovery copy of a buffer lives at a key derived from the buffer's    *)
(* path.  A staging pass writes each copy beside its key; one installer    *)
(* thread at a time syncs a batch of staged copies and renames them over   *)
(* their keys; the main thread takes the installer when it is done.        *)
(* Saving, killing, renaming, recovering and discarding retire or claim    *)
(* keys meanwhile.  The main thread's handlers are functions from the      *)
(* cache and the disk to the cache and the disk; the installer's steps     *)
(* interleave with them.                                                   *)
(***************************************************************************)
EXTENDS Naturals, FiniteSets

CONSTANTS Buffers,   \* BufferIds a session can hand out, in opening order
          Paths,     \* file paths; key_for is injective, so also the keys
          NoPath,    \* no key
          MaxClock,  \* bound on the edits of a behaviour
          Mixes      \* what may happen in a behaviour: which calls may fail,
                     \* "write" (staging a copy), "install" (its sync or
                     \* rename), "remove", "panic" (the installer thread),
                     \* "spawn" (starting it), and what the user does

ASSUME BuffersAssumption == Buffers \subseteq Nat \ {0}
ASSUME PathsAssumption == NoPath \notin Paths
ASSUME ClockAssumption == MaxClock \in Nat \ {0}

VARIABLES bufs,      \* the buffer registry
          st,        \* CacheInner, the autosave directory, and last_error
          clock,     \* the last revision handed out; texts are stamped by it
          enabled,   \* autosave.lua: enabled
          due,       \* the interval has passed since last_sweep_ms
          hold,      \* autosave.lua: hold, 0 for nil
          prompt,    \* recover-file's question: the buffer and path it is for
          quitting,  \* quit's question is on the screen
          healthy,   \* no call fails any more
          mix        \* the mix of this behaviour

vars == <<bufs, st, clock, enabled, due, hold, prompt, quitting, healthy, mix>>

Faults == mix.faults
Ops == mix.ops

NoBuffer == 0

(* A recovery copy: the buffer and revision it was taken of, and its text. *)
(* A copy an earlier session left has no buffer and no revision.           *)
Copy == [id : Buffers, rev : Nat, text : Nat]
          \cup [id : {NoBuffer}, rev : {0}, text : Nat]
NoCopy == [id |-> NoBuffer, rev |-> 0, text |-> 0]
CrashCopy(c) == c.id = NoBuffer /\ c.text # 0
SessionCopy(c) == c.id # NoBuffer

Batch == [Paths -> Copy]
NoCopies == [p \in Paths |-> NoCopy]
Keys(batch) == {p \in Paths : batch[p] # NoCopy}

Entry == [hash : Paths \cup {NoPath}, rev : Nat]
Unwritten == [hash |-> NoPath, rev |-> 0]

(* The installer thread: its batch, the keys it has still to install and   *)
(* those it failed on.  phase is what handle.is_finished and join tell.    *)
Installer == [phase  : {"none", "running", "done", "panicked"},
              batch  : Batch,
              todo   : SUBSET Paths,
              failed : SUBSET Paths]
NoInstaller == [phase |-> "none", batch |-> NoCopies, todo |-> {}, failed |-> {}]

(* CacheInner, with the directory it keeps and the failure Lua shows.      *)
Cache == [written    : [Buffers -> Entry],
          owner      : [Paths -> Buffers \cup {NoBuffer}],
          staged     : Batch,
          installer  : Installer,
          retiring   : SUBSET Paths,
          unreported : BOOLEAN,
          passFailed : BOOLEAN,
          lastError  : BOOLEAN,
          disk       : Batch]

FreshCache(disk) ==
  [written    |-> [b \in Buffers |-> Unwritten],
   owner      |-> [p \in Paths |-> NoBuffer],
   staged     |-> NoCopies,
   installer  |-> NoInstaller,
   retiring   |-> {},
   unreported |-> FALSE,
   passFailed |-> FALSE,
   lastError  |-> FALSE,
   disk       |-> disk]

(* hooked: the load fired after-load, so a removal callback is registered; *)
(* an argv [new file] buffer fires none.                                   *)
Buffer == [phase    : {"unopened", "live", "dead"},
           path     : Paths \cup {NoPath},
           rev      : Nat,
           text     : Nat,
           modified : BOOLEAN,
           hooked   : BOOLEAN]
Unopened == [phase |-> "unopened", path |-> NoPath, rev |-> 0, text |-> 0,
             modified |-> FALSE, hooked |-> FALSE]

NoPrompt == [buf |-> NoBuffer, path |-> NoPath]

(* The state is of its type, and a live buffer visits a file. *)
TypeOK ==
  /\ bufs \in [Buffers -> Buffer]
  /\ \A b \in Buffers : bufs[b].phase = "live" => bufs[b].path \in Paths
  /\ st \in Cache
  /\ clock \in 0..MaxClock
  /\ enabled \in BOOLEAN
  /\ due \in BOOLEAN
  /\ hold \in 0..2
  /\ prompt \in [buf : Buffers, path : Paths] \cup {NoPrompt}
  /\ quitting \in BOOLEAN
  /\ healthy \in BOOLEAN
  /\ mix \in Mixes

-----------------------------------------------------------------------------
(* What fails during one handler: keys whose staging write, install or     *)
(* removal fails, and whether the installer panics or cannot be started.   *)
Trouble(kind) == IF kind \in Faults /\ ~healthy THEN SUBSET Paths ELSE {{}}
Chance(kind) == IF kind \in Faults /\ ~healthy THEN BOOLEAN ELSE {FALSE}
Weather == [write   : Trouble("write"),
            install : Trouble("install"),
            remove  : Trouble("remove"),
            panic   : Chance("panic"),
            spawn   : Chance("spawn")]

-----------------------------------------------------------------------------
(* The operations of autosave.rs, as functions of the cache.               *)

(* Staged::finish: the keys in ps now hold their copies.                   *)
Landed(disk, batch, ps) == [p \in Paths |-> IF p \in ps THEN batch[p] ELSE disk[p]]

Removed(disk, ps) == [p \in Paths |-> IF p \in ps THEN NoCopy ELSE disk[p]]

(* absorb: a copy that failed is not at its key, so its buffer's entry     *)
(* goes if it still names that copy, and the failure waits to be reported. *)
Absorb(s, batch, failed) ==
  LET spent(b) == \E p \in failed : /\ batch[p].id = b
                                    /\ s.written[b].hash = p
                                    /\ s.written[b].rev = batch[p].rev
  IN [s EXCEPT !.written = [b \in Buffers |-> IF spent(b) THEN Unwritten
                                                          ELSE s.written[b]],
               !.unreported = @ \/ failed # {}]

(* Mutant of Retire: the key is removed under the installer that holds it. *)
RetireNow(s, ps, f) ==
  [s EXCEPT !.staged = Removed(@, ps), !.disk = Removed(@, ps \ f.remove)]

(* retire: drop a staged copy; remove the file now, or once the installer  *)
(* whose batch holds the key is taken.                                     *)
Retire(s, ps, f) ==
  LET held == ps \cap Keys(s.installer.batch)
  IN [s EXCEPT !.staged = Removed(@, ps),
               !.retiring = @ \cup held,
               !.disk = Removed(@, (ps \ held) \ f.remove)]

(* retire, then owner.remove, as every caller does.                        *)
Release(s, ps, f) ==
  [Retire(s, ps, f) EXCEPT
     !.owner = [p \in Paths |-> IF p \in ps THEN NoBuffer ELSE s.owner[p]]]

(* take_installer: a running one is waited for, so what it has still to    *)
(* install lands or fails now; then the removals its batch held back.      *)
TakeInstaller(s, f) ==
  LET i == s.installer
      panicked == i.phase = "panicked" \/ (i.phase = "running" /\ f.panic)
      joined == [s EXCEPT !.installer = NoInstaller,
                          !.disk = Landed(@, i.batch, i.todo \ f.install)]
      taken == IF panicked
               THEN [joined EXCEPT !.written = [b \in Buffers |-> Unwritten],
                                   !.unreported = TRUE]
               ELSE Absorb(joined, i.batch, i.failed \cup (i.todo \cap f.install))
  IN [taken EXCEPT !.disk = Removed(@, s.retiring \ f.remove),
                   !.retiring = {}]

(* install on this thread of everything staged, and absorb.                *)
InstallStaged(s, f) ==
  LET ps == Keys(s.staged)
  IN Absorb([s EXCEPT !.staged = NoCopies,
                      !.disk = Landed(@, s.staged, ps \ f.install)],
            s.staged, ps \cap f.install)

(* Mutant of SettleQuietly: the installer is joined, the staged copies are *)
(* dropped.                                                                *)
SettleForgetsStaged(s, f) ==
  LET t == IF s.installer.phase = "none" THEN s ELSE TakeInstaller(s, f)
  IN [t EXCEPT !.staged = NoCopies]

(* settle_quietly: a failure stays unreported.                             *)
SettleQuietly(s, f) ==
  InstallStaged(IF s.installer.phase = "none" THEN s ELSE TakeInstaller(s, f), f)

(* settle: the failure goes to the caller.                                 *)
Settle(s, f) == [SettleQuietly(s, f) EXCEPT !.unreported = FALSE]

(* Mutant of BeginInstall: installs here when an installer is running.     *)
BeginInstallInline(s, f) ==
  IF s.staged = NoCopies THEN s
  ELSE IF s.installer.phase # "none" \/ f.spawn THEN InstallStaged(s, f)
  ELSE [s EXCEPT !.staged = NoCopies,
                 !.installer = [phase |-> "running", batch |-> s.staged,
                                todo |-> Keys(s.staged), failed |-> {}]]

(* begin_install *)
BeginInstall(s, f) ==
  IF s.staged = NoCopies \/ s.installer.phase # "none" THEN s
  ELSE IF f.spawn THEN InstallStaged(s, f)
  ELSE [s EXCEPT !.staged = NoCopies,
                 !.installer = [phase |-> "running", batch |-> s.staged,
                                todo |-> Keys(s.staged), failed |-> {}]]

Busy(s) == s.staged # NoCopies \/ s.installer.phase # "none"

(* collect(), with autosave.lua's: a failure is reported, a clean round    *)
(* clears the last one.  Nothing to collect leaves everything alone.       *)
Collect(s, f) ==
  LET taken == s.installer.phase \in {"done", "panicked"}
      after == IF taken THEN TakeInstaller(s, f) ELSE s
      clean == taken /\ ~after.passFailed
  IN [after EXCEPT !.lastError = after.unreported \/ (@ /\ ~clean),
                   !.unreported = FALSE]

-----------------------------------------------------------------------------
(* A pass: gather, then sweep_with.                                        *)

IsModified(b) == bufs[b].phase = "live" /\ bufs[b].modified

(* Mutant of Unchanged: the revision alone, not the key.                   *)
UnchangedByRevision(s, b) == s.written[b].rev = bufs[b].rev

(* "unchanged since its last copy" *)
Unchanged(s, b) == s.written[b] = [hash |-> bufs[b].path, rev |-> bufs[b].rev]

(* Mutant of Blocked: an unclaimed copy is written over.                   *)
NeverBlocked(s, p) == FALSE

(* An unclaimed copy sits at the key. *)
Blocked(s, p) == s.owner[p] = NoBuffer /\ p \notin s.retiring /\ s.disk[p] # NoCopy

Wanting(s) == {b \in Buffers : /\ IsModified(b)
                               /\ ~Unchanged(s, b)
                               /\ s.owner[bufs[b].path] \in {b, NoBuffer}
                               /\ ~Blocked(s, bufs[b].path)}

(* gather's writes: of several buffers on an unowned path the first wins.  *)
Writes(s) == {b \in Wanting(s) : \A c \in Wanting(s) :
                                    c < b => bufs[c].path # bufs[b].path}

(* gather's orphans: keys left behind by buffers whose path moved.         *)
Orphans(s) == {s.written[b].hash : b \in {c \in Writes(s) :
                 s.written[c].hash \notin {NoPath, bufs[c].path}}}

(* Mutant of CollectGarbage: only the orphans, no backstop for the dead.   *)
CollectOrphansOnly(s, f) == Release(s, Orphans(s), f)

(* Orphans are retired whoever owns them; a dead buffer's key only if it   *)
(* still owns it.                                                          *)
CollectGarbage(s, f) ==
  LET s1 == Release(s, Orphans(s), f)
      dead == {b \in Buffers : s.written[b] # Unwritten /\ bufs[b].phase # "live"}
      keys == {p \in Paths : \E b \in dead : s.written[b].hash = p /\ s1.owner[p] = b}
  IN [Release(s1, keys, f) EXCEPT
        !.written = [b \in Buffers |-> IF b \in dead THEN Unwritten ELSE s.written[b]]]

(* The write loop returns at the first write that fails.                   *)
Written(s, f) == {b \in Writes(s) : \A c \in Writes(s) :
                                       c <= b => bufs[c].path \notin f.write}
PassFails(s, f) == Written(s, f) # Writes(s)

CopyOf(b) == [id |-> b, rev |-> bufs[b].rev, text |-> bufs[b].text]

(* batch with the copies of the buffers in done over it. *)
Copied(batch, done) ==
  [p \in Paths |-> IF \E b \in done : bufs[b].path = p
                   THEN CopyOf(CHOOSE b \in done : bufs[b].path = p)
                   ELSE batch[p]]

Claimed(s, done) ==
  [s EXCEPT
     !.owner = [p \in Paths |-> IF \E b \in done : bufs[b].path = p
                                THEN CHOOSE b \in done : bufs[b].path = p
                                ELSE s.owner[p]],
     !.written = [b \in Buffers |->
                    IF b \in done THEN [hash |-> bufs[b].path, rev |-> bufs[b].rev]
                                  ELSE s.written[b]]]

(* sweep_with(Install::Staged), as stage() and Lua's reporting() run it.   *)
Stage(s, f) ==
  IF ~enabled THEN s
  ELSE LET done == Written(s, f)
           s1 == CollectGarbage(s, f)
       IN [Claimed([s1 EXCEPT !.staged = Copied(@, done)], done) EXCEPT
             !.passFailed = PassFails(s, f),
             !.lastError = @ \/ PassFails(s, f)]

(* sweep(): settle, then sweep_with(Install::Now); the error is raised to  *)
(* the caller.                                                             *)
Sweep(s, f) ==
  IF ~enabled THEN s
  ELSE LET s0 == Settle(s, f)
           done == Written(s0, f)
           s1 == CollectGarbage(s0, f)
       IN Claimed([s1 EXCEPT !.disk = Copied(@, done)], done)

-----------------------------------------------------------------------------
(* Claims and releases.                                                    *)

(* Mutant of DiscardBuffer: no ownership check.                            *)
DiscardUnowned(s, b, current, f) ==
  LET keys == Paths \cap (current \cup {s.written[b].hash})
  IN [Release(s, keys, f) EXCEPT !.written[b] = Unwritten]

(* discard_buffer: the key last written under and the buffer's current     *)
(* path ({} once it has left the registry), as far as the buffer owns them.*)
DiscardBuffer(s, b, current, f) ==
  LET keys == {p \in Paths : /\ p \in current \cup {s.written[b].hash}
                             /\ s.owner[p] = b}
  IN [Release(s, keys, f) EXCEPT !.written[b] = Unwritten]

(* discard_path: whoever owns it. *)
DiscardPath(s, p, f) ==
  [Release(s, {p}, f) EXCEPT
     !.written = [b \in Buffers |-> IF s.written[b].hash = p THEN Unwritten
                                                             ELSE s.written[b]]]

(* Mutant of Adopt: the previous owner keeps its entry.                    *)
AdoptKeepsOld(s, b, p, rev) ==
  [s EXCEPT !.owner[p] = b,
            !.written[b] = [hash |-> p, rev |-> rev],
            !.disk[p] = [id |-> b, rev |-> rev, text |-> s.disk[p].text]]

(* adopt, settled: b's copy is now the one at p.  The file is not written; *)
(* what changes is whose it is, which the copy's id and rev record.        *)
Adopt(s, b, p, rev) ==
  [s EXCEPT !.owner[p] = b,
            !.written = [c \in Buffers |->
                           IF c = b THEN [hash |-> p, rev |-> rev]
                           ELSE IF s.written[c].hash = p THEN Unwritten
                           ELSE s.written[c]],
            !.disk[p] = [id |-> b, rev |-> rev, text |-> s.disk[p].text]]

-----------------------------------------------------------------------------
(* A session starts on whatever an earlier one left.                       *)
Left(disk) == [p \in Paths |-> IF disk[p] = NoCopy THEN NoCopy
                               ELSE [NoCopy EXCEPT !.text = disk[p].text]]

Init ==
  /\ clock = 1
  /\ \E ps \in SUBSET Paths :
        st = FreshCache([p \in Paths |-> IF p \in ps THEN [NoCopy EXCEPT !.text = 1]
                                                     ELSE NoCopy])
  /\ bufs = [b \in Buffers |-> Unopened]
  /\ enabled = TRUE
  /\ due = FALSE
  /\ hold = 0
  /\ prompt = NoPrompt
  /\ quitting = FALSE
  /\ mix \in Mixes
  /\ healthy = (Faults = {})

LuaVars == <<enabled, due, hold, prompt, quitting>>

(* A file opens, or an argv [new file] buffer; from_file does not dedup.   *)
Open(b, p, loaded) ==
  /\ bufs[b].phase = "unopened"
  /\ \A c \in Buffers : c < b => bufs[c].phase # "unopened"
  /\ bufs' = [bufs EXCEPT ![b] = [Unopened EXCEPT !.phase = "live", !.path = p,
                                                  !.hooked = loaded]]
  /\ UNCHANGED <<st, clock, healthy, mix>> /\ UNCHANGED LuaVars

(* An edit; an undo may leave the buffer unmodified (modified = FALSE).    *)
Edit(b, modified) ==
  /\ bufs[b].phase = "live"
  /\ clock < MaxClock
  /\ modified \/ ("undo" \in Ops /\ bufs[b].modified)
  /\ clock' = clock + 1
  /\ bufs' = [bufs EXCEPT ![b] = [@ EXCEPT !.rev = clock', !.text = clock',
                                           !.modified = modified]]
  /\ UNCHANGED <<st, healthy, mix>> /\ UNCHANGED LuaVars

(* set_buffer_path: the buffer keeps its id, modified or not.              *)
Rename(b, p) ==
  /\ "rename" \in Ops
  /\ bufs[b].phase = "live" /\ bufs[b].path # p
  /\ bufs' = [bufs EXCEPT ![b].path = p]
  /\ UNCHANGED <<st, clock, healthy, mix>> /\ UNCHANGED LuaVars

(* save: mark_clean, then after-save's discard. *)
Save(b) ==
  /\ "save" \in Ops
  /\ IsModified(b)
  /\ bufs' = [bufs EXCEPT ![b].modified = FALSE]
  /\ \E f \in Weather : st' = DiscardBuffer(st, b, {bufs[b].path}, f)
  /\ UNCHANGED <<clock, healthy, mix>> /\ UNCHANGED LuaVars

(* kill: the buffer leaves the registry, then its removal callback runs if *)
(* one was registered.                                                     *)
Kill(b) ==
  /\ "kill" \in Ops
  /\ bufs[b].phase = "live"
  /\ bufs' = [bufs EXCEPT ![b] = [Unopened EXCEPT !.phase = "dead"]]
  /\ IF bufs[b].hooked THEN \E f \in Weather : st' = DiscardBuffer(st, b, {}, f)
                       ELSE st' = st
  /\ UNCHANGED <<clock, healthy, mix>> /\ UNCHANGED LuaVars

(* recover-file: _status settles and finds a copy; the question.           *)
RecoverAsk(b) ==
  /\ "recover" \in Ops
  /\ bufs[b].phase = "live"
  /\ \E f \in Weather :
       /\ st' = SettleQuietly(st, f)
       /\ prompt' = IF st'.disk[bufs[b].path] = NoCopy THEN prompt
                    ELSE [buf |-> b, path |-> bufs[b].path]
  /\ UNCHANGED <<bufs, clock, enabled, due, hold, quitting, healthy, mix>>

(* recover-file: yes.  The buffer is replaced by the copy, and adopts it.  *)
RecoverYes ==
  LET b == prompt.buf IN
  LET p == prompt.path IN
  /\ prompt # NoPrompt
  /\ prompt' = NoPrompt
  /\ IF bufs[b].phase # "live" \/ bufs[b].path # p THEN UNCHANGED <<st, bufs, clock>>
     ELSE \E f \in Weather :
       LET s == SettleQuietly(st, f) IN
       IF s.disk[p] = NoCopy
       THEN st' = s /\ UNCHANGED <<bufs, clock>>
       ELSE /\ clock < MaxClock
            /\ clock' = clock + 1
            /\ bufs' = [bufs EXCEPT ![b] = [@ EXCEPT !.rev = clock',
                                                     !.text = s.disk[p].text,
                                                     !.modified = TRUE]]
            /\ st' = Adopt(s, b, p, clock')
  /\ UNCHANGED <<enabled, due, hold, quitting, healthy, mix>>

RecoverNo ==
  /\ prompt # NoPrompt
  /\ prompt' = NoPrompt
  /\ UNCHANGED <<bufs, st, clock, enabled, due, hold, quitting, healthy, mix>>

(* discard-recovery *)
DiscardRecovery(b) ==
  /\ "discard" \in Ops
  /\ bufs[b].phase = "live"
  /\ \E f \in Weather : st' = DiscardPath(st, bufs[b].path, f)
  /\ UNCHANGED <<bufs, clock, healthy, mix>> /\ UNCHANGED LuaVars

(* pmacs.autosave.sweep() *)
ForceSweep ==
  /\ "sweep" \in Ops
  /\ \E f \in Weather : st' = Sweep(st, f)
  /\ UNCHANGED <<bufs, clock, healthy, mix>> /\ UNCHANGED LuaVars

(* pmacs.autosave.enable(on) *)
Enable(on) ==
  /\ "enable" \in Ops
  /\ enabled # on
  /\ enabled' = on
  /\ UNCHANGED <<bufs, st, clock, due, hold, prompt, quitting, healthy, mix>>

(* The process.after-tick hook. *)
Tick ==
  \E f \in Weather :
    LET s1 == Collect(st, f)
        held == IF hold = 0 THEN 0 ELSE hold - 1
        s2 == IF held = 0 THEN BeginInstall(s1, f) ELSE s1
        sweeps == enabled /\ due /\ ~Busy(s2)
    IN /\ hold' = held
       /\ st' = IF sweeps THEN BeginInstall(Stage(s2, f), f) ELSE s2
       /\ due' = (due /\ ~sweeps)
       /\ UNCHANGED <<bufs, clock, enabled, prompt, quitting, healthy, mix>>

(* interval_ms has passed since the last sweep. *)
TimerDue ==
  /\ ~due
  /\ due' = TRUE
  /\ UNCHANGED <<bufs, st, clock, enabled, hold, prompt, quitting, healthy, mix>>

(* Mutant of BeforeQuit: each quit adds to the hold.                       *)
BeforeQuitAdds ==
  /\ "quit" \in Ops
  /\ ~quitting
  /\ quitting' = TRUE
  /\ \E f \in Weather : st' = Stage(Collect(st, f), f)
  /\ hold' = IF Busy(st') THEN hold + 2 ELSE hold
  /\ UNCHANGED <<bufs, clock, enabled, due, prompt, healthy, mix>>

(* The editor.before-quit hook, then quit's question. *)
BeforeQuit ==
  /\ "quit" \in Ops
  /\ ~quitting
  /\ quitting' = TRUE
  /\ \E f \in Weather : st' = Stage(Collect(st, f), f)
  /\ hold' = IF Busy(st') THEN 2 ELSE hold
  /\ UNCHANGED <<bufs, clock, enabled, due, prompt, healthy, mix>>

CancelQuit ==
  /\ quitting
  /\ quitting' = FALSE
  /\ UNCHANGED <<bufs, st, clock, enabled, due, hold, prompt, healthy, mix>>

(* The next session: a fresh cache on the disk this one leaves.            *)
Restart(disk) ==
  /\ st' = FreshCache(Left(disk))
  /\ bufs' = [b \in Buffers |-> Unopened]
  /\ enabled' = TRUE /\ due' = FALSE /\ hold' = 0
  /\ prompt' = NoPrompt /\ quitting' = FALSE
  /\ UNCHANGED <<clock, healthy, mix>>

(* The quit is answered yes: the editor drops, and settles first.          *)
Exit ==
  /\ quitting
  /\ \E f \in Weather : Restart(SettleQuietly(st, f).disk)

(* The process dies at any point; temporary files are not copies.          *)
Crash ==
  /\ "crash" \in Ops
  /\ Restart(st.disk)

(* The installer thread. *)
InstallOne(p) ==
  /\ st.installer.phase = "running"
  /\ p \in st.installer.todo
  /\ \E f \in Weather :
       LET i == st.installer IN
       st' = [st EXCEPT !.installer = [i EXCEPT !.todo = i.todo \ {p},
                                                !.failed = i.failed \cup ({p} \cap f.install)],
                        !.disk = Landed(@, i.batch, {p} \ f.install)]
  /\ UNCHANGED <<bufs, clock, healthy, mix>> /\ UNCHANGED LuaVars

InstallerExit ==
  /\ st.installer.phase = "running"
  /\ st.installer.todo = {}
  /\ st' = [st EXCEPT !.installer = [@ EXCEPT !.phase = "done"]]
  /\ UNCHANGED <<bufs, clock, healthy, mix>> /\ UNCHANGED LuaVars

InstallerPanic ==
  /\ TRUE \in Chance("panic")
  /\ st.installer.phase = "running"
  /\ st' = [st EXCEPT !.installer = [@ EXCEPT !.phase = "panicked", !.todo = {}]]
  /\ UNCHANGED <<bufs, clock, healthy, mix>> /\ UNCHANGED LuaVars

(* The disk and the machine recover for good. *)
Heal ==
  /\ "heal" \in Ops
  /\ ~healthy
  /\ healthy' = TRUE
  /\ UNCHANGED <<bufs, st, clock, mix>> /\ UNCHANGED LuaVars

MainThread ==
  \/ \E b \in Buffers, p \in Paths, loaded \in BOOLEAN : Open(b, p, loaded)
  \/ \E b \in Buffers, modified \in BOOLEAN : Edit(b, modified)
  \/ \E b \in Buffers, p \in Paths : Rename(b, p)
  \/ \E b \in Buffers : Save(b)
  \/ \E b \in Buffers : Kill(b)
  \/ \E b \in Buffers : RecoverAsk(b)
  \/ RecoverYes
  \/ RecoverNo
  \/ \E b \in Buffers : DiscardRecovery(b)
  \/ ForceSweep
  \/ \E on \in BOOLEAN : Enable(on)
  \/ Tick
  \/ BeforeQuit
  \/ CancelQuit
  \/ Exit

InstallerThread ==
  \/ \E p \in Paths : InstallOne(p)
  \/ InstallerExit
  \/ InstallerPanic

Next == MainThread \/ InstallerThread \/ TimerDue \/ Heal \/ Crash

Spec == Init /\ [][Next]_vars

(* The run loop ticks on a frame timeout, the clock runs, the installer    *)
(* thread is scheduled, and whatever fails stops failing.                  *)
Fairness ==
  /\ WF_vars(Tick)
  /\ WF_vars(TimerDue)
  /\ WF_vars(\E p \in Paths : InstallOne(p))
  /\ WF_vars(InstallerExit)
  /\ WF_vars(Heal)

FairSpec == Spec /\ Fairness

-----------------------------------------------------------------------------
(* Nothing this session does is aimed at a copy an earlier one left and    *)
(* nobody has recovered: no buffer owns its key, no copy is staged or      *)
(* installing over it, and no removal waits for it (Q#AS12).               *)
Unaimed(s) ==
  \A p \in Paths : CrashCopy(s.disk[p]) =>
    /\ s.owner[p] = NoBuffer
    /\ p \notin Keys(s.staged)
    /\ p \notin Keys(s.installer.batch)
    /\ p \notin s.retiring
    /\ \A b \in Buffers : s.written[b].hash # p
CrashDataUnaimed == Unaimed(st)

(* docs/invariants.md: "only recover or discard releases unclaimed crash   *)
(* data".  A step that changes or removes such a copy is one of those.     *)
OnlyRecoverOrDiscard ==
  [][\A p \in Paths :
       CrashCopy(st.disk[p]) /\ st'.disk[p] # st.disk[p] =>
         \/ RecoverYes /\ prompt.path = p
         \/ \E b \in Buffers : DiscardRecovery(b) /\ bufs[b].path = p]_vars

(* No staging write fails.  One that does ends the pass half way, between  *)
(* the removal of the orphans and the entries that name them; what the     *)
(* cache promises of its entries is then false (AutosaveOrphan.cfg).       *)
WritesSucceed == "write" \notin Faults

(* adopt's comment: "written[id] => owner[hash] == id".                    *)
Owns(s) ==
  \A b \in Buffers : s.written[b].hash # NoPath => s.owner[s.written[b].hash] = b
WrittenOwnsSlot == WritesSucceed => Owns(st)

(* Refuted by AutosaveOrphan.cfg: the same, whatever fails.                *)
AlwaysOwned == Owns(st)

(* The copy that will be at p once everything in flight has landed.        *)
Newest(p) == IF st.staged[p] # NoCopy THEN st.staged[p]
             ELSE IF p \in st.retiring THEN NoCopy
             ELSE IF p \in st.installer.todo THEN st.installer.batch[p]
             ELSE st.disk[p]

(* The skip cache is truthful: a modified buffer the next pass would skip  *)
(* as unchanged has its very text in the newest copy at its key, in place  *)
(* or on its way there.                                                    *)
SkipIsSafe ==
  WritesSucceed => \A b \in Buffers :
    /\ IsModified(b) /\ Unchanged(st, b)
    /\ st.installer.phase # "panicked" /\ bufs[b].path \notin st.installer.failed
    => Newest(bufs[b].path).text = bufs[b].text

(* docs/invariants.md: "no copy lands over a newer one".                   *)
NoStaleLanding ==
  [][\A p \in Paths : SessionCopy(st.disk[p]) /\ st'.disk[p].id = st.disk[p].id =>
        st'.disk[p].rev >= st.disk[p].rev]_vars

(* "... or a retired key": a copy this session wrote is owned, or its      *)
(* removal is only waiting for the installer.  One that is neither would   *)
(* be taken for crash data and pause autosave for the path.                *)
SessionCopiesClaimed ==
  \A p \in Paths : SessionCopy(st.disk[p]) =>
     st.owner[p] # NoBuffer \/ p \in st.retiring

(* A quit that is answered yes leaves the text of every modified buffer    *)
(* whose copy had been staged at its key.                                  *)
ExitKeepsCopies ==
  [][WritesSucceed /\ quitting /\ Exit =>
       \A b \in Buffers :
         /\ IsModified(b) /\ Unchanged(st, b)
         /\ healthy /\ st.installer.phase # "panicked"
         /\ bufs[b].path \notin st.installer.failed
         => st'.disk[bufs[b].path].text = bufs[b].text]_vars

(* Nothing but b stands between b and its copy: it is modified, at p, and  *)
(* no other buffer still in the registry visits p or owns its slot.        *)
AloneAt(b, p) ==
  /\ enabled
  /\ IsModified(b) /\ bufs[b].path = p
  /\ \A c \in Buffers \ {b} : bufs[c].phase = "live" => bufs[c].path # p /\ st.owner[p] # c
  /\ ~Blocked(st, p)

(* A modified buffer alone on its path ends up with its text at its key:   *)
(* sweeps are deferred, never lost, and no claim outlives its buffer.      *)
(* Quit's question stays up or stays away: each quit defers the install by *)
(* two ticks.                                                              *)
EventuallyProtected ==
  \A b \in Buffers, p \in Paths, asked \in BOOLEAN :
    <>[](AloneAt(b, p) /\ quitting = asked) => []<>(st.disk[p].text = bufs[b].text)

(* sweep_with: "a buffer that left the registry (killed) takes its         *)
(* recovery copy with it", [new file] buffers included: no dead buffer     *)
(* owns a slot for good.                                                   *)
DeadBuffersReleased ==
  \A b \in Buffers, p \in Paths :
    []<>~(enabled /\ bufs[b].phase = "dead" /\ st.owner[p] = b)
=============================================================================
