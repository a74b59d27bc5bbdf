--------------------------- MODULE AutosaveProofs ---------------------------
(* Proofs about Autosave, for any buffers, paths, faults and operations.    *)
(*                                                                          *)
(* The handlers are compositions of functions on the cache, so the proofs   *)
(* are too: each function preserves the type of the cache and what holds of *)
(* it, and each action is a few such functions.                             *)
EXTENDS Autosave, TLAPS

Fault == [write : SUBSET Paths, install : SUBSET Paths, remove : SUBSET Paths,
          panic : BOOLEAN, spawn : BOOLEAN]

(* Whatever the faults, a handler's weather is of this type.                *)
LEMMA WeatherType == Weather \subseteq Fault
  BY DEF Weather, Fault, Trouble, Chance

(* NoCopies is an empty batch, and NoInstaller an idle installer.           *)
LEMMA EmptyTypes == /\ NoCopy \in Copy
                    /\ NoCopies \in Batch
                    /\ NoInstaller \in Installer
                    /\ Unwritten \in Entry
  BY DEF NoCopy, Copy, NoCopies, Batch, NoInstaller, Installer, Unwritten, Entry, NoBuffer

(* Landing a batch keeps the disk a batch. *)
LEMMA LandedType ==
  ASSUME NEW d \in Batch, NEW c \in Batch, NEW ps
  PROVE  Landed(d, c, ps) \in Batch
  BY DEF Landed, Batch

(* Removing keys keeps the disk a batch. *)
LEMMA RemovedType ==
  ASSUME NEW d \in Batch, NEW ps
  PROVE  Removed(d, ps) \in Batch
  BY EmptyTypes DEF Removed, Batch

(* absorb keeps the cache's type. *)
LEMMA AbsorbType ==
  ASSUME NEW s \in Cache, NEW c \in Batch, NEW failed \in SUBSET Paths
  PROVE  Absorb(s, c, failed) \in Cache
  BY EmptyTypes DEF Absorb, Cache

(* retire keeps the cache's type. *)
LEMMA RetireType ==
  ASSUME NEW s \in Cache, NEW ps \in SUBSET Paths, NEW f \in Fault
  PROVE  Retire(s, ps, f) \in Cache
  BY RemovedType DEF Retire, Cache, Keys, Installer

(* Release keeps the cache's type. *)
LEMMA ReleaseType ==
  ASSUME NEW s \in Cache, NEW ps \in SUBSET Paths, NEW f \in Fault
  PROVE  Release(s, ps, f) \in Cache
<1> DEFINE r == Retire(s, ps, f)
           o == [p \in Paths |-> IF p \in ps THEN NoBuffer ELSE s.owner[p]]
<1>1. r \in Cache
  BY RetireType
<1>2. o \in [Paths -> Buffers \cup {NoBuffer}]
  BY DEF Cache
<1>3. Release(s, ps, f) = [r EXCEPT !.owner = o]
  BY DEF Release
<1> HIDE DEF r, o
<1> QED
  BY <1>1, <1>2, <1>3 DEF Cache

(* take_installer keeps the cache's type. *)
LEMMA TakeType ==
  ASSUME NEW s \in Cache, NEW f \in Fault
  PROVE  TakeInstaller(s, f) \in Cache
<1> DEFINE i == s.installer
           joined == [s EXCEPT !.installer = NoInstaller,
                               !.disk = Landed(@, i.batch, i.todo \ f.install)]
           failed == i.failed \cup (i.todo \cap f.install)
           panicked == i.phase = "panicked" \/ (i.phase = "running" /\ f.panic)
           lost == [joined EXCEPT !.written = [b \in Buffers |-> Unwritten],
                                  !.unreported = TRUE]
           taken == IF panicked THEN lost ELSE Absorb(joined, i.batch, failed)
<1>1. i \in Installer
  BY DEF Cache
<1>2. joined \in Cache
  BY <1>1, EmptyTypes, LandedType DEF Cache, Installer
<1>3. i.batch \in Batch /\ failed \in SUBSET Paths
  BY <1>1 DEF Installer, Fault
<1>4. lost \in Cache
  BY <1>2, EmptyTypes DEF Cache
<1>5. taken \in Cache
  BY <1>2, <1>3, <1>4, AbsorbType
<1>6. TakeInstaller(s, f) = [taken EXCEPT !.disk = Removed(@, s.retiring \ f.remove),
                                          !.retiring = {}]
  BY DEF TakeInstaller
<1> HIDE DEF taken
<1>7. Removed(taken.disk, s.retiring \ f.remove) \in Batch
  BY <1>5, RemovedType DEF Cache
<1> QED
  BY <1>5, <1>6, <1>7 DEF Cache

(* Installing what is staged keeps the cache's type. *)
LEMMA InstallStagedType ==
  ASSUME NEW s \in Cache, NEW f \in Fault
  PROVE  InstallStaged(s, f) \in Cache
<1> DEFINE ps == Keys(s.staged)
           t == [s EXCEPT !.staged = NoCopies, !.disk = Landed(@, s.staged, ps \ f.install)]
<1>1. t \in Cache /\ s.staged \in Batch
  BY EmptyTypes, LandedType DEF Cache
<1>2. ps \cap f.install \in SUBSET Paths
  BY DEF Keys
<1>3. InstallStaged(s, f) = Absorb(t, s.staged, ps \cap f.install)
  BY DEF InstallStaged
<1> HIDE DEF t, ps
<1> QED
  BY <1>1, <1>2, <1>3, AbsorbType

(* settle, begin_install and collect keep the cache's type. *)
LEMMA SettleType ==
  ASSUME NEW s \in Cache, NEW f \in Fault
  PROVE  SettleQuietly(s, f) \in Cache /\ Settle(s, f) \in Cache
<1> DEFINE q == SettleQuietly(s, f)
<1>1. q \in Cache
  BY TakeType, InstallStagedType DEF SettleQuietly
<1>2. Settle(s, f) = [q EXCEPT !.unreported = FALSE]
  BY DEF Settle
<1> HIDE DEF q
<1>3. Settle(s, f) \in Cache
  BY <1>1, <1>2 DEF Cache
<1> QED
  BY <1>1, <1>3 DEF q

(* begin_install keeps the cache's type. *)
LEMMA BeginInstallType ==
  ASSUME NEW s \in Cache, NEW f \in Fault
  PROVE  BeginInstall(s, f) \in Cache
<1>1. [s EXCEPT !.staged = NoCopies,
                !.installer = [phase |-> "running", batch |-> s.staged,
                               todo |-> Keys(s.staged), failed |-> {}]] \in Cache
  BY EmptyTypes DEF Cache, Installer, Keys
<1> QED
  BY <1>1, InstallStagedType DEF BeginInstall

(* collect keeps the cache's type. *)
LEMMA CollectType ==
  ASSUME NEW s \in Cache, NEW f \in Fault
  PROVE  Collect(s, f) \in Cache
<1> DEFINE taken == s.installer.phase \in {"done", "panicked"}
           after == IF taken THEN TakeInstaller(s, f) ELSE s
<1>1. after \in Cache
  BY TakeType
<1>2. Collect(s, f) = [after EXCEPT
         !.lastError = after.unreported \/ (@ /\ ~(taken /\ ~after.passFailed)),
         !.unreported = FALSE]
  BY DEF Collect
<1> HIDE DEF after, taken
<1>3. after.unreported \/ (after.lastError /\ ~(taken /\ ~after.passFailed)) \in BOOLEAN
  OBVIOUS
<1> QED
  BY <1>1, <1>2, <1>3 DEF Cache

-----------------------------------------------------------------------------
(* The registry's type, which every function of a pass relies on. *)
BufsOK == /\ bufs \in [Buffers -> Buffer]
          /\ \A b \in Buffers : bufs[b].phase = "live" => bufs[b].path \in Paths

(* What a pass writes are modified buffers with a path. *)
LEMMA WritesType ==
  ASSUME BufsOK, NEW s, NEW f
  PROVE  /\ Writes(s) \subseteq Buffers
         /\ Written(s, f) \subseteq Writes(s)
         /\ \A b \in Writes(s) : bufs[b].path \in Paths
  BY DEF BufsOK, Writes, Written, Wanting, IsModified

(* The garbage collection of a pass keeps the cache's type. *)
LEMMA CollectGarbageType ==
  ASSUME NEW s \in Cache, NEW f \in Fault, BufsOK
  PROVE  CollectGarbage(s, f) \in Cache
<1> DEFINE s1 == Release(s, Orphans(s), f)
           dead == {b \in Buffers : s.written[b] # Unwritten /\ bufs[b].phase # "live"}
           keys == {p \in Paths : \E b \in dead : s.written[b].hash = p /\ s1.owner[p] = b}
           s2 == Release(s1, keys, f)
           w == [b \in Buffers |-> IF b \in dead THEN Unwritten ELSE s.written[b]]
<1>1. Orphans(s) \in SUBSET Paths
  BY WritesType DEF Orphans, Cache, Entry
<1>2. s1 \in Cache
  BY <1>1, ReleaseType
<1>3. s2 \in Cache
  <2> HIDE DEF s1
  <2> QED  BY <1>2, ReleaseType
<1>4. w \in [Buffers -> Entry]
  BY EmptyTypes DEF Cache
<1>5. CollectGarbage(s, f) = [s2 EXCEPT !.written = w]
  BY DEF CollectGarbage
<1> HIDE DEF s1, keys, s2, w
<1> QED
  BY <1>3, <1>4, <1>5 DEF Cache

(* Copies of live buffers make a batch. *)
LEMMA CopiedType ==
  ASSUME NEW c \in Batch, NEW done \in SUBSET Buffers, BufsOK
  PROVE  Copied(c, done) \in Batch
<1>1. \A b \in Buffers : CopyOf(b) \in Copy
  BY DEF BufsOK, Buffer, CopyOf, Copy
<1> QED
  BY <1>1 DEF Copied, Batch

(* Claiming the slots of a pass keeps the cache's type. *)
LEMMA ClaimedType ==
  ASSUME NEW s \in Cache, NEW done \in SUBSET Buffers, BufsOK,
         \A b \in done : bufs[b].path \in Paths
  PROVE  Claimed(s, done) \in Cache
<1>1. [p \in Paths |-> IF \E b \in done : bufs[b].path = p
                       THEN CHOOSE b \in done : bufs[b].path = p
                       ELSE s.owner[p]] \in [Paths -> Buffers \cup {NoBuffer}]
  BY DEF Cache
<1>2. [b \in Buffers |-> IF b \in done THEN [hash |-> bufs[b].path, rev |-> bufs[b].rev]
                         ELSE s.written[b]] \in [Buffers -> Entry]
  BY DEF Cache, Entry, BufsOK, Buffer
<1> QED
  BY <1>1, <1>2 DEF Claimed, Cache

(* A pass, staged or forced, keeps the cache's type. *)
LEMMA StageType ==
  ASSUME NEW s \in Cache, NEW f \in Fault, BufsOK
  PROVE  Stage(s, f) \in Cache
<1> DEFINE done == Written(s, f)
           s1 == CollectGarbage(s, f)
           s2 == [s1 EXCEPT !.staged = Copied(@, done)]
           s3 == Claimed(s2, done)
<1>1. done \in SUBSET Buffers /\ \A b \in done : bufs[b].path \in Paths
  BY WritesType
<1>2. s1 \in Cache
  BY CollectGarbageType
<1>3. s2 \in Cache
  <2> HIDE DEF s1, done
  <2>1. Copied(s1.staged, done) \in Batch
    BY <1>1, <1>2, CopiedType DEF Cache
  <2> QED
    BY <1>2, <2>1 DEF Cache
<1>4. s3 \in Cache
  <2> HIDE DEF s2, done
  <2> QED  BY <1>1, <1>3, ClaimedType
<1>5. Stage(s, f) = IF ~enabled THEN s
                    ELSE [s3 EXCEPT !.passFailed = PassFails(s, f),
                                    !.lastError = @ \/ PassFails(s, f)]
  BY DEF Stage
<1>6. PassFails(s, f) \in BOOLEAN
  BY DEF PassFails
<1> HIDE DEF s3
<1> QED
  BY <1>4, <1>5, <1>6 DEF Cache

(* sweep keeps the cache's type. *)
LEMMA SweepType ==
  ASSUME NEW s \in Cache, NEW f \in Fault, BufsOK
  PROVE  Sweep(s, f) \in Cache
<1> DEFINE s0 == Settle(s, f)
           done == Written(s0, f)
           s1 == CollectGarbage(s0, f)
           s2 == [s1 EXCEPT !.disk = Copied(@, done)]
<1>1. s0 \in Cache
  BY SettleType
<1>2. done \in SUBSET Buffers /\ \A b \in done : bufs[b].path \in Paths
  BY WritesType
<1>3. s1 \in Cache
  <2> HIDE DEF s0
  <2> QED  BY <1>1, CollectGarbageType
<1>4. s2 \in Cache
  <2> HIDE DEF s1, done
  <2>1. Copied(s1.disk, done) \in Batch
    BY <1>2, <1>3, CopiedType DEF Cache
  <2> QED
    BY <1>3, <2>1 DEF Cache
<1>5. Sweep(s, f) = IF ~enabled THEN s ELSE Claimed(s2, done)
  BY DEF Sweep
<1> HIDE DEF s2, done
<1> QED
  BY <1>2, <1>4, <1>5, ClaimedType

(* So do the claims and releases. *)
LEMMA DiscardBufferType ==
  ASSUME NEW s \in Cache, NEW b \in Buffers, NEW current, NEW f \in Fault
  PROVE  DiscardBuffer(s, b, current, f) \in Cache
<1> DEFINE keys == {p \in Paths : p \in current \cup {s.written[b].hash} /\ s.owner[p] = b}
           r == Release(s, keys, f)
<1>1. r \in Cache
  BY ReleaseType
<1>2. DiscardBuffer(s, b, current, f) = [r EXCEPT !.written[b] = Unwritten]
  BY DEF DiscardBuffer
<1> HIDE DEF r
<1> QED
  BY <1>1, <1>2, EmptyTypes DEF Cache

(* discard_path keeps the cache's type. *)
LEMMA DiscardPathType ==
  ASSUME NEW s \in Cache, NEW p \in Paths, NEW f \in Fault
  PROVE  DiscardPath(s, p, f) \in Cache
<1> DEFINE r == Release(s, {p}, f)
           w == [b \in Buffers |-> IF s.written[b].hash = p THEN Unwritten ELSE s.written[b]]
<1>1. r \in Cache
  BY ReleaseType
<1>2. w \in [Buffers -> Entry]
  BY EmptyTypes DEF Cache
<1>3. DiscardPath(s, p, f) = [r EXCEPT !.written = w]
  BY DEF DiscardPath
<1> HIDE DEF r, w
<1> QED
  BY <1>1, <1>2, <1>3 DEF Cache

(* adopt of a copy that is there keeps the cache's type. *)
LEMMA AdoptType ==
  ASSUME NEW s \in Cache, NEW b \in Buffers, NEW p \in Paths, NEW rev \in Nat
  PROVE  Adopt(s, b, p, rev) \in Cache
<1>1. [c \in Buffers |-> IF c = b THEN [hash |-> p, rev |-> rev]
                         ELSE IF s.written[c].hash = p THEN Unwritten
                         ELSE s.written[c]] \in [Buffers -> Entry]
  BY EmptyTypes DEF Cache, Entry
<1>2. [s.owner EXCEPT ![p] = b] \in [Paths -> Buffers \cup {NoBuffer}]
  BY DEF Cache
<1>3. [s.disk EXCEPT ![p] = [id |-> b, rev |-> rev, text |-> s.disk[p].text]] \in Batch
  BY DEF Cache, Batch, Copy
<1> QED
  BY <1>1, <1>2, <1>3 DEF Adopt, Cache

(* A new session's cache is of its type. *)
LEMMA FreshCacheType ==
  ASSUME NEW d \in Batch
  PROVE  FreshCache(d) \in Cache /\ Left(d) \in Batch
<1>1. FreshCache(d) \in Cache
  BY EmptyTypes DEF FreshCache, Cache
<1>2. Left(d) \in Batch
  BY EmptyTypes DEF Left, Batch, Copy, NoCopy
<1> QED
  BY <1>1, <1>2

-----------------------------------------------------------------------------
(* Every reachable state is of its type. *)
LEMMA TypeInit == Init => TypeOK
<1> SUFFICES ASSUME Init PROVE TypeOK
  OBVIOUS
<1>1. PICK ps \in SUBSET Paths :
        st = FreshCache([p \in Paths |-> IF p \in ps THEN [NoCopy EXCEPT !.text = 1]
                                                     ELSE NoCopy])
  BY DEF Init
<1>2. [p \in Paths |-> IF p \in ps THEN [NoCopy EXCEPT !.text = 1] ELSE NoCopy] \in Batch
  BY EmptyTypes DEF Batch, Copy, NoCopy
<1>3. st \in Cache
  BY <1>1, <1>2, FreshCacheType
<1>4. bufs \in [Buffers -> Buffer] /\ \A b \in Buffers : bufs[b].phase # "live"
  BY DEF Init, Unopened, Buffer
<1>5. clock \in 0..MaxClock /\ hold \in 0..2
  BY ClockAssumption DEF Init
<1>6. /\ enabled \in BOOLEAN /\ due \in BOOLEAN /\ quitting \in BOOLEAN /\ healthy \in BOOLEAN
      /\ mix \in Mixes
  BY Zenon DEF Init
<1>7. prompt = NoPrompt
  BY DEF Init
<1> QED
  BY <1>3, <1>4, <1>5, <1>6, <1>7, Zenon DEF TypeOK

(* The registry and the cache, after any step. *)
LEMMA TypeStep == TypeOK /\ [Next]_vars => TypeOK'
<1> SUFFICES ASSUME TypeOK, [Next]_vars PROVE TypeOK'
  OBVIOUS
<1> USE DEF TypeOK
<1>a. BufsOK /\ st \in Cache
  BY DEF BufsOK
<1>b. \A f \in Weather : f \in Fault
  BY WeatherType
<1>1. ASSUME NEW b \in Buffers, NEW p \in Paths, NEW loaded \in BOOLEAN, Open(b, p, loaded)
      PROVE TypeOK'
  BY <1>1 DEF Open, LuaVars, Buffer, Unopened
<1>2. ASSUME NEW b \in Buffers, NEW modified \in BOOLEAN, Edit(b, modified)
      PROVE TypeOK'
  <2>1. clock' \in 0..MaxClock /\ clock' \in Nat
    BY <1>2, ClockAssumption DEF Edit
  <2>2. [bufs[b] EXCEPT !.rev = clock', !.text = clock', !.modified = modified] \in Buffer
    BY <2>1 DEF Buffer
  <2>3. /\ bufs' \in [Buffers -> Buffer]
        /\ \A c \in Buffers : bufs'[c].phase = "live" => bufs'[c].path \in Paths
    BY <1>2, <2>2 DEF Edit, Buffer
  <2> QED
    BY <1>2, <2>1, <2>3 DEF Edit, LuaVars
<1>3. ASSUME NEW b \in Buffers, NEW p \in Paths, Rename(b, p)
      PROVE TypeOK'
  BY <1>3 DEF Rename, LuaVars, Buffer
<1>4. ASSUME NEW b \in Buffers, Save(b)
      PROVE TypeOK'
  <2>1. st' \in Cache
    BY <1>4, <1>a, <1>b, DiscardBufferType DEF Save
  <2> QED
    BY <1>4, <2>1 DEF Save, LuaVars, Buffer
<1>5. ASSUME NEW b \in Buffers, Kill(b)
      PROVE TypeOK'
  <2>1. st' \in Cache
    BY <1>5, <1>a, <1>b, DiscardBufferType DEF Kill
  <2> QED
    BY <1>5, <2>1 DEF Kill, LuaVars, Buffer, Unopened
<1>6. ASSUME NEW b \in Buffers, RecoverAsk(b)
      PROVE TypeOK'
  <2>1. st' \in Cache
    BY <1>6, <1>a, <1>b, SettleType DEF RecoverAsk
  <2>2. prompt' \in [buf : Buffers, path : Paths] \cup {NoPrompt}
    BY <1>6 DEF RecoverAsk
  <2> QED
    BY <1>6, <2>1, <2>2 DEF RecoverAsk
<1>7. CASE RecoverYes
  <2>1. CASE UNCHANGED <<st, bufs, clock>>
    BY <1>7, <2>1 DEF RecoverYes
  <2>2. CASE \E f \in Weather : st' = SettleQuietly(st, f) /\ UNCHANGED <<bufs, clock>>
    <3>1. st' \in Cache
      BY <2>2, <1>a, <1>b, SettleType
    <3> QED
      BY <1>7, <2>2, <3>1 DEF RecoverYes
  <2>3. ASSUME NEW f \in Weather, NEW b \in Buffers, NEW p \in Paths,
               clock < MaxClock, clock' = clock + 1,
               bufs' = [bufs EXCEPT ![b] = [@ EXCEPT !.rev = clock',
                                               !.text = SettleQuietly(st, f).disk[p].text,
                                               !.modified = TRUE]],
               st' = Adopt(SettleQuietly(st, f), b, p, clock')
        PROVE TypeOK'
    <3> DEFINE s == SettleQuietly(st, f)
    <3>1. s \in Cache
      BY <1>a, <1>b, SettleType
    <3>2. s.disk[p].text \in Nat
      BY <3>1 DEF Cache, Batch, Copy
    <3> HIDE DEF s
    <3>3. clock' \in 0..MaxClock /\ clock' \in Nat
      BY <2>3, ClockAssumption
    <3>4. st' \in Cache
      BY <2>3, <3>1, <3>3, AdoptType DEF s
    <3>5. /\ bufs' \in [Buffers -> Buffer]
          /\ \A c \in Buffers : bufs'[c].phase = "live" => bufs'[c].path \in Paths
      <4>1. [bufs[b] EXCEPT !.rev = clock', !.text = s.disk[p].text, !.modified = TRUE] \in Buffer
        BY <3>2, <3>3 DEF Buffer
      <4> QED
        BY <2>3, <4>1 DEF s, Buffer
    <3> QED
      BY <1>7, <3>3, <3>4, <3>5 DEF RecoverYes
  <2>4. prompt.buf \in Buffers /\ prompt.path \in Paths
    BY <1>7 DEF RecoverYes
  <2> QED
    BY <1>7, <2>1, <2>2, <2>3, <2>4 DEF RecoverYes
<1>8. CASE RecoverNo
  BY <1>8 DEF RecoverNo
<1>9. ASSUME NEW b \in Buffers, DiscardRecovery(b)
      PROVE TypeOK'
  <2>1. st' \in Cache
    BY <1>9, <1>a, <1>b, DiscardPathType DEF DiscardRecovery
  <2> QED
    BY <1>9, <2>1 DEF DiscardRecovery, LuaVars
<1>10. CASE ForceSweep
  <2>1. st' \in Cache
    BY <1>10, <1>a, <1>b, SweepType DEF ForceSweep
  <2> QED
    BY <1>10, <2>1 DEF ForceSweep, LuaVars
<1>11. ASSUME NEW on \in BOOLEAN, Enable(on)
       PROVE TypeOK'
  BY <1>11 DEF Enable
<1>12. CASE Tick
  <2>1. PICK f \in Weather : Tick!(f)
    BY <1>12 DEF Tick
  <2> DEFINE s1 == Collect(st, f)
             held == IF hold = 0 THEN 0 ELSE hold - 1
             s2 == IF held = 0 THEN BeginInstall(s1, f) ELSE s1
             s3 == Stage(s2, f)
  <2>2. f \in Fault
    BY <1>b
  <2>3. s1 \in Cache
    BY <1>a, <2>2, CollectType
  <2>4. s2 \in Cache
    BY <2>2, <2>3, BeginInstallType
  <2>5. s3 \in Cache
    BY <1>a, <2>2, <2>4, StageType
  <2>6. BeginInstall(s3, f) \in Cache
    BY <2>2, <2>5, BeginInstallType
  <2>7. st' \in Cache
    BY <2>1, <2>4, <2>6
  <2>8. hold' \in 0..2
    BY <2>1
  <2>9. due' \in BOOLEAN
    BY <2>1, Zenon
  <2> QED
    BY <2>1, <2>7, <2>8, <2>9
<1>13. CASE BeforeQuit
  <2>1. st' \in Cache
    BY <1>13, <1>a, <1>b, CollectType, StageType DEF BeforeQuit
  <2> QED
    BY <1>13, <2>1 DEF BeforeQuit
<1>14. CASE CancelQuit
  BY <1>14 DEF CancelQuit
<1>15. ASSUME NEW d \in Batch, Restart(d)
       PROVE TypeOK'
  <2>1. st' \in Cache
    BY <1>15, FreshCacheType DEF Restart
  <2> QED
    <3>1. /\ bufs' \in [Buffers -> Buffer]
          /\ \A b \in Buffers : bufs'[b].phase # "live"
      BY <1>15 DEF Restart, Buffer, Unopened
    <3>2. clock' \in 0..MaxClock /\ hold' \in 0..2
      BY <1>15 DEF Restart
    <3>3. /\ enabled' \in BOOLEAN /\ due' \in BOOLEAN
          /\ quitting' \in BOOLEAN /\ healthy' \in BOOLEAN /\ mix' \in Mixes
      BY <1>15, Zenon DEF Restart
    <3>4. prompt' = NoPrompt
      BY <1>15 DEF Restart
    <3> QED
      BY <2>1, <3>1, <3>2, <3>3, <3>4, Zenon
<1>16. CASE Exit
  <2>1. PICK f \in Weather : Restart(SettleQuietly(st, f).disk)
    BY <1>16 DEF Exit
  <2>2. SettleQuietly(st, f).disk \in Batch
    BY <1>a, <1>b, SettleType DEF Cache
  <2> QED
    BY <2>1, <2>2, <1>15
<1>17. CASE Crash
  BY <1>17, <1>15 DEF Crash, Cache
<1>18. ASSUME NEW p \in Paths, InstallOne(p)
       PROVE TypeOK'
  <2>1. PICK f \in Weather :
          st' = [st EXCEPT !.installer = [st.installer EXCEPT
                                            !.todo = st.installer.todo \ {p},
                                            !.failed = st.installer.failed
                                                         \cup ({p} \cap f.install)],
                           !.disk = Landed(@, st.installer.batch, {p} \ f.install)]
    BY <1>18 DEF InstallOne
  <2>2. st' \in Cache
    <3>1. [st.installer EXCEPT !.todo = st.installer.todo \ {p},
                               !.failed = st.installer.failed \cup ({p} \cap f.install)]
            \in Installer
      BY <1>a DEF Cache, Installer
    <3>2. Landed(st.disk, st.installer.batch, {p} \ f.install) \in Batch
      BY <1>a, LandedType DEF Cache, Installer
    <3> QED
      BY <2>1, <1>a, <3>1, <3>2 DEF Cache
  <2> QED
    BY <1>18, <2>2 DEF InstallOne, LuaVars
<1>19. CASE InstallerExit
  BY <1>19 DEF InstallerExit, LuaVars, Cache, Installer
<1>20. CASE InstallerPanic
  BY <1>20 DEF InstallerPanic, LuaVars, Cache, Installer
<1>21. CASE TimerDue
  BY <1>21 DEF TimerDue
<1>22. CASE Heal
  BY <1>22 DEF Heal, LuaVars
<1>23. CASE UNCHANGED vars
  BY <1>23 DEF vars
<1> QED
  BY <1>1, <1>2, <1>3, <1>4, <1>5, <1>6, <1>7, <1>8, <1>9, <1>10, <1>11, <1>12, <1>13,
     <1>14, <1>16, <1>17, <1>18, <1>19, <1>20, <1>21, <1>22, <1>23
  DEF Next, MainThread, InstallerThread

(* Every reachable state is of its type, whatever is opened, edited,        *)
(* renamed, killed or recovered and whatever fails.                         *)
THEOREM TypeCorrect == Spec => []TypeOK
  BY TypeInit, TypeStep, PTL DEF Spec

-----------------------------------------------------------------------------
(* Crash data.  The inductive invariant adds to CrashDataUnaimed that what  *)
(* is staged or with the installer is this session's, so that landing it    *)
(* makes no crash data, and that the installer works within its batch.      *)
OwnCopies(c) == \A p \in Paths : c[p] = NoCopy \/ SessionCopy(c[p])

WellFormed(s) ==
  /\ OwnCopies(s.staged)
  /\ OwnCopies(s.installer.batch)
  /\ s.installer.todo \subseteq Keys(s.installer.batch)

Good(s) == WellFormed(s) /\ Unaimed(s)

(* From s to t every crash copy stays as it is, and none appears.           *)
Kept(s, t) ==
  \A p \in Paths : /\ CrashCopy(s.disk[p]) => t.disk[p] = s.disk[p]
                   /\ CrashCopy(t.disk[p]) => CrashCopy(s.disk[p])

(* Keeping crash copies composes over two operations. *)
LEMMA KeptTrans ==
  ASSUME NEW s, NEW t, NEW u, Kept(s, t), Kept(t, u)
  PROVE  Kept(s, u)
  BY DEF Kept

(* Neither an empty key nor a copy of this session is a crash copy. *)
LEMMA NotCrash == ~CrashCopy(NoCopy) /\ \A c : SessionCopy(c) => ~CrashCopy(c)
  BY DEF CrashCopy, SessionCopy, NoCopy, NoBuffer

(* absorb only forgets entries. *)
LEMMA AbsorbGood ==
  ASSUME NEW s \in Cache, NEW c, NEW failed, Good(s)
  PROVE  Good(Absorb(s, c, failed)) /\ Kept(s, Absorb(s, c, failed))
<1> DEFINE t == Absorb(s, c, failed)
<1>1. /\ t.owner = s.owner /\ t.staged = s.staged /\ t.installer = s.installer
      /\ t.retiring = s.retiring /\ t.disk = s.disk
      /\ \A b \in Buffers : t.written[b] = s.written[b] \/ t.written[b] = Unwritten
  BY DEF Absorb, Cache
<1> HIDE DEF t
<1>2. Good(t)
  BY <1>1, PathsAssumption DEF Good, WellFormed, Unaimed, Unwritten
<1>3. Kept(s, t)
  BY <1>1 DEF Kept
<1> QED
  BY <1>2, <1>3 DEF t

(* A release of keys none of which holds crash data. *)
LEMMA ReleaseFields ==
  ASSUME NEW s \in Cache, NEW ps \in SUBSET Paths, NEW f \in Fault,
         NEW t, t = Release(s, ps, f)
  PROVE  /\ t.written = s.written
         /\ t.owner = [p \in Paths |-> IF p \in ps THEN NoBuffer ELSE s.owner[p]]
         /\ t.staged = Removed(s.staged, ps)
         /\ t.installer = s.installer
         /\ t.retiring = s.retiring \cup (ps \cap Keys(s.installer.batch))
         /\ t.disk = Removed(s.disk, (ps \ (ps \cap Keys(s.installer.batch))) \ f.remove)
  BY DEF Release, Retire, Cache

(* Release leaves the skip cache alone. *)
LEMMA ReleaseWritten ==
  ASSUME NEW s \in Cache, NEW ps \in SUBSET Paths, NEW f \in Fault
  PROVE  Release(s, ps, f).written = s.written
  BY DEF Release, Retire, Cache

(* Releasing keys that hold no crash copy keeps the invariant. *)
LEMMA ReleaseGood ==
  ASSUME NEW s \in Cache, NEW ps \in SUBSET Paths, NEW f \in Fault, Good(s),
         \A p \in ps : ~CrashCopy(s.disk[p])
  PROVE  Good(Release(s, ps, f)) /\ Kept(s, Release(s, ps, f))
<1> DEFINE t == Release(s, ps, f)
<1>a. t = Release(s, ps, f)
  OBVIOUS
<1> HIDE DEF t
<1>0. /\ t.written = s.written
      /\ t.owner = [p \in Paths |-> IF p \in ps THEN NoBuffer ELSE s.owner[p]]
      /\ t.staged = Removed(s.staged, ps)
      /\ t.installer = s.installer
      /\ t.retiring = s.retiring \cup (ps \cap Keys(s.installer.batch))
      /\ t.disk = Removed(s.disk, (ps \ (ps \cap Keys(s.installer.batch))) \ f.remove)
  BY <1>a, ReleaseFields
<1>1. Kept(s, t)
  BY <1>0, NotCrash DEF Kept, Removed
<1>2. WellFormed(t)
  BY <1>0 DEF Good, WellFormed, OwnCopies, Removed
<1>3. Unaimed(t)
  <2> SUFFICES ASSUME NEW p \in Paths, CrashCopy(t.disk[p])
               PROVE  /\ t.owner[p] = NoBuffer
                      /\ p \notin Keys(t.staged)
                      /\ p \notin Keys(t.installer.batch)
                      /\ p \notin t.retiring
                      /\ \A b \in Buffers : t.written[b].hash # p
    BY DEF Unaimed
  <2>1. CrashCopy(s.disk[p]) /\ p \notin ps
    BY <1>1 DEF Kept
  <2>2. /\ s.owner[p] = NoBuffer
        /\ p \notin Keys(s.staged)
        /\ p \notin Keys(s.installer.batch)
        /\ p \notin s.retiring
        /\ \A b \in Buffers : s.written[b].hash # p
    BY <2>1 DEF Good, Unaimed
  <2>3. p \notin Keys(t.staged)
    BY <1>0, <2>1, <2>2 DEF Keys, Removed
  <2> QED
    BY <1>0, <2>1, <2>2, <2>3
<1> QED
  BY <1>1, <1>2, <1>3 DEF t, Good

(* Landing this session's copies at keys none of which holds crash data. *)
LEMMA LandGood ==
  ASSUME NEW s, NEW c, NEW ps \in SUBSET Keys(c), NEW d, OwnCopies(c),
         s.disk = Landed(d, c, ps), \A p \in ps : ~CrashCopy(d[p])
  PROVE  \A p \in Paths : /\ CrashCopy(d[p]) => s.disk[p] = d[p]
                          /\ CrashCopy(s.disk[p]) => CrashCopy(d[p])
  BY NotCrash DEF Landed, OwnCopies, Keys

(* take_installer keeps the invariant and every crash copy. *)
LEMMA TakeGood ==
  ASSUME NEW s \in Cache, NEW f \in Fault, Good(s)
  PROVE  Good(TakeInstaller(s, f)) /\ Kept(s, TakeInstaller(s, f))
<1> DEFINE i == s.installer
           joined == [s EXCEPT !.installer = NoInstaller,
                               !.disk = Landed(@, i.batch, i.todo \ f.install)]
           failed == i.failed \cup (i.todo \cap f.install)
           panicked == i.phase = "panicked" \/ (i.phase = "running" /\ f.panic)
           lost == [joined EXCEPT !.written = [b \in Buffers |-> Unwritten],
                                  !.unreported = TRUE]
           taken == IF panicked THEN lost ELSE Absorb(joined, i.batch, failed)
           t == [taken EXCEPT !.disk = Removed(@, s.retiring \ f.remove), !.retiring = {}]
<1>1. i \in Installer /\ NoInstaller \in Installer
  BY EmptyTypes DEF Cache
<1>2. joined \in Cache
  BY <1>1, EmptyTypes, LandedType DEF Cache, Installer
<1>3. /\ joined.written = s.written /\ joined.owner = s.owner /\ joined.staged = s.staged
      /\ joined.installer = NoInstaller /\ joined.retiring = s.retiring
      /\ joined.disk = Landed(s.disk, i.batch, i.todo \ f.install)
  BY DEF Cache
<1> HIDE DEF joined
<1>4. Kept(s, joined)
  <2>1. i.todo \ f.install \in SUBSET Keys(i.batch)
    BY DEF Good, WellFormed
  <2>2. \A p \in i.todo \ f.install : ~CrashCopy(s.disk[p])
    BY <2>1 DEF Good, Unaimed, Keys
  <2>3. OwnCopies(i.batch)
    BY DEF Good, WellFormed
  <2> QED
    BY <1>3, <2>1, <2>2, <2>3, LandGood DEF Kept
<1>5. Good(joined)
  <2>1. Keys(NoInstaller.batch) = {} /\ OwnCopies(NoInstaller.batch) /\ NoInstaller.todo = {}
    BY DEF NoInstaller, Keys, NoCopies, OwnCopies
  <2>2. WellFormed(joined)
    BY <1>3, <2>1 DEF Good, WellFormed
  <2>3. Unaimed(joined)
    BY <1>3, <1>4, <2>1 DEF Good, Unaimed, Kept
  <2> QED
    BY <2>2, <2>3 DEF Good
<1>6. lost \in Cache /\ Good(lost) /\ Kept(joined, lost)
  <2>1. /\ lost \in Cache
        /\ lost.written = [b \in Buffers |-> Unwritten] /\ lost.owner = joined.owner
        /\ lost.staged = joined.staged /\ lost.installer = joined.installer
        /\ lost.retiring = joined.retiring /\ lost.disk = joined.disk
    BY <1>2, EmptyTypes DEF Cache
  <2> HIDE DEF lost
  <2> QED
    BY <1>5, <2>1, PathsAssumption DEF Good, WellFormed, Unaimed, Kept, Unwritten
<1>7. taken \in Cache /\ Good(taken) /\ Kept(joined, taken)
  <2>1. i.batch \in Batch /\ failed \in SUBSET Paths
    BY <1>1 DEF Installer, Fault
  <2> HIDE DEF lost, failed, panicked
  <2> QED
    BY <1>2, <1>5, <1>6, <2>1, AbsorbType, AbsorbGood
<1>8. taken.retiring = s.retiring /\ taken.disk = joined.disk
  BY <1>2, <1>3 DEF Absorb, Cache
<1>9. t = TakeInstaller(s, f)
  BY DEF TakeInstaller, joined
<1> HIDE DEF taken
<1>10. /\ t.written = taken.written /\ t.owner = taken.owner /\ t.staged = taken.staged
       /\ t.installer = taken.installer /\ t.retiring = {}
       /\ t.disk = Removed(taken.disk, s.retiring \ f.remove)
  BY <1>7 DEF Cache
<1> HIDE DEF t
<1>11. Kept(taken, t)
  <2>1. \A p \in s.retiring : ~CrashCopy(taken.disk[p])
    BY <1>7, <1>8 DEF Good, Unaimed, Cache
  <2> QED
    BY <1>10, <2>1, NotCrash DEF Kept, Removed
<1>12. Good(t)
  <2>1. WellFormed(t)
    BY <1>7, <1>10 DEF Good, WellFormed
  <2>2. Unaimed(t)
    BY <1>7, <1>10, <1>11 DEF Good, Unaimed, Kept
  <2> QED
    BY <2>1, <2>2 DEF Good
<1>13. Kept(s, t)
  BY <1>4, <1>7, <1>11, KeptTrans
<1> QED
  BY <1>9, <1>12, <1>13

(* Installing what is staged does, too. *)
LEMMA InstallStagedGood ==
  ASSUME NEW s \in Cache, NEW f \in Fault, Good(s)
  PROVE  Good(InstallStaged(s, f)) /\ Kept(s, InstallStaged(s, f))
<1> DEFINE ps == Keys(s.staged)
           t == [s EXCEPT !.staged = NoCopies, !.disk = Landed(@, s.staged, ps \ f.install)]
<1>1. t \in Cache /\ s.staged \in Batch
  BY EmptyTypes, LandedType DEF Cache
<1>2. /\ t.written = s.written /\ t.owner = s.owner /\ t.staged = NoCopies
      /\ t.installer = s.installer /\ t.retiring = s.retiring
      /\ t.disk = Landed(s.disk, s.staged, ps \ f.install)
  BY DEF Cache
<1>3. InstallStaged(s, f) = Absorb(t, s.staged, ps \cap f.install)
  BY DEF InstallStaged
<1> HIDE DEF t
<1>4. Kept(s, t)
  <2>1. ps \ f.install \in SUBSET Keys(s.staged)
    OBVIOUS
  <2>2. \A p \in ps \ f.install : ~CrashCopy(s.disk[p])
    BY DEF Good, Unaimed, Keys
  <2>3. OwnCopies(s.staged)
    BY DEF Good, WellFormed
  <2> QED
    BY <1>2, <2>1, <2>2, <2>3, LandGood DEF Kept
<1>5. Keys(NoCopies) = {} /\ OwnCopies(NoCopies)
  BY DEF Keys, NoCopies, OwnCopies
<1>6. WellFormed(t)
  BY <1>2, <1>5 DEF Good, WellFormed
<1>7. Unaimed(t)
  BY <1>2, <1>4, <1>5 DEF Good, Unaimed, Kept
<1>8. Good(t)
  BY <1>6, <1>7 DEF Good
<1> HIDE DEF ps
<1> QED
  BY <1>1, <1>3, <1>4, <1>8, AbsorbGood, KeptTrans

(* settle does, too. *)
LEMMA SettleGood ==
  ASSUME NEW s \in Cache, NEW f \in Fault, Good(s)
  PROVE  /\ Good(SettleQuietly(s, f)) /\ Kept(s, SettleQuietly(s, f))
         /\ Good(Settle(s, f)) /\ Kept(s, Settle(s, f))
<1> DEFINE t == IF s.installer.phase = "none" THEN s ELSE TakeInstaller(s, f)
           q == SettleQuietly(s, f)
           r == Settle(s, f)
<1>1. t \in Cache /\ Good(t) /\ Kept(s, t)
  BY TakeType, TakeGood DEF Kept
<1>2. q = InstallStaged(t, f)
  BY DEF SettleQuietly
<1>3. q \in Cache
  BY SettleType
<1> HIDE DEF t, q
<1>4. Good(q) /\ Kept(s, q)
  BY <1>1, <1>2, InstallStagedGood, KeptTrans
<1>5. r = [q EXCEPT !.unreported = FALSE]
  BY DEF Settle, q
<1> HIDE DEF r
<1>6. /\ r.written = q.written /\ r.owner = q.owner /\ r.staged = q.staged
      /\ r.installer = q.installer /\ r.retiring = q.retiring /\ r.disk = q.disk
  BY <1>3, <1>5 DEF Cache
<1>7. Good(r) /\ Kept(s, r)
  BY <1>4, <1>6 DEF Good, WellFormed, Unaimed, Kept
<1> QED
  BY <1>4, <1>7 DEF q, r

(* begin_install does, too. *)
LEMMA BeginInstallGood ==
  ASSUME NEW s \in Cache, NEW f \in Fault, Good(s)
  PROVE  Good(BeginInstall(s, f)) /\ Kept(s, BeginInstall(s, f))
<1> DEFINE i == [phase |-> "running", batch |-> s.staged,
                 todo |-> Keys(s.staged), failed |-> {}]
           t == [s EXCEPT !.staged = NoCopies, !.installer = i]
<1>1. /\ t.written = s.written /\ t.owner = s.owner /\ t.staged = NoCopies
      /\ t.installer.batch = s.staged /\ t.installer.todo = Keys(s.staged)
      /\ t.retiring = s.retiring /\ t.disk = s.disk
  BY DEF Cache
<1>2. BeginInstall(s, f) \in {s, InstallStaged(s, f), t}
  BY DEF BeginInstall
<1> HIDE DEF t
<1>3. Keys(NoCopies) = {} /\ OwnCopies(NoCopies)
  BY DEF Keys, NoCopies, OwnCopies
<1>4. Good(t) /\ Kept(s, t)
  BY <1>1, <1>3 DEF Good, WellFormed, Unaimed, Kept
<1>5. Kept(s, s)
  BY DEF Kept
<1> QED
  BY <1>2, <1>4, <1>5, InstallStagedGood

(* collect does, too. *)
LEMMA CollectGood ==
  ASSUME NEW s \in Cache, NEW f \in Fault, Good(s)
  PROVE  Good(Collect(s, f)) /\ Kept(s, Collect(s, f))
<1> DEFINE taken == s.installer.phase \in {"done", "panicked"}
           after == IF taken THEN TakeInstaller(s, f) ELSE s
           t == Collect(s, f)
<1>1. after \in Cache /\ Good(after) /\ Kept(s, after)
  BY TakeType, TakeGood DEF Kept
<1>2. t = [after EXCEPT
             !.lastError = after.unreported \/ (@ /\ ~(taken /\ ~after.passFailed)),
             !.unreported = FALSE]
  BY DEF Collect
<1> HIDE DEF t, after
<1>3. /\ t.written = after.written /\ t.owner = after.owner /\ t.staged = after.staged
      /\ t.installer = after.installer /\ t.retiring = after.retiring
      /\ t.disk = after.disk
  BY <1>1, <1>2 DEF Cache
<1>4. Good(t) /\ Kept(s, t)
  BY <1>1, <1>3 DEF Good, WellFormed, Unaimed, Kept
<1> QED
  BY <1>4 DEF t

(* The garbage collection of a pass does, too. *)
LEMMA CollectGarbageGood ==
  ASSUME NEW s \in Cache, NEW f \in Fault, BufsOK, Good(s)
  PROVE  Good(CollectGarbage(s, f)) /\ Kept(s, CollectGarbage(s, f))
<1> DEFINE s1 == Release(s, Orphans(s), f)
           dead == {b \in Buffers : s.written[b] # Unwritten /\ bufs[b].phase # "live"}
           keys == {p \in Paths : \E b \in dead : s.written[b].hash = p /\ s1.owner[p] = b}
           s2 == Release(s1, keys, f)
           w == [b \in Buffers |-> IF b \in dead THEN Unwritten ELSE s.written[b]]
           t == CollectGarbage(s, f)
<1>1. Orphans(s) \in SUBSET Paths
  BY WritesType DEF Orphans, Cache, Entry
<1>2. \A p \in Paths : (\E b \in Buffers : s.written[b].hash = p) => ~CrashCopy(s.disk[p])
  BY DEF Good, Unaimed
<1>3. \A p \in Orphans(s) : ~CrashCopy(s.disk[p])
  BY <1>1, <1>2, WritesType DEF Orphans
<1>4. s1 \in Cache /\ Good(s1) /\ Kept(s, s1)
  BY <1>1, <1>3, ReleaseType, ReleaseGood
<1>5. \A p \in keys : ~CrashCopy(s1.disk[p])
  BY <1>2, <1>4 DEF Kept
<1>6. s2 \in Cache /\ Good(s2) /\ Kept(s1, s2)
  <2> HIDE DEF s1, keys
  <2>1. keys \in SUBSET Paths
    BY DEF keys
  <2> QED
    BY <1>4, <1>5, <2>1, ReleaseType, ReleaseGood
<1>7. s2.written = s.written
  <2>1. s1.written = s.written
    BY <1>1, ReleaseWritten
  <2>2. keys \in SUBSET Paths
    OBVIOUS
  <2> HIDE DEF s1, keys
  <2>3. s2.written = s1.written
    BY <1>4, <2>2, ReleaseWritten
  <2> QED
    BY <2>1, <2>3
<1>8. t = [s2 EXCEPT !.written = w]
  BY DEF CollectGarbage
<1> HIDE DEF s1, keys, s2, t
<1>9. /\ t.owner = s2.owner /\ t.staged = s2.staged /\ t.installer = s2.installer
      /\ t.retiring = s2.retiring /\ t.disk = s2.disk
      /\ \A b \in Buffers : t.written[b] = s2.written[b] \/ t.written[b] = Unwritten
  BY <1>6, <1>7, <1>8 DEF Cache
<1>10. Good(t)
  BY <1>6, <1>9, PathsAssumption DEF Good, WellFormed, Unaimed, Unwritten
<1>11. Kept(s2, t)
  BY <1>9 DEF Kept
<1>12. Kept(s, t)
  BY <1>4, <1>6, <1>11, KeptTrans
<1> QED
  BY <1>10, <1>12 DEF t

(* The keys a pass writes at hold no crash data: gather skips the blocked. *)
LEMMA WrittenNotCrash ==
  ASSUME NEW s \in Cache, NEW f, BufsOK, Good(s), NEW b \in Written(s, f)
  PROVE  ~CrashCopy(s.disk[bufs[b].path])
<1>1. b \in Wanting(s) /\ b \in Buffers /\ bufs[b].path \in Paths
  BY WritesType DEF Written, Writes
<1>2. b # NoBuffer
  BY <1>1, BuffersAssumption DEF NoBuffer
<1>3. CASE s.owner[bufs[b].path] = b
  BY <1>1, <1>2, <1>3 DEF Good, Unaimed
<1>4. CASE s.owner[bufs[b].path] = NoBuffer
  BY <1>1, <1>4, NotCrash DEF Wanting, Blocked, Good, Unaimed
<1> QED
  BY <1>1, <1>3, <1>4 DEF Wanting

(* Where a pass writes, and what it leaves alone. *)
LEMMA CopiedFacts ==
  ASSUME NEW c \in Batch, NEW done \in SUBSET Buffers
  PROVE  \A p \in Paths : Copied(c, done)[p] # c[p] =>
            /\ SessionCopy(Copied(c, done)[p])
            /\ \E b \in done : bufs[b].path = p
<1> SUFFICES ASSUME NEW p \in Paths, Copied(c, done)[p] # c[p]
             PROVE  /\ SessionCopy(Copied(c, done)[p])
                    /\ \E b \in done : bufs[b].path = p
  OBVIOUS
<1>1. \E b \in done : bufs[b].path = p
  BY DEF Copied
<1>2. PICK b \in done : Copied(c, done)[p] = CopyOf(b)
  BY <1>1 DEF Copied
<1>3. b # NoBuffer
  BY BuffersAssumption DEF NoBuffer
<1> QED
  BY <1>1, <1>2, <1>3 DEF CopyOf, SessionCopy

(* Which fields claiming a slot leaves alone. *)
LEMMA ClaimedFields ==
  ASSUME NEW s \in Cache, NEW done \in SUBSET Buffers, NEW t, t = Claimed(s, done)
  PROVE  /\ t.staged = s.staged /\ t.installer = s.installer
         /\ t.retiring = s.retiring /\ t.disk = s.disk
         /\ \A p \in Paths : t.owner[p] # s.owner[p] =>
               t.owner[p] \in done /\ bufs[t.owner[p]].path = p
         /\ \A b \in Buffers : t.written[b] # s.written[b] =>
               b \in done /\ t.written[b] = [hash |-> bufs[b].path, rev |-> bufs[b].rev]
<1>1. /\ t.staged = s.staged /\ t.installer = s.installer
      /\ t.retiring = s.retiring /\ t.disk = s.disk
      /\ t.owner = [p \in Paths |-> IF \E b \in done : bufs[b].path = p
                                    THEN CHOOSE b \in done : bufs[b].path = p
                                    ELSE s.owner[p]]
      /\ t.written = [b \in Buffers |->
                        IF b \in done THEN [hash |-> bufs[b].path, rev |-> bufs[b].rev]
                                      ELSE s.written[b]]
  BY DEF Claimed, Cache
<1>2. ASSUME NEW p \in Paths, t.owner[p] # s.owner[p]
      PROVE t.owner[p] \in done /\ bufs[t.owner[p]].path = p
  <2>1. \E b \in done : bufs[b].path = p
    BY <1>1, <1>2
  <2>2. t.owner[p] = CHOOSE b \in done : bufs[b].path = p
    BY <1>1, <2>1
  <2> QED
    BY <2>1, <2>2
<1> QED
  BY <1>1, <1>2

(* Claiming keys none of which holds crash data. *)
LEMMA ClaimedGood ==
  ASSUME NEW s \in Cache, NEW done \in SUBSET Buffers, Good(s),
         \A b \in done : ~CrashCopy(s.disk[bufs[b].path])
  PROVE  Good(Claimed(s, done)) /\ Kept(s, Claimed(s, done))
<1> DEFINE t == Claimed(s, done)
<1>a. t = Claimed(s, done)
  OBVIOUS
<1> HIDE DEF t
<1>1. /\ t.staged = s.staged /\ t.installer = s.installer
      /\ t.retiring = s.retiring /\ t.disk = s.disk
      /\ \A p \in Paths : t.owner[p] # s.owner[p] =>
            t.owner[p] \in done /\ bufs[t.owner[p]].path = p
      /\ \A b \in Buffers : t.written[b] # s.written[b] =>
            b \in done /\ t.written[b] = [hash |-> bufs[b].path, rev |-> bufs[b].rev]
  BY <1>a, ClaimedFields
<1>2. Kept(s, t)
  BY <1>1 DEF Kept
<1>3. WellFormed(t)
  BY <1>1 DEF Good, WellFormed
<1>4. Unaimed(t)
  <2> SUFFICES ASSUME NEW p \in Paths, CrashCopy(s.disk[p])
               PROVE  /\ t.owner[p] = NoBuffer
                      /\ \A b \in Buffers : t.written[b].hash # p
    BY <1>1 DEF Good, Unaimed
  <2>1. s.owner[p] = NoBuffer /\ \A b \in Buffers : s.written[b].hash # p
    BY DEF Good, Unaimed
  <2>2. t.owner[p] = NoBuffer
    BY <1>1, <2>1
  <2>3. ASSUME NEW b \in Buffers PROVE t.written[b].hash # p
    <3>1. CASE t.written[b] = s.written[b]
      BY <2>1, <3>1
    <3>2. CASE t.written[b] # s.written[b]
      <4>1. b \in done /\ t.written[b] = [hash |-> bufs[b].path, rev |-> bufs[b].rev]
        BY <1>1, <3>2, Zenon
      <4>2. t.written[b].hash = bufs[b].path
        BY <4>1
      <4> QED
        BY <4>1, <4>2
    <3> QED
      BY <3>1, <3>2
  <2> QED
    BY <2>2, <2>3
<1> QED
  BY <1>2, <1>3, <1>4 DEF Good, t

(* A staging pass keeps the invariant and every crash copy. *)
LEMMA StageGood ==
  ASSUME NEW s \in Cache, NEW f \in Fault, BufsOK, Good(s)
  PROVE  Good(Stage(s, f)) /\ Kept(s, Stage(s, f))
<1> DEFINE done == Written(s, f)
           s1 == CollectGarbage(s, f)
           s2 == [s1 EXCEPT !.staged = Copied(@, done)]
           s3 == Claimed(s2, done)
           t == [s3 EXCEPT !.passFailed = PassFails(s, f), !.lastError = @ \/ PassFails(s, f)]
<1>1. done \in SUBSET Buffers /\ \A b \in done : bufs[b].path \in Paths
  BY WritesType
<1>2. s1 \in Cache /\ Good(s1) /\ Kept(s, s1)
  BY CollectGarbageType, CollectGarbageGood
<1>3. \A b \in done : ~CrashCopy(s1.disk[bufs[b].path])
  BY <1>1, <1>2, WrittenNotCrash DEF Kept
<1> HIDE DEF done, s1
<1>4. Copied(s1.staged, done) \in Batch /\ s1.staged \in Batch
  BY <1>1, <1>2, CopiedType DEF Cache
<1>5. /\ s2 \in Cache
      /\ s2.written = s1.written /\ s2.owner = s1.owner
      /\ s2.staged = Copied(s1.staged, done) /\ s2.installer = s1.installer
      /\ s2.retiring = s1.retiring /\ s2.disk = s1.disk
  BY <1>2, <1>4 DEF Cache
<1> HIDE DEF s2
<1>6. Kept(s1, s2)
  BY <1>5 DEF Kept
<1>7. Good(s2)
  <2>1. \A p \in Paths : s2.staged[p] # s1.staged[p] =>
           SessionCopy(s2.staged[p]) /\ ~CrashCopy(s2.disk[p])
    BY <1>1, <1>3, <1>4, <1>5, CopiedFacts
  <2>2. WellFormed(s2)
    BY <1>2, <1>5, <2>1 DEF Good, WellFormed, OwnCopies
  <2>3. Unaimed(s2)
    <3> SUFFICES ASSUME NEW p \in Paths, CrashCopy(s2.disk[p])
                 PROVE  p \notin Keys(s2.staged)
      BY <1>2, <1>5 DEF Good, Unaimed
    <3>1. s2.staged[p] = s1.staged[p]
      BY <2>1
    <3>2. p \notin Keys(s1.staged)
      BY <1>2, <1>5 DEF Good, Unaimed
    <3> QED
      BY <3>1, <3>2 DEF Keys
  <2> QED
    BY <2>2, <2>3 DEF Good
<1>8. s3 \in Cache /\ Good(s3) /\ Kept(s2, s3)
  BY <1>1, <1>3, <1>5, <1>7, ClaimedType, ClaimedGood
<1> HIDE DEF s3
<1>9. /\ t.written = s3.written /\ t.owner = s3.owner /\ t.staged = s3.staged
      /\ t.installer = s3.installer /\ t.retiring = s3.retiring /\ t.disk = s3.disk
  BY <1>8 DEF Cache
<1>10. Stage(s, f) = IF ~enabled THEN s ELSE t
  BY DEF Stage, s3, s2, s1, done
<1> HIDE DEF t
<1>11. Good(t) /\ Kept(s3, t)
  BY <1>8, <1>9 DEF Good, WellFormed, Unaimed, Kept
<1>12. Kept(s, t)
  BY <1>2, <1>6, <1>8, <1>11, KeptTrans
<1>13. Kept(s, s)
  BY DEF Kept
<1> QED
  BY <1>10, <1>11, <1>12, <1>13

(* A forced sweep does, too. *)
LEMMA SweepGood ==
  ASSUME NEW s \in Cache, NEW f \in Fault, BufsOK, Good(s)
  PROVE  Good(Sweep(s, f)) /\ Kept(s, Sweep(s, f))
<1> DEFINE s0 == Settle(s, f)
           done == Written(s0, f)
           s1 == CollectGarbage(s0, f)
           s2 == [s1 EXCEPT !.disk = Copied(@, done)]
<1>0. s0 \in Cache /\ Good(s0) /\ Kept(s, s0)
  BY SettleType, SettleGood
<1>a. Sweep(s, f) = IF ~enabled THEN s ELSE Claimed(s2, done)
  BY DEF Sweep
<1> HIDE DEF s0
<1>1. done \in SUBSET Buffers /\ \A b \in done : bufs[b].path \in Paths
  BY WritesType
<1>2. s1 \in Cache /\ Good(s1) /\ Kept(s0, s1)
  BY <1>0, CollectGarbageType, CollectGarbageGood
<1>3. \A b \in done : ~CrashCopy(s1.disk[bufs[b].path])
  BY <1>0, <1>1, <1>2, WrittenNotCrash DEF Kept
<1> HIDE DEF done, s1
<1>4. Copied(s1.disk, done) \in Batch /\ s1.disk \in Batch
  BY <1>1, <1>2, CopiedType DEF Cache
<1>5. /\ s2 \in Cache
      /\ s2.written = s1.written /\ s2.owner = s1.owner /\ s2.staged = s1.staged
      /\ s2.installer = s1.installer /\ s2.retiring = s1.retiring
      /\ s2.disk = Copied(s1.disk, done)
  BY <1>2, <1>4 DEF Cache
<1> HIDE DEF s2
<1>6. \A p \in Paths : s2.disk[p] # s1.disk[p] =>
         ~CrashCopy(s2.disk[p]) /\ ~CrashCopy(s1.disk[p])
  BY <1>1, <1>3, <1>4, <1>5, CopiedFacts, NotCrash
<1>7. Kept(s1, s2)
  BY <1>6 DEF Kept
<1>8. Good(s2)
  <2>1. WellFormed(s2)
    BY <1>2, <1>5 DEF Good, WellFormed
  <2>2. Unaimed(s2)
    BY <1>2, <1>5, <1>6 DEF Good, Unaimed
  <2> QED
    BY <2>1, <2>2 DEF Good
<1>9. \A b \in done : ~CrashCopy(s2.disk[bufs[b].path])
  BY <1>1, <1>3, <1>6
<1>10. Good(Claimed(s2, done)) /\ Kept(s2, Claimed(s2, done))
  BY <1>1, <1>5, <1>8, <1>9, ClaimedGood
<1>11. Kept(s, Claimed(s2, done))
  BY <1>0, <1>2, <1>7, <1>10, KeptTrans
<1>12. Kept(s, s)
  BY DEF Kept
<1> QED
  BY <1>a, <1>10, <1>11, <1>12

(* discard_buffer releases only what the buffer owns, and crash data has no *)
(* owner.                                                                   *)
LEMMA DiscardBufferGood ==
  ASSUME NEW s \in Cache, NEW b \in Buffers, NEW current, NEW f \in Fault, Good(s)
  PROVE  /\ Good(DiscardBuffer(s, b, current, f))
         /\ Kept(s, DiscardBuffer(s, b, current, f))
<1> DEFINE keys == {p \in Paths : p \in current \cup {s.written[b].hash} /\ s.owner[p] = b}
           r == Release(s, keys, f)
           t == DiscardBuffer(s, b, current, f)
<1>1. b # NoBuffer
  BY BuffersAssumption DEF NoBuffer
<1>2. \A p \in keys : ~CrashCopy(s.disk[p])
  BY <1>1 DEF Good, Unaimed
<1>3. keys \in SUBSET Paths
  OBVIOUS
<1>4. t = [r EXCEPT !.written[b] = Unwritten]
  BY DEF DiscardBuffer
<1> HIDE DEF keys
<1>5. r \in Cache /\ Good(r) /\ Kept(s, r)
  BY <1>2, <1>3, ReleaseType, ReleaseGood
<1> HIDE DEF r, t
<1>6. /\ t.owner = r.owner /\ t.staged = r.staged /\ t.installer = r.installer
      /\ t.retiring = r.retiring /\ t.disk = r.disk
      /\ \A c \in Buffers : t.written[c] = r.written[c] \/ t.written[c] = Unwritten
  BY <1>4, <1>5 DEF Cache
<1>7. Good(t)
  BY <1>5, <1>6, PathsAssumption DEF Good, WellFormed, Unaimed, Unwritten
<1>8. Kept(s, t)
  BY <1>5, <1>6 DEF Kept
<1> QED
  BY <1>7, <1>8 DEF t

(* From s to t every crash copy but p's stays as it is, and none appears. *)
KeptBut(s, t, p) ==
  \A q \in Paths : /\ CrashCopy(s.disk[q]) /\ q # p => t.disk[q] = s.disk[q]
                   /\ CrashCopy(t.disk[q]) => CrashCopy(s.disk[q])

(* discard_path removes whatever is at p, or fails to; nothing else. *)
LEMMA DiscardPathGood ==
  ASSUME NEW s \in Cache, NEW p \in Paths, NEW f \in Fault, Good(s)
  PROVE  Good(DiscardPath(s, p, f)) /\ KeptBut(s, DiscardPath(s, p, f), p)
<1> DEFINE r == Release(s, {p}, f)
           w == [b \in Buffers |-> IF s.written[b].hash = p THEN Unwritten ELSE s.written[b]]
           t == DiscardPath(s, p, f)
<1>a. r = Release(s, {p}, f)
  OBVIOUS
<1>1. r \in Cache
  BY ReleaseType
<1>2. t = [r EXCEPT !.written = w]
  BY DEF DiscardPath
<1> HIDE DEF r, t
<1>3. /\ r.owner = [q \in Paths |-> IF q \in {p} THEN NoBuffer ELSE s.owner[q]]
      /\ r.staged = Removed(s.staged, {p}) /\ r.installer = s.installer
      /\ r.retiring = s.retiring \cup ({p} \cap Keys(s.installer.batch))
      /\ r.disk = Removed(s.disk, ({p} \ ({p} \cap Keys(s.installer.batch))) \ f.remove)
  BY <1>a DEF Release, Retire, Cache
<1>4. /\ t.owner = r.owner /\ t.staged = r.staged /\ t.installer = r.installer
      /\ t.retiring = r.retiring /\ t.disk = r.disk
      /\ \A c \in Buffers : t.written[c] = s.written[c] \/ t.written[c] = Unwritten
  BY <1>1, <1>2 DEF Cache
<1>5. KeptBut(s, t, p)
  BY <1>3, <1>4, NotCrash DEF KeptBut, Removed
<1>6. WellFormed(t)
  BY <1>3, <1>4 DEF Good, WellFormed, OwnCopies, Removed
<1>7. Unaimed(t)
  <2> SUFFICES ASSUME NEW q \in Paths, CrashCopy(t.disk[q])
               PROVE  /\ t.owner[q] = NoBuffer
                      /\ q \notin Keys(t.staged)
                      /\ q \notin Keys(t.installer.batch)
                      /\ q \notin t.retiring
                      /\ \A b \in Buffers : t.written[b].hash # q
    BY DEF Unaimed
  <2>1. CrashCopy(s.disk[q])
    BY <1>5 DEF KeptBut
  <2>2. /\ s.owner[q] = NoBuffer
        /\ q \notin Keys(s.staged)
        /\ q \notin Keys(s.installer.batch)
        /\ q \notin s.retiring
        /\ \A b \in Buffers : s.written[b].hash # q
    BY <2>1 DEF Good, Unaimed
  <2>3. q \notin Keys(t.staged)
    BY <1>3, <1>4, <2>2 DEF Keys, Removed
  <2>4. \A b \in Buffers : t.written[b].hash # q
    BY <1>4, <2>2, PathsAssumption DEF Unwritten
  <2> QED
    BY <1>3, <1>4, <2>2, <2>3, <2>4
<1> QED
  BY <1>5, <1>6, <1>7 DEF Good, t

(* adopt claims the copy at p, which is crash data no longer. *)
LEMMA AdoptGood ==
  ASSUME NEW s \in Cache, NEW b \in Buffers, NEW p \in Paths, NEW rev \in Nat, Good(s)
  PROVE  Good(Adopt(s, b, p, rev)) /\ KeptBut(s, Adopt(s, b, p, rev), p)
<1> DEFINE t == Adopt(s, b, p, rev)
<1>1. /\ t.owner = [s.owner EXCEPT ![p] = b]
      /\ t.staged = s.staged /\ t.installer = s.installer /\ t.retiring = s.retiring
      /\ t.disk = [s.disk EXCEPT ![p] = [id |-> b, rev |-> rev, text |-> s.disk[p].text]]
      /\ t.written = [c \in Buffers |->
                        IF c = b THEN [hash |-> p, rev |-> rev]
                        ELSE IF s.written[c].hash = p THEN Unwritten
                        ELSE s.written[c]]
  BY DEF Adopt, Cache
<1> HIDE DEF t
<1>2. b # NoBuffer
  BY BuffersAssumption DEF NoBuffer
<1>3. DOMAIN s.disk = Paths /\ DOMAIN s.owner = Paths
  BY DEF Cache, Batch
<1>4. ~CrashCopy(t.disk[p])
  BY <1>1, <1>2, <1>3 DEF CrashCopy
<1>5. \A q \in Paths \ {p} : t.disk[q] = s.disk[q] /\ t.owner[q] = s.owner[q]
  BY <1>1, <1>3
<1>6. KeptBut(s, t, p)
  BY <1>4, <1>5 DEF KeptBut
<1>7. WellFormed(t)
  BY <1>1 DEF Good, WellFormed
<1>8. Unaimed(t)
  <2> SUFFICES ASSUME NEW q \in Paths \ {p}, CrashCopy(s.disk[q])
               PROVE  \A c \in Buffers : t.written[c].hash # q
    BY <1>1, <1>4, <1>5 DEF Good, Unaimed
  <2>1. \A c \in Buffers : s.written[c].hash # q
    BY DEF Good, Unaimed
  <2> QED
    BY <1>1, <2>1, PathsAssumption DEF Unwritten
<1> QED
  BY <1>6, <1>7, <1>8 DEF Good, t

(* A new session aims at nothing. *)
LEMMA FreshGood ==
  ASSUME NEW d \in Batch
  PROVE  Good(FreshCache(d))
<1>1. Keys(NoCopies) = {} /\ OwnCopies(NoCopies)
  BY DEF Keys, NoCopies, OwnCopies
<1> QED
  BY <1>1, PathsAssumption
  DEF Good, WellFormed, Unaimed, FreshCache, NoInstaller, Unwritten

-----------------------------------------------------------------------------
CrashInv == TypeOK /\ Good(st)

(* What a step does to crash data, the body of OnlyRecoverOrDiscard. *)
Respects ==
  \A p \in Paths :
    CrashCopy(st.disk[p]) /\ st'.disk[p] # st.disk[p] =>
      \/ RecoverYes /\ prompt.path = p
      \/ \E b \in Buffers : DiscardRecovery(b) /\ bufs[b].path = p

(* The initial states have the crash-data invariant. *)
LEMMA CrashInit == Init => CrashInv
<1> SUFFICES ASSUME Init PROVE CrashInv
  OBVIOUS
<1>1. PICK ps \in SUBSET Paths :
        st = FreshCache([p \in Paths |-> IF p \in ps THEN [NoCopy EXCEPT !.text = 1]
                                                     ELSE NoCopy])
  BY DEF Init
<1>2. [p \in Paths |-> IF p \in ps THEN [NoCopy EXCEPT !.text = 1] ELSE NoCopy] \in Batch
  BY EmptyTypes DEF Batch, Copy, NoCopy
<1> QED
  BY <1>1, <1>2, FreshGood, TypeInit DEF CrashInv

(* A restart leaves crash data as it is. *)
LEMMA RestartKeeps ==
  ASSUME NEW s \in Cache, NEW t, t.disk = Left(s.disk)
  PROVE  \A p \in Paths : CrashCopy(s.disk[p]) => t.disk[p] = s.disk[p]
<1> SUFFICES ASSUME NEW p \in Paths, CrashCopy(s.disk[p]) PROVE t.disk[p] = s.disk[p]
  OBVIOUS
<1>1. s.disk[p] \in [id : {NoBuffer}, rev : {0}, text : Nat]
  BY BuffersAssumption DEF Cache, Batch, Copy, CrashCopy, NoBuffer
<1>2. s.disk[p] # NoCopy
  BY NotCrash
<1>3. t.disk[p] = [NoCopy EXCEPT !.text = s.disk[p].text]
  BY <1>2 DEF Left
<1> QED
  BY <1>1, <1>3 DEF NoCopy

(* Every step keeps it, and respects crash copies. *)
LEMMA CrashStep == CrashInv /\ [Next]_vars => CrashInv' /\ (UNCHANGED vars \/ Respects)
<1> SUFFICES ASSUME CrashInv, [Next]_vars
             PROVE  CrashInv' /\ (UNCHANGED vars \/ Respects)
  OBVIOUS
<1>a. BufsOK /\ st \in Cache /\ Good(st)
  BY DEF CrashInv, TypeOK, BufsOK
<1>b. TypeOK'
  BY TypeStep DEF CrashInv
<1>c. \A f \in Weather : f \in Fault
  BY WeatherType
<1>d. SUFFICES Good(st') /\ (UNCHANGED vars \/ Respects)
  BY <1>b DEF CrashInv
<1>e. ASSUME Good(st'), Kept(st, st')
      PROVE  Good(st') /\ (UNCHANGED vars \/ Respects)
  BY <1>e DEF Kept, Respects
<1>f. ASSUME UNCHANGED st
      PROVE  Good(st') /\ (UNCHANGED vars \/ Respects)
  BY <1>a, <1>f DEF Respects
<1>4. ASSUME NEW b \in Buffers, Save(b)
      PROVE  Good(st') /\ (UNCHANGED vars \/ Respects)
  BY <1>4, <1>a, <1>c, <1>e, DiscardBufferGood DEF Save
<1>5. ASSUME NEW b \in Buffers, Kill(b)
      PROVE  Good(st') /\ (UNCHANGED vars \/ Respects)
  <2>1. CASE \E f \in Weather : st' = DiscardBuffer(st, b, {}, f)
    BY <2>1, <1>a, <1>c, <1>e, DiscardBufferGood
  <2> QED
    BY <1>5, <2>1, <1>f DEF Kill
<1>6. ASSUME NEW b \in Buffers, RecoverAsk(b)
      PROVE  Good(st') /\ (UNCHANGED vars \/ Respects)
  BY <1>6, <1>a, <1>c, <1>e, SettleGood DEF RecoverAsk
<1>7. CASE RecoverYes
  <2>1. CASE \E f \in Weather : st' = SettleQuietly(st, f)
    BY <2>1, <1>a, <1>c, <1>e, SettleGood
  <2>2. ASSUME NEW f \in Weather, NEW b \in Buffers, NEW p \in Paths, p = prompt.path,
               clock' = clock + 1, st' = Adopt(SettleQuietly(st, f), b, p, clock')
        PROVE  Good(st') /\ (UNCHANGED vars \/ Respects)
    <3> DEFINE s == SettleQuietly(st, f)
    <3>1. s \in Cache /\ Good(s) /\ Kept(st, s)
      BY <1>a, <1>c, SettleType, SettleGood
    <3>2. clock' \in Nat
      BY <2>2 DEF CrashInv, TypeOK
    <3> HIDE DEF s
    <3>3. Good(st') /\ KeptBut(s, st', p)
      BY <2>2, <3>1, <3>2, AdoptGood DEF s
    <3>4. \A q \in Paths : CrashCopy(st.disk[q]) /\ q # p => st'.disk[q] = st.disk[q]
      BY <3>1, <3>3 DEF Kept, KeptBut
    <3> QED
      BY <1>7, <2>2, <3>3, <3>4 DEF Respects
  <2>3. prompt.buf \in Buffers /\ prompt.path \in Paths
    BY <1>7 DEF RecoverYes, CrashInv, TypeOK
  <2> QED
    BY <1>7, <1>f, <2>1, <2>2, <2>3 DEF RecoverYes
<1>9. ASSUME NEW b \in Buffers, DiscardRecovery(b)
      PROVE  Good(st') /\ (UNCHANGED vars \/ Respects)
  <2>1. PICK f \in Weather : st' = DiscardPath(st, bufs[b].path, f)
    BY <1>9 DEF DiscardRecovery
  <2>2. bufs[b].path \in Paths
    BY <1>9, <1>a DEF DiscardRecovery, BufsOK
  <2>3. Good(st') /\ KeptBut(st, st', bufs[b].path)
    BY <1>a, <1>c, <2>1, <2>2, DiscardPathGood
  <2> QED
    BY <1>9, <2>3 DEF KeptBut, Respects
<1>10. CASE ForceSweep
  BY <1>10, <1>a, <1>c, <1>e, SweepGood DEF ForceSweep
<1>12. CASE Tick
  <2>1. PICK f \in Weather : Tick!(f)
    BY <1>12 DEF Tick
  <2> DEFINE s1 == Collect(st, f)
             held == IF hold = 0 THEN 0 ELSE hold - 1
             s2 == IF held = 0 THEN BeginInstall(s1, f) ELSE s1
             s3 == Stage(s2, f)
             s4 == BeginInstall(s3, f)
  <2>2. f \in Fault
    BY <1>c
  <2>3. s1 \in Cache /\ Good(s1) /\ Kept(st, s1)
    BY <1>a, <2>2, CollectType, CollectGood
  <2>4. s2 \in Cache /\ Good(s2) /\ Kept(st, s2)
    BY <2>2, <2>3, BeginInstallType, BeginInstallGood, KeptTrans
  <2>5. s3 \in Cache /\ Good(s3) /\ Kept(st, s3)
    BY <1>a, <2>2, <2>4, StageType, StageGood, KeptTrans
  <2>6. Good(s4) /\ Kept(st, s4)
    BY <2>2, <2>5, BeginInstallGood, KeptTrans
  <2>7. st' \in {s2, s4}
    BY <2>1
  <2> HIDE DEF s2, s4
  <2> QED
    BY <1>e, <2>4, <2>6, <2>7
<1>13. CASE BeforeQuit
  <2>1. PICK f \in Weather : st' = Stage(Collect(st, f), f)
    BY <1>13 DEF BeforeQuit
  <2> DEFINE s1 == Collect(st, f)
  <2>2. s1 \in Cache /\ Good(s1) /\ Kept(st, s1)
    BY <1>a, <1>c, CollectType, CollectGood
  <2> HIDE DEF s1
  <2>3. Good(st') /\ Kept(st, st')
    BY <1>a, <1>c, <2>1, <2>2, StageGood, KeptTrans DEF s1
  <2> QED
    BY <1>e, <2>3
<1>15. ASSUME NEW s \in Cache, Kept(st, s), st' = FreshCache(Left(s.disk))
       PROVE  Good(st') /\ (UNCHANGED vars \/ Respects)
  <2>1. Left(s.disk) \in Batch
    BY FreshCacheType DEF Cache
  <2>2. Good(st')
    BY <1>15, <2>1, FreshGood
  <2>3. st'.disk = Left(s.disk)
    BY <1>15 DEF FreshCache
  <2>4. \A p \in Paths : CrashCopy(s.disk[p]) => st'.disk[p] = s.disk[p]
    BY <2>3, RestartKeeps
  <2> QED
    BY <1>15, <2>2, <2>4 DEF Kept, Respects
<1>16. CASE Exit
  <2>1. PICK f \in Weather : Restart(SettleQuietly(st, f).disk)
    BY <1>16 DEF Exit
  <2> DEFINE s == SettleQuietly(st, f)
  <2>2. s \in Cache /\ Kept(st, s)
    BY <1>a, <1>c, SettleType, SettleGood
  <2>3. st' = FreshCache(Left(s.disk))
    BY <2>1 DEF Restart
  <2> HIDE DEF s
  <2> QED
    BY <1>15, <2>2, <2>3
<1>17. CASE Crash
  <2>1. Kept(st, st)
    BY DEF Kept
  <2> QED
    BY <1>15, <1>17, <1>a, <2>1 DEF Crash, Restart
<1>18. ASSUME NEW p \in Paths, InstallOne(p)
       PROVE  Good(st') /\ (UNCHANGED vars \/ Respects)
  <2>1. PICK f \in Weather :
          st' = [st EXCEPT !.installer = [st.installer EXCEPT
                                            !.todo = st.installer.todo \ {p},
                                            !.failed = st.installer.failed
                                                         \cup ({p} \cap f.install)],
                           !.disk = Landed(@, st.installer.batch, {p} \ f.install)]
    BY <1>18 DEF InstallOne
  <2>2. /\ st'.written = st.written /\ st'.owner = st.owner /\ st'.staged = st.staged
        /\ st'.retiring = st.retiring
        /\ st'.installer.batch = st.installer.batch
        /\ st'.installer.todo \subseteq st.installer.todo
        /\ st'.disk = Landed(st.disk, st.installer.batch, {p} \ f.install)
    <3>1. /\ st'.written = st.written /\ st'.owner = st.owner /\ st'.staged = st.staged
          /\ st'.retiring = st.retiring
          /\ st'.disk = Landed(st.disk, st.installer.batch, {p} \ f.install)
      BY <2>1, <1>a DEF Cache
    <3>2. st'.installer = [st.installer EXCEPT
                             !.todo = st.installer.todo \ {p},
                             !.failed = st.installer.failed \cup ({p} \cap f.install)]
      BY <2>1, <1>a DEF Cache
    <3>3. st.installer \in Installer
      BY <1>a DEF Cache
    <3> QED
      BY <3>1, <3>2, <3>3 DEF Installer
  <2>3. {p} \ f.install \in SUBSET Keys(st.installer.batch)
    BY <1>18, <1>a DEF InstallOne, Good, WellFormed
  <2>4. \A q \in {p} \ f.install : ~CrashCopy(st.disk[q])
    BY <1>a, <2>3 DEF Good, Unaimed
  <2>5. OwnCopies(st.installer.batch)
    BY <1>a DEF Good, WellFormed
  <2>6. Kept(st, st')
    BY <2>2, <2>3, <2>4, <2>5, LandGood DEF Kept
  <2>7. WellFormed(st')
    BY <1>a, <2>2 DEF Good, WellFormed
  <2>8. Unaimed(st')
    BY <1>a, <2>2, <2>6 DEF Good, Unaimed, Kept
  <2> QED
    BY <1>e, <2>6, <2>7, <2>8 DEF Good
<1>19. ASSUME NEW i,
              \/ i = [st.installer EXCEPT !.phase = "done"]
              \/ i = [st.installer EXCEPT !.phase = "panicked", !.todo = {}],
              st' = [st EXCEPT !.installer = i]
       PROVE  Good(st') /\ (UNCHANGED vars \/ Respects)
  <2>1. /\ st'.written = st.written /\ st'.owner = st.owner /\ st'.staged = st.staged
        /\ st'.retiring = st.retiring
        /\ st'.installer.batch = st.installer.batch
        /\ st'.installer.todo \subseteq st.installer.todo
        /\ st'.disk = st.disk
    <3>1. i.batch = st.installer.batch /\ i.todo \subseteq st.installer.todo
      BY <1>19, <1>a DEF Cache, Installer
    <3> QED
      BY <1>19, <1>a, <3>1 DEF Cache
  <2>2. WellFormed(st')
    BY <1>a, <2>1 DEF Good, WellFormed
  <2>3. Unaimed(st') /\ Kept(st, st')
    BY <1>a, <2>1 DEF Good, Unaimed, Kept
  <2> QED
    BY <1>e, <2>2, <2>3 DEF Good
<1>20. CASE InstallerExit \/ InstallerPanic
  BY <1>19, <1>20 DEF InstallerExit, InstallerPanic
<1>21. CASE \/ \E b \in Buffers, p \in Paths, loaded \in BOOLEAN : Open(b, p, loaded)
            \/ \E b \in Buffers, modified \in BOOLEAN : Edit(b, modified)
            \/ \E b \in Buffers, p \in Paths : Rename(b, p)
            \/ RecoverNo
            \/ \E on \in BOOLEAN : Enable(on)
            \/ CancelQuit
            \/ TimerDue
            \/ Heal
            \/ UNCHANGED vars
  BY <1>f, <1>21 DEF Open, Edit, Rename, RecoverNo, Enable, CancelQuit, TimerDue, Heal, vars
<1> QED
  BY <1>4, <1>5, <1>6, <1>7, <1>9, <1>10, <1>12, <1>13, <1>16, <1>17, <1>18, <1>20, <1>21
  DEF Next, MainThread, InstallerThread

(* Nothing a session does is aimed at crash data nobody has recovered,      *)
(* whatever fails and however the installer interleaves (Q#AS12).           *)
THEOREM CrashDataSafe == Spec => []CrashDataUnaimed
<1>1. CrashInv => CrashDataUnaimed
  BY DEF CrashInv, Good, CrashDataUnaimed
<1>2. CrashInv /\ [Next]_vars => CrashInv'
  BY CrashStep
<1> QED
  BY CrashInit, <1>1, <1>2, PTL DEF Spec

(* Crash data is changed or removed only by recover-file and                *)
(* discard-recovery of its path: not by a save, a kill, a pass, the         *)
(* installer, a quit, a crash or any failure of these.                      *)
THEOREM CrashDataReleasedOnlyByUser == Spec => OnlyRecoverOrDiscard
<1>1. CrashInv /\ [Next]_vars => CrashInv'
  BY CrashStep
<1>2. CrashInv /\ [Next]_vars =>
        [\A p \in Paths :
           CrashCopy(st.disk[p]) /\ st'.disk[p] # st.disk[p] =>
             \/ RecoverYes /\ prompt.path = p
             \/ \E b \in Buffers : DiscardRecovery(b) /\ bufs[b].path = p]_vars
  BY CrashStep DEF Respects
<1> QED
  BY CrashInit, <1>1, <1>2, PTL DEF Spec, OnlyRecoverOrDiscard

-----------------------------------------------------------------------------
(* What each function does to the fields of the cache the properties below  *)
(* speak of.                                                                *)

(* absorb forgets the entries that still name a copy that failed. *)
Spent(s, c, failed, b) ==
  \E p \in failed : /\ c[p].id = b
                    /\ s.written[b].hash = p
                    /\ s.written[b].rev = c[p].rev

(* t is s after a release of the keys in ps. *)
Releases(s, t, ps, f) ==
  /\ t.owner = [p \in Paths |-> IF p \in ps THEN NoBuffer ELSE s.owner[p]]
  /\ t.staged = Removed(s.staged, ps)
  /\ t.installer = s.installer
  /\ t.retiring = s.retiring \cup (ps \cap Keys(s.installer.batch))
  /\ t.disk = Removed(s.disk, (ps \ Keys(s.installer.batch)) \ f.remove)

(* Only these fields matter to what follows. *)
SameCopies(s, t) ==
  /\ t.written = s.written /\ t.owner = s.owner /\ t.staged = s.staged
  /\ t.installer = s.installer /\ t.retiring = s.retiring /\ t.disk = s.disk

(* absorb touches the skip cache alone. *)
LEMMA AbsorbFields ==
  ASSUME NEW s \in Cache, NEW c, NEW failed, NEW t, t = Absorb(s, c, failed)
  PROVE  /\ t.owner = s.owner /\ t.staged = s.staged /\ t.installer = s.installer
         /\ t.retiring = s.retiring /\ t.disk = s.disk
         /\ \A b \in Buffers : t.written[b] = IF Spent(s, c, failed, b) THEN Unwritten
                                                                       ELSE s.written[b]
  BY DEF Absorb, Cache, Spent

(* t is s once the installer is taken: what it had left has landed, and     *)
(* what it held back is removed.                                            *)
Takes(s, t, f) ==
  LET i == s.installer
      panicked == i.phase = "panicked" \/ (i.phase = "running" /\ f.panic)
      failed == i.failed \cup (i.todo \cap f.install)
  IN /\ t.owner = s.owner /\ t.staged = s.staged
     /\ t.installer = NoInstaller /\ t.retiring = {}
     /\ t.disk = Removed(Landed(s.disk, i.batch, i.todo \ f.install), s.retiring \ f.remove)
     /\ \A b \in Buffers : t.written[b] = IF panicked \/ Spent(s, i.batch, failed, b)
                                         THEN Unwritten ELSE s.written[b]

(* take_installer does. *)
LEMMA TakeFields ==
  ASSUME NEW s \in Cache, NEW f \in Fault
  PROVE  Takes(s, TakeInstaller(s, f), f)
<1> DEFINE i == s.installer
           joined == [s EXCEPT !.installer = NoInstaller,
                               !.disk = Landed(@, i.batch, i.todo \ f.install)]
           failed == i.failed \cup (i.todo \cap f.install)
           panicked == i.phase = "panicked" \/ (i.phase = "running" /\ f.panic)
           lost == [joined EXCEPT !.written = [b \in Buffers |-> Unwritten],
                                  !.unreported = TRUE]
           absorbed == Absorb(joined, i.batch, failed)
           taken == IF panicked THEN lost ELSE absorbed
           t == TakeInstaller(s, f)
<1>1. i \in Installer /\ NoInstaller \in Installer
  BY EmptyTypes DEF Cache
<1>2. joined \in Cache
  BY <1>1, EmptyTypes, LandedType DEF Cache, Installer
<1>3. /\ joined.written = s.written /\ joined.owner = s.owner /\ joined.staged = s.staged
      /\ joined.installer = NoInstaller /\ joined.retiring = s.retiring
      /\ joined.disk = Landed(s.disk, i.batch, i.todo \ f.install)
  BY DEF Cache
<1>4. t = [taken EXCEPT !.disk = Removed(@, s.retiring \ f.remove), !.retiring = {}]
  BY DEF TakeInstaller
<1> HIDE DEF joined
<1>5. /\ lost \in Cache
      /\ lost.owner = joined.owner /\ lost.staged = joined.staged
      /\ lost.installer = joined.installer /\ lost.disk = joined.disk
      /\ \A b \in Buffers : lost.written[b] = Unwritten
  BY <1>2, EmptyTypes DEF Cache
<1>6. /\ absorbed \in Cache
      /\ absorbed.owner = joined.owner /\ absorbed.staged = joined.staged
      /\ absorbed.installer = joined.installer /\ absorbed.disk = joined.disk
      /\ \A b \in Buffers :
           absorbed.written[b] = IF Spent(joined, i.batch, failed, b) THEN Unwritten
                                                                      ELSE joined.written[b]
  <2>1. i.batch \in Batch /\ failed \in SUBSET Paths
    BY <1>1 DEF Installer, Fault
  <2> HIDE DEF failed
  <2> QED
    BY <1>2, <2>1, AbsorbType, AbsorbFields
<1>7. \A b \in Buffers : Spent(joined, i.batch, failed, b) <=> Spent(s, i.batch, failed, b)
  BY <1>3 DEF Spent
<1> HIDE DEF lost, absorbed, panicked, failed
<1>8. /\ taken \in Cache
      /\ taken.owner = s.owner /\ taken.staged = s.staged
      /\ taken.installer = NoInstaller
      /\ taken.disk = Landed(s.disk, i.batch, i.todo \ f.install)
      /\ \A b \in Buffers :
           taken.written[b] = IF panicked \/ Spent(s, i.batch, failed, b)
                              THEN Unwritten ELSE s.written[b]
  BY <1>3, <1>5, <1>6, <1>7
<1> HIDE DEF taken, t
<1>9. /\ t.owner = taken.owner /\ t.staged = taken.staged
      /\ t.installer = taken.installer /\ t.retiring = {}
      /\ t.disk = Removed(taken.disk, s.retiring \ f.remove)
      /\ t.written = taken.written
  BY <1>4, <1>8 DEF Cache
<1>10. Takes(s, t, f)
  BY <1>8, <1>9 DEF panicked, failed, Takes
<1> QED
  BY <1>10 DEF t

(* t is s once what is staged has been installed on this thread. *)
Installs(s, t, f) ==
  LET ps == Keys(s.staged)
  IN /\ t.owner = s.owner /\ t.staged = NoCopies
     /\ t.installer = s.installer /\ t.retiring = s.retiring
     /\ t.disk = Landed(s.disk, s.staged, ps \ f.install)
     /\ \A b \in Buffers : t.written[b] = IF Spent(s, s.staged, ps \cap f.install, b)
                                         THEN Unwritten ELSE s.written[b]

(* install does. *)
LEMMA InstallStagedFields ==
  ASSUME NEW s \in Cache, NEW f \in Fault
  PROVE  Installs(s, InstallStaged(s, f), f)
<1> DEFINE ps == Keys(s.staged)
           u == [s EXCEPT !.staged = NoCopies, !.disk = Landed(@, s.staged, ps \ f.install)]
           t == InstallStaged(s, f)
<1>1. u \in Cache
  BY EmptyTypes, LandedType DEF Cache
<1>2. /\ u.written = s.written /\ u.owner = s.owner /\ u.staged = NoCopies
      /\ u.installer = s.installer /\ u.retiring = s.retiring
      /\ u.disk = Landed(s.disk, s.staged, ps \ f.install)
  BY DEF Cache
<1>3. t = Absorb(u, s.staged, ps \cap f.install)
  BY DEF InstallStaged
<1> HIDE DEF u, ps, t
<1>4. \A b \in Buffers : Spent(u, s.staged, ps \cap f.install, b)
                           <=> Spent(s, s.staged, ps \cap f.install, b)
  BY <1>2 DEF Spent
<1>5. /\ t.owner = u.owner /\ t.staged = u.staged /\ t.installer = u.installer
      /\ t.retiring = u.retiring /\ t.disk = u.disk
      /\ \A b \in Buffers :
           t.written[b] = IF Spent(u, s.staged, ps \cap f.install, b) THEN Unwritten
                                                                     ELSE u.written[b]
  BY <1>1, <1>3, AbsorbFields
<1>6. Installs(s, t, f)
  BY <1>2, <1>4, <1>5 DEF ps, Installs
<1> QED
  BY <1>6 DEF t

(* A release, as the callers of retire make it. *)
LEMMA ReleaseReleases ==
  ASSUME NEW s \in Cache, NEW ps \in SUBSET Paths, NEW f \in Fault,
         NEW t, t = Release(s, ps, f)
  PROVE  Releases(s, t, ps, f) /\ t.written = s.written
<1>1. ps \ (ps \cap Keys(s.installer.batch)) = ps \ Keys(s.installer.batch)
  OBVIOUS
<1>2. /\ t.written = s.written
      /\ t.owner = [p \in Paths |-> IF p \in ps THEN NoBuffer ELSE s.owner[p]]
      /\ t.staged = Removed(s.staged, ps)
      /\ t.installer = s.installer
      /\ t.retiring = s.retiring \cup (ps \cap Keys(s.installer.batch))
      /\ t.disk = Removed(s.disk, (ps \ (ps \cap Keys(s.installer.batch))) \ f.remove)
  BY DEF Release, Retire, Cache
<1> QED
  BY <1>1, <1>2, Zenon DEF Releases

(* The buffers that left the registry with an entry, and the keys a pass    *)
(* collects: orphans, and what the dead still own.                          *)
Dead(s) == {b \in Buffers : s.written[b] # Unwritten /\ bufs[b].phase # "live"}
GarbageKeys(s) ==
  Orphans(s) \cup {p \in Paths : \E b \in Dead(s) : s.written[b].hash = p /\ s.owner[p] = b}

(* The garbage collection of a pass is one release. *)
Collects(s, t, f) ==
  /\ GarbageKeys(s) \in SUBSET Paths
  /\ Releases(s, t, GarbageKeys(s), f)
  /\ \A b \in Buffers : t.written[b] = IF b \in Dead(s) THEN Unwritten ELSE s.written[b]

(* The code makes it in two. *)
LEMMA GarbageFields ==
  ASSUME NEW s \in Cache, NEW f \in Fault, BufsOK
  PROVE  Collects(s, CollectGarbage(s, f), f)
<1> DEFINE s1 == Release(s, Orphans(s), f)
           keys == {p \in Paths : \E b \in Dead(s) : s.written[b].hash = p /\ s1.owner[p] = b}
           s2 == Release(s1, keys, f)
           w == [b \in Buffers |-> IF b \in Dead(s) THEN Unwritten ELSE s.written[b]]
           t == CollectGarbage(s, f)
<1>1. Orphans(s) \in SUBSET Paths
  BY WritesType DEF Orphans, Cache, Entry
<1>2. GarbageKeys(s) \in SUBSET Paths
  BY <1>1 DEF GarbageKeys
<1>3. t = [s2 EXCEPT !.written = w]
  BY DEF CollectGarbage, Dead
<1>4. keys \in SUBSET Paths
  OBVIOUS
<1>5. s1 \in Cache /\ Releases(s, s1, Orphans(s), f)
  BY <1>1, ReleaseType, ReleaseReleases
<1>6. GarbageKeys(s) = Orphans(s) \cup keys
  <2>1. \A p \in Paths : s1.owner[p] = IF p \in Orphans(s) THEN NoBuffer ELSE s.owner[p]
    BY <1>5 DEF Releases
  <2>2. \A b \in Dead(s) : b # NoBuffer
    BY BuffersAssumption DEF Dead, NoBuffer
  <2> HIDE DEF s1
  <2> QED
    BY <2>1, <2>2 DEF GarbageKeys
<1> HIDE DEF s1, keys
<1>7. s2 \in Cache /\ Releases(s1, s2, keys, f)
  BY <1>4, <1>5, ReleaseType, ReleaseReleases
<1> HIDE DEF s2, w, t
<1>8. t.written = w /\ Releases(s1, t, keys, f)
  BY <1>3, <1>7 DEF Cache, Releases
<1>9. Releases(s, t, Orphans(s) \cup keys, f)
  <2>1. s1.installer = s.installer
    BY <1>5 DEF Releases
  <2>2. t.owner = [p \in Paths |-> IF p \in Orphans(s) \cup keys THEN NoBuffer ELSE s.owner[p]]
    BY <1>5, <1>8 DEF Releases
  <2>3. t.staged = Removed(s.staged, Orphans(s) \cup keys)
    BY <1>5, <1>8 DEF Releases, Removed
  <2>4. t.installer = s.installer
    BY <1>5, <1>8 DEF Releases
  <2>5. t.retiring = s.retiring \cup ((Orphans(s) \cup keys) \cap Keys(s.installer.batch))
    BY <2>1, <1>5, <1>8 DEF Releases
  <2>6. t.disk = Removed(s.disk, ((Orphans(s) \cup keys) \ Keys(s.installer.batch)) \ f.remove)
    BY <2>1, <1>5, <1>8 DEF Releases, Removed
  <2> QED
    BY <2>2, <2>3, <2>4, <2>5, <2>6 DEF Releases
<1>10. Collects(s, t, f)
  BY <1>2, <1>6, <1>8, <1>9 DEF w, Collects
<1> QED
  BY <1>10 DEF t

(* t is s after claiming the slots of the buffers in done. *)
Claiming(s, t, done) ==
  /\ t.owner = [p \in Paths |-> IF \E b \in done : bufs[b].path = p
                                THEN CHOOSE b \in done : bufs[b].path = p
                                ELSE s.owner[p]]
  /\ \A b \in Buffers :
       t.written[b] = IF b \in done THEN [hash |-> bufs[b].path, rev |-> bufs[b].rev]
                                    ELSE s.written[b]

(* A staging pass, once the garbage is collected: copies and claims. *)
Stages(g, t, done) ==
  /\ Claiming(g, t, done)
  /\ t.staged = Copied(g.staged, done)
  /\ t.installer = g.installer /\ t.retiring = g.retiring /\ t.disk = g.disk

(* sweep_with stages so. *)
LEMMA StageFields ==
  ASSUME NEW s \in Cache, NEW f \in Fault, BufsOK, enabled
  PROVE  Stages(CollectGarbage(s, f), Stage(s, f), Written(s, f))
<1> DEFINE done == Written(s, f)
           g == CollectGarbage(s, f)
           t == Stage(s, f)
           s2 == [g EXCEPT !.staged = Copied(@, done)]
           s3 == Claimed(s2, done)
<1>1. done \in SUBSET Buffers /\ \A b \in done : bufs[b].path \in Paths
  BY WritesType
<1>2. g \in Cache
  BY CollectGarbageType
<1>3. t = [s3 EXCEPT !.passFailed = PassFails(s, f), !.lastError = @ \/ PassFails(s, f)]
  BY DEF Stage
<1> HIDE DEF done, g
<1>4. Copied(g.staged, done) \in Batch
  BY <1>1, <1>2, CopiedType DEF Cache
<1>5. /\ s2 \in Cache /\ s2.written = g.written /\ s2.owner = g.owner
      /\ s2.staged = Copied(g.staged, done)
      /\ s2.installer = g.installer /\ s2.retiring = g.retiring /\ s2.disk = g.disk
  BY <1>2, <1>4 DEF Cache
<1> HIDE DEF s2
<1>a. s3 = Claimed(s2, done)
  OBVIOUS
<1> HIDE DEF s3, t
<1>6. /\ s3 \in Cache /\ Claiming(s2, s3, done)
      /\ s3.staged = s2.staged /\ s3.installer = s2.installer
      /\ s3.retiring = s2.retiring /\ s3.disk = s2.disk
  <2>1. s3 \in Cache
    BY <1>a, <1>1, <1>5, ClaimedType
  <2> QED
    BY <1>a, <2>1, <1>1, <1>5 DEF Claimed, Claiming, Cache
<1>7. SameCopies(s3, t)
  BY <1>3, <1>6 DEF Cache, SameCopies
<1>8. Stages(g, t, done)
  BY <1>5, <1>6, <1>7 DEF Claiming, SameCopies, Stages
<1> QED
  BY <1>8 DEF t, g, done

(* A forced sweep, settled and its garbage collected: the copies are        *)
(* written in place.                                                        *)
Writing(g, t, done) ==
  /\ Claiming(g, t, done)
  /\ t.disk = Copied(g.disk, done)
  /\ t.installer = g.installer /\ t.retiring = g.retiring /\ t.staged = g.staged

(* sweep_with writes so. *)
LEMMA SweepFields ==
  ASSUME NEW s \in Cache, NEW f \in Fault, BufsOK, enabled,
         NEW s0, s0 = Settle(s, f)
  PROVE  Writing(CollectGarbage(s0, f), Sweep(s, f), Written(s0, f))
<1> DEFINE done == Written(s0, f)
           g == CollectGarbage(s0, f)
           t == Sweep(s, f)
           s2 == [g EXCEPT !.disk = Copied(@, done)]
<1>0. s0 \in Cache
  BY SettleType
<1>1. done \in SUBSET Buffers /\ \A b \in done : bufs[b].path \in Paths
  BY WritesType
<1>2. g \in Cache
  BY <1>0, CollectGarbageType
<1>3. t = Claimed(s2, done)
  BY DEF Sweep
<1> HIDE DEF done, g, t
<1>4. Copied(g.disk, done) \in Batch
  BY <1>1, <1>2, CopiedType DEF Cache
<1>5. /\ s2 \in Cache /\ s2.written = g.written /\ s2.owner = g.owner
      /\ s2.disk = Copied(g.disk, done)
      /\ s2.installer = g.installer /\ s2.retiring = g.retiring /\ s2.staged = g.staged
  BY <1>2, <1>4 DEF Cache
<1> HIDE DEF s2
<1>6. /\ Claiming(s2, t, done)
      /\ t.staged = s2.staged /\ t.installer = s2.installer
      /\ t.retiring = s2.retiring /\ t.disk = s2.disk
  BY <1>1, <1>3, <1>5 DEF Claimed, Claiming, Cache
<1>7. Writing(g, t, done)
  BY <1>5, <1>6 DEF Claiming, Writing
<1> QED
  BY <1>7 DEF t, g, done

(* settle and collect are take_installer and install. *)
LEMMA SettleFields ==
  ASSUME NEW s \in Cache, NEW f \in Fault
  PROVE  SameCopies(SettleQuietly(s, f), Settle(s, f))
<1> DEFINE q == SettleQuietly(s, f)
<1>1. q \in Cache
  BY SettleType
<1>2. Settle(s, f) = [q EXCEPT !.unreported = FALSE]
  BY DEF Settle
<1> HIDE DEF q
<1>3. SameCopies(q, Settle(s, f))
  BY <1>1, <1>2 DEF Cache, SameCopies
<1> QED
  BY <1>3 DEF q

(* collect takes the installer once it has ended, or leaves all as it is. *)
LEMMA CollectFields ==
  ASSUME NEW s \in Cache, NEW f \in Fault
  PROVE  \/ SameCopies(s, Collect(s, f))
         \/ /\ s.installer.phase \in {"done", "panicked"}
            /\ SameCopies(TakeInstaller(s, f), Collect(s, f))
<1> DEFINE taken == s.installer.phase \in {"done", "panicked"}
           after == IF taken THEN TakeInstaller(s, f) ELSE s
<1>1. after \in Cache
  BY TakeType
<1>2. Collect(s, f) = [after EXCEPT
         !.lastError = after.unreported \/ (@ /\ ~(taken /\ ~after.passFailed)),
         !.unreported = FALSE]
  BY DEF Collect
<1>3. after = IF taken THEN TakeInstaller(s, f) ELSE s
  OBVIOUS
<1> HIDE DEF after
<1>4. SameCopies(after, Collect(s, f))
  BY <1>1, <1>2 DEF Cache, SameCopies
<1> QED
  BY <1>3, <1>4

-----------------------------------------------------------------------------
(* Order.  A copy of key p flies while it is in place, staged or waiting to *)
(* be installed.                                                            *)
Flying(s, p, c) ==
  \/ c = s.disk[p]
  \/ c = s.staged[p]
  \/ p \in s.installer.todo /\ c = s.installer.batch[p]

(* What flies after s was flying in s, whatever became of it.               *)
Flows(s, t) ==
  \A p \in Paths, c \in Copy : Flying(t, p, c) => c = NoCopy \/ Flying(s, p, c)

(* A pass adds copies of modified buffers as they are.                      *)
Fills(s, t) ==
  \A p \in Paths, c \in Copy :
    Flying(t, p, c) => \/ c = NoCopy \/ Flying(s, p, c)
                       \/ \E b \in Buffers : IsModified(b) /\ c = CopyOf(b)

(* c may land over d: it is not an older copy of the same buffer.           *)
AtLeast(c, d) == d.id # NoBuffer /\ c.id = d.id => c.rev >= d.rev

(* Of one buffer's copies of a key, what is staged is no older than what is *)
(* being installed, and that no older than what is in place.                *)
Ordered(s) ==
  \A p \in Paths :
    /\ AtLeast(s.staged[p], s.disk[p])
    /\ p \in s.installer.todo => /\ AtLeast(s.installer.batch[p], s.disk[p])
                                 /\ AtLeast(s.staged[p], s.installer.batch[p])

(* An installer works within its batch, the removals held back are for its  *)
(* batch, and one that has ended has nothing left to install.               *)
Tidy(s) ==
  /\ s.installer.phase = "none" => s.installer = NoInstaller
  /\ s.installer.phase \in {"done", "panicked"} => s.installer.todo = {}
  /\ s.installer.todo \subseteq Keys(s.installer.batch)
  /\ s.retiring \subseteq Keys(s.installer.batch)

InOrder(s) == Tidy(s) /\ Ordered(s)

(* Flows composes, and with Fills on either side. *)
LEMMA FlowsTrans ==
  ASSUME NEW s, NEW t, NEW u
  PROVE  /\ Flows(s, t) /\ Flows(t, u) => Flows(s, u)
         /\ Flows(s, t) /\ Fills(t, u) => Fills(s, u)
         /\ Fills(s, t) /\ Flows(t, u) => Fills(s, u)
         /\ Flows(s, t) => Fills(s, t)
         /\ Flows(s, s)
  BY DEF Flows, Fills

(* No copy is older than another buffer's, or than none. *)
LEMMA AtLeastNone ==
  /\ \A c : AtLeast(c, NoCopy)
  /\ \A d : AtLeast(NoCopy, d)
  /\ \A c \in Copy : AtLeast(c, c)
<1>1. \A c \in Copy : c.rev >= c.rev
  BY DEF Copy
<1> QED
  BY <1>1 DEF AtLeast, NoCopy, NoBuffer

(* Neither holds more of a cache than its copies. *)
LEMMA SameOrder ==
  ASSUME NEW s, NEW t, SameCopies(s, t)
  PROVE  Flows(s, t) /\ (InOrder(s) => InOrder(t))
  BY DEF SameCopies, Flows, Flying, InOrder, Tidy, Ordered

(* No installer has no keys. *)
LEMMA NoInstallerFacts ==
  /\ NoInstaller.phase = "none" /\ NoInstaller.todo = {} /\ NoInstaller.failed = {}
  /\ Keys(NoInstaller.batch) = {} /\ Keys(NoCopies) = {}
  /\ \A p \in Paths : NoCopies[p] = NoCopy
  BY DEF NoInstaller, Keys, NoCopies

(* A release drops copies. *)
LEMMA ReleasesOrder ==
  ASSUME NEW s \in Cache, NEW ps, NEW f, NEW t, Releases(s, t, ps, f)
  PROVE  Flows(s, t) /\ (InOrder(s) => InOrder(t))
<1>1. Flows(s, t)
  BY DEF Releases, Removed, Flows, Flying
<1>2. ASSUME InOrder(s) PROVE InOrder(t)
  <2>1. Tidy(t)
    BY <1>2 DEF InOrder, Tidy, Releases
  <2>2. ASSUME NEW p \in Paths
        PROVE  /\ t.staged[p] = s.staged[p] \/ t.staged[p] = NoCopy
               /\ t.disk[p] = s.disk[p] \/ t.disk[p] = NoCopy
    BY DEF Releases, Removed
  <2>3. Ordered(t)
    BY <1>2, <2>2, AtLeastNone DEF InOrder, Ordered, Releases
  <2> QED
    BY <2>1, <2>3 DEF InOrder
<1> QED
  BY <1>1, <1>2

(* Taking the installer lands what it had, in order. *)
LEMMA TakeOrder ==
  ASSUME NEW s \in Cache, NEW f \in Fault, InOrder(s)
  PROVE  Flows(s, TakeInstaller(s, f)) /\ InOrder(TakeInstaller(s, f))
<1> DEFINE t == TakeInstaller(s, f)
<1>a. t = TakeInstaller(s, f)
  OBVIOUS
<1> HIDE DEF t
<1>1. /\ t.staged = s.staged /\ t.installer = NoInstaller /\ t.retiring = {}
      /\ t.disk = Removed(Landed(s.disk, s.installer.batch, s.installer.todo \ f.install),
                          s.retiring \ f.remove)
  BY <1>a, TakeFields DEF Takes
<1>2. ASSUME NEW p \in Paths
      PROVE  \/ t.disk[p] = s.disk[p]
             \/ t.disk[p] = NoCopy
             \/ p \in s.installer.todo /\ t.disk[p] = s.installer.batch[p]
  BY <1>1 DEF Removed, Landed
<1>3. Flows(s, t)
  BY <1>1, <1>2, NoInstallerFacts DEF Flows, Flying
<1>4. Tidy(t)
  BY <1>1, NoInstallerFacts DEF Tidy
<1>5. Ordered(t)
  BY <1>1, <1>2, NoInstallerFacts, AtLeastNone DEF InOrder, Ordered
<1> QED
  BY <1>3, <1>4, <1>5 DEF InOrder, t

(* With no installer about, staged copies land in order. *)
LEMMA InstallStagedOrder ==
  ASSUME NEW s \in Cache, NEW f \in Fault, InOrder(s), s.installer.phase = "none"
  PROVE  Flows(s, InstallStaged(s, f)) /\ InOrder(InstallStaged(s, f))
<1> DEFINE t == InstallStaged(s, f)
<1>1. /\ t.staged = NoCopies /\ t.installer = s.installer /\ t.retiring = s.retiring
      /\ t.disk = Landed(s.disk, s.staged, Keys(s.staged) \ f.install)
  BY InstallStagedFields DEF Installs
<1> HIDE DEF t
<1>2. s.installer.todo = {}
  BY NoInstallerFacts DEF InOrder, Tidy
<1>3. \A p \in Paths : t.disk[p] = s.disk[p] \/ t.disk[p] = s.staged[p]
  BY <1>1 DEF Landed
<1>4. Flows(s, t)
  BY <1>1, <1>2, <1>3, NoInstallerFacts DEF Flows, Flying
<1>5. Tidy(t)
  BY <1>1 DEF InOrder, Tidy
<1>6. Ordered(t)
  BY <1>1, <1>2, NoInstallerFacts, AtLeastNone DEF Ordered
<1> QED
  BY <1>4, <1>5, <1>6 DEF InOrder, t

(* settle leaves nothing in flight. *)
Settled(s) == s.staged = NoCopies /\ s.installer = NoInstaller /\ s.retiring = {}

LEMMA SettleOrder ==
  ASSUME NEW s \in Cache, NEW f \in Fault, InOrder(s)
  PROVE  /\ Flows(s, SettleQuietly(s, f)) /\ InOrder(SettleQuietly(s, f))
         /\ Flows(s, Settle(s, f)) /\ InOrder(Settle(s, f))
         /\ Settled(SettleQuietly(s, f)) /\ Settled(Settle(s, f))
<1> DEFINE u == IF s.installer.phase = "none" THEN s ELSE TakeInstaller(s, f)
           q == SettleQuietly(s, f)
<1>1. q = InstallStaged(u, f)
  BY DEF SettleQuietly
<1>2. /\ u \in Cache /\ InOrder(u) /\ Flows(s, u)
      /\ u.installer = NoInstaller /\ u.retiring = {}
  <2>1. CASE s.installer.phase = "none"
    BY <2>1, FlowsTrans, NoInstallerFacts DEF InOrder, Tidy
  <2>2. CASE s.installer.phase # "none"
    <3>1. u = TakeInstaller(s, f)
      BY <2>2
    <3> HIDE DEF u
    <3>2. u.installer = NoInstaller /\ u.retiring = {}
      BY <3>1, TakeFields DEF Takes
    <3> QED
      BY <3>1, <3>2, TakeType, TakeOrder
  <2> QED
    BY <2>1, <2>2
<1> HIDE DEF q, u
<1>3. Flows(u, q) /\ InOrder(q)
  BY <1>1, <1>2, NoInstallerFacts, InstallStagedOrder
<1>4. Settled(q)
  <2>1. q.staged = NoCopies /\ q.installer = u.installer /\ q.retiring = u.retiring
    BY <1>1, <1>2, InstallStagedFields DEF Installs
  <2> QED
    BY <1>2, <2>1 DEF Settled
<1>5. SameCopies(q, Settle(s, f))
  BY SettleFields DEF q
<1> QED
  BY <1>2, <1>3, <1>4, <1>5, FlowsTrans, SameOrder DEF q, Settled, SameCopies

(* begin_install hands over what is staged when nothing is in its way. *)
LEMMA BeginInstallOrder ==
  ASSUME NEW s \in Cache, NEW f \in Fault, InOrder(s)
  PROVE  Flows(s, BeginInstall(s, f)) /\ InOrder(BeginInstall(s, f))
<1> DEFINE i == [phase |-> "running", batch |-> s.staged,
                 todo |-> Keys(s.staged), failed |-> {}]
           t == [s EXCEPT !.staged = NoCopies, !.installer = i]
<1>1. /\ t.staged = NoCopies /\ t.installer.phase = "running"
      /\ t.installer.batch = s.staged /\ t.installer.todo = Keys(s.staged)
      /\ t.retiring = s.retiring /\ t.disk = s.disk
  BY DEF Cache
<1>2. CASE s.staged = NoCopies \/ s.installer.phase # "none"
  BY <1>2, FlowsTrans DEF BeginInstall
<1>3. CASE s.installer.phase = "none" /\ f.spawn /\ s.staged # NoCopies
  BY <1>3, InstallStagedOrder DEF BeginInstall
<1>4. CASE s.installer.phase = "none" /\ ~f.spawn /\ s.staged # NoCopies
  <2>1. BeginInstall(s, f) = t
    BY <1>4 DEF BeginInstall
  <2> HIDE DEF t
  <2>2. s.retiring = {}
    BY <1>4, NoInstallerFacts DEF InOrder, Tidy
  <2>3. Flows(s, t)
    BY <1>1, NoInstallerFacts DEF Flows, Flying
  <2>4. Tidy(t)
    BY <1>1, <2>2 DEF Tidy
  <2>5. Ordered(t)
    BY <1>1, NoInstallerFacts, AtLeastNone DEF InOrder, Ordered
  <2> QED
    BY <2>1, <2>3, <2>4, <2>5 DEF InOrder
<1> QED
  BY <1>2, <1>3, <1>4 DEF Fault

(* collect takes an installer that has ended. *)
LEMMA CollectOrder ==
  ASSUME NEW s \in Cache, NEW f \in Fault, InOrder(s)
  PROVE  Flows(s, Collect(s, f)) /\ InOrder(Collect(s, f))
  BY CollectFields, TakeOrder, FlowsTrans, SameOrder

(* Every copy in flight is of an opened buffer and no newer than it; a copy *)
(* of a modified buffer's revision has its text.                            *)
Dated(c, b) ==
  /\ bufs[b].phase # "unopened"
  /\ c.rev <= clock
  /\ bufs[b].phase = "live" => c.rev <= bufs[b].rev
  /\ IsModified(b) /\ c.rev = bufs[b].rev => c.text = bufs[b].text
Sound(s) ==
  \A p \in Paths, b \in Buffers, c \in Copy : Flying(s, p, c) /\ c.id = b => Dated(c, b)

(* Revisions come from the clock. *)
RevsOK == \A b \in Buffers : bufs[b].rev <= clock

(* The copy a pass makes of a buffer is of its revision and text.           *)
LEMMA CopyOfDated ==
  ASSUME BufsOK, RevsOK, NEW b \in Buffers, IsModified(b)
  PROVE  CopyOf(b) \in Copy /\ Dated(CopyOf(b), b)
<1>1. bufs[b] \in Buffer
  BY DEF BufsOK
<1>2. /\ CopyOf(b).id = b /\ CopyOf(b).rev = bufs[b].rev /\ CopyOf(b).text = bufs[b].text
      /\ CopyOf(b) \in Copy
  BY <1>1 DEF CopyOf, Copy, Buffer
<1>3. bufs[b].rev <= bufs[b].rev
  BY <1>1 DEF Buffer
<1>4. bufs[b].phase # "unopened"
  BY DEF IsModified
<1> QED
  BY <1>2, <1>3, <1>4 DEF RevsOK, Dated

(* Nothing but a pass adds copies, and a pass adds sound ones. *)
LEMMA FillsSound ==
  ASSUME BufsOK, RevsOK, NEW s, NEW t, Sound(s), Fills(s, t)
  PROVE  Sound(t)
<1> SUFFICES ASSUME NEW p \in Paths, NEW b \in Buffers, NEW c \in Copy,
                    Flying(t, p, c), c.id = b
             PROVE  Dated(c, b)
  BY DEF Sound
<1>1. CASE c = NoCopy
  BY <1>1, BuffersAssumption DEF NoCopy, NoBuffer
<1>2. CASE Flying(s, p, c)
  BY <1>2 DEF Sound
<1>3. ASSUME NEW a \in Buffers, IsModified(a), c = CopyOf(a)
      PROVE  Dated(c, b)
  <2>1. a = b
    BY <1>3 DEF CopyOf
  <2> QED
    BY <1>3, <2>1, CopyOfDated
<1> QED
  BY <1>1, <1>2, <1>3 DEF Fills

(* At each key a pass leaves what it finds or puts a copy of a modified     *)
(* buffer that visits the key.                                              *)
LEMMA CopiedAt ==
  ASSUME NEW c, NEW done, NEW p \in Paths
  PROVE  \/ Copied(c, done)[p] = c[p] /\ \A b \in done : bufs[b].path # p
         \/ \E b \in done : bufs[b].path = p /\ Copied(c, done)[p] = CopyOf(b)
<1>1. CASE \E b \in done : bufs[b].path = p
  <2>1. PICK b \in done : bufs[b].path = p /\ b = CHOOSE a \in done : bufs[a].path = p
    BY <1>1
  <2> QED
    BY <1>1, <2>1 DEF Copied
<1>2. CASE ~\E b \in done : bufs[b].path = p
  BY <1>2 DEF Copied
<1> QED
  BY <1>1, <1>2

(* A buffer that a pass writes is modified. *)
LEMMA WrittenModified ==
  ASSUME NEW s, NEW f
  PROVE  \A b \in Written(s, f) : b \in Buffers /\ IsModified(b)
  BY DEF Written, Writes, Wanting

(* A staged copy is no older than what flies at its key. *)
LEMMA CopyOfNewest ==
  ASSUME NEW s, Sound(s), NEW b \in Buffers, IsModified(b),
         NEW p \in Paths, NEW c \in Copy, Flying(s, p, c)
  PROVE  AtLeast(CopyOf(b), c)
<1>1. CASE c.id = b
  BY <1>1 DEF Sound, Dated, IsModified, AtLeast, CopyOf, Copy
<1>2. CASE c.id # b
  BY <1>2 DEF AtLeast, CopyOf
<1> QED
  BY <1>1, <1>2

(* A staging pass fills and stays in order. *)
LEMMA StageOrder ==
  ASSUME NEW s \in Cache, NEW f \in Fault, BufsOK, RevsOK, Sound(s), InOrder(s)
  PROVE  Fills(s, Stage(s, f)) /\ InOrder(Stage(s, f))
<1> DEFINE g == CollectGarbage(s, f)
           t == Stage(s, f)
           done == Written(s, f)
<1>1. CASE ~enabled
  BY <1>1, FlowsTrans DEF Stage
<1>2. CASE enabled
  <2>1. g \in Cache /\ Flows(s, g) /\ InOrder(g)
    <3>1. Releases(s, g, GarbageKeys(s), f)
      BY GarbageFields DEF Collects
    <3> QED
      BY <3>1, CollectGarbageType, ReleasesOrder
  <2>2. Stages(g, t, done)
    BY <1>2, StageFields
  <2>3. \A b \in done : b \in Buffers /\ IsModified(b)
    BY WrittenModified
  <2> HIDE DEF g, t, done
  <2>4. Sound(g)
    BY <2>1, FillsSound, FlowsTrans
  <2>5. ASSUME NEW p \in Paths
        PROVE  \/ t.staged[p] = g.staged[p]
               \/ \E b \in done : t.staged[p] = CopyOf(b)
    BY <2>2, CopiedAt DEF Stages
  <2>6. Fills(g, t)
    BY <2>2, <2>3, <2>5 DEF Fills, Flying, Stages
  <2>7. Tidy(t)
    BY <2>1, <2>2 DEF InOrder, Tidy, Stages
  <2>8. ASSUME NEW p \in Paths
        PROVE  /\ AtLeast(t.staged[p], t.disk[p])
               /\ p \in t.installer.todo => /\ AtLeast(t.installer.batch[p], t.disk[p])
                                            /\ AtLeast(t.staged[p], t.installer.batch[p])
    <3>1. t.disk = g.disk /\ t.installer = g.installer
      BY <2>2 DEF Stages
    <3>2. CASE t.staged[p] = g.staged[p]
      BY <2>1, <3>1, <3>2 DEF InOrder, Ordered
    <3>3. ASSUME NEW b \in done, t.staged[p] = CopyOf(b)
          PROVE  /\ AtLeast(t.staged[p], t.disk[p])
                 /\ p \in t.installer.todo => /\ AtLeast(t.installer.batch[p], t.disk[p])
                                              /\ AtLeast(t.staged[p], t.installer.batch[p])
      <4>1. g.disk[p] \in Copy /\ g.installer.batch[p] \in Copy
        BY <2>1 DEF Cache, Batch, Installer
      <4>2. Flying(g, p, g.disk[p])
            /\ (p \in g.installer.todo => Flying(g, p, g.installer.batch[p]))
        BY DEF Flying
      <4>3. /\ AtLeast(CopyOf(b), g.disk[p])
            /\ p \in g.installer.todo => AtLeast(CopyOf(b), g.installer.batch[p])
        BY <2>3, <2>4, <4>1, <4>2, CopyOfNewest
      <4> QED
        BY <2>1, <3>1, <3>3, <4>3 DEF InOrder, Ordered
    <3> QED
      BY <2>5, <3>2, <3>3
  <2>9. Ordered(t)
    BY <2>8 DEF Ordered
  <2>10. Fills(s, t)
    BY <2>1, <2>6, FlowsTrans
  <2> QED
    BY <2>7, <2>9, <2>10 DEF InOrder, t
<1> QED
  BY <1>1, <1>2

(* A forced sweep does, too. *)
LEMMA SweepOrder ==
  ASSUME NEW s \in Cache, NEW f \in Fault, BufsOK, InOrder(s)
  PROVE  Fills(s, Sweep(s, f)) /\ InOrder(Sweep(s, f))
<1> DEFINE s0 == Settle(s, f)
           g == CollectGarbage(s0, f)
           t == Sweep(s, f)
           done == Written(s0, f)
<1>1. CASE ~enabled
  BY <1>1, FlowsTrans DEF Sweep
<1>2. CASE enabled
  <2>0. s0 \in Cache /\ Flows(s, s0) /\ InOrder(s0) /\ Settled(s0)
    BY SettleType, SettleOrder
  <2>1. Writing(g, t, done)
    BY <1>2, SweepFields
  <2>2. \A b \in done : b \in Buffers /\ IsModified(b)
    BY WrittenModified
  <2> HIDE DEF s0
  <2>3. g \in Cache /\ Flows(s0, g) /\ InOrder(g) /\ Releases(s0, g, GarbageKeys(s0), f)
    <3>1. Releases(s0, g, GarbageKeys(s0), f)
      BY <2>0, GarbageFields DEF Collects
    <3> QED
      BY <2>0, <3>1, CollectGarbageType, ReleasesOrder
  <2> HIDE DEF g, t, done
  <2>4. ASSUME NEW p \in Paths
        PROVE  \/ t.disk[p] = g.disk[p]
               \/ \E b \in done : t.disk[p] = CopyOf(b)
    BY <2>1, CopiedAt DEF Writing
  <2>5. Fills(g, t)
    BY <2>1, <2>2, <2>4 DEF Fills, Flying, Writing
  <2>6. Tidy(t)
    BY <2>1, <2>3 DEF InOrder, Tidy, Writing
  <2>7. \A p \in Paths : t.staged[p] = NoCopy
    BY <2>0, <2>1, <2>3, NoInstallerFacts DEF Writing, Releases, Removed, Settled
  <2>8. t.installer.todo = {}
    BY <2>0, <2>1, <2>3, NoInstallerFacts DEF Writing, Releases, Settled
  <2>9. Ordered(t)
    BY <2>7, <2>8, AtLeastNone DEF Ordered
  <2>10. Fills(s, t)
    BY <2>0, <2>3, <2>5, FlowsTrans
  <2> QED
    BY <2>6, <2>9, <2>10 DEF InOrder, t
<1> QED
  BY <1>1, <1>2

(* The keys discard_buffer releases. *)
OwnedKeys(s, b, current) ==
  {p \in Paths : p \in current \cup {s.written[b].hash} /\ s.owner[p] = b}

(* discard_buffer releases them and forgets the buffer's entry. *)
LEMMA DiscardBufferFields ==
  ASSUME NEW s \in Cache, NEW b \in Buffers, NEW current, NEW f \in Fault
  PROVE  /\ Releases(s, DiscardBuffer(s, b, current, f), OwnedKeys(s, b, current), f)
         /\ \A c \in Buffers : DiscardBuffer(s, b, current, f).written[c]
                                 = IF c = b THEN Unwritten ELSE s.written[c]
<1> DEFINE keys == OwnedKeys(s, b, current)
           r == Release(s, keys, f)
           t == DiscardBuffer(s, b, current, f)
<1>1. keys \in SUBSET Paths
  BY DEF OwnedKeys
<1>2. t = [r EXCEPT !.written[b] = Unwritten]
  BY DEF DiscardBuffer, OwnedKeys
<1> HIDE DEF keys
<1>3. r \in Cache /\ Releases(s, r, keys, f) /\ r.written = s.written
  BY <1>1, ReleaseType, ReleaseReleases
<1> HIDE DEF r, t
<1>4. Releases(s, t, keys, f)
  BY <1>2, <1>3 DEF Releases, Cache
<1>5. \A c \in Buffers : t.written[c] = IF c = b THEN Unwritten ELSE s.written[c]
  BY <1>2, <1>3 DEF Cache
<1> QED
  BY <1>4, <1>5 DEF t, keys

(* discard_path releases the key and forgets every entry for it. *)
LEMMA DiscardPathFields ==
  ASSUME NEW s \in Cache, NEW p \in Paths, NEW f \in Fault
  PROVE  /\ Releases(s, DiscardPath(s, p, f), {p}, f)
         /\ \A c \in Buffers : DiscardPath(s, p, f).written[c]
                                 = IF s.written[c].hash = p THEN Unwritten ELSE s.written[c]
<1> DEFINE r == Release(s, {p}, f)
           w == [b \in Buffers |-> IF s.written[b].hash = p THEN Unwritten ELSE s.written[b]]
           t == DiscardPath(s, p, f)
<1>1. t = [r EXCEPT !.written = w]
  BY DEF DiscardPath
<1>2. r \in Cache /\ Releases(s, r, {p}, f)
  BY ReleaseType, ReleaseReleases
<1> HIDE DEF r, t, w
<1>3. Releases(s, t, {p}, f) /\ t.written = w
  BY <1>1, <1>2 DEF Releases, Cache
<1> QED
  BY <1>3 DEF t, w

(* t is s with b's claim of the copy at p. *)
Adopts(s, t, b, p, rev) ==
  /\ t.owner = [s.owner EXCEPT ![p] = b]
  /\ t.staged = s.staged /\ t.installer = s.installer /\ t.retiring = s.retiring
  /\ t.disk = [s.disk EXCEPT ![p] = [id |-> b, rev |-> rev, text |-> s.disk[p].text]]
  /\ t.written = [c \in Buffers |-> IF c = b THEN [hash |-> p, rev |-> rev]
                                    ELSE IF s.written[c].hash = p THEN Unwritten
                                    ELSE s.written[c]]

(* adopt makes it. *)
LEMMA AdoptFields ==
  ASSUME NEW s \in Cache, NEW b \in Buffers, NEW p \in Paths, NEW rev \in Nat
  PROVE  Adopts(s, Adopt(s, b, p, rev), b, p, rev)
  BY DEF Adopt, Adopts, Cache

-----------------------------------------------------------------------------
(* What a step may do to a buffer: it is never unopened again, and while it *)
(* is live its revision and text change together, by the clock, if at all.  *)
Moves(b) ==
  bufs[b].phase # "unopened" =>
    /\ bufs'[b].phase # "unopened"
    /\ bufs'[b].phase = "live" =>
         /\ bufs[b].phase = "live"
         /\ \/ clock' > clock /\ bufs'[b].rev = clock'
            \/ /\ bufs'[b].rev = bufs[b].rev /\ bufs'[b].text = bufs[b].text
               /\ bufs'[b].modified => bufs[b].modified

(* A copy stays dated as its buffer moves. *)
LEMMA DatedMoves ==
  ASSUME TypeOK, TypeOK', clock <= clock', NEW b \in Buffers, Moves(b),
         NEW c \in Copy, Dated(c, b)
  PROVE  Dated(c, b)'
<1>1. clock \in Nat /\ clock' \in Nat /\ c.rev \in Nat
  BY ClockAssumption DEF TypeOK, Copy
<1>2. c.rev <= clock'
  BY <1>1 DEF Dated
<1>3. bufs'[b].phase # "unopened"
  BY DEF Dated, Moves
<1>4. ASSUME bufs'[b].phase = "live"
      PROVE  /\ c.rev <= bufs'[b].rev
             /\ bufs'[b].modified /\ c.rev = bufs'[b].rev => c.text = bufs'[b].text
  <2>1. CASE clock' > clock /\ bufs'[b].rev = clock'
    BY <2>1, <1>1 DEF Dated
  <2>2. CASE /\ bufs[b].phase = "live"
             /\ bufs'[b].rev = bufs[b].rev /\ bufs'[b].text = bufs[b].text
             /\ bufs'[b].modified => bufs[b].modified
    BY <2>2 DEF Dated, IsModified
  <2> QED
    BY <1>4, <2>1, <2>2 DEF Dated, Moves
<1> QED
  BY <1>2, <1>3, <1>4 DEF Dated, IsModified

(* Nothing is added to what flies: it stays sound as the buffers move. *)
LEMMA FlowsSound ==
  ASSUME TypeOK, TypeOK', clock <= clock', Sound(st), Flows(st, st'),
         \A b \in Buffers : Moves(b)
  PROVE  Sound(st)'
<1> SUFFICES ASSUME NEW p \in Paths, NEW b \in Buffers, NEW c \in Copy,
                    Flying(st', p, c), c.id = b
             PROVE  Dated(c, b)'
  BY DEF Sound
<1>1. c # NoCopy
  BY BuffersAssumption DEF NoCopy, NoBuffer
<1>2. Flying(st, p, c)
  BY <1>1 DEF Flows
<1>3. Dated(c, b)
  BY <1>2 DEF Sound
<1> QED
  BY <1>3, DatedMoves

(* What has landed at a key is no older than what was there. *)
LEMMA FillsLanding ==
  ASSUME NEW s \in Cache, NEW t \in Cache, Sound(s), InOrder(s), Fills(s, t)
  PROVE  \A p \in Paths : AtLeast(t.disk[p], s.disk[p])
<1> SUFFICES ASSUME NEW p \in Paths PROVE AtLeast(t.disk[p], s.disk[p])
  OBVIOUS
<1>1. t.disk[p] \in Copy /\ s.disk[p] \in Copy
  BY DEF Cache, Batch
<1>2. Flying(t, p, t.disk[p]) /\ Flying(s, p, s.disk[p])
  BY DEF Flying
<1>3. CASE t.disk[p] = NoCopy
  BY <1>3, AtLeastNone
<1>4. CASE Flying(s, p, t.disk[p])
  BY <1>1, <1>4, AtLeastNone DEF Flying, InOrder, Ordered
<1>5. ASSUME NEW b \in Buffers, IsModified(b), t.disk[p] = CopyOf(b)
      PROVE  AtLeast(t.disk[p], s.disk[p])
  BY <1>1, <1>2, <1>5, CopyOfNewest
<1> QED
  BY <1>1, <1>2, <1>3, <1>4, <1>5 DEF Fills

(* A new session has no copies of its own. *)
LEMMA FreshOrder ==
  ASSUME NEW d \in Batch, NEW s, s = FreshCache(d),
         \A p \in Paths : d[p].id = NoBuffer
  PROVE  /\ InOrder(s)
         /\ \A p \in Paths, c \in Copy : Flying(s, p, c) => c.id = NoBuffer
<1>1. /\ s.staged = NoCopies /\ s.installer = NoInstaller /\ s.retiring = {} /\ s.disk = d
  BY DEF FreshCache
<1>2. Tidy(s)
  BY <1>1, NoInstallerFacts DEF Tidy
<1>3. Ordered(s)
  BY <1>1, NoInstallerFacts, AtLeastNone DEF Ordered
<1>4. \A p \in Paths, c \in Copy : Flying(s, p, c) => c.id = NoBuffer
  BY <1>1, NoInstallerFacts DEF Flying, NoCopy
<1> QED
  BY <1>2, <1>3, <1>4 DEF InOrder

OrderInv == TypeOK /\ RevsOK /\ Sound(st) /\ InOrder(st)

(* Nothing a step puts at a key is older than the copy it replaces, the     *)
(* body of NoStaleLanding.                                                  *)
Landing == \A p \in Paths : AtLeast(st'.disk[p], st.disk[p])

(* The initial states are in order: there is nothing but crash data.        *)
LEMMA OrderInit == Init => OrderInv
<1> SUFFICES ASSUME Init PROVE OrderInv
  OBVIOUS
<1>1. PICK ps \in SUBSET Paths :
        st = FreshCache([p \in Paths |-> IF p \in ps THEN [NoCopy EXCEPT !.text = 1]
                                                     ELSE NoCopy])
  BY DEF Init
<1> DEFINE d == [p \in Paths |-> IF p \in ps THEN [NoCopy EXCEPT !.text = 1] ELSE NoCopy]
<1>2. d \in Batch /\ \A p \in Paths : d[p].id = NoBuffer
  BY EmptyTypes DEF Batch, Copy, NoCopy
<1> HIDE DEF d
<1>3. InOrder(st) /\ \A p \in Paths, c \in Copy : Flying(st, p, c) => c.id = NoBuffer
  BY <1>1, <1>2, FreshOrder DEF d
<1>4. Sound(st)
  BY <1>3, BuffersAssumption DEF Sound, NoBuffer
<1>5. RevsOK
  BY DEF Init, Unopened, RevsOK
<1> QED
  BY <1>3, <1>4, <1>5, TypeInit DEF OrderInv

(* A step of the user or the installer that adds no copy. *)
LEMMA FlowsStep ==
  ASSUME OrderInv, TypeOK', RevsOK', clock <= clock', \A b \in Buffers : Moves(b),
         Flows(st, st'), InOrder(st')
  PROVE  OrderInv' /\ Landing
<1>1. Sound(st)'
  BY FlowsSound DEF OrderInv
<1>2. Landing
  BY FlowsTrans, FillsLanding DEF OrderInv, TypeOK, Landing
<1> QED
  BY <1>1, <1>2 DEF OrderInv

(* A pass: the buffers stay as they are. *)
LEMMA FillsStep ==
  ASSUME OrderInv, TypeOK', UNCHANGED <<bufs, clock>>, Fills(st, st'), InOrder(st')
  PROVE  OrderInv' /\ Landing
<1>1. Sound(st')
  BY FillsSound DEF OrderInv, TypeOK, BufsOK
<1>2. Sound(st)' /\ RevsOK'
  BY <1>1 DEF Sound, Dated, IsModified, OrderInv, RevsOK
<1>3. Landing
  BY FillsLanding DEF OrderInv, TypeOK, Landing
<1> QED
  BY <1>2, <1>3 DEF OrderInv

(* The installer thread installs one copy, in place of what it may replace. *)
LEMMA InstallOneOrder ==
  ASSUME OrderInv, TypeOK', NEW p \in Paths, InstallOne(p)
  PROVE  Flows(st, st') /\ InOrder(st')
<1>1. PICK f \in Weather :
        st' = [st EXCEPT !.installer = [st.installer EXCEPT
                                          !.todo = st.installer.todo \ {p},
                                          !.failed = st.installer.failed
                                                       \cup ({p} \cap f.install)],
                         !.disk = Landed(@, st.installer.batch, {p} \ f.install)]
  BY DEF InstallOne
<1>2. st \in Cache /\ st.installer \in Installer
  BY DEF OrderInv, TypeOK, Cache
<1>3. /\ st'.staged = st.staged /\ st'.retiring = st.retiring
      /\ st'.disk = Landed(st.disk, st.installer.batch, {p} \ f.install)
      /\ st'.installer = [st.installer EXCEPT
                            !.todo = st.installer.todo \ {p},
                            !.failed = st.installer.failed \cup ({p} \cap f.install)]
  BY <1>1, <1>2 DEF Cache
<1>4. /\ st'.installer.phase = "running" /\ st'.installer.batch = st.installer.batch
      /\ st'.installer.todo = st.installer.todo \ {p}
  BY <1>2, <1>3 DEF Installer, InstallOne
<1>5. p \in st.installer.todo
  BY DEF InstallOne
<1>6. \A q \in Paths : \/ st'.disk[q] = st.disk[q]
                       \/ q = p /\ st'.disk[q] = st.installer.batch[q]
  BY <1>3 DEF Landed
<1>7. Flows(st, st')
  BY <1>3, <1>4, <1>5, <1>6 DEF Flows, Flying
<1>8. Tidy(st')
  BY <1>3, <1>4 DEF OrderInv, InOrder, Tidy
<1>9. Ordered(st')
  BY <1>3, <1>4, <1>5, <1>6 DEF OrderInv, InOrder, Ordered
<1> QED
  BY <1>7, <1>8, <1>9 DEF InOrder

(* The installer ends, or panics, with nothing left to install. *)
LEMMA InstallerEndsOrder ==
  ASSUME OrderInv, InstallerExit \/ InstallerPanic
  PROVE  Flows(st, st') /\ InOrder(st')
<1>1. st \in Cache /\ st.installer \in Installer
  BY DEF OrderInv, TypeOK, Cache
<1>2. /\ st'.staged = st.staged /\ st'.retiring = st.retiring /\ st'.disk = st.disk
      /\ st'.installer.phase # "none" /\ st'.installer.batch = st.installer.batch
      /\ st'.installer.todo = {}
  <2>1. CASE InstallerExit
    <3>1. st' = [st EXCEPT !.installer = [st.installer EXCEPT !.phase = "done"]]
      BY <2>1 DEF InstallerExit
    <3> QED
      BY <2>1, <3>1, <1>1 DEF InstallerExit, Cache, Installer
  <2>2. CASE InstallerPanic
    <3>1. st' = [st EXCEPT !.installer = [st.installer EXCEPT !.phase = "panicked",
                                                              !.todo = {}]]
      BY <2>2 DEF InstallerPanic
    <3> QED
      BY <3>1, <1>1 DEF Cache, Installer
  <2> QED
    BY <2>1, <2>2
<1> QED
  BY <1>2 DEF OrderInv, InOrder, Tidy, Ordered, Flows, Flying

(* A recovery: settled, the buffer and the copy at its key become one.      *)
LEMMA RecoverOrder ==
  ASSUME OrderInv, TypeOK', NEW f \in Fault, NEW b \in Buffers, NEW p \in Paths,
         NEW s, s = SettleQuietly(st, f),
         bufs[b].phase = "live", clock' = clock + 1,
         bufs' = [bufs EXCEPT ![b] = [@ EXCEPT !.rev = clock', !.text = s.disk[p].text,
                                               !.modified = TRUE]],
         st' = Adopt(s, b, p, clock')
  PROVE  OrderInv' /\ Landing
<1>1. st \in Cache /\ InOrder(st) /\ clock \in Nat /\ clock' \in Nat /\ clock <= clock'
  BY ClockAssumption DEF OrderInv, TypeOK
<1>2. s \in Cache /\ Flows(st, s) /\ InOrder(s) /\ Settled(s)
  BY <1>1, SettleType, SettleOrder
<1>3. Adopts(s, st', b, p, clock')
  BY <1>1, <1>2, AdoptFields
<1>4. s.disk \in Batch /\ DOMAIN s.disk = Paths
  BY <1>2 DEF Cache, Batch
<1>5. /\ bufs'[b].phase = "live" /\ bufs'[b].rev = clock'
      /\ bufs'[b].text = s.disk[p].text
      /\ \A a \in Buffers \ {b} : bufs'[a] = bufs[a]
  BY DEF OrderInv, TypeOK, Buffer
<1>6. \A a \in Buffers : Moves(a)
  BY <1>1, <1>5 DEF Moves
<1>7. \A q \in Paths : st'.disk[q] = IF q = p THEN [id |-> b, rev |-> clock',
                                                     text |-> s.disk[p].text]
                                     ELSE s.disk[q]
  BY <1>3, <1>4 DEF Adopts
<1>8. /\ st'.staged = NoCopies /\ st'.installer = NoInstaller /\ st'.retiring = {}
  BY <1>2, <1>3 DEF Adopts, Settled
<1>9. InOrder(st')
  BY <1>8, NoInstallerFacts, AtLeastNone DEF InOrder, Tidy, Ordered
<1>10. Sound(st)'
  <2> SUFFICES ASSUME NEW q \in Paths, NEW a \in Buffers, NEW c \in Copy,
                      Flying(st', q, c), c.id = a
               PROVE  Dated(c, a)'
    BY DEF Sound
  <2>1. c # NoCopy
    BY BuffersAssumption DEF NoCopy, NoBuffer
  <2>2. c = st'.disk[q]
    BY <1>8, <2>1, NoInstallerFacts DEF Flying
  <2>3. CASE q = p
    <3>1. a = b /\ c.rev = clock' /\ c.text = s.disk[p].text
      BY <1>7, <2>2, <2>3
    <3>2. clock' <= clock'
      BY <1>1
    <3> QED
      BY <1>5, <3>1, <3>2 DEF Dated
  <2>4. CASE q # p
    <3>1. Flying(s, q, c)
      BY <1>7, <2>2, <2>4 DEF Flying
    <3>2. Dated(c, a)
      BY <1>2, <2>1, <3>1 DEF Flows, OrderInv, Sound
    <3> QED
      BY <1>1, <1>6, <3>2, DatedMoves DEF OrderInv
  <2> QED
    BY <2>3, <2>4
<1>11. RevsOK'
  <2>1. \A a \in Buffers : bufs[a].rev \in Nat /\ bufs[a].rev <= clock
    BY DEF OrderInv, TypeOK, Buffer, RevsOK
  <2> QED
    BY <1>1, <1>5, <2>1 DEF RevsOK
<1>12. Landing
  <2> SUFFICES ASSUME NEW q \in Paths PROVE AtLeast(st'.disk[q], st.disk[q])
    BY DEF Landing
  <2>1. CASE q = p
    <3>1. st.disk[p] \in Copy /\ Flying(st, p, st.disk[p])
      BY <1>1 DEF Cache, Batch, Flying
    <3>2. st.disk[p].id = b => st.disk[p].rev <= clock /\ st.disk[p].rev \in Nat
      BY <3>1 DEF OrderInv, Sound, Dated, Copy
    <3>3. st'.disk[p].id = b /\ st'.disk[p].rev = clock + 1
      BY <1>7
    <3> QED
      BY <1>1, <2>1, <3>2, <3>3 DEF AtLeast
  <2>2. CASE q # p
    <3>1. \A r \in Paths : AtLeast(s.disk[r], st.disk[r])
      BY <1>1, <1>2, FlowsTrans, FillsLanding DEF OrderInv
    <3> QED
      BY <1>7, <2>2, <3>1
  <2> QED
    BY <2>1, <2>2
<1> QED
  BY <1>9, <1>10, <1>11, <1>12 DEF OrderInv

(* Every step keeps the copies in order, and lands none over a newer one.   *)
LEMMA OrderStep == OrderInv /\ [Next]_vars => OrderInv' /\ (UNCHANGED vars \/ Landing)
<1> SUFFICES ASSUME OrderInv, [Next]_vars
             PROVE  OrderInv' /\ (UNCHANGED vars \/ Landing)
  OBVIOUS
<1>a. BufsOK /\ st \in Cache /\ InOrder(st) /\ Sound(st) /\ RevsOK /\ clock \in Nat
  BY ClockAssumption DEF OrderInv, TypeOK, BufsOK
<1>b. TypeOK'
  BY TypeStep DEF OrderInv
<1>c. \A f \in Weather : f \in Fault
  BY WeatherType
<1>d. ASSUME UNCHANGED <<bufs, clock>>, Flows(st, st'), InOrder(st')
      PROVE  OrderInv' /\ Landing
  BY <1>b, <1>d, FlowsTrans, FillsStep
<1>e. \A b \in Buffers : bufs[b].rev \in Nat /\ bufs[b].rev <= clock
  BY <1>a DEF BufsOK, Buffer, RevsOK
<1>1. ASSUME NEW b \in Buffers, NEW p \in Paths, NEW loaded \in BOOLEAN, Open(b, p, loaded)
      PROVE  OrderInv' /\ Landing
  <2>1. bufs'[b].rev = 0 /\ \A a \in Buffers \ {b} : bufs'[a] = bufs[a]
    BY <1>1, <1>a DEF Open, Unopened, BufsOK
  <2>2. \A a \in Buffers : Moves(a)
    BY <1>1, <2>1 DEF Open, Moves
  <2>3. clock' = clock /\ st' = st
    BY <1>1 DEF Open
  <2>4. RevsOK'
    BY <1>a, <1>e, <2>1, <2>3 DEF RevsOK
  <2> QED
    BY <1>a, <1>b, <2>2, <2>3, <2>4, FlowsTrans, FlowsStep
<1>2. ASSUME NEW b \in Buffers, NEW modified \in BOOLEAN, Edit(b, modified)
      PROVE  OrderInv' /\ Landing
  <2>1. clock' = clock + 1 /\ st' = st /\ bufs[b].phase = "live"
    BY <1>2 DEF Edit
  <2>2. /\ bufs'[b].rev = clock' /\ bufs'[b].phase = "live"
        /\ \A a \in Buffers \ {b} : bufs'[a] = bufs[a]
    BY <1>2, <1>a DEF Edit, BufsOK, Buffer
  <2>3. \A a \in Buffers : Moves(a)
    BY <1>a, <2>1, <2>2 DEF Moves
  <2>4. RevsOK'
    BY <1>a, <1>e, <2>1, <2>2 DEF RevsOK
  <2> QED
    BY <1>a, <1>b, <2>1, <2>3, <2>4, FlowsTrans, FlowsStep
<1>3. ASSUME NEW b \in Buffers, NEW p \in Paths, Rename(b, p)
      PROVE  OrderInv' /\ Landing
  <2>1. \A a \in Buffers : /\ bufs'[a].phase = bufs[a].phase /\ bufs'[a].rev = bufs[a].rev
                           /\ bufs'[a].text = bufs[a].text
                           /\ bufs'[a].modified = bufs[a].modified
    BY <1>3, <1>a DEF Rename, BufsOK, Buffer
  <2>2. clock' = clock /\ st' = st
    BY <1>3 DEF Rename
  <2>3. (\A a \in Buffers : Moves(a)) /\ RevsOK'
    BY <1>e, <2>1, <2>2 DEF Moves, RevsOK
  <2> QED
    BY <1>a, <1>b, <2>2, <2>3, FlowsTrans, FlowsStep
<1>4. ASSUME NEW b \in Buffers, Save(b)
      PROVE  OrderInv' /\ Landing
  <2>1. PICK f \in Weather : st' = DiscardBuffer(st, b, {bufs[b].path}, f)
    BY <1>4 DEF Save
  <2>2. Flows(st, st') /\ InOrder(st')
    BY <1>a, <1>c, <2>1, DiscardBufferFields, ReleasesOrder
  <2>3. \A a \in Buffers : /\ bufs'[a].phase = bufs[a].phase /\ bufs'[a].rev = bufs[a].rev
                           /\ bufs'[a].text = bufs[a].text
                           /\ bufs'[a].modified => bufs[a].modified
    BY <1>4, <1>a DEF Save, BufsOK, Buffer
  <2>4. clock' = clock
    BY <1>4 DEF Save
  <2>5. (\A a \in Buffers : Moves(a)) /\ RevsOK'
    BY <1>e, <2>3, <2>4 DEF Moves, RevsOK
  <2> QED
    BY <1>a, <1>b, <2>2, <2>4, <2>5, FlowsStep
<1>5. ASSUME NEW b \in Buffers, Kill(b)
      PROVE  OrderInv' /\ Landing
  <2>1. Flows(st, st') /\ InOrder(st')
    <3>1. CASE st' = st
      BY <1>a, <3>1, FlowsTrans
    <3>2. CASE \E f \in Weather : st' = DiscardBuffer(st, b, {}, f)
      BY <1>a, <1>c, <3>2, DiscardBufferFields, ReleasesOrder
    <3> QED
      BY <1>5, <3>1, <3>2 DEF Kill
  <2>2. /\ bufs'[b].phase = "dead" /\ bufs'[b].rev = 0
        /\ \A a \in Buffers \ {b} : bufs'[a] = bufs[a]
    BY <1>5, <1>a DEF Kill, BufsOK, Unopened
  <2>3. clock' = clock
    BY <1>5 DEF Kill
  <2>4. (\A a \in Buffers : Moves(a)) /\ RevsOK'
    BY <1>a, <1>e, <2>2, <2>3 DEF Moves, RevsOK
  <2> QED
    BY <1>a, <1>b, <2>1, <2>3, <2>4, FlowsStep
<1>6. ASSUME NEW b \in Buffers, RecoverAsk(b)
      PROVE  OrderInv' /\ Landing
  BY <1>6, <1>a, <1>c, <1>d, SettleOrder DEF RecoverAsk
<1>7. ASSUME RecoverYes
      PROVE  OrderInv' /\ Landing
  <2>1. CASE UNCHANGED <<st, bufs, clock>>
    BY <2>1, <1>a, <1>d, FlowsTrans
  <2>2. CASE \E f \in Weather : st' = SettleQuietly(st, f) /\ UNCHANGED <<bufs, clock>>
    BY <2>2, <1>a, <1>c, <1>d, SettleOrder
  <2>3. ASSUME NEW f \in Weather, bufs[prompt.buf].phase = "live", clock' = clock + 1,
               bufs' = [bufs EXCEPT ![prompt.buf] =
                          [@ EXCEPT !.rev = clock',
                                    !.text = SettleQuietly(st, f).disk[prompt.path].text,
                                    !.modified = TRUE]],
               st' = Adopt(SettleQuietly(st, f), prompt.buf, prompt.path, clock')
        PROVE  OrderInv' /\ Landing
    <3>1. prompt.buf \in Buffers /\ prompt.path \in Paths
      BY <1>7 DEF RecoverYes, OrderInv, TypeOK
    <3> QED
      BY <1>b, <1>c, <2>3, <3>1, RecoverOrder
  <2> QED
    BY <1>7, <2>1, <2>2, <2>3 DEF RecoverYes
<1>8. ASSUME NEW b \in Buffers, DiscardRecovery(b)
      PROVE  OrderInv' /\ Landing
  <2>1. bufs[b].path \in Paths
    BY <1>8, <1>a DEF DiscardRecovery, BufsOK
  <2>2. PICK f \in Weather : st' = DiscardPath(st, bufs[b].path, f)
    BY <1>8 DEF DiscardRecovery
  <2>3. Releases(st, st', {bufs[b].path}, f)
    BY <1>a, <1>c, <2>1, <2>2, DiscardPathFields
  <2>4. Flows(st, st') /\ InOrder(st')
    BY <1>a, <2>3, ReleasesOrder
  <2> QED
    BY <1>8, <1>d, <2>4 DEF DiscardRecovery
<1>9. ASSUME ForceSweep
      PROVE  OrderInv' /\ Landing
  BY <1>9, <1>a, <1>b, <1>c, SweepOrder, FillsStep DEF ForceSweep
<1>10. ASSUME Tick
       PROVE  OrderInv' /\ Landing
  <2>1. PICK f \in Weather : Tick!(f)
    BY <1>10 DEF Tick
  <2> DEFINE s1 == Collect(st, f)
             held == IF hold = 0 THEN 0 ELSE hold - 1
             s2 == IF held = 0 THEN BeginInstall(s1, f) ELSE s1
             s3 == Stage(s2, f)
             s4 == BeginInstall(s3, f)
  <2>2. f \in Fault
    BY <1>c
  <2>3. s1 \in Cache /\ Flows(st, s1) /\ InOrder(s1)
    BY <1>a, <2>2, CollectType, CollectOrder
  <2>4. s2 \in Cache /\ Flows(st, s2) /\ InOrder(s2)
    BY <2>2, <2>3, BeginInstallType, BeginInstallOrder, FlowsTrans
  <2>5. Sound(s2)
    BY <1>a, <2>4, FlowsTrans, FillsSound
  <2>6. s3 \in Cache /\ Fills(st, s3) /\ InOrder(s3)
    <3> HIDE DEF s2
    <3>1. s3 \in Cache
      BY <1>a, <2>2, <2>4, StageType
    <3>2. Fills(s2, s3) /\ InOrder(s3)
      BY <1>a, <2>2, <2>4, <2>5, StageOrder
    <3> QED
      BY <2>4, <3>1, <3>2, FlowsTrans
  <2>7. Fills(st, s4) /\ InOrder(s4)
    BY <2>2, <2>6, BeginInstallOrder, FlowsTrans
  <2>8. st' \in {s2, s4} /\ UNCHANGED <<bufs, clock>>
    BY <2>1
  <2> HIDE DEF s2, s4
  <2> QED
    BY <1>b, <1>d, <2>4, <2>7, <2>8, FillsStep
<1>11. ASSUME BeforeQuit
       PROVE  OrderInv' /\ Landing
  <2>1. PICK f \in Weather : st' = Stage(Collect(st, f), f)
    BY <1>11 DEF BeforeQuit
  <2> DEFINE s1 == Collect(st, f)
  <2>2. s1 \in Cache /\ Flows(st, s1) /\ InOrder(s1)
    BY <1>a, <1>c, CollectType, CollectOrder
  <2>3. st' = Stage(s1, f)
    BY <2>1
  <2> HIDE DEF s1
  <2>4. Sound(s1)
    BY <1>a, <2>2, FlowsTrans, FillsSound
  <2>5. Fills(st, st') /\ InOrder(st')
    BY <1>a, <1>c, <2>2, <2>3, <2>4, StageOrder, FlowsTrans
  <2> QED
    BY <1>11, <1>b, <2>5, FillsStep DEF BeforeQuit
<1>12. ASSUME NEW d \in Batch, Restart(d)
       PROVE  OrderInv' /\ Landing
  <2>1. Left(d) \in Batch /\ \A p \in Paths : Left(d)[p].id = NoBuffer
    BY FreshCacheType DEF Left, NoCopy
  <2>2. st' = FreshCache(Left(d)) /\ clock' = clock
    BY <1>12 DEF Restart
  <2>3. InOrder(st') /\ \A p \in Paths, c \in Copy : Flying(st', p, c) => c.id = NoBuffer
    BY <2>1, <2>2, FreshOrder
  <2>4. Sound(st)'
    BY <2>3, BuffersAssumption DEF Sound, NoBuffer
  <2>5. RevsOK'
    BY <1>12, <1>a, <2>2 DEF Restart, Unopened, RevsOK
  <2>6. Landing
    <3>1. \A p \in Paths : st'.disk[p].id = NoBuffer
      BY <2>1, <2>2 DEF FreshCache
    <3> QED
      BY <3>1 DEF Landing, AtLeast
  <2> QED
    BY <1>b, <2>3, <2>4, <2>5, <2>6 DEF OrderInv
<1>13. ASSUME Exit
       PROVE  OrderInv' /\ Landing
  <2>1. PICK f \in Weather : Restart(SettleQuietly(st, f).disk)
    BY <1>13 DEF Exit
  <2>2. SettleQuietly(st, f).disk \in Batch
    BY <1>a, <1>c, SettleType DEF Cache
  <2> QED
    BY <2>1, <2>2, <1>12
<1>14. ASSUME Crash
       PROVE  OrderInv' /\ Landing
  BY <1>14, <1>12, <1>a DEF Crash, Cache
<1>15. ASSUME NEW p \in Paths, InstallOne(p)
       PROVE  OrderInv' /\ Landing
  BY <1>15, <1>b, <1>d, InstallOneOrder DEF InstallOne
<1>16. ASSUME InstallerExit \/ InstallerPanic
       PROVE  OrderInv' /\ Landing
  BY <1>16, <1>d, InstallerEndsOrder DEF InstallerExit, InstallerPanic
<1>17. CASE \/ RecoverNo
            \/ \E on \in BOOLEAN : Enable(on)
            \/ CancelQuit
            \/ TimerDue
            \/ Heal
            \/ UNCHANGED vars
  <2>1. UNCHANGED <<st, bufs, clock>>
    BY <1>17 DEF RecoverNo, Enable, CancelQuit, TimerDue, Heal, vars
  <2> QED
    BY <1>a, <1>d, <2>1, FlowsTrans
<1> QED
  BY <1>1, <1>2, <1>3, <1>4, <1>5, <1>6, <1>7, <1>8, <1>9, <1>10, <1>11, <1>13, <1>14,
     <1>15, <1>16, <1>17
  DEF Next, MainThread, InstallerThread

(* docs/invariants.md: no copy lands over a newer one.  Whatever is edited, *)
(* renamed, recovered or staged while a batch installs, and whatever fails, *)
(* a step puts no copy of a buffer at a key that is older than the copy of  *)
(* that buffer it replaces.                                                 *)
THEOREM NothingLandsLate == Spec => NoStaleLanding
<1>1. OrderInv /\ [Next]_vars => OrderInv'
  BY OrderStep
<1>2. OrderInv /\ [Next]_vars =>
        [\A p \in Paths : SessionCopy(st.disk[p]) /\ st'.disk[p].id = st.disk[p].id =>
           st'.disk[p].rev >= st.disk[p].rev]_vars
  BY OrderStep DEF Landing, AtLeast, SessionCopy
<1> QED
  BY OrderInit, <1>1, <1>2, PTL DEF Spec, NoStaleLanding

-----------------------------------------------------------------------------
(* Claims.  The inductive invariant adds to SessionCopiesClaimed what will  *)
(* land: a staged copy is owned, and so is one still to be installed unless *)
(* its removal waits.                                                       *)
Claims(s) ==
  \A p \in Paths :
    /\ s.staged[p] # NoCopy => s.owner[p] # NoBuffer
    /\ SessionCopy(s.disk[p]) \/ p \in s.installer.todo =>
         s.owner[p] # NoBuffer \/ p \in s.retiring

(* Removals do not fail. *)
Removes(f) == f.remove = {}

(* No copy is no copy of this session. *)
LEMMA NoCopyNoSession == ~SessionCopy(NoCopy)
  BY DEF SessionCopy, NoCopy

(* What is released is removed, or waits for the installer. *)
LEMMA ReleasesClaims ==
  ASSUME NEW s \in Cache, NEW ps, NEW f, NEW t, Releases(s, t, ps, f), Removes(f),
         InOrder(s), Claims(s)
  PROVE  Claims(t)
<1> SUFFICES ASSUME NEW p \in Paths
             PROVE  /\ t.staged[p] # NoCopy => t.owner[p] # NoBuffer
                    /\ SessionCopy(t.disk[p]) \/ p \in t.installer.todo =>
                         t.owner[p] # NoBuffer \/ p \in t.retiring
  BY DEF Claims
<1>1. CASE p \in ps
  <2>1. t.staged[p] = NoCopy
    BY <1>1 DEF Releases, Removed
  <2>2. CASE p \in Keys(s.installer.batch)
    BY <1>1, <2>1, <2>2 DEF Releases
  <2>3. CASE p \notin Keys(s.installer.batch)
    <3>1. t.disk[p] = NoCopy
      BY <1>1, <2>3 DEF Releases, Removed, Removes
    <3>2. p \notin t.installer.todo
      BY <2>3 DEF Releases, InOrder, Tidy
    <3> QED
      BY <2>1, <3>1, <3>2, NoCopyNoSession
  <2> QED
    BY <2>2, <2>3
<1>2. CASE p \notin ps
  <2>1. /\ t.staged[p] = s.staged[p] /\ t.owner[p] = s.owner[p]
        /\ t.installer = s.installer /\ (p \in s.retiring => p \in t.retiring)
        /\ t.disk[p] = s.disk[p]
    BY <1>2 DEF Releases, Removed
  <2> QED
    BY <2>1 DEF Claims
<1> QED
  BY <1>1, <1>2

(* What is taken is claimed, or removed with what was held back. *)
LEMMA TakesClaims ==
  ASSUME NEW s, NEW t, NEW f, Takes(s, t, f), Removes(f), Claims(s)
  PROVE  Claims(t)
<1> SUFFICES ASSUME NEW p \in Paths
             PROVE  /\ t.staged[p] # NoCopy => t.owner[p] # NoBuffer
                    /\ SessionCopy(t.disk[p]) \/ p \in t.installer.todo =>
                         t.owner[p] # NoBuffer \/ p \in t.retiring
  BY DEF Claims
<1>1. /\ t.owner = s.owner /\ t.staged = s.staged /\ t.installer = NoInstaller
      /\ t.disk = Removed(Landed(s.disk, s.installer.batch, s.installer.todo \ f.install),
                          s.retiring \ f.remove)
  BY DEF Takes
<1>2. p \in s.retiring => t.disk[p] = NoCopy
  BY <1>1 DEF Removed, Removes
<1>3. t.disk[p] = s.disk[p] \/ t.disk[p] = NoCopy \/ p \in s.installer.todo
  BY <1>1 DEF Removed, Landed
<1> QED
  BY <1>1, <1>2, <1>3, NoCopyNoSession, NoInstallerFacts DEF Claims

(* What is staged is owned, wherever it goes. *)
LEMMA InstallsClaims ==
  ASSUME NEW s, NEW t, NEW f, Installs(s, t, f), Claims(s)
  PROVE  Claims(t)
<1> SUFFICES ASSUME NEW p \in Paths
             PROVE  /\ t.staged[p] # NoCopy => t.owner[p] # NoBuffer
                    /\ SessionCopy(t.disk[p]) \/ p \in t.installer.todo =>
                         t.owner[p] # NoBuffer \/ p \in t.retiring
  BY DEF Claims
<1>1. /\ t.owner = s.owner /\ t.staged = NoCopies /\ t.installer = s.installer
      /\ t.retiring = s.retiring
      /\ t.disk = Landed(s.disk, s.staged, Keys(s.staged) \ f.install)
  BY DEF Installs
<1>2. t.disk[p] = s.disk[p] \/ s.staged[p] # NoCopy
  BY <1>1 DEF Landed, Keys
<1> QED
  BY <1>1, <1>2, NoInstallerFacts DEF Claims

(* It is all in the copies and their owners. *)
LEMMA SameClaims ==
  ASSUME NEW s, NEW t, SameCopies(s, t), Claims(s)
  PROVE  Claims(t)
  BY DEF SameCopies, Claims

(* settle keeps the claims. *)
LEMMA SettleClaims ==
  ASSUME NEW s \in Cache, NEW f \in Fault, Removes(f), Claims(s)
  PROVE  Claims(SettleQuietly(s, f)) /\ Claims(Settle(s, f))
<1> DEFINE u == IF s.installer.phase = "none" THEN s ELSE TakeInstaller(s, f)
           q == SettleQuietly(s, f)
<1>1. q = InstallStaged(u, f)
  BY DEF SettleQuietly
<1>2. u \in Cache /\ Claims(u)
  BY TakeType, TakeFields, TakesClaims
<1> HIDE DEF q, u
<1>3. Claims(q)
  BY <1>1, <1>2, InstallStagedFields, InstallsClaims
<1>4. SameCopies(q, Settle(s, f))
  BY SettleFields DEF q
<1> QED
  BY <1>3, <1>4, SameClaims DEF q

(* begin_install does: what it hands over is owned. *)
LEMMA BeginInstallClaims ==
  ASSUME NEW s \in Cache, NEW f \in Fault, Claims(s)
  PROVE  Claims(BeginInstall(s, f))
<1> DEFINE i == [phase |-> "running", batch |-> s.staged,
                 todo |-> Keys(s.staged), failed |-> {}]
           t == [s EXCEPT !.staged = NoCopies, !.installer = i]
<1>1. /\ t.staged = NoCopies /\ t.installer.todo = Keys(s.staged)
      /\ t.retiring = s.retiring /\ t.disk = s.disk /\ t.owner = s.owner
  BY DEF Cache
<1>2. BeginInstall(s, f) \in {s, InstallStaged(s, f), t}
  BY DEF BeginInstall
<1> HIDE DEF t
<1>3. Claims(t)
  BY <1>1, NoInstallerFacts DEF Claims, Keys
<1>4. Claims(InstallStaged(s, f))
  BY InstallStagedFields, InstallsClaims
<1> QED
  BY <1>2, <1>3, <1>4

(* collect does. *)
LEMMA CollectClaims ==
  ASSUME NEW s \in Cache, NEW f \in Fault, Removes(f), Claims(s)
  PROVE  Claims(Collect(s, f))
  BY CollectFields, TakeFields, TakesClaims, SameClaims

(* At each key a pass leaves the owner it finds or a buffer that visits it. *)
LEMMA ClaimingAt ==
  ASSUME NEW g, NEW t, NEW done, Claiming(g, t, done), NEW p \in Paths
  PROVE  \/ t.owner[p] = g.owner[p] /\ \A b \in done : bufs[b].path # p
         \/ t.owner[p] \in done /\ bufs[t.owner[p]].path = p
<1>1. CASE \E b \in done : bufs[b].path = p
  <2>1. PICK b \in done : bufs[b].path = p /\ b = CHOOSE a \in done : bufs[a].path = p
    BY <1>1
  <2>2. t.owner[p] = b
    BY <1>1, <2>1 DEF Claiming
  <2> QED
    BY <2>1, <2>2
<1>2. CASE ~\E b \in done : bufs[b].path = p
  BY <1>2 DEF Claiming
<1> QED
  BY <1>1, <1>2

(* A pass claims the keys it writes at. *)
LEMMA PassClaims ==
  ASSUME NEW g, NEW t, NEW done \in SUBSET Buffers, Claims(g),
         Stages(g, t, done) \/ Writing(g, t, done)
  PROVE  Claims(t)
<1> SUFFICES ASSUME NEW p \in Paths
             PROVE  /\ t.staged[p] # NoCopy => t.owner[p] # NoBuffer
                    /\ SessionCopy(t.disk[p]) \/ p \in t.installer.todo =>
                         t.owner[p] # NoBuffer \/ p \in t.retiring
  BY DEF Claims
<1>1. t.installer = g.installer /\ t.retiring = g.retiring /\ Claiming(g, t, done)
  BY DEF Stages, Writing
<1>2. NoBuffer \notin done
  BY BuffersAssumption DEF NoBuffer
<1>3. CASE t.owner[p] \in done
  BY <1>2, <1>3
<1>4. CASE t.owner[p] = g.owner[p] /\ \A b \in done : bufs[b].path # p
  <2>1. t.staged[p] = g.staged[p] /\ t.disk[p] = g.disk[p]
    BY <1>4 DEF Stages, Writing, Copied
  <2> QED
    BY <1>1, <1>4, <2>1 DEF Claims
<1> QED
  BY <1>1, <1>3, <1>4, ClaimingAt

(* Staged or forced. *)
LEMMA StageClaims ==
  ASSUME NEW s \in Cache, NEW f \in Fault, BufsOK, Removes(f), InOrder(s), Claims(s)
  PROVE  Claims(Stage(s, f)) /\ Claims(Sweep(s, f))
<1>1. ASSUME enabled, NEW s0 \in Cache, InOrder(s0), Claims(s0)
      PROVE  CollectGarbage(s0, f) \in Cache /\ Claims(CollectGarbage(s0, f))
  <2>1. Releases(s0, CollectGarbage(s0, f), GarbageKeys(s0), f)
    BY <1>1, GarbageFields DEF Collects
  <2> QED
    BY <1>1, <2>1, ReleasesClaims, CollectGarbageType
<1>2. Claims(Stage(s, f))
  <2>1. CASE ~enabled
    BY <2>1 DEF Stage
  <2>2. CASE enabled
    <3>1. Stages(CollectGarbage(s, f), Stage(s, f), Written(s, f))
      BY <2>2, StageFields
    <3>2. Written(s, f) \in SUBSET Buffers
      BY WrittenModified
    <3> QED
      BY <1>1, <2>2, <3>1, <3>2, PassClaims
  <2> QED
    BY <2>1, <2>2
<1>3. Claims(Sweep(s, f))
  <2>1. CASE ~enabled
    BY <2>1 DEF Sweep
  <2>2. CASE enabled
    <3> DEFINE s0 == Settle(s, f)
    <3>1. s0 \in Cache /\ InOrder(s0) /\ Claims(s0)
      BY SettleType, SettleOrder, SettleClaims
    <3>2. Writing(CollectGarbage(s0, f), Sweep(s, f), Written(s0, f))
      BY <2>2, SweepFields
    <3>3. Written(s0, f) \in SUBSET Buffers
      BY WrittenModified
    <3> HIDE DEF s0
    <3> QED
      BY <1>1, <2>2, <3>1, <3>2, <3>3, PassClaims
  <2> QED
    BY <2>1, <2>2
<1> QED
  BY <1>2, <1>3

(* adopt claims the key of the copy it makes this session's. *)
LEMMA AdoptClaims ==
  ASSUME NEW s \in Cache, NEW b \in Buffers, NEW p \in Paths, NEW rev \in Nat, Claims(s)
  PROVE  Claims(Adopt(s, b, p, rev))
<1> DEFINE t == Adopt(s, b, p, rev)
<1>1. Adopts(s, t, b, p, rev)
  BY AdoptFields
<1> HIDE DEF t
<1>2. DOMAIN s.disk = Paths /\ DOMAIN s.owner = Paths /\ b # NoBuffer
  BY BuffersAssumption DEF Cache, Batch, NoBuffer
<1>3. t.owner[p] = b /\ \A q \in Paths \ {p} : t.owner[q] = s.owner[q] /\ t.disk[q] = s.disk[q]
  BY <1>1, <1>2 DEF Adopts
<1>4. Claims(t)
  BY <1>1, <1>2, <1>3 DEF Adopts, Claims
<1> QED
  BY <1>4 DEF t

ClaimInv == OrderInv /\ Claims(st)

(* The initial states have no copies of this session. *)
LEMMA ClaimInit == Init => ClaimInv
<1> SUFFICES ASSUME Init PROVE Claims(st)
  BY OrderInit DEF ClaimInv
<1>1. /\ st.staged = NoCopies /\ st.installer = NoInstaller
      /\ \A p \in Paths : ~SessionCopy(st.disk[p])
  BY DEF Init, FreshCache, SessionCopy, NoCopy
<1> QED
  BY <1>1, NoInstallerFacts DEF Claims

(* Unless a removal fails, every step keeps this session's copies claimed.  *)
LEMMA ClaimStep ==
  ASSUME \A m \in Mixes : "remove" \notin m.faults
  PROVE  ClaimInv /\ [Next]_vars => ClaimInv'
<1> SUFFICES ASSUME ClaimInv, [Next]_vars
             PROVE  Claims(st')
  BY OrderStep DEF ClaimInv
<1>a. BufsOK /\ st \in Cache /\ InOrder(st) /\ Claims(st)
  BY DEF ClaimInv, OrderInv, TypeOK, BufsOK
<1>b. \A f \in Weather : f \in Fault /\ Removes(f)
  <2>1. "remove" \notin Faults
    BY DEF ClaimInv, OrderInv, TypeOK, Faults
  <2> QED
    BY <2>1, WeatherType DEF Weather, Trouble, Removes
<1>c. ASSUME st' = st
      PROVE  Claims(st')
  BY <1>a, <1>c
<1>4. ASSUME NEW b \in Buffers, NEW current, NEW f \in Weather,
             st' = DiscardBuffer(st, b, current, f)
      PROVE  Claims(st')
  BY <1>4, <1>a, <1>b, DiscardBufferFields, ReleasesClaims
<1>6. ASSUME NEW b \in Buffers, RecoverAsk(b)
      PROVE  Claims(st')
  BY <1>6, <1>a, <1>b, SettleClaims DEF RecoverAsk
<1>7. ASSUME RecoverYes
      PROVE  Claims(st')
  <2>1. ASSUME NEW f \in Weather, clock' = clock + 1,
               st' = Adopt(SettleQuietly(st, f), prompt.buf, prompt.path, clock')
        PROVE  Claims(st')
    <3> DEFINE s == SettleQuietly(st, f)
    <3>1. s \in Cache /\ Claims(s)
      BY <1>a, <1>b, SettleType, SettleClaims
    <3>2. prompt.buf \in Buffers /\ prompt.path \in Paths /\ clock' \in Nat
      <4>1. TypeOK
        BY DEF ClaimInv, OrderInv
      <4>2. prompt \in [buf : Buffers, path : Paths]
        BY <1>7, <4>1 DEF RecoverYes, TypeOK
      <4>3. clock \in Nat
        BY <4>1, ClockAssumption DEF TypeOK
      <4> QED
        BY <2>1, <4>2, <4>3
    <3>3. st' = Adopt(s, prompt.buf, prompt.path, clock')
      BY <2>1
    <3> HIDE DEF s
    <3> QED
      BY <3>1, <3>2, <3>3, AdoptClaims
  <2>2. ASSUME NEW f \in Weather, st' = SettleQuietly(st, f)
        PROVE  Claims(st')
    BY <2>2, <1>a, <1>b, SettleClaims
  <2> QED
    BY <1>7, <1>c, <2>1, <2>2 DEF RecoverYes
<1>8. ASSUME NEW b \in Buffers, DiscardRecovery(b)
      PROVE  Claims(st')
  <2>1. PICK f \in Weather : st' = DiscardPath(st, bufs[b].path, f)
    BY <1>8 DEF DiscardRecovery
  <2>2. bufs[b].path \in Paths
    BY <1>8, <1>a DEF DiscardRecovery, BufsOK
  <2>3. Releases(st, st', {bufs[b].path}, f)
    BY <1>a, <1>b, <2>1, <2>2, DiscardPathFields
  <2> QED
    BY <1>a, <1>b, <2>3, ReleasesClaims
<1>9. ASSUME ForceSweep
      PROVE  Claims(st')
  BY <1>9, <1>a, <1>b, StageClaims DEF ForceSweep
<1>10. ASSUME Tick
       PROVE  Claims(st')
  <2>1. PICK f \in Weather : Tick!(f)
    BY <1>10 DEF Tick
  <2> DEFINE s1 == Collect(st, f)
             held == IF hold = 0 THEN 0 ELSE hold - 1
             s2 == IF held = 0 THEN BeginInstall(s1, f) ELSE s1
             s3 == Stage(s2, f)
             s4 == BeginInstall(s3, f)
  <2>2. f \in Fault /\ Removes(f)
    BY <1>b
  <2>3. s1 \in Cache /\ InOrder(s1) /\ Claims(s1)
    BY <1>a, <2>2, CollectType, CollectOrder, CollectClaims
  <2>4. s2 \in Cache /\ InOrder(s2) /\ Claims(s2)
    BY <2>2, <2>3, BeginInstallType, BeginInstallOrder, BeginInstallClaims
  <2>5. s3 \in Cache /\ Claims(s3)
    <3> HIDE DEF s2
    <3> QED
      BY <1>a, <2>2, <2>4, StageType, StageClaims
  <2>6. Claims(s4)
    <3> HIDE DEF s3
    <3> QED
      BY <2>2, <2>5, BeginInstallClaims
  <2>7. st' \in {s2, s4}
    BY <2>1
  <2> HIDE DEF s2, s4
  <2> QED
    BY <2>4, <2>6, <2>7
<1>11. ASSUME BeforeQuit
       PROVE  Claims(st')
  <2>1. PICK f \in Weather : st' = Stage(Collect(st, f), f)
    BY <1>11 DEF BeforeQuit
  <2> DEFINE s1 == Collect(st, f)
  <2>2. s1 \in Cache /\ InOrder(s1) /\ Claims(s1)
    BY <1>a, <1>b, CollectType, CollectOrder, CollectClaims
  <2>3. st' = Stage(s1, f)
    BY <2>1
  <2> HIDE DEF s1
  <2> QED
    BY <1>a, <1>b, <2>2, <2>3, StageClaims
<1>12. ASSUME NEW d, Restart(d)
       PROVE  Claims(st')
  <2>1. /\ st'.staged = NoCopies /\ st'.installer = NoInstaller
        /\ \A p \in Paths : ~SessionCopy(st'.disk[p])
    BY <1>12 DEF Restart, FreshCache, Left, SessionCopy, NoCopy
  <2> QED
    BY <2>1, NoInstallerFacts DEF Claims
<1>15. ASSUME NEW p \in Paths, InstallOne(p)
       PROVE  Claims(st')
  <2>1. PICK f \in Weather :
          st' = [st EXCEPT !.installer = [st.installer EXCEPT
                                            !.todo = st.installer.todo \ {p},
                                            !.failed = st.installer.failed
                                                         \cup ({p} \cap f.install)],
                           !.disk = Landed(@, st.installer.batch, {p} \ f.install)]
    BY <1>15 DEF InstallOne
  <2>2. st \in Cache /\ st.installer \in Installer
    BY <1>a DEF Cache
  <2>3. /\ st'.staged = st.staged /\ st'.retiring = st.retiring /\ st'.owner = st.owner
        /\ st'.disk = Landed(st.disk, st.installer.batch, {p} \ f.install)
        /\ st'.installer = [st.installer EXCEPT
                              !.todo = st.installer.todo \ {p},
                              !.failed = st.installer.failed \cup ({p} \cap f.install)]
    BY <2>1, <2>2 DEF Cache
  <2>4. st'.installer.todo = st.installer.todo \ {p}
    BY <2>2, <2>3 DEF Installer
  <2>5. \A q \in Paths : st'.disk[q] = st.disk[q] \/ q = p
    BY <2>3 DEF Landed
  <2>6. p \in st.installer.todo
    BY <1>15 DEF InstallOne
  <2> QED
    BY <1>a, <2>3, <2>4, <2>5, <2>6 DEF Claims
<1>16. ASSUME InstallerExit \/ InstallerPanic
       PROVE  Claims(st')
  <2>1. st \in Cache /\ st.installer \in Installer
    BY <1>a DEF Cache
  <2>2. /\ st'.staged = st.staged /\ st'.retiring = st.retiring /\ st'.disk = st.disk
        /\ st'.owner = st.owner /\ st'.installer.todo \subseteq st.installer.todo
    <3>1. CASE InstallerExit
      <4>1. st' = [st EXCEPT !.installer = [st.installer EXCEPT !.phase = "done"]]
        BY <3>1 DEF InstallerExit
      <4> QED
        BY <4>1, <2>1 DEF Cache, Installer
    <3>2. CASE InstallerPanic
      <4>1. st' = [st EXCEPT !.installer = [st.installer EXCEPT !.phase = "panicked",
                                                                !.todo = {}]]
        BY <3>2 DEF InstallerPanic
      <4> QED
        BY <4>1, <2>1 DEF Cache, Installer
    <3> QED
      BY <1>16, <3>1, <3>2
  <2> QED
    BY <1>a, <2>2 DEF Claims
<1>17. CASE \/ \E b \in Buffers, p \in Paths, loaded \in BOOLEAN : Open(b, p, loaded)
            \/ \E b \in Buffers, modified \in BOOLEAN : Edit(b, modified)
            \/ \E b \in Buffers, p \in Paths : Rename(b, p)
            \/ RecoverNo
            \/ \E on \in BOOLEAN : Enable(on)
            \/ CancelQuit
            \/ TimerDue
            \/ Heal
            \/ UNCHANGED vars
  BY <1>17, <1>c DEF Open, Edit, Rename, RecoverNo, Enable, CancelQuit, TimerDue, Heal, vars
<1>18. ASSUME \E b \in Buffers : Save(b) \/ Kill(b)
       PROVE  Claims(st')
  BY <1>18, <1>c, <1>4 DEF Save, Kill
<1>19. ASSUME Exit \/ Crash
       PROVE  Claims(st')
  BY <1>19, <1>12 DEF Exit, Crash
<1> QED
  BY <1>6, <1>7, <1>8, <1>9, <1>10, <1>11, <1>15, <1>16, <1>17, <1>18, <1>19
  DEF Next, MainThread, InstallerThread

(* docs/invariants.md: no copy lands over a retired key.  As long as        *)
(* removals do not fail, a copy this session wrote is owned or about to be  *)
(* removed, so that it is never taken for crash data; a removal that fails  *)
(* does leave one behind, which the code accepts.                           *)
THEOREM CopiesStayClaimed ==
  ASSUME \A m \in Mixes : "remove" \notin m.faults
  PROVE  Spec => []SessionCopiesClaimed
<1>1. ClaimInv => SessionCopiesClaimed
  BY DEF ClaimInv, Claims, SessionCopiesClaimed
<1>2. ClaimInv /\ [Next]_vars => ClaimInv'
  BY ClaimStep
<1> QED
  BY ClaimInit, <1>1, <1>2, PTL DEF Spec

-----------------------------------------------------------------------------
(* The skip cache.  The inductive invariant: an entry is backed.  Its       *)
(* buffer owns the slot, and what is expected at the key, once all that is  *)
(* in flight there has landed, failed or been removed, is the copy that the *)
(* entry names.  An installer that panicked backs nothing, and the entries  *)
(* go when it is taken.                                                     *)
Expected(s, p) ==
  IF s.staged[p] # NoCopy THEN s.staged[p]
  ELSE IF p \in s.retiring THEN NoCopy
  ELSE IF p \in s.installer.todo \cup s.installer.failed THEN s.installer.batch[p]
  ELSE s.disk[p]

BackedAt(s, b, p) ==
  /\ s.owner[p] = b
  /\ s.installer.phase # "panicked" => /\ Expected(s, p).id = b
                                       /\ Expected(s, p).rev = s.written[b].rev
Backed(s, b) == s.written[b].hash # NoPath => BackedAt(s, b, s.written[b].hash)
Truthful(s) == \A b \in Buffers : Backed(s, b)

(* A forgotten entry claims nothing, and an entry's key is a path. *)
LEMMA BackedFacts ==
  ASSUME NEW s \in Cache, NEW b \in Buffers
  PROVE  /\ s.written[b] = Unwritten => Backed(s, b)
         /\ s.written[b].hash # NoPath => s.written[b].hash \in Paths
         /\ b # NoBuffer
  BY BuffersAssumption DEF Unwritten, Backed, Cache, Entry, NoBuffer

(* A copy that names a buffer is a copy. *)
LEMMA NoCopyNames == NoCopy.id = NoBuffer /\ \A b \in Buffers : CopyOf(b) # NoCopy
  BY BuffersAssumption DEF NoCopy, CopyOf, NoBuffer

(* It is all in these fields. *)
LEMMA SameBacked ==
  ASSUME NEW s, NEW t, SameCopies(s, t), Truthful(s)
  PROVE  Truthful(t)
  BY DEF SameCopies, Truthful, Backed, BackedAt, Expected

(* A release leaves the other keys as they are. *)
LEMMA ReleasesBacked ==
  ASSUME NEW s \in Cache, NEW t \in Cache, NEW ps, NEW f, Releases(s, t, ps, f),
         NEW b \in Buffers, Backed(s, b),
         t.written[b] = Unwritten \/ (t.written[b] = s.written[b]
                                        /\ s.written[b].hash \notin ps)
  PROVE  Backed(t, b)
<1>1. CASE t.written[b] = Unwritten
  BY <1>1, BackedFacts
<1>2. CASE t.written[b] = s.written[b] /\ s.written[b].hash \notin ps
  <2> SUFFICES ASSUME NEW p \in Paths, p = s.written[b].hash, BackedAt(s, b, p)
               PROVE  BackedAt(t, b, p)
    BY <1>2, BackedFacts DEF Backed
  <2>1. /\ t.owner[p] = s.owner[p] /\ t.staged[p] = s.staged[p]
        /\ t.installer = s.installer /\ (p \in t.retiring <=> p \in s.retiring)
        /\ t.disk[p] = s.disk[p]
    BY <1>2 DEF Releases, Removed
  <2>2. Expected(t, p) = Expected(s, p)
    BY <2>1 DEF Expected
  <2> QED
    BY <1>2, <2>1, <2>2 DEF BackedAt
<1> QED
  BY <1>1, <1>2

(* Taking the installer: an entry whose copy failed goes, another's copy    *)
(* has landed or waits staged.                                              *)
LEMMA TakesBacked ==
  ASSUME NEW s \in Cache, NEW t \in Cache, NEW f, Takes(s, t, f), Truthful(s)
  PROVE  Truthful(t)
<1> DEFINE i == s.installer
           panicked == i.phase = "panicked" \/ (i.phase = "running" /\ f.panic)
           failed == i.failed \cup (i.todo \cap f.install)
<1>1. /\ t.owner = s.owner /\ t.staged = s.staged
      /\ t.installer = NoInstaller /\ t.retiring = {}
      /\ t.disk = Removed(Landed(s.disk, i.batch, i.todo \ f.install), s.retiring \ f.remove)
      /\ \A b \in Buffers : t.written[b] = IF panicked \/ Spent(s, i.batch, failed, b)
                                           THEN Unwritten ELSE s.written[b]
  BY DEF Takes
<1> SUFFICES ASSUME NEW b \in Buffers, t.written[b] # Unwritten
             PROVE  Backed(t, b)
  BY BackedFacts DEF Truthful
<1>2. ~panicked /\ ~Spent(s, i.batch, failed, b) /\ t.written[b] = s.written[b]
  BY <1>1
<1> SUFFICES ASSUME NEW p \in Paths, p = s.written[b].hash, BackedAt(s, b, p)
             PROVE  BackedAt(t, b, p)
  BY <1>2, BackedFacts DEF Truthful, Backed
<1>3. /\ s.owner[p] = b /\ Expected(s, p).id = b /\ Expected(s, p).rev = s.written[b].rev
  BY <1>2 DEF BackedAt
<1>4. Expected(t, p) = Expected(s, p)
  <2>1. CASE s.staged[p] # NoCopy
    BY <1>1, <2>1 DEF Expected
  <2>2. CASE s.staged[p] = NoCopy
    <3>1. p \notin s.retiring
      BY <1>3, <2>2, NoCopyNames, BackedFacts DEF Expected
    <3>2. Expected(t, p) = t.disk[p]
      BY <1>1, <2>2, NoInstallerFacts DEF Expected
    <3>3. t.disk[p] = IF p \in i.todo \ f.install THEN i.batch[p] ELSE s.disk[p]
      BY <1>1, <3>1 DEF Removed, Landed
    <3>4. Expected(s, p) = IF p \in i.todo \cup i.failed THEN i.batch[p] ELSE s.disk[p]
      BY <2>2, <3>1 DEF Expected
    <3>5. p \notin failed
      <4> SUFFICES ASSUME p \in failed PROVE FALSE
        OBVIOUS
      <4>1. Expected(s, p) = i.batch[p]
        BY <3>4
      <4> QED
        BY <1>2, <1>3, <4>1 DEF Spent
    <3> QED
      BY <3>2, <3>3, <3>4, <3>5
  <2> QED
    BY <2>1, <2>2
<1> QED
  BY <1>1, <1>2, <1>3, <1>4 DEF BackedAt

(* Installing here: likewise. *)
LEMMA InstallsBacked ==
  ASSUME NEW s \in Cache, NEW t \in Cache, NEW f, Installs(s, t, f), Truthful(s),
         s.installer = NoInstaller, s.retiring = {}
  PROVE  Truthful(t)
<1>1. /\ t.owner = s.owner /\ t.staged = NoCopies
      /\ t.installer = NoInstaller /\ t.retiring = {}
      /\ t.disk = Landed(s.disk, s.staged, Keys(s.staged) \ f.install)
      /\ \A b \in Buffers : t.written[b] =
           IF Spent(s, s.staged, Keys(s.staged) \cap f.install, b)
           THEN Unwritten ELSE s.written[b]
  BY DEF Installs
<1> SUFFICES ASSUME NEW b \in Buffers, t.written[b] # Unwritten
             PROVE  Backed(t, b)
  BY BackedFacts DEF Truthful
<1>2. ~Spent(s, s.staged, Keys(s.staged) \cap f.install, b) /\ t.written[b] = s.written[b]
  BY <1>1
<1> SUFFICES ASSUME NEW p \in Paths, p = s.written[b].hash, BackedAt(s, b, p)
             PROVE  BackedAt(t, b, p)
  BY <1>2, BackedFacts DEF Truthful, Backed
<1>3. /\ s.owner[p] = b /\ Expected(s, p).id = b /\ Expected(s, p).rev = s.written[b].rev
  BY NoInstallerFacts DEF BackedAt
<1>4. Expected(t, p) = t.disk[p]
  BY <1>1, NoInstallerFacts DEF Expected
<1>5. Expected(s, p) = IF s.staged[p] # NoCopy THEN s.staged[p] ELSE s.disk[p]
  BY NoInstallerFacts DEF Expected
<1>6. t.disk[p] = Expected(s, p)
  <2>1. CASE s.staged[p] = NoCopy
    BY <1>1, <1>5, <2>1 DEF Landed, Keys
  <2>2. CASE s.staged[p] # NoCopy /\ p \in f.install
    <3>1. p \in Keys(s.staged) \cap f.install
      BY <2>2 DEF Keys
    <3> QED
      BY <1>2, <1>3, <1>5, <2>2, <3>1 DEF Spent
  <2>3. CASE s.staged[p] # NoCopy /\ p \notin f.install
    BY <1>1, <1>5, <2>3 DEF Landed, Keys
  <2> QED
    BY <2>1, <2>2, <2>3
<1> QED
  BY <1>1, <1>2, <1>3, <1>4, <1>6 DEF BackedAt

(* settle keeps the entries truthful. *)
LEMMA SettleBacked ==
  ASSUME NEW s \in Cache, NEW f \in Fault, InOrder(s), Truthful(s)
  PROVE  Truthful(SettleQuietly(s, f)) /\ Truthful(Settle(s, f))
<1> DEFINE u == IF s.installer.phase = "none" THEN s ELSE TakeInstaller(s, f)
           q == SettleQuietly(s, f)
<1>1. q = InstallStaged(u, f)
  BY DEF SettleQuietly
<1>2. u \in Cache /\ Truthful(u) /\ u.installer = NoInstaller /\ u.retiring = {}
  <2>1. CASE s.installer.phase = "none"
    BY <2>1, NoInstallerFacts DEF InOrder, Tidy
  <2>2. CASE s.installer.phase # "none"
    <3>1. u = TakeInstaller(s, f)
      BY <2>2
    <3> HIDE DEF u
    <3>2. Takes(s, u, f) /\ u \in Cache
      BY <3>1, TakeFields, TakeType
    <3> QED
      BY <3>2, TakesBacked DEF Takes
  <2> QED
    BY <2>1, <2>2
<1>3. SameCopies(q, Settle(s, f)) /\ q \in Cache
  BY SettleFields, SettleType
<1> HIDE DEF q, u
<1>4. Truthful(q)
  BY <1>1, <1>2, <1>3, InstallStagedFields, InstallsBacked
<1> QED
  BY <1>3, <1>4, SameBacked DEF q

(* begin_install does: what was staged is now to be installed. *)
LEMMA BeginInstallBacked ==
  ASSUME NEW s \in Cache, NEW f \in Fault, InOrder(s), Truthful(s)
  PROVE  Truthful(BeginInstall(s, f))
<1> DEFINE i == [phase |-> "running", batch |-> s.staged,
                 todo |-> Keys(s.staged), failed |-> {}]
           t == [s EXCEPT !.staged = NoCopies, !.installer = i]
<1>1. /\ t.staged = NoCopies /\ t.installer.todo = Keys(s.staged) /\ t.installer.failed = {}
      /\ t.installer.batch = s.staged /\ t.installer.phase = "running"
      /\ t.retiring = s.retiring /\ t.disk = s.disk /\ t.owner = s.owner
      /\ t.written = s.written
  BY DEF Cache
<1>2. \/ BeginInstall(s, f) = s
      \/ s.installer.phase = "none" /\ BeginInstall(s, f) = InstallStaged(s, f)
      \/ s.installer.phase = "none" /\ BeginInstall(s, f) = t
  BY DEF BeginInstall
<1> HIDE DEF t
<1>3. ASSUME s.installer.phase = "none"
      PROVE  s.installer = NoInstaller /\ s.retiring = {}
  BY <1>3, NoInstallerFacts DEF InOrder, Tidy
<1>4. ASSUME s.installer.phase = "none"
      PROVE  Truthful(t)
  <2>1. \A p \in Paths : Expected(t, p) = Expected(s, p)
    BY <1>1, <1>3, <1>4, NoInstallerFacts DEF Expected, Keys
  <2>2. s.installer.phase # "panicked"
    BY <1>4
  <2>3. \A b \in Buffers, p \in Paths : BackedAt(s, b, p) => BackedAt(t, b, p)
    BY <1>1, <2>1, <2>2 DEF BackedAt
  <2> QED
    BY <1>1, <2>3, BackedFacts DEF Truthful, Backed
<1>5. ASSUME s.installer.phase = "none"
      PROVE  Truthful(InstallStaged(s, f))
  BY <1>3, <1>5, InstallStagedType, InstallStagedFields, InstallsBacked
<1> QED
  BY <1>2, <1>4, <1>5

(* collect does. *)
LEMMA CollectBacked ==
  ASSUME NEW s \in Cache, NEW f \in Fault, Truthful(s)
  PROVE  Truthful(Collect(s, f))
  BY CollectFields, TakeType, TakeFields, TakesBacked, SameBacked

(* A staging write does not fail: a pass writes all it wants to.            *)
LEMMA WrittenAll ==
  ASSUME NEW s, NEW f, f.write = {}
  PROVE  Written(s, f) = Writes(s)
  BY DEF Written

(* Of the buffers a pass writes, one at most visits a path, and it owns the *)
(* slot or nobody does.                                                     *)
LEMMA WritesApart ==
  ASSUME NEW s
  PROVE  /\ \A a, b \in Writes(s) : bufs[a].path = bufs[b].path => a = b
         /\ \A b \in Writes(s) : s.owner[bufs[b].path] \in {b, NoBuffer}
         /\ Writes(s) \subseteq Buffers
<1>1. ASSUME NEW a \in Writes(s), NEW b \in Writes(s), bufs[a].path = bufs[b].path
      PROVE  a = b
  <2>1. a \in Wanting(s) /\ b \in Wanting(s) /\ a \in Nat /\ b \in Nat
    BY BuffersAssumption DEF Writes, Wanting
  <2>2. ~(a < b) /\ ~(b < a)
    BY <1>1, <2>1 DEF Writes
  <2> QED
    BY <2>1, <2>2
<1> QED
  BY <1>1 DEF Writes, Wanting

(* The garbage of a pass is not what backs an entry: an orphan was named by *)
(* a buffer the pass writes, a dead buffer's key by its own entry.          *)
LEMMA CollectsBacked ==
  ASSUME NEW s \in Cache, NEW g \in Cache, NEW f, Collects(s, g, f), Truthful(s),
         NEW b \in Buffers, b \notin Writes(s)
  PROVE  Backed(g, b)
<1>1. Releases(s, g, GarbageKeys(s), f)
  BY DEF Collects
<1>2. CASE b \in Dead(s)
  BY <1>2, BackedFacts DEF Collects
<1>3. CASE b \notin Dead(s) /\ s.written[b].hash = NoPath
  BY <1>3 DEF Collects, Backed
<1>4. CASE b \notin Dead(s) /\ s.written[b].hash # NoPath
  <2>1. s.owner[s.written[b].hash] = b
    BY <1>4 DEF Truthful, Backed, BackedAt
  <2>2. s.written[b].hash \notin Orphans(s)
    <3> SUFFICES ASSUME NEW c \in Writes(s), s.written[c].hash = s.written[b].hash
                 PROVE  FALSE
      BY DEF Orphans
    <3>1. s.owner[s.written[c].hash] = c
      BY <1>4, WritesApart DEF Truthful, Backed, BackedAt
    <3> QED
      BY <2>1, <3>1
  <2>3. s.written[b].hash \notin GarbageKeys(s)
    BY <1>4, <2>1, <2>2 DEF GarbageKeys
  <2> QED
    BY <1>1, <1>4, <2>3, ReleasesBacked DEF Collects, Truthful
<1> QED
  BY <1>2, <1>3, <1>4

(* A pass that writes all it wants leaves every entry backed: its own by    *)
(* the copies it makes, the others as before.                               *)
LEMMA PassBacked ==
  ASSUME NEW s \in Cache, NEW g \in Cache, NEW t \in Cache, NEW f, BufsOK, Truthful(s),
         Collects(s, g, f),
         \/ Stages(g, t, Writes(s))
         \/ Writing(g, t, Writes(s)) /\ Settled(s)
  PROVE  Truthful(t)
<1> DEFINE done == Writes(s)
<1>1. Claiming(g, t, done)
  BY DEF Stages, Writing
<1>a. done \subseteq Buffers
  BY WritesApart
<1>2. ASSUME NEW b \in Buffers, b \notin done
      PROVE  Backed(t, b)
  <2>1. Backed(g, b) /\ t.written[b] = g.written[b]
    BY <1>1, <1>2, CollectsBacked DEF Claiming
  <2> SUFFICES ASSUME NEW p \in Paths, p = g.written[b].hash, BackedAt(g, b, p)
               PROVE  BackedAt(t, b, p)
    BY <2>1, BackedFacts DEF Backed
  <2>2. g.written[b] = s.written[b] /\ s.owner[p] = b
    <3>1. g.written[b] # Unwritten
      BY PathsAssumption DEF Unwritten
    <3>2. g.written[b] = s.written[b]
      BY <3>1 DEF Collects
    <3> QED
      BY <3>2, PathsAssumption DEF Truthful, Backed, BackedAt
  <2>3. \A d \in done : bufs[d].path # p
    <3> SUFFICES ASSUME NEW d \in done, bufs[d].path = p PROVE FALSE
      OBVIOUS
    <3>1. s.owner[p] \in {d, NoBuffer}
      BY WritesApart
    <3> QED
      BY <1>2, <2>2, <3>1, BackedFacts
  <2>4. t.owner[p] = g.owner[p]
    BY <1>1, <2>3 DEF Claiming
  <2>5. Expected(t, p) = Expected(g, p) /\ t.installer = g.installer
    BY <2>3 DEF Stages, Writing, Copied, Expected
  <2> QED
    BY <2>1, <2>4, <2>5 DEF BackedAt
<1>3. ASSUME NEW b \in done
      PROVE  Backed(t, b)
  <2> DEFINE p == bufs[b].path
  <2>1. p \in Paths /\ b \in Buffers
    BY WritesType, <1>a
  <2>2. t.written[b].hash = p /\ t.written[b].rev = bufs[b].rev
    <3>1. t.written[b] = [hash |-> bufs[b].path, rev |-> bufs[b].rev]
      BY <1>1, <1>3, <2>1 DEF Claiming
    <3> QED
      BY <3>1
  <2>3. b = CHOOSE d \in done : bufs[d].path = p
    BY WritesApart
  <2>4. t.owner[p] = b
    BY <1>1, <1>3, <1>a, <2>1, ClaimingAt, WritesApart
  <2>5. Expected(t, p) = CopyOf(b)
    <3>1. CASE Stages(g, t, done)
      <4>1. t.staged[p] = CopyOf(b)
        BY <2>1, <2>3, <3>1 DEF Stages, Copied
      <4> QED
        BY <2>1, <4>1, NoCopyNames DEF Expected
    <3>2. CASE Writing(g, t, done) /\ Settled(s)
      <4>1. t.disk[p] = CopyOf(b)
        BY <2>1, <2>3, <3>2 DEF Writing, Copied
      <4>2. t.staged = g.staged /\ t.installer = g.installer /\ t.retiring = g.retiring
        BY <3>2 DEF Writing
      <4>3. g.staged[p] = NoCopy /\ g.installer = NoInstaller /\ g.retiring = {}
        BY <2>1, <3>2, NoInstallerFacts DEF Collects, Releases, Removed, Settled
      <4> QED
        BY <4>1, <4>2, <4>3, NoInstallerFacts DEF Expected
    <3> QED
      BY <3>1, <3>2
  <2>6. CopyOf(b).id = b /\ CopyOf(b).rev = bufs[b].rev
    BY DEF CopyOf
  <2> HIDE DEF p
  <2> QED
    BY <2>2, <2>4, <2>5, <2>6 DEF Backed, BackedAt
<1> QED
  BY <1>2, <1>3 DEF Truthful

(* Staged or forced. *)
LEMMA StageBacked ==
  ASSUME NEW s \in Cache, NEW f \in Fault, BufsOK, f.write = {}, InOrder(s), Truthful(s)
  PROVE  Truthful(Stage(s, f)) /\ Truthful(Sweep(s, f))
<1>1. Truthful(Stage(s, f))
  <2>1. CASE ~enabled
    BY <2>1 DEF Stage
  <2>2. CASE enabled
    <3>1. Stages(CollectGarbage(s, f), Stage(s, f), Writes(s))
      BY <2>2, StageFields, WrittenAll
    <3>2. Collects(s, CollectGarbage(s, f), f)
      BY GarbageFields
    <3>3. CollectGarbage(s, f) \in Cache /\ Stage(s, f) \in Cache
      BY CollectGarbageType, StageType
    <3> QED
      BY <3>1, <3>2, <3>3, PassBacked
  <2> QED
    BY <2>1, <2>2
<1>2. Truthful(Sweep(s, f))
  <2>1. CASE ~enabled
    BY <2>1 DEF Sweep
  <2>2. CASE enabled
    <3> DEFINE s0 == Settle(s, f)
    <3>1. s0 \in Cache /\ Settled(s0) /\ Truthful(s0)
      BY SettleType, SettleOrder, SettleBacked
    <3>2. Writing(CollectGarbage(s0, f), Sweep(s, f), Writes(s0))
      BY <2>2, SweepFields, WrittenAll
    <3> HIDE DEF s0
    <3>3. Collects(s0, CollectGarbage(s0, f), f)
      BY <3>1, GarbageFields
    <3>4. CollectGarbage(s0, f) \in Cache /\ Sweep(s, f) \in Cache
      BY <3>1, CollectGarbageType, SweepType
    <3> QED
      BY <3>1, <3>2, <3>3, <3>4, PassBacked
  <2> QED
    BY <2>1, <2>2
<1> QED
  BY <1>1, <1>2

(* discard_buffer releases its own keys: another's entry names another key. *)
LEMMA DiscardBufferBacked ==
  ASSUME NEW s \in Cache, NEW b \in Buffers, NEW current, NEW f \in Fault, Truthful(s)
  PROVE  Truthful(DiscardBuffer(s, b, current, f))
<1> DEFINE t == DiscardBuffer(s, b, current, f)
<1>1. /\ t \in Cache /\ Releases(s, t, OwnedKeys(s, b, current), f)
      /\ \A c \in Buffers : t.written[c] = IF c = b THEN Unwritten ELSE s.written[c]
  BY DiscardBufferFields, DiscardBufferType
<1> HIDE DEF t
<1>2. ASSUME NEW c \in Buffers
      PROVE  Backed(t, c)
  <2>1. CASE t.written[c] = Unwritten
    BY <1>1, <2>1, BackedFacts
  <2>2. CASE c # b /\ s.written[c].hash = NoPath
    BY <1>1, <2>2 DEF Backed
  <2>3. CASE c # b /\ s.written[c].hash # NoPath
    <3>1. s.written[c].hash \notin OwnedKeys(s, b, current)
      BY <2>3 DEF Truthful, Backed, BackedAt, OwnedKeys
    <3> QED
      BY <1>1, <2>3, <3>1, ReleasesBacked DEF Truthful
  <2> QED
    BY <1>1, <2>1, <2>2, <2>3
<1> QED
  BY <1>2 DEF Truthful, t

(* discard_path forgets every entry for the key it releases. *)
LEMMA DiscardPathBacked ==
  ASSUME NEW s \in Cache, NEW p \in Paths, NEW f \in Fault, Truthful(s)
  PROVE  Truthful(DiscardPath(s, p, f))
<1> DEFINE t == DiscardPath(s, p, f)
<1>1. /\ t \in Cache /\ Releases(s, t, {p}, f)
      /\ \A c \in Buffers : t.written[c] = IF s.written[c].hash = p THEN Unwritten
                                                                   ELSE s.written[c]
  BY DiscardPathFields, DiscardPathType
<1> HIDE DEF t
<1>2. ASSUME NEW c \in Buffers
      PROVE  Backed(t, c)
  BY <1>1, ReleasesBacked DEF Truthful
<1> QED
  BY <1>2 DEF Truthful, t

(* adopt, settled, names the copy in place. *)
LEMMA AdoptBacked ==
  ASSUME NEW s \in Cache, NEW b \in Buffers, NEW p \in Paths, NEW rev \in Nat,
         Settled(s), Truthful(s)
  PROVE  Truthful(Adopt(s, b, p, rev))
<1> DEFINE t == Adopt(s, b, p, rev)
<1>1. t \in Cache /\ Adopts(s, t, b, p, rev)
  BY AdoptFields, AdoptType
<1> HIDE DEF t
<1>2. DOMAIN s.disk = Paths /\ DOMAIN s.owner = Paths
  BY DEF Cache, Batch
<1>3. /\ t.staged = NoCopies /\ t.installer = NoInstaller /\ t.retiring = {}
      /\ s.staged = NoCopies /\ s.installer = NoInstaller /\ s.retiring = {}
  BY <1>1 DEF Adopts, Settled
<1>4. \A q \in Paths : Expected(t, q) = t.disk[q] /\ Expected(s, q) = s.disk[q]
  BY <1>3, NoInstallerFacts DEF Expected
<1>5. t.owner[p] = b /\ t.disk[p] = [id |-> b, rev |-> rev, text |-> s.disk[p].text]
  BY <1>1, <1>2 DEF Adopts
<1>6. \A q \in Paths \ {p} : t.owner[q] = s.owner[q] /\ t.disk[q] = s.disk[q]
  BY <1>1, <1>2 DEF Adopts
<1>7. ASSUME NEW c \in Buffers
      PROVE  Backed(t, c)
  <2>1. CASE c = b
    <3>1. t.written[b].hash = p /\ t.written[b].rev = rev
      BY <1>1 DEF Adopts
    <3> QED
      BY <2>1, <1>4, <1>5, <3>1 DEF Backed, BackedAt
  <2>2. CASE c # b /\ s.written[c].hash = p
    BY <1>1, <2>2, BackedFacts DEF Adopts
  <2>3. CASE c # b /\ s.written[c].hash # p
    <3>1. t.written[c] = s.written[c]
      BY <1>1, <2>3 DEF Adopts
    <3>2. CASE s.written[c].hash = NoPath
      BY <3>1, <3>2 DEF Backed
    <3>3. CASE s.written[c].hash # NoPath
      <4>1. s.written[c].hash \in Paths \ {p} /\ BackedAt(s, c, s.written[c].hash)
        BY <2>3, <3>3, BackedFacts DEF Truthful, Backed
      <4> QED
        BY <1>3, <1>4, <1>6, <3>1, <4>1, NoInstallerFacts DEF Backed, BackedAt
    <3> QED
      BY <3>2, <3>3
  <2> QED
    BY <2>1, <2>2, <2>3
<1> QED
  BY <1>7 DEF Truthful, t

TruthInv == OrderInv /\ (WritesSucceed => Truthful(st))

(* No entries at first. *)
LEMMA TruthInit == Init => TruthInv
<1> SUFFICES ASSUME Init PROVE Truthful(st)
  BY OrderInit DEF TruthInv
<1>1. \A b \in Buffers : st.written[b] = Unwritten
  BY DEF Init, FreshCache
<1> QED
  BY <1>1 DEF Truthful, Backed, Unwritten

(* The installer thread, landing a copy or failing on it, changes nothing   *)
(* of what is expected.                                                     *)
LEMMA InstallOneBacked ==
  ASSUME st \in Cache, Truthful(st), NEW p \in Paths, InstallOne(p)
  PROVE  Truthful(st')
<1>1. PICK f \in Weather :
        st' = [st EXCEPT !.installer = [st.installer EXCEPT
                                          !.todo = st.installer.todo \ {p},
                                          !.failed = st.installer.failed
                                                       \cup ({p} \cap f.install)],
                         !.disk = Landed(@, st.installer.batch, {p} \ f.install)]
  BY DEF InstallOne
<1>2. st.installer \in Installer
  BY DEF Cache
<1>3. /\ st'.staged = st.staged /\ st'.retiring = st.retiring
      /\ st'.owner = st.owner /\ st'.written = st.written
      /\ st'.disk = Landed(st.disk, st.installer.batch, {p} \ f.install)
      /\ st'.installer = [st.installer EXCEPT
                            !.todo = st.installer.todo \ {p},
                            !.failed = st.installer.failed \cup ({p} \cap f.install)]
  BY <1>1, <1>2 DEF Cache
<1>4. /\ st'.installer.phase = st.installer.phase
      /\ st'.installer.batch = st.installer.batch
      /\ st'.installer.todo = st.installer.todo \ {p}
      /\ st'.installer.failed = st.installer.failed \cup ({p} \cap f.install)
  BY <1>2, <1>3 DEF Installer
<1>5. p \in st.installer.todo
  BY DEF InstallOne
<1>6. ASSUME NEW q \in Paths
      PROVE  Expected(st', q) = Expected(st, q)
  <2>1. st'.disk[q] = IF q = p /\ p \notin f.install THEN st.installer.batch[q]
                                                     ELSE st.disk[q]
    BY <1>3 DEF Landed
  <2>2. CASE q = p
    BY <1>3, <1>4, <1>5, <2>1, <2>2 DEF Expected
  <2>3. CASE q # p
    BY <1>3, <1>4, <2>1, <2>3 DEF Expected
  <2> QED
    BY <2>2, <2>3
<1>7. \A b \in Buffers : st.written[b].hash # NoPath => st.written[b].hash \in Paths
  BY BackedFacts
<1> HIDE DEF Expected
<1> QED
  BY <1>3, <1>4, <1>6, <1>7 DEF Truthful, Backed, BackedAt

(* The thread ends with its work done; a panicked one backs nothing. *)
LEMMA InstallerEndsBacked ==
  ASSUME st \in Cache, Truthful(st), InstallerExit \/ InstallerPanic
  PROVE  Truthful(st')
<1>1. st.installer \in Installer
  BY DEF Cache
<1>2. CASE InstallerExit
  <2>1. st' = [st EXCEPT !.installer = [st.installer EXCEPT !.phase = "done"]]
    BY <1>2 DEF InstallerExit
  <2>2. /\ st'.staged = st.staged /\ st'.retiring = st.retiring /\ st'.disk = st.disk
        /\ st'.owner = st.owner /\ st'.written = st.written
        /\ st'.installer.todo = st.installer.todo
        /\ st'.installer.failed = st.installer.failed
        /\ st'.installer.batch = st.installer.batch
    BY <1>1, <2>1 DEF Cache, Installer
  <2>3. st.installer.phase # "panicked"
    BY <1>2 DEF InstallerExit
  <2>4. \A p : Expected(st', p) = Expected(st, p)
    BY <2>2 DEF Expected
  <2> HIDE DEF Expected
  <2> QED
    BY <2>2, <2>3, <2>4 DEF Truthful, Backed, BackedAt
<1>3. CASE InstallerPanic
  <2>1. st' = [st EXCEPT !.installer = [st.installer EXCEPT !.phase = "panicked",
                                                            !.todo = {}]]
    BY <1>3 DEF InstallerPanic
  <2>2. /\ st'.owner = st.owner /\ st'.written = st.written
        /\ st'.installer.phase = "panicked"
    BY <1>1, <2>1 DEF Cache, Installer
  <2> QED
    BY <2>2 DEF Truthful, Backed, BackedAt
<1> QED
  BY <1>2, <1>3

(* What may happen is settled at the start. *)
LEMMA MixStays == [Next]_vars => mix' = mix
<1> SUFFICES ASSUME [Next]_vars PROVE mix' = mix
  OBVIOUS
<1> USE DEF LuaVars
<1>1. ASSUME NEW d, Restart(d) PROVE mix' = mix
  BY <1>1 DEF Restart
<1>2. CASE MainThread
  BY <1>1, <1>2
  DEF MainThread, Open, Edit, Rename, Save, Kill, RecoverAsk, RecoverYes, RecoverNo,
      DiscardRecovery, ForceSweep, Enable, Tick, BeforeQuit, CancelQuit, Exit
<1>3. CASE InstallerThread \/ TimerDue \/ Heal \/ Crash
  BY <1>1, <1>3
  DEF InstallerThread, InstallOne, InstallerExit, InstallerPanic, TimerDue, Heal, Crash
<1> QED
  BY <1>2, <1>3 DEF Next, vars

(* Unless a staging write fails, every step keeps the entries backed. *)
LEMMA TruthStep == TruthInv /\ [Next]_vars => TruthInv'
<1> SUFFICES ASSUME TruthInv, [Next]_vars, WritesSucceed
             PROVE  Truthful(st')
  BY OrderStep, MixStays DEF TruthInv, WritesSucceed, Faults
<1>a. BufsOK /\ RevsOK /\ Sound(st) /\ st \in Cache /\ InOrder(st) /\ Truthful(st)
  BY DEF TruthInv, OrderInv, TypeOK, BufsOK
<1>b. \A f \in Weather : f \in Fault /\ f.write = {}
  BY WeatherType DEF Weather, Trouble, WritesSucceed
<1>c. ASSUME st' = st
      PROVE  Truthful(st')
  BY <1>a, <1>c
<1>4. ASSUME NEW b \in Buffers, NEW current, NEW f \in Weather,
             st' = DiscardBuffer(st, b, current, f)
      PROVE  Truthful(st')
  BY <1>4, <1>a, <1>b, DiscardBufferBacked
<1>6. ASSUME NEW b \in Buffers, RecoverAsk(b)
      PROVE  Truthful(st')
  BY <1>6, <1>a, <1>b, SettleBacked DEF RecoverAsk
<1>7. ASSUME RecoverYes
      PROVE  Truthful(st')
  <2>1. ASSUME NEW f \in Weather, clock' = clock + 1,
               st' = Adopt(SettleQuietly(st, f), prompt.buf, prompt.path, clock')
        PROVE  Truthful(st')
    <3> DEFINE s == SettleQuietly(st, f)
    <3>1. s \in Cache /\ Truthful(s) /\ Settled(s)
      BY <1>a, <1>b, SettleType, SettleBacked, SettleOrder
    <3>2. prompt.buf \in Buffers /\ prompt.path \in Paths /\ clock' \in Nat
      <4>1. TypeOK
        BY DEF TruthInv, OrderInv
      <4>2. prompt \in [buf : Buffers, path : Paths]
        BY <1>7, <4>1 DEF RecoverYes, TypeOK
      <4>3. clock \in Nat
        BY <4>1, ClockAssumption DEF TypeOK
      <4> QED
        BY <2>1, <4>2, <4>3
    <3>3. st' = Adopt(s, prompt.buf, prompt.path, clock')
      BY <2>1
    <3> HIDE DEF s
    <3> QED
      BY <3>1, <3>2, <3>3, AdoptBacked
  <2>2. ASSUME NEW f \in Weather, st' = SettleQuietly(st, f)
        PROVE  Truthful(st')
    BY <2>2, <1>a, <1>b, SettleBacked
  <2> QED
    BY <1>7, <1>c, <2>1, <2>2 DEF RecoverYes
<1>8. ASSUME NEW b \in Buffers, DiscardRecovery(b)
      PROVE  Truthful(st')
  <2>1. PICK f \in Weather : st' = DiscardPath(st, bufs[b].path, f)
    BY <1>8 DEF DiscardRecovery
  <2>2. bufs[b].path \in Paths
    BY <1>8, <1>a DEF DiscardRecovery, BufsOK
  <2> QED
    BY <1>a, <1>b, <2>1, <2>2, DiscardPathBacked
<1>9. ASSUME ForceSweep
      PROVE  Truthful(st')
  BY <1>9, <1>a, <1>b, StageBacked DEF ForceSweep
<1>10. ASSUME Tick
       PROVE  Truthful(st')
  <2>1. PICK f \in Weather : Tick!(f)
    BY <1>10 DEF Tick
  <2> DEFINE s1 == Collect(st, f)
             held == IF hold = 0 THEN 0 ELSE hold - 1
             s2 == IF held = 0 THEN BeginInstall(s1, f) ELSE s1
             s3 == Stage(s2, f)
             s4 == BeginInstall(s3, f)
  <2>2. f \in Fault /\ f.write = {}
    BY <1>b
  <2>3. s1 \in Cache /\ Flows(st, s1) /\ InOrder(s1) /\ Truthful(s1)
    BY <1>a, <2>2, CollectType, CollectOrder, CollectBacked
  <2>4. s2 \in Cache /\ Flows(st, s2) /\ InOrder(s2) /\ Truthful(s2)
    BY <2>2, <2>3, BeginInstallType, BeginInstallOrder, BeginInstallBacked, FlowsTrans
  <2>5. Sound(s2)
    BY <1>a, <2>4, FlowsTrans, FillsSound
  <2>6. s3 \in Cache /\ InOrder(s3) /\ Truthful(s3)
    <3> HIDE DEF s2
    <3> QED
      BY <1>a, <2>2, <2>4, <2>5, StageType, StageOrder, StageBacked
  <2>7. Truthful(s4)
    <3> HIDE DEF s3
    <3> QED
      BY <2>2, <2>6, BeginInstallBacked
  <2>8. st' \in {s2, s4}
    BY <2>1
  <2> HIDE DEF s2, s4
  <2> QED
    BY <2>4, <2>7, <2>8
<1>11. ASSUME BeforeQuit
       PROVE  Truthful(st')
  <2>1. PICK f \in Weather : st' = Stage(Collect(st, f), f)
    BY <1>11 DEF BeforeQuit
  <2> DEFINE s1 == Collect(st, f)
  <2>2. s1 \in Cache /\ InOrder(s1) /\ Truthful(s1)
    BY <1>a, <1>b, CollectType, CollectOrder, CollectBacked
  <2>3. st' = Stage(s1, f)
    BY <2>1
  <2> HIDE DEF s1
  <2> QED
    BY <1>a, <1>b, <2>2, <2>3, StageBacked
<1>12. ASSUME NEW d, Restart(d)
       PROVE  Truthful(st')
  <2>1. \A b \in Buffers : st'.written[b] = Unwritten
    BY <1>12 DEF Restart, FreshCache
  <2> QED
    BY <2>1 DEF Truthful, Backed, Unwritten
<1>15. ASSUME NEW p \in Paths, InstallOne(p)
       PROVE  Truthful(st')
  BY <1>15, <1>a, InstallOneBacked
<1>16. ASSUME InstallerExit \/ InstallerPanic
       PROVE  Truthful(st')
  BY <1>16, <1>a, InstallerEndsBacked
<1>17. CASE \/ \E b \in Buffers, p \in Paths, loaded \in BOOLEAN : Open(b, p, loaded)
            \/ \E b \in Buffers, modified \in BOOLEAN : Edit(b, modified)
            \/ \E b \in Buffers, p \in Paths : Rename(b, p)
            \/ RecoverNo
            \/ \E on \in BOOLEAN : Enable(on)
            \/ CancelQuit
            \/ TimerDue
            \/ Heal
            \/ UNCHANGED vars
  BY <1>17, <1>c DEF Open, Edit, Rename, RecoverNo, Enable, CancelQuit, TimerDue, Heal, vars
<1>18. ASSUME \E b \in Buffers : Save(b) \/ Kill(b)
       PROVE  Truthful(st')
  BY <1>18, <1>c, <1>4 DEF Save, Kill
<1>19. ASSUME Exit \/ Crash
       PROVE  Truthful(st')
  BY <1>19, <1>12 DEF Exit, Crash
<1> QED
  BY <1>6, <1>7, <1>8, <1>9, <1>10, <1>11, <1>15, <1>16, <1>17, <1>18, <1>19
  DEF Next, MainThread, InstallerThread

(* An entry of a modified buffer's revision vouches for its text.           *)
LEMMA BackedText ==
  ASSUME NEW s \in Cache, BufsOK, Sound(s), Truthful(s),
         NEW b \in Buffers, IsModified(b), Unchanged(s, b),
         s.installer.phase # "panicked", bufs[b].path \notin s.installer.failed
  PROVE  /\ bufs[b].path \in Paths
         /\ Expected(s, bufs[b].path) # NoCopy
         /\ Expected(s, bufs[b].path).text = bufs[b].text
<1> DEFINE p == bufs[b].path
           c == Expected(s, p)
<1>1. p \in Paths
  BY DEF IsModified, BufsOK
<1>2. s.written[b].hash = p /\ s.written[b].rev = bufs[b].rev
  BY DEF Unchanged
<1>3. c.id = b /\ c.rev = bufs[b].rev
  <2>1. BackedAt(s, b, p)
    BY <1>1, <1>2, PathsAssumption DEF Truthful, Backed
  <2> QED
    BY <1>2, <2>1 DEF BackedAt
<1>4. c # NoCopy
  BY <1>3, NoCopyNames, BackedFacts
<1>5. c \in Copy /\ Flying(s, p, c)
  <2>1. /\ s.staged[p] \in Copy /\ s.disk[p] \in Copy /\ s.installer.batch[p] \in Copy
    BY <1>1 DEF Cache, Batch, Installer
  <2> QED
    BY <1>4, <2>1 DEF Expected, Flying
<1>6. Dated(c, b)
  <2> HIDE DEF c
  <2> QED
    BY <1>1, <1>3, <1>5 DEF Sound
<1> QED
  BY <1>1, <1>3, <1>4, <1>6 DEF Dated

(* The pass that skips a buffer as unchanged since its last copy: that copy *)
(* is in flight or in place, with the buffer's very text, unless its        *)
(* install has failed or the installer has panicked and neither has been    *)
(* noticed.  A pass whose write fails after it has retired the orphans      *)
(* leaves an entry naming a key it no longer owns, so the property is about *)
(* sessions whose passes write what they stage.                             *)
THEOREM SkipsAreBacked == Spec => []SkipIsSafe
<1>1. TruthInv => SkipIsSafe
  <2> SUFFICES ASSUME TruthInv, WritesSucceed, NEW b \in Buffers, IsModified(b), Unchanged(st, b),
                      st.installer.phase # "panicked",
                      bufs[b].path \notin st.installer.failed
               PROVE  Newest(bufs[b].path).text = bufs[b].text
    BY DEF SkipIsSafe
  <2>1. st \in Cache /\ BufsOK /\ Sound(st) /\ Truthful(st)
    BY DEF TruthInv, OrderInv, TypeOK, BufsOK
  <2>2. Expected(st, bufs[b].path).text = bufs[b].text
    BY <2>1, BackedText
  <2>3. Expected(st, bufs[b].path) = Newest(bufs[b].path)
    BY DEF Expected, Newest
  <2> QED
    BY <2>2, <2>3
<1>2. TruthInv /\ [Next]_vars => TruthInv'
  BY TruthStep
<1> QED
  BY TruthInit, <1>1, <1>2, PTL DEF Spec

(* adopt's comment: an entry names a key its buffer owns.  A failed staging *)
(* write breaks it, as above.                                               *)
THEOREM EntriesOwned == Spec => []WrittenOwnsSlot
<1>1. TruthInv => WrittenOwnsSlot
  BY DEF TruthInv, Truthful, Backed, BackedAt, WrittenOwnsSlot, Owns
<1>2. TruthInv /\ [Next]_vars => TruthInv'
  BY TruthStep
<1> QED
  BY TruthInit, <1>1, <1>2, PTL DEF Spec

(* While nothing fails, settling forgets no entry but those of copies that  *)
(* had failed before.                                                       *)
LEMMA SettleKeepsEntry ==
  ASSUME NEW s \in Cache, NEW f \in Fault, f.install = {}, f.panic = FALSE,
         s.installer.phase # "panicked",
         NEW b \in Buffers, s.written[b].hash \notin s.installer.failed
  PROVE  SettleQuietly(s, f).written[b] = s.written[b]
<1> DEFINE u == IF s.installer.phase = "none" THEN s ELSE TakeInstaller(s, f)
           q == SettleQuietly(s, f)
<1>1. q = InstallStaged(u, f)
  BY DEF SettleQuietly
<1>2. u \in Cache /\ u.written[b] = s.written[b]
  <2>1. CASE s.installer.phase = "none"
    BY <2>1
  <2>2. CASE s.installer.phase # "none"
    <3>1. u = TakeInstaller(s, f)
      BY <2>2
    <3> HIDE DEF u
    <3>2. Takes(s, u, f) /\ u \in Cache
      BY <3>1, TakeFields, TakeType
    <3>3. \A failed : failed = s.installer.failed \cup (s.installer.todo \cap f.install)
                        => ~Spent(s, s.installer.batch, failed, b)
      BY DEF Spent
    <3> QED
      BY <3>2, <3>3 DEF Takes
  <2> QED
    BY <2>1, <2>2
<1> HIDE DEF u, q
<1>3. Installs(u, q, f)
  BY <1>1, <1>2, InstallStagedFields
<1>4. ~Spent(u, u.staged, Keys(u.staged) \cap f.install, b)
  BY DEF Spent
<1>5. q.written[b] = s.written[b]
  BY <1>2, <1>3, <1>4 DEF Installs
<1> QED
  BY <1>5 DEF q

(* A quit answered yes while nothing fails: settling lands every copy that  *)
(* an entry vouches for, so the session leaves the text of each modified    *)
(* buffer it had copied at the buffer's key.                                *)
LEMMA ExitKeeps ==
  ASSUME TruthInv, WritesSucceed, Exit, healthy, NEW b \in Buffers, IsModified(b), Unchanged(st, b),
         st.installer.phase # "panicked", bufs[b].path \notin st.installer.failed
  PROVE  st'.disk[bufs[b].path].text = bufs[b].text
<1>1. PICK f \in Weather : Restart(SettleQuietly(st, f).disk)
  BY DEF Exit
<1>2. f \in Fault /\ f.install = {} /\ f.panic = FALSE
  BY WeatherType DEF Weather, Trouble, Chance
<1>3. st \in Cache /\ BufsOK /\ RevsOK /\ Sound(st) /\ InOrder(st) /\ Truthful(st)
  BY DEF TruthInv, OrderInv, TypeOK, BufsOK
<1> DEFINE q == SettleQuietly(st, f)
<1>4. q \in Cache /\ Truthful(q) /\ Settled(q) /\ Flows(st, q)
  BY <1>2, <1>3, SettleType, SettleBacked, SettleOrder
<1>5. Sound(q)
  BY <1>3, <1>4, FlowsTrans, FillsSound
<1>6. q.written[b] = st.written[b]
  <2>1. st.written[b].hash \notin st.installer.failed
    BY DEF Unchanged
  <2> QED
    BY <1>2, <1>3, <2>1, SettleKeepsEntry
<1>7. st'.disk = Left(q.disk)
  BY <1>1 DEF Restart, FreshCache
<1> HIDE DEF q
<1>8. Unchanged(q, b)
  BY <1>6 DEF Unchanged
<1>9. q.installer.phase # "panicked" /\ q.installer.failed = {}
  BY <1>4, NoInstallerFacts DEF Settled, NoInstaller
<1>10. /\ bufs[b].path \in Paths
       /\ Expected(q, bufs[b].path) # NoCopy
       /\ Expected(q, bufs[b].path).text = bufs[b].text
  BY <1>3, <1>4, <1>5, <1>8, <1>9, BackedText
<1>11. Expected(q, bufs[b].path) = q.disk[bufs[b].path]
  BY <1>4, <1>10, NoInstallerFacts DEF Settled, Expected
<1> QED
  BY <1>7, <1>10, <1>11 DEF Left, NoCopy

(* So it is of every quit. *)
THEOREM QuitKeepsCopies == Spec => ExitKeepsCopies
<1>1. TruthInv /\ [Next]_vars => TruthInv'
  BY TruthStep
<1>2. TruthInv /\ [Next]_vars =>
        [WritesSucceed /\ quitting /\ Exit =>
           \A b \in Buffers :
             /\ IsModified(b) /\ Unchanged(st, b)
             /\ healthy /\ st.installer.phase # "panicked"
             /\ bufs[b].path \notin st.installer.failed
             => st'.disk[bufs[b].path].text = bufs[b].text]_vars
  BY ExitKeeps
<1> QED
  BY TruthInit, <1>1, <1>2, PTL DEF Spec, ExitKeepsCopies
=============================================================================
