# A TLA+ model of pmacs

pmacs is a text editor: a core in Rust (`src/src`), a Lua runtime on top of it
(`src/builtin`), a daemon that serves terminal and GPU frontends over a Unix
socket, and helper processes (language servers, MCP servers, parse units). This
directory holds TLA+ modules of its concurrent and failure-prone parts, TLC
configurations that check them on small instances, and TLAPS proofs.

Source paths below are relative to `src/`.

## 1. Inventory

| Component | State it keeps | Operations | What is hard | What makes it correct |
|---|---|---|---|---|
| **Crash-recovery copies** (`src/autosave.rs`, `builtin/runtime/autosave.lua`) | `written`, `owner`, `staged`, `installer`, `retiring`, the directory | stage, install, collect, retire, adopt, discard; ticks, quit, exit | an installer thread against saves, kills, renames, quits and crashes; failures of each call | no modified text without a copy that the cache believes copied; crash data is never overwritten; older never lands on newer |
| **Daemon lock and socket** (`src/lockfile.rs`, `src/daemon.rs`, `src/daemon_control.rs`, `src/daemon_attach.rs`) | the lockfile inode, the socket file | acquire, replace a stale socket, bind, stop, `--status`, auto-start | several processes, each system call a step, crashes in between | one daemon serves; it can be reached; starting over any leftovers works |
| **Async runtime** (`src/async_runtime.rs`, `src/worker.rs`, `src/message_bus.rs`, `builtin/runtime/async.lua`) | pending jobs, cancellation tokens, the supersede table, stream buffers, the parse handoff, parked coroutines | dispatch, cancel, await, on_complete, tick, stream batches, external completions | workers against ticks; duplicate and late replies; code run from inside a tick | one outcome per job, taken once; who waits alone is told; streams in order and closed; supersession |
| **Process supervisor** (`src/process.rs`) | processes, generations, reap ledger, event queues | spawn, signal, poll, restart, drain, shutdown | restart against kill and shutdown; output against exit; descendants that outlive a leader; system calls that fail | no restart after a forget or a shutdown; events in the order of a process's life; no group left behind |
| **Parse isolation and scheduling** (`src/parse_isolation.rs`, `src/syntax.rs`, `builtin/runtime/syntax.lua`, `pmacs-parse-unit`) | a slot per buffer, a unit per slot, crash streaks, deadlines | run, bury, re-establish, kill, install, retry | four observers of one death; a kill racing an answer | a dead unit's answer is not installed; a death is recorded once; a stopped buffer stays stopped |
| **Collaborative editing** (`src/crdt.rs`, `src/optimistic.rs`, `src/buffer_mirror.rs`, the dispatcher) | the document, mirrors, stale carets, the queue of operations to tell | optimistic apply, round trip, broadcast, caret, idle flag, snapshot | operations, keys, carets and snapshots crossing on two streams | replicas converge; no caret overtakes its edit; optimism comes back |
| **Attach sessions** (`src/presence.rs`, `src/daemon.rs`, `pmacs-gpu/src/main.rs`) | sessions, tokens, drains, retained views, the non-multi slot | attach, detach, drain, reconnect, expire, stop, idle exit | a write failure against the reader's EOF and a reconnect; a shared flag against a queue | one view per window; a session is torn down once; none is kept for who left |
| **LSP and MCP clients** (`src/lsp.rs`, `builtin/runtime/lsp.lua`, `src/mcp.rs`) | servers, routes, awaiters, documents, deferred and coalesced notifications | attach, change, request, cancel, time out, rename, restart, stop | late responses, server deaths and renames against one another | every awaiter is woken; no answer is shown for another text or document; the server hears only what it may |
| **Buffers, undo, registry**, **commands, hooks, keymaps, minibuffer**, **windows** | sequential editor state | edits, look-ups, prompts, splits | long sequences of legal calls | undo returns to earlier texts; ids are not reused |
| **Packages**, **terminal sessions**, **kill ring and other Lua features** | install trees, screens, rings | | | |
| **Rendering, frontends, grammars, Lua glue** | | | pure or generated | not modelled |

How they interact: everything but workers, the installer thread, reader threads
and other processes runs on one main thread, which each frame drains the bus,
ticks the clients and the supervisor, runs Lua waiters and hooks, and lets
autosave's `process.after-tick` hook run. Workers and reader threads talk to it
through channels; daemons, attachers and control clients meet only through the
file system and the socket. `PROJECT.json` lists the hazards of each, with the
line where each bites and the properties about it.

## 2. Modules

| Module | What it is |
|---|---|
| `Autosave` | crash-recovery copies over several sessions |
| `AutosaveProofs` | type correctness; the safety of crash data, the order and the claims of copies, the truth of the skip cache |
| `DaemonLifecycle` | daemons, attachers and control clients on one socket path |
| `DaemonLifecycleProofs` | type correctness; what the handover from one daemon to the next survives, and who may take a daemon's socket |
| `AsyncRuntime` | jobs, supersession, streams, handles, the tick |
| `AsyncRuntimeProofs` | type correctness; single outcomes, supersession, the parse handoff, results taken once, streams |
| `ProcessSupervisor` | generations, output and events, restarts, the reap ledger, shutdown |
| `ProcessSupervisorProofs` | one live generation, what a shutdown leaves, no late start, events in order |
| `ParseUnits` | parses of a buffer in worker processes, and their scheduling |
| `Highlighter` | what a parse view promises; `ParseUnits` implements it |
| `ParseUnitsProofs` | earned stops, no request dropped; the refinement of `Highlighter` |
| `Collab` | one document, a daemon and terminal frontends with mirrors |
| `CollabProofs` | no caret before its edit, and convergence |
| `LspClient` | a buffer and its language servers |
| `LspClientProofs` | type correctness; what servers are told, in order; answers current, nothing forgotten brought back |
| `AttachSessions` | sessions of a daemon, and windows that lose their socket |
| `AttachSessionsProofs` | one session, one teardown, one view; none for who left |
| `MC...` | an instance of each for TLC |

### Autosave

The main thread's handlers are functions of one record `st`: `CacheInner`'s
fields, the directory (`disk`) and Lua's `last_error`. `Absorb`, `Retire`,
`TakeInstaller`, `Settle`, `SettleQuietly`, `BeginInstall`, `Collect`, `Stage`,
`Sweep`, `DiscardBuffer`, `DiscardPath`, `Adopt` bear the names of the functions
they model; actions (`Save`, `Kill`, `Tick`, `BeforeQuit`, `Exit`, ...) compose
them as the Lua hooks do. The installer thread is three actions (`InstallOne`,
`InstallerExit`, `InstallerPanic`) that interleave with all of them. `Exit` and
`Crash` start the next session on what is on disk, whose copies are then crash
data.

Abstractions. A text is a stamp, so two buffers have the same text only if one
is a copy of the other's. `key_for` is taken to be injective, so a path is its
key. The interval is the flag `due`, raised by `TimerDue`. What fails during a
handler is one record of `Weather`, chosen anew for each; a session's `mix`, one
of `Mixes`, says what may fail at all in it (`Faults`) and what the user does
(`Ops`). `SkipIsSafe`, `WrittenOwnsSlot` and `ExitKeepsCopies` are about
sessions whose staging writes succeed (`WritesSucceed`): with a failure they are
false (section 3). The metadata read after a rename is assumed to succeed. The
order of installs within a batch is arbitrary. Recovery's status query is part
of `RecoverAsk`. Buffers without a path, and two processes that share a state
directory, are not modelled.

### DaemonLifecycle

`pc[d]` is where a daemon process is in `run_daemon`; each action is one system
call of it: `OpenLock`, `FlockNB`, `CheckStale`, `RemoveStale`, `Bind`,
`Listen`, and on the way out `CleanSocket`, `UnlinkLock`, `DropLock`. A lockfile
is a path that names an inode; `flock` locks the inode a process has open, and
`unlink` removes the name only. Files are named after the process that made
them, since each daemon process runs once; `Leftover` is a file of an earlier
one. Attachers connect, spawn and poll; control clients connect, look again and
remove. A behaviour's `ops`, one of `Scenarios`, says whether daemons are stopped
or crash, attachers give up and control clients ask.

Two things the lock is said to exclude happen: a process can lock a lockfile that
was unlinked after it opened it, and `--status` can remove a live daemon's socket
(section 3). So the properties come in two groups. `StartupSafe` and
`AutoStartConnects` are about behaviours with neither stops nor questions
(`Undisturbed`), and promise there what the comments do. `HandoverKept` and
`SocketKept` have no such condition: they say that these two are the only ways in
which a handover is lost or a socket taken.

Abstractions. Sockets are the only files at the socket path. The pid written
into the lockfile is advisory and left out. A connect succeeds when the daemon
listens, and is refused between bind and listen or when its daemon is gone.

### AsyncRuntime

`state`, `token`, `buf` and `spec` are the fields of a `PendingJob`; `supersede`
and `handoff` the tables beside them; `pool[j]` where the pool is with a job;
`bus` the channel to the main thread. The tick is a sequence of actions: one
`TickRecv` per reply drained, `TickPrune`, one `Deliver` per settled job,
`TakeStreamBatches`, `InstallSettled` (the part of `syntax.lua` that wraps
`pmacs._async.tick`). Workers run between any two of them. While the code of a
waiter just told runs (`inUser`), it may dispatch, cancel, await and register
callbacks, all in the middle of the tick. With `"share"` among `Ops`, as in every
run, two tasks may use one handle: then the result is taken by the first of them and
the other is told that it is pending, or is left parked, which is not what
`async.lua:525` says. `OneTaker` states what holds of any users of a handle.

Abstractions. `call` stands for sleep, sum and all file operations: jobs that
answer once. Handlers look at their token at places of their own, so a set token
may be seen or missed by an answer (`Answers`) and by an item (`WorkerEmit`).
An external job is answered by any outcome and then, possibly, by the
cancellation of a clean-up. Replies are well formed. The completion ring,
purposes, dispatch names, the activity summary and shutdown change nothing that
is modelled. The deques and the parker of the pool are abstracted to the
fairness of the pool.

### ProcessSupervisor

`procs`, `evq`, `pending` and `ledger` are the supervisor's fields; `leaders`,
`desc` and `out` what runs outside it: a generation's leader, the descendant it
left (silent, holding the output, or escaped from the group) and the output
between its pipe, its reader thread and its channel. A tick is a sequence of
steps, `TickDrain`, then for each process `PollQuiet`, `PollRestart` or
`PollDead`, then `TickLedger`; the final drain of a dead generation
(`DrainTake`, `DrainFinished`, `DrainKill`, `DrainCut`, `DrainAgain`) and `Reap`
are steps of their own, so children and readers act in between. `Ticking` says
who calls the tick: the frame, and the two loops of `shutdown`.

Abstractions. Output is counted in chunks; an exit is clean or not. Deadlines
are flags that time raises (`BackoffPasses`, `GracePasses`, `DrainBoundPasses`).
Up to `MaxFaults` system calls fail, as the fault seams of the code let them.
PTYs with their foreground group, errors of `try_wait`, recycled pids, the
stdin writer and the one deadline that the reaps of a tick share are left out.

### ParseUnits and Highlighter

`view` is the `ParseView`, `lua` what `syntax.lua` keeps of the buffer, `jobs`
the parse jobs on the pool, `slot` the host's slot, `units` the worker
processes. `Edit` and `Visit` dispatch at most one parse and note what comes
meanwhile; `JobCalls`, `UnitAnswers`, `JobParsed`, `JobFailed`, `JobDesync`,
`JobDeath`, `JobTimesOut` are the steps of `run`; `Settle` is the tick's
`_install_settled` with the marks, the follow-up and the retry after it. Reads
of the tree on display find a death too (`ReadFindsDeath`), kill a worker that
does not answer them in time (`ReadTimesOut`) and may start one again
(`Reestablish`). `Bury` is the one place where a death is recorded. What the
user sees of a parse that came back without a tree is `lua.mark`, a mark in the
buffer, or `lua.lost`: `"told"` by the notice of the session (parsing
unavailable), or `"silently"`. A parse ends silently when it was cancelled, when
its worker failed it, and when its worker was stopped by a slow read or ended
without a crash (`DeathMessage`, `JobFailed`, `Marked`).

`Highlighter` is the abstract specification: a view paints plain or a parse of
one of the buffer's texts, and never goes back to an older text than it has
painted. `Highlights == H!Spec` maps its two variables to fields of `view`.

Abstractions. One buffer, since slots share only the watchdog. A text is the
number of edits that led to it; a mirror is the text a worker holds, or
`Garbled` when edits were applied to another text than theirs. A worker's cause
of death is a crash, a kill that sets a mark (deadline, memory watch, watchdog, user)
or an end that sets none (a slow read, an end of its stream). A worker that answers
out of turn is left out. Serials
are reused once nothing refers to them. A back-off of a second or more ends
after what saw it has settled, except in the scenario "late". Injected layers,
queries, and changes of mode or of the memory limit are left out.

### Collab

`hist` is the operations made, each with those it was made on; a replica is the
set it has integrated and the set it holds back until their past is there,
which is what the CRDT library gives (external). `up` and `down` are the two
streams of a frontend. `Press` is the frontend's loop: it applies a character
at once if its caret is fresh, the daemon's dispatch idle and the document in
its window (`MayApply`), and otherwise sends the key. `Handle` is the
dispatcher's event, with the broadcast and the early caret that follow it;
`Tick` the end of a pass: Lua's edits, the broadcast, the idle flag and the
caret of every frontend.

Abstractions. Where in the text an edit falls, and whether a command edits, are
free choices. Read-only buffers, oversize operations, detaching, per-source
undo and GPU frontends are left out.

### LspClient

Everything the main thread owns is the record `ed`: the manager's clients,
routes, awaiters and stores, Lua's attachment and pending change, the buffer.
Its functions keep their names (`Notify` is `send_notification`, `Flush`
`flush_did_change`, `Abandon`, `Sweep`, `ForgetUri`, `StartGeneration`,
`EnsureServer`, `Absorb`, ...), and actions compose them as the hooks, the
commands and the tick do. A save carries the text it saved, which is compared
with the text the server has (`DidSave`, `OutOfOrder`). `srv` is the servers'
side (external): each reads its pipe in order, answers what it read in any
order, publishes and dies.

Abstractions. One buffer and one project; a text is its number, an answer the
text the server had when it read the request. `request_timeout` is a flag that
time raises (`Late`). Spawn failures at the first attach, malformed frames,
requests made by the server, watchers, save retries, workspace requests and the
blocking wait of formatting are left out.

### AttachSessions

`conns` is the sockets with what is in flight each way, `rd` the per-attach
reader threads, `queue` the dispatcher's channel, `sessions`, `drains` and
`retained` the registry, `win` the windows. The reader reads, posts and frees
the non-multi slot (`ReaderReads`, `ReaderEof`, `ReaderDrops`); `Handle` is one
event of the dispatcher with the detach requested by it; `Pass` the top of its
loop: overdue drains, expired views, a write to any session that may fail,
quit, idle exit. A window opens, receives, loses its socket, attempts again on
the schedule and gives up at the cap. Links break (`Cut`) or half-close with
what they carried delivered or lost.

Abstractions. A handshake is one step. A pass may come between any two events,
though the code drains several events in a row. Expiry of a view, the idle
clock and the outcome of a write are free choices. Ids are numbers given in
order, and a token or a fresh view is named by the session it was made for. A
plain client is a grid session that did not negotiate `multi_frontend`.
A Goodbye that a pending attempt holds back until it is accepted
(`pmacs-gpu/src/main.rs:6427`) is left out, since the modelled daemon writes none
before the token. Initial targets, oversize snapshots, the desktop file, retention
of 0 and the content of input are left out.

## 3. Runs

All runs are exhaustive for their instance. A run's `Ops`, `Faults`, `Loads`,
`Scenarios` or `Mixes` say which operations it explores: a set of scenarios is
chosen from in the initial state, so that one run covers several sessions, none
of which has everything happen at once.

| Run | Instance | Checks |
|---|---|---|
| `AutosaveSessions` | 2 buffers, 2 paths, 3 edits, 7 mixes: undo, rename, save, kill, quit, crash; disable; crash data with recover, discard and forced sweeps; failing installs, a panicking installer, failing writes; 750,454 states | `TypeOK`; `SkipIsSafe`: a buffer the pass would skip has its text in the newest copy on disk or in flight; `SessionCopiesClaimed`: no copy of this session is left without owner or pending removal; `CrashDataUnaimed`: nothing targets unclaimed crash data; `WrittenOwnsSlot`; `ExitKeepsCopies`: an exit lands what was staged; `OnlyRecoverOrDiscard`: only the user releases crash data; `NoStaleLanding`: no older copy over a newer one |
| `AutosaveLive` | 1 path, staging failures that stop, kill, quit, fairness; 33,600 states | `EventuallyProtected`, `DeadBuffersReleased` |
| `DaemonRestarts` | 3 daemons, 2 attachers, 1 control client, crashes; time-outs, or clean stops and questions; fairness; 273,870 states | `DaemonTypeOK`; `StartupSafe`: without stops and questions, one daemon serves, its socket is the one at the path, and a lock holder finds the path as it left it; `AutoStartConnects`; `HandoverKept`: with them, no step but a stale flock loses the handover; `SocketKept`: who may take the socket |
| `AsyncJobs` | 2 jobs, 2 items in batches of 1, 2 workers, 1 key, 2 tasks that may share a handle, fairness; 521,742 states | `AsyncTypeOK`, `SupersedeTracks`, `ParseHandoff`, `StreamFaithful`, `OneTaker`, `OutcomeStable`, `AwaitResumes`, `StreamCloses` |
| `Processes` | 1 process of any policy, in a group or not, 2 generations, 1 chunk, a channel of 1, 1 fault, fairness; 208,076 states | `SupervisorInv`: one live generation, which a record stands for, and nothing left behind by shutdown but through a failed kill or probe; `StoryInOrder`; `NoLateStart`; `GroupsEventuallyGone` |
| `Parse` | 2 texts, 2 crashes, 3 workers, 6 scenarios, fairness; 714,176 states | `ParseInv`: a crash counts once, and no request is dropped, so that an unmarked idle buffer shows its own text unless its last parse came back without a mark; `Highlights`: the refinement; `EventuallyCurrent` |
| `Collab` | 2 frontends, 2 operations, 2 keys each, fairness; 506,148 states | `ReplicaInv`: no caret before its edit, and convergence; `OptimismReturns` |
| `Lsp` | 2 servers, 2 URIs, 2 actions of the user, 2 requests, 1 death, 8 scenarios, fairness; 209,161 states | `TypeOK`; `HandshakeFirst`: servers of every generation; `ServerTold`: what one of a first generation has read was in order; `AnswersInv`: what is shown; `AwaitersSettle` |
| `Sessions` | 1 window, 3 connections, 2 at a time, up to 2 losses, a cap of 2 attempts, fairness; 148,055 states | `SessionsInv`: one teardown, one place per view, one view per window, one non-multi session; `NoViewForTheDeparted`; `SessionsSettle` |
| `DaemonStopRace` | 3 daemons, clean stops | violated: `AtMostOneServing` |
| `DaemonStatusRace` | 2 daemons, 1 control client | violated: `ServingReachable` |
| `LspRestart` | 2 servers, edits, 1 crash | violated: `ReopenedAfterRestart` |

Bounds. Two buffers that may visit the same path and two paths are what
conflicts, renames onto another's slot and orphaned keys need; three edits let a
copy be stale twice. Three daemons are what a lock race needs: one that leaves
and two that come, of which one locks the lockfile that the first has unlinked.
Two jobs are a predecessor and a successor of a key; two items in batches of one
make a stream settle with items left. The number of edits (`MaxClock`), jobs
(`MaxJobs`) and items (`MaxItems`) bound behaviours; they are guards of `Edit`,
`Dispatch` and `WorkerEmit`. One process is enough for `ProcessSupervisor`,
since two share only the tick; two generations are a restart, one chunk in a
channel of one fills it. Two texts are a parse and the edit that overtakes it,
two crashes a streak that stops, and three workers one that retires, one that
died and the next. Two frontends and two operations make each other's edits
concurrent and one wait for the other; three would add an operation between. Two
servers are a dead one and its replacement. Three connections are a lost one, an
attempt that overtakes the loss and one that follows it; the safety properties
of `Sessions` were also run with two losses over three attaches (556,915
states). Deadlock is not checked where everything may come to its end: daemons,
`Parse` after a kill of the buffer, `Collab` and `Sessions` when the users stop.

Fairness. `Autosave`: the run loop ticks on a frame timeout (`Tick`), time
passes (`TimerDue`), the installer thread is scheduled (`InstallOne`,
`InstallerExit`); `Heal` says that whatever fails stops failing some day, which
is an assumption about the disk, without which no copy can be promised.
`DaemonLifecycle`: processes run, and attachers poll every 50 ms. `AsyncRuntime`:
the tick, and the pool as a whole while it can go on with any job. Users, panics,
crashes and external responders have no fairness: an LSP request is failed by a
10 s time-out of its own, an MCP request has none. So `AwaitResumes` and
`StreamCloses` except jobs nobody answers for. `ProcessSupervisor`: ticks while
somebody calls them, the loops of shutdown, the reader threads, and time.
Children have none: they need not write, exit or obey SIGTERM. `ParseUnits`: the
pool runs its jobs, a call is bounded by its deadline, the tick settles and
retries; back-offs end, and since time does not wait for the user's visits, that
is strong fairness. `Collab`: the tick, the dispatcher and the frontends' loops.
`LspClient`: the tick and the time-out; servers have none. `AttachSessions`: the
readers, the dispatcher and its passes while one is due, the drain's deadline,
and a window that reads and follows its schedule; users and links have none.

### Disagreements with the code's comments

Some configurations are instances that TLC refutes: each states what a comment
says and finds a behaviour of the code that breaks it. Three are runs of
`PROJECT.json` with a finding each:

* `DaemonStopRace` (`AtMostOneServing`): a stop unlinks the lockfile and then
  unlocks it; a process that had opened the old file locks it after that, and
  another creates and locks a new one: two daemons serve
  (`src/lockfile.rs:16` and `:134`). It takes three daemons.
* `DaemonStatusRace` (`ServingReachable`): `--status` removes the socket of a
  daemon that bound it after the refused connect (`src/daemon_control.rs:25`).
* `LspRestart` (`ReopenedAfterRestart`): after a restart on crash nobody sends
  `didOpen` again, since the attachment counts as live, though
  `start_generation` relies on it (`src/lsp.rs:1514`): the next change is of a
  document the server does not know.

The others are shown by `tlc -config X.cfg M`:

* `AsyncShared.cfg` (`ToldOutcome`, the instance of `AsyncJobs`): with two users of
  one handle, the first takes the result and the other is told the settled job is
  pending (`builtin/runtime/async.lua:525`). `AsyncJobs` checks what is left of it,
  `OneTaker`.
* `AutosaveOrphan.cfg` (`AlwaysOwned`, that is `WrittenOwnsSlot` without its
  condition): after a rename, a pass retires the old key and its owner and then
  stops at the first write that fails. The skip cache keeps an entry for a slot the
  buffer no longer owns, against the invariant `adopt` names
  (`src/autosave.rs:857`). After a rename back the entry looks unchanged, and the
  buffer is skipped though no copy of it is left.
* `AutosaveLeak.cfg` (`DeadBuffersReleased`): an install fails, which drops the
  entry but not the owner; the buffer is killed; the pass finds dead buffers
  through the entries only, so the slot stays owned for the session
  (`src/autosave.rs:496`).
* `ProcessDrain.cfg` (`NothingLeft`): `final_drain_runtime` promises output "until
  its readers have all finished and nothing is left" (`src/process.rs:2786`); what
  a reader sends between the take and the look at the readers is dropped.
* `ParseLeak.cfg` (`KilledKeepsNoWorker`): `forget` ends a killed buffer's worker
  so that none is kept per buffer ever opened (`src/parse_isolation.rs:1252`); a
  parse that was queued then makes a slot and a worker anew.
* `ParseCancel.cfg` (`TreeOfItsText`): a parse cancelled before it began settles
  as "none", which does not mark the view unparsed
  (`src/lua_bindings/mod.rs:8795`), so the next request lacks the edits it
  drained; an edit that keeps the length passes the worker's length check.
* `ParseRetry.cfg` (`EventuallyCurrent`, with settles later than the back-off):
  the retry is armed only while the back-off is seen to run, so a crash that
  settles after it is not retried until the next edit or visit.
* `ParseSilent.cfg` (`LossIsTold`): a parse that settles as "failed" leaves the old
  tree on display, and neither the tick wrapper (`builtin/runtime/syntax.lua:929`)
  nor the settle marks the buffer or tells the user, though the outcomes are
  returned "for `syntax.lua` to tell the user once" (`src/lua_bindings/mod.rs:8762`).
* `CollabRace.cfg` (`AppliedAsDispatched`): a `CursorByte` on its way clears the
  staleness that a later key has set (`src/buffer_mirror.rs:411`), so a frontend
  applies a character by itself that the daemon would have taken as the second
  stroke of a prefix (`src/editor.rs:1776`).

Smaller observations. `sweep`'s comment says that "individual buffers never abort
the pass" (`src/autosave.rs:416`); the `?` in its write loop does. A job that
panics never replies (`src/worker.rs:311`), while `src/async_runtime.rs:27` says
its closure "always responds via the bus": its entry and its waiter stay. An
`await` of a handle whose result was taken parks a coroutine for good. A result
nobody takes stays in the pending table for good. Crashes that reach the cap
through `reestablish` leave the mark "crashed" rather than "stopped". An
operation refused by `validate_remote_crdt_op` stays in its author's mirror, so
`Converged` excepts that frontend. A paste's operation waits for the tick, and an
early caret of the same burst precedes it. A language server that crashes, whose
buffer is renamed before its restart is due, may come back beside its
replacement. A stop of a server that is still starting is overwritten by its
queued `Started` event. A token lost on a breaking socket leaves the view it
names to expire; a bootstrap that fails after it took a retained view drops the
view. When a drain's deadline passes, events that its reader had posted during
the last ticks are dropped, though the comment says they are dispatched
(`src/daemon.rs:1620`).

## 4. Proofs

TLAPS proves the following for every value of the constants, from the named
assumptions of the modules (the constants that stand for "none" differ from the
others; bounds are natural numbers).

Autosave.

* `TypeCorrect`: `Spec => []TypeOK`, through one lemma per function of the cache.
* `CrashDataSafe` and `CrashDataReleasedOnlyByUser`: `CrashDataUnaimed` is not
  inductive, since landing an arbitrary staged copy could create crash data. The
  invariant `CrashInv` adds that what is staged or with the installer is this
  session's and that the installer works within its batch (`WellFormed`). Each
  operation is shown to preserve `Good` and to leave crash copies alone (`Kept`),
  with any faults; `Kept` composes over the calls of a handler. Any `Mixes` are
  covered, with `remove` and `spawn` failures too, which no run has; a session's mix
  never changes (`MixStays`).
* `NothingLandsLate` (`NoStaleLanding`). `OrderInv` adds that the copies of one
  buffer at one key are in the order of their revisions: staged after being
  installed after in place (`Ordered`), that an installer that has ended has
  nothing left to install (`Tidy`), and that every copy in flight is no newer
  than its buffer and, at the buffer's revision, has its text (`Sound`). A
  handler either lets what flies flow (`Flows`) or adds copies of modified
  buffers as they are (`Fills`); both compose, which is how one lemma per
  function of the cache covers the ticks that call several. Any faults.
* `CopiesStayClaimed` (`SessionCopiesClaimed`), from `ClaimInv`, which says the
  same of copies that are staged or still to be installed. It assumes that
  removals fail in no mix: one that fails leaves a copy with no owner behind.
* `SkipsAreBacked` (`SkipIsSafe`), `EntriesOwned` (`WrittenOwnsSlot`) and
  `QuitKeepsCopies` (`ExitKeepsCopies`), all from `TruthInv`: an entry of the
  skip cache is `Backed`, that is, its buffer owns the slot, and the copy
  `Expected` at the key when all that is in flight has landed, failed or been
  removed is the one of the entry's buffer and revision. Failed installs belong
  to what is expected, since the entry goes only when the installer is taken;
  with `Sound` a copy of the buffer's revision has its text. The theorems assume
  nothing; the properties themselves except sessions in which a staging write may
  fail, where they are false (`AutosaveOrphan.cfg` above). Installs, removals,
  spawns and the installer may fail.

DaemonLifecycle.

* `ExclusionKept` (`HandoverKept`), for any number of processes of each kind and
  any stops, crashes and questions: `Handover` holds at the start, and every step
  keeps it but the flock of a lockfile that is no longer at its path
  (`HandoverStep`). `Handover` is what excludes: while it lasts one daemon serves
  and a cleanup removes no socket but its own (`HandoverSafe`, a corollary).
* `SocketTakers` (`SocketKept`), in every state, after a lost handover too: nobody
  takes the socket a daemon relies on but a control client that was refused before
  or a process with another lockfile. `LockInv` says that a lockfile is held by one
  process at most, so that two that share one are never both past their flock.

Both quantify over all behaviours of the model; that a lost handover and a lost
socket do occur is `DaemonStopRace` and `DaemonStatusRace`.

AsyncRuntime.

* `AsyncTypeCorrect`; `OutcomesStable` (an action property, from the moves a
  job's state can make); `SupersedeKept`, whose `SupersedeInv` adds that the jobs
  waiting for delivery have settled, that there are none outside the drain and
  the delivery, and that the table names none of them once it is pruned;
  `ParsesHandedOff`, whose `HandoffInv` adds for each job that while the pool has
  it, it is running and has no reply on the bus, that a tree goes in before the
  only reply of its job, and that this reply, while on its way, implies the tree.
* `ResultTakenOnce` (`OneTaker`), handles shared or not: `TakerInv` says that
  who waits has been told nothing, that who was told something uses a job that is
  gone, and that of every job that is gone one user, and only one, has the outcome.
* `StreamsFaithful` (`StreamFaithful`): `StreamInv` says of each stream that what
  was delivered and what is buffered are the first items in order (`Handed`),
  that the bus has exactly the rest, once, in order, and none behind the reply
  that settles the stream (`OnTheWay`), and that a settled stream has none on the
  way (`Counted`).

ProcessSupervisor.

* `NothingLeftBehind` (`SupervisorInv`) and `NothingStartsLate` (`NoLateStart`).
  `SupervisorIInv` adds that only started generations leave descendants, that a
  drain is of a process whose leader is dead and whose group is armed, and what
  the ledger lacks of the live groups in each phase of the shutdown: only those a
  probe dropped, then those the first signal failed for, then those every signal
  failed for.
* `EventsInOrder` (`StoryInOrder`): a process's story, what was read, queued and
  pending of it, is sorted by generation and kind and has come no further than
  the process has (`Reached`).

ParseUnits.

* `ParsingEarned` (`ParseInv`): one parse at a time, which is the one `syntax.lua`
  waits for and which runs with the slot's worker (`JobInv`); a crash the slot's
  worker died of is not yet in the streak (`SlotInv`); a view with neither mark nor
  parse is of the buffer's text unless its last parse was one of those that set no
  mark. It does not say that the user hears of those; `ParseSilent.cfg` shows the
  opposite.
* `PaintsItsTexts`: `Spec` implements `Highlighter`, by the two facts of a
  refinement (initial states, and every step a step of `H!Next` or a stutter),
  in sessions that do not both cancel queued parses and overwrite in place
  (`Careful`); with both, `ParseCancel.cfg` shows that a tree is not of its text.
  `MirrorInv` says that the mirror of a worker in step is the text which the next
  request's edits start from.

AttachSessions.

* `OneOfEach` (`SessionsInv`) and `NothingKeptForTheDeparted`
  (`NoViewForTheDeparted`). `SessionsIInv` adds the numbering of connections, that
  a session still to be registered is nowhere yet and its establishment comes
  before anything else of it in the queue, that the slot is its holder's while
  the reader lives and a plain session whose reader left has its detach queued
  ahead of the next establishment (`SlotInv`, `PlainInv`), and what tokens a
  window has been given (`WindowInv`). The steps of the dispatcher are `Calmer`,
  a relation that composes over teardowns, expiry and writes, or register one
  session (`Registers`).

Collab.

* `ReplicasConverge` (`ReplicaInv`), for any number of frontends, operations and
  keys, and any scenario. `CollabInv` keeps the account behind both halves: every
  operation the document has integrated is, for each frontend attached, in its
  mirror, in its stream, or in the queue and not withheld from it (`Covers`);
  a `CursorByte` saw only what the stream has brought before it (`StreamFits`);
  a mirror has its frontend's own operations and otherwise only what the daemon
  has had (`MirrorFits`); events leave a frontend in the order they were made
  (`UpFits`), so that what waits in the document waits for an operation of the
  same frontend that was refused and is not on its way (`LossFits`). An import is
  shown to integrate just what has its past (`ImportFits`, which needs that an
  operation is made on a closed set: `HistFits`), an edit of the daemon's to free
  nothing that waits (`EditFits`), and what the daemon writes to be additions at
  the end of a stream (`CatFits`, `TellFits`, `PassFits`).
* `Told` goes along a queue of any length. `SetInduction` derives induction over
  the naturals, for a set instead of a predicate, from the library's well-founded
  minimum; `KeptExists` and `KeptFits` use it to show that the recursive function
  in `Told` exists, and that its last value has exactly what is not the
  frontend's own.

LspClient.

* `ClientTypeCorrect` (`TypeOK`), `ServersAreToldInOrder` (`ServerTold`) and
  `AnswersAreCurrent` (`AnswersInv`), for any number of servers, documents, edits,
  requests and deaths, and any scenario. `ServerTold` leaves restarted servers out
  (`LspRestart`) and says nothing of messages on their way; `ClientInv` does. Per
  server, `ServerFits`: to read what is in the pipe, in order, takes the server from
  where it is to where its client thinks it is, every message suiting on the way,
  and so will the notifications deferred until the handshake is over (`TalkFits`,
  `Course`); no id is asked, owed or answered twice, and every answer that may
  come is expected (`WireFits`); where handshake and shutdown are
  (`HandshakeFits`); an answer on its way is about the text that was asked about
  (`AnswersFit`). `Broken` sets aside a server stopped in its handshake.
* Of the editor, `ClientFits`, `JobsFit`, `StoreFits` and `DiagFits` are its
  books; `DocsFit` says that a first generation holds only the attached document,
  and `RecFits` that its text is the buffer's unless a change is pending: that is
  why a request, which flushes first, asks about the text that the server has.
* Every function that an action composes keeps `Core`, and those that end a
  hook, a command or a tick give back `DocsFit` and `RecFits` too. A handler that
  starts servers changes both sides of the pipe; `Moves` composes what it does
  to each. `HandledExists` and `HandledFits` take a tick through any number of
  events, as `KeptFits` does a queue in `Collab`.

Only model-checked: every liveness property, since fairness and `ENABLED` are out
of the prover's reach (`EventuallyProtected`, `DeadBuffersReleased`,
`AutoStartConnects`, `AwaitResumes`, `StreamCloses`, `GroupsEventuallyGone`,
`EventuallyCurrent`, `OptimismReturns`, `AwaitersSettle`, `SessionsSettle`); and two
invariants, `StartupSafe` and `HandshakeFirst`.

## 5. Plan

Done: the modules above, and proofs of every invariant and action property that
their runs check but `StartupSafe` and `HandshakeFirst`. Liveness stays with TLC.

Modules that would follow: the MCP client (as `LspClient`, with a resource
cache), terminal sessions over `ProcessSupervisor`, buffers with undo groups,
packages, the parker of `src/worker.rs`.

## 6. Not modelled

Rendering and frontends (pure functions of the editor state), grammars and
queries (vendored and generated), the Lua glue but for the calls mapped in
`PROJECT.json`, the layout of windows, search and file-system queries (stateless;
as jobs they are in `AsyncRuntime`). Buffers with undo, minibuffer and menus, the
kill ring and other features in Lua, and the package resolver are sequential and
have little that a unit test does not reach; terminal screens are byte parsing.
The MCP client repeats the structure of `LspClient`.

## 7. Running

    tlc -workers 2 -config AutosaveSessions.cfg MCAutosave
    tlapm AutosaveProofs.tla

`PROJECT.json` names the module and configuration of each run, the source lines
each definition models, and for each property a variant of one definition that
breaks it (the definitions whose comments begin "Mutant").
