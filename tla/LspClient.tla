----------------------------- MODULE LspClient -----------------------------
(***************************************************************************)
(* The language-server client: the manager of src/src/lsp.rs and what      *)
(* src/builtin/runtime/lsp.lua does for a buffer: attach it to a server,   *)
(* send its text and later its edits, ask about it, move it to another     *)
(* URI.  Servers are processes under the supervisor (module                *)
(* ProcessSupervisor): each has a pipe to it and events from it, in order, *)
(* and may die at any time; a crashed one is restarted under its id.       *)
(*                                                                         *)
(* One buffer is modelled; a rename gives it another URI of the same       *)
(* project, so one server is wanted.  A text is its number, an answer the  *)
(* text its server held when it read the request.  Everything in `ed` is   *)
(* changed by the main thread alone, one action at a time; `srv` is the    *)
(* servers' side (external).                                               *)
(***************************************************************************)
EXTENDS Integers, Sequences

CONSTANTS
    Sids,       \* server ids, never used twice
    Uris,
    MaxOps,     \* bound on what the user does
    MaxJobs,    \* bound on requests
    MaxDeaths,  \* bound on servers that die of themselves
    MaxEvents,  \* bound on unread events when a server publishes
    Scenarios   \* what a session has, a set for each: the user's "edit", "save",
                \* "ask", "rename", "delete", "cancel", "stop"; a server's
                \* "publish" and "crash"; the configuration's "never" restart

NoSid == 0                   \* no server: ids are counted from 1

ASSUME ConstantsAssumption ==
    /\ MaxOps \in Nat /\ MaxJobs \in Nat /\ MaxDeaths \in Nat /\ MaxEvents \in Nat
    /\ NoSid \notin Sids /\ Uris # {}

VARIABLES
    ed,     \* the editor: manager, attachment and buffer
    srv,    \* sid -> its process
    ops,    \* what the user did so far
    deaths, \* servers that died of themselves
    scene   \* the session's scenario

vars == <<ed, srv, ops, deaths, scene>>

Texts == 0..(MaxOps + 1)     \* 0 is no text
Init0 == 0                   \* the id of `initialize`
Shut == -1                   \* the id of `shutdown`

NoDocs == [u \in Uris |-> 0]
NoClient == [state |-> "none", policy |-> "never", gen |-> 0, armed |-> FALSE,
             due |-> FALSE, term |-> FALSE, told |-> FALSE, pending |-> {},
             dropped |-> {}, deferred |-> <<>>, docs |-> NoDocs, tomb |-> {}]
NoProc == [up |-> FALSE, events |-> <<>>, phase |-> 0, open |-> NoDocs,
           todo |-> {}, bad |-> FALSE]

\* server_is_live: listed, and neither crashed nor stopped.
Live(c) == c.state \in {"starting", "initializing", "initialized", "shutdown"}
Ready(c) == c.state = "initialized"
JobsOf(e, s) == {r \in DOMAIN e.jobs : e.jobs[r].sid = s}

-----------------------------------------------------------------------------
(* Sending.                                                                *)

Send(e, s, m) == [e EXCEPT !.out[s] = Append(@, m)]

\* send_notification: held until the handshake is over, refused when the
\* server is gone (every caller ignores the error).
Notify(e, s, m) ==
    LET c == e.clients[s] IN
    CASE c.state \in {"starting", "initializing"} ->
            [e EXCEPT !.clients[s].deferred = Append(@, m)]
      [] c.state \in {"initialized", "shutdown"} -> Send(e, s, m)
      [] OTHER -> e

\* mark_document_stale makes an entry for a URI unless it was forgotten.
MarkStale(e, s, u) ==
    IF u \in e.clients[s].tomb THEN e ELSE [e EXCEPT !.diag = @ \cup {u}]

\* send_request and register_awaiter: a newer request of one kind about one
\* document flips the token of the older.
Request(e, how) ==
    LET s == e.rec.sid
        r == Len(e.jobs) + 1
        job == [sid |-> s, gen |-> e.clients[s].gen, uri |-> e.rec.uri, how |-> how,
                asked |-> e.text, term |-> e.clients[s].term]
        Key(j) == <<j.sid, j.uri, j.how>>
        older == {k \in e.run : Key(e.jobs[k]) = Key(job)}
    IN  IF e.rec.sid = NoSid \/ r > MaxJobs THEN e
        ELSE IF ~Ready(e.clients[s]) THEN e
        ELSE Send([e EXCEPT !.jobs = Append(@, job), !.run = @ \cup {r},
                            !.routed = @ \cup {r}, !.token = @ \cup older,
                            !.clients[s].pending = @ \cup {r}],
                  s, [msg |-> "request", id |-> r, uri |-> e.rec.uri])

\* did_open: the tombstone goes, the text is mirrored and sent.
DidOpen(e, s, u) ==
    Notify([e EXCEPT !.clients[s].tomb = @ \ {u}, !.clients[s].docs[u] = e.text],
           s, [msg |-> "open", uri |-> u, text |-> e.text])

\* did_change_incremental where it can be built, else did_change_full.
DidChange(e, s, u) ==
    LET c == e.clients[s]
        base == IF Ready(c) THEN c.docs[u] ELSE 0
        held == [e EXCEPT !.clients[s].docs[u] = e.text]
        m == [msg |-> "change", uri |-> u, base |-> base, text |-> e.text]
    IN  IF base = e.text THEN e ELSE Notify(MarkStale(held, s, u), s, m)

\* flush_did_change: the edits not sent yet, and a pull of hints and tokens.
Flush(e) ==
    IF ~e.dirty THEN e
    ELSE LET f == [e EXCEPT !.dirty = FALSE] IN
         IF e.rec.sid = NoSid THEN f
         ELSE Request(DidChange(f, e.rec.sid, e.rec.uri), "pull")

-----------------------------------------------------------------------------
(* Settling requests.                                                      *)

\* complete_external_*: the awaiters of requests rs are woken.
Settle(e, rs) ==
    [e EXCEPT !.run = @ \ rs, !.token = @ \ rs, !.late = @ \ rs]

\* Mutant: what was abandoned is not remembered.
AbandonForgets(e, s, rs) ==
    LET f == [Settle(e, rs) EXCEPT !.routed = @ \ rs,
                       !.clients[s].pending = @ \ rs]
    IN  IF rs = {} THEN e ELSE Notify(f, s, [msg |-> "cancel", ids |-> rs])

\* abandon_request for each of rs, its awaiter settled.
Abandon(e, s, rs) ==
    LET f == [Settle(e, rs) EXCEPT !.routed = @ \ rs,
                       !.clients[s].pending = @ \ rs,
                       !.clients[s].dropped = @ \cup rs]
    IN  IF rs = {} THEN e ELSE Notify(f, s, [msg |-> "cancel", ids |-> rs])

\* drain_external_cancelled.
Drain(e, s) == Settle(e, JobsOf(e, s))

\* Mutant: a request that outlived its time is left to its server.
SweepCancelled(e, s) == Abandon(e, s, e.run \cap JobsOf(e, s) \cap e.token)

\* drain_cancelled_externals: cancelled, superseded and late requests.
Sweep(e, s) == Abandon(e, s, e.run \cap JobsOf(e, s) \cap (e.token \cup e.late))

Cleared(e, s, u) ==
    [e EXCEPT !.store = {x \in @ : ~(x.sid = s /\ x.uri = u)},
              !.diag = @ \ {u}, !.clients[s].docs[u] = 0]

\* forget_uri: tombstone, requests, then stores and mirror of one document.
ForgetUri(e, s, u) ==
    LET doomed == {r \in JobsOf(e, s) \cap e.routed : e.jobs[r].uri = u}
        f == [e EXCEPT !.clients[s].tomb = @ \cup {u}]
    IN  IF e.clients[s].state = "none" THEN e
        ELSE Cleared(Abandon(f, s, doomed), s, u)

-----------------------------------------------------------------------------
(* Starting, stopping and forgetting a server.                             *)

\* start_generation; the process itself is made by Main below.
StartGeneration(e, s) ==
    [Drain(e, s) EXCEPT
        !.routed = @ \ JobsOf(e, s),
        !.clients[s] = [@ EXCEPT !.state = "starting", !.gen = e.clients[s].gen + 1,
                                 !.armed = FALSE, !.due = FALSE, !.term = FALSE,
                                 !.pending = {}, !.dropped = {}, !.deferred = <<>>,
                                 !.docs = NoDocs, !.tomb = {}],
        !.out[s] = <<>>]

\* forget: a terminal server is listed no more, nor restarted.
Forget(e, s) ==
    IF e.clients[s].state \notin {"stopped", "crashed"} THEN e
    ELSE [Drain(e, s) EXCEPT
            !.routed = @ \ JobsOf(e, s), !.out[s] = <<>>,
            !.clients[s] = [NoClient EXCEPT !.gen = e.clients[s].gen]]

\* ensure_server: a listed server that is not dead, else a new one.
Free(e) == {s \in Sids : e.clients[s].gen = 0}
Serving(e) == {s \in Sids : Live(e.clients[s])}
Candidates(e) == IF Serving(e) # {} THEN Serving(e)
                 ELSE {s \in Free(e) : \A t \in Free(e) : s <= t}

EnsureServer(e, s) ==
    IF s \in Serving(e) THEN e
    ELSE StartGeneration([e EXCEPT !.clients[s].policy =
                            IF "never" \in scene THEN "never" ELSE "on_crash"], s)

Opened(e, s) ==
    DidOpen([e EXCEPT !.rec = [sid |-> s, uri |-> e.uri]], s, e.uri)

\* The first half of attach_buffer: a dead server is forgotten with its record.
Released(e) ==
    IF e.rec.sid = NoSid THEN e
    ELSE [Forget(e, e.rec.sid) EXCEPT !.rec = [sid |-> NoSid, uri |-> e.uri],
                                      !.dirty = FALSE]

\* attach_buffer and ensure_server when s is the server found or made.
Attached(e, s) ==
    Request(Opened(EnsureServer(Released(e), s), s), "pull")

HasLive(e) == e.rec.sid # NoSid /\ Live(e.clients[e.rec.sid])

-----------------------------------------------------------------------------
(* What a server sends.                                                    *)

\* on_started.
OnStarted(e, s) ==
    Send([e EXCEPT !.clients[s].state = "initializing",
                   !.clients[s].pending = @ \cup {Init0}],
         s, [msg |-> "initialize"])

\* Mutant: what was held goes out before initialized.
OnInitializedHeldFirst(e, s) ==
    LET f == [e EXCEPT !.clients[s].state = "initialized",
                       !.clients[s].deferred = <<>>,
                       !.clients[s].told = TRUE,
                       !.out[s] = @ \o e.clients[s].deferred]
    IN  Send(f, s, [msg |-> "initialized"])

\* The response to initialize: initialized goes out, then what was held.
OnInitialized(e, s) ==
    LET f == Send([e EXCEPT !.clients[s].state = "initialized",
                            !.clients[s].deferred = <<>>,
                            !.clients[s].told = TRUE],
                  s, [msg |-> "initialized"])
    IN  [f EXCEPT !.out[s] = @ \o e.clients[s].deferred]

\* absorb_routed_response.
Absorb(e, x) ==
    LET j == e.jobs[x.id] IN
    [e EXCEPT !.store =
        {y \in @ : ~(y.sid = j.sid /\ y.uri = j.uri /\ y.how = j.how)}
        \cup {[sid |-> j.sid, uri |-> j.uri, how |-> j.how, id |-> x.id,
               text |-> x.text]}]

\* handle_response.
OnResponse(e, s, x) ==
    LET c == e.clients[s]
        f == [e EXCEPT !.clients[s].pending = @ \ {x.id}]
        g == IF x.id \in e.routed /\ x.ok THEN Absorb(f, x) ELSE f
    IN  IF x.id \in c.dropped THEN [e EXCEPT !.clients[s].dropped = @ \ {x.id}]
        ELSE IF x.id \notin c.pending THEN [e EXCEPT !.stray = TRUE]
        ELSE CASE x.id = Init0 -> OnInitialized(f, s)
               [] x.id = Shut ->
                     [Send(f, s, [msg |-> "exit"]) EXCEPT !.clients[s].state = "shutdown"]
               [] OTHER -> Settle([g EXCEPT !.routed = @ \ {x.id}], {x.id})

\* absorb_publish_diagnostics.
OnPublish(e, s, u) == MarkStale(e, s, u)

\* Mutant: the requests of a server that died are left waiting.
OnExitUndrained(e, s) ==
    LET c == e.clients[s]
        asked == c.state = "shutdown"
    IN  [e EXCEPT
            !.out[s] = <<>>,
            !.clients[s] = [@ EXCEPT
                !.state = IF asked THEN "stopped" ELSE "crashed",
                !.docs = NoDocs,
                !.armed = ~asked /\ c.policy = "on_crash"]]

\* on_exit.
OnExit(e, s) ==
    LET c == e.clients[s]
        asked == c.state = "shutdown"
    IN  [Drain(e, s) EXCEPT
            !.out[s] = <<>>,
            !.clients[s] = [@ EXCEPT
                !.state = IF asked THEN "stopped" ELSE "crashed",
                !.docs = NoDocs,
                !.armed = ~asked /\ c.policy = "on_crash"]]

Handle(s, e, x) ==
    CASE x.ev = "started"  -> OnStarted(e, s)
      [] x.ev = "response" -> OnResponse(e, s, x)
      [] x.ev = "publish"  -> OnPublish(e, s, x.uri)
      [] x.ev = "exit"     -> OnExit(e, s)

-----------------------------------------------------------------------------
(* The main thread.                                                        *)

\* The editor becomes e; a server whose generation is new has a new process,
\* whose Started event is the first.
Main(e, read) ==
    /\ ed' = e
    /\ srv' = [s \in Sids |->
                IF e.clients[s].state = "none" THEN NoProc
                ELSE IF e.clients[s].gen # ed.clients[s].gen
                THEN [NoProc EXCEPT !.up = TRUE, !.events = <<[ev |-> "started"]>>]
                ELSE IF s \in read THEN [srv[s] EXCEPT !.events = <<>>]
                ELSE srv[s]]

User(op) == /\ op \in scene /\ ops < MaxOps
            /\ ops' = ops + 1
            /\ UNCHANGED <<deaths, scene>>

\* What becomes of the editor when the events of s are handled in turn.
Handled(s, events) ==
    LET After[i \in 0..Len(events)] ==
            IF i = 0 THEN {ed} ELSE {Handle(s, e, events[i]) : e \in After[i - 1]}
    IN  After[Len(events)]

\* maybe_restart: a respawn that fails is a crash of its own.
Restarted(e, s) ==
    LET c == e.clients[s]
        f == StartGeneration(e, s)
    IN  IF c.state = "crashed" /\ c.armed /\ c.due
        THEN {f, [f EXCEPT !.clients[s].state = "crashed", !.clients[s].gen = c.gen,
                           !.clients[s].armed = TRUE]}
        ELSE {e}

\* LspManager::tick for one server: its events, the sweep, the restart.
Tick(s) ==
    /\ ed.clients[s].state # "none"
    /\ \E e \in Handled(s, IF Live(ed.clients[s]) THEN srv[s].events ELSE <<>>) :
          \E f \in {Sweep(e, s)} : \E g \in Restarted(f, s) : Main(g, {s})
    /\ UNCHANGED <<ops, deaths, scene>>

\* The async tick's wrapper: an attached server that has initialized is asked
\* again for hints and tokens, and edits whose time has come are sent.
LuaTick(late) ==
    /\ ed.rec.sid # NoSid
    /\ LET s == ed.rec.sid
           e == IF ed.clients[s].told
                THEN Request(Flush([ed EXCEPT !.clients[s].told = FALSE]), "pull")
                ELSE ed
       IN  Main(IF late THEN Flush(e) ELSE e, {})
    /\ UNCHANGED <<ops, deaths, scene>>

\* buffer.after-load, or a command in a buffer whose server is gone.
Attach ==
    /\ ~HasLive(ed)
    /\ \E s \in Candidates(Released(ed)) : Main(Attached(ed, s), {})
    /\ UNCHANGED <<ops, deaths, scene>>

\* buffer.after-edit.
Edit ==
    /\ User("edit")
    /\ LET e == [ed EXCEPT !.text = @ + 1] IN
       Main(IF e.rec.sid = NoSid THEN e
            ELSE MarkStale([e EXCEPT !.dirty = TRUE], e.rec.sid, e.rec.uri), {})

\* did_save, of the text that was saved.
DidSave(e) ==
    LET s == e.rec.sid IN
    IF ~Ready(e.clients[s]) THEN e
    ELSE Notify(e, s, [msg |-> "save", uri |-> e.rec.uri, text |-> e.text])

\* Mutant: the edits go after the save.
SaveOvertakes ==
    /\ User("save") /\ HasLive(ed)
    /\ Main(Flush(DidSave(ed)), {})

\* buffer.after-save.  The retry that some servers ask for, which sends a save
\* again behind a change, is left out.
Save ==
    /\ User("save") /\ HasLive(ed)
    /\ Main(DidSave(Flush(ed)), {})

\* A command about the text: attached_for_active, which sends the edits, and
\* the request.
Ask ==
    /\ User("ask") /\ HasLive(ed)
    /\ Main(Request(Flush(ed), "ask"), {})

\* resource.renamed, the buffer's path being the new one already.
Rename(u) ==
    /\ User("rename") /\ u # ed.uri
    /\ LET e == Flush(ed)
           s == e.rec.sid
           f == ForgetUri([Notify(e, s, [msg |-> "close", uri |-> e.rec.uri])
                              EXCEPT !.clients[s].docs[e.rec.uri] = 0], s, e.rec.uri)
           g == [f EXCEPT !.uri = u, !.dirty = FALSE]
       IN  IF ed.rec.sid = NoSid THEN Main([ed EXCEPT !.uri = u], {})
           ELSE \E t \in Candidates(g) : Main(Opened(EnsureServer(g, t), t), {})

\* resource.deleted.
Delete ==
    /\ User("delete") /\ ed.rec.sid # NoSid
    /\ LET s == ed.rec.sid
           u == ed.rec.uri
           e == [Notify(ed, s, [msg |-> "close", uri |-> u])
                    EXCEPT !.clients[s].docs[u] = 0, !.dirty = FALSE]
       IN  Main([ForgetUri(e, s, u) EXCEPT !.rec = [sid |-> NoSid, uri |-> u]], {})

\* Handle:cancel of a request.
Cancel(r) ==
    /\ User("cancel") /\ r \in ed.run
    /\ Main([ed EXCEPT !.token = @ \cup {r}], {})

\* stop: shutdown is asked of a server that is ready, any other is killed.
Stop(s) ==
    /\ User("stop") /\ ed.clients[s].state # "none"
    /\ LET e == [ed EXCEPT !.clients[s].policy = "never", !.clients[s].armed = FALSE]
           c == e.clients[s]
       IN  Main(IF ~Live(c) THEN e
                ELSE IF Ready(c)
                THEN Send([e EXCEPT !.clients[s].pending = @ \cup {Shut},
                                    !.clients[s].state = "shutdown"],
                          s, [msg |-> "shutdown"])
                ELSE [e EXCEPT !.clients[s].term = TRUE,
                               !.clients[s].state = "shutdown"], {})

\* A request outlives request_timeout; the back-off of a crash is over.
Late(r) ==
    /\ r \in ed.run \ ed.late
    /\ Main([ed EXCEPT !.late = @ \cup {r}], {})
    /\ UNCHANGED <<ops, deaths, scene>>

BackoffPasses(s) ==
    /\ ed.clients[s].armed /\ ~ed.clients[s].due
    /\ Main([ed EXCEPT !.clients[s].due = TRUE], {})
    /\ UNCHANGED <<ops, deaths, scene>>

-----------------------------------------------------------------------------
(* The server's process (external).                                        *)

Emit(p, x) == [p EXCEPT !.events = Append(@, x)]

\* A message is out of order when the handshake is not over, or its document
\* is not open (or is, for open), or a range or a save is of another text.
OutOfOrder(p, m) ==
    CASE m.msg = "initialize"  -> p.phase # 0
      [] m.msg = "initialized" -> p.phase # 1
      [] m.msg = "open"        -> p.phase # 2 \/ p.open[m.uri] # 0
      [] m.msg = "change"      -> \/ p.phase # 2 \/ p.open[m.uri] = 0
                                  \/ m.base \notin {0, p.open[m.uri]}
      [] m.msg = "save"        -> p.phase # 2 \/ p.open[m.uri] # m.text
      [] m.msg \in {"close", "request"} -> p.phase # 2 \/ p.open[m.uri] = 0
      [] m.msg \in {"shutdown", "cancel"} -> p.phase # 2
      [] OTHER                 -> FALSE

\* A strict server takes no notice of such a message, and answers such a
\* request with an error.
Taken(p, m) ==
    LET ok == ~OutOfOrder(p, m)
        q == [p EXCEPT !.bad = @ \/ ~ok]
        Owes(id, t) == [q EXCEPT !.todo = @ \cup {[id |-> id, text |-> t]}]
    IN  CASE m.msg = "request"  -> Owes(m.id, IF ok THEN p.open[m.uri] ELSE 0)
          [] m.msg = "shutdown" -> Owes(Shut, 0)
          [] m.msg = "initialize" /\ ok -> [Owes(Init0, 0) EXCEPT !.phase = 1]
          [] m.msg = "initialized" /\ ok -> [q EXCEPT !.phase = 2]
          [] m.msg \in {"open", "change"} /\ ok -> [q EXCEPT !.open[m.uri] = m.text]
          [] m.msg = "close" /\ ok -> [q EXCEPT !.open[m.uri] = 0]
          [] m.msg = "exit" -> Emit([q EXCEPT !.up = FALSE], [ev |-> "exit"])
          [] OTHER -> q

ServerTakes(s) ==
    /\ srv[s].up /\ ed.out[s] # <<>>
    /\ srv' = [srv EXCEPT ![s] = Taken(srv[s], Head(ed.out[s]))]
    /\ ed' = [ed EXCEPT !.out[s] = Tail(@)]
    /\ UNCHANGED <<ops, deaths, scene>>

\* Answers come in any order, cancelled or not.
ServerAnswers(s, q, ok) ==
    /\ srv[s].up /\ q \in srv[s].todo
    /\ IF q.id \in {Init0, Shut} THEN ok ELSE q.text = 0 => ~ok
    /\ srv' = [srv EXCEPT ![s] = Emit([srv[s] EXCEPT !.todo = @ \ {q}],
                  [ev |-> "response", id |-> q.id, ok |-> ok, text |-> q.text])]
    /\ UNCHANGED <<ed, ops, deaths, scene>>

\* Diagnostics come unasked, for any document of the project.
ServerPublishes(s, u) ==
    /\ "publish" \in scene
    /\ srv[s].up /\ srv[s].phase = 2 /\ Len(srv[s].events) < MaxEvents
    /\ srv' = [srv EXCEPT ![s] = Emit(srv[s], [ev |-> "publish", uri |-> u])]
    /\ UNCHANGED <<ed, ops, deaths, scene>>

ServerDies(s) ==
    /\ srv[s].up
    /\ \/ ed.clients[s].term /\ UNCHANGED deaths
       \/ "crash" \in scene /\ deaths < MaxDeaths /\ deaths' = deaths + 1
    /\ srv' = [srv EXCEPT ![s] = Emit([NoProc EXCEPT !.events = srv[s].events,
                                                   !.bad = srv[s].bad],
                                      [ev |-> "exit"])]
    /\ UNCHANGED <<ed, ops, scene>>

-----------------------------------------------------------------------------
Init ==
    /\ ed \in {[clients |-> [s \in Sids |-> NoClient],
                out |-> [s \in Sids |-> <<>>],
                jobs |-> <<>>, run |-> {}, routed |-> {}, token |-> {},
                late |-> {}, store |-> {}, diag |-> {}, stray |-> FALSE,
                rec |-> [sid |-> NoSid, uri |-> u], uri |-> u, dirty |-> FALSE,
                text |-> 1] : u \in {CHOOSE u \in Uris : TRUE}}
    /\ srv = [s \in Sids |-> NoProc]
    /\ ops = 0 /\ deaths = 0
    /\ scene \in Scenarios

Next ==
    \/ \E s \in Sids : Tick(s)
    \/ \E late \in BOOLEAN : LuaTick(late)
    \/ Attach \/ Edit \/ Save \/ Ask \/ Delete
    \/ \E u \in Uris : Rename(u)
    \/ \E r \in 1..MaxJobs : Cancel(r)
    \/ \E s \in Sids : Stop(s)
    \/ \E r \in 1..MaxJobs : Late(r)
    \/ \E s \in Sids : BackoffPasses(s)
    \/ \E s \in Sids : ServerTakes(s)
    \/ \E s \in Sids : \E q \in srv[s].todo, ok \in BOOLEAN : ServerAnswers(s, q, ok)
    \/ \E s \in Sids, u \in Uris : ServerPublishes(s, u)
    \/ \E s \in Sids : ServerDies(s)

Spec == Init /\ [][Next]_vars

\* The manager ticks and time passes; of servers nothing is assumed.
Fairness ==
    /\ \A s \in Sids : WF_vars(Tick(s))
    /\ \A r \in 1..MaxJobs : WF_vars(Late(r))

FairSpec == Spec /\ Fairness

-----------------------------------------------------------------------------
(* Properties.                                                             *)

\* Every variable has a value of its kind; ids in flight are jobs of the
\* server's own generation, an awaiter waits on a server that lives, and only
\* a crashed server is up for a restart (lsp.rs).
TypeOK ==
    /\ \A s \in Sids : LET c == ed.clients[s] IN
        /\ c.state \in {"none", "starting", "initializing", "initialized",
                        "shutdown", "stopped", "crashed"}
        /\ c.policy \in {"never", "on_crash"}
        /\ c.pending \cap c.dropped = {}
        /\ \A r \in (c.pending \cup c.dropped) \ {Init0, Shut} :
              ed.jobs[r].sid = s /\ ed.jobs[r].gen = c.gen
        /\ c.armed => c.state = "crashed" /\ c.policy = "on_crash"
        /\ c.docs \in [Uris -> Texts] /\ c.tomb \subseteq Uris
    /\ ed.run \subseteq ed.routed /\ ed.routed \subseteq DOMAIN ed.jobs
    /\ \A r \in ed.run : LET c == ed.clients[ed.jobs[r].sid] IN
        r \in c.pending /\ Live(c)
    /\ ed.text \in Texts \ {0} /\ ed.diag \subseteq Uris
    /\ ed.rec.sid \in Sids \cup {NoSid} /\ ed.uri \in Uris

\* The handshake as send_notification's comment states it: a server of any
\* generation reads initialize, then initialized, before anything else, however
\* often its client was restarted and whatever was edited meanwhile.  A server
\* told to stop in its handshake is left out: it is being killed, and messages
\* are not held back from it (lsp.rs:1660 holds them for a starting one only).
HandshakeFirst ==
    \A s \in Sids :
        (srv[s].up /\ ed.out[s] # <<>> /\ ~ed.clients[s].term) =>
            srv[s].phase = CASE Head(ed.out[s]).msg = "initialize"  -> 0
                             [] Head(ed.out[s]).msg = "initialized" -> 1
                             [] OTHER                               -> 2

\* What a server of a first generation has read was in order: no change, close,
\* or request of a document that is not open, no open of one that is, no range
\* and no save of another text, and the handshake before them.  Restarted servers
\* (ReopenedAfterRestart) and those told to stop in their handshake are left
\* out, and a message after `shutdown` is not counted: send_notification refuses
\* only servers that have stopped or crashed (lsp.rs:1638).
ServerTold ==
    \A s \in Sids : srv[s].bad => ed.clients[s].gen > 1 \/ ed.clients[s].term

\* Refuted by LspRestart.cfg.  A restarted server is told of the documents the
\* editor holds before it hears of their edits, as the comments of
\* start_generation say ("the editor's reattach path issues fresh did_opens").
ReopenedAfterRestart ==
    \A s \in Sids : srv[s].bad => ed.clients[s].gen = 1 \/ ed.clients[s].term

\* A command's answer is about the text it was asked about: the edits went
\* first (flush_did_change), and the server had them when it read the request.
\* Of restarted servers nothing is said: LspRestart.cfg shows why.
AnswersCurrent ==
    \A x \in ed.store :
        LET j == ed.jobs[x.id] IN j.gen = 1 /\ ~j.term => x.text = j.asked

\* What forget_uri forgot stays forgotten however late an answer or a publish
\* comes, and no late answer is a response to an unknown request.
LateAnswersDropped ==
    /\ ~ed.stray
    /\ \A s \in Sids : \A u \in ed.clients[s].tomb :
        /\ \A x \in ed.store : ~(x.sid = s /\ x.uri = u)
        /\ (\A t \in Sids \ {s} : ed.clients[t].gen = 0) => u \notin ed.diag

\* No answer is shown for a text or a document it is not about: both of these.
AnswersInv == AnswersCurrent /\ LateAnswersDropped

\* A coroutine that awaits a request is woken, whatever becomes of the server
\* (drain_external_cancelled, drain_cancelled_externals).
AwaitersSettle ==
    \A r \in 1..MaxJobs :
        (r \in ed.run) ~> (r \notin ed.run)
=============================================================================
