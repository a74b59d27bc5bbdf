--------------------------- MODULE AttachSessions ---------------------------
(***************************************************************************)
(* The sessions of a daemon and the windows attached to it: the per-attach *)
(* reader threads and the one dispatcher of src/src/daemon.rs, the session *)
(* registry of src/src/presence.rs, and the window's side of a lost socket *)
(* in src/pmacs-gpu/src/main.rs.  A session ends in one of three ways (its *)
(* reader's EOF, the deadline of the drain that a failed write begins, the *)
(* detach its own quit asked for); one that was lost leaves its view       *)
(* behind for the token the daemon minted for it, and a window reconnects  *)
(* on a schedule, presenting the last token it was given.                  *)
(*                                                                         *)
(* Connections are numbered as the daemon assigns FrontendIds, so the      *)
(* token a session mints, and a view built fresh for it, are named by the  *)
(* session's own number.  A "plain" connection is a client that did not    *)
(* negotiate multi_frontend (it holds the one non-multi slot, is given no  *)
(* token, and is where `pmacs --daemon --stop` comes from).                *)
(***************************************************************************)
EXTENDS Integers, Sequences, FiniteSets

CONSTANTS Gui,           \* the windows that reconnect
          MaxConns,      \* connections the daemon accepts
          MaxOpen,       \* connections open at a time
          Mixes,         \* how many of them are windows', how many plain,
                         \* and how many the network breaks
          MaxQueue,      \* events waiting for the dispatcher
          AttemptCap,    \* RECONNECT_ATTEMPT_CAP
          IdleExit,      \* daemon.idle-exit-secs is not 0
          Plain          \* stands for the owner of a plain connection

ASSUME SessionsAssumption ==
    /\ Mixes \subseteq [gui : Nat, plain : Nat, losses : Nat]
    /\ MaxConns \in Nat /\ MaxOpen \in Nat /\ MaxQueue \in Nat \ {0}
    /\ AttemptCap \in Nat \ {0} /\ IdleExit \in BOOLEAN /\ Plain \notin Gui

Conns == 1..MaxConns
NoConn == 0                 \* also the token None and the view of nobody

VARIABLES
    conns,     \* per connection: [owner, resume, link, in, out]
    rd,        \* per connection, its per_attach_thread
    departing, \* the flags the readers share with the dispatcher
    slot,      \* holder of the NonMultiSlotGuard
    queue,     \* dispatcher_rx
    up,        \* the daemon runs
    sessions,  \* registered sessions: id -> its view
    drains,    \* draining sessions: id -> whether WRITE_FAILURE_DRAIN is over
    retained,  \* token -> the view kept for it
    quit,      \* core.quit
    torn,      \* how often frontend.detached ran for an id
    win,       \* per window: [st, conn, token, failed, bye]
    left,      \* connections and losses still to come, of this run's mix
    seen,      \* tokens a window has read (for the properties)
    said       \* connections whose Detach a reader has read (same)

daemonVars == <<departing, slot, queue, up, sessions, drains, retained, quit,
                torn>>
vars == <<conns, rd, daemonVars, win, left, seen, said>>

Unused == [owner |-> Plain, resume |-> NoConn, link |-> "none",
           in |-> <<>>, out |-> <<>>]
Used == {c \in Conns : conns[c].link # "none"}
OpenConns == {c \in Used : rd[c] # "gone" \/ c \in DOMAIN sessions}
NextId == Cardinality(Used) + 1          \* next_frontend_id

Window(st) == [st |-> st, conn |-> NoConn, token |-> NoConn, failed |-> 0,
               bye |-> "none"]

Init ==
    /\ conns = [c \in Conns |-> Unused]
    /\ rd = [c \in Conns |-> "none"]
    /\ departing = [c \in Conns |-> FALSE]
    /\ slot = NoConn /\ queue = <<>> /\ up = TRUE
    /\ sessions = <<>> /\ drains = <<>> /\ retained = <<>>
    /\ quit = FALSE
    /\ torn = [c \in Conns |-> 0]
    /\ win = [w \in Gui |-> Window("new")]
    /\ left \in Mixes /\ seen = {} /\ said = {}

Without(f, S) == [x \in DOMAIN f \ S |-> f[x]]
With(f, x, v) == [y \in DOMAIN f \cup {x} |-> IF y = x THEN v ELSE f[y]]

(***************************************************************************)
(* The links.  A broken one ("cut") is at EOF for the daemon once what it  *)
(* carried is read, and any write to it fails; a half-closed one ("half",  *)
(* a forwarder whose downstream failed) still delivers input and may never *)
(* end; one the daemon closed is "shut".  What was in flight is delivered  *)
(* or lost.                                                                *)
(***************************************************************************)
Shut(k) == [k EXCEPT !.link = IF @ = "cut" THEN "cut" ELSE "shut"]

Cut(c) ==
    /\ conns[c].link \in {"up", "half"}
    /\ LET counted == conns[c].owner # Plain /\ conns[c].link = "up" IN
       /\ counted => left.losses > 0
       /\ left' = IF counted THEN [left EXCEPT !.losses = @ - 1] ELSE left
    /\ \E i \in {<<>>, conns[c].in}, o \in {<<>>, conns[c].out} :
          conns' = [conns EXCEPT ![c].link = "cut", ![c].in = i, ![c].out = o]
    /\ UNCHANGED <<rd, daemonVars, win, seen, said>>

HalfClose(c) ==
    /\ conns[c].link = "up" /\ conns[c].owner # Plain /\ left.losses > 0
    /\ left' = [left EXCEPT !.losses = @ - 1]
    /\ \E o \in {<<>>, conns[c].out} :
          conns' = [conns EXCEPT ![c].link = "half", ![c].out = o]
    /\ UNCHANGED <<rd, daemonVars, win, seen, said>>

(***************************************************************************)
(* The window.                                                             *)
(***************************************************************************)
Post(k, c) ==
    /\ Len(queue) < MaxQueue
    /\ queue' = Append(queue, [k |-> k, c |-> c])

\* The handshake of a connection, which client and per_attach_thread make in
\* step, up to SessionEstablished.  A plain client takes the non-multi slot or
\* is turned away (Goodbye AlreadyAttached).
Connected(owner, resume, sent) ==
    /\ up /\ NextId \in Conns /\ Cardinality(OpenConns) < MaxOpen
    /\ LET kind == IF owner = Plain THEN "plain" ELSE "gui" IN
       left[kind] > 0 /\ left' = [left EXCEPT ![kind] = @ - 1]
    /\ LET admitted == owner # Plain \/ slot = NoConn IN
       /\ conns' = [conns EXCEPT ![NextId] =
            [owner |-> owner, resume |-> resume, in |-> sent, out |-> <<>>,
             link |-> IF admitted THEN "up" ELSE "shut"]]
       /\ rd' = [rd EXCEPT ![NextId] = IF admitted THEN "reading" ELSE "gone"]
       /\ slot' = IF admitted /\ owner = Plain THEN NextId ELSE slot
       /\ IF admitted THEN Post("established", NextId) ELSE UNCHANGED queue
    /\ UNCHANGED <<departing, up, sessions, drains, retained, quit, torn>>

\* The first attach of a window: installed as soon as it is connected.
Open(w) ==
    /\ win[w].st = "new"
    /\ Connected(w, NoConn, <<>>)
    /\ win' = [win EXCEPT ![w].st = "live", ![w].conn = NextId]
    /\ UNCHANGED <<seen, said>>

\* tick_reconnect once the attempt is due, its connect made.
Attempt(w) ==
    /\ win[w].st = "lost"
    /\ Connected(w, win[w].token, <<>>)
    /\ win' = [win EXCEPT ![w].st = "pending", ![w].conn = NextId]
    /\ UNCHANGED <<seen, said>>

Failed(r) ==
    [r EXCEPT !.failed = @ + 1, !.bye = "none",
              !.st = IF r.failed + 1 >= AttemptCap THEN "capped" ELSE "lost"]

\* A connect or a handshake that fails.
AttemptFails(w) ==
    /\ win[w].st = "lost"
    /\ win' = [win EXCEPT ![w] = Failed(@)]
    /\ UNCHANGED <<conns, rd, daemonVars, left, seen, said>>

\* One message read: the token accepts a pending attempt, a Goodbye is kept
\* for the close that follows it.
Receive(w) ==
    LET c == win[w].conn IN
    /\ win[w].st \in {"live", "pending"}
    /\ conns[c].out # <<>>
    /\ conns' = [conns EXCEPT ![c].out = Tail(@)]
    /\ IF Head(conns[c].out) = "token"
       THEN /\ win' = [win EXCEPT ![w].token = c, ![w].st = "live"]
            /\ seen' = seen \cup {c}
       ELSE /\ win' = [win EXCEPT ![w].bye = Head(conns[c].out)]
            /\ UNCHANGED seen
    /\ UNCHANGED <<rd, daemonVars, left, said>>

\* A Disconnected event: a lost socket arms the schedule unless a Goodbye came first,
\* and the close of a pending attempt is its failure.
Hangup(w) ==
    LET c == win[w].conn IN
    /\ win[w].st \in {"live", "pending"}
    /\ conns[c].out = <<>> /\ conns[c].link \in {"half", "cut", "shut"}
    /\ win' = [win EXCEPT ![w] =
                 IF @.st = "pending" THEN Failed(@)
                 ELSE CASE @.bye = "detached" -> Window("closed")
                        [] @.bye = "shutting" -> [@ EXCEPT !.st = "told"]
                        [] OTHER -> [@ EXCEPT !.st = "lost", !.failed = 0]]
    /\ UNCHANGED <<conns, rd, daemonVars, left, seen, said>>

\* The window is closed: detach() puts Detach on the socket, and the exit of
\* the process closes it.  A window with no session just goes.
Close(w) ==
    LET c == win[w].conn IN
    /\ win[w].st \in {"live", "pending", "lost", "told", "capped"}
    /\ win' = [win EXCEPT ![w] = Window("closed")]
    /\ conns' = IF win[w].st \in {"live", "pending"}
                  /\ conns[c].link \in {"up", "half"}
                THEN [conns EXCEPT ![c].link = "cut", ![c].out = <<>>, ![c].in =
                        IF win[w].st = "live" THEN Append(@, "detach") ELSE @]
                ELSE conns
    /\ UNCHANGED <<rd, daemonVars, left, seen, said>>

\* The window's own quit, a command its input runs in the daemon.
AskToLeave(w) ==
    LET c == win[w].conn IN
    /\ win[w].st = "live" /\ conns[c].link = "up" /\ conns[c].in = <<>>
    /\ ~\E i \in DOMAIN queue : queue[i] = [k |-> "leave", c |-> c]
    /\ conns' = [conns EXCEPT ![c].in = Append(@, "leave")]
    /\ UNCHANGED <<rd, daemonVars, win, left, seen, said>>

\* A plain client, which may be `pmacs --daemon --stop`.
PlainOpens(ask) ==
    /\ Connected(Plain, NoConn, ask)
    /\ UNCHANGED <<win, seen, said>>

(***************************************************************************)
(* per_attach_thread: the reader loop, and SessionDetached before the      *)
(* slot's guard is dropped.                                                *)
(***************************************************************************)
\* Mutant: only the queued event tells of the departure.
ReaderReadsQuietly(c) ==
    /\ up /\ rd[c] = "reading" /\ conns[c].in # <<>>
    /\ LET m == Head(conns[c].in) IN
       /\ said' = IF m = "detach" THEN said \cup {c} ELSE said
       /\ Post(m, c)
    /\ conns' = [conns EXCEPT ![c].in = Tail(@)]
    /\ UNCHANGED <<rd, departing, slot, up, sessions, drains, retained, quit, torn,
                   win, left, seen>>

\* A Detach sets the shared flag before it is queued.
ReaderReads(c) ==
    /\ up /\ rd[c] = "reading" /\ conns[c].in # <<>>
    /\ LET m == Head(conns[c].in) IN
       /\ departing' = [departing EXCEPT ![c] = @ \/ m = "detach"]
       /\ said' = IF m = "detach" THEN said \cup {c} ELSE said
       /\ Post(m, c)
    /\ conns' = [conns EXCEPT ![c].in = Tail(@)]
    /\ UNCHANGED <<rd, slot, up, sessions, drains, retained, quit, torn,
                   win, left, seen>>

ReaderEof(c) ==
    /\ up /\ rd[c] = "reading"
    /\ conns[c].in = <<>> /\ conns[c].link \in {"cut", "shut"}
    /\ rd' = [rd EXCEPT ![c] = IF slot = c THEN "ending" ELSE "gone"]
    /\ Post("detached", c)
    /\ UNCHANGED <<conns, departing, slot, up, sessions, drains, retained,
                   quit, torn, win, left, seen, said>>

ReaderDrops(c) ==
    /\ up /\ rd[c] = "ending"
    /\ rd' = [rd EXCEPT ![c] = "gone"]
    /\ slot' = NoConn
    /\ UNCHANGED <<conns, departing, queue, up, sessions, drains, retained,
                   quit, torn, win, left, seen, said>>

(***************************************************************************)
(* The dispatcher.  Its registry is passed from step to step as one value. *)
(***************************************************************************)
Registry == [sessions |-> sessions, drains |-> drains, retained |-> retained,
             conns |-> conns, torn |-> torn, departing |-> departing]

Becomes(r) ==
    /\ sessions' = r.sessions /\ drains' = r.drains /\ retained' = r.retained
    /\ conns' = r.conns /\ torn' = r.torn /\ departing' = r.departing

\* Mutant: a draining session no longer holds its token.
HoldsUndrained(r, token) ==
    token \in DOMAIN r.sessions \ DOMAIN r.drains /\ r.conns[token].owner # Plain

\* session_holding: the registered session that minted the token.
Holds(r, token) == token \in DOMAIN r.sessions /\ r.conns[token].owner # Plain

\* detach_frontend, the one teardown, for every session of S that is still
\* registered: the session goes (a draining one's socket is shut with it), the
\* view of a lost one is kept for its token, frontend.detached runs.
Detach(r, S) ==
    LET T == S \cap DOMAIN r.sessions
        Kept == {c \in T : r.conns[c].owner # Plain /\ ~r.departing[c]} IN
    [r EXCEPT
       !.sessions = Without(@, T),
       !.drains = Without(@, T),
       !.conns = [c \in Conns |->
                    IF c \in T \cap DOMAIN r.drains THEN Shut(@[c]) ELSE @[c]],
       !.torn = [c \in Conns |-> IF c \in T THEN @[c] + 1 ELSE @[c]],
       !.retained = [c \in DOMAIN @ \cup Kept |->
                       IF c \in Kept
                       THEN r.sessions[c] ELSE @[c]]]

\* The bootstrap of a session that is not refused.  A retained view is taken,
\* any other token is a fresh view; a write that fails drops the view, a taken
\* one too; after the last one, the token's, the session takes the stream.
Bootstrapped(r, c) ==
    LET k == r.conns[c]
        view == IF k.resume \in DOMAIN r.retained
                THEN r.retained[k.resume] ELSE c
        taken == [r EXCEPT !.retained = Without(@, {k.resume})]
        told == IF k.owner = Plain THEN <<>> ELSE <<"token">> IN
    IF k.link # "up" /\ k.owner # Plain
    THEN [taken EXCEPT !.conns[c] = Shut(k)]
    ELSE [taken EXCEPT !.sessions = With(@, c, view), !.conns[c].out = @ \o told]

\* Mutant: a refused socket is left open.
EstablishedSilent(r, c) ==
    IF Holds(r, r.conns[c].resume) THEN r ELSE Bootstrapped(r, c)

\* handle_session_established.  A token whose session is registered closes the
\* new socket and registers nothing.
Established(r, c) ==
    IF Holds(r, r.conns[c].resume) THEN [r EXCEPT !.conns[c] = Shut(@)]
    ELSE Bootstrapped(r, c)

\* The detach a frontend's own quit asked for.
Leave(r, c) ==
    IF c \notin DOMAIN r.sessions THEN r
    ELSE LET told == IF c \in DOMAIN r.drains THEN r
                     ELSE [r EXCEPT !.conns[c] =
                             Shut([r.conns[c] EXCEPT !.out = Append(@, "detached")])]
         IN Detach([told EXCEPT !.departing[c] = TRUE], {c})

\* handle_dispatcher_event; a frontend event of no session is dropped, and a
\* Detach does nothing here.
Handled(r, e) ==
    CASE e.k = "established" -> Established(r, e.c)
      [] e.k = "detached" -> Detach(r, {e.c})
      [] e.k = "leave" -> Leave(r, e.c)
      [] OTHER -> r

Handle ==
    /\ up /\ queue # <<>>
    /\ queue' = Tail(queue)
    /\ \E r \in {Handled(Registry, Head(queue))} : Becomes(r)
    /\ quit' = \/ quit
               \/ Head(queue).k = "stop" /\ Head(queue).c \in DOMAIN sessions
    /\ UNCHANGED <<rd, slot, up, win, left, seen, said>>

\* Writes of the pass that find their peer gone begin a drain.
Deaf(r) == {c \in DOMAIN r.sessions \ DOMAIN r.drains : r.conns[c].link # "up"}
Written(r, failing) ==
    [r EXCEPT !.drains = [c \in DOMAIN @ \cup failing |->
                            IF c \in failing THEN FALSE ELSE @[c]]]

\* The top of the loop: the drains past their deadline are torn down, then the
\* retained views past session.view-retention-secs dropped.
Overdue == {c \in DOMAIN drains : drains[c]}
Swept(r, expired) == [r EXCEPT !.retained = Without(@, expired)]

\* The daemon stops: a Goodbye to every session that still has a stream, and
\* the process ends, its sessions and views with it and every socket closed.
Stopped(r) ==
    [r EXCEPT
       !.sessions = <<>>, !.drains = <<>>, !.retained = <<>>,
       !.conns = [c \in Conns |->
          LET k == [@[c] EXCEPT !.in = <<>>] IN
          IF k.link = "none" THEN k
          ELSE Shut(IF c \in DOMAIN r.sessions \ DOMAIN r.drains /\ k.link = "up"
                    THEN [k EXCEPT !.out = Append(@, "shutting")] ELSE k)]]

Unattached(r) == DOMAIN r.sessions = {} /\ DOMAIN r.retained = {}

\* One pass.  Which views have expired, which writes fail and whether the idle
\* clock (held while anything is attached or retained) has run out is open.  The
\* loop drains its queue between two passes, but readers post at any time, so
\* a pass may find any events waiting.
Pass ==
    /\ up
    /\ \E d \in {Detach(Registry, Overdue)} :
       \E expired \in SUBSET DOMAIN retained : \E r \in {Swept(d, expired)} :
       \E failing \in SUBSET Deaf(r) : \E w \in {Written(r, failing)} :
       \E idle \in {FALSE, IdleExit /\ Unattached(w)} :
         IF quit \/ idle
         THEN /\ up' = FALSE /\ queue' = <<>>
              /\ \E r2 \in {Stopped(w)} : Becomes(r2)
         ELSE UNCHANGED <<up, queue>> /\ Becomes(w)
    /\ UNCHANGED <<rd, slot, quit, win, left, seen, said>>

\* A pass that has a teardown or a stop to carry out.
DuePass == (Overdue # {} \/ quit) /\ Pass

\* WRITE_FAILURE_DRAIN passes.
DrainPasses(c) ==
    /\ up /\ c \in DOMAIN drains /\ ~drains[c]
    /\ drains' = [drains EXCEPT ![c] = TRUE]
    /\ UNCHANGED <<conns, rd, departing, slot, queue, up, sessions,
                   retained, quit, torn, win, left, seen, said>>

Reader(c) == ReaderReads(c) \/ ReaderEof(c) \/ ReaderDrops(c)
Reconnect(w) == Attempt(w) \/ AttemptFails(w)
Reading(w) == Receive(w) \/ Hangup(w)

Next ==
    \/ \E c \in Conns : \/ Cut(c) \/ HalfClose(c) \/ Reader(c)
                        \/ DrainPasses(c)
    \/ \E w \in Gui : \/ Open(w) \/ Reconnect(w) \/ Reading(w)
                      \/ Close(w) \/ AskToLeave(w)
    \/ PlainOpens(<<>>) \/ PlainOpens(<<"stop">>)
    \/ Handle \/ Pass

Spec == Init /\ [][Next]_vars

(***************************************************************************)
(* The reader threads and the dispatcher run, a drain's deadline passes, a *)
(* window reads its socket and its schedule fires.  Nothing makes a peer   *)
(* close, a write fail or a user act.                                      *)
(***************************************************************************)
FairSpec ==
    /\ Spec
    /\ WF_vars(\E c \in Conns : Reader(c))
    /\ WF_vars(\E c \in Conns : DrainPasses(c))
    /\ WF_vars(Handle) /\ WF_vars(DuePass)
    /\ \A w \in Gui : WF_vars(Reconnect(w)) /\ WF_vars(Reading(w))

(***************************************************************************)
(* Properties.                                                             *)
(***************************************************************************)
\* The types, and that an id is torn down once: frontend.detached runs at most
\* once for it, never while it is registered, and before its view is kept.
TypeOK ==
    /\ \A c \in Conns :
         /\ conns[c].owner \in Gui \cup {Plain}
         /\ conns[c].resume \in 0..MaxConns
         /\ conns[c].link \in {"none", "up", "half", "cut", "shut"}
         /\ conns[c].in \in Seq({"detach", "leave", "stop"})
         /\ conns[c].out \in Seq({"token", "detached", "shutting"})
    /\ rd \in [Conns -> {"none", "reading", "ending", "gone"}]
    /\ departing \in [Conns -> BOOLEAN]
    /\ slot \in 0..MaxConns
    /\ up \in BOOLEAN /\ quit \in BOOLEAN
    /\ DOMAIN drains \subseteq DOMAIN sessions
    /\ DOMAIN sessions \cap DOMAIN retained = {}
    /\ torn \in [Conns -> 0..1]
    /\ \A c \in DOMAIN sessions : torn[c] = 0 /\ sessions[c] \in Conns
    /\ \A t \in DOMAIN retained : torn[t] = 1 /\ retained[t] \in Conns
    /\ \A w \in Gui :
         /\ win[w].st \in {"new", "live", "lost", "pending", "told", "capped",
                           "closed"}
         /\ win[w].failed \in 0..AttemptCap

\* A view is in one place: no two sessions, no two tokens, and no session and
\* token, have the same one.
ViewOf(t) == IF t \in DOMAIN sessions THEN sessions[t] ELSE retained[t]
ViewsHeldOnce ==
    \A s, t \in DOMAIN sessions \cup DOMAIN retained :
        ViewOf(s) = ViewOf(t) => s = t

\* At most one session that did not negotiate multi_frontend is registered,
\* although the slot is taken by a reader thread and sessions are registered
\* and torn down by the dispatcher, later (NonMultiSlotGuard).
OneNonMulti ==
    Cardinality({c \in DOMAIN sessions : conns[c].owner = Plain}) <= 1

\* A window never has two views in the daemon under tokens it was given: when
\* its reconnect comes before the daemon has noticed the loss, it is refused
\* rather than given a fresh view beside its own (handle_session_established).
OneViewPerWindow ==
    \A s, t \in seen \cap (DOMAIN sessions \cup DOMAIN retained) :
        conns[s].owner = conns[t].owner => s = t

\* The registry: one teardown per session, one place per view, one view per
\* window and one non-multi session.
SessionsInv == TypeOK /\ ViewsHeldOnce /\ OneNonMulti /\ OneViewPerWindow

\* No view is kept for a frontend whose reader had read its Detach by the time
\* of the teardown, whichever teardown it was (detach_frontend: the flag is
\* shared because the teardowns race the event queue).
NoViewForTheDeparted ==
    [][\A t \in DOMAIN retained' \ DOMAIN retained : t \notin said]_vars

\* A window that lost its socket does not stay in between: it is accepted, or
\* told, or gives up at the cap, or is closed, since every attempt is answered
\* by the token or by a close (PendingAttach).  And a session whose write failed
\* is torn down even if its peer never closes (WRITE_FAILURE_DRAIN), so that
\* the token a window presents does not stay live for good.
SessionsSettle ==
    /\ \A w \in Gui : win[w].st \in {"lost", "pending"}
                        ~> win[w].st \in {"live", "told", "capped", "closed"}
    /\ \A c \in Conns : c \in DOMAIN drains ~> c \notin DOMAIN sessions
=============================================================================
