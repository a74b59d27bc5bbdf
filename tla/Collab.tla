------------------------------- MODULE Collab -------------------------------
(***************************************************************************)
(* One document edited from several terminal frontends.  Each keeps a      *)
(* mirror of it (src/src/buffer_mirror.rs) and, when it believes it knows  *)
(* the caret and that the daemon would insert the key, applies a character *)
(* at once and sends the operation (src/src/optimistic.rs, the loop of     *)
(* src/src/attach.rs); any other key it sends as it is.  The daemon        *)
(* (src/src/daemon.rs) imports operations, runs keys, and tells every      *)
(* replica of every operation and of its own caret.                        *)
(*                                                                         *)
(* Operations are numbered; a replica is the set it has integrated, and    *)
(* replicas with the same set have the same text, which is what the CRDT   *)
(* library gives (external).  An operation waits in a replica until those  *)
(* it was made on are there.  Where the caret is within a line is a free   *)
(* choice at each key.  Frontends and daemon talk over two FIFO streams.   *)
(***************************************************************************)
EXTENDS Integers, Sequences, FiniteSets

CONSTANTS
    Frontends,
    Daemon,      \* the daemon's own peer
    MaxOps,      \* bound on the operations of a session
    MaxKeys,     \* bound on the keys a user presses
    MaxDown,     \* bound on the unread messages of a frontend when a tick writes
    Scenarios    \* what a session has, one set for each: keys "edit", "prefix",
                 \* "paste"; "hook" edits, "lua" edits, "switch" of buffers

ASSUME ConstantsAssumption ==
    /\ Daemon \notin Frontends
    /\ MaxOps \in Nat /\ MaxKeys \in Nat /\ MaxDown \in Nat \ {0}

VARIABLES
    hist,     \* the operations made: who made each, and on which
    doc,      \* the daemon's document
    queue,    \* pending_crdt_ops: operations to tell, and whom not to
    sess,     \* frontend -> its session, window and key dispatcher
    mirror,   \* frontend -> its mirror, and what it believes of the daemon
    up,       \* frontend -> events on their way to the daemon
    down,     \* frontend -> messages on their way from it
    keys,     \* frontend -> keys pressed
    refused,  \* frontends an operation of whose was refused
    ops       \* the session's scenario

vars == <<hist, doc, queue, sess, mirror, up, down, keys, refused, ops>>

Ids == 1..MaxOps
Empty == [in |-> {}, held |-> {}]
Attached == {f \in Frontends : sess[f].on}

\* The CRDT's import of operation n: it and what waits for it, once everything
\* they were made on is there.
Import(h, r, n) ==
    LET all == r.in \cup r.held \cup {n}
        in == {m \in all : h[m].past \subseteq all}
    IN  [in |-> in, held |-> all \ in]

\* An edit of the replica r by peer p: the history with its operation, which
\* is the last one.
Made(h, p, r) == Append(h, [by |-> p, past |-> r.in])

Key(kind) == [msg |-> "key", kind |-> kind]
OpEvent(n) == [msg |-> "op", n |-> n]
Snapshot == [msg |-> "snapshot", in |-> doc.in]
Caret(seen, w) == [msg |-> "cursor", win |-> w, seen |-> seen]
IdleMsg(v) == [msg |-> "idle", idle |-> v]

-----------------------------------------------------------------------------
(* The frontend.                                                           *)

\* frontend_event_for_keystroke applies a text key at once: dispatch is idle,
\* the active buffer has a mirror and its caret is fresh (and at the end of a
\* line, the caller's choice).
MayApply(f) ==
    /\ mirror[f].idle /\ mirror[f].active = "doc"
    /\ mirror[f].ready /\ ~mirror[f].stale

\* The attach loop marks the active buffer's caret stale after every event.
Sent(m) == [m EXCEPT !.stale = @ \/ m.active = "doc"]

\* A character typed at the end of a line, applied to the mirror and sent as
\* an operation.
TypeOptimistic(f) ==
    /\ f \in Attached /\ keys[f] < MaxKeys /\ Len(hist) < MaxOps
    /\ MayApply(f)
    /\ LET h == Made(hist, f, mirror[f].text)
           m == [mirror[f] EXCEPT !.text = Import(h, @, Len(h))]
       IN  /\ hist' = h
           /\ mirror' = [mirror EXCEPT ![f] = Sent(m)]
           /\ up' = [up EXCEPT ![f] = Append(@, OpEvent(Len(h)))]
    /\ keys' = [keys EXCEPT ![f] = @ + 1]
    /\ UNCHANGED <<doc, queue, sess, down, refused, ops>>

\* Any other key, mouse event or paste goes to the daemon as it is.
Press(f, kind) ==
    /\ f \in Attached /\ keys[f] < MaxKeys
    /\ kind \in ops
    /\ mirror' = [mirror EXCEPT ![f] = Sent(@)]
    /\ up' = [up EXCEPT ![f] = Append(@, Key(kind))]
    /\ keys' = [keys EXCEPT ![f] = @ + 1]
    /\ UNCHANGED <<hist, doc, queue, sess, down, refused, ops>>

\* init_from_snapshot: once.
TakeSnapshot(f, m) ==
    IF mirror[f].ready THEN mirror[f]
    ELSE [mirror[f] EXCEPT !.ready = TRUE, !.text = [Empty EXCEPT !.in = m.in]]

\* apply_incoming_crdt_op: an echo of its own is skipped, another's operation
\* goes into the mirror and makes the caret stale.
TakeOp(f, m) ==
    IF hist[m.n].by = f \/ ~mirror[f].ready THEN mirror[f]
    ELSE [mirror[f] EXCEPT !.text = Import(hist, @, m.n), !.stale = TRUE]

\* set_cursor_byte_pos: the buffer is active and its caret fresh.
TakeCaret(f, m) ==
    [mirror[f] EXCEPT !.active = m.win,
                      !.stale = IF m.win = "doc" THEN FALSE ELSE @]

\* The attach loop takes the next message of the daemon.
Take(f) ==
    /\ down[f] # <<>>
    /\ LET m == Head(down[f]) IN
       mirror' = [mirror EXCEPT ![f] =
           CASE m.msg = "snapshot" -> TakeSnapshot(f, m)
             [] m.msg = "op"       -> TakeOp(f, m)
             [] m.msg = "cursor"   -> TakeCaret(f, m)
             [] m.msg = "idle"     -> [mirror[f] EXCEPT !.idle = m.idle]]
    /\ down' = [down EXCEPT ![f] = Tail(@)]
    /\ UNCHANGED <<hist, doc, queue, sess, up, keys, refused, ops>>

-----------------------------------------------------------------------------
(* The daemon.                                                             *)

DispatchIdle(s) == ~s.prefix /\ s.win = "doc"

\* Mutant: the sender of a key is left out as the sender of an operation is.
ToldSkipping(q, f) ==
    SelectSeq(q, LAMBDA e : e.except # f /\ (e.except # Daemon \/ e.key # f))

\* The operations of q that frontend f is told of: all but those it made.  It is
\* a SelectSeq, spelt out for the proofs.
Told(q, f) ==
    LET kept[i \in 0..Len(q)] ==
            IF i = 0 THEN <<>>
            ELSE IF q[i].except = f THEN kept[i - 1] ELSE Append(kept[i - 1], q[i])
    IN  kept[Len(q)]

\* broadcast_pending_crdt_ops.
Broadcast(dn, q) ==
    [f \in Frontends |->
        IF f \notin Attached THEN dn[f]
        ELSE dn[f] \o [i \in 1..Len(Told(q, f)) |-> OpEvent(Told(q, f)[i].n)]]

\* confirm_cursor_early: only when f has been told that dispatch is idle, and
\* it still is.
Confirm(dn, f, seen, s) ==
    IF s.told = "idle" /\ DispatchIdle(s)
    THEN [dn EXCEPT ![f] = Append(@, Caret(seen, s.win))]
    ELSE dn

\* An edit of the daemon's own, made for frontend f's key if that is who
\* asked; nobody's mirror has it yet.
Queued(n, f) == [n |-> n, except |-> Daemon, key |-> f]

\* handle_remote_crdt_op of frontend f's operation n: import it, confirm the
\* caret, run the hooks, which may edit, and tell the others.  An operation
\* that has to wait for others changes no text, but is told.
RemoteOp(f, n, hook) ==
    LET d == Import(hist, doc, n)
        edited == n \in d.in
        h == IF hook THEN Made(hist, Daemon, d) ELSE hist
        q == queue \o (IF hook THEN <<Queued(Len(h), f)>> ELSE <<>>)
                   \o <<[n |-> n, except |-> f, key |-> f]>>
        late == {queue[i].n : i \in 1..Len(queue)}
    IN  /\ hook => edited /\ "hook" \in ops /\ Len(hist) < MaxOps
        /\ hist' = h
        /\ doc' = IF hook THEN Import(h, d, Len(h)) ELSE d
        /\ down' = Broadcast(IF edited THEN Confirm(down, f, d.in \ late, sess[f])
                              ELSE down, q)
        /\ queue' = <<>>
        /\ UNCHANGED sess

\* validate_remote_crdt_op: an operation on a buffer that is not the one in
\* f's window is dropped.
RefusedOp(f) ==
    /\ sess[f].win # "doc"
    /\ refused' = refused \cup {f}
    /\ UNCHANGED <<hist, doc, queue, sess, down>>

\* A key runs its command, which may edit; then the operations go out, and the
\* caret after them.
KeyRun(f, s, edit) ==
    LET h == IF edit THEN Made(hist, Daemon, doc) ELSE hist
        d == IF edit THEN Import(h, doc, Len(h)) ELSE doc
        q == IF edit THEN Append(queue, Queued(Len(h), f)) ELSE queue
    IN  /\ edit => Len(hist) < MaxOps
        /\ hist' = h /\ doc' = d /\ queue' = <<>>
        /\ sess' = [sess EXCEPT ![f] = s]
        /\ down' = Confirm(Broadcast(down, q), f, d.in, s)

\* dispatch_key: a prefix waits for its second stroke, which runs a command
\* whatever key it is; a switch shows another buffer in the window.
KeyEvent(f, kind) ==
    LET s == sess[f] IN
    \/ s.prefix /\ KeyRun(f, [s EXCEPT !.prefix = FALSE], FALSE)
    \/ ~s.prefix /\ kind = "prefix" /\ KeyRun(f, [s EXCEPT !.prefix = TRUE], FALSE)
    \/ ~s.prefix /\ kind = "switch"
       /\ KeyRun(f, [s EXCEPT !.win = IF @ = "doc" THEN "other" ELSE "doc"], FALSE)
    \/ ~s.prefix /\ kind = "edit" /\ \E edit \in BOOLEAN :
       KeyRun(f, s, edit /\ s.win = "doc")

\* handle_inbound_paste: the operation waits in the queue for the tick.  A
\* paste elsewhere, or beyond the bound, leaves the document alone.
PasteEvent(f) ==
    /\ IF sess[f].win = "doc" /\ Len(hist) < MaxOps
       THEN /\ hist' = Made(hist, Daemon, doc)
            /\ doc' = Import(hist', doc, Len(hist'))
            /\ queue' = Append(queue, Queued(Len(hist'), f))
       ELSE UNCHANGED <<hist, doc, queue>>
    /\ UNCHANGED <<sess, down>>

\* The dispatcher handles the next event of frontend f.
Handle(f) ==
    /\ up[f] # <<>>
    /\ LET e == Head(up[f]) IN
       IF e.msg = "op"
       THEN \/ RefusedOp(f)
            \/ sess[f].win = "doc" /\ UNCHANGED refused
               /\ \E hook \in BOOLEAN : RemoteOp(f, e.n, hook)
       ELSE /\ IF e.kind = "paste" THEN PasteEvent(f) ELSE KeyEvent(f, e.kind)
            /\ UNCHANGED refused
    /\ up' = [up EXCEPT ![f] = Tail(@)]
    /\ UNCHANGED <<mirror, keys, ops>>

\* A frontend attaches: the document's snapshot, and a window on it.
Attach(f) ==
    /\ f \notin Attached
    /\ sess' = [sess EXCEPT ![f].on = TRUE]
    /\ down' = [down EXCEPT ![f] = Append(@, Snapshot)]
    /\ UNCHANGED <<hist, doc, queue, mirror, up, keys, refused, ops>>

\* Mutant: the caret is written only with a change of DispatchIdle.
PassOnChange(f, d) ==
    LET s == sess[f]
        now == IF DispatchIdle(s) THEN "idle" ELSE "busy"
    IN  IF s.told # now THEN <<IdleMsg(DispatchIdle(s)), Caret(d.in, s.win)>> ELSE <<>>

\* What the tick's pass writes to frontend f: DispatchIdle if it changed, and
\* then the caret.
Pass(f, d) ==
    LET s == sess[f]
        now == IF DispatchIdle(s) THEN "idle" ELSE "busy"
    IN  (IF s.told # now THEN <<IdleMsg(DispatchIdle(s))>> ELSE <<>>)
            \o <<Caret(d.in, s.win)>>

\* The end of a pass of the dispatcher and the beginning of the next: ticks of
\* Lua, language servers and processes, which may edit, the operations, and
\* a frame for every frontend.
Tick(lua) ==
    LET h == IF lua THEN Made(hist, Daemon, doc) ELSE hist
        d == IF lua THEN Import(h, doc, Len(h)) ELSE doc
        q == IF lua THEN Append(queue, Queued(Len(h), Daemon)) ELSE queue
        dn == Broadcast(down, q)
    IN  /\ \A f \in Frontends : Len(down[f]) < MaxDown
        /\ lua => "lua" \in ops /\ Len(hist) < MaxOps
        /\ hist' = h /\ doc' = d /\ queue' = <<>>
        /\ down' = [f \in Frontends |->
                        IF f \in Attached THEN dn[f] \o Pass(f, d) ELSE dn[f]]
        /\ sess' = [f \in Frontends |->
                        IF f \in Attached
                        THEN [sess[f] EXCEPT !.told = IF DispatchIdle(sess[f])
                                                      THEN "idle" ELSE "busy"]
                        ELSE sess[f]]
        /\ UNCHANGED <<mirror, up, keys, refused, ops>>

-----------------------------------------------------------------------------
Init ==
    /\ hist = <<>> /\ doc = Empty /\ queue = <<>>
    /\ sess = [f \in Frontends |-> [on |-> FALSE, win |-> "doc", prefix |-> FALSE,
                                    told |-> "none"]]
    /\ mirror = [f \in Frontends |-> [ready |-> FALSE, text |-> Empty, stale |-> FALSE,
                                      active |-> "none", idle |-> FALSE]]
    /\ up = [f \in Frontends |-> <<>>] /\ down = [f \in Frontends |-> <<>>]
    /\ keys = [f \in Frontends |-> 0] /\ refused = {}
    /\ ops \in Scenarios

Kinds == {"edit", "prefix", "paste", "switch"}

Next ==
    \/ \E f \in Frontends : \/ TypeOptimistic(f) \/ Take(f) \/ Handle(f) \/ Attach(f)
                            \/ \E kind \in Kinds : Press(f, kind)
    \/ \E lua \in BOOLEAN : Tick(lua)

Spec == Init /\ [][Next]_vars

\* The dispatcher handles events and ticks; frontends read their messages.
FairSpec ==
    /\ Spec
    /\ WF_vars(Tick(FALSE))
    /\ \A f \in Frontends : WF_vars(Take(f)) /\ WF_vars(Handle(f))

-----------------------------------------------------------------------------
(* Properties.                                                             *)

\* The shape of every variable: a replica holds operations that were made, and
\* no operation waits in a replica that has all it was made on.
TypeOK ==
    /\ Len(hist) <= MaxOps
    /\ \A n \in 1..Len(hist) :
          hist[n].by \in Frontends \cup {Daemon} /\ hist[n].past \subseteq 1..(n - 1)
    /\ \A r \in {doc} \cup {mirror[f].text : f \in Frontends} :
          /\ r.in \cup r.held \subseteq 1..Len(hist)
          /\ \A n \in r.held : ~(hist[n].past \subseteq r.in)
    /\ \A i \in 1..Len(queue) : queue[i].n \in 1..Len(hist)
    /\ sess \in [Frontends -> [on : BOOLEAN, win : {"doc", "other"}, prefix : BOOLEAN,
                               told : {"none", "idle", "busy"}]]
    /\ \A f \in Frontends :
          /\ mirror[f].ready \in BOOLEAN /\ mirror[f].stale \in BOOLEAN
          /\ mirror[f].idle \in BOOLEAN /\ mirror[f].active \in {"none", "doc", "other"}
          /\ keys[f] \in 0..MaxKeys

\* What a frontend has, or will have once it has read the first k messages.
Within(f, k) ==
    mirror[f].text.in \cup mirror[f].text.held
      \cup UNION {IF down[f][i].msg = "op" THEN {down[f][i].n}
                  ELSE IF down[f][i].msg = "snapshot" THEN down[f][i].in ELSE {}
                  : i \in 1..k}

\* A replica never hears where its caret went before it has the edit that
\* moved it: every operation the daemon's document had when a CursorByte was
\* written is in the mirror, or in the stream ahead of it.  Only a paste of the
\* same burst may follow the early CursorByte of an operation.
CaretAfterEdit ==
    \A f \in Frontends : \A i \in 1..Len(down[f]) :
        down[f][i].msg = "cursor" => down[f][i].seen \subseteq Within(f, i - 1)

Quiet == queue = <<>> /\ \A f \in Frontends : up[f] = <<>> /\ down[f] = <<>>

\* Whoever typed what, by whichever way and in whatever order it travelled,
\* and whenever a frontend attached: once nothing is on its way, every mirror
\* has the daemon's text, and nothing waits for an operation that will not
\* come, unless an operation of that frontend was refused.
Converged ==
    Quiet => /\ \A n \in doc.held : hist[n].by \in refused
             /\ \A f \in Attached \ refused : mirror[f].text.in = doc.in

\* Replicas of one document: the three above.
ReplicaInv == TypeOK /\ CaretAfterEdit /\ Converged

\* Frontends fall back to round trips often; each gets out of it again: in the
\* end the caret in the document its window shows is fresh, and it knows
\* whether the daemon's dispatch is idle.
OptimismReturns ==
    \A f \in Frontends : <>[](f \in Attached =>
        /\ sess[f].win = "doc" => ~mirror[f].stale
        /\ mirror[f].idle = DispatchIdle(sess[f]))

\* Refuted by CollabRace.cfg.  What a frontend applies by itself is what the
\* daemon would have done with the key: when its operation arrives, dispatch
\* is idle for it (dispatch_idle_for).
AppliedAsDispatched ==
    \A f \in Frontends :
        up[f] # <<>> /\ Head(up[f]).msg = "op" => DispatchIdle(sess[f])
=============================================================================
