-------------------------- MODULE LspClientProofs --------------------------
(***************************************************************************)
(* What LspClient guarantees for any number of servers, documents, edits,  *)
(* requests and deaths (src/src/lsp.rs, src/builtin/runtime/lsp.lua): what *)
(* a server is told, and that no answer is shown for a text or a document  *)
(* it is not about.                                                        *)
(***************************************************************************)
EXTENDS LspClient, SequenceTheorems, WellFoundedInduction, TLAPS

(***************************************************************************)
(* The values.                                                             *)
(***************************************************************************)
Note == [msg : {"open"}, uri : Uris, text : Nat]
          \cup [msg : {"change"}, uri : Uris, base : Nat, text : Nat]
          \cup [msg : {"close"}, uri : Uris]
          \cup [msg : {"save"}, uri : Uris, text : Nat]
          \cup [msg : {"cancel"}, ids : SUBSET Int]
Message == Note \cup [msg : {"request"}, id : Int, uri : Uris]
             \cup [msg : {"initialize", "initialized", "shutdown", "exit"}]
Event == [ev : {"started", "exit"}] \cup [ev : {"publish"}, uri : Uris]
           \cup [ev : {"response"}, id : Int, ok : BOOLEAN, text : Nat]
Job == [sid : Sids, gen : Nat, uri : Uris, how : {"pull", "ask"}, asked : Nat,
        term : BOOLEAN]
Client == [state : {"none", "starting", "initializing", "initialized", "shutdown",
                    "stopped", "crashed"},
           policy : {"never", "on_crash"}, gen : Nat, armed : BOOLEAN,
           due : BOOLEAN, term : BOOLEAN, told : BOOLEAN, pending : SUBSET Int,
           dropped : SUBSET Int, deferred : Seq(Note), docs : [Uris -> Texts],
           tomb : SUBSET Uris]
Stored == [sid : Sids, uri : Uris, how : {"pull", "ask"}, id : Nat, text : Nat]
Owing == [id : Int, text : Nat]
Process == [up : BOOLEAN, events : Seq(Event), phase : 0..2, open : [Uris -> Nat],
            todo : SUBSET Owing, bad : BOOLEAN]
Editor == [clients : [Sids -> Client], out : [Sids -> Seq(Message)],
           jobs : Seq(Job), run : SUBSET Nat, routed : SUBSET Nat,
           token : SUBSET Nat, late : SUBSET Nat, store : SUBSET Stored,
           diag : SUBSET Uris, stray : BOOLEAN,
           rec : [sid : Sids \cup {NoSid}, uri : Uris], uri : Uris,
           dirty : BOOLEAN, text : Texts \ {0}]

(***************************************************************************)
(* The course of a conversation.                                           *)
(***************************************************************************)
View == [phase : 0..2, open : [Uris -> Nat]]
ViewOf(p) == [phase |-> p.phase, open |-> p.open]

(* The message is in order for a server that is at v, and a request is     *)
(* about the text that the server has.                                     *)
Suits(v, m, jobs) ==
  /\ ~OutOfOrder(v, m)
  /\ m.msg = "request" => m.id \in DOMAIN jobs /\ v.open[m.uri] = jobs[m.id].asked

Effect(v, m) ==
  CASE m.msg = "initialize"         -> [v EXCEPT !.phase = 1]
    [] m.msg = "initialized"        -> [v EXCEPT !.phase = 2]
    [] m.msg \in {"open", "change"} -> [v EXCEPT !.open[m.uri] = m.text]
    [] m.msg = "close"              -> [v EXCEPT !.open[m.uri] = 0]
    [] OTHER                        -> v

(* Reading q in order takes a server from v to w, every message suiting.   *)
Course(v, q, w, jobs) ==
  \E h \in [0..Len(q) -> View] :
    /\ h[0] = v /\ h[Len(q)] = w
    /\ \A i \in 1..Len(q) : Suits(h[i - 1], q[i], jobs) /\ h[i] = Effect(h[i - 1], q[i])

(* Where a server is when it has read all that was sent to it.             *)
Early(c) == c.state \in {"starting", "initializing"}
Target(c) == CASE c.state = "starting"     -> [phase |-> 0, open |-> NoDocs]
               [] c.state = "initializing" -> [phase |-> 1, open |-> NoDocs]
               [] OTHER                    -> [phase |-> 2, open |-> c.docs]

(***************************************************************************)
(* What is owed.                                                           *)
(***************************************************************************)
Asks(m) == m.msg \in {"request", "initialize", "shutdown"}
IdOf(m) == CASE m.msg = "request" -> m.id [] m.msg = "initialize" -> Init0 [] OTHER -> Shut

Asked(q) == {IdOf(q[i]) : i \in {j \in 1..Len(q) : Asks(q[j])}}
Owed(p) == {x.id : x \in p.todo}
Answered(p) == {p.events[i].id : i \in {j \in 1..Len(p.events) : p.events[j].ev = "response"}}

(* No id is asked, owed or answered twice.                                 *)
AskedOnce(q) == \A i, j \in 1..Len(q) :
  Asks(q[i]) /\ Asks(q[j]) /\ IdOf(q[i]) = IdOf(q[j]) => i = j
OwedOnce(p) == \A x, y \in p.todo : x.id = y.id => x = y
AnsweredOnce(p) == \A i, j \in 1..Len(p.events) :
  p.events[i].ev = "response" /\ p.events[j].ev = "response"
    /\ p.events[i].id = p.events[j].id => i = j

(* Every answer that may come is expected, and comes once.                 *)
WireFits(c, q, p) ==
  /\ Asked(q) \cup Owed(p) \cup Answered(p) \subseteq c.pending \cup c.dropped
  /\ AskedOnce(q) /\ OwedOnce(p) /\ AnsweredOnce(p)
  /\ Asked(q) \cap Owed(p) = {} /\ Asked(q) \cap Answered(p) = {}
  /\ Owed(p) \cap Answered(p) = {}

(* A process starts first, if at all, and its exit is the last of it.      *)
EventsFit(p) ==
  \A i \in 1..Len(p.events) :
    /\ p.events[i].ev = "started" => i = 1
    /\ p.events[i].ev = "exit" => i = Len(p.events) /\ ~p.up

Started(p) == \E i \in 1..Len(p.events) : p.events[i].ev = "started"

NoJobs(s, c, jobs) ==
  \A r \in 1..Len(jobs) : jobs[r].sid = s => jobs[r].gen # c.gen

(* Where the handshake and the shutdown are.                               *)
HandshakeFits(s, c, p, jobs) ==
  /\ Started(p) => Init0 \notin c.pending /\ c.state \in {"starting", "shutdown"}
  /\ Init0 \in c.pending => c.state \in {"initializing", "shutdown"}
  /\ Started(p) \/ Init0 \in c.pending =>
       Shut \notin c.pending /\ (c.state = "shutdown" => c.term)
  /\ Started(p) \/ Init0 \in c.pending \/ Early(c) => NoJobs(s, c, jobs)
  /\ Shut \in c.pending => c.state = "shutdown"

(* Killed before its handshake: what is sent to it after that is nobody's  *)
(* concern, and every request of it was made after.                        *)
Broken(s, c, jobs) ==
  c.term /\ \A r \in 1..Len(jobs) : jobs[r].sid = s /\ jobs[r].gen = 1 => jobs[r].term

(* What a server of a first generation is told.                            *)
TalkFits(s, c, q, p, jobs) ==
  \/ Broken(s, c, jobs)
  \/ /\ ~p.bad /\ Course(ViewOf(p), q, Target(c), jobs)
     /\ Early(c) => Course([phase |-> 2, open |-> NoDocs], c.deferred,
                           [phase |-> 2, open |-> c.docs], jobs)

(* A text was asked about by a request of a first generation.              *)
Honest(jobs, id, text) ==
  jobs[id].gen = 1 /\ ~jobs[id].term => text = jobs[id].asked

AnswersFit(p, jobs) ==
  /\ \A x \in p.todo : x.id \in 1..Len(jobs) => Honest(jobs, x.id, x.text)
  /\ \A i \in 1..Len(p.events) :
       p.events[i].ev = "response" /\ p.events[i].id \in 1..Len(jobs)
         => Honest(jobs, p.events[i].id, p.events[i].text)

ServerFits(s, c, q, p, jobs) ==
  /\ c.state = "none" => p = NoProc
  /\ ~Live(c) => ~p.up
  /\ p.bad => c.gen > 1 \/ c.term
  /\ EventsFit(p)
  /\ Live(c) => /\ WireFits(c, q, p) /\ HandshakeFits(s, c, p, jobs)
                /\ AnswersFit(p, jobs)
                /\ p.up /\ c.gen = 1 => TalkFits(s, c, q, p, jobs)

(***************************************************************************)
(* The client's books.                                                     *)
(***************************************************************************)
ClientFits(s, c, jobs) ==
  /\ c.pending \cap c.dropped = {} /\ Init0 \notin c.dropped /\ Shut \notin c.dropped
  /\ \A r \in (c.pending \cup c.dropped) \ {Init0, Shut} :
       r \in 1..Len(jobs) /\ jobs[r].sid = s /\ jobs[r].gen = c.gen
  /\ c.armed => c.state = "crashed" /\ c.policy = "on_crash"
  /\ c.term => c.policy = "never"
  /\ c.gen = 0 => c.state = "none"
  /\ \A r \in 1..Len(jobs) : jobs[r].sid = s => jobs[r].gen <= c.gen

JobsFit(e) ==
  /\ e.run \subseteq e.routed /\ e.routed \subseteq 1..Len(e.jobs)
  /\ \A r \in e.run : Live(e.clients[e.jobs[r].sid])
  /\ \A r \in e.routed : LET c == e.clients[e.jobs[r].sid] IN
       r \in c.pending /\ e.jobs[r].uri \notin c.tomb

StoreFits(e) ==
  \A x \in e.store : /\ x.uri \notin e.clients[x.sid].tomb
                     /\ x.id \in 1..Len(e.jobs) /\ Honest(e.jobs, x.id, x.text)

DiagFits(e) ==
  \A s \in Sids : \A u \in e.clients[s].tomb :
    (\A t \in Sids \ {s} : e.clients[t].gen = 0) => u \notin e.diag

BooksFit(e) ==
  /\ \A s \in Sids : ClientFits(s, e.clients[s], e.jobs)
  /\ JobsFit(e) /\ StoreFits(e) /\ DiagFits(e) /\ ~e.stray

(* The texts of a first generation are those of the attached document.     *)
First(c) == c.gen = 1 /\ Live(c)

DocsFit(e) ==
  \A s \in Sids : First(e.clients[s]) =>
    \A u \in Uris : e.clients[s].docs[u] # 0 => e.rec.sid = s /\ e.rec.uri = u

RecFits(e) ==
  e.rec.sid # NoSid => LET c == e.clients[e.rec.sid] IN
    /\ c.gen # 0 /\ e.rec.uri \notin c.tomb
    /\ First(c) => c.docs[e.rec.uri] # 0 /\ (~e.dirty => c.docs[e.rec.uri] = e.text)

(* The editor with processes P.                                            *)
Core(e, P) ==
  /\ e \in Editor /\ P \in [Sids -> Process]
  /\ \A s \in Sids : ServerFits(s, e.clients[s], e.out[s], P[s], e.jobs)
  /\ BooksFit(e)

Whole(e, P) == Core(e, P) /\ DocsFit(e) /\ RecFits(e)

ClientInv == Whole(ed, srv) /\ ops \in 0..MaxOps /\ ed.text <= ops + 1

(***************************************************************************)
(* Facts about courses.                                                    *)
(***************************************************************************)
(* A message takes a view to a view.                                       *)
LEMMA EffectIsView ==
  ASSUME NEW v \in View, NEW m \in Message
  PROVE  Effect(v, m) \in View
<1>1. m.msg \in {"open", "change"} => m.uri \in Uris /\ m.text \in Nat
  BY DEF Message, Note
<1>2. CASE m.msg = "initialize"
  <2>1. Effect(v, m) = [v EXCEPT !.phase = 1]
    BY <1>2 DEF Effect
  <2> QED BY <2>1 DEF View
<1>3. CASE m.msg = "initialized"
  <2>1. Effect(v, m) = [v EXCEPT !.phase = 2]
    BY <1>3 DEF Effect
  <2> QED BY <2>1 DEF View
<1>4. CASE m.msg \in {"open", "change"}
  <2>1. Effect(v, m) = [v EXCEPT !.open[m.uri] = m.text]
    BY <1>4 DEF Effect
  <2> QED BY <1>1, <1>4, <2>1 DEF View
<1>5. CASE m.msg = "close"
  <2>1. Effect(v, m) = [v EXCEPT !.open[m.uri] = 0]
    BY <1>5 DEF Effect
  <2> QED BY <2>1 DEF View
<1>6. CASE m.msg \notin {"initialize", "initialized", "open", "change", "close"}
  <2>1. Effect(v, m) = v
    BY <1>6 DEF Effect
  <2> QED BY <2>1
<1> QED BY <1>2, <1>3, <1>4, <1>5, <1>6

(* Nothing to read takes a server nowhere.                                 *)
LEMMA CourseNone ==
  ASSUME NEW v \in View, NEW jobs
  PROVE  Course(v, <<>>, v, jobs)
<1> DEFINE h == [i \in 0..0 |-> v]
<1>1. h \in [0..Len(<<>>) -> View] /\ h[0] = v /\ h[Len(<<>>)] = v
  OBVIOUS
<1>2. \A i \in 1..Len(<<>>) : Suits(h[i - 1], <<>>[i], jobs) /\ h[i] = Effect(h[i - 1], <<>>[i])
  OBVIOUS
<1> HIDE DEF h
<1> QED BY <1>1, <1>2 DEF Course

(* One more message at the end.                                            *)
LEMMA CourseAppend ==
  ASSUME NEW v, NEW w, NEW jobs, NEW q \in Seq(Message), NEW m \in Message,
         Course(v, q, w, jobs), Suits(w, m, jobs)
  PROVE  Course(v, Append(q, m), Effect(w, m), jobs)
<1>1. PICK h \in [0..Len(q) -> View] :
        /\ h[0] = v /\ h[Len(q)] = w
        /\ \A i \in 1..Len(q) : Suits(h[i - 1], q[i], jobs) /\ h[i] = Effect(h[i - 1], q[i])
  BY DEF Course
<1> DEFINE n == Len(q)
           a == Append(q, m)
           x == Effect(w, m)
           g == [i \in 0..(n + 1) |-> IF i <= n THEN h[i] ELSE x]
<1>2. n \in Nat /\ Len(a) = n + 1 /\ a[n + 1] = m /\ \A i \in 1..n : a[i] = q[i]
  OBVIOUS
<1>3. x \in View
  <2>1. w \in View
    BY <1>1, <1>2
  <2> QED BY <2>1, EffectIsView
<1> HIDE DEF n, a, x
<1>4. g \in [0..(n + 1) -> View]
  BY <1>1, <1>2, <1>3 DEF n
<1>5. g[0] = v /\ g[n + 1] = x
  BY <1>1, <1>2
<1>6. ASSUME NEW i \in 1..(n + 1)
      PROVE  Suits(g[i - 1], a[i], jobs) /\ g[i] = Effect(g[i - 1], a[i])
  <2>1. CASE i = n + 1
    <3>1. g[i - 1] = w /\ a[i] = m /\ g[i] = x
      BY <1>1, <1>2, <2>1 DEF n
    <3> QED BY <3>1 DEF x
  <2>2. CASE i \in 1..n
    <3>1. g[i - 1] = h[i - 1] /\ g[i] = h[i] /\ a[i] = q[i]
      BY <1>2, <2>2
    <3> QED BY <1>1, <2>2, <3>1 DEF n
  <2> QED BY <1>2, <2>1, <2>2
<1> HIDE DEF g
<1>7. Course(v, a, x, jobs)
  BY <1>2, <1>4, <1>5, <1>6 DEF Course
<1> QED BY <1>7 DEF a, x

(* The first message read.                                                 *)
LEMMA CourseTail ==
  ASSUME NEW v, NEW w, NEW jobs, NEW q \in Seq(Message), q # <<>>,
         Course(v, q, w, jobs)
  PROVE  /\ Suits(v, Head(q), jobs)
         /\ Course(Effect(v, Head(q)), Tail(q), w, jobs)
<1>1. PICK h \in [0..Len(q) -> View] :
        /\ h[0] = v /\ h[Len(q)] = w
        /\ \A i \in 1..Len(q) : Suits(h[i - 1], q[i], jobs) /\ h[i] = Effect(h[i - 1], q[i])
  BY DEF Course
<1> DEFINE n == Len(q)
           t == Tail(q)
           g == [i \in 0..(n - 1) |-> h[i + 1]]
<1>2. n \in Nat /\ n > 0 /\ Len(t) = n - 1 /\ Head(q) = q[1]
        /\ \A i \in 1..(n - 1) : t[i] = q[i + 1]
  OBVIOUS
<1>3. Suits(v, q[1], jobs) /\ h[1] = Effect(v, q[1])
  BY <1>1, <1>2
<1> HIDE DEF n, t
<1>4. g \in [0..(n - 1) -> View]
  BY <1>1, <1>2 DEF n
<1>5. g[0] = Effect(v, q[1]) /\ g[n - 1] = w
  BY <1>1, <1>2, <1>3 DEF n
<1>6. ASSUME NEW i \in 1..(n - 1)
      PROVE  Suits(g[i - 1], t[i], jobs) /\ g[i] = Effect(g[i - 1], t[i])
  <2>1. g[i - 1] = h[i] /\ g[i] = h[i + 1] /\ t[i] = q[i + 1] /\ i + 1 \in 1..n
    BY <1>2
  <2>2. Suits(h[(i + 1) - 1], q[i + 1], jobs) /\ h[i + 1] = Effect(h[(i + 1) - 1], q[i + 1])
    BY <1>1, <2>1 DEF n
  <2>3. (i + 1) - 1 = i
    OBVIOUS
  <2> QED BY <2>1, <2>2, <2>3
<1> HIDE DEF g
<1>7. Course(Effect(v, q[1]), t, w, jobs)
  BY <1>2, <1>4, <1>5, <1>6 DEF Course
<1> QED BY <1>2, <1>3, <1>7 DEF t

(* One course after another.                                               *)
LEMMA CourseJoin ==
  ASSUME NEW u, NEW v, NEW w, NEW jobs, NEW q \in Seq(Message),
         NEW r \in Seq(Message), Course(u, q, v, jobs), Course(v, r, w, jobs)
  PROVE  Course(u, q \o r, w, jobs)
<1>1. PICK g \in [0..Len(q) -> View] :
        /\ g[0] = u /\ g[Len(q)] = v
        /\ \A i \in 1..Len(q) : Suits(g[i - 1], q[i], jobs) /\ g[i] = Effect(g[i - 1], q[i])
  BY DEF Course
<1>2. PICK h \in [0..Len(r) -> View] :
        /\ h[0] = v /\ h[Len(r)] = w
        /\ \A i \in 1..Len(r) : Suits(h[i - 1], r[i], jobs) /\ h[i] = Effect(h[i - 1], r[i])
  BY DEF Course
<1> DEFINE n == Len(q)
           k == Len(r)
           a == q \o r
           f == [i \in 0..(n + k) |-> IF i <= n THEN g[i] ELSE h[i - n]]
<1>3. n \in Nat /\ k \in Nat /\ Len(a) = n + k
        /\ (\A i \in 1..n : a[i] = q[i]) /\ \A i \in (n + 1)..(n + k) : a[i] = r[i - n]
  BY ConcatProperties
<1> HIDE DEF n, k, a
<1>4. f \in [0..(n + k) -> View]
  BY <1>1, <1>2, <1>3 DEF n, k
<1>5. f[0] = u /\ f[n + k] = w
  BY <1>1, <1>2, <1>3 DEF n, k
<1>6. ASSUME NEW i \in 1..(n + k)
      PROVE  Suits(f[i - 1], a[i], jobs) /\ f[i] = Effect(f[i - 1], a[i])
  <2>1. CASE i \in 1..n
    <3>1. f[i - 1] = g[i - 1] /\ f[i] = g[i] /\ a[i] = q[i]
      BY <1>3, <2>1
    <3> QED BY <1>1, <2>1, <3>1 DEF n
  <2>2. CASE i \in (n + 1)..(n + k)
    <3>1. f[i - 1] = h[(i - n) - 1]
      <4>1. CASE i = n + 1
        BY <1>1, <1>2, <1>3, <4>1 DEF n
      <4>2. CASE i # n + 1
        BY <1>3, <2>2, <4>2
      <4> QED BY <4>1, <4>2
    <3>2. f[i] = h[i - n] /\ a[i] = r[i - n] /\ i - n \in 1..k
      BY <1>3, <2>2
    <3> QED BY <1>2, <3>1, <3>2 DEF k
  <2> QED BY <1>3, <2>1, <2>2
<1> HIDE DEF f
<1>7. Course(u, a, w, jobs)
  BY <1>3, <1>4, <1>5, <1>6 DEF Course
<1> QED BY <1>7 DEF a

(* A new job changes no course.                                            *)
LEMMA CourseMore ==
  ASSUME NEW v, NEW w, NEW jobs \in Seq(Job), NEW q, NEW j \in Job,
         Course(v, q, w, jobs)
  PROVE  Course(v, q, w, Append(jobs, j))
<1> DEFINE more == Append(jobs, j)
<1>1. /\ \A r \in DOMAIN jobs : r \in DOMAIN more /\ more[r] = jobs[r]
  OBVIOUS
<1> HIDE DEF more
<1>2. ASSUME NEW x, NEW m, Suits(x, m, jobs) PROVE Suits(x, m, more)
  BY <1>1, <1>2 DEF Suits
<1>3. Course(v, q, w, more)
  BY <1>2 DEF Course
<1> QED BY <1>3 DEF more

(* The views of a course.                                                  *)
LEMMA CourseEnds ==
  ASSUME NEW v, NEW w, NEW jobs, NEW q \in Seq(Message), Course(v, q, w, jobs)
  PROVE  v \in View /\ w \in View
<1>1. Len(q) \in Nat
  OBVIOUS
<1> QED BY <1>1 DEF Course

(***************************************************************************)
(* Facts about what is asked and answered.                                 *)
(***************************************************************************)
Ids(m) == IF Asks(m) THEN {IdOf(m)} ELSE {}

LEMMA AskedNone == Asked(<<>>) = {} /\ AskedOnce(<<>>)
BY DEF Asked, AskedOnce

LEMMA AskedMember ==
  ASSUME NEW q \in Seq(Message), NEW x
  PROVE  x \in Asked(q) <=> \E i \in 1..Len(q) : Asks(q[i]) /\ x = IdOf(q[i])
BY DEF Asked

LEMMA AskedAppend ==
  ASSUME NEW q \in Seq(Message), NEW m \in Message
  PROVE  Asked(Append(q, m)) = Asked(q) \cup Ids(m)
<1> DEFINE n == Len(q)
           a == Append(q, m)
<1>1. n \in Nat /\ Len(a) = n + 1 /\ a[n + 1] = m /\ (\A i \in 1..n : a[i] = q[i])
        /\ a \in Seq(Message)
  OBVIOUS
<1>2. 1..(n + 1) = 1..n \cup {n + 1}
  BY <1>1
<1> HIDE DEF n, a
<1>3. ASSUME NEW x PROVE x \in Asked(a) <=> x \in Asked(q) \cup Ids(m)
  <2>1. x \in Asked(a) <=> \E i \in 1..(n + 1) : Asks(a[i]) /\ x = IdOf(a[i])
    BY <1>1, AskedMember
  <2>2. x \in Asked(q) <=> \E i \in 1..n : Asks(q[i]) /\ x = IdOf(q[i])
    BY AskedMember DEF n
  <2>3. x \in Ids(m) <=> Asks(m) /\ x = IdOf(m)
    BY DEF Ids
  <2> QED BY <1>1, <1>2, <2>1, <2>2, <2>3
<1> QED BY <1>3 DEF a

LEMMA AskedOnceAppend ==
  ASSUME NEW q \in Seq(Message), NEW m \in Message, AskedOnce(q),
         Ids(m) \cap Asked(q) = {}
  PROVE  AskedOnce(Append(q, m))
<1> DEFINE n == Len(q)
           a == Append(q, m)
<1>1. n \in Nat /\ Len(a) = n + 1 /\ a[n + 1] = m /\ (\A i \in 1..n : a[i] = q[i])
        /\ a \in Seq(Message)
  OBVIOUS
<1> HIDE DEF a
<1>2. ASSUME NEW i \in 1..n, Asks(q[i]), Asks(m), IdOf(q[i]) = IdOf(m) PROVE FALSE
  <2>1. IdOf(m) \in Asked(q)
    BY <1>2, AskedMember
  <2> QED BY <1>2, <2>1 DEF Ids
<1>3. ASSUME NEW i \in 1..(n + 1), NEW j \in 1..(n + 1), Asks(a[i]), Asks(a[j]),
             IdOf(a[i]) = IdOf(a[j])
      PROVE  i = j
  <2>1. CASE i \in 1..n /\ j \in 1..n
    BY <1>1, <1>3, <2>1 DEF AskedOnce
  <2>2. CASE i = n + 1 /\ j \in 1..n
    BY <1>1, <1>2, <1>3, <2>2
  <2>3. CASE j = n + 1 /\ i \in 1..n
    BY <1>1, <1>2, <1>3, <2>3
  <2>4. CASE i = n + 1 /\ j = n + 1
    BY <2>4
  <2> QED BY <1>1, <2>1, <2>2, <2>3, <2>4
<1> HIDE DEF n
<1>4. AskedOnce(a)
  BY <1>1, <1>3 DEF AskedOnce
<1> QED BY <1>4 DEF a

(* What is said without being asked changes nothing of what is owed.       *)
LEMMA AskedJoin ==
  ASSUME NEW q \in Seq(Message), NEW r \in Seq(Note)
  PROVE  Asked(q \o r) = Asked(q) /\ (AskedOnce(q) => AskedOnce(q \o r))
<1> DEFINE n == Len(q)
           k == Len(r)
           a == q \o r
<1>0. r \in Seq(Message)
  BY SeqMonotonic DEF Message
<1>1. n \in Nat /\ k \in Nat /\ Len(a) = n + k /\ a \in Seq(Message)
        /\ (\A i \in 1..n : a[i] = q[i]) /\ \A i \in (n + 1)..(n + k) : a[i] = r[i - n]
  BY <1>0, ConcatProperties
<1> HIDE DEF n, k, a
<1>2. ASSUME NEW i \in (n + 1)..(n + k) PROVE ~Asks(a[i])
  <2>1. i - n \in 1..Len(r) /\ a[i] = r[i - n]
    BY <1>1 DEF k
  <2>2. r[i - n] \in Note
    BY <2>1, ElementOfSeq
  <2> QED BY <2>1, <2>2 DEF Note, Asks
<1>3. ASSUME NEW x PROVE x \in Asked(a) <=> x \in Asked(q)
  <2>1. x \in Asked(a) <=> \E i \in 1..(n + k) : Asks(a[i]) /\ x = IdOf(a[i])
    <3>1. a \in Seq(Message) /\ Len(a) = n + k
      BY <1>1
    <3>2. x \in Asked(a) <=> \E i \in 1..Len(a) : Asks(a[i]) /\ x = IdOf(a[i])
      BY <3>1, AskedMember, Zenon
    <3> QED BY <3>1, <3>2, Zenon
  <2>2. x \in Asked(q) <=> \E i \in 1..n : Asks(q[i]) /\ x = IdOf(q[i])
    BY AskedMember DEF n
  <2>3. ASSUME NEW i \in 1..(n + k) PROVE i \in 1..n \/ i \in (n + 1)..(n + k)
    BY <1>1
  <2>4. 1..n \subseteq 1..(n + k)
    BY <1>1
  <2> QED BY <1>1, <1>2, <2>1, <2>2, <2>3, <2>4
<1>4. ASSUME AskedOnce(q), NEW i \in 1..(n + k), NEW j \in 1..(n + k), Asks(a[i]),
             Asks(a[j]), IdOf(a[i]) = IdOf(a[j])
      PROVE  i = j
  <2>1. i \in 1..n /\ j \in 1..n
    BY <1>1, <1>2, <1>4
  <2> QED BY <1>1, <1>4, <2>1 DEF AskedOnce, n
<1>5. AskedOnce(q) => AskedOnce(a)
  BY <1>1, <1>4 DEF AskedOnce
<1> QED BY <1>3, <1>5 DEF a

LEMMA AskedTail ==
  ASSUME NEW q \in Seq(Message), q # <<>>, AskedOnce(q)
  PROVE  /\ Asked(q) = Asked(Tail(q)) \cup Ids(Head(q))
         /\ Ids(Head(q)) \cap Asked(Tail(q)) = {}
         /\ AskedOnce(Tail(q))
<1> DEFINE n == Len(q)
           t == Tail(q)
<1>1. n \in Nat /\ n > 0 /\ Len(t) = n - 1 /\ Head(q) = q[1] /\ t \in Seq(Message)
        /\ \A i \in 1..(n - 1) : t[i] = q[i + 1]
  OBVIOUS
<1> HIDE DEF n, t
<1>2. ASSUME NEW x PROVE x \in Asked(q) <=> x \in Asked(t) \cup Ids(q[1])
  <2>1. x \in Asked(t) <=> \E i \in 1..(n - 1) : Asks(t[i]) /\ x = IdOf(t[i])
    BY <1>1, AskedMember
  <2>2. x \in Asked(q) <=> \E i \in 1..n : Asks(q[i]) /\ x = IdOf(q[i])
    BY AskedMember DEF n
  <2>3. x \in Ids(q[1]) <=> Asks(q[1]) /\ x = IdOf(q[1])
    BY DEF Ids
  <2>4. ASSUME x \in Asked(q) PROVE x \in Asked(t) \cup Ids(q[1])
    <3>1. PICK i \in 1..n : Asks(q[i]) /\ x = IdOf(q[i])
      BY <2>2, <2>4
    <3>2. CASE i = 1
      BY <2>3, <3>1, <3>2
    <3>3. CASE i # 1
      <4>1. i - 1 \in 1..(n - 1) /\ t[i - 1] = q[i]
        <5>1. i - 1 \in 1..(n - 1) /\ (i - 1) + 1 = i
          BY <1>1, <3>3
        <5> QED BY <1>1, <5>1
      <4> QED BY <2>1, <3>1, <4>1
    <3> QED BY <3>2, <3>3
  <2>5. ASSUME x \in Asked(t) PROVE x \in Asked(q)
    <3>1. PICK i \in 1..(n - 1) : Asks(t[i]) /\ x = IdOf(t[i])
      BY <2>1, <2>5
    <3>2. i + 1 \in 1..n /\ t[i] = q[i + 1]
      BY <1>1
    <3> QED BY <2>2, <3>1, <3>2
  <2>6. ASSUME x \in Ids(q[1]) PROVE x \in Asked(q)
    BY <1>1, <2>2, <2>3, <2>6
  <2> QED BY <2>4, <2>5, <2>6
<1>3. ASSUME NEW i \in 1..(n - 1), NEW j \in 1..(n - 1), Asks(t[i]), Asks(t[j]),
             IdOf(t[i]) = IdOf(t[j])
      PROVE  i = j
  <2>1. i + 1 \in 1..n /\ j + 1 \in 1..n /\ t[i] = q[i + 1] /\ t[j] = q[j + 1]
    BY <1>1
  <2>2. i + 1 = j + 1
    BY <1>3, <2>1 DEF AskedOnce, n
  <2> QED BY <2>2
<1>4. AskedOnce(t)
  BY <1>1, <1>3 DEF AskedOnce
<1>5. ASSUME NEW x \in Ids(q[1]), x \in Asked(t) PROVE FALSE
  <2>1. PICK i \in 1..(n - 1) : Asks(t[i]) /\ x = IdOf(t[i])
    BY <1>1, <1>5, AskedMember
  <2>2. i + 1 \in 1..n /\ t[i] = q[i + 1] /\ 1 \in 1..n
    BY <1>1
  <2>3. Asks(q[1]) /\ x = IdOf(q[1])
    BY DEF Ids
  <2>4. 1 = i + 1
    BY <2>1, <2>2, <2>3 DEF AskedOnce, n
  <2> QED BY <2>4
<1> QED BY <1>1, <1>2, <1>4, <1>5 DEF t

(* Answers in the events, likewise.                                        *)
AnswerIds(x) == IF x.ev = "response" THEN {x.id} ELSE {}

LEMMA AnsweredMember ==
  ASSUME NEW p, NEW x
  PROVE  x \in Answered(p) <=> \E i \in 1..Len(p.events) :
                                  p.events[i].ev = "response" /\ x = p.events[i].id
BY DEF Answered

LEMMA AnswersIn ==
  ASSUME NEW p, NEW t, p.events = t
  PROVE  \A x : x \in Answered(p) <=> \E i \in 1..Len(t) : t[i].ev = "response" /\ x = t[i].id
BY DEF Answered

LEMMA AnsweredAppend ==
  ASSUME NEW p \in Process, NEW r \in Process, NEW x \in Event,
         r.events = Append(p.events, x)
  PROVE  /\ Answered(r) = Answered(p) \cup AnswerIds(x)
         /\ AnsweredOnce(p) /\ AnswerIds(x) \cap Answered(p) = {} => AnsweredOnce(r)
<1> DEFINE n == Len(p.events)
           e == p.events
           a == r.events
<1>1. n \in Nat /\ Len(a) = n + 1 /\ a[n + 1] = x /\ (\A i \in 1..n : a[i] = e[i])
  BY DEF Process
<1>2. 1..(n + 1) = 1..n \cup {n + 1}
  BY <1>1
<1> HIDE DEF n, e, a
<1>3. ASSUME NEW y PROVE y \in Answered(r) <=> y \in Answered(p) \cup AnswerIds(x)
  <2>1. y \in Answered(r) <=> \E i \in 1..(n + 1) : a[i].ev = "response" /\ y = a[i].id
    <3>1. y \in Answered(r) <=> \E i \in 1..Len(r.events) :
                                  r.events[i].ev = "response" /\ y = r.events[i].id
      BY AnsweredMember, Zenon
    <3>2. r.events = a /\ Len(a) = n + 1
      BY <1>1 DEF a
    <3> QED BY <3>1, <3>2, Zenon
  <2>2. y \in Answered(p) <=> \E i \in 1..n : e[i].ev = "response" /\ y = e[i].id
    BY AnsweredMember DEF n, e
  <2>3. y \in AnswerIds(x) <=> x.ev = "response" /\ y = x.id
    BY DEF AnswerIds
  <2> QED BY <1>1, <1>2, <2>1, <2>2, <2>3
<1>4. ASSUME AnsweredOnce(p), AnswerIds(x) \cap Answered(p) = {} PROVE AnsweredOnce(r)
  <2>1. ASSUME NEW i \in 1..n, e[i].ev = "response", x.ev = "response", e[i].id = x.id
        PROVE FALSE
    <3>1. x.id \in Answered(p)
      BY <2>1, AnsweredMember DEF n, e
    <3> QED BY <1>4, <2>1, <3>1 DEF AnswerIds
  <2>2. ASSUME NEW i \in 1..(n + 1), NEW j \in 1..(n + 1), a[i].ev = "response",
               a[j].ev = "response", a[i].id = a[j].id
        PROVE  i = j
    <3>1. CASE i \in 1..n /\ j \in 1..n
      BY <1>1, <1>4, <2>2, <3>1 DEF AnsweredOnce, n, e
    <3>2. CASE i = n + 1 /\ j \in 1..n
      BY <1>1, <2>1, <2>2, <3>2
    <3>3. CASE j = n + 1 /\ i \in 1..n
      BY <1>1, <2>1, <2>2, <3>3
    <3>4. CASE i = n + 1 /\ j = n + 1
      BY <3>4
    <3> QED BY <1>1, <3>1, <3>2, <3>3, <3>4
  <2> HIDE DEF n
  <2> QED BY <1>1, <2>2 DEF AnsweredOnce, a
<1> QED BY <1>3, <1>4

LEMMA AnsweredTail ==
  ASSUME NEW p \in Process, NEW r \in Process, p.events # <<>>, AnsweredOnce(p),
         r.events = Tail(p.events)
  PROVE  /\ Answered(p) = Answered(r) \cup AnswerIds(Head(p.events))
         /\ AnswerIds(Head(p.events)) \cap Answered(r) = {}
         /\ AnsweredOnce(r)
<1> DEFINE n == Len(p.events)
           e == p.events
           t == r.events
<1>1. n \in Nat /\ n > 0 /\ Len(t) = n - 1 /\ Head(e) = e[1]
        /\ \A i \in 1..(n - 1) : t[i] = e[i + 1]
  BY DEF Process
<1> HIDE DEF n, e, t
<1>0. /\ \A i \in 1..(n - 1) : i + 1 \in 1..n /\ t[i] = e[i + 1]
      /\ 1 \in 1..n
  BY <1>1
<1>2. ASSUME NEW x PROVE x \in Answered(p) <=> x \in Answered(r) \cup AnswerIds(e[1])
  <2>1. x \in Answered(r) <=> \E i \in 1..(n - 1) : t[i].ev = "response" /\ x = t[i].id
    <3>1. Len(t) = n - 1
      BY <1>1
    <3>2. r.events = t
      BY DEF t
    <3>3. \A y : y \in Answered(r) <=> \E i \in 1..Len(t) : t[i].ev = "response" /\ y = t[i].id
      BY <3>2, AnswersIn
    <3> QED BY <3>1, <3>3, Zenon
  <2>2. x \in Answered(p) <=> \E i \in 1..n : e[i].ev = "response" /\ x = e[i].id
    BY AnsweredMember DEF n, e
  <2>3. x \in AnswerIds(e[1]) <=> e[1].ev = "response" /\ x = e[1].id
    BY DEF AnswerIds
  <2>4. ASSUME x \in Answered(p) PROVE x \in Answered(r) \cup AnswerIds(e[1])
    <3>1. PICK i \in 1..n : e[i].ev = "response" /\ x = e[i].id
      BY <2>2, <2>4
    <3>2. CASE i = 1
      BY <2>3, <3>1, <3>2
    <3>3. CASE i # 1
      <4>1. i - 1 \in 1..(n - 1) /\ (i - 1) + 1 = i
        BY <1>1, <3>3
      <4>2. t[i - 1] = e[i]
        BY <1>0, <4>1
      <4> QED BY <2>1, <3>1, <4>1, <4>2
    <3> QED BY <3>2, <3>3
  <2>5. ASSUME x \in Answered(r) PROVE x \in Answered(p)
    BY <1>0, <2>1, <2>2, <2>5
  <2>6. ASSUME x \in AnswerIds(e[1]) PROVE x \in Answered(p)
    BY <1>0, <2>2, <2>3, <2>6
  <2> QED BY <2>4, <2>5, <2>6
<1>3. ASSUME NEW i \in 1..(n - 1), NEW j \in 1..(n - 1), t[i].ev = "response",
             t[j].ev = "response", t[i].id = t[j].id
      PROVE  i = j
  <2>1. i + 1 \in 1..n /\ j + 1 \in 1..n /\ t[i] = e[i + 1] /\ t[j] = e[j + 1]
    BY <1>0
  <2>2. i + 1 = j + 1
    BY <1>3, <2>1 DEF AnsweredOnce, n, e
  <2> QED BY <2>2
<1>4. AnsweredOnce(r)
  BY <1>1, <1>3 DEF AnsweredOnce, t
<1>5. ASSUME NEW x \in AnswerIds(e[1]), x \in Answered(r) PROVE FALSE
  <2>1. PICK i \in 1..(n - 1) : t[i].ev = "response" /\ x = t[i].id
    <3>1. Len(t) = n - 1
      BY <1>1
    <3>2. r.events = t
      BY DEF t
    <3>3. \A y : y \in Answered(r) <=> \E i \in 1..Len(t) : t[i].ev = "response" /\ y = t[i].id
      BY <3>2, AnswersIn
    <3> QED BY <1>5, <3>1, <3>3, Zenon
  <2>2. i + 1 \in 1..n /\ t[i] = e[i + 1] /\ 1 \in 1..n
    BY <1>0
  <2>3. e[1].ev = "response" /\ x = e[1].id
    BY DEF AnswerIds
  <2>4. 1 = i + 1
    BY <2>1, <2>2, <2>3 DEF AnsweredOnce, n, e
  <2> QED BY <2>4
<1> QED BY <1>1, <1>2, <1>4, <1>5 DEF e

(***************************************************************************)
(* Facts about what a process has said.                                    *)
(***************************************************************************)
(* r has said what p has, and x after it.                                  *)
Says(p, r, x) == r.events = Append(p.events, x)

(* r is p of which the first event was read.                               *)
Read(p, r) ==
  /\ p.events # <<>> /\ r.events = Tail(p.events)
  /\ r.up = p.up /\ r.phase = p.phase /\ r.open = p.open /\ r.todo = p.todo
  /\ r.bad = p.bad

LEMMA SaysFits ==
  ASSUME NEW p \in Process, NEW r \in Process, NEW x \in Event, Says(p, r, x),
         EventsFit(p), p.up, x.ev # "started", x.ev = "exit" => ~r.up
  PROVE  EventsFit(r) /\ (Started(r) <=> Started(p))
<1> DEFINE n == Len(p.events)
           e == p.events
           a == r.events
<1>1. n \in Nat /\ Len(a) = n + 1 /\ a[n + 1] = x /\ (\A i \in 1..n : a[i] = e[i])
  BY DEF Process, Says
<1>2. 1..(n + 1) = 1..n \cup {n + 1}
  BY <1>1
<1>3. \A i \in 1..n : (e[i].ev = "started" => i = 1) /\ e[i].ev # "exit"
  BY DEF EventsFit
<1> HIDE DEF n, e, a
<1>4. ASSUME NEW i \in 1..(n + 1)
      PROVE  (a[i].ev = "started" => i = 1) /\ (a[i].ev = "exit" => i = n + 1 /\ ~r.up)
  <2>1. CASE i = n + 1
    BY <1>1, <2>1
  <2>2. CASE i \in 1..n
    BY <1>1, <1>3, <2>2
  <2> QED BY <1>2, <2>1, <2>2
<1>5. EventsFit(r)
  BY <1>1, <1>4 DEF EventsFit, a
<1>6. (\E i \in 1..(n + 1) : a[i].ev = "started") <=> \E i \in 1..n : e[i].ev = "started"
  BY <1>1, <1>2
<1>7. (\E i \in 1..Len(a) : a[i].ev = "started") <=> \E i \in 1..n : e[i].ev = "started"
  BY <1>1, <1>6
<1> QED BY <1>5, <1>7 DEF Started, n, e, a

LEMMA ReadFits ==
  ASSUME NEW p \in Process, NEW r \in Process, Read(p, r), EventsFit(p)
  PROVE  /\ EventsFit(r) /\ ~Started(r)
         /\ Head(p.events) \in Event
         /\ Head(p.events).ev = "started" => Started(p)
         /\ Head(p.events).ev = "exit" => r.events = <<>> /\ ~p.up
<1> DEFINE n == Len(p.events)
           e == p.events
           t == r.events
<1>1. /\ n \in Nat /\ n > 0 /\ Len(t) = n - 1 /\ Head(e) = e[1]
      /\ \A i \in 1..(n - 1) : t[i] = e[i + 1]
      /\ e[1] \in Event /\ (n = 1 => t = <<>>)
  BY DEF Process, Read
<1>2. \A i \in 1..n : (e[i].ev = "started" => i = 1) /\ (e[i].ev = "exit" => i = n /\ ~p.up)
  BY DEF EventsFit
<1>3. r.up = p.up
  BY DEF Read
<1> HIDE DEF n, e, t
<1>4. ASSUME NEW i \in 1..(n - 1)
      PROVE  t[i].ev # "started" /\ (t[i].ev = "exit" => i = n - 1 /\ ~r.up)
  <2>1. i + 1 \in 1..n /\ t[i] = e[i + 1] /\ i + 1 # 1
    BY <1>1
  <2>2. (e[i + 1].ev = "started" => i + 1 = 1)
          /\ (e[i + 1].ev = "exit" => i + 1 = n /\ ~p.up)
    BY <1>2, <2>1
  <2> QED BY <1>1, <1>3, <2>1, <2>2
<1>5. \A i \in 1..Len(t) : t[i].ev # "started" /\ (t[i].ev = "exit" => i = Len(t) /\ ~r.up)
  BY <1>1, <1>4
<1>6. EventsFit(r)
  BY <1>5, Zenon DEF EventsFit, t
<1>7. ~Started(r)
  BY <1>5, Zenon DEF Started, t
<1>8. 1 \in 1..n
  BY <1>1
<1>9. e[1].ev = "started" => Started(p)
  BY <1>8 DEF Started, n, e
<1>10. e[1].ev = "exit" => t = <<>> /\ ~p.up
  BY <1>1, <1>2, <1>8
<1> QED BY <1>1, <1>6, <1>7, <1>9, <1>10 DEF e, t

LEMMA SaysHonestly ==
  ASSUME NEW p \in Process, NEW r \in Process, NEW x \in Event, NEW jobs, Says(p, r, x),
         AnswersFit(p, jobs), r.todo \subseteq p.todo,
         x.ev = "response" /\ x.id \in 1..Len(jobs) => Honest(jobs, x.id, x.text)
  PROVE  AnswersFit(r, jobs)
<1> DEFINE n == Len(p.events)
           e == p.events
           a == r.events
<1>1. n \in Nat /\ Len(a) = n + 1 /\ a[n + 1] = x /\ (\A i \in 1..n : a[i] = e[i])
  BY DEF Process, Says
<1>2. 1..(n + 1) = 1..n \cup {n + 1}
  BY <1>1
<1>3. \A i \in 1..n : e[i].ev = "response" /\ e[i].id \in 1..Len(jobs)
                        => Honest(jobs, e[i].id, e[i].text)
  BY DEF AnswersFit
<1> HIDE DEF n, e, a
<1>4. \A i \in 1..(n + 1) : a[i].ev = "response" /\ a[i].id \in 1..Len(jobs)
                              => Honest(jobs, a[i].id, a[i].text)
  BY <1>1, <1>2, <1>3
<1>5. \A i \in 1..Len(a) : a[i].ev = "response" /\ a[i].id \in 1..Len(jobs)
                              => Honest(jobs, a[i].id, a[i].text)
  BY <1>1, <1>4
<1>6. \A y \in r.todo : y.id \in 1..Len(jobs) => Honest(jobs, y.id, y.text)
  BY DEF AnswersFit
<1> QED BY <1>5, <1>6, Zenon DEF AnswersFit, a

LEMMA ReadHonest ==
  ASSUME NEW p \in Process, NEW r \in Process, NEW jobs, Read(p, r), AnswersFit(p, jobs)
  PROVE  /\ AnswersFit(r, jobs)
         /\ LET x == Head(p.events) IN
            x.ev = "response" /\ x.id \in 1..Len(jobs) => Honest(jobs, x.id, x.text)
<1> DEFINE n == Len(p.events)
           e == p.events
           t == r.events
<1>1. /\ n \in Nat /\ n > 0 /\ Len(t) = n - 1 /\ Head(e) = e[1]
      /\ \A i \in 1..(n - 1) : t[i] = e[i + 1]
  BY DEF Process, Read
<1>2. \A i \in 1..n : e[i].ev = "response" /\ e[i].id \in 1..Len(jobs)
                        => Honest(jobs, e[i].id, e[i].text)
  BY DEF AnswersFit
<1>3. r.todo = p.todo
  BY DEF Read
<1> HIDE DEF n, e, t
<1>4. ASSUME NEW i \in 1..(n - 1), t[i].ev = "response", t[i].id \in 1..Len(jobs)
      PROVE  Honest(jobs, t[i].id, t[i].text)
  <2>1. i + 1 \in 1..n /\ t[i] = e[i + 1]
    BY <1>1
  <2> QED BY <1>2, <1>4, <2>1
<1>5. \A i \in 1..Len(t) : t[i].ev = "response" /\ t[i].id \in 1..Len(jobs)
                              => Honest(jobs, t[i].id, t[i].text)
  BY <1>1, <1>4
<1>6. \A y \in r.todo : y.id \in 1..Len(jobs) => Honest(jobs, y.id, y.text)
  BY <1>3 DEF AnswersFit
<1>7. AnswersFit(r, jobs)
  BY <1>5, <1>6, Zenon DEF AnswersFit, t
<1>8. 1 \in 1..n
  BY <1>1
<1> QED BY <1>1, <1>2, <1>7, <1>8 DEF e

(***************************************************************************)
(* One server, when the client changes.                                    *)
(***************************************************************************)
(* Of the client, all that ServerFits reads but the documents.             *)
Same(c, d) ==
  /\ d.state = c.state /\ d.gen = c.gen /\ d.term = c.term
  /\ d.pending = c.pending /\ d.dropped = c.dropped

Noted == [phase |-> 2, open |-> NoDocs]
Told(c) == [phase |-> 2, open |-> c.docs]

(* Note m goes from client c, which becomes d, by the queue q, which       *)
(* becomes k.                                                              *)
Notified(c, d, q, k, m) ==
  /\ Same(c, d)
  /\ Early(c) => k = q /\ d.deferred = Append(c.deferred, m)
  /\ c.state \in {"initialized", "shutdown"} => k = Append(q, m)
  /\ ~Live(c) => k = q

(* Note m suits the documents of c, and those of d are what it makes of    *)
(* them.                                                                   *)
Accords(c, d, m, jobs) ==
  First(c) => Suits(Told(c), m, jobs) /\ Told(d) = Effect(Told(c), m)

LEMMA LiveStates ==
  ASSUME NEW c
  PROVE  Live(c) <=> Early(c) \/ c.state \in {"initialized", "shutdown"}
BY DEF Live, Early

LEMMA NotesAskNothing ==
  ASSUME NEW m \in Note
  PROVE  m \in Message /\ Ids(m) = {}
BY DEF Message, Note, Ids, Asks

LEMMA NotifiedFits ==
  ASSUME NEW s, NEW c \in Client, NEW d \in Client, NEW q \in Seq(Message), NEW k,
         NEW p \in Process, NEW jobs, NEW m \in Note,
         ServerFits(s, c, q, p, jobs), Notified(c, d, q, k, m), Accords(c, d, m, jobs)
  PROVE  ServerFits(s, d, k, p, jobs)
<1>1. m \in Message /\ Ids(m) = {}
  BY NotesAskNothing
<1>2. Same(c, d)
  BY DEF Notified
<1>3. k \in {q, Append(q, m)}
  BY LiveStates DEF Notified
<1>4. Asked(k) = Asked(q) /\ (AskedOnce(q) => AskedOnce(k))
  BY <1>1, <1>3, AskedAppend, AskedOnceAppend
<1>5. (Live(d) <=> Live(c)) /\ (Early(d) <=> Early(c)) /\ (First(d) <=> First(c))
  BY <1>2 DEF Same, Live, Early, First
<1>6. WireFits(c, q, p) => WireFits(d, k, p)
  BY <1>2, <1>4 DEF WireFits, Same
<1>7. HandshakeFits(s, c, p, jobs) => HandshakeFits(s, d, p, jobs)
  BY <1>2, <1>5 DEF HandshakeFits, Same, NoJobs
<1>8. ASSUME First(c), TalkFits(s, c, q, p, jobs) PROVE TalkFits(s, d, k, p, jobs)
  <2>1. CASE Broken(s, c, jobs)
    BY <1>2, <2>1 DEF Broken, TalkFits, Same
  <2>2. CASE ~Broken(s, c, jobs)
    <3>1. /\ ~p.bad /\ Course(ViewOf(p), q, Target(c), jobs)
          /\ Early(c) => Course(Noted, c.deferred, Told(c), jobs)
      BY <1>8, <2>2 DEF TalkFits, Noted, Told
    <3>2. Suits(Told(c), m, jobs) /\ Told(d) = Effect(Told(c), m)
      BY <1>8 DEF Accords
    <3>3. CASE Early(c)
      <4>1. k = q /\ d.deferred = Append(c.deferred, m)
        BY <3>3 DEF Notified
      <4>2. Target(d) = Target(c)
        BY <1>2, <3>3 DEF Target, Early, Same
      <4>3. c.deferred \in Seq(Message)
        <5>1. c.deferred \in Seq(Note)
          BY DEF Client
        <5> QED BY <5>1, SeqMonotonic DEF Message
      <4>4. Course(Noted, Append(c.deferred, m), Effect(Told(c), m), jobs)
        BY <1>1, <3>1, <3>2, <3>3, <4>3, CourseAppend
      <4>5. Course(Noted, d.deferred, Told(d), jobs)
        BY <3>2, <4>1, <4>4
      <4> QED BY <3>1, <4>1, <4>2, <4>5 DEF TalkFits, Noted, Told
    <3>4. CASE ~Early(c)
      <4>1. c.state \in {"initialized", "shutdown"}
        BY <1>8, <3>4, LiveStates DEF First
      <4>2. k = Append(q, m)
        BY <4>1 DEF Notified
      <4>3. Target(c) = Told(c) /\ Target(d) = Told(d)
        BY <1>2, <4>1 DEF Target, Told, Same
      <4>4. Course(ViewOf(p), Append(q, m), Effect(Told(c), m), jobs)
        BY <1>1, <3>1, <3>2, <4>3, CourseAppend
      <4> QED BY <1>5, <3>1, <3>2, <3>4, <4>2, <4>3, <4>4 DEF TalkFits
    <3> QED BY <3>3, <3>4
  <2> QED BY <2>1, <2>2
<1>9. d.state = c.state /\ d.gen = c.gen /\ d.term = c.term
  BY <1>2 DEF Same
<1> QED BY <1>5, <1>6, <1>7, <1>8, <1>9 DEF ServerFits, First

(* What is changed of the client otherwise.                                *)
LEMMA SameFits ==
  ASSUME NEW s, NEW c \in Client, NEW d \in Client, NEW q \in Seq(Message),
         NEW p \in Process, NEW jobs,
         ServerFits(s, c, q, p, jobs), Same(c, d), d.deferred = c.deferred,
         First(c) => d.docs = c.docs
  PROVE  ServerFits(s, d, q, p, jobs)
<1>5. (Live(d) <=> Live(c)) /\ (Early(d) <=> Early(c)) /\ (First(d) <=> First(c))
  BY DEF Same, Live, Early, First
<1>6. WireFits(c, q, p) => WireFits(d, q, p)
  BY DEF WireFits, Same
<1>7. HandshakeFits(s, c, p, jobs) => HandshakeFits(s, d, p, jobs)
  BY <1>5 DEF HandshakeFits, Same, NoJobs
<1>8. ASSUME First(c), TalkFits(s, c, q, p, jobs) PROVE TalkFits(s, d, q, p, jobs)
  <2>1. Broken(s, c, jobs) <=> Broken(s, d, jobs)
    BY DEF Broken, Same
  <2>2. Target(d) = Target(c) /\ d.docs = c.docs
    BY <1>8 DEF Target, Same
  <2> QED BY <1>5, <1>8, <2>1, <2>2 DEF TalkFits
<1>9. d.state = c.state /\ d.gen = c.gen /\ d.term = c.term
  BY DEF Same
<1> QED BY <1>5, <1>6, <1>7, <1>8, <1>9 DEF ServerFits, First

(* Requests that are given up are expected still.                          *)
LEMMA AbandonedFits ==
  ASSUME NEW s, NEW c \in Client, NEW d \in Client, NEW q \in Seq(Message),
         NEW p \in Process, NEW jobs, NEW rs,
         ServerFits(s, c, q, p, jobs), rs \subseteq c.pending,
         Init0 \notin rs, Shut \notin rs,
         d.state = c.state, d.gen = c.gen, d.term = c.term, d.deferred = c.deferred,
         d.docs = c.docs, d.pending = c.pending \ rs, d.dropped = c.dropped \cup rs
  PROVE  ServerFits(s, d, q, p, jobs)
<1>5. (Live(d) <=> Live(c)) /\ (Early(d) <=> Early(c)) /\ (First(d) <=> First(c))
  BY DEF Live, Early, First
<1>1. d.pending \cup d.dropped = c.pending \cup c.dropped
  OBVIOUS
<1>6. WireFits(c, q, p) => WireFits(d, q, p)
  BY <1>1 DEF WireFits
<1>7. HandshakeFits(s, c, p, jobs) => HandshakeFits(s, d, p, jobs)
  BY <1>5 DEF HandshakeFits, NoJobs
<1>8. ASSUME First(c), TalkFits(s, c, q, p, jobs) PROVE TalkFits(s, d, q, p, jobs)
  <2>1. Broken(s, c, jobs) <=> Broken(s, d, jobs)
    BY DEF Broken
  <2>2. Target(d) = Target(c) /\ d.docs = c.docs
    BY <1>8 DEF Target
  <2> QED BY <1>5, <1>8, <2>1, <2>2 DEF TalkFits
<1> QED BY <1>5, <1>6, <1>7, <1>8 DEF ServerFits, First

(***************************************************************************)
(* One server, when a request is made.                                     *)
(***************************************************************************)
(* No id that may be answered is that of a job to come.                    *)
LEMMA NotYetAsked ==
  ASSUME NEW s, NEW c \in Client, NEW jobs \in Seq(Job), ClientFits(s, c, jobs)
  PROVE  Len(jobs) + 1 \notin c.pending \cup c.dropped
<1>1. Len(jobs) \in Nat
  OBVIOUS
<1>2. Len(jobs) + 1 # Init0 /\ Len(jobs) + 1 # Shut /\ Len(jobs) + 1 \notin 1..Len(jobs)
  BY <1>1 DEF Init0, Shut
<1> QED BY <1>2 DEF ClientFits

LEMMA HonestMore ==
  ASSUME NEW p \in Process, NEW jobs \in Seq(Job), NEW j \in Job, AnswersFit(p, jobs),
         Len(jobs) + 1 \notin Owed(p), Len(jobs) + 1 \notin Answered(p)
  PROVE  AnswersFit(p, Append(jobs, j))
<1> DEFINE n == Len(jobs)
           more == Append(jobs, j)
<1>1. n \in Nat /\ Len(more) = n + 1 /\ \A r \in 1..n : more[r] = jobs[r]
  OBVIOUS
<1>2. n + 1 \notin Owed(p) /\ n + 1 \notin Answered(p)
  OBVIOUS
<1>3. /\ \A x \in p.todo : x.id \in 1..n => Honest(jobs, x.id, x.text)
      /\ \A i \in 1..Len(p.events) : p.events[i].ev = "response" /\ p.events[i].id \in 1..n
           => Honest(jobs, p.events[i].id, p.events[i].text)
  BY DEF AnswersFit
<1> HIDE DEF n, more
<1>4. ASSUME NEW r \in 1..n, NEW t, Honest(jobs, r, t) PROVE Honest(more, r, t)
  BY <1>1, <1>4 DEF Honest
<1>5. ASSUME NEW x \in p.todo, x.id \in 1..Len(more) PROVE Honest(more, x.id, x.text)
  <2>1. x.id # n + 1
    BY <1>2 DEF Owed
  <2>2. x.id \in 1..n
    BY <1>1, <1>5, <2>1
  <2> QED BY <1>3, <1>4, <2>2
<1>6. ASSUME NEW i \in 1..Len(p.events), p.events[i].ev = "response",
             p.events[i].id \in 1..Len(more)
      PROVE  Honest(more, p.events[i].id, p.events[i].text)
  <2>1. p.events[i].id # n + 1
    BY <1>2, <1>6, AnsweredMember
  <2>2. p.events[i].id \in 1..n
    BY <1>1, <1>6, <2>1
  <2> QED BY <1>3, <1>4, <1>6, <2>2
<1>7. AnswersFit(p, more)
  BY <1>5, <1>6 DEF AnswersFit
<1> QED BY <1>7 DEF more

(* A request of another server.                                            *)
LEMMA OthersRequestFits ==
  ASSUME NEW s, NEW c \in Client, NEW q \in Seq(Message), NEW p \in Process,
         NEW jobs \in Seq(Job), NEW j \in Job, j.sid # s,
         ServerFits(s, c, q, p, jobs), ClientFits(s, c, jobs)
  PROVE  ServerFits(s, c, q, p, Append(jobs, j))
<1> DEFINE n == Len(jobs)
           more == Append(jobs, j)
<1>1. n \in Nat /\ Len(more) = n + 1 /\ more[n + 1] = j /\ \A r \in 1..n : more[r] = jobs[r]
  OBVIOUS
<1>2. WireFits(c, q, p) /\ AnswersFit(p, jobs) => AnswersFit(p, more)
  BY HonestMore, NotYetAsked DEF WireFits
<1>3. \A v, w, r : Course(v, r, w, jobs) => Course(v, r, w, more)
  BY CourseMore
<1> HIDE DEF n, more
<1>4. \A r \in 1..Len(more) : more[r].sid = s => r \in 1..n /\ more[r] = jobs[r]
  BY <1>1
<1>5. NoJobs(s, c, jobs) => NoJobs(s, c, more)
  BY <1>4 DEF NoJobs, n
<1>6. Broken(s, c, jobs) => Broken(s, c, more)
  BY <1>4 DEF Broken, n
<1>7. TalkFits(s, c, q, p, jobs) => TalkFits(s, c, q, p, more)
  BY <1>3, <1>6 DEF TalkFits
<1>8. HandshakeFits(s, c, p, jobs) => HandshakeFits(s, c, p, more)
  BY <1>5 DEF HandshakeFits
<1>9. ServerFits(s, c, q, p, more)
  BY <1>2, <1>7, <1>8 DEF ServerFits
<1> QED BY <1>9 DEF more

(* A request of its own.                                                   *)
LEMMA RequestFits ==
  ASSUME NEW s, NEW c \in Client, NEW d \in Client, NEW q \in Seq(Message),
         NEW p \in Process, NEW jobs \in Seq(Job), NEW j \in Job, NEW m \in Message,
         ServerFits(s, c, q, p, jobs), ClientFits(s, c, jobs), Ready(c),
         j.sid = s, j.gen = c.gen, j.term = c.term,
         m.msg = "request", m.id = Len(jobs) + 1,
         First(c) => c.docs[m.uri] = j.asked /\ j.asked # 0,
         d.state = c.state, d.gen = c.gen, d.term = c.term, d.deferred = c.deferred,
         d.docs = c.docs, d.pending = c.pending \cup {Len(jobs) + 1},
         d.dropped = c.dropped
  PROVE  ServerFits(s, d, Append(q, m), p, Append(jobs, j))
<1> DEFINE n == Len(jobs)
           more == Append(jobs, j)
           k == Append(q, m)
<1>1. /\ n \in Nat /\ Len(more) = n + 1 /\ more[n + 1] = j
      /\ \A r \in 1..n : more[r] = jobs[r]
      /\ more \in Seq(Job) /\ n + 1 \in DOMAIN more
  OBVIOUS
<1>2. n + 1 \notin c.pending \cup c.dropped /\ n + 1 # Init0 /\ n + 1 # Shut
  BY <1>1, NotYetAsked DEF Init0, Shut
<1>3. Ids(m) = {n + 1}
  BY DEF Ids, Asks, IdOf
<1>4. Live(c) /\ Live(d) /\ ~Early(c) /\ ~Early(d) /\ (First(d) <=> First(c))
  BY DEF Ready, Live, Early, First
<1>5. WireFits(c, q, p) /\ HandshakeFits(s, c, p, jobs) /\ AnswersFit(p, jobs)
        /\ EventsFit(p) /\ (p.bad => c.gen > 1 \/ c.term) /\ c.state # "none"
  BY <1>4 DEF ServerFits, Live
<1>6. AnswersFit(p, more)
  BY <1>2, <1>5, HonestMore DEF WireFits
<1>7. Asked(k) = Asked(q) \cup {n + 1}
  BY <1>3, AskedAppend
<1>8. n + 1 \notin Asked(q) /\ n + 1 \notin Owed(p) /\ n + 1 \notin Answered(p)
  BY <1>2, <1>5 DEF WireFits
<1>9. AskedOnce(k)
  BY <1>3, <1>5, <1>8, AskedOnceAppend DEF WireFits
<1> HIDE DEF n, more, k
<1>10. WireFits(d, k, p)
  BY <1>5, <1>7, <1>8, <1>9 DEF WireFits, n
<1>11. HandshakeFits(s, d, p, more)
  <2>1. ~Started(p) /\ Init0 \notin c.pending /\ Shut \notin c.pending
    BY <1>5 DEF HandshakeFits, Ready
  <2>2. Init0 \notin d.pending /\ Shut \notin d.pending
    BY <1>2, <2>1 DEF n
  <2> QED BY <1>4, <2>1, <2>2 DEF HandshakeFits
<1>12. ASSUME p.up, First(c) PROVE TalkFits(s, d, k, p, more)
  <2>1. TalkFits(s, c, q, p, jobs)
    BY <1>12 DEF ServerFits, First
  <2>2. CASE Broken(s, c, jobs)
    <3>1. \A r \in 1..Len(more) : r \in 1..n \/ r = n + 1
      BY <1>1
    <3>2. Broken(s, d, more)
      BY <1>1, <2>2, <3>1 DEF Broken, n
    <3> QED BY <3>2 DEF TalkFits
  <2>3. CASE ~Broken(s, c, jobs)
    <3>1. ~p.bad /\ Course(ViewOf(p), q, Target(c), jobs)
      BY <2>1, <2>3 DEF TalkFits
    <3>2. Course(ViewOf(p), q, Told(c), more)
      <4>1. Target(c) = Told(c)
        BY DEF Target, Told, Ready
      <4> QED BY <3>1, <4>1, CourseMore DEF more
    <3>3. Suits(Told(c), m, more)
      <4>1. Told(c).phase = 2 /\ Told(c).open = c.docs
        BY DEF Told
      <4>2. more[m.id].asked = c.docs[m.uri] /\ c.docs[m.uri] # 0
        BY <1>1, <1>12 DEF n
      <4>3. ~OutOfOrder(Told(c), m)
        BY <4>1, <4>2 DEF OutOfOrder
      <4> QED BY <1>1, <4>1, <4>2, <4>3 DEF Suits, n
    <3>4. Effect(Told(c), m) = Told(c)
      BY DEF Effect
    <3>5. Course(ViewOf(p), k, Told(c), more)
      BY <3>2, <3>3, <3>4, CourseAppend DEF k
    <3>6. Target(d) = Told(c)
      BY DEF Target, Told, Ready
    <3> QED BY <1>4, <3>1, <3>5, <3>6 DEF TalkFits
  <2> QED BY <2>2, <2>3
<1>13. ServerFits(s, d, k, p, more)
  BY <1>4, <1>5, <1>6, <1>10, <1>11, <1>12 DEF ServerFits, First
<1> QED BY <1>13 DEF k, more

(***************************************************************************)
(* One server, when its client reads what it said.                         *)
(***************************************************************************)
(* What is known of the event x that was read, when r is left to read.     *)
Heard(s, c, q, r, x, jobs) ==
  /\ x \in Event /\ ~Started(r)
  /\ x.ev = "started" =>
       /\ Init0 \notin c.pending /\ Shut \notin c.pending /\ NoJobs(s, c, jobs)
       /\ c.state = "starting" \/ (c.state = "shutdown" /\ c.term)
  /\ x.ev = "response" =>
       /\ x.id \in c.pending \cup c.dropped
       /\ x.id \notin Asked(q) \cup Owed(r) \cup Answered(r)
       /\ x.id \in 1..Len(jobs) => Honest(jobs, x.id, x.text)
  /\ x.ev = "exit" => r.events = <<>> /\ ~r.up

LEMMA HeardFits ==
  ASSUME NEW s, NEW c \in Client, NEW q \in Seq(Message), NEW p \in Process,
         NEW r \in Process, NEW jobs, ServerFits(s, c, q, p, jobs), Live(c), Read(p, r)
  PROVE  ServerFits(s, c, q, r, jobs) /\ Heard(s, c, q, r, Head(p.events), jobs)
<1> DEFINE x == Head(p.events)
<1>1. /\ WireFits(c, q, p) /\ HandshakeFits(s, c, p, jobs) /\ AnswersFit(p, jobs)
      /\ EventsFit(p) /\ (p.bad => c.gen > 1 \/ c.term) /\ c.state # "none"
      /\ p.up /\ c.gen = 1 => TalkFits(s, c, q, p, jobs)
  BY DEF ServerFits, Live
<1>2. /\ p.events # <<>> /\ r.events = Tail(p.events)
      /\ r.up = p.up /\ r.phase = p.phase /\ r.open = p.open /\ r.todo = p.todo
      /\ r.bad = p.bad
  BY DEF Read
<1>3. /\ EventsFit(r) /\ ~Started(r) /\ x \in Event
      /\ x.ev = "started" => Started(p)
      /\ x.ev = "exit" => r.events = <<>> /\ ~p.up
  BY <1>1, ReadFits
<1>4. AnswersFit(r, jobs) /\ (x.ev = "response" /\ x.id \in 1..Len(jobs) => Honest(jobs, x.id, x.text))
  BY <1>1, ReadHonest
<1>5. Owed(r) = Owed(p) /\ (OwedOnce(p) => OwedOnce(r))
  BY <1>2 DEF Owed, OwedOnce
<1>6. /\ Answered(p) = Answered(r) \cup AnswerIds(x)
      /\ AnswerIds(x) \cap Answered(r) = {} /\ AnsweredOnce(r)
  BY <1>1, <1>2, AnsweredTail DEF WireFits
<1> HIDE DEF x
<1>7. WireFits(c, q, r)
  BY <1>1, <1>5, <1>6 DEF WireFits
<1>8. AnswerIds(x) \cap (Asked(q) \cup Owed(r) \cup Answered(r)) = {}
        /\ AnswerIds(x) \subseteq c.pending \cup c.dropped
  BY <1>1, <1>5, <1>6 DEF WireFits
<1>9. HandshakeFits(s, c, r, jobs)
  BY <1>1, <1>3 DEF HandshakeFits
<1>10. TalkFits(s, c, q, p, jobs) => TalkFits(s, c, q, r, jobs)
  <2>1. ViewOf(r) = ViewOf(p)
    BY <1>2 DEF ViewOf
  <2> QED BY <1>2, <2>1 DEF TalkFits
<1>11. ServerFits(s, c, q, r, jobs)
  BY <1>1, <1>2, <1>3, <1>4, <1>7, <1>9, <1>10 DEF ServerFits
<1>12. x.ev = "started" =>
       /\ Init0 \notin c.pending /\ Shut \notin c.pending /\ NoJobs(s, c, jobs)
       /\ c.state = "starting" \/ (c.state = "shutdown" /\ c.term)
  BY <1>1, <1>3 DEF HandshakeFits
<1>13. x.ev = "response" => /\ x.id \in c.pending \cup c.dropped
                            /\ x.id \notin Asked(q) \cup Owed(r) \cup Answered(r)
  BY <1>8 DEF AnswerIds
<1>14. Heard(s, c, q, r, x, jobs)
  BY <1>2, <1>3, <1>4, <1>12, <1>13 DEF Heard
<1> QED BY <1>11, <1>14 DEF x

(* A server of a first generation that was killed before it had a job.     *)
LEMMA NoJobsBroken ==
  ASSUME NEW s, NEW c, NEW jobs, NoJobs(s, c, jobs), c.gen = 1, c.term
  PROVE  Broken(s, c, jobs)
BY DEF NoJobs, Broken

(* on_started.                                                             *)
LEMMA StartedFits ==
  ASSUME NEW s, NEW c \in Client, NEW d \in Client, NEW q \in Seq(Message),
         NEW r \in Process, NEW x, NEW jobs \in Seq(Job), NEW m \in Message,
         ServerFits(s, c, q, r, jobs), Heard(s, c, q, r, x, jobs), ClientFits(s, c, jobs),
         Live(c), x.ev = "started", m.msg = "initialize",
         d.state = "initializing", d.gen = c.gen, d.term = c.term,
         d.deferred = c.deferred, d.docs = c.docs,
         d.pending = c.pending \cup {Init0}, d.dropped = c.dropped
  PROVE  ServerFits(s, d, Append(q, m), r, jobs)
<1> DEFINE k == Append(q, m)
<1>1. /\ Init0 \notin c.pending /\ Shut \notin c.pending /\ NoJobs(s, c, jobs)
      /\ c.state = "starting" \/ (c.state = "shutdown" /\ c.term)
      /\ ~Started(r)
  BY DEF Heard
<1>2. Init0 \notin c.dropped /\ Init0 # Shut
  BY DEF ClientFits, Init0, Shut
<1>3. Ids(m) = {Init0}
  BY DEF Ids, Asks, IdOf
<1>4. /\ WireFits(c, q, r) /\ AnswersFit(r, jobs)
      /\ EventsFit(r) /\ (r.bad => c.gen > 1 \/ c.term)
  BY DEF ServerFits, Live
<1>5. Asked(k) = Asked(q) \cup {Init0}
  BY <1>3, AskedAppend
<1>6. Init0 \notin Asked(q) /\ Init0 \notin Owed(r) /\ Init0 \notin Answered(r)
  BY <1>1, <1>2, <1>4 DEF WireFits
<1>7. AskedOnce(k)
  BY <1>3, <1>4, <1>6, AskedOnceAppend DEF WireFits
<1> HIDE DEF k
<1>8. WireFits(d, k, r)
  BY <1>4, <1>5, <1>6, <1>7 DEF WireFits
<1>9. NoJobs(s, d, jobs)
  BY <1>1 DEF NoJobs
<1>10. HandshakeFits(s, d, r, jobs)
  BY <1>1, <1>2, <1>9 DEF HandshakeFits
<1>11. ASSUME r.up, c.gen = 1 PROVE TalkFits(s, d, k, r, jobs)
  <2>1. TalkFits(s, c, q, r, jobs)
    BY <1>11 DEF ServerFits
  <2>2. CASE c.term
    <3>1. Broken(s, d, jobs)
      BY <1>9, <1>11, <2>2, NoJobsBroken
    <3> QED BY <3>1 DEF TalkFits
  <2>3. CASE ~c.term
    <3>1. c.state = "starting" /\ Early(c)
      BY <1>1, <2>3 DEF Early
    <3>2. /\ ~r.bad /\ Course(ViewOf(r), q, Target(c), jobs)
          /\ Course(Noted, c.deferred, Told(c), jobs)
      BY <2>1, <2>3, <3>1 DEF TalkFits, Broken, Noted, Told
    <3>3. Target(c) = [phase |-> 0, open |-> NoDocs]
      BY <3>1 DEF Target
    <3>4. Suits(Target(c), m, jobs)
      BY <3>3 DEF Suits, OutOfOrder
    <3>5. Effect(Target(c), m) = [phase |-> 1, open |-> NoDocs]
      BY <3>3 DEF Effect
    <3>6. Effect(Target(c), m) = Target(d)
      BY <3>5 DEF Target
    <3>7. Course(ViewOf(r), k, Target(d), jobs)
      BY <3>2, <3>4, <3>6, CourseAppend DEF k
    <3>8. Course(Noted, d.deferred, Told(d), jobs)
      BY <3>2 DEF Told
    <3> QED BY <3>2, <3>7, <3>8 DEF TalkFits, Noted, Told
  <2> QED BY <2>2, <2>3
<1>12. Live(d)
  BY DEF Live
<1>13. ServerFits(s, d, k, r, jobs)
  BY <1>4, <1>8, <1>10, <1>11, <1>12 DEF ServerFits
<1> QED BY <1>13 DEF k

(* The response to initialize.                                             *)
LEMMA InitializedFits ==
  ASSUME NEW s, NEW c \in Client, NEW d \in Client, NEW q \in Seq(Message),
         NEW r \in Process, NEW x, NEW jobs \in Seq(Job), NEW m \in Message,
         ServerFits(s, c, q, r, jobs), Heard(s, c, q, r, x, jobs), ClientFits(s, c, jobs),
         Live(c), x.ev = "response", x.id = Init0, x.id \in c.pending,
         m.msg = "initialized",
         d.state = "initialized", d.gen = c.gen, d.term = c.term,
         d.docs = c.docs, d.pending = c.pending \ {Init0}, d.dropped = c.dropped
  PROVE  ServerFits(s, d, Append(q, m) \o c.deferred, r, jobs)
<1> DEFINE a == Append(q, m)
           k == a \o c.deferred
<1>1. /\ Init0 \notin Asked(q) \cup Owed(r) \cup Answered(r) /\ ~Started(r)
  BY DEF Heard
<1>2. Ids(m) = {}
  BY DEF Ids, Asks
<1>3. /\ WireFits(c, q, r) /\ AnswersFit(r, jobs) /\ HandshakeFits(s, c, r, jobs)
      /\ EventsFit(r) /\ (r.bad => c.gen > 1 \/ c.term)
  BY DEF ServerFits, Live
<1>4. a \in Seq(Message) /\ Asked(a) = Asked(q) /\ AskedOnce(a)
  <2>1. a \in Seq(Message)
    OBVIOUS
  <2>2. Asked(a) = Asked(q)
    <3>1. Asked(a) = Asked(q) \cup Ids(m)
      BY AskedAppend, Zenon
    <3> QED BY <1>2, <3>1
  <2>3. AskedOnce(a)
    BY <1>2, <1>3, AskedOnceAppend DEF WireFits
  <2> QED BY <2>1, <2>2, <2>3
<1>5. c.deferred \in Seq(Note) /\ c.deferred \in Seq(Message)
  <2>1. c.deferred \in Seq(Note)
    BY DEF Client
  <2> QED BY <2>1, SeqMonotonic DEF Message
<1> HIDE DEF a
<1>6. Asked(k) = Asked(q) /\ AskedOnce(k)
  BY <1>4, <1>5, AskedJoin
<1> HIDE DEF k
<1>7. WireFits(d, k, r)
  BY <1>1, <1>3, <1>6 DEF WireFits
<1>8. /\ Shut \notin c.pending /\ NoJobs(s, c, jobs)
      /\ c.state = "initializing" \/ (c.state = "shutdown" /\ c.term)
  BY <1>3 DEF HandshakeFits
<1>9. HandshakeFits(s, d, r, jobs)
  BY <1>1, <1>8 DEF HandshakeFits, Early
<1>10. ASSUME r.up, c.gen = 1 PROVE TalkFits(s, d, k, r, jobs)
  <2>1. TalkFits(s, c, q, r, jobs)
    BY <1>10 DEF ServerFits
  <2>2. CASE c.term
    <3>1. NoJobs(s, d, jobs)
      BY <1>8 DEF NoJobs
    <3>2. Broken(s, d, jobs)
      BY <1>10, <2>2, <3>1, NoJobsBroken
    <3> QED BY <3>2 DEF TalkFits
  <2>3. CASE ~c.term
    <3>1. c.state = "initializing" /\ Early(c)
      BY <1>8, <2>3 DEF Early
    <3>2. /\ ~r.bad /\ Course(ViewOf(r), q, Target(c), jobs)
          /\ Course(Noted, c.deferred, Told(c), jobs)
      BY <2>1, <2>3, <3>1 DEF TalkFits, Broken, Noted, Told
    <3>3. Target(c) = [phase |-> 1, open |-> NoDocs]
      BY <3>1 DEF Target
    <3>4. Suits(Target(c), m, jobs)
      BY <3>3 DEF Suits, OutOfOrder
    <3>5. Effect(Target(c), m) = Noted
      BY <3>3 DEF Effect, Noted
    <3>6. Course(ViewOf(r), a, Noted, jobs)
      BY <3>2, <3>4, <3>5, CourseAppend DEF a
    <3>7. Course(ViewOf(r), k, Told(c), jobs)
      BY <1>4, <1>5, <3>2, <3>6, CourseJoin DEF k
    <3>8. Target(d) = Told(c) /\ ~Early(d)
      BY DEF Target, Told, Early
    <3> QED BY <3>2, <3>7, <3>8 DEF TalkFits
  <2> QED BY <2>2, <2>3
<1>12. Live(d)
  BY DEF Live
<1>13. ServerFits(s, d, k, r, jobs)
  BY <1>3, <1>7, <1>9, <1>10, <1>12 DEF ServerFits
<1> QED BY <1>13 DEF k, a

(* The response to a request that is pending or was given up.              *)
LEMMA AnsweredFits ==
  ASSUME NEW s, NEW c \in Client, NEW d \in Client, NEW q \in Seq(Message),
         NEW r \in Process, NEW x, NEW jobs,
         ServerFits(s, c, q, r, jobs), Heard(s, c, q, r, x, jobs), ClientFits(s, c, jobs),
         Live(c), x.ev = "response", x.id # Init0,
         d.state = c.state, d.gen = c.gen, d.term = c.term, d.deferred = c.deferred,
         d.docs = c.docs, d.pending = c.pending \ {x.id}, d.dropped = c.dropped \ {x.id}
  PROVE  ServerFits(s, d, q, r, jobs)
<1>1. x.id \notin Asked(q) \cup Owed(r) \cup Answered(r)
  BY DEF Heard
<1>2. (Live(d) <=> Live(c)) /\ (Early(d) <=> Early(c)) /\ (First(d) <=> First(c))
  BY DEF Live, Early, First
<1>3. WireFits(c, q, r) => WireFits(d, q, r)
  BY <1>1 DEF WireFits
<1>4. HandshakeFits(s, c, r, jobs) => HandshakeFits(s, d, r, jobs)
  BY <1>2 DEF HandshakeFits, NoJobs
<1>5. ASSUME First(c), TalkFits(s, c, q, r, jobs) PROVE TalkFits(s, d, q, r, jobs)
  <2>1. Broken(s, c, jobs) <=> Broken(s, d, jobs)
    BY DEF Broken
  <2>2. Target(d) = Target(c) /\ d.docs = c.docs
    BY DEF Target
  <2> QED BY <1>2, <1>5, <2>1, <2>2 DEF TalkFits
<1> QED BY <1>2, <1>3, <1>4, <1>5 DEF ServerFits, First

(* exit goes out after everything else.                                    *)
LEMMA ExitFits ==
  ASSUME NEW s, NEW c \in Client, NEW q \in Seq(Message), NEW r \in Process, NEW jobs,
         NEW m \in Message, ServerFits(s, c, q, r, jobs), c.state = "shutdown",
         m.msg = "exit"
  PROVE  ServerFits(s, c, Append(q, m), r, jobs)
<1>1. Ids(m) = {}
  BY DEF Ids, Asks
<1>2. Asked(Append(q, m)) = Asked(q)
  BY <1>1, AskedAppend
<1>3. AskedOnce(q) => AskedOnce(Append(q, m))
  BY <1>1, AskedOnceAppend
<1>4. WireFits(c, q, r) => WireFits(c, Append(q, m), r)
  BY <1>2, <1>3 DEF WireFits
<1>5. ASSUME TalkFits(s, c, q, r, jobs) PROVE TalkFits(s, c, Append(q, m), r, jobs)
  <2>1. CASE Broken(s, c, jobs)
    BY <2>1 DEF TalkFits
  <2>2. CASE ~Broken(s, c, jobs)
    <3>1. ~r.bad /\ Course(ViewOf(r), q, Target(c), jobs) /\ ~Early(c)
      BY <1>5, <2>2 DEF TalkFits, Early
    <3>2. Suits(Target(c), m, jobs) /\ Effect(Target(c), m) = Target(c)
      BY DEF Suits, OutOfOrder, Effect
    <3>3. Course(ViewOf(r), Append(q, m), Target(c), jobs)
      BY <3>1, <3>2, CourseAppend
    <3> QED BY <3>1, <3>3 DEF TalkFits
  <2> QED BY <2>1, <2>2
<1> QED BY <1>4, <1>5 DEF ServerFits

(* A server that is gone.                                                  *)
LEMMA GoneFits ==
  ASSUME NEW s, NEW d, NEW k, NEW r, NEW jobs,
         d.state \in {"stopped", "crashed"}, ~r.up, EventsFit(r),
         r.bad => d.gen > 1 \/ d.term
  PROVE  ServerFits(s, d, k, r, jobs)
BY DEF ServerFits, Live

(* A process that starts.                                                  *)
Fresh == [NoProc EXCEPT !.up = TRUE, !.events = <<[ev |-> "started"]>>]

LEMMA NoDocsIsView == NoDocs \in [Uris -> Nat] /\ \A f \in 0..2 : [phase |-> f, open |-> NoDocs] \in View
BY DEF NoDocs, View

LEMMA NoProcIsProcess == NoProc \in Process
BY NoDocsIsView DEF NoProc, Process

LEMMA FreshIsProcess == Fresh \in Process
<1> DEFINE z == <<[ev |-> "started"]>>
<1>1. [ev |-> "started"] \in Event
  BY DEF Event
<1>2. z \in Seq(Event)
  BY <1>1
<1> HIDE DEF z
<1>3. [NoProc EXCEPT !.up = TRUE, !.events = z] \in Process
  BY <1>2, NoProcIsProcess DEF Process
<1> QED BY <1>3 DEF Fresh, z

LEMMA FreshFacts ==
  /\ Fresh.up /\ Len(Fresh.events) = 1 /\ Fresh.events[1].ev = "started"
  /\ Fresh.phase = 0 /\ Fresh.open = NoDocs /\ Fresh.todo = {} /\ ~Fresh.bad
BY DEF Fresh, NoProc

LEMMA FreshFits ==
  ASSUME NEW s, NEW d \in Client, NEW jobs,
         d.state = "starting", d.gen # 0, d.pending = {}, d.dropped = {},
         d.deferred = <<>>, d.docs = NoDocs, NoJobs(s, d, jobs)
  PROVE  ServerFits(s, d, <<>>, Fresh, jobs)
<1>1. /\ Fresh.up /\ Len(Fresh.events) = 1 /\ Fresh.events[1].ev = "started"
      /\ Fresh.phase = 0 /\ Fresh.open = NoDocs /\ Fresh.todo = {} /\ ~Fresh.bad
  BY FreshFacts
<1> DEFINE p == Fresh
<1> HIDE DEF p
<1>0. p = Fresh
  BY DEF p
<1>2. EventsFit(p) /\ Started(p)
  BY <1>0, <1>1 DEF EventsFit, Started
<1>3. Answered(p) = {} /\ Owed(p) = {} /\ AnsweredOnce(p) /\ OwedOnce(p)
  BY <1>0, <1>1 DEF Answered, Owed, AnsweredOnce, OwedOnce
<1>4. WireFits(d, <<>>, p)
  BY <1>3, AskedNone DEF WireFits
<1>5. HandshakeFits(s, d, p, jobs)
  BY <1>2 DEF HandshakeFits, Early
<1>6. AnswersFit(p, jobs)
  BY <1>0, <1>1 DEF AnswersFit
<1>7. TalkFits(s, d, <<>>, p, jobs)
  <2>1. ViewOf(p) = [phase |-> 0, open |-> NoDocs] /\ Target(d) = [phase |-> 0, open |-> NoDocs]
    BY <1>0, <1>1 DEF ViewOf, Target
  <2>2. [phase |-> 0, open |-> NoDocs] \in View /\ [phase |-> 2, open |-> NoDocs] \in View
    BY NoDocsIsView
  <2>3. Course(ViewOf(p), <<>>, Target(d), jobs)
    BY <2>1, <2>2, CourseNone
  <2>4. Course([phase |-> 2, open |-> NoDocs], <<>>, [phase |-> 2, open |-> NoDocs], jobs)
    BY <2>2, CourseNone
  <2> QED BY <1>0, <1>1, <2>3, <2>4 DEF TalkFits
<1>8. ServerFits(s, d, <<>>, p, jobs)
  BY <1>0, <1>1, <1>2, <1>4, <1>5, <1>6, <1>7 DEF ServerFits, Live
<1> QED BY <1>8 DEF p

(* stop of a server that is ready.                                         *)
LEMMA StopAskedFits ==
  ASSUME NEW s, NEW c \in Client, NEW d \in Client, NEW q \in Seq(Message),
         NEW p \in Process, NEW jobs, NEW m \in Message,
         ServerFits(s, c, q, p, jobs), ClientFits(s, c, jobs), Ready(c),
         m.msg = "shutdown", d.state = "shutdown", d.gen = c.gen, d.term = c.term,
         d.deferred = c.deferred, d.docs = c.docs,
         d.pending = c.pending \cup {Shut}, d.dropped = c.dropped
  PROVE  ServerFits(s, d, Append(q, m), p, jobs)
<1> DEFINE k == Append(q, m)
<1>1. /\ WireFits(c, q, p) /\ HandshakeFits(s, c, p, jobs) /\ AnswersFit(p, jobs)
      /\ EventsFit(p) /\ (p.bad => c.gen > 1 \/ c.term)
      /\ p.up /\ c.gen = 1 => TalkFits(s, c, q, p, jobs)
  BY DEF ServerFits, Live, Ready
<1>2. ~Started(p) /\ Init0 \notin c.pending /\ Shut \notin c.pending
  BY <1>1 DEF HandshakeFits, Ready
<1>3. Shut \notin c.dropped /\ Init0 # Shut
  BY DEF ClientFits, Init0, Shut
<1>4. Ids(m) = {Shut}
  BY DEF Ids, Asks, IdOf
<1>5. Asked(k) = Asked(q) \cup {Shut}
  BY <1>4, AskedAppend
<1>6. Shut \notin Asked(q) /\ Shut \notin Owed(p) /\ Shut \notin Answered(p)
  BY <1>1, <1>2, <1>3 DEF WireFits
<1>7. AskedOnce(k)
  BY <1>1, <1>4, <1>6, AskedOnceAppend DEF WireFits
<1> HIDE DEF k
<1>8. WireFits(d, k, p)
  BY <1>1, <1>5, <1>6, <1>7 DEF WireFits
<1>9. HandshakeFits(s, d, p, jobs)
  BY <1>2, <1>3 DEF HandshakeFits, Early
<1>10. ASSUME TalkFits(s, c, q, p, jobs) PROVE TalkFits(s, d, k, p, jobs)
  <2>1. CASE Broken(s, c, jobs)
    BY <2>1 DEF TalkFits, Broken
  <2>2. CASE ~Broken(s, c, jobs)
    <3>1. ~p.bad /\ Course(ViewOf(p), q, Told(c), jobs) /\ ~Early(d)
      BY <1>10, <2>2 DEF TalkFits, Early, Target, Told, Ready
    <3>2. Suits(Told(c), m, jobs) /\ Effect(Told(c), m) = Target(d)
      BY DEF Suits, OutOfOrder, Effect, Told, Target
    <3>3. Course(ViewOf(p), k, Target(d), jobs)
      BY <3>1, <3>2, CourseAppend DEF k
    <3> QED BY <3>1, <3>3 DEF TalkFits
  <2> QED BY <2>1, <2>2
<1>11. ServerFits(s, d, k, p, jobs)
  BY <1>1, <1>8, <1>9, <1>10 DEF ServerFits, Live
<1> QED BY <1>11 DEF k

(* stop of a server that is not ready: it is killed.                       *)
LEMMA StopKilledFits ==
  ASSUME NEW s, NEW c \in Client, NEW d \in Client, NEW q \in Seq(Message),
         NEW p \in Process, NEW jobs,
         ServerFits(s, c, q, p, jobs), Live(c), ~Ready(c),
         d.state = "shutdown", d.gen = c.gen, d.term, d.deferred = c.deferred,
         d.docs = c.docs, d.pending = c.pending, d.dropped = c.dropped
  PROVE  ServerFits(s, d, q, p, jobs)
<1>1. /\ WireFits(c, q, p) /\ HandshakeFits(s, c, p, jobs) /\ AnswersFit(p, jobs)
      /\ EventsFit(p)
      /\ p.up /\ c.gen = 1 => TalkFits(s, c, q, p, jobs)
  BY DEF ServerFits
<1>2. WireFits(d, q, p)
  BY <1>1 DEF WireFits
<1>3. HandshakeFits(s, d, p, jobs)
  BY <1>1 DEF HandshakeFits, Early, NoJobs
<1>4. ASSUME c.gen = 1, TalkFits(s, c, q, p, jobs) PROVE TalkFits(s, d, q, p, jobs)
  <2>1. CASE Broken(s, c, jobs)
    BY <2>1 DEF TalkFits, Broken
  <2>2. CASE ~Broken(s, c, jobs) /\ Early(c)
    <3>1. NoJobs(s, d, jobs)
      BY <1>1, <2>2 DEF HandshakeFits, NoJobs
    <3>2. Broken(s, d, jobs)
      BY <1>4, <3>1, NoJobsBroken
    <3> QED BY <3>2 DEF TalkFits
  <2>3. CASE ~Broken(s, c, jobs) /\ ~Early(c)
    <3>1. c.state = "shutdown"
      BY <2>3 DEF Live, Ready, Early
    <3>2. Target(d) = Target(c) /\ ~Early(d)
      BY <3>1 DEF Target, Early
    <3> QED BY <1>4, <2>3, <3>2 DEF TalkFits
  <2> QED BY <2>1, <2>2, <2>3
<1> QED BY <1>1, <1>2, <1>3, <1>4 DEF ServerFits, Live

(***************************************************************************)
(* One server, when its process takes a step.                              *)
(***************************************************************************)
LEMMA MessageUri ==
  ASSUME NEW m \in Message
  PROVE  /\ m.msg \in {"open", "change", "close", "save", "request"} => m.uri \in Uris
         /\ m.msg \in {"open", "change"} => m.text \in Nat
         /\ m.msg = "request" => m.id \in Int
         /\ m.msg \in {"open", "change", "close", "save", "cancel", "request",
                       "initialize", "initialized", "shutdown", "exit"}
<1>1. CASE m \in Note
  BY <1>1 DEF Note
<1>2. CASE m \notin Note
  BY <1>2 DEF Message
<1> QED BY <1>1, <1>2

LEMMA ViewIsEnough ==
  ASSUME NEW p, NEW m
  PROVE  OutOfOrder(ViewOf(p), m) <=> OutOfOrder(p, m)
<1>1. ViewOf(p).phase = p.phase /\ ViewOf(p).open = p.open
  BY DEF ViewOf
<1> QED BY <1>1 DEF OutOfOrder

(* What reading m makes of p.                                              *)
Takes(p, m, r) ==
  /\ r \in Process
  /\ r.bad <=> p.bad \/ OutOfOrder(p, m)
  /\ m.msg # "exit" => r.up = p.up /\ r.events = p.events
  /\ m.msg = "exit" => ~r.up /\ r.events = Append(p.events, [ev |-> "exit"])
  /\ ~OutOfOrder(p, m) => ViewOf(r) = Effect(ViewOf(p), m)
  /\ \/ r.todo = p.todo
     \/ /\ Asks(m)
        /\ \E t \in Nat : /\ r.todo = p.todo \cup {[id |-> IdOf(m), text |-> t]}
                          /\ m.msg = "request" /\ ~OutOfOrder(p, m) => t = p.open[m.uri]

LEMMA TakenFacts ==
  ASSUME NEW p \in Process, NEW m \in Message
  PROVE  Takes(p, m, Taken(p, m))
<1> DEFINE r == Taken(p, m)
           z == [p EXCEPT !.bad = @ \/ ~(~OutOfOrder(p, m))]
           Due(id, t) == [z EXCEPT !.todo = @ \cup {[id |-> id, text |-> t]}]
<1>1. /\ m.msg \in {"open", "change", "close", "save", "request"} => m.uri \in Uris
      /\ m.msg \in {"open", "change"} => m.text \in Nat
      /\ m.msg = "request" => m.id \in Int
  BY MessageUri
<1>2. /\ p.bad \in BOOLEAN /\ p.todo \subseteq Owing /\ p.open \in [Uris -> Nat]
      /\ p.phase \in 0..2 /\ p.events \in Seq(Event) /\ p.up \in BOOLEAN
  BY DEF Process
<1>3. OutOfOrder(p, m) \in BOOLEAN
  BY DEF OutOfOrder
<1>4. /\ z \in Process /\ z.up = p.up /\ z.events = p.events /\ z.phase = p.phase
      /\ z.open = p.open /\ z.todo = p.todo /\ (z.bad <=> p.bad \/ OutOfOrder(p, m))
  BY <1>2, <1>3 DEF Process
<1> HIDE DEF z
<1>5. ASSUME NEW id \in Int, NEW t \in Nat
      PROVE  /\ Due(id, t) \in Process /\ Due(id, t).up = p.up
             /\ Due(id, t).events = p.events /\ Due(id, t).phase = p.phase
             /\ Due(id, t).open = p.open /\ Due(id, t).bad = z.bad
             /\ Due(id, t).todo = p.todo \cup {[id |-> id, text |-> t]}
  <2>1. [id |-> id, text |-> t] \in Owing
    BY DEF Owing
  <2> QED BY <1>2, <1>4, <2>1 DEF Process
<1>6. CASE m.msg = "request"
  <2>1. PICK t : /\ t = IF ~OutOfOrder(p, m) THEN p.open[m.uri] ELSE 0
    OBVIOUS
  <2>2. t \in Nat
    BY <1>1, <1>2, <1>6, <2>1
  <2>3. r = Due(m.id, t)
    BY <1>6, <2>1 DEF Taken, z
  <2>4. Asks(m) /\ IdOf(m) = m.id
    BY <1>6 DEF Asks, IdOf
  <2>5. Effect(ViewOf(p), m) = ViewOf(p)
    BY <1>6 DEF Effect
  <2> HIDE DEF Due, r
  <2>6. ViewOf(r) = ViewOf(p)
    BY <1>1, <1>5, <1>6, <2>2, <2>3 DEF ViewOf
  <2>7. r \in Process /\ r.up = p.up /\ r.events = p.events /\ r.bad = z.bad
          /\ r.todo = p.todo \cup {[id |-> IdOf(m), text |-> t]}
    BY <1>1, <1>5, <1>6, <2>2, <2>3, <2>4
  <2>8. ~OutOfOrder(p, m) => t = p.open[m.uri]
    BY <2>1
  <2> QED BY <1>4, <1>6, <2>2, <2>4, <2>5, <2>6, <2>7, <2>8 DEF Takes, r
<1>7. CASE m.msg = "shutdown"
  <2>3. r = Due(Shut, 0) /\ Shut \in Int /\ 0 \in Nat
    BY <1>7 DEF Taken, z, Shut
  <2>4. Asks(m) /\ IdOf(m) = Shut
    BY <1>7 DEF Asks, IdOf
  <2>5. Effect(ViewOf(p), m) = ViewOf(p)
    BY <1>7 DEF Effect
  <2> HIDE DEF Due, r
  <2>6. ViewOf(r) = ViewOf(p)
    BY <1>5, <2>3 DEF ViewOf
  <2>7. r \in Process /\ r.up = p.up /\ r.events = p.events /\ r.bad = z.bad
          /\ r.todo = p.todo \cup {[id |-> IdOf(m), text |-> 0]}
    BY <1>5, <2>3, <2>4
  <2> QED BY <1>4, <1>7, <2>3, <2>4, <2>5, <2>6, <2>7 DEF Takes, r
<1>8. CASE m.msg = "initialize" /\ ~OutOfOrder(p, m)
  <2>1. Init0 \in Int /\ 0 \in Nat
    BY DEF Init0
  <2>2. r = [Due(Init0, 0) EXCEPT !.phase = 1]
    BY <1>8 DEF Taken, z
  <2> DEFINE y == Due(Init0, 0)
  <2>3. /\ y \in Process /\ y.up = p.up /\ y.events = p.events /\ y.phase = p.phase
        /\ y.open = p.open /\ y.bad = z.bad
        /\ y.todo = p.todo \cup {[id |-> Init0, text |-> 0]}
    BY <1>5, <2>1
  <2> HIDE DEF y
  <2>4. r = [y EXCEPT !.phase = 1]
    BY <2>2 DEF y
  <2> HIDE DEF Due, r
  <2>5. /\ r \in Process /\ r.up = p.up /\ r.events = p.events /\ r.phase = 1
        /\ r.open = p.open /\ r.bad = z.bad
        /\ r.todo = p.todo \cup {[id |-> Init0, text |-> 0]}
    BY <2>3, <2>4 DEF Process
  <2>6. Asks(m) /\ IdOf(m) = Init0
    BY <1>8 DEF Asks, IdOf
  <2>7. Effect(ViewOf(p), m) = [ViewOf(p) EXCEPT !.phase = 1]
    BY <1>8 DEF Effect
  <2>8. ViewOf(r) = Effect(ViewOf(p), m)
    BY <2>5, <2>7 DEF ViewOf
  <2> QED BY <1>4, <1>8, <2>1, <2>5, <2>6, <2>8 DEF Takes, r
<1>9. CASE m.msg = "initialized" /\ ~OutOfOrder(p, m)
  <2>1. r = [z EXCEPT !.phase = 2]
    BY <1>9 DEF Taken, z
  <2> HIDE DEF r
  <2>2. /\ r \in Process /\ r.up = p.up /\ r.events = p.events /\ r.phase = 2
        /\ r.open = p.open /\ r.bad = z.bad /\ r.todo = p.todo
    BY <1>4, <2>1 DEF Process
  <2>3. Effect(ViewOf(p), m) = [ViewOf(p) EXCEPT !.phase = 2]
    BY <1>9 DEF Effect
  <2>4. ViewOf(r) = Effect(ViewOf(p), m)
    BY <2>2, <2>3 DEF ViewOf
  <2> QED BY <1>4, <1>9, <2>2, <2>4 DEF Takes, r
<1>10. CASE m.msg \in {"open", "change"} /\ ~OutOfOrder(p, m)
  <2>1. r = [z EXCEPT !.open[m.uri] = m.text]
    BY <1>10 DEF Taken, z
  <2> HIDE DEF r
  <2>2. /\ r \in Process /\ r.up = p.up /\ r.events = p.events /\ r.phase = p.phase
        /\ r.open = [p.open EXCEPT ![m.uri] = m.text] /\ r.bad = z.bad /\ r.todo = p.todo
    BY <1>1, <1>4, <1>10, <2>1 DEF Process
  <2>3. Effect(ViewOf(p), m) = [ViewOf(p) EXCEPT !.open[m.uri] = m.text]
    BY <1>10 DEF Effect
  <2>4. ViewOf(r) = Effect(ViewOf(p), m)
    BY <2>2, <2>3 DEF ViewOf
  <2> QED BY <1>4, <1>10, <2>2, <2>4 DEF Takes, r
<1>11. CASE m.msg = "close" /\ ~OutOfOrder(p, m)
  <2>1. r = [z EXCEPT !.open[m.uri] = 0]
    BY <1>11 DEF Taken, z
  <2> HIDE DEF r
  <2>2. /\ r \in Process /\ r.up = p.up /\ r.events = p.events /\ r.phase = p.phase
        /\ r.open = [p.open EXCEPT ![m.uri] = 0] /\ r.bad = z.bad /\ r.todo = p.todo
    BY <1>1, <1>4, <1>11, <2>1 DEF Process
  <2>3. Effect(ViewOf(p), m) = [ViewOf(p) EXCEPT !.open[m.uri] = 0]
    BY <1>11 DEF Effect
  <2>4. ViewOf(r) = Effect(ViewOf(p), m)
    BY <2>2, <2>3 DEF ViewOf
  <2> QED BY <1>4, <1>11, <2>2, <2>4 DEF Takes, r
<1>12. CASE m.msg = "exit"
  <2>1. r = Emit([z EXCEPT !.up = FALSE], [ev |-> "exit"])
    BY <1>12 DEF Taken, z
  <2>2. [ev |-> "exit"] \in Event
    BY DEF Event
  <2> DEFINE x == [ev |-> "exit"]
             y == [z EXCEPT !.up = FALSE]
  <2>a. /\ y \in Process /\ ~y.up /\ y.events = p.events /\ y.phase = p.phase
        /\ y.open = p.open /\ y.bad = z.bad /\ y.todo = p.todo
    BY <1>4 DEF Process
  <2>b. x \in Event /\ Append(p.events, x) \in Seq(Event)
    BY <1>2, <2>2
  <2> HIDE DEF r, x, y
  <2>3. r = [y EXCEPT !.events = Append(p.events, x)]
    BY <2>1, <2>a DEF Emit, x, y
  <2>4. /\ r \in Process /\ ~r.up /\ r.events = Append(p.events, x) /\ r.phase = p.phase
        /\ r.open = p.open /\ r.bad = z.bad /\ r.todo = p.todo
    BY <2>a, <2>b, <2>3 DEF Process
  <2>5. Effect(ViewOf(p), m) = ViewOf(p)
    BY <1>12 DEF Effect
  <2>6. ViewOf(r) = ViewOf(p)
    BY <2>4 DEF ViewOf
  <2> QED BY <1>4, <1>12, <2>4, <2>5, <2>6 DEF Takes, r, x
<1>13. CASE \/ m.msg \in {"save", "cancel"}
            \/ m.msg \in {"initialize", "initialized", "open", "change", "close"}
                 /\ OutOfOrder(p, m)
  <2>1. r = z
    BY <1>13 DEF Taken, z
  <2>2. ~OutOfOrder(p, m) => Effect(ViewOf(p), m) = ViewOf(p)
    BY <1>13 DEF Effect
  <2>3. ViewOf(z) = ViewOf(p)
    BY <1>4 DEF ViewOf
  <2> QED BY <1>4, <1>13, <2>1, <2>2, <2>3 DEF Takes
<1>14. m.msg \in {"open", "change", "close", "save", "cancel", "request",
                  "initialize", "initialized", "shutdown", "exit"}
  BY MessageUri
<1> QED BY <1>6, <1>7, <1>8, <1>9, <1>10, <1>11, <1>12, <1>13, <1>14

(* The process reads the next message.                                     *)
LEMMA TakesFits ==
  ASSUME NEW s, NEW c \in Client, NEW q \in Seq(Message), NEW p \in Process,
         NEW r, NEW jobs \in Seq(Job), q # <<>>, p.up,
         ServerFits(s, c, q, p, jobs), ClientFits(s, c, jobs), Takes(p, Head(q), r)
  PROVE  ServerFits(s, c, Tail(q), r, jobs)
<1> DEFINE m == Head(q)
           k == Tail(q)
<1>1. m \in Message /\ k \in Seq(Message)
  OBVIOUS
<1>2. Live(c) /\ c.state # "none" /\ c.gen # 0 /\ c.gen \in Nat
  BY DEF ServerFits, ClientFits, Live, Client
<1>3. /\ WireFits(c, q, p) /\ HandshakeFits(s, c, p, jobs) /\ AnswersFit(p, jobs)
      /\ EventsFit(p) /\ (p.bad => c.gen > 1 \/ c.term)
      /\ c.gen = 1 => TalkFits(s, c, q, p, jobs)
  BY <1>2 DEF ServerFits
<1>4. /\ Asked(q) = Asked(k) \cup Ids(m) /\ Ids(m) \cap Asked(k) = {} /\ AskedOnce(k)
  BY <1>3, AskedTail DEF WireFits
<1>5. r \in Process /\ (r.bad <=> p.bad \/ OutOfOrder(p, m))
  BY DEF Takes
<1>6. CASE m.msg # "exit"
  <2>1. r.up = p.up /\ r.events = p.events
    BY <1>6 DEF Takes
  <2>2. EventsFit(r) /\ (Started(r) <=> Started(p)) /\ Answered(r) = Answered(p)
          /\ AnsweredOnce(r)
    BY <1>3, <2>1 DEF EventsFit, Started, Answered, AnsweredOnce, WireFits
  <2>3. HandshakeFits(s, c, r, jobs)
    BY <1>3, <2>2 DEF HandshakeFits
  <2>4. ASSUME First(c)
        PROVE  \/ Broken(s, c, jobs)
               \/ /\ ~OutOfOrder(p, m)
                  /\ m.msg = "request" => /\ m.id \in DOMAIN jobs
                                          /\ p.open[m.uri] = jobs[m.id].asked
                  /\ ~p.bad /\ Course(ViewOf(r), k, Target(c), jobs)
                  /\ Early(c) => Course([phase |-> 2, open |-> NoDocs], c.deferred,
                                        [phase |-> 2, open |-> c.docs], jobs)
    <3>1. SUFFICES ASSUME ~Broken(s, c, jobs)
                   PROVE  /\ ~OutOfOrder(p, m)
                          /\ m.msg = "request" => /\ m.id \in DOMAIN jobs
                                                  /\ p.open[m.uri] = jobs[m.id].asked
                          /\ ~p.bad /\ Course(ViewOf(r), k, Target(c), jobs)
                          /\ Early(c) => Course([phase |-> 2, open |-> NoDocs], c.deferred,
                                                [phase |-> 2, open |-> c.docs], jobs)
      OBVIOUS
    <3>2. /\ ~p.bad /\ Course(ViewOf(p), q, Target(c), jobs)
          /\ Early(c) => Course([phase |-> 2, open |-> NoDocs], c.deferred,
                                [phase |-> 2, open |-> c.docs], jobs)
      BY <1>3, <2>4, <3>1 DEF TalkFits, First
    <3>3. Suits(ViewOf(p), m, jobs) /\ Course(Effect(ViewOf(p), m), k, Target(c), jobs)
      BY <3>2, CourseTail
    <3>4. ~OutOfOrder(p, m)
      BY <3>3, ViewIsEnough DEF Suits
    <3>5. ViewOf(r) = Effect(ViewOf(p), m)
      BY <3>4 DEF Takes
    <3>6. m.msg = "request" => m.id \in DOMAIN jobs /\ p.open[m.uri] = jobs[m.id].asked
      BY <3>3 DEF Suits, ViewOf
    <3> QED BY <3>2, <3>3, <3>4, <3>5, <3>6
  <2>5. ASSUME c.gen = 1 PROVE TalkFits(s, c, k, r, jobs)
    <3>1. First(c)
      BY <1>2, <2>5 DEF First
    <3> QED BY <1>5, <2>4, <3>1 DEF TalkFits
  <2>6. r.bad => c.gen > 1 \/ c.term
    BY <1>2, <1>3, <1>5, <2>4 DEF First, Broken
  <2>7. WireFits(c, k, r) /\ AnswersFit(r, jobs)
    <3>1. CASE r.todo = p.todo
      <4>1. Owed(r) = Owed(p) /\ OwedOnce(r)
        BY <1>3, <3>1 DEF Owed, OwedOnce, WireFits
      <4>2. WireFits(c, k, r)
        BY <1>3, <1>4, <2>2, <4>1 DEF WireFits
      <4>3. AnswersFit(r, jobs)
        BY <1>3, <2>1, <3>1 DEF AnswersFit
      <4> QED BY <4>2, <4>3
    <3>2. CASE r.todo # p.todo
      <4>1. Asks(m)
        BY <3>2 DEF Takes
      <4>2. PICK t \in Nat : /\ r.todo = p.todo \cup {[id |-> IdOf(m), text |-> t]}
                             /\ m.msg = "request" /\ ~OutOfOrder(p, m) => t = p.open[m.uri]
        BY <3>2 DEF Takes
      <4> DEFINE y == [id |-> IdOf(m), text |-> t]
      <4>3. y.id = IdOf(m) /\ y.text = t /\ r.todo = p.todo \cup {y}
        BY <4>2
      <4> HIDE DEF y
      <4>4. Ids(m) = {IdOf(m)}
        BY <4>1 DEF Ids
      <4>5. Owed(r) = Owed(p) \cup {IdOf(m)}
        BY <4>3 DEF Owed
      <4>6. IdOf(m) \notin Owed(p) /\ IdOf(m) \notin Answered(p) /\ IdOf(m) \in c.pending \cup c.dropped
        BY <1>3, <1>4, <4>4 DEF WireFits
      <4>7. OwedOnce(r)
        BY <1>3, <4>3, <4>6 DEF OwedOnce, WireFits, Owed
      <4>8. WireFits(c, k, r)
        BY <1>3, <1>4, <2>2, <4>4, <4>5, <4>6, <4>7 DEF WireFits
      <4>9. ASSUME IdOf(m) \in 1..Len(jobs) PROVE Honest(jobs, IdOf(m), t)
        <5>1. IdOf(m) # Init0 /\ IdOf(m) # Shut
          BY <4>9 DEF Init0, Shut
        <5>2. m.msg = "request" /\ IdOf(m) = m.id
          BY <5>1 DEF IdOf
        <5>3. jobs[m.id].sid = s /\ jobs[m.id].gen = c.gen
          BY <4>6, <5>1, <5>2 DEF ClientFits
        <5>4. CASE First(c) /\ ~Broken(s, c, jobs)
          BY <2>4, <4>2, <5>2, <5>4 DEF Honest
        <5>5. CASE Broken(s, c, jobs)
          BY <4>9, <5>2, <5>3, <5>5 DEF Honest, Broken
        <5>6. CASE ~First(c)
          BY <1>2, <5>2, <5>3, <5>6 DEF Honest, First
        <5> QED BY <5>4, <5>5, <5>6
      <4>10. AnswersFit(r, jobs)
        BY <1>3, <2>1, <4>3, <4>9 DEF AnswersFit
      <4> QED BY <4>8, <4>10
    <3> QED BY <3>1, <3>2
  <2> HIDE DEF m, k
  <2>8. ServerFits(s, c, k, r, jobs)
    BY <1>2, <2>1, <2>2, <2>3, <2>5, <2>6, <2>7 DEF ServerFits
  <2> QED BY <2>8 DEF k
<1>7. CASE m.msg = "exit"
  <2>1. ~r.up /\ r.events = Append(p.events, [ev |-> "exit"])
    BY <1>7 DEF Takes
  <2>2. r.todo = p.todo
    BY <1>7 DEF Takes, Asks
  <2> DEFINE x == [ev |-> "exit"]
  <2>3. x \in Event /\ x.ev = "exit"
    BY DEF Event
  <2> HIDE DEF x
  <2>4. Says(p, r, x)
    BY <2>1 DEF Says, x
  <2>5. EventsFit(r) /\ (Started(r) <=> Started(p))
    BY <1>3, <1>5, <2>1, <2>3, <2>4, SaysFits
  <2>6. AnswersFit(r, jobs)
    BY <1>3, <1>5, <2>2, <2>3, <2>4, SaysHonestly
  <2>7. AnswerIds(x) = {}
    BY <2>3 DEF AnswerIds
  <2>8. Answered(r) = Answered(p) /\ AnsweredOnce(r)
    <3>1. r.events = Append(p.events, x)
      BY <2>4 DEF Says
    <3>2. AnsweredOnce(p)
      BY <1>3 DEF WireFits
    <3>3. Answered(r) = Answered(p) \cup AnswerIds(x)
      BY <1>5, <2>3, <3>1, AnsweredAppend
    <3>4. AnsweredOnce(p) /\ AnswerIds(x) \cap Answered(p) = {} => AnsweredOnce(r)
      BY <1>5, <2>3, <3>1, AnsweredAppend
    <3> QED BY <2>7, <3>2, <3>3, <3>4
  <2>9. Owed(r) = Owed(p) /\ OwedOnce(r)
    BY <1>3, <2>2 DEF Owed, OwedOnce, WireFits
  <2>10. WireFits(c, k, r)
    BY <1>3, <1>4, <2>8, <2>9 DEF WireFits
  <2>11. HandshakeFits(s, c, r, jobs)
    BY <1>3, <2>5 DEF HandshakeFits
  <2>12. r.bad => c.gen > 1 \/ c.term
    <3>1. ~OutOfOrder(p, m)
      BY <1>7 DEF OutOfOrder
    <3> QED BY <1>3, <1>5, <3>1
  <2> HIDE DEF m, k
  <2>13. ServerFits(s, c, k, r, jobs)
    BY <1>2, <2>1, <2>5, <2>6, <2>10, <2>11, <2>12 DEF ServerFits
  <2> QED BY <2>13 DEF k
<1> QED BY <1>6, <1>7

(* The process answers.                                                    *)
LEMMA AnsweringFits ==
  ASSUME NEW s, NEW c \in Client, NEW q \in Seq(Message), NEW p \in Process,
         NEW r \in Process, NEW jobs, NEW y \in p.todo, NEW x \in Event,
         ServerFits(s, c, q, p, jobs), p.up, Says(p, r, x),
         x.ev = "response", x.id = y.id, x.text = y.text,
         r.up = p.up, r.phase = p.phase, r.open = p.open, r.bad = p.bad,
         r.todo = p.todo \ {y}
  PROVE  ServerFits(s, c, q, r, jobs)
<1>2. Live(c) /\ c.state # "none"
  BY DEF ServerFits, Live
<1>3. /\ WireFits(c, q, p) /\ HandshakeFits(s, c, p, jobs) /\ AnswersFit(p, jobs)
      /\ EventsFit(p) /\ (p.bad => c.gen > 1 \/ c.term)
      /\ c.gen = 1 => TalkFits(s, c, q, p, jobs)
  BY <1>2 DEF ServerFits
<1>4. EventsFit(r) /\ (Started(r) <=> Started(p))
  BY <1>3, SaysFits
<1>5. AnswersFit(r, jobs)
  <2>1. x.id \in 1..Len(jobs) => Honest(jobs, x.id, x.text)
    BY <1>3 DEF AnswersFit
  <2>2. r.todo \subseteq p.todo
    OBVIOUS
  <2> QED BY <1>3, <2>1, <2>2, SaysHonestly
<1>6. AnswerIds(x) = {y.id}
  BY DEF AnswerIds
<1>7. Owed(p) = Owed(r) \cup {y.id} /\ y.id \notin Owed(r) /\ OwedOnce(r)
  <2>1. OwedOnce(p)
    BY <1>3 DEF WireFits
  <2>2. \A z \in r.todo : z \in p.todo /\ z # y /\ z.id # y.id
    BY <2>1 DEF OwedOnce
  <2>3. OwedOnce(r)
    BY <2>1, <2>2 DEF OwedOnce
  <2>4. y.id \notin Owed(r)
    BY <2>2 DEF Owed
  <2>5. \A z \in p.todo : z \in r.todo \/ z = y
    OBVIOUS
  <2>6. Owed(p) = Owed(r) \cup {y.id}
    BY <2>2, <2>5 DEF Owed
  <2> QED BY <2>3, <2>4, <2>6
<1>8. r.events = Append(p.events, x)
  BY DEF Says
<1>9. Answered(r) = Answered(p) \cup {y.id}
  BY <1>6, <1>8, AnsweredAppend
<1>10. y.id \notin Answered(p) /\ y.id \notin Asked(q)
  BY <1>3, <1>7 DEF WireFits
<1>11. AnsweredOnce(r)
  <2>1. AnsweredOnce(p) /\ AnswerIds(x) \cap Answered(p) = {} => AnsweredOnce(r)
    BY <1>8, AnsweredAppend
  <2> QED BY <1>3, <1>6, <1>10, <2>1 DEF WireFits
<1>12. WireFits(c, q, r)
  BY <1>3, <1>7, <1>9, <1>10, <1>11 DEF WireFits
<1>13. HandshakeFits(s, c, r, jobs)
  BY <1>3, <1>4 DEF HandshakeFits
<1>14. TalkFits(s, c, q, p, jobs) => TalkFits(s, c, q, r, jobs)
  <2>1. ViewOf(r) = ViewOf(p)
    BY DEF ViewOf
  <2> QED BY <2>1 DEF TalkFits
<1> QED BY <1>2, <1>3, <1>4, <1>5, <1>12, <1>13, <1>14 DEF ServerFits

(* The process says something of its own accord.                           *)
LEMMA PublishingFits ==
  ASSUME NEW s, NEW c \in Client, NEW q \in Seq(Message), NEW p \in Process,
         NEW r \in Process, NEW jobs, NEW x \in Event,
         ServerFits(s, c, q, p, jobs), p.up, Says(p, r, x), x.ev = "publish",
         r.up = p.up, r.phase = p.phase, r.open = p.open, r.bad = p.bad,
         r.todo = p.todo
  PROVE  ServerFits(s, c, q, r, jobs)
<1>2. Live(c) /\ c.state # "none"
  BY DEF ServerFits, Live
<1>3. /\ WireFits(c, q, p) /\ HandshakeFits(s, c, p, jobs) /\ AnswersFit(p, jobs)
      /\ EventsFit(p) /\ (p.bad => c.gen > 1 \/ c.term)
      /\ c.gen = 1 => TalkFits(s, c, q, p, jobs)
  BY <1>2 DEF ServerFits
<1>4. EventsFit(r) /\ (Started(r) <=> Started(p))
  BY <1>3, SaysFits
<1>5. AnswersFit(r, jobs)
  BY <1>3, SaysHonestly
<1>6. AnswerIds(x) = {}
  BY DEF AnswerIds
<1>7. Owed(r) = Owed(p) /\ OwedOnce(r)
  BY <1>3 DEF Owed, OwedOnce, WireFits
<1>8. r.events = Append(p.events, x)
  BY DEF Says
<1>9. Answered(r) = Answered(p)
  <2>1. Answered(r) = Answered(p) \cup AnswerIds(x)
    BY <1>8, AnsweredAppend
  <2> QED BY <1>6, <2>1
<1>11. AnsweredOnce(r)
  <2>1. AnsweredOnce(p) /\ AnswerIds(x) \cap Answered(p) = {} => AnsweredOnce(r)
    BY <1>8, AnsweredAppend
  <2> QED BY <1>3, <1>6, <2>1 DEF WireFits
<1>12. WireFits(c, q, r)
  BY <1>3, <1>7, <1>9, <1>11 DEF WireFits
<1>13. HandshakeFits(s, c, r, jobs)
  BY <1>3, <1>4 DEF HandshakeFits
<1>14. TalkFits(s, c, q, p, jobs) => TalkFits(s, c, q, r, jobs)
  <2>1. ViewOf(r) = ViewOf(p)
    BY DEF ViewOf
  <2> QED BY <2>1 DEF TalkFits
<1> QED BY <1>2, <1>3, <1>4, <1>5, <1>12, <1>13, <1>14 DEF ServerFits

(* The process dies.                                                       *)
LEMMA DyingFits ==
  ASSUME NEW s, NEW c \in Client, NEW q \in Seq(Message), NEW p \in Process,
         NEW r \in Process, NEW jobs, NEW x \in Event,
         ServerFits(s, c, q, p, jobs), p.up, Says(p, r, x), x.ev = "exit",
         ~r.up, r.bad = p.bad, r.todo = {}
  PROVE  ServerFits(s, c, q, r, jobs)
<1>2. Live(c) /\ c.state # "none"
  BY DEF ServerFits, Live
<1>3. /\ WireFits(c, q, p) /\ HandshakeFits(s, c, p, jobs) /\ AnswersFit(p, jobs)
      /\ EventsFit(p) /\ (p.bad => c.gen > 1 \/ c.term)
  BY <1>2 DEF ServerFits
<1>4. EventsFit(r) /\ (Started(r) <=> Started(p))
  BY <1>3, SaysFits
<1>5. AnswersFit(r, jobs)
  BY <1>3, SaysHonestly
<1>6. AnswerIds(x) = {}
  BY DEF AnswerIds
<1>7. Owed(r) = {} /\ OwedOnce(r)
  BY DEF Owed, OwedOnce
<1>8. r.events = Append(p.events, x)
  BY DEF Says
<1>9. Answered(r) = Answered(p)
  <2>1. Answered(r) = Answered(p) \cup AnswerIds(x)
    BY <1>8, AnsweredAppend
  <2> QED BY <1>6, <2>1
<1>11. AnsweredOnce(r)
  <2>1. AnsweredOnce(p) /\ AnswerIds(x) \cap Answered(p) = {} => AnsweredOnce(r)
    BY <1>8, AnsweredAppend
  <2> QED BY <1>3, <1>6, <2>1 DEF WireFits
<1>12. WireFits(c, q, r)
  BY <1>3, <1>7, <1>9, <1>11 DEF WireFits
<1>13. HandshakeFits(s, c, r, jobs)
  BY <1>3, <1>4 DEF HandshakeFits
<1> QED BY <1>2, <1>3, <1>4, <1>5, <1>12, <1>13 DEF ServerFits

(* What a dead server said is read no more.                                *)
LEMMA UnheardFits ==
  ASSUME NEW s, NEW c, NEW q, NEW p \in Process, NEW r \in Process, NEW jobs,
         ServerFits(s, c, q, p, jobs), ~Live(c), c.state # "none",
         r.events = <<>>, r.up = p.up, r.bad = p.bad
  PROVE  ServerFits(s, c, q, r, jobs)
<1>1. EventsFit(r)
  BY DEF EventsFit
<1> QED BY <1>1 DEF ServerFits

(***************************************************************************)
(* The editor: what its operations change.                                 *)
(***************************************************************************)
(* Of the servers, at most s has changed.                                  *)
Only(e, f, s) ==
  \A t \in Sids \ {s} : f.clients[t] = e.clients[t] /\ f.out[t] = e.out[t]

(* The attachment and the buffer have not.                                 *)
SameBuffer(e, f) ==
  f.rec = e.rec /\ f.uri = e.uri /\ f.dirty = e.dirty /\ f.text = e.text

(* Nor have the requests and their answers.                                *)
SameJobs(e, f) ==
  /\ f.jobs = e.jobs /\ f.run = e.run /\ f.routed = e.routed
  /\ f.store = e.store /\ f.stray = e.stray

LEMMA EditorFields ==
  ASSUME NEW e \in Editor
  PROVE  /\ e.clients \in [Sids -> Client] /\ e.out \in [Sids -> Seq(Message)]
         /\ e.jobs \in Seq(Job) /\ e.run \subseteq Nat /\ e.routed \subseteq Nat
         /\ e.store \subseteq Stored /\ e.diag \subseteq Uris
         /\ e.stray \in BOOLEAN /\ e.rec \in [sid : Sids \cup {NoSid}, uri : Uris]
         /\ e.uri \in Uris /\ e.dirty \in BOOLEAN /\ e.text \in Texts \ {0}
         /\ e.token \subseteq Nat /\ e.late \subseteq Nat
BY DEF Editor

LEMMA ClientFields ==
  ASSUME NEW c \in Client
  PROVE  /\ c.gen \in Nat /\ c.armed \in BOOLEAN /\ c.term \in BOOLEAN
         /\ c.pending \subseteq Int /\ c.dropped \subseteq Int
         /\ c.deferred \in Seq(Note) /\ c.docs \in [Uris -> Texts] /\ c.tomb \subseteq Uris
         /\ c.policy \in {"never", "on_crash"} /\ c.told \in BOOLEAN /\ c.due \in BOOLEAN
BY DEF Client

(* A client put in place of another.                                       *)
LEMMA WithClient ==
  ASSUME NEW e \in Editor, NEW s \in Sids, NEW d \in Client
  PROVE  LET f == [e EXCEPT !.clients[s] = d] IN
         /\ f \in Editor /\ f.clients[s] = d /\ f.out = e.out /\ Only(e, f, s)
         /\ SameBuffer(e, f) /\ SameJobs(e, f) /\ f.diag = e.diag
         /\ f.token = e.token /\ f.late = e.late
BY DEF Editor, Only, SameBuffer, SameJobs

Puts(e, f, s, d) ==
  /\ f \in Editor /\ f.clients[s] = d /\ f.out = e.out /\ Only(e, f, s)
  /\ SameBuffer(e, f) /\ SameJobs(e, f) /\ f.diag = e.diag

LEMMA PutsOne ==
  ASSUME NEW e \in Editor, NEW s \in Sids, NEW d \in Client
  PROVE  Puts(e, [e EXCEPT !.clients[s] = d], s, d)
BY WithClient DEF Puts

(* A change after another.                                                 *)
LEMMA PutsTwice ==
  ASSUME NEW e, NEW s \in Sids, NEW g, NEW y, NEW f, NEW d, Puts(e, g, s, y),
         Puts(g, f, s, d)
  PROVE  Puts(e, f, s, d)
BY DEF Puts, Only, SameBuffer, SameJobs

LEMMA WithOut ==
  ASSUME NEW e \in Editor, NEW s \in Sids, NEW k \in Seq(Message)
  PROVE  LET f == [e EXCEPT !.out[s] = k] IN
         /\ f \in Editor /\ f.out[s] = k /\ f.clients = e.clients /\ Only(e, f, s)
         /\ SameBuffer(e, f) /\ SameJobs(e, f) /\ f.diag = e.diag
         /\ f.token = e.token /\ f.late = e.late
BY DEF Editor, Only, SameBuffer, SameJobs

LEMMA SendFields ==
  ASSUME NEW e \in Editor, NEW s \in Sids, NEW m \in Message
  PROVE  LET f == Send(e, s, m) IN
         /\ f \in Editor /\ f.out[s] = Append(e.out[s], m) /\ f.clients = e.clients
         /\ Only(e, f, s) /\ SameBuffer(e, f) /\ SameJobs(e, f) /\ f.diag = e.diag
         /\ f.token = e.token /\ f.late = e.late
<1> DEFINE k == Append(e.out[s], m)
           f == Send(e, s, m)
<1>1. k \in Seq(Message)
  BY EditorFields
<1>2. f = [e EXCEPT !.out[s] = k]
  BY DEF Send
<1> HIDE DEF k, f
<1>3. /\ f \in Editor /\ f.out[s] = k /\ f.clients = e.clients /\ Only(e, f, s)
      /\ SameBuffer(e, f) /\ SameJobs(e, f) /\ f.diag = e.diag
      /\ f.token = e.token /\ f.late = e.late
  BY <1>1, <1>2, WithOut
<1> QED BY <1>3 DEF k, f

(* What Notify leaves of a client.                                         *)
SameRest(c, d) ==
  /\ d.policy = c.policy /\ d.armed = c.armed /\ d.due = c.due /\ d.told = c.told
  /\ d.docs = c.docs /\ d.tomb = c.tomb

NotifyChanges(e, f, s, m) ==
  /\ f \in Editor /\ Only(e, f, s) /\ SameBuffer(e, f) /\ SameJobs(e, f)
  /\ f.diag = e.diag /\ f.token = e.token /\ f.late = e.late
  /\ Notified(e.clients[s], f.clients[s], e.out[s], f.out[s], m)
  /\ SameRest(e.clients[s], f.clients[s])

LEMMA NotifyFields ==
  ASSUME NEW e \in Editor, NEW s \in Sids, NEW m \in Note
  PROVE  NotifyChanges(e, Notify(e, s, m), s, m)
<1> DEFINE c == e.clients[s]
           f == Notify(e, s, m)
<1>1. c \in Client /\ m \in Message
  BY EditorFields, NotesAskNothing
<1>2. CASE c.state \in {"starting", "initializing"}
  <2> DEFINE v == Append(c.deferred, m)
             d == [c EXCEPT !.deferred = v]
  <2>a. v \in Seq(Note)
    BY <1>1, ClientFields
  <2> HIDE DEF v
  <2>b. d \in Client /\ d.deferred = v
    BY <1>1, <2>a DEF Client
  <2>c. Same(c, d) /\ SameRest(c, d)
    BY <1>1 DEF Client, Same, SameRest
  <2>1. /\ d \in Client /\ Same(c, d) /\ SameRest(c, d) /\ d.deferred = Append(c.deferred, m)
    BY <2>b, <2>c DEF v
  <2>2. f = [e EXCEPT !.clients[s] = d]
    BY <1>2 DEF Notify, v
  <2> HIDE DEF d, f
  <2>3. /\ f \in Editor /\ f.clients[s] = d /\ f.out = e.out /\ Only(e, f, s)
        /\ SameBuffer(e, f) /\ SameJobs(e, f) /\ f.diag = e.diag
        /\ f.token = e.token /\ f.late = e.late
    BY <2>1, <2>2, WithClient
  <2>4. Notified(c, d, e.out[s], f.out[s], m)
    BY <1>2, <2>1, <2>3 DEF Notified, Early, Live
  <2> QED BY <2>1, <2>3, <2>4 DEF NotifyChanges, f
<1>3. CASE c.state \in {"initialized", "shutdown"}
  <2>1. f = Send(e, s, m)
    BY <1>3 DEF Notify
  <2> HIDE DEF f
  <2>2. /\ f \in Editor /\ f.out[s] = Append(e.out[s], m) /\ f.clients = e.clients
        /\ Only(e, f, s) /\ SameBuffer(e, f) /\ SameJobs(e, f) /\ f.diag = e.diag
        /\ f.token = e.token /\ f.late = e.late
    BY <1>1, <2>1, SendFields
  <2>3. Notified(c, c, e.out[s], f.out[s], m) /\ SameRest(c, c)
    BY <1>3, <2>2 DEF Notified, Early, Live, Same, SameRest
  <2> QED BY <2>2, <2>3 DEF NotifyChanges, f
<1>4. CASE c.state \notin {"starting", "initializing", "initialized", "shutdown"}
  <2>1. f = e
    BY <1>4 DEF Notify
  <2>2. Notified(c, c, e.out[s], e.out[s], m) /\ SameRest(c, c)
    BY <1>4 DEF Notified, Early, Live, Same, SameRest
  <2> QED BY <2>1, <2>2 DEF NotifyChanges, Only, SameBuffer, SameJobs
<1> QED BY <1>2, <1>3, <1>4

(***************************************************************************)
(* The editor: its operations keep the core.                               *)
(***************************************************************************)
(* No document is marked but one that s may mark.                          *)
Marked(e, f, s) ==
  \/ f.diag \subseteq e.diag
  \/ /\ e.clients[s].gen # 0
     /\ \E u \in Uris : u \notin e.clients[s].tomb /\ f.diag \subseteq e.diag \cup {u}

LEMMA DiagKept ==
  ASSUME NEW e, NEW f, NEW s \in Sids, DiagFits(e), Marked(e, f, s),
         \A t \in Sids : e.clients[t].gen # 0 => f.clients[t].gen # 0,
         \A t \in Sids : f.clients[t].tomb \subseteq e.clients[t].tomb
  PROVE  DiagFits(f)
<1>1. SUFFICES ASSUME NEW t \in Sids, NEW u \in f.clients[t].tomb,
                      \A w \in Sids \ {t} : f.clients[w].gen = 0
               PROVE  u \notin f.diag
  BY DEF DiagFits
<1>2. \A w \in Sids \ {t} : e.clients[w].gen = 0
  BY <1>1
<1>3. u \in e.clients[t].tomb /\ u \notin e.diag
  BY <1>1, <1>2 DEF DiagFits
<1>4. CASE f.diag \subseteq e.diag
  BY <1>3, <1>4
<1>5. CASE e.clients[s].gen # 0
             /\ \E v \in Uris : v \notin e.clients[s].tomb /\ f.diag \subseteq e.diag \cup {v}
  <2>1. s = t
    BY <1>2, <1>5
  <2> QED BY <1>3, <1>5, <2>1
<1> QED BY <1>4, <1>5 DEF Marked

(* The core, when only s has changed.                                      *)
LEMMA CoreOf ==
  ASSUME NEW e, NEW P, NEW f \in Editor, NEW Q \in [Sids -> Process], NEW s \in Sids,
         Core(e, P), Only(e, f, s), f.jobs = e.jobs,
         \A t \in Sids \ {s} : Q[t] = P[t],
         ServerFits(s, f.clients[s], f.out[s], Q[s], f.jobs),
         ClientFits(s, f.clients[s], f.jobs),
         JobsFit(f), StoreFits(f), DiagFits(f), ~f.stray
  PROVE  Core(f, Q)
<1>1. \A t \in Sids : ServerFits(t, f.clients[t], f.out[t], Q[t], f.jobs)
  BY DEF Core, Only
<1>2. \A t \in Sids : ClientFits(t, f.clients[t], f.jobs)
  BY DEF Core, BooksFit, Only
<1> QED BY <1>1, <1>2 DEF Core, BooksFit

LEMMA CoreFacts ==
  ASSUME NEW e, NEW P, Core(e, P)
  PROVE  /\ e \in Editor /\ P \in [Sids -> Process]
         /\ \A s \in Sids : /\ e.clients[s] \in Client /\ e.out[s] \in Seq(Message)
                            /\ P[s] \in Process
                            /\ ServerFits(s, e.clients[s], e.out[s], P[s], e.jobs)
                            /\ ClientFits(s, e.clients[s], e.jobs)
         /\ e.jobs \in Seq(Job) /\ JobsFit(e) /\ StoreFits(e) /\ DiagFits(e) /\ ~e.stray
BY EditorFields DEF Core, BooksFit

LEMMA JobFields ==
  ASSUME NEW e \in Editor, NEW r \in 1..Len(e.jobs)
  PROVE  /\ e.jobs[r] \in Job /\ e.jobs[r].sid \in Sids /\ e.jobs[r].uri \in Uris
         /\ e.jobs[r].gen \in Nat /\ e.jobs[r].asked \in Nat
<1>1. e.jobs \in Seq(Job)
  BY EditorFields
<1>2. e.jobs[r] \in Job
  BY <1>1, ElementOfSeq
<1> QED BY <1>2 DEF Job

(* The books of the jobs, when some of them are given up.                  *)
LEMMA JobsKept ==
  ASSUME NEW e, NEW f, NEW gone, JobsFit(e), f.jobs = e.jobs,
         f.run \subseteq e.run \ gone, f.routed = e.routed \ gone,
         \A r \in 1..Len(e.jobs) : e.jobs[r].sid \in Sids,
         \A t \in Sids : /\ f.clients[t].state = e.clients[t].state
                         /\ e.clients[t].pending \ gone \subseteq f.clients[t].pending
                         /\ f.clients[t].tomb \subseteq e.clients[t].tomb
  PROVE  JobsFit(f)
<1>1. e.run \subseteq e.routed /\ e.routed \subseteq 1..Len(e.jobs)
  BY DEF JobsFit
<1>2. f.run \subseteq f.routed /\ f.routed \subseteq 1..Len(f.jobs)
  BY <1>1
<1>3. ASSUME NEW r \in f.run PROVE Live(f.clients[f.jobs[r].sid])
  <2>1. r \in e.run /\ f.jobs[r].sid = e.jobs[r].sid /\ e.jobs[r].sid \in Sids
    BY <1>1
  <2>2. Live(e.clients[e.jobs[r].sid])
    BY <2>1 DEF JobsFit
  <2> QED BY <2>1, <2>2 DEF Live
<1>4. ASSUME NEW r \in f.routed
      PROVE  LET y == f.clients[f.jobs[r].sid]
             IN  r \in y.pending /\ f.jobs[r].uri \notin y.tomb
  <2>1. r \in e.routed /\ r \notin gone /\ f.jobs[r] = e.jobs[r] /\ e.jobs[r].sid \in Sids
    BY <1>1
  <2>2. LET x == e.clients[e.jobs[r].sid]
        IN  r \in x.pending /\ e.jobs[r].uri \notin x.tomb
    BY <2>1 DEF JobsFit
  <2> QED BY <2>1, <2>2
<1> QED BY <1>2, <1>3, <1>4 DEF JobsFit

(* A note is sent to s, what the client holds of a document with it.       *)
Spoken(e, f, s, m) ==
  /\ f \in Editor /\ Only(e, f, s) /\ SameJobs(e, f) /\ Marked(e, f, s)
  /\ LET c == e.clients[s]
         d == f.clients[s]
     IN  /\ Notified(c, d, e.out[s], f.out[s], m) /\ Accords(c, d, m, e.jobs)
         /\ d.policy = c.policy /\ d.armed = c.armed /\ d.tomb \subseteq c.tomb

LEMMA SpokenCore ==
  ASSUME NEW e, NEW P, NEW f, NEW s \in Sids, NEW m \in Note,
         Core(e, P), Spoken(e, f, s, m)
  PROVE  Core(f, P)
<1> DEFINE c == e.clients[s]
           d == f.clients[s]
           q == e.out[s]
           k == f.out[s]
<1>1. /\ f \in Editor /\ Only(e, f, s) /\ SameJobs(e, f) /\ Marked(e, f, s)
      /\ Notified(c, d, q, k, m) /\ Accords(c, d, m, e.jobs)
      /\ d.policy = c.policy /\ d.armed = c.armed /\ d.tomb \subseteq c.tomb
  BY DEF Spoken
<1>2. /\ P \in [Sids -> Process] /\ P[s] \in Process
      /\ c \in Client /\ d \in Client /\ q \in Seq(Message)
      /\ ServerFits(s, c, q, P[s], e.jobs) /\ ClientFits(s, c, e.jobs)
      /\ JobsFit(e) /\ StoreFits(e) /\ DiagFits(e) /\ ~e.stray
  BY <1>1, CoreFacts, EditorFields
<1>3. ServerFits(s, d, k, P[s], e.jobs)
  BY <1>1, <1>2, NotifiedFits
<1>4. Same(c, d)
  BY <1>1 DEF Notified
<1>5. ClientFits(s, d, e.jobs)
  BY <1>1, <1>2, <1>4 DEF ClientFits, Same
<1>6. /\ f.jobs = e.jobs /\ f.run = e.run /\ f.routed = e.routed
      /\ f.store = e.store /\ f.stray = e.stray
  BY <1>1 DEF SameJobs
<1>7. \A t \in Sids : LET x == e.clients[t]
                          y == f.clients[t]
                      IN  /\ y.state = x.state /\ y.gen = x.gen /\ y.pending = x.pending
                          /\ y.tomb \subseteq x.tomb
  BY <1>1, <1>4 DEF Only, Same
<1>8. \A r \in 1..Len(e.jobs) : e.jobs[r].sid \in Sids
  BY CoreFacts, JobFields
<1>9. JobsFit(f)
  <2>1. f.run \subseteq e.run \ {} /\ f.routed = e.routed \ {}
    BY <1>6
  <2>2. \A t \in Sids : /\ f.clients[t].state = e.clients[t].state
                        /\ e.clients[t].pending \ {} \subseteq f.clients[t].pending
                        /\ f.clients[t].tomb \subseteq e.clients[t].tomb
    BY <1>7
  <2> QED BY <1>2, <1>6, <1>8, <2>1, <2>2, JobsKept
<1>10. StoreFits(f)
  <2>1. \A x \in e.store : x.sid \in Sids
    BY CoreFacts, EditorFields DEF Stored
  <2> QED BY <1>2, <1>6, <1>7, <2>1 DEF StoreFits
<1>11. DiagFits(f)
  BY <1>1, <1>2, <1>7, DiagKept
<1> QED BY <1>1, <1>2, <1>3, <1>5, <1>6, <1>9, <1>10, <1>11, CoreOf

SameLives(e, f) ==
  \A t \in Sids : /\ f.clients[t].state = e.clients[t].state
                  /\ f.clients[t].gen = e.clients[t].gen

SameTexts(e, f) ==
  /\ SameBuffer(e, f)
  /\ \A t \in Sids : /\ f.clients[t].docs = e.clients[t].docs
                     /\ f.clients[t].tomb = e.clients[t].tomb

(* Of the texts, only that of u at s has changed: to t.                    *)
Wrote(e, f, s, u, t) ==
  /\ SameBuffer(e, f) /\ SameLives(e, f)
  /\ f.clients[s].docs = [e.clients[s].docs EXCEPT ![u] = t]
  /\ f.clients[s].tomb \subseteq e.clients[s].tomb
  /\ \A w \in Sids \ {s} : /\ f.clients[w].docs = e.clients[w].docs
                           /\ f.clients[w].tomb = e.clients[w].tomb

LEMMA TextsKept ==
  ASSUME NEW e \in Editor, NEW f, SameLives(e, f), SameTexts(e, f)
  PROVE  (DocsFit(e) => DocsFit(f)) /\ (RecFits(e) => RecFits(f))
<1>1. /\ f.rec = e.rec /\ f.uri = e.uri /\ f.dirty = e.dirty /\ f.text = e.text
      /\ \A t \in Sids : /\ f.clients[t].docs = e.clients[t].docs
                         /\ f.clients[t].tomb = e.clients[t].tomb
                         /\ f.clients[t].gen = e.clients[t].gen
                         /\ First(f.clients[t]) <=> First(e.clients[t])
  BY DEF SameLives, SameTexts, SameBuffer, First, Live
<1>2. e.rec.sid # NoSid => e.rec.sid \in Sids
  BY EditorFields
<1> QED BY <1>1, <1>2 DEF DocsFit, RecFits

LEMMA SameTrans ==
  ASSUME NEW e, NEW f, NEW g
  PROVE  /\ SameLives(e, f) /\ SameLives(f, g) => SameLives(e, g)
         /\ SameTexts(e, f) /\ SameTexts(f, g) => SameTexts(e, g)
         /\ SameBuffer(e, f) /\ SameBuffer(f, g) => SameBuffer(e, g)
         /\ SameLives(e, e) /\ SameTexts(e, e) /\ SameBuffer(e, e)
BY DEF SameLives, SameTexts, SameBuffer

(* A note about no text.                                                   *)
LEMMA NotifyCore ==
  ASSUME NEW e, NEW P, NEW s \in Sids, NEW m \in Note, Core(e, P),
         m.msg \in {"cancel", "save"},
         m.msg = "save" /\ First(e.clients[s]) => e.clients[s].docs[m.uri] = m.text
  PROVE  /\ Core(Notify(e, s, m), P) /\ SameLives(e, Notify(e, s, m))
         /\ SameTexts(e, Notify(e, s, m))
<1> DEFINE f == Notify(e, s, m)
           c == e.clients[s]
           d == f.clients[s]
<1>1. e \in Editor
  BY CoreFacts
<1>2. NotifyChanges(e, f, s, m)
  BY <1>1, NotifyFields
<1> HIDE DEF f
<1>3. /\ f \in Editor /\ Only(e, f, s) /\ SameBuffer(e, f) /\ SameJobs(e, f)
      /\ f.diag = e.diag /\ Notified(c, d, e.out[s], f.out[s], m) /\ SameRest(c, d)
  BY <1>2 DEF NotifyChanges
<1>4. Accords(c, d, m, e.jobs)
  <2>1. Told(c).phase = 2 /\ Told(c).open = c.docs
    BY DEF Told
  <2>2. First(c) => ~OutOfOrder(Told(c), m)
    BY <2>1 DEF OutOfOrder
  <2>3. m.msg # "request" /\ Effect(Told(c), m) = Told(c)
    BY DEF Effect
  <2>4. Told(d) = Told(c)
    BY <1>3 DEF SameRest, Told
  <2> QED BY <2>2, <2>3, <2>4 DEF Accords, Suits
<1>5. Spoken(e, f, s, m)
  BY <1>3, <1>4 DEF Spoken, SameRest, Marked
<1>6. Core(f, P)
  BY <1>5, SpokenCore
<1>7. SameLives(e, f) /\ SameTexts(e, f)
  BY <1>3 DEF SameLives, SameTexts, Only, Notified, Same, SameRest
<1> QED BY <1>6, <1>7 DEF f

(* did_open of a document that is not open.                                *)
LEMMA DidOpenCore ==
  ASSUME NEW e, NEW P, NEW s \in Sids, NEW u \in Uris, Core(e, P),
         First(e.clients[s]) => e.clients[s].docs[u] = 0
  PROVE  /\ Core(DidOpen(e, s, u), P) /\ Wrote(e, DidOpen(e, s, u), s, u, e.text)
         /\ u \notin DidOpen(e, s, u).clients[s].tomb
<1> DEFINE c == e.clients[s]
           x == [c EXCEPT !.tomb = @ \ {u}]
           y == [x EXCEPT !.docs[u] = e.text]
           a == [e EXCEPT !.clients[s] = x]
           g == [a EXCEPT !.clients[s] = y]
           m == [msg |-> "open", uri |-> u, text |-> e.text]
           f == Notify(g, s, m)
           d == f.clients[s]
<1>1. e \in Editor /\ c \in Client /\ e.text \in Texts \ {0} /\ e.text \in Nat
  BY CoreFacts, EditorFields, ConstantsAssumption DEF Texts
<1>a. x \in Client
  BY <1>1 DEF Client
<1>b. Same(c, x) /\ x.deferred = c.deferred /\ x.policy = c.policy /\ x.armed = c.armed
      /\ x.tomb = c.tomb \ {u} /\ x.docs = c.docs
  BY <1>1 DEF Client, Same
<1>c. Puts(e, a, s, x) /\ a.clients[s] = x
  BY <1>1, <1>a, PutsOne DEF Puts
<1>5. DidOpen(e, s, u) = f
  <2>1. g = [a EXCEPT !.clients[s].docs[u] = e.text]
    BY <1>c
  <2> QED BY <2>1 DEF DidOpen
<1> HIDE DEF x, a
<1>2. y \in Client
  BY <1>1, <1>a DEF Client
<1>3. /\ Same(c, y) /\ y.deferred = c.deferred /\ y.policy = c.policy /\ y.armed = c.armed
      /\ y.tomb = c.tomb \ {u} /\ y.docs = [c.docs EXCEPT ![u] = e.text]
  BY <1>a, <1>b DEF Client, Same
<1>4. m \in Note /\ m.msg = "open" /\ m.uri = u /\ m.text = e.text
  BY <1>1 DEF Note
<1> HIDE DEF y, m
<1>d. Puts(a, g, s, y)
  BY <1>2, <1>c, PutsOne DEF Puts
<1> HIDE DEF g
<1>6. /\ g \in Editor /\ g.clients[s] = y /\ g.out = e.out /\ Only(e, g, s)
      /\ SameBuffer(e, g) /\ SameJobs(e, g) /\ g.diag = e.diag
  BY <1>c, <1>d, PutsTwice DEF Puts
<1>7. NotifyChanges(g, f, s, m)
  BY <1>4, <1>6, NotifyFields
<1> HIDE DEF f
<1>8. /\ f \in Editor /\ Only(g, f, s) /\ SameBuffer(g, f) /\ SameJobs(g, f)
      /\ f.diag = g.diag /\ Notified(y, d, e.out[s], f.out[s], m) /\ SameRest(y, d)
  BY <1>6, <1>7 DEF NotifyChanges
<1>9. Only(e, f, s) /\ SameBuffer(e, f) /\ SameJobs(e, f)
  BY <1>6, <1>8 DEF Only, SameBuffer, SameJobs
<1>10. Notified(c, d, e.out[s], f.out[s], m)
  BY <1>3, <1>8 DEF Notified, Same, Early, Live
<1>11. Accords(c, d, m, e.jobs)
  <2>1. Told(c).phase = 2 /\ Told(c).open = c.docs
    BY DEF Told
  <2>2. First(c) => ~OutOfOrder(Told(c), m)
    BY <1>4, <2>1 DEF OutOfOrder
  <2>3. Effect(Told(c), m) = [Told(c) EXCEPT !.open[u] = e.text]
    BY <1>4 DEF Effect
  <2>4. Told(d) = Effect(Told(c), m)
    BY <1>3, <1>8, <2>3 DEF SameRest, Told
  <2> QED BY <1>4, <2>2, <2>4 DEF Accords, Suits
<1>12. Spoken(e, f, s, m)
  BY <1>3, <1>6, <1>8, <1>9, <1>10, <1>11 DEF Spoken, SameRest, Marked
<1>13. Core(f, P)
  BY <1>4, <1>12, SpokenCore
<1>14. Wrote(e, f, s, u, e.text)
  BY <1>3, <1>8, <1>9, <1>10 DEF Wrote, SameLives, Only, Notified, Same, SameRest
<1>15. u \notin d.tomb
  BY <1>3, <1>8 DEF SameRest
<1> QED BY <1>5, <1>13, <1>14, <1>15

(* Requests may be settled, answers and marks cleared.                     *)
Calm(e, f) ==
  /\ f \in Editor /\ f.clients = e.clients /\ f.out = e.out /\ f.jobs = e.jobs
  /\ f.run \subseteq e.run /\ f.run \subseteq f.routed /\ f.routed \subseteq e.routed
  /\ f.store \subseteq e.store /\ f.stray = e.stray

LEMMA CalmCore ==
  ASSUME NEW e, NEW P, NEW f, NEW s \in Sids, Core(e, P), Calm(e, f), Marked(e, f, s)
  PROVE  Core(f, P) /\ SameLives(e, f)
<1>1. /\ f \in Editor /\ f.clients = e.clients /\ f.out = e.out /\ f.jobs = e.jobs
      /\ f.run \subseteq e.run /\ f.run \subseteq f.routed /\ f.routed \subseteq e.routed
      /\ f.store \subseteq e.store /\ f.stray = e.stray
  BY DEF Calm
<1>2. /\ P \in [Sids -> Process] /\ ServerFits(s, e.clients[s], e.out[s], P[s], e.jobs)
      /\ ClientFits(s, e.clients[s], e.jobs)
      /\ JobsFit(e) /\ StoreFits(e) /\ DiagFits(e) /\ ~e.stray
  BY CoreFacts
<1>3. JobsFit(f)
  BY <1>1, <1>2 DEF JobsFit
<1>4. StoreFits(f)
  BY <1>1, <1>2 DEF StoreFits
<1>5. DiagFits(f)
  BY <1>1, <1>2, DiagKept
<1>6. Core(f, P)
  <2>1. Only(e, f, s)
    BY <1>1 DEF Only
  <2> QED BY <1>1, <1>2, <1>3, <1>4, <1>5, <2>1, CoreOf
<1> QED BY <1>1, <1>6 DEF SameLives

(* mark_document_stale.                                                    *)
LEMMA MarkFields ==
  ASSUME NEW e \in Editor, NEW s \in Sids, NEW u \in Uris
  PROVE  LET f == MarkStale(e, s, u) IN
         /\ f \in Editor /\ f.clients = e.clients /\ f.out = e.out
         /\ SameBuffer(e, f) /\ SameJobs(e, f)
         /\ e.clients[s].gen # 0 => Marked(e, f, s)
<1> DEFINE f == MarkStale(e, s, u)
           z == e.diag \cup {u}
<1>1. CASE u \in e.clients[s].tomb
  BY <1>1 DEF MarkStale, SameBuffer, SameJobs, Marked
<1>2. CASE u \notin e.clients[s].tomb
  <2>1. z \subseteq Uris
    BY EditorFields
  <2>2. f = [e EXCEPT !.diag = z]
    BY <1>2 DEF MarkStale
  <2> HIDE DEF z, f
  <2>3. f \in Editor /\ f.clients = e.clients /\ f.out = e.out /\ f.diag = z
    BY <2>1, <2>2 DEF Editor
  <2>4. SameBuffer(e, f) /\ SameJobs(e, f)
    BY <2>2 DEF Editor, SameBuffer, SameJobs
  <2>5. e.clients[s].gen # 0 => Marked(e, f, s)
    BY <1>2, <2>3 DEF Marked, z
  <2> QED BY <2>3, <2>4, <2>5 DEF f
<1> QED BY <1>1, <1>2

LEMMA MarkCore ==
  ASSUME NEW e, NEW P, NEW s \in Sids, NEW u \in Uris, Core(e, P),
         e.clients[s].gen # 0
  PROVE  /\ Core(MarkStale(e, s, u), P) /\ SameLives(e, MarkStale(e, s, u))
         /\ SameTexts(e, MarkStale(e, s, u))
<1> DEFINE f == MarkStale(e, s, u)
<1>1. e \in Editor /\ JobsFit(e)
  BY CoreFacts
<1>2. /\ f \in Editor /\ f.clients = e.clients /\ f.out = e.out
      /\ SameBuffer(e, f) /\ SameJobs(e, f) /\ Marked(e, f, s)
  BY <1>1, MarkFields
<1> HIDE DEF f
<1>3. Calm(e, f)
  BY <1>1, <1>2 DEF Calm, SameJobs, JobsFit
<1>4. Core(f, P) /\ SameLives(e, f)
  BY <1>2, <1>3, CalmCore
<1>5. SameTexts(e, f)
  BY <1>2 DEF SameTexts
<1> QED BY <1>4, <1>5 DEF f

(* The client may be changed in what no server minds.                      *)
LEMMA ClientCore ==
  ASSUME NEW e, NEW P, NEW f, NEW s \in Sids, NEW d \in Client, Core(e, P),
         Puts(e, f, s, d), Same(e.clients[s], d), d.deferred = e.clients[s].deferred,
         First(e.clients[s]) => d.docs = e.clients[s].docs,
         d.tomb \subseteq e.clients[s].tomb,
         d.armed => e.clients[s].armed,
         d.policy = e.clients[s].policy \/ (d.policy = "never" /\ ~d.armed)
  PROVE  Core(f, P) /\ SameLives(e, f)
<1> DEFINE c == e.clients[s]
<1>1. /\ f \in Editor /\ f.clients[s] = d /\ f.out = e.out /\ Only(e, f, s)
      /\ SameJobs(e, f) /\ f.diag = e.diag
  BY DEF Puts
<1>2. /\ P \in [Sids -> Process] /\ P[s] \in Process /\ c \in Client
      /\ e.out[s] \in Seq(Message) /\ ServerFits(s, c, e.out[s], P[s], e.jobs)
      /\ ClientFits(s, c, e.jobs)
      /\ JobsFit(e) /\ StoreFits(e) /\ DiagFits(e) /\ ~e.stray
  BY CoreFacts
<1>3. ServerFits(s, d, e.out[s], P[s], e.jobs)
  BY <1>2, SameFits
<1>4. ClientFits(s, d, e.jobs)
  BY <1>2 DEF ClientFits, Same
<1>5. /\ f.jobs = e.jobs /\ f.run = e.run /\ f.routed = e.routed
      /\ f.store = e.store /\ f.stray = e.stray
  BY <1>1 DEF SameJobs
<1>6. \A t \in Sids : LET x == e.clients[t]
                          y == f.clients[t]
                      IN  /\ y.state = x.state /\ y.gen = x.gen /\ y.pending = x.pending
                          /\ y.tomb \subseteq x.tomb
  BY <1>1 DEF Only, Same
<1>7. \A r \in 1..Len(e.jobs) : e.jobs[r].sid \in Sids
  BY CoreFacts, JobFields
<1>8. JobsFit(f)
  <2>1. f.run \subseteq e.run \ {} /\ f.routed = e.routed \ {}
    BY <1>5
  <2>2. \A t \in Sids : /\ f.clients[t].state = e.clients[t].state
                        /\ e.clients[t].pending \ {} \subseteq f.clients[t].pending
                        /\ f.clients[t].tomb \subseteq e.clients[t].tomb
    BY <1>6
  <2> QED BY <1>2, <1>5, <1>7, <2>1, <2>2, JobsKept
<1>9. StoreFits(f)
  <2>1. \A x \in e.store : x.sid \in Sids
    BY CoreFacts, EditorFields DEF Stored
  <2> QED BY <1>2, <1>5, <1>6, <2>1 DEF StoreFits
<1>10. DiagFits(f)
  <2>1. Marked(e, f, s)
    BY <1>1 DEF Marked
  <2> QED BY <1>2, <1>6, <2>1, DiagKept
<1>11. Core(f, P)
  BY <1>1, <1>2, <1>3, <1>4, <1>5, <1>8, <1>9, <1>10, CoreOf
<1> QED BY <1>6, <1>11 DEF SameLives

(* did_change of a document that is open.                                  *)
LEMMA DidChangeCore ==
  ASSUME NEW e, NEW P, NEW s \in Sids, NEW u \in Uris, Core(e, P),
         e.clients[s].gen # 0, First(e.clients[s]) => e.clients[s].docs[u] # 0
  PROVE  Core(DidChange(e, s, u), P) /\ Wrote(e, DidChange(e, s, u), s, u, e.text)
<1> DEFINE c == e.clients[s]
           y == [c EXCEPT !.docs[u] = e.text]
           a == [e EXCEPT !.clients[s] = y]
           base == IF Ready(c) THEN c.docs[u] ELSE 0
           m == [msg |-> "change", uri |-> u, base |-> base, text |-> e.text]
           g == MarkStale(a, s, u)
           f == Notify(g, s, m)
           d == f.clients[s]
<1>1. /\ e \in Editor /\ c \in Client /\ e.text \in Texts \ {0} /\ e.text \in Nat
      /\ e.text # 0 /\ c.docs \in [Uris -> Texts] /\ c.docs[u] \in Nat
  BY CoreFacts, EditorFields, ClientFields, ConstantsAssumption DEF Texts
<1>2. y \in Client
  BY <1>1 DEF Client
<1>3. /\ Same(c, y) /\ y.deferred = c.deferred /\ y.policy = c.policy /\ y.armed = c.armed
      /\ y.tomb = c.tomb /\ y.docs = [c.docs EXCEPT ![u] = e.text]
  BY <1>1 DEF Client, Same
<1>4. base \in Nat /\ base \in {0, c.docs[u]}
  BY <1>1
<1>5. CASE base = e.text
  <2>1. DidChange(e, s, u) = e
    BY <1>5 DEF DidChange
  <2>2. c.docs[u] = e.text
    BY <1>1, <1>4, <1>5
  <2>3. c.docs = [c.docs EXCEPT ![u] = e.text]
    BY <1>1, <2>2
  <2>4. Wrote(e, e, s, u, e.text)
    BY <2>3, SameTrans DEF Wrote
  <2> QED BY <2>1, <2>4
<1>6. CASE base # e.text
  <2>1. DidChange(e, s, u) = f
    BY <1>6 DEF DidChange
  <2> HIDE DEF base
  <2>2. m \in Note /\ m.msg = "change" /\ m.uri = u /\ m.text = e.text /\ m.base = base
    BY <1>1, <1>4 DEF Note
  <2> HIDE DEF y, m
  <2>3. Puts(e, a, s, y)
    BY <1>1, <1>2, PutsOne
  <2> HIDE DEF a
  <2>4. /\ a \in Editor /\ a.clients[s] = y /\ a.out = e.out /\ Only(e, a, s)
        /\ SameBuffer(e, a) /\ SameJobs(e, a) /\ a.diag = e.diag
    BY <2>3 DEF Puts
  <2>5. y.gen # 0
    BY <1>3 DEF Same
  <2>6. /\ g \in Editor /\ g.clients = a.clients /\ g.out = a.out
        /\ SameBuffer(a, g) /\ SameJobs(a, g) /\ Marked(a, g, s)
    BY <2>4, <2>5, MarkFields
  <2> HIDE DEF g
  <2>7. NotifyChanges(g, f, s, m)
    BY <2>2, <2>6, NotifyFields
  <2> HIDE DEF f
  <2>8. /\ f \in Editor /\ Only(g, f, s) /\ SameBuffer(g, f) /\ SameJobs(g, f)
        /\ f.diag = g.diag /\ Notified(y, d, e.out[s], f.out[s], m) /\ SameRest(y, d)
    BY <2>4, <2>6, <2>7 DEF NotifyChanges
  <2>9. Only(e, f, s) /\ SameBuffer(e, f) /\ SameJobs(e, f)
    BY <2>4, <2>6, <2>8 DEF Only, SameBuffer, SameJobs
  <2>10. Notified(c, d, e.out[s], f.out[s], m)
    BY <1>3, <2>8 DEF Notified, Same, Early, Live
  <2>11. Accords(c, d, m, e.jobs)
    <3>1. Told(c).phase = 2 /\ Told(c).open = c.docs
      BY DEF Told
    <3>2. First(c) => ~OutOfOrder(Told(c), m)
      BY <1>4, <2>2, <3>1 DEF OutOfOrder
    <3>3. Effect(Told(c), m) = [Told(c) EXCEPT !.open[u] = e.text]
      BY <2>2 DEF Effect
    <3>4. Told(d) = Effect(Told(c), m)
      BY <1>3, <2>8, <3>3 DEF SameRest, Told
    <3> QED BY <2>2, <3>2, <3>4 DEF Accords, Suits
  <2>12. Marked(e, f, s)
    BY <1>3, <2>4, <2>6, <2>8 DEF Marked
  <2>13. Spoken(e, f, s, m)
    BY <1>3, <2>8, <2>9, <2>10, <2>11, <2>12 DEF Spoken, SameRest
  <2>14. Core(f, P)
    BY <2>2, <2>13, SpokenCore
  <2>15. Wrote(e, f, s, u, e.text)
    BY <1>3, <2>8, <2>9, <2>10 DEF Wrote, SameLives, Only, Notified, Same, SameRest
  <2> QED BY <2>1, <2>14, <2>15
<1> QED BY <1>5, <1>6

(* did_close, and the mirror is emptied.                                   *)
Closed(e, s, u) ==
  [Notify(e, s, [msg |-> "close", uri |-> u]) EXCEPT !.clients[s].docs[u] = 0]

LEMMA CloseCore ==
  ASSUME NEW e, NEW P, NEW s \in Sids, NEW u \in Uris, Core(e, P),
         First(e.clients[s]) => e.clients[s].docs[u] # 0
  PROVE  Core(Closed(e, s, u), P) /\ Wrote(e, Closed(e, s, u), s, u, 0)
<1> DEFINE c == e.clients[s]
           m == [msg |-> "close", uri |-> u]
           g == Notify(e, s, m)
           y == g.clients[s]
           d == [y EXCEPT !.docs[u] = 0]
           f == [g EXCEPT !.clients[s] = d]
<1>1. e \in Editor /\ c \in Client /\ 0 \in Texts
  BY CoreFacts, EditorFields, ConstantsAssumption DEF Texts
<1>2. Closed(e, s, u) = f
  BY DEF Closed
<1>3. m \in Note /\ m.msg = "close" /\ m.uri = u
  BY DEF Note
<1> HIDE DEF m
<1>4. NotifyChanges(e, g, s, m)
  BY <1>1, <1>3, NotifyFields
<1> HIDE DEF g
<1>5. /\ g \in Editor /\ Only(e, g, s) /\ SameBuffer(e, g) /\ SameJobs(e, g)
      /\ g.diag = e.diag /\ Notified(c, y, e.out[s], g.out[s], m) /\ SameRest(c, y)
  BY <1>4 DEF NotifyChanges
<1>6. y \in Client
  BY <1>5, EditorFields
<1> HIDE DEF y
<1>7. d \in Client
  BY <1>1, <1>6 DEF Client
<1>8. /\ Same(y, d) /\ d.deferred = y.deferred /\ d.policy = y.policy /\ d.armed = y.armed
      /\ d.tomb = y.tomb /\ d.docs = [y.docs EXCEPT ![u] = 0]
  BY <1>6 DEF Client, Same
<1> HIDE DEF d
<1>9. Puts(g, f, s, d)
  BY <1>5, <1>7, PutsOne
<1> HIDE DEF f
<1>10. /\ f \in Editor /\ f.clients[s] = d /\ f.out = g.out /\ Only(g, f, s)
       /\ SameBuffer(g, f) /\ SameJobs(g, f) /\ f.diag = g.diag
  BY <1>9 DEF Puts
<1>11. Only(e, f, s) /\ SameBuffer(e, f) /\ SameJobs(e, f) /\ Marked(e, f, s)
  BY <1>5, <1>10 DEF Only, SameBuffer, SameJobs, Marked
<1>12. Notified(c, d, e.out[s], f.out[s], m)
  BY <1>5, <1>8, <1>10 DEF Notified, Same
<1>13. Accords(c, d, m, e.jobs)
  <2>1. Told(c).phase = 2 /\ Told(c).open = c.docs
    BY DEF Told
  <2>2. First(c) => ~OutOfOrder(Told(c), m)
    BY <1>3, <2>1 DEF OutOfOrder
  <2>3. Effect(Told(c), m) = [Told(c) EXCEPT !.open[u] = 0]
    BY <1>3 DEF Effect
  <2>4. Told(d) = Effect(Told(c), m)
    BY <1>5, <1>8, <2>3 DEF SameRest, Told
  <2> QED BY <1>3, <2>2, <2>4 DEF Accords, Suits
<1>14. Spoken(e, f, s, m)
  BY <1>5, <1>8, <1>10, <1>11, <1>12, <1>13 DEF Spoken, SameRest
<1>15. Core(f, P)
  BY <1>3, <1>14, SpokenCore
<1>16. Wrote(e, f, s, u, 0)
  BY <1>5, <1>8, <1>10, <1>11, <1>12 DEF Wrote, SameLives, Only, Notified, Same, SameRest
<1> QED BY <1>2, <1>15, <1>16

(* What a request j changes of an editor, s being its server.              *)
Requested(e, f, s, j) ==
  /\ f \in Editor /\ Only(e, f, s) /\ SameBuffer(e, f) /\ f.diag = e.diag
  /\ f.jobs = Append(e.jobs, j) /\ f.store = e.store /\ f.stray = e.stray
  /\ f.run = e.run \cup {Len(e.jobs) + 1} /\ f.routed = e.routed \cup {Len(e.jobs) + 1}
  /\ f.out[s] = Append(e.out[s], [msg |-> "request", id |-> Len(e.jobs) + 1,
                                  uri |-> e.rec.uri])
  /\ LET c == e.clients[s]
         d == f.clients[s]
     IN  /\ Same([c EXCEPT !.pending = @ \cup {Len(e.jobs) + 1}], d)
         /\ SameRest(c, d) /\ d.deferred = c.deferred

LEMMA RequestFields ==
  ASSUME NEW e \in Editor, NEW how \in {"pull", "ask"}, Request(e, how) # e
  PROVE  /\ e.rec.sid \in Sids /\ Ready(e.clients[e.rec.sid])
         /\ \E j \in Job : /\ j.sid = e.rec.sid /\ j.uri = e.rec.uri /\ j.asked = e.text
                           /\ j.gen = e.clients[e.rec.sid].gen
                           /\ j.term = e.clients[e.rec.sid].term
                           /\ Requested(e, Request(e, how), e.rec.sid, j)
<1> DEFINE s == e.rec.sid
           c == e.clients[s]
           r == Len(e.jobs) + 1
           j == [sid |-> s, gen |-> c.gen, uri |-> e.rec.uri, how |-> how,
                 asked |-> e.text, term |-> c.term]
           older == {k \in e.run : <<e.jobs[k].sid, e.jobs[k].uri, e.jobs[k].how>>
                                     = <<j.sid, j.uri, j.how>>}
           jobs == Append(e.jobs, j)
           run == e.run \cup {r}
           routed == e.routed \cup {r}
           token == e.token \cup older
           a == [e EXCEPT !.jobs = jobs, !.run = run, !.routed = routed, !.token = token]
           pending == c.pending \cup {r}
           d == [c EXCEPT !.pending = pending]
           b == [a EXCEPT !.clients[s] = d]
           m == [msg |-> "request", id |-> r, uri |-> e.rec.uri]
           f == Send(b, s, m)
<1>1. s # NoSid /\ Ready(c) /\ ~(s = NoSid \/ r > MaxJobs)
  <2>1. s = NoSid \/ r > MaxJobs => Request(e, how) = e
    BY DEF Request
  <2>2. ~Ready(c) => Request(e, how) = e
    BY DEF Request
  <2> QED BY <2>1, <2>2
<1>2. s \in Sids /\ e.rec.uri \in Uris /\ c \in Client
  BY <1>1, EditorFields
<1>3. Request(e, how) = f
  BY <1>1 DEF Request, Ready
<1>4. j \in Job
  BY <1>2, EditorFields, ClientFields, ConstantsAssumption DEF Job, Texts
<1>5. j.sid = s /\ j.gen = c.gen /\ j.uri = e.rec.uri /\ j.asked = e.text /\ j.term = c.term
  OBVIOUS
<1> HIDE DEF j
<1>6. r \in Nat /\ jobs \in Seq(Job) /\ run \subseteq Nat /\ routed \subseteq Nat
        /\ token \subseteq Nat
  BY <1>4, EditorFields
<1>7. m \in Message
  BY <1>2, <1>6 DEF Message
<1>8. pending \subseteq Int
  BY <1>2, <1>6, ClientFields
<1> HIDE DEF older, jobs, run, routed, token, pending
<1>9. d \in Client
  BY <1>2, <1>8 DEF Client
<1>10. /\ Same([c EXCEPT !.pending = pending], d) /\ SameRest(c, d) /\ d.deferred = c.deferred
  BY <1>2 DEF Client, Same, SameRest
<1> HIDE DEF d, m
<1>11. /\ a \in Editor /\ a.clients = e.clients /\ a.out = e.out /\ a.jobs = jobs
       /\ a.run = run /\ a.routed = routed /\ a.store = e.store /\ a.stray = e.stray
       /\ a.diag = e.diag /\ SameBuffer(e, a)
  BY <1>6 DEF Editor, SameBuffer
<1> HIDE DEF a
<1>12. Puts(a, b, s, d)
  BY <1>2, <1>9, <1>11, PutsOne
<1> HIDE DEF b
<1>13. /\ b \in Editor /\ b.clients[s] = d /\ b.out = a.out /\ Only(a, b, s)
       /\ SameBuffer(a, b) /\ SameJobs(a, b) /\ b.diag = a.diag
  BY <1>12 DEF Puts
<1>14. /\ f \in Editor /\ f.out[s] = Append(b.out[s], m) /\ f.clients = b.clients
       /\ Only(b, f, s) /\ SameBuffer(b, f) /\ SameJobs(b, f) /\ f.diag = b.diag
  BY <1>2, <1>7, <1>13, SendFields
<1> HIDE DEF f
<1>15. Only(e, f, s) /\ SameBuffer(e, f)
  BY <1>11, <1>13, <1>14 DEF Only, SameBuffer
<1>16. /\ f.jobs = jobs /\ f.run = run /\ f.routed = routed /\ f.store = e.store
       /\ f.stray = e.stray /\ f.diag = e.diag /\ f.clients[s] = d
       /\ f.out[s] = Append(e.out[s], m)
  BY <1>11, <1>13, <1>14 DEF SameJobs
<1>17. Requested(e, f, s, j)
  BY <1>10, <1>14, <1>15, <1>16 DEF Requested, jobs, run, routed, pending, m
<1> QED BY <1>1, <1>2, <1>3, <1>4, <1>5, <1>17

(* A request is of a server that is ready, about a text that it has.       *)
LEMMA RequestedCore ==
  ASSUME NEW e, NEW P, NEW f, NEW s \in Sids, NEW j \in Job, Core(e, P),
         Requested(e, f, s, j), Ready(e.clients[s]), j.sid = s, j.uri = e.rec.uri,
         j.gen = e.clients[s].gen, j.term = e.clients[s].term,
         j.uri \notin e.clients[s].tomb, j.asked # 0,
         First(e.clients[s]) => e.clients[s].docs[j.uri] = j.asked
  PROVE  Core(f, P)
<1> DEFINE c == e.clients[s]
           d == f.clients[s]
           r == Len(e.jobs) + 1
           m == [msg |-> "request", id |-> r, uri |-> e.rec.uri]
<1>1. /\ f \in Editor /\ Only(e, f, s) /\ f.diag = e.diag
      /\ f.jobs = Append(e.jobs, j) /\ f.store = e.store /\ f.stray = e.stray
      /\ f.run = e.run \cup {r} /\ f.routed = e.routed \cup {r}
      /\ f.out[s] = Append(e.out[s], m)
      /\ Same([c EXCEPT !.pending = @ \cup {r}], d)
      /\ SameRest(c, d) /\ d.deferred = c.deferred
  BY DEF Requested
<1>2. /\ e \in Editor /\ P \in [Sids -> Process] /\ P[s] \in Process /\ c \in Client
      /\ e.out[s] \in Seq(Message) /\ ServerFits(s, c, e.out[s], P[s], e.jobs)
      /\ ClientFits(s, c, e.jobs) /\ e.jobs \in Seq(Job)
      /\ JobsFit(e) /\ StoreFits(e) /\ DiagFits(e) /\ ~e.stray
  BY CoreFacts
<1>3. /\ d \in Client /\ d.state = c.state /\ d.gen = c.gen /\ d.term = c.term
      /\ d.deferred = c.deferred /\ d.docs = c.docs /\ d.tomb = c.tomb
      /\ d.pending = c.pending \cup {r} /\ d.dropped = c.dropped
      /\ d.policy = c.policy /\ d.armed = c.armed
  <2>1. d \in Client
    BY <1>1, EditorFields
  <2>2. d.state = c.state /\ d.gen = c.gen /\ d.term = c.term
          /\ d.pending = c.pending \cup {r} /\ d.dropped = c.dropped
    BY <1>1, <1>2 DEF Same, Client
  <2> QED BY <1>1, <2>1, <2>2 DEF SameRest
<1>4. e.rec.uri \in Uris /\ r \in Nat /\ r \in Int
  BY <1>2, EditorFields
<1>5. m \in Message /\ m.msg = "request" /\ m.id = r /\ m.uri = e.rec.uri
  BY <1>4 DEF Message
<1> HIDE DEF m
<1>6. ServerFits(s, d, f.out[s], P[s], f.jobs)
  <2>1. First(c) => c.docs[m.uri] = j.asked /\ j.asked # 0
    BY <1>5
  <2>2. ServerFits(s, d, Append(e.out[s], m), P[s], Append(e.jobs, j))
    BY <1>2, <1>3, <1>5, <2>1, RequestFits
  <2> QED BY <1>1, <2>2
<1> DEFINE jobs == f.jobs
<1>7. /\ jobs \in Seq(Job) /\ Len(jobs) = r /\ jobs[r] = j
      /\ \A k \in 1..Len(e.jobs) : jobs[k] = e.jobs[k]
      /\ 1..r = 1..Len(e.jobs) \cup {r} /\ r \notin 1..Len(e.jobs) /\ Len(e.jobs) \in Nat
  BY <1>1, <1>2
<1>8. \A t \in Sids \ {s} : ServerFits(t, f.clients[t], f.out[t], P[t], f.jobs)
  <2> TAKE t \in Sids \ {s}
  <2>1. /\ e.clients[t] \in Client /\ e.out[t] \in Seq(Message) /\ P[t] \in Process
        /\ ServerFits(t, e.clients[t], e.out[t], P[t], e.jobs)
        /\ ClientFits(t, e.clients[t], e.jobs)
    BY CoreFacts
  <2>2. f.clients[t] = e.clients[t] /\ f.out[t] = e.out[t]
    BY <1>1 DEF Only
  <2>3. ServerFits(t, e.clients[t], e.out[t], P[t], Append(e.jobs, j))
    BY <1>2, <2>1, OthersRequestFits
  <2> QED BY <1>1, <2>2, <2>3
<1>9. \A t \in Sids : ClientFits(t, f.clients[t], jobs)
  <2> TAKE t \in Sids
  <2>1. CASE t = s
    <3>1. r \notin c.pending \cup c.dropped /\ r # Init0 /\ r # Shut
      BY <1>2, <1>7, NotYetAsked DEF Init0, Shut
    <3>2. c.gen \in Nat
      BY <1>2, ClientFields
    <3>3. /\ c.pending \cap c.dropped = {} /\ Init0 \notin c.dropped /\ Shut \notin c.dropped
          /\ \A i \in (c.pending \cup c.dropped) \ {Init0, Shut} :
               i \in 1..Len(e.jobs) /\ e.jobs[i].sid = s /\ e.jobs[i].gen = c.gen
          /\ \A i \in 1..Len(e.jobs) : e.jobs[i].sid = s => e.jobs[i].gen <= c.gen
          /\ c.armed => c.state = "crashed" /\ c.policy = "on_crash"
          /\ c.term => c.policy = "never"
          /\ c.gen = 0 => c.state = "none"
          /\ j.sid = s /\ j.gen = c.gen
      BY <1>2 DEF ClientFits
    <3> HIDE DEF c, d, r, jobs
    <3>4. /\ d.pending \cap d.dropped = {} /\ Init0 \notin d.dropped /\ Shut \notin d.dropped
          /\ d.armed => d.state = "crashed" /\ d.policy = "on_crash"
          /\ d.term => d.policy = "never"
          /\ d.gen = 0 => d.state = "none"
      BY <1>3, <3>1, <3>3
    <3>5. \A i \in (d.pending \cup d.dropped) \ {Init0, Shut} :
            i \in 1..Len(jobs) /\ jobs[i].sid = s /\ jobs[i].gen = d.gen
      BY <1>3, <1>7, <3>3
    <3>6. \A i \in 1..Len(jobs) : jobs[i].sid = s => jobs[i].gen <= d.gen
      BY <1>3, <1>7, <3>2, <3>3
    <3>7. ClientFits(s, d, jobs)
      BY <3>4, <3>5, <3>6 DEF ClientFits
    <3> QED BY <2>1, <3>7 DEF d
  <2>2. CASE t # s
    <3>1. f.clients[t] = e.clients[t] /\ ClientFits(t, e.clients[t], e.jobs)
      BY <1>1, <2>2, CoreFacts DEF Only
    <3> HIDE DEF jobs, r
    <3> QED BY <1>7, <2>2, <3>1 DEF ClientFits
  <2> QED BY <2>1, <2>2
<1>10. \A t \in Sids : LET x == e.clients[t]
                           y == f.clients[t]
                       IN  /\ y.state = x.state /\ y.gen = x.gen
                           /\ x.pending \subseteq y.pending /\ y.tomb = x.tomb
  BY <1>1, <1>3 DEF Only
<1>11. \A k \in 1..Len(e.jobs) : e.jobs[k].sid \in Sids
  BY <1>2, JobFields
<1> HIDE DEF r, jobs
<1>12. JobsFit(f)
  <2>1. /\ e.run \subseteq e.routed /\ e.routed \subseteq 1..Len(e.jobs)
        /\ \A k \in e.run : Live(e.clients[e.jobs[k].sid])
        /\ \A k \in e.routed : /\ k \in e.clients[e.jobs[k].sid].pending
                               /\ e.jobs[k].uri \notin e.clients[e.jobs[k].sid].tomb
    BY <1>2 DEF JobsFit
  <2>2. f.run \subseteq f.routed /\ f.routed \subseteq 1..Len(f.jobs)
    BY <1>1, <1>7, <2>1 DEF jobs
  <2>3. \A k \in f.run : Live(f.clients[f.jobs[k].sid])
    <3> TAKE k \in f.run
    <3>1. CASE k = r
      BY <1>3, <1>7, <3>1 DEF jobs, Ready, Live
    <3>2. CASE k # r
      <4>1. k \in e.run /\ f.jobs[k] = e.jobs[k] /\ e.jobs[k].sid \in Sids
        BY <1>1, <1>7, <1>11, <2>1, <3>2 DEF jobs
      <4> QED BY <1>10, <2>1, <4>1 DEF Live
    <3> QED BY <3>1, <3>2
  <2>4. \A k \in f.routed : /\ k \in f.clients[f.jobs[k].sid].pending
                            /\ f.jobs[k].uri \notin f.clients[f.jobs[k].sid].tomb
    <3> TAKE k \in f.routed
    <3>1. CASE k = r
      BY <1>3, <1>7, <3>1 DEF jobs
    <3>2. CASE k # r
      <4>1. k \in e.routed /\ f.jobs[k] = e.jobs[k] /\ e.jobs[k].sid \in Sids
        BY <1>1, <1>7, <1>11, <2>1, <3>2 DEF jobs
      <4> QED BY <1>10, <2>1, <4>1
    <3> QED BY <3>1, <3>2
  <2> QED BY <2>2, <2>3, <2>4 DEF JobsFit
<1>13. StoreFits(f)
  <2>1. \A x \in e.store : x.sid \in Sids
    BY <1>2, EditorFields DEF Stored
  <2>2. \A x \in e.store : /\ x.uri \notin e.clients[x.sid].tomb
                           /\ x.id \in 1..Len(e.jobs) /\ Honest(e.jobs, x.id, x.text)
    BY <1>2 DEF StoreFits
  <2>3. \A x \in e.store : x.id \in 1..Len(f.jobs) /\ Honest(f.jobs, x.id, x.text)
    BY <1>7, <2>2 DEF jobs, Honest
  <2> QED BY <1>1, <1>10, <2>1, <2>2, <2>3 DEF StoreFits
<1>14. DiagFits(f)
  <2>1. Marked(e, f, s)
    BY <1>1 DEF Marked
  <2> QED BY <1>2, <1>10, <2>1, DiagKept
<1>15. BooksFit(f)
  BY <1>1, <1>2, <1>9, <1>12, <1>13, <1>14 DEF BooksFit, jobs
<1> QED BY <1>1, <1>2, <1>6, <1>8, <1>15 DEF Core

LEMMA RequestCore ==
  ASSUME NEW e, NEW P, NEW how \in {"pull", "ask"}, Core(e, P),
         e.rec.sid # NoSid => LET c == e.clients[e.rec.sid] IN
           e.rec.uri \notin c.tomb /\ (First(c) => c.docs[e.rec.uri] = e.text)
  PROVE  /\ Core(Request(e, how), P) /\ SameLives(e, Request(e, how))
         /\ SameTexts(e, Request(e, how))
<1> DEFINE f == Request(e, how)
           s == e.rec.sid
           c == e.clients[s]
           d == f.clients[s]
<1>1. e \in Editor /\ e.text # 0
  BY CoreFacts, EditorFields
<1>2. CASE f = e
  BY <1>2, SameTrans
<1>3. CASE f # e
  <2>1. /\ s \in Sids /\ Ready(c)
        /\ \E j \in Job : /\ j.sid = s /\ j.uri = e.rec.uri /\ j.asked = e.text
                          /\ j.gen = c.gen /\ j.term = c.term /\ Requested(e, f, s, j)
    BY <1>1, <1>3, RequestFields
  <2>2. PICK j \in Job : /\ j.sid = s /\ j.uri = e.rec.uri /\ j.asked = e.text
                         /\ j.gen = c.gen /\ j.term = c.term /\ Requested(e, f, s, j)
    BY <2>1
  <2>3. s # NoSid
    BY <2>1, ConstantsAssumption
  <2> HIDE DEF f
  <2>4. Core(f, P)
    BY <1>1, <2>1, <2>2, <2>3, RequestedCore
  <2>5. c \in Client
    BY <1>1, <2>1, EditorFields
  <2>6. d.state = c.state /\ d.gen = c.gen
    BY <2>2, <2>5 DEF Requested, Same, Client
  <2>7. SameLives(e, f)
    BY <2>2, <2>6 DEF Requested, Only, SameLives
  <2>8. SameTexts(e, f)
    BY <2>2 DEF Requested, Only, SameRest, SameTexts
  <2> QED BY <2>4, <2>7, <2>8 DEF f
<1> QED BY <1>2, <1>3

(* What was written is the text of the attached document.                  *)
LEMMA WroteTexts ==
  ASSUME NEW e \in Editor, NEW f, NEW s \in Sids, NEW u \in Uris,
         DocsFit(e), Wrote(e, f, s, u, e.text), e.rec.sid = s, e.rec.uri = u,
         e.clients[s].gen # 0, u \notin f.clients[s].tomb
  PROVE  DocsFit(f) /\ RecFits(f)
<1>1. /\ f.rec = e.rec /\ f.text = e.text /\ SameLives(e, f)
      /\ f.clients[s].docs = [e.clients[s].docs EXCEPT ![u] = e.text]
      /\ \A w \in Sids \ {s} : f.clients[w].docs = e.clients[w].docs
  BY DEF Wrote, SameBuffer
<1>2. \A t \in Sids : /\ First(f.clients[t]) <=> First(e.clients[t])
                      /\ f.clients[t].gen = e.clients[t].gen
  BY <1>1 DEF SameLives, First, Live
<1>3. e.clients[s].docs \in [Uris -> Texts] /\ e.text # 0
  BY EditorFields, ClientFields
<1>4. f.clients[s].docs[u] = e.text
        /\ \A v \in Uris \ {u} : f.clients[s].docs[v] = e.clients[s].docs[v]
  BY <1>1, <1>3
<1>5. DocsFit(f)
  <2>1. SUFFICES ASSUME NEW t \in Sids, First(f.clients[t]), NEW v \in Uris,
                        f.clients[t].docs[v] # 0
                 PROVE  e.rec.sid = t /\ e.rec.uri = v
    BY <1>1 DEF DocsFit
  <2>2. CASE t = s /\ v = u
    BY <2>2
  <2>3. CASE ~(t = s /\ v = u)
    <3>1. e.clients[t].docs[v] # 0
      BY <1>1, <1>4, <2>1, <2>3
    <3> QED BY <1>2, <2>1, <3>1 DEF DocsFit
  <2> QED BY <2>2, <2>3
<1>6. RecFits(f)
  BY <1>1, <1>2, <1>3, <1>4 DEF RecFits
<1> QED BY <1>5, <1>6

(* The editor with the attachment and the buffer changed.                  *)
Buffered(e, f) ==
  /\ f \in Editor /\ f.clients = e.clients /\ f.out = e.out
  /\ SameJobs(e, f) /\ f.diag = e.diag

LEMMA BufferedCore ==
  ASSUME NEW e, NEW P, NEW f, Core(e, P), Buffered(e, f)
  PROVE  Core(f, P) /\ SameLives(e, f)
<1>1. /\ f \in Editor /\ f.clients = e.clients /\ f.out = e.out /\ f.diag = e.diag
      /\ f.jobs = e.jobs /\ f.run = e.run /\ f.routed = e.routed
      /\ f.store = e.store /\ f.stray = e.stray
  BY DEF Buffered, SameJobs
<1>2. Core(f, P)
  BY <1>1 DEF Core, BooksFit, JobsFit, StoreFits, DiagFits
<1> QED BY <1>1, <1>2 DEF SameLives

(* flush_did_change.                                                       *)
LEMMA FlushWhole ==
  ASSUME NEW e, NEW P, Whole(e, P)
  PROVE  /\ Whole(Flush(e), P) /\ SameLives(e, Flush(e)) /\ ~Flush(e).dirty
         /\ Flush(e).rec = e.rec /\ Flush(e).uri = e.uri /\ Flush(e).text = e.text
<1> DEFINE s == e.rec.sid
           u == e.rec.uri
           c == e.clients[s]
           f == [e EXCEPT !.dirty = FALSE]
           g == DidChange(f, s, u)
           h == Request(g, "pull")
<1>1. Core(e, P) /\ e \in Editor /\ DocsFit(e) /\ RecFits(e) /\ e.dirty \in BOOLEAN
  BY CoreFacts, EditorFields DEF Whole
<1>2. CASE ~e.dirty
  BY <1>2, SameTrans DEF Flush
<1>3. CASE e.dirty
  <2>1. /\ f \in Editor /\ f.clients = e.clients /\ f.out = e.out /\ SameJobs(e, f)
        /\ f.diag = e.diag /\ f.rec = e.rec /\ f.uri = e.uri /\ f.text = e.text /\ ~f.dirty
    BY <1>1 DEF Editor, SameJobs
  <2>2. /\ s = NoSid => Flush(e) = f
        /\ s # NoSid => Flush(e) = h
    BY <1>3 DEF Flush
  <2> HIDE DEF f
  <2>3. Core(f, P) /\ SameLives(e, f)
    BY <1>1, <2>1, BufferedCore DEF Buffered
  <2>4. DocsFit(f)
    BY <1>1, <2>1 DEF DocsFit
  <2>5. CASE s = NoSid
    <3>1. RecFits(f)
      BY <2>1, <2>5 DEF RecFits
    <3>2. Whole(f, P)
      BY <2>3, <2>4, <3>1 DEF Whole
    <3> QED BY <2>1, <2>2, <2>3, <2>5, <3>2
  <2>6. CASE s # NoSid
    <3>1. s \in Sids /\ u \in Uris
      BY <1>1, <2>6, EditorFields
    <3>2. c.gen # 0 /\ u \notin c.tomb /\ (First(c) => c.docs[u] # 0)
      BY <1>1, <2>6 DEF RecFits
    <3>3. Core(g, P) /\ Wrote(f, g, s, u, f.text)
      BY <2>1, <2>3, <3>1, <3>2, DidChangeCore
    <3> HIDE DEF g
    <3>4. g.rec = e.rec /\ g.uri = e.uri /\ g.text = e.text /\ ~g.dirty
            /\ SameLives(f, g) /\ g.clients[s].tomb \subseteq c.tomb
      BY <2>1, <3>3 DEF Wrote, SameBuffer
    <3>5. DocsFit(g) /\ RecFits(g)
      BY <2>1, <2>4, <3>1, <3>2, <3>3, <3>4, WroteTexts
    <3>6. u \notin g.clients[s].tomb /\ (First(g.clients[s]) => g.clients[s].docs[u] = g.text)
      BY <2>6, <3>4, <3>5 DEF RecFits
    <3>7. Core(h, P) /\ SameLives(g, h) /\ SameTexts(g, h)
      BY <3>3, <3>4, <3>6, RequestCore
    <3> HIDE DEF h
    <3>8. g \in Editor
      BY <3>3, CoreFacts
    <3>9. DocsFit(h) /\ RecFits(h)
      BY <3>5, <3>7, <3>8, TextsKept
    <3>10. h.rec = e.rec /\ h.uri = e.uri /\ h.text = e.text /\ ~h.dirty
      BY <3>4, <3>7 DEF SameTexts, SameBuffer
    <3>11. SameLives(e, h)
      BY <2>3, <3>4, <3>7, SameTrans
    <3> QED BY <2>2, <2>6, <3>7, <3>9, <3>10, <3>11 DEF Whole
  <2> QED BY <2>5, <2>6
<1> QED BY <1>1, <1>2, <1>3

(* complete_external_*: requests rs are settled.                           *)
LEMMA SettleFields ==
  ASSUME NEW e \in Editor, NEW rs
  PROVE  LET f == Settle(e, rs) IN
         /\ f \in Editor /\ f.clients = e.clients /\ f.out = e.out /\ f.jobs = e.jobs
         /\ f.run = e.run \ rs /\ f.routed = e.routed /\ f.store = e.store
         /\ f.stray = e.stray /\ f.diag = e.diag /\ SameBuffer(e, f)
<1> DEFINE run == e.run \ rs
           token == e.token \ rs
           late == e.late \ rs
           f == [e EXCEPT !.run = run, !.token = token, !.late = late]
<1>1. run \subseteq Nat /\ token \subseteq Nat /\ late \subseteq Nat
  BY EditorFields
<1>2. Settle(e, rs) = f
  BY DEF Settle
<1> HIDE DEF run, token, late
<1>3. /\ f \in Editor /\ f.clients = e.clients /\ f.out = e.out /\ f.jobs = e.jobs
      /\ f.run = run /\ f.routed = e.routed /\ f.store = e.store
      /\ f.stray = e.stray /\ f.diag = e.diag /\ SameBuffer(e, f)
  BY <1>1 DEF Editor, SameBuffer
<1> QED BY <1>2, <1>3 DEF run

(* Requests rs of s are given up, and s is told.                           *)
GivesUp(e, f, s, rs) ==
  /\ f \in Editor /\ Only(e, f, s) /\ SameBuffer(e, f) /\ f.jobs = e.jobs
  /\ f.run = e.run \ rs /\ f.routed = e.routed \ rs /\ f.store = e.store
  /\ f.stray = e.stray /\ f.diag = e.diag
  /\ LET c == e.clients[s]
         d == f.clients[s]
     IN  /\ d.state = c.state /\ d.gen = c.gen /\ d.term = c.term /\ d.policy = c.policy
         /\ d.armed = c.armed /\ d.docs = c.docs /\ d.tomb = c.tomb
         /\ d.pending = c.pending \ rs /\ d.dropped = c.dropped \cup rs
         /\ \A p \in Process : ServerFits(s, c, e.out[s], p, e.jobs)
                                 => ServerFits(s, d, f.out[s], p, f.jobs)

(* cancel suits whatever the documents are.                                *)
LEMMA CancelAccords ==
  ASSUME NEW c, NEW d, NEW m, NEW jobs, m.msg = "cancel", d.docs = c.docs
  PROVE  Accords(c, d, m, jobs)
<1>1. Told(c).phase = 2 /\ Told(d) = Told(c)
  BY DEF Told
<1>2. ~OutOfOrder(Told(c), m) /\ Effect(Told(c), m) = Told(c)
  BY <1>1 DEF OutOfOrder, Effect
<1> QED BY <1>1, <1>2 DEF Accords, Suits

LEMMA AbandonFields ==
  ASSUME NEW e \in Editor, NEW s \in Sids, NEW rs, rs \subseteq e.clients[s].pending,
         Init0 \notin rs, Shut \notin rs
  PROVE  GivesUp(e, Abandon(e, s, rs), s, rs)
<1> DEFINE c == e.clients[s]
           a == Settle(e, rs)
           routed == a.routed \ rs
           b == [a EXCEPT !.routed = routed]
           x == [b.clients[s] EXCEPT !.pending = @ \ rs]
           v == [b EXCEPT !.clients[s] = x]
           y == [v.clients[s] EXCEPT !.dropped = @ \cup rs]
           g == [v EXCEPT !.clients[s] = y]
           m == [msg |-> "cancel", ids |-> rs]
           f == Notify(g, s, m)
           d == f.clients[s]
<1>1. c \in Client /\ c.pending \subseteq Int /\ rs \subseteq Int /\ c.dropped \subseteq Int
  BY EditorFields, ClientFields
<1>2. CASE rs = {}
  <2>1. Abandon(e, s, rs) = e
    BY <1>2 DEF Abandon
  <2>2. c.pending = c.pending \ rs /\ c.dropped = c.dropped \cup rs
        /\ e.run = e.run \ rs /\ e.routed = e.routed \ rs
    BY <1>2
  <2> QED BY <2>1, <2>2 DEF GivesUp, Only, SameBuffer
<1>3. CASE rs # {}
  <2>1. Abandon(e, s, rs) = f
    BY <1>3 DEF Abandon
  <2>2. /\ a \in Editor /\ a.clients = e.clients /\ a.out = e.out /\ a.jobs = e.jobs
        /\ a.run = e.run \ rs /\ a.routed = e.routed /\ a.store = e.store
        /\ a.stray = e.stray /\ a.diag = e.diag /\ SameBuffer(e, a)
    BY SettleFields
  <2> HIDE DEF a
  <2>3. routed \subseteq Nat /\ routed = e.routed \ rs
    BY <2>2, EditorFields
  <2> HIDE DEF routed
  <2>4. /\ b \in Editor /\ b.clients = e.clients /\ b.out = e.out /\ b.jobs = e.jobs
        /\ b.run = e.run \ rs /\ b.routed = routed /\ b.store = e.store
        /\ b.stray = e.stray /\ b.diag = e.diag /\ SameBuffer(e, b)
    BY <2>2, <2>3 DEF Editor, SameBuffer
  <2> HIDE DEF b
  <2>5. x = [c EXCEPT !.pending = @ \ rs]
    BY <2>4
  <2> HIDE DEF x
  <2>6. /\ x \in Client /\ x.pending = c.pending \ rs /\ x.dropped = c.dropped
        /\ x.state = c.state /\ x.gen = c.gen /\ x.term = c.term /\ x.policy = c.policy
        /\ x.armed = c.armed /\ x.docs = c.docs /\ x.tomb = c.tomb /\ x.deferred = c.deferred
    BY <1>1, <2>5 DEF Client
  <2>7. Puts(b, v, s, x) /\ v.clients[s] = x /\ v \in Editor
    BY <2>4, <2>6, PutsOne DEF Puts
  <2> HIDE DEF v
  <2>8. y = [x EXCEPT !.dropped = @ \cup rs]
    BY <2>7
  <2> HIDE DEF y
  <2>9. /\ y \in Client /\ y.pending = c.pending \ rs /\ y.dropped = c.dropped \cup rs
        /\ y.state = c.state /\ y.gen = c.gen /\ y.term = c.term /\ y.policy = c.policy
        /\ y.armed = c.armed /\ y.docs = c.docs /\ y.tomb = c.tomb /\ y.deferred = c.deferred
    BY <1>1, <2>6, <2>8 DEF Client
  <2>10. Puts(b, g, s, y)
    BY <2>7, <2>9, PutsOne, PutsTwice
  <2> HIDE DEF g
  <2>11. /\ g \in Editor /\ g.clients[s] = y /\ g.out = b.out /\ Only(b, g, s)
         /\ SameBuffer(b, g) /\ SameJobs(b, g) /\ g.diag = b.diag
    BY <2>10 DEF Puts
  <2>12. m \in Note /\ m.msg = "cancel"
    BY <1>1 DEF Note
  <2> HIDE DEF m
  <2>13. NotifyChanges(g, f, s, m)
    BY <2>11, <2>12, NotifyFields
  <2> HIDE DEF f
  <2>14. /\ f \in Editor /\ Only(g, f, s) /\ SameBuffer(g, f) /\ SameJobs(g, f)
         /\ f.diag = g.diag /\ Notified(y, d, e.out[s], f.out[s], m) /\ SameRest(y, d)
    BY <2>4, <2>11, <2>13 DEF NotifyChanges
  <2>15. /\ Only(e, f, s) /\ SameBuffer(e, f) /\ f.jobs = e.jobs
         /\ f.run = e.run \ rs /\ f.routed = e.routed \ rs /\ f.store = e.store
         /\ f.stray = e.stray /\ f.diag = e.diag
    BY <2>3, <2>4, <2>11, <2>14 DEF Only, SameBuffer, SameJobs
  <2>16. /\ d.state = c.state /\ d.gen = c.gen /\ d.term = c.term /\ d.policy = c.policy
         /\ d.armed = c.armed /\ d.docs = c.docs /\ d.tomb = c.tomb
         /\ d.pending = c.pending \ rs /\ d.dropped = c.dropped \cup rs
    BY <2>9, <2>14 DEF Notified, Same, SameRest
  <2>17. ASSUME NEW p \in Process, ServerFits(s, c, e.out[s], p, e.jobs)
         PROVE  ServerFits(s, d, f.out[s], p, f.jobs)
    <3>1. e.out[s] \in Seq(Message)
      BY EditorFields
    <3>2. ServerFits(s, y, e.out[s], p, e.jobs)
      BY <1>1, <2>9, <2>17, <3>1, AbandonedFits
    <3>3. d \in Client
      BY <2>14, EditorFields
    <3>4. Accords(y, d, m, e.jobs)
      BY <2>9, <2>12, <2>16, CancelAccords
    <3>5. ServerFits(s, d, f.out[s], p, e.jobs)
      BY <2>9, <2>12, <2>14, <3>1, <3>2, <3>3, <3>4, NotifiedFits
    <3> QED BY <2>15, <3>5
  <2> QED BY <2>1, <2>14, <2>15, <2>16, <2>17 DEF GivesUp
<1> QED BY <1>2, <1>3

(* Ids that are routed to s are pending there.                             *)
LEMMA RoutedPending ==
  ASSUME NEW e, NEW P, NEW s \in Sids, NEW rs, Core(e, P),
         rs \subseteq e.routed, rs \subseteq JobsOf(e, s)
  PROVE  rs \subseteq e.clients[s].pending /\ Init0 \notin rs /\ Shut \notin rs
<1>1. e.jobs \in Seq(Job) /\ Len(e.jobs) \in Nat /\ JobsFit(e)
  BY CoreFacts
<1> QED BY <1>1 DEF JobsFit, JobsOf, Init0, Shut

LEMMA AbandonCore ==
  ASSUME NEW e, NEW P, NEW s \in Sids, NEW rs, Core(e, P),
         rs \subseteq e.routed, rs \subseteq JobsOf(e, s)
  PROVE  /\ Core(Abandon(e, s, rs), P) /\ SameLives(e, Abandon(e, s, rs))
         /\ SameTexts(e, Abandon(e, s, rs))
<1> DEFINE f == Abandon(e, s, rs)
           c == e.clients[s]
           d == f.clients[s]
<1>1. rs \subseteq c.pending /\ Init0 \notin rs /\ Shut \notin rs
  BY RoutedPending
<1>2. /\ e \in Editor /\ P \in [Sids -> Process] /\ P[s] \in Process /\ c \in Client
      /\ ServerFits(s, c, e.out[s], P[s], e.jobs) /\ ClientFits(s, c, e.jobs)
      /\ JobsFit(e) /\ StoreFits(e) /\ DiagFits(e) /\ ~e.stray
  BY CoreFacts
<1>3. GivesUp(e, f, s, rs)
  BY <1>1, <1>2, AbandonFields
<1> HIDE DEF f
<1>4. /\ f \in Editor /\ Only(e, f, s) /\ SameBuffer(e, f) /\ f.jobs = e.jobs
      /\ f.run = e.run \ rs /\ f.routed = e.routed \ rs /\ f.store = e.store
      /\ f.stray = e.stray /\ f.diag = e.diag
      /\ d.state = c.state /\ d.gen = c.gen /\ d.term = c.term /\ d.policy = c.policy
      /\ d.armed = c.armed /\ d.docs = c.docs /\ d.tomb = c.tomb
      /\ d.pending = c.pending \ rs /\ d.dropped = c.dropped \cup rs
  BY <1>3 DEF GivesUp
<1>5. ServerFits(s, d, f.out[s], P[s], f.jobs)
  BY <1>2, <1>3 DEF GivesUp
<1>6. ClientFits(s, d, f.jobs)
  BY <1>1, <1>2, <1>4 DEF ClientFits
<1>7. \A t \in Sids : LET x == e.clients[t]
                          y == f.clients[t]
                      IN  /\ y.state = x.state /\ y.gen = x.gen
                          /\ x.pending \ rs \subseteq y.pending /\ y.tomb = x.tomb
                          /\ y.docs = x.docs
  BY <1>4 DEF Only
<1>8. \A r \in 1..Len(e.jobs) : e.jobs[r].sid \in Sids
  BY <1>2, JobFields
<1>9. JobsFit(f)
  <2>1. f.jobs = e.jobs /\ f.run \subseteq e.run \ rs /\ f.routed = e.routed \ rs
    BY <1>4
  <2>2. \A t \in Sids : /\ f.clients[t].state = e.clients[t].state
                        /\ e.clients[t].pending \ rs \subseteq f.clients[t].pending
                        /\ f.clients[t].tomb \subseteq e.clients[t].tomb
    BY <1>7
  <2> QED BY <1>2, <1>8, <2>1, <2>2, JobsKept
<1>10. StoreFits(f)
  <2>1. \A x \in e.store : x.sid \in Sids
    BY <1>2, EditorFields DEF Stored
  <2> QED BY <1>2, <1>4, <1>7, <2>1 DEF StoreFits
<1>11. DiagFits(f)
  <2>1. Marked(e, f, s)
    BY <1>4 DEF Marked
  <2> QED BY <1>2, <1>7, <2>1, DiagKept
<1>12. Core(f, P)
  BY <1>2, <1>4, <1>5, <1>6, <1>9, <1>10, <1>11, CoreOf
<1>13. SameLives(e, f) /\ SameTexts(e, f)
  BY <1>4, <1>7 DEF SameLives, SameTexts
<1> QED BY <1>12, <1>13 DEF f

(* drain_cancelled_externals.                                              *)
LEMMA SweepCore ==
  ASSUME NEW e, NEW P, NEW s \in Sids, Core(e, P)
  PROVE  Core(Sweep(e, s), P) /\ SameLives(e, Sweep(e, s)) /\ SameTexts(e, Sweep(e, s))
<1> DEFINE rs == e.run \cap JobsOf(e, s) \cap (e.token \cup e.late)
<1>1. rs \subseteq e.routed /\ rs \subseteq JobsOf(e, s)
  BY CoreFacts DEF JobsFit
<1>2. Sweep(e, s) = Abandon(e, s, rs)
  BY DEF Sweep
<1> HIDE DEF rs
<1> QED BY <1>1, <1>2, AbandonCore

(* Texts are taken away, and nothing else of the attachment.               *)
Fewer(e, f) ==
  /\ SameBuffer(e, f) /\ SameLives(e, f)
  /\ \A t \in Sids : \A v \in Uris : f.clients[t].docs[v] \in {e.clients[t].docs[v], 0}

(* What is shown of document u of s is taken away, with its text.          *)
Clears(e, f, s, u) ==
  /\ f \in Editor /\ Only(e, f, s) /\ SameBuffer(e, f) /\ f.out = e.out
  /\ f.jobs = e.jobs /\ f.run = e.run /\ f.routed = e.routed
  /\ f.stray = e.stray /\ f.diag = e.diag \ {u}
  /\ f.store = {x \in e.store : ~(x.sid = s /\ x.uri = u)}
  /\ LET c == e.clients[s]
         d == f.clients[s]
     IN  /\ Same(c, d) /\ d.deferred = c.deferred /\ d.policy = c.policy
         /\ d.armed = c.armed /\ d.tomb = c.tomb /\ d.docs = [c.docs EXCEPT ![u] = 0]

LEMMA ClearedFields ==
  ASSUME NEW e \in Editor, NEW s \in Sids, NEW u \in Uris
  PROVE  Clears(e, Cleared(e, s, u), s, u)
<1> DEFINE c == e.clients[s]
           store == {x \in e.store : ~(x.sid = s /\ x.uri = u)}
           diag == e.diag \ {u}
           a == [e EXCEPT !.store = store, !.diag = diag]
           y == [a.clients[s] EXCEPT !.docs[u] = 0]
           f == [a EXCEPT !.clients[s] = y]
           d == f.clients[s]
<1>1. c \in Client /\ 0 \in Texts /\ store \subseteq Stored /\ diag \subseteq Uris
  BY EditorFields, ConstantsAssumption DEF Texts
<1>2. Cleared(e, s, u) = f
  BY DEF Cleared
<1> HIDE DEF store, diag
<1>3. /\ a \in Editor /\ a.clients = e.clients /\ a.out = e.out /\ a.jobs = e.jobs
      /\ a.run = e.run /\ a.routed = e.routed /\ a.stray = e.stray /\ a.store = store
      /\ a.diag = diag /\ SameBuffer(e, a)
  BY <1>1 DEF Editor, SameBuffer
<1> HIDE DEF a
<1>4. y = [c EXCEPT !.docs[u] = 0]
  BY <1>3
<1> HIDE DEF y
<1>5. /\ y \in Client
      /\ Same(c, y) /\ y.deferred = c.deferred /\ y.policy = c.policy
      /\ y.armed = c.armed /\ y.tomb = c.tomb /\ y.docs = [c.docs EXCEPT ![u] = 0]
  BY <1>1, <1>4 DEF Client, Same
<1>6. Puts(a, f, s, y)
  BY <1>3, <1>5, PutsOne
<1> HIDE DEF f
<1>7. /\ f \in Editor /\ d = y /\ f.out = a.out /\ Only(a, f, s)
      /\ SameBuffer(a, f) /\ SameJobs(a, f) /\ f.diag = a.diag
  BY <1>6 DEF Puts
<1>8. /\ Only(e, f, s) /\ SameBuffer(e, f) /\ f.out = e.out
      /\ f.jobs = e.jobs /\ f.run = e.run /\ f.routed = e.routed
      /\ f.stray = e.stray /\ f.store = store /\ f.diag = diag
  BY <1>3, <1>7 DEF Only, SameBuffer, SameJobs
<1> QED BY <1>2, <1>5, <1>7, <1>8 DEF Clears, store, diag

(* forget_uri of a document that is not open.                              *)
LEMMA ForgetUriCore ==
  ASSUME NEW e, NEW P, NEW s \in Sids, NEW u \in Uris, Core(e, P),
         First(e.clients[s]) => e.clients[s].docs[u] = 0
  PROVE  Core(ForgetUri(e, s, u), P) /\ Fewer(e, ForgetUri(e, s, u))
<1> DEFINE c == e.clients[s]
           doomed == {r \in JobsOf(e, s) \cap e.routed : e.jobs[r].uri = u}
           y == [c EXCEPT !.tomb = @ \cup {u}]
           f == [e EXCEPT !.clients[s] = y]
           g == Abandon(f, s, doomed)
           h == Cleared(g, s, u)
           x == g.clients[s]
           z == h.clients[s]
<1>1. /\ e \in Editor /\ P \in [Sids -> Process] /\ P[s] \in Process /\ c \in Client
      /\ e.out[s] \in Seq(Message)
      /\ ServerFits(s, c, e.out[s], P[s], e.jobs) /\ ClientFits(s, c, e.jobs)
      /\ JobsFit(e) /\ StoreFits(e) /\ DiagFits(e) /\ ~e.stray
  BY CoreFacts
<1>2. CASE c.state = "none"
  <2>1. ForgetUri(e, s, u) = e
    BY <1>2 DEF ForgetUri
  <2>2. Fewer(e, e)
    BY SameTrans DEF Fewer
  <2> QED BY <2>1, <2>2
<1>3. CASE c.state # "none"
  <2>1. ForgetUri(e, s, u) = h
    BY <1>3 DEF ForgetUri
  <2>2. /\ y \in Client /\ Same(c, y) /\ y.deferred = c.deferred /\ y.policy = c.policy
        /\ y.armed = c.armed /\ y.tomb = c.tomb \cup {u} /\ y.docs = c.docs
    BY <1>1 DEF Client, Same
  <2> HIDE DEF y
  <2>3. Puts(e, f, s, y)
    BY <1>1, <2>2, PutsOne
  <2> HIDE DEF f
  <2>4. /\ f \in Editor /\ f.clients[s] = y /\ f.out = e.out /\ Only(e, f, s)
        /\ SameBuffer(e, f) /\ SameJobs(e, f) /\ f.diag = e.diag
    BY <2>3 DEF Puts
  <2>5. doomed \subseteq c.pending /\ Init0 \notin doomed /\ Shut \notin doomed
    BY RoutedPending
  <2>6. \A r \in e.routed \ doomed : e.jobs[r].sid = s => e.jobs[r].uri # u
    BY <1>1 DEF JobsFit, JobsOf
  <2> HIDE DEF doomed
  <2>7. GivesUp(f, g, s, doomed)
    BY <2>2, <2>4, <2>5, AbandonFields DEF Same
  <2> HIDE DEF g
  <2>8. /\ g \in Editor /\ Only(f, g, s) /\ SameBuffer(f, g) /\ g.jobs = f.jobs
        /\ g.run = f.run \ doomed /\ g.routed = f.routed \ doomed /\ g.store = f.store
        /\ g.stray = f.stray /\ g.diag = f.diag
        /\ x.state = y.state /\ x.gen = y.gen /\ x.term = y.term /\ x.policy = y.policy
        /\ x.armed = y.armed /\ x.docs = y.docs /\ x.tomb = y.tomb
        /\ x.pending = y.pending \ doomed /\ x.dropped = y.dropped \cup doomed
        /\ \A p \in Process : ServerFits(s, y, f.out[s], p, f.jobs)
                                => ServerFits(s, x, g.out[s], p, g.jobs)
    BY <2>4, <2>7 DEF GivesUp
  <2>9. /\ h \in Editor /\ Only(g, h, s) /\ SameBuffer(g, h) /\ h.out = g.out
        /\ h.jobs = g.jobs /\ h.run = g.run /\ h.routed = g.routed
        /\ h.stray = g.stray
        /\ h.store = {i \in g.store : ~(i.sid = s /\ i.uri = u)}
        /\ h.diag = g.diag \ {u}
        /\ Same(x, z) /\ z.deferred = x.deferred /\ z.policy = x.policy
        /\ z.armed = x.armed /\ z.tomb = x.tomb /\ z.docs = [x.docs EXCEPT ![u] = 0]
    <3>1. Clears(g, h, s, u)
      BY <2>8, ClearedFields
    <3> HIDE DEF h
    <3> QED BY <3>1 DEF Clears
  <2> HIDE DEF h
  <2>10. /\ Only(e, h, s) /\ SameBuffer(e, h) /\ h.jobs = e.jobs
         /\ h.run = e.run \ doomed /\ h.routed = e.routed \ doomed
         /\ h.stray = e.stray /\ h.diag = e.diag \ {u}
         /\ h.store = {i \in e.store : ~(i.sid = s /\ i.uri = u)}
    BY <2>4, <2>8, <2>9 DEF Only, SameBuffer, SameJobs
  <2>11. /\ z.state = c.state /\ z.gen = c.gen /\ z.term = c.term /\ z.policy = c.policy
         /\ z.armed = c.armed /\ z.docs = [c.docs EXCEPT ![u] = 0]
         /\ z.tomb = c.tomb \cup {u}
         /\ z.pending = c.pending \ doomed /\ z.dropped = c.dropped \cup doomed
    BY <2>2, <2>8, <2>9 DEF Same
  <2>12. ServerFits(s, z, h.out[s], P[s], h.jobs)
    <3>1. ServerFits(s, y, e.out[s], P[s], e.jobs)
      BY <1>1, <2>2, SameFits
    <3>2. f.out[s] = e.out[s] /\ f.jobs = e.jobs
      BY <2>4 DEF SameJobs
    <3>3. ServerFits(s, x, g.out[s], P[s], g.jobs)
      BY <1>1, <2>8, <3>1, <3>2
    <3>4. x \in Client /\ z \in Client /\ g.out[s] \in Seq(Message)
      BY <2>8, <2>9, EditorFields
    <3>5. First(x) => z.docs = x.docs
      <4>1. First(x) => c.docs[u] = 0
        BY <2>2, <2>8 DEF First, Live, Same
      <4>2. x.docs = c.docs /\ c.docs \in [Uris -> Texts]
        BY <1>1, <2>2, <2>8, ClientFields
      <4>3. c.docs[u] = 0 => [c.docs EXCEPT ![u] = 0] = c.docs
        BY <4>2
      <4> QED BY <2>11, <4>1, <4>2, <4>3
    <3>6. ServerFits(s, z, g.out[s], P[s], g.jobs)
      BY <1>1, <2>9, <3>3, <3>4, <3>5, SameFits
    <3> QED BY <2>9, <3>6
  <2>13. ClientFits(s, z, h.jobs)
    BY <1>1, <2>5, <2>10, <2>11 DEF ClientFits
  <2>14. \A t \in Sids : LET a == e.clients[t]
                             b == h.clients[t]
                         IN  /\ b.state = a.state /\ b.gen = a.gen
                             /\ a.pending \ doomed \subseteq b.pending
                             /\ b.tomb = IF t = s THEN a.tomb \cup {u} ELSE a.tomb
                             /\ b.docs = IF t = s THEN [a.docs EXCEPT ![u] = 0] ELSE a.docs
    BY <2>10, <2>11 DEF Only
  <2>15. \A r \in 1..Len(e.jobs) : e.jobs[r].sid \in Sids
    BY <1>1, JobFields
  <2>16. JobsFit(h)
    <3>1. h.run \subseteq h.routed /\ h.routed \subseteq 1..Len(h.jobs)
      BY <1>1, <2>10 DEF JobsFit
    <3>2. \A r \in h.run : Live(h.clients[h.jobs[r].sid])
      <4> TAKE r \in h.run
      <4>1. h.jobs[r] = e.jobs[r] /\ e.jobs[r].sid \in Sids /\ Live(e.clients[e.jobs[r].sid])
        BY <1>1, <2>10, <2>15 DEF JobsFit
      <4> QED BY <2>14, <4>1 DEF Live
    <3>3. \A r \in h.routed : r \in h.clients[h.jobs[r].sid].pending
      BY <1>1, <2>10, <2>14, <2>15 DEF JobsFit
    <3>4. \A r \in h.routed : h.jobs[r].uri \notin h.clients[h.jobs[r].sid].tomb
      <4> TAKE r \in h.routed
      <4>1. /\ h.jobs[r] = e.jobs[r] /\ e.jobs[r].sid \in Sids
            /\ e.jobs[r].uri \notin e.clients[e.jobs[r].sid].tomb
            /\ e.jobs[r].sid = s => e.jobs[r].uri # u
        BY <1>1, <2>6, <2>10, <2>15 DEF JobsFit
      <4> QED BY <2>14, <4>1
    <3> QED BY <3>1, <3>2, <3>3, <3>4 DEF JobsFit
  <2>17. StoreFits(h)
    <3>1. \A i \in e.store : i.sid \in Sids
      BY <1>1, EditorFields DEF Stored
    <3>2. h.jobs = e.jobs
      BY <2>10
    <3>3. ASSUME NEW i \in h.store
          PROVE  /\ i.uri \notin h.clients[i.sid].tomb
                 /\ i.id \in 1..Len(h.jobs) /\ Honest(h.jobs, i.id, i.text)
      <4>1. i \in e.store /\ ~(i.sid = s /\ i.uri = u)
        BY <2>10
      <4>2. /\ i.uri \notin e.clients[i.sid].tomb /\ i.id \in 1..Len(e.jobs)
            /\ Honest(e.jobs, i.id, i.text)
        BY <1>1, <4>1 DEF StoreFits
      <4>3. i.uri \notin h.clients[i.sid].tomb
        BY <2>14, <3>1, <4>1, <4>2
      <4> QED BY <3>2, <4>2, <4>3
    <3> QED BY <3>3 DEF StoreFits
  <2>18. DiagFits(h)
    <3>1. SUFFICES ASSUME NEW t \in Sids, NEW v \in h.clients[t].tomb,
                          \A w \in Sids \ {t} : h.clients[w].gen = 0
                   PROVE  v \notin h.diag
      BY DEF DiagFits
    <3>2. \A w \in Sids \ {t} : e.clients[w].gen = 0
      BY <2>14, <3>1
    <3>3. CASE v = u
      BY <2>10, <3>3
    <3>4. CASE v # u
      <4>1. v \in e.clients[t].tomb
        BY <2>14, <3>1, <3>4
      <4>2. v \notin e.diag
        BY <1>1, <3>2, <4>1 DEF DiagFits
      <4> QED BY <2>10, <4>2
    <3> QED BY <3>3, <3>4
  <2>19. Core(h, P)
    BY <1>1, <2>9, <2>10, <2>12, <2>13, <2>16, <2>17, <2>18, CoreOf
  <2>20. Fewer(e, h)
    <3>1. c.docs \in [Uris -> Texts]
      BY <1>1, ClientFields
    <3>2. \A v \in Uris : z.docs[v] \in {c.docs[v], 0}
      BY <2>11, <3>1
    <3> QED BY <2>10, <2>14, <3>2 DEF Fewer, SameLives
  <2> QED BY <2>1, <2>19, <2>20
<1> QED BY <1>2, <1>3

(* A generation of s starts: what was asked of the last is settled.        *)
Starts(e, f, s) ==
  /\ f \in Editor /\ Only(e, f, s) /\ SameBuffer(e, f) /\ f.jobs = e.jobs
  /\ f.run = e.run \ JobsOf(e, s) /\ f.routed = e.routed \ JobsOf(e, s)
  /\ f.store = e.store /\ f.stray = e.stray /\ f.diag = e.diag /\ f.out[s] = <<>>
  /\ LET c == e.clients[s]
         d == f.clients[s]
     IN  /\ d.state = "starting" /\ d.gen = c.gen + 1 /\ d.policy = c.policy
         /\ ~d.armed /\ ~d.term /\ d.pending = {} /\ d.dropped = {}
         /\ d.deferred = <<>> /\ d.docs = NoDocs /\ d.tomb = {}

(* The requests of s are settled and routed no more, its pipe is emptied,  *)
(* and its client becomes d.                                               *)
Empties(e, f, s, d) ==
  /\ f \in Editor /\ Only(e, f, s) /\ SameBuffer(e, f) /\ f.jobs = e.jobs
  /\ f.run = e.run \ JobsOf(e, s) /\ f.routed = e.routed \ JobsOf(e, s)
  /\ f.store = e.store /\ f.stray = e.stray /\ f.diag = e.diag
  /\ f.out[s] = <<>> /\ f.clients[s] = d

LEMMA EmptiedFields ==
  ASSUME NEW e \in Editor, NEW s \in Sids, NEW d \in Client
  PROVE  Empties(e, [Drain(e, s) EXCEPT !.routed = @ \ JobsOf(e, s),
                                        !.clients[s] = d, !.out[s] = <<>>], s, d)
<1> DEFINE rs == JobsOf(e, s)
           a == Settle(e, rs)
           routed == a.routed \ rs
           b == [a EXCEPT !.routed = routed]
           g == [b EXCEPT !.clients[s] = d]
           none == <<>>
           f == [g EXCEPT !.out[s] = none]
<1>1. f = [Drain(e, s) EXCEPT !.routed = @ \ JobsOf(e, s), !.clients[s] = d, !.out[s] = <<>>]
  BY DEF Drain
<1> HIDE DEF rs
<1>2. /\ a \in Editor /\ a.clients = e.clients /\ a.out = e.out /\ a.jobs = e.jobs
      /\ a.run = e.run \ rs /\ a.routed = e.routed /\ a.store = e.store
      /\ a.stray = e.stray /\ a.diag = e.diag /\ SameBuffer(e, a)
  BY SettleFields
<1> HIDE DEF a
<1>3. routed \subseteq Nat /\ routed = e.routed \ rs
  BY <1>2, EditorFields
<1> HIDE DEF routed
<1>4. /\ b \in Editor /\ b.clients = e.clients /\ b.out = e.out /\ b.jobs = e.jobs
      /\ b.run = e.run \ rs /\ b.routed = routed /\ b.store = e.store
      /\ b.stray = e.stray /\ b.diag = e.diag /\ SameBuffer(e, b)
  BY <1>2, <1>3 DEF Editor, SameBuffer
<1> HIDE DEF b
<1>5. Puts(b, g, s, d)
  BY <1>4, PutsOne
<1> HIDE DEF g
<1>6. /\ g \in Editor /\ g.clients[s] = d /\ g.out = b.out /\ Only(b, g, s)
      /\ SameBuffer(b, g) /\ SameJobs(b, g) /\ g.diag = b.diag
  BY <1>5 DEF Puts
<1>7. none \in Seq(Message)
  OBVIOUS
<1> HIDE DEF none
<1>8. /\ f \in Editor /\ f.out[s] = none /\ f.clients = g.clients /\ Only(g, f, s)
      /\ SameBuffer(g, f) /\ SameJobs(g, f) /\ f.diag = g.diag
  BY <1>6, <1>7, WithOut
<1> HIDE DEF f
<1>9. /\ Only(e, f, s) /\ SameBuffer(e, f) /\ f.jobs = e.jobs
      /\ f.run = e.run \ rs /\ f.routed = e.routed \ rs
      /\ f.store = e.store /\ f.stray = e.stray /\ f.diag = e.diag
      /\ f.clients[s] = d
  BY <1>3, <1>4, <1>6, <1>8 DEF Only, SameBuffer, SameJobs
<1>10. f \in Editor /\ f.out[s] = <<>>
  BY <1>8 DEF none
<1> QED BY <1>1, <1>9, <1>10 DEF Empties, rs

LEMMA StartFields ==
  ASSUME NEW e \in Editor, NEW s \in Sids
  PROVE  Starts(e, StartGeneration(e, s), s)
<1> DEFINE c == e.clients[s]
           gen == c.gen + 1
           held == <<>>
           x == Drain(e, s).clients[s]
           d == [x EXCEPT !.state = "starting", !.gen = gen,
                          !.armed = FALSE, !.due = FALSE, !.term = FALSE,
                          !.pending = {}, !.dropped = {}, !.deferred = <<>>,
                          !.docs = NoDocs, !.tomb = {}]
           f == [Drain(e, s) EXCEPT !.routed = @ \ JobsOf(e, s),
                                    !.clients[s] = d, !.out[s] = <<>>]
<1>1. c \in Client /\ gen \in Nat /\ held \in Seq(Note) /\ held = <<>>
  BY EditorFields, ClientFields
<1>2. NoDocs \in [Uris -> Texts]
  BY ConstantsAssumption DEF NoDocs, Texts
<1>3. StartGeneration(e, s) = f
  BY DEF StartGeneration
<1>a. x = c
  BY SettleFields DEF Drain
<1> HIDE DEF x
<1>b. d = [c EXCEPT !.state = "starting", !.gen = gen,
                    !.armed = FALSE, !.due = FALSE, !.term = FALSE,
                    !.pending = {}, !.dropped = {}, !.deferred = held,
                    !.docs = NoDocs, !.tomb = {}]
  BY <1>a
<1> HIDE DEF d, gen, held
<1>4. d \in Client
  BY <1>1, <1>2, <1>b DEF Client
<1>5. /\ d.state = "starting" /\ d.gen = gen /\ d.policy = c.policy
      /\ ~d.armed /\ ~d.term /\ d.pending = {} /\ d.dropped = {}
      /\ d.deferred = held /\ d.docs = NoDocs /\ d.tomb = {}
  BY <1>1, <1>b DEF Client
<1>6. /\ f \in Editor /\ Only(e, f, s) /\ SameBuffer(e, f) /\ f.jobs = e.jobs
      /\ f.run = e.run \ JobsOf(e, s) /\ f.routed = e.routed \ JobsOf(e, s)
      /\ f.store = e.store /\ f.stray = e.stray /\ f.diag = e.diag
      /\ f.out[s] = <<>> /\ f.clients[s] = d
  <2>1. Empties(e, f, s, d)
    BY <1>4, EmptiedFields
  <2> HIDE DEF f
  <2> QED BY <2>1 DEF Empties
<1> HIDE DEF f
<1> QED BY <1>1, <1>3, <1>5, <1>6 DEF Starts, gen

(* The core, when s is left with no request.                               *)
LEMMA EmptiedCore ==
  ASSUME NEW e, NEW P, NEW f \in Editor, NEW s \in Sids, NEW p \in Process,
         Core(e, P), Only(e, f, s), f.jobs = e.jobs,
         f.run = e.run \ JobsOf(e, s), f.routed = e.routed \ JobsOf(e, s),
         f.store = e.store, f.stray = e.stray, f.diag = e.diag,
         e.clients[s].gen # 0 => f.clients[s].gen # 0, f.clients[s].tomb = {},
         ServerFits(s, f.clients[s], f.out[s], p, f.jobs),
         ClientFits(s, f.clients[s], f.jobs)
  PROVE  Core(f, [P EXCEPT ![s] = p])
<1> DEFINE Q == [P EXCEPT ![s] = p]
<1>1. /\ e \in Editor /\ P \in [Sids -> Process]
      /\ JobsFit(e) /\ StoreFits(e) /\ DiagFits(e) /\ ~e.stray
  BY CoreFacts
<1>2. Q \in [Sids -> Process] /\ Q[s] = p /\ \A t \in Sids \ {s} : Q[t] = P[t]
  BY <1>1
<1> HIDE DEF Q
<1>3. \A r \in 1..Len(e.jobs) : e.jobs[r].sid \in Sids
  BY <1>1, JobFields
<1>4. JobsFit(f)
  <2>1. f.run \subseteq f.routed /\ f.routed \subseteq 1..Len(f.jobs)
    BY <1>1 DEF JobsFit
  <2>2. \A r \in f.routed : e.jobs[r].sid \in Sids \ {s}
    BY <1>1, <1>3 DEF JobsFit, JobsOf
  <2>3. \A t \in Sids \ {s} : f.clients[t] = e.clients[t]
    BY DEF Only
  <2> QED BY <1>1, <2>1, <2>2, <2>3 DEF JobsFit
<1>5. \A t \in Sids : f.clients[t].tomb \subseteq e.clients[t].tomb
  BY DEF Only
<1>6. StoreFits(f)
  <2>1. \A x \in e.store : x.sid \in Sids
    BY <1>1, EditorFields DEF Stored
  <2> QED BY <1>1, <1>5, <2>1 DEF StoreFits
<1>7. DiagFits(f)
  <2>1. Marked(e, f, s)
    BY DEF Marked
  <2>2. \A t \in Sids : e.clients[t].gen # 0 => f.clients[t].gen # 0
    BY DEF Only
  <2> QED BY <1>1, <1>5, <2>1, <2>2, DiagKept
<1>8. Core(f, Q)
  BY <1>1, <1>2, <1>4, <1>6, <1>7, CoreOf
<1> QED BY <1>8 DEF Q

LEMMA StartsCore ==
  ASSUME NEW e, NEW P, NEW f, NEW s \in Sids, Core(e, P), Starts(e, f, s)
  PROVE  Core(f, [P EXCEPT ![s] = Fresh])
<1> DEFINE c == e.clients[s]
           d == f.clients[s]
<1>1. e \in Editor /\ c \in Client /\ ClientFits(s, c, e.jobs) /\ c.gen \in Nat
        /\ e.jobs \in Seq(Job) /\ Len(e.jobs) \in Nat
        /\ \A r \in 1..Len(e.jobs) : e.jobs[r].gen \in Nat
  BY CoreFacts, ClientFields, JobFields
<1>2. /\ f \in Editor /\ Only(e, f, s) /\ f.jobs = e.jobs
      /\ f.run = e.run \ JobsOf(e, s) /\ f.routed = e.routed \ JobsOf(e, s)
      /\ f.store = e.store /\ f.stray = e.stray /\ f.diag = e.diag /\ f.out[s] = <<>>
      /\ d.state = "starting" /\ d.gen = c.gen + 1
      /\ ~d.armed /\ ~d.term /\ d.pending = {} /\ d.dropped = {}
      /\ d.deferred = <<>> /\ d.docs = NoDocs /\ d.tomb = {}
  BY DEF Starts
<1>3. d \in Client /\ d.gen # 0
  BY <1>1, <1>2, EditorFields
<1>4. \A r \in 1..Len(e.jobs) : e.jobs[r].sid = s => e.jobs[r].gen <= c.gen
  BY <1>1 DEF ClientFits
<1>5. NoJobs(s, d, f.jobs)
  BY <1>1, <1>2, <1>4 DEF NoJobs
<1>6. ServerFits(s, d, f.out[s], Fresh, f.jobs)
  <2>1. ServerFits(s, d, <<>>, Fresh, f.jobs)
    BY <1>2, <1>3, <1>5, FreshFits
  <2> QED BY <1>2, <2>1
<1>7. ClientFits(s, d, f.jobs)
  <2>1. \A r \in 1..Len(f.jobs) : f.jobs[r].sid = s => f.jobs[r].gen <= d.gen
    BY <1>1, <1>2, <1>4
  <2> QED BY <1>2, <1>3, <2>1 DEF ClientFits
<1> QED BY <1>2, <1>3, <1>6, <1>7, FreshIsProcess, EmptiedCore

(* forget.                                                                 *)
LEMMA ForgetCore ==
  ASSUME NEW e, NEW P, NEW s \in Sids, Core(e, P),
         e.clients[s].state \in {"stopped", "crashed"}
  PROVE  /\ Core(Forget(e, s), [P EXCEPT ![s] = NoProc])
         /\ Only(e, Forget(e, s), s) /\ SameBuffer(e, Forget(e, s))
         /\ Forget(e, s).clients[s].state = "none"
         /\ Forget(e, s).clients[s].gen = e.clients[s].gen
<1> DEFINE c == e.clients[s]
           d == [NoClient EXCEPT !.gen = c.gen]
           f == [Drain(e, s) EXCEPT !.routed = @ \ JobsOf(e, s),
                                    !.clients[s] = d, !.out[s] = <<>>]
<1>1. e \in Editor /\ c \in Client /\ ClientFits(s, c, e.jobs) /\ c.gen \in Nat
  BY CoreFacts, ClientFields
<1>2. Forget(e, s) = f
  <2>1. Forget(e, s) = [Drain(e, s) EXCEPT !.routed = @ \ JobsOf(e, s), !.out[s] = <<>>,
                                           !.clients[s] = d]
    BY DEF Forget
  <2> HIDE DEF d
  <2>2. [Drain(e, s) EXCEPT !.routed = @ \ JobsOf(e, s), !.out[s] = <<>>, !.clients[s] = d] = f
    <3>1. Drain(e, s) \in Editor
      BY <1>1, SettleFields DEF Drain
    <3> DEFINE a == Drain(e, s)
    <3> HIDE DEF a
    <3>2. a \in Editor
      BY <3>1 DEF a
    <3>3. [a EXCEPT !.routed = @ \ JobsOf(e, s), !.out[s] = <<>>, !.clients[s] = d]
            = [a EXCEPT !.routed = @ \ JobsOf(e, s), !.clients[s] = d, !.out[s] = <<>>]
      BY <3>2 DEF Editor
    <3> QED BY <3>3 DEF a
  <2> QED BY <2>1, <2>2
<1>3. NoDocs \in [Uris -> Texts]
  BY ConstantsAssumption DEF NoDocs, Texts
<1>4. d \in Client
  <2>1. NoClient \in Client
    BY <1>3 DEF NoClient, Client
  <2> QED BY <1>1, <2>1 DEF Client
<1>5. /\ d.state = "none" /\ d.gen = c.gen /\ ~d.armed /\ ~d.term /\ d.pending = {}
      /\ d.dropped = {} /\ d.tomb = {}
  BY DEF NoClient
<1> HIDE DEF d
<1>6. Empties(e, f, s, d)
  BY <1>1, <1>4, EmptiedFields
<1> HIDE DEF f
<1>7. /\ f \in Editor /\ Only(e, f, s) /\ SameBuffer(e, f) /\ f.jobs = e.jobs
      /\ f.run = e.run \ JobsOf(e, s) /\ f.routed = e.routed \ JobsOf(e, s)
      /\ f.store = e.store /\ f.stray = e.stray /\ f.diag = e.diag
      /\ f.out[s] = <<>> /\ f.clients[s] = d
  BY <1>6 DEF Empties
<1>8. ServerFits(s, d, f.out[s], NoProc, f.jobs)
  <2>1. ~NoProc.up /\ ~NoProc.bad /\ NoProc.events = <<>>
    BY DEF NoProc
  <2>2. EventsFit(NoProc)
    BY <2>1 DEF EventsFit
  <2>3. ~Live(d)
    BY <1>5 DEF Live
  <2> HIDE DEF NoProc
  <2> QED BY <1>5, <2>1, <2>2, <2>3 DEF ServerFits
<1>9. ClientFits(s, d, f.jobs)
  BY <1>1, <1>5, <1>7 DEF ClientFits
<1>10. Core(f, [P EXCEPT ![s] = NoProc])
  BY <1>5, <1>7, <1>8, <1>9, NoProcIsProcess, EmptiedCore
<1> QED BY <1>2, <1>5, <1>7, <1>10

(***************************************************************************)
(* The processes that the editor makes.                                    *)
(***************************************************************************)
(* From e with processes P to f with processes Q.                          *)
Moves(e, P, f, Q) ==
  \A t \in Sids :
    LET c == e.clients[t]
        d == f.clients[t]
    IN  /\ c.gen \in Nat /\ d.gen \in Nat /\ c.gen <= d.gen
        /\ d.gen = c.gen /\ c.state = "none" => d.state = "none"
        /\ Q[t] = IF d.state = "none" THEN NoProc
                  ELSE IF d.gen # c.gen THEN Fresh ELSE P[t]

LEMMA MovesSame ==
  ASSUME NEW e, NEW P, NEW f, Core(e, P), SameLives(e, f)
  PROVE  Moves(e, P, f, P)
<1> SUFFICES ASSUME NEW t \in Sids
             PROVE  LET c == e.clients[t]
                        d == f.clients[t]
                    IN  /\ c.gen \in Nat /\ d.gen \in Nat /\ c.gen <= d.gen
                        /\ d.gen = c.gen /\ c.state = "none" => d.state = "none"
                        /\ P[t] = IF d.state = "none" THEN NoProc
                                  ELSE IF d.gen # c.gen THEN Fresh ELSE P[t]
  BY DEF Moves
<1>1. e.clients[t] \in Client /\ ServerFits(t, e.clients[t], e.out[t], P[t], e.jobs)
  BY CoreFacts
<1>2. e.clients[t].gen \in Nat
  BY <1>1, ClientFields
<1>3. e.clients[t].state = "none" => P[t] = NoProc
  BY <1>1 DEF ServerFits
<1>4. f.clients[t].state = e.clients[t].state /\ f.clients[t].gen = e.clients[t].gen
  BY DEF SameLives
<1> QED BY <1>2, <1>3, <1>4

LEMMA MovesTrans ==
  ASSUME NEW e, NEW P, NEW f, NEW Q, NEW g, NEW R, Moves(e, P, f, Q), Moves(f, Q, g, R)
  PROVE  Moves(e, P, g, R)
<1> SUFFICES ASSUME NEW t \in Sids
             PROVE  LET c == e.clients[t]
                        d == g.clients[t]
                    IN  /\ c.gen \in Nat /\ d.gen \in Nat /\ c.gen <= d.gen
                        /\ d.gen = c.gen /\ c.state = "none" => d.state = "none"
                        /\ R[t] = IF d.state = "none" THEN NoProc
                                  ELSE IF d.gen # c.gen THEN Fresh ELSE P[t]
  BY DEF Moves
<1> DEFINE c == e.clients[t]
           d == f.clients[t]
           x == g.clients[t]
<1>1. /\ c.gen \in Nat /\ d.gen \in Nat /\ c.gen <= d.gen
      /\ d.gen = c.gen /\ c.state = "none" => d.state = "none"
      /\ Q[t] = IF d.state = "none" THEN NoProc
                ELSE IF d.gen # c.gen THEN Fresh ELSE P[t]
  BY DEF Moves
<1>2. /\ d.gen \in Nat /\ x.gen \in Nat /\ d.gen <= x.gen
      /\ x.gen = d.gen /\ d.state = "none" => x.state = "none"
      /\ R[t] = IF x.state = "none" THEN NoProc
                ELSE IF x.gen # d.gen THEN Fresh ELSE Q[t]
  BY DEF Moves
<1> HIDE DEF c, d, x
<1>3. /\ c.gen \in Nat /\ x.gen \in Nat /\ c.gen <= x.gen
      /\ x.gen = c.gen /\ c.state = "none" => x.state = "none"
  BY <1>1, <1>2
<1>4. x.gen = c.gen <=> x.gen = d.gen /\ d.gen = c.gen
  BY <1>1, <1>2
<1>5. R[t] = IF x.state = "none" THEN NoProc
             ELSE IF x.gen # c.gen THEN Fresh ELSE P[t]
  BY <1>1, <1>2, <1>4
<1> QED BY <1>3, <1>5 DEF c, x

(* One server has a new process, or none.                                  *)
LEMMA MovesOne ==
  ASSUME NEW e, NEW P, NEW f, NEW s \in Sids, NEW p, Core(e, P), f \in Editor,
         Only(e, f, s), e.clients[s].gen <= f.clients[s].gen,
         f.clients[s].gen = e.clients[s].gen /\ e.clients[s].state = "none"
           => f.clients[s].state = "none",
         p = IF f.clients[s].state = "none" THEN NoProc
             ELSE IF f.clients[s].gen # e.clients[s].gen THEN Fresh ELSE P[s]
  PROVE  Moves(e, P, f, [P EXCEPT ![s] = p])
<1> DEFINE Q == [P EXCEPT ![s] = p]
<1>1. P \in [Sids -> Process]
  BY CoreFacts
<1>2. Q[s] = p /\ \A t \in Sids \ {s} : Q[t] = P[t]
  BY <1>1
<1> HIDE DEF Q
<1> SUFFICES ASSUME NEW t \in Sids
             PROVE  LET c == e.clients[t]
                        d == f.clients[t]
                    IN  /\ c.gen \in Nat /\ d.gen \in Nat /\ c.gen <= d.gen
                        /\ d.gen = c.gen /\ c.state = "none" => d.state = "none"
                        /\ Q[t] = IF d.state = "none" THEN NoProc
                                  ELSE IF d.gen # c.gen THEN Fresh ELSE P[t]
  BY DEF Moves, Q
<1>3. /\ e.clients[t] \in Client /\ f.clients[t] \in Client
      /\ ServerFits(t, e.clients[t], e.out[t], P[t], e.jobs)
  BY CoreFacts, EditorFields
<1>4. e.clients[t].gen \in Nat /\ f.clients[t].gen \in Nat
  BY <1>3, ClientFields
<1>5. e.clients[t].state = "none" => P[t] = NoProc
  BY <1>3 DEF ServerFits
<1>6. CASE t = s
  BY <1>2, <1>4, <1>6
<1>7. CASE t # s
  <2>1. f.clients[t] = e.clients[t] /\ Q[t] = P[t]
    BY <1>2, <1>7 DEF Only
  <2> QED BY <1>4, <1>5, <2>1
<1> QED BY <1>6, <1>7

(***************************************************************************)
(* The attachment.                                                         *)
(***************************************************************************)
(* No server of a first generation holds a text.                           *)
Bare(e) ==
  \A s \in Sids : First(e.clients[s]) => \A u \in Uris : e.clients[s].docs[u] = 0

(* The first half of attach_buffer.                                        *)
LEMMA ReleasedCore ==
  ASSUME NEW e, NEW P, Core(e, P), DocsFit(e), ~HasLive(e)
  PROVE  \E Q : /\ Core(Released(e), Q) /\ Moves(e, P, Released(e), Q)
                /\ Bare(Released(e)) /\ Released(e).text = e.text
                /\ Released(e).uri = e.uri
<1> DEFINE s == e.rec.sid
           c == e.clients[s]
           f == Forget(e, s)
           rec == [sid |-> NoSid, uri |-> e.uri]
           g == [f EXCEPT !.rec = rec, !.dirty = FALSE]
<1>1. e \in Editor /\ P \in [Sids -> Process]
  BY CoreFacts
<1>2. \A t \in Sids : First(e.clients[t]) => t # s
  <2>1. s \in Sids => ~Live(c)
    BY ConstantsAssumption DEF HasLive
  <2> QED BY <2>1 DEF First
<1>3. Bare(e)
  BY <1>2 DEF DocsFit, Bare
<1>4. CASE s = NoSid
  <2>1. Released(e) = e
    BY <1>4 DEF Released
  <2>2. Moves(e, P, e, P)
    BY MovesSame, SameTrans
  <2> QED BY <1>3, <2>1, <2>2
<1>5. CASE s # NoSid
  <2>1. s \in Sids /\ c \in Client /\ ~Live(c)
    BY <1>1, <1>5, EditorFields DEF HasLive
  <2>2. Released(e) = g
    BY <1>5 DEF Released
  <2>3. PICK Q : /\ Core(f, Q) /\ Moves(e, P, f, Q) /\ Only(e, f, s) /\ SameBuffer(e, f)
                 /\ ~Live(f.clients[s])
    <3>1. CASE c.state \in {"stopped", "crashed"}
      <4> DEFINE p == NoProc
                 R == [P EXCEPT ![s] = p]
      <4>1. /\ Core(f, R) /\ Only(e, f, s) /\ SameBuffer(e, f)
            /\ f.clients[s].state = "none" /\ f.clients[s].gen = c.gen
        BY <2>1, <3>1, ForgetCore
      <4> HIDE DEF f
      <4>2. f \in Editor /\ c.gen \in Nat
        BY <2>1, <4>1, CoreFacts, ClientFields
      <4>3. c.gen <= f.clients[s].gen
        BY <4>1, <4>2
      <4>4. p = IF f.clients[s].state = "none" THEN NoProc
                ELSE IF f.clients[s].gen # c.gen THEN Fresh ELSE P[s]
        BY <4>1
      <4> HIDE DEF p
      <4>5. Moves(e, P, f, R)
        BY <2>1, <4>1, <4>2, <4>3, <4>4, MovesOne
      <4>6. ~Live(f.clients[s])
        BY <4>1 DEF Live
      <4> QED BY <4>1, <4>5, <4>6
    <3>2. CASE c.state \notin {"stopped", "crashed"}
      <4>1. f = e
        BY <3>2 DEF Forget
      <4>2. Moves(e, P, e, P) /\ Only(e, e, s) /\ SameBuffer(e, e)
        BY MovesSame, SameTrans DEF Only
      <4> QED BY <2>1, <4>1, <4>2
    <3> QED BY <3>1, <3>2
  <2> HIDE DEF f
  <2>4. f \in Editor /\ e.uri \in Uris
    BY <1>1, <2>3, CoreFacts, EditorFields
  <2>5. rec \in [sid : Sids \cup {NoSid}, uri : Uris]
    BY <2>4
  <2> HIDE DEF rec
  <2>6. /\ g \in Editor /\ g.clients = f.clients /\ g.out = f.out
        /\ SameJobs(f, g) /\ g.diag = f.diag /\ g.text = f.text /\ g.uri = f.uri
    BY <2>4, <2>5 DEF Editor, SameJobs
  <2> HIDE DEF g
  <2>7. Core(g, Q) /\ SameLives(f, g)
    BY <2>3, <2>6, BufferedCore DEF Buffered
  <2>8. Moves(f, Q, g, Q)
    BY <2>3, <2>7, MovesSame
  <2>9. Moves(e, P, g, Q)
    BY <2>3, <2>8, MovesTrans
  <2>10. Bare(g)
    <3>1. \A t \in Sids \ {s} : g.clients[t] = e.clients[t]
      BY <2>3, <2>6 DEF Only
    <3>2. ~Live(g.clients[s])
      BY <2>3, <2>6
    <3> QED BY <1>3, <3>1, <3>2 DEF Bare, First
  <2>11. g.text = e.text /\ g.uri = e.uri
    BY <2>3, <2>6 DEF SameBuffer
  <2> QED BY <2>2, <2>7, <2>9, <2>10, <2>11
<1> QED BY <1>4, <1>5

(* ensure_server.                                                          *)
LEMMA EnsureCore ==
  ASSUME NEW e, NEW P, NEW s \in Candidates(e), Core(e, P), Bare(e)
  PROVE  /\ s \in Sids
         /\ \E Q : /\ Core(EnsureServer(e, s), Q) /\ Moves(e, P, EnsureServer(e, s), Q)
                   /\ Bare(EnsureServer(e, s)) /\ SameBuffer(e, EnsureServer(e, s))
                   /\ EnsureServer(e, s).clients[s].gen # 0
<1> DEFINE f == EnsureServer(e, s)
           c == e.clients[s]
<1>1. s \in Sids /\ (s \in Serving(e) \/ c.gen = 0)
  BY DEF Candidates, Serving, Free
<1>2. /\ e \in Editor /\ P \in [Sids -> Process] /\ c \in Client /\ ClientFits(s, c, e.jobs)
      /\ c.gen \in Nat
  BY <1>1, CoreFacts, ClientFields
<1>3. CASE s \in Serving(e)
  <2>1. f = e
    BY <1>3 DEF EnsureServer
  <2>2. Moves(e, P, e, P) /\ SameBuffer(e, e)
    BY MovesSame, SameTrans
  <2>3. c.gen # 0
    BY <1>2, <1>3 DEF Serving, Live, ClientFits
  <2> QED BY <1>1, <2>1, <2>2, <2>3
<1>4. CASE s \notin Serving(e)
  <2> DEFINE policy == IF "never" \in scene THEN "never" ELSE "on_crash"
             y == [c EXCEPT !.policy = policy]
             a == [e EXCEPT !.clients[s] = y]
             d == f.clients[s]
             p == Fresh
             Q == [P EXCEPT ![s] = p]
  <2>1. f = StartGeneration(a, s)
    BY <1>4 DEF EnsureServer
  <2>2. policy \in {"never", "on_crash"}
    OBVIOUS
  <2> HIDE DEF policy
  <2>3. y \in Client /\ y.gen = c.gen
    BY <1>2, <2>2 DEF Client
  <2> HIDE DEF y
  <2>4. Puts(e, a, s, y)
    BY <1>1, <1>2, <2>3, PutsOne
  <2> HIDE DEF a
  <2>5. /\ a \in Editor /\ a.clients[s] = y /\ Only(e, a, s)
        /\ SameBuffer(e, a) /\ SameJobs(e, a) /\ a.diag = e.diag
    BY <2>4 DEF Puts
  <2>6. Starts(a, f, s)
    BY <1>1, <2>1, <2>5, StartFields
  <2> HIDE DEF f
  <2>7. /\ f \in Editor /\ Only(a, f, s) /\ SameBuffer(a, f) /\ f.jobs = a.jobs
        /\ f.run = a.run \ JobsOf(a, s) /\ f.routed = a.routed \ JobsOf(a, s)
        /\ f.store = a.store /\ f.stray = a.stray /\ f.diag = a.diag /\ f.out[s] = <<>>
        /\ d.state = "starting" /\ d.gen = y.gen + 1
        /\ ~d.armed /\ ~d.term /\ d.pending = {} /\ d.dropped = {}
        /\ d.deferred = <<>> /\ d.docs = NoDocs /\ d.tomb = {}
    BY <2>5, <2>6 DEF Starts
  <2>8. JobsOf(a, s) = JobsOf(e, s)
    BY <2>5 DEF JobsOf, SameJobs
  <2>9. /\ Only(e, f, s) /\ SameBuffer(e, f) /\ f.jobs = e.jobs
        /\ f.run = e.run \ JobsOf(e, s) /\ f.routed = e.routed \ JobsOf(e, s)
        /\ f.store = e.store /\ f.stray = e.stray /\ f.diag = e.diag
        /\ d.gen = c.gen + 1
    BY <2>3, <2>5, <2>7, <2>8 DEF Only, SameBuffer, SameJobs
  <2>10. Core(f, Q)
    <3>1. d \in Client /\ d.gen # 0 /\ c.gen = 0
      BY <1>1, <1>2, <1>4, <2>7, <2>9, EditorFields
    <3>2. e.jobs \in Seq(Job) /\ \A r \in 1..Len(e.jobs) : e.jobs[r].gen \in Nat
      BY <1>2, EditorFields, JobFields
    <3>3. \A r \in 1..Len(e.jobs) : e.jobs[r].sid = s => e.jobs[r].gen <= c.gen
      BY <1>2 DEF ClientFits
    <3>4. NoJobs(s, d, f.jobs)
      BY <1>2, <2>9, <3>2, <3>3 DEF NoJobs
    <3>5. ServerFits(s, d, <<>>, Fresh, f.jobs)
      BY <2>7, <3>1, <3>4, FreshFits
    <3>6. ServerFits(s, d, f.out[s], p, f.jobs)
      BY <2>7, <3>5
    <3>7. \A r \in 1..Len(f.jobs) : f.jobs[r].sid = s => f.jobs[r].gen <= d.gen
      BY <1>2, <2>9, <3>2, <3>3
    <3>8. ClientFits(s, d, f.jobs)
      BY <2>7, <3>1, <3>7 DEF ClientFits
    <3>9. p \in Process
      BY FreshIsProcess
    <3> HIDE DEF p, d
    <3> QED BY <1>1, <2>7, <2>9, <3>1, <3>6, <3>8, <3>9, EmptiedCore DEF d
  <2>11. Moves(e, P, f, Q)
    <3>1. c.gen <= d.gen /\ d.gen # c.gen /\ d.state # "none"
      BY <1>2, <2>7, <2>9
    <3>2. p = IF d.state = "none" THEN NoProc
              ELSE IF d.gen # c.gen THEN Fresh ELSE P[s]
      BY <3>1
    <3> HIDE DEF p
    <3> QED BY <1>1, <2>7, <2>9, <3>1, <3>2, MovesOne
  <2>12. Bare(f)
    <3>1. \A t \in Sids \ {s} : f.clients[t] = e.clients[t]
      BY <2>9 DEF Only
    <3>2. \A u \in Uris : d.docs[u] = 0
      BY <2>7 DEF NoDocs
    <3> QED BY <3>1, <3>2 DEF Bare
  <2>13. d.gen # 0
    BY <1>2, <2>9
  <2>14. Core(f, Q) /\ Moves(e, P, f, Q) /\ Bare(f) /\ SameBuffer(e, f)
           /\ f.clients[s].gen # 0
    BY <2>9, <2>10, <2>11, <2>12, <2>13
  <2> HIDE DEF Q, d
  <2> QED BY <1>1, <2>14 DEF f
<1> QED BY <1>3, <1>4

(* The second half of attach_buffer: the record, and did_open.             *)
LEMMA OpenedCore ==
  ASSUME NEW e, NEW P, NEW s \in Sids, Core(e, P), Bare(e), e.clients[s].gen # 0
  PROVE  /\ Whole(Opened(e, s), P) /\ Moves(e, P, Opened(e, s), P)
         /\ Opened(e, s).text = e.text /\ Opened(e, s).rec.sid = s
         /\ First(Opened(e, s).clients[s])
              => Opened(e, s).clients[s].docs[Opened(e, s).rec.uri] = e.text
<1> DEFINE u == e.uri
           rec == [sid |-> s, uri |-> u]
           a == [e EXCEPT !.rec = rec]
           f == DidOpen(a, s, u)
           c == e.clients[s]
           d == f.clients[s]
<1>1. /\ e \in Editor /\ u \in Uris /\ c \in Client /\ c.docs \in [Uris -> Texts]
  BY CoreFacts, EditorFields, ClientFields
<1>2. rec \in [sid : Sids \cup {NoSid}, uri : Uris] /\ rec.sid = s /\ rec.uri = u
  BY <1>1
<1>3. Opened(e, s) = f
  BY DEF Opened
<1> HIDE DEF rec
<1>4. /\ a \in Editor /\ a.clients = e.clients /\ a.out = e.out /\ SameJobs(e, a)
      /\ a.diag = e.diag /\ a.rec = rec /\ a.text = e.text
  BY <1>1, <1>2 DEF Editor, SameJobs
<1> HIDE DEF a
<1>5. Core(a, P) /\ SameLives(e, a)
  BY <1>4, BufferedCore DEF Buffered
<1>6. DocsFit(a)
  BY <1>4 DEF Bare, DocsFit
<1>7. First(a.clients[s]) => a.clients[s].docs[u] = 0
  BY <1>1, <1>4 DEF Bare
<1>8. Core(f, P) /\ Wrote(a, f, s, u, a.text) /\ u \notin d.tomb
  BY <1>1, <1>5, <1>7, DidOpenCore
<1> HIDE DEF f
<1>9. DocsFit(f) /\ RecFits(f)
  BY <1>1, <1>2, <1>4, <1>6, <1>8, WroteTexts
<1>10. f.text = e.text /\ f.rec = rec /\ SameLives(a, f)
         /\ d.docs = [c.docs EXCEPT ![u] = e.text]
  BY <1>4, <1>8 DEF Wrote, SameBuffer
<1>11. SameLives(e, f)
  BY <1>5, <1>10, SameTrans
<1>12. Moves(e, P, f, P)
  BY <1>11, MovesSame
<1>13. d.docs[f.rec.uri] = e.text
  BY <1>1, <1>2, <1>10
<1> QED BY <1>2, <1>3, <1>8, <1>9, <1>10, <1>12, <1>13 DEF Whole

(* attach_buffer.                                                          *)
LEMMA AttachedWhole ==
  ASSUME NEW e, NEW P, Core(e, P), DocsFit(e), ~HasLive(e),
         NEW s \in Candidates(Released(e))
  PROVE  \E Q : /\ Whole(Attached(e, s), Q) /\ Moves(e, P, Attached(e, s), Q)
                /\ Attached(e, s).text = e.text
<1> DEFINE a == Released(e)
           b == EnsureServer(a, s)
           f == Opened(b, s)
           h == Request(f, "pull")
<1>1. PICK Q : Core(a, Q) /\ Moves(e, P, a, Q) /\ Bare(a) /\ a.text = e.text
  BY ReleasedCore
<1>2. Attached(e, s) = h
  BY DEF Attached
<1>3. s \in Candidates(a)
  OBVIOUS
<1> HIDE DEF a
<1>4. /\ s \in Sids
      /\ \E R : /\ Core(b, R) /\ Moves(a, Q, b, R) /\ Bare(b) /\ SameBuffer(a, b)
                /\ b.clients[s].gen # 0
  BY <1>1, <1>3, EnsureCore
<1>5. PICK R : /\ Core(b, R) /\ Moves(a, Q, b, R) /\ Bare(b) /\ SameBuffer(a, b)
               /\ b.clients[s].gen # 0
  BY <1>4
<1> HIDE DEF b
<1>6. /\ Whole(f, R) /\ Moves(b, R, f, R) /\ f.text = b.text /\ f.rec.sid = s
      /\ First(f.clients[s]) => f.clients[s].docs[f.rec.uri] = b.text
  BY <1>4, <1>5, OpenedCore
<1> HIDE DEF f
<1>7. /\ Core(f, R) /\ DocsFit(f) /\ RecFits(f) /\ f \in Editor
  BY <1>6, CoreFacts DEF Whole
<1>8. s # NoSid
  BY <1>4, ConstantsAssumption
<1>9. f.rec.uri \notin f.clients[s].tomb
  BY <1>6, <1>7, <1>8 DEF RecFits
<1>10. Core(h, R) /\ SameLives(f, h) /\ SameTexts(f, h)
  BY <1>6, <1>7, <1>9, RequestCore
<1> HIDE DEF h
<1>11. DocsFit(h) /\ RecFits(h)
  BY <1>7, <1>10, TextsKept
<1>12. Moves(f, R, h, R)
  BY <1>7, <1>10, MovesSame
<1>13. Moves(a, Q, f, R)
  BY <1>5, <1>6, MovesTrans
<1>14. Moves(e, P, f, R)
  BY <1>1, <1>13, MovesTrans
<1>15. Moves(e, P, h, R)
  BY <1>12, <1>14, MovesTrans
<1>16. h.text = e.text
  BY <1>1, <1>5, <1>6, <1>10 DEF SameTexts, SameBuffer
<1>17. Whole(h, R)
  BY <1>10, <1>11 DEF Whole
<1> QED BY <1>2, <1>15, <1>16, <1>17

(***************************************************************************)
(* What a server sends.                                                    *)
(***************************************************************************)
(* The client of s has changed, and none of its requests was made.         *)
LEMMA StepCore ==
  ASSUME NEW e, NEW R, NEW f \in Editor, NEW s \in Sids, Core(e, R), Only(e, f, s),
         f.jobs = e.jobs, f.run \subseteq e.run, f.run \subseteq f.routed,
         f.routed \subseteq e.routed, f.diag = e.diag, f.stray = e.stray,
         \A r \in f.routed : e.jobs[r].sid = s => r \in f.clients[s].pending,
         \A r \in f.run : e.jobs[r].sid = s => Live(f.clients[s]),
         f.clients[s].gen = e.clients[s].gen, f.clients[s].tomb = e.clients[s].tomb,
         ServerFits(s, f.clients[s], f.out[s], R[s], e.jobs),
         ClientFits(s, f.clients[s], e.jobs), f.store \subseteq e.store \/ StoreFits(f)
  PROVE  Core(f, R)
<1>1. /\ e \in Editor /\ R \in [Sids -> Process]
      /\ JobsFit(e) /\ StoreFits(e) /\ DiagFits(e) /\ ~e.stray
  BY CoreFacts
<1>2. \A r \in 1..Len(e.jobs) : e.jobs[r].sid \in Sids
  BY <1>1, JobFields
<1>3. \A t \in Sids : f.clients[t].gen = e.clients[t].gen /\ f.clients[t].tomb = e.clients[t].tomb
  BY DEF Only
<1>4. \A t \in Sids \ {s} : f.clients[t] = e.clients[t]
  BY DEF Only
<1>5. JobsFit(f)
  <2>1. f.routed \subseteq 1..Len(f.jobs)
    BY <1>1 DEF JobsFit
  <2>2. \A r \in f.run : Live(f.clients[f.jobs[r].sid])
    <3> TAKE r \in f.run
    <3>1. e.jobs[r].sid \in Sids /\ Live(e.clients[e.jobs[r].sid])
      BY <1>1, <1>2 DEF JobsFit
    <3> QED BY <1>4, <3>1
  <2>3. \A r \in f.routed : r \in f.clients[f.jobs[r].sid].pending
    <3> TAKE r \in f.routed
    <3>1. e.jobs[r].sid \in Sids /\ r \in e.clients[e.jobs[r].sid].pending
      BY <1>1, <1>2 DEF JobsFit
    <3> QED BY <1>4, <3>1
  <2>4. \A r \in f.routed : f.jobs[r].uri \notin f.clients[f.jobs[r].sid].tomb
    <3> TAKE r \in f.routed
    <3>1. e.jobs[r].sid \in Sids /\ e.jobs[r].uri \notin e.clients[e.jobs[r].sid].tomb
      BY <1>1, <1>2 DEF JobsFit
    <3> QED BY <1>3, <3>1
  <2> QED BY <2>1, <2>2, <2>3, <2>4 DEF JobsFit
<1>6. StoreFits(f)
  <2>1. \A x \in e.store : x.sid \in Sids
    BY <1>1, EditorFields DEF Stored
  <2> QED BY <1>1, <1>3, <2>1 DEF StoreFits
<1>7. DiagFits(f)
  <2>1. Marked(e, f, s)
    BY DEF Marked
  <2> QED BY <1>1, <1>3, <2>1, DiagKept
<1> QED BY <1>1, <1>5, <1>6, <1>7, CoreOf

(* Texts that are held still.                                              *)
LEMMA TextsFollow ==
  ASSUME NEW e \in Editor, NEW f, DocsFit(e), RecFits(e), SameBuffer(e, f),
         \A t \in Sids : /\ f.clients[t].gen = e.clients[t].gen
                         /\ f.clients[t].tomb \subseteq e.clients[t].tomb
                         /\ First(f.clients[t]) =>
                              First(e.clients[t]) /\ f.clients[t].docs = e.clients[t].docs
  PROVE  DocsFit(f) /\ RecFits(f)
<1>1. f.rec = e.rec /\ f.dirty = e.dirty /\ f.text = e.text
  BY DEF SameBuffer
<1>2. e.rec.sid # NoSid => e.rec.sid \in Sids
  BY EditorFields
<1>3. DocsFit(f)
  BY <1>1 DEF DocsFit
<1>4. RecFits(f)
  <2>1. SUFFICES ASSUME e.rec.sid # NoSid
                 PROVE  LET d == f.clients[e.rec.sid] IN
                        /\ d.gen # 0 /\ e.rec.uri \notin d.tomb
                        /\ First(d) => d.docs[e.rec.uri] # 0
                                       /\ (~e.dirty => d.docs[e.rec.uri] = e.text)
    BY <1>1 DEF RecFits
  <2> DEFINE c == e.clients[e.rec.sid]
  <2>2. /\ c.gen # 0 /\ e.rec.uri \notin c.tomb
        /\ First(c) => c.docs[e.rec.uri] # 0 /\ (~e.dirty => c.docs[e.rec.uri] = e.text)
    BY <2>1 DEF RecFits
  <2> QED BY <1>2, <2>1, <2>2
<1> QED BY <1>3, <1>4

(* What a step of the manager leaves alone.                                *)
Listed(e, f) ==
  /\ SameBuffer(e, f)
  /\ \A t \in Sids : /\ f.clients[t].gen = e.clients[t].gen
                     /\ f.clients[t].state = "none" <=> e.clients[t].state = "none"

(* What is to be shown of an event of s that was handled, when r is left   *)
(* to handle.                                                              *)
Handles(e, f, s, R) ==
  /\ Whole(f, R) /\ Listed(e, f) /\ Only(e, f, s)
  /\ Live(f.clients[s]) \/ R[s].events = <<>>

(* on_started.                                                             *)
LEMMA OnStartedHandles ==
  ASSUME NEW e, NEW R, NEW s \in Sids, NEW x, Whole(e, R), Live(e.clients[s]),
         Heard(s, e.clients[s], e.out[s], R[s], x, e.jobs), x.ev = "started"
  PROVE  Handles(e, OnStarted(e, s), s, R)
<1> DEFINE c == e.clients[s]
           y == [c EXCEPT !.state = "initializing"]
           a == [e EXCEPT !.clients[s] = y]
           pending == c.pending \cup {Init0}
           d == [y EXCEPT !.pending = pending]
           b == [a EXCEPT !.clients[s] = d]
           m == [msg |-> "initialize"]
           f == Send(b, s, m)
<1>1. /\ Core(e, R) /\ DocsFit(e) /\ RecFits(e) /\ e \in Editor
      /\ R[s] \in Process /\ c \in Client /\ e.out[s] \in Seq(Message)
      /\ ServerFits(s, c, e.out[s], R[s], e.jobs) /\ ClientFits(s, c, e.jobs)
      /\ e.jobs \in Seq(Job) /\ JobsFit(e)
  BY CoreFacts DEF Whole
<1>2. pending \subseteq Int
  BY <1>1, ClientFields DEF Init0
<1>3. y \in Client
  BY <1>1 DEF Client
<1>4. Puts(e, a, s, y) /\ a.clients[s] = y /\ a \in Editor
  BY <1>1, <1>3, PutsOne DEF Puts
<1>5. OnStarted(e, s) = f
  <2>1. b = [a EXCEPT !.clients[s].pending = e.clients[s].pending \cup {Init0}]
    BY <1>4
  <2> QED BY <2>1 DEF OnStarted
<1> HIDE DEF a, pending
<1>6. /\ d \in Client /\ d.state = "initializing" /\ d.gen = c.gen /\ d.term = c.term
      /\ d.deferred = c.deferred /\ d.docs = c.docs /\ d.tomb = c.tomb
      /\ d.pending = pending /\ d.dropped = c.dropped /\ d.policy = c.policy
      /\ d.armed = c.armed
  BY <1>1, <1>2, <1>3 DEF Client
<1> HIDE DEF y, d
<1>7. Puts(e, b, s, d)
  BY <1>4, <1>6, PutsOne, PutsTwice
<1> HIDE DEF b
<1>8. /\ b \in Editor /\ b.clients[s] = d /\ b.out = e.out /\ Only(e, b, s)
      /\ SameBuffer(e, b) /\ SameJobs(e, b) /\ b.diag = e.diag
  BY <1>7 DEF Puts
<1>9. m \in Message /\ m.msg = "initialize"
  BY DEF Message
<1> HIDE DEF m
<1>10. /\ f \in Editor /\ f.out[s] = Append(b.out[s], m) /\ f.clients = b.clients
       /\ Only(b, f, s) /\ SameBuffer(b, f) /\ SameJobs(b, f) /\ f.diag = b.diag
  BY <1>8, <1>9, SendFields
<1> HIDE DEF f
<1>11. /\ Only(e, f, s) /\ SameBuffer(e, f) /\ f.diag = e.diag /\ f.clients[s] = d
       /\ f.jobs = e.jobs /\ f.run = e.run /\ f.routed = e.routed
       /\ f.store = e.store /\ f.stray = e.stray /\ f.out[s] = Append(e.out[s], m)
  BY <1>8, <1>10 DEF Only, SameBuffer, SameJobs
<1>12. ServerFits(s, d, Append(e.out[s], m), R[s], e.jobs)
  BY <1>1, <1>6, <1>9, StartedFits DEF pending
<1>13. ClientFits(s, d, e.jobs)
  <2>1. c.gen # 0
    BY <1>1 DEF ClientFits, Live
  <2> QED BY <1>1, <1>6, <2>1 DEF ClientFits, Live, pending
<1>14. Core(f, R)
  <2>1. \A r \in f.routed : e.jobs[r].sid = s => r \in d.pending
    BY <1>1, <1>6, <1>11 DEF JobsFit, pending
  <2>2. Live(d)
    BY <1>6 DEF Live
  <2>3. f.run \subseteq f.routed
    BY <1>1, <1>11 DEF JobsFit
  <2> QED BY <1>1, <1>6, <1>10, <1>11, <1>12, <1>13, <2>1, <2>2, <2>3, StepCore
<1>15. DocsFit(f) /\ RecFits(f)
  <2>1. \A t \in Sids : /\ f.clients[t].gen = e.clients[t].gen
                        /\ f.clients[t].tomb \subseteq e.clients[t].tomb
                        /\ First(f.clients[t]) =>
                             First(e.clients[t]) /\ f.clients[t].docs = e.clients[t].docs
    BY <1>6, <1>11 DEF Only, First
  <2> QED BY <1>1, <1>11, <2>1, TextsFollow
<1>16. Listed(e, f)
  BY <1>6, <1>11 DEF Listed, Only, Live
<1>17. Live(f.clients[s])
  BY <1>6, <1>11 DEF Live
<1> QED BY <1>5, <1>11, <1>14, <1>15, <1>16, <1>17 DEF Handles, Whole

LEMMA HandlesOf ==
  ASSUME NEW e, NEW R, NEW f, NEW s \in Sids, Whole(e, R), Live(e.clients[s]),
         Core(f, R), Only(e, f, s), SameBuffer(e, f),
         f.clients[s].gen = e.clients[s].gen, f.clients[s].tomb = e.clients[s].tomb,
         Live(f.clients[s]) => f.clients[s].docs = e.clients[s].docs,
         f.clients[s].state # "none", Live(f.clients[s]) \/ R[s].events = <<>>
  PROVE  Handles(e, f, s, R)
<1>1. Core(e, R) /\ DocsFit(e) /\ RecFits(e) /\ e \in Editor
  BY CoreFacts DEF Whole
<1>2. \A t \in Sids : /\ f.clients[t].gen = e.clients[t].gen
                      /\ f.clients[t].tomb \subseteq e.clients[t].tomb
                      /\ First(f.clients[t]) =>
                           First(e.clients[t]) /\ f.clients[t].docs = e.clients[t].docs
  BY DEF Only, First
<1>3. DocsFit(f) /\ RecFits(f)
  BY <1>1, <1>2, TextsFollow
<1>4. Listed(e, f)
  BY <1>2 DEF Listed, Only, Live
<1> QED BY <1>3, <1>4 DEF Handles, Whole

(* The response to initialize.                                             *)
LEMMA OnInitializedHandles ==
  ASSUME NEW e, NEW R, NEW s \in Sids, NEW x, Whole(e, R), Live(e.clients[s]),
         Heard(s, e.clients[s], e.out[s], R[s], x, e.jobs), x.ev = "response",
         x.id = Init0, x.id \in e.clients[s].pending
  PROVE  Handles(e, OnInitialized([e EXCEPT !.clients[s].pending = @ \ {x.id}], s), s, R)
<1> DEFINE c == e.clients[s]
           pending == c.pending \ {x.id}
           y == [c EXCEPT !.pending = pending]
           a == [e EXCEPT !.clients[s] = y]
           z == [y EXCEPT !.state = "initialized"]
           b == [a EXCEPT !.clients[s] = z]
           held == <<>>
           v == [z EXCEPT !.deferred = held]
           g == [b EXCEPT !.clients[s] = v]
           d == [v EXCEPT !.told = TRUE]
           h == [g EXCEPT !.clients[s] = d]
           m == [msg |-> "initialized"]
           i == Send(h, s, m)
           k == i.out[s] \o a.clients[s].deferred
           f == [i EXCEPT !.out[s] = k]
<1>1. /\ Core(e, R) /\ DocsFit(e) /\ RecFits(e) /\ e \in Editor
      /\ R[s] \in Process /\ c \in Client /\ e.out[s] \in Seq(Message)
      /\ ServerFits(s, c, e.out[s], R[s], e.jobs) /\ ClientFits(s, c, e.jobs)
      /\ e.jobs \in Seq(Job) /\ JobsFit(e)
  BY CoreFacts DEF Whole
<1>2. pending \subseteq Int /\ c.deferred \in Seq(Note) /\ c.deferred \in Seq(Message)
  <2>1. Note \subseteq Message
    BY DEF Message
  <2>2. c.deferred \in Seq(Note)
    BY <1>1, ClientFields
  <2>3. c.deferred \in Seq(Message)
    BY <2>1, <2>2
  <2> QED BY <1>1, <2>2, <2>3, ClientFields
<1>3. OnInitialized([e EXCEPT !.clients[s].pending = @ \ {x.id}], s) = f
  <2>1. a = [e EXCEPT !.clients[s].pending = @ \ {x.id}]
    OBVIOUS
  <2> HIDE DEF pending
  <2>2. Puts(e, a, s, y) /\ a.clients[s] = y /\ a \in Editor
    <3>1. y \in Client
      BY <1>1, <1>2 DEF Client
    <3> HIDE DEF y
    <3> QED BY <1>1, <3>1, PutsOne DEF Puts
  <2> HIDE DEF a, y
  <2>3. y \in Client
    BY <2>2, EditorFields
  <2>4. b = [a EXCEPT !.clients[s].state = "initialized"]
    BY <2>2
  <2>5. b.clients[s] = z
    BY <2>2, EditorFields
  <2> HIDE DEF b, z
  <2>6. g = [b EXCEPT !.clients[s].deferred = <<>>]
    BY <2>5
  <2>7. g.clients[s] = v
    <3>1. b.clients = [a.clients EXCEPT ![s] = z]
      BY <2>2 DEF b, Editor
    <3>2. a.clients \in [Sids -> Client]
      BY <2>2, EditorFields
    <3>3. "clients" \in DOMAIN b
      BY <2>2 DEF b, Editor
    <3> QED BY <3>1, <3>2, <3>3
  <2> HIDE DEF g, v
  <2>8. h = [g EXCEPT !.clients[s].told = TRUE]
    BY <2>7
  <2>9. h = [a EXCEPT !.clients[s].state = "initialized", !.clients[s].deferred = <<>>,
                      !.clients[s].told = TRUE]
    BY <2>4, <2>6, <2>8
  <2> HIDE DEF h
  <2> QED BY <2>1, <2>9 DEF OnInitialized
<1>4. held \in Seq(Note)
  OBVIOUS
<1> HIDE DEF pending, held
<1>5. /\ y \in Client /\ y.state = c.state /\ y.gen = c.gen /\ y.term = c.term
      /\ y.deferred = c.deferred /\ y.docs = c.docs /\ y.tomb = c.tomb
      /\ y.pending = pending /\ y.dropped = c.dropped /\ y.armed = c.armed
      /\ y.policy = c.policy
  BY <1>1, <1>2 DEF Client
<1> HIDE DEF y
<1>6. /\ z \in Client /\ z.state = "initialized" /\ z.gen = c.gen /\ z.term = c.term
      /\ z.deferred = c.deferred /\ z.docs = c.docs /\ z.tomb = c.tomb
      /\ z.pending = pending /\ z.dropped = c.dropped /\ z.armed = c.armed
      /\ z.policy = c.policy
  BY <1>5 DEF Client
<1> HIDE DEF z
<1>7. /\ v \in Client /\ v.state = "initialized" /\ v.gen = c.gen /\ v.term = c.term
      /\ v.docs = c.docs /\ v.tomb = c.tomb
      /\ v.pending = pending /\ v.dropped = c.dropped /\ v.armed = c.armed
      /\ v.policy = c.policy
  BY <1>4, <1>6 DEF Client
<1> HIDE DEF v
<1>8. /\ d \in Client /\ d.state = "initialized" /\ d.gen = c.gen /\ d.term = c.term
      /\ d.docs = c.docs /\ d.tomb = c.tomb
      /\ d.pending = pending /\ d.dropped = c.dropped /\ d.armed = c.armed
      /\ d.policy = c.policy
  BY <1>7 DEF Client
<1> HIDE DEF d
<1>9. Puts(e, a, s, y) /\ a \in Editor /\ a.clients[s] = y
  BY <1>1, <1>5, PutsOne DEF Puts
<1> HIDE DEF a
<1>10. Puts(e, b, s, z) /\ b \in Editor
  <2>1. Puts(a, b, s, z)
    BY <1>6, <1>9, PutsOne
  <2> HIDE DEF b
  <2> QED BY <1>9, <2>1, PutsTwice DEF Puts
<1> HIDE DEF b
<1>11. Puts(e, g, s, v) /\ g \in Editor
  <2>1. Puts(b, g, s, v)
    BY <1>7, <1>10, PutsOne
  <2> HIDE DEF g
  <2> QED BY <1>10, <2>1, PutsTwice DEF Puts
<1> HIDE DEF g
<1>12. Puts(e, h, s, d)
  <2>1. Puts(g, h, s, d)
    BY <1>8, <1>11, PutsOne
  <2> HIDE DEF h
  <2> QED BY <1>11, <2>1, PutsTwice
<1> HIDE DEF h
<1>13. /\ h \in Editor /\ h.clients[s] = d /\ h.out = e.out /\ Only(e, h, s)
       /\ SameBuffer(e, h) /\ SameJobs(e, h) /\ h.diag = e.diag
  BY <1>12 DEF Puts
<1>14. m \in Message /\ m.msg = "initialized"
  BY DEF Message
<1> HIDE DEF m
<1>15. /\ i \in Editor /\ i.out[s] = Append(h.out[s], m) /\ i.clients = h.clients
       /\ Only(h, i, s) /\ SameBuffer(h, i) /\ SameJobs(h, i) /\ i.diag = h.diag
  BY <1>13, <1>14, SendFields
<1> HIDE DEF i
<1>16. k = Append(e.out[s], m) \o c.deferred /\ k \in Seq(Message)
  <2>1. k = Append(e.out[s], m) \o c.deferred
    BY <1>5, <1>9, <1>13, <1>15
  <2>2. Append(e.out[s], m) \in Seq(Message)
    BY <1>1, <1>14
  <2>3. Append(e.out[s], m) \o c.deferred \in Seq(Message)
    BY <1>2, <2>2, ConcatProperties
  <2> QED BY <2>1, <2>3
<1> HIDE DEF k
<1>17. /\ f \in Editor /\ f.out[s] = k /\ f.clients = i.clients /\ Only(i, f, s)
       /\ SameBuffer(i, f) /\ SameJobs(i, f) /\ f.diag = i.diag
  <2>1. i \in Editor /\ k \in Seq(Message)
    BY <1>15, <1>16
  <2> QED BY <2>1, WithOut
<1> HIDE DEF f
<1>18. /\ Only(e, f, s) /\ SameBuffer(e, f) /\ f.diag = e.diag /\ f.clients[s] = d
       /\ f.jobs = e.jobs /\ f.run = e.run /\ f.routed = e.routed
       /\ f.store = e.store /\ f.stray = e.stray /\ f.out[s] = k
  BY <1>13, <1>15, <1>17 DEF Only, SameBuffer, SameJobs
<1>19. ServerFits(s, d, k, R[s], e.jobs)
  <2>1. d.pending = c.pending \ {Init0}
    BY <1>8 DEF pending
  <2>2. ServerFits(s, d, Append(e.out[s], m) \o c.deferred, R[s], e.jobs)
    BY <1>1, <1>8, <1>14, <2>1, InitializedFits
  <2> QED BY <1>16, <2>2
<1>20. ClientFits(s, d, e.jobs)
  <2>1. c.gen # 0
    BY <1>1 DEF ClientFits, Live
  <2> QED BY <1>1, <1>8, <2>1 DEF ClientFits, Live, pending
<1>21. Live(d)
  BY <1>8 DEF Live
<1>22. Core(f, R)
  <2>1. \A r \in f.routed : e.jobs[r].sid = s => r \in d.pending
    <3>1. \A r \in e.routed : r \in 1..Len(e.jobs) /\ (e.jobs[r].sid = s => r \in c.pending)
      BY <1>1 DEF JobsFit
    <3> QED BY <1>8, <1>18, <3>1 DEF pending, Init0
  <2>2. f.run \subseteq f.routed
    BY <1>1, <1>18 DEF JobsFit
  <2> QED BY <1>1, <1>8, <1>17, <1>18, <1>19, <1>20, <1>21, <2>1, <2>2, StepCore
<1>23. Handles(e, f, s, R)
  BY <1>8, <1>18, <1>21, <1>22, HandlesOf
<1> QED BY <1>3, <1>23

(* The response to a request that was given up.                            *)
LEMMA DroppedHandles ==
  ASSUME NEW e, NEW R, NEW s \in Sids, NEW x, Whole(e, R), Live(e.clients[s]),
         Heard(s, e.clients[s], e.out[s], R[s], x, e.jobs), x.ev = "response",
         x.id \in e.clients[s].dropped
  PROVE  Handles(e, [e EXCEPT !.clients[s].dropped = @ \ {x.id}], s, R)
<1> DEFINE c == e.clients[s]
           dropped == c.dropped \ {x.id}
           d == [c EXCEPT !.dropped = dropped]
           f == [e EXCEPT !.clients[s] = d]
<1>1. /\ Core(e, R) /\ e \in Editor /\ R[s] \in Process /\ c \in Client
      /\ e.out[s] \in Seq(Message)
      /\ ServerFits(s, c, e.out[s], R[s], e.jobs) /\ ClientFits(s, c, e.jobs)
      /\ e.jobs \in Seq(Job) /\ JobsFit(e)
  BY CoreFacts DEF Whole
<1>2. dropped \subseteq Int
  BY <1>1, ClientFields
<1>3. f = [e EXCEPT !.clients[s].dropped = @ \ {x.id}]
  OBVIOUS
<1> HIDE DEF dropped
<1>4. /\ d \in Client /\ d.state = c.state /\ d.gen = c.gen /\ d.term = c.term
      /\ d.deferred = c.deferred /\ d.docs = c.docs /\ d.tomb = c.tomb
      /\ d.pending = c.pending /\ d.dropped = dropped /\ d.armed = c.armed
      /\ d.policy = c.policy
  BY <1>1, <1>2 DEF Client
<1> HIDE DEF d
<1>5. Puts(e, f, s, d)
  BY <1>1, <1>4, PutsOne
<1> HIDE DEF f
<1>6. /\ f \in Editor /\ f.clients[s] = d /\ f.out = e.out /\ Only(e, f, s)
      /\ SameBuffer(e, f) /\ f.diag = e.diag
      /\ f.jobs = e.jobs /\ f.run = e.run /\ f.routed = e.routed
      /\ f.store = e.store /\ f.stray = e.stray
  BY <1>5 DEF Puts, SameJobs
<1>7. x.id \notin c.pending /\ x.id # Init0
  BY <1>1 DEF ClientFits
<1>8. ServerFits(s, d, e.out[s], R[s], e.jobs)
  <2>1. d.pending = c.pending \ {x.id} /\ d.dropped = c.dropped \ {x.id}
    BY <1>4, <1>7 DEF dropped
  <2> QED BY <1>1, <1>4, <1>7, <2>1, AnsweredFits
<1>9. ClientFits(s, d, e.jobs)
  BY <1>1, <1>4 DEF ClientFits, dropped
<1>10. Live(d)
  BY <1>4 DEF Live
<1>11. Core(f, R)
  <2>1. \A r \in f.routed : e.jobs[r].sid = s => r \in d.pending
    BY <1>1, <1>4, <1>6 DEF JobsFit
  <2>2. f.run \subseteq f.routed
    BY <1>1, <1>6 DEF JobsFit
  <2> QED BY <1>1, <1>4, <1>6, <1>8, <1>9, <1>10, <2>1, <2>2, StepCore
<1>12. Handles(e, f, s, R)
  <2>1. d.state # "none"
    BY <1>10 DEF Live
  <2> QED BY <1>4, <1>6, <1>10, <1>11, <2>1, HandlesOf
<1> QED BY <1>3, <1>12

(* The response to shutdown.                                               *)
LEMMA ShutHandles ==
  ASSUME NEW e, NEW R, NEW s \in Sids, NEW x, Whole(e, R), Live(e.clients[s]),
         Heard(s, e.clients[s], e.out[s], R[s], x, e.jobs), x.ev = "response",
         x.id = Shut, x.id \in e.clients[s].pending
  PROVE  Handles(e, [Send([e EXCEPT !.clients[s].pending = @ \ {x.id}], s, [msg |-> "exit"])
                       EXCEPT !.clients[s].state = "shutdown"], s, R)
<1> DEFINE c == e.clients[s]
           pending == c.pending \ {x.id}
           y == [c EXCEPT !.pending = pending]
           a == [e EXCEPT !.clients[s] = y]
           m == [msg |-> "exit"]
           g == Send(a, s, m)
           d == [g.clients[s] EXCEPT !.state = "shutdown"]
           f == [g EXCEPT !.clients[s] = d]
<1>1. /\ Core(e, R) /\ e \in Editor /\ R[s] \in Process /\ c \in Client
      /\ e.out[s] \in Seq(Message)
      /\ ServerFits(s, c, e.out[s], R[s], e.jobs) /\ ClientFits(s, c, e.jobs)
      /\ e.jobs \in Seq(Job) /\ JobsFit(e)
  BY CoreFacts DEF Whole
<1>2. pending \subseteq Int
  BY <1>1, ClientFields
<1>3. f = [Send([e EXCEPT !.clients[s].pending = @ \ {x.id}], s, [msg |-> "exit"])
             EXCEPT !.clients[s].state = "shutdown"]
  OBVIOUS
<1> HIDE DEF pending
<1>4. /\ y \in Client /\ y.state = c.state /\ y.gen = c.gen /\ y.term = c.term
      /\ y.deferred = c.deferred /\ y.docs = c.docs /\ y.tomb = c.tomb
      /\ y.pending = pending /\ y.dropped = c.dropped /\ y.armed = c.armed
      /\ y.policy = c.policy
  BY <1>1, <1>2 DEF Client
<1> HIDE DEF y
<1>5. Puts(e, a, s, y)
  BY <1>1, <1>4, PutsOne
<1> HIDE DEF a
<1>6. /\ a \in Editor /\ a.clients[s] = y /\ a.out = e.out /\ Only(e, a, s)
      /\ SameBuffer(e, a) /\ SameJobs(e, a) /\ a.diag = e.diag
  BY <1>5 DEF Puts
<1>7. m \in Message /\ m.msg = "exit"
  BY DEF Message
<1> HIDE DEF m
<1>8. /\ g \in Editor /\ g.out[s] = Append(a.out[s], m) /\ g.clients = a.clients
      /\ Only(a, g, s) /\ SameBuffer(a, g) /\ SameJobs(a, g) /\ g.diag = a.diag
  BY <1>6, <1>7, SendFields
<1> HIDE DEF g
<1>9. c.state = "shutdown"
  BY <1>1 DEF ServerFits, HandshakeFits
<1>10. /\ d \in Client /\ d.state = c.state /\ d.gen = c.gen /\ d.term = c.term
       /\ d.deferred = c.deferred /\ d.docs = c.docs /\ d.tomb = c.tomb
       /\ d.pending = pending /\ d.dropped = c.dropped /\ d.armed = c.armed
       /\ d.policy = c.policy
  <2>1. d = [y EXCEPT !.state = "shutdown"]
    BY <1>6, <1>8
  <2> HIDE DEF d
  <2> QED BY <1>4, <1>9, <2>1 DEF Client
<1> HIDE DEF d
<1>11. Puts(g, f, s, d)
  BY <1>8, <1>10, PutsOne
<1> HIDE DEF f
<1>12. /\ f \in Editor /\ f.clients[s] = d /\ f.out = g.out /\ Only(g, f, s)
       /\ SameBuffer(g, f) /\ SameJobs(g, f) /\ f.diag = g.diag
  BY <1>11 DEF Puts
<1>13. /\ Only(e, f, s) /\ SameBuffer(e, f) /\ f.diag = e.diag /\ f.clients[s] = d
       /\ f.jobs = e.jobs /\ f.run = e.run /\ f.routed = e.routed
       /\ f.store = e.store /\ f.stray = e.stray /\ f.out[s] = Append(e.out[s], m)
  BY <1>6, <1>8, <1>12 DEF Only, SameBuffer, SameJobs
<1>14. x.id \notin c.dropped /\ x.id # Init0
  BY <1>1 DEF ClientFits, Init0, Shut
<1>15. ServerFits(s, d, Append(e.out[s], m), R[s], e.jobs)
  <2>1. d.pending = c.pending \ {x.id} /\ d.dropped = c.dropped \ {x.id}
    BY <1>10, <1>14 DEF pending
  <2>2. ServerFits(s, d, e.out[s], R[s], e.jobs)
    BY <1>1, <1>10, <1>14, <2>1, AnsweredFits
  <2> QED BY <1>1, <1>7, <1>9, <1>10, <2>2, ExitFits
<1>16. ClientFits(s, d, e.jobs)
  BY <1>1, <1>10 DEF ClientFits, pending
<1>17. Live(d)
  BY <1>10 DEF Live
<1>18. Core(f, R)
  <2>1. \A r \in f.routed : e.jobs[r].sid = s => r \in d.pending
    <3>1. \A r \in e.routed : r \in 1..Len(e.jobs) /\ (e.jobs[r].sid = s => r \in c.pending)
      BY <1>1 DEF JobsFit
    <3> QED BY <1>10, <1>13, <3>1 DEF pending, Shut
  <2>2. f.run \subseteq f.routed
    BY <1>1, <1>13 DEF JobsFit
  <2> QED BY <1>1, <1>10, <1>12, <1>13, <1>15, <1>16, <1>17, <2>1, <2>2, StepCore
<1>19. Handles(e, f, s, R)
  <2>1. d.state # "none"
    BY <1>17 DEF Live
  <2> QED BY <1>10, <1>13, <1>17, <1>18, <2>1, HandlesOf
<1> QED BY <1>3, <1>19

(* The answers, or the requests awaited, are others.                       *)
LEMMA WithStore ==
  ASSUME NEW e \in Editor, NEW st \in SUBSET Stored
  PROVE  LET f == [e EXCEPT !.store = st] IN
         /\ f \in Editor /\ f.clients = e.clients /\ f.out = e.out /\ f.jobs = e.jobs
         /\ f.run = e.run /\ f.routed = e.routed /\ f.store = st /\ f.stray = e.stray
         /\ f.diag = e.diag /\ SameBuffer(e, f)
BY DEF Editor, SameBuffer

LEMMA WithRouted ==
  ASSUME NEW e \in Editor, NEW rs \in SUBSET Nat
  PROVE  LET f == [e EXCEPT !.routed = rs] IN
         /\ f \in Editor /\ f.clients = e.clients /\ f.out = e.out /\ f.jobs = e.jobs
         /\ f.run = e.run /\ f.routed = rs /\ f.store = e.store /\ f.stray = e.stray
         /\ f.diag = e.diag /\ SameBuffer(e, f)
BY DEF Editor, SameBuffer

(* What an event says.                                                     *)
LEMMA EventFields ==
  ASSUME NEW x \in Event
  PROVE  /\ x.ev = "response" => x.id \in Int /\ x.text \in Nat /\ x.ok \in BOOLEAN
         /\ x.ev = "publish" => x.uri \in Uris
         /\ x.ev \in {"started", "response", "publish", "exit"}
BY DEF Event

(* A request is settled, the answers being st or what they were.           *)
Answers(e, f, s, id) ==
  /\ f \in Editor /\ Only(e, f, s) /\ SameBuffer(e, f) /\ f.out = e.out
  /\ f.jobs = e.jobs /\ f.run = e.run \ {id} /\ f.routed = e.routed \ {id}
  /\ f.stray = e.stray /\ f.diag = e.diag
  /\ f.clients[s].pending = e.clients[s].pending \ {id}
  /\ SameRest(e.clients[s], f.clients[s])
  /\ LET c == e.clients[s]
         d == f.clients[s]
     IN  d.state = c.state /\ d.gen = c.gen /\ d.term = c.term /\ d.dropped = c.dropped
         /\ d.deferred = c.deferred

Unpended(e, s, id) == [e EXCEPT !.clients[s].pending = @ \ {id}]
Restored(a, st) == [a EXCEPT !.store = st]
Unrouted(g, id) == Settle([g EXCEPT !.routed = @ \ {id}], {id})

LEMMA AnsweredFields ==
  ASSUME NEW e \in Editor, NEW s \in Sids, NEW id, NEW st \in SUBSET Stored
  PROVE  \A g : g = Unpended(e, s, id) \/ g = Restored(Unpended(e, s, id), st) =>
         /\ Answers(e, Unrouted(g, id), s, id)
         /\ Unrouted(g, id).store = g.store
         /\ g = Unpended(e, s, id) => g.store = e.store
         /\ g = Restored(Unpended(e, s, id), st) => g.store = st
<1> SUFFICES ASSUME NEW g, g = Unpended(e, s, id) \/ g = Restored(Unpended(e, s, id), st)
             PROVE  /\ Answers(e, Unrouted(g, id), s, id)
                    /\ Unrouted(g, id).store = g.store
                    /\ g = Unpended(e, s, id) => g.store = e.store
                    /\ g = Restored(Unpended(e, s, id), st) => g.store = st
  OBVIOUS
<1> DEFINE c == e.clients[s]
           pending == c.pending \ {id}
           d == [c EXCEPT !.pending = pending]
           a == [e EXCEPT !.clients[s] = d]
           b == [a EXCEPT !.store = st]
           routed == g.routed \ {id}
           h == [g EXCEPT !.routed = routed]
           f == Settle(h, {id})
<1>1. c \in Client
  BY EditorFields
<1>2. pending \subseteq Int
  BY <1>1, ClientFields
<1>3. a = Unpended(e, s, id)
  BY DEF Unpended
<1>4. (g = a \/ g = b) /\ b = Restored(a, st)
  BY <1>3 DEF Restored
<1>5. d.pending = pending /\ d \in Client /\ SameRest(c, d) /\ d.state = c.state
      /\ d.gen = c.gen /\ d.term = c.term /\ d.dropped = c.dropped
      /\ d.deferred = c.deferred
  <2> HIDE DEF pending
  <2> QED BY <1>1, <1>2 DEF Client, SameRest
<1> HIDE DEF d
<1>6. Puts(e, a, s, d)
  BY <1>5, PutsOne
<1> HIDE DEF a
<1>7. a \in Editor
  BY <1>6 DEF Puts
<1>8. /\ b \in Editor /\ b.clients = a.clients /\ b.out = a.out /\ b.jobs = a.jobs
      /\ b.run = a.run /\ b.routed = a.routed /\ b.store = st /\ b.stray = a.stray
      /\ b.diag = a.diag /\ SameBuffer(a, b)
  BY <1>7, WithStore
<1> HIDE DEF b
<1>9. /\ g \in Editor /\ g.clients = a.clients /\ g.out = a.out /\ g.jobs = a.jobs
      /\ g.run = a.run /\ g.routed = a.routed /\ g.stray = a.stray
      /\ g.diag = a.diag /\ SameBuffer(a, g)
      /\ (g = a => g.store = a.store) /\ (g = b => g.store = st)
  BY <1>4, <1>7, <1>8, SameTrans
<1>10. routed \subseteq Nat
  BY <1>9, EditorFields
<1> HIDE DEF routed
<1>11. /\ h \in Editor /\ h.clients = g.clients /\ h.out = g.out /\ h.jobs = g.jobs
       /\ h.run = g.run /\ h.routed = routed /\ h.store = g.store /\ h.stray = g.stray
       /\ h.diag = g.diag /\ SameBuffer(g, h)
  BY <1>9, <1>10, WithRouted
<1> HIDE DEF h
<1>12. /\ f \in Editor /\ f.clients = h.clients /\ f.out = h.out /\ f.jobs = h.jobs
       /\ f.run = h.run \ {id} /\ f.routed = h.routed /\ f.store = h.store
       /\ f.stray = h.stray /\ f.diag = h.diag /\ SameBuffer(h, f)
  BY <1>11, SettleFields
<1> HIDE DEF f
<1>13. Answers(e, f, s, id)
  <2>1. /\ a.clients[s] = d /\ a.out = e.out /\ Only(e, a, s) /\ SameBuffer(e, a)
        /\ a.jobs = e.jobs /\ a.run = e.run /\ a.routed = e.routed
        /\ a.stray = e.stray /\ a.diag = e.diag
    BY <1>6 DEF Puts, SameJobs
  <2>2. SameBuffer(e, f)
    BY <2>1, <1>9, <1>11, <1>12, SameTrans
  <2>3. Only(e, f, s)
    <3>1. f.clients = a.clients /\ f.out = a.out
      BY <1>9, <1>11, <1>12
    <3> QED BY <2>1, <3>1 DEF Only
  <2>4. f.clients[s] = d /\ f.out = e.out
    BY <2>1, <1>9, <1>11, <1>12
  <2>5. /\ f.jobs = e.jobs /\ f.run = e.run \ {id} /\ f.routed = e.routed \ {id}
        /\ f.stray = e.stray /\ f.diag = e.diag
    BY <2>1, <1>9, <1>11, <1>12 DEF routed
  <2> QED BY <1>5, <1>12, <2>2, <2>3, <2>4, <2>5 DEF Answers, pending
<1>14. f.store = g.store
  BY <1>11, <1>12
<1>15. a.store = e.store
  BY <1>6 DEF Puts, SameJobs
<1>16. f = Unrouted(g, id)
  BY DEF f, h, routed, Unrouted
<1> QED BY <1>3, <1>4, <1>9, <1>13, <1>14, <1>15, <1>16

LEMMA UnpendedFields ==
  ASSUME NEW e \in Editor, NEW s \in Sids, NEW id
  PROVE  /\ Answers(e, Unrouted(Unpended(e, s, id), id), s, id)
         /\ Unrouted(Unpended(e, s, id), id).store = e.store
<1> DEFINE st == {}
<1>1. st \in SUBSET Stored
  OBVIOUS
<1> HIDE DEF st
<1>2. \A g : g = Unpended(e, s, id) \/ g = Restored(Unpended(e, s, id), st) =>
         /\ Answers(e, Unrouted(g, id), s, id)
         /\ Unrouted(g, id).store = g.store
         /\ g = Unpended(e, s, id) => g.store = e.store
         /\ g = Restored(Unpended(e, s, id), st) => g.store = st
  BY <1>1, AnsweredFields
<1> QED BY <1>2

(* The response to a request.                                              *)
LEMMA AnsweredHandles ==
  ASSUME NEW e, NEW R, NEW f, NEW s \in Sids, NEW x, Whole(e, R), Live(e.clients[s]),
         Heard(s, e.clients[s], e.out[s], R[s], x, e.jobs), x.ev = "response",
         x.id \in e.clients[s].pending, x.id \notin {Init0, Shut},
         Answers(e, f, s, x.id), f.store \subseteq e.store \/ StoreFits(f)
  PROVE  Handles(e, f, s, R)
<1> DEFINE c == e.clients[s]
           d == f.clients[s]
<1>1. /\ Core(e, R) /\ e \in Editor /\ R[s] \in Process /\ c \in Client
      /\ e.out[s] \in Seq(Message)
      /\ ServerFits(s, c, e.out[s], R[s], e.jobs) /\ ClientFits(s, c, e.jobs)
      /\ e.jobs \in Seq(Job) /\ JobsFit(e)
  BY CoreFacts DEF Whole
<1>2. /\ f \in Editor /\ Only(e, f, s) /\ SameBuffer(e, f) /\ f.out = e.out
      /\ f.jobs = e.jobs /\ f.run = e.run \ {x.id} /\ f.routed = e.routed \ {x.id}
      /\ f.stray = e.stray /\ f.diag = e.diag
      /\ d.pending = c.pending \ {x.id} /\ d.policy = c.policy /\ d.armed = c.armed
      /\ d.docs = c.docs /\ d.tomb = c.tomb /\ d.state = c.state /\ d.gen = c.gen
      /\ d.term = c.term /\ d.dropped = c.dropped /\ d.deferred = c.deferred
  BY DEF Answers, SameRest
<1>3. d \in Client
  BY <1>2, EditorFields
<1>4. x.id \notin c.dropped
  BY <1>1 DEF ClientFits
<1> HIDE DEF c, d
<1>5. ServerFits(s, d, e.out[s], R[s], e.jobs)
  <2>1. d.dropped = c.dropped \ {x.id} /\ x.id # Init0
    BY <1>2, <1>4
  <2>2. Live(c) /\ Heard(s, c, e.out[s], R[s], x, e.jobs)
    BY DEF c
  <2> QED BY <1>1, <1>2, <1>3, <2>1, <2>2, AnsweredFits
<1>6. ClientFits(s, d, e.jobs)
  BY <1>1, <1>2 DEF ClientFits
<1>7. Live(d)
  BY <1>2 DEF Live, c
<1>8. Core(f, R)
  <2>1. \A r \in f.routed : e.jobs[r].sid = s => r \in d.pending
    <3>1. \A r \in e.routed : e.jobs[r].sid = s => r \in c.pending
      BY <1>1 DEF JobsFit, c
    <3> QED BY <1>2, <3>1
  <2>2. f.run \subseteq f.routed /\ f.run \subseteq e.run /\ f.routed \subseteq e.routed
    BY <1>1, <1>2 DEF JobsFit
  <2>3. f.out[s] = e.out[s]
    BY <1>2
  <2>4. ServerFits(s, f.clients[s], f.out[s], R[s], e.jobs) /\ ClientFits(s, f.clients[s], e.jobs)
    BY <1>5, <1>6, <2>3 DEF d
  <2>5. /\ f.clients[s].gen = e.clients[s].gen /\ f.clients[s].tomb = e.clients[s].tomb
        /\ \A r \in f.run : e.jobs[r].sid = s => Live(f.clients[s])
        /\ \A r \in f.routed : e.jobs[r].sid = s => r \in f.clients[s].pending
    BY <1>2, <1>7, <2>1 DEF c, d
  <2> QED BY <1>1, <1>2, <2>2, <2>4, <2>5, StepCore
<1>9. d.state # "none"
  BY <1>7 DEF Live
<1> QED BY <1>2, <1>7, <1>8, <1>9, HandlesOf DEF c, d

(* absorb_routed_response: the answer is honest, and its document not      *)
(* forgotten.                                                              *)
LEMMA AbsorbedHandles ==
  ASSUME NEW e, NEW R, NEW s \in Sids, NEW x, Whole(e, R), Live(e.clients[s]),
         Heard(s, e.clients[s], e.out[s], R[s], x, e.jobs), x.ev = "response",
         x.id \in e.clients[s].pending, x.id \notin {Init0, Shut}
  PROVE  LET a == [e EXCEPT !.clients[s].pending = @ \ {x.id}]
             g == IF x.id \in e.routed /\ x.ok THEN Absorb(a, x) ELSE a
         IN  Handles(e, Settle([g EXCEPT !.routed = @ \ {x.id}], {x.id}), s, R)
<1> DEFINE a == Unpended(e, s, x.id)
           j == e.jobs[x.id]
           new == [sid |-> j.sid, uri |-> j.uri, how |-> j.how, id |-> x.id,
                   text |-> x.text]
           st == {y \in e.store : ~(y.sid = j.sid /\ y.uri = j.uri /\ y.how = j.how)}
                    \cup {new}
           b == Restored(a, st)
           F(g) == Unrouted(g, x.id)
<1>1. Core(e, R) /\ e \in Editor /\ JobsFit(e) /\ StoreFits(e) /\ e.jobs \in Seq(Job)
  BY CoreFacts DEF Whole
<1>2. CASE ~(x.id \in e.routed /\ x.ok)
  <2>2. Answers(e, F(a), s, x.id) /\ F(a).store = e.store
    BY <1>1, UnpendedFields
  <2> HIDE DEF a, F
  <2>3. Handles(e, F(a), s, R)
    BY <2>2, AnsweredHandles
  <2> QED BY <1>2, <2>3 DEF a, F, Unpended, Unrouted
<1>3. CASE x.id \in e.routed /\ x.ok
  <2>1. x.id \in 1..Len(e.jobs) /\ j \in Job /\ x.text \in Nat
    <3>1. x \in Event
      BY DEF Heard
    <3> QED BY <1>1, <1>3, <3>1, JobFields, EventFields DEF JobsFit
  <2>2. st \in SUBSET Stored
    <3>1. new \in Stored
      BY <2>1 DEF Job, Stored
    <3> HIDE DEF new
    <3> QED BY <1>1, <3>1, EditorFields
  <2>3. Absorb(a, x) = b
    <3>1. a.jobs = e.jobs /\ a.store = e.store
      BY DEF Unpended
    <3> QED BY <3>1 DEF Absorb, Restored
  <2>4. Answers(e, F(b), s, x.id) /\ F(b).store = st
    <3> HIDE DEF st
    <3> QED BY <1>1, <2>2, AnsweredFields
  <2> DEFINE f == F(b)
  <2> HIDE DEF a, b, F
  <2>5. Answers(e, f, s, x.id) /\ f.store = st
    BY <2>4
  <2> HIDE DEF f
  <2>6. \A t \in Sids : f.clients[t].tomb = e.clients[t].tomb
    BY <2>5 DEF Answers, Only, SameRest
  <2>7. f.jobs = e.jobs
    BY <2>5 DEF Answers
  <2>8. j.uri \notin e.clients[j.sid].tomb /\ j.sid \in Sids
    BY <1>1, <1>3, <2>1 DEF JobsFit, Job
  <2>9. Honest(e.jobs, x.id, x.text)
    BY <2>1 DEF Heard
  <2>10. StoreFits(f)
    <3> SUFFICES ASSUME NEW y \in st
                 PROVE  /\ y.uri \notin f.clients[y.sid].tomb
                        /\ y.id \in 1..Len(f.jobs) /\ Honest(f.jobs, y.id, y.text)
      BY <2>5 DEF StoreFits
    <3>1. CASE y \in e.store
      <4>1. y.sid \in Sids
        BY <1>1, <3>1, EditorFields DEF Stored
      <4> QED BY <1>1, <2>6, <2>7, <3>1, <4>1 DEF StoreFits
    <3>2. CASE y = new
      <4>1. y.sid = j.sid /\ y.uri = j.uri /\ y.id = x.id /\ y.text = x.text
        BY <3>2
      <4> HIDE DEF j, new
      <4> QED BY <2>1, <2>6, <2>7, <2>8, <2>9, <4>1
    <3> QED BY <3>1, <3>2
  <2>11. Handles(e, f, s, R)
    BY <2>5, <2>10, AnsweredHandles
  <2> QED BY <1>3, <2>3, <2>11 DEF f, F, a, b, Unpended, Unrouted, Restored
<1> QED BY <1>2, <1>3

(* handle_response.                                                        *)
LEMMA OnResponseHandles ==
  ASSUME NEW e, NEW R, NEW s \in Sids, NEW x, Whole(e, R), Live(e.clients[s]),
         Heard(s, e.clients[s], e.out[s], R[s], x, e.jobs), x.ev = "response"
  PROVE  Handles(e, OnResponse(e, s, x), s, R)
<1> DEFINE c == e.clients[s]
           f == [e EXCEPT !.clients[s].pending = @ \ {x.id}]
           g == IF x.id \in e.routed /\ x.ok THEN Absorb(f, x) ELSE f
<1>1. x.id \in c.pending \cup c.dropped
  BY DEF Heard
<1>2. CASE x.id \in c.dropped
  BY <1>2, DroppedHandles DEF OnResponse
<1>3. CASE x.id \notin c.dropped
  <2>1. x.id \in c.pending
    BY <1>1, <1>3
  <2>2. CASE x.id = Init0
    <3>1. OnResponse(e, s, x) = OnInitialized(f, s)
      BY <1>3, <2>1, <2>2 DEF OnResponse, Init0, Shut
    <3>2. Handles(e, OnInitialized(f, s), s, R)
      BY <2>1, <2>2, OnInitializedHandles
    <3> QED BY <3>1, <3>2
  <2>3. CASE x.id = Shut
    <3>1. OnResponse(e, s, x)
            = [Send(f, s, [msg |-> "exit"]) EXCEPT !.clients[s].state = "shutdown"]
      BY <1>3, <2>1, <2>3 DEF OnResponse, Init0, Shut
    <3>2. Handles(e, [Send(f, s, [msg |-> "exit"]) EXCEPT !.clients[s].state = "shutdown"],
                  s, R)
      BY <2>1, <2>3, ShutHandles
    <3> QED BY <3>1, <3>2
  <2>4. CASE x.id \notin {Init0, Shut}
    <3>1. OnResponse(e, s, x) = Settle([g EXCEPT !.routed = @ \ {x.id}], {x.id})
      BY <1>3, <2>1, <2>4 DEF OnResponse
    <3>2. Handles(e, Settle([g EXCEPT !.routed = @ \ {x.id}], {x.id}), s, R)
      BY <2>1, <2>4, AbsorbedHandles
    <3> QED BY <3>1, <3>2
  <2> QED BY <2>2, <2>3, <2>4
<1> QED BY <1>2, <1>3

(* absorb_publish_diagnostics.                                             *)
LEMMA OnPublishHandles ==
  ASSUME NEW e, NEW R, NEW s \in Sids, NEW u \in Uris, Whole(e, R), Live(e.clients[s])
  PROVE  Handles(e, OnPublish(e, s, u), s, R)
<1> DEFINE f == MarkStale(e, s, u)
<1>1. Core(e, R) /\ DocsFit(e) /\ RecFits(e) /\ e \in Editor
  BY CoreFacts DEF Whole
<1>2. e.clients[s].gen # 0
  <2>1. ClientFits(s, e.clients[s], e.jobs)
    BY <1>1, CoreFacts
  <2> QED BY <2>1 DEF ClientFits, Live
<1>3. Core(f, R) /\ SameLives(e, f) /\ SameTexts(e, f)
  BY <1>1, <1>2, MarkCore
<1>4. f.clients = e.clients /\ f.out = e.out /\ SameBuffer(e, f)
  BY <1>1, MarkFields
<1>5. f = OnPublish(e, s, u)
  BY DEF OnPublish
<1> HIDE DEF f
<1>6. DocsFit(f) /\ RecFits(f)
  BY <1>1, <1>3, TextsKept
<1>7. Handles(e, f, s, R)
  BY <1>3, <1>4, <1>6 DEF Handles, Whole, Listed, Only
<1> QED BY <1>5, <1>7

(* on_exit.                                                                *)
LEMMA OnExitHandles ==
  ASSUME NEW e, NEW R, NEW s \in Sids, NEW x, Whole(e, R), Live(e.clients[s]),
         Heard(s, e.clients[s], e.out[s], R[s], x, e.jobs), x.ev = "exit"
  PROVE  Handles(e, OnExit(e, s), s, R)
<1> DEFINE c == e.clients[s]
           g == Drain(e, s)
           asked == c.state = "shutdown"
           d == [g.clients[s] EXCEPT
                   !.state = IF asked THEN "stopped" ELSE "crashed",
                   !.docs = NoDocs,
                   !.armed = ~asked /\ c.policy = "on_crash"]
           k == <<>>
           b == [g EXCEPT !.out[s] = k]
           f == [b EXCEPT !.clients[s] = d]
<1>1. /\ Core(e, R) /\ e \in Editor /\ R[s] \in Process /\ c \in Client
      /\ ServerFits(s, c, e.out[s], R[s], e.jobs) /\ ClientFits(s, c, e.jobs)
      /\ e.jobs \in Seq(Job) /\ JobsFit(e)
  BY CoreFacts DEF Whole
<1>2. f = OnExit(e, s)
  BY DEF OnExit
<1>3. /\ g \in Editor /\ g.clients = e.clients /\ g.out = e.out /\ g.jobs = e.jobs
      /\ g.run = e.run \ JobsOf(e, s) /\ g.routed = e.routed /\ g.store = e.store
      /\ g.stray = e.stray /\ g.diag = e.diag /\ SameBuffer(e, g)
  BY <1>1, SettleFields DEF Drain
<1> HIDE DEF g
<1>4. k \in Seq(Message)
  OBVIOUS
<1> HIDE DEF k
<1>5. /\ b \in Editor /\ b.out[s] = k /\ b.clients = g.clients /\ Only(g, b, s)
      /\ SameBuffer(g, b) /\ SameJobs(g, b) /\ b.diag = g.diag
  <2>1. g \in Editor
    BY <1>3
  <2> QED BY <1>4, <2>1, WithOut
<1> HIDE DEF b
<1>6. /\ d \in Client /\ d.state \in {"stopped", "crashed"} /\ d.gen = c.gen
      /\ d.term = c.term /\ d.pending = c.pending /\ d.dropped = c.dropped
      /\ d.tomb = c.tomb /\ d.policy = c.policy
      /\ (d.armed => d.state = "crashed" /\ d.policy = "on_crash")
  <2>1. NoDocs \in [Uris -> Texts]
    BY ConstantsAssumption DEF NoDocs, Texts
  <2> QED BY <1>1, <1>3, <2>1 DEF Client
<1> HIDE DEF d, asked
<1>7. Puts(b, f, s, d)
  BY <1>5, <1>6, PutsOne
<1> HIDE DEF f
<1>8. /\ f \in Editor /\ f.clients[s] = d /\ Only(e, f, s) /\ SameBuffer(e, f)
      /\ f.jobs = e.jobs /\ f.run = e.run \ JobsOf(e, s) /\ f.routed = e.routed
      /\ f.stray = e.stray /\ f.diag = e.diag /\ f.store = e.store
  <2>1. /\ f \in Editor /\ f.clients[s] = d /\ Only(b, f, s) /\ SameBuffer(b, f)
        /\ SameJobs(b, f) /\ f.diag = b.diag
    BY <1>7 DEF Puts
  <2>2. Only(e, f, s)
    BY <1>3, <1>5, <2>1 DEF Only
  <2>3. SameBuffer(e, f)
    BY <1>3, <1>5, <2>1, SameTrans
  <2> QED BY <1>3, <1>5, <2>1, <2>2, <2>3 DEF SameJobs
<1>9. R[s].events = <<>> /\ ~R[s].up
  BY DEF Heard
<1>10. ServerFits(s, d, f.out[s], R[s], e.jobs)
  <2>1. EventsFit(R[s]) /\ (R[s].bad => d.gen > 1 \/ d.term)
    BY <1>1, <1>6 DEF ServerFits
  <2> QED BY <1>6, <1>9, <2>1, GoneFits
<1>11. ClientFits(s, d, e.jobs)
  <2>1. c.gen # 0
    BY <1>1 DEF ClientFits, Live
  <2> QED BY <1>1, <1>6, <2>1 DEF ClientFits
<1>12. Core(f, R)
  <2>1. \A r \in f.routed : e.jobs[r].sid = s => r \in d.pending
    BY <1>1, <1>6, <1>8 DEF JobsFit
  <2>2. \A r \in f.run : e.jobs[r].sid # s
    BY <1>1, <1>8 DEF JobsOf, JobsFit
  <2>3. f.run \subseteq e.run /\ f.run \subseteq f.routed
    BY <1>1, <1>8 DEF JobsFit
  <2> QED BY <1>1, <1>6, <1>8, <1>10, <1>11, <2>1, <2>2, <2>3, StepCore
<1>13. ~Live(d)
  BY <1>6 DEF Live
<1>14. Handles(e, f, s, R)
  BY <1>6, <1>8, <1>9, <1>12, <1>13, HandlesOf
<1> QED BY <1>2, <1>14

(* An event is handled.                                                    *)
LEMMA HandleHandles ==
  ASSUME NEW e, NEW R, NEW s \in Sids, NEW x, Whole(e, R), Live(e.clients[s]),
         Heard(s, e.clients[s], e.out[s], R[s], x, e.jobs)
  PROVE  Handles(e, Handle(s, e, x), s, R)
<1>1. /\ x.ev = "publish" => x.uri \in Uris
      /\ x.ev \in {"started", "response", "publish", "exit"}
  <2>1. x \in Event
    BY DEF Heard
  <2> QED BY <2>1, EventFields
<1>2. CASE x.ev = "started"
  BY <1>2, OnStartedHandles DEF Handle
<1>3. CASE x.ev = "response"
  BY <1>3, OnResponseHandles DEF Handle
<1>4. CASE x.ev = "publish"
  BY <1>1, <1>4, OnPublishHandles DEF Handle
<1>5. CASE x.ev = "exit"
  BY <1>5, OnExitHandles DEF Handle
<1> QED BY <1>1, <1>2, <1>3, <1>4, <1>5

(***************************************************************************)
(* The manager's tick.                                                     *)
(***************************************************************************)
(* A set of naturals that has 0, and with each number the next, has them   *)
(* all.  It is what takes Handled along any number of events.              *)
LEMMA SetInduction ==
  ASSUME NEW T, 0 \in T, \A n \in Nat : n \in T => n + 1 \in T
  PROVE  Nat \subseteq T
<1> DEFINE R == OpToRel(<, Nat)
           B == {n \in Nat : n \notin T}
<1> SUFFICES ASSUME B # {} PROVE FALSE
  OBVIOUS
<1>1. IsWellFoundedOn(R, Nat)
  BY NatLessThanWellFounded
<1>2. PICK x \in B : \A y \in B : ~(<<y, x>> \in R)
  <2>1. B \subseteq Nat
    OBVIOUS
  <2> QED BY <1>1, <2>1, WFMin
<1>3. x \in Nat /\ x \notin T /\ x # 0
  OBVIOUS
<1>4. x - 1 \in Nat /\ x - 1 < x /\ (x - 1) + 1 = x
  BY <1>3
<1>5. x - 1 \in B
  BY <1>3, <1>4
<1>6. <<x - 1, x>> \in R
  BY <1>3, <1>4 DEF OpToRel
<1> QED BY <1>2, <1>5, <1>6

(* g is, for each i, what becomes of e when the first i events are handled. *)
HandledUpTo(s, e, events, g, n) ==
  g = [i \in 0..n |-> IF i = 0 THEN {e} ELSE {Handle(s, f, events[i]) : f \in g[i - 1]}]

(* The function that Handled is defined by exists.                         *)
LEMMA HandledExists ==
  ASSUME NEW s, NEW e, NEW events \in Seq(Event)
  PROVE  \E g : HandledUpTo(s, e, events, g, Len(events))
<1> DEFINE T == {n \in Nat : \E g : HandledUpTo(s, e, events, g, n)}
<1>1. 0 \in T
  <2> DEFINE g == [i \in 0..0 |-> {e}]
  <2>1. HandledUpTo(s, e, events, g, 0)
    BY DEF HandledUpTo
  <2> QED BY <2>1
<1>2. ASSUME NEW n \in Nat, n \in T PROVE n + 1 \in T
  <2>1. PICK g : HandledUpTo(s, e, events, g, n)
    BY <1>2
  <2> DEFINE next(h, i) == {Handle(s, f, events[i]) : f \in h[i - 1]}
             b == [i \in 0..(n + 1) |-> IF i <= n THEN g[i] ELSE next(g, n + 1)]
             c == [i \in 0..(n + 1) |-> IF i = 0 THEN {e} ELSE next(b, i)]
  <2>2. \A i \in 0..n : g[i] = IF i = 0 THEN {e} ELSE next(g, i)
    BY <2>1 DEF HandledUpTo
  <2>3. \A i \in 1..(n + 1) : b[i - 1] = g[i - 1]
    OBVIOUS
  <2>4. \A i \in 1..(n + 1) : next(b, i) = next(g, i)
    BY <2>3
  <2> HIDE DEF next
  <2>5. ASSUME NEW i \in 0..(n + 1) PROVE b[i] = c[i]
    <3>1. CASE i <= n
      <4>1. i \in 0..n /\ b[i] = g[i]
        BY <3>1
      <4>2. i # 0 => i \in 1..(n + 1)
        OBVIOUS
      <4> QED BY <2>2, <2>4, <4>1, <4>2
    <3>2. CASE i = n + 1
      <4>1. i # 0 /\ ~(i <= n) /\ i \in 1..(n + 1)
        BY <3>2
      <4>2. b[i] = next(g, i)
        BY <3>2, <4>1
      <4> QED BY <2>4, <4>1, <4>2
    <3> QED BY <3>1, <3>2
  <2>6. b = c
    BY <2>5
  <2>7. HandledUpTo(s, e, events, b, n + 1)
    BY <2>6 DEF HandledUpTo, next
  <2> QED BY <2>7
<1>3. Nat \subseteq T
  <2> HIDE DEF T
  <2> QED BY <1>1, <1>2, SetInduction
<1> QED BY <1>3

(* The process p when the first n of its events were read.                 *)
Unread(p, n) == [p EXCEPT !.events = SubSeq(@, n + 1, Len(@))]

(* What is to be shown of editor f when n events of s were handled.        *)
Reads(e, P, f, s, n) ==
  /\ Whole(f, [P EXCEPT ![s] = Unread(P[s], n)]) /\ Listed(e, f)
  /\ Live(f.clients[s]) \/ n = Len(P[s].events)

LEMMA UnreadFields ==
  ASSUME NEW p \in Process, NEW n \in 0..Len(p.events)
  PROVE  LET r == Unread(p, n) IN
         /\ r \in Process /\ r.events = SubSeq(p.events, n + 1, Len(p.events))
         /\ r.up = p.up /\ r.phase = p.phase /\ r.open = p.open /\ r.todo = p.todo
         /\ r.bad = p.bad
<1> DEFINE t == SubSeq(p.events, n + 1, Len(p.events))
<1>1. p.events \in Seq(Event)
  BY DEF Process
<1>2. t \in Seq(Event)
  <2>1. \A i \in (n + 1)..Len(p.events) : p.events[i] \in Event
    BY <1>1
  <2> QED BY <1>1, <2>1, SubSeqProperties
<1>3. Unread(p, n) = [p EXCEPT !.events = t]
  BY DEF Unread
<1> HIDE DEF t
<1>4. LET r == [p EXCEPT !.events = t] IN
      /\ r \in Process /\ r.events = t
      /\ r.up = p.up /\ r.phase = p.phase /\ r.open = p.open /\ r.todo = p.todo
      /\ r.bad = p.bad
  BY <1>2 DEF Process
<1> QED BY <1>3, <1>4 DEF t

(* An event more is handled.                                               *)
LEMMA ReadsMore ==
  ASSUME NEW e, NEW P \in [Sids -> Process], NEW f, NEW s \in Sids, NEW n \in Nat,
         n < Len(P[s].events), Reads(e, P, f, s, n)
  PROVE  Reads(e, P, Handle(s, f, P[s].events[n + 1]), s, n + 1)
<1> DEFINE p == P[s]
           q == Unread(p, n)
           r == Unread(p, n + 1)
           Q == [P EXCEPT ![s] = q]
           R == [P EXCEPT ![s] = r]
           x == p.events[n + 1]
           g == Handle(s, f, x)
<1>1. p \in Process /\ p.events \in Seq(Event) /\ n \in 0..Len(p.events)
      /\ n + 1 \in 0..Len(p.events) /\ n + 1 \in 1..Len(p.events)
  <2>1. p \in Process
    OBVIOUS
  <2>2. p.events \in Seq(Event)
    BY <2>1 DEF Process
  <2>3. Len(p.events) \in Nat /\ n < Len(p.events)
    BY <2>2
  <2> HIDE DEF p
  <2> QED BY <2>1, <2>2, <2>3
<1>2. /\ q \in Process /\ q.events = SubSeq(p.events, n + 1, Len(p.events))
      /\ q.up = p.up /\ q.phase = p.phase /\ q.open = p.open /\ q.todo = p.todo
      /\ q.bad = p.bad
  BY <1>1, UnreadFields
<1>3. /\ r \in Process /\ r.events = SubSeq(p.events, n + 2, Len(p.events))
      /\ r.up = p.up /\ r.phase = p.phase /\ r.open = p.open /\ r.todo = p.todo
      /\ r.bad = p.bad
  <2> DEFINE k == n + 1
  <2>1. k \in 0..Len(p.events) /\ k + 1 = n + 2
    BY <1>1
  <2> HIDE DEF k
  <2>2. LET w == Unread(p, k) IN
        /\ w \in Process /\ w.events = SubSeq(p.events, k + 1, Len(p.events))
        /\ w.up = p.up /\ w.phase = p.phase /\ w.open = p.open /\ w.todo = p.todo
        /\ w.bad = p.bad
    BY <1>1, <2>1, UnreadFields
  <2> QED BY <2>1, <2>2 DEF k
<1>4. Q[s] = q /\ R[s] = r /\ \A t \in Sids \ {s} : R[t] = Q[t]
  OBVIOUS
<1>5. Q \in [Sids -> Process] /\ R \in [Sids -> Process]
  BY <1>2, <1>3
<1>6. Head(q.events) = x /\ Tail(q.events) = r.events /\ q.events # <<>>
  <2> DEFINE m == n + 1
             N == Len(p.events)
  <2>1. m \in 1..Len(p.events) /\ N \in m..Len(p.events) /\ N \in Nat /\ m \in Nat
    BY <1>1
  <2>2. Head(SubSeq(p.events, m, N)) = p.events[m]
        /\ Tail(SubSeq(p.events, m, N)) = SubSeq(p.events, m + 1, N)
    BY <1>1, <2>1, HeadTailOfSubSeq
  <2>3. m + 1 = n + 2
    BY <1>1
  <2>4. Len(SubSeq(p.events, m, N)) = N - m + 1
    <3>1. \A i \in m..N : p.events[i] \in Event
      BY <1>1, <2>1
    <3>2. m <= N
      BY <2>1
    <3> QED BY <2>1, <3>1, <3>2, SubSeqProperties
  <2>5. SubSeq(p.events, m, N) # <<>>
    <3> DEFINE t == SubSeq(p.events, m, N)
    <3>1. N - m + 1 # 0
      BY <2>1
    <3>2. Len(t) # 0
      BY <2>4, <3>1
    <3> HIDE DEF t
    <3>3. t # <<>>
      BY <3>2
    <3> QED BY <3>3 DEF t
  <2> QED BY <1>2, <1>3, <2>2, <2>3, <2>5
<1>7. Read(q, r)
  BY <1>2, <1>3, <1>6 DEF Read
<1>8. Whole(f, Q) /\ Listed(e, f) /\ Live(f.clients[s])
  <2>1. n # Len(p.events)
    BY <1>1
  <2> QED BY <2>1 DEF Reads
<1> HIDE DEF p, q, r, Q, R, x
<1>9. /\ f \in Editor /\ f.clients[s] \in Client /\ f.out[s] \in Seq(Message)
      /\ ServerFits(s, f.clients[s], f.out[s], q, f.jobs) /\ f.jobs \in Seq(Job)
  BY <1>4, <1>8, CoreFacts DEF Whole
<1>10. /\ ServerFits(s, f.clients[s], f.out[s], r, f.jobs)
       /\ Heard(s, f.clients[s], f.out[s], r, x, f.jobs)
  BY <1>2, <1>3, <1>6, <1>7, <1>8, <1>9, HeardFits
<1>11. Core(f, R)
  <2>1. /\ JobsFit(f) /\ StoreFits(f) /\ DiagFits(f) /\ ~f.stray /\ Core(f, Q)
        /\ ClientFits(s, f.clients[s], f.jobs)
    BY <1>8, CoreFacts DEF Whole
  <2>2. Only(f, f, s)
    BY DEF Only
  <2> QED BY <1>4, <1>5, <1>9, <1>10, <2>1, <2>2, CoreOf
<1>12. Whole(f, R)
  BY <1>8, <1>11 DEF Whole
<1>13. Handles(f, g, s, R)
  BY <1>4, <1>8, <1>10, <1>12, HandleHandles
<1> HIDE DEF g
<1>14. Whole(g, R) /\ Listed(f, g) /\ (Live(g.clients[s]) \/ r.events = <<>>)
  BY <1>4, <1>13 DEF Handles
<1>15. Listed(e, g)
  BY <1>8, <1>14, SameTrans DEF Listed
<1>16. r.events = <<>> => n + 1 = Len(p.events)
  <2>1. Len(q.events) = Len(p.events) - n
    <3>1. \A i \in (n + 1)..Len(p.events) : p.events[i] \in Event
      BY <1>1
    <3>2. n + 1 <= Len(p.events) /\ n + 1 \in Int /\ Len(p.events) \in Int
      BY <1>1
    <3>3. Len(q.events) = Len(p.events) - (n + 1) + 1
      BY <1>2, <3>1, <3>2, SubSeqProperties
    <3> QED BY <1>1, <3>3
  <2> DEFINE a == q.events
             b == r.events
             L == Len(a)
  <2>2. Len(b) = L - 1
    <3>1. a \in Seq(Event) /\ a # <<>>
      BY <1>2, <1>6 DEF Process
    <3>2. Len(Tail(a)) = Len(a) - 1
      BY <3>1, HeadTailProperties
    <3> QED BY <1>6, <3>2
  <2>3. Len(p.events) \in Nat /\ L = Len(p.events) - n
    BY <1>1, <2>1
  <2> HIDE DEF a, b, L
  <2>4. b = <<>> => L = 1
    <3>1. b = <<>> => Len(b) = 0
      OBVIOUS
    <3>2. L \in Int
      BY <1>1, <2>3
    <3> QED BY <2>2, <3>1, <3>2
  <2>5. b = <<>> => n + 1 = Len(p.events)
    BY <1>1, <2>3, <2>4
  <2> QED BY <2>5 DEF b
<1> QED BY <1>14, <1>15, <1>16 DEF Reads, g, p, q, r, Q, R, x

(* All the events of a server are handled in turn.                         *)
LEMMA HandledFits ==
  ASSUME NEW e, NEW P, NEW s \in Sids, NEW g, Whole(e, P), Live(e.clients[s]),
         HandledUpTo(s, e, P[s].events, g, Len(P[s].events))
  PROVE  \A f \in g[Len(P[s].events)] : Reads(e, P, f, s, Len(P[s].events))
<1> DEFINE N == Len(P[s].events)
           T == {n \in Nat : n <= N => \A f \in g[n] : Reads(e, P, f, s, n)}
<1>1. P \in [Sids -> Process] /\ P[s] \in Process /\ N \in Nat
  <2>1. P \in [Sids -> Process] /\ P[s] \in Process
    BY CoreFacts DEF Whole
  <2>2. P[s].events \in Seq(Event)
    BY <2>1 DEF Process
  <2> QED BY <2>1, <2>2
<1>2. 0 \in T
  <2>1. g[0] = {e}
    BY <1>1 DEF HandledUpTo
  <2>2. Unread(P[s], 0) = P[s]
    <3>1. P[s].events \in Seq(Event)
      BY <1>1 DEF Process
    <3>2. SubSeq(P[s].events, 1, Len(P[s].events)) = P[s].events
      BY <3>1, SubSeqFull
    <3>3. Unread(P[s], 0) = [P[s] EXCEPT !.events = P[s].events]
      BY <3>2 DEF Unread
    <3> QED BY <1>1, <3>3 DEF Process
  <2>3. [P EXCEPT ![s] = Unread(P[s], 0)] = P
    BY <1>1, <2>2
  <2>4. Listed(e, e)
    BY DEF Listed, SameBuffer
  <2> QED BY <2>1, <2>3, <2>4 DEF Reads
<1>3. ASSUME NEW n \in Nat, n \in T PROVE n + 1 \in T
  <2> SUFFICES ASSUME n + 1 <= N, NEW f \in g[n + 1] PROVE Reads(e, P, f, s, n + 1)
    OBVIOUS
  <2>1. n < N /\ n + 1 \in 0..N /\ n + 1 # 0 /\ (n + 1) - 1 = n
    BY <1>1
  <2>2. g[n + 1] = {Handle(s, h, P[s].events[n + 1]) : h \in g[n]}
    BY <2>1 DEF HandledUpTo
  <2>3. PICK h \in g[n] : f = Handle(s, h, P[s].events[n + 1])
    BY <2>2
  <2>4. Reads(e, P, h, s, n)
    BY <1>3, <2>1
  <2> QED BY <1>1, <2>1, <2>3, <2>4, ReadsMore
<1>4. Nat \subseteq T
  <2> HIDE DEF T
  <2> QED BY <1>2, <1>3, SetInduction
<1> QED BY <1>1, <1>4

(* The processes P when all that s said was read.                          *)
Silent(P, s) == [P EXCEPT ![s] = [P[s] EXCEPT !.events = <<>>]]

LEMMA SilentFields ==
  ASSUME NEW P \in [Sids -> Process], NEW s \in Sids
  PROVE  /\ Silent(P, s) \in [Sids -> Process]
         /\ \A t \in Sids \ {s} : Silent(P, s)[t] = P[t]
         /\ LET r == Silent(P, s)[s] IN
            /\ r = [P[s] EXCEPT !.events = <<>>] /\ r \in Process
            /\ r.events = <<>> /\ r.up = P[s].up /\ r.bad = P[s].bad
            /\ r.phase = P[s].phase /\ r.open = P[s].open /\ r.todo = P[s].todo
<1> DEFINE p == P[s]
           none == <<>>
           r == [p EXCEPT !.events = none]
           Q == [P EXCEPT ![s] = r]
<1>1. p \in Process /\ none \in Seq(Event)
  OBVIOUS
<1>2. Q = Silent(P, s)
  BY DEF Silent
<1> HIDE DEF p, none
<1>3. /\ r \in Process /\ r.events = none /\ r.up = p.up /\ r.bad = p.bad
      /\ r.phase = p.phase /\ r.open = p.open /\ r.todo = p.todo
  BY <1>1 DEF Process
<1> HIDE DEF r
<1>4. Q \in [Sids -> Process] /\ Q[s] = r /\ \A t \in Sids \ {s} : Q[t] = P[t]
  BY <1>3
<1> QED BY <1>2, <1>3, <1>4 DEF r, p, none

(* A tick reads all that a live server said; a dead one is not heard.      *)
LEMMA HandledWhole ==
  ASSUME Whole(ed, srv), NEW s \in Sids, ed.clients[s].state # "none",
         NEW e \in Handled(s, IF Live(ed.clients[s]) THEN srv[s].events ELSE <<>>)
  PROVE  Whole(e, Silent(srv, s)) /\ Listed(ed, e)
<1> DEFINE events == IF Live(ed.clients[s]) THEN srv[s].events ELSE <<>>
           after == CHOOSE g : HandledUpTo(s, ed, events, g, Len(events))
<1>1. /\ srv \in [Sids -> Process] /\ srv[s] \in Process /\ srv[s].events \in Seq(Event)
      /\ ed \in Editor
  <2>1. srv \in [Sids -> Process] /\ srv[s] \in Process /\ ed \in Editor
    BY CoreFacts DEF Whole
  <2> QED BY <2>1 DEF Process
<1>2. events \in Seq(Event)
  BY <1>1
<1>3. Handled(s, events) = after[Len(events)]
  BY DEF Handled, HandledUpTo
<1>4. HandledUpTo(s, ed, events, after, Len(events))
  <2> HIDE DEF events
  <2> QED BY <1>2, HandledExists
<1>5. e \in after[Len(events)]
  BY <1>3
<1> HIDE DEF after
<1>6. CASE Live(ed.clients[s])
  <2>1. events = srv[s].events
    BY <1>6
  <2>2. Reads(ed, srv, e, s, Len(srv[s].events))
    <3> HIDE DEF events
    <3> QED BY <1>4, <1>5, <1>6, <2>1, HandledFits
  <2>3. Unread(srv[s], Len(srv[s].events)) = [srv[s] EXCEPT !.events = <<>>]
    <3> DEFINE N == Len(srv[s].events)
    <3>1. N \in Nat /\ N < N + 1
      BY <1>1
    <3>2. SubSeq(srv[s].events, N + 1, N) = <<>>
      BY <3>1, SubSeqEmpty
    <3> QED BY <3>2 DEF Unread
  <2> QED BY <2>2, <2>3 DEF Reads, Silent
<1>7. CASE ~Live(ed.clients[s])
  <2>1. e = ed
    <3>1. events = <<>> /\ Len(events) = 0
      BY <1>7
    <3>2. after[0] = {ed}
      <4> HIDE DEF events
      <4> QED BY <1>4, <3>1 DEF HandledUpTo
    <3> QED BY <1>5, <3>1, <3>2
  <2>2. /\ Core(ed, srv) /\ DocsFit(ed) /\ RecFits(ed)
        /\ ServerFits(s, ed.clients[s], ed.out[s], srv[s], ed.jobs)
        /\ ClientFits(s, ed.clients[s], ed.jobs)
        /\ JobsFit(ed) /\ StoreFits(ed) /\ DiagFits(ed) /\ ~ed.stray
    BY CoreFacts DEF Whole
  <2> DEFINE Q == Silent(srv, s)
             r == Q[s]
  <2>3. /\ Q \in [Sids -> Process] /\ \A t \in Sids \ {s} : Q[t] = srv[t]
        /\ r \in Process /\ r.events = <<>> /\ r.up = srv[s].up /\ r.bad = srv[s].bad
    BY <1>1, SilentFields
  <2> HIDE DEF Q
  <2>4. ServerFits(s, ed.clients[s], ed.out[s], r, ed.jobs)
    BY <1>1, <1>7, <2>2, <2>3, UnheardFits
  <2>5. Only(ed, ed, s)
    BY DEF Only
  <2>6. Core(ed, Q)
    BY <1>1, <2>2, <2>3, <2>4, <2>5, CoreOf
  <2>7. Listed(ed, ed)
    BY DEF Listed, SameBuffer
  <2> QED BY <2>1, <2>2, <2>6, <2>7 DEF Q, Whole
<1> QED BY <1>6, <1>7

(* Of a step that starts no process, the processes are the same.           *)
LEMMA MovesListed ==
  ASSUME NEW e \in Editor, NEW f, NEW P, Core(f, P), Listed(e, f)
  PROVE  Moves(e, P, f, P)
<1> SUFFICES ASSUME NEW t \in Sids
             PROVE  LET c == e.clients[t]
                        d == f.clients[t]
                    IN  /\ c.gen \in Nat /\ d.gen \in Nat /\ c.gen <= d.gen
                        /\ d.gen = c.gen /\ c.state = "none" => d.state = "none"
                        /\ P[t] = IF d.state = "none" THEN NoProc
                                  ELSE IF d.gen # c.gen THEN Fresh ELSE P[t]
  BY DEF Moves
<1>1. ServerFits(t, f.clients[t], f.out[t], P[t], f.jobs)
  BY CoreFacts
<1>2. e.clients[t] \in Client
  BY EditorFields
<1>3. e.clients[t].gen \in Nat
  BY <1>2, ClientFields
<1>4. f.clients[t].state = "none" => P[t] = NoProc
  BY <1>1 DEF ServerFits
<1>5. /\ f.clients[t].gen = e.clients[t].gen
      /\ f.clients[t].state = "none" <=> e.clients[t].state = "none"
  BY DEF Listed
<1> QED BY <1>3, <1>4, <1>5

(* maybe_restart.                                                          *)
LEMMA RestartedWhole ==
  ASSUME NEW e, NEW P, NEW s \in Sids, NEW g \in Restarted(e, s), Whole(e, P)
  PROVE  \E Q : Whole(g, Q) /\ Moves(e, P, g, Q) /\ g.text = e.text
<1> DEFINE c == e.clients[s]
           f == StartGeneration(e, s)
           h == [f EXCEPT !.clients[s].state = "crashed", !.clients[s].gen = c.gen,
                          !.clients[s].armed = TRUE]
           restarts == c.state = "crashed" /\ c.armed /\ c.due
<1>1. /\ Core(e, P) /\ DocsFit(e) /\ RecFits(e) /\ e \in Editor
      /\ P \in [Sids -> Process] /\ P[s] \in Process /\ c \in Client
      /\ ServerFits(s, c, e.out[s], P[s], e.jobs) /\ ClientFits(s, c, e.jobs)
  BY CoreFacts DEF Whole
<1>2. CASE ~restarts
  <2>1. g = e
    BY <1>2 DEF Restarted
  <2>2. Moves(e, P, e, P)
    BY <1>1, SameTrans, MovesSame
  <2> QED BY <2>1, <2>2
<1>3. CASE restarts
  <2>1. g = f \/ g = h
    BY <1>3 DEF Restarted
  <2>2. Starts(e, f, s)
    BY <1>1, StartFields
  <2>3. c.gen \in Nat /\ c.gen # 0 /\ c.policy = "on_crash" /\ ~c.term /\ ~Live(c)
    <3>1. c.gen \in Nat
      BY <1>1, ClientFields
    <3> QED BY <1>1, <1>3, <3>1 DEF ClientFits, Live
  <2> HIDE DEF f
  <2>4. /\ f \in Editor /\ Only(e, f, s) /\ SameBuffer(e, f) /\ f.jobs = e.jobs
        /\ f.run = e.run \ JobsOf(e, s) /\ f.routed = e.routed \ JobsOf(e, s)
        /\ f.store = e.store /\ f.stray = e.stray /\ f.diag = e.diag
        /\ f.clients[s].state = "starting" /\ f.clients[s].gen = c.gen + 1
        /\ f.clients[s].policy = c.policy /\ ~f.clients[s].term
        /\ f.clients[s].pending = {} /\ f.clients[s].dropped = {}
        /\ f.clients[s].tomb = {} /\ f.clients[s] \in Client
    BY <2>2, EditorFields DEF Starts
  <2>5. ASSUME NEW k, SameBuffer(e, k), Only(e, k, s), k.clients[s].gen # 0,
               ~First(k.clients[s]), k.clients[s].tomb = {}
        PROVE  DocsFit(k) /\ RecFits(k)
    <3>1. k.rec = e.rec /\ k.dirty = e.dirty /\ k.text = e.text
      BY <2>5 DEF SameBuffer
    <3>2. \A t \in Sids : t = s \/ k.clients[t] = e.clients[t]
      BY <2>5 DEF Only
    <3>3. e.rec.sid # NoSid => e.rec.sid \in Sids
      BY <1>1, EditorFields
    <3>4. DocsFit(k)
      BY <1>1, <2>5, <3>1, <3>2 DEF DocsFit
    <3>5. RecFits(k)
      <4>1. CASE e.rec.sid = s
        BY <2>5, <3>1, <4>1 DEF RecFits
      <4>2. CASE e.rec.sid # s
        BY <1>1, <3>1, <3>2, <3>3, <4>2 DEF RecFits
      <4> QED BY <4>1, <4>2
    <3> QED BY <3>4, <3>5
  <2>6. CASE g = f
    <3> DEFINE Q == [P EXCEPT ![s] = Fresh]
    <3>1. Core(f, Q)
      BY <1>1, <2>2, StartsCore
    <3>2. Moves(e, P, f, Q)
      <4>1. c.gen + 1 # c.gen /\ c.gen <= c.gen + 1
        BY <2>3
      <4>2. Fresh = IF f.clients[s].state = "none" THEN NoProc
                    ELSE IF f.clients[s].gen # c.gen THEN Fresh ELSE P[s]
        BY <2>4, <4>1
      <4>3. c.gen <= f.clients[s].gen /\ ~(f.clients[s].gen = c.gen)
        BY <2>4, <4>1
      <4> QED BY <1>1, <2>4, <4>2, <4>3, MovesOne
    <3> HIDE DEF Q
    <3>3. ~First(f.clients[s]) /\ f.clients[s].gen # 0
      BY <2>3, <2>4 DEF First
    <3>4. DocsFit(f) /\ RecFits(f)
      BY <2>4, <2>5, <3>3
    <3>5. Whole(f, Q) /\ f.text = e.text
      BY <2>4, <3>1, <3>4 DEF Whole, SameBuffer
    <3> QED BY <2>6, <3>2, <3>5
  <2>7. CASE g = h
    <3> DEFINE d == [f.clients[s] EXCEPT !.state = "crashed", !.gen = c.gen, !.armed = TRUE]
    <3>1. h = [f EXCEPT !.clients[s] = d]
      <4>1. f \in Editor
        BY <2>4
      <4> QED BY <4>1 DEF Editor
    <3>2. /\ d \in Client /\ d.state = "crashed" /\ d.gen = c.gen /\ d.armed
          /\ d.policy = c.policy /\ ~d.term /\ d.pending = {} /\ d.dropped = {}
          /\ d.tomb = {}
      BY <2>3, <2>4 DEF Client
    <3> HIDE DEF d
    <3>3. Puts(f, h, s, d)
      BY <2>4, <3>1, <3>2, PutsOne
    <3> HIDE DEF h
    <3>4. /\ h \in Editor /\ Only(e, h, s) /\ SameBuffer(e, h) /\ h.jobs = e.jobs
          /\ h.run = e.run \ JobsOf(e, s) /\ h.routed = e.routed \ JobsOf(e, s)
          /\ h.store = e.store /\ h.stray = e.stray /\ h.diag = e.diag
          /\ h.clients[s] = d
      <4>1. /\ h \in Editor /\ h.clients[s] = d /\ h.out = f.out /\ Only(f, h, s)
            /\ SameBuffer(f, h) /\ SameJobs(f, h) /\ h.diag = f.diag
        BY <3>3 DEF Puts
      <4>2. Only(e, h, s)
        BY <2>4, <4>1 DEF Only
      <4>3. SameBuffer(e, h)
        BY <2>4, <4>1, SameTrans
      <4> QED BY <2>4, <4>1, <4>2, <4>3 DEF SameJobs
    <3>5. ServerFits(s, d, h.out[s], P[s], e.jobs)
      <4>1. ~P[s].up /\ EventsFit(P[s]) /\ (P[s].bad => d.gen > 1)
        BY <1>1, <2>3, <3>2 DEF ServerFits
      <4> QED BY <3>2, <4>1, GoneFits
    <3>6. ClientFits(s, d, e.jobs)
      BY <1>1, <2>3, <3>2 DEF ClientFits
    <3>7. Core(h, P)
      <4>1. Core(h, [P EXCEPT ![s] = P[s]])
        BY <1>1, <2>3, <3>2, <3>4, <3>5, <3>6, EmptiedCore
      <4>2. [P EXCEPT ![s] = P[s]] = P
        BY <1>1
      <4> QED BY <4>1, <4>2
    <3>8. Listed(e, h)
      <4>1. \A t \in Sids : t = s \/ h.clients[t] = e.clients[t]
        BY <3>4 DEF Only
      <4>2. d.gen = c.gen /\ d.state # "none" /\ c.state # "none"
        BY <1>3, <3>2
      <4> QED BY <3>4, <4>1, <4>2 DEF Listed
    <3>9. Moves(e, P, h, P)
      BY <1>1, <3>7, <3>8, MovesListed
    <3>10. DocsFit(h) /\ RecFits(h)
      <4>1. ~First(h.clients[s]) /\ h.clients[s].gen # 0 /\ h.clients[s].tomb = {}
        BY <2>3, <3>2, <3>4 DEF First, Live
      <4> QED BY <2>5, <3>4, <4>1
    <3>11. Whole(h, P) /\ h.text = e.text
      BY <3>4, <3>7, <3>10 DEF Whole, SameBuffer
    <3> QED BY <2>7, <3>9, <3>11
  <2> QED BY <2>1, <2>6, <2>7
<1> QED BY <1>2, <1>3

(***************************************************************************)
(* The main thread's steps.                                                *)
(***************************************************************************)
(* What Main makes of the processes is what the editor moved them to.      *)
LEMMA MainMoves ==
  ASSUME NEW f, NEW Q \in [Sids -> Process], Moves(ed, srv, f, Q), Main(f, {})
  PROVE  ed' = f /\ srv' = Q
<1>1. \A t \in Sids : Q[t] = IF f.clients[t].state = "none" THEN NoProc
                             ELSE IF f.clients[t].gen # ed.clients[t].gen THEN Fresh
                             ELSE srv[t]
  BY DEF Moves
<1>2. srv' = [t \in Sids |-> IF f.clients[t].state = "none" THEN NoProc
                             ELSE IF f.clients[t].gen # ed.clients[t].gen THEN Fresh
                             ELSE srv[t]]
  BY DEF Main, Fresh
<1> QED BY <1>1, <1>2 DEF Main

LEMMA MainReads ==
  ASSUME NEW f, NEW Q \in [Sids -> Process], NEW s \in Sids, srv \in [Sids -> Process],
         Moves(ed, Silent(srv, s), f, Q), Main(f, {s})
  PROVE  ed' = f /\ srv' = Q
<1> DEFINE P == Silent(srv, s)
<1>1. \A t \in Sids : Q[t] = IF f.clients[t].state = "none" THEN NoProc
                             ELSE IF f.clients[t].gen # ed.clients[t].gen THEN Fresh
                             ELSE P[t]
  <2> HIDE DEF P
  <2> QED BY DEF Moves, P
<1>2. \A t \in Sids : P[t] = IF t \in {s} THEN [srv[t] EXCEPT !.events = <<>>] ELSE srv[t]
  <2>1. P[s] = [srv[s] EXCEPT !.events = <<>>] /\ \A t \in Sids \ {s} : P[t] = srv[t]
    BY SilentFields
  <2> QED BY <2>1
<1> HIDE DEF P
<1>3. srv' = [t \in Sids |-> IF f.clients[t].state = "none" THEN NoProc
                             ELSE IF f.clients[t].gen # ed.clients[t].gen THEN Fresh
                             ELSE IF t \in {s} THEN [srv[t] EXCEPT !.events = <<>>]
                             ELSE srv[t]]
  BY DEF Main, Fresh
<1>4. \A t \in Sids : srv'[t] = Q[t]
  <2> TAKE t \in Sids
  <2>1. srv'[t] = IF f.clients[t].state = "none" THEN NoProc
                  ELSE IF f.clients[t].gen # ed.clients[t].gen THEN Fresh
                  ELSE IF t \in {s} THEN [srv[t] EXCEPT !.events = <<>>]
                  ELSE srv[t]
    BY <1>3
  <2>2. P[t] = IF t \in {s} THEN [srv[t] EXCEPT !.events = <<>>] ELSE srv[t]
    BY <1>2
  <2>3. Q[t] = IF f.clients[t].state = "none" THEN NoProc
               ELSE IF f.clients[t].gen # ed.clients[t].gen THEN Fresh ELSE P[t]
    BY <1>1
  <2> QED BY <2>1, <2>2, <2>3
<1>5. srv' = [t \in Sids |-> srv'[t]]
  BY <1>3
<1>6. srv' = Q
  BY <1>4, <1>5
<1> QED BY <1>6 DEF Main

(* LspManager::tick.                                                       *)
LEMMA TickStep ==
  ASSUME ClientInv, NEW s \in Sids, Tick(s)
  PROVE  ClientInv'
<1>1. Whole(ed, srv) /\ ops \in 0..MaxOps /\ ed.text <= ops + 1
  BY DEF ClientInv
<1>2. PICK e \in Handled(s, IF Live(ed.clients[s]) THEN srv[s].events ELSE <<>>) :
        \E f \in {Sweep(e, s)} : \E g \in Restarted(f, s) : Main(g, {s})
  BY DEF Tick
<1> DEFINE f == Sweep(e, s)
           P == Silent(srv, s)
<1>3. PICK g \in Restarted(f, s) : Main(g, {s})
  BY <1>2
<1>4. Whole(e, P) /\ Listed(ed, e)
  BY <1>1, HandledWhole DEF Tick
<1>5. ed \in Editor /\ e \in Editor /\ srv \in [Sids -> Process]
  BY <1>1, <1>4, CoreFacts DEF Whole
<1>6. Core(f, P) /\ SameLives(e, f) /\ SameTexts(e, f)
  BY <1>4, SweepCore DEF Whole
<1> HIDE DEF f, P
<1>7. Whole(f, P)
  BY <1>4, <1>5, <1>6, TextsKept DEF Whole
<1>8. Listed(ed, f)
  <2>1. SameBuffer(ed, f)
    BY <1>4, <1>6, SameTrans DEF Listed, SameTexts
  <2> QED BY <1>4, <1>6, <2>1 DEF Listed, SameLives
<1>9. Moves(ed, P, f, P)
  BY <1>5, <1>6, <1>8, MovesListed
<1>10. PICK Q : Whole(g, Q) /\ Moves(f, P, g, Q) /\ g.text = f.text
  BY <1>3, <1>7, RestartedWhole
<1>11. Moves(ed, P, g, Q)
  BY <1>9, <1>10, MovesTrans
<1>12. Q \in [Sids -> Process]
  BY <1>10, CoreFacts DEF Whole
<1>13. ed' = g /\ srv' = Q
  BY <1>3, <1>5, <1>11, <1>12, MainReads DEF P
<1>14. g.text = ed.text
  BY <1>8, <1>10 DEF Listed, SameBuffer
<1>15. ops' = ops
  BY DEF Tick
<1> QED BY <1>1, <1>10, <1>13, <1>14, <1>15 DEF ClientInv

(* A step of the main thread that ends in f.                               *)
LEMMA MainKeeps ==
  ASSUME NEW f, NEW Q, Whole(f, Q), Moves(ed, srv, f, Q), Main(f, {}),
         ops' \in 0..MaxOps, f.text <= ops' + 1
  PROVE  ClientInv'
<1>1. Q \in [Sids -> Process]
  BY CoreFacts DEF Whole
<1>2. ed' = f /\ srv' = Q
  BY <1>1, MainMoves
<1> QED BY <1>2 DEF ClientInv

(* One that starts and stops no server.                                    *)
LEMMA MainStays ==
  ASSUME ClientInv, NEW f, Whole(f, srv), SameLives(ed, f), Main(f, {}), f.text = ed.text,
         ops' = ops \/ (ops < MaxOps /\ ops' = ops + 1)
  PROVE  ClientInv'
<1>1. Core(ed, srv) /\ ops \in 0..MaxOps /\ ed.text <= ops + 1 /\ ed \in Editor
  BY CoreFacts DEF ClientInv, Whole
<1>2. Moves(ed, srv, f, srv)
  BY <1>1, MovesSame
<1>3. ops' \in 0..MaxOps
  BY <1>1, ConstantsAssumption
<1>4. ed.text \in Int
  BY <1>1, EditorFields, ConstantsAssumption DEF Texts
<1>5. f.text <= ops' + 1
  BY <1>1, <1>4
<1> QED BY <1>2, <1>3, <1>5, MainKeeps

(* send_request, when the edits were sent.                                 *)
LEMMA RequestWhole ==
  ASSUME NEW e, NEW P, NEW how \in {"pull", "ask"}, Whole(e, P), ~e.dirty
  PROVE  /\ Whole(Request(e, how), P) /\ SameLives(e, Request(e, how))
         /\ Request(e, how).text = e.text
<1>1. Core(e, P) /\ DocsFit(e) /\ RecFits(e) /\ e \in Editor
  BY CoreFacts DEF Whole
<1>2. e.rec.sid # NoSid => LET c == e.clients[e.rec.sid] IN
        e.rec.uri \notin c.tomb /\ (First(c) => c.docs[e.rec.uri] = e.text)
  BY <1>1 DEF RecFits
<1> DEFINE f == Request(e, how)
<1>3. Core(f, P) /\ SameLives(e, f) /\ SameTexts(e, f)
  BY <1>1, <1>2, RequestCore
<1> HIDE DEF f
<1>4. DocsFit(f) /\ RecFits(f)
  BY <1>1, <1>3, TextsKept
<1>5. Whole(f, P) /\ SameLives(e, f) /\ f.text = e.text
  BY <1>3, <1>4 DEF Whole, SameTexts, SameBuffer
<1> QED BY <1>5 DEF f

(* The async tick's wrapper.                                               *)
LEMMA LuaTickStep ==
  ASSUME ClientInv, NEW late \in BOOLEAN, LuaTick(late)
  PROVE  ClientInv'
<1> DEFINE s == ed.rec.sid
           c == ed.clients[s]
           d == [c EXCEPT !.told = FALSE]
           a == [ed EXCEPT !.clients[s] = d]
           b == Flush(a)
           g == Request(b, "pull")
           e == IF c.told THEN g ELSE ed
           f == IF late THEN Flush(e) ELSE e
<1>1. /\ Whole(ed, srv) /\ Core(ed, srv) /\ DocsFit(ed) /\ RecFits(ed) /\ ed \in Editor
      /\ s \in Sids
  BY CoreFacts, EditorFields DEF ClientInv, Whole, LuaTick
<1>2. Main(f, {}) /\ ops' = ops
  BY DEF LuaTick
<1>3. Whole(a, srv) /\ SameLives(ed, a) /\ a.text = ed.text
  <2>1. c \in Client
    BY <1>1, EditorFields
  <2>2. /\ d \in Client /\ Same(c, d) /\ d.deferred = c.deferred /\ d.docs = c.docs
        /\ d.tomb = c.tomb /\ d.armed = c.armed /\ d.policy = c.policy
    BY <2>1 DEF Client, Same
  <2> HIDE DEF d
  <2>3. Puts(ed, a, s, d)
    BY <1>1, <2>2, PutsOne
  <2> HIDE DEF a
  <2>4. Core(a, srv) /\ SameLives(ed, a)
    BY <1>1, <2>2, <2>3, ClientCore
  <2>5. SameBuffer(ed, a) /\ Only(ed, a, s) /\ a.clients[s] = d
    BY <2>3 DEF Puts
  <2>6. SameTexts(ed, a)
    BY <2>2, <2>5 DEF SameTexts, Only
  <2>7. DocsFit(a) /\ RecFits(a)
    BY <1>1, <2>4, <2>6, TextsKept
  <2> QED BY <2>4, <2>5, <2>7 DEF Whole, SameBuffer
<1> HIDE DEF a
<1>4. Whole(b, srv) /\ SameLives(a, b) /\ ~b.dirty /\ b.text = a.text
  BY <1>3, FlushWhole
<1> HIDE DEF b
<1>5. Whole(g, srv) /\ SameLives(b, g) /\ g.text = b.text
  BY <1>4, RequestWhole
<1> HIDE DEF g
<1>6. SameLives(ed, g) /\ SameLives(ed, ed)
  BY <1>3, <1>4, <1>5, SameTrans
<1>7. Whole(e, srv) /\ SameLives(ed, e) /\ e.text = ed.text
  BY <1>1, <1>3, <1>4, <1>5, <1>6
<1> HIDE DEF e
<1>8. Whole(Flush(e), srv) /\ SameLives(e, Flush(e)) /\ Flush(e).text = e.text
  BY <1>7, FlushWhole
<1>9. SameLives(ed, Flush(e))
  BY <1>7, <1>8, SameTrans
<1>10. Whole(f, srv) /\ SameLives(ed, f) /\ f.text = ed.text
  BY <1>7, <1>8, <1>9
<1> HIDE DEF f
<1> QED BY <1>2, <1>10, MainStays

(* attach_buffer.                                                          *)
LEMMA AttachStep ==
  ASSUME ClientInv, Attach
  PROVE  ClientInv'
<1>1. /\ Whole(ed, srv) /\ Core(ed, srv) /\ DocsFit(ed) /\ ops \in 0..MaxOps
      /\ ed.text <= ops + 1
  BY DEF ClientInv, Whole
<1>2. PICK s \in Candidates(Released(ed)) : Main(Attached(ed, s), {})
  BY DEF Attach
<1>3. ~HasLive(ed) /\ ops' = ops
  BY DEF Attach
<1>4. PICK Q : /\ Whole(Attached(ed, s), Q) /\ Moves(ed, srv, Attached(ed, s), Q)
               /\ Attached(ed, s).text = ed.text
  BY <1>1, <1>2, <1>3, AttachedWhole
<1> QED BY <1>1, <1>2, <1>3, <1>4, MainKeeps

(* A command about the text.                                               *)
LEMMA AskStep ==
  ASSUME ClientInv, Ask
  PROVE  ClientInv'
<1> DEFINE e == Flush(ed)
           f == Request(e, "ask")
<1>1. Whole(ed, srv)
  BY DEF ClientInv
<1>2. Main(f, {}) /\ ops < MaxOps /\ ops' = ops + 1
  BY DEF Ask, User
<1>3. Whole(e, srv) /\ SameLives(ed, e) /\ ~e.dirty /\ e.text = ed.text
  BY <1>1, FlushWhole
<1> HIDE DEF e
<1>4. Whole(f, srv) /\ SameLives(e, f) /\ f.text = e.text
  BY <1>3, RequestWhole
<1> HIDE DEF f
<1>5. SameLives(ed, f)
  BY <1>3, <1>4, SameTrans
<1> QED BY <1>2, <1>3, <1>4, <1>5, MainStays

(* buffer.after-save.                                                      *)
LEMMA SaveStep ==
  ASSUME ClientInv, Save
  PROVE  ClientInv'
<1> DEFINE e == Flush(ed)
           s == e.rec.sid
           m == [msg |-> "save", uri |-> e.rec.uri, text |-> e.text]
           g == Notify(e, s, m)
           f == IF Ready(e.clients[s]) THEN g ELSE e
<1>1. Whole(ed, srv) /\ ed \in Editor
  BY CoreFacts DEF ClientInv, Whole
<1>2. Main(f, {}) /\ ops < MaxOps /\ ops' = ops + 1 /\ ed.rec.sid # NoSid
  BY DEF Save, DidSave, User, HasLive
<1>3. /\ Whole(e, srv) /\ SameLives(ed, e) /\ e.rec = ed.rec /\ e.text = ed.text
      /\ ~e.dirty
  BY <1>1, FlushWhole
<1> HIDE DEF e
<1>4. Core(e, srv) /\ DocsFit(e) /\ RecFits(e) /\ e \in Editor
  BY <1>3, CoreFacts DEF Whole
<1>5. s \in Sids /\ e.rec.uri \in Uris /\ s # NoSid /\ e.text \in Nat
  BY <1>2, <1>3, <1>4, EditorFields, ConstantsAssumption DEF Texts
<1>6. First(e.clients[s]) => e.clients[s].docs[e.rec.uri] = e.text
  BY <1>3, <1>4, <1>5 DEF RecFits
<1>7. m \in Note /\ m.msg = "save" /\ m.uri = e.rec.uri /\ m.text = e.text
  BY <1>5 DEF Note
<1> HIDE DEF m
<1>8. Core(g, srv) /\ SameLives(e, g) /\ SameTexts(e, g)
  BY <1>4, <1>5, <1>6, <1>7, NotifyCore
<1> HIDE DEF g
<1>9. Whole(g, srv) /\ g.text = e.text
  BY <1>4, <1>8, TextsKept DEF Whole, SameTexts, SameBuffer
<1>10. SameLives(ed, g)
  BY <1>3, <1>8, SameTrans
<1>11. Whole(f, srv) /\ SameLives(ed, f) /\ f.text = ed.text
  BY <1>3, <1>9, <1>10
<1> HIDE DEF f
<1> QED BY <1>2, <1>11, MainStays

(* The buffer or the attachment has changed.                               *)
LEMMA WithRec ==
  ASSUME NEW e \in Editor, NEW r \in [sid : Sids \cup {NoSid}, uri : Uris]
  PROVE  LET f == [e EXCEPT !.rec = r] IN
         /\ Buffered(e, f) /\ f \in Editor
         /\ f.rec = r /\ f.uri = e.uri /\ f.dirty = e.dirty /\ f.text = e.text
BY DEF Editor, Buffered, SameJobs

LEMMA WithUri ==
  ASSUME NEW e \in Editor, NEW u \in Uris
  PROVE  LET f == [e EXCEPT !.uri = u] IN
         /\ Buffered(e, f) /\ f \in Editor
         /\ f.rec = e.rec /\ f.uri = u /\ f.dirty = e.dirty /\ f.text = e.text
BY DEF Editor, Buffered, SameJobs

LEMMA WithDirty ==
  ASSUME NEW e \in Editor, NEW dirty \in BOOLEAN
  PROVE  LET f == [e EXCEPT !.dirty = dirty] IN
         /\ Buffered(e, f) /\ f \in Editor
         /\ f.rec = e.rec /\ f.uri = e.uri /\ f.dirty = dirty /\ f.text = e.text
BY DEF Editor, Buffered, SameJobs

LEMMA WithText ==
  ASSUME NEW e \in Editor, NEW text \in Texts \ {0}
  PROVE  LET f == [e EXCEPT !.text = text] IN
         /\ Buffered(e, f) /\ f \in Editor
         /\ f.rec = e.rec /\ f.uri = e.uri /\ f.dirty = e.dirty /\ f.text = text
BY DEF Editor, Buffered, SameJobs

(* buffer.after-edit.                                                      *)
LEMMA EditStep ==
  ASSUME ClientInv, Edit
  PROVE  ClientInv'
<1> DEFINE text == ed.text + 1
           a == [ed EXCEPT !.text = text]
           dirty == TRUE
           b == [a EXCEPT !.dirty = dirty]
           g == MarkStale(b, a.rec.sid, a.rec.uri)
           f == IF a.rec.sid = NoSid THEN a ELSE g
<1>1. /\ Whole(ed, srv) /\ Core(ed, srv) /\ DocsFit(ed) /\ RecFits(ed) /\ ed \in Editor
      /\ ops \in 0..MaxOps /\ ed.text <= ops + 1 /\ ed.text \in Texts \ {0}
  BY CoreFacts, EditorFields DEF ClientInv, Whole
<1>2. Main(f, {}) /\ ops < MaxOps /\ ops' = ops + 1
  <2>1. Main(LET e == [ed EXCEPT !.text = @ + 1] IN
             IF e.rec.sid = NoSid THEN e
             ELSE MarkStale([e EXCEPT !.dirty = TRUE], e.rec.sid, e.rec.uri), {})
    BY DEF Edit
  <2> QED BY <2>1 DEF Edit, User
<1>3. text \in Texts \ {0} /\ ops' \in 0..MaxOps /\ text <= ops' + 1
  BY <1>1, <1>2, ConstantsAssumption DEF Texts
<1> HIDE DEF text
<1>4. /\ Buffered(ed, a) /\ a.rec = ed.rec /\ a.uri = ed.uri /\ a.dirty = ed.dirty
      /\ a.text = text
  BY <1>1, <1>3, WithText
<1> HIDE DEF a
<1>5. Core(a, srv) /\ SameLives(ed, a) /\ a.clients = ed.clients /\ a \in Editor
  BY <1>1, <1>4, BufferedCore DEF Buffered
<1>6. dirty \in BOOLEAN /\ dirty
  OBVIOUS
<1> HIDE DEF dirty
<1>7. /\ Buffered(a, b) /\ b.rec = a.rec /\ b.uri = a.uri /\ b.dirty = dirty
      /\ b.text = a.text
  BY <1>5, <1>6, WithDirty
<1> HIDE DEF b
<1>8. Core(b, srv) /\ SameLives(a, b) /\ b.clients = a.clients /\ b \in Editor
  BY <1>5, <1>7, BufferedCore DEF Buffered
<1>9. DocsFit(a) /\ DocsFit(b)
  BY <1>1, <1>4, <1>5, <1>7, <1>8 DEF DocsFit
<1>10. CASE a.rec.sid = NoSid
  <2>1. Whole(a, srv)
    BY <1>5, <1>9, <1>10 DEF Whole, RecFits
  <2>2. Moves(ed, srv, a, srv)
    BY <1>1, <1>5, MovesSame
  <2> QED BY <1>2, <1>3, <1>4, <1>10, <2>1, <2>2, MainKeeps
<1>11. CASE a.rec.sid # NoSid
  <2>1. a.rec.sid \in Sids /\ a.rec.uri \in Uris
    BY <1>5, <1>11, EditorFields
  <2>2. RecFits(b) /\ b.clients[a.rec.sid].gen # 0
    BY <1>1, <1>4, <1>5, <1>6, <1>7, <1>8, <1>11 DEF RecFits
  <2>3. Core(g, srv) /\ SameLives(b, g) /\ SameTexts(b, g)
    BY <1>8, <2>1, <2>2, MarkCore
  <2> HIDE DEF g
  <2>4. Whole(g, srv)
    BY <1>8, <1>9, <2>2, <2>3, TextsKept DEF Whole
  <2>5. SameLives(ed, g)
    BY <1>5, <1>8, <2>3, SameTrans
  <2>6. Moves(ed, srv, g, srv)
    BY <1>1, <2>5, MovesSame
  <2>7. g.text = text
    BY <1>4, <1>7, <2>3 DEF SameTexts, SameBuffer
  <2> QED BY <1>2, <1>3, <1>11, <2>4, <2>6, <2>7, MainKeeps
<1> QED BY <1>10, <1>11

(* A request's token is flipped, or it is late.                            *)
LEMMA MarkedLate ==
  ASSUME ClientInv, NEW f \in Editor, f.clients = ed.clients, f.out = ed.out,
         SameJobs(ed, f), f.diag = ed.diag, SameBuffer(ed, f), Main(f, {}),
         ops' = ops \/ (ops < MaxOps /\ ops' = ops + 1)
  PROVE  ClientInv'
<1>1. /\ Whole(ed, srv) /\ Core(ed, srv) /\ DocsFit(ed) /\ RecFits(ed) /\ ed \in Editor
  BY CoreFacts DEF ClientInv, Whole
<1>2. Core(f, srv) /\ SameLives(ed, f)
  BY <1>1, BufferedCore DEF Buffered
<1>3. SameTexts(ed, f)
  BY DEF SameTexts
<1>4. Whole(f, srv) /\ f.text = ed.text
  BY <1>1, <1>2, <1>3, TextsKept DEF Whole, SameBuffer
<1> QED BY <1>2, <1>4, MainStays

LEMMA CancelStep ==
  ASSUME ClientInv, NEW r \in 1..MaxJobs, Cancel(r)
  PROVE  ClientInv'
<1> DEFINE token == ed.token \cup {r}
           f == [ed EXCEPT !.token = token]
<1>1. ed \in Editor /\ token \subseteq Nat
  <2>1. ed \in Editor
    BY CoreFacts DEF ClientInv, Whole
  <2> QED BY <2>1, EditorFields
<1>2. Main(f, {}) /\ ops < MaxOps /\ ops' = ops + 1
  BY DEF Cancel, User
<1> HIDE DEF token
<1>3. /\ f \in Editor /\ f.clients = ed.clients /\ f.out = ed.out
      /\ SameJobs(ed, f) /\ f.diag = ed.diag /\ SameBuffer(ed, f)
  BY <1>1 DEF Editor, SameJobs, SameBuffer
<1> HIDE DEF f
<1> QED BY <1>2, <1>3, MarkedLate

LEMMA LateStep ==
  ASSUME ClientInv, NEW r \in 1..MaxJobs, Late(r)
  PROVE  ClientInv'
<1> DEFINE late == ed.late \cup {r}
           f == [ed EXCEPT !.late = late]
<1>1. ed \in Editor /\ late \subseteq Nat
  <2>1. ed \in Editor
    BY CoreFacts DEF ClientInv, Whole
  <2> QED BY <2>1, EditorFields
<1>2. Main(f, {}) /\ ops' = ops
  BY DEF Late
<1> HIDE DEF late
<1>3. /\ f \in Editor /\ f.clients = ed.clients /\ f.out = ed.out
      /\ SameJobs(ed, f) /\ f.diag = ed.diag /\ SameBuffer(ed, f)
  BY <1>1 DEF Editor, SameJobs, SameBuffer
<1> HIDE DEF f
<1> QED BY <1>2, <1>3, MarkedLate

(* The back-off of a crash is over.                                        *)
LEMMA BackoffStep ==
  ASSUME ClientInv, NEW s \in Sids, BackoffPasses(s)
  PROVE  ClientInv'
<1> DEFINE c == ed.clients[s]
           d == [c EXCEPT !.due = TRUE]
           f == [ed EXCEPT !.clients[s] = d]
<1>1. /\ Core(ed, srv) /\ DocsFit(ed) /\ RecFits(ed) /\ ed \in Editor /\ c \in Client
  BY CoreFacts DEF ClientInv, Whole
<1>2. Main(f, {}) /\ ops' = ops
  BY DEF BackoffPasses
<1>3. /\ d \in Client /\ Same(c, d) /\ d.deferred = c.deferred /\ d.docs = c.docs
      /\ d.tomb = c.tomb /\ d.armed = c.armed /\ d.policy = c.policy
  BY <1>1 DEF Client, Same
<1> HIDE DEF d
<1>4. Puts(ed, f, s, d)
  BY <1>1, <1>3, PutsOne
<1> HIDE DEF f
<1>5. Core(f, srv) /\ SameLives(ed, f)
  BY <1>1, <1>3, <1>4, ClientCore
<1>6. SameBuffer(ed, f) /\ Only(ed, f, s) /\ f.clients[s] = d
  BY <1>4 DEF Puts
<1>7. SameTexts(ed, f)
  BY <1>3, <1>6 DEF SameTexts, Only
<1>8. Whole(f, srv) /\ f.text = ed.text
  BY <1>1, <1>5, <1>6, <1>7, TextsKept DEF Whole, SameBuffer
<1> QED BY <1>2, <1>5, <1>8, MainStays

(* The attached document is closed and forgotten.                          *)
LEMMA LeftCore ==
  ASSUME NEW e, NEW P, NEW s \in Sids, NEW u \in Uris, NEW b, Whole(e, P),
         e.rec.sid = s, e.rec.uri = u, s # NoSid, Buffered(Closed(e, s, u), b)
  PROVE  /\ Core(Closed(e, s, u), P)
         /\ LET f == ForgetUri(b, s, u) IN
            Core(f, P) /\ SameLives(e, f) /\ Bare(f) /\ SameBuffer(b, f)
<1> DEFINE a == Closed(e, s, u)
           f == ForgetUri(b, s, u)
<1>1. Core(e, P) /\ DocsFit(e) /\ RecFits(e) /\ e \in Editor
  BY CoreFacts DEF Whole
<1>2. Core(a, P) /\ Wrote(e, a, s, u, 0)
  <2>1. First(e.clients[s]) => e.clients[s].docs[u] # 0
    BY <1>1 DEF RecFits
  <2> QED BY <1>1, <2>1, CloseCore
<1> HIDE DEF a
<1>3. Core(b, P) /\ SameLives(a, b) /\ b.clients = a.clients /\ b \in Editor
  BY <1>2, BufferedCore DEF Buffered, a
<1>4. \A v \in Uris : b.clients[s].docs[v] = IF v = u THEN 0 ELSE e.clients[s].docs[v]
  <2>1. e.clients[s].docs \in [Uris -> Texts]
    <3>1. e.clients[s] \in Client
      BY <1>1, EditorFields
    <3> QED BY <3>1, ClientFields
  <2>2. b.clients[s].docs = [e.clients[s].docs EXCEPT ![u] = 0]
    BY <1>2, <1>3 DEF Wrote
  <2> QED BY <2>1, <2>2
<1>5. SameLives(e, b)
  BY <1>2, <1>3, SameTrans DEF Wrote
<1>6. Core(f, P) /\ Fewer(b, f)
  BY <1>3, <1>4, ForgetUriCore
<1> HIDE DEF f
<1>7. SameBuffer(b, f) /\ SameLives(b, f)
  BY <1>6 DEF Fewer
<1>8. SameLives(e, f)
  BY <1>5, <1>7, SameTrans
<1>9. Bare(f)
  <2> SUFFICES ASSUME NEW t \in Sids, First(f.clients[t]), NEW v \in Uris,
                      f.clients[t].docs[v] # 0
               PROVE  FALSE
    BY DEF Bare
  <2>1. First(e.clients[t])
    BY <1>8 DEF SameLives, First, Live
  <2>2. b.clients[t].docs[v] # 0
    BY <1>6 DEF Fewer
  <2>3. CASE t = s
    <3>1. v # u /\ e.clients[s].docs[v] # 0
      BY <1>4, <2>2, <2>3
    <3> QED BY <1>1, <2>1, <2>3, <3>1 DEF DocsFit
  <2>4. CASE t # s
    <3>1. b.clients[t].docs = e.clients[t].docs
      BY <1>2, <1>3, <2>4 DEF Wrote
    <3> QED BY <1>1, <2>1, <2>2, <2>4, <3>1 DEF DocsFit
  <2> QED BY <2>3, <2>4
<1> QED BY <1>2, <1>6, <1>7, <1>8, <1>9 DEF a, f

(* resource.deleted.                                                       *)
LEMMA DeleteStep ==
  ASSUME ClientInv, Delete
  PROVE  ClientInv'
<1> DEFINE s == ed.rec.sid
           u == ed.rec.uri
           a == Closed(ed, s, u)
           dirty == FALSE
           b == [a EXCEPT !.dirty = dirty]
           f == ForgetUri(b, s, u)
           r == [sid |-> NoSid, uri |-> u]
           g == [f EXCEPT !.rec = r]
<1>1. /\ Whole(ed, srv) /\ Core(ed, srv) /\ DocsFit(ed) /\ RecFits(ed) /\ ed \in Editor
  BY CoreFacts DEF ClientInv, Whole
<1>2. s \in Sids /\ u \in Uris /\ s # NoSid
  BY <1>1, EditorFields DEF Delete
<1>3. Main(g, {}) /\ ops < MaxOps /\ ops' = ops + 1
  BY DEF Delete, User, Closed
<1>4. dirty \in BOOLEAN /\ r \in [sid : Sids \cup {NoSid}, uri : Uris] /\ r.sid = NoSid
  BY <1>2
<1> HIDE DEF dirty, r
<1>5. a \in Editor /\ Core(a, srv) /\ SameLives(ed, a) /\ a.text = ed.text
  <2>1. First(ed.clients[s]) => ed.clients[s].docs[u] # 0
    BY <1>1, <1>2 DEF RecFits
  <2>2. Core(a, srv) /\ Wrote(ed, a, s, u, 0)
    BY <1>1, <1>2, <2>1, CloseCore
  <2> QED BY <2>2, CoreFacts DEF Wrote, SameBuffer
<1>6. Buffered(a, b) /\ b.text = a.text
  <2> HIDE DEF a
  <2> QED BY <1>4, <1>5, WithDirty
<1> HIDE DEF b
<1>7. Core(f, srv) /\ SameLives(ed, f) /\ Bare(f) /\ SameBuffer(b, f)
  <2> HIDE DEF s, u
  <2> QED BY <1>1, <1>2, <1>6, LeftCore DEF a, s, u
<1> HIDE DEF f
<1>8. f \in Editor
  BY <1>7, CoreFacts
<1>9. Buffered(f, g) /\ g \in Editor /\ g.rec = r /\ g.text = f.text
  BY <1>4, <1>8, WithRec
<1> HIDE DEF g
<1>10. Core(g, srv) /\ SameLives(f, g) /\ g.clients = f.clients
  BY <1>7, <1>9, BufferedCore DEF Buffered
<1>11. DocsFit(g)
  BY <1>7, <1>10 DEF DocsFit, Bare
<1>12. RecFits(g)
  BY <1>4, <1>9 DEF RecFits
<1>13. Whole(g, srv) /\ SameLives(ed, g)
  BY <1>7, <1>10, <1>11, <1>12, SameTrans DEF Whole
<1>14. g.text = ed.text
  BY <1>5, <1>6, <1>7, <1>9 DEF SameBuffer
<1> QED BY <1>3, <1>13, <1>14, MainStays

(* resource.renamed.                                                       *)
LEMMA RenameStep ==
  ASSUME ClientInv, NEW u \in Uris, Rename(u)
  PROVE  ClientInv'
<1> DEFINE e == Flush(ed)
           s == e.rec.sid
           w == e.rec.uri
           a == Closed(e, s, w)
           f == ForgetUri(a, s, w)
           b == [f EXCEPT !.uri = u]
           dirty == FALSE
           g == [b EXCEPT !.dirty = dirty]
<1>1. /\ Whole(ed, srv) /\ Core(ed, srv) /\ DocsFit(ed) /\ RecFits(ed) /\ ed \in Editor
      /\ ops \in 0..MaxOps /\ ed.text <= ops + 1 /\ ed.text \in Texts \ {0}
  BY CoreFacts, EditorFields DEF ClientInv, Whole
<1>2. ops < MaxOps /\ ops' = ops + 1
  BY DEF Rename, User
<1>3. ops' \in 0..MaxOps /\ ed.text <= ops' + 1
  BY <1>1, <1>2, ConstantsAssumption DEF Texts
<1>4. CASE ed.rec.sid = NoSid
  <2> DEFINE k == [ed EXCEPT !.uri = u]
  <2>1. Main(k, {})
    BY <1>4 DEF Rename
  <2>2. Buffered(ed, k) /\ k.rec = ed.rec /\ k.dirty = ed.dirty /\ k.text = ed.text
    BY <1>1, WithUri
  <2> HIDE DEF k
  <2>3. Core(k, srv) /\ SameLives(ed, k) /\ k.clients = ed.clients
    BY <1>1, <2>2, BufferedCore DEF Buffered
  <2>4. Whole(k, srv)
    BY <1>1, <2>2, <2>3 DEF Whole, DocsFit, RecFits
  <2> QED BY <1>2, <2>1, <2>2, <2>3, <2>4, MainStays
<1>5. CASE ed.rec.sid # NoSid
  <2>1. PICK t \in Candidates(g) : Main(Opened(EnsureServer(g, t), t), {})
    BY <1>5 DEF Rename, Closed
  <2>2. Whole(e, srv) /\ SameLives(ed, e) /\ e.rec = ed.rec /\ e.text = ed.text
    BY <1>1, FlushWhole
  <2>3. Core(e, srv) /\ RecFits(e) /\ e \in Editor
    BY <2>2, CoreFacts DEF Whole
  <2> HIDE DEF e
  <2>4. s \in Sids /\ w \in Uris /\ s # NoSid
    BY <1>5, <2>2, <2>3, EditorFields
  <2>5. a \in Editor /\ a.text = e.text /\ Buffered(a, a)
    <3>1. First(e.clients[s]) => e.clients[s].docs[w] # 0
      BY <2>3, <2>4 DEF RecFits
    <3>2. Core(a, srv) /\ Wrote(e, a, s, w, 0)
      BY <2>3, <2>4, <3>1, CloseCore
    <3> HIDE DEF a
    <3> QED BY <3>2, CoreFacts DEF Wrote, SameBuffer, Buffered, SameJobs
  <2>6. Core(f, srv) /\ SameLives(e, f) /\ Bare(f) /\ SameBuffer(a, f)
    <3> HIDE DEF s, w
    <3> QED BY <2>2, <2>4, <2>5, LeftCore DEF a, s, w
  <2> HIDE DEF f
  <2>7. f \in Editor /\ f.text = ed.text
    BY <2>2, <2>5, <2>6, CoreFacts DEF SameBuffer
  <2>8. Buffered(f, b) /\ b \in Editor /\ b.text = f.text
    BY <2>7, WithUri
  <2> HIDE DEF b
  <2>9. Core(b, srv) /\ SameLives(f, b) /\ b.clients = f.clients
    BY <2>6, <2>8, BufferedCore DEF Buffered
  <2>10. dirty \in BOOLEAN
    OBVIOUS
  <2> HIDE DEF dirty
  <2>11. Buffered(b, g) /\ g \in Editor /\ g.text = b.text
    BY <2>8, <2>10, WithDirty
  <2> HIDE DEF g
  <2>12. Core(g, srv) /\ SameLives(b, g) /\ g.clients = b.clients
    BY <2>9, <2>11, BufferedCore DEF Buffered
  <2>13. Bare(g)
    BY <2>6, <2>9, <2>12 DEF Bare
  <2>14. SameLives(ed, g)
    BY <2>2, <2>6, <2>9, <2>12, SameTrans
  <2>15. Moves(ed, srv, g, srv)
    BY <1>1, <2>14, MovesSame
  <2> DEFINE h == EnsureServer(g, t)
             k == Opened(h, t)
  <2>16. /\ t \in Sids
         /\ \E Q : /\ Core(h, Q) /\ Moves(g, srv, h, Q) /\ Bare(h) /\ SameBuffer(g, h)
                   /\ h.clients[t].gen # 0
    BY <2>1, <2>12, <2>13, EnsureCore
  <2> HIDE DEF h
  <2>17. PICK Q : /\ Core(h, Q) /\ Moves(g, srv, h, Q) /\ Bare(h) /\ SameBuffer(g, h)
                  /\ h.clients[t].gen # 0
    BY <2>16
  <2>18. Whole(k, Q) /\ Moves(h, Q, k, Q) /\ k.text = h.text
    BY <2>16, <2>17, OpenedCore
  <2>19. Main(k, {})
    BY <2>1 DEF h
  <2> HIDE DEF k
  <2>20. Moves(ed, srv, h, Q)
    BY <2>15, <2>17, MovesTrans
  <2>21. Moves(ed, srv, k, Q)
    BY <2>18, <2>20, MovesTrans
  <2>22. k.text = ed.text
    BY <2>7, <2>8, <2>11, <2>17, <2>18 DEF SameBuffer
  <2> QED BY <1>3, <2>18, <2>19, <2>21, <2>22, MainKeeps
<1> QED BY <1>4, <1>5

(* stop: the restart is called off first.                                  *)
LEMMA CalledOff ==
  ASSUME NEW e, NEW P, NEW s \in Sids, Whole(e, P)
  PROVE  LET f == [e EXCEPT !.clients[s].policy = "never", !.clients[s].armed = FALSE] IN
         /\ Whole(f, P) /\ SameLives(e, f) /\ f.text = e.text
         /\ f.clients[s].policy = "never" /\ ~f.clients[s].armed
<1> DEFINE c == e.clients[s]
           d == [c EXCEPT !.policy = "never", !.armed = FALSE]
           f == [e EXCEPT !.clients[s] = d]
<1>1. Core(e, P) /\ DocsFit(e) /\ RecFits(e) /\ e \in Editor /\ c \in Client
  BY CoreFacts DEF Whole
<1>2. f = [e EXCEPT !.clients[s].policy = "never", !.clients[s].armed = FALSE]
  BY <1>1 DEF Editor
<1>3. /\ d \in Client /\ Same(c, d) /\ d.deferred = c.deferred /\ d.docs = c.docs
      /\ d.tomb = c.tomb /\ ~d.armed /\ d.policy = "never"
  BY <1>1 DEF Client, Same
<1> HIDE DEF d
<1>4. Puts(e, f, s, d)
  BY <1>1, <1>3, PutsOne
<1> HIDE DEF f
<1>5. Core(f, P) /\ SameLives(e, f)
  BY <1>1, <1>3, <1>4, ClientCore
<1>6. SameBuffer(e, f) /\ Only(e, f, s) /\ f.clients[s] = d
  BY <1>4 DEF Puts
<1>7. SameTexts(e, f)
  BY <1>3, <1>6 DEF SameTexts, Only
<1>8. Whole(f, P) /\ f.text = e.text
  BY <1>1, <1>5, <1>6, <1>7, TextsKept DEF Whole, SameBuffer
<1> QED BY <1>2, <1>3, <1>5, <1>6, <1>8

(* A server that was stopped.                                              *)
Stopping(e, f, s) ==
  /\ f \in Editor /\ Only(e, f, s) /\ SameBuffer(e, f) /\ SameJobs(e, f)
  /\ f.diag = e.diag
  /\ LET c == e.clients[s]
         d == f.clients[s]
     IN  /\ d.state = "shutdown" /\ d.gen = c.gen /\ d.tomb = c.tomb /\ d.docs = c.docs
         /\ d.policy = c.policy /\ d.armed = c.armed /\ c.pending \subseteq d.pending
         /\ d.pending \subseteq c.pending \cup {Shut} /\ d.dropped = c.dropped

LEMMA StoppedWhole ==
  ASSUME NEW e, NEW P, NEW f, NEW s \in Sids, Whole(e, P), Live(e.clients[s]),
         e.clients[s].policy = "never", ~e.clients[s].armed, Stopping(e, f, s),
         ServerFits(s, f.clients[s], f.out[s], P[s], e.jobs)
  PROVE  Whole(f, P) /\ Listed(e, f) /\ f.text = e.text
<1> DEFINE c == e.clients[s]
           d == f.clients[s]
<1>1. /\ Core(e, P) /\ DocsFit(e) /\ RecFits(e) /\ e \in Editor /\ c \in Client
      /\ ClientFits(s, c, e.jobs) /\ JobsFit(e)
  BY CoreFacts DEF Whole
<1>2. /\ f \in Editor /\ Only(e, f, s) /\ SameBuffer(e, f) /\ f.diag = e.diag
      /\ f.jobs = e.jobs /\ f.run = e.run /\ f.routed = e.routed
      /\ f.store = e.store /\ f.stray = e.stray
      /\ d.state = "shutdown" /\ d.gen = c.gen /\ d.tomb = c.tomb /\ d.docs = c.docs
      /\ d.policy = c.policy /\ d.armed = c.armed /\ c.pending \subseteq d.pending
      /\ d.pending \subseteq c.pending \cup {Shut} /\ d.dropped = c.dropped
  BY DEF Stopping, SameJobs
<1>3. c.policy = "never" /\ ~c.armed /\ Live(c)
  OBVIOUS
<1> HIDE DEF c
<1>4. ClientFits(s, d, e.jobs)
  <2>1. c.gen # 0
    BY <1>1, <1>3 DEF ClientFits, Live
  <2> HIDE DEF d
  <2> QED BY <1>1, <1>2, <1>3, <2>1 DEF ClientFits
<1>5. Live(d)
  BY <1>2 DEF Live
<1>6. Core(f, P)
  <2>1. \A r \in f.routed : e.jobs[r].sid = s => r \in d.pending
    <3>1. \A r \in e.routed : e.jobs[r].sid = s => r \in c.pending
      BY <1>1 DEF JobsFit, c
    <3> QED BY <1>2, <3>1
  <2>2. f.run \subseteq e.run /\ f.run \subseteq f.routed
    BY <1>1, <1>2 DEF JobsFit
  <2>3. d.gen = e.clients[s].gen /\ d.tomb = e.clients[s].tomb
    BY <1>2 DEF c
  <2> QED BY <1>1, <1>2, <1>4, <1>5, <2>1, <2>2, <2>3, StepCore
<1>7. \A t \in Sids : t = s \/ f.clients[t] = e.clients[t]
  BY <1>2 DEF Only
<1>8. DocsFit(f) /\ RecFits(f)
  <2>1. ASSUME NEW t \in Sids
        PROVE  /\ f.clients[t].gen = e.clients[t].gen
               /\ f.clients[t].tomb \subseteq e.clients[t].tomb
               /\ First(f.clients[t]) =>
                    First(e.clients[t]) /\ f.clients[t].docs = e.clients[t].docs
    BY <1>2, <1>3, <1>7 DEF First, c
  <2> QED BY <1>1, <1>2, <2>1, TextsFollow
<1>9. Listed(e, f)
  <2>1. e.clients[s].state # "none"
    BY <1>3 DEF Live, c
  <2> QED BY <1>2, <1>7, <2>1 DEF Listed, c
<1> QED BY <1>2, <1>6, <1>8, <1>9 DEF Whole, SameBuffer

LEMMA StopStep ==
  ASSUME ClientInv, NEW s \in Sids, Stop(s)
  PROVE  ClientInv'
<1> DEFINE e == [ed EXCEPT !.clients[s].policy = "never", !.clients[s].armed = FALSE]
           c == e.clients[s]
           pending == c.pending \cup {Shut}
           y == [c EXCEPT !.pending = pending]
           z == [y EXCEPT !.state = "shutdown"]
           m == [msg |-> "shutdown"]
           b == [e EXCEPT !.clients[s] = z]
           g == Send(b, s, m)
           x == [[c EXCEPT !.term = TRUE] EXCEPT !.state = "shutdown"]
           h == [e EXCEPT !.clients[s] = x]
           f == IF ~Live(c) THEN e ELSE IF Ready(c) THEN g ELSE h
<1>1. /\ Whole(ed, srv) /\ Core(ed, srv) /\ ed \in Editor /\ ops \in 0..MaxOps
      /\ ed.text <= ops + 1 /\ ed.text \in Texts \ {0}
  BY CoreFacts, EditorFields DEF ClientInv, Whole
<1>2. /\ Whole(e, srv) /\ SameLives(ed, e) /\ e.text = ed.text
      /\ c.policy = "never" /\ ~c.armed
  BY <1>1, CalledOff
<1>3. /\ ops' \in 0..MaxOps /\ ed.text <= ops' + 1 /\ ops < MaxOps /\ ops' = ops + 1
  BY <1>1, ConstantsAssumption DEF Stop, User, Texts
<1>4. Main(IF ~Live(c) THEN e
           ELSE IF Ready(c)
           THEN Send([e EXCEPT !.clients[s].pending = @ \cup {Shut},
                               !.clients[s].state = "shutdown"],
                     s, [msg |-> "shutdown"])
           ELSE [e EXCEPT !.clients[s].term = TRUE,
                          !.clients[s].state = "shutdown"], {})
  BY DEF Stop
<1> HIDE DEF e
<1>5. /\ Core(e, srv) /\ e \in Editor /\ c \in Client /\ e.out[s] \in Seq(Message)
      /\ srv[s] \in Process /\ ServerFits(s, c, e.out[s], srv[s], e.jobs)
      /\ ClientFits(s, c, e.jobs)
  BY <1>2, CoreFacts DEF Whole
<1>6. Main(f, {})
  <2>1. b = [e EXCEPT !.clients[s].pending = @ \cup {Shut}, !.clients[s].state = "shutdown"]
    BY <1>5 DEF Editor
  <2>2. h = [e EXCEPT !.clients[s].term = TRUE, !.clients[s].state = "shutdown"]
    BY <1>5 DEF Editor
  <2> HIDE DEF b, h
  <2> QED BY <1>4, <2>1, <2>2
<1>7. CASE ~Live(c)
  <2>1. f = e
    BY <1>7
  <2> HIDE DEF f
  <2> QED BY <1>1, <1>2, <1>3, <1>6, <2>1, MainStays
<1>8. ASSUME Live(c), Whole(f, srv), Listed(e, f), f.text = e.text
      PROVE  ClientInv'
  <2> HIDE DEF f
  <2>1. Listed(ed, f)
    <3>1. SameLives(ed, e) /\ Listed(e, f)
      BY <1>2, <1>8
    <3>2. SameBuffer(ed, e)
      BY <1>1 DEF SameBuffer, e
    <3>3. SameBuffer(ed, f)
      BY <3>1, <3>2, SameTrans DEF Listed
    <3> QED BY <3>1, <3>3 DEF Listed, SameLives
  <2>2. Moves(ed, srv, f, srv)
    BY <1>1, <1>8, <2>1, MovesListed DEF Whole
  <2> QED BY <1>2, <1>3, <1>6, <1>8, <2>2, MainKeeps
<1>9. CASE Live(c) /\ Ready(c)
  <2>1. f = g
    BY <1>9
  <2>2. pending \subseteq Int
    BY <1>5, ClientFields DEF Shut
  <2> HIDE DEF f
  <2>3. /\ z \in Client /\ z.state = "shutdown" /\ z.gen = c.gen /\ z.term = c.term
        /\ z.deferred = c.deferred /\ z.docs = c.docs /\ z.tomb = c.tomb
        /\ z.pending = pending /\ z.dropped = c.dropped /\ z.armed = c.armed
        /\ z.policy = c.policy
    <3> HIDE DEF pending, c
    <3> QED BY <1>5, <2>2 DEF Client
  <2> HIDE DEF z
  <2>4. Puts(e, b, s, z)
    BY <1>5, <2>3, PutsOne
  <2> HIDE DEF b
  <2>5. m \in Message /\ m.msg = "shutdown"
    BY DEF Message
  <2> HIDE DEF m
  <2>6. /\ b \in Editor /\ b.clients[s] = z /\ b.out = e.out /\ Only(e, b, s)
        /\ SameBuffer(e, b) /\ SameJobs(e, b) /\ b.diag = e.diag
    BY <2>4 DEF Puts
  <2>7. /\ g \in Editor /\ g.out[s] = Append(b.out[s], m) /\ g.clients = b.clients
        /\ Only(b, g, s) /\ SameBuffer(b, g) /\ SameJobs(b, g) /\ g.diag = b.diag
    BY <2>5, <2>6, SendFields
  <2> HIDE DEF g
  <2>8. /\ Only(e, g, s) /\ SameBuffer(e, g) /\ SameJobs(e, g) /\ g.diag = e.diag
        /\ g.clients[s] = z /\ g.out[s] = Append(e.out[s], m)
    BY <2>6, <2>7 DEF Only, SameBuffer, SameJobs
  <2>9. Stopping(e, g, s)
    BY <2>3, <2>7, <2>8 DEF Stopping, pending
  <2>10. ServerFits(s, g.clients[s], g.out[s], srv[s], e.jobs)
    <3>1. z.pending = c.pending \cup {Shut}
      BY <2>3 DEF pending
    <3>2. ServerFits(s, z, Append(e.out[s], m), srv[s], e.jobs)
      BY <1>5, <1>9, <2>3, <2>5, <3>1, StopAskedFits
    <3> QED BY <2>8, <3>2
  <2>11. Whole(g, srv) /\ Listed(e, g) /\ g.text = e.text
    BY <1>2, <1>9, <2>9, <2>10, StoppedWhole
  <2> QED BY <1>8, <1>9, <2>1, <2>11
<1>10. CASE Live(c) /\ ~Ready(c)
  <2>1. f = h
    BY <1>10
  <2> HIDE DEF f
  <2>2. /\ x \in Client /\ x.state = "shutdown" /\ x.gen = c.gen /\ x.term
        /\ x.deferred = c.deferred /\ x.docs = c.docs /\ x.tomb = c.tomb
        /\ x.pending = c.pending /\ x.dropped = c.dropped /\ x.armed = c.armed
        /\ x.policy = c.policy
    <3> HIDE DEF c
    <3> QED BY <1>5 DEF Client
  <2> HIDE DEF x
  <2>3. Puts(e, h, s, x)
    BY <1>5, <2>2, PutsOne
  <2> HIDE DEF h
  <2>4. /\ h \in Editor /\ h.clients[s] = x /\ h.out = e.out /\ Only(e, h, s)
        /\ SameBuffer(e, h) /\ SameJobs(e, h) /\ h.diag = e.diag
    BY <2>3 DEF Puts
  <2>5. Stopping(e, h, s)
    BY <2>2, <2>4 DEF Stopping
  <2>6. ServerFits(s, h.clients[s], h.out[s], srv[s], e.jobs)
    <3>1. ServerFits(s, x, e.out[s], srv[s], e.jobs)
      BY <1>5, <1>10, <2>2, StopKilledFits
    <3> QED BY <2>4, <3>1
  <2>7. Whole(h, srv) /\ Listed(e, h) /\ h.text = e.text
    BY <1>2, <1>10, <2>5, <2>6, StoppedWhole
  <2> QED BY <1>8, <1>10, <2>1, <2>7
<1> QED BY <1>7, <1>9, <1>10

(***************************************************************************)
(* The servers' steps.                                                     *)
(***************************************************************************)
(* The process of s becomes p, and its pipe may be another.                *)
LEMMA ServerSteps ==
  ASSUME ClientInv, NEW s \in Sids, NEW p \in Process, NEW f, f \in Editor,
         f.clients = ed.clients, Only(ed, f, s), SameBuffer(ed, f), SameJobs(ed, f),
         f.diag = ed.diag, ServerFits(s, ed.clients[s], f.out[s], p, ed.jobs),
         ed' = f, srv' = [srv EXCEPT ![s] = p], ops' = ops
  PROVE  ClientInv'
<1> DEFINE Q == [srv EXCEPT ![s] = p]
<1>1. /\ Core(ed, srv) /\ DocsFit(ed) /\ RecFits(ed) /\ ed \in Editor
      /\ srv \in [Sids -> Process] /\ ClientFits(s, ed.clients[s], ed.jobs)
      /\ JobsFit(ed) /\ StoreFits(ed) /\ DiagFits(ed) /\ ~ed.stray
      /\ ops \in 0..MaxOps /\ ed.text <= ops + 1
  BY CoreFacts DEF ClientInv, Whole
<1>2. Q \in [Sids -> Process] /\ Q[s] = p /\ \A t \in Sids \ {s} : Q[t] = srv[t]
  BY <1>1
<1> HIDE DEF Q
<1>3. /\ f.jobs = ed.jobs /\ f.run = ed.run /\ f.routed = ed.routed
      /\ f.store = ed.store /\ f.stray = ed.stray
  BY DEF SameJobs
<1>4. JobsFit(f) /\ StoreFits(f) /\ DiagFits(f)
  BY <1>1, <1>3 DEF JobsFit, StoreFits, DiagFits
<1>5. Core(f, Q)
  BY <1>1, <1>2, <1>3, <1>4, CoreOf
<1>6. DocsFit(f) /\ RecFits(f)
  BY <1>1 DEF DocsFit, RecFits, SameBuffer
<1>7. f.text = ed.text
  BY DEF SameBuffer
<1>8. srv' = Q
  BY DEF Q
<1> QED BY <1>1, <1>5, <1>6, <1>7, <1>8 DEF ClientInv, Whole

(* What each of them reads of the invariant.                               *)
LEMMA ServerFacts ==
  ASSUME ClientInv, NEW s \in Sids
  PROVE  /\ ed \in Editor /\ srv[s] \in Process /\ ed.clients[s] \in Client
         /\ ed.out[s] \in Seq(Message) /\ ed.jobs \in Seq(Job)
         /\ ServerFits(s, ed.clients[s], ed.out[s], srv[s], ed.jobs)
         /\ ClientFits(s, ed.clients[s], ed.jobs)
         /\ Only(ed, ed, s) /\ SameBuffer(ed, ed) /\ SameJobs(ed, ed)
         /\ srv[s].events \in Seq(Event) /\ srv[s].todo \subseteq Owing
<1>1. /\ ed \in Editor /\ srv[s] \in Process /\ ed.clients[s] \in Client
      /\ ed.out[s] \in Seq(Message) /\ ed.jobs \in Seq(Job)
      /\ ServerFits(s, ed.clients[s], ed.out[s], srv[s], ed.jobs)
      /\ ClientFits(s, ed.clients[s], ed.jobs)
  BY CoreFacts DEF ClientInv, Whole
<1>2. srv[s].events \in Seq(Event) /\ srv[s].todo \subseteq Owing
  BY <1>1 DEF Process
<1> QED BY <1>1, <1>2 DEF Only, SameBuffer, SameJobs

(* The server reads what was sent to it.                                   *)
LEMMA TakesStep ==
  ASSUME ClientInv, NEW s \in Sids, ServerTakes(s)
  PROVE  ClientInv'
<1> DEFINE q == ed.out[s]
           k == Tail(q)
           f == [ed EXCEPT !.out[s] = k]
           p == srv[s]
           r == Taken(p, Head(q))
<1>1. /\ ed \in Editor /\ p \in Process /\ q \in Seq(Message) /\ ed.jobs \in Seq(Job)
      /\ ServerFits(s, ed.clients[s], q, p, ed.jobs) /\ ed.clients[s] \in Client
      /\ ClientFits(s, ed.clients[s], ed.jobs)
  BY ServerFacts
<1>2. q # <<>> /\ p.up /\ ed' = f /\ srv' = [srv EXCEPT ![s] = r] /\ ops' = ops
  BY DEF ServerTakes
<1>3. Head(q) \in Message /\ k \in Seq(Message)
  BY <1>1, <1>2
<1> HIDE DEF k
<1>4. /\ f \in Editor /\ f.out[s] = k /\ f.clients = ed.clients /\ Only(ed, f, s)
      /\ SameBuffer(ed, f) /\ SameJobs(ed, f) /\ f.diag = ed.diag
  BY <1>1, <1>3, WithOut
<1> HIDE DEF f
<1>5. Takes(p, Head(q), r)
  BY <1>1, <1>3, TakenFacts
<1>6. r \in Process
  BY <1>5 DEF Takes
<1> HIDE DEF r
<1>7. ServerFits(s, ed.clients[s], k, r, ed.jobs)
  BY <1>1, <1>2, <1>5, TakesFits DEF k
<1> QED BY <1>2, <1>4, <1>6, <1>7, ServerSteps

(* It says something more.                                                 *)
LEMMA EmitSays ==
  ASSUME NEW p \in Process, NEW x \in Event
  PROVE  LET r == Emit(p, x) IN
         /\ r \in Process /\ Says(p, r, x) /\ r.up = p.up /\ r.phase = p.phase
         /\ r.open = p.open /\ r.bad = p.bad /\ r.todo = p.todo
<1> DEFINE events == Append(p.events, x)
           r == [p EXCEPT !.events = events]
<1>1. events \in Seq(Event)
  BY DEF Process
<1>2. r = Emit(p, x)
  BY DEF Emit
<1> HIDE DEF events
<1>3. /\ r \in Process /\ r.events = events /\ r.up = p.up /\ r.phase = p.phase
      /\ r.open = p.open /\ r.bad = p.bad /\ r.todo = p.todo
  BY <1>1 DEF Process
<1> QED BY <1>2, <1>3 DEF Says, events

LEMMA AnswersStep ==
  ASSUME ClientInv, NEW s \in Sids, NEW q \in srv[s].todo, NEW ok \in BOOLEAN,
         ServerAnswers(s, q, ok)
  PROVE  ClientInv'
<1> DEFINE p == srv[s]
           todo == p.todo \ {q}
           z == [p EXCEPT !.todo = todo]
           x == [ev |-> "response", id |-> q.id, ok |-> ok, text |-> q.text]
           r == Emit(z, x)
<1>1. /\ ed \in Editor /\ p \in Process /\ ed.out[s] \in Seq(Message)
      /\ ServerFits(s, ed.clients[s], ed.out[s], p, ed.jobs) /\ ed.clients[s] \in Client
      /\ Only(ed, ed, s) /\ SameBuffer(ed, ed) /\ SameJobs(ed, ed)
      /\ p.todo \subseteq Owing
  BY ServerFacts
<1>2. p.up /\ ed' = ed /\ srv' = [srv EXCEPT ![s] = r] /\ ops' = ops
  BY DEF ServerAnswers
<1>3. x \in Event /\ x.ev = "response" /\ x.id = q.id /\ x.text = q.text
  <2>1. q \in Owing
    BY <1>1
  <2> QED BY <2>1 DEF Event, Owing
<1> HIDE DEF x
<1>4. /\ z \in Process /\ z.todo = todo /\ z.events = p.events /\ z.up = p.up
      /\ z.phase = p.phase /\ z.open = p.open /\ z.bad = p.bad
  <2>1. todo \subseteq Owing
    BY <1>1
  <2> HIDE DEF todo, p
  <2> QED BY <1>1, <2>1 DEF Process
<1> HIDE DEF z
<1>5. /\ r \in Process /\ Says(z, r, x) /\ r.up = z.up /\ r.phase = z.phase
      /\ r.open = z.open /\ r.bad = z.bad /\ r.todo = z.todo
  BY <1>3, <1>4, EmitSays
<1> HIDE DEF r
<1>6. ServerFits(s, ed.clients[s], ed.out[s], r, ed.jobs)
  <2>1. Says(p, r, x)
    BY <1>4, <1>5 DEF Says
  <2>2. r.up = p.up /\ r.phase = p.phase /\ r.open = p.open /\ r.bad = p.bad
        /\ r.todo = p.todo \ {q}
    BY <1>4, <1>5 DEF todo
  <2> HIDE DEF p
  <2>3. q \in p.todo
    BY DEF p
  <2> QED BY <1>1, <1>2, <1>3, <1>5, <2>1, <2>2, <2>3, AnsweringFits
<1> QED BY <1>1, <1>2, <1>5, <1>6, ServerSteps

LEMMA PublishesStep ==
  ASSUME ClientInv, NEW s \in Sids, NEW u \in Uris, ServerPublishes(s, u)
  PROVE  ClientInv'
<1> DEFINE p == srv[s]
           x == [ev |-> "publish", uri |-> u]
           r == Emit(p, x)
<1>1. /\ ed \in Editor /\ p \in Process /\ ed.out[s] \in Seq(Message)
      /\ ServerFits(s, ed.clients[s], ed.out[s], p, ed.jobs) /\ ed.clients[s] \in Client
      /\ Only(ed, ed, s) /\ SameBuffer(ed, ed) /\ SameJobs(ed, ed)
  BY ServerFacts
<1>2. p.up /\ ed' = ed /\ srv' = [srv EXCEPT ![s] = r] /\ ops' = ops
  BY DEF ServerPublishes
<1>3. x \in Event /\ x.ev = "publish"
  BY DEF Event
<1> HIDE DEF x
<1>4. /\ r \in Process /\ Says(p, r, x) /\ r.up = p.up /\ r.phase = p.phase
      /\ r.open = p.open /\ r.bad = p.bad /\ r.todo = p.todo
  BY <1>1, <1>3, EmitSays
<1> HIDE DEF r
<1>5. ServerFits(s, ed.clients[s], ed.out[s], r, ed.jobs)
  BY <1>1, <1>2, <1>3, <1>4, PublishingFits
<1> QED BY <1>1, <1>2, <1>4, <1>5, ServerSteps

LEMMA DiesStep ==
  ASSUME ClientInv, NEW s \in Sids, ServerDies(s)
  PROVE  ClientInv'
<1> DEFINE p == srv[s]
           z == [NoProc EXCEPT !.events = p.events, !.bad = p.bad]
           x == [ev |-> "exit"]
           r == Emit(z, x)
<1>1. /\ ed \in Editor /\ p \in Process /\ ed.out[s] \in Seq(Message)
      /\ ServerFits(s, ed.clients[s], ed.out[s], p, ed.jobs) /\ ed.clients[s] \in Client
      /\ Only(ed, ed, s) /\ SameBuffer(ed, ed) /\ SameJobs(ed, ed)
      /\ p.events \in Seq(Event)
  BY ServerFacts
<1>2. p.up /\ ed' = ed /\ srv' = [srv EXCEPT ![s] = r] /\ ops' = ops
  BY DEF ServerDies
<1>3. x \in Event /\ x.ev = "exit"
  BY DEF Event
<1> HIDE DEF x
<1>4. /\ z \in Process /\ ~z.up /\ z.events = p.events /\ z.bad = p.bad /\ z.todo = {}
  <2>1. p.bad \in BOOLEAN
    BY <1>1 DEF Process
  <2> HIDE DEF p
  <2>2. NoProc \in Process
    BY NoProcIsProcess
  <2> QED BY <1>1, <2>1, <2>2 DEF Process, NoProc
<1> HIDE DEF z
<1>5. /\ r \in Process /\ Says(z, r, x) /\ r.up = z.up
      /\ r.bad = z.bad /\ r.todo = z.todo
  BY <1>3, <1>4, EmitSays
<1> HIDE DEF r
<1>6. ServerFits(s, ed.clients[s], ed.out[s], r, ed.jobs)
  <2>1. Says(p, r, x) /\ ~r.up /\ r.bad = p.bad /\ r.todo = {}
    BY <1>4, <1>5 DEF Says
  <2> QED BY <1>1, <1>2, <1>3, <1>5, <2>1, DyingFits
<1> QED BY <1>1, <1>2, <1>5, <1>6, ServerSteps

(***************************************************************************)
(* The invariant.                                                          *)
(***************************************************************************)
LEMMA InitClientInv == Init => ClientInv
<1> SUFFICES ASSUME Init PROVE ClientInv
  OBVIOUS
<1> DEFINE u0 == CHOOSE u \in Uris : TRUE
           none == <<>>
           P == [s \in Sids |-> NoProc]
<1>1. u0 \in Uris
  BY ConstantsAssumption
<1>2. /\ ed.clients = [s \in Sids |-> NoClient] /\ ed.out = [s \in Sids |-> <<>>]
      /\ ed.jobs = <<>> /\ ed.run = {} /\ ed.routed = {} /\ ed.token = {}
      /\ ed.late = {} /\ ed.store = {} /\ ed.diag = {} /\ ed.stray = FALSE
      /\ ed.rec = [sid |-> NoSid, uri |-> u0] /\ ed.uri = u0 /\ ed.dirty = FALSE
      /\ ed.text = 1 /\ srv = P /\ ops = 0
  BY DEF Init
<1>3. 1 \in Texts \ {0} /\ 0 \in Texts /\ 0 \in 0..MaxOps
  BY ConstantsAssumption DEF Texts
<1>4. /\ NoClient \in Client /\ NoClient.state = "none" /\ NoClient.gen = 0
      /\ NoClient.pending = {} /\ NoClient.dropped = {} /\ ~NoClient.armed
      /\ ~NoClient.term /\ NoClient.tomb = {} /\ NoClient.policy = "never"
  <2>1. NoDocs \in [Uris -> Texts]
    BY <1>3 DEF NoDocs
  <2> QED BY <2>1 DEF NoClient, Client
<1>5. ed \in Editor
  <2>1. ed = [clients |-> [s \in Sids |-> NoClient], out |-> [s \in Sids |-> none],
              jobs |-> none, run |-> {}, routed |-> {}, token |-> {},
              late |-> {}, store |-> {}, diag |-> {}, stray |-> FALSE,
              rec |-> [sid |-> NoSid, uri |-> u0], uri |-> u0, dirty |-> FALSE,
              text |-> 1]
    BY DEF Init
  <2>2. none \in Seq(Job) /\ none \in Seq(Message)
    OBVIOUS
  <2> HIDE DEF u0, none
  <2> QED BY <1>1, <1>3, <1>4, <2>1, <2>2 DEF Editor
<1> HIDE DEF u0
<1>6. P \in [Sids -> Process]
  BY NoProcIsProcess
<1>7. ASSUME NEW s \in Sids
      PROVE  /\ ServerFits(s, ed.clients[s], ed.out[s], P[s], ed.jobs)
             /\ ClientFits(s, ed.clients[s], ed.jobs) /\ ~First(ed.clients[s])
             /\ ed.clients[s].tomb = {}
  <2>1. ed.clients[s] = NoClient /\ P[s] = NoProc
    BY <1>2
  <2>2. ~NoProc.up /\ ~NoProc.bad /\ NoProc.events = <<>>
    BY DEF NoProc
  <2>3. EventsFit(NoProc)
    BY <2>2 DEF EventsFit
  <2>4. ~Live(NoClient)
    BY <1>4 DEF Live
  <2>5. ServerFits(s, NoClient, ed.out[s], NoProc, ed.jobs)
    BY <1>4, <2>2, <2>3, <2>4 DEF ServerFits
  <2>6. ClientFits(s, NoClient, ed.jobs)
    <3>1. Len(ed.jobs) = 0
      BY <1>2
    <3> QED BY <1>4, <3>1 DEF ClientFits
  <2> QED BY <1>4, <2>1, <2>4, <2>5, <2>6 DEF First
<1> HIDE DEF P
<1>8. BooksFit(ed)
  BY <1>2, <1>7 DEF BooksFit, JobsFit, StoreFits, DiagFits
<1>9. Core(ed, P)
  BY <1>5, <1>6, <1>7, <1>8 DEF Core
<1>10. DocsFit(ed) /\ RecFits(ed)
  BY <1>2, <1>7 DEF DocsFit, RecFits
<1>11. ed.text <= ops + 1
  BY <1>2
<1> QED BY <1>2, <1>3, <1>9, <1>10, <1>11 DEF ClientInv, Whole

LEMMA NextClientInv == ClientInv /\ [Next]_vars => ClientInv'
<1> SUFFICES ASSUME ClientInv, [Next]_vars PROVE ClientInv'
  OBVIOUS
<1>1. ASSUME NEW s \in Sids, Tick(s) PROVE ClientInv'
  BY <1>1, TickStep
<1>2. ASSUME NEW late \in BOOLEAN, LuaTick(late) PROVE ClientInv'
  BY <1>2, LuaTickStep
<1>3. CASE Attach
  BY <1>3, AttachStep
<1>4. CASE Edit
  BY <1>4, EditStep
<1>5. CASE Save
  BY <1>5, SaveStep
<1>6. CASE Ask
  BY <1>6, AskStep
<1>7. CASE Delete
  BY <1>7, DeleteStep
<1>8. ASSUME NEW u \in Uris, Rename(u) PROVE ClientInv'
  BY <1>8, RenameStep
<1>9. ASSUME NEW r \in 1..MaxJobs, Cancel(r) PROVE ClientInv'
  BY <1>9, CancelStep
<1>10. ASSUME NEW s \in Sids, Stop(s) PROVE ClientInv'
  BY <1>10, StopStep
<1>11. ASSUME NEW r \in 1..MaxJobs, Late(r) PROVE ClientInv'
  BY <1>11, LateStep
<1>12. ASSUME NEW s \in Sids, BackoffPasses(s) PROVE ClientInv'
  BY <1>12, BackoffStep
<1>13. ASSUME NEW s \in Sids, ServerTakes(s) PROVE ClientInv'
  BY <1>13, TakesStep
<1>14. ASSUME NEW s \in Sids, NEW q \in srv[s].todo, NEW ok \in BOOLEAN,
              ServerAnswers(s, q, ok)
       PROVE  ClientInv'
  BY <1>14, AnswersStep
<1>15. ASSUME NEW s \in Sids, NEW u \in Uris, ServerPublishes(s, u) PROVE ClientInv'
  BY <1>15, PublishesStep
<1>16. ASSUME NEW s \in Sids, ServerDies(s) PROVE ClientInv'
  BY <1>16, DiesStep
<1>17. CASE UNCHANGED vars
  <2>1. ed' = ed /\ srv' = srv /\ ops' = ops
    BY <1>17 DEF vars
  <2> QED BY <2>1 DEF ClientInv
<1> QED BY <1>1, <1>2, <1>3, <1>4, <1>5, <1>6, <1>7, <1>8, <1>9, <1>10, <1>11, <1>12,
           <1>13, <1>14, <1>15, <1>16, <1>17 DEF Next

LEMMA ClientAlways == Spec => []ClientInv
BY InitClientInv, NextClientInv, PTL DEF Spec

(***************************************************************************)
(* What it is for.                                                         *)
(***************************************************************************)
LEMMA ClientInvImplies == ClientInv => TypeOK /\ ServerTold /\ AnswersInv
<1> SUFFICES ASSUME ClientInv PROVE TypeOK /\ ServerTold /\ AnswersInv
  OBVIOUS
<1>1. /\ ed \in Editor /\ ed.jobs \in Seq(Job)
      /\ JobsFit(ed) /\ StoreFits(ed) /\ DiagFits(ed) /\ ~ed.stray
      /\ ed.store \subseteq Stored /\ ed.diag \subseteq Uris /\ ed.uri \in Uris
      /\ ed.text \in Texts \ {0} /\ ed.rec.sid \in Sids \cup {NoSid}
  BY CoreFacts, EditorFields DEF ClientInv, Whole
<1>2. ASSUME NEW s \in Sids
      PROVE  LET c == ed.clients[s] IN
             /\ c \in Client /\ ServerFits(s, c, ed.out[s], srv[s], ed.jobs)
             /\ ClientFits(s, c, ed.jobs)
  BY CoreFacts DEF ClientInv, Whole
<1>3. TypeOK
  <2>1. ASSUME NEW s \in Sids
        PROVE  LET c == ed.clients[s] IN
               /\ c.state \in {"none", "starting", "initializing", "initialized",
                               "shutdown", "stopped", "crashed"}
               /\ c.policy \in {"never", "on_crash"}
               /\ c.pending \cap c.dropped = {}
               /\ \A r \in (c.pending \cup c.dropped) \ {Init0, Shut} :
                     ed.jobs[r].sid = s /\ ed.jobs[r].gen = c.gen
               /\ c.armed => c.state = "crashed" /\ c.policy = "on_crash"
               /\ c.docs \in [Uris -> Texts] /\ c.tomb \subseteq Uris
    <3>1. ed.clients[s] \in Client /\ ClientFits(s, ed.clients[s], ed.jobs)
      BY <1>2
    <3> QED BY <3>1 DEF Client, ClientFits
  <2>2. ed.run \subseteq ed.routed /\ ed.routed \subseteq DOMAIN ed.jobs
    <3>1. DOMAIN ed.jobs = 1..Len(ed.jobs)
      BY <1>1
    <3> QED BY <1>1, <3>1 DEF JobsFit
  <2>3. \A r \in ed.run : LET c == ed.clients[ed.jobs[r].sid] IN r \in c.pending /\ Live(c)
    BY <1>1 DEF JobsFit
  <2> QED BY <1>1, <2>1, <2>2, <2>3 DEF TypeOK
<1>4. ServerTold
  BY <1>2 DEF ServerTold, ServerFits
<1>5. AnswersCurrent
  BY <1>1 DEF AnswersCurrent, StoreFits, Honest
<1>6. LateAnswersDropped
  BY <1>1 DEF LateAnswersDropped, StoreFits, DiagFits
<1> QED BY <1>3, <1>4, <1>5, <1>6 DEF AnswersInv

(* The books hold: ids in flight are jobs of their server's generation, an *)
(* awaiter waits on a server that lives, and only a crashed server is up   *)
(* for a restart.                                                          *)
THEOREM ClientTypeCorrect == Spec => []TypeOK
BY ClientAlways, ClientInvImplies, PTL

(* A server of a first generation that was not stopped in its handshake is *)
(* told nothing out of order: nothing but initialize before the handshake  *)
(* is over (send_notification holds it), no change, close or request of a  *)
(* document that is not open (attach_buffer, forget_uri), no range and no  *)
(* save of another text (did_change_incremental, flush_did_change).        *)
THEOREM ServersAreToldInOrder == Spec => []ServerTold
BY ClientAlways, ClientInvImplies, PTL

(* No answer is shown that is about another text than the one it was asked *)
(* about (flush_did_change goes before the request, in the same pipe), and *)
(* what forget_uri forgot stays forgotten, however late an answer or a     *)
(* publish comes (abandon_request, the tombstones).                        *)
THEOREM AnswersAreCurrent == Spec => []AnswersInv
BY ClientAlways, ClientInvImplies, PTL
=============================================================================
