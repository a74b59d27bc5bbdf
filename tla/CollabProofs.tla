---------------------------- MODULE CollabProofs ----------------------------
(***************************************************************************)
(* What Collab guarantees for any number of frontends, operations and keys *)
(* (src/src/daemon.rs, src/src/buffer_mirror.rs, src/src/optimistic.rs):   *)
(* no caret overtakes its edit, and replicas converge.                     *)
(***************************************************************************)
EXTENDS Collab, WellFoundedInduction, TLAPS

(***************************************************************************)
(* The invariant.                                                          *)
(***************************************************************************)
Op == [by : Frontends \cup {Daemon}, past : SUBSET Nat]
Replica == [in : SUBSET Nat, held : SUBSET Nat]
QueuedOp == [n : Nat, except : Frontends \cup {Daemon}, key : Frontends \cup {Daemon}]
Session == [on : BOOLEAN, win : {"doc", "other"}, prefix : BOOLEAN,
            told : {"none", "idle", "busy"}]
Mirror == [ready : BOOLEAN, text : Replica, stale : BOOLEAN,
           active : {"none", "doc", "other"}, idle : BOOLEAN]
Event == [msg : {"key"}, kind : Kinds] \cup [msg : {"op"}, n : Nat]
Message == [msg : {"snapshot"}, in : SUBSET Nat] \cup [msg : {"op"}, n : Nat]
             \cup [msg : {"cursor"}, win : {"doc", "other"}, seen : SUBSET Nat]
             \cup [msg : {"idle"}, idle : BOOLEAN]

All(r) == r.in \cup r.held

(* An operation is made on a set that has what its members were made on.   *)
HistFits(h) ==
  /\ h \in Seq(Op) /\ Len(h) <= MaxOps
  /\ \A n \in 1..Len(h) : /\ h[n].past \subseteq 1..(n - 1)
                          /\ \A k \in h[n].past : h[k].past \subseteq h[n].past

(* A replica has integrated what it has the past of, and holds the rest.   *)
Normal(h, r) ==
  /\ r \in Replica /\ All(r) \subseteq 1..Len(h)
  /\ \A n \in r.in : h[n].past \subseteq r.in
  /\ \A n \in r.held : ~(h[n].past \subseteq All(r))

(* What waits to be told is in the document.                               *)
QueueFits(d, q) == q \in Seq(QueuedOp) /\ \A i \in 1..Len(q) : q[i].n \in All(d)

(* A frontend has its own operations, and else only such as the daemon     *)
(* has had.                                                                *)
MirrorFits(f, m, h, d) ==
  /\ m \in Mirror /\ Normal(h, m.text)
  /\ ~m.ready => m.text = Empty
  /\ \A n \in 1..Len(h) : h[n].by = f => n \in m.text.in
  /\ \A n \in All(m.text) : h[n].by = f \/ n \in All(d)

Brings(x) == CASE x.msg = "op" -> {x.n} [] x.msg = "snapshot" -> x.in [] OTHER -> {}

(* What a frontend has once it has read the first k messages of s.         *)
Reach(m, s, k) == All(m.text) \cup UNION {Brings(s[i]) : i \in 1..k}

(* What comes to a frontend: one snapshot, before anything else, and only  *)
(* operations that the daemon has had; a caret comes after what moved it.  *)
StreamFits(f, m, h, d, s) ==
  /\ s \in Seq(Message)
  /\ \A i \in 1..Len(s) :
       /\ s[i].msg = "snapshot" =>
            /\ i = 1 /\ ~m.ready
            /\ \A n \in s[i].in : h[n].past \subseteq s[i].in
       /\ \A n \in Brings(s[i]) : n \in 1..Len(h) /\ (h[n].by = f \/ n \in All(d))
       /\ s[i].msg = "cursor" => s[i].seen \subseteq Reach(m, s, i - 1)

(* Nothing of the document passes a frontend by.                           *)
Covers(f, m, s, q, d) ==
  \A n \in d.in : \/ n \in Reach(m, s, Len(s))
                  \/ \E i \in 1..Len(q) : q[i].n = n /\ q[i].except # f

Sends(u, k) == \E i \in 1..Len(u) : u[i].msg = "op" /\ u[i].n = k

(* What a frontend sends: its operations, each once and in order.          *)
UpFits(f, u, h, d) ==
  /\ u \in Seq(Event)
  /\ \A i \in 1..Len(u) : u[i].msg = "op" =>
        /\ u[i].n \in 1..Len(h) /\ h[u[i].n].by = f /\ u[i].n \notin All(d)
        /\ \A j \in 1..(i - 1) : u[j].msg = "op" => u[j].n < u[i].n

LinkFits(s, m, dn, u) ==
  /\ ~s.on => ~m.ready /\ dn = <<>> /\ u = <<>>
  /\ s.on /\ ~m.ready => dn # <<>> /\ dn[1].msg = "snapshot"

(* A refused operation of a frontend: the daemon never had it, and it is   *)
(* not on its way.                                                         *)
Lost(k, h, d, u) ==
  h[k].by \in Frontends /\ k \notin All(d) /\ ~Sends(u[h[k].by], k)

LossFits(h, d, u, r) ==
  /\ \A k \in 1..Len(h) : Lost(k, h, d, u) => h[k].by \in r
  /\ \A n \in d.held : \E k \in h[n].past : Lost(k, h, d, u) /\ h[k].by = h[n].by

FrontFits(f) ==
  /\ MirrorFits(f, mirror[f], hist, doc)
  /\ StreamFits(f, mirror[f], hist, doc, down[f])
  /\ UpFits(f, up[f], hist, doc)
  /\ LinkFits(sess[f], mirror[f], down[f], up[f])
  /\ sess[f].on => Covers(f, mirror[f], down[f], queue, doc)

Typed ==
  /\ sess \in [Frontends -> Session]
  /\ mirror \in [Frontends -> Mirror]
  /\ up \in [Frontends -> Seq(Event)] /\ down \in [Frontends -> Seq(Message)]
  /\ keys \in [Frontends -> 0..MaxKeys]

CollabInv ==
  /\ Typed /\ HistFits(hist) /\ Normal(hist, doc) /\ QueueFits(doc, queue)
  /\ \A f \in Frontends : FrontFits(f)
  /\ LossFits(hist, doc, up, refused)

(***************************************************************************)
(* Induction over the naturals, in the form the provers can use: for a set *)
(* rather than for a predicate.                                            *)
(***************************************************************************)
(* A set of naturals that has 0, and with each number the next, has them   *)
(* all.  It is what takes Told along a queue of any length.                *)
LEMMA SetInduction ==
  ASSUME NEW T, 0 \in T, \A n \in Nat : n \in T => n + 1 \in T
  PROVE  Nat \subseteq T
<1> DEFINE R == OpToRel(<, Nat)
           B == {n \in Nat : n \notin T}
<1> SUFFICES ASSUME B # {} PROVE FALSE
  OBVIOUS
<1>1. IsWellFoundedOn(R, Nat)
  BY NatLessThanWellFounded
<1>2. PICK x \in B : \A y \in B : ~(<<y, x>> \in R)
  <2>1. B \subseteq Nat
    OBVIOUS
  <2> QED BY <1>1, <2>1, WFMin
<1>3. x \in Nat /\ x \notin T /\ x # 0
  OBVIOUS
<1>4. x - 1 \in Nat /\ x - 1 < x /\ (x - 1) + 1 = x
  BY <1>3
<1>5. x - 1 \in B
  BY <1>3, <1>4
<1>6. <<x - 1, x>> \in R
  BY <1>3, <1>4 DEF OpToRel
<1> QED BY <1>2, <1>5, <1>6

(***************************************************************************)
(* Whom the queue is told to.                                              *)
(***************************************************************************)
(* g is, for each i, what of the first i entries of q frontend f is told.  *)
KeepsUpTo(q, f, g, n) ==
  g = [i \in 0..n |-> IF i = 0 THEN <<>>
                      ELSE IF q[i].except = f THEN g[i - 1]
                      ELSE Append(g[i - 1], q[i])]

(* The sequence t is made of the first n entries of q that are not f's own. *)
ToldOf(t, q, f, n) ==
  /\ t \in Seq(QueuedOp)
  /\ \A i \in 1..Len(t) : \E j \in 1..n : t[i] = q[j] /\ q[j].except # f
  /\ \A j \in 1..n : q[j].except # f => \E i \in 1..Len(t) : t[i] = q[j]

(* The function that Told is defined by exists.                            *)
LEMMA KeptExists ==
  ASSUME NEW q \in Seq(QueuedOp), NEW f
  PROVE  \E g : KeepsUpTo(q, f, g, Len(q))
<1> DEFINE T == {n \in Nat : \E g : KeepsUpTo(q, f, g, n)}
<1>1. 0 \in T
  <2> DEFINE g == [i \in 0..0 |-> <<>>]
  <2>1. KeepsUpTo(q, f, g, 0)
    BY DEF KeepsUpTo
  <2> QED BY <2>1
<1>2. ASSUME NEW n \in Nat, n \in T PROVE n + 1 \in T
  <2>1. PICK g : KeepsUpTo(q, f, g, n)
    BY <1>2
  <2> DEFINE last == IF q[n + 1].except = f THEN g[n] ELSE Append(g[n], q[n + 1])
             b == [i \in 0..(n + 1) |-> IF i <= n THEN g[i] ELSE last]
             c == [i \in 0..(n + 1) |-> IF i = 0 THEN <<>>
                      ELSE IF q[i].except = f THEN b[i - 1]
                      ELSE Append(b[i - 1], q[i])]
  <2>2. ASSUME NEW i \in 0..(n + 1) PROVE b[i] = c[i]
    <3>1. CASE i = n + 1
      <4>1. i # 0 /\ ~(i <= n) /\ i - 1 = n /\ n \in 0..(n + 1)
        BY <3>1
      <4>2. b[i - 1] = g[n]
        BY <4>1
      <4>3. b[i] = last
        BY <4>1
      <4>4. c[i] = last
        BY <3>1, <4>1, <4>2
      <4> QED BY <4>3, <4>4
    <3>2. CASE i \in 0..n
      <4>1. b[i] = g[i]
        BY <3>2
      <4>2. CASE i = 0
        BY <2>1, <4>1, <4>2 DEF KeepsUpTo
      <4>3. CASE i # 0
        <5>1. i - 1 \in 0..n /\ i - 1 \in 0..(n + 1) /\ i - 1 <= n
          BY <3>2, <4>3
        <5>2. b[i - 1] = g[i - 1]
          BY <5>1
        <5>3. g[i] = IF q[i].except = f THEN g[i - 1] ELSE Append(g[i - 1], q[i])
          BY <2>1, <3>2, <4>3 DEF KeepsUpTo
        <5> QED BY <4>1, <4>3, <5>2, <5>3
      <4> QED BY <4>2, <4>3
    <3> QED BY <3>1, <3>2
  <2>3. b = c
    BY <2>2
  <2>4. KeepsUpTo(q, f, b, n + 1)
    BY <2>3 DEF KeepsUpTo
  <2> QED BY <2>4
<1>3. Nat \subseteq T
  <2> HIDE DEF T
  <2> QED BY <1>1, <1>2, SetInduction
<1> QED BY <1>3

(* What it keeps is what is not the frontend's own.                        *)
LEMMA KeptFits ==
  ASSUME NEW q \in Seq(QueuedOp), NEW f, NEW g, KeepsUpTo(q, f, g, Len(q))
  PROVE  ToldOf(g[Len(q)], q, f, Len(q))
<1> DEFINE T == {n \in Nat : n <= Len(q) => ToldOf(g[n], q, f, n)}
<1>1. 0 \in T
  <2>1. g[0] = <<>>
    BY DEF KeepsUpTo
  <2>2. ToldOf(<<>>, q, f, 0)
    BY DEF ToldOf
  <2> QED BY <2>1, <2>2
<1>2. ASSUME NEW n \in Nat, n \in T PROVE n + 1 \in T
  <2> SUFFICES ASSUME n + 1 <= Len(q) PROVE ToldOf(g[n + 1], q, f, n + 1)
    OBVIOUS
  <2>1. ToldOf(g[n], q, f, n) /\ n + 1 \in 1..Len(q)
    BY <1>2
  <2>2. g[n + 1] = IF q[n + 1].except = f THEN g[n] ELSE Append(g[n], q[n + 1])
    <3>1. n + 1 \in 0..Len(q) /\ n + 1 # 0 /\ (n + 1) - 1 = n
      BY <2>1
    <3> QED BY <3>1 DEF KeepsUpTo
  <2> DEFINE t == g[n]
  <2>3. t \in Seq(QueuedOp) /\ q[n + 1] \in QueuedOp
    BY <2>1 DEF ToldOf
  <2>4. CASE q[n + 1].except = f
    <3>1. g[n + 1] = t
      BY <2>2, <2>4
    <3>2. \A i \in 1..Len(t) : \E j \in 1..(n + 1) : t[i] = q[j] /\ q[j].except # f
      <4> SUFFICES ASSUME NEW i \in 1..Len(t)
                   PROVE  \E j \in 1..(n + 1) : t[i] = q[j] /\ q[j].except # f
        OBVIOUS
      <4>1. PICK j \in 1..n : t[i] = q[j] /\ q[j].except # f
        BY <2>1 DEF ToldOf
      <4>2. j \in 1..(n + 1)
        OBVIOUS
      <4> HIDE DEF t
      <4> QED BY <4>1, <4>2
    <3>3. \A j \in 1..(n + 1) : q[j].except # f => \E i \in 1..Len(t) : t[i] = q[j]
      <4>1. \A j \in 1..(n + 1) : j = n + 1 \/ j \in 1..n
        OBVIOUS
      <4> QED BY <2>1, <2>4, <4>1 DEF ToldOf
    <3> HIDE DEF t
    <3> QED BY <2>3, <3>1, <3>2, <3>3 DEF ToldOf
  <2>5. CASE q[n + 1].except # f
    <3> DEFINE u == Append(t, q[n + 1])
    <3>1. u \in Seq(QueuedOp) /\ Len(u) = Len(t) + 1 /\ u[Len(t) + 1] = q[n + 1]
          /\ \A i \in 1..Len(t) : u[i] = t[i]
      BY <2>3
    <3>2. \A i \in 1..Len(u) : \E j \in 1..(n + 1) : u[i] = q[j] /\ q[j].except # f
      <4> SUFFICES ASSUME NEW i \in 1..Len(u)
                   PROVE  \E j \in 1..(n + 1) : u[i] = q[j] /\ q[j].except # f
        OBVIOUS
      <4> HIDE DEF u, t
      <4>1. CASE i = Len(t) + 1
        BY <2>5, <3>1, <4>1
      <4>2. CASE i \in 1..Len(t)
        <5>1. PICK j \in 1..n : t[i] = q[j] /\ q[j].except # f
          BY <2>1, <4>2 DEF ToldOf, t
        <5>2. j \in 1..(n + 1) /\ u[i] = q[j]
          BY <3>1, <4>2, <5>1
        <5> QED BY <5>1, <5>2
      <4>3. Len(t) \in Nat
        BY <2>3
      <4> QED BY <3>1, <4>1, <4>2, <4>3
    <3>3. \A j \in 1..(n + 1) : q[j].except # f => \E i \in 1..Len(u) : u[i] = q[j]
      <4> SUFFICES ASSUME NEW j \in 1..(n + 1), q[j].except # f
                   PROVE  \E i \in 1..Len(u) : u[i] = q[j]
        OBVIOUS
      <4>0. Len(t) \in Nat
        BY <2>3
      <4> HIDE DEF u
      <4>1. CASE j = n + 1
        BY <3>1, <4>0, <4>1
      <4>2. CASE j \in 1..n
        <5>1. PICK i \in 1..Len(t) : t[i] = q[j]
          BY <2>1, <4>2 DEF ToldOf
        <5> HIDE DEF t
        <5> QED BY <3>1, <4>0, <5>1
      <4> QED BY <4>1, <4>2
    <3>4. g[n + 1] = u
      BY <2>2, <2>5
    <3> HIDE DEF u
    <3> QED BY <3>1, <3>2, <3>3, <3>4 DEF ToldOf
  <2> QED BY <2>4, <2>5
<1>3. Nat \subseteq T
  <2> HIDE DEF T
  <2> QED BY <1>1, <1>2, SetInduction
<1> QED BY <1>3

(* A frontend is told of exactly the operations it did not make.           *)
LEMMA ToldFits ==
  ASSUME NEW q \in Seq(QueuedOp), NEW f
  PROVE  ToldOf(Told(q, f), q, f, Len(q))
<1> DEFINE kept == CHOOSE g : KeepsUpTo(q, f, g, Len(q))
<1>1. KeepsUpTo(q, f, kept, Len(q))
  BY KeptExists
<1>2. Told(q, f) = kept[Len(q)]
  BY DEF Told, KeepsUpTo
<1> QED BY <1>1, <1>2, KeptFits

(***************************************************************************)
(* Histories and replicas.                                                 *)
(***************************************************************************)
Extends(h, h2) ==
  /\ Len(h) \in Nat /\ Len(h2) \in Nat /\ Len(h) <= Len(h2)
  /\ \A n \in 1..Len(h) : h2[n] = h[n]

(* The replica i is r with operation n imported.                           *)
ImportsTo(h, r, n, i) ==
  /\ Normal(h, i) /\ All(i) = All(r) \cup {n} /\ r.in \subseteq i.in
  /\ \A k \in All(i) : k \in i.in <=> h[k].past \subseteq All(i)

(* The history h2 is h with an operation of p's on the replica r.          *)
MadeFrom(h, p, r, h2) ==
  /\ HistFits(h2) /\ Extends(h, h2) /\ Len(h2) = Len(h) + 1
  /\ h2[Len(h) + 1].by = p /\ h2[Len(h) + 1].past = r.in

(* An import integrates what has its past, and loses nothing.              *)
LEMMA ImportFits ==
  ASSUME NEW h, HistFits(h), NEW r, Normal(h, r), NEW n \in 1..Len(h)
  PROVE  ImportsTo(h, r, n, Import(h, r, n))
<1> DEFINE all == r.in \cup r.held \cup {n}
           in == {m \in all : h[m].past \subseteq all}
           i == Import(h, r, n)
<1>1. i = [in |-> in, held |-> all \ in]
  BY DEF Import
<1>2. i.in = in /\ i.held = all \ in
  BY <1>1
<1>3. All(i) = all /\ all = All(r) \cup {n}
  BY <1>2 DEF All
<1>4. all \subseteq 1..Len(h) /\ Len(h) \in Nat
  BY DEF Normal, All, HistFits
<1>5. i \in Replica
  <2>1. in \subseteq Nat /\ all \ in \subseteq Nat
    BY <1>4
  <2> HIDE DEF i, in, all
  <2> QED BY <1>1, <2>1 DEF Replica
<1>6. r.in \subseteq in
  BY DEF Normal
<1>7. ASSUME NEW k \in in PROVE h[k].past \subseteq in
  <2> SUFFICES ASSUME NEW j \in h[k].past PROVE j \in in
    OBVIOUS
  <2>1. k \in 1..Len(h) /\ j \in all
    BY <1>4
  <2>2. h[j].past \subseteq h[k].past
    BY <2>1 DEF HistFits
  <2> QED BY <2>1, <2>2
<1>8. \A k \in all : k \in in <=> h[k].past \subseteq all
  OBVIOUS
<1>9. Normal(h, i)
  <2> HIDE DEF i, in, all
  <2>1. All(i) \subseteq 1..Len(h)
    BY <1>3, <1>4
  <2>2. \A k \in i.in : h[k].past \subseteq i.in
    BY <1>2, <1>7
  <2>3. \A k \in i.held : ~(h[k].past \subseteq All(i))
    BY <1>2, <1>3, <1>8
  <2> QED BY <1>5, <2>1, <2>2, <2>3 DEF Normal
<1>10. \A k \in All(i) : k \in i.in <=> h[k].past \subseteq All(i)
  <2> HIDE DEF i, in, all
  <2> QED BY <1>2, <1>3, <1>8
<1> HIDE DEF i, in, all
<1>11. r.in \subseteq i.in
  BY <1>2, <1>6
<1> QED BY <1>3, <1>9, <1>10, <1>11 DEF ImportsTo, i

(* An edit is made on all that its replica has integrated.                 *)
LEMMA MadeFits ==
  ASSUME NEW h, HistFits(h), NEW r, Normal(h, r), Len(h) < MaxOps,
         NEW p \in Frontends \cup {Daemon}
  PROVE  MadeFrom(h, p, r, Made(h, p, r))
<1> DEFINE op == [by |-> p, past |-> r.in]
           h2 == Append(h, op)
<1>1. h \in Seq(Op) /\ Len(h) \in Nat /\ r.in \subseteq 1..Len(h) /\ r.in \subseteq Nat
  BY DEF HistFits, Normal, All, Replica
<1>2. op \in Op /\ op.by = p /\ op.past = r.in
  BY <1>1 DEF Op
<1> HIDE DEF op
<1>3. h2 \in Seq(Op) /\ Len(h2) = Len(h) + 1 /\ h2[Len(h) + 1] = op
      /\ \A n \in 1..Len(h) : h2[n] = h[n]
  BY <1>1, <1>2
<1> HIDE DEF h2
<1>4. Extends(h, h2)
  BY <1>1, <1>3 DEF Extends
<1>5. ASSUME NEW n \in 1..Len(h2)
      PROVE  /\ h2[n].past \subseteq 1..(n - 1)
             /\ \A k \in h2[n].past : h2[k].past \subseteq h2[n].past
  <2>1. CASE n = Len(h) + 1
    <3>1. h2[n].past = r.in /\ r.in \subseteq 1..(n - 1)
      BY <1>1, <1>2, <1>3, <2>1
    <3>2. \A k \in r.in : h2[k].past \subseteq r.in
      BY <1>1, <1>3 DEF Normal
    <3> QED BY <3>1, <3>2
  <2>2. CASE n \in 1..Len(h)
    <3>1. h2[n] = h[n] /\ h[n].past \subseteq 1..(n - 1)
      BY <1>3, <2>2 DEF HistFits
    <3>2. \A k \in h[n].past : k \in 1..Len(h) /\ h[k].past \subseteq h[n].past
      <4>1. \A k \in 1..(n - 1) : k \in 1..Len(h)
        BY <1>1, <2>2
      <4> QED BY <2>2, <3>1, <4>1 DEF HistFits
    <3> QED BY <1>3, <3>1, <3>2
  <2>3. n = Len(h) + 1 \/ n \in 1..Len(h)
    BY <1>1, <1>3
  <2> QED BY <2>1, <2>2, <2>3
<1>6. Len(h2) <= MaxOps
  BY <1>1, <1>3, ConstantsAssumption
<1>7. HistFits(h2)
  BY <1>3, <1>5, <1>6 DEF HistFits
<1>8. h2 = Made(h, p, r)
  BY DEF h2, op, Made
<1> QED BY <1>2, <1>3, <1>4, <1>7, <1>8 DEF MadeFrom

(* What a replica is does not change as others' operations are made.       *)
LEMMA NormalGrows ==
  ASSUME NEW h, NEW h2, Extends(h, h2), NEW r, Normal(h, r)
  PROVE  Normal(h2, r)
<1>1. r.in \subseteq 1..Len(h) /\ r.held \subseteq 1..Len(h)
  BY DEF Normal, All
<1>2. All(r) \subseteq 1..Len(h2)
  BY DEF Normal, Extends
<1>3. \A n \in r.in : h2[n].past \subseteq r.in
  BY <1>1 DEF Normal, Extends
<1>4. \A n \in r.held : ~(h2[n].past \subseteq All(r))
  BY <1>1 DEF Normal, Extends
<1> QED BY <1>2, <1>3, <1>4 DEF Normal

(***************************************************************************)
(* Streams.                                                                *)
(***************************************************************************)
(* The stream s2 fits, and brings the frontend what s did, in its order.   *)
Follows(f, m, h, d, s, s2) ==
  /\ StreamFits(f, m, h, d, s2)
  /\ Reach(m, s, Len(s)) \subseteq Reach(m, s2, Len(s2))
  /\ s # <<>> => s2 # <<>> /\ s2[1] = s[1]

(* What the daemon may add to a stream s that a frontend already reads.    *)
Additions(f, m, h, d, s, t) ==
  /\ t \in Seq(Message)
  /\ \A i \in 1..Len(t) :
       /\ t[i].msg # "snapshot"
       /\ \A n \in Brings(t[i]) : n \in 1..Len(h) /\ n \in All(d)
       /\ t[i].msg = "cursor" => t[i].seen \subseteq Reach(m, s, Len(s))

(* The end of a concatenation: who is where.                               *)
LEMMA CatIndex ==
  ASSUME NEW S, NEW s \in Seq(S), NEW t \in Seq(S)
  PROVE  /\ s \o t \in Seq(S) /\ Len(s \o t) = Len(s) + Len(t)
         /\ \A i \in 1..Len(s) : (s \o t)[i] = s[i] /\ i \in 1..Len(s \o t)
         /\ \A i \in 1..Len(t) : /\ (s \o t)[Len(s) + i] = t[i]
                                 /\ Len(s) + i \in 1..Len(s \o t)
         /\ \A i \in 1..Len(s \o t) : \/ i \in 1..Len(s) /\ (s \o t)[i] = s[i]
                                      \/ /\ i - Len(s) \in 1..Len(t)
                                         /\ (s \o t)[i] = t[i - Len(s)]
                                         /\ Len(s) <= i - 1
OBVIOUS

(* What is added comes after what is there.                                *)
LEMMA CatFits ==
  ASSUME NEW f, NEW m, NEW h, NEW d, NEW s, NEW t,
         StreamFits(f, m, h, d, s), Additions(f, m, h, d, s, t)
  PROVE  /\ Follows(f, m, h, d, s, s \o t)
         /\ \A i \in 1..Len(t) : Brings(t[i]) \subseteq Reach(m, s \o t, Len(s \o t))
<1> DEFINE c == s \o t
<1>1. s \in Seq(Message) /\ t \in Seq(Message) /\ Len(s) \in Nat /\ Len(t) \in Nat
  BY DEF StreamFits, Additions
<1>2. /\ c \in Seq(Message) /\ Len(c) = Len(s) + Len(t)
      /\ \A i \in 1..Len(s) : c[i] = s[i] /\ i \in 1..Len(c)
      /\ \A i \in 1..Len(t) : c[Len(s) + i] = t[i] /\ Len(s) + i \in 1..Len(c)
      /\ \A i \in 1..Len(c) : \/ i \in 1..Len(s) /\ c[i] = s[i]
                              \/ /\ i - Len(s) \in 1..Len(t)
                                 /\ c[i] = t[i - Len(s)]
                                 /\ Len(s) <= i - 1
  BY <1>1, CatIndex
<1> HIDE DEF c
<1>3. ASSUME NEW k \in 0..Len(s) PROVE Reach(m, c, k) = Reach(m, s, k)
  <2>1. \A i \in 1..k : c[i] = s[i]
    BY <1>1, <1>2
  <2> QED BY <2>1 DEF Reach
<1>4. ASSUME NEW k \in Nat, Len(s) <= k PROVE Reach(m, s, Len(s)) \subseteq Reach(m, c, k)
  <2>1. \A i \in 1..Len(s) : c[i] = s[i] /\ i \in 1..k
    BY <1>1, <1>2, <1>4
  <2> QED BY <2>1 DEF Reach
<1>5. ASSUME NEW i \in 1..Len(c)
      PROVE  /\ c[i].msg = "snapshot" =>
                  /\ i = 1 /\ ~m.ready
                  /\ \A n \in c[i].in : h[n].past \subseteq c[i].in
             /\ \A n \in Brings(c[i]) : n \in 1..Len(h) /\ (h[n].by = f \/ n \in All(d))
             /\ c[i].msg = "cursor" => c[i].seen \subseteq Reach(m, c, i - 1)
  <2>1. CASE i \in 1..Len(s) /\ c[i] = s[i]
    <3>1. i - 1 \in 0..Len(s)
      BY <1>1, <2>1
    <3>2. Reach(m, c, i - 1) = Reach(m, s, i - 1)
      BY <1>3, <3>1
    <3> QED BY <2>1, <3>2 DEF StreamFits
  <2>2. CASE i - Len(s) \in 1..Len(t) /\ c[i] = t[i - Len(s)] /\ Len(s) <= i - 1
    <3>1. i - 1 \in Nat
      BY <1>1, <2>2
    <3>2. Reach(m, s, Len(s)) \subseteq Reach(m, c, i - 1)
      BY <1>4, <2>2, <3>1
    <3>3. PICK j \in 1..Len(t) : c[i] = t[j]
      BY <2>2
    <3> QED BY <3>2, <3>3 DEF Additions
  <2> QED BY <1>2, <2>1, <2>2
<1>6. StreamFits(f, m, h, d, c)
  BY <1>2, <1>5 DEF StreamFits
<1>7. Reach(m, s, Len(s)) \subseteq Reach(m, c, Len(c))
  BY <1>1, <1>2, <1>4
<1>8. ASSUME s # <<>> PROVE c # <<>> /\ c[1] = s[1]
  <2>1. 1 \in 1..Len(s)
    BY <1>1, <1>8
  <2>2. Len(c) # 0
    BY <1>1, <1>2, <2>1
  <2> QED BY <1>2, <2>1, <2>2
<1>9. ASSUME NEW i \in 1..Len(t) PROVE Brings(t[i]) \subseteq Reach(m, c, Len(c))
  <2>1. c[Len(s) + i] = t[i] /\ Len(s) + i \in 1..Len(c)
    BY <1>2
  <2> QED BY <2>1 DEF Reach
<1> QED BY <1>6, <1>7, <1>8, <1>9 DEF Follows, c

(* A message added is the sequence of one.                                 *)
LEMMA AppendCat ==
  ASSUME NEW S, NEW s \in Seq(S), NEW x \in S
  PROVE  Append(s, x) = s \o <<x>> /\ <<x>> \in Seq(S) /\ Len(<<x>>) = 1 /\ <<x>>[1] = x
OBVIOUS

(* A caret may be written once the stream has all that it has seen.        *)
LEMMA CaretFits ==
  ASSUME NEW f, NEW m, NEW h, NEW d, NEW s, StreamFits(f, m, h, d, s),
         NEW seen \in SUBSET Nat, seen \subseteq Reach(m, s, Len(s)),
         NEW w \in {"doc", "other"}
  PROVE  Follows(f, m, h, d, s, Append(s, Caret(seen, w)))
<1> DEFINE x == Caret(seen, w)
<1>1. x \in Message /\ x.msg = "cursor" /\ x.seen = seen
  BY DEF Caret, Message
<1> HIDE DEF x
<1>2. s \in Seq(Message)
  BY DEF StreamFits
<1>3. Append(s, x) = s \o <<x>> /\ <<x>> \in Seq(Message) /\ Len(<<x>>) = 1 /\ <<x>>[1] = x
  BY <1>1, <1>2, AppendCat
<1>4. Brings(x) = {}
  BY <1>1 DEF Brings
<1>5. Additions(f, m, h, d, s, <<x>>)
  <2>1. \A i \in 1..Len(<<x>>) : <<x>>[i] = x
    BY <1>3
  <2> QED BY <1>1, <1>3, <1>4, <2>1 DEF Additions
<1>6. Follows(f, m, h, d, s, s \o <<x>>)
  BY <1>5, CatFits
<1> QED BY <1>3, <1>6 DEF x

(* What DispatchIdle says moves nothing.                                   *)
LEMMA IdleFits ==
  ASSUME NEW f, NEW m, NEW h, NEW d, NEW s, StreamFits(f, m, h, d, s),
         NEW v \in BOOLEAN
  PROVE  Follows(f, m, h, d, s, Append(s, IdleMsg(v)))
<1> DEFINE x == IdleMsg(v)
<1>1. x \in Message /\ x.msg # "snapshot" /\ x.msg # "cursor" /\ x.msg # "op"
  BY DEF IdleMsg, Message
<1> HIDE DEF x
<1>2. s \in Seq(Message)
  BY DEF StreamFits
<1>3. Append(s, x) = s \o <<x>> /\ <<x>> \in Seq(Message) /\ Len(<<x>>) = 1 /\ <<x>>[1] = x
  BY <1>1, <1>2, AppendCat
<1>4. Brings(x) = {}
  BY <1>1 DEF Brings
<1>5. Additions(f, m, h, d, s, <<x>>)
  <2>1. \A i \in 1..Len(<<x>>) : <<x>>[i] = x
    BY <1>3
  <2> QED BY <1>1, <1>3, <1>4, <2>1 DEF Additions
<1>6. Follows(f, m, h, d, s, s \o <<x>>)
  BY <1>5, CatFits
<1> QED BY <1>3, <1>6 DEF x

(* One addition after another.                                             *)
LEMMA FollowsTwice ==
  ASSUME NEW f, NEW m, NEW h, NEW d, NEW s, NEW s2, NEW s3,
         Follows(f, m, h, d, s, s2), Follows(f, m, h, d, s2, s3)
  PROVE  Follows(f, m, h, d, s, s3)
BY DEF Follows

(* What Broadcast writes to frontend f.                                    *)
Tell(q, f) == [i \in 1..Len(Told(q, f)) |-> OpEvent(Told(q, f)[i].n)]

(* Broadcast adds to the streams of those attached.                        *)
LEMMA BroadcastAt ==
  ASSUME NEW dn, NEW q
  PROVE  /\ \A f \in Attached : Broadcast(dn, q)[f] = dn[f] \o Tell(q, f)
         /\ \A f \in Frontends : f \notin Attached => Broadcast(dn, q)[f] = dn[f]
BY DEF Broadcast, Tell, Attached

(* The queue may be told, and then the frontend has it.                    *)
LEMMA TellFits ==
  ASSUME NEW f, NEW m, NEW h, NEW d, NEW s, StreamFits(f, m, h, d, s),
         NEW q \in Seq(QueuedOp),
         \A i \in 1..Len(q) : q[i].n \in 1..Len(h) /\ q[i].n \in All(d)
  PROVE  /\ Follows(f, m, h, d, s, s \o Tell(q, f))
         /\ \A i \in 1..Len(q) : q[i].except # f =>
               q[i].n \in Reach(m, s \o Tell(q, f), Len(s \o Tell(q, f)))
<1> DEFINE told == Told(q, f)
           t == [i \in 1..Len(told) |-> OpEvent(told[i].n)]
<1>1. ToldOf(told, q, f, Len(q))
  BY ToldFits
<1>2. Tell(q, f) = t
  BY DEF Tell
<1> HIDE DEF told
<1>3. told \in Seq(QueuedOp) /\ Len(told) \in Nat
  BY <1>1 DEF ToldOf
<1>4. \A i \in 1..Len(told) : told[i].n \in Nat
  <2>1. \A i \in 1..Len(told) : told[i] \in QueuedOp
    BY <1>3
  <2> QED BY <2>1 DEF QueuedOp
<1>5. \A i \in 1..Len(told) : /\ OpEvent(told[i].n) \in Message
                              /\ OpEvent(told[i].n).msg = "op"
                              /\ OpEvent(told[i].n).n = told[i].n
  BY <1>4 DEF OpEvent, Message
<1>6. t \in Seq(Message) /\ Len(t) = Len(told)
      /\ \A i \in 1..Len(told) : t[i] = OpEvent(told[i].n)
  BY <1>3, <1>5
<1> HIDE DEF t
<1>7. \A i \in 1..Len(t) : t[i].msg = "op" /\ Brings(t[i]) = {told[i].n}
  BY <1>5, <1>6 DEF Brings
<1>8. ASSUME NEW i \in 1..Len(t)
      PROVE  told[i].n \in 1..Len(h) /\ told[i].n \in All(d)
  <2>1. PICK j \in 1..Len(q) : told[i] = q[j]
    BY <1>1, <1>6 DEF ToldOf
  <2> QED BY <2>1
<1>9. Additions(f, m, h, d, s, t)
  BY <1>6, <1>7, <1>8 DEF Additions
<1>10. /\ Follows(f, m, h, d, s, s \o t)
       /\ \A i \in 1..Len(t) : Brings(t[i]) \subseteq Reach(m, s \o t, Len(s \o t))
  BY <1>9, CatFits
<1>11. ASSUME NEW i \in 1..Len(q), q[i].except # f
       PROVE  q[i].n \in Reach(m, s \o t, Len(s \o t))
  <2>1. PICK j \in 1..Len(told) : told[j] = q[i]
    BY <1>1, <1>11 DEF ToldOf
  <2> QED BY <1>6, <1>7, <1>10, <2>1
<1> QED BY <1>2, <1>10, <1>11

(* What the tick writes to a frontend that has been told of everything.    *)
LEMMA PassFits ==
  ASSUME Typed, NEW f \in Frontends, NEW m, NEW h, NEW d, NEW s,
         StreamFits(f, m, h, d, s),
         d.in \in SUBSET Nat, d.in \subseteq Reach(m, s, Len(s))
  PROVE  Follows(f, m, h, d, s, s \o Pass(f, d))
<1> DEFINE c == Caret(d.in, sess[f].win)
           v == DispatchIdle(sess[f])
           s2 == Append(s, IdleMsg(v))
<1>1. sess[f] \in Session /\ sess[f].win \in {"doc", "other"} /\ v \in BOOLEAN
  BY DEF Typed, Session, DispatchIdle
<1>2. s \in Seq(Message) /\ c \in Message /\ IdleMsg(v) \in Message
  BY <1>1 DEF StreamFits, Message, Caret, IdleMsg
<1>3. Pass(f, d) = <<c>> \/ Pass(f, d) = <<IdleMsg(v)>> \o <<c>>
  <2>1. Pass(f, d) = <<>> \o <<c>> \/ Pass(f, d) = <<IdleMsg(v)>> \o <<c>>
    BY DEF Pass
  <2>2. <<>> \o <<c>> = <<c>>
    <3> HIDE DEF c
    <3> QED BY <1>2
  <2> QED BY <2>1, <2>2
<1>4. CASE Pass(f, d) = <<c>>
  <2>1. Append(s, c) = s \o <<c>>
    BY <1>2, AppendCat
  <2>2. Follows(f, m, h, d, s, Append(s, c))
    BY <1>1, CaretFits
  <2> QED BY <1>4, <2>1, <2>2
<1>5. CASE Pass(f, d) = <<IdleMsg(v)>> \o <<c>>
  <2>1. Follows(f, m, h, d, s, s2)
    BY <1>1, IdleFits
  <2>2. StreamFits(f, m, h, d, s2) /\ d.in \subseteq Reach(m, s2, Len(s2))
    BY <2>1 DEF Follows
  <2>3. Follows(f, m, h, d, s2, Append(s2, c))
    BY <1>1, <2>2, CaretFits
  <2>4. Follows(f, m, h, d, s, Append(s2, c))
    BY <2>1, <2>3, FollowsTwice
  <2>5. s \o (<<IdleMsg(v)>> \o <<c>>) = Append(s2, c)
    <3> HIDE DEF c, v
    <3> QED BY <1>2
  <2> QED BY <1>5, <2>4, <2>5
<1> QED BY <1>3, <1>4, <1>5

(***************************************************************************)
(* The document and the history grow.                                      *)
(***************************************************************************)
Grown(h, d, h2, d2) ==
  /\ Extends(h, h2) /\ HistFits(h) /\ HistFits(h2)
  /\ Normal(h, d) /\ Normal(h2, d2)
  /\ d.in \subseteq d2.in /\ All(d) \subseteq All(d2)

(* A mirror keeps its facts when others' operations are made.              *)
LEMMA MirrorGrows ==
  ASSUME NEW f, NEW m, NEW h, NEW d, NEW h2, NEW d2,
         MirrorFits(f, m, h, d), Grown(h, d, h2, d2),
         \A n \in 1..Len(h2) : n \in 1..Len(h) \/ h2[n].by # f
  PROVE  MirrorFits(f, m, h2, d2)
<1>1. Normal(h2, m.text)
  BY NormalGrows DEF MirrorFits, Grown
<1>2. All(m.text) \subseteq 1..Len(h)
  BY DEF MirrorFits, Normal
<1>3. \A n \in 1..Len(h) : h2[n] = h[n]
  BY DEF Grown, Extends
<1>4. \A n \in 1..Len(h2) : h2[n].by = f => n \in m.text.in
  BY <1>3 DEF MirrorFits
<1>5. \A n \in All(m.text) : h2[n].by = f \/ n \in All(d2)
  BY <1>2, <1>3 DEF MirrorFits, Grown
<1> QED BY <1>1, <1>4, <1>5 DEF MirrorFits

(* So does a stream.                                                       *)
LEMMA StreamGrows ==
  ASSUME NEW f, NEW m, NEW h, NEW d, NEW h2, NEW d2, NEW s,
         StreamFits(f, m, h, d, s), Grown(h, d, h2, d2)
  PROVE  StreamFits(f, m, h2, d2, s)
<1>1. \A n \in 1..Len(h) : h2[n] = h[n] /\ n \in 1..Len(h2)
  BY DEF Grown, Extends
<1>2. ASSUME NEW i \in 1..Len(s)
      PROVE  /\ s[i].msg = "snapshot" =>
                  /\ i = 1 /\ ~m.ready
                  /\ \A n \in s[i].in : h2[n].past \subseteq s[i].in
             /\ \A n \in Brings(s[i]) : n \in 1..Len(h2) /\ (h2[n].by = f \/ n \in All(d2))
             /\ s[i].msg = "cursor" => s[i].seen \subseteq Reach(m, s, i - 1)
  <2>1. \A n \in Brings(s[i]) : n \in 1..Len(h) /\ (h[n].by = f \/ n \in All(d))
    BY DEF StreamFits
  <2>2. \A n \in Brings(s[i]) : n \in 1..Len(h2) /\ (h2[n].by = f \/ n \in All(d2))
    BY <1>1, <2>1 DEF Grown
  <2>3. ASSUME s[i].msg = "snapshot"
        PROVE  i = 1 /\ ~m.ready /\ \A n \in s[i].in : h2[n].past \subseteq s[i].in
    <3>1. Brings(s[i]) = s[i].in
      BY <2>3 DEF Brings
    <3>2. \A n \in s[i].in : h2[n] = h[n]
      BY <1>1, <2>1, <3>1
    <3> QED BY <2>3, <3>2 DEF StreamFits
  <2> QED BY <2>2, <2>3 DEF StreamFits
<1> QED BY <1>2 DEF StreamFits

(* So does what a frontend has sent, unless the document has got it.       *)
LEMMA UpGrows ==
  ASSUME NEW f, NEW h, NEW d, NEW h2, NEW d2, NEW u,
         UpFits(f, u, h, d), Grown(h, d, h2, d2),
         \A n \in All(d2) : n \in All(d) \/ ~Sends(u, n)
  PROVE  UpFits(f, u, h2, d2)
<1>1. \A n \in 1..Len(h) : h2[n] = h[n] /\ n \in 1..Len(h2)
  BY DEF Grown, Extends
<1>2. ASSUME NEW i \in 1..Len(u), u[i].msg = "op"
      PROVE  /\ u[i].n \in 1..Len(h2) /\ h2[u[i].n].by = f /\ u[i].n \notin All(d2)
             /\ \A j \in 1..(i - 1) : u[j].msg = "op" => u[j].n < u[i].n
  <2>1. Sends(u, u[i].n)
    BY <1>2 DEF Sends
  <2>2. /\ u[i].n \in 1..Len(h) /\ h[u[i].n].by = f /\ u[i].n \notin All(d)
        /\ \A j \in 1..(i - 1) : u[j].msg = "op" => u[j].n < u[i].n
    BY <1>2 DEF UpFits
  <2> QED BY <1>1, <2>1, <2>2
<1> QED BY <1>2 DEF UpFits

(* The first of what a frontend has sent.                                  *)
LEMMA UpTail ==
  ASSUME NEW f, NEW h, NEW d, NEW u, UpFits(f, u, h, d), u # <<>>
  PROVE  /\ UpFits(f, Tail(u), h, d) /\ Head(u) \in Event
         /\ \A k : Sends(Tail(u), k) => Sends(u, k)
         /\ \A k : Sends(u, k) => Sends(Tail(u), k)
                                  \/ (Head(u).msg = "op" /\ Head(u).n = k)
         /\ Head(u).msg = "op" =>
              /\ Head(u).n \in 1..Len(h) /\ h[Head(u).n].by = f
              /\ Head(u).n \notin All(d) /\ ~Sends(Tail(u), Head(u).n)
              /\ \A k : Sends(Tail(u), k) => k > Head(u).n
<1> DEFINE t == Tail(u)
<1>1. u \in Seq(Event) /\ Len(u) \in Nat /\ Len(u) # 0
  BY DEF UpFits
<1>2. /\ t \in Seq(Event) /\ Len(t) = Len(u) - 1 /\ Head(u) = u[1] /\ 1 \in 1..Len(u)
      /\ \A i \in 1..Len(t) : t[i] = u[i + 1] /\ i + 1 \in 1..Len(u)
  BY <1>1
<1> HIDE DEF t
<1>3. u[1] \in Event
  BY <1>1
<1>4. \A i \in 1..Len(t) : t[i].msg = "op" =>
        /\ t[i].n \in 1..Len(h) /\ h[t[i].n].by = f /\ t[i].n \notin All(d)
        /\ u[1].msg = "op" => u[1].n < t[i].n
        /\ \A j \in 1..(i - 1) : t[j].msg = "op" => t[j].n < t[i].n
  <2> SUFFICES ASSUME NEW i \in 1..Len(t), t[i].msg = "op"
               PROVE  /\ t[i].n \in 1..Len(h) /\ h[t[i].n].by = f /\ t[i].n \notin All(d)
                      /\ u[1].msg = "op" => u[1].n < t[i].n
                      /\ \A j \in 1..(i - 1) : t[j].msg = "op" => t[j].n < t[i].n
    OBVIOUS
  <2>1. i + 1 \in 1..Len(u) /\ t[i] = u[i + 1]
    BY <1>2
  <2>2. /\ t[i].n \in 1..Len(h) /\ h[t[i].n].by = f /\ t[i].n \notin All(d)
        /\ \A j \in 1..((i + 1) - 1) : u[j].msg = "op" => u[j].n < t[i].n
    BY <2>1 DEF UpFits
  <2>3. 1 \in 1..((i + 1) - 1)
    BY <1>1, <1>2
  <2>4. \A j \in 1..(i - 1) : j + 1 \in 1..((i + 1) - 1) /\ t[j] = u[j + 1]
    BY <1>1, <1>2
  <2> QED BY <2>2, <2>3, <2>4
<1>5. UpFits(f, t, h, d)
  BY <1>2, <1>4 DEF UpFits
<1>6. \A k : Sends(t, k) => Sends(u, k)
  BY <1>2 DEF Sends
<1>7. ASSUME NEW k, Sends(u, k)
      PROVE  Sends(t, k) \/ (u[1].msg = "op" /\ u[1].n = k)
  <2>1. PICK i \in 1..Len(u) : u[i].msg = "op" /\ u[i].n = k
    BY <1>7 DEF Sends
  <2>2. CASE i # 1
    <3>1. i - 1 \in 1..Len(t) /\ (i - 1) + 1 = i
      BY <1>1, <1>2, <2>2
    <3>2. \E j \in 1..Len(t) : t[j] = u[i]
      BY <1>2, <3>1
    <3>3. PICK j \in 1..Len(t) : t[j].msg = "op" /\ t[j].n = k
      BY <2>1, <3>2
    <3>4. Sends(t, k)
      BY <3>3 DEF Sends
    <3> QED BY <3>4
  <2> QED BY <2>1, <2>2
<1>8. ASSUME u[1].msg = "op"
      PROVE  /\ u[1].n \in 1..Len(h) /\ h[u[1].n].by = f /\ u[1].n \notin All(d)
             /\ \A k : Sends(t, k) => k > u[1].n
  <2>1. u[1].n \in 1..Len(h) /\ h[u[1].n].by = f /\ u[1].n \notin All(d)
    BY <1>2, <1>8 DEF UpFits
  <2>2. ASSUME NEW k, Sends(t, k) PROVE k > u[1].n
    <3>1. PICK i \in 1..Len(t) : t[i].msg = "op" /\ t[i].n = k
      BY <2>2 DEF Sends
    <3>2. u[1].n < t[i].n /\ t[i].n \in 1..Len(h)
      BY <1>4, <1>8, <3>1
    <3> QED BY <2>1, <3>1, <3>2
  <2> QED BY <2>1, <2>2
<1>9. u[1].msg = "op" => ~Sends(t, u[1].n)
  <2> SUFFICES ASSUME u[1].msg = "op", Sends(t, u[1].n) PROVE FALSE
    OBVIOUS
  <2>1. u[1].n > u[1].n /\ u[1].n \in Nat
    BY <1>8
  <2> QED BY <2>1
<1> QED BY <1>2, <1>3, <1>5, <1>6, <1>7, <1>8, <1>9 DEF t

(* An operation that is sent is the sender's.                              *)
LEMMA UpHead ==
  ASSUME NEW f, NEW h, NEW d, NEW u, UpFits(f, u, h, d), u # <<>>, Head(u).msg = "op"
  PROVE  Head(u).n \in 1..Len(h) /\ h[Head(u).n].by = f
BY UpTail

(***************************************************************************)
(* The daemon's own edits.                                                 *)
(***************************************************************************)
(* The daemon has edited its document once, or not at all.                 *)
DaemonEdit(h, d, h2, d2) ==
  /\ Grown(h, d, h2, d2) /\ d2.held = d.held
  /\ \A n \in 1..Len(h2) : n \in 1..Len(h) \/ h2[n].by = Daemon
  /\ \A n \in All(d2) : n \in All(d) \/ n \notin 1..Len(h)

(* An edit is there at once, and frees nothing that waits.                 *)
EditedOnce(h, d, h2, d2) ==
  /\ DaemonEdit(h, d, h2, d2) /\ Len(h2) = Len(h) + 1 /\ d2.in = d.in \cup {Len(h2)}

(* No edit is no edit.                                                     *)
LEMMA NoEdit ==
  ASSUME NEW h, NEW d, HistFits(h), Normal(h, d)
  PROVE  DaemonEdit(h, d, h, d)
<1>1. Len(h) \in Nat
  BY DEF HistFits
<1> QED BY <1>1 DEF DaemonEdit, Grown, Extends

(* The daemon makes an operation and imports it.                           *)
LEMMA EditFits ==
  ASSUME NEW h, NEW d, HistFits(h), Normal(h, d), Len(h) < MaxOps
  PROVE  EditedOnce(h, d, Made(h, Daemon, d),
                    Import(Made(h, Daemon, d), d, Len(Made(h, Daemon, d))))
<1> DEFINE h2 == Made(h, Daemon, d)
           d2 == Import(h2, d, Len(h2))
<1>1. MadeFrom(h, Daemon, d, h2)
  BY MadeFits
<1> HIDE DEF h2
<1>2. Extends(h, h2) /\ HistFits(h2) /\ Len(h) \in Nat /\ Len(h2) \in 1..Len(h2)
  BY <1>1 DEF MadeFrom, Extends
<1>3. Normal(h2, d)
  BY <1>2, NormalGrows
<1>4. ImportsTo(h2, d, Len(h2), d2)
  BY <1>2, <1>3, ImportFits
<1> HIDE DEF d2
<1>5. Normal(h2, d2) /\ All(d2) = All(d) \cup {Len(h2)} /\ d.in \subseteq d2.in
      /\ \A k \in All(d2) : k \in d2.in <=> h2[k].past \subseteq All(d2)
  BY <1>4 DEF ImportsTo
<1>6. Grown(h, d, h2, d2)
  BY <1>2, <1>5 DEF Grown
<1>7. All(d) \subseteq 1..Len(h)
  BY DEF Normal
<1>8. ASSUME NEW n \in d.held PROVE ~(h2[n].past \subseteq All(d2))
  <2>1. n \in 1..Len(h)
    BY <1>7, <1>8 DEF All
  <2>2. h2[n].past \subseteq 1..(n - 1) /\ n - 1 < Len(h2)
    BY <1>1, <1>2, <2>1 DEF HistFits, MadeFrom
  <2>3. ~(h2[n].past \subseteq All(d))
    BY <1>3 DEF Normal
  <2>4. Len(h2) \notin h2[n].past
    <3>1. Len(h2) \notin 1..(n - 1)
      BY <1>2, <2>1, <2>2
    <3> QED BY <2>2, <3>1
  <2> QED BY <1>5, <2>3, <2>4
<1>9. Len(h2) \in d2.in
  <2>1. h2[Len(h2)].past = d.in
    BY <1>1 DEF MadeFrom
  <2> QED BY <1>5, <2>1 DEF All
<1>10. d2.in \cap d2.held = {}
  BY <1>5 DEF Normal, All
<1>11. d2.held = d.held
  <2>1. d.held \subseteq All(d2)
    BY <1>5 DEF All
  <2>2. \A n \in d.held : n \notin d2.in
    BY <1>5, <1>8, <2>1
  <2>3. d.held \subseteq d2.held
    BY <2>1, <2>2 DEF All
  <2>4. d2.held \subseteq d.held
    BY <1>5, <1>9, <1>10 DEF All
  <2> QED BY <2>3, <2>4
<1>12. d2.in = d.in \cup {Len(h2)}
  <2>1. d2.in \subseteq d.in \cup {Len(h2)}
    BY <1>5, <1>10, <1>11 DEF All
  <2> QED BY <1>5, <1>9, <2>1
<1>13. \A n \in 1..Len(h2) : n \in 1..Len(h) \/ h2[n].by = Daemon
  <2>1. \A n \in 1..Len(h2) : n \in 1..Len(h) \/ n = Len(h) + 1
    BY <1>1, <1>2 DEF MadeFrom
  <2> QED BY <1>1, <2>1 DEF MadeFrom
<1>14. \A n \in All(d2) : n \in All(d) \/ n \notin 1..Len(h)
  <2>1. Len(h2) \notin 1..Len(h)
    BY <1>1, <1>2 DEF MadeFrom
  <2> QED BY <1>5, <2>1
<1>15. Len(h2) = Len(h) + 1
  BY <1>1 DEF MadeFrom
<1> QED BY <1>6, <1>11, <1>12, <1>13, <1>14, <1>15 DEF EditedOnce, DaemonEdit, d2, h2

(* A frontend that has seen nothing of the edit keeps its facts.           *)
LEMMA EditKeeps ==
  ASSUME NEW f \in Frontends, NEW m, NEW u, NEW h, NEW d, NEW h2, NEW d2,
         MirrorFits(f, m, h, d), UpFits(f, u, h, d), DaemonEdit(h, d, h2, d2)
  PROVE  MirrorFits(f, m, h2, d2) /\ UpFits(f, u, h2, d2)
<1>1. \A n \in 1..Len(h2) : n \in 1..Len(h) \/ h2[n].by # f
  BY ConstantsAssumption DEF DaemonEdit
<1>2. \A k : Sends(u, k) => k \in 1..Len(h)
  BY DEF Sends, UpFits
<1>3. \A n \in All(d2) : n \in All(d) \/ ~Sends(u, n)
  BY <1>2 DEF DaemonEdit
<1>4. Grown(h, d, h2, d2)
  BY DEF DaemonEdit
<1> QED BY <1>1, <1>3, <1>4, MirrorGrows, UpGrows

(* An edit loses nothing, and what waits still waits for what is lost.     *)
LEMMA EditLoses ==
  ASSUME NEW h, NEW d, NEW h2, NEW d2, NEW u, NEW r,
         LossFits(h, d, u, r), DaemonEdit(h, d, h2, d2)
  PROVE  LossFits(h2, d2, u, r)
<1>1. /\ \A n \in 1..Len(h) : h2[n] = h[n] /\ n \in 1..Len(h2)
      /\ All(d) \subseteq All(d2) /\ Normal(h, d) /\ HistFits(h) /\ Len(h) \in Nat
  BY DEF DaemonEdit, Grown, Extends
<1>2. ASSUME NEW k \in 1..Len(h2), Lost(k, h2, d2, u) PROVE h2[k].by \in r
  <2>1. k \in 1..Len(h)
    BY <1>2, ConstantsAssumption DEF DaemonEdit, Lost
  <2>2. Lost(k, h, d, u)
    BY <1>1, <1>2, <2>1 DEF Lost
  <2> QED BY <1>1, <2>1, <2>2 DEF LossFits
<1>3. ASSUME NEW n \in d2.held
      PROVE  \E k \in h2[n].past : Lost(k, h2, d2, u) /\ h2[k].by = h2[n].by
  <2>1. n \in d.held /\ n \in 1..Len(h)
    BY <1>1, <1>3 DEF DaemonEdit, Normal, All
  <2>2. PICK k \in h[n].past : Lost(k, h, d, u) /\ h[k].by = h[n].by
    BY <2>1 DEF LossFits
  <2>3. k \in 1..(n - 1) /\ k \in 1..Len(h)
    BY <1>1, <2>1, <2>2 DEF HistFits
  <2>4. k \notin All(d2)
    BY <2>2, <2>3 DEF DaemonEdit, Lost
  <2>5. Lost(k, h2, d2, u)
    BY <1>1, <2>2, <2>3, <2>4 DEF Lost
  <2> QED BY <1>1, <2>1, <2>2, <2>3, <2>5
<1> QED BY <1>2, <1>3 DEF LossFits

(***************************************************************************)
(* The daemon takes an event of frontend f's.                              *)
(***************************************************************************)
Popped(f) == [up EXCEPT ![f] = Tail(@)]

(* Frontends' facts, but for their streams, with document d and events u.  *)
Sides(h, d, u, r) ==
  /\ \A g \in Frontends : MirrorFits(g, mirror[g], h, d) /\ UpFits(g, u[g], h, d)
  /\ LossFits(h, d, u, r)

(* Operation n of f's is imported: the rest still waits.                   *)
Received(n, d2, u2) ==
  /\ Grown(hist, doc, hist, d2) /\ Sides(hist, d2, u2, refused)
  /\ All(d2) = All(doc) \cup {n} /\ d2.in \subseteq doc.in \cup {n}

(* What is sent once the first event of f's is taken.                      *)
LEMMA PoppedSends ==
  ASSUME CollabInv, NEW f \in Frontends, up[f] # <<>>
  PROVE  /\ Popped(f) \in [Frontends -> Seq(Event)]
         /\ Popped(f)[f] = Tail(up[f])
         /\ \A g \in Frontends : g # f => Popped(f)[g] = up[g]
         /\ \A g \in Frontends : UpFits(g, Popped(f)[g], hist, doc)
         /\ \A g \in Frontends : \A k : Sends(Popped(f)[g], k) => Sends(up[g], k)
         /\ \A g \in Frontends : \A k : Sends(up[g], k) =>
               \/ Sends(Popped(f)[g], k)
               \/ g = f /\ Head(up[f]).msg = "op" /\ Head(up[f]).n = k
<1>1. up \in [Frontends -> Seq(Event)] /\ Tail(up[f]) \in Seq(Event)
  BY DEF CollabInv, Typed
<1>2. /\ Popped(f) \in [Frontends -> Seq(Event)]
      /\ Popped(f)[f] = Tail(up[f])
      /\ \A g \in Frontends : g # f => Popped(f)[g] = up[g]
  BY <1>1 DEF Popped
<1>3. \A g \in Frontends : UpFits(g, up[g], hist, doc)
  BY DEF CollabInv, FrontFits
<1>4. /\ UpFits(f, Tail(up[f]), hist, doc)
      /\ \A k : Sends(Tail(up[f]), k) => Sends(up[f], k)
      /\ \A k : Sends(up[f], k) => \/ Sends(Tail(up[f]), k)
                                   \/ (Head(up[f]).msg = "op" /\ Head(up[f]).n = k)
  BY <1>3, UpTail
<1> QED BY <1>2, <1>3, <1>4

(* A key taken loses no operation.                                         *)
LEMMA KeyTaken ==
  ASSUME CollabInv, NEW f \in Frontends, up[f] # <<>>, Head(up[f]).msg # "op"
  PROVE  Sides(hist, doc, Popped(f), refused)
<1>1. \A g \in Frontends : \A k : Sends(up[g], k) => Sends(Popped(f)[g], k)
  BY PoppedSends
<1>2. \A k : Lost(k, hist, doc, Popped(f)) => Lost(k, hist, doc, up)
  BY <1>1 DEF Lost
<1>3. \A k : Lost(k, hist, doc, up) => Lost(k, hist, doc, Popped(f))
  BY PoppedSends DEF Lost
<1>4. LossFits(hist, doc, Popped(f), refused)
  BY <1>2, <1>3 DEF LossFits, CollabInv
<1>5. \A g \in Frontends : MirrorFits(g, mirror[g], hist, doc)
  BY DEF CollabInv, FrontFits
<1> QED BY <1>4, <1>5, PoppedSends DEF Sides

(* An operation refused is lost, and its frontend one of the refused.      *)
LEMMA OpRefused ==
  ASSUME CollabInv, NEW f \in Frontends, up[f] # <<>>
  PROVE  Sides(hist, doc, Popped(f), refused \cup {f})
<1>1. \A g \in Frontends : \A k : Sends(up[g], k) => Sends(Popped(f)[g], k) \/ g = f
  BY PoppedSends
<1>2. \A k : Lost(k, hist, doc, Popped(f)) => Lost(k, hist, doc, up) \/ hist[k].by = f
  BY <1>1 DEF Lost
<1>3. \A k : Lost(k, hist, doc, up) => Lost(k, hist, doc, Popped(f))
  BY PoppedSends DEF Lost
<1>4. LossFits(hist, doc, Popped(f), refused \cup {f})
  BY <1>2, <1>3 DEF LossFits, CollabInv
<1>5. \A g \in Frontends : MirrorFits(g, mirror[g], hist, doc)
  BY DEF CollabInv, FrontFits
<1> QED BY <1>4, <1>5, PoppedSends DEF Sides

(* An operation imported: if it has to wait, then for a refused one of the *)
(* same frontend; and it frees nothing, since nothing waits for it.        *)
LEMMA OpReceived ==
  ASSUME CollabInv, NEW f \in Frontends, up[f] # <<>>, Head(up[f]).msg = "op"
  PROVE  Received(Head(up[f]).n, Import(hist, doc, Head(up[f]).n), Popped(f))
<1> DEFINE n == Head(up[f]).n
           d2 == Import(hist, doc, n)
           u2 == Popped(f)
<1>1. /\ HistFits(hist) /\ Normal(hist, doc) /\ LossFits(hist, doc, up, refused)
      /\ \A g \in Frontends : MirrorFits(g, mirror[g], hist, doc)
                              /\ UpFits(g, up[g], hist, doc)
  BY DEF CollabInv, FrontFits
<1>2. /\ n \in 1..Len(hist) /\ hist[n].by = f /\ n \notin All(doc)
      /\ ~Sends(u2[f], n) /\ \A k : Sends(u2[f], k) => k > n
  BY <1>1, UpTail, PoppedSends
<1>3. ImportsTo(hist, doc, n, d2)
  BY <1>1, <1>2, ImportFits
<1>4. /\ Normal(hist, d2) /\ All(d2) = All(doc) \cup {n} /\ doc.in \subseteq d2.in
      /\ \A k \in All(d2) : k \in d2.in <=> hist[k].past \subseteq All(d2)
  BY <1>3 DEF ImportsTo
<1>5. Sends(up[f], n)
  <2>1. up[f] \in Seq(Event) /\ 1 \in 1..Len(up[f]) /\ Head(up[f]) = up[f][1]
    BY <1>1 DEF UpFits
  <2> QED BY <2>1 DEF Sends
<1> HIDE DEF n, d2, u2
<1>6. Grown(hist, doc, hist, d2)
  <2>1. Len(hist) \in Nat
    BY <1>1 DEF HistFits
  <2> QED BY <1>1, <1>4, <2>1 DEF Grown, Extends
<1>7. \A k : Lost(k, hist, doc, up) => Lost(k, hist, d2, u2)
  BY <1>2, <1>4, <1>5, PoppedSends DEF Lost, u2
<1>8. ASSUME NEW k \in doc.held
      PROVE  /\ \E j \in hist[k].past : Lost(j, hist, d2, u2) /\ hist[j].by = hist[k].by
             /\ k \notin d2.in
  <2>1. PICK j \in hist[k].past : Lost(j, hist, doc, up) /\ hist[j].by = hist[k].by
    BY <1>1, <1>8 DEF LossFits
  <2>2. Lost(j, hist, d2, u2)
    BY <1>7, <2>1
  <2>3. k \in All(d2) /\ j \notin All(d2)
    BY <1>4, <1>8, <2>2 DEF Lost, All
  <2> QED BY <1>4, <2>1, <2>2, <2>3
<1>9. d2.in \subseteq doc.in \cup {n}
  BY <1>4, <1>8 DEF All
<1>10. ASSUME n \in d2.held
       PROVE  \E j \in hist[n].past : Lost(j, hist, d2, u2) /\ hist[j].by = hist[n].by
  <2>1. PICK j \in hist[n].past : j \notin All(d2)
    BY <1>4, <1>10 DEF Normal
  <2>2. j \in 1..(n - 1) /\ j \in 1..Len(hist)
    BY <1>1, <1>2, <2>1 DEF HistFits
  <2>3. j \in All(mirror[f].text)
    <3>1. n \in mirror[f].text.in
      BY <1>1, <1>2 DEF MirrorFits
    <3> QED BY <1>1, <2>1, <3>1 DEF MirrorFits, Normal, All
  <2>4. hist[j].by = f
    BY <1>1, <1>4, <2>1, <2>3 DEF MirrorFits
  <2>5. ~Sends(u2[f], j)
    <3>1. j \in Nat /\ n \in Nat /\ j < n
      BY <1>2, <2>2
    <3> QED BY <1>2, <3>1
  <2>6. Lost(j, hist, d2, u2)
    BY <2>1, <2>4, <2>5 DEF Lost
  <2> QED BY <1>2, <2>1, <2>4, <2>6
<1>11. \A k \in d2.held : k \in doc.held \/ k = n
  <2>1. d2.in \cap d2.held = {}
    BY <1>4 DEF Normal, All
  <2> QED BY <1>4, <2>1 DEF All
<1>12. \A k : Lost(k, hist, d2, u2) => Lost(k, hist, doc, up)
  <2> SUFFICES ASSUME NEW k, Lost(k, hist, d2, u2) PROVE Lost(k, hist, doc, up)
    OBVIOUS
  <2>1. hist[k].by \in Frontends /\ k \notin All(d2) /\ k # n /\ ~Sends(u2[hist[k].by], k)
    BY <1>4 DEF Lost
  <2>2. ~Sends(up[hist[k].by], k)
    <3>1. \A g \in Frontends : Sends(up[g], k) => Sends(u2[g], k) \/ n = k
      BY PoppedSends DEF u2, n
    <3> QED BY <2>1, <3>1
  <2> QED BY <1>4, <2>1, <2>2 DEF Lost
<1>13. LossFits(hist, d2, u2, refused)
  BY <1>1, <1>8, <1>10, <1>11, <1>12 DEF LossFits
<1>14. ASSUME NEW g \in Frontends
       PROVE  MirrorFits(g, mirror[g], hist, d2) /\ UpFits(g, u2[g], hist, d2)
  <2>1. MirrorFits(g, mirror[g], hist, d2)
    BY <1>1, <1>6, MirrorGrows
  <2>2. UpFits(g, u2[g], hist, doc)
    BY PoppedSends DEF u2
  <2>3. ~Sends(u2[g], n)
    <3>1. CASE g = f
      BY <1>2, <3>1
    <3>2. CASE g # f
      BY <1>2, <2>2, <3>2 DEF Sends, UpFits
    <3> QED BY <3>1, <3>2
  <2>4. UpFits(g, u2[g], hist, d2)
    BY <1>4, <1>6, <2>2, <2>3, UpGrows
  <2> QED BY <2>1, <2>4
<1> QED BY <1>4, <1>6, <1>9, <1>13, <1>14 DEF Received, Sides, n, d2, u2

(***************************************************************************)
(* The queue and the streams, in a step of the daemon.                     *)
(***************************************************************************)
QueueExtends(q, q2) ==
  /\ q \in Seq(QueuedOp) /\ q2 \in Seq(QueuedOp)
  /\ \A i \in 1..Len(q) : i \in 1..Len(q2) /\ q2[i] = q[i]

(* An operation is put at the end of the queue.                            *)
LEMMA QueueAdd ==
  ASSUME NEW d, NEW q, QueueFits(d, q), NEW e \in QueuedOp, e.n \in All(d)
  PROVE  /\ QueueFits(d, Append(q, e)) /\ QueueExtends(q, Append(q, e))
         /\ \E i \in 1..Len(Append(q, e)) : Append(q, e)[i] = e
<1> DEFINE q2 == Append(q, e)
<1>1. q \in Seq(QueuedOp) /\ Len(q) \in Nat
  BY DEF QueueFits
<1>2. /\ q2 \in Seq(QueuedOp) /\ Len(q2) = Len(q) + 1 /\ q2[Len(q) + 1] = e
      /\ \A i \in 1..Len(q) : q2[i] = q[i]
  BY <1>1
<1> HIDE DEF q2
<1>3. QueueExtends(q, q2)
  BY <1>1, <1>2 DEF QueueExtends
<1>4. \E i \in 1..Len(q2) : q2[i] = e
  BY <1>1, <1>2
<1>5. \A i \in 1..Len(q2) : i = Len(q) + 1 \/ i \in 1..Len(q)
  BY <1>1, <1>2
<1>6. QueueFits(d, q2)
  BY <1>2, <1>5 DEF QueueFits
<1> QED BY <1>3, <1>4, <1>6 DEF q2

(* What the document has more is on its way, or the frontend's own.        *)
LEMMA CoversMore ==
  ASSUME NEW g, NEW m, NEW s, NEW q, NEW q2, NEW d, NEW d2,
         Covers(g, m, s, q, d), QueueExtends(q, q2),
         \A n \in d2.in : \/ n \in d.in \/ n \in Reach(m, s, Len(s))
                          \/ \E i \in 1..Len(q2) : q2[i].n = n /\ q2[i].except # g
  PROVE  Covers(g, m, s, q2, d2)
<1>1. \A n \in d.in : \/ n \in Reach(m, s, Len(s))
                      \/ \E i \in 1..Len(q2) : q2[i].n = n /\ q2[i].except # g
  BY DEF Covers, QueueExtends
<1> QED BY <1>1 DEF Covers

(* The queue grows with the document when the daemon edits.                *)
QueuedEdit(d, q, h2, d2, q2) ==
  /\ QueueFits(d2, q2) /\ QueueExtends(q, q2)
  /\ \A g \in Frontends : \A n \in d2.in :
        n \in d.in \/ \E i \in 1..Len(q2) : q2[i].n = n /\ q2[i].except # g

(* Every edit of the daemon is queued for everybody.                       *)
LEMMA EditQueued ==
  ASSUME NEW h, NEW d, NEW h2, NEW d2, EditedOnce(h, d, h2, d2),
         NEW q, QueueFits(d, q), NEW p \in Frontends \cup {Daemon}
  PROVE  QueuedEdit(d, q, h2, d2, Append(q, Queued(Len(h2), p)))
<1> DEFINE e == Queued(Len(h2), p)
<1>1. Len(h2) \in Nat /\ Len(h2) \in d2.in /\ All(d) \subseteq All(d2)
      /\ d2.in = d.in \cup {Len(h2)}
  BY DEF EditedOnce, DaemonEdit, Grown, Extends
<1>2. e \in QueuedOp /\ e.n = Len(h2) /\ e.except = Daemon
  BY <1>1 DEF Queued, QueuedOp
<1> HIDE DEF e
<1>3. QueueFits(d2, q) /\ e.n \in All(d2)
  BY <1>1, <1>2 DEF QueueFits, All
<1>4. /\ QueueFits(d2, Append(q, e)) /\ QueueExtends(q, Append(q, e))
      /\ \E i \in 1..Len(Append(q, e)) : Append(q, e)[i] = e
  BY <1>2, <1>3, QueueAdd
<1>5. \A g \in Frontends : Daemon # g
  BY ConstantsAssumption
<1>6. ASSUME NEW g \in Frontends, NEW n \in d2.in
      PROVE  n \in d.in \/ \E i \in 1..Len(Append(q, e)) :
                              Append(q, e)[i].n = n /\ Append(q, e)[i].except # g
  BY <1>1, <1>2, <1>4, <1>5
<1> QED BY <1>4, <1>6 DEF QueuedEdit, e

(* Nothing is queued when nothing is edited.                               *)
LEMMA NothingQueued ==
  ASSUME NEW h, NEW d, NEW q, QueueFits(d, q)
  PROVE  QueuedEdit(d, q, h, d, q)
BY DEF QueuedEdit, QueueExtends, QueueFits

(* Once the queue is told, a frontend has, or will have, the document.     *)
LEMMA ToldAll ==
  ASSUME NEW g, NEW m, NEW h, NEW d, NEW s, NEW q,
         StreamFits(g, m, h, d, s), QueueFits(d, q), Normal(h, d),
         Covers(g, m, s, q, d)
  PROVE  /\ Follows(g, m, h, d, s, s \o Tell(q, g))
         /\ d.in \subseteq Reach(m, s \o Tell(q, g), Len(s \o Tell(q, g)))
<1> DEFINE t == s \o Tell(q, g)
<1>1. q \in Seq(QueuedOp)
      /\ \A i \in 1..Len(q) : q[i].n \in 1..Len(h) /\ q[i].n \in All(d)
  BY DEF QueueFits, Normal
<1>2. /\ Follows(g, m, h, d, s, t)
      /\ \A i \in 1..Len(q) : q[i].except # g => q[i].n \in Reach(m, t, Len(t))
  BY <1>1, TellFits
<1>3. Reach(m, s, Len(s)) \subseteq Reach(m, t, Len(t))
  BY <1>2 DEF Follows
<1> HIDE DEF t
<1>4. d.in \subseteq Reach(m, t, Len(t))
  BY <1>2, <1>3 DEF Covers
<1> QED BY <1>2, <1>4 DEF t

(* What one has all of covers the document, with nothing queued.           *)
LEMMA AllCovers ==
  ASSUME NEW g, NEW m, NEW s, NEW d, d.in \subseteq Reach(m, s, Len(s))
  PROVE  Covers(g, m, s, <<>>, d)
BY DEF Covers

(* A step of the daemon keeps the invariant when every stream follows.     *)
LEMMA DaemonStep ==
  ASSUME CollabInv, Typed', mirror' = mirror, Grown(hist, doc, hist', doc'),
         Sides(hist', doc', up', refused'), QueueFits(doc', queue'),
         \A g \in Frontends : sess'[g].on = sess[g].on,
         \A g \in Attached :
            /\ Follows(g, mirror[g], hist', doc', down[g], down'[g])
            /\ Covers(g, mirror[g], down'[g], queue', doc'),
         \A g \in Frontends : g \notin Attached => down'[g] = down[g] /\ up'[g] = <<>>
  PROVE  CollabInv'
<1>1. ASSUME NEW g \in Frontends PROVE FrontFits(g)'
  <2>1. /\ MirrorFits(g, mirror[g], hist', doc')
        /\ UpFits(g, up'[g], hist', doc')
    BY DEF Sides
  <2>2. /\ StreamFits(g, mirror[g], hist, doc, down[g])
        /\ LinkFits(sess[g], mirror[g], down[g], up[g])
    BY DEF CollabInv, FrontFits
  <2>3. CASE g \in Attached
    <3>1. Follows(g, mirror[g], hist', doc', down[g], down'[g])
      BY <2>3
    <3>2. StreamFits(g, mirror[g], hist', doc', down'[g])
      BY <3>1 DEF Follows
    <3>3. LinkFits(sess'[g], mirror[g], down'[g], up'[g])
      BY <2>2, <2>3, <3>1 DEF Follows, LinkFits, Attached
    <3>4. Covers(g, mirror[g], down'[g], queue', doc')
      BY <2>3
    <3> QED BY <2>1, <3>2, <3>3, <3>4 DEF FrontFits
  <2>4. CASE g \notin Attached
    <3>1. StreamFits(g, mirror[g], hist', doc', down[g])
      BY <2>2, StreamGrows
    <3>2. ~sess[g].on /\ down'[g] = down[g] /\ up'[g] = <<>>
      BY <2>4 DEF Attached
    <3>3. LinkFits(sess'[g], mirror[g], down'[g], up'[g])
      BY <2>2, <3>2 DEF LinkFits
    <3> QED BY <2>1, <3>1, <3>2, <3>3 DEF FrontFits
  <2> QED BY <2>3, <2>4
<1>2. HistFits(hist') /\ Normal(hist', doc')
  BY DEF Grown
<1>3. LossFits(hist', doc', up', refused')
  BY DEF Sides
<1> QED BY <1>1, <1>2, <1>3 DEF CollabInv

(* Whose streams are whose.                                                *)
StreamMap(dn) == dn = [g \in Frontends |-> dn[g]]

(* Only the frontend that asked may get a caret early.                     *)
LEMMA ConfirmAt ==
  ASSUME NEW dn, StreamMap(dn), NEW f \in Frontends, NEW seen, NEW s
  PROVE  /\ StreamMap(Confirm(dn, f, seen, s))
         /\ \A g \in Frontends : g # f => Confirm(dn, f, seen, s)[g] = dn[g]
         /\ \/ Confirm(dn, f, seen, s)[f] = dn[f]
            \/ Confirm(dn, f, seen, s)[f] = Append(dn[f], Caret(seen, s.win))
<1> DEFINE x == Append(dn[f], Caret(seen, s.win))
           c == [dn EXCEPT ![f] = x]
<1>1. Confirm(dn, f, seen, s) = dn \/ Confirm(dn, f, seen, s) = c
  BY DEF Confirm
<1> HIDE DEF x
<1>2. /\ c = [g \in Frontends |-> IF g = f THEN x ELSE dn[g]]
  BY DEF StreamMap
<1>3. StreamMap(c) /\ c[f] = x /\ \A g \in Frontends : g # f => c[g] = dn[g]
  <2> HIDE DEF c
  <2> QED BY <1>2 DEF StreamMap
<1> HIDE DEF c
<1> QED BY <1>1, <1>3 DEF x

(* An edit keeps what the frontends' sides are.                            *)
LEMMA SidesEdited ==
  ASSUME NEW h, NEW d, NEW h2, NEW d2, NEW u, NEW r,
         Sides(h, d, u, r), DaemonEdit(h, d, h2, d2)
  PROVE  Sides(h2, d2, u, r)
<1>1. LossFits(h2, d2, u, r)
  BY EditLoses DEF Sides
<1>2. ASSUME NEW g \in Frontends
      PROVE  MirrorFits(g, mirror[g], h2, d2) /\ UpFits(g, u[g], h2, d2)
  BY EditKeeps DEF Sides
<1> QED BY <1>1, <1>2 DEF Sides

(* A broadcast catches up everyone attached.                               *)
LEMMA BroadcastFits ==
  ASSUME NEW g \in Attached, NEW h, NEW d, NEW q, NEW dn, NEW s,
         StreamFits(g, mirror[g], h, d, s), Follows(g, mirror[g], h, d, s, dn[g]),
         QueueFits(d, q), Normal(h, d), Covers(g, mirror[g], s, q, d)
  PROVE  /\ Follows(g, mirror[g], h, d, s, Broadcast(dn, q)[g])
         /\ d.in \subseteq Reach(mirror[g], Broadcast(dn, q)[g], Len(Broadcast(dn, q)[g]))
<1>1. Broadcast(dn, q)[g] = dn[g] \o Tell(q, g)
  BY BroadcastAt
<1>2. StreamFits(g, mirror[g], h, d, dn[g])
      /\ Reach(mirror[g], s, Len(s)) \subseteq Reach(mirror[g], dn[g], Len(dn[g]))
  BY DEF Follows
<1>3. Covers(g, mirror[g], dn[g], q, d)
  BY <1>2 DEF Covers
<1>4. /\ Follows(g, mirror[g], h, d, dn[g], dn[g] \o Tell(q, g))
      /\ d.in \subseteq Reach(mirror[g], dn[g] \o Tell(q, g), Len(dn[g] \o Tell(q, g)))
  BY <1>2, <1>3, ToldAll
<1>5. Follows(g, mirror[g], h, d, s, dn[g] \o Tell(q, g))
  BY <1>4, FollowsTwice
<1> QED BY <1>1, <1>4, <1>5

(* A stream follows itself.                                                *)
LEMMA FollowsSelf ==
  ASSUME NEW g, NEW m, NEW h, NEW d, NEW s, StreamFits(g, m, h, d, s)
  PROVE  Follows(g, m, h, d, s, s)
BY DEF Follows

(* Streams that follow are sequences of messages.                          *)
LEMMA StreamsTyped ==
  ASSUME CollabInv, NEW h, NEW d, NEW dn, StreamMap(dn),
         \A g \in Attached : Follows(g, mirror[g], h, d, down[g], dn[g]),
         \A g \in Frontends : g \notin Attached => dn[g] = down[g]
  PROVE  dn \in [Frontends -> Seq(Message)]
<1>1. ASSUME NEW g \in Frontends PROVE dn[g] \in Seq(Message)
  <2>1. down[g] \in Seq(Message)
    BY DEF CollabInv, Typed
  <2> QED BY <2>1 DEF Follows, StreamFits
<1> QED BY <1>1 DEF StreamMap

(* A frontend that is read from is attached.                               *)
LEMMA SenderAttached ==
  ASSUME CollabInv, NEW f \in Frontends, up[f] # <<>>
  PROVE  f \in Attached /\ \A g \in Frontends : g \notin Attached => Popped(f)[g] = <<>>
<1>1. \A g \in Frontends : g \notin Attached => up[g] = <<>>
  BY DEF CollabInv, FrontFits, LinkFits, Attached
<1>2. \A g \in Frontends : g # f => Popped(f)[g] = up[g]
  BY PoppedSends
<1> QED BY <1>1, <1>2

(* What the daemon has edited and queued, of the state it is in.           *)
LEMMA EditSides ==
  ASSUME CollabInv, NEW h2, NEW d2, NEW q, DaemonEdit(hist, doc, h2, d2),
         QueuedEdit(doc, queue, h2, d2, q)
  PROVE  /\ Grown(hist, doc, h2, d2) /\ QueueFits(d2, q) /\ Normal(h2, d2)
         /\ \A g \in Frontends : StreamFits(g, mirror[g], h2, d2, down[g])
         /\ \A g \in Attached : Covers(g, mirror[g], down[g], q, d2)
<1>1. Grown(hist, doc, h2, d2) /\ QueueFits(d2, q) /\ Normal(h2, d2)
  BY DEF DaemonEdit, QueuedEdit, Grown
<1>2. \A g \in Frontends : StreamFits(g, mirror[g], h2, d2, down[g])
  BY <1>1, StreamGrows DEF CollabInv, FrontFits
<1>3. ASSUME NEW g \in Attached PROVE Covers(g, mirror[g], down[g], q, d2)
  <2>1. g \in Frontends /\ Covers(g, mirror[g], down[g], queue, doc)
    BY DEF CollabInv, FrontFits, Attached
  <2>2. \A n \in d2.in : \/ n \in doc.in
                         \/ \E i \in 1..Len(q) : q[i].n = n /\ q[i].except # g
    BY <2>1 DEF QueuedEdit
  <2> QED BY <2>1, <2>2, CoversMore DEF QueuedEdit
<1> QED BY <1>1, <1>2, <1>3

(***************************************************************************)
(* The daemon's actions.                                                   *)
(***************************************************************************)
(* The daemon edits on behalf of p, or not; q is the queue then.           *)
MayQueue(p, q) ==
  \/ UNCHANGED <<hist, doc>> /\ q = queue
  \/ /\ Len(hist) < MaxOps /\ hist' = Made(hist, Daemon, doc)
     /\ doc' = Import(hist', doc, Len(hist'))
     /\ q = Append(queue, Queued(Len(hist'), p))

(* Whatever it does, the queue keeps up with the document.                 *)
LEMMA MayQueueFits ==
  ASSUME CollabInv, NEW p \in Frontends \cup {Daemon}, NEW q, MayQueue(p, q)
  PROVE  DaemonEdit(hist, doc, hist', doc') /\ QueuedEdit(doc, queue, hist', doc', q)
<1>1. HistFits(hist) /\ Normal(hist, doc) /\ QueueFits(doc, queue)
  BY DEF CollabInv
<1>2. CASE UNCHANGED <<hist, doc>> /\ q = queue
  <2>1. hist' = hist /\ doc' = doc
    BY <1>2
  <2> QED BY <1>1, <1>2, <2>1, NoEdit, NothingQueued
<1>3. CASE /\ Len(hist) < MaxOps /\ hist' = Made(hist, Daemon, doc)
           /\ doc' = Import(hist', doc, Len(hist'))
           /\ q = Append(queue, Queued(Len(hist'), p))
  <2>1. EditedOnce(hist, doc, hist', doc')
    BY <1>1, <1>3, EditFits
  <2>2. DaemonEdit(hist, doc, hist', doc')
    BY <2>1 DEF EditedOnce
  <2>3. QueuedEdit(doc, queue, hist', doc', q)
    BY <1>1, <1>3, <2>1, EditQueued
  <2> QED BY <2>2, <2>3
<1> QED BY <1>2, <1>3 DEF MayQueue

(* A key, its command's edit, the operations and the caret after them.     *)
LEMMA KeyRunFits ==
  ASSUME CollabInv, NEW f \in Frontends, up[f] # <<>>, Head(up[f]).msg # "op",
         NEW s \in Session, s.on = sess[f].on, NEW edit \in BOOLEAN,
         KeyRun(f, s, edit), up' = Popped(f), UNCHANGED <<mirror, keys, refused, ops>>
  PROVE  CollabInv'
<1>1. f \in Attached /\ \A g \in Frontends : g \notin Attached => up'[g] = <<>>
  BY SenderAttached
<1>2. PICK q : /\ MayQueue(f, q) /\ queue' = <<>>
               /\ down' = Confirm(Broadcast(down, q), f, doc'.in, s)
  <2>1. CASE edit
    BY <2>1 DEF KeyRun, MayQueue
  <2>2. CASE ~edit
    BY <2>2 DEF KeyRun, MayQueue
  <2> QED BY <2>1, <2>2
<1>3. DaemonEdit(hist, doc, hist', doc') /\ QueuedEdit(doc, queue, hist', doc', q)
  BY <1>2, MayQueueFits
<1>4. /\ Grown(hist, doc, hist', doc') /\ QueueFits(doc', q) /\ Normal(hist', doc')
      /\ \A g \in Frontends : StreamFits(g, mirror[g], hist', doc', down[g])
      /\ \A g \in Attached : Covers(g, mirror[g], down[g], q, doc')
  BY <1>3, EditSides
<1>5. Sides(hist', doc', up', refused')
  BY <1>3, KeyTaken, SidesEdited
<1> DEFINE b == Broadcast(down, q)
<1>6. StreamMap(b)
  BY DEF Broadcast, StreamMap
<1>7. \A g \in Attached :
        /\ Follows(g, mirror[g], hist', doc', down[g], b[g])
        /\ doc'.in \subseteq Reach(mirror[g], b[g], Len(b[g]))
  <2> SUFFICES ASSUME NEW g \in Attached
               PROVE  /\ Follows(g, mirror[g], hist', doc', down[g], b[g])
                      /\ doc'.in \subseteq Reach(mirror[g], b[g], Len(b[g]))
    OBVIOUS
  <2>1. StreamFits(g, mirror[g], hist', doc', down[g])
    BY <1>4 DEF Attached
  <2> QED BY <1>4, <2>1, FollowsSelf, BroadcastFits
<1>8. \A g \in Frontends : g \notin Attached => b[g] = down[g]
  BY BroadcastAt
<1> HIDE DEF b
<1>9. /\ StreamMap(down') /\ \A g \in Frontends : g # f => down'[g] = b[g]
      /\ down'[f] = b[f] \/ down'[f] = Append(b[f], Caret(doc'.in, s.win))
  BY <1>2, <1>6, ConfirmAt DEF b
<1>10. ASSUME NEW g \in Attached
       PROVE  /\ Follows(g, mirror[g], hist', doc', down[g], down'[g])
              /\ Covers(g, mirror[g], down'[g], queue', doc')
  <2>1. CASE down'[g] = b[g]
    BY <1>2, <1>7, <2>1, AllCovers
  <2>2. CASE g = f /\ down'[f] = Append(b[f], Caret(doc'.in, s.win))
    <3>1. doc'.in \in SUBSET Nat /\ s.win \in {"doc", "other"}
      BY <1>4 DEF Normal, Replica, Session
    <3>2. StreamFits(f, mirror[f], hist', doc', b[f])
      BY <1>1, <1>7 DEF Follows
    <3>3. Follows(f, mirror[f], hist', doc', b[f], down'[f])
      BY <1>1, <1>7, <2>2, <3>1, <3>2, CaretFits
    <3>4. Follows(f, mirror[f], hist', doc', down[f], down'[f])
      BY <1>1, <1>7, <3>3, FollowsTwice
    <3>5. doc'.in \subseteq Reach(mirror[f], down'[f], Len(down'[f]))
      BY <1>1, <1>7, <3>3 DEF Follows
    <3> QED BY <1>2, <2>2, <3>4, <3>5, AllCovers
  <2> QED BY <1>9, <2>1, <2>2 DEF Attached
<1>11. \A g \in Frontends : g \notin Attached => down'[g] = down[g]
  BY <1>1, <1>8, <1>9
<1>12. down' \in [Frontends -> Seq(Message)]
  BY <1>9, <1>10, <1>11, StreamsTyped
<1>13. sess' \in [Frontends -> Session] /\ \A g \in Frontends : sess'[g].on = sess[g].on
  BY DEF KeyRun, CollabInv, Typed
<1>14. up' \in [Frontends -> Seq(Event)]
  BY PoppedSends
<1>15. Typed'
  BY <1>12, <1>13, <1>14 DEF CollabInv, Typed
<1>16. QueueFits(doc', queue')
  BY <1>2 DEF QueueFits
<1> QED BY <1>1, <1>4, <1>5, <1>10, <1>11, <1>13, <1>15, <1>16, DaemonStep

(* A paste waits in the queue for the tick.                                *)
LEMMA PasteFits ==
  ASSUME CollabInv, NEW f \in Frontends, up[f] # <<>>, Head(up[f]).msg # "op",
         PasteEvent(f), up' = Popped(f), UNCHANGED <<mirror, keys, refused, ops>>
  PROVE  CollabInv'
<1>1. f \in Attached /\ \A g \in Frontends : g \notin Attached => up'[g] = <<>>
  BY SenderAttached
<1>2. MayQueue(f, queue') /\ UNCHANGED <<sess, down>>
  BY DEF PasteEvent, MayQueue
<1>3. DaemonEdit(hist, doc, hist', doc') /\ QueuedEdit(doc, queue, hist', doc', queue')
  BY <1>2, MayQueueFits
<1>4. /\ Grown(hist, doc, hist', doc') /\ QueueFits(doc', queue') /\ Normal(hist', doc')
      /\ \A g \in Frontends : StreamFits(g, mirror[g], hist', doc', down[g])
      /\ \A g \in Attached : Covers(g, mirror[g], down[g], queue', doc')
  BY <1>3, EditSides
<1>5. Sides(hist', doc', up', refused')
  BY <1>3, KeyTaken, SidesEdited
<1>6. ASSUME NEW g \in Attached
      PROVE  /\ Follows(g, mirror[g], hist', doc', down[g], down'[g])
             /\ Covers(g, mirror[g], down'[g], queue', doc')
  <2>1. StreamFits(g, mirror[g], hist', doc', down[g])
    BY <1>4 DEF Attached
  <2> QED BY <1>2, <1>4, <2>1, FollowsSelf
<1>7. up' \in [Frontends -> Seq(Event)]
  BY PoppedSends
<1>8. Typed'
  BY <1>2, <1>7 DEF CollabInv, Typed
<1> QED BY <1>1, <1>2, <1>4, <1>5, <1>6, <1>8, DaemonStep

(* A refused operation leaves the document as it is.                       *)
LEMMA RefusedFits ==
  ASSUME CollabInv, NEW f \in Frontends, up[f] # <<>>, RefusedOp(f),
         up' = Popped(f), UNCHANGED <<mirror, keys, ops>>
  PROVE  CollabInv'
<1>1. f \in Attached /\ \A g \in Frontends : g \notin Attached => up'[g] = <<>>
  BY SenderAttached
<1>2. UNCHANGED <<hist, doc, queue, sess, down>> /\ refused' = refused \cup {f}
  BY DEF RefusedOp
<1>3. HistFits(hist) /\ Normal(hist, doc) /\ QueueFits(doc, queue)
  BY DEF CollabInv
<1>4. Grown(hist, doc, hist', doc') /\ QueueFits(doc', queue')
  BY <1>2, <1>3, NoEdit DEF DaemonEdit
<1>5. Sides(hist', doc', up', refused')
  BY <1>2, OpRefused
<1>6. ASSUME NEW g \in Attached
      PROVE  /\ Follows(g, mirror[g], hist', doc', down[g], down'[g])
             /\ Covers(g, mirror[g], down'[g], queue', doc')
  <2>1. /\ StreamFits(g, mirror[g], hist, doc, down[g])
        /\ Covers(g, mirror[g], down[g], queue, doc)
    BY DEF CollabInv, FrontFits, Attached
  <2>2. hist' = hist /\ doc' = doc /\ down' = down /\ queue' = queue
    BY <1>2
  <2> QED BY <2>1, <2>2, FollowsSelf
<1>7. up' \in [Frontends -> Seq(Event)]
  BY PoppedSends
<1>8. Typed'
  BY <1>2, <1>7 DEF CollabInv, Typed
<1> QED BY <1>1, <1>2, <1>4, <1>5, <1>6, <1>8, DaemonStep

(* Nothing is between what has grown and what has grown again.             *)
LEMMA GrownTwice ==
  ASSUME NEW h, NEW d, NEW h2, NEW d2, NEW h3, NEW d3,
         Grown(h, d, h2, d2), Grown(h2, d2, h3, d3)
  PROVE  Grown(h, d, h3, d3)
BY DEF Grown, Extends

(* An operation imported, the caret confirmed, the hook's edit, and all    *)
(* that is told.                                                           *)
LEMMA RemoteFits ==
  ASSUME CollabInv, NEW f \in Frontends, up[f] # <<>>, Head(up[f]).msg = "op",
         NEW hook \in BOOLEAN, RemoteOp(f, Head(up[f]).n, hook),
         up' = Popped(f), UNCHANGED <<mirror, keys, refused, ops>>
  PROVE  CollabInv'
<1> DEFINE n == Head(up[f]).n
           d == Import(hist, doc, n)
           e == [n |-> n, except |-> f, key |-> f]
           late == {queue[i].n : i \in 1..Len(queue)}
           seen == d.in \ late
           c == Confirm(down, f, seen, sess[f])
<1>1. f \in Attached /\ \A g \in Frontends : g \notin Attached => up'[g] = <<>>
  BY SenderAttached
<1>2. Received(n, d, up')
  BY OpReceived
<1>3. /\ Grown(hist, doc, hist, d) /\ Sides(hist, d, up', refused)
      /\ All(d) = All(doc) \cup {n} /\ d.in \subseteq doc.in \cup {n}
  BY <1>2 DEF Received
<1>4. PICK q : /\ \/ UNCHANGED hist /\ doc' = d /\ q = queue
                  \/ /\ Len(hist) < MaxOps /\ hist' = Made(hist, Daemon, d)
                     /\ doc' = Import(hist', d, Len(hist'))
                     /\ q = Append(queue, Queued(Len(hist'), f))
               /\ queue' = <<>> /\ UNCHANGED sess
               /\ \/ down' = Broadcast(c, Append(q, e))
                  \/ down' = Broadcast(down, Append(q, e))
  <2>0. queue \in Seq(QueuedOp)
    BY DEF CollabInv, QueueFits
  <2>1. CASE hook
    <3> DEFINE x == Queued(Len(hist'), f)
    <3>1. hist' = Made(hist, Daemon, d) /\ Len(hist) < MaxOps
          /\ doc' = Import(hist', d, Len(hist')) /\ queue' = <<>> /\ UNCHANGED sess
      BY <2>1 DEF RemoteOp
    <3>2. \/ down' = Broadcast(c, queue \o <<x>> \o <<e>>)
          \/ down' = Broadcast(down, queue \o <<x>> \o <<e>>)
      BY <2>1, <3>1 DEF RemoteOp
    <3>3. queue \o <<x>> \o <<e>> = Append(Append(queue, x), e)
      <4> HIDE DEF x, e
      <4> QED BY <2>0
    <3> QED BY <3>1, <3>2, <3>3
  <2>2. CASE ~hook
    <3>1. hist' = hist /\ doc' = d /\ queue' = <<>> /\ UNCHANGED sess
      BY <2>2 DEF RemoteOp
    <3>2. \/ down' = Broadcast(c, queue \o <<>> \o <<e>>)
          \/ down' = Broadcast(down, queue \o <<>> \o <<e>>)
      BY <2>2 DEF RemoteOp
    <3>3. queue \o <<>> \o <<e>> = Append(queue, e)
      <4> HIDE DEF e
      <4> QED BY <2>0
    <3> QED BY <3>1, <3>2, <3>3
  <2> QED BY <2>1, <2>2
<1>5. QueueFits(d, queue) /\ HistFits(hist) /\ Normal(hist, d)
  BY <1>3 DEF CollabInv, QueueFits, Grown
<1>6. DaemonEdit(hist, d, hist', doc') /\ QueuedEdit(d, queue, hist', doc', q)
  <2>1. CASE UNCHANGED hist /\ doc' = d /\ q = queue
    <3>1. hist' = hist /\ doc' = d
      BY <2>1
    <3> QED BY <1>5, <2>1, <3>1, NoEdit, NothingQueued
  <2>2. CASE /\ Len(hist) < MaxOps /\ hist' = Made(hist, Daemon, d)
             /\ doc' = Import(hist', d, Len(hist'))
             /\ q = Append(queue, Queued(Len(hist'), f))
    <3>1. EditedOnce(hist, d, hist', doc')
      BY <1>5, <2>2, EditFits
    <3> QED BY <1>5, <2>2, <3>1, EditQueued DEF EditedOnce
  <2> QED BY <1>4, <2>1, <2>2
<1> HIDE DEF d
<1>7. Grown(hist, doc, hist', doc') /\ Normal(hist', doc')
  BY <1>3, <1>6, GrownTwice DEF DaemonEdit, Grown
<1>8. Sides(hist', doc', up', refused')
  BY <1>3, <1>6, SidesEdited
<1>9. /\ n \in 1..Len(hist) /\ hist[n].by = f /\ n \in mirror[f].text.in
  <2>1. UpFits(f, up[f], hist, doc) /\ MirrorFits(f, mirror[f], hist, doc)
    BY DEF CollabInv, FrontFits
  <2>2. n \in 1..Len(hist) /\ hist[n].by = f
    BY <2>1, UpHead
  <2> QED BY <2>1, <2>2 DEF MirrorFits
<1> HIDE DEF n
<1>10. e \in QueuedOp /\ e.n = n /\ e.except = f
  BY <1>5, <1>9 DEF QueuedOp, HistFits
<1> HIDE DEF e
<1> DEFINE p == Append(q, e)
<1>11. /\ QueueFits(doc', p) /\ QueueExtends(q, p)
       /\ \E i \in 1..Len(p) : p[i] = e
  <2>1. QueueFits(doc', q) /\ n \in All(doc')
    BY <1>3, <1>6 DEF QueuedEdit, DaemonEdit, Grown
  <2> QED BY <1>10, <2>1, QueueAdd
<1>12. QueueExtends(queue, p)
  BY <1>6, <1>11 DEF QueuedEdit, QueueExtends
<1> HIDE DEF p
<1>13. \A g \in Frontends : StreamFits(g, mirror[g], hist', doc', down[g])
  BY <1>7, StreamGrows DEF CollabInv, FrontFits
<1>14. n \in Reach(mirror[f], down[f], Len(down[f]))
  BY <1>9 DEF Reach, All
<1>15. ASSUME NEW g \in Attached PROVE Covers(g, mirror[g], down[g], p, doc')
  <2>1. g \in Frontends /\ Covers(g, mirror[g], down[g], queue, doc)
    BY DEF CollabInv, FrontFits, Attached
  <2>2. \A x \in doc'.in : \/ x \in d.in
                           \/ \E i \in 1..Len(q) : q[i].n = x /\ q[i].except # g
    BY <1>6, <2>1 DEF QueuedEdit
  <2>3. \A x \in doc'.in : \/ x \in d.in
                           \/ \E i \in 1..Len(p) : p[i].n = x /\ p[i].except # g
    BY <1>11, <2>2 DEF QueueExtends
  <2>4. \/ n \in Reach(mirror[g], down[g], Len(down[g]))
        \/ \E i \in 1..Len(p) : p[i].n = n /\ p[i].except # g
    BY <1>10, <1>11, <1>14
  <2>5. \A x \in doc'.in : \/ x \in doc.in \/ x \in Reach(mirror[g], down[g], Len(down[g]))
                           \/ \E i \in 1..Len(p) : p[i].n = x /\ p[i].except # g
    BY <1>3, <2>3, <2>4
  <2> QED BY <1>12, <2>1, <2>5, CoversMore

<1>16. StreamMap(down) /\ StreamMap(c)
  <2>1. StreamMap(down)
    BY DEF StreamMap, CollabInv, Typed
  <2> QED BY <2>1, ConfirmAt
<1>17. \A g \in Frontends : \/ c[g] = down[g]
                            \/ g = f /\ c[g] = Append(down[g], Caret(seen, sess[f].win))
  BY <1>16, ConfirmAt
<1>18. seen \in SUBSET Nat /\ seen \subseteq Reach(mirror[f], down[f], Len(down[f]))
  <2>1. Covers(f, mirror[f], down[f], queue, doc)
    BY <1>1 DEF CollabInv, FrontFits, Attached
  <2>2. \A x \in doc.in : x \in late \/ x \in Reach(mirror[f], down[f], Len(down[f]))
    BY <2>1 DEF Covers
  <2>3. d.in \in SUBSET Nat
    BY <1>5 DEF Normal, Replica
  <2> QED BY <1>3, <1>14, <2>2, <2>3
<1> HIDE DEF seen
<1>19. ASSUME NEW g \in Attached
       PROVE  Follows(g, mirror[g], hist', doc', down[g], c[g])
  <2>1. g \in Frontends /\ StreamFits(g, mirror[g], hist', doc', down[g])
    BY <1>13 DEF Attached
  <2>2. CASE c[g] = down[g]
    BY <2>1, <2>2, FollowsSelf
  <2>3. CASE g = f /\ c[g] = Append(down[g], Caret(seen, sess[f].win))
    <3>1. sess[f].win \in {"doc", "other"}
      BY DEF CollabInv, Typed, Session
    <3> QED BY <1>18, <2>1, <2>3, <3>1, CaretFits
  <2> QED BY <1>17, <2>1, <2>2, <2>3
<1>20. \A g \in Frontends : g \notin Attached => c[g] = down[g]
  BY <1>1, <1>17
<1> HIDE DEF c
<1>21. PICK b : /\ StreamMap(b) /\ down' = Broadcast(b, p)
                /\ \A g \in Attached : Follows(g, mirror[g], hist', doc', down[g], b[g])
                /\ \A g \in Frontends : g \notin Attached => b[g] = down[g]
  <2>1. CASE down' = Broadcast(c, p)
    BY <1>16, <1>19, <1>20, <2>1
  <2>2. CASE down' = Broadcast(down, p)
    <3>1. \A g \in Attached : Follows(g, mirror[g], hist', doc', down[g], down[g])
      BY <1>13, FollowsSelf DEF Attached
    <3> QED BY <1>16, <2>2, <3>1
  <2> QED BY <1>4, <2>1, <2>2 DEF p
<1>22. ASSUME NEW g \in Attached
       PROVE  /\ Follows(g, mirror[g], hist', doc', down[g], down'[g])
              /\ Covers(g, mirror[g], down'[g], queue', doc')
  <2>1. StreamFits(g, mirror[g], hist', doc', down[g])
    BY <1>13 DEF Attached
  <2>2. /\ Follows(g, mirror[g], hist', doc', down[g], down'[g])
        /\ doc'.in \subseteq Reach(mirror[g], down'[g], Len(down'[g]))
    BY <1>7, <1>11, <1>15, <1>21, <2>1, BroadcastFits
  <2> QED BY <1>4, <2>2, AllCovers
<1>23. \A g \in Frontends : g \notin Attached => down'[g] = down[g]
  BY <1>21, BroadcastAt
<1>24. StreamMap(down')
  BY <1>21 DEF Broadcast, StreamMap
<1>25. down' \in [Frontends -> Seq(Message)]
  BY <1>22, <1>23, <1>24, StreamsTyped
<1>26. up' \in [Frontends -> Seq(Event)]
  BY PoppedSends
<1>27. Typed' /\ QueueFits(doc', queue')
  BY <1>4, <1>25, <1>26 DEF CollabInv, Typed, QueueFits
<1> QED BY <1>1, <1>4, <1>7, <1>8, <1>22, <1>23, <1>27, DaemonStep

(* The tick: Lua's edits, what is queued, and the pass.                    *)
LEMMA TickFits ==
  ASSUME CollabInv, NEW lua \in BOOLEAN, Tick(lua)
  PROVE  CollabInv'
<1>1. PICK q : /\ MayQueue(Daemon, q) /\ queue' = <<>>
               /\ down' = [f \in Frontends |->
                             IF f \in Attached THEN Broadcast(down, q)[f] \o Pass(f, doc')
                             ELSE Broadcast(down, q)[f]]
  <2>1. CASE lua
    BY <2>1 DEF Tick, MayQueue
  <2>2. CASE ~lua
    BY <2>2 DEF Tick, MayQueue
  <2> QED BY <2>1, <2>2
<1>2. DaemonEdit(hist, doc, hist', doc') /\ QueuedEdit(doc, queue, hist', doc', q)
  BY <1>1, MayQueueFits
<1>3. /\ Grown(hist, doc, hist', doc') /\ QueueFits(doc', q) /\ Normal(hist', doc')
      /\ \A g \in Frontends : StreamFits(g, mirror[g], hist', doc', down[g])
      /\ \A g \in Attached : Covers(g, mirror[g], down[g], q, doc')
  BY <1>2, EditSides
<1>4. UNCHANGED <<mirror, up, keys, refused, ops>>
  BY DEF Tick
<1>5. Sides(hist', doc', up', refused')
  <2>1. Sides(hist, doc, up, refused)
    BY DEF CollabInv, FrontFits, Sides
  <2> QED BY <1>2, <1>4, <2>1, SidesEdited
<1> DEFINE b == Broadcast(down, q)
<1>6. ASSUME NEW g \in Attached
      PROVE  /\ Follows(g, mirror[g], hist', doc', down[g], b[g])
             /\ doc'.in \subseteq Reach(mirror[g], b[g], Len(b[g]))
  <2>1. StreamFits(g, mirror[g], hist', doc', down[g])
    BY <1>3 DEF Attached
  <2> QED BY <1>3, <2>1, FollowsSelf, BroadcastFits
<1>7. \A g \in Frontends : g \notin Attached => b[g] = down[g]
  BY BroadcastAt
<1> HIDE DEF b
<1>8. /\ StreamMap(down') /\ \A g \in Attached : down'[g] = b[g] \o Pass(g, doc')
      /\ \A g \in Frontends : g \notin Attached => down'[g] = b[g]
  BY <1>1 DEF b, StreamMap, Attached
<1>9. ASSUME NEW g \in Attached
      PROVE  /\ Follows(g, mirror[g], hist', doc', down[g], down'[g])
             /\ Covers(g, mirror[g], down'[g], queue', doc')
  <2>1. StreamFits(g, mirror[g], hist', doc', b[g])
    BY <1>6 DEF Follows
  <2>2. g \in Frontends /\ doc'.in \in SUBSET Nat /\ Typed
    BY <1>3 DEF Normal, Replica, Attached, CollabInv
  <2>3. Follows(g, mirror[g], hist', doc', b[g], b[g] \o Pass(g, doc'))
    BY <1>6, <2>1, <2>2, PassFits
  <2>4. Follows(g, mirror[g], hist', doc', b[g], down'[g])
    BY <1>8, <2>3
  <2>5. Follows(g, mirror[g], hist', doc', down[g], down'[g])
    BY <1>6, <2>4, FollowsTwice
  <2>6. doc'.in \subseteq Reach(mirror[g], down'[g], Len(down'[g]))
    BY <1>6, <2>4 DEF Follows
  <2> QED BY <1>1, <2>5, <2>6, AllCovers
<1>10. \A g \in Frontends : g \notin Attached => down'[g] = down[g] /\ up'[g] = <<>>
  BY <1>4, <1>7, <1>8 DEF CollabInv, FrontFits, LinkFits, Attached
<1>11. down' \in [Frontends -> Seq(Message)]
  BY <1>8, <1>9, <1>10, StreamsTyped
<1>12. sess' \in [Frontends -> Session] /\ \A g \in Frontends : sess'[g].on = sess[g].on
  BY DEF Tick, CollabInv, Typed, Session
<1>13. Typed' /\ QueueFits(doc', queue')
  BY <1>1, <1>4, <1>11, <1>12 DEF CollabInv, Typed, QueueFits
<1> QED BY <1>3, <1>4, <1>5, <1>9, <1>10, <1>12, <1>13, DaemonStep

(* The dispatcher handles an event.                                        *)
LEMMA HandleFits ==
  ASSUME CollabInv, NEW f \in Frontends, Handle(f)
  PROVE  CollabInv'
<1> DEFINE e == Head(up[f])
<1>1. up[f] # <<>> /\ up' = Popped(f) /\ UNCHANGED <<mirror, keys, ops>>
  BY DEF Handle, Popped
<1>2. sess[f] \in Session
  BY DEF CollabInv, Typed
<1>3. CASE e.msg = "op" /\ RefusedOp(f)
  BY <1>1, <1>3, RefusedFits
<1>4. CASE /\ e.msg = "op" /\ UNCHANGED refused
           /\ \E hook \in BOOLEAN : RemoteOp(f, e.n, hook)
  <2>1. PICK hook \in BOOLEAN : RemoteOp(f, e.n, hook)
    BY <1>4
  <2>2. UNCHANGED <<mirror, keys, refused, ops>>
    BY <1>1, <1>4
  <2> QED BY <1>1, <1>4, <2>1, <2>2, RemoteFits
<1>5. CASE e.msg # "op" /\ UNCHANGED refused /\ PasteEvent(f)
  <2>1. UNCHANGED <<mirror, keys, refused, ops>>
    BY <1>1, <1>5
  <2> QED BY <1>1, <1>5, <2>1, PasteFits
<1>6. CASE e.msg # "op" /\ UNCHANGED refused /\ KeyEvent(f, e.kind)
  <2>1. PICK s \in Session, edit \in BOOLEAN : s.on = sess[f].on /\ KeyRun(f, s, edit)
    <3> DEFINE Goal == \E s \in Session, edit \in BOOLEAN :
                          s.on = sess[f].on /\ KeyRun(f, s, edit)
    <3>1. ASSUME NEW v \in BOOLEAN, KeyRun(f, [sess[f] EXCEPT !.prefix = v], FALSE)
          PROVE  Goal
      <4>1. /\ [sess[f] EXCEPT !.prefix = v] \in Session
            /\ [sess[f] EXCEPT !.prefix = v].on = sess[f].on
        BY <1>2 DEF Session
      <4> QED BY <3>1, <4>1
    <3>2. ASSUME NEW w \in {"doc", "other"}, KeyRun(f, [sess[f] EXCEPT !.win = w], FALSE)
          PROVE  Goal
      <4>1. /\ [sess[f] EXCEPT !.win = w] \in Session
            /\ [sess[f] EXCEPT !.win = w].on = sess[f].on
        BY <1>2 DEF Session
      <4> QED BY <3>2, <4>1
    <3>3. ASSUME NEW v \in BOOLEAN, KeyRun(f, sess[f], v) PROVE Goal
      BY <1>2, <3>3
    <3> HIDE DEF Goal
    <3>4. \/ \E v \in BOOLEAN : KeyRun(f, [sess[f] EXCEPT !.prefix = v], FALSE)
          \/ \E w \in {"doc", "other"} : KeyRun(f, [sess[f] EXCEPT !.win = w], FALSE)
          \/ \E v \in BOOLEAN : KeyRun(f, sess[f], v)
      <4>1. CASE sess[f].prefix /\ KeyRun(f, [sess[f] EXCEPT !.prefix = FALSE], FALSE)
        BY <4>1
      <4>2. CASE KeyRun(f, [sess[f] EXCEPT !.prefix = TRUE], FALSE)
        BY <4>2
      <4>3. CASE KeyRun(f, [sess[f] EXCEPT !.win = IF @ = "doc" THEN "other" ELSE "doc"],
                        FALSE)
        BY <4>3
      <4>4. CASE \E edit \in BOOLEAN : KeyRun(f, sess[f], edit /\ sess[f].win = "doc")
        BY <4>4
      <4> QED BY <1>6, <4>1, <4>2, <4>3, <4>4 DEF KeyEvent
    <3>5. Goal
      BY <3>1, <3>2, <3>3, <3>4
    <3> QED BY <3>5 DEF Goal
  <2>2. UNCHANGED <<mirror, keys, refused, ops>>
    BY <1>1, <1>6
  <2> QED BY <1>1, <1>6, <2>1, <2>2, KeyRunFits
<1> QED BY <1>3, <1>4, <1>5, <1>6 DEF Handle

(* A stream of one message.                                                *)
LEMMA FirstOnly ==
  ASSUME NEW S, NEW x \in S
  PROVE  /\ Append(<<>>, x) \in Seq(S) /\ Len(Append(<<>>, x)) = 1
         /\ Append(<<>>, x)[1] = x /\ Append(<<>>, x) # <<>>
OBVIOUS

(* A frontend attaches, and the snapshot is the first it is sent.          *)
LEMMA AttachFits ==
  ASSUME CollabInv, NEW f \in Frontends, Attach(f)
  PROVE  CollabInv'
<1> DEFINE s == Append(<<>>, Snapshot)
<1>1. /\ f \notin Attached /\ ~sess[f].on /\ ~mirror[f].ready
      /\ down[f] = <<>> /\ up[f] = <<>>
  BY DEF Attach, Attached, CollabInv, FrontFits, LinkFits
<1>2. /\ UNCHANGED <<hist, doc, queue, mirror, up, keys, refused, ops>>
      /\ sess' = [sess EXCEPT ![f].on = TRUE]
      /\ down' = [down EXCEPT ![f] = s]
  BY <1>1 DEF Attach
<1>3. /\ sess' \in [Frontends -> Session] /\ sess'[f].on
      /\ \A g \in Frontends : g # f => sess'[g] = sess[g]
  BY <1>2 DEF CollabInv, Typed, Session
<1>4. HistFits(hist) /\ Normal(hist, doc)
  BY DEF CollabInv
<1>5. Snapshot \in Message /\ Snapshot.msg = "snapshot" /\ Snapshot.in = doc.in
  BY <1>4 DEF Normal, Replica, Snapshot, Message
<1>6. s \in Seq(Message) /\ Len(s) = 1 /\ s[1] = Snapshot /\ s # <<>>
  BY <1>5, FirstOnly
<1> HIDE DEF s
<1>7. /\ down' \in [Frontends -> Seq(Message)] /\ down'[f] = s
      /\ \A g \in Frontends : g # f => down'[g] = down[g]
  BY <1>2, <1>6 DEF CollabInv, Typed
<1>8. Typed'
  BY <1>2, <1>3, <1>7 DEF CollabInv, Typed
<1>9. \A i \in 1..Len(s) : /\ i = 1 /\ s[i].msg = "snapshot" /\ s[i].in = doc.in
                           /\ s[i].msg # "cursor" /\ Brings(s[i]) = doc.in
  BY <1>5, <1>6 DEF Brings
<1>10. StreamFits(f, mirror[f], hist, doc, s)
  <2>1. /\ \A n \in doc.in : n \in 1..Len(hist) /\ n \in All(doc)
        /\ \A n \in doc.in : hist[n].past \subseteq doc.in
    BY <1>4 DEF Normal, All
  <2> QED BY <1>1, <1>6, <1>9, <2>1 DEF StreamFits
<1>11. Covers(f, mirror[f], s, queue, doc)
  <2>1. 1 \in 1..Len(s)
    BY <1>6
  <2>2. doc.in \subseteq Reach(mirror[f], s, Len(s))
    BY <1>9, <2>1 DEF Reach
  <2> QED BY <2>2 DEF Covers
<1>12. ASSUME NEW g \in Frontends PROVE FrontFits(g)'
  <2>1. FrontFits(g)
    BY DEF CollabInv
  <2>2. CASE g = f
    <3>1. LinkFits(sess'[f], mirror[f], s, up[f])
      BY <1>3, <1>5, <1>6 DEF LinkFits
    <3> QED BY <1>2, <1>7, <1>10, <1>11, <2>1, <2>2, <3>1 DEF FrontFits
  <2>3. CASE g # f
    BY <1>2, <1>3, <1>7, <2>1, <2>3 DEF FrontFits
  <2> QED BY <2>2, <2>3
<1> QED BY <1>2, <1>8, <1>12 DEF CollabInv

(***************************************************************************)
(* The frontends' actions.                                                 *)
(***************************************************************************)
(* One frontend moves, and the daemon does not.                            *)
LEMMA FrontStep ==
  ASSUME CollabInv, Typed', NEW f \in Frontends, FrontFits(f)', HistFits(hist'),
         Normal(hist', doc), LossFits(hist', doc, up', refused),
         \A g \in Frontends : g # f => FrontFits(g)',
         UNCHANGED <<doc, queue, refused>>
  PROVE  CollabInv'
<1>1. \A g \in Frontends : FrontFits(g)'
  OBVIOUS
<1>2. Normal(hist', doc') /\ QueueFits(doc', queue') /\ LossFits(hist', doc', up', refused')
  BY DEF CollabInv
<1> QED BY <1>1, <1>2 DEF CollabInv

(* What a mirror believes moves no operation.                              *)
SameText(m, m2) == m2 \in Mirror /\ m2.text = m.text /\ m2.ready = m.ready

(* After every event the caret is stale, and nothing else.                 *)
LEMMA SentText ==
  ASSUME NEW m \in Mirror
  PROVE  SameText(m, Sent(m))
<1>1. m.stale \in BOOLEAN /\ (m.stale \/ m.active = "doc") \in BOOLEAN
  BY DEF Mirror
<1>2. \A v \in BOOLEAN : SameText(m, [m EXCEPT !.stale = v])
  BY DEF Mirror, SameText
<1>3. Sent(m) = [m EXCEPT !.stale = (m.stale \/ m.active = "doc")]
  BY DEF Sent
<1> QED BY <1>1, <1>2, <1>3

(* A mirror with the same text has the same facts.                         *)
LEMMA SameFits ==
  ASSUME NEW f, NEW m, NEW m2, SameText(m, m2), NEW h, NEW d, NEW s, NEW q, NEW u,
         NEW se, MirrorFits(f, m, h, d), StreamFits(f, m, h, d, s)
  PROVE  /\ MirrorFits(f, m2, h, d) /\ StreamFits(f, m2, h, d, s)
         /\ Covers(f, m, s, q, d) => Covers(f, m2, s, q, d)
         /\ LinkFits(se, m, s, u) => LinkFits(se, m2, s, u)
<1>1. m2.text = m.text /\ m2.ready = m.ready /\ m2 \in Mirror
  BY DEF SameText
<1>2. \A k : Reach(m2, s, k) = Reach(m, s, k)
  BY <1>1 DEF Reach
<1>3. MirrorFits(f, m2, h, d)
  BY <1>1 DEF MirrorFits
<1>4. StreamFits(f, m2, h, d, s)
  BY <1>1, <1>2 DEF StreamFits
<1> QED BY <1>1, <1>2, <1>3, <1>4 DEF Covers, LinkFits

(* An event is put behind what has been sent.                              *)
LEMMA UpAppend ==
  ASSUME NEW f, NEW h, NEW d, NEW u, UpFits(f, u, h, d), NEW e \in Event,
         e.msg = "op" => /\ e.n \in 1..Len(h) /\ h[e.n].by = f /\ e.n \notin All(d)
                         /\ \A k : Sends(u, k) => k < e.n
  PROVE  /\ UpFits(f, Append(u, e), h, d)
         /\ \A k : Sends(u, k) => Sends(Append(u, e), k)
         /\ \A k : Sends(Append(u, e), k) => \/ Sends(u, k)
                                             \/ (e.msg = "op" /\ e.n = k)
         /\ e.msg = "op" => Sends(Append(u, e), e.n)
<1> DEFINE v == Append(u, e)
<1>1. u \in Seq(Event) /\ Len(u) \in Nat
  BY DEF UpFits
<1>2. /\ v \in Seq(Event) /\ Len(v) = Len(u) + 1 /\ v[Len(u) + 1] = e
      /\ \A i \in 1..Len(u) : v[i] = u[i]
  BY <1>1
<1> HIDE DEF v
<1>3. \A i \in 1..Len(u) : i \in 1..Len(v)
  BY <1>1, <1>2
<1>4. \A i \in 1..Len(v) : i = Len(u) + 1 \/ i \in 1..Len(u)
  BY <1>1, <1>2
<1>5. Len(u) + 1 \in 1..Len(v)
  BY <1>1, <1>2
<1>6. \A k : Sends(u, k) => Sends(v, k)
  BY <1>2, <1>3 DEF Sends
<1>7. \A k : Sends(v, k) => \/ Sends(u, k)
                            \/ (e.msg = "op" /\ e.n = k)
  BY <1>2, <1>4 DEF Sends
<1>8. e.msg = "op" => Sends(v, e.n)
  BY <1>2, <1>5 DEF Sends
<1>9. ASSUME NEW i \in 1..Len(v), v[i].msg = "op"
      PROVE  /\ v[i].n \in 1..Len(h) /\ h[v[i].n].by = f /\ v[i].n \notin All(d)
             /\ \A j \in 1..(i - 1) : v[j].msg = "op" => v[j].n < v[i].n
  <2>1. CASE i = Len(u) + 1
    <3>1. v[i] = e /\ \A j \in 1..(i - 1) : j \in 1..Len(u) /\ v[j] = u[j]
      BY <1>1, <1>2, <2>1
    <3>2. \A j \in 1..(i - 1) : v[j].msg = "op" => Sends(u, v[j].n)
      BY <3>1 DEF Sends
    <3> QED BY <1>9, <3>1, <3>2
  <2>2. CASE i \in 1..Len(u)
    <3>1. v[i] = u[i] /\ \A j \in 1..(i - 1) : v[j] = u[j]
      BY <1>1, <1>2, <2>2
    <3> QED BY <1>9, <2>2, <3>1 DEF UpFits
  <2> QED BY <1>4, <2>1, <2>2
<1>10. UpFits(f, v, h, d)
  BY <1>2, <1>9 DEF UpFits
<1> QED BY <1>6, <1>7, <1>8, <1>10 DEF v

(* A key is sent as it is.                                                 *)
LEMMA PressFits ==
  ASSUME CollabInv, NEW f \in Frontends, NEW kind \in Kinds, Press(f, kind)
  PROVE  CollabInv'
<1> DEFINE m == Sent(mirror[f])
           u == Append(up[f], Key(kind))
<1>1. /\ mirror' = [mirror EXCEPT ![f] = m] /\ up' = [up EXCEPT ![f] = u]
      /\ keys' = [keys EXCEPT ![f] = @ + 1] /\ keys[f] < MaxKeys
      /\ UNCHANGED <<hist, doc, queue, sess, down, refused, ops>> /\ f \in Attached
  BY DEF Press
<1>2. /\ mirror \in [Frontends -> Mirror] /\ up \in [Frontends -> Seq(Event)]
      /\ keys \in [Frontends -> 0..MaxKeys]
  BY DEF CollabInv, Typed
<1>3. SameText(mirror[f], m) /\ m \in Mirror
  BY <1>2, SentText DEF SameText
<1>4. Key(kind) \in Event /\ Key(kind).msg # "op"
  BY DEF Key, Event
<1>5. FrontFits(f)
  BY DEF CollabInv
<1>6. /\ UpFits(f, u, hist, doc)
      /\ \A k : Sends(up[f], k) => Sends(u, k)
      /\ \A k : Sends(u, k) => Sends(up[f], k)
  <2>1. UpFits(f, up[f], hist, doc)
    BY <1>5 DEF FrontFits
  <2> HIDE DEF u
  <2> QED BY <1>4, <2>1, UpAppend DEF u
<1>7. u \in Seq(Event)
  BY <1>6 DEF UpFits
<1> HIDE DEF m, u
<1>8. /\ mirror'[f] = m /\ up'[f] = u
      /\ \A g \in Frontends : g # f => mirror'[g] = mirror[g] /\ up'[g] = up[g]
      /\ mirror' \in [Frontends -> Mirror] /\ up' \in [Frontends -> Seq(Event)]
  BY <1>1, <1>2, <1>3, <1>7
<1>9. keys' \in [Frontends -> 0..MaxKeys]
  <2>1. keys[f] + 1 \in 0..MaxKeys
    BY <1>1, <1>2, ConstantsAssumption
  <2>2. keys' = [keys EXCEPT ![f] = keys[f] + 1]
    BY <1>1
  <2> QED BY <1>2, <2>1, <2>2
<1>10. Typed'
  BY <1>1, <1>8, <1>9 DEF CollabInv, Typed
<1>11. FrontFits(f)'
  <2>1. /\ MirrorFits(f, m, hist, doc) /\ StreamFits(f, m, hist, doc, down[f])
        /\ sess[f].on => Covers(f, m, down[f], queue, doc)
    BY <1>3, <1>5, SameFits DEF FrontFits
  <2>2. LinkFits(sess[f], m, down[f], u)
    BY <1>1, <1>3, <1>5 DEF FrontFits, LinkFits, Attached, SameText
  <2> QED BY <1>1, <1>6, <1>8, <2>1, <2>2 DEF FrontFits
<1>12. ASSUME NEW g \in Frontends, g # f PROVE FrontFits(g)'
  <2>1. FrontFits(g)
    BY DEF CollabInv
  <2> QED BY <1>1, <1>8, <1>12, <2>1 DEF FrontFits
<1>13. LossFits(hist', doc, up', refused)
  <2>1. \A g \in Frontends : \A k : Sends(up'[g], k) <=> Sends(up[g], k)
    BY <1>6, <1>8
  <2>2. \A k : Lost(k, hist, doc, up') <=> Lost(k, hist, doc, up)
    BY <2>1 DEF Lost
  <2> QED BY <1>1, <2>2 DEF CollabInv, LossFits
<1>14. HistFits(hist') /\ Normal(hist', doc) /\ UNCHANGED <<doc, queue, refused>>
  BY <1>1 DEF CollabInv
<1> QED BY <1>10, <1>11, <1>12, <1>13, <1>14, FrontStep

(* A stream fits a mirror that has got more.                               *)
LEMMA StreamMore ==
  ASSUME NEW f, NEW m, NEW m2, NEW h, NEW d, NEW s, StreamFits(f, m, h, d, s),
         m2.ready = m.ready, All(m.text) \subseteq All(m2.text)
  PROVE  /\ StreamFits(f, m2, h, d, s)
         /\ Reach(m, s, Len(s)) \subseteq Reach(m2, s, Len(s))
<1>1. \A k : Reach(m, s, k) \subseteq Reach(m2, s, k)
  BY DEF Reach
<1> QED BY <1>1 DEF StreamFits

(* A character is applied to the mirror, and its operation sent.           *)
LEMMA TypeFits ==
  ASSUME CollabInv, NEW f \in Frontends, TypeOptimistic(f)
  PROVE  CollabInv'
<1> DEFINE r == mirror[f].text
           h == Made(hist, f, r)
           N == Len(hist) + 1
           t == Import(h, r, N)
           m1 == [mirror[f] EXCEPT !.text = t]
           m == Sent(m1)
           e == OpEvent(N)
           u == Append(up[f], e)
<1>1. /\ HistFits(hist) /\ Normal(hist, doc) /\ FrontFits(f) /\ Normal(hist, r)
      /\ mirror \in [Frontends -> Mirror] /\ up \in [Frontends -> Seq(Event)]
      /\ keys \in [Frontends -> 0..MaxKeys]
      /\ MirrorFits(f, mirror[f], hist, doc) /\ UpFits(f, up[f], hist, doc)
      /\ StreamFits(f, mirror[f], hist, doc, down[f])
  BY DEF CollabInv, Typed, FrontFits, MirrorFits
<1>2. /\ f \in Attached /\ keys[f] < MaxKeys /\ Len(hist) < MaxOps /\ mirror[f].ready
  BY DEF TypeOptimistic, MayApply
<1>3. MadeFrom(hist, f, r, h)
  BY <1>1, <1>2, MadeFits
<1>4. Len(h) = N /\ N \in Nat /\ N \in 1..N
  BY <1>1, <1>3 DEF MadeFrom, HistFits
<1>5. /\ hist' = h /\ mirror' = [mirror EXCEPT ![f] = m] /\ up' = [up EXCEPT ![f] = u]
      /\ keys' = [keys EXCEPT ![f] = @ + 1]
      /\ UNCHANGED <<doc, queue, sess, down, refused, ops>>
  <2> HIDE DEF N
  <2> QED BY <1>4 DEF TypeOptimistic
<1> HIDE DEF h
<1>6. /\ HistFits(h) /\ Extends(hist, h) /\ h[N].by = f /\ h[N].past = r.in
      /\ \A n \in 1..Len(h) : n \in 1..Len(hist) \/ n = N
      /\ N \notin 1..Len(hist)
  <2>1. HistFits(h) /\ Extends(hist, h) /\ h[N].by = f /\ h[N].past = r.in
    BY <1>3 DEF MadeFrom
  <2>2. Len(hist) \in Nat
    BY <1>1 DEF HistFits
  <2> QED BY <1>4, <2>1, <2>2
<1>7. Normal(h, r) /\ Normal(h, doc)
  BY <1>1, <1>6, NormalGrows
<1>8. Grown(hist, doc, h, doc)
  BY <1>1, <1>6, <1>7 DEF Grown
<1>9. ImportsTo(h, r, N, t)
  <2> HIDE DEF N
  <2> QED BY <1>4, <1>6, <1>7, ImportFits
<1> HIDE DEF t
<1>10. /\ Normal(h, t) /\ All(t) = All(r) \cup {N} /\ r.in \subseteq t.in /\ N \in t.in
       /\ t \in Replica
  <2>1. /\ Normal(h, t) /\ All(t) = All(r) \cup {N} /\ r.in \subseteq t.in
        /\ \A k \in All(t) : k \in t.in <=> h[k].past \subseteq All(t)
    BY <1>9 DEF ImportsTo
  <2>2. h[N].past \subseteq All(t)
    BY <1>6, <2>1 DEF All
  <2> QED BY <2>1, <2>2 DEF Normal
<1>11. m1 \in Mirror /\ m1.text = t /\ m1.ready = mirror[f].ready
  BY <1>1, <1>10 DEF Mirror
<1> HIDE DEF m1
<1>12. m \in Mirror /\ m.text = t /\ m.ready = mirror[f].ready
  BY <1>11, SentText DEF SameText
<1> HIDE DEF m
<1>13. MirrorFits(f, m, h, doc)
  <2>1. \A n \in 1..Len(hist) : h[n] = hist[n]
    BY <1>6 DEF Extends
  <2>2. \A n \in 1..Len(h) : h[n].by = f => n \in t.in
    BY <1>1, <1>6, <1>10, <2>1 DEF MirrorFits
  <2>3. All(r) \subseteq 1..Len(hist)
    BY <1>1 DEF Normal
  <2>4. \A n \in All(t) : h[n].by = f \/ n \in All(doc)
    BY <1>1, <1>6, <1>10, <2>1, <2>3 DEF MirrorFits
  <2> QED BY <1>2, <1>10, <1>12, <2>2, <2>4 DEF MirrorFits
<1>14. StreamFits(f, mirror[f], h, doc, down[f])
  BY <1>1, <1>8, StreamGrows
<1>15. /\ StreamFits(f, m, h, doc, down[f])
       /\ Reach(mirror[f], down[f], Len(down[f])) \subseteq Reach(m, down[f], Len(down[f]))
  <2>1. All(mirror[f].text) \subseteq All(m.text)
    BY <1>10, <1>12
  <2> QED BY <1>12, <1>14, <2>1, StreamMore
<1>16. /\ e \in Event /\ e.msg = "op" /\ e.n = N
  BY <1>4 DEF OpEvent, Event
<1> HIDE DEF e
<1>17. N \notin All(doc) /\ \A k : Sends(up[f], k) => k < N /\ k \in 1..Len(hist)
  <2>1. All(doc) \subseteq 1..Len(hist)
    BY <1>1 DEF Normal
  <2>2. \A k : Sends(up[f], k) => k \in 1..Len(hist)
    BY <1>1 DEF Sends, UpFits
  <2>3. \A k \in 1..Len(hist) : k < N
    BY <1>4
  <2> QED BY <1>6, <2>1, <2>2, <2>3
<1> HIDE DEF N
<1>18. UpFits(f, up[f], h, doc)
  BY <1>1, <1>8, UpGrows
<1>19. /\ UpFits(f, u, h, doc)
       /\ \A k : Sends(up[f], k) => Sends(u, k)
       /\ \A k : Sends(u, k) => Sends(up[f], k) \/ k = N
       /\ Sends(u, N)
  BY <1>4, <1>6, <1>16, <1>17, <1>18, UpAppend
<1>20. u \in Seq(Event)
  BY <1>19 DEF UpFits
<1> HIDE DEF u
<1>21. /\ mirror'[f] = m /\ up'[f] = u
       /\ \A g \in Frontends : g # f => mirror'[g] = mirror[g] /\ up'[g] = up[g]
       /\ mirror' \in [Frontends -> Mirror] /\ up' \in [Frontends -> Seq(Event)]
  BY <1>1, <1>5, <1>12, <1>20
<1>22. keys' \in [Frontends -> 0..MaxKeys]
  <2>1. keys[f] + 1 \in 0..MaxKeys
    BY <1>1, <1>2, ConstantsAssumption
  <2>2. keys' = [keys EXCEPT ![f] = keys[f] + 1]
    BY <1>5
  <2> QED BY <1>1, <2>1, <2>2
<1>23. Typed'
  BY <1>5, <1>21, <1>22 DEF CollabInv, Typed
<1>24. FrontFits(f)'
  <2>1. Covers(f, m, down[f], queue, doc)
    BY <1>1, <1>2, <1>15 DEF FrontFits, Covers, Attached
  <2>2. LinkFits(sess[f], m, down[f], u)
    BY <1>1, <1>2, <1>12 DEF FrontFits, LinkFits, Attached
  <2> QED BY <1>5, <1>13, <1>15, <1>19, <1>21, <2>1, <2>2 DEF FrontFits
<1>25. ASSUME NEW g \in Frontends, g # f PROVE FrontFits(g)'
  <2>1. FrontFits(g)
    BY DEF CollabInv
  <2>2. \A n \in 1..Len(h) : n \in 1..Len(hist) \/ h[n].by # g
    BY <1>6, <1>25
  <2>3. MirrorFits(g, mirror[g], h, doc)
    BY <1>8, <2>1, <2>2, MirrorGrows DEF FrontFits
  <2>4. StreamFits(g, mirror[g], h, doc, down[g])
    BY <1>8, <2>1, StreamGrows DEF FrontFits
  <2>5. UpFits(g, up[g], h, doc)
    BY <1>8, <2>1, UpGrows DEF FrontFits
  <2> QED BY <1>5, <1>21, <1>25, <2>1, <2>3, <2>4, <2>5 DEF FrontFits
<1>26. LossFits(h, doc, up', refused)
  <2>1. LossFits(hist, doc, up, refused)
    BY DEF CollabInv
  <2>2. \A n \in 1..Len(hist) : h[n] = hist[n] /\ n \in 1..Len(h)
    BY <1>6 DEF Extends
  <2>3. \A g \in Frontends : \A k : Sends(up[g], k) => Sends(up'[g], k)
    BY <1>19, <1>21
  <2>4. \A g \in Frontends : \A k \in 1..Len(hist) : Sends(up'[g], k) => Sends(up[g], k)
    BY <1>6, <1>19, <1>21
  <2>5. \A k \in 1..Len(hist) : Lost(k, h, doc, up') <=> Lost(k, hist, doc, up)
    BY <2>2, <2>3, <2>4 DEF Lost
  <2>6. ~Lost(N, h, doc, up')
    BY <1>6, <1>19, <1>21 DEF Lost
  <2>7. \A n \in doc.held : n \in 1..Len(hist) /\ hist[n].past \subseteq 1..Len(hist)
    <3>1. All(doc) \subseteq 1..Len(hist) /\ Len(hist) \in Nat
      BY <1>1 DEF Normal, HistFits
    <3> SUFFICES ASSUME NEW n \in doc.held
                 PROVE  n \in 1..Len(hist) /\ hist[n].past \subseteq 1..Len(hist)
      OBVIOUS
    <3>2. n \in 1..Len(hist)
      BY <3>1 DEF All
    <3>3. hist[n].past \subseteq 1..(n - 1)
      BY <1>1, <3>2 DEF HistFits
    <3>4. 1..(n - 1) \subseteq 1..Len(hist)
      BY <3>1, <3>2
    <3> QED BY <3>2, <3>3, <3>4
  <2>8. ASSUME NEW k \in 1..Len(h), Lost(k, h, doc, up') PROVE h[k].by \in refused
    BY <1>6, <2>1, <2>2, <2>5, <2>6, <2>8 DEF LossFits
  <2>9. ASSUME NEW n \in doc.held
        PROVE  \E k \in h[n].past : Lost(k, h, doc, up') /\ h[k].by = h[n].by
    <3>1. PICK k \in hist[n].past : Lost(k, hist, doc, up) /\ hist[k].by = hist[n].by
      BY <2>1 DEF LossFits
    <3> QED BY <2>2, <2>5, <2>7, <3>1
  <2> QED BY <2>8, <2>9 DEF LossFits
<1> QED BY <1>5, <1>6, <1>7, <1>23, <1>24, <1>25, <1>26, FrontStep

(* What is left of a stream fits a mirror that has taken its first message. *)
LEMMA StreamTaken ==
  ASSUME NEW f, NEW m, NEW m2, NEW h, NEW d, NEW s, StreamFits(f, m, h, d, s),
         s # <<>>, All(m.text) \cup Brings(Head(s)) \subseteq All(m2.text)
  PROVE  /\ StreamFits(f, m2, h, d, Tail(s))
         /\ Reach(m, s, Len(s)) \subseteq Reach(m2, Tail(s), Len(Tail(s)))
<1> DEFINE t == Tail(s)
<1>1. s \in Seq(Message) /\ Len(s) \in Nat /\ Len(s) # 0
  BY DEF StreamFits
<1>2. /\ t \in Seq(Message) /\ Len(t) = Len(s) - 1 /\ Head(s) = s[1]
      /\ \A i \in 1..Len(t) : t[i] = s[i + 1] /\ i + 1 \in 1..Len(s)
  BY <1>1
<1> HIDE DEF t
<1>3. ASSUME NEW k \in 0..Len(t) PROVE Reach(m, s, k + 1) \subseteq Reach(m2, t, k)
  <2> SUFFICES ASSUME NEW n \in Reach(m, s, k + 1) PROVE n \in Reach(m2, t, k)
    OBVIOUS
  <2>1. CASE n \in All(m.text)
    BY <2>1 DEF Reach
  <2>2. CASE \E i \in 1..(k + 1) : n \in Brings(s[i])
    <3>1. PICK i \in 1..(k + 1) : n \in Brings(s[i])
      BY <2>2
    <3>2. CASE i = 1
      BY <1>2, <3>1, <3>2 DEF Reach
    <3>3. CASE i # 1
      <4>1. i - 1 \in 1..k /\ i - 1 \in 1..Len(t) /\ (i - 1) + 1 = i
        BY <1>1, <1>2, <3>3
      <4>2. t[i - 1] = s[i]
        BY <1>2, <4>1
      <4> QED BY <3>1, <4>1, <4>2 DEF Reach
    <3> QED BY <3>2, <3>3
  <2> QED BY <2>1, <2>2 DEF Reach
<1>4. ASSUME NEW i \in 1..Len(t)
      PROVE  /\ t[i].msg # "snapshot"
             /\ \A n \in Brings(t[i]) : n \in 1..Len(h) /\ (h[n].by = f \/ n \in All(d))
             /\ t[i].msg = "cursor" => t[i].seen \subseteq Reach(m2, t, i - 1)
  <2>1. /\ t[i] = s[i + 1] /\ i + 1 \in 1..Len(s) /\ i + 1 # 1
        /\ i - 1 \in 0..Len(t) /\ (i + 1) - 1 = (i - 1) + 1
    BY <1>1, <1>2
  <2>2. Reach(m, s, (i + 1) - 1) \subseteq Reach(m2, t, i - 1)
    BY <1>3, <2>1
  <2> HIDE DEF t
  <2> QED BY <2>1, <2>2 DEF StreamFits
<1>5. StreamFits(f, m2, h, d, t)
  BY <1>2, <1>4 DEF StreamFits
<1>6. Reach(m, s, Len(s)) \subseteq Reach(m2, t, Len(t))
  <2>1. Len(t) \in 0..Len(t) /\ Len(t) + 1 = Len(s)
    BY <1>1, <1>2
  <2> QED BY <1>3, <2>1
<1> QED BY <1>5, <1>6 DEF t

(* What a frontend makes of a message: its mirror fits, and has what the   *)
(* message brings.                                                         *)
TakenBy(f, m2, x) ==
  /\ m2 \in Mirror /\ MirrorFits(f, m2, hist, doc) /\ m2.ready
  /\ All(mirror[f].text) \cup Brings(x) \subseteq All(m2.text)

(* The snapshot is the mirror's first text.                                *)
LEMMA SnapshotTaken ==
  ASSUME CollabInv, NEW f \in Frontends, down[f] # <<>>, Head(down[f]).msg = "snapshot"
  PROVE  TakenBy(f, TakeSnapshot(f, Head(down[f])), Head(down[f]))
<1> DEFINE x == Head(down[f])
           m == mirror[f]
           t == [Empty EXCEPT !.in = x.in]
           m2 == [m EXCEPT !.ready = TRUE, !.text = t]
<1>1. /\ MirrorFits(f, m, hist, doc) /\ StreamFits(f, m, hist, doc, down[f])
      /\ HistFits(hist)
  BY DEF CollabInv, FrontFits
<1>2. down[f] \in Seq(Message) /\ x = down[f][1] /\ 1 \in 1..Len(down[f])
  BY <1>1 DEF StreamFits
<1> HIDE DEF x
<1>3. x.msg = "snapshot"
  BY DEF x
<1>4. Brings(x) = x.in
  BY <1>3 DEF Brings
<1>5. /\ ~m.ready /\ \A n \in x.in : hist[n].past \subseteq x.in
      /\ \A n \in x.in : n \in 1..Len(hist) /\ (hist[n].by = f \/ n \in All(doc))
  BY <1>1, <1>2, <1>3, <1>4 DEF StreamFits
<1>6. x.in \in SUBSET Nat
  BY <1>5
<1>7. t \in Replica /\ t.in = x.in /\ t.held = {} /\ All(t) = x.in
  <2>1. Empty \in Replica /\ Empty.held = {}
    BY DEF Empty, Replica
  <2> QED BY <1>6, <2>1 DEF Replica, All
<1>8. TakeSnapshot(f, x) = m2
  BY <1>5 DEF TakeSnapshot
<1> HIDE DEF t
<1>9. m2 \in Mirror /\ m2.ready /\ m2.text = t
  BY <1>1, <1>7 DEF MirrorFits, Mirror
<1> HIDE DEF m2
<1>10. m.text = Empty
  BY <1>1, <1>5 DEF MirrorFits
<1>11. All(m.text) = {} /\ m.text.in = {}
  BY <1>10 DEF Empty, All
<1>12. Normal(hist, t)
  BY <1>5, <1>7 DEF Normal
<1>13. MirrorFits(f, m2, hist, doc)
  <2>1. \A n \in 1..Len(hist) : hist[n].by # f
    BY <1>1, <1>11 DEF MirrorFits
  <2> QED BY <1>5, <1>7, <1>9, <1>12, <2>1 DEF MirrorFits
<1>14. All(m.text) \cup Brings(x) \subseteq All(m2.text)
  BY <1>4, <1>7, <1>9, <1>11
<1> QED BY <1>8, <1>9, <1>13, <1>14 DEF TakenBy, x

(* A frontend that is ready takes another's operation, and has its own.    *)
LEMMA OpTaken ==
  ASSUME CollabInv, NEW f \in Frontends, down[f] # <<>>, Head(down[f]).msg = "op",
         mirror[f].ready
  PROVE  TakenBy(f, TakeOp(f, Head(down[f])), Head(down[f]))
<1> DEFINE x == Head(down[f])
           m == mirror[f]
           t == Import(hist, m.text, x.n)
           m2 == [m EXCEPT !.text = t, !.stale = TRUE]
<1>1. /\ MirrorFits(f, m, hist, doc) /\ StreamFits(f, m, hist, doc, down[f])
      /\ HistFits(hist) /\ Normal(hist, m.text) /\ m \in Mirror
  BY DEF CollabInv, FrontFits, MirrorFits
<1>2. down[f] \in Seq(Message) /\ x = down[f][1] /\ 1 \in 1..Len(down[f])
  BY <1>1 DEF StreamFits
<1> HIDE DEF x
<1>3. x.msg = "op"
  BY DEF x
<1>4. Brings(x) = {x.n}
  BY <1>3 DEF Brings
<1>5. x.n \in 1..Len(hist) /\ (hist[x.n].by = f \/ x.n \in All(doc))
  BY <1>1, <1>2, <1>4 DEF StreamFits
<1>6. CASE hist[x.n].by = f
  <2>1. TakeOp(f, x) = m
    BY <1>6 DEF TakeOp
  <2>2. x.n \in All(m.text)
    BY <1>1, <1>5, <1>6 DEF MirrorFits, All
  <2> QED BY <1>1, <1>4, <2>1, <2>2 DEF TakenBy, x
<1>7. CASE hist[x.n].by # f
  <2>1. TakeOp(f, x) = m2
    BY <1>7 DEF TakeOp
  <2>2. ImportsTo(hist, m.text, x.n, t)
    BY <1>1, <1>5, ImportFits
  <2> HIDE DEF t
  <2>3. /\ Normal(hist, t) /\ All(t) = All(m.text) \cup {x.n} /\ m.text.in \subseteq t.in
        /\ t \in Replica
    BY <2>2 DEF ImportsTo, Normal
  <2>4. m2 \in Mirror /\ m2.ready /\ m2.text = t
    BY <1>1, <2>3 DEF Mirror
  <2> HIDE DEF m2
  <2>5. \A n \in 1..Len(hist) : hist[n].by = f => n \in t.in
    BY <1>1, <2>3 DEF MirrorFits
  <2>6. \A n \in All(t) : hist[n].by = f \/ n \in All(doc)
    BY <1>1, <1>5, <2>3 DEF MirrorFits
  <2>7. MirrorFits(f, m2, hist, doc)
    BY <2>3, <2>4, <2>5, <2>6 DEF MirrorFits
  <2> QED BY <1>4, <2>1, <2>3, <2>4, <2>7 DEF TakenBy, x
<1> QED BY <1>6, <1>7

(* A caret, or what dispatch is, changes no text.                          *)
LEMMA BeliefTaken ==
  ASSUME CollabInv, NEW f \in Frontends, NEW x, x.msg # "op", x.msg # "snapshot",
         mirror[f].ready, NEW m2, SameText(mirror[f], m2)
  PROVE  TakenBy(f, m2, x)
<1>1. MirrorFits(f, mirror[f], hist, doc) /\ StreamFits(f, mirror[f], hist, doc, down[f])
  BY DEF CollabInv, FrontFits
<1>2. MirrorFits(f, m2, hist, doc)
  BY <1>1 DEF MirrorFits, SameText
<1>3. Brings(x) = {}
  BY DEF Brings
<1> QED BY <1>2, <1>3 DEF TakenBy, SameText

(* A message of the daemon is read.                                        *)
LEMMA TakeFits ==
  ASSUME CollabInv, NEW f \in Frontends, Take(f)
  PROVE  CollabInv'
<1> DEFINE x == Head(down[f])
           s == down[f]
<1>1. /\ s # <<>> /\ down' = [down EXCEPT ![f] = Tail(s)]
      /\ UNCHANGED <<hist, doc, queue, sess, up, keys, refused, ops>>
  BY DEF Take
<1>2. FrontFits(f) /\ mirror[f] \in Mirror /\ StreamFits(f, mirror[f], hist, doc, s)
  BY DEF CollabInv, Typed, FrontFits
<1>3. x \in Message /\ x = s[1]
  BY <1>1, <1>2 DEF StreamFits
<1>4. sess[f].on /\ (x.msg = "snapshot" \/ mirror[f].ready)
  BY <1>1, <1>2, <1>3 DEF FrontFits, LinkFits, CollabInv, Typed, Session
<1>5. PICK m2 : mirror' = [mirror EXCEPT ![f] = m2] /\ TakenBy(f, m2, x)
  <2>1. CASE x.msg = "snapshot"
    <3>1. mirror' = [mirror EXCEPT ![f] = TakeSnapshot(f, x)]
      BY <2>1 DEF Take
    <3> QED BY <1>1, <2>1, <3>1, SnapshotTaken
  <2>2. CASE x.msg = "op"
    <3>1. mirror' = [mirror EXCEPT ![f] = TakeOp(f, x)]
      BY <2>2 DEF Take
    <3> QED BY <1>1, <1>4, <2>2, <3>1, OpTaken
  <2>3. CASE x.msg = "cursor"
    <3> DEFINE c == TakeCaret(f, x)
    <3>1. mirror' = [mirror EXCEPT ![f] = c]
      BY <2>3 DEF Take
    <3>2. x.win \in {"doc", "other"}
      BY <1>3, <2>3 DEF Message
    <3>3. SameText(mirror[f], c)
      BY <1>2, <3>2 DEF TakeCaret, SameText, Mirror
    <3> HIDE DEF c, x
    <3>4. TakenBy(f, c, x)
      BY <1>4, <2>3, <3>3, BeliefTaken
    <3> QED BY <3>1, <3>4
  <2>4. CASE x.msg = "idle"
    <3> DEFINE c == [mirror[f] EXCEPT !.idle = x.idle]
    <3>1. mirror' = [mirror EXCEPT ![f] = c]
      BY <2>4 DEF Take
    <3>2. x.idle \in BOOLEAN
      BY <1>3, <2>4 DEF Message
    <3>3. SameText(mirror[f], c)
      BY <1>2, <3>2 DEF SameText, Mirror
    <3> HIDE DEF c, x
    <3>4. TakenBy(f, c, x)
      BY <1>4, <2>4, <3>3, BeliefTaken
    <3> QED BY <3>1, <3>4
  <2>5. x.msg \in {"snapshot", "op", "cursor", "idle"}
    BY <1>3 DEF Message
  <2> QED BY <2>1, <2>2, <2>3, <2>4, <2>5
<1>6. /\ m2 \in Mirror /\ MirrorFits(f, m2, hist, doc) /\ m2.ready
      /\ All(mirror[f].text) \cup Brings(x) \subseteq All(m2.text)
  BY <1>5 DEF TakenBy
<1>7. /\ StreamFits(f, m2, hist, doc, Tail(s))
      /\ Reach(mirror[f], s, Len(s)) \subseteq Reach(m2, Tail(s), Len(Tail(s)))
  BY <1>1, <1>2, <1>6, StreamTaken
<1> DEFINE t == Tail(s)
<1>8. t \in Seq(Message)
  BY <1>7 DEF StreamFits
<1> HIDE DEF x, t
<1>9. /\ mirror'[f] = m2 /\ down'[f] = t
      /\ \A g \in Frontends : g # f => mirror'[g] = mirror[g] /\ down'[g] = down[g]
      /\ mirror' \in [Frontends -> Mirror] /\ down' \in [Frontends -> Seq(Message)]
  BY <1>1, <1>5, <1>6, <1>8 DEF CollabInv, Typed, t
<1>10. Typed'
  BY <1>1, <1>9 DEF CollabInv, Typed
<1>11. FrontFits(f)'
  <2>1. Covers(f, m2, t, queue, doc)
    BY <1>2, <1>4, <1>7 DEF FrontFits, Covers, t
  <2>2. LinkFits(sess[f], m2, t, up[f])
    BY <1>4, <1>6 DEF LinkFits
  <2>3. StreamFits(f, m2, hist, doc, t)
    BY <1>7 DEF t
  <2> QED BY <1>1, <1>2, <1>6, <1>9, <2>1, <2>2, <2>3 DEF FrontFits
<1>12. ASSUME NEW g \in Frontends, g # f PROVE FrontFits(g)'
  <2>1. FrontFits(g)
    BY DEF CollabInv
  <2> QED BY <1>1, <1>9, <1>12, <2>1 DEF FrontFits
<1>13. HistFits(hist') /\ Normal(hist', doc) /\ LossFits(hist', doc, up', refused)
       /\ UNCHANGED <<doc, queue, refused>>
  BY <1>1 DEF CollabInv
<1> QED BY <1>10, <1>11, <1>12, <1>13, FrontStep

(***************************************************************************)
(* The theorem.                                                            *)
(***************************************************************************)
(* The invariant holds at the start.                                       *)
LEMMA InitFits ==
  ASSUME Init
  PROVE  CollabInv
<1>1. /\ sess \in [Frontends -> Session] /\ mirror \in [Frontends -> Mirror]
      /\ up \in [Frontends -> Seq(Event)] /\ down \in [Frontends -> Seq(Message)]
  <2>1. Empty \in Replica
    BY DEF Empty, Replica
  <2> QED BY <2>1 DEF Init, Session, Mirror
<1>2. keys \in [Frontends -> 0..MaxKeys]
  BY ConstantsAssumption DEF Init
<1>3. hist = <<>> /\ doc = Empty /\ queue = <<>>
  BY DEF Init
<1>4. HistFits(<<>>)
  BY ConstantsAssumption DEF HistFits
<1>5. Normal(<<>>, Empty) /\ QueueFits(Empty, <<>>)
  BY DEF Normal, QueueFits, Empty, Replica, All
<1>6. ASSUME NEW f \in Frontends PROVE FrontFits(f)
  <2>1. /\ mirror[f].text = Empty /\ ~mirror[f].ready /\ mirror[f] \in Mirror
        /\ ~sess[f].on /\ up[f] = <<>> /\ down[f] = <<>>
    BY <1>1 DEF Init
  <2>2. MirrorFits(f, mirror[f], hist, doc)
    BY <1>3, <1>5, <2>1 DEF MirrorFits, Empty, All
  <2>3. StreamFits(f, mirror[f], hist, doc, down[f]) /\ UpFits(f, up[f], hist, doc)
    BY <2>1 DEF StreamFits, UpFits
  <2> QED BY <2>1, <2>2, <2>3 DEF FrontFits, LinkFits
<1>7. LossFits(hist, doc, up, refused)
  BY <1>3 DEF LossFits, Empty
<1> QED BY <1>1, <1>2, <1>3, <1>4, <1>5, <1>6, <1>7 DEF CollabInv, Typed

(* Every step keeps it.                                                    *)
LEMMA NextFits ==
  ASSUME CollabInv, [Next]_vars
  PROVE  CollabInv'
<1>1. CASE UNCHANGED vars
  <2>1. UNCHANGED <<hist, doc, queue, sess, mirror, up, down, keys, refused, ops>>
    BY <1>1 DEF vars
  <2> QED BY <2>1 DEF CollabInv, Typed, FrontFits
<1>2. ASSUME NEW f \in Frontends, TypeOptimistic(f) PROVE CollabInv'
  BY <1>2, TypeFits
<1>3. ASSUME NEW f \in Frontends, Take(f) PROVE CollabInv'
  BY <1>3, TakeFits
<1>4. ASSUME NEW f \in Frontends, Handle(f) PROVE CollabInv'
  BY <1>4, HandleFits
<1>5. ASSUME NEW f \in Frontends, Attach(f) PROVE CollabInv'
  BY <1>5, AttachFits
<1>6. ASSUME NEW f \in Frontends, NEW kind \in Kinds, Press(f, kind) PROVE CollabInv'
  BY <1>6, PressFits
<1>7. ASSUME NEW lua \in BOOLEAN, Tick(lua) PROVE CollabInv'
  BY <1>7, TickFits
<1> QED BY <1>1, <1>2, <1>3, <1>4, <1>5, <1>6, <1>7 DEF Next

(* The shape of the variables.                                             *)
LEMMA FitsTypes ==
  ASSUME CollabInv
  PROVE  TypeOK
<1>1. /\ HistFits(hist) /\ Normal(hist, doc) /\ QueueFits(doc, queue) /\ Typed
      /\ \A f \in Frontends : Normal(hist, mirror[f].text)
  BY DEF CollabInv, FrontFits, MirrorFits
<1>2. \A n \in 1..Len(hist) :
        hist[n].by \in Frontends \cup {Daemon} /\ hist[n].past \subseteq 1..(n - 1)
  <2>1. \A n \in 1..Len(hist) : hist[n] \in Op
    BY <1>1 DEF HistFits
  <2> QED BY <1>1, <2>1 DEF HistFits, Op
<1>3. ASSUME NEW r, Normal(hist, r)
      PROVE  /\ r.in \cup r.held \subseteq 1..Len(hist)
             /\ \A n \in r.held : ~(hist[n].past \subseteq r.in)
  BY <1>3 DEF Normal, All
<1>4. \A r \in {doc} \cup {mirror[f].text : f \in Frontends} : Normal(hist, r)
  BY <1>1
<1>5. \A i \in 1..Len(queue) : queue[i].n \in 1..Len(hist)
  BY <1>1 DEF QueueFits, Normal
<1>6. sess \in [Frontends -> [on : BOOLEAN, win : {"doc", "other"}, prefix : BOOLEAN,
                              told : {"none", "idle", "busy"}]]
  BY <1>1 DEF Typed, Session
<1>7. ASSUME NEW f \in Frontends
      PROVE  /\ mirror[f].ready \in BOOLEAN /\ mirror[f].stale \in BOOLEAN
             /\ mirror[f].idle \in BOOLEAN /\ mirror[f].active \in {"none", "doc", "other"}
             /\ keys[f] \in 0..MaxKeys
  <2>1. mirror[f] \in Mirror
    BY <1>1 DEF Typed
  <2> QED BY <1>1, <2>1 DEF Typed, Mirror
<1>8. Len(hist) <= MaxOps
  BY <1>1 DEF HistFits
<1> QED BY <1>2, <1>3, <1>4, <1>5, <1>6, <1>7, <1>8 DEF TypeOK

(* A caret comes after the edits that moved it.                            *)
LEMMA FitsCarets ==
  ASSUME CollabInv
  PROVE  CaretAfterEdit
<1> SUFFICES ASSUME NEW f \in Frontends, NEW i \in 1..Len(down[f]),
                    down[f][i].msg = "cursor"
             PROVE  down[f][i].seen \subseteq Within(f, i - 1)
  BY DEF CaretAfterEdit
<1>1. \A j : Brings(down[f][j]) = IF down[f][j].msg = "op" THEN {down[f][j].n}
                 ELSE IF down[f][j].msg = "snapshot" THEN down[f][j].in ELSE {}
  BY DEF Brings
<1>2. Within(f, i - 1) = Reach(mirror[f], down[f], i - 1)
  BY <1>1 DEF Within, Reach, All
<1>3. StreamFits(f, mirror[f], hist, doc, down[f])
  BY DEF CollabInv, FrontFits
<1> QED BY <1>2, <1>3 DEF StreamFits

(* Once nothing is on its way, replicas agree.                             *)
LEMMA FitsConverge ==
  ASSUME CollabInv
  PROVE  Converged
<1> SUFFICES ASSUME Quiet
             PROVE  /\ \A n \in doc.held : hist[n].by \in refused
                    /\ \A f \in Attached \ refused : mirror[f].text.in = doc.in
  BY DEF Converged
<1>1. /\ HistFits(hist) /\ Normal(hist, doc) /\ LossFits(hist, doc, up, refused)
      /\ All(doc) \subseteq 1..Len(hist)
  BY DEF CollabInv, Normal
<1>2. ASSUME NEW n \in doc.held
      PROVE  /\ hist[n].by \in refused
             /\ \E k \in hist[n].past : k \notin All(doc)
  <2>1. PICK k \in hist[n].past : Lost(k, hist, doc, up) /\ hist[k].by = hist[n].by
    BY <1>1 DEF LossFits
  <2>2. n \in 1..Len(hist) /\ k \in 1..(n - 1)
    BY <1>1, <2>1 DEF HistFits, All
  <2>3. k \in 1..Len(hist)
    BY <1>1, <2>2 DEF HistFits
  <2> QED BY <1>1, <2>1, <2>3 DEF LossFits, Lost
<1>3. ASSUME NEW f \in Attached \ refused PROVE mirror[f].text.in = doc.in
  <2> DEFINE t == mirror[f].text
  <2>1. /\ f \in Frontends /\ MirrorFits(f, mirror[f], hist, doc) /\ Normal(hist, t)
        /\ Covers(f, mirror[f], down[f], queue, doc)
        /\ up[f] = <<>> /\ down[f] = <<>> /\ queue = <<>>
    BY DEF CollabInv, FrontFits, MirrorFits, Attached, Quiet
  <2>2. doc.in \subseteq All(t)
    BY <2>1 DEF Covers, Reach
  <2>3. ~\E k : Sends(up[f], k)
    BY <2>1 DEF Sends
  <2>4. ASSUME NEW k \in All(t) PROVE k \in All(doc)
    <3> SUFFICES ASSUME k \notin All(doc) PROVE FALSE
      OBVIOUS
    <3>1. hist[k].by = f /\ k \in 1..Len(hist)
      BY <2>1, <2>4 DEF MirrorFits, Normal
    <3>2. Lost(k, hist, doc, up)
      BY <2>1, <2>3, <3>1 DEF Lost
    <3> QED BY <1>1, <3>1, <3>2 DEF LossFits
  <2>5. ASSUME NEW n \in doc.in PROVE n \in t.in
    <3>1. hist[n].past \subseteq All(t)
      BY <1>1, <2>2, <2>5 DEF Normal
    <3>2. n \in All(t) /\ n \notin t.held
      BY <2>1, <2>2, <2>5, <3>1 DEF Normal
    <3> QED BY <3>2 DEF All
  <2>6. ASSUME NEW n \in t.in PROVE n \in doc.in
    <3>1. n \in All(doc)
      BY <2>4, <2>6 DEF All
    <3>2. \A k \in hist[n].past : k \in All(doc)
      BY <2>1, <2>4, <2>6 DEF Normal, All
    <3>3. n \notin doc.held
      BY <1>2, <3>2
    <3> QED BY <3>1, <3>3 DEF All
  <2> QED BY <2>5, <2>6
<1> QED BY <1>2, <1>3

(* Any number of frontends may edit one document, optimistically or by     *)
(* keys the daemon runs, while hooks, pastes and Lua edit it too: no       *)
(* CursorByte passes the edit that moved the caret, and once the queue and *)
(* the streams are empty every frontend whose operations were all accepted *)
(* has the daemon's text (ReplicaInv).                                     *)
THEOREM ReplicasConverge == Spec => []ReplicaInv
<1>1. Init => CollabInv
  BY InitFits
<1>2. CollabInv /\ [Next]_vars => CollabInv'
  BY NextFits
<1>3. CollabInv => ReplicaInv
  BY FitsTypes, FitsCarets, FitsConverge DEF ReplicaInv
<1> QED BY <1>1, <1>2, <1>3, PTL DEF Spec
=============================================================================
