------------------------ MODULE AttachSessionsProofs ------------------------
(***************************************************************************)
(* What the session registry of src/src/presence.rs and the dispatcher of  *)
(* src/src/daemon.rs guarantee for any number of windows, connections and  *)
(* lost links: a session is torn down once, a view is in one place, one    *)
(* client without multi_frontend is registered at a time, a window has one *)
(* view, and no view is kept for a client that said it was leaving.        *)
(***************************************************************************)
EXTENDS AttachSessions, FiniteSetTheorems, TLAPS

Conn == [owner : Gui \cup {Plain}, resume : 0..MaxConns,
         link : {"none", "up", "half", "cut", "shut"},
         in : Seq({"detach", "leave", "stop"}), out : Seq({"token", "detached", "shutting"})]
Win == [st : {"new", "live", "lost", "pending", "told", "capped", "closed"},
        conn : 0..MaxConns, token : 0..MaxConns, failed : 0..AttemptCap,
        bye : {"none", "detached", "shutting"}]
Event == [k : {"established", "detached", "detach", "leave", "stop"}, c : Conns]

Held(r) == DOMAIN r.sessions \cup DOMAIN r.retained
View(r, t) == IF t \in DOMAIN r.sessions THEN r.sessions[t] ELSE r.retained[t]
Told(k) == \E i \in 1..Len(k.out) : k.out[i] = "token"
InUse(r, c) == r.conns[c].link # "none"

(* The registry: its types, and where a session is in its life.            *)
IsRegistry(r) ==
    DOMAIN r = {"sessions", "drains", "retained", "conns", "torn", "departing"}

RegistryOK(r) ==
    /\ IsRegistry(r)
    /\ r.conns \in [Conns -> Conn] /\ r.departing \in [Conns -> BOOLEAN]
    /\ r.torn \in [Conns -> 0..1]
    /\ DOMAIN r.drains \subseteq DOMAIN r.sessions
    /\ DOMAIN r.sessions \subseteq Conns /\ DOMAIN r.retained \subseteq Conns
    /\ DOMAIN r.sessions \cap DOMAIN r.retained = {}
    /\ \A c \in DOMAIN r.sessions : r.torn[c] = 0
    /\ \A t \in DOMAIN r.retained : r.torn[t] = 1
    /\ \A t \in Held(r) : View(r, t) \in Conns /\ InUse(r, t)

Typed ==
    /\ RegistryOK(Registry)
    /\ rd \in [Conns -> {"none", "reading", "ending", "gone"}]
    /\ slot \in 0..MaxConns /\ queue \in Seq(Event) /\ up \in BOOLEAN /\ quit \in BOOLEAN
    /\ win \in [Gui -> Win] /\ seen \subseteq Conns /\ said \subseteq Conns
    /\ \A w \in Gui : win[w].st \in {"lost", "pending"} => win[w].failed < AttemptCap

(* Connections are numbered in order, and what is known of one is of one   *)
(* that was made.                                                          *)
UsedInv ==
    /\ \E n \in 0..MaxConns : Used = 1..n
    /\ \A c \in Conns :
         (rd[c] # "none" \/ torn[c] = 1 \/ slot = c \/ c \in seen \/ Told(conns[c]))
            => c \in Used
    /\ \A t \in Held(Registry) : View(Registry, t) \in Used
    /\ \A i \in 1..Len(queue) : queue[i].c \in Used

(* A session that is still to be registered is nowhere yet, and nothing of *)
(* it comes before its establishment.                                      *)
QueueInv ==
    \A i \in 1..Len(queue) : queue[i].k = "established" =>
        /\ queue[i].c \notin Held(Registry) /\ torn[queue[i].c] = 0
        /\ \A t \in Held(Registry) : View(Registry, t) # queue[i].c
        /\ ~Told(conns[queue[i].c]) /\ queue[i].c \notin seen
        /\ \A j \in 1..Len(queue) : queue[j].c = queue[i].c => i <= j

ViewsInv ==
    \A s, t \in Held(Registry) : View(Registry, s) = View(Registry, t) => s = t

(* The slot is its holder's while the reader lives.  A plain session whose *)
(* reader has left is to be detached, and another is established only      *)
(* after that.                                                             *)
IsPlain(c) == conns[c].owner = Plain
Detaches(c, i, j) ==
    \E k \in 1..Len(queue) : queue[k].k = "detached" /\ queue[k].c = c /\ i < k /\ k < j
Establishes(i) == queue[i].k = "established" /\ IsPlain(queue[i].c)

SlotInv ==
    /\ \A c \in Conns : rd[c] = "ending" => slot = c
    /\ \A c \in Conns : slot = c => IsPlain(c) /\ rd[c] \in {"reading", "ending"}
    /\ \A c \in Conns : IsPlain(c) /\ rd[c] = "reading" => slot = c

PlainInv ==
    /\ \A c, d \in DOMAIN sessions : IsPlain(c) /\ IsPlain(d) => c = d
    /\ \A c \in DOMAIN sessions : IsPlain(c) /\ rd[c] # "reading" =>
            Detaches(c, 0, Len(queue) + 1)
    /\ \A i \in 1..Len(queue) : Establishes(i) =>
            /\ rd[queue[i].c] # "reading" => Detaches(queue[i].c, 0, Len(queue) + 1)
            /\ \A d \in DOMAIN sessions : IsPlain(d) => Detaches(d, 0, i)
            /\ \A k \in 1..Len(queue) : k < i /\ Establishes(k) => Detaches(queue[k].c, k, i)

(* A window's token is the last it read; a session that resumes another    *)
(* is of the same window, and was given a token only when the other had    *)
(* gone.                                                                   *)
WindowInv ==
    /\ \A w \in Gui : win[w].token # NoConn =>
            win[w].token \in seen /\ conns[win[w].token].owner = w /\ win[w].st # "new"
    /\ \A w \in Gui : win[w].st \in {"live", "pending"} =>
            /\ win[w].conn \in Used /\ conns[win[w].conn].owner = w
            /\ win[w].token \in {win[w].conn, conns[win[w].conn].resume}
    /\ \A c \in Conns : conns[c].resume # NoConn =>
            /\ conns[c].resume \in seen /\ conns[c].owner \in Gui
            /\ conns[conns[c].resume].owner = conns[c].owner
    /\ \A c \in Conns : Told(conns[c]) =>
            conns[c].owner \in Gui /\ conns[c].resume \notin Held(Registry)
    /\ \A c \in seen : conns[c].owner \in Gui
    /\ \A c \in seen \cap Held(Registry) :
            win[conns[c].owner].st = "closed" \/ win[conns[c].owner].token = c
    /\ \A s, t \in seen \cap Held(Registry) : conns[s].owner = conns[t].owner => s = t

DepartedInv == \A c \in said : departing[c]

SessionsIInv ==
    /\ Typed /\ UsedInv /\ QueueInv /\ ViewsInv /\ SlotInv /\ PlainInv /\ WindowInv
    /\ DepartedInv

-----------------------------------------------------------------------------
(* The registry.                                                           *)

(* How a dispatcher's step that registers nothing changes the registry:    *)
(* sessions and views only go or are kept for their token, and what is     *)
(* fixed at a connection's handshake stays.                                *)
Calmer(r, n) ==
    /\ DOMAIN n.sessions \subseteq DOMAIN r.sessions /\ Held(n) \subseteq Held(r)
    /\ \A t \in Held(n) : View(n, t) = View(r, t)
    /\ \A c \in Conns : /\ n.conns[c].owner = r.conns[c].owner
                        /\ n.conns[c].resume = r.conns[c].resume
                        /\ InUse(n, c) <=> InUse(r, c)
                        /\ Told(n.conns[c]) => Told(r.conns[c])
                        /\ r.departing[c] => n.departing[c]
                        /\ c \in Held(r) \/ n.torn[c] = r.torn[c]
    /\ \A t \in DOMAIN n.retained \ DOMAIN r.retained : ~r.departing[t]

(* To shut a link changes nothing but the link.                            *)
LEMMA ShutShape ==
  ASSUME NEW k \in Conn
  PROVE  /\ Shut(k) \in Conn /\ Shut(k).owner = k.owner /\ Shut(k).resume = k.resume
         /\ Shut(k).in = k.in /\ Shut(k).out = k.out
         /\ Shut(k).link # "none"
  BY DEF Shut, Conn

(* A teardown leaves a sound registry, and only takes sessions away.       *)
LEMMA DetachCalms ==
  ASSUME NEW r, RegistryOK(r), NEW S
  PROVE  /\ RegistryOK(Detach(r, S)) /\ Calmer(r, Detach(r, S))
         /\ DOMAIN Detach(r, S).sessions = DOMAIN r.sessions \ S
<1> DEFINE T == S \cap DOMAIN r.sessions
           Kept == {c \in T : r.conns[c].owner # Plain /\ ~r.departing[c]}
           n == Detach(r, S)
<1>0. IsRegistry(r)
  BY DEF RegistryOK
<1>1. /\ IsRegistry(n) /\ n.sessions = Without(r.sessions, T) /\ n.drains = Without(r.drains, T)
      /\ n.departing = r.departing
      /\ n.torn = [c \in Conns |-> IF c \in T THEN r.torn[c] + 1 ELSE r.torn[c]]
      /\ n.conns = [c \in Conns |-> IF c \in T \cap DOMAIN r.drains
                                    THEN Shut(r.conns[c]) ELSE r.conns[c]]
      /\ n.retained = [c \in DOMAIN r.retained \cup Kept |->
                                IF c \in Kept THEN r.sessions[c] ELSE r.retained[c]]
  BY <1>0 DEF Detach, IsRegistry
<1>2. /\ T \subseteq DOMAIN r.sessions /\ Kept \subseteq T /\ DOMAIN r.sessions \subseteq Conns
      /\ \A c \in Kept : ~r.departing[c]
  BY DEF RegistryOK
<1>d. DOMAIN r.sessions \ T = DOMAIN r.sessions \ S
  OBVIOUS
<1> HIDE DEF T, Kept, n
<1>3. /\ DOMAIN n.sessions = DOMAIN r.sessions \ T /\ DOMAIN n.drains = DOMAIN r.drains \ T
      /\ \A c \in DOMAIN r.sessions \ T : n.sessions[c] = r.sessions[c]
      /\ DOMAIN n.retained = DOMAIN r.retained \cup Kept
  <2>1. /\ DOMAIN n.sessions = DOMAIN r.sessions \ T
        /\ \A c \in DOMAIN r.sessions \ T : n.sessions[c] = r.sessions[c]
    BY <1>1 DEF Without
  <2>2. DOMAIN n.drains = DOMAIN r.drains \ T
    BY <1>1 DEF Without
  <2>3. DOMAIN n.retained = DOMAIN r.retained \cup Kept
    BY <1>1
  <2>4. QED
    BY <2>1, <2>2, <2>3
<1>4. /\ n.conns \in [Conns -> Conn]
      /\ \A c \in Conns : /\ n.conns[c].owner = r.conns[c].owner
                          /\ n.conns[c].resume = r.conns[c].resume
                          /\ n.conns[c].out = r.conns[c].out
                          /\ InUse(n, c) <=> InUse(r, c)
  <2>1. ASSUME NEW c \in Conns
        PROVE  /\ n.conns[c] \in Conn /\ n.conns[c].owner = r.conns[c].owner
               /\ n.conns[c].resume = r.conns[c].resume /\ n.conns[c].out = r.conns[c].out
               /\ InUse(n, c) <=> InUse(r, c)
    <3>0. r.conns[c] \in Conn
      BY DEF RegistryOK
    <3>1. CASE c \in T \cap DOMAIN r.drains
      <4>1. n.conns[c] = Shut(r.conns[c])
        BY <1>1, <3>1
      <4>2. InUse(r, c)
        BY <1>2, <3>1 DEF RegistryOK, Held
      <4>3. QED
        BY <3>0, <4>1, <4>2, ShutShape DEF InUse
    <3>2. CASE c \notin T \cap DOMAIN r.drains
      BY <1>1, <3>0, <3>2 DEF InUse
    <3>3. QED
      BY <3>1, <3>2
  <2>2. QED
    BY <1>1, <2>1
<1>5. Held(n) \subseteq Held(r) /\ \A t \in Held(n) : View(n, t) = View(r, t)
  <2>1. Held(n) \subseteq Held(r)
    BY <1>2, <1>3 DEF Held
  <2>2. ASSUME NEW t \in Held(n) PROVE View(n, t) = View(r, t)
    <3>1. CASE t \in DOMAIN r.sessions \ T
      BY <1>3, <3>1 DEF View
    <3>2. CASE t \in Kept
      BY <1>1, <1>2, <1>3, <3>2 DEF View
    <3>3. CASE t \in DOMAIN r.retained /\ t \notin Kept
      BY <1>1, <1>3, <3>3 DEF View, RegistryOK
    <3>4. QED
      BY <1>3, <2>2, <3>1, <3>2, <3>3 DEF Held
  <2>3. QED
    BY <2>1, <2>2
<1>6. /\ n.torn \in [Conns -> 0..1] /\ \A c \in DOMAIN n.sessions : n.torn[c] = 0
      /\ \A t \in DOMAIN n.retained : n.torn[t] = 1
      /\ \A c \in Conns : c \in Held(r) \/ n.torn[c] = r.torn[c]
  BY <1>1, <1>2, <1>3 DEF RegistryOK, Held
<1>7. RegistryOK(n)
  BY <1>1, <1>2, <1>3, <1>4, <1>5, <1>6 DEF RegistryOK, Held
<1>8. Calmer(r, n)
  BY <1>1, <1>2, <1>3, <1>4, <1>5, <1>6 DEF Calmer, Told, Held
<1>9. QED
  BY <1>3, <1>7, <1>8, <1>d DEF n

(* Calm steps make a calm step.                                            *)
LEMMA CalmerTwice ==
  ASSUME NEW r, NEW n, NEW m, Calmer(r, n), Calmer(n, m), RegistryOK(r), RegistryOK(n)
  PROVE  Calmer(r, m)
<1>1. DOMAIN r.sessions \subseteq Conns /\ DOMAIN n.retained \subseteq Conns
  BY DEF RegistryOK
<1>2. ASSUME NEW t \in DOMAIN m.retained \ DOMAIN r.retained PROVE ~r.departing[t]
  <2>1. CASE t \in DOMAIN n.retained
    BY <1>2, <2>1 DEF Calmer
  <2>2. CASE t \notin DOMAIN n.retained
    <3>1. ~n.departing[t] /\ t \in Held(n) /\ t \in Held(r)
      BY <1>2, <2>2 DEF Calmer, Held
    <3>2. t \in Conns
      BY <3>1 DEF RegistryOK, Held
    <3>3. QED
      BY <3>1, <3>2 DEF Calmer
  <2>3. QED
    BY <2>1, <2>2
<1>3. \A c \in Conns : c \in Held(r) \/ m.torn[c] = r.torn[c]
  BY DEF Calmer
<1>4. QED
  BY <1>2, <1>3 DEF Calmer

(* Nothing is calmer than no change.                                       *)
LEMMA CalmerSame ==
  ASSUME NEW r
  PROVE  Calmer(r, r)
  BY DEF Calmer

(* A step that touches only links, what they carry and the flags is calm.  *)
LEMMA LinksCalm ==
  ASSUME NEW r, NEW n, RegistryOK(r), IsRegistry(n),
         n.sessions = r.sessions, n.retained = r.retained, n.torn = r.torn,
         DOMAIN n.drains \subseteq DOMAIN r.sessions,
         n.conns \in [Conns -> Conn], n.departing \in [Conns -> BOOLEAN],
         \A c \in Conns : /\ n.conns[c].owner = r.conns[c].owner
                          /\ n.conns[c].resume = r.conns[c].resume
                          /\ InUse(n, c) <=> InUse(r, c)
                          /\ Told(n.conns[c]) => Told(r.conns[c])
                          /\ r.departing[c] => n.departing[c]
  PROVE  RegistryOK(n) /\ Calmer(r, n)
<1>1. Held(n) = Held(r) /\ \A t : View(n, t) = View(r, t)
  BY DEF Held, View
<1>2. Held(r) \subseteq Conns
  BY DEF RegistryOK, Held
<1>3. RegistryOK(n)
  BY <1>1, <1>2 DEF RegistryOK
<1>4. Calmer(r, n)
  BY <1>1 DEF Calmer
<1>5. QED
  BY <1>3, <1>4

(* A refused socket is closed, and nothing else.                           *)
LEMMA ShutCalms ==
  ASSUME NEW r, RegistryOK(r), NEW c \in Conns, InUse(r, c),
         NEW n, n = [r EXCEPT !.conns[c] = Shut(@)]
  PROVE  RegistryOK(n) /\ Calmer(r, n)
<1>1. /\ IsRegistry(n) /\ n.sessions = r.sessions /\ n.retained = r.retained
      /\ n.torn = r.torn /\ n.drains = r.drains /\ n.departing = r.departing
      /\ n.conns = [r.conns EXCEPT ![c] = Shut(@)]
  BY DEF RegistryOK, IsRegistry
<1>2. r.conns \in [Conns -> Conn]
  BY DEF RegistryOK
<1>3. ASSUME NEW d \in Conns
      PROVE  /\ n.conns[d] \in Conn /\ n.conns[d].owner = r.conns[d].owner
             /\ n.conns[d].resume = r.conns[d].resume /\ n.conns[d].out = r.conns[d].out
             /\ InUse(n, d) <=> InUse(r, d)
  BY <1>1, <1>2, ShutShape DEF InUse
<1>4. n.conns \in [Conns -> Conn]
  BY <1>1, <1>2, <1>3
<1>5. QED
  <2>1. /\ DOMAIN n.drains \subseteq DOMAIN r.sessions /\ n.departing \in [Conns -> BOOLEAN]
        /\ \A d \in Conns : /\ Told(n.conns[d]) => Told(r.conns[d])
                            /\ r.departing[d] => n.departing[d]
    BY <1>1, <1>3 DEF RegistryOK, Told
  <2>2. QED
    BY <1>1, <1>3, <1>4, <2>1, LinksCalm

(* The views past their retention go.                                      *)
LEMMA SweptCalms ==
  ASSUME NEW r, RegistryOK(r), NEW expired
  PROVE  /\ RegistryOK(Swept(r, expired)) /\ Calmer(r, Swept(r, expired))
         /\ Swept(r, expired).sessions = r.sessions
<1> DEFINE n == Swept(r, expired)
<1>1. /\ IsRegistry(n) /\ n.sessions = r.sessions /\ n.retained = Without(r.retained, expired)
      /\ n.torn = r.torn /\ n.drains = r.drains /\ n.departing = r.departing
      /\ n.conns = r.conns
  BY DEF Swept, RegistryOK, IsRegistry
<1> HIDE DEF n
<1>2. /\ DOMAIN n.retained = DOMAIN r.retained \ expired
      /\ \A t \in DOMAIN n.retained : n.retained[t] = r.retained[t]
  BY <1>1 DEF Without
<1>3. Held(n) \subseteq Held(r) /\ \A t \in Held(n) : View(n, t) = View(r, t)
  BY <1>1, <1>2 DEF Held, View
<1>4. RegistryOK(n)
  BY <1>1, <1>2, <1>3 DEF RegistryOK, InUse
<1>5. Calmer(r, n)
  BY <1>1, <1>2, <1>3 DEF Calmer, InUse
<1>6. QED
  BY <1>1, <1>4, <1>5 DEF n

(* A write that fails begins a drain, and nothing else.                    *)
LEMMA WrittenCalms ==
  ASSUME NEW r, RegistryOK(r), NEW failing \in SUBSET Deaf(r)
  PROVE  /\ RegistryOK(Written(r, failing)) /\ Calmer(r, Written(r, failing))
<1> DEFINE n == Written(r, failing)
<1>1. /\ IsRegistry(n) /\ n.sessions = r.sessions /\ n.retained = r.retained
      /\ n.torn = r.torn /\ DOMAIN n.drains = DOMAIN r.drains \cup failing
      /\ n.departing = r.departing /\ n.conns = r.conns
  BY DEF Written, RegistryOK, IsRegistry
<1>2. failing \subseteq DOMAIN r.sessions
  BY DEF Deaf
<1> HIDE DEF n
<1>3. /\ DOMAIN n.drains \subseteq DOMAIN r.sessions
      /\ n.conns \in [Conns -> Conn] /\ n.departing \in [Conns -> BOOLEAN]
      /\ \A c \in Conns : InUse(n, c) <=> InUse(r, c)
  BY <1>1, <1>2 DEF RegistryOK, InUse
<1>4. QED
  BY <1>1, <1>3, LinksCalm DEF n

(* A daemon that stops has no session and no view left.                    *)
LEMMA StoppedCalms ==
  ASSUME NEW r, RegistryOK(r)
  PROVE  /\ RegistryOK(Stopped(r)) /\ Calmer(r, Stopped(r)) /\ Held(Stopped(r)) = {}
<1> DEFINE n == Stopped(r)
           Silent(c) == [r.conns[c] EXCEPT !.in = <<>>]
           Left(c) == IF c \in DOMAIN r.sessions \ DOMAIN r.drains /\ r.conns[c].link = "up"
                      THEN [Silent(c) EXCEPT !.out = Append(@, "shutting")] ELSE Silent(c)
<1>t. r.conns \in [Conns -> Conn]
  BY DEF RegistryOK
<1>1. /\ IsRegistry(n) /\ n.sessions = <<>> /\ n.retained = <<>>
      /\ n.torn = r.torn /\ n.drains = <<>> /\ n.departing = r.departing
  BY DEF Stopped, RegistryOK, IsRegistry
<1>2. n.conns = [c \in Conns |->
          LET k == [r.conns[c] EXCEPT !.in = <<>>] IN
          IF k.link = "none" THEN k
          ELSE Shut(IF c \in DOMAIN r.sessions \ DOMAIN r.drains /\ k.link = "up"
                    THEN [k EXCEPT !.out = Append(@, "shutting")] ELSE k)]
  BY DEF Stopped, RegistryOK, IsRegistry
<1>3. ASSUME NEW c \in Conns
      PROVE  /\ n.conns[c] \in Conn /\ n.conns[c].owner = r.conns[c].owner
             /\ n.conns[c].resume = r.conns[c].resume
             /\ InUse(n, c) <=> InUse(r, c)
             /\ Told(n.conns[c]) => Told(r.conns[c])
  <2> DEFINE k == Silent(c)
             l == Left(c)
  <2>1. /\ k \in Conn /\ k.owner = r.conns[c].owner /\ k.resume = r.conns[c].resume
        /\ k.link = r.conns[c].link /\ k.out = r.conns[c].out
    <3> DEFINE b == r.conns[c]
    <3>1. b \in Conn
      BY <1>t
    <3> HIDE DEF b
    <3>2. <<>> \in Seq({"detach", "leave", "stop"})
      OBVIOUS
    <3>3. [b EXCEPT !.in = <<>>] \in Conn
      BY <3>1, <3>2 DEF Conn
    <3>4. QED
      BY <3>1, <3>3 DEF b, Conn
  <2>2. n.conns[c] = IF k.link = "none" THEN k ELSE Shut(l)
    BY <1>2, <2>1
  <2>3. l = k \/ l = [k EXCEPT !.out = Append(@, "shutting")]
    OBVIOUS
  <2> HIDE DEF n, k, l
  <2>4. /\ l \in Conn /\ l.owner = k.owner /\ l.resume = k.resume
        /\ Told(l) => Told(k)
    <3>1. CASE l = k
      BY <2>1, <3>1
    <3>2. CASE l = [k EXCEPT !.out = Append(@, "shutting")]
      <4>1. k.out \in Seq({"token", "detached", "shutting"})
        BY <2>1 DEF Conn
      <4>2. l.out = Append(k.out, "shutting") /\ l.owner = k.owner /\ l.resume = k.resume
        BY <2>1, <3>2 DEF Conn
      <4>3. l \in Conn
        <5>1. Append(k.out, "shutting") \in Seq({"token", "detached", "shutting"})
          BY <4>1
        <5>2. QED
          BY <2>1, <3>2, <5>1 DEF Conn
      <4>4. Told(l) => Told(k)
        BY <4>1, <4>2 DEF Told
      <4>5. QED
        BY <4>2, <4>3, <4>4
    <3>3. QED
      BY <2>3, <3>1, <3>2
  <2>5. CASE k.link = "none"
    BY <2>1, <2>2, <2>5 DEF InUse, Told
  <2>6. CASE k.link # "none"
    BY <2>1, <2>2, <2>4, <2>6, ShutShape DEF InUse, Told
  <2>7. QED
    BY <2>5, <2>6
<1> HIDE DEF n, Silent, Left
<1>4. n.conns \in [Conns -> Conn]
  BY <1>2, <1>3
<1>5. Held(n) = {} /\ DOMAIN n.sessions = {} /\ DOMAIN n.retained = {} /\ DOMAIN n.drains = {}
  BY <1>1 DEF Held
<1>6. RegistryOK(n)
  BY <1>1, <1>4, <1>5 DEF RegistryOK
<1>7. Calmer(r, n)
  BY <1>1, <1>3, <1>5 DEF Calmer
<1>8. QED
  BY <1>5, <1>6, <1>7 DEF n

(* A frontend's own quit tears its session down, after a word of farewell. *)
LEMMA LeaveCalms ==
  ASSUME NEW r, RegistryOK(r), NEW c \in Conns
  PROVE  /\ RegistryOK(Leave(r, c)) /\ Calmer(r, Leave(r, c))
         /\ c \notin DOMAIN Leave(r, c).sessions
<1>1. CASE c \notin DOMAIN r.sessions
  BY <1>1, CalmerSame DEF Leave
<1>2. CASE c \in DOMAIN r.sessions
  <2> DEFINE e == Shut([r.conns[c] EXCEPT !.out = Append(@, "detached")])
             told == IF c \in DOMAIN r.drains THEN r
                     ELSE [r EXCEPT !.conns[c] =
                             Shut([r.conns[c] EXCEPT !.out = Append(@, "detached")])]
             m == [told EXCEPT !.departing[c] = TRUE]
  <2>1. Leave(r, c) = Detach(m, {c})
    BY <1>2 DEF Leave
  <2>2. /\ IsRegistry(r) /\ r.conns \in [Conns -> Conn] /\ r.conns[c].link # "none"
        /\ r.departing \in [Conns -> BOOLEAN]
        /\ DOMAIN r.drains \subseteq DOMAIN r.sessions
    BY <1>2 DEF RegistryOK, Held, InUse
  <2>3. /\ IsRegistry(m) /\ m.sessions = r.sessions /\ m.retained = r.retained
        /\ m.torn = r.torn /\ m.drains = r.drains
        /\ m.departing = [r.departing EXCEPT ![c] = TRUE]
        /\ m.conns = told.conns
    BY <2>2 DEF IsRegistry
  <2>4. \/ m.conns = r.conns
        \/ m.conns = [r.conns EXCEPT ![c] = e]
    <3>1. told = r \/ told = [r EXCEPT !.conns[c] = e]
      OBVIOUS
    <3> HIDE DEF m, told, e
    <3>2. QED
      BY <2>2, <2>3, <3>1 DEF IsRegistry
  <2> HIDE DEF m, told
  <2> DEFINE k == r.conns[c]
             l == [k EXCEPT !.out = Append(@, "detached")]
  <2>l. m.conns = r.conns \/ m.conns = [r.conns EXCEPT ![c] = Shut(l)]
    <3>1. e = Shut(l)
      OBVIOUS
    <3> HIDE DEF e, l
    <3>2. QED
      BY <2>4, <3>1
  <2>5. /\ Shut(l) \in Conn /\ Shut(l).owner = k.owner /\ Shut(l).resume = k.resume
        /\ Shut(l).link # "none" /\ (Told(Shut(l)) => Told(k))
    <3>1. k \in Conn
      BY <2>2
    <3> HIDE DEF k
    <3>2. k.out \in Seq({"token", "detached", "shutting"})
      BY <3>1 DEF Conn
    <3>3. Append(k.out, "detached") \in Seq({"token", "detached", "shutting"})
      BY <3>2
    <3>4. l \in Conn /\ l.owner = k.owner /\ l.resume = k.resume /\ l.out = Append(k.out, "detached")
      BY <3>1, <3>3 DEF Conn
    <3> HIDE DEF l
    <3>5. Told(l) => Told(k)
      BY <3>2, <3>4 DEF Told
    <3>6. QED
      BY <3>4, <3>5, ShutShape DEF Told
  <2> HIDE DEF l
  <2>6. ASSUME NEW d \in Conns
        PROVE  /\ m.conns[d] \in Conn /\ m.conns[d].owner = r.conns[d].owner
               /\ m.conns[d].resume = r.conns[d].resume
               /\ InUse(m, d) <=> InUse(r, d)
               /\ Told(m.conns[d]) => Told(r.conns[d])
               /\ r.departing[d] => m.departing[d]
    <3>1. m.conns[d] = r.conns[d] \/ (d = c /\ m.conns[d] = Shut(l))
      <4>1. CASE m.conns = r.conns
        BY <4>1
      <4>2. CASE m.conns = [r.conns EXCEPT ![c] = Shut(l)]
        BY <2>2, <4>2
      <4>3. QED
        BY <2>l, <4>1, <4>2
    <3>2. r.departing[d] => m.departing[d]
      BY <2>2, <2>3
    <3>3. CASE m.conns[d] = r.conns[d]
      BY <2>2, <3>2, <3>3 DEF InUse
    <3>4. CASE d = c /\ m.conns[d] = Shut(l)
      BY <2>2, <2>5, <3>2, <3>4 DEF InUse
    <3>5. QED
      BY <3>1, <3>3, <3>4
  <2>7. m.conns \in [Conns -> Conn]
    <3>1. m.conns = [d \in Conns |-> m.conns[d]]
      BY <2>2, <2>4
    <3>2. QED
      BY <2>6, <3>1
  <2>8. RegistryOK(m) /\ Calmer(r, m)
    <3>1. DOMAIN m.drains \subseteq DOMAIN r.sessions /\ m.departing \in [Conns -> BOOLEAN]
      BY <2>2, <2>3
    <3>2. QED
      BY <2>3, <2>6, <2>7, <3>1, LinksCalm
  <2>9. /\ RegistryOK(Detach(m, {c})) /\ Calmer(m, Detach(m, {c}))
        /\ DOMAIN Detach(m, {c}).sessions = DOMAIN m.sessions \ {c}
    BY <2>8, DetachCalms
  <2>10. QED
    BY <2>1, <2>8, <2>9, CalmerTwice
<1>3. QED
  BY <1>1, <1>2

(* What a session that is established adds to the registry: itself, with   *)
(* the view it resumes or a fresh one, and its token.                      *)
Registers(r, n, c) ==
    /\ DOMAIN n.sessions = DOMAIN r.sessions \cup {c}
    /\ DOMAIN n.retained = DOMAIN r.retained \ {r.conns[c].resume}
    /\ \A t \in Held(n) \ {c} : View(n, t) = View(r, t)
    /\ \/ View(n, c) = c
       \/ /\ r.conns[c].resume \in DOMAIN r.retained
          /\ View(n, c) = View(r, r.conns[c].resume)
    /\ \A d \in Conns : /\ n.conns[d].owner = r.conns[d].owner
                        /\ n.conns[d].resume = r.conns[d].resume
                        /\ InUse(n, d) <=> InUse(r, d)
                        /\ Told(n.conns[d]) => \/ Told(r.conns[d])
                                               \/ d = c /\ r.conns[c].owner # Plain
    /\ n.departing = r.departing /\ n.torn = r.torn

(* A bootstrap registers its session, or changes nothing but views.        *)
LEMMA BootstrapShape ==
  ASSUME NEW r, RegistryOK(r), NEW c \in Conns, InUse(r, c), c \notin Held(r), r.torn[c] = 0
  PROVE  LET n == Bootstrapped(r, c) IN
         /\ RegistryOK(n)
         /\ \/ Calmer(r, n) /\ r.conns[c].owner # Plain
            \/ Registers(r, n, c)
<1> DEFINE k == r.conns[c]
           view == IF k.resume \in DOMAIN r.retained THEN r.retained[k.resume] ELSE c
           taken == [r EXCEPT !.retained = Without(@, {k.resume})]
           told == IF k.owner = Plain THEN <<>> ELSE <<"token">>
           n == Bootstrapped(r, c)
<1>t. /\ IsRegistry(r) /\ r.conns \in [Conns -> Conn] /\ k \in Conn /\ k.link # "none"
  BY DEF RegistryOK, InUse
<1>1. taken = Swept(r, {k.resume})
  BY DEF Swept
<1>2. RegistryOK(taken) /\ Calmer(r, taken) /\ taken.sessions = r.sessions
  BY <1>1, SweptCalms
<1>3. /\ taken.conns = r.conns /\ taken.retained = Without(r.retained, {k.resume})
      /\ taken.drains = r.drains /\ taken.torn = r.torn /\ taken.departing = r.departing
  BY <1>t DEF IsRegistry
<1>4. CASE k.link # "up" /\ k.owner # Plain
  <2>1. n = [taken EXCEPT !.conns[c] = Shut(k)]
    BY <1>4 DEF Bootstrapped
  <2> DEFINE m == taken
  <2>2. n = [m EXCEPT !.conns[c] = Shut(@)] /\ InUse(m, c) /\ RegistryOK(m) /\ Calmer(r, m)
    <3>1. m.conns = r.conns /\ IsRegistry(m)
      BY <1>2, <1>3 DEF RegistryOK
    <3> HIDE DEF m, n
    <3>2. n = [m EXCEPT !.conns[c] = Shut(m.conns[c])]
      BY <2>1, <3>1 DEF m
    <3>3. QED
      BY <1>2, <1>t, <3>1, <3>2 DEF InUse, m
  <2> HIDE DEF m, n
  <2>3. RegistryOK(n) /\ Calmer(m, n)
    BY <2>2, ShutCalms
  <2>4. QED
    BY <1>4, <2>2, <2>3, CalmerTwice DEF n
<1>5. CASE ~(k.link # "up" /\ k.owner # Plain)
  <2>1. n = [taken EXCEPT !.sessions = With(@, c, view), !.conns[c].out = @ \o told]
    BY <1>5 DEF Bootstrapped
  <2>2. /\ IsRegistry(n) /\ n.sessions = With(taken.sessions, c, view)
        /\ n.conns = [taken.conns EXCEPT ![c].out = @ \o told]
        /\ n.retained = taken.retained /\ n.drains = taken.drains /\ n.torn = taken.torn
        /\ n.departing = taken.departing
    <3> DEFINE m == taken
    <3>1. IsRegistry(m) /\ n = [m EXCEPT !.sessions = With(@, c, view), !.conns[c].out = @ \o told]
      BY <1>2, <2>1 DEF RegistryOK
    <3> HIDE DEF m, n, view, told
    <3>2. /\ IsRegistry(n) /\ n.sessions = With(m.sessions, c, view)
          /\ n.conns = [m.conns EXCEPT ![c].out = @ \o told]
          /\ n.retained = m.retained /\ n.drains = m.drains /\ n.torn = m.torn
          /\ n.departing = m.departing
      BY <3>1 DEF IsRegistry
    <3>3. QED
      BY <3>2 DEF m
  <2> HIDE DEF n, taken, view, told
  <2>3. /\ DOMAIN n.sessions = DOMAIN r.sessions \cup {c} /\ n.sessions[c] = view
        /\ \A t \in DOMAIN r.sessions : t # c => n.sessions[t] = r.sessions[t]
    BY <1>2, <2>2 DEF With
  <2>4. /\ DOMAIN n.retained = DOMAIN r.retained \ {k.resume}
        /\ \A t \in DOMAIN n.retained : n.retained[t] = r.retained[t]
    BY <1>3, <2>2 DEF Without
  <2>5. c \notin DOMAIN r.sessions /\ c \notin DOMAIN r.retained
        /\ DOMAIN r.sessions \cap DOMAIN r.retained = {}
    BY DEF Held, RegistryOK
  <2>6. \A t \in Held(n) \ {c} : View(n, t) = View(r, t) /\ t \in Held(r)
    BY <2>3, <2>4, <2>5 DEF Held, View
  <2>7. /\ View(n, c) = view /\ view \in Conns
        /\ \/ view = c
           \/ k.resume \in DOMAIN r.retained /\ view = View(r, k.resume)
    <3>1. View(n, c) = view
      BY <2>3 DEF View
    <3>2. CASE k.resume \in DOMAIN r.retained
      <4>1. view = r.retained[k.resume] /\ View(r, k.resume) = r.retained[k.resume]
        BY <2>5, <3>2 DEF view, View
      <4>2. View(r, k.resume) \in Conns
        BY <3>2 DEF RegistryOK, Held
      <4>3. QED
        BY <3>1, <3>2, <4>1, <4>2
    <3>3. CASE k.resume \notin DOMAIN r.retained
      BY <3>1, <3>3 DEF view
    <3>4. QED
      BY <3>2, <3>3
  <2>8. ASSUME NEW d \in Conns
        PROVE  /\ n.conns[d] \in Conn /\ n.conns[d].owner = r.conns[d].owner
               /\ n.conns[d].resume = r.conns[d].resume /\ n.conns[d].link = r.conns[d].link
               /\ Told(n.conns[d]) => Told(r.conns[d]) \/ (d = c /\ k.owner # Plain)
    <3>1. n.conns = [r.conns EXCEPT ![c].out = @ \o told]
      BY <1>3, <2>2
    <3>2. CASE d # c
      BY <1>t, <3>1, <3>2
    <3>3. CASE d = c
      <4> DEFINE l == [k EXCEPT !.out = @ \o told]
      <4>1. n.conns[d] = l
        BY <1>t, <3>1, <3>3
      <4>2. told \in Seq({"token", "detached", "shutting"}) /\ (k.owner = Plain => told = <<>>)
        <5>1. <<>> \in Seq({"token", "detached", "shutting"})
              /\ <<"token">> \in Seq({"token", "detached", "shutting"})
          OBVIOUS
        <5>2. QED
          BY <5>1 DEF told
      <4>3. k.out \in Seq({"token", "detached", "shutting"})
        BY <1>t DEF Conn
      <4>4. k.out \o told \in Seq({"token", "detached", "shutting"})
        BY <4>2, <4>3
      <4>5. l \in Conn /\ l.owner = k.owner /\ l.resume = k.resume /\ l.link = k.link
            /\ l.out = k.out \o told
        <5> HIDE DEF k
        <5>1. QED
          BY <1>t, <4>4 DEF Conn
      <4>6. k.owner = Plain => l.out = k.out
        BY <4>2, <4>3, <4>5
      <4> HIDE DEF l
      <4>7. QED
        BY <3>3, <4>1, <4>5, <4>6 DEF Told
    <3>4. QED
      BY <3>2, <3>3
  <2>9. n.conns \in [Conns -> Conn]
    <3>1. n.conns = [d \in Conns |-> n.conns[d]]
      BY <1>t, <1>3, <2>2
    <3>2. QED
      BY <2>8, <3>1
  <2>10. /\ n.drains = r.drains /\ n.torn = r.torn /\ n.departing = r.departing
    BY <1>3, <2>2
  <2>11. RegistryOK(n)
    <3>1. DOMAIN n.sessions \subseteq Conns /\ DOMAIN n.retained \subseteq Conns
          /\ DOMAIN n.sessions \cap DOMAIN n.retained = {}
          /\ DOMAIN n.drains \subseteq DOMAIN n.sessions
      BY <2>3, <2>4, <2>5, <2>10 DEF RegistryOK
    <3>2. ASSUME NEW t \in Held(n) PROVE View(n, t) \in Conns /\ InUse(n, t)
      <4>1. CASE t = c
        BY <1>t, <2>7, <2>8, <4>1 DEF InUse
      <4>2. CASE t # c
        <5>1. t \in Held(r) /\ View(n, t) = View(r, t) /\ t \in Conns
          BY <2>6, <3>1, <3>2, <4>2 DEF Held
        <5>2. QED
          BY <2>8, <5>1 DEF RegistryOK, InUse
      <4>3. QED
        BY <4>1, <4>2
    <3>3. /\ \A d \in DOMAIN n.sessions : n.torn[d] = 0
          /\ \A t \in DOMAIN n.retained : n.torn[t] = 1
      BY <2>3, <2>4, <2>10 DEF RegistryOK
    <3>4. n.torn \in [Conns -> 0..1] /\ n.departing \in [Conns -> BOOLEAN]
      BY <2>10 DEF RegistryOK
    <3>5. QED
      BY <2>2, <2>9, <3>1, <3>2, <3>3, <3>4 DEF RegistryOK
  <2>12. Registers(r, n, c)
    BY <2>3, <2>4, <2>6, <2>7, <2>8, <2>10 DEF Registers, InUse
  <2>13. QED
    BY <2>11, <2>12 DEF n
<1>6. QED
  BY <1>4, <1>5

-----------------------------------------------------------------------------
(* From the registry to the state.                                         *)

(* The parts of the registry, read from it.                                *)
LEMMA RegistryParts ==
  /\ IsRegistry(Registry) /\ Registry.sessions = sessions /\ Registry.drains = drains
  /\ Registry.retained = retained /\ Registry.conns = conns /\ Registry.torn = torn
  /\ Registry.departing = departing
  BY DEF Registry, IsRegistry

(* Likewise after a step.                                                  *)
LEMMA RegistryPartsNext ==
  /\ IsRegistry(Registry') /\ Registry'.sessions = sessions' /\ Registry'.drains = drains'
  /\ Registry'.retained = retained' /\ Registry'.conns = conns' /\ Registry'.torn = torn'
  /\ Registry'.departing = departing'
  BY DEF Registry, IsRegistry

(* What the dispatcher makes of its registry is the registry.              *)
LEMMA BecomesSame ==
  ASSUME NEW n, Becomes(n), RegistryOK(n)
  PROVE  /\ RegistryOK(Registry') /\ Held(Registry') = Held(n)
         /\ \A t : View(Registry', t) = View(n, t)
         /\ \A c : InUse(Registry', c) <=> InUse(n, c)
<1>1. /\ Registry'.sessions = n.sessions /\ Registry'.drains = n.drains
      /\ Registry'.retained = n.retained /\ Registry'.conns = n.conns
      /\ Registry'.torn = n.torn /\ Registry'.departing = n.departing
  BY RegistryPartsNext DEF Becomes
<1>2. Held(Registry') = Held(n) /\ \A t : View(Registry', t) = View(n, t)
  BY <1>1 DEF Held, View
<1>3. \A c : InUse(Registry', c) <=> InUse(n, c)
  BY <1>1 DEF InUse
<1>4. RegistryOK(Registry')
  BY <1>1, <1>2, <1>3, RegistryPartsNext DEF RegistryOK
<1>5. QED
  BY <1>2, <1>3, <1>4

(* Likewise for what changed.                                              *)
LEMMA BecomesCalm ==
  ASSUME NEW n, Becomes(n), RegistryOK(n), NEW r, Calmer(r, n)
  PROVE  RegistryOK(Registry') /\ Calmer(r, Registry')
<1>1. /\ Registry'.sessions = n.sessions /\ Registry'.retained = n.retained
      /\ Registry'.conns = n.conns
      /\ Registry'.torn = n.torn /\ Registry'.departing = n.departing
  BY RegistryPartsNext DEF Becomes
<1>2. QED
  BY <1>1, BecomesSame DEF Calmer

(* Likewise for a session that is registered.                              *)
LEMMA BecomesRegistered ==
  ASSUME NEW n, Becomes(n), RegistryOK(n), NEW r, NEW c, Registers(r, n, c)
  PROVE  RegistryOK(Registry') /\ Registers(r, Registry', c)
<1>1. /\ Registry'.sessions = n.sessions /\ Registry'.retained = n.retained
      /\ Registry'.conns = n.conns
      /\ Registry'.torn = n.torn /\ Registry'.departing = n.departing
  BY RegistryPartsNext DEF Becomes
<1>2. QED
  BY <1>1, BecomesSame DEF Registers

(* A step on links and flags is calm.                                      *)
LEMMA LinksStep ==
  ASSUME Typed, UNCHANGED <<sessions, retained, torn>>, DOMAIN drains' \subseteq DOMAIN sessions,
         departing' \in [Conns -> BOOLEAN], conns' \in [Conns -> Conn],
         \A c \in Conns : /\ conns'[c].owner = conns[c].owner
                          /\ conns'[c].resume = conns[c].resume
                          /\ conns'[c].link = "none" <=> conns[c].link = "none"
                          /\ Told(conns'[c]) => Told(conns[c])
                          /\ departing[c] => departing'[c]
  PROVE  RegistryOK(Registry') /\ Calmer(Registry, Registry')
<1> DEFINE r == Registry
           n == Registry'
<1>1. /\ RegistryOK(r) /\ IsRegistry(n)
      /\ n.sessions = r.sessions /\ n.retained = r.retained /\ n.torn = r.torn
      /\ DOMAIN n.drains \subseteq DOMAIN r.sessions
      /\ n.conns = conns' /\ n.departing = departing' /\ r.conns = conns
      /\ r.departing = departing
  BY RegistryParts, RegistryPartsNext DEF Typed
<1> HIDE DEF r, n
<1>2. RegistryOK(n) /\ Calmer(r, n)
  BY <1>1, LinksCalm DEF InUse
<1>3. QED
  BY <1>2 DEF r, n

(* Likewise on one link.                                                   *)
LEMMA LinkStep ==
  ASSUME Typed, UNCHANGED <<sessions, retained, torn, drains>>, NEW c \in Conns, NEW k \in Conn,
         departing' \in [Conns -> BOOLEAN], \A d \in Conns : departing[d] => departing'[d],
         conns' = [conns EXCEPT ![c] = k],
         k.owner = conns[c].owner, k.resume = conns[c].resume,
         k.link = "none" <=> conns[c].link = "none", Told(k) => Told(conns[c])
  PROVE  RegistryOK(Registry') /\ Calmer(Registry, Registry')
<1>1. conns \in [Conns -> Conn] /\ DOMAIN drains \subseteq DOMAIN sessions
  BY RegistryParts DEF Typed, RegistryOK
<1>2. conns' \in [Conns -> Conn]
  BY <1>1
<1>3. \A d \in Conns : /\ conns'[d].owner = conns[d].owner
                       /\ conns'[d].resume = conns[d].resume
                       /\ conns'[d].link = "none" <=> conns[d].link = "none"
                       /\ Told(conns'[d]) => Told(conns[d])
  BY <1>1
<1>4. QED
  BY <1>1, <1>2, <1>3, LinksStep

(* The types and the numbering, for the state.                             *)
LEMMA SessionTypes ==
  ASSUME Typed
  PROVE  /\ conns \in [Conns -> Conn] /\ departing \in [Conns -> BOOLEAN]
         /\ torn \in [Conns -> 0..1] /\ DOMAIN sessions \subseteq Conns
         /\ DOMAIN retained \subseteq Conns /\ DOMAIN drains \subseteq DOMAIN sessions
         /\ Held(Registry) = DOMAIN sessions \cup DOMAIN retained
         /\ Held(Registry) \subseteq Used /\ Held(Registry) \subseteq Conns
         /\ \A c \in Conns : InUse(Registry, c) <=> c \in Used
<1>1. /\ conns \in [Conns -> Conn] /\ departing \in [Conns -> BOOLEAN]
      /\ torn \in [Conns -> 0..1] /\ DOMAIN sessions \subseteq Conns
      /\ DOMAIN retained \subseteq Conns /\ DOMAIN drains \subseteq DOMAIN sessions
  BY RegistryParts DEF Typed, RegistryOK
<1>2. Held(Registry) = DOMAIN sessions \cup DOMAIN retained
  BY RegistryParts DEF Held
<1>3. \A c \in Conns : InUse(Registry, c) <=> c \in Used
  BY RegistryParts DEF InUse, Used
<1>4. \A t \in Held(Registry) : InUse(Registry, t)
  BY DEF Typed, RegistryOK
<1>5. QED
  BY <1>1, <1>2, <1>3, <1>4

(* What a calm step says of the state.                                     *)
LEMMA CalmSays ==
  ASSUME Typed, RegistryOK(Registry'), Calmer(Registry, Registry')
  PROVE  /\ DOMAIN sessions' \subseteq DOMAIN sessions /\ Held(Registry') \subseteq Held(Registry)
         /\ \A t \in Held(Registry') : View(Registry', t) = View(Registry, t)
         /\ DOMAIN sessions' \subseteq Conns /\ Held(Registry') \subseteq Conns
         /\ \A c \in Conns : /\ conns'[c].owner = conns[c].owner
                             /\ conns'[c].resume = conns[c].resume
                             /\ IsPlain(c)' <=> IsPlain(c)
                             /\ c \in Used' <=> c \in Used
                             /\ Told(conns'[c]) => Told(conns[c])
                             /\ departing[c] => departing'[c]
                             /\ c \in Held(Registry) \/ torn'[c] = torn[c]
         /\ Used' = Used
<1>1. \A c \in Conns : /\ conns'[c].owner = conns[c].owner
                       /\ conns'[c].resume = conns[c].resume
                       /\ Told(conns'[c]) => Told(conns[c])
                       /\ departing[c] => departing'[c]
                       /\ c \in Held(Registry) \/ torn'[c] = torn[c]
  BY RegistryParts, RegistryPartsNext DEF Calmer
<1>2. \A c \in Conns : c \in Used' <=> c \in Used
  BY RegistryParts, RegistryPartsNext DEF Calmer, InUse, Used
<1>3. Used' = Used
  BY <1>2 DEF Used
<1>4. /\ DOMAIN sessions' \subseteq DOMAIN sessions /\ Held(Registry') \subseteq Held(Registry)
      /\ \A t \in Held(Registry') : View(Registry', t) = View(Registry, t)
  BY RegistryParts, RegistryPartsNext DEF Calmer
<1>5. DOMAIN sessions' \subseteq Conns /\ Held(Registry') \subseteq Conns
  BY <1>4, SessionTypes
<1>6. QED
  BY <1>1, <1>2, <1>3, <1>4, <1>5 DEF IsPlain

(* A step takes d events from the queue, and neither a detach whose session *)
(* stays nor the establishment of a plain one.                             *)
Takes(d) ==
    /\ d \in {0, 1} /\ d <= Len(queue)
    /\ queue' \in Seq(Event) /\ Len(queue') = Len(queue) - d
    /\ \A i \in 1..Len(queue') : queue'[i] = queue[i + d]
    /\ d = 1 => /\ queue[1].k = "detached" => queue[1].c \notin DOMAIN sessions'
                /\ queue[1].k = "established" => ~IsPlain(queue[1].c)

(* A calm step, or one that handles an event calmly.                       *)
LEMMA CalmKeeps ==
  ASSUME SessionsIInv, RegistryOK(Registry'), Calmer(Registry, Registry'), NEW d, Takes(d),
         UNCHANGED <<rd, slot>>, seen' \subseteq seen \cup {c \in Conns : Told(conns[c])}
  PROVE  UsedInv' /\ QueueInv' /\ ViewsInv' /\ SlotInv' /\ PlainInv'
<1>d. /\ d \in {0, 1} /\ d <= Len(queue)
      /\ queue' \in Seq(Event) /\ Len(queue') = Len(queue) - d
      /\ \A i \in 1..Len(queue') : queue'[i] = queue[i + d]
      /\ d = 1 => /\ queue[1].k = "detached" => queue[1].c \notin DOMAIN sessions'
                  /\ queue[1].k = "established" => ~IsPlain(queue[1].c)
  BY DEF Takes
<1>0. Typed /\ UsedInv /\ QueueInv /\ ViewsInv /\ SlotInv /\ PlainInv
  BY DEF SessionsIInv
<1>1. /\ DOMAIN sessions' \subseteq DOMAIN sessions /\ Held(Registry') \subseteq Held(Registry)
      /\ \A t \in Held(Registry') : View(Registry', t) = View(Registry, t)
      /\ DOMAIN sessions' \subseteq Conns /\ Held(Registry') \subseteq Conns
      /\ \A c \in Conns : /\ IsPlain(c)' <=> IsPlain(c)
                          /\ Told(conns'[c]) => Told(conns[c])
                          /\ c \in Held(Registry) \/ torn'[c] = torn[c]
      /\ Used' = Used
  BY <1>0, CalmSays
<1>q. /\ Len(queue) \in Nat /\ Len(queue') \in Nat /\ d \in Nat /\ (d = 0 \/ d = 1)
      /\ Len(queue') = Len(queue) - d
  <2>1. queue \in Seq(Event)
    BY <1>0 DEF Typed
  <2>2. QED
    BY <1>d, <2>1
<1>c. \A i \in 1..Len(queue) : queue[i].c \in Conns
  <2>1. queue \in Seq(Event)
    BY <1>0 DEF Typed
  <2>2. \A i \in 1..Len(queue) : queue[i] \in Event
    BY <2>1
  <2>3. QED
    BY <2>2 DEF Event
<1>s. /\ DOMAIN sessions \subseteq Conns /\ Held(Registry) = DOMAIN sessions \cup DOMAIN retained
      /\ Held(Registry) \subseteq Used
  BY <1>0, SessionTypes
<1>i. \A i \in 1..Len(queue') : i + d \in 1..Len(queue)
  BY <1>q
<1>2. UsedInv'
  <2>1. \E n \in 0..MaxConns : Used' = 1..n
    BY <1>0, <1>1 DEF UsedInv
  <2>2. ASSUME NEW c \in Conns, \/ rd'[c] # "none" \/ torn'[c] = 1 \/ slot' = c \/ c \in seen'
                                \/ Told(conns'[c])
        PROVE  c \in Used'
    BY <1>0, <1>1, <1>s, <2>2 DEF UsedInv
  <2>3. \A t \in Held(Registry') : View(Registry', t) \in Used'
    BY <1>0, <1>1 DEF UsedInv
  <2>4. \A i \in 1..Len(queue') : queue'[i].c \in Used'
    BY <1>d, <1>0, <1>1, <1>i DEF UsedInv
  <2>5. QED
    BY <2>1, <2>2, <2>3, <2>4 DEF UsedInv
<1>3. QueueInv'
  <2>1. ASSUME NEW i \in 1..Len(queue'), queue'[i].k = "established"
        PROVE  /\ queue'[i].c \notin Held(Registry') /\ torn'[queue'[i].c] = 0
               /\ \A t \in Held(Registry') : View(Registry', t) # queue'[i].c
               /\ ~Told(conns'[queue'[i].c]) /\ queue'[i].c \notin seen'
               /\ \A j \in 1..Len(queue') : queue'[j].c = queue'[i].c => i <= j
    <3> DEFINE c == queue'[i].c
    <3>1. i + d \in 1..Len(queue) /\ queue[i + d].k = "established" /\ queue[i + d].c = c
          /\ c \in Conns
      BY <1>d, <1>i, <1>c, <2>1
    <3>2. /\ c \notin Held(Registry) /\ torn[c] = 0
          /\ \A t \in Held(Registry) : View(Registry, t) # c
          /\ ~Told(conns[c]) /\ c \notin seen
          /\ \A j \in 1..Len(queue) : queue[j].c = c => i + d <= j
      BY <1>0, <3>1 DEF QueueInv
    <3>3. ASSUME NEW j \in 1..Len(queue'), queue'[j].c = c PROVE i <= j
      <4>1. j + d \in 1..Len(queue) /\ queue[j + d].c = c
        BY <1>d, <1>i, <3>3
      <4>2. i + d <= j + d
        BY <3>2, <4>1
      <4>3. QED
        BY <1>q, <4>2
    <3> HIDE DEF c
    <3>4. /\ c \notin Held(Registry') /\ torn'[c] = 0
          /\ \A t \in Held(Registry') : View(Registry', t) # c
          /\ ~Told(conns'[c]) /\ c \notin seen'
      BY <1>1, <3>1, <3>2
    <3>5. QED
      BY <3>3, <3>4 DEF c
  <2>2. QED
    BY <2>1 DEF QueueInv
<1>4. ViewsInv'
  BY <1>0, <1>1 DEF ViewsInv
<1>5. SlotInv'
  BY <1>0, <1>1 DEF SlotInv
<1>6. PlainInv'
  <2>1. ASSUME NEW c \in DOMAIN sessions', NEW b \in Nat, Detaches(c, 0, b + d)
        PROVE  Detaches(c, 0, b)'
    <3>1. PICK k \in 1..Len(queue) : queue[k].k = "detached" /\ queue[k].c = c /\ k < b + d
      BY <2>1 DEF Detaches
    <3>2. d < k
      BY <1>d, <3>1, <1>q
    <3>3. k - d \in 1..Len(queue') /\ queue'[k - d] = queue[k] /\ k - d < b /\ 0 < k - d
      <4>1. k - d \in 1..Len(queue') /\ k - d < b /\ 0 < k - d /\ (k - d) + d = k
        BY <1>q, <3>1, <3>2
      <4>2. QED
        BY <1>d, <4>1
    <3>4. QED
      BY <3>1, <3>3 DEF Detaches
  <2>2. ASSUME NEW c, NEW a \in Nat, NEW b \in Nat, Detaches(c, a + d, b + d)
        PROVE  Detaches(c, a, b)'
    <3>1. PICK k \in 1..Len(queue) : queue[k].k = "detached" /\ queue[k].c = c
                                     /\ a + d < k /\ k < b + d
      BY <2>2 DEF Detaches
    <3>2. k - d \in 1..Len(queue') /\ k - d < b /\ a < k - d /\ (k - d) + d = k
      BY <1>q, <3>1
    <3>3. queue'[k - d] = queue[k]
      BY <1>d, <3>2
    <3>4. QED
      BY <3>1, <3>2, <3>3 DEF Detaches
  <2>3. \A c, e \in DOMAIN sessions' : IsPlain(c)' /\ IsPlain(e)' => c = e
    BY <1>0, <1>1 DEF PlainInv
  <2>4. ASSUME NEW c \in DOMAIN sessions', IsPlain(c)', rd'[c] # "reading"
        PROVE  Detaches(c, 0, Len(queue) + 1)'
    <3>1. Detaches(c, 0, Len(queue) + 1)
      BY <1>0, <1>1, <2>4 DEF PlainInv
    <3>2. Len(queue) + 1 = (Len(queue') + 1) + d /\ Len(queue') + 1 \in Nat
      BY <1>q
    <3>3. QED
      BY <2>1, <3>1, <3>2
  <2>5. ASSUME NEW i \in 1..Len(queue'), Establishes(i)'
        PROVE  /\ i + d \in 1..Len(queue) /\ Establishes(i + d) /\ queue'[i].c = queue[i + d].c
               /\ i \in Nat
    <3>1. i + d \in 1..Len(queue) /\ i \in Nat /\ queue'[i] = queue[i + d]
      BY <1>d, <1>i
    <3>2. queue'[i].k = "established" /\ conns'[queue'[i].c].owner = Plain
      BY <2>5 DEF Establishes, IsPlain
    <3>3. queue'[i].c \in Conns
      BY <1>c, <3>1
    <3>4. IsPlain(queue[i + d].c)
      BY <1>1, <3>1, <3>2, <3>3 DEF IsPlain
    <3>5. QED
      BY <3>1, <3>2, <3>4 DEF Establishes
  <2>6. ASSUME NEW i \in 1..Len(queue'), Establishes(i)', rd'[queue'[i].c] # "reading"
        PROVE  Detaches(queue[i].c, 0, Len(queue) + 1)'
    <3> DEFINE c == queue'[i].c
    <3>1. i + d \in 1..Len(queue) /\ Establishes(i + d) /\ c = queue[i + d].c
      BY <2>5, <2>6
    <3>2. Detaches(c, 0, Len(queue) + 1)
      BY <1>0, <2>6, <3>1 DEF PlainInv
    <3>3. PICK k \in 1..Len(queue) : queue[k].k = "detached" /\ queue[k].c = c
      BY <3>2 DEF Detaches
    <3>4. i + d <= k /\ d < k
      <4>1. queue[i + d].k = "established"
        BY <3>1 DEF Establishes
      <4>2. i + d <= k
        BY <1>0, <3>1, <3>3, <4>1 DEF QueueInv
      <4>3. QED
        BY <1>q, <4>2
    <3>5. k - d \in 1..Len(queue') /\ (k - d) + d = k /\ 0 < k - d /\ k - d < Len(queue') + 1
      BY <1>q, <3>3, <3>4
    <3>6. queue'[k - d] = queue[k]
      BY <1>d, <3>5
    <3> HIDE DEF c
    <3>7. \E m \in 1..Len(queue') : queue'[m].k = "detached" /\ queue'[m].c = c
                                     /\ 0 < m /\ m < Len(queue') + 1
      BY <3>3, <3>5, <3>6
    <3>8. QED
      BY <3>7 DEF Detaches, c
  <2>7. ASSUME NEW i \in 1..Len(queue'), Establishes(i)', NEW e \in DOMAIN sessions', IsPlain(e)'
        PROVE  Detaches(e, 0, i)'
    <3>1. i + d \in 1..Len(queue) /\ Establishes(i + d) /\ i \in Nat
      BY <2>5, <2>7
    <3>2. Detaches(e, 0, i + d)
      BY <1>0, <1>1, <2>7, <3>1 DEF PlainInv
    <3>3. QED
      BY <2>1, <3>1, <3>2
  <2>8. ASSUME NEW i \in 1..Len(queue'), NEW k \in 1..Len(queue'), k < i,
               Establishes(i)', Establishes(k)'
        PROVE  Detaches(queue[k].c, k, i)'
    <3>1. /\ i + d \in 1..Len(queue) /\ Establishes(i + d) /\ i \in Nat
          /\ k + d \in 1..Len(queue) /\ Establishes(k + d) /\ k \in Nat
          /\ queue'[k] = queue[k + d]
      BY <1>d, <2>5, <2>8
    <3>2. k + d < i + d
      BY <1>q, <2>8, <3>1
    <3>3. Detaches(queue[k + d].c, k + d, i + d)
      BY <1>0, <3>1, <3>2 DEF PlainInv
    <3> DEFINE c == queue[k + d].c
    <3>4. queue'[k].c = c
      BY <3>1
    <3> HIDE DEF c
    <3>5. Detaches(c, k + d, i + d)
      BY <3>3 DEF c
    <3>6. \E m \in 1..Len(queue') : queue'[m].k = "detached" /\ queue'[m].c = c /\ k < m /\ m < i
      <4>1. PICK m \in 1..Len(queue) : queue[m].k = "detached" /\ queue[m].c = c
                                       /\ k + d < m /\ m < i + d
        BY <3>5 DEF Detaches
      <4>2. m - d \in 1..Len(queue') /\ m - d < i /\ k < m - d /\ (m - d) + d = m
        BY <1>q, <3>1, <4>1
      <4>3. queue'[m - d] = queue[m]
        BY <1>d, <4>2
      <4>4. QED
        BY <4>1, <4>2, <4>3
    <3>7. QED
      BY <3>4, <3>6 DEF Detaches
  <2>9. QED
    BY <2>3, <2>4, <2>6, <2>7, <2>8 DEF PlainInv
<1>7. QED
  BY <1>2, <1>3, <1>4, <1>5, <1>6

(* The windows and what they were given, over a calm step that leaves them *)
(* alone.                                                                  *)
LEMMA CalmWindows ==
  ASSUME SessionsIInv, RegistryOK(Registry'), Calmer(Registry, Registry'), UNCHANGED <<win, seen>>
  PROVE  WindowInv'
<1>0. Typed /\ WindowInv
  BY DEF SessionsIInv
<1>1. /\ Held(Registry') \subseteq Held(Registry)
      /\ \A c \in Conns : /\ conns'[c].owner = conns[c].owner
                          /\ conns'[c].resume = conns[c].resume
                          /\ Told(conns'[c]) => Told(conns[c])
      /\ Used' = Used /\ Used \subseteq Conns
  BY <1>0, CalmSays DEF Used
<1>2. seen \subseteq Conns
  BY <1>0 DEF Typed
<1>3. \A w \in Gui : win'[w].token # NoConn =>
            /\ win'[w].token \in seen' /\ conns'[win'[w].token].owner = w
            /\ win'[w].st # "new"
  BY <1>0, <1>1, <1>2 DEF WindowInv
<1>4. \A w \in Gui : win'[w].st \in {"live", "pending"} =>
            /\ win'[w].conn \in Used' /\ conns'[win'[w].conn].owner = w
            /\ win'[w].token \in {win'[w].conn, conns'[win'[w].conn].resume}
  BY <1>0, <1>1, <1>2 DEF WindowInv
<1>5. \A c \in Conns : conns'[c].resume # NoConn =>
            /\ conns'[c].resume \in seen' /\ conns'[c].owner \in Gui
            /\ conns'[conns'[c].resume].owner = conns'[c].owner
  BY <1>0, <1>1, <1>2 DEF WindowInv
<1>6. \A c \in Conns : Told(conns'[c]) =>
            conns'[c].owner \in Gui /\ conns'[c].resume \notin Held(Registry')
  BY <1>0, <1>1 DEF WindowInv
<1>7. \A c \in seen' : conns'[c].owner \in Gui
  BY <1>0, <1>1, <1>2 DEF WindowInv
<1>8. \A c \in seen' \cap Held(Registry') :
            win'[conns'[c].owner].st = "closed" \/ win'[conns'[c].owner].token = c
  BY <1>0, <1>1, <1>2 DEF WindowInv
<1>9. \A s, t \in seen' \cap Held(Registry') : conns'[s].owner = conns'[t].owner => s = t
  BY <1>0, <1>1, <1>2 DEF WindowInv
<1>10. QED
  BY <1>3, <1>4, <1>5, <1>6, <1>7, <1>8, <1>9 DEF WindowInv

(* A step of a link or of the dispatcher that handles no event keeps the   *)
(* invariant.                                                              *)
LEMMA QuietStep ==
  ASSUME SessionsIInv, RegistryOK(Registry'), Calmer(Registry, Registry'),
         UNCHANGED <<rd, slot, queue, up, quit, win, seen, said>>
  PROVE  SessionsIInv'
<1>0. Typed /\ DepartedInv
  BY DEF SessionsIInv
<1>1. UsedInv' /\ QueueInv' /\ ViewsInv' /\ SlotInv' /\ PlainInv'
  <2>1. queue \in Seq(Event)
    BY <1>0 DEF Typed
  <2>2. Takes(0)
    BY <2>1 DEF Takes
  <2>3. QED
    BY <2>2, CalmKeeps
<1>2. WindowInv'
  BY CalmWindows
<1>3. Typed'
  BY <1>0 DEF Typed
<1>4. DepartedInv'
  <2>1. said \subseteq Conns
    BY <1>0 DEF Typed
  <2>2. QED
    BY <1>0, <2>1, CalmSays DEF DepartedInv
<1>5. QED
  BY <1>1, <1>2, <1>3, <1>4 DEF SessionsIInv

-----------------------------------------------------------------------------
(* The links.                                                              *)

(* A link that breaks.                                                     *)
LEMMA CutKeeps ==
  ASSUME SessionsIInv, NEW c \in Conns, Cut(c)
  PROVE  SessionsIInv'
<1>0. Typed /\ conns \in [Conns -> Conn] /\ departing \in [Conns -> BOOLEAN]
  BY SessionTypes DEF SessionsIInv
<1>1. PICK i \in {<<>>, conns[c].in}, o \in {<<>>, conns[c].out} :
          conns' = [conns EXCEPT ![c].link = "cut", ![c].in = i, ![c].out = o]
  BY DEF Cut
<1> DEFINE b == conns[c]
           k == [b EXCEPT !.link = "cut", !.in = i, !.out = o]
<1>2. b \in Conn /\ b.link # "none" /\ i \in {<<>>, b.in} /\ o \in {<<>>, b.out}
  BY <1>0, <1>1 DEF Cut
<1>3. conns' = [conns EXCEPT ![c] = k]
  BY <1>0, <1>1
<1>4. k \in Conn /\ k.owner = b.owner /\ k.resume = b.resume /\ k.link # "none"
      /\ (Told(k) => Told(b))
  <2> HIDE DEF b
  <2>1. i \in Seq({"detach", "leave", "stop"}) /\ o \in Seq({"token", "detached", "shutting"})
    <3>1. <<>> \in Seq({"detach", "leave", "stop"}) /\ <<>> \in Seq({"token", "detached", "shutting"})
      OBVIOUS
    <3>2. b.in \in Seq({"detach", "leave", "stop"}) /\ b.out \in Seq({"token", "detached", "shutting"})
      BY <1>2 DEF Conn
    <3>3. QED
      BY <1>2, <3>1, <3>2
  <2>2. k \in Conn /\ k.owner = b.owner /\ k.resume = b.resume /\ k.link = "cut" /\ k.out = o
    BY <1>2, <2>1 DEF Conn
  <2>3. Told(k) => Told(b)
    BY <1>2, <2>2 DEF Told
  <2>4. QED
    BY <2>2, <2>3
<1> HIDE DEF k
<1>5. UNCHANGED <<departing, sessions, retained, torn, drains>>
      /\ UNCHANGED <<rd, slot, queue, up, quit, win, seen, said>>
  BY DEF Cut, daemonVars
<1>6. RegistryOK(Registry') /\ Calmer(Registry, Registry')
  <2>1. departing' \in [Conns -> BOOLEAN] /\ \A d \in Conns : departing[d] => departing'[d]
    BY <1>0, <1>5
  <2>2. QED
    BY <1>0, <1>2, <1>3, <1>4, <1>5, <2>1, LinkStep
<1>7. QED
  BY <1>5, <1>6, QuietStep

(* A link that is closed for one direction.                                *)
LEMMA HalfCloseKeeps ==
  ASSUME SessionsIInv, NEW c \in Conns, HalfClose(c)
  PROVE  SessionsIInv'
<1>0. Typed /\ conns \in [Conns -> Conn] /\ departing \in [Conns -> BOOLEAN]
  BY SessionTypes DEF SessionsIInv
<1>1. PICK o \in {<<>>, conns[c].out} :
          conns' = [conns EXCEPT ![c].link = "half", ![c].out = o]
  BY DEF HalfClose
<1> DEFINE b == conns[c]
           k == [b EXCEPT !.link = "half", !.out = o]
<1>2. b \in Conn /\ b.link # "none" /\ o \in {<<>>, b.out}
  BY <1>0, <1>1 DEF HalfClose
<1>3. conns' = [conns EXCEPT ![c] = k]
  BY <1>0, <1>1
<1>4. k \in Conn /\ k.owner = b.owner /\ k.resume = b.resume /\ k.link # "none"
      /\ (Told(k) => Told(b))
  <2> HIDE DEF b
  <2>1. o \in Seq({"token", "detached", "shutting"})
    <3>1. <<>> \in Seq({"token", "detached", "shutting"})
      OBVIOUS
    <3>2. b.out \in Seq({"token", "detached", "shutting"})
      BY <1>2 DEF Conn
    <3>3. QED
      BY <1>2, <3>1, <3>2
  <2>2. k \in Conn /\ k.owner = b.owner /\ k.resume = b.resume /\ k.link = "half" /\ k.out = o
    BY <1>2, <2>1 DEF Conn
  <2>3. Told(k) => Told(b)
    BY <1>2, <2>2 DEF Told
  <2>4. QED
    BY <2>2, <2>3
<1> HIDE DEF k
<1>5. UNCHANGED <<departing, sessions, retained, torn, drains>>
      /\ UNCHANGED <<rd, slot, queue, up, quit, win, seen, said>>
  BY DEF HalfClose, daemonVars
<1>6. RegistryOK(Registry') /\ Calmer(Registry, Registry')
  <2>1. departing' \in [Conns -> BOOLEAN] /\ \A d \in Conns : departing[d] => departing'[d]
    BY <1>0, <1>5
  <2>2. QED
    BY <1>0, <1>2, <1>3, <1>4, <1>5, <2>1, LinkStep
<1>7. QED
  BY <1>5, <1>6, QuietStep

(* A drain whose deadline passes.                                          *)
LEMMA DrainPassesKeeps ==
  ASSUME SessionsIInv, NEW c \in Conns, DrainPasses(c)
  PROVE  SessionsIInv'
<1>0. Typed
  BY DEF SessionsIInv
<1>1. UNCHANGED <<conns, departing, sessions, retained, torn>> /\ DOMAIN drains' = DOMAIN drains
      /\ UNCHANGED <<rd, slot, queue, up, quit, win, seen, said>>
  BY DEF DrainPasses
<1>2. RegistryOK(Registry') /\ Calmer(Registry, Registry')
  <2>1. /\ conns \in [Conns -> Conn] /\ departing \in [Conns -> BOOLEAN]
        /\ DOMAIN drains \subseteq DOMAIN sessions
    BY <1>0, SessionTypes
  <2>2. /\ DOMAIN drains' \subseteq DOMAIN sessions /\ conns' \in [Conns -> Conn]
        /\ departing' \in [Conns -> BOOLEAN]
        /\ \A d \in Conns : /\ conns'[d].owner = conns[d].owner
                            /\ conns'[d].resume = conns[d].resume
                            /\ conns'[d].link = "none" <=> conns[d].link = "none"
                            /\ Told(conns'[d]) => Told(conns[d])
                            /\ departing[d] => departing'[d]
    BY <1>1, <2>1
  <2>3. UNCHANGED <<sessions, retained, torn>>
    BY <1>1
  <2>4. QED
    BY <1>0, <2>2, <2>3, LinksStep
<1>3. QED
  BY <1>1, <1>2, QuietStep

-----------------------------------------------------------------------------
(* The windows.                                                            *)

(* A step of a window leaves the daemon's own state alone.                 *)
LEMMA WindowStep ==
  ASSUME SessionsIInv, RegistryOK(Registry'), Calmer(Registry, Registry'),
         UNCHANGED <<rd, slot, queue, up, quit, said>>,
         win' \in [Gui -> Win], seen' \subseteq seen \cup {c \in Conns : Told(conns[c])},
         \A w \in Gui : win'[w].st \in {"lost", "pending"} => win'[w].failed < AttemptCap,
         WindowInv'
  PROVE  SessionsIInv'
<1>0. Typed /\ DepartedInv
  BY DEF SessionsIInv
<1>1. UsedInv' /\ QueueInv' /\ ViewsInv' /\ SlotInv' /\ PlainInv'
  <2>1. queue \in Seq(Event)
    BY <1>0 DEF Typed
  <2>2. Takes(0)
    BY <2>1 DEF Takes
  <2>3. QED
    BY <2>2, CalmKeeps
<1>2. seen' \subseteq Conns
  BY <1>0 DEF Typed
<1>3. Typed'
  BY <1>0, <1>2 DEF Typed
<1>4. DepartedInv'
  <2>1. said \subseteq Conns
    BY <1>0 DEF Typed
  <2>2. QED
    BY <1>0, <2>1, CalmSays DEF DepartedInv
<1>5. QED
  BY <1>1, <1>3, <1>4 DEF SessionsIInv

(* A window that changes but reads no token keeps what was given, unless   *)
(* it is closed.                                                           *)
LEMMA WindowChanges ==
  ASSUME SessionsIInv, RegistryOK(Registry'), Calmer(Registry, Registry'),
         UNCHANGED <<rd, slot, queue, up, quit, said, seen>>,
         NEW w \in Gui, NEW v \in Win, win' = [win EXCEPT ![w] = v], win[w].st # "closed",
         v.st \in {"lost", "pending"} => v.failed < AttemptCap, v.st # "new",
         \/ v.st = "closed" /\ v.token = NoConn
         \/ /\ v.token = win[w].token /\ v.conn = win[w].conn
            /\ v.st = win[w].st \/ v.st \notin {"live", "pending"}
  PROVE  SessionsIInv'
<1>0. Typed /\ WindowInv /\ win \in [Gui -> Win] /\ seen \subseteq Conns
  BY DEF SessionsIInv, Typed
<1>1. /\ Held(Registry') \subseteq Held(Registry)
      /\ \A c \in Conns : /\ conns'[c].owner = conns[c].owner
                          /\ conns'[c].resume = conns[c].resume
                          /\ Told(conns'[c]) => Told(conns[c])
      /\ Used' = Used /\ Used \subseteq Conns
  BY <1>0, CalmSays DEF Used
<1>w. win' \in [Gui -> Win] /\ win'[w] = v /\ \A x \in Gui : x # w => win'[x] = win[x]
  BY <1>0
<1>f. \A x \in Gui : win'[x].st \in {"lost", "pending"} => win'[x].failed < AttemptCap
  BY <1>0, <1>w DEF Typed
<1>3. \A x \in Gui : win'[x].token # NoConn =>
            /\ win'[x].token \in seen' /\ conns'[win'[x].token].owner = x
            /\ win'[x].st # "new"
  BY <1>0, <1>1, <1>w DEF WindowInv
<1>4. \A x \in Gui : win'[x].st \in {"live", "pending"} =>
            /\ win'[x].conn \in Used' /\ conns'[win'[x].conn].owner = x
            /\ win'[x].token \in {win'[x].conn, conns'[win'[x].conn].resume}
  BY <1>0, <1>1, <1>w DEF WindowInv
<1>5. \A c \in Conns : conns'[c].resume # NoConn =>
            /\ conns'[c].resume \in seen' /\ conns'[c].owner \in Gui
            /\ conns'[conns'[c].resume].owner = conns'[c].owner
  BY <1>0, <1>1 DEF WindowInv
<1>6. \A c \in Conns : Told(conns'[c]) =>
            conns'[c].owner \in Gui /\ conns'[c].resume \notin Held(Registry')
  BY <1>0, <1>1 DEF WindowInv
<1>7. \A c \in seen' : conns'[c].owner \in Gui
  BY <1>0, <1>1 DEF WindowInv
<1>8. \A c \in seen' \cap Held(Registry') :
            win'[conns'[c].owner].st = "closed" \/ win'[conns'[c].owner].token = c
  BY <1>0, <1>1, <1>w DEF WindowInv
<1>9. \A s, t \in seen' \cap Held(Registry') : conns'[s].owner = conns'[t].owner => s = t
  BY <1>0, <1>1 DEF WindowInv
<1>10. WindowInv'
  BY <1>3, <1>4, <1>5, <1>6, <1>7, <1>8, <1>9 DEF WindowInv
<1>11. seen' \subseteq seen \cup {c \in Conns : Told(conns[c])}
  OBVIOUS
<1>12. QED
  BY <1>10, <1>11, <1>f, <1>w, WindowStep

(* An attempt that fails, of a window in one of its states.                *)
LEMMA FailedShape ==
  ASSUME NEW v \in Win, v.failed < AttemptCap
  PROVE  /\ Failed(v) \in Win /\ Failed(v).token = v.token /\ Failed(v).conn = v.conn
         /\ Failed(v).st \in {"capped", "lost"}
         /\ Failed(v).st = "lost" => Failed(v).failed < AttemptCap
<1>1. AttemptCap \in Nat
  BY SessionsAssumption
<1>2. v.failed + 1 \in 0..AttemptCap
  BY <1>1 DEF Win
<1> DEFINE f == v.failed + 1
           t == IF v.failed + 1 >= AttemptCap THEN "capped" ELSE "lost"
<1>3. Failed(v) = [v EXCEPT !.failed = f, !.bye = "none", !.st = t]
  BY DEF Failed, Win
<1>4. f \in 0..AttemptCap /\ t \in {"capped", "lost"} /\ (t = "lost" => f < AttemptCap)
  BY <1>1, <1>2 DEF Win
<1> HIDE DEF f, t
<1>5. QED
  BY <1>3, <1>4 DEF Win

(* An attempt that fails.                                                  *)
LEMMA AttemptFailsKeeps ==
  ASSUME SessionsIInv, NEW w \in Gui, AttemptFails(w)
  PROVE  SessionsIInv'
<1>0. Typed /\ win \in [Gui -> Win] /\ win[w].st = "lost"
  BY DEF SessionsIInv, Typed, AttemptFails
<1>1. UNCHANGED <<rd, slot, queue, up, quit, said, seen>>
      /\ UNCHANGED <<conns, sessions, drains, retained, torn, departing>>
  BY DEF AttemptFails, daemonVars
<1>2. RegistryOK(Registry') /\ Calmer(Registry, Registry')
  <2>1. Registry' = Registry
    BY <1>1 DEF Registry
  <2>2. QED
    BY <1>0, <2>1, CalmerSame DEF Typed
<1>3. win' = [win EXCEPT ![w] = Failed(win[w])]
  BY <1>0 DEF AttemptFails
<1>4. win[w] \in Win /\ win[w].failed < AttemptCap
  BY <1>0 DEF Typed
<1> DEFINE v == Failed(win[w])
<1>5. /\ v \in Win /\ v.token = win[w].token /\ v.conn = win[w].conn
      /\ v.st \in {"capped", "lost"} /\ (v.st = "lost" => v.failed < AttemptCap)
  BY <1>4, FailedShape
<1>6. win' = [win EXCEPT ![w] = v]
  BY <1>3
<1> HIDE DEF v
<1>7. QED
  BY <1>0, <1>1, <1>2, <1>5, <1>6, WindowChanges

(* A window that reads the end of its socket.                              *)
LEMMA HangupKeeps ==
  ASSUME SessionsIInv, NEW w \in Gui, Hangup(w)
  PROVE  SessionsIInv'
<1>0. Typed /\ win \in [Gui -> Win] /\ win[w].st \in {"live", "pending"}
  BY DEF SessionsIInv, Typed, Hangup
<1>1. UNCHANGED <<rd, slot, queue, up, quit, said, seen>>
      /\ UNCHANGED <<conns, sessions, drains, retained, torn, departing>>
  BY DEF Hangup, daemonVars
<1>2. RegistryOK(Registry') /\ Calmer(Registry, Registry')
  <2>1. Registry' = Registry
    BY <1>1 DEF Registry
  <2>2. QED
    BY <1>0, <2>1, CalmerSame DEF Typed
<1> DEFINE u == win[w]
           v == IF u.st = "pending" THEN Failed(u)
                ELSE CASE u.bye = "detached" -> Window("closed")
                       [] u.bye = "shutting" -> [u EXCEPT !.st = "told"]
                       [] OTHER -> [u EXCEPT !.st = "lost", !.failed = 0]
<1>3. win' = [win EXCEPT ![w] = v]
  BY <1>0 DEF Hangup
<1>4. u \in Win /\ (u.st = "pending" => u.failed < AttemptCap) /\ u.st \in {"live", "pending"}
  BY <1>0 DEF Typed
<1>5. /\ v \in Win /\ (v.st \in {"lost", "pending"} => v.failed < AttemptCap)
      /\ \/ v.st = "closed" /\ v.token = NoConn
         \/ v.token = u.token /\ v.conn = u.conn /\ v.st \in {"told", "lost", "capped"}
  <2> HIDE DEF u
  <2>1. AttemptCap \in Nat \ {0} /\ MaxConns \in Nat
    BY SessionsAssumption
  <2>2. CASE u.st = "pending"
    <3>1. v = Failed(u)
      BY <2>2
    <3> HIDE DEF v
    <3>2. QED
      BY <1>4, <2>2, <3>1, FailedShape
  <2>4. CASE u.st # "pending" /\ u.bye = "detached"
    <3>1. v = Window("closed")
      BY <2>4
    <3> HIDE DEF v
    <3>2. 0 \in 0..MaxConns /\ 0 \in 0..AttemptCap
      BY <2>1
    <3>3. QED
      BY <3>1, <3>2 DEF Window, Win, NoConn
  <2>5. CASE u.st # "pending" /\ u.bye # "detached" /\ u.bye = "shutting"
    <3>1. v = [u EXCEPT !.st = "told"]
      BY <2>5
    <3> HIDE DEF v
    <3>2. QED
      BY <1>4, <3>1 DEF Win
  <2>6. CASE u.st # "pending" /\ u.bye # "detached" /\ u.bye # "shutting"
    <3>1. v = [u EXCEPT !.st = "lost", !.failed = 0]
      BY <2>6
    <3> HIDE DEF v
    <3>2. 0 \in 0..AttemptCap /\ 0 < AttemptCap
      BY <2>1
    <3>3. QED
      BY <1>4, <3>1, <3>2 DEF Win
  <2>7. QED
    BY <2>2, <2>4, <2>5, <2>6
<1> HIDE DEF v
<1>6. \/ v.st = "closed" /\ v.token = NoConn
      \/ /\ v.token = win[w].token /\ v.conn = win[w].conn
         /\ v.st = win[w].st \/ v.st \notin {"live", "pending"}
  BY <1>5
<1>7. v \in Win /\ (v.st \in {"lost", "pending"} => v.failed < AttemptCap) /\ win[w].st # "closed"
      /\ v.st # "new"
  BY <1>4, <1>5
<1> HIDE DEF u
<1>8. QED
  BY <1>1, <1>2, <1>3, <1>6, <1>7, WindowChanges

(* A window that is closed.                                                *)
LEMMA CloseKeeps ==
  ASSUME SessionsIInv, NEW w \in Gui, Close(w)
  PROVE  SessionsIInv'
<1> DEFINE c == win[w].conn
<1>0. Typed /\ UsedInv /\ WindowInv /\ win \in [Gui -> Win]
      /\ conns \in [Conns -> Conn] /\ departing \in [Conns -> BOOLEAN]
  BY SessionTypes DEF SessionsIInv, Typed
<1>1. UNCHANGED <<rd, slot, queue, up, quit, said, seen>>
      /\ UNCHANGED <<sessions, drains, retained, torn, departing>>
  BY DEF Close, daemonVars
<1>d. departing' \in [Conns -> BOOLEAN] /\ \A d \in Conns : departing[d] => departing'[d]
  BY <1>0, <1>1
<1>2. RegistryOK(Registry') /\ Calmer(Registry, Registry')
  <2>1. CASE conns' = conns
    <3>1. Registry' = Registry
      BY <1>1, <2>1 DEF Registry
    <3>2. QED
      BY <1>0, <3>1, CalmerSame DEF Typed
  <2>2. CASE win[w].st \in {"live", "pending"} /\ conns[c].link \in {"up", "half"}
    <3> DEFINE b == conns[c]
               i == IF win[w].st = "live" THEN Append(b.in, "detach") ELSE b.in
               k == [b EXCEPT !.link = "cut", !.out = <<>>, !.in = i]
    <3>1. c \in Conns
      BY <1>0, <2>2 DEF WindowInv, Used
    <3>2. b \in Conn /\ b.link # "none" /\ conns' = [conns EXCEPT ![c] = k]
      BY <1>0, <2>2, <3>1 DEF Close
    <3>3. i \in Seq({"detach", "leave", "stop"}) /\ <<>> \in Seq({"token", "detached", "shutting"})
      <4>1. b.in \in Seq({"detach", "leave", "stop"})
        BY <3>2 DEF Conn
      <4>2. Append(b.in, "detach") \in Seq({"detach", "leave", "stop"})
        BY <4>1
      <4>3. <<>> \in Seq({"token", "detached", "shutting"})
        OBVIOUS
      <4>4. QED
        BY <4>1, <4>2, <4>3
    <3>4. k \in Conn /\ k.owner = b.owner /\ k.resume = b.resume /\ k.link # "none"
          /\ (Told(k) => Told(b))
      <4> HIDE DEF b, i
      <4>1. k \in Conn /\ k.owner = b.owner /\ k.resume = b.resume /\ k.link = "cut"
            /\ k.out = <<>>
        BY <3>2, <3>3 DEF Conn
      <4>2. QED
        BY <4>1 DEF Told
    <3> HIDE DEF k, c
    <3>5. QED
      BY <1>0, <1>1, <1>d, <3>1, <3>2, <3>4, LinkStep
  <2>3. QED
    BY <2>1, <2>2 DEF Close
<1>3. win' = [win EXCEPT ![w] = Window("closed")] /\ win[w].st # "closed"
  BY DEF Close
<1> DEFINE v == Window("closed")
<1>4. v \in Win /\ v.st = "closed" /\ v.token = NoConn
  <2>1. 0 \in 0..MaxConns /\ 0 \in 0..AttemptCap
    BY SessionsAssumption
  <2>2. QED
    BY <2>1 DEF Window, Win, NoConn
<1>5. win' = [win EXCEPT ![w] = v]
  BY <1>3
<1> HIDE DEF v, c
<1>6. QED
  BY <1>1, <1>2, <1>3, <1>4, <1>5, WindowChanges

(* A frontend's own quit, on its way.                                      *)
LEMMA AskToLeaveKeeps ==
  ASSUME SessionsIInv, NEW w \in Gui, AskToLeave(w)
  PROVE  SessionsIInv'
<1> DEFINE c == win[w].conn
           b == conns[c]
           i == Append(b.in, "leave")
           k == [b EXCEPT !.in = i]
<1>0. Typed /\ UsedInv /\ WindowInv /\ win \in [Gui -> Win]
      /\ conns \in [Conns -> Conn] /\ departing \in [Conns -> BOOLEAN]
  BY SessionTypes DEF SessionsIInv, Typed
<1>1. UNCHANGED <<rd, slot, queue, up, quit, win, said, seen>>
      /\ UNCHANGED <<sessions, drains, retained, torn, departing>>
  BY DEF AskToLeave, daemonVars
<1>2. c \in Conns
  BY <1>0 DEF WindowInv, Used, AskToLeave
<1>3. b \in Conn /\ b.link # "none" /\ conns' = [conns EXCEPT ![c] = k]
  BY <1>0, <1>2 DEF AskToLeave
<1>4. k \in Conn /\ k.owner = b.owner /\ k.resume = b.resume /\ k.link # "none"
      /\ (Told(k) => Told(b))
  <2>1. i \in Seq({"detach", "leave", "stop"})
    <3>1. b.in \in Seq({"detach", "leave", "stop"})
      BY <1>3 DEF Conn
    <3>2. QED
      BY <3>1
  <2> HIDE DEF b, i
  <2>2. k \in Conn /\ k.owner = b.owner /\ k.resume = b.resume /\ k.link = b.link /\ k.out = b.out
    BY <1>3, <2>1 DEF Conn
  <2>3. QED
    BY <1>3, <2>2 DEF Told
<1> HIDE DEF k, c
<1>5. departing' \in [Conns -> BOOLEAN] /\ \A d \in Conns : departing[d] => departing'[d]
  BY <1>0, <1>1
<1>6. RegistryOK(Registry') /\ Calmer(Registry, Registry')
  BY <1>0, <1>1, <1>2, <1>3, <1>4, <1>5, LinkStep
<1>7. QED
  BY <1>1, <1>6, QuietStep

(* A message that is read.  A token that comes by a session that resumed   *)
(* another comes after the other went.                                     *)
LEMMA ReceiveKeeps ==
  ASSUME SessionsIInv, NEW w \in Gui, Receive(w)
  PROVE  SessionsIInv'
<1> DEFINE c == win[w].conn
           b == conns[c]
           k == [b EXCEPT !.out = Tail(@)]
<1>0. Typed /\ UsedInv /\ WindowInv /\ win \in [Gui -> Win] /\ seen \subseteq Conns
      /\ conns \in [Conns -> Conn] /\ departing \in [Conns -> BOOLEAN]
  BY SessionTypes DEF SessionsIInv, Typed
<1>1. UNCHANGED <<rd, slot, queue, up, quit, said>>
      /\ UNCHANGED <<sessions, drains, retained, torn, departing>>
  BY DEF Receive, daemonVars
<1>2. /\ c \in Conns /\ b.owner = w /\ win[w].token \in {c, b.resume} /\ c \in Used
      /\ win[w] \in Win /\ win[w].st \in {"live", "pending"}
  BY <1>0 DEF WindowInv, Used, Receive
<1>3. b \in Conn /\ b.link # "none" /\ conns' = [conns EXCEPT ![c] = k] /\ b.out # <<>>
  BY <1>0, <1>2 DEF Receive, Used
<1>4. /\ k \in Conn /\ k.owner = b.owner /\ k.resume = b.resume /\ k.link = b.link
      /\ Told(k) => Told(b)
      /\ Head(b.out) = "token" => Told(b)
      /\ Head(b.out) \in {"token", "detached", "shutting"}
  <2> HIDE DEF b
  <2>1. b.out \in Seq({"token", "detached", "shutting"}) /\ b.out # <<>>
    BY <1>3 DEF Conn
  <2>2. Tail(b.out) \in Seq({"token", "detached", "shutting"})
        /\ Len(Tail(b.out)) = Len(b.out) - 1 /\ Len(b.out) \in Nat /\ Len(b.out) > 0
        /\ (\A i \in 1..Len(Tail(b.out)) : Tail(b.out)[i] = b.out[i + 1])
        /\ Head(b.out) = b.out[1] /\ Head(b.out) \in {"token", "detached", "shutting"}
    BY <2>1
  <2>3. k \in Conn /\ k.owner = b.owner /\ k.resume = b.resume /\ k.link = b.link
        /\ k.out = Tail(b.out)
    BY <1>3, <2>2 DEF Conn
  <2>4. Told(k) => Told(b)
    <3>1. ASSUME NEW i \in 1..Len(k.out), k.out[i] = "token"
          PROVE  i + 1 \in 1..Len(b.out) /\ b.out[i + 1] = "token"
      BY <2>2, <2>3, <3>1
    <3>2. QED
      BY <3>1 DEF Told
  <2>5. Head(b.out) = "token" => Told(b)
    BY <2>2 DEF Told
  <2>6. QED
    BY <2>2, <2>3, <2>4, <2>5
<1>5. departing' \in [Conns -> BOOLEAN] /\ \A d \in Conns : departing[d] => departing'[d]
  BY <1>0, <1>1
<1>6. RegistryOK(Registry') /\ Calmer(Registry, Registry')
  <2> HIDE DEF k, c
  <2>1. QED
    BY <1>0, <1>1, <1>2, <1>3, <1>4, <1>5, LinkStep
<1>7. CASE Head(b.out) # "token"
  <2> DEFINE v == [win[w] EXCEPT !.bye = Head(b.out)]
  <2>1. win' = [win EXCEPT ![w] = v] /\ UNCHANGED seen
    BY <1>0, <1>7 DEF Receive
  <2>2. v \in Win /\ v.st = win[w].st /\ v.token = win[w].token /\ v.conn = win[w].conn
        /\ v.failed = win[w].failed
    BY <1>2, <1>4, <1>7 DEF Win
  <2>3. v.st \in {"lost", "pending"} => v.failed < AttemptCap
    BY <1>0, <2>2 DEF Typed
  <2> HIDE DEF v
  <2>4. QED
    BY <1>1, <1>2, <1>6, <2>1, <2>2, <2>3, WindowChanges
<1>8. CASE Head(b.out) = "token"
  <2> DEFINE v == [win[w] EXCEPT !.token = c, !.st = "live"]
  <2>1. win' = [win EXCEPT ![w] = v] /\ seen' = seen \cup {c}
    BY <1>0, <1>8 DEF Receive
  <2>2. v \in Win /\ v.st = "live" /\ v.token = c /\ v.conn = c
    <3>1. c \in 0..MaxConns
      BY <1>2 DEF Win
    <3>2. QED
      BY <1>2, <3>1 DEF Win
  <2> HIDE DEF v
  <2>3. win' \in [Gui -> Win] /\ win'[w] = v /\ \A x \in Gui : x # w => win'[x] = win[x]
    BY <1>0, <2>1, <2>2
  <2>4. \A x \in Gui : win'[x].st \in {"lost", "pending"} => win'[x].failed < AttemptCap
    BY <1>0, <2>2, <2>3 DEF Typed
  <2>5. seen' \subseteq seen \cup {d \in Conns : Told(conns[d])} /\ c # NoConn
    BY <1>2, <1>4, <1>8, <2>1 DEF Conns, NoConn
  <2>6. /\ Held(Registry') \subseteq Held(Registry)
        /\ \A d \in Conns : /\ conns'[d].owner = conns[d].owner
                            /\ conns'[d].resume = conns[d].resume
                            /\ Told(conns'[d]) => Told(conns[d])
        /\ Used' = Used /\ Used \subseteq Conns
    BY <1>0, <1>6, CalmSays DEF Used
  <2>7. b.owner \in Gui /\ b.resume \notin Held(Registry)
    BY <1>0, <1>2, <1>4, <1>8 DEF WindowInv
  <2>8. \A s \in seen \cap Held(Registry) : conns[s].owner = w => s = c
    BY <1>0, <1>2, <2>7 DEF WindowInv
  <2> HIDE DEF c
  <2>9. \A x \in Gui : win'[x].token # NoConn =>
              /\ win'[x].token \in seen' /\ conns'[win'[x].token].owner = x
            /\ win'[x].st # "new"
    BY <1>0, <1>2, <2>1, <2>2, <2>3, <2>6 DEF WindowInv
  <2>10. \A x \in Gui : win'[x].st \in {"live", "pending"} =>
              /\ win'[x].conn \in Used' /\ conns'[win'[x].conn].owner = x
              /\ win'[x].token \in {win'[x].conn, conns'[win'[x].conn].resume}
    BY <1>0, <1>2, <2>2, <2>3, <2>6 DEF WindowInv
  <2>11. \A d \in Conns : conns'[d].resume # NoConn =>
              /\ conns'[d].resume \in seen' /\ conns'[d].owner \in Gui
              /\ conns'[conns'[d].resume].owner = conns'[d].owner
    BY <1>0, <2>1, <2>6 DEF WindowInv
  <2>12. \A d \in Conns : Told(conns'[d]) =>
              conns'[d].owner \in Gui /\ conns'[d].resume \notin Held(Registry')
    BY <1>0, <2>6 DEF WindowInv
  <2>13. \A d \in seen' : conns'[d].owner \in Gui
    BY <1>0, <1>2, <2>1, <2>6 DEF WindowInv
  <2>14. ASSUME NEW s \in seen' \cap Held(Registry')
         PROVE  win'[conns'[s].owner].st = "closed" \/ win'[conns'[s].owner].token = s
    <3>1. s \in Conns /\ conns'[s].owner = conns[s].owner /\ conns[s].owner \in Gui
      BY <1>0, <1>2, <2>1, <2>6, <2>13
    <3>2. CASE conns[s].owner = w
      BY <1>2, <2>1, <2>2, <2>3, <2>6, <2>8, <3>1, <3>2
    <3>3. CASE conns[s].owner # w
      <4>1. s \in seen \cap Held(Registry)
        BY <1>2, <2>1, <2>6, <3>3
      <4>2. QED
        BY <1>0, <2>3, <3>1, <3>3, <4>1 DEF WindowInv
    <3>4. QED
      BY <3>2, <3>3
  <2>15. ASSUME NEW s \in seen' \cap Held(Registry'), NEW t \in seen' \cap Held(Registry'),
                conns'[s].owner = conns'[t].owner
         PROVE  s = t
    <3>1. s \in Conns /\ t \in Conns /\ conns[s].owner = conns[t].owner
          /\ s \in Held(Registry) /\ t \in Held(Registry)
      BY <1>0, <1>2, <2>1, <2>6, <2>15
    <3>2. CASE conns[s].owner = w
      BY <2>1, <2>8, <3>1, <3>2
    <3>3. CASE conns[s].owner # w
      BY <1>0, <1>2, <2>1, <3>1, <3>3 DEF WindowInv
    <3>4. QED
      BY <3>2, <3>3
  <2>16. WindowInv'
    BY <2>9, <2>10, <2>11, <2>12, <2>13, <2>14, <2>15 DEF WindowInv
  <2>17. QED
    BY <1>1, <1>6, <2>3, <2>4, <2>5, <2>16, WindowStep
<1>9. QED
  BY <1>7, <1>8

-----------------------------------------------------------------------------
(* The dispatcher.                                                         *)

(* One pass makes a registry of what the teardowns, the expiry and the     *)
(* writes leave, which is a calm step; or it stops the daemon.             *)
LEMMA PassShape ==
  ASSUME Typed, Pass
  PROVE  /\ UNCHANGED <<rd, slot, quit, win, seen, said>>
         /\ RegistryOK(Registry') /\ Calmer(Registry, Registry')
         /\ \/ UNCHANGED <<up, queue>>
            \/ up' = FALSE /\ queue' = <<>> /\ Held(Registry') = {}
<1>0. RegistryOK(Registry)
  BY DEF Typed
<1>1. PICK expired \in SUBSET DOMAIN retained :
        LET r == Swept(Detach(Registry, Overdue), expired) IN
        \E failing \in SUBSET Deaf(r) : \E idle \in {FALSE, IdleExit /\ Unattached(Written(r, failing))} :
          IF quit \/ idle
          THEN up' = FALSE /\ queue' = <<>> /\ Becomes(Stopped(Written(r, failing)))
          ELSE UNCHANGED <<up, queue>> /\ Becomes(Written(r, failing))
  BY DEF Pass
<1> DEFINE d == Detach(Registry, Overdue)
           r == Swept(d, expired)
<1>2. PICK failing \in SUBSET Deaf(r) :
          \/ up' = FALSE /\ queue' = <<>> /\ Becomes(Stopped(Written(r, failing)))
          \/ UNCHANGED <<up, queue>> /\ Becomes(Written(r, failing))
  BY <1>1
<1> DEFINE w == Written(r, failing)
<1>3. RegistryOK(d) /\ Calmer(Registry, d)
  BY <1>0, DetachCalms
<1> HIDE DEF d
<1>4. RegistryOK(r) /\ Calmer(d, r)
  BY <1>3, SweptCalms
<1> HIDE DEF r
<1>5. RegistryOK(w) /\ Calmer(r, w)
  BY <1>4, WrittenCalms
<1>6. Calmer(Registry, w)
  <2>1. Calmer(Registry, r)
    BY <1>0, <1>3, <1>4, CalmerTwice
  <2> HIDE DEF w
  <2>2. QED
    BY <1>0, <1>4, <1>5, <2>1, CalmerTwice
<1>7. UNCHANGED <<rd, slot, quit, win, seen, said>>
  BY DEF Pass
<1>8. CASE UNCHANGED <<up, queue>> /\ Becomes(w)
  BY <1>5, <1>6, <1>7, <1>8, BecomesCalm
<1>9. CASE up' = FALSE /\ queue' = <<>> /\ Becomes(Stopped(w))
  <2> DEFINE n == Stopped(w)
  <2> HIDE DEF w
  <2>1. RegistryOK(n) /\ Calmer(w, n) /\ Held(n) = {} /\ Becomes(n)
    BY <1>5, <1>9, StoppedCalms
  <2> HIDE DEF n
  <2>2. Calmer(Registry, n)
    BY <1>0, <1>5, <1>6, <2>1, CalmerTwice
  <2>3. RegistryOK(Registry') /\ Calmer(Registry, Registry') /\ Held(Registry') = {}
    BY <2>1, <2>2, BecomesCalm, BecomesSame
  <2>4. QED
    BY <1>7, <1>9, <2>3
<1>10. QED
  BY <1>2, <1>8, <1>9

(* A pass.                                                                 *)
LEMMA PassKeeps ==
  ASSUME SessionsIInv, Pass
  PROVE  SessionsIInv'
<1>0. Typed /\ UsedInv /\ SlotInv /\ DepartedInv
  BY DEF SessionsIInv
<1>1. /\ UNCHANGED <<rd, slot, quit, win, seen, said>>
      /\ RegistryOK(Registry') /\ Calmer(Registry, Registry')
      /\ \/ UNCHANGED <<up, queue>>
         \/ up' = FALSE /\ queue' = <<>> /\ Held(Registry') = {}
  BY <1>0, PassShape
<1>2. CASE UNCHANGED <<up, queue>>
  BY <1>1, <1>2, QuietStep
<1>3. CASE up' = FALSE /\ queue' = <<>> /\ Held(Registry') = {}
  <2>1. /\ Held(Registry) \subseteq Used /\ DOMAIN sessions' = {} /\ Len(queue') = 0
        /\ \A c \in Conns : /\ conns'[c].owner = conns[c].owner
                            /\ Told(conns'[c]) => Told(conns[c])
                            /\ departing[c] => departing'[c]
                            /\ c \in Held(Registry) \/ torn'[c] = torn[c]
        /\ Used' = Used
    <3>1. DOMAIN sessions' = {}
      BY <1>3, RegistryPartsNext DEF Held
    <3>2. QED
      BY <1>0, <1>1, <1>3, <3>1, CalmSays, SessionTypes
  <2>2. Typed'
    <3>1. <<>> \in Seq(Event)
      OBVIOUS
    <3>2. queue' \in Seq(Event)
      BY <1>3, <3>1
    <3>3. QED
      BY <1>0, <1>1, <1>3, <3>2 DEF Typed
  <2>3. UsedInv'
    <3>1. \A c \in Conns : (rd'[c] # "none" \/ torn'[c] = 1 \/ slot' = c \/ c \in seen'
                             \/ Told(conns'[c])) => c \in Used'
      BY <1>0, <1>1, <2>1 DEF UsedInv
    <3>2. QED
      BY <1>0, <1>3, <2>1, <3>1 DEF UsedInv
  <2>4. QueueInv' /\ ViewsInv'
    BY <1>3, <2>1 DEF QueueInv, ViewsInv
  <2>5. SlotInv'
    BY <1>0, <1>1, <2>1 DEF SlotInv, IsPlain
  <2>6. PlainInv'
    BY <2>1 DEF PlainInv
  <2>7. WindowInv'
    BY <1>1, CalmWindows
  <2>8. DepartedInv'
    BY <1>0, <1>1, <2>1 DEF DepartedInv, Typed
  <2>9. QED
    BY <2>2, <2>3, <2>4, <2>5, <2>6, <2>7, <2>8 DEF SessionsIInv
<1>4. QED
  BY <1>1, <1>2, <1>3

(* The head of the queue, and what is left of it.                          *)
LEMMA HeadAndTail ==
  ASSUME queue \in Seq(Event), queue # <<>>, queue' = Tail(queue)
  PROVE  /\ Len(queue) \in Nat /\ 1 <= Len(queue) /\ Head(queue) = queue[1]
         /\ Len(queue') = Len(queue) - 1 /\ queue' \in Seq(Event)
         /\ \A i \in 1..Len(queue') : queue'[i] = queue[i + 1] /\ i + 1 \in 1..Len(queue)
         /\ \A i \in 1..Len(queue) : queue[i] \in Event /\ queue[i].c \in Conns
<1>1. /\ Len(queue) \in Nat /\ 1 <= Len(queue) /\ Head(queue) = queue[1]
      /\ Len(queue') = Len(queue) - 1 /\ queue' \in Seq(Event)
      /\ \A i \in 1..Len(queue') : queue'[i] = queue[i + 1] /\ i + 1 \in 1..Len(queue)
      /\ \A i \in 1..Len(queue) : queue[i] \in Event
  OBVIOUS
<1>2. \A i \in 1..Len(queue) : queue[i].c \in Conns
  BY <1>1 DEF Event
<1>3. QED
  BY <1>1, <1>2

(* An event whose handling registers nothing.                              *)
LEMMA HandlesCalmly ==
  ASSUME SessionsIInv, queue # <<>>, queue' = Tail(queue), quit' \in BOOLEAN,
         UNCHANGED <<rd, slot, up, win, seen, said>>,
         RegistryOK(Registry'), Calmer(Registry, Registry'),
         queue[1].k = "detached" => queue[1].c \notin DOMAIN sessions',
         queue[1].k = "established" => ~IsPlain(queue[1].c)
  PROVE  SessionsIInv'
<1>0. Typed /\ DepartedInv
  BY DEF SessionsIInv
<1>1. Takes(1)
  <2>1. queue \in Seq(Event)
    BY <1>0 DEF Typed
  <2>2. QED
    BY <2>1, HeadAndTail DEF Takes
<1>2. UsedInv' /\ QueueInv' /\ ViewsInv' /\ SlotInv' /\ PlainInv'
  <2>1. seen' \subseteq seen \cup {c \in Conns : Told(conns[c])} /\ UNCHANGED <<rd, slot>>
    OBVIOUS
  <2>2. QED
    BY <1>1, <2>1, CalmKeeps
<1>3. WindowInv'
  BY CalmWindows
<1>4. Typed'
  <2>1. queue' \in Seq(Event)
    BY <1>0, HeadAndTail DEF Typed
  <2>2. QED
    BY <1>0, <2>1 DEF Typed
<1>5. DepartedInv'
  BY <1>0, CalmSays DEF DepartedInv, Typed
<1>6. QED
  BY <1>2, <1>3, <1>4, <1>5 DEF SessionsIInv

(* The event that registers its session: what is held after it.            *)
LEMMA RegisteredHeld ==
  ASSUME SessionsIInv, NEW c \in Conns, RegistryOK(Registry'),
         Registers(Registry, Registry', c), ~Holds(Registry, conns[c].resume), c \notin seen
  PROVE  /\ DOMAIN sessions' = DOMAIN sessions \cup {c}
         /\ Held(Registry') \subseteq Held(Registry) \cup {c}
         /\ conns[c].resume \notin Held(Registry')
         /\ \A t \in Held(Registry') \ {c} : View(Registry', t) = View(Registry, t)
         /\ \/ View(Registry', c) = c
            \/ /\ conns[c].resume \in Held(Registry)
               /\ View(Registry', c) = View(Registry, conns[c].resume)
         /\ \A d \in Conns : /\ conns'[d].owner = conns[d].owner
                             /\ conns'[d].resume = conns[d].resume
                             /\ Told(conns'[d]) => \/ Told(conns[d])
                                                   \/ d = c /\ conns[c].owner # Plain
         /\ departing' = departing /\ torn' = torn /\ Used' = Used
<1>0. Typed /\ WindowInv
  BY DEF SessionsIInv
<1>1. /\ DOMAIN sessions' = DOMAIN sessions \cup {c}
      /\ DOMAIN retained' = DOMAIN retained \ {conns[c].resume}
  BY RegistryParts, RegistryPartsNext DEF Registers
<1>2. /\ Held(Registry) = DOMAIN sessions \cup DOMAIN retained
      /\ Held(Registry') = DOMAIN sessions' \cup DOMAIN retained'
  BY RegistryParts, RegistryPartsNext DEF Held
<1>3. /\ \A t \in Held(Registry') \ {c} : View(Registry', t) = View(Registry, t)
      /\ \/ View(Registry', c) = c
         \/ /\ conns[c].resume \in DOMAIN retained
            /\ View(Registry', c) = View(Registry, conns[c].resume)
      /\ \A d \in Conns : /\ conns'[d].owner = conns[d].owner
                          /\ conns'[d].resume = conns[d].resume
                          /\ Told(conns'[d]) => \/ Told(conns[d])
                                                \/ d = c /\ conns[c].owner # Plain
      /\ departing' = departing /\ torn' = torn
  BY RegistryParts, RegistryPartsNext DEF Registers
<1>4. Used' = Used
  <2>1. \A d \in Conns : InUse(Registry', d) <=> InUse(Registry, d)
    BY DEF Registers
  <2>2. QED
    BY <2>1, RegistryParts, RegistryPartsNext DEF InUse, Used
<1>5. conns[c].resume \notin Held(Registry')
  <2> DEFINE t == conns[c].resume
  <2>1. CASE t = NoConn
    <3>1. Held(Registry') \subseteq Conns
      BY DEF RegistryOK, Held
    <3>2. QED
      BY <2>1, <3>1 DEF Conns, NoConn
  <2>2. CASE t # NoConn
    <3>1. t \in seen /\ conns[t].owner \in Gui /\ t # c
      BY <1>0, <2>2 DEF WindowInv
    <3>2. conns[t].owner # Plain
      BY <3>1, SessionsAssumption
    <3>3. t \notin DOMAIN sessions
      BY <3>2, RegistryParts DEF Holds
    <3>4. QED
      BY <1>1, <1>2, <3>1, <3>3
  <2>3. QED
    BY <2>1, <2>2
<1>6. QED
  BY <1>1, <1>2, <1>3, <1>4, <1>5

(* A session that is registered.                                           *)
LEMMA RegistersKeeps ==
  ASSUME SessionsIInv, queue # <<>>, queue' = Tail(queue), quit' \in BOOLEAN,
         UNCHANGED <<rd, slot, up, win, seen, said>>,
         queue[1].k = "established", NEW c, c = queue[1].c,
         RegistryOK(Registry'), Registers(Registry, Registry', c),
         ~Holds(Registry, conns[c].resume)
  PROVE  SessionsIInv'
<1>0. Typed /\ UsedInv /\ QueueInv /\ ViewsInv /\ SlotInv /\ PlainInv /\ WindowInv /\ DepartedInv
  BY DEF SessionsIInv
<1>q. /\ Len(queue) \in Nat /\ 1 <= Len(queue)
      /\ Len(queue') = Len(queue) - 1 /\ queue' \in Seq(Event)
      /\ \A i \in 1..Len(queue') : queue'[i] = queue[i + 1] /\ i + 1 \in 1..Len(queue)
      /\ \A i \in 1..Len(queue) : queue[i].c \in Conns
      /\ 1 \in 1..Len(queue)
  BY <1>0, HeadAndTail DEF Typed
<1>c. /\ c \in Conns /\ c \in Used /\ c \notin Held(Registry) /\ torn[c] = 0
      /\ \A t \in Held(Registry) : View(Registry, t) # c
      /\ ~Told(conns[c]) /\ c \notin seen /\ c # NoConn
  BY <1>0, <1>q DEF QueueInv, UsedInv, Conns, NoConn
<1>1. /\ DOMAIN sessions' = DOMAIN sessions \cup {c}
      /\ Held(Registry') \subseteq Held(Registry) \cup {c}
      /\ conns[c].resume \notin Held(Registry')
      /\ \A t \in Held(Registry') \ {c} : View(Registry', t) = View(Registry, t)
      /\ \/ View(Registry', c) = c
         \/ /\ conns[c].resume \in Held(Registry)
            /\ View(Registry', c) = View(Registry, conns[c].resume)
      /\ \A d \in Conns : /\ conns'[d].owner = conns[d].owner
                          /\ conns'[d].resume = conns[d].resume
                          /\ Told(conns'[d]) => \/ Told(conns[d])
                                                \/ d = c /\ conns[c].owner # Plain
      /\ departing' = departing /\ torn' = torn /\ Used' = Used
  BY <1>c, RegisteredHeld
<1>h. Held(Registry) \subseteq Used /\ Held(Registry) \subseteq Conns /\ Used \subseteq Conns
  BY <1>0, SessionTypes DEF Used
<1>2. Typed'
  BY <1>0, <1>q DEF Typed
<1>3. UsedInv'
  <2>1. ASSUME NEW d \in Conns, \/ rd'[d] # "none" \/ torn'[d] = 1 \/ slot' = d \/ d \in seen'
                                \/ Told(conns'[d])
        PROVE  d \in Used'
    BY <1>0, <1>1, <1>c, <2>1 DEF UsedInv
  <2>2. \A t \in Held(Registry') : View(Registry', t) \in Used'
    BY <1>0, <1>1, <1>c DEF UsedInv
  <2>3. \A i \in 1..Len(queue') : queue'[i].c \in Used'
    BY <1>0, <1>1, <1>q DEF UsedInv
  <2>4. QED
    BY <1>0, <1>1, <2>1, <2>2, <2>3 DEF UsedInv
<1>4. QueueInv'
  <2>1. ASSUME NEW i \in 1..Len(queue'), queue'[i].k = "established"
        PROVE  /\ queue'[i].c \notin Held(Registry') /\ torn'[queue'[i].c] = 0
               /\ \A t \in Held(Registry') : View(Registry', t) # queue'[i].c
               /\ ~Told(conns'[queue'[i].c]) /\ queue'[i].c \notin seen'
               /\ \A j \in 1..Len(queue') : queue'[j].c = queue'[i].c => i <= j
    <3> DEFINE x == queue'[i].c
    <3>1. i + 1 \in 1..Len(queue) /\ queue[i + 1].k = "established" /\ queue[i + 1].c = x
          /\ x \in Conns
      BY <1>q, <2>1
    <3>2. /\ x \notin Held(Registry) /\ torn[x] = 0
          /\ \A t \in Held(Registry) : View(Registry, t) # x
          /\ ~Told(conns[x]) /\ x \notin seen
          /\ \A j \in 1..Len(queue) : queue[j].c = x => i + 1 <= j
      BY <1>0, <3>1 DEF QueueInv
    <3>3. x # c
      <4>1. CASE x = c
        <5>1. i + 1 <= 1
          BY <1>q, <3>2, <4>1
        <5>2. QED
          BY <5>1
      <4>2. QED
        BY <4>1
    <3>4. ASSUME NEW j \in 1..Len(queue'), queue'[j].c = x PROVE i <= j
      <4>1. j + 1 \in 1..Len(queue) /\ queue[j + 1].c = x
        BY <1>q, <3>4
      <4>2. i + 1 <= j + 1
        BY <3>2, <4>1
      <4>3. QED
        BY <4>2
    <3> HIDE DEF x
    <3>v. ASSUME NEW t \in Held(Registry') PROVE View(Registry', t) # x
      <4>1. CASE t = c
        BY <1>1, <3>2, <3>3, <4>1
      <4>2. CASE t # c
        BY <1>1, <3>2, <3>v, <4>2
      <4>3. QED
        BY <4>1, <4>2
    <3>w. x \notin Held(Registry') /\ torn'[x] = 0 /\ ~Told(conns'[x]) /\ x \notin seen'
      BY <1>1, <3>1, <3>2, <3>3
    <3>5. /\ x \notin Held(Registry') /\ torn'[x] = 0
          /\ \A t \in Held(Registry') : View(Registry', t) # x
          /\ ~Told(conns'[x]) /\ x \notin seen'
      BY <3>v, <3>w
    <3>6. QED
      BY <3>4, <3>5 DEF x
  <2>2. QED
    BY <2>1 DEF QueueInv
<1>5. ViewsInv'
  <2>1. ASSUME NEW s \in Held(Registry'), NEW t \in Held(Registry'), s # c,
               View(Registry', s) = View(Registry', t)
        PROVE  s = t
    <3>1. s \in Held(Registry) /\ View(Registry', s) = View(Registry, s)
          /\ View(Registry, s) # c
      BY <1>1, <1>c, <2>1
    <3>2. CASE t # c
      BY <1>0, <1>1, <2>1, <3>1, <3>2 DEF ViewsInv
    <3>3. CASE t = c
      <4>1. conns[c].resume \in Held(Registry) /\ View(Registry', c) = View(Registry, conns[c].resume)
        BY <1>1, <2>1, <3>1, <3>3
      <4>2. s = conns[c].resume
        BY <1>0, <2>1, <3>1, <3>3, <4>1 DEF ViewsInv
      <4>3. QED
        BY <1>1, <2>1, <4>2
    <3>4. QED
      BY <3>2, <3>3
  <2>2. QED
    BY <2>1 DEF ViewsInv
<1>6. SlotInv'
  BY <1>0, <1>1 DEF SlotInv, IsPlain
<1>7. PlainInv'
  <2>p. \A x \in Conns : IsPlain(x)' <=> IsPlain(x)
    BY <1>1 DEF IsPlain
  <2>s. DOMAIN sessions \subseteq Conns /\ DOMAIN sessions' \subseteq Conns
    BY <1>0, <1>1, <1>c, SessionTypes
  <2>0. ASSUME NEW x, NEW b \in Nat, Detaches(x, 0, b + 1)
        PROVE  Detaches(x, 0, b)'
    <3>1. PICK k \in 1..Len(queue) : queue[k].k = "detached" /\ queue[k].c = x /\ k < b + 1
      BY <2>0 DEF Detaches
    <3>2. k # 1
      BY <3>1
    <3>3. k - 1 \in 1..Len(queue') /\ k - 1 < b /\ 0 < k - 1 /\ (k - 1) + 1 = k
      BY <1>q, <3>1, <3>2
    <3>4. queue'[k - 1] = queue[k]
      BY <1>q, <3>3
    <3>5. QED
      BY <3>1, <3>3, <3>4 DEF Detaches
  <2>1. ASSUME NEW x, NEW a \in Nat, NEW b \in Nat, Detaches(x, a + 1, b + 1)
        PROVE  Detaches(x, a, b)'
    <3>1. PICK k \in 1..Len(queue) : queue[k].k = "detached" /\ queue[k].c = x
                                     /\ a + 1 < k /\ k < b + 1
      BY <2>1 DEF Detaches
    <3>2. k - 1 \in 1..Len(queue') /\ k - 1 < b /\ a < k - 1 /\ (k - 1) + 1 = k
      BY <1>q, <3>1
    <3>3. queue'[k - 1] = queue[k]
      BY <1>q, <3>2
    <3>4. QED
      BY <3>1, <3>2, <3>3 DEF Detaches
  <2>2. ASSUME IsPlain(c), NEW d \in DOMAIN sessions, IsPlain(d) PROVE FALSE
    <3>1. Establishes(1)
      BY <2>2 DEF Establishes
    <3>2. Detaches(d, 0, 1)
      BY <1>0, <1>q, <2>2, <3>1 DEF PlainInv
    <3>3. QED
      BY <1>q, <3>2 DEF Detaches
  <2>3. \A x, y \in DOMAIN sessions' : IsPlain(x)' /\ IsPlain(y)' => x = y
    BY <1>0, <1>1, <2>2, <2>p, <2>s DEF PlainInv
  <2>4. ASSUME NEW x \in DOMAIN sessions', IsPlain(x)', rd'[x] # "reading"
        PROVE  Detaches(x, 0, Len(queue) + 1)'
    <3>0. IsPlain(x) /\ x \in Conns
      BY <2>4, <2>p, <2>s
    <3>1. Detaches(x, 0, Len(queue) + 1)
      <4>1. CASE x = c
        <5>1. Establishes(1)
          BY <3>0, <4>1 DEF Establishes
        <5>2. QED
          BY <1>0, <1>q, <2>4, <4>1, <5>1 DEF PlainInv
      <4>2. CASE x # c
        BY <1>0, <1>1, <2>4, <3>0, <4>2 DEF PlainInv
      <4>3. QED
        BY <4>1, <4>2
    <3>2. Len(queue) + 1 = (Len(queue') + 1) + 1 /\ Len(queue') + 1 \in Nat
      BY <1>q
    <3>3. QED
      BY <2>0, <3>1, <3>2
  <2>5. ASSUME NEW i \in 1..Len(queue'), Establishes(i)'
        PROVE  /\ i + 1 \in 1..Len(queue) /\ Establishes(i + 1) /\ queue'[i].c = queue[i + 1].c
               /\ i \in Nat
    <3>1. i + 1 \in 1..Len(queue) /\ i \in Nat /\ queue'[i] = queue[i + 1]
      BY <1>q
    <3>2. queue'[i].k = "established" /\ conns'[queue'[i].c].owner = Plain
      BY <2>5 DEF Establishes, IsPlain
    <3>3. queue'[i].c \in Conns
      BY <1>q, <3>1
    <3>4. IsPlain(queue[i + 1].c)
      BY <1>1, <3>1, <3>2, <3>3 DEF IsPlain
    <3>5. QED
      BY <3>1, <3>2, <3>4 DEF Establishes
  <2>6. ASSUME NEW i \in 1..Len(queue'), Establishes(i)', rd'[queue'[i].c] # "reading"
        PROVE  Detaches(queue[i].c, 0, Len(queue) + 1)'
    <3> DEFINE x == queue'[i].c
    <3>1. i + 1 \in 1..Len(queue) /\ Establishes(i + 1) /\ x = queue[i + 1].c
      BY <2>5, <2>6
    <3>2. Detaches(x, 0, Len(queue) + 1)
      BY <1>0, <2>6, <3>1 DEF PlainInv
    <3>3. PICK k \in 1..Len(queue) : queue[k].k = "detached" /\ queue[k].c = x
      BY <3>2 DEF Detaches
    <3>4. k # 1
      BY <3>3
    <3>5. k - 1 \in 1..Len(queue') /\ (k - 1) + 1 = k /\ 0 < k - 1 /\ k - 1 < Len(queue') + 1
      BY <1>q, <3>3, <3>4
    <3>6. queue'[k - 1] = queue[k]
      BY <1>q, <3>5
    <3> HIDE DEF x
    <3>7. \E m \in 1..Len(queue') : queue'[m].k = "detached" /\ queue'[m].c = x
                                     /\ 0 < m /\ m < Len(queue') + 1
      BY <3>3, <3>5, <3>6
    <3>8. QED
      BY <3>7 DEF Detaches, x
  <2>7. ASSUME NEW i \in 1..Len(queue'), Establishes(i)', NEW e \in DOMAIN sessions', IsPlain(e)'
        PROVE  Detaches(e, 0, i)'
    <3>0. IsPlain(e) /\ e \in Conns
      BY <2>7, <2>p, <2>s
    <3>1. i + 1 \in 1..Len(queue) /\ Establishes(i + 1) /\ i \in Nat
      BY <2>5, <2>7
    <3>2. CASE e # c
      <4>1. Detaches(e, 0, i + 1)
        BY <1>0, <1>1, <2>7, <3>0, <3>1, <3>2 DEF PlainInv
      <4>2. QED
        BY <2>0, <3>1, <4>1
    <3>3. CASE e = c
      <4>1. Establishes(1) /\ 1 < i + 1
        BY <3>0, <3>1, <3>3 DEF Establishes
      <4>2. Detaches(queue[1].c, 1, i + 1)
        BY <1>0, <1>q, <3>1, <4>1 DEF PlainInv
      <4>3. PICK k \in 1..Len(queue) : queue[k].k = "detached" /\ queue[k].c = queue[1].c
                                       /\ 1 < k /\ k < i + 1
        BY <4>2 DEF Detaches
      <4>4. Detaches(e, 0, i + 1)
        BY <3>3, <4>3 DEF Detaches
      <4>5. QED
        BY <2>0, <3>1, <4>4
    <3>4. QED
      BY <3>2, <3>3
  <2>8. ASSUME NEW i \in 1..Len(queue'), NEW k \in 1..Len(queue'), k < i,
               Establishes(i)', Establishes(k)'
        PROVE  Detaches(queue[k].c, k, i)'
    <3>1. /\ i + 1 \in 1..Len(queue) /\ Establishes(i + 1) /\ i \in Nat
          /\ k + 1 \in 1..Len(queue) /\ Establishes(k + 1) /\ k \in Nat
          /\ queue'[k].c = queue[k + 1].c
      BY <2>5, <2>8
    <3>2. k + 1 < i + 1
      BY <2>8, <3>1
    <3>3. Detaches(queue[k + 1].c, k + 1, i + 1)
      BY <1>0, <3>1, <3>2 DEF PlainInv
    <3> DEFINE x == queue[k + 1].c
    <3>4. queue'[k].c = x
      BY <3>1
    <3> HIDE DEF x
    <3>5. Detaches(x, k + 1, i + 1)
      BY <3>3 DEF x
    <3>6. \E m \in 1..Len(queue') : queue'[m].k = "detached" /\ queue'[m].c = x /\ k < m /\ m < i
      <4>1. PICK m \in 1..Len(queue) : queue[m].k = "detached" /\ queue[m].c = x
                                       /\ k + 1 < m /\ m < i + 1
        BY <3>5 DEF Detaches
      <4>2. m - 1 \in 1..Len(queue') /\ m - 1 < i /\ k < m - 1 /\ (m - 1) + 1 = m
        BY <1>q, <3>1, <4>1
      <4>3. queue'[m - 1] = queue[m]
        BY <1>q, <4>2
      <4>4. QED
        BY <4>1, <4>2, <4>3
    <3>7. QED
      BY <3>4, <3>6 DEF Detaches
  <2>9. QED
    BY <2>3, <2>4, <2>6, <2>7, <2>8 DEF PlainInv
<1>8. WindowInv'
  <2>0. seen \subseteq Conns /\ win \in [Gui -> Win]
    BY <1>0 DEF Typed
  <2>1. \A w \in Gui : win'[w].token # NoConn =>
              /\ win'[w].token \in seen' /\ conns'[win'[w].token].owner = w
            /\ win'[w].st # "new"
    BY <1>0, <1>1, <2>0 DEF WindowInv
  <2>2. \A w \in Gui : win'[w].st \in {"live", "pending"} =>
              /\ win'[w].conn \in Used' /\ conns'[win'[w].conn].owner = w
              /\ win'[w].token \in {win'[w].conn, conns'[win'[w].conn].resume}
    BY <1>0, <1>1, <1>h DEF WindowInv
  <2>3. \A d \in Conns : conns'[d].resume # NoConn =>
              /\ conns'[d].resume \in seen' /\ conns'[d].owner \in Gui
              /\ conns'[conns'[d].resume].owner = conns'[d].owner
    BY <1>0, <1>1, <2>0 DEF WindowInv
  <2>4. ASSUME NEW d \in Conns, Told(conns'[d])
        PROVE  conns'[d].owner \in Gui /\ conns'[d].resume \notin Held(Registry')
    <3>1. CASE d = c
      <4>1. conns[c].owner # Plain
        BY <1>1, <1>c, <2>4, <3>1
      <4>2. conns[c].owner \in Gui
        <5>1. conns[c] \in Conn
          BY <1>0, <1>c, SessionTypes
        <5>2. QED
          BY <4>1, <5>1 DEF Conn
      <4>3. QED
        BY <1>1, <1>c, <3>1, <4>2
    <3>2. CASE d # c
      <4>1. conns[d].owner \in Gui /\ conns[d].resume \notin Held(Registry)
        BY <1>0, <1>1, <2>4, <3>2 DEF WindowInv
      <4>2. conns[d].resume # c
        BY <1>0, <1>c DEF WindowInv
      <4>3. QED
        BY <1>1, <4>1, <4>2
    <3>3. QED
      BY <3>1, <3>2
  <2>5. \A d \in seen' : conns'[d].owner \in Gui
    BY <1>0, <1>1, <2>0 DEF WindowInv
  <2>6. seen' \cap Held(Registry') \subseteq seen \cap Held(Registry)
    BY <1>1, <1>c
  <2>7. \A d \in seen' \cap Held(Registry') :
              win'[conns'[d].owner].st = "closed" \/ win'[conns'[d].owner].token = d
    BY <1>0, <1>1, <2>0, <2>6 DEF WindowInv
  <2>8. \A s, t \in seen' \cap Held(Registry') : conns'[s].owner = conns'[t].owner => s = t
    BY <1>0, <1>1, <2>0, <2>6 DEF WindowInv
  <2>9. QED
    BY <2>1, <2>2, <2>3, <2>4, <2>5, <2>7, <2>8 DEF WindowInv
<1>9. DepartedInv'
  BY <1>0, <1>1 DEF DepartedInv
<1>10. QED
  BY <1>2, <1>3, <1>4, <1>5, <1>6, <1>7, <1>8, <1>9 DEF SessionsIInv

(* An event that is handled.                                               *)
LEMMA HandleShape ==
  ASSUME SessionsIInv, Handle
  PROVE  /\ RegistryOK(Registry')
         /\ \/ /\ Calmer(Registry, Registry')
               /\ queue[1].k = "detached" => queue[1].c \notin DOMAIN sessions'
               /\ queue[1].k = "established" => ~IsPlain(queue[1].c)
            \/ /\ queue[1].k = "established" /\ Registers(Registry, Registry', queue[1].c)
               /\ ~Holds(Registry, conns[queue[1].c].resume)
<1>0. Typed /\ UsedInv /\ QueueInv /\ WindowInv /\ RegistryOK(Registry)
  BY DEF SessionsIInv, Typed
<1>1. /\ queue \in Seq(Event) /\ queue # <<>> /\ queue' = Tail(queue)
      /\ Becomes(Handled(Registry, Head(queue)))
  BY <1>0 DEF Handle, Typed
<1>2. Head(queue) = queue[1] /\ queue[1] \in Event /\ queue[1].c \in Conns /\ 1 \in 1..Len(queue)
  BY <1>1, HeadAndTail
<1> DEFINE e == queue[1]
           c == e.c
           n == Handled(Registry, e)
<1>3. Becomes(n) /\ c \in Conns
  BY <1>1, <1>2
<1>4. c \in Used /\ InUse(Registry, c)
  BY <1>0, <1>2, SessionTypes DEF UsedInv
<1>5. CASE e.k = "established"
  <2>1. n = Established(Registry, c)
    BY <1>5 DEF Handled
  <2>2. /\ c \notin Held(Registry) /\ torn[c] = 0
    BY <1>0, <1>2, <1>5 DEF QueueInv
  <2>3. Registry.conns = conns /\ Registry.torn = torn
    BY RegistryParts
  <2>4. CASE Holds(Registry, conns[c].resume)
    <3>1. n = [Registry EXCEPT !.conns[c] = Shut(@)]
      BY <2>1, <2>3, <2>4 DEF Established
    <3> DEFINE m == Registry
    <3>2. n = [m EXCEPT !.conns[c] = Shut(@)]
      BY <3>1
    <3>3. RegistryOK(n) /\ Calmer(m, n)
      <4> HIDE DEF m, n, c
      <4>1. RegistryOK(m) /\ InUse(m, c)
        BY <1>0, <1>4 DEF m
      <4>2. QED
        BY <1>3, <3>2, <4>1, ShutCalms
    <3> HIDE DEF n, c
    <3>4. conns[c].resume # NoConn
      <4>1. conns[c].resume \in DOMAIN Registry.sessions
        BY <2>4 DEF Holds
      <4>2. QED
        BY <1>0, <4>1 DEF RegistryOK, Conns, NoConn
    <3>5. ~IsPlain(c)
      BY <1>0, <1>3, <3>4, SessionsAssumption DEF WindowInv, IsPlain
    <3>6. RegistryOK(Registry') /\ Calmer(Registry, Registry')
      BY <1>3, <3>3, BecomesCalm DEF m
    <3>7. QED
      BY <1>5, <3>5, <3>6 DEF c
  <2>5. CASE ~Holds(Registry, conns[c].resume)
    <3>1. n = Bootstrapped(Registry, c)
      BY <2>1, <2>3, <2>5 DEF Established
    <3>2. /\ RegistryOK(n)
          /\ \/ Calmer(Registry, n) /\ Registry.conns[c].owner # Plain
             \/ Registers(Registry, n, c)
      <4> HIDE DEF n, c
      <4>1. LET b == Bootstrapped(Registry, c) IN
            /\ RegistryOK(b)
            /\ \/ Calmer(Registry, b) /\ Registry.conns[c].owner # Plain
               \/ Registers(Registry, b, c)
        BY <1>0, <1>3, <1>4, <2>2, <2>3, BootstrapShape
      <4>2. QED
        BY <3>1, <4>1
    <3> HIDE DEF n, c
    <3>3. CASE Calmer(Registry, n) /\ Registry.conns[c].owner # Plain
      <4>1. RegistryOK(Registry') /\ Calmer(Registry, Registry')
        BY <1>3, <3>2, <3>3, BecomesCalm
      <4>2. QED
        BY <1>5, <2>3, <3>3, <4>1 DEF c, IsPlain
    <3>4. CASE Registers(Registry, n, c)
      <4>1. RegistryOK(Registry') /\ Registers(Registry, Registry', c)
        BY <1>3, <3>2, <3>4, BecomesRegistered
      <4>2. QED
        BY <1>5, <2>5, <4>1 DEF c
    <3>5. QED
      BY <3>2, <3>3, <3>4
  <2>6. QED
    BY <2>4, <2>5
<1>6. CASE e.k = "detached"
  <2>1. n = Detach(Registry, {c})
    BY <1>6 DEF Handled
  <2> HIDE DEF n
  <2>2. RegistryOK(n) /\ Calmer(Registry, n) /\ DOMAIN n.sessions = DOMAIN Registry.sessions \ {c}
    BY <1>0, <2>1, DetachCalms
  <2>3. RegistryOK(Registry') /\ Calmer(Registry, Registry')
    BY <1>3, <2>2, BecomesCalm
  <2>4. c \notin DOMAIN sessions'
    BY <1>3, <2>2 DEF Becomes
  <2>5. QED
    BY <1>6, <2>3, <2>4
<1>7. CASE e.k = "leave"
  <2>1. n = Leave(Registry, c)
    BY <1>7 DEF Handled
  <2> HIDE DEF n
  <2>2. RegistryOK(n) /\ Calmer(Registry, n)
    BY <1>0, <1>3, <2>1, LeaveCalms
  <2>3. RegistryOK(Registry') /\ Calmer(Registry, Registry')
    BY <1>3, <2>2, BecomesCalm
  <2>4. QED
    BY <1>7, <2>3
<1>8. CASE e.k \notin {"established", "detached", "leave"}
  <2>1. n = Registry
    BY <1>8 DEF Handled
  <2> HIDE DEF n
  <2>2. RegistryOK(n) /\ Calmer(Registry, n)
    BY <1>0, <2>1, CalmerSame
  <2>3. RegistryOK(Registry') /\ Calmer(Registry, Registry')
    BY <1>3, <2>2, BecomesCalm
  <2>4. QED
    BY <1>8, <2>3
<1>9. QED
  BY <1>5, <1>6, <1>7, <1>8

(* The dispatcher's turn with an event.                                    *)
LEMMA HandleKeeps ==
  ASSUME SessionsIInv, Handle
  PROVE  SessionsIInv'
<1>1. /\ queue # <<>> /\ queue' = Tail(queue) /\ UNCHANGED <<rd, slot, up, win, seen, said>>
  BY DEF Handle
<1>2. quit' \in BOOLEAN
  BY DEF Handle, SessionsIInv, Typed
<1>3. /\ RegistryOK(Registry')
      /\ \/ /\ Calmer(Registry, Registry')
            /\ queue[1].k = "detached" => queue[1].c \notin DOMAIN sessions'
            /\ queue[1].k = "established" => ~IsPlain(queue[1].c)
         \/ /\ queue[1].k = "established" /\ Registers(Registry, Registry', queue[1].c)
            /\ ~Holds(Registry, conns[queue[1].c].resume)
  BY HandleShape
<1>4. QED
  BY <1>1, <1>2, <1>3, HandlesCalmly, RegistersKeeps

-----------------------------------------------------------------------------
(* The readers.                                                            *)

(* A reader posts an event of its connection: a message, or its end.       *)
LEMMA PostKeeps ==
  ASSUME SessionsIInv, RegistryOK(Registry'), Calmer(Registry, Registry'),
         NEW c \in Used, NEW k \in {"detach", "leave", "stop", "detached"},
         queue' = Append(queue, [k |-> k, c |-> c]),
         UNCHANGED <<slot, up, quit, win, seen>>, said' \subseteq Conns, DepartedInv',
         rd' \in [Conns -> {"none", "reading", "ending", "gone"}], SlotInv',
         \A d \in Conns : rd'[d] # rd[d] => d = c /\ rd[d] # "none" /\ k = "detached"
  PROVE  SessionsIInv'
<1>0. Typed /\ UsedInv /\ QueueInv /\ ViewsInv /\ PlainInv
  BY DEF SessionsIInv
<1>q. queue \in Seq(Event)
  BY <1>0 DEF Typed
<1>c. c \in Conns
  BY DEF Used
<1> DEFINE e == [k |-> k, c |-> c]
<1>e. e \in Event /\ e.k = k /\ e.c = c
  BY <1>c DEF Event
<1> HIDE DEF e
<1>n. /\ queue' \in Seq(Event) /\ Len(queue) \in Nat /\ Len(queue') = Len(queue) + 1
      /\ \A i \in 1..Len(queue) : queue'[i] = queue[i] /\ queue[i] \in Event
      /\ queue'[Len(queue) + 1] = e
  <2>1. queue' = Append(queue, e)
    BY DEF e
  <2>2. QED
    BY <1>e, <1>q, <2>1
<1>i. \A i \in 1..Len(queue') : i \in 1..Len(queue) \/ i = Len(queue) + 1
  BY <1>n
<1>1. /\ DOMAIN sessions' \subseteq DOMAIN sessions /\ Held(Registry') \subseteq Held(Registry)
      /\ \A t \in Held(Registry') : View(Registry', t) = View(Registry, t)
      /\ \A d \in Conns : /\ IsPlain(d)' <=> IsPlain(d)
                          /\ conns'[d].owner = conns[d].owner
                          /\ Told(conns'[d]) => Told(conns[d])
                          /\ d \in Held(Registry) \/ torn'[d] = torn[d]
      /\ Used' = Used /\ Held(Registry) \subseteq Used
      /\ DOMAIN sessions \subseteq Conns
  BY <1>0, CalmSays, SessionTypes
<1>ec. \A i \in 1..Len(queue) : queue[i].c \in Conns
  BY <1>n DEF Event
<1>2. Typed'
  BY <1>0, <1>n DEF Typed
<1>3. UsedInv'
  <2>1. ASSUME NEW d \in Conns, \/ rd'[d] # "none" \/ torn'[d] = 1 \/ slot' = d \/ d \in seen'
                                \/ Told(conns'[d])
        PROVE  d \in Used'
    BY <1>0, <1>1, <2>1 DEF UsedInv
  <2>2. \A i \in 1..Len(queue') : queue'[i].c \in Used'
    BY <1>0, <1>1, <1>e, <1>i, <1>n DEF UsedInv
  <2>3. \A t \in Held(Registry') : View(Registry', t) \in Used'
    BY <1>0, <1>1 DEF UsedInv
  <2>4. QED
    BY <1>0, <1>1, <2>1, <2>2, <2>3 DEF UsedInv
<1>4. QueueInv'
  <2>1. ASSUME NEW i \in 1..Len(queue'), queue'[i].k = "established"
        PROVE  /\ queue'[i].c \notin Held(Registry') /\ torn'[queue'[i].c] = 0
               /\ \A t \in Held(Registry') : View(Registry', t) # queue'[i].c
               /\ ~Told(conns'[queue'[i].c]) /\ queue'[i].c \notin seen'
               /\ \A j \in 1..Len(queue') : queue'[j].c = queue'[i].c => i <= j
    <3> DEFINE x == queue'[i].c
    <3>1. i \in 1..Len(queue) /\ queue[i].k = "established" /\ queue[i].c = x /\ x \in Conns
      BY <1>e, <1>ec, <1>i, <1>n, <2>1
    <3>2. /\ x \notin Held(Registry) /\ torn[x] = 0
          /\ \A t \in Held(Registry) : View(Registry, t) # x
          /\ ~Told(conns[x]) /\ x \notin seen
          /\ \A j \in 1..Len(queue) : queue[j].c = x => i <= j
      BY <1>0, <3>1 DEF QueueInv
    <3>3. ASSUME NEW j \in 1..Len(queue'), queue'[j].c = x PROVE i <= j
      <4>1. CASE j \in 1..Len(queue)
        BY <1>n, <3>2, <3>3, <4>1
      <4>2. CASE j = Len(queue) + 1
        BY <1>n, <3>1, <4>2
      <4>3. QED
        BY <1>i, <4>1, <4>2
    <3> HIDE DEF x
    <3>4. /\ x \notin Held(Registry') /\ torn'[x] = 0
          /\ \A t \in Held(Registry') : View(Registry', t) # x
          /\ ~Told(conns'[x]) /\ x \notin seen'
      BY <1>1, <3>1, <3>2
    <3>5. QED
      BY <3>3, <3>4 DEF x
  <2>2. QED
    BY <2>1 DEF QueueInv
<1>5. ViewsInv'
  BY <1>0, <1>1 DEF ViewsInv
<1>6. PlainInv'
  <2>0. ASSUME NEW x, NEW a \in Nat, NEW b, NEW b2 \in Nat, Detaches(x, a, b), b \in Nat, b <= b2
        PROVE  \E m \in 1..Len(queue') : queue'[m].k = "detached" /\ queue'[m].c = x
                                         /\ a < m /\ m < b2
    <3>1. PICK m \in 1..Len(queue) : queue[m].k = "detached" /\ queue[m].c = x /\ a < m /\ m < b
      BY <2>0 DEF Detaches
    <3>2. m \in 1..Len(queue') /\ queue'[m] = queue[m] /\ m < b2
      BY <1>n, <2>0, <3>1
    <3>3. QED
      BY <3>1, <3>2
  <2>1. ASSUME k = "detached"
        PROVE  \E m \in 1..Len(queue') : queue'[m].k = "detached" /\ queue'[m].c = c
                                         /\ 0 < m /\ m < Len(queue') + 1
    <3>1. Len(queue) + 1 \in 1..Len(queue') /\ 0 < Len(queue) + 1 /\ Len(queue) + 1 < Len(queue') + 1
      BY <1>n
    <3>2. QED
      BY <1>e, <1>n, <2>1, <3>1
  <2>2. \A x, y \in DOMAIN sessions' : IsPlain(x)' /\ IsPlain(y)' => x = y
    BY <1>0, <1>1 DEF PlainInv
  <2>3. ASSUME NEW x \in DOMAIN sessions', IsPlain(x)', rd'[x] # "reading"
        PROVE  \E m \in 1..Len(queue') : queue'[m].k = "detached" /\ queue'[m].c = x
                                         /\ 0 < m /\ m < Len(queue') + 1
    <3>1. x \in Conns /\ x \in DOMAIN sessions /\ IsPlain(x)
      BY <1>1, <2>3
    <3>2. CASE rd'[x] = rd[x]
      <4>1. Detaches(x, 0, Len(queue) + 1)
        BY <1>0, <2>3, <3>1, <3>2 DEF PlainInv
      <4>2. Len(queue) + 1 \in Nat /\ Len(queue') + 1 \in Nat /\ Len(queue) + 1 <= Len(queue') + 1
        BY <1>n
      <4>3. QED
        BY <2>0, <4>1, <4>2
    <3>3. CASE rd'[x] # rd[x]
      BY <2>1, <3>1, <3>3
    <3>4. QED
      BY <3>2, <3>3
  <2>4. ASSUME NEW i \in 1..Len(queue'), Establishes(i)'
        PROVE  i \in 1..Len(queue) /\ Establishes(i) /\ queue'[i].c = queue[i].c /\ i \in Nat
    <3>1. queue'[i].k = "established" /\ conns'[queue'[i].c].owner = Plain
      BY <2>4 DEF Establishes, IsPlain
    <3>2. i \in 1..Len(queue) /\ queue'[i] = queue[i] /\ queue[i].c \in Conns
      BY <1>e, <1>ec, <1>i, <1>n, <3>1
    <3>3. QED
      BY <1>1, <3>1, <3>2 DEF Establishes, IsPlain
  <2>5. ASSUME NEW i \in 1..Len(queue'), Establishes(i)', rd'[queue'[i].c] # "reading"
        PROVE  \E m \in 1..Len(queue') : queue'[m].k = "detached" /\ queue'[m].c = queue'[i].c
                                         /\ 0 < m /\ m < Len(queue') + 1
    <3> DEFINE x == queue'[i].c
    <3>1. x \in Conns /\ i \in 1..Len(queue) /\ Establishes(i) /\ x = queue[i].c
      BY <1>ec, <2>4, <2>5
    <3>2. CASE rd'[x] = rd[x]
      <4>1. Detaches(x, 0, Len(queue) + 1)
        BY <1>0, <2>5, <3>1, <3>2 DEF PlainInv
      <4>2. Len(queue) + 1 \in Nat /\ Len(queue') + 1 \in Nat /\ Len(queue) + 1 <= Len(queue') + 1
        BY <1>n
      <4> HIDE DEF x
      <4>3. \E m \in 1..Len(queue') : queue'[m].k = "detached" /\ queue'[m].c = x
                                      /\ 0 < m /\ m < Len(queue') + 1
        BY <2>0, <4>1, <4>2
      <4>4. QED
        BY <4>3 DEF x
    <3>3. CASE rd'[x] # rd[x]
      BY <2>1, <3>1, <3>3
    <3>4. QED
      BY <3>2, <3>3
  <2>6. ASSUME NEW i \in 1..Len(queue'), Establishes(i)', NEW x \in DOMAIN sessions', IsPlain(x)'
        PROVE  \E m \in 1..Len(queue') : queue'[m].k = "detached" /\ queue'[m].c = x
                                         /\ 0 < m /\ m < i
    <3>1. i \in 1..Len(queue) /\ Establishes(i) /\ i \in Nat
      BY <2>4, <2>6
    <3>2. Detaches(x, 0, i)
      BY <1>0, <1>1, <2>6, <3>1 DEF PlainInv
    <3>3. PICK m \in 1..Len(queue) : queue[m].k = "detached" /\ queue[m].c = x /\ 0 < m /\ m < i
      BY <3>2 DEF Detaches
    <3>4. m \in 1..Len(queue') /\ queue'[m] = queue[m]
      BY <1>n, <3>3
    <3>5. QED
      BY <3>3, <3>4
  <2>7. ASSUME NEW i \in 1..Len(queue'), NEW j \in 1..Len(queue'), j < i,
               Establishes(i)', Establishes(j)'
        PROVE  \E m \in 1..Len(queue') : queue'[m].k = "detached" /\ queue'[m].c = queue'[j].c
                                         /\ j < m /\ m < i
    <3>1. /\ i \in 1..Len(queue) /\ Establishes(i) /\ i \in Nat
          /\ j \in 1..Len(queue) /\ Establishes(j) /\ j \in Nat /\ queue'[j].c = queue[j].c
      BY <2>4, <2>7
    <3> DEFINE x == queue[j].c
    <3>2. Detaches(x, j, i)
      BY <1>0, <2>7, <3>1 DEF PlainInv
    <3>3. queue'[j].c = x
      BY <3>1
    <3> HIDE DEF x
    <3>4. i <= i
      BY <3>1
    <3>5. \E m \in 1..Len(queue') : queue'[m].k = "detached" /\ queue'[m].c = x /\ j < m /\ m < i
      BY <2>0, <3>1, <3>2, <3>4
    <3>6. QED
      BY <3>3, <3>5
  <2>8. QED
    BY <2>2, <2>3, <2>5, <2>6, <2>7 DEF PlainInv, Detaches
<1>7. WindowInv'
  BY CalmWindows
<1>8. QED
  BY <1>2, <1>3, <1>4, <1>5, <1>6, <1>7 DEF SessionsIInv

(* A reader that takes a message off its socket and posts it, a Detach     *)
(* after setting the flag.                                                 *)
LEMMA ReaderReadsKeeps ==
  ASSUME SessionsIInv, NEW c \in Conns, ReaderReads(c)
  PROVE  SessionsIInv'
<1> DEFINE b == conns[c]
           m == Head(b.in)
           k == [b EXCEPT !.in = Tail(@)]
<1>0. Typed /\ UsedInv /\ SlotInv /\ DepartedInv
      /\ conns \in [Conns -> Conn] /\ departing \in [Conns -> BOOLEAN]
  BY SessionTypes DEF SessionsIInv
<1>1. UNCHANGED <<rd, slot, up, quit, win, seen>> /\ UNCHANGED <<sessions, retained, torn, drains>>
  BY DEF ReaderReads
<1>2. /\ rd[c] = "reading" /\ b.in # <<>> /\ conns' = [conns EXCEPT ![c] = k]
      /\ departing' = [departing EXCEPT ![c] = @ \/ m = "detach"]
      /\ said' = IF m = "detach" THEN said \cup {c} ELSE said
      /\ queue' = Append(queue, [k |-> m, c |-> c])
  BY <1>0 DEF ReaderReads, Post
<1>3. c \in Used /\ b \in Conn /\ b.link # "none"
  BY <1>0, <1>2 DEF UsedInv, Used
<1>4. k \in Conn /\ k.owner = b.owner /\ k.resume = b.resume /\ k.link = b.link
      /\ (Told(k) => Told(b)) /\ m \in {"detach", "leave", "stop"}
  <2>0. b.in # <<>>
    BY <1>2
  <2> HIDE DEF b
  <2>1. b.in \in Seq({"detach", "leave", "stop"})
    BY <1>3 DEF Conn
  <2>2. Tail(b.in) \in Seq({"detach", "leave", "stop"}) /\ m \in {"detach", "leave", "stop"}
    BY <2>0, <2>1
  <2>3. k \in Conn /\ k.owner = b.owner /\ k.resume = b.resume /\ k.link = b.link /\ k.out = b.out
    BY <1>3, <2>2 DEF Conn
  <2>4. QED
    BY <2>2, <2>3 DEF Told
<1> HIDE DEF k, m
<1>5. departing' \in [Conns -> BOOLEAN] /\ \A d \in Conns : departing[d] => departing'[d]
  <2> DEFINE f == departing[c] \/ m = "detach"
  <2>1. f \in BOOLEAN /\ (departing[c] => f)
    OBVIOUS
  <2>2. departing' = [departing EXCEPT ![c] = f]
    BY <1>0, <1>2
  <2> HIDE DEF f
  <2>3. QED
    BY <1>0, <2>1, <2>2
<1>6. RegistryOK(Registry') /\ Calmer(Registry, Registry')
  BY <1>0, <1>1, <1>2, <1>3, <1>4, <1>5, LinkStep
<1>7. said' \subseteq Conns /\ DepartedInv'
  <2>1. said \subseteq Conns
    BY <1>0 DEF Typed
  <2>2. m = "detach" => departing'[c]
    BY <1>0, <1>2
  <2>3. \A d \in said : departing'[d]
    BY <1>0, <1>5, <2>1 DEF DepartedInv
  <2>4. \A d \in said' : departing'[d]
    BY <1>2, <2>2, <2>3
  <2>5. said' \subseteq Conns
    BY <1>2, <2>1
  <2>6. QED
    BY <2>4, <2>5 DEF DepartedInv
<1>8. SlotInv'
  <2>1. \A d \in Conns : IsPlain(d)' <=> IsPlain(d)
    BY <1>0, <1>6, CalmSays
  <2>2. QED
    BY <1>0, <1>1, <2>1 DEF SlotInv
<1>9. /\ rd' \in [Conns -> {"none", "reading", "ending", "gone"}]
      /\ \A d \in Conns : rd'[d] # rd[d] => d = c /\ rd[d] # "none" /\ m = "detached"
      /\ m \in {"detach", "leave", "stop", "detached"}
  BY <1>0, <1>1, <1>4 DEF Typed
<1>10. QED
  BY <1>1, <1>2, <1>3, <1>6, <1>7, <1>8, <1>9, PostKeeps

(* A reader that comes to the end of its socket.                           *)
LEMMA ReaderEofKeeps ==
  ASSUME SessionsIInv, NEW c \in Conns, ReaderEof(c)
  PROVE  SessionsIInv'
<1>0. Typed /\ UsedInv /\ SlotInv /\ DepartedInv
  BY DEF SessionsIInv
<1>1. UNCHANGED <<slot, up, quit, win, seen, said>>
      /\ UNCHANGED <<conns, departing, sessions, retained, torn, drains>>
  BY DEF ReaderEof
<1> DEFINE e == IF slot = c THEN "ending" ELSE "gone"
<1>2. /\ rd[c] = "reading" /\ rd' = [rd EXCEPT ![c] = e]
      /\ queue' = Append(queue, [k |-> "detached", c |-> c])
  BY DEF ReaderEof, Post
<1>3. c \in Used
  BY <1>0, <1>2 DEF UsedInv
<1>4. RegistryOK(Registry') /\ Calmer(Registry, Registry')
  <2>1. Registry' = Registry
    BY <1>1 DEF Registry
  <2>2. QED
    BY <1>0, <2>1, CalmerSame DEF Typed
<1>5. rd \in [Conns -> {"none", "reading", "ending", "gone"}] /\ e \in {"ending", "gone"}
      /\ (e = "ending" <=> slot = c)
  BY <1>0 DEF Typed
<1> HIDE DEF e
<1>6. /\ rd' \in [Conns -> {"none", "reading", "ending", "gone"}] /\ rd'[c] = e
      /\ \A d \in Conns : rd'[d] # rd[d] => d = c /\ rd[d] # "none"
      /\ \A d \in Conns : d # c => rd'[d] = rd[d]
  BY <1>2, <1>5
<1>7. SlotInv'
  BY <1>0, <1>1, <1>2, <1>5, <1>6 DEF SlotInv, IsPlain
<1>8. said' \subseteq Conns /\ DepartedInv'
  BY <1>0, <1>1 DEF Typed, DepartedInv
<1> DEFINE k == "detached"
<1>9. /\ k \in {"detach", "leave", "stop", "detached"} /\ k = "detached"
      /\ queue' = Append(queue, [k |-> k, c |-> c])
  BY <1>2
<1>10. \A d \in Conns : rd'[d] # rd[d] => d = c /\ rd[d] # "none" /\ k = "detached"
  BY <1>6
<1> HIDE DEF k
<1>11. QED
  BY <1>1, <1>3, <1>4, <1>6, <1>7, <1>8, <1>9, <1>10, PostKeeps

(* A reader that lets go of the slot.                                      *)
LEMMA ReaderDropsKeeps ==
  ASSUME SessionsIInv, NEW c \in Conns, ReaderDrops(c)
  PROVE  SessionsIInv'
<1>0. Typed /\ UsedInv /\ QueueInv /\ ViewsInv /\ SlotInv /\ PlainInv /\ DepartedInv
  BY DEF SessionsIInv
<1>1. UNCHANGED <<queue, up, quit, win, seen, said>>
      /\ UNCHANGED <<conns, departing, sessions, retained, torn, drains>>
  BY DEF ReaderDrops
<1>2. rd[c] = "ending" /\ rd' = [rd EXCEPT ![c] = "gone"] /\ slot' = NoConn
  BY DEF ReaderDrops
<1>3. Registry' = Registry /\ Used' = Used
  BY <1>1 DEF Registry, Used
<1>4. RegistryOK(Registry') /\ Calmer(Registry, Registry')
  BY <1>0, <1>3, CalmerSame DEF Typed
<1>5. /\ rd \in [Conns -> {"none", "reading", "ending", "gone"}]
      /\ rd' \in [Conns -> {"none", "reading", "ending", "gone"}] /\ rd'[c] = "gone"
      /\ \A d \in Conns : d # c => rd'[d] = rd[d]
      /\ \A d \in Conns : rd'[d] = "reading" <=> rd[d] = "reading"
  BY <1>0, <1>2 DEF Typed
<1>6. Typed'
  BY <1>0, <1>1, <1>2, <1>3, <1>5, SessionsAssumption DEF Typed, NoConn
<1>7. UsedInv'
  <2>1. \A d \in Conns : (rd'[d] # "none" \/ torn'[d] = 1 \/ slot' = d \/ d \in seen'
                            \/ Told(conns'[d])) => d \in Used'
    BY <1>0, <1>1, <1>2, <1>3, <1>5 DEF UsedInv, Conns, NoConn
  <2>2. QED
    BY <1>0, <1>1, <1>3, <2>1 DEF UsedInv
<1>8. QueueInv' /\ ViewsInv'
  BY <1>0, <1>1, <1>3 DEF QueueInv, ViewsInv
<1>9. SlotInv'
  BY <1>0, <1>1, <1>2, <1>5 DEF SlotInv, IsPlain, Conns, NoConn
<1>10. PlainInv'
  <2>1. DOMAIN sessions \subseteq Conns /\ \A i \in 1..Len(queue) : queue[i].c \in Conns
    <3>1. queue \in Seq(Event)
      BY <1>0 DEF Typed
    <3>2. \A i \in 1..Len(queue) : queue[i] \in Event
      BY <3>1
    <3>3. QED
      BY <1>0, <3>2, SessionTypes DEF Event
  <2>2. QED
    BY <1>0, <1>1, <1>5, <2>1 DEF PlainInv, IsPlain, Establishes, Detaches
<1>11. WindowInv'
  BY <1>1, <1>4, CalmWindows
<1>12. DepartedInv'
  BY <1>0, <1>1 DEF DepartedInv
<1>13. QED
  BY <1>6, <1>7, <1>8, <1>9, <1>10, <1>11, <1>12 DEF SessionsIInv

-----------------------------------------------------------------------------
(* Connections.                                                            *)

(* A new connection has the next number, and nothing is known of it.       *)
LEMMA NewConnection ==
  ASSUME SessionsIInv, NEW m, m = NextId, m \in Conns
  PROVE  /\ m \notin Used /\ rd[m] = "none" /\ torn[m] = 0 /\ slot # m /\ m \notin seen
         /\ m \notin Held(Registry) /\ \A t \in Held(Registry) : View(Registry, t) # m
         /\ \A i \in 1..Len(queue) : queue[i].c # m
         /\ \E n \in 0..MaxConns : Used \cup {m} = 1..n
<1>0. Typed /\ UsedInv
  BY DEF SessionsIInv
<1>1. PICK n \in 0..MaxConns : Used = 1..n
  BY <1>0 DEF UsedInv
<1>2. m = n + 1
  <2>1. MaxConns \in Nat
    BY SessionsAssumption
  <2>2. n \in Nat
    BY <2>1
  <2>3. Cardinality(1..n) = IF 1 > n THEN 0 ELSE n - 1 + 1
    BY <2>2, FS_Interval
  <2>4. Cardinality(1..n) = n
    BY <2>2, <2>3
  <2>5. QED
    BY <1>1, <2>4 DEF NextId
<1>3. m \notin Used
  BY <1>1, <1>2
<1>4. \E k \in 0..MaxConns : Used \cup {m} = 1..k
  <2>1. MaxConns \in Nat
    BY SessionsAssumption
  <2>2. n + 1 \in 0..MaxConns
    BY <1>2, <2>1 DEF Conns
  <2>3. Used \cup {m} = 1..(n + 1)
    BY <1>1, <1>2, <2>1
  <2>4. QED
    BY <2>2, <2>3
<1>5. rd[m] = "none" /\ torn[m] = 0 /\ slot # m /\ m \notin seen
  <2>1. torn[m] \in 0..1
    BY <1>0, SessionTypes
  <2>2. QED
    BY <1>0, <1>3, <2>1 DEF UsedInv
<1>6. m \notin Held(Registry) /\ \A t \in Held(Registry) : View(Registry, t) # m
  BY <1>0, <1>3, SessionTypes DEF UsedInv
<1>7. \A i \in 1..Len(queue) : queue[i].c # m
  BY <1>0, <1>3 DEF UsedInv
<1>8. QED
  BY <1>3, <1>4, <1>5, <1>6, <1>7

(* What the handshake of a connection changes: the connection is m.        *)
Handshake(owner, resume, m) ==
    /\ m \in Conns /\ conns' \in [Conns -> Conn]
    /\ \A d \in Conns \ {m} : conns'[d] = conns[d] /\ rd'[d] = rd[d]
    /\ conns'[m].owner = owner /\ conns'[m].resume = resume /\ ~Told(conns'[m])
    /\ Used' = Used \cup {m}
    /\ RegistryOK(Registry') /\ Held(Registry') = Held(Registry)
    /\ \A t : View(Registry', t) = View(Registry, t)
    /\ rd' \in [Conns -> {"none", "reading", "ending", "gone"}]
    /\ UNCHANGED <<departing, up, sessions, torn, quit>>
    /\ \/ /\ owner # Plain \/ slot = NoConn
          /\ rd'[m] = "reading" /\ slot' = IF owner = Plain THEN m ELSE slot
          /\ queue' = Append(queue, [k |-> "established", c |-> m])
       \/ rd'[m] = "gone" /\ UNCHANGED <<slot, queue>>

(* That is what it changes.                                                *)
LEMMA ConnectedShape ==
  ASSUME SessionsIInv, NEW owner \in Gui \cup {Plain}, NEW resume \in 0..MaxConns,
         NEW sent \in Seq({"detach", "leave", "stop"}), Connected(owner, resume, sent),
         NEW m, m = NextId
  PROVE  Handshake(owner, resume, m)
<1>0. Typed /\ conns \in [Conns -> Conn]
      /\ rd \in [Conns -> {"none", "reading", "ending", "gone"}]
  BY SessionTypes DEF SessionsIInv, Typed
<1> DEFINE admitted == owner # Plain \/ slot = NoConn
           l == IF admitted THEN "up" ELSE "shut"
           k == [owner |-> owner, resume |-> resume, in |-> sent, out |-> <<>>, link |-> l]
           x == IF admitted THEN "reading" ELSE "gone"
<1>1. /\ m \in Conns /\ conns' = [conns EXCEPT ![m] = k] /\ rd' = [rd EXCEPT ![m] = x]
      /\ slot' = IF admitted /\ owner = Plain THEN m ELSE slot
      /\ IF admitted THEN queue' = Append(queue, [k |-> "established", c |-> m])
         ELSE UNCHANGED queue
      /\ UNCHANGED <<departing, up, sessions, drains, retained, quit, torn>>
  BY DEF Connected, Post
<1>2. l \in {"up", "shut"} /\ x \in {"reading", "gone"}
  OBVIOUS
<1>c. \/ admitted /\ x = "reading"
      \/ ~admitted /\ x = "gone"
  OBVIOUS
<1> HIDE DEF l, x
<1>3. k \in Conn /\ k.owner = owner /\ k.resume = resume /\ k.link # "none" /\ k.out = <<>>
  <2>1. <<>> \in Seq({"token", "detached", "shutting"})
    OBVIOUS
  <2>2. QED
    BY <1>2, <2>1 DEF Conn
<1>4. ~Told(k)
  BY <1>3 DEF Told
<1> HIDE DEF k
<1>5. /\ conns' \in [Conns -> Conn] /\ conns'[m] = k
      /\ \A d \in Conns : d # m => conns'[d] = conns[d] /\ rd'[d] = rd[d]
      /\ rd' \in [Conns -> {"none", "reading", "ending", "gone"}] /\ rd'[m] = x
  BY <1>0, <1>1, <1>2, <1>3
<1>6. Used' = Used \cup {m}
  BY <1>1, <1>3, <1>5 DEF Used
<1>7. Held(Registry') = Held(Registry) /\ \A t : View(Registry', t) = View(Registry, t)
  BY <1>1, RegistryParts, RegistryPartsNext DEF Held, View
<1>8. RegistryOK(Registry')
  <2> DEFINE r == Registry
             n == Registry'
  <2>1. /\ RegistryOK(r) /\ IsRegistry(n) /\ n.sessions = r.sessions /\ n.retained = r.retained
        /\ n.torn = r.torn /\ n.drains = r.drains /\ n.departing = r.departing
        /\ n.conns = conns' /\ r.conns = conns
    BY <1>0, <1>1, RegistryParts, RegistryPartsNext DEF Typed
  <2>2. Held(n) = Held(r) /\ \A t : View(n, t) = View(r, t)
    BY <1>7
  <2> HIDE DEF r, n
  <2>3. \A t \in Held(r) : t \in Conns
    BY <2>1 DEF RegistryOK, Held
  <2>4. \A t \in Conns : InUse(r, t) => InUse(n, t)
    BY <1>3, <1>5, <2>1 DEF InUse
  <2>5. RegistryOK(n)
    BY <1>5, <2>1, <2>2, <2>3, <2>4 DEF RegistryOK
  <2>6. QED
    BY <2>5 DEF n
<1>9. \/ /\ owner # Plain \/ slot = NoConn
         /\ rd'[m] = "reading" /\ slot' = IF owner = Plain THEN m ELSE slot
         /\ queue' = Append(queue, [k |-> "established", c |-> m])
      \/ rd'[m] = "gone" /\ UNCHANGED <<slot, queue>>
  <2>1. CASE admitted /\ x = "reading"
    BY <1>1, <1>5, <2>1
  <2>2. CASE ~admitted /\ x = "gone"
    BY <1>1, <1>5, <2>2
  <2>3. QED
    BY <1>c, <2>1, <2>2
<1>10. QED
  BY <1>1, <1>3, <1>4, <1>5, <1>6, <1>7, <1>8, <1>9 DEF Handshake

(* A new connection: what the daemon then knows of it.                     *)
LEMMA ConnectedKeeps ==
  ASSUME SessionsIInv, NEW owner \in Gui \cup {Plain}, NEW resume \in 0..MaxConns,
         NEW sent \in Seq({"detach", "leave", "stop"}), Connected(owner, resume, sent),
         UNCHANGED <<seen, said>>, win' \in [Gui -> Win], WindowInv',
         \A w \in Gui : win'[w].st \in {"lost", "pending"} => win'[w].failed < AttemptCap
  PROVE  SessionsIInv'
<1>0. Typed /\ UsedInv /\ QueueInv /\ ViewsInv /\ SlotInv /\ PlainInv /\ DepartedInv
  BY DEF SessionsIInv
<1> DEFINE L == Len(queue)
           Posted(m) == queue' = Append(queue, [k |-> "established", c |-> m])
<1>m. PICK m : m = NextId
  OBVIOUS
<1>h. Handshake(owner, resume, m)
  BY <1>m, ConnectedShape
<1>1. /\ m \in Conns
      /\ \A d \in Conns : d # m => conns'[d] = conns[d] /\ rd'[d] = rd[d]
      /\ conns'[m].owner = owner /\ ~Told(conns'[m])
      /\ Used' = Used \cup {m}
      /\ RegistryOK(Registry') /\ Held(Registry') = Held(Registry)
      /\ \A t : View(Registry', t) = View(Registry, t)
      /\ rd' \in [Conns -> {"none", "reading", "ending", "gone"}]
      /\ UNCHANGED <<departing, up, sessions, torn, quit>>
  BY <1>h DEF Handshake
<1>2. \/ /\ owner # Plain \/ slot = NoConn
         /\ rd'[m] = "reading" /\ slot' = IF owner = Plain THEN m ELSE slot
         /\ Posted(m)
      \/ rd'[m] = "gone" /\ UNCHANGED <<slot, queue>>
  BY <1>h DEF Handshake
<1>3. /\ m \notin Used /\ rd[m] = "none" /\ torn[m] = 0 /\ slot # m /\ m \notin seen
      /\ m \notin Held(Registry) /\ \A t \in Held(Registry) : View(Registry, t) # m
      /\ \A i \in 1..Len(queue) : queue[i].c # m
      /\ \E n \in 0..MaxConns : Used \cup {m} = 1..n
  BY <1>1, <1>m, NewConnection
<1>q. /\ queue \in Seq(Event) /\ L \in Nat
      /\ \A i \in 1..L : queue[i] \in Event
  BY <1>0 DEF Typed
<1>qc. \A i \in 1..L : queue[i].c \in Conns
  BY <1>q DEF Event
<1>n. /\ queue' \in Seq(Event) /\ L <= Len(queue') /\ Len(queue') \in Nat
      /\ \A i \in 1..L : queue'[i] = queue[i]
      /\ \/ Len(queue') = L
         \/ Posted(m) /\ Len(queue') = L + 1 /\ queue'[L + 1] = [k |-> "established", c |-> m]
  <2>1. CASE Posted(m)
    <3> DEFINE e == [k |-> "established", c |-> m]
    <3>1. e \in Event /\ queue' = Append(queue, e)
      BY <1>1, <2>1 DEF Event
    <3> HIDE DEF e
    <3>2. /\ queue' \in Seq(Event) /\ L <= Len(queue') /\ Len(queue') \in Nat
          /\ \A i \in 1..L : queue'[i] = queue[i]
          /\ Len(queue') = L + 1 /\ queue'[L + 1] = e
      BY <1>q, <3>1
    <3>3. QED
      BY <2>1, <3>2 DEF e
  <2>2. CASE UNCHANGED queue
    BY <1>q, <2>2
  <2>3. QED
    BY <1>2, <2>1, <2>2
<1> HIDE DEF L
<1>i. \A i \in 1..Len(queue') :
         \/ i \in 1..L /\ queue'[i] = queue[i] /\ queue'[i].c # m
         \/ i = L + 1 /\ Posted(m) /\ queue'[i].k = "established" /\ queue'[i].c = m
  BY <1>3, <1>n, <1>q DEF L
<1>o. /\ \A d \in Conns : d # m => (IsPlain(d)' <=> IsPlain(d))
      /\ IsPlain(m)' <=> owner = Plain
  BY <1>1 DEF IsPlain
<1>s. DOMAIN sessions \subseteq Conns /\ m \notin DOMAIN sessions
      /\ Held(Registry) \subseteq Used
  BY <1>0, <1>3, SessionTypes
<1>4. Typed'
  <2>1. slot' \in 0..MaxConns
    BY <1>0, <1>1, <1>2, SessionsAssumption DEF Typed, Conns
  <2>2. QED
    BY <1>0, <1>1, <1>n, <2>1 DEF Typed
<1>5. UsedInv'
  <2>1. ASSUME NEW d \in Conns, \/ rd'[d] # "none" \/ torn'[d] = 1 \/ slot' = d \/ d \in seen'
                                \/ Told(conns'[d])
        PROVE  d \in Used'
    BY <1>0, <1>1, <1>2, <2>1 DEF UsedInv
  <2>2. \A i \in 1..Len(queue') : queue'[i].c \in Used'
    BY <1>0, <1>1, <1>i, <1>q DEF UsedInv, L
  <2>3. \A t \in Held(Registry') : View(Registry', t) \in Used'
    BY <1>0, <1>1 DEF UsedInv
  <2>4. QED
    BY <1>1, <1>3, <2>1, <2>2, <2>3 DEF UsedInv
<1>6. QueueInv'
  <2>1. ASSUME NEW i \in 1..Len(queue'), queue'[i].k = "established"
        PROVE  /\ queue'[i].c \notin Held(Registry') /\ torn'[queue'[i].c] = 0
               /\ \A t \in Held(Registry') : View(Registry', t) # queue'[i].c
               /\ ~Told(conns'[queue'[i].c]) /\ queue'[i].c \notin seen'
               /\ \A j \in 1..Len(queue') : queue'[j].c = queue'[i].c => i <= j
    <3>1. CASE i \in 1..L /\ queue'[i] = queue[i] /\ queue'[i].c # m
      <4> DEFINE x == queue'[i].c
      <4>1. queue[i].k = "established" /\ queue[i].c = x /\ x \in Conns /\ x # m
        BY <1>qc, <2>1, <3>1
      <4>2. /\ x \notin Held(Registry) /\ torn[x] = 0
            /\ \A t \in Held(Registry) : View(Registry, t) # x
            /\ ~Told(conns[x]) /\ x \notin seen
            /\ \A j \in 1..L : queue[j].c = x => i <= j
        BY <1>0, <3>1, <4>1 DEF QueueInv, L
      <4>3. \A j \in 1..Len(queue') : queue'[j].c = x => i <= j
        BY <1>i, <1>q, <3>1, <4>1, <4>2
      <4> HIDE DEF x
      <4>4. /\ x \notin Held(Registry') /\ torn'[x] = 0
            /\ \A t \in Held(Registry') : View(Registry', t) # x
            /\ ~Told(conns'[x]) /\ x \notin seen'
        BY <1>1, <4>1, <4>2
      <4>5. QED
        BY <4>3, <4>4 DEF x
    <3>2. CASE i = L + 1 /\ queue'[i].c = m
      <4>1. ASSUME NEW j \in 1..Len(queue'), queue'[j].c = m PROVE i <= j
        <5>1. j = L + 1
          BY <1>i, <4>1
        <5>2. QED
          BY <1>q, <3>2, <5>1
      <4>2. QED
        BY <1>1, <1>3, <3>2, <4>1
    <3>3. QED
      BY <1>i, <3>1, <3>2
  <2>2. QED
    BY <2>1 DEF QueueInv
<1>7. ViewsInv'
  BY <1>0, <1>1 DEF ViewsInv
<1>8. SlotInv'
  <2>1. \A c \in Conns : rd'[c] = "ending" => slot' = c
    BY <1>0, <1>1, <1>2 DEF SlotInv, Conns, NoConn
  <2>2. \A c \in Conns : slot' = c => IsPlain(c)' /\ rd'[c] \in {"reading", "ending"}
    BY <1>0, <1>1, <1>2, <1>3, <1>o DEF SlotInv
  <2>3. \A c \in Conns : IsPlain(c)' /\ rd'[c] = "reading" => slot' = c
    BY <1>0, <1>1, <1>2, <1>3, <1>o DEF SlotInv, Conns, NoConn
  <2>4. QED
    BY <2>1, <2>2, <2>3 DEF SlotInv
<1>9. PlainInv'
  <2>0. ASSUME NEW x, NEW a, NEW b, Detaches(x, a, b)
        PROVE  \E j \in 1..Len(queue') : queue'[j].k = "detached" /\ queue'[j].c = x
                                         /\ a < j /\ j < b
    <3>1. PICK j \in 1..Len(queue) : queue[j].k = "detached" /\ queue[j].c = x /\ a < j /\ j < b
      BY <2>0 DEF Detaches
    <3>2. j \in 1..Len(queue') /\ queue'[j] = queue[j]
      BY <1>n, <1>q, <3>1 DEF L
    <3>3. QED
      BY <3>1, <3>2
  <2>l. ASSUME NEW x, Detaches(x, 0, L + 1) PROVE Detaches(x, 0, Len(queue) + 1)'
    <3>1. PICK j \in 1..Len(queue') : queue'[j].k = "detached" /\ queue'[j].c = x
                                      /\ 0 < j /\ j < L + 1
      BY <2>0, <2>l
    <3>2. j < Len(queue') + 1
      BY <1>n, <1>q, <3>1
    <3>3. QED
      BY <3>1, <3>2 DEF Detaches
  <2>1. \A x, y \in DOMAIN sessions' : IsPlain(x)' /\ IsPlain(y)' => x = y
    BY <1>0, <1>1, <1>o, <1>s DEF PlainInv
  <2>2. ASSUME NEW x \in DOMAIN sessions', IsPlain(x)', rd'[x] # "reading"
        PROVE  Detaches(x, 0, Len(queue) + 1)'
    <3>1. x \in DOMAIN sessions /\ IsPlain(x) /\ rd[x] # "reading"
      BY <1>1, <1>o, <1>s, <2>2
    <3>2. Detaches(x, 0, L + 1)
      BY <1>0, <3>1 DEF PlainInv, L
    <3>3. QED
      BY <2>l, <3>2
  <2>3. ASSUME NEW i \in 1..L, Establishes(i)'
        PROVE  Establishes(i) /\ queue'[i] = queue[i] /\ queue[i].c \in Conns /\ queue[i].c # m
    <3>1. queue'[i] = queue[i] /\ queue[i].c \in Conns /\ queue[i].c # m
      BY <1>3, <1>n, <1>qc DEF L
    <3>2. queue'[i].k = "established" /\ conns'[queue'[i].c].owner = Plain
      BY <2>3 DEF Establishes, IsPlain
    <3>3. QED
      BY <1>1, <3>1, <3>2 DEF Establishes, IsPlain
  <2>4. ASSUME NEW i \in 1..L, Establishes(i), rd'[queue[i].c] # "reading"
        PROVE  Detaches(queue[i].c, 0, L + 1)
    <3>1. rd[queue[i].c] # "reading"
      BY <1>1, <1>3, <1>qc, <2>4 DEF L
    <3>2. QED
      BY <1>0, <2>4, <3>1 DEF PlainInv, L
  <2>5. ASSUME NEW i \in 1..Len(queue'), Establishes(i)', i \notin 1..L
        PROVE  /\ i = L + 1 /\ queue'[i].c = m /\ owner = Plain /\ slot = NoConn
               /\ rd'[m] = "reading"
               /\ \A x \in Conns : IsPlain(x) => rd[x] # "reading"
    <3>1. i = L + 1 /\ Posted(m) /\ queue'[i].c = m
      BY <1>i, <2>5
    <3>2. conns'[m].owner = Plain
      BY <2>5, <3>1 DEF Establishes, IsPlain
    <3>3. owner = Plain /\ slot = NoConn /\ rd'[m] = "reading"
      <4>1. queue' # queue
        BY <1>q, <3>1, <1>i, <1>n, <2>5 DEF L
      <4>2. QED
        BY <1>1, <1>2, <3>2, <4>1
    <3>4. \A x \in Conns : IsPlain(x) => rd[x] # "reading"
      BY <1>0, <3>3 DEF SlotInv, Conns, NoConn
    <3>5. QED
      BY <3>1, <3>3, <3>4
  <2>6. ASSUME NEW i \in 1..Len(queue'), Establishes(i)', rd'[queue'[i].c] # "reading"
        PROVE  Detaches(queue[i].c, 0, Len(queue) + 1)'
    <3>1. i \in 1..L
      BY <2>5, <2>6
    <3>2. Establishes(i) /\ queue'[i] = queue[i]
      BY <2>3, <2>6, <3>1
    <3> DEFINE x == queue[i].c
    <3>3. Detaches(x, 0, L + 1) /\ queue'[i].c = x
      BY <2>4, <2>6, <3>1, <3>2
    <3> HIDE DEF x
    <3>4. \E j \in 1..Len(queue') : queue'[j].k = "detached" /\ queue'[j].c = x
                                     /\ 0 < j /\ j < L + 1
      BY <2>0, <3>3
    <3>5. L + 1 <= Len(queue') + 1
      BY <1>n, <1>q
    <3>6. \E j \in 1..Len(queue') : queue'[j].k = "detached" /\ queue'[j].c = x
                                     /\ 0 < j /\ j < Len(queue') + 1
      BY <1>n, <1>q, <3>4, <3>5
    <3>7. QED
      BY <3>3, <3>6 DEF Detaches
  <2>7. ASSUME NEW i \in 1..Len(queue'), Establishes(i)', NEW x \in DOMAIN sessions', IsPlain(x)'
        PROVE  \E j \in 1..Len(queue') : queue'[j].k = "detached" /\ queue'[j].c = x
                                         /\ 0 < j /\ j < i
    <3>1. x \in DOMAIN sessions /\ IsPlain(x) /\ x \in Conns
      BY <1>1, <1>o, <1>s, <2>7
    <3>2. Detaches(x, 0, i)
      <4>1. CASE i \in 1..L
        BY <1>0, <2>3, <2>7, <3>1, <4>1 DEF PlainInv, L
      <4>2. CASE i \notin 1..L
        BY <1>0, <2>5, <2>7, <3>1, <4>2 DEF PlainInv, L
      <4>3. QED
        BY <4>1, <4>2
    <3>3. QED
      BY <2>0, <3>2
  <2>8. ASSUME NEW i \in 1..Len(queue'), NEW h \in 1..Len(queue'), h < i,
               Establishes(i)', Establishes(h)'
        PROVE  \E j \in 1..Len(queue') : queue'[j].k = "detached" /\ queue'[j].c = queue'[h].c
                                         /\ h < j /\ j < i
    <3>1. h \in 1..L
      BY <1>i, <1>q, <2>8
    <3>2. Establishes(h) /\ queue'[h] = queue[h] /\ queue[h].c \in Conns
      BY <2>3, <2>8, <3>1
    <3> DEFINE x == queue[h].c
    <3>3. Detaches(x, h, i)
      <4>1. CASE i \in 1..L
        <5>1. Establishes(i)
          BY <2>3, <2>8, <4>1
        <5>2. QED
          BY <1>0, <2>8, <3>1, <3>2, <4>1, <5>1 DEF PlainInv, L
      <4>2. CASE i \notin 1..L
        <5>1. i = L + 1 /\ rd[x] # "reading"
          BY <2>5, <2>8, <3>2, <4>2 DEF Establishes
        <5>2. Detaches(x, 0, i)
          BY <1>0, <3>1, <3>2, <5>1 DEF PlainInv, L
        <5>3. PICK j \in 1..Len(queue) : queue[j].k = "detached" /\ queue[j].c = x /\ j < i
          BY <5>2 DEF Detaches
        <5>4. h <= j /\ h # j
          <6>1. queue[h].k = "established"
            BY <3>2 DEF Establishes
          <6>2. h <= j
            BY <1>0, <3>1, <5>3, <6>1 DEF QueueInv, L
          <6>3. QED
            BY <5>3, <6>1, <6>2
        <5>5. h < j
          BY <1>q, <3>1, <5>3, <5>4 DEF L
        <5>6. QED
          BY <5>3, <5>5 DEF Detaches
      <4>3. QED
        BY <4>1, <4>2
    <3>4. queue'[h].c = x
      BY <3>2
    <3> HIDE DEF x
    <3>5. \E j \in 1..Len(queue') : queue'[j].k = "detached" /\ queue'[j].c = x /\ h < j /\ j < i
      BY <2>0, <3>3
    <3>6. QED
      BY <3>4, <3>5
  <2>9. QED
    BY <2>1, <2>2, <2>6, <2>7, <2>8 DEF PlainInv, Detaches
<1>10. DepartedInv'
  BY <1>0, <1>1 DEF DepartedInv
<1>11. QED
  BY <1>4, <1>5, <1>6, <1>7, <1>8, <1>9, <1>10 DEF SessionsIInv

(* What a window does with a connection of its own, made with its token.   *)
Joins(owner, resume, m) ==
    /\ resume # NoConn => resume \in seen /\ owner \in Gui /\ conns[resume].owner = owner
    /\ \A x \in Gui : \/ win'[x] = win[x]
                      \/ /\ x = owner /\ win'[x].token = win[x].token /\ win[x].token = resume
                         /\ win'[x].conn = m /\ win'[x].st \in {"live", "pending"}
                         /\ win[x].st # "closed"

(* A new connection: what a window knows of it.                            *)
LEMMA ConnectedWindows ==
  ASSUME SessionsIInv, NEW owner \in Gui \cup {Plain}, NEW resume \in 0..MaxConns,
         NEW sent \in Seq({"detach", "leave", "stop"}), Connected(owner, resume, sent),
         UNCHANGED seen, NEW m, m = NextId, Joins(owner, resume, m)
  PROVE  WindowInv'
<1>0. Typed /\ UsedInv /\ WindowInv /\ seen \subseteq Used /\ Used \subseteq Conns
  BY DEF SessionsIInv, Typed, UsedInv, Used
<1>h. Handshake(owner, resume, m)
  BY ConnectedShape
<1>1. /\ m \in Conns /\ conns'[m].owner = owner /\ conns'[m].resume = resume /\ ~Told(conns'[m])
      /\ Used' = Used \cup {m}
  BY <1>h DEF Handshake
<1>2. \A d \in Conns \ {m} : conns'[d] = conns[d]
  BY <1>h DEF Handshake
<1>3. Held(Registry') = Held(Registry)
  BY <1>h DEF Handshake
<1>4. m \notin Used /\ m \notin seen
  BY <1>1, NewConnection
<1>s. \A d \in seen : d \in Conns \ {m} /\ conns'[d] = conns[d]
  BY <1>0, <1>2, <1>4
<1>j. /\ resume # NoConn => resume \in seen /\ owner \in Gui /\ conns[resume].owner = owner
      /\ \A x \in Gui : \/ win'[x] = win[x]
                        \/ /\ x = owner /\ win'[x].token = win[x].token /\ win[x].token = resume
                           /\ win'[x].conn = m /\ win'[x].st \in {"live", "pending"}
                           /\ win[x].st # "closed"
  BY DEF Joins
<1>5. ASSUME NEW x \in Gui, win'[x].token # NoConn
      PROVE  /\ win'[x].token \in seen' /\ conns'[win'[x].token].owner = x
             /\ win'[x].st # "new"
  <2>1. win'[x].token = win[x].token /\ (win'[x] = win[x] \/ win'[x].st \in {"live", "pending"})
    BY <1>j
  <2>2. win[x].token \in seen /\ conns[win[x].token].owner = x /\ win[x].st # "new"
    BY <1>0, <1>5, <2>1 DEF WindowInv
  <2>3. QED
    BY <1>s, <2>1, <2>2
<1>6. ASSUME NEW x \in Gui, win'[x].st \in {"live", "pending"}
      PROVE  /\ win'[x].conn \in Used' /\ conns'[win'[x].conn].owner = x
             /\ win'[x].token \in {win'[x].conn, conns'[win'[x].conn].resume}
  <2>1. CASE win'[x] = win[x]
    <3>1. /\ win[x].conn \in Used /\ conns[win[x].conn].owner = x
          /\ win[x].token \in {win[x].conn, conns[win[x].conn].resume}
      BY <1>0, <1>6, <2>1 DEF WindowInv
    <3>2. conns'[win[x].conn] = conns[win[x].conn]
      BY <1>0, <1>2, <1>4, <3>1
    <3>3. QED
      BY <1>1, <2>1, <3>1, <3>2
  <2>2. CASE x = owner /\ win'[x].token = win[x].token /\ win[x].token = resume /\ win'[x].conn = m
    BY <1>1, <2>2
  <2>3. QED
    BY <1>j, <2>1, <2>2
<1>7. ASSUME NEW d \in Conns, conns'[d].resume # NoConn
      PROVE  /\ conns'[d].resume \in seen' /\ conns'[d].owner \in Gui
             /\ conns'[conns'[d].resume].owner = conns'[d].owner
  <2>1. CASE d = m
    BY <1>1, <1>7, <1>j, <1>s, <2>1
  <2>2. CASE d # m
    <3>1. conns'[d] = conns[d]
      BY <1>2, <2>2
    <3>2. /\ conns[d].resume \in seen /\ conns[d].owner \in Gui
          /\ conns[conns[d].resume].owner = conns[d].owner
      BY <1>0, <1>7, <3>1 DEF WindowInv
    <3>3. QED
      BY <1>s, <3>1, <3>2
  <2>3. QED
    BY <2>1, <2>2
<1>8. \A d \in Conns : Told(conns'[d]) =>
            conns'[d].owner \in Gui /\ conns'[d].resume \notin Held(Registry')
  BY <1>0, <1>1, <1>2, <1>3 DEF WindowInv
<1>9. \A d \in seen' : conns'[d].owner \in Gui
  BY <1>0, <1>s DEF WindowInv
<1>10. ASSUME NEW d \in seen' \cap Held(Registry')
       PROVE  win'[conns'[d].owner].st = "closed" \/ win'[conns'[d].owner].token = d
  <2>1. /\ d \in seen \cap Held(Registry) /\ conns'[d].owner = conns[d].owner
        /\ conns[d].owner \in Gui
    BY <1>0, <1>3, <1>s DEF WindowInv
  <2>2. win[conns[d].owner].st = "closed" \/ win[conns[d].owner].token = d
    BY <1>0, <2>1 DEF WindowInv
  <2> DEFINE x == conns[d].owner
  <2>3. x \in Gui /\ conns'[d].owner = x /\ (win[x].st = "closed" \/ win[x].token = d)
    BY <2>1, <2>2
  <2> HIDE DEF x
  <2>4. win'[x].st = "closed" \/ win'[x].token = d
    BY <1>j, <2>3
  <2>5. QED
    BY <2>3, <2>4
<1>11. \A s, t \in seen' \cap Held(Registry') : conns'[s].owner = conns'[t].owner => s = t
  BY <1>0, <1>3, <1>s DEF WindowInv
<1>12. QED
  BY <1>5, <1>6, <1>7, <1>8, <1>9, <1>10, <1>11 DEF WindowInv

(* The first attach of a window.                                           *)
LEMMA OpenKeeps ==
  ASSUME SessionsIInv, NEW w \in Gui, Open(w)
  PROVE  SessionsIInv'
<1>0. Typed /\ WindowInv /\ win \in [Gui -> Win]
  BY DEF SessionsIInv, Typed
<1>1. PICK m : m = NextId
  OBVIOUS
<1>2. /\ Connected(w, NoConn, <<>>) /\ win[w].st = "new" /\ UNCHANGED <<seen, said>>
      /\ win' = [win EXCEPT ![w].st = "live", ![w].conn = m]
  BY <1>1 DEF Open
<1>3. win[w].token = NoConn
  BY <1>0, <1>2 DEF WindowInv
<1>4. NoConn \in 0..MaxConns /\ <<>> \in Seq({"detach", "leave", "stop"})
  BY SessionsAssumption DEF NoConn
<1>5. m \in 0..MaxConns
  <2>1. m \in Conns
    BY <1>1, <1>2 DEF Connected
  <2>2. QED
    BY <2>1 DEF Conns
<1> DEFINE v == [win[w] EXCEPT !.st = "live", !.conn = m]
<1>6. v \in Win /\ v.st = "live" /\ v.conn = m /\ v.token = NoConn
  <2>1. win[w] \in Win
    BY <1>0
  <2>2. QED
    BY <1>3, <1>5, <2>1 DEF Win
<1>7. win' = [win EXCEPT ![w] = v]
  BY <1>0, <1>2
<1> HIDE DEF v
<1>8. /\ win' \in [Gui -> Win] /\ win'[w] = v
      /\ \A x \in Gui : x # w => win'[x] = win[x]
  BY <1>0, <1>6, <1>7
<1>9. \A x \in Gui : win'[x].st \in {"lost", "pending"} => win'[x].failed < AttemptCap
  BY <1>0, <1>6, <1>8 DEF Typed
<1>10. \A x \in Gui : \/ win'[x] = win[x]
                      \/ /\ x = w /\ win'[x].token = win[x].token /\ win[x].token = NoConn
                         /\ win'[x].conn = m /\ win'[x].st \in {"live", "pending"}
                         /\ win[x].st # "closed"
  BY <1>2, <1>3, <1>6, <1>8
<1>j. Joins(w, NoConn, m)
  BY <1>10 DEF Joins
<1>11. WindowInv'
  BY <1>1, <1>2, <1>4, <1>j, ConnectedWindows
<1>12. QED
  BY <1>2, <1>4, <1>8, <1>9, <1>11, ConnectedKeeps

(* An attempt to reconnect, with the token the window was last given.      *)
LEMMA AttemptKeeps ==
  ASSUME SessionsIInv, NEW w \in Gui, Attempt(w)
  PROVE  SessionsIInv'
<1>0. Typed /\ WindowInv /\ win \in [Gui -> Win]
  BY DEF SessionsIInv, Typed
<1>1. PICK m : m = NextId
  OBVIOUS
<1> DEFINE t == win[w].token
<1>2. /\ Connected(w, t, <<>>) /\ win[w].st = "lost" /\ UNCHANGED <<seen, said>>
      /\ win' = [win EXCEPT ![w].st = "pending", ![w].conn = m]
  BY <1>1 DEF Attempt
<1>w. win[w] \in Win
  BY <1>0
<1>4. t \in 0..MaxConns /\ <<>> \in Seq({"detach", "leave", "stop"})
  BY <1>w DEF Win
<1>3. t # NoConn => t \in seen /\ w \in Gui /\ conns[t].owner = w
  BY <1>0 DEF WindowInv
<1>5. m \in 0..MaxConns
  <2>1. m \in Conns
    BY <1>1, <1>2 DEF Connected
  <2>2. QED
    BY <2>1 DEF Conns
<1> DEFINE v == [win[w] EXCEPT !.st = "pending", !.conn = m]
<1>6. v \in Win /\ v.st = "pending" /\ v.conn = m /\ v.token = t /\ v.failed = win[w].failed
  BY <1>w, <1>5 DEF Win
<1>7. win' = [win EXCEPT ![w] = v]
  BY <1>0, <1>2
<1> HIDE DEF v
<1>8. /\ win' \in [Gui -> Win] /\ win'[w] = v
      /\ \A x \in Gui : x # w => win'[x] = win[x]
  BY <1>0, <1>6, <1>7
<1>9. \A x \in Gui : win'[x].st \in {"lost", "pending"} => win'[x].failed < AttemptCap
  BY <1>0, <1>2, <1>6, <1>8 DEF Typed
<1>10. \A x \in Gui : \/ win'[x] = win[x]
                      \/ /\ x = w /\ win'[x].token = win[x].token /\ win[x].token = t
                         /\ win'[x].conn = m /\ win'[x].st \in {"live", "pending"}
                         /\ win[x].st # "closed"
  BY <1>2, <1>6, <1>8
<1> HIDE DEF t
<1>j. Joins(w, t, m)
  BY <1>3, <1>10 DEF Joins
<1>11. WindowInv'
  BY <1>1, <1>2, <1>4, <1>j, ConnectedWindows
<1>12. QED
  BY <1>2, <1>4, <1>8, <1>9, <1>11, ConnectedKeeps

(* A plain client.                                                         *)
LEMMA PlainOpensKeeps ==
  ASSUME SessionsIInv, NEW ask \in {<<>>, <<"stop">>}, PlainOpens(ask)
  PROVE  SessionsIInv'
<1>0. Typed /\ win \in [Gui -> Win]
  BY DEF SessionsIInv, Typed
<1>1. PICK m : m = NextId
  OBVIOUS
<1>2. Connected(Plain, NoConn, ask) /\ UNCHANGED <<win, seen, said>>
  BY DEF PlainOpens
<1>3. NoConn \in 0..MaxConns /\ ask \in Seq({"detach", "leave", "stop"}) /\ Plain \in Gui \cup {Plain}
  <2>1. <<>> \in Seq({"detach", "leave", "stop"}) /\ <<"stop">> \in Seq({"detach", "leave", "stop"})
    OBVIOUS
  <2>2. NoConn \in 0..MaxConns
    BY SessionsAssumption DEF NoConn
  <2>3. QED
    BY <2>1, <2>2
<1>4. Joins(Plain, NoConn, m)
  BY <1>2 DEF Joins
<1>5. WindowInv'
  BY <1>1, <1>2, <1>3, <1>4, ConnectedWindows
<1>6. /\ win' \in [Gui -> Win]
      /\ \A x \in Gui : win'[x].st \in {"lost", "pending"} => win'[x].failed < AttemptCap
  BY <1>0, <1>2 DEF Typed
<1>7. QED
  BY <1>2, <1>3, <1>5, <1>6, ConnectedKeeps

-----------------------------------------------------------------------------
(* The specification.                                                      *)

(* A daemon that has just started, and windows that have not attached.     *)
LEMMA InitSessions ==
  Init => SessionsIInv
<1> SUFFICES ASSUME Init PROVE SessionsIInv
  OBVIOUS
<1>1. /\ conns = [c \in Conns |-> Unused] /\ rd = [c \in Conns |-> "none"]
      /\ departing = [c \in Conns |-> FALSE] /\ slot = 0 /\ queue = <<>> /\ up = TRUE
      /\ sessions = <<>> /\ drains = <<>> /\ retained = <<>> /\ quit = FALSE
      /\ torn = [c \in Conns |-> 0] /\ win = [w \in Gui |-> Window("new")]
      /\ seen = {} /\ said = {} /\ MaxConns \in Nat /\ AttemptCap \in Nat \ {0}
  BY SessionsAssumption DEF Init, NoConn
<1>2. Unused \in Conn /\ Unused.link = "none" /\ Unused.resume = 0 /\ Unused.out = <<>>
  <2>1. /\ <<>> \in Seq({"detach", "leave", "stop"}) /\ <<>> \in Seq({"token", "detached", "shutting"})
        /\ 0 \in 0..MaxConns
    BY <1>1
  <2>2. QED
    BY <2>1 DEF Unused, Conn, NoConn
<1>3. ~Told(Unused)
  BY <1>2 DEF Told
<1>4. /\ DOMAIN sessions = {} /\ DOMAIN drains = {} /\ DOMAIN retained = {} /\ Len(queue) = 0
      /\ queue \in Seq(Event)
  BY <1>1
<1>5. Held(Registry) = {}
  BY <1>4, RegistryParts DEF Held
<1>6. Used = {}
  BY <1>1, <1>2 DEF Used
<1>7. \A w \in Gui : win[w] \in Win /\ win[w].st = "new" /\ win[w].token = 0
  BY <1>1 DEF Window, Win, NoConn
<1>8. Typed
  <2>1. RegistryOK(Registry)
    BY <1>1, <1>2, <1>4, <1>5, RegistryParts DEF RegistryOK
  <2>2. win \in [Gui -> Win]
    BY <1>1, <1>7
  <2>3. rd \in [Conns -> {"none", "reading", "ending", "gone"}]
    BY <1>1
  <2>4. slot \in 0..MaxConns /\ up \in BOOLEAN /\ quit \in BOOLEAN
    <3>1. 0 \in 0..MaxConns
      BY <1>1
    <3>2. slot \in 0..MaxConns
      BY <1>1, <3>1
    <3>3. up \in BOOLEAN /\ quit \in BOOLEAN
      BY <1>1
    <3>4. QED
      BY <3>2, <3>3
  <2>5. QED
    BY <1>1, <1>4, <1>7, <2>1, <2>2, <2>3, <2>4 DEF Typed
<1>9. UsedInv
  <2>1. 0 \in 0..MaxConns /\ Used = 1..0
    BY <1>1, <1>6
  <2>2. \A c \in Conns : ~(rd[c] # "none" \/ torn[c] = 1 \/ slot = c \/ c \in seen \/ Told(conns[c]))
    BY <1>1, <1>3 DEF Conns
  <2>3. QED
    BY <1>4, <1>5, <2>1, <2>2 DEF UsedInv
<1>10. QueueInv /\ ViewsInv /\ PlainInv
  BY <1>4, <1>5 DEF QueueInv, ViewsInv, PlainInv
<1>11. SlotInv
  BY <1>1 DEF SlotInv, Conns
<1>12. WindowInv
  BY <1>1, <1>2, <1>3, <1>5, <1>7 DEF WindowInv, NoConn
<1>13. DepartedInv
  BY <1>1 DEF DepartedInv
<1>14. QED
  BY <1>8, <1>9, <1>10, <1>11, <1>12, <1>13 DEF SessionsIInv

(* Every step keeps the invariant.                                         *)
LEMMA NextSessions ==
  SessionsIInv /\ [Next]_vars => SessionsIInv'
<1> SUFFICES ASSUME SessionsIInv, [Next]_vars PROVE SessionsIInv'
  OBVIOUS
<1>1. CASE \E c \in Conns : Cut(c) \/ HalfClose(c) \/ Reader(c) \/ DrainPasses(c)
  BY <1>1, CutKeeps, HalfCloseKeeps, ReaderReadsKeeps, ReaderEofKeeps, ReaderDropsKeeps,
     DrainPassesKeeps DEF Reader
<1>2. CASE \E w \in Gui : \/ Open(w) \/ Reconnect(w) \/ Reading(w)
                          \/ Close(w) \/ AskToLeave(w)
  BY <1>2, OpenKeeps, AttemptKeeps, AttemptFailsKeeps, ReceiveKeeps, HangupKeeps, CloseKeeps,
     AskToLeaveKeeps DEF Reconnect, Reading
<1>3. CASE PlainOpens(<<>>) \/ PlainOpens(<<"stop">>)
  BY <1>3, PlainOpensKeeps
<1>4. CASE Handle
  BY <1>4, HandleKeeps
<1>5. CASE Pass
  BY <1>5, PassKeeps
<1>6. CASE UNCHANGED vars
  <2>1. /\ UNCHANGED <<rd, slot, queue, up, quit, win, seen, said>>
        /\ UNCHANGED <<conns, sessions, drains, retained, torn, departing>>
    BY <1>6 DEF vars, daemonVars
  <2>2. Registry' = Registry /\ RegistryOK(Registry)
    BY <2>1 DEF Registry, SessionsIInv, Typed
  <2>3. RegistryOK(Registry') /\ Calmer(Registry, Registry')
    BY <2>2, CalmerSame
  <2>4. QED
    BY <2>1, <2>3, QuietStep
<1>7. QED
  BY <1>1, <1>2, <1>3, <1>4, <1>5, <1>6 DEF Next

(* The invariant says what the run checks.                                 *)
LEMMA SessionsIInvSays ==
  SessionsIInv => SessionsInv
<1> SUFFICES ASSUME SessionsIInv PROVE SessionsInv
  OBVIOUS
<1>0. /\ Typed /\ ViewsInv /\ PlainInv /\ WindowInv
      /\ conns \in [Conns -> Conn] /\ departing \in [Conns -> BOOLEAN]
      /\ torn \in [Conns -> 0..1] /\ DOMAIN sessions \subseteq Conns
      /\ DOMAIN retained \subseteq Conns /\ DOMAIN drains \subseteq DOMAIN sessions
      /\ Held(Registry) = DOMAIN sessions \cup DOMAIN retained
  BY SessionTypes DEF SessionsIInv
<1>1. \A t \in Held(Registry) : View(Registry, t) = ViewOf(t) /\ View(Registry, t) \in Conns
  BY <1>0, RegistryParts DEF View, ViewOf, Typed, RegistryOK
<1>2. /\ DOMAIN sessions \cap DOMAIN retained = {}
      /\ \A c \in DOMAIN sessions : torn[c] = 0
      /\ \A t \in DOMAIN retained : torn[t] = 1
  BY <1>0, RegistryParts DEF Typed, RegistryOK
<1>3. TypeOK
  <2>1. \A c \in Conns : /\ conns[c].owner \in Gui \cup {Plain}
                         /\ conns[c].resume \in 0..MaxConns
                         /\ conns[c].link \in {"none", "up", "half", "cut", "shut"}
                         /\ conns[c].in \in Seq({"detach", "leave", "stop"})
                         /\ conns[c].out \in Seq({"token", "detached", "shutting"})
    BY <1>0 DEF Conn
  <2>2. \A c \in DOMAIN sessions : torn[c] = 0 /\ sessions[c] \in Conns
    BY <1>0, <1>1, <1>2 DEF ViewOf
  <2>3. \A t \in DOMAIN retained : torn[t] = 1 /\ retained[t] \in Conns
    BY <1>0, <1>1, <1>2 DEF ViewOf
  <2>4. \A w \in Gui : /\ win[w].st \in {"new", "live", "lost", "pending", "told", "capped",
                                         "closed"}
                       /\ win[w].failed \in 0..AttemptCap
    BY <1>0 DEF Typed, Win
  <2>5. /\ rd \in [Conns -> {"none", "reading", "ending", "gone"}]
        /\ slot \in 0..MaxConns /\ up \in BOOLEAN /\ quit \in BOOLEAN
    BY <1>0 DEF Typed
  <2>6. QED
    BY <1>0, <1>2, <2>1, <2>2, <2>3, <2>4, <2>5 DEF TypeOK
<1>4. ViewsHeldOnce
  BY <1>0, <1>1 DEF ViewsHeldOnce, ViewsInv
<1>5. OneNonMulti
  <2> DEFINE S == {c \in DOMAIN sessions : conns[c].owner = Plain}
  <2>1. S = {} \/ \E c : S = {c}
    <3>1. \A c, d \in S : c = d
      BY <1>0 DEF PlainInv, IsPlain
    <3> HIDE DEF S
    <3>2. QED
      BY <3>1
  <2> HIDE DEF S
  <2>2. Cardinality(S) = 0 \/ Cardinality(S) = 1
    BY <2>1, FS_EmptySet, FS_Singleton
  <2>3. Cardinality(S) <= 1
    BY <2>2
  <2>4. QED
    BY <2>3 DEF OneNonMulti, S
<1>6. OneViewPerWindow
  BY <1>0 DEF OneViewPerWindow, WindowInv
<1>7. QED
  BY <1>3, <1>4, <1>5, <1>6 DEF SessionsInv

(* The invariant, in every state.                                          *)
LEMMA SessionsAlways ==
  Spec => []SessionsIInv
<1>1. QED
  BY InitSessions, NextSessions, PTL DEF Spec

(* In every state of every daemon, whatever the windows do and the network *)
(* breaks: a session is torn down at most once, a view is in one place, at *)
(* most one client without multi_frontend is registered although the slot  *)
(* is taken by a reader and the session torn down by the dispatcher, and a *)
(* window has at most one view under tokens it was given                   *)
(* (handle_session_established, detach_frontend, NonMultiSlotGuard).       *)
THEOREM OneOfEach ==
  Spec => []SessionsInv
<1>1. QED
  BY SessionsAlways, SessionsIInvSays, PTL

(* No step keeps a view for a session whose reader has read its Detach.    *)
LEMMA DepartedStep ==
  ASSUME SessionsIInv, [Next]_vars
  PROVE  \A t \in DOMAIN retained' \ DOMAIN retained : t \notin said
<1>0. Typed /\ DepartedInv
  BY DEF SessionsIInv
<1>1. ASSUME Calmer(Registry, Registry')
      PROVE  \A t \in DOMAIN retained' \ DOMAIN retained : t \notin said
  BY <1>0, <1>1, RegistryParts, RegistryPartsNext DEF Calmer, DepartedInv
<1>2. CASE Handle
  <2>1. CASE Calmer(Registry, Registry')
    BY <1>1, <2>1
  <2>2. CASE Registers(Registry, Registry', queue[1].c)
    BY <2>2, RegistryParts, RegistryPartsNext DEF Registers
  <2>3. QED
    BY <1>2, <2>1, <2>2, HandleShape
<1>3. CASE Pass
  BY <1>0, <1>1, <1>3, PassShape
<1>4. CASE UNCHANGED retained
  BY <1>4
<1>5. QED
  <2>1. CASE \E c \in Conns : Cut(c) \/ HalfClose(c) \/ Reader(c) \/ DrainPasses(c)
    BY <1>4, <2>1 DEF Cut, HalfClose, Reader, ReaderReads, ReaderEof, ReaderDrops, DrainPasses,
                      daemonVars
  <2>2. CASE \E w \in Gui : \/ Open(w) \/ Reconnect(w) \/ Reading(w)
                            \/ Close(w) \/ AskToLeave(w)
    BY <1>4, <2>2 DEF Open, Reconnect, Attempt, AttemptFails, Reading, Receive, Hangup, Close,
                      AskToLeave, Connected, daemonVars
  <2>3. CASE PlainOpens(<<>>) \/ PlainOpens(<<"stop">>)
    BY <1>4, <2>3 DEF PlainOpens, Connected
  <2>4. CASE UNCHANGED vars
    BY <1>4, <2>4 DEF vars, daemonVars
  <2>5. QED
    BY <1>2, <1>3, <2>1, <2>2, <2>3, <2>4 DEF Next

(* No view is kept for a client whose reader had read its Detach by the    *)
(* time of the teardown, whichever of the three teardowns it was.          *)
THEOREM NothingKeptForTheDeparted ==
  Spec => NoViewForTheDeparted
<1>1. SessionsIInv /\ [Next]_vars
        => [\A t \in DOMAIN retained' \ DOMAIN retained : t \notin said]_vars
  BY DepartedStep
<1>2. QED
  BY <1>1, SessionsAlways, PTL DEF Spec, NoViewForTheDeparted
=============================================================================
