---------------------------- MODULE LobbyProofs ----------------------------
(***************************************************************************)
(* Proofs about Lobby: whatever a connected machine is not shown yet, or   *)
(* has not been taken note of, is on its way to it or to the server on the *)
(* connection it has now, or is still to be said. Each invariant names,    *)
(* for a linked machine, the places a piece of state can be in; Quiet      *)
(* leaves one of them.                                                     *)
(***************************************************************************)
EXTENDS Lobby, FiniteSetTheorems, SequenceTheorems, TLAPS

Stages == {"idle", "roster", "push", "activity", "read", "reply", "snap", "send",
           "left", "lastgone", "requeue"}
ConnRec == [id : Peers, mode : Modes, server_only : BOOLEAN,
            verified : BOOLEAN, refused : BOOLEAN]
OutRec  == [jukebox : Seen, roster : Seen, probe : BOOLEAN]
TaskRec == [pc : Stages, to : SUBSET ConnIds]
Secrets == {None, "current", "stale"}
ClRec   == [on : BOOLEAN, conn : ConnIds \cup {0}, say : 0..2, told : SUBSET Titles,
            mode : Modes, pw : Secrets, share : BOOLEAN,
            seeder : {"starting", "up", "down"}, seeds : SUBSET Titles,
            probing : BOOLEAN, jukebox : Seen, roster : Seen]

Types ==
  /\ Open \subseteq ConnIds
  /\ conns \in [Open -> ConnRec]
  /\ registry \subseteq Titles \X Peers
  /\ task \in [Handlers -> TaskRec]
  /\ held \in [ConnIds -> {None, "current", "overtaken"}]
  /\ inq \in [ConnIds -> Seq(Msgs)]
  /\ outq \in [ConnIds -> OutRec]
  /\ up \in [ConnIds -> BOOLEAN]
  /\ cl \in [Machines -> ClRec]
  /\ acts \in 0..MaxActs

Slots(c) == 1..Len(inq[c])

\* A machine that has a connection has one of its own; what is up is open, and
\* what is not open carries nothing. Only in playback mode is there a password;
\* only out of it, and after the Hello, has a title been announced.
Fits(r) ==
  /\ r.on <=> r.conn # 0
  /\ r.pw # None => r.mode = "playback"
  /\ r.on /\ r.told # {} => r.mode = "client" /\ r.say # 1
Wired ==
  /\ \A m \in Machines : Fits(cl[m])
  /\ \A m, n \in Machines : cl[m].on /\ cl[n].on /\ cl[m].conn = cl[n].conn => m = n
  /\ \A c \in ConnIds : up[c] => c \in Open
  /\ \A c \in ConnIds \ Open : Slots(c) = {}

Says(c, k) == \E i \in Slots(c) : inq[c][i].k = k

\* The session c is m's, if it is anybody's, and is taken for what m is.
Speaks(c, m) ==
  /\ conns[c].id \in {Anon, m}
  /\ \A i \in Slots(c) : inq[c][i].k = "hello" => inq[c][i].id = m
Named == \A c \in Open : \E m \in Machines : Speaks(c, m)
InMode(c, m) ==
  /\ conns[c].id = m => conns[c].mode = cl[m].mode
  /\ \A i \in Slots(c) : inq[c][i].k = "hello" => inq[c][i].mode = cl[m].mode

\* The server knows m on c, or will when it has read the Hello.
Greeted(c, m) == conns[c].id = m \/ Says(c, "hello")

\* A title that m has announced is listed, or the server will read of it when it
\* knows whose it is.
Announces(c, m, t) ==
  \E i \in Slots(c) :
    /\ inq[c][i].k = "announce" /\ inq[c][i].t = t
    /\ conns[c].id = m \/ \E j \in Slots(c) : j < i /\ inq[c][j].k = "hello"
TitleNoted(c, m, t) ==
  (<<t, m>> \in registry /\ conns[c].id = m) \/ Announces(c, m, t)

\* The password has been answered or is on its way, and no Hello comes after it.
AuthNoted(c) ==
  \/ (conns[c].verified \/ conns[c].refused) /\ ~Says(c, "hello")
  \/ \E i \in Slots(c) :
       /\ inq[c][i].k = "auth"
       /\ \A j \in Slots(c) : j > i => inq[c][j].k # "hello"

\* What the server knows of m, on its connection c, or is being told.
Tied(c, m) ==
  /\ Speaks(c, m) /\ InMode(c, m)
  /\ cl[m].say # 1 => Greeted(c, m)
  /\ \A t \in cl[m].told : TitleNoted(c, m, t)
  /\ cl[m].pw # None /\ cl[m].say = 0 => AuthNoted(c)
Listed == \A p \in registry : p[2] = Anon \/ \E c \in Open : conns[c].id = p[2]

\* The roster is on the screen, on its way, asked for, or about to be sent.
Fine == {"current", "overtaken"}
RosterPcs == {"roster", "activity", "left", "lastgone"}
RosterComing(c, m) ==
  \/ cl[m].roster \in Fine /\ outq[c].roster = None
  \/ outq[c].roster \in Fine
  \/ cl[m].say # 0
  \/ Says(c, "hello") \/ Says(c, "activity") \/ Says(c, "resync")
  \/ task[c].pc \in {"read", "reply"}
  \/ \E h \in ConnIds : task[h].pc \in RosterPcs
RosterShown == \A m \in Machines : Linked(m) => RosterComing(cl[m].conn, m)

\* And so is the jukebox.
JukeboxComing(c, m) ==
  \/ cl[m].jukebox = "current" /\ outq[c].jukebox = None
  \/ outq[c].jukebox = "current"
  \/ cl[m].say # 0
  \/ Says(c, "hello") \/ Says(c, "resync")
  \/ task[c].pc \in {"roster", "push"}
  \/ \E h \in Handlers : \/ task[h].pc = "snap"
                         \/ task[h].pc = "send" /\ c \in task[h].to
JukeboxShown == \A m \in Machines : Linked(m) => JukeboxComing(cl[m].conn, m)

\* A session that is to send the roster has read it.
HasRead == \A c \in ConnIds : task[c].pc = "reply" => held[c] \in Fine

Links == /\ Wired /\ Named /\ Listed
         /\ \A m \in Machines : Linked(m) => Tied(cl[m].conn, m)
IInv == Types /\ Links /\ HasRead /\ RosterShown /\ JukeboxShown

-----------------------------------------------------------------------------
(* Messages and queues *)

LEMMA MsgFields ==
  ASSUME NEW g \in Msgs
  PROVE  /\ g.k \in {"hello", "announce", "activity", "auth", "resync", "vote", "next"}
         /\ g.k = "hello" => g.id \in Machines /\ g.mode \in Modes
         /\ g.k = "announce" => g.t \in Titles
         /\ g.k = "activity" => g.server_only \in BOOLEAN
         /\ g.k = "auth" => [g EXCEPT !.pw = "stale"] \in Msgs
                            /\ [g EXCEPT !.pw = "stale"].k = "auth"
<1>1. CASE g \in [k : {"hello"}, id : Machines, mode : Modes]
  BY <1>1
<1>2. CASE g \in [k : {"announce"}, t : Titles]
  BY <1>2
<1>3. CASE g \in [k : {"activity"}, server_only : BOOLEAN]
  BY <1>3
<1>4. CASE g \in [k : {"auth"}, pw : {"current", "stale"}]
  <2>1. /\ [g EXCEPT !.pw = "stale"] \in [k : {"auth"}, pw : {"current", "stale"}]
        /\ g.k = "auth" /\ [g EXCEPT !.pw = "stale"].k = "auth"
    BY <1>4
  <2> QED
    BY <2>1 DEF Msgs
<1>5. CASE g \in [k : {"resync", "vote", "next"}]
  BY <1>5
<1> QED
  BY <1>1, <1>2, <1>3, <1>4, <1>5 DEF Msgs

\* The messages a machine sends.
LEMMA MsgForms ==
  ASSUME NEW m \in Machines, NEW md \in Modes, NEW t \in Titles, NEW b \in BOOLEAN,
         NEW pw \in {"current", "stale"}, NEW k \in {"resync", "vote", "next"}
  PROVE  /\ [k |-> "hello", id |-> m, mode |-> md] \in Msgs
         /\ [k |-> "announce", t |-> t] \in Msgs
         /\ [k |-> "activity", server_only |-> b] \in Msgs
         /\ [k |-> "auth", pw |-> pw] \in Msgs
         /\ [k |-> k] \in Msgs
BY DEF Msgs

\* What a handler that takes a message finds, and leaves in the queue.
LEMMA TookFacts ==
  ASSUME Types, NEW c \in ConnIds, NEW k, Took(c, k)
  PROVE  /\ c \in Open /\ task[c] = Idle /\ 1 \in Slots(c) /\ Slots(c) \subseteq Nat \ {0}
         /\ Head(inq[c]) = inq[c][1] /\ inq[c][1].k = k /\ inq[c][1] \in Msgs
         /\ inq' \in [ConnIds -> Seq(Msgs)]
         /\ \A i \in Slots(c)' : i \in Nat \ {0} /\ i + 1 \in Slots(c) /\ inq'[c][i] = inq[c][i + 1]
         /\ \A i \in Slots(c) \ {1} : i - 1 \in Slots(c)' /\ inq'[c][i - 1] = inq[c][i]
         /\ \A o \in ConnIds \ {c} : inq'[o] = inq[o] /\ Slots(o)' = Slots(o)
<1> DEFINE q == inq[c]
<1>1. q \in Seq(Msgs) /\ q # <<>> /\ Head(q).k = k /\ inq' = [inq EXCEPT ![c] = Tail(q)]
  BY DEF Took, Types
<1>2. c \in Open /\ task[c] = Idle
  BY DEF Took
<1>3. inq \in [ConnIds -> Seq(Msgs)]
  BY DEF Types
<1> HIDE DEF q
<1>4. /\ Tail(q) \in Seq(Msgs) /\ Len(Tail(q)) = Len(q) - 1 /\ Head(q) \in Msgs
      /\ \A i \in 1..Len(Tail(q)) : Tail(q)[i] = q[i + 1]
  BY <1>1, HeadTailProperties
<1>5. Len(q) \in Nat \ {0} /\ Head(q) = q[1]
  BY <1>1, EmptySeq
<1>6. inq'[c] = Tail(q) /\ inq' \in [ConnIds -> Seq(Msgs)]
      /\ \A o \in ConnIds \ {c} : inq'[o] = inq[o] /\ Slots(o)' = Slots(o)
  BY <1>1, <1>3, <1>4 DEF Slots
<1>7. PICK n \in Nat : Len(q) = n + 1 /\ Len(Tail(q)) = n
  <2>1. \A l \in Nat \ {0} : l - 1 \in Nat /\ l = (l - 1) + 1
    OBVIOUS
  <2> QED
    BY <1>4, <1>5, <2>1
<1>8. Slots(c) = 1..n + 1 /\ Slots(c)' = 1..n
  BY <1>6, <1>7 DEF Slots, q
<1>9. \A i \in Slots(c)' : i \in Nat \ {0} /\ i + 1 \in Slots(c) /\ inq'[c][i] = q[i + 1]
  BY <1>4, <1>6, <1>7, <1>8
<1>10. \A i \in Slots(c) \ {1} : i - 1 \in Slots(c)' /\ inq'[c][i - 1] = q[i]
  <2> TAKE i \in Slots(c) \ {1}
  <2>1. i - 1 \in Slots(c)' /\ (i - 1) + 1 = i
    BY <1>8
  <2> QED
    BY <1>9, <2>1
<1>11. 1 \in Slots(c) /\ Slots(c) \subseteq Nat \ {0}
  BY <1>8
<1> QED
  BY <1>1, <1>2, <1>4, <1>5, <1>6, <1>9, <1>10, <1>11 DEF q

Join(x, y) == x \o y
LEMMA Joined ==
  ASSUME NEW x \in Seq(Msgs), NEW y \in Seq(Msgs),
         NEW k \in Nat, NEW l \in Nat, Len(x) = k, Len(y) = l
  PROVE  /\ Join(x, y) \in Seq(Msgs) /\ Len(Join(x, y)) = k + l
         /\ \A i \in 1..k : Join(x, y)[i] = x[i]
         /\ \A i \in 1..l : Join(x, y)[i + k] = y[i]
<1> DEFINE xy == Join(x, y)
<1>1. /\ xy \in Seq(Msgs) /\ Len(xy) = k + l
      /\ \A i \in 1..k + l : xy[i] = IF i <= k THEN x[i] ELSE y[i - k]
  BY ConcatProperties DEF Join
<1> HIDE DEF xy
<1> QED
  BY <1>1 DEF xy

\* What a machine sends arrives at the end of its connection's queue, if it has
\* one that is up.
LEMMA SendWsFacts ==
  ASSUME Types, NEW m \in Machines, NEW msgs \in Seq(Msgs), SendWs(m, msgs)
  PROVE  /\ inq' \in [ConnIds -> Seq(Msgs)]
         /\ \A c \in ConnIds : ~ (Linked(m) /\ c = cl[m].conn) =>
              inq'[c] = inq[c] /\ Slots(c)' = Slots(c)
         /\ \A c \in ConnIds : Linked(m) /\ c = cl[m].conn =>
              \E n, l \in Nat :
                /\ Slots(c) = 1..n /\ l = Len(msgs) /\ Slots(c)' = 1..n + l
                /\ \A i \in 1..n : inq'[c][i] = inq[c][i]
                /\ \A i \in 1..l : inq'[c][i + n] = msgs[i]
<1>1. inq \in [ConnIds -> Seq(Msgs)]
  BY DEF Types
<1>2. CASE ~ (Linked(m) /\ cl[m].conn \in ConnIds)
  BY <1>1, <1>2 DEF SendWs, Linked, Slots
<1>3. CASE Linked(m) /\ cl[m].conn \in ConnIds
  <2> PICK d \in ConnIds : d = cl[m].conn
    BY <1>3
  <2> DEFINE q == inq[d]
             j == Join(q, msgs)
  <2>1. q \in Seq(Msgs)
    BY <1>1
  <2>2. inq' = [inq EXCEPT ![d] = j]
    BY <1>3 DEF SendWs, Linked, Join
  <2>3. PICK n \in Nat, l \in Nat : n = Len(q) /\ l = Len(msgs)
    BY <2>1, LenProperties
  <2> HIDE DEF j
  <2>4. /\ j \in Seq(Msgs) /\ Len(j) = n + l
        /\ \A i \in 1..n : j[i] = q[i]
        /\ \A i \in 1..l : j[i + n] = msgs[i]
    <3>1. PICK x \in Seq(Msgs) : x = q /\ Len(x) = n
      BY <2>1, <2>3
    <3>2. Len(msgs) = l
      BY <2>3
    <3>3. /\ Join(x, msgs) \in Seq(Msgs) /\ Len(Join(x, msgs)) = n + l
          /\ \A i \in 1..n : Join(x, msgs)[i] = x[i]
          /\ \A i \in 1..l : Join(x, msgs)[i + n] = msgs[i]
      BY <3>1, <3>2, Joined
    <3> QED
      BY <3>1, <3>3 DEF j
  <2>5. inq' \in [ConnIds -> Seq(Msgs)] /\ inq'[d] = j
        /\ \A o \in ConnIds \ {d} : inq'[o] = inq[o] /\ Slots(o)' = Slots(o)
    BY <1>1, <2>2, <2>4 DEF Slots
  <2>6. Slots(d) = 1..n /\ Slots(d)' = 1..n + l
    BY <2>3, <2>4, <2>5 DEF Slots
  <2>7. \E k, r \in Nat :
          /\ Slots(d) = 1..k /\ r = Len(msgs) /\ Slots(d)' = 1..k + r
          /\ \A i \in 1..k : inq'[d][i] = inq[d][i]
          /\ \A i \in 1..r : inq'[d][i + k] = msgs[i]
    BY <2>3, <2>4, <2>5, <2>6
  <2>8. ASSUME NEW c \in ConnIds, c = cl[m].conn
        PROVE  \E k, r \in Nat :
                 /\ Slots(c) = 1..k /\ r = Len(msgs) /\ Slots(c)' = 1..k + r
                 /\ \A i \in 1..k : inq'[c][i] = inq[c][i]
                 /\ \A i \in 1..r : inq'[c][i + k] = msgs[i]
    <3>1. c = d
      BY <2>8
    <3> QED
      BY <2>7, <3>1
  <2>9. \A c \in ConnIds : c # cl[m].conn => inq'[c] = inq[c] /\ Slots(c)' = Slots(c)
    BY <2>5
  <2> QED
    BY <1>3, <2>5, <2>8, <2>9
<1> QED
  BY <1>2, <1>3

\* SetToSeq lists every element of a finite set.
LEMMA ListsAll ==
  ASSUME NEW S, IsFiniteSet(S)
  PROVE  /\ SetToSeq(S) \in [1..Cardinality(S) -> S] /\ Cardinality(S) \in Nat
         /\ \A x \in S : \E i \in 1..Cardinality(S) : SetToSeq(S)[i] = x
<1> DEFINE n == Cardinality(S)
           f == SetToSeq(S)
<1>1. n \in Nat /\ Bijection(1..n, S) # {}
  BY FS_CardinalityType DEF ExistsBijection
<1>2. f \in [1..n -> S] /\ IsInjective(f)
  <2>1. \E g \in [1..n -> S] : IsInjective(g)
    BY <1>1 DEF Bijection, Injection
  <2> QED
    BY <2>1 DEF SetToSeq
<1>3. IsFiniteSet(1..n) /\ Cardinality(1..n) = n
  BY <1>1, FS_Interval
<1>4. f \in Surjection(1..n, S)
  <2> HIDE DEF f
  <2>1. f \in Injection(1..n, S)
    BY <1>2 DEF Injection
  <2> QED
    BY <1>3, <2>1, FS_Injection
<1> QED
  BY <1>1, <1>2, <1>4 DEF Surjection

\* What is left of a queue when its end is cut off.
LEMMA Prefix ==
  ASSUME NEW q \in Seq(Msgs), NEW l \in Nat, l = Len(q), NEW n \in 0..l
  PROVE  /\ SubSeq(q, 1, n) \in Seq(Msgs) /\ Len(SubSeq(q, 1, n)) = n
         /\ \A i \in 1..n : SubSeq(q, 1, n)[i] = q[i]
  OBVIOUS

\* What the second part of a greeting says: no Hello, the password if it has
\* been entered, the Resync, and every title.
LEMMA GreetingFacts ==
  ASSUME LobbyAssumption, Types, NEW m \in Machines, NEW g, g = Greeting(m, 2)
  PROVE  /\ g \in Seq(Msgs)
         /\ \A i \in 1..Len(g) : g[i].k # "hello"
         /\ \E i \in 1..Len(g) : g[i].k = "resync"
         /\ cl[m].mode = "playback" /\ cl[m].pw # None =>
              \E i \in 1..Len(g) : g[i].k = "auth"
         /\ \A t \in Seeds(m) :
              \E i \in 1..Len(g) : g[i].k = "announce" /\ g[i].t = t
<1> DEFINE a == AuthMsgs(m)
           s == SeedMsgs(m)
           z == <<[k |-> "resync"]>>
           ts == SetToSeq(Seeds(m))
<1>1. cl[m].pw \in Secrets /\ Seeds(m) \subseteq Titles
  BY DEF Types, ClRec, Seeds
<1>2. IsFiniteSet(Seeds(m))
  BY <1>1, FS_Subset DEF LobbyAssumption
<1>3. PICK n \in Nat :
        /\ ts \in [1..n -> Seeds(m)]
        /\ \A x \in Seeds(m) : \E i \in 1..n : ts[i] = x
  BY <1>2, ListsAll
<1>4. \E l \in {0, 1} :
        /\ a \in Seq(Msgs) /\ Len(a) = l
        /\ l = 1 => a[1].k = "auth"
        /\ (cl[m].mode = "playback" /\ cl[m].pw # None) => l = 1
  <2>1. CASE cl[m].mode = "playback" /\ cl[m].pw # None
    <3>1. [k |-> "auth", pw |-> cl[m].pw] \in Msgs
      BY <1>1, <2>1 DEF Msgs, Secrets
    <3>2. a = <<[k |-> "auth", pw |-> cl[m].pw]>>
      BY <2>1 DEF AuthMsgs, OnlyIf
    <3> HIDE DEF a
    <3>3. PICK x \in Msgs : a = <<x>> /\ x.k = "auth"
      BY <3>1, <3>2
    <3> QED
      BY <3>3
  <2>2. CASE ~ (cl[m].mode = "playback" /\ cl[m].pw # None)
    BY <2>2 DEF AuthMsgs, OnlyIf
  <2> QED
    BY <2>1, <2>2
<1>5. z \in Seq(Msgs) /\ Len(z) = 1 /\ z[1].k = "resync"
  <2>1. [k |-> "resync"] \in Msgs
    BY DEF Msgs
  <2> QED
    BY <2>1
<1>6. s \in Seq(Msgs) /\ Len(s) = n /\ \A i \in 1..n : s[i].k = "announce" /\ s[i].t = ts[i]
  <2>1. s = [i \in 1..n |-> [k |-> "announce", t |-> ts[i]]]
    BY <1>3 DEF SeedMsgs
  <2>2. \A i \in 1..n : [k |-> "announce", t |-> ts[i]] \in Msgs
    BY <1>1, <1>3 DEF Msgs
  <2> HIDE DEF s
  <2> QED
    BY <1>3, <2>1, <2>2
<1> DEFINE az == Join(a, z)
<1>7. g = Join(az, s)
  BY DEF Greeting, Join
<1> HIDE DEF a, s, z, ts, az
<1>8. PICK l \in {0, 1} :
        /\ a \in Seq(Msgs) /\ Len(a) = l
        /\ l = 1 => a[1].k = "auth"
        /\ (cl[m].mode = "playback" /\ cl[m].pw # None) => l = 1
  BY <1>4
<1>9. PICK k \in Nat : k = l + 1
  BY <1>8
<1>10. az \in Seq(Msgs) /\ Len(az) = k /\ az[k].k = "resync"
       /\ (l = 1 => az[1].k = "auth")
       /\ \A i \in 1..k : az[i].k # "hello"
  <2>1. PICK u \in Nat, v \in Nat : u = l /\ v = 1
    BY <1>8
  <2>2. /\ az \in Seq(Msgs) /\ Len(az) = u + v
        /\ \A i \in 1..u : az[i] = a[i]
        /\ \A i \in 1..v : az[i + u] = z[i]
    <3>1. a \in Seq(Msgs) /\ z \in Seq(Msgs) /\ Len(a) = u /\ Len(z) = v
      BY <1>5, <1>8, <2>1
    <3> QED
      BY <3>1, Joined DEF az
  <2>3. az[1 + u].k = "resync" /\ (u = 1 => az[1].k = "auth")
    BY <1>5, <1>8, <2>1, <2>2
  <2>4. \A i \in 1..k : i = k \/ (u = 1 /\ i = 1)
    BY <1>9, <2>1
  <2> QED
    BY <1>9, <2>1, <2>2, <2>3, <2>4
<1>11. /\ g \in Seq(Msgs) /\ Len(g) = k + n
       /\ \A i \in 1..k : g[i] = az[i]
       /\ \A i \in 1..n : g[i + k] = s[i]
  <2>1. az \in Seq(Msgs) /\ s \in Seq(Msgs) /\ Len(az) = k /\ Len(s) = n
    BY <1>6, <1>10
  <2> QED
    BY <1>7, <2>1, Joined
<1>12. /\ 1 \in 1..k /\ k \in 1..k /\ 1..k \subseteq 1..k + n
       /\ \A i \in 1..n : i + k \in 1..k + n
       /\ \A i \in 1..k + n : i \in 1..k \/ (i - k \in 1..n /\ i = (i - k) + k)
  BY <1>3, <1>9
<1>13. \A i \in 1..Len(g) : g[i].k # "hello"
  <2> TAKE i \in 1..Len(g)
  <2>1. CASE i \in 1..k
    BY <1>10, <1>11, <2>1
  <2>2. CASE i - k \in 1..n /\ i = (i - k) + k
    <3>1. PICK j \in 1..n : i = j + k
      BY <2>2
    <3> QED
      BY <1>6, <1>11, <3>1
  <2> QED
    BY <1>11, <1>12, <2>1, <2>2
<1>14. \A t \in Seeds(m) : \E i \in 1..Len(g) : g[i].k = "announce" /\ g[i].t = t
  <2> TAKE t \in Seeds(m)
  <2>1. PICK i \in 1..n : ts[i] = t
    BY <1>3
  <2>2. i + k \in 1..Len(g) /\ g[i + k] = s[i]
    BY <1>11, <1>12
  <2>3. s[i].k = "announce" /\ s[i].t = t
    BY <1>6, <2>1
  <2> QED
    BY <2>2, <2>3
<1>15. \E i \in 1..Len(g) : g[i].k = "resync"
  BY <1>10, <1>11, <1>12
<1>16. cl[m].mode = "playback" /\ cl[m].pw # None => \E i \in 1..Len(g) : g[i].k = "auth"
  BY <1>8, <1>10, <1>11, <1>12
<1> QED
  BY <1>11, <1>13, <1>14, <1>15, <1>16

-----------------------------------------------------------------------------
(* Who speaks on a connection, what it has asked for and what is noted *)

\* No machine changes its connection, what it has said or what it may do.
SameSettings ==
  \A m \in Machines :
    /\ cl'[m].on = cl[m].on /\ cl'[m].conn = cl[m].conn /\ cl'[m].mode = cl[m].mode
    /\ cl'[m].say = cl[m].say /\ cl'[m].told = cl[m].told
    /\ cl'[m].pw = None <=> cl[m].pw = None

\* No message changes in anything but the password it carries.
SameWords ==
  \A c \in ConnIds :
    /\ Slots(c)' = Slots(c)
    /\ \A i \in Slots(c) :
         /\ inq'[c][i].k = inq[c][i].k
         /\ inq[c][i].k = "hello" => /\ inq'[c][i].id = inq[c][i].id
                                    /\ inq'[c][i].mode = inq[c][i].mode
         /\ inq[c][i].k = "announce" => inq'[c][i].t = inq[c][i].t

LEMMA LinkedFacts ==
  ASSUME Types, Wired, NEW m \in Machines, Linked(m)
  PROVE  /\ cl[m].on /\ cl[m].conn \in Open /\ cl[m].conn \in ConnIds /\ up[cl[m].conn]
         /\ cl[m] \in ClRec /\ Fits(cl[m])
<1>1. cl[m].on /\ up[cl[m].conn] /\ cl[m] \in ClRec /\ Fits(cl[m])
  BY DEF Linked, Types, Wired
<1>2. cl[m].conn \in ConnIds
  BY <1>1 DEF ClRec, Fits
<1> QED
  BY <1>1, <1>2 DEF Wired

\* It is enough to look at the machines that were linked and still are.
LEMMA StillTied ==
  ASSUME Types, Links, Wired', Named', Listed',
         \A m \in Machines : Linked(m)' => Linked(m) /\ cl'[m].conn = cl[m].conn,
         \A m \in Machines, d \in Open :
           Linked(m) /\ Linked(m)' /\ d = cl[m].conn /\ Tied(d, m) => Tied(d, m)'
  PROVE  Links'
<1> SUFFICES ASSUME NEW m \in Machines, Linked(m)'
             PROVE  Tied(cl[m].conn, m)'
  BY DEF Links
<1>1. Linked(m) /\ cl'[m].conn = cl[m].conn
  OBVIOUS
<1>2. PICK d \in Open : d = cl[m].conn /\ d = cl'[m].conn
  BY <1>1, LinkedFacts DEF Links
<1>3. Tied(d, m)'
  BY <1>1, <1>2 DEF Links
<1> QED
  BY <1>2, <1>3

\* What is known of a machine on its connection stays, if nobody touches it.
LEMMA TiedStays ==
  ASSUME NEW c, NEW m, Tied(c, m), conns'[c] = conns[c], inq'[c] = inq[c],
         cl'[m].mode = cl[m].mode, cl'[m].say = cl[m].say, cl'[m].told = cl[m].told,
         cl'[m].pw = None <=> cl[m].pw = None,
         \A t : conns[c].id = m /\ <<t, m>> \in registry => <<t, m>> \in registry'
  PROVE  Tied(c, m)'
<1>1. Slots(c)' = Slots(c)
  BY DEF Slots
<1>2. Speaks(c, m)' /\ InMode(c, m)'
  BY <1>1 DEF Tied, Speaks, InMode
<1>3. (Greeted(c, m) => Greeted(c, m)') /\ (AuthNoted(c) => AuthNoted(c)')
  BY <1>1 DEF Greeted, AuthNoted, Says
<1>4. \A t : TitleNoted(c, m, t) => TitleNoted(c, m, t)'
  BY <1>1 DEF TitleNoted, Announces
<1> QED
  BY <1>2, <1>3, <1>4 DEF Tied

LEMMA LinksStay ==
  ASSUME Types, Links, SameSettings, SameWords, UNCHANGED <<conns, registry, up>>
  PROVE  Links'
<1>1. Open' = Open /\ Open \subseteq ConnIds
  BY DEF Open, Types
<1>2. ASSUME NEW c \in Open, NEW m \in Machines PROVE Speaks(c, m) => Speaks(c, m)'
  BY <1>1 DEF Speaks, SameWords
<1>3. ASSUME NEW c \in Open, NEW m \in Machines, Tied(c, m) PROVE Tied(c, m)'
  <2>1. /\ Slots(c)' = Slots(c)
        /\ \A i \in Slots(c) :
             /\ inq'[c][i].k = inq[c][i].k
             /\ inq[c][i].k = "hello" => inq'[c][i].mode = inq[c][i].mode
             /\ inq[c][i].k = "announce" => inq'[c][i].t = inq[c][i].t
    BY <1>1 DEF SameWords
  <2>2. InMode(c, m) => InMode(c, m)'
    BY <2>1 DEF InMode, SameSettings
  <2>3. Greeted(c, m) => Greeted(c, m)'
    BY <2>1 DEF Greeted, Says
  <2>4. \A t : TitleNoted(c, m, t) => TitleNoted(c, m, t)'
    BY <2>1 DEF TitleNoted, Announces
  <2>5. AuthNoted(c) => AuthNoted(c)'
    BY <2>1 DEF AuthNoted, Says
  <2> QED
    BY <1>2, <1>3, <2>2, <2>3, <2>4, <2>5 DEF Tied, SameSettings
<1>4. Wired'
  <2>1. \A c \in ConnIds : Slots(c)' = Slots(c)
    BY DEF SameWords
  <2> QED
    BY <1>1, <2>1 DEF Links, Wired, Fits, SameSettings
<1>5. Named' /\ Listed'
  BY <1>1, <1>2 DEF Links, Named, Listed
<1>6. \A m \in Machines : Linked(m)' => Linked(m) /\ cl'[m].conn = cl[m].conn
  BY DEF Linked, SameSettings
<1> QED
  BY <1>3, <1>4, <1>5, <1>6, StillTied

\* A session takes a message: a Hello says whose it is, an announcement is
\* entered in the registry, the password is answered.
LEMMA TakeLinks ==
  ASSUME LobbyAssumption, Types, Links, SameSettings, up' = up,
         NEW c \in ConnIds, NEW k, Took(c, k), DOMAIN conns' = Open,
         \A o \in Open \ {c} : conns'[o] = conns[o],
         conns'[c].id = IF k = "hello" THEN inq[c][1].id ELSE conns[c].id,
         conns'[c].mode = IF k = "hello" THEN inq[c][1].mode ELSE conns[c].mode,
         k = "auth" => conns'[c].verified \/ conns'[c].refused,
         k # "hello" /\ (conns[c].verified \/ conns[c].refused) =>
           conns'[c].verified \/ conns'[c].refused,
         registry' = IF k = "announce" /\ conns[c].mode # "playback"
                     THEN registry \cup {<<inq[c][1].t, conns[c].id>>} ELSE registry
  PROVE  Links'
<1> USE DEF SameSettings
<1>1. /\ c \in Open /\ 1 \in Slots(c) /\ Slots(c) \subseteq Nat \ {0}
      /\ inq[c][1].k = k /\ inq[c][1] \in Msgs
      /\ \A i \in Slots(c)' : i \in Nat \ {0} /\ i + 1 \in Slots(c) /\ inq'[c][i] = inq[c][i + 1]
      /\ \A i \in Slots(c) \ {1} : i - 1 \in Slots(c)' /\ inq'[c][i - 1] = inq[c][i]
      /\ \A o \in ConnIds \ {c} : inq'[o] = inq[o] /\ Slots(o)' = Slots(o)
  BY TookFacts
<1>2. Open' = Open /\ Open \subseteq ConnIds /\ Anon \notin Machines
  BY DEF Open, Types, Anon, LobbyAssumption
<1>3. \A m \in Machines : Linked(m)' => Linked(m) /\ cl'[m].conn = cl[m].conn
  BY DEF Linked
<1>4. ASSUME NEW m \in Machines, Speaks(c, m)
      PROVE  /\ Speaks(c, m)'
             /\ conns[c].id = m \/ k = "hello" => conns'[c].id = m
             /\ conns[c].id # Anon => conns'[c].id = conns[c].id
  BY <1>1, <1>4 DEF Speaks
<1>5. ASSUME NEW m \in Machines, NEW o \in Open \ {c}, Speaks(o, m) PROVE Speaks(o, m)'
  BY <1>1, <1>2, <1>5 DEF Speaks
<1>6. Wired' /\ Named'
  <2>1. \A o \in ConnIds \ Open : Slots(o)' = Slots(o)
    BY <1>1
  <2>2. Wired'
    BY <1>2, <2>1 DEF Links, Wired, Fits
  <2> QED
    BY <1>2, <1>4, <1>5, <2>2 DEF Links, Named
<1>7. Listed'
  <2>1. PICK m \in Machines : Speaks(c, m)
    BY <1>1 DEF Links, Named
  <2>2. \A p \in registry : p[2] = Anon \/ \E o \in Open : conns'[o].id = p[2]
    <3> SUFFICES ASSUME NEW p \in registry, p[2] # Anon
                 PROVE  \E o \in Open : conns'[o].id = p[2]
      OBVIOUS
    <3>1. PICK o \in Open : conns[o].id = p[2]
      BY DEF Links, Listed
    <3>2. conns'[o].id = conns[o].id
      BY <1>4, <2>1, <3>1
    <3> QED
      BY <3>1, <3>2
  <2>3. k = "announce" => <<inq[c][1].t, conns[c].id>>[2] = conns'[c].id
    OBVIOUS
  <2> QED
    BY <1>1, <1>2, <2>2, <2>3 DEF Listed
<1>8. ASSUME NEW m \in Machines, NEW o \in Open \ {c}, Tied(o, m) PROVE Tied(o, m)'
  <2>1. inq'[o] = inq[o] /\ conns'[o] = conns[o] /\ registry \subseteq registry'
    BY <1>1, <1>2
  <2> QED
    BY <1>8, <2>1, TiedStays
<1>9. ASSUME NEW m \in Machines, Linked(m), c = cl[m].conn, Tied(c, m) PROVE Tied(c, m)'
  <2>1. Speaks(c, m)' /\ (conns[c].id = m \/ k = "hello" => conns'[c].id = m)
    BY <1>4, <1>9 DEF Tied
  <2>2. InMode(c, m)'
    <3>1. InMode(c, m) /\ Speaks(c, m) /\ cl'[m].mode = cl[m].mode
      BY <1>9 DEF Tied
    <3>2. conns'[c].id = m => conns'[c].mode = cl[m].mode
      BY <1>1, <3>1 DEF InMode
    <3>3. \A i \in Slots(c)' : inq'[c][i].k = "hello" => inq'[c][i].mode = cl[m].mode
      BY <1>1, <3>1 DEF InMode
    <3> QED
      BY <3>1, <3>2, <3>3 DEF InMode
  <2>3. Greeted(c, m) => Greeted(c, m)'
    <3>1. ASSUME NEW i \in Slots(c), inq[c][i].k = "hello" PROVE Greeted(c, m)'
      <4>1. CASE i = 1
        BY <1>1, <2>1, <3>1, <4>1 DEF Greeted
      <4>2. CASE i # 1
        BY <1>1, <3>1, <4>2 DEF Greeted, Says
      <4> QED
        BY <4>1, <4>2
    <3> QED
      BY <2>1, <3>1 DEF Greeted, Says
  <2>4. ASSUME NEW t \in cl[m].told, TitleNoted(c, m, t) PROVE TitleNoted(c, m, t)'
    <3>1. CASE <<t, m>> \in registry /\ conns[c].id = m
      BY <2>1, <3>1 DEF TitleNoted
    <3>2. ASSUME NEW i \in Slots(c), inq[c][i].k = "announce", inq[c][i].t = t,
                 conns[c].id = m \/ \E j \in Slots(c) : j < i /\ inq[c][j].k = "hello"
          PROVE  TitleNoted(c, m, t)'
      <4>1. CASE i = 1
        <5>1. k = "announce" /\ inq[c][1].t = t
          BY <1>1, <3>2, <4>1
        <5>2. conns[c].id = m
          <6>1. \A j \in Slots(c) : ~ (j < 1)
            BY <1>1
          <6> QED
            BY <3>2, <4>1, <6>1
        <5>3. cl[m].mode = "client"
          BY <1>9 DEF Links, Wired, Fits, Linked
        <5>4. conns[c].mode # "playback"
          BY <1>9, <5>2, <5>3 DEF Tied, InMode
        <5> QED
          BY <2>1, <5>1, <5>2, <5>4 DEF TitleNoted
      <4>2. CASE i # 1
        <5>1. i - 1 \in Slots(c)' /\ inq'[c][i - 1] = inq[c][i]
          BY <1>1, <4>2
        <5>2. CASE conns[c].id = m
          BY <2>1, <3>2, <5>1, <5>2 DEF TitleNoted, Announces
        <5>3. ASSUME NEW j \in Slots(c), j < i, inq[c][j].k = "hello"
              PROVE  TitleNoted(c, m, t)'
          <6>1. CASE j = 1
            BY <1>1, <2>1, <3>2, <5>1, <5>3, <6>1 DEF TitleNoted, Announces
          <6>2. CASE j # 1
            <7>1. j - 1 \in Slots(c)' /\ inq'[c][j - 1] = inq[c][j] /\ j - 1 < i - 1
              BY <1>1, <5>3, <6>2
            <7> QED
              BY <3>2, <5>1, <5>3, <7>1 DEF TitleNoted, Announces
          <6> QED
            BY <6>1, <6>2
        <5> QED
          BY <3>2, <5>2, <5>3
      <4> QED
        BY <4>1, <4>2
    <3> QED
      BY <2>4, <3>1, <3>2 DEF TitleNoted, Announces
  <2>5. AuthNoted(c) => AuthNoted(c)'
    <3>1. CASE (conns[c].verified \/ conns[c].refused) /\ ~Says(c, "hello")
      BY <1>1, <3>1 DEF AuthNoted, Says
    <3>2. ASSUME NEW i \in Slots(c), inq[c][i].k = "auth",
                 \A j \in Slots(c) : j > i => inq[c][j].k # "hello"
          PROVE  AuthNoted(c)'
      <4>1. \A j \in Slots(c)' : j + 1 \in Slots(c) /\ inq'[c][j] = inq[c][j + 1]
                                /\ j + 1 > 1 /\ (j > i - 1 => j + 1 > i)
        BY <1>1
      <4>2. CASE i = 1
        BY <1>1, <3>2, <4>1, <4>2 DEF AuthNoted, Says
      <4>3. CASE i # 1
        <5>1. i - 1 \in Slots(c)' /\ inq'[c][i - 1].k = "auth"
          BY <1>1, <3>2, <4>3
        <5> QED
          BY <3>2, <4>1, <5>1 DEF AuthNoted
      <4> QED
        BY <4>2, <4>3
    <3> QED
      BY <3>1, <3>2 DEF AuthNoted
  <2> QED
    BY <1>9, <2>1, <2>2, <2>3, <2>4, <2>5 DEF Tied
<1> QED
  BY <1>3, <1>6, <1>7, <1>8, <1>9, StillTied

\* A machine sends something, and changes a setting with it: the password as it
\* sends it, what it has announced, how far it has got with its greeting.
LEMMA SendLinks ==
  ASSUME Types, Links, NEW m \in Machines, NEW msgs \in Seq(Msgs), SendWs(m, msgs),
         UNCHANGED <<conns, registry, up>>,
         \A o \in Machines \ {m} : cl'[o] = cl[o],
         cl'[m].on = cl[m].on, cl'[m].conn = cl[m].conn, cl'[m].mode = cl[m].mode,
         Fits(cl'[m]),
         \A i \in 1..Len(msgs) : msgs[i].k = "hello" =>
           msgs[i].id = m /\ msgs[i].mode = cl[m].mode,
         cl'[m].say # 1 /\ cl[m].say = 1 => \E i \in 1..Len(msgs) : msgs[i].k = "hello",
         \A t \in cl'[m].told \ cl[m].told :
           cl[m].say # 1 /\ \E i \in 1..Len(msgs) : msgs[i].k = "announce" /\ msgs[i].t = t,
         cl'[m].pw # None /\ cl'[m].say = 0 =>
           /\ \A i \in 1..Len(msgs) : msgs[i].k # "hello"
           /\ \/ cl[m].pw # None /\ cl[m].say = 0
              \/ \E i \in 1..Len(msgs) : msgs[i].k = "auth"
  PROVE  Links'
<1>1. Open' = Open /\ Open \subseteq ConnIds
  BY DEF Open, Types
<1>2. \A c \in ConnIds : ~ (Linked(m) /\ c = cl[m].conn) =>
        inq'[c] = inq[c] /\ Slots(c)' = Slots(c)
  BY SendWsFacts
<1>3. ASSUME NEW c \in ConnIds, Linked(m), c = cl[m].conn
      PROVE  \E n, l \in Nat :
                /\ Slots(c) = 1..n /\ l = Len(msgs) /\ Slots(c)' = 1..n + l
                /\ \A i \in 1..n : inq'[c][i] = inq[c][i]
                /\ \A i \in 1..l : inq'[c][i + n] = msgs[i]
  BY <1>3, SendWsFacts
<1>4. \A o \in Machines : cl'[o].on = cl[o].on /\ cl'[o].conn = cl[o].conn
  OBVIOUS
<1>5. Wired'
  <2>1. \A o \in Machines : Fits(cl'[o])
    BY DEF Links, Wired
  <2>2. \A c \in ConnIds \ Open : Slots(c)' = {}
    <3>1. Linked(m) => cl[m].conn \in Open
      BY LinkedFacts DEF Links
    <3> QED
      BY <1>2, <3>1 DEF Links, Wired
  <2> QED
    BY <1>1, <1>4, <2>1, <2>2 DEF Links, Wired
<1>6. ASSUME NEW c \in Open, NEW o \in Machines, Speaks(c, o),
             Linked(m) /\ c = cl[m].conn => o = m
      PROVE  Speaks(c, o)'
  <2>1. CASE Linked(m) /\ c = cl[m].conn
    <3>1. PICK n, l \in Nat :
            /\ Slots(c) = 1..n /\ l = Len(msgs) /\ Slots(c)' = 1..n + l
            /\ \A i \in 1..n : inq'[c][i] = inq[c][i]
            /\ \A i \in 1..l : inq'[c][i + n] = msgs[i]
      BY <1>1, <1>3, <2>1
    <3>2. ASSUME NEW i \in Slots(c)', inq'[c][i].k = "hello" PROVE inq'[c][i].id = m
      <4>1. CASE i \in 1..n
        BY <1>6, <2>1, <3>1, <3>2, <4>1 DEF Speaks
      <4>2. CASE i \notin 1..n
        <5>1. i - n \in 1..l /\ (i - n) + n = i
          BY <3>1, <4>2
        <5> QED
          BY <3>1, <3>2, <5>1
      <4> QED
        BY <4>1, <4>2
    <3> QED
      BY <1>6, <2>1, <3>2 DEF Speaks
  <2>2. CASE ~ (Linked(m) /\ c = cl[m].conn)
    BY <1>1, <1>2, <1>6, <2>2 DEF Speaks
  <2> QED
    BY <2>1, <2>2
<1>7. Named' /\ Listed'
  <2>1. ASSUME NEW c \in Open PROVE \E o \in Machines : Speaks(c, o)'
    <3>1. CASE Linked(m) /\ c = cl[m].conn
      <4>1. Speaks(c, m)
        BY <3>1 DEF Links, Tied
      <4> QED
        BY <1>6, <4>1
    <3>2. CASE ~ (Linked(m) /\ c = cl[m].conn)
      BY <1>6, <3>2 DEF Links, Named
    <3> QED
      BY <3>1, <3>2
  <2> QED
    BY <1>1, <2>1 DEF Links, Named, Listed
<1>8. ASSUME NEW o \in Machines, NEW d \in Open, Linked(o), d = cl[o].conn, Tied(d, o)
      PROVE  Tied(d, o)'
  <2>1. CASE o # m
    <3>1. inq'[d] = inq[d] /\ conns'[d] = conns[d]
      BY <1>1, <1>2, <1>8, <2>1 DEF Links, Wired, Linked
    <3> QED
      BY <1>8, <2>1, <3>1, TiedStays
  <2>2. CASE o = m
    <3>1. PICK n, l \in Nat :
            /\ Slots(d) = 1..n /\ l = Len(msgs) /\ Slots(d)' = 1..n + l
            /\ \A i \in 1..n : inq'[d][i] = inq[d][i]
            /\ \A i \in 1..l : inq'[d][i + n] = msgs[i]
      BY <1>1, <1>3, <1>8, <2>2
    <3>2. /\ \A i \in Slots(d) : i \in Slots(d)' /\ i \in Nat /\ inq'[d][i] = inq[d][i]
          /\ \A i \in 1..Len(msgs) : i + n \in Slots(d)' /\ inq'[d][i + n] = msgs[i]
          /\ \A i \in 1..Len(msgs) : i \in Nat /\ \A j \in Slots(d) : j < i + n
          /\ \A i \in Slots(d)' : i \in Slots(d) \/
               (i - n \in 1..Len(msgs) /\ inq'[d][i] = msgs[i - n])
      <4>1. \A i \in Slots(d)' \ Slots(d) : i - n \in 1..l /\ (i - n) + n = i
        BY <3>1
      <4> QED
        BY <3>1, <4>1
    <3> HIDE <3>1
    <3>3. Speaks(d, m)'
      BY <1>6, <1>8, <2>2 DEF Tied
    <3>4. InMode(d, m)'
      BY <1>8, <2>2, <3>2 DEF Tied, InMode
    <3>5. cl'[m].say # 1 => Greeted(d, m)'
      <4>1. Greeted(d, m) => Greeted(d, m)'
        BY <3>2 DEF Greeted, Says
      <4>2. (\E i \in 1..Len(msgs) : msgs[i].k = "hello") => Greeted(d, m)'
        BY <3>2 DEF Greeted, Says
      <4> QED
        BY <1>8, <2>2, <4>1, <4>2 DEF Tied
    <3>6. ASSUME NEW t \in cl'[m].told PROVE TitleNoted(d, m, t)'
      <4>1. TitleNoted(d, m, t) => TitleNoted(d, m, t)'
        <5>1. \A i \in Slots(d) : i \in Slots(d)' /\ inq'[d][i] = inq[d][i]
          BY <3>2
        <5>2. Announces(d, m, t) => Announces(d, m, t)'
          BY <5>1 DEF Announces
        <5> QED
          BY <5>2 DEF TitleNoted
      <4>2. CASE t \notin cl[m].told
        <5>1. PICK i \in 1..Len(msgs) : msgs[i].k = "announce" /\ msgs[i].t = t
          BY <3>6, <4>2
        <5>2. Greeted(d, m)
          BY <1>8, <2>2, <3>6, <4>2 DEF Tied
        <5>3. conns[d].id = m \/ \E j \in Slots(d)' : j < i + n /\ inq'[d][j].k = "hello"
          BY <3>2, <5>2 DEF Greeted, Says
        <5>4. i + n \in Slots(d)' /\ inq'[d][i + n].k = "announce" /\ inq'[d][i + n].t = t
          BY <3>2, <5>1
        <5> QED
          BY <5>3, <5>4 DEF TitleNoted, Announces
      <4> QED
        BY <1>8, <2>2, <4>1, <4>2 DEF Tied
    <3>7. ASSUME cl'[m].pw # None, cl'[m].say = 0 PROVE AuthNoted(d)'
      <4>1. \A i \in 1..Len(msgs) : msgs[i].k # "hello"
        BY <3>7
      <4>2. \A i \in Slots(d)' : inq'[d][i].k = "hello" => i \in Slots(d) /\ inq[d][i].k = "hello"
        BY <3>2, <4>1
      <4>3. CASE cl[m].pw # None /\ cl[m].say = 0
        <5>1. AuthNoted(d)
          BY <1>8, <2>2, <4>3 DEF Tied
        <5>2. Says(d, "hello")' => Says(d, "hello")
          BY <4>2 DEF Says
        <5>3. (conns[d].verified \/ conns[d].refused) /\ ~Says(d, "hello") => AuthNoted(d)'
          BY <5>2 DEF AuthNoted
        <5>4. ASSUME NEW i \in Slots(d), inq[d][i].k = "auth",
                     \A k \in Slots(d) : k > i => inq[d][k].k # "hello"
              PROVE  AuthNoted(d)'
          <6>1. i \in Slots(d)' /\ inq'[d][i].k = "auth"
            BY <3>2, <5>4
          <6>2. \A k \in Slots(d)' : k > i => inq'[d][k].k # "hello"
            BY <4>2, <5>4
          <6> QED
            BY <6>1, <6>2 DEF AuthNoted
        <5> QED
          BY <5>1, <5>3, <5>4 DEF AuthNoted
      <4>4. ASSUME NEW i \in 1..Len(msgs), msgs[i].k = "auth" PROVE AuthNoted(d)'
        <5>1. i + n \in Slots(d)' /\ inq'[d][i + n].k = "auth"
          BY <3>2, <4>4
        <5>2. \A j \in Slots(d) : ~ (j > i + n)
          <6>1. \A j \in Slots(d) : j \in Nat /\ j < i + n /\ i \in Nat
            BY <3>2
          <6> QED
            BY <6>1
        <5>3. \A j \in Slots(d)' : j > i + n => inq'[d][j].k # "hello"
          BY <4>2, <5>2
        <5> QED
          BY <5>1, <5>3 DEF AuthNoted
      <4> QED
        BY <3>7, <4>3, <4>4
    <3> QED
      BY <2>2, <3>3, <3>4, <3>5, <3>6, <3>7 DEF Tied
  <2> QED
    BY <2>1, <2>2
<1>9. \A o \in Machines : Linked(o)' => Linked(o) /\ cl'[o].conn = cl[o].conn
  BY <1>4 DEF Linked
<1> QED
  BY <1>5, <1>7, <1>8, <1>9, StillTied

\* A link breaks, or a machine that has none changes its settings.
LEMMA FewerLinks ==
  ASSUME Types, Links, UNCHANGED <<conns, registry>>,
         \A c \in ConnIds : Slots(c)' \subseteq Slots(c),
         \A c \in ConnIds : \A i \in Slots(c)' : inq'[c][i] = inq[c][i],
         \A c \in ConnIds : up'[c] => up[c] /\ inq'[c] = inq[c],
         \A m \in Machines : Fits(cl'[m]),
         \A m \in Machines : cl'[m].on =>
           /\ cl[m].on /\ cl'[m].conn = cl[m].conn /\ cl'[m].mode = cl[m].mode
           /\ cl'[m].say = cl[m].say /\ cl'[m].told = cl[m].told /\ cl'[m].pw = cl[m].pw
  PROVE  Links'
<1>1. Open' = Open /\ Open \subseteq ConnIds
  BY DEF Open, Types
<1>2. Wired'
  BY <1>1 DEF Links, Wired
<1>3. Named' /\ Listed'
  BY <1>1 DEF Links, Named, Listed, Speaks
<1>4. ASSUME NEW m \in Machines, Linked(m)' PROVE Linked(m) /\ cl'[m].conn = cl[m].conn
  <2>1. PICK d : d = cl'[m].conn /\ d = cl[m].conn /\ cl'[m].on /\ up'[d]
    BY <1>4 DEF Linked
  <2>2. d \in ConnIds
    BY <2>1 DEF Types, Links, Wired, Fits, ClRec
  <2> QED
    BY <2>1, <2>2 DEF Linked
<1>5. ASSUME NEW m \in Machines, NEW d \in Open, Linked(m)', d = cl[m].conn, Tied(d, m)
      PROVE  Tied(d, m)'
  <2>1. cl'[m].on /\ up'[d] /\ cl'[m].conn = d
    BY <1>5 DEF Linked
  <2>2. inq'[d] = inq[d] /\ conns'[d] = conns[d]
    BY <1>1, <2>1
  <2> QED
    BY <1>5, <2>1, <2>2, TiedStays
<1> QED
  BY <1>2, <1>3, <1>4, <1>5, StillTied

\* A session ends: its machine's titles go only with its last session.
LEMMA LeaveLinks ==
  ASSUME Types, Links, SameSettings, NEW c \in Open, ~up[c], inq[c] = <<>>,
         conns' = Without(c), registry' = PeersLeft(c), UNCHANGED <<inq, up>>
  PROVE  Links'
<1> USE DEF SameSettings
<1>1. /\ Open' = Open \ {c} /\ Open \subseteq ConnIds
      /\ \A o \in Open \ {c} : conns'[o] = conns[o]
  <2>1. conns' = [o \in Open \ {c} |-> conns[o]] /\ Open \subseteq ConnIds
    BY DEF Without, Types
  <2> HIDE DEF Open
  <2>2. DOMAIN conns' = Open \ {c}
    BY <2>1
  <2> QED
    BY <2>1, <2>2 DEF Open
<1>2. \A o \in ConnIds : Slots(o)' = Slots(o)
  BY DEF Slots
<1>3. Slots(c) = {}
  BY DEF Slots
<1>4. Wired'
  BY <1>1, <1>2, <1>3 DEF Links, Wired, Fits
<1>5. Named'
  BY <1>1, <1>2 DEF Links, Named, Speaks
<1>6. Listed'
  <2> SUFFICES ASSUME NEW p \in registry', p[2] # Anon
               PROVE  \E o \in Open' : conns'[o].id = p[2]
    BY DEF Listed
  <2>1. p \in registry
    BY DEF PeersLeft
  <2>2. PICK o \in Open : conns[o].id = p[2]
    BY <2>1 DEF Links, Listed
  <2>3. CASE StillPresent(c)
    <3>1. PICK q \in Open \ {c} : conns[q].id = conns[c].id
      BY <2>3 DEF StillPresent
    <3> QED
      BY <1>1, <2>2, <3>1
  <2>4. CASE ~StillPresent(c)
    <3>1. o # c
      BY <2>2, <2>4 DEF PeersLeft
    <3> QED
      BY <1>1, <2>2, <3>1
  <2> QED
    BY <2>3, <2>4
<1>7. ASSUME NEW m \in Machines, NEW d \in Open \ {c}, NEW t,
             conns[d].id = m, <<t, m>> \in registry
      PROVE  <<t, m>> \in registry'
  <2>1. CASE conns[c].id = m
    BY <1>7, <2>1 DEF PeersLeft, StillPresent
  <2>2. CASE conns[c].id # m
    BY <1>7, <2>2 DEF PeersLeft
  <2> QED
    BY <2>1, <2>2
<1>8. ASSUME NEW m \in Machines, NEW d \in Open, Linked(m), d = cl[m].conn, Tied(d, m)
      PROVE  Tied(d, m)'
  <2>1. d # c
    BY <1>8 DEF Linked
  <2>2. conns'[d] = conns[d] /\ inq'[d] = inq[d]
    BY <1>1, <2>1
  <2> QED
    BY <1>7, <1>8, <2>1, <2>2, TiedStays
<1>9. \A m \in Machines : Linked(m)' => Linked(m) /\ cl'[m].conn = cl[m].conn
  BY DEF Linked
<1> QED
  BY <1>4, <1>5, <1>6, <1>8, <1>9, StillTied

\* A machine connects: its connection is new, and all it has to say is to come.
LEMMA ConnectFacts ==
  ASSUME LobbyAssumption, Types, NEW m \in Machines, Connect(m)
  PROVE  /\ ~cl[m].on /\ UNCHANGED <<registry, task, held, inq, outq, acts>>
         /\ \E c \in ConnIds :
              /\ c \notin Open /\ task[c] = Idle /\ (\A n \in Machines : cl[n].conn # c)
              /\ Open' = Open \cup {c} /\ conns'[c] = NewConn
              /\ \A o \in Open : conns'[o] = conns[o]
              /\ cl' \in [Machines -> ClRec] /\ (\A o \in Machines \ {m} : cl'[o] = cl[o])
              /\ cl'[m].on /\ cl'[m].conn = c /\ cl'[m].say = 1 /\ cl'[m].told = {}
              /\ cl'[m].mode = cl[m].mode /\ cl'[m].pw = cl[m].pw
              /\ up' = [up EXCEPT ![c] = TRUE]
<1> DEFINE R(c) == [cl[m] EXCEPT !.on = TRUE, !.conn = c, !.say = 1, !.told = {}]
<1>1. PICK c \in Unmade :
        /\ cl' = [cl EXCEPT ![m] = R(c)]
        /\ conns' = [o \in Open \cup {c} |-> IF o = c THEN NewConn ELSE conns[o]]
        /\ up' = [up EXCEPT ![c] = TRUE]
  BY DEF Connect, Types
<1>2. c \in ConnIds /\ c \notin Open /\ task[c] = Idle /\ \A n \in Machines : cl[n].conn # c
  BY DEF Unmade
<1>3. /\ DOMAIN conns' = Open \cup {c} /\ conns'[c] = NewConn
      /\ \A o \in Open : conns'[o] = conns[o]
  <2> HIDE DEF Open
  <2> QED
    BY <1>1, <1>2
<1>4. Open' = Open \cup {c}
  BY <1>3 DEF Open
<1>5. cl \in [Machines -> ClRec] /\ cl[m] \in ClRec
  BY DEF Types
<1>6. R(c) \in ClRec /\ R(c).on /\ R(c).conn = c /\ R(c).say = 1 /\ R(c).told = {}
      /\ R(c).mode = cl[m].mode /\ R(c).pw = cl[m].pw
  <2>1. PICK r \in ClRec : r = cl[m]
    BY <1>5
  <2>2. PICK x : x = [r EXCEPT !.on = TRUE, !.conn = c, !.say = 1, !.told = {}]
    OBVIOUS
  <2>3. x \in ClRec
    <3>1. c \in ConnIds \cup {0} /\ 1 \in 0..2 /\ {} \in SUBSET Titles
      BY <1>2
    <3> QED
      BY <2>2, <3>1 DEF ClRec
  <2>4. x.on /\ x.conn = c /\ x.say = 1 /\ x.told = {} /\ x.mode = r.mode /\ x.pw = r.pw
    BY <2>2 DEF ClRec
  <2> QED
    BY <2>1, <2>2, <2>3, <2>4
<1> HIDE DEF R
<1>7. cl' \in [Machines -> ClRec] /\ cl'[m] = R(c) /\ \A o \in Machines \ {m} : cl'[o] = cl[o]
  BY <1>1, <1>5, <1>6
<1>8. ~cl[m].on /\ UNCHANGED <<registry, task, held, inq, outq, acts>>
  BY DEF Connect
<1> QED
  BY <1>1, <1>2, <1>3, <1>4, <1>6, <1>7, <1>8

LEMMA ConnectLinks ==
  ASSUME LobbyAssumption, Types, Links, NEW m \in Machines, Connect(m)
  PROVE  Links'
<1>1. PICK c \in ConnIds :
        /\ c \notin Open /\ task[c] = Idle /\ (\A n \in Machines : cl[n].conn # c)
        /\ Open' = Open \cup {c} /\ conns'[c] = NewConn
        /\ \A o \in Open : conns'[o] = conns[o]
        /\ cl' \in [Machines -> ClRec] /\ (\A o \in Machines \ {m} : cl'[o] = cl[o])
        /\ cl'[m].on /\ cl'[m].conn = c /\ cl'[m].say = 1 /\ cl'[m].told = {}
        /\ cl'[m].mode = cl[m].mode /\ cl'[m].pw = cl[m].pw
        /\ up' = [up EXCEPT ![c] = TRUE]
  BY ConnectFacts
<1>2. registry' = registry /\ inq' = inq
  BY ConnectFacts
<1>3. 0 \notin ConnIds /\ Anon \notin Machines /\ Open \subseteq ConnIds
  BY DEF ConnIds, Anon, LobbyAssumption, Types
<1>4. (\A o \in ConnIds : Slots(o)' = Slots(o)) /\ Slots(c) = {}
  BY <1>1, <1>2 DEF Slots, Links, Wired
<1>5. up'[c] /\ \A o \in ConnIds \ {c} : up'[o] = up[o]
  BY <1>1 DEF Types
<1>6. Wired'
  <2>1. Fits(cl'[m])
    BY <1>1, <1>3 DEF Links, Wired, Fits
  <2>2. \A o \in Machines : Fits(cl'[o])
    BY <1>1, <2>1 DEF Links, Wired
  <2>3. \A o, p \in Machines : cl'[o].on /\ cl'[p].on /\ cl'[o].conn = cl'[p].conn => o = p
    BY <1>1 DEF Links, Wired
  <2>4. \A o \in ConnIds : up'[o] => o \in Open'
    BY <1>1, <1>5 DEF Links, Wired
  <2>5. \A o \in ConnIds \ Open' : Slots(o)' = {}
    BY <1>1, <1>4 DEF Links, Wired
  <2> QED
    BY <2>2, <2>3, <2>4, <2>5 DEF Wired
<1>7. ASSUME NEW p \in Machines PROVE Speaks(c, p)'
  BY <1>1, <1>4 DEF Speaks, NewConn
<1>8. Named'
  <2>1. \A o \in Open : \E p \in Machines : Speaks(o, p)'
    BY <1>1, <1>2, <1>3, <1>4 DEF Links, Named, Speaks
  <2> QED
    BY <1>1, <1>7, <2>1 DEF Named
<1>9. Listed'
  BY <1>1, <1>2 DEF Links, Listed
<1>10. Tied(c, m)'
  <2>1. InMode(c, m)'
    BY <1>1, <1>3, <1>4 DEF InMode, NewConn
  <2> QED
    BY <1>1, <1>7, <2>1 DEF Tied
<1>11. ASSUME NEW p \in Machines \ {m}, Linked(p)' PROVE Tied(cl[p].conn, p)'
  <2>1. cl'[p] = cl[p] /\ cl[p].on /\ up'[cl[p].conn] /\ cl[p].conn # c
    BY <1>1, <1>11 DEF Linked
  <2>2. cl[p].conn \in ConnIds
    BY <2>1 DEF Types, Links, Wired, Fits, ClRec
  <2>3. Linked(p)
    BY <1>5, <2>1, <2>2 DEF Linked
  <2>4. PICK d \in Open : d = cl[p].conn
    BY <2>3, LinkedFacts DEF Links
  <2>5. Tied(d, p) /\ conns'[d] = conns[d] /\ inq'[d] = inq[d]
    BY <1>1, <1>2, <2>3, <2>4 DEF Links
  <2>6. Tied(d, p)'
    BY <1>2, <2>1, <2>5, TiedStays
  <2> QED
    BY <2>1, <2>4, <2>6
<1>12. ASSUME NEW p \in Machines, Linked(p)' PROVE Tied(cl[p].conn, p)'
  <2>1. CASE p = m
    BY <1>1, <1>10, <2>1
  <2>2. CASE p # m
    BY <1>11, <1>12, <2>2
  <2> QED
    BY <2>1, <2>2
<1> QED
  BY <1>6, <1>8, <1>9, <1>12 DEF Links

-----------------------------------------------------------------------------
(* The kinds of values *)

LEMMA GoesTypes ==
  ASSUME Types, NEW h \in Handlers, NEW pc \in Stages, Goes(h, pc) \/ Done(h)
  PROVE  /\ task' \in [Handlers -> TaskRec]
         /\ \A o \in Handlers \ {h} : task'[o] = task[o]
         /\ Goes(h, pc) => task'[h].pc = pc
         /\ Done(h) => task'[h] = Idle
<1>1. task \in [Handlers -> TaskRec] /\ task[h] \in TaskRec
  BY DEF Types
<1>2. [task[h] EXCEPT !.pc = pc] \in TaskRec /\ [task[h] EXCEPT !.pc = pc].pc = pc
  BY <1>1 DEF TaskRec
<1>3. Idle \in TaskRec
  BY DEF Idle, TaskRec, Stages
<1>4. CASE Goes(h, pc)
  <2>1. task' = [task EXCEPT ![h] = [task[h] EXCEPT !.pc = pc]]
    BY <1>4 DEF Goes
  <2>2. Done(h) => task'[h] = Idle
    BY <1>1 DEF Done
  <2> QED
    BY <1>1, <1>2, <2>1, <2>2
<1>5. CASE Done(h)
  <2>1. Goes(h, pc) => task'[h] = [task[h] EXCEPT !.pc = pc]
    BY <1>1 DEF Goes
  <2> QED
    BY <1>1, <1>2, <1>3, <1>5, <2>1 DEF Done
<1> QED
  BY <1>4, <1>5

LEMMA ClUpdates ==
  ASSUME NEW r \in ClRec, NEW x \in Seen
  PROVE  /\ [r EXCEPT !.jukebox = x] \in ClRec
         /\ [r EXCEPT !.roster = x] \in ClRec
         /\ \A y \in Seen, b \in BOOLEAN :
              [r EXCEPT !.jukebox = x, !.roster = y, !.probing = b] \in ClRec
<1>1. [r EXCEPT !.jukebox = x] \in ClRec /\ [r EXCEPT !.roster = x] \in ClRec
  BY DEF ClRec
<1>2. \A y \in Seen, b \in BOOLEAN :
        [r EXCEPT !.jukebox = x, !.roster = y, !.probing = b] \in ClRec
  BY DEF ClRec
<1> QED
  BY <1>1, <1>2

LEMMA ClKeeps ==
  ASSUME NEW r \in ClRec, NEW x,
         NEW s, s = [r EXCEPT !.jukebox = x] \/ s = [r EXCEPT !.roster = x]
  PROVE  /\ s.on = r.on /\ s.conn = r.conn /\ s.mode = r.mode
         /\ s.say = r.say /\ s.told = r.told /\ s.pw = r.pw
<1>1. s = [r EXCEPT !.jukebox = x] =>
        /\ s.on = r.on /\ s.conn = r.conn /\ s.mode = r.mode
        /\ s.say = r.say /\ s.told = r.told /\ s.pw = r.pw
  BY DEF ClRec
<1>2. s = [r EXCEPT !.roster = x] =>
        /\ s.on = r.on /\ s.conn = r.conn /\ s.mode = r.mode
        /\ s.say = r.say /\ s.told = r.told /\ s.pw = r.pw
  BY DEF ClRec
<1> QED
  BY <1>1, <1>2

\* A change to the jukebox touches nothing of the roster, and the other way.
LEMMA ChangesTypes ==
  ASSUME LobbyAssumption, Types, JukeboxChanges \/ RosterChanges
  PROVE  /\ outq' \in [ConnIds -> OutRec] /\ cl' \in [Machines -> ClRec]
         /\ SameSettings
         /\ \A m \in Machines : cl'[m].probing = cl[m].probing
         /\ RosterChanges =>
              /\ held' \in [ConnIds -> {None, "current", "overtaken"}]
              /\ \A c \in ConnIds : held[c] \in Fine => held'[c] \in Fine
         /\ JukeboxChanges => /\ \A c \in ConnIds : outq'[c].roster = outq[c].roster
                              /\ \A m \in Machines : cl'[m].roster = cl[m].roster
         /\ RosterChanges => /\ \A c \in ConnIds : outq'[c].jukebox = outq[c].jukebox
                             /\ \A m \in Machines : cl'[m].jukebox = cl[m].jukebox
<1>1. /\ outq \in [ConnIds -> OutRec] /\ \A c \in ConnIds : outq[c] \in OutRec
      /\ cl \in [Machines -> ClRec] /\ \A m \in Machines : cl[m] \in ClRec
  BY DEF Types
<1>2. \A x \in Seen : Outdated(x) \in Seen
  BY DEF Seen, Outdated
<1>5. ASSUME RosterChanges
      PROVE  /\ held' \in [ConnIds -> {None, "current", "overtaken"}]
             /\ \A c \in ConnIds : held[c] \in Fine => held'[c] \in Fine
  BY <1>5, LobbyAssumption DEF RosterChanges, Fine, LobbyAssumption
<1>3. CASE JukeboxChanges
  <2>1. \A c \in ConnIds : /\ outq'[c] = [outq[c] EXCEPT !.jukebox = Outdated(outq[c].jukebox)]
                           /\ outq[c].jukebox \in Seen
    BY <1>1, <1>3 DEF JukeboxChanges, OutRec
  <2>2. \A m \in Machines : /\ cl'[m] = [cl[m] EXCEPT !.jukebox = Outdated(cl[m].jukebox)]
                            /\ cl[m].jukebox \in Seen
    BY <1>1, <1>3 DEF JukeboxChanges, ClRec
  <2>3. \A c \in ConnIds : outq'[c] \in OutRec /\ outq'[c].roster = outq[c].roster
    BY <1>1, <1>2, <2>1, ZenonT(40) DEF OutRec
  <2>4. ASSUME NEW m \in Machines
        PROVE  /\ cl'[m] \in ClRec /\ cl'[m].roster = cl[m].roster
               /\ cl'[m].probing = cl[m].probing
    <3>1. cl[m] \in ClRec /\ Outdated(cl[m].jukebox) \in Seen
      BY <1>1, <1>2, <2>2
    <3>2. PICK x \in Seen : x = Outdated(cl[m].jukebox)
      BY <3>1
    <3>3. [cl[m] EXCEPT !.jukebox = x] \in ClRec
      BY <3>1, ClUpdates
    <3>4. cl'[m] \in ClRec
      BY <2>2, <3>2, <3>3
    <3> QED
      BY <1>1, <2>2, <3>4 DEF ClRec
  <2>5. SameSettings
    <3> SUFFICES ASSUME NEW m \in Machines
                 PROVE  /\ cl'[m].on = cl[m].on /\ cl'[m].conn = cl[m].conn
                        /\ cl'[m].mode = cl[m].mode /\ cl'[m].say = cl[m].say
                        /\ cl'[m].told = cl[m].told /\ cl'[m].pw = cl[m].pw
      BY DEF SameSettings
    <3>1. PICK r, x, y : /\ r = cl[m] /\ r \in ClRec /\ x = Outdated(r.jukebox)
                         /\ y = [r EXCEPT !.jukebox = x]
      BY <1>1
    <3>2. cl'[m] = y
      BY <2>2, <3>1
    <3> QED
      BY <3>1, <3>2, ClKeeps
  <2>6. /\ outq' \in [ConnIds -> OutRec] /\ cl' \in [Machines -> ClRec]
    BY <1>3, <2>3, <2>4 DEF JukeboxChanges
  <2>7. RosterChanges => /\ \A c \in ConnIds : outq'[c].jukebox = outq[c].jukebox
                         /\ \A m \in Machines : cl'[m].jukebox = cl[m].jukebox
    BY <1>1 DEF RosterChanges, OutRec, ClRec
  <2> QED
    BY <1>5, <2>3, <2>4, <2>5, <2>6, <2>7
<1>4. CASE RosterChanges
  <2>1. \A c \in ConnIds : /\ outq'[c] = [outq[c] EXCEPT !.roster = Outdated(outq[c].roster)]
                           /\ outq[c].roster \in Seen
    BY <1>1, <1>4 DEF RosterChanges, OutRec
  <2>2. \A m \in Machines : /\ cl'[m] = [cl[m] EXCEPT !.roster = Outdated(cl[m].roster)]
                            /\ cl[m].roster \in Seen
    BY <1>1, <1>4 DEF RosterChanges, ClRec
  <2>3. \A c \in ConnIds : outq'[c] \in OutRec /\ outq'[c].jukebox = outq[c].jukebox
    BY <1>1, <1>2, <2>1, ZenonT(40) DEF OutRec
  <2>4. ASSUME NEW m \in Machines
        PROVE  /\ cl'[m] \in ClRec /\ cl'[m].jukebox = cl[m].jukebox
               /\ cl'[m].probing = cl[m].probing
    <3>1. cl[m] \in ClRec /\ Outdated(cl[m].roster) \in Seen
      BY <1>1, <1>2, <2>2
    <3>2. PICK x \in Seen : x = Outdated(cl[m].roster)
      BY <3>1
    <3>3. [cl[m] EXCEPT !.roster = x] \in ClRec
      BY <3>1, ClUpdates
    <3>4. cl'[m] \in ClRec
      BY <2>2, <3>2, <3>3
    <3> QED
      BY <1>1, <2>2, <3>4 DEF ClRec
  <2>5. SameSettings
    <3> SUFFICES ASSUME NEW m \in Machines
                 PROVE  /\ cl'[m].on = cl[m].on /\ cl'[m].conn = cl[m].conn
                        /\ cl'[m].mode = cl[m].mode /\ cl'[m].say = cl[m].say
                        /\ cl'[m].told = cl[m].told /\ cl'[m].pw = cl[m].pw
      BY DEF SameSettings
    <3>1. PICK r, x, y : /\ r = cl[m] /\ r \in ClRec /\ x = Outdated(r.roster)
                         /\ y = [r EXCEPT !.roster = x]
      BY <1>1
    <3>2. cl'[m] = y
      BY <2>2, <3>1
    <3> QED
      BY <3>1, <3>2, ClKeeps
  <2>6. /\ outq' \in [ConnIds -> OutRec] /\ cl' \in [Machines -> ClRec]
    BY <1>4, <2>3, <2>4 DEF RosterChanges
  <2>7. JukeboxChanges => /\ \A c \in ConnIds : outq'[c].roster = outq[c].roster
                          /\ \A m \in Machines : cl'[m].roster = cl[m].roster
    BY <1>1 DEF JukeboxChanges, OutRec, ClRec
  <2> QED
    BY <1>5, <2>3, <2>4, <2>5, <2>6, <2>7
<1> QED
  BY <1>3, <1>4, <1>5

\* What is sent reaches the connections that are up, and replaces nothing else.
LEMMA SendFacts ==
  ASSUME Types, NEW to, NEW k \in {"jukebox", "roster"}, Send(to, k)
  PROVE  /\ outq' \in [ConnIds -> OutRec]
         /\ \A c \in ConnIds :
              /\ c \in to /\ up[c] => outq'[c][k] = "current"
              /\ k = "jukebox" => outq'[c].roster = outq[c].roster
              /\ k = "roster" => outq'[c].jukebox = outq[c].jukebox
              /\ ~ (c \in to /\ up[c]) => outq'[c] = outq[c]
<1>1. outq \in [ConnIds -> OutRec]
  BY DEF Types
<1>2. \A c \in ConnIds : outq[c] \in OutRec /\ [outq[c] EXCEPT ![k] = "current"] \in OutRec
  BY <1>1 DEF OutRec, Seen
<1>3. outq' = [c \in ConnIds |-> IF c \in to /\ up[c]
                 THEN [outq[c] EXCEPT ![k] = "current"] ELSE outq[c]]
  BY DEF Send
<1>4. outq' \in [ConnIds -> OutRec]
  BY <1>2, <1>3
<1>5. \A c \in ConnIds : c \in to /\ up[c] =>
        /\ outq'[c][k] = "current"
        /\ k = "jukebox" => outq'[c].roster = outq[c].roster
        /\ k = "roster" => outq'[c].jukebox = outq[c].jukebox
  BY <1>2, <1>3 DEF OutRec
<1> QED
  BY <1>3, <1>4, <1>5

LEMMA PushFacts ==
  ASSUME Types, NEW c \in ConnIds, HelloPush(c)
  PROVE  /\ UNCHANGED <<conns, registry, held, inq, up, cl>> /\ task[c].pc = "push" /\ Done(c)
         /\ acts' \in 0..MaxActs /\ outq' \in [ConnIds -> OutRec]
         /\ up[c] => outq'[c].jukebox = "current"
         /\ \A o \in ConnIds : outq'[o].roster = outq[o].roster
         /\ \A o \in ConnIds \ {c} : outq'[o] = outq[o]
<1> DEFINE Pushed(some) ==
             [outq[c] EXCEPT !.probe = outq[c].probe \/ some, !.jukebox = "current"]
<1>1. PICK others \in BOOLEAN, some \in BOOLEAN :
        /\ IF others THEN Acts ELSE UNCHANGED acts
        /\ outq' = IF up[c] THEN [outq EXCEPT ![c] = Pushed(some)] ELSE outq
  <2>1. PICK others \in BOOLEAN :
          LET some == others \/ \E t \in Titles : PeersFor(t, conns[c].id) # {}
              msgs == [outq[c] EXCEPT !.probe = outq[c].probe \/ some, !.jukebox = "current"]
          IN /\ IF others THEN Acts ELSE UNCHANGED acts
             /\ outq' = IF up[c] THEN [outq EXCEPT ![c] = msgs] ELSE outq
    BY DEF HelloPush
  <2>2. (others \/ \E t \in Titles : PeersFor(t, conns[c].id) # {}) \in BOOLEAN
    OBVIOUS
  <2> QED
    BY <2>1, <2>2
<1>2. outq \in [ConnIds -> OutRec] /\ acts \in 0..MaxActs /\ outq[c] \in OutRec
  BY DEF Types
<1>3. acts' \in 0..MaxActs
  BY <1>1, <1>2, LobbyAssumption DEF Acts, LobbyAssumption
<1>4. (outq[c].probe \/ some) \in BOOLEAN
  OBVIOUS
<1> DEFINE msgs == Pushed(some)
<1>5. msgs \in OutRec /\ msgs.jukebox = "current" /\ msgs.roster = outq[c].roster
  BY <1>2, <1>4 DEF OutRec, Seen
<1> HIDE DEF Pushed, msgs
<1>6. outq' \in [ConnIds -> OutRec]
  BY <1>1, <1>2, <1>5 DEF msgs
<1>7. UNCHANGED <<conns, registry, held, inq, up, cl>> /\ task[c].pc = "push" /\ Done(c)
  BY DEF HelloPush
<1> QED
  BY <1>1, <1>2, <1>3, <1>5, <1>6, <1>7 DEF msgs

\* The second half of a Resync: what was read is sent, overtaken or not.
LEMMA ReplyFacts ==
  ASSUME Types, NEW c \in ConnIds, ResyncReply(c)
  PROVE  /\ UNCHANGED <<conns, registry, inq, up, cl, acts>>
         /\ task[c].pc = "reply" /\ Done(c)
         /\ held' \in [ConnIds -> {None, "current", "overtaken"}]
         /\ \A o \in ConnIds \ {c} : held'[o] = held[o]
         /\ outq' \in [ConnIds -> OutRec]
         /\ up[c] => outq'[c].roster = held[c]
         /\ \A o \in ConnIds : outq'[o].jukebox = outq[o].jukebox
         /\ \A o \in ConnIds \ {c} : outq'[o] = outq[o]
<1>1. outq \in [ConnIds -> OutRec] /\ held \in [ConnIds -> {None, "current", "overtaken"}]
  BY DEF Types
<1>2. PICK r, x : r = outq[c] /\ x = held[c] /\ r \in OutRec /\ x \in Seen
  BY <1>1 DEF Seen
<1>3. PICK y : y = [r EXCEPT !.roster = x]
  OBVIOUS
<1>4. y \in OutRec /\ y.roster = x /\ y.jukebox = r.jukebox
  BY <1>2, <1>3 DEF OutRec
<1>5. outq' = IF up[c] THEN [outq EXCEPT ![c] = y] ELSE outq
  BY <1>1, <1>2, <1>3 DEF ResyncReply
<1>6. /\ outq' \in [ConnIds -> OutRec]
      /\ up[c] => outq'[c].roster = held[c]
      /\ \A o \in ConnIds : outq'[o].jukebox = outq[o].jukebox
      /\ \A o \in ConnIds \ {c} : outq'[o] = outq[o]
  BY <1>1, <1>2, <1>4, <1>5
<1>7. /\ UNCHANGED <<conns, registry, inq, up, cl, acts>> /\ task[c].pc = "reply" /\ Done(c)
      /\ held' = [held EXCEPT ![c] = None]
  BY DEF ResyncReply
<1> QED
  BY <1>1, <1>6, <1>7

\* A client takes what there is of each kind, and empties the queue.
LEMMA ReceiveFacts ==
  ASSUME Types, Wired, NEW m \in Machines, Receive(m)
  PROVE  /\ UNCHANGED <<serverVars, inq, up, acts>> /\ SameSettings
         /\ outq' \in [ConnIds -> OutRec] /\ cl' \in [Machines -> ClRec]
         /\ \E d \in ConnIds :
              /\ d = cl[m].conn /\ outq'[d] = NoMsgs
              /\ \A o \in ConnIds \ {d} : outq'[o] = outq[o]
              /\ cl'[m].jukebox = IF outq[d].jukebox = None THEN cl[m].jukebox ELSE outq[d].jukebox
              /\ cl'[m].roster = IF outq[d].roster = None THEN cl[m].roster ELSE outq[d].roster
         /\ \A n \in Machines \ {m} : cl'[n] = cl[n]
<1>1. cl \in [Machines -> ClRec] /\ cl[m] \in ClRec /\ outq \in [ConnIds -> OutRec]
  BY DEF Types
<1>2. cl[m].on /\ cl[m].conn \in ConnIds
  <2>1. cl[m].on
    BY DEF Receive
  <2> QED
    BY <1>1, <2>1 DEF ClRec, Wired, Fits
<1>3. PICK d \in ConnIds : d = cl[m].conn
  BY <1>2
<1>4. PICK x, y, b :
        /\ x = IF outq[d].jukebox = None THEN cl[m].jukebox ELSE outq[d].jukebox
        /\ y = IF outq[d].roster = None THEN cl[m].roster ELSE outq[d].roster
        /\ b = (cl[m].probing \/ outq[d].probe)
        /\ outq' = [outq EXCEPT ![d] = NoMsgs]
        /\ cl' = [cl EXCEPT ![m] = [cl[m] EXCEPT !.jukebox = x, !.roster = y, !.probing = b]]
  BY <1>1, <1>3 DEF Receive
<1>5. x \in Seen /\ y \in Seen /\ b \in BOOLEAN
  BY <1>1, <1>3, <1>4 DEF ClRec, OutRec
<1>6. PICK r : r = [cl[m] EXCEPT !.jukebox = x, !.roster = y, !.probing = b]
  OBVIOUS
<1>7. r \in ClRec
  BY <1>1, <1>5, <1>6, ClUpdates
<1>8. /\ r.on = cl[m].on /\ r.conn = cl[m].conn /\ r.mode = cl[m].mode /\ r.pw = cl[m].pw
      /\ r.say = cl[m].say /\ r.told = cl[m].told /\ r.jukebox = x /\ r.roster = y
  BY <1>1, <1>6 DEF ClRec
<1>9. NoMsgs \in OutRec
  BY DEF NoMsgs, OutRec, Seen
<1>10. outq' \in [ConnIds -> OutRec] /\ cl' \in [Machines -> ClRec] /\ cl'[m] = r
       /\ \A n \in Machines \ {m} : cl'[n] = cl[n]
  BY <1>1, <1>4, <1>6, <1>7, <1>9
<1>11. SameSettings
  BY <1>8, <1>10 DEF SameSettings
<1>12. UNCHANGED <<serverVars, inq, up, acts>>
  BY DEF Receive
<1>13. outq'[d] = NoMsgs /\ \A o \in ConnIds \ {d} : outq'[o] = outq[o]
  BY <1>1, <1>4
<1>14. /\ cl'[m].jukebox = IF outq[d].jukebox = None THEN cl[m].jukebox ELSE outq[d].jukebox
       /\ cl'[m].roster = IF outq[d].roster = None THEN cl[m].roster ELSE outq[d].roster
  BY <1>4, <1>8, <1>10
<1> QED
  BY <1>3, <1>10, <1>11, <1>12, <1>13, <1>14

LEMMA CutFacts ==
  ASSUME Types, NEW c \in ConnIds, Cut(c)
  PROVE  /\ UNCHANGED <<serverVars, cl, acts>>
         /\ inq' \in [ConnIds -> Seq(Msgs)] /\ outq' \in [ConnIds -> OutRec]
         /\ up' = [up EXCEPT ![c] = FALSE]
         /\ Slots(c)' \subseteq Slots(c) /\ \A i \in Slots(c)' : inq'[c][i] = inq[c][i]
         /\ \A o \in ConnIds \ {c} : inq'[o] = inq[o] /\ outq'[o] = outq[o]
<1>1. inq \in [ConnIds -> Seq(Msgs)] /\ outq \in [ConnIds -> OutRec]
  BY DEF Types
<1>2. PICK q \in Seq(Msgs), l \in Nat : q = inq[c] /\ l = Len(q)
  BY <1>1, LenProperties
<1>3. PICK n \in 0..l : inq' = [inq EXCEPT ![c] = SubSeq(q, 1, n)]
  BY <1>1, <1>2 DEF Cut
<1>4. PICK s : s = SubSeq(q, 1, n)
  OBVIOUS
<1>5. s \in Seq(Msgs) /\ Len(s) = n /\ \A i \in 1..n : s[i] = q[i]
  BY <1>2, <1>3, <1>4, Prefix
<1>6. inq' \in [ConnIds -> Seq(Msgs)] /\ inq'[c] = s /\ \A o \in ConnIds \ {c} : inq'[o] = inq[o]
  BY <1>1, <1>3, <1>4, <1>5
<1>7. Slots(c)' = 1..n /\ Slots(c) = 1..l
  BY <1>2, <1>5, <1>6 DEF Slots
<1>8. Slots(c)' \subseteq Slots(c) /\ \A i \in Slots(c)' : inq'[c][i] = inq[c][i]
  BY <1>2, <1>5, <1>6, <1>7
<1>9. NoMsgs \in OutRec
  BY DEF NoMsgs, OutRec, Seen
<1>10. /\ outq' \in [ConnIds -> OutRec]
       /\ \A o \in ConnIds \ {c} : outq'[o] = outq[o]
  BY <1>1, <1>9 DEF Cut
<1> QED
  BY <1>6, <1>8, <1>10 DEF Cut

\* The password changes: what has been said stays said, and stored.
LEMMA PasswordFacts ==
  ASSUME LobbyAssumption, Types, PasswordChanges
  PROVE  /\ UNCHANGED <<serverVars, outq, up>> /\ acts' \in 0..MaxActs
         /\ inq' \in [ConnIds -> Seq(Msgs)] /\ cl' \in [Machines -> ClRec]
         /\ SameSettings /\ SameWords
         /\ \A m \in Machines : cl'[m].jukebox = cl[m].jukebox /\ cl'[m].roster = cl[m].roster
<1> DEFINE Word(g) == IF g.k = "auth" THEN [g EXCEPT !.pw = "stale"] ELSE g
<1>1. \A g \in Msgs : Word(g) \in Msgs /\ Word(g).k = g.k /\ (g.k # "auth" => Word(g) = g)
  BY MsgFields
<1>2. inq' = [c \in ConnIds |-> [i \in DOMAIN inq[c] |-> Word(inq[c][i])]]
  BY DEF PasswordChanges
<1> HIDE DEF Word
<1>3. ASSUME NEW c \in ConnIds
      PROVE  /\ inq'[c] \in Seq(Msgs) /\ Slots(c)' = Slots(c)
             /\ \A i \in Slots(c) : inq[c][i] \in Msgs /\ inq'[c][i] = Word(inq[c][i])
  <2>1. PICK q \in Seq(Msgs), n \in Nat : q = inq[c] /\ n = Len(q)
    BY LenProperties DEF Types
  <2>2. DOMAIN q = 1..n /\ \A i \in 1..n : q[i] \in Msgs
    BY <2>1
  <2>3. inq'[c] = [i \in 1..n |-> Word(q[i])]
    BY <1>2, <2>1, <2>2
  <2>4. inq'[c] \in Seq(Msgs) /\ Len(inq'[c]) = n
    BY <1>1, <2>2, <2>3
  <2> QED
    BY <2>1, <2>2, <2>3, <2>4 DEF Slots
<1>4. inq' \in [ConnIds -> Seq(Msgs)]
  BY <1>2, <1>3
<1>5. SameWords
  <2> SUFFICES ASSUME NEW c \in ConnIds, NEW i \in Slots(c)
               PROVE  /\ inq'[c][i].k = inq[c][i].k
                      /\ inq[c][i].k # "auth" => inq'[c][i] = inq[c][i]
    BY <1>3 DEF SameWords
  <2> QED
    BY <1>1, <1>3
<1>6. ASSUME NEW m \in Machines
      PROVE  /\ cl'[m] \in ClRec /\ cl'[m].jukebox = cl[m].jukebox /\ cl'[m].roster = cl[m].roster
             /\ cl'[m].on = cl[m].on /\ cl'[m].conn = cl[m].conn /\ cl'[m].mode = cl[m].mode
             /\ cl'[m].say = cl[m].say /\ cl'[m].told = cl[m].told
             /\ cl'[m].pw = None <=> cl[m].pw = None
  <2>1. PICK r, x : r \in ClRec /\ r = cl[m] /\ x = Outdated(r.pw)
    BY DEF Types
  <2>2. x \in Secrets /\ (x = None <=> r.pw = None)
    BY <2>1, LobbyAssumption DEF Outdated, Secrets, ClRec, LobbyAssumption
  <2>3. PICK y : y = [r EXCEPT !.pw = x]
    OBVIOUS
  <2>4. y \in ClRec
    BY <2>1, <2>2, <2>3 DEF ClRec
  <2>5. /\ y.jukebox = r.jukebox /\ y.roster = r.roster /\ y.on = r.on /\ y.conn = r.conn
        /\ y.mode = r.mode /\ y.say = r.say /\ y.told = r.told /\ y.pw = x
    BY <2>1, <2>3 DEF ClRec
  <2>6. cl'[m] = y
    BY <2>1, <2>3 DEF PasswordChanges
  <2> QED
    BY <2>1, <2>2, <2>4, <2>5, <2>6
<1>7. cl' \in [Machines -> ClRec] /\ SameSettings
  BY <1>6 DEF PasswordChanges, SameSettings
<1>8. UNCHANGED <<serverVars, outq, up>> /\ acts' \in 0..MaxActs
  BY LobbyAssumption DEF PasswordChanges, Acts, Types, LobbyAssumption
<1> QED
  BY <1>4, <1>5, <1>6, <1>7, <1>8

LEMMA ConnUpdates ==
  ASSUME NEW r \in ConnRec, NEW g \in Msgs
  PROVE  /\ g.k = "hello" => [r EXCEPT !.id = g.id, !.mode = g.mode, !.verified = FALSE,
                                      !.refused = FALSE] \in ConnRec
         /\ g.k = "activity" => [r EXCEPT !.server_only = g.server_only] \in ConnRec
         /\ [r EXCEPT !.verified = TRUE] \in ConnRec
         /\ [r EXCEPT !.refused = TRUE] \in ConnRec
<1>1. CASE g.k = "hello"
  <2>1. g.id \in Peers /\ g.mode \in Modes
    BY <1>1, MsgFields DEF Peers
  <2> QED
    BY <1>1, <2>1 DEF ConnRec
<1>2. CASE g.k = "activity"
  <2>1. g.server_only \in BOOLEAN
    BY <1>2, MsgFields
  <2> QED
    BY <1>2, <2>1 DEF ConnRec
<1>3. [r EXCEPT !.verified = TRUE] \in ConnRec /\ [r EXCEPT !.refused = TRUE] \in ConnRec
  BY DEF ConnRec
<1> QED
  BY <1>1, <1>2, <1>3

\* The three handlers that change a session's record.
LEMMA ConnTypes ==
  ASSUME Types, NEW c \in ConnIds, Hello(c) \/ Activity(c) \/ PlaybackAuth(c)
  PROVE  /\ Open' = Open /\ conns' \in [Open -> ConnRec]
         /\ \A o \in Open \ {c} : conns'[o] = conns[o]
         /\ Hello(c) => conns'[c].id = inq[c][1].id /\ conns'[c].mode = inq[c][1].mode
         /\ Activity(c) => /\ conns'[c].id = conns[c].id /\ conns'[c].mode = conns[c].mode
                           /\ conns'[c].verified = conns[c].verified
                           /\ conns'[c].refused = conns[c].refused
         /\ PlaybackAuth(c) => /\ conns'[c].id = conns[c].id /\ conns'[c].mode = conns[c].mode
                               /\ conns'[c].verified \/ conns'[c].refused
<1>1. PICK k : Took(c, k) /\ (Hello(c) => k = "hello") /\ (Activity(c) => k = "activity")
  <2>1. /\ Hello(c) => Took(c, "hello")
        /\ Activity(c) => Took(c, "activity")
        /\ PlaybackAuth(c) => Took(c, "auth")
    BY DEF Hello, Activity, PlaybackAuth
  <2>2. \A j, l : Took(c, j) /\ Took(c, l) => j = l
    BY DEF Took
  <2> QED
    BY <2>1, <2>2
<1>2. PICK g \in Msgs : g = Head(inq[c]) /\ g = inq[c][1] /\ g.k = k
  BY <1>1, TookFacts
<1>3. conns \in [Open -> ConnRec] /\ c \in Open /\ conns[c] \in ConnRec
  BY <1>1, TookFacts DEF Types
<1> DEFINE U(r) == /\ Open' = Open /\ conns' \in [Open -> ConnRec]
                   /\ \A o \in Open \ {c} : conns'[o] = conns[o]
                   /\ conns'[c] = r
<1>4. ASSUME NEW r \in ConnRec, conns' = [conns EXCEPT ![c] = r] PROVE U(r)
  <2>1. DOMAIN conns' = Open
    BY <1>3, <1>4 DEF Open
  <2> QED
    BY <1>3, <1>4, <2>1 DEF Open
<1>5. CASE Hello(c)
  <2>1. PICK r \in ConnRec : r = [conns[c] EXCEPT !.id = g.id, !.mode = g.mode,
                                                  !.verified = FALSE, !.refused = FALSE]
    BY <1>1, <1>2, <1>3, <1>5, ConnUpdates
  <2>2. conns' = [conns EXCEPT ![c] = r]
    BY <1>2, <1>5, <2>1 DEF Hello
  <2>3. U(r)
    BY <1>4, <2>2
  <2>4. r.id = g.id /\ r.mode = g.mode /\ ~r.verified
    BY <1>3, <2>1 DEF ConnRec
  <2>5. ~Activity(c) /\ ~PlaybackAuth(c)
    BY <1>5 DEF Hello, Activity, PlaybackAuth, Took
  <2> QED
    BY <1>2, <2>3, <2>4, <2>5
<1>6. CASE Activity(c)
  <2>1. PICK r \in ConnRec : r = [conns[c] EXCEPT !.server_only = g.server_only]
    BY <1>1, <1>2, <1>3, <1>6, ConnUpdates
  <2>2. conns' = [conns EXCEPT ![c] = r]
    BY <1>2, <1>3, <1>6, <2>1 DEF Activity
  <2>3. U(r)
    BY <1>4, <2>2
  <2>4. r.id = conns[c].id /\ r.mode = conns[c].mode /\ r.verified = conns[c].verified
        /\ r.refused = conns[c].refused
    BY <1>3, <2>1 DEF ConnRec
  <2>5. ~Hello(c) /\ ~PlaybackAuth(c)
    BY <1>6 DEF Hello, Activity, PlaybackAuth, Took
  <2> QED
    BY <1>2, <2>3, <2>4, <2>5
<1>7. CASE PlaybackAuth(c)
  <2>0. PICK x \in ConnRec, y \in ConnRec : /\ x = [conns[c] EXCEPT !.verified = TRUE]
                                            /\ y = [conns[c] EXCEPT !.refused = TRUE]
    BY <1>2, <1>3, ConnUpdates
  <2>1. /\ x.id = conns[c].id /\ x.mode = conns[c].mode /\ x.verified
        /\ y.id = conns[c].id /\ y.mode = conns[c].mode /\ y.refused
    BY <1>3, <2>0 DEF ConnRec
  <2>2. PICK r \in {x, y} : conns' = [conns EXCEPT ![c] = r]
    BY <1>3, <1>7, <2>0 DEF PlaybackAuth
  <2>3. U(r)
    BY <1>4, <2>2
  <2>4. r.id = conns[c].id /\ r.mode = conns[c].mode /\ (r.verified \/ r.refused)
    BY <2>1
  <2>5. ~Hello(c) /\ ~Activity(c)
    BY <1>7 DEF Hello, Activity, PlaybackAuth, Took
  <2> QED
    BY <1>2, <2>3, <2>4, <2>5
<1> QED
  BY <1>5, <1>6, <1>7

-----------------------------------------------------------------------------
(* What a machine says *)

\* The machine m says msgs, and its record becomes r.
Spoken(m, msgs, r) ==
  /\ SendWs(m, msgs) /\ cl' = [cl EXCEPT ![m] = r]
  /\ UNCHANGED <<serverVars, outq, up>> /\ acts' \in 0..MaxActs
  /\ r.on = cl[m].on /\ r.conn = cl[m].conn /\ r.mode = cl[m].mode
  /\ r.jukebox = cl[m].jukebox /\ r.roster = cl[m].roster
  /\ Fits(r)
  /\ \A i \in 1..Len(msgs) : msgs[i].k = "hello" =>
       msgs[i].id = m /\ msgs[i].mode = cl[m].mode
  /\ r.say # 1 /\ cl[m].say = 1 => \E i \in 1..Len(msgs) : msgs[i].k = "hello"
  /\ r.say = 0 /\ cl[m].say # 0 => \E i \in 1..Len(msgs) : msgs[i].k = "resync"
  /\ \A t \in r.told \ cl[m].told :
       cl[m].say # 1 /\ \E i \in 1..Len(msgs) : msgs[i].k = "announce" /\ msgs[i].t = t
  /\ r.pw # None /\ r.say = 0 =>
       /\ \A i \in 1..Len(msgs) : msgs[i].k # "hello"
       /\ \/ cl[m].pw # None /\ cl[m].say = 0
          \/ \E i \in 1..Len(msgs) : msgs[i].k = "auth"

LEMMA SayNothing ==
  ASSUME Types, Wired, NEW m \in Machines, inq' = inq
  PROVE  <<>> \in Seq(Msgs) /\ Len(<<>>) = 0 /\ SendWs(m, <<>>)
<1>1. \A q \in Seq(Msgs) : q \o <<>> = q
  BY ConcatEmptySeq
<1>2. cl[m].on => cl[m].conn \in ConnIds
  BY DEF Types, Wired, Fits, ClRec
<1>3. cl[m].on => inq[cl[m].conn] \o <<>> = inq[cl[m].conn]
  BY <1>1, <1>2 DEF Types
<1>4. cl[m].on => inq = [inq EXCEPT ![cl[m].conn] = inq[cl[m].conn] \o <<>>]
  BY <1>2, <1>3 DEF Types
<1> QED
  BY <1>4 DEF SendWs

LEMMA SayOne ==
  ASSUME NEW g \in Msgs
  PROVE  <<g>> \in Seq(Msgs) /\ Len(<<g>>) = 1 /\ \A i \in 1..1 : <<g>>[i] = g
  OBVIOUS

\* Most of what a machine says goes with no change of what is in the greeting.
LEMMA SayAsBefore ==
  ASSUME Types, Wired, NEW m \in Machines, NEW msgs \in Seq(Msgs), SendWs(m, msgs),
         NEW r \in ClRec, cl' = [cl EXCEPT ![m] = r],
         UNCHANGED <<serverVars, outq, up>>, acts' \in 0..MaxActs,
         r.on = cl[m].on, r.conn = cl[m].conn, r.mode = cl[m].mode, r.say = cl[m].say,
         r.told = cl[m].told, r.pw = cl[m].pw,
         r.jukebox = cl[m].jukebox, r.roster = cl[m].roster,
         \A i \in 1..Len(msgs) : msgs[i].k = "hello" =>
           msgs[i].id = m /\ msgs[i].mode = cl[m].mode /\ cl[m].pw = None
  PROVE  Spoken(m, msgs, r)
<1>1. Fits(r)
  BY DEF Wired, Fits
<1> QED
  BY <1>1 DEF Spoken

LEMMA SayFacts ==
  ASSUME LobbyAssumption, Types, Wired, NEW m \in Machines, Say(m)
  PROVE  \E msgs \in Seq(Msgs), r \in ClRec : Spoken(m, msgs, r)
<1>1. PICK o \in ClRec : o = cl[m] /\ Fits(o)
  BY DEF Types, Wired
<1>2. cl \in [Machines -> ClRec] /\ acts \in 0..MaxActs /\ cl[m] = o
  BY <1>1 DEF Types
<1>3. /\ SendWs(m, Greeting(m, o.say)) /\ o.say # 0
      /\ UNCHANGED <<serverVars, outq, up>> /\ acts' \in 0..MaxActs
  BY <1>2 DEF Say
<1>4. CASE o.say = 1
  <2>1. PICK r : r = [o EXCEPT !.say = 2, !.told = o.told]
    OBVIOUS
  <2>2. r \in ClRec
    <3>1. 2 \in 0..2 /\ o.told \in SUBSET Titles
      BY DEF ClRec
    <3> QED
      BY <2>1, <3>1 DEF ClRec
  <2>3. /\ r.on = o.on /\ r.conn = o.conn /\ r.mode = o.mode /\ r.say = 2
        /\ r.told = o.told /\ r.pw = o.pw /\ r.jukebox = o.jukebox /\ r.roster = o.roster
    BY <2>1 DEF ClRec
  <2>4. cl' = [cl EXCEPT ![m] = r]
    <3>1. (1 + 1) % 3 = 2
      OBVIOUS
    <3> QED
      BY <1>2, <1>4, <2>1, <3>1 DEF Say
  <2>5. PICK g \in Msgs : g = HelloMsg(m) /\ g.k = "hello" /\ g.id = m /\ g.mode = o.mode
    <3>1. o.mode \in Modes
      BY DEF ClRec
    <3>2. PICK g \in Msgs : g = [k |-> "hello", id |-> m, mode |-> o.mode]
      BY <3>1 DEF Msgs
    <3> QED
      BY <1>2, <3>2 DEF HelloMsg
  <2>6. PICK msgs \in Seq(Msgs) : /\ msgs = <<g>> /\ Len(msgs) = 1
                                  /\ \A i \in 1..1 : msgs[i] = g
    BY SayOne
  <2>7. SendWs(m, msgs)
    BY <1>3, <1>4, <2>5, <2>6 DEF Greeting
  <2>8. Fits(r)
    BY <1>1, <2>3 DEF Fits
  <2>9. \E i \in 1..Len(msgs) : msgs[i].k = "hello"
    BY <2>5, <2>6
  <2>10. \A i \in 1..Len(msgs) : msgs[i].k = "hello" => msgs[i].id = m /\ msgs[i].mode = cl[m].mode
    BY <1>2, <2>5, <2>6
  <2>11. Spoken(m, msgs, r)
    BY <1>2, <1>3, <2>3, <2>4, <2>7, <2>8, <2>9, <2>10 DEF Spoken
  <2> QED
    BY <2>2, <2>11
<1>5. CASE o.say = 2
  <2>0. Seeds(m) \in SUBSET Titles /\ (Seeds(m) # {} => o.mode = "client")
    BY <1>2 DEF Seeds, ClRec
  <2>1. PICK r, u : u = o.told \cup Seeds(m) /\ r = [o EXCEPT !.say = 0, !.told = u]
    OBVIOUS
  <2>2. r \in ClRec
    <3>1. 0 \in 0..2 /\ u \in SUBSET Titles
      BY <2>0, <2>1 DEF ClRec
    <3> QED
      BY <2>1, <3>1 DEF ClRec
  <2>3. /\ r.on = o.on /\ r.conn = o.conn /\ r.mode = o.mode /\ r.say = 0
        /\ r.told = u /\ r.pw = o.pw /\ r.jukebox = o.jukebox /\ r.roster = o.roster
    BY <2>1 DEF ClRec
  <2>4. cl' = [cl EXCEPT ![m] = r]
    <3>1. (2 + 1) % 3 = 0
      OBVIOUS
    <3> QED
      BY <1>2, <1>5, <2>1, <3>1 DEF Say
  <2>5. PICK g : g = Greeting(m, 2)
    OBVIOUS
  <2>6. /\ g \in Seq(Msgs)
        /\ \A i \in 1..Len(g) : g[i].k # "hello"
        /\ \E i \in 1..Len(g) : g[i].k = "resync"
        /\ cl[m].mode = "playback" /\ cl[m].pw # None => \E i \in 1..Len(g) : g[i].k = "auth"
        /\ \A t \in Seeds(m) : \E i \in 1..Len(g) : g[i].k = "announce" /\ g[i].t = t
    BY <2>5, GreetingFacts
  <2>7. SendWs(m, g)
    BY <1>3, <1>5, <2>5
  <2>8. Fits(r)
    BY <1>1, <2>0, <2>1, <2>3, <1>5 DEF Fits
  <2>9. r.pw # None => \E i \in 1..Len(g) : g[i].k = "auth"
    BY <1>1, <1>2, <2>3, <2>6 DEF Fits
  <2>10. \A t \in r.told \ cl[m].told :
           cl[m].say # 1 /\ \E i \in 1..Len(g) : g[i].k = "announce" /\ g[i].t = t
    BY <1>2, <1>5, <2>1, <2>3, <2>6
  <2>11. Spoken(m, g, r)
    BY <1>2, <1>3, <1>5, <2>3, <2>4, <2>6, <2>7, <2>8, <2>9, <2>10 DEF Spoken
  <2> QED
    BY <2>2, <2>6, <2>11
<1> QED
  <2>1. o.say \in 0..2
    BY DEF ClRec
  <2> QED
    BY <1>3, <1>4, <1>5, <2>1

LEMMA SettingUpdates ==
  ASSUME NEW o \in ClRec, NEW t \in Titles, NEW x \in {"up", "down"}
  PROVE  /\ [o EXCEPT !.seeder = x] \in ClRec
         /\ [o EXCEPT !.seeds = o.seeds \cup {t}] \in ClRec
         /\ [o EXCEPT !.told = o.told \cup {t}] \in ClRec
<1>1. [o EXCEPT !.seeder = x] \in ClRec
  BY DEF ClRec
<1>2. [o EXCEPT !.seeds = o.seeds \cup {t}] \in ClRec
  <2>1. o.seeds \cup {t} \in SUBSET Titles
    BY DEF ClRec
  <2> QED
    BY <2>1 DEF ClRec
<1>3. [o EXCEPT !.told = o.told \cup {t}] \in ClRec
  <2>1. o.told \cup {t} \in SUBSET Titles
    BY DEF ClRec
  <2> QED
    BY <2>1 DEF ClRec
<1> QED
  BY <1>1, <1>2, <1>3

\* What a machine does apart from its greeting: a test ends, a user asks for
\* something, a download gets on.
Speaking(m) ==
  \/ \E ok \in BOOLEAN : Probed(m, ok)
  \/ \E k \in {"vote", "next"} : UserJukebox(m, k)
  \/ \E t \in Titles : FirstChunks(m, t) \/ Finished(m, t)
  \/ EnterPassword(m) \/ StartSeeder(m) \/ Rename(m) \/ ShareBack(m)

LEMMA SpeakingFacts ==
  ASSUME LobbyAssumption, Types, Wired, NEW m \in Machines, Speaking(m)
  PROVE  \E msgs \in Seq(Msgs), r \in ClRec : Spoken(m, msgs, r)
<1>1. PICK o \in ClRec : o = cl[m] /\ Fits(o)
  BY DEF Types, Wired
<1>2. /\ cl \in [Machines -> ClRec] /\ acts \in 0..MaxActs /\ cl[m] = o
      /\ cl = [cl EXCEPT ![m] = o]
  BY <1>1 DEF Types
<1>3. (acts' = acts \/ Acts) => acts' \in 0..MaxActs
  BY <1>2, LobbyAssumption DEF Acts, LobbyAssumption
<1>4. /\ <<>> \in Seq(Msgs) /\ Len(<<>>) = 0 /\ \A i : i \notin 1..Len(<<>>)
      /\ inq' = inq => SendWs(m, <<>>)
  BY SayNothing
<1> DEFINE Kept(r) ==
             /\ r.on = o.on /\ r.conn = o.conn /\ r.mode = o.mode /\ r.say = o.say
             /\ r.jukebox = o.jukebox /\ r.roster = o.roster
<1>5. ASSUME NEW r \in ClRec, Kept(r), r.told = o.told, r.pw = o.pw,
             cl' = [cl EXCEPT ![m] = r],
             UNCHANGED <<serverVars, outq, up>>, acts' = acts \/ Acts, SendWs(m, <<>>)
      PROVE  Spoken(m, <<>>, r)
  BY <1>2, <1>3, <1>4, <1>5, SayAsBefore
<1>6. ASSUME NEW g \in Msgs, g.k = "hello" => g.id = m /\ g.mode = o.mode /\ o.pw = None,
             NEW r \in ClRec, Kept(r), r.told = o.told, r.pw = o.pw,
             cl' = [cl EXCEPT ![m] = r],
             UNCHANGED <<serverVars, outq, up>>, acts' = acts \/ Acts, SendWs(m, <<g>>)
      PROVE  \E msgs \in Seq(Msgs) : Spoken(m, msgs, r)
  <2>1. PICK msgs \in Seq(Msgs) : /\ msgs = <<g>> /\ Len(msgs) = 1
                                  /\ \A i \in 1..1 : msgs[i] = g
    BY SayOne
  <2>2. \A i \in 1..Len(msgs) : msgs[i].k = "hello" =>
          msgs[i].id = m /\ msgs[i].mode = cl[m].mode /\ cl[m].pw = None
    BY <1>2, <1>6, <2>1
  <2>3. Spoken(m, msgs, r)
    BY <1>2, <1>3, <1>6, <2>1, <2>2, SayAsBefore
  <2> QED
    BY <2>3
<1>7. ASSUME NEW ok \in BOOLEAN, Probed(m, ok)
      PROVE  \E msgs \in Seq(Msgs), r \in ClRec : Spoken(m, msgs, r)
  <2>1. PICK r : r = [o EXCEPT !.probing = FALSE]
    OBVIOUS
  <2>2. r \in ClRec
    BY <2>1 DEF ClRec
  <2>3. Kept(r) /\ r.told = o.told /\ r.pw = o.pw
    BY <2>1 DEF ClRec
  <2>4. PICK b \in BOOLEAN : b = ~ok
    OBVIOUS
  <2>5. PICK g : g \in Msgs /\ g = [k |-> "activity", server_only |-> b] /\ g.k = "activity"
    <3>1. [k |-> "activity", server_only |-> b] \in Msgs
      BY DEF Msgs
    <3> QED
      BY <3>1
  <2>6. /\ cl' = [cl EXCEPT ![m] = r] /\ SendWs(m, <<g>>)
        /\ UNCHANGED <<serverVars, outq, up, acts>>
    BY <1>2, <1>7, <2>1, <2>4, <2>5 DEF Probed
  <2> QED
    BY <1>6, <2>2, <2>3, <2>5, <2>6
<1>8. ASSUME NEW k \in {"vote", "next"}, UserJukebox(m, k)
      PROVE  \E msgs \in Seq(Msgs), r \in ClRec : Spoken(m, msgs, r)
  <2>1. PICK g : g \in Msgs /\ g = [k |-> k] /\ g.k = k
    <3>1. [k |-> k] \in Msgs
      BY DEF Msgs
    <3> QED
      BY <3>1
  <2>2. cl' = [cl EXCEPT ![m] = o] /\ SendWs(m, <<g>>) /\ Acts /\ UNCHANGED <<serverVars, outq, up>>
    BY <1>2, <1>8, <2>1 DEF UserJukebox
  <2> QED
    BY <1>6, <2>1, <2>2
<1>9. ASSUME EnterPassword(m)
      PROVE  \E msgs \in Seq(Msgs), r \in ClRec : Spoken(m, msgs, r)
  <2>1. PICK pw \in {"current", "stale"} :
          /\ cl' = [cl EXCEPT ![m] = [o EXCEPT !.pw = pw]]
          /\ SendWs(m, <<[k |-> "auth", pw |-> pw]>>)
    BY <1>2, <1>9 DEF EnterPassword
  <2>2. PICK r : r = [o EXCEPT !.pw = pw]
    OBVIOUS
  <2>3. r \in ClRec
    <3>1. pw \in Secrets
      BY DEF Secrets
    <3> QED
      BY <2>2, <3>1 DEF ClRec
  <2>4. Kept(r) /\ r.told = o.told
    BY <2>2 DEF ClRec
  <2>5. PICK g : g \in Msgs /\ g = [k |-> "auth", pw |-> pw] /\ g.k = "auth"
    <3>1. [k |-> "auth", pw |-> pw] \in Msgs
      BY DEF Msgs
    <3> QED
      BY <3>1
  <2>6. PICK msgs \in Seq(Msgs) : /\ msgs = <<g>> /\ Len(msgs) = 1
                                  /\ \A i \in 1..1 : msgs[i] = g
    BY <2>5, SayOne
  <2>7. Fits(r)
    BY <1>1, <1>2, <1>9, <2>4 DEF Fits, EnterPassword
  <2>8. (\E i \in 1..Len(msgs) : msgs[i].k = "auth") /\ \A i \in 1..Len(msgs) : msgs[i].k # "hello"
    BY <2>5, <2>6
  <2>9. UNCHANGED <<serverVars, outq, up>> /\ acts' \in 0..MaxActs
    BY <1>3, <1>9 DEF EnterPassword
  <2>10. Spoken(m, msgs, r)
    BY <1>2, <2>1, <2>2, <2>4, <2>5, <2>6, <2>7, <2>8, <2>9 DEF Spoken
  <2> QED
    BY <2>3, <2>10
<1>10. ASSUME StartSeeder(m)
       PROVE  \E msgs \in Seq(Msgs), r \in ClRec : Spoken(m, msgs, r)
  <2>1. PICK x \in {"up", "down"} : x = IF o.share THEN "up" ELSE "down"
    OBVIOUS
  <2>2. PICK r : r = [o EXCEPT !.seeder = x]
    OBVIOUS
  <2>3. r \in ClRec
    BY <2>2 DEF ClRec
  <2>4. Kept(r) /\ r.told = o.told /\ r.pw = o.pw
    BY <2>2 DEF ClRec
  <2>5. cl' = [cl EXCEPT ![m] = r] /\ inq' = inq /\ UNCHANGED <<serverVars, outq, up, acts>>
    BY <1>2, <1>10, <2>1, <2>2 DEF StartSeeder
  <2> QED
    BY <1>4, <1>5, <2>3, <2>4, <2>5
<1>11. ASSUME NEW t \in Titles, FirstChunks(m, t)
       PROVE  \E msgs \in Seq(Msgs), r \in ClRec : Spoken(m, msgs, r)
  <2>1. PICK r : r = [o EXCEPT !.seeds = o.seeds \cup {t}]
    OBVIOUS
  <2>2. r \in ClRec
    BY <2>1, SettingUpdates
  <2>3. Kept(r) /\ r.told = o.told /\ r.pw = o.pw
    BY <2>1 DEF ClRec
  <2>4. cl' = [cl EXCEPT ![m] = r] /\ inq' = inq /\ Acts /\ UNCHANGED <<serverVars, outq, up>>
    BY <1>2, <1>11, <2>1 DEF FirstChunks
  <2> QED
    BY <1>4, <1>5, <2>2, <2>3, <2>4
<1>12. ASSUME NEW t \in Titles, Finished(m, t)
       PROVE  \E msgs \in Seq(Msgs), r \in ClRec : Spoken(m, msgs, r)
  <2>1. PICK g : g \in Msgs /\ g = [k |-> "announce", t |-> t] /\ g.k = "announce" /\ g.t = t
    <3>1. [k |-> "announce", t |-> t] \in Msgs
      BY DEF Msgs
    <3> QED
      BY <3>1
  <2>2. Acts /\ UNCHANGED <<serverVars, outq, up>> /\ o.mode = "client"
    BY <1>2, <1>12 DEF Finished
  <2>3. PICK tells \in BOOLEAN :
          /\ SendWs(m, OnlyIf(tells, g))
          /\ cl' = IF tells /\ o.say # 1
                   THEN [cl EXCEPT ![m] = [o EXCEPT !.told = o.told \cup {t}]] ELSE cl
    BY <1>2, <1>12, <2>1 DEF Finished
  <2>4. CASE ~tells
    <3>1. SendWs(m, <<>>) /\ cl' = [cl EXCEPT ![m] = o]
      BY <1>2, <2>3, <2>4 DEF OnlyIf
    <3> QED
      BY <1>4, <1>5, <2>2, <3>1
  <2>5. CASE tells /\ o.say = 1
    BY <1>2, <1>6, <2>1, <2>2, <2>3, <2>5 DEF OnlyIf
  <2>6. CASE tells /\ o.say # 1
    <3>1. PICK r, u : u = o.told \cup {t} /\ r = [o EXCEPT !.told = u]
      OBVIOUS
    <3>2. r \in ClRec
      BY <3>1, SettingUpdates
    <3>3. Kept(r) /\ r.told = u /\ r.pw = o.pw
      BY <3>1 DEF ClRec
    <3>4. PICK msgs \in Seq(Msgs) : /\ msgs = <<g>> /\ Len(msgs) = 1
                                    /\ \A i \in 1..1 : msgs[i] = g
      BY <2>1, SayOne
    <3>5. SendWs(m, msgs) /\ cl' = [cl EXCEPT ![m] = r]
      BY <2>3, <2>6, <3>1, <3>4 DEF OnlyIf
    <3>6. Fits(r)
      BY <1>1, <2>2, <2>6, <3>3 DEF Fits
    <3>7. \A i \in 1..Len(msgs) : msgs[i].k # "hello"
      BY <2>1, <3>4
    <3>8. \E i \in 1..Len(msgs) : msgs[i].k = "announce" /\ msgs[i].t = t
      BY <2>1, <3>4
    <3>9. Spoken(m, msgs, r)
      BY <1>2, <1>3, <2>2, <2>6, <3>1, <3>3, <3>5, <3>6, <3>7, <3>8 DEF Spoken
    <3> QED
      BY <3>2, <3>9
  <2> QED
    BY <2>4, <2>5, <2>6
<1>13. ASSUME Rename(m)
       PROVE  \E msgs \in Seq(Msgs), r \in ClRec : Spoken(m, msgs, r)
  <2>1. PICK g \in Msgs : g = HelloMsg(m) /\ g.k = "hello" /\ g.id = m /\ g.mode = o.mode
    <3>1. o.mode \in Modes
      BY DEF ClRec
    <3>2. PICK g \in Msgs : g = [k |-> "hello", id |-> m, mode |-> o.mode]
      BY <3>1 DEF Msgs
    <3> QED
      BY <1>2, <3>2 DEF HelloMsg
  <2>2. Acts /\ UNCHANGED <<serverVars, outq, up>> /\ o.mode = "client" /\ SendWs(m, <<g>>)
        /\ cl' = [cl EXCEPT ![m] = o]
    BY <1>2, <1>13, <2>1 DEF Rename
  <2>3. o.pw = None
    BY <1>1, <2>2 DEF Fits
  <2> QED
    BY <1>6, <2>1, <2>2, <2>3
<1>14. ASSUME ShareBack(m)
       PROVE  \E msgs \in Seq(Msgs), r \in ClRec : Spoken(m, msgs, r)
  <2>1. PICK b, r : b \in BOOLEAN /\ b = ~o.share /\ r = [o EXCEPT !.share = b]
    OBVIOUS
  <2>2. r \in ClRec
    BY <2>1 DEF ClRec
  <2>3. Kept(r) /\ r.told = o.told /\ r.pw = o.pw
    BY <2>1 DEF ClRec
  <2>4. cl' = [cl EXCEPT ![m] = r] /\ inq' = inq /\ Acts /\ UNCHANGED <<serverVars, outq, up>>
    BY <1>2, <1>14, <2>1 DEF ShareBack
  <2> QED
    BY <1>4, <1>5, <2>2, <2>3, <2>4
<1> QED
  BY <1>7, <1>8, <1>9, <1>10, <1>11, <1>12, <1>13, <1>14 DEF Speaking

\* A machine without a connection, after the step, has nothing to do with any.
LEMMA AloneFacts ==
  ASSUME LobbyAssumption, Types, Wired, NEW m \in Machines, Lost(m) \/ SwitchMode(m)
  PROVE  /\ UNCHANGED <<serverVars, inq, outq, up>> /\ acts' \in 0..MaxActs
         /\ cl' \in [Machines -> ClRec] /\ \A o \in Machines \ {m} : cl'[o] = cl[o]
         /\ ~cl'[m].on /\ Fits(cl'[m])
<1>1. PICK o \in ClRec : o = cl[m] /\ Fits(o)
  BY DEF Types, Wired
<1>2. cl \in [Machines -> ClRec] /\ acts \in 0..MaxActs /\ cl[m] = o
  BY <1>1 DEF Types
<1>3. CASE Lost(m)
  <2>1. PICK r : r = [o EXCEPT !.on = FALSE, !.conn = 0]
    OBVIOUS
  <2>2. r \in ClRec
    BY <2>1 DEF ClRec
  <2>3. ~r.on /\ r.conn = 0 /\ r.mode = o.mode /\ r.pw = o.pw
    BY <2>1 DEF ClRec
  <2>4. cl' = [cl EXCEPT ![m] = r] /\ UNCHANGED <<serverVars, inq, outq, up, acts>>
    BY <1>2, <1>3, <2>1 DEF Lost
  <2>5. Fits(r)
    BY <1>1, <2>3 DEF Fits
  <2> QED
    BY <1>2, <2>2, <2>3, <2>4, <2>5
<1>4. CASE SwitchMode(m)
  <2>1. PICK md \in Modes : cl' = [cl EXCEPT ![m] =
          [o EXCEPT !.mode = md, !.pw = None, !.probing = FALSE,
                    !.seeder = "starting", !.jukebox = None, !.roster = None]]
    BY <1>2, <1>4 DEF SwitchMode
  <2>2. PICK r : r = [o EXCEPT !.mode = md, !.pw = None, !.probing = FALSE,
                               !.seeder = "starting", !.jukebox = None, !.roster = None]
    OBVIOUS
  <2>3. r \in ClRec
    BY <2>2 DEF ClRec, Seen, Secrets
  <2>4. r.on = o.on /\ r.conn = o.conn /\ r.pw = None
    BY <2>2 DEF ClRec
  <2>5. ~o.on /\ UNCHANGED <<serverVars, inq, outq, up>> /\ Acts
    BY <1>2, <1>4 DEF SwitchMode
  <2>6. Fits(r)
    BY <1>1, <2>4, <2>5 DEF Fits
  <2>7. acts' \in 0..MaxActs
    BY <1>2, <2>5, LobbyAssumption DEF Acts, LobbyAssumption
  <2> QED
    BY <1>2, <2>1, <2>2, <2>3, <2>4, <2>5, <2>6, <2>7
<1> QED
  BY <1>3, <1>4

\* One action at a time keeps the kinds of values.
LEMMA SessionTypes ==
  ASSUME Types, Wired, NEW c \in ConnIds, Session(c)
  PROVE  Types'
<1> USE DEF Types
<1>1. c \in Handlers /\ {"idle", "roster", "push", "activity", "read", "reply", "snap",
                         "left", "lastgone", "requeue"} \subseteq Stages
  BY DEF Handlers, Stages
<1>2. \A pc \in Stages : Goes(c, pc) \/ Done(c) => task' \in [Handlers -> TaskRec]
  BY <1>1, GoesTypes
<1>3. \A k : Took(c, k) => inq' \in [ConnIds -> Seq(Msgs)]
  BY TookFacts
<1>4. /\ JukeboxChanges \/ RosterChanges =>
           outq' \in [ConnIds -> OutRec] /\ cl' \in [Machines -> ClRec]
      /\ RosterChanges => held' \in [ConnIds -> {None, "current", "overtaken"}]
  BY LobbyAssumption, ChangesTypes
<1>5. \A to : \A k \in {"jukebox", "roster"} : Send(to, k) => outq' \in [ConnIds -> OutRec]
  BY SendFacts
<1>6. Acts => acts' \in 0..MaxActs
  BY LobbyAssumption DEF Acts, LobbyAssumption
<1>7. conns' = conns => Open' = Open
  BY DEF Open
<1>8. CASE Hello(c)
  BY <1>1, <1>2, <1>3, <1>4, <1>8, ConnTypes DEF Hello
<1>9. CASE HelloRoster(c)
  BY <1>1, <1>2, <1>5, <1>7, <1>9 DEF HelloRoster, BroadcastRoster
<1>10. CASE HelloPush(c)
  <2>1. /\ UNCHANGED <<conns, registry, held, inq, up, cl>> /\ Done(c)
        /\ acts' \in 0..MaxActs /\ outq' \in [ConnIds -> OutRec]
    BY <1>10, PushFacts
  <2> QED
    BY <1>1, <1>2, <1>7, <2>1
<1>11. CASE Announce(c)
  <2>1. PICK g \in Msgs : g = Head(inq[c]) /\ g.k = "announce" /\ c \in Open
    BY <1>11, TookFacts DEF Announce
  <2>2. <<g.t, conns[c].id>> \in Titles \X Peers
    <3>1. conns[c] \in ConnRec /\ g.t \in Titles
      BY <2>1, MsgFields
    <3>2. conns[c].id \in Peers
      BY <3>1 DEF ConnRec
    <3> QED
      BY <3>1, <3>2
  <2>3. registry' \subseteq Titles \X Peers
    BY <1>11, <2>1, <2>2 DEF Announce
  <2> QED
    BY <1>3, <1>7, <1>11, <2>3 DEF Announce
<1>12. CASE Activity(c)
  BY <1>1, <1>2, <1>3, <1>4, <1>12, ConnTypes DEF Activity
<1>13. CASE ActivityRoster(c)
  BY <1>1, <1>2, <1>5, <1>7, <1>13 DEF ActivityRoster, BroadcastRoster
<1>14. CASE Resync(c)
  BY <1>1, <1>2, <1>3, <1>5, <1>7, <1>14 DEF Resync
<1>20. CASE ResyncRead(c)
  <2>1. held' \in [ConnIds -> {None, "current", "overtaken"}]
    BY <1>20 DEF ResyncRead
  <2> QED
    BY <1>1, <1>2, <1>7, <1>20, <2>1 DEF ResyncRead
<1>21. CASE ResyncReply(c)
  <2>1. /\ UNCHANGED <<conns, registry, inq, up, cl, acts>> /\ Done(c)
        /\ held' \in [ConnIds -> {None, "current", "overtaken"}]
        /\ outq' \in [ConnIds -> OutRec]
    BY <1>21, ReplyFacts
  <2> QED
    BY <1>1, <1>2, <1>7, <2>1
<1>15. CASE PlaybackAuth(c)
  BY <1>3, <1>15, ConnTypes DEF PlaybackAuth
<1>16. CASE JukeboxMsg(c)
  <2>1. (\E k : Took(c, k)) /\ UNCHANGED <<conns, registry, held, up, acts>>
    BY <1>16 DEF JukeboxMsg
  <2>2. (JukeboxChanges /\ Goes(c, "snap")) \/ UNCHANGED <<outq, cl, task>>
    BY <1>16 DEF JukeboxMsg
  <2> QED
    BY <1>1, <1>2, <1>3, <1>4, <1>7, <2>1, <2>2
<1>17. CASE Leave(c)
  <2>1. RosterChanges /\ conns' = Without(c) /\ UNCHANGED <<inq, up, acts>> /\ c \in Open
        /\ \E pc \in Stages : Goes(c, pc)
    BY <1>1, <1>17 DEF Leave
  <2>2. conns' = [o \in Open \ {c} |-> conns[o]]
    BY <2>1 DEF Without
  <2>3. Open' = Open \ {c} /\ conns' \in [Open' -> ConnRec]
    <3> PICK D : D = Open
      OBVIOUS
    <3>1. conns' = [o \in D \ {c} |-> conns[o]] /\ conns \in [D -> ConnRec]
      BY <2>2
    <3>2. DOMAIN conns' = D \ {c} /\ conns' \in [D \ {c} -> ConnRec]
      BY <3>1
    <3> QED
      BY <3>2 DEF Open
  <2>4. registry' \subseteq registry
    BY <1>17 DEF Leave, PeersLeft
  <2> QED
    BY <1>2, <1>4, <2>1, <2>3, <2>4
<1>18. CASE LeaveRoster(c)
  BY <1>1, <1>2, <1>5, <1>7, <1>18 DEF LeaveRoster, BroadcastRoster
<1>19. CASE Requeue(c)
  BY <1>1, <1>2, <1>4, <1>6, <1>7, <1>19 DEF Requeue
<1> QED
  BY <1>8, <1>9, <1>10, <1>11, <1>12, <1>13, <1>14, <1>15, <1>16, <1>17, <1>18, <1>19,
     <1>20, <1>21 DEF Session

LEMMA OtherTypes ==
  ASSUME Types, Wired,
         \/ \E c \in ConnIds : Cut(c)
         \/ \E h \in Handlers : Broadcast(h)
         \/ \E m \in Machines : Machine(m) \/ User(m)
         \/ AdminChange \/ PasswordChanges
         \/ UNCHANGED lobbyVars
  PROVE  Types'
<1> USE DEF Types
<1>1. conns' = conns => Open' = Open
  BY DEF Open
<1>2. Acts => acts' \in 0..MaxActs
  BY LobbyAssumption DEF Acts, LobbyAssumption
<1>3. JukeboxChanges => outq' \in [ConnIds -> OutRec] /\ cl' \in [Machines -> ClRec]
  BY LobbyAssumption, ChangesTypes
<1>4. ASSUME NEW m \in Machines, NEW msgs \in Seq(Msgs), NEW r \in ClRec, Spoken(m, msgs, r)
      PROVE  Types'
  <2>1. cl' = [cl EXCEPT ![m] = r] /\ SendWs(m, msgs)
        /\ UNCHANGED <<serverVars, outq, up>> /\ acts' \in 0..MaxActs
    BY <1>4 DEF Spoken
  <2>2. cl' \in [Machines -> ClRec] /\ inq' \in [ConnIds -> Seq(Msgs)]
    BY <2>1, SendWsFacts
  <2> QED
    BY <1>1, <2>1, <2>2 DEF serverVars
<1>5. ASSUME NEW c \in ConnIds, Cut(c) PROVE Types'
  BY <1>1, <1>5, CutFacts DEF serverVars
<1>6. ASSUME NEW h \in Handlers, Snap(h) PROVE Types'
  <2>1. [pc |-> "send", to |-> Open] \in TaskRec
    BY DEF TaskRec, Stages
  <2> QED
    BY <1>1, <1>6, <2>1 DEF Snap
<1>7. ASSUME NEW h \in Handlers, SendOut(h) PROVE Types'
  <2>1. "jukebox" \in {"jukebox", "roster"} /\ "idle" \in Stages
    BY DEF Stages
  <2>2. outq' \in [ConnIds -> OutRec] /\ task' \in [Handlers -> TaskRec]
    BY <1>7, <2>1, SendFacts, GoesTypes DEF SendOut
  <2> QED
    BY <1>1, <1>7, <2>2 DEF SendOut
<1>8. ASSUME NEW m \in Machines, Connect(m) PROVE Types'
  <2>1. PICK c \in ConnIds :
          /\ Open' = Open \cup {c} /\ conns'[c] = NewConn
          /\ \A o \in Open : conns'[o] = conns[o]
          /\ cl' \in [Machines -> ClRec]
          /\ up' = [up EXCEPT ![c] = TRUE]
    BY <1>8, LobbyAssumption, ConnectFacts
  <2>2. UNCHANGED <<registry, task, held, inq, outq, acts>>
    BY <1>8, LobbyAssumption, ConnectFacts
  <2>3. NewConn \in ConnRec
    BY DEF NewConn, ConnRec, Modes, Peers
  <2>4. conns' \in [Open' -> ConnRec]
    <3>1. \E o : conns' = [x \in Open \cup {o} |-> IF x = o THEN NewConn ELSE conns[x]]
      BY <1>8, ZenonT(40) DEF Connect
    <3>2. \E S : conns' = [x \in S |-> conns'[x]]
      BY <3>1, ZenonT(40)
    <3>3. conns' = [x \in Open' |-> conns'[x]]
      BY <3>2 DEF Open
    <3>4. \A x \in Open' : conns'[x] \in ConnRec
      BY <2>1, <2>3
    <3> QED
      BY <3>3, <3>4
  <2> QED
    BY <2>1, <2>2, <2>4
<1>9. ASSUME NEW m \in Machines, Lost(m) \/ SwitchMode(m) PROVE Types'
  BY <1>1, <1>9, LobbyAssumption, AloneFacts DEF serverVars
<1>10. ASSUME NEW m \in Machines, Receive(m) PROVE Types'
  BY <1>1, <1>10, ReceiveFacts DEF serverVars
<1>11. ASSUME NEW m \in Machines, Say(m) \/ Speaking(m) PROVE Types'
  BY <1>4, <1>11, LobbyAssumption, SayFacts, SpeakingFacts
<1>12. ASSUME PasswordChanges PROVE Types'
  BY <1>1, <1>12, LobbyAssumption, PasswordFacts DEF serverVars
<1>17. CASE AdminChange
  <2>1. Admin \in Handlers /\ "snap" \in Stages
    BY DEF Handlers, Stages
  <2>2. task' \in [Handlers -> TaskRec]
    BY <1>17, <2>1, GoesTypes DEF AdminChange
  <2> QED
    BY <1>1, <1>2, <1>3, <1>17, <2>2 DEF AdminChange
<1>18. CASE UNCHANGED lobbyVars
  BY <1>1, <1>18 DEF lobbyVars
<1> QED
  BY <1>5, <1>6, <1>7, <1>8, <1>9, <1>10, <1>11, <1>12, <1>17, <1>18
     DEF Broadcast, Machine, User, Speaking

-----------------------------------------------------------------------------
(* Every step keeps the links *)

LEMMA SessionLinks ==
  ASSUME Types, Links, NEW c \in ConnIds, Session(c)
  PROVE  Links'
<1>1. JukeboxChanges \/ RosterChanges => SameSettings
  BY LobbyAssumption, ChangesTypes
<1>2. cl' = cl => SameSettings
  BY DEF SameSettings
<1>3. \A k : Took(c, k) => c \in Open /\ Head(inq[c]) = inq[c][1] /\ inq[c][1].k = k
  BY TookFacts
<1>4. conns' = conns => DOMAIN conns' = Open
  BY DEF Open
<1>5. CASE Hello(c)
  <2>1. /\ Open' = Open /\ (\A o \in Open \ {c} : conns'[o] = conns[o])
        /\ conns'[c].id = inq[c][1].id /\ conns'[c].mode = inq[c][1].mode
    BY <1>5, ConnTypes
  <2>2. SameSettings /\ up' = up /\ Took(c, "hello") /\ registry' = registry
    BY <1>1, <1>5 DEF Hello
  <2>3. DOMAIN conns' = Open
    BY <2>1 DEF Open
  <2> QED
    BY <2>1, <2>2, <2>3, LobbyAssumption, TakeLinks
<1>6. CASE Activity(c)
  <2>1. /\ Open' = Open /\ (\A o \in Open \ {c} : conns'[o] = conns[o])
        /\ conns'[c].id = conns[c].id /\ conns'[c].mode = conns[c].mode
        /\ conns'[c].verified = conns[c].verified /\ conns'[c].refused = conns[c].refused
    BY <1>6, ConnTypes
  <2>2. SameSettings /\ up' = up /\ Took(c, "activity") /\ registry' = registry
    BY <1>1, <1>6 DEF Activity
  <2>3. DOMAIN conns' = Open
    BY <2>1 DEF Open
  <2> QED
    BY <2>1, <2>2, <2>3, LobbyAssumption, TakeLinks
<1>7. CASE PlaybackAuth(c)
  <2>1. /\ Open' = Open /\ (\A o \in Open \ {c} : conns'[o] = conns[o])
        /\ conns'[c].id = conns[c].id /\ conns'[c].mode = conns[c].mode
        /\ conns'[c].verified \/ conns'[c].refused
    BY <1>7, ConnTypes
  <2>2. SameSettings /\ up' = up /\ Took(c, "auth") /\ registry' = registry
    BY <1>2, <1>7 DEF PlaybackAuth
  <2>3. DOMAIN conns' = Open
    BY <2>1 DEF Open
  <2> QED
    BY <2>1, <2>2, <2>3, LobbyAssumption, TakeLinks
<1>8. CASE Announce(c)
  <2>1. /\ SameSettings /\ up' = up /\ Took(c, "announce") /\ conns' = conns
        /\ registry' = IF conns[c].mode = "playback" THEN registry
                       ELSE registry \cup {<<Head(inq[c]).t, conns[c].id>>}
    BY <1>2, <1>8 DEF Announce
  <2>2. DOMAIN conns' = Open /\ Head(inq[c]) = inq[c][1]
    BY <1>3, <1>4, <2>1
  <2> QED
    BY <2>1, <2>2, LobbyAssumption, TakeLinks
<1>9. ASSUME Resync(c) \/ JukeboxMsg(c) PROVE Links'
  <2>1. PICK k \in {"resync", "vote", "next"} : Took(c, k)
    BY <1>9 DEF Resync, JukeboxMsg
  <2>2. UNCHANGED <<conns, registry, up>>
    BY <1>9 DEF Resync, JukeboxMsg
  <2>3. SameSettings
    BY <1>1, <1>2, <1>9 DEF Resync, JukeboxMsg
  <2> QED
    BY <1>4, <2>1, <2>2, <2>3, LobbyAssumption, TakeLinks
<1>10. ASSUME HelloRoster(c) \/ HelloPush(c) \/ ActivityRoster(c) \/ ResyncRead(c)
              \/ ResyncReply(c) \/ LeaveRoster(c) \/ Requeue(c)
       PROVE  Links'
  <2>1. UNCHANGED <<conns, registry, inq, up>> /\ SameSettings
    BY <1>1, <1>2, <1>10
       DEF HelloRoster, HelloPush, ActivityRoster, ResyncRead, ResyncReply, LeaveRoster, Requeue
  <2>2. SameWords
    BY <2>1 DEF SameWords, Slots
  <2> QED
    BY <2>1, <2>2, LinksStay
<1>11. CASE Leave(c)
  <2>1. /\ c \in Open /\ ~up[c] /\ conns' = Without(c) /\ registry' = PeersLeft(c)
        /\ inq[c] = <<>> /\ UNCHANGED <<inq, up>> /\ SameSettings
    BY <1>1, <1>11 DEF Leave
  <2> QED
    BY <2>1, LeaveLinks
<1> QED
  BY <1>5, <1>6, <1>7, <1>8, <1>9, <1>10, <1>11 DEF Session

LEMMA MachineLinks ==
  ASSUME LobbyAssumption, Types, Links, NEW m \in Machines, Machine(m) \/ User(m)
  PROVE  Links'
<1>1. cl \in [Machines -> ClRec] /\ Wired
  BY DEF Types, Links
<1>2. ASSUME Lost(m) \/ SwitchMode(m) PROVE Links'
  <2>1. /\ UNCHANGED <<conns, registry, inq, up>>
        /\ ~cl'[m].on /\ Fits(cl'[m]) /\ \A o \in Machines \ {m} : cl'[o] = cl[o]
    BY <1>1, <1>2, AloneFacts DEF serverVars
  <2>2. \A o \in Machines : Fits(cl'[o])
    BY <1>1, <2>1 DEF Wired
  <2>3. \A o \in Machines : cl'[o].on => cl'[o] = cl[o]
    BY <2>1
  <2>4. \A c \in ConnIds : Slots(c)' = Slots(c) /\ inq'[c] = inq[c] /\ up'[c] = up[c]
    BY <2>1 DEF Slots
  <2> QED
    BY <2>1, <2>2, <2>3, <2>4, FewerLinks
<1>3. ASSUME Receive(m) PROVE Links'
  <2>1. SameSettings /\ UNCHANGED <<conns, registry, inq, up>>
    BY <1>1, <1>3, ReceiveFacts DEF serverVars
  <2>2. SameWords
    BY <2>1 DEF SameWords, Slots
  <2> QED
    BY <2>1, <2>2, LinksStay
<1>4. ASSUME NEW msgs \in Seq(Msgs), NEW r \in ClRec, Spoken(m, msgs, r) PROVE Links'
  <2>1. cl'[m] = r /\ \A o \in Machines \ {m} : cl'[o] = cl[o]
    BY <1>1, <1>4 DEF Spoken
  <2> QED
    BY <1>4, <2>1, SendLinks DEF Spoken, serverVars
<1>5. Say(m) \/ Speaking(m) => Links'
  BY <1>1, <1>4, SayFacts, SpeakingFacts
<1>6. Connect(m) => Links'
  BY ConnectLinks
<1> QED
  BY <1>2, <1>3, <1>5, <1>6 DEF Machine, User, Speaking

LEMMA LinksStep ==
  ASSUME LobbyAssumption, Types, Links, [LobbyNext]_lobbyVars
  PROVE  Links'
<1>1. ASSUME NEW c \in ConnIds, Cut(c) PROVE Links'
  <2>1. /\ UNCHANGED <<conns, registry, cl>> /\ up' = [up EXCEPT ![c] = FALSE]
        /\ Slots(c)' \subseteq Slots(c) /\ \A i \in Slots(c)' : inq'[c][i] = inq[c][i]
        /\ \A o \in ConnIds \ {c} : inq'[o] = inq[o]
    BY <1>1, CutFacts DEF serverVars
  <2>2. \A o \in ConnIds : up'[o] => up[o] /\ inq'[o] = inq[o]
    BY <2>1 DEF Types
  <2>3. /\ \A o \in ConnIds : Slots(o)' \subseteq Slots(o)
        /\ \A o \in ConnIds : \A i \in Slots(o)' : inq'[o][i] = inq[o][i]
    <3>1. \A o \in ConnIds \ {c} : Slots(o)' = Slots(o)
      BY <2>1 DEF Slots
    <3> QED
      BY <2>1, <3>1
  <2>4. \A o \in Machines : Fits(cl'[o])
    BY <2>1 DEF Links, Wired
  <2> QED
    BY <2>1, <2>2, <2>3, <2>4, FewerLinks
<1>2. ASSUME NEW h \in Handlers, Broadcast(h) PROVE Links'
  <2>1. UNCHANGED <<conns, registry, inq, up>> /\ SameSettings /\ SameWords
    BY <1>2 DEF Broadcast, Snap, SendOut, SameSettings, SameWords, Slots
  <2> QED
    BY <2>1, LinksStay
<1>3. ASSUME AdminChange PROVE Links'
  <2>1. UNCHANGED <<conns, registry, inq, up>> /\ SameSettings /\ SameWords
    BY <1>3, ChangesTypes DEF AdminChange, SameWords, Slots
  <2> QED
    BY <2>1, LinksStay
<1>4. ASSUME UNCHANGED lobbyVars PROVE Links'
  <2>1. UNCHANGED <<conns, registry, inq, up>> /\ SameSettings /\ SameWords
    BY <1>4 DEF lobbyVars, SameSettings, SameWords, Slots
  <2> QED
    BY <2>1, LinksStay
<1>5. ASSUME PasswordChanges PROVE Links'
  <2>1. UNCHANGED <<conns, registry, up>> /\ SameSettings /\ SameWords
    BY <1>5, PasswordFacts DEF serverVars
  <2> QED
    BY <2>1, LinksStay
<1> QED
  BY <1>1, <1>2, <1>3, <1>4, <1>5, SessionLinks, MachineLinks DEF LobbyNext

-----------------------------------------------------------------------------
(* What is shown, or on its way *)

LEMMA GoesFacts ==
  ASSUME Types, NEW h \in Handlers
  PROVE  /\ \A pc : Goes(h, pc) => /\ task'[h].pc = pc
                                   /\ \A o \in Handlers \ {h} : task'[o] = task[o]
         /\ Done(h) => /\ task'[h] = Idle
                       /\ \A o \in Handlers \ {h} : task'[o] = task[o]
<1>1. task \in [Handlers -> TaskRec] /\ task[h] \in TaskRec
  BY DEF Types
<1>2. ASSUME NEW pc, Goes(h, pc)
      PROVE  task'[h].pc = pc /\ \A o \in Handlers \ {h} : task'[o] = task[o]
  <2>1. PICK r : r = [task[h] EXCEPT !.pc = pc] /\ task' = [task EXCEPT ![h] = r]
    BY <1>1, <1>2 DEF Goes
  <2>2. r.pc = pc
    BY <1>1, <2>1 DEF TaskRec
  <2> QED
    BY <1>1, <2>1, <2>2
<1>3. Done(h) => task'[h] = Idle /\ \A o \in Handlers \ {h} : task'[o] = task[o]
  BY <1>1 DEF Done
<1> QED
  BY <1>2, <1>3

\* A handler that is to send the roster has read it, and a change on the way
\* makes that one overtaken.
LEMMA HasReadStep ==
  ASSUME LobbyAssumption, Types, Wired, HasRead, [LobbyNext]_lobbyVars
  PROVE  HasRead'
<1>1. ConnIds \subseteq Handlers /\ Idle.pc = "idle" /\ "current" \in Fine
  BY DEF Handlers, Idle, Fine
<1>2. RosterChanges => \A c \in ConnIds : held[c] \in Fine => held'[c] \in Fine
  BY ChangesTypes
<1>3. ASSUME NEW h \in Handlers,
             \A o \in Handlers \ {h} : task'[o] = task[o],
             h \in ConnIds /\ task'[h].pc = "reply" => held'[h] \in Fine,
             \A o \in ConnIds \ {h} : held[o] \in Fine => held'[o] \in Fine
      PROVE  HasRead'
  BY <1>1, <1>3 DEF HasRead
<1>4. ASSUME task' = task, held' = held PROVE HasRead'
  BY <1>4 DEF HasRead
<1>5. ASSUME NEW c \in ConnIds, Session(c) PROVE HasRead'
  <2>1. /\ \A pc : Goes(c, pc) => /\ task'[c].pc = pc
                                  /\ \A o \in Handlers \ {c} : task'[o] = task[o]
        /\ Done(c) => /\ task'[c] = Idle
                      /\ \A o \in Handlers \ {c} : task'[o] = task[o]
    BY <1>1, GoesFacts
  <2>2. ASSUME (\E pc \in Stages \ {"reply"} : Goes(c, pc)) \/ Done(c), held' = held \/ RosterChanges
        PROVE  HasRead'
    BY <1>1, <1>2, <1>3, <2>1, <2>2
  <2>3. {"roster", "push", "activity", "read", "snap", "left", "lastgone", "idle", "requeue"}
          \subseteq Stages \ {"reply"}
    BY DEF Stages
  <2>4. ASSUME Announce(c) \/ PlaybackAuth(c) PROVE HasRead'
    BY <1>4, <2>4 DEF Announce, PlaybackAuth
  <2>5. ASSUME ResyncRead(c) PROVE HasRead'
    <3>1. task'[c].pc = "reply" /\ \A o \in Handlers \ {c} : task'[o] = task[o]
      BY <2>1, <2>5 DEF ResyncRead
    <3>2. held' = [held EXCEPT ![c] = "current"] /\ held \in [ConnIds -> {None, "current", "overtaken"}]
      BY <2>5 DEF ResyncRead, Types
    <3>3. held'[c] = "current" /\ \A o \in ConnIds \ {c} : held'[o] = held[o]
      BY <3>2
    <3> QED
      BY <1>1, <1>3, <3>1, <3>3
  <2>6. ASSUME ResyncReply(c) PROVE HasRead'
    <3>1. Done(c) /\ \A o \in ConnIds \ {c} : held'[o] = held[o]
      BY <2>6, ReplyFacts
    <3> QED
      BY <1>1, <1>3, <2>1, <3>1
  <2>7. ASSUME JukeboxMsg(c) PROVE HasRead'
    <3>1. held' = held /\ (Goes(c, "snap") \/ task' = task)
      BY <2>7 DEF JukeboxMsg
    <3> QED
      BY <1>4, <2>2, <2>3, <3>1
  <2>8. ASSUME Hello(c) \/ Activity(c) \/ Leave(c) PROVE HasRead'
    <3>1. RosterChanges /\ \E pc \in {"roster", "activity", "left", "lastgone"} : Goes(c, pc)
      BY <2>8 DEF Hello, Activity, Leave
    <3> QED
      BY <2>2, <2>3, <3>1
  <2>9. ASSUME HelloRoster(c) \/ LeaveRoster(c) \/ Requeue(c) \/ Resync(c) PROVE HasRead'
    <3>1. held' = held
          /\ ((\E pc \in {"push", "idle", "requeue", "snap", "read"} : Goes(c, pc)) \/ Done(c))
      BY <2>9 DEF HelloRoster, LeaveRoster, Requeue, Resync
    <3> QED
      BY <2>2, <2>3, <3>1
  <2>10. ASSUME HelloPush(c) \/ ActivityRoster(c) PROVE HasRead'
    <3>1. held' = held /\ Done(c)
      BY <2>10 DEF HelloPush, ActivityRoster
    <3> QED
      BY <2>2, <3>1
  <2> QED
    BY <1>5, <2>4, <2>5, <2>6, <2>7, <2>8, <2>9, <2>10 DEF Session
<1>6. ASSUME NEW h \in Handlers, Broadcast(h) PROVE HasRead'
  <2>1. held' = held /\ task \in [Handlers -> TaskRec]
    BY <1>6 DEF Broadcast, Snap, SendOut, Types
  <2>2. CASE Snap(h)
    <3>1. task'[h].pc = "send" /\ \A o \in Handlers \ {h} : task'[o] = task[o]
      BY <2>1, <2>2 DEF Snap
    <3> QED
      BY <1>3, <2>1, <3>1
  <2>3. CASE SendOut(h)
    <3>1. task'[h] = Idle /\ \A o \in Handlers \ {h} : task'[o] = task[o]
      BY <2>3, GoesFacts DEF SendOut
    <3> QED
      BY <1>1, <1>3, <2>1, <3>1
  <2> QED
    BY <1>6, <2>2, <2>3 DEF Broadcast
<1>7. ASSUME AdminChange PROVE HasRead'
  <2>1. Admin \in Handlers /\ Admin \notin ConnIds /\ Goes(Admin, "snap") /\ held' = held
    BY <1>7 DEF AdminChange, Handlers, Admin, ConnIds
  <2>2. \A o \in Handlers \ {Admin} : task'[o] = task[o]
    BY <2>1, GoesFacts
  <2> QED
    BY <1>3, <2>1, <2>2
<1>8. ASSUME NEW m \in Machines, Machine(m) \/ User(m) PROVE HasRead'
  BY <1>4, <1>8 DEF Machine, User, Connect, Say, Lost, Receive, StartSeeder, Probed,
     UserJukebox, EnterPassword, Rename, ShareBack, SwitchMode, FirstChunks, Finished, serverVars
<1>9. ASSUME \/ PasswordChanges \/ \E c \in ConnIds : Cut(c)
             \/ UNCHANGED lobbyVars
      PROVE  HasRead'
  BY <1>4, <1>9 DEF PasswordChanges, Cut, serverVars, lobbyVars
<1> QED
  BY <1>5, <1>6, <1>7, <1>8, <1>9 DEF LobbyNext

\* No machine gets another connection and no connection comes up.
KeepsLinks ==
  /\ \A m \in Machines : cl'[m].on => cl[m].on /\ cl'[m].conn = cl[m].conn
  /\ \A c \in ConnIds : up'[c] => up[c]

\* A step takes nothing off the ways the roster, or the jukebox, can come.
RosterSteady(d, m) ==
  /\ cl'[m].roster = cl[m].roster /\ outq'[d].roster = outq[d].roster
  /\ cl[m].say # 0 => cl'[m].say # 0
  /\ \A k \in {"hello", "activity", "resync"} : Says(d, k) => Says(d, k)'
  /\ task[d].pc \in {"read", "reply"} => task'[d].pc \in {"read", "reply"}
  /\ \A h \in ConnIds : task[h].pc \in RosterPcs => task'[h].pc \in RosterPcs
JukeboxSteady(d, m) ==
  /\ cl'[m].jukebox = cl[m].jukebox /\ outq'[d].jukebox = outq[d].jukebox
  /\ cl[m].say # 0 => cl'[m].say # 0
  /\ \A k \in {"hello", "resync"} : Says(d, k) => Says(d, k)'
  /\ task[d].pc \in {"roster", "push"} => task'[d].pc \in {"roster", "push"}
  /\ \A h \in Handlers : \/ task[h].pc = "snap"
                         \/ task[h].pc = "send" /\ d \in task[h].to
                         => task'[h] = task[h]

LEMMA OldLinks ==
  ASSUME Types, Wired, KeepsLinks, NEW m \in Machines, Linked(m)'
  PROVE  /\ Linked(m)
         /\ \E d \in Open : d = cl[m].conn /\ d = cl'[m].conn /\ up[d] /\ up'[d]
<1>1. PICK d : d = cl[m].conn /\ d = cl'[m].conn /\ cl[m].on /\ up'[d]
  BY DEF Linked, KeepsLinks
<1>2. d \in ConnIds
  BY <1>1 DEF Types, ClRec, Wired, Fits
<1>3. up[d]
  BY <1>1, <1>2 DEF KeepsLinks
<1> QED
  BY <1>1, <1>2, <1>3 DEF Linked, Wired

LEMMA RosterStays ==
  ASSUME Types, Wired, RosterShown, KeepsLinks,
         \A m \in Machines, d \in Open :
           cl'[m].on /\ d = cl[m].conn /\ d = cl'[m].conn /\ up[d] /\ up'[d] =>
             RosterComing(d, m)' \/ RosterSteady(d, m)
  PROVE  RosterShown'
<1> SUFFICES ASSUME NEW m \in Machines, Linked(m)'
             PROVE  RosterComing(cl[m].conn, m)'
  BY DEF RosterShown
<1>1. PICK d \in Open : d = cl[m].conn /\ d = cl'[m].conn /\ up[d] /\ up'[d] /\ Linked(m)
  BY OldLinks
<1>2. RosterComing(d, m)' \/ RosterSteady(d, m)
  BY <1>1 DEF Linked
<1>3. RosterComing(d, m)
  BY <1>1 DEF RosterShown
<1>4. RosterSteady(d, m) => RosterComing(d, m)'
  BY <1>3 DEF RosterComing, RosterSteady, RosterPcs
<1> QED
  BY <1>1, <1>2, <1>4

LEMMA JukeboxStays ==
  ASSUME Types, Wired, JukeboxShown, KeepsLinks,
         \A m \in Machines, d \in Open :
           cl'[m].on /\ d = cl[m].conn /\ d = cl'[m].conn /\ up[d] /\ up'[d] =>
             JukeboxComing(d, m)' \/ JukeboxSteady(d, m)
  PROVE  JukeboxShown'
<1> SUFFICES ASSUME NEW m \in Machines, Linked(m)'
             PROVE  JukeboxComing(cl[m].conn, m)'
  BY DEF JukeboxShown
<1>1. PICK d \in Open : d = cl[m].conn /\ d = cl'[m].conn /\ up[d] /\ up'[d] /\ Linked(m)
  BY OldLinks
<1>2. JukeboxComing(d, m)' \/ JukeboxSteady(d, m)
  BY <1>1 DEF Linked
<1>3. JukeboxComing(d, m)
  BY <1>1 DEF JukeboxShown
<1>4. JukeboxSteady(d, m) => JukeboxComing(d, m)'
  BY <1>3 DEF JukeboxComing, JukeboxSteady
<1> QED
  BY <1>1, <1>2, <1>4

LEMMA TookSays ==
  ASSUME Types, NEW c \in ConnIds, NEW k, Took(c, k)
  PROVE  \A o \in ConnIds : \A j : Says(o, j) => Says(o, j)' \/ (o = c /\ j = k)
<1>1. /\ inq[c][1].k = k
      /\ \A i \in Slots(c) \ {1} : i - 1 \in Slots(c)' /\ inq'[c][i - 1] = inq[c][i]
      /\ \A o \in ConnIds \ {c} : inq'[o] = inq[o] /\ Slots(o)' = Slots(o)
  BY TookFacts
<1>2. ASSUME NEW j, Says(c, j), j # k PROVE Says(c, j)'
  <2>1. PICK i \in Slots(c) : inq[c][i].k = j
    BY <1>2 DEF Says
  <2>2. i - 1 \in Slots(c)' /\ inq'[c][i - 1].k = j
    BY <1>1, <1>2, <2>1
  <2> QED
    BY <2>2 DEF Says
<1>3. \A o \in ConnIds \ {c} : \A j : Says(o, j) => Says(o, j)'
  BY <1>1 DEF Says
<1> QED
  BY <1>2, <1>3

LEMMA SendSays ==
  ASSUME Types, NEW m \in Machines, NEW msgs \in Seq(Msgs), SendWs(m, msgs)
  PROVE  \A o \in ConnIds :
           /\ \A j : Says(o, j) => Says(o, j)'
           /\ Linked(m) /\ o = cl[m].conn => \A i \in 1..Len(msgs) : Says(o, msgs[i].k)'
<1> TAKE o \in ConnIds
<1>1. CASE Linked(m) /\ o = cl[m].conn
  <2>1. PICK n, l \in Nat :
          /\ Slots(o) = 1..n /\ l = Len(msgs) /\ Slots(o)' = 1..n + l
          /\ \A i \in 1..n : inq'[o][i] = inq[o][i]
          /\ \A i \in 1..l : inq'[o][i + n] = msgs[i]
    BY <1>1, SendWsFacts
  <2>2. (\A i \in 1..n : i \in 1..n + l) /\ (\A i \in 1..l : i + n \in 1..n + l)
    OBVIOUS
  <2> QED
    BY <2>1, <2>2 DEF Says
<1>2. CASE ~ (Linked(m) /\ o = cl[m].conn)
  <2>1. inq'[o] = inq[o] /\ Slots(o)' = Slots(o)
    BY <1>2, SendWsFacts
  <2> QED
    BY <1>2, <2>1 DEF Says
<1> QED
  BY <1>1, <1>2

LEMMA SessionShown ==
  ASSUME LobbyAssumption, Types, Wired, HasRead, RosterShown, JukeboxShown,
         NEW c \in ConnIds, Session(c)
  PROVE  RosterShown' /\ JukeboxShown'
<1>1. /\ c \in Handlers /\ ConnIds \subseteq Handlers /\ Open \subseteq ConnIds
      /\ Idle.pc = "idle"
  BY DEF Handlers, Idle, Types
<1>2. /\ \A pc : Goes(c, pc) => /\ task'[c].pc = pc
                                /\ \A o \in Handlers \ {c} : task'[o] = task[o]
      /\ Done(c) => /\ task'[c] = Idle
                    /\ \A o \in Handlers \ {c} : task'[o] = task[o]
  BY <1>1, GoesFacts
<1>3. \A k : Took(c, k) => /\ c \in Open /\ task[c] = Idle
                           /\ \A o \in ConnIds : \A j : Says(o, j) => Says(o, j)' \/ (o = c /\ j = k)
  BY TookFacts, TookSays
<1>4. inq' = inq => \A o \in ConnIds : \A j : Says(o, j) => Says(o, j)'
  BY DEF Says, Slots
<1>5. SameSettings => /\ up' = up => KeepsLinks
                      /\ \A m \in Machines : cl'[m].say = cl[m].say
  BY DEF KeepsLinks, SameSettings
<1>6. /\ cl' = cl => SameSettings
      /\ JukeboxChanges \/ RosterChanges => SameSettings
      /\ JukeboxChanges => /\ \A o \in ConnIds : outq'[o].roster = outq[o].roster
                           /\ \A m \in Machines : cl'[m].roster = cl[m].roster
      /\ RosterChanges => /\ \A o \in ConnIds : outq'[o].jukebox = outq[o].jukebox
                          /\ \A m \in Machines : cl'[m].jukebox = cl[m].jukebox
  BY LobbyAssumption, ChangesTypes DEF SameSettings
<1>7. BroadcastRoster => /\ \A d \in Open : up[d] => outq'[d].roster = "current"
                         /\ \A o \in ConnIds : outq'[o].jukebox = outq[o].jukebox
  <2>1. "roster" \in {"jukebox", "roster"}
    OBVIOUS
  <2> QED
    BY <1>1, <2>1, SendFacts DEF BroadcastRoster
<1>8. ASSUME NEW pc \in RosterPcs, Goes(c, pc) PROVE RosterShown'
  BY <1>2, <1>8 DEF RosterShown, RosterComing, RosterPcs
<1>9. ASSUME BroadcastRoster, up' = up, cl' = cl, KeepsLinks PROVE RosterShown'
  <2>1. \A d \in Open, m \in Machines : up[d] => RosterComing(d, m)'
    BY <1>7, <1>9 DEF RosterComing, Fine
  <2> QED
    BY <1>9, <2>1, RosterStays
<1>10. CASE Hello(c)
  <2>1. /\ Took(c, "hello") /\ RosterChanges /\ Goes(c, "roster") /\ up' = up /\ KeepsLinks /\ SameSettings
        /\ "roster" \in RosterPcs
    BY <1>5, <1>6, <1>10 DEF Hello, RosterPcs
  <2>2. \A d \in Open, m \in Machines : d # c => JukeboxSteady(d, m)
    BY <1>1, <1>5, <1>2, <1>3, <1>6, <2>1 DEF JukeboxSteady
  <2>3. \A m \in Machines : JukeboxComing(c, m)'
    BY <1>2, <2>1 DEF JukeboxComing
  <2>4. JukeboxShown'
    BY <2>1, <2>2, <2>3, JukeboxStays
  <2> QED
    BY <1>8, <2>1, <2>4
<1>11. CASE HelloRoster(c)
  <2>1. /\ task[c].pc = "roster" /\ BroadcastRoster /\ Goes(c, "push")
        /\ inq' = inq /\ up' = up /\ cl' = cl /\ KeepsLinks /\ SameSettings
    BY <1>5, <1>6, <1>11 DEF HelloRoster
  <2>2. \A d \in Open, m \in Machines : JukeboxSteady(d, m)
    BY <1>1, <1>5, <1>2, <1>4, <1>7, <2>1 DEF JukeboxSteady
  <2>3. JukeboxShown'
    BY <2>1, <2>2, JukeboxStays
  <2> QED
    BY <1>9, <2>1, <2>3
<1>12. CASE HelloPush(c)
  <2>1. /\ UNCHANGED <<inq, up, cl>> /\ task[c].pc = "push" /\ Done(c)
        /\ up[c] => outq'[c].jukebox = "current"
        /\ \A o \in ConnIds : outq'[o].roster = outq[o].roster
        /\ \A o \in ConnIds \ {c} : outq'[o] = outq[o]
    BY <1>12, PushFacts
  <2>2. KeepsLinks /\ SameSettings
    BY <1>5, <1>6, <2>1
  <2>3. \A d \in Open, m \in Machines : RosterSteady(d, m)
    BY <1>1, <1>5, <1>2, <1>4, <2>1 DEF RosterSteady, RosterPcs
  <2>4. \A d \in Open, m \in Machines : d # c => JukeboxSteady(d, m)
    BY <1>1, <1>5, <1>2, <1>4, <2>1 DEF JukeboxSteady
  <2>5. \A m \in Machines : up[c] => JukeboxComing(c, m)'
    BY <2>1 DEF JukeboxComing
  <2> QED
    BY <2>2, <2>3, <2>4, <2>5, RosterStays, JukeboxStays
<1>13. ASSUME NEW k \in {"announce", "auth", "vote", "next"}, Took(c, k),
              UNCHANGED <<task, outq, up, cl>>
       PROVE  RosterShown' /\ JukeboxShown'
  <2>1. KeepsLinks /\ SameSettings
    BY <1>5, <1>6, <1>13
  <2>2. \A d \in Open, m \in Machines : RosterSteady(d, m) /\ JukeboxSteady(d, m)
    BY <1>1, <1>5, <1>3, <1>13 DEF RosterSteady, JukeboxSteady
  <2> QED
    BY <2>1, <2>2, RosterStays, JukeboxStays
<1>14. CASE Announce(c)
  BY <1>13, <1>14 DEF Announce
<1>15. CASE PlaybackAuth(c)
  BY <1>13, <1>15 DEF PlaybackAuth
<1>16. CASE Activity(c)
  <2>1. /\ Took(c, "activity") /\ RosterChanges /\ Goes(c, "activity") /\ up' = up /\ KeepsLinks /\ SameSettings
        /\ "activity" \in RosterPcs
    BY <1>5, <1>6, <1>16 DEF Activity, RosterPcs
  <2>2. \A d \in Open, m \in Machines : JukeboxSteady(d, m)
    BY <1>1, <1>5, <1>2, <1>3, <1>6, <2>1 DEF JukeboxSteady
  <2> QED
    BY <1>8, <2>1, <2>2, JukeboxStays
<1>17. CASE ActivityRoster(c)
  <2>1. /\ task[c].pc = "activity" /\ BroadcastRoster /\ Done(c)
        /\ inq' = inq /\ up' = up /\ cl' = cl /\ KeepsLinks /\ SameSettings
    BY <1>5, <1>6, <1>17 DEF ActivityRoster
  <2>2. \A d \in Open, m \in Machines : JukeboxSteady(d, m)
    BY <1>1, <1>5, <1>2, <1>4, <1>7, <2>1 DEF JukeboxSteady
  <2>3. JukeboxShown'
    BY <2>1, <2>2, JukeboxStays
  <2> QED
    BY <1>9, <2>1, <2>3
<1>18. CASE Resync(c)
  <2>1. /\ Took(c, "resync") /\ Send({c}, "jukebox") /\ Goes(c, "read") /\ UNCHANGED <<up, cl>>
        /\ "jukebox" \in {"jukebox", "roster"}
    BY <1>18 DEF Resync
  <2>2. /\ up[c] => outq'[c].jukebox = "current"
        /\ \A o \in ConnIds \ {c} : outq'[o] = outq[o]
    BY <2>1, SendFacts
  <2>3. KeepsLinks /\ SameSettings
    BY <1>5, <1>6, <2>1
  <2>4. \A d \in Open, m \in Machines : d # c => RosterSteady(d, m) /\ JukeboxSteady(d, m)
    BY <1>1, <1>2, <1>3, <1>5, <2>1, <2>2, <2>3 DEF RosterSteady, JukeboxSteady, RosterPcs
  <2>5. \A m \in Machines : RosterComing(c, m)' /\ (up[c] => JukeboxComing(c, m)')
    BY <1>2, <2>1, <2>2 DEF RosterComing, JukeboxComing
  <2> QED
    BY <2>3, <2>4, <2>5, RosterStays, JukeboxStays
<1>23. CASE ResyncRead(c)
  <2>1. /\ task[c].pc = "read" /\ Goes(c, "reply") /\ UNCHANGED <<inq, outq, up, cl>>
    BY <1>23 DEF ResyncRead
  <2>2. KeepsLinks /\ SameSettings
    BY <1>5, <1>6, <2>1
  <2>3. \A d \in Open, m \in Machines : RosterSteady(d, m) /\ JukeboxSteady(d, m)
    BY <1>1, <1>2, <1>4, <1>5, <2>1, <2>2 DEF RosterSteady, JukeboxSteady, RosterPcs
  <2> QED
    BY <2>2, <2>3, RosterStays, JukeboxStays
\* What is sent was read, and is current or overtaken.
<1>24. CASE ResyncReply(c)
  <2>1. /\ task[c].pc = "reply" /\ Done(c) /\ UNCHANGED <<inq, up, cl>>
        /\ up[c] => outq'[c].roster = held[c]
        /\ \A o \in ConnIds : outq'[o].jukebox = outq[o].jukebox
        /\ \A o \in ConnIds \ {c} : outq'[o] = outq[o]
    BY <1>24, ReplyFacts
  <2>2. KeepsLinks /\ SameSettings
    BY <1>5, <1>6, <2>1
  <2>3. \A d \in Open, m \in Machines : d # c => RosterSteady(d, m)
    BY <1>1, <1>2, <1>4, <1>5, <2>1, <2>2 DEF RosterSteady, RosterPcs
  <2>4. \A m \in Machines : up[c] => RosterComing(c, m)'
    BY <2>1 DEF RosterComing, HasRead
  <2>5. \A d \in Open, m \in Machines : JukeboxSteady(d, m)
    BY <1>1, <1>2, <1>4, <1>5, <2>1, <2>2 DEF JukeboxSteady
  <2> QED
    BY <2>2, <2>3, <2>4, <2>5, RosterStays, JukeboxStays
<1>19. CASE JukeboxMsg(c)
  <2>1. PICK k \in {"vote", "next"} : Took(c, k) /\ up' = up
    BY <1>19 DEF JukeboxMsg
  <2>2. (JukeboxChanges /\ Goes(c, "snap")) \/ UNCHANGED <<outq, cl, task>>
    BY <1>19 DEF JukeboxMsg
  <2>3. CASE JukeboxChanges /\ Goes(c, "snap")
    <3>1. KeepsLinks /\ SameSettings
      BY <1>5, <1>6, <2>1, <2>3
    <3>2. \A d \in Open, m \in Machines : RosterSteady(d, m)
      BY <1>1, <1>5, <1>2, <1>3, <1>6, <2>1, <2>3 DEF RosterSteady, RosterPcs
    <3>3. JukeboxShown'
      BY <1>1, <1>2, <2>3 DEF JukeboxShown, JukeboxComing
    <3> QED
      BY <3>1, <3>2, <3>3, RosterStays
  <2> QED
    BY <1>13, <2>1, <2>2, <2>3
<1>20. CASE Leave(c)
  <2>1. PICK pc \in RosterPcs : /\ task[c] = Idle /\ RosterChanges /\ Goes(c, pc) /\ inq' = inq
                                /\ up' = up
    BY <1>20 DEF Leave, RosterPcs
  <2>2. KeepsLinks /\ SameSettings
    BY <1>5, <1>6, <2>1
  <2>3. \A d \in Open, m \in Machines : JukeboxSteady(d, m)
    BY <1>1, <1>5, <1>2, <1>4, <1>6, <2>1 DEF JukeboxSteady
  <2> QED
    BY <1>8, <2>1, <2>2, <2>3, JukeboxStays
<1>21. CASE LeaveRoster(c)
  <2>1. /\ task[c].pc \in {"left", "lastgone"} /\ BroadcastRoster /\ \E pc : Goes(c, pc)
        /\ inq' = inq /\ up' = up /\ cl' = cl /\ KeepsLinks /\ SameSettings
    BY <1>5, <1>6, <1>21 DEF LeaveRoster
  <2>2. \A d \in Open, m \in Machines : JukeboxSteady(d, m)
    BY <1>1, <1>5, <1>2, <1>4, <1>7, <2>1 DEF JukeboxSteady
  <2>3. JukeboxShown'
    BY <2>1, <2>2, JukeboxStays
  <2> QED
    BY <1>9, <2>1, <2>3
<1>22. CASE Requeue(c)
  <2>1. task[c].pc = "requeue" /\ inq' = inq /\ up' = up
    BY <1>22 DEF Requeue
  <2>2. (JukeboxChanges /\ Goes(c, "snap")) \/ (Done(c) /\ UNCHANGED <<outq, cl>>)
    BY <1>22 DEF Requeue
  <2>3. KeepsLinks /\ SameSettings
    BY <1>5, <1>6, <2>1, <2>2
  <2>4. \A d \in Open, m \in Machines : RosterSteady(d, m)
    BY <1>1, <1>5, <1>2, <1>4, <1>6, <2>1, <2>2 DEF RosterSteady, RosterPcs
  <2>5. CASE JukeboxChanges /\ Goes(c, "snap")
    <3>1. JukeboxShown'
      BY <1>1, <1>2, <2>5 DEF JukeboxShown, JukeboxComing
    <3> QED
      BY <2>3, <2>4, <3>1, RosterStays
  <2>6. CASE Done(c) /\ UNCHANGED <<outq, cl>>
    <3>1. \A d \in Open, m \in Machines : JukeboxSteady(d, m)
      BY <1>1, <1>5, <1>2, <1>4, <2>1, <2>6 DEF JukeboxSteady
    <3> QED
      BY <2>3, <2>4, <3>1, RosterStays, JukeboxStays
  <2> QED
    BY <2>2, <2>5, <2>6
<1> QED
  BY <1>10, <1>11, <1>12, <1>14, <1>15, <1>16, <1>17, <1>18, <1>19, <1>20, <1>21, <1>22,
     <1>23, <1>24 DEF Session

\* What a machine says comes to the server as it is, and the last of a greeting
\* asks for both.
LEMMA SpokenShown ==
  ASSUME LobbyAssumption, Types, Wired, RosterShown, JukeboxShown, NEW m \in Machines,
         NEW msgs \in Seq(Msgs), NEW r \in ClRec, Spoken(m, msgs, r)
  PROVE  RosterShown' /\ JukeboxShown'
<1>1. cl'[m] = r /\ \A n \in Machines \ {m} : cl'[n] = cl[n]
  BY DEF Types, Spoken
<1>2. /\ r.on = cl[m].on /\ r.conn = cl[m].conn
      /\ r.jukebox = cl[m].jukebox /\ r.roster = cl[m].roster
      /\ r.say = 0 /\ cl[m].say # 0 => \E i \in 1..Len(msgs) : msgs[i].k = "resync"
  BY DEF Spoken
<1>3. UNCHANGED <<task, outq, up>> /\ SendWs(m, msgs)
  BY DEF Spoken, serverVars
<1>4. \A o \in ConnIds :
        /\ \A j : Says(o, j) => Says(o, j)'
        /\ Linked(m) /\ o = cl[m].conn => \A i \in 1..Len(msgs) : Says(o, msgs[i].k)'
  BY <1>3, SendSays
<1>5. KeepsLinks /\ Open \subseteq ConnIds
  BY <1>1, <1>2, <1>3 DEF KeepsLinks, Types
<1>6. \A d \in Open, n \in Machines :
        (cl[n].say # 0 => cl'[n].say # 0) => RosterSteady(d, n) /\ JukeboxSteady(d, n)
  BY <1>1, <1>2, <1>3, <1>4, <1>5 DEF RosterSteady, JukeboxSteady
<1>7. ASSUME Linked(m), r.say = 0, cl[m].say # 0, NEW d \in Open, d = cl[m].conn
      PROVE  RosterComing(d, m)' /\ JukeboxComing(d, m)'
  <2>1. Says(d, "resync")'
    BY <1>2, <1>4, <1>5, <1>7
  <2> QED
    BY <2>1 DEF RosterComing, JukeboxComing
<1>8. \A n \in Machines, d \in Open :
        cl'[n].on /\ d = cl[n].conn /\ d = cl'[n].conn /\ up[d] /\ up'[d] =>
          \/ RosterComing(d, n)' /\ JukeboxComing(d, n)'
          \/ RosterSteady(d, n) /\ JukeboxSteady(d, n)
  <2> SUFFICES ASSUME NEW n \in Machines, NEW d \in Open, cl'[n].on, d = cl[n].conn, up[d]
               PROVE  \/ RosterComing(d, n)' /\ JukeboxComing(d, n)'
                      \/ RosterSteady(d, n) /\ JukeboxSteady(d, n)
    OBVIOUS
  <2>1. CASE n = m /\ r.say = 0 /\ cl[m].say # 0
    BY <1>1, <1>2, <1>7, <2>1 DEF Linked
  <2>2. CASE ~ (n = m /\ r.say = 0 /\ cl[m].say # 0)
    BY <1>1, <1>6, <2>2
  <2> QED
    BY <2>1, <2>2
<1> QED
  BY <1>5, <1>8, RosterStays, JukeboxStays

LEMMA MachineShown ==
  ASSUME LobbyAssumption, Types, Wired, RosterShown, JukeboxShown,
         NEW m \in Machines, Machine(m) \/ User(m)
  PROVE  RosterShown' /\ JukeboxShown'
<1>1. cl \in [Machines -> ClRec] /\ cl[m] \in ClRec /\ Open \subseteq ConnIds
  BY DEF Types
<1>2. inq' = inq => \A o \in ConnIds : \A j : Says(o, j) => Says(o, j)'
  BY DEF Says, Slots
<1>3. ASSUME Say(m) \/ Speaking(m) PROVE RosterShown' /\ JukeboxShown'
  BY <1>3, SayFacts, SpeakingFacts, SpokenShown
<1>4. ASSUME Lost(m) \/ SwitchMode(m) PROVE RosterShown' /\ JukeboxShown'
  <2>1. /\ UNCHANGED <<task, inq, outq, up>> /\ ~cl'[m].on
        /\ \A o \in Machines \ {m} : cl'[o] = cl[o]
    BY <1>4, AloneFacts DEF serverVars
  <2>2. KeepsLinks
    BY <2>1 DEF KeepsLinks
  <2>3. \A d \in Open, n \in Machines : n # m => RosterSteady(d, n) /\ JukeboxSteady(d, n)
    BY <1>1, <1>2, <2>1 DEF RosterSteady, JukeboxSteady
  <2> QED
    BY <2>1, <2>2, <2>3, RosterStays, JukeboxStays
\* What it has received it shows; nothing is left on the way.
<1>5. ASSUME Receive(m) PROVE RosterShown' /\ JukeboxShown'
  <2>1. /\ UNCHANGED <<task, inq, up>> /\ SameSettings
        /\ \A n \in Machines \ {m} : cl'[n] = cl[n]
    BY <1>5, ReceiveFacts DEF serverVars
  <2>2. PICK d \in ConnIds :
          /\ d = cl[m].conn /\ outq'[d] = NoMsgs
          /\ \A o \in ConnIds \ {d} : outq'[o] = outq[o]
          /\ cl'[m].jukebox = IF outq[d].jukebox = None THEN cl[m].jukebox ELSE outq[d].jukebox
          /\ cl'[m].roster = IF outq[d].roster = None THEN cl[m].roster ELSE outq[d].roster
    BY <1>5, ReceiveFacts
  <2>3. KeepsLinks /\ \A n \in Machines : cl'[n].say = cl[n].say
    BY <2>1 DEF KeepsLinks, SameSettings
  <2>4. \A n \in Machines \ {m} : \A o \in Open : o # d => RosterSteady(o, n) /\ JukeboxSteady(o, n)
    BY <1>1, <1>2, <2>1, <2>2, <2>3 DEF RosterSteady, JukeboxSteady
  <2>5. \A n \in Machines \ {m} : cl'[n].on => cl[n].conn # d
    <3>1. cl[m].on
      BY <1>5 DEF Receive
    <3> QED
      BY <2>2, <2>3, <3>1 DEF Wired, KeepsLinks
  <2>6. /\ None # "current" /\ None \notin Fine
        /\ outq'[d].jukebox = None /\ outq'[d].roster = None
    BY <2>2, LobbyAssumption DEF LobbyAssumption, NoMsgs, Fine
  <2>7. ASSUME Linked(m) PROVE RosterComing(d, m)' /\ JukeboxComing(d, m)'
    <3>1. RosterComing(d, m) /\ JukeboxComing(d, m)
      BY <2>2, <2>7 DEF RosterShown, JukeboxShown
    <3>2. \A j : Says(d, j) => Says(d, j)'
      BY <1>2, <2>1
    <3>3. RosterComing(d, m)'
      BY <2>1, <2>2, <2>3, <2>6, <3>1, <3>2 DEF RosterComing
    <3>4. JukeboxComing(d, m)'
      BY <2>1, <2>2, <2>3, <2>6, <3>1, <3>2 DEF JukeboxComing
    <3> QED
      BY <3>3, <3>4
  <2>8. \A n \in Machines, o \in Open :
          cl'[n].on /\ o = cl[n].conn /\ o = cl'[n].conn /\ up[o] /\ up'[o] =>
            /\ RosterComing(o, n)' \/ RosterSteady(o, n)
            /\ JukeboxComing(o, n)' \/ JukeboxSteady(o, n)
    <3> SUFFICES ASSUME NEW n \in Machines, NEW o \in Open,
                        cl'[n].on, o = cl[n].conn, up[o]
                 PROVE  /\ RosterComing(o, n)' \/ RosterSteady(o, n)
                        /\ JukeboxComing(o, n)' \/ JukeboxSteady(o, n)
      OBVIOUS
    <3>1. CASE n = m
      <4>1. Linked(m) /\ o = d
        BY <2>2, <2>3, <3>1 DEF Linked, KeepsLinks
      <4> QED
        BY <2>7, <3>1, <4>1
    <3>2. CASE n # m
      BY <2>4, <2>5, <3>2
    <3> QED
      BY <3>1, <3>2
  <2> QED
    BY <2>3, <2>8, RosterStays, JukeboxStays
\* Everything is still to be said.
<1>6. ASSUME Connect(m) PROVE RosterShown' /\ JukeboxShown'
  <2>1. PICK c \in ConnIds :
          /\ \A n \in Machines : cl[n].conn # c
          /\ \A n \in Machines \ {m} : cl'[n] = cl[n]
          /\ cl'[m].on /\ cl'[m].conn = c /\ cl'[m].say = 1
          /\ up' = [up EXCEPT ![c] = TRUE]
    BY <1>6, ConnectFacts
  <2>2. UNCHANGED <<task, inq, outq>>
    BY <1>6, ConnectFacts
  <2>3. ASSUME NEW n \in Machines, Linked(n)'
        PROVE  RosterComing(cl[n].conn, n)' /\ JukeboxComing(cl[n].conn, n)'
    <3>1. CASE n = m
      BY <2>1, <3>1 DEF RosterComing, JukeboxComing
    <3>2. CASE n # m
      <4>1. PICK d : d = cl[n].conn /\ d = cl'[n].conn
        BY <2>1, <3>2
      <4>2. d \in ConnIds \ {c} /\ cl[n].on /\ up'[d]
        BY <2>1, <2>3, <3>2, <4>1 DEF Linked, Types, ClRec, Wired, Fits
      <4>3. Linked(n)
        BY <2>1, <4>1, <4>2 DEF Linked, Types
      <4>4. RosterComing(d, n) /\ JukeboxComing(d, n)
        BY <4>1, <4>3 DEF RosterShown, JukeboxShown
      <4>5. \A j : Says(d, j)' <=> Says(d, j)
        BY <2>2 DEF Says, Slots
      <4>6. RosterComing(d, n)' /\ JukeboxComing(d, n)'
        BY <2>1, <2>2, <3>2, <4>4, <4>5 DEF RosterComing, JukeboxComing
      <4> QED
        BY <4>1, <4>6
    <3> QED
      BY <3>1, <3>2
  <2> QED
    BY <2>3 DEF RosterShown, JukeboxShown
<1> QED
  BY <1>3, <1>4, <1>5, <1>6 DEF Machine, User, Speaking

LEMMA ShownStep ==
  ASSUME LobbyAssumption, Types, Wired, HasRead, RosterShown, JukeboxShown,
         [LobbyNext]_lobbyVars
  PROVE  RosterShown' /\ JukeboxShown'
<1>1. Open \subseteq ConnIds /\ ConnIds \subseteq Handlers
  BY DEF Types, Handlers
<1>2. inq' = inq => \A o \in ConnIds : \A j : Says(o, j) => Says(o, j)'
  BY DEF Says, Slots
<1>3. ASSUME NEW c \in ConnIds, Cut(c) PROVE RosterShown' /\ JukeboxShown'
  <2>1. /\ UNCHANGED <<task, cl>> /\ up' = [up EXCEPT ![c] = FALSE]
        /\ \A o \in ConnIds \ {c} : inq'[o] = inq[o] /\ outq'[o] = outq[o]
    BY <1>3, CutFacts DEF serverVars
  <2>2. KeepsLinks /\ ~up'[c]
    BY <2>1 DEF KeepsLinks, Types
  <2>3. \A o \in ConnIds \ {c} : \A j : Says(o, j) => Says(o, j)'
    BY <2>1 DEF Says, Slots
  <2>4. \A d \in Open, m \in Machines : d # c => RosterSteady(d, m) /\ JukeboxSteady(d, m)
    BY <1>1, <2>1, <2>3 DEF RosterSteady, JukeboxSteady
  <2> QED
    BY <2>2, <2>4, RosterStays, JukeboxStays
\* The sessions a broadcast is for include every linked machine's.
<1>4. ASSUME NEW h \in Handlers, Snap(h) PROVE RosterShown' /\ JukeboxShown'
  <2>1. /\ task[h].pc = "snap" /\ task' = [task EXCEPT ![h] = [pc |-> "send", to |-> Open]]
        /\ UNCHANGED <<inq, outq, up, cl>>
    BY <1>4 DEF Snap
  <2>2. /\ task'[h].pc = "send" /\ task'[h].to = Open
        /\ \A o \in Handlers \ {h} : task'[o] = task[o]
    BY <2>1 DEF Types
  <2>3. KeepsLinks
    BY <2>1 DEF KeepsLinks
  <2>4. \A d \in Open, m \in Machines : RosterSteady(d, m)
    BY <1>1, <1>2, <2>1, <2>2 DEF RosterSteady, RosterPcs
  <2>5. \A d \in Open, m \in Machines : JukeboxComing(d, m)'
    BY <2>2 DEF JukeboxComing
  <2> QED
    BY <2>3, <2>4, <2>5, RosterStays, JukeboxStays
<1>5. ASSUME NEW h \in Handlers, SendOut(h) PROVE RosterShown' /\ JukeboxShown'
  <2>1. /\ task[h].pc = "send" /\ Send(task[h].to \cap Open, "jukebox") /\ Done(h)
        /\ UNCHANGED <<inq, up, cl>>
    BY <1>5 DEF SendOut
  <2>2. \A o \in Handlers \ {h} : task'[o] = task[o]
    BY <2>1, GoesFacts
  <2>3. \A o \in ConnIds :
          /\ o \in task[h].to \cap Open /\ up[o] => outq'[o].jukebox = "current"
          /\ outq'[o].roster = outq[o].roster
          /\ o \notin task[h].to => outq'[o] = outq[o]
    <3>1. "jukebox" \in {"jukebox", "roster"}
      OBVIOUS
    <3> QED
      BY <2>1, <3>1, SendFacts
  <2>4. KeepsLinks
    BY <2>1 DEF KeepsLinks
  <2>5. \A d \in Open, m \in Machines : RosterSteady(d, m)
    BY <1>1, <1>2, <2>1, <2>2, <2>3 DEF RosterSteady, RosterPcs
  <2>6. \A d \in Open, m \in Machines : d \notin task[h].to => JukeboxSteady(d, m)
    BY <1>1, <1>2, <2>1, <2>2, <2>3 DEF JukeboxSteady
  <2>7. \A d \in Open, m \in Machines : d \in task[h].to /\ up[d] => JukeboxComing(d, m)'
    BY <1>1, <2>3 DEF JukeboxComing
  <2> QED
    BY <2>4, <2>5, <2>6, <2>7, RosterStays, JukeboxStays
<1>6. ASSUME AdminChange PROVE RosterShown' /\ JukeboxShown'
  <2>1. /\ task[Admin] = Idle /\ JukeboxChanges /\ Goes(Admin, "snap") /\ UNCHANGED <<inq, up>>
        /\ Admin \in Handlers
    BY <1>6 DEF AdminChange, Handlers
  <2>2. task'[Admin].pc = "snap" /\ \A o \in Handlers \ {Admin} : task'[o] = task[o]
    BY <2>1, GoesFacts
  <2>3. /\ SameSettings
        /\ \A c \in ConnIds : outq'[c].roster = outq[c].roster
        /\ \A m \in Machines : cl'[m].roster = cl[m].roster
    BY <2>1, LobbyAssumption, ChangesTypes
  <2>4. KeepsLinks /\ \A m \in Machines : cl'[m].say = cl[m].say
    BY <2>1, <2>3 DEF KeepsLinks, SameSettings
  <2>5. Idle.pc \notin RosterPcs
    BY DEF Idle, RosterPcs
  <2>6. \A d \in Open, m \in Machines : RosterSteady(d, m)
    BY <1>1, <1>2, <2>1, <2>2, <2>3, <2>4, <2>5 DEF RosterSteady, Idle
  <2>7. JukeboxShown'
    BY <2>1, <2>2 DEF JukeboxShown, JukeboxComing
  <2> QED
    BY <2>4, <2>6, <2>7, RosterStays
\* The password is no part of what is shown.
<1>8. ASSUME PasswordChanges PROVE RosterShown' /\ JukeboxShown'
  <2>1. /\ UNCHANGED <<task, outq, up>> /\ SameSettings /\ SameWords
        /\ \A m \in Machines : cl'[m].jukebox = cl[m].jukebox /\ cl'[m].roster = cl[m].roster
    BY <1>8, PasswordFacts DEF serverVars
  <2>2. \A o \in ConnIds : \A j : Says(o, j) => Says(o, j)'
    BY <2>1 DEF Says, SameWords
  <2>3. KeepsLinks /\ \A m \in Machines : cl'[m].say = cl[m].say
    BY <2>1 DEF KeepsLinks, SameSettings
  <2>4. \A d \in Open, m \in Machines : RosterSteady(d, m) /\ JukeboxSteady(d, m)
    BY <1>1, <2>1, <2>2, <2>3 DEF RosterSteady, JukeboxSteady
  <2> QED
    BY <2>3, <2>4, RosterStays, JukeboxStays
<1>7. CASE UNCHANGED lobbyVars
  <2>1. KeepsLinks /\ \A d \in Open, m \in Machines : RosterSteady(d, m) /\ JukeboxSteady(d, m)
    BY <1>1, <1>2, <1>7 DEF lobbyVars, KeepsLinks, RosterSteady, JukeboxSteady
  <2> QED
    BY <2>1, RosterStays, JukeboxStays
<1> QED
  BY <1>3, <1>4, <1>5, <1>6, <1>7, <1>8, SessionShown, MachineShown DEF LobbyNext, Broadcast

-----------------------------------------------------------------------------
(* The invariant of the lobby, and what it says when nothing is under way *)

LEMMA InitIInv == LobbyAssumption /\ LobbyInit => IInv
<1> SUFFICES ASSUME LobbyAssumption, LobbyInit PROVE IInv
  OBVIOUS
<1> USE DEF LobbyInit
<1>1. \A m \in Machines : ~cl[m].on /\ cl[m] \in ClRec /\ Fits(cl[m])
  <2>1. \A r \in Fresh : ~r.on /\ r.conn = 0 /\ r.pw = None
    BY DEF Fresh
  <2>2. \A r \in Fresh : r \in ClRec
    <3>1. {FALSE} \subseteq BOOLEAN /\ {0} \subseteq ConnIds \cup {0} /\ {0} \subseteq 0..2
          /\ {{}} \subseteq SUBSET Titles /\ {None} \subseteq Secrets /\ {None} \subseteq Seen
      BY DEF Secrets, Seen
    <3> QED
      BY <3>1 DEF Fresh, ClRec
  <2>3. \A m \in Machines : cl[m] \in Fresh
    OBVIOUS
  <2> QED
    BY <2>1, <2>2, <2>3 DEF Fits
<1>2. Open = {} /\ conns \in [Open -> ConnRec]
  BY DEF Open
<1>3. Idle \in TaskRec /\ NoMsgs \in OutRec /\ <<>> \in Seq(Msgs) /\ acts \in 0..MaxActs
  BY LobbyAssumption DEF Idle, TaskRec, Stages, NoMsgs, OutRec, Seen, LobbyAssumption
<1>4. Types
  <2>1. cl \in [Machines -> ClRec]
    BY <1>1
  <2> QED
    BY <1>2, <1>3, <2>1 DEF Types
<1>5. \A m \in Machines : ~Linked(m)
  BY <1>1 DEF Linked
<1>6. \A c \in ConnIds : Slots(c) = {} /\ ~up[c]
  <2>1. Len(<<>>) = 0
    OBVIOUS
  <2> QED
    BY <2>1 DEF Slots
<1>7. Wired
  BY <1>1, <1>6 DEF Wired
<1>8. HasRead
  BY DEF HasRead, Idle, Handlers
<1> QED
  BY <1>2, <1>4, <1>5, <1>7, <1>8
     DEF IInv, Links, Named, Listed, RosterShown, JukeboxShown

LEMMA NextIInv == LobbyAssumption /\ IInv /\ [LobbyNext]_lobbyVars => IInv'
<1> SUFFICES ASSUME LobbyAssumption, IInv, [LobbyNext]_lobbyVars PROVE IInv'
  OBVIOUS
<1>1. Types /\ Links /\ Wired /\ HasRead /\ RosterShown /\ JukeboxShown
  BY DEF IInv, Links
<1>2. Types'
  BY <1>1, SessionTypes, OtherTypes DEF LobbyNext
<1>3. Links'
  BY <1>1, LinksStep
<1>4. HasRead'
  BY <1>1, HasReadStep
<1>5. RosterShown' /\ JukeboxShown'
  BY <1>1, ShownStep
<1> QED
  BY <1>2, <1>3, <1>4, <1>5 DEF IInv

\* The invariant of registry, handlers, links and clients holds in every state,
\* wherever links break, handlers are cut by the registry's lock, and whatever
\* a machine sends before its Hello or an admin changes meanwhile (ws_session,
\* handle_client_msg, broadcast_jukebox, run_once).
THEOREM LobbyInvariant == LobbySpec => []IInv
BY LobbyAssumption, InitIInv, NextIInv, PTL DEF LobbySpec

\* Nothing under way: no handler is running, nothing is left to say and a linked
\* machine's queues are empty, so only the first place of each invariant is left.
LEMMA QuietFacts ==
  ASSUME Types, Wired, Quiet, NEW m \in Machines, Linked(m)
  PROVE  /\ cl[m].say = 0
         /\ \E d \in Open :
              /\ d = cl[m].conn /\ Slots(d) = {} /\ outq[d] = NoMsgs
              /\ task[d] = Idle /\ \A h \in Handlers : task[h] = Idle
<1>1. PICK d : d = cl[m].conn /\ d \in Open /\ d \in ConnIds /\ up[d]
  BY LinkedFacts
<1>2. inq[d] = <<>> /\ outq[d] = NoMsgs
  BY <1>1 DEF Quiet
<1>3. Slots(d) = {}
  <2>1. Len(<<>>) = 0
    OBVIOUS
  <2> QED
    BY <1>2, <2>1 DEF Slots
<1> QED
  BY <1>1, <1>2, <1>3 DEF Quiet, Handlers

\* Types and the registry: the values every component of the lobby has, for
\* any machines, titles and connections.
THEOREM LobbyTypes == LobbySpec => []LobbyTypeOK
<1>1. IInv => LobbyTypeOK
  <2> SUFFICES ASSUME IInv PROVE LobbyTypeOK
    OBVIOUS
  <2>1. Types
    BY DEF IInv
  <2>2. \A m \in Machines : cl[m].on => cl[m].conn \in ConnIds
    BY DEF IInv, Links, Types, Wired, Fits, ClRec
  <2> QED
    BY <2>1, <2>2 DEF LobbyTypeOK, Types, ConnRec, OutRec
<1> QED
  BY <1>1, LobbyInvariant, PTL

\* After reconnects, overlapping sessions and changes made while it was away, a
\* connected machine shows the jukebox as it is once nothing is under way, and
\* the roster as it is or one that was read before the last change and sent after
\* the broadcast of it, never an older one (run_once, Resync, broadcast_jukebox,
\* broadcast_roster), for any number of machines, connections and changes.
THEOREM LobbyShown == LobbySpec => []ShownIsCurrent
<1>1. LobbyAssumption /\ IInv => ShownIsCurrent
  <2> SUFFICES ASSUME LobbyAssumption, IInv, Quiet, NEW m \in Machines, Linked(m)
               PROVE  cl[m].jukebox = "current" /\ cl[m].roster \in Fine
    BY DEF ShownIsCurrent, Fine
  <2>1. cl[m].say = 0
    BY QuietFacts DEF IInv, Links
  <2>2. PICK d \in Open :
          /\ d = cl[m].conn /\ Slots(d) = {} /\ outq[d] = NoMsgs
          /\ task[d] = Idle /\ \A h \in Handlers : task[h] = Idle
    BY QuietFacts DEF IInv, Links
  <2>3. RosterComing(d, m) /\ JukeboxComing(d, m)
    BY <2>2 DEF IInv, RosterShown, JukeboxShown
  <2>4. /\ None # "current" /\ None \notin Fine
        /\ NoMsgs.jukebox = None /\ NoMsgs.roster = None /\ Idle.pc = "idle"
        /\ ConnIds \subseteq Handlers
    BY DEF LobbyAssumption, Fine, NoMsgs, Idle, Handlers
  <2>5. \A k : ~Says(d, k)
    BY <2>2 DEF Says
  <2>6. cl[m].roster \in Fine
    BY <2>1, <2>2, <2>3, <2>4, <2>5 DEF RosterComing, RosterPcs
  <2>7. cl[m].jukebox = "current"
    BY <2>1, <2>2, <2>3, <2>4, <2>5 DEF JukeboxComing
  <2> QED
    BY <2>6, <2>7
<1> QED
  BY <1>1, LobbyAssumption, LobbyInvariant, PTL

\* The registry lists what the connected machines have announced on the
\* connections they have, and no machine without an open session, but for what
\* came before a Hello: the late end of an old session takes nothing from the new
\* one (remove, announce_seeds), for any number of machines and sessions.
THEOREM LobbySeeds == LobbySpec => []SeedsListed
<1>1. IInv => SeedsListed
  <2> SUFFICES ASSUME IInv PROVE SeedsListed
    OBVIOUS
  <2>1. ASSUME Quiet, NEW m \in Machines, Linked(m), NEW t \in cl[m].told
        PROVE  <<t, m>> \in registry
    <3>1. PICK d \in Open : d = cl[m].conn /\ Slots(d) = {}
      BY <2>1, QuietFacts DEF IInv, Links
    <3>2. TitleNoted(d, m, t)
      BY <2>1, <3>1 DEF IInv, Links, Tied
    <3> QED
      BY <3>1, <3>2 DEF TitleNoted, Announces
  <2>2. Listed
    BY DEF IInv, Links
  <2> QED
    BY <2>1, <2>2 DEF SeedsListed, Listed
<1> QED
  BY <1>1, LobbyInvariant, PTL

\* A machine whose operator has entered the playback password may advance the
\* queue on whatever connection it has, unless the server has refused the password
\* there (update_hello, PlaybackAuth): the password follows every Hello that
\* would take the authority away, and is answered.
THEOREM LobbyAuthority == LobbySpec => []AuthorityKept
<1>1. IInv => AuthorityKept
  <2> SUFFICES ASSUME IInv, Quiet, NEW m \in Machines, Linked(m), cl[m].pw # None
               PROVE  conns[cl[m].conn].verified \/ conns[cl[m].conn].refused
    BY DEF AuthorityKept
  <2>1. cl[m].say = 0
    BY QuietFacts DEF IInv, Links
  <2>2. PICK d \in Open : d = cl[m].conn /\ Slots(d) = {}
    BY QuietFacts DEF IInv, Links
  <2>3. AuthNoted(d)
    BY <2>1, <2>2 DEF IInv, Links, Tied
  <2> QED
    BY <2>2, <2>3 DEF AuthNoted
<1> QED
  BY <1>1, LobbyInvariant, PTL
=============================================================================
