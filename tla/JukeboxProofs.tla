---------------------------- MODULE JukeboxProofs ----------------------------
(***************************************************************************)
(* Proofs about Jukebox for any clients, playback machines and bounds.     *)
(* PlayingIsReal, MemoryMatchesTable and NoPhantom are inductive together  *)
(* with the types: what a handler does to the row that plays is right only *)
(* because memory names that row, and the reverse.                         *)
(***************************************************************************)
EXTENDS Jukebox, FiniteSetTheorems, TLAPS

Inv == TypeOK /\ PlayingIsReal /\ MemoryMatchesTable /\ NoPhantom

USE JukeboxAssumption DEF Nothing, Ids, AllTypes, Ranks

\* A row that is not there is a row of the table's type.
LEMMA NoItemType == NoItem \in Item
BY DEF NoItem, Item, Contributors

\* The playback state that goes with a type is never idle.
LEMMA StateOfType ==
  ASSUME NEW type \in AllTypes
  PROVE  StateOf(type) \in {"embedded", "external"}
BY DEF StateOf

\* MarkPlayed leaves no row playing when memory and table agree.
LEMMA MarkPlayedRows ==
  ASSUME TypeOK
  PROVE  /\ MarkPlayed \in [Ids -> Item]
         /\ \A i \in Ids : /\ MarkPlayed[i].type = items[i].type
                           /\ i # nowPlaying => MarkPlayed[i] = items[i]
                           /\ i = nowPlaying => MarkPlayed[i].state = "played"
BY DEF TypeOK, MarkPlayed, Item

\* Promoting the first of up-next on a table in which nothing plays: one row
\* plays afterwards, the one memory names.
LEMMA PromoteInv ==
  ASSUME Inv, NEW table \in [Ids -> Item],
         \A i \in Queued : table[i] = items[i],
         ~faulted => \A i \in Ids : table[i].state # "playing",
         Promote(table)
  PROVE  /\ items' \in [Ids -> Item]
         /\ nowPlaying' \in Ids \cup {Nothing}
         /\ playback' \in {"idle", "embedded", "external"}
         /\ unattended' \in BOOLEAN
         /\ PlayingIsReal'
         /\ ~faulted => /\ Playing' \subseteq {nowPlaying'}
                        /\ (playback' = "idle") <=> (nowPlaying' = Nothing)
         /\ nowPlaying' # Nothing /\ players = {} => unattended'
<1>1. CASE nowPlaying' = Nothing /\ items' = table /\ playback' = "idle"
           /\ unattended' = FALSE
  BY <1>1 DEF Inv, TypeOK, PlayingIsReal, Playing
<1>2. ASSUME NEW i \in Ids, IsFirst(i),
             items' = [table EXCEPT ![i].state = "playing"],
             nowPlaying' = i, playback' = StateOf(table[i].type),
             unattended' = (players = {})
      PROVE  /\ items' \in [Ids -> Item]
             /\ nowPlaying' \in Ids \cup {Nothing}
             /\ playback' \in {"idle", "embedded", "external"}
             /\ unattended' \in BOOLEAN
             /\ PlayingIsReal'
             /\ ~faulted => /\ Playing' \subseteq {nowPlaying'}
                            /\ (playback' = "idle") <=> (nowPlaying' = Nothing)
             /\ nowPlaying' # Nothing /\ players = {} => unattended'
  <2>1. items' \in [Ids -> Item]
    BY <1>2 DEF Item
  <2>2. /\ items'[i].state = "playing" /\ items'[i].type = table[i].type
        /\ \A j \in Ids \ {i} : items'[j] = table[j]
    BY <1>2 DEF Item
  <2>3. table[i].type \in AllTypes
    BY DEF Item
  <2>4. PlayingIsReal'
    BY <1>2, <2>2 DEF PlayingIsReal, StateOf
  <2>5. playback' \in {"embedded", "external"}
    BY <1>2, <2>3, StateOfType
  <2>6. ~faulted => Playing' \subseteq {nowPlaying'}
    BY <1>2, <2>2 DEF Playing
  <2>7. nowPlaying' \in Ids \cup {Nothing} /\ nowPlaying' # Nothing
    BY <1>2
  <2>8. unattended' \in BOOLEAN /\ (players = {} => unattended')
    BY <1>2, Zenon
  <2>9. playback' # "idle" /\ playback' \in {"idle", "embedded", "external"}
    BY <2>5
  <2> QED
    BY <2>1, <2>4, <2>6, <2>7, <2>8, <2>9
<1> QED
  BY <1>1, <1>2 DEF Promote

\* advance keeps the invariant, with and without a database error.
LEMMA AdvanceInv ==
  ASSUME Inv, Advance, UNCHANGED <<votes, mode>>,
         players' = players, verified' \subseteq players', leaving' = leaving,
         ended' \subseteq players'
  PROVE  Inv'
<1>1. CASE Promote(MarkPlayed) /\ UNCHANGED faulted
  <2>1. /\ \A i \in Queued : MarkPlayed[i] = items[i]
        /\ ~faulted => \A i \in Ids : MarkPlayed[i].state # "playing"
    BY MarkPlayedRows DEF Inv, PlayingIsReal, MemoryMatchesTable, Playing, Queued
  <2> QED
    BY <1>1, <2>1, MarkPlayedRows, PromoteInv
    DEF Inv, TypeOK, MemoryMatchesTable, NoPhantom
<1>2. CASE /\ items' \in {items, MarkPlayed} /\ nowPlaying' = Nothing
           /\ unattended' = FALSE /\ faulted' = TRUE /\ UNCHANGED playback
  BY <1>2, MarkPlayedRows
  DEF Inv, TypeOK, PlayingIsReal, MemoryMatchesTable, NoPhantom
<1> QED
  BY <1>1, <1>2 DEF Advance

\* What clients do keeps the invariant.
LEMMA ClientInv == ASSUME Inv, ClientStep PROVE Inv'
<1>1. ASSUME NEW c \in Clients, NEW type \in Types, JukeboxAdd(c, type) PROVE Inv'
  <2>1. PICK i \in Ids : Insert(i, type, c, {c})
    BY <1>1 DEF JukeboxAdd
  <2> QED
    BY <2>1 DEF Insert, NewId, Rows, Inv, TypeOK, Item, Contributors, sessionVars,
      PlayingIsReal, MemoryMatchesTable, NoPhantom, Playing
<1>2. ASSUME NEW c \in Clients, NEW i \in Ids, JukeboxVote(c, i) PROVE Inv'
  BY <1>2 DEF JukeboxVote, Inv, TypeOK, sessionVars, PlayingIsReal,
    MemoryMatchesTable, NoPhantom, Playing
<1> QED
  BY <1>1, <1>2 DEF ClientStep

\* What the admin panel does, and the deletion of a share, keeps the invariant.
LEMMA AdminInv == ASSUME Inv, AdminStep PROVE Inv'
<1>1. ASSUME NEW type \in Types, AdminAdd(type) PROVE Inv'
  <2>1. PICK i \in Ids : Insert(i, type, AdminUser, {})
    BY <1>1 DEF AdminAdd
  <2> QED
    BY <2>1 DEF Insert, NewId, Rows, Inv, TypeOK, Item, Contributors, sessionVars,
      PlayingIsReal, MemoryMatchesTable, NoPhantom, Playing
<1>2. ASSUME NEW i \in Ids, AdminRemove(i) PROVE Inv'
  <2> DEFINE table == [items EXCEPT ![i] = NoItem]
  <2>1. /\ table \in [Ids -> Item]
        /\ table[i].state = "none"
        /\ \A j \in Ids \ {i} : table[j] = items[j]
    BY NoItemType DEF Inv, TypeOK, NoItem
  <2>2. votes' \in [Ids -> SUBSET Clients] /\ UNCHANGED <<mode, sessionVars, faulted>>
    BY <1>2 DEF AdminRemove, Inv, TypeOK
  <2> HIDE DEF table
  <2>3. CASE i = nowPlaying /\ Promote(table)
    <3>1. /\ \A j \in Queued : table[j] = items[j]
          /\ ~faulted => \A j \in Ids : table[j].state # "playing"
      BY <2>1, <2>3 DEF Inv, PlayingIsReal, MemoryMatchesTable, Playing, Queued
    <3> QED
      BY <2>1, <2>2, <2>3, <3>1, PromoteInv
      DEF Inv, TypeOK, MemoryMatchesTable, NoPhantom, sessionVars
  <2>4. CASE i = nowPlaying /\ items' = table /\ Stopped
    BY <2>1, <2>2, <2>4 DEF Stopped, Inv, TypeOK, PlayingIsReal,
      MemoryMatchesTable, NoPhantom, sessionVars, Playing
  <2>5. CASE /\ i # nowPlaying /\ items' = table
             /\ UNCHANGED <<nowPlaying, playback, unattended>>
    BY <2>1, <2>2, <2>5 DEF Inv, TypeOK, PlayingIsReal, MemoryMatchesTable,
      NoPhantom, sessionVars, Playing
  <2> QED
    BY <1>2, <2>3, <2>4, <2>5 DEF AdminRemove, table
<1>3. ASSUME NEW i \in Ids, AdminTop(i) PROVE Inv'
  <2>1. PICK r \in Ranks : items' = [items EXCEPT ![i].over = r]
    BY <1>3 DEF AdminTop
  <2>2. /\ items' \in [Ids -> Item]
        /\ \A j \in Ids : items'[j].state = items[j].state
                          /\ items'[j].type = items[j].type
    BY <2>1, SMTT(40) DEF Inv, TypeOK, Item
  <2> QED
    BY <1>3, <2>2 DEF AdminTop, Inv, TypeOK, PlayingIsReal, MemoryMatchesTable,
      NoPhantom, sessionVars, Playing
<1>4. CASE AdminNext
  BY <1>4, AdvanceInv DEF AdminNext, sessionVars, Inv, TypeOK
<1>5. CASE AdminClear
  <2>1. items' = [i \in Ids |-> NoItem] /\ votes' = [i \in Ids |-> {}]
    BY <1>5 DEF AdminClear, Delete
  <2> QED
    BY <1>5, <2>1, NoItemType DEF AdminClear, Stopped, sessionVars, NoItem, Inv,
      TypeOK, PlayingIsReal, MemoryMatchesTable, NoPhantom, Playing
<1>6. CASE ShareDeleted
  <2> DEFINE S == {i \in Rows : items[i].type = "shared"}
  <2>1. /\ items' = [i \in Ids |-> IF i \in S THEN NoItem ELSE items[i]]
        /\ votes' = [i \in Ids |-> IF i \in S THEN {} ELSE votes[i]]
        /\ StopIfCurrent(S)
        /\ UNCHANGED <<mode, sessionVars, faulted>>
    BY <1>6 DEF ShareDeleted, Delete
  <2> HIDE DEF S
  <2>2. items' \in [Ids -> Item] /\ votes' \in [Ids -> SUBSET Clients]
    BY <2>1, NoItemType DEF Inv, TypeOK
  <2>3. NoItem.state = "none"
    BY DEF NoItem
  <2>4. CASE nowPlaying \in S /\ Stopped
    BY <2>1, <2>2, <2>3, <2>4 DEF Stopped, sessionVars, Inv, TypeOK, PlayingIsReal,
      MemoryMatchesTable, NoPhantom, Playing
  <2>5. CASE nowPlaying \notin S /\ UNCHANGED <<nowPlaying, playback, unattended>>
    BY <2>1, <2>2, <2>3, <2>5 DEF sessionVars, Inv, TypeOK, PlayingIsReal,
      MemoryMatchesTable, NoPhantom, Playing
  <2> QED
    BY <2>1, <2>4, <2>5 DEF StopIfCurrent
<1>7. ASSUME NEW m \in {"fair", "votes"}, AdminMode(m) PROVE Inv'
  BY <1>7 DEF AdminMode, sessionVars, Inv, TypeOK, PlayingIsReal,
    MemoryMatchesTable, NoPhantom, Playing
<1> QED
  BY <1>1, <1>2, <1>3, <1>4, <1>5, <1>6, <1>7 DEF AdminStep

\* The playback machines' coming, going and messages keep the invariant.
LEMMA PlayerInv == ASSUME Inv, PlayerStep PROVE Inv'
<1> USE DEF jbVars, sessionVars
<1>1. ASSUME NEW p \in Players, PlayerHello(p) \/ PlayerAuth(p) \/ VideoEnds(p)
      PROVE  Inv'
  BY <1>1 DEF PlayerHello, PlayerAuth, VideoEnds, Inv, TypeOK, PlayingIsReal,
    MemoryMatchesTable, NoPhantom, Playing
<1>2. ASSUME NEW p \in Players, JukeboxEnded(p) PROVE Inv'
  <2>1. CASE Advance
    BY <1>2, <2>1, AdvanceInv DEF JukeboxEnded, Inv, TypeOK
  <2>2. CASE UNCHANGED <<items, nowPlaying, playback, unattended, faulted>>
    BY <1>2, <2>2 DEF JukeboxEnded, Inv, TypeOK, PlayingIsReal,
      MemoryMatchesTable, NoPhantom, Playing
  <2> QED
    BY <1>2, <2>1, <2>2 DEF JukeboxEnded
<1>3. ASSUME NEW p \in Players, JukeboxNext(p) PROVE Inv'
  BY <1>3, AdvanceInv DEF JukeboxNext, Inv, TypeOK
<1>4. ASSUME NEW p \in Players, Disconnect(p) PROVE Inv'
  BY <1>4 DEF Disconnect, LastGone, Inv, TypeOK, PlayingIsReal,
    MemoryMatchesTable, NoPhantom, Playing
<1>5. ASSUME NEW p \in Players, RequeueNowPlaying(p) PROVE Inv'
  <2>1. CASE UNCHANGED <<items, nowPlaying, playback, unattended, faulted>>
             /\ nowPlaying = Nothing
    BY <1>5, <2>1 DEF RequeueNowPlaying, Inv, TypeOK, PlayingIsReal, MemoryMatchesTable,
      NoPhantom, Playing
  <2>2. ASSUME nowPlaying # Nothing, NEW r \in Ranks, Stopped, UNCHANGED faulted,
               items' = [items EXCEPT ![nowPlaying] =
                           [@ EXCEPT !.state = "queued", !.over = r]]
        PROVE  Inv'
    <3>1. /\ items' \in [Ids -> Item]
          /\ items'[nowPlaying].state = "queued"
          /\ \A i \in Ids \ {nowPlaying} : items'[i] = items[i]
      <4> DEFINE k == [items[nowPlaying] EXCEPT !.state = "queued", !.over = r]
      <4>1. nowPlaying \in Ids /\ items \in [Ids -> Item]
        BY <2>2 DEF Inv, TypeOK
      <4>2. k \in Item /\ k.state = "queued"
        BY <4>1 DEF Item
      <4>3. items' = [items EXCEPT ![nowPlaying] = k]
        BY <2>2
      <4> HIDE DEF k
      <4> QED
        BY <4>1, <4>2, <4>3
    <3> QED
      BY <1>5, <2>2, <3>1 DEF RequeueNowPlaying, Stopped, Inv, TypeOK, PlayingIsReal,
        MemoryMatchesTable, NoPhantom, Playing
  <2>3. CASE /\ nowPlaying' = Nothing /\ unattended' = FALSE /\ faulted' = TRUE
             /\ UNCHANGED <<items, playback>>
    BY <1>5, <2>3 DEF RequeueNowPlaying, Inv, TypeOK, PlayingIsReal, MemoryMatchesTable,
      NoPhantom
  <2> QED
    BY <1>5, <2>1, <2>2, <2>3 DEF RequeueNowPlaying
<1> QED
  BY <1>1, <1>2, <1>3, <1>4, <1>5 DEF PlayerStep

\* restore puts back in memory what the table says is playing.
LEMMA RestoreInv == ASSUME Inv, Restore PROVE Inv'
<1>1. CASE Playing = {} /\ Stopped
  BY <1>1 DEF Restore, Stopped, Inv, TypeOK, PlayingIsReal, MemoryMatchesTable,
    NoPhantom, Playing
<1>2. ASSUME NEW i \in Playing, nowPlaying' = i,
             playback' = StateOf(items[i].type), unattended' = TRUE
      PROVE  Inv'
  <2>1. items[i].type \in AllTypes /\ i \in Ids /\ items[i].state = "playing"
    BY DEF Inv, TypeOK, Item, Playing
  <2>2. playback' \in {"embedded", "external"}
    BY <1>2, <2>1, StateOfType
  <2> QED
    BY <1>2, <2>1, <2>2 DEF Restore, Inv, TypeOK, PlayingIsReal,
      MemoryMatchesTable, NoPhantom, Playing, StateOf
<1> QED
  BY <1>1, <1>2 DEF Restore

\* The inductive invariant holds in every reachable state of the jukebox.
LEMMA JukeboxInvariance == Spec => []Inv
<1>1. Init => Inv
  <2> SUFFICES ASSUME Init PROVE Inv
    OBVIOUS
  <2>1. TypeOK
    BY NoItemType DEF Init, TypeOK
  <2>2. \A i \in Ids : items[i].state = "none"
    BY DEF Init, NoItem
  <2>3. PlayingIsReal /\ MemoryMatchesTable /\ NoPhantom
    BY <2>2 DEF Init, PlayingIsReal, MemoryMatchesTable, NoPhantom, Playing
  <2> QED
    BY <2>1, <2>3 DEF Inv
<1>2. Inv /\ [Next]_vars => Inv'
  <2> SUFFICES ASSUME Inv, [Next]_vars PROVE Inv'
    OBVIOUS
  <2>1. CASE UNCHANGED vars
    BY <2>1 DEF vars, jbVars, sessionVars, Inv, TypeOK, PlayingIsReal,
      MemoryMatchesTable, NoPhantom, Playing
  <2> QED
    BY <2>1, ClientInv, AdminInv, PlayerInv, RestoreInv DEF Next
<1> QED
  BY <1>1, <1>2, PTL DEF Spec

\* Whatever fails, what the server shows as playing is a row that plays, in the
\* state of its type (advance, remove, restore).
THEOREM PlayingSound == Spec => []PlayingIsReal
<1>1. Inv => PlayingIsReal
  BY DEF Inv
<1> QED
  BY <1>1, JukeboxInvariance, PTL

\* Memory and table agree on the row that plays, so that a restart goes on with
\* it, unless a database error cut a handler short.
THEOREM MemoryTableAgreement == Spec => []MemoryMatchesTable
<1>1. Inv => MemoryMatchesTable
  BY DEF Inv
<1> QED
  BY <1>1, JukeboxInvariance, PTL

\* However many playback machines come and go, the last to leave takes what
\* plays off the stage (ws_session, requeue_now_playing).
THEOREM NoPhantomPlayback == Spec => []NoPhantom
<1>1. Inv => NoPhantom
  BY DEF Inv
<1> QED
  BY <1>1, JukeboxInvariance, PTL

\* Tables and memory keep their types, and only machines that are connected
\* have authority or a message on its way.
THEOREM TypeCorrect == Spec => []TypeOK
<1>1. Inv => TypeOK
  BY DEF Inv
<1> QED
  BY <1>1, JukeboxInvariance, PTL

\* The rank a row is put back with is below all others, so it stands before
\* every row of the queue.
LEMMA PutBackFirst ==
  ASSUME Inv, NEW p \in Players, NEW i \in Ids,
         RequeueNowPlaying(p), i = nowPlaying, items' # items
  PROVE  IsFirst(i)'
<1>1. PICK r \in Ranks :
        /\ TopRank(r)
        /\ items' = [items EXCEPT ![i] = [@ EXCEPT !.state = "queued", !.over = r]]
  BY DEF RequeueNowPlaying
<1>2. /\ items'[i].state = "queued" /\ items'[i].over = r
      /\ \A j \in Ids \ {i} : items'[j] = items[j]
  BY <1>1 DEF Inv, TypeOK, Item
<1>3. i \in Queued'
  BY <1>2 DEF Queued
<1>4. ASSUME NEW j \in Queued' \ {i} PROVE Before(i, j)'
  <2>1. j \in Queued /\ j # i /\ j \in Ids
    BY <1>2, <1>4 DEF Queued
  <2>2. r < 0 /\ r < items[j].over
    BY <1>1, <2>1 DEF TopRank
  <2>3. items'[i].over # 0 /\ items'[i].over < items'[j].over
    BY <1>2, <2>1, <2>2
  <2> QED
    BY <2>3 DEF Before
<1> QED
  BY <1>3, <1>4 DEF IsFirst

\* A row put back because its machine left is the first to play again, whatever
\* the admin had moved to the top (requeue_now_playing).
THEOREM RequeuedPlaysNext == Spec => RequeuedFirst
<1>1. Inv => [\A p \in Players, i \in Ids :
                RequeueNowPlaying(p) /\ i = nowPlaying /\ items' # items => IsFirst(i)']_vars
  BY PutBackFirst
<1> QED
  BY <1>1, JukeboxInvariance, PTL DEF RequeuedFirst
-----------------------------------------------------------------------------
(* The order of up-next *)

\* More votes, then the earlier row: a strict total order of the rows.
LEMMA StrongerOrder ==
  ASSUME TypeOK
  PROVE  /\ \A i \in Ids : Count(i) \in Nat /\ ~Stronger(i, i)
         /\ \A i, j \in Ids : i # j => Stronger(i, j) \/ Stronger(j, i)
         /\ \A i, j \in Ids : ~(Stronger(i, j) /\ Stronger(j, i))
         /\ \A i, j, k \in Ids : Stronger(i, j) /\ Stronger(j, k) => Stronger(i, k)
<1>1. ASSUME NEW i \in Ids PROVE Count(i) \in Nat
  <2>1. votes[i] \in SUBSET Clients
    BY DEF TypeOK
  <2>2. IsFiniteSet(votes[i])
    BY <2>1, FS_Subset
  <2> QED
    BY <2>2, FS_CardinalityType DEF Count
<1>2. \A i \in Ids : i \in Nat
  OBVIOUS
<1> QED
  BY <1>1, <1>2 DEF Stronger

\* A contributor's lane: finitely many rows, the same lane for each of them.
LEMMA LaneFacts ==
  ASSUME NEW i \in Free
  PROVE  /\ i \in Lane(i) /\ Lane(i) \subseteq Ids /\ Lane(i) \subseteq Free
         /\ IsFiniteSet(Lane(i)) /\ Cardinality(Lane(i)) \in Nat
         /\ \A j \in Lane(i) : Lane(j) = Lane(i)
<1>1. i \in Lane(i) /\ Lane(i) \subseteq Free
  BY DEF Lane
<1>2. Free \subseteq Ids
  BY DEF Free, Queued
<1>3. IsFiniteSet(Ids)
  BY FS_Interval
<1>4. IsFiniteSet(Lane(i)) /\ Cardinality(Lane(i)) \in Nat
  BY <1>1, <1>2, <1>3, FS_Subset, FS_CardinalityType
<1>5. \A j \in Lane(i) : Lane(j) = Lane(i)
  BY DEF Lane
<1> QED
  BY <1>1, <1>2, <1>4, <1>5

\* A row's round is less than the length of its lane.
LEMMA RoundType ==
  ASSUME TypeOK, NEW i \in Free
  PROVE  Round(i) \in Nat /\ Round(i) < Cardinality(Lane(i))
<1> DEFINE L == Lane(i)
           A == {j \in L : Stronger(j, i)}
<1>1. i \in L /\ IsFiniteSet(L) /\ Cardinality(L) \in Nat /\ i \in Ids
  BY LaneFacts
<1>2. A \in SUBSET L /\ i \notin A
  BY <1>1, StrongerOrder
<1> HIDE DEF L, A
<1>3. IsFiniteSet(A) /\ Cardinality(A) <= Cardinality(L)
      /\ Cardinality(A) # Cardinality(L) /\ Cardinality(A) \in Nat
  BY <1>1, <1>2, FS_Subset, FS_CardinalityType
<1> QED
  BY <1>1, <1>3 DEF Round, A, L

\* Of two rows of a lane the stronger one is taken in an earlier round.
LEMMA RoundGrows ==
  ASSUME TypeOK, NEW i \in Free, NEW j \in Lane(i), NEW k \in Lane(i), Stronger(j, k)
  PROVE  Round(j) < Round(k)
<1> DEFINE A == {l \in Lane(i) : Stronger(l, j)}
           B == {l \in Lane(i) : Stronger(l, k)}
<1>1. Lane(j) = Lane(i) /\ Lane(k) = Lane(i) /\ IsFiniteSet(Lane(i))
      /\ Lane(i) \subseteq Ids /\ j \in Ids /\ k \in Ids
  BY LaneFacts
<1>2. A \in SUBSET B /\ j \in B /\ j \notin A /\ B \in SUBSET Lane(i)
  BY <1>1, StrongerOrder
<1>3. Round(j) = Cardinality(A) /\ Round(k) = Cardinality(B)
  BY <1>1 DEF Round
<1> HIDE DEF A, B
<1>4. IsFiniteSet(B) /\ Cardinality(B) \in Nat
  BY <1>1, <1>2, FS_Subset, FS_CardinalityType
<1>5. Cardinality(A) \in Nat /\ Cardinality(A) <= Cardinality(B)
      /\ Cardinality(A) # Cardinality(B)
  BY <1>2, <1>4, FS_Subset, FS_CardinalityType
<1> QED
  BY <1>3, <1>4, <1>5

\* A lane has a row in every round up to its last, and one only.
LEMMA RowOfRound ==
  ASSUME TypeOK, NEW i \in Free, NEW n \in Nat, n < Cardinality(Lane(i))
  PROVE  \E l \in Lane(i) : Round(l) = n
<1> DEFINE L == Lane(i)
<1>1. PICK m \in Nat : m = Cardinality(L)
  BY LaneFacts
<1>2. /\ IsFiniteSet(L) /\ L \subseteq Free /\ L \subseteq Ids
      /\ \A l \in L : Lane(l) = L
  BY LaneFacts
<1> DEFINE f == [l \in L |-> Round(l) + 1]
<1>3. \A l \in L : Round(l) \in Nat /\ Round(l) < m
  BY <1>1, <1>2, RoundType
<1>4. \A j, k \in L : Round(j) = Round(k) => j = k
  <2> SUFFICES ASSUME NEW j \in L, NEW k \in L, Round(j) = Round(k), j # k
               PROVE  FALSE
    OBVIOUS
  <2>1. Stronger(j, k) \/ Stronger(k, j)
    BY <1>2, StrongerOrder
  <2>2. Round(j) < Round(k) \/ Round(k) < Round(j)
    BY <2>1, RoundGrows
  <2> QED
    BY <1>3, <2>2
<1>5. IsFiniteSet(1..m) /\ Cardinality(1..m) = m
  BY FS_Interval
<1>6. f \in Injection(L, 1..m)
  <2>1. \A l \in L : Round(l) + 1 \in 1..m
    BY <1>3
  <2>2. \A j, k \in L : Round(j) + 1 = Round(k) + 1 => j = k
    BY <1>3, <1>4
  <2> QED
    BY <2>1, <2>2 DEF Injection, IsInjective
<1> HIDE DEF L
<1>7. f \in Surjection(L, 1..m)
  <2> HIDE DEF f
  <2> QED
    BY <1>1, <1>5, <1>6, FS_Injection
<1>8. n + 1 \in 1..m
  BY <1>1 DEF L
<1>9. \E l \in L : Round(l) + 1 = n + 1
  BY <1>7, <1>8 DEF Surjection
<1> QED
  BY <1>3, <1>9 DEF L

\* A lane is led by its strongest row.
LEMMA LeadFacts ==
  ASSUME TypeOK, NEW i \in Free
  PROVE  /\ Lead(i) \in Lane(i)
         /\ \A j \in Lane(i) : Lead(j) = Lead(i)
<1>1. /\ i \in Lane(i) /\ Lane(i) \subseteq Ids /\ IsFiniteSet(Lane(i))
      /\ Cardinality(Lane(i)) \in Nat
      /\ \A j \in Lane(i) : Lane(j) = Lane(i)
  BY LaneFacts
<1>2. 0 < Cardinality(Lane(i))
  BY <1>1, RoundType
<1>3. PICK l \in Lane(i) : Round(l) = 0
  BY <1>2, RowOfRound
<1>4. \A k \in Lane(i) \ {l} : Stronger(l, k)
  <2> SUFFICES ASSUME NEW k \in Lane(i), k # l, Stronger(k, l) PROVE FALSE
    BY <1>1, StrongerOrder
  <2>1. Round(k) < Round(l)
    BY RoundGrows
  <2>2. Round(k) \in Nat
    BY RoundType, LaneFacts
  <2> QED
    BY <1>3, <2>1, <2>2
<1>5. Lead(i) \in Lane(i)
  BY <1>4 DEF Lead
<1>6. \A j \in Lane(i) : Lead(j) = Lead(i)
  BY <1>1 DEF Lead
<1> QED
  BY <1>5, <1>6

\* Between two rows of one lane every other lane that still has a row after the
\* second has its turn: its row of the first one's round, if its lead is weaker,
\* or of the second one's, if it is stronger.
LEMMA FairIsRoundRobin ==
  ASSUME TypeOK
  PROVE  RoundRobin
<1> SUFFICES ASSUME mode = "fair", NEW i \in Free, NEW j \in Free,
                    items[i].by = items[j].by, Before(i, j),
                    NEW k \in Free \ Lane(i), Before(j, k)
             PROVE  \E l \in Lane(k) : Before(i, l) /\ Before(l, j)
  BY DEF RoundRobin
<1>1. \A a, b \in Free : Before(a, b) <=> FairBefore(a, b)
  BY DEF Before, ModeBefore, Free
<1>2. j \in Lane(i) /\ Lane(j) = Lane(i) /\ Lead(j) = Lead(i)
  <2>1. j \in Lane(i)
    BY DEF Lane
  <2> QED
    BY <2>1, LaneFacts, LeadFacts
<1>3. Lead(i) \in Ids /\ Lead(k) \in Ids /\ Lead(i) # Lead(k)
  <2>1. Lead(i) \in Lane(i) /\ Lead(k) \in Lane(k)
    BY LeadFacts
  <2>2. Lane(i) \subseteq Ids /\ Lane(k) \subseteq Ids
    BY LaneFacts
  <2>3. Lane(i) \cap Lane(k) = {}
    BY DEF Lane
  <2> QED
    BY <2>1, <2>2, <2>3
<1>4. Round(i) \in Nat /\ Round(j) \in Nat /\ Round(k) \in Nat
      /\ Round(k) < Cardinality(Lane(k)) /\ Cardinality(Lane(k)) \in Nat
  BY RoundType, LaneFacts
<1>5. Round(i) < Round(j)
  <2>1. ~Stronger(Lead(i), Lead(j))
    BY <1>2, <1>3, StrongerOrder
  <2> QED
    BY <1>1, <2>1 DEF FairBefore
<1>6. \/ Round(j) < Round(k)
      \/ Round(j) = Round(k) /\ Stronger(Lead(j), Lead(k))
  BY <1>1 DEF FairBefore
<1>7. \A l \in Lane(k) : l \in Free /\ Lead(l) = Lead(k)
  BY LaneFacts, LeadFacts
<1>8. CASE Stronger(Lead(i), Lead(k))
  <2>1. Round(i) < Cardinality(Lane(k))
    BY <1>4, <1>5, <1>6
  <2>2. PICK l \in Lane(k) : Round(l) = Round(i)
    BY <1>4, <2>1, RowOfRound
  <2>3. FairBefore(i, l) /\ FairBefore(l, j)
    BY <1>5, <1>7, <1>8, <2>2 DEF FairBefore
  <2> QED
    BY <1>1, <1>7, <2>3
<1>9. CASE Stronger(Lead(k), Lead(i))
  <2>1. Round(j) < Round(k)
    BY <1>2, <1>3, <1>6, <1>9, StrongerOrder
  <2>2. Round(j) < Cardinality(Lane(k))
    BY <1>4, <2>1
  <2>3. PICK l \in Lane(k) : Round(l) = Round(j)
    BY <1>4, <2>2, RowOfRound
  <2>4. FairBefore(i, l) /\ FairBefore(l, j)
    BY <1>2, <1>5, <1>7, <1>9, <2>3 DEF FairBefore
  <2> QED
    BY <1>1, <1>7, <2>4
<1> QED
  BY <1>3, <1>8, <1>9, StrongerOrder

\* In fair mode the list shown is a round-robin, whatever clients add and vote
\* and however far it has been played (order_up_next, fair_rotation).
THEOREM FairRotation == Spec => []RoundRobin
<1>1. Inv => RoundRobin
  BY FairIsRoundRobin DEF Inv
<1> QED
  BY <1>1, JukeboxInvariance, PTL

=============================================================================
