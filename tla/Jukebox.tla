------------------------------- MODULE Jukebox -------------------------------
(***************************************************************************)
(* The server's jukebox: the rows of jukebox_items and jukebox_votes, the  *)
(* state kept in memory beside them (jukebox.rs), the order of up-next     *)
(* (core jukebox.rs), the commands of clients, of the admin panel and of   *)
(* playback machines (data_api.rs, admin_api.rs), and the deletion of a    *)
(* share (share.rs).                                                       *)
(*                                                                         *)
(* A handler runs under the database and the jukebox lock and is one step. *)
(* What is not under these locks is a step of its own: a playback machine  *)
(* that leaves is taken from the registry first and what it was playing is *)
(* put back later; the end of a video is a message that may arrive late.   *)
(*                                                                         *)
(* A row's number also stands for the time it was added: a new row gets    *)
(* the number after the greatest one in the table.                         *)
(***************************************************************************)
EXTENDS Integers, FiniteSets

CONSTANTS
  Clients,    \* client ids: they contribute and vote
  AdminUser,  \* the contributor "@admin"
  Players,    \* playback machines (their sessions)
  MaxId,      \* bound: row numbers
  MaxQueue,   \* MAX_QUEUE_LEN (200 in the code)
  MaxRank,    \* bound: override ranks go down to -MaxRank
  Types       \* the item types of this instance

Ids == 1..MaxId
Ranks == (-MaxRank)..0
Nothing == 0
AllTypes == {"embedded", "external", "shared"}
Contributors == Clients \cup {AdminUser}

ASSUME JukeboxAssumption ==
  /\ MaxId \in Nat /\ MaxQueue \in Nat /\ MaxRank \in Nat
  /\ AdminUser \notin Clients /\ IsFiniteSet(Clients)
  /\ Types \subseteq AllTypes

\* A row; over is sort_override, 0 for NULL.  "none": there is no such row.
Item == [type : AllTypes, by : Contributors,
         state : {"none", "queued", "playing", "played"}, over : Ranks]
NoItem == [type |-> "embedded", by |-> AdminUser, state |-> "none", over |-> 0]

VARIABLES
  items,       \* jukebox_items
  votes,       \* jukebox_votes: who voted for a row
  mode,        \* the order mode
  nowPlaying,  \* now_playing: a row, or Nothing
  playback,    \* playback_state
  players,     \* playback sessions in the registry
  verified,    \* those that proved the admin password
  leaving,     \* last ones gone, with what they played still to be put back
  ended,       \* machines with an "ended" message on its way
  unattended,  \* history: what plays was started with no playback machine
  faulted      \* history: a database error cut a handler short

jbVars == <<items, votes, mode, nowPlaying, playback>>
sessionVars == <<players, verified, leaving, ended>>
vars == <<jbVars, sessionVars, unattended, faulted>>

Rows == {i \in Ids : items[i].state # "none"}
Queued == {i \in Ids : items[i].state = "queued"}
Playing == {i \in Ids : items[i].state = "playing"}

-----------------------------------------------------------------------------
(* The order of up-next. *)

Count(i) == Cardinality(votes[i])

\* More votes first, then the earlier one.
Stronger(i, j) == Count(i) > Count(j) \/ (Count(i) = Count(j) /\ i < j)

\* Rows the admin has not moved.
Free == {i \in Queued : items[i].over = 0}

Lane(i) == {j \in Free : items[j].by = items[i].by}

\* A contributor's rows are taken strongest first, one per round; the lanes
\* keep one order in every round, that of their strongest rows.
Round(i) == Cardinality({j \in Lane(i) : Stronger(j, i)})

Lead(i) == CHOOSE j \in Lane(i) : \A k \in Lane(i) \ {j} : Stronger(j, k)

\* Lanes ranked anew in every round, by the row whose turn it is.
FairBeforeReranked(i, j) ==
  Round(i) < Round(j) \/ (Round(i) = Round(j) /\ Stronger(i, j))
FairBefore(i, j) ==
  Round(i) < Round(j) \/ (Round(i) = Round(j) /\ Stronger(Lead(i), Lead(j)))

ModeBefore(i, j) ==
  \/ mode = "votes" /\ Stronger(i, j)
  \/ mode = "fair" /\ FairBefore(i, j)

\* Rows the admin moved come first, by rank, the others as the mode says.
Before(i, j) ==
  \/ items[i].over # 0 /\ items[j].over = 0
  \/ /\ items[i].over # 0 /\ items[j].over # 0
     /\ \/ items[i].over < items[j].over
        \/ items[i].over = items[j].over /\ i < j
  \/ items[i].over = 0 /\ items[j].over = 0 /\ ModeBefore(i, j)

IsFirst(i) == i \in Queued /\ \A j \in Queued \ {i} : Before(i, j)

\* One below the lowest rank in the queue, -1 when nothing was moved.
TopRankShared(r) ==
  /\ \A i \in Queued : r <= items[i].over
  /\ r = -1 \/ \E i \in Queued : items[i].over = r
TopRank(r) ==
  /\ r < 0 /\ \A i \in Queued : r < items[i].over
  /\ r = -1 \/ \E i \in Queued : items[i].over = r + 1

-----------------------------------------------------------------------------
(* The operations of the state machine. *)

StateOf(type) == IF type = "external" THEN "external" ELSE "embedded"

\* advance on a table where the current row is already marked played.
Promote(table) ==
  \/ /\ \A i \in Ids : table[i].state # "queued"
     /\ items' = table /\ nowPlaying' = Nothing /\ playback' = "idle"
     /\ unattended' = FALSE
  \/ \E i \in Ids :
       /\ IsFirst(i)
       /\ items' = [table EXCEPT ![i].state = "playing"]
       /\ nowPlaying' = i /\ playback' = StateOf(table[i].type)
       /\ unattended' = (players = {})

MarkNothing == items
MarkPlayed ==
  IF nowPlaying = Nothing THEN items
  ELSE [items EXCEPT ![nowPlaying].state = "played"]

\* advance: the current row is played, the first of up-next plays.  An error
\* before or after the first update leaves nothing playing and the playback
\* state as it was.
Advance ==
  \/ Promote(MarkPlayed) /\ UNCHANGED faulted
  \/ /\ nowPlaying # Nothing
     /\ items' \in {items, MarkPlayed}
     /\ nowPlaying' = Nothing
     /\ unattended' = FALSE /\ faulted' = TRUE
     /\ UNCHANGED playback

\* Rows that are deleted take their votes with them.
Delete(S) ==
  /\ items' = [i \in Ids |-> IF i \in S THEN NoItem ELSE items[i]]
  /\ votes' = [i \in Ids |-> IF i \in S THEN {} ELSE votes[i]]

Stopped ==
  /\ nowPlaying' = Nothing /\ playback' = "idle" /\ unattended' = FALSE

StopNever(S) == UNCHANGED <<nowPlaying, playback, unattended>>
StopIfCurrent(S) ==
  IF nowPlaying \in S THEN Stopped
  ELSE UNCHANGED <<nowPlaying, playback, unattended>>

-----------------------------------------------------------------------------
(* Clients. *)

NewId(i) == i \notin Rows /\ (\A j \in Rows : j < i) /\ (i = 1 \/ i - 1 \in Rows)

Insert(i, type, by, who) ==
  /\ NewId(i)
  /\ items' = [items EXCEPT ![i] =
                 [type |-> type, by |-> by, state |-> "queued", over |-> 0]]
  /\ votes' = [votes EXCEPT ![i] = who]
  /\ UNCHANGED <<mode, nowPlaying, playback, sessionVars, unattended, faulted>>

\* A client's own row starts with its vote; a full queue takes no more.
JukeboxAdd(c, type) ==
  /\ Cardinality(Queued) < MaxQueue
  /\ \E i \in Ids : Insert(i, type, c, {c})

JukeboxVote(c, i) ==
  /\ i \in Rows
  /\ votes' = [votes EXCEPT ![i] = IF c \in @ THEN @ \ {c} ELSE @ \cup {c}]
  /\ UNCHANGED <<items, mode, nowPlaying, playback, sessionVars, unattended,
                 faulted>>

-----------------------------------------------------------------------------
(* The admin panel. *)

AdminAdd(type) == \E i \in Ids : Insert(i, type, AdminUser, {})

\* Removing what plays moves on to the next row, or to nothing when that fails.
AdminRemove(i) ==
  LET table == [items EXCEPT ![i] = NoItem] IN
  /\ i \in Rows
  /\ votes' = [votes EXCEPT ![i] = {}]
  /\ \/ i = nowPlaying /\ Promote(table)
     \/ i = nowPlaying /\ items' = table /\ Stopped
     \/ i # nowPlaying /\ items' = table
          /\ UNCHANGED <<nowPlaying, playback, unattended>>
  /\ UNCHANGED <<mode, sessionVars, faulted>>

AdminTop(i) ==
  /\ i \in Rows
  /\ \E r \in Ranks : TopRank(r) /\ items' = [items EXCEPT ![i].over = r]
  /\ UNCHANGED <<votes, mode, nowPlaying, playback, sessionVars, unattended,
                 faulted>>

AdminNext == Advance /\ UNCHANGED <<votes, mode, sessionVars>>

AdminClear ==
  /\ Delete(Ids) /\ Stopped
  /\ UNCHANGED <<mode, sessionVars, faulted>>

AdminMode(m) ==
  /\ mode' = m
  /\ UNCHANGED <<items, votes, nowPlaying, playback, sessionVars, unattended,
                 faulted>>

\* A share is deleted: its rows go; what plays stops and nothing follows.
ShareDeleted ==
  LET S == {i \in Rows : items[i].type = "shared"} IN
  /\ S # {}
  /\ Delete(S) /\ StopIfCurrent(S)
  /\ UNCHANGED <<mode, sessionVars, faulted>>

-----------------------------------------------------------------------------
(* Playback machines. *)

\* Hello in playback mode, first or again: authority has to be proved anew.
PlayerHello(p) ==
  /\ p \notin leaving
  /\ players' = players \cup {p}
  /\ verified' = verified \ {p}
  /\ unattended' = FALSE
  /\ UNCHANGED <<jbVars, leaving, ended, faulted>>

PlayerAuth(p) ==
  /\ p \in players
  /\ verified' = verified \cup {p}
  /\ UNCHANGED <<jbVars, players, leaving, ended, unattended, faulted>>

\* External: the video a machine shows comes to its end; it says so.
VideoEnds(p) ==
  /\ p \in players /\ playback = "embedded" /\ nowPlaying # Nothing
  /\ ended' = ended \cup {p}
  /\ UNCHANGED <<jbVars, players, verified, leaving, unattended, faulted>>

\* The server takes the message; it does not say which row has ended.
JukeboxEnded(p) ==
  /\ p \in ended
  /\ ended' = ended \ {p}
  /\ IF p \in verified THEN Advance
     ELSE UNCHANGED <<items, nowPlaying, playback, unattended, faulted>>
  /\ UNCHANGED <<votes, mode, players, verified, leaving>>

JukeboxNext(p) ==
  /\ p \in verified
  /\ Advance
  /\ UNCHANGED <<votes, mode, sessionVars>>

LastVerifiedGone(p) == verified = {p}
LastGone(p) == players = {p}

\* A session ends: it leaves the registry, and the last one has work to do.
DisconnectKeepsAuth(p) ==
  /\ p \in players
  /\ players' = players \ {p}
  /\ ended' = ended \ {p}
  /\ leaving' = IF LastGone(p) THEN leaving \cup {p} ELSE leaving
  /\ UNCHANGED <<jbVars, verified, unattended, faulted>>
Disconnect(p) ==
  /\ p \in players
  /\ players' = players \ {p}
  /\ verified' = verified \ {p}
  /\ ended' = ended \ {p}
  /\ leaving' = IF LastGone(p) THEN leaving \cup {p} ELSE leaving
  /\ UNCHANGED <<jbVars, unattended, faulted>>

\* requeue_now_playing: back to the queue, in front of everything, or lost to
\* a database error.
RequeueNowPlaying(p) ==
  /\ p \in leaving
  /\ leaving' = leaving \ {p}
  /\ \/ /\ nowPlaying = Nothing
        /\ UNCHANGED <<items, nowPlaying, playback, unattended, faulted>>
     \/ /\ nowPlaying # Nothing
        /\ \E r \in Ranks :
             /\ TopRank(r)
             /\ items' = [items EXCEPT ![nowPlaying] =
                            [@ EXCEPT !.state = "queued", !.over = r]]
        /\ Stopped
        /\ UNCHANGED faulted
     \/ /\ nowPlaying # Nothing
        /\ nowPlaying' = Nothing /\ unattended' = FALSE /\ faulted' = TRUE
        /\ UNCHANGED <<items, playback>>
  /\ UNCHANGED <<votes, mode, players, verified, ended>>

\* The server starts again: sessions are gone, restore picks the row that plays.
Restore ==
  /\ players' = {} /\ verified' = {} /\ leaving' = {} /\ ended' = {}
  /\ \/ Playing = {} /\ Stopped
     \/ \E i \in Playing :
          /\ nowPlaying' = i /\ playback' = StateOf(items[i].type)
          /\ unattended' = TRUE
  /\ UNCHANGED <<items, votes, mode, faulted>>

-----------------------------------------------------------------------------
Init ==
  /\ items = [i \in Ids |-> NoItem] /\ votes = [i \in Ids |-> {}]
  /\ mode = "fair" /\ nowPlaying = Nothing /\ playback = "idle"
  /\ players = {} /\ verified = {} /\ leaving = {} /\ ended = {}
  /\ unattended = FALSE /\ faulted = FALSE

ClientStep ==
  \E c \in Clients :
    \/ \E type \in Types : JukeboxAdd(c, type)
    \/ \E i \in Ids : JukeboxVote(c, i)

AdminStep ==
  \/ \E type \in Types : AdminAdd(type)
  \/ \E i \in Ids : AdminRemove(i) \/ AdminTop(i)
  \/ AdminNext \/ AdminClear \/ ShareDeleted
  \/ \E m \in {"fair", "votes"} : AdminMode(m)

PlayerStep ==
  \E p \in Players :
    \/ PlayerHello(p) \/ PlayerAuth(p)
    \/ VideoEnds(p) \/ JukeboxEnded(p) \/ JukeboxNext(p)
    \/ Disconnect(p) \/ RequeueNowPlaying(p)

Next == ClientStep \/ AdminStep \/ PlayerStep \/ Restore

Spec == Init /\ [][Next]_vars

\* A session that is gone from the registry runs to its end.
FairSpec == Spec /\ \A p \in Players : WF_vars(RequeueNowPlaying(p))

-----------------------------------------------------------------------------
TypeOK ==
  /\ items \in [Ids -> Item]
  /\ votes \in [Ids -> SUBSET Clients]
  /\ mode \in {"fair", "votes"}
  /\ nowPlaying \in Ids \cup {Nothing}
  /\ playback \in {"idle", "embedded", "external"}
  /\ players \subseteq Players /\ verified \subseteq players
  /\ leaving \subseteq Players
  /\ ended \subseteq players
  /\ unattended \in BOOLEAN /\ faulted \in BOOLEAN

\* Whatever fails, what is shown as playing is a row that plays, in the state
\* of its type: "a DB error can never leave the contradictory now_playing=Some
\* + Idle combination" (advance).
PlayingIsReal ==
  nowPlaying # Nothing =>
    /\ items[nowPlaying].state = "playing"
    /\ playback = StateOf(items[nowPlaying].type)

\* Memory and table agree until a database error cuts a handler short: the row
\* that plays is the one in memory, and idle means that none does.  So a
\* restart goes on with what was playing.
MemoryMatchesTable ==
  ~faulted => /\ \A i \in Playing : i = nowPlaying
              /\ (playback = "idle") <=> (nowPlaying = Nothing)

\* Nothing is shown as playing once the last playback machine is gone: a
\* session that left will put it back, however departures interleave (ws_session).
NoPhantom ==
  nowPlaying # Nothing /\ players = {} => leaving # {} \/ unattended

\* A row put back because its machine left is the first to play again, ahead of
\* all that the admin had moved to the top.
RequeuedFirst ==
  [][\A p \in Players, i \in Ids :
       RequeueNowPlaying(p) /\ i = nowPlaying /\ items' # items => IsFirst(i)']_vars

\* In fair mode the list shown is a round-robin: between two rows of one
\* contributor comes a row of everyone who still has one after the second.
RoundRobin ==
  mode = "fair" =>
    \A i, j \in Free :
      items[i].by = items[j].by /\ Before(i, j) =>
        \A k \in Free \ Lane(i) :
          Before(j, k) => \E l \in Lane(k) : Before(i, l) /\ Before(l, j)

\* No contributor plays "back-to-back ... while others still had items queued"
\* (fair_rotation): with nothing moved by the admin, the next row to play is
\* not by the contributor whose row has just played.
NoHogging ==
  [][(/\ mode = "fair" /\ nowPlaying # Nothing /\ Free = Queued
      /\ \E j \in Queued : items[j].by # items[nowPlaying].by
      /\ AdminNext /\ nowPlaying' # Nothing)
       => items'[nowPlaying'].by # items[nowPlaying].by]_vars

=============================================================================
