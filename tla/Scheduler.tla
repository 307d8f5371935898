------------------------------ MODULE Scheduler ------------------------------
(***************************************************************************)
(* Which source each missing chunk of a batch is asked from: assign in     *)
(* crates/core/src/p2p.rs, one step for each turn of its loop. The         *)
(* download engine calls it once for a batch (downloads.rs).               *)
(*                                                                         *)
(* peers[p]  the peer p as the batch starts: reachable or not, flagged     *)
(*           server-only or not, its measured rate, the chunks it holds    *)
(* vt[s]     the virtual time of the source s, in units of 1 / Scale       *)
(* given     the sources given out so far, chunk by chunk                  *)
(*                                                                         *)
(* The server is source 0 and holds every chunk; peers keep the order they *)
(* are passed in. Rates are small whole numbers in place of bytes/s.       *)
(***************************************************************************)
EXTENDS Integers, Sequences

CONSTANTS
  NumPeers, NumChunks,
  Rates,         \* measured rates
  Unmeasured,    \* no chunk came from the peer yet
  Floor,         \* peer_floor_bps
  ServerWeight,  \* server_weight
  Bootstrap,     \* bootstrap_weight
  Scale          \* a common multiple of the weights

Positive == Nat \ {0}
ASSUME CountAssumption == NumPeers \in Nat /\ NumChunks \in Nat
ASSUME WeightAssumption ==
  /\ Rates \subseteq Nat /\ Unmeasured \notin Rates /\ Floor \in Positive
  /\ ServerWeight \in 1..Scale /\ Bootstrap \in 1..Scale /\ Scale \in Positive
  /\ \A r \in Rates : r <= Scale

VARIABLES peers, vt, given

schedVars == <<peers, vt, given>>

Server   == 0
PeerIds  == 1..NumPeers
Sources  == 0..NumPeers
ChunkIds == 1..NumChunks
Peer == [reachable : BOOLEAN, serverOnly : BOOLEAN, rate : Rates \cup {Unmeasured},
         have : SUBSET ChunkIds]

-----------------------------------------------------------------------------
Eligible(p) ==
  /\ peers[p].reachable /\ ~peers[p].serverOnly
  /\ peers[p].rate = Unmeasured \/ peers[p].rate >= Floor

Weight(s) == IF s = Server THEN ServerWeight
             ELSE IF peers[s].rate = Unmeasured THEN Bootstrap ELSE peers[s].rate

\* How far a chunk moves the clock of its source.
Cost(s) == Scale \div Weight(s)

Usable(s) == s = Server \/ Eligible(s)

Holders(c) == {Server} \cup {p \in PeerIds : Eligible(p) /\ c \in peers[p].have}

\* The least clock wins, the server and then the earlier peer on a tie.
Fastest(c) ==   \* mutant: by rate alone
  CHOOSE s \in Holders(c) : \A t \in Holders(c) :
    Weight(s) > Weight(t) \/ (Weight(s) = Weight(t) /\ s <= t)
Best(c) ==
  CHOOSE s \in Holders(c) : \A t \in Holders(c) :
    vt[s] < vt[t] \/ (vt[s] = vt[t] /\ s <= t)

AssignNext ==
  /\ Len(given) < NumChunks
  /\ LET s == Best(Len(given) + 1)
     IN /\ given' = Append(given, s)
        /\ vt' = [vt EXCEPT ![s] = @ + Cost(s)]
  /\ UNCHANGED peers

SchedInit == /\ peers \in [PeerIds -> Peer]
             /\ vt = [s \in Sources |-> 0]
             /\ given = <<>>

SchedSpec == SchedInit /\ [][AssignNext]_schedVars

-----------------------------------------------------------------------------
SchedTypeOK ==
  /\ peers \in [PeerIds -> Peer]
  /\ vt \in [Sources -> Nat]
  /\ given \in Seq(Sources)

\* A source that could have served every chunk of the batch so far.
Universal(s) == /\ Usable(s)
                /\ s # Server => \A c \in 1..Len(given) : c \in peers[s].have

\* No source gets more than one chunk ahead of its share, measured against any
\* source that could have taken its place: the server is never starved by
\* peers, fast peers get more in proportion, a peer that holds everything is not
\* passed over for a slower one (assign, "A source with twice the weight is
\* picked ~twice as often"). An unusable peer gets none.
FairShare ==
  \A s \in Sources :
    IF Usable(s) THEN \A t \in Sources : Universal(t) => vt[s] <= vt[t] + Cost(s)
                 ELSE vt[s] = 0
=============================================================================
