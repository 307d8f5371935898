--------------------------- MODULE MCJukeboxShares ---------------------------
(***************************************************************************)
(* The jukebox and the share pool side by side in one instance: the        *)
(* initial state chooses one part, the others stay where they start, so    *)
(* the states are the union of theirs. What the two have in common, that   *)
(* the deletion of a share takes its rows out of the queue, is an action   *)
(* of Jukebox (ShareDeleted) and the last step of a deletion here          *)
(* (DropRow).                                                              *)
(*                                                                         *)
(*   "jukebox"   the queue and its playback machines         Jukebox       *)
(*   "pool"      uploads, a deletion at a time, the sweep    Shares        *)
(*   "overlap"   the same with deletions that overlap, of    Shares        *)
(*               uploads of one file                                       *)
(*   "download"  uploads, a deletion at a time, downloads    Shares        *)
(*                                                                         *)
(* The server restarts in each. The sweep and a download do not meet here: *)
(* a download reads entries of rows only, and "pool" shows what the sweep  *)
(* leaves of those.                                                        *)
(***************************************************************************)
EXTENDS MCJukebox, Shares, TLC

VARIABLE part

\* Which playback machine, and which upload request, makes no difference.
StageSymmetry == Permutations(Players) \cup Permutations(Uploads)

OneFile(u) == up[u].pc = "open" => up[u].part = 0
Alone(d)   == \A e \in Deletes \ {d} : del[e] = NoDelete

PoolStep ==
  \/ \E u \in Uploads : \/ (part = "overlap" => OneFile(u)) /\ UploadStep(u)
                        \/ part = "overlap" /\ ~OneFile(u) /\ (Fail(u) \/ List(u))
  \/ \E d \in Deletes : (part = "overlap" \/ Alone(d)) /\ DeleteStep(d)
  \/ PoolRestart

StageInit == part \in {"jukebox", "pool", "overlap", "download"} /\ Init /\ PoolInit
StageNext ==
  /\ part' = part
  /\ \/ part = "jukebox" /\ Next /\ UNCHANGED poolVars
     \/ part # "jukebox" /\ PoolStep /\ UNCHANGED vars
     \/ part \in {"pool", "overlap"} /\ SweepStep /\ UNCHANGED vars
     \/ part = "download" /\ (\E f \in Fetches : FetchStep(f)) /\ UNCHANGED vars
StageSpec == StageInit /\ [][StageNext]_<<part, vars, poolVars>>
=============================================================================
