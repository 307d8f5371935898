----------------------------- MODULE MCProgress -----------------------------
(***************************************************************************)
(* Four components that owe something in the end, side by side in one     *)
(* instance: the initial state chooses one of them, the others stay where  *)
(* they start. None of them touches what is another's, so the states are   *)
(* the union of theirs, and each property is checked on the part it is     *)
(* about.                                                                  *)
(*                                                                         *)
(*   "supervisor"  the configuration and the listeners     Supervisor      *)
(*   "sweep"       uploads, deletions and the orphan sweep Shares          *)
(*   "seeder"      the upload cap                          Seeder          *)
(*   "downloads"   the download queue and its worker       DownloadQueue   *)
(***************************************************************************)
EXTENDS Seeder, DownloadQueue, Supervisor

VARIABLES
  part,
  kinds, files, fresh, rows, up, del, sweep, fetch, exposed

Swp == INSTANCE Shares WITH
         Uploads <- {"u1", "u2"}, Deletes <- {"d"}, Fetches <- {}, Names <- {"n"},
         MaxCopies <- 1, Parts <- 1, Null <- None

shareVars == <<kinds, files, fresh, rows, up, del, sweep, fetch, exposed>>
partVars  == <<part, supVars, shareVars, seedVars, vars>>

\* Picked is the recursive SelectSeq, on sequences of up to four of three values.
ASSUME PickedIsSelected ==
  \A n \in 0..4, S \in SUBSET (1..3) : \A s \in [1..n -> 1..3] :
    Picked(s, {i \in DOMAIN s : s[i] \in S}) = SelectSeq(s, LAMBDA x : x \in S)

-----------------------------------------------------------------------------
\* The part p moves and no other.
Only(p) ==
  /\ part' = part
  /\ IF p = "supervisor" THEN TRUE ELSE UNCHANGED supVars
  /\ IF p = "sweep" THEN TRUE ELSE UNCHANGED shareVars
  /\ IF p = "seeder" THEN TRUE ELSE UNCHANGED seedVars
  /\ IF p = "downloads" THEN TRUE ELSE UNCHANGED vars

\* A part that is not chosen starts in one of its initial states.
ProgressInit ==
  /\ part \in {"supervisor", "sweep", "seeder", "downloads"}
  /\ part = "supervisor" \/ cfg = [bind |-> [game |-> "x", panel |-> "y"],
                                   path |-> "p1", mode |-> "m1"]
  /\ SupInit /\ Swp!PoolInit /\ SeedInit /\ Init

ProgressNext ==
  \/ part = "supervisor" /\ SupNext /\ Only("supervisor")
  \/ part = "sweep" /\ Swp!PoolNext /\ Only("sweep")
  \/ part = "seeder" /\ SeedNext /\ Only("seeder")
  \/ part = "downloads" /\ Next /\ Only("downloads")

\* The fairness that each module states, while it is the one that moves.
ProgressFairness ==
  /\ WF_partVars(part = "supervisor" /\ Rebind /\ Only("supervisor"))
  /\ \A h \in Requests :
       WF_partVars(part = "supervisor" /\ (ApplyMode(h) \/ SendRebinds(h))
                     /\ Only("supervisor"))
  /\ WF_partVars(part = "sweep" /\ Swp!SweepStart /\ Only("sweep"))
  /\ WF_partVars(part = "sweep" /\ Swp!SweepEnd /\ Only("sweep"))
  /\ \A s \in Swp!Stored :
       /\ SF_partVars(part = "sweep" /\ Swp!SweepEntry(s) /\ Only("sweep"))
       /\ SF_partVars(part = "sweep" /\ Swp!Age(s) /\ Only("sweep"))
  /\ WF_partVars(part = "seeder" /\ Pass /\ Only("seeder"))
  /\ \A r \in Getters : WF_partVars(part = "seeder" /\ Serve(r) /\ Only("seeder"))
  /\ \A c \in Callers : WF_partVars(part = "downloads" /\ Pump(c) /\ Only("downloads"))
  /\ \A w \in Workers : WF_partVars(part = "downloads" /\ Between(w) /\ Only("downloads"))

ProgressSpec == ProgressInit /\ [][ProgressNext]_partVars /\ ProgressFairness

-----------------------------------------------------------------------------
\* A service that was asked to move comes up, if the drains end
\* (Supervisor::start; stated in Supervisor).
ServiceComesUp == part = "supervisor" => ComesUp

\* What no row stands for does not stay on the drive (share_orphan_sweep;
\* stated in Shares).
OrphansSwept == Swp!OrphansSwept
=============================================================================
