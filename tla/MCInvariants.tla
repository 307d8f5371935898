---------------------------- MODULE MCInvariants ----------------------------
(***************************************************************************)
(* Six components with safety properties alone, side by side in one        *)
(* instance: the initial state chooses one of them, the others stay where  *)
(* they start. None of them touches what is another's, so the states are   *)
(* the union of theirs, and each property is checked on the part it is     *)
(* about.                                                                  *)
(*                                                                         *)
(*   "lobby"     the registry and the websocket loops        MCLobby       *)
(*   "sessions"  the admin's password, sessions and throttle AdminSessions *)
(*   "order"     full up-next queues played to their end     Jukebox       *)
(*   "bitmap"    the resume bitmap                           Bitmap        *)
(*   "batch"     the sources of a batch of chunks            Scheduler     *)
(*   "locks"     the order in which handlers take the locks  Locks         *)
(***************************************************************************)
EXTENDS MCLobby, Bitmap, Scheduler, AdminSessions, Locks, MCJukebox

VARIABLE part

partVars == <<part, lobbyVars, admVars, vars, bitVars, schedVars, at>>

-----------------------------------------------------------------------------
\* The part p moves and no other.
Only(p) ==
  /\ part' = part
  /\ IF p = "lobby" THEN TRUE ELSE UNCHANGED lobbyVars
  /\ IF p = "sessions" THEN TRUE ELSE UNCHANGED admVars
  /\ IF p = "order" THEN TRUE ELSE UNCHANGED vars
  /\ IF p = "bitmap" THEN TRUE ELSE UNCHANGED bitVars
  /\ IF p = "batch" THEN TRUE ELSE UNCHANGED schedVars
  /\ IF p = "locks" THEN TRUE ELSE UNCHANGED at

\* A part that is not chosen starts in one of its initial states.
PartsInit ==
  /\ part \in {"lobby", "sessions", "order", "bitmap", "batch", "locks"}
  /\ part = "lobby" \/ cl = [m \in Machines |-> CHOOSE x \in Fresh : x.mode = "client"]
  /\ MCInit
  /\ AdmInit
  /\ IF part = "order" THEN FullQueue ELSE Init
  /\ part = "bitmap" \/ (len = 0 /\ blob = <<>>)
  /\ BitInit
  /\ part = "batch" \/ peers = [p \in PeerIds |->
       [reachable |-> FALSE, serverOnly |-> FALSE, rate |-> Unmeasured, have |-> {}]]
  /\ SchedInit
  /\ LockInit

PartsNext ==
  \/ part = "lobby" /\ MCNext /\ Only("lobby")
  \/ part = "sessions" /\ AdmNext /\ Only("sessions")
  \/ part = "order" /\ AdminNext /\ Only("order")
  \/ part = "bitmap" /\ BitNext /\ Only("bitmap")
  \/ part = "batch" /\ AssignNext /\ Only("batch")
  \/ part = "locks" /\ LockNext /\ Only("locks")

PartsSpec == PartsInit /\ [][PartsNext]_partVars

=============================================================================
