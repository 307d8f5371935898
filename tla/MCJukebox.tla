------------------------------ MODULE MCJukebox ------------------------------
(* Instances of Jukebox for TLC. *)
EXTENDS Jukebox

\* Every full queue of the clients, whoever voted for what, played to its end.
FullQueue ==
  /\ items \in [Ids -> {[type |-> "embedded", by |-> c, state |-> "queued",
                         over |-> 0] : c \in Clients}]
  /\ votes \in [Ids -> SUBSET Clients]
  /\ mode = "fair" /\ nowPlaying = Nothing /\ playback = "idle"
  /\ players = {} /\ verified = {} /\ leaving = {} /\ ended = {}
  /\ unattended = FALSE /\ faulted = FALSE
=============================================================================
