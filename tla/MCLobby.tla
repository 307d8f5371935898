------------------------------ MODULE MCLobby ------------------------------
(***************************************************************************)
(* The lobby in an instance TLC can finish. With one act of users and      *)
(* downloads, a machine has up to MaxConns sessions at a time; the further *)
(* ones, up to MaxActs, come only while there is one session at a time. A  *)
(* machine that starts in playback mode has nothing to seed yet.           *)
(***************************************************************************)
EXTENDS Lobby

Bounded == acts' <= 1 \/ Open' \subseteq {1}
Bare    == \A m \in Machines : cl[m].mode = "playback" => ~cl[m].share /\ cl[m].seeds = {}

MCInit == LobbyInit /\ Bare
MCNext == LobbyNext /\ Bounded
MCSpec == MCInit /\ [][MCNext]_lobbyVars
=============================================================================
