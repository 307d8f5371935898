------------------------------ MODULE ChunkSet ------------------------------
(***************************************************************************)
(* What a resume bitmap promises the download engine: a set of chunks that *)
(* survives a save and a load, and nothing about chunks that do not exist. *)
(* The engine's own module, Download, uses such a set.                     *)
(***************************************************************************)
EXTENDS Integers

CONSTANT Lens        \* chunk counts

VARIABLES len, have, kept   \* kept: what the persisted row stands for

Chunks == 0..len-1

ChunkInit == len \in Lens /\ have = {} /\ kept \in SUBSET Chunks

Gain == \E i \in Chunks : have' = have \cup {i} /\ UNCHANGED <<len, kept>>
Lose == \E i \in Chunks : have' = have \ {i} /\ UNCHANGED <<len, kept>>
Keep == kept' = have /\ UNCHANGED <<len, have>>
Recall == have' = kept /\ UNCHANGED <<len, kept>>

ChunkSpec == ChunkInit /\ [][Gain \/ Lose \/ Keep \/ Recall]_<<len, have, kept>>
=============================================================================
