------------------------------ MODULE MCLibrary ------------------------------
(* Contents 1 and 2 have the same size, content 3 is longer. *)
EXTENDS Library

MCSize == [d \in Data |-> IF d = 3 THEN 2 ELSE 1]
=============================================================================
