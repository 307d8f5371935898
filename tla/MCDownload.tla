----------------------------- MODULE MCDownload -----------------------------
(* A title of two files; version 2 shortens the first one. *)
EXTENDS Download

CONSTANTS
  Size,    \* positions of version 1
  SizeA    \* how many of them make up the first file

MCPositions == 1..Size
MCFileOf == [p \in MCPositions |-> IF p <= SizeA THEN "a" ELSE "b"]
MCLayout == [v \in 1..MaxVer |-> IF v = 1 THEN MCPositions
                                          ELSE MCPositions \ {SizeA}]
=============================================================================
