----------------------------- MODULE MCPrgStream ------------------------------
(***************************************************************************)
(* Instances of PrgStream for TLC: blocks of four bytes, calls for less    *)
(* than a block up to more than two.                                       *)
(***************************************************************************)
EXTENDS PrgStream

PassLengths == 0..9
=============================================================================
