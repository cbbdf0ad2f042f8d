------------------------------ MODULE MCSeedTree ------------------------------
(***************************************************************************)
(* Instances of SeedTree for TLC.                                          *)
(***************************************************************************)
EXTENDS SeedTree

\* Every number of leaves from 4 to 20, 31 to 33, with the height of a parameter
\* set and with the two next to it, which malloc_seed_tree refuses.
PassShapes == {2, 3, 4, 5, 6} \X (4..20 \cup 31..33)
=============================================================================
