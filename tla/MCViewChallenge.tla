--------------------------- MODULE MCViewChallenge ----------------------------
(***************************************************************************)
(* Instances of ViewChallenge for TLC.                                     *)
(***************************************************************************)
EXTENDS ViewChallenge

Setting(sets, size, parties, log) ==
  [sets |-> sets, size |-> size, parties |-> parties, log |-> log]

\* One hidden party of several repetitions, as in the schemes on additive sharings;
\* three open parties, as in those on threshold sharings; all the parties; numbers
\* of parties that are a power of two or not, down to the least of a height.
PassSettings ==
  {Setting(3, 1, 4, 2), Setting(3, 1, 5, 3), Setting(2, 3, 4, 2), Setting(2, 3, 5, 3),
   Setting(1, 4, 6, 3), Setting(2, 2, 2, 1), Setting(1, 3, 3, 2)}
=============================================================================
