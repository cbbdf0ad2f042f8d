--------------------------- MODULE MCSevenRoundSign ---------------------------
(***************************************************************************)
(* Instances of SevenRoundSign for TLC, over the integers modulo 5.        *)
(***************************************************************************)
EXTENDS SevenRoundSign

MCBuild(kind, parties, log, dim, execs) ==
  [kind |-> kind, parties |-> parties, log |-> log, dim |-> dim, execs |-> execs]
PassBuilds ==
  {MCBuild("traditional", 5, 3, 1, 1), MCBuild("hypercube", 8, 3, 1, 1),
   MCBuild("threshold", 5, 3, 1, 1), MCBuild("lifting", 8, 3, 2, 1),
   MCBuild("lifting", 4, 2, 1, 1), MCBuild("hypercube", 4, 2, 1, 2)}

PassKeys == {[A |-> 3, b |-> 2, x |-> 4]}
PassExpand(r, x, p) ==
  [wit  |-> (1 + r + 3 * p + 2 * p * p + x) % Q,
   unif |-> (2 + 2 * p + r * p * p + 3 * x) % Q,
   corr |-> (4 + r * p + p * p * p + x * p) % Q]
PassJunk == [wit |-> 2, unif |-> 1, corr |-> 3]
PassSize == [digest |-> 32, salt |-> 32, seed |-> 16, wit |-> 5, hint |-> 3, br |-> 7]
=============================================================================
