---------------------------- MODULE MCAdditiveSign ----------------------------
(***************************************************************************)
(* Instances of AdditiveSign for TLC, over the integers modulo 5.          *)
(***************************************************************************)
EXTENDS AdditiveSign

MCBuild(kind, parties, log, dim, execs) ==
  [kind |-> kind, parties |-> parties, log |-> log, dim |-> dim, execs |-> execs]

\* The number of parties after the last group of four is 1, 2, 3 and 4; the edges of
\* the lifting have sizes 4, 4 by 2, and 2 by 2.
PassBuilds ==
  {MCBuild("traditional", 4, 2, 1, 1), MCBuild("traditional", 5, 3, 1, 1),
   MCBuild("traditional", 6, 3, 1, 1), MCBuild("traditional", 7, 3, 1, 1),
   MCBuild("hypercube", 4, 2, 1, 1), MCBuild("hypercube", 8, 3, 1, 1),
   MCBuild("threshold", 4, 2, 1, 1), MCBuild("threshold", 5, 3, 1, 1),
   MCBuild("lifting", 4, 2, 1, 1), MCBuild("lifting", 4, 2, 2, 1),
   MCBuild("lifting", 8, 3, 2, 1),
   MCBuild("traditional", 5, 3, 1, 2), MCBuild("threshold", 4, 2, 1, 2)}

MCKey(A, b, x) == [A |-> A, b |-> b, x |-> x]
PassKeys == {MCKey(3, 2, 4), MCKey(1, 4, 2)}

PassExpand(r, x, p) ==
  [wit  |-> (1 + r + 3 * p + 2 * p * p + x) % Q,
   unif |-> (2 + 2 * p + r * p * p + 3 * x) % Q,
   corr |-> (4 + r * p + p * p * p + x * p) % Q]
PassJunk == [wit |-> 2, unif |-> 1, corr |-> 3]

PassChallenges == {[gamma |-> 2, eps |-> 3], [gamma |-> 1, eps |-> 4]}

PassSize == [digest |-> 32, salt |-> 32, seed |-> 16, wit |-> 5, corr |-> 3, br |-> 7]
=============================================================================
