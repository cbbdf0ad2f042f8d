---------------------------- MODULE MCThresholdSign ----------------------------
(***************************************************************************)
(* Instances of ThresholdSign for TLC, over the integers modulo 5.         *)
(***************************************************************************)
EXTENDS ThresholdSign

MCBuild(kind, parties, log, revealed, maxOpen, execs) ==
  [kind |-> kind, parties |-> parties, log |-> log, revealed |-> revealed,
   maxOpen |-> maxOpen, execs |-> execs]

\* As many parties as there are points, or fewer; one, two or all parties but one open.
PassBuilds ==
  {MCBuild("standard", 5, 3, 1, 3, 1), MCBuild("standard", 5, 3, 2, 4, 1),
   MCBuild("standard", 4, 2, 3, 1, 1), MCBuild("standard", 3, 2, 1, 2, 2),
   MCBuild("nfpr", 5, 3, 2, 4, 1), MCBuild("nfpr", 4, 2, 2, 2, 1),
   MCBuild("nfpr", 3, 2, 1, 2, 2)}

\* Each equation has two solutions.
PassKeys == {[A |-> 3, b |-> 2, x |-> 4], [A |-> 1, b |-> 4, x |-> 2]}

PassUnif(s, x) == (2 + s + 3 * x) % Q
PassShare(s, x, p) ==
  [wit |-> (1 + s + 3 * p + x) % Q, unif |-> (3 + 2 * p + s * x) % Q, corr |-> (4 + p * p + x) % Q]
PassChallenges == {[gamma |-> 2, eps |-> 3], [gamma |-> 1, eps |-> 4]}
PassSize ==
  [digest |-> 32, salt |-> 32, plain |-> 7, br |-> 9, wit |-> 5, corr |-> 3, unif |-> 6]
=============================================================================
