--------------------------- MODULE MCNonLinearSign ---------------------------
(***************************************************************************)
(* Instances of NonLinearSign for TLC, over the field of the builds: both  *)
(* problems, every degree of the selector, every place in a ring of 7, and *)
(* rings a signer must refuse.                                             *)
(***************************************************************************)
EXTENDS NonLinearSign

MCKey(problem, n) ==
  IF problem = "mq" THEN MqKey(17, 101, 5 + 7 * n) ELSE SdKey(33, n % 2, 9 + 11 * n)
\* The ring of a signer at pos, and the one where another key is replaced.
MCRing(c, pos) == [p \in 0..(c.ring - 1) |-> PublicKey(MCKey(c.problem, IF p = pos THEN 0 ELSE p + 1))]
MCOther(ring, pos) ==
  [ring EXCEPT ![IF pos = 0 THEN Cardinality(DOMAIN ring) - 1 ELSE 0].y = F(@ + 1)]
MCBuild(kind, c, parties, log, execs, pos) ==
  [kind |-> kind, circuit |-> c, parties |-> parties, log |-> log, execs |-> execs,
   key |-> MCKey(c.problem, 0), ring |-> MCRing(c, pos), otherRing |-> MCOther(MCRing(c, pos), pos)]
MCMixed ==
  LET b == MCBuild("ring", Circuit("mq", 1, 3), 3, 2, 1, 1)
  IN  [b EXCEPT !.ring[2].tmpl.A = 18]

PassBuilds ==
  {MCBuild("mt", Circuit(p, 0, 1), 4, 2, 1, 0) : p \in {"mq", "sd"}}
  \cup {MCBuild("ggm", Circuit("mq", 0, 1), 3, 2, 2, 0), MCBuild("ggm", Circuit("sd", 0, 1), 5, 3, 1, 0)}
  \cup {MCBuild("ring", Circuit(p, 1, 3), 3, 2, 1, 2) : p \in {"mq", "sd"}}
  \cup {MCBuild("ring", Circuit("mq", 2, 7), 3, 2, 1, pos) : pos \in 0..6}
  \cup {MCBuild("ring", Circuit("sd", 2, 7), 4, 2, 1, 5)}
  \cup {MCBuild("ring", Circuit(p, 3, 11), 4, 2, 1, pos) : p \in {"mq", "sd"}, pos \in {5, 10}}
  \cup {MCBuild("ring", Circuit(p, 4, 17), 3, 2, 1, 16) : p \in {"mq", "sd"}}
  \cup {MCBuild("ring", Circuit("mq", 1, 252), 3, 2, 1, 0), MCMixed,
        [MCBuild("ring", Circuit("mq", 1, 3), 3, 2, 1, 1) EXCEPT !.key = MCKey("mq", 9)]}

PassRandom(x, p) ==
  LET r(j) == (7 + 31 * x + 57 * p * p + 13 * p + 83 * j + 5 * j * j * (p + 2)) % Q
  IN  [wit |-> [j \in 1..WitSize(circuit) |-> r(j)], unif |-> [j \in UnifIndex(circuit) |-> r(10 + j)]]
      @@ IF build.kind = "mt" THEN [dc |-> [j \in {0} |-> r(20)]]
         ELSE [sel |-> [j \in SelIndex(circuit) |-> r(30 + j)]]
PassGamma(n, j) == (19 + 101 * n + 37 * j + 11 * j * j) % Q
PassSize == [digest |-> 32, salt |-> 32, seed |-> 16, wit |-> 5, unif |-> 3, br |-> 7, dc |-> 2]
=============================================================================
