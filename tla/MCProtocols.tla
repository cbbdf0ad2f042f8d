------------------------------ MODULE MCProtocols ------------------------------
(***************************************************************************)
(* Every scheme on small dimensions over a field it is built with, with    *)
(* randomness spread over that field and, where a draw can be rejected, a  *)
(* draw to reject first.                                                   *)
(***************************************************************************)
EXTENDS Protocols, Problems

Rn(s, i) == ((s * 7919 + i * 10473 + i * i * 311 + 97 * s * i) % 65521) \div 7
GEl(g, s, i) == IF g.p # 2 THEN Rn(s, i) % g.p ELSE {b \in 0..(g.m - 1) : Rn(s + b, i + 3 * b) % 2 = 1}
El(F, s) == Tuple([i \in 1..F.dim |-> GEl(F.g, s, i)])
Arr(F, s, n) == Tuple([i \in 1..n |-> El(F, s + i)])
Arrs(F, s, n, k) == Tuple([i \in 1..n |-> Arr(F, s + 17 * i, k)])

Members == <<"s", "x", "a", "b", "c", "q_poly", "p_poly", "s_A", "pt", "t", "beta",
             "mat_T", "mat_R", "A", "K", "alpha", "C", "x_A", "x2">>
Member(m) == CHOOSE i \in DOMAIN Members : Members[i] = m
MCMask(g, i, m, k, e) ==
  LET x == GEl(g, 40 * i + Member(m), 7 * k + e)
  IN IF g = Aim128 THEN {b \in x : b % 5 = i} ELSE x
\* An even number, as in the signatures: with the three parties of the unit
\* tests, a term added to every share instead of one goes unnoticed over GF(2).
MCParties == 1..4

Biscuit ==
  LET F == Ground(Gf16) IN
  [P |-> [name |-> "biscuit", F |-> F, n |-> 3, m |-> 2],
   draw |-> [s |-> Arr(F, 1, 3), f |-> Arrs(F, 2, 2, 9)],
   unif |-> [a |-> Arr(F, 3, 2)], ch |-> [eps |-> Arr(F, 4, 2)]]
Mqom(F, n1, n2, last) ==
  LET B == Ground(F.g)  n == n1 * (n2 - 1) + last IN
  [P |-> [name |-> "mqom", F |-> F, n |-> n, n1 |-> n1, n2 |-> n2, last |-> last, m |-> 2],
   draw |-> [x |-> Arr(B, 1, n), A |-> Arrs(B, 2, 2, (n * (n + 1)) \div 2), b |-> Arrs(B, 3, 2, n)],
   unif |-> [a |-> Arr(F, 5, n2)], ch |-> [gamma |-> Arr(F, 7, 2), r |-> <<Elem(F, <<1>>), El(F, 9)>>]]
Sdith(F, d, m, w, t, k) ==
  LET B == Ground(F.g) IN
  [P |-> [name |-> "sdith", F |-> F, d |-> d, m |-> m, w |-> w, t |-> t, k |-> k],
   draw |-> [chunks |-> Tuple([h \in 1..d |->
               [bytes |-> Tuple(<<200, h, h>> \o [i \in 1..9 |-> (i + h) % (m + 1)]),
                coords |-> Tuple(<<Zero(B)>> \o [i \in 1..w |-> Elem(B, <<i + 7 * h>>)])]]),
             mat_H |-> Arr(B, 2, k * (d * m - k))],
   unif |-> [a |-> Arr(F, 5, d * t), b |-> Arr(F, 21, d * t)],
   ch |-> [eps |-> Arr(F, 31, d * t), eval |-> Arr(F, 77, t)]]
Aimer ==
  LET g == Aim128  F == Ground(g)
      few(s) == {b \in 0..127 : Rn(s + b, 3 * b) % 13 = 1}
      rows(s, up) == Tuple([i \in 1..128 |-> {i - 1} \cup {e \in few(s + i) : IF up THEN e < i - 1 ELSE e > i - 1}])
  IN [P |-> [name |-> "aimer", F |-> F, A |-> [g |-> g, first |-> <<3, 27>>, last |-> 5]],
      draw |-> [pt |-> <<few(3)>>, lower |-> <<rows(1, FALSE), rows(2, FALSE)>>,
                upper |-> <<rows(3, TRUE), rows(4, TRUE)>>, vector_b |-> few(9)],
      unif |-> [a |-> <<<<few(11)>>>>], ch |-> [eps |-> Tuple([i \in 1..3 |-> <<few(12 + i)>>])]]

Rd(pure) ==
  LET F == Ground(Gf16) IN
  [P |-> [name |-> "rd", pure |-> pure, F |-> F, n |-> 3, m |-> 4, k |-> 2, r |-> 2, eta |-> 2],
   draw |-> [x |-> Arr(F, 1, 2), mat_T |-> Arr(F, 5, 6), mat_R |-> Arr(F, 15, 8), mats |-> Arr(F, 30, 24)],
   unif |-> IF pure THEN [a |-> Arr(F, 61, 4), b |-> Arr(F, 71, 4)] ELSE [a |-> Arr(F, 61, 4)],
   ch |-> [eps |-> Arr(F, 81, 8), eps_a |-> Arr(F, 91, 6), eps_b |-> Arr(F, 101, 8)]]
\* The first family is not free.
Families(F) == <<<<El(F, 3), Add(F, El(F, 3), El(F, 3))>>, <<El(F, 4), El(F, 5)>>>>
MinrankLp ==
  LET F == Gf251to12  B == Base(F) IN
  [P |-> [name |-> "minrank_lp", F |-> F, k |-> 2, r |-> 2, eta |-> 2],
   draw |-> [families |-> Families(F), comb |-> Arr(B, 9, 6), x |-> Arr(B, 1, 2), mats |-> Arr(B, 30, 72)],
   unif |-> [a |-> Arr(F, 61, 4)], ch |-> [gamma |-> Arr(F, 71, 6), eps |-> Arr(F, 81, 2)]]
RanksdLp ==
  LET F == Ground(Gf2to31) IN
  [P |-> [name |-> "ranksd_lp", F |-> F, n |-> 4, k |-> 2, r |-> 2, eta |-> 1],
   draw |-> [families |-> Families(F), mat_H |-> Arr(F, 30, 4),
             comb |-> Tuple([i \in 1..8 |-> <<IF Rn(9, i) % 2 = 1 THEN {0} ELSE {}>>])],
   unif |-> [a |-> Arr(F, 61, 2)], ch |-> [gamma |-> Arr(F, 71, 4), eps |-> Arr(F, 81, 1)]]
RanksdRd ==
  LET F == Ground(BinaryField(32, {}, "rows", {}))  G == Ground(Gf2to31) IN
  [P |-> [name |-> "ranksd_rd", F |-> F, G |-> G, n |-> 3, m |-> 31, k |-> 1, r |-> 2, eta |-> 5],
   draw |-> [mat_T |-> <<<<{7, 3}>>, <<{7, 6}>>, <<{6, 1}>>>>, mat_R |-> Arr(F, 15, 2), mat_H |-> Arr(G, 30, 2)],
   unif |-> [a |-> Arr(F, 61, 2)], ch |-> [eps |-> CleanRows(Arr(F, 81, 31), 5)]]
Mira ==
  LET F == Mira128  B == Base(F) IN
  [P |-> [name |-> "mira", F |-> F, n |-> 2, k |-> 3, r |-> 2, eta |-> 1],
   draw |-> [support |-> Arr(B, 1, 28), coordinates |-> Arr(B, 41, 4), B |-> Arr(B, 51, 3),
             mats |-> Arr(B, 60, 87)],
   unif |-> [a |-> Arr(F, 61, 2)], ch |-> [gamma |-> Arr(F, 71, 2), eps |-> Arr(F, 81, 1)]]
Mirith ==
  LET F == Ground(Gf16) IN
  [P |-> [name |-> "mirith", F |-> F, n |-> 4, m |-> 3, k |-> 2, r |-> 2, s |-> 2],
   draw |-> [alpha |-> Arr(F, 1, 2), K |-> Arr(F, 5, 4), E_R |-> Arr(F, 15, 6), Mi |-> Arr(F, 30, 24)],
   unif |-> [A |-> Arr(F, 61, 4)], ch |-> [R |-> Arr(F, 81, 6)]]
Ryde ==
  LET F == Ground(Rbc31) IN
  [P |-> [name |-> "ryde", F |-> F, n |-> 5, k |-> 2, w |-> 3],
   draw |-> [supports |-> <<<<{4}, {0, 4}>>, <<{1, 30}, {2, 7, 30}>>>>, mat_H |-> Arrs(F, 30, 3, 2),
             bytes |-> Tuple([i \in 1..24 |-> Rn(5, i) % 256])],
   unif |-> [a |-> Arr(F, 61, 2)], ch |-> [gamma |-> Arr(F, 71, 5), eps |-> El(F, 81)]]

MCCases == <<Biscuit, Mqom(Gf251to2, 2, 3, 1), Mqom(Gf31to6, 3, 2, 2),
             Sdith(Gf251to2, 2, 4, 2, 2, 5), Sdith(Gf2to16, 1, 5, 3, 1, 3), Aimer,
             Rd(FALSE), Rd(TRUE), MinrankLp, RanksdLp, RanksdRd, Mira, Mirith, Ryde>>
MCInverts(S) == ProblemHasInverse(S) /\ ~(S.name = "rd" /\ S.pure)
\* The unit test of the protocols finds every share again.
BeaverCases == <<Rd(TRUE)>>
=============================================================================
