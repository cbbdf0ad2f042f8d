---------------------------- MODULE RankProtocols ----------------------------
(***************************************************************************)
(* The multiparty protocols of minrank (rank decomposition with products   *)
(* checked by masks or by Beaver triples, linearized polynomials, mira,    *)
(* mirith) and of rank syndrome decoding (linearized polynomials, rank     *)
(* decomposition, ryde), with the conventions of AlgebraicProtocols.  A    *)
(* matrix over the ground field is the sequence of its entries, row by row *)
(* unless said otherwise.                                                  *)
(***************************************************************************)
EXTENDS AlgebraicProtocols

VecNeg(F, a) == VecSub(F, Zeros(F, Len(a)), a)
\* A B, with A of n columns and B of p.
Product(F, A, B, n, p) ==
  LET zeros == Sets_(Zeros(F, (Len(A) \div n) * p))
  IN Elems(Tuple(MatMult(F.g, zeros, Sets_(A), Sets_(B), n, p)))
\* A public vector, on one share only.
Public(F, a, offset) == IF offset THEN a ELSE Zeros(F, Len(a))
\* M_0 + sum_i x_i M_i
RankE(F, inst, x, offset) ==
  VecAdd(F, Public(F, inst.m0, offset), ByColumns(F, inst.mats, x, Len(inst.m0)))
\* (x_A | y + H x_A)
RankWord(F, inst, x_A, offset) ==
  x_A \o VecAdd(F, Public(F, inst.y, offset), ByColumns(F, inst.mat_H, x_A, Len(inst.y)))

-----------------------------------------------------------------------------
(* minrank, E = T R.  P.pure: the product is checked with the triple       *)
(* (a, b, a b) after E has been multiplied by a random matrix on each      *)
(* side; otherwise by a random matrix eps on the right only.               *)

RdCorrelated(P, wit, unif, inst) ==
  [c |-> IF P.pure THEN Product(P.F, unif.a, unif.b, P.r, P.eta)
                   ELSE Product(P.F, wit.mat_T, unif.a, P.r, P.eta)]
\* What v is without its mask c; E is the share of the matrix.
RdCheck(P, ch, share, plain, E) ==
  VecSub(P.F, Product(P.F, share.mat_T, plain.alpha, P.r, P.eta), Product(P.F, E, ch.eps, P.m, P.eta))
BeaverCheck(P, ch, a, b, plain, E) ==
  VecAdd(P.F, VecAdd(P.F, Product(P.F, plain.alpha, b, P.r, P.eta), Product(P.F, a, plain.beta, P.r, P.eta)),
         Product(P.F, ch.eps_a, Product(P.F, E, ch.eps_b, P.m, P.eta), P.n, P.eta))
\* The product of the public matrices is added into every share.
BeaverProductEverywhere(P, plain, offset) == Product(P.F, plain.alpha, plain.beta, P.r, P.eta)
BeaverProduct(P, plain, offset) == Public(P.F, Product(P.F, plain.alpha, plain.beta, P.r, P.eta), offset)
RdRun(P, ch, share, plain, inst, offset, entire) ==
  LET F == P.F  E == RankE(F, inst, share.x, offset)
  IN IF P.pure
     THEN [alpha |-> VecAdd(F, share.a, Product(F, ch.eps_a, share.mat_T, P.n, P.r)),
           beta  |-> VecAdd(F, share.b, Product(F, share.mat_R, ch.eps_b, P.m, P.eta)),
           v     |-> IF ~entire THEN Zeros(F, P.eta * P.eta)
                     ELSE VecSub(F, BeaverCheck(P, ch, share.a, share.b, plain, E),
                                 VecAdd(F, share.c, BeaverProduct(P, plain, offset)))]
     ELSE [alpha |-> VecAdd(F, share.a, Product(F, share.mat_R, ch.eps, P.m, P.eta)),
           v     |-> IF ~entire THEN Zeros(F, P.n * P.eta)
                     ELSE VecSub(F, RdCheck(P, ch, share, plain, E), share.c)]
\* With the triple, the product of alpha and beta goes into every share.
RdInverse(P, ch, share, broadcast, plain, inst, offset) ==
  LET F == P.F  E == RankE(F, inst, share.x, offset)
      a == VecSub(F, broadcast.alpha, Product(F, ch.eps_a, share.mat_T, P.n, P.r))
      b == VecSub(F, broadcast.beta, Product(F, share.mat_R, ch.eps_b, P.m, P.eta))
  IN IF P.pure
     THEN [a |-> a, b |-> b,
           c |-> VecSub(F, BeaverCheck(P, ch, a, b, plain, E),
                        VecAdd(F, broadcast.v, BeaverProduct(P, plain, TRUE)))]
     ELSE [a |-> VecSub(F, broadcast.alpha, Product(F, share.mat_R, ch.eps, P.m, P.eta)),
           c |-> VecSub(F, RdCheck(P, ch, share, plain, E), broadcast.v)]
RdKey(P, draw) ==
  LET E == Product(P.F, draw.mat_T, draw.mat_R, P.r, P.m)
  IN [sol  |-> [x |-> draw.x, mat_T |-> draw.mat_T, mat_R |-> draw.mat_R],
      inst |-> [mats |-> draw.mats, m0 |-> VecSub(P.F, E, ByColumns(P.F, draw.mats, draw.x, P.n * P.m))]]
RdIsCorrect(P, inst, sol) == RankE(P.F, inst, sol.x, TRUE) = Product(P.F, sol.mat_T, sol.mat_R, P.r, P.m)

-----------------------------------------------------------------------------
(* Linearized polynomials: the rows of E, or the entries of the word, are  *)
(* roots of x^(q^r) + sum_i beta_i x^(q^i).  alpha and a are of r rows of  *)
(* eta elements, gamma of one row for each root.                           *)

PowQ(F, e)  == IF F.dim = 1 THEN <<Gf2to31Squ(e[1])>> ELSE Frobenius(F, e)
InverseOf(F, e) == IF F.dim = 1 THEN <<Gf2to31Inv(e[1])>> ELSE Inverse(F, e)
RECURSIVE PowQTo(_, _, _)
PowQTo(F, e, i) == IF i = 0 THEN e ELSE PowQ(F, PowQTo(F, e, i - 1))
\* sum_j gamma_jk e_j^(q^i)
LpBatch(P, ch, e, k, i) ==
  SumOf(P.F, Tuple([j \in 1..Len(e) |-> Mul(P.F, ch.gamma[P.eta * (j - 1) + k], PowQTo(P.F, e[j], i))]), Len(e))
LpOpen(P, share, plain, k) ==
  SumOf(P.F, Tuple([i \in 1..P.r |-> Mul(P.F, plain.alpha[P.eta * (i - 1) + k], share.beta[i])]), P.r)
LpColumn(P, k) == ((k - 1) % P.eta) + 1
\* w eps, and - z eps - sum_i alpha_i beta_i.
LpMasked(P, ch, e) ==
  Tuple([k \in 1..(P.r * P.eta) |->
           Mul(P.F, LpBatch(P, ch, e, LpColumn(P, k), (k - 1) \div P.eta), ch.eps[LpColumn(P, k)])])
LpCheck(P, ch, share, plain, e) ==
  Tuple([k \in 1..P.eta |->
    Sub(P.F, Zero(P.F), Add(P.F, Mul(P.F, LpBatch(P, ch, e, k, P.r), ch.eps[k]), LpOpen(P, share, plain, k)))])
LpBroadcast(P, ch, share, plain, e, entire) ==
  [alpha |-> VecAdd(P.F, LpMasked(P, ch, e), share.a),
   v     |-> IF ~entire THEN Zeros(P.F, P.eta) ELSE VecSub(P.F, LpCheck(P, ch, share, plain, e), share.c)]
LpCorrelated(P, wit, unif, inst) ==
  [c |-> VecNeg(P.F, Tuple([k \in 1..P.eta |-> LpOpen(P, wit, [alpha |-> unif.a], k)]))]
LpVanishes(P, beta, e) ==
  Zero(P.F) = SumOf(P.F, Tuple([i \in 1..(P.r + 1) |->
    IF i > P.r THEN PowQTo(P.F, e, P.r) ELSE Mul(P.F, beta[i], PowQTo(P.F, e, i - 1))]), P.r + 1)

(* The polynomial of a family: row i of g is g_i, g_i^q, ..., g_i^(q^r).   *)
(* A zero pivot says that the family has not full rank: it is drawn again. *)
RECURSIVE LpReduce(_, _, _), LpBack(_, _, _), LpFamily(_, _, _)
LpReduce(F, g, i) ==
  IF i > Len(g) THEN g
  ELSE IF g[i][i] = Zero(F) THEN <<>>
  ELSE LET inv == InverseOf(F, g[i][i])
           top == Tuple([k \in 1..Len(g[i]) |-> IF k > i THEN Mul(F, inv, g[i][k]) ELSE g[i][k]])
           row(j) == Tuple([k \in 1..Len(top) |->
                              IF k > i THEN Sub(F, g[j][k], Mul(F, g[j][i], top[k])) ELSE g[j][k]])
       IN LpReduce(F, Tuple([j \in 1..Len(g) |-> IF j < i THEN g[j] ELSE IF j = i THEN top ELSE row(j)]), i + 1)
\* beta_i, ..., beta_r
LpBack(F, g, i) ==
  IF i > Len(g) THEN <<>>
  ELSE LET beta == LpBack(F, g, i + 1)  n == Len(beta)
           known == SumOf(F, Tuple([k \in 1..n |-> Mul(F, g[i][i + k], beta[k])]), n)
       IN <<Sub(F, Zero(F), Add(F, g[i][Len(g) + 1], known))>> \o beta
LpFamily(P, draws, k) ==
  LET g == Tuple([i \in 1..P.r |-> Tuple([j \in 1..(P.r + 1) |-> PowQTo(P.F, draws[k][i], j - 1)])])
      u == LpReduce(P.F, g, 1)
  IN IF u = <<>> THEN LpFamily(P, draws, k + 1) ELSE [g |-> draws[k], beta |-> LpBack(P.F, u, 1)]
\* Combinations of the family over the ground field, comb of r entries each.
LpSpan(P, g, comb) ==
  Tuple([i \in 1..(Len(comb) \div P.r) |->
    SumOf(P.F, Tuple([j \in 1..P.r |-> Scale(P.F, comb[P.r * (i - 1) + j][1], g[j])]), P.r)])

\* minrank: row j of E is an element of the extension.
Flatten(F, e) == Tuple([k \in 1..(Len(e) * F.dim) |-> <<e[((k - 1) \div F.dim) + 1][((k - 1) % F.dim) + 1]>>])
ByRows(F, E)  == Tuple([j \in 1..(Len(E) \div F.dim) |-> Sets_(Chunk(E, j, F.dim))])
MinrankLpRun(P, ch, share, plain, inst, offset, entire) ==
  LpBroadcast(P, ch, share, plain, ByRows(P.F, RankE(Base(P.F), inst, share.x, offset)), entire)
\* The share found again as if it never carried the constants.
MinrankLpInverseWithoutOffset(P, ch, share, broadcast, plain, inst, offset) ==
  LET e == ByRows(P.F, RankE(Base(P.F), inst, share.x, FALSE))
  IN [a |-> VecSub(P.F, broadcast.alpha, LpMasked(P, ch, e)),
      c |-> VecSub(P.F, LpCheck(P, ch, share, plain, e), broadcast.v)]
MinrankLpInverse(P, ch, share, broadcast, plain, inst, offset) ==
  LET e == ByRows(P.F, RankE(Base(P.F), inst, share.x, offset))
  IN [a |-> VecSub(P.F, broadcast.alpha, LpMasked(P, ch, e)),
      c |-> VecSub(P.F, LpCheck(P, ch, share, plain, e), broadcast.v)]
MinrankLpKey(P, draw) ==
  LET B == Base(P.F)
      family == LpFamily(P, draw.families, 1)
      E == Flatten(P.F, LpSpan(P, family.g, draw.comb))
  IN [sol  |-> [x |-> draw.x, beta |-> family.beta],
      inst |-> [mats |-> draw.mats, m0 |-> VecSub(B, E, ByColumns(B, draw.mats, draw.x, Len(E)))]]
MinrankLpIsCorrect(P, inst, sol) ==
  LET e == ByRows(P.F, RankE(Base(P.F), inst, sol.x, TRUE))
  IN \A j \in DOMAIN e : LpVanishes(P, sol.beta, e[j])

\* Rank syndrome decoding: the word itself, over GF(2^31).
RanksdLpRun(P, ch, share, plain, inst, offset, entire) ==
  LpBroadcast(P, ch, share, plain, RankWord(P.F, inst, share.x_A, offset), entire)
RanksdLpCorrelated(P, wit, unif, inst) ==
  [c |-> Tuple([k \in 1..P.eta |-> LpOpen(P, wit, [alpha |-> unif.a], k)])]
RanksdLpKey(P, draw) ==
  LET family == LpFamily(P, draw.families, 1)
      x == LpSpan(P, family.g, draw.comb)
      x_A == SubSeq(x, 1, P.k)
  IN [sol  |-> [x_A |-> x_A, beta |-> family.beta],
      inst |-> [mat_H |-> draw.mat_H,
                y |-> VecAdd(P.F, SubSeq(x, P.k + 1, P.n), ByColumns(P.F, draw.mat_H, x_A, P.n - P.k))]]
RanksdLpIsCorrect(P, inst, sol) ==
  LET x == RankWord(P.F, inst, sol.x_A, TRUE)
  IN \A j \in DOMAIN x : LpVanishes(P, sol.beta, x[j])

-----------------------------------------------------------------------------
(* mira: E of m rows over GF(16), its columns the roots; eta = 1.          *)

MiraColumns(P, E) ==
  Tuple([j \in 1..P.n |-> Tuple([k \in 1..P.F.dim |-> E[(k - 1) * P.n + j][1]])])
MiraE(P, inst, x, offset) == MiraColumns(P, RankE(Base(P.F), [m0 |-> inst.M0, mats |-> inst.Mi], x, offset))
MiraCorrelated(P, wit, unif, inst) == [c |-> <<InnerProduct(P.F, unif.a, wit.beta)>>]
MiraRun(P, ch, share, plain, inst, offset, entire) ==
  LpBroadcast(P, ch, share, plain, MiraE(P, inst, share.x, offset), entire)
\* The first entries of the matrices are those of the identity.
MiraMatrices(P, draw) ==
  LET B == Base(P.F)  n == P.F.dim * P.n
      entry(i, k) == IF k > P.k THEN draw.mats[(i - 1) * (n - P.k) + k - P.k] ELSE IF k = i THEN One(B) ELSE Zero(B)
  IN Tuple([l \in 1..(P.k * n) |-> entry(((l - 1) \div n) + 1, ((l - 1) % n) + 1)])
MiraKey(P, draw) ==
  LET B == Base(P.F)  n == P.F.dim * P.n
      Mi == MiraMatrices(P, draw)
      identity == Tuple([k \in 1..(P.r * P.r) |-> IF (k - 1) % (P.r + 1) = 0 THEN One(B) ELSE Zero(B)])
      support == identity \o draw.support
      F == VecAdd(B, Product(B, support, draw.coordinates, P.r, P.n), ByColumns(B, Mi, draw.B, n))
      f == SubSeq(F, 1, P.k)
      vectors == Tuple([i \in 1..P.r |-> Tuple([j \in 1..P.F.dim |-> support[(j - 1) * P.r + i][1]])])
  IN [sol  |-> [x |-> VecAdd(B, f, draw.B), beta |-> SubSeq(MiraAnnihilator(P.F, vectors), 1, P.r)],
      inst |-> [Mi |-> Mi, M0 |-> VecAdd(B, F, ByColumns(B, Mi, f, n))]]
MiraIsCorrect(P, inst, sol) ==
  LET e == MiraE(P, inst, sol.x, TRUE) IN \A j \in DOMAIN e : LpVanishes(P, sol.beta, e[j])

-----------------------------------------------------------------------------
(* mirith: E = [MaL | MaR] of m rows with MaL = MaR K, matrices by         *)
(* columns.                                                                *)

\* A B by columns, A of m rows and n columns: B^T A^T by rows.
ColProduct(F, A, B, m, n) == Product(F, B, A, n, m)
MirithE(P, inst, alpha, offset) == RankE(P.F, [m0 |-> inst.M0, mats |-> inst.Mi], alpha, offset)
MaL(P, E) == SubSeq(E, 1, P.m * (P.n - P.r))
MaR(P, E) == SubSeq(E, P.m * (P.n - P.r) + 1, P.m * P.n)
MirithCorrelated(P, wit, unif, inst) == [C |-> ColProduct(P.F, unif.A, wit.K, P.s, P.r)]
MirithRun(P, ch, share, plain, inst, offset, entire) ==
  LET F == P.F  E == MirithE(P, inst, share.alpha, offset)
  IN [S |-> VecAdd(F, ColProduct(F, ch.R, MaR(P, E), P.s, P.m), share.A),
      v |-> IF ~entire THEN Zeros(F, P.s * (P.n - P.r))
            ELSE VecSub(F, VecSub(F, ColProduct(F, plain.S, share.K, P.s, P.r),
                                     ColProduct(F, ch.R, MaL(P, E), P.s, P.m)), share.C)]
MirithKey(P, draw) ==
  LET E == ColProduct(P.F, draw.E_R, draw.K, P.m, P.r) \o draw.E_R
  IN [sol  |-> [alpha |-> draw.alpha, K |-> draw.K],
      inst |-> [Mi |-> draw.Mi, M0 |-> VecSub(P.F, E, ByColumns(P.F, draw.Mi, draw.alpha, P.m * P.n))]]
MirithIsCorrect(P, inst, sol) ==
  LET E == MirithE(P, inst, sol.alpha, TRUE) IN MaL(P, E) = ColProduct(P.F, MaR(P, E), sol.K, P.m, P.r)

-----------------------------------------------------------------------------
(* Rank syndrome decoding by rank decomposition, x = T R.  A row of bits   *)
(* is the set of the ones of its bytes, 8 B + b for bit b of byte B, and   *)
(* is kept here in 32 bits; a product reads its columns from the high bit  *)
(* of each byte down, an element of P.G = GF(2^31) is the same word read   *)
(* from the low bit up.  A random share fills the bits that are no column. *)
(* The last row of v, which stands after the end of c, is left out.        *)

Turned(row)           == {(8 * (e \div 8) + 7) - (e % 8) : e \in row}
RowsProduct(C, A, B, n) == Elems(Gf2MultRows(Sets_(C), [i \in 1..Len(A) |-> Turned(A[i][1])], Sets_(B), n))
CleanRows(A, n)       == Elems([i \in 1..Len(A) |-> {e \in A[i][1] : Turned({e}) \subseteq 0..(n - 1)}])
\* The 32-bit words without their highest bit.
Mask31(A)             == Elems(Gf2Clean(Sets_(A), 31))
EmptyRows(n)          == Elems([i \in 1..n |-> {}])
RanksdRdCorrelated(P, wit, unif, inst) ==
  [c |-> CleanRows(RowsProduct(EmptyRows(P.n), wit.mat_T, unif.a, P.r), P.eta)]
RanksdRdRun(P, ch, share, plain, inst, offset, entire) ==
  LET x == RankWord(P.G, inst, Mask31(share.x_A), offset)
      opened == RowsProduct(share.c, share.mat_T, plain.alpha, P.r)
  IN [alpha |-> CleanRows(RowsProduct(share.a, share.mat_R, ch.eps, P.m), P.eta),
      v     |-> IF ~entire THEN EmptyRows(P.n) ELSE CleanRows(RowsProduct(opened, x, ch.eps, P.m), P.eta)]
RanksdRdKey(P, draw) ==
  LET R == Mask31(draw.mat_R)
      T == CleanRows(draw.mat_T, P.r)
      x == RowsProduct(EmptyRows(P.n), T, R, P.r)
      x_A == SubSeq(x, 1, P.k)
  IN [sol  |-> [x_A |-> x_A, mat_T |-> T, mat_R |-> R],
      inst |-> [mat_H |-> draw.mat_H,
                y |-> VecAdd(P.G, SubSeq(x, P.k + 1, P.n), ByColumns(P.G, draw.mat_H, x_A, P.n - P.k))]]
RanksdRdIsCorrect(P, inst, sol) ==
  RankWord(P.G, inst, sol.x_A, TRUE) = RowsProduct(EmptyRows(P.n), sol.mat_T, sol.mat_R, P.r)

-----------------------------------------------------------------------------
(* ryde: (x1 | x2) with x1 = y + H x2, H by rows.  One is in the support,  *)
(* so that the constant of the polynomial is not shared: beta_i multiplies *)
(* x^(q^i) - x.                                                            *)

RydeWord(P, inst, x2, offset) ==
  VecAdd(P.F, MatVecMul(P.F, inst.mat_H, x2), Public(P.F, inst.y, offset)) \o x2
RydeDiff(F, e, i)        == Add(F, <<Sqrs(F.g, e[1], i)>>, e)
RydeBatch(P, ch, x, i)   == InnerProduct(P.F, ch.gamma, Tuple([j \in 1..Len(x) |-> RydeDiff(P.F, x[j], i)]))
RydeOpen(P, alpha, beta) == InnerProduct(P.F, alpha, SubSeq(beta, 1, P.w - 1))
RydeCorrelated(P, wit, unif, inst) == [c |-> <<RydeOpen(P, unif.a, wit.beta)>>]
RydeRun(P, ch, share, plain, inst, offset, entire) ==
  LET F == P.F  x == RydeWord(P, inst, share.x2, offset)
      w == Tuple([k \in 1..(P.w - 1) |-> RydeBatch(P, ch, x, k)])
  IN [alpha |-> VecAdd(F, VecScalarMul(F, w, ch.eps), share.a),
      v     |-> <<IF ~entire THEN Zero(F)
                  ELSE Add(F, Add(F, Mul(F, ch.eps, RydeBatch(P, ch, x, P.w)),
                                     RydeOpen(P, plain.alpha, share.beta)), share.c[1])>>]
RydeKey(P, draw) ==
  LET support == FullRankWithOne(P.F.g, draw.supports, 1)
      x == Elems(FromSupport(P.n, support, draw.bytes, TRUE))
      x2 == SubSeq(x, P.n - P.k + 1, P.n)
  IN [sol  |-> [x2 |-> x2, beta |-> SubSeq(RydeAnnihilator(P.F, Elems(support)), 2, P.w + 1)],
      inst |-> [mat_H |-> draw.mat_H,
                y |-> VecAdd(P.F, MatVecMul(P.F, draw.mat_H, x2), SubSeq(x, 1, P.n - P.k))]]
RydeIsCorrect(P, inst, sol) ==
  LET x == RydeWord(P, inst, sol.x2, TRUE)
  IN \A j \in DOMAIN x :
       Add(P.F, RydeDiff(P.F, x[j], P.w),
           RydeOpen(P, Tuple([i \in 1..(P.w - 1) |-> RydeDiff(P.F, x[j], i)]), sol.beta)) = Zero(P.F)
=============================================================================
