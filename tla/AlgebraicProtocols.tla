-------------------------- MODULE AlgebraicProtocols --------------------------
(***************************************************************************)
(* The multiparty protocols of biscuit, mqom, sdith and aimer: what        *)
(* mpc.c computes on one share, and how witness.c draws a key.  P holds    *)
(* the field and the dimensions of the scheme.  Every array is a sequence  *)
(* of field elements; a scalar is an element of one coefficient.  A share  *)
(* has the members of vec_wit_t, vec_unif_t and vec_corr_t, a broadcast    *)
(* those of vec_broadcast_t.  Run is run_multiparty_computation: offset    *)
(* says whether the share carries the public constants, entire whether the *)
(* check value v is computed as well.                                      *)
(***************************************************************************)
EXTENDS RankMetric, Aim

Zeros(F, n)      == Tuple([i \in 1..n |-> Zero(F)])
VecSub(F, a, b)  == Tuple([i \in 1..Len(a) |-> Sub(F, a[i], b[i])])
Only(cond, F, a) == IF cond THEN a ELSE Zero(F)
Base(F)          == Ground(F.g)
Chunk(s, j, n)   == SubSeq(s, (j - 1) * n + 1, j * n)
\* Columns of a matrix stored one after the other, applied to y.
ByColumns(F, m, y, rows) ==
  Tuple([i \in 1..rows |-> SumOf(F, Tuple([j \in 1..Len(y) |-> Mul(F, m[(j - 1) * rows + i], y[j])]), Len(y))])
\* The polynomial with these roots, its leading one left out.
RECURSIVE FromRoots(_, _, _)
FromRoots(F, roots, i) ==
  IF i = 0 THEN <<>>
  ELSE LET q == FromRoots(F, roots, i - 1)
           monic == Append(q, One(F))
       IN Tuple([k \in 1..i |-> Sub(F, IF k = 1 THEN Zero(F) ELSE monic[k - 1], Mul(F, roots[i], monic[k]))])
\* The product of the differences between point i and the n - 1 others.
RECURSIVE Differences(_, _, _, _)
Differences(F, points, i, n) ==
  IF n = 0 THEN One(F)
  ELSE LET r == Differences(F, points, i, n - 1)
       IN IF n = i THEN r ELSE Mul(F, r, Sub(F, points[i], points[n]))
Recip(F, a)      == IF F.g.p = 2 THEN Power(F, a, 2^F.g.m - 2) ELSE Power(F, a, F.g.p - 2)
PointsTo(F, n)   == Tuple([i \in 1..n |-> Elem(F, <<i - 1>>)])     \* 0, 1, ..., n - 1

-----------------------------------------------------------------------------
(* biscuit: equations z + x y = t of three linear forms each.              *)

BiscuitForm(P, inst, k, which, s) ==
  InnerProduct(P.F, s, [i \in 1..P.n |-> inst.f[k][3 * (i - 1) + which + 1]])
BiscuitCorrelated(P, wit, unif, inst) ==
  [c |-> Tuple([k \in 1..P.m |-> Mul(P.F, BiscuitForm(P, inst, k, 2, wit.s), unif.a[k])])]
BiscuitRun(P, ch, share, plain, inst, offset, entire) ==
  LET F == P.F
      z(k) == Sub(F, Only(offset, F, inst.t[k]), BiscuitForm(P, inst, k, 0, share.s))
  IN [alpha |-> Tuple([k \in 1..P.m |->
                  Add(F, Mul(F, BiscuitForm(P, inst, k, 1, share.s), ch.eps[k]), share.a[k])]),
      v     |-> IF ~entire THEN Zeros(F, P.m)
                ELSE Tuple([k \in 1..P.m |->
                  Sub(F, Sub(F, Mul(F, BiscuitForm(P, inst, k, 2, share.s), plain.alpha[k]),
                                Mul(F, z(k), ch.eps[k])), share.c[k])])]
BiscuitOutputs(P, inst, s) ==
  Tuple([k \in 1..P.m |-> Add(P.F, BiscuitForm(P, inst, k, 0, s),
                              Mul(P.F, BiscuitForm(P, inst, k, 1, s), BiscuitForm(P, inst, k, 2, s)))])
BiscuitKey(P, draw) ==
  LET inst == [f |-> draw.f]
  IN [sol |-> [s |-> draw.s], inst |-> [f |-> draw.f, t |-> BiscuitOutputs(P, inst, draw.s)]]
BiscuitIsCorrect(P, inst, sol) == BiscuitOutputs(P, inst, sol.s) = inst.t

-----------------------------------------------------------------------------
(* mqom: y_i = x (b_i + A_i x), A_i lower triangular and stored by         *)
(* columns.  x and the batched product A x are cut into n2 chunks of n1    *)
(* entries, the last of P.last, and interpolated on 0, 1, ...  A chunk of  *)
(* the second is masked by a multiple of the polynomial that vanishes on   *)
(* the points; the hint is the product of both without its constant term.  *)

\* Row i, column j, both from 1, of a matrix stored by columns from the diagonal.
Below_(P, A, i, j) == A[(j - 1) * P.n - ((j - 1) * (j - 2)) \div 2 + i - j + 1]
MqomProduct(P, A, x) ==
  [i \in 1..P.n |-> SumOf(Base(P.F), Tuple([j \in 1..i |-> Mul(Base(P.F), Below_(P, A, i, j), x[j])]), i)]
\* linA x: the products of the matrices, batched by gamma.
MqomBatch(P, ch, inst, x) ==
  LET prod == Tuple([j \in 1..P.m |-> MqomProduct(P, inst.A[j], x)])
  IN Tuple([i \in 1..P.n |-> SumOf(P.F, Tuple([j \in 1..P.m |-> Scale(P.F, prod[j][i][1], ch.gamma[j])]), P.m)])
\* interpolation_matrix: entry [k][i], coefficient k of the polynomial that is one on i.
MqomLagrange(P, n) ==
  LET B == Base(P.F)  pts == PointsTo(B, n)
      others(i) == Append(FromRoots(B, [k \in 1..(n - 1) |-> IF k < i THEN pts[k] ELSE pts[k + 1]], n - 1), One(B))
      L(i) == VecScalarMul(B, others(i), Recip(B, Differences(B, pts, i, n)))
      all == Tuple([i \in 1..n |-> L(i)])
  IN Tuple([k \in 1..n |-> Tuple([i \in 1..n |-> all[i][k][1]])])
Interpolate(F, lagrange, values) ==
  Tuple([k \in 1..Len(values) |->
    SumOf(F, Tuple([i \in 1..Len(values) |-> Scale(F, lagrange[k][i], values[i])]), Len(values))])
MqomXPolys(P, x) ==
  LET B == Base(P.F)  extended == x \o Zeros(B, P.n1 - P.last)  lagrange == MqomLagrange(P, P.n1)
  IN Tuple([j \in 1..P.n2 |-> Interpolate(B, lagrange, Chunk(extended, j, P.n1))])
MqomWPolys(P, w, a) ==
  LET chunk(j) == SubSeq(w, (j - 1) * P.n1 + 1, IF j < P.n2 THEN j * P.n1 ELSE P.n)
      full == MqomLagrange(P, P.n1)  short == MqomLagrange(P, P.last)
      hat(j) == Interpolate(P.F, IF j < P.n2 THEN full ELSE short, chunk(j))
      vanishing == Append(FromRoots(Base(P.F), PointsTo(Base(P.F), P.n1), P.n1), One(Base(P.F)))
      pad(s) == s \o Zeros(P.F, P.n1 + 1 - Len(s))
      mask(j) == Tuple([k \in 1..(P.n1 + 1) |-> Scale(P.F, vanishing[k][1], a[j])])
  IN Tuple([j \in 1..P.n2 |-> VecAdd(P.F, mask(j), pad(hat(j)))])
MqomHint(P, ch, wit, unif, inst) ==
  LET xs == MqomXPolys(P, wit.x)  ws == MqomWPolys(P, MqomBatch(P, ch, inst, wit.x), unif.a)
      term(j, k, i) == IF k - i + 2 \in 1..P.n1 THEN Scale(P.F, xs[j][k - i + 2][1], ws[j][i]) ELSE Zero(P.F)
  IN [q_poly |-> Tuple([k \in 1..(2 * P.n1 - 1) |->
        SumOf(P.F, Tuple([j \in 1..P.n2 |->
          SumOf(P.F, Tuple([i \in 1..(P.n1 + 1) |-> term(j, k, i)]), P.n1 + 1)]), P.n2)])]

\* sum_k q_k point^(k+1)
MqomTail(F, q, point) == Mul(F, EvalPoly(F, q, point), point)
MqomRun(P, ch, share, plain, inst, offset, entire) ==
  LET F  == P.F  B == Base(P.F)
      ws == MqomWPolys(P, MqomBatch(P, ch, inst, share.x), share.a)
      xs == MqomXPolys(P, share.x)
      res(j) == Sub(B, Only(offset, B, inst.y[j]), InnerProduct(B, inst.b[j], share.x))
      z  == SumOf(F, Tuple([j \in 1..P.m |-> Scale(F, res(j)[1], ch.gamma[j])]), P.m)
      onPoints == SumOf(F, Tuple([i \in 1..P.n1 |-> MqomTail(F, share.q_poly, Elem(F, <<i - 1>>))]), P.n1)
      beta == Scale(F, Recip(B, Elem(B, <<P.n1>>))[1], Sub(F, z, onPoints))
      known == SumOf(F, Tuple([j \in 1..P.n2 |-> Mul(F, EvalInExt(F, xs[j], ch.r), plain.alpha[j])]), P.n2)
  IN [alpha |-> Tuple([j \in 1..P.n2 |-> EvalPoly(F, ws[j], ch.r)]),
      v     |-> << IF ~entire THEN Zero(F)
                   ELSE Add(F, Sub(F, beta, known), MqomTail(F, share.q_poly, ch.r)) >>]
\* A point on which the masks vanish is drawn again.
RECURSIVE MqomPoint(_, _, _)
MqomPoint(P, draws, k) ==
  IF \E i \in 0..(P.n1 - 1) : draws[k] = Elem(P.F, <<i>>) THEN MqomPoint(P, draws, k + 1) ELSE draws[k]
MqomOutputs(P, inst, x) ==
  LET B == Base(P.F)
      tail(i, j) == SumOf(B, Tuple([r \in 1..(P.n - j + 1) |->
                                      Mul(B, x[j + r - 1], Below_(P, inst.A[i], j + r - 1, j))]), P.n - j + 1)
  IN Tuple([i \in 1..P.m |->
       SumOf(B, Tuple([j \in 1..P.n |-> Mul(B, Add(B, inst.b[i][j], tail(i, j)), x[j])]), P.n)])
MqomKey(P, draw) ==
  [sol |-> [x |-> draw.x], inst |-> [A |-> draw.A, b |-> draw.b, y |-> MqomOutputs(P, draw, draw.x)]]
MqomIsCorrect(P, inst, sol) == MqomOutputs(P, inst, sol.x) = inst.y

-----------------------------------------------------------------------------
(* sdith: a word (s_A | s_B) of syndrome y, in chunks of length m and      *)
(* weight w.  A chunk is read as the coefficients of S, Q vanishes on the  *)
(* support of its values, and S Q = P F for the polynomial F of all the    *)
(* points.  a and b mask both sides on every evaluation point r_j; the     *)
(* arrays of P.d chunks by P.t points are flat.                            *)

At(P, h, j)        == (h - 1) * P.t + j
OverChunks(P, term) == SumOf(P.F, term, P.d)
SdithPoints(P)     == PointsTo(Base(P.F), P.m)
SdithF(P)          == FromRoots(Base(P.F), SdithPoints(P), P.m)
SdithWord(P, inst, s_A, offset) ==
  LET B == Base(P.F)  y == IF offset THEN inst.y ELSE Zeros(B, P.d * P.m - P.k)
  IN s_A \o VecSub(B, y, ByColumns(B, inst.mat_H, s_A, P.d * P.m - P.k))
SdithCorrelated(P, wit, unif, inst) ==
  [c |-> Tuple([j \in 1..P.t |->
    OverChunks(P, Tuple([h \in 1..P.d |-> Mul(P.F, unif.a[At(P, h, j)], unif.b[At(P, h, j)])]))])]
\* eps (Q(r) + r^w), the leading coefficient on one share only; S(r); eps F(r) P(r).
SdithQ(P, ch, share, offset, h, j) ==
  LET q == Chunk(share.q_poly, h, P.w)
  IN Mul(P.F, ch.eps[At(P, h, j)],
         IF offset THEN EvalMonicInExt(P.F, q, ch.eval[j]) ELSE EvalInExt(P.F, q, ch.eval[j]))
SdithS(P, ch, word, h, j)  == EvalInExt(P.F, Chunk(word, h, P.m), ch.eval[j])
SdithPF(P, ch, share, h, j) ==
  Mul(P.F, Mul(P.F, EvalInExt(P.F, Chunk(share.p_poly, h, P.w), ch.eval[j]), ch.eps[At(P, h, j)]),
      EvalMonicInExt(P.F, SdithF(P), ch.eval[j]))
\* What is added up over the chunks for the check value of point j.
SdithTerms(P, ch, share, a, b, plain, offset, j) ==
  LET F == P.F
      open(h) == Only(offset, F, Mul(F, plain.alpha[At(P, h, j)], plain.beta[At(P, h, j)]))
      masked(h) == Add(F, Mul(F, plain.alpha[At(P, h, j)], b[At(P, h, j)]),
                          Mul(F, plain.beta[At(P, h, j)], a[At(P, h, j)]))
  IN OverChunks(P, Tuple([h \in 1..P.d |->
       Sub(F, Add(F, SdithPF(P, ch, share, h, j), masked(h)), open(h))]))
SdithRun(P, ch, share, plain, inst, offset, entire) ==
  LET word == SdithWord(P, inst, share.s_A, offset)
      h(i) == ((i - 1) \div P.t) + 1  j(i) == ((i - 1) % P.t) + 1
  IN [alpha |-> Tuple([i \in 1..(P.d * P.t) |-> Add(P.F, SdithQ(P, ch, share, offset, h(i), j(i)), share.a[i])]),
      beta  |-> Tuple([i \in 1..(P.d * P.t) |-> Add(P.F, SdithS(P, ch, word, h(i), j(i)), share.b[i])]),
      v     |-> IF ~entire THEN Zeros(P.F, P.t)
                ELSE Tuple([k \in 1..P.t |->
                       Sub(P.F, SdithTerms(P, ch, share, share.a, share.b, plain, offset, k), share.c[k])])]
\* The share of a party, from its witness part and what it broadcasts.
SdithInverse(P, ch, share, broadcast, plain, inst, offset) ==
  LET word == SdithWord(P, inst, share.s_A, offset)
      h(i) == ((i - 1) \div P.t) + 1  j(i) == ((i - 1) % P.t) + 1
      a == Tuple([i \in 1..(P.d * P.t) |->
                    Sub(P.F, broadcast.alpha[i], SdithQ(P, ch, share, offset, h(i), j(i)))])
      b == Tuple([i \in 1..(P.d * P.t) |->
                    Sub(P.F, broadcast.beta[i], SdithS(P, ch, word, h(i), j(i)))])
  IN [a |-> a, b |-> b,
      c |-> Tuple([k \in 1..P.t |->
              Sub(P.F, SdithTerms(P, ch, share, a, b, plain, offset, k), broadcast.v[k])])]

\* A position may be drawn twice.
RECURSIVE PositionsRepeated(_, _, _, _)
PositionsRepeated(P, bytes, k, taken) ==
  IF Len(taken) = P.w THEN taken
  ELSE PositionsRepeated(P, bytes, k + 1, IF bytes[k] < P.m THEN Append(taken, bytes[k]) ELSE taken)
\* The first w bytes that are positions and not yet taken.
RECURSIVE Positions(_, _, _, _)
Positions(P, bytes, k, taken) ==
  IF Len(taken) = P.w THEN taken
  ELSE Positions(P, bytes, k + 1,
         IF bytes[k] < P.m /\ \A i \in 1..Len(taken) : taken[i] # bytes[k] THEN Append(taken, bytes[k]) ELSE taken)
\* The polynomials S, Q and P of one chunk.
SdithChunk(P, draw) ==
  LET B == Base(P.F)  pts == SdithPoints(P)
      positions == Positions(P, draw.bytes, 1, <<>>)
      coords == SelectSeq(draw.coords, LAMBDA e : e # Zero(B))
      x(i) == SumOf(B, Tuple([k \in 1..P.w |-> IF positions[k] = i - 1 THEN coords[k] ELSE Zero(B)]), P.w)
      scalar == Tuple([i \in 1..P.m |-> Mul(B, x(i), Recip(B, Differences(B, pts, i, P.m)))])
      q == FromRoots(B, [k \in 1..P.w |-> Elem(B, <<positions[k]>>)], P.w)
      f == SdithF(P)
      sum(poly, n) == LET part == Tuple([i \in 1..P.m |-> VecScalarMul(B, RemoveMonicFactor(B, poly, pts[i]), scalar[i])])
                      IN Tuple([k \in 1..n |-> SumOf(B, [i \in 1..P.m |-> part[i][k]], P.m)])
  IN [s |-> sum(f, P.m), q |-> q, p |-> sum(q, P.w)]
SdithKey(P, draw) ==
  LET B == Base(P.F)
      chunk == Tuple([h \in 1..P.d |-> SdithChunk(P, draw.chunks[h])])
      s == Tuple([i \in 1..(P.d * P.m) |-> chunk[((i - 1) \div P.m) + 1].s[((i - 1) % P.m) + 1]])
      s_A == SubSeq(s, 1, P.k)
      flat(kind) == Tuple([i \in 1..(P.d * P.w) |-> chunk[((i - 1) \div P.w) + 1][kind][((i - 1) % P.w) + 1]])
  IN [sol  |-> [s_A |-> s_A, q_poly |-> flat("q"), p_poly |-> flat("p")],
      inst |-> [mat_H |-> draw.mat_H,
                y |-> VecAdd(B, SubSeq(s, P.k + 1, P.d * P.m), ByColumns(B, draw.mat_H, s_A, P.d * P.m - P.k))]]
SdithIsCorrect(P, inst, sol) ==
  LET B == Base(P.F)  F == P.F  pts == SdithPoints(P)  f == SdithF(P)
      word == SdithWord(P, inst, sol.s_A, TRUE)
      S(h) == Chunk(word, h, P.m)  Q(h) == Chunk(sol.q_poly, h, P.w)
      nonZero(h) == {i \in 1..P.m : EvalPoly(B, S(h), pts[i]) # Zero(B)}
      points == {Elem(F, <<j, i>>) : j \in 0..(P.m - 1), i \in 0..1}
  IN /\ \A i \in 1..P.m : EvalMonic(B, f, pts[i]) = Zero(B)
     /\ \A h \in 1..P.d :
          /\ Cardinality(nonZero(h)) = P.w
          /\ \A i \in 1..P.m : (EvalMonic(B, Q(h), pts[i]) = Zero(B)) <=> (i \in nonZero(h))
          /\ \A x \in points :
               Mul(F, EvalInExt(F, S(h), x), EvalMonicInExt(F, Q(h), x))
                 = Mul(F, EvalInExt(F, Chunk(sol.p_poly, h, P.w), x), EvalMonicInExt(F, f, x))

-----------------------------------------------------------------------------
(* aimer: the products x_l pt = z_l of the circuit of AIM.                 *)

Sets_(s)  == Tuple([i \in 1..Len(s) |-> s[i][1]])
Elems(s)  == Tuple([i \in 1..Len(s) |-> <<s[i]>>])
AimerCircuit(P, inst, share, offset) ==
  LET r == AimMpc(P.A, inst.matrix_A, inst.vector_b, inst.ct, share.pt[1][1], Sets_(share.t), offset)
  IN [x |-> Elems(r.x), z |-> Elems(r.z)]
AimerCorrelated(P, wit, unif, inst) == [c |-> <<Mul(P.F, wit.pt[1], unif.a[1])>>]
AimerRun(P, ch, share, plain, inst, offset, entire) ==
  LET F == P.F  r == AimerCircuit(P, inst, share, offset)
  IN [alpha |-> <<Add(F, share.a[1], InnerProduct(F, r.x, ch.eps))>>,
      v     |-> <<IF ~entire THEN Zero(F)
                  ELSE Add(F, Add(F, share.c[1], Mul(F, plain.alpha[1], share.pt[1])), InnerProduct(F, ch.eps, r.z))>>]
AimerKey(P, draw) ==
  [sol  |-> [pt |-> <<draw.pt>>, t |-> Elems(Layer(P.A, draw.pt[1]))],
   inst |-> [ct |-> AimOf(P.A, draw.lower, draw.upper, draw.vector_b, draw.pt[1]), vector_b |-> draw.vector_b,
             matrix_A |-> Tuple([l \in 1..Len(draw.lower) |-> MatrixLU(draw.lower[l], draw.upper[l])])]]
AimerIsCorrect(P, inst, sol) ==
  LET r == AimerCircuit(P, inst, sol, TRUE)
  IN \A l \in DOMAIN r.x : Mul(P.F, r.x[l], sol.pt[1]) = r.z[l]
=============================================================================
