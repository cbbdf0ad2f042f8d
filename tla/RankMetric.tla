------------------------------ MODULE RankMetric ------------------------------
(***************************************************************************)
(* The linear algebra of the rank-metric schemes, ryde and mira: vectors   *)
(* over GF(q^m), their rank over GF(q), and linearized polynomials, the    *)
(* sequence of the coefficients of x, x^q, x^(q^2), ...  ryde has q = 2    *)
(* and elements of one ground coefficient; mira has q = 16.                *)
(***************************************************************************)
EXTENDS Vectors

QPow(F, x)      == IF F.dim = 1 THEN <<GSqr(F.g, x[1])>> ELSE MiraPow16(F, x)
QMinusOne(F, x) == IF F.dim = 1 THEN x ELSE MiraPow15(F, x)
VecAdd(F, a, b)       == Tuple([i \in 1..Len(a) |-> Add(F, a[i], b[i])])
VecScalarMul(F, a, e) == Tuple([i \in 1..Len(a) |-> Mul(F, a[i], e)])
InnerProduct(F, a, b) == SumOf(F, Tuple([i \in 1..Len(a) |-> Mul(F, a[i], b[i])]), Len(a))
MatVecMul(F, m, v)    == Tuple([i \in 1..Len(m) |-> InnerProduct(F, m[i], v)])

-----------------------------------------------------------------------------
(* Linearized polynomials.                                                 *)

RECURSIVE EvalFrom(_, _, _, _)
EvalFrom(F, p, x, i) ==
  IF i > Len(p) \/ x = <<>> THEN Zero(F)
  ELSE Add(F, Mul(F, p[i], x), EvalFrom(F, p, QPow(F, x), i + 1))
QEvaluate(F, p, x)   == EvalFrom(F, p, x, 1)
QExp(F, p)           == Tuple(<<Zero(F)>> \o [i \in 1..Len(p) |-> QPow(F, p[i])])

\* p(x)^(q-1) p + p^q vanishes on x too, and everywhere p does.
Extend(F, p, x) ==
  VecAdd(F, Append(VecScalarMul(F, p, QMinusOne(F, QEvaluate(F, p, x))), Zero(F)), QExp(F, p))
RECURSIVE AnnihilatorFrom(_, _, _, _)
AnnihilatorFrom(F, support, p, i) ==
  IF i > Len(support) \/ p = <<>> THEN p
  ELSE AnnihilatorFrom(F, support, Extend(F, p, support[i]), i + 1)
RydeAnnihilator(F, support) == AnnihilatorFrom(F, support, <<One(F)>>, 1)
MiraAnnihilator(F, support) ==
  AnnihilatorFrom(F, support, <<MiraPow15(F, support[1]), One(F)>>, 2)

-----------------------------------------------------------------------------
(* Gaussian elimination of ryde, on vectors of sets; the same row          *)
(* operations on the vector w.  Row p takes rows below it until it has the *)
(* highest exponent left, then clears that exponent from the rows below    *)
(* and, for the reduced form, from those above.                            *)

GaussStep(v, w, p, reduced) ==
  LET left   == UNION {v[i] : i \in p..Len(v)}
      column == IF left = {} THEN 0 ELSE Highest(left)
      taken  == {i \in (p + 1)..Len(v) : \A j \in p..(i - 1) : column \notin v[j]}
      Row(x) == Xor(x[p], XorOver(x, taken))
      pivot  == Row(v)
      clear  == {i \in 1..Len(v) : i # p /\ (i > p \/ reduced) /\ column \in v[i]}
      Do(x)  == Tuple([i \in 1..Len(x) |-> IF i = p THEN Row(x)
                                          ELSE IF i \in clear THEN Xor(x[i], Row(x)) ELSE x[i]])
  IN [v |-> Do(v), w |-> Do(w), found |-> IF left = {} THEN 0 ELSE 1]
RECURSIVE Gauss(_, _, _, _)
Gauss(v, w, p, reduced) ==
  IF p > Len(v) THEN [v |-> v, w |-> w, rank |-> 0]
  ELSE LET s == GaussStep(v, w, p, reduced)
           r == Gauss(s.v, s.w, p + 1, reduced)
       IN [r EXCEPT !.rank = @ + s.found]
GetRank(v) == Gauss(v, v, 1, FALSE).rank

-----------------------------------------------------------------------------
(* Random vectors of a known rank.  draws is the sequence of vectors the   *)
(* generator gives, bytes the sequence of bytes.                           *)

RECURSIVE FullRankWithOne(_, _, _)
FullRankWithOne(g, draws, k) ==
  LET o == Append(draws[k], {0})
  IN IF GetRank(o) = (IF g.m < Len(o) THEN g.m ELSE Len(o)) THEN o
     ELSE FullRankWithOne(g, draws, k + 1)

\* The support goes to random free positions; a byte above the last multiple
\* of the size is skipped, and 2 r bytes are drawn at a time.
RECURSIVE Scatter(_, _, _, _, _)
Scatter(o, support, i, bytes, j) ==
  IF i > Len(support) THEN [o |-> o, used |-> ((j + 2 * Len(support) - 2) \div (2 * Len(support)))
                                             * (2 * Len(support))]
  ELSE LET n   == Len(o)
           pos == (bytes[j] % n) + 1
       IN IF bytes[j] < n * (256 \div n) /\ o[pos] = {}
          THEN Scatter([o EXCEPT ![pos] = support[i]], support, i + 1, bytes, j + 1)
          ELSE Scatter(o, support, i, bytes, j + 1)
\* Every coordinate still free takes a combination, one bit for each element.
Combine(o, support, bytes, from) ==
  LET r == Len(support)
      free == {i \in 1..Len(o) : o[i] = {}}
      bit(i, j) == LET k == r * Cardinality({h \in free : h < i}) + j - 1
                   IN (k % 8) \in Bits(bytes[from + k \div 8 + 1])
  IN Tuple([i \in 1..Len(o) |->
              IF i \in free THEN XorOver(support, {j \in 1..r : bit(i, j)}) ELSE o[i]])
FromSupport(size, support, bytes, copy) ==
  LET empty == Tuple([i \in 1..size |-> {}])
      s     == Scatter(empty, support, 1, bytes, 1)
  IN IF copy THEN Combine(s.o, support, bytes, s.used) ELSE Combine(empty, support, bytes, 0)
-----------------------------------------------------------------------------
(* The functions of one file, c.op on the arguments in c.                  *)

RydeVec(g, c) ==
  LET F == Ground(g) IN
  CASE c.op = "add"        -> VecAdd(F, c.v, c.w)
    [] c.op = "inner"      -> InnerProduct(F, c.v, c.w)
    [] c.op = "scalar_mul" -> VecScalarMul(F, c.v, c.e)
    [] c.op = "mat_vec"    -> MatVecMul(F, c.m, c.v)
RydeQpoly(g, c) ==
  CASE c.op = "evaluate"    -> QEvaluate(Ground(g), c.p, c.e)
    [] c.op = "qexp"        -> QExp(Ground(g), c.p)
    [] c.op = "annihilator" -> RydeAnnihilator(Ground(g), c.v)
MiraVec(F, c) ==
  CASE c.op = "add"        -> VecAdd(F, c.v, c.w)
    [] c.op = "inner"      -> InnerProduct(F, c.v, c.w)
    [] c.op = "scalar_mul" -> VecScalarMul(F, c.v, c.e)
MiraQpoly(F, c) ==
  CASE c.op = "evaluate"    -> QEvaluate(F, c.p, c.e)
    [] c.op = "qexp"        -> QExp(F, c.p)
    [] c.op = "annihilator" -> MiraAnnihilator(F, c.v)
=============================================================================
