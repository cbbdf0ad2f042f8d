------------------------------- MODULE Fields -------------------------------
(***************************************************************************)
(* The finite fields of the library, arithmetic/ and the field files of    *)
(* mira, ryde and aimer.  An element of GF(2^m) is the set of exponents of *)
(* its polynomial, an element of GF(p) a number below p, and an element of *)
(* an extension the sequence of its coefficients over that ground field,   *)
(* constant term first, as the arrays of the code are; a ground element on *)
(* its own is a sequence of one.  A descriptor says how the code           *)
(* multiplies; Ref is the textbook product the code's one is compared      *)
(* with.                                                                   *)
(***************************************************************************)
EXTENDS Integers, Sequences, FiniteSets, FieldTables

Xor(a, b)    == (a \ b) \cup (b \ a)
Shift(a, k)  == {i + k : i \in a}
Below(a, m)  == {i \in a : i < m}
Highest(a)   == CHOOSE i \in a : \A j \in a : j <= i
Bits(n)      == {i \in 0..15 : (n \div 2^i) % 2 = 1}

(* The carry-less product: exponents that an odd number of pairs reach.    *)
Carryless(a, b) ==
  {k \in {i + j : i \in a, j \in b} : Cardinality({i \in a : k - i \in b}) % 2 = 1}

\* The sum of the f[s]: what an odd number of them hold.
XorOver(f, S) ==
  LET terms == {<<s, f[s]>> : s \in S}
  IN {k \in UNION {t[2] : t \in terms} : Cardinality({t \in terms : k \in t[2]}) % 2 = 1}

-----------------------------------------------------------------------------
(* Ground fields.                                                          *)

PrimeField(p) == [p |-> p, mul |-> "reduce"]
BinaryField(m, tail, mul, folds) ==
  [p |-> 2, m |-> m, tail |-> tail, mul |-> mul, folds |-> folds]

GZero(g)      == IF g.p = 2 THEN {} ELSE 0
Number(g, n)  == IF g.p = 2 THEN Bits(n) ELSE n
Trim(p, v)    == v - (IF p <= v THEN p ELSE 0)      \* v < 2p
GAdd(g, a, b) == IF g.p = 2 THEN Xor(a, b) ELSE Trim(g.p, a + b)
GSub(g, a, b) == IF g.p = 2 THEN Xor(a, b) ELSE Trim(g.p, a + g.p - b)
GNeg(g, a)    == IF g.p = 2 THEN a ELSE IF a = 0 THEN 0 ELSE g.p - a

(* The division-free reductions: x less p times the high part of the       *)
(* product of x and a constant.  The 16-bit one takes this product modulo  *)
(* 2^32, so that it is only right below a bound.                           *)
\* Mutant: the quotient without its correction.
Reduce16Uncorrected(p, x) ==
  (x - p * (IF p = 31 THEN ((x * 66) \div 2048) % 2048 ELSE ((x * 32) \div 8192) % 512)) % 256
Reduce16(p, x) ==
  (x - p * (IF p = 31 THEN ((x * 66 + (x * 67) \div 1024) \div 2048) % 2048
                      ELSE ((x * 32 + (x * 653) \div 1024) \div 8192) % 512)) % 256
(* The 32-bit one has a product of up to 64 bits, computed here on limbs   *)
(* of 13 bits, with the constant for p = 31 shifted to drop 39 bits too.   *)
Magic32(p) == IF p = 31 THEN <<532, 2114, 264>> ELSE <<8127, 5221, 32>>
Quotient32(p, x) ==
  LET B == 8192  m == Magic32(p)  l == <<x % B, (x \div B) % B, x \div (B * B)>>
  IN l[3] * m[3] * B + l[2] * m[3] + l[3] * m[2]
       + (l[1] * m[3] + l[2] * m[2] + l[3] * m[1]
            + (l[1] * m[2] + l[2] * m[1] + (l[1] * m[1]) \div B) \div B) \div B
Reduce32(p, x) == (x - p * Quotient32(p, x)) % 256

(* One bit of b at a time, from the highest down to bit k.                 *)
RECURSIVE Serial(_, _, _, _)
Serial(g, a, b, k) ==
  IF k = g.m THEN {} ELSE
  LET r == Serial(g, a, b, k + 1) IN
  Xor(Xor(IF k \in b THEN a ELSE {}, IF g.m - 1 \in r THEN g.tail ELSE {}),
      Below(Shift(r, 1), g.m))

(* The unreduced product e, folded once: the bits above each shift come    *)
(* back at every exponent of the tail.                                     *)
FoldOnce(g, e) ==
  LET hi == XorOver([s \in g.folds |-> {i - s : i \in e \ 0..(s - 1)}], g.folds)
  IN Below(Xor(e, XorOver([t \in g.tail |-> Shift(hi, t)], g.tail)), g.m)

(* Products and reductions on 64-bit words: the words of a product, then   *)
(* its top words folded one by one onto the two words they reach.          *)
Word(a, w)      == {i - 64 * w : i \in {x \in a : x \div 64 = w}}
WordProduct(g, a, b) ==
  LET W == 0..(g.m \div 64 - 1)
  IN XorOver([ij \in W \X W |-> Shift(Carryless(Word(a, ij[1]), Word(b, ij[2])),
                                      64 * (ij[1] + ij[2]))], W \X W)
RECURSIVE WordReduce(_, _, _)
WordReduce(g, c, w) ==
  IF w < g.m \div 64 THEN c
  ELSE WordReduce(g, Xor(Below(c, 64 * w),
                         XorOver([t \in g.tail |-> Shift(Word(c, w), 64 * w - g.m + t)], g.tail)), w - 1)

GMul(g, a, b) ==
  CASE g.mul = "reduce" -> Reduce16(g.p, a * b)
    [] g.mul = "serial" -> Serial(g, a, b, 0)
    [] g.mul = "fold"   -> FoldOnce(g, Carryless(a, b))
    [] g.mul = "words"  -> WordReduce(g, WordProduct(g, a, b), 2 * (g.m \div 64) - 1)

RECURSIVE ModTail(_, _)
ModTail(g, c) ==
  IF c \subseteq 0..(g.m - 1) THEN c
  ELSE LET k == Highest(c) IN ModTail(g, Xor(c \ {k}, Shift(g.tail, k - g.m)))
GRef(g, a, b) == IF g.p = 2 THEN ModTail(g, Carryless(a, b)) ELSE (a * b) % g.p

-----------------------------------------------------------------------------
(* Extensions: X^deg = mod[1] + mod[2] X + ... over the base.              *)

Ground(g) == [g |-> g, dim |-> 1, deg |-> 1, mul |-> "ground", frob |-> <<>>]
Extension(base, mod, mul, frob) ==
  [g |-> base.g, dim |-> base.dim * Len(mod), deg |-> Len(mod), base |-> base,
   mod |-> mod, mul |-> mul, frob |-> frob]

Tuple(s)      == s \o <<>>     \* the same sequence, evaluated once
Zero(F)       == Tuple([i \in 1..F.dim |-> GZero(F.g)])
Elem(F, ns)   == Tuple([i \in 1..F.dim |-> IF i <= Len(ns) THEN Number(F.g, ns[i]) ELSE GZero(F.g)])
One(F)        == Elem(F, <<1>>)
Add(F, a, b)  == Tuple([i \in 1..F.dim |-> GAdd(F.g, a[i], b[i])])
Sub(F, a, b)  == Tuple([i \in 1..F.dim |-> GSub(F.g, a[i], b[i])])
Scale(F, s, b) == Tuple([i \in 1..F.dim |-> GMul(F.g, s, b[i])])
Coef(F, a, i) == SubSeq(a, (i - 1) * F.base.dim + 1, i * F.base.dim)
Join(F, c)    == Tuple([i \in 1..F.dim |-> c[((i - 1) \div F.base.dim) + 1][((i - 1) % F.base.dim) + 1]])

RECURSIVE IntSum(_, _)
IntSum(f, n)   == IF n = 0 THEN 0 ELSE f[n] + IntSum(f, n - 1)
GSum(g, f, n)  == IF g.p = 2 THEN XorOver(f, 1..n) ELSE IntSum(f, n) % g.p
SumOf(F, f, n) == Tuple([i \in 1..F.dim |-> GSum(F.g, [j \in 1..n |-> f[j][i]], n)])

(* The textbook product.  Here and in Mul a zero operand is taken out      *)
(* first: TLC then evaluates the operands before the product of them.      *)
RECURSIVE Ref(_, _, _), Lower(_, _)
\* The coefficients c of degrees 0, 1, ..., the highest ones replaced one by one.
Lower(F, c) ==
  LET k == Len(c) - F.deg IN
  IF k = 0 THEN Join(F, c)
  ELSE Lower(F, Tuple([j \in 1..(Len(c) - 1) |->
                         IF j < k THEN c[j]
                         ELSE Add(F.base, c[j], Ref(F.base, F.mod[j - k + 1], c[Len(c)]))]))
Ref(F, a, b) ==
  IF Zero(F) \in {a, b} THEN Zero(F)
  ELSE IF F.dim = 1 THEN <<GRef(F.g, a[1], b[1])>>
  ELSE LET term(k, i) == IF k - i \in 0..(F.deg - 1)
                         THEN Ref(F.base, Coef(F, a, i), Coef(F, b, k - i + 1))
                         ELSE Zero(F.base)
       IN Lower(F, Tuple([k \in 1..(2 * F.deg - 1) |->
                            SumOf(F.base, Tuple([i \in 1..F.deg |-> term(k, i)]), F.deg)]))

(* The schoolbook product of the code over a prime field: integer          *)
(* accumulators, folded from the top without a reduction, one reduction    *)
(* at the end.                                                             *)
RECURSIVE Accumulate(_, _)
Accumulate(F, c) ==
  LET k == Len(c) - F.deg IN
  IF k = 0 THEN c
  ELSE Accumulate(F, Tuple([j \in 1..(Len(c) - 1) |->
                              IF j < k THEN c[j] ELSE c[j] + F.mod[j - k + 1][1] * c[Len(c)]]))
Products(F, a, b, k) ==
  IntSum([i \in 1..F.deg |-> IF k - i \in 0..(F.deg - 1) THEN a[i] * b[k - i + 1] ELSE 0], F.deg)
Lazy(F, a, b) ==
  LET c == Accumulate(F, Tuple([k \in 1..(2 * F.deg - 1) |-> Products(F, a, b, k)]))
  IN Tuple([i \in 1..F.deg |-> IF F.mul = "lazy16" THEN Reduce16(F.g.p, c[i])
                                                    ELSE Reduce32(F.g.p, c[i])])

(* The same over GF(16), row by row of b, then folded from the top.        *)
Rows(F, a, b) ==
  LET row == Tuple([i \in 1..F.deg |-> Scale(F, b[i], a)])
      c == [k \in 1..(2 * F.deg - 1) |->
              <<XorOver([i \in 1..F.deg |-> IF k - i \in 0..(F.deg - 1)
                                            THEN row[i][k - i + 1] ELSE {}], 1..F.deg)>>]
  IN Lower(F, Tuple(c))

(* X^2 = 2 over GF(p), on unreduced products.                              *)
Square2(F, a, b) ==
  LET p == F.g.p  leading == a[2] * b[2]  cnst == a[1] * b[1]
  IN <<Reduce32(p, 2 * leading + cnst),
       Reduce32(p, (a[1] + a[2]) * (b[1] + b[2]) + 2 * p * p - leading - cnst)>>

(* Multiplication by t X in X^2 + X + t, t itself of that form one level   *)
(* below.                                                                  *)
RECURSIVE MulTop(_, _)
MulTop(F, a) ==
  LET B == F.base  sum == Add(B, Coef(F, a, 1), Coef(F, a, 2))
  IN IF B.dim = 1
     THEN LET t == F.mod[1][1]
          IN Scale(B, GMul(B.g, t, t), Coef(F, a, 2)) \o Scale(B, t, sum)
     ELSE MulTop(B, MulTop(B, Coef(F, a, 2))) \o MulTop(B, sum)

RECURSIVE Mul(_, _, _)
Karatsuba(F, a, b) ==
  LET B       == F.base
      leading == Mul(B, Coef(F, a, 2), Coef(F, b, 2))
      cnst    == Mul(B, Coef(F, a, 1), Coef(F, b, 1))
      middle  == Mul(B, Add(B, Coef(F, a, 1), Coef(F, a, 2)), Add(B, Coef(F, b, 1), Coef(F, b, 2)))
      folded  == IF F.mul = "top" /\ B.dim > 1 THEN MulTop(B, leading) ELSE Mul(B, leading, F.mod[1])
      low     == Sub(B, middle, cnst)
  IN Add(B, folded, cnst) \o (IF F.g.p = 2 THEN low ELSE Sub(B, low, leading))

(* X^3 = t: the third coefficient from a0+a1+a2 in characteristic two, from *)
(* a0+a2 otherwise.                                                        *)
Cubic(F, a, b) ==
  LET B == F.base
      part(x, S) == SumOf(B, Tuple([i \in 1..3 |-> IF i \in S THEN Coef(F, x, i) ELSE Zero(B)]), 3)
      p(S) == Mul(B, part(a, S), part(b, S))
      lo == Add(B, Mul(B, Sub(B, p({2, 3}), Add(B, p({2}), p({3}))), F.mod[1]), p({1}))
      mid == Sub(B, Sub(B, Add(B, Mul(B, p({3}), F.mod[1]), p({1, 2})), p({1})), p({2}))
      hi == IF F.g.p = 2 THEN Add(B, Add(B, p({1, 2, 3}), p({1, 2})), p({2, 3}))
            ELSE Sub(B, Add(B, Sub(B, p({1, 3}), p({1})), p({2})), p({3}))
  IN lo \o mid \o hi

Mul(F, a, b) ==
  CASE Zero(F) \in {a, b}           -> Zero(F)
    [] F.mul = "ground"             -> Scale(F, a[1], b)
    [] F.mul \in {"lazy16", "lazy32"} -> Lazy(F, a, b)
    [] F.mul = "rows"               -> Rows(F, a, b)
    [] F.mul = "square2"            -> Square2(F, a, b)
    [] F.mul \in {"top", "const"}   -> Karatsuba(F, a, b)
    [] F.mul = "cubic"              -> Cubic(F, a, b)

(* The same product in GF(251^4) with the reductions left to the end.      *)
Gf251to4Alt(F, a, b) ==
  LET p == F.g.p
      m(i) == a[i] * b[i]
      s(i, j) == (a[i] + a[j]) * (b[i] + b[j])
      cnst0 == 2 * m(2) + m(1)
      cnst1 == s(1, 2) + 2 * p * p - m(2) - m(1)
      leading0 == 2 * m(4) + m(3)
      leading1 == s(3, 4) + 2 * p * p - m(4) - m(3)
      all == (a[1] + a[2] + a[3] + a[4]) * (b[1] + b[2] + b[3] + b[4])
  IN <<Reduce32(p, 2 * leading1 + leading0 + cnst0),
       Reduce32(p, leading1 + cnst1 + leading0),
       Reduce32(p, 2 * s(2, 4) + s(1, 3) + 6 * p * p - leading0 - cnst0),
       Reduce32(p, all + 20 * p * p - s(2, 4) - s(1, 3) - leading1 - cnst1)>>

-----------------------------------------------------------------------------
(* Powers and inverses.                                                    *)

(* Squarings and multiplications along the bits of e, highest first.       *)
RECURSIVE Power(_, _, _)
Power(F, a, e) ==
  IF e = 1 THEN a
  ELSE LET h == Power(F, a, e \div 2)  s == Mul(F, h, h)
       IN IF e % 2 = 1 THEN Mul(F, s, a) ELSE s

(* The q-th power as a linear map: blocks of a table held by columns.      *)
Frobenius(F, a) ==
  LET block(i) == CHOOSE t \in {F.frob[j] : j \in DOMAIN F.frob} : i - 1 \in t.dst..(t.dst + t.n - 1)
      term(t, i, j) == GMul(F.g, a[t.src + j], Number(F.g, t.tab[(j - 1) * t.n + i - t.dst]))
  IN Tuple([i \in 1..F.dim |->
              LET t == block(i) IN GSum(F.g, [j \in 1..t.n |-> term(t, i, j)], t.n)])

(* a^(q-2) times the conjugates of a^(q-1), the last one left out.  The    *)
(* test for zero stands in no code: it evaluates r before the next step.   *)
RECURSIVE Conjugates(_, _, _, _)
Conjugates(F, r, hi, n) ==
  IF r = Zero(F) \/ n = 0 THEN r
  ELSE Conjugates(F, Mul(F, Frobenius(F, r), hi), hi, n - 1)
Inverse(F, a) ==
  LET q  == IF F.g.p = 2 THEN 2^F.g.m ELSE F.g.p
      lo == Power(F, a, q - 2)
      hi == Mul(F, lo, a)
  IN Mul(F, Frobenius(F, Conjugates(F, hi, hi, F.dim - 2)), lo)
=============================================================================
