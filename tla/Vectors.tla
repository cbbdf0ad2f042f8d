------------------------------- MODULE Vectors -------------------------------
(***************************************************************************)
(* The operations of the field files on arrays: the _tab functions,        *)
(* matrices in their several layouts, polynomials, the packed bytes of a   *)
(* vector, and the samplers.  Arrays are sequences of ground elements, a   *)
(* packed buffer is the set of the positions of its ones, bit b of byte B  *)
(* at position 8 B + b.                                                    *)
(***************************************************************************)
EXTENDS LibraryFields

-----------------------------------------------------------------------------
(* Element by element.  In a prime field a product and a sum share one     *)
(* 16-bit reduction.                                                       *)

MulPlus(g, a, b, c) ==
  IF g.mul = "reduce" THEN Reduce16(g.p, c + a * b) ELSE Xor(c, GMul(g, a, b))

\* c.op on the arrays c.z and c.x and the scalar c.y.
Tab(g, c) ==
  [i \in 1..Len(c.z) |->
    CASE c.op = "add"         -> GAdd(g, c.z[i], c.x[i])
      [] c.op = "sub"         -> GSub(g, c.z[i], c.x[i])
      [] c.op = "neg"         -> GNeg(g, c.z[i])
      [] c.op = "mul"         -> GMul(g, c.x[i], c.y)
      [] c.op = "muladd"      -> MulPlus(g, c.x[i], c.y, c.z[i])
      [] c.op = "mul_and_add" -> MulPlus(g, c.z[i], c.y, c.x[i])]

(* z plus the inner product of x and y, both of length n: 32-bit sums and  *)
(* one reduction in a prime field.                                         *)
Dot(g, x, y, n, z) ==
  LET term == [i \in 1..n |-> IF g.p = 2 THEN GMul(g, x[i], y[i]) ELSE x[i] * y[i]]
  IN IF g.p = 2 THEN Xor(z, XorOver(term, 1..n)) ELSE Reduce32(g.p, IntSum(term, n) + z)

AddMany(g, z, xs) ==
  [i \in 1..Len(z) |-> Reduce32(g.p, IntSum([j \in 1..Len(xs) |-> xs[j][i]], Len(xs)) + z[i])]

-----------------------------------------------------------------------------
(* Matrices, c.m read along its layout: nb coefficients c.y, c.size rows.  *)

Column(m, rows, i)  == [j \in 1..(Len(m) \div rows) |-> m[(j - 1) * rows + i]]
MatCols(g, c)       == [i \in 1..c.size |-> Dot(g, Column(c.m, c.size, i), c.y, c.nb, c.z[i])]
MatRows(g, c)       == [i \in 1..c.size |-> Dot(g, SubSeq(c.m, (i - 1) * c.nb + 1, i * c.nb),
                                                c.y, c.nb, c.z[i])]
\* Only every scale-th entry of y and z takes part.
MatColsScaled(g, c) ==
  [k \in 1..Len(c.z) |->
    IF (k - 1) % c.scale # 0 \/ (k - 1) \div c.scale >= c.size THEN c.z[k]
    ELSE Dot(g, Column(c.m, c.size, (k - 1) \div c.scale + 1),
             [j \in 1..c.nb |-> c.y[c.scale * (j - 1) + 1]], c.nb, c.z[k])]
\* Column j starts at row (j-1) step, and the entries above are not stored.
Triangular(g, c) ==
  LET at(i, j) == (j - 1) * c.size - c.step * (((j - 1) * (j - 2)) \div 2) + i - (j - 1) * c.step
      below(i) == {j \in 1..c.nb : i > (j - 1) * c.step}
  IN [i \in 1..c.size |->
       Reduce32(g.p, IntSum([j \in 1..c.nb |-> IF j \in below(i) THEN c.m[at(i, j)] * c.y[j] ELSE 0],
                            c.nb) + c.z[i])]
\* C + A B, row by row: A is m x n, B is n x p.
MatMult(g, C, A, B, n, p) ==
  [k \in 1..Len(C) |->
    LET r == (k - 1) \div p IN
    Dot(g, SubSeq(A, r * n + 1, (r + 1) * n), Column(B, p, ((k - 1) % p) + 1), n, C[k])]
\* n_batched inner products at once, interleaved.
Batched(g, a, b, batch) ==
  [j \in 1..batch |-> Dot(g, Column(a, batch, j), b, Len(b), GZero(g))]
\* Blocks of width rows, one after the other.
Wide(g, c, width) ==
  [i \in 1..c.size |->
    LET pack == (i - 1) \div width
        entry(j) == c.m[(j - 1) * ((c.size \div width) * width) + width * pack + ((i - 1) % width) + 1]
    IN Dot(g, [j \in 1..c.nb |-> entry(j)], c.y, c.nb, c.z[i])]

-----------------------------------------------------------------------------
(* Bit matrices: a column, or a row, is the set of its ones, the padding   *)
(* of its last byte included.                                              *)
Gf2Padded(n)             == 0..(8 * ((n + 7) \div 8) - 1)
Gf2Clean(mat, n)         == [i \in DOMAIN mat |-> mat[i] \cap 0..(n - 1)]
Gf2Product(C, left, right, n) ==
  Tuple([i \in 1..Len(C) |-> Xor(C[i], XorOver(right, {j \in 1..n : j - 1 \in left[i]}))])
Gf2MultCols(C, A, B, n)  == Gf2Product(C, B, A, n)
Gf2MultRows(C, A, B, n)  == Gf2Product(C, A, B, n)

-----------------------------------------------------------------------------
(* Polynomials over F, the constant term first: Horner's rule from the top *)
(* down to coefficient i, over a field or in an extension of it.           *)

RECURSIVE Horner(_, _, _, _)
Horner(F, poly, point, i) ==
  IF i = Len(poly) THEN poly[i]
  ELSE Add(F, Mul(F, Horner(F, poly, point, i + 1), point), poly[i])
EvalPoly(F, poly, point)      == Horner(F, poly, point, 1)
EvalMonic(F, poly, point)     == Horner(F, Append(poly, One(F)), point, 1)
Embed(F, poly)                == [i \in 1..Len(poly) |-> Tuple([k \in 1..F.dim |->
                                                        IF k = 1 THEN poly[i][1] ELSE GZero(F.g)])]
EvalInExt(F, poly, point)     == EvalPoly(F, Embed(F, poly), point)
EvalMonicInExt(F, poly, point) == EvalMonic(F, Embed(F, poly), point)
\* The quotient by X - alpha is what Horner's rule leaves on its way.
RemoveFactor(F, poly, alpha)  ==
  Tuple([i \in 1..(Len(poly) - 1) |-> Horner(F, poly, alpha, i + 1)])
RemoveMonicFactor(F, poly, alpha) == RemoveFactor(F, Append(poly, One(F)), alpha)

-----------------------------------------------------------------------------
(* Packed bytes.  GF(16), two to a byte: the first in the high half, a     *)
(* last one alone in the low half, where it is read back unmasked.         *)

HighFirst(n, i)          == 8 * ((i - 1) \div 2) + (IF i % 2 = 1 /\ i < n THEN 4 ELSE 0)
Gf16Compress(v)          == UNION {Shift(v[i], HighFirst(Len(v), i)) : i \in 1..Len(v)}
Window(buf, from, n)     == {b - from : b \in buf \cap from..(from + n - 1)}
Gf16Decompress(buf, n)   ==
  [i \in 1..n |-> Window(buf, HighFirst(n, i), IF i = n /\ n % 2 = 1 THEN 8 ELSE 4)]

\* Five bits each, one after the other.
Gf31Compress(v)          == UNION {Shift(Bits(v[i]), 5 * (i - 1)) : i \in 1..Len(v)}
RECURSIVE ValueOf(_)
ValueOf(bits)            == IF bits = {} THEN 0
                            ELSE LET b == Highest(bits) IN 2^b + ValueOf(bits \ {b})
Gf31Decompress(buf, n)   == [i \in 1..n |-> ValueOf(Window(buf, 5 * (i - 1), 5))]

\* mira: four bits each, the first in the low half.
MiraToString(v)          == UNION {Shift(v[i], 4 * (i - 1)) : i \in 1..Len(v)}
MiraFromString(buf, n)   == [i \in 1..n |-> Window(buf, 4 * (i - 1), 4)]

\* ryde: the whole bytes of every element, then what is left of each, from
\* the highest exponent down.
RydePlace(m, n, i, e)    ==
  LET whole == m \div 8  rest == m % 8
  IN IF e < 8 * whole THEN 8 * whole * (i - 1) + e
     ELSE 8 * whole * n + rest * (i - 1) + m - 1 - e
RydeToString(g, v)       == UNION {{RydePlace(g.m, Len(v), i, e) : e \in v[i]} : i \in 1..Len(v)}
RydeFromString(g, buf, n) ==
  [i \in 1..n |-> {e \in 0..(g.m - 1) : RydePlace(g.m, n, i, e) \in buf}]
\* The masks on whole bytes of a fresh random vector.
RydeFromBytes(g, buf, n) ==
  [i \in 1..n |-> Window(buf, 8 * ((g.m + 7) \div 8) * (i - 1), g.m)]

-----------------------------------------------------------------------------
(* Samplers.  The generator is a sequence of bytes; a sampler returns the  *)
(* vector and how many bytes it took.                                      *)

Nibbles(bytes, n) ==
  [i \in 1..n |-> LET byte == Bits(bytes[(i + 1) \div 2])
                  IN IF i % 2 = 1 THEN Window(byte, 0, 4) ELSE Window(byte, 4, 4)]
Gf16Random(bytes, n)     == [v |-> Nibbles(bytes, n), used |-> (n + 1) \div 2]
Gf2to31Random(bytes, n)  ==
  [v    |-> [i \in 1..n |-> Below(UNION {Shift(Bits(bytes[4 * (i - 1) + k]), 8 * (k - 1)) : k \in 1..4}, 31)],
   used |-> 4 * n]
Gf256Random(bytes, n)    == [v |-> [i \in 1..n |-> Bits(bytes[i])], used |-> n]

\* Modulo 251: the array is filled, what is too large is squeezed out, and
\* only the missing part is drawn again.
RECURSIVE Gf251Fill(_, _, _, _)
Gf251Fill(bytes, n, v, used) ==
  IF Len(v) = n THEN [v |-> v, used |-> used]
  ELSE Gf251Fill(bytes, n,
                 v \o SelectSeq(SubSeq(bytes, used + 1, used + n - Len(v)), LAMBDA b : b < 251),
                 used + n - Len(v))
Gf251Random(bytes, n)    == Gf251Fill(bytes, n, <<>>, 0)

\* Four at a time: fixed buffers, drawn until all four lanes are full.
FirstOf(s, n)            == IF Len(s) <= n THEN s ELSE SubSeq(s, 1, n)
Accepted251(bytes)       == SelectSeq(bytes, LAMBDA b : b < 251)
Gf251Buffer(n)           == n + n \div 16
\* Modulo 31: groups of five bytes give eight values of five bits.
Fives(bytes)             ==
  LET buf == UNION {Shift(Bits(bytes[i]), 8 * (i - 1)) : i \in 1..Len(bytes)}
  IN [k \in 1..((8 * Len(bytes)) \div 5) |-> ValueOf(Window(buf, 5 * (k - 1), 5))]
Accepted31(bytes)        == SelectSeq(Fives(bytes), LAMBDA x : x < 31)
Gf31Buffer(n)            == 5 * ((n + n \div 16 + 7) \div 8)

Accepted(p, bytes)       == IF p = 31 THEN Accepted31(bytes) ELSE Accepted251(bytes)
BufferOf(p, n)           == IF p = 31 THEN Gf31Buffer(n) ELSE Gf251Buffer(n)
RECURSIVE Refill(_, _, _, _)
Refill(p, lanes, n, rounds) ==
  LET used == rounds * BufferOf(p, n)
      vs   == [l \in DOMAIN lanes |-> Accepted(p, SubSeq(lanes[l], 1, used))]
  IN IF \A l \in DOMAIN lanes : Len(vs[l]) >= n
     THEN [v |-> [l \in DOMAIN lanes |-> FirstOf(vs[l], n)], used |-> used]
     ELSE Refill(p, lanes, n, rounds + 1)
RandomX4(p, lanes, n)    == Refill(p, lanes, n, 1)
Gf31Random(bytes, n)     == LET r == Refill(31, <<bytes>>, n, 1) IN [v |-> r.v[1], used |-> r.used]
=============================================================================
