--------------------------- MODULE ArithmeticFiles ---------------------------
(***************************************************************************)
(* The arithmetic files of the library one by one.  The code has a copy of *)
(* each function for every field; here a copy is the operator of Fields,   *)
(* Vectors, RankMetric or Aim at the constants of its file.  A call is a   *)
(* record c whose op names the function, the other entries its arguments.  *)
(***************************************************************************)
EXTENDS RankMetric, Aim, PackedMatrix

MatOf(g, c) ==
  CASE c.op = "matcols"    -> MatCols(g, c)
    [] c.op = "matrows"    -> MatRows(g, c)
    [] c.op = "scaled"     -> MatColsScaled(g, c)
    [] c.op = "triangular" -> Triangular(g, c)
    [] c.op = "wide"       -> Wide(g, c, 128)
    [] c.op = "batched"    -> Batched(g, c.m, c.y, c.size)
    [] c.op = "matmult"    -> MatMult(g, c.z, c.m, c.y, c.nb, c.size)

(* arithmetic/gf16 *)
Gf16Tab(c)           == Tab(Gf16, c)
Gf16Mat(c)           == MatOf(Gf16, c)
Gf16Strings(c)       == IF c.op = "compress" THEN Gf16Compress(c.v) ELSE Gf16Decompress(c.buf, c.n)
Gf16RandomOf(c)      == Gf16Random(c.bytes, c.n)
Gf16to16Pow16Of(a)   == Frobenius(Gf16to16, a)
Gf16to16Inv(a)       == Inverse(Gf16to16, a)

(* arithmetic/gf256 *)
Gf256Tab(c)          == Tab(Gf256, c)
Gf256Batched(c)      == MatOf(Gf256, c)
Gf256Mat(c)          == MatOf(Gf256, c)
Gf256RandomOf(c)     == Gf256Random(c.bytes, c.n)
Gf2to96Pow256Of(a)   == Frobenius(Gf2to96, a)
Gf2to96Inv(a)        == Inverse(Gf2to96, a)
Gf2to128Pow256Of(a)  == Frobenius(Gf2to128, a)
Gf2to128Inv(a)       == Inverse(Gf2to128, a)

(* arithmetic/gf2to31 *)
Gf2to31Tab(c)        == Tab(Gf2to31, c)
Gf2to31Mat(c)        == MatOf(Gf2to31, c)
Gf2to31RandomOf(c)   == Gf2to31Random(c.bytes, c.n)

(* arithmetic/gf251 *)
Gf251Tab(c)          == IF c.op = "add_many" THEN AddMany(Gf251, c.z, c.x) ELSE Tab(Gf251, c)
Gf251InnerProduct(c) == Dot(Gf251, c.x, c.y, Len(c.x), 0)
Gf251Mat(c)          == MatOf(Gf251, c)
Gf251RandomX4(c)     == RandomX4(251, c.lanes, c.n)
Gf251to12Pow251Of(a) == Frobenius(Gf251to12, a)
Gf251to12Inv(a)      == Inverse(Gf251to12, a)
Gf251to16Pow251Of(a) == Frobenius(Gf251to16, a)
Gf251to16Inv(a)      == Inverse(Gf251to16, a)

(* arithmetic/mqom: the two ground fields, with matrices whose columns     *)
(* start lower and lower.                                                  *)
MqomGf251Tab(c)          == Tab(MqomGf251, c)
MqomGf251InnerProduct(c) == Dot(MqomGf251, c.x, c.y, Len(c.x), 0)
MqomGf251Mat(c)          == MatOf(MqomGf251, c)
MqomGf251Random(c)       == Gf251Random(c.bytes, c.n)
MqomGf251RandomX4(c)     == RandomX4(251, c.lanes, c.n)
Gf31Tab(c)               == Tab(Gf31, c)
Gf31InnerProduct(c)      == Dot(Gf31, c.x, c.y, Len(c.x), 0)
Gf31Mat(c)               == MatOf(Gf31, c)
Gf31Strings(c)           == IF c.op = "compress" THEN Gf31Compress(c.v) ELSE Gf31Decompress(c.buf, c.n)
Gf31RandomX4(c)          == RandomX4(31, c.lanes, c.n)

-----------------------------------------------------------------------------
(* mira, one copy for each parameter set.                                  *)

MiraMat(c) ==
  CASE c.op = "random"      -> Gf16Random(c.bytes, c.n)
    [] c.op = "add"         -> [i \in 1..Len(c.z) |-> Xor(c.z[i], c.x[i])]
    [] c.op = "scalar_mul"  -> [i \in 1..Len(c.z) |-> GMul(MiraGf16, c.z[i], c.y)]
    [] c.op = "matmult"     -> MatMult(MiraGf16, c.z, c.m, c.y, c.nb, c.size)
    [] c.op = "to_string"   -> MiraToString(c.v)
    [] c.op = "from_string" -> MiraFromString(c.buf, c.n)
\* Elements one after the other; an odd last entry fills the low half.
MiraStrings(F, c) ==
  IF c.op = "to_string" THEN MiraToString([i \in 1..(F.dim * Len(c.v)) |->
                               c.v[((i - 1) \div F.dim) + 1][((i - 1) % F.dim) + 1]])
  ELSE LET flat == MiraFromString(c.buf, F.dim * c.n)
       IN [i \in 1..c.n |-> SubSeq(flat, (i - 1) * F.dim + 1, i * F.dim)]

Mira128Mul(a, b)     == Mul(Mira128, a, b)
Mira128Mat(c)        == MiraMat(c)
Mira128Pow(a)        == [p15 |-> MiraPow15(Mira128, a), p16 |-> MiraPow16(Mira128, a)]
Mira128Vec(c)        == MiraVec(Mira128, c)
Mira128Strings(c)    == MiraStrings(Mira128, c)
Mira128Qpoly(c)      == MiraQpoly(Mira128, c)
Mira192Mul(a, b)     == Mul(Mira192, a, b)
Mira192Mat(c)        == MiraMat(c)
Mira192Pow(a)        == [p15 |-> MiraPow15(Mira192, a), p16 |-> MiraPow16(Mira192, a)]
Mira192Vec(c)        == MiraVec(Mira192, c)
Mira192Strings(c)    == MiraStrings(Mira192, c)
Mira192Qpoly(c)      == MiraQpoly(Mira192, c)
Mira256Mul(a, b)     == Mul(Mira256, a, b)
Mira256Mat(c)        == MiraMat(c)
Mira256Pow(a)        == [p15 |-> MiraPow15(Mira256, a), p16 |-> MiraPow16(Mira256, a)]
Mira256Vec(c)        == MiraVec(Mira256, c)
Mira256Strings(c)    == MiraStrings(Mira256, c)
Mira256Qpoly(c)      == MiraQpoly(Mira256, c)

-----------------------------------------------------------------------------
(* ryde, one copy for each degree.                                         *)

RydeStrings(g, c) == IF c.op = "to_string" THEN RydeToString(g, c.v) ELSE RydeFromString(g, c.buf, c.n)
Eliminate(c)      == IF c.op = "rank" THEN GetRank(c.v) ELSE Gauss(c.v, c.w, 1, c.op = "reduced")

Rbc31Mul(a, b)       == GMul(Rbc31, a, b)
Rbc31Sqr(a)          == GSqr(Rbc31, a)
Rbc31Vec(c)          == RydeVec(Rbc31, c)
Rbc31Mat(c)          == RydeVec(Rbc31, c)
Rbc31Random(c)       == RydeFromBytes(Rbc31, c.buf, c.n)
Rbc31FullRank(c)     == FullRankWithOne(Rbc31, c.draws, 1)
Rbc31FromSupport(c)  == FromSupport(c.n, c.v, c.bytes, c.copy)
Rbc31Gauss(c)        == Eliminate(c)
Rbc31Strings(c)      == RydeStrings(Rbc31, c)
Rbc31FromBytes(c)    == RydeFromBytes(Rbc31, c.buf, c.n)
Rbc31Qpoly(c)        == RydeQpoly(Rbc31, c)
Rbc37Mul(a, b)       == GMul(Rbc37, a, b)
Rbc37Sqr(a)          == GSqr(Rbc37, a)
Rbc37Vec(c)          == RydeVec(Rbc37, c)
Rbc37Mat(c)          == RydeVec(Rbc37, c)
Rbc37Random(c)       == RydeFromBytes(Rbc37, c.buf, c.n)
Rbc37FullRank(c)     == FullRankWithOne(Rbc37, c.draws, 1)
Rbc37FromSupport(c)  == FromSupport(c.n, c.v, c.bytes, c.copy)
Rbc37Gauss(c)        == Eliminate(c)
Rbc37Strings(c)      == RydeStrings(Rbc37, c)
Rbc37FromBytes(c)    == RydeFromBytes(Rbc37, c.buf, c.n)
Rbc37Qpoly(c)        == RydeQpoly(Rbc37, c)
Rbc43Mul(a, b)       == GMul(Rbc43, a, b)
Rbc43Sqr(a)          == GSqr(Rbc43, a)
Rbc43Vec(c)          == RydeVec(Rbc43, c)
Rbc43Mat(c)          == RydeVec(Rbc43, c)
Rbc43Random(c)       == RydeFromBytes(Rbc43, c.buf, c.n)
Rbc43FullRank(c)     == FullRankWithOne(Rbc43, c.draws, 1)
Rbc43FromSupport(c)  == FromSupport(c.n, c.v, c.bytes, c.copy)
Rbc43Gauss(c)        == Eliminate(c)
Rbc43Strings(c)      == RydeStrings(Rbc43, c)
Rbc43FromBytes(c)    == RydeFromBytes(Rbc43, c.buf, c.n)
Rbc43Qpoly(c)        == RydeQpoly(Rbc43, c)

-----------------------------------------------------------------------------
(* aimer, one copy for each field.                                         *)

Aimer192 == [g |-> Aim192, first |-> <<5, 29>>, last |-> 7, tape |-> 4752]
Aimer256 == [g |-> Aim256, first |-> <<3, 53, 7>>, last |-> 5, tape |-> 8384]

E2PowerMatrix128(k)   == E2PowerMatrix(Aimer128, k)
E2PowerMatrix192(k)   == E2PowerMatrix(Aimer192, k)
E2PowerMatrix256(k)   == E2PowerMatrix(Aimer256, k)

MatricesOf(g, tape)   == [lower |-> LowerMatrix(g, tape), upper |-> UpperMatrix(g, tape)]

Aim128Sqr(a)          == GSqr(Aim128, a)
Aim128MatMul(rows, a) == MatMul(rows, a)
Aim128Exp(e, a)       == Mersenne(Aim128, e, a)
Aim128E2Power(a)      == XorOver([k \in a |-> E2PowerMatrix128(k)], a)
Aim128Matrices(tape)  == MatricesOf(Aim128, tape)
Aim128LU(c)           == MatrixLU(c.lower, c.upper)
Aim128Sboxes(pt)      == Layer(Aimer128, pt)
Aim128Of(c)           == AimOf(Aimer128, c.lower, c.upper, c.b, c.pt)
Aim128Mpc(c)          == AimMpc(Aimer128, c.matrix, c.b, c.ct, c.pt, c.t, c.offset)
Aim192Sqr(a)          == GSqr(Aim192, a)
Aim192MatMul(rows, a) == MatMul(rows, a)
Aim192Exp(e, a)       == Mersenne(Aim192, e, a)
Aim192E2Power(a)      == XorOver([k \in a |-> E2PowerMatrix192(k)], a)
Aim192Matrices(tape)  == MatricesOf(Aim192, tape)
Aim192LU(c)           == MatrixLU(c.lower, c.upper)
Aim192Sboxes(pt)      == Layer(Aimer192, pt)
Aim192Of(c)           == AimOf(Aimer192, c.lower, c.upper, c.b, c.pt)
Aim192Mpc(c)          == AimMpc(Aimer192, c.matrix, c.b, c.ct, c.pt, c.t, c.offset)
Aim256Sqr(a)          == GSqr(Aim256, a)
Aim256MatMul(rows, a) == MatMul(rows, a)
Aim256Exp(e, a)       == Mersenne(Aim256, e, a)
Aim256E2Power(a)      == XorOver([k \in a |-> E2PowerMatrix256(k)], a)
Aim256Matrices(tape)  == MatricesOf(Aim256, tape)
Aim256LU(c)           == MatrixLU(c.lower, c.upper)
Aim256Sboxes(pt)      == Layer(Aimer256, pt)
Aim256Of(c)           == AimOf(Aimer256, c.lower, c.upper, c.b, c.pt)
Aim256Mpc(c)          == AimMpc(Aimer256, c.matrix, c.b, c.ct, c.pt, c.t, c.offset)
=============================================================================
