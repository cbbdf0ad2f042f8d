--------------------------- MODULE LibraryFields ---------------------------
(***************************************************************************)
(* The fields of the library, each by the constants its file holds: the    *)
(* modulus, the way the product folds it, and the tables of q-th powers.   *)
(***************************************************************************)
EXTENDS Fields

-----------------------------------------------------------------------------
(* arithmetic/gf16: a tower of quadratic extensions.                       *)

Gf16       == BinaryField(4, {0, 1}, "serial", {})
Above(base, t) == <<Elem(base, t), One(base)>>     \* X^2 + X + t
Gf16to2    == Extension(Ground(Gf16), Above(Ground(Gf16), <<8>>), "top", <<>>)
Gf16to4    == Extension(Gf16to2, Above(Gf16to2, <<0, 8>>), "top", <<>>)
Gf16to8    == Extension(Gf16to4, Above(Gf16to4, <<0, 0, 0, 8>>), "top", <<>>)
Block(dst, src, n, tab) == [dst |-> dst, src |-> src, n |-> n, tab |-> tab]
Gf16to16   == Extension(Gf16to8, Above(Gf16to8, <<0, 0, 0, 0, 0, 0, 0, 8>>), "top",
                        <<Block(0, 0, 16, Gf16to16Pow16)>>)

(* arithmetic/gf256: the same over GF(256), and a cubic extension.         *)
Gf256      == BinaryField(8, {0, 1, 3, 4}, "serial", {})
Gf2to16    == Extension(Ground(Gf256), Above(Ground(Gf256), <<32>>), "top", <<>>)
Gf2to32    == Extension(Gf2to16, Above(Gf2to16, <<0, 32>>), "top", <<>>)
Gf2to64    == Extension(Gf2to32, Above(Gf2to32, <<0, 0, 0, 32>>), "const", <<>>)
Gf2to96    == Extension(Gf2to32, <<Elem(Gf2to32, <<0, 0, 0, 16>>), Zero(Gf2to32), Zero(Gf2to32)>>,
                        "cubic", <<Block(0, 0, 4, Gf2to96Pow256A), Block(4, 4, 4, Gf2to96Pow256B),
                                   Block(8, 8, 4, Gf2to96Pow256C)>>)
Gf2to128   == Extension(Gf2to64, Above(Gf2to64, <<0, 0, 0, 0, 0, 0, 0, 32>>), "const",
                        <<Block(0, 0, 16, Gf2to128Pow256)>>)

(* arithmetic/gf2to31: products bit by bit, squares by a table of spread   *)
(* bits, the inverse as a power.                                           *)
Gf2to31    == BinaryField(31, {0, 3}, "serial", {})
Gf2to31Squ(a) ==
  XorOver([i \in a |-> IF i < 16 THEN {2 * i} ELSE IF i < 30 THEN {2 * i - 31, 2 * i - 28}
                       ELSE {1, 4, 29}], a)
RECURSIVE Ladder(_, _, _)
Ladder(a, r, n) ==
  IF n = 0 \/ r = {} THEN r ELSE Ladder(a, GMul(Gf2to31, GMul(Gf2to31, r, r), a), n - 1)
Gf2to31Inv(a) == LET r == Ladder(a, a, 29) IN GMul(Gf2to31, r, r)

-----------------------------------------------------------------------------
(* arithmetic/mqom/gf31: X^n = mod, products accumulated and folded on     *)
(* integers, one 16-bit reduction.                                         *)

Gf31       == PrimeField(31)
Power31(mod, n) == Extension(Ground(Gf31), [i \in 1..n |-> <<IF i <= Len(mod) THEN mod[i] ELSE 0>>],
                             "lazy16", <<>>)
Gf31to6    == Power31(<<3>>, 6)
Gf31to7    == Power31(<<3, 1>>, 7)
Gf31to8    == Power31(<<1, 0, 1>>, 8)
Gf31to10   == Power31(<<3>>, 10)
Gf31to11   == Power31(<<1, 0, 0, 1>>, 11)

(* arithmetic/gf251.                                                       *)
Gf251      == PrimeField(251)
Root(base, t, deg) == [i \in 1..deg |-> IF i = 1 THEN Elem(base, t) ELSE Zero(base)]   \* X^deg = t
Gf251to2   == Extension(Ground(Gf251), Root(Ground(Gf251), <<2>>, 2), "square2", <<>>)
Gf251to4   == Extension(Gf251to2, Root(Gf251to2, <<1, 1>>, 2), "const", <<>>)
Gf251to5   == Extension(Ground(Gf251), Root(Ground(Gf251), <<3>>, 5), "lazy32", <<>>)
Gf251to7   == Extension(Ground(Gf251), [i \in 1..7 |-> <<IF i <= 2 THEN 1 ELSE 0>>], "lazy32", <<>>)
Gf251to8   == Extension(Gf251to4, Root(Gf251to4, <<1, 0, 0, 1>>, 2), "const", <<>>)
Gf251to12  == Extension(Gf251to4, Root(Gf251to4, <<1, 0, 0, 1>>, 3), "cubic",
                        <<Block(0, 0, 4, Gf251to12Pow251A), Block(4, 8, 4, Gf251to12Pow251B),
                          Block(8, 4, 4, Gf251to12Pow251C)>>)
Gf251to16  == Extension(Gf251to8, Root(Gf251to8, <<1, 0, 0, 0, 0, 0, 0, 1>>, 2), "const",
                        <<Block(0, 0, 4, Gf251to16Pow251A), Block(4, 4, 4, Gf251to16Pow251B),
                          Block(8, 8, 8, Gf251to16Pow251C)>>)

(* arithmetic/mqom/gf251 repeats four of them.                             *)
MqomGf251    == Gf251
MqomGf251to2 == Gf251to2
MqomGf251to4 == Gf251to4
MqomGf251to5 == Gf251to5
MqomGf251to7 == Gf251to7

-----------------------------------------------------------------------------
(* mira: GF(16) by a carry-less product folded once; the extension of      *)
(* degree 16 is the tower above, those of degree 19 and 23 are row by row, *)
(* and their q-th power is four squarings.                                 *)

MiraGf16    == BinaryField(4, {0, 1}, "fold", {4})
On(g, F)    == [F EXCEPT !.g = g]       \* the same extension, products over g
RECURSIVE OnMira(_)
OnMira(F)   == IF F.dim = 1 THEN Ground(MiraGf16)
               ELSE [On(MiraGf16, F) EXCEPT !.base = OnMira(F.base)]
Mira128     == OnMira(Gf16to16)
MiraRows(taps, n) ==
  Extension(Ground(MiraGf16), [i \in 1..n |-> <<IF i - 1 \in taps THEN {0} ELSE {}>>], "rows", <<>>)
Mira192     == MiraRows({0, 1, 2, 5}, 19)
Mira256     == MiraRows({0, 5}, 23)

MiraPow16(F, a) == IF F.deg = 2 THEN Frobenius(F, a)
                   ELSE LET sq(x) == Mul(F, x, x) IN sq(sq(sq(sq(a))))
MiraPow15(F, a) ==
  LET a2 == Mul(F, a, a)  a4 == Mul(F, a2, a2)  a12 == Mul(F, Mul(F, a4, a4), a4)
  IN Mul(F, Mul(F, a12, a2), a)

(* ryde: a carry-less product folded once; bits that the fold brings above *)
(* the degree come back through the further shifts.                        *)
Rbc31       == BinaryField(31, {0, 3}, "fold", {31, 59})
Rbc37       == BinaryField(37, {0, 1, 4, 6}, "fold", {37, 68, 70})
Rbc43       == BinaryField(43, {0, 3, 4, 6}, "fold", {43, 80, 82, 83})

(* aimer: words of 64 bits.                                                *)
Aim128      == BinaryField(128, {0, 1, 2, 7}, "words", {})
Aim192      == BinaryField(192, {0, 1, 2, 7}, "words", {})
Aim256      == BinaryField(256, {0, 2, 5, 10}, "words", {})

\* A square: the bits spread out, then the reduction of the field.
GSqr(g, a) ==
  LET spread == {2 * i : i \in a}
  IN IF g.mul = "fold" THEN FoldOnce(g, spread) ELSE WordReduce(g, spread, 2 * (g.m \div 64) - 1)
RECURSIVE Sqrs(_, _, _)
Sqrs(g, a, n) == IF n = 0 \/ a = {} THEN a ELSE Sqrs(g, GSqr(g, a), n - 1)
=============================================================================
