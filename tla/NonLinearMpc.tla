----------------------------- MODULE NonLinearMpc -----------------------------
(***************************************************************************)
(* The multiparty protocols of the signatures on non-linear arithmetic:    *)
(* mpc/mq/fr23 and mpc/sd/fr23, and their ring versions mq/fr23-ring and   *)
(* sd/fr23-ring, where the instance is selected in secret in a ring of     *)
(* public keys by the product of "sides", one-hot vectors.                 *)
(*                                                                         *)
(* The share of party i is the value at i of a vector of polynomials of    *)
(* degree 1, plain + i * rnd, and party 0 stands for infinity: its share   *)
(* is rnd.  What a party broadcasts is the value of a polynomial of degree *)
(* depth in i, whose constant term is zero when the secret is right.       *)
(*                                                                         *)
(* There is one equation in one unknown (mq), or a code of length 2, of    *)
(* dimension 1 and weight 1 (sd), and PARAM_eta is 1.                      *)
(***************************************************************************)
EXTENDS Packing

FX == INSTANCE FiniteSetsExt

\* A circuit: [problem, sel, ring, sides], where sel is PARAM_SELECTOR_DEGREE, 0 out of
\* the ring signatures, ring is the size of the ring, and sides are as Circuit says.
Depth(c) ==
  IF c.problem = "sd" THEN (IF c.sel = 0 THEN 2 ELSE c.sel + 1)
  ELSE IF c.sel < 2 THEN 2 ELSE c.sel

Sum(S, f(_)) == F(FX!MapThenSumSet(LAMBDA k : F(f(k)), S))

-----------------------------------------------------------------------------
(* Selectors.                                                              *)

\* The binary search of the largest r such that r^root <= x, for root >= 2.
SqrtFloor(x, root) ==
  LET search[start \in 1..(x + 1), end \in 0..x, ans \in 0..x] ==
        LET mid == (start + end) \div 2
        IN  CASE start > end   -> ans
              [] mid^root = x  -> mid
              [] mid^root < x  -> search[mid + 1, end, mid]
              [] OTHER         -> search[start, mid - 1, ans]
  IN  IF x \in {0, 1} THEN x ELSE search[1, x \div 2, 0]

\* get_sharing_info: all sides are the root but the last one.
Sides(sel, ring) ==
  LET root == IF sel = 1 THEN 1 ELSE SqrtFloor(ring, sel)
      others == root^(sel - 1)
  IN  [k \in 0..(sel - 1) |-> IF k < sel - 1 THEN root ELSE (ring + others - 1) \div others]
Circuit(problem, sel, ring) ==
  [problem |-> problem, sel |-> sel, ring |-> ring, sides |-> Sides(sel, ring)]
RingAccepted(c) == c.sides[c.sel - 1] <= Q

Degrees(c) == 0..(c.sel - 1)
Offset(c, k) == FX!MapThenSumSet(LAMBDA j : c.sides[j], 0..(k - 1))
\* The place of the position of side k in the array.
PosAt(c, k) == Offset(c, c.sel) + k
SelIndex(c) == IF c.sel = 0 THEN {} ELSE 0..(PosAt(c, c.sel) - 1)

\* The digits of a position in the ring, the last side first; div_ct divides.
Digit(c, pos, k) ==
  LET rest[j \in 0..(c.sel - 1)] ==
        IF j = c.sel - 1 THEN pos ELSE rest[j + 1] \div c.sides[j + 1]
  IN  rest[k] % c.sides[k]

BuildSelector(c, pos) ==
  [j \in SelIndex(c) |->
     IF \E k \in Degrees(c) : j = PosAt(c, k)
     THEN Digit(c, pos, CHOOSE k \in Degrees(c) : j = PosAt(c, k))
     ELSE IF \E k \in Degrees(c) : j = Offset(c, k) + Digit(c, pos, k) THEN 1 ELSE 0]

\* The selector of a position: the product of its entries in the sides.
Selected(c, sel, pos) ==
  LET upto[k \in 0..c.sel] ==
        IF k = 0 THEN 1 ELSE F(upto[k - 1] * sel[Offset(c, k - 1) + Digit(c, pos, k - 1)])
  IN  upto[c.sel]

-----------------------------------------------------------------------------
(* vec_share_t: the witness, the uniform values, the value of the degree   *)
(* check (threshold-mt only) and the selector.                             *)

Vector(S, f(_)) == [j \in S |-> F(f(j))]
SharePlus(s, t) == [part \in DOMAIN s |-> Vector(DOMAIN s[part], LAMBDA j : s[part][j] + t[part][j])]
ShareTimes(k, s) == [part \in DOMAIN s |-> Vector(DOMAIN s[part], LAMBDA j : k * s[part][j])]

UnifIndex(c) == 0..(Depth(c) - 2)
WitSize(c) == IF c.problem = "sd" THEN 2 ELSE 1

-----------------------------------------------------------------------------
(* A key pair: the template of the instance, which the keys of a ring      *)
(* share, its image y, and a solution.                                     *)

MqKey(A, b, x) == [tmpl |-> [A |-> A, b |-> b], y |-> F(A * x * x + b * x), wit |-> <<x>>]
\* The word has one non-zero coordinate v at pos: the polynomial is X - pos.
SdKey(H, pos, v) ==
  LET xA == IF pos = 0 THEN v ELSE 0
      xB == IF pos = 1 THEN v ELSE 0
  IN  [tmpl |-> [H |-> H], y |-> F(xB + H * xA), wit |-> <<xA, F(-pos)>>]
PublicKey(key) == [tmpl |-> key.tmpl, y |-> key.y]

-----------------------------------------------------------------------------
(* mpc_emulate_party.  Party 0 computes the coefficient of degree depth,   *)
(* to which only the terms of that degree contribute.                      *)

MaskOpen(c, s, i) == Sum(UnifIndex(c), LAMBDA k : F(i^(k + 1)) * s.unif[k])
MaskTop(c, s)     == s.unif[Depth(c) - 2]

\* The image of the selected key, of degree sel in i.
Image(c, s, ring) == Sum(DOMAIN ring, LAMBDA p : ring[p].y * Selected(c, s.sel, p))

Quadratic(x, tmpl) == tmpl.A * F(x * x)
MqOpen(c, g, s, i, tmpl, y) ==
  MaskOpen(c, s, i) + g[0] * F(Quadratic(s.wit[1], tmpl) + tmpl.b * s.wit[1] - y)

\* The polynomial at the coordinates 0 and 1, of leading coefficient lead, times the
\* coordinates of the word.
Word(g, wit, lead, xB) == g[0] * F(wit[2] * wit[1]) + g[1] * F((wit[2] + lead) * F(xB))
SdOpen(c, g, s, i, tmpl, y) == MaskOpen(c, s, i) + Word(g, s.wit, 1, y - tmpl.H * s.wit[1])

\* The entries of a side are zero but at its position, and one position is selected.
Entries(c, g, sel, step) ==
  Sum(Degrees(c), LAMBDA k : Sum(0..(c.sides[k] - 1), LAMBDA j :
    g[2 + Offset(c, k) + j] * F(sel[Offset(c, k) + j] * (step * j - sel[PosAt(c, k)]))))
Total(c, g, sel, constant) ==
  g[2 + Offset(c, c.sel)] * F(Sum(0..(c.ring - 1), LAMBDA p : Selected(c, sel, p)) - constant)
SelOpen(c, g, sel)    == Entries(c, g, sel, 1) + Total(c, g, sel, 1)
EntriesTop(c, g, sel) == Entries(c, g, sel, 0)
TotalTop(c, g, sel)   == Total(c, g, sel, 0)

MqEmulate(c, g, s, i, tmpl, y) ==
  IF i # 0 THEN MqOpen(c, g, s, i, tmpl, y)
  ELSE MaskTop(c, s) + g[0] * F(Quadratic(s.wit[1], tmpl))
MqSel1(c, g, s, i, tmpl, y) ==
  IF i # 0 THEN MqOpen(c, g, s, i, tmpl, y) + SelOpen(c, g, s.sel)
  ELSE MaskTop(c, s) + g[0] * F(Quadratic(s.wit[1], tmpl)) + EntriesTop(c, g, s.sel)
MqSel2(c, g, s, i, tmpl, y) ==
  IF i # 0 THEN MqOpen(c, g, s, i, tmpl, y) + SelOpen(c, g, s.sel)
  ELSE MaskTop(c, s) + g[0] * F(Quadratic(s.wit[1], tmpl) - y)
         + EntriesTop(c, g, s.sel) + TotalTop(c, g, s.sel)
MqSel3(c, g, s, i, tmpl, y) ==
  IF i # 0 THEN MqOpen(c, g, s, i, tmpl, y) + SelOpen(c, g, s.sel)
  ELSE MaskTop(c, s) - g[0] * y + TotalTop(c, g, s.sel)
MqSel4(c, g, s, i, tmpl, y) == MqSel3(c, g, s, i, tmpl, y)

SdEmulate(c, g, s, i, tmpl, y) ==
  IF i # 0 THEN SdOpen(c, g, s, i, tmpl, y)
  ELSE MaskTop(c, s) + Word(g, s.wit, 0, -(tmpl.H * s.wit[1]))
SdSel1(c, g, s, i, tmpl, y) ==
  IF i # 0 THEN SdOpen(c, g, s, i, tmpl, y) + SelOpen(c, g, s.sel)
  ELSE MaskTop(c, s) + Word(g, s.wit, 0, y - tmpl.H * s.wit[1]) + EntriesTop(c, g, s.sel)
\* Coordinate 0 is not in the syndrome part, and the matrix is not applied.
SdSel2(c, g, s, i, tmpl, y) ==
  IF i # 0 THEN SdOpen(c, g, s, i, tmpl, y) + SelOpen(c, g, s.sel)
  ELSE MaskTop(c, s) + g[1] * F(s.wit[2] * y)
SdSel3(c, g, s, i, tmpl, y) == SdSel2(c, g, s, i, tmpl, y)
SdSel4(c, g, s, i, tmpl, y) == SdSel2(c, g, s, i, tmpl, y)

\* g is the challenge, tmpl the template, ring the images to select from or the only one.
Emulate(c, g, s, i, tmpl, ring) ==
  LET y == IF c.sel = 0 THEN ring[0].y ELSE Image(c, s, ring)
      mq == c.problem = "mq"
  IN  F(CASE c.sel = 0 -> IF mq THEN MqEmulate(c, g, s, i, tmpl, y) ELSE SdEmulate(c, g, s, i, tmpl, y)
          [] c.sel = 1 -> IF mq THEN MqSel1(c, g, s, i, tmpl, y) ELSE SdSel1(c, g, s, i, tmpl, y)
          [] c.sel = 2 -> IF mq THEN MqSel2(c, g, s, i, tmpl, y) ELSE SdSel2(c, g, s, i, tmpl, y)
          [] c.sel = 3 -> IF mq THEN MqSel3(c, g, s, i, tmpl, y) ELSE SdSel3(c, g, s, i, tmpl, y)
          [] c.sel = 4 -> IF mq THEN MqSel4(c, g, s, i, tmpl, y) ELSE SdSel4(c, g, s, i, tmpl, y))

\* mpc_run_degree_checking.
DegreeCheck(c, g, s) ==
  F(Sum(DOMAIN s.wit, LAMBDA j : s.wit[j] * g[j - 1]) + s.unif[0] * g[2] + s.dc[0])

-----------------------------------------------------------------------------
(* mpc_compute_communications: the coefficients of degrees 1 to depth of   *)
(* what the parties broadcast, the last one at infinity.                   *)

InterpolationArray(d) ==
  CASE d = 3 -> << <<2, 125, 2>>, <<250, 126, 248>> >>
    [] d = 4 -> << <<3, 124, 84, 245>>, <<123, 2, 125, 11>>, <<126, 125, 42, 245>> >>
    [] d = 5 -> << <<4, 248, 85, 188, 24>>, <<163, 193, 165, 241, 201>>,
                  <<127, 249, 43, 188, 35>>, <<209, 63, 209, 136, 241>> >>

Communications(c, g, plain, rnd, tmpl, ring) ==
  LET d == Depth(c)
      \* The last point is at infinity.
      at[i \in 1..d] ==
        Emulate(c, g, IF i = d THEN rnd ELSE SharePlus(plain, ShareTimes(i, rnd)),
                IF i = d THEN 0 ELSE i, tmpl, ring)
  IN  [j \in 0..(d - 1) |->
        CASE j = d - 1 -> at[d]
          [] d = 2     -> F(at[1] - at[2])
          [] OTHER     -> Sum(1..d, LAMBDA i : InterpolationArray(d)[j + 1][i] * at[i])]

\* recompose_broadcast: the last coefficient, from the others and from the value at i.
TopCoefficientNotRaised(c, br, value, i) ==
  IF i = 0 THEN value
  ELSE LET lower == Sum(0..(Depth(c) - 2), LAMBDA j : br[j] * F(i^(j + 1)))
       IN  F(ScaInverse(i) * F(value - lower))
TopCoefficient(c, br, value, i) ==
  IF i = 0 THEN value
  ELSE LET lower == Sum(0..(Depth(c) - 2), LAMBDA j : br[j] * F(i^(j + 1)))
       IN  F(ScaInverse(F(i^Depth(c))) * F(value - lower))
=============================================================================
