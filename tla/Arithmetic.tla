------------------------------ MODULE Arithmetic ------------------------------
(***************************************************************************)
(* Callers of the arithmetic files, one call at a time, and what each call *)
(* has to return by the mathematics of its field: products against the     *)
(* textbook product, tables against powers, matrices against their sums,   *)
(* packed vectors against their unpacking, samplers against the stream     *)
(* they read.                                                              *)
(***************************************************************************)
EXTENDS ArithmeticFiles

CONSTANT Calls(_)      \* the calls of a family, a sequence of records

VARIABLES call, out
vars == <<call, out>>

Library ==
  [gf16 |-> Ground(Gf16), gf16to2 |-> Gf16to2, gf16to4 |-> Gf16to4, gf16to8 |-> Gf16to8,
   gf16to16 |-> Gf16to16, gf256 |-> Ground(Gf256), gf2to16 |-> Gf2to16, gf2to32 |-> Gf2to32,
   gf2to64 |-> Gf2to64, gf2to96 |-> Gf2to96, gf2to128 |-> Gf2to128, gf2to31 |-> Ground(Gf2to31),
   gf31 |-> Ground(Gf31), gf31to6 |-> Gf31to6, gf31to7 |-> Gf31to7, gf31to8 |-> Gf31to8,
   gf31to10 |-> Gf31to10, gf31to11 |-> Gf31to11, gf251 |-> Ground(Gf251),
   gf251to2 |-> Gf251to2, gf251to4 |-> Gf251to4, gf251to5 |-> Gf251to5, gf251to7 |-> Gf251to7,
   gf251to8 |-> Gf251to8, gf251to12 |-> Gf251to12, gf251to16 |-> Gf251to16,
   mqom_gf251 |-> Ground(MqomGf251), mqom_gf251to2 |-> MqomGf251to2,
   mqom_gf251to4 |-> MqomGf251to4, mqom_gf251to5 |-> MqomGf251to5,
   mqom_gf251to7 |-> MqomGf251to7, mira16 |-> Ground(MiraGf16),
   mira128 |-> Mira128, mira192 |-> Mira192, mira256 |-> Mira256,
   rbc31 |-> Ground(Rbc31), rbc37 |-> Ground(Rbc37), rbc43 |-> Ground(Rbc43),
   aim128 |-> Ground(Aim128), aim192 |-> Ground(Aim192), aim256 |-> Ground(Aim256)]

Idle == [family |-> "idle"]
Init == call = Idle /\ out = <<>>
Call(c, result) == /\ call.family = "idle"
                   /\ call' = c
                   /\ out' = result

-----------------------------------------------------------------------------
(* One action for each family of functions.                                *)

Product(c) ==
  CASE c.file = "mira128" -> Mira128Mul(c.a, c.b)
    [] c.file = "mira192" -> Mira192Mul(c.a, c.b)
    [] c.file = "mira256" -> Mira256Mul(c.a, c.b)
    [] c.file = "rbc31"   -> <<Rbc31Mul(c.a[1], c.b[1])>>
    [] c.file = "rbc37"   -> <<Rbc37Mul(c.a[1], c.b[1])>>
    [] c.file = "rbc43"   -> <<Rbc43Mul(c.a[1], c.b[1])>>
    [] c.file = "gf251to4" /\ c.alt -> Gf251to4Alt(Gf251to4, c.a, c.b)
    [] OTHER              -> Mul(Library[c.file], c.a, c.b)
Multiply == \E i \in DOMAIN Calls("multiply") :
              LET c == Calls("multiply")[i] IN Call(c, Product(c))

SquareOf(c) ==
  CASE c.file = "gf2to31" -> Gf2to31Squ(c.a)
    [] c.file = "rbc31"   -> Rbc31Sqr(c.a)
    [] c.file = "rbc37"   -> Rbc37Sqr(c.a)
    [] c.file = "rbc43"   -> Rbc43Sqr(c.a)
    [] c.file = "aim128"  -> Aim128Sqr(c.a)
    [] c.file = "aim192"  -> Aim192Sqr(c.a)
    [] c.file = "aim256"  -> Aim256Sqr(c.a)
Square == \E i \in DOMAIN Calls("square") :
            LET c == Calls("square")[i] IN Call(c, SquareOf(c))

InverseOf(c) ==
  CASE c.file = "gf16to16"  -> Gf16to16Inv(c.a)
    [] c.file = "gf2to96"   -> Gf2to96Inv(c.a)
    [] c.file = "gf2to128"  -> Gf2to128Inv(c.a)
    [] c.file = "gf251to12" -> Gf251to12Inv(c.a)
    [] c.file = "gf251to16" -> Gf251to16Inv(c.a)
    [] c.file = "gf2to31"   -> <<Gf2to31Inv(c.a[1])>>
Invert == \E i \in DOMAIN Calls("inverse") :
            LET c == Calls("inverse")[i] IN Call(c, InverseOf(c))

\* The tables of inverses, whole.
InverseTable(file) ==
  CASE file = "gf16"  -> Gf16InverseTab
    [] file = "gf256" -> Gf256InverseTab
    [] file = "gf31"  -> Gf31InverseTab
    [] file = "gf251" -> Gf251InverseTab
ReadInverses == \E file \in {"gf16", "gf256", "gf31", "gf251"} :
                  Call([family |-> "inverses", file |-> file], InverseTable(file))

\* The q-th power, and for mira the power q - 1.
PowerOf(c) ==
  CASE c.file = "gf16to16"  -> Gf16to16Pow16Of(c.a)
    [] c.file = "gf2to96"   -> Gf2to96Pow256Of(c.a)
    [] c.file = "gf2to128"  -> Gf2to128Pow256Of(c.a)
    [] c.file = "gf251to12" -> Gf251to12Pow251Of(c.a)
    [] c.file = "gf251to16" -> Gf251to16Pow251Of(c.a)
    [] c.file = "mira128"   -> Mira128Pow(c.a)
    [] c.file = "mira192"   -> Mira192Pow(c.a)
    [] c.file = "mira256"   -> Mira256Pow(c.a)
RaiseToQ == \E i \in DOMAIN Calls("power") :
              LET c == Calls("power")[i] IN Call(c, PowerOf(c))

\* A block of unreduced values.
Reduce == \E i \in DOMAIN Calls("reduce") :
            LET c == Calls("reduce")[i]
            IN Call(c, Tuple([k \in 1..Len(c.xs) |-> IF c.wide THEN Reduce32(c.p, c.xs[k])
                                                      ELSE Reduce16(c.p, c.xs[k])]))

TabIn(c) ==
  CASE c.file = "gf16"       -> Gf16Tab(c)
    [] c.file = "gf256"      -> Gf256Tab(c)
    [] c.file = "gf2to31"    -> Gf2to31Tab(c)
    [] c.file = "gf251"      -> Gf251Tab(c)
    [] c.file = "mqom_gf251" -> MqomGf251Tab(c)
    [] c.file = "gf31"       -> Gf31Tab(c)
    [] c.file = "mira128"    -> Mira128Mat(c)
    [] c.file = "mira192"    -> Mira192Mat(c)
    [] c.file = "mira256"    -> Mira256Mat(c)
Table == \E i \in DOMAIN Calls("table") :
           LET c == Calls("table")[i] IN Call(c, TabIn(c))

InnerIn(c) ==
  CASE c.file = "gf251"      -> Gf251InnerProduct(c)
    [] c.file = "mqom_gf251" -> MqomGf251InnerProduct(c)
    [] c.file = "gf31"       -> Gf31InnerProduct(c)
Inner == \E i \in DOMAIN Calls("inner") :
           LET c == Calls("inner")[i] IN Call(c, InnerIn(c))

MatrixIn(c) ==
  CASE c.file = "gf16"       -> Gf16Mat(c)
    [] c.file = "gf256"      -> IF c.op = "batched" THEN Gf256Batched(c) ELSE Gf256Mat(c)
    [] c.file = "gf2to31"    -> Gf2to31Mat(c)
    [] c.file = "gf251"      -> Gf251Mat(c)
    [] c.file = "mqom_gf251" -> MqomGf251Mat(c)
    [] c.file = "gf31"       -> Gf31Mat(c)
    [] c.file = "mira128"    -> Mira128Mat(c)
    [] c.file = "mira192"    -> Mira192Mat(c)
    [] c.file = "mira256"    -> Mira256Mat(c)
Matrix == \E i \in DOMAIN Calls("matrix") :
            LET c == Calls("matrix")[i] IN Call(c, MatrixIn(c))

\* arithmetic/gf2: the product of two cleaned matrices, added to a third.
BitMatrix == \E i \in DOMAIN Calls("bits") :
  LET c == Calls("bits")[i]
  IN Call(c, IF c.op = "cols"
             THEN Gf2MultCols(c.z, Gf2Clean(c.x, c.m), Gf2Clean(c.y, c.n), c.n)
             ELSE Gf2MultRows(c.z, Gf2Clean(c.x, c.n), Gf2Clean(c.y, c.p), c.n))

PolyIn(c) ==
  LET F == Library[c.file] IN
  CASE c.op = "evaluate"             -> EvalPoly(F, c.p, c.x)
    [] c.op = "evaluate_monic"       -> EvalMonic(F, c.p, c.x)
    [] c.op = "evaluate_ext"         -> EvalInExt(F, c.p, c.x)
    [] c.op = "evaluate_monic_ext"   -> EvalMonicInExt(F, c.p, c.x)
    [] c.op = "remove_factor"        -> RemoveFactor(F, c.p, c.x)
    [] c.op = "remove_monic_factor"  -> RemoveMonicFactor(F, c.p, c.x)
Polynomial == \E i \in DOMAIN Calls("polynomial") :
                LET c == Calls("polynomial")[i] IN Call(c, PolyIn(c))

StringIn(c) ==
  CASE c.file = "gf16"    -> Gf16Strings(c)
    [] c.file = "gf31"    -> Gf31Strings(c)
    [] c.file = "mira16"  -> Mira128Mat(c)
    [] c.file = "mira128" -> Mira128Strings(c)
    [] c.file = "mira192" -> Mira192Strings(c)
    [] c.file = "mira256" -> Mira256Strings(c)
    [] c.file = "rbc31"   -> Rbc31Strings(c)
    [] c.file = "rbc37"   -> Rbc37Strings(c)
    [] c.file = "rbc43"   -> Rbc43Strings(c)
\* A vector is packed, then unpacked from the buffer.
Pack == \E i \in DOMAIN Calls("pack") :
          LET c == Calls("pack")[i] IN Call(c, StringIn(c))
Unpack ==
  LET c == [family |-> "unpack", file |-> call.file, v |-> call.v, buf |-> out, n |-> Len(call.v),
            op |-> IF call.op = "compress" THEN "decompress" ELSE "from_string"]
  IN /\ call.family = "pack"
     /\ call' = c
     /\ out' = StringIn(c)

SampleIn(c) ==
  CASE c.file = "gf16"          -> Gf16RandomOf(c)
    [] c.file = "gf256"         -> Gf256RandomOf(c)
    [] c.file = "gf2to31"       -> Gf2to31RandomOf(c)
    [] c.file = "gf251"         -> Gf251Random(c.bytes, c.n)
    [] c.file = "mqom_gf251"    -> MqomGf251Random(c)
    [] c.file = "gf31"          -> Gf31Random(c.bytes, c.n)
    [] c.file = "gf251_x4"      -> Gf251RandomX4(c)
    [] c.file = "mqom_gf251_x4" -> MqomGf251RandomX4(c)
    [] c.file = "gf31_x4"       -> Gf31RandomX4(c)
    [] c.file = "mira128"       -> Mira128Mat(c)
    [] c.file = "mira192"       -> Mira192Mat(c)
    [] c.file = "mira256"       -> Mira256Mat(c)
Sample == \E i \in DOMAIN Calls("sample") :
            LET c == Calls("sample")[i] IN Call(c, SampleIn(c))

-----------------------------------------------------------------------------
(* ryde and mira.                                                          *)

VecIn(c) ==
  CASE c.file = "rbc31"   -> IF c.op = "mat_vec" THEN Rbc31Mat(c) ELSE Rbc31Vec(c)
    [] c.file = "rbc37"   -> IF c.op = "mat_vec" THEN Rbc37Mat(c) ELSE Rbc37Vec(c)
    [] c.file = "rbc43"   -> IF c.op = "mat_vec" THEN Rbc43Mat(c) ELSE Rbc43Vec(c)
    [] c.file = "mira128" -> Mira128Vec(c)
    [] c.file = "mira192" -> Mira192Vec(c)
    [] c.file = "mira256" -> Mira256Vec(c)
Vector == \E i \in DOMAIN Calls("vector") :
            LET c == Calls("vector")[i] IN Call(c, VecIn(c))

QpolyIn(c) ==
  CASE c.file = "rbc31"   -> Rbc31Qpoly(c)
    [] c.file = "rbc37"   -> Rbc37Qpoly(c)
    [] c.file = "rbc43"   -> Rbc43Qpoly(c)
    [] c.file = "mira128" -> Mira128Qpoly(c)
    [] c.file = "mira192" -> Mira192Qpoly(c)
    [] c.file = "mira256" -> Mira256Qpoly(c)
Annihilate == \E i \in DOMAIN Calls("annihilate") :
                LET c == Calls("annihilate")[i] IN Call(c, QpolyIn(c))

GaussIn(c) ==
  CASE c.file = "rbc31" -> Rbc31Gauss(c)
    [] c.file = "rbc37" -> Rbc37Gauss(c)
    [] c.file = "rbc43" -> Rbc43Gauss(c)
Elimination == \E i \in DOMAIN Calls("gauss") :
                 LET c == Calls("gauss")[i] IN Call(c, GaussIn(c))

DrawIn(c) ==
  CASE c.op = "full_rank" -> (CASE c.file = "rbc31" -> Rbc31FullRank(c)
                                [] c.file = "rbc37" -> Rbc37FullRank(c)
                                [] c.file = "rbc43" -> Rbc43FullRank(c))
    [] c.op = "support"   -> (CASE c.file = "rbc31" -> Rbc31FromSupport(c)
                                [] c.file = "rbc37" -> Rbc37FromSupport(c)
                                [] c.file = "rbc43" -> Rbc43FromSupport(c))
    [] c.op = "random"    -> (CASE c.file = "rbc31" -> Rbc31Random(c)
                                [] c.file = "rbc37" -> Rbc37Random(c)
                                [] c.file = "rbc43" -> Rbc43Random(c))
    [] c.op = "bytes"     -> (CASE c.file = "rbc31" -> Rbc31FromBytes(c)
                                [] c.file = "rbc37" -> Rbc37FromBytes(c)
                                [] c.file = "rbc43" -> Rbc43FromBytes(c))
Draw == \E i \in DOMAIN Calls("draw") :
          LET c == Calls("draw")[i] IN Call(c, DrawIn(c))

-----------------------------------------------------------------------------
(* mirith: matrices of two entries to a byte.                              *)

NibbleIn(c) ==
  CASE c.op = "product"  -> MatrixProduct(c.x, c.past, c.y, c.rows, c.cols, c.colsB)
    [] c.op = "blocks"   -> Split(MatrixProduct(c.x, c.past, Concatenation(c.y, c.z), c.rows, c.cols, c.colsB),
                                  c.rows, c.colsB - c.colsZ)
    [] c.op = "multiple" -> AddMultiple(c.x, c.s, c.y)
    [] c.op = "sum"      -> MatrixAdd(c.x, c.y)
    [] c.op = "entry"    -> SetEntry(c.x, c.rows, c.i, c.j, c.s)
    [] c.op = "scalar"   -> ScaMul(c.x, c.y)
    [] c.op = "random"   -> VecRnd(c.shapes, c.bytes)
    [] c.op = "fours"    -> VecRndX4(c.shapes, c.lanes)
Nibble == \E i \in DOMAIN Calls("nibble") :
            LET c == Calls("nibble")[i] IN Call(c, NibbleIn(c))

\* Matrices are packed one after the other, then unpacked.
Fresh(buf) == [buf |-> buf, at |-> 0, half |-> 0]
Serialize == \E i \in DOMAIN Calls("serialize") :
               LET c == Calls("serialize")[i] IN Call(c, PackAll(Fresh(c.buf), c.shapes, c.ms))
Deserialize ==
  LET from == [buf |-> out.buf, at |-> 0, half |-> 0, m |-> <<>>]
  IN /\ call.family = "serialize"
     /\ call' = [call EXCEPT !.family = "deserialize"]
     /\ out' = UnpackAll(from, call.shapes)

-----------------------------------------------------------------------------
(* aimer: the image of an input and the circuit on it.                     *)

Same(A, x) == Tuple([l \in DOMAIN A.first |-> x])    \* one matrix for every branch
AimIn(c) ==
  CASE c.file = "aim128" ->
         LET m == Aim128Matrices(c.tape)
             ct == Aim128Of([lower |-> Same(Aimer128, m.lower), upper |-> Same(Aimer128, m.upper),
                           b |-> c.b, pt |-> c.pt])
         IN Aim128Mpc([matrix |-> Same(Aimer128, Aim128LU(m)), b |-> c.b, ct |-> ct, pt |-> c.pt,
                       t |-> Aim128Sboxes(c.pt), offset |-> TRUE])
    [] c.file = "aim192" ->
         LET m == Aim192Matrices(c.tape)
             ct == Aim192Of([lower |-> Same(Aimer192, m.lower), upper |-> Same(Aimer192, m.upper),
                           b |-> c.b, pt |-> c.pt])
         IN Aim192Mpc([matrix |-> Same(Aimer192, Aim192LU(m)), b |-> c.b, ct |-> ct, pt |-> c.pt,
                       t |-> Aim192Sboxes(c.pt), offset |-> TRUE])
    [] c.file = "aim256" ->
         LET m == Aim256Matrices(c.tape)
             ct == Aim256Of([lower |-> Same(Aimer256, m.lower), upper |-> Same(Aimer256, m.upper),
                           b |-> c.b, pt |-> c.pt])
         IN Aim256Mpc([matrix |-> Same(Aimer256, Aim256LU(m)), b |-> c.b, ct |-> ct, pt |-> c.pt,
                       t |-> Aim256Sboxes(c.pt), offset |-> TRUE])
Circuit == \E i \in DOMAIN Calls("aim") :
             LET c == Calls("aim")[i] IN Call(c, AimIn(c))

ChainIn(c) ==
  CASE c.file = "aim128" -> [exp |-> Aim128Exp(c.e, c.a), e2 |-> Aim128E2Power(c.a),
                             image |-> Aim128MatMul(c.rows, c.a)]
    [] c.file = "aim192" -> [exp |-> Aim192Exp(c.e, c.a), e2 |-> Aim192E2Power(c.a),
                             image |-> Aim192MatMul(c.rows, c.a)]
    [] c.file = "aim256" -> [exp |-> Aim256Exp(c.e, c.a), e2 |-> Aim256E2Power(c.a),
                             image |-> Aim256MatMul(c.rows, c.a)]
Exponentiate == \E i \in DOMAIN Calls("chain") :
                  LET c == Calls("chain")[i] IN Call(c, ChainIn(c))

Return == /\ call.family # "idle"
          /\ call' = Idle
          /\ out' = <<>>

Next ==
  \/ Multiply \/ Square \/ Invert \/ ReadInverses \/ RaiseToQ \/ Reduce
  \/ Table \/ Inner \/ Matrix \/ BitMatrix \/ Polynomial
  \/ Pack \/ Unpack \/ Sample
  \/ Vector \/ Annihilate \/ Elimination \/ Draw
  \/ Nibble \/ Serialize \/ Deserialize
  \/ Circuit \/ Exponentiate
  \/ Return
Spec == Init /\ [][Next]_vars

-----------------------------------------------------------------------------
(* What the calls have to return.                                          *)

RECURSIVE RefPower(_, _, _), Repeated(_, _, _)
RefPower(F, a, e) ==
  IF e = 1 THEN a
  ELSE LET h == RefPower(F, a, e \div 2)  s == Ref(F, h, h)
       IN IF e % 2 = 1 THEN Ref(F, s, a) ELSE s
Repeated(F, a, n) == IF n = 0 \/ a = Zero(F) THEN a ELSE Repeated(F, Ref(F, a, a), n - 1)
Order(g) == IF g.p = 2 THEN 2^g.m ELSE g.p
RefAdd(g, a, b) == IF g.p = 2 THEN Xor(a, b) ELSE (a + b) % g.p
RefSum(g, f, n) == IF g.p = 2 THEN XorOver(f, 1..n) ELSE IntSum(f, n) % g.p

EntryRight(g, c, i) ==
  /\ g.p # 2 => out[i] \in 0..(g.p - 1)
  /\ CASE c.op = "add"         -> out[i] = RefAdd(g, c.z[i], c.x[i])
       [] c.op = "sub"         -> RefAdd(g, out[i], c.x[i]) = c.z[i]
       [] c.op = "neg"         -> RefAdd(g, out[i], c.z[i]) = GZero(g)
       [] c.op = "mul"         -> out[i] = GRef(g, c.x[i], c.y)
       [] c.op = "scalar_mul"  -> out[i] = GRef(g, c.z[i], c.y)
       [] c.op = "muladd"      -> out[i] = RefAdd(g, c.z[i], GRef(g, c.x[i], c.y))
       [] c.op = "mul_and_add" -> out[i] = RefAdd(g, GRef(g, c.z[i], c.y), c.x[i])
       [] c.op = "add_many"    -> out[i] = RefSum(g, Append([j \in DOMAIN c.x |-> c.x[j][i]], c.z[i]),
                                                  Len(c.x) + 1)

\* z + D y, D the matrix before it was laid out; y a vector or a matrix.
MatrixRight(g, c) ==
  IF c.op = "matmult"
  THEN \A i \in 1..c.rows : \A k \in 1..c.size :
         out[(i - 1) * c.size + k] =
           RefSum(g, [j \in 1..(c.nb + 1) |-> IF j > c.nb THEN c.z[(i - 1) * c.size + k]
                        ELSE GRef(g, c.dense[i][j], c.y[(j - 1) * c.size + k])], c.nb + 1)
  ELSE LET at(i) == IF c.op = "scaled" THEN c.scale * (i - 1) + 1 ELSE i
           y     == [j \in 1..c.nb |-> c.y[IF c.op = "scaled" THEN c.scale * (j - 1) + 1 ELSE j]]
       IN /\ \A i \in 1..c.size :
               out[at(i)] = RefSum(g, [j \in 1..(c.nb + 1) |->
                              IF j <= c.nb THEN GRef(g, c.dense[i][j], y[j])
                              ELSE IF c.op = "batched" THEN GZero(g) ELSE c.z[at(i)]], c.nb + 1)
          /\ \A k \in 1..Len(c.z) : k \notin {at(i) : i \in 1..c.size} => out[k] = c.z[k]

BitsRight(c) ==
  LET line(i) == IF c.op = "cols" THEN {j \in 1..c.n : j - 1 \in c.y[i]} ELSE {j \in 1..c.n : j - 1 \in c.x[i]}
      width   == IF c.op = "cols" THEN c.m ELSE c.p
      from    == IF c.op = "cols" THEN c.x ELSE c.y
  IN \A i \in DOMAIN c.z : \A b \in 0..(width - 1) :
       (b \in out[i]) = ((Cardinality({j \in line(i) : b \in from[j]}) + (IF b \in c.z[i] THEN 1 ELSE 0)) % 2 = 1)

PolyAt(F, p, x) ==
  LET power[i \in 0..Len(p)] == IF i = 0 THEN One(F) ELSE Ref(F, power[i - 1], x)
  IN SumOf(F, Tuple([i \in 1..Len(p) |-> Ref(F, p[i], power[i - 1])]), Len(p))
PolyRight(F, c) ==
  LET full == IF c.op \in {"evaluate_monic", "evaluate_monic_ext", "remove_monic_factor"}
              THEN Append(c.p, <<Number(F.g, 1)>>) ELSE c.p
      lifted == [i \in DOMAIN full |-> Tuple([k \in 1..F.dim |-> IF k <= Len(full[i]) THEN full[i][k] ELSE GZero(F.g)])]
  IN IF c.op \in {"remove_factor", "remove_monic_factor"}
     THEN \* out (X - x) + full(x) = full
       \A i \in 1..Len(lifted) :
         LET q(k) == IF k \in DOMAIN out THEN out[k] ELSE Zero(F)
             rest == IF i = 1 THEN PolyAt(F, lifted, c.x) ELSE Zero(F)
         IN Add(F, Sub(F, IF i = 1 THEN Zero(F) ELSE q(i - 1), Ref(F, c.x, q(i))), rest) = lifted[i]
     ELSE out = PolyAt(F, lifted, c.x)

Stream(bytes) == UNION {Shift(Bits(bytes[i]), 8 * (i - 1)) : i \in 1..Len(bytes)}
Wanted(c, p, bytes) == FirstOf(Accepted(p, bytes), c.n)
SampleRight(c) ==
  CASE c.file \in {"gf16", "mira128", "mira192", "mira256"} ->
         \A i \in 1..c.n : out.v[i] = Window(Stream(c.bytes), 4 * (i - 1), 4)
    [] c.file = "gf256"   -> \A i \in 1..c.n : out.v[i] = Window(Stream(c.bytes), 8 * (i - 1), 8)
    [] c.file = "gf2to31" -> \A i \in 1..c.n : out.v[i] = Window(Stream(c.bytes), 32 * (i - 1), 31)
    [] c.file \in {"gf251", "mqom_gf251"} ->
         /\ out.v = Wanted(c, 251, c.bytes)
         /\ Len(Accepted251(SubSeq(c.bytes, 1, out.used))) = c.n
    [] c.file = "gf31"    -> out.v = Wanted(c, 31, c.bytes)
    [] c.file \in {"gf251_x4", "mqom_gf251_x4"} ->
         \A l \in DOMAIN c.lanes : /\ out.v[l] = Gf251Random(c.lanes[l], c.n).v
                                   /\ out.v[l] = Wanted(c, 251, c.lanes[l])
    [] c.file = "gf31_x4" -> \A l \in DOMAIN c.lanes : out.v[l] = Wanted(c, 31, c.lanes[l])

RefQ(F, x) == RefPower(F, x, Order(F.g))
VectorRight(F, c) ==
  LET q(x) == IF F.dim = 1 THEN Ref(F, x, x) ELSE Repeated(F, x, 4)
      dot(a, b) == SumOf(F, Tuple([i \in DOMAIN a |-> Ref(F, a[i], b[i])]), Len(a))
  IN CASE c.op = "add"        -> out = [i \in DOMAIN c.v |-> Add(F, c.v[i], c.w[i])]
       [] c.op = "inner"      -> out = dot(c.v, c.w)
       [] c.op = "scalar_mul" -> out = [i \in DOMAIN c.v |-> Ref(F, c.v[i], c.e)]
       [] c.op = "mat_vec"    -> out = [i \in DOMAIN c.m |-> dot(c.m[i], c.v)]

RECURSIVE QAt(_, _, _, _)
QAt(F, p, x, i) ==
  IF i > Len(p) \/ x = <<>> THEN Zero(F)
  ELSE Add(F, Ref(F, p[i], x), QAt(F, p, IF F.dim = 1 THEN Ref(F, x, x) ELSE Repeated(F, x, 4), i + 1))
Span(F, v) == {SumOf(F, Tuple([i \in DOMAIN v |-> IF i \in S THEN v[i] ELSE Zero(F)]), Len(v)) :
                 S \in SUBSET DOMAIN v}
\* A linearized polynomial of q-degree the number of points, zero exactly on
\* their span.
AnnihilatorRight(F, c) ==
  CASE c.op = "annihilator" -> /\ Len(out) = Len(c.v) + 1
                               /\ out[Len(out)] = One(F)
                               /\ \A x \in Span(F, c.v) : QAt(F, out, x, 1) = Zero(F)
                               /\ QAt(F, out, c.e, 1) # Zero(F)
    [] c.op = "evaluate"    -> out = QAt(F, c.p, c.e, 1)
    [] c.op = "qexp"        -> QAt(F, out, c.e, 1) = LET y == QAt(F, c.p, c.e, 1)
                                                    IN IF F.dim = 1 THEN Ref(F, y, y) ELSE Repeated(F, y, 4)

Sums(v) == {XorOver(v, S) : S \in SUBSET DOMAIN v}
GaussRight(c) ==
  IF c.op = "rank" THEN Cardinality(Sums(c.v)) = 2^out
  ELSE /\ Sums(out.v) = Sums(c.v)
       /\ Cardinality(Sums(c.v)) = 2^out.rank
       /\ {<<XorOver(out.v, S), XorOver(out.w, S)>> : S \in SUBSET DOMAIN c.v}
            = {<<XorOver(c.v, S), XorOver(c.w, S)>> : S \in SUBSET DOMAIN c.v}
       /\ c.op = "reduced" =>
            \A i \in 1..out.rank : out.v[i] # {} /\ \A j \in DOMAIN c.v \ {i} : Highest(out.v[i]) \notin out.v[j]
DrawRight(c, g) ==
  CASE c.op = "full_rank" -> out[Len(out)] = {0} /\ Cardinality(Sums(out)) = 2^Len(out)
    [] c.op = "support"   -> /\ \A i \in DOMAIN out : out[i] \in Sums(c.v)
                             /\ c.copy => Sums(out) = Sums(c.v)
    [] c.op \in {"random", "bytes"} -> \A i \in 1..c.n : out[i] = {b \in 0..(g.m - 1) : b + c.pitch * (i - 1) \in c.buf}

\* The padding of a column is zero, which packing and products rely on.
NibbleEntry(m, rows, i, j) == GetEntry(m, rows, i - 1, j - 1)
Clean(m, rows) == rows % 2 = 1 => \A k \in DOMAIN m : k % BytesPerColumn(rows) = 0 => m[k][2] = {}
ProductOf(m, c, B, cols) ==
  /\ Clean(m, c.rows)
  /\ \A i \in 1..c.rows : \A j \in 1..cols :
       NibbleEntry(m, c.rows, i, j)
         = XorOver([k \in 1..c.cols |-> GRef(Gf16, NibbleEntry(c.x, c.rows, i, k), NibbleEntry(B, c.cols, k, j))],
                   1..c.cols)
\* The parts of a share follow one another, the stream is read without gaps.
DrawnRight(m, shapes, bytes) ==
  LET n == [k \in DOMAIN shapes |-> BytesPerColumn(shapes[k].rows) * shapes[k].cols]
      from == [k \in DOMAIN shapes |-> IntSum(n, k) - n[k]]
  IN /\ Len(m) = IntSum(n, Len(shapes))
     /\ \A k \in DOMAIN shapes : Clean(SubSeq(m, from[k] + 1, from[k] + n[k]), shapes[k].rows)
     /\ \A i \in DOMAIN m : \A half \in 1..2 : m[i][half] \in {{}, ByteOf(bytes[i])[half]}
     /\ \A k \in DOMAIN shapes : \A i \in 1..shapes[k].rows : \A j \in 1..shapes[k].cols :
          NibbleEntry(SubSeq(m, from[k] + 1, from[k] + n[k]), shapes[k].rows, i, j)
            = Window(Stream(SubSeq(bytes, from[k] + 1, from[k] + n[k])),
                     8 * BytesPerColumn(shapes[k].rows) * (j - 1) + 4 * (i - 1), 4)
NibbleRight(c) ==
  CASE c.op = "product"  -> ProductOf(out, c, c.y, c.colsB)
    [] c.op = "blocks"   -> ProductOf(out[1], c, c.y, c.colsB - c.colsZ) /\ ProductOf(out[2], c, c.z, c.colsZ)
    [] c.op = "multiple" -> \A i \in DOMAIN c.x : \A half \in 1..2 :
                              out[i][half] = Xor(c.x[i][half], GRef(Gf16, c.s, c.y[i][half]))
    [] c.op = "sum"      -> \A i \in DOMAIN c.x : \A half \in 1..2 : out[i][half] = Xor(c.x[i][half], c.y[i][half])
    [] c.op = "entry"    -> \A i \in 1..c.rows : \A j \in 1..c.cols :
                              NibbleEntry(out, c.rows, i, j) = IF i = c.i + 1 /\ j = c.j + 1 THEN c.s
                                                               ELSE NibbleEntry(c.x, c.rows, i, j)
    [] c.op = "scalar"   -> out = GRef(Gf16, c.x, c.y)
    [] c.op = "random"   -> DrawnRight(out, c.shapes, c.bytes)
    [] c.op = "fours"    -> \A l \in 1..4 : DrawnRight(out[l], c.shapes, c.lanes[l])
\* Two entries to a byte with none lost between two matrices, nothing written
\* past them, and bytes that do not depend on what the buffer held.
SerializedRight(c) ==
  LET entries == IntSum([k \in DOMAIN c.shapes |-> c.shapes[k].rows * c.shapes[k].cols], Len(c.shapes))
      size    == (entries + 1) \div 2
      cleared == PackAll(Fresh(Tuple([i \in DOMAIN c.buf |-> ZeroByte])), c.shapes, c.ms).buf
  IN /\ 2 * out.at + out.half = entries
     /\ \A i \in DOMAIN c.buf : out.buf[i] = IF i <= size THEN cleared[i] ELSE c.buf[i]

\* x[l] pt = z[l] in every branch is what the signer proves; the matrices take
\* the tape of the code to its last byte and no further.
CircuitRight(g, c) == TapeUsed(g) = Cardinality(DOMAIN c.tape) /\ \A l \in DOMAIN out.x : GRef(g, out.x[l], c.pt) = out.z[l]
ChainRight(g, c, e2) ==
  /\ GRef(g, c.a, out.exp) = Sqrs(g, c.a, c.e)
  /\ out.e2 = Sqrs(g, c.a, e2)
  /\ \A b \in 0..(g.m - 1) : (b \in out.image)
                              = (Cardinality({i \in c.a : b \in c.rows[i + 1]}) % 2 = 1)

(* Every function of the arithmetic files returns what the mathematics of  *)
(* its field says, whichever way its file computes it: by lazy reductions  *)
(* that must not overflow, by folds, by tables, by columns or by rows.     *)
ComputesReference ==
  LET c == call  F == Library[c.file]  g == F.g IN
  CASE c.family = "idle"       -> TRUE
    [] c.family = "multiply"   -> out = Ref(F, c.a, c.b)
    [] c.family = "square"     -> out = GRef(g, c.a, c.a)
    [] c.family = "inverse"    -> Ref(F, c.a, out) = One(F)
    [] c.family = "inverses"   -> \A x \in 1..(Order(g) - 1) :
                                    GRef(g, Number(g, x), Number(g, out[x + 1])) = Number(g, 1)
    [] c.family = "power"      -> IF F.g.p = 2 /\ g.mul = "fold"
                                  THEN out.p16 = RefQ(F, c.a) /\ Ref(F, out.p15, c.a) = out.p16
                                  ELSE out = RefQ(F, c.a)
    [] c.family = "reduce"     -> \A k \in DOMAIN out : out[k] = c.xs[k] % c.p
    [] c.family = "table"      -> \A i \in DOMAIN c.z : EntryRight(g, c, i)
    [] c.family = "inner"      -> out = RefSum(g, [i \in DOMAIN c.x |-> GRef(g, c.x[i], c.y[i])], Len(c.x))
    [] c.family = "matrix"     -> MatrixRight(g, c)
    [] c.family = "bits"       -> BitsRight(c)
    [] c.family = "polynomial" -> PolyRight(F, c)
    [] c.family = "pack"       -> out \subseteq 0..(8 * c.bytes - 1)
    [] c.family = "unpack"     -> out = c.v
    [] c.family = "sample"     -> SampleRight(c)
    [] c.family = "vector"     -> VectorRight(F, c)
    [] c.family = "annihilate" -> AnnihilatorRight(F, c)
    [] c.family = "gauss"      -> GaussRight(c)
    [] c.family = "draw"       -> DrawRight(c, g)
    [] c.family = "nibble"     -> NibbleRight(c)
    [] c.family = "serialize"  -> SerializedRight(c)
    [] c.family = "deserialize" -> out = c.ms
    [] c.family = "aim"        -> CircuitRight(g, c)
    [] c.family = "chain"      -> ChainRight(g, c, IF g.m = 128 THEN 27 ELSE IF g.m = 192 THEN 29 ELSE 53)
=============================================================================
