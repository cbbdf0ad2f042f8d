----------------------------- MODULE MCArithmetic -----------------------------
(***************************************************************************)
(* The calls TLC makes: for every function of every file, operands spread  *)
(* over the field, the greatest operands there are (where a lazy sum is    *)
(* longest), and for the samplers streams with values to reject.           *)
(***************************************************************************)
EXTENDS Arithmetic

Rn(s, i)   == ((s * 7919 + i * 10473 + i * i * 311 + 97 * s * i) % 65521)
Byte(s, i) == (Rn(s, i) \div 7) % 256
GEl(g, s, i) == IF g.p # 2 THEN Rn(s, i) % g.p
                ELSE IF g.m < 16 THEN Bits(Rn(s, i) % 2^g.m) ELSE Bits(Rn(s, i)) \cup Shift(Bits(Rn(s + 3, i) % 2^15), g.m - 15)
GMax(g)    == IF g.p = 2 THEN 0..(g.m - 1) ELSE g.p - 1
El(F, s)   == Tuple([i \in 1..F.dim |-> GEl(F.g, s, i)])
Mx(F)      == Tuple([i \in 1..F.dim |-> GMax(F.g)])
Arr(g, s, n) == Tuple([i \in 1..n |-> IF s = 0 THEN GMax(g) ELSE GEl(g, s, i)])
Bytes_(s, n) == Tuple([i \in 1..n |-> Byte(s, i)])
\* Every third byte is one the samplers modulo a prime reject.
Hard(s, n) == Tuple([i \in 1..n |-> IF (i + s) % 3 = 0 THEN 255 ELSE Byte(s, i)])

Files      == <<"gf16", "gf16to2", "gf16to4", "gf16to8", "gf16to16", "gf256", "gf2to16", "gf2to32",
                "gf2to64", "gf2to96", "gf2to128", "gf2to31", "gf31", "gf31to6", "gf31to7", "gf31to8",
                "gf31to10", "gf31to11", "gf251", "gf251to2", "gf251to4", "gf251to5", "gf251to7",
                "gf251to8", "gf251to12", "gf251to16", "mqom_gf251", "mqom_gf251to2",
                "mqom_gf251to4", "mqom_gf251to5", "mqom_gf251to7", "mira16", "mira128", "mira192",
                "mira256", "rbc31", "rbc37", "rbc43", "aim128", "aim192", "aim256">>
N(f)       == Len(f)
Over(files, k) == files[((k - 1) % Len(files)) + 1]
Turn(files, k) == (k - 1) \div Len(files)

\* Two spread pairs and the greatest pair in every field.
Multiplications ==
  Tuple([k \in 1..(3 * Len(Files)) |->
    LET f == Over(Files, k)  t == Turn(Files, k)  F == Library[f]
    IN [family |-> "multiply", file |-> f, alt |-> FALSE,
        a |-> IF t = 2 THEN Mx(F) ELSE El(F, t + 1), b |-> IF t = 2 THEN Mx(F) ELSE El(F, t + 6)]])
  \o Tuple([k \in 1..3 |-> LET F == Gf251to4 IN
       [family |-> "multiply", file |-> "gf251to4", alt |-> TRUE,
        a |-> IF k = 3 THEN Mx(F) ELSE El(F, k), b |-> IF k = 3 THEN Mx(F) ELSE El(F, k + 6)]])
Unary(family, files) ==
  Tuple([k \in 1..(2 * Len(files)) |->
    LET f == Over(files, k)  F == Library[f]  a == IF Turn(files, k) = 0 THEN El(F, 3) ELSE Mx(F)
    IN [family |-> family, file |-> f,
        a |-> IF family = "square" THEN a[1] ELSE a]])
Squares  == Unary("square", <<"gf2to31", "rbc31", "rbc37", "rbc43", "aim128", "aim192", "aim256">>)
Inverses == Unary("inverse", <<"gf16to16", "gf2to96", "gf2to128", "gf251to12", "gf251to16", "gf2to31">>)
Powers   == Unary("power", <<"gf16to16", "gf2to96", "gf2to128", "gf251to12", "gf251to16",
                             "mira128", "mira192", "mira256">>)

\* All the values below the bound of each 16-bit reduction; for the 32-bit
\* ones, multiples of p and their predecessors, where a quotient that is off by
\* one shows, after each power of two and up to the greatest integer of TLC.
Bound16(p) == IF p = 31 THEN 63487 ELSE 128510
BlockSize  == 8192
NarrowSums(p, file) ==
  Tuple([k \in 1..(Bound16(p) \div BlockSize + 1) |->
    LET from == (k - 1) * BlockSize
        to   == IF from + BlockSize - 1 < Bound16(p) THEN from + BlockSize - 1 ELSE Bound16(p)
    IN [family |-> "reduce", file |-> file, p |-> p, wide |-> FALSE,
        xs |-> Tuple([i \in 1..(to - from + 1) |-> from + i - 1])]])
WideSums(p, file) ==
  Tuple([k \in 1..16 |->
    LET top == IF k = 16 THEN 2147483647 \div p - 128 ELSE 2^(k + 15) \div p
    IN [family |-> "reduce", file |-> file, p |-> p, wide |-> TRUE,
        xs |-> Tuple([i \in 1..256 |-> (top + i \div 2) * p - (i % 2)])]])
Reductions == NarrowSums(31, "gf31") \o NarrowSums(251, "gf251") \o WideSums(31, "gf31") \o WideSums(251, "gf251")

Call3(file, op, s, y) ==
  LET g == Library[file].g
  IN [family |-> "table", file |-> file, op |-> op, z |-> Arr(g, s, 5),
      x |-> IF op = "add_many" THEN <<Arr(g, s, 5), Arr(g, 0, 5), Arr(g, 2, 5)>>
            ELSE Arr(g, IF s = 0 THEN 0 ELSE s + 1, 5),
      y |-> IF s = 0 THEN GMax(g) ELSE GEl(g, y, 4)]
Ops(file) ==
  CASE file \in {"gf251"} -> <<"add", "sub", "neg", "mul", "muladd", "mul_and_add", "add_many">>
    [] file \in {"mqom_gf251", "gf31"} -> <<"add", "sub", "neg", "mul", "muladd", "mul_and_add">>
    [] file \in {"mira128", "mira192", "mira256"} -> <<"add", "scalar_mul">>
    [] OTHER -> <<"add", "mul", "muladd", "mul_and_add">>
TablesOf(file, s) == Tuple([k \in 1..Len(Ops(file)) |-> Call3(file, Ops(file)[k], s, 9)])
Tables ==
  LET of(file) == TablesOf(file, 0) \o TablesOf(file, 4)
  IN of("gf16") \o of("gf256") \o of("gf2to31") \o of("gf251") \o of("mqom_gf251") \o of("gf31")
       \o of("mira128") \o of("mira192") \o of("mira256")
InnerProducts ==
  LET of(file, s) == LET g == Library[file].g IN
        [family |-> "inner", file |-> file, x |-> Arr(g, s, 40), y |-> Arr(g, IF s = 0 THEN 0 ELSE s + 5, 40)]
  IN <<of("gf251", 0), of("gf251", 2), of("mqom_gf251", 0), of("mqom_gf251", 2), of("gf31", 0), of("gf31", 2)>>

-----------------------------------------------------------------------------
(* A matrix D of rows by nb entries, laid out the way the function reads.  *)

Dense(g, s, rows, nb) ==
  Tuple([i \in 1..rows |-> Tuple([j \in 1..nb |-> IF s = 0 THEN GMax(g) ELSE GEl(g, s + i, j)])])
TriangularRows(D, step, nb) ==
  [i \in DOMAIN D |-> [j \in 1..nb |-> IF i > (j - 1) * step THEN D[i][j] ELSE 0]]
RECURSIVE Stored(_, _, _, _)
Stored(D, step, nb, j) ==
  IF j > nb THEN <<>>
  ELSE [k \in 1..(Len(D) - (j - 1) * step) |-> D[(j - 1) * step + k][j]] \o Stored(D, step, nb, j + 1)
Laid(op, D, rows, nb, step) ==
  CASE op \in {"matcols", "scaled", "wide"} ->
         Tuple([k \in 1..(rows * nb) |-> D[((k - 1) % rows) + 1][((k - 1) \div rows) + 1]])
    [] op = "batched" -> Tuple([k \in 1..(rows * nb) |-> D[((k - 1) % rows) + 1][((k - 1) \div rows) + 1]])
    [] op \in {"matrows", "matmult"} ->
         Tuple([k \in 1..(rows * nb) |-> D[((k - 1) \div nb) + 1][((k - 1) % nb) + 1]])
    [] op = "triangular" -> Tuple(Stored(D, step, nb, 1))
MatCall(file, op, s) ==
  LET g == Library[file].g
      rows == IF op = "wide" THEN 256 ELSE IF op = "triangular" THEN 6 ELSE 5
      nb == IF op = "wide" THEN 2 ELSE 3
      D0 == Dense(g, s, rows, nb)
      D == IF op = "triangular" THEN TriangularRows(D0, 2, nb) ELSE D0
      cols == IF op = "matmult" THEN 4 ELSE 1
  IN [family |-> "matrix", file |-> file, op |-> op, dense |-> D, m |-> Laid(op, D, rows, nb, 2),
      nb |-> nb, rows |-> rows, size |-> IF op = "matmult" THEN cols ELSE rows, step |-> 2, scale |-> 3,
      y |-> Arr(g, IF s = 0 THEN 0 ELSE s + 1, 12),
      z |-> IF op = "matmult" /\ file \in {"mira128", "mira192", "mira256"}
            THEN Tuple([i \in 1..(rows * cols) |-> GZero(g)])
            ELSE Arr(g, s, IF op = "scaled" THEN 17 ELSE rows * cols)]
Cut(c) == IF c.op \in {"matmult", "scaled"} THEN c ELSE [c EXCEPT !.y = SubSeq(@, 1, c.nb)]
Matrices ==
  LET both(file, op) == <<Cut(MatCall(file, op, 0)), Cut(MatCall(file, op, 2))>>
  IN both("gf16", "matcols") \o both("gf16", "scaled") \o both("gf16", "matmult")
     \o both("gf256", "matcols") \o both("gf256", "scaled") \o both("gf256", "batched")
     \o both("gf2to31", "matcols") \o both("gf2to31", "batched")
     \o both("gf251", "matcols") \o both("gf251", "matrows") \o both("gf251", "scaled") \o both("gf251", "wide")
     \o both("mqom_gf251", "matcols") \o both("mqom_gf251", "matrows") \o both("mqom_gf251", "triangular")
     \o both("gf31", "matcols") \o both("gf31", "matrows") \o both("gf31", "triangular")
     \o both("mira128", "matmult") \o both("mira192", "matmult") \o both("mira256", "matmult")

\* m x n times n x p bits, columns or rows with their padding set.
BitLines(s, n, bits) == Tuple([i \in 1..n |-> {b \in Gf2Padded(bits) : Rn(s + i, b) % 3 # 0}])
BitMatrices ==
  LET c(op, s, m, n, p) ==
        [family |-> "bits", file |-> "gf2", op |-> op, m |-> m, n |-> n, p |-> p,
         x |-> IF op = "cols" THEN BitLines(s, n, m) ELSE BitLines(s, m, n),
         y |-> IF op = "cols" THEN BitLines(s + 9, p, n) ELSE BitLines(s + 9, n, p),
         z |-> IF op = "cols" THEN BitLines(s + 5, p, m) ELSE BitLines(s + 5, m, p)]
  IN <<c("cols", 1, 5, 9, 3), c("rows", 1, 5, 9, 3), c("cols", 2, 11, 8, 2), c("rows", 2, 3, 8, 11)>>

Polynomials ==
  LET ops == <<"evaluate", "evaluate_monic", "evaluate_ext", "evaluate_monic_ext", "remove_factor", "remove_monic_factor">>
      of(file, k, s) ==
        LET F == Library[file]
            ext == ops[k] \in {"evaluate_ext", "evaluate_monic_ext"}
            P == IF ext THEN Ground(F.g) ELSE F
        IN [family |-> "polynomial", file |-> file, op |-> ops[k], p |-> Tuple([i \in 1..5 |-> El(P, s + i)]), x |-> El(F, s + 2)]
  IN Tuple([k \in 1..24 |-> LET o == ((k - 1) % 6) + 1  s == (k - 1) \div 6 IN
        of(IF o \in {3, 4} THEN (IF s % 2 = 0 THEN "gf251to4" ELSE "gf2to32") ELSE (IF s % 2 = 0 THEN "gf251" ELSE "gf256"), o, s)])

\* An even and an odd number of elements.
Packs_ ==
  LET of(file, op, n, bytes) ==
        LET F == Library[file] IN
        [family |-> "pack", file |-> file, op |-> op, bytes |-> bytes,
         v |-> Tuple([i \in 1..n |-> IF i = n THEN (IF F.dim = 1 THEN GMax(F.g) ELSE Mx(F))
                                     ELSE IF F.dim = 1 THEN GEl(F.g, n, i) ELSE El(F, n + i)])]
  IN <<of("gf16", "compress", 6, 3), of("gf16", "compress", 7, 4), of("gf31", "compress", 8, 5), of("gf31", "compress", 5, 4),
       of("mira16", "to_string", 6, 3), of("mira16", "to_string", 7, 4),
       of("mira128", "to_string", 3, 24), of("mira192", "to_string", 2, 19), of("mira192", "to_string", 3, 29),
       of("mira256", "to_string", 3, 35), of("rbc31", "to_string", 3, 12), of("rbc31", "to_string", 8, 31),
       of("rbc37", "to_string", 3, 14), of("rbc37", "to_string", 5, 24), of("rbc43", "to_string", 3, 17), of("rbc43", "to_string", 6, 33)>>

Samples ==
  LET one(file, n, b) == [family |-> "sample", file |-> file, n |-> n, bytes |-> b, op |-> "random"]
      four(file, n, len) == [family |-> "sample", file |-> file, n |-> n, op |-> "random",
                             lanes |-> <<Bytes_(1, len), Hard(2, len), Hard(3, len), Bytes_(4, len)>>]
  IN <<one("gf16", 6, Bytes_(1, 3)), one("gf16", 7, Bytes_(2, 4)), one("gf256", 4, Bytes_(1, 4)),
       one("gf2to31", 3, Bytes_(1, 12)), one("gf251", 9, Hard(1, 40)), one("mqom_gf251", 9, Hard(2, 40)),
       one("gf31", 9, Hard(1, 60)), one("gf31", 20, Hard(2, 80)),
       one("mira128", 7, Bytes_(1, 4)), one("mira192", 7, Bytes_(1, 4)), one("mira256", 8, Bytes_(1, 4)),
       four("gf251_x4", 17, 90), four("mqom_gf251_x4", 5, 40), four("gf31_x4", 9, 80), four("gf31_x4", 17, 80)>>

-----------------------------------------------------------------------------
(* Supports are independent over the ground field.                         *)

Vec(F, s, n) == Tuple([i \in 1..n |-> El(F, s + i)])
Vectors_ ==
  LET of(file, op) == LET F == Library[file] IN
        [family |-> "vector", file |-> file, op |-> op, v |-> Vec(F, 1, 3), w |-> Vec(F, 5, 3), e |-> El(F, 9),
         m |-> <<Vec(F, 2, 3), Vec(F, 7, 3)>>]
      ops(file) == <<of(file, "add"), of(file, "inner"), of(file, "scalar_mul")>>
  IN ops("rbc31") \o ops("rbc37") \o ops("rbc43") \o ops("mira128") \o ops("mira192") \o ops("mira256")
     \o <<of("rbc31", "mat_vec"), of("rbc37", "mat_vec"), of("rbc43", "mat_vec")>>
Annihilators ==
  LET of(file, op, n) == LET F == Library[file] IN
        [family |-> "annihilate", file |-> file, op |-> op, v |-> Vec(F, 1, n), e |-> El(F, 11), p |-> Vec(F, 4, 3)]
      ops(file, n) == <<of(file, "annihilator", n), of(file, "evaluate", 2), of(file, "qexp", 2)>>
  IN ops("rbc31", 4) \o ops("rbc37", 4) \o ops("rbc43", 4) \o ops("mira128", 3) \o ops("mira192", 3) \o ops("mira256", 2)
Sets(s, n, m) == Tuple([i \in 1..n |-> {b \in 0..(m - 1) : Rn(s + i, b) % 2 = 0}])
Eliminations ==
  LET v(s)   == Sets(s, 4, 6)
      low(s) == v(s) \o <<Xor(v(s)[1], v(s)[2]), v(s)[3], {}>>     \* rank below its length
      of(file, op, x) == [family |-> "gauss", file |-> file, op |-> op, v |-> x, w |-> Sets(3, Len(x), 6)]
      ops(file, s) == <<of(file, "rank", v(s)), of(file, "rank", low(s)), of(file, "plain", low(s)),
                        of(file, "reduced", v(s)), of(file, "reduced", low(s))>>
  IN ops("rbc31", 1) \o ops("rbc37", 5) \o ops("rbc43", 8)
Draws ==
  LET of(file, op, g) ==
        [family |-> "draw", file |-> file, op |-> op, n |-> 5, copy |-> op = "support",
         v |-> <<{0, 3}, {1, 3}>>, bytes |-> Bytes_(7, 40), pitch |-> 8 * ((g.m + 7) \div 8),
         buf |-> {b \in 0..(5 * 8 * ((g.m + 7) \div 8) - 1) : Rn(2, b) % 2 = 0},
         \* the first two vectors have not full rank with one
         draws |-> << <<{1}, {0, 1}, {2}>>, <<{4}, {4}, {2}>>, <<{4}, {5, 0}, {2, 5}>> >>]
      ops(file, g) == <<of(file, "full_rank", g), of(file, "support", g), [of(file, "support", g) EXCEPT !.copy = FALSE],
                        of(file, "random", g), of(file, "bytes", g)>>
  IN ops("rbc31", Rbc31) \o ops("rbc37", Rbc37) \o ops("rbc43", Rbc43)

-----------------------------------------------------------------------------
(* mirith: columns of one to five bytes, an odd and an even number of them, *)
(* entries that end a group of 32 bytes and entries that do not, and every *)
(* pair of shapes on both sides of a half byte.                            *)

Past == Tuple([i \in 1..64 |-> <<{0, 1, 2, 3}, {0, 1, 2, 3}>>])
Nibbles_(s, rows, cols) == InitRandom(Bytes_(s, BytesPerColumn(rows) * cols), rows, cols)
Shape(rows, cols) == [rows |-> rows, cols |-> cols]
NibbleCalls ==
  LET of(op, s, rows, cols, colsB) ==
        [family |-> "nibble", file |-> "gf16", op |-> op, rows |-> rows, cols |-> cols, colsB |-> colsB, colsZ |-> 1,
         past |-> Past, x |-> Nibbles_(s, rows, cols), y |-> Nibbles_(s + 4, cols, colsB), z |-> Nibbles_(s + 7, cols, 1)]
      product(s, rows, cols, colsB) == of("product", s, rows, cols, colsB)
      blocks(s, rows, cols, colsB) ==
        [of("blocks", s, rows, cols, colsB) EXCEPT !.y = Nibbles_(s + 4, cols, colsB - 1)]
      line(op, n) == [family |-> "nibble", file |-> "gf16", op |-> op, x |-> Nibbles_(n, 2, n), y |-> Nibbles_(n + 1, 2, n),
                      s |-> {0, 1, 3}]
      entry(rows, i, j) == [family |-> "nibble", file |-> "gf16", op |-> "entry", rows |-> rows, cols |-> 3,
                            x |-> Nibbles_(rows, rows, 3), i |-> i, j |-> j, s |-> {0, 2}]
      scalar(a, b) == [family |-> "nibble", file |-> "gf16", op |-> "scalar", x |-> Bits(a), y |-> Bits(b)]
      share == <<Shape(5, 1), Shape(3, 2), Shape(4, 3), Shape(3, 4)>>
  IN <<product(1, 5, 15, 3), product(2, 9, 7, 4), product(3, 2, 3, 3), product(4, 1, 1, 2), product(5, 10, 22, 2),
       product(6, 7, 6, 5), product(7, 16, 4, 3), blocks(8, 5, 7, 4), blocks(9, 4, 3, 3),
       line("multiple", 1), line("multiple", 31), line("multiple", 32), line("multiple", 33), line("multiple", 64),
       line("sum", 33), entry(5, 4, 2), entry(5, 3, 0), entry(4, 3, 1),
       [family |-> "nibble", file |-> "gf16", op |-> "random", shapes |-> share, bytes |-> Bytes_(3, 21)],
       [family |-> "nibble", file |-> "gf16", op |-> "fours", shapes |-> share,
        lanes |-> <<Bytes_(3, 21), Bytes_(4, 21), Bytes_(5, 21), Bytes_(6, 21)>>]>>
     \o Tuple([k \in 1..256 |-> scalar((k - 1) % 16, (k - 1) \div 16)])
Serializations ==
  LET shapes == <<Shape(5, 1), Shape(4, 3), Shape(3, 4), Shape(3, 3), Shape(1, 3), Shape(2, 1), Shape(1, 1)>>
      of(s) == [family |-> "serialize", file |-> "gf16", shapes |-> s, buf |-> SubSeq(Past, 1, 24),
                ms |-> Tuple([k \in DOMAIN s |-> Nibbles_(k, s[k].rows, s[k].cols)])]
  IN Tuple([k \in 1..7 |-> of(<<shapes[k]>>)])
     \o Tuple([k \in 1..49 |-> of(<<shapes[((k - 1) % 7) + 1], shapes[((k - 1) \div 7) + 1]>>)])
     \o Tuple([k \in 1..49 |-> of(<<Shape(5, 1), shapes[((k - 1) % 7) + 1], shapes[((k - 1) \div 7) + 1]>>)])

-----------------------------------------------------------------------------
Tape(n) == [k \in 0..(n - 1) |-> IF (k * 37 + 11) % 23 = 0 THEN {k % 8} ELSE {}]
Circuits ==
  LET of(file, A) == [family |-> "aim", file |-> file, tape |-> Tape(A.tape), b |-> {0, 5, 17},
                      pt |-> {k \in 0..(A.g.m - 1) : (k * k * 7 + k * 3) % 97 < 5}]
  IN <<of("aim128", Aimer128), of("aim192", Aimer192), of("aim256", Aimer256)>>
Chains ==
  LET of(file, g, e) == [family |-> "chain", file |-> file, e |-> e, a |-> {k \in 0..(g.m - 1) : (k * k + k * 3) % 97 < 4},
                         rows |-> Tuple([i \in 1..g.m |-> {(i * 7) % g.m, (i * i) % g.m}])]
  IN <<of("aim128", Aim128, 3), of("aim128", Aim128, 27), of("aim128", Aim128, 5), of("aim192", Aim192, 5), of("aim192", Aim192, 29),
       of("aim192", Aim192, 7), of("aim256", Aim256, 3), of("aim256", Aim256, 53), of("aim256", Aim256, 7), of("aim256", Aim256, 5)>>

MCCalls(family) ==
  CASE family = "multiply" -> Multiplications [] family = "square" -> Squares
    [] family = "inverse" -> Inverses [] family = "power" -> Powers
    [] family = "reduce" -> Reductions [] family = "table" -> Tables
    [] family = "inner" -> InnerProducts [] family = "matrix" -> Matrices
    [] family = "bits" -> BitMatrices [] family = "polynomial" -> Polynomials
    [] family = "pack" -> Packs_ [] family = "sample" -> Samples
    [] family = "vector" -> Vectors_ [] family = "annihilate" -> Annihilators
    [] family = "gauss" -> Eliminations [] family = "draw" -> Draws
    [] family = "nibble" -> NibbleCalls [] family = "serialize" -> Serializations
    [] family = "aim" -> Circuits [] family = "chain" -> Chains
=============================================================================
