--------------------------------- MODULE Aim ---------------------------------
(***************************************************************************)
(* The one-way function of aimer and its arithmetic circuit, for the three *)
(* sizes of field.  A is the field g, the exponents e of the Mersenne      *)
(* powers a^(2^e - 1) of the first layer and of the last one, the length   *)
(* of the tape.                                                            *)
(* A matrix is the sequence of its rows, each the set of its ones.         *)
(***************************************************************************)
EXTENDS LibraryFields

(* The table of 2^e-th powers, e the second exponent of the first layer:   *)
(* row k, numbered from 0, is the power of X^k.                            *)
E2PowerMatrix(A, k) == Sqrs(A.g, {k}, A.first[2])
E2Power(A, a)       == IF a = {} THEN {} ELSE XorOver([k \in a |-> E2PowerMatrix(A, k)], a)

Aimer128 == [g |-> Aim128, first |-> <<3, 27>>, last |-> 5, tape |-> 2144]

-----------------------------------------------------------------------------
(* Mersenne powers, by chains: from a^(2^i - 1) and b = a^(2^j - 1), the   *)
(* power i + j is i's squared j times, times b.                            *)

Chain(g, x, j, b) == IF {} \in {x, b} THEN {} ELSE GMul(g, Sqrs(g, x, j), b)
Twice(g, x, j) == Chain(g, x, j, x)
Power3(g, a)   == Chain(g, Twice(g, a, 1), 1, a)
Power6(g, a)   == Twice(g, Power3(g, a), 3)
Power7(g, a)   == Chain(g, Power6(g, a), 1, a)
Power24(g, a)  == Twice(g, Twice(g, Power6(g, a), 6), 12)
Power50(g, a)  == Chain(g, Twice(g, Power24(g, a), 24), 2, Twice(g, a, 1))
Mersenne(g, e, a) ==
  CASE e = 3  -> Power3(g, a)
    [] e = 5  -> Chain(g, Twice(g, Twice(g, a, 1), 2), 1, a)
    [] e = 7  -> Power7(g, a)
    [] e = 27 -> Chain(g, Power24(g, a), 3, Power3(g, a))
    [] e = 29 -> Chain(g, Twice(g, Twice(g, Power7(g, a), 7), 14), 1, a)
    [] e = 53 -> Chain(g, Power50(g, a), 3, Power3(g, a))

\* The rows that the bits of a select, added up; rows are numbered from 0.
MatMul(rows, a) == IF a = {} THEN {} ELSE XorOver(rows, {i \in DOMAIN rows : i - 1 \in a})

-----------------------------------------------------------------------------
(* The linear layer.  Row r of a lower matrix has its diagonal bit and     *)
(* tape bits above it, one of an upper matrix tape bits below: whole words *)
(* first or last, and of the word of the diagonal the bytes that matter.   *)

Words(g)         == g.m \div 64
LowerBytes(r)    == 8 - ((r % 64) + 1) \div 8
UpperBytes(r)    == ((r % 64) + 7) \div 8
LowerRow(g, r)   == LowerBytes(r) + 8 * (Words(g) - 1 - r \div 64)
UpperRow(g, r)   == UpperBytes(r) + 8 * (r \div 64)
RECURSIVE Bytes(_, _, _, _)
Bytes(g, upper, a, b) ==     \* the tape bytes of rows a to b - 1
  CASE a >= b    -> 0
    [] b = a + 1 -> IF upper THEN UpperRow(g, a) ELSE LowerRow(g, a)
    [] OTHER     -> Bytes(g, upper, a, (a + b) \div 2) + Bytes(g, upper, (a + b) \div 2, b)
TapeUsed(g)      == Bytes(g, FALSE, 0, g.m) + Bytes(g, TRUE, 0, g.m)

\* tape[k] is byte k, numbered from 0, as a set of bits; the bytes of a lower
\* row end with the last byte of the row, those of an upper one start at 0.
Spread(tape, from, n, at) == UNION {Shift(tape[from + k], 8 * (at + k)) : k \in 0..(n - 1)}
LowerMatrix(g, tape) ==
  Tuple([i \in 1..g.m |->
    LET r == i - 1  n == LowerRow(g, r)
    IN {r} \cup {e \in Spread(tape, Bytes(g, FALSE, 0, r), n, g.m \div 8 - n) : e > r}])
UpperMatrix(g, tape) ==
  Tuple([i \in 1..g.m |->
    LET r == i - 1
    IN {r} \cup {e \in Spread(tape, Bytes(g, FALSE, 0, g.m) + Bytes(g, TRUE, 0, r), UpperRow(g, r), 0) : e < r}])
\* One matrix for the circuit: row j of the product is the image of row j.
MatrixLU(lower, upper) == Tuple([j \in 1..Len(upper) |-> MatMul(lower, upper[j])])

-----------------------------------------------------------------------------
(* The function, and its circuit: products x[l] pt = z[l] over shares.     *)

Layer(A, pt)       == Tuple([l \in 1..Len(A.first) |-> Mersenne(A.g, A.first[l], pt)])
AimOf(A, lower, upper, vectorB, pt) ==
  LET t    == Layer(A, pt)
      mid  == XorOver([l \in DOMAIN t |-> MatMul(lower[l], MatMul(upper[l], t[l]))], DOMAIN t)
  IN Xor(Mersenne(A.g, A.last, Xor(mid, vectorB)), pt)

AimMpc(A, matrix, vectorB, ct, pt, t, offset) ==
  LET g   == A.g
      lin == XorOver([l \in DOMAIN t |-> MatMul(matrix[l], t[l])], DOMAIN t)
      u   == IF offset THEN Xor(lin, vectorB) ELSE lin
      power(l) == IF l = 2 THEN E2Power(A, pt) ELSE Sqrs(g, pt, A.first[l])
  IN [x |-> Append(t, u),
      z |-> Append([l \in DOMAIN t |-> power(l)],
                   Xor(Sqrs(g, u, A.last), GMul(g, ct, u)))]
=============================================================================
