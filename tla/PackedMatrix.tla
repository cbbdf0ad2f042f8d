----------------------------- MODULE PackedMatrix -----------------------------
(***************************************************************************)
(* The matrices over GF(16) of mirith, mpc/minrank/mirith: two entries to  *)
(* a byte, column after column, so that with an odd number of rows each    *)
(* column ends with half a byte of padding.  They are packed one after the *)
(* other without that padding, at a position that may lie inside a byte,   *)
(* and multiplied 32 bytes at a time, columns of the first factor against  *)
(* a buffer that is used again for each column of the second.              *)
(* A byte is the pair of its low and its high entry.                       *)
(***************************************************************************)
EXTENDS Vectors

ByteOf(n)            == <<Bits(n % 16), Bits(n \div 16)>>
LowOnly(b)           == <<b[1], {}>>
ByteXor(a, b)        == <<Xor(a[1], b[1]), Xor(a[2], b[2])>>
ZeroByte             == <<{}, {}>>
BytesPerColumn(rows) == (rows + 1) \div 2

\* Row i and column j from 0.
GetEntry(m, rows, i, j) == m[BytesPerColumn(rows) * j + (i \div 2) + 1][(i % 2) + 1]
SetEntry(m, rows, i, j, x) ==
  [m EXCEPT ![BytesPerColumn(rows) * j + (i \div 2) + 1][(i % 2) + 1] = x]

Concatenation(m1, m2) == m1 \o m2
Split(m, rows, cols1) == LET n == BytesPerColumn(rows) * cols1
                         IN <<SubSeq(m, 1, n), SubSeq(m, n + 1, Len(m))>>

-----------------------------------------------------------------------------
(* Draws: whole bytes, then the padding cleaned.  A share is drawn part by *)
(* part, four of them from four streams when the build says so.            *)

InitRandom(bytes, rows, cols) ==
  LET h == BytesPerColumn(rows) IN
  Tuple([k \in 1..(h * cols) |->
    IF rows % 2 = 1 /\ k % h = 0 THEN LowOnly(ByteOf(bytes[k])) ELSE ByteOf(bytes[k])])
InitRandomX4(lanes, rows, cols) == Tuple([l \in 1..4 |-> InitRandom(lanes[l], rows, cols)])

RECURSIVE VecRnd(_, _)
VecRnd(parts, bytes) ==
  IF parts = <<>> THEN <<>>
  ELSE LET n == BytesPerColumn(parts[1].rows) * parts[1].cols
       IN InitRandom(SubSeq(bytes, 1, n), parts[1].rows, parts[1].cols)
            \o VecRnd(Tail(parts), SubSeq(bytes, n + 1, Len(bytes)))
RECURSIVE VecRndX4(_, _)
VecRndX4(parts, lanes) ==
  IF parts = <<>> THEN Tuple([l \in 1..4 |-> <<>>])
  ELSE LET n == BytesPerColumn(parts[1].rows) * parts[1].cols
           head == InitRandomX4([l \in 1..4 |-> SubSeq(lanes[l], 1, n)], parts[1].rows, parts[1].cols)
           rest == VecRndX4(Tail(parts), [l \in 1..4 |-> SubSeq(lanes[l], n + 1, Len(lanes[l]))])
       IN Tuple([l \in 1..4 |-> head[l] \o rest[l]])

-----------------------------------------------------------------------------
(* Sums and products.                                                      *)

\* Table k holds the multiples of X^k.
MulBase(k, b)   == Serial(Gf16, b, {k}, 0)
NibbleMul(a, b) == XorOver([k \in 0..3 |-> IF k \in a THEN MulBase(k, b) ELSE {}], 0..3)
ByteMul(a, b)   == <<NibbleMul(a[1], b), NibbleMul(a[2], b)>>
ScaMul(a, b)    == Serial(Gf16, a, b, 0)

MatrixAdd(m1, m2) == Tuple([i \in DOMAIN m1 |-> ByteXor(m1[i], m2[i])])

\* The full groups of 32 bytes and the words of the last one.
MaddBytes(n) == 32 * ((n + 31) \div 32 - 1)
                  + 4 * (IF n % 32 = 0 THEN 8 ELSE ((n % 32) + 3) \div 4)
AddMultiple(m1, s, m2) ==
  Tuple([i \in DOMAIN m1 |-> IF i <= MaddBytes(Len(m1)) THEN ByteXor(m1[i], ByteMul(m2[i], s)) ELSE m1[i]])

(* Positions from 0.  The columns of A, each h bytes, are read in groups   *)
(* of as many as 32 bytes hold, and every byte of a column meets the entry *)
(* of B for it; the buffer of these entries also takes the sums, and what  *)
(* it holds past the entries stays from one column of B to the next.       *)
Entries(B, h, n, k, old) ==
  [p \in 0..255 |-> IF p < h * n
                    THEN <<B[(n \div 2) * k + ((p \div h) \div 2) + 1][((p \div h) % 2) + 1], {}>>
                    ELSE old[p]]
RECURSIVE NewCore(_, _, _, _, _, _, _)
NewCore(A, B, h, n, colsB, k, old) ==
  IF k = colsB THEN <<>>
  ELSE
    LET cols   == 32 \div h
        groups == ((h * n) + (cols * h) - 1) \div (cols * h)
        masked == Entries(B, h, n, k, old)
        lane   == [p \in 0..31 |->
                    LET at(i) == ((i - 1) * cols * h) + p
                        part  == [i \in 1..groups |-> ByteMul(A[at(i) + 1], masked[at(i)][1])]
                    IN <<XorOver([i \in 1..groups |-> part[i][1]], 1..groups),
                         XorOver([i \in 1..groups |-> part[i][2]], 1..groups)>>]
        buffer == Tuple([p \in 1..256 |-> IF p <= 32 THEN lane[p - 1] ELSE masked[p - 1]])
        column == Tuple([r \in 1..h |->
                    <<XorOver([i \in 1..cols |-> buffer[(i - 1) * h + r][1]], 1..cols),
                      XorOver([i \in 1..cols |-> buffer[(i - 1) * h + r][2]], 1..cols)>>])
    IN column \o NewCore(A, B, h, n, colsB, k + 1, [p \in 0..255 |-> buffer[p + 1]])
\* An odd number of columns is rounded up: the last one lies past A, and the
\* padding of B is its entry.
MatrixProduct(A, past, B, rows, cols, colsB) ==
  NewCore(A \o past, B, BytesPerColumn(rows), 2 * ((cols + 1) \div 2), colsB, 0,
          [p \in 0..255 |-> ZeroByte])

-----------------------------------------------------------------------------
(* Packing.  s is the buffer, the byte to go on at and whether its low     *)
(* half is taken; m is a matrix of n bytes.  With an odd number of rows    *)
(* the last row follows the rest, two entries to a byte; the last entry of *)
(* a matrix fills the half byte that was left open, if there is one.       *)

Overwrite(buf, at, bytes) ==
  Tuple([i \in DOMAIN buf |-> IF i > at /\ i <= at + Len(bytes) THEN bytes[i - at] ELSE buf[i]])

PackEven(s, m) ==
  LET n == Len(m)
      open == <<s.buf[s.at + 1][1], s.buf[s.at + 1][2] \cup m[n][2]>>
  IN [s EXCEPT !.at = @ + n,
               !.buf = Overwrite(@, s.at, IF s.half = 0 THEN m
                         ELSE <<open>> \o SubSeq(m, 1, n - 1) \o <<LowOnly(m[n])>>)]

PackOdd(s, m, cols) ==
  LET h       == Len(m) \div cols
      body    == [k \in 1..((h - 1) * cols) |-> m[h * ((k - 1) \div (h - 1)) + ((k - 1) % (h - 1)) + 1]]
      last(j) == m[h * j]
      pairs   == [k \in 1..((cols - 1) \div 2) |-> <<last(2 * k - 1)[1], last(2 * k)[1]>>]
      rest    == CASE s.half = 1 /\ cols % 2 = 0 -> <<LowOnly(last(cols - 1))>>
                   [] s.half = 1 /\ cols % 2 = 1 -> <<>>
                   [] s.half = 0 /\ cols % 2 = 0 ->
                        << <<last(cols - 1)[1], last(cols)[1] \cup last(cols - 1)[2]>> >>
                   [] s.half = 0 /\ cols % 2 = 1 -> <<LowOnly(last(cols))>>
      opened  == IF s.half = 1 THEN << <<s.buf[s.at + 1][1], last(cols)[1]>> >> ELSE <<>>
  IN [buf  |-> Overwrite(s.buf, s.at, opened \o body \o pairs \o rest),
      at   |-> s.at + (h - 1) * cols + (cols + s.half) \div 2,
      half |-> (s.half + cols) % 2]

PackOne(s, m, rows, cols) == IF rows % 2 = 0 THEN PackEven(s, m) ELSE PackOdd(s, m, cols)

UnpackEven(s, n) ==
  LET from(i) == s.buf[s.at + i + 1]
  IN [s EXCEPT !.at = @ + n,
               !.m = Tuple([i \in 1..n |-> IF s.half = 0 THEN from(i - 1)
                                           ELSE IF i < n THEN from(i)
                                           ELSE <<from(n)[1], from(0)[2]>>])]

UnpackOdd(s, rows, cols) ==
  LET h       == BytesPerColumn(rows)
      from(i) == s.buf[s.at + i + 1]
      row     == (h - 1) * cols + s.half            \* where the last row is
      last(j) == IF j = cols
                 THEN (CASE s.half = 1 -> from(0)[2]
                         [] s.half = 0 /\ cols % 2 = 0 -> from(row + (cols - 1) \div 2)[2]
                         [] s.half = 0 /\ cols % 2 = 1 -> from(row + (cols - 1) \div 2)[1])
                 ELSE from(row + (j - 1) \div 2)[((j - 1) % 2) + 1]
  IN [s EXCEPT !.m = Tuple([k \in 1..(h * cols) |->
                       IF k % h = 0 THEN <<last(k \div h), {}>>
                       ELSE from(s.half + (h - 1) * ((k - 1) \div h) + ((k - 1) % h))]),
               !.at = @ + (h - 1) * cols + (cols + s.half) \div 2,
               !.half = (@ + cols) % 2]

UnpackOne(s, rows, cols) == IF rows % 2 = 0 THEN UnpackEven(s, BytesPerColumn(rows) * cols)
                          ELSE UnpackOdd(s, rows, cols)

\* The matrices of a solution or an instance, one after the other.
RECURSIVE PackAll(_, _, _), UnpackAll(_, _)
PackAll(s, shapes, ms) ==
  IF shapes = <<>> THEN s
  ELSE PackAll(PackOne(s, ms[1], shapes[1].rows, shapes[1].cols), Tail(shapes), Tail(ms))
UnpackAll(s, shapes) ==
  IF shapes = <<>> THEN <<>>
  ELSE LET t == UnpackOne(s, shapes[1].rows, shapes[1].cols) IN <<t.m>> \o UnpackAll(t, Tail(shapes))
=============================================================================
