----------------------------- MODULE PackingProofs -----------------------------
(***************************************************************************)
(* What the proofs of the signatures on additive sharings rest on: sums of *)
(* any number of terms, arithmetic modulo Q, and the identity behind the   *)
(* four packings, that recomposed broadcasts are those of the signer.      *)
(***************************************************************************)
EXTENDS Packing, TLAPS, WellFoundedInduction

-----------------------------------------------------------------------------
(* Numbers.                                                                *)

LEMMA Halves ==
  ASSUME NEW n \in Nat
  PROVE  /\ n \div 2 \in Nat /\ n % 2 \in {0, 1} /\ n = 2 * (n \div 2) + (n % 2)
         /\ n >= 1 => n \div 2 < n
         /\ n >= 2 => n \div 2 >= 1
OBVIOUS

\* The quotients of a number by powers of two.
LEMMA Quotients ==
  ASSUME NEW n \in Nat, NEW m \in Nat \ {0}
  PROVE  /\ n \div m \in Nat /\ (n \div m) \div 2 = n \div (2 * m)
         /\ \A q \in Nat : (q * m <= n <=> q <= n \div m)
<1> DEFINE a == n \div m
           r == n - m * a
<1>1. a \in Nat
  BY SMT
<1>2. r \in 0..(m - 1) /\ n = m * a + r
  <2>1. n % m \in 0..(m - 1) /\ n = m * (n \div m) + (n % m)
    BY Z3
  <2>2. m * a \in Nat
    BY <1>1
  <2> QED BY <2>1, <2>2
<1> HIDE DEF a, r
<1>3. ASSUME NEW q \in Nat PROVE q * m <= n <=> q <= a
  <2>1. CASE q <= a
    <3>1. PICK d \in Nat : a = q + d
      BY <1>1, <2>1, a - q \in Nat
    <3>2. m * a = q * m + m * d /\ m * d \in Nat /\ q * m \in Nat
      BY <3>1
    <3> QED BY <1>2, <2>1, <3>2
  <2>2. CASE ~(q <= a)
    <3>1. PICK d \in Nat : q = a + 1 + d
      BY <1>1, <2>2, q - a - 1 \in Nat
    <3>2. q * m = m * a + m + m * d /\ m * d \in Nat /\ m * a \in Nat
      BY <1>1, <3>1
    <3> QED BY <1>2, <2>2, <3>2
  <2> QED BY <2>1, <2>2
<1>4. a \div 2 = n \div (2 * m)
  <2>1. PICK h \in Nat, b \in {0, 1} : a = 2 * h + b
    BY <1>1, Halves
  <2>2. n = 2 * m * h + (m * b + r) /\ m * b + r \in 0..(2 * m - 1)
    <3>1. CASE b = 0
      <4>1. m * a = 2 * m * h /\ m * b = 0
        BY <2>1, <3>1
      <4> QED BY <1>2, <4>1
    <3>2. CASE b = 1
      <4>1. m * a = 2 * m * h + m /\ m * b = m
        BY <2>1, <3>2
      <4> QED BY <1>2, <4>1
    <3> QED BY <3>1, <3>2
  <2>3. ASSUME NEW x \in Nat, NEW y \in Nat, NEW p \in Nat \ {0}, y < p
        PROVE  (p * x + y) \div p = x
    BY <2>3, Z3
  <2>4. n \div (2 * m) = h
    <3>1. n = (2 * m) * h + (m * b + r) /\ 2 * m \in Nat \ {0}
      BY <2>2
    <3> QED BY <2>2, <2>3, <3>1
  <2>5. a \div 2 = h
    BY <2>1
  <2> QED BY <2>4, <2>5
<1> QED BY <1>1, <1>3, <1>4 DEF a

\* A nonempty set of natural numbers has a least element.
LEMMA Least == ASSUME NEW T, T \subseteq Nat, T # {} PROVE \E x \in T : \A y \in T : x <= y
<1> DEFINE R == {ss \in Nat \X Nat : ss[1] < ss[2]}
<1>1. IsWellFoundedOn(R, Nat)
  BY NatLessThanWellFounded DEF OpToRel
<1>2. PICK x \in T : \A y \in T : <<y, x>> \notin R
  BY <1>1, WFMin
<1>3. ASSUME NEW y \in T PROVE x <= y
  <2>1. <<y, x>> \notin R /\ x \in Nat /\ y \in Nat
    BY <1>2
  <2>2. ~(y < x)
    BY <2>1
  <2> QED BY <2>1, <2>2
<1> QED BY <1>3

-----------------------------------------------------------------------------
(* Sums.                                                                   *)

\* The sums of the first terms of f, up to n of them.
Adds(g, f, n) == g = [k \in 0..n |-> IF k = 0 THEN 0 ELSE g[k - 1] + f[k - 1]]
RunningSum(f, n) ==
  LET sum[k \in 0..n] == IF k = 0 THEN 0 ELSE sum[k - 1] + f[k - 1] IN sum

\* There are sums of the terms of any function.
LEMMA SumsExist ==
  ASSUME NEW n \in Nat, NEW f \in [0..(n - 1) -> Int]
  PROVE  \E g \in [0..n -> Int] : Adds(g, f, n)
<1> DEFINE T == {m \in Nat : m <= n /\ ~ \E g \in [0..m -> Int] : Adds(g, f, m)}
<1> SUFFICES ASSUME T # {} PROVE FALSE
  BY n <= n
<1>1. PICK m \in T : \A y \in T : m <= y
  BY Least
<1>2. CASE m = 0
  <2> DEFINE g == [k \in 0..0 |-> 0]
  <2>1. g \in [0..0 -> Int] /\ g = [k \in 0..0 |-> IF k = 0 THEN 0 ELSE g[k - 1] + f[k - 1]]
    OBVIOUS
  <2> QED BY <1>1, <1>2, <2>1 DEF Adds
<1>3. CASE m # 0
  <2>1. m \in Nat \ {0} /\ m - 1 \in Nat /\ m - 1 <= n /\ m <= n
    BY <1>1, <1>3
  <2>2. m - 1 \notin T
    BY <1>1, <2>1
  <2>3. PICK h \in [0..(m - 1) -> Int] : Adds(h, f, m - 1)
    BY <2>1, <2>2
  <2> DEFINE g == [k \in 0..m |-> IF k = m THEN h[m - 1] + f[m - 1] ELSE h[k]]
  <2>4. g \in [0..m -> Int]
    BY <2>1
  <2>5. ASSUME NEW k \in 0..m PROVE g[k] = IF k = 0 THEN 0 ELSE g[k - 1] + f[k - 1]
    <3>1. CASE k = m
      BY <2>1, <3>1
    <3>2. CASE k # m
      <4>1. k \in 0..(m - 1) /\ h[k] = IF k = 0 THEN 0 ELSE h[k - 1] + f[k - 1]
        BY <2>1, <2>3, <3>2 DEF Adds
      <4> QED BY <2>1, <3>2, <4>1
    <3> QED BY <3>1, <3>2
  <2>6. Adds(g, f, m)
    BY <2>4, <2>5 DEF Adds
  <2> QED BY <1>1, <2>4, <2>6
<1> QED BY <1>2, <1>3

\* And only one.
LEMMA SumsUnique ==
  ASSUME NEW n \in Nat, NEW f, NEW g, NEW h, Adds(g, f, n), Adds(h, f, n)
  PROVE  g = h
<1> DEFINE T == {m \in 0..n : g[m] # h[m]}
<1>1. CASE T # {}
  <2>1. PICK m \in T : \A y \in T : m <= y
    BY <1>1, Least, T \subseteq Nat
  <2>2. m # 0
    <3>1. 0 \in 0..n
      OBVIOUS
    <3>2. g[0] = 0
      BY <3>1 DEF Adds
    <3>3. h[0] = 0
      BY <3>1 DEF Adds
    <3> QED BY <2>1, <3>2, <3>3
  <2>3. m - 1 \in 0..n /\ g[m - 1] = h[m - 1]
    BY <2>1, <2>2
  <2>4. g[m] = g[m - 1] + f[m - 1] /\ h[m] = h[m - 1] + f[m - 1]
    BY <2>1, <2>2 DEF Adds
  <2> QED BY <2>1, <2>3, <2>4
<1>2. CASE T = {}
  <2>1. \A m \in 0..n : g[m] = h[m]
    BY <1>2
  <2>2. g = [k \in 0..n |-> g[k]]
    BY Zenon DEF Adds
  <2>3. h = [k \in 0..n |-> h[k]]
    BY Zenon DEF Adds
  <2>4. [k \in 0..n |-> g[k]] = [k \in 0..n |-> h[k]]
    BY <2>1
  <2> QED BY <2>2, <2>3, <2>4
<1> QED BY <1>1, <1>2

\* What a running sum is.
LEMMA RunningSums ==
  ASSUME NEW n \in Nat, NEW f \in [0..(n - 1) -> Int]
  PROVE  /\ RunningSum(f, n) \in [0..n -> Int]
         /\ Adds(RunningSum(f, n), f, n)
         /\ RunningSum(f, n)[0] = 0
         /\ \A k \in 0..(n - 1) : RunningSum(f, n)[k + 1] = RunningSum(f, n)[k] + f[k]
<1>1. PICK g \in [0..n -> Int] : Adds(g, f, n)
  BY SumsExist
<1>2. Adds(RunningSum(f, n), f, n)
  BY <1>1, Zenon DEF Adds, RunningSum
<1>3. RunningSum(f, n) = g
  BY <1>1, <1>2, SumsUnique
<1>4. g[0] = 0 /\ \A k \in 0..(n - 1) : g[k + 1] = g[k] + f[k]
  <2>1. ASSUME NEW k \in 0..(n - 1) PROVE g[k + 1] = g[k] + f[k]
    <3>1. k + 1 \in 0..n /\ k + 1 # 0 /\ k + 1 - 1 = k
      OBVIOUS
    <3> QED BY <1>1, <3>1 DEF Adds
  <2> QED BY <1>1, <2>1 DEF Adds
<1> QED BY <1>1, <1>2, <1>3, <1>4

\* A sum of terms that do not exceed a bound.
LEMMA SumBound ==
  ASSUME NEW n \in Nat, NEW f \in [0..(n - 1) -> Int], NEW B \in Int,
         \A k \in 0..(n - 1) : f[k] <= B
  PROVE  RunningSum(f, n)[n] <= n * B
<1> DEFINE g == RunningSum(f, n)
           T == {m \in 0..n : ~(g[m] <= m * B)}
<1>1. /\ g \in [0..n -> Int] /\ g[0] = 0
      /\ \A k \in 0..(n - 1) : g[k + 1] = g[k] + f[k]
  BY RunningSums
<1> HIDE DEF g
<1>2. CASE T # {}
  <2>1. PICK m \in T : \A y \in T : m <= y
    BY <1>2, Least, T \subseteq Nat
  <2>2. m # 0
    BY <1>1, <2>1
  <2>3. PICK k \in 0..(n - 1) : m = k + 1
    BY <2>1, <2>2, m - 1 \in 0..(n - 1)
  <2>4. g[k] <= k * B /\ g[m] = g[k] + f[k] /\ f[k] <= B
    BY <1>1, <2>1, <2>3
  <2>5. m * B = k * B + B /\ k * B \in Int /\ m * B \in Int
    BY <2>3
  <2>6. g[m] \in Int /\ g[k] \in Int /\ f[k] \in Int /\ ~(g[m] <= m * B)
    BY <1>1, <2>1, <2>3
  <2> HIDE DEF T
  <2> QED BY <2>4, <2>5, <2>6
<1>3. CASE T = {}
  BY <1>3, n \in 0..n DEF g
<1> QED BY <1>2, <1>3

-----------------------------------------------------------------------------
(* Arithmetic of the field.                                                *)

\* A number is equal to its remainder, up to a multiple of the size of the field.
LEMMA Normalises ==
  ASSUME NEW a \in Int
  PROVE  F(a) \in Field /\ F(a) \in Int /\ \E d \in Int : F(a) = a + Q * d
<1>1. ASSUME NEW q \in Nat \ {0}
      PROVE  a % q \in 0..(q - 1) /\ a \div q \in Int /\ a = q * (a \div q) + (a % q)
  BY <1>1, Z3
<1>2. Q \in Nat \ {0}
  BY FieldAssumption
<1>3. PICK x \in Int : a = Q * x + F(a)
  BY <1>1, <1>2 DEF F
<1>4. F(a) \in Field /\ F(a) \in Int
  BY <1>1, <1>2 DEF F, Field
<1>5. F(a) = a + Q * (-x)
  <2>1. Q * (-x) = -(Q * x) /\ Q * x \in Int
    BY <1>2
  <2> QED BY <1>3, <1>4, <2>1
<1> QED BY <1>4, <1>5, -x \in Int

\* Numbers that differ by such a multiple have the same remainder.
LEMMA Remainder ==
  ASSUME NEW a \in Int, NEW b \in Int, NEW d \in Int, a = b + Q * d
  PROVE  F(a) = F(b)
<1>1. Q \in Nat \ {0}
  BY FieldAssumption
<1>2. PICK x \in Int : F(a) = a + Q * x
  BY Normalises
<1>3. PICK y \in Int : F(b) = b + Q * y
  BY Normalises
<1>4. F(a) \in 0..(Q - 1) /\ F(b) \in 0..(Q - 1)
  BY Normalises DEF Field
<1>5. PICK k \in Int : k = d + x - y
  BY d + x - y \in Int
<1>6. F(a) - F(b) = Q * k
  <2>1. Q * k = Q * d + Q * x - Q * y /\ Q * d \in Int /\ Q * x \in Int /\ Q * y \in Int
    BY <1>1, <1>5
  <2> QED BY <1>2, <1>3, <2>1
<1>7. CASE k = 0
  BY <1>1, <1>4, <1>6, <1>7
<1>8. CASE k >= 1
  <2>1. PICK j \in Nat : k = 1 + j
    BY <1>8, k - 1 \in Nat
  <2>2. Q * k = Q + Q * j /\ Q * j \in Nat
    BY <1>1, <2>1
  <2> QED BY <1>1, <1>4, <1>6, <2>2
<1>9. CASE k <= -1
  <2>1. PICK j \in Nat : k = -1 - j
    BY <1>9, -1 - k \in Nat
  <2>2. Q * k = -Q - Q * j /\ Q * j \in Nat
    BY <1>1, <2>1
  <2> QED BY <1>1, <1>4, <1>6, <2>2
<1> QED BY <1>7, <1>8, <1>9

LEMMA FieldElements ==
  ASSUME NEW a \in Field
  PROVE  a \in Int /\ F(a) = a
BY FieldAssumption DEF F, Field

\* Normalising an operand changes nothing to a sum.
LEMMA SumNormalises ==
  ASSUME NEW a \in Int, NEW b \in Int
  PROVE  F(F(a) + b) = F(a + b)
<1>1. PICK d \in Int : F(a) = a + Q * d
  BY Normalises
<1>2. F(a) + b = (a + b) + Q * d /\ F(a) + b \in Int /\ a + b \in Int
  BY <1>1, FieldAssumption
<1> QED BY <1>2, Remainder

\* A difference to a sum, added to the sum.
LEMMA DifferenceNormalises ==
  ASSUME NEW a \in Int, NEW b \in Int
  PROVE  F(b + F(a - F(b))) = F(a)
<1>1. PICK d \in Int : F(b) = b + Q * d
  BY Normalises
<1>2. a - F(b) \in Int
  BY <1>1, FieldAssumption
<1>3. PICK c \in Int : F(a - F(b)) = (a - F(b)) + Q * c
  BY <1>2, Normalises
<1>4. b + F(a - F(b)) = a + Q * (c - d)
  <2>1. Q * (c - d) = Q * c - Q * d /\ Q * c \in Int /\ Q * d \in Int
    BY FieldAssumption
  <2> QED BY <1>1, <1>3, <2>1
<1> HIDE DEF F
<1>5. c - d \in Int /\ a + Q * (c - d) \in Int
  BY FieldAssumption
<1> QED BY <1>4, <1>5, Remainder

\* Congruences.
LEMMA Differ ==
  ASSUME NEW a \in Int, NEW b \in Int, \E d \in Int : a = b + Q * d
  PROVE  F(a) = F(b)
BY Remainder

LEMMA Congruent ==
  ASSUME NEW a \in Int, NEW b \in Int, F(a) = F(b)
  PROVE  \E d \in Int : a = b + Q * d
<1>1. PICK x \in Int : F(a) = a + Q * x
  BY Normalises
<1>2. PICK y \in Int : F(b) = b + Q * y
  BY Normalises
<1>3. Q \in Int /\ y - x \in Int
  BY FieldAssumption
<1>4. Q * (y - x) = Q * y - Q * x /\ Q * y \in Int /\ Q * x \in Int
  BY <1>3
<1>5. a + Q * x = b + Q * y
  BY <1>1, <1>2
<1>6. a = b + Q * (y - x)
  BY <1>4, <1>5
<1> QED BY <1>3, <1>6

LEMMA SumsCongruent ==
  ASSUME NEW a \in Int, NEW b \in Int, NEW c \in Int, NEW d \in Int, F(a) = F(b), F(c) = F(d)
  PROVE  F(a + c) = F(b + d)
<1>1. PICK x \in Int : a = b + Q * x
  BY Congruent
<1>2. PICK y \in Int : c = d + Q * y
  BY Congruent
<1>3. Q \in Int /\ x + y \in Int
  BY FieldAssumption
<1>4. Q * (x + y) = Q * x + Q * y /\ Q * y \in Int /\ Q * x \in Int
  BY <1>3
<1>5. a + c = (b + d) + Q * (x + y)
  BY <1>1, <1>2, <1>4
<1>6. a + c \in Int /\ b + d \in Int
  OBVIOUS
<1> QED BY <1>3, <1>5, <1>6, Differ

Scaled(k, a) == k * a
LEMMA MultiplesCongruent ==
  ASSUME NEW k \in Int, NEW a \in Int, NEW b \in Int, F(a) = F(b)
  PROVE  F(Scaled(k, a)) = F(Scaled(k, b))
<1>1. PICK x \in Int : a = b + Q * x
  BY Congruent
<1>2. Q \in Int /\ k * x \in Int
  BY FieldAssumption
<1>3. k * a = k * b + Q * (k * x)
  BY <1>1, <1>2
<1>4. k * a \in Int /\ k * b \in Int
  OBVIOUS
<1> QED BY <1>2, <1>3, <1>4, Differ DEF Scaled

LEMMA NormalForm == ASSUME NEW a \in Int PROVE F(F(a)) = F(a) /\ F(a) \in Field /\ F(a) \in Int
BY Normalises, FieldElements

\* An inverse of each nonzero element.
LEMMA Inverts ==
  ASSUME NEW x \in Field \ {0}
  PROVE  ScaInverse(x) \in Field /\ ScaInverse(x) \in Int /\ F(x * ScaInverse(x)) = 1
<1>1. \E y \in Field : F(x * y) = 1
  BY FieldAssumption
<1>2. ScaInverse(x) \in Field /\ F(x * ScaInverse(x)) = 1
  BY <1>1 DEF ScaInverse
<1> QED BY <1>2, FieldElements

\* The sum of the first n values of a function.
SumUpTo(f, n) == RunningSum([k \in 0..(n - 1) |-> f[k]], n)[n]

LEMMA SumsUpTo ==
  ASSUME NEW N \in Nat, NEW f, \A k \in 0..(N - 1) : f[k] \in Int
  PROVE  /\ SumUpTo(f, 0) = 0
         /\ \A n \in 0..N : SumUpTo(f, n) \in Int
         /\ \A n \in 0..(N - 1) : SumUpTo(f, n + 1) = SumUpTo(f, n) + f[n]
<1> DEFINE cut(n) == [k \in 0..(n - 1) |-> f[k]]
<1>1. ASSUME NEW n \in 0..N PROVE cut(n) \in [0..(n - 1) -> Int]
  OBVIOUS
<1>2. ASSUME NEW n \in 0..N
      PROVE  /\ RunningSum(cut(n), n) \in [0..n -> Int]
             /\ RunningSum(cut(n), n)[0] = 0
             /\ Adds(RunningSum(cut(n), n), cut(n), n)
             /\ \A k \in 0..(n - 1) :
                  RunningSum(cut(n), n)[k + 1] = RunningSum(cut(n), n)[k] + cut(n)[k]
  <2>1. n \in Nat /\ cut(n) \in [0..(n - 1) -> Int]
    BY <1>1
  <2> HIDE DEF cut
  <2> QED BY <2>1, RunningSums
<1>3. ASSUME NEW n \in 0..(N - 1) PROVE SumUpTo(f, n + 1) = SumUpTo(f, n) + f[n]
  <2> DEFINE g == RunningSum(cut(n + 1), n + 1)
             h == [k \in 0..n |-> g[k]]
  <2>1. n \in 0..N /\ n + 1 \in 0..N /\ n \in 0..(n + 1 - 1) /\ n \in Nat
    OBVIOUS
  <2>2. g \in [0..(n + 1) -> Int] /\ Adds(g, cut(n + 1), n + 1) /\ g[n + 1] = g[n] + cut(n + 1)[n]
    BY <1>2, <2>1
  <2>3. ASSUME NEW k \in 0..n, k # 0
        PROVE  g[k] = g[k - 1] + cut(n + 1)[k - 1] /\ cut(n + 1)[k - 1] = cut(n)[k - 1]
               /\ k - 1 \in 0..n
    <3>1. k \in 0..(n + 1)
      OBVIOUS
    <3>2. k - 1 \in 0..n /\ k - 1 \in 0..(n + 1 - 1) /\ k - 1 \in 0..(n - 1)
      BY <2>3
    <3>3. cut(n + 1)[k - 1] = f[k - 1] /\ cut(n)[k - 1] = f[k - 1]
      BY <3>2
    <3> HIDE DEF cut, g
    <3> QED BY <2>2, <2>3, <3>1, <3>2, <3>3 DEF Adds
  <2>4. g[0] = 0
    BY <1>2, <2>1
  <2>5. cut(n + 1)[n] = f[n]
    BY <2>1
  <2> HIDE DEF cut, g
  <2>6. Adds(h, cut(n), n)
    <3>1. ASSUME NEW k \in 0..n
          PROVE  h[k] = IF k = 0 THEN 0 ELSE h[k - 1] + cut(n)[k - 1]
      BY <2>3, <2>4
    <3> QED BY <3>1 DEF Adds
  <2>7. h = RunningSum(cut(n), n)
    BY <1>2, <2>1, <2>6, SumsUnique
  <2>8. SumUpTo(f, n) = RunningSum(cut(n), n)[n] /\ SumUpTo(f, n + 1) = g[n + 1]
    BY DEF SumUpTo, cut, g
  <2> QED BY <2>1, <2>2, <2>5, <2>7, <2>8
<1>4. \A n \in 0..N : SumUpTo(f, n) = RunningSum(cut(n), n)[n]
  BY DEF SumUpTo
<1> HIDE DEF cut
<1>5. SumUpTo(f, 0) = 0
  BY <1>2, <1>4, 0 \in 0..N
<1>6. ASSUME NEW n \in 0..N PROVE SumUpTo(f, n) \in Int
  BY <1>2, <1>4, n \in 0..n
<1> QED BY <1>3, <1>5, <1>6

\* Functions that agree on the terms have the same sum.
LEMMA SumsAgree ==
  ASSUME NEW n, NEW f, NEW g, \A k \in 0..(n - 1) : f[k] = g[k]
  PROVE  SumUpTo(f, n) = SumUpTo(g, n)
<1>1. [k \in 0..(n - 1) |-> f[k]] = [k \in 0..(n - 1) |-> g[k]]
  OBVIOUS
<1> QED BY <1>1 DEF SumUpTo

\* A combination of two sums is that of their terms, modulo Q.
Combine(a, f, b, g, h, n) == F(SumUpTo(h, n)) = F(a * SumUpTo(f, n) + b * SumUpTo(g, n))
LEMMA SumsCombine ==
  ASSUME NEW N \in Nat, NEW a \in Int, NEW b \in Int, NEW f, NEW g, NEW h,
         \A k \in 0..(N - 1) : /\ f[k] \in Int /\ g[k] \in Int /\ h[k] \in Int
                               /\ F(h[k]) = F(a * f[k] + b * g[k])
  PROVE  Combine(a, f, b, g, h, N)
<1> DEFINE P(n) == F(SumUpTo(h, n)) = F(a * SumUpTo(f, n) + b * SumUpTo(g, n))
           T == {n \in 0..N : ~P(n)}
<1>1. /\ SumUpTo(f, 0) = 0 /\ \A n \in 0..N : SumUpTo(f, n) \in Int
      /\ \A n \in 0..(N - 1) : SumUpTo(f, n + 1) = SumUpTo(f, n) + f[n]
  BY SumsUpTo
<1>2. /\ SumUpTo(g, 0) = 0 /\ \A n \in 0..N : SumUpTo(g, n) \in Int
      /\ \A n \in 0..(N - 1) : SumUpTo(g, n + 1) = SumUpTo(g, n) + g[n]
  BY SumsUpTo
<1>3. /\ SumUpTo(h, 0) = 0 /\ \A n \in 0..N : SumUpTo(h, n) \in Int
      /\ \A n \in 0..(N - 1) : SumUpTo(h, n + 1) = SumUpTo(h, n) + h[n]
  BY SumsUpTo
<1>4. P(0)
  <2>1. a * 0 + b * 0 = 0
    OBVIOUS
  <2> QED BY <1>1, <1>2, <1>3, <2>1
<1>5. ASSUME NEW n \in 0..(N - 1), P(n) PROVE P(n + 1)
  <2>1. /\ SumUpTo(f, n) \in Int /\ SumUpTo(g, n) \in Int /\ SumUpTo(h, n) \in Int
        /\ f[n] \in Int /\ g[n] \in Int /\ h[n] \in Int
        /\ F(h[n]) = F(a * f[n] + b * g[n])
        /\ F(SumUpTo(h, n)) = F(a * SumUpTo(f, n) + b * SumUpTo(g, n))
    BY <1>1, <1>2, <1>3, <1>5, n \in 0..N
  <2>2. PICK x \in Int, y \in Int, z \in Int :
          x = SumUpTo(f, n) /\ y = SumUpTo(g, n) /\ z = SumUpTo(h, n)
    BY <2>1
  <2>3. PICK s \in Int, t \in Int, u \in Int : s = f[n] /\ t = g[n] /\ u = h[n]
    BY <2>1
  <2>4. F(z) = F(a * x + b * y) /\ F(u) = F(a * s + b * t)
    BY <2>1, <2>2, <2>3
  <2>5. F(z + u) = F(a * (x + s) + b * (y + t))
    <3>1. a * x + b * y \in Int /\ a * s + b * t \in Int
      OBVIOUS
    <3>2. F(z + u) = F((a * x + b * y) + (a * s + b * t))
      BY <2>4, <3>1, SumsCongruent
    <3>3. (a * x + b * y) + (a * s + b * t) = a * (x + s) + b * (y + t)
      OBVIOUS
    <3> QED BY <3>2, <3>3
  <2>6. /\ SumUpTo(f, n + 1) = x + s /\ SumUpTo(g, n + 1) = y + t
        /\ SumUpTo(h, n + 1) = z + u
    BY <1>1, <1>2, <1>3, <2>2, <2>3
  <2> QED BY <2>5, <2>6
<1> HIDE DEF P
<1>6. CASE T # {}
  <2>1. PICK m \in T : \A y \in T : m <= y
    BY <1>6, Least, T \subseteq Nat
  <2>2. m # 0
    BY <1>4, <2>1
  <2>3. m - 1 \in 0..(N - 1) /\ m - 1 \in 0..N /\ (m - 1) + 1 = m /\ ~(m <= m - 1)
    BY <2>1, <2>2
  <2>4. P(m - 1)
    BY <2>1, <2>3
  <2>5. P(m - 1 + 1)
    BY <1>5, <2>3, <2>4
  <2> QED BY <2>1, <2>3, <2>5
<1>7. CASE T = {}
  BY <1>7, N \in 0..N DEF P, Combine
<1> QED BY <1>6, <1>7

\* The parts of a share, and of the sum of two.
Parts == {"wit", "unif", "corr"}

LEMMA SumOfTwo ==
  ASSUME NEW s \in Share, NEW t \in Share
  PROVE  /\ Plus(s, t) \in Share
         /\ \A c \in Parts : /\ s[c] \in Int /\ t[c] \in Int
                             /\ Plus(s, t)[c] = F(s[c] + t[c])
<1>1. ASSUME NEW c \in Parts PROVE s[c] \in Field /\ t[c] \in Field
  BY <1>1 DEF Share, Parts
<1>2. \A c \in Parts : s[c] \in Int /\ t[c] \in Int
  BY <1>1, FieldElements
<1>3. \A c \in Parts : F(s[c] + t[c]) \in Field
  BY <1>2, Normalises
<1>4. Plus(s, t) \in Share
  BY <1>3 DEF Plus, Share, Parts
<1>5. ASSUME NEW c \in Parts PROVE Plus(s, t)[c] = F(s[c] + t[c])
  BY <1>5 DEF Plus, Parts
<1> QED BY <1>2, <1>4, <1>5

-----------------------------------------------------------------------------
(* The weights of the parties.  In all packings but the traditional one,   *)
(* the weight of an open party in a pack of the verifier is A + B w, where *)
(* w is its weight in the signer's pack, and A + B w is zero for the       *)
(* hidden party.                                                           *)

OpenFactor(b, h, p) == IF HasOffset(b, h, p) THEN 1 ELSE 0
SignerFactor(b, h, p) ==
  CASE b.kind = "hypercube" -> IF Bit(h, p) # 1 THEN -1 ELSE 1
    [] b.kind = "threshold" -> IF h # 0 THEN h ELSE 1
    [] b.kind = "lifting"   -> IF Position(b, p, h) # 0 THEN Position(b, p, h) ELSE 1

LEMMA Power ==
  ASSUME NEW b, WellFormed(b), NEW n \in 0..(b.log + b.dim)
  PROVE  2^n \in Nat \ {0} /\ 2^(n + 1) = 2 * 2^n
BY DEF WellFormed

LEMMA ModuloIsLess ==
  ASSUME NEW a \in Nat, NEW m \in Nat \ {0}
  PROVE  a % m \in 0..(m - 1)
BY Z3

LEMMA Bits ==
  ASSUME NEW b, WellFormed(b), NEW i \in Nat, NEW p \in 0..(b.log - 1)
  PROVE  Bit(i, p) \in {0, 1}
<1>1. b.log \in Nat /\ b.dim \in Nat
  BY DEF WellFormed
<1>2. p \in 0..(b.log + b.dim)
  BY <1>1
<1>3. PICK m \in Nat \ {0} : m = 2^p
  BY <1>2, Power
<1>4. PICK a \in Nat : a = i \div m
  BY <1>3, Quotients
<1>5. a % 2 \in {0, 1}
  BY <1>4, Halves
<1> QED BY <1>3, <1>4, <1>5 DEF Bit

\* The position of a party on an edge is a point of the field.
LEMMA Positions ==
  ASSUME NEW b, WellFormed(b), b.kind = "lifting", NEW i \in Nat, NEW p \in Packs(b)
  PROVE  Position(b, p, i) \in Field
<1>1. /\ b.log \in Nat /\ b.dim \in Nat \ {0} /\ 2^EdgeLog(b) <= Q
      /\ p \in 0..(b.dim - 1)
  BY DEF WellFormed, Buildable, Packs, NbPacks
<1> DEFINE s == b.log + b.dim - 1
           l == EdgeLog(b)
<1>2. s \in Nat
  BY <1>1
<1>3. l = s \div b.dim
  BY DEF EdgeLog
<1> HIDE DEF l, s
<1>4. l \in Nat /\ \A q \in Nat : q * b.dim <= s <=> q <= l
  BY <1>1, <1>2, <1>3, Quotients
<1>5. l * b.dim <= s
  BY <1>4
<1>6. PICK c \in Nat : b.dim = p + 1 + c
  BY <1>1, b.dim - p - 1 \in Nat
<1>7. l * b.dim = p * l + l + l * c /\ p * l \in Nat /\ l * c \in Nat
  BY <1>1, <1>4, <1>6
<1>8. p * l \in 0..(b.log + b.dim) /\ l \in 0..(b.log + b.dim)
  BY <1>1, <1>4, <1>5, <1>7 DEF s
<1>9. PICK m \in Nat \ {0}, n \in Nat \ {0} : m = 2^(p * l) /\ n = 2^l
  BY <1>8, Power
<1>10. i \div m \in Nat
  BY <1>9, Quotients
<1>11. (i \div m) % n \in 0..(n - 1)
  BY <1>9, <1>10, ModuloIsLess
<1>12. n <= Q /\ Q \in Nat
  BY <1>1, <1>9, FieldAssumption DEF l
<1> QED BY <1>9, <1>11, <1>12 DEF Position, l, Field

\* The weights of the points of a line.
LEMMA PointWeights ==
  ASSUME NEW x \in Field
  PROVE  /\ ThresholdWeight(x) \in Int
         /\ x = 0 => ThresholdWeight(x) = 0
         /\ x # 0 => ThresholdWeight(x) = -ScaInverse(x) /\ F(1 + x * ThresholdWeight(x)) = 0
<1>1. x \in Int /\ x >= 0
  BY FieldAssumption DEF Field
<1>2. CASE x = 0
  BY <1>1, <1>2 DEF ThresholdWeight
<1>3. CASE x # 0
  <2>1. PICK y \in Int : y = ScaInverse(x) /\ F(x * y) = 1
    BY <1>3, Inverts
  <2>2. ThresholdWeight(x) = -y
    BY <1>1, <1>3, <2>1 DEF ThresholdWeight
  <2>3. F(x * y) = F(1) /\ F(0) = 0
    BY <2>1, FieldAssumption, FieldElements DEF Field
  <2>4. PICK z \in Int : z = x * y
    BY <1>1, <2>1
  <2>5. F(Scaled(-1, z)) = F(Scaled(-1, 1))
    BY <2>3, <2>4, MultiplesCongruent
  <2>6. Scaled(-1, z) = -z /\ Scaled(-1, 1) = -1 /\ -z \in Int
    BY <2>4 DEF Scaled
  <2>7. F(1 + (-z)) = F(1 + (-1))
    BY <2>5, <2>6, SumsCongruent
  <2>8. 1 + x * (-y) = 1 + (-z) /\ 1 + (-1) = 0
    BY <1>1, <2>1, <2>4
  <2> QED BY <1>3, <2>1, <2>2, <2>3, <2>7, <2>8
<1> QED BY <1>2, <1>3

LEMMA Threshold ==
  ASSUME NEW b, WellFormed(b), b.kind = "threshold", NEW i \in 0..(b.parties - 1)
  PROVE  i \in Field /\ i \in Int /\ i >= 0
<1>1. b.parties <= Q /\ b.parties \in Nat
  BY DEF WellFormed, Buildable
<1> QED BY <1>1, FieldAssumption DEF Field

LEMMA AffineWeights ==
  ASSUME NEW b, WellFormed(b), b.kind # "traditional",
         NEW h \in 0..(b.parties - 1), NEW p \in Packs(b), NEW i \in 0..(b.parties - 1)
  PROVE  /\ Weight(b, p, i) \in Int /\ SignerFactor(b, h, p) \in Int
         /\ F(OpenFactor(b, h, p) + SignerFactor(b, h, p) * Weight(b, p, h)) = 0
         /\ i # h => /\ OpenWeight(b, h, p, i) \in Int
                     /\ F(OpenWeight(b, h, p, i))
                          = F(OpenFactor(b, h, p) + SignerFactor(b, h, p) * Weight(b, p, i))
<1>1. F(0) = 0
  BY FieldAssumption, FieldElements DEF Field
<1>2. h \in Nat /\ i \in Nat
  BY DEF WellFormed
<1>3. CASE b.kind = "hypercube"
  <2>1. p \in 0..(b.log - 1)
    BY <1>3 DEF Packs, NbPacks
  <2>2. Bit(h, p) \in {0, 1} /\ Bit(i, p) \in {0, 1}
    BY <1>2, <2>1, Bits
  <2>3. /\ Weight(b, p, i) = IF Bit(i, p) = 0 THEN 1 ELSE 0
        /\ Weight(b, p, h) = IF Bit(h, p) = 0 THEN 1 ELSE 0
        /\ OpenWeight(b, h, p, i) = IF Bit(i, p) # Bit(h, p) THEN 1 ELSE 0
        /\ SignerFactor(b, h, p) = IF Bit(h, p) # 1 THEN -1 ELSE 1
        /\ OpenFactor(b, h, p) = IF Bit(h, p) # 1 THEN 1 ELSE 0
    BY <1>3 DEF Weight, HypercubeWeight, OpenWeight, HypercubeOpen, SignerFactor, OpenFactor, HasOffset
  <2> QED BY <1>1, <2>2, <2>3
<1>4. CASE b.kind = "threshold"
  <2>1. i \in Field /\ h \in Field /\ i \in Int /\ h \in Int /\ i >= 0 /\ h >= 0
    BY <1>4, Threshold
  <2>2. /\ Weight(b, p, i) = ThresholdWeight(i) /\ Weight(b, p, h) = ThresholdWeight(h)
        /\ OpenWeight(b, h, p, i) = ThresholdOpen(h, i)
        /\ SignerFactor(b, h, p) = IF h # 0 THEN h ELSE 1
        /\ OpenFactor(b, h, p) = IF h # 0 THEN 1 ELSE 0
    BY <1>4 DEF Weight, OpenWeight, SignerFactor, OpenFactor, HasOffset
  <2>3. /\ ThresholdWeight(i) \in Int /\ ThresholdWeight(h) \in Int
        /\ (i = 0 => ThresholdWeight(i) = 0) /\ (i # 0 => ThresholdWeight(i) = -ScaInverse(i))
        /\ (h = 0 => ThresholdWeight(h) = 0) /\ (h # 0 => F(1 + h * ThresholdWeight(h)) = 0)
    BY <2>1, PointWeights
  <2>4. F(OpenFactor(b, h, p) + SignerFactor(b, h, p) * Weight(b, p, h)) = 0
    BY <1>1, <2>2, <2>3
  <2>5. ASSUME i # h
        PROVE  /\ OpenWeight(b, h, p, i) \in Int
               /\ OpenWeight(b, h, p, i)
                    = OpenFactor(b, h, p) + SignerFactor(b, h, p) * Weight(b, p, i)
    <3>1. i = 0 => ThresholdOpen(h, i) = IF h = 0 THEN 0 ELSE 1
      BY <2>1 DEF ThresholdOpen
    <3>2. CASE i # 0
      <4>1. PICK y \in Int : y = ScaInverse(i)
        BY <2>1, <3>2, Inverts
      <4>2. ThresholdOpen(h, i) = IF h = 0 THEN -y ELSE 1 - h * y
        BY <2>1, <3>2, <4>1 DEF ThresholdOpen
      <4>3. 1 - h * y = 1 + h * (-y) /\ -y = 0 + 1 * (-y)
        BY <2>1
      <4> QED BY <2>1, <2>2, <2>3, <3>2, <4>1, <4>2, <4>3
    <3>3. CASE i = 0
      BY <2>1, <2>2, <2>3, <2>5, <3>1, <3>3
    <3> QED BY <3>2, <3>3
  <2> QED BY <2>1, <2>2, <2>3, <2>4, <2>5
<1>5. CASE b.kind = "lifting"
  <2> DEFINE at == Position(b, p, i)
             ht == Position(b, p, h)
  <2>1. at \in Field /\ ht \in Field
    BY <1>2, <1>5, Positions
  <2>2. at \in Int /\ ht \in Int /\ at >= 0 /\ ht >= 0
    BY <2>1, FieldAssumption DEF Field
  <2>3. /\ Weight(b, p, i) = ThresholdWeight(at) /\ Weight(b, p, h) = ThresholdWeight(ht)
        /\ OpenWeight(b, h, p, i) = CASE at < ht -> Factor(ht, at)
                                      [] at > ht -> Factor(ht, at - 1)
                                      [] OTHER   -> 0
        /\ SignerFactor(b, h, p) = IF ht # 0 THEN ht ELSE 1
        /\ OpenFactor(b, h, p) = IF ht # 0 THEN 1 ELSE 0
    BY <1>5 DEF Weight, LiftingWeight, OpenWeight, LiftingOpen, SignerFactor, OpenFactor, HasOffset
  <2> HIDE DEF at, ht
  <2>4. /\ ThresholdWeight(at) \in Int /\ ThresholdWeight(ht) \in Int
        /\ (at = 0 => ThresholdWeight(at) = 0) /\ (at # 0 => ThresholdWeight(at) = -ScaInverse(at))
        /\ (ht = 0 => ThresholdWeight(ht) = 0) /\ (ht # 0 => F(1 + ht * ThresholdWeight(ht)) = 0)
    BY <2>1, PointWeights
  <2>5. F(OpenFactor(b, h, p) + SignerFactor(b, h, p) * Weight(b, p, h)) = 0
    BY <1>1, <2>2, <2>3, <2>4
  <2>6. ASSUME at # ht
        PROVE  /\ OpenWeight(b, h, p, i) \in Int
               /\ OpenWeight(b, h, p, i)
                    = OpenFactor(b, h, p) + SignerFactor(b, h, p) * Weight(b, p, i)
    <3>1. CASE at # 0
      <4>1. PICK y \in Int : y = ScaInverse(at)
        BY <2>1, <3>1, Inverts
      <4>2. OpenWeight(b, h, p, i) = IF ht = 0 THEN -y ELSE 1 - ht * y
        <5>1. CASE at < ht
          <6>1. Factor(ht, at) = 1 - ht * y
            BY <2>2, <3>1, <4>1, <5>1 DEF Factor
          <6> QED BY <2>2, <2>3, <5>1, <6>1
        <5>2. CASE at > ht
          <6>1. Factor(ht, at - 1) = IF ht = 0 THEN -y ELSE 1 - ht * y
            BY <2>2, <3>1, <4>1, <5>2, at - 1 + 1 = at DEF Factor
          <6>2. ~(at < ht)
            BY <2>2, <5>2
          <6> QED BY <2>3, <5>2, <6>1, <6>2
        <5> QED BY <2>2, <2>6, <5>1, <5>2
      <4>3. Weight(b, p, i) = -y
        BY <2>3, <2>4, <3>1, <4>1
      <4>4. CASE ht = 0
        BY <2>3, <4>1, <4>2, <4>3, <4>4
      <4>5. CASE ht # 0
        <5>1. OpenWeight(b, h, p, i) = 1 - ht * y
          BY <4>2, <4>5
        <5>2. 1 - ht * y = 1 + ht * (-y) /\ 1 - ht * y \in Int
          BY <2>2, <4>1
        <5> QED BY <2>3, <4>3, <4>5, <5>1, <5>2
      <4> QED BY <4>4, <4>5
    <3>2. CASE at = 0
      <4>1. ht # 0 /\ at < ht
        BY <2>2, <2>6, <3>2
      <4>2. Factor(ht, at) = 1
        BY <3>2, <4>1 DEF Factor
      <4> QED BY <2>2, <2>3, <2>4, <3>2, <4>1, <4>2
    <3> QED BY <3>1, <3>2
  <2>7. CASE at = ht
    <3>1. OpenWeight(b, h, p, i) = 0
      BY <2>2, <2>3, <2>7
    <3> QED BY <1>1, <2>2, <2>3, <2>4, <2>5, <2>7, <3>1
  <2>8. CASE at # ht
    BY <2>2, <2>3, <2>4, <2>5, <2>6, <2>8
  <2> QED BY <2>7, <2>8
<1>6. b.kind \in {"traditional", "hypercube", "threshold", "lifting"}
  BY DEF WellFormed
<1> QED BY <1>3, <1>4, <1>5, <1>6

-----------------------------------------------------------------------------
(* Packs as sums of weighted shares.                                       *)

PackTerms(b, p, shares, c) ==
  [i \in 0..(b.parties - 1) |-> Weight(b, p, i) * shares[i][c]]
OpenTerms(b, h, p, shares, c) ==
  [i \in 0..(b.parties - 1) |-> IF i = h THEN 0 ELSE OpenWeight(b, h, p, i) * shares[i][c]]
PartOf(shares, c) == [i \in DOMAIN shares |-> shares[i][c]]

\* The packs hold the first n of some shares, for the signer and for the verifier.
HoldPacks(b, shares, packs, n) ==
  /\ packs \in [Packs(b) -> Share]
  /\ \A p \in Packs(b), c \in Parts :
       packs[p][c] = F(SumUpTo(PackTerms(b, p, shares, c), n))
HoldOpen(b, h, shares, packs, n) ==
  /\ packs \in [Packs(b) -> Share]
  /\ \A p \in Packs(b), c \in Parts :
       packs[p][c] = F(SumUpTo(OpenTerms(b, h, p, shares, c), n))

LEMMA Scales ==
  ASSUME NEW k \in Int, NEW s \in Share
  PROVE  /\ Times(k, s) \in Share
         /\ \A c \in Parts : s[c] \in Int /\ k * s[c] \in Int /\ Times(k, s)[c] = F(k * s[c])
<1>1. \A c \in Parts : s[c] \in Field
  BY DEF Share, Parts
<1>2. \A c \in Parts : s[c] \in Int /\ k * s[c] \in Int
  <2>1. ASSUME NEW a \in Int PROVE k * a \in Int
    OBVIOUS
  <2> QED BY <1>1, <2>1, FieldElements
<1>3. \A c \in Parts : F(k * s[c]) \in Field
  BY <1>2, Normalises
<1>4. Times(k, s) = [wit |-> F(k * s["wit"]), unif |-> F(k * s["unif"]), corr |-> F(k * s["corr"])]
  BY DEF Times
<1>5. Times(k, s) \in Share
  BY <1>3, <1>4 DEF Share, Parts
<1>6. ASSUME NEW c \in Parts PROVE Times(k, s)[c] = F(k * s[c])
  BY <1>4 DEF Parts
<1> QED BY <1>2, <1>5, <1>6

LEMMA WeightsAreNumbers ==
  ASSUME NEW b, WellFormed(b), NEW h \in 0..(b.parties - 1), NEW p \in Packs(b),
         NEW i \in 0..(b.parties - 1)
  PROVE  /\ Weight(b, p, i) \in Int
         /\ i # h => OpenWeight(b, h, p, i) \in Int
<1>1. CASE b.kind = "traditional"
  BY <1>1 DEF Weight, TraditionalWeight, OpenWeight, TraditionalOpen
<1>2. CASE b.kind # "traditional"
  BY <1>2, AffineWeights
<1> QED BY <1>1, <1>2

\* The terms are numbers.
LEMMA TermsAreNumbers ==
  ASSUME NEW b, WellFormed(b), NEW h \in 0..(b.parties - 1), NEW p \in Packs(b),
         NEW shares \in [0..(b.parties - 1) -> Share], NEW c \in Parts
  PROVE  \A i \in 0..(b.parties - 1) :
           /\ shares[i][c] \in Int /\ PartOf(shares, c)[i] = shares[i][c]
           /\ PackTerms(b, p, shares, c)[i] = Weight(b, p, i) * shares[i][c]
           /\ PackTerms(b, p, shares, c)[i] \in Int
           /\ OpenTerms(b, h, p, shares, c)[i]
                = IF i = h THEN 0 ELSE OpenWeight(b, h, p, i) * shares[i][c]
           /\ OpenTerms(b, h, p, shares, c)[i] \in Int
<1>1. ASSUME NEW i \in 0..(b.parties - 1)
      PROVE  /\ shares[i][c] \in Int /\ Weight(b, p, i) * shares[i][c] \in Int
             /\ i # h => OpenWeight(b, h, p, i) * shares[i][c] \in Int
  BY <1>1, WeightsAreNumbers, Scales
<1> QED BY <1>1 DEF PackTerms, OpenTerms, PartOf

LEMMA NothingPacked ==
  ASSUME NEW b, NEW h, NEW shares
  PROVE  HoldPacks(b, shares, NoPacks(b), 0) /\ HoldOpen(b, h, shares, NoPacks(b), 0)
<1>1. \A f : SumUpTo(f, 0) = 0
  <2>1. ASSUME NEW f PROVE SumUpTo(f, 0) = 0
    <3>1. \A k \in 0..(0 - 1) : f[k] \in Int
      OBVIOUS
    <3> QED BY <3>1, SumsUpTo, 0 \in Nat
  <2> QED BY <2>1
<1>2. F(0) = 0 /\ 0 \in Field
  BY FieldAssumption, FieldElements DEF Field
<1>3. NoPacks(b) \in [Packs(b) -> Share]
  BY <1>2 DEF NoPacks, ZeroShare, Share
<1>4. \A p \in Packs(b), c \in Parts : NoPacks(b)[p][c] = 0
  BY DEF NoPacks, ZeroShare, Parts
<1> QED BY <1>1, <1>2, <1>3, <1>4 DEF HoldPacks, HoldOpen

\* One more term in one part of a pack.
LEMMA TermAdded ==
  ASSUME NEW S \in Int, NEW k \in Int, NEW s \in Share, NEW t \in Share, NEW c \in Parts,
         s[c] = F(S)
  PROVE  Plus(s, Times(k, t))[c] = F(S + k * t[c])
<1>1. PICK a \in Int : a = k * t[c] /\ Times(k, t) \in Share /\ Times(k, t)[c] = F(a)
  BY Scales
<1>2. Plus(s, Times(k, t))[c] = F(s[c] + Times(k, t)[c])
  BY <1>1, SumOfTwo
<1>3. PICK x \in Int, y \in Int : x = F(S) /\ y = F(a) /\ F(x) = F(S) /\ F(y) = F(a)
  BY NormalForm
<1>4. F(x + y) = F(S + a)
  BY <1>3, SumsCongruent
<1> QED BY <1>1, <1>2, <1>3, <1>4

\* Packing one more share.
LEMMA PacksOneMore ==
  ASSUME NEW b, WellFormed(b), NEW shares \in [0..(b.parties - 1) -> Share],
         NEW n \in 0..(b.parties - 1), NEW packs, HoldPacks(b, shares, packs, n)
  PROVE  HoldPacks(b, shares, Packed(b, packs, n, shares[n]), n + 1)
<1> DEFINE new == Packed(b, packs, n, shares[n])
<1>1. b.parties \in Nat
  BY DEF WellFormed
<1>2. ASSUME NEW p \in Packs(b)
      PROVE  /\ new[p] = Plus(packs[p], Times(Weight(b, p, n), shares[n])) /\ new[p] \in Share
             /\ \A c \in Parts : new[p][c] = F(SumUpTo(PackTerms(b, p, shares, c), n + 1))
  <2>1. new[p] = Plus(packs[p], Times(Weight(b, p, n), shares[n]))
    BY DEF Packed
  <2>2. Weight(b, p, n) \in Int /\ packs[p] \in Share
    BY WeightsAreNumbers DEF HoldPacks
  <2>3. new[p] \in Share
    BY <2>1, <2>2, Scales, SumOfTwo
  <2>4. ASSUME NEW c \in Parts
        PROVE  new[p][c] = F(SumUpTo(PackTerms(b, p, shares, c), n + 1))
    <3> DEFINE f == PackTerms(b, p, shares, c)
    <3>1. \A i \in 0..(b.parties - 1) : f[i] \in Int
      BY <1>1, TermsAreNumbers
    <3>2. f[n] = Weight(b, p, n) * shares[n][c]
      BY <1>1, TermsAreNumbers
    <3>3. packs[p][c] = F(SumUpTo(f, n))
      BY DEF HoldPacks
    <3> HIDE DEF f
    <3>4. n \in 0..b.parties /\ b.parties \in Nat
      BY <1>1
    <3>5. SumUpTo(f, n) \in Int /\ SumUpTo(f, n + 1) = SumUpTo(f, n) + f[n]
      BY <1>1, <3>1, <3>4, SumsUpTo
    <3>6. Plus(packs[p], Times(Weight(b, p, n), shares[n]))[c]
            = F(SumUpTo(f, n) + Weight(b, p, n) * shares[n][c])
      BY <2>2, <3>3, <3>5, TermAdded
    <3> QED BY <2>1, <3>2, <3>5, <3>6 DEF f
  <2> QED BY <2>1, <2>3, <2>4
<1>3. new = [p \in Packs(b) |-> new[p]]
  BY DEF Packed
<1> HIDE DEF new
<1>4. new \in [Packs(b) -> Share]
  BY <1>2, <1>3
<1>5. HoldPacks(b, shares, new, n + 1)
  BY <1>2, <1>4 DEF HoldPacks
<1> QED BY <1>5 DEF new

LEMMA OpensOneMore ==
  ASSUME NEW b, WellFormed(b), NEW shares \in [0..(b.parties - 1) -> Share],
         NEW h \in 0..(b.parties - 1), NEW n \in 0..(b.parties - 1), n # h,
         NEW packs, HoldOpen(b, h, shares, packs, n)
  PROVE  HoldOpen(b, h, shares, OpenPacked(b, h, packs, n, shares[n]), n + 1)
<1> DEFINE new == OpenPacked(b, h, packs, n, shares[n])
<1>1. b.parties \in Nat
  BY DEF WellFormed
<1>2. ASSUME NEW p \in Packs(b)
      PROVE  /\ new[p] \in Share
             /\ \A c \in Parts : new[p][c] = F(SumUpTo(OpenTerms(b, h, p, shares, c), n + 1))
  <2>1. new[p] = Plus(packs[p], Times(OpenWeight(b, h, p, n), shares[n]))
    BY DEF OpenPacked
  <2>2. OpenWeight(b, h, p, n) \in Int /\ packs[p] \in Share
    BY WeightsAreNumbers DEF HoldOpen
  <2>3. new[p] \in Share
    BY <2>1, <2>2, Scales, SumOfTwo
  <2>4. ASSUME NEW c \in Parts
        PROVE  new[p][c] = F(SumUpTo(OpenTerms(b, h, p, shares, c), n + 1))
    <3> DEFINE f == OpenTerms(b, h, p, shares, c)
    <3>1. \A i \in 0..(b.parties - 1) : f[i] \in Int
      BY <1>1, TermsAreNumbers
    <3>2. f[n] = OpenWeight(b, h, p, n) * shares[n][c]
      BY <1>1, TermsAreNumbers, SMTT(30)
    <3>3. packs[p][c] = F(SumUpTo(f, n))
      BY DEF HoldOpen
    <3> HIDE DEF f
    <3>4. n \in 0..b.parties /\ b.parties \in Nat
      BY <1>1
    <3>5. SumUpTo(f, n) \in Int /\ SumUpTo(f, n + 1) = SumUpTo(f, n) + f[n]
      BY <1>1, <3>1, <3>4, SumsUpTo
    <3>6. Plus(packs[p], Times(OpenWeight(b, h, p, n), shares[n]))[c]
            = F(SumUpTo(f, n) + OpenWeight(b, h, p, n) * shares[n][c])
      BY <2>2, <3>3, <3>5, TermAdded
    <3> QED BY <2>1, <3>2, <3>5, <3>6 DEF f
  <2> QED BY <2>3, <2>4
<1>3. new = [p \in Packs(b) |-> new[p]]
  BY DEF OpenPacked
<1> HIDE DEF new
<1>4. new \in [Packs(b) -> Share]
  BY <1>2, <1>3
<1>5. HoldOpen(b, h, shares, new, n + 1)
  BY <1>2, <1>4 DEF HoldOpen
<1> QED BY <1>5 DEF new

\* The hidden party adds nothing.
LEMMA HiddenAddsNothing ==
  ASSUME NEW b, WellFormed(b), NEW shares \in [0..(b.parties - 1) -> Share],
         NEW h \in 0..(b.parties - 1), NEW packs, HoldOpen(b, h, shares, packs, h)
  PROVE  HoldOpen(b, h, shares, packs, h + 1)
<1>1. b.parties \in Nat
  BY DEF WellFormed
<1>2. ASSUME NEW p \in Packs(b), NEW c \in Parts
      PROVE  SumUpTo(OpenTerms(b, h, p, shares, c), h + 1) = SumUpTo(OpenTerms(b, h, p, shares, c), h)
  <2> DEFINE f == OpenTerms(b, h, p, shares, c)
  <2>1. (\A i \in 0..(b.parties - 1) : f[i] \in Int) /\ f[h] = 0
    BY <1>1, TermsAreNumbers
  <2> HIDE DEF f
  <2>2. h \in 0..b.parties
    BY <1>1
  <2>3. SumUpTo(f, h) \in Int /\ SumUpTo(f, h + 1) = SumUpTo(f, h) + f[h]
    BY <1>1, <2>1, <2>2, SumsUpTo
  <2> QED BY <2>1, <2>3 DEF f
<1> QED BY <1>2 DEF HoldOpen

\* Only the shares that are packed matter.
LEMMA OtherShares ==
  ASSUME NEW b, WellFormed(b), NEW shares, NEW others, NEW n \in 0..b.parties, NEW packs,
         \A i \in 0..(n - 1) : shares[i] = others[i], HoldPacks(b, shares, packs, n)
  PROVE  HoldPacks(b, others, packs, n)
<1>1. \A i \in 0..(n - 1) : i \in 0..(b.parties - 1)
  BY DEF WellFormed
<1>2. ASSUME NEW p \in Packs(b), NEW c \in Parts
      PROVE  SumUpTo(PackTerms(b, p, shares, c), n) = SumUpTo(PackTerms(b, p, others, c), n)
  <2>1. \A i \in 0..(n - 1) : PackTerms(b, p, shares, c)[i] = PackTerms(b, p, others, c)[i]
    BY <1>1 DEF PackTerms
  <2> QED BY <2>1, SumsAgree
<1> QED BY <1>2 DEF HoldPacks

-----------------------------------------------------------------------------
(* The broadcasts of the signer's packs, from those of the verifier's.     *)

\* The packs of the verifier, in all packings but the traditional one.
LEMMA PacksRelate ==
  ASSUME NEW b, WellFormed(b), b.kind # "traditional",
         NEW shares \in [0..(b.parties - 1) -> Share], NEW h \in 0..(b.parties - 1),
         NEW packs, NEW opened,
         HoldPacks(b, shares, packs, b.parties), HoldOpen(b, h, shares, opened, b.parties),
         NEW p \in Packs(b), NEW c \in Parts
  PROVE  opened[p][c] = F(OpenFactor(b, h, p) * SumUpTo(PartOf(shares, c), b.parties)
                            + SignerFactor(b, h, p) * packs[p][c])
<1> DEFINE A == OpenFactor(b, h, p)
           B == SignerFactor(b, h, p)
           f == PartOf(shares, c)
           g == PackTerms(b, p, shares, c)
           o == OpenTerms(b, h, p, shares, c)
           N == b.parties
<1>1. N \in Nat
  BY DEF WellFormed
<1>2. A \in Int /\ B \in Int
  BY AffineWeights DEF OpenFactor
<1>0. \A i \in 0..(b.parties - 1) :
        /\ shares[i][c] \in Int /\ f[i] = shares[i][c]
        /\ g[i] = Weight(b, p, i) * shares[i][c] /\ g[i] \in Int
        /\ o[i] = IF i = h THEN 0 ELSE OpenWeight(b, h, p, i) * shares[i][c]
        /\ o[i] \in Int
  <2> HIDE DEF f, g, o
  <2>1. \A i \in 0..(b.parties - 1) :
           /\ shares[i][c] \in Int /\ PartOf(shares, c)[i] = shares[i][c]
           /\ PackTerms(b, p, shares, c)[i] = Weight(b, p, i) * shares[i][c]
           /\ PackTerms(b, p, shares, c)[i] \in Int
           /\ OpenTerms(b, h, p, shares, c)[i]
                = IF i = h THEN 0 ELSE OpenWeight(b, h, p, i) * shares[i][c]
           /\ OpenTerms(b, h, p, shares, c)[i] \in Int
    BY TermsAreNumbers
  <2> QED BY <2>1 DEF f, g, o
<1>3. ASSUME NEW i \in 0..(N - 1)
      PROVE  /\ f[i] \in Int /\ g[i] \in Int /\ o[i] \in Int
             /\ F(o[i]) = F(A * f[i] + B * g[i])
  <2> HIDE DEF f, g, o
  <2>0. /\ shares[i][c] \in Int /\ f[i] = shares[i][c]
        /\ g[i] = Weight(b, p, i) * shares[i][c] /\ g[i] \in Int /\ o[i] \in Int
        /\ o[i] = IF i = h THEN 0 ELSE OpenWeight(b, h, p, i) * shares[i][c]
    BY <1>0
  <2>1. PICK x \in Int, w \in Int : x = shares[i][c] /\ w = Weight(b, p, i)
    BY <2>0, WeightsAreNumbers
  <2>2. f[i] = x /\ g[i] = w * x /\ f[i] \in Int /\ g[i] \in Int /\ o[i] \in Int
    BY <2>0, <2>1
  <2>3. A * x + B * (w * x) = x * (A + B * w)
    BY <1>2, <2>1
  <2>4. PICK s \in Int : s = A + B * w
    BY <1>2, <2>1
  <2>5. CASE i = h
    <3>1. o[i] = 0
      BY <2>0, <2>5
    <3>2. F(s) = F(0)
      <4>1. F(s) = 0
        BY <2>1, <2>4, <2>5, AffineWeights
      <4> QED BY <4>1, FieldAssumption, FieldElements DEF Field
    <3>3. F(Scaled(x, s)) = F(Scaled(x, 0))
      BY <2>1, <2>4, <3>2, MultiplesCongruent
    <3>4. Scaled(x, s) = x * s /\ Scaled(x, 0) = 0
      BY <2>1 DEF Scaled
    <3>5. F(x * s) = F(0)
      BY <3>3, <3>4
    <3> HIDE DEF A, B, f, g, o
    <3> QED BY <2>2, <2>3, <2>4, <3>1, <3>5
  <2>6. CASE i # h
    <3>1. PICK u \in Int : u = OpenWeight(b, h, p, i)
      BY <2>6, WeightsAreNumbers
    <3>2. o[i] = u * x
      BY <2>0, <2>1, <2>6, <3>1
    <3>3. F(u) = F(s)
      BY <2>1, <2>4, <2>6, <3>1, AffineWeights
    <3>4. F(Scaled(x, u)) = F(Scaled(x, s))
      BY <2>1, <2>4, <3>1, <3>3, MultiplesCongruent
    <3>5. Scaled(x, s) = x * s /\ Scaled(x, u) = u * x
      BY <2>1, <3>1 DEF Scaled
    <3>6. F(u * x) = F(x * s)
      BY <3>4, <3>5
    <3> HIDE DEF A, B, f, g, o
    <3> QED BY <2>2, <2>3, <2>4, <3>2, <3>6
  <2> QED BY <2>5, <2>6
<1>4. packs[p][c] = F(SumUpTo(g, N)) /\ opened[p][c] = F(SumUpTo(o, N))
  BY DEF HoldPacks, HoldOpen
<1> HIDE DEF A, B, f, g, o, N
<1>5. PICK T \in Int, G \in Int, O \in Int :
        T = SumUpTo(f, N) /\ G = SumUpTo(g, N) /\ O = SumUpTo(o, N)
  <2>1. SumUpTo(f, N) \in Int /\ SumUpTo(g, N) \in Int /\ SumUpTo(o, N) \in Int
    BY <1>1, <1>3, N \in 0..N, SumsUpTo
  <2> QED BY <2>1
<1>6. F(O) = F(A * T + B * G)
  <2>1. Combine(A, f, B, g, o, N)
    BY <1>1, <1>2, <1>3, SumsCombine
  <2> QED BY <1>5, <2>1 DEF Combine
<1>7. PICK x \in Int : x = packs[p][c] /\ F(x) = F(G)
  BY <1>4, <1>5, NormalForm
<1>8. F(A * T + B * G) = F(A * T + B * x)
  <2>1. F(Scaled(B, G)) = F(Scaled(B, x))
    BY <1>2, <1>5, <1>7, MultiplesCongruent
  <2>2. PICK y \in Int, z \in Int : y = Scaled(B, G) /\ z = Scaled(B, x)
    BY <1>2, <1>5, <1>7 DEF Scaled
  <2>3. PICK t \in Int : t = A * T
    BY <1>2, <1>5
  <2>4. F(t + y) = F(t + z)
    BY <2>1, <2>2, <2>3, SumsCongruent
  <2> QED BY <2>2, <2>3, <2>4 DEF Scaled
<1>9. opened[p][c] = F(A * T + B * x)
  BY <1>4, <1>5, <1>6, <1>8
<1> QED BY <1>5, <1>7, <1>9 DEF A, B, f, N

\* A broadcast that is affine in the share, which holds the constant or does not.
Coefficients == [aw : Int, au : Int, vw : Int, vc : Int, cst : Int]
Affine(k, s, hasOffset) ==
  [alpha |-> F(k.aw * s.wit + k.au * s.unif),
   v     |-> F(k.vw * s.wit + k.vc * s.corr + (IF hasOffset THEN k.cst ELSE 0))]

\* What is affine of A T + B x is A of the total and B of that of x.
AffineIs(k1, k2, A, B, s, t, x, y, total, cst) ==
  F(k1 * F(A * s + B * x) + k2 * F(A * t + B * y) + A * cst)
    = F(A * total + B * F(k1 * x + k2 * y))
TotalOf(k1, k2, s, t, cst, total) == F(k1 * s + k2 * t + cst) = F(total)
LEMMA AffineParts ==
  ASSUME NEW k1 \in Int, NEW k2 \in Int, NEW A \in Int, NEW B \in Int,
         NEW s \in Int, NEW t \in Int, NEW x \in Int, NEW y \in Int, NEW total \in Int,
         NEW cst \in Int, TotalOf(k1, k2, s, t, cst, total)
  PROVE  AffineIs(k1, k2, A, B, s, t, x, y, total, cst)
<1>1. A * s + B * x \in Int /\ A * t + B * y \in Int /\ k1 * x + k2 * y \in Int
      /\ k1 * s + k2 * t + cst \in Int /\ Q \in Int
  BY FieldAssumption
<1>2. PICK v1 \in Int, d1 \in Int : v1 = F(A * s + B * x) /\ v1 = (A * s + B * x) + Q * d1
  BY <1>1, Normalises
<1>3. PICK v2 \in Int, d2 \in Int : v2 = F(A * t + B * y) /\ v2 = (A * t + B * y) + Q * d2
  BY <1>1, Normalises
<1>4. PICK v3 \in Int, d3 \in Int : v3 = F(k1 * x + k2 * y) /\ v3 = (k1 * x + k2 * y) + Q * d3
  BY <1>1, Normalises
<1>5. PICK d4 \in Int : k1 * s + k2 * t + cst = total + Q * d4
  BY <1>1, Congruent DEF TotalOf
<1>6. k1 * v1 + k2 * v2 + A * cst
        = A * (k1 * s + k2 * t + cst) + B * (k1 * x + k2 * y) + Q * (k1 * d1 + k2 * d2)
  <2>1. k1 * ((A * s + B * x) + Q * d1) + k2 * ((A * t + B * y) + Q * d2) + A * cst
          = A * (k1 * s + k2 * t + cst) + B * (k1 * x + k2 * y) + Q * (k1 * d1 + k2 * d2)
    BY <1>1
  <2>2. k1 * v1 = k1 * ((A * s + B * x) + Q * d1) /\ k2 * v2 = k2 * ((A * t + B * y) + Q * d2)
    BY <1>2, <1>3
  <2> QED BY <2>1, <2>2
<1>7. k1 * x + k2 * y = v3 + Q * (-d3)
  BY <1>1, <1>4
<1>8. A * (total + Q * d4) + B * (v3 + Q * (-d3)) + Q * (k1 * d1 + k2 * d2)
        = (A * total + B * v3) + Q * (A * d4 - B * d3 + k1 * d1 + k2 * d2)
  BY <1>1
<1>9. PICK m \in Int, n \in Int, d \in Int :
        /\ m = k1 * v1 + k2 * v2 + A * cst /\ n = A * total + B * v3
        /\ d = A * d4 - B * d3 + k1 * d1 + k2 * d2
  OBVIOUS
<1>10. m = n + Q * d
  BY <1>5, <1>6, <1>7, <1>8, <1>9
<1>11. F(m) = F(n)
  BY <1>10, Differ
<1> QED BY <1>2, <1>3, <1>4, <1>9, <1>11 DEF AffineIs

\* What recompose_broadcast undoes.
LEMMA NegationUndone ==
  ASSUME NEW t \in Int, NEW x \in Field
  PROVE  F(t + F((-1) * F(1 * t + (-1) * x))) = x
<1>1. x \in Int /\ F(x) = x /\ Q \in Int
  BY FieldElements, FieldAssumption
<1>2. 1 * t + (-1) * x \in Int
  BY <1>1
<1>3. PICK u \in Int, d \in Int : u = F(1 * t + (-1) * x) /\ u = (1 * t + (-1) * x) + Q * d
  BY <1>2, Normalises
<1>4. (-1) * u \in Int
  BY <1>3
<1>5. PICK v \in Int, c \in Int : v = F((-1) * u) /\ v = (-1) * u + Q * c
  BY <1>4, Normalises
<1>6. t + v = x + Q * (c - d)
  <2>1. Q * (c - d) = Q * c - Q * d
    BY <1>1
  <2>2. PICK qc \in Int, qd \in Int : qc = Q * c /\ qd = Q * d
    BY <1>1
  <2>3. u = t - x + qd /\ v = -u + qc
    BY <1>1, <1>3, <1>5, <2>2
  <2> QED BY <1>1, <2>1, <2>2, <2>3
<1>7. t + v \in Int /\ c - d \in Int
  BY <1>5
<1>8. F(t + v) = F(x)
  BY <1>1, <1>6, <1>7, Differ
<1> QED BY <1>1, <1>3, <1>5, <1>8

LEMMA ScalingUndone ==
  ASSUME NEW t \in Int, NEW x \in Field, NEW at \in Field \ {0}
  PROVE  F(ScaInverse(at) * F(F(1 * t + at * x) + F((-1) * t))) = x
<1>1. x \in Int /\ F(x) = x /\ Q \in Int /\ at \in Int
  BY FieldElements, FieldAssumption
<1>2. PICK y \in Int : y = ScaInverse(at) /\ F(at * y) = 1
  BY Inverts
<1>3. 1 * t + at * x \in Int /\ (-1) * t \in Int /\ at * y \in Int
  BY <1>1
<1>4. PICK u \in Int, d \in Int : u = F(1 * t + at * x) /\ u = (1 * t + at * x) + Q * d
  BY <1>3, Normalises
<1>5. PICK v \in Int, c \in Int : v = F((-1) * t) /\ v = (-1) * t + Q * c
  BY <1>3, Normalises
<1>6. u + v \in Int
  OBVIOUS
<1>7. PICK w \in Int, g \in Int : w = F(u + v) /\ w = (u + v) + Q * g
  BY <1>6, Normalises
<1>8. PICK k \in Int : at * y = 1 + Q * k
  <2>1. F(at * y) = F(1)
    BY <1>2, FieldAssumption, FieldElements DEF Field
  <2> QED BY <1>3, <2>1, Congruent
<1>9. w = at * x + Q * (d + c + g)
  <2>1. Q * (d + c + g) = Q * d + Q * c + Q * g
    BY <1>1
  <2>2. Q * d \in Int /\ Q * c \in Int /\ Q * g \in Int /\ at * x \in Int
    BY <1>1
  <2> QED BY <1>4, <1>5, <1>7, <2>1, <2>2
<1>10. y * w = (at * y) * x + Q * (y * (d + c + g))
  <2>1. y * (at * x + Q * (d + c + g)) = (at * y) * x + Q * (y * (d + c + g))
    BY <1>1
  <2> QED BY <1>9, <2>1
<1>11. (1 + Q * k) * x + Q * (y * (d + c + g)) = x + Q * (k * x + y * (d + c + g))
  BY <1>1
<1>12. y * w = x + Q * (k * x + y * (d + c + g))
  BY <1>8, <1>10, <1>11
<1>13. PICK m \in Int, n \in Int : m = y * w /\ n = k * x + y * (d + c + g)
  BY <1>1
<1>14. F(m) = F(x)
  BY <1>1, <1>12, <1>13, Differ
<1> QED BY <1>1, <1>2, <1>4, <1>5, <1>7, <1>13, <1>14

\* A broadcast of the field.
LEMMA AffineValues ==
  ASSUME NEW k \in Coefficients, NEW s \in Share, NEW hasOffset \in BOOLEAN
  PROVE  /\ Affine(k, s, hasOffset).alpha \in Field
         /\ Affine(k, s, hasOffset).v \in Field
         /\ k.aw * s.wit + k.au * s.unif \in Int
         /\ k.vw * s.wit + k.vc * s.corr + (IF hasOffset THEN k.cst ELSE 0) \in Int
<1>1. /\ k.aw \in Int /\ k.au \in Int /\ k.vw \in Int /\ k.vc \in Int /\ k.cst \in Int
  BY DEF Coefficients
<1>2. s.wit \in Int /\ s.unif \in Int /\ s.corr \in Int
  BY FieldElements DEF Share
<1>3. PICK aw \in Int, au \in Int, vw \in Int, vc \in Int, cst \in Int,
           w \in Int, u \in Int, c \in Int :
        /\ aw = k.aw /\ au = k.au /\ vw = k.vw /\ vc = k.vc /\ cst = k.cst
        /\ w = s.wit /\ u = s.unif /\ c = s.corr
  BY <1>1, <1>2
<1>4. aw * w + au * u \in Int /\ vw * w + vc * c + (IF hasOffset THEN cst ELSE 0) \in Int
  OBVIOUS
<1>5. /\ k.aw * s.wit + k.au * s.unif \in Int
      /\ k.vw * s.wit + k.vc * s.corr + (IF hasOffset THEN k.cst ELSE 0) \in Int
  BY <1>3, <1>4
<1> QED BY <1>5, NormalForm DEF Affine

\* What the parties broadcast together is the plain broadcast.
TotalIs(k, b, shares, alpha) ==
  LET T(c) == SumUpTo(PartOf(shares, c), b.parties)
  IN  /\ F(k.aw * T("wit") + k.au * T("unif")) = alpha
      /\ F(k.vw * T("wit") + k.vc * T("corr") + k.cst) = 0

LEMMA TotalsAreNumbers ==
  ASSUME NEW b, WellFormed(b), NEW shares \in [0..(b.parties - 1) -> Share], NEW c \in Parts
  PROVE  SumUpTo(PartOf(shares, c), b.parties) \in Int
<1>1. b.parties \in Nat
  BY DEF WellFormed
<1>2. ASSUME NEW i \in 0..(b.parties - 1) PROVE PartOf(shares, c)[i] \in Int
  <2>1. shares[i] \in Share
    OBVIOUS
  <2>2. shares[i][c] \in Int
    BY <2>1, SumOfTwo
  <2> QED BY <2>2 DEF PartOf
<1> QED BY <1>1, <1>2, b.parties \in 0..b.parties, SumsUpTo

\* A number that is a t plus c x, modulo Q.
Relates(m, a, t, c, x) == m = F(a * t + c * x)

\* The verifier's broadcast of a pack, from the signer's, in all packings but the
\* traditional one.
LEMMA BroadcastsRelate ==
  ASSUME NEW b, WellFormed(b), b.kind # "traditional",
         NEW shares \in [0..(b.parties - 1) -> Share], NEW h \in 0..(b.parties - 1),
         NEW packs, NEW opened,
         HoldPacks(b, shares, packs, b.parties), HoldOpen(b, h, shares, opened, b.parties),
         NEW k \in Coefficients, NEW alpha \in Field, TotalIs(k, b, shares, alpha),
         NEW p \in Packs(b)
  PROVE  LET A == OpenFactor(b, h, p)
             B == SignerFactor(b, h, p)
             mine == Affine(k, opened[p], HasOffset(b, h, p))
             theirs == Affine(k, packs[p], FALSE)
         IN  /\ Relates(mine.alpha, A, alpha, B, theirs.alpha)
             /\ Relates(mine.v, A, 0, B, theirs.v)
<1> DEFINE A == OpenFactor(b, h, p)
           B == SignerFactor(b, h, p)
           T(c) == SumUpTo(PartOf(shares, c), b.parties)
<1>1. /\ k.aw \in Int /\ k.au \in Int /\ k.vw \in Int /\ k.vc \in Int /\ k.cst \in Int
  BY DEF Coefficients
<1>2. packs[p] \in Share /\ opened[p] \in Share
  BY DEF HoldPacks, HoldOpen
<1>3. packs[p].wit \in Int /\ packs[p].unif \in Int /\ packs[p].corr \in Int
  BY <1>2, FieldElements DEF Share
<1>4. A \in Int /\ B \in Int
  <2>1. h \in 0..(b.parties - 1)
    OBVIOUS
  <2>2. B \in Int
    BY AffineWeights
  <2> QED BY <2>2 DEF OpenFactor
<1>5. T("wit") \in Int /\ T("unif") \in Int /\ T("corr") \in Int
  BY TotalsAreNumbers DEF Parts
<1>6. /\ opened[p].wit = F(A * T("wit") + B * packs[p].wit)
      /\ opened[p].unif = F(A * T("unif") + B * packs[p].unif)
      /\ opened[p].corr = F(A * T("corr") + B * packs[p].corr)
  <2>1. ASSUME NEW c \in Parts
        PROVE  opened[p][c] = F(A * SumUpTo(PartOf(shares, c), b.parties) + B * packs[p][c])
    BY PacksRelate
  <2>2. "wit" \in Parts /\ "unif" \in Parts /\ "corr" \in Parts
    BY DEF Parts
  <2> QED BY <2>1, <2>2
<1>7. /\ F(k.aw * T("wit") + k.au * T("unif")) = alpha
      /\ F(k.vw * T("wit") + k.vc * T("corr") + k.cst) = 0
  BY DEF TotalIs
<1>8. HasOffset(b, h, p) \in BOOLEAN /\ A = IF HasOffset(b, h, p) THEN 1 ELSE 0
  <2>1. b.kind \in {"traditional", "hypercube", "threshold", "lifting"}
    BY DEF WellFormed
  <2> QED BY <2>1 DEF OpenFactor, HasOffset
<1>9. /\ Affine(k, opened[p], HasOffset(b, h, p)).alpha
           = F(k.aw * opened[p].wit + k.au * opened[p].unif)
      /\ Affine(k, opened[p], HasOffset(b, h, p)).v
           = F(k.vw * opened[p].wit + k.vc * opened[p].corr
                 + (IF HasOffset(b, h, p) THEN k.cst ELSE 0))
      /\ Affine(k, packs[p], FALSE).alpha = F(k.aw * packs[p].wit + k.au * packs[p].unif)
      /\ Affine(k, packs[p], FALSE).v = F(k.vw * packs[p].wit + k.vc * packs[p].corr + 0)
  BY DEF Affine
<1> HIDE DEF A, B, T
<1>10. PICK a \in Int, bb \in Int, tw \in Int, tu \in Int, tc \in Int,
            w \in Int, u \in Int, c \in Int :
         /\ a = A /\ bb = B /\ tw = T("wit") /\ tu = T("unif") /\ tc = T("corr")
         /\ w = packs[p].wit /\ u = packs[p].unif /\ c = packs[p].corr
  BY <1>3, <1>4, <1>5
<1>11. PICK aw \in Int, au \in Int, vw \in Int, vc \in Int, cst \in Int :
         aw = k.aw /\ au = k.au /\ vw = k.vw /\ vc = k.vc /\ cst = k.cst
  BY <1>1
<1>12. alpha \in Int /\ F(alpha) = alpha /\ 0 \in Field /\ F(0) = 0
  BY FieldAssumption, FieldElements DEF Field
<1>13. F(aw * F(a * tw + bb * w) + au * F(a * tu + bb * u) + a * 0)
         = F(a * alpha + bb * F(aw * w + au * u))
  <2>1. F(aw * tw + au * tu + 0) = F(alpha)
    <3>1. aw * tw + au * tu + 0 = aw * tw + au * tu
      OBVIOUS
    <3> QED BY <1>7, <1>10, <1>11, <1>12, <3>1
  <2>2. AffineIs(aw, au, a, bb, tw, tu, w, u, alpha, 0)
    <3>1. TotalOf(aw, au, tw, tu, 0, alpha)
      BY <2>1 DEF TotalOf
    <3> QED BY <1>12, <3>1, AffineParts, 0 \in Int
  <2> QED BY <2>2 DEF AffineIs
<1>14. F(vw * F(a * tw + bb * w) + vc * F(a * tc + bb * c) + a * cst)
         = F(a * 0 + bb * F(vw * w + vc * c))
  <2>1. F(vw * tw + vc * tc + cst) = F(0)
    BY <1>7, <1>10, <1>11, <1>12
  <2>2. AffineIs(vw, vc, a, bb, tw, tc, w, c, 0, cst)
    <3>1. TotalOf(vw, vc, tw, tc, cst, 0)
      BY <2>1 DEF TotalOf
    <3> QED BY <3>1, AffineParts, 0 \in Int
  <2> QED BY <2>2 DEF AffineIs
<1>15. Affine(k, opened[p], HasOffset(b, h, p)).alpha = F(A * alpha + B * Affine(k, packs[p], FALSE).alpha)
  <2>1. PICK x \in Int, y \in Int : x = F(a * tw + bb * w) /\ y = F(a * tu + bb * u)
    <3>1. a * tw + bb * w \in Int /\ a * tu + bb * u \in Int
      OBVIOUS
    <3> QED BY <3>1, NormalForm
  <2>2. aw * x + au * y + a * 0 = aw * x + au * y
    OBVIOUS
  <2> QED BY <1>6, <1>9, <1>10, <1>11, <1>13, <2>1, <2>2
<1>16. Affine(k, opened[p], HasOffset(b, h, p)).v = F(A * 0 + B * Affine(k, packs[p], FALSE).v)
  <2>1. PICK x \in Int, y \in Int : x = F(a * tw + bb * w) /\ y = F(a * tc + bb * c)
    <3>1. a * tw + bb * w \in Int /\ a * tc + bb * c \in Int
      OBVIOUS
    <3> QED BY <3>1, NormalForm
  <2>2. a * cst = IF HasOffset(b, h, p) THEN cst ELSE 0
    BY <1>8, <1>10
  <2>3. vw * w + vc * c + 0 = vw * w + vc * c
    OBVIOUS
  <2> QED BY <1>6, <1>9, <1>10, <1>11, <1>14, <2>1, <2>2, <2>3
<1> QED BY <1>15, <1>16 DEF A, B, Relates

SignersBroadcast(k, b, packs) == [p \in Packs(b) |-> Affine(k, packs[p], FALSE)]
VerifiersBroadcast(k, b, h, opened) ==
  [p \in Packs(b) |-> Affine(k, opened[p], HasOffset(b, h, p))]

LEMMA BroadcastMinus ==
  ASSUME NEW s, NEW t
  PROVE  /\ BrMinus(s, t).alpha = F(s.alpha + F((-1) * t.alpha))
         /\ BrMinus(s, t).v = F(s.v + F((-1) * t.v))
         /\ BrMinus(s, t) = [alpha |-> F(s.alpha + F((-1) * t.alpha)), v |-> F(s.v + F((-1) * t.v))]
<1>1. BrTimes(-1, t) = [alpha |-> F((-1) * t.alpha), v |-> F((-1) * t.v)]
  BY DEF BrTimes
<1>2. BrTimes(-1, t).alpha = F((-1) * t.alpha) /\ BrTimes(-1, t).v = F((-1) * t.v)
  BY <1>1
<1>3. BrMinus(s, t) = [alpha |-> F(s.alpha + BrTimes(-1, t).alpha), v |-> F(s.v + BrTimes(-1, t).v)]
  BY DEF BrMinus, BrPlus
<1> QED BY <1>2, <1>3

\* Shares that are packed by the signer, and opened but for the hidden one.
Execution(b, shares, h, packs, opened) ==
  /\ WellFormed(b) /\ shares \in [0..(b.parties - 1) -> Share] /\ h \in 0..(b.parties - 1)
  /\ HoldPacks(b, shares, packs, b.parties) /\ HoldOpen(b, h, shares, opened, b.parties)

LEMMA AffineRecomposed ==
  ASSUME NEW b, b.kind # "traditional", NEW shares, NEW h, NEW packs, NEW opened,
         Execution(b, shares, h, packs, opened),
         NEW k \in Coefficients, NEW alpha \in Field, TotalIs(k, b, shares, alpha)
  PROVE  Recomposed(b, h, VerifiersBroadcast(k, b, h, opened), PlainBroadcast(alpha))
           = SignersBroadcast(k, b, packs)
<1> WellFormed(b) /\ shares \in [0..(b.parties - 1) -> Share] /\ h \in 0..(b.parties - 1)
  BY DEF Execution
<1> HoldPacks(b, shares, packs, b.parties) /\ HoldOpen(b, h, shares, opened, b.parties)
  BY DEF Execution
<1> DEFINE mine == VerifiersBroadcast(k, b, h, opened)
           plain == PlainBroadcast(alpha)
<1>1. b.kind \in {"hypercube", "threshold", "lifting"}
  BY DEF WellFormed
<1>2. h \in Nat
  BY DEF WellFormed
<1>3. alpha \in Int /\ 0 \in Field /\ 0 \in Int
  BY FieldAssumption, FieldElements DEF Field
<1>4. ASSUME NEW p \in Packs(b)
      PROVE  /\ mine[p] = [alpha |-> mine[p].alpha, v |-> mine[p].v]
             /\ \E x \in Field, y \in Field :
                  /\ Affine(k, packs[p], FALSE) = [alpha |-> x, v |-> y]
                  /\ Relates(mine[p].alpha, OpenFactor(b, h, p), alpha, SignerFactor(b, h, p), x)
                  /\ Relates(mine[p].v, OpenFactor(b, h, p), 0, SignerFactor(b, h, p), y)
  <2>1. mine[p] = Affine(k, opened[p], HasOffset(b, h, p))
    BY DEF VerifiersBroadcast
  <2>2. mine[p] = [alpha |-> mine[p].alpha, v |-> mine[p].v]
    BY <2>1 DEF Affine
  <2>3. PICK theirs : theirs = Affine(k, packs[p], FALSE)
    OBVIOUS
  <2>4. theirs.alpha \in Field /\ theirs.v \in Field
    <3>1. packs[p] \in Share /\ FALSE \in BOOLEAN
      BY DEF HoldPacks
    <3> QED BY <2>3, <3>1, AffineValues
  <2>5. theirs = [alpha |-> theirs.alpha, v |-> theirs.v]
    BY <2>3 DEF Affine
  <2>6. /\ Relates(Affine(k, opened[p], HasOffset(b, h, p)).alpha, OpenFactor(b, h, p), alpha,
                   SignerFactor(b, h, p), Affine(k, packs[p], FALSE).alpha)
        /\ Relates(Affine(k, opened[p], HasOffset(b, h, p)).v, OpenFactor(b, h, p), 0,
                   SignerFactor(b, h, p), Affine(k, packs[p], FALSE).v)
    BY BroadcastsRelate
  <2> HIDE DEF mine
  <2> QED BY <2>1, <2>2, <2>3, <2>4, <2>5, <2>6
<1> HIDE DEF mine
<1>5. ASSUME NEW p \in Packs(b), NEW x \in Field, NEW y \in Field,
             mine[p] = [alpha |-> mine[p].alpha, v |-> mine[p].v],
             Relates(mine[p].alpha, 0, alpha, 1, x), Relates(mine[p].v, 0, 0, 1, y)
      PROVE  mine[p] = [alpha |-> x, v |-> y]
  <2>1. 0 * alpha + 1 * x = x /\ 0 * 0 + 1 * y = y /\ F(x) = x /\ F(y) = y
    BY <1>3, FieldElements
  <2> QED BY <1>5, <2>1 DEF Relates
<1>6. ASSUME b.kind = "hypercube"
      PROVE  Recomposed(b, h, mine, plain) = SignersBroadcast(k, b, packs)
  <2>1. Recomposed(b, h, mine, plain)
          = [p \in Packs(b) |-> IF Bit(h, p) # 1 THEN BrMinus(plain, mine[p]) ELSE mine[p]]
    BY <1>6 DEF Recomposed, HypercubeRecomposed
  <2>2. ASSUME NEW p \in Packs(b)
        PROVE  (IF Bit(h, p) # 1 THEN BrMinus(plain, mine[p]) ELSE mine[p]) = Affine(k, packs[p], FALSE)
    <3>1. PICK x \in Field, y \in Field :
            /\ Affine(k, packs[p], FALSE) = [alpha |-> x, v |-> y]
            /\ Relates(mine[p].alpha, OpenFactor(b, h, p), alpha, SignerFactor(b, h, p), x)
            /\ Relates(mine[p].v, OpenFactor(b, h, p), 0, SignerFactor(b, h, p), y)
      BY <1>4
    <3>2. mine[p] = [alpha |-> mine[p].alpha, v |-> mine[p].v]
      BY <1>4
    <3>3. CASE Bit(h, p) = 1
      <4>1. OpenFactor(b, h, p) = 0 /\ SignerFactor(b, h, p) = 1
        BY <1>6, <3>3 DEF OpenFactor, SignerFactor, HasOffset
      <4> QED BY <1>5, <3>1, <3>2, <3>3, <4>1
    <3>4. CASE Bit(h, p) # 1
      <4>1. OpenFactor(b, h, p) = 1 /\ SignerFactor(b, h, p) = -1
        BY <1>6, <3>4 DEF OpenFactor, SignerFactor, HasOffset
      <4>2. mine[p].alpha = F(1 * alpha + (-1) * x) /\ mine[p].v = F(1 * 0 + (-1) * y)
        BY <3>1, <4>1 DEF Relates
      <4>3. /\ F(alpha + F((-1) * F(1 * alpha + (-1) * x))) = x
            /\ F(0 + F((-1) * F(1 * 0 + (-1) * y))) = y
        BY <1>3, NegationUndone
      <4>4. BrMinus(plain, mine[p])
              = [alpha |-> F(alpha + F((-1) * mine[p].alpha)), v |-> F(0 + F((-1) * mine[p].v))]
        BY BroadcastMinus DEF PlainBroadcast
      <4> QED BY <3>1, <3>4, <4>2, <4>3, <4>4
    <3> QED BY <3>3, <3>4
  <2> HIDE DEF plain
  <2> QED BY <2>1, <2>2 DEF SignersBroadcast
<1>7. ASSUME b.kind \in {"threshold", "lifting"}, NEW p \in Packs(b), NEW at \in Field,
             OpenFactor(b, h, p) = (IF at # 0 THEN 1 ELSE 0),
             SignerFactor(b, h, p) = (IF at # 0 THEN at ELSE 1)
      PROVE  Coefficient(at, mine[p], plain) = Affine(k, packs[p], FALSE)
  <2>1. PICK x \in Field, y \in Field :
          /\ Affine(k, packs[p], FALSE) = [alpha |-> x, v |-> y]
          /\ Relates(mine[p].alpha, OpenFactor(b, h, p), alpha, SignerFactor(b, h, p), x)
          /\ Relates(mine[p].v, OpenFactor(b, h, p), 0, SignerFactor(b, h, p), y)
    BY <1>4
  <2>2. mine[p] = [alpha |-> mine[p].alpha, v |-> mine[p].v]
    BY <1>4
  <2>3. CASE at = 0
    <3>1. Coefficient(at, mine[p], plain) = mine[p]
      BY <2>3 DEF Coefficient
    <3> QED BY <1>5, <1>7, <2>1, <2>2, <2>3, <3>1
  <2>4. CASE at # 0
    <3>1. mine[p].alpha = F(1 * alpha + at * x) /\ mine[p].v = F(1 * 0 + at * y)
      BY <1>7, <2>1, <2>4 DEF Relates
    <3>2. /\ F(ScaInverse(at) * F(F(1 * alpha + at * x) + F((-1) * alpha))) = x
          /\ F(ScaInverse(at) * F(F(1 * 0 + at * y) + F((-1) * 0))) = y
      BY <1>3, <2>4, ScalingUndone
    <3>3. Coefficient(at, mine[p], plain)
            = [alpha |-> F(ScaInverse(at) * F(mine[p].alpha + F((-1) * alpha))),
               v     |-> F(ScaInverse(at) * F(mine[p].v + F((-1) * 0)))]
      BY <2>4, BroadcastMinus DEF Coefficient, BrTimes, PlainBroadcast
    <3> QED BY <2>1, <3>1, <3>2, <3>3
  <2> QED BY <2>3, <2>4
<1>8. ASSUME b.kind = "threshold"
      PROVE  Recomposed(b, h, mine, plain) = SignersBroadcast(k, b, packs)
  <2>1. h \in Field
    BY <1>8, Threshold
  <2>2. Recomposed(b, h, mine, plain) = [p \in Packs(b) |-> Coefficient(h, mine[p], plain)]
    BY <1>8 DEF Recomposed, ThresholdRecomposed
  <2>3. \A p \in Packs(b) : /\ OpenFactor(b, h, p) = (IF h # 0 THEN 1 ELSE 0)
                            /\ SignerFactor(b, h, p) = (IF h # 0 THEN h ELSE 1)
    BY <1>8 DEF OpenFactor, SignerFactor, HasOffset
  <2> HIDE DEF plain
  <2> QED BY <1>7, <1>8, <2>1, <2>2, <2>3 DEF SignersBroadcast
<1>9. ASSUME b.kind = "lifting"
      PROVE  Recomposed(b, h, mine, plain) = SignersBroadcast(k, b, packs)
  <2>1. \A p \in Packs(b) : Position(b, p, h) \in Field
    BY <1>2, <1>9, Positions
  <2>2. Recomposed(b, h, mine, plain)
          = [p \in Packs(b) |-> Coefficient(Position(b, p, h), mine[p], plain)]
    BY <1>9 DEF Recomposed, LiftingRecomposed
  <2>3. \A p \in Packs(b) :
          /\ OpenFactor(b, h, p) = (IF Position(b, p, h) # 0 THEN 1 ELSE 0)
          /\ SignerFactor(b, h, p) = (IF Position(b, p, h) # 0 THEN Position(b, p, h) ELSE 1)
    BY <1>9 DEF OpenFactor, SignerFactor, HasOffset
  <2> HIDE DEF plain
  <2> QED BY <1>7, <1>9, <2>1, <2>2, <2>3 DEF SignersBroadcast
<1>10. Recomposed(b, h, mine, plain) = SignersBroadcast(k, b, packs)
  BY <1>1, <1>6, <1>8, <1>9
<1> QED BY <1>10 DEF mine

-----------------------------------------------------------------------------
(* The traditional packing.                                                *)

\* A sum with one term that is not zero.
LEMMA SingleTerm ==
  ASSUME NEW N \in Nat, NEW j \in 0..(N - 1), NEW f, f[j] \in Int,
         \A k \in 0..(N - 1) : k # j => f[k] = 0
  PROVE  SumUpTo(f, N) = f[j]
<1> DEFINE P(n) == SumUpTo(f, n) = IF n <= j THEN 0 ELSE f[j]
           T == {n \in 0..N : ~P(n)}
<1>1. /\ SumUpTo(f, 0) = 0
      /\ \A n \in 0..(N - 1) : SumUpTo(f, n + 1) = SumUpTo(f, n) + f[n]
  <2>1. \A k \in 0..(N - 1) : f[k] \in Int
    OBVIOUS
  <2> QED BY <2>1, SumsUpTo
<1>2. ASSUME NEW n \in 0..(N - 1), P(n) PROVE P(n + 1)
  <2>1. SumUpTo(f, n + 1) = SumUpTo(f, n) + f[n]
    BY <1>1
  <2>2. CASE n = j
    BY <1>2, <2>1, <2>2
  <2>3. CASE n # j
    BY <1>2, <2>1, <2>3
  <2> QED BY <2>2, <2>3
<1>3. P(0)
  BY <1>1
<1>4. P(N) = (SumUpTo(f, N) = f[j])
  <2>1. ~(N <= j)
    OBVIOUS
  <2> QED BY <2>1
<1> HIDE DEF P
<1>5. CASE T # {}
  <2>1. PICK m \in T : \A y \in T : m <= y
    BY <1>5, Least, T \subseteq Nat
  <2>2. m # 0
    BY <1>3, <2>1
  <2>3. m - 1 \in 0..(N - 1) /\ m - 1 \in 0..N /\ (m - 1) + 1 = m /\ ~(m <= m - 1)
    BY <2>1, <2>2
  <2>4. P(m - 1)
    BY <2>1, <2>3
  <2>5. P(m - 1 + 1)
    BY <1>2, <2>3, <2>4
  <2> QED BY <2>1, <2>3, <2>5
<1>6. CASE T = {}
  BY <1>4, <1>6, N \in 0..N
<1> QED BY <1>5, <1>6

\* Sums of broadcasts.
BrAdds(g, br, n) ==
  g = [k \in 0..n |-> IF k = 0 THEN PlainBroadcast(0) ELSE BrPlus(g[k - 1], br[k - 1])]
BrSum(br, n) ==
  LET sum[k \in 0..n] == IF k = 0 THEN PlainBroadcast(0) ELSE BrPlus(sum[k - 1], br[k - 1])
  IN  sum

Splits(br, f, g, n) ==
  \A k \in 0..(n - 1) : br[k] = [alpha |-> f[k], v |-> g[k]] /\ f[k] \in Int /\ g[k] \in Int
SumOfBroadcasts(f, g, n) == [alpha |-> F(SumUpTo(f, n)), v |-> F(SumUpTo(g, n))]

LEMMA BroadcastSums ==
  ASSUME NEW n \in Nat, NEW br, NEW f, NEW g, Splits(br, f, g, n)
  PROVE  BrSum(br, n)[n] = SumOfBroadcasts(f, g, n)
<1> \A k \in 0..(n - 1) : br[k] = [alpha |-> f[k], v |-> g[k]] /\ f[k] \in Int /\ g[k] \in Int
  BY DEF Splits
<1> DEFINE s == [k \in 0..n |-> [alpha |-> F(SumUpTo(f, k)), v |-> F(SumUpTo(g, k))]]
<1>1. /\ SumUpTo(f, 0) = 0 /\ \A k \in 0..n : SumUpTo(f, k) \in Int
      /\ \A k \in 0..(n - 1) : SumUpTo(f, k + 1) = SumUpTo(f, k) + f[k]
  BY SumsUpTo
<1>2. /\ SumUpTo(g, 0) = 0 /\ \A k \in 0..n : SumUpTo(g, k) \in Int
      /\ \A k \in 0..(n - 1) : SumUpTo(g, k + 1) = SumUpTo(g, k) + g[k]
  BY SumsUpTo
<1>3. F(0) = 0
  BY FieldAssumption, FieldElements DEF Field
<1>4. ASSUME NEW k \in 0..n
      PROVE  s[k] = IF k = 0 THEN PlainBroadcast(0) ELSE BrPlus(s[k - 1], br[k - 1])
  <2>1. CASE k = 0
    BY <1>1, <1>2, <1>3, <2>1 DEF PlainBroadcast
  <2>2. CASE k # 0
    <3>1. PICK j \in 0..(n - 1) : k = j + 1
      BY <2>2, k - 1 \in 0..(n - 1)
    <3>2. k - 1 = j /\ j \in 0..n
      BY <3>1
    <3>3. s[j] = [alpha |-> F(SumUpTo(f, j)), v |-> F(SumUpTo(g, j))]
      BY <3>2
    <3>4. s[k] = [alpha |-> F(SumUpTo(f, j) + f[j]), v |-> F(SumUpTo(g, j) + g[j])]
      BY <1>1, <1>2, <3>1
    <3>5. /\ F(F(SumUpTo(f, j)) + f[j]) = F(SumUpTo(f, j) + f[j])
          /\ F(F(SumUpTo(g, j)) + g[j]) = F(SumUpTo(g, j) + g[j])
      BY <1>1, <1>2, <3>2, SumNormalises
    <3>6. br[j] = [alpha |-> f[j], v |-> g[j]]
      OBVIOUS
    <3>7. s[j].alpha = F(SumUpTo(f, j)) /\ s[j].v = F(SumUpTo(g, j))
      BY <3>3
    <3> HIDE DEF s
    <3>8. BrPlus(s[j], br[j]) = [alpha |-> F(F(SumUpTo(f, j)) + f[j]), v |-> F(F(SumUpTo(g, j)) + g[j])]
      BY <3>6, <3>7 DEF BrPlus
    <3>9. s[k] = BrPlus(s[j], br[j])
      BY <3>4, <3>5, <3>8
    <3> QED BY <2>2, <3>2, <3>9
  <2> QED BY <2>1, <2>2
<1>5. BrAdds(s, br, n)
  BY <1>4 DEF BrAdds
<1>6. BrAdds(BrSum(br, n), br, n)
  BY <1>5, Zenon DEF BrAdds, BrSum
<1> DEFINE r == BrSum(br, n)
           T == {m \in 0..n : s[m] # r[m]}
<1>7. s[n] = SumOfBroadcasts(f, g, n)
  BY n \in 0..n DEF SumOfBroadcasts
<1> HIDE DEF s, r
<1>8. CASE T # {}
  <2>1. PICK m \in T : \A y \in T : m <= y
    BY <1>8, Least, T \subseteq Nat
  <2>2. m \in 0..n /\ 0 \in 0..n
    BY <2>1
  <2>3. s[0] = PlainBroadcast(0)
    BY <1>5, <2>2 DEF BrAdds
  <2>4. r[0] = PlainBroadcast(0)
    BY <1>6, <2>2 DEF BrAdds, r
  <2>5. m # 0
    BY <2>1, <2>3, <2>4
  <2>6. m - 1 \in 0..n /\ s[m - 1] = r[m - 1]
    BY <2>1, <2>5
  <2>7. s[m] = BrPlus(s[m - 1], br[m - 1])
    BY <1>5, <2>2, <2>5 DEF BrAdds
  <2>8. r[m] = BrPlus(r[m - 1], br[m - 1])
    BY <1>6, <2>2, <2>5 DEF BrAdds, r
  <2> QED BY <2>1, <2>6, <2>7, <2>8
<1>9. CASE T = {}
  BY <1>7, <1>9, n \in 0..n DEF r
<1> QED BY <1>8, <1>9

\* The packs are the shares; in the verifier's, the last one is in the place of the
\* hidden one.
IsTraditional(b) == b.kind = "traditional"
Seat(b, h, p) == IF p = h THEN b.parties - 1 ELSE p

LEMMA TraditionalPacks ==
  ASSUME NEW b, IsTraditional(b), NEW shares, NEW h, NEW packs, NEW opened,
         Execution(b, shares, h, packs, opened)
  PROVE  \A p \in Packs(b), c \in Parts :
           packs[p][c] = shares[p][c] /\ opened[p][c] = shares[Seat(b, h, p)][c]
<1> WellFormed(b) /\ shares \in [0..(b.parties - 1) -> Share] /\ h \in 0..(b.parties - 1)
  BY DEF Execution
<1> HoldPacks(b, shares, packs, b.parties) /\ HoldOpen(b, h, shares, opened, b.parties)
  BY DEF Execution
<1> TAKE p \in Packs(b), c \in Parts
<1> DEFINE N == b.parties
           from == IF p = h THEN N - 1 ELSE p
           g == PackTerms(b, p, shares, c)
           o == OpenTerms(b, h, p, shares, c)
<1>1. N \in Nat /\ N >= 4
  BY DEF WellFormed
<1>2. p \in 0..(N - 2) /\ p \in 0..(N - 1) /\ from \in 0..(N - 1) /\ from # h
  BY <1>1 DEF Packs, NbPacks, IsTraditional
<1>3. \A i \in 0..(N - 1) : shares[i][c] \in Field
  BY DEF Share, Parts
<1>4. \A i \in 0..(N - 1) : shares[i][c] \in Int /\ F(shares[i][c]) = shares[i][c]
  BY <1>3, FieldElements
<1>5. \A i \in 0..(N - 1) : Weight(b, p, i) = IF i = p THEN 1 ELSE 0
  BY DEF Weight, TraditionalWeight, IsTraditional
<1>6. \A i \in 0..(N - 1) : i # h => OpenWeight(b, h, p, i) = IF i = from THEN 1 ELSE 0
  <2> SUFFICES ASSUME NEW i \in 0..(N - 1), i # h
               PROVE  OpenWeight(b, h, p, i) = IF i = from THEN 1 ELSE 0
    OBVIOUS
  <2>1. OpenWeight(b, h, p, i) = IF p = (IF i = N - 1 THEN h ELSE i) THEN 1 ELSE 0
    BY DEF OpenWeight, TraditionalOpen, IsTraditional
  <2> QED BY <1>1, <1>2, <2>1
<1>7. \A i \in 0..(N - 1) : g[i] = IF i = p THEN shares[i][c] ELSE 0
  <2> SUFFICES ASSUME NEW i \in 0..(N - 1) PROVE g[i] = IF i = p THEN shares[i][c] ELSE 0
    OBVIOUS
  <2>1. g[i] = Weight(b, p, i) * shares[i][c]
    BY DEF PackTerms
  <2>2. 1 * shares[i][c] = shares[i][c] /\ 0 * shares[i][c] = 0
    BY <1>4
  <2> HIDE DEF g
  <2> QED BY <1>5, <2>1, <2>2
<1>8. \A i \in 0..(N - 1) : o[i] = IF i = from THEN shares[i][c] ELSE 0
  <2> SUFFICES ASSUME NEW i \in 0..(N - 1) PROVE o[i] = IF i = from THEN shares[i][c] ELSE 0
    OBVIOUS
  <2>1. o[i] = IF i = h THEN 0 ELSE OpenWeight(b, h, p, i) * shares[i][c]
    BY DEF OpenTerms
  <2>2. 1 * shares[i][c] = shares[i][c] /\ 0 * shares[i][c] = 0
    BY <1>4
  <2> HIDE DEF o, from
  <2> QED BY <1>2, <1>6, <2>1, <2>2
<1>9. packs[p][c] = F(SumUpTo(g, N)) /\ opened[p][c] = F(SumUpTo(o, N))
  BY DEF HoldPacks, HoldOpen
<1>10. shares[from][c] \in Int /\ shares[p][c] \in Int
  BY <1>2, <1>4
<1> HIDE DEF g, o, N, from
<1>11. SumUpTo(g, N) = g[p] /\ g[p] = shares[p][c]
  BY <1>1, <1>2, <1>7, <1>10, SingleTerm
<1>12. SumUpTo(o, N) = o[from] /\ o[from] = shares[from][c]
  BY <1>1, <1>2, <1>8, <1>10, SingleTerm
<1>13. packs[p][c] = shares[p][c] /\ opened[p][c] = shares[from][c]
  BY <1>2, <1>4, <1>9, <1>11, <1>12
<1> QED BY <1>13 DEF from, N, Seat

\* The term that is missing in a sum of which another one has taken the place.
MissingFrom(t, m, n) == F(t + F((-1) * F(SumUpTo(m, n))))

LEMMA MissingTerm ==
  ASSUME NEW M \in Nat, NEW h \in 0..(M - 1), NEW g, NEW m, NEW t \in Int,
         \A k \in 0..M : g[k] \in Int,
         \A k \in 0..(M - 1) : m[k] \in Int /\ F(m[k]) = F(g[IF k = h THEN M ELSE k]),
         F(SumUpTo(g, M + 1)) = F(t)
  PROVE  MissingFrom(t, m, M) = F(g[h])
<1> DEFINE d == [k \in 0..(M - 1) |-> IF k = h THEN g[M] - g[h] ELSE 0]
<1>1. SumUpTo(m, M) \in Int
  BY M \in 0..M, SumsUpTo
<1>2. SumUpTo(g, M) \in Int /\ SumUpTo(g, M + 1) = SumUpTo(g, M) + g[M]
  <2>1. M + 1 \in Nat /\ M \in 0..(M + 1) /\ M \in 0..(M + 1 - 1)
    OBVIOUS
  <2>2. \A k \in 0..(M + 1 - 1) : g[k] \in Int
    OBVIOUS
  <2> QED BY <2>1, <2>2, SumsUpTo
<1>3. g[M] \in Int /\ g[h] \in Int /\ M \in 0..M /\ h \in 0..M
  OBVIOUS
<1>4. SumUpTo(d, M) = g[M] - g[h]
  <2>1. d[h] = g[M] - g[h] /\ d[h] \in Int
    BY <1>3
  <2>2. \A k \in 0..(M - 1) : k # h => d[k] = 0
    OBVIOUS
  <2> HIDE DEF d
  <2> QED BY <2>1, <2>2, SingleTerm
<1>5. Combine(1, g, 1, d, m, M)
  <2>1. ASSUME NEW k \in 0..(M - 1)
        PROVE  g[k] \in Int /\ d[k] \in Int /\ m[k] \in Int /\ F(m[k]) = F(1 * g[k] + 1 * d[k])
    <3>1. g[k] \in Int /\ d[k] = IF k = h THEN g[M] - g[h] ELSE 0
      OBVIOUS
    <3>2. CASE k = h
      <4>1. d[k] \in Int /\ 1 * g[k] + 1 * d[k] = g[M]
        BY <1>3, <3>1, <3>2
      <4>2. F(m[k]) = F(g[M]) /\ m[k] \in Int
        BY <3>2
      <4> HIDE DEF d
      <4> QED BY <3>1, <4>1, <4>2
    <3>3. CASE k # h
      <4>1. d[k] \in Int /\ 1 * g[k] + 1 * d[k] = g[k]
        BY <1>3, <3>1, <3>3
      <4>2. F(m[k]) = F(g[k]) /\ m[k] \in Int
        BY <3>3
      <4> HIDE DEF d
      <4> QED BY <3>1, <4>1, <4>2
    <3> QED BY <3>2, <3>3
  <2> HIDE DEF d
  <2> QED BY <2>1, SumsCombine, 1 \in Int
<1> HIDE DEF d
<1>6. PICK x \in Int, y \in Int, z \in Int, s \in Int :
        x = SumUpTo(g, M) /\ y = g[M] /\ z = g[h] /\ s = SumUpTo(m, M)
  BY <1>1, <1>2, <1>3
<1>7. F(s) = F(x + y - z)
  <2>1. F(s) = F(1 * x + 1 * (y - z))
    BY <1>4, <1>5, <1>6 DEF Combine
  <2>2. 1 * x + 1 * (y - z) = x + y - z
    OBVIOUS
  <2> QED BY <2>1, <2>2
<1>8. F(x + y) = F(t)
  BY <1>2, <1>6
<1>9. PICK a \in Int : x + y = t + Q * a
  BY <1>8, x + y \in Int, Congruent
<1>10. PICK bb \in Int : s = (x + y - z) + Q * bb
  BY <1>7, x + y - z \in Int, Congruent
<1>11. PICK u \in Int, c \in Int : u = F(s) /\ u = s + Q * c
  BY Normalises
<1>12. PICK v \in Int, e \in Int : v = F((-1) * u) /\ v = (-1) * u + Q * e
  BY (-1) * u \in Int, Normalises
<1>13. t + v = z + Q * (e - c - bb - a)
  <2>1. Q * (e - c - bb - a) = Q * e - Q * c - Q * bb - Q * a
    BY FieldAssumption
  <2>2. Q * e \in Int /\ Q * c \in Int /\ Q * bb \in Int /\ Q * a \in Int
    BY FieldAssumption
  <2> QED BY <1>9, <1>10, <1>11, <1>12, <2>1, <2>2
<1>14. t + v \in Int /\ e - c - bb - a \in Int
  OBVIOUS
<1>15. F(t + v) = F(z)
  BY <1>13, <1>14, Differ
<1> QED BY <1>6, <1>11, <1>12, <1>15 DEF MissingFrom

\* What each party broadcasts, before it is normalised; the last one adds the constant.
AlphaTerms(k, b, shares) ==
  [i \in 0..(b.parties - 1) |-> k.aw * shares[i].wit + k.au * shares[i].unif]
VTerms(k, b, shares) ==
  [i \in 0..(b.parties - 1) |-> k.vw * shares[i].wit + k.vc * shares[i].corr
                                  + (IF i = b.parties - 1 THEN k.cst ELSE 0)]

LEMMA TermsAddUp ==
  ASSUME NEW b, WellFormed(b), NEW shares \in [0..(b.parties - 1) -> Share],
         NEW k \in Coefficients, NEW alpha \in Field, TotalIs(k, b, shares, alpha)
  PROVE  /\ F(SumUpTo(AlphaTerms(k, b, shares), b.parties)) = F(alpha)
         /\ F(SumUpTo(VTerms(k, b, shares), b.parties)) = F(0)
         /\ \A i \in 0..(b.parties - 1) : /\ AlphaTerms(k, b, shares)[i] \in Int
                                          /\ VTerms(k, b, shares)[i] \in Int
<1> DEFINE N == b.parties
           w == PartOf(shares, "wit")
           u == PartOf(shares, "unif")
           c == PartOf(shares, "corr")
           at == AlphaTerms(k, b, shares)
           vt == VTerms(k, b, shares)
           mt == [i \in 0..(N - 1) |-> k.vw * shares[i].wit + k.vc * shares[i].corr]
           ct == [i \in 0..(N - 1) |-> IF i = N - 1 THEN k.cst ELSE 0]
<1>1. N \in Nat /\ N >= 4 /\ N \in 0..N /\ N - 1 \in 0..(N - 1)
  BY DEF WellFormed
<1>2. k.aw \in Int /\ k.au \in Int /\ k.vw \in Int /\ k.vc \in Int /\ k.cst \in Int
  BY DEF Coefficients
<1>3. ASSUME NEW i \in 0..(N - 1)
      PROVE  /\ shares[i].wit \in Int /\ shares[i].unif \in Int /\ shares[i].corr \in Int
             /\ w[i] = shares[i].wit /\ u[i] = shares[i].unif /\ c[i] = shares[i].corr
  <2>1. shares[i] \in Share
    OBVIOUS
  <2> QED BY <2>1, FieldElements DEF PartOf, Share
<1>4. ASSUME NEW i \in 0..(N - 1)
      PROVE  /\ at[i] = k.aw * w[i] + k.au * u[i] /\ mt[i] = k.vw * w[i] + k.vc * c[i]
             /\ ct[i] = (IF i = N - 1 THEN k.cst ELSE 0)
             /\ vt[i] = k.vw * w[i] + k.vc * c[i] + (IF i = N - 1 THEN k.cst ELSE 0)
             /\ w[i] \in Int /\ u[i] \in Int /\ c[i] \in Int
  <2>1. w[i] = shares[i].wit /\ u[i] = shares[i].unif /\ c[i] = shares[i].corr
    BY <1>3
  <2> HIDE DEF w, u, c
  <2> QED BY <1>3, <2>1 DEF AlphaTerms, VTerms
<1>5. F(k.aw * SumUpTo(w, N) + k.au * SumUpTo(u, N)) = alpha
  BY DEF TotalIs
<1>6. F(k.vw * SumUpTo(w, N) + k.vc * SumUpTo(c, N) + k.cst) = 0
  BY DEF TotalIs
<1> HIDE DEF w, u, c, at, vt, mt, ct, N
<1>7. PICK aw \in Int, au \in Int, vw \in Int, vc \in Int, cst \in Int :
        aw = k.aw /\ au = k.au /\ vw = k.vw /\ vc = k.vc /\ cst = k.cst
  BY <1>2
<1>8. ASSUME NEW i \in 0..(N - 1)
      PROVE  /\ at[i] \in Int /\ mt[i] \in Int /\ ct[i] \in Int /\ vt[i] \in Int
             /\ at[i] = aw * w[i] + au * u[i] /\ mt[i] = vw * w[i] + vc * c[i]
             /\ vt[i] = 1 * mt[i] + 1 * ct[i]
             /\ w[i] \in Int /\ u[i] \in Int /\ c[i] \in Int
  <2>1. PICK x \in Int, y \in Int, z \in Int : x = w[i] /\ y = u[i] /\ z = c[i]
    BY <1>4
  <2>2. aw * x + au * y \in Int /\ vw * x + vc * z \in Int
    OBVIOUS
  <2>3. at[i] = aw * x + au * y /\ mt[i] = vw * x + vc * z
        /\ ct[i] = (IF i = N - 1 THEN cst ELSE 0)
        /\ vt[i] = vw * x + vc * z + (IF i = N - 1 THEN cst ELSE 0)
    BY <1>4, <1>7, <2>1
  <2>4. PICK q \in Int : q = vw * x + vc * z
    BY <2>2
  <2>5. mt[i] = q /\ vt[i] = q + ct[i] /\ ct[i] \in Int
    BY <2>3, <2>4
  <2>6. vt[i] = 1 * mt[i] + 1 * ct[i] /\ vt[i] \in Int
    BY <2>5
  <2> QED BY <2>1, <2>2, <2>3, <2>5, <2>6
<1>9. Combine(aw, w, au, u, at, N)
  BY <1>1, <1>8, SumsCombine
<1>10. Combine(vw, w, vc, c, mt, N)
  BY <1>1, <1>8, SumsCombine
<1>11. Combine(1, mt, 1, ct, vt, N)
  BY <1>1, <1>8, SumsCombine, 1 \in Int
<1>12. SumUpTo(ct, N) = k.cst
  <2>1. ct[N - 1] = k.cst /\ k.cst \in Int /\ \A i \in 0..(N - 1) : i # N - 1 => ct[i] = 0
    BY <1>1, <1>2, <1>4
  <2>2. PICK j \in 0..(N - 1) : j = N - 1
    BY <1>1
  <2> QED BY <1>1, <2>1, <2>2, SingleTerm
<1>13. alpha \in Int /\ F(alpha) = alpha /\ F(0) = 0
  BY FieldAssumption, FieldElements DEF Field
<1>14. F(SumUpTo(at, N)) = F(alpha)
  BY <1>5, <1>7, <1>9, <1>13 DEF Combine
<1>15. F(SumUpTo(vt, N)) = F(0)
  <2>1. /\ SumUpTo(mt, N) \in Int /\ SumUpTo(w, N) \in Int /\ SumUpTo(c, N) \in Int
    BY <1>1, <1>8, SumsUpTo
  <2>2. PICK x \in Int, y \in Int, z \in Int :
          x = SumUpTo(mt, N) /\ y = SumUpTo(w, N) /\ z = SumUpTo(c, N)
    BY <2>1
  <2>3. F(x) = F(vw * y + vc * z)
    BY <1>10, <2>2 DEF Combine
  <2>4. F(SumUpTo(vt, N)) = F(1 * x + 1 * cst)
    BY <1>7, <1>11, <1>12, <2>2 DEF Combine
  <2>5. PICK q \in Int : q = vw * y + vc * z
    OBVIOUS
  <2>6. F(x + cst) = F(q + cst)
    <3>1. F(x) = F(q)
      BY <2>3, <2>5
    <3>2. PICK d \in Int : x = q + Q * d
      BY <3>1, Congruent
    <3>3. x + cst = (q + cst) + Q * d
      BY <3>2, FieldAssumption
    <3> QED BY <3>3, x + cst \in Int, q + cst \in Int, Differ
  <2>7. 1 * x + 1 * cst = x + cst
    OBVIOUS
  <2> QED BY <1>6, <1>7, <1>13, <2>2, <2>4, <2>5, <2>6, <2>7
<1> QED BY <1>8, <1>14, <1>15 DEF at, vt, N

LEMMA TraditionalIsSigners ==
  ASSUME NEW b, IsTraditional(b), NEW shares, NEW h, NEW packs, NEW opened,
         Execution(b, shares, h, packs, opened),
         NEW k \in Coefficients, NEW alpha \in Field, TotalIs(k, b, shares, alpha)
  PROVE  Recomposed(b, h, VerifiersBroadcast(k, b, h, opened), PlainBroadcast(alpha))
           = SignersBroadcast(k, b, packs)
<1>0. \A p \in Packs(b), c \in Parts :
        packs[p][c] = shares[p][c] /\ opened[p][c] = shares[Seat(b, h, p)][c]
  BY TraditionalPacks
<1> WellFormed(b) /\ shares \in [0..(b.parties - 1) -> Share] /\ h \in 0..(b.parties - 1)
  BY DEF Execution
<1> HoldPacks(b, shares, packs, b.parties) /\ HoldOpen(b, h, shares, opened, b.parties)
  BY DEF Execution
<1> DEFINE mine == VerifiersBroadcast(k, b, h, opened)
           plain == PlainBroadcast(alpha)
           M == NbPacks(b)
           from(p) == IF p = h THEN M ELSE p
           at == AlphaTerms(k, b, shares)
           vt == VTerms(k, b, shares)
           ma == [p \in Packs(b) |-> mine[p].alpha]
           mv == [p \in Packs(b) |-> mine[p].v]
<1>1. M \in Nat /\ M = b.parties - 1 /\ M >= 3 /\ Packs(b) = 0..(M - 1) /\ b.parties = M + 1
  BY DEF WellFormed, NbPacks, Packs, IsTraditional
<1>2. /\ F(SumUpTo(at, M + 1)) = F(alpha) /\ F(SumUpTo(vt, M + 1)) = F(0)
      /\ \A i \in 0..M : at[i] \in Int /\ vt[i] \in Int
  <2>1. /\ F(SumUpTo(at, b.parties)) = F(alpha) /\ F(SumUpTo(vt, b.parties)) = F(0)
        /\ \A i \in 0..(b.parties - 1) : at[i] \in Int /\ vt[i] \in Int
    BY TermsAddUp
  <2> HIDE DEF M, at, vt
  <2> QED BY <1>1, <2>1
<1>3. ASSUME NEW i \in 0..M
      PROVE  /\ Affine(k, shares[i], i = M) = [alpha |-> F(at[i]), v |-> F(vt[i])]
             /\ i # M => Affine(k, shares[i], FALSE) = [alpha |-> F(at[i]), v |-> F(vt[i])]
  <2>1. i \in 0..(b.parties - 1) /\ b.parties - 1 = M
    BY <1>1
  <2>2. /\ at[i] = k.aw * shares[i].wit + k.au * shares[i].unif
        /\ vt[i] = k.vw * shares[i].wit + k.vc * shares[i].corr + (IF i = M THEN k.cst ELSE 0)
    BY <2>1 DEF AlphaTerms, VTerms
  <2> HIDE DEF at, vt
  <2> QED BY <2>2 DEF Affine
<1>4. ASSUME NEW p \in Packs(b)
      PROVE  /\ mine[p] = Affine(k, shares[from(p)], from(p) = M)
             /\ Affine(k, packs[p], FALSE) = Affine(k, shares[p], FALSE)
             /\ p \in 0..M /\ from(p) \in 0..M /\ p # M
  <2>1. p \in 0..M /\ p # M /\ from(p) \in 0..M /\ (from(p) = M) = (p = h)
    BY <1>1
  <2>2. /\ packs[p].wit = shares[p].wit /\ packs[p].unif = shares[p].unif
        /\ packs[p].corr = shares[p].corr
        /\ opened[p].wit = shares[from(p)].wit /\ opened[p].unif = shares[from(p)].unif
        /\ opened[p].corr = shares[from(p)].corr
    <3>1. ASSUME NEW c \in Parts
          PROVE  packs[p][c] = shares[p][c] /\ opened[p][c] = shares[from(p)][c]
      <4>1. packs[p][c] = shares[p][c] /\ opened[p][c] = shares[Seat(b, h, p)][c]
        BY <1>0
      <4> QED BY <1>1, <4>1 DEF Seat
    <3>2. "wit" \in Parts /\ "unif" \in Parts /\ "corr" \in Parts
      BY DEF Parts
    <3> QED BY <3>1, <3>2
  <2>3. mine[p] = Affine(k, opened[p], p = h)
    BY DEF VerifiersBroadcast, HasOffset, IsTraditional
  <2> HIDE DEF mine, from
  <2> QED BY <2>1, <2>2, <2>3 DEF Affine
<1>5. ASSUME NEW p \in Packs(b)
      PROVE  /\ mine[p] = [alpha |-> ma[p], v |-> mv[p]]
             /\ ma[p] = F(at[from(p)]) /\ mv[p] = F(vt[from(p)])
             /\ ma[p] \in Int /\ mv[p] \in Int /\ F(ma[p]) = ma[p] /\ F(mv[p]) = mv[p]
  <2>1. mine[p] = [alpha |-> F(at[from(p)]), v |-> F(vt[from(p)])] /\ from(p) \in 0..M
    <3> HIDE DEF mine, from, at, vt
    <3> QED BY <1>3, <1>4
  <2>2. ma[p] = mine[p].alpha /\ mv[p] = mine[p].v
    OBVIOUS
  <2>3. at[from(p)] \in Int /\ vt[from(p)] \in Int
    <3> HIDE DEF at, vt, from, M
    <3> QED BY <1>2, <2>1
  <2> HIDE DEF mine, from, at, vt, ma, mv
  <2> QED BY <2>1, <2>2, <2>3, NormalForm
<1>6. Recomposed(b, h, mine, plain)
        = [p \in Packs(b) |-> IF p = h THEN BrMinus(plain, BrSum(mine, M)[M]) ELSE mine[p]]
  <2>1. Recomposed(b, h, mine, plain) = TraditionalRecomposed(b, h, mine, plain)
    <3> HIDE DEF mine, plain
    <3> QED BY DEF Recomposed, IsTraditional
  <2> HIDE DEF mine, plain
  <2>2. TraditionalRecomposed(b, h, mine, plain)
          = [p \in Packs(b) |-> IF p = h THEN BrMinus(plain, BrSum(mine, M)[M]) ELSE mine[p]]
    BY Zenon DEF TraditionalRecomposed, BrSum
  <2> QED BY <2>1, <2>2
<1> HIDE DEF mine, at, vt, ma, mv
<1>7. BrSum(mine, M)[M] = SumOfBroadcasts(ma, mv, M)
  <2>1. \A p \in 0..(M - 1) : /\ mine[p] = [alpha |-> ma[p], v |-> mv[p]]
                              /\ ma[p] \in Int /\ mv[p] \in Int
    BY <1>1, <1>5
  <2>2. M \in Nat /\ Splits(mine, ma, mv, M)
    BY <1>1, <2>1 DEF Splits
  <2> HIDE DEF M
  <2> QED BY <2>2, BroadcastSums
<1>8. ASSUME NEW p \in Packs(b)
      PROVE  (IF p = h THEN BrMinus(plain, BrSum(mine, M)[M]) ELSE mine[p]) = Affine(k, packs[p], FALSE)
  <2>1. Affine(k, packs[p], FALSE) = [alpha |-> F(at[p]), v |-> F(vt[p])]
    <3> HIDE DEF M
    <3> QED BY <1>3, <1>4
  <2>2. CASE p # h
    <3>1. from(p) = p
      BY <2>2
    <3> HIDE DEF from
    <3> QED BY <1>5, <2>1, <2>2, <3>1
  <2>3. CASE p = h
    <3>1. h \in 0..(M - 1) /\ M \in Nat
      BY <1>1, <2>3
    <3>2. alpha \in Int /\ 0 \in Int
      BY FieldElements
    <3>3. \A q \in 0..(M - 1) : /\ ma[q] \in Int /\ F(ma[q]) = F(at[IF q = h THEN M ELSE q])
                                /\ mv[q] \in Int /\ F(mv[q]) = F(vt[IF q = h THEN M ELSE q])
      BY <1>1, <1>5
    <3>4. MissingFrom(alpha, ma, M) = F(at[h])
      <4> HIDE DEF M
      <4> QED BY <1>2, <3>1, <3>2, <3>3, MissingTerm
    <3>5. MissingFrom(0, mv, M) = F(vt[h])
      <4> HIDE DEF M
      <4> QED BY <1>2, <3>1, <3>2, <3>3, MissingTerm, SMTT(30)
    <3>6. BrMinus(plain, BrSum(mine, M)[M])
            = [alpha |-> MissingFrom(alpha, ma, M), v |-> MissingFrom(0, mv, M)]
      <4> HIDE DEF M
      <4> QED BY <1>7, BroadcastMinus DEF SumOfBroadcasts, MissingFrom, PlainBroadcast
    <3> QED BY <2>1, <2>3, <3>4, <3>5, <3>6
  <2> QED BY <2>2, <2>3
<1> HIDE DEF plain, M
<1>9. Recomposed(b, h, mine, plain) = SignersBroadcast(k, b, packs)
  BY <1>6, <1>8 DEF SignersBroadcast
<1> QED BY <1>9 DEF mine, plain

\* The verifier recomposes the broadcasts of the signer, whichever packing is linked and
\* whatever party is hidden.
LEMMA RecomposedIsSigners ==
  ASSUME NEW b, NEW shares, NEW h, NEW packs, NEW opened,
         Execution(b, shares, h, packs, opened),
         NEW k \in Coefficients, NEW alpha \in Field, TotalIs(k, b, shares, alpha)
  PROVE  Recomposed(b, h, VerifiersBroadcast(k, b, h, opened), PlainBroadcast(alpha))
           = SignersBroadcast(k, b, packs)
BY AffineRecomposed, TraditionalIsSigners DEF IsTraditional

\* The first share of an accumulator.
LEMMA ZeroIsShare == ZeroShare \in Share /\ 0 \in Field /\ F(0) = 0
BY FieldAssumption, FieldElements DEF ZeroShare, Share, Field

\* An element of the field and the next one differ.
LEMMA NextDiffers ==
  ASSUME NEW a \in Field
  PROVE  F(a + 1) # a
<1>1. a \in Int /\ F(a) = a /\ Q \in Nat /\ Q >= 2
  BY FieldAssumption, FieldElements
<1>2. CASE a + 1 \in Field
  BY <1>1, <1>2, FieldElements
<1>3. CASE a + 1 \notin Field
  <2>1. a + 1 = Q
    BY <1>1, <1>3 DEF Field
  <2>2. F(Q) = 0
    BY <1>1 DEF F
  <2>3. a # 0
    BY <1>1, <2>1
  <2> QED BY <2>1, <2>2, <2>3
<1> QED BY <1>2, <1>3

-----------------------------------------------------------------------------
(* The protocol in five rounds.                                            *)

\* A broadcast of the protocol is affine in the share.
FiveRounds(G, A, B, y, alpha) ==
  [aw |-> G * A, au |-> 1, vw |-> (-1) * (G * B) - alpha, vc |-> -1, cst |-> G * y]

LEMMA AffineSums ==
  ASSUME NEW G \in Int, NEW A \in Int, NEW B \in Int, NEW y \in Int, NEW alpha \in Int,
         NEW w \in Int, NEW u \in Int, NEW c \in Int
  PROVE  /\ G * A * w + u = (G * A) * w + 1 * u
         /\ G * (y - B * w) - c - w * alpha = ((-1) * (G * B) - alpha) * w + (-1) * c + G * y
         /\ G * (0 - B * w) - c - w * alpha = ((-1) * (G * B) - alpha) * w + (-1) * c + 0
BY SMT

LEMMA BroadcastIsAffine ==
  ASSUME NEW ch \in Challenge, NEW s \in Share, NEW alpha \in Field,
         NEW I \in [A : Field, b : Field, y : Field], NEW off \in BOOLEAN
  PROVE  /\ FiveRounds(ch.eps * ch.gamma, I.A, I.b, I.y, alpha) \in Coefficients
         /\ Broadcast(ch, s, alpha, I, off)
              = Affine(FiveRounds(ch.eps * ch.gamma, I.A, I.b, I.y, alpha), s, off)
<1> DEFINE G == ch.eps * ch.gamma
           k == FiveRounds(G, I.A, I.b, I.y, alpha)
<1>1. /\ ch.eps \in Field /\ ch.gamma \in Field /\ s.wit \in Field /\ s.unif \in Field
      /\ s.corr \in Field /\ I.A \in Field /\ I.b \in Field /\ I.y \in Field
  BY DEF Challenge, Share
<1>2. /\ ch.eps \in Int /\ ch.gamma \in Int /\ s.wit \in Int /\ s.unif \in Int
      /\ s.corr \in Int /\ I.A \in Int /\ I.b \in Int /\ I.y \in Int /\ alpha \in Int
  BY <1>1, FieldElements
<1>3. G \in Int
  BY <1>2
<1> HIDE DEF G
<1>4. k \in Coefficients
  <2>1. G * I.A \in Int /\ 1 \in Int /\ (-1) * (G * I.b) - alpha \in Int /\ -1 \in Int /\ G * I.y \in Int
    BY <1>2, <1>3
  <2> QED BY <2>1 DEF FiveRounds, Coefficients
<1>5. /\ G * I.A * s.wit + s.unif = (G * I.A) * s.wit + 1 * s.unif
      /\ G * (I.y - I.b * s.wit) - s.corr - s.wit * alpha
           = ((-1) * (G * I.b) - alpha) * s.wit + (-1) * s.corr + G * I.y
      /\ G * (0 - I.b * s.wit) - s.corr - s.wit * alpha
           = ((-1) * (G * I.b) - alpha) * s.wit + (-1) * s.corr + 0
  BY <1>2, <1>3, AffineSums
<1>6. /\ k.aw = G * I.A /\ k.au = 1 /\ k.vw = (-1) * (G * I.b) - alpha /\ k.vc = -1
      /\ k.cst = G * I.y
  BY DEF FiveRounds
<1>7. Broadcast(ch, s, alpha, I, off)
        = [alpha |-> F(G * I.A * s.wit + s.unif),
           v     |-> F(G * ((IF off THEN I.y ELSE 0) - I.b * s.wit) - s.corr - s.wit * alpha)]
  BY DEF Broadcast, Alpha, G
<1>8. Affine(k, s, off)
        = [alpha |-> F((G * I.A) * s.wit + 1 * s.unif),
           v     |-> F(((-1) * (G * I.b) - alpha) * s.wit + (-1) * s.corr
                         + (IF off THEN G * I.y ELSE 0))]
  BY <1>6 DEF Affine
<1>9. Broadcast(ch, s, alpha, I, off) = Affine(k, s, off)
  <2>1. CASE off
    BY <1>5, <1>7, <1>8, <2>1
  <2>2. CASE ~off
    BY <1>5, <1>7, <1>8, <2>2
  <2> QED BY <2>1, <2>2
<1> QED BY <1>4, <1>9 DEF G

\* A key solves its equation, and the shares of an execution add up to the solution and
\* to a correlated pair: what is broadcast together is the plain broadcast.
Solves(x, A, B, y) == F(y) = F(A * x * x + B * x)
Opens(alpha, G, A, x, u) == F(alpha) = F(G * A * x + u)
AlphaAddsUp(alpha, G, A, w, u) == F((G * A) * w + 1 * u) = F(alpha)
VAddsUp(alpha, G, A, B, y, w, c) ==
  F(((-1) * (G * B) - alpha) * w + (-1) * c + G * y) = F(0)

LEMMA AlphaTotal ==
  ASSUME NEW G \in Int, NEW A \in Int, NEW x \in Int, NEW u \in Int,
         NEW alpha \in Int, NEW Tw \in Int, NEW Tu \in Int,
         F(Tw) = F(x), F(Tu) = F(u), Opens(alpha, G, A, x, u)
  PROVE  AlphaAddsUp(alpha, G, A, Tw, Tu)
<1> DEFINE GA == G * A
<1>1. GA \in Int
  OBVIOUS
<1> HIDE DEF GA
<1>2. F(Scaled(GA, Tw)) = F(Scaled(GA, x))
  BY <1>1, MultiplesCongruent
<1>3. Scaled(GA, Tw) = GA * Tw /\ GA * Tw \in Int /\ Scaled(GA, x) = GA * x /\ GA * x \in Int
  BY <1>1 DEF Scaled
<1>4. F(GA * Tw + Tu) = F(GA * x + u)
  <2> DEFINE P == GA * Tw
             R == GA * x
  <2>1. P \in Int /\ R \in Int /\ F(P) = F(R)
    BY <1>2, <1>3
  <2> HIDE DEF P, R
  <2>2. F(P + Tu) = F(R + u)
    BY <2>1, SumsCongruent
  <2> QED BY <2>2 DEF P, R
<1>5. 1 * Tu = Tu
  OBVIOUS
<1>6. F(alpha) = F(GA * x + u)
  BY DEF Opens, GA
<1>7. F(GA * Tw + 1 * Tu) = F(alpha)
  BY <1>4, <1>5, <1>6
<1> QED BY <1>7 DEF AlphaAddsUp, GA

\* The identity behind it.
LEMMA VIdentity ==
  ASSUME NEW G \in Int, NEW A \in Int, NEW B \in Int, NEW x \in Int, NEW u \in Int,
         NEW d1 \in Int, NEW d2 \in Int, NEW d3 \in Int, NEW d4 \in Int, NEW q \in Int,
         NEW alpha \in Int, NEW y \in Int, NEW Tw \in Int, NEW Tc \in Int,
         alpha = (G * A * x + u) + q * d4, y = (A * x * x + B * x) + q * d3,
         Tw = x + q * d1, Tc = (-(x * u)) + q * d2
  PROVE  ((-1) * (G * B) - alpha) * Tw + (-1) * Tc + G * y
           = q * (((-1) * (G * B) - alpha) * d1 - d2 + G * d3 - d4 * x)
<1> DEFINE V == (-1) * (G * B) - alpha
<1>1. V \in Int
  OBVIOUS
<1>2. V * x + x * u + G * (A * x * x + B * x) = -(q * (d4 * x))
  <2>1. V * x = (-1) * (G * B * x) - (G * A * x * x + u * x + q * d4 * x)
    BY SMT
  <2>2. G * (A * x * x + B * x) = G * A * x * x + G * B * x
    BY SMT
  <2> HIDE DEF V
  <2> QED BY <1>1, <2>1, <2>2, SMT
<1> HIDE DEF V
<1>3. V * Tw = V * x + q * (V * d1)
  BY <1>1, SMT
<1>4. G * y = G * (A * x * x + B * x) + q * (G * d3)
  BY SMT
<1>5. V * Tw + (-1) * Tc + G * y = q * (V * d1) - q * d2 + q * (G * d3) - q * (d4 * x)
  <2> DEFINE p == G * (A * x * x + B * x)
             m == x * u
             n == V * x
             o == G * y
             t == V * Tw
  <2>1. /\ p \in Int /\ m \in Int /\ n \in Int /\ o \in Int /\ t \in Int
        /\ q * (V * d1) \in Int /\ q * d2 \in Int /\ q * (G * d3) \in Int /\ q * (d4 * x) \in Int
    BY <1>1
  <2>2. n + m + p = -(q * (d4 * x)) /\ t = n + q * (V * d1) /\ o = p + q * (G * d3)
        /\ Tc = (-m) + q * d2
    BY <1>2, <1>3, <1>4
  <2> HIDE DEF p, m, n, o, t
  <2>3. t + (-1) * Tc + o = q * (V * d1) - q * d2 + q * (G * d3) - q * (d4 * x)
    BY <2>1, <2>2
  <2> QED BY <2>3 DEF o, t
<1>6. q * (V * d1) - q * d2 + q * (G * d3) - q * (d4 * x) = q * (V * d1 - d2 + G * d3 - d4 * x)
  BY <1>1, SMT
<1> QED BY <1>5, <1>6 DEF V

LEMMA VTotal ==
  ASSUME NEW G \in Int, NEW A \in Int, NEW B \in Int, NEW x \in Int, NEW u \in Int,
         NEW alpha \in Int, NEW y \in Int, NEW Tw \in Int, NEW Tc \in Int,
         F(Tw) = F(x), F(Tc) = F(-(x * u)), Opens(alpha, G, A, x, u), Solves(x, A, B, y)
  PROVE  VAddsUp(alpha, G, A, B, y, Tw, Tc)
<1>1. /\ G * A * x + u \in Int /\ A * x * x + B * x \in Int /\ -(x * u) \in Int
      /\ ((-1) * (G * B) - alpha) \in Int /\ Q \in Int /\ 0 \in Int
  BY FieldAssumption
<1>2. \E d \in Int : alpha = (G * A * x + u) + Q * d
  BY <1>1, Congruent DEF Opens
<1>3. \E d \in Int : y = (A * x * x + B * x) + Q * d
  BY <1>1, Congruent DEF Solves
<1>4. \E d \in Int : Tw = x + Q * d
  BY Congruent
<1>5. \E d \in Int : Tc = (-(x * u)) + Q * d
  BY <1>1, Congruent
<1>6. PICK d1 \in Int, d2 \in Int, d3 \in Int, d4 \in Int :
        /\ alpha = (G * A * x + u) + Q * d4 /\ y = (A * x * x + B * x) + Q * d3
        /\ Tw = x + Q * d1 /\ Tc = (-(x * u)) + Q * d2
  BY <1>2, <1>3, <1>4, <1>5
<1> DEFINE W == ((-1) * (G * B) - alpha) * Tw + (-1) * Tc + G * y
           d == ((-1) * (G * B) - alpha) * d1 - d2 + G * d3 - d4 * x
<1>7. W = Q * d
  BY <1>1, <1>6, VIdentity
<1>8. W \in Int /\ d \in Int
  BY <1>1
<1> HIDE DEF W, d
<1>9. \E m \in Int : W = 0 + Q * m
  BY <1>1, <1>7, <1>8
<1>10. F(W) = F(0)
  BY <1>1, <1>8, <1>9, Differ
<1> QED BY <1>10 DEF VAddsUp, W

-----------------------------------------------------------------------------
(* Loops of which each iteration is a step of a recursive function.        *)

\* A loop: a value of V to start from, and a step that makes another of it.
Loops(g, v0, G, n) == g = [k \in 0..n |-> IF k = 0 THEN v0 ELSE G[<<g[k - 1], k - 1>>]]

LEMMA LoopsExist ==
  ASSUME NEW V, NEW v0 \in V, NEW n \in Nat, NEW G \in [V \X (0..(n - 1)) -> V]
  PROVE  \E g \in [0..n -> V] : Loops(g, v0, G, n)
<1> DEFINE T == {m \in Nat : m <= n /\ ~ \E g \in [0..m -> V] : Loops(g, v0, G, m)}
<1> SUFFICES ASSUME T # {} PROVE FALSE
  BY n <= n
<1>1. PICK m \in T : \A y \in T : m <= y
  BY Least
<1>2. CASE m = 0
  <2> DEFINE g == [k \in 0..0 |-> v0]
  <2>1. g \in [0..0 -> V] /\ g = [k \in 0..0 |-> IF k = 0 THEN v0 ELSE G[<<g[k - 1], k - 1>>]]
    OBVIOUS
  <2> QED BY <1>1, <1>2, <2>1 DEF Loops
<1>3. CASE m # 0
  <2>1. m \in Nat \ {0} /\ m - 1 \in Nat /\ m - 1 <= n /\ m <= n /\ m - 1 \in 0..(n - 1)
    BY <1>1, <1>3
  <2>2. m - 1 \notin T
    BY <1>1, <2>1
  <2>3. PICK h \in [0..(m - 1) -> V] : Loops(h, v0, G, m - 1)
    BY <2>1, <2>2
  <2> DEFINE g == [k \in 0..m |-> IF k = m THEN G[<<h[m - 1], m - 1>>] ELSE h[k]]
  <2>4. g \in [0..m -> V]
    <3>1. G[<<h[m - 1], m - 1>>] \in V
      BY <2>1
    <3>2. \A k \in 0..m : k # m => k \in 0..(m - 1)
      BY <2>1
    <3> QED BY <3>1, <3>2
  <2>5. ASSUME NEW k \in 0..m PROVE g[k] = IF k = 0 THEN v0 ELSE G[<<g[k - 1], k - 1>>]
    <3>1. k # 0 => k - 1 \in 0..(m - 1) /\ k - 1 # m /\ g[k - 1] = h[k - 1]
      BY <2>1
    <3>2. CASE k = m
      BY <2>1, <3>1, <3>2
    <3>3. CASE k # m
      <4>1. k \in 0..(m - 1)
        BY <2>1, <3>3
      <4>2. h = [z \in 0..(m - 1) |-> IF z = 0 THEN v0 ELSE G[<<h[z - 1], z - 1>>]]
        BY <2>3 DEF Loops
      <4>3. h[k] = IF k = 0 THEN v0 ELSE G[<<h[k - 1], k - 1>>]
        <5> DEFINE body(z) == IF z = 0 THEN v0 ELSE G[<<h[z - 1], z - 1>>]
        <5>1. h = [z \in 0..(m - 1) |-> body(z)]
          BY <4>2
        <5> HIDE DEF body
        <5>2. h[k] = body(k)
          BY <4>1, <5>1
        <5> QED BY <5>2 DEF body
      <4>4. g[k] = h[k]
        BY <3>3
      <4> HIDE DEF g
      <4> QED BY <3>1, <4>3, <4>4
    <3> QED BY <3>2, <3>3
  <2>6. Loops(g, v0, G, m)
    BY <2>4, <2>5 DEF Loops
  <2> QED BY <1>1, <2>4, <2>6
<1> QED BY <1>2, <1>3
===============================================================================
