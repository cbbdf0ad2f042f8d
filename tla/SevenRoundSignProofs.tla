------------------------- MODULE SevenRoundSignProofs -------------------------
(***************************************************************************)
(* What is proved of the signatures in seven rounds on additive sharings   *)
(* for every build, key, seed, expansion, challenges and hidden parties.   *)
(***************************************************************************)
EXTENDS SevenRoundSign, PackingProofs

-----------------------------------------------------------------------------
(* The shares of an execution.                                             *)

\* The parts of the shares of an execution that are expanded from seeds, those of all
\* the parties but the last one, and their sums.
Terms(b, r, x, c) == [p \in 0..(b.parties - 2) |-> Expand(r, x, p)[c]]
SumTo(b, r, x, c, n) == RunningSum(Terms(b, r, x, c), b.parties - 1)[n]

\* The numbers of a build.
LEMMA BuildNumbers ==
  ASSUME NEW b \in Builds
  PROVE  /\ b.parties \in Nat /\ b.parties >= 4 /\ b.parties - 1 \in Nat
         /\ b.execs \in Nat /\ b.execs >= 1
         /\ b.log \in Nat
BY BuildsAssumption DEF WellFormed

LEMMA SharesExpanded ==
  ASSUME NEW b \in Builds, NEW r \in Roots, NEW x \in 0..(b.execs - 1),
         NEW p \in 0..(b.parties - 1)
  PROVE  /\ Expand(r, x, p) \in Share
         /\ \A c \in Parts : Expand(r, x, p)[c] \in Field /\ Expand(r, x, p)[c] \in Int
<1>1. Expand(r, x, p) \in Share
  BY SharesAssumption
<1>2. \A c \in Parts : Expand(r, x, p)[c] \in Field
  BY <1>1 DEF Share, Parts
<1> QED BY <1>1, <1>2, FieldElements

\* The sums of the parts of shares.
LEMMA PartialSums ==
  ASSUME NEW b \in Builds, NEW r \in Roots, NEW x \in 0..(b.execs - 1), NEW c \in Parts
  PROVE  /\ SumTo(b, r, x, c, 0) = 0
         /\ \A n \in 0..(b.parties - 1) : SumTo(b, r, x, c, n) \in Int
         /\ \A n \in 0..(b.parties - 2) :
              SumTo(b, r, x, c, n + 1) = SumTo(b, r, x, c, n) + Expand(r, x, n)[c]
<1> DEFINE f == Terms(b, r, x, c)
<1>1. b.parties - 1 \in Nat /\ b.parties - 1 - 1 = b.parties - 2 /\ b.parties \in Nat
  BY BuildNumbers
<1>2. \A p \in 0..(b.parties - 2) : f[p] = Expand(r, x, p)[c] /\ f[p] \in Int
  BY <1>1, SharesExpanded DEF Terms
<1>3. f \in [0..(b.parties - 2) -> Int]
  BY <1>2 DEF Terms
<1> HIDE DEF f
<1>4. /\ RunningSum(f, b.parties - 1) \in [0..(b.parties - 1) -> Int]
      /\ RunningSum(f, b.parties - 1)[0] = 0
      /\ \A k \in 0..(b.parties - 2) :
           RunningSum(f, b.parties - 1)[k + 1] = RunningSum(f, b.parties - 1)[k] + f[k]
  <2>1. PICK n \in Nat : n = b.parties - 1 /\ n - 1 = b.parties - 2
    BY <1>1
  <2>2. f \in [0..(n - 1) -> Int]
    BY <1>3, <2>1
  <2>3. /\ RunningSum(f, n) \in [0..n -> Int] /\ RunningSum(f, n)[0] = 0
        /\ \A k \in 0..(n - 1) : RunningSum(f, n)[k + 1] = RunningSum(f, n)[k] + f[k]
    BY <2>2, RunningSums
  <2> QED BY <2>1, <2>3
<1> QED BY <1>2, <1>4 DEF SumTo, f

\* The sum of the property is that one.
LEMMA SumsOfShares ==
  ASSUME build \in Builds, root \in Roots, NEW x \in Execs
  PROVE  /\ SumOfShares(x, WitOf) = SumTo(build, root, x, "wit", Last)
         /\ SumOfShares(x, HintOf) = SumTo(build, root, x, "corr", Last)
<1>1. Last \in Nat /\ Last - 1 = build.parties - 2 /\ build.parties \in Nat
  BY BuildNumbers DEF Last
<1>2. ASSUME NEW c \in Parts
      PROVE  /\ Terms(build, root, x, c) \in [0..(Last - 1) -> Int]
             /\ \A k \in 1..Last : Terms(build, root, x, c)[k - 1] = Expand(root, x, k - 1)[c]
  <2>1. \A p \in 0..(Last - 1) : Expand(root, x, p)[c] \in Int
    BY <1>1, SharesExpanded DEF Execs
  <2> QED BY <1>1, <2>1 DEF Terms
<1>3. ASSUME NEW c \in Parts, NEW s,
             s = [k \in 0..Last |-> IF k = 0 THEN 0 ELSE s[k - 1] + Expand(root, x, k - 1)[c]]
      PROVE  s[Last] = SumTo(build, root, x, c, Last)
  <2> DEFINE f == Terms(build, root, x, c)
  <2>1. s = [k \in 0..Last |-> IF k = 0 THEN 0 ELSE s[k - 1] + f[k - 1]]
    <3>1. \A k \in 0..Last : k # 0 => f[k - 1] = Expand(root, x, k - 1)[c]
      BY <1>1, <1>2
    <3> HIDE DEF f
    <3>2. [k \in 0..Last |-> IF k = 0 THEN 0 ELSE s[k - 1] + Expand(root, x, k - 1)[c]]
            = [k \in 0..Last |-> IF k = 0 THEN 0 ELSE s[k - 1] + f[k - 1]]
      BY <3>1
    <3> QED BY <1>3, <3>2
  <2>2. f \in [0..(Last - 1) -> Int]
    BY <1>2
  <2> HIDE DEF f
  <2>3. Adds(s, f, Last) /\ Adds(RunningSum(f, Last), f, Last)
    BY <1>1, <2>1, <2>2, RunningSums DEF Adds
  <2>4. s = RunningSum(f, Last)
    BY <1>1, <2>3, SumsUnique
  <2> QED BY <2>4 DEF SumTo, f, Last
<1>4. ASSUME NEW c \in Parts
      PROVE  \E s : s = [k \in 0..Last |->
                          IF k = 0 THEN 0 ELSE s[k - 1] + Expand(root, x, k - 1)[c]]
  <2> DEFINE f == Terms(build, root, x, c)
             g == RunningSum(f, Last)
  <2>1. f \in [0..(Last - 1) -> Int]
    BY <1>2
  <2>2. g = [k \in 0..Last |-> IF k = 0 THEN 0 ELSE g[k - 1] + f[k - 1]]
    BY <1>1, <2>1, RunningSums DEF Adds
  <2>3. \A k \in 0..Last : k # 0 => f[k - 1] = Expand(root, x, k - 1)[c]
    BY <1>1, <1>2
  <2> HIDE DEF f, g
  <2>4. g = [k \in 0..Last |-> IF k = 0 THEN 0 ELSE g[k - 1] + Expand(root, x, k - 1)[c]]
    BY <2>2, <2>3
  <2> QED BY <2>4
<1>5. SumOfShares(x, WitOf) = SumTo(build, root, x, "wit", Last)
  <2> DEFINE s == CHOOSE s : s = [k \in 0..Last |->
                    IF k = 0 THEN 0 ELSE s[k - 1] + Expand(root, x, k - 1).wit]
  <2>1. SumOfShares(x, WitOf) = s[Last]
    BY Zenon DEF SumOfShares, WitOf
  <2>2. \E y : y = [k \in 0..Last |->
                     IF k = 0 THEN 0 ELSE y[k - 1] + Expand(root, x, k - 1).wit]
    BY <1>4, "wit" \in Parts DEF Parts
  <2>3. s = [k \in 0..Last |-> IF k = 0 THEN 0 ELSE s[k - 1] + Expand(root, x, k - 1).wit]
    BY <2>2, Zenon
  <2> HIDE DEF s
  <2>4. s[Last] = SumTo(build, root, x, "wit", Last)
    BY <1>3, <2>3, "wit" \in Parts DEF Parts
  <2> QED BY <2>1, <2>4
<1>6. SumOfShares(x, HintOf) = SumTo(build, root, x, "corr", Last)
  <2> DEFINE s == CHOOSE s : s = [k \in 0..Last |->
                    IF k = 0 THEN 0 ELSE s[k - 1] + Expand(root, x, k - 1).corr]
  <2>1. SumOfShares(x, HintOf) = s[Last]
    BY Zenon DEF SumOfShares, HintOf
  <2>2. \E y : y = [k \in 0..Last |->
                     IF k = 0 THEN 0 ELSE y[k - 1] + Expand(root, x, k - 1).corr]
    BY <1>4, "corr" \in Parts DEF Parts
  <2>3. s = [k \in 0..Last |-> IF k = 0 THEN 0 ELSE s[k - 1] + Expand(root, x, k - 1).corr]
    BY <2>2, Zenon
  <2> HIDE DEF s
  <2>4. s[Last] = SumTo(build, root, x, "corr", Last)
    BY <1>3, <2>3, "corr" \in Parts DEF Parts
  <2> QED BY <2>1, <2>4
<1> QED BY <1>5, <1>6, <1>6

\* One more share in the accumulator.
LEMMA Accumulates ==
  ASSUME NEW b \in Builds, NEW r \in Roots, NEW x \in 0..(b.execs - 1),
         NEW n \in 0..(b.parties - 2), NEW s \in Share,
         \A c \in Parts : s[c] = F(SumTo(b, r, x, c, n))
  PROVE  /\ Plus(s, Expand(r, x, n)) \in Share
         /\ \A c \in Parts : Plus(s, Expand(r, x, n))[c] = F(SumTo(b, r, x, c, n + 1))
<1>1. n \in 0..(b.parties - 1) /\ Expand(r, x, n) \in Share
  BY BuildNumbers, SharesExpanded
<1>2. ASSUME NEW c \in Parts
      PROVE  Plus(s, Expand(r, x, n))[c] = F(SumTo(b, r, x, c, n + 1))
  <2>1. Plus(s, Expand(r, x, n))[c] = F(F(SumTo(b, r, x, c, n)) + Expand(r, x, n)[c])
    BY <1>1, SumOfTwo
  <2>2. SumTo(b, r, x, c, n) \in Int /\ Expand(r, x, n)[c] \in Int
    BY <1>1, PartialSums, SharesExpanded
  <2>3. SumTo(b, r, x, c, n + 1) = SumTo(b, r, x, c, n) + Expand(r, x, n)[c]
    BY PartialSums
  <2> QED BY <2>1, <2>2, <2>3, SumNormalises
<1> QED BY <1>1, <1>2, SumOfTwo

\* The shares of the parties of an execution, that of the last one being given by a.
SharesOf(b, r, x, a) ==
  [p \in 0..(b.parties - 1) |->
     IF p = b.parties - 1 THEN [wit |-> a.wit, unif |-> Expand(r, x, p).unif, corr |-> a.hint]
     ELSE Expand(r, x, p)]

\* What the last party is given.
Given == [wit : Field, hint : Field]

LEMMA SharesAreShares ==
  ASSUME NEW b \in Builds, NEW r \in Roots, NEW x \in 0..(b.execs - 1), NEW a \in Given
  PROVE  /\ SharesOf(b, r, x, a) \in [0..(b.parties - 1) -> Share]
         /\ \A p \in 0..(b.parties - 2) : SharesOf(b, r, x, a)[p] = Expand(r, x, p)
         /\ SharesOf(b, r, x, a)[b.parties - 1]
              = [wit |-> a.wit, unif |-> Expand(r, x, b.parties - 1).unif, corr |-> a.hint]
<1>1. b.parties \in Nat /\ b.parties >= 4
  BY BuildNumbers
<1>2. \A p \in 0..(b.parties - 1) : Expand(r, x, p) \in Share
  BY SharesExpanded
<1>3. \A p \in 0..(b.parties - 1) :
        [wit |-> a.wit, unif |-> Expand(r, x, p).unif, corr |-> a.hint] \in Share
  BY <1>2 DEF Given, Share
<1>4. SharesOf(b, r, x, a) \in [0..(b.parties - 1) -> Share]
  BY <1>2, <1>3 DEF SharesOf
<1>5. b.parties - 1 \in 0..(b.parties - 1)
  BY <1>1
<1>6. \A p \in 0..(b.parties - 2) : p \in 0..(b.parties - 1) /\ p # b.parties - 1
  BY <1>1
<1> QED BY <1>4, <1>5, <1>6 DEF SharesOf

\* The sums of the shares are those of the accumulator and of the last party.
LEMMA TotalOfShares ==
  ASSUME NEW b \in Builds, NEW r \in Roots, NEW x \in 0..(b.execs - 1), NEW a \in Given,
         NEW c \in Parts
  PROVE  /\ SumUpTo(PartOf(SharesOf(b, r, x, a), c), b.parties)
              = SumTo(b, r, x, c, b.parties - 1) + SharesOf(b, r, x, a)[b.parties - 1][c]
         /\ SharesOf(b, r, x, a)[b.parties - 1][c] \in Field
         /\ SumTo(b, r, x, c, b.parties - 1) \in Int
<1> DEFINE f == PartOf(SharesOf(b, r, x, a), c)
           N == b.parties
<1>1. N \in Nat /\ N >= 4 /\ N - 1 \in Nat /\ N - 1 \in 0..(N - 1) /\ N - 1 + 1 = N /\ N - 1 - 1 = N - 2
  BY BuildNumbers
<1>2. SharesOf(b, r, x, a) \in [0..(N - 1) -> Share]
  BY SharesAreShares
<1>3. \A p \in 0..(N - 1) : f[p] = SharesOf(b, r, x, a)[p][c] /\ f[p] \in Field /\ f[p] \in Int
  <2>1. \A p \in 0..(N - 1) : SharesOf(b, r, x, a)[p][c] \in Field
    BY <1>2 DEF Share, Parts
  <2>2. \A p \in 0..(N - 1) : f[p] = SharesOf(b, r, x, a)[p][c]
    BY <1>2 DEF PartOf
  <2> QED BY <2>1, <2>2, FieldElements
<1>4. \A p \in 0..(N - 2) : f[p] = Expand(r, x, p)[c]
  <2>1. \A p \in 0..(N - 2) : p \in 0..(N - 1)
    BY <1>1
  <2>2. \A p \in 0..(N - 2) : SharesOf(b, r, x, a)[p] = Expand(r, x, p)
    BY SharesAreShares
  <2> HIDE DEF f
  <2> QED BY <1>3, <2>1, <2>2
<1>5. [k \in 0..(N - 1 - 1) |-> f[k]] = Terms(b, r, x, c)
  BY <1>1, <1>4 DEF Terms
<1> HIDE DEF f
<1>6. SumUpTo(f, N - 1) = SumTo(b, r, x, c, N - 1)
  BY <1>5 DEF SumUpTo, SumTo
<1>7. SumUpTo(f, N - 1 + 1) = SumUpTo(f, N - 1) + f[N - 1]
  BY <1>1, <1>3, SumsUpTo
<1>8. SumTo(b, r, x, c, N - 1) \in Int
  BY <1>1, PartialSums
<1> QED BY <1>1, <1>3, <1>6, <1>7, <1>8 DEF f

\* The shares of which the packs of an execution are made so far.
Held(b, r, x, a, pk, n) == HoldPacks(b, SharesOf(b, r, x, a), pk, n)

LEMMA HeldAfterOne ==
  ASSUME NEW b \in Builds, NEW r \in Roots, NEW x \in 0..(b.execs - 1), NEW a \in Given,
         NEW pk, NEW n \in 0..(b.parties - 2), Held(b, r, x, a, pk, n)
  PROVE  Held(b, r, x, a, Packed(b, pk, n, Expand(r, x, n)), n + 1)
<1> DEFINE s == SharesOf(b, r, x, a)
<1>1. n \in 0..(b.parties - 1)
  BY BuildNumbers
<1>2. s[n] = Expand(r, x, n) /\ s \in [0..(b.parties - 1) -> Share]
  BY SharesAreShares
<1>3. WellFormed(b) /\ HoldPacks(b, s, pk, n)
  BY BuildsAssumption DEF Held
<1> HIDE DEF s
<1>4. HoldPacks(b, s, Packed(b, pk, n, s[n]), n + 1)
  BY <1>1, <1>2, <1>3, PacksOneMore
<1> QED BY <1>2, <1>4 DEF Held, s

\* The share of the last party is known when all the others are packed.
LEMMA HeldAfterLast ==
  ASSUME NEW b \in Builds, NEW r \in Roots, NEW x \in 0..(b.execs - 1), NEW a \in Given,
         NEW old, NEW pk, Held(b, r, x, old, pk, b.parties - 1)
  PROVE  Held(b, r, x, a,
           Packed(b, pk, b.parties - 1,
             [wit |-> a.wit, unif |-> Expand(r, x, b.parties - 1).unif, corr |-> a.hint]),
           b.parties)
<1> DEFINE s == SharesOf(b, r, x, a)
           t == SharesOf(b, r, x, old)
           n == b.parties - 1
           l == [wit |-> a.wit, unif |-> Expand(r, x, b.parties - 1).unif, corr |-> a.hint]
<1>1. n \in 0..(b.parties - 1) /\ n \in 0..b.parties /\ n + 1 = b.parties
  BY BuildNumbers
<1>2. s[n] = l /\ s \in [0..(b.parties - 1) -> Share]
  BY SharesAreShares
<1>3. WellFormed(b) /\ HoldPacks(b, t, pk, n)
  BY BuildsAssumption DEF Held
<1>4. \A p \in 0..(n - 1) : t[p] = s[p]
  <2>1. \A p \in 0..(n - 1) : p \in 0..(b.parties - 1) /\ p # b.parties - 1
    BY BuildNumbers
  <2> QED BY <2>1 DEF SharesOf
<1> HIDE DEF s, t, n, l
<1>5. HoldPacks(b, s, pk, n)
  BY <1>1, <1>3, <1>4, OtherShares
<1>6. HoldPacks(b, s, Packed(b, pk, n, s[n]), n + 1)
  BY <1>1, <1>2, <1>3, <1>5, PacksOneMore
<1> QED BY <1>1, <1>2, <1>6 DEF Held, s, n, l

\* Opening one more share, or skipping the hidden party.
Opening(b, h, pk, n, s) == IF n = h THEN pk ELSE OpenPacked(b, h, pk, n, s)
OpenOf(b, r, x, a, h, pk, n) == HoldOpen(b, h, SharesOf(b, r, x, a), pk, n)
IsShareOf(b, r, x, a, h, n, s) == n = h \/ s = SharesOf(b, r, x, a)[n]

LEMMA OpeningAdds ==
  ASSUME NEW b \in Builds, NEW r \in Roots, NEW x \in 0..(b.execs - 1), NEW a \in Given,
         NEW h \in 0..(b.parties - 1), NEW pk, NEW n \in 0..(b.parties - 1), NEW s,
         OpenOf(b, r, x, a, h, pk, n), IsShareOf(b, r, x, a, h, n, s)
  PROVE  OpenOf(b, r, x, a, h, Opening(b, h, pk, n, s), n + 1)
<1> DEFINE shares == SharesOf(b, r, x, a)
<1>1. shares \in [0..(b.parties - 1) -> Share] /\ WellFormed(b)
  BY SharesAreShares, BuildsAssumption
<1>2. HoldOpen(b, h, shares, pk, n) /\ (n = h \/ s = shares[n])
  BY DEF OpenOf, IsShareOf
<1> HIDE DEF shares
<1>3. CASE n = h
  <2>1. HoldOpen(b, h, shares, pk, h + 1)
    BY <1>1, <1>2, <1>3, HiddenAddsNothing
  <2> QED BY <1>3, <2>1 DEF OpenOf, Opening, shares
<1>4. CASE n # h
  <2>1. HoldOpen(b, h, shares, OpenPacked(b, h, pk, n, shares[n]), n + 1)
    BY <1>1, <1>2, <1>4, OpensOneMore
  <2> QED BY <1>2, <1>4, <2>1 DEF OpenOf, Opening, shares
<1> QED BY <1>3, <1>4

\* A broadcast of the protocol is affine in the share.
SevenRounds(G, r, A, B, y, alpha) ==
  [aw |-> G * A, au |-> r, vw |-> (-1) * (G * B) - alpha, vc |-> r, cst |-> G * y]

\* What a key is for, what the parties broadcast, and the plain broadcast.
KeyInstance(k) == Instance(k.A, k.b, k.x)
BroadcastBy(k, G, r, s, alpha, off) ==
  LET I == KeyInstance(k)
      z == G * ((IF off THEN I.y ELSE 0) - I.b * s.wit)
  IN  [alpha |-> F(G * I.A * s.wit + r * s.unif), v |-> F(r * s.corr + z - alpha * s.wit)]
PlainAlpha(k, G, r, u) == F(G * KeyInstance(k).A * k.x + r * u)

LEMMA BroadcastsByKey ==
  /\ inst = KeyInstance(key)
  /\ \A G, r, s, alpha, off : HintBroadcast(G, r, s, alpha, off) = BroadcastBy(key, G, r, s, alpha, off)
  /\ \A G, r, u : HintAlpha(G, r, [wit |-> key.x, unif |-> u]) = PlainAlpha(key, G, r, u)
<1>1. inst = KeyInstance(key)
  BY DEF inst, KeyInstance
<1>2. \A G, r, s, alpha, off : HintBroadcast(G, r, s, alpha, off) = BroadcastBy(key, G, r, s, alpha, off)
  BY <1>1 DEF HintBroadcast, HintAlpha, BroadcastBy
<1>3. \A G, r, u : HintAlpha(G, r, [wit |-> key.x, unif |-> u]) = PlainAlpha(key, G, r, u)
  BY <1>1 DEF HintAlpha, PlainAlpha
<1> QED BY <1>1, <1>2, <1>3

LEMMA HintAffineSums ==
  ASSUME NEW G \in Int, NEW A \in Int, NEW B \in Int, NEW y \in Int, NEW alpha \in Int,
         NEW r \in Int, NEW w \in Int, NEW u \in Int, NEW c \in Int
  PROVE  /\ G * A * w + r * u = (G * A) * w + r * u
         /\ r * c + G * (y - B * w) - alpha * w = ((-1) * (G * B) - alpha) * w + r * c + G * y
         /\ r * c + G * (0 - B * w) - alpha * w = ((-1) * (G * B) - alpha) * w + r * c + 0
BY SMT

\* A key solves its equation, and the shares of an execution add up to the solution and
\* to the hint for it: what is broadcast together is the plain broadcast.
HintOpens(alpha, G, A, x, r, u) == F(alpha) = F(G * A * x + r * u)
HintAlphaAddsUp(alpha, G, A, r, w, u) == F((G * A) * w + r * u) = F(alpha)
HintVAddsUp(alpha, G, A, B, r, y, w, c) ==
  F(((-1) * (G * B) - alpha) * w + r * c + G * y) = F(0)

LEMMA KeyInField ==
  ASSUME NEW k \in Keys
  PROVE  /\ k.A \in Field /\ k.b \in Field /\ k.x \in Field
         /\ k.A \in Int /\ k.b \in Int /\ k.x \in Int /\ F(k.x) = k.x
         /\ KeyInstance(k).A = k.A /\ KeyInstance(k).b = k.b /\ KeyInstance(k).y \in Int
         /\ Solves(k.x, k.A, k.b, KeyInstance(k).y)
<1>1. k.A \in Field /\ k.b \in Field /\ k.x \in Field
  BY SharesAssumption
<1>2. k.A \in Int /\ k.b \in Int /\ k.x \in Int /\ F(k.x) = k.x
  BY <1>1, FieldElements
<1> DEFINE v == k.A * k.x * k.x + k.b * k.x
<1>3. v \in Int
  BY <1>2
<1> HIDE DEF v
<1>4. F(v) \in Field /\ F(v) \in Int /\ F(F(v)) = F(v)
  BY <1>3, NormalForm
<1>5. KeyInstance(k) = [A |-> k.A, b |-> k.b, y |-> F(v)]
  BY DEF KeyInstance, Instance, v
<1> QED BY <1>1, <1>2, <1>4, <1>5 DEF Solves, v

LEMMA PlainAlphaIs ==
  ASSUME NEW k \in Keys, NEW G \in Field, NEW r \in Field, NEW u \in Field
  PROVE  /\ PlainAlpha(k, G, r, u) \in Field /\ PlainAlpha(k, G, r, u) \in Int
         /\ HintOpens(PlainAlpha(k, G, r, u), G, k.A, k.x, r, u)
<1> DEFINE v == G * k.A * k.x + r * u
<1>1. G \in Int /\ r \in Int /\ u \in Int
  BY FieldElements
<1>2. v \in Int
  BY <1>1, KeyInField
<1>3. PlainAlpha(k, G, r, u) = F(v)
  BY KeyInField DEF PlainAlpha
<1> HIDE DEF v
<1>4. F(v) \in Field /\ F(v) \in Int /\ F(F(v)) = F(v)
  BY <1>2, NormalForm
<1> QED BY <1>3, <1>4 DEF HintOpens, v

LEMMA HintBroadcastIsAffine ==
  ASSUME NEW k \in Keys, NEW G \in Field, NEW r \in Field, NEW s \in Share, NEW alpha \in Field,
         NEW off \in BOOLEAN
  PROVE  /\ SevenRounds(G, r, k.A, k.b, KeyInstance(k).y, alpha) \in Coefficients
         /\ BroadcastBy(k, G, r, s, alpha, off)
              = Affine(SevenRounds(G, r, k.A, k.b, KeyInstance(k).y, alpha), s, off)
<1> DEFINE y == KeyInstance(k).y
           c == SevenRounds(G, r, k.A, k.b, y, alpha)
<1>1. s.wit \in Field /\ s.unif \in Field /\ s.corr \in Field
  BY DEF Share
<1>2. /\ G \in Int /\ r \in Int /\ s.wit \in Int /\ s.unif \in Int /\ s.corr \in Int
      /\ k.A \in Int /\ k.b \in Int /\ y \in Int /\ alpha \in Int
  BY <1>1, KeyInField, FieldElements
<1> HIDE DEF y
<1>3. c \in Coefficients
  <2>1. G * k.A \in Int /\ (-1) * (G * k.b) - alpha \in Int /\ G * y \in Int
    BY <1>2
  <2> QED BY <1>2, <2>1 DEF SevenRounds, Coefficients
<1>4. /\ r * s.corr + G * (y - k.b * s.wit) - alpha * s.wit
           = ((-1) * (G * k.b) - alpha) * s.wit + r * s.corr + G * y
      /\ r * s.corr + G * (0 - k.b * s.wit) - alpha * s.wit
           = ((-1) * (G * k.b) - alpha) * s.wit + r * s.corr + 0
  BY <1>2, HintAffineSums
<1>5. /\ c.aw = G * k.A /\ c.au = r /\ c.vw = (-1) * (G * k.b) - alpha /\ c.vc = r
      /\ c.cst = G * y
  BY DEF SevenRounds
<1>6. BroadcastBy(k, G, r, s, alpha, off)
        = [alpha |-> F(G * k.A * s.wit + r * s.unif),
           v     |-> F(r * s.corr + G * ((IF off THEN y ELSE 0) - k.b * s.wit) - alpha * s.wit)]
  BY KeyInField DEF BroadcastBy, y
<1>7. Affine(c, s, off)
        = [alpha |-> F(G * k.A * s.wit + r * s.unif),
           v     |-> F(((-1) * (G * k.b) - alpha) * s.wit + r * s.corr
                         + (IF off THEN G * y ELSE 0))]
  BY <1>5 DEF Affine
<1>8. BroadcastBy(k, G, r, s, alpha, off) = Affine(c, s, off)
  <2>1. CASE off
    BY <1>4, <1>6, <1>7, <2>1
  <2>2. CASE ~off
    BY <1>4, <1>6, <1>7, <2>2
  <2> QED BY <2>1, <2>2
<1> QED BY <1>3, <1>8 DEF y

LEMMA HintAlphaTotal ==
  ASSUME NEW G \in Int, NEW A \in Int, NEW x \in Int, NEW r \in Int, NEW u \in Int,
         NEW alpha \in Int, NEW Tw \in Int, NEW Tu \in Int,
         F(Tw) = F(x), F(Tu) = F(u), HintOpens(alpha, G, A, x, r, u)
  PROVE  HintAlphaAddsUp(alpha, G, A, r, Tw, Tu)
<1> DEFINE GA == G * A
<1>1. GA \in Int
  OBVIOUS
<1> HIDE DEF GA
<1>2. F(Scaled(GA, Tw)) = F(Scaled(GA, x)) /\ F(Scaled(r, Tu)) = F(Scaled(r, u))
  BY <1>1, MultiplesCongruent
<1>3. /\ Scaled(GA, Tw) = GA * Tw /\ Scaled(GA, x) = GA * x
      /\ Scaled(r, Tu) = r * Tu /\ Scaled(r, u) = r * u
      /\ GA * Tw \in Int /\ GA * x \in Int /\ r * Tu \in Int /\ r * u \in Int
  BY <1>1 DEF Scaled
<1>4. F(GA * Tw + r * Tu) = F(GA * x + r * u)
  <2> DEFINE m == GA * Tw
             n == GA * x
             o == r * Tu
             p == r * u
  <2>1. m \in Int /\ n \in Int /\ o \in Int /\ p \in Int /\ F(m) = F(n) /\ F(o) = F(p)
    BY <1>2, <1>3
  <2> HIDE DEF m, n, o, p
  <2>2. F(m + o) = F(n + p)
    BY <2>1, SumsCongruent
  <2> QED BY <2>2 DEF m, n, o, p
<1>5. F(alpha) = F(GA * x + r * u)
  BY DEF HintOpens, GA
<1> QED BY <1>4, <1>5 DEF HintAlphaAddsUp, GA

\* The identity behind it.
LEMMA HintVIdentity ==
  ASSUME NEW G \in Int, NEW A \in Int, NEW B \in Int, NEW x \in Int, NEW r \in Int, NEW u \in Int,
         NEW d1 \in Int, NEW d2 \in Int, NEW d3 \in Int, NEW d4 \in Int, NEW q \in Int,
         NEW alpha \in Int, NEW y \in Int, NEW Tw \in Int, NEW Tc \in Int,
         alpha = (G * A * x + r * u) + q * d4, y = (A * x * x + B * x) + q * d3,
         Tw = x + q * d1, Tc = (u * x) + q * d2
  PROVE  ((-1) * (G * B) - alpha) * Tw + r * Tc + G * y
           = q * (((-1) * (G * B) - alpha) * d1 + r * d2 + G * d3 - d4 * x)
<1> DEFINE V == (-1) * (G * B) - alpha
           ru == r * u
<1>1. V \in Int /\ ru \in Int
  OBVIOUS
<1>2. V * x + ru * x + G * (A * x * x + B * x) = -(q * (d4 * x))
  <2>1. V * x = (-1) * (G * B * x) - (G * A * x * x + ru * x + q * d4 * x)
    <3> HIDE DEF ru
    <3>1. V = (-1) * (G * B) - ((G * A * x + ru) + q * d4)
      BY DEF ru
    <3> HIDE DEF V
    <3> QED BY <1>1, <3>1, SMT
  <2>2. G * (A * x * x + B * x) = G * A * x * x + G * B * x
    BY SMT
  <2> HIDE DEF V, ru
  <2> QED BY <1>1, <2>1, <2>2, SMT
<1> HIDE DEF V
<1>3. V * Tw = V * x + q * (V * d1)
  BY <1>1, SMT
<1>4. G * y = G * (A * x * x + B * x) + q * (G * d3)
  BY SMT
<1>5. r * Tc = ru * x + q * (r * d2)
  BY SMT
<1> HIDE DEF ru
<1>6. V * Tw + r * Tc + G * y = q * (V * d1) + q * (r * d2) + q * (G * d3) - q * (d4 * x)
  <2> DEFINE p == G * (A * x * x + B * x)
             m == ru * x
             n == V * x
             e1 == q * (V * d1)
             e2 == q * (r * d2)
             e3 == q * (G * d3)
             e4 == q * (d4 * x)
  <2>1. /\ p \in Int /\ m \in Int /\ n \in Int /\ e1 \in Int /\ e2 \in Int /\ e3 \in Int
        /\ e4 \in Int
    BY <1>1
  <2>2. /\ n + m + p = -e4 /\ V * Tw = n + e1 /\ G * y = p + e3 /\ r * Tc = m + e2
    BY <1>2, <1>3, <1>4, <1>5
  <2> HIDE DEF p, m, n, e1, e2, e3, e4
  <2>3. (n + e1) + (m + e2) + (p + e3) = e1 + e2 + e3 - e4
    BY <2>1, <2>2
  <2>4. V * Tw + r * Tc + G * y = e1 + e2 + e3 - e4
    BY <2>2, <2>3
  <2> QED BY <2>4 DEF e1, e2, e3, e4
<1>7. q * (V * d1) + q * (r * d2) + q * (G * d3) - q * (d4 * x)
        = q * (V * d1 + r * d2 + G * d3 - d4 * x)
  <2> DEFINE a == V * d1
             b == r * d2
             c == G * d3
             d == d4 * x
  <2>1. a \in Int /\ b \in Int /\ c \in Int /\ d \in Int
    BY <1>1
  <2> HIDE DEF a, b, c, d
  <2>2. q * a + q * b + q * c - q * d = q * (a + b + c - d)
    BY <2>1, SMT
  <2> QED BY <2>2 DEF a, b, c, d
<1> QED BY <1>6, <1>7 DEF V

LEMMA HintVTotal ==
  ASSUME NEW G \in Int, NEW A \in Int, NEW B \in Int, NEW x \in Int, NEW r \in Int, NEW u \in Int,
         NEW alpha \in Int, NEW y \in Int, NEW Tw \in Int, NEW Tc \in Int,
         F(Tw) = F(x), F(Tc) = F(u * x), HintOpens(alpha, G, A, x, r, u), Solves(x, A, B, y)
  PROVE  HintVAddsUp(alpha, G, A, B, r, y, Tw, Tc)
<1>1. /\ G * A * x + r * u \in Int /\ A * x * x + B * x \in Int /\ u * x \in Int
      /\ ((-1) * (G * B) - alpha) \in Int /\ Q \in Int /\ 0 \in Int
  BY FieldAssumption
<1>2. \E d \in Int : alpha = (G * A * x + r * u) + Q * d
  BY <1>1, Congruent DEF HintOpens
<1>3. \E d \in Int : y = (A * x * x + B * x) + Q * d
  BY <1>1, Congruent DEF Solves
<1>4. \E d \in Int : Tw = x + Q * d
  BY Congruent
<1>5. \E d \in Int : Tc = (u * x) + Q * d
  BY <1>1, Congruent
<1>6. PICK d1 \in Int, d2 \in Int, d3 \in Int, d4 \in Int :
        /\ alpha = (G * A * x + r * u) + Q * d4 /\ y = (A * x * x + B * x) + Q * d3
        /\ Tw = x + Q * d1 /\ Tc = (u * x) + Q * d2
  BY <1>2, <1>3, <1>4, <1>5
<1> DEFINE W == ((-1) * (G * B) - alpha) * Tw + r * Tc + G * y
           d == ((-1) * (G * B) - alpha) * d1 + r * d2 + G * d3 - d4 * x
<1>7. W = Q * d
  BY <1>1, <1>6, HintVIdentity
<1>8. W \in Int /\ d \in Int
  BY <1>1
<1> HIDE DEF W, d
<1>9. \E m \in Int : W = 0 + Q * m
  BY <1>1, <1>7, <1>8
<1>10. F(W) = F(0)
  BY <1>1, <1>8, <1>9, Differ
<1> QED BY <1>10 DEF HintVAddsUp, W

\* What is known of an execution once the last party has its hint.
Complete(b, r, x, k, a, u) ==
  /\ F(SumTo(b, r, x, "wit", b.parties - 1) + a.wit) = k.x
  /\ F(SumTo(b, r, x, "unif", b.parties - 1) + Expand(r, x, b.parties - 1).unif) = u
  /\ F(SumTo(b, r, x, "corr", b.parties - 1) + a.hint) = F(k.x * u)

LEMMA PlainIsTotal ==
  ASSUME NEW b \in Builds, NEW r \in Roots, NEW x \in 0..(b.execs - 1), NEW k \in Keys,
         NEW a \in Given, NEW u \in Field, Complete(b, r, x, k, a, u),
         NEW G \in Field, NEW t \in Field
  PROVE  TotalIs(SevenRounds(G, t, k.A, k.b, KeyInstance(k).y, PlainAlpha(k, G, t, u)),
                 b, SharesOf(b, r, x, a), PlainAlpha(k, G, t, u))
<1> DEFINE shares == SharesOf(b, r, x, a)
           T(c) == SumUpTo(PartOf(shares, c), b.parties)
           alpha == PlainAlpha(k, G, t, u)
           y == KeyInstance(k).y
           kk == SevenRounds(G, t, k.A, k.b, y, alpha)
           Tw == T("wit")
           Tu == T("unif")
           Tc == T("corr")
<1>1. /\ shares[b.parties - 1].wit = a.wit /\ shares[b.parties - 1].corr = a.hint
      /\ shares[b.parties - 1].unif = Expand(r, x, b.parties - 1).unif
  <2>1. shares[b.parties - 1]
          = [wit |-> a.wit, unif |-> Expand(r, x, b.parties - 1).unif, corr |-> a.hint]
    BY SharesAreShares
  <2> QED BY <2>1
<1>2. "wit" \in Parts /\ "unif" \in Parts /\ "corr" \in Parts
  BY DEF Parts
<1>3. /\ Tw = SumTo(b, r, x, "wit", b.parties - 1) + a.wit
      /\ Tu = SumTo(b, r, x, "unif", b.parties - 1) + Expand(r, x, b.parties - 1).unif
      /\ Tc = SumTo(b, r, x, "corr", b.parties - 1) + a.hint
  BY <1>1, <1>2, TotalOfShares
<1>4. Tw \in Int /\ Tu \in Int /\ Tc \in Int
  BY <1>2, SharesAreShares, TotalsAreNumbers, BuildsAssumption
<1>5. F(Tw) = k.x /\ F(Tu) = u /\ F(Tc) = F(k.x * u)
  BY <1>3 DEF Complete
<1>6. /\ alpha \in Field /\ alpha \in Int /\ F(alpha) = alpha
      /\ G \in Int /\ t \in Int /\ HintOpens(alpha, G, k.A, k.x, t, u)
  BY PlainAlphaIs, FieldElements
<1>7. /\ k.A \in Int /\ k.b \in Int /\ k.x \in Int /\ F(k.x) = k.x /\ Solves(k.x, k.A, k.b, y)
      /\ y \in Int /\ u \in Int /\ F(u) = u /\ k.x * u = u * k.x
  BY KeyInField, FieldElements
<1>8. /\ kk.aw = G * k.A /\ kk.au = t /\ kk.vw = (-1) * (G * k.b) - alpha /\ kk.vc = t
      /\ kk.cst = G * y
  BY DEF SevenRounds
<1> HIDE DEF Tw, Tu, Tc, alpha, y, kk
<1>9. HintAlphaAddsUp(alpha, G, k.A, t, Tw, Tu)
  BY <1>4, <1>5, <1>6, <1>7, HintAlphaTotal
<1>10. HintVAddsUp(alpha, G, k.A, k.b, t, y, Tw, Tc)
  BY <1>4, <1>5, <1>6, <1>7, HintVTotal
<1>11. /\ F(kk.aw * Tw + kk.au * Tu) = alpha
       /\ F(kk.vw * Tw + kk.vc * Tc + kk.cst) = 0
  BY <1>6, <1>8, <1>9, <1>10, ZeroIsShare DEF HintAlphaAddsUp, HintVAddsUp
<1> QED BY <1>11 DEF TotalIs, kk, alpha, Tw, Tu, Tc, y

\* What the verifier of a genuine signature deduces from the shares it opens is what the
\* signer has broadcast.
Deduced(b, k, G, t, alpha, h, opened) ==
  Recomposed(b, h,
    [p \in Packs(b) |-> BroadcastBy(k, G, t, opened[p], alpha, HasOffset(b, h, p))],
    PlainBroadcast(alpha))
BroadcastOf(b, k, G, t, alpha, pk) ==
  [p \in Packs(b) |-> BroadcastBy(k, G, t, pk[p], alpha, FALSE)]

\* A complete execution, and what the verifier holds of it.
Verifiable(b, r, x, k, a, u, G, t, h, pk, opened, alpha) ==
  /\ b \in Builds /\ r \in Roots /\ x \in 0..(b.execs - 1) /\ k \in Keys /\ a \in Given
  /\ u \in Field /\ Complete(b, r, x, k, a, u)
  /\ G \in Field /\ t \in Field /\ h \in 0..(b.parties - 1)
  /\ Held(b, r, x, a, pk, b.parties) /\ OpenOf(b, r, x, a, h, opened, b.parties)
  /\ alpha = PlainAlpha(k, G, t, u)

LEMMA SameBroadcast ==
  ASSUME NEW b, NEW r, NEW x, NEW k, NEW a, NEW u, NEW G, NEW t, NEW h, NEW pk, NEW opened,
         NEW alpha, Verifiable(b, r, x, k, a, u, G, t, h, pk, opened, alpha)
  PROVE  Deduced(b, k, G, t, alpha, h, opened) = BroadcastOf(b, k, G, t, alpha, pk)
<1> USE DEF Verifiable, Held, OpenOf
<1> DEFINE shares == SharesOf(b, r, x, a)
           kk == SevenRounds(G, t, k.A, k.b, KeyInstance(k).y, alpha)
<1>1. Execution(b, shares, h, pk, opened)
  BY SharesAreShares, BuildsAssumption DEF Execution
<1>2. TotalIs(kk, b, shares, alpha)
  BY PlainIsTotal
<1>3. alpha \in Field
  BY PlainAlphaIs
<1>4. ASSUME NEW s \in Share, NEW off \in BOOLEAN
      PROVE  kk \in Coefficients /\ BroadcastBy(k, G, t, s, alpha, off) = Affine(kk, s, off)
  BY <1>3, HintBroadcastIsAffine
<1>5. kk \in Coefficients
  BY <1>4, ZeroIsShare
<1> HIDE DEF kk, shares
<1>6. Recomposed(b, h, VerifiersBroadcast(kk, b, h, opened), PlainBroadcast(alpha))
        = SignersBroadcast(kk, b, pk)
  BY <1>1, <1>2, <1>3, <1>5, RecomposedIsSigners
<1>7. \A p \in Packs(b) : pk[p] \in Share /\ opened[p] \in Share
  BY DEF HoldPacks, HoldOpen
<1>8. \A p \in Packs(b) : HasOffset(b, h, p) \in BOOLEAN
  <2>1. b.kind \in {"traditional", "hypercube", "threshold", "lifting"}
    BY BuildsAssumption DEF WellFormed
  <2> QED BY <2>1 DEF HasOffset
<1>9. VerifiersBroadcast(kk, b, h, opened)
        = [p \in Packs(b) |->
             BroadcastBy(k, G, t, opened[p], alpha, HasOffset(b, h, p))]
  BY <1>4, <1>7, <1>8 DEF VerifiersBroadcast
<1>10. SignersBroadcast(kk, b, pk)
         = [p \in Packs(b) |-> BroadcastBy(k, G, t, pk[p], alpha, FALSE)]
  BY <1>4, <1>7 DEF SignersBroadcast
<1> QED BY <1>6, <1>9, <1>10 DEF Deduced, BroadcastOf

-----------------------------------------------------------------------------
(* The loops over the parties of an execution.                             *)

\* One more share in packs.
LEMMA PacksAreShares ==
  ASSUME NEW b \in Builds, NEW pk \in [Packs(b) -> Share], NEW s \in Share,
         NEW n \in 0..(b.parties - 1), NEW h \in 0..(b.parties - 1)
  PROVE  /\ Packed(b, pk, n, s) \in [Packs(b) -> Share]
         /\ n # h => OpenPacked(b, h, pk, n, s) \in [Packs(b) -> Share]
<1>1. WellFormed(b)
  BY BuildsAssumption
<1>2. ASSUME NEW p \in Packs(b), NEW k \in Int
      PROVE  Plus(pk[p], Times(k, s)) \in Share
  BY Scales, SumOfTwo
<1>3. \A p \in Packs(b) : /\ Weight(b, p, n) \in Int
                          /\ n # h => OpenWeight(b, h, p, n) \in Int
  BY <1>1, WeightsAreNumbers
<1>4. \A p \in Packs(b) : Plus(pk[p], Times(Weight(b, p, n), s)) \in Share
  BY <1>2, <1>3
<1>5. n # h => \A p \in Packs(b) : Plus(pk[p], Times(OpenWeight(b, h, p, n), s)) \in Share
  BY <1>2, <1>3
<1> QED BY <1>4, <1>5 DEF Packed, OpenPacked

\* The loop of the signer over the parties but the last one, one execution at a time.
Adding(b, r, x, v, n) ==
  [sum |-> Plus(v.sum, Expand(r, x, n)), packs |-> Packed(b, v.packs, n, Expand(r, x, n))]
AddsShares(b, r, x, v0, g) ==
  g = [p \in 0..(b.parties - 1) |-> IF p = 0 THEN v0 ELSE Adding(b, r, x, g[p - 1], p - 1)]

LEMMA AddsSharesExists ==
  ASSUME NEW b \in Builds, NEW r \in Roots, NEW x \in 0..(b.execs - 1),
         NEW v0 \in [sum : Share, packs : [Packs(b) -> Share]]
  PROVE  \E g : AddsShares(b, r, x, v0, g)
<1> DEFINE V == [sum : Share, packs : [Packs(b) -> Share]]
           n == b.parties - 1
           G == [w \in V \X (0..(n - 1)) |-> Adding(b, r, x, w[1], w[2])]
<1>1. n \in Nat /\ \A k \in 0..(n - 1) : k \in 0..(b.parties - 1)
  BY BuildNumbers
<1>2. ASSUME NEW v \in V, NEW k \in 0..(n - 1) PROVE Adding(b, r, x, v, k) \in V
  <2>1. Expand(r, x, k) \in Share
    BY <1>1, SharesExpanded
  <2>2. v.sum \in Share /\ v.packs \in [Packs(b) -> Share]
    OBVIOUS
  <2>3. Plus(v.sum, Expand(r, x, k)) \in Share
    BY <2>1, <2>2, SumOfTwo
  <2>4. Packed(b, v.packs, k, Expand(r, x, k)) \in [Packs(b) -> Share]
    BY <1>1, <2>1, <2>2, PacksAreShares
  <2> QED BY <2>3, <2>4 DEF Adding
<1> HIDE DEF V, n
<1>3. G \in [V \X (0..(n - 1)) -> V]
  BY <1>2
<1>4. \A v \in V, k \in 0..(n - 1) : G[<<v, k>>] = Adding(b, r, x, v, k)
  OBVIOUS
<1> HIDE DEF G
<1>5. PICK g \in [0..n -> V] : Loops(g, v0, G, n)
  BY <1>1, <1>3, v0 \in V, LoopsExist DEF V
<1>6. g = [p \in 0..n |-> IF p = 0 THEN v0 ELSE G[<<g[p - 1], p - 1>>]]
  BY <1>5 DEF Loops
<1>7. \A p \in 0..n : p # 0 => G[<<g[p - 1], p - 1>>] = Adding(b, r, x, g[p - 1], p - 1)
  <2>1. \A p \in 0..n : p # 0 => p - 1 \in 0..(n - 1) /\ p - 1 \in 0..n
    BY <1>1
  <2> QED BY <1>4, <2>1
<1>8. [p \in 0..n |-> IF p = 0 THEN v0 ELSE G[<<g[p - 1], p - 1>>]]
        = [p \in 0..n |-> IF p = 0 THEN v0 ELSE Adding(b, r, x, g[p - 1], p - 1)]
  BY <1>7
<1>9. g = [p \in 0..n |-> IF p = 0 THEN v0 ELSE Adding(b, r, x, g[p - 1], p - 1)]
  BY <1>6, <1>8
<1> QED BY <1>9 DEF AddsShares, n

LEMMA AddsSharesHolds ==
  ASSUME NEW b \in Builds, NEW r \in Roots, NEW x \in 0..(b.execs - 1), NEW a \in Given, NEW g,
         AddsShares(b, r, x, [sum |-> ZeroShare, packs |-> NoPacks(b)], g)
  PROVE  /\ g[b.parties - 1].sum \in Share
         /\ \A c \in Parts : g[b.parties - 1].sum[c] = F(SumTo(b, r, x, c, b.parties - 1))
         /\ Held(b, r, x, a, g[b.parties - 1].packs, b.parties - 1)
<1> DEFINE n == b.parties - 1
           v0 == [sum |-> ZeroShare, packs |-> NoPacks(b)]
           P(m) == /\ g[m].sum \in Share
                   /\ \A c \in Parts : g[m].sum[c] = F(SumTo(b, r, x, c, m))
                   /\ Held(b, r, x, a, g[m].packs, m)
           T == {m \in 0..n : ~P(m)}
<1>1. n \in Nat /\ n - 1 = b.parties - 2
  BY BuildNumbers
<1>2. g[0] = v0
  <2>1. 0 \in 0..n
    BY <1>1
  <2> QED BY <2>1 DEF AddsShares
<1>3. ASSUME NEW k \in 0..(n - 1) PROVE g[k + 1] = Adding(b, r, x, g[k], k)
  <2>1. k + 1 \in 0..(b.parties - 1) /\ k + 1 # 0 /\ k + 1 - 1 = k
    BY <1>1
  <2> DEFINE body(p) == IF p = 0 THEN v0 ELSE Adding(b, r, x, g[p - 1], p - 1)
  <2>2. g = [p \in 0..(b.parties - 1) |-> body(p)]
    BY DEF AddsShares
  <2> HIDE DEF body
  <2>3. g[k + 1] = body(k + 1)
    BY <2>1, <2>2
  <2> QED BY <2>1, <2>3 DEF body
<1>4. P(0)
  <2>1. g[0].sum = ZeroShare /\ g[0].packs = NoPacks(b)
    BY <1>2
  <2>2. \A c \in Parts : ZeroShare[c] = 0 /\ SumTo(b, r, x, c, 0) = 0
    BY PartialSums DEF ZeroShare, Parts
  <2>3. Held(b, r, x, a, NoPacks(b), 0)
    BY NothingPacked DEF Held
  <2> QED BY <2>1, <2>2, <2>3, ZeroIsShare
<1>5. ASSUME NEW k \in 0..(n - 1), P(k) PROVE P(k + 1)
  <2>1. /\ g[k + 1].sum = Plus(g[k].sum, Expand(r, x, k))
        /\ g[k + 1].packs = Packed(b, g[k].packs, k, Expand(r, x, k))
    <3>1. g[k + 1] = Adding(b, r, x, g[k], k)
      BY <1>3
    <3>2. \A v : /\ Adding(b, r, x, v, k).sum = Plus(v.sum, Expand(r, x, k))
                /\ Adding(b, r, x, v, k).packs = Packed(b, v.packs, k, Expand(r, x, k))
      BY DEF Adding
    <3> QED BY <3>1, <3>2
  <2>2. k \in 0..(b.parties - 2)
    BY <1>1
  <2>3. /\ Plus(g[k].sum, Expand(r, x, k)) \in Share
        /\ \A c \in Parts : Plus(g[k].sum, Expand(r, x, k))[c] = F(SumTo(b, r, x, c, k + 1))
    BY <1>5, <2>2, Accumulates
  <2>4. Held(b, r, x, a, Packed(b, g[k].packs, k, Expand(r, x, k)), k + 1)
    BY <1>5, <2>2, HeldAfterOne
  <2> QED BY <2>1, <2>3, <2>4
<1> HIDE DEF P
<1>6. T = {}
  <2> SUFFICES ASSUME T # {} PROVE FALSE
    OBVIOUS
  <2>1. PICK m \in T : \A y \in T : m <= y
    <3>1. T \subseteq Nat
      BY <1>1
    <3> QED BY <3>1, Least
  <2>2. m \in 0..n /\ ~P(m) /\ m # 0
    BY <1>4, <2>1
  <2>3. m - 1 \in 0..(n - 1) /\ m - 1 \in 0..n /\ m - 1 + 1 = m /\ ~(m <= m - 1)
    BY <1>1, <2>2
  <2>4. P(m - 1)
    BY <2>1, <2>3
  <2> QED BY <1>5, <2>2, <2>3, <2>4
<1>7. P(n)
  <2>1. n \in 0..n
    BY <1>1
  <2> QED BY <1>6, <2>1
<1> QED BY <1>7 DEF P

LEMMA AccumulatedShares ==
  ASSUME build \in Builds, root \in Roots, NEW x \in Execs, NEW a \in Given
  PROVE  /\ Accumulated(x, NoPacks(build)).sum \in Share
         /\ \A c \in Parts : Accumulated(x, NoPacks(build)).sum[c] = F(SumTo(build, root, x, c, Last))
         /\ Held(build, root, x, a, Accumulated(x, NoPacks(build)).packs, Last)
<1> DEFINE v0 == [sum |-> ZeroShare, packs |-> NoPacks(build)]
           g == CHOOSE g : g = [p \in 0..Last |->
                  IF p = 0 THEN [sum |-> AccReset, packs |-> NoPacks(build)]
                  ELSE [sum |-> Plus(g[p - 1].sum, Expand(root, x, p - 1)),
                        packs |-> Pack(g[p - 1].packs, p - 1, Expand(root, x, p - 1))]]
<1>1. x \in 0..(build.execs - 1)
  BY DEF Execs
<1>2. v0 \in [sum : Share, packs : [Packs(build) -> Share]]
  BY ZeroIsShare DEF NoPacks
<1>3. \E y : AddsShares(build, root, x, v0, y)
  <2> HIDE DEF v0
  <2> QED BY <1>1, <1>2, AddsSharesExists
<1>4. \A y : AddsShares(build, root, x, v0, y) <=>
         y = [p \in 0..Last |->
                  IF p = 0 THEN [sum |-> AccReset, packs |-> NoPacks(build)]
                  ELSE [sum |-> Plus(y[p - 1].sum, Expand(root, x, p - 1)),
                        packs |-> Pack(y[p - 1].packs, p - 1, Expand(root, x, p - 1))]]
  BY Zenon DEF AddsShares, Adding, Last, AccReset, Pack
<1>5. AddsShares(build, root, x, v0, g)
  <2>1. \E y : y = [p \in 0..Last |->
                  IF p = 0 THEN [sum |-> AccReset, packs |-> NoPacks(build)]
                  ELSE [sum |-> Plus(y[p - 1].sum, Expand(root, x, p - 1)),
                        packs |-> Pack(y[p - 1].packs, p - 1, Expand(root, x, p - 1))]]
    BY <1>3, <1>4, Zenon
  <2>2. g = [p \in 0..Last |->
                  IF p = 0 THEN [sum |-> AccReset, packs |-> NoPacks(build)]
                  ELSE [sum |-> Plus(g[p - 1].sum, Expand(root, x, p - 1)),
                        packs |-> Pack(g[p - 1].packs, p - 1, Expand(root, x, p - 1))]]
    BY <2>1, Zenon
  <2> HIDE DEF g
  <2> QED BY <1>4, <2>2, Zenon
<1>6. Accumulated(x, NoPacks(build)) = g[Last]
  BY Zenon DEF Accumulated
<1> HIDE DEF g
<1> QED BY <1>1, <1>5, <1>6, AddsSharesHolds DEF Last

\* The loop of the verifier over the open parties, whose shares are the signer's.
OpensShares(b, h, shares, g) ==
  g = [p \in 0..b.parties |->
         IF p = 0 THEN NoPacks(b)
         ELSE IF p - 1 = h THEN g[p - 1] ELSE OpenPacked(b, h, g[p - 1], p - 1, shares[p - 1])]

LEMMA OpensSharesExists ==
  ASSUME NEW b \in Builds, NEW h \in 0..(b.parties - 1), NEW shares,
         \A p \in 0..(b.parties - 1) : p # h => shares[p] \in Share
  PROVE  \E g : OpensShares(b, h, shares, g)
<1> DEFINE V == [Packs(b) -> Share]
           n == b.parties
           step(v, k) == IF k = h THEN v ELSE OpenPacked(b, h, v, k, shares[k])
           G == [w \in V \X (0..(n - 1)) |-> step(w[1], w[2])]
<1>1. n \in Nat
  BY BuildNumbers
<1>2. ASSUME NEW v \in V, NEW k \in 0..(n - 1) PROVE step(v, k) \in V
  <2>1. CASE k = h
    BY <2>1
  <2>2. CASE k # h
    BY <2>2, PacksAreShares
  <2> QED BY <2>1, <2>2
<1>3. NoPacks(b) \in V
  BY ZeroIsShare DEF NoPacks
<1> HIDE DEF V, n, step
<1>4. G \in [V \X (0..(n - 1)) -> V]
  BY <1>2
<1>5. \A v \in V, k \in 0..(n - 1) : G[<<v, k>>] = step(v, k)
  OBVIOUS
<1> HIDE DEF G
<1>6. PICK g \in [0..n -> V] : Loops(g, NoPacks(b), G, n)
  BY <1>1, <1>3, <1>4, LoopsExist
<1>7. g = [p \in 0..n |-> IF p = 0 THEN NoPacks(b) ELSE G[<<g[p - 1], p - 1>>]]
  BY <1>6 DEF Loops
<1>8. \A p \in 0..n : p # 0 => G[<<g[p - 1], p - 1>>] = step(g[p - 1], p - 1)
  <2>1. \A p \in 0..n : p # 0 => p - 1 \in 0..(n - 1) /\ p - 1 \in 0..n
    BY <1>1
  <2> QED BY <1>5, <2>1
<1>9. [p \in 0..n |-> IF p = 0 THEN NoPacks(b) ELSE G[<<g[p - 1], p - 1>>]]
        = [p \in 0..n |-> IF p = 0 THEN NoPacks(b) ELSE step(g[p - 1], p - 1)]
  BY <1>8
<1>10. g = [p \in 0..n |-> IF p = 0 THEN NoPacks(b) ELSE step(g[p - 1], p - 1)]
  BY <1>7, <1>9
<1> QED BY <1>10, Zenon DEF OpensShares, n, step

LEMMA OpensSharesHolds ==
  ASSUME NEW b \in Builds, NEW r \in Roots, NEW x \in 0..(b.execs - 1), NEW a \in Given,
         NEW h \in 0..(b.parties - 1), NEW shares,
         \A p \in 0..(b.parties - 1) : p # h => shares[p] = SharesOf(b, r, x, a)[p],
         NEW g, OpensShares(b, h, shares, g)
  PROVE  OpenOf(b, r, x, a, h, g[b.parties], b.parties)
<1> DEFINE n == b.parties
           P(m) == OpenOf(b, r, x, a, h, g[m], m)
           T == {m \in 0..n : ~P(m)}
<1>1. n \in Nat
  BY BuildNumbers
<1>2. g[0] = NoPacks(b)
  <2>1. 0 \in 0..n
    BY <1>1
  <2> QED BY <2>1 DEF OpensShares
<1>3. ASSUME NEW k \in 0..(n - 1) PROVE g[k + 1] = Opening(b, h, g[k], k, shares[k])
  <2>1. k + 1 \in 0..b.parties /\ k + 1 # 0 /\ k + 1 - 1 = k
    BY <1>1
  <2> DEFINE body(p) == IF p = 0 THEN NoPacks(b)
                        ELSE IF p - 1 = h THEN g[p - 1]
                        ELSE OpenPacked(b, h, g[p - 1], p - 1, shares[p - 1])
  <2>2. g = [p \in 0..b.parties |-> body(p)]
    BY DEF OpensShares
  <2> HIDE DEF body
  <2>3. g[k + 1] = body(k + 1)
    BY <2>1, <2>2
  <2> QED BY <2>1, <2>3 DEF body, Opening
<1>4. P(0)
  BY <1>2, NothingPacked DEF OpenOf
<1>5. ASSUME NEW k \in 0..(n - 1), P(k) PROVE P(k + 1)
  <2>1. IsShareOf(b, r, x, a, h, k, shares[k])
    BY DEF IsShareOf
  <2>2. OpenOf(b, r, x, a, h, Opening(b, h, g[k], k, shares[k]), k + 1)
    BY <1>5, <2>1, OpeningAdds
  <2> QED BY <1>3, <2>2
<1> HIDE DEF P
<1>6. T = {}
  <2> SUFFICES ASSUME T # {} PROVE FALSE
    OBVIOUS
  <2>1. PICK m \in T : \A y \in T : m <= y
    <3>1. T \subseteq Nat
      BY <1>1
    <3> QED BY <3>1, Least
  <2>2. m \in 0..n /\ ~P(m) /\ m # 0
    BY <1>4, <2>1
  <2>3. m - 1 \in 0..(n - 1) /\ m - 1 \in 0..n /\ m - 1 + 1 = m /\ ~(m <= m - 1)
    BY <1>1, <2>2
  <2>4. P(m - 1)
    BY <2>1, <2>3
  <2> QED BY <1>5, <2>2, <2>3, <2>4
<1>7. P(n)
  <2>1. n \in 0..n
    BY <1>1
  <2> QED BY <1>6, <2>1
<1> QED BY <1>7 DEF P

LEMMA OpenPacksHold ==
  ASSUME build \in Builds, root \in Roots, NEW x \in Execs, NEW a \in Given, NEW h \in Parties,
         \A p \in Parties : p # h => OpenShare(x, p) = SharesOf(build, root, x, a)[p]
  PROVE  OpenOf(build, root, x, a, h, OpenPacks(x, h), build.parties)
<1> DEFINE shares == [p \in Parties |-> OpenShare(x, p)]
           g == CHOOSE g : g = [p \in 0..build.parties |->
                  IF p = 0 THEN NoPacks(build)
                  ELSE IF p - 1 = h THEN g[p - 1]
                  ELSE Repack(g[p - 1], h, p - 1, OpenShare(x, p - 1))]
<1>1. /\ x \in 0..(build.execs - 1) /\ h \in 0..(build.parties - 1)
      /\ \A p \in 0..build.parties : p # 0 => p - 1 \in Parties
  BY BuildNumbers DEF Execs, Parties
<1>2. \A p \in 0..(build.parties - 1) :
        p # h => shares[p] = SharesOf(build, root, x, a)[p] /\ shares[p] \in Share
  <2>1. SharesOf(build, root, x, a) \in [0..(build.parties - 1) -> Share]
    BY <1>1, SharesAreShares
  <2> QED BY <2>1 DEF Parties
<1>3. \A p \in 0..build.parties : p # 0 => shares[p - 1] = OpenShare(x, p - 1)
  BY <1>1
<1> HIDE DEF shares
<1>4. \E y : OpensShares(build, h, shares, y)
  BY <1>1, <1>2, OpensSharesExists
<1>5. \A y : [p \in 0..build.parties |->
                  IF p = 0 THEN NoPacks(build)
                  ELSE IF p - 1 = h THEN y[p - 1]
                  ELSE OpenPacked(build, h, y[p - 1], p - 1, shares[p - 1])]
              = [p \in 0..build.parties |->
                  IF p = 0 THEN NoPacks(build)
                  ELSE IF p - 1 = h THEN y[p - 1]
                  ELSE Repack(y[p - 1], h, p - 1, OpenShare(x, p - 1))]
  BY <1>3 DEF Repack
<1>6. \A y : OpensShares(build, h, shares, y) <=>
         y = [p \in 0..build.parties |->
                  IF p = 0 THEN NoPacks(build)
                  ELSE IF p - 1 = h THEN y[p - 1]
                  ELSE Repack(y[p - 1], h, p - 1, OpenShare(x, p - 1))]
  BY <1>5, Zenon DEF OpensShares
<1>7. OpensShares(build, h, shares, g)
  <2>1. \E y : y = [p \in 0..build.parties |->
                  IF p = 0 THEN NoPacks(build)
                  ELSE IF p - 1 = h THEN y[p - 1]
                  ELSE Repack(y[p - 1], h, p - 1, OpenShare(x, p - 1))]
    BY <1>4, <1>6, Zenon
  <2>2. g = [p \in 0..build.parties |->
                  IF p = 0 THEN NoPacks(build)
                  ELSE IF p - 1 = h THEN g[p - 1]
                  ELSE Repack(g[p - 1], h, p - 1, OpenShare(x, p - 1))]
    BY <2>1, Zenon
  <2> HIDE DEF g
  <2> QED BY <1>6, <2>2, Zenon
<1>8. OpenPacks(x, h) = g[build.parties]
  BY Zenon DEF OpenPacks
<1> HIDE DEF g
<1> QED BY <1>1, <1>2, <1>7, <1>8, OpensSharesHolds

-----------------------------------------------------------------------------
(* The length of a signature.                                              *)

LEMMA PathIsShort ==
  ASSUME build \in Builds, NEW h
  PROVE  PathSize(h) \in 0..build.log
<1>1. /\ WellFormed(build) /\ build.log \in Nat /\ build.parties >= 4 /\ build.parties \in Nat
      /\ build.parties <= 2^build.log /\ 2^0 = 1
  BY BuildsAssumption DEF WellFormed, Buildable
<1>2. build.log # 0
  <2> SUFFICES ASSUME build.log = 0 PROVE FALSE
    OBVIOUS
  <2>1. 2^build.log = 1
    BY <1>1
  <2> QED BY <1>1, <2>1
<1> QED BY <1>1, <1>2 DEF PathSize

\* What the proof of an execution takes besides the digest and the broadcast.
Opened(h) == PathSize(h) * Size.seed + IF AuxSent(h) THEN Size.wit + Size.hint ELSE Size.digest

LEMMA OpenedIsShort ==
  ASSUME build \in Builds, NEW h
  PROVE  /\ Opened(h) \in Int
         /\ Opened(h) <= Size.wit + Size.hint + build.log * Size.seed + Size.digest
         /\ PathSize(h) * Size.seed \in Int
<1>1. /\ Size.wit \in Nat /\ Size.hint \in Nat /\ Size.seed \in Nat /\ Size.digest \in Nat
      /\ build.log \in Nat
  BY SizeAssumption, BuildNumbers
<1>2. PICK n \in 0..build.log : n = PathSize(h)
  BY PathIsShort
<1>3. PICK d \in Nat : build.log = n + d
  BY <1>1, <1>2, build.log - n \in Nat
<1>4. /\ build.log * Size.seed = n * Size.seed + d * Size.seed
      /\ n * Size.seed \in Nat /\ d * Size.seed \in Nat
  BY <1>1, <1>2, <1>3
<1> QED BY <1>1, <1>2, <1>4 DEF Opened

\* The sum of terms that are greater by a constant.
LEMMA ConstantAdded ==
  ASSUME NEW n \in Nat, NEW c \in Int, NEW f \in [0..(n - 1) -> Int], NEW g \in [0..(n - 1) -> Int],
         \A k \in 0..(n - 1) : g[k] = f[k] + c
  PROVE  /\ RunningSum(g, n)[n] = RunningSum(f, n)[n] + n * c
         /\ RunningSum(f, n)[n] \in Int /\ n * c \in Int
<1> DEFINE a == RunningSum(f, n)
           b == RunningSum(g, n)
           T == {m \in 0..n : b[m] # a[m] + m * c}
<1>1. /\ a \in [0..n -> Int] /\ a[0] = 0 /\ \A k \in 0..(n - 1) : a[k + 1] = a[k] + f[k]
      /\ b \in [0..n -> Int] /\ b[0] = 0 /\ \A k \in 0..(n - 1) : b[k + 1] = b[k] + g[k]
  BY RunningSums
<1> HIDE DEF a, b
<1>2. T = {}
  <2> SUFFICES ASSUME T # {} PROVE FALSE
    OBVIOUS
  <2>1. PICK m \in T : \A y \in T : m <= y
    <3>1. T \subseteq Nat
      OBVIOUS
    <3> QED BY <3>1, Least
  <2>2. m \in 0..n /\ b[m] # a[m] + m * c
    BY <2>1
  <2>3. m # 0
    BY <1>1, <2>2
  <2>4. PICK k \in 0..(n - 1) : m = k + 1
    BY <2>2, <2>3, m - 1 \in 0..(n - 1)
  <2>5. k \in 0..n /\ k \notin T
    BY <2>1, <2>4
  <2>6. b[k] = a[k] + k * c /\ b[k + 1] = b[k] + g[k] /\ a[k + 1] = a[k] + f[k]
        /\ g[k] = f[k] + c
    BY <1>1, <2>5
  <2>7. (k + 1) * c = k * c + c /\ k * c \in Int
    OBVIOUS
  <2>8. a[k] \in Int /\ f[k] \in Int
    BY <1>1, <2>5
  <2> QED BY <2>2, <2>4, <2>6, <2>7, <2>8, SMTT(30)
<1>3. n \in 0..n /\ n * c \in Int
  OBVIOUS
<1> QED BY <1>1, <1>2, <1>3 DEF a, b

\* The signature built is as long as the parser requires, and fits in the buffer.
LEMMA LengthsAgree ==
  ASSUME build \in Builds, NEW h \in [Execs -> Parties]
  PROVE  /\ LengthBuilt(h) = LengthRequired(h) /\ LengthBuilt(h) \in Int
         /\ LengthBuilt(h) <= MaxLength
<1> DEFINE f == [x \in Execs |-> PathSize(h[x]) * Size.seed
                    + IF AuxSent(h[x]) THEN Size.wit + Size.hint ELSE Size.digest]
           g == [x \in Execs |-> PathSize(h[x]) * Size.seed + Size.digest + Size.br
                    + IF AuxSent(h[x]) THEN Size.wit + Size.hint ELSE Size.digest]
           c == Size.br + Size.digest
           B == Size.wit + Size.hint + Size.br + build.log * Size.seed + 2 * Size.digest
           n == build.execs
<1>1. n \in Nat
  BY BuildNumbers
<1>2. /\ Size.wit \in Nat /\ Size.hint \in Nat /\ Size.br \in Nat /\ Size.salt \in Nat
      /\ Size.seed \in Nat /\ Size.digest \in Nat /\ build.log \in Nat
      /\ build.log * Size.seed \in Nat
  BY SizeAssumption, BuildNumbers
<1>3. c \in Int /\ B \in Int /\ n * c \in Int /\ n * B \in Int
  BY <1>1, <1>2
<1>4. ASSUME NEW x \in Execs
      PROVE  f[x] \in Int /\ g[x] = f[x] + c /\ g[x] \in Int /\ g[x] <= B
  <2>1. Opened(h[x]) = f[x] /\ PathSize(h[x]) * Size.seed \in Int
    BY OpenedIsShort DEF Opened
  <2>2. f[x] \in Int /\ f[x] <= Size.wit + Size.hint + build.log * Size.seed + Size.digest
    BY <2>1, OpenedIsShort
  <2>3. g[x] = f[x] + c
    BY <1>2, <2>1
  <2> HIDE DEF f, g
  <2> QED BY <1>2, <2>2, <2>3
<1>5. /\ LengthBuilt(h) = 3 * Size.digest + Size.salt + n * c + SumOver(f)
      /\ LengthRequired(h) = 3 * Size.digest + Size.salt + SumOver(g)
      /\ MaxLength = 4 + 3 * Size.digest + Size.salt + n * B
  BY DEF LengthBuilt, LengthRequired, MaxLength
<1>6. f \in [0..(n - 1) -> Int] /\ g \in [0..(n - 1) -> Int]
      /\ \A k \in 0..(n - 1) : g[k] = f[k] + c /\ g[k] <= B
  BY <1>4 DEF Execs
<1> HIDE DEF f, g, c, B
<1>7. SumOver(f) = RunningSum(f, n)[n] /\ SumOver(g) = RunningSum(g, n)[n]
  BY Zenon DEF SumOver, RunningSum
<1>8. RunningSum(g, n)[n] = RunningSum(f, n)[n] + n * c /\ RunningSum(f, n)[n] \in Int
  <2> HIDE DEF n
  <2> QED BY <1>1, <1>3, <1>6, ConstantAdded
<1>9. RunningSum(g, n)[n] <= n * B
  BY <1>1, <1>3, <1>6, SumBound
<1> QED BY <1>2, <1>3, <1>5, <1>7, <1>8, <1>9

-----------------------------------------------------------------------------
(* The inductive invariant of the signer.                                  *)

Signing   == {"share", "first", "hint", "second", "simulate", "views", "build"}
Verifying == {"parse", "expand", "recompute", "compare"}

\* The executions that are shared, and those whose last party has its hint.
Shared == {x \in Execs : pc = "share" => x < e}
Hinted == {x \in Execs : pc \notin {"share", "first"} /\ (pc = "hint" => x < e)}

\* What is committed to.
CommitOf(b, x, p, wit) ==
  [exec |-> x, party |-> p, seed |-> Seed(x, p), wit |-> IF p = b.parties - 1 THEN wit ELSE 0,
   salt |-> "salt"]
HintCommit(b, x, hint) == [exec |-> x, party |-> b.parties, hint |-> hint, salt |-> "salt"]

\* An execution that is shared, before and after the hint of its last party.
HalfShared(b, r, x, k, a, u, pk, cm) ==
  /\ F(SumTo(b, r, x, "wit", b.parties - 1) + a.wit) = k.x
  /\ F(SumTo(b, r, x, "unif", b.parties - 1) + Expand(r, x, b.parties - 1).unif) = u
  /\ a.hint = F(SumTo(b, r, x, "corr", b.parties - 1))
  /\ Held(b, r, x, a, pk, b.parties - 1)
  /\ cm = [p \in 0..(b.parties - 1) |-> CommitOf(b, x, p, a.wit)]
WhollyShared(b, r, x, k, a, u, pk, cm, hc) ==
  /\ Complete(b, r, x, k, a, u)
  /\ Held(b, r, x, a, pk, b.parties)
  /\ cm = [p \in 0..(b.parties - 1) |-> CommitOf(b, x, p, a.wit)]
  /\ hc = HintCommit(b, x, a.hint)

\* HintsAddUp is not inductive: between two challenges the place of the hint holds the
\* sum of the other hints, and the packs are those of all the parties but the last one.
ShareInv ==
  /\ build \in Builds /\ key \in Keys /\ root \in Roots
  /\ aux \in [Execs -> Given] /\ unif \in [Execs -> Field]
  /\ packs \in [Execs -> [Packs(build) -> Share]]
  /\ coms = [x \in Execs |-> coms[x]] /\ hintComs = [x \in Execs |-> hintComs[x]]
  /\ pc \in {"share", "hint", "recompute"} => e \in Execs
  /\ pc \notin {"share", "hint", "recompute"} => e = 0
  /\ \A x \in Execs \ Shared : packs[x] = NoPacks(build)
  /\ \A x \in Shared \ Hinted :
       HalfShared(build, root, x, key, aux[x], unif[x], packs[x], coms[x])
  /\ \A x \in Hinted :
       WhollyShared(build, root, x, key, aux[x], unif[x], packs[x], coms[x], hintComs[x])

LEMMA Commits ==
  /\ \A x, p, w : CommitSeed(x, p, Seed(x, p), w, "salt") = CommitOf(build, x, p, w)
  /\ \A x, h : CommitHint(x, h, "salt") = HintCommit(build, x, h)
BY DEF CommitSeed, CommitHint, CommitOf, HintCommit, Last

LEMMA InitShares == Init => ShareInv
<1> SUFFICES ASSUME Init PROVE ShareInv
  OBVIOUS
<1>1. /\ build \in Builds /\ key \in Keys /\ root \in Roots /\ pc = "share" /\ e = 0
      /\ packs = [x \in Execs |-> NoPacks(build)] /\ unif = [x \in Execs |-> 0]
      /\ aux = [x \in Execs |-> [wit |-> 0, hint |-> 0]]
      /\ coms = [x \in Execs |-> NoDigest] /\ hintComs = [x \in Execs |-> NoDigest]
  BY DEF Init
<1>2. e \in Execs /\ Shared = {} /\ Hinted = {}
  <2>1. build.execs \in Nat /\ build.execs >= 1
    BY <1>1, BuildNumbers
  <2> QED BY <1>1, <2>1 DEF Execs, Shared, Hinted
<1>3. NoPacks(build) \in [Packs(build) -> Share]
  BY ZeroIsShare DEF NoPacks
<1>4. [wit |-> 0, hint |-> 0] \in Given
  BY ZeroIsShare DEF Given
<1>5. coms = [x \in Execs |-> coms[x]] /\ hintComs = [x \in Execs |-> hintComs[x]]
  BY <1>1
<1> QED BY <1>1, <1>2, <1>3, <1>4, <1>5, ZeroIsShare DEF ShareInv

-----------------------------------------------------------------------------
(* The steps of the signer.                                                *)

\* The place of an execution in a function on the executions.
Updated(d, c, x, v) == d = [c EXCEPT ![x] = v]
OnExecs(c, S) == c = [x \in S |-> c[x]]

LEMMA UpdatedPlace ==
  ASSUME NEW S, NEW c, OnExecs(c, S), NEW x \in S, NEW v, NEW d, Updated(d, c, x, v)
  PROVE  /\ OnExecs(d, S) /\ d[x] = v /\ \A z \in S : z # x => d[z] = c[z]
         /\ \A T : v \in T /\ c \in [S -> T] => d \in [S -> T]
<1> USE DEF Updated, OnExecs
<1>1. d = [z \in S |-> IF z = x THEN v ELSE c[z]]
  OBVIOUS
<1>2. d[x] = v /\ \A z \in S : z # x => d[z] = c[z]
  BY <1>1
<1>3. d = [z \in S |-> d[z]]
  BY <1>1
<1>4. ASSUME NEW T, v \in T, c \in [S -> T] PROVE d \in [S -> T]
  BY <1>1, <1>4
<1> QED BY <1>2, <1>3, <1>4

LEMMA ShareKept ==
  ASSUME ShareInv, UNCHANGED <<fixed, packs, unif, aux, coms, hintComs>>,
         Shared' = Shared, Hinted' = Hinted,
         pc' \in {"share", "hint", "recompute"} => e' \in Execs,
         pc' \notin {"share", "hint", "recompute"} => e' = 0
  PROVE  ShareInv'
<1> USE DEF fixed
<1>1. Execs' = Execs
  BY DEF Execs
<1> QED BY <1>1 DEF ShareInv

\* The shares of an execution are those of its seeds.
LEMMA ShareSecretStep ==
  ASSUME ShareInv, ShareSecret
  PROVE  ShareInv'
<1> DEFINE shared == Accumulated(e, packs[e])
           a == [wit |-> F(key.x - shared.sum.wit), hint |-> shared.sum.corr]
           u == F(Expand(root, e, Last).unif + shared.sum.unif)
           cm == [p \in Parties |-> CommitSeed(e, p, Seed(e, p), aux'[e].wit, "salt")]
<1>1. /\ pc = "share" /\ UNCHANGED <<build, key, root, hintComs>>
      /\ Updated(packs', packs, e, shared.packs) /\ Updated(unif', unif, e, u)
      /\ Updated(aux', aux, e, a) /\ Updated(coms', coms, e, cm)
      /\ NextExec("first")
  BY DEF ShareSecret, fixed, Updated
<1>2. /\ build \in Builds /\ key \in Keys /\ root \in Roots /\ e \in Execs
      /\ packs[e] = NoPacks(build) /\ Hinted = {}
      /\ \A x \in Execs : x \in Shared <=> x < e
  BY <1>1 DEF ShareInv, Shared, Hinted, Execs
<1>3. /\ e \in 0..(build.execs - 1) /\ build.execs \in Nat /\ Last \in 0..(build.parties - 1)
      /\ Last = build.parties - 1
  BY <1>2, BuildNumbers DEF Execs, Last
<1>4. shared = Accumulated(e, NoPacks(build))
  BY <1>2
<1> HIDE DEF shared
<1>5. /\ shared.sum \in Share
      /\ \A c \in Parts : shared.sum[c] = F(SumTo(build, root, e, c, Last))
  <2>1. [wit |-> 0, hint |-> 0] \in Given
    BY ZeroIsShare DEF Given
  <2> QED BY <1>2, <1>4, <2>1, AccumulatedShares
<1>6. \A c \in Parts : SumTo(build, root, e, c, Last) \in Int
  <2>1. Last \in 0..(build.parties - 1)
    BY <1>3
  <2> QED BY <1>2, <1>3, <2>1, PartialSums
<1>7. "wit" \in Parts /\ "unif" \in Parts /\ "corr" \in Parts
  BY DEF Parts
<1>8. /\ shared.sum.wit = F(SumTo(build, root, e, "wit", Last))
      /\ shared.sum.unif = F(SumTo(build, root, e, "unif", Last))
      /\ shared.sum.corr = F(SumTo(build, root, e, "corr", Last))
      /\ shared.sum.wit \in Int /\ shared.sum.corr \in Field
  BY <1>5, <1>7, FieldElements DEF Share
<1>9. a \in Given
  <2>1. F(key.x - shared.sum.wit) \in Field
    BY <1>2, <1>8, KeyInField, NormalForm
  <2> QED BY <1>8, <2>1 DEF Given
<1>10. /\ F(SumTo(build, root, e, "wit", Last) + a.wit) = key.x
       /\ a.hint = F(SumTo(build, root, e, "corr", Last))
  BY <1>2, <1>6, <1>7, <1>8, KeyInField, DifferenceNormalises
<1>11. /\ F(SumTo(build, root, e, "unif", Last) + Expand(root, e, Last).unif) = u
       /\ u \in Field
  <2> DEFINE s == SumTo(build, root, e, "unif", Last)
             x == Expand(root, e, Last).unif
  <2>1. s \in Int /\ x \in Int
    BY <1>2, <1>3, <1>6, <1>7, SharesExpanded
  <2>2. u = F(x + F(s))
    BY <1>8
  <2> HIDE DEF s, x, u
  <2>3. F(F(s) + x) = F(s + x) /\ F(s) \in Int /\ F(s) + x = x + F(s) /\ F(s + x) \in Field
    BY <2>1, SumNormalises, NormalForm
  <2> QED BY <2>2, <2>3 DEF s, x
<1>12. Held(build, root, e, a, shared.packs, Last)
  <2> HIDE DEF a
  <2> QED BY <1>2, <1>4, <1>9, AccumulatedShares
<1>13. aux'[e] = a /\ OnExecs(aux, Execs) /\ OnExecs(unif, Execs) /\ OnExecs(packs, Execs)
       /\ OnExecs(coms, Execs)
  <2>1. OnExecs(aux, Execs) /\ OnExecs(unif, Execs) /\ OnExecs(packs, Execs) /\ OnExecs(coms, Execs)
    BY DEF ShareInv, OnExecs
  <2> HIDE DEF a
  <2> QED BY <1>1, <1>2, <2>1, UpdatedPlace
<1>14. cm = [p \in 0..(build.parties - 1) |-> CommitOf(build, e, p, a.wit)]
  BY <1>13, Commits DEF Parties
<1>15. HalfShared(build, root, e, key, a, u, shared.packs, cm)
  <2> HIDE DEF a, u, cm
  <2> QED BY <1>3, <1>10, <1>11, <1>12, <1>14 DEF HalfShared
<1> HIDE DEF a, u, cm
<1>16. /\ aux' \in [Execs -> Given] /\ unif' \in [Execs -> Field]
       /\ packs' \in [Execs -> [Packs(build) -> Share]] /\ OnExecs(coms', Execs)
       /\ aux'[e] = a /\ unif'[e] = u /\ packs'[e] = shared.packs /\ coms'[e] = cm
       /\ \A x \in Execs : x # e => /\ aux'[x] = aux[x] /\ unif'[x] = unif[x]
                                    /\ packs'[x] = packs[x] /\ coms'[x] = coms[x]
  <2>1. shared.packs \in [Packs(build) -> Share]
    BY <1>12 DEF Held, HoldPacks
  <2>2. /\ aux \in [Execs -> Given] /\ unif \in [Execs -> Field]
        /\ packs \in [Execs -> [Packs(build) -> Share]]
    BY DEF ShareInv
  <2>3. aux' \in [Execs -> Given] /\ aux'[e] = a /\ \A x \in Execs : x # e => aux'[x] = aux[x]
    BY <1>1, <1>2, <1>9, <1>13, <2>2, UpdatedPlace
  <2>4. unif' \in [Execs -> Field] /\ unif'[e] = u /\ \A x \in Execs : x # e => unif'[x] = unif[x]
    BY <1>1, <1>2, <1>11, <1>13, <2>2, UpdatedPlace
  <2>5. /\ packs' \in [Execs -> [Packs(build) -> Share]] /\ packs'[e] = shared.packs
        /\ \A x \in Execs : x # e => packs'[x] = packs[x]
    <3> DEFINE T == [Packs(build) -> Share]
    <3>1. shared.packs \in T /\ packs \in [Execs -> T]
      BY <2>1, <2>2
    <3> HIDE DEF T
    <3>2. packs' \in [Execs -> T] /\ packs'[e] = shared.packs
          /\ \A x \in Execs : x # e => packs'[x] = packs[x]
      BY <1>1, <1>2, <1>13, <3>1, UpdatedPlace
    <3> QED BY <3>2 DEF T
  <2>6. OnExecs(coms', Execs) /\ coms'[e] = cm /\ \A x \in Execs : x # e => coms'[x] = coms[x]
    BY <1>1, <1>2, <1>13, UpdatedPlace
  <2> QED BY <2>3, <2>4, <2>5, <2>6
<1>17. Execs' = Execs /\ build' = build /\ key' = key /\ root' = root /\ hintComs' = hintComs
  BY <1>1 DEF Execs
<1>18. /\ Hinted' = {} /\ Shared' = {x \in Execs : x <= e}
       /\ pc' \in {"share", "first"}
       /\ pc' = "share" => e' \in Execs
       /\ pc' = "first" => e' = 0
  <2>1. CASE e + 1 \in Execs
    <3>1. pc' = "share" /\ e' = e + 1
      BY <1>1, <2>1 DEF NextExec
    <3>2. \A x \in Execs : x < e + 1 <=> x <= e
      BY <1>3 DEF Execs
    <3> QED BY <1>17, <2>1, <3>1, <3>2 DEF Shared, Hinted
  <2>2. CASE e + 1 \notin Execs
    <3>1. pc' = "first" /\ e' = 0
      BY <1>1, <2>2 DEF NextExec
    <3>2. \A x \in Execs : x <= e
      BY <1>3, <2>2 DEF Execs
    <3> QED BY <1>17, <3>1, <3>2 DEF Shared, Hinted
  <2> QED BY <2>1, <2>2
<1>19. ASSUME NEW x \in Shared'
       PROVE  HalfShared(build, root, x, key, aux'[x], unif'[x], packs'[x], coms'[x])
  <2>1. CASE x = e
    BY <1>15, <1>16, <2>1
  <2>2. CASE x # e
    <3>1. x \in Execs /\ x < e
      BY <1>3, <1>18, <2>2 DEF Execs
    <3>2. x \in Shared \ Hinted
      BY <1>2, <3>1
    <3>3. HalfShared(build, root, x, key, aux[x], unif[x], packs[x], coms[x])
      BY <3>2 DEF ShareInv
    <3> QED BY <1>16, <2>2, <3>1, <3>3
  <2> QED BY <2>1, <2>2
<1>20. ASSUME NEW x \in Execs \ Shared' PROVE packs'[x] = NoPacks(build)
  <2>1. x # e /\ ~(x < e)
    BY <1>3, <1>18 DEF Execs
  <2>2. x \in Execs \ Shared
    BY <1>2, <2>1
  <2> QED BY <1>16, <2>1, <2>2 DEF ShareInv
<1>21. hintComs' = [x \in Execs |-> hintComs'[x]]
  BY <1>17 DEF ShareInv
<1> QED BY <1>2, <1>16, <1>17, <1>18, <1>19, <1>20, <1>21 DEF ShareInv, OnExecs

\* The hint of the last party is what the others lack.
LEMMA HintComplete ==
  ASSUME NEW b \in Builds, NEW r \in Roots, NEW x \in 0..(b.execs - 1), NEW k \in Keys,
         NEW a \in Given, NEW u \in Field, NEW pk, NEW cm, HalfShared(b, r, x, k, a, u, pk, cm),
         NEW c, c = [wit |-> a.wit, hint |-> F(Hint(k.x, u) - a.hint)]
  PROVE  /\ c \in Given /\ Complete(b, r, x, k, c, u)
         /\ Held(b, r, x, c,
              Packed(b, pk, b.parties - 1,
                [wit |-> c.wit, unif |-> Expand(r, x, b.parties - 1).unif, corr |-> c.hint]),
              b.parties)
<1> DEFINE s == SumTo(b, r, x, "corr", b.parties - 1)
           h == u * k.x
<1>1. h \in Int /\ k.x * u = h
  BY KeyInField, FieldElements
<1>2. s \in Int
  <2>1. b.parties - 1 \in 0..(b.parties - 1)
    BY BuildNumbers
  <2> QED BY <2>1, PartialSums DEF Parts
<1>3. a.hint = F(s) /\ c.hint = F(F(h) - F(s)) /\ c.wit = a.wit
  BY DEF HalfShared, Hint
<1> HIDE DEF s, h
<1>4. F(h) \in Int /\ F(s) \in Int /\ F(F(h)) = F(h)
  BY <1>1, <1>2, NormalForm
<1>5. F(s + c.hint) = F(h)
  BY <1>2, <1>3, <1>4, DifferenceNormalises
<1>6. c \in Given
  <2>1. c.hint \in Field
    BY <1>3, <1>4, NormalForm
  <2>2. a.wit \in Field
    BY DEF Given
  <2> QED BY <2>1, <2>2, <1>3 DEF Given
<1>7. Complete(b, r, x, k, c, u)
  BY <1>1, <1>3, <1>5 DEF Complete, HalfShared, s
<1>8. Held(b, r, x, a, pk, b.parties - 1)
  BY DEF HalfShared
<1>9. Held(b, r, x, c,
        Packed(b, pk, b.parties - 1,
          [wit |-> c.wit, unif |-> Expand(r, x, b.parties - 1).unif, corr |-> c.hint]),
        b.parties)
  BY <1>6, <1>8, HeldAfterLast
<1> QED BY <1>6, <1>7, <1>9

LEMMA ComputeHintStep ==
  ASSUME ShareInv, ComputeHint
  PROVE  ShareInv'
<1> DEFINE a == [wit |-> aux[e].wit, hint |-> F(Hint(key.x, unif[e]) - aux[e].hint)]
           hc == CommitHint(e, a.hint, "salt")
           l == [wit |-> a.wit, unif |-> Expand(root, e, Last).unif, corr |-> a.hint]
           pk == Packed(build, packs[e], Last, l)
<1>1. /\ pc = "hint" /\ UNCHANGED <<build, key, root, unif, coms>> /\ NextExec("second")
      /\ aux' = [aux EXCEPT ![e].hint = F(Hint(key.x, unif[e]) - @)]
      /\ hintComs' = [hintComs EXCEPT ![e] = CommitHint(e, aux'[e].hint, "salt")]
      /\ packs' = [packs EXCEPT ![e] =
            Packed(build, @, Last, [wit |-> aux'[e].wit, unif |-> Expand(root, e, Last).unif,
                                    corr |-> aux'[e].hint])]
  BY DEF ComputeHint, Pack, fixed
<1>2. /\ build \in Builds /\ key \in Keys /\ root \in Roots /\ e \in Execs
      /\ Shared = Execs /\ Hinted = {x \in Execs : x < e}
      /\ aux \in [Execs -> Given] /\ unif \in [Execs -> Field]
      /\ packs \in [Execs -> [Packs(build) -> Share]]
      /\ OnExecs(aux, Execs) /\ OnExecs(packs, Execs) /\ OnExecs(hintComs, Execs)
  BY <1>1 DEF ShareInv, Shared, Hinted, OnExecs
<1>3. /\ e \in 0..(build.execs - 1) /\ build.execs \in Nat /\ Last = build.parties - 1
      /\ e \in Int
  BY <1>2, BuildNumbers DEF Execs, Last
<1>4. aux[e] \in Given /\ aux[e] = [wit |-> aux[e].wit, hint |-> aux[e].hint] /\ unif[e] \in Field
  <2>1. aux[e] \in Given
    BY <1>2
  <2>2. aux[e] \in [wit : Field, hint : Field]
    BY <2>1 DEF Given
  <2> QED BY <1>2, <2>1, <2>2
<1>5. Updated(aux', aux, e, a)
  <2>1. [aux[e] EXCEPT !.hint = F(Hint(key.x, unif[e]) - @)] = a
    BY <1>4
  <2> HIDE DEF a
  <2>2. [aux EXCEPT ![e].hint = F(Hint(key.x, unif[e]) - @)]
          = [aux EXCEPT ![e] = [aux[e] EXCEPT !.hint = F(Hint(key.x, unif[e]) - @)]]
    BY <1>2
  <2> QED BY <1>1, <2>1, <2>2 DEF Updated
<1>6. aux'[e] = a /\ \A x \in Execs : x # e => aux'[x] = aux[x]
  <2> HIDE DEF a
  <2> QED BY <1>2, <1>5, UpdatedPlace
<1>7. Updated(hintComs', hintComs, e, hc) /\ Updated(packs', packs, e, pk)
  BY <1>1, <1>2, <1>6 DEF Updated
<1>8. HalfShared(build, root, e, key, aux[e], unif[e], packs[e], coms[e])
  <2>1. e \in Shared \ Hinted
    BY <1>2, <1>3
  <2> QED BY <2>1 DEF ShareInv
<1>9. /\ a \in Given /\ Complete(build, root, e, key, a, unif[e])
      /\ Held(build, root, e, a, pk, build.parties)
  <2>1. a = [wit |-> aux[e].wit, hint |-> F(Hint(key.x, unif[e]) - aux[e].hint)]
    OBVIOUS
  <2> HIDE DEF a
  <2> QED BY <1>2, <1>3, <1>4, <1>8, <2>1, HintComplete
<1>10. hc = HintCommit(build, e, a.hint) /\ a.wit = aux[e].wit
  BY Commits
<1> HIDE DEF a, hc, l, pk
<1>11. coms[e] = [p \in 0..(build.parties - 1) |-> CommitOf(build, e, p, a.wit)]
  BY <1>8, <1>10 DEF HalfShared
<1>12. WhollyShared(build, root, e, key, a, unif[e], pk, coms[e], hc)
  BY <1>9, <1>10, <1>11 DEF WhollyShared
<1>13. /\ aux' \in [Execs -> Given] /\ packs' \in [Execs -> [Packs(build) -> Share]]
       /\ OnExecs(hintComs', Execs) /\ packs'[e] = pk /\ hintComs'[e] = hc
       /\ \A x \in Execs : x # e => packs'[x] = packs[x] /\ hintComs'[x] = hintComs[x]
  <2>1. aux' \in [Execs -> Given]
    BY <1>2, <1>5, <1>9, UpdatedPlace
  <2>2. /\ packs' \in [Execs -> [Packs(build) -> Share]] /\ packs'[e] = pk
        /\ \A x \in Execs : x # e => packs'[x] = packs[x]
    <3> DEFINE T == [Packs(build) -> Share]
    <3>1. pk \in T /\ packs \in [Execs -> T]
      BY <1>2, <1>9 DEF Held, HoldPacks
    <3> HIDE DEF T
    <3>2. packs' \in [Execs -> T] /\ packs'[e] = pk
          /\ \A x \in Execs : x # e => packs'[x] = packs[x]
      BY <1>2, <1>7, <3>1, UpdatedPlace
    <3> QED BY <3>2 DEF T
  <2>3. /\ OnExecs(hintComs', Execs) /\ hintComs'[e] = hc
        /\ \A x \in Execs : x # e => hintComs'[x] = hintComs[x]
    BY <1>2, <1>7, UpdatedPlace
  <2> QED BY <2>1, <2>2, <2>3
<1>14. Execs' = Execs /\ build' = build /\ key' = key /\ root' = root /\ unif' = unif /\ coms' = coms
  BY <1>1 DEF Execs
<1>15. /\ Shared' = Execs /\ Hinted' = {x \in Execs : x <= e}
       /\ pc' \in {"hint", "second"}
       /\ pc' = "hint" => e' \in Execs
       /\ pc' = "second" => e' = 0
  <2>1. CASE e + 1 \in Execs
    <3>1. pc' = "hint" /\ e' = e + 1
      BY <1>1, <2>1 DEF NextExec
    <3>2. \A x \in Execs : x < e + 1 <=> x <= e
      BY <1>3 DEF Execs
    <3> QED BY <1>14, <2>1, <3>1, <3>2 DEF Shared, Hinted
  <2>2. CASE e + 1 \notin Execs
    <3>1. pc' = "second" /\ e' = 0
      BY <1>1, <2>2 DEF NextExec
    <3>2. \A x \in Execs : x <= e
      BY <1>3, <2>2 DEF Execs
    <3> QED BY <1>14, <3>1, <3>2 DEF Shared, Hinted
  <2> QED BY <2>1, <2>2
<1>16. ASSUME NEW x \in Hinted'
       PROVE  WhollyShared(build, root, x, key, aux'[x], unif[x], packs'[x], coms[x], hintComs'[x])
  <2>1. CASE x = e
    BY <1>6, <1>12, <1>13, <2>1
  <2>2. CASE x # e
    <3>1. x \in Execs /\ x < e
      BY <1>3, <1>15, <2>2 DEF Execs
    <3>2. x \in Hinted
      BY <1>2, <3>1
    <3>3. WhollyShared(build, root, x, key, aux[x], unif[x], packs[x], coms[x], hintComs[x])
      BY <3>2 DEF ShareInv
    <3> QED BY <1>6, <1>13, <2>2, <3>1, <3>3
  <2> QED BY <2>1, <2>2
<1>17. ASSUME NEW x \in Execs \ Hinted'
       PROVE  HalfShared(build, root, x, key, aux'[x], unif[x], packs'[x], coms[x])
  <2>1. x # e /\ ~(x < e)
    BY <1>3, <1>15 DEF Execs
  <2>2. x \in Shared \ Hinted
    BY <1>2, <2>1
  <2>3. HalfShared(build, root, x, key, aux[x], unif[x], packs[x], coms[x])
    BY <2>2 DEF ShareInv
  <2> QED BY <1>6, <1>13, <2>1, <2>3
<1>18. unif \in [Execs -> Field] /\ coms = [x \in Execs |-> coms[x]]
  BY DEF ShareInv
<1> QED BY <1>2, <1>13, <1>14, <1>15, <1>16, <1>17, <1>18 DEF ShareInv, OnExecs

\* The signer's state after its loops.
Sharing == <<packs, unif, aux, coms, hintComs>>

LEMMA SameExecutions ==
  ASSUME ShareInv, UNCHANGED <<fixed, Sharing>>,
         \/ pc = "first" /\ pc' = "hint" /\ e' = e
         \/ /\ pc \notin {"share", "first", "hint"} /\ pc' \notin {"share", "first", "hint"}
            /\ pc' = "recompute" => e' \in Execs
            /\ pc' # "recompute" => e' = 0
  PROVE  ShareInv'
<1> USE DEF fixed, Sharing
<1>1. Execs' = Execs
  BY DEF Execs
<1>2. CASE pc = "first" /\ pc' = "hint" /\ e' = e
  <2>1. e = 0 /\ build \in Builds
    BY <1>2 DEF ShareInv
  <2>2. /\ e \in Execs /\ \A x \in Execs : ~(x < 0)
    BY <2>1, BuildNumbers DEF Execs
  <2>3. Shared' = Shared /\ Hinted' = Hinted
    BY <1>1, <1>2, <2>1, <2>2 DEF Shared, Hinted
  <2> QED BY <1>2, <2>2, <2>3, ShareKept
<1>3. CASE /\ pc \notin {"share", "first", "hint"} /\ pc' \notin {"share", "first", "hint"}
           /\ pc' = "recompute" => e' \in Execs
           /\ pc' # "recompute" => e' = 0
  <2>1. Shared' = Shared /\ Hinted' = Hinted
    BY <1>1, <1>3 DEF Shared, Hinted
  <2> QED BY <1>3, <2>1, ShareKept
<1> QED BY <1>2, <1>3

LEMMA ShareStep == ShareInv /\ [Next]_vars => ShareInv'
<1> SUFFICES ASSUME ShareInv, [Next]_vars PROVE ShareInv'
  OBVIOUS
<1>1. CASE UNCHANGED vars \/ Stopped
  <2>1. UNCHANGED <<pc, e, fixed, Sharing>>
    BY <1>1 DEF vars, signVars, Stopped, Sharing
  <2>2. Execs' = Execs /\ Shared' = Shared /\ Hinted' = Hinted
    BY <2>1 DEF Execs, Shared, Hinted, fixed
  <2> QED BY <2>1, <2>2, ShareKept DEF ShareInv, Sharing
<1>2. CASE ShareSecret
  BY <1>2, ShareSecretStep
<1>3. CASE ComputeHint
  BY <1>3, ComputeHintStep
<1>4. CASE FirstChallenge
  <2>1. pc = "first" /\ pc' = "hint" /\ e' = e /\ UNCHANGED <<fixed, Sharing>>
    BY <1>4 DEF FirstChallenge, Sharing
  <2> QED BY <2>1, SameExecutions
<1>5. CASE SecondChallenge \/ Simulate \/ ViewChallenge \/ BuildSignature
  <2>1. /\ pc \in {"second", "simulate", "views", "build"}
        /\ pc' \in {"simulate", "views", "build", "sent", "failed"}
        /\ e' = e /\ UNCHANGED <<fixed, Sharing>>
    BY <1>5 DEF SecondChallenge, Simulate, ViewChallenge, BuildSignature, Sharing
  <2>2. e = 0
    BY <2>1 DEF ShareInv
  <2> QED BY <2>1, <2>2, SameExecutions
<1>6. CASE DeliverGenuine \/ DeliverOtherHeader \/ DeliverOtherProof
  <2>1. pc = "sent" /\ pc' = "parse" /\ e' = e /\ UNCHANGED <<fixed, Sharing>>
    BY <1>6 DEF DeliverGenuine, DeliverOtherHeader, DeliverOtherProof, Deliver, signVars, Sharing
  <2>2. e = 0
    BY <2>1 DEF ShareInv
  <2> QED BY <2>1, <2>2, SameExecutions
<1>7. CASE Parse \/ ExpandChallenges \/ Compare
  <2>1. /\ pc \in {"parse", "expand", "compare"} /\ pc' \in {"expand", "recompute", "done"}
        /\ e' = e /\ UNCHANGED <<fixed, Sharing>>
    BY <1>7 DEF Parse, ExpandChallenges, Compare, signVars, Sharing
  <2>2. e = 0 /\ 0 \in Execs
    BY <2>1, BuildNumbers DEF ShareInv, Execs
  <2> QED BY <2>1, <2>2, SameExecutions
<1>8. CASE Recompute
  <2>1. pc = "recompute" /\ NextExec("compare") /\ UNCHANGED <<fixed, Sharing>>
    BY <1>8 DEF Recompute, signVars, Sharing
  <2>2. \/ pc' = "recompute" /\ e' \in Execs
        \/ pc' = "compare" /\ e' = 0
    BY <2>1 DEF NextExec
  <2> QED BY <2>1, <2>2, SameExecutions
<1> QED BY <1>1, <1>2, <1>3, <1>4, <1>5, <1>6, <1>7, <1>8 DEF Next

LEMMA ShareInvariant == Spec => []ShareInv
BY InitShares, ShareStep, PTL DEF Spec

LEMMA SharesAddUp == ShareInv => HintsAddUp
<1> SUFFICES ASSUME ShareInv, pc \notin {"share", "first", "hint"}, NEW x \in Execs
             PROVE  /\ F(SumOfShares(x, WitOf) + aux[x].wit) = key.x
                    /\ F(SumOfShares(x, HintOf) + aux[x].hint) = F(key.x * unif[x])
  BY DEF HintsAddUp
<1>1. x \in Hinted
  BY DEF Hinted
<1>2. Complete(build, root, x, key, aux[x], unif[x])
  BY <1>1 DEF ShareInv, WhollyShared
<1>3. /\ SumOfShares(x, WitOf) = SumTo(build, root, x, "wit", Last)
      /\ SumOfShares(x, HintOf) = SumTo(build, root, x, "corr", Last)
  BY SumsOfShares DEF ShareInv
<1> QED BY <1>2, <1>3 DEF Complete, Last

\* For every build, key, seed and challenge of the first round: once the last party has
\* its hint, the shares of an execution add up to the witness and to the hint for it.
\* mpcith_additive_based_7r_sign leaves the sum of the other hints in its place between
\* the two challenges, one execution after the other.
THEOREM SharesGiveHint == Spec => []HintsAddUp
BY ShareInvariant, SharesAddUp, PTL

-----------------------------------------------------------------------------
(* The challenges, the broadcasts and the signature.                       *)

\* The signature of mpcith_additive_based_7r_sign.
Sent ==
  LET one == FirstHash(coms, "salt")
      two == SecondHash(one, hintComs, "salt")
  IN  [salt |-> "salt", first |-> one, second |-> two,
       view |-> ViewHash(two, br, alphas, "salt", "msg"),
       proofs |-> [x \in Execs |-> SentProof(x)], length |-> LengthBuilt(hidden)]

EmulInv ==
  /\ pc \notin {"share", "first"} => first \in [Execs -> FirstChallenges]
  /\ pc \notin {"share", "first", "hint", "second"} => second \in [Execs -> SecondChallenges]
  /\ pc \notin {"share", "first", "hint", "second", "simulate"} =>
       /\ alphas = [x \in Execs |-> PlainAlpha(key, first[x], second[x], unif[x])]
       /\ br = [x \in Execs |->
                  BroadcastOf(build, key, first[x], second[x], alphas[x], packs[x])]
  /\ pc \notin {"share", "first", "hint", "second", "simulate", "views"} =>
       hidden \in [Execs -> Parties]
  /\ sig = IF pc \in Signing THEN NoDigest ELSE Sent
  /\ pc # "failed"

LEMMA InitEmul == Init => EmulInv
BY DEF Init, EmulInv, Signing

\* What is drawn and broadcast is kept when the signer has returned.
LEMMA EmulKept ==
  ASSUME EmulInv, UNCHANGED <<fixed, signVars>>, pc \notin Signing, pc' \notin Signing,
         pc' # "failed"
  PROVE  EmulInv'
<1> USE DEF fixed, signVars
<1>1. Execs' = Execs /\ Parties' = Parties /\ Last' = Last
  BY DEF Execs, Parties, Last
<1>2. Sent' = Sent
  BY <1>1 DEF Sent, SentProof, AuxSent, LengthBuilt, SumOver, PathSize, FirstHash, inst
<1>3. pc \notin {"share", "first", "hint", "second", "simulate", "views"}
  BY DEF Signing
<1> QED BY <1>1, <1>2, <1>3 DEF EmulInv

LEMMA SimulateStep ==
  ASSUME ShareInv, EmulInv, Simulate
  PROVE  EmulInv'
<1>1. /\ pc = "simulate" /\ pc' = "views"
      /\ UNCHANGED <<build, key, unif, packs, first, second, sig>>
  BY DEF Simulate, fixed
<1>2. Execs' = Execs
  BY <1>1 DEF Execs
<1>3. alphas' = [x \in Execs |-> HintAlpha(first[x], second[x], [wit |-> key.x, unif |-> unif[x]])]
      /\ br' = [x \in Execs |-> [p \in Packs(build) |->
                  HintBroadcast(first[x], second[x], packs[x][p], alphas'[x], FALSE)]]
  BY DEF Simulate
<1>4. alphas' = [x \in Execs |-> PlainAlpha(key, first[x], second[x], unif[x])]
  BY <1>3, BroadcastsByKey
<1>5. ASSUME NEW x, NEW alpha
      PROVE  [p \in Packs(build) |-> HintBroadcast(first[x], second[x], packs[x][p], alpha, FALSE)]
               = BroadcastOf(build, key, first[x], second[x], alpha, packs[x])
  BY BroadcastsByKey DEF BroadcastOf
<1>6. br' = [x \in Execs |-> BroadcastOf(build, key, first[x], second[x], alphas'[x], packs[x])]
  BY <1>3, <1>5
<1>7. first \in [Execs -> FirstChallenges] /\ second \in [Execs -> SecondChallenges]
      /\ sig = NoDigest
  BY <1>1 DEF EmulInv, Signing
<1> QED BY <1>1, <1>2, <1>4, <1>6, <1>7 DEF EmulInv, Signing

LEMMA BuildStep ==
  ASSUME ShareInv, EmulInv, BuildSignature
  PROVE  EmulInv' /\ pc' = "sent"
<1>1. /\ pc = "build" /\ UNCHANGED <<fixed, aux, unif, packs, coms, hintComs, first, second,
                                     alphas, br, hidden>>
      /\ sig' = Sent
      /\ pc' = IF sig'.length <= MaxLength THEN "sent" ELSE "failed"
  BY DEF BuildSignature, Sent
<1> USE DEF fixed
<1>2. build \in Builds /\ hidden \in [Execs -> Parties]
  BY <1>1 DEF ShareInv, EmulInv
<1>3. sig'.length = LengthBuilt(hidden)
  BY <1>1 DEF Sent
<1>4. pc' = "sent"
  BY <1>1, <1>2, <1>3, LengthsAgree
<1>5. Execs' = Execs /\ Parties' = Parties /\ Last' = Last
  BY <1>1 DEF Execs, Parties, Last
<1>6. Sent' = Sent
  BY <1>1, <1>5 DEF Sent, SentProof, AuxSent, LengthBuilt, SumOver, PathSize, FirstHash, inst
<1> QED BY <1>1, <1>4, <1>5, <1>6 DEF EmulInv, Signing

LEMMA EmulStep ==
  ASSUME ShareInv, EmulInv, [Next]_vars
  PROVE  EmulInv'
<1>1. CASE UNCHANGED vars \/ Stopped
  <2>1. UNCHANGED <<pc, fixed, signVars>>
    BY <1>1 DEF vars, Stopped
  <2>2. CASE pc \in Signing
    <3> USE DEF fixed, signVars
    <3>1. Execs' = Execs /\ Parties' = Parties
      BY <2>1 DEF Execs, Parties
    <3> QED BY <2>1, <2>2, <3>1 DEF EmulInv
  <2>3. CASE pc \notin Signing
    BY <2>1, <2>3, EmulKept DEF EmulInv
  <2> QED BY <2>2, <2>3
<1>2. CASE ShareSecret
  <2>1. pc = "share" /\ pc' \in {"share", "first"} /\ sig' = sig
    BY <1>2 DEF ShareSecret, NextExec
  <2> QED BY <2>1 DEF EmulInv, Signing
<1>3. CASE FirstChallenge
  <2>1. /\ pc = "first" /\ pc' = "hint" /\ sig' = sig /\ build' = build
        /\ first' \in [Execs -> FirstChallenges]
    BY <1>3 DEF FirstChallenge, fixed
  <2> QED BY <2>1 DEF EmulInv, Signing, Execs
<1>4. CASE ComputeHint
  <2>1. pc = "hint" /\ pc' \in {"hint", "second"} /\ UNCHANGED <<sig, build, first>>
    BY <1>4 DEF ComputeHint, NextExec, fixed
  <2> QED BY <2>1 DEF EmulInv, Signing, Execs
<1>5. CASE SecondChallenge
  <2>1. /\ pc = "second" /\ pc' = "simulate" /\ UNCHANGED <<sig, build, first>>
        /\ second' \in [Execs -> SecondChallenges]
    BY <1>5 DEF SecondChallenge, fixed
  <2> QED BY <2>1 DEF EmulInv, Signing, Execs
<1>6. CASE Simulate
  BY <1>6, SimulateStep
<1>7. CASE ViewChallenge
  <2>1. /\ pc = "views" /\ pc' = "build"
        /\ UNCHANGED <<sig, build, key, unif, packs, first, second, alphas, br>>
        /\ hidden' \in [Execs -> Parties]
    BY <1>7 DEF ViewChallenge, fixed
  <2>2. Execs' = Execs /\ Parties' = Parties
    BY <2>1 DEF Execs, Parties
  <2> QED BY <2>1, <2>2 DEF EmulInv, Signing
<1>8. CASE BuildSignature
  BY <1>8, BuildStep
<1>9. CASE DeliverGenuine \/ DeliverOtherHeader \/ DeliverOtherProof
  <2>1. pc = "sent" /\ pc' = "parse" /\ UNCHANGED <<fixed, signVars>>
    BY <1>9 DEF DeliverGenuine, DeliverOtherHeader, DeliverOtherProof, Deliver
  <2> QED BY <2>1, EmulKept DEF Signing
<1>10. CASE Parse \/ ExpandChallenges \/ Recompute \/ Compare
  <2>1. /\ pc \in {"parse", "expand", "recompute", "compare"}
        /\ pc' \in {"expand", "recompute", "compare", "done"} /\ UNCHANGED <<fixed, signVars>>
    BY <1>10 DEF Parse, ExpandChallenges, Recompute, NextExec, Compare
  <2> QED BY <2>1, EmulKept DEF Signing
<1> QED BY <1>1, <1>2, <1>3, <1>4, <1>5, <1>6, <1>7, <1>8, <1>9, <1>10 DEF Next

LEMMA SignerInvariant == Spec => [](ShareInv /\ EmulInv)
<1>1. ShareInv /\ EmulInv /\ [Next]_vars => (ShareInv /\ EmulInv)'
  BY ShareStep, EmulStep
<1> QED BY <1>1, InitShares, InitEmul, PTL DEF Spec

\* For every build, sizes of the fields of a signature, challenges and hidden parties:
\* mpcith_additive_based_7r_sign writes a signature that fits in the buffer of
\* crypto_sign, whose length is computed for the longest paths and for whatever is sent
\* of the last party, and sends neither the witness share nor the hint of the last party
\* of an execution in which it is hidden.
THEOREM HidesLastParty == Spec => []LastPartyHidden
<1>1. EmulInv => LastPartyHidden
  <2> SUFFICES ASSUME EmulInv, sig # NoDigest, NEW x \in Execs, hidden[x] = Last
               PROVE  sig.proofs[x].aux = NoDigest
    BY DEF LastPartyHidden, EmulInv
  <2>1. sig = Sent
    BY DEF EmulInv
  <2>2. sig.proofs[x] = SentProof(x)
    BY <2>1 DEF Sent
  <2>3. SentProof(x).aux = NoDigest
    BY DEF SentProof, AuxSent
  <2> QED BY <2>2, <2>3
<1> QED BY <1>1, SignerInvariant, PTL

-----------------------------------------------------------------------------
(* What the verifier receives and recomputes.                              *)

\* An altered field of the proof of an execution.
AlteredProof(x) ==
  \/ got.sig.proofs[x].digest = Forged
  \/ got.sig.proofs[x].alpha # alphas[x]
  \/ \E p \in Parties : p # hidden[x] /\ Seed(x, p) \in got.badSeeds
  \/ /\ hidden[x] # Last /\ got.sig.proofs[x].aux # NoDigest
     /\ \/ got.sig.proofs[x].aux.wit # aux[x].wit
        \/ got.sig.proofs[x].aux.hint # aux[x].hint
  \/ hidden[x] = Last /\ got.sig.proofs[x].hintDigest = Forged

\* An altered field of a signature, or another message.
SameDigests == /\ got.sig.first = sig.first /\ got.sig.second = sig.second
               /\ got.sig.view = sig.view
Altered ==
  \/ got.sig.first = Forged
  \/ got.sig.second = Forged
  \/ got.sig.view = Forged
  \/ /\ SameDigests
     /\ \/ got.msg # "msg"
        \/ got.sig.salt # "salt"
        \/ got.sig.length # sig.length
        \/ \E x \in Execs : AlteredProof(x)

Unaltered == got = [msg |-> "msg", sig |-> sig, badSeeds |-> {}]

GotInv ==
  /\ genuine \in BOOLEAN
  /\ pc \in Signing \cup {"sent"} => genuine
  /\ pc \in Verifying => IF genuine THEN Unaltered ELSE Altered
  /\ pc # "done" => verdict = "none"

\* What the verifier has parsed, and the challenges it has expanded.
Parsed ==
  /\ vhidden \in [Execs -> Parties] /\ got.sig.length = LengthRequired(vhidden)
  /\ got.sig.view = sig.view => vhidden = hidden
Challenged ==
  /\ got.sig.first = sig.first => vfirst = first
  /\ got.sig.second = sig.second => vsecond = second

\* The commitments and the broadcasts recomputed so far.
Recommitted(x) ==
  vcoms[x] = [p \in Parties |-> Recommit(x, p)] /\ vhintComs[x] = RecommitHint(x)
Recomputed(n) ==
  \A x \in 0..(n - 1) : Recommitted(x) /\ (genuine => vbr[x] = br[x])

VerifierInv ==
  /\ OnExecs(vcoms, Execs) /\ OnExecs(vhintComs, Execs) /\ OnExecs(vbr, Execs)
  /\ pc \in {"expand", "recompute", "compare"} => Parsed
  /\ pc \in {"recompute", "compare"} => Challenged
  /\ pc = "recompute" => Recomputed(e)
  /\ pc = "compare"   => Recomputed(build.execs)

LEMMA InitVerifier == Init => GotInv /\ VerifierInv
<1> SUFFICES ASSUME Init PROVE GotInv /\ VerifierInv
  OBVIOUS
<1>1. /\ pc = "share" /\ genuine = TRUE /\ verdict = "none"
      /\ vcoms = [x \in Execs |-> NoDigest] /\ vhintComs = [x \in Execs |-> NoDigest]
      /\ vbr = [x \in Execs |-> <<>>]
  BY DEF Init
<1>2. OnExecs(vcoms, Execs) /\ OnExecs(vhintComs, Execs) /\ OnExecs(vbr, Execs)
  BY <1>1 DEF OnExecs
<1> QED BY <1>1, <1>2 DEF GotInv, VerifierInv, Verifying

\* The steps that are not of the verifier.
LEMMA NotYetVerifying ==
  ASSUME VerifierInv, UNCHANGED <<fixed, vcoms, vhintComs, vbr>>,
         pc' \notin {"expand", "recompute", "compare"}
  PROVE  VerifierInv'
BY DEF VerifierInv, fixed, Execs

LEMMA GotKept ==
  ASSUME GotInv, UNCHANGED <<fixed, signVars, got, genuine, verdict>>,
         pc \in Verifying, pc' \in Verifying
  PROVE  GotInv'
<1> USE DEF fixed, signVars
<1>1. Execs' = Execs /\ Parties' = Parties /\ Last' = Last
  BY DEF Execs, Parties, Last
<1>2. ASSUME NEW x PROVE AlteredProof(x)' <=> AlteredProof(x)
  BY <1>1 DEF AlteredProof
<1>3. Altered => Altered'
  BY <1>1, <1>2 DEF Altered, SameDigests
<1> QED BY <1>3 DEF GotInv, Unaltered, Verifying, Signing

\* What is known where a signature was not altered.
LEMMA GenuineSignature ==
  ASSUME EmulInv, GotInv, pc \in Verifying, genuine
  PROVE  /\ got.msg = "msg" /\ got.sig = Sent /\ got.badSeeds = {} /\ sig = Sent
         /\ got.sig.salt = "salt" /\ hidden \in [Execs -> Parties]
         /\ \A x \in Execs : got.sig.proofs[x] = SentProof(x)
<1>1. got.msg = "msg" /\ got.sig = sig /\ got.badSeeds = {}
  BY DEF GotInv, Unaltered
<1>2. sig = Sent
  BY DEF EmulInv, Signing, Verifying
<1>3. hidden \in [Execs -> Parties]
  BY DEF EmulInv, Verifying
<1>4. Sent.salt = "salt" /\ \A x \in Execs : Sent.proofs[x] = SentProof(x)
  BY DEF Sent
<1> QED BY <1>1, <1>2, <1>3, <1>4

\* A seed is not junk.
LEMMA SeedsAreNotJunk ==
  ASSUME ShareInv, NEW x \in Execs, NEW p
  PROVE  Seed(x, p) # JunkSeed /\ Seed(x, p).exec = x /\ Seed(x, p).party = p
<1>1. x # -1
  BY BuildNumbers DEF ShareInv, Execs
<1>2. Seed(x, p).exec = x /\ Seed(x, p).party = p /\ JunkSeed.exec = -1
  BY DEF Seed, JunkSeed
<1> QED BY <1>1, <1>2

\* The seeds of a genuine signature are the signer's.
LEMMA GenuineSeeds ==
  ASSUME ShareInv, EmulInv, GotInv, Parsed, pc \in Verifying, genuine,
         NEW x \in Execs, NEW p \in Parties, p # hidden[x]
  PROVE  Rebuilt(x, p) = Seed(x, p) /\ ShareOf(Rebuilt(x, p)) = Expand(root, x, p)
<1>1. vhidden = hidden /\ got.badSeeds = {}
  <2>1. got.sig.view = sig.view /\ got.badSeeds = {}
    BY GenuineSignature
  <2> QED BY <2>1 DEF Parsed
<1>2. Rebuilt(x, p) = Seed(x, p)
  BY <1>1 DEF Rebuilt
<1> QED BY <1>2, SeedsAreNotJunk DEF ShareOf

\* The share of the last party of a genuine signature that opens it.
LEMMA GenuineAux ==
  ASSUME ShareInv, EmulInv, GotInv, pc \in Verifying, genuine,
         NEW x \in Execs, hidden[x] # Last
  PROVE  ParsedAux(x) = aux[x]
<1>1. got.sig.proofs[x].aux = aux[x]
  <2>1. got.sig.proofs[x] = SentProof(x)
    BY GenuineSignature
  <2> QED BY <2>1 DEF SentProof, AuxSent
<1>2. aux[x] \in [wit : Field, hint : Field]
  BY DEF ShareInv, Given
<1>3. aux[x] # NoDigest
  <2>1. DOMAIN aux[x] = {"wit", "hint"} /\ DOMAIN NoDigest = {"none"}
    BY <1>2 DEF NoDigest
  <2> QED BY <2>1
<1> QED BY <1>1, <1>3 DEF ParsedAux

\* The shares that are opened are the signer's.
LEMMA GenuineShares ==
  ASSUME ShareInv, EmulInv, GotInv, Parsed, pc \in Verifying, genuine,
         NEW x \in Execs, NEW p \in Parties, p # hidden[x]
  PROVE  OpenShare(x, p) = SharesOf(build, root, x, aux[x])[p]
<1>1. ShareOf(Rebuilt(x, p)) = Expand(root, x, p)
  BY GenuineSeeds
<1>2. p \in 0..(build.parties - 1)
  BY DEF Parties
<1>3. CASE p = Last
  <2>1. ParsedAux(x) = aux[x]
    BY <1>3, GenuineAux
  <2>2. OpenShare(x, p) = [wit |-> aux[x].wit, unif |-> Expand(root, x, p).unif, corr |-> aux[x].hint]
    BY <1>1, <1>3, <2>1 DEF OpenShare
  <2> QED BY <1>2, <1>3, <2>2 DEF SharesOf, Last
<1>4. CASE p # Last
  <2>1. OpenShare(x, p) = Expand(root, x, p)
    BY <1>1, <1>4 DEF OpenShare
  <2> QED BY <1>2, <1>4, <2>1 DEF SharesOf, Last
<1> QED BY <1>3, <1>4

\* What the verifier of a genuine signature broadcasts for an execution.
LEMMA GenuineBroadcast ==
  ASSUME ShareInv, EmulInv, GotInv, Parsed, Challenged, pc \in Verifying, genuine,
         NEW x \in Execs
  PROVE  Recomposed(build, vhidden[x],
           [p \in Packs(build) |->
              HintBroadcast(vfirst[x], vsecond[x], OpenPacks(x, vhidden[x])[p],
                            got.sig.proofs[x].alpha, HasOffset(build, vhidden[x], p))],
           PlainBroadcast(got.sig.proofs[x].alpha)) = br[x]
<1> DEFINE h == hidden[x]
           opened == OpenPacks(x, h)
           G == first[x]
           t == second[x]
<1>1. /\ vhidden[x] = h /\ vfirst[x] = G /\ vsecond[x] = t /\ h \in Parties
      /\ got.sig.proofs[x].alpha = alphas[x]
  <2>1. got.sig = sig /\ hidden \in [Execs -> Parties] /\ got.sig.proofs[x] = SentProof(x)
    BY GenuineSignature
  <2>2. SentProof(x).alpha = alphas[x]
    BY DEF SentProof
  <2> QED BY <2>1, <2>2 DEF Parsed, Challenged
<1>2. /\ build \in Builds /\ root \in Roots /\ key \in Keys /\ aux[x] \in Given
      /\ unif[x] \in Field /\ x \in 0..(build.execs - 1) /\ h \in 0..(build.parties - 1)
  BY <1>1 DEF ShareInv, Execs, Parties
<1>3. G \in Field /\ t \in Field
  <2>1. first \in [Execs -> FirstChallenges] /\ second \in [Execs -> SecondChallenges]
    BY DEF EmulInv, Verifying
  <2> QED BY <2>1, ChallengesAssumption
<1>4. /\ alphas[x] = PlainAlpha(key, G, t, unif[x])
      /\ br[x] = BroadcastOf(build, key, G, t, alphas[x], packs[x])
  BY DEF EmulInv, Verifying
<1>5. /\ Complete(build, root, x, key, aux[x], unif[x])
      /\ Held(build, root, x, aux[x], packs[x], build.parties)
  <2>1. x \in Hinted
    BY DEF Hinted, Verifying
  <2> QED BY <2>1 DEF ShareInv, WhollyShared
<1>6. OpenOf(build, root, x, aux[x], h, opened, build.parties)
  <2>1. \A p \in Parties : p # h => OpenShare(x, p) = SharesOf(build, root, x, aux[x])[p]
    BY GenuineShares
  <2> HIDE DEF h
  <2> QED BY <1>1, <1>2, <2>1, OpenPacksHold
<1>7. [p \in Packs(build) |-> HintBroadcast(G, t, opened[p], alphas[x], HasOffset(build, h, p))]
        = [p \in Packs(build) |-> BroadcastBy(key, G, t, opened[p], alphas[x], HasOffset(build, h, p))]
  BY BroadcastsByKey
<1> HIDE DEF h, opened, G, t
<1>8. Verifiable(build, root, x, key, aux[x], unif[x], G, t, h, packs[x], opened, alphas[x])
  BY <1>2, <1>3, <1>4, <1>5, <1>6 DEF Verifiable
<1>9. Deduced(build, key, G, t, alphas[x], h, opened) = br[x]
  BY <1>4, <1>8, SameBroadcast
<1> QED BY <1>1, <1>7, <1>9 DEF Deduced, opened

\* The steps of the verifier.
LEMMA LengthKept ==
  ASSUME UNCHANGED fixed
  PROVE  LengthRequired(vhidden)' = LengthRequired(vhidden')
<1>1. Execs' = Execs /\ Last' = Last /\ build' = build
  BY DEF Execs, Last, fixed
<1> QED BY <1>1 DEF LengthRequired, SumOver, PathSize, AuxSent

LEMMA ParseStep ==
  ASSUME ShareInv, VerifierInv, Parse
  PROVE  VerifierInv'
<1>1. /\ pc' \in {"expand", "done"}
      /\ UNCHANGED <<fixed, hidden, sig, got, vcoms, vhintComs, vbr>>
      /\ vhidden' \in [Execs -> Parties]
      /\ got.sig.view = sig.view => vhidden' = hidden
      /\ pc' = "expand" => got.sig.length = LengthRequired(vhidden')
  BY DEF Parse, signVars
<1>2. Execs' = Execs /\ Parties' = Parties
  BY <1>1 DEF Execs, Parties, fixed
<1>3. pc' = "expand" => Parsed'
  BY <1>1, <1>2, LengthKept DEF Parsed
<1> QED BY <1>1, <1>2, <1>3 DEF VerifierInv

LEMMA ParsedKept ==
  ASSUME Parsed, UNCHANGED <<fixed, signVars, got, vhidden>>
  PROVE  Parsed'
<1>1. Execs' = Execs /\ Parties' = Parties
  BY DEF Execs, Parties, fixed
<1>2. LengthRequired(vhidden)' = LengthRequired(vhidden)
  BY LengthKept
<1> QED BY <1>1, <1>2 DEF Parsed, signVars

LEMMA ExpandStep ==
  ASSUME ShareInv, VerifierInv, ExpandChallenges
  PROVE  VerifierInv'
<1>1. /\ pc = "expand" /\ pc' = "recompute"
      /\ UNCHANGED <<fixed, e, signVars, got, genuine, vhidden, vcoms, vhintComs, vbr>>
      /\ got.sig.first = sig.first => vfirst' = first
      /\ got.sig.second = sig.second => vsecond' = second
  BY DEF ExpandChallenges
<1>2. Execs' = Execs
  BY <1>1 DEF Execs, fixed
<1>3. Parsed'
  BY <1>1, ParsedKept DEF VerifierInv
<1>4. Challenged'
  BY <1>1 DEF Challenged, signVars
<1>5. Recomputed(e)'
  <2>1. e = 0
    BY <1>1 DEF ShareInv
  <2>2. 0..(e' - 1) = {}
    BY <1>1, <2>1
  <2> QED BY <2>2 DEF Recomputed
<1> QED BY <1>1, <1>2, <1>3, <1>4, <1>5 DEF VerifierInv

LEMMA RecomputeStep ==
  ASSUME ShareInv, EmulInv, GotInv, VerifierInv, Recompute
  PROVE  VerifierInv'
<1> DEFINE h == vhidden[e]
           alpha == got.sig.proofs[e].alpha
           new == Recomposed(build, h,
                    [p \in Packs(build) |->
                       HintBroadcast(vfirst[e], vsecond[e], OpenPacks(e, h)[p], alpha,
                                     HasOffset(build, h, p))],
                    PlainBroadcast(alpha))
           hc == RecommitHint(e)
           cm == [p \in Parties |-> Recommit(e, p)]
<1>1. /\ pc = "recompute" /\ NextExec("compare")
      /\ UNCHANGED <<fixed, signVars, got, genuine, vfirst, vsecond, vhidden>>
      /\ Updated(vbr', vbr, e, new) /\ Updated(vhintComs', vhintComs, e, hc)
      /\ Updated(vcoms', vcoms, e, cm)
  BY DEF Recompute, Updated
<1>2. /\ Parsed /\ Challenged /\ Recomputed(e) /\ e \in Execs /\ build \in Builds
      /\ OnExecs(vcoms, Execs) /\ OnExecs(vhintComs, Execs) /\ OnExecs(vbr, Execs)
  BY <1>1 DEF VerifierInv, ShareInv
<1>3. /\ e \in 0..(build.execs - 1) /\ build.execs \in Nat /\ e \in Int
      /\ Execs' = Execs /\ Parties' = Parties /\ Last' = Last
  BY <1>1, <1>2, BuildNumbers DEF Execs, Parties, Last, fixed
<1>4. ASSUME genuine PROVE new = br[e]
  <2>1. pc \in Verifying
    BY <1>1 DEF Verifying
  <2> QED BY <1>2, <1>4, <2>1, GenuineBroadcast
<1> HIDE DEF new
<1>5. /\ OnExecs(vcoms', Execs) /\ vcoms'[e] = cm
      /\ \A x \in Execs : x # e => vcoms'[x] = vcoms[x]
  <2> HIDE DEF cm
  <2> QED BY <1>1, <1>2, UpdatedPlace
<1>6. /\ OnExecs(vhintComs', Execs) /\ vhintComs'[e] = hc
      /\ \A x \in Execs : x # e => vhintComs'[x] = vhintComs[x]
  <2> HIDE DEF hc
  <2> QED BY <1>1, <1>2, UpdatedPlace
<1>7. /\ OnExecs(vbr', Execs) /\ vbr'[e] = new
      /\ \A x \in Execs : x # e => vbr'[x] = vbr[x]
  BY <1>1, <1>2, UpdatedPlace
<1>8. ASSUME NEW x
      PROVE  /\ RecommitHint(x)' = RecommitHint(x)
             /\ \A p : Recommit(x, p)' = Recommit(x, p)
  BY <1>1, <1>3 DEF RecommitHint, CommitHint, ParsedAux, Recommit, CommitSeed, Rebuilt, fixed,
     signVars
<1>9. ASSUME NEW x \in 0..e PROVE (Recommitted(x) /\ (genuine => vbr[x] = br[x]))'
  <2>1. x \in Execs /\ (x = e \/ x \in 0..(e - 1))
    BY <1>3 DEF Execs
  <2>2. br' = br /\ genuine' = genuine
    BY <1>1 DEF signVars
  <2>3. CASE x = e
    <3>1. vcoms'[x] = [p \in Parties |-> Recommit(x, p)] /\ vhintComs'[x] = RecommitHint(x)
      BY <1>5, <1>6, <2>3
    <3>2. genuine => vbr'[x] = br[x]
      BY <1>4, <1>7, <2>3
    <3> QED BY <1>3, <1>8, <2>2, <3>1, <3>2 DEF Recommitted
  <2>4. CASE x # e
    <3>1. Recommitted(x) /\ (genuine => vbr[x] = br[x])
      BY <1>2, <2>1, <2>4 DEF Recomputed
    <3>2. vcoms'[x] = vcoms[x] /\ vhintComs'[x] = vhintComs[x] /\ vbr'[x] = vbr[x]
      BY <1>5, <1>6, <1>7, <2>1, <2>4
    <3> QED BY <1>3, <1>8, <2>2, <3>1, <3>2 DEF Recommitted
  <2> QED BY <2>3, <2>4
<1>10. Parsed' /\ Challenged'
  BY <1>1, <1>2, ParsedKept DEF Challenged, signVars
<1>11. CASE e + 1 \in Execs
  <2>1. pc' = "recompute" /\ e' = e + 1 /\ e' - 1 = e
    BY <1>1, <1>3, <1>11 DEF NextExec
  <2>2. Recomputed(e)'
    BY <1>9, <2>1 DEF Recomputed
  <2> QED BY <1>3, <1>5, <1>6, <1>7, <1>10, <2>1, <2>2 DEF VerifierInv
<1>12. CASE e + 1 \notin Execs
  <2>1. pc' = "compare" /\ build'.execs - 1 = e
    BY <1>1, <1>3, <1>12 DEF NextExec, Execs, fixed
  <2>2. Recomputed(build.execs)'
    BY <1>9, <2>1 DEF Recomputed
  <2> QED BY <1>3, <1>5, <1>6, <1>7, <1>10, <2>1, <2>2 DEF VerifierInv
<1> QED BY <1>11, <1>12

-----------------------------------------------------------------------------
(* What is altered between the signer and the verifier.                    *)

LEMMA SentSignature ==
  ASSUME ShareInv, EmulInv, pc = "sent"
  PROVE  /\ sig = [salt |-> "salt", first |-> sig.first, second |-> sig.second,
                   view |-> sig.view, proofs |-> sig.proofs, length |-> sig.length]
         /\ sig.length \in Int
         /\ sig.proofs = [x \in Execs |-> sig.proofs[x]]
         /\ \A x \in Execs :
              /\ sig.proofs[x] = [digest |-> sig.proofs[x].digest, alpha |-> alphas[x],
                                  aux |-> sig.proofs[x].aux,
                                  hintDigest |-> sig.proofs[x].hintDigest]
              /\ alphas[x] \in Field /\ hidden[x] \in Parties
              /\ hidden[x] # Last => sig.proofs[x].aux = aux[x]
              /\ aux[x] \in [wit : Field, hint : Field]
<1>1. sig = Sent /\ pc \notin {"share", "first", "hint", "second", "simulate", "views"}
  BY DEF EmulInv, Signing
<1>2. build \in Builds /\ hidden \in [Execs -> Parties]
  BY <1>1 DEF ShareInv, EmulInv
<1>3. LengthBuilt(hidden) \in Int
  BY <1>2, LengthsAgree
<1>4. \A x \in Execs : alphas[x] \in Field
  <2>1. ASSUME NEW x \in Execs PROVE PlainAlpha(key, first[x], second[x], unif[x]) \in Field
    <3>1. first[x] \in Field /\ second[x] \in Field
      BY <1>1, ChallengesAssumption DEF EmulInv
    <3> QED BY <3>1, PlainAlphaIs DEF ShareInv
  <2> QED BY <1>1, <2>1 DEF EmulInv
<1>5. sig.length = LengthBuilt(hidden) /\ \A x \in Execs : sig.proofs[x] = SentProof(x)
  BY <1>1 DEF Sent
<1>6. sig.proofs = [x \in Execs |-> SentProof(x)]
  BY <1>1 DEF Sent
<1>7. \A x \in Execs : aux[x] \in [wit : Field, hint : Field]
  BY DEF ShareInv, Given
<1>8. ASSUME NEW x \in Execs
      PROVE  /\ sig.proofs[x] = [digest |-> sig.proofs[x].digest, alpha |-> alphas[x],
                                 aux |-> sig.proofs[x].aux,
                                 hintDigest |-> sig.proofs[x].hintDigest]
             /\ hidden[x] # Last => sig.proofs[x].aux = aux[x]
  <2> DEFINE a == IF hidden[x] # Last THEN aux[x] ELSE NoDigest
             d == IF hidden[x] # Last THEN NoDigest ELSE hintComs[x]
  <2>1. sig.proofs[x] = [digest |-> coms[x][hidden[x]], alpha |-> alphas[x], aux |-> a,
                         hintDigest |-> d]
    BY <1>5 DEF SentProof, AuxSent
  <2>2. hidden[x] # Last => a = aux[x]
    OBVIOUS
  <2> HIDE DEF a, d
  <2> QED BY <2>1, <2>2
<1>9. sig = [salt |-> "salt", first |-> sig.first, second |-> sig.second, view |-> sig.view,
             proofs |-> sig.proofs, length |-> sig.length]
  BY <1>1 DEF Sent
<1>10. sig.proofs = [x \in Execs |-> sig.proofs[x]]
  BY <1>6
<1> QED BY <1>2, <1>3, <1>4, <1>5, <1>7, <1>8, <1>9, <1>10

\* A signature altered outside of the proofs.
LEMMA HeaderAltered ==
  ASSUME ShareInv, EmulInv, DeliverOtherHeader
  PROVE  Altered'
<1>1. pc = "sent" /\ UNCHANGED <<sig, fixed>>
  BY DEF DeliverOtherHeader, Deliver, signVars
<1>2. /\ sig = [salt |-> "salt", first |-> sig.first, second |-> sig.second, view |-> sig.view,
                proofs |-> sig.proofs, length |-> sig.length]
      /\ sig.length \in Int
  BY <1>1, SentSignature
<1>3. \/ got' = [msg |-> "other", sig |-> sig, badSeeds |-> {}]
      \/ got' = [msg |-> "msg", sig |-> [sig EXCEPT !.salt = "other"], badSeeds |-> {}]
      \/ got' = [msg |-> "msg", sig |-> [sig EXCEPT !.first = Forged], badSeeds |-> {}]
      \/ got' = [msg |-> "msg", sig |-> [sig EXCEPT !.second = Forged], badSeeds |-> {}]
      \/ got' = [msg |-> "msg", sig |-> [sig EXCEPT !.view = Forged], badSeeds |-> {}]
      \/ \E n \in {-1, 1} :
           got' = [msg |-> "msg", sig |-> [sig EXCEPT !.length = @ + n], badSeeds |-> {}]
  BY DEF DeliverOtherHeader, Deliver
<1>4. \/ got'.msg # "msg" /\ got'.sig = sig
      \/ /\ got'.sig.salt # "salt"
         /\ got'.sig.first = sig.first /\ got'.sig.second = sig.second /\ got'.sig.view = sig.view
      \/ got'.sig.first = Forged
      \/ got'.sig.second = Forged
      \/ got'.sig.view = Forged
      \/ /\ got'.sig.length # sig.length
         /\ got'.sig.first = sig.first /\ got'.sig.second = sig.second /\ got'.sig.view = sig.view
  BY <1>2, <1>3
<1> QED BY <1>1, <1>4 DEF Altered, SameDigests

\* A signature altered in the proof of an execution.
LEMMA ProofAltered ==
  ASSUME ShareInv, EmulInv, DeliverOtherProof
  PROVE  Altered'
<1>1. pc = "sent" /\ UNCHANGED <<sig, fixed, hidden, alphas, aux>>
  BY DEF DeliverOtherProof, Deliver, signVars
<1>2. Execs' = Execs /\ Parties' = Parties /\ Last' = Last
  BY <1>1 DEF Execs, Parties, Last, fixed
<1>3. PICK x \in Execs :
       \/ Deliver("msg", [sig EXCEPT !.proofs[x].digest = Forged], {})
       \/ Deliver("msg", [sig EXCEPT !.proofs[x].alpha = F(@ + 1)], {})
       \/ \E bad \in {{p} : p \in Parties} \cup {Parties} :
            bad # {hidden[x]} /\ Deliver("msg", sig, {Seed(x, p) : p \in bad})
       \/ AuxSent(hidden[x]) /\ Deliver("msg", [sig EXCEPT !.proofs[x].aux.wit = F(@ + 1)], {})
       \/ AuxSent(hidden[x]) /\ Deliver("msg", [sig EXCEPT !.proofs[x].aux.hint = F(@ + 1)], {})
       \/ ~AuxSent(hidden[x]) /\ Deliver("msg", [sig EXCEPT !.proofs[x].hintDigest = Forged], {})
  BY Zenon DEF DeliverOtherProof
<1>4. \A m, s, bad : Deliver(m, s, bad) => got'.sig = s /\ got'.badSeeds = bad
  BY DEF Deliver
<1>5. /\ sig = [salt |-> "salt", first |-> sig.first, second |-> sig.second, view |-> sig.view,
                proofs |-> sig.proofs, length |-> sig.length]
      /\ sig.proofs = [z \in Execs |-> sig.proofs[z]]
      /\ sig.proofs[x] = [digest |-> sig.proofs[x].digest, alpha |-> alphas[x],
                          aux |-> sig.proofs[x].aux, hintDigest |-> sig.proofs[x].hintDigest]
      /\ alphas[x] \in Field /\ hidden[x] \in Parties
      /\ hidden[x] # Last => sig.proofs[x].aux = aux[x]
      /\ aux[x] \in [wit : Field, hint : Field]
  BY <1>1, SentSignature
<1>6. "proofs" \in DOMAIN sig /\ DOMAIN sig.proofs = Execs
      /\ "digest" \in DOMAIN sig.proofs[x] /\ "alpha" \in DOMAIN sig.proofs[x]
      /\ "aux" \in DOMAIN sig.proofs[x] /\ "hintDigest" \in DOMAIN sig.proofs[x]
  BY <1>5
<1>7. ASSUME NEW s, NEW q, s = [sig EXCEPT !.proofs[x] = q]
      PROVE  /\ s.first = sig.first /\ s.second = sig.second /\ s.view = sig.view
             /\ s.proofs[x] = q
  BY <1>5, <1>6, <1>7
<1>8. ASSUME NEW q, got'.sig = [sig EXCEPT !.proofs[x] = q],
             \/ q.digest = Forged
             \/ q.alpha # alphas[x]
             \/ /\ hidden[x] # Last /\ q.aux # NoDigest
                /\ q.aux.wit # aux[x].wit \/ q.aux.hint # aux[x].hint
             \/ hidden[x] = Last /\ q.hintDigest = Forged
      PROVE  Altered'
  <2>1. /\ got'.sig.first = sig.first /\ got'.sig.second = sig.second /\ got'.sig.view = sig.view
        /\ got'.sig.proofs[x] = q
    BY <1>7, <1>8
  <2>2. AlteredProof(x)'
    BY <1>1, <1>2, <1>8, <2>1 DEF AlteredProof
  <2> QED BY <1>1, <1>2, <2>1, <2>2 DEF Altered, SameDigests
<1>9. CASE got'.sig = [sig EXCEPT !.proofs[x].digest = Forged]
  <2> DEFINE q == [sig.proofs[x] EXCEPT !.digest = Forged]
  <2>1. got'.sig = [sig EXCEPT !.proofs[x] = q] /\ q.digest = Forged
    BY <1>6, <1>9
  <2> HIDE DEF q
  <2> QED BY <1>8, <2>1
<1>10. CASE got'.sig = [sig EXCEPT !.proofs[x].alpha = F(@ + 1)]
  <2> DEFINE q == [sig.proofs[x] EXCEPT !.alpha = F(@ + 1)]
  <2>1. got'.sig = [sig EXCEPT !.proofs[x] = q]
    BY <1>10
  <2>2. q.alpha = F(alphas[x] + 1)
    BY <1>5
  <2> HIDE DEF q
  <2> QED BY <1>5, <1>8, <2>1, <2>2, NextDiffers
<1>11. CASE hidden[x] # Last /\ got'.sig = [sig EXCEPT !.proofs[x].aux.wit = F(@ + 1)]
  <2> DEFINE a == [aux[x] EXCEPT !.wit = F(@ + 1)]
             q == [sig.proofs[x] EXCEPT !.aux = a]
  <2>1. got'.sig = [sig EXCEPT !.proofs[x] = q]
    BY <1>5, <1>11
  <2>2. q.aux = a
    BY <1>6
  <2>3. a # NoDigest /\ a.wit # aux[x].wit
    <3>1. a.wit = F(aux[x].wit + 1) /\ aux[x].wit \in Field
      BY <1>5
    <3>2. DOMAIN a = {"wit", "hint"} /\ DOMAIN NoDigest = {"none"}
      BY <1>5 DEF NoDigest
    <3> HIDE DEF a
    <3> QED BY <3>1, <3>2, NextDiffers
  <2> HIDE DEF q, a
  <2> QED BY <1>8, <1>11, <2>1, <2>2, <2>3
<1>12. CASE hidden[x] # Last /\ got'.sig = [sig EXCEPT !.proofs[x].aux.hint = F(@ + 1)]
  <2> DEFINE a == [aux[x] EXCEPT !.hint = F(@ + 1)]
             q == [sig.proofs[x] EXCEPT !.aux = a]
  <2>1. got'.sig = [sig EXCEPT !.proofs[x] = q]
    BY <1>5, <1>12
  <2>2. q.aux = a
    BY <1>6
  <2>3. a # NoDigest /\ a.hint # aux[x].hint
    <3>1. a.hint = F(aux[x].hint + 1) /\ aux[x].hint \in Field
      BY <1>5
    <3>2. DOMAIN a = {"wit", "hint"} /\ DOMAIN NoDigest = {"none"}
      BY <1>5 DEF NoDigest
    <3> HIDE DEF a
    <3> QED BY <3>1, <3>2, NextDiffers
  <2> HIDE DEF q, a
  <2> QED BY <1>8, <1>12, <2>1, <2>2, <2>3
<1>13. CASE hidden[x] = Last /\ got'.sig = [sig EXCEPT !.proofs[x].hintDigest = Forged]
  <2> DEFINE q == [sig.proofs[x] EXCEPT !.hintDigest = Forged]
  <2>1. got'.sig = [sig EXCEPT !.proofs[x] = q] /\ q.hintDigest = Forged
    BY <1>6, <1>13
  <2> HIDE DEF q
  <2> QED BY <1>8, <1>13, <2>1
<1>14. CASE \E bad \in {{p} : p \in Parties} \cup {Parties} :
              /\ bad # {hidden[x]}
              /\ got'.sig = sig /\ got'.badSeeds = {Seed(x, p) : p \in bad}
  <2>1. PICK bad \in {{p} : p \in Parties} \cup {Parties} :
              /\ bad # {hidden[x]}
              /\ got'.sig = sig /\ got'.badSeeds = {Seed(x, p) : p \in bad}
    BY <1>14
  <2>2. \E p \in bad : p \in Parties /\ p # hidden[x]
    <3>1. CASE \E q \in Parties : bad = {q}
      BY <2>1, <3>1
    <3>2. CASE bad = Parties
      <4>1. 0 \in Parties /\ 1 \in Parties
        BY BuildNumbers DEF ShareInv, Parties
      <4> QED BY <3>2, <4>1
    <3> QED BY <2>1, <3>1, <3>2
  <2>3. PICK p \in bad : p \in Parties /\ p # hidden[x]
    BY <2>2
  <2>4. Seed(x, p) \in got'.badSeeds
    BY <2>1
  <2>5. AlteredProof(x)'
    BY <1>1, <1>2, <2>3, <2>4 DEF AlteredProof
  <2> QED BY <1>1, <1>2, <2>1, <2>5 DEF Altered, SameDigests
<1> QED BY <1>3, <1>4, <1>9, <1>10, <1>11, <1>12, <1>13, <1>14 DEF AuxSent

\* No digest of what is sent is a forged one.
LEMMA NothingForged ==
  ASSUME ShareInv, EmulInv, pc = "sent"
  PROVE  /\ sig.first # Forged /\ sig.second # Forged /\ sig.view # Forged /\ sig.salt = "salt"
         /\ \A x \in Execs : /\ sig.proofs[x].digest # Forged
                             /\ sig.proofs[x].alpha = alphas[x]
                             /\ hidden[x] = Last => sig.proofs[x].hintDigest # Forged
                             /\ hidden[x] # Last => sig.proofs[x].aux = aux[x]
<1>1. sig = Sent
  BY DEF EmulInv, Signing
<1>2. DOMAIN Forged = {"forged"}
  BY DEF Forged
<1>3. sig.first # Forged /\ sig.second # Forged /\ sig.view # Forged /\ sig.salt = "salt"
  <2>1. \A c, s : "inst" \in DOMAIN FirstHash(c, s)
    BY DEF FirstHash
  <2>2. \A f, c, s : "hints" \in DOMAIN SecondHash(f, c, s)
    BY DEF SecondHash
  <2>3. \A t, b, a, s, m : "br" \in DOMAIN ViewHash(t, b, a, s, m)
    BY DEF ViewHash
  <2>4. /\ "inst" \in DOMAIN sig.first /\ "hints" \in DOMAIN sig.second /\ "br" \in DOMAIN sig.view
        /\ sig.salt = "salt"
    BY <1>1, <2>1, <2>2, <2>3 DEF Sent
  <2> QED BY <1>2, <2>4
<1>4. ASSUME NEW x \in Execs
      PROVE  /\ sig.proofs[x].digest # Forged
             /\ sig.proofs[x].alpha = alphas[x]
             /\ hidden[x] = Last => sig.proofs[x].hintDigest # Forged
             /\ hidden[x] # Last => sig.proofs[x].aux = aux[x]
  <2>1. sig.proofs[x] = SentProof(x)
    BY <1>1 DEF Sent
  <2>2. /\ SentProof(x).digest = coms[x][hidden[x]] /\ SentProof(x).alpha = alphas[x]
        /\ hidden[x] = Last => SentProof(x).hintDigest = hintComs[x]
        /\ hidden[x] # Last => SentProof(x).aux = aux[x]
    BY DEF SentProof, AuxSent
  <2>3. x \in Hinted
    BY DEF Hinted
  <2>4. /\ coms[x] = [p \in 0..(build.parties - 1) |-> CommitOf(build, x, p, aux[x].wit)]
        /\ hintComs[x] = HintCommit(build, x, aux[x].hint)
    BY <2>3 DEF ShareInv, WhollyShared
  <2>5. hidden[x] \in 0..(build.parties - 1)
    BY DEF EmulInv, Parties
  <2>6. coms[x][hidden[x]] = CommitOf(build, x, hidden[x], aux[x].wit)
    BY <2>4, <2>5
  <2>7. \A p, w : "exec" \in DOMAIN CommitOf(build, x, p, w)
    BY DEF CommitOf
  <2>8. \A h : "exec" \in DOMAIN HintCommit(build, x, h)
    BY DEF HintCommit
  <2>9. coms[x][hidden[x]] # Forged /\ hintComs[x] # Forged
    BY <1>2, <2>4, <2>6, <2>7, <2>8
  <2> QED BY <2>1, <2>2, <2>9
<1> QED BY <1>3, <1>4

LEMMA DeliverStep ==
  ASSUME ShareInv, EmulInv, GotInv, DeliverGenuine \/ DeliverOtherHeader \/ DeliverOtherProof
  PROVE  GotInv'
<1>1. pc = "sent" /\ pc' = "parse" /\ UNCHANGED <<sig, verdict>> /\ verdict = "none"
  BY DEF DeliverGenuine, DeliverOtherHeader, DeliverOtherProof, Deliver, signVars, GotInv
<1>2. CASE DeliverGenuine
  <2>1. genuine' = TRUE /\ got' = [msg |-> "msg", sig |-> sig, badSeeds |-> {}]
    BY <1>2 DEF DeliverGenuine, Deliver
  <2> QED BY <1>1, <2>1 DEF GotInv, Unaltered, Signing, Verifying
<1>3. CASE DeliverOtherHeader \/ DeliverOtherProof
  <2>1. Altered' /\ genuine' \in BOOLEAN
    BY <1>3, HeaderAltered, ProofAltered DEF DeliverOtherHeader, DeliverOtherProof, Deliver
  <2>2. /\ genuine' => got'.msg = "msg" /\ got'.sig = sig /\ got'.badSeeds = {}
        /\ UNCHANGED <<fixed, sig, alphas, aux, hidden>>
    <3>1. \E m, s, bad : Deliver(m, s, bad)
      BY <1>3, Zenon DEF DeliverOtherHeader, DeliverOtherProof
    <3>2. ASSUME NEW m, NEW s, NEW bad, Deliver(m, s, bad)
          PROVE  /\ genuine' => got'.msg = "msg" /\ got'.sig = sig /\ got'.badSeeds = {}
                 /\ UNCHANGED <<fixed, sig, alphas, aux, hidden>>
      BY <3>2 DEF Deliver, signVars
    <3> QED BY <3>1, <3>2
  <2>3. Execs' = Execs /\ Last' = Last
    BY <2>2 DEF Execs, Last, fixed
  <2>4. genuine' => ~Altered'
    BY <1>1, <2>2, <2>3, NothingForged DEF Altered, AlteredProof
  <2>5. genuine' = FALSE
    BY <2>1, <2>4
  <2> QED BY <1>1, <2>1, <2>5 DEF GotInv, Signing, Verifying
<1> QED BY <1>2, <1>3

-----------------------------------------------------------------------------
(* The transcripts of the signer and of the verifier.                      *)

\* SameTranscript is not inductive without what the shares, the challenges and the
\* parsed fields hold at each step of the loops of the signer and of the verifier.
TranscriptInv == ShareInv /\ EmulInv /\ GotInv /\ VerifierInv

LEMMA InitTranscript == Init => TranscriptInv
BY InitShares, InitEmul, InitVerifier DEF TranscriptInv

LEMMA TranscriptStep == TranscriptInv /\ [Next]_vars => TranscriptInv'
<1> SUFFICES ASSUME TranscriptInv, [Next]_vars PROVE TranscriptInv'
  OBVIOUS
<1> USE DEF TranscriptInv
<1>1. ShareInv' /\ EmulInv'
  BY ShareStep, EmulStep
<1>2. CASE UNCHANGED vars \/ Stopped
  <2>1. UNCHANGED <<pc, fixed, e, signVars, verVars>>
    BY <1>2 DEF vars, Stopped
  <2> USE DEF fixed, signVars, verVars
  <2>2. Execs' = Execs /\ Parties' = Parties /\ Last' = Last
    BY <2>1 DEF Execs, Parties, Last
  <2>3. GotInv'
    BY <2>1, <2>2 DEF GotInv, Unaltered, Altered, AlteredProof, SameDigests
  <2>4. \A x : Recommitted(x)' <=> Recommitted(x)
    BY <2>1, <2>2 DEF Recommitted, Recommit, RecommitHint, CommitSeed, CommitHint, Rebuilt, ParsedAux
  <2>5. Parsed => Parsed'
    BY <2>1, ParsedKept
  <2>6. VerifierInv'
    BY <2>1, <2>2, <2>4, <2>5 DEF VerifierInv, Challenged, Recomputed
  <2> QED BY <1>1, <2>3, <2>6
<1>3. CASE \/ ShareSecret \/ FirstChallenge \/ ComputeHint \/ SecondChallenge \/ Simulate
           \/ ViewChallenge \/ BuildSignature
  <2>1. /\ pc \in Signing /\ pc' \in Signing \cup {"sent", "failed"}
        /\ UNCHANGED <<fixed, verVars>>
    BY <1>3 DEF ShareSecret, FirstChallenge, ComputeHint, SecondChallenge, Simulate,
       ViewChallenge, BuildSignature, NextExec, Signing
  <2>2. pc' \in Signing \cup {"sent"}
    BY <1>1, <2>1 DEF EmulInv
  <2>3. GotInv'
    BY <2>1, <2>2 DEF GotInv, verVars, Signing, Verifying
  <2>4. VerifierInv'
    BY <2>1, <2>2, NotYetVerifying DEF verVars, Signing
  <2> QED BY <1>1, <2>3, <2>4
<1>4. CASE DeliverGenuine \/ DeliverOtherHeader \/ DeliverOtherProof
  <2>1. pc' = "parse" /\ UNCHANGED <<fixed, vcoms, vhintComs, vbr>>
    BY <1>4 DEF DeliverGenuine, DeliverOtherHeader, DeliverOtherProof, Deliver
  <2> QED BY <1>1, <1>4, <2>1, DeliverStep, NotYetVerifying
<1>5. CASE Parse \/ ExpandChallenges \/ Recompute
  <2>1. VerifierInv'
    BY <1>5, ParseStep, ExpandStep, RecomputeStep
  <2>2. /\ pc \in Verifying /\ UNCHANGED <<fixed, signVars, got, genuine>>
        /\ \/ pc' \in Verifying /\ verdict' = verdict
           \/ pc' = "done"
    BY <1>5 DEF Parse, ExpandChallenges, Recompute, NextExec, Verifying
  <2>3. CASE pc' \in Verifying /\ verdict' = verdict
    BY <1>1, <2>1, <2>2, <2>3, GotKept
  <2>4. CASE pc' = "done"
    <3>1. GotInv'
      BY <2>2, <2>4 DEF GotInv, Signing, Verifying
    <3> QED BY <1>1, <2>1, <3>1
  <2> QED BY <2>2, <2>3, <2>4
<1>6. CASE Compare
  <2>1. pc' = "done" /\ UNCHANGED <<fixed, genuine, vcoms, vhintComs, vbr>>
    BY <1>6 DEF Compare
  <2>2. GotInv'
    BY <2>1 DEF GotInv, Signing, Verifying
  <2> QED BY <1>1, <2>1, <2>2, NotYetVerifying
<1> QED BY <1>2, <1>3, <1>4, <1>5, <1>6 DEF Next

LEMMA TranscriptInvariant == Spec => []TranscriptInv
BY InitTranscript, TranscriptStep, PTL DEF Spec

\* What the signer has committed to for an execution, and the verifier recommitted.
LEMMA BothCommit ==
  ASSUME TranscriptInv, pc = "compare", NEW x \in Execs
  PROVE  /\ coms[x] = [p \in Parties |-> CommitSeed(x, p, Seed(x, p), aux[x].wit, "salt")]
         /\ hintComs[x] = CommitHint(x, aux[x].hint, "salt")
         /\ Recommitted(x) /\ (genuine => vbr[x] = br[x])
<1> USE DEF TranscriptInv
<1>1. x \in Hinted
  BY DEF Hinted
<1>2. /\ coms[x] = [p \in 0..(build.parties - 1) |-> CommitOf(build, x, p, aux[x].wit)]
      /\ hintComs[x] = HintCommit(build, x, aux[x].hint)
  BY <1>1 DEF ShareInv, WhollyShared
<1>3. Recommitted(x) /\ (genuine => vbr[x] = br[x])
  BY DEF VerifierInv, Recomputed, Execs
<1> QED BY <1>2, <1>3, Commits DEF Parties

\* What the verifier of a genuine signature has recomputed at the end.
LEMMA TranscriptsAgree ==
  ASSUME TranscriptInv, genuine, pc = "compare"
  PROVE  vcoms = coms /\ vhintComs = hintComs /\ vbr = br
<1> USE DEF TranscriptInv
<1>1. pc \in Verifying
  BY DEF Verifying
<1>2. Parsed
  BY DEF VerifierInv
<1>3. /\ vhidden = hidden /\ got.sig.salt = "salt" /\ hidden \in [Execs -> Parties]
      /\ \A x \in Execs : got.sig.proofs[x] = SentProof(x)
  <2>1. got.sig = sig
    BY <1>1, GenuineSignature
  <2> QED BY <1>1, <1>2, <2>1, GenuineSignature DEF Parsed
<1>4. ASSUME NEW x \in Execs PROVE vcoms[x] = coms[x] /\ vhintComs[x] = hintComs[x]
  <2>1. /\ coms[x] = [p \in Parties |-> CommitSeed(x, p, Seed(x, p), aux[x].wit, "salt")]
        /\ hintComs[x] = CommitHint(x, aux[x].hint, "salt")
        /\ vcoms[x] = [p \in Parties |-> Recommit(x, p)] /\ vhintComs[x] = RecommitHint(x)
    BY BothCommit DEF Recommitted
  <2>2. /\ got.sig.proofs[x].digest = coms[x][hidden[x]]
        /\ hidden[x] = Last => got.sig.proofs[x].hintDigest = hintComs[x]
    <3>1. got.sig.proofs[x] = SentProof(x)
      BY <1>3
    <3> QED BY <3>1 DEF SentProof, AuxSent
  <2>3. hidden[x] # Last => ParsedAux(x) = aux[x]
    BY <1>1, GenuineAux
  <2>4. ASSUME NEW p \in Parties
        PROVE  Recommit(x, p) = CommitSeed(x, p, Seed(x, p), aux[x].wit, "salt")
    <3>1. CASE p = hidden[x]
      <4>1. coms[x][p] = CommitSeed(x, p, Seed(x, p), aux[x].wit, "salt")
        BY <2>1
      <4> QED BY <1>3, <2>2, <3>1, <4>1 DEF Recommit
    <3>2. CASE p # hidden[x]
      <4>1. Rebuilt(x, p) = Seed(x, p)
        BY <1>1, <1>2, <3>2, GenuineSeeds
      <4>2. p = Last => ParsedAux(x).wit = aux[x].wit
        BY <2>3, <3>2
      <4> QED BY <1>3, <3>2, <4>1, <4>2 DEF Recommit, CommitSeed
    <3> QED BY <3>1, <3>2
  <2>5. RecommitHint(x) = CommitHint(x, aux[x].hint, "salt")
    BY <1>3, <2>1, <2>2, <2>3 DEF RecommitHint
  <2> QED BY <2>1, <2>4, <2>5
<1>5. OnExecs(vcoms, Execs) /\ OnExecs(vhintComs, Execs) /\ OnExecs(vbr, Execs)
  BY DEF VerifierInv
<1>6. OnExecs(coms, Execs) /\ OnExecs(hintComs, Execs)
  BY DEF ShareInv, OnExecs
<1>7. OnExecs(br, Execs)
  BY DEF EmulInv, OnExecs
<1>8. \A x \in Execs : vbr[x] = br[x]
  BY BothCommit
<1>9. ASSUME NEW c, NEW d, NEW S, OnExecs(c, S), OnExecs(d, S), \A x \in S : c[x] = d[x]
      PROVE  c = d
  BY <1>9 DEF OnExecs
<1>10. vcoms = coms
  BY <1>4, <1>5, <1>6, <1>9
<1>11. vhintComs = hintComs
  BY <1>4, <1>5, <1>6, <1>9
<1>12. vbr = br
  BY <1>5, <1>7, <1>8, <1>9
<1> QED BY <1>10, <1>11, <1>12

\* For every build of the four packings, key, seed, challenges and hidden parties: when
\* a signature reaches mpcith_additive_based_7r_sign_verify as it was sent, the
\* commitments, those of the hints included, and the broadcasts it recomputes are the
\* signer's, although it packs other combinations of the shares and knows nothing of the
\* hidden one.
THEOREM RecomputesBothTranscripts == Spec => []SameTranscript
<1>1. TranscriptInv => SameTranscript
  BY TranscriptsAgree DEF SameTranscript
<1> QED BY <1>1, TranscriptInvariant, PTL

-----------------------------------------------------------------------------
(* The promise of a signature scheme.                                      *)

\* The last digest binds the message, and the three of them every field.
LEMMA HashesBind ==
  /\ \A c, d, s, t : FirstHash(c, s) = FirstHash(d, t) => c = d /\ s = t
  /\ \A f, g, c, d, s, t : SecondHash(f, c, s) = SecondHash(g, d, t) => f = g /\ c = d /\ s = t
  /\ \A f, g, c, d, a, b, s, t, m, n :
       ViewHash(f, c, a, s, m) = ViewHash(g, d, b, t, n) => c = d /\ a = b /\ m = n
<1>1. \A c, s : FirstHash(c, s).coms = c /\ FirstHash(c, s).salt = s
  BY DEF FirstHash
<1>2. \A f, c, s : /\ SecondHash(f, c, s).first = f /\ SecondHash(f, c, s).hints = c
                   /\ SecondHash(f, c, s).salt = s
  BY DEF SecondHash
<1>3. \A f, c, a, s, m : /\ ViewHash(f, c, a, s, m).br = c /\ ViewHash(f, c, a, s, m).alphas = a
                         /\ ViewHash(f, c, a, s, m).msg = m
  BY DEF ViewHash
<1>4. \A c, d, s, t : FirstHash(c, s) = FirstHash(d, t) => c = d /\ s = t
  BY <1>1
<1>5. \A f, g, c, d, s, t : SecondHash(f, c, s) = SecondHash(g, d, t) => f = g /\ c = d /\ s = t
  BY <1>2
<1>6. \A f, g, c, d, a, b, s, t, m, n :
        ViewHash(f, c, a, s, m) = ViewHash(g, d, b, t, n) => c = d /\ a = b /\ m = n
  BY <1>3
<1> QED BY <1>4, <1>5, <1>6

\* An accepted signature was not altered.
LEMMA AlteredIsRejected ==
  ASSUME TranscriptInv, ~genuine, pc = "compare"
  PROVE  ~SameHashes
<1> USE DEF TranscriptInv
<1> SUFFICES ASSUME SameHashes PROVE FALSE
  OBVIOUS
<1> DEFINE gotAlphas == [x \in Execs |-> got.sig.proofs[x].alpha]
<1>1. Parsed /\ Altered /\ build \in Builds /\ hidden \in [Execs -> Parties] /\ sig = Sent
  BY DEF VerifierInv, GotInv, Verifying, ShareInv, EmulInv, Signing
<1>2. /\ FirstHash(vcoms, got.sig.salt) = got.sig.first
      /\ SecondHash(got.sig.first, vhintComs, got.sig.salt) = got.sig.second
      /\ ViewHash(got.sig.second, vbr, gotAlphas, got.sig.salt, got.msg) = got.sig.view
  BY DEF SameHashes
<1>3. got.sig.first # Forged /\ got.sig.second # Forged /\ got.sig.view # Forged
  <2>1. \A c, s : "inst" \in DOMAIN FirstHash(c, s)
    BY DEF FirstHash
  <2>2. \A f, c, s : "hints" \in DOMAIN SecondHash(f, c, s)
    BY DEF SecondHash
  <2>3. \A t, b, a, s, m : "br" \in DOMAIN ViewHash(t, b, a, s, m)
    BY DEF ViewHash
  <2>4. DOMAIN Forged = {"forged"}
    BY DEF Forged
  <2> HIDE DEF gotAlphas
  <2> QED BY <1>2, <2>1, <2>2, <2>3, <2>4
<1>4. /\ SameDigests
      /\ \/ got.msg # "msg"
         \/ got.sig.salt # "salt"
         \/ got.sig.length # sig.length
         \/ \E x \in Execs : AlteredProof(x)
  BY <1>1, <1>3 DEF Altered
<1>5. /\ sig.first = FirstHash(coms, "salt") /\ sig.second = SecondHash(sig.first, hintComs, "salt")
      /\ sig.view = ViewHash(sig.second, br, alphas, "salt", "msg")
      /\ sig.length = LengthBuilt(hidden)
  BY <1>1 DEF Sent
<1>6. /\ vcoms = coms /\ vhintComs = hintComs /\ got.sig.salt = "salt" /\ got.msg = "msg"
      /\ gotAlphas = alphas
  <2> HIDE DEF gotAlphas
  <2>1. FirstHash(vcoms, got.sig.salt) = FirstHash(coms, "salt")
    BY <1>2, <1>4, <1>5 DEF SameDigests
  <2>2. SecondHash(got.sig.first, vhintComs, got.sig.salt) = SecondHash(sig.first, hintComs, "salt")
    BY <1>2, <1>4, <1>5 DEF SameDigests
  <2>3. ViewHash(got.sig.second, vbr, gotAlphas, got.sig.salt, got.msg)
          = ViewHash(sig.second, br, alphas, "salt", "msg")
    BY <1>2, <1>4, <1>5 DEF SameDigests
  <2>4. vcoms = coms /\ got.sig.salt = "salt"
    BY <2>1, HashesBind
  <2>5. vhintComs = hintComs
    BY <2>2, HashesBind
  <2>6. gotAlphas = alphas /\ got.msg = "msg"
    BY <2>3, HashesBind
  <2> QED BY <2>4, <2>5, <2>6
<1>7. vhidden = hidden /\ got.sig.length = LengthRequired(hidden)
  BY <1>1, <1>4 DEF Parsed, SameDigests
<1>8. got.sig.length = sig.length
  BY <1>1, <1>5, <1>7, LengthsAgree
<1>9. PICK x \in Execs : AlteredProof(x)
  BY <1>4, <1>6, <1>8
<1>10. hidden[x] \in Parties /\ Last \in Parties
  BY <1>1, BuildNumbers DEF Parties, Last
<1>11. /\ \A p \in Parties : Recommit(x, p) = CommitSeed(x, p, Seed(x, p), aux[x].wit, "salt")
       /\ RecommitHint(x) = CommitHint(x, aux[x].hint, "salt")
  <2>1. /\ coms[x] = [p \in Parties |-> CommitSeed(x, p, Seed(x, p), aux[x].wit, "salt")]
        /\ hintComs[x] = CommitHint(x, aux[x].hint, "salt")
        /\ coms[x] = [p \in Parties |-> Recommit(x, p)] /\ hintComs[x] = RecommitHint(x)
    BY <1>6, BothCommit DEF Recommitted
  <2>2. ASSUME NEW p \in Parties
        PROVE  Recommit(x, p) = CommitSeed(x, p, Seed(x, p), aux[x].wit, "salt")
    <3>1. coms[x][p] = CommitSeed(x, p, Seed(x, p), aux[x].wit, "salt")
      BY <2>1
    <3>2. coms[x][p] = Recommit(x, p)
      BY <2>1
    <3> QED BY <3>1, <3>2
  <2> QED BY <2>1, <2>2
<1>12. /\ \A p, sd, w, s : /\ CommitSeed(x, p, sd, w, s).seed = sd
                           /\ CommitSeed(x, p, sd, w, s).wit = IF p = Last THEN w ELSE 0
                           /\ "exec" \in DOMAIN CommitSeed(x, p, sd, w, s)
       /\ \A h, s : /\ CommitHint(x, h, s).hint = h
                    /\ "exec" \in DOMAIN CommitHint(x, h, s)
  BY DEF CommitSeed, CommitHint
<1>13. DOMAIN Forged = {"forged"}
  BY DEF Forged
<1>14. CASE got.sig.proofs[x].digest = Forged
  <2>1. Recommit(x, hidden[x]) = Forged
    BY <1>7, <1>14 DEF Recommit
  <2> QED BY <1>10, <1>11, <1>12, <1>13, <2>1
<1>15. CASE got.sig.proofs[x].alpha # alphas[x]
  <2>1. gotAlphas[x] = got.sig.proofs[x].alpha
    OBVIOUS
  <2> QED BY <1>6, <1>15, <2>1
<1>16. CASE \E p \in Parties : p # hidden[x] /\ Seed(x, p) \in got.badSeeds
  <2>1. PICK p \in Parties : p # hidden[x] /\ Seed(x, p) \in got.badSeeds
    BY <1>16
  <2>2. Recommit(x, p) = CommitSeed(x, p, JunkSeed, ParsedAux(x).wit, got.sig.salt)
    BY <1>7, <2>1 DEF Recommit, Rebuilt
  <2>3. JunkSeed = Seed(x, p)
    BY <1>11, <1>12, <2>2
  <2> QED BY <2>3, SeedsAreNotJunk
<1>17. CASE /\ hidden[x] # Last /\ got.sig.proofs[x].aux # NoDigest
            /\ \/ got.sig.proofs[x].aux.wit # aux[x].wit
               \/ got.sig.proofs[x].aux.hint # aux[x].hint
  <2>1. ParsedAux(x) = got.sig.proofs[x].aux
    BY <1>17 DEF ParsedAux
  <2>2. Recommit(x, Last) = CommitSeed(x, Last, Rebuilt(x, Last), ParsedAux(x).wit, got.sig.salt)
    BY <1>7, <1>17 DEF Recommit
  <2>3. RecommitHint(x) = CommitHint(x, ParsedAux(x).hint, got.sig.salt)
    BY <1>7, <1>17 DEF RecommitHint
  <2>4. ParsedAux(x).wit = aux[x].wit
    BY <1>10, <1>11, <1>12, <2>2
  <2>5. ParsedAux(x).hint = aux[x].hint
    BY <1>11, <1>12, <2>3
  <2> QED BY <1>17, <2>1, <2>4, <2>5
<1>18. CASE hidden[x] = Last /\ got.sig.proofs[x].hintDigest = Forged
  <2>1. RecommitHint(x) = Forged
    BY <1>7, <1>18 DEF RecommitHint
  <2> QED BY <1>11, <1>12, <1>13, <2>1
<1> QED BY <1>9, <1>14, <1>15, <1>16, <1>17, <1>18 DEF AlteredProof

\* A signature that was not altered is as long as the parser requires, and its digests
\* are those recomputed.
LEMMA GenuineIsAccepted ==
  ASSUME TranscriptInv, genuine, pc = "compare"
  PROVE  SameHashes
<1> USE DEF TranscriptInv
<1>1. pc \in Verifying
  BY DEF Verifying
<1>2. vcoms = coms /\ vhintComs = hintComs /\ vbr = br
  BY TranscriptsAgree
<1>3. /\ got.msg = "msg" /\ got.sig = Sent /\ got.sig.salt = "salt"
      /\ \A x \in Execs : got.sig.proofs[x] = SentProof(x)
  BY <1>1, GenuineSignature
<1>4. [x \in Execs |-> got.sig.proofs[x].alpha] = alphas
  <2>1. ASSUME NEW x \in Execs PROVE got.sig.proofs[x].alpha = alphas[x]
    <3>1. got.sig.proofs[x] = SentProof(x)
      BY <1>3
    <3>2. SentProof(x).alpha = alphas[x]
      BY DEF SentProof
    <3> QED BY <3>1, <3>2
  <2>2. OnExecs(alphas, Execs)
    BY DEF EmulInv, OnExecs
  <2> QED BY <2>1, <2>2 DEF OnExecs
<1>5. /\ got.sig.first = FirstHash(coms, "salt")
      /\ got.sig.second = SecondHash(got.sig.first, hintComs, "salt")
      /\ got.sig.view = ViewHash(got.sig.second, br, alphas, "salt", "msg")
  BY <1>3 DEF Sent
<1> QED BY <1>2, <1>3, <1>4, <1>5 DEF SameHashes

LEMMA GenuineParses ==
  ASSUME TranscriptInv, genuine, Parse
  PROVE  pc' = "expand" /\ verdict' = verdict
<1> USE DEF TranscriptInv
<1>1. pc \in Verifying
  BY DEF Parse, Verifying
<1>2. got.sig = Sent /\ sig = Sent /\ hidden \in [Execs -> Parties] /\ build \in Builds
  BY <1>1, GenuineSignature DEF ShareInv
<1>3. vhidden' = hidden
  BY <1>2 DEF Parse
<1>4. got.sig.length = LengthRequired(vhidden')
  <2>1. got.sig.length = LengthBuilt(hidden)
    BY <1>2 DEF Sent
  <2> QED BY <1>2, <1>3, <2>1, LengthsAgree
<1> QED BY <1>4 DEF Parse

\* The stage of a user of the scheme.
LEMMA Stages ==
  /\ pc \in Signing   => Stage = "signing"
  /\ pc = "sent"      => Stage = "sent"
  /\ pc \in Verifying => Stage = "received"
  /\ pc = "done"      => Stage = "judged"
BY DEF Stage, Signing, Verifying

LEMMA InitScheme == Init => Scheme!Idle
BY Stages DEF Init, Scheme!Idle, Signing

LEMMA SchemeStep ==
  ASSUME TranscriptInv, TranscriptInv', [Next]_vars
  PROVE  [Scheme!Act]_(Scheme!schemeVars)
<1> USE DEF TranscriptInv
<1>1. /\ pc' \in Signing   => Stage' = "signing"
      /\ pc' = "sent"      => Stage' = "sent"
      /\ pc' \in Verifying => Stage' = "received"
      /\ pc' = "done"      => Stage' = "judged"
  BY DEF Stage, Signing, Verifying
<1>2. CASE UNCHANGED <<Stage, genuine, verdict>>
  BY <1>2 DEF Scheme!schemeVars
<1>3. CASE \/ ShareSecret \/ FirstChallenge \/ ComputeHint \/ SecondChallenge \/ Simulate
           \/ ViewChallenge \/ BuildSignature
  <2>1. /\ pc \in Signing /\ pc' \in Signing \cup {"sent", "failed"}
        /\ UNCHANGED verVars
    BY <1>3 DEF ShareSecret, FirstChallenge, ComputeHint, SecondChallenge, Simulate,
       ViewChallenge, BuildSignature, NextExec, Signing
  <2>2. genuine' = genuine /\ verdict' = verdict /\ pc' # "failed"
    BY <2>1 DEF verVars, EmulInv
  <2>3. CASE pc' \in Signing
    BY <1>1, <1>2, <2>1, <2>2, <2>3, Stages
  <2>4. CASE pc' = "sent"
    BY <1>1, <2>1, <2>2, <2>4, Stages DEF Scheme!Act, Scheme!Produce
  <2> QED BY <2>1, <2>2, <2>3, <2>4
<1>4. CASE DeliverGenuine \/ DeliverOtherHeader \/ DeliverOtherProof
  <2>1. /\ pc = "sent" /\ pc' = "parse" /\ verdict' = verdict
    BY <1>4 DEF DeliverGenuine, DeliverOtherHeader, DeliverOtherProof, Deliver
  <2>2. Stage = "sent" /\ Stage' = "received" /\ genuine' \in BOOLEAN
    BY <1>1, <2>1, Stages DEF Verifying, GotInv
  <2> QED BY <2>1, <2>2 DEF Scheme!Act, Scheme!Receive
<1>5. CASE ExpandChallenges \/ Recompute
  <2>1. /\ pc \in Verifying /\ pc' \in Verifying /\ UNCHANGED <<genuine, verdict>>
    BY <1>5 DEF ExpandChallenges, Recompute, NextExec, Verifying
  <2> QED BY <1>1, <1>2, <2>1, Stages
<1>6. CASE Parse
  <2>1. /\ pc \in Verifying /\ genuine' = genuine
        /\ \/ pc' = "expand" /\ verdict' = verdict
           \/ pc' = "done" /\ verdict' = "reject"
    BY <1>6 DEF Parse, Verifying
  <2>2. CASE pc' = "expand" /\ verdict' = verdict
    BY <1>1, <1>2, <2>1, <2>2, Stages DEF Verifying
  <2>3. CASE pc' = "done" /\ verdict' = "reject"
    <3>1. ~genuine
      BY <1>6, <2>3, GenuineParses
    <3> QED BY <1>1, <2>1, <2>3, <3>1, Stages DEF Scheme!Act, Scheme!Judge
  <2> QED BY <2>1, <2>2, <2>3
<1>7. CASE Compare
  <2>1. /\ pc = "compare" /\ pc \in Verifying /\ pc' = "done" /\ genuine' = genuine
        /\ verdict' = IF SameHashes THEN "accept" ELSE "reject"
    BY <1>7 DEF Compare, Verifying
  <2>2. SameHashes <=> genuine
    BY <2>1, GenuineIsAccepted, AlteredIsRejected DEF SameHashes
  <2>3. verdict' = IF genuine THEN "accept" ELSE "reject"
    BY <2>1, <2>2
  <2> QED BY <1>1, <2>1, <2>3, Stages DEF Scheme!Act, Scheme!Judge
<1>8. CASE Stopped \/ UNCHANGED vars
  <2>1. UNCHANGED <<pc, genuine, verdict>>
    BY <1>8 DEF Stopped, vars, verVars
  <2>2. Stage' = Stage
    BY <2>1 DEF Stage
  <2> QED BY <1>2, <2>1, <2>2
<1> QED BY <1>3, <1>4, <1>5, <1>6, <1>7, <1>8 DEF Next

\* For every build, key, seed, challenges and hidden parties, the functions of the seven
\* rounds implement a signature scheme: the message is bound by the last of the three
\* digests alone, and yet crypto_sign_open accepts what crypto_sign has sent, and rejects
\* it once a field of it, a seed of a path or the message is another.
THEOREM ImplementsScheme == Spec => SchemeSpec
<1>1. TranscriptInv /\ TranscriptInv' /\ [Next]_vars => [Scheme!Act]_(Scheme!schemeVars)
  BY SchemeStep
<1> QED BY <1>1, InitScheme, TranscriptInvariant, PTL DEF Spec, SchemeSpec, Scheme!SchemeSpec
===============================================================================
