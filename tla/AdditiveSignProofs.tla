-------------------------- MODULE AdditiveSignProofs --------------------------
(***************************************************************************)
(* What is proved of the signatures in five rounds on additive sharings    *)
(* for every build, key, seed, expansion and view challenge.               *)
(***************************************************************************)
EXTENDS AdditiveSign, PackingProofs, FiniteSetTheorems

-----------------------------------------------------------------------------
(* The shares add up.                                                      *)

\* The parts of the shares of an execution that are expanded from seeds, those of all
\* the parties but the last one, and their sums.
Terms(b, r, x, c) == [p \in 0..(b.parties - 2) |-> Expand(r, x, p)[c]]
SumTo(b, r, x, c, n) == RunningSum(Terms(b, r, x, c), b.parties - 1)[n]

\* What the accumulator holds while an execution is shared, and what is known of
\* the executions that are complete: SharesAddUp is not inductive without the first.
ShareInv ==
  /\ build \in Builds /\ key \in Keys /\ root \in Roots
  /\ aux \in [Execs -> [wit : Field, corr : Field]]
  /\ plain \in [Execs -> [unif : Field, corr : Field]]
  /\ pc = "share" =>
       /\ e \in Execs /\ i \in Parties /\ slots \in [0..3 -> Share] /\ acc \in Share
       /\ \A c \in Parts : acc[c] = F(SumTo(build, root, e, c, i))
  /\ \A x \in Shared :
       /\ F(SumTo(build, root, x, "wit", Last) + aux[x].wit) = key.x
       /\ F(SumTo(build, root, x, "unif", Last) + Expand(root, x, Last).unif) = plain[x].unif
       /\ F(SumTo(build, root, x, "corr", Last) + aux[x].corr) = F(-(key.x * plain[x].unif))

\* The numbers of a build.
LEMMA BuildNumbers ==
  ASSUME NEW b \in Builds
  PROVE  /\ b.parties \in Nat /\ b.parties >= 4 /\ b.parties - 1 \in Nat
         /\ b.execs \in Nat /\ b.execs >= 1
         /\ b.log \in Nat
BY BuildsAssumption DEF WellFormed

LEMMA SharesExpanded ==
  ASSUME NEW b \in Builds, NEW r \in Roots, NEW x \in 0..(b.execs - 1),
         NEW p \in 0..(b.parties - 1)
  PROVE  /\ Expand(r, x, p) \in Share
         /\ \A c \in Parts : Expand(r, x, p)[c] \in Field /\ Expand(r, x, p)[c] \in Int
<1>1. Expand(r, x, p) \in Share
  BY SharesAssumption
<1>2. \A c \in Parts : Expand(r, x, p)[c] \in Field
  BY <1>1 DEF Share, Parts
<1> QED BY <1>1, <1>2, FieldElements

\* The sums of the parts of shares.
LEMMA PartialSums ==
  ASSUME NEW b \in Builds, NEW r \in Roots, NEW x \in 0..(b.execs - 1), NEW c \in Parts
  PROVE  /\ SumTo(b, r, x, c, 0) = 0
         /\ \A n \in 0..(b.parties - 1) : SumTo(b, r, x, c, n) \in Int
         /\ \A n \in 0..(b.parties - 2) :
              SumTo(b, r, x, c, n + 1) = SumTo(b, r, x, c, n) + Expand(r, x, n)[c]
<1> DEFINE f == Terms(b, r, x, c)
<1>1. b.parties - 1 \in Nat /\ b.parties - 1 - 1 = b.parties - 2 /\ b.parties \in Nat
  BY BuildNumbers
<1>2. \A p \in 0..(b.parties - 2) : f[p] = Expand(r, x, p)[c] /\ f[p] \in Int
  BY <1>1, SharesExpanded DEF Terms
<1>3. f \in [0..(b.parties - 2) -> Int]
  BY <1>2 DEF Terms
<1> HIDE DEF f
<1>4. /\ RunningSum(f, b.parties - 1) \in [0..(b.parties - 1) -> Int]
      /\ RunningSum(f, b.parties - 1)[0] = 0
      /\ \A k \in 0..(b.parties - 2) :
           RunningSum(f, b.parties - 1)[k + 1] = RunningSum(f, b.parties - 1)[k] + f[k]
  <2>1. PICK n \in Nat : n = b.parties - 1 /\ n - 1 = b.parties - 2
    BY <1>1
  <2>2. f \in [0..(n - 1) -> Int]
    BY <1>3, <2>1
  <2>3. /\ RunningSum(f, n) \in [0..n -> Int] /\ RunningSum(f, n)[0] = 0
        /\ \A k \in 0..(n - 1) : RunningSum(f, n)[k + 1] = RunningSum(f, n)[k] + f[k]
    BY <2>2, RunningSums
  <2> QED BY <2>1, <2>3
<1> QED BY <1>2, <1>4 DEF SumTo, f

\* The sum of the property is that one.
LEMMA SumsOfShares ==
  ASSUME build \in Builds, root \in Roots, NEW x \in Execs
  PROVE  /\ SumOfShares(x, WitOf) = SumTo(build, root, x, "wit", Last)
         /\ SumOfShares(x, UnifOf) = SumTo(build, root, x, "unif", Last)
         /\ SumOfShares(x, CorrOf) = SumTo(build, root, x, "corr", Last)
<1>1. Last \in Nat /\ Last - 1 = build.parties - 2 /\ build.parties \in Nat
  BY BuildNumbers DEF Last
<1>2. ASSUME NEW c \in Parts
      PROVE  /\ Terms(build, root, x, c) \in [0..(Last - 1) -> Int]
             /\ \A k \in 1..Last : Terms(build, root, x, c)[k - 1] = Expand(root, x, k - 1)[c]
  <2>1. \A p \in 0..(Last - 1) : Expand(root, x, p)[c] \in Int
    BY <1>1, SharesExpanded DEF Execs
  <2> QED BY <1>1, <2>1 DEF Terms
<1>3. ASSUME NEW c \in Parts, NEW s,
             s = [k \in 0..Last |-> IF k = 0 THEN 0 ELSE s[k - 1] + Expand(root, x, k - 1)[c]]
      PROVE  s[Last] = SumTo(build, root, x, c, Last)
  <2> DEFINE f == Terms(build, root, x, c)
  <2>1. s = [k \in 0..Last |-> IF k = 0 THEN 0 ELSE s[k - 1] + f[k - 1]]
    <3>1. \A k \in 0..Last : k # 0 => f[k - 1] = Expand(root, x, k - 1)[c]
      BY <1>1, <1>2
    <3> HIDE DEF f
    <3>2. [k \in 0..Last |-> IF k = 0 THEN 0 ELSE s[k - 1] + Expand(root, x, k - 1)[c]]
            = [k \in 0..Last |-> IF k = 0 THEN 0 ELSE s[k - 1] + f[k - 1]]
      BY <3>1
    <3> QED BY <1>3, <3>2
  <2>2. f \in [0..(Last - 1) -> Int]
    BY <1>2
  <2> HIDE DEF f
  <2>3. Adds(s, f, Last) /\ Adds(RunningSum(f, Last), f, Last)
    BY <1>1, <2>1, <2>2, RunningSums DEF Adds
  <2>4. s = RunningSum(f, Last)
    BY <1>1, <2>3, SumsUnique
  <2> QED BY <2>4 DEF SumTo, f, Last
<1>4. ASSUME NEW c \in Parts
      PROVE  \E s : s = [k \in 0..Last |->
                          IF k = 0 THEN 0 ELSE s[k - 1] + Expand(root, x, k - 1)[c]]
  <2> DEFINE f == Terms(build, root, x, c)
             g == RunningSum(f, Last)
  <2>1. f \in [0..(Last - 1) -> Int]
    BY <1>2
  <2>2. g = [k \in 0..Last |-> IF k = 0 THEN 0 ELSE g[k - 1] + f[k - 1]]
    BY <1>1, <2>1, RunningSums DEF Adds
  <2>3. \A k \in 0..Last : k # 0 => f[k - 1] = Expand(root, x, k - 1)[c]
    BY <1>1, <1>2
  <2> HIDE DEF f, g
  <2>4. g = [k \in 0..Last |-> IF k = 0 THEN 0 ELSE g[k - 1] + Expand(root, x, k - 1)[c]]
    BY <2>2, <2>3
  <2> QED BY <2>4
<1>5. SumOfShares(x, WitOf) = SumTo(build, root, x, "wit", Last)
  <2> DEFINE s == CHOOSE s : s = [k \in 0..Last |->
                    IF k = 0 THEN 0 ELSE s[k - 1] + Expand(root, x, k - 1).wit]
  <2>1. SumOfShares(x, WitOf) = s[Last]
    BY Zenon DEF SumOfShares, WitOf
  <2>2. \E y : y = [k \in 0..Last |->
                     IF k = 0 THEN 0 ELSE y[k - 1] + Expand(root, x, k - 1).wit]
    BY <1>4, "wit" \in Parts DEF Parts
  <2>3. s = [k \in 0..Last |-> IF k = 0 THEN 0 ELSE s[k - 1] + Expand(root, x, k - 1).wit]
    BY <2>2, Zenon
  <2> HIDE DEF s
  <2>4. s[Last] = SumTo(build, root, x, "wit", Last)
    BY <1>3, <2>3, "wit" \in Parts DEF Parts
  <2> QED BY <2>1, <2>4
<1>6. SumOfShares(x, UnifOf) = SumTo(build, root, x, "unif", Last)
  <2> DEFINE s == CHOOSE s : s = [k \in 0..Last |->
                    IF k = 0 THEN 0 ELSE s[k - 1] + Expand(root, x, k - 1).unif]
  <2>1. SumOfShares(x, UnifOf) = s[Last]
    BY Zenon DEF SumOfShares, UnifOf
  <2>2. \E y : y = [k \in 0..Last |->
                     IF k = 0 THEN 0 ELSE y[k - 1] + Expand(root, x, k - 1).unif]
    BY <1>4, "unif" \in Parts DEF Parts
  <2>3. s = [k \in 0..Last |-> IF k = 0 THEN 0 ELSE s[k - 1] + Expand(root, x, k - 1).unif]
    BY <2>2, Zenon
  <2> HIDE DEF s
  <2>4. s[Last] = SumTo(build, root, x, "unif", Last)
    BY <1>3, <2>3, "unif" \in Parts DEF Parts
  <2> QED BY <2>1, <2>4
<1>7. SumOfShares(x, CorrOf) = SumTo(build, root, x, "corr", Last)
  <2> DEFINE s == CHOOSE s : s = [k \in 0..Last |->
                    IF k = 0 THEN 0 ELSE s[k - 1] + Expand(root, x, k - 1).corr]
  <2>1. SumOfShares(x, CorrOf) = s[Last]
    BY Zenon DEF SumOfShares, CorrOf
  <2>2. \E y : y = [k \in 0..Last |->
                     IF k = 0 THEN 0 ELSE y[k - 1] + Expand(root, x, k - 1).corr]
    BY <1>4, "corr" \in Parts DEF Parts
  <2>3. s = [k \in 0..Last |-> IF k = 0 THEN 0 ELSE s[k - 1] + Expand(root, x, k - 1).corr]
    BY <2>2, Zenon
  <2> HIDE DEF s
  <2>4. s[Last] = SumTo(build, root, x, "corr", Last)
    BY <1>3, <2>3, "corr" \in Parts DEF Parts
  <2> QED BY <2>1, <2>4
<1> QED BY <1>5, <1>6, <1>7

\* The invariant is that the shares add up, and more.
LEMMA InvImpliesSharesAddUp == ShareInv => SharesAddUp
<1> SUFFICES ASSUME ShareInv, NEW x \in Shared
             PROVE  /\ aux[x] \in [wit : Field, corr : Field]
                    /\ F(SumOfShares(x, WitOf) + aux[x].wit) = key.x
                    /\ F(SumOfShares(x, UnifOf) + Expand(root, x, Last).unif) = plain[x].unif
                    /\ F(SumOfShares(x, CorrOf) + aux[x].corr) = F(-(key.x * plain[x].unif))
  BY DEF SharesAddUp
<1>1. x \in Execs
  BY BuildNumbers DEF ShareInv, Shared, Execs
<1>2. aux[x] \in [wit : Field, corr : Field]
  BY <1>1 DEF ShareInv
<1>3. /\ SumOfShares(x, WitOf) = SumTo(build, root, x, "wit", Last)
      /\ SumOfShares(x, UnifOf) = SumTo(build, root, x, "unif", Last)
      /\ SumOfShares(x, CorrOf) = SumTo(build, root, x, "corr", Last)
  BY <1>1, SumsOfShares DEF ShareInv
<1> QED BY <1>2, <1>3 DEF ShareInv

LEMMA InitShares == Init => ShareInv
<1> SUFFICES ASSUME Init PROVE ShareInv
  OBVIOUS
<1>1. build \in Builds /\ key \in Keys /\ root \in Roots /\ pc = "share" /\ e = 0 /\ i = 0
  BY DEF Init
<1>2. e \in Execs /\ i \in Parties
  BY <1>1, BuildNumbers DEF Execs, Parties
<1>3. aux \in [Execs -> [wit : Field, corr : Field]] /\ plain \in [Execs -> [unif : Field, corr : Field]]
  BY ZeroIsShare DEF Init, NoAux
<1>4. acc \in Share /\ \A c \in Parts : acc[c] = 0
  BY ZeroIsShare DEF Init, ZeroShare, Parts
<1>5. \A c \in Parts : SumTo(build, root, e, c, i) = 0
  BY <1>1, <1>2, PartialSums DEF Execs
<1>6. Shared = {}
  BY <1>1 DEF Shared
<1>7. slots \in [0..3 -> Share]
  BY ZeroIsShare DEF Init
<1> QED BY <1>1, <1>2, <1>3, <1>4, <1>5, <1>6, <1>7, ZeroIsShare DEF ShareInv

\* One more share in the accumulator.
LEMMA Accumulates ==
  ASSUME NEW b \in Builds, NEW r \in Roots, NEW x \in 0..(b.execs - 1),
         NEW n \in 0..(b.parties - 2), NEW s \in Share,
         \A c \in Parts : s[c] = F(SumTo(b, r, x, c, n))
  PROVE  /\ Plus(s, Expand(r, x, n)) \in Share
         /\ \A c \in Parts : Plus(s, Expand(r, x, n))[c] = F(SumTo(b, r, x, c, n + 1))
<1>1. n \in 0..(b.parties - 1) /\ Expand(r, x, n) \in Share
  BY BuildNumbers, SharesExpanded
<1>2. ASSUME NEW c \in Parts
      PROVE  Plus(s, Expand(r, x, n))[c] = F(SumTo(b, r, x, c, n + 1))
  <2>1. Plus(s, Expand(r, x, n))[c] = F(F(SumTo(b, r, x, c, n)) + Expand(r, x, n)[c])
    BY <1>1, SumOfTwo
  <2>2. SumTo(b, r, x, c, n) \in Int /\ Expand(r, x, n)[c] \in Int
    BY <1>1, PartialSums, SharesExpanded
  <2>3. SumTo(b, r, x, c, n + 1) = SumTo(b, r, x, c, n) + Expand(r, x, n)[c]
    BY PartialSums
  <2> QED BY <2>1, <2>2, <2>3, SumNormalises
<1> QED BY <1>1, <1>2, SumOfTwo

\* The steps of the signer that share.
LEMMA ShareFourStep == ShareInv /\ ShareFour => ShareInv'
<1> SUFFICES ASSUME ShareInv, ShareFour PROVE ShareInv'
  OBVIOUS
<1> USE DEF params
<1>1. /\ pc = "share" /\ pc' = pc /\ build' = build /\ key' = key /\ root' = root /\ e' = e
      /\ plain' = plain /\ aux' = aux /\ i' = i + 4 /\ i + 4 < build.parties
  BY DEF ShareFour
<1>2. /\ build \in Builds /\ root \in Roots /\ e \in 0..(build.execs - 1) /\ i \in 0..(build.parties - 1)
      /\ acc \in Share /\ \A c \in Parts : acc[c] = F(SumTo(build, root, e, c, i))
  BY <1>1 DEF ShareInv, Execs, Parties
<1>3. build.parties \in Nat
  BY <1>2, BuildNumbers
<1>4. /\ i \in 0..(build.parties - 2) /\ i + 1 \in 0..(build.parties - 2)
      /\ i + 2 \in 0..(build.parties - 2) /\ i + 3 \in 0..(build.parties - 2)
      /\ i + 1 + 1 = i + 2 /\ i + 2 + 1 = i + 3 /\ i + 3 + 1 = i + 4
      /\ i + 4 \in 0..(build.parties - 1)
  BY <1>1, <1>2, <1>3
<1> DEFINE a1 == Plus(acc, Expand(root, e, i))
           a2 == Plus(a1, Expand(root, e, i + 1))
           a3 == Plus(a2, Expand(root, e, i + 2))
           a4 == Plus(a3, Expand(root, e, i + 3))
<1>5. acc' = a4
  <2>1. /\ slots'[0] = Expand(root, e, i) /\ slots'[1] = Expand(root, e, i + 1)
        /\ slots'[2] = Expand(root, e, i + 2) /\ slots'[3] = Expand(root, e, i + 3)
    BY <1>2, <1>3, i + 0 = i DEF ShareFour
  <2>2. acc' = PlusFour(acc)
    BY DEF ShareFour
  <2> QED BY <2>1, <2>2 DEF PlusFour
<1>6. a1 \in Share /\ \A c \in Parts : a1[c] = F(SumTo(build, root, e, c, i + 1))
  BY <1>2, <1>4, Accumulates
<1> HIDE DEF a1
<1>7. a2 \in Share /\ \A c \in Parts : a2[c] = F(SumTo(build, root, e, c, i + 2))
  BY <1>2, <1>4, <1>6, Accumulates
<1> HIDE DEF a2
<1>8. a3 \in Share /\ \A c \in Parts : a3[c] = F(SumTo(build, root, e, c, i + 3))
  BY <1>2, <1>4, <1>7, Accumulates
<1> HIDE DEF a3
<1>9. a4 \in Share /\ \A c \in Parts : a4[c] = F(SumTo(build, root, e, c, i + 4))
  BY <1>2, <1>4, <1>8, Accumulates
<1> HIDE DEF a4
<1>10. Execs' = Execs /\ Last' = Last /\ Shared' = Shared /\ i' \in Parties'
  BY <1>1, <1>4 DEF Execs, Last, Shared, Parties
<1>11. slots' \in [0..3 -> Share]
  <2>1. \A k \in 0..3 : i + k \in 0..(build.parties - 1)
    BY <1>1, <1>2, <1>3
  <2>2. \A k \in 0..3 : Expand(root, e, i + k) \in Share
    BY <1>2, <2>1, SharesExpanded
  <2> QED BY <2>2 DEF ShareFour
<1> QED BY <1>1, <1>5, <1>9, <1>10, <1>11 DEF ShareInv

LEMMA ShareOneStep == ShareInv /\ ShareOne => ShareInv'
<1> SUFFICES ASSUME ShareInv, ShareOne PROVE ShareInv'
  OBVIOUS
<1> USE DEF params
<1>1. /\ pc = "share" /\ pc' = pc /\ build' = build /\ key' = key /\ root' = root /\ e' = e
      /\ plain' = plain /\ aux' = aux /\ i' = i + 1 /\ i < build.parties - 1
  BY DEF ShareOne, Last
<1>2. /\ build \in Builds /\ root \in Roots /\ e \in 0..(build.execs - 1) /\ i \in 0..(build.parties - 1)
      /\ slots \in [0..3 -> Share]
      /\ acc \in Share /\ \A c \in Parts : acc[c] = F(SumTo(build, root, e, c, i))
  BY <1>1 DEF ShareInv, Execs, Parties
<1>3. build.parties \in Nat
  BY <1>2, BuildNumbers
<1>4. i \in 0..(build.parties - 2) /\ i + 1 \in 0..(build.parties - 1) /\ i % 4 \in 0..3
  BY <1>1, <1>2, <1>3
<1>5. Expand(root, e, i) \in Share
  BY <1>2, SharesExpanded
<1>6. slots' \in [0..3 -> Share] /\ acc' = Plus(acc, Expand(root, e, i))
  BY <1>2, <1>4, <1>5 DEF ShareOne
<1>7. acc' \in Share /\ \A c \in Parts : acc'[c] = F(SumTo(build, root, e, c, i + 1))
  BY <1>2, <1>4, <1>6, Accumulates
<1>8. Execs' = Execs /\ Last' = Last /\ Shared' = Shared /\ i' \in Parties'
  BY <1>1, <1>4 DEF Execs, Last, Shared, Parties
<1> QED BY <1>1, <1>6, <1>7, <1>8 DEF ShareInv

\* The share of the last party completes an execution.
LEMMA ShareLastStep == ShareInv /\ ShareLast => ShareInv'
<1> SUFFICES ASSUME ShareInv, ShareLast PROVE ShareInv'
  OBVIOUS
<1> USE DEF params
<1>1. /\ pc = "share" /\ build' = build /\ key' = key /\ root' = root
      /\ i = Last /\ i' = 0 /\ acc' = ZeroShare
  BY DEF ShareLast, AccReset
<1>2. /\ build \in Builds /\ key \in Keys /\ root \in Roots /\ e \in Execs /\ i \in Parties
      /\ slots \in [0..3 -> Share]
      /\ acc \in Share /\ \A c \in Parts : acc[c] = F(SumTo(build, root, e, c, Last))
      /\ aux \in [Execs -> [wit : Field, corr : Field]]
      /\ plain \in [Execs -> [unif : Field, corr : Field]]
  BY <1>1 DEF ShareInv
<1>3. build.parties \in Nat /\ build.parties >= 4 /\ build.execs \in Nat /\ build.execs >= 1
  BY <1>2, BuildNumbers
<1> DEFINE E == Expand(root, e, Last)
           unif == F(E.unif + acc.unif)
           corr == Correlated(key.x, unif)
           a == [wit |-> Aux(key.x, acc.wit), corr |-> Aux(corr, acc.corr)]
<1>4. /\ plain' = [plain EXCEPT ![e] = [unif |-> unif, corr |-> corr]]
      /\ aux' = [aux EXCEPT ![e] = a]
  BY <1>1 DEF ShareLast
<1>5. E \in Share /\ E.unif \in Int /\ E.unif \in Field
  <2>1. Last \in 0..(build.parties - 1) /\ e \in 0..(build.execs - 1)
    BY <1>2, <1>3 DEF Last, Execs
  <2>2. E \in Share
    BY <1>2, <2>1, SharesExpanded
  <2> HIDE DEF E
  <2>3. E.unif \in Field
    BY <2>2 DEF Share
  <2> QED BY <2>2, <2>3, FieldElements
<1>6. \A c \in Parts : SumTo(build, root, e, c, Last) \in Int /\ acc[c] \in Int
  <2>1. Last \in 0..(build.parties - 1) /\ e \in 0..(build.execs - 1)
    BY <1>2, <1>3 DEF Last, Execs
  <2>2. \A c \in Parts : acc[c] \in Field
    BY <1>2 DEF Share, Parts
  <2> QED BY <1>2, <2>1, <2>2, PartialSums, FieldElements
<1>7. key.x \in Field /\ key.x \in Int /\ F(key.x) = key.x
  BY <1>2, SharesAssumption, FieldElements
<1> DEFINE W == SumTo(build, root, e, "wit", Last)
           U == SumTo(build, root, e, "unif", Last)
           C == SumTo(build, root, e, "corr", Last)
<1>8. /\ W \in Int /\ U \in Int /\ C \in Int
      /\ acc.wit = F(W) /\ acc.unif = F(U) /\ acc.corr = F(C)
      /\ acc.wit \in Int /\ acc.unif \in Int /\ acc.corr \in Int
  BY <1>2, <1>6 DEF Parts
<1> HIDE DEF W, U, C, E
<1>9. unif \in Field /\ unif \in Int /\ F(U + E.unif) = unif
  <2>1. F(F(U) + E.unif) = F(U + E.unif) /\ F(U) \in Int
    BY <1>5, <1>8, SumNormalises
  <2>2. unif = F(F(U) + E.unif)
    BY <1>5, <1>8, <2>1
  <2>3. F(F(U) + E.unif) \in Field /\ F(F(U) + E.unif) \in Int
    BY <1>5, <2>1, Normalises
  <2> QED BY <2>1, <2>2, <2>3
<1> HIDE DEF unif
<1>10. corr \in Field /\ corr \in Int /\ corr = F(-(key.x * unif)) /\ F(corr) = corr
  <2>1. -(key.x * unif) \in Int
    BY <1>7, <1>9
  <2> QED BY <2>1, Normalises, FieldElements DEF Correlated
<1> HIDE DEF corr
<1>11. a.wit \in Field /\ a.corr \in Field /\ F(W + a.wit) = key.x /\ F(C + a.corr) = corr
  <2>1. key.x - acc.wit \in Int /\ corr - acc.corr \in Int
    BY <1>7, <1>8, <1>10
  <2>2. a.wit = F(key.x - F(W)) /\ a.corr = F(corr - F(C))
    BY <1>8 DEF Aux
  <2>3. F(key.x - F(W)) \in Field /\ F(W + F(key.x - F(W))) = F(key.x)
    BY <1>7, <1>8, <2>1, Normalises, DifferenceNormalises
  <2>4. F(corr - F(C)) \in Field /\ F(C + F(corr - F(C))) = F(corr)
    BY <1>8, <1>10, <2>1, Normalises, DifferenceNormalises
  <2> HIDE DEF a
  <2> QED BY <1>7, <1>10, <2>2, <2>3, <2>4
<1>12. a \in [wit : Field, corr : Field]
  BY <1>11
<1> HIDE DEF a
<1>13. /\ aux' \in [Execs -> [wit : Field, corr : Field]]
       /\ plain' \in [Execs -> [unif : Field, corr : Field]]
       /\ aux'[e] = a /\ plain'[e] = [unif |-> unif, corr |-> corr]
       /\ \A x \in Execs : x # e => aux'[x] = aux[x] /\ plain'[x] = plain[x]
  BY <1>2, <1>4, <1>9, <1>10, <1>12
<1>14. Execs' = Execs /\ Last' = Last /\ Parties' = Parties /\ 0 \in Parties
  BY <1>1, <1>3 DEF Execs, Last, Parties
<1>15. slots' \in [0..3 -> Share]
  <2>1. i % 4 \in 0..3
    BY <1>2 DEF Parties
  <2>2. [wit |-> aux'[e].wit, unif |-> E.unif, corr |-> aux'[e].corr] \in Share
    BY <1>5, <1>11, <1>13 DEF Share
  <2>3. slots' = [slots EXCEPT ![i % 4] = [wit |-> aux'[e].wit, unif |-> E.unif, corr |-> aux'[e].corr]]
    BY <1>1 DEF ShareLast, E
  <2> QED BY <1>2, <2>1, <2>2, <2>3
<1>16. \/ pc' = "share" /\ e' = e + 1 /\ e' \in Execs
       \/ pc' = "challenge" /\ e' = 0 /\ e + 1 \notin Execs
  BY DEF ShareLast
<1>17. Shared' \subseteq (0..(e - 1)) \cup {e} /\ Shared = 0..(e - 1) /\ Shared' \subseteq Execs
  BY <1>1, <1>2, <1>3, <1>14, <1>16, SMTT(30) DEF Shared, Execs
<1>18. pc' = "share" => /\ e' \in Execs' /\ i' \in Parties' /\ acc' \in Share
                        /\ \A c \in Parts : acc'[c] = F(SumTo(build', root', e', c, i'))
  <2> SUFFICES ASSUME pc' = "share"
               PROVE  /\ e' \in Execs' /\ i' \in Parties' /\ acc' \in Share
                      /\ \A c \in Parts : acc'[c] = F(SumTo(build', root', e', c, i'))
    OBVIOUS
  <2>1. e' \in Execs /\ e' \in 0..(build.execs - 1)
    BY <1>16 DEF Execs
  <2>2. \A c \in Parts : SumTo(build, root, e', c, 0) = 0
    BY <1>2, <2>1, PartialSums
  <2>3. \A c \in Parts : acc'[c] = 0
    BY <1>1 DEF ZeroShare, Parts
  <2> QED BY <1>1, <1>14, <2>1, <2>2, <2>3, ZeroIsShare
<1>19. ASSUME NEW x \in Shared'
       PROVE  /\ F(SumTo(build, root, x, "wit", Last) + aux'[x].wit) = key.x
              /\ F(SumTo(build, root, x, "unif", Last) + Expand(root, x, Last).unif) = plain'[x].unif
              /\ F(SumTo(build, root, x, "corr", Last) + aux'[x].corr) = F(-(key.x * plain'[x].unif))
  <2>1. CASE x = e
    BY <2>1, <1>9, <1>10, <1>11, <1>13 DEF W, U, C, E
  <2>2. CASE x # e
    <3>1. x \in Shared /\ x \in Execs
      BY <1>17, <2>2
    <3>2. aux'[x] = aux[x] /\ plain'[x] = plain[x]
      BY <1>13, <2>2, <3>1
    <3> QED BY <3>1, <3>2 DEF ShareInv
  <2> QED BY <2>1, <2>2
<1> QED BY <1>1, <1>2, <1>13, <1>14, <1>15, <1>18, <1>19 DEF ShareInv

\* The other steps leave the shares alone.
LEMMA OtherSteps ==
  ASSUME ShareInv, pc # "share", pc' # "share", UNCHANGED <<params, plain, aux>>
  PROVE  ShareInv'
BY DEF ShareInv, Shared, Execs, Last, params

-----------------------------------------------------------------------------
(* The paths of seeds.                                                     *)

\* The ancestors of a leaf, and the node that shares a parent with another.
Ancestor(b, h, d) == (b.parties + h) \div 2^d
Sibling(n) == IF n % 2 = 0 THEN n + 1 ELSE n - 1

LEMMA AncestorsHalve ==
  ASSUME NEW b \in Builds, NEW h \in 0..(b.parties - 1)
  PROVE  /\ b.log \in Nat /\ b.log >= 2
         /\ Ancestor(b, h, 0) = b.parties + h
         /\ \A d \in 0..b.log : /\ Ancestor(b, h, d) \in Nat /\ 2^d \in Nat \ {0}
                               /\ \A q \in Nat : q * 2^d <= b.parties + h <=> q <= Ancestor(b, h, d)
         /\ \A d \in 0..(b.log - 1) : /\ Ancestor(b, h, d + 1) = Ancestor(b, h, d) \div 2
                                      /\ 2^(d + 1) = 2 * 2^d
<1>1. /\ WellFormed(b) /\ b.parties \in Nat /\ b.parties >= 4 /\ b.log \in Nat /\ b.dim \in Nat \ {0}
      /\ b.parties <= 2^b.log /\ 2^0 = 1
  BY BuildsAssumption DEF WellFormed, Buildable
<1>2. \A d \in 0..b.log : d \in 0..(b.log + b.dim)
  BY <1>1
<1>3. \A d \in 0..b.log : 2^d \in Nat \ {0} /\ 2^(d + 1) = 2 * 2^d
  BY <1>1, <1>2, Power
<1>4. b.parties + h \in Nat
  BY <1>1
<1>5. \A d \in 0..b.log : /\ Ancestor(b, h, d) \in Nat
                          /\ \A q \in Nat : q * 2^d <= b.parties + h <=> q <= Ancestor(b, h, d)
  BY <1>3, <1>4, Quotients DEF Ancestor
<1>6. ASSUME NEW d \in 0..(b.log - 1)
      PROVE  Ancestor(b, h, d + 1) = Ancestor(b, h, d) \div 2 /\ 2^(d + 1) = 2 * 2^d
  <2>1. d \in 0..b.log
    BY <1>1
  <2>2. 2^d \in Nat \ {0} /\ 2^(d + 1) = 2 * 2^d
    BY <1>3, <2>1
  <2>3. ((b.parties + h) \div 2^d) \div 2 = (b.parties + h) \div (2 * 2^d)
    BY <1>4, <2>2, Quotients
  <2> QED BY <2>2, <2>3 DEF Ancestor
<1>7. b.log >= 2
  <2>1. CASE b.log = 0
    BY <1>1, <2>1
  <2>2. CASE b.log = 1
    <3>1. 2^(0 + 1) = 2 * 2^0
      BY <1>3, <2>2, 0 \in 0..b.log
    <3>2. 2^1 = 2
      BY <1>1, <3>1, 0 + 1 = 1
    <3> QED BY <1>1, <2>2, <3>2
  <2> QED BY <1>1, <2>1, <2>2
<1>8. Ancestor(b, h, 0) = b.parties + h
  <2>1. (b.parties + h) \div 1 = b.parties + h
    BY <1>4
  <2> QED BY <1>1, <2>1 DEF Ancestor
<1> QED BY <1>1, <1>3, <1>5, <1>6, <1>7, <1>8

\* An ancestor is at most half of one below it.
LEMMA AncestorsShrink ==
  ASSUME NEW b \in Builds, NEW h \in 0..(b.parties - 1),
         NEW c \in 0..b.log, NEW d \in 0..b.log, c < d
  PROVE  2 * Ancestor(b, h, d) <= Ancestor(b, h, c)
<1> DEFINE V(m) == Ancestor(b, h, m)
           T == {m \in (c + 1)..b.log : ~(2 * V(m) <= V(c))}
<1>1. /\ b.log \in Nat /\ \A m \in 0..b.log : V(m) \in Nat
      /\ \A m \in 0..(b.log - 1) : V(m + 1) = V(m) \div 2
  BY AncestorsHalve
<1> HIDE DEF V
<1>2. \A n \in Nat : 2 * (n \div 2) <= n /\ n \div 2 <= n /\ n \div 2 \in Nat
  OBVIOUS
<1>3. CASE T = {}
  <2>1. d \in (c + 1)..b.log
    BY <1>1
  <2> QED BY <1>3, <2>1 DEF V
<1>4. CASE T # {}
  <2>1. PICK m \in T : \A y \in T : m <= y
    <3>1. T \subseteq Nat
      BY <1>1
    <3> QED BY <1>4, <3>1, Least
  <2>2. m \in (c + 1)..b.log /\ ~(2 * V(m) <= V(c))
    BY <2>1
  <2>3. PICK k \in 0..(b.log - 1) : m = k + 1 /\ k >= c
    BY <1>1, <2>2, m - 1 \in 0..(b.log - 1)
  <2>4. V(m) = V(k) \div 2 /\ V(k) \in Nat /\ V(c) \in Nat /\ V(m) \in Nat
    BY <1>1, <2>2, <2>3, k \in 0..b.log, m \in 0..b.log
  <2>5. CASE k = c
    BY <1>2, <2>2, <2>4, <2>5
  <2>6. CASE k # c
    <3>1. k \in (c + 1)..b.log /\ k < m
      BY <1>1, <2>2, <2>3, <2>6
    <3>2. 2 * V(k) <= V(c)
      BY <2>1, <3>1
    <3>3. 2 * V(m) <= V(k) /\ V(m) <= V(k)
      BY <1>2, <2>4
    <3> QED BY <2>2, <2>4, <3>2, <3>3
  <2> QED BY <2>5, <2>6
<1> QED BY <1>3, <1>4

LEMMA SiblingNumbers ==
  ASSUME NEW n \in Nat, n >= 2
  PROVE  /\ Sibling(n) \in Nat /\ Sibling(n) # n /\ Sibling(n) >= 2
         /\ Sibling(n) <= n + 1 /\ (n % 2 = 1 => Sibling(n) = n - 1)
         /\ \A m \in Nat : 2 * m <= n => Sibling(n) # m /\ (m >= 2 => Sibling(m) # n)
         /\ \A m \in Nat : 2 * m <= n /\ m >= 2 => Sibling(n) # Sibling(m)
<1>1. n % 2 \in {0, 1} /\ n = 2 * (n \div 2) + (n % 2) /\ n \div 2 \in Nat
  OBVIOUS
<1>2. Sibling(n) \in Nat /\ Sibling(n) # n /\ Sibling(n) <= n + 1 /\ Sibling(n) >= n - 1
      /\ (n % 2 = 1 => Sibling(n) = n - 1) /\ (n % 2 = 0 => Sibling(n) = n + 1)
  BY <1>1 DEF Sibling
<1>3. Sibling(n) >= 2
  BY <1>1, <1>2
<1>4. ASSUME NEW m \in Nat, 2 * m <= n PROVE Sibling(n) # m
  BY <1>1, <1>2, <1>4
<1>5. ASSUME NEW m \in Nat, 2 * m <= n, m >= 2 PROVE Sibling(m) # n /\ Sibling(n) # Sibling(m)
  <2>1. m % 2 \in {0, 1} /\ (m % 2 = 1 => Sibling(m) = m - 1) /\ (m % 2 = 0 => Sibling(m) = m + 1)
    BY DEF Sibling
  <2>2. CASE m = 2
    <3>1. Sibling(m) = 3
      BY <2>2 DEF Sibling
    <3>2. n = 4 => Sibling(n) = 5
      BY DEF Sibling
    <3> QED BY <1>2, <1>5, <2>2, <3>1, <3>2
  <2>3. CASE m >= 3
    <3>1. Sibling(m) <= m + 1
      BY <2>1
    <3>2. n - 1 > m + 1
      BY <1>5, <2>3
    <3>3. Sibling(m) \in Int
      BY <2>1
    <3> QED BY <1>2, <3>1, <3>2, <3>3
  <2> QED BY <1>5, <2>2, <2>3
<1> QED BY <1>2, <1>3, <1>4, <1>5

\* The nodes of a path are the siblings of the ancestors of the hidden leaf but the root.
LEMMA PathOfSiblings ==
  ASSUME build \in Builds, NEW h \in Parties
  PROVE  /\ PathSize(h) \in {build.log, build.log - 1}
         /\ PathNodes(h) = {Sibling(Ancestor(build, h, d)) : d \in 0..(PathSize(h) - 1)}
         /\ \A d \in 0..(PathSize(h) - 1) :
              d \in 0..build.log /\ Ancestor(build, h, d) \in Nat /\ Ancestor(build, h, d) >= 2
<1> DEFINE V(d) == Ancestor(build, h, d)
           leaf == build.parties + h
           L == build.log
<1>1. h \in 0..(build.parties - 1) /\ build.parties \in Nat /\ build.parties >= 4 /\ leaf \in Nat
  BY BuildNumbers DEF Parties
<1>2. /\ L \in Nat /\ L >= 2
      /\ \A d \in 0..L : /\ V(d) \in Nat /\ 2^d \in Nat \ {0}
                         /\ \A q \in Nat : q * 2^d <= leaf <=> q <= V(d)
      /\ \A d \in 0..(L - 1) : 2^(d + 1) = 2 * 2^d
  BY <1>1, AncestorsHalve
<1>3. 2^(L - 1) < build.parties /\ build.parties <= 2^L
  BY BuildsAssumption DEF WellFormed, Buildable
<1>4. L - 1 \in 0..L /\ L \in 0..L /\ L - 1 \in 0..(L - 1) /\ L - 1 + 1 = L
  BY <1>2
<1>5. 2^L = 2 * 2^(L - 1) /\ 2^(L - 1) \in Nat \ {0} /\ 2^L \in Nat \ {0}
  BY <1>2, <1>4
<1>6. V(L - 1) >= 1 /\ (V(L - 1) >= 2 <=> leaf >= 2^L) /\ V(L) <= 1
  <2>1. 1 * 2^(L - 1) <= leaf
    BY <1>1, <1>3, <1>5
  <2>2. 2 * 2^(L - 1) <= leaf <=> 2 <= V(L - 1)
    BY <1>2, <1>4
  <2>3. ~(2 * 2^L <= leaf)
    BY <1>1, <1>3, <1>5
  <2>4. 1 <= V(L - 1) /\ ~(2 <= V(L))
    BY <1>2, <1>4, <2>1, <2>3
  <2>5. V(L) \in Nat
    BY <1>2, <1>4
  <2> HIDE DEF V, leaf
  <2> QED BY <1>1, <1>5, <2>2, <2>4, <2>5
<1>7. \A d \in 0..(L - 2) : V(d) >= 2
  <2> SUFFICES ASSUME NEW d \in 0..(L - 2) PROVE V(d) >= 2
    OBVIOUS
  <2>1. d \in 0..L /\ d < L - 1
    BY <1>2
  <2>2. 2 * V(L - 1) <= V(d)
    BY <1>1, <1>4, <2>1, AncestorsShrink
  <2>3. V(L - 1) \in Nat /\ V(d) \in Nat
    BY <1>2, <1>4, <2>1
  <2> HIDE DEF V
  <2> QED BY <1>6, <2>2, <2>3
<1>8. PathSize(h) = IF leaf >= 2^L THEN L ELSE L - 1
  BY DEF PathSize
<1> HIDE DEF leaf
<1>9. \A d \in 0..L : V(d) \notin {0, 1} <=> d \in 0..(PathSize(h) - 1)
  <2> SUFFICES ASSUME NEW d \in 0..L
               PROVE  V(d) \notin {0, 1} <=> d \in 0..(PathSize(h) - 1)
    OBVIOUS
  <2>1. V(d) \in Nat
    BY <1>2
  <2> HIDE DEF V
  <2>2. CASE d = L
    <3>1. V(d) \in {0, 1}
      BY <1>6, <2>1, <2>2
    <3>2. PathSize(h) \in {L, L - 1} /\ L \in Nat
      BY <1>2, <1>8
    <3> HIDE DEF L
    <3>3. d \notin 0..(PathSize(h) - 1)
      BY <2>2, <3>2
    <3> QED BY <3>1, <3>3
  <2>3. CASE d = L - 1
    <3>1. CASE leaf >= 2^L
      <4>1. V(d) >= 2 /\ PathSize(h) = L /\ d \in 0..(L - 1)
        BY <1>4, <1>6, <1>8, <2>3, <3>1
      <4> QED BY <2>1, <4>1
    <3>2. CASE ~(leaf >= 2^L)
      <4>1. ~(V(d) >= 2) /\ PathSize(h) = L - 1 /\ d \notin 0..(L - 1 - 1)
        BY <1>2, <1>6, <1>8, <2>3, <3>2, SMTT(30)
      <4> QED BY <2>1, <4>1
    <3> QED BY <3>1, <3>2
  <2>4. CASE d \in 0..(L - 2)
    <3>1. V(d) >= 2
      BY <1>7, <2>4
    <3>2. d \in 0..(L - 1) /\ d \in 0..(L - 1 - 1)
      BY <1>2, <2>4
    <3>3. d \in 0..(PathSize(h) - 1)
      BY <1>8, <3>2
    <3> QED BY <2>1, <3>1, <3>3
  <2>5. d = L \/ d = L - 1 \/ d \in 0..(L - 2)
    <3>1. L \in Nat
      BY <1>2
    <3> HIDE DEF L
    <3> QED BY <3>1
  <2> QED BY <2>2, <2>3, <2>4, <2>5
<1>10. PathSize(h) \in {L, L - 1}
  BY <1>8
<1>11. \A d \in 0..(PathSize(h) - 1) : d \in 0..L
  BY <1>2, <1>10
<1>12. PathNodes(h) = {Sibling(n) : n \in {V(d) : d \in 0..L} \ {0, 1}}
  BY DEF PathNodes, Sibling, Ancestor
<1>13. PathNodes(h) = {Sibling(V(d)) : d \in 0..(PathSize(h) - 1)}
  <2> HIDE DEF V, L
  <2> QED BY <1>9, <1>11, <1>12
<1>14. ASSUME NEW d \in 0..(PathSize(h) - 1)
       PROVE  d \in 0..L /\ V(d) \in Nat /\ V(d) >= 2
  <2>1. d \in 0..L /\ V(d) \notin {0, 1} /\ V(d) \in Nat
    BY <1>2, <1>9, <1>11
  <2> HIDE DEF V
  <2> QED BY <2>1
<1> QED BY <1>10, <1>13, <1>14

\* The signature carries as many seeds as its parser reads.
LEMMA PathIsExact ==
  ASSUME build \in Builds, NEW h \in Parties
  PROVE  PathLength(h) = PathSize(h) /\ PathSize(h) \in 0..build.log
<1> DEFINE V(d) == Ancestor(build, h, d)
           n == PathSize(h)
           D == 0..(n - 1)
           f == [d \in D |-> Sibling(V(d))]
<1>1. n \in {build.log, build.log - 1} /\ build.log \in Nat /\ build.log >= 2
      /\ h \in 0..(build.parties - 1)
  BY PathOfSiblings, AncestorsHalve DEF Parties
<1>2. n \in Nat /\ n \in 0..build.log
  BY <1>1
<1>3. PathNodes(h) = {Sibling(V(d)) : d \in D}
      /\ \A d \in D : d \in 0..build.log /\ V(d) \in Nat /\ V(d) >= 2
  BY PathOfSiblings
<1>4. \A c, d \in D : c < d => Sibling(V(c)) # Sibling(V(d))
  <2> SUFFICES ASSUME NEW c \in D, NEW d \in D, c < d PROVE Sibling(V(c)) # Sibling(V(d))
    OBVIOUS
  <2>1. c \in 0..build.log /\ d \in 0..build.log
    BY <1>3
  <2>2. 2 * V(d) <= V(c)
    BY <1>1, <2>1, AncestorsShrink
  <2>3. V(c) \in Nat /\ V(c) >= 2 /\ V(d) \in Nat /\ V(d) >= 2
    BY <1>3
  <2> HIDE DEF V
  <2> QED BY <2>2, <2>3, SiblingNumbers
<1> HIDE DEF V
<1>5. \A c, d \in D : Sibling(V(c)) = Sibling(V(d)) => c = d
  BY <1>2, <1>4
<1>6. f \in Bijection(D, PathNodes(h))
  <2>1. \A d \in D : f[d] = Sibling(V(d))
    OBVIOUS
  <2>2. DOMAIN f = D /\ f \in [D -> PathNodes(h)]
    BY <1>3
  <2> HIDE DEF D, f
  <2>3. f \in Injection(D, PathNodes(h))
    <3>1. \A c, d \in D : f[c] = f[d] => c = d
      BY <1>5, <2>1
    <3> QED BY <2>2, <3>1 DEF Injection, IsInjective
  <2>4. \A t \in PathNodes(h) : \E s \in D : f[s] = t
    BY <1>3, <2>1
  <2>5. f \in Surjection(D, PathNodes(h))
    BY <2>2, <2>4 DEF Surjection
  <2> QED BY <2>3, <2>5 DEF Bijection
<1>7. IsFiniteSet(D) /\ Cardinality(D) = n
  <2>1. n - 1 \in Int /\ 0 \in Int
    BY <1>2
  <2>2. IsFiniteSet(D) /\ Cardinality(D) = IF 0 > n - 1 THEN 0 ELSE n - 1 - 0 + 1
    BY <2>1, FS_Interval
  <2> QED BY <1>2, <2>2
<1>8. Cardinality(PathNodes(h)) = Cardinality(D)
  <2>1. ExistsBijection(D, PathNodes(h))
    BY <1>6 DEF ExistsBijection
  <2> HIDE DEF D
  <2> QED BY <1>7, <2>1, FS_Bijection
<1> QED BY <1>2, <1>7, <1>8 DEF PathLength

LEMMA PathIsShort ==
  ASSUME build \in Builds, NEW h \in Parties
  PROVE  PathLength(h) \in 0..build.log
BY PathIsExact

\* The hidden leaf is under no node of its path.
LEMMA PathAvoidsHidden ==
  ASSUME build \in Builds, NEW h \in Parties, NEW n \in PathNodes(h), NEW c \in 0..build.log
  PROVE  Ancestor(build, h, c) # n
<1> DEFINE V(d) == Ancestor(build, h, d)
<1>1. h \in 0..(build.parties - 1)
  BY DEF Parties
<1>2. /\ build.log \in Nat /\ \A d \in 0..build.log : V(d) \in Nat
  BY <1>1, AncestorsHalve
<1>3. PICK d \in 0..build.log : n = Sibling(V(d)) /\ V(d) >= 2
  BY PathOfSiblings
<1>4. V(c) \in Nat /\ V(d) \in Nat /\ c \in Int /\ d \in Int
  BY <1>2
<1>5. CASE c = d
  <2> HIDE DEF V
  <2>1. V(c) # n
    BY <1>3, <1>4, <1>5, SiblingNumbers
  <2> QED BY <2>1 DEF V
<1>6. CASE c > d
  <2>1. 2 * V(c) <= V(d)
    BY <1>1, <1>4, <1>6, AncestorsShrink
  <2> HIDE DEF V
  <2>2. V(c) # n
    BY <1>3, <1>4, <2>1, SiblingNumbers
  <2> QED BY <2>2 DEF V
<1>7. CASE c < d
  <2>1. 2 * V(d) <= V(c)
    BY <1>1, <1>4, <1>7, AncestorsShrink
  <2> HIDE DEF V
  <2>2. V(c) >= 2
    BY <1>3, <1>4, <2>1
  <2>3. V(c) # n
    BY <1>3, <1>4, <2>1, <2>2, SiblingNumbers
  <2> QED BY <2>3 DEF V
<1> QED BY <1>4, <1>5, <1>6, <1>7

\* The walk from a leaf reaches the root.
LEMMA RootReached ==
  ASSUME NEW b \in Builds, NEW h \in 0..(b.parties - 1)
  PROVE  \E c \in 0..b.log : Ancestor(b, h, c) = 1
<1> DEFINE V(d) == Ancestor(b, h, d)
           L == b.log
           leaf == b.parties + h
<1>1. b.parties \in Nat /\ b.parties >= 4 /\ leaf \in Nat /\ leaf < 2 * b.parties
      /\ b.parties <= leaf
  BY BuildNumbers
<1>2. /\ L \in Nat /\ L >= 2
      /\ \A d \in 0..L : /\ V(d) \in Nat /\ 2^d \in Nat \ {0}
                         /\ \A q \in Nat : q * 2^d <= leaf <=> q <= V(d)
      /\ \A d \in 0..(L - 1) : V(d + 1) = V(d) \div 2 /\ 2^(d + 1) = 2 * 2^d
  BY AncestorsHalve
<1>3. 2^(L - 1) < b.parties /\ b.parties <= 2^L
  BY BuildsAssumption DEF WellFormed, Buildable
<1>4. L - 1 \in 0..L /\ L \in 0..L /\ L - 1 \in 0..(L - 1) /\ L - 1 + 1 = L
  BY <1>2
<1> HIDE DEF leaf
<1>5. 1 <= V(L - 1)
  <2>1. 2^(L - 1) \in Nat /\ 1 * 2^(L - 1) <= leaf
    BY <1>1, <1>2, <1>3, <1>4
  <2> QED BY <1>2, <1>4, <2>1
<1>6. ~(2 <= V(L))
  <2>1. 2^L \in Nat /\ ~(2 * 2^L <= leaf)
    BY <1>1, <1>2, <1>3, <1>4
  <2> QED BY <1>2, <1>4, <2>1
<1>7. V(L) = V(L - 1) \div 2 /\ V(L) \in Nat /\ V(L - 1) \in Nat
  BY <1>2, <1>4
<1> HIDE DEF V
<1>8. V(L) = 1 \/ V(L - 1) = 1
  BY <1>5, <1>6, <1>7
<1> QED BY <1>4, <1>8 DEF V

\* Each other leaf is under a node of the path: of its ancestors, the one below the
\* first that is an ancestor of the hidden leaf too.
LEMMA PathCoversOthers ==
  ASSUME build \in Builds, NEW h \in Parties, NEW p \in Parties, p # h
  PROVE  \E n \in PathNodes(h) : p \in LeavesUnder(n)
<1> DEFINE U(d) == Ancestor(build, p, d)
           V(d) == Ancestor(build, h, d)
           L == build.log
           N == build.parties
           T == {d \in 0..L : U(d) >= 1 /\ \E c \in 0..L : U(d) = V(c)}
<1>1. /\ N \in Nat /\ N >= 4 /\ h \in 0..(N - 1) /\ p \in 0..(N - 1)
  BY BuildNumbers DEF Parties
<1>2. /\ L \in Nat /\ U(0) = N + p /\ V(0) = N + h
      /\ \A d \in 0..L : U(d) \in Nat /\ V(d) \in Nat
      /\ \A d \in 0..(L - 1) : U(d + 1) = U(d) \div 2 /\ V(d + 1) = V(d) \div 2
  BY <1>1, AncestorsHalve
<1>3. ASSUME NEW d \in 0..L, d # 0 PROVE U(d) < N /\ V(d) < N
  <2>1. 0 \in 0..L /\ 0 < d
    BY <1>2, <1>3
  <2>2. 2 * U(d) <= U(0) /\ 2 * V(d) <= V(0)
    BY <1>1, <2>1, AncestorsShrink
  <2>3. U(d) \in Nat /\ V(d) \in Nat
    BY <1>2
  <2> HIDE DEF U, V
  <2> QED BY <1>1, <1>2, <2>2, <2>3
<1>4. T # {}
  <2>1. PICK d \in 0..L : U(d) = 1
    BY <1>1, RootReached
  <2>2. PICK c \in 0..L : V(c) = 1
    BY <1>1, RootReached
  <2> HIDE DEF U, V
  <2>3. d \in T
    BY <2>1, <2>2
  <2> QED BY <2>3
<1> HIDE DEF U, V
<1>5. PICK m \in T : \A y \in T : m <= y
  <2>1. T \subseteq Nat
    BY <1>2
  <2> QED BY <1>4, <2>1, Least
<1>6. PICK c \in 0..L : U(m) = V(c) /\ U(m) >= 1
  BY <1>5
<1>7. m # 0 /\ c # 0
  BY <1>1, <1>2, <1>3, <1>5, <1>6
<1>8. PICK k \in 0..(L - 1), j \in 0..(L - 1) : m = k + 1 /\ c = j + 1
  BY <1>2, <1>5, <1>6, <1>7, m - 1 \in 0..(L - 1), c - 1 \in 0..(L - 1)
<1>9. /\ U(k) \in Nat /\ V(j) \in Nat /\ k \in 0..L /\ j \in 0..L
      /\ U(k) \div 2 = V(j) \div 2 /\ U(k) \div 2 >= 1
  BY <1>2, <1>6, <1>8
<1>10. U(k) >= 2 /\ V(j) >= 2
  BY <1>9
<1>11. U(k) # V(j)
  <2>1. k \notin T
    BY <1>5, <1>8, ~(m <= k)
  <2> QED BY <1>9, <1>10, <2>1
<1>12. U(k) = Sibling(V(j))
  BY <1>9, <1>11 DEF Sibling
<1>13. U(k) \in PathNodes(h)
  <2>1. V(j) \in {V(d) : d \in 0..L} \ {0, 1}
    BY <1>9, <1>10
  <2>2. PathNodes(h) = {Sibling(n) : n \in {V(d) : d \in 0..L} \ {0, 1}}
    BY DEF PathNodes, Sibling, Ancestor, V
  <2> QED BY <1>12, <2>1, <2>2
<1>14. p \in LeavesUnder(U(k))
  BY <1>9 DEF LeavesUnder, U, Ancestor
<1> QED BY <1>13, <1>14

\* A path opens all the leaves but the hidden one.
LEMMA PathOpensOthers ==
  ASSUME build \in Builds, NEW h \in Parties
  PROVE  LeavesOf(PathNodes(h)) = Parties \ {h}
<1>1. \A n \in PathNodes(h) : LeavesUnder(n) \subseteq Parties /\ h \notin LeavesUnder(n)
  BY PathAvoidsHidden DEF LeavesUnder, Ancestor
<1>2. \A p \in Parties : p # h => \E n \in PathNodes(h) : p \in LeavesUnder(n)
  BY PathCoversOthers
<1> QED BY <1>1, <1>2 DEF LeavesOf

\* Each node of a path has a leaf under it, which is not the hidden one.
LEMMA PathHasLeaves ==
  ASSUME build \in Builds, NEW h \in Parties, NEW n \in PathNodes(h)
  PROVE  \E p \in LeavesUnder(n) : p # h
<1> DEFINE V(d) == Ancestor(build, h, d)
           N == build.parties
           L == build.log
<1>1. /\ h \in 0..(N - 1) /\ N \in Nat /\ N >= 4
  BY BuildNumbers DEF Parties
<1>2. /\ L \in Nat /\ L >= 2 /\ V(0) = N + h
      /\ \A d \in 0..L : V(d) \in Nat /\ 2^d \in Nat \ {0}
      /\ \A d \in 0..(L - 1) : 2^(d + 1) = 2 * 2^d
      /\ N <= 2^L
  BY <1>1, AncestorsHalve, BuildsAssumption DEF WellFormed, Buildable
<1>3. PICK d \in 0..L : n = Sibling(V(d)) /\ V(d) >= 2
  BY PathOfSiblings
<1>4. \A c \in 0..L : V(c) # n
  BY PathAvoidsHidden
<1>5. n \in Nat /\ n >= 2 /\ n < 2 * N
  <2>1. V(d) \in Nat /\ V(d) <= V(0)
    <3>1. CASE d = 0
      BY <1>2, <3>1
    <3>2. CASE d # 0
      <4>1. 2 * V(d) <= V(0)
        BY <1>1, <1>2, <3>2, AncestorsShrink, 0 \in 0..L
      <4>2. V(d) \in Nat /\ V(0) \in Nat
        BY <1>1, <1>2
      <4> HIDE DEF V
      <4> QED BY <4>1, <4>2
    <3> QED BY <3>1, <3>2
  <2> HIDE DEF V
  <2>2. n \in Nat /\ n >= 2 /\ n <= V(d) + 1 /\ (V(d) % 2 = 1 => n = V(d) - 1)
    BY <1>3, <2>1, SiblingNumbers
  <2>3. V(d) <= 2 * N - 1
    BY <1>1, <1>2, <2>1
  <2>4. V(d) = 2 * N - 1 => V(d) % 2 = 1
    BY <1>1
  <2> QED BY <1>1, <2>1, <2>2, <2>3, <2>4
<1>6. \E c \in 0..L : n * 2^c \in N..(2 * N - 1)
  <2> DEFINE T == {c \in 0..L : n * 2^c >= N}
             P(c) == 2^c
  <2>1. \A c \in 0..L : P(c) \in Nat \ {0} /\ n * P(c) \in Nat
    BY <1>2, <1>5
  <2>2. P(0) = 1 /\ N <= P(L) /\ \A c \in 0..(L - 1) : P(c + 1) = 2 * P(c)
    BY <1>2, BuildsAssumption DEF WellFormed
  <2>3. T = {c \in 0..L : n * P(c) >= N}
    OBVIOUS
  <2> HIDE DEF P, T
  <2>4. L \in T
    <3>1. n * P(L) >= P(L)
      BY <1>2, <1>5, <2>1, L \in 0..L
    <3> QED BY <1>1, <1>2, <2>1, <2>2, <2>3, <3>1, L \in 0..L
  <2>5. PICK c \in T : \A y \in T : c <= y
    <3>1. T \subseteq Nat
      BY <1>2, <2>3
    <3> QED BY <2>4, <3>1, Least
  <2>6. c \in 0..L /\ n * P(c) >= N /\ n * P(c) \in Nat
    BY <2>1, <2>3, <2>5
  <2>7. n * P(c) < 2 * N
    <3>1. CASE c = 0
      BY <1>5, <2>2, <3>1
    <3>2. CASE c # 0
      <4>1. PICK k \in 0..(L - 1) : c = k + 1
        <5>1. L \in Nat
          BY <1>2
        <5> HIDE DEF L
        <5>2. c - 1 \in 0..(L - 1) /\ c = (c - 1) + 1
          BY <2>6, <3>2, <5>1
        <5> QED BY <5>2
      <4>2. k \in 0..L /\ k \notin T
        BY <1>2, <2>5, <4>1
      <4>3. ~(n * P(k) >= N) /\ n * P(k) \in Nat /\ P(k) \in Nat
        BY <2>1, <2>3, <4>2
      <4>4. P(c) = 2 * P(k)
        BY <2>2, <4>1
      <4>5. n * P(c) = 2 * (n * P(k))
        BY <1>5, <4>3, <4>4
      <4> QED BY <1>1, <4>3, <4>5
    <3> QED BY <3>1, <3>2
  <2>8. n * P(c) \in N..(2 * N - 1)
    BY <1>1, <2>6, <2>7
  <2> QED BY <2>6, <2>8 DEF P
<1>7. PICK c \in 0..L : n * 2^c \in N..(2 * N - 1)
  BY <1>6
<1> DEFINE p == n * 2^c - N
<1>8. p \in 0..(N - 1) /\ N + p = n * 2^c
  BY <1>1, <1>7
<1>9. Ancestor(build, p, c) = n
  <2>1. 2^c \in Nat \ {0}
    BY <1>2
  <2>2. ASSUME NEW x \in Nat, NEW m \in Nat \ {0} PROVE (x * m) \div m = x
    <3>1. (x * m) \div m \in Nat /\ \A q \in Nat : q * m <= x * m <=> q <= (x * m) \div m
      BY Quotients, x * m \in Nat
    <3>2. x <= (x * m) \div m
      BY <3>1
    <3>3. ~((x + 1) * m <= x * m)
      BY (x + 1) * m = x * m + m, x * m \in Nat
    <3>4. ~(x + 1 <= (x * m) \div m)
      BY <3>1, <3>3, x + 1 \in Nat
    <3> QED BY <3>1, <3>2, <3>4
  <2> QED BY <1>5, <1>8, <2>1, <2>2 DEF Ancestor
<1> HIDE DEF p
<1>10. p # h
  BY <1>4, <1>9
<1>11. p \in LeavesUnder(n)
  BY <1>8, <1>9 DEF LeavesUnder, Parties, Ancestor
<1> QED BY <1>10, <1>11

-----------------------------------------------------------------------------
(* The length of a signature.                                              *)

\* The proof of an execution is not longer than the constant of the parameters.
LEMMA ProofIsShort ==
  ASSUME build \in Builds, NEW h \in Parties
  PROVE  /\ ProofLength(h, PathLength(h)) \in Int
         /\ ProofLength(h, PathLength(h))
              <= Size.wit + Size.corr + Size.br + build.log * Size.seed + Size.digest
<1>1. /\ Size.wit \in Nat /\ Size.corr \in Nat /\ Size.br \in Nat
      /\ Size.seed \in Nat /\ Size.digest \in Nat /\ build.log \in Nat
  BY SizeAssumption, BuildNumbers
<1>2. PICK n \in 0..build.log : n = PathLength(h)
  BY PathIsShort
<1>3. PICK d \in Nat : build.log = n + d
  BY <1>1, <1>2, build.log - n \in Nat
<1>4. /\ build.log * Size.seed = n * Size.seed + d * Size.seed
      /\ n * Size.seed \in Nat /\ d * Size.seed \in Nat
  BY <1>1, <1>2, <1>3
<1> QED BY <1>1, <1>2, <1>4 DEF ProofLength

\* The buffer is large enough for any hidden parties.
LEMMA SignatureIsShort ==
  ASSUME build \in Builds, NEW h \in [Execs -> Parties]
  PROVE  LengthBuilt(h) <= MaxLength
<1> DEFINE f == [x \in Execs |-> ProofLength(h[x], PathLength(h[x]))]
           B == Size.wit + Size.corr + Size.br + build.log * Size.seed + Size.digest
<1>1. build.execs \in Nat
  BY BuildNumbers
<1>2. \A x \in Execs : f[x] \in Int /\ f[x] <= B
  BY ProofIsShort
<1>3. /\ Size.wit \in Nat /\ Size.corr \in Nat /\ Size.br \in Nat /\ Size.salt \in Nat
      /\ Size.seed \in Nat /\ Size.digest \in Nat /\ build.log \in Nat
  BY SizeAssumption, BuildNumbers
<1>4. B \in Int
  BY <1>3
<1>5. f \in [0..(build.execs - 1) -> Int]
  BY <1>2 DEF Execs
<1>6. LengthBuilt(h) = HeaderSize + SumOver(f)
  BY DEF LengthBuilt
<1>7. MaxLength = 4 + HeaderSize + build.execs * B
  BY DEF MaxLength
<1> HIDE DEF f, B
<1>8. SumOver(f) = RunningSum(f, build.execs)[build.execs]
  BY Zenon DEF SumOver, RunningSum
<1>9. SumOver(f) <= build.execs * B /\ SumOver(f) \in Int
  <2>1. \A k \in 0..(build.execs - 1) : f[k] <= B
    BY <1>2 DEF Execs
  <2>2. RunningSum(f, build.execs)[build.execs] <= build.execs * B
    BY <1>1, <1>4, <1>5, <2>1, SumBound
  <2>3. RunningSum(f, build.execs) \in [0..build.execs -> Int]
    BY <1>1, <1>5, RunningSums
  <2> QED BY <1>1, <1>8, <2>2, <2>3
<1>10. HeaderSize \in Int /\ build.execs * B \in Int
  BY <1>1, <1>3, <1>4 DEF HeaderSize
<1> QED BY <1>6, <1>7, <1>9, <1>10

-----------------------------------------------------------------------------
(* The inductive invariant.                                                *)

\* The steps before the view challenge is drawn.
BeforeViews == {"share", "challenge", "simulate", "views"}

\* There is no signature before the view challenge, and always parties to hide after it.
HiddenInv ==
  /\ pc \in BeforeViews => sig = NoHash
  /\ pc \notin BeforeViews => hidden \in [Execs -> Parties]
  /\ pc # "failed"

\* The invariant of the signer, which no step of the verifier disturbs.
SignerInv == ShareInv /\ HiddenInv

LEMMA InitSigner == Init => SignerInv
<1>1. Init => HiddenInv
  BY DEF Init, HiddenInv, BeforeViews
<1> QED BY <1>1, InitShares DEF SignerInv

\* The steps that leave the hidden parties and the signature alone.
LEMMA HiddenKept ==
  ASSUME HiddenInv, pc' # "failed", UNCHANGED <<params, hidden, sig>>,
         pc \in BeforeViews <=> pc' \in BeforeViews
  PROVE  HiddenInv'
BY DEF HiddenInv, Execs, Parties, Last, params

LEMMA BuildStep == SignerInv /\ BuildSignature => SignerInv'
<1> SUFFICES ASSUME SignerInv, BuildSignature PROVE SignerInv'
  OBVIOUS
<1>1. /\ pc = "build" /\ UNCHANGED <<params, plain, aux, hidden>>
      /\ build \in Builds /\ hidden \in [Execs -> Parties]
  BY DEF SignerInv, ShareInv, HiddenInv, BeforeViews, BuildSignature, shareVars
<1>2. LengthBuilt(hidden) <= MaxLength
  BY <1>1, SignatureIsShort
<1>3. sig'.length = LengthBuilt(hidden) /\ pc' = "sent"
  BY <1>2 DEF BuildSignature
<1>4. ShareInv'
  BY <1>1, <1>3, OtherSteps DEF SignerInv
<1>5. HiddenInv'
  BY <1>1, <1>3 DEF HiddenInv, BeforeViews, Execs, Parties, params
<1> QED BY <1>4, <1>5 DEF SignerInv

LEMMA ViewsStep == SignerInv /\ ViewChallengeDrawn => SignerInv'
<1> SUFFICES ASSUME SignerInv, ViewChallengeDrawn PROVE SignerInv'
  OBVIOUS
<1>1. /\ pc = "views" /\ pc' = "build" /\ UNCHANGED <<params, plain, aux, sig>>
      /\ hidden' \in [Execs -> Parties] /\ sig = NoHash
  BY DEF SignerInv, HiddenInv, BeforeViews, ViewChallengeDrawn, shareVars
<1>2. ShareInv'
  BY <1>1, OtherSteps DEF SignerInv
<1>3. HiddenInv'
  BY <1>1 DEF HiddenInv, BeforeViews, Execs, Parties, params
<1> QED BY <1>2, <1>3 DEF SignerInv

\* The steps after the view challenge only read what the signer has computed.
LEMMA LaterSteps ==
  ASSUME SignerInv, pc \notin BeforeViews, pc' \notin BeforeViews \cup {"failed"},
         UNCHANGED <<params, plain, aux, hidden, sig>>
  PROVE  SignerInv'
<1>1. pc # "share" /\ pc' # "share"
  BY DEF BeforeViews
<1> QED BY <1>1, OtherSteps, HiddenKept DEF SignerInv

LEMMA SignerStep == SignerInv /\ [Next]_vars => SignerInv'
<1> SUFFICES ASSUME SignerInv, [Next]_vars PROVE SignerInv'
  OBVIOUS
<1> USE DEF BeforeViews
<1>1. CASE ShareFour
  <2>1. HiddenInv'
    BY <1>1, HiddenKept DEF ShareFour, emulVars, SignerInv
  <2> QED BY <1>1, <2>1, ShareFourStep DEF SignerInv
<1>2. CASE ShareOne
  <2>1. HiddenInv'
    BY <1>2, HiddenKept DEF ShareOne, emulVars, SignerInv
  <2> QED BY <1>2, <2>1, ShareOneStep DEF SignerInv
<1>3. CASE ShareLast
  <2>1. HiddenInv'
    BY <1>3, HiddenKept DEF ShareLast, emulVars, SignerInv
  <2> QED BY <1>3, <2>1, ShareLastStep DEF SignerInv
<1>4. CASE MpcChallenge \/ Simulate
  <2>1. /\ pc \in BeforeViews \ {"share"} /\ pc' \in BeforeViews \ {"share"}
        /\ UNCHANGED <<params, plain, aux, hidden, sig>>
    BY <1>4 DEF MpcChallenge, Simulate, shareVars
  <2> QED BY <2>1, OtherSteps, HiddenKept DEF SignerInv
<1>5. CASE ViewChallengeDrawn
  BY <1>5, ViewsStep
<1>6. CASE BuildSignature
  BY <1>6, BuildStep
<1>7. CASE Transmit
  <2>1. /\ pc = "sent" /\ pc' = "parse" /\ UNCHANGED <<params, shareVars, emulVars>>
    BY <1>7 DEF Transmit, DeliverGenuine, DeliverOtherHeader, DeliverOtherProof, Deliver
  <2> QED BY <2>1, LaterSteps DEF shareVars, emulVars
<1>8. CASE Parse \/ ParseFails
  <2>1. /\ pc = "parse" /\ pc' \in {"recompute", "done"}
        /\ UNCHANGED <<params, plain, aux, hidden, sig>>
    BY <1>8 DEF Parse, ParseFails, shareVars, emulVars
  <2> QED BY <2>1, LaterSteps
<1>9. CASE RecomputeFour \/ RecomputeOne \/ RecomputeLast
  <2>1. /\ pc = "recompute" /\ pc' \in {"recompute", "emulate"}
        /\ UNCHANGED <<params, plain, aux, hidden, sig>>
    BY <1>9 DEF RecomputeFour, RecomputeOne, RecomputeLast, emulVars
  <2> QED BY <2>1, LaterSteps
<1>10. CASE Emulate \/ Compare
  <2>1. /\ pc \in {"emulate", "compare"} /\ pc' \in {"recompute", "compare", "done"}
        /\ UNCHANGED <<params, plain, aux, hidden, sig>>
    BY <1>10 DEF Emulate, Compare, shareVars, emulVars
  <2> QED BY <2>1, LaterSteps
<1>11. CASE Stopped \/ UNCHANGED vars
  <2>1. UNCHANGED <<pc, params, shareVars, hidden, sig>>
    BY <1>11 DEF Stopped, vars, emulVars
  <2>2. ShareInv'
    BY <2>1 DEF SignerInv, ShareInv, Shared, Execs, Parties, Last, params, shareVars
  <2>3. HiddenInv'
    BY <2>1 DEF SignerInv, HiddenInv, Execs, Parties, Last, params
  <2> QED BY <2>2, <2>3 DEF SignerInv
<1> QED
  BY <1>1, <1>2, <1>3, <1>4, <1>5, <1>6, <1>7, <1>8, <1>9, <1>10, <1>11
  DEF Next, Sign, Transmit, Verify

LEMMA SignerInvariant == Spec => []SignerInv
<1> QED BY InitSigner, SignerStep, PTL DEF Spec

\* For every build, key and seed, and every expansion of the seeds into shares, the
\* shares that mpcith_additive_based_sign gives to the parties of an execution add up
\* to the witness and to a correlated pair, whatever the four slots held before.
THEOREM SharesReconstruct == Spec => []SharesAddUp
<1>1. SignerInv => SharesAddUp
  BY InvImpliesSharesAddUp DEF SignerInv
<1> QED BY <1>1, SignerInvariant, PTL

\* Whatever parties are hidden, what build_signature writes fits in a buffer of
\* PARAM_SIGNATURE_SIZEBYTES.
THEOREM SignsInBuffer == Spec => []SignatureFits
<1>1. SignerInv => SignatureFits
  BY DEF SignerInv, HiddenInv, SignatureFits
<1> QED BY <1>1, SignerInvariant, PTL

-----------------------------------------------------------------------------
(* The shares of an execution, and what their holders broadcast.           *)

\* The shares of the parties of an execution, that of the last one being given by a.
SharesOf(b, r, x, a) ==
  [p \in 0..(b.parties - 1) |->
     IF p = b.parties - 1 THEN [wit |-> a.wit, unif |-> Expand(r, x, p).unif, corr |-> a.corr]
     ELSE Expand(r, x, p)]

\* What the last party is given.
Given == [wit : Field, corr : Field]

LEMMA SharesAreShares ==
  ASSUME NEW b \in Builds, NEW r \in Roots, NEW x \in 0..(b.execs - 1), NEW a \in Given
  PROVE  /\ SharesOf(b, r, x, a) \in [0..(b.parties - 1) -> Share]
         /\ \A p \in 0..(b.parties - 2) : SharesOf(b, r, x, a)[p] = Expand(r, x, p)
         /\ SharesOf(b, r, x, a)[b.parties - 1]
              = [wit |-> a.wit, unif |-> Expand(r, x, b.parties - 1).unif, corr |-> a.corr]
<1>1. b.parties \in Nat /\ b.parties >= 4
  BY BuildNumbers
<1>2. \A p \in 0..(b.parties - 1) : Expand(r, x, p) \in Share
  BY SharesExpanded
<1>3. \A p \in 0..(b.parties - 1) :
        [wit |-> a.wit, unif |-> Expand(r, x, p).unif, corr |-> a.corr] \in Share
  BY <1>2 DEF Given, Share
<1>4. SharesOf(b, r, x, a) \in [0..(b.parties - 1) -> Share]
  BY <1>2, <1>3 DEF SharesOf
<1>5. b.parties - 1 \in 0..(b.parties - 1)
  BY <1>1
<1>6. \A p \in 0..(b.parties - 2) : p \in 0..(b.parties - 1) /\ p # b.parties - 1
  BY <1>1
<1> QED BY <1>4, <1>5, <1>6 DEF SharesOf

LEMMA OtherShare ==
  ASSUME NEW b \in Builds, NEW r \in Roots, NEW x \in 0..(b.execs - 1), NEW a \in Given,
         NEW p \in 0..(b.parties - 2)
  PROVE  SharesOf(b, r, x, a)[p] = Expand(r, x, p)
<1>1. p \in 0..(b.parties - 1) /\ p # b.parties - 1
  BY BuildNumbers
<1> QED BY <1>1 DEF SharesOf

\* The sums of the shares are those of the accumulator and of the last party.
LEMMA TotalOfShares ==
  ASSUME NEW b \in Builds, NEW r \in Roots, NEW x \in 0..(b.execs - 1), NEW a \in Given,
         NEW c \in Parts
  PROVE  /\ SumUpTo(PartOf(SharesOf(b, r, x, a), c), b.parties)
              = SumTo(b, r, x, c, b.parties - 1) + SharesOf(b, r, x, a)[b.parties - 1][c]
         /\ SharesOf(b, r, x, a)[b.parties - 1][c] \in Field
         /\ SumTo(b, r, x, c, b.parties - 1) \in Int
<1> DEFINE f == PartOf(SharesOf(b, r, x, a), c)
           N == b.parties
<1>1. N \in Nat /\ N >= 4 /\ N - 1 \in Nat /\ N - 1 \in 0..(N - 1) /\ N - 1 + 1 = N /\ N - 1 - 1 = N - 2
  BY BuildNumbers
<1>2. SharesOf(b, r, x, a) \in [0..(N - 1) -> Share]
  BY SharesAreShares
<1>3. \A p \in 0..(N - 1) : f[p] = SharesOf(b, r, x, a)[p][c] /\ f[p] \in Field /\ f[p] \in Int
  <2>1. \A p \in 0..(N - 1) : SharesOf(b, r, x, a)[p][c] \in Field
    BY <1>2 DEF Share, Parts
  <2>2. \A p \in 0..(N - 1) : f[p] = SharesOf(b, r, x, a)[p][c]
    BY <1>2 DEF PartOf
  <2> QED BY <2>1, <2>2, FieldElements
<1>4. \A p \in 0..(N - 2) : f[p] = Expand(r, x, p)[c]
  <2>1. \A p \in 0..(N - 2) : p \in 0..(N - 1)
    BY <1>1
  <2>2. \A p \in 0..(N - 2) : SharesOf(b, r, x, a)[p] = Expand(r, x, p)
    BY OtherShare
  <2> HIDE DEF f
  <2> QED BY <1>3, <2>1, <2>2
<1>5. [k \in 0..(N - 1 - 1) |-> f[k]] = Terms(b, r, x, c)
  BY <1>1, <1>4 DEF Terms
<1> HIDE DEF f
<1>6. SumUpTo(f, N - 1) = SumTo(b, r, x, c, N - 1)
  BY <1>5 DEF SumUpTo, SumTo
<1>7. SumUpTo(f, N - 1 + 1) = SumUpTo(f, N - 1) + f[N - 1]
  BY <1>1, <1>3, SumsUpTo
<1>8. SumTo(b, r, x, c, N - 1) \in Int
  BY <1>1, PartialSums
<1> QED BY <1>1, <1>3, <1>6, <1>7, <1>8 DEF f

\* What is known of an execution whose shares are complete.
Complete(b, r, x, k, a, pl) ==
  /\ F(SumTo(b, r, x, "wit", b.parties - 1) + a.wit) = k.x
  /\ F(SumTo(b, r, x, "unif", b.parties - 1) + Expand(r, x, b.parties - 1).unif) = pl.unif
  /\ F(SumTo(b, r, x, "corr", b.parties - 1) + a.corr) = F(-(k.x * pl.unif))

\* The coefficients of an execution: those of its challenge, the equation of the key,
\* and the plain broadcast.
KeyInstance(k) == Instance(k.A, k.b, k.x)
Emulated(ch, k, alpha) == FiveRounds(ch.eps * ch.gamma, k.A, k.b, KeyInstance(k).y, alpha)
PlainAlpha(ch, k, u) == Alpha(ch, [wit |-> k.x, unif |-> u, corr |-> 0], KeyInstance(k))

LEMMA KeyInField ==
  ASSUME NEW k \in Keys
  PROVE  /\ k.A \in Field /\ k.b \in Field /\ k.x \in Field
         /\ k.A \in Int /\ k.b \in Int /\ k.x \in Int /\ F(k.x) = k.x
         /\ KeyInstance(k) \in [A : Field, b : Field, y : Field]
         /\ KeyInstance(k).A = k.A /\ KeyInstance(k).b = k.b
         /\ Solves(k.x, k.A, k.b, KeyInstance(k).y)
<1>1. k.A \in Field /\ k.b \in Field /\ k.x \in Field
  BY SharesAssumption
<1>2. k.A \in Int /\ k.b \in Int /\ k.x \in Int /\ F(k.x) = k.x
  BY <1>1, FieldElements
<1> DEFINE v == k.A * k.x * k.x + k.b * k.x
<1>3. v \in Int
  BY <1>2
<1> HIDE DEF v
<1>4. F(v) \in Field /\ F(F(v)) = F(v)
  BY <1>3, NormalForm
<1>5. KeyInstance(k) = [A |-> k.A, b |-> k.b, y |-> F(v)]
  BY DEF KeyInstance, Instance, v
<1> QED BY <1>1, <1>2, <1>4, <1>5 DEF Solves, v

LEMMA PlainAlphaIs ==
  ASSUME NEW ch \in Challenge, NEW k \in Keys, NEW u \in Field
  PROVE  /\ PlainAlpha(ch, k, u) \in Field /\ PlainAlpha(ch, k, u) \in Int
         /\ ch.eps * ch.gamma \in Int
         /\ Opens(PlainAlpha(ch, k, u), ch.eps * ch.gamma, k.A, k.x, u)
<1> DEFINE G == ch.eps * ch.gamma
           v == G * k.A * k.x + u
<1>1. ch.eps \in Int /\ ch.gamma \in Int /\ u \in Int
  BY FieldElements DEF Challenge
<1>2. G \in Int /\ v \in Int
  BY <1>1, KeyInField
<1>3. PlainAlpha(ch, k, u) = F(v)
  BY KeyInField DEF PlainAlpha, Alpha
<1> HIDE DEF v
<1>4. F(v) \in Field /\ F(v) \in Int /\ F(F(v)) = F(v)
  BY <1>2, NormalForm
<1> QED BY <1>2, <1>3, <1>4 DEF Opens, v

\* Shares that add up to a solution and to a correlated pair.
LEMMA SolutionIsTotal ==
  ASSUME NEW b \in Builds, NEW k \in Keys, NEW ch \in Challenge,
         NEW shares \in [0..(b.parties - 1) -> Share],
         NEW w \in Field, NEW u \in Field, NEW alpha \in Field,
         Solves(w, k.A, k.b, KeyInstance(k).y), Opens(alpha, ch.eps * ch.gamma, k.A, w, u),
         F(SumUpTo(PartOf(shares, "wit"), b.parties)) = w,
         F(SumUpTo(PartOf(shares, "unif"), b.parties)) = u,
         F(SumUpTo(PartOf(shares, "corr"), b.parties)) = F(-(w * u))
  PROVE  TotalIs(Emulated(ch, k, alpha), b, shares, alpha)
<1> DEFINE T(c) == SumUpTo(PartOf(shares, c), b.parties)
           G == ch.eps * ch.gamma
           y == KeyInstance(k).y
           kk == Emulated(ch, k, alpha)
           Tw == T("wit")
           Tu == T("unif")
           Tc == T("corr")
<1>1. "wit" \in Parts /\ "unif" \in Parts /\ "corr" \in Parts
  BY DEF Parts
<1>2. Tw \in Int /\ Tu \in Int /\ Tc \in Int
  BY <1>1, TotalsAreNumbers, BuildsAssumption
<1>3. F(Tw) = w /\ F(Tu) = u /\ F(Tc) = F(-(w * u))
  OBVIOUS
<1>4. /\ alpha \in Int /\ F(alpha) = alpha /\ w \in Int /\ F(w) = w /\ u \in Int /\ F(u) = u
      /\ ch.eps \in Int /\ ch.gamma \in Int
  BY FieldElements DEF Challenge
<1>5. G \in Int /\ Opens(alpha, G, k.A, w, u)
  BY <1>4
<1>6. k.A \in Int /\ k.b \in Int /\ Solves(w, k.A, k.b, y) /\ y \in Int
  BY KeyInField, FieldElements
<1>7. /\ kk.aw = G * k.A /\ kk.au = 1 /\ kk.vw = (-1) * (G * k.b) - alpha /\ kk.vc = -1
      /\ kk.cst = G * y
  BY DEF Emulated, FiveRounds
<1> HIDE DEF Tw, Tu, Tc, G, y, kk
<1>8. AlphaAddsUp(alpha, G, k.A, Tw, Tu)
  BY <1>2, <1>3, <1>4, <1>5, <1>6, AlphaTotal
<1>9. VAddsUp(alpha, G, k.A, k.b, y, Tw, Tc)
  BY <1>2, <1>3, <1>4, <1>5, <1>6, VTotal
<1>10. /\ F(kk.aw * Tw + kk.au * Tu) = alpha
       /\ F(kk.vw * Tw + kk.vc * Tc + kk.cst) = 0
  BY <1>4, <1>7, <1>8, <1>9, ZeroIsShare DEF AlphaAddsUp, VAddsUp
<1> QED BY <1>10 DEF TotalIs, kk, Tw, Tu, Tc

LEMMA PlainIsTotal ==
  ASSUME NEW b \in Builds, NEW r \in Roots, NEW x \in 0..(b.execs - 1), NEW k \in Keys,
         NEW a \in Given, NEW pl, pl.unif \in Field, Complete(b, r, x, k, a, pl),
         NEW ch \in Challenge
  PROVE  TotalIs(Emulated(ch, k, PlainAlpha(ch, k, pl.unif)), b, SharesOf(b, r, x, a),
                 PlainAlpha(ch, k, pl.unif))
<1> DEFINE shares == SharesOf(b, r, x, a)
           T(c) == SumUpTo(PartOf(shares, c), b.parties)
<1>1. /\ shares[b.parties - 1].wit = a.wit /\ shares[b.parties - 1].corr = a.corr
      /\ shares[b.parties - 1].unif = Expand(r, x, b.parties - 1).unif
  <2>1. shares[b.parties - 1]
          = [wit |-> a.wit, unif |-> Expand(r, x, b.parties - 1).unif, corr |-> a.corr]
    BY SharesAreShares
  <2> QED BY <2>1
<1>2. "wit" \in Parts /\ "unif" \in Parts /\ "corr" \in Parts
  BY DEF Parts
<1>3. /\ T("wit") = SumTo(b, r, x, "wit", b.parties - 1) + a.wit
      /\ T("unif") = SumTo(b, r, x, "unif", b.parties - 1) + Expand(r, x, b.parties - 1).unif
      /\ T("corr") = SumTo(b, r, x, "corr", b.parties - 1) + a.corr
  BY <1>1, <1>2, TotalOfShares
<1>4. F(T("wit")) = k.x /\ F(T("unif")) = pl.unif /\ F(T("corr")) = F(-(k.x * pl.unif))
  BY <1>3 DEF Complete
<1>5. /\ shares \in [0..(b.parties - 1) -> Share] /\ k.x \in Field
      /\ Solves(k.x, k.A, k.b, KeyInstance(k).y)
  BY SharesAreShares, KeyInField
<1>6. /\ PlainAlpha(ch, k, pl.unif) \in Field
      /\ Opens(PlainAlpha(ch, k, pl.unif), ch.eps * ch.gamma, k.A, k.x, pl.unif)
  BY PlainAlphaIs
<1> HIDE DEF shares
<1> QED BY <1>4, <1>5, <1>6, SolutionIsTotal DEF shares

\* What the verifier of a genuine signature deduces from the shares it opens is what the
\* signer has broadcast.
Deduced(b, ch, k, alpha, h, opened) ==
  Recomposed(b, h,
    [p \in Packs(b) |-> Broadcast(ch, opened[p], alpha, KeyInstance(k), HasOffset(b, h, p))],
    PlainBroadcast(alpha))
BroadcastOf(b, ch, k, alpha, pk) ==
  [p \in Packs(b) |-> Broadcast(ch, pk[p], alpha, KeyInstance(k), FALSE)]

\* A complete execution, and what the verifier holds of it.
Verifiable(b, r, x, k, a, pl, ch, h, pk, opened, alpha) ==
  /\ b \in Builds /\ r \in Roots /\ x \in 0..(b.execs - 1) /\ k \in Keys /\ a \in Given
  /\ pl.unif \in Field /\ Complete(b, r, x, k, a, pl)
  /\ ch \in Challenge /\ h \in 0..(b.parties - 1)
  /\ HoldPacks(b, SharesOf(b, r, x, a), pk, b.parties)
  /\ HoldOpen(b, h, SharesOf(b, r, x, a), opened, b.parties)
  /\ alpha = PlainAlpha(ch, k, pl.unif)

LEMMA SameBroadcast ==
  ASSUME NEW b, NEW r, NEW x, NEW k, NEW a, NEW pl, NEW ch, NEW h, NEW pk, NEW opened, NEW alpha,
         Verifiable(b, r, x, k, a, pl, ch, h, pk, opened, alpha)
  PROVE  Deduced(b, ch, k, alpha, h, opened) = BroadcastOf(b, ch, k, alpha, pk)
<1> USE DEF Verifiable
<1> DEFINE shares == SharesOf(b, r, x, a)
           kk == Emulated(ch, k, alpha)
<1>1. Execution(b, shares, h, pk, opened)
  BY SharesAreShares, BuildsAssumption DEF Execution
<1>2. TotalIs(kk, b, shares, alpha)
  BY PlainIsTotal
<1>3. alpha \in Field
  BY PlainAlphaIs
<1>4. ASSUME NEW s \in Share, NEW off \in BOOLEAN
      PROVE  kk \in Coefficients /\ Broadcast(ch, s, alpha, KeyInstance(k), off) = Affine(kk, s, off)
  <2>1. KeyInstance(k) \in [A : Field, b : Field, y : Field]
    BY KeyInField
  <2>2. kk = FiveRounds(ch.eps * ch.gamma, KeyInstance(k).A, KeyInstance(k).b, KeyInstance(k).y, alpha)
    BY KeyInField DEF Emulated
  <2> HIDE DEF kk
  <2> QED BY <1>3, <2>1, <2>2, BroadcastIsAffine
<1>5. kk \in Coefficients
  BY <1>4, ZeroIsShare
<1> HIDE DEF kk, shares
<1>6. Recomposed(b, h, VerifiersBroadcast(kk, b, h, opened), PlainBroadcast(alpha))
        = SignersBroadcast(kk, b, pk)
  BY <1>1, <1>2, <1>3, <1>5, RecomposedIsSigners
<1>7. \A p \in Packs(b) : pk[p] \in Share /\ opened[p] \in Share
  BY DEF HoldPacks, HoldOpen
<1>8. \A p \in Packs(b) : HasOffset(b, h, p) \in BOOLEAN
  <2>1. b.kind \in {"traditional", "hypercube", "threshold", "lifting"}
    BY BuildsAssumption DEF WellFormed
  <2> QED BY <2>1 DEF HasOffset
<1>9. VerifiersBroadcast(kk, b, h, opened)
        = [p \in Packs(b) |->
             Broadcast(ch, opened[p], alpha, KeyInstance(k), HasOffset(b, h, p))]
  BY <1>4, <1>7, <1>8 DEF VerifiersBroadcast
<1>10. SignersBroadcast(kk, b, pk)
         = [p \in Packs(b) |-> Broadcast(ch, pk[p], alpha, KeyInstance(k), FALSE)]
  BY <1>4, <1>7 DEF SignersBroadcast
<1> QED BY <1>6, <1>9, <1>10 DEF Deduced, BroadcastOf

-----------------------------------------------------------------------------
(* The packs of the signer.                                                *)

\* What is kept of each party of each execution.
Row(b, g)  == g = [p \in 0..(b.parties - 1) |-> g[p]]
Grid(b, c) == c = [x \in 0..(b.execs - 1) |-> c[x]] /\ \A x \in 0..(b.execs - 1) : Row(b, c[x])

\* One of them has changed.
Updated(d, c, x, g) == d = [c EXCEPT ![x] = g]

LEMMA GridUpdated ==
  ASSUME NEW b, NEW c, Grid(b, c), NEW x \in 0..(b.execs - 1), NEW g, Row(b, g),
         NEW d, Updated(d, c, x, g)
  PROVE  Grid(b, d) /\ d[x] = g /\ \A z : z # x => d[z] = c[z]
<1>1. c = [z \in 0..(b.execs - 1) |-> c[z]] /\ \A z \in 0..(b.execs - 1) : Row(b, c[z])
  BY DEF Grid
<1> USE DEF Updated
<1>2. d = [z \in 0..(b.execs - 1) |-> IF z = x THEN g ELSE c[z]]
  BY <1>1
<1>3. d[x] = g /\ \A z \in 0..(b.execs - 1) : z # x => d[z] = c[z]
  BY <1>2
<1>4. d = [z \in 0..(b.execs - 1) |-> d[z]]
  BY <1>2
<1>5. \A z \in 0..(b.execs - 1) : Row(b, d[z])
  BY <1>1, <1>3
<1>6. \A z : z # x => d[z] = c[z]
  BY <1>1
<1> QED BY <1>3, <1>4, <1>5, <1>6 DEF Grid

LEMMA RowUpdated ==
  ASSUME NEW b, NEW f, Row(b, f), NEW p \in 0..(b.parties - 1), NEW v,
         NEW g, Updated(g, f, p, v)
  PROVE  Row(b, g) /\ g[p] = v /\ \A z : z # p => g[z] = f[z]
<1>1. f = [z \in 0..(b.parties - 1) |-> f[z]]
  BY DEF Row
<1> USE DEF Updated
<1>2. g = [z \in 0..(b.parties - 1) |-> IF z = p THEN v ELSE f[z]]
  BY <1>1
<1>3. g[p] = v /\ g = [z \in 0..(b.parties - 1) |-> g[z]]
  BY <1>2
<1>4. \A z : z # p => g[z] = f[z]
  BY <1>1
<1> QED BY <1>3, <1>4 DEF Row

LEMMA GridsEqual ==
  ASSUME NEW b, NEW c, NEW d, Grid(b, c), Grid(b, d),
         \A x \in 0..(b.execs - 1), p \in 0..(b.parties - 1) : c[x][p] = d[x][p]
  PROVE  c = d
<1>1. ASSUME NEW x \in 0..(b.execs - 1) PROVE c[x] = d[x]
  <2>1. c[x] = [p \in 0..(b.parties - 1) |-> c[x][p]] /\ d[x] = [p \in 0..(b.parties - 1) |-> d[x][p]]
    BY DEF Grid, Row
  <2>2. [p \in 0..(b.parties - 1) |-> c[x][p]] = [p \in 0..(b.parties - 1) |-> d[x][p]]
    OBVIOUS
  <2> QED BY <2>1, <2>2
<1>2. c = [x \in 0..(b.execs - 1) |-> c[x]] /\ d = [x \in 0..(b.execs - 1) |-> d[x]]
  BY DEF Grid
<1>3. [x \in 0..(b.execs - 1) |-> c[x]] = [x \in 0..(b.execs - 1) |-> d[x]]
  BY <1>1
<1> QED BY <1>2, <1>3

\* Shares packed four at a time.
LEMMA PacksFourMore ==
  ASSUME NEW b \in Builds, NEW shares \in [0..(b.parties - 1) -> Share],
         NEW n \in Nat, n + 4 < b.parties, NEW pk, HoldPacks(b, shares, pk, n)
  PROVE  HoldPacks(b, shares,
           Packed(b, Packed(b, Packed(b, Packed(b, pk, n, shares[n]), n + 1, shares[n + 1]),
                  n + 2, shares[n + 2]), n + 3, shares[n + 3]), n + 4)
<1> DEFINE p1 == Packed(b, pk, n, shares[n])
           p2 == Packed(b, p1, n + 1, shares[n + 1])
           p3 == Packed(b, p2, n + 2, shares[n + 2])
           p4 == Packed(b, p3, n + 3, shares[n + 3])
<1>1. /\ n \in 0..(b.parties - 1) /\ n + 1 \in 0..(b.parties - 1) /\ n + 2 \in 0..(b.parties - 1)
      /\ n + 3 \in 0..(b.parties - 1) /\ n + 1 + 1 = n + 2 /\ n + 2 + 1 = n + 3 /\ n + 3 + 1 = n + 4
  BY BuildNumbers
<1>2. WellFormed(b)
  BY BuildsAssumption
<1>3. HoldPacks(b, shares, p1, n + 1)
  BY <1>1, <1>2, PacksOneMore
<1> HIDE DEF p1
<1>4. HoldPacks(b, shares, p2, n + 1 + 1)
  BY <1>1, <1>2, <1>3, PacksOneMore
<1> HIDE DEF p2
<1>5. HoldPacks(b, shares, p3, n + 2 + 1)
  BY <1>1, <1>2, <1>4, PacksOneMore
<1> HIDE DEF p3
<1>6. HoldPacks(b, shares, p4, n + 3 + 1)
  BY <1>1, <1>2, <1>5, PacksOneMore
<1> QED BY <1>1, <1>6 DEF p1, p2, p3

\* The shares of which the packs of an execution are made so far.
Held(b, r, x, a, pk, n) == HoldPacks(b, SharesOf(b, r, x, a), pk, n)

LEMMA HeldAfterFour ==
  ASSUME NEW b \in Builds, NEW r \in Roots, NEW x \in 0..(b.execs - 1), NEW a \in Given,
         NEW pk, NEW n \in Nat, n + 4 < b.parties, Held(b, r, x, a, pk, n)
  PROVE  Held(b, r, x, a,
           Packed(b, Packed(b, Packed(b, Packed(b, pk, n, Expand(r, x, n)),
                  n + 1, Expand(r, x, n + 1)), n + 2, Expand(r, x, n + 2)),
                  n + 3, Expand(r, x, n + 3)), n + 4)
<1> DEFINE s == SharesOf(b, r, x, a)
<1>1. /\ n \in 0..(b.parties - 2) /\ n + 1 \in 0..(b.parties - 2)
      /\ n + 2 \in 0..(b.parties - 2) /\ n + 3 \in 0..(b.parties - 2)
  BY BuildNumbers
<1>2. /\ s[n] = Expand(r, x, n) /\ s[n + 1] = Expand(r, x, n + 1)
      /\ s[n + 2] = Expand(r, x, n + 2) /\ s[n + 3] = Expand(r, x, n + 3)
  <2>1. \A p \in 0..(b.parties - 2) : s[p] = Expand(r, x, p)
    BY OtherShare
  <2> HIDE DEF s
  <2> QED BY <1>1, <2>1
<1>3. s \in [0..(b.parties - 1) -> Share]
  BY SharesAreShares
<1>4. HoldPacks(b, s, pk, n)
  BY DEF Held
<1> HIDE DEF s
<1>5. HoldPacks(b, s,
           Packed(b, Packed(b, Packed(b, Packed(b, pk, n, s[n]), n + 1, s[n + 1]),
                  n + 2, s[n + 2]), n + 3, s[n + 3]), n + 4)
  BY <1>3, <1>4, PacksFourMore
<1> QED BY <1>2, <1>5 DEF Held, s

LEMMA HeldAfterOne ==
  ASSUME NEW b \in Builds, NEW r \in Roots, NEW x \in 0..(b.execs - 1), NEW a \in Given,
         NEW pk, NEW n \in 0..(b.parties - 2), Held(b, r, x, a, pk, n)
  PROVE  Held(b, r, x, a, Packed(b, pk, n, Expand(r, x, n)), n + 1)
<1> DEFINE s == SharesOf(b, r, x, a)
<1>1. n \in 0..(b.parties - 1)
  BY BuildNumbers
<1>2. s[n] = Expand(r, x, n) /\ s \in [0..(b.parties - 1) -> Share]
  <2>1. s[n] = Expand(r, x, n)
    BY OtherShare
  <2>2. s \in [0..(b.parties - 1) -> Share]
    BY SharesAreShares
  <2> QED BY <2>1, <2>2
<1>3. WellFormed(b) /\ HoldPacks(b, s, pk, n)
  BY BuildsAssumption DEF Held
<1> HIDE DEF s
<1>4. HoldPacks(b, s, Packed(b, pk, n, s[n]), n + 1)
  BY <1>1, <1>2, <1>3, PacksOneMore
<1> QED BY <1>2, <1>4 DEF Held, s

\* The share of the last party is known when all the others are packed.
LEMMA HeldAfterLast ==
  ASSUME NEW b \in Builds, NEW r \in Roots, NEW x \in 0..(b.execs - 1), NEW a \in Given,
         NEW old, NEW pk, Held(b, r, x, old, pk, b.parties - 1)
  PROVE  Held(b, r, x, a,
           Packed(b, pk, b.parties - 1,
             [wit |-> a.wit, unif |-> Expand(r, x, b.parties - 1).unif, corr |-> a.corr]),
           b.parties)
<1> DEFINE s == SharesOf(b, r, x, a)
           t == SharesOf(b, r, x, old)
           n == b.parties - 1
           l == [wit |-> a.wit, unif |-> Expand(r, x, b.parties - 1).unif, corr |-> a.corr]
<1>1. n \in 0..(b.parties - 1) /\ n \in 0..b.parties /\ n + 1 = b.parties
  BY BuildNumbers
<1>2. s[n] = l /\ s \in [0..(b.parties - 1) -> Share]
  BY SharesAreShares
<1>3. WellFormed(b) /\ HoldPacks(b, t, pk, n)
  BY BuildsAssumption DEF Held
<1>4. \A p \in 0..(n - 1) : t[p] = s[p]
  <2>1. \A p \in 0..(n - 1) : p \in 0..(b.parties - 1) /\ p # b.parties - 1
    BY BuildNumbers
  <2> QED BY <2>1 DEF SharesOf
<1> HIDE DEF s, t, n, l
<1>5. HoldPacks(b, s, pk, n)
  BY <1>1, <1>3, <1>4, OtherShares
<1>6. HoldPacks(b, s, Packed(b, pk, n, s[n]), n + 1)
  BY <1>1, <1>2, <1>3, <1>5, PacksOneMore
<1> QED BY <1>1, <1>2, <1>6 DEF Held, s, n, l

\* The packs of an execution hold the shares of the parties treated so far, to which the
\* signer is committed; the packs of the executions to come are empty.
Committed(x, p) == coms[x][p] = Commit(x, p, Seed(x, p), aux[x], "salt")
HeldNow(x, n) == Held(build, root, x, aux[x], packs[x], n)

PackInv ==
  /\ packs \in [Execs -> [Packs(build) -> Share]]
  /\ Grid(build, coms)
  /\ DOMAIN slots = 0..3
  /\ \A x \in Shared : HeldNow(x, build.parties) /\ \A p \in Parties : Committed(x, p)
  /\ pc = "share" => /\ HeldNow(e, i)
                     /\ \A p \in 0..(i - 1) : Committed(e, p)
                     /\ \A x \in Execs : x > e => packs[x] = NoPacks(build)

LEMMA InitPacks == Init => PackInv
<1> SUFFICES ASSUME Init PROVE PackInv
  OBVIOUS
<1>1. /\ build \in Builds /\ root \in Roots /\ pc = "share" /\ e = 0 /\ i = 0
      /\ packs = [x \in Execs |-> NoPacks(build)]
      /\ coms = [x \in Execs |-> [p \in Parties |-> NoHash]]
      /\ slots = [k \in 0..3 |-> ZeroShare]
  BY DEF Init
<1>2. NoPacks(build) \in [Packs(build) -> Share]
  BY ZeroIsShare DEF NoPacks
<1>3. Grid(build, coms)
  BY <1>1 DEF Grid, Row, Execs, Parties
<1>4. e \in Execs
  BY <1>1, BuildNumbers DEF Execs
<1>5. HeldNow(e, i)
  BY <1>1, <1>4, NothingPacked DEF HeldNow, Held
<1>6. Shared = {} /\ 0..(i - 1) = {}
  BY <1>1 DEF Shared
<1> QED BY <1>1, <1>2, <1>3, <1>5, <1>6 DEF PackInv

LEMMA PackFourStep == SignerInv /\ PackInv /\ ShareFour => PackInv'
<1> SUFFICES ASSUME SignerInv, PackInv, ShareFour PROVE PackInv'
  OBVIOUS
<1> USE DEF params
<1>1. /\ pc = "share" /\ pc' = pc /\ build' = build /\ root' = root /\ e' = e
      /\ aux' = aux /\ i' = i + 4 /\ i + 4 < build.parties
      /\ slots' = [k \in 0..3 |-> Expand(root, e, i + k)]
      /\ packs' = [packs EXCEPT ![e] = PackedFour(build, @, i)]
  BY DEF ShareFour
<1>2. /\ build \in Builds /\ root \in Roots /\ e \in Execs /\ e \in 0..(build.execs - 1)
      /\ i \in Parties /\ aux[e] \in Given
  BY <1>1 DEF SignerInv, ShareInv, Execs, Given
<1>3. i \in Nat /\ build.parties \in Nat
  BY <1>2, BuildNumbers DEF Parties
<1>4. /\ packs \in [Execs -> [Packs(build) -> Share]] /\ Grid(build, coms)
      /\ Held(build, root, e, aux[e], packs[e], i) /\ \A p \in 0..(i - 1) : Committed(e, p)
      /\ \A x \in Execs : x > e => packs[x] = NoPacks(build)
  BY <1>1 DEF PackInv, HeldNow
<1>5. /\ slots'[0] = Expand(root, e, i) /\ slots'[1] = Expand(root, e, i + 1)
      /\ slots'[2] = Expand(root, e, i + 2) /\ slots'[3] = Expand(root, e, i + 3)
  BY <1>1, <1>3, i + 0 = i
<1>6. packs'[e] = PackedFour(build, packs[e], i) /\ \A x \in Execs : x # e => packs'[x] = packs[x]
  BY <1>1, <1>2, <1>4
<1>7. Held(build, root, e, aux[e], packs'[e], i + 4)
  BY <1>1, <1>2, <1>3, <1>4, <1>5, <1>6, HeldAfterFour DEF PackedFour
<1>8. packs'[e] \in [Packs(build) -> Share]
  BY <1>7 DEF Held, HoldPacks
<1>9. packs' \in [Execs -> [Packs(build) -> Share]]
  BY <1>1, <1>4, <1>6, <1>8
<1> DEFINE g == [p \in Parties |-> IF p \in i..(i + 3) THEN Commit(e, p, Seed(e, p), NoAux, "salt")
                                   ELSE coms[e][p]]
<1>10. Updated(coms', coms, e, g)
  BY DEF ShareFour, Updated
<1>11. Row(build, g)
  BY DEF Row, Parties
<1>12. Grid(build, coms') /\ coms'[e] = g /\ \A x : x # e => coms'[x] = coms[x]
  <2> HIDE DEF g
  <2> QED BY <1>2, <1>4, <1>10, <1>11, GridUpdated
<1>13. \A p \in 0..(i + 3) : Committed(e, p)'
  <2> SUFFICES ASSUME NEW p \in 0..(i + 3)
               PROVE  g[p] = Commit(e, p, Seed(e, p), aux[e], "salt")
    BY <1>1, <1>12 DEF Committed, Commit, Last
  <2>1. p \in Parties /\ p # Last
    BY <1>1, <1>3 DEF Parties, Last
  <2>2. CASE p \in i..(i + 3)
    BY <2>1, <2>2 DEF Commit
  <2>3. CASE p \notin i..(i + 3)
    <3>1. p \in 0..(i - 1)
      BY <1>3, <2>3
    <3>2. g[p] = coms[e][p]
      BY <2>1, <2>3
    <3> QED BY <1>4, <3>1, <3>2 DEF Committed
  <2> QED BY <2>2, <2>3
<1>14. \A p \in 0..(i' - 1) : Committed(e, p)'
  <2>1. i' - 1 = i + 3
    BY <1>1, <1>3
  <2> QED BY <1>13, <2>1
<1>15. ASSUME NEW x \in Shared'
       PROVE  HeldNow(x, build.parties)' /\ \A p \in Parties' : Committed(x, p)'
  <2>1. x \in Shared /\ x # e /\ x \in Execs
    BY <1>1, <1>2, BuildNumbers DEF Shared, Execs
  <2>2. packs'[x] = packs[x] /\ coms'[x] = coms[x]
    BY <1>6, <1>12, <2>1
  <2>3. HeldNow(x, build.parties) /\ \A p \in Parties : Committed(x, p)
    BY <2>1 DEF PackInv
  <2> QED BY <1>1, <2>2, <2>3 DEF HeldNow, Committed, Commit, Last, Parties
<1>16. \A x \in Execs' : x > e' => packs'[x] = NoPacks(build')
  <2>1. \A x \in Execs : x > e => x # e
    BY <1>2, BuildNumbers DEF Execs
  <2> QED BY <1>1, <1>4, <1>6, <2>1 DEF Execs
<1>17. Execs' = Execs /\ DOMAIN slots' = 0..3
  BY <1>1 DEF Execs
<1> QED BY <1>1, <1>7, <1>9, <1>12, <1>14, <1>15, <1>16, <1>17 DEF PackInv, HeldNow

LEMMA PackOneStep == SignerInv /\ PackInv /\ ShareOne => PackInv'
<1> SUFFICES ASSUME SignerInv, PackInv, ShareOne PROVE PackInv'
  OBVIOUS
<1> USE DEF params
<1>1. /\ pc = "share" /\ pc' = pc /\ build' = build /\ root' = root /\ e' = e
      /\ aux' = aux /\ i' = i + 1 /\ i < Last
      /\ slots' = [slots EXCEPT ![i % 4] = Expand(root, e, i)]
      /\ packs' = [packs EXCEPT ![e] = Packed(build, @, i, slots'[i % 4])]
      /\ coms' = [coms EXCEPT ![e][i] = Commit(e, i, Seed(e, i), NoAux, "salt")]
  BY DEF ShareOne
<1>2. /\ build \in Builds /\ root \in Roots /\ e \in Execs /\ e \in 0..(build.execs - 1)
      /\ i \in Parties /\ aux[e] \in Given
  BY <1>1 DEF SignerInv, ShareInv, Execs, Given
<1>3. i \in Nat /\ build.parties \in Nat /\ i % 4 \in 0..3 /\ i \in 0..(build.parties - 2)
  BY <1>1, <1>2, BuildNumbers DEF Parties, Last
<1>4. /\ packs \in [Execs -> [Packs(build) -> Share]] /\ Grid(build, coms) /\ DOMAIN slots = 0..3
      /\ Held(build, root, e, aux[e], packs[e], i) /\ \A p \in 0..(i - 1) : Committed(e, p)
      /\ \A x \in Execs : x > e => packs[x] = NoPacks(build)
  BY <1>1 DEF PackInv, HeldNow
<1>5. slots'[i % 4] = Expand(root, e, i) /\ DOMAIN slots' = 0..3
  BY <1>1, <1>3, <1>4
<1>6. packs'[e] = Packed(build, packs[e], i, Expand(root, e, i))
      /\ \A x \in Execs : x # e => packs'[x] = packs[x]
  BY <1>1, <1>2, <1>4, <1>5
<1>7. Held(build, root, e, aux[e], packs'[e], i + 1)
  BY <1>2, <1>3, <1>4, <1>6, HeldAfterOne
<1>8. packs'[e] \in [Packs(build) -> Share]
  BY <1>7 DEF Held, HoldPacks
<1>9. packs' \in [Execs -> [Packs(build) -> Share]]
  BY <1>1, <1>4, <1>6, <1>8
<1> DEFINE g == [coms[e] EXCEPT ![i] = Commit(e, i, Seed(e, i), NoAux, "salt")]
<1>10. Updated(coms', coms, e, g) /\ Row(build, coms[e])
       /\ Updated(g, coms[e], i, Commit(e, i, Seed(e, i), NoAux, "salt"))
  BY <1>1, <1>2, <1>4 DEF Updated, Grid
<1>11. /\ Row(build, g) /\ g[i] = Commit(e, i, Seed(e, i), NoAux, "salt")
       /\ \A p : p # i => g[p] = coms[e][p]
  <2> HIDE DEF g
  <2> QED BY <1>2, <1>10, RowUpdated DEF Parties
<1>12. Grid(build, coms') /\ coms'[e] = g /\ \A x : x # e => coms'[x] = coms[x]
  <2> HIDE DEF g
  <2> QED BY <1>2, <1>4, <1>10, <1>11, GridUpdated
<1>13. \A p \in 0..i : Committed(e, p)'
  <2> SUFFICES ASSUME NEW p \in 0..i
               PROVE  g[p] = Commit(e, p, Seed(e, p), aux[e], "salt")
    BY <1>1, <1>12 DEF Committed, Commit, Last
  <2>1. p # Last
    BY <1>1, <1>3 DEF Last
  <2>2. CASE p = i
    BY <1>11, <2>1, <2>2 DEF Commit
  <2>3. CASE p # i
    <3>1. p \in 0..(i - 1)
      BY <1>3, <2>3
    <3> QED BY <1>4, <1>11, <2>3, <3>1 DEF Committed
  <2> QED BY <2>2, <2>3
<1>14. \A p \in 0..(i' - 1) : Committed(e, p)'
  <2>1. i' - 1 = i
    BY <1>1, <1>3
  <2> QED BY <1>13, <2>1
<1>15. ASSUME NEW x \in Shared'
       PROVE  HeldNow(x, build.parties)' /\ \A p \in Parties' : Committed(x, p)'
  <2>1. x \in Shared /\ x # e /\ x \in Execs
    BY <1>1, <1>2, BuildNumbers DEF Shared, Execs
  <2>2. packs'[x] = packs[x] /\ coms'[x] = coms[x]
    BY <1>6, <1>12, <2>1
  <2>3. HeldNow(x, build.parties) /\ \A p \in Parties : Committed(x, p)
    BY <2>1 DEF PackInv
  <2> QED BY <1>1, <2>2, <2>3 DEF HeldNow, Committed, Commit, Last, Parties
<1>16. \A x \in Execs' : x > e' => packs'[x] = NoPacks(build')
  <2>1. \A x \in Execs : x > e => x # e
    BY <1>2, BuildNumbers DEF Execs
  <2> QED BY <1>1, <1>4, <1>6, <2>1 DEF Execs
<1>17. Execs' = Execs
  BY <1>1 DEF Execs
<1> QED BY <1>1, <1>5, <1>7, <1>9, <1>12, <1>14, <1>15, <1>16, <1>17 DEF PackInv, HeldNow

LEMMA PackLastStep == SignerInv /\ SignerInv' /\ PackInv /\ ShareLast => PackInv'
<1> SUFFICES ASSUME SignerInv, SignerInv', PackInv, ShareLast PROVE PackInv'
  OBVIOUS
<1> USE DEF params
<1>1. /\ pc = "share" /\ build' = build /\ root' = root
      /\ i = Last /\ i' = 0
      /\ packs' = [packs EXCEPT ![e] = Packed(build, @, i, slots'[i % 4])]
      /\ coms' = [coms EXCEPT ![e][i] = Commit(e, i, Seed(e, i), aux'[e], "salt")]
      /\ slots' = [slots EXCEPT ![i % 4] = [wit  |-> aux'[e].wit,
                                            unif |-> Expand(root, e, i).unif,
                                            corr |-> aux'[e].corr]]
  BY DEF ShareLast
<1>2. /\ build \in Builds /\ root \in Roots /\ e \in Execs /\ e \in 0..(build.execs - 1)
      /\ i \in Parties /\ aux \in [Execs -> Given]
  BY <1>1 DEF SignerInv, ShareInv, Execs, Given
<1>3. aux' \in [Execs -> Given]
  BY <1>1 DEF SignerInv, ShareInv, Execs, Given
<1>4. build.parties \in Nat /\ i % 4 \in 0..3 /\ i = build.parties - 1 /\ build.execs \in Nat
      /\ build.execs >= 1
  BY <1>1, <1>2, BuildNumbers DEF Parties, Last
<1>5. /\ packs \in [Execs -> [Packs(build) -> Share]] /\ Grid(build, coms) /\ DOMAIN slots = 0..3
      /\ Held(build, root, e, aux[e], packs[e], i) /\ \A p \in 0..(i - 1) : Committed(e, p)
      /\ \A x \in Execs : x > e => packs[x] = NoPacks(build)
  BY <1>1 DEF PackInv, HeldNow
<1> DEFINE l == [wit |-> aux'[e].wit, unif |-> Expand(root, e, i).unif, corr |-> aux'[e].corr]
<1>6. slots'[i % 4] = l /\ DOMAIN slots' = 0..3
  BY <1>1, <1>4, <1>5
<1>7. packs'[e] = Packed(build, packs[e], i, l) /\ \A x \in Execs : x # e => packs'[x] = packs[x]
  BY <1>1, <1>2, <1>5, <1>6
<1>8. Held(build, root, e, aux'[e], packs'[e], build.parties)
  <2>1. aux'[e] \in Given
    BY <1>2, <1>3
  <2> HIDE DEF l
  <2>2. Held(build, root, e, aux[e], packs[e], build.parties - 1)
    BY <1>4, <1>5
  <2>3. packs'[e] = Packed(build, packs[e], build.parties - 1,
          [wit |-> aux'[e].wit, unif |-> Expand(root, e, build.parties - 1).unif,
           corr |-> aux'[e].corr])
    BY <1>4, <1>7 DEF l
  <2> QED BY <1>2, <2>1, <2>2, <2>3, HeldAfterLast
<1>9. packs'[e] \in [Packs(build) -> Share]
  BY <1>8 DEF Held, HoldPacks
<1>10. packs' \in [Execs -> [Packs(build) -> Share]]
  BY <1>1, <1>5, <1>7, <1>9
<1> DEFINE g == [coms[e] EXCEPT ![i] = Commit(e, i, Seed(e, i), aux'[e], "salt")]
<1>11. Updated(coms', coms, e, g) /\ Row(build, coms[e])
       /\ Updated(g, coms[e], i, Commit(e, i, Seed(e, i), aux'[e], "salt"))
  BY <1>1, <1>2, <1>5 DEF Updated, Grid
<1>12. /\ Row(build, g) /\ g[i] = Commit(e, i, Seed(e, i), aux'[e], "salt")
       /\ \A p : p # i => g[p] = coms[e][p]
  <2> HIDE DEF g
  <2> QED BY <1>2, <1>11, RowUpdated DEF Parties
<1>13. Grid(build, coms') /\ coms'[e] = g /\ \A x : x # e => coms'[x] = coms[x]
  <2> HIDE DEF g
  <2> QED BY <1>2, <1>5, <1>11, <1>12, GridUpdated
<1>14. ASSUME NEW p \in Parties
       PROVE  coms'[e][p] = Commit(e, p, Seed(e, p), aux'[e], "salt")
  <2>1. CASE p = i
    BY <1>12, <1>13, <2>1
  <2>2. CASE p # i
    <3>1. p \in 0..(i - 1) /\ p # Last
      BY <1>1, <1>4, <2>2 DEF Parties
    <3>2. coms'[e][p] = Commit(e, p, Seed(e, p), aux[e], "salt")
      BY <1>5, <1>12, <1>13, <2>2, <3>1 DEF Committed
    <3> QED BY <3>1, <3>2 DEF Commit
  <2> QED BY <2>1, <2>2
<1>15. ASSUME NEW x \in Execs, x < e
       PROVE  /\ x # e /\ x \in Shared /\ aux'[x] = aux[x] /\ packs'[x] = packs[x]
              /\ coms'[x] = coms[x]
  <2>1. x # e /\ x \in Shared
    BY <1>1, <1>2, <1>4, <1>15 DEF Shared, Execs
  <2>2. aux'[x] = aux[x]
    BY <1>2, <2>1 DEF ShareLast
  <2> QED BY <1>7, <1>13, <2>1, <2>2
<1>16. \A x \in Shared' : x \in Execs /\ (x = e \/ x < e)
  <2>1. CASE e + 1 \in Execs
    <3>1. e' = e + 1 /\ pc' = "share"
      BY <2>1 DEF ShareLast
    <3> QED BY <1>2, <1>4, <3>1 DEF Shared, Execs
  <2>2. CASE e + 1 \notin Execs
    <3>1. e' = 0 /\ pc' = "challenge"
      BY <2>2 DEF ShareLast
    <3> QED BY <1>1, <1>2, <1>4, <2>2, <3>1 DEF Shared, Execs
  <2> QED BY <2>1, <2>2
<1>17. ASSUME NEW x \in Shared'
       PROVE  HeldNow(x, build.parties)' /\ \A p \in Parties' : Committed(x, p)'
  <2>1. CASE x = e
    BY <1>1, <1>8, <1>14, <2>1 DEF HeldNow, Committed, Commit, Last, Parties
  <2>2. CASE x # e
    <3>1. x \in Execs /\ x < e
      BY <1>16, <2>2
    <3>2. aux'[x] = aux[x] /\ packs'[x] = packs[x] /\ coms'[x] = coms[x] /\ x \in Shared
      BY <1>15, <3>1
    <3>3. HeldNow(x, build.parties) /\ \A p \in Parties : Committed(x, p)
      BY <3>2 DEF PackInv
    <3> QED BY <1>1, <3>2, <3>3 DEF HeldNow, Committed, Commit, Last, Parties
  <2> QED BY <2>1, <2>2
<1>18. ASSUME pc' = "share"
       PROVE  /\ HeldNow(e, i)' /\ \A p \in 0..(i' - 1) : Committed(e, p)'
              /\ \A x \in Execs' : x > e' => packs'[x] = NoPacks(build')
  <2>1. e + 1 \in Execs /\ e' = e + 1
    BY <1>18 DEF ShareLast
  <2>2. \A x \in Execs : (x > e + 1 \/ x = e + 1) => x # e /\ x > e
    BY <1>2, <1>4 DEF Execs
  <2>3. \A x \in Execs : (x > e + 1 \/ x = e + 1) => packs'[x] = NoPacks(build)
    BY <1>5, <1>7, <2>2
  <2>4. packs'[e'] = NoPacks(build)
    BY <2>1, <2>3
  <2>5. Held(build, root, e', aux'[e'], NoPacks(build), 0)
    BY NothingPacked DEF Held
  <2>6. 0..(i' - 1) = {}
    BY <1>1
  <2>7. Execs' = Execs
    BY <1>1 DEF Execs
  <2> QED BY <1>1, <2>1, <2>3, <2>4, <2>5, <2>6, <2>7 DEF HeldNow
<1>19. Execs' = Execs
  BY <1>1 DEF Execs
<1> QED BY <1>1, <1>6, <1>10, <1>13, <1>17, <1>18, <1>19 DEF PackInv

LEMMA PacksKept ==
  ASSUME PackInv, pc # "share", pc' # "share", UNCHANGED <<params, packs, aux, coms>>,
         DOMAIN slots' = DOMAIN slots
  PROVE  PackInv'
<1>1. Shared = Execs /\ Shared' = Execs /\ Execs' = Execs /\ Parties' = Parties
  BY DEF Shared, Execs, Parties, params
<1>2. ASSUME NEW x \in Execs
      PROVE  HeldNow(x, build.parties)' /\ \A p \in Parties : Committed(x, p)'
  <2>1. HeldNow(x, build.parties) /\ \A p \in Parties : Committed(x, p)
    BY <1>1 DEF PackInv
  <2> QED BY <2>1 DEF HeldNow, Committed, Commit, Last, params
<1>3. Packs(build') = Packs(build) /\ Grid(build', coms')
  BY DEF PackInv, params
<1> QED BY <1>1, <1>2, <1>3 DEF PackInv, params

-----------------------------------------------------------------------------
(* What the signer broadcasts and sends.                                   *)

Sent == [salt |-> "salt", mpcHash |-> MpcHash(coms, "salt", "msg"),
         viewHash |-> ViewHash(MpcHash(coms, "salt", "msg"), br, alphas, "salt", "msg"),
         length |-> LengthBuilt(hidden), proofs |-> [x \in Execs |-> SentProof(x)]]

EmulInv ==
  /\ pc \notin {"share", "challenge"} => challenges \in [Execs -> Challenge]
  /\ pc \notin {"share", "challenge", "simulate"} =>
       /\ alphas = [x \in Execs |-> PlainAlpha(challenges[x], key, plain[x].unif)]
       /\ br = [x \in Execs |-> [p \in Packs(build) |->
                 Broadcast(challenges[x], packs[x][p], alphas[x], KeyInstance(key), FALSE)]]
  /\ pc \notin Signing => sig = Sent

LEMMA InitEmul == Init => EmulInv
BY DEF Init, EmulInv, Signing

LEMMA EmulKept ==
  ASSUME EmulInv, UNCHANGED <<params, packs, plain, aux, coms, emulVars>>,
         pc \notin Signing, pc' \notin Signing
  PROVE  EmulInv'
<1> USE DEF params, emulVars
<1>1. pc \notin {"share", "challenge", "simulate"}
  BY DEF Signing
<1>2. Execs' = Execs
  BY DEF Execs
<1>3. Sent' = Sent
  BY <1>2 DEF Sent, SentProof, AuxSent, Last, LengthBuilt, SumOver, HeaderSize, ProofLength,
     PathLength, PathNodes, MpcHash, inst
<1>4. sig' = Sent' /\ challenges' \in [Execs' -> Challenge]
  BY <1>1, <1>2, <1>3 DEF EmulInv
<1>5. alphas' = [x \in Execs' |-> PlainAlpha(challenges'[x], key', plain'[x].unif)]
  BY <1>1, <1>2 DEF EmulInv
<1>6. br' = [x \in Execs' |-> [p \in Packs(build') |->
                 Broadcast(challenges'[x], packs'[x][p], alphas'[x], KeyInstance(key'), FALSE)]]
  BY <1>1, <1>2 DEF EmulInv
<1> QED BY <1>4, <1>5, <1>6 DEF EmulInv

LEMMA EmulStep ==
  ASSUME EmulInv, Sign
  PROVE  EmulInv'
<1> USE DEF params
<1>1. CASE ShareFour \/ ShareOne \/ ShareLast
  <2>1. pc' \in {"share", "challenge"} /\ pc' \in Signing
    BY <1>1 DEF ShareFour, ShareOne, ShareLast, Signing
  <2> QED BY <2>1 DEF EmulInv
<1>2. CASE MpcChallenge
  <2>1. pc' = "simulate" /\ challenges' \in [Execs -> Challenges] /\ UNCHANGED params
    BY <1>2 DEF MpcChallenge
  <2>2. challenges' \in [Execs' -> Challenge]
    BY <2>1, ChallengesAssumption DEF Execs
  <2> QED BY <2>1, <2>2 DEF EmulInv, Signing
<1>3. CASE Simulate
  <2>1. /\ pc = "simulate" /\ pc' = "views"
        /\ UNCHANGED <<params, plain, packs, challenges>>
        /\ alphas' = [x \in Execs |->
              Alpha(challenges[x], [wit |-> key.x, unif |-> plain[x].unif, corr |-> 0], inst)]
        /\ br' = [x \in Execs |-> [p \in Packs(build) |->
              Broadcast(challenges[x], packs[x][p], alphas'[x], inst, FALSE)]]
    BY <1>3 DEF Simulate, shareVars
  <2>2. challenges \in [Execs -> Challenge] /\ Execs' = Execs
    BY <2>1 DEF EmulInv, Execs
  <2>3. inst = KeyInstance(key) /\ Packs(build') = Packs(build)
    BY <2>1 DEF inst, KeyInstance
  <2>4. alphas' = [x \in Execs' |-> PlainAlpha(challenges'[x], key', plain'[x].unif)]
    BY <2>1, <2>2, <2>3 DEF PlainAlpha
  <2>5. br' = [x \in Execs' |-> [p \in Packs(build') |->
              Broadcast(challenges'[x], packs'[x][p], alphas'[x], KeyInstance(key'), FALSE)]]
    BY <2>1, <2>2, <2>3
  <2> QED BY <2>1, <2>2, <2>4, <2>5 DEF EmulInv, Signing
<1>4. CASE ViewChallengeDrawn
  <2>1. /\ pc = "views" /\ pc' = "build"
        /\ UNCHANGED <<params, plain, packs, challenges, alphas, br>> /\ Execs' = Execs
    BY <1>4 DEF ViewChallengeDrawn, shareVars, Execs
  <2> QED BY <2>1 DEF EmulInv, Signing
<1>5. CASE BuildSignature
  <2>1. /\ pc = "build"
        /\ UNCHANGED <<params, plain, packs, aux, coms, challenges, alphas, br, hidden>> /\ Execs' = Execs
    BY <1>5 DEF BuildSignature, shareVars, Execs
  <2>2. sig' = Sent
    BY <1>5 DEF BuildSignature, Sent
  <2>3. Sent' = Sent
    BY <2>1 DEF Sent, SentProof, AuxSent, Last, LengthBuilt, SumOver, HeaderSize, ProofLength,
       PathLength, PathNodes, MpcHash, inst
  <2> QED BY <2>1, <2>2, <2>3 DEF EmulInv, Signing
<1> QED BY <1>1, <1>2, <1>3, <1>4, <1>5 DEF Sign

-----------------------------------------------------------------------------
(* What the verifier receives and recomputes.                              *)

\* An altered field of the proof of an execution.
AlteredProof(x) ==
  \/ got.sig.proofs[x].digest = ForgedHash
  \/ got.sig.proofs[x].alpha # alphas[x]
  \/ \E p \in Parties : p # hidden[x] /\ Seed(x, p) \in got.badSeeds
  \/ hidden[x] # Last /\ got.sig.proofs[x].aux # NoHash /\ got.sig.proofs[x].aux # aux[x]

\* An altered field of a signature, or another message.
Altered ==
  \/ got.sig.mpcHash = ForgedHash
  \/ got.sig.viewHash = ForgedHash
  \/ /\ got.sig.mpcHash = sig.mpcHash /\ got.sig.viewHash = sig.viewHash
     /\ \/ got.msg # "msg"
        \/ got.sig.salt # "salt"
        \/ got.sig.length # sig.length
        \/ \E x \in Execs : AlteredProof(x)

Unaltered == got = [msg |-> "msg", sig |-> sig, badSeeds |-> {}]

GotInv ==
  /\ genuine \in BOOLEAN
  /\ pc \in Signing \cup {"sent"} => genuine
  /\ pc \in Verifying => IF genuine THEN Unaltered ELSE Altered
  /\ pc # "done" => verdict = "none"

\* The commitments and the broadcasts recomputed so far.  What the verifier packs are the
\* shares of the signer, but for the hidden one.
Recommitted(x, p) ==
  vcoms[x][p] = IF p = vhidden[x] THEN got.sig.proofs[x].digest
                ELSE Commit(x, p, Rebuilt(x, p), ParsedAux(x), got.sig.salt)
Opened(n) == HoldOpen(build, hidden[e], SharesOf(build, root, e, aux[e]), vpacks, n)
Treated(n) == (\A p \in 0..(n - 1) : Recommitted(e, p)) /\ (genuine => Opened(n))
Recomputed(n) == /\ \A x \in 0..(n - 1), p \in Parties : Recommitted(x, p)
                 /\ genuine => \A x \in 0..(n - 1) : vbr[x] = br[x]

\* What the verifier has parsed.
Parsed ==
  /\ vhidden \in [Execs -> Parties] /\ got.sig.length = LengthRequired(vhidden)
  /\ got.sig.viewHash = sig.viewHash => vhidden = hidden
  /\ got.sig.mpcHash = sig.mpcHash => vchallenges = challenges
  /\ vbr = [x \in Execs |-> vbr[x]]

VerifierInv ==
  /\ Grid(build, vcoms)
  /\ pc \in {"recompute", "emulate", "compare"} => Parsed
  /\ pc \in {"recompute", "emulate"} =>
       /\ e \in Execs /\ i \in Parties /\ (i + 4 < build.parties => i % 4 = 0)
       /\ Recomputed(e)
  /\ pc = "recompute" => Treated(i)
  /\ pc = "emulate"   => Treated(build.parties)
  /\ pc = "compare"   => Recomputed(build.execs)

LEMMA InitVerifier == Init => GotInv /\ VerifierInv
<1> SUFFICES ASSUME Init PROVE GotInv /\ VerifierInv
  OBVIOUS
<1>1. /\ pc = "share" /\ genuine = TRUE /\ verdict = "none"
      /\ vcoms = [x \in Execs |-> [p \in Parties |-> NoHash]]
  BY DEF Init
<1>2. Grid(build, vcoms)
  BY <1>1 DEF Grid, Row, Execs, Parties
<1> QED BY <1>1, <1>2 DEF GotInv, VerifierInv, Verifying

\* The steps that are not of the verifier.
LEMMA NotYetVerifying ==
  ASSUME VerifierInv, UNCHANGED <<params, vcoms>>, pc' \notin {"recompute", "emulate", "compare"}
  PROVE  VerifierInv'
BY DEF VerifierInv, Grid, params

LEMMA GotKept ==
  ASSUME GotInv, UNCHANGED <<params, hidden, alphas, aux, sig, got, genuine, verdict>>,
         pc \in Verifying, pc' \in Verifying
  PROVE  GotInv'
<1>1. ASSUME NEW x PROVE AlteredProof(x)' <=> AlteredProof(x)
  BY DEF AlteredProof, Parties, Last, params
<1>2. Altered => Altered'
  BY <1>1 DEF Altered, Execs, params
<1> QED BY <1>2 DEF GotInv, Unaltered, Verifying, Signing

\* What is known where a signature was not altered.
LEMMA GenuineSignature ==
  ASSUME SignerInv, EmulInv, GotInv, pc \in Verifying, genuine
  PROVE  /\ got.msg = "msg" /\ got.sig = Sent /\ got.badSeeds = {} /\ sig = Sent
         /\ got.sig.salt = "salt" /\ hidden \in [Execs -> Parties]
         /\ \A x \in Execs : got.sig.proofs[x] = SentProof(x)
<1>1. got.msg = "msg" /\ got.sig = sig /\ got.badSeeds = {}
  BY DEF GotInv, Unaltered
<1>2. sig = Sent
  BY DEF EmulInv, Signing, Verifying
<1>3. hidden \in [Execs -> Parties]
  BY DEF SignerInv, HiddenInv, BeforeViews, Verifying
<1>4. Sent.salt = "salt" /\ \A x \in Execs : Sent.proofs[x] = SentProof(x)
  BY DEF Sent
<1> QED BY <1>1, <1>2, <1>3, <1>4

LEMMA ParseStep ==
  ASSUME SignerInv, VerifierInv, Parse
  PROVE  VerifierInv'
<1>1. /\ pc' = "recompute" /\ UNCHANGED <<params, root, aux, hidden, sig, got, genuine, vcoms, br>>
      /\ e' = 0 /\ i' = 0 /\ vpacks' = NoPacks(build) /\ vbr' = [x \in Execs |-> <<>>]
      /\ UNCHANGED <<challenges>>
  BY DEF Parse, params, emulVars
<1>2. build \in Builds /\ build' = build
  BY <1>1 DEF SignerInv, ShareInv, params
<1>3. Execs' = Execs /\ Parties' = Parties /\ Grid(build', vcoms')
  BY <1>1, <1>2 DEF VerifierInv, Execs, Parties
<1>4. Parsed'
  <2>1. /\ vhidden' \in [Execs -> Parties]
        /\ got.sig.viewHash = sig.viewHash => vhidden' = hidden
        /\ got.sig.length = LengthRequired(vhidden')
        /\ got.sig.mpcHash = sig.mpcHash => vchallenges' = challenges
    BY DEF Parse
  <2>2. LengthRequired(vhidden)' = LengthRequired(vhidden')
    BY <1>2, <1>3 DEF LengthRequired, SumOver, HeaderSize, ProofLength, PathSize, AuxSent, Last
  <2>3. vbr' = [x \in Execs' |-> vbr'[x]]
    BY <1>1, <1>3
  <2> QED BY <1>1, <1>3, <2>1, <2>2, <2>3 DEF Parsed
<1>5. e' \in Execs' /\ i' \in Parties' /\ i' % 4 = 0
  BY <1>1, <1>2, <1>3, BuildNumbers DEF Execs, Parties
<1>6. Recomputed(e)'
  <2>1. 0..(e' - 1) = {}
    BY <1>1
  <2> QED BY <2>1 DEF Recomputed
<1>7. Treated(i)'
  <2>1. 0..(i' - 1) = {}
    BY <1>1
  <2>2. Opened(i)'
    BY <1>1, <1>2, NothingPacked DEF Opened
  <2> QED BY <2>1, <2>2 DEF Treated
<1> QED BY <1>1, <1>3, <1>4, <1>5, <1>6, <1>7 DEF VerifierInv

\* Opening one more share, or skipping the hidden party.
Opening(b, h, pk, n, s) == IF n = h THEN pk ELSE OpenPacked(b, h, pk, n, s)
OpenOf(b, r, x, a, h, pk, n) == HoldOpen(b, h, SharesOf(b, r, x, a), pk, n)
IsShareOf(b, r, x, a, h, n, s) == n = h \/ s = SharesOf(b, r, x, a)[n]

LEMMA OpeningAdds ==
  ASSUME NEW b \in Builds, NEW r \in Roots, NEW x \in 0..(b.execs - 1), NEW a \in Given,
         NEW h \in 0..(b.parties - 1), NEW pk, NEW n \in 0..(b.parties - 1), NEW s,
         OpenOf(b, r, x, a, h, pk, n), IsShareOf(b, r, x, a, h, n, s)
  PROVE  OpenOf(b, r, x, a, h, Opening(b, h, pk, n, s), n + 1)
<1> DEFINE shares == SharesOf(b, r, x, a)
<1>1. shares \in [0..(b.parties - 1) -> Share] /\ WellFormed(b)
  BY SharesAreShares, BuildsAssumption
<1>2. HoldOpen(b, h, shares, pk, n) /\ (n = h \/ s = shares[n])
  BY DEF OpenOf, IsShareOf
<1> HIDE DEF shares
<1>3. CASE n = h
  <2>1. HoldOpen(b, h, shares, pk, h + 1)
    BY <1>1, <1>2, <1>3, HiddenAddsNothing
  <2> QED BY <1>3, <2>1 DEF OpenOf, Opening, shares
<1>4. CASE n # h
  <2>1. HoldOpen(b, h, shares, OpenPacked(b, h, pk, n, shares[n]), n + 1)
    BY <1>1, <1>2, <1>4, OpensOneMore
  <2> QED BY <1>2, <1>4, <2>1 DEF OpenOf, Opening, shares
<1> QED BY <1>3, <1>4

LEMMA OpeningFour ==
  ASSUME NEW b \in Builds, NEW r \in Roots, NEW x \in 0..(b.execs - 1), NEW a \in Given,
         NEW h \in 0..(b.parties - 1), NEW pk, NEW n \in Nat, n + 4 < b.parties, NEW s,
         OpenOf(b, r, x, a, h, pk, n),
         IsShareOf(b, r, x, a, h, n, s[0]), IsShareOf(b, r, x, a, h, n + 1, s[1]),
         IsShareOf(b, r, x, a, h, n + 2, s[2]), IsShareOf(b, r, x, a, h, n + 3, s[3])
  PROVE  OpenOf(b, r, x, a, h,
           Opening(b, h, Opening(b, h, Opening(b, h, Opening(b, h, pk, n, s[0]),
             n + 1, s[1]), n + 2, s[2]), n + 3, s[3]), n + 4)
<1> DEFINE p1 == Opening(b, h, pk, n, s[0])
           p2 == Opening(b, h, p1, n + 1, s[1])
           p3 == Opening(b, h, p2, n + 2, s[2])
           p4 == Opening(b, h, p3, n + 3, s[3])
<1>1. /\ n \in 0..(b.parties - 1) /\ n + 1 \in 0..(b.parties - 1) /\ n + 2 \in 0..(b.parties - 1)
      /\ n + 3 \in 0..(b.parties - 1) /\ n + 1 + 1 = n + 2 /\ n + 2 + 1 = n + 3 /\ n + 3 + 1 = n + 4
  BY BuildNumbers
<1>2. OpenOf(b, r, x, a, h, p1, n + 1)
  BY <1>1, OpeningAdds
<1> HIDE DEF p1
<1>3. OpenOf(b, r, x, a, h, p2, n + 1 + 1)
  BY <1>1, <1>2, OpeningAdds
<1> HIDE DEF p2
<1>4. OpenOf(b, r, x, a, h, p3, n + 2 + 1)
  BY <1>1, <1>3, OpeningAdds
<1> HIDE DEF p3
<1>5. OpenOf(b, r, x, a, h, p4, n + 3 + 1)
  BY <1>1, <1>4, OpeningAdds
<1> QED BY <1>1, <1>5 DEF p1, p2, p3

\* The seeds of a genuine signature are the signer's: each open leaf is under its path.
LEMMA GenuineLeaves ==
  ASSUME SignerInv, EmulInv, GotInv, Parsed, pc \in Verifying, genuine,
         NEW x \in Execs, NEW p \in Parties, p # hidden[x]
  PROVE  Rebuilt(x, p) = Seed(x, p)
<1>1. vhidden = hidden /\ got.badSeeds = {} /\ hidden[x] \in Parties
      /\ got.sig.proofs[x] = SentProof(x)
  BY GenuineSignature DEF Parsed
<1>2. got.sig.proofs[x].path = PathNodes(hidden[x])
  BY <1>1 DEF SentProof
<1>3. p \in LeavesOf(PathNodes(hidden[x]))
  BY <1>1, PathOpensOthers DEF SignerInv, ShareInv
<1> QED BY <1>1, <1>2, <1>3 DEF Rebuilt

LEMMA GenuineSeeds ==
  ASSUME SignerInv, EmulInv, GotInv, Parsed, pc \in Verifying, genuine,
         NEW x \in Execs, NEW p \in Parties, p # hidden[x]
  PROVE  ShareOf(Rebuilt(x, p)) = Expand(root, x, p)
<1>2. Rebuilt(x, p) = Seed(x, p)
  BY GenuineLeaves
<1>3. Seed(x, p) # JunkSeed
  <2>1. x # -1
    BY BuildNumbers DEF SignerInv, ShareInv, Execs
  <2>2. Seed(x, p).exec = x /\ JunkSeed.exec = -1
    BY DEF Seed, JunkSeed
  <2> QED BY <2>1, <2>2
<1> QED BY <1>2, <1>3 DEF ShareOf, Seed

LEMMA RecomputeKeeps ==
  ASSUME SignerInv, VerifierInv, pc \in {"recompute", "emulate"},
         UNCHANGED <<params, e, aux, br, hidden, sig, got, genuine, challenges, vchallenges,
                     vhidden, vbr>>,
         NEW g, Row(build, g), Updated(vcoms', vcoms, e, g)
  PROVE  /\ Grid(build', vcoms') /\ Parsed' /\ Recomputed(e)' /\ vcoms'[e] = g
         /\ e \in Execs /\ e \in 0..(build.execs - 1) /\ build \in Builds
<1>1. build \in Builds
  BY DEF SignerInv, ShareInv
<1>2. e \in Execs /\ Parsed /\ Recomputed(e) /\ Grid(build, vcoms)
  BY DEF VerifierInv
<1>3. Grid(build, vcoms') /\ vcoms'[e] = g /\ \A x : x # e => vcoms'[x] = vcoms[x]
  BY <1>2, GridUpdated DEF Execs
<1> USE DEF params
<1>4. Execs' = Execs /\ Parties' = Parties
  BY DEF Execs, Parties
<1>5. Parsed'
  <2>1. LengthRequired(vhidden)' = LengthRequired(vhidden)
    BY <1>4 DEF LengthRequired, SumOver, HeaderSize, ProofLength, PathSize, AuxSent, Last
  <2> QED BY <1>2, <1>4, <2>1 DEF Parsed
<1>6. Recomputed(e)'
  <2>1. \A x \in 0..(e - 1) : x # e
    BY <1>1, <1>2, BuildNumbers DEF Execs
  <2> QED BY <1>2, <1>3, <1>4, <2>1
      DEF Recomputed, Recommitted, Commit, Rebuilt, LeavesOf, LeavesUnder, Parties, ParsedAux, Last
<1> QED BY <1>1, <1>2, <1>3, <1>5, <1>6 DEF Execs

LEMMA RecomputeFourStep ==
  ASSUME SignerInv, EmulInv, GotInv, VerifierInv, RecomputeFour
  PROVE  VerifierInv'
<1> DEFINE g == [p \in Parties |-> IF p \in i..(i + 3) THEN Recommit(p, NoAux) ELSE vcoms[e][p]]
<1>1. /\ pc = "recompute" /\ pc' = pc /\ i' = i + 4 /\ i + 4 < build.parties
      /\ UNCHANGED <<params, e, aux, br, hidden, sig, got, genuine, challenges, vchallenges,
                     vhidden, vbr>>
      /\ vpacks' = RepackFour(vpacks, i)
      /\ slots' = [k \in 0..3 |-> ShareOf(Rebuilt(e, i + k))]
      /\ Updated(vcoms', vcoms, e, g)
  BY DEF RecomputeFour, emulVars, Updated
<1>2. Row(build, g)
  BY DEF Row, Parties
<1>3. /\ Grid(build', vcoms') /\ Parsed' /\ Recomputed(e)' /\ vcoms'[e] = g
      /\ e \in Execs /\ e \in 0..(build.execs - 1) /\ build \in Builds
  <2> HIDE DEF g
  <2> QED BY <1>1, <1>2, RecomputeKeeps
<1>4. Parsed /\ i \in Parties /\ i % 4 = 0 /\ Treated(i)
  BY <1>1 DEF VerifierInv
<1>5. /\ i \in Nat /\ build.parties \in Nat /\ build' = build /\ root' = root /\ Last' = Last
      /\ Execs' = Execs /\ Parties' = Parties
  BY <1>1, <1>3, <1>4, BuildNumbers DEF Parties, params, Execs, Last
<1>6. i' \in Parties' /\ i' % 4 = 0
  <2>1. ASSUME NEW n \in Nat, n % 4 = 0 PROVE (n + 4) % 4 = 0
    BY <2>1
  <2>2. i + 4 \in 0..(build.parties - 1)
    BY <1>1, <1>5
  <2> QED BY <1>1, <1>4, <1>5, <2>1, <2>2 DEF Parties
<1>7. ASSUME NEW p \in 0..(i + 3) PROVE Recommitted(e, p)'
  <2>1. p \in Parties /\ p # Last
    BY <1>1, <1>5 DEF Parties, Last
  <2>2. CASE p \in i..(i + 3)
    <3>1. vcoms'[e][p] = Recommit(p, NoAux)
      BY <1>3, <2>1, <2>2
    <3>2. Recommit(p, NoAux) = IF p = vhidden[e] THEN got.sig.proofs[e].digest
                               ELSE Commit(e, p, Rebuilt(e, p), ParsedAux(e), got.sig.salt)
      BY <2>1 DEF Recommit, Commit
    <3> QED BY <1>1, <1>5, <3>1, <3>2 DEF Recommitted, Commit, Rebuilt, LeavesOf, LeavesUnder, Parties, ParsedAux
  <2>3. CASE p \notin i..(i + 3)
    <3>1. p \in 0..(i - 1)
      BY <1>5, <2>3
    <3>2. vcoms'[e][p] = vcoms[e][p] /\ Recommitted(e, p)
      BY <1>3, <1>4, <2>1, <2>3, <3>1 DEF Treated
    <3> QED BY <1>1, <1>5, <3>2 DEF Recommitted, Commit, Rebuilt, LeavesOf, LeavesUnder, Parties, ParsedAux
  <2> QED BY <2>2, <2>3
<1>8. ASSUME genuine PROVE Opened(i)'
  <2> DEFINE h == hidden[e]
  <2>1. pc \in Verifying
    BY <1>1 DEF Verifying
  <2>2. vhidden[e] = h /\ h \in 0..(build.parties - 1)
    BY <1>3, <1>4, <1>8, <2>1, GenuineSignature DEF Parsed, Parties
  <2>3. aux[e] \in Given
    BY <1>3 DEF SignerInv, ShareInv, Given
  <2>4. ASSUME NEW k \in 0..3
        PROVE  /\ slots'[k] = ShareOf(Rebuilt(e, i + k)) /\ (i + k) % 4 = k
               /\ IsShareOf(build, root, e, aux[e], h, i + k, slots'[k])
    <3>1. slots'[k] = ShareOf(Rebuilt(e, i + k)) /\ (i + k) % 4 = k
      BY <1>1, <1>4, <1>5
    <3>2. i + k \in Parties /\ i + k \in 0..(build.parties - 2)
      BY <1>1, <1>5 DEF Parties
    <3>3. CASE i + k = h
      BY <3>1, <3>3 DEF IsShareOf
    <3>4. CASE i + k # h
      <4>1. ShareOf(Rebuilt(e, i + k)) = Expand(root, e, i + k)
        BY <1>3, <1>4, <1>8, <2>1, <3>2, <3>4, GenuineSeeds
      <4>2. SharesOf(build, root, e, aux[e])[i + k] = Expand(root, e, i + k)
        <5>1. i + k \in 0..(build.parties - 1) /\ i + k # build.parties - 1
          BY <1>5, <3>2
        <5> QED BY <5>1 DEF SharesOf
      <4> QED BY <3>1, <4>1, <4>2 DEF IsShareOf
    <3> QED BY <3>1, <3>3, <3>4
  <2>5. 0 \in 0..3 /\ 1 \in 0..3 /\ 2 \in 0..3 /\ 3 \in 0..3 /\ i + 0 = i
    BY <1>5
  <2>6. OpenOf(build, root, e, aux[e], h, vpacks, i)
    BY <1>4, <1>8 DEF Treated, Opened, OpenOf
  <2>7. OpenOf(build, root, e, aux[e], h,
           Opening(build, h, Opening(build, h, Opening(build, h, Opening(build, h, vpacks, i, slots'[0]),
             i + 1, slots'[1]), i + 2, slots'[2]), i + 3, slots'[3]), i + 4)
    <3>1. /\ IsShareOf(build, root, e, aux[e], h, i, slots'[0])
          /\ IsShareOf(build, root, e, aux[e], h, i + 1, slots'[1])
          /\ IsShareOf(build, root, e, aux[e], h, i + 2, slots'[2])
          /\ IsShareOf(build, root, e, aux[e], h, i + 3, slots'[3])
      BY <2>4, <2>5
    <3>2. root \in Roots
      BY DEF SignerInv, ShareInv
    <3> HIDE DEF h
    <3> QED BY <1>1, <1>3, <1>5, <2>2, <2>3, <2>6, <3>1, <3>2, OpeningFour
  <2>8. \A pk : \A k \in 0..3 : Repack(pk, i + k) = Opening(build, h, pk, i + k, slots'[k])
    BY <2>2, <2>4 DEF Repack, Opening
  <2>9. vpacks' = Opening(build, h, Opening(build, h, Opening(build, h,
                    Opening(build, h, vpacks, i, slots'[0]), i + 1, slots'[1]),
                    i + 2, slots'[2]), i + 3, slots'[3])
    BY <1>1, <2>5, <2>8 DEF RepackFour
  <2> QED BY <1>1, <1>5, <2>7, <2>9 DEF Opened, OpenOf
<1>9. Treated(i)'
  <2>1. i' - 1 = i + 3
    BY <1>1, <1>5
  <2> QED BY <1>1, <1>7, <1>8, <2>1 DEF Treated
<1> QED BY <1>1, <1>3, <1>5, <1>6, <1>9 DEF VerifierInv

\* A commitment recomputed.
LEMMA Recommits ==
  ASSUME UNCHANGED <<params, e, got, hidden, vhidden>>, NEW p, NEW a,
         p = Last => a = ParsedAux(e), vcoms'[e][p] = Recommit(p, a)
  PROVE  Recommitted(e, p)'
<1>1. Recommit(p, a) = IF p = vhidden[e] THEN got.sig.proofs[e].digest
                       ELSE Commit(e, p, Rebuilt(e, p), ParsedAux(e), got.sig.salt)
  BY DEF Recommit, Commit
<1> QED BY <1>1 DEF Recommitted, Commit, Rebuilt, LeavesOf, LeavesUnder, Parties, ParsedAux, Last, params

LEMMA RecommittedKept ==
  ASSUME UNCHANGED <<params, e, got, hidden, vhidden>>, NEW p,
         vcoms'[e][p] = vcoms[e][p], Recommitted(e, p)
  PROVE  Recommitted(e, p)'
BY DEF Recommitted, Commit, Rebuilt, LeavesOf, LeavesUnder, Parties, ParsedAux, Last, params

LEMMA RecomputeOneStep ==
  ASSUME SignerInv, EmulInv, GotInv, PackInv, VerifierInv, RecomputeOne
  PROVE  VerifierInv'
<1> DEFINE g == [vcoms[e] EXCEPT ![i] = Recommit(i, NoAux)]
<1>1. /\ pc = "recompute" /\ pc' = pc /\ i' = i + 1 /\ i + 4 >= build.parties /\ i < Last
      /\ UNCHANGED <<params, e, aux, br, hidden, sig, got, genuine, challenges, vchallenges,
                     vhidden, vbr>>
      /\ vpacks' = Repack(vpacks, i)
      /\ slots' = IF i = vhidden[e] THEN slots
                  ELSE [slots EXCEPT ![i % 4] = ShareOf(Rebuilt(e, i))]
      /\ Updated(vcoms', vcoms, e, g)
  BY DEF RecomputeOne, emulVars, Updated
<1>2. /\ Parsed /\ i \in Parties /\ Treated(i) /\ e \in Execs /\ Grid(build, vcoms)
      /\ build \in Builds /\ root \in Roots /\ DOMAIN slots = 0..3
  BY <1>1 DEF VerifierInv, SignerInv, ShareInv, PackInv
<1>3. Row(build, g) /\ g[i] = Recommit(i, NoAux) /\ \A p : p # i => g[p] = vcoms[e][p]
  <2>1. Row(build, vcoms[e]) /\ Updated(g, vcoms[e], i, Recommit(i, NoAux))
    BY <1>2 DEF Grid, Execs, Updated
  <2> HIDE DEF g
  <2> QED BY <1>2, <2>1, RowUpdated DEF Parties
<1>4. /\ Grid(build', vcoms') /\ Parsed' /\ Recomputed(e)' /\ vcoms'[e] = g
      /\ e \in 0..(build.execs - 1)
  <2> HIDE DEF g
  <2> QED BY <1>1, <1>3, RecomputeKeeps
<1>5. /\ i \in Nat /\ build.parties \in Nat /\ build' = build /\ root' = root /\ Last' = Last
      /\ Execs' = Execs /\ Parties' = Parties /\ i % 4 \in 0..3
  BY <1>1, <1>2, BuildNumbers DEF Parties, params, Execs, Last
<1>6. i' \in Parties' /\ i' + 4 >= build.parties /\ i \in 0..(build.parties - 2)
      /\ ~(i' + 4 < build'.parties)
  BY <1>1, <1>5 DEF Parties, Last
<1>7. ASSUME NEW p \in 0..i PROVE Recommitted(e, p)'
  <2>1. p # Last
    BY <1>1, <1>5 DEF Last
  <2>2. CASE p = i
    BY <1>1, <1>3, <1>4, <2>1, <2>2, Recommits
  <2>3. CASE p # i
    <3>1. p \in 0..(i - 1)
      BY <1>5, <2>3
    <3> QED BY <1>1, <1>2, <1>3, <1>4, <2>3, <3>1, RecommittedKept DEF Treated
  <2> QED BY <2>2, <2>3
<1>8. ASSUME genuine PROVE Opened(i)'
  <2> DEFINE h == hidden[e]
  <2>1. pc \in Verifying
    BY <1>1 DEF Verifying
  <2>2. vhidden[e] = h /\ h \in 0..(build.parties - 1)
    BY <1>2, <1>8, <2>1, GenuineSignature DEF Parsed, Parties
  <2>3. aux[e] \in Given
    BY <1>2 DEF SignerInv, ShareInv, Given
  <2>4. IsShareOf(build, root, e, aux[e], h, i, slots'[i % 4])
    <3>1. CASE i = h
      BY <3>1 DEF IsShareOf
    <3>2. CASE i # h
      <4>1. slots'[i % 4] = ShareOf(Rebuilt(e, i))
        BY <1>1, <1>2, <1>5, <2>2, <3>2
      <4>2. ShareOf(Rebuilt(e, i)) = Expand(root, e, i)
        BY <1>2, <1>8, <2>1, <3>2, GenuineSeeds
      <4>3. SharesOf(build, root, e, aux[e])[i] = Expand(root, e, i)
        <5>1. i \in 0..(build.parties - 1) /\ i # build.parties - 1
          BY <1>5, <1>6
        <5> QED BY <5>1 DEF SharesOf
      <4> QED BY <4>1, <4>2, <4>3 DEF IsShareOf
    <3> QED BY <3>1, <3>2
  <2>5. OpenOf(build, root, e, aux[e], h, vpacks, i)
    BY <1>2, <1>8 DEF Treated, Opened, OpenOf
  <2>6. OpenOf(build, root, e, aux[e], h, Opening(build, h, vpacks, i, slots'[i % 4]), i + 1)
    <3> HIDE DEF h
    <3> QED BY <1>2, <1>4, <2>2, <2>3, <2>4, <2>5, OpeningAdds DEF Parties
  <2>7. vpacks' = Opening(build, h, vpacks, i, slots'[i % 4])
    BY <1>1, <2>2 DEF Repack, Opening
  <2> QED BY <1>1, <1>5, <2>6, <2>7 DEF Opened, OpenOf
<1>9. Treated(i)'
  <2>1. i' - 1 = i
    BY <1>1, <1>5
  <2> QED BY <1>1, <1>7, <1>8, <2>1 DEF Treated
<1> QED BY <1>1, <1>2, <1>4, <1>5, <1>6, <1>9 DEF VerifierInv

\* The share of the last party of a genuine signature that opens it.
LEMMA GenuineAux ==
  ASSUME SignerInv, EmulInv, GotInv, pc \in Verifying, genuine,
         NEW x \in Execs, hidden[x] # Last
  PROVE  ParsedAux(x) = aux[x]
<1>1. got.sig.proofs[x].aux = aux[x]
  <2>1. got.sig.proofs[x] = SentProof(x)
    BY GenuineSignature
  <2> QED BY <2>1 DEF SentProof, AuxSent
<1>2. aux[x] \in [wit : Field, corr : Field]
  BY DEF SignerInv, ShareInv
<1>3. aux[x] # NoHash
  <2>1. DOMAIN aux[x] = {"wit", "corr"} /\ DOMAIN NoHash = {"none"}
    BY <1>2 DEF NoHash
  <2> QED BY <2>1
<1> QED BY <1>1, <1>3 DEF ParsedAux

LEMMA RecomputeLastStep ==
  ASSUME SignerInv, EmulInv, GotInv, PackInv, VerifierInv, RecomputeLast
  PROVE  VerifierInv'
<1> DEFINE g == [vcoms[e] EXCEPT ![i] = Recommit(i, ParsedAux(e))]
           l == [wit |-> ParsedAux(e).wit, unif |-> ShareOf(Rebuilt(e, i)).unif,
                 corr |-> ParsedAux(e).corr]
<1>1. /\ pc = "recompute" /\ pc' = "emulate" /\ i' = i /\ i = Last
      /\ UNCHANGED <<params, e, aux, br, hidden, sig, got, genuine, challenges, vchallenges,
                     vhidden, vbr>>
      /\ vpacks' = Repack(vpacks, i)
      /\ slots' = IF i = vhidden[e] THEN slots ELSE [slots EXCEPT ![i % 4] = l]
      /\ Updated(vcoms', vcoms, e, g)
  BY DEF RecomputeLast, emulVars, Updated
<1>2. /\ Parsed /\ i \in Parties /\ Treated(i) /\ e \in Execs /\ Grid(build, vcoms)
      /\ build \in Builds /\ root \in Roots /\ DOMAIN slots = 0..3
  BY <1>1 DEF VerifierInv, SignerInv, ShareInv, PackInv
<1>3. /\ Row(build, g) /\ g[i] = Recommit(i, ParsedAux(e))
      /\ \A p : p # i => g[p] = vcoms[e][p]
  <2>1. Row(build, vcoms[e]) /\ Updated(g, vcoms[e], i, Recommit(i, ParsedAux(e)))
    BY <1>2 DEF Grid, Execs, Updated
  <2> HIDE DEF g
  <2> QED BY <1>2, <2>1, RowUpdated DEF Parties
<1>4. /\ Grid(build', vcoms') /\ Parsed' /\ Recomputed(e)' /\ vcoms'[e] = g
      /\ e \in 0..(build.execs - 1)
  <2> HIDE DEF g, l
  <2> QED BY <1>1, <1>3, RecomputeKeeps
<1>5. /\ i \in Nat /\ build.parties \in Nat /\ build' = build /\ root' = root /\ Last' = Last
      /\ Execs' = Execs /\ Parties' = Parties /\ i % 4 \in 0..3
      /\ i = build.parties - 1 /\ i + 1 = build.parties /\ ~(i' + 4 < build'.parties)
  BY <1>1, <1>2, BuildNumbers DEF Parties, params, Execs, Last
<1>6. ASSUME NEW p \in 0..i PROVE Recommitted(e, p)'
  <2>1. CASE p = i
    BY <1>1, <1>3, <1>4, <2>1, Recommits
  <2>2. CASE p # i
    <3>1. p \in 0..(i - 1)
      BY <1>5, <2>2
    <3> QED BY <1>1, <1>2, <1>3, <1>4, <2>2, <3>1, RecommittedKept DEF Treated
  <2> QED BY <2>1, <2>2
<1>7. ASSUME genuine PROVE Opened(build.parties)'
  <2> DEFINE h == hidden[e]
  <2>1. pc \in Verifying
    BY <1>1 DEF Verifying
  <2>2. vhidden[e] = h /\ h \in 0..(build.parties - 1)
    BY <1>2, <1>7, <2>1, GenuineSignature DEF Parsed, Parties
  <2>3. aux[e] \in Given
    BY <1>2 DEF SignerInv, ShareInv, Given
  <2>4. IsShareOf(build, root, e, aux[e], h, i, slots'[i % 4])
    <3>1. CASE i = h
      BY <3>1 DEF IsShareOf
    <3>2. CASE i # h
      <4>1. slots'[i % 4] = l
        BY <1>1, <1>2, <1>5, <2>2, <3>2
      <4>2. ShareOf(Rebuilt(e, i)) = Expand(root, e, i)
        BY <1>2, <1>7, <2>1, <3>2, GenuineSeeds
      <4>3. ParsedAux(e) = aux[e]
        BY <1>1, <1>2, <1>7, <2>1, <3>2, GenuineAux
      <4>4. SharesOf(build, root, e, aux[e])[build.parties - 1]
              = [wit |-> aux[e].wit, unif |-> Expand(root, e, build.parties - 1).unif,
                 corr |-> aux[e].corr]
        BY <1>2, <1>4, <2>3, SharesAreShares
      <4>5. l = SharesOf(build, root, e, aux[e])[i]
        BY <1>5, <4>2, <4>3, <4>4
      <4> QED BY <4>1, <4>5 DEF IsShareOf
    <3> QED BY <3>1, <3>2
  <2>5. OpenOf(build, root, e, aux[e], h, vpacks, i)
    BY <1>2, <1>7 DEF Treated, Opened, OpenOf
  <2>6. OpenOf(build, root, e, aux[e], h, Opening(build, h, vpacks, i, slots'[i % 4]), i + 1)
    <3> HIDE DEF h
    <3> QED BY <1>2, <1>4, <2>2, <2>3, <2>4, <2>5, OpeningAdds DEF Parties
  <2>7. vpacks' = Opening(build, h, vpacks, i, slots'[i % 4])
    BY <1>1, <2>2 DEF Repack, Opening
  <2> QED BY <1>1, <1>5, <2>6, <2>7 DEF Opened, OpenOf
<1>8. Treated(build.parties)'
  <2>1. build'.parties - 1 = i
    BY <1>5
  <2> QED BY <1>1, <1>6, <1>7, <2>1 DEF Treated
<1> QED BY <1>1, <1>2, <1>4, <1>5, <1>8 DEF VerifierInv

LEMMA EmulateStep ==
  ASSUME SignerInv, EmulInv, GotInv, PackInv, VerifierInv, Emulate
  PROVE  VerifierInv'
<1> USE DEF params
<1> DEFINE h == vhidden[e]
           alpha == got.sig.proofs[e].alpha
           mine == [p \in Packs(build) |->
                      Broadcast(vchallenges[e], vpacks[p], alpha, inst, HasOffset(build, h, p))]
           new == Recomposed(build, h, mine, PlainBroadcast(alpha))
<1>1. /\ pc = "emulate" /\ i' = 0 /\ vbr' = [vbr EXCEPT ![e] = new] /\ vpacks' = NoPacks(build)
      /\ UNCHANGED <<build, key, root, aux, br, hidden, sig, got, genuine, challenges, vchallenges,
                     vhidden, vcoms>>
      /\ \/ e + 1 \in Execs /\ e' = e + 1 /\ pc' = "recompute"
         \/ e + 1 \notin Execs /\ e' = 0 /\ pc' = "compare"
  BY DEF Emulate, emulVars
<1>2. /\ Parsed /\ Recomputed(e) /\ Treated(build.parties) /\ e \in Execs /\ Grid(build, vcoms)
      /\ build \in Builds /\ root \in Roots /\ key \in Keys
  BY <1>1 DEF VerifierInv, SignerInv, ShareInv
<1>3. /\ e \in Nat /\ build.execs \in Nat /\ build.parties \in Nat /\ build.parties >= 4
      /\ e \in 0..(build.execs - 1) /\ build.execs >= 1
      /\ Execs' = Execs /\ Parties' = Parties /\ Last' = Last
  BY <1>1, <1>2, BuildNumbers DEF Execs, Parties, Last
<1>4. Parsed'
  <2>1. LengthRequired(vhidden)' = LengthRequired(vhidden)
    BY <1>1, <1>3 DEF LengthRequired, SumOver, HeaderSize, ProofLength, PathSize, AuxSent
  <2>2. vbr' = [x \in Execs |-> vbr'[x]]
    BY <1>1, <1>2 DEF Parsed
  <2> QED BY <1>1, <1>2, <1>3, <2>1, <2>2 DEF Parsed
<1>5. ASSUME genuine PROVE new = br[e]
  <2>1. pc \in Verifying /\ pc \notin Signing /\ pc \notin {"share", "challenge", "simulate"}
    BY <1>1 DEF Verifying, Signing
  <2>2. /\ vhidden = hidden /\ vchallenges = challenges /\ h \in 0..(build.parties - 1)
        /\ got.sig.proofs[e] = SentProof(e)
    BY <1>2, <1>5, <2>1, GenuineSignature DEF Parsed, Parties
  <2>3. alpha = alphas[e]
    BY <2>2 DEF SentProof
  <2>4. /\ challenges[e] \in Challenge /\ alphas[e] = PlainAlpha(challenges[e], key, plain[e].unif)
        /\ br[e] = BroadcastOf(build, challenges[e], key, alphas[e], packs[e])
    BY <1>2, <2>1 DEF EmulInv, BroadcastOf
  <2>5. /\ aux[e] \in Given /\ plain[e].unif \in Field
        /\ Complete(build, root, e, key, aux[e], plain[e])
    BY <1>1, <1>2 DEF SignerInv, ShareInv, Shared, Given, Complete, Last
  <2>6. HoldPacks(build, SharesOf(build, root, e, aux[e]), packs[e], build.parties)
    BY <1>1, <1>2 DEF PackInv, HeldNow, Held, Shared
  <2>7. HoldOpen(build, h, SharesOf(build, root, e, aux[e]), vpacks, build.parties)
    BY <1>2, <1>5, <2>2 DEF Treated, Opened
  <2>8. new = Deduced(build, challenges[e], key, alphas[e], h, vpacks)
    BY <2>2, <2>3 DEF inst, KeyInstance, Deduced
  <2> HIDE DEF h, new
  <2>9. Verifiable(build, root, e, key, aux[e], plain[e], challenges[e], h, packs[e], vpacks,
                   alphas[e])
    BY <1>2, <1>3, <2>2, <2>4, <2>5, <2>6, <2>7 DEF Verifiable
  <2> QED BY <2>4, <2>8, <2>9, SameBroadcast
<1> HIDE DEF new, h
<1>6. vbr'[e] = new /\ \A x \in Execs : x # e => vbr'[x] = vbr[x]
  BY <1>1, <1>2 DEF Parsed
<1>7. \A x, p : Recommitted(x, p) => Recommitted(x, p)'
  BY <1>1, <1>3 DEF Recommitted, Commit, Rebuilt, LeavesOf, LeavesUnder, Parties, ParsedAux
<1>8. \A p \in Parties : Recommitted(e, p)
  BY <1>2 DEF Treated, Parties
<1>9. \A x \in 0..e : (x = e \/ x \in 0..(e - 1)) /\ x \in Execs
  BY <1>3 DEF Execs
<1>10. (\A x \in 0..e, p \in Parties : Recommitted(x, p)')
         /\ (genuine => \A x \in 0..e : vbr'[x] = br[x])
  <2>1. ASSUME NEW x \in 0..e PROVE \A p \in Parties : Recommitted(x, p)'
    BY <1>2, <1>7, <1>8, <1>9 DEF Recomputed
  <2>2. ASSUME genuine, NEW x \in 0..e PROVE vbr'[x] = br[x]
    <3>1. CASE x = e
      BY <1>5, <1>6, <2>2, <3>1
    <3>2. CASE x # e
      <4>1. x \in 0..(e - 1) /\ x \in Execs
        BY <1>9, <3>2
      <4> QED BY <1>2, <1>6, <2>2, <3>2, <4>1 DEF Recomputed
    <3> QED BY <3>1, <3>2
  <2> QED BY <2>1, <2>2
<1>11. CASE e + 1 \in Execs
  <2>1. e' = e + 1 /\ pc' = "recompute" /\ e' - 1 = e
    BY <1>1, <1>3, <1>11
  <2>2. Recomputed(e)'
    BY <1>1, <1>3, <1>10, <2>1 DEF Recomputed
  <2>3. Treated(i)'
    <3>1. 0..(i' - 1) = {}
      BY <1>1
    <3>2. Opened(i)'
      BY <1>1, NothingPacked DEF Opened
    <3> QED BY <3>1, <3>2 DEF Treated
  <2>4. i' \in Parties' /\ i' % 4 = 0 /\ e' \in Execs'
    BY <1>1, <1>3, <1>11, <2>1 DEF Parties
  <2> QED BY <1>1, <1>2, <1>4, <2>1, <2>2, <2>3, <2>4 DEF VerifierInv
<1>12. CASE e + 1 \notin Execs
  <2>1. pc' = "compare" /\ build.execs - 1 = e
    BY <1>1, <1>3, <1>12 DEF Execs
  <2>2. Recomputed(build.execs)'
    BY <1>1, <1>3, <1>10, <2>1 DEF Recomputed
  <2> QED BY <1>1, <1>2, <1>4, <2>1, <2>2 DEF VerifierInv
<1> QED BY <1>11, <1>12

-----------------------------------------------------------------------------
(* What the verifier receives.                                             *)

\* The signature built is as long as the parser requires.
LEMMA LengthsAgree ==
  ASSUME build \in Builds, NEW h \in [Execs -> Parties]
  PROVE  LengthBuilt(h) = LengthRequired(h) /\ LengthBuilt(h) \in Int
<1> DEFINE f == [x \in Execs |-> ProofLength(h[x], PathLength(h[x]))]
           g == [x \in Execs |-> ProofLength(h[x], PathSize(h[x]))]
<1>1. \A x \in Execs : PathLength(h[x]) = PathSize(h[x])
  BY PathIsExact
<1>2. f = g
  BY <1>1
<1>3. LengthBuilt(h) = HeaderSize + SumOver(f) /\ LengthRequired(h) = HeaderSize + SumOver(g)
  BY DEF LengthBuilt, LengthRequired
<1>4. f \in [0..(build.execs - 1) -> Int]
  BY ProofIsShort DEF Execs
<1> HIDE DEF f, g
<1>5. SumOver(f) = RunningSum(f, build.execs)[build.execs]
  BY Zenon DEF SumOver, RunningSum
<1>6. SumOver(f) \in Int
  <2>1. build.execs \in Nat
    BY BuildNumbers
  <2>2. RunningSum(f, build.execs) \in [0..build.execs -> Int]
    BY <1>4, <2>1, RunningSums
  <2> QED BY <1>5, <2>1, <2>2
<1>7. HeaderSize \in Int
  BY SizeAssumption DEF HeaderSize
<1> QED BY <1>2, <1>3, <1>6, <1>7

\* What is sent once the signer has returned.
LEMMA SentSignature ==
  ASSUME SignerInv, EmulInv, pc = "sent"
  PROVE  /\ sig = [salt |-> "salt", mpcHash |-> sig.mpcHash, viewHash |-> sig.viewHash,
                   length |-> sig.length, proofs |-> sig.proofs]
         /\ sig.length \in Int
         /\ sig.proofs = [x \in Execs |-> sig.proofs[x]]
         /\ \A x \in Execs :
              /\ sig.proofs[x] = [digest |-> sig.proofs[x].digest, alpha |-> alphas[x],
                                  path |-> sig.proofs[x].path, aux |-> sig.proofs[x].aux]
              /\ alphas[x] \in Field
              /\ sig.proofs[x].aux # NoHash =>
                   hidden[x] # Last /\ sig.proofs[x].aux = aux[x]
              /\ aux[x] \in [wit : Field, corr : Field]
<1>1. sig = Sent /\ pc \notin {"share", "challenge", "simulate"}
  BY DEF EmulInv, Signing
<1>2. build \in Builds /\ hidden \in [Execs -> Parties]
  BY DEF SignerInv, ShareInv, HiddenInv, BeforeViews
<1>3. LengthBuilt(hidden) \in Int
  BY <1>2, LengthsAgree
<1>4. \A x \in Execs : alphas[x] \in Field
  <2>1. ASSUME NEW x \in Execs PROVE PlainAlpha(challenges[x], key, plain[x].unif) \in Field
    BY <1>1, PlainAlphaIs DEF EmulInv, SignerInv, ShareInv
  <2> QED BY <1>1, <2>1 DEF EmulInv
<1>5. sig.length = LengthBuilt(hidden) /\ \A x \in Execs : sig.proofs[x] = SentProof(x)
  BY <1>1 DEF Sent
<1>6. sig.proofs = [x \in Execs |-> SentProof(x)]
  BY <1>1 DEF Sent
<1>7. \A x \in Execs : aux[x] \in [wit : Field, corr : Field]
  BY DEF SignerInv, ShareInv
<1>8. \A x \in Execs :
         /\ sig.proofs[x] = [digest |-> sig.proofs[x].digest, alpha |-> alphas[x],
                             path |-> sig.proofs[x].path, aux |-> sig.proofs[x].aux]
         /\ sig.proofs[x].aux # NoHash => hidden[x] # Last /\ sig.proofs[x].aux = aux[x]
  <2> SUFFICES ASSUME NEW x \in Execs
               PROVE  /\ sig.proofs[x] = [digest |-> sig.proofs[x].digest, alpha |-> alphas[x],
                                          path |-> sig.proofs[x].path, aux |-> sig.proofs[x].aux]
                      /\ sig.proofs[x].aux # NoHash => hidden[x] # Last /\ sig.proofs[x].aux = aux[x]
    OBVIOUS
  <2>1. sig.proofs[x] = [digest |-> coms[x][hidden[x]], alpha |-> alphas[x], path |-> PathNodes(hidden[x]),
                         aux |-> IF hidden[x] # Last THEN aux[x] ELSE NoHash]
    BY <1>5 DEF SentProof, AuxSent
  <2>2. sig.proofs[x].aux = IF hidden[x] # Last THEN aux[x] ELSE NoHash
    BY <2>1
  <2>3. sig.proofs[x] = [digest |-> sig.proofs[x].digest, alpha |-> alphas[x],
                         path |-> sig.proofs[x].path, aux |-> sig.proofs[x].aux]
    BY <2>1
  <2> QED BY <2>2, <2>3
<1>9. sig = [salt |-> "salt", mpcHash |-> sig.mpcHash, viewHash |-> sig.viewHash,
             length |-> sig.length, proofs |-> sig.proofs]
  BY <1>1 DEF Sent
<1>10. sig.proofs = [x \in Execs |-> sig.proofs[x]]
  BY <1>6
<1> QED BY <1>3, <1>4, <1>5, <1>7, <1>8, <1>9, <1>10

\* A signature altered outside of the proofs.
LEMMA HeaderAltered ==
  ASSUME SignerInv, EmulInv, DeliverOtherHeader
  PROVE  Altered'
<1>1. pc = "sent" /\ UNCHANGED <<sig, params>>
  BY DEF DeliverOtherHeader, Deliver, emulVars
<1>2. /\ sig = [salt |-> "salt", mpcHash |-> sig.mpcHash, viewHash |-> sig.viewHash,
                length |-> sig.length, proofs |-> sig.proofs]
      /\ sig.length \in Int
  BY <1>1, SentSignature
<1>3. \/ got' = [msg |-> "other", sig |-> sig, badSeeds |-> {}]
      \/ got' = [msg |-> "msg", sig |-> [sig EXCEPT !.salt = "other"], badSeeds |-> {}]
      \/ got' = [msg |-> "msg", sig |-> [sig EXCEPT !.mpcHash = ForgedHash], badSeeds |-> {}]
      \/ got' = [msg |-> "msg", sig |-> [sig EXCEPT !.viewHash = ForgedHash], badSeeds |-> {}]
      \/ \E n \in {-1, 1} :
           got' = [msg |-> "msg", sig |-> [sig EXCEPT !.length = @ + n], badSeeds |-> {}]
  BY DEF DeliverOtherHeader, Deliver
<1>4. \/ got'.msg # "msg" /\ got'.sig = sig
      \/ got'.sig.salt # "salt" /\ got'.sig.mpcHash = sig.mpcHash /\ got'.sig.viewHash = sig.viewHash
      \/ got'.sig.mpcHash = ForgedHash
      \/ got'.sig.viewHash = ForgedHash
      \/ /\ got'.sig.length # sig.length
         /\ got'.sig.mpcHash = sig.mpcHash /\ got'.sig.viewHash = sig.viewHash
  BY <1>2, <1>3
<1> QED BY <1>1, <1>4 DEF Altered

\* A signature altered in the proof of an execution.
LEMMA ProofAltered ==
  ASSUME SignerInv, EmulInv, DeliverOtherProof
  PROVE  Altered'
<1>1. pc = "sent" /\ UNCHANGED <<sig, params, hidden, alphas, aux>>
  BY DEF DeliverOtherProof, Deliver, shareVars, emulVars
<1>2. Execs' = Execs /\ Parties' = Parties /\ Last' = Last
  BY <1>1 DEF Execs, Parties, Last, params
<1>3. PICK x \in Execs :
       \/ Deliver("msg", [sig EXCEPT !.proofs[x].digest = ForgedHash], {})
       \/ Deliver("msg", [sig EXCEPT !.proofs[x].alpha = F(@ + 1)], {})
       \/ \E n \in PathNodes(hidden[x]) :
            Deliver("msg", sig, {Seed(x, p) : p \in LeavesUnder(n)})
       \/ /\ sig.proofs[x].aux # NoHash
          /\ \/ Deliver("msg", [sig EXCEPT !.proofs[x].aux.wit = F(@ + 1)], {})
             \/ Deliver("msg", [sig EXCEPT !.proofs[x].aux.corr = F(@ + 1)], {})
  BY Zenon DEF DeliverOtherProof
<1>4. \A m, s, bad : Deliver(m, s, bad) => got'.sig = s /\ got'.badSeeds = bad
  BY DEF Deliver
<1>5. /\ sig = [salt |-> "salt", mpcHash |-> sig.mpcHash, viewHash |-> sig.viewHash,
                length |-> sig.length, proofs |-> sig.proofs]
      /\ sig.proofs = [z \in Execs |-> sig.proofs[z]]
      /\ sig.proofs[x] = [digest |-> sig.proofs[x].digest, alpha |-> alphas[x],
                          path |-> sig.proofs[x].path, aux |-> sig.proofs[x].aux]
      /\ alphas[x] \in Field
      /\ sig.proofs[x].aux # NoHash => hidden[x] # Last /\ sig.proofs[x].aux = aux[x]
      /\ aux[x] \in [wit : Field, corr : Field]
  BY <1>1, SentSignature
<1>6. "proofs" \in DOMAIN sig /\ DOMAIN sig.proofs = Execs
      /\ "digest" \in DOMAIN sig.proofs[x] /\ "alpha" \in DOMAIN sig.proofs[x]
      /\ "aux" \in DOMAIN sig.proofs[x]
  BY <1>5
<1>7. ASSUME NEW s, NEW q, s = [sig EXCEPT !.proofs[x] = q]
      PROVE  s.mpcHash = sig.mpcHash /\ s.viewHash = sig.viewHash /\ s.proofs[x] = q
  BY <1>5, <1>6, <1>7
<1>8. ASSUME NEW q, got'.sig = [sig EXCEPT !.proofs[x] = q],
             \/ q.digest = ForgedHash
             \/ q.alpha # alphas[x]
             \/ hidden[x] # Last /\ q.aux # NoHash /\ q.aux # aux[x]
      PROVE  Altered'
  <2>1. /\ got'.sig.mpcHash = sig.mpcHash /\ got'.sig.viewHash = sig.viewHash
        /\ got'.sig.proofs[x] = q
    BY <1>7, <1>8
  <2>2. AlteredProof(x)'
    BY <1>1, <1>2, <1>8, <2>1 DEF AlteredProof
  <2> QED BY <1>1, <1>2, <2>1, <2>2 DEF Altered
<1>9. CASE got'.sig = [sig EXCEPT !.proofs[x].digest = ForgedHash]
  <2> DEFINE q == [sig.proofs[x] EXCEPT !.digest = ForgedHash]
  <2>1. got'.sig = [sig EXCEPT !.proofs[x] = q] /\ q.digest = ForgedHash
    BY <1>6, <1>9
  <2> HIDE DEF q
  <2> QED BY <1>8, <2>1
<1>10. CASE got'.sig = [sig EXCEPT !.proofs[x].alpha = F(@ + 1)]
  <2> DEFINE q == [sig.proofs[x] EXCEPT !.alpha = F(@ + 1)]
  <2>1. got'.sig = [sig EXCEPT !.proofs[x] = q]
    BY <1>10
  <2>2. q.alpha = F(alphas[x] + 1)
    BY <1>5
  <2> HIDE DEF q
  <2> QED BY <1>5, <1>8, <2>1, <2>2, NextDiffers
<1>11. CASE sig.proofs[x].aux # NoHash /\ got'.sig = [sig EXCEPT !.proofs[x].aux.wit = F(@ + 1)]
  <2> DEFINE a == [aux[x] EXCEPT !.wit = F(@ + 1)]
             q == [sig.proofs[x] EXCEPT !.aux = a]
  <2>1. got'.sig = [sig EXCEPT !.proofs[x] = q]
    BY <1>5, <1>11
  <2>2. q.aux = a
    BY <1>6
  <2>3. a # NoHash /\ a # aux[x]
    <3>1. a.wit = F(aux[x].wit + 1) /\ aux[x].wit \in Field
      BY <1>5
    <3>2. DOMAIN a = {"wit", "corr"} /\ DOMAIN NoHash = {"none"}
      BY <1>5 DEF NoHash
    <3> HIDE DEF a
    <3> QED BY <3>1, <3>2, NextDiffers
  <2> HIDE DEF q, a
  <2> QED BY <1>5, <1>8, <1>11, <2>1, <2>2, <2>3
<1>12. CASE sig.proofs[x].aux # NoHash /\ got'.sig = [sig EXCEPT !.proofs[x].aux.corr = F(@ + 1)]
  <2> DEFINE a == [aux[x] EXCEPT !.corr = F(@ + 1)]
             q == [sig.proofs[x] EXCEPT !.aux = a]
  <2>1. got'.sig = [sig EXCEPT !.proofs[x] = q]
    BY <1>5, <1>12
  <2>2. q.aux = a
    BY <1>6
  <2>3. a # NoHash /\ a # aux[x]
    <3>1. a.corr = F(aux[x].corr + 1) /\ aux[x].corr \in Field
      BY <1>5
    <3>2. DOMAIN a = {"wit", "corr"} /\ DOMAIN NoHash = {"none"}
      BY <1>5 DEF NoHash
    <3> HIDE DEF a
    <3> QED BY <3>1, <3>2, NextDiffers
  <2> HIDE DEF q, a
  <2> QED BY <1>5, <1>8, <1>12, <2>1, <2>2, <2>3
<1>13. CASE \E n \in PathNodes(hidden[x]) :
              got'.sig = sig /\ got'.badSeeds = {Seed(x, p) : p \in LeavesUnder(n)}
  <2>1. PICK n \in PathNodes(hidden[x]) :
              got'.sig = sig /\ got'.badSeeds = {Seed(x, p) : p \in LeavesUnder(n)}
    BY <1>13
  <2>2. build \in Builds /\ hidden[x] \in Parties
    BY <1>1 DEF SignerInv, ShareInv, HiddenInv, BeforeViews
  <2>3. PICK p \in LeavesUnder(n) : p # hidden[x]
    BY <2>2, PathHasLeaves
  <2>4. p \in Parties /\ Seed(x, p) \in got'.badSeeds
    BY <2>1, <2>3 DEF LeavesUnder
  <2>5. AlteredProof(x)'
    BY <1>1, <1>2, <2>3, <2>4 DEF AlteredProof
  <2> QED BY <1>1, <1>2, <2>1, <2>5 DEF Altered
<1> QED BY <1>3, <1>4, <1>9, <1>10, <1>11, <1>12, <1>13

LEMMA TransmitStep ==
  ASSUME SignerInv, EmulInv, GotInv, Transmit
  PROVE  GotInv'
<1>1. pc = "sent" /\ pc' = "parse" /\ UNCHANGED <<sig, verdict>> /\ verdict = "none"
  BY DEF Transmit, DeliverGenuine, DeliverOtherHeader, DeliverOtherProof, Deliver, emulVars,
     GotInv
<1>2. CASE DeliverGenuine
  <2>1. genuine' = TRUE /\ got' = [msg |-> "msg", sig |-> sig, badSeeds |-> {}]
    BY <1>2 DEF DeliverGenuine, Deliver
  <2> QED BY <1>1, <2>1 DEF GotInv, Unaltered, Signing, Verifying
<1>3. CASE DeliverOtherHeader \/ DeliverOtherProof
  <2>1. genuine' = FALSE /\ Altered'
    BY <1>3, HeaderAltered, ProofAltered DEF DeliverOtherHeader, DeliverOtherProof
  <2> QED BY <1>1, <2>1 DEF GotInv, Signing, Verifying
<1> QED BY <1>2, <1>3 DEF Transmit

-----------------------------------------------------------------------------
(* The transcripts of the signer and of the verifier.                      *)

\* SameTranscript is not inductive without what the packs, the commitments and the
\* parsed fields hold at each step of the loops of the signer and of the verifier.
TranscriptInv == SignerInv /\ PackInv /\ EmulInv /\ GotInv /\ VerifierInv

LEMMA InitTranscript == Init => TranscriptInv
BY InitSigner, InitPacks, InitEmul, InitVerifier DEF TranscriptInv

LEMMA SignSteps ==
  ASSUME TranscriptInv, Sign
  PROVE  TranscriptInv'
<1> USE DEF TranscriptInv
<1>1. SignerInv'
  BY SignerStep DEF Next
<1>2. EmulInv'
  BY EmulStep
<1>3. PackInv'
  <2>1. CASE ShareFour
    BY <2>1, PackFourStep
  <2>2. CASE ShareOne
    BY <2>2, PackOneStep
  <2>3. CASE ShareLast
    BY <1>1, <2>3, PackLastStep
  <2>4. CASE MpcChallenge \/ Simulate \/ ViewChallengeDrawn \/ BuildSignature
    <3>1. /\ pc # "share" /\ pc' # "share" /\ UNCHANGED <<params, packs, aux, coms, slots>>
      BY <2>4 DEF MpcChallenge, Simulate, ViewChallengeDrawn, BuildSignature, shareVars
    <3>2. DOMAIN slots' = DOMAIN slots
      BY <3>1
    <3> QED BY <3>1, <3>2, PacksKept
  <2> QED BY <2>1, <2>2, <2>3, <2>4 DEF Sign
<1>4. /\ pc \in Signing /\ pc' \in Signing \cup {"sent"}
      /\ UNCHANGED <<params, verVars>>
  BY DEF Sign, ShareFour, ShareOne, ShareLast, MpcChallenge, Simulate, ViewChallengeDrawn,
     BuildSignature, Signing
<1>5. GotInv'
  <2>1. UNCHANGED <<genuine, verdict>>
    BY <1>4 DEF verVars
  <2>2. pc' \notin Verifying /\ pc' # "done"
    BY <1>4 DEF Signing, Verifying
  <2> QED BY <1>4, <2>1, <2>2 DEF GotInv, Signing
<1>6. VerifierInv'
  <2>1. pc' \notin {"recompute", "emulate", "compare"} /\ UNCHANGED <<params, vcoms>>
    BY <1>4 DEF Signing, verVars
  <2> QED BY <2>1, NotYetVerifying
<1> QED BY <1>1, <1>2, <1>3, <1>5, <1>6

\* What the steps after the signer leave alone.
LEMMA AfterSigning ==
  ASSUME TranscriptInv, Transmit \/ Verify
  PROVE  /\ UNCHANGED <<params, packs, plain, aux, coms, emulVars>>
         /\ pc \in Verifying \cup {"sent"} /\ pc' \in Verifying \cup {"done"}
         /\ DOMAIN slots' = DOMAIN slots
<1>1. CASE Transmit
  <2>1. pc = "sent" /\ pc' = "parse" /\ UNCHANGED <<params, shareVars, emulVars>>
    BY <1>1 DEF Transmit, DeliverGenuine, DeliverOtherHeader, DeliverOtherProof, Deliver
  <2>2. slots' = slots /\ UNCHANGED <<packs, plain, aux, coms>>
    BY <2>1 DEF shareVars
  <2> QED BY <2>1, <2>2 DEF Verifying
<1>2. CASE Parse \/ ParseFails \/ Compare
  <2>1. /\ pc \in {"parse", "compare"} /\ pc' \in {"recompute", "done"}
        /\ slots' = slots /\ UNCHANGED <<params, packs, plain, aux, coms, emulVars>>
    BY <1>2 DEF Parse, ParseFails, Compare, shareVars
  <2> QED BY <2>1 DEF Verifying
<1>3. CASE RecomputeFour
  <2>1. DOMAIN slots' = 0..3
    BY <1>3 DEF RecomputeFour
  <2> QED BY <1>3, <2>1 DEF RecomputeFour, Verifying, TranscriptInv, PackInv
<1>4. CASE RecomputeOne
  <2>1. DOMAIN slots' = DOMAIN slots
    BY <1>4 DEF RecomputeOne
  <2> QED BY <1>4, <2>1 DEF RecomputeOne, Verifying
<1>5. CASE RecomputeLast
  <2>1. DOMAIN slots' = DOMAIN slots
    BY <1>5 DEF RecomputeLast
  <2> QED BY <1>5, <2>1 DEF RecomputeLast, Verifying
<1>6. CASE Emulate
  <2>1. /\ pc = "emulate" /\ pc' \in {"recompute", "compare"} /\ slots' = slots
        /\ UNCHANGED <<params, packs, plain, aux, coms, emulVars>>
    BY <1>6 DEF Emulate
  <2> QED BY <2>1 DEF Verifying
<1> QED BY <1>1, <1>2, <1>3, <1>4, <1>5, <1>6 DEF Verify

LEMMA LaterTranscript ==
  ASSUME TranscriptInv, Transmit \/ Verify
  PROVE  TranscriptInv'
<1> USE DEF TranscriptInv
<1>1. SignerInv'
  BY SignerStep DEF Next
<1>2. /\ UNCHANGED <<params, packs, plain, aux, coms, emulVars>>
      /\ pc \in Verifying \cup {"sent"} /\ pc' \in Verifying \cup {"done"}
      /\ DOMAIN slots' = DOMAIN slots
  BY AfterSigning
<1>3. pc \notin Signing /\ pc' \notin Signing /\ pc # "share" /\ pc' # "share"
  BY <1>2 DEF Verifying, Signing
<1>4. EmulInv'
  BY <1>2, <1>3, EmulKept
<1>5. PackInv'
  BY <1>2, <1>3, PacksKept
<1>6. CASE Transmit
  <2>1. pc' \notin {"recompute", "emulate", "compare"} /\ UNCHANGED <<params, vcoms>>
    BY <1>6 DEF Transmit, DeliverGenuine, DeliverOtherHeader, DeliverOtherProof, Deliver
  <2>2. VerifierInv'
    BY <2>1, NotYetVerifying
  <2> QED BY <1>1, <1>4, <1>5, <1>6, <2>2, TransmitStep
<1>7. CASE ParseFails \/ Compare
  <2>1. pc' = "done" /\ UNCHANGED <<params, vcoms, genuine>>
    BY <1>7 DEF ParseFails, Compare
  <2>2. VerifierInv'
    BY <2>1, NotYetVerifying
  <2>3. GotInv'
    BY <2>1 DEF GotInv, Verifying, Signing
  <2> QED BY <1>1, <1>4, <1>5, <2>2, <2>3
<1>8. CASE Parse \/ RecomputeFour \/ RecomputeOne \/ RecomputeLast \/ Emulate
  <2>1. /\ pc \in Verifying /\ pc' \in Verifying /\ UNCHANGED <<got, genuine, verdict>>
    BY <1>8 DEF Parse, RecomputeFour, RecomputeOne, RecomputeLast, Emulate, Verifying
  <2>2. GotInv'
    BY <1>2, <2>1, GotKept DEF emulVars
  <2>3. VerifierInv'
    BY <1>8, ParseStep, RecomputeFourStep, RecomputeOneStep, RecomputeLastStep, EmulateStep
  <2> QED BY <1>1, <1>4, <1>5, <2>2, <2>3
<1> QED BY <1>6, <1>7, <1>8 DEF Verify

LEMMA TranscriptStep == TranscriptInv /\ [Next]_vars => TranscriptInv'
<1> SUFFICES ASSUME TranscriptInv, [Next]_vars PROVE TranscriptInv'
  OBVIOUS
<1>1. CASE Stopped \/ UNCHANGED vars
  <2>1. UNCHANGED vars
    BY <1>1 DEF Stopped
  <2>2. UNCHANGED <<pc, params, shareVars, emulVars, verVars>>
    BY <2>1 DEF vars
  <2>3. SignerInv'
    BY <2>1, SignerStep DEF TranscriptInv
  <2> USE DEF TranscriptInv, params, shareVars, emulVars, verVars
  <2>4. Execs' = Execs /\ Parties' = Parties /\ Last' = Last /\ Shared' = Shared
    BY <2>2 DEF Execs, Parties, Last, Shared
  <2>5. PackInv'
    BY <2>2, <2>4 DEF PackInv, HeldNow, Committed, Commit
  <2>6. Sent' = Sent
    BY <2>2, <2>4 DEF Sent, SentProof, AuxSent, LengthBuilt, SumOver, HeaderSize, ProofLength,
       PathLength, PathNodes, MpcHash, inst
  <2>7. EmulInv'
    BY <2>2, <2>4, <2>6 DEF EmulInv
  <2>8. GotInv'
    BY <2>2, <2>4 DEF GotInv, Unaltered, Altered, AlteredProof
  <2>9. \A x, p : Recommitted(x, p)' <=> Recommitted(x, p)
    BY <2>2, <2>4 DEF Recommitted, Commit, Rebuilt, LeavesOf, LeavesUnder, Parties, ParsedAux
  <2>10. LengthRequired(vhidden)' = LengthRequired(vhidden)
    BY <2>2, <2>4 DEF LengthRequired, SumOver, HeaderSize, ProofLength, PathSize, AuxSent
  <2>11. VerifierInv'
    BY <2>2, <2>4, <2>9, <2>10 DEF VerifierInv, Parsed, Recomputed, Treated, Opened
  <2> QED BY <2>3, <2>5, <2>7, <2>8, <2>11
<1>2. CASE Sign
  BY <1>2, SignSteps
<1>3. CASE Transmit \/ Verify
  BY <1>3, LaterTranscript
<1> QED BY <1>1, <1>2, <1>3 DEF Next

LEMMA TranscriptInvariant == Spec => []TranscriptInv
<1> QED BY InitTranscript, TranscriptStep, PTL DEF Spec

\* What the verifier of a genuine signature has recomputed at the end.
LEMMA TranscriptsAgree ==
  ASSUME TranscriptInv, genuine, pc = "compare"
  PROVE  vcoms = coms /\ vbr = br
<1> USE DEF TranscriptInv
<1>1. pc \in Verifying /\ pc \notin Signing /\ pc \notin {"share", "challenge", "simulate"}
  BY DEF Verifying, Signing
<1>2. /\ Parsed /\ Recomputed(build.execs) /\ Grid(build, vcoms) /\ Grid(build, coms)
      /\ \A x \in Execs, p \in Parties : Committed(x, p)
  BY <1>1 DEF VerifierInv, PackInv, Shared
<1>3. /\ vhidden = hidden /\ got.badSeeds = {} /\ got.sig.salt = "salt"
      /\ \A x \in Execs : got.sig.proofs[x] = SentProof(x)
  BY <1>1, <1>2, GenuineSignature DEF Parsed
<1>4. ASSUME NEW x \in Execs, NEW p \in Parties PROVE vcoms[x][p] = coms[x][p]
  <2>1. Recommitted(x, p) /\ Committed(x, p)
    BY <1>2, <1>4 DEF Recomputed, Execs
  <2>2. CASE p = hidden[x]
    <3>1. SentProof(x).digest = coms[x][p]
      BY <2>2 DEF SentProof
    <3> QED BY <1>3, <2>1, <2>2, <3>1 DEF Recommitted
  <2>3. CASE p # hidden[x]
    <3>1. Rebuilt(x, p) = Seed(x, p)
      BY <1>1, <1>2, <2>3, GenuineLeaves
    <3>2. p = Last => ParsedAux(x) = aux[x]
      BY <1>1, <2>3, GenuineAux
    <3>3. Commit(x, p, Seed(x, p), ParsedAux(x), "salt") = Commit(x, p, Seed(x, p), aux[x], "salt")
      BY <3>2 DEF Commit
    <3> QED BY <1>3, <2>1, <2>3, <3>1, <3>3 DEF Recommitted, Committed
  <2> QED BY <2>2, <2>3
<1>5. vcoms = coms
  BY <1>2, <1>4, GridsEqual DEF Execs, Parties
<1>6. \A x \in Execs : vbr[x] = br[x]
  BY <1>2 DEF Recomputed, Execs
<1>7. vbr = [x \in Execs |-> vbr[x]]
  BY <1>2 DEF Parsed
<1>8. br = [x \in Execs |-> br[x]]
  BY <1>1 DEF EmulInv
<1> QED BY <1>5, <1>6, <1>7, <1>8

\* For every build of the four packings, key, seed, challenge and hidden parties: when
\* a signature reaches mpcith_additive_based_sign_verify as it was sent, the commitments
\* and the broadcasts it recomputes are those of the signer, although it packs other
\* combinations of the shares and knows nothing of the hidden one.
THEOREM RecomputesTranscript == Spec => []SameTranscript
<1>1. TranscriptInv => SameTranscript
  BY TranscriptsAgree DEF SameTranscript
<1> QED BY <1>1, TranscriptInvariant, PTL

-----------------------------------------------------------------------------
(* What a signature does not tell.  The solution of another signer is      *)
(* rerun with a share of the hidden party that is computed from it: the    *)
(* last party gets what it was sent, and the parties broadcast together    *)
(* what they did.  By RecomposedIsSigners the broadcasts of the packs are  *)
(* functions of the open shares and of that, so they are the same too.     *)

\* What the accumulator of a rerun holds.
LEMMA SummedShares ==
  ASSUME build \in Builds, NEW share \in [Parties -> Share]
  PROVE  /\ Summed(share) \in Share
         /\ \A c \in Parts : /\ SumUpTo(PartOf(share, c), Last) \in Int
                             /\ Summed(share)[c] = F(SumUpTo(PartOf(share, c), Last))
<1> DEFINE n == Last
           G == [z \in Share \X (0..(n - 1)) |-> Plus(z[1], share[z[2]])]
           Sums(s) == s = [k \in 0..n |-> IF k = 0 THEN ZeroShare ELSE Plus(s[k - 1], share[k - 1])]
           sum == CHOOSE s : Sums(s)
           T(c, k) == SumUpTo(PartOf(share, c), k)
           P(k) == sum[k] \in Share /\ \A c \in Parts : sum[k][c] = F(T(c, k))
           M == {k \in 0..n : ~P(k)}
<1>1. n \in Nat /\ \A k \in 0..(n - 1) : k \in Parties /\ share[k] \in Share
  BY BuildNumbers DEF Last, Parties
<1>2. \E s : Sums(s)
  <2>1. G \in [Share \X (0..(n - 1)) -> Share]
    BY <1>1, SumOfTwo
  <2>2. \A v \in Share, k \in 0..(n - 1) : G[<<v, k>>] = Plus(v, share[k])
    OBVIOUS
  <2> HIDE DEF G, n
  <2>3. PICK g \in [0..n -> Share] : Loops(g, ZeroShare, G, n)
    BY <1>1, <2>1, ZeroIsShare, LoopsExist
  <2>4. \A k \in 0..n : k # 0 => G[<<g[k - 1], k - 1>>] = Plus(g[k - 1], share[k - 1])
    <3>1. \A k \in 0..n : k # 0 => k - 1 \in 0..(n - 1) /\ k - 1 \in 0..n
      BY <1>1
    <3> QED BY <2>2, <3>1
  <2>5. g = [k \in 0..n |-> IF k = 0 THEN ZeroShare ELSE Plus(g[k - 1], share[k - 1])]
    BY <2>3, <2>4 DEF Loops
  <2> QED BY <2>5
<1>3. Summed(share) = sum[n]
  BY Zenon DEF Summed
<1>4. Sums(sum)
  BY <1>2, Zenon
<1> HIDE DEF sum
<1>5. sum[0] = ZeroShare /\ \A k \in 0..(n - 1) : sum[k + 1] = Plus(sum[k], share[k])
  <2>1. 0 \in 0..n /\ \A k \in 0..(n - 1) : k + 1 \in 0..n /\ k + 1 # 0 /\ (k + 1) - 1 = k
    BY <1>1
  <2> HIDE DEF n
  <2> QED BY <1>4, <2>1
<1>6. ASSUME NEW c \in Parts
      PROVE  /\ T(c, 0) = 0 /\ \A k \in 0..n : T(c, k) \in Int
             /\ \A k \in 0..(n - 1) : T(c, k + 1) = T(c, k) + share[k][c]
  <2>1. \A k \in 0..(n - 1) : PartOf(share, c)[k] = share[k][c] /\ share[k][c] \in Int
    BY <1>1, SumOfTwo DEF PartOf
  <2> HIDE DEF n
  <2> QED BY <1>1, <2>1, SumsUpTo
<1> HIDE DEF T
<1>7. P(0)
  BY <1>5, <1>6, ZeroIsShare DEF ZeroShare, Parts
<1>8. ASSUME NEW k \in 0..(n - 1), P(k) PROVE P(k + 1)
  <2>1. sum[k + 1] = Plus(sum[k], share[k]) /\ share[k] \in Share /\ sum[k] \in Share
    BY <1>1, <1>5, <1>8
  <2>2. ASSUME NEW c \in Parts PROVE sum[k + 1][c] = F(T(c, k + 1))
    <3>1. T(c, k + 1) = T(c, k) + share[k][c] /\ T(c, k) \in Int /\ share[k][c] \in Int
      <4>1. k \in 0..n
        BY <1>1
      <4> HIDE DEF n
      <4> QED BY <1>6, <2>1, <4>1, SumOfTwo
    <3>2. sum[k + 1][c] = F(F(T(c, k)) + share[k][c])
      BY <1>8, <2>1, SumOfTwo
    <3> QED BY <3>1, <3>2, SumNormalises
  <2> QED BY <2>1, <2>2, SumOfTwo
<1>9. CASE M # {}
  <2>1. PICK m \in M : \A k \in M : m <= k
    BY <1>1, <1>9, Least, M \subseteq Nat
  <2>2. m # 0
    BY <1>7, <2>1
  <2>3. m - 1 \in 0..(n - 1) /\ m - 1 \in 0..n /\ (m - 1) + 1 = m /\ ~(m <= m - 1)
    BY <1>1, <2>1, <2>2
  <2> HIDE DEF P
  <2>4. P(m - 1)
    BY <2>1, <2>3
  <2>5. P(m - 1 + 1)
    BY <1>8, <2>3, <2>4
  <2> QED BY <2>1, <2>3, <2>5
<1>10. CASE M = {}
  <2>1. P(n)
    BY <1>1, <1>10
  <2>2. n \in 0..n
    BY <1>1
  <2> QED BY <1>3, <1>6, <2>1, <2>2 DEF T
<1> QED BY <1>9, <1>10

\* The packs of a rerun.
LEMMA PackedShares ==
  ASSUME build \in Builds, NEW share \in [Parties -> Share]
  PROVE  HoldPacks(build, share, PackedAll(share), build.parties)
<1> DEFINE n == build.parties
           V == [Packs(build) -> Share]
           G == [z \in V \X (0..(n - 1)) |-> Packed(build, z[1], z[2], share[z[2]])]
           Loop(s) == s = [k \in 0..n |-> IF k = 0 THEN NoPacks(build)
                                          ELSE Packed(build, s[k - 1], k - 1, share[k - 1])]
           packed == CHOOSE s : Loop(s)
           P(k) == HoldPacks(build, share, packed[k], k)
           M == {k \in 0..n : ~P(k)}
<1>1. /\ n \in Nat /\ WellFormed(build) /\ share \in [0..(n - 1) -> Share]
  BY BuildNumbers, BuildsAssumption DEF Parties
<1>2. \E s : Loop(s)
  <2>1. ASSUME NEW v \in V, NEW k \in 0..(n - 1) PROVE Packed(build, v, k, share[k]) \in V
    <3>1. ASSUME NEW p \in Packs(build)
          PROVE  Plus(v[p], Times(Weight(build, p, k), share[k])) \in Share
      <4>1. Weight(build, p, k) \in Int /\ v[p] \in Share /\ share[k] \in Share
        BY <1>1, WeightsAreNumbers
      <4> QED BY <4>1, Scales, SumOfTwo
    <3> QED BY <3>1 DEF Packed
  <2>2. NoPacks(build) \in V
    BY ZeroIsShare DEF NoPacks
  <2> HIDE DEF V, n
  <2>3. G \in [V \X (0..(n - 1)) -> V]
    BY <2>1
  <2>4. \A v \in V, k \in 0..(n - 1) : G[<<v, k>>] = Packed(build, v, k, share[k])
    OBVIOUS
  <2> HIDE DEF G
  <2>5. PICK g \in [0..n -> V] : Loops(g, NoPacks(build), G, n)
    BY <1>1, <2>2, <2>3, LoopsExist
  <2>6. \A k \in 0..n : k # 0 => G[<<g[k - 1], k - 1>>] = Packed(build, g[k - 1], k - 1, share[k - 1])
    <3>1. \A k \in 0..n : k # 0 => k - 1 \in 0..(n - 1) /\ k - 1 \in 0..n
      BY <1>1
    <3> QED BY <2>4, <3>1
  <2>7. g = [k \in 0..n |-> IF k = 0 THEN NoPacks(build)
                             ELSE Packed(build, g[k - 1], k - 1, share[k - 1])]
    BY <2>5, <2>6 DEF Loops
  <2> QED BY <2>7
<1>3. PackedAll(share) = packed[n]
  BY Zenon DEF PackedAll
<1>4. Loop(packed)
  BY <1>2, Zenon
<1> HIDE DEF packed
<1>5. /\ packed[0] = NoPacks(build)
      /\ \A k \in 0..(n - 1) : packed[k + 1] = Packed(build, packed[k], k, share[k])
  <2>1. 0 \in 0..n /\ \A k \in 0..(n - 1) : k + 1 \in 0..n /\ k + 1 # 0 /\ (k + 1) - 1 = k
    BY <1>1
  <2> HIDE DEF n
  <2> QED BY <1>4, <2>1
<1>6. P(0)
  BY <1>5, NothingPacked
<1>7. ASSUME NEW k \in 0..(n - 1), P(k) PROVE P(k + 1)
  BY <1>1, <1>5, <1>7, PacksOneMore
<1> HIDE DEF P
<1>8. CASE M # {}
  <2>1. PICK m \in M : \A k \in M : m <= k
    BY <1>1, <1>8, Least, M \subseteq Nat
  <2>2. m # 0
    BY <1>6, <2>1
  <2>3. m - 1 \in 0..(n - 1) /\ m - 1 \in 0..n /\ (m - 1) + 1 = m /\ ~(m <= m - 1)
    BY <1>1, <2>1, <2>2
  <2>4. P(m - 1)
    BY <2>1, <2>3
  <2>5. P(m - 1 + 1)
    BY <1>7, <2>3, <2>4
  <2> QED BY <2>1, <2>3, <2>5
<1>9. CASE M = {}
  BY <1>1, <1>3, <1>9 DEF P
<1> QED BY <1>8, <1>9

\* A sum of which one term is zero, and the sum with that term.
LEMMA OneTermMore ==
  ASSUME NEW N \in Nat, NEW j \in 0..(N - 1), NEW f, NEW g,
         \A k \in 0..(N - 1) : f[k] \in Int /\ g[k] \in Int,
         g[j] = 0, \A k \in 0..(N - 1) : k # j => f[k] = g[k]
  PROVE  SumUpTo(f, N) = SumUpTo(g, N) + f[j]
<1> DEFINE P(n) == SumUpTo(f, n) = SumUpTo(g, n) + IF n <= j THEN 0 ELSE f[j]
           T == {n \in 0..N : ~P(n)}
<1>1. /\ SumUpTo(f, 0) = 0 /\ SumUpTo(g, 0) = 0
      /\ \A n \in 0..(N - 1) : /\ SumUpTo(f, n + 1) = SumUpTo(f, n) + f[n]
                               /\ SumUpTo(g, n + 1) = SumUpTo(g, n) + g[n]
      /\ \A n \in 0..N : SumUpTo(f, n) \in Int /\ SumUpTo(g, n) \in Int
  BY SumsUpTo
<1>2. ASSUME NEW n \in 0..(N - 1), P(n) PROVE P(n + 1)
  <2>1. /\ SumUpTo(f, n + 1) = SumUpTo(f, n) + f[n] /\ SumUpTo(g, n + 1) = SumUpTo(g, n) + g[n]
        /\ SumUpTo(f, n) \in Int /\ SumUpTo(g, n) \in Int /\ f[n] \in Int /\ g[n] \in Int
        /\ n \in 0..N
    BY <1>1
  <2>2. CASE n = j
    BY <1>2, <2>1, <2>2
  <2>3. CASE n # j
    BY <1>2, <2>1, <2>3
  <2> QED BY <2>2, <2>3
<1>3. P(0)
  BY <1>1
<1>4. P(N) => SumUpTo(f, N) = SumUpTo(g, N) + f[j]
  <2>1. ~(N <= j)
    OBVIOUS
  <2> QED BY <2>1
<1> HIDE DEF P
<1>5. CASE T # {}
  <2>1. PICK m \in T : \A y \in T : m <= y
    BY <1>5, Least, T \subseteq Nat
  <2>2. m # 0
    BY <1>3, <2>1
  <2>3. m - 1 \in 0..(N - 1) /\ m - 1 \in 0..N /\ (m - 1) + 1 = m /\ ~(m <= m - 1)
    BY <2>1, <2>2
  <2>4. P(m - 1)
    BY <2>1, <2>3
  <2>5. P(m - 1 + 1)
    BY <1>2, <2>3, <2>4
  <2> QED BY <2>1, <2>3, <2>5
<1>6. CASE T = {}
  BY <1>4, <1>6, N \in 0..N
<1> QED BY <1>5, <1>6

\* The last party gets what is missing.
LEMMA MissingIs ==
  ASSUME NEW y \in Int, NEW a \in Field
  PROVE  F(y - F(y - a)) = a
<1>1. a \in Int /\ F(a) = a
  BY FieldElements
<1>2. PICK d \in Int : F(y - a) = (y - a) + Q * d
  BY <1>1, Normalises
<1>3. Q \in Int /\ -d \in Int /\ Q * d \in Int /\ Q * (-d) = -(Q * d)
  BY FieldAssumption
<1>4. y - F(y - a) = a + Q * (-d) /\ y - F(y - a) \in Int
  BY <1>1, <1>2, <1>3
<1> QED BY <1>1, <1>3, <1>4, Remainder

\* A uniform value that gives any witness the same plain broadcast.
LEMMA UniformFor ==
  ASSUME NEW ch \in Challenge, NEW k \in Keys, NEW w \in Field, NEW alpha \in Field
  PROVE  \E u \in Field :
           /\ Opens(alpha, ch.eps * ch.gamma, k.A, w, u)
           /\ Alpha(ch, [wit |-> w, unif |-> u, corr |-> 0], KeyInstance(k)) = alpha
<1> DEFINE m == ch.eps * ch.gamma * k.A * w
           u == F(alpha - m)
<1>1. ch.eps \in Int /\ ch.gamma \in Int /\ k.A \in Int /\ w \in Int /\ alpha \in Int /\ F(alpha) = alpha
  BY KeyInField, FieldElements DEF Challenge
<1>2. m \in Int
  BY <1>1
<1>3. Alpha(ch, [wit |-> w, unif |-> u, corr |-> 0], KeyInstance(k)) = F(m + u)
  BY KeyInField DEF Alpha
<1>4. Opens(alpha, ch.eps * ch.gamma, k.A, w, u) = (F(alpha) = F(m + u))
  BY DEF Opens
<1> HIDE DEF m
<1>5. u \in Field /\ u \in Int
  BY <1>1, <1>2, NormalForm
<1>6. F(u + m) = F((alpha - m) + m)
  BY <1>1, <1>2, SumNormalises
<1>7. u + m = m + u /\ (alpha - m) + m = alpha
  BY <1>1, <1>2, <1>5
<1> QED BY <1>1, <1>3, <1>4, <1>5, <1>6, <1>7

\* The packs a verifier could make of any shares.
LEMMA OpenPacksExist ==
  ASSUME NEW b \in Builds, NEW h \in 0..(b.parties - 1),
         NEW shares \in [0..(b.parties - 1) -> Share]
  PROVE  \E opened : HoldOpen(b, h, shares, opened, b.parties)
<1> DEFINE N == b.parties
           part(p, c) == F(SumUpTo(OpenTerms(b, h, p, shares, c), N))
           opened == [p \in Packs(b) |-> [wit |-> part(p, "wit"), unif |-> part(p, "unif"),
                                          corr |-> part(p, "corr")]]
<1>1. N \in Nat /\ WellFormed(b)
  BY BuildNumbers, BuildsAssumption
<1>2. ASSUME NEW p \in Packs(b), NEW c \in Parts PROVE part(p, c) \in Field
  <2>1. \A k \in 0..(N - 1) : OpenTerms(b, h, p, shares, c)[k] \in Int
    BY <1>1, TermsAreNumbers
  <2>2. SumUpTo(OpenTerms(b, h, p, shares, c), N) \in Int
    BY <1>1, <2>1, N \in 0..N, SumsUpTo
  <2> QED BY <2>2, NormalForm
<1> HIDE DEF part
<1>3. opened \in [Packs(b) -> Share]
  BY <1>2 DEF Parts, Share
<1>4. \A p \in Packs(b), c \in Parts : opened[p][c] = part(p, c)
  BY DEF Parts
<1> HIDE DEF opened
<1>5. HoldOpen(b, h, shares, opened, b.parties)
  BY <1>3, <1>4 DEF HoldOpen, part
<1> QED BY <1>5

\* A sharing and its packs, that broadcast alpha together.
Broadcasts(b, k, ch, alpha, s, pk) ==
  /\ s \in [0..(b.parties - 1) -> Share] /\ HoldPacks(b, s, pk, b.parties)
  /\ TotalIs(Emulated(ch, k, alpha), b, s, alpha)
SameButFor(b, h, s, t) == \A p \in 0..(b.parties - 1) : p # h => s[p] = t[p]

\* The share of the hidden party does not matter to the broadcasts, when what is broadcast
\* together is the same.
LEMMA HiddenShareIsFree ==
  ASSUME NEW b \in Builds, NEW k \in Keys, NEW ch \in Challenge, NEW alpha \in Field,
         NEW h \in 0..(b.parties - 1), NEW s, NEW t, NEW sp, NEW tp,
         SameButFor(b, h, s, t), Broadcasts(b, k, ch, alpha, s, sp), Broadcasts(b, k, ch, alpha, t, tp)
  PROVE  BroadcastOf(b, ch, k, alpha, sp) = BroadcastOf(b, ch, k, alpha, tp)
<1> USE DEF Broadcasts, SameButFor
<1> DEFINE kk == Emulated(ch, k, alpha)
<1>1. PICK opened : HoldOpen(b, h, s, opened, b.parties)
  BY OpenPacksExist
<1>2. HoldOpen(b, h, t, opened, b.parties)
  <2>1. \A p \in Packs(b), c \in Parts : OpenTerms(b, h, p, s, c) = OpenTerms(b, h, p, t, c)
    BY DEF OpenTerms
  <2> QED BY <1>1, <2>1 DEF HoldOpen
<1>3. Execution(b, s, h, sp, opened) /\ Execution(b, t, h, tp, opened)
  BY <1>1, <1>2, BuildsAssumption DEF Execution
<1>4. ASSUME NEW v \in Share
      PROVE  kk \in Coefficients /\ Broadcast(ch, v, alpha, KeyInstance(k), FALSE) = Affine(kk, v, FALSE)
  <2>1. KeyInstance(k) \in [A : Field, b : Field, y : Field]
    BY KeyInField
  <2>2. kk = FiveRounds(ch.eps * ch.gamma, KeyInstance(k).A, KeyInstance(k).b, KeyInstance(k).y, alpha)
    BY KeyInField DEF Emulated
  <2> HIDE DEF kk
  <2> QED BY <2>1, <2>2, BroadcastIsAffine
<1>5. kk \in Coefficients
  BY <1>4, ZeroIsShare
<1> HIDE DEF kk
<1>6. SignersBroadcast(kk, b, sp) = SignersBroadcast(kk, b, tp)
  <2>1. TotalIs(kk, b, s, alpha) /\ TotalIs(kk, b, t, alpha)
    BY DEF kk
  <2>2. Recomposed(b, h, VerifiersBroadcast(kk, b, h, opened), PlainBroadcast(alpha))
          = SignersBroadcast(kk, b, sp)
    BY <1>3, <1>5, <2>1, RecomposedIsSigners
  <2>3. Recomposed(b, h, VerifiersBroadcast(kk, b, h, opened), PlainBroadcast(alpha))
          = SignersBroadcast(kk, b, tp)
    BY <1>3, <1>5, <2>1, RecomposedIsSigners
  <2> QED BY <2>2, <2>3
<1>7. \A p \in Packs(b) : sp[p] \in Share /\ tp[p] \in Share
  BY DEF HoldPacks
<1>8. BroadcastOf(b, ch, k, alpha, sp) = SignersBroadcast(kk, b, sp)
  BY <1>4, <1>7 DEF SignersBroadcast, BroadcastOf
<1>9. BroadcastOf(b, ch, k, alpha, tp) = SignersBroadcast(kk, b, tp)
  BY <1>4, <1>7 DEF SignersBroadcast, BroadcastOf
<1> QED BY <1>6, <1>8, <1>9

\* The shares that a signature opens, with another of the hidden party.
WithHidden(x, h, s) == [p \in Parties |-> IF p = h THEN s ELSE Expand(root, x, p)]

LEMMA HiddenShares ==
  ASSUME build \in Builds, root \in Roots, NEW x \in Execs, NEW h \in Parties, NEW s \in Share
  PROVE  /\ WithHidden(x, h, s) \in [Parties -> Share]
         /\ WithHidden(x, h, s)[h] = s
         /\ \A p \in Parties : p # h => WithHidden(x, h, s)[p] = Expand(root, x, p)
BY SharesExpanded DEF WithHidden, Execs, Parties

\* What the accumulator holds, from what it holds when the hidden party has nothing.
LEMMA SumsWithHidden ==
  ASSUME build \in Builds, root \in Roots, NEW x \in Execs, NEW h \in Parties, NEW s \in Share,
         NEW c \in Parts
  PROVE  LET R == SumUpTo(PartOf(WithHidden(x, h, ZeroShare), c), Last)
         IN  /\ R \in Int
             /\ Summed(WithHidden(x, h, s))[c] = F(IF h = Last THEN R ELSE R + s[c])
<1> DEFINE f == PartOf(WithHidden(x, h, s), c)
           g == PartOf(WithHidden(x, h, ZeroShare), c)
<1>1. /\ Last \in Nat /\ (h # Last => h \in 0..(Last - 1))
      /\ \A p \in 0..(Last - 1) : p \in Parties /\ p # Last
  BY BuildNumbers DEF Last, Parties
<1>2. ASSUME NEW v \in Share
      PROVE  /\ PartOf(WithHidden(x, h, v), c)[h] = v[c]
             /\ \A p \in Parties : /\ PartOf(WithHidden(x, h, v), c)[p] \in Int
                                   /\ p # h => PartOf(WithHidden(x, h, v), c)[p] = Expand(root, x, p)[c]
  <2> DEFINE sh == WithHidden(x, h, v)
  <2>1. sh \in [Parties -> Share] /\ sh[h] = v /\ \A p \in Parties : p # h => sh[p] = Expand(root, x, p)
    BY <1>2, HiddenShares
  <2> HIDE DEF sh
  <2>2. \A p \in Parties : sh[p][c] \in Int
    BY <2>1, SumOfTwo
  <2>3. \A p \in Parties : PartOf(sh, c)[p] = sh[p][c]
    BY <2>1 DEF PartOf
  <2> QED BY <2>1, <2>2, <2>3 DEF sh
<1>3. /\ \A p \in Parties : f[p] \in Int /\ g[p] \in Int /\ (p # h => f[p] = g[p])
      /\ f[h] = s[c] /\ g[h] = 0
  <2>1. ZeroShare \in Share /\ ZeroShare[c] = 0
    BY ZeroIsShare DEF ZeroShare, Parts
  <2> QED BY <1>2, <2>1
<1>4. /\ Summed(WithHidden(x, h, s))[c] = F(SumUpTo(f, Last)) /\ SumUpTo(g, Last) \in Int
  BY HiddenShares, SummedShares, ZeroIsShare
<1> HIDE DEF f, g
<1>5. CASE h = Last
  <2>1. \A p \in 0..(Last - 1) : f[p] = g[p]
    BY <1>1, <1>3, <1>5
  <2>2. SumUpTo(f, Last) = SumUpTo(g, Last)
    BY <2>1, SumsAgree
  <2> QED BY <1>4, <1>5, <2>2 DEF g
<1>6. CASE h # Last
  <2>1. SumUpTo(f, Last) = SumUpTo(g, Last) + f[h]
    BY <1>1, <1>3, <1>6, OneTermMore
  <2> QED BY <1>3, <1>4, <1>6, <2>1 DEF g
<1> QED BY <1>5, <1>6

\* A share of the hidden party that gives the last party what it was sent, and the
\* execution the uniform value u.
Explains(x, h, w, u, a, s) ==
  LET share == WithHidden(x, h, s)
      sum   == Summed(share)
  IN  /\ F(share[Last].unif + sum.unif) = u
      /\ h # Last => F(w - sum.wit) = a.wit /\ F(Correlated(w, u) - sum.corr) = a.corr

LEMMA SomeShareExplains ==
  ASSUME build \in Builds, root \in Roots, NEW x \in Execs, NEW h \in Parties,
         NEW w \in Field, NEW u \in Field, NEW a \in Given
  PROVE  \E s \in Share : Explains(x, h, w, u, a, s)
<1> DEFINE R(c) == SumUpTo(PartOf(WithHidden(x, h, ZeroShare), c), Last)
           E == Expand(root, x, Last).unif
           C == Correlated(w, u)
<1>1. Last \in Parties /\ "wit" \in Parts /\ "unif" \in Parts /\ "corr" \in Parts
  BY BuildNumbers DEF Last, Parties, Parts
<1>2. R("wit") \in Int /\ R("unif") \in Int /\ R("corr") \in Int
  BY <1>1, SumsWithHidden, ZeroIsShare
<1>3. E \in Field /\ E \in Int
  <2>1. Expand(root, x, Last) \in Share
    BY <1>1, SharesExpanded DEF Execs, Parties
  <2> QED BY <2>1, FieldElements DEF Share
<1>4. /\ w \in Int /\ u \in Int /\ F(u) = u /\ a.wit \in Field /\ a.corr \in Field
      /\ a.wit \in Int /\ a.corr \in Int
  BY FieldElements DEF Given
<1>5. C \in Field /\ C \in Int
  <2>1. -(w * u) \in Int
    BY <1>4
  <2> QED BY <2>1, NormalForm DEF Correlated
<1> DEFINE t(c) == CASE c = "wit" -> w - a.wit
                     [] c = "corr" -> C - a.corr
                     [] OTHER -> IF h = Last THEN u ELSE u - E
           s == [wit |-> F(t("wit") - F(R("wit"))), unif |-> F(t("unif") - F(R("unif"))),
                 corr |-> F(t("corr") - F(R("corr")))]
<1>6. ASSUME NEW c \in Parts PROVE t(c) \in Int /\ R(c) \in Int
  BY <1>2, <1>3, <1>4, <1>5 DEF Parts
<1>7. /\ t("wit") = w - a.wit /\ t("corr") = C - a.corr
      /\ t("unif") = IF h = Last THEN u ELSE u - E
  OBVIOUS
<1> HIDE DEF t, R, C, E
<1>8. ASSUME NEW c \in Parts
      PROVE  F(t(c) - F(R(c))) \in Field /\ F(R(c) + F(t(c) - F(R(c)))) = F(t(c))
  <2>1. F(R(c)) \in Int /\ t(c) \in Int /\ R(c) \in Int
    BY <1>6, NormalForm
  <2>2. t(c) - F(R(c)) \in Int
    BY <2>1
  <2> QED BY <2>1, <2>2, NormalForm, DifferenceNormalises
<1>9. s \in Share /\ \A c \in Parts : s[c] = F(t(c) - F(R(c)))
  BY <1>8 DEF Share, Parts
<1> HIDE DEF s
<1> DEFINE share == WithHidden(x, h, s)
           sum == Summed(share)
<1>10. \A c \in Parts : sum[c] = F(IF h = Last THEN R(c) ELSE R(c) + s[c])
  BY <1>9, SumsWithHidden DEF R
<1>11. share[Last] = IF h = Last THEN s ELSE Expand(root, x, Last)
  BY <1>1 DEF WithHidden
<1> HIDE DEF share, sum
<1>12. CASE h = Last
  <2>1. sum.unif = F(R("unif")) /\ share[Last].unif = F(u - F(R("unif")))
    BY <1>1, <1>7, <1>9, <1>10, <1>11, <1>12
  <2>2. F(R("unif")) \in Int
    BY <1>2, NormalForm DEF R
  <2>3. F(F(u - F(R("unif"))) + F(R("unif"))) = F((u - F(R("unif"))) + F(R("unif")))
    BY <1>4, <2>2, SumNormalises
  <2>4. (u - F(R("unif"))) + F(R("unif")) = u
    BY <1>4, <2>2
  <2>5. F(share[Last].unif + sum.unif) = u
    BY <1>4, <2>1, <2>3, <2>4
  <2> QED BY <1>9, <1>12, <2>5 DEF Explains, share, sum
<1>13. CASE h # Last
  <2>1. \A c \in Parts : sum[c] = F(t(c))
    BY <1>8, <1>9, <1>10, <1>13
  <2>2. F(w - sum.wit) = a.wit /\ F(C - sum.corr) = a.corr
    <3>1. sum.wit = F(w - a.wit) /\ sum.corr = F(C - a.corr)
      BY <1>1, <1>7, <2>1
    <3>2. F(w - F(w - a.wit)) = a.wit /\ F(C - F(C - a.corr)) = a.corr
      BY <1>4, <1>5, MissingIs
    <3> QED BY <3>1, <3>2
  <2>3. share[Last].unif = E /\ sum.unif = F(u - E)
    BY <1>1, <1>7, <1>11, <1>13, <2>1 DEF E
  <2>4. F(F(u - E) + E) = F((u - E) + E) /\ (u - E) + E = u
    BY <1>3, <1>4, SumNormalises
  <2>5. F(u - E) \in Int
    BY <1>3, <1>4, NormalForm
  <2>6. F(share[Last].unif + sum.unif) = u
    BY <1>3, <1>4, <2>3, <2>4, <2>5
  <2> QED BY <1>9, <2>2, <2>6 DEF Explains, share, sum, C
<1> QED BY <1>12, <1>13

\* The shares of the parties in a rerun, that of the last one included.
Completed(share, a) ==
  [share EXCEPT ![Last] = [wit |-> a.wit, unif |-> @.unif, corr |-> a.corr]]

LEMMA CompletedShares ==
  ASSUME build \in Builds, NEW share \in [Parties -> Share], NEW a \in Given
  PROVE  /\ Completed(share, a) \in [Parties -> Share]
         /\ \A p \in Parties : p # Last => Completed(share, a)[p] = share[p]
         /\ Completed(share, a)[Last] = [wit |-> a.wit, unif |-> share[Last].unif, corr |-> a.corr]
<1>1. Last \in Parties
  BY BuildNumbers DEF Last, Parties
<1>2. [wit |-> a.wit, unif |-> share[Last].unif, corr |-> a.corr] \in Share
  BY <1>1 DEF Given, Share
<1> QED BY <1>1, <1>2 DEF Completed

\* Their sums.
LEMMA CompletedSums ==
  ASSUME build \in Builds, NEW share \in [Parties -> Share], NEW a \in Given, NEW c \in Parts
  PROVE  /\ SumUpTo(PartOf(Completed(share, a), c), build.parties)
              = SumUpTo(PartOf(share, c), Last) + Completed(share, a)[Last][c]
         /\ SumUpTo(PartOf(share, c), Last) \in Int
         /\ Completed(share, a)[Last][c] \in Int
<1> DEFINE all == Completed(share, a)
           f == PartOf(all, c)
           g == PartOf(share, c)
           N == build.parties
<1>1. /\ N \in Nat /\ Last \in 0..(N - 1) /\ Last + 1 = N /\ Last \in Parties
      /\ \A p \in 0..(Last - 1) : p \in Parties /\ p # Last
      /\ \A p \in 0..(N - 1) : p \in Parties
  BY BuildNumbers DEF Last, Parties
<1>2. /\ all \in [Parties -> Share] /\ \A p \in Parties : p # Last => all[p] = share[p]
  BY CompletedShares
<1> HIDE DEF all
<1>3. \A p \in Parties : f[p] = all[p][c] /\ g[p] = share[p][c] /\ all[p][c] \in Int
  <2>1. \A p \in Parties : all[p][c] \in Int
    BY <1>2, SumOfTwo
  <2> QED BY <1>2, <2>1 DEF PartOf
<1>4. SumUpTo(g, Last) \in Int
  BY SummedShares
<1> HIDE DEF f, g, N
<1>5. SumUpTo(f, Last) = SumUpTo(g, Last)
  <2>1. \A p \in 0..(Last - 1) : f[p] = g[p]
    BY <1>1, <1>2, <1>3
  <2> QED BY <2>1, SumsAgree
<1>6. SumUpTo(f, Last + 1) = SumUpTo(f, Last) + f[Last]
  BY <1>1, <1>3, SumsUpTo
<1> QED BY <1>1, <1>3, <1>4, <1>5, <1>6 DEF all, f, g, N

\* The shares of a rerun add up to the witness and to a correlated pair.
LEMMA RerunTotals ==
  ASSUME build \in Builds, NEW share \in [Parties -> Share], NEW w \in Field, NEW u \in Field,
         NEW C \in Field, NEW a,
         a = [wit |-> F(w - Summed(share).wit), corr |-> F(C - Summed(share).corr)],
         u = F(share[Last].unif + Summed(share).unif)
  PROVE  /\ a \in Given
         /\ F(SumUpTo(PartOf(Completed(share, a), "wit"), build.parties)) = w
         /\ F(SumUpTo(PartOf(Completed(share, a), "unif"), build.parties)) = u
         /\ F(SumUpTo(PartOf(Completed(share, a), "corr"), build.parties)) = C
<1> DEFINE S(c) == SumUpTo(PartOf(share, c), Last)
           all == Completed(share, a)
           T(c) == SumUpTo(PartOf(all, c), build.parties)
<1>1. "wit" \in Parts /\ "unif" \in Parts /\ "corr" \in Parts /\ Last \in Parties
  BY BuildNumbers DEF Last, Parties, Parts
<1>2. \A c \in Parts : S(c) \in Int /\ Summed(share)[c] = F(S(c)) /\ F(S(c)) \in Int
  BY SummedShares, NormalForm
<1>3. w \in Int /\ F(w) = w /\ C \in Int /\ F(C) = C
  BY FieldElements
<1>4. a \in Given
  <2>1. w - F(S("wit")) \in Int /\ C - F(S("corr")) \in Int
    BY <1>1, <1>2, <1>3
  <2> HIDE DEF S
  <2> QED BY <1>1, <1>2, <2>1, NormalForm DEF Given
<1>5. /\ all[Last].wit = F(w - F(S("wit"))) /\ all[Last].corr = F(C - F(S("corr")))
      /\ all[Last].unif = share[Last].unif
  <2>1. all[Last] = [wit |-> a.wit, unif |-> share[Last].unif, corr |-> a.corr]
    BY <1>4, CompletedShares
  <2>2. Summed(share).wit = F(S("wit")) /\ Summed(share).corr = F(S("corr"))
    BY <1>1, <1>2
  <2> HIDE DEF all, S
  <2> QED BY <2>1, <2>2
<1>6. \A c \in Parts : T(c) = S(c) + all[Last][c]
  BY <1>4, CompletedSums
<1>7. share[Last].unif \in Int
  BY <1>1, SumOfTwo
<1> HIDE DEF S, T, all
<1>8. F(T("wit")) = w
  <2>1. F(S("wit") + F(w - F(S("wit")))) = F(w)
    BY <1>1, <1>2, <1>3, DifferenceNormalises
  <2> QED BY <1>1, <1>3, <1>5, <1>6, <2>1
<1>9. F(T("corr")) = C
  <2>1. F(S("corr") + F(C - F(S("corr")))) = F(C)
    BY <1>1, <1>2, <1>3, DifferenceNormalises
  <2> QED BY <1>1, <1>3, <1>5, <1>6, <2>1
<1>10. F(T("unif")) = u
  <2>1. F(F(S("unif")) + share[Last].unif) = F(S("unif") + share[Last].unif)
    BY <1>1, <1>2, <1>7, SumNormalises
  <2>2. u = F(share[Last].unif + F(S("unif")))
    BY <1>1, <1>2
  <2>3. share[Last].unif + F(S("unif")) = F(S("unif")) + share[Last].unif
    BY <1>1, <1>2, <1>7
  <2> QED BY <1>1, <1>5, <1>6, <2>1, <2>2, <2>3
<1> QED BY <1>4, <1>8, <1>9, <1>10 DEF T, all

\* What a rerun yields, when the path opens all the parties but h.
RerunWith(x, w, share, u, a, alpha) ==
  /\ u = F(share[Last].unif + Summed(share).unif)
  /\ a = [wit |-> F(w - Summed(share).wit), corr |-> F(Correlated(w, u) - Summed(share).corr)]
  /\ alpha = Alpha(challenges[x], [wit |-> w, unif |-> u, corr |-> 0], KeyInstance(key))

LEMMA RerunIs ==
  ASSUME NEW x \in Execs, NEW h \in Parties, LeavesOf(sig.proofs[x].path) = Parties \ {h},
         NEW w, NEW s, NEW u, NEW a, NEW alpha, RerunWith(x, w, WithHidden(x, h, s), u, a, alpha)
  PROVE  Rerun(x, w, s)
           = [alpha |-> alpha, aux |-> a,
              br |-> BroadcastOf(build, challenges[x], key, alpha,
                                 PackedAll(Completed(WithHidden(x, h, s), a)))]
<1> DEFINE share == [p \in Parties |->
                       IF p \in LeavesOf(sig.proofs[x].path) THEN Expand(root, x, p) ELSE s]
           sum == Summed(share)
           unif == F(share[Last].unif + sum.unif)
           last == [wit |-> Aux(w, sum.wit), corr |-> Aux(Correlated(w, unif), sum.corr)]
           packed == PackedAll([share EXCEPT ![Last] =
                       [wit |-> last.wit, unif |-> @.unif, corr |-> last.corr]])
           al == Alpha(challenges[x], [wit |-> w, unif |-> unif, corr |-> 0], inst)
<1>1. Rerun(x, w, s)
        = [alpha |-> al, aux |-> last,
           br |-> [p \in Packs(build) |-> Broadcast(challenges[x], packed[p], al, inst, FALSE)]]
  BY Zenon DEF Rerun
<1>2. share = WithHidden(x, h, s)
  BY DEF WithHidden
<1>3. inst = KeyInstance(key)
  BY DEF inst, KeyInstance
<1> HIDE DEF share
<1>4. unif = u
  BY <1>2 DEF RerunWith
<1>5. last = a
  <2>1. last = [wit |-> F(w - sum.wit), corr |-> F(Correlated(w, unif) - sum.corr)]
    BY DEF Aux
  <2> HIDE DEF last
  <2> QED BY <1>2, <1>4, <2>1 DEF RerunWith
<1> HIDE DEF last, unif
<1>6. packed = PackedAll(Completed(share, a))
  BY <1>5 DEF Completed
<1>7. al = alpha
  BY <1>3, <1>4 DEF RerunWith
<1> HIDE DEF packed, al
<1> QED BY <1>1, <1>2, <1>3, <1>5, <1>6, <1>7 DEF BroadcastOf

\* A signature that is sent, and what is known of it.
LEMMA SentExecution ==
  ASSUME TranscriptInv, pc = "sent", NEW x \in Execs
  PROVE  /\ build \in Builds /\ root \in Roots /\ key \in Keys /\ hidden[x] \in Parties
         /\ aux[x] \in Given /\ plain[x].unif \in Field /\ challenges[x] \in Challenge
         /\ LeavesOf(sig.proofs[x].path) = Parties \ {hidden[x]}
         /\ sig.proofs[x].alpha = alphas[x]
         /\ sig.proofs[x].aux = IF hidden[x] = Last THEN NoHash ELSE aux[x]
         /\ sig.viewHash.br[x] = BroadcastOf(build, challenges[x], key, alphas[x], packs[x])
         /\ alphas[x] = PlainAlpha(challenges[x], key, plain[x].unif) /\ alphas[x] \in Field
         /\ HoldPacks(build, SharesOf(build, root, x, aux[x]), packs[x], build.parties)
         /\ TotalIs(Emulated(challenges[x], key, alphas[x]), build,
                    SharesOf(build, root, x, aux[x]), alphas[x])
<1> USE DEF TranscriptInv
<1>1. build \in Builds /\ root \in Roots /\ key \in Keys /\ hidden \in [Execs -> Parties]
  BY DEF SignerInv, ShareInv, HiddenInv, BeforeViews
<1>2. aux[x] \in Given /\ plain[x].unif \in Field
  BY DEF SignerInv, ShareInv, Given
<1>3. pc \notin {"share", "challenge", "simulate"} /\ pc \notin Signing /\ Shared = Execs
  BY DEF Signing, Shared
<1>4. /\ challenges \in [Execs -> Challenge] /\ sig = Sent
      /\ alphas = [z \in Execs |-> PlainAlpha(challenges[z], key, plain[z].unif)]
      /\ br = [z \in Execs |-> [p \in Packs(build) |->
                 Broadcast(challenges[z], packs[z][p], alphas[z], KeyInstance(key), FALSE)]]
  BY <1>3 DEF EmulInv
<1>5. sig.proofs[x] = SentProof(x) /\ sig.viewHash.br = br
  BY <1>4 DEF Sent, ViewHash
<1>6. LeavesOf(PathNodes(hidden[x])) = Parties \ {hidden[x]}
  BY <1>1, PathOpensOthers
<1>7. /\ LeavesOf(sig.proofs[x].path) = Parties \ {hidden[x]}
      /\ sig.proofs[x].alpha = alphas[x]
      /\ sig.proofs[x].aux = IF hidden[x] = Last THEN NoHash ELSE aux[x]
  BY <1>5, <1>6 DEF SentProof, AuxSent
<1>8. sig.viewHash.br[x] = BroadcastOf(build, challenges[x], key, alphas[x], packs[x])
  BY <1>4, <1>5 DEF BroadcastOf
<1>9. alphas[x] = PlainAlpha(challenges[x], key, plain[x].unif) /\ alphas[x] \in Field
  BY <1>1, <1>2, <1>4, PlainAlphaIs
<1>10. HoldPacks(build, SharesOf(build, root, x, aux[x]), packs[x], build.parties)
  BY <1>3 DEF PackInv, HeldNow, Held
<1>11. Complete(build, root, x, key, aux[x], plain[x])
  BY <1>3 DEF SignerInv, ShareInv, Complete, Last
<1>12. TotalIs(Emulated(challenges[x], key, alphas[x]), build,
               SharesOf(build, root, x, aux[x]), alphas[x])
  BY <1>1, <1>2, <1>4, <1>9, <1>11, PlainIsTotal DEF Execs
<1> QED BY <1>1, <1>2, <1>4, <1>7, <1>8, <1>9, <1>10, <1>12

\* A solution explains an execution, by some share of the hidden party.
LEMMA SolutionExplains ==
  ASSUME TranscriptInv, pc = "sent", NEW x \in Execs, NEW w \in Field,
         F(key.A * w * w + key.b * w) = inst.y
  PROVE  \E s \in Share :
           /\ Rerun(x, w, s).alpha = sig.proofs[x].alpha
           /\ Rerun(x, w, s).br = sig.viewHash.br[x]
           /\ sig.proofs[x].aux \in {NoHash, Rerun(x, w, s).aux}
<1> DEFINE h == hidden[x]
           ch == challenges[x]
           alpha == alphas[x]
           old == SharesOf(build, root, x, aux[x])
<1>1. /\ build \in Builds /\ root \in Roots /\ key \in Keys /\ h \in Parties
      /\ aux[x] \in Given /\ ch \in Challenge /\ alpha \in Field
      /\ LeavesOf(sig.proofs[x].path) = Parties \ {h}
      /\ sig.proofs[x].alpha = alpha
      /\ sig.proofs[x].aux = IF h = Last THEN NoHash ELSE aux[x]
      /\ sig.viewHash.br[x] = BroadcastOf(build, ch, key, alpha, packs[x])
      /\ HoldPacks(build, old, packs[x], build.parties)
      /\ TotalIs(Emulated(ch, key, alpha), build, old, alpha)
  BY SentExecution
<1>2. PICK u \in Field :
        /\ Opens(alpha, ch.eps * ch.gamma, key.A, w, u)
        /\ Alpha(ch, [wit |-> w, unif |-> u, corr |-> 0], KeyInstance(key)) = alpha
  BY <1>1, UniformFor
<1>3. PICK s \in Share : Explains(x, h, w, u, aux[x], s)
  BY <1>1, SomeShareExplains
<1> DEFINE share == WithHidden(x, h, s)
           C == Correlated(w, u)
           a == [wit |-> F(w - Summed(share).wit), corr |-> F(C - Summed(share).corr)]
           all == Completed(share, a)
<1> HIDE DEF h, ch, alpha, old
<1>4. share \in [Parties -> Share] /\ \A p \in Parties : p # h => share[p] = Expand(root, x, p)
  BY <1>1, HiddenShares
<1>5. /\ u = F(share[Last].unif + Summed(share).unif)
      /\ h # Last => a.wit = aux[x].wit /\ a.corr = aux[x].corr
  BY <1>3 DEF Explains
<1>6. C \in Field /\ C = F(-(w * u))
  <2>1. w \in Int /\ u \in Int /\ -(w * u) \in Int
    BY FieldElements
  <2> QED BY <2>1, NormalForm DEF Correlated
<1>7. RerunWith(x, w, share, u, a, alpha)
  BY <1>2, <1>5 DEF RerunWith, ch
<1> HIDE DEF C
<1>8. /\ a \in Given
      /\ F(SumUpTo(PartOf(all, "wit"), build.parties)) = w
      /\ F(SumUpTo(PartOf(all, "unif"), build.parties)) = u
      /\ F(SumUpTo(PartOf(all, "corr"), build.parties)) = C
  <2> HIDE DEF share
  <2> QED BY <1>1, <1>4, <1>5, <1>6, RerunTotals
<1>9. h # Last => a = aux[x]
  <2>1. aux[x] = [wit |-> aux[x].wit, corr |-> aux[x].corr]
    BY <1>1 DEF Given
  <2>2. a = [wit |-> a.wit, corr |-> a.corr]
    OBVIOUS
  <2> HIDE DEF a
  <2> QED BY <1>5, <2>1, <2>2
<1>10. Rerun(x, w, s)
        = [alpha |-> alpha, aux |-> a,
           br |-> BroadcastOf(build, ch, key, alpha, PackedAll(all))]
  BY <1>1, <1>7, RerunIs DEF ch
<1> HIDE DEF a, share
<1>11. /\ all \in [Parties -> Share] /\ \A p \in Parties : p # Last => all[p] = share[p]
       /\ all[Last] = [wit |-> a.wit, unif |-> share[Last].unif, corr |-> a.corr]
  BY <1>1, <1>4, <1>8, CompletedShares
<1> HIDE DEF all
<1>12. all \in [0..(build.parties - 1) -> Share] /\ old \in [0..(build.parties - 1) -> Share]
       /\ h \in 0..(build.parties - 1)
  BY <1>1, <1>11, SharesAreShares DEF Parties, Execs, old
<1>13. \A p \in 0..(build.parties - 1) : p # h => all[p] = old[p]
  <2> SUFFICES ASSUME NEW p \in Parties, p # h PROVE all[p] = old[p]
    BY DEF Parties
  <2>1. share[p] = Expand(root, x, p)
    BY <1>4
  <2>2. CASE p = Last
    <3>1. a = aux[x]
      BY <1>9, <2>2
    <3>2. old[p] = [wit |-> aux[x].wit, unif |-> Expand(root, x, p).unif, corr |-> aux[x].corr]
      BY <2>2 DEF old, SharesOf, Last, Parties
    <3> QED BY <1>11, <2>1, <2>2, <3>1, <3>2
  <2>3. CASE p # Last
    <3>1. old[p] = Expand(root, x, p)
      BY <2>3 DEF old, SharesOf, Last, Parties
    <3> QED BY <1>11, <2>1, <2>3, <3>1
  <2> QED BY <2>2, <2>3
<1>14. TotalIs(Emulated(ch, key, alpha), build, all, alpha)
  <2>1. Solves(w, key.A, key.b, KeyInstance(key).y)
    <3>1. KeyInstance(key).y \in Field /\ KeyInstance(key) = inst
      BY <1>1, KeyInField DEF KeyInstance, inst
    <3>2. F(KeyInstance(key).y) = KeyInstance(key).y
      BY <3>1, FieldElements
    <3> QED BY <3>1, <3>2 DEF Solves
  <2> QED BY <1>1, <1>2, <1>6, <1>8, <1>12, <2>1, SolutionIsTotal
<1>15. HoldPacks(build, all, PackedAll(all), build.parties)
  BY <1>1, <1>11, PackedShares
<1>16. BroadcastOf(build, ch, key, alpha, PackedAll(all)) = BroadcastOf(build, ch, key, alpha, packs[x])
  <2>1. Broadcasts(build, key, ch, alpha, all, PackedAll(all))
    BY <1>12, <1>14, <1>15 DEF Broadcasts
  <2>2. Broadcasts(build, key, ch, alpha, old, packs[x])
    BY <1>1, <1>12 DEF Broadcasts
  <2>3. build \in Builds /\ key \in Keys /\ ch \in Challenge /\ alpha \in Field
    BY <1>1
  <2>4. SameButFor(build, h, all, old)
    BY <1>13 DEF SameButFor
  <2> QED BY <1>12, <2>1, <2>2, <2>3, <2>4, HiddenShareIsFree
<1>17. sig.proofs[x].aux \in {NoHash, a}
  BY <1>1, <1>9
<1> QED BY <1>1, <1>10, <1>16, <1>17

\* For every build of the four packings, key, seed, challenge and hidden parties: what a
\* signature of mpcith_additive_based_sign shows of an execution is explained by every
\* solution of the equation of the public key, and so does not tell the signer's.  The
\* path that get_seed_path collects must open no more than all the leaves but the hidden
\* one, the share of the last party must stay out of the proof when it is hidden, and the
\* broadcasts that are hashed must be functions of the open shares and of what is
\* broadcast together.
THEOREM HidesWitness == Spec => []WitnessIndistinguishable
<1>1. TranscriptInv => WitnessIndistinguishable
  BY SolutionExplains DEF WitnessIndistinguishable
<1> QED BY <1>1, TranscriptInvariant, PTL

-----------------------------------------------------------------------------
(* The promise of a signature scheme.                                      *)

\* An accepted signature was not altered: the two digests bind each of its fields.
LEMMA AlteredIsRejected ==
  ASSUME TranscriptInv, ~genuine, pc = "compare"
  PROVE  ~SameHashes
<1> USE DEF TranscriptInv
<1> SUFFICES ASSUME SameHashes PROVE FALSE
  OBVIOUS
<1>1. pc \in Verifying /\ pc \notin Signing /\ pc \notin BeforeViews
      /\ pc \notin {"share", "challenge", "simulate"}
  BY DEF Verifying, Signing, BeforeViews
<1>2. /\ Parsed /\ Recomputed(build.execs)
      /\ \A x \in Execs, p \in Parties : Committed(x, p)
      /\ build \in Builds /\ hidden \in [Execs -> Parties]
  BY <1>1 DEF VerifierInv, PackInv, Shared, SignerInv, ShareInv, HiddenInv
<1>3. Altered
  BY <1>1 DEF GotInv
<1>4. /\ MpcHash(vcoms, got.sig.salt, got.msg) = got.sig.mpcHash
      /\ ViewHash(got.sig.mpcHash, vbr, GotAlphas, got.sig.salt, got.msg) = got.sig.viewHash
  BY DEF SameHashes, SameMpcHash, SameViewHash
<1>5. got.sig.mpcHash # ForgedHash /\ got.sig.viewHash # ForgedHash
  <2>1. \A c, s, m : "inst" \in DOMAIN MpcHash(c, s, m)
    BY DEF MpcHash
  <2>2. \A g, b, a, s, m : "br" \in DOMAIN ViewHash(g, b, a, s, m)
    BY DEF ViewHash
  <2>3. DOMAIN ForgedHash = {"forged"}
    BY DEF ForgedHash
  <2>4. "inst" \in DOMAIN got.sig.mpcHash /\ "br" \in DOMAIN got.sig.viewHash
    BY <1>4, <2>1, <2>2
  <2> QED BY <2>3, <2>4
<1>6. /\ got.sig.mpcHash = sig.mpcHash /\ got.sig.viewHash = sig.viewHash
      /\ \/ got.msg # "msg"
         \/ got.sig.salt # "salt"
         \/ got.sig.length # sig.length
         \/ \E x \in Execs : AlteredProof(x)
  BY <1>3, <1>5 DEF Altered
<1>7. /\ sig.mpcHash = MpcHash(coms, "salt", "msg")
      /\ sig.viewHash = ViewHash(MpcHash(coms, "salt", "msg"), br, alphas, "salt", "msg")
      /\ sig.length = LengthBuilt(hidden)
  BY <1>1 DEF EmulInv, Sent
<1>8. vcoms = coms /\ got.sig.salt = "salt" /\ got.msg = "msg"
  <2>1. /\ MpcHash(vcoms, got.sig.salt, got.msg).coms = MpcHash(coms, "salt", "msg").coms
        /\ MpcHash(vcoms, got.sig.salt, got.msg).salt = MpcHash(coms, "salt", "msg").salt
        /\ MpcHash(vcoms, got.sig.salt, got.msg).msg = MpcHash(coms, "salt", "msg").msg
    BY <1>4, <1>6, <1>7
  <2> QED BY <2>1 DEF MpcHash
<1>9. GotAlphas = alphas
  <2>1. ViewHash(got.sig.mpcHash, vbr, GotAlphas, got.sig.salt, got.msg).alphas
          = ViewHash(MpcHash(coms, "salt", "msg"), br, alphas, "salt", "msg").alphas
    BY <1>4, <1>6, <1>7
  <2> QED BY <2>1 DEF ViewHash
<1>10. vhidden = hidden /\ got.sig.length = LengthRequired(hidden)
  BY <1>2, <1>6 DEF Parsed
<1>11. got.sig.length = sig.length
  BY <1>2, <1>7, <1>10, LengthsAgree
<1>12. PICK x \in Execs : AlteredProof(x)
  BY <1>6, <1>8, <1>11
<1>13. hidden[x] \in Parties /\ x # -1 /\ Last \in Parties
  BY <1>2, BuildNumbers DEF Execs, Parties, Last
<1>14. ASSUME NEW p \in Parties
       PROVE  Commit(x, p, Seed(x, p), aux[x], "salt")
                = IF p = hidden[x] THEN got.sig.proofs[x].digest
                  ELSE Commit(x, p, Rebuilt(x, p), ParsedAux(x), "salt")
  <2>1. Recommitted(x, p) /\ Committed(x, p)
    BY <1>2, <1>12 DEF Recomputed, Execs
  <2> QED BY <1>8, <1>10, <2>1 DEF Recommitted, Committed
<1>15. \A p, sd, a : /\ Commit(x, p, sd, a, "salt").seed = sd
                     /\ Commit(x, p, sd, a, "salt").aux = IF p = Last THEN a ELSE NoAux
  BY DEF Commit
<1>16. CASE got.sig.proofs[x].digest = ForgedHash
  <2>1. Commit(x, hidden[x], Seed(x, hidden[x]), aux[x], "salt") = ForgedHash
    BY <1>13, <1>14, <1>16
  <2>2. "exec" \in DOMAIN Commit(x, hidden[x], Seed(x, hidden[x]), aux[x], "salt")
    BY DEF Commit
  <2>3. DOMAIN ForgedHash = {"forged"}
    BY DEF ForgedHash
  <2> QED BY <2>1, <2>2, <2>3
<1>17. CASE got.sig.proofs[x].alpha # alphas[x]
  <2>1. GotAlphas[x] = got.sig.proofs[x].alpha
    BY <1>12 DEF GotAlphas
  <2> QED BY <1>9, <1>17, <2>1
<1>18. CASE \E p \in Parties : p # hidden[x] /\ Seed(x, p) \in got.badSeeds
  <2>1. PICK p \in Parties : p # hidden[x] /\ Seed(x, p) \in got.badSeeds
    BY <1>18
  <2>2. Rebuilt(x, p) = JunkSeed
    BY <2>1 DEF Rebuilt
  <2>3. Seed(x, p) = JunkSeed
    BY <1>14, <1>15, <2>1, <2>2
  <2>4. Seed(x, p).exec = x /\ JunkSeed.exec = -1
    BY DEF Seed, JunkSeed
  <2> QED BY <1>13, <2>3, <2>4
<1>19. CASE /\ hidden[x] # Last /\ got.sig.proofs[x].aux # NoHash
            /\ got.sig.proofs[x].aux # aux[x]
  <2>1. ParsedAux(x) = got.sig.proofs[x].aux
    BY <1>19 DEF ParsedAux
  <2>2. Commit(x, Last, Seed(x, Last), aux[x], "salt")
          = Commit(x, Last, Rebuilt(x, Last), ParsedAux(x), "salt")
    BY <1>13, <1>14, <1>19
  <2>3. aux[x] = ParsedAux(x)
    BY <1>15, <2>2
  <2> QED BY <1>19, <2>1, <2>3
<1> QED BY <1>12, <1>16, <1>17, <1>18, <1>19 DEF AlteredProof

\* A signature that was not altered is long enough for the parser, and its digests are
\* those recomputed.
LEMMA GenuineIsAccepted ==
  ASSUME TranscriptInv, genuine, pc = "compare"
  PROVE  SameHashes
<1> USE DEF TranscriptInv
<1>1. pc \in Verifying /\ pc \notin Signing
  BY DEF Verifying, Signing
<1>2. vcoms = coms /\ vbr = br
  BY TranscriptsAgree
<1>3. /\ got.msg = "msg" /\ got.sig = Sent /\ got.sig.salt = "salt"
      /\ \A x \in Execs : got.sig.proofs[x] = SentProof(x)
  BY <1>1, GenuineSignature
<1>4. GotAlphas = alphas
  <2>1. \A x \in Execs : got.sig.proofs[x].alpha = alphas[x]
    <3>1. ASSUME NEW x \in Execs PROVE got.sig.proofs[x].alpha = alphas[x]
      <4>1. got.sig.proofs[x] = SentProof(x)
        BY <1>3
      <4>2. SentProof(x).alpha = alphas[x]
        BY DEF SentProof
      <4> QED BY <4>1, <4>2
    <3> QED BY <3>1
  <2>2. alphas = [x \in Execs |-> alphas[x]]
    BY <1>1 DEF EmulInv, Signing
  <2> QED BY <2>1, <2>2 DEF GotAlphas
<1>5. /\ got.sig.mpcHash = MpcHash(coms, "salt", "msg")
      /\ got.sig.viewHash = ViewHash(MpcHash(coms, "salt", "msg"), br, alphas, "salt", "msg")
  BY <1>3 DEF Sent
<1> QED BY <1>2, <1>3, <1>4, <1>5 DEF SameHashes, SameMpcHash, SameViewHash

LEMMA GenuineParses ==
  ASSUME TranscriptInv, genuine
  PROVE  ~ParseFails
<1> USE DEF TranscriptInv
<1> SUFFICES ASSUME ParseFails PROVE FALSE
  OBVIOUS
<1>1. pc \in Verifying /\ pc \notin Signing /\ pc \notin BeforeViews
  BY DEF ParseFails, Verifying, Signing, BeforeViews
<1>2. got.sig = Sent /\ sig = Sent
  BY <1>1, GenuineSignature
<1>3. build \in Builds /\ hidden \in [Execs -> Parties]
  BY <1>1 DEF SignerInv, ShareInv, HiddenInv
<1>4. got.sig.length = LengthBuilt(hidden)
  BY <1>2 DEF Sent
<1>5. got.sig.length # LengthRequired(hidden)
  BY <1>2 DEF ParseFails
<1> QED BY <1>3, <1>4, <1>5, LengthsAgree

\* The stage of a user of the scheme.
LEMMA Stages ==
  /\ pc \in Signing   => Stage = "signing"
  /\ pc = "sent"      => Stage = "sent"
  /\ pc \in Verifying => Stage = "received"
  /\ pc = "done"      => Stage = "judged"
BY DEF Stage, Signing, Verifying

LEMMA InitScheme == Init => Scheme!Idle
BY Stages DEF Init, Scheme!Idle, Signing

LEMMA SchemeStep ==
  ASSUME TranscriptInv, TranscriptInv', [Next]_vars
  PROVE  [Scheme!Act]_(Scheme!schemeVars)
<1> USE DEF TranscriptInv
<1>1. /\ pc' \in Signing   => Stage' = "signing"
      /\ pc' = "sent"      => Stage' = "sent"
      /\ pc' \in Verifying => Stage' = "received"
      /\ pc' = "done"      => Stage' = "judged"
  BY DEF Stage, Signing, Verifying
<1>2. CASE UNCHANGED <<Stage, genuine, verdict>>
  BY <1>2 DEF Scheme!schemeVars
<1>3. CASE Sign
  <2>1. /\ pc \in Signing /\ pc' \in Signing \cup {"sent"}
        /\ UNCHANGED verVars
    BY <1>3 DEF Sign, ShareFour, ShareOne, ShareLast, MpcChallenge, Simulate, ViewChallengeDrawn,
       BuildSignature, Signing
  <2>2. genuine' = genuine /\ verdict' = verdict
    BY <2>1 DEF verVars
  <2>3. CASE pc' \in Signing
    BY <1>1, <1>2, <2>1, <2>2, <2>3, Stages
  <2>4. CASE pc' = "sent"
    BY <1>1, <2>1, <2>2, <2>4, Stages DEF Scheme!Act, Scheme!Produce
  <2> QED BY <2>1, <2>3, <2>4
<1>4. CASE Transmit
  <2>1. /\ pc = "sent" /\ pc' = "parse" /\ verdict' = verdict /\ genuine' \in BOOLEAN
    BY <1>4 DEF Transmit, DeliverGenuine, DeliverOtherHeader, DeliverOtherProof, Deliver
  <2>2. Stage = "sent" /\ Stage' = "received"
    BY <1>1, <2>1, Stages DEF Verifying
  <2> QED BY <2>1, <2>2 DEF Scheme!Act, Scheme!Receive
<1>5. CASE Parse \/ RecomputeFour \/ RecomputeOne \/ RecomputeLast \/ Emulate
  <2>1. /\ pc \in Verifying /\ pc' \in Verifying /\ UNCHANGED <<genuine, verdict>>
    BY <1>5 DEF Parse, RecomputeFour, RecomputeOne, RecomputeLast, Emulate, Verifying
  <2> QED BY <1>1, <1>2, <2>1, Stages
<1>6. CASE ParseFails
  <2>1. /\ pc \in Verifying /\ pc' = "done" /\ verdict' = "reject" /\ genuine' = genuine
    BY <1>6 DEF ParseFails, Verifying
  <2>2. ~genuine
    BY <1>6, GenuineParses
  <2> QED BY <1>1, <2>1, <2>2, Stages DEF Scheme!Act, Scheme!Judge
<1>7. CASE Compare
  <2>1. /\ pc = "compare" /\ pc \in Verifying /\ pc' = "done" /\ genuine' = genuine
        /\ verdict' = IF SameHashes THEN "accept" ELSE "reject"
    BY <1>7 DEF Compare, Verifying
  <2>2. SameHashes <=> genuine
    BY <2>1, GenuineIsAccepted, AlteredIsRejected DEF SameHashes
  <2>3. verdict' = IF genuine THEN "accept" ELSE "reject"
    BY <2>1, <2>2
  <2> QED BY <1>1, <2>1, <2>3, Stages DEF Scheme!Act, Scheme!Judge
<1>8. CASE Stopped \/ UNCHANGED vars
  <2>1. UNCHANGED <<pc, genuine, verdict>>
    BY <1>8 DEF Stopped, vars, verVars
  <2>2. Stage' = Stage
    BY <2>1 DEF Stage
  <2> QED BY <1>2, <2>1, <2>2
<1> QED BY <1>3, <1>4, <1>5, <1>6, <1>7, <1>8 DEF Next, Verify

\* For every build, key, seed, challenge and hidden parties, the functions of the five
\* rounds implement a signature scheme: crypto_sign_open accepts what crypto_sign has
\* sent, and rejects it once a field of it, a seed of a path or the message is another.
THEOREM ImplementsScheme == Spec => SchemeSpec
<1>1. TranscriptInv /\ TranscriptInv' /\ [Next]_vars => [Scheme!Act]_(Scheme!schemeVars)
  BY SchemeStep
<1> QED BY <1>1, InitScheme, TranscriptInvariant, PTL DEF Spec, SchemeSpec, Scheme!SchemeSpec
===============================================================================
