-------------------------- MODULE ThresholdSignProofs --------------------------
(***************************************************************************)
(* What is proved of the threshold signatures in five rounds, for every    *)
(* build of the two variants, key, seed, challenge and set of open parties.*)
(***************************************************************************)
EXTENDS ThresholdSign, PackingProofs, FiniteSetTheorems

-----------------------------------------------------------------------------
(* A broadcast is affine in the share, and Horner's rule commutes with it. *)

\* A broadcast of one party, or of all of them.
Br == [alpha : Field, v : Field]

\* Scaling both sides and adding, modulo Q.
LEMMA ScaledSum ==
  ASSUME NEW i \in Int, NEW a \in Int, NEW b \in Int
  PROVE  F(F(i * F(a)) + F(b)) = F(i * a + b)
<1>1. F(a) \in Int /\ F(F(a)) = F(a)
  BY NormalForm
<1>2. F(Scaled(i, F(a))) = F(Scaled(i, a))
  BY <1>1, MultiplesCongruent
<1>3. PICK x \in Int, y \in Int : x = i * F(a) /\ y = i * a /\ F(x) = F(y)
  BY <1>1, <1>2 DEF Scaled
<1>4. F(F(x) + F(b)) = F(y + b)
  <2>1. /\ F(x) \in Int /\ F(F(x)) = F(y) /\ F(b) \in Int /\ F(F(b)) = F(b)
    BY <1>3, NormalForm
  <2> QED BY <1>3, <2>1, SumsCongruent, SMTT(30)
<1> QED BY <1>3, <1>4

Distributes(i, p, q, s, t, x, y, c) ==
  F(p * F(F(i * s) + x) + q * F(F(i * t) + y) + c)
    = F(i * (p * s + q * t) + (p * x + q * y + c))

LEMMA AffineDistributes ==
  ASSUME NEW i \in Int, NEW p \in Int, NEW q \in Int, NEW s \in Int, NEW t \in Int,
         NEW x \in Int, NEW y \in Int, NEW c \in Int
  PROVE  Distributes(i, p, q, s, t, x, y, c)
<1>1. Q \in Int /\ i * s \in Int /\ i * t \in Int
  BY FieldAssumption
<1>2. PICK a1 \in Int, d1 \in Int : a1 = F(i * s) /\ a1 = i * s + Q * d1
  <2>1. PICK z \in Int : z = i * s
    BY <1>1
  <2>2. \E d \in Int : F(z) = z + Q * d /\ F(z) \in Int
    BY Normalises
  <2> QED BY <2>1, <2>2
<1>3. PICK a2 \in Int, d2 \in Int : a2 = F(a1 + x) /\ a2 = (a1 + x) + Q * d2
  BY <1>2, Normalises
<1>4. PICK b1 \in Int, e1 \in Int : b1 = F(i * t) /\ b1 = i * t + Q * e1
  BY <1>1, Normalises
<1>5. PICK b2 \in Int, e2 \in Int : b2 = F(b1 + y) /\ b2 = (b1 + y) + Q * e2
  BY <1>4, Normalises
<1>6. p * a2 = p * (i * s) + p * x + Q * (p * (d1 + d2))
  <2>1. a2 = i * s + x + Q * (d1 + d2)
    <3>1. Q * (d1 + d2) = Q * d1 + Q * d2
      BY <1>1
    <3>2. PICK m \in Int, u \in Int, v \in Int : m = i * s /\ u = Q * d1 /\ v = Q * d2
      BY <1>1
    <3> QED BY <1>2, <1>3, <3>1, <3>2
  <2>2. p * (i * s + x + Q * (d1 + d2)) = p * (i * s) + p * x + Q * (p * (d1 + d2))
    BY <1>1
  <2> QED BY <2>1, <2>2
<1>7. q * b2 = q * (i * t) + q * y + Q * (q * (e1 + e2))
  <2>1. b2 = i * t + y + Q * (e1 + e2)
    <3>1. Q * (e1 + e2) = Q * e1 + Q * e2
      BY <1>1
    <3>2. PICK m \in Int, u \in Int, v \in Int : m = i * t /\ u = Q * e1 /\ v = Q * e2
      BY <1>1
    <3> QED BY <1>4, <1>5, <3>1, <3>2
  <2>2. q * (i * t + y + Q * (e1 + e2)) = q * (i * t) + q * y + Q * (q * (e1 + e2))
    BY <1>1
  <2> QED BY <2>1, <2>2
<1> DEFINE L == p * a2 + q * b2 + c
           R == i * (p * s + q * t) + (p * x + q * y + c)
           d == p * (d1 + d2) + q * (e1 + e2)
<1>8. L \in Int /\ R \in Int /\ d \in Int
  OBVIOUS
<1>9. L = R + Q * d
  <2>1. i * (p * s + q * t) = p * (i * s) + q * (i * t)
    BY SMT
  <2>2. Q * d = Q * (p * (d1 + d2)) + Q * (q * (e1 + e2))
    BY <1>1
  <2>3. PICK u1 \in Int, u2 \in Int, u3 \in Int, u4 \in Int, u5 \in Int, u6 \in Int :
          /\ u1 = p * (i * s) /\ u2 = q * (i * t) /\ u3 = p * x /\ u4 = q * y
          /\ u5 = Q * (p * (d1 + d2)) /\ u6 = Q * (q * (e1 + e2))
    BY <1>1
  <2>4. L = (u1 + u3 + u5) + (u2 + u4 + u6) + c
    BY <1>6, <1>7, <2>3
  <2>5. R = (u1 + u2) + (u3 + u4 + c) /\ Q * d = u5 + u6
    BY <2>1, <2>2, <2>3
  <2> QED BY <2>3, <2>4, <2>5
<1>10. F(L) = F(R)
  BY <1>8, <1>9, Differ
<1> QED BY <1>2, <1>3, <1>4, <1>5, <1>10 DEF Distributes

LEMMA BrStepIs ==
  ASSUME NEW i, NEW a, NEW b, NEW c, NEW d
  PROVE  BrPlus(BrTimes(i, [alpha |-> a, v |-> b]), [alpha |-> c, v |-> d])
           = [alpha |-> F(F(i * a) + c), v |-> F(F(i * b) + d)]
BY DEF BrPlus, BrTimes

LEMMA AffineOfStep ==
  ASSUME NEW k \in Coefficients, NEW s \in Share, NEW t \in Share, NEW i \in Int,
         NEW off \in BOOLEAN
  PROVE  Affine(k, Plus(Times(i, s), t), off)
           = BrPlus(BrTimes(i, Affine(k, s, FALSE)), Affine(k, t, off))
<1>1. k.aw \in Int /\ k.au \in Int /\ k.vw \in Int /\ k.vc \in Int /\ k.cst \in Int
  BY DEF Coefficients
<1>2. /\ s.wit \in Int /\ s.unif \in Int /\ s.corr \in Int
      /\ t.wit \in Int /\ t.unif \in Int /\ t.corr \in Int
  BY FieldElements DEF Share
<1> DEFINE o == IF off THEN k.cst ELSE 0
           sa == k.aw * s.wit + k.au * s.unif
           ta == k.aw * t.wit + k.au * t.unif
           sv == k.vw * s.wit + k.vc * s.corr
           tv == k.vw * t.wit + k.vc * t.corr + o
<1>3. o \in Int
  BY <1>1
<1>4. sa \in Int /\ ta \in Int /\ sv \in Int /\ tv \in Int
  <2>1. PICK aw \in Int, au \in Int, vw \in Int, vc \in Int :
          aw = k.aw /\ au = k.au /\ vw = k.vw /\ vc = k.vc
    BY <1>1
  <2>2. PICK w \in Int, u \in Int, c \in Int, ww \in Int, uu \in Int, cc \in Int :
          /\ w = s.wit /\ u = s.unif /\ c = s.corr
          /\ ww = t.wit /\ uu = t.unif /\ cc = t.corr
    BY <1>2
  <2> HIDE DEF o
  <2>3. /\ aw * w + au * u \in Int /\ aw * ww + au * uu \in Int
        /\ vw * w + vc * c \in Int /\ vw * ww + vc * cc + o \in Int
    BY <1>3
  <2> QED BY <2>1, <2>2, <2>3
<1>5. Plus(Times(i, s), t)
        = [wit |-> F(F(i * s.wit) + t.wit), unif |-> F(F(i * s.unif) + t.unif),
           corr |-> F(F(i * s.corr) + t.corr)]
  BY DEF Plus, Times
<1>6. /\ F(k.aw * F(F(i * s.wit) + t.wit) + k.au * F(F(i * s.unif) + t.unif) + 0)
           = F(i * sa + (ta + 0))
      /\ F(k.vw * F(F(i * s.wit) + t.wit) + k.vc * F(F(i * s.corr) + t.corr) + o)
           = F(i * sv + tv)
  <2>1. PICK aw \in Int, au \in Int, vw \in Int, vc \in Int :
          aw = k.aw /\ au = k.au /\ vw = k.vw /\ vc = k.vc
    BY <1>1
  <2>2. PICK w \in Int, u \in Int, c \in Int, ww \in Int, uu \in Int, cc \in Int :
          /\ w = s.wit /\ u = s.unif /\ c = s.corr
          /\ ww = t.wit /\ uu = t.unif /\ cc = t.corr
    BY <1>2
  <2> HIDE DEF o
  <2>3. Distributes(i, aw, au, w, u, ww, uu, 0)
    BY 0 \in Int, AffineDistributes
  <2>4. Distributes(i, vw, vc, w, c, ww, cc, o)
    BY <1>3, AffineDistributes
  <2> QED BY <2>1, <2>2, <2>3, <2>4 DEF Distributes
<1>7. Affine(k, Plus(Times(i, s), t), off) = [alpha |-> F(i * sa + ta), v |-> F(i * sv + tv)]
  <2>1. /\ F(i * s.wit) \in Int /\ F(i * s.unif) \in Int
    BY <1>2, NormalForm
  <2>2. F(F(i * s.wit) + t.wit) \in Int /\ F(F(i * s.unif) + t.unif) \in Int
    BY <1>2, <2>1, NormalForm
  <2>3. PICK m \in Int : m = k.aw * F(F(i * s.wit) + t.wit) + k.au * F(F(i * s.unif) + t.unif)
    BY <1>1, <2>2
  <2>4. m + 0 = m /\ ta + 0 = ta
    BY <1>4
  <2> QED BY <1>5, <1>6, <2>3, <2>4 DEF Affine
<1>8. Affine(k, s, FALSE) = [alpha |-> F(sa), v |-> F(sv)]
  <2>1. sv + 0 = sv
    BY <1>4
  <2> QED BY <2>1 DEF Affine
<1>9. Affine(k, t, off) = [alpha |-> F(ta), v |-> F(tv)]
  BY DEF Affine
<1>10. /\ F(F(i * F(sa)) + F(ta)) = F(i * sa + ta)
       /\ F(F(i * F(sv)) + F(tv)) = F(i * sv + tv)
  <2> HIDE DEF sa, ta, sv, tv
  <2> QED BY <1>4, ScaledSum
<1>11. BrPlus(BrTimes(i, [alpha |-> F(sa), v |-> F(sv)]), [alpha |-> F(ta), v |-> F(tv)])
         = [alpha |-> F(F(i * F(sa)) + F(ta)), v |-> F(F(i * F(sv)) + F(tv))]
  <2> HIDE DEF sa, ta, sv, tv
  <2> QED BY BrStepIs
<1> QED BY <1>7, <1>8, <1>9, <1>10, <1>11

\* Horner's rule on shares and on broadcasts, one function for all the iterations.
ShareSteps(g, coeffs, i) ==
  g = [k \in Ranks |-> IF k = 0 THEN coeffs[build.revealed - 1]
                       ELSE Plus(Times(i, g[k - 1]), coeffs[build.revealed - 1 - k])]
BrSteps(g, coeffs, i) ==
  g = [k \in Ranks |-> IF k = 0 THEN coeffs[build.revealed - 1]
                       ELSE BrPlus(BrTimes(i, g[k - 1]), coeffs[build.revealed - 1 - k])]

LEMMA RanksOfBuild ==
  ASSUME build \in Builds
  PROVE  /\ build.revealed \in Nat \ {0} /\ build.revealed - 1 \in Nat
         /\ build.revealed - 1 \in Ranks /\ 0 \in Ranks
         /\ \A k \in Ranks : /\ k \in Nat /\ build.revealed - 1 - k \in Ranks
                             /\ k # 0 => k - 1 \in Ranks
BY BuildsAssumption DEF Supported, Ranks

LEMMA StepOfBroadcasts ==
  ASSUME NEW b \in Br, NEW c \in Br, NEW i \in Int
  PROVE  BrPlus(BrTimes(i, b), c) \in Br
<1>1. b.alpha \in Int /\ b.v \in Int /\ c.alpha \in Int /\ c.v \in Int
  BY FieldElements DEF Br
<1>2. F(i * b.alpha) \in Int /\ F(i * b.v) \in Int
  BY <1>1, NormalForm
<1>3. F(F(i * b.alpha) + c.alpha) \in Field /\ F(F(i * b.v) + c.v) \in Field
  BY <1>1, <1>2, NormalForm
<1> QED BY <1>3 DEF BrPlus, BrTimes, Br

Steps(g, c, S) ==
  g = [k \in Ranks |-> IF k = 0 THEN c[build.revealed - 1]
                       ELSE S[<<g[k - 1], c[build.revealed - 1 - k]>>]]

LEMMA HornerExists ==
  ASSUME build \in Builds, NEW V, NEW c \in [Ranks -> V], NEW S \in [V \X V -> V]
  PROVE  \E g \in [Ranks -> V] : Steps(g, c, S)
<1> DEFINE n == build.revealed - 1
           G == [t \in V \X (0..(n - 1)) |-> S[<<t[1], c[n - 1 - t[2]]>>]]
<1>1. n \in Nat /\ Ranks = 0..n /\ \A k \in 0..(n - 1) : n - 1 - k \in 0..n
  <2>1. n \in Nat
    BY RanksOfBuild
  <2> QED BY <2>1 DEF Ranks
<1>2. G \in [V \X (0..(n - 1)) -> V]
  <2>1. ASSUME NEW t \in V \X (0..(n - 1)) PROVE S[<<t[1], c[n - 1 - t[2]]>>] \in V
    <3>1. t[1] \in V /\ t[2] \in 0..(n - 1)
      OBVIOUS
    <3>2. c[n - 1 - t[2]] \in V
      BY <1>1, <3>1
    <3> QED BY <3>1, <3>2
  <2> QED BY <2>1
<1>3. c[n] \in V
  BY <1>1
<1>4. PICK g \in [0..n -> V] : Loops(g, c[n], G, n)
  BY <1>1, <1>2, <1>3, LoopsExist
<1>5. g = [k \in 0..n |-> IF k = 0 THEN c[n] ELSE G[<<g[k - 1], k - 1>>]]
  BY <1>4 DEF Loops
<1>6. ASSUME NEW k \in 0..n, k # 0 PROVE G[<<g[k - 1], k - 1>>] = S[<<g[k - 1], c[n - k]>>]
  <2>1. k - 1 \in 0..(n - 1) /\ k - 1 \in 0..n /\ n - 1 - (k - 1) = n - k
    BY <1>1, <1>6
  <2>2. <<g[k - 1], k - 1>> \in V \X (0..(n - 1))
    BY <2>1
  <2>3. /\ <<g[k - 1], k - 1>>[1] = g[k - 1] /\ <<g[k - 1], k - 1>>[2] = k - 1
    OBVIOUS
  <2> QED BY <2>1, <2>2, <2>3
<1>7. g = [k \in 0..n |-> IF k = 0 THEN c[n] ELSE S[<<g[k - 1], c[n - k]>>]]
  BY <1>5, <1>6
<1> QED BY <1>1, <1>7 DEF Steps

LEMMA ShareHorner ==
  ASSUME build \in Builds, NEW secret, NEW coeffs \in [Ranks -> Share], NEW i \in Int
  PROVE  \E g \in [Ranks -> Share] :
           /\ ShareSteps(g, coeffs, i)
           /\ Horner(secret, coeffs, i) = Plus(Times(i, g[build.revealed - 1]), secret)
<1> DEFINE S == [t \in Share \X Share |-> Plus(Times(i, t[1]), t[2])]
           h == CHOOSE g : ShareSteps(g, coeffs, i)
<1>1. S \in [Share \X Share -> Share]
  BY Scales, SumOfTwo
<1>2. \A s \in Share, t \in Share : S[<<s, t>>] = Plus(Times(i, s), t)
  OBVIOUS
<1> HIDE DEF S
<1>3. PICK g \in [Ranks -> Share] : Steps(g, coeffs, S)
  BY <1>1, HornerExists
<1> DEFINE body(f, k) == IF k = 0 THEN coeffs[build.revealed - 1]
                         ELSE Plus(Times(i, f[k - 1]), coeffs[build.revealed - 1 - k])
<1>4. ASSUME NEW k \in Ranks, k # 0
      PROVE  S[<<g[k - 1], coeffs[build.revealed - 1 - k]>>] = body(g, k)
  <2>1. g[k - 1] \in Share /\ coeffs[build.revealed - 1 - k] \in Share
    BY <1>4, RanksOfBuild
  <2> QED BY <1>2, <1>4, <2>1
<1>5. ShareSteps(g, coeffs, i)
  BY <1>3, <1>4 DEF ShareSteps, Steps
<1>6. ShareSteps(h, coeffs, i)
  BY <1>5
<1> HIDE DEF h
<1>7. h \in [Ranks -> Share]
  <2>1. DOMAIN h = Ranks /\ h = [k \in Ranks |-> h[k]]
    BY <1>6 DEF ShareSteps
  <2> DEFINE T == {k \in Ranks : h[k] \notin Share}
  <2>2. CASE T # {}
    <3>1. T \subseteq Nat
      BY RanksOfBuild
    <3>2. PICK m \in T : \A y \in T : m <= y
      BY <2>2, <3>1, Least
    <3>3. h[m] = body(h, m)
      BY <1>6, <3>2 DEF ShareSteps
    <3>4. m # 0
      BY <3>2, <3>3, RanksOfBuild
    <3>5. m - 1 \in Ranks /\ ~(m <= m - 1) /\ build.revealed - 1 - m \in Ranks
      BY <3>2, <3>4, RanksOfBuild
    <3>6. h[m - 1] \in Share /\ coeffs[build.revealed - 1 - m] \in Share
      BY <3>2, <3>5
    <3>7. h[m] \in Share
      BY <3>3, <3>4, <3>6, Scales, SumOfTwo
    <3> QED BY <3>2, <3>7
  <2>3. CASE T = {}
    BY <2>1, <2>3
  <2> QED BY <2>2, <2>3
<1>8. Horner(secret, coeffs, i) = Plus(Times(i, h[build.revealed - 1]), secret)
  BY DEF Horner, h, ShareSteps
<1> QED BY <1>6, <1>7, <1>8

LEMMA BroadcastHorner ==
  ASSUME build \in Builds, NEW secret, NEW coeffs \in [Ranks -> Br], NEW i \in Int
  PROVE  \E g \in [Ranks -> Br] :
           /\ BrSteps(g, coeffs, i)
           /\ ShareBroadcast(secret, coeffs, i)
                = IF i = 0 THEN coeffs[build.revealed - 1]
                  ELSE BrPlus(BrTimes(i, g[build.revealed - 1]), secret)
<1> DEFINE S == [t \in Br \X Br |-> BrPlus(BrTimes(i, t[1]), t[2])]
           h == CHOOSE g : BrSteps(g, coeffs, i)
<1>1. S \in [Br \X Br -> Br]
  BY StepOfBroadcasts
<1>2. \A s \in Br, t \in Br : S[<<s, t>>] = BrPlus(BrTimes(i, s), t)
  OBVIOUS
<1> HIDE DEF S
<1>3. PICK g \in [Ranks -> Br] : Steps(g, coeffs, S)
  BY <1>1, HornerExists
<1> DEFINE body(f, k) == IF k = 0 THEN coeffs[build.revealed - 1]
                         ELSE BrPlus(BrTimes(i, f[k - 1]), coeffs[build.revealed - 1 - k])
<1>4. ASSUME NEW k \in Ranks, k # 0
      PROVE  S[<<g[k - 1], coeffs[build.revealed - 1 - k]>>] = body(g, k)
  <2>1. g[k - 1] \in Br /\ coeffs[build.revealed - 1 - k] \in Br
    BY <1>4, RanksOfBuild
  <2> QED BY <1>2, <1>4, <2>1
<1>5. BrSteps(g, coeffs, i)
  BY <1>3, <1>4 DEF BrSteps, Steps
<1>6. BrSteps(h, coeffs, i)
  BY <1>5
<1> HIDE DEF h
<1>7. h \in [Ranks -> Br]
  <2>1. DOMAIN h = Ranks /\ h = [k \in Ranks |-> h[k]]
    BY <1>6 DEF BrSteps
  <2> DEFINE T == {k \in Ranks : h[k] \notin Br}
  <2>2. CASE T # {}
    <3>1. T \subseteq Nat
      BY RanksOfBuild
    <3>2. PICK m \in T : \A y \in T : m <= y
      BY <2>2, <3>1, Least
    <3>3. h[m] = body(h, m)
      BY <1>6, <3>2 DEF BrSteps
    <3>4. m # 0
      BY <3>2, <3>3, RanksOfBuild
    <3>5. m - 1 \in Ranks /\ ~(m <= m - 1) /\ build.revealed - 1 - m \in Ranks
      BY <3>2, <3>4, RanksOfBuild
    <3>6. h[m - 1] \in Br /\ coeffs[build.revealed - 1 - m] \in Br
      BY <3>2, <3>5
    <3>7. h[m] \in Br
      BY <3>3, <3>4, <3>6, StepOfBroadcasts
    <3> QED BY <3>2, <3>7
  <2>3. CASE T = {}
    BY <2>1, <2>3
  <2> QED BY <2>2, <2>3
<1>8. ShareBroadcast(secret, coeffs, i)
        = IF i = 0 THEN coeffs[build.revealed - 1]
          ELSE BrPlus(BrTimes(i, h[build.revealed - 1]), secret)
  BY DEF ShareBroadcast, h, BrSteps
<1> QED BY <1>6, <1>7, <1>8

LEMMA AffineIsBr ==
  ASSUME NEW k \in Coefficients, NEW s \in Share, NEW off \in BOOLEAN
  PROVE  Affine(k, s, off) \in Br
<1>1. Affine(k, s, off).alpha \in Field /\ Affine(k, s, off).v \in Field
  BY AffineValues
<1> QED BY <1>1 DEF Affine, Br

\* The broadcasts of the coefficients of a sharing, and that of its constant term, in
\* which the public constants are, give those of the shares.
LEMMA BroadcastOfHorner ==
  ASSUME build \in Builds, NEW k \in Coefficients, NEW secret \in Share,
         NEW coeffs \in [Ranks -> Share], NEW i \in Int,
         NEW off \in BOOLEAN, off = (i # 0)
  PROVE  /\ CompleteShare(secret, coeffs, i) \in Share
         /\ Affine(k, CompleteShare(secret, coeffs, i), off)
              = ShareBroadcast(Affine(k, secret, TRUE),
                               [p \in Ranks |-> Affine(k, coeffs[p], FALSE)], i)
<1> DEFINE n == build.revealed - 1
           brs == [p \in Ranks |-> Affine(k, coeffs[p], FALSE)]
<1>1. brs \in [Ranks -> Br]
  BY AffineIsBr
<1>2. \A p \in Ranks : brs[p] = Affine(k, coeffs[p], FALSE) /\ coeffs[p] \in Share
  OBVIOUS
<1>3. n \in Ranks
  BY RanksOfBuild
<1> HIDE DEF brs
<1>4. PICK g \in [Ranks -> Share] :
        /\ ShareSteps(g, coeffs, i)
        /\ Horner(secret, coeffs, i) = Plus(Times(i, g[n]), secret)
  BY ShareHorner
<1>5. PICK h \in [Ranks -> Br] :
        /\ BrSteps(h, brs, i)
        /\ ShareBroadcast(Affine(k, secret, TRUE), brs, i)
             = IF i = 0 THEN brs[n] ELSE BrPlus(BrTimes(i, h[n]), Affine(k, secret, TRUE))
  BY <1>1, BroadcastHorner
<1> DEFINE T == {m \in Ranks : h[m] # Affine(k, g[m], FALSE)}
<1>6. CASE T # {}
  <2>1. T \subseteq Nat
    BY RanksOfBuild
  <2>2. PICK m \in T : \A y \in T : m <= y
    BY <1>6, <2>1, Least
  <2>3. /\ g[m] = IF m = 0 THEN coeffs[n] ELSE Plus(Times(i, g[m - 1]), coeffs[n - m])
        /\ h[m] = IF m = 0 THEN brs[n] ELSE BrPlus(BrTimes(i, h[m - 1]), brs[n - m])
    BY <1>4, <1>5, <2>2 DEF ShareSteps, BrSteps
  <2>4. m # 0
    BY <1>2, <1>3, <2>2, <2>3
  <2>5. m - 1 \in Ranks /\ n - m \in Ranks /\ ~(m <= m - 1)
    BY <2>2, <2>4, RanksOfBuild
  <2>6. h[m - 1] = Affine(k, g[m - 1], FALSE) /\ brs[n - m] = Affine(k, coeffs[n - m], FALSE)
    BY <1>2, <2>2, <2>5
  <2>7. g[m - 1] \in Share /\ coeffs[n - m] \in Share
    BY <2>5
  <2>8. Affine(k, Plus(Times(i, g[m - 1]), coeffs[n - m]), FALSE)
          = BrPlus(BrTimes(i, Affine(k, g[m - 1], FALSE)), Affine(k, coeffs[n - m], FALSE))
    <3>1. PICK s \in Share, t \in Share : s = g[m - 1] /\ t = coeffs[n - m]
      BY <2>7
    <3>2. Affine(k, Plus(Times(i, s), t), FALSE)
            = BrPlus(BrTimes(i, Affine(k, s, FALSE)), Affine(k, t, FALSE))
      BY FALSE \in BOOLEAN, AffineOfStep, Zenon
    <3> QED BY <3>1, <3>2
  <2> QED BY <2>2, <2>3, <2>4, <2>6, <2>8
<1>7. CASE T = {}
  <2>1. h[n] = Affine(k, g[n], FALSE) /\ g[n] \in Share
    BY <1>3, <1>7
  <2>2. CASE i = 0
    <3>1. CompleteShare(secret, coeffs, i) = coeffs[n]
      BY <2>2 DEF CompleteShare
    <3>2. off = FALSE
      BY <2>2
    <3> QED BY <1>2, <1>3, <1>5, <2>2, <3>1, <3>2 DEF brs
  <2>3. CASE i # 0
    <3>1. CompleteShare(secret, coeffs, i) = Plus(Times(i, g[n]), secret)
      BY <1>4, <2>3 DEF CompleteShare
    <3>2. Plus(Times(i, g[n]), secret) \in Share
      BY <2>1, Scales, SumOfTwo
    <3>3. Affine(k, Plus(Times(i, g[n]), secret), TRUE)
            = BrPlus(BrTimes(i, Affine(k, g[n], FALSE)), Affine(k, secret, TRUE))
      BY <2>1, AffineOfStep
    <3>4. off = TRUE
      BY <2>3
    <3> QED BY <1>5, <2>1, <2>3, <3>1, <3>2, <3>3, <3>4 DEF brs
  <2> QED BY <2>2, <2>3
<1> QED BY <1>6, <1>7

-----------------------------------------------------------------------------
(* The round of the protocol, turned.                                      *)

\* A value that is subtracted and added again.
LEMMA Restores ==
  ASSUME NEW a \in Int, NEW x \in Field
  PROVE  F(F(a + x) - a) = x /\ F(a - F(a - x)) = x
<1>1. x \in Int /\ F(x) = x /\ Q \in Int
  BY FieldElements, FieldAssumption
<1>2. PICK y \in Int, d \in Int : y = F(a + x) /\ y = (a + x) + Q * d
  <2>1. PICK m \in Int : m = a + x
    BY <1>1
  <2>2. F(m) \in Int /\ \E d \in Int : F(m) = m + Q * d
    BY Normalises
  <2> QED BY <2>1, <2>2
<1>3. PICK z \in Int, c \in Int : z = F(a - x) /\ z = (a - x) + Q * c
  <2>1. PICK m \in Int : m = a - x
    BY <1>1
  <2>2. F(m) \in Int /\ \E c \in Int : F(m) = m + Q * c
    BY Normalises
  <2> QED BY <2>1, <2>2
<1>4. F(y - a) = F(x)
  <2>1. y - a = x + Q * d /\ y - a \in Int
    BY <1>1, <1>2
  <2> QED BY <1>1, <1>2, <2>1, Differ
<1>5. F(a - z) = F(x)
  <2>1. Q * (-c) = -(Q * c)
    BY <1>1, <1>3
  <2>2. a - z = x + Q * (-c) /\ a - z \in Int /\ -c \in Int
    <3>1. PICK m \in Int : m = Q * c
      BY <1>1
    <3> QED BY <1>1, <1>3, <2>1, <3>1
  <2> QED BY <1>1, <2>2, Differ
<1> QED BY <1>1, <1>2, <1>3, <1>4, <1>5

LEMMA SumUndone ==
  ASSUME NEW a \in Int, NEW x \in Field
  PROVE  F(a + F(x - a)) = x /\ F(a - F(a - x)) = x
<1>1. x \in Int /\ F(x) = x /\ Q \in Int
  BY FieldElements, FieldAssumption
<1>2. PICK y \in Int, d \in Int : y = F(x - a) /\ y = (x - a) + Q * d
  <2>1. PICK m \in Int : m = x - a
    BY <1>1
  <2>2. F(m) \in Int /\ \E d \in Int : F(m) = m + Q * d
    BY Normalises
  <2> QED BY <2>1, <2>2
<1>3. a + y = x + Q * d /\ a + y \in Int
  BY <1>1, <1>2
<1>4. F(a + y) = F(x)
  BY <1>1, <1>2, <1>3, Differ
<1> QED BY <1>1, <1>2, <1>4, Restores

\* What the round computes without reduction.
AlphaTerm(ch, I, w) == ch.eps * ch.gamma * I.A * w
VTerm(ch, I, w, alpha, off) ==
  ch.eps * ch.gamma * ((IF off THEN I.y ELSE 0) - I.b * w) - w * alpha

LEMMA TermsOfRound ==
  ASSUME NEW ch \in Challenge, NEW I \in [A : Field, b : Field, y : Field],
         NEW w \in Field, NEW alpha \in Field, NEW off \in BOOLEAN
  PROVE  /\ AlphaTerm(ch, I, w) \in Int /\ VTerm(ch, I, w, alpha, off) \in Int
         /\ \A u \in Field, c \in Field :
              /\ ch.eps * ch.gamma * I.A * w + u = AlphaTerm(ch, I, w) + u
              /\ ch.eps * ch.gamma * ((IF off THEN I.y ELSE 0) - I.b * w) - c - w * alpha
                   = VTerm(ch, I, w, alpha, off) - c
<1> DEFINE G == ch.eps * ch.gamma
           o == IF off THEN I.y ELSE 0
<1>1. /\ ch.eps \in Int /\ ch.gamma \in Int /\ I.A \in Int /\ I.b \in Int /\ I.y \in Int
      /\ w \in Int /\ alpha \in Int
  BY FieldElements DEF Challenge
<1>2. PICK a \in Int, b \in Int, g \in Int, v \in Int : a = I.A /\ b = I.b /\ g = G /\ v = o
  BY <1>1
<1>3. g * a * w \in Int /\ g * (v - b * w) \in Int /\ w * alpha \in Int
  BY <1>1
<1>4. AlphaTerm(ch, I, w) = g * a * w
  BY <1>2 DEF AlphaTerm
<1>5. VTerm(ch, I, w, alpha, off) = g * (v - b * w) - w * alpha
  BY <1>2 DEF VTerm
<1>6. ASSUME NEW u \in Field, NEW c \in Field
      PROVE  /\ G * I.A * w + u = AlphaTerm(ch, I, w) + u
             /\ G * (o - I.b * w) - c - w * alpha = VTerm(ch, I, w, alpha, off) - c
  <2>1. c \in Int
    BY FieldElements
  <2>2. PICK x \in Int, y \in Int : x = g * (v - b * w) /\ y = w * alpha
    BY <1>3
  <2>3. x - c - y = (x - y) - c
    BY <2>1, <2>2
  <2>4. G * I.A * w = g * a * w /\ G * (o - I.b * w) = x
    BY <1>2, <2>2
  <2> HIDE DEF G, o
  <2> QED BY <1>4, <1>5, <2>2, <2>3, <2>4
<1> QED BY <1>3, <1>4, <1>5, <1>6

LEMMA RoundIs ==
  ASSUME NEW ch \in Challenge, NEW I \in [A : Field, b : Field, y : Field],
         NEW alpha \in Field, NEW off \in BOOLEAN
  PROVE  /\ \A s \in Share :
              Broadcast(ch, s, alpha, I, off)
                = [alpha |-> F(AlphaTerm(ch, I, s.wit) + s.unif),
                   v     |-> F(VTerm(ch, I, s.wit, alpha, off) - s.corr)]
         /\ \A w \in Field, b \in Br :
              ShareFromBroadcast(ch, w, b, alpha, I, off)
                = [wit |-> w, unif |-> F(b.alpha - AlphaTerm(ch, I, w)),
                   corr |-> F(VTerm(ch, I, w, alpha, off) - b.v)]
<1>1. ASSUME NEW s \in Share
      PROVE  Broadcast(ch, s, alpha, I, off)
                = [alpha |-> F(AlphaTerm(ch, I, s.wit) + s.unif),
                   v     |-> F(VTerm(ch, I, s.wit, alpha, off) - s.corr)]
  <2>1. s.wit \in Field /\ s.unif \in Field /\ s.corr \in Field
    BY DEF Share
  <2>2. /\ ch.eps * ch.gamma * I.A * s.wit + s.unif = AlphaTerm(ch, I, s.wit) + s.unif
        /\ ch.eps * ch.gamma * ((IF off THEN I.y ELSE 0) - I.b * s.wit) - s.corr - s.wit * alpha
             = VTerm(ch, I, s.wit, alpha, off) - s.corr
    BY <2>1, TermsOfRound
  <2> QED BY <2>2 DEF Broadcast, Alpha
<1>2. ASSUME NEW w \in Field, NEW b \in Br
      PROVE  ShareFromBroadcast(ch, w, b, alpha, I, off)
                = [wit |-> w, unif |-> F(b.alpha - AlphaTerm(ch, I, w)),
                   corr |-> F(VTerm(ch, I, w, alpha, off) - b.v)]
  <2>1. b.v \in Field
    BY DEF Br
  <2>2. ch.eps * ch.gamma * ((IF off THEN I.y ELSE 0) - I.b * w) - b.v - w * alpha
             = VTerm(ch, I, w, alpha, off) - b.v
    BY <2>1, TermsOfRound
  <2> QED BY <2>2 DEF ShareFromBroadcast, AlphaTerm
<1> QED BY <1>1, <1>2

LEMMA RoundTurned ==
  ASSUME NEW ch \in Challenge, NEW I \in [A : Field, b : Field, y : Field],
         NEW alpha \in Field, NEW off \in BOOLEAN
  PROVE  /\ \A s \in Share :
              ShareFromBroadcast(ch, s.wit, Broadcast(ch, s, alpha, I, off), alpha, I, off) = s
         /\ \A w \in Field, b \in Br :
              /\ ShareFromBroadcast(ch, w, b, alpha, I, off) \in Share
              /\ ShareFromBroadcast(ch, w, b, alpha, I, off).wit = w
              /\ Broadcast(ch, ShareFromBroadcast(ch, w, b, alpha, I, off), alpha, I, off) = b
<1>1. ASSUME NEW s \in Share
      PROVE  ShareFromBroadcast(ch, s.wit, Broadcast(ch, s, alpha, I, off), alpha, I, off) = s
  <2> DEFINE x == AlphaTerm(ch, I, s.wit)
             z == VTerm(ch, I, s.wit, alpha, off)
             b == Broadcast(ch, s, alpha, I, off)
  <2>1. s.wit \in Field /\ s.unif \in Field /\ s.corr \in Field /\ s.unif \in Int /\ s.corr \in Int
    BY FieldElements DEF Share
  <2>2. x \in Int /\ z \in Int
    BY <2>1, TermsOfRound
  <2>3. b = [alpha |-> F(x + s.unif), v |-> F(z - s.corr)]
    BY RoundIs
  <2> HIDE DEF x, z, b
  <2>4. b.alpha = F(x + s.unif) /\ b.v = F(z - s.corr)
    BY <2>3
  <2>5. F(x + s.unif) \in Field /\ F(z - s.corr) \in Field
    BY <2>1, <2>2, NormalForm
  <2>6. b \in Br
    BY <2>3, <2>5 DEF Br
  <2>7. ShareFromBroadcast(ch, s.wit, b, alpha, I, off)
          = [wit |-> s.wit, unif |-> F(b.alpha - x), corr |-> F(z - b.v)]
    BY <2>1, <2>6, RoundIs DEF x, z
  <2>8. F(b.alpha - x) = s.unif /\ F(z - b.v) = s.corr
    BY <2>1, <2>2, <2>4, Restores
  <2>9. s = [wit |-> s.wit, unif |-> s.unif, corr |-> s.corr]
    BY DEF Share
  <2> QED BY <2>7, <2>8, <2>9 DEF b
<1>2. ASSUME NEW w \in Field, NEW b \in Br
      PROVE  /\ ShareFromBroadcast(ch, w, b, alpha, I, off) \in Share
             /\ ShareFromBroadcast(ch, w, b, alpha, I, off).wit = w
             /\ Broadcast(ch, ShareFromBroadcast(ch, w, b, alpha, I, off), alpha, I, off) = b
  <2> DEFINE x == AlphaTerm(ch, I, w)
             z == VTerm(ch, I, w, alpha, off)
             s == ShareFromBroadcast(ch, w, b, alpha, I, off)
  <2>1. b.alpha \in Field /\ b.v \in Field /\ b.alpha \in Int /\ b.v \in Int
    BY FieldElements DEF Br
  <2>2. x \in Int /\ z \in Int
    BY TermsOfRound
  <2>3. s = [wit |-> w, unif |-> F(b.alpha - x), corr |-> F(z - b.v)]
    BY RoundIs
  <2> HIDE DEF x, z, s
  <2>4. F(b.alpha - x) \in Field /\ F(z - b.v) \in Field
    BY <2>1, <2>2, NormalForm
  <2>5. s \in Share /\ s.wit = w /\ s.unif = F(b.alpha - x) /\ s.corr = F(z - b.v)
    BY <2>3, <2>4 DEF Share
  <2>6. Broadcast(ch, s, alpha, I, off) = [alpha |-> F(x + s.unif), v |-> F(z - s.corr)]
    BY <2>5, RoundIs DEF x, z
  <2>7. F(x + s.unif) = b.alpha /\ F(z - s.corr) = b.v
    BY <2>1, <2>2, <2>5, SumUndone
  <2>8. b = [alpha |-> b.alpha, v |-> b.v]
    BY DEF Br
  <2> QED BY <2>5, <2>6, <2>7, <2>8 DEF s
<1> QED BY <1>1, <1>2

\* Any solution of the equation, with any uniform value, has a plain broadcast of which
\* the signature carries the first half only.
PlainOf(w, u) == [wit |-> w, unif |-> u, corr |-> Correlated(w, u)]
IsSolution(w, I) == F(I.A * w * w + I.b * w) = I.y

LEMMA PlainBroadcastOf ==
  ASSUME NEW I \in [A : Field, b : Field, y : Field], NEW ch \in Challenge,
         NEW w \in Field, IsSolution(w, I), NEW u \in Field
  PROVE  LET s == PlainOf(w, u)
             alpha == Alpha(ch, s, I)
         IN  /\ s \in Share /\ alpha \in Field
             /\ Broadcast(ch, s, alpha, I, TRUE) = PlainBroadcast(alpha)
<1> DEFINE s == PlainOf(w, u)
           alpha == Alpha(ch, s, I)
           G == ch.eps * ch.gamma
           k == FiveRounds(G, I.A, I.b, I.y, alpha)
           m == -(w * u)
           v == G * I.A * w + u
           r == I.A * w * w + I.b * w
<1>1. /\ ch.eps \in Int /\ ch.gamma \in Int /\ I.A \in Int /\ I.b \in Int /\ I.y \in Int
      /\ F(I.y) = I.y /\ w \in Int /\ u \in Int
  BY FieldElements DEF Challenge
<1>2. G \in Int /\ m \in Int
  BY <1>1
<1>3. v \in Int /\ r \in Int
  <2>1. PICK g \in Int, a \in Int, b \in Int : g = G /\ a = I.A /\ b = I.b
    BY <1>1, <1>2
  <2>2. g * a * w + u \in Int /\ a * w * w + b * w \in Int
    BY <1>1
  <2> HIDE DEF G
  <2> QED BY <2>1, <2>2
<1>4. /\ F(m) \in Field /\ F(m) \in Int /\ F(F(m)) = F(m)
      /\ F(v) \in Field /\ F(v) \in Int /\ F(F(v)) = F(v)
  BY <1>2, <1>3, NormalForm
<1>5. s = [wit |-> w, unif |-> u, corr |-> F(m)] /\ s \in Share
  BY <1>4 DEF PlainOf, Correlated, Share
<1>6. alpha = F(v)
  BY <1>5 DEF Alpha
<1>7. Opens(alpha, G, I.A, w, u) /\ Solves(w, I.A, I.b, I.y)
  BY <1>1, <1>4, <1>6 DEF Opens, Solves, IsSolution
<1>8. alpha \in Field /\ alpha \in Int /\ F(alpha) = alpha
  BY <1>4, <1>6
<1> HIDE DEF s, alpha
<1>9. Broadcast(ch, s, alpha, I, TRUE) = Affine(k, s, TRUE)
  BY <1>5, <1>8, BroadcastIsAffine
<1>10. VAddsUp(alpha, G, I.A, I.b, I.y, w, F(m))
  BY <1>1, <1>2, <1>4, <1>7, <1>8, VTotal
<1>11. AlphaAddsUp(alpha, G, I.A, w, u)
  BY <1>1, <1>2, <1>7, <1>8, AlphaTotal
<1>12. /\ k.aw = G * I.A /\ k.au = 1 /\ k.vw = (-1) * (G * I.b) - alpha /\ k.vc = -1
       /\ k.cst = G * I.y
  BY DEF FiveRounds
<1> HIDE DEF G, k, m
<1>13. F(k.aw * w + k.au * u) = alpha /\ F(k.vw * w + k.vc * F(m) + k.cst) = 0
  BY <1>8, <1>10, <1>11, <1>12, ZeroIsShare DEF VAddsUp, AlphaAddsUp
<1>14. Affine(k, s, TRUE) = [alpha |-> alpha, v |-> 0]
  BY <1>5, <1>13 DEF Affine
<1> QED BY <1>5, <1>8, <1>9, <1>14 DEF PlainBroadcast, s, alpha

LEMMA BroadcastIsBr ==
  ASSUME NEW ch \in Challenge, NEW s \in Share, NEW alpha \in Field,
         NEW I \in [A : Field, b : Field, y : Field], NEW off \in BOOLEAN
  PROVE  Broadcast(ch, s, alpha, I, off) \in Br
BY BroadcastIsAffine, AffineIsBr

\* The broadcasts of the plain input and of a coefficient.
PlainRound(ch, s, alpha, I)       == Broadcast(ch, s, alpha, I, TRUE)
CoefficientRound(ch, s, alpha, I) == Broadcast(ch, s, alpha, I, FALSE)

\* The verifier finds the share of an open party from what it broadcasts.
LEMMA ShareRecovered ==
  ASSUME build \in Builds, NEW I \in [A : Field, b : Field, y : Field], NEW ch \in Challenge,
         NEW secret \in Share, NEW alpha \in Field,
         PlainRound(ch, secret, alpha, I) = PlainBroadcast(alpha),
         NEW coeffs \in [Ranks -> Share], NEW brs \in [Ranks -> Br],
         \A p \in Ranks : brs[p] = CoefficientRound(ch, coeffs[p], alpha, I),
         NEW i \in Int, NEW share, share = CompleteShare(secret, coeffs, i),
         NEW mine, mine = ShareBroadcast(PlainBroadcast(alpha), brs, i)
  PROVE  ShareFromBroadcast(ch, share.wit, mine, alpha, I, HasSharingOffset(i)) = share
<1> DEFINE k == FiveRounds(ch.eps * ch.gamma, I.A, I.b, I.y, alpha)
<1>1. /\ k \in Coefficients
      /\ \A s \in Share, o \in BOOLEAN : Broadcast(ch, s, alpha, I, o) = Affine(k, s, o)
  <2>1. ASSUME NEW s \in Share, NEW o \in BOOLEAN
        PROVE  k \in Coefficients /\ Broadcast(ch, s, alpha, I, o) = Affine(k, s, o)
    BY BroadcastIsAffine
  <2>2. FALSE \in BOOLEAN
    OBVIOUS
  <2> HIDE DEF k
  <2>3. k \in Coefficients
    BY <2>1, <2>2
  <2> QED BY <2>1, <2>3
<1> HIDE DEF k
<1> DEFINE off == IF i = 0 THEN FALSE ELSE TRUE
<1>a. off \in BOOLEAN /\ off = (i # 0) /\ HasSharingOffset(i) = off
  BY DEF HasSharingOffset
<1> HIDE DEF off
<1>2. brs = [p \in Ranks |-> Affine(k, coeffs[p], FALSE)]
  BY <1>1 DEF CoefficientRound
<1>3. /\ share \in Share
      /\ Affine(k, share, off) = ShareBroadcast(Affine(k, secret, TRUE), brs, i)
  <2> DEFINE affines == [p \in Ranks |-> Affine(k, coeffs[p], FALSE)]
  <2>1. /\ CompleteShare(secret, coeffs, i) \in Share
        /\ Affine(k, CompleteShare(secret, coeffs, i), off)
             = ShareBroadcast(Affine(k, secret, TRUE), affines, i)
    BY <1>1, <1>a, BroadcastOfHorner
  <2>2. affines = brs
    BY <1>2
  <2> HIDE DEF affines
  <2> QED BY <2>1, <2>2
<1>4. /\ Affine(k, secret, TRUE) = PlainBroadcast(alpha)
      /\ Affine(k, share, off) = Broadcast(ch, share, alpha, I, off)
  BY <1>1, <1>3, <1>a DEF PlainRound
<1>5. Broadcast(ch, share, alpha, I, off) = ShareBroadcast(PlainBroadcast(alpha), brs, i)
  BY <1>3, <1>4
<1>6. ShareFromBroadcast(ch, share.wit, Broadcast(ch, share, alpha, I, off), alpha, I, off)
        = share
  <2>1. ASSUME NEW s \in Share, NEW o \in BOOLEAN
        PROVE  ShareFromBroadcast(ch, s.wit, Broadcast(ch, s, alpha, I, o), alpha, I, o) = s
    BY RoundTurned
  <2> QED BY <1>3, <1>a, <2>1
<1> QED BY <1>3, <1>5, <1>6, <1>a

-----------------------------------------------------------------------------
(* The ranks of the open parties.                                          *)

RankOf(S, i) == Cardinality({j \in S : j < i})

LEMMA OpeningsAreFinite ==
  ASSUME build \in Builds, NEW S \in Openings
  PROVE  /\ IsFiniteSet(S) /\ Cardinality(S) = build.revealed /\ S \subseteq Parties
         /\ \A i \in S : i \in Nat /\ i <= 255
<1>1. build.parties \in Nat /\ build.parties - 1 \in Int /\ build.parties <= 256
  BY BuildsAssumption DEF Supported
<1>2. IsFiniteSet(Parties)
  BY <1>1, FS_Interval, 0 \in Int DEF Parties
<1>3. S \in SUBSET Parties /\ Cardinality(S) = build.revealed
  BY DEF Openings
<1>4. IsFiniteSet(S)
  BY <1>2, <1>3, FS_Subset
<1>5. \A i \in Parties : i \in Nat /\ i <= 255
  BY <1>1 DEF Parties
<1> QED BY <1>3, <1>4, <1>5

LEMMA RanksIncrease ==
  ASSUME build \in Builds, NEW S \in Openings, NEW i \in S
  PROVE  /\ RankOf(S, i) \in Ranks
         /\ \A j \in S : j < i => RankOf(S, j) < RankOf(S, i)
<1> DEFINE below(j) == {l \in S : l < j}
<1>1. IsFiniteSet(S) /\ Cardinality(S) = build.revealed /\ \A j \in S : j \in Nat
  BY OpeningsAreFinite
<1>2. ASSUME NEW j \in S, NEW T \in SUBSET S, below(j) \subseteq T, j \in T
      PROVE  /\ Cardinality(below(j)) \in Nat /\ Cardinality(T) \in Nat
             /\ Cardinality(below(j)) < Cardinality(T)
  <2>1. IsFiniteSet(T)
    BY <1>1, FS_Subset
  <2>2. IsFiniteSet(below(j)) /\ Cardinality(below(j)) <= Cardinality(T)
    BY <1>2, <2>1, FS_Subset
  <2>3. j \notin below(j)
    BY <1>1
  <2>4. Cardinality(below(j)) # Cardinality(T)
    BY <1>2, <2>1, <2>3, FS_Subset
  <2>5. Cardinality(below(j)) \in Nat /\ Cardinality(T) \in Nat
    BY <2>1, <2>2, FS_CardinalityType
  <2> QED BY <2>2, <2>4, <2>5
<1>3. Cardinality(below(i)) \in Nat /\ Cardinality(below(i)) < Cardinality(S)
  <2>1. below(i) \subseteq S /\ S \in SUBSET S
    OBVIOUS
  <2> QED BY <1>2, <2>1
<1>4. ASSUME NEW j \in S, j < i
      PROVE  Cardinality(below(j)) < Cardinality(below(i))
  <2>1. below(j) \subseteq below(i) /\ j \in below(i) /\ below(i) \in SUBSET S
    BY <1>1, <1>4
  <2> QED BY <1>2, <2>1
<1>5. build.revealed \in Nat
  BY RanksOfBuild
<1> QED BY <1>1, <1>3, <1>4, <1>5 DEF RankOf, Ranks

LEMMA MembersHaveRanks ==
  ASSUME build \in Builds, NEW S \in Openings
  PROVE  /\ \A i \in S : RankOf(S, i) \in Ranks /\ Member(S, RankOf(S, i)) = i
         /\ \A p \in Ranks : Member(S, p) \in S /\ RankOf(S, Member(S, p)) = p
<1>1. \A i \in S : i \in Nat
  BY OpeningsAreFinite
<1>2. ASSUME NEW i \in S, NEW j \in S, RankOf(S, i) = RankOf(S, j) PROVE i = j
  <2>1. RankOf(S, i) \in Int /\ RankOf(S, j) \in Int
    BY RanksIncrease DEF Ranks
  <2>2. ~(i < j) /\ ~(j < i)
    BY <1>2, <2>1, RanksIncrease
  <2> QED BY <1>1, <2>2
<1>3. ASSUME NEW i \in S PROVE RankOf(S, i) \in Ranks /\ Member(S, RankOf(S, i)) = i
  <2>1. RankOf(S, i) \in Ranks
    BY RanksIncrease
  <2>2. Member(S, RankOf(S, i)) = CHOOSE j \in S : RankOf(S, j) = RankOf(S, i)
    BY DEF Member, RankOf
  <2> DEFINE m == CHOOSE j \in S : RankOf(S, j) = RankOf(S, i)
  <2>3. m \in S /\ RankOf(S, m) = RankOf(S, i)
    OBVIOUS
  <2> HIDE DEF m
  <2>4. m = i
    BY <1>2, <2>3
  <2> QED BY <2>1, <2>2, <2>4 DEF m
<1>4. ASSUME NEW p \in Ranks PROVE Member(S, p) \in S /\ RankOf(S, Member(S, p)) = p
  <2> DEFINE f == [i \in S |-> RankOf(S, i)]
  <2>1. f \in Injection(S, Ranks)
    <3>1. f \in [S -> Ranks]
      BY <1>3
    <3>2. \A i, j \in S : f[i] = f[j] => i = j
      BY <1>2
    <3> QED BY <3>1, <3>2 DEF Injection, IsInjective
  <2>2. IsFiniteSet(Ranks) /\ Cardinality(Ranks) = build.revealed
    <3>1. build.revealed \in Nat \ {0} /\ build.revealed - 1 \in Int /\ 0 \in Int
      BY RanksOfBuild
    <3>2. IsFiniteSet(0..(build.revealed - 1))
          /\ Cardinality(0..(build.revealed - 1)) = IF 0 > build.revealed - 1 THEN 0
                                                    ELSE build.revealed - 1 - 0 + 1
      BY <3>1, FS_Interval
    <3> QED BY <3>1, <3>2 DEF Ranks
  <2>3. f \in Surjection(S, Ranks)
    BY <2>1, <2>2, FS_Injection, OpeningsAreFinite
  <2>4. \E i \in S : f[i] = p
    BY <2>3 DEF Surjection
  <2>5. \E i \in S : RankOf(S, i) = p
    BY <2>4
  <2>6. Member(S, p) = CHOOSE j \in S : RankOf(S, j) = p
    BY DEF Member, RankOf
  <2> DEFINE m == CHOOSE j \in S : RankOf(S, j) = p
  <2>7. m \in S /\ RankOf(S, m) = p
    BY <2>5
  <2> QED BY <2>6, <2>7
<1> QED BY <1>3, <1>4

-----------------------------------------------------------------------------
(* The inductive invariant: what the signer has computed, what of it the   *)
(* verifier received, and what the verifier has computed from that.        *)

Rows == IF Standard THEN Execs ELSE {0}
TreeSalt == IF Standard THEN "salt" ELSE "none"

Signing   == {"setup", "commit", "challenge", "simulate", "views", "build", "failed"}
Verifying == {"parse", "expand", "recover", "compare"}

\* The states before the challenges, the broadcasts, the openings and the signature.
BeforeSimulate == {"setup", "commit", "challenge"}
BeforeViews == BeforeSimulate \cup {"simulate"}
BeforeBuild == BeforeViews \cup {"views"}
BeforeSent  == BeforeBuild \cup {"build"}

SetupInv ==
  /\ build \in Builds /\ key \in Keys /\ seed \in Seeds
  /\ e \in Execs /\ (pc \notin {"commit", "recover"} => e = 0)
  /\ pc # "setup" =>
       /\ plain = [x \in Rows |-> PlainOf(key.x, DrawnUnif(seed, x))]
       /\ rnd = [x \in Execs |-> [p \in Ranks |-> DrawnShare(seed, x, p)]]

\* The share of party i, and the tree of the commitments.
ShareOf(x, i) == CompleteShare(At(plain, x), rnd[x], Eval(i))
RootAt(x) == Tree([i \in Parties |-> Commitment(x, i, ShareOf(x, i), "salt")], TreeSalt)
RootsInv ==
  /\ roots = [x \in Execs |-> roots[x]]
  /\ pc # "setup" => \A x \in Execs : (pc = "commit" => x < e) => roots[x] = RootAt(x)

BrOf(x, p) == Broadcast(At(challenges, x), rnd[x][p], At(alphas, x), inst, FALSE)
SimulationInv ==
  /\ pc \notin BeforeSimulate => challenges \in [Rows -> Challenges]
  /\ pc \notin BeforeViews =>
       /\ alphas = [x \in Rows |-> Alpha(challenges[x], plain[x], inst)]
       /\ br = [x \in Execs |-> [p \in Ranks |-> BrOf(x, p)]]

Sent ==
  [salt |-> "salt", mpcHash |-> MpcHash(roots, "salt", "msg"), alphas |-> alphas, br |-> br,
   wits |-> [x \in Execs |-> [p \in Ranks |->
              ShareWit(At(plain, x), rnd[x], Eval(Member(open[x], p)))]],
   auth |-> [x \in Execs |-> OpenTree(roots[x], open[x])],
   length |-> LengthBuilt(open)]
SentInv ==
  /\ pc \notin BeforeBuild => open \in [Execs -> Openings]
  /\ sig = IF pc \in BeforeSent THEN NoDigest ELSE Sent

\* What is delivered when it is not the signature that was sent.
Differs(s) ==
  \/ s.salt # sig.salt \/ s.mpcHash # sig.mpcHash \/ s.alphas # sig.alphas \/ s.br # sig.br
  \/ s.length # sig.length
  \/ \E x \in Execs : \/ \E p \in Ranks : s.wits[x][p] # sig.wits[x][p]
                      \/ s.auth[x] # sig.auth[x]
Altered == got.msg # "msg" \/ Differs(got.sig)
GotInv ==
  pc \in Verifying =>
    /\ got.sig.mpcHash \in {sig.mpcHash, Forged}
    /\ \A x \in Execs : got.sig.auth[x] \in {sig.auth[x], Forged}
    /\ IF genuine THEN got = [msg |-> "msg", sig |-> sig] ELSE Altered

\* What the verifier computes of one execution.
VTreeSalt == IF Standard THEN got.sig.salt ELSE "none"
RecoveredShare(x, p) ==
  LET i == Member(vopen[x], p)
      alpha == At(got.sig.alphas, x)
  IN  ShareFromBroadcast(At(vchallenges, x), got.sig.wits[x][p],
        ShareBroadcast(PlainBroadcast(alpha), got.sig.br[x], Eval(i)),
        alpha, inst, HasSharingOffset(i))
RecoveredRoot(x) ==
  RootFromAuth(got.sig.auth[x], vopen[x],
    [i \in vopen[x] |-> Commitment(x, i, RecoveredShare(x, RankOf(vopen[x], i)), got.sig.salt)],
    VTreeSalt)
VerifierInv ==
  /\ pc \in Verifying \ {"parse"} =>
       /\ vopen \in [Execs -> Openings]
       /\ vopen = open <=> ViewHash(got.sig, got.msg) = ViewHash(sig, "msg")
       /\ vopen = open => got.sig.length = sig.length
  /\ pc \in {"recover", "compare"} =>
       (got.sig.mpcHash = sig.mpcHash => vchallenges = challenges)
  /\ vroots = [x \in Execs |-> vroots[x]]
  /\ pc \in {"recover", "compare"} =>
       \A x \in Execs : (pc = "recover" => x < e) => vroots[x] = RecoveredRoot(x)

ThresholdInv == SetupInv /\ RootsInv /\ SimulationInv /\ SentInv /\ GotInv /\ VerifierInv

LEMMA OperatorsKept ==
  ASSUME UNCHANGED fixed
  PROVE  /\ build' = build /\ key' = key /\ seed' = seed
         /\ Execs' = Execs /\ Parties' = Parties /\ Ranks' = Ranks /\ Openings' = Openings
         /\ Standard' = Standard /\ Rows' = Rows /\ TreeSalt' = TreeSalt /\ inst' = inst
BY DEF fixed, Execs, Parties, Ranks, Openings, Standard, Rows, TreeSalt, inst

LEMMA SharesKept ==
  ASSUME UNCHANGED <<fixed, plain, rnd>>, NEW x, NEW i
  PROVE  ShareOf(x, i)' = ShareOf(x, i)
<1>1. build' = build /\ plain' = plain /\ rnd' = rnd /\ Ranks' = Ranks
  BY OperatorsKept
<1> QED BY <1>1 DEF ShareOf, CompleteShare, Horner

LEMMA RootsKept ==
  ASSUME UNCHANGED <<fixed, plain, rnd>>, NEW x
  PROVE  RootAt(x)' = RootAt(x)
<1>1. Parties' = Parties /\ TreeSalt' = TreeSalt
  BY OperatorsKept
<1>2. \A i : ShareOf(x, i)' = ShareOf(x, i)
  BY SharesKept
<1> QED BY <1>1, <1>2 DEF RootAt

LEMMA LengthsKept ==
  ASSUME UNCHANGED fixed, NEW S
  PROVE  LengthBuilt(S)' = LengthBuilt(S)
<1>1. build' = build /\ Execs' = Execs /\ Parties' = Parties /\ Standard' = Standard
  BY OperatorsKept
<1>2. \A T : OnPaths(T)' = OnPaths(T)
  BY <1>1 DEF OnPaths
<1>3. \A T : AuthNodes(T)' = AuthNodes(T)
  BY <1>1, <1>2 DEF AuthNodes, Existing
<1>4. \A f : SumOver(f)' = SumOver(f)
  BY <1>1 DEF SumOver
<1>5. AuthLength(S)' = AuthLength(S)
  BY <1>1, <1>3, <1>4 DEF AuthLength
<1> QED BY <1>1, <1>5 DEF LengthBuilt, FixedLength

LEMMA SentKept ==
  ASSUME UNCHANGED <<fixed, plain, rnd, roots, challenges, alphas, br, open>>
  PROVE  Sent' = Sent
<1>1. /\ build' = build /\ Execs' = Execs /\ Ranks' = Ranks /\ Standard' = Standard
      /\ inst' = inst
  BY OperatorsKept
<1>2. MpcHash(roots, "salt", "msg")' = MpcHash(roots, "salt", "msg")
  BY <1>1 DEF MpcHash, StandardMpcHash, NfprMpcHash
<1>3. \A x, p : ShareWit(At(plain, x), rnd[x], Eval(Member(open[x], p)))'
                  = ShareWit(At(plain, x), rnd[x], Eval(Member(open[x], p)))
  BY <1>1 DEF ShareWit, CompleteShare, Horner
<1>4. LengthBuilt(open)' = LengthBuilt(open)
  BY LengthsKept
<1> QED BY <1>1, <1>2, <1>3, <1>4 DEF Sent

LEMMA RecoveredKept ==
  ASSUME UNCHANGED <<fixed, got, vopen, vchallenges>>, NEW x
  PROVE  RecoveredRoot(x)' = RecoveredRoot(x)
<1>1. /\ build' = build /\ Parties' = Parties /\ Ranks' = Ranks /\ Standard' = Standard
      /\ inst' = inst
  BY OperatorsKept
<1>2. \A p : RecoveredShare(x, p)' = RecoveredShare(x, p)
  BY <1>1 DEF RecoveredShare, ShareBroadcast
<1>3. VTreeSalt' = VTreeSalt
  BY <1>1 DEF VTreeSalt
<1> QED BY <1>1, <1>2, <1>3 DEF RecoveredRoot, RootFromAuth

LEMMA SetupKept ==
  ASSUME SetupInv, UNCHANGED <<fixed, plain, rnd>>, pc' # "setup" => pc # "setup",
         e' \in Execs, pc' \notin {"commit", "recover"} => e' = 0
  PROVE  SetupInv'
<1>1. /\ build' = build /\ key' = key /\ seed' = seed /\ Execs' = Execs /\ Ranks' = Ranks
      /\ Rows' = Rows
  BY OperatorsKept
<1> QED BY <1>1 DEF SetupInv, PlainOf

LEMMA RootsInvKept ==
  ASSUME RootsInv, UNCHANGED <<fixed, plain, rnd, roots>>, pc' # "setup" => pc # "setup",
         pc = "commit" => pc' = "commit" /\ e' = e
  PROVE  RootsInv'
<1>1. Execs' = Execs
  BY OperatorsKept
<1>2. \A x : RootAt(x)' = RootAt(x)
  BY RootsKept
<1> QED BY <1>1, <1>2 DEF RootsInv

LEMMA SimulationKept ==
  ASSUME SimulationInv, UNCHANGED <<fixed, plain, rnd, challenges, alphas, br>>,
         pc' \notin BeforeSimulate => pc \notin BeforeSimulate,
         pc' \notin BeforeViews => pc \notin BeforeViews
  PROVE  SimulationInv'
<1>1. Execs' = Execs /\ Ranks' = Ranks /\ Rows' = Rows /\ inst' = inst
  BY OperatorsKept
<1>2. \A x, p : BrOf(x, p)' = BrOf(x, p)
  BY <1>1 DEF BrOf
<1> QED BY <1>1, <1>2 DEF SimulationInv

LEMMA SentInvKept ==
  ASSUME SentInv, UNCHANGED <<fixed, signVars>>,
         pc' \notin BeforeBuild => pc \notin BeforeBuild,
         pc' \notin BeforeSent <=> pc \notin BeforeSent
  PROVE  SentInv'
<1>1. Execs' = Execs /\ Openings' = Openings
  BY OperatorsKept
<1>2. open' = open /\ sig' = sig
  BY DEF signVars
<1>3. Sent' = Sent
  BY SentKept DEF signVars
<1> QED BY <1>1, <1>2, <1>3 DEF SentInv

LEMMA GotKept ==
  ASSUME GotInv, UNCHANGED <<fixed, sig, got, genuine>>, pc' \in Verifying => pc \in Verifying
  PROVE  GotInv'
<1>1. Execs' = Execs /\ Ranks' = Ranks
  BY OperatorsKept
<1> QED BY <1>1 DEF GotInv, Altered, Differs

LEMMA ViewHashKept ==
  ASSUME UNCHANGED <<fixed, got, sig>>
  PROVE  (ViewHash(got.sig, got.msg) = ViewHash(sig, "msg"))'
           <=> ViewHash(got.sig, got.msg) = ViewHash(sig, "msg")
<1>1. Standard' = Standard
  BY OperatorsKept
<1> QED BY <1>1 DEF ViewHash, StandardViewHash, NfprViewHash

LEMMA VerifierKept ==
  ASSUME VerifierInv, UNCHANGED <<fixed, signVars, got, vchallenges, vopen, vroots>>,
         pc' \in Verifying \ {"parse"} => pc \in Verifying \ {"parse"},
         pc' \in {"recover", "compare"} =>
           /\ pc \in {"recover", "compare"}
           /\ pc = "recover" => pc' = "recover" /\ e' = e
  PROVE  VerifierInv'
<1>1. Execs' = Execs /\ Openings' = Openings
  BY OperatorsKept
<1>2. open' = open /\ sig' = sig /\ challenges' = challenges
  BY DEF signVars
<1>3. (ViewHash(got.sig, got.msg) = ViewHash(sig, "msg"))'
           <=> ViewHash(got.sig, got.msg) = ViewHash(sig, "msg")
  BY <1>2, ViewHashKept
<1>4. \A x : RecoveredRoot(x)' = RecoveredRoot(x)
  BY RecoveredKept
<1>5. /\ (vopen \in [Execs -> Openings])' <=> vopen \in [Execs -> Openings]
      /\ (vopen = open)' <=> vopen = open
      /\ (vopen = open => got.sig.length = sig.length)'
           <=> (vopen = open => got.sig.length = sig.length)
      /\ (got.sig.mpcHash = sig.mpcHash => vchallenges = challenges)'
           <=> (got.sig.mpcHash = sig.mpcHash => vchallenges = challenges)
      /\ (vroots = [x \in Execs |-> vroots[x]])' <=> vroots = [x \in Execs |-> vroots[x]]
  BY <1>1, <1>2
<1>6. /\ vroots' = vroots
      /\ pc' \in {"recover", "compare"} =>
           \A x \in Execs : (pc = "recover" => x < e) => vroots[x] = RecoveredRoot(x)
  BY DEF VerifierInv
<1>7. (pc \in {"recover", "compare"} =>
         \A x \in Execs : (pc = "recover" => x < e) => vroots[x] = RecoveredRoot(x))'
  BY <1>1, <1>4, <1>6
<1> QED BY <1>3, <1>5, <1>7 DEF VerifierInv

\* The rows of a table are its executions, or the row 0 of all of them.
LEMMA RowsOfBuild ==
  ASSUME build \in Builds
  PROVE  /\ 0 \in Execs /\ Rows \subseteq Execs /\ build.execs \in Nat
         /\ \A x \in Execs : x \in Nat /\ (x - 1 \in Execs \/ x = 0)
         /\ \A x \in Execs :
              \E row \in Rows : \A table : DOMAIN table = Rows => At(table, x) = table[row]
<1>1. build.execs \in Nat \ {0}
  BY BuildsAssumption DEF Supported
<1>2. 0 \in Execs /\ \A x \in Execs : x \in Nat /\ (x - 1 \in Execs \/ x = 0)
  BY <1>1 DEF Execs
<1>3. \A x \in Execs : (IF x \in Rows THEN x ELSE 0) \in Rows
  BY <1>2 DEF Rows
<1>4. \A x \in Execs : \A table :
        DOMAIN table = Rows => At(table, x) = table[IF x \in Rows THEN x ELSE 0]
  BY DEF At
<1> QED BY <1>1, <1>2, <1>3, <1>4 DEF Rows

LEMMA InitThreshold == Init => ThresholdInv
<1> SUFFICES ASSUME Init PROVE ThresholdInv
  OBVIOUS
<1>1. pc = "setup" /\ build \in Builds /\ key \in Keys /\ seed \in Seeds /\ e = 0
  BY DEF Init
<1>2. 0 \in Execs
  BY <1>1, RowsOfBuild
<1>3. roots = [x \in Execs |-> roots[x]] /\ vroots = [x \in Execs |-> vroots[x]]
  BY DEF Init
<1>4. SetupInv
  BY <1>1, <1>2 DEF SetupInv
<1>5. RootsInv
  BY <1>1, <1>3 DEF RootsInv
<1>6. SimulationInv /\ SentInv
  BY <1>1 DEF Init, SimulationInv, SentInv, BeforeSimulate, BeforeViews, BeforeBuild, BeforeSent
<1>7. GotInv /\ VerifierInv
  BY <1>1, <1>3 DEF GotInv, VerifierInv, Verifying
<1> QED BY <1>4, <1>5, <1>6, <1>7 DEF ThresholdInv

-----------------------------------------------------------------------------
(* Every step keeps it. *)

\* The verifier has not started, or is not concerned.
LEMMA NotYetReceived ==
  ASSUME VerifierInv, UNCHANGED <<fixed, verVars>>, pc' \notin Verifying
  PROVE  GotInv' /\ VerifierInv'
<1>1. Execs' = Execs /\ vroots' = vroots
  BY OperatorsKept DEF verVars
<1>2. pc' \notin {"recover", "compare"}
  BY DEF Verifying
<1> QED BY <1>1, <1>2 DEF GotInv, VerifierInv

LEMMA SetupStep ==
  ASSUME ThresholdInv, StandardSetup \/ NfprSetup
  PROVE  ThresholdInv'
<1> USE DEF ThresholdInv
<1>1. /\ Setup(Rows) /\ pc = "setup" /\ pc' = "commit" /\ UNCHANGED <<fixed, e, verVars>>
      /\ roots' = roots /\ sig' = sig
  BY DEF StandardSetup, NfprSetup, Setup, Rows, Nfpr, Standard
<1>2. e = 0 /\ 0 \in Execs /\ build \in Builds
  BY <1>1, RowsOfBuild DEF SetupInv
<1>3. SetupInv'
  <2>1. /\ build' = build /\ key' = key /\ seed' = seed /\ Execs' = Execs /\ Ranks' = Ranks
        /\ Rows' = Rows
    BY <1>1, OperatorsKept
  <2>2. /\ plain' = [x \in Rows |-> PlainOf(key.x, DrawnUnif(seed, x))]
        /\ rnd' = [x \in Execs |-> [p \in Ranks |-> DrawnShare(seed, x, p)]]
    BY <1>1 DEF Setup, PlainOf
  <2> QED BY <1>1, <2>1, <2>2 DEF SetupInv, PlainOf
<1>4. RootsInv'
  <2>1. Execs' = Execs
    BY <1>1, OperatorsKept
  <2>2. \A x \in Execs : ~(x < e)
    BY <1>2 DEF Execs
  <2> QED BY <1>1, <2>1, <2>2 DEF RootsInv
<1>5. SimulationInv' /\ SentInv'
  BY <1>1 DEF SimulationInv, SentInv, BeforeSimulate, BeforeViews, BeforeBuild, BeforeSent
<1>6. GotInv' /\ VerifierInv'
  BY <1>1, NotYetReceived DEF Verifying
<1> QED BY <1>3, <1>4, <1>5, <1>6

LEMMA CommitStep ==
  ASSUME ThresholdInv, StandardCommit \/ NfprCommit
  PROVE  ThresholdInv'
<1> USE DEF ThresholdInv
<1>1. /\ Commit(TreeSalt) /\ pc = "commit"
      /\ UNCHANGED <<fixed, plain, rnd, challenges, alphas, br, open, sig, verVars>>
      /\ IF e + 1 \in Execs THEN e' = e + 1 /\ pc' = "commit" ELSE e' = 0 /\ pc' = "challenge"
  BY DEF StandardCommit, NfprCommit, Commit, TreeSalt, Nfpr, Standard
<1>2. /\ e \in Execs /\ 0 \in Execs /\ build \in Builds /\ build.execs \in Nat
      /\ \A x \in Execs : x \in Nat
  BY RowsOfBuild DEF SetupInv
<1>3. SetupInv'
  <2>1. e' \in Execs
    BY <1>1, <1>2
  <2>2. pc' \notin {"commit", "recover"} => e' = 0
    BY <1>1
  <2> QED BY <1>1, <2>1, <2>2, SetupKept, OperatorsKept
<1>4. RootsInv'
  <2>1. roots' = [roots EXCEPT ![e] = RootAt(e)]
    BY <1>1 DEF Commit, RootAt, ShareOf
  <2>2. Execs' = Execs /\ \A x : RootAt(x)' = RootAt(x)
    BY <1>1, OperatorsKept, RootsKept
  <2>3. roots = [x \in Execs |-> roots[x]]
    BY DEF RootsInv
  <2>4. /\ roots' = [x \in Execs |-> roots'[x]]
        /\ \A x \in Execs : roots'[x] = IF x = e THEN RootAt(e) ELSE roots[x]
    BY <1>2, <2>1, <2>3
  <2>5. ASSUME NEW x \in Execs, pc' = "commit" => x < e' PROVE roots'[x] = RootAt(x)
    <3>1. x < e \/ x = e
      <4>1. x \in Nat /\ e \in Nat
        BY <1>2
      <4>2. CASE e + 1 \in Execs
        BY <1>1, <2>5, <4>1, <4>2
      <4>3. CASE e + 1 \notin Execs
        BY <1>2, <4>1, <4>3 DEF Execs
      <4> QED BY <4>2, <4>3
    <3>2. CASE x < e
      BY <1>1, <1>2, <2>4, <3>2 DEF RootsInv
    <3>3. CASE x = e
      BY <2>4, <3>3
    <3> QED BY <3>1, <3>2, <3>3
  <2> QED BY <2>2, <2>4, <2>5 DEF RootsInv
<1>5. SimulationInv' /\ SentInv'
  BY <1>1 DEF SimulationInv, SentInv, BeforeSimulate, BeforeViews, BeforeBuild, BeforeSent
<1>6. GotInv' /\ VerifierInv'
  <2>1. pc' \notin Verifying
    BY <1>1 DEF Verifying
  <2> QED BY <1>1, <2>1, NotYetReceived
<1> QED BY <1>3, <1>4, <1>5, <1>6

LEMMA ChallengeStep ==
  ASSUME ThresholdInv, MpcChallenge
  PROVE  ThresholdInv'
<1> USE DEF ThresholdInv
<1>1. /\ pc = "challenge" /\ pc' = "simulate"
      /\ UNCHANGED <<fixed, e, plain, rnd, roots, alphas, br, open, sig, verVars>>
      /\ challenges' \in [DOMAIN plain -> Challenges]
  BY DEF MpcChallenge
<1>2. SetupInv'
  <2>1. e' \in Execs /\ e' = 0
    BY <1>1 DEF SetupInv
  <2> QED BY <1>1, <2>1, SetupKept
<1>3. RootsInv'
  BY <1>1, RootsInvKept
<1>4. SimulationInv'
  <2>1. DOMAIN plain = Rows /\ Rows' = Rows
    BY <1>1, OperatorsKept DEF SetupInv
  <2> QED BY <1>1, <2>1 DEF SimulationInv, BeforeViews, BeforeSimulate
<1>5. SentInv'
  BY <1>1 DEF SentInv, BeforeSimulate, BeforeViews, BeforeBuild, BeforeSent
<1>6. GotInv' /\ VerifierInv'
  BY <1>1, NotYetReceived DEF Verifying
<1> QED BY <1>2, <1>3, <1>4, <1>5, <1>6

LEMMA SimulateStep ==
  ASSUME ThresholdInv, StandardSimulate \/ NfprSimulate
  PROVE  ThresholdInv'
<1> USE DEF ThresholdInv
<1>1. /\ Simulate /\ pc = "simulate" /\ pc' = "views"
      /\ UNCHANGED <<fixed, e, plain, rnd, roots, challenges, open, sig, verVars>>
  BY DEF StandardSimulate, NfprSimulate, Simulate
<1>2. SetupInv'
  <2>1. e' \in Execs /\ e' = 0
    BY <1>1 DEF SetupInv
  <2> QED BY <1>1, <2>1, SetupKept
<1>3. RootsInv'
  BY <1>1, RootsInvKept
<1>4. SimulationInv'
  <2>1. DOMAIN plain = Rows
    BY <1>1 DEF SetupInv
  <2>2. /\ Rows' = Rows /\ Execs' = Execs /\ Ranks' = Ranks /\ inst' = inst
    BY <1>1, OperatorsKept
  <2>3. challenges' = challenges /\ plain' = plain /\ rnd' = rnd
    BY <1>1
  <2>4. challenges \in [Rows -> Challenges]
    BY <1>1 DEF SimulationInv, BeforeSimulate
  <2>5. alphas' = [x \in Rows |-> Alpha(challenges[x], plain[x], inst)]
    BY <1>1, <2>1 DEF Simulate
  <2>6. br' = [x \in Execs |-> [p \in Ranks |->
                Broadcast(At(challenges, x), rnd[x][p], At(alphas', x), inst, FALSE)]]
    BY <1>1 DEF Simulate
  <2>7. \A x, p : BrOf(x, p)'
                    = Broadcast(At(challenges, x), rnd[x][p], At(alphas', x), inst, FALSE)
    BY <2>2, <2>3 DEF BrOf, At
  <2>8. br' = [x \in Execs |-> [p \in Ranks |-> BrOf(x, p)']]
    BY <2>6, <2>7
  <2> QED BY <2>2, <2>3, <2>4, <2>5, <2>8 DEF SimulationInv
<1>5. SentInv'
  BY <1>1 DEF SentInv, BeforeSimulate, BeforeViews, BeforeBuild, BeforeSent
<1>6. GotInv' /\ VerifierInv'
  BY <1>1, NotYetReceived DEF Verifying
<1> QED BY <1>2, <1>3, <1>4, <1>5, <1>6

LEMMA ViewsStep ==
  ASSUME ThresholdInv, ViewChallenge
  PROVE  ThresholdInv'
<1> USE DEF ThresholdInv
<1>1. /\ pc = "views" /\ pc' = "build" /\ open' \in [Execs -> Openings]
      /\ UNCHANGED <<fixed, e, plain, rnd, roots, challenges, alphas, br, sig, verVars>>
  BY DEF ViewChallenge
<1>2. SetupInv'
  <2>1. e' \in Execs /\ e' = 0
    BY <1>1 DEF SetupInv
  <2> QED BY <1>1, <2>1, SetupKept
<1>3. RootsInv'
  BY <1>1, RootsInvKept
<1>4. SimulationInv'
  BY <1>1, SimulationKept DEF BeforeSimulate, BeforeViews
<1>5. SentInv'
  <2>1. Execs' = Execs /\ Openings' = Openings
    BY <1>1, OperatorsKept
  <2> QED BY <1>1, <2>1 DEF SentInv, BeforeSimulate, BeforeViews, BeforeBuild, BeforeSent
<1>6. GotInv' /\ VerifierInv'
  BY <1>1, NotYetReceived DEF Verifying
<1> QED BY <1>2, <1>3, <1>4, <1>5, <1>6

LEMMA BuildStep ==
  ASSUME ThresholdInv, StandardBuild \/ NfprBuild
  PROVE  ThresholdInv'
<1> USE DEF ThresholdInv
<1>1. /\ BuildSignature /\ pc = "build" /\ pc' \in {"sent", "failed"}
      /\ UNCHANGED <<fixed, e, plain, rnd, roots, challenges, alphas, br, open, verVars>>
  BY DEF StandardBuild, NfprBuild, BuildSignature
<1>2. SetupInv'
  <2>1. e' \in Execs /\ e' = 0
    BY <1>1 DEF SetupInv
  <2> QED BY <1>1, <2>1, SetupKept
<1>3. RootsInv'
  BY <1>1, RootsInvKept
<1>4. SimulationInv'
  BY <1>1, SimulationKept DEF BeforeSimulate, BeforeViews
<1>5. SentInv'
  <2>1. open' = open /\ Execs' = Execs /\ Openings' = Openings /\ Sent' = Sent
    BY <1>1, OperatorsKept, SentKept
  <2>2. sig' = Sent
    BY <1>1 DEF BuildSignature, Sent
  <2>3. open \in [Execs -> Openings]
    BY <1>1 DEF SentInv, BeforeSimulate, BeforeViews, BeforeBuild
  <2>4. pc' \notin BeforeSent
    BY <1>1 DEF BeforeSimulate, BeforeViews, BeforeBuild, BeforeSent
  <2> QED BY <2>1, <2>2, <2>3, <2>4 DEF SentInv
<1>6. GotInv' /\ VerifierInv'
  BY <1>1, NotYetReceived DEF Verifying
<1> QED BY <1>2, <1>3, <1>4, <1>5, <1>6

LEMMA SentSignature ==
  ASSUME ThresholdInv, pc \notin BeforeSent
  PROVE  /\ sig = Sent /\ open \in [Execs -> Openings]
         /\ sig = [salt |-> sig.salt, mpcHash |-> sig.mpcHash, alphas |-> sig.alphas,
                   br |-> sig.br, wits |-> sig.wits, auth |-> sig.auth, length |-> sig.length]
         /\ sig.alphas = [x \in Rows |-> sig.alphas[x]]
         /\ sig.br = [x \in Execs |-> [p \in Ranks |-> sig.br[x][p]]]
         /\ \A x \in Execs, p \in Ranks :
              sig.br[x][p] = [alpha |-> sig.br[x][p].alpha, v |-> sig.br[x][p].v]
         /\ sig.wits = [x \in Execs |-> [p \in Ranks |-> sig.wits[x][p]]]
         /\ sig.auth = [x \in Execs |-> sig.auth[x]]
<1> USE DEF ThresholdInv
<1>1. sig = Sent /\ open \in [Execs -> Openings] /\ pc \notin BeforeViews
  BY DEF SentInv, BeforeBuild, BeforeSent
<1>2. /\ alphas = [x \in Rows |-> Alpha(challenges[x], plain[x], inst)]
      /\ br = [x \in Execs |-> [p \in Ranks |-> BrOf(x, p)]]
  BY <1>1 DEF SimulationInv
<1>3. sig.alphas = alphas /\ sig.br = br
  BY <1>1 DEF Sent
<1>4. \A x, p : BrOf(x, p) = [alpha |-> BrOf(x, p).alpha, v |-> BrOf(x, p).v]
  BY DEF BrOf, Broadcast
<1>5. \A x \in Execs, p \in Ranks : sig.br[x][p] = BrOf(x, p)
  BY <1>2, <1>3
<1>6. sig.alphas = [x \in Rows |-> sig.alphas[x]]
  BY <1>2, <1>3
<1>7. sig.br = [x \in Execs |-> [p \in Ranks |-> sig.br[x][p]]]
  BY <1>2, <1>3, <1>5
<1>8. /\ sig.wits = [x \in Execs |-> [p \in Ranks |-> sig.wits[x][p]]]
      /\ sig.auth = [x \in Execs |-> sig.auth[x]]
      /\ sig = [salt |-> sig.salt, mpcHash |-> sig.mpcHash, alphas |-> sig.alphas,
                br |-> sig.br, wits |-> sig.wits, auth |-> sig.auth, length |-> sig.length]
  BY <1>1 DEF Sent
<1> QED BY <1>1, <1>4, <1>5, <1>6, <1>7, <1>8

LEMMA Delivered ==
  ASSUME NEW m, NEW s, Deliver(m, s), s.mpcHash \in {sig.mpcHash, Forged},
         \A x \in Execs : s.auth[x] \in {sig.auth[x], Forged},
         m # "msg" \/ s = sig \/ Differs(s)
  PROVE  GotInv'
<1>1. /\ got' = [msg |-> m, sig |-> s] /\ sig' = sig /\ Execs' = Execs /\ Ranks' = Ranks
  BY OperatorsKept DEF Deliver, signVars
<1>2. got'.msg = m /\ got'.sig = s
  BY <1>1
<1>3. genuine' <=> m = "msg" /\ s = sig
  BY DEF Deliver
<1>4. CASE m = "msg" /\ s = sig
  <2>1. genuine' /\ got' = [msg |-> "msg", sig |-> sig']
    BY <1>1, <1>3, <1>4
  <2> QED BY <1>1, <1>2, <2>1 DEF GotInv
<1>5. CASE ~(m = "msg" /\ s = sig)
  <2>1. ~genuine'
    BY <1>3, <1>5
  <2>2. Altered'
    BY <1>1, <1>2, <1>5 DEF Altered, Differs
  <2> QED BY <1>1, <1>2, <2>1, <2>2 DEF GotInv
<1> QED BY <1>4, <1>5

LEMMA HeaderDelivered ==
  ASSUME ThresholdInv, DeliverGenuine \/ DeliverOtherHeader
  PROVE  GotInv'
<1>1. pc = "sent"
  BY DEF DeliverGenuine, DeliverOtherHeader, Deliver
<1>2. sig = [salt |-> sig.salt, mpcHash |-> sig.mpcHash, alphas |-> sig.alphas,
             br |-> sig.br, wits |-> sig.wits, auth |-> sig.auth, length |-> sig.length]
  BY <1>1, SentSignature DEF BeforeSent, BeforeBuild, BeforeViews, BeforeSimulate
<1>3. CASE DeliverGenuine \/ Deliver("other", sig)
  BY <1>3, Delivered DEF DeliverGenuine
<1>4. CASE Deliver("msg", [sig EXCEPT !.salt = "other"])
  <2> DEFINE s == [sig EXCEPT !.salt = "other"]
  <2>1. s.mpcHash = sig.mpcHash /\ s.auth = sig.auth /\ (s = sig \/ s.salt # sig.salt)
    BY <1>2
  <2> HIDE DEF s
  <2> QED BY <1>4, <2>1, Delivered DEF Differs, s
<1>5. CASE Deliver("msg", [sig EXCEPT !.mpcHash = Forged])
  <2> DEFINE s == [sig EXCEPT !.mpcHash = Forged]
  <2>1. s.mpcHash = Forged /\ s.auth = sig.auth /\ (s = sig \/ s.mpcHash # sig.mpcHash)
    BY <1>2
  <2> HIDE DEF s
  <2> QED BY <1>5, <2>1, Delivered DEF Differs, s
<1>6. CASE \E n \in {-1, 1} : Deliver("msg", [sig EXCEPT !.length = @ + n])
  <2>1. PICK n : Deliver("msg", [sig EXCEPT !.length = @ + n])
    BY <1>6
  <2> DEFINE s == [sig EXCEPT !.length = @ + n]
  <2>2. s.mpcHash = sig.mpcHash /\ s.auth = sig.auth /\ (s = sig \/ s.length # sig.length)
    BY <1>2
  <2> HIDE DEF s
  <2> QED BY <2>1, <2>2, Delivered DEF Differs, s
<1> QED BY <1>3, <1>4, <1>5, <1>6 DEF DeliverOtherHeader

LEMMA ProofDelivered ==
  ASSUME ThresholdInv, DeliverOtherProof
  PROVE  GotInv'
<1>1. pc = "sent"
  BY DEF DeliverOtherProof, Deliver
<1>2. pc \notin BeforeSent /\ pc # "setup"
  BY <1>1 DEF BeforeSent, BeforeBuild, BeforeViews, BeforeSimulate
<1>3. sig = [salt |-> sig.salt, mpcHash |-> sig.mpcHash, alphas |-> sig.alphas,
             br |-> sig.br, wits |-> sig.wits, auth |-> sig.auth, length |-> sig.length]
  BY <1>2, SentSignature
<1>4. CASE \E x \in DOMAIN plain : Deliver("msg", [sig EXCEPT !.alphas[x] = F(@ + 1)])
  <2>1. PICK x \in DOMAIN plain : Deliver("msg", [sig EXCEPT !.alphas[x] = F(@ + 1)])
    BY <1>4
  <2> DEFINE s == [sig EXCEPT !.alphas[x] = F(@ + 1)]
  <2>2. s.mpcHash = sig.mpcHash /\ s.auth = sig.auth /\ (s = sig \/ s.alphas # sig.alphas)
    BY <1>3
  <2> HIDE DEF s
  <2> QED BY <2>1, <2>2, Delivered DEF Differs, s
<1>5. ASSUME NEW x \in Execs, NEW p \in Ranks,
             \/ Deliver("msg", [sig EXCEPT !.br[x][p].alpha = F(@ + 1)])
             \/ Deliver("msg", [sig EXCEPT !.br[x][p].v = F(@ + 1)])
      PROVE  GotInv'
  <2>1. PICK b : Deliver("msg", [sig EXCEPT !.br = b])
    BY <1>5
  <2> DEFINE s == [sig EXCEPT !.br = b]
  <2>2. s.mpcHash = sig.mpcHash /\ s.auth = sig.auth /\ (s = sig \/ s.br # sig.br)
    BY <1>3
  <2> HIDE DEF s
  <2> QED BY <2>1, <2>2, Delivered DEF Differs, s
<1>6. ASSUME NEW x \in Execs, NEW p \in Ranks,
             Deliver("msg", [sig EXCEPT !.wits[x][p] = F(@ + 1)])
      PROVE  GotInv'
  <2> DEFINE w == F(sig.wits[x][p] + 1)
             s == [sig EXCEPT !.wits[x][p] = F(@ + 1)]
  <2>1. s = [sig EXCEPT !.wits[x][p] = w]
    OBVIOUS
  <2> HIDE DEF w
  <2>2. sig.wits = [y \in Execs |-> [q \in Ranks |-> sig.wits[y][q]]]
    BY <1>2, SentSignature
  <2>3. s.mpcHash = sig.mpcHash /\ s.auth = sig.auth /\ s.wits[x][p] = w
    BY <1>3, <2>1, <2>2
  <2>4. s = sig \/ w # sig.wits[x][p]
    <3>1. ASSUME w = sig.wits[x][p] PROVE s = sig
      <4>1. [sig.wits[x] EXCEPT ![p] = w] = sig.wits[x]
        BY <2>2, <3>1
      <4>2. [sig.wits EXCEPT ![x] = sig.wits[x]] = sig.wits
        BY <2>2
      <4>3. s = [sig EXCEPT !.wits = [sig.wits EXCEPT ![x] = [sig.wits[x] EXCEPT ![p] = w]]]
        BY <2>1
      <4> HIDE DEF s
      <4> QED BY <1>3, <4>1, <4>2, <4>3
    <3> QED BY <3>1
  <2> HIDE DEF s
  <2> QED BY <1>6, <2>3, <2>4, Delivered DEF Differs, s
<1>7. ASSUME NEW x \in Execs, Deliver("msg", [sig EXCEPT !.auth[x] = Forged])
      PROVE  GotInv'
  <2> DEFINE s == [sig EXCEPT !.auth[x] = Forged]
  <2>1. sig.auth = [y \in Execs |-> sig.auth[y]]
    BY <1>2, SentSignature
  <2>2. s.mpcHash = sig.mpcHash /\ s.auth = [sig.auth EXCEPT ![x] = Forged]
    BY <1>3
  <2>3. \A y \in Execs : s.auth[y] \in {sig.auth[y], Forged}
    BY <2>1, <2>2
  <2>4. s = sig \/ s.auth[x] # sig.auth[x]
    <3>1. ASSUME Forged = sig.auth[x] PROVE s = sig
      <4>1. [sig.auth EXCEPT ![x] = Forged] = sig.auth
        BY <2>1, <3>1
      <4> QED BY <1>3, <4>1
    <3>2. s.auth[x] = Forged
      BY <2>1, <2>2
    <3> QED BY <3>1, <3>2
  <2> HIDE DEF s
  <2> QED BY <1>7, <2>2, <2>3, <2>4, Delivered DEF Differs, s
<1> QED BY <1>4, <1>5, <1>6, <1>7 DEF DeliverOtherProof

LEMMA TransmitStep ==
  ASSUME ThresholdInv, Transmit
  PROVE  ThresholdInv'
<1> USE DEF ThresholdInv
<1>1. /\ pc = "sent" /\ pc' = "parse"
      /\ UNCHANGED <<fixed, e, signVars, vchallenges, vopen, vroots, verdict>>
  BY DEF Transmit, DeliverGenuine, DeliverOtherHeader, DeliverOtherProof, Deliver
<1>2. UNCHANGED <<plain, rnd, roots, challenges, alphas, br, open, sig>>
  BY <1>1 DEF signVars
<1>3. SetupInv'
  <2>1. e' \in Execs /\ e' = 0
    BY <1>1 DEF SetupInv
  <2> QED BY <1>1, <1>2, <2>1, SetupKept
<1>4. RootsInv' /\ SimulationInv'
  BY <1>1, <1>2, RootsInvKept, SimulationKept DEF BeforeSimulate, BeforeViews
<1>5. SentInv'
  BY <1>1, SentInvKept DEF BeforeSimulate, BeforeViews, BeforeBuild, BeforeSent
<1>6. GotInv'
  BY HeaderDelivered, ProofDelivered DEF Transmit
<1>7. VerifierInv'
  <2>1. vroots' = vroots /\ Execs' = Execs
    BY <1>1, OperatorsKept
  <2> QED BY <1>1, <2>1 DEF VerifierInv
<1> QED BY <1>3, <1>4, <1>5, <1>6, <1>7

LEMMA SignerKept ==
  ASSUME ThresholdInv, UNCHANGED <<fixed, signVars>>, pc \in Verifying,
         pc' \in Verifying \cup {"done"}, e' \in Execs,
         pc' # "recover" => e' = 0
  PROVE  SetupInv' /\ RootsInv' /\ SimulationInv' /\ SentInv'
<1> USE DEF ThresholdInv
<1>1. /\ pc \notin BeforeSent /\ pc # "setup" /\ pc # "commit"
      /\ pc' \notin BeforeSent /\ pc' # "setup" /\ pc' # "commit"
  BY DEF Verifying, BeforeSent, BeforeBuild, BeforeViews, BeforeSimulate
<1>2. UNCHANGED <<plain, rnd, roots, challenges, alphas, br, open, sig>>
  BY DEF signVars
<1>3. SetupInv'
  BY <1>1, <1>2, SetupKept
<1>4. RootsInv'
  BY <1>1, <1>2, RootsInvKept
<1>5. SimulationInv'
  BY <1>1, <1>2, SimulationKept DEF BeforeSent, BeforeBuild, BeforeViews
<1>6. SentInv'
  BY <1>1, SentInvKept DEF BeforeSent, BeforeBuild
<1> QED BY <1>3, <1>4, <1>5, <1>6

LEMMA ParseStep ==
  ASSUME ThresholdInv, StandardParse \/ NfprParse
  PROVE  ThresholdInv' /\ (genuine => pc' = "expand")
<1> USE DEF ThresholdInv
<1>1. /\ pc = "parse" /\ UNCHANGED <<fixed, e, signVars, got, genuine, vchallenges, vroots>>
      /\ vopen' \in [Execs -> Openings]
      /\ vopen' = open <=> ViewHash(got.sig, got.msg) = ViewHash(sig, "msg")
      /\ IF got.sig.length = LengthRequired(vopen')
         THEN pc' = "expand" ELSE pc' = "done"
  BY DEF StandardParse, NfprParse, Parse
<1>2. pc \in Verifying /\ pc' \in Verifying \cup {"done"} /\ pc' # "recover" /\ pc \notin BeforeSent
  BY <1>1 DEF Verifying, BeforeSent, BeforeBuild, BeforeViews, BeforeSimulate
<1>3. e' \in Execs /\ e' = 0
  BY <1>1 DEF SetupInv
<1>4. SetupInv' /\ RootsInv' /\ SimulationInv' /\ SentInv'
  BY <1>1, <1>2, <1>3, SignerKept
<1>5. sig' = sig /\ open' = open
  BY <1>1 DEF signVars
<1>6. GotInv'
  BY <1>1, <1>2, <1>5, GotKept
<1>7. sig.length = LengthRequired(open)
  BY <1>2, SentSignature DEF Sent, LengthBuilt, LengthRequired
<1>8. VerifierInv'
  <2>1. Execs' = Execs /\ Openings' = Openings
    BY <1>1, OperatorsKept
  <2>2. (ViewHash(got.sig, got.msg) = ViewHash(sig, "msg"))'
           <=> ViewHash(got.sig, got.msg) = ViewHash(sig, "msg")
    BY <1>1, <1>5, ViewHashKept
  <2>3. /\ (vopen \in [Execs -> Openings])'
        /\ (vopen = open)' <=> ViewHash(got.sig, got.msg) = ViewHash(sig, "msg")
        /\ (vroots = [x \in Execs |-> vroots[x]])'
    BY <1>1, <1>5, <2>1 DEF VerifierInv
  <2>4. CASE pc' = "expand"
    <3>1. got.sig.length = LengthRequired(vopen')
      BY <1>1, <2>4
    <3>2. (vopen = open => got.sig.length = sig.length)'
      BY <1>1, <1>5, <1>7, <3>1
    <3> QED BY <2>2, <2>3, <2>4, <3>2 DEF VerifierInv, Verifying
  <2>5. CASE pc' = "done"
    BY <2>3, <2>5 DEF VerifierInv, Verifying
  <2> QED BY <1>1, <2>4, <2>5
<1>9. ASSUME genuine PROVE pc' = "expand"
  <2>1. got.sig = sig /\ got.msg = "msg"
    BY <1>2, <1>9 DEF GotInv
  <2>2. vopen' = open
    BY <1>1, <2>1
  <2> QED BY <1>1, <1>7, <2>1, <2>2
<1> QED BY <1>4, <1>6, <1>8, <1>9

LEMMA ExpandStep ==
  ASSUME ThresholdInv, ExpandMpcChallenge
  PROVE  ThresholdInv'
<1> USE DEF ThresholdInv
<1>1. /\ pc = "expand" /\ pc' = "recover"
      /\ UNCHANGED <<fixed, e, signVars, got, genuine, vopen, vroots>>
      /\ got.sig.mpcHash = sig.mpcHash => vchallenges' = challenges
  BY DEF ExpandMpcChallenge
<1>2. pc \in Verifying /\ pc' \in Verifying
  BY <1>1 DEF Verifying
<1>3. e' \in Execs /\ e' = 0 /\ e = 0 /\ build \in Builds
  BY <1>1 DEF SetupInv
<1>4. SetupInv' /\ RootsInv' /\ SimulationInv' /\ SentInv'
  BY <1>1, <1>2, <1>3, SignerKept
<1>5. sig' = sig /\ open' = open /\ challenges' = challenges
  BY <1>1 DEF signVars
<1>6. GotInv'
  BY <1>1, <1>2, <1>5, GotKept
<1>7. VerifierInv'
  <2>1. Execs' = Execs /\ Openings' = Openings
    BY <1>1, OperatorsKept
  <2>2. (ViewHash(got.sig, got.msg) = ViewHash(sig, "msg"))'
           <=> ViewHash(got.sig, got.msg) = ViewHash(sig, "msg")
    BY <1>1, <1>5, ViewHashKept
  <2>3. /\ vopen \in [Execs -> Openings]
        /\ vopen = open <=> ViewHash(got.sig, got.msg) = ViewHash(sig, "msg")
        /\ vopen = open => got.sig.length = sig.length
        /\ vroots = [x \in Execs |-> vroots[x]]
    BY <1>1, <1>2 DEF VerifierInv
  <2>4. vopen' = vopen /\ got' = got /\ vroots' = vroots
    BY <1>1
  <2>5. \A x \in Execs : ~(x < e')
    BY <1>3, RowsOfBuild
  <2>6. /\ (vopen \in [Execs -> Openings])'
        /\ (vopen = open => got.sig.length = sig.length)'
        /\ (vroots = [x \in Execs |-> vroots[x]])'
        /\ (got.sig.mpcHash = sig.mpcHash => vchallenges = challenges)'
    BY <1>1, <1>5, <2>1, <2>3, <2>4
  <2>7. (vopen = open <=> ViewHash(got.sig, got.msg) = ViewHash(sig, "msg"))'
    BY <1>5, <2>2, <2>3, <2>4
  <2>8. (\A x \in Execs : (pc = "recover" => x < e) => vroots[x] = RecoveredRoot(x))'
    BY <1>1, <2>1, <2>5
  <2> QED BY <2>6, <2>7, <2>8 DEF VerifierInv
<1> QED BY <1>4, <1>6, <1>7

LEMMA RecoverStep ==
  ASSUME ThresholdInv, StandardRecover \/ NfprRecover
  PROVE  ThresholdInv'
<1> USE DEF ThresholdInv
<1>1. /\ Recover(VTreeSalt) /\ pc = "recover"
      /\ UNCHANGED <<fixed, signVars, got, genuine, vchallenges, vopen, verdict>>
      /\ IF e + 1 \in Execs THEN e' = e + 1 /\ pc' = "recover" ELSE e' = 0 /\ pc' = "compare"
  BY DEF StandardRecover, NfprRecover, Recover, VTreeSalt, Nfpr, Standard
<1>2. pc \in Verifying /\ pc' \in Verifying
  BY <1>1 DEF Verifying
<1>3. /\ e \in Execs /\ 0 \in Execs /\ build \in Builds /\ build.execs \in Nat
      /\ \A x \in Execs : x \in Nat
  BY RowsOfBuild DEF SetupInv
<1>4. SetupInv' /\ RootsInv' /\ SimulationInv' /\ SentInv'
  BY <1>1, <1>2, <1>3, SignerKept
<1>5. sig' = sig /\ open' = open /\ challenges' = challenges
  BY <1>1 DEF signVars
<1>6. GotInv'
  BY <1>1, <1>2, <1>5, GotKept
<1>7. VerifierInv'
  <2>1. Execs' = Execs /\ Openings' = Openings
    BY <1>1, OperatorsKept
  <2>2. (ViewHash(got.sig, got.msg) = ViewHash(sig, "msg"))'
           <=> ViewHash(got.sig, got.msg) = ViewHash(sig, "msg")
    BY <1>1, <1>5, ViewHashKept
  <2>3. vroots' = [vroots EXCEPT ![e] = RecoveredRoot(e)]
    BY <1>1 DEF Recover, Recovered, RecoveredRoot, RecoveredShare, RankOf
  <2>4. vroots = [x \in Execs |-> vroots[x]]
    BY DEF VerifierInv
  <2>5. /\ vroots' = [x \in Execs |-> vroots'[x]]
        /\ \A x \in Execs : vroots'[x] = IF x = e THEN RecoveredRoot(e) ELSE vroots[x]
    BY <1>3, <2>3, <2>4
  <2>6. ASSUME NEW x \in Execs, pc' = "recover" => x < e' PROVE vroots'[x] = RecoveredRoot(x)
    <3>1. x < e \/ x = e
      <4>1. x \in Nat /\ e \in Nat
        BY <1>3
      <4>2. CASE e + 1 \in Execs
        BY <1>1, <2>6, <4>1, <4>2
      <4>3. CASE e + 1 \notin Execs
        BY <1>3, <4>1, <4>3 DEF Execs
      <4> QED BY <4>2, <4>3
    <3>2. CASE x < e
      BY <1>1, <1>3, <2>5, <3>2 DEF VerifierInv
    <3>3. CASE x = e
      BY <2>5, <3>3
    <3> QED BY <3>1, <3>2, <3>3
  <2>7. \A x : RecoveredRoot(x)' = RecoveredRoot(x)
    BY <1>1, RecoveredKept
  <2>8. /\ vopen' = vopen /\ got' = got /\ vchallenges' = vchallenges
    BY <1>1
  <2>9. /\ vopen \in [Execs -> Openings]
        /\ vopen = open <=> ViewHash(got.sig, got.msg) = ViewHash(sig, "msg")
        /\ vopen = open => got.sig.length = sig.length
        /\ got.sig.mpcHash = sig.mpcHash => vchallenges = challenges
    BY <1>1, <1>2 DEF VerifierInv
  <2>10. /\ (vopen \in [Execs -> Openings])'
         /\ (vopen = open => got.sig.length = sig.length)'
         /\ (vroots = [x \in Execs |-> vroots[x]])'
         /\ (got.sig.mpcHash = sig.mpcHash => vchallenges = challenges)'
    BY <1>5, <2>1, <2>5, <2>8, <2>9
  <2>11. (vopen = open <=> ViewHash(got.sig, got.msg) = ViewHash(sig, "msg"))'
    BY <1>5, <2>2, <2>8, <2>9
  <2>12. (\A x \in Execs : (pc = "recover" => x < e) => vroots[x] = RecoveredRoot(x))'
    BY <2>1, <2>6, <2>7
  <2> QED BY <2>10, <2>11, <2>12 DEF VerifierInv
<1> QED BY <1>4, <1>6, <1>7

LEMMA CompareStep ==
  ASSUME ThresholdInv, Compare
  PROVE  ThresholdInv'
<1> USE DEF ThresholdInv
<1>1. /\ pc = "compare" /\ pc' = "done"
      /\ UNCHANGED <<fixed, e, signVars, got, genuine, vchallenges, vopen, vroots>>
  BY DEF Compare
<1>2. pc \in Verifying /\ pc' \notin Verifying
  BY <1>1 DEF Verifying
<1>3. e' \in Execs /\ e' = 0
  BY <1>1 DEF SetupInv
<1>4. SetupInv' /\ RootsInv' /\ SimulationInv' /\ SentInv'
  BY <1>1, <1>2, <1>3, SignerKept
<1>5. GotInv'
  BY <1>1, <1>2 DEF GotInv
<1>6. VerifierInv'
  BY <1>1, <1>2, VerifierKept DEF Verifying
<1> QED BY <1>4, <1>5, <1>6

LEMMA StutterStep ==
  ASSUME ThresholdInv, UNCHANGED vars
  PROVE  ThresholdInv'
<1> USE DEF ThresholdInv
<1>1. /\ pc' = pc /\ e' = e
      /\ UNCHANGED <<fixed, signVars, got, genuine, vchallenges, vopen, vroots>>
  BY DEF vars, verVars
<1>2. UNCHANGED <<plain, rnd, roots, challenges, alphas, br, open, sig>>
  BY <1>1 DEF signVars
<1>3. SetupInv'
  <2>1. e' \in Execs /\ (pc' \notin {"commit", "recover"} => e' = 0)
    BY <1>1 DEF SetupInv
  <2> QED BY <1>1, <1>2, <2>1, SetupKept
<1>4. RootsInv' /\ SimulationInv'
  BY <1>1, <1>2, RootsInvKept, SimulationKept
<1>5. SentInv' /\ GotInv' /\ VerifierInv'
  BY <1>1, <1>2, SentInvKept, GotKept, VerifierKept
<1> QED BY <1>3, <1>4, <1>5

LEMMA ThresholdStep == ThresholdInv /\ [Next]_vars => ThresholdInv'
<1> SUFFICES ASSUME ThresholdInv, [Next]_vars PROVE ThresholdInv'
  OBVIOUS
<1>1. CASE Sign
  BY <1>1, SetupStep, CommitStep, ChallengeStep, SimulateStep, ViewsStep, BuildStep DEF Sign
<1>2. CASE Transmit
  BY <1>2, TransmitStep
<1>3. CASE Verify
  BY <1>3, ParseStep, ExpandStep, RecoverStep, CompareStep DEF Verify
<1>4. CASE Stopped \/ UNCHANGED vars
  BY <1>4, StutterStep DEF Stopped
<1> QED BY <1>1, <1>2, <1>3, <1>4 DEF Next

LEMMA ThresholdInvariant == Spec => []ThresholdInv
BY InitThreshold, ThresholdStep, PTL DEF Spec

-----------------------------------------------------------------------------
(* The roots of a signature that was not altered. *)

LEMMA SecretOf ==
  ASSUME ThresholdInv, pc \notin BeforeViews, NEW x \in Execs
  PROVE  /\ inst \in [A : Field, b : Field, y : Field] /\ key.x \in Field
         /\ IsSolution(key.x, inst)
         /\ rnd[x] \in [Ranks -> Share]
         /\ At(challenges, x) \in Challenge
         /\ At(plain, x) \in Share /\ At(plain, x).wit = key.x
         /\ At(alphas, x) \in Field
         /\ Broadcast(At(challenges, x), At(plain, x), At(alphas, x), inst, TRUE)
              = PlainBroadcast(At(alphas, x))
         /\ br[x] \in [Ranks -> Br]
         /\ \A p \in Ranks :
              br[x][p] = Broadcast(At(challenges, x), rnd[x][p], At(alphas, x), inst, FALSE)
<1> USE DEF ThresholdInv
<1>1. pc # "setup" /\ pc \notin BeforeSimulate /\ build \in Builds /\ key \in Keys /\ seed \in Seeds
  BY DEF BeforeViews, BeforeSimulate, SetupInv
<1>2. key.A \in Field /\ key.b \in Field /\ key.x \in Field
  BY <1>1, SharesAssumption
<1>3. key.A \in Int /\ key.b \in Int /\ key.x \in Int
  BY <1>2, FieldElements
<1>4. F(key.A * key.x * key.x + key.b * key.x) \in Field
  <2>1. PICK n \in Int : n = key.A * key.x * key.x + key.b * key.x
    BY <1>3
  <2> QED BY <2>1, NormalForm
<1>5. inst \in [A : Field, b : Field, y : Field] /\ IsSolution(key.x, inst)
  BY <1>2, <1>4 DEF inst, Instance, IsSolution
<1>6. \A y \in Execs : /\ DrawnUnif(seed, y) \in Field
                       /\ \A p \in Ranks : DrawnShare(seed, y, p) \in Share
  BY <1>1, SharesAssumption DEF Execs, Ranks
<1>7. rnd[x] \in [Ranks -> Share]
  BY <1>1, <1>6 DEF SetupInv
<1>8. PICK row \in Rows : \A table : DOMAIN table = Rows => At(table, x) = table[row]
  BY <1>1, RowsOfBuild
<1>9. /\ plain = [y \in Rows |-> PlainOf(key.x, DrawnUnif(seed, y))]
      /\ challenges \in [Rows -> Challenges]
      /\ alphas = [y \in Rows |-> Alpha(challenges[y], plain[y], inst)]
  BY <1>1 DEF SetupInv, SimulationInv
<1>10. /\ At(plain, x) = PlainOf(key.x, DrawnUnif(seed, row))
       /\ At(challenges, x) = challenges[row] /\ challenges[row] \in Challenge
       /\ At(alphas, x) = Alpha(challenges[row], plain[row], inst)
  BY <1>8, <1>9, ChallengesAssumption
<1>11. DrawnUnif(seed, row) \in Field /\ plain[row] = PlainOf(key.x, DrawnUnif(seed, row))
  BY <1>1, <1>6, <1>9, RowsOfBuild
<1>12. /\ At(plain, x) \in Share /\ At(plain, x).wit = key.x /\ At(alphas, x) \in Field
       /\ Broadcast(At(challenges, x), At(plain, x), At(alphas, x), inst, TRUE)
            = PlainBroadcast(At(alphas, x))
  <2> DEFINE s == PlainOf(key.x, DrawnUnif(seed, row))
             a == Alpha(challenges[row], s, inst)
  <2>1. /\ s \in Share /\ a \in Field
        /\ Broadcast(challenges[row], s, a, inst, TRUE) = PlainBroadcast(a)
    <3>1. PICK ch \in Challenge, u \in Field, I \in [A : Field, b : Field, y : Field] :
            ch = challenges[row] /\ u = DrawnUnif(seed, row) /\ I = inst
      BY <1>5, <1>10, <1>11
    <3>2. IsSolution(key.x, I) /\ key.x \in Field
      BY <1>2, <1>5, <3>1
    <3>3. /\ PlainOf(key.x, u) \in Share /\ Alpha(ch, PlainOf(key.x, u), I) \in Field
          /\ Broadcast(ch, PlainOf(key.x, u), Alpha(ch, PlainOf(key.x, u), I), I, TRUE)
               = PlainBroadcast(Alpha(ch, PlainOf(key.x, u), I))
      BY <3>2, PlainBroadcastOf
    <3> QED BY <3>1, <3>3
  <2>2. s.wit = key.x
    BY DEF PlainOf
  <2> HIDE DEF s, a
  <2>3. At(plain, x) = s /\ At(alphas, x) = a
    BY <1>10, <1>11 DEF s, a
  <2> QED BY <1>10, <2>1, <2>2, <2>3
<1>13. br[x] = [p \in Ranks |-> BrOf(x, p)]
  BY <1>1 DEF SimulationInv
<1>14. \A p \in Ranks : BrOf(x, p) \in Br
  BY <1>5, <1>7, <1>10, <1>12, BroadcastIsBr DEF BrOf
<1>15. br[x] \in [Ranks -> Br] /\ \A p \in Ranks : br[x][p] = BrOf(x, p)
  BY <1>13, <1>14
<1> QED BY <1>2, <1>5, <1>7, <1>10, <1>12, <1>15 DEF BrOf

\* Turning the protocol round gives each party's share back.
LEMMA ShareOfParty ==
  ASSUME ThresholdInv, pc \notin BeforeViews, NEW x \in Execs, NEW i \in Parties
  PROVE  ShareFromBroadcast(At(challenges, x), ShareOf(x, i).wit,
           ShareBroadcast(PlainBroadcast(At(alphas, x)), br[x], Eval(i)),
           At(alphas, x), inst, HasSharingOffset(i)) = ShareOf(x, i)
<1>1. build \in Builds
  BY DEF ThresholdInv, SetupInv
<1>2. Eval(i) = i /\ i \in Int
  <2>1. i \in Nat /\ i <= 255
    BY <1>1, BuildsAssumption DEF Supported, Parties
  <2> QED BY <2>1 DEF Eval
<1>3. PICK ch \in Challenge : ch = At(challenges, x)
  BY SecretOf
<1>4. PICK secret \in Share : secret = At(plain, x)
  BY SecretOf
<1>5. PICK alpha \in Field : alpha = At(alphas, x)
  BY SecretOf
<1>6. PICK coeffs \in [Ranks -> Share] : coeffs = rnd[x]
  BY SecretOf
<1>7. PICK I \in [A : Field, b : Field, y : Field] : I = inst
  BY SecretOf
<1>8. PICK brs \in [Ranks -> Br] : brs = br[x]
  BY SecretOf
<1>9. /\ PlainRound(ch, secret, alpha, I) = PlainBroadcast(alpha)
      /\ \A p \in Ranks : brs[p] = CoefficientRound(ch, coeffs[p], alpha, I)
  BY <1>3, <1>4, <1>5, <1>6, <1>7, <1>8, SecretOf DEF PlainRound, CoefficientRound
<1>10. PICK share : share = ShareOf(x, i) /\ share = CompleteShare(secret, coeffs, i)
  BY <1>2, <1>4, <1>6 DEF ShareOf
<1>11. PICK mine : mine = ShareBroadcast(PlainBroadcast(alpha), brs, i)
  OBVIOUS
<1>12. ShareFromBroadcast(ch, share.wit, mine, alpha, I, HasSharingOffset(i)) = share
  BY <1>1, <1>2, <1>9, <1>10, <1>11, ShareRecovered
<1> QED BY <1>2, <1>3, <1>5, <1>7, <1>8, <1>10, <1>11, <1>12

LEMMA GenuineRoots ==
  ASSUME ThresholdInv, genuine, pc = "compare"
  PROVE  vroots = roots
<1> USE DEF ThresholdInv
<1>1. /\ pc \in Verifying /\ pc \notin BeforeSent /\ pc \notin BeforeViews /\ pc # "setup"
      /\ pc # "commit"
  BY DEF Verifying, BeforeSent, BeforeBuild, BeforeViews, BeforeSimulate
<1>2. build \in Builds /\ got.sig = sig /\ got.msg = "msg" /\ sig = Sent
      /\ open \in [Execs -> Openings]
  BY <1>1, SentSignature DEF SetupInv, GotInv
<1>3. vopen = open /\ vchallenges = challenges
  BY <1>1, <1>2 DEF VerifierInv
<1>4. ASSUME NEW x \in Execs PROVE RecoveredRoot(x) = roots[x]
  <2>1. open[x] \in Openings
    BY <1>2
  <2>2. /\ open[x] \subseteq Parties
        /\ \A i \in open[x] : RankOf(open[x], i) \in Ranks /\ Member(open[x], RankOf(open[x], i)) = i
    BY <1>2, <2>1, MembersHaveRanks, OpeningsAreFinite
  <2>3. /\ sig.auth[x] = OpenTree(roots[x], open[x]) /\ sig.alphas = alphas /\ sig.br = br
        /\ sig.salt = "salt"
        /\ \A p \in Ranks : sig.wits[x][p] = ShareOf(x, Member(open[x], p)).wit
    BY <1>2 DEF Sent, ShareWit, ShareOf
  <2>4. ASSUME NEW i \in open[x]
        PROVE  RecoveredShare(x, RankOf(open[x], i)) = ShareOf(x, i)
    <3>1. i \in Parties /\ RankOf(open[x], i) \in Ranks /\ Member(open[x], RankOf(open[x], i)) = i
      BY <2>2
    <3>2. sig.wits[x][RankOf(open[x], i)] = ShareOf(x, i).wit
      BY <2>3, <3>1
    <3>3. RecoveredShare(x, RankOf(open[x], i))
            = ShareFromBroadcast(At(challenges, x), ShareOf(x, i).wit,
                ShareBroadcast(PlainBroadcast(At(alphas, x)), br[x], Eval(i)),
                At(alphas, x), inst, HasSharingOffset(i))
      BY <1>2, <1>3, <2>3, <3>1, <3>2 DEF RecoveredShare
    <3> QED BY <1>1, <3>1, <3>3, ShareOfParty
  <2>5. roots[x] = RootAt(x)
    BY <1>1 DEF RootsInv
  <2>6. VTreeSalt = TreeSalt
    BY <1>2, <2>3 DEF VTreeSalt, TreeSalt
  <2> DEFINE leaf(i) == Commitment(x, i, ShareOf(x, i), "salt")
             leaves == [i \in Parties |-> leaf(i)]
             digests == [i \in open[x] |-> leaf(i)]
  <2>7. roots[x] = Tree(leaves, TreeSalt)
    BY <2>5 DEF RootAt
  <2>8. RecoveredRoot(x) = RootFromAuth(OpenTree(roots[x], open[x]), open[x], digests, TreeSalt)
    <3>1. [i \in open[x] |-> Commitment(x, i, RecoveredShare(x, RankOf(open[x], i)), "salt")] = digests
      BY <2>4
    <3> HIDE DEF digests
    <3> QED BY <1>2, <1>3, <2>3, <2>6, <3>1 DEF RecoveredRoot
  <2>9. [i \in Parties |-> IF i \in open[x] THEN digests[i] ELSE leaves[i]] = leaves
    BY <2>2
  <2>10. roots[x].leaves = leaves /\ roots[x].salt = TreeSalt
    BY <2>7 DEF Tree
  <2>11. /\ OpenTree(roots[x], open[x]) # Forged
         /\ OpenTree(roots[x], open[x]).tree = roots[x]
         /\ OpenTree(roots[x], open[x]).open = open[x]
    <3>1. DOMAIN OpenTree(roots[x], open[x]) = {"tree", "open"} /\ DOMAIN Forged = {"forged"}
      BY DEF OpenTree, Forged
    <3>2. "tree" \notin {"forged"}
      OBVIOUS
    <3> QED BY <3>1, <3>2 DEF OpenTree
  <2> HIDE DEF leaf, leaves, digests
  <2> QED BY <2>7, <2>8, <2>9, <2>10, <2>11 DEF RootFromAuth
<1>5. /\ vroots = [x \in Execs |-> vroots[x]] /\ roots = [x \in Execs |-> roots[x]]
      /\ \A x \in Execs : vroots[x] = RecoveredRoot(x)
  BY DEF VerifierInv, RootsInv
<1> QED BY <1>4, <1>5

\* For every build of the two variants, key, seed, challenge and set of open parties,
\* when a signature reaches mpcith_threshold_sign_verify as it was sent, the Merkle roots
\* it recovers are those that the signer hashed: the shares of the open parties follow
\* from their witness parts and from what all parties broadcast.
THEOREM RecoversRoots == Spec => []SameRoots
<1>1. ThresholdInv => SameRoots
  BY GenuineRoots DEF SameRoots
<1> QED BY <1>1, ThresholdInvariant, PTL

-----------------------------------------------------------------------------
(* The promise of a signature scheme.                                      *)

\* A root that is recovered from a path: the path was not altered, it opens the leaves
\* that the verifier expects, and their commitments are those of the shares it found.
LEMMA RootBinds ==
  ASSUME ThresholdInv, pc = "compare", NEW x \in Execs, RecoveredRoot(x) = roots[x]
  PROVE  /\ got.sig.auth[x] = sig.auth[x] /\ vopen[x] = open[x]
         /\ \A p \in Ranks : got.sig.wits[x][p] = sig.wits[x][p]
<1> USE DEF ThresholdInv
<1>1. /\ pc \in Verifying /\ pc \in Verifying \ {"parse"} /\ pc \notin BeforeSent
      /\ pc # "setup" /\ pc # "commit"
  BY DEF Verifying, BeforeSent, BeforeBuild, BeforeViews, BeforeSimulate
<1>2. build \in Builds /\ sig = Sent /\ open \in [Execs -> Openings]
  BY <1>1, SentSignature DEF SetupInv
<1>3. roots[x] = RootAt(x)
  BY <1>1 DEF RootsInv
<1>4. roots[x] # Forged
  <2>1. "leaves" \in DOMAIN roots[x]
    BY <1>3 DEF RootAt, Tree
  <2>2. DOMAIN Forged = {"forged"}
    BY DEF Forged
  <2> QED BY <2>1, <2>2
<1> DEFINE digests == [i \in vopen[x] |->
             Commitment(x, i, RecoveredShare(x, RankOf(vopen[x], i)), got.sig.salt)]
           auth == got.sig.auth[x]
<1>5. RecoveredRoot(x) = RootFromAuth(auth, vopen[x], digests, VTreeSalt)
  BY DEF RecoveredRoot
<1> HIDE DEF digests
<1>6. /\ auth # Forged /\ auth.open = vopen[x]
      /\ roots[x] = Tree([i \in Parties |-> IF i \in vopen[x] THEN digests[i]
                                            ELSE auth.tree.leaves[i]], VTreeSalt)
  BY <1>4, <1>5 DEF RootFromAuth
<1>7. auth = sig.auth[x]
  BY <1>1, <1>6 DEF GotInv
<1>8. sig.auth[x] = OpenTree(roots[x], open[x])
  BY <1>2 DEF Sent
<1>9. vopen[x] = open[x]
  <2>1. OpenTree(roots[x], open[x]).open = open[x]
    BY DEF OpenTree
  <2> HIDE DEF auth
  <2> QED BY <1>6, <1>7, <1>8, <2>1
<1>10. ASSUME NEW p \in Ranks PROVE got.sig.wits[x][p] = sig.wits[x][p]
  <2>1. PICK i \in open[x] : i = Member(open[x], p) /\ RankOf(open[x], i) = p
    BY <1>2, MembersHaveRanks
  <2>2. i \in Parties
    BY <1>2, OpeningsAreFinite
  <2>3. roots[x].leaves[i] = digests[i]
    BY <1>6, <1>9, <2>1, <2>2 DEF Tree
  <2>4. roots[x].leaves[i] = Commitment(x, i, ShareOf(x, i), "salt")
    BY <1>3, <2>2 DEF RootAt, Tree
  <2>5. digests[i] = Commitment(x, i, RecoveredShare(x, p), got.sig.salt)
    BY <1>9, <2>1 DEF digests
  <2>6. RecoveredShare(x, p) = ShareOf(x, i)
    <3>1. \A share, salt : Commitment(x, i, share, salt).share = share
      BY DEF Commitment
    <3>2. Commitment(x, i, RecoveredShare(x, p), got.sig.salt)
            = Commitment(x, i, ShareOf(x, i), "salt")
      BY <2>3, <2>4, <2>5
    <3> QED BY <3>1, <3>2
  <2>7. RecoveredShare(x, p).wit = got.sig.wits[x][p]
    BY DEF RecoveredShare, ShareFromBroadcast
  <2>8. sig.wits[x][p] = ShareOf(x, i).wit
    BY <1>2, <2>1 DEF Sent, ShareWit, ShareOf
  <2> QED BY <2>6, <2>7, <2>8
<1> QED BY <1>7, <1>9, <1>10

LEMMA HashesBind ==
  ASSUME NEW trees, NEW salt, NEW msg, NEW trees2, NEW salt2, NEW msg2
  PROVE  /\ MpcHash(trees, salt, msg) # Forged
         /\ MpcHash(trees, salt, msg) = MpcHash(trees2, salt2, msg2)
              => trees = trees2 /\ salt = salt2
<1>1. /\ "trees" \in DOMAIN StandardMpcHash(trees, salt, msg)
      /\ "trees" \in DOMAIN NfprMpcHash(trees, salt)
  BY DEF StandardMpcHash, NfprMpcHash
<1>2. DOMAIN Forged = {"forged"}
  BY DEF Forged
<1>3. MpcHash(trees, salt, msg) # Forged
  BY <1>1, <1>2 DEF MpcHash
<1>4. /\ \A t, s, m : /\ StandardMpcHash(t, s, m).trees = t /\ StandardMpcHash(t, s, m).salt = s
                      /\ NfprMpcHash(t, s).trees = t /\ NfprMpcHash(t, s).salt = s
  BY DEF StandardMpcHash, NfprMpcHash
<1>5. /\ \A t, s, m : MpcHash(t, s, m).trees = t /\ MpcHash(t, s, m).salt = s
  BY <1>4 DEF MpcHash
<1> QED BY <1>3, <1>5

LEMMA ViewHashBinds ==
  ASSUME NEW s, NEW m, NEW t, NEW n, ViewHash(s, m) = ViewHash(t, n)
  PROVE  /\ m = n /\ s.salt = t.salt /\ s.mpcHash = t.mpcHash
         /\ s.alphas = t.alphas /\ s.br = t.br
<1>1. \A x, k : /\ ViewHash(x, k).msg = k /\ ViewHash(x, k).salt = x.salt
                /\ ViewHash(x, k).mpcHash = x.mpcHash /\ ViewHash(x, k).alphas = x.alphas
                /\ ViewHash(x, k).br = x.br
  BY DEF ViewHash, StandardViewHash, NfprViewHash
<1> QED BY <1>1

\* An accepted signature was not altered: the digest of the roots binds the paths, the
\* witness parts and, by the openings that the view challenge names, all the rest.
LEMMA AlteredIsRejected ==
  ASSUME ThresholdInv, ~genuine, pc = "compare"
  PROVE  ~SameMpcHash
<1> USE DEF ThresholdInv
<1> SUFFICES ASSUME SameMpcHash PROVE FALSE
  OBVIOUS
<1>1. /\ pc \in Verifying /\ pc \in Verifying \ {"parse"} /\ pc \notin BeforeSent
      /\ pc # "setup" /\ pc # "commit"
  BY DEF Verifying, BeforeSent, BeforeBuild, BeforeViews, BeforeSimulate
<1>2. sig = Sent /\ open \in [Execs -> Openings]
  BY <1>1, SentSignature
<1>3. MpcHash(vroots, got.sig.salt, got.msg) = got.sig.mpcHash
  BY DEF SameMpcHash
<1>4. got.sig.mpcHash = sig.mpcHash /\ sig.mpcHash = MpcHash(roots, "salt", "msg")
  <2>1. got.sig.mpcHash \in {sig.mpcHash, Forged}
    BY <1>1 DEF GotInv
  <2>2. got.sig.mpcHash # Forged
    BY <1>3, HashesBind
  <2> QED BY <1>2, <2>1, <2>2 DEF Sent
<1>5. vroots = roots
  BY <1>3, <1>4, HashesBind
<1>6. \A x \in Execs : RecoveredRoot(x) = roots[x]
  BY <1>5 DEF VerifierInv
<1>7. \A x \in Execs : /\ got.sig.auth[x] = sig.auth[x] /\ vopen[x] = open[x]
                       /\ \A p \in Ranks : got.sig.wits[x][p] = sig.wits[x][p]
  BY <1>6, RootBinds
<1>8. vopen = open
  <2>1. vopen \in [Execs -> Openings]
    BY <1>1 DEF VerifierInv
  <2> QED BY <1>2, <1>7, <2>1
<1>9. /\ ViewHash(got.sig, got.msg) = ViewHash(sig, "msg")
      /\ got.sig.length = sig.length
  BY <1>1, <1>8 DEF VerifierInv
<1>10. /\ got.msg = "msg" /\ got.sig.salt = sig.salt /\ got.sig.mpcHash = sig.mpcHash
       /\ got.sig.alphas = sig.alphas /\ got.sig.br = sig.br
  BY <1>9, ViewHashBinds
<1>11. Altered
  BY <1>1 DEF GotInv
<1> QED BY <1>7, <1>9, <1>10, <1>11 DEF Altered, Differs

LEMMA GenuineIsAccepted ==
  ASSUME ThresholdInv, genuine, pc = "compare"
  PROVE  SameMpcHash
<1> USE DEF ThresholdInv
<1>1. pc \in Verifying /\ pc \notin BeforeSent
  BY DEF Verifying, BeforeSent, BeforeBuild, BeforeViews, BeforeSimulate
<1>2. got.sig = sig /\ got.msg = "msg" /\ sig = Sent
  BY <1>1, SentSignature DEF GotInv
<1>3. vroots = roots
  BY GenuineRoots
<1> QED BY <1>2, <1>3 DEF SameMpcHash, Sent

LEMMA Stages ==
  /\ pc \in Signing   => Stage = "signing"
  /\ pc = "sent"      => Stage = "sent"
  /\ pc \in Verifying => Stage = "received"
  /\ pc = "done"      => Stage = "judged"
BY DEF Stage, Signing, Verifying

LEMMA InitScheme == Init => Scheme!Idle
BY Stages DEF Init, Scheme!Idle, Signing

LEMMA SchemeStep ==
  ASSUME ThresholdInv, ThresholdInv', [Next]_vars
  PROVE  [Scheme!Act]_(Scheme!schemeVars)
<1> USE DEF ThresholdInv
<1>1. /\ pc' \in Signing   => Stage' = "signing"
      /\ pc' = "sent"      => Stage' = "sent"
      /\ pc' \in Verifying => Stage' = "received"
      /\ pc' = "done"      => Stage' = "judged"
  BY DEF Stage, Signing, Verifying
<1>2. CASE UNCHANGED <<Stage, genuine, verdict>>
  BY <1>2 DEF Scheme!schemeVars
<1>3. CASE Sign
  <2>1. /\ pc \in Signing /\ pc' \in Signing \cup {"sent"}
        /\ UNCHANGED verVars
    BY <1>3 DEF Sign, StandardSetup, NfprSetup, Setup, StandardCommit, NfprCommit, Commit,
       MpcChallenge, StandardSimulate, NfprSimulate, Simulate, ViewChallenge,
       StandardBuild, NfprBuild, BuildSignature, Signing
  <2>2. genuine' = genuine /\ verdict' = verdict
    BY <2>1 DEF verVars
  <2>3. CASE pc' \in Signing
    BY <1>1, <1>2, <2>1, <2>2, <2>3, Stages
  <2>4. CASE pc' = "sent"
    BY <1>1, <2>1, <2>2, <2>4, Stages DEF Scheme!Act, Scheme!Produce
  <2> QED BY <2>1, <2>3, <2>4
<1>4. CASE Transmit
  <2>1. /\ pc = "sent" /\ pc' = "parse" /\ verdict' = verdict /\ genuine' \in BOOLEAN
    BY <1>4 DEF Transmit, DeliverGenuine, DeliverOtherHeader, DeliverOtherProof, Deliver
  <2>2. Stage = "sent" /\ Stage' = "received"
    BY <1>1, <2>1, Stages DEF Verifying
  <2> QED BY <2>1, <2>2 DEF Scheme!Act, Scheme!Receive
<1>5. CASE StandardParse \/ NfprParse
  <2>1. /\ pc \in Verifying /\ genuine' = genuine
        /\ \/ pc' = "expand" /\ verdict' = verdict
           \/ pc' = "done" /\ verdict' = "reject"
    BY <1>5 DEF StandardParse, NfprParse, Parse, Verifying
  <2>2. CASE pc' = "expand" /\ verdict' = verdict
    BY <1>1, <1>2, <2>1, <2>2, Stages DEF Verifying
  <2>3. CASE pc' = "done" /\ verdict' = "reject"
    <3>1. ~genuine
      BY <1>5, <2>3, ParseStep
    <3> QED BY <1>1, <2>1, <2>3, <3>1, Stages DEF Scheme!Act, Scheme!Judge
  <2> QED BY <2>1, <2>2, <2>3
<1>6. CASE ExpandMpcChallenge \/ StandardRecover \/ NfprRecover
  <2>1. /\ pc \in Verifying /\ pc' \in Verifying /\ UNCHANGED <<genuine, verdict>>
    BY <1>6 DEF ExpandMpcChallenge, StandardRecover, NfprRecover, Recover, Verifying
  <2> QED BY <1>1, <1>2, <2>1, Stages
<1>7. CASE Compare
  <2>1. /\ pc = "compare" /\ pc \in Verifying /\ pc' = "done" /\ genuine' = genuine
        /\ verdict' = IF SameMpcHash THEN "accept" ELSE "reject"
    BY <1>7 DEF Compare, Verifying
  <2>2. SameMpcHash <=> genuine
    BY <2>1, GenuineIsAccepted, AlteredIsRejected
  <2>3. verdict' = IF genuine THEN "accept" ELSE "reject"
    BY <2>1, <2>2
  <2> QED BY <1>1, <2>1, <2>3, Stages DEF Scheme!Act, Scheme!Judge
<1>8. CASE Stopped \/ UNCHANGED vars
  <2>1. UNCHANGED <<pc, genuine, verdict>>
    BY <1>8 DEF Stopped, vars, verVars
  <2>2. Stage' = Stage
    BY <2>1 DEF Stage
  <2> QED BY <1>2, <2>1, <2>2
<1> QED BY <1>3, <1>4, <1>5, <1>6, <1>7, <1>8 DEF Next, Verify

\* For every build of the two variants, key, seed, challenge and set of open parties,
\* the functions of the threshold signature implement a signature scheme:
\* crypto_sign_open accepts what crypto_sign has sent, and rejects it once a field of it,
\* a path or the message is another.
THEOREM ImplementsScheme == Spec => SchemeSpec
<1>1. ThresholdInv /\ ThresholdInv' /\ [Next]_vars => [Scheme!Act]_(Scheme!schemeVars)
  BY SchemeStep
<1> QED BY <1>1, InitScheme, ThresholdInvariant, PTL DEF Spec, SchemeSpec, Scheme!SchemeSpec

-----------------------------------------------------------------------------
(* The witness is hidden: through the shares of the open parties and any   *)
(* constant term there is one polynomial.                                  *)

\* Horner's rule on numbers, from the leading coefficient.
HornerSteps(g, top, d, n, i) ==
  g = [k \in 0..n |-> IF k = 0 THEN top ELSE F(i * g[k - 1] + d[k])]
Through(top, d, n, i, y) ==
  \E g \in [0..n -> Field] : HornerSteps(g, top, d, n, i) /\ g[n] = y
Interpolates(n) ==
  \A top \in Field, a \in [1..n -> Field], y \in [1..n -> Field] :
    (\A j \in 1..n, l \in 1..n : a[j] = a[l] => j = l)
      => \E d \in [1..n -> Field] : \A j \in 1..n : Through(top, d, n, a[j], y[j])

LEMMA Shifted == ASSUME NEW a \in Int, NEW d \in Int PROVE F(a + Q * d) = F(a)
<1>1. Q \in Int
  BY FieldAssumption
<1>2. PICK m \in Int : m = Q * d
  BY <1>1
<1>3. PICK z \in Int : z = a + Q * d
  BY <1>2
<1> QED BY <1>3, Differ

\* Reducing a factor of one term, and one term, of a sum.
LEMMA ReducedSum ==
  ASSUME NEW k \in Int, NEW a \in Int, NEW b \in Int
  PROVE  F(k * F(a) + b) = F(k * a + b) /\ F(b + F(a)) = F(b + a)
<1>1. PICK f \in Int, d \in Int : f = F(a) /\ f = a + Q * d
  BY Normalises
<1>2. Q \in Int
  BY FieldAssumption
<1>3. k * f + b = (k * a + b) + Q * (k * d)
  <2>1. k * (a + Q * d) = k * a + Q * (k * d)
    BY <1>2
  <2>2. PICK x \in Int, z \in Int : x = k * a /\ z = Q * (k * d)
    BY <1>2
  <2> QED BY <1>1, <2>1, <2>2
<1>4. b + f = (b + a) + Q * d
  <2>1. PICK z \in Int : z = Q * d
    BY <1>2
  <2> QED BY <1>1, <2>1
<1>5. k * a + b \in Int /\ k * d \in Int /\ b + a \in Int
  OBVIOUS
<1> QED BY <1>1, <1>3, <1>4, <1>5, Shifted

\* The step of a division by a binomial.
Divided(i, a, u, v, z) ==
  F(i * F((i - a) * u + v) + F(z - a * v)) = F((i - a) * F(i * u + v) + z)

LEMMA DivisionStep ==
  ASSUME NEW i \in Int, NEW a \in Int, NEW u \in Int, NEW v \in Int, NEW z \in Int
  PROVE  Divided(i, a, u, v, z)
<1>1. (i - a) * u + v \in Int /\ z - a * v \in Int /\ i * u + v \in Int /\ i - a \in Int
  OBVIOUS
<1>2. F((i - a) * u + v) \in Int
  BY <1>1, NormalForm
<1>3. F(i * F((i - a) * u + v) + F(z - a * v)) = F(i * F((i - a) * u + v) + (z - a * v))
  <2>1. PICK b \in Int : b = i * F((i - a) * u + v)
    BY <1>2
  <2> QED BY <1>1, <2>1, ReducedSum
<1>4. F(i * F((i - a) * u + v) + (z - a * v)) = F(i * ((i - a) * u + v) + (z - a * v))
  BY <1>1, ReducedSum
<1>5. F((i - a) * F(i * u + v) + z) = F((i - a) * (i * u + v) + z)
  BY <1>1, ReducedSum
<1>6. i * ((i - a) * u + v) + (z - a * v) = (i - a) * (i * u + v) + z
  <2>1. i * ((i - a) * u + v) = (i - a) * (i * u) + i * v
    BY SMT
  <2>2. (i - a) * (i * u + v) = (i - a) * (i * u) + (i - a) * v
    BY SMT
  <2>3. (i - a) * v = i * v - a * v
    BY SMT
  <2>4. PICK p \in Int, q \in Int, r \in Int : p = (i - a) * (i * u) /\ q = i * v /\ r = a * v
    BY <1>1
  <2> QED BY <2>1, <2>2, <2>3, <2>4
<1> QED BY <1>3, <1>4, <1>5, <1>6 DEF Divided

\* q is the quotient of x - y by a - b.
Quotient(a, b, x, y, q) == F((a - b) * q + y) = x

LEMMA Divides ==
  ASSUME NEW a \in Field, NEW b \in Field, a # b, NEW x \in Field, NEW y \in Field
  PROVE  \E q \in Field : Quotient(a, b, x, y, q)
<1>1. /\ a \in Int /\ b \in Int /\ x \in Int /\ y \in Int /\ F(a) = a /\ F(b) = b /\ F(x) = x
      /\ a - b \in Int /\ x - y \in Int /\ 0 \in Int /\ F(0) = 0
  BY FieldElements, ZeroIsShare
<1>2. PICK f \in Int, d \in Int : f = F(a - b) /\ f = (a - b) + Q * d /\ f \in Field
  BY <1>1, Normalises
<1>3. f # 0
  <2>1. ASSUME f = 0 PROVE FALSE
    <3>1. F(b + F(a - F(b))) = F(a)
      BY <1>1, DifferenceNormalises
    <3>2. F(b + 0) = a
      BY <1>1, <1>2, <2>1, <3>1
    <3> QED BY <1>1, <3>2
  <2> QED BY <2>1
<1>4. PICK z \in Field : F(f * z) = 1
  BY <1>2, <1>3, FieldAssumption
<1>5. z \in Int
  BY FieldElements
<1> DEFINE q == F(z * (x - y))
<1>6. q \in Field /\ q \in Int /\ z * (x - y) \in Int
  BY <1>1, <1>5, NormalForm
<1>7. F((a - b) * q + y) = F((a - b) * (z * (x - y)) + y)
  BY <1>1, <1>6, ReducedSum
<1>8. (a - b) * (z * (x - y)) = (x - y) * ((a - b) * z)
  BY <1>1, <1>5
<1>9. F((a - b) * z) = 1
  <2>1. f * z = (a - b) * z + Q * (d * z)
    <3>1. Q \in Int
      BY FieldAssumption
    <3>2. \A m \in Int : (m + Q * d) * z = m * z + Q * (d * z)
      BY <1>5, <3>1
    <3> QED BY <1>1, <1>2, <3>2
  <2>2. (a - b) * z \in Int /\ d * z \in Int
    BY <1>1, <1>5
  <2> QED BY <1>4, <2>1, <2>2, Shifted
<1>10. F((x - y) * ((a - b) * z) + y) = F((x - y) * 1 + y)
  <2>1. PICK m \in Int : m = (a - b) * z
    BY <1>1, <1>5
  <2>2. F((x - y) * F(m) + y) = F((x - y) * m + y)
    BY <1>1, <2>1, ReducedSum
  <2> QED BY <1>9, <2>1, <2>2
<1>11. (x - y) * 1 + y = x
  BY <1>1
<1> QED BY <1>1, <1>6, <1>7, <1>8, <1>10, <1>11 DEF Quotient

LEMMA StepsExist ==
  ASSUME NEW n \in Nat, NEW top \in Field, NEW d \in [1..n -> Field], NEW i \in Int
  PROVE  \E g \in [0..n -> Field] : HornerSteps(g, top, d, n, i)
<1> DEFINE G == [t \in Field \X (0..(n - 1)) |-> F(i * t[1] + d[t[2] + 1])]
<1>1. G \in [Field \X (0..(n - 1)) -> Field]
  <2>1. ASSUME NEW t \in Field \X (0..(n - 1)) PROVE F(i * t[1] + d[t[2] + 1]) \in Field
    <3>1. t[1] \in Int /\ t[2] + 1 \in 1..n
      BY FieldElements
    <3>2. d[t[2] + 1] \in Int
      BY <3>1, FieldElements
    <3>3. i * t[1] + d[t[2] + 1] \in Int
      BY <3>1, <3>2
    <3> QED BY <3>3, NormalForm
  <2> QED BY <2>1
<1>2. PICK g \in [0..n -> Field] : Loops(g, top, G, n)
  BY <1>1, LoopsExist
<1>3. ASSUME NEW k \in 0..n, k # 0 PROVE G[<<g[k - 1], k - 1>>] = F(i * g[k - 1] + d[k])
  <2>1. k - 1 \in 0..(n - 1) /\ k - 1 \in 0..n /\ (k - 1) + 1 = k
    BY <1>3
  <2>2. <<g[k - 1], k - 1>> \in Field \X (0..(n - 1))
    BY <2>1
  <2>3. /\ <<g[k - 1], k - 1>>[1] = g[k - 1] /\ <<g[k - 1], k - 1>>[2] = k - 1
    OBVIOUS
  <2> QED BY <2>1, <2>2, <2>3
<1>4. g = [k \in 0..n |-> IF k = 0 THEN top ELSE F(i * g[k - 1] + d[k])]
  BY <1>2, <1>3 DEF Loops
<1> QED BY <1>4 DEF HornerSteps

LEMMA InterpolatesNone == Interpolates(0)
<1> SUFFICES ASSUME NEW top \in Field
             PROVE  \E d \in [1..0 -> Field] : \A j \in 1..0 : FALSE
  BY DEF Interpolates
<1>1. [k \in 1..0 |-> top] \in [1..0 -> Field] /\ \A j \in 1..0 : FALSE
  OBVIOUS
<1> QED BY <1>1

\* One more point: the quotient by the binomial of that point goes through the others.
LEMMA InterpolatesOneMore ==
  ASSUME NEW n \in Nat, Interpolates(n)
  PROVE  Interpolates(n + 1)
<1> SUFFICES ASSUME NEW top \in Field, NEW a \in [1..(n + 1) -> Field],
                    NEW y \in [1..(n + 1) -> Field],
                    \A j \in 1..(n + 1), l \in 1..(n + 1) : a[j] = a[l] => j = l
             PROVE  \E d \in [1..(n + 1) -> Field] :
                      \A j \in 1..(n + 1) : Through(top, d, n + 1, a[j], y[j])
  BY DEF Interpolates
<1>1. PICK pt \in Field : pt = a[n + 1]
  OBVIOUS
<1>2. PICK val \in Field : val = y[n + 1]
  OBVIOUS
<1>3. pt \in Int /\ val \in Int /\ top \in Int /\ F(val) = val /\ F(top) = top
  BY FieldElements
<1>4. /\ \A j \in 1..n : j \in 1..(n + 1) /\ j # n + 1
      /\ \A j \in 1..(n + 1) : j \in 1..n \/ j = n + 1
      /\ n + 1 \in 1..(n + 1)
  OBVIOUS
<1> DEFINE xs == [j \in 1..n |-> a[j]]
           quotient(j) == CHOOSE q \in Field : F((a[j] - pt) * q + val) = y[j]
           qs == [j \in 1..n |-> quotient(j)]
<1>5. ASSUME NEW j \in 1..n
      PROVE  quotient(j) \in Field /\ F((a[j] - pt) * quotient(j) + val) = y[j]
  <2>1. a[j] \in Field /\ y[j] \in Field /\ a[j] # pt
    BY <1>1, <1>4
  <2>2. \E q \in Field : F((a[j] - pt) * q + val) = y[j]
    BY <2>1, Divides DEF Quotient
  <2> QED BY <2>2
<1> HIDE DEF quotient
<1>6. /\ xs \in [1..n -> Field] /\ qs \in [1..n -> Field]
      /\ \A j \in 1..n, l \in 1..n : xs[j] = xs[l] => j = l
      /\ \A j \in 1..n : xs[j] = a[j] /\ qs[j] = quotient(j)
  BY <1>4, <1>5
<1> HIDE DEF xs, qs
<1>7. PICK d \in [1..n -> Field] : \A j \in 1..n : Through(top, d, n, xs[j], qs[j])
  BY <1>6 DEF Interpolates
<1> DEFINE this(k) == IF k = n + 1 THEN val ELSE d[k]
           prev(k) == IF k = 1 THEN top ELSE d[k - 1]
           D == [k \in 1..(n + 1) |-> F(this(k) - pt * prev(k))]
<1>8. \A k \in 1..(n + 1) : this(k) \in Field /\ this(k) \in Int /\ prev(k) \in Field /\ prev(k) \in Int
  <2>1. \A k \in 1..(n + 1) : /\ k # n + 1 => k \in 1..n
                              /\ k # 1 => k - 1 \in 1..n
    OBVIOUS
  <2> QED BY <2>1, FieldElements
<1> HIDE DEF this, prev
<1>9. D \in [1..(n + 1) -> Field]
  <2>1. ASSUME NEW k \in 1..(n + 1) PROVE F(this(k) - pt * prev(k)) \in Field
    <3>1. this(k) - pt * prev(k) \in Int
      BY <1>3, <1>8
    <3> QED BY <3>1, NormalForm
  <2> QED BY <2>1
<1>10. ASSUME NEW i \in Int, NEW g \in [0..n -> Field], HornerSteps(g, top, d, n, i)
       PROVE  Through(top, D, n + 1, i, F((i - pt) * g[n] + val))
  <2> DEFINE G == [k \in 0..(n + 1) |-> IF k = 0 THEN top ELSE F((i - pt) * g[k - 1] + this(k))]
  <2>1. \A k \in 0..n : g[k] \in Int
    BY FieldElements
  <2>2. G \in [0..(n + 1) -> Field]
    <3>1. ASSUME NEW k \in 0..(n + 1), k # 0
          PROVE  F((i - pt) * g[k - 1] + this(k)) \in Field
      <4>1. k - 1 \in 0..n /\ k \in 1..(n + 1)
        BY <3>1
      <4>2. PICK u \in Int, z \in Int : u = g[k - 1] /\ z = this(k)
        BY <1>8, <2>1, <4>1
      <4>3. (i - pt) * u + z \in Int
        BY <1>3
      <4> QED BY <4>2, <4>3, NormalForm
    <3> QED BY <3>1
  <2>3. ASSUME NEW k \in 0..(n + 1), k # 0
        PROVE  G[k] = F(i * G[k - 1] + D[k])
    <3>1. k - 1 \in 0..n /\ k \in 1..(n + 1) /\ k - 1 \in 0..(n + 1)
      BY <2>3
    <3>2. G[k] = F((i - pt) * g[k - 1] + this(k)) /\ D[k] = F(this(k) - pt * prev(k))
      BY <2>3, <3>1
    <3>3. PICK z \in Int, v \in Int : z = this(k) /\ v = prev(k)
      BY <1>8, <3>1
    <3>4. CASE k = 1
      <4>1. G[k - 1] = top /\ g[k - 1] = top /\ v = top
        <5>1. k - 1 = 0 /\ 0 \in 0..n /\ 0 \in 0..(n + 1)
          BY <3>4
        <5>2. g[0] = top
          BY <1>10, <5>1 DEF HornerSteps
        <5>3. v = top
          BY <3>3, <3>4 DEF prev
        <5> QED BY <5>1, <5>2, <5>3
      <4>2. F(i * top + F(z - pt * top)) = F(i * top + (z - pt * top))
        <5>1. i * top \in Int /\ z - pt * top \in Int
          BY <1>3
        <5> QED BY <5>1, ReducedSum
      <4>3. i * top + (z - pt * top) = (i - pt) * top + z
        <5>1. (i - pt) * top = i * top - pt * top
          BY <1>3
        <5>2. i * top \in Int /\ pt * top \in Int
          BY <1>3
        <5> QED BY <5>1, <5>2
      <4> HIDE DEF G, D
      <4> QED BY <3>2, <3>3, <4>1, <4>2, <4>3
    <3>5. CASE k # 1
      <4>1. k - 2 \in 0..n /\ k - 1 \in 1..n /\ k - 1 # n + 1 /\ k - 1 # 0 /\ (k - 1) - 1 = k - 2
        BY <3>1, <3>5
      <4>2. PICK u \in Int : u = g[k - 2]
        BY <2>1, <4>1
      <4>3. v = d[k - 1] /\ this(k - 1) = v
        BY <3>3, <3>5, <4>1 DEF prev, this
      <4>4. g[k - 1] = F(i * u + v)
        BY <1>10, <3>1, <4>1, <4>2, <4>3 DEF HornerSteps
      <4>5. G[k - 1] = F((i - pt) * u + v)
        BY <3>1, <4>1, <4>2, <4>3
      <4>6. F(i * F((i - pt) * u + v) + F(z - pt * v)) = F((i - pt) * F(i * u + v) + z)
        <5>1. Divided(i, pt, u, v, z)
          BY <1>3, DivisionStep
        <5> QED BY <5>1 DEF Divided
      <4> HIDE DEF G, D
      <4> QED BY <3>2, <3>3, <4>4, <4>5, <4>6
    <3> QED BY <3>4, <3>5
  <2>4. HornerSteps(G, top, D, n + 1, i)
    <3>1. G = [k \in 0..(n + 1) |-> G[k]] /\ (0 \in 0..(n + 1) /\ G[0] = top)
      OBVIOUS
    <3> HIDE DEF G, D
    <3>2. G = [k \in 0..(n + 1) |-> IF k = 0 THEN top ELSE F(i * G[k - 1] + D[k])]
      BY <2>3, <3>1
    <3> QED BY <3>2 DEF HornerSteps
  <2>5. G[n + 1] = F((i - pt) * g[n] + val)
    <3>1. n + 1 \in 0..(n + 1) /\ n + 1 # 0 /\ (n + 1) - 1 = n /\ this(n + 1) = val
      BY DEF this
    <3> QED BY <3>1
  <2> HIDE DEF G, D
  <2> QED BY <2>2, <2>4, <2>5 DEF Through
<1>11. ASSUME NEW j \in 1..(n + 1) PROVE Through(top, D, n + 1, a[j], y[j])
  <2>1. PICK i \in Int : i = a[j]
    BY FieldElements
  <2>2. CASE j \in 1..n
    <3>1. PICK g \in [0..n -> Field] : HornerSteps(g, top, d, n, i) /\ g[n] = qs[j]
      BY <1>6, <1>7, <2>1, <2>2 DEF Through
    <3>2. F((i - pt) * g[n] + val) = y[j]
      BY <1>5, <1>6, <2>1, <2>2, <3>1
    <3> HIDE DEF D
    <3> QED BY <1>10, <2>1, <3>1, <3>2
  <2>3. CASE j = n + 1
    <3>1. PICK g \in [0..n -> Field] : HornerSteps(g, top, d, n, i)
      BY StepsExist
    <3>2. F((i - pt) * g[n] + val) = y[j]
      <4>1. i - pt = 0 /\ g[n] \in Int
        <5>1. i = pt
          BY <1>1, <2>1, <2>3
        <5>2. n \in 0..n
          OBVIOUS
        <5>3. g[n] \in Int
          BY <5>2, FieldElements
        <5> QED BY <1>3, <5>1, <5>3
      <4>2. (i - pt) * g[n] + val = val
        BY <1>3, <4>1
      <4> QED BY <1>2, <1>3, <2>3, <4>2
    <3> HIDE DEF D
    <3> QED BY <1>10, <2>1, <3>1, <3>2
  <2> QED BY <1>4, <2>2, <2>3
<1> HIDE DEF D
<1> QED BY <1>9, <1>11

\* Through points of distinct abscissas there is a polynomial of each leading coefficient.
LEMMA Interpolation == ASSUME NEW n \in Nat PROVE Interpolates(n)
<1> DEFINE T == {m \in Nat : ~Interpolates(m)}
<1>1. CASE T # {}
  <2>1. PICK m \in T : \A l \in T : m <= l
    BY <1>1, Least
  <2>2. m # 0
    BY <2>1, InterpolatesNone
  <2>3. m - 1 \in Nat /\ ~(m <= m - 1) /\ (m - 1) + 1 = m
    BY <2>1, <2>2
  <2>4. Interpolates(m - 1)
    BY <2>1, <2>3
  <2>5. Interpolates((m - 1) + 1)
    BY <2>3, <2>4, InterpolatesOneMore
  <2> QED BY <2>1, <2>3, <2>5
<1>2. CASE T = {}
  BY <1>2
<1> QED BY <1>1, <1>2

\* The witness parts alone of a sharing: the coefficients cw, the constant term w.
WitSteps(h, cw, i) ==
  h = [k \in Ranks |-> IF k = 0 THEN cw[build.revealed - 1]
                       ELSE F(i * h[k - 1] + cw[build.revealed - 1 - k])]
WitIs(cw, w, i, y) ==
  IF i = 0 THEN cw[build.revealed - 1] = y
  ELSE \E h \in [Ranks -> Field] : WitSteps(h, cw, i) /\ F(i * h[build.revealed - 1] + w) = y
AreWits(cw, coeffs) == \A p \in Ranks : cw[p] = coeffs[p].wit

LEMMA WitOfShare ==
  ASSUME build \in Builds, NEW secret \in Share, NEW coeffs \in [Ranks -> Share], NEW i \in Int,
         NEW cw, AreWits(cw, coeffs), NEW y, WitIs(cw, secret.wit, i, y)
  PROVE  CompleteShare(secret, coeffs, i).wit = y
<1> USE DEF AreWits
<1> DEFINE n == build.revealed - 1
<1>1. n \in Ranks /\ n \in Nat /\ 0 \in Ranks
  BY RanksOfBuild
<1>2. CASE i = 0
  BY <1>1, <1>2 DEF CompleteShare, WitIs
<1>3. CASE i # 0
  <2>1. PICK h \in [Ranks -> Field] : WitSteps(h, cw, i) /\ F(i * h[n] + secret.wit) = y
    BY <1>3 DEF WitIs
  <2>2. PICK g \in [Ranks -> Share] :
          /\ ShareSteps(g, coeffs, i)
          /\ Horner(secret, coeffs, i) = Plus(Times(i, g[n]), secret)
    BY ShareHorner
  <2>3. ASSUME NEW s \in Share, NEW t \in Share
        PROVE  Plus(Times(i, s), t).wit = F(i * s.wit + t.wit)
    <3>1. s.wit \in Int /\ t.wit \in Int /\ i * s.wit \in Int
      <4>1. s.wit \in Int /\ t.wit \in Int
        BY FieldElements DEF Share
      <4> QED BY <4>1
    <3>2. F(F(i * s.wit) + t.wit) = F(i * s.wit + t.wit)
      <4>1. PICK a \in Int, b \in Int : a = i * s.wit /\ b = t.wit
        BY <3>1
      <4>2. F(b + F(a)) = F(b + a)
        BY ReducedSum
      <4>3. F(a) \in Int
        BY NormalForm
      <4>4. F(a) + b = b + F(a) /\ a + b = b + a
        BY <4>3
      <4> QED BY <4>1, <4>2, <4>4
    <3> QED BY <3>2 DEF Plus, Times
  <2> DEFINE T == {k \in Ranks : g[k].wit # h[k]}
  <2>4. CASE T # {}
    <3>1. T \subseteq Nat
      BY RanksOfBuild
    <3>2. PICK m \in T : \A k \in T : m <= k
      BY <2>4, <3>1, Least
    <3>3. /\ g[m] = IF m = 0 THEN coeffs[n] ELSE Plus(Times(i, g[m - 1]), coeffs[n - m])
          /\ h[m] = IF m = 0 THEN cw[n] ELSE F(i * h[m - 1] + cw[n - m])
      BY <2>1, <2>2, <3>2 DEF ShareSteps, WitSteps
    <3>4. m # 0
      BY <1>1, <3>2, <3>3
    <3>5. m - 1 \in Ranks /\ n - m \in Ranks /\ ~(m <= m - 1)
      BY <3>2, <3>4, RanksOfBuild
    <3>6. g[m - 1].wit = h[m - 1] /\ cw[n - m] = coeffs[n - m].wit
      BY <3>2, <3>5
    <3>7. g[m - 1] \in Share /\ coeffs[n - m] \in Share
      BY <3>5
    <3> QED BY <2>3, <3>2, <3>3, <3>4, <3>6, <3>7
  <2>5. CASE T = {}
    <3>1. g[n].wit = h[n] /\ g[n] \in Share
      BY <1>1, <2>5
    <3>2. CompleteShare(secret, coeffs, i) = Plus(Times(i, g[n]), secret)
      BY <1>3, <2>2 DEF CompleteShare
    <3> QED BY <2>1, <2>3, <3>1, <3>2
  <2> QED BY <2>4, <2>5
<1> QED BY <1>2, <1>3

LEMMA MembersArePoints ==
  ASSUME build \in Builds, NEW S \in Openings
  PROVE  /\ \A p \in Ranks : Member(S, p) \in Field /\ Member(S, p) \in Int
         /\ \A p \in Ranks, q \in Ranks : Member(S, p) = Member(S, q) => p = q
         /\ 0 \in S => Member(S, 0) = 0
         /\ 0 \notin S => \A p \in Ranks : Member(S, p) # 0
<1>1. Parties \subseteq Field /\ Parties \subseteq Int
  BY BuildsAssumption, FieldAssumption DEF Supported, Parties, Field
<1>2. S \subseteq Parties /\ \A i \in S : i \in Nat
  BY OpeningsAreFinite
<1>3. /\ \A i \in S : RankOf(S, i) \in Ranks /\ Member(S, RankOf(S, i)) = i
      /\ \A p \in Ranks : Member(S, p) \in S /\ RankOf(S, Member(S, p)) = p
  BY MembersHaveRanks
<1>4. ASSUME 0 \in S PROVE Member(S, 0) = 0
  <2>1. {j \in S : j < 0} = {}
    BY <1>2
  <2>2. RankOf(S, 0) = 0
    BY <2>1, FS_EmptySet DEF RankOf
  <2> QED BY <1>3, <1>4, <2>2
<1> QED BY <1>1, <1>2, <1>3, <1>4

\* The coefficients, from the leading one, of the polynomial of Horner's rule.
LEMMA WitsInterpolate ==
  ASSUME build \in Builds, NEW S \in Openings, NEW w \in Field, NEW y \in [Ranks -> Field]
  PROVE  \E cw \in [Ranks -> Field] : \A p \in Ranks : WitIs(cw, w, Member(S, p), y[p])
<1> DEFINE t == build.revealed
           Divisor(p, q) == F(Member(S, p) * q + w) = y[p]
           quotient(p) == CHOOSE q \in Field : Divisor(p, q)
<1>1. t \in Nat \ {0} /\ Ranks = 0..(t - 1) /\ w \in Int
  BY RanksOfBuild, FieldElements DEF Ranks
<1>2. ASSUME NEW p \in Ranks, Member(S, p) # 0
      PROVE  quotient(p) \in Field /\ F(Member(S, p) * quotient(p) + w) = y[p]
  <2>1. PICK i \in Field : i = Member(S, p) /\ i # 0 /\ i \in Int
    BY <1>2, MembersArePoints
  <2>2. PICK q \in Field : F((i - 0) * q + w) = y[p]
    <3>1. 0 \in Field /\ y[p] \in Field
      BY ZeroIsShare
    <3>2. \E q \in Field : Quotient(i, 0, y[p], w, q)
      BY <2>1, <3>1, Divides
    <3> QED BY <3>2 DEF Quotient
  <2>3. i - 0 = i
    BY <2>1
  <2>4. Divisor(p, q)
    BY <2>1, <2>2, <2>3
  <2> HIDE DEF Divisor
  <2>5. quotient(p) \in Field /\ Divisor(p, quotient(p))
    BY <2>4
  <2> QED BY <2>5 DEF Divisor
<1> HIDE DEF quotient, Divisor
<1>3. CASE 0 \notin S
  <2> DEFINE xs == [j \in 1..t |-> Member(S, j - 1)]
             qs == [j \in 1..t |-> quotient(j - 1)]
  <2>1. \A j \in 1..t : j - 1 \in Ranks
    BY <1>1
  <2>2. /\ xs \in [1..t -> Field] /\ qs \in [1..t -> Field]
        /\ \A j \in 1..t, l \in 1..t : xs[j] = xs[l] => j = l
    <3>1. \A j \in 1..t : Member(S, j - 1) \in Field /\ quotient(j - 1) \in Field
      BY <1>2, <1>3, <2>1, MembersArePoints
    <3>2. ASSUME NEW j \in 1..t, NEW l \in 1..t, xs[j] = xs[l] PROVE j = l
      <4>1. j - 1 = l - 1
        BY <2>1, <3>2, MembersArePoints
      <4> QED BY <4>1
    <3> QED BY <3>1, <3>2
  <2>3. PICK d \in [1..t -> Field] : \A j \in 1..t : Through(0, d, t, xs[j], qs[j])
    <3>1. Interpolates(t) /\ 0 \in Field
      BY <1>1, Interpolation, ZeroIsShare
    <3> HIDE DEF xs, qs
    <3> QED BY <2>2, <3>1 DEF Interpolates
  <2> DEFINE cw == [p \in Ranks |-> d[t - p]]
  <2>4. cw \in [Ranks -> Field]
    BY <1>1
  <2>5. ASSUME NEW p \in Ranks PROVE WitIs(cw, w, Member(S, p), y[p])
    <3>1. p + 1 \in 1..t /\ (p + 1) - 1 = p
      BY <1>1
    <3>2. xs[p + 1] = Member(S, p) /\ qs[p + 1] = quotient(p)
      BY <3>1
    <3>3. PICK i \in Int : i = Member(S, p) /\ i # 0
      BY <1>3, MembersArePoints
    <3>4. PICK g \in [0..t -> Field] : HornerSteps(g, 0, d, t, i) /\ g[t] = quotient(p)
      BY <2>3, <3>1, <3>2, <3>3 DEF Through
    <3> DEFINE h == [k \in Ranks |-> g[k + 1]]
    <3>5. h \in [Ranks -> Field]
      BY <1>1
    <3>6. ASSUME NEW k \in Ranks
          PROVE  h[k] = IF k = 0 THEN cw[t - 1] ELSE F(i * h[k - 1] + cw[t - 1 - k])
      <4>1. k + 1 \in 0..t /\ k + 1 # 0 /\ (k + 1) - 1 = k /\ k \in 0..t /\ k + 1 \in 1..t
        BY <1>1
      <4>2. h[k] = F(i * g[k] + d[k + 1])
        BY <3>4, <4>1 DEF HornerSteps
      <4>3. CASE k = 0
        <5>1. g[0] = 0 /\ d[1] \in Field
          BY <3>4, <4>1, <4>3 DEF HornerSteps
        <5>2. i * 0 + d[1] = d[1] /\ F(d[1]) = d[1]
          BY <5>1, FieldElements
        <5>3. t - 1 \in Ranks /\ t - (t - 1) = 1
          BY <1>1
        <5> QED BY <4>2, <4>3, <5>1, <5>2, <5>3
      <4>4. CASE k # 0
        <5>1. k - 1 \in Ranks /\ (k - 1) + 1 = k /\ t - 1 - k \in Ranks /\ t - (t - 1 - k) = k + 1
          BY <1>1, <4>4
        <5>2. h[k - 1] = g[k] /\ cw[t - 1 - k] = d[k + 1]
          BY <5>1
        <5> HIDE DEF h, cw
        <5> QED BY <4>2, <4>4, <5>2
      <4> QED BY <4>3, <4>4
    <3>7. h[t - 1] = quotient(p)
      <4>1. t - 1 \in Ranks /\ (t - 1) + 1 = t
        BY <1>1
      <4> QED BY <3>4, <4>1
    <3>8. h = [k \in Ranks |-> h[k]]
      OBVIOUS
    <3> HIDE DEF h, cw
    <3>9. WitSteps(h, cw, i)
      BY <3>6, <3>8 DEF WitSteps
    <3>10. F(i * h[t - 1] + w) = y[p]
      BY <1>2, <3>3, <3>7
    <3> QED BY <3>3, <3>5, <3>9, <3>10 DEF WitIs
  <2> HIDE DEF cw
  <2> QED BY <2>4, <2>5
<1>4. CASE 0 \in S
  <2> DEFINE n == t - 1
             xs == [j \in 1..n |-> Member(S, j)]
             qs == [j \in 1..n |-> quotient(j)]
  <2>1. n \in Nat /\ \A j \in 1..n : j \in Ranks /\ j # 0
    BY <1>1
  <2>2. 0 \in Ranks /\ Member(S, 0) = 0 /\ y[0] \in Field
    BY <1>1, <1>4, MembersArePoints
  <2>3. \A p \in Ranks : p # 0 => Member(S, p) # 0
    BY <2>2, MembersArePoints
  <2>4. /\ xs \in [1..n -> Field] /\ qs \in [1..n -> Field]
        /\ \A j \in 1..n, l \in 1..n : xs[j] = xs[l] => j = l
    <3>1. \A j \in 1..n : Member(S, j) \in Field /\ quotient(j) \in Field
      BY <1>2, <2>1, <2>3, MembersArePoints
    <3>2. ASSUME NEW j \in 1..n, NEW l \in 1..n, xs[j] = xs[l] PROVE j = l
      BY <2>1, <3>2, MembersArePoints
    <3> QED BY <3>1, <3>2
  <2>5. PICK d \in [1..n -> Field] : \A j \in 1..n : Through(y[0], d, n, xs[j], qs[j])
    <3>1. Interpolates(n)
      BY <2>1, Interpolation
    <3> HIDE DEF xs, qs, n
    <3> QED BY <2>2, <2>4, <3>1 DEF Interpolates
  <2> DEFINE cw == [p \in Ranks |-> IF p = n THEN y[0] ELSE d[n - p]]
  <2>6. cw \in [Ranks -> Field]
    <3>1. \A p \in Ranks : p # n => n - p \in 1..n
      BY <1>1
    <3> HIDE DEF n
    <3> QED BY <2>2, <2>5, <3>1
  <2>7. n \in Ranks /\ cw[n] = y[0]
    BY <1>1
  <2>8. ASSUME NEW p \in Ranks, p # 0 PROVE WitIs(cw, w, Member(S, p), y[p])
    <3>1. p \in 1..n
      BY <1>1, <2>8
    <3>2. xs[p] = Member(S, p) /\ qs[p] = quotient(p)
      BY <3>1
    <3>3. PICK i \in Int : i = Member(S, p) /\ i # 0
      BY <2>3, <2>8, MembersArePoints
    <3>4. PICK g \in [0..n -> Field] : HornerSteps(g, y[0], d, n, i) /\ g[n] = quotient(p)
      BY <2>5, <3>1, <3>2, <3>3 DEF Through
    <3>5. ASSUME NEW k \in Ranks
          PROVE  g[k] = IF k = 0 THEN cw[n] ELSE F(i * g[k - 1] + cw[n - k])
      <4>1. k \in 0..n
        BY <1>1
      <4>2. g[k] = IF k = 0 THEN y[0] ELSE F(i * g[k - 1] + d[k])
        BY <3>4, <4>1 DEF HornerSteps
      <4>3. CASE k # 0
        <5>1. n - k \in Ranks /\ n - k # n /\ n - (n - k) = k
          BY <1>1, <4>3
        <5>2. cw[n - k] = d[k]
          BY <5>1
        <5> HIDE DEF cw
        <5> QED BY <4>2, <4>3, <5>2
      <4> HIDE DEF cw
      <4> QED BY <2>7, <4>2, <4>3
    <3>6. Ranks = 0..n /\ g = [k \in Ranks |-> g[k]]
      BY <1>1
    <3> HIDE DEF cw, n
    <3>7. WitSteps(g, cw, i)
      BY <3>5, <3>6 DEF WitSteps, n
    <3>8. F(i * g[n] + w) = y[p]
      BY <1>2, <3>3, <3>4
    <3> QED BY <3>3, <3>6, <3>7, <3>8 DEF WitIs, n
  <2> HIDE DEF cw
  <2>9. WitIs(cw, w, Member(S, 0), y[0])
    BY <2>2, <2>7 DEF WitIs
  <2> QED BY <2>6, <2>8, <2>9
<1> QED BY <1>3, <1>4

LEMMA CompleteIsShare ==
  ASSUME build \in Builds, NEW secret \in Share, NEW coeffs \in [Ranks -> Share], NEW i \in Int
  PROVE  CompleteShare(secret, coeffs, i) \in Share
<1>1. build.revealed - 1 \in Ranks
  BY RanksOfBuild
<1>2. PICK g \in [Ranks -> Share] :
        Horner(secret, coeffs, i) = Plus(Times(i, g[build.revealed - 1]), secret)
  BY ShareHorner
<1>3. g[build.revealed - 1] \in Share /\ coeffs[build.revealed - 1] \in Share
  BY <1>1
<1>4. Horner(secret, coeffs, i) \in Share
  BY <1>2, <1>3, Scales, SumOfTwo
<1> QED BY <1>3, <1>4 DEF CompleteShare

\* The uniform part that makes a solution give the alpha of the signature.
UnifFor(ch, w, alpha, I) == F(alpha - Alpha(ch, [wit |-> w, unif |-> 0, corr |-> 0], I))

LEMMA SolutionsBroadcastAlike ==
  ASSUME NEW I \in [A : Field, b : Field, y : Field], NEW ch \in Challenge,
         NEW w \in Field, IsSolution(w, I), NEW alpha \in Field
  PROVE  /\ PlainOf(w, UnifFor(ch, w, alpha, I)) \in Share
         /\ PlainRound(ch, PlainOf(w, UnifFor(ch, w, alpha, I)), alpha, I) = PlainBroadcast(alpha)
<1> DEFINE t == AlphaTerm(ch, I, w)
           u == UnifFor(ch, w, alpha, I)
<1>1. /\ t \in Int
      /\ \A z \in Field : ch.eps * ch.gamma * I.A * w + z = t + z
  <2>1. ASSUME NEW off \in BOOLEAN
        PROVE  /\ AlphaTerm(ch, I, w) \in Int
               /\ \A z \in Field : ch.eps * ch.gamma * I.A * w + z = AlphaTerm(ch, I, w) + z
    BY <2>1, ZeroIsShare, TermsOfRound
  <2> QED BY <2>1, FALSE \in BOOLEAN
<1> HIDE DEF t
<1>2. alpha \in Int /\ F(alpha) = alpha /\ 0 \in Field
  BY FieldElements, ZeroIsShare
<1>3. u = F(alpha - F(t))
  <2>1. t + 0 = t
    BY <1>1
  <2>2. Alpha(ch, [wit |-> w, unif |-> 0, corr |-> 0], I) = F(t)
    BY <1>1, <1>2, <2>1 DEF Alpha
  <2> QED BY <2>2 DEF UnifFor
<1>4. u \in Field
  <2>1. F(t) \in Int
    BY <1>1, NormalForm
  <2>2. alpha - F(t) \in Int
    BY <1>2, <2>1
  <2> QED BY <1>3, <2>2, NormalForm
<1>5. F(t + u) = alpha
  BY <1>1, <1>2, <1>3, DifferenceNormalises
<1> HIDE DEF u
<1>6. Alpha(ch, PlainOf(w, u), I) = alpha
  BY <1>1, <1>4, <1>5 DEF Alpha, PlainOf
<1>7. /\ PlainOf(w, u) \in Share
      /\ Broadcast(ch, PlainOf(w, u), alpha, I, TRUE) = PlainBroadcast(alpha)
  <2>1. /\ PlainOf(w, u) \in Share
        /\ Broadcast(ch, PlainOf(w, u), Alpha(ch, PlainOf(w, u), I), I, TRUE)
             = PlainBroadcast(Alpha(ch, PlainOf(w, u), I))
    BY <1>4, PlainBroadcastOf
  <2> QED BY <1>6, <2>1
<1> QED BY <1>7 DEF PlainRound, u

\* The sharing of another solution, of which the parts that are not the witness follow
\* from the broadcasts.
CoefficientsFor(ch, cw, brs, alpha, I) ==
  [p \in Ranks |-> ShareFromBroadcast(ch, cw[p], brs[p], alpha, I, FALSE)]

LEMMA CoefficientsExplain ==
  ASSUME build \in Builds, NEW I \in [A : Field, b : Field, y : Field], NEW ch \in Challenge,
         NEW alpha \in Field, NEW brs \in [Ranks -> Br], NEW cw \in [Ranks -> Field]
  PROVE  LET coeffs == CoefficientsFor(ch, cw, brs, alpha, I)
         IN  /\ coeffs \in [Ranks -> Share]
             /\ \A p \in Ranks : coeffs[p].wit = cw[p]
             /\ \A p \in Ranks : brs[p] = CoefficientRound(ch, coeffs[p], alpha, I)
<1> DEFINE share(p) == ShareFromBroadcast(ch, cw[p], brs[p], alpha, I, FALSE)
<1>1. ASSUME NEW off \in BOOLEAN
      PROVE  \A w \in Field, b \in Br :
              /\ ShareFromBroadcast(ch, w, b, alpha, I, off) \in Share
              /\ ShareFromBroadcast(ch, w, b, alpha, I, off).wit = w
              /\ Broadcast(ch, ShareFromBroadcast(ch, w, b, alpha, I, off), alpha, I, off) = b
  BY <1>1, RoundTurned
<1>2. ASSUME NEW p \in Ranks
      PROVE  /\ share(p) \in Share /\ share(p).wit = cw[p]
             /\ CoefficientRound(ch, share(p), alpha, I) = brs[p]
  BY <1>1, FALSE \in BOOLEAN DEF CoefficientRound
<1> QED BY <1>2 DEF CoefficientsFor

\* Another solution of the equation explains what an execution sent.
LEMMA SolutionExplains ==
  ASSUME ThresholdInv, pc \notin BeforeSent, NEW x \in Execs,
         NEW w \in Field, IsSolution(w, inst)
  PROVE  LET ch    == At(challenges, x)
             alpha == At(alphas, x)
         IN  \E cw \in [Ranks -> Field] : \A p \in Ranks :
               CompleteShare(PlainOf(w, UnifFor(ch, w, alpha, inst)),
                             CoefficientsFor(ch, cw, br[x], alpha, inst),
                             Eval(Member(open[x], p))) = ShareOf(x, Member(open[x], p))
<1>1. pc \notin BeforeViews /\ build \in Builds
  BY DEF BeforeSent, BeforeBuild, ThresholdInv, SetupInv
<1>2. PICK ch \in Challenge : ch = At(challenges, x)
  BY <1>1, SecretOf
<1>3. PICK alpha \in Field : alpha = At(alphas, x)
  BY <1>1, SecretOf
<1>4. PICK I \in [A : Field, b : Field, y : Field] : I = inst
  BY <1>1, SecretOf
<1>5. PICK brs \in [Ranks -> Br] : brs = br[x]
  BY <1>1, SecretOf
<1>6. PICK S \in Openings : S = open[x]
  BY DEF BeforeSent, ThresholdInv, SentInv
<1>7. PICK secret \in Share :
        /\ secret = PlainOf(w, UnifFor(ch, w, alpha, I))
        /\ PlainRound(ch, secret, alpha, I) = PlainBroadcast(alpha)
  BY <1>4, SolutionsBroadcastAlike
<1>8. secret.wit = w
  BY <1>7 DEF PlainOf
<1>9. ASSUME NEW p \in Ranks
      PROVE  /\ Member(S, p) \in Parties /\ Member(S, p) \in Int
             /\ Eval(Member(S, p)) = Member(S, p)
             /\ ShareOf(x, Member(S, p)) \in Share
  <2>1. Member(S, p) \in S /\ Member(S, p) \in Int
    BY <1>1, MembersHaveRanks, MembersArePoints
  <2>2. S \subseteq Parties /\ Member(S, p) \in Nat /\ Member(S, p) <= 255
    BY <1>1, <2>1, OpeningsAreFinite
  <2>3. Eval(Member(S, p)) = Member(S, p)
    BY <2>2 DEF Eval
  <2>4. At(plain, x) \in Share /\ rnd[x] \in [Ranks -> Share]
    BY <1>1, SecretOf
  <2>5. ShareOf(x, Member(S, p)) \in Share
    BY <1>1, <2>1, <2>3, <2>4, CompleteIsShare DEF ShareOf
  <2> QED BY <2>1, <2>2, <2>3, <2>5
<1> DEFINE y == [p \in Ranks |-> ShareOf(x, Member(S, p)).wit]
<1>10. y \in [Ranks -> Field] /\ \A p \in Ranks : y[p] = ShareOf(x, Member(S, p)).wit
  BY <1>9 DEF Share
<1> HIDE DEF y
<1>11. PICK cw \in [Ranks -> Field] : \A p \in Ranks : WitIs(cw, w, Member(S, p), y[p])
  BY <1>1, <1>10, WitsInterpolate
<1>12. PICK coeffs \in [Ranks -> Share] :
         /\ coeffs = CoefficientsFor(ch, cw, brs, alpha, I)
         /\ \A p \in Ranks : cw[p] = coeffs[p].wit
         /\ \A p \in Ranks : brs[p] = CoefficientRound(ch, coeffs[p], alpha, I)
  BY <1>1, CoefficientsExplain
<1>13. ASSUME NEW p \in Ranks
       PROVE  CompleteShare(secret, coeffs, Eval(Member(S, p))) = ShareOf(x, Member(S, p))
  <2>1. PICK i \in Int : /\ i = Member(S, p) /\ i \in Parties /\ Eval(i) = i
                         /\ ShareOf(x, i) \in Share
    BY <1>9
  <2>2. PICK share : share = CompleteShare(secret, coeffs, i)
    OBVIOUS
  <2>3. PICK mine : mine = ShareBroadcast(PlainBroadcast(alpha), brs, i)
    OBVIOUS
  <2>4. share.wit = y[p]
    <3>1. WitIs(cw, secret.wit, i, y[p])
      BY <1>8, <1>11, <2>1
    <3>2. PICK z : z = y[p]
      OBVIOUS
    <3>3. CompleteShare(secret, coeffs, i).wit = z
      <4>1. AreWits(cw, coeffs) /\ WitIs(cw, secret.wit, i, z)
        BY <1>12, <3>1, <3>2 DEF AreWits
      <4> QED BY <1>1, <4>1, WitOfShare
    <3> QED BY <2>2, <3>2, <3>3
  <2>5. ShareFromBroadcast(ch, share.wit, mine, alpha, I, HasSharingOffset(i)) = share
    BY <1>1, <1>7, <1>12, <2>2, <2>3, ShareRecovered
  <2>6. ShareFromBroadcast(ch, ShareOf(x, i).wit, mine, alpha, I, HasSharingOffset(i))
          = ShareOf(x, i)
    BY <1>1, <1>2, <1>3, <1>4, <1>5, <2>1, <2>3, ShareOfParty
  <2>7. share.wit = ShareOf(x, i).wit
    BY <1>10, <2>1, <2>4
  <2> QED BY <2>1, <2>2, <2>5, <2>6, <2>7
<1> QED BY <1>2, <1>3, <1>4, <1>5, <1>6, <1>7, <1>12, <1>13

LEMMA AllSolutionsExplain ==
  ASSUME ThresholdInv, sig # NoDigest
  PROVE  WitnessIndistinguishable
<1>1. pc \notin BeforeSent /\ pc # "setup" /\ pc # "commit"
  BY DEF ThresholdInv, SentInv, BeforeSent, BeforeBuild, BeforeViews, BeforeSimulate
<1>2. ASSUME NEW x \in Execs, NEW i \in Parties PROVE roots[x].leaves[i].share = ShareOf(x, i)
  <2>1. roots[x] = RootAt(x)
    BY <1>1 DEF ThresholdInv, RootsInv
  <2> QED BY <2>1 DEF RootAt, Tree, Commitment
<1>3. ASSUME NEW x \in Execs, NEW p \in Ranks PROVE Member(open[x], p) \in Parties
  <2>1. build \in Builds /\ open[x] \in Openings
    BY <1>1 DEF BeforeSent, ThresholdInv, SetupInv, SentInv
  <2> QED BY <2>1, MembersHaveRanks, OpeningsAreFinite
<1>4. ASSUME NEW w \in Field, F(key.A * w * w + key.b * w) = inst.y
      PROVE  IsSolution(w, inst)
  BY <1>4 DEF IsSolution, inst, Instance
<1>5. ASSUME NEW w \in Field, F(key.A * w * w + key.b * w) = inst.y, NEW x \in Execs
      PROVE  LET ch    == At(challenges, x)
                 alpha == At(alphas, x)
                 unif  == F(alpha - Alpha(ch, [wit |-> w, unif |-> 0, corr |-> 0], inst))
             IN  \E cw \in [Ranks -> Field] : \A p \in Ranks :
                   CompleteShare(
                     [wit |-> w, unif |-> unif, corr |-> Correlated(w, unif)],
                     [q \in Ranks |-> ShareFromBroadcast(ch, cw[q], br[x][q], alpha, inst, FALSE)],
                     Eval(Member(open[x], p)))
                   = roots[x].leaves[Member(open[x], p)].share
  <2>1. \A p \in Ranks : roots[x].leaves[Member(open[x], p)].share = ShareOf(x, Member(open[x], p))
    BY <1>2, <1>3
  <2> QED BY <1>1, <1>4, <1>5, <2>1, SolutionExplains DEF PlainOf, UnifFor, CoefficientsFor
<1> QED BY <1>5 DEF WitnessIndistinguishable

\* For every build, key, seed, challenge and set of open parties: what a signature shows,
\* the alpha of the plain broadcast, the broadcasts of the coefficients and the shares of
\* the open parties, is what the signer sends for any solution of the equation of the
\* public key, with some uniform part and some coefficients.  The parties that open are
\* fewer than the parties, and as many as the coefficients: through their witness parts
\* and that solution there is a polynomial.
THEOREM HidesWitness == Spec => []WitnessIndistinguishable
<1>1. ThresholdInv => WitnessIndistinguishable
  BY AllSolutionsExplain DEF WitnessIndistinguishable
<1> QED BY <1>1, ThresholdInvariant, PTL

-----------------------------------------------------------------------------
(* The signature fits in its buffer.                                       *)

\* The nodes on the paths that are not leaves.
InnerOnPaths(S) == {(2^build.log + i) \div 2^d : i \in S, d \in 1..build.log}

LEMMA PowersOfBuild ==
  ASSUME build \in Builds
  PROVE  /\ build.log \in Nat /\ 2^0 = 1 /\ build.parties \in Nat /\ build.parties <= 2^build.log
         /\ \A n \in 0..build.log : 2^n \in Nat \ {0} /\ 2^(n + 1) = 2 * 2^n
         /\ build.log >= 1
<1>1. /\ build.log \in Nat /\ 2^0 = 1 /\ build.parties \in Nat /\ build.parties <= 2^build.log
      /\ build.parties >= 2
      /\ \A n \in 0..build.log : 2^n \in Nat \ {0} /\ 2^(n + 1) = 2 * 2^n
  BY BuildsAssumption DEF Supported
<1>2. build.log # 0
  <2>1. ASSUME build.log = 0 PROVE FALSE
    <3>1. 2^build.log = 2^0
      BY <2>1
    <3> QED BY <1>1, <3>1
  <2> QED BY <2>1
<1> QED BY <1>1, <1>2

\* The powers of two grow.
LEMMA PowersGrow ==
  ASSUME build \in Builds, NEW d \in 0..build.log
  PROVE  \A n \in 0..d : 2^n * 2^(d - n) = 2^d
<1> DEFINE T == {n \in 0..d : 2^n * 2^(d - n) # 2^d}
<1>1. /\ build.log \in Nat /\ 2^0 = 1
      /\ \A n \in 0..build.log : 2^n \in Nat \ {0} /\ 2^(n + 1) = 2 * 2^n
  BY PowersOfBuild
<1>2. CASE T # {}
  <2>1. PICK m \in T : \A l \in T : m <= l
    BY <1>2, Least, T \subseteq Nat
  <2>2. m # 0
    <3>1. 1 * 2^d = 2^d /\ d - 0 = d
      BY <1>1
    <3> QED BY <1>1, <2>1, <3>1
  <2>3. /\ m - 1 \in 0..d /\ ~(m <= m - 1) /\ m - 1 \in 0..build.log /\ d - m \in 0..build.log
        /\ (m - 1) + 1 = m /\ d - (m - 1) = (d - m) + 1
    <3>1. m \in Nat /\ d \in Nat /\ m <= d /\ d <= build.log
      BY <1>1, <2>1
    <3> QED BY <1>1, <2>2, <3>1
  <2>4. 2^(m - 1) * 2^(d - (m - 1)) = 2^d
    BY <2>1, <2>3
  <2>5. PICK a \in Nat, b \in Nat : a = 2^(m - 1) /\ b = 2^(d - m)
    BY <1>1, <2>3
  <2>6. 2^m = 2 * a /\ 2^(d - (m - 1)) = 2 * b
    BY <1>1, <2>3, <2>5
  <2>7. (2 * a) * b = a * (2 * b)
    OBVIOUS
  <2>8. 2^m * 2^(d - m) = 2^d
    BY <2>4, <2>5, <2>6, <2>7
  <2> QED BY <2>1, <2>8
<1>3. CASE T = {}
  BY <1>3
<1> QED BY <1>2, <1>3

LEMMA PowersDouble ==
  ASSUME build \in Builds, NEW d \in 1..build.log, NEW n \in 0..(d - 1)
  PROVE  2 * 2^n <= 2^d
<1>1. build.log \in Nat /\ \A k \in 0..build.log : 2^k \in Nat \ {0} /\ 2^(k + 1) = 2 * 2^k
  BY PowersOfBuild
<1>2. /\ d - 1 \in 0..build.log /\ (d - 1) + 1 = d /\ n \in 0..build.log
      /\ (d - 1) - n \in 0..build.log
  BY <1>1
<1>3. PICK a \in Nat \ {0}, b \in Nat \ {0} : a = 2^n /\ b = 2^((d - 1) - n)
  BY <1>1, <1>2
<1>4. a * b = 2^(d - 1) /\ 2^d = 2 * 2^(d - 1)
  BY <1>1, <1>2, <1>3, PowersGrow
<1>5. a <= a * b
  <2>1. PICK c \in Nat : b = c + 1
    BY <1>3, b - 1 \in Nat
  <2>2. a * b = a * c + a /\ a * c \in Nat
    BY <2>1
  <2> QED BY <2>2
<1> QED BY <1>3, <1>4, <1>5

\* The ancestors of a leaf.
LEMMA Ancestors ==
  ASSUME build \in Builds, NEW i \in Parties
  PROVE  LET leaf == 2^build.log + i
         IN  /\ leaf \in Nat
             /\ \A d \in 0..build.log :
                  /\ leaf \div 2^d \in Nat
                  /\ (leaf \div 2^d) \div 2 = leaf \div 2^(d + 1)
                  /\ 2^(build.log - d) <= leaf \div 2^d
                  /\ leaf \div 2^d < 2 * 2^(build.log - d)
             /\ leaf \div 2^0 = leaf /\ leaf \div 2^build.log = 1
<1> DEFINE leaf == 2^build.log + i
           L == build.log
<1>1. /\ L \in Nat /\ 2^0 = 1 /\ build.parties \in Nat /\ build.parties <= 2^L
      /\ \A n \in 0..L : 2^n \in Nat \ {0} /\ 2^(n + 1) = 2 * 2^n
  BY PowersOfBuild
<1>2. 2^L \in Nat
  BY <1>1
<1>3. leaf \in Nat /\ 2^L <= leaf /\ leaf < 2 * 2^L
  BY <1>1, <1>2 DEF Parties
<1> HIDE DEF leaf
<1>4. ASSUME NEW d \in 0..L
      PROVE  /\ leaf \div 2^d \in Nat
             /\ (leaf \div 2^d) \div 2 = leaf \div 2^(d + 1)
             /\ 2^(L - d) <= leaf \div 2^d
             /\ leaf \div 2^d < 2 * 2^(L - d)
  <2>1. PICK m \in Nat \ {0} : m = 2^d
    BY <1>1
  <2>2. PICK k \in Nat \ {0} : k = 2^(L - d)
    BY <1>1, L - d \in 0..L
  <2>3. m * k = 2^L /\ L \in 0..L
    <3>1. L \in 0..L
      BY <1>1
    <3>2. 2^d * 2^(L - d) = 2^L
      BY <3>1, PowersGrow
    <3> QED BY <2>1, <2>2, <3>1, <3>2
  <2>4. /\ leaf \div m \in Nat /\ (leaf \div m) \div 2 = leaf \div (2 * m)
        /\ \A q \in Nat : (q * m <= leaf <=> q <= leaf \div m)
    BY <1>3, Quotients
  <2>5. k * m <= leaf
    <3>1. k * m = m * k
      OBVIOUS
    <3> QED BY <1>3, <2>3, <3>1
  <2>6. ~((2 * k) * m <= leaf)
    <3>1. (2 * k) * m = 2 * (m * k) /\ m * k \in Nat
      OBVIOUS
    <3> QED BY <1>3, <2>3, <3>1
  <2>7. ~(2 * k <= leaf \div m)
    BY <2>4, <2>6, 2 * k \in Nat
  <2>8. k <= leaf \div m
    BY <2>4, <2>5
  <2>9. 2^(d + 1) = 2 * m
    BY <1>1, <2>1
  <2> QED BY <2>1, <2>2, <2>4, <2>7, <2>8, <2>9
<1>5. leaf \div 2^0 = leaf
  <2>1. leaf \div 1 = leaf
    BY <1>3
  <2> QED BY <1>1, <2>1
<1>6. leaf \div 2^L = 1
  <2>1. /\ leaf \div 2^L \in Nat /\ 2^(L - L) <= leaf \div 2^L
        /\ leaf \div 2^L < 2 * 2^(L - L)
    BY <1>1, <1>4, L \in 0..L
  <2>2. 2^(L - L) = 1
    BY <1>1, L - L = 0
  <2> QED BY <2>1, <2>2
<1> QED BY <1>3, <1>4, <1>5, <1>6 DEF leaf

\* The nodes on the paths are the open leaves and inner nodes.
LEMMA PathsSplit ==
  ASSUME build \in Builds, NEW S, S \subseteq Parties
  PROVE  /\ OnPaths(S) = {2^build.log + i : i \in S} \cup InnerOnPaths(S)
         /\ \A n \in {2^build.log + i : i \in S} : n \in Nat /\ 2^build.log <= n
         /\ \A n \in InnerOnPaths(S) : n \in Nat /\ n < 2^build.log
         /\ \A n \in OnPaths(S) : n \in Nat /\ n < 2 * 2^build.log /\ 1 <= n
         /\ \A n \in OnPaths(S) \ {1} : n \div 2 \in InnerOnPaths(S)
<1> DEFINE L == build.log
           leaf(i) == 2^L + i
<1>1. /\ L \in Nat /\ 2^0 = 1 /\ L >= 1
      /\ \A n \in 0..L : 2^n \in Nat \ {0} /\ 2^(n + 1) = 2 * 2^n
  BY PowersOfBuild
<1>2. ASSUME NEW i \in S
      PROVE  /\ leaf(i) \in Nat
             /\ \A d \in 0..L : /\ leaf(i) \div 2^d \in Nat
                                /\ (leaf(i) \div 2^d) \div 2 = leaf(i) \div 2^(d + 1)
                                /\ 2^(L - d) <= leaf(i) \div 2^d
                                /\ leaf(i) \div 2^d < 2 * 2^(L - d)
             /\ leaf(i) \div 2^0 = leaf(i) /\ leaf(i) \div 2^L = 1
  BY Ancestors
<1> HIDE DEF leaf
<1>3. /\ \A n : n \in OnPaths(S) <=> \E i \in S, d \in 0..L : n = leaf(i) \div 2^d
      /\ \A n : n \in InnerOnPaths(S) <=> \E i \in S, d \in 1..L : n = leaf(i) \div 2^d
      /\ \A n : n \in {2^L + i : i \in S} <=> \E i \in S : n = leaf(i)
  BY DEF OnPaths, InnerOnPaths, leaf
<1>4. OnPaths(S) = {2^L + i : i \in S} \cup InnerOnPaths(S)
  <2>1. /\ \A d \in 0..L : d = 0 \/ d \in 1..L
        /\ 0 \in 0..L /\ \A d \in 1..L : d \in 0..L
    BY <1>1
  <2>2. \A i \in S : leaf(i) \div 2^0 = leaf(i)
    BY <1>2
  <2>3. ASSUME NEW n PROVE n \in OnPaths(S) => n \in {2^L + i : i \in S} \/ n \in InnerOnPaths(S)
    <3>1. ASSUME NEW i \in S, NEW d \in 0..L, n = leaf(i) \div 2^d
          PROVE  n \in {2^L + j : j \in S} \/ n \in InnerOnPaths(S)
      <4>1. CASE d = 0
        BY <1>3, <2>2, <3>1, <4>1
      <4>2. CASE d \in 1..L
        BY <1>3, <3>1, <4>2
      <4> QED BY <2>1, <4>1, <4>2
    <3> QED BY <1>3, <3>1
  <2>4. ASSUME NEW n PROVE n \in {2^L + i : i \in S} \/ n \in InnerOnPaths(S) => n \in OnPaths(S)
    <3>1. ASSUME n \in {2^L + i : i \in S} PROVE n \in OnPaths(S)
      <4>1. PICK i \in S : n = leaf(i)
        BY <1>3, <3>1
      <4>2. n = leaf(i) \div 2^0
        BY <2>2, <4>1
      <4> QED BY <1>3, <2>1, <4>2
    <3>2. ASSUME n \in InnerOnPaths(S) PROVE n \in OnPaths(S)
      <4>1. PICK i \in S, d \in 1..L : n = leaf(i) \div 2^d
        BY <1>3, <3>2
      <4> QED BY <1>3, <2>1, <4>1
    <3> QED BY <3>1, <3>2
  <2> QED BY <2>3, <2>4
<1>5. ASSUME NEW i \in S PROVE leaf(i) \in Nat /\ 2^L <= leaf(i)
  <2>1. 0 \in 0..L /\ L - 0 = L
    BY <1>1
  <2> QED BY <1>2, <2>1
<1>6. ASSUME NEW i \in S, NEW d \in 1..L
      PROVE  leaf(i) \div 2^d \in Nat /\ leaf(i) \div 2^d < 2^L
  <2>1. d \in 0..L /\ L \in 1..L /\ L - d \in 0..(L - 1) /\ L - d \in 0..L /\ L \in 0..L
    BY <1>1
  <2>2. 2 * 2^(L - d) <= 2^L
    BY <2>1, PowersDouble
  <2>3. PICK a \in Nat, b \in Nat : a = 2^(L - d) /\ b = 2^L
    BY <1>1, <2>1
  <2>4. leaf(i) \div 2^d \in Nat /\ leaf(i) \div 2^d < 2 * a
    BY <1>2, <2>1, <2>3
  <2> QED BY <2>2, <2>3, <2>4
<1>7. ASSUME NEW i \in S, NEW d \in 0..L, NEW n, n = leaf(i) \div 2^d
      PROVE  /\ n \in Nat /\ n < 2 * 2^L /\ 1 <= n
             /\ n # 1 => n \div 2 \in InnerOnPaths(S)
  <2>1. /\ n \in Nat /\ n \div 2 = leaf(i) \div 2^(d + 1)
        /\ 2^(L - d) <= n /\ 2^L \in Nat
    BY <1>1, <1>2, <1>7
  <2>2. 2^(L - d) \in Nat \ {0}
    BY <1>1, L - d \in 0..L
  <2>3. n < 2 * 2^L
    <3>1. CASE d = 0
      <4>1. n < 2 * 2^(L - 0) /\ L - 0 = L
        BY <1>1, <1>2, <1>7, <3>1
      <4> QED BY <4>1
    <3>2. CASE d # 0
      <4>1. n < 2^L
        BY <1>6, <1>7, <3>2
      <4> QED BY <2>1, <4>1
    <3> QED BY <3>1, <3>2
  <2>4. ASSUME n # 1 PROVE n \div 2 \in InnerOnPaths(S)
    <3>1. d # L
      BY <1>2, <1>7, <2>4
    <3>2. d + 1 \in 1..L
      BY <1>1, <3>1
    <3> QED BY <1>3, <2>1, <3>2
  <2> QED BY <2>1, <2>2, <2>3, <2>4
<1>8. /\ \A n \in {2^L + i : i \in S} : n \in Nat /\ 2^L <= n
      /\ \A n \in InnerOnPaths(S) : n \in Nat /\ n < 2^L
      /\ \A n \in OnPaths(S) : /\ n \in Nat /\ n < 2 * 2^L /\ 1 <= n
                               /\ n # 1 => n \div 2 \in InnerOnPaths(S)
  <2>1. \A n \in {2^L + i : i \in S} : n \in Nat /\ 2^L <= n
    BY <1>3, <1>5
  <2>2. \A n \in InnerOnPaths(S) : n \in Nat /\ n < 2^L
    BY <1>3, <1>6
  <2>3. ASSUME NEW n \in OnPaths(S)
        PROVE  /\ n \in Nat /\ n < 2 * 2^L /\ 1 <= n
               /\ n # 1 => n \div 2 \in InnerOnPaths(S)
    <3>1. PICK i \in S, d \in 0..L : n = leaf(i) \div 2^d
      BY <1>3
    <3> QED BY <1>7, <3>1
  <2> QED BY <2>1, <2>2, <2>3
<1> QED BY <1>4, <1>8

LEMMA InnerPathsAreFew ==
  ASSUME build \in Builds, NEW S \in Openings, NEW c \in 0..build.log
  PROVE  /\ IsFiniteSet(InnerOnPaths(S))
         /\ Cardinality(InnerOnPaths(S)) <= 2^c - 1 + build.revealed * (build.log - c)
<1> DEFINE L == build.log
           D == 1..(L - c)
           g == [t \in S \X D |-> (2^L + t[1]) \div 2^t[2]]
           W == {g[t] : t \in S \X D}
           top == 1..(2^c - 1)
<1>1. /\ L \in Nat /\ c \in Nat /\ 2^c \in Nat \ {0}
      /\ \A n \in 0..L : 2^n \in Nat \ {0}
  BY PowersOfBuild
<1>2. /\ IsFiniteSet(S) /\ Cardinality(S) = build.revealed /\ S \subseteq Parties
      /\ build.revealed \in Nat
  BY OpeningsAreFinite, RanksOfBuild
<1>3. IsFiniteSet(D) /\ Cardinality(D) = L - c
  <2>1. L - c \in Int /\ 1 \in Int /\ L - c >= 0
    BY <1>1
  <2>2. IsFiniteSet(D) /\ Cardinality(D) = IF 1 > L - c THEN 0 ELSE (L - c) - 1 + 1
    BY <2>1, FS_Interval
  <2> QED BY <2>1, <2>2
<1>4. IsFiniteSet(S \X D) /\ Cardinality(S \X D) = build.revealed * (L - c)
  <2> HIDE DEF D
  <2>1. IsFiniteSet(S \X D) /\ Cardinality(S \X D) = Cardinality(S) * Cardinality(D)
    BY <1>2, <1>3, FS_Product
  <2> QED BY <1>2, <1>3, <2>1
<1>5. IsFiniteSet(W) /\ Cardinality(W) <= build.revealed * (L - c)
  <2>1. g \in Surjection(S \X D, W)
    <3>1. g \in [S \X D -> W] /\ \A w \in W : \E t \in S \X D : g[t] = w
      OBVIOUS
    <3> HIDE DEF g, W
    <3> QED BY <3>1 DEF Surjection
  <2> HIDE DEF g, W
  <2> QED BY <1>4, <2>1, FS_Surjection
<1>6. IsFiniteSet(top) /\ Cardinality(top) = 2^c - 1
  <2>1. PICK b \in Nat \ {0} : b = 2^c
    BY <1>1
  <2>2. IsFiniteSet(1..(b - 1)) /\ Cardinality(1..(b - 1)) = IF 1 > b - 1 THEN 0 ELSE b - 1 - 1 + 1
    BY FS_Interval, 1 \in Int, b - 1 \in Int
  <2> QED BY <2>1, <2>2
<1>7. InnerOnPaths(S) \subseteq top \cup W
  <2>1. ASSUME NEW i \in S, NEW d \in 1..L PROVE (2^L + i) \div 2^d \in top \cup W
    <3>1. i \in Parties /\ d \in 0..L
      BY <1>1, <1>2
    <3>2. PICK n \in Nat : n = (2^L + i) \div 2^d /\ n < 2 * 2^(L - d) /\ 2^(L - d) <= n
      BY <3>1, Ancestors
    <3>3. CASE d \in D
      <4>1. <<i, d>> \in S \X D /\ <<i, d>>[1] = i /\ <<i, d>>[2] = d
        BY <3>3
      <4>2. g[<<i, d>>] = n
        BY <3>2, <4>1
      <4> HIDE DEF g
      <4> QED BY <3>2, <4>1, <4>2
    <3>4. CASE d \notin D
      <4>1. L - d \in 0..(c - 1) /\ c \in 1..L /\ L - d \in 0..L
        BY <1>1, <3>4
      <4>2. 2 * 2^(L - d) <= 2^c
        BY <4>1, PowersDouble
      <4>3. PICK a \in Nat \ {0}, b \in Nat : a = 2^(L - d) /\ b = 2^c
        BY <1>1, <4>1
      <4>4. n \in 1..(b - 1)
        BY <3>2, <4>2, <4>3
      <4> QED BY <3>2, <4>3, <4>4
    <3> QED BY <3>3, <3>4
  <2> HIDE DEF top, W
  <2> QED BY <2>1 DEF InnerOnPaths
<1> HIDE DEF top, W, D
<1>8. /\ IsFiniteSet(top \cup W)
      /\ Cardinality(top \cup W) = Cardinality(top) + Cardinality(W) - Cardinality(top \cap W)
  BY <1>5, <1>6, FS_Union
<1>9. Cardinality(top \cap W) \in Nat /\ Cardinality(W) \in Nat
  <2>1. IsFiniteSet(top \cap W)
    BY <1>6, FS_Intersection
  <2> QED BY <1>5, <2>1, FS_CardinalityType
<1>10. IsFiniteSet(InnerOnPaths(S)) /\ Cardinality(InnerOnPaths(S)) <= Cardinality(top \cup W)
  BY <1>7, <1>8, FS_Subset
<1>11. Cardinality(InnerOnPaths(S)) \in Nat
  BY <1>10, FS_CardinalityType
<1>12. PICK b \in Nat, m \in Int : b = 2^c /\ m = build.revealed * (L - c)
  BY <1>1, <1>2
<1> QED BY <1>5, <1>6, <1>8, <1>9, <1>10, <1>11, <1>12

\* The siblings that are sent, and the nodes on the paths but the root, are children of the
\* inner nodes on the paths.
LEMMA AuthNodesAreFew ==
  ASSUME build \in Builds, NEW S \in Openings, NEW c \in 0..build.log
  PROVE  /\ Cardinality(AuthNodes(S)) \in Nat
         /\ Cardinality(AuthNodes(S))
              <= build.revealed * (build.log - c) + 2^c - build.revealed
<1> DEFINE L == build.log
           A == AuthNodes(S)
           P == OnPaths(S)
           I == InnerOnPaths(S)
           leaves == {2^L + i : i \in S}
           rest == P \ {1}
           f == [n \in A \cup rest |-> <<n \div 2, n % 2>>]
<1>1. /\ L \in Nat /\ c \in Nat /\ 2^c \in Nat /\ 2^L \in Nat /\ L \in 0..L
  BY PowersOfBuild
<1>2. /\ IsFiniteSet(S) /\ Cardinality(S) = build.revealed /\ S \subseteq Parties
      /\ build.revealed \in Nat \ {0} /\ \A i \in S : i \in Nat
  BY OpeningsAreFinite, RanksOfBuild
<1>3. IsFiniteSet(I) /\ Cardinality(I) <= 2^c - 1 + build.revealed * (L - c) /\ Cardinality(I) \in Nat
  BY InnerPathsAreFew, FS_CardinalityType
<1>4. /\ P = leaves \cup I
      /\ \A n \in leaves : n \in Nat /\ 2^L <= n
      /\ \A n \in I : n \in Nat /\ n < 2^L
      /\ \A n \in P : n \in Nat
      /\ \A n \in P \ {1} : n \div 2 \in I
  BY <1>2, PathsSplit
<1>5. IsFiniteSet(leaves) /\ Cardinality(leaves) = build.revealed
  <2> DEFINE h == [i \in S |-> 2^L + i]
  <2>1. h \in Surjection(S, leaves)
    <3>1. h \in [S -> leaves] /\ \A n \in leaves : \E i \in S : h[i] = n
      OBVIOUS
    <3> HIDE DEF h, leaves
    <3> QED BY <3>1 DEF Surjection
  <2>2. h \in Injection(S, leaves)
    <3>1. PICK b \in Nat : b = 2^L
      BY <1>1
    <3>2. \A i, j \in S : h[i] = h[j] => i = j
      BY <1>2, <3>1
    <3>3. h \in [S -> leaves]
      OBVIOUS
    <3> HIDE DEF h, leaves
    <3> QED BY <3>2, <3>3 DEF Injection, IsInjective
  <2> HIDE DEF h, leaves
  <2> QED BY <1>2, <2>1, <2>2, FS_Surjection
<1>6. IsFiniteSet(P) /\ Cardinality(P) = build.revealed + Cardinality(I)
  <2>1. leaves \cap I = {}
    BY <1>1, <1>4
  <2>2. Cardinality(leaves \cap I) = 0
    BY <2>1, FS_EmptySet
  <2> HIDE DEF leaves, P, I
  <2>3. /\ IsFiniteSet(leaves \cup I)
        /\ Cardinality(leaves \cup I)
             = Cardinality(leaves) + Cardinality(I) - Cardinality(leaves \cap I)
    BY <1>3, <1>5, FS_Union
  <2> QED BY <1>2, <1>3, <1>4, <1>5, <2>2, <2>3
<1>7. 1 \in P
  <2>1. S # {}
    BY <1>2, FS_EmptySet
  <2>2. PICK i \in S : TRUE
    BY <2>1
  <2>3. (2^L + i) \div 2^L = 1
    BY <1>2, Ancestors
  <2> QED BY <1>1, <2>3 DEF OnPaths
<1>8. ASSUME NEW n \in A PROVE n \in Nat /\ n \notin P /\ n \div 2 \in I
  <2>1. n \in Existing /\ n \notin P /\ n \div 2 \in P
    BY DEF AuthNodes
  <2>2. n \in Nat /\ n < 2 * 2^L
    BY <2>1, PathsSplit DEF Existing
  <2>3. n \div 2 < 2^L
    <3>1. PICK b \in Nat : b = 2^L
      BY <1>1
    <3>2. n \div 2 \in Nat /\ n % 2 \in {0, 1} /\ n = 2 * (n \div 2) + (n % 2)
      BY <2>2, Halves
    <3> QED BY <2>2, <3>1, <3>2
  <2>4. n \div 2 \notin leaves
    <3> HIDE DEF leaves
    <3>1. PICK k \in Nat : k = n \div 2
      BY <2>2, Halves
    <3> QED BY <1>1, <1>4, <2>3, <3>1
  <2> QED BY <1>4, <2>1, <2>2, <2>4
<1>9. ASSUME NEW n \in A \cup rest PROVE n \in Nat /\ n \div 2 \in I /\ n % 2 \in {0, 1}
  <2>1. n \in Nat /\ n \div 2 \in I
    BY <1>4, <1>8
  <2> QED BY <2>1, Halves
<1>10. f \in Injection(A \cup rest, I \X {0, 1})
  <2>1. f \in [A \cup rest -> I \X {0, 1}]
    BY <1>9
  <2>2. ASSUME NEW n \in A \cup rest, NEW k \in A \cup rest, f[n] = f[k] PROVE n = k
    <3>1. n \div 2 = k \div 2 /\ n % 2 = k % 2
      BY <2>2
    <3>2. n = 2 * (n \div 2) + (n % 2) /\ k = 2 * (k \div 2) + (k % 2)
      BY <1>9, Halves
    <3> QED BY <3>1, <3>2
  <2> HIDE DEF f
  <2> QED BY <2>1, <2>2 DEF Injection, IsInjective
<1>11. IsFiniteSet({0, 1}) /\ Cardinality({0, 1}) = 2
  <2>1. IsFiniteSet({0}) /\ Cardinality({0}) = 1
    BY FS_Singleton
  <2>2. IsFiniteSet({0} \cup {1}) /\ Cardinality({0} \cup {1}) = 1 + 1
    BY <2>1, FS_AddElement, 1 \notin {0}
  <2>3. {0} \cup {1} = {0, 1}
    OBVIOUS
  <2> QED BY <2>2, <2>3
<1>12. IsFiniteSet(I \X {0, 1}) /\ Cardinality(I \X {0, 1}) = Cardinality(I) * 2
  BY <1>3, <1>11, FS_Product
<1> HIDE DEF f, A, P, I, rest, leaves
<1>13. IsFiniteSet(A \cup rest) /\ Cardinality(A \cup rest) <= Cardinality(I) * 2
  BY <1>10, <1>12, FS_Injection
<1>14. IsFiniteSet(rest) /\ Cardinality(rest) = Cardinality(P) - 1
  BY <1>6, <1>7, FS_RemoveElement DEF rest
<1>15. A \cap rest = {}
  BY <1>8 DEF rest
<1>16. IsFiniteSet(A) /\ Cardinality(A) \in Nat
  <2>1. IsFiniteSet(A)
    BY <1>13, FS_Subset, A \subseteq A \cup rest
  <2> QED BY <2>1, FS_CardinalityType
<1>17. Cardinality(A \cup rest) = Cardinality(A) + Cardinality(rest)
  <2>1. Cardinality(A \cap rest) = 0
    BY <1>15, FS_EmptySet
  <2>2. Cardinality(A \cup rest) = Cardinality(A) + Cardinality(rest) - Cardinality(A \cap rest)
    BY <1>14, <1>16, FS_Union
  <2>3. Cardinality(rest) \in Nat
    BY <1>14, FS_CardinalityType
  <2> QED BY <1>16, <2>1, <2>2, <2>3
<1>18. Cardinality(A) <= build.revealed * (L - c) + 2^c - build.revealed
  <2>1. PICK a \in Nat, k \in Nat, b \in Nat, m \in Nat, z \in Int :
          /\ a = Cardinality(A) /\ k = Cardinality(I) /\ b = 2^c /\ m = build.revealed
          /\ z = build.revealed * (L - c)
    <3>1. PICK r \in Int, m \in Nat : r = L - c /\ m = build.revealed
      BY <1>1, <1>2
    <3>2. m * r \in Int
      OBVIOUS
    <3> QED BY <1>1, <1>3, <1>16, <3>1, <3>2
  <2>2. a + (m + k - 1) <= k * 2 /\ k <= b - 1 + z
    BY <1>3, <1>6, <1>13, <1>14, <1>17, <2>1
  <2>3. a <= z + b - m
    BY <2>1, <2>2
  <2> QED BY <2>1, <2>3
<1> QED BY <1>16, <1>18 DEF A

LEMMA LengthIsBounded ==
  ASSUME ThresholdInv, NEW S \in [Execs -> Openings]
  PROVE  LengthBuilt(S) <= MaxLength
<1>1. build \in Builds
  BY DEF ThresholdInv, SetupInv
<1>2. build.execs \in Nat \ {0} /\ build.maxOpen \in Nat /\ build.revealed \in Nat /\ build.log \in Nat
  BY <1>1, BuildsAssumption, RanksOfBuild DEF Supported
<1>3. PICK dg \in Nat, st \in Nat, pl \in Nat, bb \in Nat, ww \in Nat, cc \in Nat, uu \in Nat :
        /\ dg = Size.digest /\ st = Size.salt /\ pl = Size.plain /\ bb = Size.br
        /\ ww = Size.wit /\ cc = Size.corr /\ uu = Size.unif /\ bb <= cc + uu
  BY SizeAssumption, SpaceAssumption
<1>4. PICK x \in Nat, m \in Nat, r \in Nat :
        x = build.execs /\ m = build.maxOpen /\ r = build.revealed
  BY <1>2
<1> DEFINE f == [y \in Execs |-> Size.digest * Cardinality(AuthNodes(S[y]))]
<1>5. ASSUME NEW y \in Execs PROVE f[y] \in Int /\ f[y] <= dg * m
  <2>1. PICK c \in 0..build.log : build.revealed * (build.log - c) + 2^c - build.revealed <= build.maxOpen
    BY <1>1, SpaceAssumption
  <2>2. /\ Cardinality(AuthNodes(S[y])) \in Nat
        /\ Cardinality(AuthNodes(S[y])) <= build.revealed * (build.log - c) + 2^c - build.revealed
    BY <1>1, <2>1, AuthNodesAreFew
  <2>3. PICK a \in Nat, z \in Int :
          /\ a = Cardinality(AuthNodes(S[y]))
          /\ z = build.revealed * (build.log - c) + 2^c - build.revealed
    <3>1. PICK q \in Int, b \in Int : q = build.log - c /\ b = 2^c
      BY <1>1, <1>2, PowersOfBuild
    <3>2. build.revealed * q + b - build.revealed \in Int
      BY <1>2
    <3> QED BY <2>2, <3>1, <3>2
  <2>4. a <= m
    BY <1>4, <2>1, <2>2, <2>3
  <2>5. PICK d \in Nat : m = a + d
    BY <2>4, m - a \in Nat
  <2>6. dg * m = dg * a + dg * d /\ dg * d \in Nat /\ dg * a \in Nat
    BY <2>5
  <2> QED BY <1>3, <2>3, <2>6
<1>6. AuthLength(S) \in Int /\ AuthLength(S) <= x * (dg * m)
  <2>1. Execs = 0..(x - 1) /\ f \in [0..(x - 1) -> Int] /\ dg * m \in Int
    <3>1. Execs = 0..(x - 1)
      BY <1>4 DEF Execs
    <3>2. \A y \in Execs : Size.digest * Cardinality(AuthNodes(S[y])) \in Int
      BY <1>5
    <3>3. f \in [Execs -> Int]
      BY <3>2
    <3> HIDE DEF f
    <3>4. dg * m \in Int
      OBVIOUS
    <3> QED BY <3>1, <3>3, <3>4
  <2>2. AuthLength(S) = RunningSum(f, x)[x]
    BY <1>4 DEF AuthLength, SumOver, RunningSum
  <2> HIDE DEF f
  <2>3. RunningSum(f, x)[x] <= x * (dg * m)
    BY <1>5, <2>1, SumBound
  <2>4. RunningSum(f, x)[x] \in Int
    BY <2>1, RunningSums, x \in 0..x
  <2> QED BY <2>2, <2>3, <2>4
<1>7. /\ x * (dg * m) = x * dg * m /\ x * dg * m \in Nat /\ x * pl \in Nat
      /\ x * r * (bb + ww) <= x * r * (ww + cc + uu)
      /\ x * r * (bb + ww) \in Nat /\ x * r * (ww + cc + uu) \in Nat
  <2>1. PICK k \in Nat : k = x * r
    OBVIOUS
  <2>2. PICK d \in Nat : cc + uu = bb + d
    BY <1>3, cc + uu - bb \in Nat
  <2>3. k * (bb + ww + d) = k * (bb + ww) + k * d /\ k * d \in Nat /\ k * (bb + ww) \in Nat
    OBVIOUS
  <2>4. ww + cc + uu = bb + ww + d
    BY <2>2
  <2>5. x * (dg * m) = x * dg * m /\ x * dg * m \in Nat /\ x * pl \in Nat
    OBVIOUS
  <2> QED BY <2>1, <2>3, <2>4, <2>5
<1>8. CASE Standard
  <2>1. LengthBuilt(S) = dg + st + x * pl + x * r * (bb + ww) + AuthLength(S)
    BY <1>3, <1>4, <1>8 DEF LengthBuilt, FixedLength
  <2>2. MaxLength = 4 + 2 * dg + st + x * pl + x * r * (ww + cc + uu) + x * dg * m
    BY <1>3, <1>4, <1>8 DEF MaxLength, StandardMaxLength
  <2> QED BY <1>6, <1>7, <2>1, <2>2
<1>9. CASE ~Standard
  <2>1. LengthBuilt(S) = dg + st + 1 * pl + x * r * (bb + ww) + AuthLength(S)
    BY <1>3, <1>4, <1>9 DEF LengthBuilt, FixedLength
  <2>2. MaxLength = 2 * dg + st + pl + x * r * (ww + cc + uu) + x * dg * m
    BY <1>3, <1>4, <1>9 DEF MaxLength, NfprMaxLength
  <2> QED BY <1>6, <1>7, <2>1, <2>2
<1> QED BY <1>8, <1>9

LEMMA NeverFails ==
  ASSUME ThresholdInv, pc # "failed", [Next]_vars
  PROVE  pc' # "failed"
<1>1. CASE BuildSignature
  <2>1. pc = "build" /\ open \in [Execs -> Openings]
    BY <1>1 DEF BuildSignature, ThresholdInv, SentInv, BeforeBuild, BeforeViews, BeforeSimulate
  <2>2. sig'.length = LengthBuilt(open)
    BY <1>1 DEF BuildSignature
  <2>3. LengthBuilt(open) <= MaxLength
    BY <2>1, LengthIsBounded
  <2> QED BY <1>1, <2>2, <2>3 DEF BuildSignature
<1>2. CASE ~BuildSignature
  BY <1>2 DEF Next, Sign, Transmit, Verify, Stopped, vars, StandardSetup, NfprSetup, Setup,
     StandardCommit, NfprCommit, Commit, MpcChallenge, StandardSimulate, NfprSimulate, Simulate,
     ViewChallenge, StandardBuild, NfprBuild, DeliverGenuine, DeliverOtherHeader,
     DeliverOtherProof, Deliver, StandardParse, NfprParse, Parse, ExpandMpcChallenge,
     StandardRecover, NfprRecover, Recover, Compare
<1> QED BY <1>1, <1>2

LEMMA PathsFit ==
  ASSUME ThresholdInv, sig # NoDigest, NEW x \in Execs
  PROVE  Cardinality(AuthNodes(open[x])) <= build.maxOpen
<1>1. build \in Builds /\ open[x] \in Openings
  BY DEF ThresholdInv, SetupInv, SentInv, BeforeSent
<1>2. PICK c \in 0..build.log : build.revealed * (build.log - c) + 2^c - build.revealed <= build.maxOpen
  BY <1>1, SpaceAssumption
<1>3. /\ Cardinality(AuthNodes(open[x])) \in Nat
      /\ Cardinality(AuthNodes(open[x])) <= build.revealed * (build.log - c) + 2^c - build.revealed
  BY <1>1, AuthNodesAreFew
<1>4. build.maxOpen \in Nat /\ build.revealed \in Int /\ build.log - c \in Int /\ 2^c \in Int
  BY <1>1, BuildsAssumption, PowersOfBuild, RanksOfBuild DEF Supported
<1>5. PICK z \in Int : z = build.revealed * (build.log - c) + 2^c - build.revealed
  <2>1. PICK q \in Int, b \in Int, r \in Int : q = build.log - c /\ b = 2^c /\ r = build.revealed
    BY <1>4
  <2>2. r * q + b - r \in Int
    OBVIOUS
  <2> QED BY <2>1, <2>2
<1> QED BY <1>2, <1>3, <1>4, <1>5

\* Whatever parties open, build_signature has room for what it writes, and the
\* authentication path of each execution, which is copied without a test, for the digests
\* of the siblings: the nodes on the paths below the floor of 2^c nodes are at most one for
\* each open leaf and floor, and each has one child that is not on a path at most.
THEOREM SignsInBuffer == Spec => []SignatureFits
<1>1. Spec => [](pc # "failed")
  <2>1. Init => pc # "failed"
    BY DEF Init
  <2>2. pc # "failed" /\ ThresholdInv /\ [Next]_vars => (pc # "failed")'
    BY NeverFails
  <2> QED BY <2>1, <2>2, ThresholdInvariant, PTL DEF Spec
<1>2. pc # "failed" /\ ThresholdInv => SignatureFits
  BY PathsFit DEF SignatureFits
<1> QED BY <1>1, <1>2, ThresholdInvariant, PTL
================================================================================
