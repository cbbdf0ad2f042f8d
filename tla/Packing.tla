-------------------------------- MODULE Packing --------------------------------
(***************************************************************************)
(* The four ways of core/linear-mpc/5rounds/additive to emulate the        *)
(* protocol on fewer shares than there are parties.  The shares of the     *)
(* parties are packed in linear combinations, "packs".  The verifier does  *)
(* not know the share of the hidden party: it packs the others in other    *)
(* combinations, emulates the protocol on these, and deduces the           *)
(* broadcasts of the signer's packs from the plain broadcast.              *)
(*                                                                         *)
(* A build links one of the four.  A packing is given by the weight of     *)
(* each party in each pack, so that an accumulator that is scaled and      *)
(* negated at the end is the sum of its scaled terms.                      *)
(***************************************************************************)
EXTENDS MqProtocol

ScaInverse(x) == CHOOSE y \in Field : F(x * y) = 1  \* sca_inverse_tab
Bit(i, p)  == (i \div 2^p) % 2

\* A build: [kind, parties, log, dim, execs], where log is PARAM_LOG_NB_PARTIES, dim
\* is PARAM_HYPERCUBE_DIMENSION and execs is PARAM_NB_EXECUTIONS.  These are the
\* checks of the preprocessor and of malloc_seed_tree.
EdgeLog(b) == (b.log + b.dim - 1) \div b.dim
Buildable(b) ==
  /\ 2^(b.log - 1) < b.parties /\ b.parties <= 2^b.log
  /\ b.kind \in {"hypercube", "lifting"} => b.parties = 2^b.log
  /\ b.kind = "threshold" => b.parties <= Q
  /\ b.kind = "lifting" => 2^EdgeLog(b) <= Q

\* What a build is made of; the provers know nothing about ^.
WellFormed(b) ==
  /\ b.kind \in {"traditional", "hypercube", "threshold", "lifting"}
  /\ b.parties \in Nat /\ b.parties >= 4
  /\ b.log \in Nat /\ b.dim \in Nat \ {0} /\ b.execs \in Nat \ {0}
  /\ 2^0 = 1 /\ \A n \in 0..(b.log + b.dim) : 2^n \in Nat \ {0} /\ 2^(n + 1) = 2 * 2^n
  /\ Buildable(b)

NbPacks(b) ==
  CASE b.kind = "traditional" -> b.parties - 1
    [] b.kind = "hypercube"   -> b.log
    [] b.kind = "threshold"   -> 1
    [] b.kind = "lifting"     -> b.dim
Packs(b) == 0..(NbPacks(b) - 1)
NoPacks(b) == [p \in Packs(b) |-> ZeroShare]

\* position_on_edge, of a party on the edge p of the hypercube of the lifting.
Position(b, p, i) == (i \div 2^(p * EdgeLog(b))) % 2^EdgeLog(b)

-----------------------------------------------------------------------------
(* packing_update and packing_final: the weight of party i in the signer's *)
(* pack p.                                                                 *)

TraditionalWeight(p, i) == IF i = p THEN 1 ELSE 0
HypercubeWeight(p, i)   == IF Bit(i, p) = 0 THEN 1 ELSE 0
ThresholdWeight(i)      == IF i > 0 THEN -ScaInverse(i) ELSE 0
LiftingWeight(b, p, i)  == ThresholdWeight(Position(b, p, i))

Weight(b, p, i) ==
  CASE b.kind = "traditional" -> TraditionalWeight(p, i)
    [] b.kind = "hypercube"   -> HypercubeWeight(p, i)
    [] b.kind = "threshold"   -> ThresholdWeight(i)
    [] b.kind = "lifting"     -> LiftingWeight(b, p, i)

Packed(b, packs, i, share) ==
  [p \in Packs(b) |-> Plus(packs[p], Times(Weight(b, p, i), share))]

-----------------------------------------------------------------------------
(* share_recomputing_update and share_recomputing_final: the weight of the *)
(* open party i in the verifier's pack p.                                  *)

\* The last party takes the place of the hidden one.
TraditionalOpen(b, hidden, p, i) ==
  IF p = (IF i = b.parties - 1 THEN hidden ELSE i) THEN 1 ELSE 0

HypercubeOpen(hidden, p, i) == IF Bit(i, p) # Bit(hidden, p) THEN 1 ELSE 0

ThresholdOpen(hidden, i) ==
  CASE i = 0 /\ hidden = 0 -> 0
    [] i = 0 /\ hidden # 0 -> 1
    [] i > 0 /\ hidden = 0 -> -ScaInverse(i)
    [] OTHER               -> 1 - hidden * ScaInverse(i)

\* The factor of the accumulator k of an edge.  The position of the hidden party has
\* no accumulator: those of the positions after it are shifted by one.
FactorShifted(hiddenAt, k) ==
  CASE hiddenAt = 0             -> -ScaInverse(k + 1)
    [] hiddenAt # 0 /\ k = 0    -> 1
    [] OTHER                    -> 1 - hiddenAt * ScaInverse(k + 1)
Factor(hiddenAt, k) ==
  CASE hiddenAt = 0             -> -ScaInverse(k + 1)
    [] hiddenAt # 0 /\ k = 0    -> 1
    [] 0 < k /\ k < hiddenAt    -> 1 - hiddenAt * ScaInverse(k)
    [] OTHER                    -> 1 - hiddenAt * ScaInverse(k + 1)

LiftingOpen(b, hidden, p, i) ==
  LET at == Position(b, p, i)
      hiddenAt == Position(b, p, hidden)
  IN  CASE at < hiddenAt -> Factor(hiddenAt, at)
        [] at > hiddenAt -> Factor(hiddenAt, at - 1)
        [] OTHER         -> 0

OpenWeight(b, hidden, p, i) ==
  CASE b.kind = "traditional" -> TraditionalOpen(b, hidden, p, i)
    [] b.kind = "hypercube"   -> HypercubeOpen(hidden, p, i)
    [] b.kind = "threshold"   -> ThresholdOpen(hidden, i)
    [] b.kind = "lifting"     -> LiftingOpen(b, hidden, p, i)

\* share_recomputing_update of the traditional packing overwrites the pack, which
\* only one party is in.
OpenPacked(b, hidden, packs, i, share) ==
  [p \in Packs(b) |-> Plus(packs[p], Times(OpenWeight(b, hidden, p, i), share))]

-----------------------------------------------------------------------------
(* has_sharing_offset_for and recompose_broadcast: the verifier's packs    *)
(* that hold the public constants, and the broadcasts of the signer's.     *)

HasOffset(b, hidden, p) ==
  CASE b.kind = "traditional" -> p = hidden
    [] b.kind = "hypercube"   -> Bit(hidden, p) # 1
    [] b.kind = "threshold"   -> hidden # 0
    [] b.kind = "lifting"     -> Position(b, p, hidden) # 0

TraditionalRecomposed(b, hidden, br, plain) ==
  LET sum[k \in 0..NbPacks(b)] ==
        IF k = 0 THEN PlainBroadcast(0) ELSE BrPlus(sum[k - 1], br[k - 1])
  IN  [p \in Packs(b) |-> IF p = hidden THEN BrMinus(plain, sum[NbPacks(b)]) ELSE br[p]]

HypercubeRecomposed(b, hidden, br, plain) ==
  [p \in Packs(b) |-> IF Bit(hidden, p) # 1 THEN BrMinus(plain, br[p]) ELSE br[p]]

\* The affine function of the position whose values are known at 0, the plain
\* broadcast, and at the position of the hidden party: its coefficient.
Coefficient(at, br, plain) ==
  IF at # 0 THEN BrTimes(ScaInverse(at), BrMinus(br, plain)) ELSE br
ThresholdRecomposed(b, hidden, br, plain) ==
  [p \in Packs(b) |-> Coefficient(hidden, br[p], plain)]
LiftingRecomposed(b, hidden, br, plain) ==
  [p \in Packs(b) |-> Coefficient(Position(b, p, hidden), br[p], plain)]

Recomposed(b, hidden, br, plain) ==
  CASE b.kind = "traditional" -> TraditionalRecomposed(b, hidden, br, plain)
    [] b.kind = "hypercube"   -> HypercubeRecomposed(b, hidden, br, plain)
    [] b.kind = "threshold"   -> ThresholdRecomposed(b, hidden, br, plain)
    [] b.kind = "lifting"     -> LiftingRecomposed(b, hidden, br, plain)
=============================================================================
