---------------------------- MODULE NonLinearSign ----------------------------
(***************************************************************************)
(* The signatures of core/non-linear-mpc, over the protocols of            *)
(* NonLinearMpc:                                                           *)
(*   "mt"   sign/threshold-mt: the share of each party is committed in a   *)
(*          Merkle tree, and one is opened.  A first challenge checks that *)
(*          the shares are of degree one;                                  *)
(*   "ggm"  sign/threshold-ggm: the parties expand seeds, all are opened   *)
(*          but one, whose share of the sum no combination shows;          *)
(*   "ring" ring-sign/threshold-ggm: the same, and the instance that is    *)
(*          solved is selected in secret in a ring of public keys.         *)
(*                                                                         *)
(* A digest is a record of what is hashed, and a tree of commitments is    *)
(* the family of its leaves (MerkleTree shows what its root binds).  The   *)
(* challenges drawn from a digest are arbitrary, but a function of it.     *)
(***************************************************************************)
EXTENDS NonLinearMpc, FiniteSets, TLC

CONSTANTS Builds,         \* [kind, circuit, parties, log, execs, key, ring, otherRing]
          Random(_, _),   \* the share party p expands in execution x; p = -1 for the plain one
          Gamma(_, _),    \* the coefficient j of a challenge
          Challenges,     \* the numbers of the challenges
          Size            \* [digest, salt, seed, wit, unif, br, dc]

Party0(b) == 0..(b.parties - 1)
ASSUME NonLinearAssumption ==
  \A b \in Builds :
    /\ b.kind \in {"mt", "ggm", "ring"} /\ (b.kind = "ring") = (b.circuit.sel # 0)
    /\ b.parties <= Q /\ 2^(b.log - 1) < b.parties /\ b.parties <= 2^b.log
    /\ b.circuit = Circuit(b.circuit.problem, b.circuit.sel, b.circuit.ring)
    /\ DOMAIN b.ring = 0..(b.circuit.ring - 1) /\ DOMAIN b.otherRing = DOMAIN b.ring

VARIABLES
  pc, build, position, rnd, plain, aux, coms, check, dcs, gamma, br, view,
  sig, got, genuine, vview, vcheck, vgamma, vcoms, vdcs, vbr, verdict

signVars == <<position, rnd, plain, aux, coms, check, dcs, gamma, br, view, sig>>
verVars == <<got, genuine, vview, vcheck, vgamma, vcoms, vdcs, vbr, verdict>>
vars == <<pc, build, signVars, verVars>>

Mt   == build.kind = "mt"
Ring == build.kind = "ring"
circuit == build.circuit
Execs   == 0..(build.execs - 1)
Parties == Party0(build)
Last    == build.parties - 1
Top     == Depth(circuit) - 1
inst    == PublicKey(build.key)

NoDigest == [none |-> TRUE]
Forged   == [forged |-> TRUE]
JunkSeed == [exec |-> -1, party |-> -1]
Seed(x, p) == [exec |-> x, party |-> p]
ShareOf(sd) == Random(sd.exec, sd.party)
SumExecs(f) == FX!MapThenSumSet(LAMBDA x : f[x], Execs)

-----------------------------------------------------------------------------
(* Commitments and hashes.                                                 *)

CommitShare(x, p, s, salt) == [exec |-> x, party |-> p, share |-> s, salt |-> salt]
CommitSeed(x, p, sd, a, salt) ==
  [exec |-> x, party |-> p, seed |-> sd, aux |-> IF p = Last THEN a ELSE NoDigest, salt |-> salt]

MtDcHash(commits, salt) == [inst |-> inst, salt |-> salt, roots |-> commits]
MtMpcHash(dcHash, plainDc, dc, salt) ==
  [salt |-> salt, first |-> dcHash, plain |-> plainDc, dc |-> dc]
MtViewHashOfNoMessage(dcHash, mpcHash, broadcasts, salt, msg) ==
  [salt |-> salt, first |-> dcHash, second |-> mpcHash, br |-> broadcasts]
MtViewHash(dcHash, mpcHash, broadcasts, salt, msg) ==
  [msg |-> msg, salt |-> salt, first |-> dcHash, second |-> mpcHash, br |-> broadcasts]

GgmMpcHash(commits, salt, msg) == [inst |-> inst, coms |-> commits, salt |-> salt, msg |-> msg]
GgmViewHash(mpcHash, broadcasts, salt, msg) ==
  [br |-> broadcasts, salt |-> salt, msg |-> msg, second |-> mpcHash]
\* The instance is NULL: nothing tells the keys of the ring here.
RingMpcHash(commits, salt, msg) == [coms |-> commits, salt |-> salt, msg |-> msg]
RingViewHash(mpcHash, broadcasts, salt, msg) ==
  [br |-> broadcasts, salt |-> salt, msg |-> msg, second |-> mpcHash]

FirstHash(commits, salt) == IF Mt THEN MtDcHash(commits, salt) ELSE NoDigest
SecondHash(first, commits, plainDc, dc, salt, msg) ==
  CASE build.kind = "mt"   -> MtMpcHash(first, plainDc, dc, salt)
    [] build.kind = "ggm"  -> GgmMpcHash(commits, salt, msg)
    [] build.kind = "ring" -> RingMpcHash(commits, salt, msg)
ViewHash(first, second, broadcasts, salt, msg) ==
  CASE build.kind = "mt"   -> MtViewHash(first, second, broadcasts, salt, msg)
    [] build.kind = "ggm"  -> GgmViewHash(second, broadcasts, salt, msg)
    [] build.kind = "ring" -> RingViewHash(second, broadcasts, salt, msg)

-----------------------------------------------------------------------------
(* Signer.                                                                 *)

Init ==
  /\ pc = "setup" /\ build \in Builds
  /\ position = 0 /\ rnd = <<>> /\ plain = <<>> /\ aux = <<>> /\ coms = <<>>
  /\ check = 0 /\ dcs = <<>> /\ gamma = 0 /\ br = <<>> /\ view = <<>> /\ sig = NoDigest
  /\ got = NoDigest /\ genuine = TRUE /\ vview = <<>> /\ vcheck = 0 /\ vgamma = 0
  /\ vcoms = <<>> /\ vdcs = <<>> /\ vbr = <<>> /\ verdict = "none"

SameTemplates(ring) == \A p \in DOMAIN ring : ring[p].tmpl = ring[0].tmpl
InRing == {p \in DOMAIN build.ring : build.ring[p] = inst}
First(S) == CHOOSE p \in S : \A q \in S : p <= q

\* What a signer in a ring checks first: the size, the templates, its own place.
RingSetup ==
  /\ pc = "setup" /\ Ring
  /\ IF RingAccepted(circuit) /\ SameTemplates(build.ring) /\ InRing # {}
     THEN pc' = "commit" /\ position' = First(InRing)
     ELSE pc' = "failed" /\ position' = position
  /\ UNCHANGED <<build, rnd, plain, aux, coms, check, dcs, gamma, br, view, sig, verVars>>
Setup == pc = "setup" /\ pc' = "commit" /\ UNCHANGED <<build, signVars, verVars>>
MtSetup  == Mt /\ Setup
GgmSetup == build.kind = "ggm" /\ Setup

\* compute_complete_share of threshold-mt.
PartyShare(x, p) == IF p = 0 THEN rnd[x] ELSE SharePlus(plain[x], ShareTimes(p, rnd[x]))

\* One plain sharing serves all executions.
MtCommit ==
  /\ pc = "commit" /\ Mt /\ pc' = "check"
  /\ plain' = [x \in Execs |-> [Random(0, -1) EXCEPT !.wit = build.key.wit]]
  /\ rnd' = [x \in Execs |-> Random(x, 0)]
  /\ coms' = [x \in Execs |-> [p \in Parties |-> CommitShare(x, p, PartyShare(x, p)', "salt")]]
  /\ UNCHANGED <<build, position, aux, check, dcs, gamma, br, view, sig, verVars>>

SumShares(S, f(_)) == FX!FoldSet(LAMBDA p, acc : IF acc = <<>> THEN f(p) ELSE SharePlus(acc, f(p)),
                                 <<>>, S)
Minus(s, t) == Vector(DOMAIN s, LAMBDA j : s[j] - t[j])

GgmPackingWeight(p) == ThresholdWeight(p)
RingPackingWeight(p) == ThresholdWeight(p)
PackingWeight(p) == IF Ring THEN RingPackingWeight(p) ELSE GgmPackingWeight(p)

\* The last party expands its uniform values only; the rest completes the secret.
Secret == [wit |-> build.key.wit, sel |-> BuildSelector(circuit, position)]
GgmShares(x) ==
  LET sum == SumShares(0..(Last - 1), LAMBDA p : Random(x, p))
      last == [wit |-> Minus(Secret.wit, sum.wit), sel |-> Minus(Secret.sel, sum.sel),
               unif |-> Random(x, Last).unif]
  IN  [p \in Parties |-> IF p = Last THEN last ELSE Random(x, p)]
TreeCommit ==
  /\ pc = "commit" /\ ~Mt /\ pc' = "challenge"
  /\ LET shares == [x \in Execs |-> GgmShares(x)]
     IN  /\ plain' = [x \in Execs |-> SumShares(Parties, LAMBDA p : shares[x][p])]
         /\ rnd' = [x \in Execs |-> SumShares(Parties, LAMBDA p :
                      ShareTimes(PackingWeight(p), shares[x][p]))]
         /\ aux' = [x \in Execs |-> [wit |-> shares[x][Last].wit, sel |-> shares[x][Last].sel]]
         /\ coms' = [x \in Execs |-> [p \in Parties |->
                      CommitSeed(x, p, Seed(x, p), aux'[x], "salt")]]
  /\ UNCHANGED <<build, position, check, dcs, gamma, br, view, sig, verVars>>
GgmCommit  == build.kind = "ggm" /\ TreeCommit
RingCommit == Ring /\ TreeCommit

DcOf(n) == [j \in 0..2 |-> Gamma(n, -1 - j)]
GammaOf(n) == [j \in 0..(2 + Cardinality(SelIndex(circuit))) |-> Gamma(n, j)]

CheckDegrees ==
  /\ pc = "check" /\ pc' = "challenge"
  /\ check' \in Challenges
  /\ dcs' = [plain |-> DegreeCheck(circuit, DcOf(check'), plain[0]),
             rnd |-> [x \in Execs |-> DegreeCheck(circuit, DcOf(check'), rnd[x])]]
  /\ UNCHANGED <<build, position, rnd, plain, aux, coms, gamma, br, view, sig, verVars>>

Template == IF Ring THEN build.ring[0].tmpl ELSE inst.tmpl
RingOf(ring) == IF Ring THEN ring ELSE [p \in {0} |-> inst]

Simulate ==
  /\ pc = "challenge" /\ pc' = "views"
  /\ gamma' \in Challenges
  /\ br' = [x \in Execs |->
       Communications(circuit, GammaOf(gamma'), plain[x], rnd[x], Template, RingOf(build.ring))]
  /\ UNCHANGED <<build, position, rnd, plain, aux, coms, check, dcs, view, sig, verVars>>
MtSimulate   == Mt /\ Simulate
GgmSimulate  == build.kind = "ggm" /\ Simulate
RingSimulate == Ring /\ Simulate

\* The view challenge: the open party in threshold-mt, the hidden one in the others.
ViewChallenge ==
  /\ pc = "views" /\ pc' = "build"
  /\ view' \in [Execs -> Parties]
  /\ UNCHANGED <<build, position, rnd, plain, aux, coms, check, dcs, gamma, br, sig, verVars>>

-----------------------------------------------------------------------------
(* Serialisation.                                                          *)

Selectors == Cardinality(SelIndex(circuit))
PathSize(h) == IF build.parties + h >= 2^build.log THEN build.log ELSE build.log - 1

MtLength(v) ==
  3 * Size.digest + Size.salt + Size.dc
    + SumExecs([x \in Execs |-> Top * Size.br + Size.wit + Size.unif + Size.digest * PathSize(v[x])])
MtMaxLength ==
  4 + 3 * Size.digest + Size.salt + Size.dc
    + build.execs * (Top * Size.br + Size.wit + Size.unif + Size.digest * build.log)

GgmLength(v) ==
  2 * Size.digest + Size.salt
    + SumExecs([x \in Execs |-> PathSize(v[x]) * Size.seed + Size.digest + Top * Size.br
                  + IF v[x] # Last THEN Size.wit ELSE 0])
GgmMaxLength ==
  4 + 2 * Size.digest + Size.salt
    + build.execs * (Top * Size.br + Size.wit + build.log * Size.seed + Size.digest)

RingLength(v) ==
  2 * Size.digest + Size.salt
    + SumExecs([x \in Execs |-> PathSize(v[x]) * Size.seed + Size.digest + Top * Size.br
                  + IF v[x] # Last THEN Size.wit + Selectors ELSE 0])
RingMaxLength ==
  2 * Size.digest + Size.salt
    + build.execs * (Top * Size.br + Size.wit + Selectors + build.log * Size.seed + Size.digest)

LengthBuilt(v) ==
  CASE build.kind = "mt"   -> MtLength(v)
    [] build.kind = "ggm"  -> GgmLength(v)
    [] build.kind = "ring" -> RingLength(v)
MaxLength ==
  CASE build.kind = "mt"   -> MtMaxLength
    [] build.kind = "ggm"  -> GgmMaxLength
    [] build.kind = "ring" -> RingMaxLength

AuxSent(h) == h # Last
\* The proof of an execution: the last broadcast is left out.
Lower(b) == [j \in 0..(Top - 1) |-> b[j]]
MtProof(x) ==
  LET s == PartyShare(x, view[x])
  IN  [br |-> Lower(br[x]), wit |-> s.wit, unif |-> [unif |-> s.unif, dc |-> s.dc],
       auth |-> [leaves |-> [p \in Parties \ {view[x]} |-> coms[x][p]]]]
TreeProof(x) ==
  [br |-> Lower(br[x]), digest |-> coms[x][view[x]],
   aux |-> IF AuxSent(view[x]) THEN aux[x] ELSE NoDigest]

Build(proof(_)) ==
  /\ pc = "build"
  /\ LET first == FirstHash(coms, "salt")
         second == SecondHash(first, coms, IF Mt THEN dcs.plain ELSE 0, IF Mt THEN dcs.rnd ELSE 0,
                              "salt", "msg")
     IN  sig' = [salt |-> "salt", first |-> first, second |-> second,
                 view |-> ViewHash(first, second, br, "salt", "msg"),
                 dc |-> IF Mt THEN dcs.plain ELSE 0,
                 proofs |-> [x \in Execs |-> proof(x)], length |-> LengthBuilt(view)]
  /\ pc' = IF sig'.length <= MaxLength THEN "sent" ELSE "failed"
  /\ UNCHANGED <<build, position, rnd, plain, aux, coms, check, dcs, gamma, br, view, verVars>>
MtBuild   == pc = "build" /\ Mt /\ Build(MtProof)
GgmBuild  == pc = "build" /\ build.kind = "ggm" /\ Build(TreeProof)
RingBuild == pc = "build" /\ Ring /\ Build(TreeProof)

-----------------------------------------------------------------------------
(* Between the signer and the verifier at most one thing is altered.       *)

Deliver(msg, ring, signature, badSeeds) ==
  /\ pc = "sent" /\ pc' = "parse"
  /\ got' = [msg |-> msg, ring |-> ring, sig |-> signature, badSeeds |-> badSeeds]
  /\ genuine' = (msg = "msg" /\ ring = build.ring /\ signature = sig /\ badSeeds = {})
  /\ UNCHANGED <<build, signVars, vview, vcheck, vgamma, vcoms, vdcs, vbr, verdict>>
DeliverSig(signature) == Deliver("msg", build.ring, signature, {})

\* What party 0 broadcasts for one equation and one side does not depend on the keys of
\* the ring: a signature in which it is the hidden one everywhere is good for any ring
\* of the template, as one chance in parties^execs allows.
RingMatters ==
  Ring /\ (circuit.problem = "mq" /\ circuit.sel = 1 => \E x \in Execs : view[x] # 0)

DeliverGenuine == DeliverSig(sig)
DeliverOtherHeader ==
  /\ pc = "sent"
  /\ \/ Deliver("other", build.ring, sig, {})
     \/ RingMatters /\ Deliver("msg", build.otherRing, sig, {})
     \/ DeliverSig([sig EXCEPT !.salt = "other"])
     \/ Mt /\ DeliverSig([sig EXCEPT !.first = Forged])
     \/ Mt /\ DeliverSig([sig EXCEPT !.dc = F(@ + 1)])
     \/ \E f \in {"second", "view"} : DeliverSig([sig EXCEPT ![f] = Forged])
     \/ \E n \in {-1, 1} : DeliverSig([sig EXCEPT !.length = @ + n])
DeliverOtherProof ==
  /\ pc = "sent"
  /\ \E x \in Execs :
       \/ \E j \in 0..(Top - 1) : DeliverSig([sig EXCEPT !.proofs[x].br[j] = F(@ + 1)])
       \/ Mt /\ DeliverSig([sig EXCEPT !.proofs[x].wit[1] = F(@ + 1)])
       \/ Mt /\ DeliverSig([sig EXCEPT !.proofs[x].unif.unif[0] = F(@ + 1)])
       \/ Mt /\ DeliverSig([sig EXCEPT !.proofs[x].auth = Forged])
       \/ ~Mt /\ DeliverSig([sig EXCEPT !.proofs[x].digest = Forged])
       \/ ~Mt /\ AuxSent(view[x]) /\ DeliverSig([sig EXCEPT !.proofs[x].aux.wit[1] = F(@ + 1)])
       \/ Ring /\ AuxSent(view[x]) /\ DeliverSig([sig EXCEPT !.proofs[x].aux.sel[0] = F(@ + 1)])
       \/ \E p \in Parties : ~Mt /\ p # view[x] /\ Deliver("msg", build.ring, sig, {Seed(x, p)})

-----------------------------------------------------------------------------
(* Verifier.                                                               *)

Reject == pc' = "done" /\ verdict' = "reject"

Parse ==
  /\ pc = "parse"
  /\ vview' \in [Execs -> Parties]
  /\ got.sig.view = sig.view => vview' = view
  /\ IF (Ring => SameTemplates(got.ring)) /\ got.sig.length = LengthBuilt(vview')
     THEN pc' = "expand" /\ verdict' = verdict
     ELSE Reject
  /\ UNCHANGED <<build, signVars, got, genuine, vcheck, vgamma, vcoms, vdcs, vbr>>
MtParse   == Mt /\ Parse
GgmParse  == build.kind = "ggm" /\ Parse
RingParse == Ring /\ Parse

ExpandChallenges ==
  /\ pc = "expand" /\ pc' = "recompute"
  /\ vcheck' \in (IF Mt THEN Challenges ELSE {check}) /\ vgamma' \in Challenges
  /\ got.sig.first = sig.first => vcheck' = check
  /\ got.sig.second = sig.second => vgamma' = gamma
  /\ UNCHANGED <<build, signVars, got, genuine, vview, vcoms, vdcs, vbr, verdict>>

Rebroadcast(x, value) ==
  LET lower == got.sig.proofs[x].br
  IN  [j \in 0..Top |-> IF j = Top THEN TopCoefficient(circuit, lower, value, vview[x]) ELSE lower[j]]
VEmulate(x, s) ==
  Emulate(circuit, GammaOf(vgamma), s, vview[x], IF Ring THEN got.ring[0].tmpl ELSE inst.tmpl,
          RingOf(got.ring))

\* The share that is opened, and the tree it is a leaf of, or another one.
OpenShare(x) == LET u == got.sig.proofs[x].unif
                IN  [wit |-> got.sig.proofs[x].wit, unif |-> u.unif, dc |-> u.dc]
RootFromAuth(x) ==
  LET auth == got.sig.proofs[x].auth
      mine == CommitShare(x, vview[x], OpenShare(x), got.sig.salt)
  IN  IF auth # Forged /\ DOMAIN auth.leaves = Parties \ {vview[x]} THEN auth.leaves @@ vview[x] :> mine
      ELSE <<>>
\* The value at 0 of the degree check is sent: the value at i gives the other coefficient.
DcCoefficient(x) ==
  LET open == DegreeCheck(circuit, DcOf(vcheck), OpenShare(x))
      i == vview[x]
  IN  IF i = 0 THEN open ELSE F(ScaInverse(i) * (open - got.sig.dc))
MtRecompute ==
  /\ pc = "recompute" /\ Mt /\ pc' = "compare"
  /\ vcoms' = [x \in Execs |-> RootFromAuth(x)]
  /\ vdcs' = [x \in Execs |-> DcCoefficient(x)]
  /\ vbr' = [x \in Execs |-> Rebroadcast(x, VEmulate(x, OpenShare(x)))]
  /\ UNCHANGED <<build, signVars, got, genuine, vview, vcheck, vgamma, verdict>>

\* When the hidden party is not the signer's, no seed of the path is right.
Rebuilt(x, p) ==
  IF p = vview[x] \/ vview[x] # view[x] \/ Seed(x, p) \in got.badSeeds THEN JunkSeed ELSE Seed(x, p)
ParsedAux(x) ==
  IF got.sig.proofs[x].aux = NoDigest
  THEN [wit |-> ShareOf(JunkSeed).wit, sel |-> ShareOf(JunkSeed).sel]
  ELSE got.sig.proofs[x].aux
Recommit(x, p) ==
  IF p = vview[x] THEN got.sig.proofs[x].digest
  ELSE CommitSeed(x, p, Rebuilt(x, p), ParsedAux(x), got.sig.salt)
TreeShare(x, p) ==
  LET s == ShareOf(Rebuilt(x, p))
  IN  IF p # Last THEN s ELSE [s EXCEPT !.wit = ParsedAux(x).wit, !.sel = ParsedAux(x).sel]

GgmOpenWeight(h, p)  == ThresholdOpen(h, p)
RingOpenWeight(h, p) == ThresholdOpen(h, p)
OpenedWeight(h, p) == IF Ring THEN RingOpenWeight(h, p) ELSE GgmOpenWeight(h, p)
HiddenShare(x) ==
  SumShares(Parties \ {vview[x]}, LAMBDA p :
    ShareTimes(OpenedWeight(vview[x], p), TreeShare(x, p)))
TreeRecompute ==
  /\ pc = "recompute" /\ ~Mt /\ pc' = "compare"
  /\ vcoms' = [x \in Execs |-> [p \in Parties |-> Recommit(x, p)]]
  /\ vbr' = [x \in Execs |-> Rebroadcast(x, VEmulate(x, HiddenShare(x)))]
  /\ UNCHANGED <<build, signVars, got, genuine, vview, vcheck, vgamma, vdcs, verdict>>
GgmRecompute  == build.kind = "ggm" /\ TreeRecompute
RingRecompute == Ring /\ TreeRecompute

Compare ==
  /\ pc = "compare" /\ pc' = "done"
  /\ LET s == got.sig
     IN  verdict' = IF /\ FirstHash(vcoms, s.salt) = s.first
                       /\ SecondHash(s.first, vcoms, s.dc, vdcs, s.salt, got.msg) = s.second
                       /\ ViewHash(s.first, s.second, vbr, s.salt, got.msg) = s.view
                    THEN "accept" ELSE "reject"
  /\ UNCHANGED <<build, signVars, got, genuine, vview, vcheck, vgamma, vcoms, vdcs, vbr>>
MtCompare   == Mt /\ Compare
GgmCompare  == build.kind = "ggm" /\ Compare
RingCompare == Ring /\ Compare

\* The functions have returned.
Stopped == pc \in {"done", "failed"} /\ UNCHANGED vars

Next ==
  \/ MtSetup \/ GgmSetup \/ RingSetup \/ MtCommit \/ GgmCommit \/ RingCommit \/ CheckDegrees
  \/ MtSimulate \/ GgmSimulate \/ RingSimulate \/ ViewChallenge
  \/ MtBuild \/ GgmBuild \/ RingBuild
  \/ DeliverGenuine \/ DeliverOtherHeader \/ DeliverOtherProof
  \/ MtParse \/ GgmParse \/ RingParse \/ ExpandChallenges
  \/ MtRecompute \/ GgmRecompute \/ RingRecompute
  \/ MtCompare \/ GgmCompare \/ RingCompare \/ Stopped
Spec == Init /\ [][Next]_vars

-----------------------------------------------------------------------------
(* Properties. *)

\* Whatever the depth of the circuit and the sides of the selector, the broadcasts are
\* those of a polynomial that vanishes at the secret: the verifier of a genuine
\* signature computes, from one value of it and the coefficients that are sent, the
\* coefficient that is not, and the commitments of the signer.
SameBroadcasts ==
  genuine /\ pc = "compare" =>
    /\ vbr = br /\ vcoms = coms
    /\ Mt => vdcs = dcs.rnd

\* The verifier accepts the signature that was sent, for the message and the ring it
\* was made for, and no other.
Scheme == INSTANCE SignatureScheme WITH
  stage <- CASE pc \in {"parse", "expand", "recompute", "compare"} -> "received"
             [] pc = "sent" -> "sent"
             [] pc = "done" -> "judged"
             [] OTHER       -> "signing"
SchemeSpec == Scheme!SchemeSpec
=============================================================================
