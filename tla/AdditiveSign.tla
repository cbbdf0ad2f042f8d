----------------------------- MODULE AdditiveSign -----------------------------
(***************************************************************************)
(* The signatures in five rounds on additive sharings, of                  *)
(* core/linear-mpc/5rounds/additive/sign-mpcith-additive-based.c.          *)
(*                                                                         *)
(* In each execution the signer shares its secret among the parties,       *)
(* commits to the seeds of the shares, emulates the protocol on packs of   *)
(* them under a challenge derived from the commitments, and opens all the  *)
(* parties but a hidden one, derived from the broadcasts.  The verifier    *)
(* recomputes the commitments and the broadcasts and the two digests the   *)
(* challenges were derived from.                                           *)
(*                                                                         *)
(* The parties are treated four at a time, then one at a time, the last    *)
(* one apart; the shares live in four slots.  One such step is one action. *)
(*                                                                         *)
(* Digests and commitments are free constructors.  What is derived from a  *)
(* digest (challenges, hidden parties) is arbitrary, but the same for the  *)
(* signer and for the verifier.  The trees of seeds are those of SeedTree, *)
(* the expansion into hidden parties that of ViewChallenge.                *)
(***************************************************************************)
EXTENDS Packing, FiniteSets

CONSTANTS
  Builds,          \* the builds of the library
  Keys,            \* secret keys: records [A, b, x] of an equation and a solution
  Roots,           \* the values of the seed given to the signing function
  Expand(_, _, _), \* (root, execution, party) -> the share expanded from its seed
  JunkShare,       \* the share expanded from any other seed
  Challenges,      \* the challenges considered
  Size             \* byte sizes: a record [digest, salt, seed, wit, corr, br]

ASSUME BuildsAssumption == \A b \in Builds : WellFormed(b)
ASSUME SharesAssumption ==
  /\ Keys \subseteq [A : Field, b : Field, x : Field]
  /\ \A b \in Builds, r \in Roots : \A x \in 0..(b.execs - 1), p \in 0..(b.parties - 1) :
        Expand(r, x, p) \in Share
ASSUME SizeAssumption ==
  Size \in [digest : Nat, salt : Nat, seed : Nat, wit : Nat, corr : Nat, br : Nat]
ASSUME ChallengesAssumption == Challenges \subseteq Challenge

VARIABLES
  pc,
  build, key, root,     \* fixed for a run
  e, i,                 \* loop counters
  slots, acc,           \* shares[0..3] and acc
  packs,                \* packed_shares
  plain,                \* plain_unif and plain_corr
  aux,                  \* wit and corr of the last party
  coms,                 \* seed_commitments
  challenges,           \* mpc_challenges
  br, alphas,           \* broadcast and plain_broadcast
  hidden,               \* hidden_views
  sig,                  \* the signature sent: its fields, and its length
  got,                  \* the message and signature received, and the leaf seeds
  genuine,              \* history: they are those sent
  vchallenges, vhidden, \* the same, recomputed by the verifier
  vpacks, vcoms, vbr,
  verdict

params == <<build, key, root>>
shareVars == <<e, i, slots, acc, packs, plain, aux, coms>>
emulVars == <<challenges, br, alphas, hidden, sig>>
verVars == <<got, genuine, vchallenges, vhidden, vpacks, vcoms, vbr, verdict>>
vars == <<pc, params, shareVars, emulVars, verVars>>

Execs   == 0..(build.execs - 1)
Parties == 0..(build.parties - 1)
Last    == build.parties - 1
inst    == Instance(key.A, key.b, key.x)

\* A leaf of a seed tree, and what it commits the party to.
Seed(x, p)  == [exec |-> x, party |-> p]
JunkSeed    == [exec |-> -1, party |-> -1]
ShareOf(sd) == IF sd = JunkSeed THEN JunkShare ELSE Expand(root, sd.exec, sd.party)
NoAux       == [wit |-> 0, corr |-> 0]  \* not written yet, or none
Commit(x, p, sd, a, salt) ==
  [exec |-> x, party |-> p, seed |-> sd, aux |-> IF p = Last THEN a ELSE NoAux, salt |-> salt]

\* hash_for_mpc_challenge and hash_for_view_challenge.
MpcHash(commits, salt, msg) ==
  [inst |-> inst, coms |-> commits, salt |-> salt, msg |-> msg]
ViewHash(mpcHash, broadcasts, plainAlphas, salt, msg) ==
  [br |-> broadcasts, alphas |-> plainAlphas, salt |-> salt, msg |-> msg, mpcHash |-> mpcHash]

NoHash == [none |-> TRUE]
ForgedHash == [forged |-> TRUE]

-----------------------------------------------------------------------------
(* mpcith_additive_based_sign. *)

Init ==
  /\ pc = "share"
  /\ build \in Builds /\ key \in Keys /\ root \in Roots
  /\ e = 0 /\ i = 0
  /\ slots = [k \in 0..3 |-> ZeroShare] /\ acc = ZeroShare
  /\ packs = [x \in Execs |-> NoPacks(build)]
  /\ plain = [x \in Execs |-> [unif |-> 0, corr |-> 0]] /\ aux = [x \in Execs |-> NoAux]
  /\ coms = [x \in Execs |-> [p \in Parties |-> NoHash]]
  /\ challenges = <<>> /\ br = <<>> /\ alphas = <<>> /\ hidden = <<>>
  /\ sig = NoHash /\ got = NoHash /\ genuine = TRUE
  /\ vchallenges = <<>> /\ vhidden = <<>>
  /\ vpacks = NoPacks(build) /\ vbr = <<>>
  /\ vcoms = [x \in Execs |-> [p \in Parties |-> NoHash]]
  /\ verdict = "none"

\* The sum of s and of the slots of the four parties from p on.
PlusFour(s) == Plus(Plus(Plus(Plus(s, slots'[0]), slots'[1]), slots'[2]), slots'[3])
PackedFour(b, pk, p) ==
  Packed(b, Packed(b, Packed(b, Packed(b, pk, p, slots'[0]), p + 1, slots'[1]),
         p + 2, slots'[2]), p + 3, slots'[3])

ShareFour ==
  /\ pc = "share" /\ i + 4 < build.parties
  /\ slots' = [k \in 0..3 |-> Expand(root, e, i + k)]
  /\ acc' = PlusFour(acc)
  /\ packs' = [packs EXCEPT ![e] = PackedFour(build, @, i)]
  /\ coms' = [coms EXCEPT ![e] = [p \in Parties |->
                IF p \in i..(i + 3) THEN Commit(e, p, Seed(e, p), NoAux, "salt") ELSE @[p]]]
  /\ i' = i + 4
  /\ UNCHANGED <<pc, params, e, plain, aux, emulVars, verVars>>

ShareOne ==
  /\ pc = "share" /\ i + 4 >= build.parties /\ i < Last
  /\ slots' = [slots EXCEPT ![i % 4] = Expand(root, e, i)]
  /\ acc' = Plus(acc, slots'[i % 4])
  /\ packs' = [packs EXCEPT ![e] = Packed(build, @, i, slots'[i % 4])]
  /\ coms' = [coms EXCEPT ![e][i] = Commit(e, i, Seed(e, i), NoAux, "salt")]
  /\ i' = i + 1
  /\ UNCHANGED <<pc, params, e, plain, aux, emulVars, verVars>>

\* The accumulator when an execution starts.
AccKept  == acc
AccReset == ZeroShare

\* The normalised differences that the last party gets.
Aux(value, sum) == F(value - sum)

\* The share of the last party: only its uniform part comes from its seed, the rest
\* of the slot is what an earlier party left there until it is set.
ShareLast ==
  /\ pc = "share" /\ i = Last
  /\ LET unif == F(Expand(root, e, i).unif + acc.unif)
         corr == Correlated(key.x, unif)
     IN  /\ plain' = [plain EXCEPT ![e] = [unif |-> unif, corr |-> corr]]
         /\ aux' = [aux EXCEPT ![e] = [wit |-> Aux(key.x, acc.wit), corr |-> Aux(corr, acc.corr)]]
  /\ coms' = [coms EXCEPT ![e][i] = Commit(e, i, Seed(e, i), aux'[e], "salt")]
  /\ slots' = [slots EXCEPT ![i % 4] = [wit  |-> aux'[e].wit,
                                        unif |-> Expand(root, e, i).unif,
                                        corr |-> aux'[e].corr]]
  /\ packs' = [packs EXCEPT ![e] = Packed(build, @, i, slots'[i % 4])]
  /\ i' = 0 /\ acc' = AccReset
  /\ IF e + 1 \in Execs THEN e' = e + 1 /\ pc' = "share"
                        ELSE e' = 0 /\ pc' = "challenge"
  /\ UNCHANGED <<params, emulVars, verVars>>

MpcChallenge ==
  /\ pc = "challenge"
  /\ challenges' \in [Execs -> Challenges]
  /\ pc' = "simulate"
  /\ UNCHANGED <<params, shareVars, br, alphas, hidden, sig, verVars>>

Simulate ==
  /\ pc = "simulate"
  /\ alphas' = [x \in Execs |->
        Alpha(challenges[x], [wit |-> key.x, unif |-> plain[x].unif, corr |-> 0], inst)]
  /\ br' = [x \in Execs |-> [p \in Packs(build) |->
        Broadcast(challenges[x], packs[x][p], alphas'[x], inst, FALSE)]]
  /\ pc' = "views"
  /\ UNCHANGED <<params, shareVars, challenges, hidden, sig, verVars>>

ViewChallengeDrawn ==
  /\ pc = "views"
  /\ hidden' \in [Execs -> Parties]
  /\ pc' = "build"
  /\ UNCHANGED <<params, shareVars, challenges, br, alphas, sig, verVars>>

-----------------------------------------------------------------------------
(* get_seed_path, build_signature and parse_signature. *)

SumOver(f) ==
  LET sum[k \in 0..build.execs] == IF k = 0 THEN 0 ELSE sum[k - 1] + f[k - 1]
  IN  sum[build.execs]

HeaderSize == 2 * Size.digest + Size.salt

\* PARAM_SIGNATURE_SIZEBYTES.
MaxLength ==
  4 + HeaderSize
    + build.execs * (Size.wit + Size.corr + Size.br + build.log * Size.seed + Size.digest)

\* The nodes whose seeds get_seed_path collects, walking from the hidden leaf to the
\* root, and the leaves derived from one of them.
PathNodesOfOneSide(h) ==
  {IF h % 2 = 0 THEN n + 1 ELSE n - 1 :
     n \in {(build.parties + h) \div 2^d : d \in 0..build.log} \ {0, 1}}
PathNodes(h) ==
  {IF n % 2 = 0 THEN n + 1 ELSE n - 1 :
     n \in {(build.parties + h) \div 2^d : d \in 0..build.log} \ {0, 1}}
LeavesUnder(n) == {p \in Parties : \E d \in 0..build.log : (build.parties + p) \div 2^d = n}
LeavesOf(path) == UNION {LeavesUnder(n) : n \in path}

PathLengthWithRoot(h) == Cardinality(PathNodes(h)) + 1
PathLength(h) == Cardinality(PathNodes(h))

\* The number of seeds that get_seed_path_size computes from the hidden leaf.
PathSize(h) == IF build.parties + h >= 2^build.log THEN build.log ELSE build.log - 1

\* The share of the last party is sent when it is open.
AuxSent(h) == h # Last

\* The bytes of the proof of an execution, for a path of n seeds.
ProofLength(h, n) ==
  Size.br + Size.digest + n * Size.seed + (IF AuxSent(h) THEN Size.wit + Size.corr ELSE 0)

LengthBuilt(h)    == HeaderSize + SumOver([x \in Execs |-> ProofLength(h[x], PathLength(h[x]))])
LengthRequired(h) == HeaderSize + SumOver([x \in Execs |-> ProofLength(h[x], PathSize(h[x]))])

SentProof(x) ==
  [digest |-> coms[x][hidden[x]], alpha |-> alphas[x], path |-> PathNodes(hidden[x]),
   aux |-> IF AuxSent(hidden[x]) THEN aux[x] ELSE NoHash]

BuildSignature ==
  /\ pc = "build"
  /\ LET mpcHash == MpcHash(coms, "salt", "msg")
     IN  sig' = [salt |-> "salt", mpcHash |-> mpcHash,
                 viewHash |-> ViewHash(mpcHash, br, alphas, "salt", "msg"),
                 length |-> LengthBuilt(hidden), proofs |-> [x \in Execs |-> SentProof(x)]]
  /\ pc' = IF sig'.length <= MaxLength THEN "sent" ELSE "failed"
  /\ UNCHANGED <<params, shareVars, challenges, br, alphas, hidden, verVars>>

-----------------------------------------------------------------------------
(* Between the signer and the verifier: at most one field is altered.  A   *)
(* path is the set of its nodes, and badSeeds are the leaves under a node  *)
(* whose seed is altered, which are no more the signer's.                  *)

Deliver(msg, signature, badSeeds) ==
  /\ got' = [msg |-> msg, sig |-> signature, badSeeds |-> badSeeds]
  /\ pc' = "parse"
  /\ UNCHANGED <<params, shareVars, emulVars, vchallenges, vhidden, vpacks, vcoms, vbr, verdict>>

DeliverGenuine ==
  /\ pc = "sent"
  /\ Deliver("msg", sig, {})
  /\ genuine' = TRUE

DeliverOtherHeader ==
  /\ pc = "sent"
  /\ \/ Deliver("other", sig, {})
     \/ Deliver("msg", [sig EXCEPT !.salt = "other"], {})
     \/ Deliver("msg", [sig EXCEPT !.mpcHash = ForgedHash], {})
     \/ Deliver("msg", [sig EXCEPT !.viewHash = ForgedHash], {})
     \/ \E n \in {-1, 1} : Deliver("msg", [sig EXCEPT !.length = @ + n], {})
  /\ genuine' = FALSE

DeliverOtherProof ==
  /\ pc = "sent"
  /\ \E x \in Execs :
       \/ Deliver("msg", [sig EXCEPT !.proofs[x].digest = ForgedHash], {})
       \/ Deliver("msg", [sig EXCEPT !.proofs[x].alpha = F(@ + 1)], {})
       \/ \E n \in PathNodes(hidden[x]) :
            Deliver("msg", sig, {Seed(x, p) : p \in LeavesUnder(n)})
       \/ /\ sig.proofs[x].aux # NoHash
          /\ \/ Deliver("msg", [sig EXCEPT !.proofs[x].aux.wit = F(@ + 1)], {})
             \/ Deliver("msg", [sig EXCEPT !.proofs[x].aux.corr = F(@ + 1)], {})
  /\ genuine' = FALSE

-----------------------------------------------------------------------------
(* mpcith_additive_based_sign_verify. *)

\* parse_signature expands the view challenge first: it tells the length to expect.
Parse ==
  /\ pc = "parse"
  /\ vhidden' \in [Execs -> Parties]
  /\ got.sig.viewHash = sig.viewHash => vhidden' = hidden
  /\ got.sig.length = LengthRequired(vhidden')
  /\ vchallenges' \in [Execs -> Challenges]
  /\ got.sig.mpcHash = sig.mpcHash => vchallenges' = challenges
  /\ e' = 0 /\ i' = 0
  /\ vpacks' = NoPacks(build)
  /\ vbr' = [x \in Execs |-> <<>>]
  /\ pc' = "recompute"
  /\ UNCHANGED <<params, slots, acc, packs, plain, aux, coms, emulVars, got, genuine, vcoms, verdict>>

ParseFails ==
  /\ pc = "parse"
  /\ vhidden' \in [Execs -> Parties]
  /\ got.sig.viewHash = sig.viewHash => vhidden' = hidden
  /\ got.sig.length # LengthRequired(vhidden')
  /\ verdict' = "reject"
  /\ pc' = "done"
  /\ UNCHANGED <<params, shareVars, emulVars, got, genuine, vchallenges, vpacks, vcoms, vbr>>

\* The leaf seeds reconstruct_tree rebuilds: those of the leaves under the path.  When
\* the hidden party is not the signer's, none is taken to be the signer's.
Rebuilt(x, p) ==
  IF /\ p \in LeavesOf(got.sig.proofs[x].path)
     /\ vhidden[x] = hidden[x] /\ Seed(x, p) \notin got.badSeeds
  THEN Seed(x, p) ELSE JunkSeed

\* The commitment of party p: that of the signature for the hidden party.
Recommit(p, a) ==
  IF p = vhidden[e] THEN got.sig.proofs[e].digest
  ELSE Commit(e, p, Rebuilt(e, p), a, got.sig.salt)

\* share_recomputing_update for the open parties of a set of parties, in their slots.
Repack(pk, p) == IF p = vhidden[e] THEN pk ELSE OpenPacked(build, vhidden[e], pk, p, slots'[p % 4])
RepackFour(pk, p) == Repack(Repack(Repack(Repack(pk, p), p + 1), p + 2), p + 3)

RecomputeFour ==
  /\ pc = "recompute" /\ i + 4 < build.parties
  /\ slots' = [k \in 0..3 |-> ShareOf(Rebuilt(e, i + k))]
  /\ vpacks' = RepackFour(vpacks, i)
  /\ vcoms' = [vcoms EXCEPT ![e] = [p \in Parties |->
                IF p \in i..(i + 3) THEN Recommit(p, NoAux) ELSE @[p]]]
  /\ i' = i + 4
  /\ UNCHANGED <<pc, params, e, acc, packs, plain, aux, coms, emulVars, got, genuine,
                 vchallenges, vhidden, vbr, verdict>>

\* A party of the last ones, the last one excepted.
RecomputeOne ==
  /\ pc = "recompute" /\ i + 4 >= build.parties /\ i < Last
  /\ slots' = IF i = vhidden[e] THEN slots ELSE [slots EXCEPT ![i % 4] = ShareOf(Rebuilt(e, i))]
  /\ vpacks' = Repack(vpacks, i)
  /\ vcoms' = [vcoms EXCEPT ![e][i] = Recommit(i, NoAux)]
  /\ i' = i + 1
  /\ UNCHANGED <<pc, params, e, acc, packs, plain, aux, coms, emulVars, got, genuine,
                 vchallenges, vhidden, vbr, verdict>>

\* The share of the last party, that parse_signature reads for an open one.  If the
\* hidden parties are not the signer's, it may read it from bytes of other fields.
ParsedAux(x) == IF got.sig.proofs[x].aux = NoHash THEN NoAux ELSE got.sig.proofs[x].aux

RecomputeLast ==
  /\ pc = "recompute" /\ i = Last
  /\ LET a == ParsedAux(e)
         unif == ShareOf(Rebuilt(e, i)).unif
     IN  /\ slots' = IF i = vhidden[e] THEN slots
                     ELSE [slots EXCEPT ![i % 4] = [wit |-> a.wit, unif |-> unif, corr |-> a.corr]]
         /\ vcoms' = [vcoms EXCEPT ![e][i] = Recommit(i, a)]
  /\ vpacks' = Repack(vpacks, i)
  /\ pc' = "emulate"
  /\ UNCHANGED <<params, e, i, acc, packs, plain, aux, coms, emulVars, got, genuine,
                 vchallenges, vhidden, vbr, verdict>>

Emulate ==
  /\ pc = "emulate"
  /\ LET h == vhidden[e]
         alpha == got.sig.proofs[e].alpha
         mine == [p \in Packs(build) |->
                   Broadcast(vchallenges[e], vpacks[p], alpha, inst, HasOffset(build, h, p))]
     IN  vbr' = [vbr EXCEPT ![e] = Recomposed(build, h, mine, PlainBroadcast(alpha))]
  /\ vpacks' = NoPacks(build)
  /\ i' = 0
  /\ IF e + 1 \in Execs THEN e' = e + 1 /\ pc' = "recompute"
                        ELSE e' = 0 /\ pc' = "compare"
  /\ UNCHANGED <<params, slots, acc, packs, plain, aux, coms, emulVars, got, genuine,
                 vchallenges, vhidden, vcoms, verdict>>

GotAlphas == [x \in Execs |-> got.sig.proofs[x].alpha]
SameMpcHash  == MpcHash(vcoms, got.sig.salt, got.msg) = got.sig.mpcHash
SameViewHash ==
  ViewHash(got.sig.mpcHash, vbr, GotAlphas, got.sig.salt, got.msg) = got.sig.viewHash

SameViewHashOnly == SameViewHash
SameHashes == SameMpcHash /\ SameViewHash

Compare ==
  /\ pc = "compare"
  /\ verdict' = IF SameHashes THEN "accept" ELSE "reject"
  /\ pc' = "done"
  /\ UNCHANGED <<params, shareVars, emulVars, got, genuine, vchallenges, vhidden, vpacks,
                 vcoms, vbr>>

-----------------------------------------------------------------------------
Returned == pc \in {"done", "failed"}

\* The functions have returned: nothing more happens.
Stopped == Returned /\ UNCHANGED vars

Sign == \/ ShareFour \/ ShareOne \/ ShareLast \/ MpcChallenge \/ Simulate
        \/ ViewChallengeDrawn \/ BuildSignature
Transmit == DeliverGenuine \/ DeliverOtherHeader \/ DeliverOtherProof
Verify == \/ Parse \/ ParseFails \/ RecomputeFour \/ RecomputeOne \/ RecomputeLast
          \/ Emulate \/ Compare
Next == Sign \/ Transmit \/ Verify \/ Stopped

Spec == Init /\ [][Next]_vars

\* The two functions are loops of a single thread that nothing suspends; the
\* verifier is called with some signature.
FairSpec == Spec /\ WF_vars(Sign \/ Transmit \/ Verify)

-----------------------------------------------------------------------------
(* Properties. *)

Signing   == {"share", "challenge", "simulate", "views", "build", "failed"}
Verifying == {"parse", "recompute", "emulate", "compare"}

\* Type invariant.
TypeOK ==
  /\ pc \in Signing \cup Verifying \cup {"sent", "done"}
  /\ build \in Builds /\ key \in Keys /\ root \in Roots
  /\ e \in Execs /\ i \in Parties
  /\ slots \in [0..3 -> Share] /\ acc \in Share
  /\ packs \in [Execs -> [Packs(build) -> Share]]
  /\ plain \in [Execs -> [unif : Field, corr : Field]]
  /\ aux \in [Execs -> [wit : Field, corr : Field]]
  /\ vpacks \in [Packs(build) -> Share]
  /\ genuine \in BOOLEAN
  /\ verdict \in {"none", "accept", "reject"}

\* The executions whose shares are complete.
Shared == IF pc = "share" THEN 0..(e - 1) ELSE Execs

SumOfShares(x, part(_)) ==
  LET sum[k \in 0..Last] == IF k = 0 THEN 0 ELSE sum[k - 1] + part(Expand(root, x, k - 1))
  IN  sum[Last]

WitOf(s)  == s.wit
UnifOf(s) == s.unif
CorrOf(s) == s.corr

\* The shares of the parties of an execution, those expanded from the seeds and that
\* of the last party, add up to the witness and to a correlated pair: the accumulator
\* holds the shares of this execution and of no other, although four slots are used
\* for all of them and the last slot still holds another share.  What the last party
\* gets is normalised, as it is sent.
SharesAddUp ==
  \A x \in Shared :
    /\ aux[x] \in [wit : Field, corr : Field]
    /\ F(SumOfShares(x, WitOf) + aux[x].wit) = key.x
    /\ F(SumOfShares(x, UnifOf) + Expand(root, x, Last).unif) = plain[x].unif
    /\ F(SumOfShares(x, CorrOf) + aux[x].corr) = F(-(key.x * plain[x].unif))

\* Whatever party is hidden and whichever packing is linked, the verifier of a
\* genuine signature recomputes the commitments and the broadcasts of the signer,
\* although it knows neither the packs these come from nor the hidden share.
SameTranscript ==
  genuine /\ pc = "compare" => vcoms = coms /\ vbr = br

\* The buffer of PARAM_SIGNATURE_SIZEBYTES is large enough whatever party is hidden.
SignatureFits == pc # "failed"

\* The accumulator, and the packs, when the shares of an execution have been treated.
Summed(share) ==
  LET sum[n \in 0..Last] == IF n = 0 THEN ZeroShare ELSE Plus(sum[n - 1], share[n - 1])
  IN  sum[Last]
PackedAll(share) ==
  LET packed[n \in 0..build.parties] ==
        IF n = 0 THEN NoPacks(build) ELSE Packed(build, packed[n - 1], n - 1, share[n - 1])
  IN  packed[build.parties]

\* What the signer does in an execution with a witness w, when the parties whose leaves
\* are not under the path sent expand s: the share of the last party, the packs, and
\* what is broadcast.
Rerun(x, w, s) ==
  LET share == [p \in Parties |->
                  IF p \in LeavesOf(sig.proofs[x].path) THEN Expand(root, x, p) ELSE s]
      sum   == Summed(share)
      unif  == F(share[Last].unif + sum.unif)
      last  == [wit |-> Aux(w, sum.wit), corr |-> Aux(Correlated(w, unif), sum.corr)]
      packed == PackedAll([share EXCEPT ![Last] =
                  [wit |-> last.wit, unif |-> @.unif, corr |-> last.corr]])
      alpha == Alpha(challenges[x], [wit |-> w, unif |-> unif, corr |-> 0], inst)
  IN  [alpha |-> alpha, aux |-> last,
       br |-> [p \in Packs(build) |->
                 Broadcast(challenges[x], packed[p], alpha, inst, FALSE)]]

\* A signature does not single out the witness: every solution of the equation of the
\* public key explains each execution of it, the seeds of its path, its plain broadcast,
\* the share of the last party where it is sent and the broadcasts that were hashed, by
\* some share of the hidden party.
WitnessIndistinguishable ==
  pc = "sent" =>
    \A x \in Execs, w \in {w \in Field : F(key.A * w * w + key.b * w) = inst.y} :
      \E s \in Share :
        LET run == Rerun(x, w, s)
        IN  /\ run.alpha = sig.proofs[x].alpha
            /\ run.br = sig.viewHash.br[x]
            /\ sig.proofs[x].aux \in {NoHash, run.aux}

\* The verifier accepts the signature the signer has sent, and no other.
Stage == CASE pc \in Signing   -> "signing"
           [] pc = "sent"      -> "sent"
           [] pc \in Verifying -> "received"
           [] pc = "done"      -> "judged"
Scheme == INSTANCE SignatureScheme WITH stage <- Stage
SchemeSpec == Scheme!SchemeSpec

\* Both functions return.
Terminates == <>(pc = "done")
=============================================================================
