---------------------------- MODULE SevenRoundSign ----------------------------
(***************************************************************************)
(* The signatures in seven rounds on additive sharings:                    *)
(* core/linear-mpc/7rounds/additive/sign-mpcith-additive-based.c, with the *)
(* protocol of mpc/mq/mqom/mpc.c for one unknown.                          *)
(*                                                                         *)
(* As in AdditiveSign, a party holds a share expanded from its seed, but   *)
(* the last part of it, the "hint", depends on a first challenge: the last *)
(* party gets its hint, and enters the packs, only once this challenge is  *)
(* drawn from the commitments; the hint is then committed, and a second    *)
(* challenge is drawn, and the hidden parties come third.  The message is  *)
(* bound by this last digest alone.                                        *)
(*                                                                         *)
(* The grouping of the parties by four, which AdditiveSign details, is     *)
(* left out: an action treats one execution.  A length of a path of seeds  *)
(* is that of get_seed_path_size, as module SeedTree shows.                *)
(***************************************************************************)
EXTENDS Packing, FiniteSets

CONSTANTS Builds, Keys, Roots, Expand(_, _, _), JunkShare,
          FirstChallenges,   \* vec_challenge_1_t: the values of gamma
          SecondChallenges,  \* vec_challenge_2_t: the values of r
          Size               \* [digest, salt, seed, wit, hint, br]

ASSUME BuildsAssumption == \A b \in Builds : WellFormed(b)
ASSUME SharesAssumption ==
  /\ Keys \subseteq [A : Field, b : Field, x : Field]
  /\ \A b \in Builds, r \in Roots : \A x \in 0..(b.execs - 1), p \in 0..(b.parties - 1) :
        Expand(r, x, p) \in Share
ASSUME SizeAssumption ==
  Size \in [digest : Nat, salt : Nat, seed : Nat, wit : Nat, hint : Nat, br : Nat]

\* expand_mpc_challenge_hash_2 draws r again while it is an interpolation point.
ASSUME ChallengesAssumption ==
  FirstChallenges \subseteq Field /\ SecondChallenges \subseteq Field \ {0}

VARIABLES
  pc, build, key, root, e,
  acc, packs, unif, aux,  \* aux: the witness and hint shares of the last party
  coms, hintComs, first, second, alphas, br, hidden,
  sig, got, genuine,
  vfirst, vsecond, vhidden, vcoms, vhintComs, vbr, verdict

fixed == <<build, key, root>>
signVars == <<acc, packs, unif, aux, coms, hintComs, first, second, alphas, br, hidden, sig>>
verVars == <<got, genuine, vfirst, vsecond, vhidden, vcoms, vhintComs, vbr, verdict>>
vars == <<pc, fixed, e, signVars, verVars>>

Execs   == 0..(build.execs - 1)
Parties == 0..(build.parties - 1)
Last    == build.parties - 1
inst    == Instance(key.A, key.b, key.x)

NextExec(stage) == IF e + 1 \in Execs THEN e' = e + 1 /\ pc' = pc ELSE e' = 0 /\ pc' = stage

NoDigest == [none |-> TRUE]
Forged   == [forged |-> TRUE]
Seed(x, p) == [exec |-> x, party |-> p]
JunkSeed   == Seed(-1, -1)
ShareOf(sd) == IF sd = JunkSeed THEN JunkShare ELSE Expand(root, sd.exec, sd.party)

-----------------------------------------------------------------------------
(* The protocol.  The corr part of a share is its hint.  The polynomial    *)
(* through w at the only interpolation point, 0, plus unif times the       *)
(* vanishing polynomial, is taken at r.                                    *)

Hint(x, u) == F(u * x)
HintAlpha(gamma, r, s) == F(gamma * inst.A * s.wit + r * s.unif)
HintBroadcast(gamma, r, s, alpha, hasOffset) ==
  LET z == gamma * ((IF hasOffset THEN inst.y ELSE 0) - inst.b * s.wit)
  IN  [alpha |-> HintAlpha(gamma, r, s), v |-> F(r * s.corr + z - alpha * s.wit)]

CommitSeed(x, p, sd, wit, salt) ==
  [exec |-> x, party |-> p, seed |-> sd, wit |-> IF p = Last THEN wit ELSE 0, salt |-> salt]
CommitHint(x, hint, salt) ==
  [exec |-> x, party |-> build.parties, hint |-> hint, salt |-> salt]

FirstHash(commits, salt) == [inst |-> inst, salt |-> salt, coms |-> commits]
SecondHash(firstHash, commits, salt) == [salt |-> salt, first |-> firstHash, hints |-> commits]
ViewHashOfNoMessage(secondHash, broadcasts, plainAlphas, salt, msg) ==
  [salt |-> salt, second |-> secondHash, br |-> broadcasts, alphas |-> plainAlphas]
ViewHash(secondHash, broadcasts, plainAlphas, salt, msg) ==
  [msg |-> msg, salt |-> salt, second |-> secondHash, br |-> broadcasts, alphas |-> plainAlphas]

-----------------------------------------------------------------------------
(* mpcith_additive_based_7r_sign.                                          *)

Init ==
  /\ pc = "share" /\ build \in Builds /\ key \in Keys /\ root \in Roots /\ e = 0
  /\ acc = ZeroShare
  /\ packs = [x \in Execs |-> NoPacks(build)] /\ unif = [x \in Execs |-> 0]
  /\ aux = [x \in Execs |-> [wit |-> 0, hint |-> 0]]
  /\ coms = [x \in Execs |-> NoDigest] /\ hintComs = [x \in Execs |-> NoDigest]
  /\ first = <<>> /\ second = <<>>
  /\ alphas = <<>> /\ br = <<>> /\ hidden = <<>> /\ sig = NoDigest
  /\ got = NoDigest /\ genuine = TRUE /\ vfirst = <<>> /\ vsecond = <<>> /\ vhidden = <<>>
  /\ vcoms = [x \in Execs |-> NoDigest] /\ vhintComs = [x \in Execs |-> NoDigest]
  /\ vbr = [x \in Execs |-> <<>>] /\ verdict = "none"

Pack(pk, p, share) == Packed(build, pk, p, share)

\* The accumulator when an execution starts.
AccKept  == acc
AccReset == ZeroShare

\* The sum of the shares of an execution, but that of the last party, and their packs.
Accumulated(x, pk) ==
  LET upto[p \in 0..Last] ==
        IF p = 0 THEN [sum |-> AccReset, packs |-> pk]
        ELSE LET s == Expand(root, x, p - 1)
             IN  [sum |-> Plus(upto[p - 1].sum, s), packs |-> Pack(upto[p - 1].packs, p - 1, s)]
  IN  upto[Last]

\* The shares of all parties but the last one, the witness share of the last one and
\* the commitments.  The hint of the last party is the sum of the others for now.
ShareSecret ==
  /\ pc = "share"
  /\ LET shared == Accumulated(e, packs[e])
     IN  /\ acc' = shared.sum
         /\ packs' = [packs EXCEPT ![e] = shared.packs]
         /\ unif' = [unif EXCEPT ![e] = F(Expand(root, e, Last).unif + acc'.unif)]
         /\ aux' = [aux EXCEPT ![e] = [wit |-> F(key.x - acc'.wit), hint |-> acc'.corr]]
  /\ coms' = [coms EXCEPT ![e] = [p \in Parties |->
                CommitSeed(e, p, Seed(e, p), aux'[e].wit, "salt")]]
  /\ NextExec("first")
  /\ UNCHANGED <<fixed, hintComs, first, second, alphas, br, hidden, sig, verVars>>

FirstChallenge ==
  /\ pc = "first" /\ pc' = "hint"
  /\ first' \in [Execs -> FirstChallenges]
  /\ UNCHANGED <<fixed, e, acc, packs, unif, aux, coms, hintComs, second, alphas, br, hidden,
                 sig, verVars>>

\* The last party gets its hint and enters the packs.
ComputeHint ==
  /\ pc = "hint"
  /\ aux' = [aux EXCEPT ![e].hint = F(Hint(key.x, unif[e]) - @)]
  /\ hintComs' = [hintComs EXCEPT ![e] = CommitHint(e, aux'[e].hint, "salt")]
  /\ packs' = [packs EXCEPT ![e] =
        Pack(@, Last, [wit |-> aux'[e].wit, unif |-> Expand(root, e, Last).unif,
                       corr |-> aux'[e].hint])]
  /\ NextExec("second")
  /\ UNCHANGED <<fixed, acc, unif, coms, first, second, alphas, br, hidden, sig, verVars>>

SecondChallenge ==
  /\ pc = "second" /\ pc' = "simulate"
  /\ second' \in [Execs -> SecondChallenges]
  /\ UNCHANGED <<fixed, e, acc, packs, unif, aux, coms, hintComs, first, alphas, br, hidden,
                 sig, verVars>>

Simulate ==
  /\ pc = "simulate" /\ pc' = "views"
  /\ alphas' = [x \in Execs |->
        HintAlpha(first[x], second[x], [wit |-> key.x, unif |-> unif[x]])]
  /\ br' = [x \in Execs |-> [p \in Packs(build) |->
        HintBroadcast(first[x], second[x], packs[x][p], alphas'[x], FALSE)]]
  /\ UNCHANGED <<fixed, e, acc, packs, unif, aux, coms, hintComs, first, second, hidden, sig,
                 verVars>>

ViewChallenge ==
  /\ pc = "views" /\ pc' = "build"
  /\ hidden' \in [Execs -> Parties]
  /\ UNCHANGED <<fixed, e, acc, packs, unif, aux, coms, hintComs, first, second, alphas, br,
                 sig, verVars>>

-----------------------------------------------------------------------------
SumOver(f) ==
  LET sum[k \in 0..build.execs] == IF k = 0 THEN 0 ELSE sum[k - 1] + f[k - 1]
  IN  sum[build.execs]

MaxLength ==
  4 + 3 * Size.digest + Size.salt
    + build.execs * (Size.wit + Size.hint + Size.br + build.log * Size.seed + 2 * Size.digest)

PathSize(h) == IF build.parties + h >= 2^build.log THEN build.log ELSE build.log - 1

\* The share of the last party is sent when it is open, the commitment to its hint
\* when it is not.
AuxSentAlways(h) == TRUE
AuxSent(h) == h # Last

LengthRequired(h) ==
  3 * Size.digest + Size.salt
    + SumOver([x \in Execs |->
        PathSize(h[x]) * Size.seed + Size.digest + Size.br
          + IF AuxSent(h[x]) THEN Size.wit + Size.hint ELSE Size.digest])
LengthBuilt(h) ==
  3 * Size.digest + Size.salt + build.execs * (Size.br + Size.digest)
    + SumOver([x \in Execs |->
        PathSize(h[x]) * Size.seed
          + IF AuxSent(h[x]) THEN Size.wit + Size.hint ELSE Size.digest])

SentProof(x) ==
  [digest |-> coms[x][hidden[x]], alpha |-> alphas[x],
   aux        |-> IF AuxSent(hidden[x]) THEN aux[x] ELSE NoDigest,
   hintDigest |-> IF AuxSent(hidden[x]) THEN NoDigest ELSE hintComs[x]]

BuildSignature ==
  /\ pc = "build"
  /\ LET one == FirstHash(coms, "salt")
         two == SecondHash(one, hintComs, "salt")
     IN  sig' = [salt |-> "salt", first |-> one, second |-> two,
                 view |-> ViewHash(two, br, alphas, "salt", "msg"),
                 proofs |-> [x \in Execs |-> SentProof(x)], length |-> LengthBuilt(hidden)]
  /\ pc' = IF sig'.length <= MaxLength THEN "sent" ELSE "failed"
  /\ UNCHANGED <<fixed, e, acc, packs, unif, aux, coms, hintComs, first, second, alphas, br,
                 hidden, verVars>>

-----------------------------------------------------------------------------
(* Between the signer and the verifier at most one field is altered: an    *)
(* altered path of seeds spoils the leaf of one open party, or all.        *)

Deliver(msg, signature, badSeeds) ==
  /\ pc = "sent" /\ pc' = "parse"
  /\ got' = [msg |-> msg, sig |-> signature, badSeeds |-> badSeeds]
  /\ genuine' = (msg = "msg" /\ signature = sig /\ badSeeds = {})
  /\ UNCHANGED <<fixed, e, signVars, vfirst, vsecond, vhidden, vcoms, vhintComs, vbr, verdict>>

DeliverGenuine == Deliver("msg", sig, {})
DeliverOtherHeader ==
  /\ pc = "sent"
  /\ \/ Deliver("other", sig, {})
     \/ Deliver("msg", [sig EXCEPT !.salt = "other"], {})
     \/ \E f \in {"first", "second", "view"} : Deliver("msg", [sig EXCEPT ![f] = Forged], {})
     \/ \E n \in {-1, 1} : Deliver("msg", [sig EXCEPT !.length = @ + n], {})
DeliverOtherProof ==
  /\ pc = "sent"
  /\ \E x \in Execs :
       \/ Deliver("msg", [sig EXCEPT !.proofs[x].digest = Forged], {})
       \/ Deliver("msg", [sig EXCEPT !.proofs[x].alpha = F(@ + 1)], {})
       \/ \E bad \in {{p} : p \in Parties} \cup {Parties} :
            bad # {hidden[x]} /\ Deliver("msg", sig, {Seed(x, p) : p \in bad})
       \/ AuxSent(hidden[x]) /\ Deliver("msg", [sig EXCEPT !.proofs[x].aux.wit = F(@ + 1)], {})
       \/ AuxSent(hidden[x]) /\ Deliver("msg", [sig EXCEPT !.proofs[x].aux.hint = F(@ + 1)], {})
       \/ ~AuxSent(hidden[x]) /\ Deliver("msg", [sig EXCEPT !.proofs[x].hintDigest = Forged], {})

-----------------------------------------------------------------------------
(* mpcith_additive_based_7r_sign_verify.                                   *)

Parse ==
  /\ pc = "parse"
  /\ vhidden' \in [Execs -> Parties]
  /\ got.sig.view = sig.view => vhidden' = hidden
  /\ IF got.sig.length = LengthRequired(vhidden')
     THEN pc' = "expand" /\ verdict' = verdict
     ELSE pc' = "done" /\ verdict' = "reject"
  /\ UNCHANGED <<fixed, e, signVars, got, genuine, vfirst, vsecond, vcoms, vhintComs, vbr>>

ExpandChallenges ==
  /\ pc = "expand" /\ pc' = "recompute"
  /\ vfirst' \in [Execs -> FirstChallenges] /\ vsecond' \in [Execs -> SecondChallenges]
  /\ got.sig.first = sig.first => vfirst' = first
  /\ got.sig.second = sig.second => vsecond' = second
  /\ UNCHANGED <<fixed, e, signVars, got, genuine, vhidden, vcoms, vhintComs, vbr, verdict>>

\* When the hidden party is not the signer's, no seed of the path is right.
Rebuilt(x, p) ==
  IF p = vhidden[x] \/ vhidden[x] # hidden[x] \/ Seed(x, p) \in got.badSeeds
  THEN JunkSeed ELSE Seed(x, p)

\* What is parsed at the place of the last party, whose bytes are of other fields when
\* the hidden party is not the signer's.
ParsedAux(x) == IF got.sig.proofs[x].aux = NoDigest THEN [wit |-> 0, hint |-> 0]
                ELSE got.sig.proofs[x].aux

OpenShare(x, p) ==
  LET s == ShareOf(Rebuilt(x, p))
  IN  IF p # Last THEN s
      ELSE [wit |-> ParsedAux(x).wit, unif |-> s.unif, corr |-> ParsedAux(x).hint]

RecommitHint(x) ==
  IF vhidden[x] = Last THEN got.sig.proofs[x].hintDigest
  ELSE CommitHint(x, ParsedAux(x).hint, got.sig.salt)
Recommit(x, p) ==
  IF p = vhidden[x] THEN got.sig.proofs[x].digest
  ELSE CommitSeed(x, p, Rebuilt(x, p), ParsedAux(x).wit, got.sig.salt)

Repack(pk, h, p, share) == OpenPacked(build, h, pk, p, share)

\* The packs of the shares of the open parties.
OpenPacks(x, h) ==
  LET upto[p \in 0..build.parties] ==
        IF p = 0 THEN NoPacks(build)
        ELSE IF p - 1 = h THEN upto[p - 1]
        ELSE Repack(upto[p - 1], h, p - 1, OpenShare(x, p - 1))
  IN  upto[build.parties]

Recompute ==
  /\ pc = "recompute"
  /\ LET h == vhidden[e]
         alpha == got.sig.proofs[e].alpha
         opened == OpenPacks(e, h)
         mine == [p \in Packs(build) |->
           HintBroadcast(vfirst[e], vsecond[e], opened[p], alpha, HasOffset(build, h, p))]
     IN  vbr' = [vbr EXCEPT ![e] = Recomposed(build, h, mine, PlainBroadcast(alpha))]
  /\ vhintComs' = [vhintComs EXCEPT ![e] = RecommitHint(e)]
  /\ vcoms' = [vcoms EXCEPT ![e] = [p \in Parties |-> Recommit(e, p)]]
  /\ NextExec("compare")
  /\ UNCHANGED <<fixed, signVars, got, genuine, vfirst, vsecond, vhidden, verdict>>

SameHashes ==
  LET s == got.sig
  IN  /\ FirstHash(vcoms, s.salt) = s.first
      /\ SecondHash(s.first, vhintComs, s.salt) = s.second
      /\ ViewHash(s.second, vbr, [x \in Execs |-> s.proofs[x].alpha], s.salt, got.msg) = s.view

Compare ==
  /\ pc = "compare" /\ pc' = "done"
  /\ verdict' = IF SameHashes THEN "accept" ELSE "reject"
  /\ UNCHANGED <<fixed, e, signVars, got, genuine, vfirst, vsecond, vhidden, vcoms, vhintComs,
                 vbr>>

-----------------------------------------------------------------------------
\* The functions have returned.
Stopped == pc \in {"done", "failed"} /\ UNCHANGED vars

Next == \/ ShareSecret \/ FirstChallenge \/ ComputeHint \/ SecondChallenge \/ Simulate
        \/ ViewChallenge \/ BuildSignature
        \/ DeliverGenuine \/ DeliverOtherHeader \/ DeliverOtherProof
        \/ Parse \/ ExpandChallenges \/ Recompute \/ Compare \/ Stopped
Spec == Init /\ [][Next]_vars

-----------------------------------------------------------------------------
(* Properties. *)

SumOfShares(x, part(_)) ==
  LET sum[k \in 0..Last] == IF k = 0 THEN 0 ELSE sum[k - 1] + part(Expand(root, x, k - 1))
  IN  sum[Last]
HintOf(s) == s.corr
WitOf(s)  == s.wit

\* Once the hints are computed, the shares of the parties of an execution add up to
\* the witness and to the hint for it: what the accumulator left in the place of the
\* hint between two challenges is the sum of this execution and of no other.
HintsAddUp ==
  pc \notin {"share", "first", "hint"} =>
    \A x \in Execs : /\ F(SumOfShares(x, WitOf) + aux[x].wit) = key.x
                     /\ F(SumOfShares(x, HintOf) + aux[x].hint) = F(key.x * unif[x])

\* The verifier of a genuine signature recomputes the commitments, those of the hints
\* included, and the broadcasts of packs it cannot form.
SameTranscript ==
  genuine /\ pc = "compare" => vcoms = coms /\ vhintComs = hintComs /\ vbr = br

\* When the last party is hidden neither its witness share nor its hint is sent, and
\* the buffer is large enough for what is.
LastPartyHidden ==
  /\ pc # "failed"
  /\ sig # NoDigest =>
       \A x \in Execs : hidden[x] = Last => sig.proofs[x].aux = NoDigest

\* The verifier accepts the signature that was sent, and no other.
Stage == CASE pc \in {"parse", "expand", "recompute", "compare"} -> "received"
           [] pc = "sent" -> "sent"
           [] pc = "done" -> "judged"
           [] OTHER       -> "signing"
Scheme == INSTANCE SignatureScheme WITH stage <- Stage
SchemeSpec == Scheme!SchemeSpec
=============================================================================
