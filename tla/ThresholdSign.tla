----------------------------- MODULE ThresholdSign -----------------------------
(***************************************************************************)
(* The signatures in five rounds on threshold sharings committed in Merkle *)
(* trees: core/linear-mpc/5rounds/threshold-mt, in its two variants.       *)
(* "standard" has a plain input, a challenge and a plain broadcast for     *)
(* each execution; "nfpr" (negligible false-positive rate) has one of each *)
(* for all of them, binds the message by the last hash only and does not   *)
(* salt its trees.                                                         *)
(*                                                                         *)
(* The share of party i is the value at i of a polynomial whose constant   *)
(* term is the plain input and whose other coefficients are random; party  *)
(* 0 has the leading coefficient.  The parties that the view challenge     *)
(* names are opened by their witness shares alone: the verifier knows what *)
(* they broadcast, and turns the protocol round to get the rest.           *)
(*                                                                         *)
(* Digests are free constructors.  An authentication path is good for one  *)
(* tree and one set of leaves, as module MerkleTree shows.  Two different  *)
(* view digests are taken to name different parties in some execution.     *)
(***************************************************************************)
EXTENDS MqProtocol, FiniteSets

CONSTANTS
  Builds,               \* [kind, parties, log, revealed, maxOpen, execs]
  Keys,                 \* secret keys [A, b, x]
  Seeds,                \* the values of the seed given to the signing function
  DrawnUnif(_, _),      \* (seed, execution): the uniform part of a plain input
  DrawnShare(_, _, _),  \* (seed, execution, p): a random coefficient
  Challenges,
  Size                  \* byte sizes [digest, salt, plain, br, wit, corr, unif]

\* What a build is made of, an element of a field being a byte; the provers know nothing
\* about ^.
Supported(b) ==
  /\ b.kind \in {"standard", "nfpr"}
  /\ b.parties \in 2..Q /\ b.parties <= 256 /\ b.revealed \in 1..(b.parties - 1)
  /\ b.log \in Nat /\ 2^0 = 1
  /\ \A n \in 0..b.log : 2^n \in Nat \ {0} /\ 2^(n + 1) = 2 * 2^n
  /\ 2^(b.log - 1) < b.parties /\ b.parties <= 2^b.log
  /\ b.execs \in Nat \ {0} /\ b.maxOpen \in Nat

ASSUME BuildsAssumption == \A b \in Builds : Supported(b)
ASSUME SharesAssumption ==
  /\ Keys \subseteq [A : Field, b : Field, x : Field]
  /\ \A b \in Builds, s \in Seeds : \A x \in 0..(b.execs - 1) :
       /\ DrawnUnif(s, x) \in Field
       /\ \A p \in 0..(b.revealed - 1) : DrawnShare(s, x, p) \in Share
ASSUME SizeAssumption ==
  Size \in [digest : Nat, salt : Nat, plain : Nat, br : Nat, wit : Nat, corr : Nat, unif : Nat]
ASSUME ChallengesAssumption == Challenges \subseteq Challenge

\* What the parameter sets and the structures of the protocols give: with 3 open leaves of
\* 2^8, PARAM_TREE_NB_MAX_OPEN_LEAVES is 19, and a broadcast is made of a vector like the
\* uniform part and one like the corrected part.
ASSUME SpaceAssumption ==
  /\ Size.br <= Size.corr + Size.unif
  /\ \A b \in Builds : \E c \in 0..b.log :
       b.revealed * (b.log - c) + 2^c - b.revealed <= b.maxOpen

VARIABLES
  pc, build, key, seed, e,
  plain, rnd,          \* the plain inputs, the coefficients of the sharings
  roots,               \* merkle_roots: what each commits to
  challenges, alphas, br, open,
  sig, got, genuine,   \* the signature sent, what is received, whether it is that
  vchallenges, vopen, vroots, verdict

fixed == <<build, key, seed>>
signVars == <<plain, rnd, roots, challenges, alphas, br, open, sig>>
verVars == <<got, genuine, vchallenges, vopen, vroots, verdict>>
vars == <<pc, fixed, e, signVars, verVars>>

Execs   == 0..(build.execs - 1)
Parties == 0..(build.parties - 1)
Ranks   == 0..(build.revealed - 1)
Standard == build.kind = "standard"
Nfpr     == build.kind = "nfpr"
inst    == Instance(key.A, key.b, key.x)

\* What execution x uses of a table with a row for each execution, or with one row.
At(table, x) == table[IF x \in DOMAIN table THEN x ELSE 0]
Openings == {S \in SUBSET Parties : Cardinality(S) = build.revealed}
Member(S, p) == CHOOSE i \in S : Cardinality({j \in S : j < i}) = p

-----------------------------------------------------------------------------
(* share.c: the evaluation point is a uint8_t.                             *)

EvalNarrow(i) == i % 4
Eval(i) == i % 256

Horner(secret, coeffs, i) ==
  LET horner[k \in Ranks] ==
        IF k = 0 THEN coeffs[build.revealed - 1]
        ELSE Plus(Times(i, horner[k - 1]), coeffs[build.revealed - 1 - k])
  IN  Plus(Times(i, horner[build.revealed - 1]), secret)
CompleteShare(secret, coeffs, i) ==
  IF i = 0 THEN coeffs[build.revealed - 1] ELSE Horner(secret, coeffs, i)

ShareWit(secret, coeffs, i) == CompleteShare(secret, coeffs, i).wit

ShareBroadcast(secret, coeffs, i) ==
  LET horner[k \in Ranks] ==
        IF k = 0 THEN coeffs[build.revealed - 1]
        ELSE BrPlus(BrTimes(i, horner[k - 1]), coeffs[build.revealed - 1 - k])
  IN  IF i = 0 THEN coeffs[build.revealed - 1]
      ELSE BrPlus(BrTimes(i, horner[build.revealed - 1]), secret)

-----------------------------------------------------------------------------
(* Commitments, trees and the two hashes of each variant.                  *)

NoDigest == [none |-> TRUE]
Forged   == [forged |-> TRUE]

Commitment(x, i, share, salt) == [exec |-> x, party |-> i, share |-> share, salt |-> salt]

\* build_merkle_tree, open_merkle_tree and get_merkle_root_from_auth.
Tree(leaves, salt) == [leaves |-> leaves, salt |-> salt]
OpenTree(tree, S)  == [tree |-> tree, open |-> S]
RootFromAuth(auth, S, digests, salt) ==
  IF auth # Forged /\ auth.open = S /\ auth.tree.salt = salt
  THEN Tree([i \in Parties |-> IF i \in S THEN digests[i] ELSE auth.tree.leaves[i]], salt)
  ELSE Forged

StandardMpcHash(trees, salt, msg) == [inst |-> inst, trees |-> trees, salt |-> salt, msg |-> msg]
NfprMpcHash(trees, salt) == [inst |-> inst, salt |-> salt, trees |-> trees]
MpcHash(trees, salt, msg) ==
  IF Standard THEN StandardMpcHash(trees, salt, msg) ELSE NfprMpcHash(trees, salt)

StandardViewHash(mpcHash, broadcasts, plainAlphas, salt, msg) ==
  [br |-> broadcasts, alphas |-> plainAlphas, salt |-> salt, msg |-> msg, mpcHash |-> mpcHash]
NfprViewHashOfNoMessage(mpcHash, broadcasts, plainAlphas, salt, msg) ==
  [salt |-> salt, mpcHash |-> mpcHash, alphas |-> plainAlphas, br |-> broadcasts]
NfprViewHash(mpcHash, broadcasts, plainAlphas, salt, msg) ==
  [msg |-> msg, salt |-> salt, mpcHash |-> mpcHash, alphas |-> plainAlphas, br |-> broadcasts]
ViewHash(s, msg) ==
  IF Standard THEN StandardViewHash(s.mpcHash, s.br, s.alphas, s.salt, msg)
              ELSE NfprViewHash(s.mpcHash, s.br, s.alphas, s.salt, msg)

-----------------------------------------------------------------------------
(* mpcith_threshold_sign and mpcith_threshold_nfpr_sign.                   *)

Init ==
  /\ pc = "setup" /\ build \in Builds /\ key \in Keys /\ seed \in Seeds /\ e = 0
  /\ plain = <<>> /\ rnd = <<>> /\ roots = [x \in Execs |-> NoDigest]
  /\ challenges = <<>> /\ alphas = <<>> /\ br = <<>> /\ open = <<>> /\ sig = NoDigest
  /\ got = NoDigest /\ genuine = TRUE /\ vchallenges = <<>> /\ vopen = <<>>
  /\ vroots = [x \in Execs |-> NoDigest] /\ verdict = "none"

Setup(rows) ==
  /\ pc = "setup" /\ pc' = "commit"
  /\ plain' = [x \in rows |->
        [wit |-> key.x, unif |-> DrawnUnif(seed, x),
         corr |-> Correlated(key.x, DrawnUnif(seed, x))]]
  /\ rnd' = [x \in Execs |-> [p \in Ranks |-> DrawnShare(seed, x, p)]]
  /\ UNCHANGED <<fixed, e, roots, challenges, alphas, br, open, sig, verVars>>
StandardSetup == Standard /\ Setup(Execs)
NfprSetup     == Nfpr /\ Setup({0})

\* The shares and the tree of one execution.
Commit(treeSalt) ==
  /\ pc = "commit"
  /\ roots' = [roots EXCEPT ![e] =
        Tree([i \in Parties |->
                Commitment(e, i, CompleteShare(At(plain, e), rnd[e], Eval(i)), "salt")],
             treeSalt)]
  /\ IF e + 1 \in Execs THEN e' = e + 1 /\ pc' = pc ELSE e' = 0 /\ pc' = "challenge"
  /\ UNCHANGED <<fixed, plain, rnd, challenges, alphas, br, open, sig, verVars>>
StandardCommit == Standard /\ Commit("salt")
NfprCommit     == Nfpr /\ Commit("none")

\* The challenges, one for each plain input.
MpcChallenge ==
  /\ pc = "challenge" /\ pc' = "simulate"
  /\ challenges' \in [DOMAIN plain -> Challenges]
  /\ UNCHANGED <<fixed, e, plain, rnd, roots, alphas, br, open, sig, verVars>>

Simulate ==
  /\ pc = "simulate" /\ pc' = "views"
  /\ alphas' = [x \in DOMAIN plain |-> Alpha(challenges[x], plain[x], inst)]
  /\ br' = [x \in Execs |-> [p \in Ranks |->
        Broadcast(At(challenges, x), rnd[x][p], At(alphas', x), inst, FALSE)]]
  /\ UNCHANGED <<fixed, e, plain, rnd, roots, challenges, open, sig, verVars>>
StandardSimulate == Standard /\ Simulate
NfprSimulate     == Nfpr /\ Simulate

ViewChallenge ==
  /\ pc = "views" /\ pc' = "build"
  /\ open' \in [Execs -> Openings]
  /\ UNCHANGED <<fixed, e, plain, rnd, roots, challenges, alphas, br, sig, verVars>>

-----------------------------------------------------------------------------
(* open_merkle_tree, build_signature and parse_signature.                  *)

\* The digests that open a set of leaves: the siblings of its paths that exist and
\* are on no path.
OnPaths(S) == {(2^build.log + i) \div 2^d : i \in S, d \in 0..build.log}
Existing   == OnPaths(Parties)
WholePaths(S) == {n \in Existing \ {1} : n \div 2 \in OnPaths(S)}
AuthNodes(S) == {n \in Existing \ OnPaths(S) : n \div 2 \in OnPaths(S)}

SumOver(f) ==
  LET sum[k \in 0..build.execs] == IF k = 0 THEN 0 ELSE sum[k - 1] + f[k - 1]
  IN  sum[build.execs]

StandardMaxLength ==
  4 + 2 * Size.digest + Size.salt + build.execs * Size.plain
    + build.execs * build.revealed * (Size.wit + Size.corr + Size.unif)
    + build.execs * Size.digest * build.maxOpen
NfprMaxLength ==
  2 * Size.digest + Size.salt + Size.plain
    + build.execs * build.revealed * (Size.wit + Size.corr + Size.unif)
    + build.execs * Size.digest * build.maxOpen
MaxLength == IF Standard THEN StandardMaxLength ELSE NfprMaxLength

FixedLength(plains) ==
  Size.digest + Size.salt + plains * Size.plain + build.execs * build.revealed * (Size.br + Size.wit)
AuthLength(S) == SumOver([x \in Execs |-> Size.digest * Cardinality(AuthNodes(S[x]))])
LengthBuilt(S)    == FixedLength(IF Standard THEN build.execs ELSE 1) + AuthLength(S)
LengthRequired(S) == FixedLength(IF Standard THEN build.execs ELSE 1) + AuthLength(S)

BuildSignature ==
  /\ pc = "build"
  /\ sig' = [salt |-> "salt", mpcHash |-> MpcHash(roots, "salt", "msg"),
             alphas |-> alphas, br |-> br,
             wits |-> [x \in Execs |-> [p \in Ranks |->
                        ShareWit(At(plain, x), rnd[x], Eval(Member(open[x], p)))]],
             auth |-> [x \in Execs |-> OpenTree(roots[x], open[x])],
             length |-> LengthBuilt(open)]
  /\ pc' = IF sig'.length <= MaxLength THEN "sent" ELSE "failed"
  /\ UNCHANGED <<fixed, e, plain, rnd, roots, challenges, alphas, br, open, verVars>>
StandardBuild == Standard /\ BuildSignature
NfprBuild     == Nfpr /\ BuildSignature

-----------------------------------------------------------------------------
(* Between the signer and the verifier at most one field is altered.       *)

Deliver(msg, signature) ==
  /\ pc = "sent" /\ pc' = "parse"
  /\ got' = [msg |-> msg, sig |-> signature]
  /\ genuine' = (msg = "msg" /\ signature = sig)
  /\ UNCHANGED <<fixed, e, signVars, vchallenges, vopen, vroots, verdict>>

DeliverGenuine == Deliver("msg", sig)
DeliverOtherHeader ==
  \/ Deliver("other", sig)
  \/ Deliver("msg", [sig EXCEPT !.salt = "other"])
  \/ Deliver("msg", [sig EXCEPT !.mpcHash = Forged])
  \/ \E n \in {-1, 1} : Deliver("msg", [sig EXCEPT !.length = @ + n])
DeliverOtherProof ==
  \/ \E x \in DOMAIN plain : Deliver("msg", [sig EXCEPT !.alphas[x] = F(@ + 1)])
  \/ \E x \in Execs, p \in Ranks :
       \/ Deliver("msg", [sig EXCEPT !.br[x][p].alpha = F(@ + 1)])
       \/ Deliver("msg", [sig EXCEPT !.br[x][p].v = F(@ + 1)])
       \/ Deliver("msg", [sig EXCEPT !.wits[x][p] = F(@ + 1)])
  \/ \E x \in Execs : Deliver("msg", [sig EXCEPT !.auth[x] = Forged])

-----------------------------------------------------------------------------
(* mpcith_threshold_sign_verify and mpcith_threshold_nfpr_sign_verify.     *)

\* The view challenge is hashed again from what the signature carries: it tells the
\* parties to open and the length to expect.
Parse ==
  /\ pc = "parse"
  /\ vopen' \in [Execs -> Openings]
  /\ vopen' = open <=> ViewHash(got.sig, got.msg) = ViewHash(sig, "msg")
  /\ IF got.sig.length = LengthRequired(vopen')
     THEN pc' = "expand" /\ verdict' = verdict
     ELSE pc' = "done" /\ verdict' = "reject"
  /\ UNCHANGED <<fixed, e, signVars, got, genuine, vchallenges, vroots>>
StandardParse == Standard /\ Parse
NfprParse     == Nfpr /\ Parse

ExpandMpcChallenge ==
  /\ pc = "expand" /\ pc' = "recover"
  /\ vchallenges' \in [DOMAIN plain -> Challenges]
  /\ got.sig.mpcHash = sig.mpcHash => vchallenges' = challenges
  /\ UNCHANGED <<fixed, e, signVars, got, genuine, vopen, vroots, verdict>>

\* The party at infinity has no constant term, and no public constant.
HasSharingOffset(i) == i # 0

\* The share of the open party of rank p.
Recovered(p) ==
  LET i == Member(vopen[e], p)
      ch == At(vchallenges, e)
      alpha == At(got.sig.alphas, e)
      mine == ShareBroadcast(PlainBroadcast(alpha), got.sig.br[e], Eval(i))
  IN  ShareFromBroadcast(ch, got.sig.wits[e][p], mine, alpha, inst, HasSharingOffset(i))

\* The root of the tree of one execution.
Recover(treeSalt) ==
  /\ pc = "recover"
  /\ LET S == vopen[e]
         rank(i) == Cardinality({j \in S : j < i})
         digests == [i \in S |-> Commitment(e, i, Recovered(rank(i)), got.sig.salt)]
     IN  vroots' = [vroots EXCEPT ![e] = RootFromAuth(got.sig.auth[e], S, digests, treeSalt)]
  /\ IF e + 1 \in Execs THEN e' = e + 1 /\ pc' = pc ELSE e' = 0 /\ pc' = "compare"
  /\ UNCHANGED <<fixed, signVars, got, genuine, vchallenges, vopen, verdict>>
StandardRecover == Standard /\ Recover(got.sig.salt)
NfprRecover     == Nfpr /\ Recover("none")

\* The only digest the signature carries is that of the MPC challenge.
SameMpcHash == MpcHash(vroots, got.sig.salt, got.msg) = got.sig.mpcHash

Compare ==
  /\ pc = "compare" /\ pc' = "done"
  /\ verdict' = IF SameMpcHash THEN "accept" ELSE "reject"
  /\ UNCHANGED <<fixed, e, signVars, got, genuine, vchallenges, vopen, vroots>>

-----------------------------------------------------------------------------
Sign == \/ StandardSetup \/ NfprSetup \/ StandardCommit \/ NfprCommit \/ MpcChallenge
        \/ StandardSimulate \/ NfprSimulate \/ ViewChallenge \/ StandardBuild \/ NfprBuild
Transmit == DeliverGenuine \/ DeliverOtherHeader \/ DeliverOtherProof
Verify == \/ StandardParse \/ NfprParse \/ ExpandMpcChallenge
          \/ StandardRecover \/ NfprRecover \/ Compare

\* The functions have returned.
Stopped == pc \in {"done", "failed"} /\ UNCHANGED vars

Next == Sign \/ Transmit \/ Verify \/ Stopped
Spec == Init /\ [][Next]_vars

-----------------------------------------------------------------------------
(* Properties. *)

\* The verifier of a genuine signature recomputes the roots that the signer hashed:
\* turning the protocol round gives back the shares of the open parties, the party
\* at infinity included, which has neither the witness nor the public constants.
SameRoots == genuine /\ pc = "compare" => vroots = roots

\* The buffer of the signature and the one of each authentication path, which is
\* filled by a memcpy without a test, are large enough whatever leaves are opened.
SignatureFits ==
  /\ pc # "failed"
  /\ sig # NoDigest => \A x \in Execs : Cardinality(AuthNodes(open[x])) <= build.maxOpen

\* What the verifier learns, the plain broadcast, the broadcasts of the coefficients
\* and the shares of the open parties, does not single out the witness: each
\* solution of the equation explains it by some randomness of the signer.
WitnessIndistinguishable ==
  sig # NoDigest =>
    \A w \in {w \in Field : F(key.A * w * w + key.b * w) = inst.y}, x \in Execs :
      \E coeffWits \in [Ranks -> Field] :
        LET ch == At(challenges, x)
            alpha == At(alphas, x)
            unif == F(alpha - Alpha(ch, [wit |-> w, unif |-> 0, corr |-> 0], inst))
            secret == [wit |-> w, unif |-> unif, corr |-> Correlated(w, unif)]
            coeffs == [p \in Ranks |->
              ShareFromBroadcast(ch, coeffWits[p], br[x][p], alpha, inst, FALSE)]
        IN  \A p \in Ranks :
              CompleteShare(secret, coeffs, Eval(Member(open[x], p)))
                = roots[x].leaves[Member(open[x], p)].share

\* The verifier accepts the signature that was sent, and no other.
Stage == CASE pc = "sent" -> "sent"
           [] pc \in {"parse", "expand", "recover", "compare"} -> "received"
           [] pc = "done" -> "judged"
           [] OTHER -> "signing"
Scheme == INSTANCE SignatureScheme WITH stage <- Stage
SchemeSpec == Scheme!SchemeSpec
===============================================================================
