------------------------------- MODULE Protocols -------------------------------
(***************************************************************************)
(* One run of a problem's key generation and multiparty protocol, as       *)
(* generate_instance_with_solution, compute_correlated,                    *)
(* mpc_compute_plain_broadcast, mpc_compute_communications and             *)
(* mpc_compute_communications_inverse are called by the signatures: a key  *)
(* is drawn, its solution and its uniform part are shared additively, one  *)
(* share carries the public constants, the plain broadcast is computed     *)
(* and carried through its compressed form, then every party computes its  *)
(* own broadcast, one after the other, and a party's share is found again  *)
(* from its witness part and its broadcast.                                *)
(***************************************************************************)
EXTENDS Fields, TLC

CONSTANTS
  \* The functions of a scheme, the first argument: witness.h and mpc.h.
  Key(_, _),                       \* generate_instance_with_solution, on what is drawn
  IsCorrectSolution(_, _, _),      \* instance, solution
  Correlated(_, _, _, _, _),       \* challenge, witness, uniform part, instance
  Run(_, _, _, _, _, _, _),        \* challenge, share, plain broadcast, instance, offset, entire
  HasInverse(_),                   \* the schemes whose shares are found again
  ShareFrom(_, _, _, _, _, _, _),  \* challenge, share, broadcast, plain one, instance, offset
  Cases,                           \* the schemes and their randomness, a sequence of records
  Parties,                         \* the parties, 1..n
  Mask(_, _, _, _, _)              \* random coefficients: ground field, party, member, index, coefficient

ASSUME PartiesAssumption == Parties = 1..Cardinality(Parties) /\ Parties # {}

VARIABLES
  scheme,      \* the scheme that runs, with its randomness
  step,        \* "key", "share", "plain", "run"
  key,         \* instance and solution
  input,       \* the plain share
  shares,      \* the share of every party
  holder,      \* the party whose share carries the public constants
  plain,       \* the plain broadcast
  broadcasts,  \* the broadcasts of the first parties
  restored     \* the shares found again of the first parties
vars == <<scheme, step, key, input, shares, holder, plain, broadcasts, restored>>

P  == scheme.P
Ch == scheme.ch

-----------------------------------------------------------------------------
(* Shares and broadcasts are added member by member.                       *)

Minus(s, t) ==
  [m \in DOMAIN s |-> Tuple([k \in 1..Len(s[m]) |->
     Tuple([e \in 1..Len(s[m][k]) |-> GSub(P.F.g, s[m][k][e], t[m][k][e])])])]
RandomShare(i) ==
  [m \in DOMAIN input |-> Tuple([k \in 1..Len(input[m]) |->
     Tuple([e \in 1..Len(input[m][k]) |-> Mask(P.F.g, i, m, k, e)])])]
SumTo(f, n) ==
  [m \in DOMAIN f[1] |-> Tuple([k \in 1..Len(f[1][m]) |->
     Tuple([e \in 1..Len(f[1][m][k]) |-> GSum(P.F.g, [i \in 1..n |-> f[i][m][k][e]], n)])])]
N == Cardinality(Parties)
\* Random shares, and what is left for the last party.
Shares ==
  LET random == Tuple([i \in 1..(N - 1) |-> RandomShare(i)])
  IN Append(random, IF N = 1 THEN input ELSE Minus(input, SumTo(random, N - 1)))
\* compress_plain_broadcast then uncompress_plain_broadcast: v does not travel.
Uncompressed(br) == [br EXCEPT !.v = Tuple([k \in 1..Len(br.v) |->
                                              Tuple([e \in 1..Len(br.v[k]) |-> GZero(P.F.g)])])]

-----------------------------------------------------------------------------
None == <<>>
Init == /\ \E i \in DOMAIN Cases : scheme = Cases[i]
        /\ step = "key"
        /\ key = None /\ input = None /\ shares = None /\ plain = None
        /\ holder \in Parties
        /\ broadcasts = None /\ restored = None

GenerateKey ==
  /\ step = "key"
  /\ key' = Key(P, scheme.draw)
  /\ step' = "share"
  /\ UNCHANGED <<scheme, input, shares, holder, plain, broadcasts, restored>>

ShareInput ==
  /\ step = "share"
  /\ IF input = None
     THEN /\ input' = key.sol @@ scheme.unif @@ Correlated(P, Ch, key.sol, scheme.unif, key.inst)
          /\ UNCHANGED <<step, shares>>
     ELSE /\ shares' = Shares
          /\ step' = "plain"
          /\ UNCHANGED input
  /\ UNCHANGED <<scheme, key, holder, plain, broadcasts, restored>>

ComputePlainBroadcast ==
  /\ step = "plain"
  /\ plain' = Uncompressed(Run(P, Ch, input, None, key.inst, TRUE, FALSE))
  /\ step' = "run"
  /\ UNCHANGED <<scheme, key, input, shares, holder, broadcasts, restored>>

ComputeCommunications ==
  LET i == Len(broadcasts) + 1 IN
  /\ step = "run" /\ i \in Parties
  /\ broadcasts' = Append(broadcasts, Run(P, Ch, shares[i], plain, key.inst, i = holder, TRUE))
  /\ UNCHANGED <<scheme, step, key, input, shares, holder, plain, restored>>

InvertCommunications ==
  LET i == Len(restored) + 1 IN
  /\ HasInverse(P) /\ i <= Len(broadcasts)
  /\ restored' = Append(restored, ShareFrom(P, Ch, shares[i], broadcasts[i], plain, key.inst, i = holder))
  /\ UNCHANGED <<scheme, step, key, input, shares, holder, plain, broadcasts>>

Next == GenerateKey \/ ShareInput \/ ComputePlainBroadcast \/ ComputeCommunications \/ InvertCommunications
Spec == Init /\ [][Next]_vars

-----------------------------------------------------------------------------
\* A key that was drawn passes the test of is_correct_solution: the extended
\* witness of every scheme is a solution of its own instance.
KeysAreSolutions == key # None => IsCorrectSolution(P, key.inst, key.sol)

\* When every party has computed its broadcast, whichever share carries the public
\* constants, the broadcasts add up to the plain one, check value zero included: what
\* the signer commits to, and what the verifier subtracts from for the party it does
\* not see.
BroadcastsAddUp ==
  DOMAIN broadcasts = Parties => SumTo(broadcasts, N) = plain

\* The share found again from its witness part and its broadcast is the share the
\* party computed the broadcast from.
InverseRestores ==
  \A i \in DOMAIN restored : \A m \in DOMAIN restored[i] : restored[i][m] = shares[i][m]
=============================================================================
