------------------------------ MODULE MqProtocol ------------------------------
(***************************************************************************)
(* The multiparty protocol of mpc/mq/fen22/mpc.c, by which the parties     *)
(* check that their shared input x solves a quadratic equation             *)
(* y = A x^2 + b x: an instance of the interface every problem implements  *)
(* (compute_correlated, mpc_compute_plain_broadcast,                       *)
(* mpc_compute_communications).  There is one equation in one unknown over *)
(* the integers modulo the prime Q: what the signature needs of the        *)
(* protocol is that a broadcast is an affine function of the share.        *)
(***************************************************************************)
EXTENDS Integers

CONSTANT Q  \* the size of the field

F(x) == x % Q
Field == 0..(Q - 1)

ASSUME FieldAssumption ==
  /\ Q \in Nat /\ Q >= 2
  /\ \A x \in Field \ {0} : \E y \in Field : F(x * y) = 1

\* vec_share_t: the witness, a uniform value and a correlated value.
Share == [wit : Field, unif : Field, corr : Field]
ZeroShare == [wit |-> 0, unif |-> 0, corr |-> 0]
Plus(s, t) == [wit |-> F(s.wit + t.wit), unif |-> F(s.unif + t.unif), corr |-> F(s.corr + t.corr)]
Times(k, s) == [wit |-> F(k * s.wit), unif |-> F(k * s.unif), corr |-> F(k * s.corr)]

\* instance_t, for which x is a solution.
Instance(A, b, x) == [A |-> A, b |-> b, y |-> F(A * x * x + b * x)]

\* vec_challenge_t.
Challenge == [gamma : Field, eps : Field]

Correlated(x, a) == F(-(x * a))

Alpha(ch, s, inst) == F(ch.eps * ch.gamma * inst.A * s.wit + s.unif)

\* vec_broadcast_t.  The offset is the public constant y, which is added to one share
\* of a sharing only.
Broadcast(ch, s, alpha, inst, hasOffset) ==
  LET z == (IF hasOffset THEN inst.y ELSE 0) - inst.b * s.wit
  IN  [alpha |-> Alpha(ch, s, inst),
       v     |-> F(ch.eps * ch.gamma * z - s.corr - s.wit * alpha)]

\* mpc_compute_communications_inverse: the share of a party, from its witness part and
\* from what it broadcasts.
ShareFromBroadcast(ch, wit, br, alpha, inst, hasOffset) ==
  LET z == (IF hasOffset THEN inst.y ELSE 0) - inst.b * wit
  IN  [wit  |-> wit,
       unif |-> F(br.alpha - ch.eps * ch.gamma * inst.A * wit),
       corr |-> F(ch.eps * ch.gamma * z - br.v - wit * alpha)]

\* The plain broadcast, without what is zero when x is a solution: this is what the
\* signature carries, and what the verifier uncompresses.
PlainBroadcast(alpha) == [alpha |-> alpha, v |-> 0]

BrPlus(b, c) == [alpha |-> F(b.alpha + c.alpha), v |-> F(b.v + c.v)]
BrTimes(k, b) == [alpha |-> F(k * b.alpha), v |-> F(k * b.v)]
BrMinus(b, c) == BrPlus(b, BrTimes(-1, c))
=============================================================================
