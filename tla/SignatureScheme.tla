---------------------------- MODULE SignatureScheme ----------------------------
(***************************************************************************)
(* What a signature scheme promises to its users: the signer produces a    *)
(* signature, it reaches the verifier as it was sent or not, and the       *)
(* verifier accepts it in the first case and rejects it in the second.     *)
(***************************************************************************)

VARIABLES stage,    \* "signing", "sent", "received", "judged"
          genuine,  \* the message and signature received are those sent
          verdict   \* "none", "accept" or "reject"

schemeVars == <<stage, genuine, verdict>>

Idle ==
  /\ stage = "signing"
  /\ genuine = TRUE
  /\ verdict = "none"

Produce ==
  /\ stage = "signing"
  /\ stage' = "sent"
  /\ UNCHANGED <<genuine, verdict>>

Receive ==
  /\ stage = "sent"
  /\ stage' = "received"
  /\ genuine' \in BOOLEAN
  /\ UNCHANGED verdict

Judge ==
  /\ stage = "received"
  /\ stage' = "judged"
  /\ verdict' = IF genuine THEN "accept" ELSE "reject"
  /\ UNCHANGED genuine

Act == Produce \/ Receive \/ Judge

SchemeSpec == Idle /\ [][Act]_schemeVars
=============================================================================
