------------------------------ MODULE ByteStream ------------------------------
(***************************************************************************)
(* What the callers of byte_sample and prg_sample rely on: a seed stands   *)
(* for one stream of bytes, and each call returns the next bytes of it,    *)
(* whatever the sizes of the calls before.  Signer and verifier cut the    *)
(* same stream in different pieces.                                        *)
(*                                                                         *)
(* A byte is named by its position in the stream.                          *)
(***************************************************************************)
EXTENDS Integers

CONSTANTS Lengths,   \* the lengths a caller may ask for
          MaxTotal   \* bound on the bytes read from a seed

VARIABLES position,  \* of the next byte
          out        \* the bytes of the last call

streamVars == <<position, out>>

Start ==
  /\ position = 0
  /\ out = [k \in {} |-> 0]

Restart ==
  /\ position' = 0
  /\ out' = out

Read(n) ==
  /\ position + n <= MaxTotal
  /\ out' = [k \in 0..(n - 1) |-> position + k]
  /\ position' = position + n

Step == Restart \/ \E n \in Lengths : Read(n)

StreamSpec == Start /\ [][Step]_streamVars
=============================================================================
