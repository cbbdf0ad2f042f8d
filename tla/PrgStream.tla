------------------------------- MODULE PrgStream ------------------------------
(***************************************************************************)
(* The pseudo-random generator of sym/drbg/aes/rnd.c.  AES in counter mode *)
(* yields blocks of BlockSize bytes; prg_sample keeps what a call has left *)
(* of its last block in ctx->source, for the next one.                     *)
(*                                                                         *)
(* A byte of the stream is named by its position, a block by its number.   *)
(* The contexts of a four-way generator are four independent ones.         *)
(***************************************************************************)
EXTENDS Integers

CONSTANTS BlockSize, \* 64
          Lengths,   \* the values of outlen
          MaxTotal   \* bound on the bytes read from a seed

ASSUME BlockSizeAssumption == BlockSize \in Nat \ {0}
ASSUME LengthsAssumption == Lengths \subseteq Nat /\ MaxTotal \in Nat

VARIABLES
  blocks,     \* the blocks squeezed so far: ctx->state
  source,     \* the block in ctx->source
  remaining,  \* ctx->remaining
  total,      \* history: the bytes returned since the initialisation
  out         \* the bytes the last call has returned

vars == <<blocks, source, remaining, total, out>>

Init ==
  /\ blocks = 0 /\ remaining = 0 /\ total = 0
  /\ source = 0  \* uninitialised
  /\ out = [k \in {} |-> 0]

\* prg_init_with_seed_material: the generator starts with a seed.
PrgInit ==
  /\ blocks' = 0
  /\ remaining' = 0
  /\ total' = 0
  /\ UNCHANGED <<source, out>>

-----------------------------------------------------------------------------
(* prg_sample. *)

\* nb_copied, the bytes taken from the previous block.
Copied(outlen) ==
  IF remaining = 0 THEN 0 ELSE IF outlen < remaining THEN outlen ELSE remaining

\* The whole blocks and the bytes of a last one that are squeezed for the others.
Whole(outlen) == (outlen - Copied(outlen)) \div BlockSize
Rest(outlen)  == (outlen - Copied(outlen)) % BlockSize

ByteAt(block, k) == block * BlockSize + k

\* Byte k of the output: from the block in the context, from the whole blocks, from
\* the last block.
BufferedFromStart(k) == ByteAt(source, k)
Buffered(k) == ByteAt(source, BlockSize - remaining + k)
OutByte(outlen, k) ==
  IF k < Copied(outlen) THEN Buffered(k)
  ELSE IF k < outlen - Rest(outlen) THEN ByteAt(blocks, k - Copied(outlen))
  ELSE ByteAt(blocks + Whole(outlen), k - (outlen - Rest(outlen)))

HasRestAlways(outlen) == TRUE
HasRest(outlen) == Rest(outlen) > 0

LeftoverIsRest(outlen) == Rest(outlen)
Leftover(outlen) == BlockSize - Rest(outlen)

PrgSample(outlen) ==
  /\ total + outlen <= MaxTotal
  /\ out' = [k \in 0..(outlen - 1) |-> OutByte(outlen, k)]
  /\ IF HasRest(outlen)
     THEN /\ blocks' = blocks + Whole(outlen) + 1
          /\ source' = blocks + Whole(outlen)
          /\ remaining' = Leftover(outlen)
     ELSE /\ blocks' = blocks + Whole(outlen)
          /\ source' = source
          /\ remaining' = remaining - Copied(outlen)
  /\ total' = total + outlen

Next == PrgInit \/ \E outlen \in Lengths : PrgSample(outlen)

Spec == Init /\ [][Next]_vars

-----------------------------------------------------------------------------
(* Properties. *)

\* Type invariant.
TypeOK ==
  /\ blocks \in Nat /\ source \in Nat /\ total \in Nat
  /\ remaining \in 0..(BlockSize - 1)

\* The bytes kept in the context are the last of the last block squeezed: none is
\* skipped, none is given twice.
BufferInv ==
  /\ remaining = blocks * BlockSize - total
  /\ remaining > 0 => source = blocks - 1

\* The generator is a stream of bytes.
Stream == INSTANCE ByteStream WITH position <- total
StreamSpec == Stream!StreamSpec
=============================================================================
