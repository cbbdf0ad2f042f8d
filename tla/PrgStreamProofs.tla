---------------------------- MODULE PrgStreamProofs ----------------------------
(***************************************************************************)
(* Proofs about PrgStream, for every size of the blocks and every sequence *)
(* of calls.                                                               *)
(***************************************************************************)
EXTENDS PrgStream, TLAPS

Inv == TypeOK /\ BufferInv

LEMMA Division ==
  ASSUME NEW n \in Nat, NEW b \in Nat \ {0}
  PROVE  /\ n \div b \in Nat /\ n % b \in Nat
         /\ n = (n \div b) * b + (n % b) /\ n % b < b
<1>1. n % b \in 0..(b - 1) BY Z3
<1>2. n \div b \in Nat BY SMT
<1>3. n = b * (n \div b) + (n % b) BY Z3
<1>4. b * (n \div b) = (n \div b) * b BY <1>2
<1> QED BY <1>1, <1>2, <1>3, <1>4

\* How a call is cut: in bytes of the previous block, whole blocks, and bytes of a
\* last block.
LEMMA Cut ==
  ASSUME Inv, NEW outlen \in Nat
  PROVE  /\ Copied(outlen) \in Nat /\ Copied(outlen) <= remaining /\ Copied(outlen) <= outlen
         /\ Copied(outlen) < outlen => Copied(outlen) = remaining
         /\ Whole(outlen) \in Nat /\ Rest(outlen) \in Nat /\ Rest(outlen) < BlockSize
         /\ outlen = Copied(outlen) + Whole(outlen) * BlockSize + Rest(outlen)
         /\ Whole(outlen) * BlockSize \in Nat
         /\ Copied(outlen) = outlen => Whole(outlen) = 0 /\ Rest(outlen) = 0
<1>1. BlockSize \in Nat \ {0} /\ remaining \in Nat
  BY BlockSizeAssumption DEF Inv, TypeOK
<1>2. /\ Copied(outlen) \in Nat /\ Copied(outlen) <= remaining /\ Copied(outlen) <= outlen
      /\ Copied(outlen) < outlen => Copied(outlen) = remaining
  BY <1>1 DEF Copied
<1>3. outlen - Copied(outlen) \in Nat
  BY <1>2
<1>4. /\ Whole(outlen) \in Nat /\ Rest(outlen) \in Nat /\ Rest(outlen) < BlockSize
      /\ outlen - Copied(outlen) = Whole(outlen) * BlockSize + Rest(outlen)
  BY <1>1, <1>3, Division DEF Whole, Rest
<1>5. Whole(outlen) * BlockSize \in Nat
  BY <1>1, <1>4
<1>6. Copied(outlen) = outlen => Whole(outlen) = 0 /\ Rest(outlen) = 0
  <2> SUFFICES ASSUME Copied(outlen) = outlen PROVE Whole(outlen) = 0 /\ Rest(outlen) = 0
    OBVIOUS
  <2>1. Whole(outlen) * BlockSize = 0 /\ Rest(outlen) = 0
    BY <1>2, <1>4, <1>5
  <2> QED BY <1>1, <1>4, <2>1
<1> QED BY <1>2, <1>4, <1>5, <1>6

LEMMA InitInv == Init => Inv
BY BlockSizeAssumption DEF Init, Inv, TypeOK, BufferInv

LEMMA SampleInv ==
  ASSUME Inv, NEW outlen \in Nat, PrgSample(outlen)
  PROVE  Inv'
<1>1. /\ BlockSize \in Nat \ {0} /\ blocks \in Nat /\ source \in Nat /\ total \in Nat
      /\ remaining \in Nat /\ remaining < BlockSize
      /\ remaining = blocks * BlockSize - total
  BY BlockSizeAssumption DEF Inv, TypeOK, BufferInv
<1> DEFINE c == Copied(outlen)
           w == Whole(outlen)
           r == Rest(outlen)
<1>2. /\ c \in Nat /\ c <= remaining /\ c <= outlen /\ (c < outlen => c = remaining)
      /\ w \in Nat /\ r \in Nat /\ r < BlockSize /\ w * BlockSize \in Nat
      /\ outlen = c + w * BlockSize + r
      /\ c = outlen => w = 0 /\ r = 0
  BY Cut
<1>3. total' = total + outlen
  BY DEF PrgSample
<1>4. CASE r > 0
  <2>1. blocks' = blocks + w + 1 /\ source' = blocks + w /\ remaining' = BlockSize - r
    BY <1>4 DEF PrgSample, HasRest, Leftover
  <2> HIDE DEF c, w, r
  <2>2. c = remaining
    BY <1>2, <1>4
  <2>3. (blocks + w + 1) * BlockSize = blocks * BlockSize + w * BlockSize + BlockSize
    BY <1>1, <1>2
  <2>4. remaining' = blocks' * BlockSize - total'
    BY <1>1, <1>2, <1>3, <2>1, <2>2, <2>3
  <2> QED BY <1>1, <1>2, <1>3, <1>4, <2>1, <2>4 DEF Inv, TypeOK, BufferInv
<1>5. CASE ~(r > 0)
  <2>1. blocks' = blocks + w /\ source' = source /\ remaining' = remaining - c
    BY <1>5 DEF PrgSample, HasRest
  <2>0. remaining > 0 => source = blocks - 1
    BY DEF Inv, BufferInv
  <2> HIDE DEF c, w, r
  <2>2. (blocks + w) * BlockSize = blocks * BlockSize + w * BlockSize
    BY <1>1, <1>2
  <2>3. remaining' = blocks' * BlockSize - total'
    BY <1>1, <1>2, <1>3, <1>5, <2>1, <2>2
  <2>4. remaining' > 0 => source' = blocks' - 1
    BY <1>1, <1>2, <2>0, <2>1
  <2> QED BY <1>1, <1>2, <1>3, <2>1, <2>3, <2>4 DEF Inv, TypeOK, BufferInv
<1> QED BY <1>2, <1>4, <1>5

LEMMA NextInv == Inv /\ [Next]_vars => Inv'
<1> SUFFICES ASSUME Inv, [Next]_vars PROVE Inv'
  OBVIOUS
<1>1. CASE PrgInit
  BY <1>1, BlockSizeAssumption DEF PrgInit, Inv, TypeOK, BufferInv
<1>2. CASE \E outlen \in Lengths : PrgSample(outlen)
  BY <1>2, LengthsAssumption, SampleInv
<1>3. CASE UNCHANGED vars
  BY <1>3 DEF vars, Inv, TypeOK, BufferInv
<1> QED BY <1>1, <1>2, <1>3 DEF Next

\* The context of the generator always holds the bytes that follow the last one that
\* was returned.
THEOREM Buffering == Spec => [](TypeOK /\ BufferInv)
BY InitInv, NextInv, PTL DEF Spec, Inv

\* What remains in the context is always less than a block, and the counters of
\* blocks and bytes stay natural numbers, whatever the calls.
THEOREM Typing == Spec => []TypeOK
BY Buffering, PTL

\* A call returns the next bytes of the stream.
LEMMA SampleReads ==
  ASSUME Inv, NEW outlen \in Nat, PrgSample(outlen)
  PROVE  Stream!Read(outlen)
<1>1. /\ BlockSize \in Nat \ {0} /\ blocks \in Nat /\ source \in Nat /\ total \in Nat
      /\ remaining \in Nat /\ remaining < BlockSize
      /\ remaining = blocks * BlockSize - total
      /\ remaining > 0 => source = blocks - 1
  BY BlockSizeAssumption DEF Inv, TypeOK, BufferInv
<1> DEFINE c == Copied(outlen)
           w == Whole(outlen)
           r == Rest(outlen)
<1>2. /\ c \in Nat /\ c <= remaining /\ c <= outlen /\ (c < outlen => c = remaining)
      /\ w \in Nat /\ r \in Nat /\ r < BlockSize /\ w * BlockSize \in Nat
      /\ outlen = c + w * BlockSize + r
  BY Cut
<1>3. ASSUME NEW k \in 0..(outlen - 1) PROVE OutByte(outlen, k) = total + k
  <2>1. CASE k < c
    <3>1. OutByte(outlen, k) = source * BlockSize + (BlockSize - remaining + k)
      BY <2>1 DEF OutByte, Buffered, ByteAt
    <3>2. source = blocks - 1
      BY <1>1, <1>2, <2>1
    <3>3. (blocks - 1) * BlockSize = blocks * BlockSize - BlockSize
      BY <1>1
    <3> QED BY <1>1, <3>1, <3>2, <3>3
  <2>2. CASE ~(k < c) /\ k < outlen - r
    <3>1. OutByte(outlen, k) = blocks * BlockSize + (k - c)
      BY <2>2 DEF OutByte, ByteAt
    <3> HIDE DEF c, w, r
    <3>2. c = remaining
      BY <1>2, <2>2
    <3> QED BY <1>1, <1>2, <3>1, <3>2
  <2>3. CASE ~(k < c) /\ ~(k < outlen - r)
    <3>1. OutByte(outlen, k) = (blocks + w) * BlockSize + (k - (outlen - r))
      BY <2>3 DEF OutByte, ByteAt
    <3> HIDE DEF c, w, r
    <3>2. c = remaining
      BY <1>2, <2>3
    <3>3. (blocks + w) * BlockSize = blocks * BlockSize + w * BlockSize
      BY <1>1, <1>2
    <3> QED BY <1>1, <1>2, <3>1, <3>2, <3>3
  <2> QED BY <2>1, <2>2, <2>3
<1> QED BY <1>3 DEF PrgSample, Stream!Read

\* The generator of AES blocks implements a stream of bytes: what a seed expands to
\* does not depend on how its bytes are asked for.
THEOREM PrgIsStream == Spec => StreamSpec
<1>1. Init => Stream!Start
  BY DEF Init, Stream!Start
<1>2. Inv /\ [Next]_vars => [Stream!Step]_(Stream!streamVars)
  <2> SUFFICES ASSUME Inv, [Next]_vars PROVE Stream!Step \/ UNCHANGED Stream!streamVars
    OBVIOUS
  <2>1. CASE PrgInit
    BY <2>1 DEF PrgInit, Stream!Step, Stream!Restart
  <2>2. CASE \E outlen \in Lengths : PrgSample(outlen)
    <3>1. PICK outlen \in Lengths : PrgSample(outlen)
      BY <2>2
    <3> QED BY <3>1, LengthsAssumption, SampleReads DEF Stream!Step
  <2>3. CASE UNCHANGED vars
    BY <2>3 DEF vars, Stream!streamVars
  <2> QED BY <2>1, <2>2, <2>3 DEF Next
<1>3. Spec => []Inv
  BY InitInv, NextInv, PTL DEF Spec
<1> QED BY <1>1, <1>2, <1>3, PTL DEF Spec, StreamSpec, Stream!StreamSpec
=============================================================================
