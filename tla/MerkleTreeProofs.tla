--------------------------- MODULE MerkleTreeProofs ---------------------------
(***************************************************************************)
(* Proofs about MerkleTree, for every number of leaves and of open leaves: *)
(* the types, the queue of the loop that signer and verifier share, what   *)
(* build_merkle_tree builds, what open_merkle_tree reveals, and what       *)
(* get_merkle_root_from_auth computes from the leaves and the              *)
(* authentication nodes it is given.                                       *)
(***************************************************************************)
EXTENDS MerkleTree, TLAPS, FiniteSetTheorems, FunctionTheorems, SequenceTheorems,
        WellFoundedInduction

-----------------------------------------------------------------------------
(* Node n is a child of node n div 2; its ancestors are its quotients by   *)
(* the powers of two.                                                      *)

LEMMA Halves ==
  ASSUME NEW n \in Nat
  PROVE  /\ n \div 2 \in Nat /\ n % 2 \in {0, 1} /\ n = 2 * (n \div 2) + (n % 2)
         /\ n >= 1 => n \div 2 < n
         /\ n >= 2 => n \div 2 >= 1
OBVIOUS

\* The quotients of a number by powers of two.
LEMMA Quotients ==
  ASSUME NEW n \in Nat, NEW m \in Nat \ {0}
  PROVE  /\ n \div m \in Nat /\ (n \div m) \div 2 = n \div (2 * m)
         /\ \A q \in Nat : (q * m <= n <=> q <= n \div m)
<1> DEFINE a == n \div m
           r == n - m * a
<1>1. a \in Nat
  BY SMT
<1>2. r \in 0..(m - 1) /\ n = m * a + r
  <2>1. n % m \in 0..(m - 1) /\ n = m * (n \div m) + (n % m)
    BY Z3
  <2>2. m * a \in Nat
    BY <1>1
  <2> QED BY <2>1, <2>2
<1> HIDE DEF a, r
<1>3. ASSUME NEW q \in Nat PROVE q * m <= n <=> q <= a
  <2>1. CASE q <= a
    <3>1. PICK d \in Nat : a = q + d
      BY <1>1, <2>1, a - q \in Nat
    <3>2. m * a = q * m + m * d /\ m * d \in Nat /\ q * m \in Nat
      BY <3>1
    <3> QED BY <1>2, <2>1, <3>2
  <2>2. CASE ~(q <= a)
    <3>1. PICK d \in Nat : q = a + 1 + d
      BY <1>1, <2>2, q - a - 1 \in Nat
    <3>2. q * m = m * a + m + m * d /\ m * d \in Nat /\ m * a \in Nat
      BY <1>1, <3>1
    <3> QED BY <1>2, <2>2, <3>2
  <2> QED BY <2>1, <2>2
<1>4. a \div 2 = n \div (2 * m)
  <2>1. PICK h \in Nat, b \in {0, 1} : a = 2 * h + b
    BY <1>1, Halves
  <2>2. n = 2 * m * h + (m * b + r) /\ m * b + r \in 0..(2 * m - 1)
    <3>1. CASE b = 0
      <4>1. m * a = 2 * m * h /\ m * b = 0
        BY <2>1, <3>1
      <4> QED BY <1>2, <4>1
    <3>2. CASE b = 1
      <4>1. m * a = 2 * m * h + m /\ m * b = m
        BY <2>1, <3>2
      <4> QED BY <1>2, <4>1
    <3> QED BY <3>1, <3>2
  <2>3. ASSUME NEW x \in Nat, NEW y \in Nat, NEW p \in Nat \ {0}, y < p
        PROVE  (p * x + y) \div p = x
    BY <2>3, Z3
  <2>4. n \div (2 * m) = h
    <3>1. n = (2 * m) * h + (m * b + r) /\ 2 * m \in Nat \ {0}
      BY <2>2
    <3> QED BY <2>2, <2>3, <3>1
  <2>5. a \div 2 = h
    BY <2>1
  <2> QED BY <2>4, <2>5
<1> QED BY <1>1, <1>3, <1>4 DEF a

\* A nonempty set of natural numbers has a least element.
LEMMA Least == ASSUME NEW T, T \subseteq Nat, T # {} PROVE \E x \in T : \A y \in T : x <= y
<1> DEFINE R == {ss \in Nat \X Nat : ss[1] < ss[2]}
<1>1. IsWellFoundedOn(R, Nat)
  BY NatLessThanWellFounded DEF OpToRel
<1>2. PICK x \in T : \A y \in T : <<y, x>> \notin R
  BY <1>1, WFMin
<1>3. ASSUME NEW y \in T PROVE x <= y
  <2>1. <<y, x>> \notin R /\ x \in Nat /\ y \in Nat
    BY <1>2
  <2>2. ~(y < x)
    BY <2>1
  <2> QED BY <2>1, <2>2
<1> QED BY <1>3

-----------------------------------------------------------------------------

LEMMA MaxHeightIsNat == MaxHeight \in Nat
BY DEF MaxHeight

LEMMA WidthFits == /\ UintBits \in Nat
                   /\ 2^UintBits \in Nat
                   /\ 2^UintBits <= 65536
BY MaxHeightIsNat, UintBitsAssumption, PowersOfTwo

\* The height malloc_merkle_tree computes is the least that has room for the
\* leaves.
LEMMA HeightFits ==
  ASSUME NEW n \in 1..(2^UintBits - 1)
  PROVE  /\ CeilLog2(n) \in 0..MaxHeight
         /\ 2^CeilLog2(n) >= n
         /\ CeilLog2(n) = 0 \/ 2^(CeilLog2(n) - 1) < n
<1> DEFINE P(d) == 2^d >= n /\ (d = 0 \/ 2^(d-1) < n)
<1>1. n \in Nat \ {0} /\ n <= 65536
  BY WidthFits
<1>2. \E d \in 0..MaxHeight : P(d)
  BY <1>1, MaxHeightIsNat, PowersOfTwo
<1>3. CeilLog2(n) = CHOOSE d \in 0..MaxHeight : P(d)
  <2>1. n # 0 BY <1>1
  <2> QED BY <2>1, Zenon DEF CeilLog2
<1> HIDE DEF P
<1>4. CeilLog2(n) \in 0..MaxHeight /\ P(CeilLog2(n))
  BY <1>2, <1>3, Zenon
<1> QED BY <1>4 DEF P

LEMMA ModBound ==
  ASSUME NEW x \in Nat, NEW y \in Nat, y > 0
  PROVE  x % y \in Nat /\ x % y < y /\ (x < y => x % y = x)
OBVIOUS

LEMMA DivBounds ==
  \A x \in Nat : /\ x \div 2 \in Nat
                 /\ 2 * (x \div 2) <= x /\ x <= 2 * (x \div 2) + 1
                 /\ x % 2 \in {0, 1} /\ x = 2 * (x \div 2) + (x % 2)
OBVIOUS

-----------------------------------------------------------------------------
(* Types.  StrongTypeOK adds what keeps the types: the tree has the height *)
(* that malloc_merkle_tree computed.                                       *)

HeightInv == IF pc = "malloc" THEN height = 0 ELSE height = CeilLog2(nbLeaves)

StrongTypeOK == TypeOK /\ HeightInv

LEMMA InitType == Init => StrongTypeOK
<1> SUFFICES ASSUME Init PROVE StrongTypeOK
  OBVIOUS
<1>1. PICK sh \in Shapes : nbLeaves = sh[1] /\ nbOpened = sh[2]
  BY DEF Init
<1>2. nbLeaves \in 1..(2^UintBits - 1) /\ nbOpened \in 1..nbLeaves
  BY <1>1, ShapesAssumption
<1>3. nbLeaves \in Nat /\ nbOpened \in Nat /\ 1 <= nbOpened /\ nbOpened <= nbLeaves
  BY <1>2, WidthFits
<1> QED BY <1>2, <1>3, MaxHeightIsNat DEF Init, StrongTypeOK, TypeOK, HeightInv, Phases

\* What the type invariant says of the sizes, as numbers.
LEMMA Sizes ==
  ASSUME StrongTypeOK
  PROVE  /\ nbLeaves \in Nat /\ nbOpened \in Nat
         /\ 1 <= nbOpened /\ nbOpened <= nbLeaves
         /\ 2^height \in Nat /\ 0 < 2^height
         /\ pc # "malloc" => nbLeaves <= 2^height
<1>1. nbLeaves \in Nat /\ nbOpened \in Nat /\ 1 <= nbOpened /\ nbOpened <= nbLeaves
  BY WidthFits DEF StrongTypeOK, TypeOK
<1>2. 2^height \in Nat /\ 0 < 2^height
  BY PowersOfTwo DEF StrongTypeOK, TypeOK
<1>3. pc # "malloc" => nbLeaves <= 2^height
  <2> SUFFICES ASSUME pc # "malloc" PROVE nbLeaves <= 2^height
    OBVIOUS
  <2>1. nbLeaves \in 1..(2^UintBits - 1) /\ height = CeilLog2(nbLeaves)
    BY DEF StrongTypeOK, TypeOK, HeightInv
  <2>2. 2^CeilLog2(nbLeaves) >= nbLeaves
    BY <2>1, HeightFits
  <2> QED BY <2>1, <2>2, <1>1, <1>2
<1> QED BY <1>1, <1>2, <1>3

\* The effect of the loop's common step on the types.
LEMMA ShiftType ==
  ASSUME StrongTypeOK, NEW n \in 1..2, Shift(n), UNCHANGED <<pc, shape, height>>
  PROVE  /\ first' \in Nat /\ last' \in Nat
         /\ leaves' \in [0..(nbOpened' - 1) -> 0..(nbLeaves' - 1)]
         /\ slots' \in [0..(nbOpened' - 1) -> Nat]
         /\ start' \in 0..(nbOpened' - 1) /\ stop' \in 0..(nbOpened' - 1)
<1>1. start \in 0..(nbOpened - 1) /\ stop \in 0..(nbOpened - 1) /\ nbOpened \in Nat
  BY Sizes DEF StrongTypeOK, TypeOK
<1>2. QueueHead \in Nat /\ first \in Nat /\ last \in Nat
  BY <1>1 DEF QueueHead, StrongTypeOK, TypeOK
<1>3. \A i \in 0..(nbOpened - 1) : Wrap(i + 1) \in 0..(nbOpened - 1)
  BY <1>1 DEF Wrap
<1>4. SecondPos \in 0..(nbOpened - 1)
  BY <1>1, <1>3 DEF SecondPos
<1>5. start' \in 0..(nbOpened - 1) /\ stop' \in 0..(nbOpened - 1)
  BY <1>1, <1>3, <1>4 DEF Shift
<1>6. first' \in Nat /\ last' \in Nat
  BY <1>2 DEF Shift, FloorOfHead
<1>7. slots' \in [0..(nbOpened - 1) -> Nat]
  BY <1>1, <1>2, SMTT(30) DEF Shift, StrongTypeOK, TypeOK
<1> QED BY <1>5, <1>6, <1>7 DEF Shift, StrongTypeOK, TypeOK, shape

LEMMA StartLoopType ==
  ASSUME StrongTypeOK, NEW base \in Nat,
         NEW indexes \in [0..(nbOpened - 1) -> 0..(nbLeaves - 1)],
         StartLoop(base, indexes), UNCHANGED shape
  PROVE  /\ first' \in Nat /\ last' \in Nat
         /\ leaves' \in [0..(nbOpened' - 1) -> 0..(nbLeaves' - 1)]
         /\ slots' \in [0..(nbOpened' - 1) -> Nat]
         /\ start' \in 0..(nbOpened' - 1) /\ stop' \in 0..(nbOpened' - 1)
<1>1. /\ nbLeaves \in Nat /\ nbOpened \in Nat /\ 1 <= nbOpened /\ nbOpened <= nbLeaves
      /\ nbLeaves' = nbLeaves /\ nbOpened' = nbOpened
  BY Sizes DEF shape
<1>2. \A i \in 0..(nbOpened - 1) : base + indexes[i] \in Nat
  BY <1>1
<1>3. slots' \in [0..(nbOpened - 1) -> Nat]
  BY <1>2 DEF StartLoop
<1> QED BY <1>1, <1>3 DEF StartLoop

LEMMA ShiftKeepsType ==
  ASSUME StrongTypeOK, NEW n \in 1..2, Shift(n), UNCHANGED <<pc, shape, height, level>>,
         DOMAIN queue' = DOMAIN queue, revealed' \in Seq(Nat), used' \in Nat,
         genuine' \in BOOLEAN
  PROVE  StrongTypeOK'
<1>1. UNCHANGED <<pc, nbLeaves, nbOpened, height, level>>
  BY DEF shape
<1> QED BY <1>1, ShiftType DEF StrongTypeOK, TypeOK, HeightInv

LEMMA NextType == StrongTypeOK /\ [Next]_vars => StrongTypeOK'
<1> SUFFICES ASSUME StrongTypeOK, [Next]_vars PROVE StrongTypeOK'
  OBVIOUS
<1> USE DEF Phases
<1>0. /\ nbLeaves \in Nat /\ nbOpened \in Nat /\ 1 <= nbOpened /\ nbOpened <= nbLeaves
      /\ 2^height \in Nat /\ 0 < 2^height
      /\ pc # "malloc" => nbLeaves <= 2^height
  BY Sizes
<1>1. CASE MallocMerkleTree
  <2>1. CeilLog2(nbLeaves) \in 0..MaxHeight
    BY HeightFits DEF StrongTypeOK, TypeOK
  <2> QED BY <1>1, <2>1
          DEF MallocMerkleTree, StrongTypeOK, TypeOK, HeightInv, shape, loopVars, sigVars
<1>2. CASE BuildLeaves
  <2>1. first' = 2^height /\ last' \in Nat
    BY <1>2, <1>0 DEF BuildLeaves, NbNodes
  <2>2. level' \in -1..MaxHeight
    BY <1>2, MaxHeightIsNat DEF BuildLeaves, StrongTypeOK, TypeOK
  <2> QED BY <1>2, <1>0, <2>1, <2>2
          DEF BuildLeaves, StrongTypeOK, TypeOK, HeightInv, shape, sigVars
<1>3. CASE BuildFloor
  <2>1. first' \in Nat /\ last' \in Nat /\ level' \in -1..MaxHeight
    BY <1>3, MaxHeightIsNat DEF BuildFloor, LevelBelow, StrongTypeOK, TypeOK
  <2> QED BY <1>3, <2>1
          DEF BuildFloor, StrongTypeOK, TypeOK, HeightInv, shape, sigVars
<1>4. CASE BuildDone
  BY <1>4 DEF BuildDone, StrongTypeOK, TypeOK, HeightInv, shape, treeVars, loopVars, sigVars
<1>5. CASE OpenStart
  <2>1. PICK indexes \in LeafChoices : StartLoop(2^height, indexes)
    BY <1>5 DEF OpenStart
  <2>2. indexes \in [0..(nbOpened - 1) -> 0..(nbLeaves - 1)]
    BY DEF LeafChoices
  <2>3. UNCHANGED shape
    BY <1>5 DEF OpenStart
  <2> QED BY <1>5, <1>0, <2>1, <2>2, <2>3, StartLoopType
          DEF OpenStart, StrongTypeOK, TypeOK, HeightInv, shape, treeVars, sigVars
<1>6. CASE OpenAlone
  <2>1. Shift(1) /\ UNCHANGED <<pc, shape, height, level>>
    BY <1>6 DEF OpenAlone, treeVars
  <2>2. /\ DOMAIN queue' = DOMAIN queue /\ used' \in Nat
        /\ genuine' \in BOOLEAN /\ revealed' \in Seq(Nat)
    BY <1>6 DEF OpenAlone, StrongTypeOK, TypeOK, sigVars
  <2> QED BY <2>1, <2>2, ShiftKeepsType
<1>7. CASE OpenPaired
  <2>1. Shift(2) /\ UNCHANGED <<pc, shape, height, level>>
    BY <1>7 DEF OpenPaired, treeVars
  <2>2. /\ DOMAIN queue' = DOMAIN queue /\ used' \in Nat
        /\ genuine' \in BOOLEAN /\ revealed' \in Seq(Nat)
    BY <1>7 DEF OpenPaired, StrongTypeOK, TypeOK, sigVars
  <2> QED BY <2>1, <2>2, ShiftKeepsType
<1>8. CASE OpenReveals
  <2>1. QueueHead \in Nat
    BY <1>0 DEF QueueHead, StrongTypeOK, TypeOK
  <2>2. Sibling \in Nat
    BY <2>1 DEF Sibling, IsLeft
  <2>3. revealed' \in Seq(Nat)
    BY <1>8, <2>2 DEF OpenReveals, StrongTypeOK, TypeOK
  <2>4. Shift(1) /\ UNCHANGED <<pc, shape, height, level>>
    BY <1>8 DEF OpenReveals, treeVars
  <2>5. DOMAIN queue' = DOMAIN queue /\ used' \in Nat /\ genuine' \in BOOLEAN
    BY <1>8 DEF OpenReveals, StrongTypeOK, TypeOK, sigVars
  <2> QED BY <2>3, <2>4, <2>5, ShiftKeepsType
<1>9. CASE OpenDone
  BY <1>9 DEF OpenDone, StrongTypeOK, TypeOK, HeightInv, shape, treeVars, loopVars
<1>10. CASE RootStart
  <2>1. UNCHANGED shape /\ StartLoop(U16(2^height), leaves)
    BY <1>10 DEF RootStart
  <2>2. leaves \in [0..(nbOpened - 1) -> 0..(nbLeaves - 1)]
    BY DEF StrongTypeOK, TypeOK
  <2>3. U16(2^height) \in Nat
    BY <1>0, WidthFits, UintBitsAssumption, PowersOfTwo, ModBound DEF U16
  <2>4. DOMAIN queue' = 0..(nbOpened - 1) /\ genuine' \in BOOLEAN
    BY <1>10 DEF RootStart, ReceiveGenuine, ReceiveForgedLeaf, ReceiveForgedAuth,
                 ReceiveShortAuth, OpenLeafDigests
  <2> QED BY <1>10, <2>1, <2>2, <2>3, <2>4, StartLoopType
          DEF RootStart, StrongTypeOK, TypeOK, HeightInv, shape, treeVars
<1>11. CASE RootAlone
  <2>1. Shift(1) /\ UNCHANGED <<pc, shape, height, level>>
    BY <1>11 DEF RootAlone, treeVars
  <2>2. /\ DOMAIN queue' = DOMAIN queue /\ used' \in Nat
        /\ genuine' \in BOOLEAN /\ revealed' \in Seq(Nat)
    BY <1>11 DEF RootAlone, PushDigest, StrongTypeOK, TypeOK, sigVars
  <2> QED BY <2>1, <2>2, ShiftKeepsType
<1>12. CASE RootPaired
  <2>1. Shift(2) /\ UNCHANGED <<pc, shape, height, level>>
    BY <1>12 DEF RootPaired, treeVars
  <2>2. /\ DOMAIN queue' = DOMAIN queue /\ used' \in Nat
        /\ genuine' \in BOOLEAN /\ revealed' \in Seq(Nat)
    BY <1>12 DEF RootPaired, PushDigest, StrongTypeOK, TypeOK, sigVars
  <2> QED BY <2>1, <2>2, ShiftKeepsType
<1>13. CASE RootGiven
  <2>1. Shift(1) /\ UNCHANGED <<pc, shape, height, level>>
    BY <1>13 DEF RootGiven, treeVars
  <2>2. /\ DOMAIN queue' = DOMAIN queue /\ used' \in Nat
        /\ genuine' \in BOOLEAN /\ revealed' \in Seq(Nat)
    BY <1>13 DEF RootGiven, PushDigest, StrongTypeOK, TypeOK, sigVars
  <2> QED BY <2>1, <2>2, ShiftKeepsType
<1>14. CASE RootFails
  BY <1>14 DEF RootFails, StrongTypeOK, TypeOK, HeightInv, shape, treeVars, loopVars, sigVars
<1>15. CASE RootDone
  BY <1>15 DEF RootDone, StrongTypeOK, TypeOK, HeightInv, shape, treeVars, loopVars
<1>16. CASE Stopped \/ UNCHANGED vars
  BY <1>16 DEF Stopped, vars, StrongTypeOK, TypeOK, HeightInv, shape, treeVars, loopVars, sigVars
<1> QED BY <1>1, <1>2, <1>3, <1>4, <1>5, <1>6, <1>7, <1>8, <1>9, <1>10, <1>11, <1>12,
           <1>13, <1>14, <1>15, <1>16 DEF Next, Build, Open, Root

LEMMA StrongTyping == Spec => []StrongTypeOK
BY InitType, NextType, PTL DEF Spec

\* The type invariant of the three functions, for every number of leaves and of
\* open leaves: in particular the positions of the circular queue stay in it.
THEOREM Typing == Spec => []TypeOK
<1>1. StrongTypeOK => TypeOK
  BY DEF StrongTypeOK
<1> QED BY <1>1, StrongTyping, PTL

-----------------------------------------------------------------------------
(* The circular queue is a FIFO queue.                                     *)

\* Popping n nodes and pushing one, in terms of positions of the array.  Two
\* nodes are popped only when the emptiness test start = stop has failed.
LEMMA ShiftPositions ==
  ASSUME StrongTypeOK, NEW n \in 1..2, n = 2 => SecondPos # stop,
         Shift(n), UNCHANGED shape
  PROVE  /\ Count \in 1..nbOpened /\ n <= Count
         /\ Count' = Count - n + 1
         /\ \A k \in 0..(Count - 1) : Pos(k) \in 0..(nbOpened - 1)
         /\ \A k \in 0..(Count - n - 1) : Pos(k)' = Pos(k + n) /\ Pos(k + n) # stop
         /\ Pos(Count - 1)' = stop
<1>1. /\ start \in 0..(nbOpened - 1) /\ stop \in 0..(nbOpened - 1)
      /\ nbOpened \in Nat /\ nbOpened >= 1 /\ nbOpened' = nbOpened
  BY Sizes DEF StrongTypeOK, TypeOK, shape
<1>2. start' = (IF n = 1 THEN SecondPos ELSE Wrap(SecondPos + 1)) /\ stop' = Wrap(stop + 1)
  BY DEF Shift
<1>3. Count \in 1..nbOpened /\ n <= Count
  BY <1>1 DEF Count, SecondPos, Wrap
<1>4. Count' = Count - n + 1
  BY <1>1, <1>2 DEF Count, SecondPos, Wrap
<1>5. \A k \in 0..(Count - 1) : Pos(k) \in 0..(nbOpened - 1)
  BY <1>1, <1>3 DEF Pos
<1>6. ASSUME NEW k \in 0..(Count - n - 1)
      PROVE  Pos(k)' = Pos(k + n) /\ Pos(k + n) # stop
  BY <1>1, <1>2, <1>3 DEF Pos, Count, SecondPos, Wrap
<1>7. Pos(Count - 1)' = stop
  BY <1>1, <1>2, <1>3, <1>4 DEF Pos, Count, SecondPos, Wrap
<1> QED BY <1>3, <1>4, <1>5, <1>6, <1>7

LEMMA ShiftIsFifo ==
  ASSUME StrongTypeOK, NEW n \in 1..2, n = 2 => SecondPos # stop,
         Shift(n), UNCHANGED shape
  PROVE  FifoStep(n)
<1>1. slots' = [slots EXCEPT ![stop] = QueueHead \div 2]
  BY DEF Shift
<1>2. stop \in 0..(nbOpened - 1) /\ slots \in [0..(nbOpened - 1) -> Nat] /\ nbOpened \in Nat
  BY Sizes DEF StrongTypeOK, TypeOK
<1>3. ASSUME NEW k \in 0..(Count - n - 1) PROVE Entry(k)' = Entry(k + n)
  <2>1. Count \in Nat BY ShiftPositions, <1>2
  <2>2. k + n \in 0..(Count - 1) BY <2>1
  <2>3. Pos(k)' = Pos(k + n) /\ Pos(k + n) # stop BY ShiftPositions
  <2>4. Pos(k + n) \in 0..(nbOpened - 1) BY <2>2, ShiftPositions
  <2>5. slots'[Pos(k)'] = slots[Pos(k + n)] BY <1>1, <1>2, <2>3, <2>4
  <2> QED BY <2>5 DEF Entry
<1>4. Entry(Count - 1)' = QueueHead \div 2
  <2>1. Pos(Count - 1)' = stop BY ShiftPositions
  <2>2. slots'[Pos(Count - 1)'] = QueueHead \div 2 BY <1>1, <1>2, <2>1
  <2> QED BY <2>2 DEF Entry
<1> QED BY <1>3, <1>4, ShiftPositions DEF FifoStep

\* Whatever is open, no iteration of the loop loses, duplicates or overwrites a
\* node that is still to be handled.
THEOREM FifoQueue == Spec => QueueIsFifo
<1>1. StrongTypeOK /\ [Next]_vars => [InLoop /\ pc' = pc => FifoStep(1) \/ FifoStep(2)]_vars
  <2> SUFFICES ASSUME StrongTypeOK, Next, InLoop, pc' = pc, vars' # vars
               PROVE  FifoStep(1) \/ FifoStep(2)
    BY DEF vars
  <2>1. CASE OpenAlone \/ OpenReveals \/ RootAlone \/ RootGiven
    <3>1. Shift(1) /\ UNCHANGED shape
      BY <2>1 DEF OpenAlone, OpenReveals, RootAlone, RootGiven
    <3> QED BY <3>1, ShiftIsFifo
  <2>2. CASE OpenPaired \/ RootPaired
    <3>1. Shift(2) /\ UNCHANGED shape /\ SecondPos # stop
      BY <2>2 DEF OpenPaired, RootPaired, Paired, SiblingQueued
    <3> QED BY <3>1, ShiftIsFifo
  <2>3. ~Build /\ ~OpenStart /\ ~OpenDone /\ ~RootStart /\ ~RootFails /\ ~RootDone /\ ~Stopped
    BY DEF InLoop, Build, MallocMerkleTree, BuildLeaves, BuildFloor, BuildDone, OpenStart,
           OpenDone, RootStart, RootFails, RootDone, Stopped, Returned
  <2> QED BY <2>1, <2>2, <2>3 DEF Next, Open, Root
<1> QED BY <1>1, StrongTyping, PTL DEF Spec, QueueIsFifo

-----------------------------------------------------------------------------
(* The order of the queue.  It needs a tree depth that fits in a uint16_t: *)
(* get_merkle_root_from_auth truncates 1 << tree_depth to 16 bits.         *)

WidthIsEnough == \A sh \in Shapes : sh[1] <= 2^(UintBits - 1)

\* The sizes come from Shapes, and the open leaves are sorted from the start of
\* the opening.
InputInv ==
  /\ <<nbLeaves, nbOpened>> \in Shapes
  /\ pc \in {"open", "opened", "root"} => leaves \in LeafChoices

\* The current floor starts at a power of two and is not too long.
FloorInv ==
  InLoop => /\ \E d \in 0..MaxHeight : first = 2^d
            /\ last \in first..(2 * first - 1)

OrderInv == StrongTypeOK /\ InputInv /\ FloorInv /\ QueueOrdered

\* The floor of the head after it has been popped.
LEMMA HeadOnFloor ==
  ASSUME StrongTypeOK, InLoop, FloorInv, NEW n \in 1..2, Shift(n),
         QueueHead # 1, OnFloors(QueueHead)
  PROVE  /\ \E d \in 0..MaxHeight : first' = 2^d
         /\ first' \in Nat /\ last' \in Nat /\ 1 <= first'
         /\ first' <= last' /\ last' < 2 * first'
         /\ first' <= QueueHead /\ QueueHead <= last' /\ 2 <= QueueHead /\ QueueHead \in Nat
         /\ IF QueueHead < first THEN first = 2 * first' /\ last' = last \div 2
                                 ELSE first' = first /\ last' = last
<1>0. first \in Nat /\ last \in Nat /\ QueueHead \in Nat
  BY Sizes DEF StrongTypeOK, TypeOK, QueueHead
<1>1. PICK d \in 0..MaxHeight : first = 2^d
  BY DEF FloorInv
<1>2. 1 <= first /\ first <= last /\ last < 2 * first
  BY <1>0, <1>1, PowersOfTwo DEF FloorInv
<1>3. 2 <= QueueHead
  BY <1>0 DEF OnFloors
<1>4. CASE QueueHead < first
  <2>1. first' = first \div 2 /\ last' = last \div 2
    BY <1>4 DEF Shift, FloorOfHead
  <2>2. QueueHead \in (first \div 2)..(last \div 2)
    BY <1>4, <1>0 DEF OnFloors
  <2>3. d # 0 /\ d \in Nat /\ d - 1 \in 0..MaxHeight
    <3>1. d # 0
      <4>1. first # 1 BY <1>0, <1>3, <1>4
      <4>2. d = 0 => first = 1 BY <1>1, PowersOfTwo
      <4> QED BY <4>1, <4>2
    <3> QED BY <3>1, MaxHeightIsNat
  <2>4. first = 2 * 2^(d-1) /\ 2^(d-1) \in Nat
    <3>1. 2^((d-1)+1) = 2 * 2^(d-1) /\ 2^(d-1) \in Nat
      BY <2>3, PowersOfTwo
    <3>2. (d-1)+1 = d BY <2>3
    <3> QED BY <3>1, <3>2, <1>1
  <2>5. first' = 2^(d-1) /\ first = 2 * first'
    BY <2>1, <2>4
  <2>6. first' \in Nat /\ last' \in Nat /\ first' <= last' /\ last' < 2 * first' /\ 1 <= first'
    BY <1>0, <1>2, <2>1, <2>5
  <2> QED BY <1>0, <1>3, <1>4, <2>1, <2>2, <2>3, <2>5, <2>6
<1>5. CASE ~(QueueHead < first)
  <2>1. first' = first /\ last' = last
    BY <1>5 DEF Shift, FloorOfHead
  <2>2. QueueHead <= last
    BY <1>5, <1>0, <1>2 DEF OnFloors
  <2> QED BY <1>0, <1>1, <1>2, <1>3, <1>5, <2>1, <2>2
<1> QED BY <1>4, <1>5

\* With respect to the floor of the head, the other nodes of the queue are on that
\* floor and right of the head, or above it and left of the parent of the head.
LEMMA OthersOnFloors ==
  ASSUME NEW f \in Nat, NEW l \in Nat, NEW F \in Nat, NEW L \in Nat,
         NEW x \in Nat, NEW e \in Nat,
         1 <= F, F <= L, L < 2 * F, F <= x, x <= L, 2 <= x, l < 2 * f,
         IF x < f THEN f = 2 * F /\ L = l \div 2 ELSE F = f /\ L = l,
         e >= 1, e \in f..l \/ e \in (f \div 2)..(l \div 2),
         \/ x < e /\ (x >= f <=> e >= f)
         \/ x >= f /\ e < f /\ e < x \div 2
  PROVE  /\ \/ F <= e /\ e <= L /\ x < e
            \/ F \div 2 <= e /\ e <= L \div 2 /\ e < F /\ e < x \div 2
         /\ x < f => F <= e /\ e <= L /\ x < e
<1>1. CASE x < f
  <2>1. f = 2 * F /\ L = l \div 2 /\ f \div 2 = F BY <1>1
  <2>2. x < e /\ e < f BY <1>1
  <2>3. F <= e /\ e <= L BY <2>1, <2>2
  <2> QED BY <2>2, <2>3
<1>2. CASE ~(x < f)
  <2>1. F = f /\ L = l /\ l \div 2 < f BY <1>2
  <2>2. CASE e >= f BY <1>2, <2>1, <2>2
  <2>3. CASE ~(e >= f) BY <1>2, <2>1, <2>3
  <2> QED BY <2>2, <2>3
<1> QED BY <1>1, <1>2

\* The order of the others is kept when the floor changes.
LEMMA OthersOrdered ==
  ASSUME NEW f \in Nat, NEW F \in Nat, NEW L \in Nat, NEW x \in Nat,
         NEW e \in Nat, NEW g \in Nat, L < 2 * F,
         IF x < f THEN f = 2 * F ELSE F = f,
         x < f => F <= e /\ e <= L /\ F <= g /\ g <= L,
         \/ e < g /\ (e >= f <=> g >= f)
         \/ e >= f /\ g < f /\ g < e \div 2
  PROVE  \/ e < g /\ (e >= F <=> g >= F)
         \/ e >= F /\ g < F /\ g < e \div 2
<1>1. CASE x < f BY <1>1
<1>2. CASE ~(x < f) BY <1>2
<1> QED BY <1>1, <1>2

LEMMA ParentOnFloor ==
  ASSUME NEW F \in Nat, NEW L \in Nat, NEW x \in Nat, F <= x, x <= L, 2 <= x
  PROVE  /\ x \div 2 >= 1 /\ F \div 2 <= x \div 2 /\ x \div 2 <= L \div 2
         /\ x \div 2 \in Nat
OBVIOUS

\* The parent of the head comes after the others, when the sibling of the head is
\* not among them.
LEMMA ParentIsLast ==
  ASSUME NEW F \in Nat, NEW L \in Nat, NEW x \in Nat, NEW e \in Nat,
         1 <= F, F <= L, L < 2 * F, F <= x, x <= L, 2 <= x,
         \/ F <= e /\ e <= L /\ x < e
         \/ F \div 2 <= e /\ e <= L \div 2 /\ e < F /\ e < x \div 2,
         x % 2 = 0 => e # x + 1
  PROVE  /\ x \div 2 >= 1 /\ F \div 2 <= x \div 2 /\ x \div 2 <= L \div 2
         /\ \/ e < x \div 2 /\ (e >= F <=> x \div 2 >= F)
            \/ e >= F /\ x \div 2 < F /\ x \div 2 < e \div 2
<1>1. x \div 2 >= 1 /\ F \div 2 <= x \div 2 /\ x \div 2 <= L \div 2 /\ x \div 2 < F
  OBVIOUS
<1>2. CASE F <= e
  <2>1. x < e BY <1>2
  <2>2. CASE x % 2 = 0
    <3>1. e >= x + 2 BY <2>1, <2>2
    <3> QED BY <1>1, <1>2, <3>1
  <2>3. CASE x % 2 = 1
    BY <1>1, <1>2, <2>1, <2>3
  <2> QED BY <2>2, <2>3
<1>3. CASE ~(F <= e)
  BY <1>1, <1>3
<1> QED BY <1>1, <1>2, <1>3

\* An iteration of the loop keeps the order.
LEMMA ShiftKeepsOrder ==
  ASSUME StrongTypeOK, InLoop, FloorInv, QueueOrdered, QueueHead # 1,
         NEW n \in 1..2, Shift(n), UNCHANGED <<pc, shape>>,
         n = 2 => Paired, n = 1 => ~Paired
  PROVE  FloorInv' /\ QueueOrdered'
<1> DEFINE x == QueueHead
           OnF(e) == \/ first' <= e /\ e <= last' /\ x < e
                     \/ first' \div 2 <= e /\ e <= last' \div 2 /\ e < first' /\ e < x \div 2
           Pre(e, g) == \/ e < g /\ (e >= first' <=> g >= first')
                        \/ e >= first' /\ g < first' /\ g < e \div 2
<1>1. /\ start \in 0..(nbOpened - 1) /\ stop \in 0..(nbOpened - 1)
      /\ nbOpened \in Nat /\ nbOpened >= 1 /\ slots \in [0..(nbOpened - 1) -> Nat]
      /\ first \in Nat /\ last \in Nat /\ x \in Nat
  BY Sizes DEF StrongTypeOK, TypeOK, QueueHead
<1>2. n = 2 => SecondPos # stop
  BY DEF Paired, SiblingQueued
<1>3. FifoStep(n) /\ Count \in 1..nbOpened /\ n <= Count /\ Count' = Count - n + 1
  BY <1>2, ShiftIsFifo, ShiftPositions
<1>4. \A k \in 0..(Count - 1) : Entry(k) \in Nat
  BY <1>1, <1>2, ShiftPositions DEF Entry
<1>5. Entry(0) = x
  BY <1>1 DEF Entry, Pos, QueueHead
<1>6. Count >= 2 => /\ SecondPos # stop /\ Entry(1) = slots[SecondPos]
                    /\ Entry(1) \in Nat
  <2>1. Count >= 2 => Pos(1) = SecondPos /\ SecondPos # stop
    BY <1>1 DEF Count, Pos, SecondPos, Wrap
  <2>2. Count >= 2 => 1 \in 0..(Count - 1)
    BY <1>1, <1>3
  <2> QED BY <1>4, <2>1, <2>2 DEF Entry
<1>7. \A i \in 0..(Count - 1) : /\ OnFloors(Entry(i))
                                /\ \A j \in (i + 1)..(Count - 1) : Precedes(Entry(i), Entry(j))
  BY DEF QueueOrdered
<1>8. OnFloors(x)
  BY <1>1, <1>3, <1>5, <1>7
<1>9. /\ \E d \in 0..MaxHeight : first' = 2^d
      /\ first' \in Nat /\ last' \in Nat /\ 1 <= first'
      /\ first' <= last' /\ last' < 2 * first'
      /\ first' <= x /\ x <= last' /\ 2 <= x
      /\ IF x < first THEN first = 2 * first' /\ last' = last \div 2
                      ELSE first' = first /\ last' = last
  BY <1>8, HeadOnFloor
<1>10. last < 2 * first
  BY <1>1, <1>9 DEF FloorInv
<1>11. ASSUME NEW k \in n..(Count - 1)
       PROVE  /\ Entry(k) \in Nat /\ Entry(k) >= 1 /\ OnF(Entry(k))
              /\ x < first => first' <= Entry(k) /\ Entry(k) <= last' /\ x < Entry(k)
  <2>1. k \in 0..(Count - 1) /\ k \in (0 + 1)..(Count - 1) /\ 0 \in 0..(Count - 1)
    BY <1>1, <1>3
  <2>2. OnFloors(Entry(k)) /\ Precedes(x, Entry(k)) /\ Entry(k) \in Nat
    BY <1>4, <1>5, <1>7, <2>1
  <2>3. /\ Entry(k) >= 1
        /\ Entry(k) \in first..last \/ Entry(k) \in (first \div 2)..(last \div 2)
        /\ \/ x < Entry(k) /\ (x >= first <=> Entry(k) >= first)
           \/ x >= first /\ Entry(k) < first /\ Entry(k) < x \div 2
    BY <2>2 DEF OnFloors, Precedes
  <2> QED BY <1>1, <1>9, <1>10, <2>2, <2>3, OthersOnFloors, SMTT(30)
<1>12. ASSUME NEW i \in n..(Count - 1), NEW j \in (i + 1)..(Count - 1)
       PROVE  Pre(Entry(i), Entry(j))
  <2>1. i \in 0..(Count - 1) /\ j \in n..(Count - 1)
    BY <1>1, <1>3
  <2>2. Precedes(Entry(i), Entry(j))
    BY <1>7, <2>1
  <2>3. \/ Entry(i) < Entry(j) /\ (Entry(i) >= first <=> Entry(j) >= first)
        \/ Entry(i) >= first /\ Entry(j) < first /\ Entry(j) < Entry(i) \div 2
    BY <2>2 DEF Precedes
  <2> QED BY <1>1, <1>9, <1>11, <2>1, <2>3, OthersOrdered
<1>13. ASSUME NEW k \in n..(Count - 1), x % 2 = 0
       PROVE  Entry(k) # x + 1
  <2>1. Count >= 2 /\ Count \in Nat /\ k \in Nat /\ k >= 1
    BY <1>1, <1>3
  <2>2. CASE n = 2
    <3>1. Entry(1) = x + 1
      BY <1>6, <2>1, <2>2 DEF Paired, SiblingQueued
    <3>2. 1 \in 0..(Count - 1) /\ k \in (1 + 1)..(Count - 1)
      BY <2>1, <2>2
    <3>3. Precedes(Entry(1), Entry(k))
      BY <1>7, <3>2
    <3>4. Entry(1) # Entry(k)
      BY <1>4, <1>1, <3>1, <3>2, <3>3, <2>1 DEF Precedes
    <3> QED BY <3>1, <3>4
  <2>3. CASE n = 1
    <3>1. CASE Alone
      <4>1. x = last'
        BY <3>1 DEF Alone, Shift
      <4> QED BY <1>1, <1>9, <1>11, <4>1
    <3>2. CASE ~Alone
      <4>1. Entry(1) # x + 1
        BY <1>6, <1>13, <2>1, <2>3, <3>2 DEF Paired, SiblingQueued, IsLeft
      <4>2. CASE k = 1 BY <4>1, <4>2
      <4>3. CASE k # 1
        <5>1. 1 \in n..(Count - 1) /\ k \in (1 + 1)..(Count - 1)
          BY <2>1, <2>3, <4>3
        <5>2. Pre(Entry(1), Entry(k)) /\ OnF(Entry(1)) /\ Entry(1) \in Nat /\ Entry(k) \in Nat
          BY <1>11, <1>12, <5>1
        <5> QED BY <1>1, <1>9, <4>1, <5>2
      <4> QED BY <4>2, <4>3
    <3> QED BY <3>1, <3>2
  <2> QED BY <2>2, <2>3
<1>14. /\ x \div 2 >= 1 /\ first' \div 2 <= x \div 2 /\ x \div 2 <= last' \div 2
       /\ x \div 2 \in Nat
  <2> HIDE DEF x
  <2> QED BY <1>1, <1>9, ParentOnFloor
<1>15. ASSUME NEW k \in n..(Count - 1) PROVE Pre(Entry(k), x \div 2)
  BY <1>1, <1>9, <1>11, <1>13, ParentIsLast
<1>16. FloorInv'
  BY <1>9 DEF FloorInv
<1>17. ASSUME NEW i \in 0..(Count' - 1)
       PROVE  /\ OnFloors(Entry(i))'
              /\ \A j \in (i + 1)..(Count' - 1) : Precedes(Entry(i), Entry(j))'
  <2>1. CASE i = Count - n
    <3>1. Entry(i)' = x \div 2
      BY <1>3, <2>1 DEF FifoStep
    <3>2. OnFloors(Entry(i))'
      BY <1>9, <1>14, <3>1 DEF OnFloors
    <3>3. (i + 1)..(Count' - 1) = {}
      BY <1>1, <1>3, <2>1
    <3> QED BY <3>2, <3>3
  <2>2. CASE i # Count - n
    <3>1. i \in 0..(Count - n - 1) /\ i + n \in n..(Count - 1)
      BY <1>1, <1>3, <2>2
    <3>2. Entry(i)' = Entry(i + n)
      BY <1>3, <3>1 DEF FifoStep
    <3>3. OnFloors(Entry(i))'
      BY <1>9, <1>11, <3>1, <3>2 DEF OnFloors
    <3>4. ASSUME NEW j \in (i + 1)..(Count' - 1) PROVE Precedes(Entry(i), Entry(j))'
      <4>1. CASE j = Count - n
        <5>1. Entry(j)' = x \div 2
          BY <1>3, <4>1 DEF FifoStep
        <5> QED BY <1>15, <3>1, <3>2, <5>1 DEF Precedes
      <4>2. CASE j # Count - n
        <5>1. j \in 0..(Count - n - 1) /\ j + n \in (i + n + 1)..(Count - 1)
          BY <1>1, <1>3, <3>1, <4>2
        <5>2. Entry(j)' = Entry(j + n)
          BY <1>3, <5>1 DEF FifoStep
        <5> QED BY <1>12, <3>1, <3>2, <5>1, <5>2 DEF Precedes
      <4> QED BY <4>1, <4>2
    <3> QED BY <3>3, <3>4
  <2> QED BY <2>1, <2>2
<1>18. QueueOrdered'
  BY <1>17 DEF QueueOrdered
<1> QED BY <1>16, <1>18

LEMMA StartLoopOrder ==
  ASSUME StrongTypeOK, NEW d \in 0..MaxHeight, NEW indexes \in LeafChoices,
         StartLoop(2^d, indexes), nbLeaves <= 2^d, UNCHANGED shape
  PROVE  FloorInv' /\ QueueOrdered'
<1>1. /\ nbLeaves \in Nat /\ nbOpened \in Nat /\ 1 <= nbOpened /\ nbOpened <= nbLeaves
      /\ nbLeaves' = nbLeaves /\ nbOpened' = nbOpened /\ 2^d \in Nat /\ 0 < 2^d
  BY Sizes, PowersOfTwo DEF shape
<1>2. first' = 2^d /\ last' = 2^d + nbLeaves - 1 /\ start' = 0 /\ stop' = 0
  BY DEF StartLoop
<1>3. Count' = nbOpened
  BY <1>1, <1>2 DEF Count
<1>4. ASSUME NEW k \in 0..(nbOpened - 1)
      PROVE  Entry(k)' = 2^d + indexes[k] /\ indexes[k] \in Nat /\ indexes[k] < nbLeaves
  <2>1. Pos(k)' = k
    BY <1>1, <1>2 DEF Pos
  <2>2. Entry(k)' = 2^d + indexes[k]
    BY <2>1 DEF Entry, StartLoop
  <2>3. indexes[k] \in 0..(nbLeaves - 1)
    BY DEF LeafChoices
  <2> QED BY <1>1, <2>2, <2>3
<1>5. FloorInv'
  BY <1>1, <1>2 DEF FloorInv
<1>6. ASSUME NEW i \in 0..(nbOpened - 1)
      PROVE  /\ OnFloors(Entry(i))'
             /\ \A j \in (i + 1)..(nbOpened - 1) : Precedes(Entry(i), Entry(j))'
  <2>1. OnFloors(Entry(i))'
    BY <1>1, <1>2, <1>4 DEF OnFloors
  <2>2. ASSUME NEW j \in (i + 1)..(nbOpened - 1) PROVE Precedes(Entry(i), Entry(j))'
    <3>1. j \in 0..(nbOpened - 1) /\ i < j
      BY <1>1
    <3>2. indexes[i] < indexes[j]
      BY <3>1 DEF LeafChoices
    <3> QED BY <1>1, <1>2, <1>4, <3>1, <3>2 DEF Precedes
  <2> QED BY <2>1, <2>2
<1> QED BY <1>3, <1>5, <1>6 DEF QueueOrdered

\* The verifier's first_index is the signer's when the trees are half the size
\* that uint16_t can number.
LEMMA NoTruncation ==
  ASSUME WidthIsEnough, StrongTypeOK, InputInv, pc # "malloc"
  PROVE  U16(2^height) = 2^height
<1>1. nbLeaves \in Nat /\ nbLeaves <= 2^(UintBits - 1)
  BY Sizes DEF WidthIsEnough, InputInv
<1>2. UintBits \in Nat /\ UintBits >= 1 /\ UintBits - 1 \in 0..MaxHeight /\ UintBits \in 0..MaxHeight
  BY UintBitsAssumption, MaxHeightIsNat
<1>3. /\ 2^(UintBits - 1) \in Nat /\ 0 < 2^(UintBits - 1) /\ 2^UintBits \in Nat
      /\ 2^UintBits = 2 * 2^(UintBits - 1)
  <2>1. 2^((UintBits - 1) + 1) = 2 * 2^(UintBits - 1)
    BY <1>2, PowersOfTwo
  <2>2. (UintBits - 1) + 1 = UintBits
    BY <1>2
  <2> QED BY <1>2, <2>1, <2>2, PowersOfTwo
<1>4. /\ height \in 0..MaxHeight /\ height \in Nat
      /\ height = 0 \/ 2^(height - 1) < nbLeaves
  <2>1. nbLeaves \in 1..(2^UintBits - 1) /\ height = CeilLog2(nbLeaves) /\ height \in 0..MaxHeight
    BY DEF StrongTypeOK, TypeOK, HeightInv
  <2> QED BY <2>1, HeightFits, MaxHeightIsNat
<1>5. 2^height <= 2^(UintBits - 1)
  <2>1. CASE height = 0
    BY <1>2, <1>3, <2>1, PowersOfTwo
  <2>2. CASE height # 0
    <3>1. height - 1 \in 0..MaxHeight /\ 2^(height - 1) \in Nat
      BY <1>4, <2>2, MaxHeightIsNat, PowersOfTwo
    <3>2. 2^(height - 1) < 2^(UintBits - 1)
      BY <1>1, <1>3, <1>4, <2>2, <3>1
    <3>3. ~(UintBits - 1 <= height - 1)
      <4>1. UintBits - 1 \in 0..(height - 1) => 2^(UintBits - 1) <= 2^(height - 1)
        BY <3>1, PowersOfTwo
      <4> QED BY <1>2, <1>3, <1>4, <3>1, <3>2, <4>1
    <3>4. height \in 0..(UintBits - 1)
      BY <1>2, <1>4, <3>3
    <3> QED BY <1>2, <3>4, PowersOfTwo
  <2> QED BY <2>1, <2>2
<1>6. 2^height \in Nat
  BY Sizes
<1> QED BY <1>3, <1>5, <1>6, ModBound DEF U16

LEMMA InitOrder == Init => OrderInv
<1> SUFFICES ASSUME Init PROVE OrderInv
  OBVIOUS
<1>1. PICK sh \in Shapes : nbLeaves = sh[1] /\ nbOpened = sh[2]
  BY DEF Init
<1>2. sh = <<sh[1], sh[2]>>
  BY ShapesAssumption
<1>3. InputInv
  BY <1>1, <1>2 DEF InputInv, Init
<1>4. ~InLoop
  BY DEF Init, InLoop
<1> QED BY <1>3, <1>4, InitType DEF OrderInv, FloorInv, QueueOrdered

LEMMA NextInput ==
  ASSUME InputInv, [Next]_vars
  PROVE  InputInv'
<1> USE DEF InputInv, LeafChoices, shape, loopVars
<1>1. CASE MallocMerkleTree BY <1>1 DEF MallocMerkleTree
<1>2. CASE BuildLeaves BY <1>2 DEF BuildLeaves
<1>3. CASE BuildFloor BY <1>3 DEF BuildFloor
<1>4. CASE BuildDone BY <1>4 DEF BuildDone
<1>5. CASE OpenStart BY <1>5 DEF OpenStart, StartLoop
<1>6. CASE OpenAlone BY <1>6 DEF OpenAlone, Shift
<1>7. CASE OpenPaired BY <1>7 DEF OpenPaired, Shift
<1>8. CASE OpenReveals BY <1>8 DEF OpenReveals, Shift
<1>9. CASE OpenDone BY <1>9 DEF OpenDone
<1>10. CASE RootStart BY <1>10 DEF RootStart, StartLoop
<1>11. CASE RootAlone BY <1>11 DEF RootAlone, Shift
<1>12. CASE RootPaired BY <1>12 DEF RootPaired, Shift
<1>13. CASE RootGiven BY <1>13 DEF RootGiven, Shift
<1>14. CASE RootFails BY <1>14 DEF RootFails
<1>15. CASE RootDone BY <1>15 DEF RootDone
<1>16. CASE Stopped \/ UNCHANGED vars BY <1>16 DEF Stopped, vars
<1> QED BY <1>1, <1>2, <1>3, <1>4, <1>5, <1>6, <1>7, <1>8, <1>9, <1>10, <1>11, <1>12,
           <1>13, <1>14, <1>15, <1>16 DEF Next, Build, Open, Root

LEMMA NextOrder ==
  ASSUME WidthIsEnough, OrderInv, [Next]_vars
  PROVE  OrderInv'
<1>1. StrongTypeOK' /\ InputInv'
  BY NextType, NextInput DEF OrderInv
<1> SUFFICES FloorInv' /\ QueueOrdered'
  BY <1>1 DEF OrderInv
<1> USE DEF OrderInv
<1>2. CASE OpenStart
  <2>1. PICK indexes \in LeafChoices : StartLoop(2^height, indexes)
    BY <1>2 DEF OpenStart
  <2>2. height \in 0..MaxHeight /\ nbLeaves <= 2^height /\ UNCHANGED shape
    BY <1>2, Sizes DEF OpenStart, StrongTypeOK, TypeOK
  <2> QED BY <2>1, <2>2, StartLoopOrder
<1>3. CASE RootStart
  <2>1. StartLoop(U16(2^height), leaves) /\ UNCHANGED shape /\ leaves \in LeafChoices
    BY <1>3 DEF RootStart, InputInv
  <2>2. height \in 0..MaxHeight /\ nbLeaves <= 2^height
    BY <1>3, Sizes DEF RootStart, StrongTypeOK, TypeOK
  <2>3. U16(2^height) = 2^height
    BY <1>3, NoTruncation DEF RootStart
  <2> QED BY <2>1, <2>2, <2>3, StartLoopOrder
<1>4. CASE OpenAlone \/ OpenReveals \/ RootAlone \/ RootGiven
  <2>1. /\ Shift(1) /\ UNCHANGED <<pc, shape>> /\ InLoop /\ QueueHead # 1
        /\ ~Paired
    BY <1>4 DEF OpenAlone, OpenReveals, RootAlone, RootGiven, InLoop, Given, Paired
  <2> QED BY <2>1, ShiftKeepsOrder
<1>5. CASE OpenPaired \/ RootPaired
  <2>1. /\ Shift(2) /\ UNCHANGED <<pc, shape>> /\ InLoop /\ QueueHead # 1
        /\ Paired
    BY <1>5 DEF OpenPaired, RootPaired, InLoop
  <2> QED BY <2>1, ShiftKeepsOrder
<1>6. CASE Build \/ OpenDone \/ RootFails \/ RootDone \/ Stopped
  <2>1. ~InLoop'
    BY <1>6 DEF Build, MallocMerkleTree, BuildLeaves, BuildFloor, BuildDone, OpenDone,
                RootFails, RootDone, Stopped, Returned, InLoop, vars
  <2> QED BY <2>1 DEF FloorInv, QueueOrdered
<1>7. CASE UNCHANGED vars
  BY <1>7 DEF vars, shape, loopVars, FloorInv, QueueOrdered, InLoop, Count, Entry, Pos,
              OnFloors, Precedes
<1> QED BY <1>2, <1>3, <1>4, <1>5, <1>6, <1>7 DEF Next, Open, Root

\* At the head of the loop the queue holds nodes of two consecutive floors, each in
\* increasing order: for every tree of at most 2^15 leaves (2^(UintBits - 1)), signer
\* and verifier look for the sibling of a node where it is.
THEOREM OrderedQueue ==
  ASSUME WidthIsEnough
  PROVE  Spec => []QueueOrdered
<1>1. Init => OrderInv
  BY InitOrder
<1>2. OrderInv /\ [Next]_vars => OrderInv'
  BY NextOrder
<1>3. OrderInv => QueueOrdered
  BY DEF OrderInv
<1> QED BY <1>1, <1>2, <1>3, PTL DEF Spec

-----------------------------------------------------------------------------
(* What build_merkle_tree builds. *)

\* The powers of two that bound the floors of the tree.
LEMMA FloorBounds ==
  ASSUME StrongTypeOK, NEW d \in 0..height
  PROVE  /\ height \in Nat /\ d \in 0..MaxHeight /\ height - d \in 0..MaxHeight
         /\ 2^d \in Nat \ {0} /\ 2^(d + 1) = 2 * 2^d /\ 2^(height - d) \in Nat \ {0}
<1>1. height \in 0..MaxHeight /\ MaxHeight \in Nat
  BY MaxHeightIsNat DEF StrongTypeOK, TypeOK
<1>2. d \in 0..MaxHeight /\ height - d \in 0..MaxHeight /\ height \in Nat
  BY <1>1
<1> QED BY <1>2, PowersOfTwo

LEMMA NodeCount ==
  ASSUME StrongTypeOK, pc # "malloc"
  PROVE  /\ NbNodes \in Nat /\ NbNodes >= 1 /\ nbLeaves \in Nat /\ nbLeaves >= 1
         /\ 2^height \in Nat \ {0} /\ 2^height <= NbNodes /\ NbNodes < 2 * 2^height
         /\ height \in Nat
<1>1. height \in Nat
  BY MaxHeightIsNat DEF StrongTypeOK, TypeOK
<1> QED BY <1>1, Sizes DEF NbNodes

\* Every node is on one floor.
LEMMA HasFloor ==
  ASSUME StrongTypeOK, pc # "malloc", NEW i \in 1..NbNodes
  PROVE  \E d \in 0..height : 2^d <= i /\ i < 2 * 2^d
<1> DEFINE T == {e \in Nat : e <= height /\ 2^(height - e) <= i}
<1>1. NbNodes \in Nat /\ height \in 0..MaxHeight /\ MaxHeight \in Nat /\ height \in Nat
  BY NodeCount, MaxHeightIsNat DEF StrongTypeOK, TypeOK
<1>2. height \in T
  <2>1. 2^(height - height) = 1
    BY <1>1, PowersOfTwo
  <2> QED BY <1>1, <2>1
<1>3. PICK e \in T : \A c \in T : e <= c
  BY <1>2, Least
<1> DEFINE d == height - e
<1>4. d \in 0..height /\ 2^d <= i /\ d + 1 = height - (e - 1)
  BY <1>1, <1>3
<1>5. 2^d \in Nat /\ 2^(d + 1) = 2 * 2^d
  BY <1>4, FloorBounds
<1>6. CASE e = 0
  <2>1. i < 2 * 2^height
    BY <1>1, NodeCount
  <2>2. d = height
    BY <1>1, <1>6
  <2> QED BY <1>4, <2>1, <2>2
<1>7. CASE e # 0
  <2>1. e - 1 \in Nat /\ e - 1 <= height /\ ~(e <= e - 1)
    BY <1>1, <1>3, <1>7
  <2>2. ~(2^(height - (e - 1)) <= i)
    BY <1>3, <2>1
  <2>3. ~(2^(d + 1) <= i)
    BY <1>4, <2>2
  <2> QED BY <1>1, <1>4, <1>5, <2>3
<1> QED BY <1>6, <1>7

LEMMA DepthIsFloor ==
  ASSUME StrongTypeOK, NEW i \in Nat, NEW d \in 0..height, 2^d <= i, i < 2 * 2^d
  PROVE  DepthOf(i) = d
<1> DEFINE P(e) == 2^e <= i /\ i < 2^(e+1)
<1>1. height \in 0..MaxHeight /\ MaxHeight \in Nat /\ height \in Nat
  BY MaxHeightIsNat DEF StrongTypeOK, TypeOK
<1>2. P(d)
  BY FloorBounds
<1>3. ASSUME NEW a \in 0..height, NEW b \in 0..height, a < b, P(a), P(b) PROVE FALSE
  <2>1. a + 1 \in 0..b /\ b \in 0..MaxHeight /\ a + 1 \in 0..MaxHeight
    BY <1>1, <1>3
  <2>2. 2^(a + 1) <= 2^b /\ 2^(a + 1) \in Nat /\ 2^b \in Nat
    BY <2>1, PowersOfTwo
  <2> QED BY <1>3, <2>2
<1>4. ASSUME NEW e \in 0..height, P(e) PROVE e = d
  <2>1. ~(e < d) /\ ~(d < e)
    BY <1>2, <1>3, <1>4
  <2> QED BY <1>1, <2>1
<1>5. DepthOf(i) = CHOOSE e \in 0..height : P(e)
  BY DEF DepthOf
<1> HIDE DEF P
<1> QED BY <1>2, <1>4, <1>5

\* The last node of a floor.
LastOf(d) == NbNodes \div 2^(height - d)

LEMMA ExistsUpToLast ==
  ASSUME StrongTypeOK, pc # "malloc", NEW d \in 0..height
  PROVE  /\ LastOf(d) \in Nat /\ LastOf(d) <= NbNodes
         /\ d < height => LastOf(d) = LastOf(d + 1) \div 2
         /\ d = height => LastOf(d) = NbNodes
         /\ \A i \in Nat : 2^d <= i /\ i < 2 * 2^d => (Exists(i) <=> i <= LastOf(d))
<1>1. /\ NbNodes \in Nat /\ height \in Nat /\ NbNodes < 2 * 2^height
      /\ 2^d \in Nat \ {0} /\ 2^(height - d) \in Nat \ {0} /\ 2^height \in Nat
  BY NodeCount, FloorBounds
<1>2. ASSUME NEW i \in Nat, 2^d <= i, i < 2 * 2^d PROVE Exists(i) <=> i <= LastOf(d)
  <2>1. Exists(i) <=> i * 2^(height - d) <= NbNodes
    BY <1>2, DepthIsFloor DEF Exists
  <2> QED BY <1>1, <2>1, Quotients DEF LastOf
<1>3. d < height => LastOf(d) = LastOf(d + 1) \div 2
  <2> SUFFICES ASSUME d < height PROVE LastOf(d) = LastOf(d + 1) \div 2
    OBVIOUS
  <2>1. d + 1 \in 0..height /\ height - (d + 1) \in 0..MaxHeight
        /\ (height - (d + 1)) + 1 = height - d
    BY <1>1, FloorBounds
  <2>2. 2^(height - (d + 1)) \in Nat \ {0} /\ 2^(height - d) = 2 * 2^(height - (d + 1))
    BY <2>1, PowersOfTwo
  <2>3. PICK m \in Nat \ {0} : m = 2^(height - (d + 1))
    BY <2>2
  <2>4. (NbNodes \div m) \div 2 = NbNodes \div (2 * m)
    BY <1>1, Quotients
  <2> QED BY <2>2, <2>3, <2>4 DEF LastOf
<1>4. d = height => LastOf(d) = NbNodes
  <2>1. ASSUME NEW n \in Nat PROVE n \div 1 = n
    OBVIOUS
  <2>2. d = height => 2^(height - d) = 1
    BY <1>1, PowersOfTwo
  <2> QED BY <1>1, <2>1, <2>2 DEF LastOf
<1>5. LastOf(d) \in Nat
  BY <1>1, Quotients DEF LastOf
<1>6. LastOf(d) <= NbNodes
  <2>1. ASSUME NEW n \in Nat, NEW m \in Nat \ {0} PROVE n \div m <= n
    BY Z3
  <2> QED BY <1>1, <2>1 DEF LastOf
<1> QED BY <1>2, <1>3, <1>4, <1>5, <1>6

\* What node i of the tree should be.
Correct(i) ==
  nodes[i] = IF i >= 2^height THEN Leaf(i - 2^height)
             ELSE IF Exists(2*i + 1) THEN Hash(i, <<nodes[2*i], nodes[2*i + 1]>>)
             ELSE Hash(i, <<nodes[2*i]>>)

\* The floors from the current one down are built.
BuildInv ==
  /\ pc \notin {"malloc", "leaves"} => DOMAIN nodes = 1..NbNodes
  /\ pc = "build" => /\ level \in -1..(height - 1)
                     /\ first = 2^(level + 1) /\ last = LastOf(level + 1)
                     /\ first <= last /\ last < 2 * first
                     /\ \A i \in first..NbNodes : Exists(i) => Correct(i)
  /\ pc \notin {"malloc", "leaves", "build"} => \A i \in 1..NbNodes : Exists(i) => Correct(i)

LEMMA LeavesBuilt ==
  ASSUME StrongTypeOK, BuildLeaves
  PROVE  BuildInv'
<1>1. /\ pc = "leaves" /\ pc' = "build" /\ height' = height /\ nbLeaves' = nbLeaves
      /\ first' = NbNodes - nbLeaves + 1 /\ last' = NbNodes /\ level' = height - 1
      /\ nodes' = [i \in 1..NbNodes |-> IF i >= first' THEN Leaf(i - first') ELSE nodes[i]]
  BY DEF BuildLeaves, shape
<1>2. /\ NbNodes \in Nat /\ nbLeaves \in Nat /\ nbLeaves >= 1 /\ 2^height \in Nat \ {0}
      /\ 2^height <= NbNodes /\ NbNodes < 2 * 2^height /\ height \in Nat
  BY <1>1, NodeCount
<1>3. first' = 2^height /\ NbNodes' = NbNodes
  BY <1>1, <1>2 DEF NbNodes
<1>4. LastOf(height) = NbNodes
  BY <1>1, <1>2, ExistsUpToLast, height \in 0..height
<1>5. ASSUME NEW i \in (first')..NbNodes' PROVE Correct(i)'
  <2>1. i \in 1..NbNodes /\ i >= 2^height
    BY <1>2, <1>3
  <2>2. nodes'[i] = Leaf(i - 2^height)
    BY <1>1, <1>3, <2>1
  <2> QED BY <1>1, <2>1, <2>2 DEF Correct, Leaf, Digest
<1>6. level' + 1 = height /\ level' \in -1..(height - 1)
  BY <1>1, <1>2
<1>7. LastOf(level + 1)' = NbNodes
  <2>1. LastOf(level + 1)' = NbNodes' \div 2^(height' - (level' + 1))
    BY DEF LastOf
  <2> QED BY <1>1, <1>3, <1>4, <1>6, <2>1 DEF LastOf
<1>8. DOMAIN nodes' = 1..NbNodes
  BY <1>1
<1> QED BY <1>1, <1>2, <1>3, <1>5, <1>6, <1>7, <1>8 DEF BuildInv

\* A node that is not a leaf is hashed from the children that exist.
LEMMA HashesChildren ==
  ASSUME StrongTypeOK, BuildInv, pc = "build", level >= 0,
         NEW p \in (first \div 2)..(last \div 2)
  PROVE  HashedKids(p, first \div 2, last \div 2)
           = IF Exists(2*p + 1) THEN <<nodes[2*p], nodes[2*p + 1]>> ELSE <<nodes[2*p]>>
<1> DEFINE f == first \div 2
           l == last \div 2
<1>1. /\ level \in 0..(height - 1) /\ first = 2^(level + 1) /\ last = LastOf(level + 1)
      /\ first <= last /\ last < 2 * first /\ DOMAIN nodes = 1..NbNodes /\ height \in Nat
  BY FloorBounds DEF BuildInv, StrongTypeOK, TypeOK
<1>2. level + 1 \in 0..height /\ level \in 0..height
  BY <1>1
<1>3. /\ first = 2 * 2^level /\ 2^level \in Nat \ {0} /\ last \in Nat /\ last <= NbNodes
      /\ NbNodes \in Nat
      /\ \A i \in Nat : 2^(level + 1) <= i /\ i < 2 * 2^(level + 1)
                          => (Exists(i) <=> i <= last)
  BY <1>1, <1>2, FloorBounds, ExistsUpToLast, NodeCount
<1>4. /\ f = 2^level /\ l \in Nat /\ l < first /\ f <= l
      /\ last = 2 * l + (last % 2) /\ last % 2 \in {0, 1} /\ p \in Nat /\ f <= p /\ p <= l
  BY <1>1, <1>3, Halves
<1>5. 2 * p \in 1..NbNodes /\ (2 * p + 1 <= last => 2 * p + 1 \in 1..NbNodes)
  BY <1>3, <1>4
<1>6. Exists(2 * p + 1) <=> 2 * p + 1 <= last
  BY <1>1, <1>3, <1>4
<1>7. p \in Grouped(f, l) => p < l
  <2>1. ASSUME NEW n \in Nat PROVE 4 * (n \div 4) <= n
    BY Z3
  <2>2. l - f \in Nat /\ (l - f) \div 4 \in Nat
    BY <1>3, <1>4
  <2>3. 4 * ((l - f) \div 4) <= l - f
    BY <2>1, <2>2
  <2> QED BY <1>3, <1>4, <2>2, <2>3 DEF Grouped
<1>8. (p \in Grouped(f, l) \/ p < l \/ last % 2 = 1) <=> 2 * p + 1 <= last
  <2>1. CASE p < l
    BY <1>3, <1>4, <2>1
  <2>2. CASE p = l
    BY <1>3, <1>4, <1>7, <2>2
  <2> QED BY <1>4, <2>1, <2>2
<1> HIDE DEF f, l
<1>9. CASE Exists(2 * p + 1)
  <2>1. HashedKids(p, f, l) = <<NodeAt(2*p), NodeAt(2*p + 1)>>
    BY <1>6, <1>8, <1>9 DEF HashedKids
  <2> QED BY <1>1, <1>5, <1>6, <1>9, <2>1 DEF NodeAt, f, l
<1>10. CASE ~Exists(2 * p + 1)
  <2>1. HashedKids(p, f, l) = <<NodeAt(2*p)>>
    BY <1>6, <1>8, <1>10 DEF HashedKids
  <2> QED BY <1>1, <1>5, <1>10, <2>1 DEF NodeAt, f, l
<1> QED BY <1>9, <1>10

LEMMA FloorBuilt ==
  ASSUME StrongTypeOK, BuildInv, BuildFloor
  PROVE  BuildInv'
<1> DEFINE f == first \div 2
           l == last \div 2
<1>1. /\ pc = "build" /\ pc' = "build" /\ level >= 0 /\ level' = level - 1
      /\ height' = height /\ nbLeaves' = nbLeaves /\ first' = f /\ last' = l
      /\ nodes' = [p \in 1..NbNodes |-> IF p \in f..l THEN Hash(p, HashedKids(p, f, l))
                                        ELSE nodes[p]]
  BY DEF BuildFloor, shape, LevelBelow
<1>2. /\ level \in 0..(height - 1) /\ first = 2^(level + 1) /\ last = LastOf(level + 1)
      /\ first <= last /\ last < 2 * first /\ DOMAIN nodes = 1..NbNodes /\ height \in Nat
      /\ \A i \in first..NbNodes : Exists(i) => Correct(i)
  BY <1>1, NodeCount DEF BuildInv, StrongTypeOK, TypeOK
<1>3. level + 1 \in 0..height /\ level \in 0..height /\ level < height
  BY <1>2
<1>4. /\ first = 2 * 2^level /\ 2^level \in Nat \ {0} /\ last \in Nat /\ last <= NbNodes
      /\ NbNodes \in Nat /\ l = LastOf(level) /\ 2^height \in Nat
      /\ \A i \in Nat : 2^level <= i /\ i < 2 * 2^level => (Exists(i) <=> i <= l)
  <2>1. 2^level \in Nat \ {0} /\ 2^(level + 1) = 2 * 2^level
    BY <1>3, FloorBounds
  <2>2. /\ LastOf(level) = LastOf(level + 1) \div 2
        /\ \A i \in Nat : 2^level <= i /\ i < 2 * 2^level => (Exists(i) <=> i <= LastOf(level))
    BY <1>1, <1>3, ExistsUpToLast
  <2>3. last \in Nat /\ last <= NbNodes
    BY <1>1, <1>2, <1>3, ExistsUpToLast
  <2>4. NbNodes \in Nat /\ 2^height \in Nat
    BY <1>1, NodeCount
  <2>5. l = LastOf(level)
    BY <1>2, <2>2
  <2> QED BY <1>2, <2>1, <2>2, <2>3, <2>4, <2>5
<1>5. /\ f = 2^level /\ l \in Nat /\ l < first /\ f <= l /\ l < 2 * f /\ l <= last
  BY <1>2, <1>4, Halves
<1>6. NbNodes' = NbNodes /\ \A i \in Nat : Exists(i)' <=> Exists(i)
  BY <1>1 DEF NbNodes, Exists, DepthOf
<1> HIDE DEF f, l
<1>7. ASSUME NEW i \in Nat, i >= first, i \in 1..NbNodes PROVE nodes'[i] = nodes[i]
  BY <1>1, <1>4, <1>5, <1>7
<1>8. ASSUME NEW i \in 1..NbNodes, i >= f, i < 2^height, Exists(i)
      PROVE  2 * i \in 1..NbNodes /\ (Exists(2*i + 1) => 2 * i + 1 \in 1..NbNodes)
  <2>1. PICK d \in 0..height : 2^d <= i /\ i < 2 * 2^d
    BY <1>1, HasFloor
  <2>2. d < height
    <3> SUFFICES ASSUME d = height PROVE FALSE
      BY <1>2, <2>1
    <3> QED BY <1>4, <1>8, <2>1
  <2>3. d + 1 \in 0..height /\ i \in Nat
    BY <1>2, <1>4, <2>2
  <2>4. /\ LastOf(d) = LastOf(d + 1) \div 2 /\ LastOf(d + 1) \in Nat /\ LastOf(d + 1) <= NbNodes
        /\ i <= LastOf(d)
        /\ \A j \in Nat : 2^(d + 1) <= j /\ j < 2 * 2^(d + 1)
                            => (Exists(j) <=> j <= LastOf(d + 1))
    BY <1>1, <1>8, <2>1, <2>2, <2>3, ExistsUpToLast
  <2>5. 2^d \in Nat /\ 2^(d + 1) = 2 * 2^d
    BY FloorBounds
  <2>6. 2 * i <= LastOf(d + 1)
    BY <2>3, <2>4, Halves
  <2>7. Exists(2 * i + 1) <=> 2 * i + 1 <= LastOf(d + 1)
    BY <2>1, <2>3, <2>4, <2>5
  <2> QED BY <1>4, <2>3, <2>4, <2>6, <2>7
<1>9. ASSUME NEW i \in f..NbNodes, Exists(i) PROVE Correct(i)'
  <2>1. i \in 1..NbNodes /\ i \in Nat /\ i >= f
    BY <1>4, <1>5
  <2>2. i < 2^height => /\ nodes'[2*i] = nodes[2*i]
                        /\ Exists(2*i + 1) => nodes'[2*i + 1] = nodes[2*i + 1]
    BY <1>4, <1>5, <1>7, <1>8, <1>9, <2>1
  <2>3. nodes'[i] = IF i >= 2^height THEN Leaf(i - 2^height)
                    ELSE IF Exists(2*i + 1) THEN Hash(i, <<nodes[2*i], nodes[2*i + 1]>>)
                    ELSE Hash(i, <<nodes[2*i]>>)
    <3>1. CASE i >= first
      <4>1. Correct(i) /\ nodes'[i] = nodes[i]
        BY <1>2, <1>7, <1>9, <2>1, <3>1
      <4> QED BY <4>1 DEF Correct
    <3>2. CASE ~(i >= first)
      <4>1. i <= l /\ i \in f..l
        BY <1>4, <1>5, <1>9, <2>1, <3>2
      <4>2. nodes'[i] = Hash(i, HashedKids(i, f, l))
        BY <1>1, <2>1, <4>1
      <4>3. HashedKids(i, f, l) = IF Exists(2*i + 1) THEN <<nodes[2*i], nodes[2*i + 1]>>
                                  ELSE <<nodes[2*i]>>
        BY <1>1, <4>1, HashesChildren DEF f, l
      <4>4. ~(i >= 2^height)
        <5>1. 2^(level + 1) <= 2^height
          BY <1>3, FloorBounds, PowersOfTwo, height \in 0..MaxHeight DEF StrongTypeOK, TypeOK
        <5> QED BY <1>2, <1>4, <2>1, <3>2, <5>1
      <4> QED BY <4>2, <4>3, <4>4
    <3> QED BY <3>1, <3>2
  <2>4. 2 * i + 1 \in Nat
    BY <2>1
  <2>5. CASE i >= 2^height
    BY <1>1, <2>3, <2>5 DEF Correct, Leaf, Digest
  <2>6. CASE ~(i >= 2^height) /\ Exists(2*i + 1)
    <3>1. i < 2^height /\ Exists(2*i + 1)'
      BY <1>4, <1>6, <2>1, <2>4, <2>6
    <3> QED BY <1>1, <2>2, <2>3, <2>6, <3>1 DEF Correct, Hash, Digest, U16
  <2>7. CASE ~(i >= 2^height) /\ ~Exists(2*i + 1)
    <3>1. i < 2^height /\ ~Exists(2*i + 1)'
      BY <1>4, <1>6, <2>1, <2>4, <2>7
    <3> QED BY <1>1, <2>2, <2>3, <2>7, <3>1 DEF Correct, Hash, Digest, U16
  <2> QED BY <2>5, <2>6, <2>7
<1>10. /\ level' \in -1..(height - 1) /\ first' = 2^(level' + 1) /\ last' = LastOf(level + 1)'
  <2>1. level' + 1 = level
    BY <1>1, <1>2
  <2>2. LastOf(level + 1)' = NbNodes' \div 2^(height' - (level' + 1))
    BY DEF LastOf
  <2> QED BY <1>1, <1>2, <1>4, <1>5, <1>6, <2>1, <2>2 DEF LastOf
<1>11. ASSUME NEW i \in (first')..NbNodes', Exists(i)' PROVE Correct(i)'
  BY <1>1, <1>4, <1>5, <1>6, <1>9, <1>11
<1>12. DOMAIN nodes' = 1..NbNodes
  BY <1>1
<1> QED BY <1>1, <1>2, <1>5, <1>6, <1>10, <1>11, <1>12 DEF BuildInv

\* What the tree holds depends on nothing else.
LEMMA TreeFrame ==
  ASSUME UNCHANGED <<nbLeaves, height, nodes>>
  PROVE  /\ NbNodes' = NbNodes
         /\ \A i : (Exists(i)' <=> Exists(i)) /\ (Correct(i)' <=> Correct(i))
         /\ \A d : LastOf(d)' = LastOf(d)
<1>1. NbNodes' = NbNodes /\ \A i : Exists(i)' <=> Exists(i)
  BY DEF NbNodes, Exists, DepthOf
<1>2. \A i : Correct(i)' <=> Correct(i)
  BY <1>1 DEF Correct, Leaf, Digest, Hash, U16
<1>3. \A d : LastOf(d)' = LastOf(d)
  BY <1>1 DEF LastOf
<1> QED BY <1>1, <1>2, <1>3

LEMMA BuildEnds ==
  ASSUME StrongTypeOK, BuildInv, BuildDone
  PROVE  BuildInv'
<1>1. /\ pc = "build" /\ pc' = "built" /\ level = -1
      /\ UNCHANGED <<nbLeaves, height, nodes>>
  BY DEF BuildDone, shape, treeVars
<1>2. first = 1
  BY <1>1, PowersOfTwo DEF BuildInv
<1>3. ASSUME NEW i \in 1..NbNodes, Exists(i) PROVE Correct(i)
  BY <1>1, <1>2, <1>3 DEF BuildInv
<1>4. DOMAIN nodes = 1..NbNodes
  BY <1>1 DEF BuildInv
<1> QED BY <1>1, <1>3, <1>4, TreeFrame DEF BuildInv

LEMMA InitBuild == Init => BuildInv
BY DEF Init, BuildInv

LEMMA NextBuild == StrongTypeOK /\ BuildInv /\ [Next]_vars => BuildInv'
<1> SUFFICES ASSUME StrongTypeOK, BuildInv, [Next]_vars PROVE BuildInv'
  OBVIOUS
<1>1. CASE MallocMerkleTree
  BY <1>1 DEF MallocMerkleTree, BuildInv
<1>2. CASE BuildLeaves
  BY <1>2, LeavesBuilt
<1>3. CASE BuildFloor
  BY <1>3, FloorBuilt
<1>4. CASE BuildDone
  BY <1>4, BuildEnds
<1>5. CASE Open \/ Root \/ Stopped
  <2>1. /\ pc \notin {"malloc", "leaves", "build"} /\ pc' \notin {"malloc", "leaves", "build"}
        /\ UNCHANGED <<nbLeaves, height, nodes>>
    BY <1>5 DEF Open, Root, Stopped, OpenStart, OpenAlone, OpenPaired, OpenReveals, OpenDone,
                RootStart, RootAlone, RootPaired, RootGiven, RootFails, RootDone, Returned,
                shape, treeVars, vars
  <2>2. \A i \in 1..NbNodes : Exists(i) => Correct(i)
    BY <2>1 DEF BuildInv
  <2>3. DOMAIN nodes = 1..NbNodes
    BY <2>1 DEF BuildInv
  <2> QED BY <2>1, <2>2, <2>3, TreeFrame DEF BuildInv
<1>6. CASE UNCHANGED vars
  <2>1. UNCHANGED <<pc, nbLeaves, height, nodes, level, first, last>>
    BY <1>6 DEF vars, shape, treeVars, loopVars
  <2>2. LastOf(level + 1)' = LastOf(level + 1)
    BY <2>1, TreeFrame DEF LastOf
  <2> QED BY <2>1, <2>2, TreeFrame DEF BuildInv
<1> QED BY <1>1, <1>2, <1>3, <1>4, <1>5, <1>6 DEF Next, Build

\* build_merkle_tree hashes every node from all its children: the nodes hashed four at
\* a time leave none out, and the last node of a floor is hashed from one child exactly
\* when it has one.
THEOREM BuildsWholeTree == Spec => []TreeConsistent
<1>1. BuildInv => TreeConsistent
  BY DEF BuildInv, TreeConsistent, Correct
<1> QED BY <1>1, InitBuild, NextBuild, StrongTyping, PTL DEF Spec

-----------------------------------------------------------------------------
(* What open_merkle_tree reveals.                                          *)

-----------------------------------------------------------------------------
(* The paths of the open leaves. *)

LEMMA PowersMultiply ==
  ASSUME NEW d \in 0..MaxHeight, NEW e \in 0..d
  PROVE  2^e * 2^(d - e) = 2^d
<1> DEFINE T == {a \in 0..d : 2^a * 2^(d - a) # 2^d}
<1>1. MaxHeight \in Nat /\ d \in Nat
  BY MaxHeightIsNat
<1>2. SUFFICES ASSUME T # {} PROVE FALSE
  OBVIOUS
<1>3. PICK a \in T : \A b \in T : a <= b
  BY <1>1, <1>2, Least, T \subseteq Nat
<1>4. CASE a = 0
  <2>1. 2^a = 1 /\ d - a = d /\ 2^d \in Nat
    BY <1>1, <1>4, PowersOfTwo
  <2> QED BY <1>3, <2>1
<1>5. CASE a # 0
  <2>1. /\ a - 1 \in 0..d /\ ~(a <= a - 1) /\ (a - 1) + 1 = a
        /\ d - (a - 1) = (d - a) + 1 /\ d - a \in 0..MaxHeight /\ a - 1 \in 0..MaxHeight
    BY <1>1, <1>3, <1>5
  <2>2. 2^(a - 1) * 2^(d - (a - 1)) = 2^d
    BY <1>3, <2>1
  <2>3. /\ 2^a = 2 * 2^(a - 1) /\ 2^(d - (a - 1)) = 2 * 2^(d - a)
        /\ 2^(a - 1) \in Nat /\ 2^(d - a) \in Nat
    BY <2>1, PowersOfTwo
  <2>4. ASSUME NEW x \in Nat, NEW y \in Nat PROVE (2 * x) * y = x * (2 * y)
    OBVIOUS
  <2> QED BY <1>3, <2>2, <2>3, <2>4
<1> QED BY <1>4, <1>5

\* The ancestor of leaf n at distance j is on the j-th floor above the leaves.
LEMMA Ancestor ==
  ASSUME StrongTypeOK, pc # "malloc", NEW n \in 2^height..NbNodes, NEW j \in 0..height
  PROVE  /\ n \div 2^j \in 1..NbNodes /\ Exists(n \div 2^j)
         /\ 2^(height - j) <= n \div 2^j /\ n \div 2^j < 2 * 2^(height - j)
<1> DEFINE y == n \div 2^j
           d == height - j
<1>1. /\ height \in Nat /\ height \in 0..MaxHeight /\ j \in 0..MaxHeight /\ d \in 0..height
      /\ 2^j \in Nat \ {0} /\ 2^d \in Nat \ {0} /\ height - d = j
  BY FloorBounds, MaxHeightIsNat, SMTT(30) DEF StrongTypeOK, TypeOK
<1>2. /\ n \in Nat /\ NbNodes \in Nat /\ 2^height \in Nat \ {0}
      /\ 2^height <= n /\ n <= NbNodes /\ n < 2 * 2^height
  BY NodeCount
<1>3. 2^d * 2^j = 2^height
  <2>1. 2^j * 2^(height - j) = 2^height
    BY <1>1, PowersMultiply
  <2> QED BY <1>1, <2>1
<1>4. y \in Nat /\ \A q \in Nat : q * 2^j <= n <=> q <= y
  BY <1>1, <1>2, Quotients
<1> HIDE DEF y, d
<1>5. 2^d <= y
  BY <1>1, <1>2, <1>3, <1>4
<1>6. y < 2 * 2^d
  <2>1. ASSUME NEW a \in Nat, NEW b \in Nat PROVE (2 * a) * b = 2 * (a * b)
    OBVIOUS
  <2>2. (2 * 2^d) * 2^j = 2 * 2^height
    BY <1>1, <1>3, <2>1
  <2>3. ~((2 * 2^d) * 2^j <= n)
    BY <1>2, <2>2
  <2>4. 2 * 2^d \in Nat
    BY <1>1
  <2> QED BY <1>4, <2>3, <2>4
<1>7. y * 2^j <= n /\ y * 2^j \in Nat
  BY <1>1, <1>4
<1>8. Exists(y)
  <2>1. DepthOf(y) = d
    BY <1>1, <1>4, <1>5, <1>6, DepthIsFloor
  <2>2. y * 2^j <= NbNodes
    BY <1>2, <1>7
  <2> QED BY <1>1, <2>1, <2>2 DEF Exists
<1>9. y <= n
  <2>1. ASSUME NEW a \in Nat, NEW b \in Nat \ {0} PROVE a \div b <= a
    BY Z3
  <2> QED BY <1>1, <1>2, <2>1 DEF y
<1>10. y \in 1..NbNodes
  BY <1>1, <1>2, <1>4, <1>5, <1>9
<1> QED BY <1>5, <1>6, <1>8, <1>10 DEF y, d

LEMMA LeavesAreNodes ==
  ASSUME StrongTypeOK, pc # "malloc", NEW k \in 0..(nbOpened - 1)
  PROVE  2^height + leaves[k] \in 2^height..NbNodes /\ leaves[k] \in Nat
<1>1. leaves[k] \in 0..(nbLeaves - 1)
  BY DEF StrongTypeOK, TypeOK
<1> QED BY <1>1, NodeCount DEF NbNodes

LEMMA PathFacts ==
  ASSUME StrongTypeOK, pc # "malloc"
  PROVE  /\ \A y \in OnPath : y \in 1..NbNodes /\ Exists(y)
         /\ \A y \in OnPath : y >= 2 => y \div 2 \in OnPath
         /\ \A y \in OnPath : y < 2^height => 2 * y \in OnPath \/ 2 * y + 1 \in OnPath
         /\ \A k \in 0..(nbOpened - 1) : 2^height + leaves[k] \in OnPath
         /\ \A y \in OnPath : y >= 2^height => \E k \in 0..(nbOpened - 1) : y = 2^height + leaves[k]
<1>1. /\ height \in Nat /\ NbNodes \in Nat /\ 2^height \in Nat \ {0}
      /\ NbNodes < 2 * 2^height
  BY NodeCount
<1>2. ASSUME NEW k \in 0..(nbOpened - 1), NEW j \in 0..height
      PROVE  (2^height + leaves[k]) \div 2^j \in OnPath
  BY DEF OnPath
<1>3. ASSUME NEW k \in 0..(nbOpened - 1) PROVE 2^height + leaves[k] \in OnPath
  <2>1. 2^height + leaves[k] \in Nat /\ 2^0 = 1 /\ 0 \in 0..height
    BY <1>1, LeavesAreNodes, PowersOfTwo
  <2>2. ASSUME NEW n \in Nat PROVE n \div 1 = n
    OBVIOUS
  <2>3. (2^height + leaves[k]) \div 2^0 = 2^height + leaves[k]
    BY <2>1, <2>2
  <2> QED BY <1>2, <2>1, <2>3
<1>4. ASSUME NEW y \in OnPath
      PROVE  /\ y \in 1..NbNodes /\ Exists(y)
             /\ y >= 2 => y \div 2 \in OnPath
             /\ y < 2^height => 2 * y \in OnPath \/ 2 * y + 1 \in OnPath
             /\ y >= 2^height => \E k \in 0..(nbOpened - 1) : y = 2^height + leaves[k]
  <2>1. PICK k \in 0..(nbOpened - 1), j \in 0..height : y = (2^height + leaves[k]) \div 2^j
    BY DEF OnPath
  <2> DEFINE n == 2^height + leaves[k]
  <2>2. n \in 2^height..NbNodes /\ n \in Nat
    BY <1>1, LeavesAreNodes
  <2> HIDE DEF n
  <2>3. y = n \div 2^j
    BY <2>1 DEF n
  <2>4. /\ y \in 1..NbNodes /\ Exists(y)
        /\ 2^(height - j) <= y /\ y < 2 * 2^(height - j)
    BY <2>2, <2>3, Ancestor
  <2>5. /\ j \in Nat /\ 2^j \in Nat \ {0} /\ 2^(j + 1) = 2 * 2^j
    BY <1>1, FloorBounds
  <2>6. y >= 2 => y \div 2 \in OnPath
    <3>1. j = height => y < 2
      <4>1. j = height => height - j = 0 /\ 2^0 = 1
        BY <1>1, PowersOfTwo
      <4> QED BY <2>4, <4>1
    <3>2. y >= 2 => j + 1 \in 0..height
      BY <1>1, <2>4, <2>5, <3>1
    <3>3. y \div 2 = n \div 2^(j + 1)
      BY <2>2, <2>3, <2>5, Quotients
    <3> QED BY <1>2, <3>2, <3>3 DEF n
  <2>7. y < 2^height => 2 * y \in OnPath \/ 2 * y + 1 \in OnPath
    <3> SUFFICES ASSUME y < 2^height PROVE 2 * y \in OnPath \/ 2 * y + 1 \in OnPath
      OBVIOUS
    <3>1. j # 0
      <4>1. j = 0 => height - j = height
        BY <1>1
      <4> QED BY <1>1, <2>4, <4>1
    <3>2. j - 1 \in 0..height /\ (j - 1) + 1 = j
      BY <1>1, <2>5, <3>1
    <3>3. 2^(j - 1) \in Nat \ {0} /\ 2^j = 2 * 2^(j - 1)
      BY <3>2, FloorBounds
    <3>4. /\ n \div 2^(j - 1) \in Nat
          /\ (n \div 2^(j - 1)) \div 2 = y
      BY <2>2, <2>3, <3>3, Quotients
    <3>5. n \div 2^(j - 1) \in OnPath
      BY <1>2, <3>2 DEF n
    <3>6. n \div 2^(j - 1) \in {2 * y, 2 * y + 1}
      BY <3>4, Halves
    <3> QED BY <3>5, <3>6
  <2>8. y >= 2^height => y = n
    <3> SUFFICES ASSUME j # 0 PROVE y < 2^height
      <4>1. ASSUME NEW m \in Nat PROVE m \div 1 = m
        OBVIOUS
      <4>2. j = 0 => 2^j = 1
        BY PowersOfTwo
      <4> QED BY <1>1, <2>2, <2>3, <2>4, <4>1, <4>2
    <3>1. height - j \in 0..height /\ (height - j) + 1 \in 0..height
      BY <1>1, <2>5
    <3>2. 2 * 2^(height - j) = 2^((height - j) + 1) /\ 2^((height - j) + 1) <= 2^height
      <4>1. height \in 0..MaxHeight
        BY DEF StrongTypeOK, TypeOK
      <4> QED BY <3>1, <4>1, FloorBounds, PowersOfTwo
    <3>3. 2^(height - j) \in Nat
      BY <3>1, FloorBounds
    <3> QED BY <1>1, <2>4, <3>2, <3>3
  <2> QED BY <2>4, <2>6, <2>7, <2>8 DEF n
<1> QED BY <1>3, <1>4

-----------------------------------------------------------------------------
(* The walk of the loop over the paths of the open leaves.                 *)

LiveNodes == {Entry(k) : k \in 0..(Count - 1)}

HeadFirst == FloorOfHead[1]
HeadLast  == FloorOfHead[2]

\* Node y of a path has been handled: it is below the floor of the head, or on
\* that floor and left of the head.
Handled(y) == y \in OnPath /\ (y >= 2 * HeadFirst \/ (HeadFirst <= y /\ y < QueueHead))

FloorIsReal == \E d \in 0..height : first = 2^d /\ last = LastOf(d)

\* The queue is the frontier between the nodes of the paths that are handled and
\* those that are not: the rest of the floor of the head, and the parents of what
\* was handled of it.
Frontier ==
  /\ LiveNodes \subseteq OnPath
  /\ \A y \in OnPath : HeadFirst <= y /\ y < 2 * HeadFirst /\ QueueHead <= y => y \in LiveNodes
  /\ \A y \in OnPath : HeadFirst <= y /\ y < QueueHead => y \div 2 \in LiveNodes
  /\ ~IsLeft /\ QueueHead # 1 => QueueHead - 1 \notin OnPath

Walk == FloorInv /\ QueueOrdered /\ FloorIsReal /\ Frontier

\* Where the head of the queue is, and the others with respect to it.
HeadPlace ==
  /\ Count \in 1..nbOpened /\ QueueHead \in Nat /\ QueueHead \in LiveNodes
  /\ HeadFirst \in Nat /\ HeadLast \in Nat /\ 1 <= HeadFirst
  /\ \E d \in 0..height : HeadFirst = 2^d /\ HeadLast = LastOf(d)
  /\ HeadFirst <= QueueHead /\ QueueHead <= HeadLast /\ HeadLast < 2 * HeadFirst
  /\ IF QueueHead < first THEN first = 2 * HeadFirst ELSE HeadFirst = first
  /\ \A k \in 1..(Count - 1) :
       /\ Entry(k) \in Nat /\ Entry(k) >= 1
       /\ \/ HeadFirst <= Entry(k) /\ Entry(k) <= HeadLast /\ QueueHead < Entry(k)
          \/ Entry(k) < HeadFirst /\ Entry(k) < QueueHead \div 2
       /\ QueueHead < first => HeadFirst <= Entry(k)
  /\ \A z \in LiveNodes : /\ z \in Nat
                           /\ \/ z = QueueHead \/ z < HeadFirst
                              \/ QueueHead < z /\ z < 2 * HeadFirst

LEMMA QueueTypes ==
  ASSUME StrongTypeOK
  PROVE  /\ start \in 0..(nbOpened - 1) /\ stop \in 0..(nbOpened - 1)
         /\ nbOpened \in Nat /\ nbOpened >= 1 /\ Count \in 1..nbOpened
         /\ first \in Nat /\ last \in Nat /\ QueueHead \in Nat /\ Entry(0) = QueueHead
         /\ \A k \in 0..(Count - 1) : Entry(k) \in Nat
<1>1. /\ start \in 0..(nbOpened - 1) /\ stop \in 0..(nbOpened - 1)
      /\ nbOpened \in Nat /\ nbOpened >= 1 /\ slots \in [0..(nbOpened - 1) -> Nat]
      /\ first \in Nat /\ last \in Nat /\ QueueHead \in Nat
  BY Sizes DEF StrongTypeOK, TypeOK, QueueHead
<1>2. Count \in 1..nbOpened
  BY <1>1 DEF Count
<1>3. \A k \in 0..(Count - 1) : Pos(k) \in 0..(nbOpened - 1)
  BY <1>1, <1>2 DEF Pos
<1>4. Entry(0) = QueueHead
  BY <1>1 DEF Entry, Pos, QueueHead
<1> QED BY <1>1, <1>2, <1>3, <1>4 DEF Entry

\* OthersOnFloors, with a head that may be the root.
LEMMA OtherPlaced ==
  ASSUME NEW f \in Nat, NEW l \in Nat, NEW F \in Nat, NEW L \in Nat,
         NEW x \in Nat, NEW e \in Nat,
         1 <= F, F <= x, x <= L, L < 2 * F, x >= 1, l < 2 * f,
         IF x < f THEN f = 2 * F /\ L = l \div 2 ELSE F = f /\ L = l,
         e >= 1, e \in f..l \/ e \in (f \div 2)..(l \div 2),
         \/ x < e /\ (x >= f <=> e >= f)
         \/ x >= f /\ e < f /\ e < x \div 2
  PROVE  /\ \/ F <= e /\ e <= L /\ x < e
            \/ e < F /\ e < x \div 2
         /\ x < f => F <= e
<1>1. CASE x = 1
  BY <1>1
<1>2. CASE x # 1
  <2>1. 2 <= x /\ F <= L
    BY <1>2
  <2>2. /\ \/ F <= e /\ e <= L /\ x < e
           \/ F \div 2 <= e /\ e <= L \div 2 /\ e < F /\ e < x \div 2
        /\ x < f => F <= e /\ e <= L /\ x < e
    BY <2>1, OthersOnFloors
  <2> QED BY <2>2
<1> QED BY <1>1, <1>2

LEMMA HeadPlaced ==
  StrongTypeOK /\ InLoop /\ FloorInv /\ QueueOrdered /\ FloorIsReal => HeadPlace
<1> SUFFICES ASSUME StrongTypeOK, InLoop, FloorInv, QueueOrdered, FloorIsReal PROVE HeadPlace
  OBVIOUS
<1> DEFINE x == QueueHead
<1>1. /\ nbOpened \in Nat /\ nbOpened >= 1 /\ Count \in 1..nbOpened
      /\ first \in Nat /\ last \in Nat /\ x \in Nat /\ Entry(0) = x
      /\ \A k \in 0..(Count - 1) : Entry(k) \in Nat
  BY QueueTypes
<1>2. PICK e \in 0..height : first = 2^e /\ last = LastOf(e)
  BY DEF FloorIsReal
<1>3. 1 <= first /\ first <= last /\ last < 2 * first /\ height \in Nat
  BY <1>1, <1>2, FloorBounds DEF FloorInv
<1>4. \A i \in 0..(Count - 1) : /\ OnFloors(Entry(i))
                                /\ \A j \in (i + 1)..(Count - 1) : Precedes(Entry(i), Entry(j))
  BY DEF QueueOrdered
<1>5. 0 \in 0..(Count - 1) /\ x \in LiveNodes
  BY <1>1 DEF LiveNodes
<1>6. x >= 1 /\ (x \in first..last \/ x \in (first \div 2)..(last \div 2))
  BY <1>1, <1>4, <1>5 DEF OnFloors
<1>7. /\ HeadFirst = IF x < first THEN first \div 2 ELSE first
      /\ HeadLast = IF x < first THEN last \div 2 ELSE last
  BY DEF HeadFirst, HeadLast, FloorOfHead
<1>8. /\ \E d \in 0..height : HeadFirst = 2^d /\ HeadLast = LastOf(d)
      /\ IF x < first THEN first = 2 * HeadFirst ELSE HeadFirst = first
  <2>1. CASE x < first
    <3>1. e # 0
      <4>1. e = 0 => first = 1
        BY <1>2, PowersOfTwo
      <4> QED BY <1>1, <1>6, <2>1, <4>1
    <3>2. e - 1 \in 0..height /\ e - 1 < height /\ (e - 1) + 1 = e
      BY <1>3, <3>1
    <3>3. 2^(e - 1) \in Nat /\ first = 2 * 2^(e - 1)
      BY <1>2, <3>2, FloorBounds
    <3>4. LastOf(e - 1) = last \div 2
      <4>1. pc # "malloc"
        BY DEF InLoop
      <4>2. LastOf(e - 1) = LastOf((e - 1) + 1) \div 2
        BY <3>2, <4>1, ExistsUpToLast
      <4> QED BY <1>2, <3>2, <4>2
    <3> QED BY <1>7, <2>1, <3>2, <3>3, <3>4
  <2>2. CASE ~(x < first)
    BY <1>2, <1>7, <2>2
  <2> QED BY <2>1, <2>2
<1>9. /\ HeadFirst \in Nat /\ HeadLast \in Nat /\ 1 <= HeadFirst
      /\ HeadFirst <= x /\ x <= HeadLast /\ HeadLast < 2 * HeadFirst
  <2>1. HeadFirst \in Nat /\ HeadLast \in Nat
    BY <1>1, <1>7
  <2>2. CASE x < first
    BY <1>1, <1>3, <1>6, <1>7, <1>8, <2>1, <2>2
  <2>3. CASE ~(x < first)
    BY <1>1, <1>3, <1>6, <1>7, <1>8, <2>1, <2>3
  <2> QED BY <2>1, <2>2, <2>3
<1>10. ASSUME NEW k \in 1..(Count - 1)
       PROVE  /\ Entry(k) \in Nat /\ Entry(k) >= 1
              /\ \/ HeadFirst <= Entry(k) /\ Entry(k) <= HeadLast /\ x < Entry(k)
                 \/ Entry(k) < HeadFirst /\ Entry(k) < x \div 2
              /\ x < first => HeadFirst <= Entry(k)
  <2>1. k \in 0..(Count - 1) /\ k \in (0 + 1)..(Count - 1)
    BY <1>1
  <2>2. /\ Entry(k) \in Nat /\ Entry(k) >= 1
        /\ Entry(k) \in first..last \/ Entry(k) \in (first \div 2)..(last \div 2)
        /\ \/ x < Entry(k) /\ (x >= first <=> Entry(k) >= first)
           \/ x >= first /\ Entry(k) < first /\ Entry(k) < x \div 2
    BY <1>1, <1>4, <1>5, <2>1 DEF OnFloors, Precedes
  <2>3. IF x < first THEN first = 2 * HeadFirst /\ HeadLast = last \div 2
                     ELSE HeadFirst = first /\ HeadLast = last
    BY <1>7, <1>8
  <2>4. x >= 1
    BY <1>6
  <2> HIDE DEF x
  <2> QED BY <1>1, <1>3, <1>9, <2>2, <2>3, <2>4, OtherPlaced
<1>11. ASSUME NEW z \in LiveNodes
       PROVE  z \in Nat /\ (z = x \/ z < HeadFirst \/ (x < z /\ z < 2 * HeadFirst))
  <2>1. PICK k \in 0..(Count - 1) : z = Entry(k)
    BY DEF LiveNodes
  <2>2. CASE k = 0
    BY <1>1, <2>1, <2>2
  <2>3. CASE k # 0
    <3>1. k \in 1..(Count - 1)
      BY <1>1, <2>3
    <3> QED BY <1>9, <1>10, <2>1, <3>1
  <2> QED BY <2>2, <2>3
<1> QED BY <1>1, <1>5, <1>8, <1>9, <1>10, <1>11 DEF HeadPlace

LEMMA NextHeadPlaced ==
  (StrongTypeOK /\ InLoop /\ FloorInv /\ QueueOrdered /\ FloorIsReal)' => HeadPlace'
BY HeadPlaced, PTL

\* The next entry is the sibling of a left head exactly when the sibling is in the
\* queue.
LEMMA SiblingFound ==
  ASSUME StrongTypeOK, InLoop, FloorInv, QueueOrdered, FloorIsReal, IsLeft
  PROVE  /\ SiblingQueued <=> QueueHead + 1 \in LiveNodes
         /\ SiblingQueued => Count >= 2 /\ Entry(1) = QueueHead + 1
<1>1. /\ start \in 0..(nbOpened - 1) /\ stop \in 0..(nbOpened - 1)
      /\ nbOpened \in Nat /\ nbOpened >= 1 /\ Count \in 1..nbOpened
      /\ first \in Nat /\ QueueHead \in Nat /\ Entry(0) = QueueHead
      /\ \A k \in 0..(Count - 1) : Entry(k) \in Nat
  BY QueueTypes
<1>2. SecondPos # stop <=> Count >= 2
  BY <1>1 DEF Count, SecondPos, Wrap
<1>3. Entry(1) = slots[SecondPos]
  <2>1. Pos(1) = SecondPos
    BY <1>1 DEF Pos, SecondPos, Wrap
  <2> QED BY <2>1 DEF Entry
<1>4. SiblingQueued <=> Count >= 2 /\ Entry(1) = QueueHead + 1
  BY <1>2, <1>3 DEF SiblingQueued
<1>5. Count >= 2 /\ Entry(1) = QueueHead + 1 => QueueHead + 1 \in LiveNodes
  BY <1>1 DEF LiveNodes
<1>6. ASSUME QueueHead + 1 \in LiveNodes PROVE Count >= 2 /\ Entry(1) = QueueHead + 1
  <2>1. PICK k \in 0..(Count - 1) : Entry(k) = QueueHead + 1
    BY <1>6 DEF LiveNodes
  <2>2. k # 0 /\ Count >= 2
    BY <1>1, <2>1
  <2>3. CASE k = 1
    BY <2>1, <2>2, <2>3
  <2>4. CASE k # 1
    <3>1. 1 \in 0..(Count - 1) /\ k \in (1 + 1)..(Count - 1) /\ 1 \in 1..(Count - 1)
      BY <1>1, <2>1, <2>2, <2>4
    <3>2. \/ Entry(1) < Entry(k) /\ (Entry(1) >= first <=> Entry(k) >= first)
          \/ Entry(1) >= first /\ Entry(k) < first /\ Entry(k) < Entry(1) \div 2
      BY <3>1 DEF QueueOrdered, Precedes
    <3>3. HeadPlace
      BY HeadPlaced
    <3>4. /\ HeadFirst \in Nat /\ HeadLast \in Nat /\ HeadFirst <= QueueHead
          /\ HeadLast < 2 * HeadFirst /\ Entry(1) \in Nat
          /\ \/ HeadFirst <= Entry(1) /\ Entry(1) <= HeadLast /\ QueueHead < Entry(1)
             \/ Entry(1) < HeadFirst
          /\ QueueHead < first => HeadFirst <= Entry(1)
          /\ IF QueueHead < first THEN first = 2 * HeadFirst ELSE HeadFirst = first
      BY <3>1, <3>3 DEF HeadPlace
    <3> QED BY <1>1, <2>1, <3>2, <3>4
  <2> QED BY <2>3, <2>4
<1> QED BY <1>4, <1>5, <1>6

-----------------------------------------------------------------------------
(* One iteration of the loop. *)

\* The frontier moves past the head x of floor F (and past its sibling if two is
\* TRUE) to the new head w of floor G, in terms of the nodes of the paths and of
\* the nodes in the queue before and after: P, Q and R.
LEMMA FrontierMoves ==
  ASSUME NEW P \in SUBSET Nat, NEW Q \in SUBSET Nat, NEW R \in SUBSET Nat,
         NEW F \in Nat, NEW x \in Nat, NEW G \in Nat, NEW w \in Nat, NEW H \in Nat,
         NEW n \in 1..2,
         1 <= F, F <= x, x < 2 * F, F <= H, 2 <= x, 1 <= G, G <= w, w < 2 * G,
         IF w < F THEN F = 2 * G ELSE G = F,
         G # 1 => G % 2 = 0,
         \A y \in P : y < H => 2 * y \in P \/ 2 * y + 1 \in P,
         \A z \in Nat : z \in R <=> \/ z = x \div 2
                                    \/ z \in Q /\ z # x /\ (n = 2 => z # x + 1),
         \A z \in Q : z = x \/ x < z \/ z < F,
         w \in R, \A z \in R : z = w \/ (w < z /\ z < 2 * G) \/ z < G,
         \A y \in P : F <= y /\ y < 2 * F /\ x <= y => y \in Q,
         \A y \in P : F <= y /\ y < x => y \div 2 \in Q,
         n = 2 => x % 2 = 0 /\ x + 1 < 2 * F,
         n = 1 /\ x % 2 = 0 => x + 1 \notin Q
  PROVE  /\ \A y \in P : (y >= 2 * G \/ (G <= y /\ y < w))
                           <=> \/ y >= 2 * F \/ (F <= y /\ y < x)
                               \/ y = x \/ (n = 2 /\ y = x + 1)
         /\ \A y \in P : G <= y /\ y < 2 * G /\ w <= y => y \in R
         /\ \A y \in P : G <= y /\ y < w => y \div 2 \in R
         /\ w % 2 # 0 /\ w # 1 => w - 1 \notin P
<1> DEFINE Gone(y) == y = x \/ (n = 2 /\ y = x + 1)
<1>1. ASSUME NEW y \in P, F <= y, y < 2 * F, x <= y, ~Gone(y)
      PROVE  y \in R /\ y \in Nat
  BY <1>1
<1>2. ASSUME NEW y \in P, F <= y, y < x \/ Gone(y)
      PROVE  y \div 2 \in R
  <2>1. CASE y < x
    <3>1. y \div 2 \in Q /\ y \div 2 \in Nat /\ y \div 2 < F
      BY <1>2, <2>1
    <3> QED BY <3>1
  <2>2. CASE Gone(y)
    <3>1. y \div 2 = x \div 2 /\ x \div 2 \in Nat
      BY <2>2
    <3> QED BY <3>1
  <2> QED BY <1>2, <2>1, <2>2
<1>3. CASE w < F
  <2>1. F = 2 * G
    BY <1>3
  <2>2. ASSUME NEW y \in P, F <= y, y < 2 * F PROVE y < x \/ Gone(y)
    <3>1. y \notin R
      BY <1>3, <2>1, <2>2
    <3>2. y \in Nat
      OBVIOUS
    <3> QED BY <1>1, <2>2, <3>1, <3>2
  <2>3. ASSUME NEW y \in P, G <= y, y < 2 * G PROVE y \in R
    <3>1. PICK c \in P : c = 2 * y \/ c = 2 * y + 1
      BY <2>1, <2>3
    <3>2. F <= c /\ c < 2 * F /\ c \div 2 = y
      BY <2>1, <2>3, <3>1
    <3> QED BY <1>2, <2>2, <3>2
  <2>4. ASSUME NEW y \in P PROVE ~(G <= y /\ y < w)
    BY <2>3, <2>4
  <2>5. ASSUME NEW y \in P
        PROVE (y >= 2 * G \/ (G <= y /\ y < w))
                <=> y >= 2 * F \/ (F <= y /\ y < x) \/ Gone(y)
    <3>1. y \in Nat
      OBVIOUS
    <3>2. CASE y >= F
      <4>1. y >= 2 * F \/ y < x \/ Gone(y)
        BY <2>2, <3>1, <3>2
      <4> QED BY <2>1, <3>1, <3>2, <4>1
    <3>3. CASE ~(y >= F)
      BY <2>1, <2>4, <3>1, <3>3
    <3> QED BY <3>2, <3>3
  <2>6. w % 2 # 0 /\ w # 1 => w - 1 \notin P
    <3>1. w % 2 # 0 /\ w # 1 => G <= w - 1 /\ w - 1 < w
      OBVIOUS
    <3> QED BY <2>4, <3>1
  <2> QED BY <2>3, <2>4, <2>5, <2>6
<1>4. CASE ~(w < F)
  <2>1. G = F
    BY <1>4
  <2>2. w \in Q /\ x < w /\ ~Gone(w)
    BY <1>4
  <2>3. ASSUME NEW y \in P, F <= y, y < w PROVE y < x \/ Gone(y)
    <3>1. y \notin R
      BY <2>1, <2>3
    <3>2. y \in Nat /\ y < 2 * F
      BY <2>1, <2>3
    <3> QED BY <1>1, <2>3, <3>1, <3>2
  <2>4. \A y \in P : y < x \/ Gone(y) => y < w
    <3>1. n = 2 => x + 1 < w
      BY <2>2
    <3> QED BY <2>2, <3>1
  <2>5. ASSUME NEW y \in P
        PROVE (y >= 2 * G \/ (G <= y /\ y < w))
                <=> y >= 2 * F \/ (F <= y /\ y < x) \/ Gone(y)
    <3>1. y \in Nat
      OBVIOUS
    <3>2. Gone(y) => F <= y
      OBVIOUS
    <3> QED BY <2>1, <2>3, <2>4, <3>1, <3>2
  <2>6. \A y \in P : G <= y /\ y < 2 * G /\ w <= y => y \in R
    BY <1>1, <2>1, <2>2, <2>4
  <2>7. \A y \in P : G <= y /\ y < w => y \div 2 \in R
    BY <1>2, <2>1, <2>3
  <2>8. w % 2 # 0 /\ w # 1 => w - 1 \notin P
    <3> SUFFICES ASSUME w % 2 # 0, w # 1, w - 1 \in P PROVE FALSE
      OBVIOUS
    <3>1. F <= w - 1 /\ w - 1 < w /\ x <= w - 1
      BY <2>1, <2>2
    <3>2. Gone(w - 1)
      BY <2>3, <3>1
    <3>3. CASE w - 1 = x
      <4>1. w = x + 1 /\ x % 2 = 0
        BY <3>3
      <4> QED BY <2>2, <4>1
    <3>4. CASE n = 2 /\ w - 1 = x + 1
      BY <3>4
    <3> QED BY <3>2, <3>3, <3>4
  <2> QED BY <2>5, <2>6, <2>7, <2>8
<1> QED BY <1>3, <1>4

\* The nodes in the queue after an iteration.
LEMMA LiveStep ==
  ASSUME StrongTypeOK, InLoop, FloorInv, QueueOrdered, FloorIsReal,
         NEW n \in 1..2, Shift(n), UNCHANGED shape, n = 2 => Paired
  PROVE  /\ n = 2 => IsLeft /\ QueueHead + 1 \in LiveNodes
         /\ \A z \in Nat : z \in LiveNodes' <=>
                             \/ z = QueueHead \div 2
                             \/ /\ z \in LiveNodes /\ z # QueueHead
                                /\ n = 2 => z # QueueHead + 1
<1> DEFINE x == QueueHead
<1>1. /\ nbOpened \in Nat /\ Count \in 1..nbOpened /\ x \in Nat /\ Entry(0) = x /\ first \in Nat
      /\ \A k \in 0..(Count - 1) : Entry(k) \in Nat
  BY QueueTypes
<1>2. n = 2 => SecondPos # stop
  BY DEF Paired, SiblingQueued
<1>3. FifoStep(n) /\ n <= Count /\ Count' = Count - n + 1
  BY <1>2, ShiftIsFifo, ShiftPositions
<1>4. n = 2 => IsLeft /\ Entry(1) = x + 1 /\ x + 1 \in LiveNodes
  <2>1. n = 2 => IsLeft /\ SiblingQueued
    BY DEF Paired, SiblingQueued
  <2> QED BY <2>1, SiblingFound
<1>5. ASSUME NEW i \in 0..(Count - 1), NEW j \in 0..(Count - 1), i < j
      PROVE  Entry(i) # Entry(j)
  <2>1. j \in (i + 1)..(Count - 1)
    BY <1>1, <1>5
  <2>2. Precedes(Entry(i), Entry(j))
    BY <2>1 DEF QueueOrdered
  <2>3. Entry(i) \in Nat /\ Entry(j) \in Nat
    BY <1>1
  <2> QED BY <1>1, <2>2, <2>3 DEF Precedes
<1>6. ASSUME NEW k \in n..(Count - 1)
      PROVE  Entry(k) # x /\ (n = 2 => Entry(k) # x + 1)
  <2>1. k \in 0..(Count - 1) /\ 0 \in 0..(Count - 1) /\ 0 < k
    BY <1>1, <1>3
  <2>2. n = 2 => 1 \in 0..(Count - 1) /\ 1 < k
    BY <1>1, <1>3
  <2> QED BY <1>1, <1>4, <1>5, <2>1, <2>2
<1>7. ASSUME NEW z \in LiveNodes'
      PROVE  z = x \div 2 \/ \E k \in n..(Count - 1) : Entry(k) = z
  <2>1. PICK k \in 0..(Count' - 1) : z = Entry(k)'
    BY <1>7 DEF LiveNodes
  <2>2. CASE k = Count - n
    <3>1. Entry(Count - 1)' = x \div 2 /\ k = Count' - 1
      BY <1>1, <1>3, <2>2 DEF FifoStep
    <3> QED BY <2>1, <3>1
  <2>3. CASE k # Count - n
    <3>1. k \in 0..(Count - n - 1) /\ k + n \in n..(Count - 1)
      BY <1>1, <1>3, <2>3
    <3>2. z = Entry(k + n)
      BY <1>3, <2>1, <3>1 DEF FifoStep
    <3> QED BY <3>1, <3>2
  <2> QED BY <2>2, <2>3
<1>8. ASSUME NEW k \in n..(Count - 1) PROVE Entry(k) \in LiveNodes' /\ Entry(k) \in LiveNodes
  <2>1. /\ k - n \in 0..(Count - n - 1) /\ (k - n) + n = k /\ k - n \in 0..(Count' - 1)
        /\ k \in 0..(Count - 1)
    BY <1>1, <1>3
  <2>2. Entry(k - n)' = Entry(k)
    BY <1>3, <2>1 DEF FifoStep
  <2> QED BY <2>1, <2>2 DEF LiveNodes
<1>9. x \div 2 \in LiveNodes'
  <2>1. Entry(Count - 1)' = x \div 2 /\ Count' - 1 \in 0..(Count' - 1)
    BY <1>1, <1>3 DEF FifoStep
  <2> QED BY <2>1 DEF LiveNodes
<1>10. ASSUME NEW z \in LiveNodes, z # x, n = 2 => z # x + 1
       PROVE  \E k \in n..(Count - 1) : Entry(k) = z
  <2>1. PICK k \in 0..(Count - 1) : Entry(k) = z
    BY DEF LiveNodes
  <2>2. k # 0 /\ (n = 2 => k # 1)
    BY <1>1, <1>4, <1>10, <2>1
  <2>3. k \in n..(Count - 1)
    BY <1>1, <2>2
  <2> QED BY <2>1, <2>3
<1> HIDE DEF x
<1>11. \A z \in Nat : z \in LiveNodes' <=> \/ z = x \div 2
                                           \/ z \in LiveNodes /\ z # x /\ (n = 2 => z # x + 1)
  BY <1>6, <1>7, <1>8, <1>9, <1>10
<1> QED BY <1>4, <1>11 DEF x

\* An iteration handles the head, and its sibling when it finds it in the queue.
LEMMA WalkStep ==
  ASSUME StrongTypeOK, StrongTypeOK', InLoop, Walk, QueueHead # 1,
         NEW n \in 1..2, Shift(n), UNCHANGED <<pc, shape, treeVars>>,
         n = 2 => Paired, n = 1 => ~Paired
  PROVE  /\ Walk'
         /\ QueueHead \in OnPath /\ ~Handled(QueueHead)
         /\ n = 2 => QueueHead + 1 \in OnPath /\ ~Handled(QueueHead + 1)
         /\ OnPath' = OnPath
         /\ \A y : Handled(y)' <=> \/ Handled(y) \/ y = QueueHead
                                   \/ n = 2 /\ y = QueueHead + 1
<1> DEFINE x == QueueHead
           F == HeadFirst
           G == HeadFirst'
           w == QueueHead'
           H == 2^height
<1>0. UNCHANGED <<nbLeaves, nbOpened, height, nodes, leaves>> /\ pc # "malloc" /\ InLoop'
  BY DEF shape, treeVars, Shift, InLoop
<1>1. OnPath' = OnPath /\ (\A d : LastOf(d)' = LastOf(d))
  BY <1>0, TreeFrame DEF OnPath
<1>2. HeadPlace
  BY HeadPlaced DEF Walk
<1>3. FloorInv' /\ QueueOrdered'
  BY ShiftKeepsOrder DEF Walk
<1>4. FloorIsReal' /\ first' = F
  <2>1. first' = HeadFirst /\ last' = HeadLast
    BY DEF Shift, HeadFirst, HeadLast
  <2>2. PICK d \in 0..height : HeadFirst = 2^d /\ HeadLast = LastOf(d)
    BY <1>2 DEF HeadPlace
  <2> QED BY <1>0, <1>1, <2>1, <2>2 DEF FloorIsReal
<1>5. HeadPlace'
  BY <1>0, <1>3, <1>4, NextHeadPlaced
<1>6. /\ F \in Nat /\ x \in Nat /\ G \in Nat /\ w \in Nat
      /\ 1 <= F /\ F <= x /\ x < 2 * F /\ 1 <= G /\ G <= w /\ w < 2 * G
      /\ IF w < F THEN F = 2 * G ELSE G = F
      /\ HeadLast \in Nat /\ x <= HeadLast /\ HeadLast < 2 * F
  <2>1. /\ F \in Nat /\ x \in Nat /\ 1 <= F /\ F <= x /\ x < 2 * F
        /\ HeadLast \in Nat /\ x <= HeadLast /\ HeadLast < 2 * F
    BY <1>2 DEF HeadPlace
  <2>2. /\ G \in Nat /\ w \in Nat /\ 1 <= G /\ G <= w /\ w < 2 * G
        /\ IF w < first' THEN first' = 2 * G ELSE G = first'
    BY <1>5 DEF HeadPlace
  <2> QED BY <1>4, <2>1, <2>2
<1>7. F <= 2^height /\ 2^height \in Nat
  <2>1. PICK d \in 0..height : F = 2^d
    BY <1>2 DEF HeadPlace
  <2>2. height \in 0..MaxHeight
    BY DEF StrongTypeOK, TypeOK
  <2> QED BY <2>1, <2>2, PowersOfTwo
<1>8. G # 1 => G % 2 = 0
  <2>1. PICK d \in 0..height : G = 2^d
    BY <1>0, <1>5 DEF HeadPlace
  <2>2. CASE d = 0
    BY <2>1, <2>2, PowersOfTwo
  <2>3. CASE d # 0
    <3>1. d - 1 \in 0..height /\ (d - 1) + 1 = d
      BY <2>3, FloorBounds
    <3>2. 2^(d - 1) \in Nat /\ G = 2 * 2^(d - 1)
      BY <2>1, <3>1, FloorBounds
    <3> QED BY <3>2
  <2> QED BY <2>2, <2>3
<1>9. /\ LiveNodes \subseteq OnPath /\ OnPath \subseteq Nat
      /\ \A y \in OnPath : y < 2^height => 2 * y \in OnPath \/ 2 * y + 1 \in OnPath
      /\ \A y \in OnPath : y >= 2 => y \div 2 \in OnPath
  BY <1>0, PathFacts DEF Walk, Frontier
<1>10. LiveNodes' \subseteq OnPath
  <2>1. LiveNodes' \subseteq Nat
    BY <1>5 DEF HeadPlace
  <2>2. x >= 2 /\ x \in OnPath
    BY <1>2, <1>6, <1>9 DEF HeadPlace
  <2>3. x \div 2 \in OnPath
    BY <1>9, <2>2
  <2>4. \A z \in Nat : z \in LiveNodes' => z = x \div 2 \/ z \in LiveNodes
    BY LiveStep DEF Walk
  <2> QED BY <1>9, <2>1, <2>3, <2>4
<1>11. \A z \in LiveNodes : z = x \/ x < z \/ z < F
  BY <1>2 DEF HeadPlace
<1>12. w \in LiveNodes' /\ \A z \in LiveNodes' : z = w \/ (w < z /\ z < 2 * G) \/ z < G
  BY <1>5 DEF HeadPlace
<1>13. n = 2 => x % 2 = 0 /\ x + 1 \in LiveNodes /\ x + 1 < 2 * F
  <2>1. n = 2 => x % 2 = 0 /\ x + 1 \in LiveNodes
    BY LiveStep DEF IsLeft, Walk
  <2>2. n = 2 => x + 1 = x \/ x + 1 < F \/ x + 1 < 2 * F
    BY <1>2, <2>1 DEF HeadPlace
  <2> QED BY <1>6, <2>1, <2>2
<1>14. n = 1 /\ x % 2 = 0 => x + 1 \notin LiveNodes
  <2> SUFFICES ASSUME n = 1, IsLeft, x + 1 \in LiveNodes PROVE FALSE
    BY DEF IsLeft
  <2>1. SiblingQueued
    BY SiblingFound DEF Walk
  <2>2. Alone
    BY <2>1 DEF Paired
  <2>3. x = HeadLast
    BY <2>2 DEF Alone, HeadLast
  <2>4. x + 1 <= HeadLast
    <3>1. PICK k \in 0..(Count - 1) : Entry(k) = x + 1
      BY DEF LiveNodes
    <3>2. k # 0 /\ k \in 1..(Count - 1)
      BY <1>6, <3>1, QueueTypes
    <3> QED BY <1>2, <1>6, <3>1, <3>2 DEF HeadPlace
  <2> QED BY <1>6, <2>3, <2>4
<1>15. /\ \A y \in OnPath : F <= y /\ y < 2 * F /\ x <= y => y \in LiveNodes
       /\ \A y \in OnPath : F <= y /\ y < x => y \div 2 \in LiveNodes
  BY DEF Walk, Frontier
<1>16. \A z \in Nat : z \in LiveNodes' <=> \/ z = x \div 2
                                           \/ z \in LiveNodes /\ z # x /\ (n = 2 => z # x + 1)
  BY LiveStep DEF Walk
<1>17. LiveNodes \in SUBSET Nat /\ LiveNodes' \in SUBSET Nat /\ OnPath \in SUBSET Nat /\ 2 <= x
  BY <1>6, <1>9, <1>10
<1> HIDE DEF x, F, G, w, H
<1>23. /\ OnPath \in SUBSET Nat /\ LiveNodes \in SUBSET Nat /\ LiveNodes' \in SUBSET Nat
       /\ F \in Nat /\ x \in Nat /\ G \in Nat /\ w \in Nat /\ H \in Nat
       /\ 1 <= F /\ F <= x /\ x < 2 * F /\ F <= H /\ 2 <= x /\ 1 <= G /\ G <= w /\ w < 2 * G
       /\ IF w < F THEN F = 2 * G ELSE G = F
       /\ G # 1 => G % 2 = 0
  BY <1>6, <1>7, <1>8, <1>17 DEF H
<1>24. \A y \in OnPath : y < H => 2 * y \in OnPath \/ 2 * y + 1 \in OnPath
  BY <1>9 DEF H
<1>18. /\ \A y \in OnPath : (y >= 2 * G \/ (G <= y /\ y < w))
                              <=> \/ y >= 2 * F \/ (F <= y /\ y < x)
                                  \/ y = x \/ (n = 2 /\ y = x + 1)
       /\ \A y \in OnPath : G <= y /\ y < 2 * G /\ w <= y => y \in LiveNodes'
       /\ \A y \in OnPath : G <= y /\ y < w => y \div 2 \in LiveNodes'
       /\ w % 2 # 0 /\ w # 1 => w - 1 \notin OnPath
  BY <1>11, <1>12, <1>13, <1>14, <1>15, <1>16, <1>23, <1>24, FrontierMoves
<1>19. Frontier'
  <2>1. IsLeft' <=> w % 2 = 0
    BY DEF IsLeft, w
  <2> QED BY <1>1, <1>10, <1>18, <2>1 DEF Frontier, w, G
<1>20. x \in OnPath /\ (n = 2 => x + 1 \in OnPath)
  BY <1>2, <1>9, <1>13 DEF HeadPlace, x
<1>21. ~Handled(x) /\ (n = 2 => ~Handled(x + 1))
  <2>1. ~(x >= 2 * F) /\ ~(x < x) /\ ~(x + 1 < x) /\ (n = 2 => ~(x + 1 >= 2 * F))
    BY <1>6, <1>13
  <2> QED BY <2>1 DEF Handled, x, F
<1>22. ASSUME NEW y
       PROVE  Handled(y)' <=> Handled(y) \/ y = x \/ (n = 2 /\ y = x + 1)
  <2>1. Handled(y)' <=> y \in OnPath /\ (y >= 2 * G \/ (G <= y /\ y < w))
    BY <1>1 DEF Handled, G, w
  <2>2. Handled(y) <=> y \in OnPath /\ (y >= 2 * F \/ (F <= y /\ y < x))
    BY DEF Handled, F, x
  <2> QED BY <1>18, <1>20, <2>1, <2>2
<1> QED BY <1>1, <1>3, <1>4, <1>19, <1>20, <1>21, <1>22 DEF Walk, x

-----------------------------------------------------------------------------
(* The start of the loop. *)

\* The paths stay in the tree, as in PathFacts.
PathsInTree ==
  /\ \A y \in OnPath : y \in 1..NbNodes
  /\ \A k \in 0..(nbOpened - 1) : 2^height + leaves[k] \in OnPath
  /\ \A y \in OnPath : y >= 2^height => \E k \in 0..(nbOpened - 1) : y = 2^height + leaves[k]

LEMMA NextPaths == (StrongTypeOK /\ pc # "malloc")' => PathsInTree'
<1>1. StrongTypeOK /\ pc # "malloc" => PathsInTree
  BY PathFacts DEF PathsInTree
<1> QED BY <1>1, PTL

LEMMA WalkStarts ==
  ASSUME StrongTypeOK, StrongTypeOK', pc # "malloc", InLoop', NEW indexes \in LeafChoices,
         StartLoop(2^height, indexes), UNCHANGED <<shape, treeVars>>
  PROVE  Walk' /\ \A y : ~Handled(y)'
<1> DEFINE w == QueueHead'
           H == 2^height
<1>0. UNCHANGED <<nbLeaves, nbOpened, height, nodes>> /\ leaves' = indexes /\ pc' # "malloc"
  BY DEF shape, treeVars, StartLoop, InLoop
<1>1. /\ NbNodes' = NbNodes /\ (\A d : LastOf(d)' = LastOf(d)) /\ NbNodes \in Nat
      /\ H \in Nat \ {0} /\ NbNodes < 2 * H /\ nbLeaves <= H /\ height \in 0..MaxHeight
      /\ nbOpened \in Nat /\ nbOpened >= 1 /\ height \in 0..height
  <2>1. NbNodes' = NbNodes /\ (\A d : LastOf(d)' = LastOf(d))
    BY <1>0, TreeFrame
  <2>2. /\ NbNodes \in Nat /\ H \in Nat \ {0} /\ NbNodes < 2 * H /\ height \in Nat
    BY NodeCount
  <2>3. nbLeaves <= H /\ nbOpened \in Nat /\ nbOpened >= 1
    BY Sizes
  <2>4. height \in 0..MaxHeight
    BY DEF StrongTypeOK, TypeOK
  <2> QED BY <2>1, <2>2, <2>3, <2>4
<1>2. FloorInv' /\ QueueOrdered'
  <2>1. UNCHANGED shape
    OBVIOUS
  <2> QED BY <1>1, <2>1, StartLoopOrder
<1>3. first' = H /\ last' = NbNodes /\ start' = 0 /\ stop' = 0
  BY DEF StartLoop, NbNodes
<1>4. FloorIsReal'
  <2>1. LastOf(height) = NbNodes
    BY <1>1, ExistsUpToLast
  <2> QED BY <1>0, <1>1, <1>3, <2>1 DEF FloorIsReal
<1>5. HeadPlace'
  BY <1>2, <1>4, NextHeadPlaced
<1>6. PathsInTree'
  BY <1>0, NextPaths
<1>7. ASSUME NEW k \in 0..(nbOpened - 1) PROVE Entry(k)' = H + indexes[k]
  <2>1. Pos(k)' = k
    BY <1>0, <1>1, <1>3 DEF Pos
  <2> QED BY <2>1 DEF Entry, StartLoop
<1>8. Count' = nbOpened
  BY <1>0, <1>1, <1>3 DEF Count
<1>9. LiveNodes' = {H + indexes[k] : k \in 0..(nbOpened - 1)}
  BY <1>7, <1>8 DEF LiveNodes
<1>10. /\ LiveNodes' \subseteq OnPath' /\ \A y \in OnPath' : y >= H => y \in LiveNodes'
       /\ OnPath' \subseteq 1..NbNodes
  BY <1>0, <1>1, <1>6, <1>9 DEF PathsInTree
<1>11. w \in Nat /\ w \in LiveNodes' /\ \A z \in LiveNodes' : z \in Nat /\ z >= H
  <2>1. w \in Nat /\ w \in LiveNodes'
    BY <1>5 DEF HeadPlace
  <2>2. ASSUME NEW k \in 0..(nbOpened - 1) PROVE H + indexes[k] \in Nat /\ H + indexes[k] >= H
    BY <1>1, Sizes DEF LeafChoices
  <2> QED BY <1>9, <2>1, <2>2
<1>12. HeadFirst' = H
  BY <1>1, <1>3, <1>11 DEF HeadFirst, FloorOfHead
<1>13. \A y \in OnPath' : ~(H <= y /\ y < w)
  <2>1. \A z \in LiveNodes' : z = w \/ z < H \/ w < z
    BY <1>5, <1>12 DEF HeadPlace
  <2> QED BY <1>1, <1>10, <1>11, <2>1
<1>14. w % 2 # 0 /\ w # 1 => w - 1 \notin OnPath'
  <2>1. height = 0 => H = 1
    BY PowersOfTwo
  <2>2. height # 0 => H % 2 = 0
    <3> SUFFICES ASSUME height # 0 PROVE H % 2 = 0
      OBVIOUS
    <3>1. height - 1 \in 0..height /\ (height - 1) + 1 = height
      BY <1>1, MaxHeightIsNat
    <3>2. 2^(height - 1) \in Nat /\ H = 2 * 2^(height - 1)
      BY <3>1, FloorBounds
    <3> QED BY <3>2
  <2>3. w % 2 # 0 /\ w # 1 => H <= w - 1 /\ w - 1 < w
    <3>1. w < 2 * H /\ H <= w
      BY <1>5, <1>12 DEF HeadPlace
    <3> HIDE DEF w, H
    <3> QED BY <1>1, <1>11, <2>1, <2>2, <3>1
  <2> QED BY <1>13, <2>3
<1>15. Frontier'
  <2>1. IsLeft' <=> w % 2 = 0
    BY DEF IsLeft
  <2> QED BY <1>10, <1>12, <1>13, <1>14, <2>1 DEF Frontier
<1>16. ASSUME NEW y PROVE ~Handled(y)'
  <2>1. y \in OnPath' => ~(y >= 2 * H)
    BY <1>1, <1>10
  <2> QED BY <1>12, <1>13, <2>1 DEF Handled
<1> QED BY <1>2, <1>4, <1>15, <1>16 DEF Walk

-----------------------------------------------------------------------------
(* The siblings that have to be given.                                     *)

SiblingOf(y) == IF y % 2 = 0 THEN y + 1 ELSE y - 1

LEMMA Siblings ==
  ASSUME NEW y \in Nat
  PROVE  /\ SiblingOf(SiblingOf(y)) = y
         /\ y >= 2 => SiblingOf(y) \in Nat /\ SiblingOf(y) >= 2 /\ SiblingOf(y) \div 2 = y \div 2
         /\ \A p \in Nat : y \div 2 = p => SiblingOf(y) \in {2 * p, 2 * p + 1} /\ y \in {2 * p, 2 * p + 1}
<1>1. y % 2 \in {0, 1} /\ y = 2 * (y \div 2) + (y % 2) /\ y \div 2 \in Nat
  BY Halves
<1>2. CASE y % 2 = 0
  <2>1. SiblingOf(y) = y + 1 /\ (y + 1) % 2 # 0
    BY <1>1, <1>2 DEF SiblingOf
  <2>2. SiblingOf(y + 1) = y
    BY <2>1 DEF SiblingOf
  <2> QED BY <1>1, <1>2, <2>1, <2>2
<1>3. CASE y % 2 = 1
  <2>1. SiblingOf(y) = y - 1 /\ (y - 1) % 2 = 0
    BY <1>1, <1>3 DEF SiblingOf
  <2>2. SiblingOf(y - 1) = y
    BY <2>1 DEF SiblingOf
  <2> QED BY <1>1, <1>3, <2>1, <2>2
<1> QED BY <1>1, <1>2, <1>3

Needed == {i \in (2..NbNodes) \ OnPath : Exists(i) /\ i \div 2 \in OnPath}

\* The loop handles node u before node v.
Earlier(u, v) == \E d \in 0..height : \/ v < 2^d /\ 2^d <= u
                                      \/ 2^d <= u /\ u < v /\ v < 2 * 2^d

RevealedInOrder ==
  \A j \in 1..Len(revealed) : \A i \in 1..(j - 1) :
    Earlier(SiblingOf(revealed[i]), SiblingOf(revealed[j]))

LEMMA NeededFrame ==
  ASSUME UNCHANGED <<nbLeaves, nbOpened, height, nodes, leaves>>
  PROVE  OnPath' = OnPath /\ Needed' = Needed
<1>1. OnPath' = OnPath
  BY DEF OnPath
<1>2. NbNodes' = NbNodes /\ \A i : Exists(i)' <=> Exists(i)
  BY TreeFrame
<1> QED BY <1>1, <1>2 DEF Needed

\* What has been handled was handled before the head.
LEMMA HeadIsNext ==
  ASSUME StrongTypeOK, InLoop, Walk, NEW u, Handled(u)
  PROVE  Earlier(u, QueueHead)
<1>1. HeadPlace
  BY HeadPlaced DEF Walk
<1>2. PICK d \in 0..height : HeadFirst = 2^d
  BY <1>1 DEF HeadPlace
<1>3. /\ QueueHead \in Nat /\ HeadFirst \in Nat
      /\ HeadFirst <= QueueHead /\ QueueHead < 2 * HeadFirst
  BY <1>1 DEF HeadPlace
<1>4. u \in Nat /\ u < 2 * 2^height /\ 2^height \in Nat /\ height \in Nat
  BY NodeCount, PathFacts DEF Handled, InLoop
<1>5. CASE u >= 2 * HeadFirst
  <2>1. d # height
    BY <1>2, <1>3, <1>4, <1>5
  <2>2. d + 1 \in 0..height /\ 2^(d + 1) = 2 * HeadFirst
    BY <1>2, <1>4, <2>1, FloorBounds
  <2> QED BY <1>3, <1>5, <2>2 DEF Earlier
<1>6. CASE ~(u >= 2 * HeadFirst)
  <2>1. HeadFirst <= u /\ u < QueueHead
    BY <1>6 DEF Handled
  <2> QED BY <1>2, <1>3, <2>1 DEF Earlier
<1> QED BY <1>5, <1>6

\* What the head comes after has been handled, if it is on a path.
LEMMA EarlierIsHandled ==
  ASSUME StrongTypeOK, InLoop, Walk, NEW u \in OnPath, Earlier(u, QueueHead)
  PROVE  Handled(u)
<1>1. HeadPlace
  BY HeadPlaced DEF Walk
<1>2. PICK d \in 0..height : HeadFirst = 2^d
  BY <1>1 DEF HeadPlace
<1>3. /\ QueueHead \in Nat /\ HeadFirst \in Nat
      /\ HeadFirst <= QueueHead /\ QueueHead < 2 * HeadFirst /\ u \in Nat
  BY <1>1, PathFacts DEF HeadPlace, InLoop
<1>4. PICK e \in 0..height : \/ QueueHead < 2^e /\ 2^e <= u
                             \/ 2^e <= u /\ u < QueueHead /\ QueueHead < 2 * 2^e
  BY DEF Earlier
<1>5. 2^e \in Nat /\ height \in 0..MaxHeight /\ e \in 0..MaxHeight /\ height \in Nat
  BY FloorBounds DEF StrongTypeOK, TypeOK
<1>6. CASE QueueHead < 2^e /\ 2^e <= u
  <2>1. ~(e <= d)
    <3>1. e \in 0..d => 2^e <= 2^d
      BY FloorBounds, PowersOfTwo
    <3> QED BY <1>2, <1>3, <1>5, <1>6, <3>1
  <2>2. d + 1 \in 0..e /\ d \in 0..height
    BY <1>5, <2>1
  <2>3. 2^(d + 1) = 2 * 2^d /\ 2^(d + 1) <= 2^e
    BY <1>5, <2>2, FloorBounds, PowersOfTwo
  <2>4. u >= 2 * HeadFirst
    BY <1>2, <1>3, <1>5, <1>6, <2>3
  <2> QED BY <2>4 DEF Handled
<1>7. CASE 2^e <= u /\ u < QueueHead /\ QueueHead < 2 * 2^e
  <2>1. ~(e + 1 <= d)
    <3>1. e + 1 \in 0..d => 2^(e + 1) <= 2^d
      BY FloorBounds, PowersOfTwo
    <3>2. 2^(e + 1) = 2 * 2^e
      BY FloorBounds
    <3> QED BY <1>2, <1>3, <1>5, <1>7, <3>1, <3>2
  <2>2. d \in 0..e
    BY <1>5, <2>1
  <2>3. HeadFirst <= 2^e
    BY <1>2, <1>5, <2>2, PowersOfTwo
  <2>4. HeadFirst <= u /\ u < QueueHead
    BY <1>3, <1>5, <1>7, <2>3
  <2> QED BY <2>4 DEF Handled
<1> QED BY <1>4, <1>6, <1>7

\* A sibling has to be given exactly when it is in the tree and not on a path.
LEMMA GivenIsNeeded ==
  ASSUME StrongTypeOK, InLoop, Walk, QueueHead # 1
  PROVE  /\ Sibling = SiblingOf(QueueHead)
         /\ Given <=> SiblingOf(QueueHead) \in Needed
<1> DEFINE x == QueueHead
<1>0. pc # "malloc"
  BY DEF InLoop
<1>1. HeadPlace
  BY HeadPlaced DEF Walk
<1>2. PICK d \in 0..height : HeadFirst = 2^d /\ HeadLast = LastOf(d)
  BY <1>1 DEF HeadPlace
<1>3. /\ x \in Nat /\ HeadFirst \in Nat /\ HeadLast \in Nat /\ 1 <= HeadFirst
      /\ HeadFirst <= x /\ x <= HeadLast /\ HeadLast < 2 * HeadFirst /\ x \in LiveNodes
  BY <1>1 DEF HeadPlace
<1>4. Sibling = SiblingOf(x)
  BY DEF Sibling, SiblingOf, IsLeft
<1>5. x >= 2 /\ x \in OnPath
  BY <1>3 DEF Walk, Frontier
<1>6. x \div 2 \in OnPath /\ SiblingOf(x) \in Nat /\ SiblingOf(x) >= 2
      /\ SiblingOf(x) \div 2 = x \div 2
  BY <1>0, <1>3, <1>5, PathFacts, Siblings
<1>7. /\ HeadLast <= NbNodes /\ NbNodes \in Nat
      /\ \A i \in Nat : HeadFirst <= i /\ i < 2 * HeadFirst => (Exists(i) <=> i <= HeadLast)
  BY <1>0, <1>2, ExistsUpToLast, NodeCount
<1>8. CASE IsLeft
  <2>1. SiblingOf(x) = x + 1 /\ x + 1 < 2 * HeadFirst
    BY <1>3, <1>8 DEF SiblingOf, IsLeft
  <2>2. Alone <=> x = HeadLast
    BY <1>8 DEF Alone, HeadLast
  <2>3. Exists(x + 1) <=> ~Alone
    BY <1>3, <1>7, <2>1, <2>2
  <2>4. SiblingQueued <=> x + 1 \in OnPath
    <3>1. SiblingQueued <=> x + 1 \in LiveNodes
      BY <1>8, SiblingFound DEF Walk
    <3>2. x + 1 \in OnPath => x + 1 \in LiveNodes
      BY <1>3, <2>1 DEF Walk, Frontier
    <3> QED BY <3>1, <3>2 DEF Walk, Frontier
  <2>5. ~Alone => x + 1 \in 2..NbNodes
    BY <1>3, <1>5, <1>7, <2>2
  <2> QED BY <1>4, <1>6, <2>1, <2>3, <2>4, <2>5 DEF Given, Needed
<1>9. CASE ~IsLeft
  <2>1. SiblingOf(x) = x - 1 /\ Given
    BY <1>9 DEF SiblingOf, IsLeft, Given, Alone, SiblingQueued
  <2>2. x - 1 \notin OnPath
    BY <1>9 DEF Walk, Frontier
  <2>3. HeadFirst # x
    <3>1. d = 0 => HeadFirst = 1
      BY <1>2, PowersOfTwo
    <3>2. d # 0 => HeadFirst % 2 = 0
      <4> SUFFICES ASSUME d # 0 PROVE HeadFirst % 2 = 0
        OBVIOUS
      <4>1. d - 1 \in 0..height /\ (d - 1) + 1 = d
        BY FloorBounds
      <4>2. 2^(d - 1) \in Nat /\ HeadFirst = 2 * 2^(d - 1)
        BY <1>2, <4>1, FloorBounds
      <4> QED BY <4>2
    <3> QED BY <1>5, <1>9, <3>1, <3>2 DEF IsLeft
  <2>4. x - 1 \in Nat /\ HeadFirst <= x - 1 /\ x - 1 < 2 * HeadFirst /\ x - 1 <= HeadLast
    BY <1>3, <2>3
  <2>5. Exists(x - 1) /\ x - 1 \in 2..NbNodes
    <3>1. Exists(x - 1)
      BY <1>7, <2>4
    <3>2. x - 1 >= 2
      BY <1>6, <2>1
    <3> QED BY <1>3, <1>7, <2>4, <3>1, <3>2
  <2> QED BY <1>4, <1>6, <2>1, <2>2, <2>5 DEF Needed
<1> QED BY <1>8, <1>9

-----------------------------------------------------------------------------
(* The revealed nodes. *)

\* While the tree is opened, the revealed nodes are the siblings to give of the
\* nodes that have been handled, in the order of the handling.
RevealInv ==
  /\ \A k \in 1..Len(revealed) : revealed[k] \in Needed /\ Handled(SiblingOf(revealed[k]))
  /\ \A y \in OnPath : Handled(y) /\ SiblingOf(y) \in Needed =>
                         \E k \in 1..Len(revealed) : revealed[k] = SiblingOf(y)
  /\ RevealedInOrder

RevealedAll ==
  /\ \A k \in 1..Len(revealed) : revealed[k] \in Needed
  /\ \A i \in Needed : \E k \in 1..Len(revealed) : revealed[k] = i
  /\ RevealedInOrder

OpenInv ==
  /\ pc \in {"malloc", "leaves", "build", "built"} => revealed = <<>>
  /\ pc = "open" => Walk /\ RevealInv
  /\ pc \in {"opened", "root", "done", "failed"} => RevealedAll

LEMMA NeededIsNat == ASSUME StrongTypeOK, pc # "malloc" PROVE Needed \subseteq Nat
BY NodeCount DEF Needed

LEMMA OpenStarts ==
  ASSUME StrongTypeOK, StrongTypeOK', OpenInv, OpenStart
  PROVE  OpenInv'
<1>1. PICK indexes \in LeafChoices : StartLoop(2^height, indexes)
  BY DEF OpenStart
<1>2. /\ pc = "built" /\ pc' = "open" /\ revealed' = revealed /\ revealed = <<>>
      /\ UNCHANGED <<shape, treeVars>>
  BY DEF OpenStart, OpenInv
<1>3. InLoop' /\ pc # "malloc"
  BY <1>2 DEF InLoop
<1>4. Walk' /\ \A y : ~Handled(y)'
  BY <1>1, <1>2, <1>3, WalkStarts
<1>5. Len(revealed') = 0
  BY <1>2
<1>6. RevealInv'
  BY <1>4, <1>5 DEF RevealInv, RevealedInOrder
<1> QED BY <1>2, <1>4, <1>6 DEF OpenInv

\* An iteration that reveals nothing.
LEMMA OpenQuietly ==
  ASSUME StrongTypeOK, StrongTypeOK', OpenInv, OpenAlone \/ OpenPaired
  PROVE  OpenInv'
<1>1. /\ pc = "open" /\ pc' = "open" /\ revealed' = revealed /\ QueueHead # 1 /\ ~Given
      /\ UNCHANGED <<pc, shape, treeVars>> /\ leaves' = leaves
  BY DEF OpenAlone, OpenPaired, Given, Paired, Shift
<1>2. InLoop /\ Walk /\ RevealInv
  BY <1>1 DEF InLoop, OpenInv
<1>3. PICK n \in 1..2 : Shift(n) /\ (n = 2 => Paired) /\ (n = 1 => ~Paired)
  BY DEF OpenAlone, OpenPaired, Paired
<1>4. /\ Walk' /\ (n = 2 => QueueHead + 1 \in OnPath) /\ QueueHead \in OnPath
      /\ \A y : Handled(y)' <=> \/ Handled(y) \/ y = QueueHead
                                \/ n = 2 /\ y = QueueHead + 1
  BY <1>1, <1>2, <1>3, WalkStep
<1>5. UNCHANGED <<nbLeaves, nbOpened, height, nodes, leaves>> /\ Needed' = Needed /\ OnPath' = OnPath
  BY <1>1, NeededFrame DEF shape, treeVars
<1>6. SiblingOf(QueueHead) \notin Needed
  BY <1>1, <1>2, GivenIsNeeded
<1>7. n = 2 => SiblingOf(QueueHead + 1) \notin Needed
  <2> SUFFICES ASSUME n = 2 PROVE SiblingOf(QueueHead + 1) = QueueHead
    BY <1>4 DEF Needed
  <2>1. QueueHead % 2 = 0 /\ QueueHead \in Nat
    BY <1>3, QueueTypes DEF Paired, SiblingQueued, IsLeft
  <2> QED BY <2>1 DEF SiblingOf
<1>8. RevealedInOrder'
  BY <1>1, <1>2, <1>5 DEF RevealInv, RevealedInOrder, Earlier
<1>9. \A k \in 1..Len(revealed') : revealed'[k] \in Needed' /\ Handled(SiblingOf(revealed[k]))'
  BY <1>1, <1>2, <1>4, <1>5 DEF RevealInv, SiblingOf
<1>10. ASSUME NEW y \in OnPath, Handled(y)', SiblingOf(y) \in Needed
       PROVE  \E k \in 1..Len(revealed') : revealed'[k] = SiblingOf(y)
  <2>1. Handled(y)
    BY <1>4, <1>6, <1>7, <1>10
  <2> QED BY <1>1, <1>2, <1>10, <2>1 DEF RevealInv
<1>11. RevealInv'
  BY <1>5, <1>8, <1>9, <1>10 DEF RevealInv, SiblingOf
<1> QED BY <1>1, <1>4, <1>11 DEF OpenInv

LEMMA OpenRevealing ==
  ASSUME StrongTypeOK, StrongTypeOK', OpenInv, OpenReveals
  PROVE  OpenInv'
<1> DEFINE x == QueueHead
           N == Len(revealed)
<1>1. /\ pc = "open" /\ pc' = "open" /\ QueueHead # 1 /\ Given
      /\ UNCHANGED <<pc, shape, treeVars>> /\ leaves' = leaves
      /\ Shift(1) /\ ~Paired
  BY DEF OpenReveals, Given, Paired, Shift
<1>2. InLoop /\ Walk /\ RevealInv
  BY <1>1 DEF InLoop, OpenInv
<1>3. /\ Walk' /\ x \in OnPath /\ ~Handled(x)
      /\ \A y : Handled(y)' <=> Handled(y) \/ y = x
  BY <1>1, <1>2, WalkStep
<1>4. UNCHANGED <<nbLeaves, nbOpened, height, nodes, leaves>> /\ Needed' = Needed /\ OnPath' = OnPath
  BY <1>1, NeededFrame DEF shape, treeVars
<1>5. x \in Nat /\ SiblingOf(x) \in Needed /\ SiblingOf(SiblingOf(x)) = x
  BY <1>1, <1>2, GivenIsNeeded, QueueTypes, Siblings
<1>6. revealed' = Append(revealed, SiblingOf(x)) /\ revealed \in Seq(Nat)
  BY <1>1, <1>2, GivenIsNeeded DEF OpenReveals, StrongTypeOK, TypeOK
<1>7. /\ N \in Nat /\ Len(revealed') = N + 1 /\ revealed'[N + 1] = SiblingOf(x)
      /\ \A k \in 1..N : revealed'[k] = revealed[k]
  <2>1. SiblingOf(x) \in Nat
    BY <1>1, <1>5, NeededIsNat DEF InLoop
  <2> QED BY <1>6, <2>1
<1> HIDE DEF x, N
<1>8. ASSUME NEW k \in 1..Len(revealed')
      PROVE  revealed'[k] \in Needed' /\ Handled(SiblingOf(revealed[k]))'
  <2>0. \A y : SiblingOf(revealed[k])' = y => (Handled(SiblingOf(revealed[k]))' <=> Handled(y)')
    BY DEF SiblingOf, Handled
  <2>1. CASE k = N + 1
    <3>1. SiblingOf(revealed[k])' = x
      BY <1>5, <1>7, <2>1 DEF SiblingOf
    <3> QED BY <1>3, <1>4, <1>5, <1>7, <2>0, <2>1, <3>1
  <2>2. CASE k # N + 1
    <3>1. k \in 1..N
      BY <1>7, <2>2
    <3>2. revealed[k] \in Needed /\ Handled(SiblingOf(revealed[k]))
      BY <1>2, <3>1 DEF RevealInv, N
    <3>3. SiblingOf(revealed[k])' = SiblingOf(revealed[k])
      BY <1>7, <3>1 DEF SiblingOf
    <3> QED BY <1>3, <1>4, <1>7, <2>0, <3>1, <3>2, <3>3
  <2> QED BY <2>1, <2>2
<1>9. ASSUME NEW y \in OnPath, Handled(y)', SiblingOf(y) \in Needed
      PROVE  \E k \in 1..Len(revealed') : revealed'[k] = SiblingOf(y)
  <2>1. CASE Handled(y)
    <3>1. PICK k \in 1..N : revealed[k] = SiblingOf(y)
      BY <1>2, <1>9, <2>1 DEF RevealInv, N
    <3> QED BY <1>7, <3>1
  <2>2. CASE y = x
    BY <1>7, <2>2
  <2> QED BY <1>3, <1>9, <2>1, <2>2
<1>10. ASSUME NEW j \in 1..Len(revealed'), NEW i \in 1..(j - 1)
       PROVE  Earlier(SiblingOf(revealed'[i]), SiblingOf(revealed'[j]))
  <2>0. i \in 1..N /\ revealed'[i] = revealed[i]
    BY <1>7
  <2>1. CASE j = N + 1
    <3>1. Handled(SiblingOf(revealed[i]))
      BY <1>2, <2>0 DEF RevealInv, N
    <3> QED BY <1>2, <1>5, <1>7, <2>0, <2>1, <3>1, HeadIsNext DEF x
  <2>2. CASE j # N + 1
    <3>1. j \in 1..N /\ revealed'[j] = revealed[j]
      BY <1>7, <2>2
    <3> QED BY <1>2, <2>0, <3>1 DEF RevealInv, RevealedInOrder, N
  <2> QED BY <2>1, <2>2
<1>11. RevealedInOrder'
  BY <1>4, <1>10 DEF RevealedInOrder, Earlier, SiblingOf
<1>12. RevealInv'
  BY <1>4, <1>8, <1>9, <1>11 DEF RevealInv, SiblingOf
<1> QED BY <1>1, <1>3, <1>12 DEF OpenInv

\* When the head is the root, the nodes of the paths have all been handled.
LEMMA AllHandled ==
  ASSUME StrongTypeOK, InLoop, Walk, QueueHead = 1, NEW y \in OnPath, y >= 2
  PROVE  Handled(y)
<1>1. HeadPlace
  BY HeadPlaced DEF Walk
<1>2. HeadFirst = 1
  BY <1>1 DEF HeadPlace
<1>3. y \in Nat
  BY PathFacts DEF InLoop
<1> QED BY <1>2, <1>3 DEF Handled

\* A node that has to be given has its sibling on a path.
LEMMA NeededSibling ==
  ASSUME StrongTypeOK, pc # "malloc", NEW i \in Needed
  PROVE  SiblingOf(i) \in OnPath /\ SiblingOf(i) >= 2 /\ SiblingOf(SiblingOf(i)) = i
<1>1. /\ i \in Nat /\ i >= 2 /\ i <= NbNodes /\ i \notin OnPath /\ i \div 2 \in OnPath
      /\ NbNodes \in Nat /\ NbNodes < 2 * 2^height /\ 2^height \in Nat
  BY NodeCount DEF Needed
<1>2. i \div 2 < 2^height /\ i \div 2 \in Nat
  BY <1>1, Halves
<1>3. 2 * (i \div 2) \in OnPath \/ 2 * (i \div 2) + 1 \in OnPath
  BY <1>1, <1>2, PathFacts
<1>4. /\ SiblingOf(SiblingOf(i)) = i /\ SiblingOf(i) >= 2
      /\ SiblingOf(i) \in {2 * (i \div 2), 2 * (i \div 2) + 1}
      /\ i \in {2 * (i \div 2), 2 * (i \div 2) + 1}
  BY <1>1, <1>2, Siblings
<1>5. SiblingOf(i) # i
  BY <1>1 DEF SiblingOf
<1>6. SiblingOf(i) \in OnPath
  BY <1>1, <1>3, <1>4, <1>5
<1> QED BY <1>4, <1>6

LEMMA OpenEnds ==
  ASSUME StrongTypeOK, OpenInv, OpenDone
  PROVE  OpenInv'
<1>1. /\ pc = "open" /\ pc' = "opened" /\ revealed' = revealed /\ QueueHead = 1
      /\ UNCHANGED <<nbLeaves, nbOpened, height, nodes, leaves>>
  BY DEF OpenDone, shape, treeVars, loopVars
<1>2. InLoop /\ Walk /\ RevealInv /\ pc # "malloc" /\ Needed' = Needed /\ OnPath' = OnPath
  BY <1>1, NeededFrame DEF InLoop, OpenInv
<1>3. ASSUME NEW i \in Needed PROVE \E k \in 1..Len(revealed) : revealed[k] = i
  <2>1. SiblingOf(i) \in OnPath /\ SiblingOf(i) >= 2 /\ SiblingOf(SiblingOf(i)) = i
    BY <1>2, NeededSibling
  <2>2. Handled(SiblingOf(i))
    BY <1>1, <1>2, <2>1, AllHandled
  <2> QED BY <1>2, <2>1, <2>2 DEF RevealInv
<1>4. RevealedAll'
  BY <1>1, <1>2, <1>3 DEF RevealedAll, RevealInv, RevealedInOrder, Earlier, SiblingOf
<1> QED BY <1>1, <1>4 DEF OpenInv

LEMMA OpenFrame ==
  ASSUME OpenInv, UNCHANGED <<pc, shape, treeVars, loopVars, revealed>>
  PROVE  OpenInv'
<1>1. UNCHANGED <<pc, nbLeaves, nbOpened, height, nodes, leaves, first, last, slots, start, stop,
                  revealed>>
  BY DEF shape, treeVars, loopVars
<1>2. OnPath' = OnPath /\ Needed' = Needed /\ \A d : LastOf(d)' = LastOf(d)
  BY <1>1, NeededFrame, TreeFrame
<1>3. /\ QueueHead' = QueueHead /\ Count' = Count /\ (\A k : Entry(k)' = Entry(k))
      /\ HeadFirst' = HeadFirst /\ (IsLeft' <=> IsLeft)
  BY <1>1 DEF QueueHead, Count, Entry, Pos, HeadFirst, FloorOfHead, IsLeft
<1>4. LiveNodes' = LiveNodes /\ \A y : Handled(y)' <=> Handled(y)
  BY <1>2, <1>3 DEF LiveNodes, Handled
<1>5. FloorInv' <=> FloorInv
  BY <1>1 DEF FloorInv, InLoop
<1>6. QueueOrdered' <=> QueueOrdered
  BY <1>1, <1>3 DEF QueueOrdered, InLoop, OnFloors, Precedes
<1>7. FloorIsReal' <=> FloorIsReal
  BY <1>1, <1>2 DEF FloorIsReal
<1>8. Frontier' <=> Frontier
  BY <1>2, <1>3, <1>4 DEF Frontier
<1>9. (RevealedInOrder' <=> RevealedInOrder) /\ \A y : SiblingOf(y)' = SiblingOf(y)
  BY <1>1 DEF RevealedInOrder, Earlier, SiblingOf
<1>10. Walk' <=> Walk
  BY <1>5, <1>6, <1>7, <1>8 DEF Walk
<1>11. (RevealInv' <=> RevealInv) /\ (RevealedAll' <=> RevealedAll)
  BY <1>1, <1>2, <1>4, <1>9 DEF RevealInv, RevealedAll
<1> QED BY <1>1, <1>10, <1>11 DEF OpenInv

LEMMA InitOpen == Init => OpenInv
BY DEF Init, OpenInv

LEMMA NextOpen ==
  ASSUME StrongTypeOK, OpenInv, [Next]_vars
  PROVE  OpenInv'
<1>0. StrongTypeOK'
  BY NextType
<1>1. CASE Build
  BY <1>1 DEF Build, MallocMerkleTree, BuildLeaves, BuildFloor, BuildDone, OpenInv
<1>2. CASE OpenStart
  BY <1>0, <1>2, OpenStarts
<1>3. CASE OpenAlone \/ OpenPaired
  BY <1>0, <1>3, OpenQuietly
<1>4. CASE OpenReveals
  BY <1>0, <1>4, OpenRevealing
<1>5. CASE OpenDone
  BY <1>5, OpenEnds
<1>6. CASE Root \/ Stopped
  <2>1. /\ pc \in {"opened", "root", "done", "failed"} /\ pc' \in {"opened", "root", "done", "failed"}
        /\ UNCHANGED <<nbLeaves, nbOpened, height, nodes, leaves, revealed>>
    BY <1>6 DEF Root, Stopped, RootStart, RootAlone, RootPaired, RootGiven, RootFails, RootDone,
                Returned, Shift, StartLoop, shape, treeVars, loopVars, vars
  <2>2. RevealedAll
    BY <2>1 DEF OpenInv
  <2>3. RevealedAll'
    BY <2>1, <2>2, NeededFrame DEF RevealedAll, RevealedInOrder, Earlier, SiblingOf
  <2> QED BY <2>1, <2>3 DEF OpenInv
<1>7. CASE UNCHANGED vars
  <2>1. UNCHANGED <<pc, shape, treeVars, loopVars, revealed>>
    BY <1>7 DEF vars
  <2> QED BY <2>1, OpenFrame
<1> QED BY <1>1, <1>2, <1>3, <1>4, <1>5, <1>6, <1>7 DEF Next, Open

\* No node comes earlier than itself.
LEMMA EarlierIsStrict ==
  ASSUME StrongTypeOK, NEW u \in Nat
  PROVE  ~Earlier(u, u)
<1>1. \A d \in 0..height : 2^d \in Nat
  BY FloorBounds
<1> QED BY <1>1 DEF Earlier

\* open_merkle_tree reveals the siblings of the paths of the open leaves that are not
\* on a path themselves, all of them and each one once, whichever leaves are open.
THEOREM RevealsSiblings == Spec => []AuthIsMinimal
<1>1. StrongTypeOK /\ OpenInv => AuthIsMinimal
  <2> SUFFICES ASSUME StrongTypeOK, OpenInv, pc \in {"opened", "root", "done", "failed"}
               PROVE  /\ {revealed[k] : k \in 1..Len(revealed)} = Needed
                      /\ Len(revealed) = Cardinality(Needed)
    BY DEF AuthIsMinimal, Needed
  <2>1. RevealedAll /\ pc # "malloc"
    BY DEF OpenInv
  <2>2. {revealed[k] : k \in 1..Len(revealed)} = Needed
    BY <2>1 DEF RevealedAll
  <2> DEFINE f == [k \in 1..Len(revealed) |-> revealed[k]]
  <2>3. Len(revealed) \in Nat
    BY DEF StrongTypeOK, TypeOK
  <2>4. ASSUME NEW j \in 1..Len(revealed), NEW i \in 1..Len(revealed), i < j
        PROVE  revealed[i] # revealed[j]
    <3>1. i \in 1..(j - 1)
      BY <2>3, <2>4
    <3>2. Earlier(SiblingOf(revealed[i]), SiblingOf(revealed[j]))
      BY <2>1, <3>1 DEF RevealedAll, RevealedInOrder
    <3>3. SiblingOf(revealed[j]) \in Nat
      <4>1. revealed[j] \in Needed
        BY <2>1 DEF RevealedAll
      <4>2. SiblingOf(revealed[j]) \in OnPath
        BY <2>1, <4>1, NeededSibling
      <4> QED BY <2>1, <4>2, PathFacts, NodeCount
    <3> QED BY <3>2, <3>3, EarlierIsStrict
  <2>5. f \in [1..Len(revealed) -> Needed] /\ \A a, b \in 1..Len(revealed) : f[a] = f[b] => a = b
    <3>1. ASSUME NEW a \in 1..Len(revealed), NEW b \in 1..Len(revealed), f[a] = f[b] PROVE a = b
      <4>1. ~(a < b) /\ ~(b < a)
        BY <2>4, <3>1
      <4> QED BY <2>3, <4>1
    <3> QED BY <2>1, <3>1 DEF RevealedAll
  <2>6. \A t \in Needed : \E k \in 1..Len(revealed) : f[k] = t
    BY <2>1 DEF RevealedAll
  <2> HIDE DEF f
  <2>7. f \in Bijection(1..Len(revealed), Needed)
    BY <2>5, <2>6, Fun_IsBij
  <2>8. ExistsBijection(1..Len(revealed), Needed)
    BY <2>7 DEF ExistsBijection
  <2> QED BY <2>2, <2>3, <2>8, FS_CountingElements
<1> QED BY <1>1, InitOpen, NextOpen, StrongTyping, PTL DEF Spec

-----------------------------------------------------------------------------
(* How many nodes are revealed. *)

\* The most nodes that are revealed above floor d: on each floor, no more than there
\* are nodes on the floor, nor than there are open leaves.
Capacity(d) ==
  LET c == CeilLog2(nbOpened)
  IN  IF d >= c THEN (height - d) * nbOpened ELSE (height - c) * nbOpened + 2^c - 2^d

\* The first a entries of the queue are on the floor of the head, the others above.
SplitAt(a) ==
  /\ a \in 1..Count
  /\ \A k \in 0..(a - 1) : HeadFirst <= Entry(k)
  /\ \A k \in a..(Count - 1) : Entry(k) < HeadFirst

\* Each entry of the floor of the head can still reveal one node, and each entry of the
\* floor above has cost one when it was pushed, and may cost another.
Fitting ==
  \E d \in 0..height, a \in 1..Count :
    /\ HeadFirst = 2^d /\ SplitAt(a)
    /\ Len(revealed) <= Capacity(d) - nbOpened + a + 2 * (Count - a)

FitsInv ==
  /\ pc = "open" => Fitting
  /\ RevealedFits

LEMMA Increasing ==
  ASSUME NEW p \in Nat, NEW q \in Nat, NEW f, \A j \in p..q : f[j] \in Nat,
         \A i \in p..q : \A j \in (i + 1)..q : f[i] < f[j],
         NEW j \in p..q
  PROVE  f[j] >= f[p] + (j - p)
<1> DEFINE T == {k \in p..q : ~(f[k] >= f[p] + (k - p))}
<1>1. SUFFICES ASSUME T # {} PROVE FALSE
  OBVIOUS
<1>2. PICK k \in T : \A y \in T : k <= y
  <2>1. T \subseteq Nat
    OBVIOUS
  <2> QED BY <1>1, <2>1, Least
<1>3. k \in p..q /\ f[k] < f[p] + (k - p) /\ f[k] \in Nat /\ f[p] \in Nat
  OBVIOUS
<1>4. k # p
  BY <1>3
<1>5. k - 1 \in p..q /\ k \in ((k - 1) + 1)..q /\ k - 1 \notin T
  BY <1>2, <1>3, <1>4
<1>6. f[k - 1] >= f[p] + ((k - 1) - p) /\ f[k - 1] < f[k] /\ f[k - 1] \in Nat
  BY <1>5
<1> QED BY <1>3, <1>6

\* The logarithm of the number of open leaves.
LEMMA OpenedLog ==
  ASSUME StrongTypeOK, pc # "malloc"
  PROVE  /\ CeilLog2(nbOpened) \in 0..height /\ 2^CeilLog2(nbOpened) >= nbOpened
         /\ nbOpened \in Nat /\ nbOpened >= 1
         /\ IF CeilLog2(nbOpened) = 0 THEN nbOpened = 1
            ELSE 2^(CeilLog2(nbOpened) - 1) < nbOpened
<1> DEFINE c == CeilLog2(nbOpened)
<1>1. nbOpened \in 1..(2^UintBits - 1) /\ nbOpened <= nbLeaves /\ nbOpened \in Nat
  BY WidthFits DEF StrongTypeOK, TypeOK
<1>2. c \in 0..MaxHeight /\ 2^c >= nbOpened /\ (c = 0 \/ 2^(c - 1) < nbOpened)
  BY <1>1, HeightFits
<1>3. height \in 0..MaxHeight /\ MaxHeight \in Nat /\ nbLeaves <= 2^height /\ nbLeaves \in Nat
      /\ 2^height \in Nat
  BY MaxHeightIsNat, Sizes DEF StrongTypeOK, TypeOK
<1>4. c <= height
  <2> SUFFICES ASSUME c > height PROVE FALSE
    BY <1>2, <1>3
  <2>1. c - 1 \in 0..MaxHeight /\ height \in 0..(c - 1) /\ c # 0
    BY <1>2, <1>3
  <2>2. 2^height <= 2^(c - 1) /\ 2^(c - 1) \in Nat
    BY <2>1, PowersOfTwo
  <2> QED BY <1>1, <1>2, <1>3, <2>1, <2>2
<1>5. c = 0 => nbOpened = 1
  <2>1. 2^0 = 1
    BY PowersOfTwo
  <2> QED BY <1>1, <1>2, <2>1
<1> QED BY <1>1, <1>2, <1>3, <1>4, <1>5

\* What a floor adds to the capacity.
LEMMA CapacityStep ==
  ASSUME StrongTypeOK, pc # "malloc", NEW d \in 0..height, d # 0, NEW n \in Nat,
         n <= nbOpened, n <= 2^(d - 1)
  PROVE  Capacity(d) + n <= Capacity(d - 1) /\ Capacity(d) \in Int /\ Capacity(d - 1) \in Int
<1> DEFINE c == CeilLog2(nbOpened)
           m == nbOpened
           h == height
<1>1. c \in 0..h /\ m \in Nat /\ h \in Nat
  BY OpenedLog, FloorBounds
<1>2. /\ 2^c \in Nat /\ 2^d \in Nat /\ 2^(d - 1) \in Nat /\ 2^d = 2 * 2^(d - 1)
  <2>1. d - 1 \in 0..h /\ (d - 1) + 1 = d
    BY <1>1
  <2> QED BY <1>1, <2>1, FloorBounds
<1> HIDE DEF c
<1>3. \A x \in Int : (x + 1) * m = x * m + m /\ x * m \in Int
  BY <1>1
<1>4. (h - (d - 1)) * m = (h - d) * m + m /\ (h - d) * m \in Int /\ (h - c) * m \in Int
  <2>1. h - (d - 1) = (h - d) + 1 /\ h - d \in Int /\ h - c \in Int
    BY <1>1
  <2> QED BY <1>3, <2>1
<1>5. CASE d - 1 >= c
  <2>1. Capacity(d) = (h - d) * m /\ Capacity(d - 1) = (h - (d - 1)) * m
    BY <1>1, <1>5 DEF Capacity, c
  <2> QED BY <1>1, <1>4, <2>1
<1>6. CASE d - 1 < c
  <2>1. Capacity(d - 1) = (h - c) * m + 2^c - 2^(d - 1)
    BY <1>1, <1>6 DEF Capacity, c
  <2>2. Capacity(d) = (h - c) * m + 2^c - 2^d
    <3>1. CASE d = c
      <4>1. Capacity(d) = (h - d) * m
        BY <1>1, <3>1 DEF Capacity, c
      <4> QED BY <1>2, <1>4, <3>1, <4>1
    <3>2. CASE d # c
      BY <1>1, <1>6, <3>2 DEF Capacity, c
    <3> QED BY <3>1, <3>2
  <2> QED BY <1>1, <1>2, <1>4, <2>1, <2>2
<1> QED BY <1>1, <1>5, <1>6

\* What is revealed when the queue is at floor d is what the parameter sets allocate.
LEMMA CapacityIsEnough ==
  ASSUME StrongTypeOK, pc # "malloc", NEW d \in 0..height, NEW n \in Nat,
         n <= 2 * nbOpened, n <= 2^d
  PROVE  /\ Capacity(d) - nbOpened + n <= NbMaxOpenLeaves
         /\ NbMaxOpenLeaves <= height * nbOpened
         /\ Capacity(d) \in Int /\ NbMaxOpenLeaves \in Int /\ height * nbOpened \in Int
<1> DEFINE c == CeilLog2(nbOpened)
           m == nbOpened
           h == height
<1>1. c \in 0..h /\ m \in Nat /\ h \in Nat /\ m >= 1 /\ 2^c >= m
  BY OpenedLog, FloorBounds
<1>2. /\ 2^c \in Nat /\ 2^d \in Nat
  BY <1>1, FloorBounds
<1>3. IF c = 0 THEN 2^c = 1 /\ m = 1 ELSE 2^c <= 2 * m
  <2>1. CASE c = 0
    BY <2>1, OpenedLog, PowersOfTwo
  <2>2. CASE c # 0
    <3>1. c - 1 \in 0..h /\ (c - 1) + 1 = c
      BY <1>1, <2>2
    <3>2. 2^c = 2 * 2^(c - 1) /\ 2^(c - 1) \in Nat /\ 2^(c - 1) < m
      BY <2>2, <3>1, FloorBounds, OpenedLog
    <3> QED BY <1>1, <2>2, <3>2
  <2> QED BY <2>1, <2>2
<1>4. NbMaxOpenLeaves = m * (h - c) + 2^c - m
  BY DEF NbMaxOpenLeaves
<1> HIDE DEF c
<1>5. \A x \in Int, y \in Int : (x + y) * m = x * m + y * m /\ x * m \in Int /\ m * x = x * m
  BY <1>1
<1>6. \A x \in Nat : x >= 1 => x * m >= m
  <2> SUFFICES ASSUME NEW x \in Nat, x >= 1 PROVE x * m >= m
    OBVIOUS
  <2>1. PICK y \in Nat : x = 1 + y
    BY x - 1 \in Nat
  <2>2. y * m \in Nat
    BY <1>1
  <2>3. x * m = 1 * m + y * m
    BY <1>5, <2>1
  <2> QED BY <1>1, <2>2, <2>3
<1>7. (h - c) * m + c * m = h * m /\ (h - c) * m \in Int /\ c * m \in Int /\ h * m \in Int
  <2>1. h = (h - c) + c /\ h - c \in Int /\ c \in Int /\ h \in Int
    BY <1>1
  <2> QED BY <1>5, <2>1
<1>8. NbMaxOpenLeaves = (h - c) * m + 2^c - m /\ NbMaxOpenLeaves \in Int
  <2>1. h - c \in Int /\ m * (h - c) = (h - c) * m
    BY <1>1, <1>5
  <2> QED BY <1>1, <1>2, <1>4, <1>7, <2>1
<1>9. NbMaxOpenLeaves <= h * m
  <2>1. CASE c = 0
    <3>1. c * m = 0
      BY <1>1, <2>1
    <3> QED BY <1>1, <1>3, <1>7, <1>8, <2>1, <3>1
  <2>2. CASE c # 0
    <3>1. c * m >= m
      BY <1>1, <1>6, <2>2
    <3> QED BY <1>1, <1>2, <1>3, <1>7, <1>8, <2>2, <3>1
  <2> QED BY <2>1, <2>2
<1>10. Capacity(d) - m + n <= NbMaxOpenLeaves /\ Capacity(d) \in Int
  <2>1. CASE d <= c
    <3>1. Capacity(d) = (h - c) * m + 2^c - 2^d
      <4>1. CASE d = c
        <5>1. Capacity(d) = (h - d) * m
          BY <1>1, <4>1 DEF Capacity, c
        <5> QED BY <1>2, <1>7, <4>1, <5>1
      <4>2. CASE d # c
        <5>1. ~(d >= c)
          BY <1>1, <2>1, <4>2
        <5> QED BY <5>1 DEF Capacity, c
      <4> QED BY <4>1, <4>2
    <3> QED BY <1>1, <1>2, <1>7, <1>8, <3>1
  <2>2. CASE d > c
    <3>1. Capacity(d) = (h - d) * m
      BY <1>1, <2>2 DEF Capacity, c
    <3>2. (h - c) * m = (h - d) * m + (d - c) * m /\ (h - d) * m \in Int /\ (d - c) * m \in Int
      <4>1. h - c = (h - d) + (d - c) /\ h - d \in Int /\ d - c \in Int
        BY <1>1
      <4> QED BY <1>5, <4>1
    <3>3. (d - c) * m >= m
      <4>1. d - c \in Nat /\ d - c >= 1
        BY <1>1, <2>2
      <4> QED BY <1>6, <4>1
    <3> QED BY <1>1, <1>2, <1>8, <3>1, <3>2, <3>3
  <2> QED BY <1>1, <2>1, <2>2
<1> QED BY <1>7, <1>8, <1>9, <1>10

\* The entries of the floor of the head, and twice the others, are no more than the
\* nodes of that floor.
Roomy == \A a \in Nat : SplitAt(a) => a + 2 * (Count - a) <= HeadFirst

LEMMA HeadRoom ==
  StrongTypeOK /\ InLoop /\ Walk => Roomy
<1> SUFFICES ASSUME StrongTypeOK, InLoop, Walk, NEW a \in Nat, SplitAt(a)
             PROVE  a + 2 * (Count - a) <= HeadFirst
  BY DEF Roomy
<1> DEFINE x == QueueHead
           F == HeadFirst
<1>1. HeadPlace /\ pc # "malloc"
  BY HeadPlaced DEF Walk, InLoop
<1>2. /\ Count \in Nat /\ Count >= 1 /\ a \in 1..Count /\ x \in Nat /\ Entry(0) = x
      /\ first \in Nat /\ F \in Nat /\ HeadLast \in Nat /\ F <= x /\ x <= HeadLast /\ HeadLast < 2 * F
      /\ \A k \in 0..(Count - 1) : Entry(k) \in Nat
      /\ IF x < first THEN first = 2 * F ELSE F = first
  BY <1>1, QueueTypes DEF HeadPlace, SplitAt
<1>3. ASSUME NEW i \in 0..(Count - 1), NEW j \in (i + 1)..(Count - 1),
             F <= Entry(i) <=> F <= Entry(j)
      PROVE  Entry(i) < Entry(j)
  <2>1. /\ j \in 0..(Count - 1) /\ Entry(i) \in Nat /\ Entry(j) \in Nat
        /\ Precedes(Entry(i), Entry(j))
    BY <1>2 DEF Walk, QueueOrdered
  <2>2. CASE x < first
    <3>1. ASSUME NEW k \in 0..(Count - 1) PROVE Entry(k) < first
      <4>1. CASE k = 0
        BY <1>2, <2>2, <4>1
      <4>2. CASE k # 0
        <5>1. 0 \in 0..(Count - 1) /\ k \in (0 + 1)..(Count - 1)
          BY <1>2, <4>2
        <5>2. Precedes(Entry(0), Entry(k))
          BY <5>1 DEF Walk, QueueOrdered
        <5> QED BY <1>2, <2>2, <5>2 DEF Precedes
      <4> QED BY <4>1, <4>2
    <3>2. Entry(i) < first
      BY <3>1
    <3> QED BY <1>2, <2>1, <3>2 DEF Precedes
  <2>3. CASE ~(x < first)
    BY <1>2, <1>3, <2>1, <2>3 DEF Precedes
  <2> QED BY <2>2, <2>3
<1> DEFINE f == [k \in 0..(Count - 1) |-> Entry(k)]
<1>4. a <= 2 * F - x
  <2>1. /\ \A j \in 0..(a - 1) : f[j] \in Nat
        /\ \A i \in 0..(a - 1) : \A j \in (i + 1)..(a - 1) : f[i] < f[j]
    <3>1. ASSUME NEW i \in 0..(a - 1), NEW j \in (i + 1)..(a - 1) PROVE f[i] < f[j]
      <4>1. i \in 0..(Count - 1) /\ j \in (i + 1)..(Count - 1) /\ j \in 0..(a - 1)
            /\ j \in 0..(Count - 1)
        BY <1>2
      <4>2. F <= Entry(i) /\ F <= Entry(j)
        BY <4>1 DEF SplitAt
      <4> QED BY <1>3, <4>1, <4>2
    <3>2. \A j \in 0..(a - 1) : j \in 0..(Count - 1)
      BY <1>2
    <3> QED BY <1>2, <3>1, <3>2
  <2> HIDE DEF f
  <2>2. a - 1 \in 0..(a - 1) /\ 0 \in Nat /\ a - 1 \in Nat
    BY <1>2
  <2>3. f[a - 1] >= f[0] + ((a - 1) - 0)
    BY <2>1, <2>2, Increasing
  <2>4. f[a - 1] = Entry(a - 1) /\ f[0] = Entry(0) /\ a - 1 \in 0..(Count - 1)
    BY <1>2 DEF f
  <2>5. Entry(a - 1) < 2 * F
    <3>1. CASE a = 1
      BY <1>2, <3>1
    <3>2. CASE a # 1
      <4>1. a - 1 \in 1..(Count - 1) /\ F <= Entry(a - 1)
        BY <1>2, <2>2, <3>2 DEF SplitAt
      <4>2. \/ F <= Entry(a - 1) /\ Entry(a - 1) <= HeadLast /\ x < Entry(a - 1)
            \/ Entry(a - 1) < F /\ Entry(a - 1) < x \div 2
        BY <1>1, <4>1 DEF HeadPlace
      <4> QED BY <1>2, <2>4, <4>1, <4>2
    <3> QED BY <3>1, <3>2
  <2> QED BY <1>2, <2>3, <2>4, <2>5
<1>5. CASE a = Count
  BY <1>2, <1>4, <1>5
<1>6. CASE a # Count
  <2> DEFINE l == Count - 1
  <2>1. a \in 0..l /\ l \in a..l /\ l \in 1..l /\ a \in 1..l /\ l \in Nat /\ l = Count - 1
    BY <1>2, <1>6
  <2>2. /\ \A j \in a..l : f[j] \in Nat
        /\ \A i \in a..l : \A j \in (i + 1)..l : f[i] < f[j]
    <3>1. ASSUME NEW i \in a..l, NEW j \in (i + 1)..l PROVE f[i] < f[j]
      <4>1. i \in 0..(Count - 1) /\ j \in (i + 1)..(Count - 1) /\ j \in a..(Count - 1)
            /\ j \in 0..(Count - 1) /\ i \in a..(Count - 1)
        BY <1>2
      <4>2. Entry(i) < F /\ Entry(j) < F /\ Entry(i) \in Nat /\ Entry(j) \in Nat
        BY <1>2, <4>1 DEF SplitAt
      <4>3. Entry(i) < Entry(j)
        BY <1>2, <1>3, <4>1, <4>2
      <4> QED BY <4>1, <4>3
    <3>2. \A j \in a..l : j \in 0..(Count - 1)
      BY <1>2
    <3> QED BY <1>2, <3>1, <3>2
  <2> HIDE DEF f, l
  <2>3. f[l] >= f[a] + (l - a)
    BY <2>1, <2>2, Increasing
  <2>4. /\ f[l] = Entry(l) /\ f[a] = Entry(a) /\ Entry(l) \in Nat /\ Entry(a) \in Nat
        /\ Entry(a) < F
    <3>1. a \in 0..(Count - 1) /\ l \in 0..(Count - 1) /\ a \in a..(Count - 1)
      BY <1>2, <2>1
    <3> QED BY <1>2, <3>1 DEF f, SplitAt
  <2>5. Entry(l) < x \div 2
    <3>1. l \in 1..(Count - 1) /\ l \in a..(Count - 1)
      BY <2>1
    <3>2. Entry(l) < F
      BY <3>1 DEF SplitAt
    <3>3. \/ F <= Entry(l) /\ Entry(l) <= HeadLast /\ x < Entry(l)
          \/ Entry(l) < F /\ Entry(l) < x \div 2
      BY <1>1, <3>1 DEF HeadPlace
    <3> QED BY <1>2, <2>4, <3>2, <3>3
  <2>6. Entry(a) >= F \div 2 /\ Entry(a) >= 1
    <3>1. OnFloors(Entry(a))
      <4>1. a \in 0..(Count - 1)
        BY <2>1
      <4> QED BY <4>1 DEF Walk, QueueOrdered
    <3>2. CASE x < first
      <4>1. first \div 2 = F
        BY <1>2, <3>2
      <4> QED BY <1>2, <2>4, <3>1, <4>1 DEF OnFloors
    <3>3. CASE ~(x < first)
      BY <1>2, <2>4, <3>1, <3>3 DEF OnFloors
    <3> QED BY <3>2, <3>3
  <2>7. F = 2 * (F \div 2) /\ F \div 2 \in Nat
    <3>1. PICK d \in 0..height : F = 2^d
      BY <1>1 DEF HeadPlace
    <3>2. d # 0
      <4>1. d = 0 => F = 1
        BY <3>1, PowersOfTwo
      <4>2. F # 1
        BY <1>2, <2>4, <2>6
      <4> QED BY <4>1, <4>2
    <3>3. d - 1 \in 0..height /\ (d - 1) + 1 = d
      BY <3>2, FloorBounds
    <3>4. F = 2 * 2^(d - 1) /\ 2^(d - 1) \in Nat
      BY <3>1, <3>3, FloorBounds
    <3> QED BY <3>4
  <2>8. x \div 2 \in Nat /\ 2 * (x \div 2) <= x
    BY <1>2, Halves
  <2> QED BY <1>2, <1>4, <2>1, <2>3, <2>4, <2>5, <2>6, <2>7, <2>8
<1> QED BY <1>5, <1>6

QueueSound ==
  Count \in 1..nbOpened /\ nbOpened \in Nat /\ QueueHead \in Nat /\ QueueHead = Entry(0)

LEMMA NextQueue == StrongTypeOK' => QueueSound'
<1>1. StrongTypeOK => QueueSound
  BY QueueTypes DEF QueueSound
<1> QED BY <1>1, PTL

LEMMA NextHeadRoom == (StrongTypeOK /\ InLoop /\ Walk)' => Roomy'
BY HeadRoom, PTL

\* An iteration of the loop that reveals r nodes, one at most if it pops one.
LEMMA FitsStep ==
  ASSUME StrongTypeOK, StrongTypeOK', OpenInv, OpenInv', FitsInv, pc = "open", pc' = "open",
         QueueHead # 1, NEW n \in 1..2, Shift(n), n = 2 => Paired,
         UNCHANGED <<shape, treeVars>>, Len(revealed') <= Len(revealed) + 2 - n
  PROVE  Fitting'
<1> DEFINE x == QueueHead
           F == HeadFirst
           m == nbOpened
<1>1. /\ InLoop /\ Walk /\ InLoop' /\ Walk' /\ pc # "malloc"
      /\ UNCHANGED <<nbLeaves, nbOpened, height>>
  BY DEF OpenInv, InLoop, shape, treeVars
<1>2. PICK d \in 0..height, a \in 1..Count :
        /\ HeadFirst = 2^d /\ SplitAt(a)
        /\ Len(revealed) <= Capacity(d) - nbOpened + a + 2 * (Count - a)
  BY DEF FitsInv, Fitting
<1>3. /\ Count \in Nat /\ a \in Nat /\ 1 <= a /\ a <= Count /\ m \in Nat /\ x \in Nat
      /\ F \in Nat /\ F <= x /\ x < 2 * F /\ first \in Nat
      /\ IF x < first THEN first = 2 * F ELSE F = first
      /\ Len(revealed) \in Nat /\ Len(revealed') \in Nat
  <2>1. HeadPlace
    BY <1>1, HeadPlaced DEF Walk
  <2>2. HeadLast \in Nat /\ x <= HeadLast /\ HeadLast < 2 * F
    BY <2>1 DEF HeadPlace
  <2>3. Len(revealed) \in Nat /\ Len(revealed') \in Nat
    <3>1. revealed \in Seq(Nat) /\ revealed' \in Seq(Nat)
      BY DEF StrongTypeOK, TypeOK
    <3> QED BY <3>1
  <2> QED BY <1>2, <2>1, <2>2, <2>3, QueueTypes DEF HeadPlace
<1>4. /\ n <= Count /\ Count' = Count - n + 1
      /\ \A k \in 0..(Count - n - 1) : Entry(k)' = Entry(k + n)
      /\ Entry(Count - 1)' = x \div 2
  <2>1. n = 2 => SecondPos # stop
    BY DEF Paired, SiblingQueued
  <2>2. FifoStep(n)
    BY <2>1, ShiftIsFifo
  <2> QED BY <2>2 DEF FifoStep
<1>5. \A k : k = Count' - 1 => Entry(k)' = x \div 2
  BY <1>4 DEF Entry, Pos
<1>6. first' = F /\ QueueHead' = Entry(0)' /\ QueueHead' \in Nat /\ x \div 2 \in Nat /\ x \div 2 < F
  <2>1. first' = F
    BY DEF Shift, HeadFirst
  <2>2. QueueHead' = Entry(0)' /\ QueueHead' \in Nat
    BY NextQueue DEF QueueSound
  <2> QED BY <1>3, <2>1, <2>2, Halves
<1>7. n <= a
  <2>1. CASE n = 1
    BY <1>3, <2>1
  <2>2. CASE n = 2
    <3>1. IsLeft /\ Entry(1) = x + 1 /\ Count >= 2
      BY <1>1, <2>2, SiblingFound DEF Paired, SiblingQueued, Walk
    <3>2. CASE a = 1
      <4>1. 1 \in a..(Count - 1)
        BY <1>3, <3>1, <3>2
      <4>2. Entry(1) < F
        BY <1>2, <4>1 DEF SplitAt
      <4> QED BY <1>3, <3>1, <4>2
    <3> QED BY <1>3, <2>2, <3>2
  <2> QED BY <2>1, <2>2
<1>8. /\ \A k \in 0..(a - n - 1) : F <= Entry(k)'
      /\ \A k \in (a - n)..(Count' - 1) : Entry(k)' < F
  <2>1. ASSUME NEW k \in 0..(a - n - 1) PROVE F <= Entry(k)'
    <3>1. k \in 0..(Count - n - 1) /\ k + n \in 0..(a - 1)
      BY <1>3
    <3> QED BY <1>2, <1>4, <3>1 DEF SplitAt
  <2>2. ASSUME NEW k \in (a - n)..(Count' - 1) PROVE Entry(k)' < F
    <3>1. CASE k = Count' - 1
      BY <1>5, <1>6, <3>1
    <3>2. CASE k # Count' - 1
      <4>1. k \in 0..(Count - n - 1) /\ k + n \in a..(Count - 1)
        BY <1>3, <1>4, <1>7, <3>2
      <4> QED BY <1>2, <1>4, <4>1 DEF SplitAt
    <3> QED BY <3>1, <3>2
  <2> QED BY <2>1, <2>2
<1>9. HeadFirst' = IF QueueHead' < F THEN F \div 2 ELSE F
  BY <1>6 DEF HeadFirst, FloorOfHead
<1>10. \A e : Capacity(e)' = Capacity(e)
  BY <1>1 DEF Capacity
<1>11. CASE a > n
  <2>1. a - n \in 1..Count' /\ 0 \in 0..(a - n - 1)
    BY <1>3, <1>4, <1>11
  <2>2. HeadFirst' = F
    BY <1>3, <1>6, <1>8, <1>9, <2>1
  <2>3. SplitAt(a - n)'
    BY <1>8, <2>1, <2>2 DEF SplitAt
  <2>4. Len(revealed') <= Capacity(d)' - nbOpened' + (a - n) + 2 * (Count' - (a - n))
    <3>1. Capacity(d) \in Int
      <4>1. 0 \in Nat /\ 0 <= 2 * nbOpened /\ 0 <= 2^d
        BY <1>2, <1>3
      <4> QED BY <1>1, <4>1, CapacityIsEnough
    <3> QED BY <1>1, <1>2, <1>3, <1>4, <1>10, <3>1, SMTT(30)
  <2> QED BY <1>1, <1>2, <2>1, <2>2, <2>3, <2>4 DEF Fitting
<1>12. CASE a = n
  <2>1. d # 0
    <3>1. d = 0 => F = 1
      BY <1>2, PowersOfTwo
    <3>2. F # 1
      BY <1>3
    <3> QED BY <3>1, <3>2
  <2>2. d - 1 \in 0..height /\ F = 2 * 2^(d - 1) /\ 2^(d - 1) \in Nat
    <3>1. d - 1 \in 0..height /\ (d - 1) + 1 = d
      BY <2>1, FloorBounds
    <3> QED BY <1>2, <3>1, FloorBounds
  <2>3. PICK N \in Nat : N = Count'
    BY <1>3, <1>4
  <2>4. N >= 1 /\ N <= m /\ N \in 1..Count'
    <3>1. Count' \in 1..nbOpened'
      BY NextQueue DEF QueueSound
    <3> QED BY <1>1, <1>3, <2>3, <3>1
  <2>5. HeadFirst' = 2^(d - 1)
    <3>1. 0 \in (a - n)..(Count' - 1)
      <4>1. a - n = 0
        BY <1>3, <1>12
      <4> QED BY <1>3, <1>4, <1>12, <2>3, <2>4, <4>1
    <3>2. QueueHead' < F
      BY <1>6, <1>8, <3>1
    <3> QED BY <1>9, <2>2, <3>2
  <2>6. SplitAt(N)'
    <3>1. ASSUME NEW k \in 0..(N - 1) PROVE HeadFirst' <= Entry(k)'
      <4>1. OnFloors(Entry(k))'
        BY <1>1, <2>3 DEF Walk, QueueOrdered
      <4>2. \A y : Entry(k)' = y => (y >= F \div 2 /\ y \in Nat) \/ (y >= F /\ y \in Nat)
        BY <1>6, <4>1 DEF OnFloors
      <4> QED BY <2>2, <2>5, <4>2
    <3>2. \A k \in N..(Count' - 1) : FALSE
      BY <1>3, <1>4, <2>3, <2>4
    <3> QED BY <2>3, <2>4, <3>1, <3>2 DEF SplitAt
  <2>7. N <= 2^(d - 1)
    <3>1. (N + 2 * (Count - N) <= HeadFirst)'
      BY <1>1, <2>6, NextHeadRoom DEF Roomy
    <3>2. N + 2 * (Count' - N) <= HeadFirst'
      BY <3>1
    <3>3. N + 2 * (N - N) <= 2^(d - 1)
      BY <2>3, <2>5, <3>2
    <3> QED BY <2>2, <3>3
  <2>8. Len(revealed') <= Capacity(d - 1)' - nbOpened' + N + 2 * (Count' - N)
    <3>1. Capacity(d) + N <= Capacity(d - 1) /\ Capacity(d) \in Int /\ Capacity(d - 1) \in Int
      BY <1>1, <2>1, <2>4, <2>7, CapacityStep
    <3>2. PICK A \in Int, B \in Int, C \in Nat, R \in Nat, S \in Nat :
            /\ A = Capacity(d) /\ B = Capacity(d - 1) /\ C = Count
            /\ R = Len(revealed) /\ S = Len(revealed')
      BY <1>3, <3>1
    <3>3. A + N <= B
      BY <3>1, <3>2
    <3>4. R <= A - m + a + 2 * (C - a)
      BY <1>2, <3>2
    <3>5. S <= R + 2 - n /\ n \in Nat
      BY <3>2
    <3>6. N = C - n + 1
      BY <1>4, <2>3, <3>2
    <3>7. S <= B - m + N
      BY <1>3, <1>12, <3>3, <3>4, <3>5, <3>6
    <3>8. Capacity(d - 1)' = B /\ nbOpened' = m
      BY <1>1, <1>10, <3>2
    <3>9. B - m + N + 2 * (Count' - N) = B - m + N
      <4>1. \A y \in Nat : y = N => B - m + N + 2 * (y - N) = B - m + N
        BY <1>3
      <4>2. Count' \in Nat
        BY <2>3
      <4> QED BY <2>3, <4>1, <4>2
    <3> QED BY <3>2, <3>7, <3>8, <3>9
  <2> QED BY <1>1, <2>2, <2>4, <2>5, <2>6, <2>8 DEF Fitting
<1> QED BY <1>3, <1>7, <1>11, <1>12

LEMMA FitsStarts ==
  ASSUME StrongTypeOK, StrongTypeOK', OpenInv, OpenInv', FitsInv, OpenStart
  PROVE  FitsInv'
<1>1. PICK indexes \in LeafChoices : StartLoop(2^height, indexes)
  BY DEF OpenStart
<1>2. /\ pc = "built" /\ pc' = "open" /\ revealed' = <<>>
      /\ UNCHANGED <<nbLeaves, nbOpened, height>>
  BY DEF OpenStart, OpenInv, shape, treeVars
<1>3. /\ nbOpened \in Nat /\ nbOpened >= 1 /\ height \in Nat /\ 2^height \in Nat
      /\ indexes \in [0..(nbOpened - 1) -> 0..(nbLeaves - 1)] /\ nbLeaves \in Nat
  BY <1>1, <1>2, OpenedLog, FloorBounds, NodeCount DEF LeafChoices
<1>4. /\ first' = 2^height /\ start' = 0 /\ stop' = 0
      /\ slots' = [i \in 0..(nbOpened - 1) |-> 2^height + indexes[i]]
  BY <1>1 DEF StartLoop
<1>5. Count' = nbOpened
  BY <1>2, <1>3, <1>4 DEF Count
<1>6. ASSUME NEW k \in 0..(nbOpened - 1) PROVE 2^height <= Entry(k)'
  <2>1. Pos(k)' = k
    BY <1>2, <1>3, <1>4 DEF Pos
  <2>2. Entry(k)' = 2^height + indexes[k] /\ indexes[k] \in Nat
    BY <1>3, <1>4, <2>1 DEF Entry
  <2> QED BY <1>3, <2>2
<1>7. HeadFirst' = 2^height
  <2>1. QueueHead' = 2^height + indexes[0] /\ indexes[0] \in Nat
    BY <1>3, <1>4 DEF QueueHead
  <2> QED BY <1>3, <1>4, <2>1 DEF HeadFirst, FloorOfHead
<1>8. nbOpened \in 1..Count' /\ SplitAt(nbOpened)'
  <2>1. PICK N \in Nat : N = nbOpened
    BY <1>3
  <2>2. SplitAt(N)'
    <3>1. N \in 1..Count'
      BY <1>3, <1>5, <2>1
    <3>2. \A k \in 0..(N - 1) : HeadFirst' <= Entry(k)'
      BY <1>6, <1>7, <2>1
    <3>3. \A k \in N..(Count' - 1) : FALSE
      BY <1>3, <1>5, <2>1
    <3> QED BY <3>1, <3>2, <3>3 DEF SplitAt
  <2>3. nbOpened' = N
    BY <1>2, <2>1
  <2> QED BY <1>2, <1>3, <1>5, <2>1, <2>2, <2>3 DEF SplitAt
<1>9. Capacity(height) = 0
  <2>1. height >= CeilLog2(nbOpened) /\ height - height = 0
    BY <1>2, <1>3, OpenedLog
  <2> QED BY <1>3, <2>1 DEF Capacity
<1>10. RevealedFits'
  BY <1>2 DEF RevealedFits
<1>11. /\ Len(revealed') <= Capacity(height) - nbOpened + nbOpened + 2 * (Count' - nbOpened)
       /\ Capacity(height)' = Capacity(height) /\ height \in 0..height
  BY <1>2, <1>3, <1>5, <1>9 DEF Capacity
<1> QED BY <1>2, <1>7, <1>8, <1>10, <1>11 DEF FitsInv, Fitting

\* The bound of the loop is within what is allocated.
LEMMA FitsAllocated ==
  ASSUME StrongTypeOK, pc = "open", Walk, NEW d \in 0..height, NEW a \in 1..Count,
         HeadFirst = 2^d, SplitAt(a),
         Len(revealed) <= Capacity(d) - nbOpened + a + 2 * (Count - a)
  PROVE  Len(revealed) <= NbMaxOpenLeaves /\ Len(revealed) <= height * nbOpened
<1> DEFINE n == a + 2 * (Count - a)
<1>1. /\ Count \in Nat /\ a \in Nat /\ a <= Count /\ nbOpened \in Nat /\ Count <= nbOpened
      /\ InLoop /\ pc # "malloc"
  BY QueueTypes DEF InLoop
<1>2. n \in Nat /\ n <= 2 * nbOpened /\ n <= 2^d
  <2>1. n <= HeadFirst
    BY <1>1, HeadRoom DEF Roomy
  <2> QED BY <1>1, <2>1
<1>3. Len(revealed) \in Nat
  <2>1. revealed \in Seq(Nat)
    BY DEF StrongTypeOK, TypeOK
  <2> QED BY <2>1
<1>4. /\ Capacity(d) - nbOpened + n <= NbMaxOpenLeaves
      /\ NbMaxOpenLeaves <= height * nbOpened
      /\ Capacity(d) \in Int /\ NbMaxOpenLeaves \in Int /\ height * nbOpened \in Int
  <2> HIDE DEF n
  <2> QED BY <1>1, <1>2, CapacityIsEnough
<1> QED BY <1>1, <1>3, <1>4

LEMMA NextAllocated == StrongTypeOK' /\ OpenInv' /\ Fitting' /\ (pc = "open")' => RevealedFits'
<1>1. StrongTypeOK /\ OpenInv /\ Fitting /\ pc = "open" => RevealedFits
  BY FitsAllocated DEF OpenInv, Fitting, RevealedFits
<1> QED BY <1>1, PTL

LEMMA FitsIterates ==
  ASSUME StrongTypeOK, StrongTypeOK', OpenInv, OpenInv', FitsInv,
         OpenAlone \/ OpenPaired \/ OpenReveals
  PROVE  FitsInv'
<1>1. /\ pc = "open" /\ pc' = "open" /\ QueueHead # 1 /\ UNCHANGED <<shape, treeVars>>
  BY DEF OpenAlone, OpenPaired, OpenReveals
<1>2. PICK n \in 1..2 : /\ Shift(n) /\ (n = 2 => Paired)
                        /\ Len(revealed') <= Len(revealed) + 2 - n
  <2>1. revealed \in Seq(Nat) /\ Len(revealed) \in Nat
    <3>1. revealed \in Seq(Nat)
      BY DEF StrongTypeOK, TypeOK
    <3> QED BY <3>1
  <2>2. CASE OpenAlone
    <3>1. Shift(1) /\ Len(revealed') <= Len(revealed) + 2 - 1
      BY <2>1, <2>2 DEF OpenAlone
    <3> QED BY <3>1
  <2>3. CASE OpenPaired
    <3>1. Shift(2) /\ Paired /\ Len(revealed') <= Len(revealed) + 2 - 2
      BY <2>1, <2>3 DEF OpenPaired
    <3> QED BY <3>1
  <2>4. CASE OpenReveals
    <3>1. Sibling \in Nat
      <4>1. Given /\ InLoop /\ Walk /\ pc # "malloc"
        BY <1>1, <2>4 DEF OpenReveals, OpenInv, InLoop
      <4>2. Sibling = SiblingOf(QueueHead) /\ SiblingOf(QueueHead) \in Needed
        BY <1>1, <4>1, GivenIsNeeded
      <4> QED BY <4>1, <4>2, NeededIsNat
    <3>2. Shift(1) /\ revealed' = Append(revealed, Sibling)
      BY <2>4 DEF OpenReveals
    <3>3. Len(revealed') = Len(revealed) + 1
      BY <2>1, <3>1, <3>2
    <3>4. Len(revealed') <= Len(revealed) + 2 - 1
      BY <2>1, <3>3
    <3> QED BY <3>2, <3>4
  <2> QED BY <2>2, <2>3, <2>4
<1>3. Fitting'
  BY <1>1, <1>2, FitsStep
<1>4. RevealedFits'
  BY <1>1, <1>3, NextAllocated
<1> QED BY <1>1, <1>3, <1>4 DEF FitsInv

LEMMA FitsFrame ==
  ASSUME FitsInv, UNCHANGED <<shape, treeVars, revealed>>,
         pc' = "open" => pc = "open" /\ UNCHANGED loopVars
  PROVE  FitsInv'
<1>1. UNCHANGED <<nbLeaves, nbOpened, height, nodes, revealed>>
  BY DEF shape, treeVars
<1>2. RevealedFits'
  BY <1>1 DEF FitsInv, RevealedFits, NbMaxOpenLeaves
<1>3. ASSUME pc' = "open" PROVE Fitting'
  <2>1. pc = "open" /\ UNCHANGED <<leaves, first, last, slots, start, stop>>
    BY <1>3 DEF loopVars
  <2>2. /\ QueueHead' = QueueHead /\ Count' = Count /\ (\A k : Entry(k)' = Entry(k))
        /\ HeadFirst' = HeadFirst /\ (\A d : Capacity(d)' = Capacity(d))
    BY <1>1, <2>1 DEF QueueHead, Count, Entry, Pos, HeadFirst, FloorOfHead, Capacity
  <2>3. \A a : SplitAt(a)' <=> SplitAt(a)
    BY <2>2 DEF SplitAt
  <2> QED BY <1>1, <2>1, <2>2, <2>3 DEF FitsInv, Fitting
<1> QED BY <1>2, <1>3 DEF FitsInv

LEMMA NextFits ==
  ASSUME StrongTypeOK, OpenInv, OpenInv', FitsInv, [Next]_vars
  PROVE  FitsInv'
<1>0. StrongTypeOK'
  BY NextType
<1>1. CASE Build
  BY <1>1 DEF Build, MallocMerkleTree, BuildLeaves, BuildFloor, BuildDone, OpenInv, FitsInv,
              RevealedFits
<1>2. CASE OpenStart
  BY <1>0, <1>2, FitsStarts
<1>3. CASE OpenAlone \/ OpenPaired \/ OpenReveals
  BY <1>0, <1>3, FitsIterates
<1>4. CASE OpenDone \/ Root \/ Stopped \/ UNCHANGED vars
  <2>1. /\ UNCHANGED <<shape, treeVars, revealed>>
        /\ pc' = "open" => pc = "open" /\ UNCHANGED loopVars
    BY <1>4 DEF OpenDone, Root, RootStart, RootAlone, RootPaired, RootGiven, RootFails, RootDone,
                Stopped, vars
  <2> QED BY <2>1, FitsFrame
<1> QED BY <1>1, <1>2, <1>3, <1>4 DEF Next, Open

\* The nodes that open_merkle_tree reveals fit in the array it allocates for them and
\* in the space the parameter sets reserve in a signature, whichever leaves are open.
THEOREM RevealsFew == Spec => []RevealedFits
<1>1. Init => StrongTypeOK /\ OpenInv /\ FitsInv
  BY InitType, InitOpen DEF Init, FitsInv, RevealedFits
<1>2. StrongTypeOK /\ [Next]_vars => StrongTypeOK'
  BY NextType
<1>3. StrongTypeOK /\ OpenInv /\ [Next]_vars => OpenInv'
  BY NextOpen
<1>4. StrongTypeOK /\ OpenInv /\ OpenInv' /\ FitsInv /\ [Next]_vars => FitsInv'
  BY NextFits
<1>5. FitsInv => RevealedFits
  BY DEF FitsInv
<1> QED BY <1>1, <1>2, <1>3, <1>4, <1>5, PTL DEF Spec

-----------------------------------------------------------------------------
(* What get_merkle_root_from_auth computes.                                *)

IsSeq(s) == s \in Seq({s[k] : k \in DOMAIN s})

\* The digest of entry k of the queue is the signer's.
Right(k) == queue[Pos(k)] = nodes[Entry(k)]
AllRight == \A k \in 0..(Count - 1) : Right(k)

\* The authentication nodes still to be consumed are the signer's.
AuthRight == \A k \in (used + 1)..Len(auth) : auth[k] = nodes[revealed[k]]

\* The authentication nodes consumed are those whose siblings have been handled.
UsedInv ==
  /\ used <= Len(auth) /\ Len(auth) <= Len(revealed)
  /\ \A k \in 1..Len(revealed) : Handled(SiblingOf(revealed[k])) <=> k <= used

\* While the root is recomputed, what was received is the signer's exactly when the
\* digests in the queue and the authentication nodes that are left are.
RootInv ==
  /\ IsSeq(auth)
  /\ pc \notin {"root", "done", "failed"} => used = 0 /\ genuine
  /\ pc = "opened" => Len(auth) = Len(revealed) /\ AuthRight
  /\ pc = "root" => /\ Walk /\ UsedInv
                    /\ genuine <=> Len(auth) = Len(revealed) /\ AllRight /\ AuthRight
  /\ RootBinding

-----------------------------------------------------------------------------
(* Digests. *)

\* Hashing is injective, and nothing that is forged is the digest of a node.
LEMMA HashIsInjective ==
  ASSUME NEW p, NEW a, NEW b
  PROVE  Hash(p, a) = Hash(p, b) <=> a = b
<1>1. Hash(p, a).kids = a /\ Hash(p, b).kids = b
  BY DEF Hash, Digest
<1> QED BY <1>1

LEMMA ForgedIsNoNode ==
  ASSUME StrongTypeOK, BuildInv, pc \notin {"malloc", "leaves", "build"},
         NEW i \in 1..NbNodes, Exists(i)
  PROVE  nodes[i] # Forged
<1>1. Forged.kind = "forged"
  BY DEF Forged, Digest
<1>2. \A j : Leaf(j).kind = "leaf"
  BY DEF Leaf, Digest
<1>3. \A kids : Hash(i, kids).kind = "node"
  BY DEF Hash, Digest
<1>4. Correct(i)
  BY DEF BuildInv
<1> QED BY <1>1, <1>2, <1>3, <1>4 DEF Correct

\* The children of a node of a path are those that exist.
LEMMA NodeOfPath ==
  ASSUME StrongTypeOK, BuildInv, pc \notin {"malloc", "leaves", "build"},
         NEW x \in OnPath, x >= 2
  PROVE  /\ x \in Nat /\ x \div 2 \in OnPath
         /\ nodes[x \div 2] =
              IF Exists(2 * (x \div 2) + 1)
              THEN Hash(x \div 2, <<nodes[2 * (x \div 2)], nodes[2 * (x \div 2) + 1]>>)
              ELSE Hash(x \div 2, <<nodes[2 * (x \div 2)]>>)
<1>1. /\ x \in 1..NbNodes /\ NbNodes \in Nat /\ NbNodes < 2 * 2^height /\ 2^height \in Nat
      /\ x \div 2 \in OnPath
  BY NodeCount, PathFacts
<1>2. x \in Nat /\ x \div 2 < 2^height /\ x \div 2 \in Nat
  BY <1>1, Halves
<1>3. Correct(x \div 2)
  BY <1>1, PathFacts DEF BuildInv
<1>4. ~(x \div 2 >= 2^height)
  BY <1>1, <1>2
<1> QED BY <1>1, <1>2, <1>3, <1>4 DEF Correct

-----------------------------------------------------------------------------
(* One iteration of the loop on the digests. *)

LEMMA FirstPositions ==
  ASSUME StrongTypeOK
  PROVE  Pos(0) = start /\ Pos(1) = SecondPos
<1>1. start \in 0..(nbOpened - 1) /\ nbOpened \in Nat
  BY QueueTypes
<1> QED BY <1>1 DEF Pos, SecondPos, Wrap

\* The digests are all the signer's after an iteration when those that stay were, and
\* the digest of the parent is.
LEMMA RightStep ==
  ASSUME StrongTypeOK, NEW n \in 1..2, n = 2 => SecondPos # stop, Shift(n),
         UNCHANGED <<shape, treeVars>>, NEW v, queue' = [queue EXCEPT ![stop] = v]
  PROVE  AllRight' <=> (\A k \in n..(Count - 1) : Right(k)) /\ v = nodes[QueueHead \div 2]
<1>1. /\ nodes' = nodes /\ stop \in 0..(nbOpened - 1) /\ DOMAIN queue = 0..(nbOpened - 1)
      /\ Count \in Nat /\ UNCHANGED shape
  <2>1. stop \in 0..(nbOpened - 1) /\ Count \in Nat
    BY QueueTypes
  <2>2. nodes' = nodes /\ UNCHANGED shape
    BY DEF treeVars
  <2> QED BY <2>1, <2>2 DEF StrongTypeOK, TypeOK
<1>2. /\ n <= Count /\ Count' = Count - n + 1
      /\ \A k \in 0..(Count - 1) : Pos(k) \in 0..(nbOpened - 1)
      /\ \A k \in 0..(Count - n - 1) : Pos(k)' = Pos(k + n) /\ Pos(k + n) # stop
      /\ Pos(Count - 1)' = stop
  BY <1>1, ShiftPositions
<1>3. FifoStep(n)
  BY <1>1, ShiftIsFifo
<1>4. ASSUME NEW k \in 0..(Count - n - 1)
      PROVE  Right(k)' <=> Right(k + n)
  <2>1. k + n \in 0..(Count - 1)
    BY <1>1
  <2>2. queue'[Pos(k)'] = queue[Pos(k + n)]
    BY <1>1, <1>2, <2>1
  <2>3. Entry(k)' = Entry(k + n)
    BY <1>3 DEF FifoStep
  <2> QED BY <1>1, <2>2, <2>3 DEF Right
<1>5. Right(Count - 1)' <=> v = nodes[QueueHead \div 2]
  <2>1. queue'[Pos(Count - 1)'] = v
    BY <1>1, <1>2
  <2>2. Entry(Count - 1)' = QueueHead \div 2
    BY <1>3 DEF FifoStep
  <2> QED BY <1>1, <2>1, <2>2 DEF Right
<1>6. AllRight' => (\A k \in n..(Count - 1) : Right(k)) /\ v = nodes[QueueHead \div 2]
  <2> SUFFICES ASSUME AllRight' PROVE (\A k \in n..(Count - 1) : Right(k)) /\ v = nodes[QueueHead \div 2]
    OBVIOUS
  <2>1. \A k \in 0..(Count' - 1) : Right(k)'
    BY DEF AllRight
  <2>2. Right(Count - 1)'
    <3>1. Count' - 1 \in 0..(Count' - 1) /\ \A m : m = Count' - 1 => (Right(m)' <=> Right(Count - 1)')
      BY <1>1, <1>2 DEF Right
    <3> QED BY <2>1, <3>1
  <2>3. ASSUME NEW k \in n..(Count - 1) PROVE Right(k)
    <3>1. k - n \in 0..(Count - n - 1) /\ (k - n) + n = k /\ k - n \in 0..(Count' - 1)
      BY <1>1, <1>2
    <3>2. Right(k - n)' <=> Right((k - n) + n)
      BY <1>4, <3>1
    <3>3. Right(k - n)'
      BY <2>1, <3>1
    <3> QED BY <3>1, <3>2, <3>3
  <2> QED BY <1>5, <2>2, <2>3
<1>7. (\A k \in n..(Count - 1) : Right(k)) /\ v = nodes[QueueHead \div 2] => AllRight'
  <2> SUFFICES ASSUME \A k \in n..(Count - 1) : Right(k), v = nodes[QueueHead \div 2],
                      NEW k \in 0..(Count' - 1)
               PROVE  Right(k)'
    BY DEF AllRight
  <2>1. CASE k = Count - n
    <3>1. Right(Count - 1)' /\ k = Count' - 1
      BY <1>1, <1>2, <1>5, <2>1
    <3> QED BY <3>1 DEF Right
  <2>2. CASE k # Count - n
    <3>1. k \in 0..(Count - n - 1) /\ k + n \in n..(Count - 1)
      BY <1>1, <1>2, <2>2
    <3> QED BY <1>4, <3>1
  <2> QED BY <2>1, <2>2
<1> QED BY <1>6, <1>7

\* The last node of a floor, when it is a left one, is its parent's only child.
LEMMA AloneHasNoSibling ==
  ASSUME StrongTypeOK, InLoop, Walk, Alone
  PROVE  ~Exists(QueueHead + 1)
<1>1. HeadPlace /\ pc # "malloc"
  BY HeadPlaced DEF Walk, InLoop
<1>2. PICK d \in 0..height : HeadFirst = 2^d /\ HeadLast = LastOf(d)
  BY <1>1 DEF HeadPlace
<1>3. /\ QueueHead \in Nat /\ HeadFirst \in Nat /\ HeadLast \in Nat
      /\ HeadFirst <= QueueHead /\ HeadLast < 2 * HeadFirst
  BY <1>1 DEF HeadPlace
<1>4. QueueHead = HeadLast /\ QueueHead % 2 = 0
  BY DEF Alone, HeadLast, IsLeft
<1>5. QueueHead + 1 \in Nat /\ HeadFirst <= QueueHead + 1 /\ QueueHead + 1 < 2 * HeadFirst
  BY <1>3, <1>4
<1>6. \A i \in Nat : HeadFirst <= i /\ i < 2 * HeadFirst => (Exists(i) <=> i <= HeadLast)
  BY <1>1, <1>2, ExistsUpToLast
<1> QED BY <1>3, <1>4, <1>5, <1>6

\* What is given next is the sibling of the head.
LEMMA NextRevealed ==
  ASSUME StrongTypeOK, pc = "root", Walk, UsedInv, RevealedAll, QueueHead # 1, Given
  PROVE  /\ used + 1 \in 1..Len(revealed) /\ revealed[used + 1] = SiblingOf(QueueHead)
         /\ \A k \in 1..Len(revealed) : SiblingOf(revealed[k]) = QueueHead <=> k = used + 1
<1> DEFINE x == QueueHead
<1>0. InLoop /\ pc # "malloc" /\ Len(revealed) \in Nat /\ used \in Nat /\ x \in Nat
  BY QueueTypes DEF InLoop, StrongTypeOK, TypeOK
<1>1. SiblingOf(x) \in Needed /\ SiblingOf(SiblingOf(x)) = x
  BY <1>0, GivenIsNeeded, Siblings
<1>2. PICK k \in 1..Len(revealed) : revealed[k] = SiblingOf(x)
  BY <1>1 DEF RevealedAll
<1>3. ~Handled(x)
  BY <1>0, HeadPlaced DEF Walk, HeadPlace, Handled
<1>4. \A j \in 1..Len(revealed) : revealed[j] \in Needed /\ SiblingOf(revealed[j]) \in OnPath
                                  /\ SiblingOf(SiblingOf(revealed[j])) = revealed[j]
  BY <1>0, NeededSibling DEF RevealedAll
<1>5. ASSUME NEW j \in 1..Len(revealed), SiblingOf(revealed[j]) = x PROVE j = used + 1
  <2>1. j > used
    BY <1>0, <1>3, <1>5 DEF UsedInv
  <2>2. CASE j > used + 1
    <3>1. used + 1 \in 1..Len(revealed) /\ used + 1 \in 1..(j - 1)
      BY <1>0, <2>2
    <3>2. Earlier(SiblingOf(revealed[used + 1]), x)
      BY <1>5, <3>1 DEF RevealedAll, RevealedInOrder
    <3>3. Handled(SiblingOf(revealed[used + 1]))
      BY <1>0, <1>4, <3>1, <3>2, EarlierIsHandled
    <3>4. used + 1 <= used
      BY <3>1, <3>3 DEF UsedInv
    <3> QED BY <1>0, <3>4
  <2> QED BY <1>0, <2>1, <2>2
<1>6. k = used + 1
  BY <1>1, <1>2, <1>5
<1>7. SiblingOf(revealed[used + 1]) = x
  BY <1>1, <1>2, <1>6
<1> QED BY <1>2, <1>5, <1>6, <1>7

-----------------------------------------------------------------------------
(* Sequences. *)

LEMMA SeqOfItsElements ==
  ASSUME NEW S, NEW s \in Seq(S)
  PROVE  s \in Seq({s[k] : k \in DOMAIN s})
<1> DEFINE T == {s[k] : k \in DOMAIN s}
<1>1. s \in [1..Len(s) -> S] /\ Len(s) \in Nat /\ DOMAIN s = 1..Len(s)
  BY LenProperties
<1>2. s \in [1..Len(s) -> T]
  BY <1>1
<1> HIDE DEF T
<1>3. s \in Seq(T)
  BY <1>1, <1>2, SeqDef
<1> QED BY <1>3 DEF T

LEMMA FrontOfSeq ==
  ASSUME NEW S, NEW s \in Seq(S), Len(s) # 0
  PROVE  SubSeq(s, 1, Len(s) - 1) \in Seq(S) /\ Len(SubSeq(s, 1, Len(s) - 1)) = Len(s) - 1
<1>1. Len(s) \in Nat /\ \A i \in 1..Len(s) : s[i] \in S
  BY LenProperties, ElementOfSeq
<1>2. 1 \in Int /\ Len(s) - 1 \in Int /\ \A i \in 1..(Len(s) - 1) : s[i] \in S
  BY <1>1
<1>3. /\ SubSeq(s, 1, Len(s) - 1) \in Seq(S)
      /\ Len(SubSeq(s, 1, Len(s) - 1)) =
           IF 1 <= Len(s) - 1 THEN (Len(s) - 1) - 1 + 1 ELSE 0
  BY <1>2, SubSeqProperties
<1>4. \A m \in Nat : m # 0 => (IF 1 <= m - 1 THEN (m - 1) - 1 + 1 ELSE 0) = m - 1
  OBVIOUS
<1>5. (IF 1 <= Len(s) - 1 THEN (Len(s) - 1) - 1 + 1 ELSE 0) = Len(s) - 1
  BY <1>1, <1>4, Zenon
<1> QED BY <1>3, <1>5, Zenon

-----------------------------------------------------------------------------
(* The actions of the verifier. *)

\* An iteration that consumes no authentication node hashes all the children of the
\* parent of the head.
LEMMA RootQuietly ==
  ASSUME StrongTypeOK, StrongTypeOK', BuildInv, OpenInv, RootInv, RootAlone \/ RootPaired
  PROVE  RootInv'
<1> DEFINE x == QueueHead
           p == x \div 2
<1>1. /\ pc = "root" /\ pc' = "root" /\ x # 1 /\ ~Given
      /\ UNCHANGED <<pc, shape, treeVars, revealed, auth, used, root, genuine, leaves>>
  BY DEF RootAlone, RootPaired, Given, Paired, Shift
<1>2. InLoop /\ Walk /\ UsedInv /\ RevealedAll /\ pc \notin {"malloc", "leaves", "build"}
  BY <1>1 DEF InLoop, RootInv, OpenInv
<1> DEFINE Kids(m) == IF m = 1 THEN <<queue[start]>> ELSE <<queue[start], queue[SecondPos]>>
<1>3. PICK n \in 1..2 : /\ Shift(n) /\ (n = 2 => Paired) /\ (n = 1 => ~Paired /\ Alone)
                        /\ queue' = [queue EXCEPT ![stop] = Hash(p, Kids(n))]
  <2>1. CASE RootAlone
    <3>1. Shift(1) /\ Alone /\ queue' = [queue EXCEPT ![stop] = Hash(p, Kids(1))]
      BY <2>1 DEF RootAlone, PushDigest
    <3> QED BY <3>1, 1 \in 1..2 DEF Paired
  <2>2. CASE RootPaired
    <3>1. Shift(2) /\ Paired /\ queue' = [queue EXCEPT ![stop] = Hash(p, Kids(2))]
      BY <2>2 DEF RootPaired, PushDigest
    <3> QED BY <3>1, 2 \in 1..2
  <2> QED BY <2>1, <2>2
<1> DEFINE kids == Kids(n)
<1>4. /\ Walk' /\ x \in OnPath /\ (n = 2 => x + 1 \in OnPath)
      /\ \A y : Handled(y)' <=> Handled(y) \/ y = x \/ (n = 2 /\ y = x + 1)
  <2>1. UNCHANGED <<pc, shape, treeVars>>
    BY <1>1
  <2> QED BY <1>1, <1>2, <1>3, <2>1, WalkStep
<1>5. /\ UNCHANGED <<nbLeaves, nbOpened, height, nodes, leaves>>
      /\ x \in Nat /\ x >= 2 /\ p \in OnPath
      /\ Count \in Nat /\ Count >= 1 /\ Entry(0) = x
  <2>1. x \in Nat /\ Count \in Nat /\ Count >= 1 /\ Entry(0) = x
    BY QueueTypes
  <2>2. x >= 1
    BY <1>2, <1>4, NodeCount, PathFacts
  <2>3. x >= 2
    BY <1>1, <2>1, <2>2
  <2> QED BY <1>1, <1>2, <1>4, <2>1, <2>3, PathFacts DEF shape, treeVars
<1>6. UsedInv'
  <2>1. SiblingOf(x) \notin Needed
    BY <1>1, <1>2, GivenIsNeeded
  <2>2. n = 2 => SiblingOf(x + 1) = x /\ x \notin Needed
    <3>1. n = 2 => x % 2 = 0
      BY <1>3 DEF Paired, SiblingQueued, IsLeft
    <3> QED BY <1>4, <1>5, <3>1 DEF SiblingOf, Needed
  <2>3. ASSUME NEW k \in 1..Len(revealed)
        PROVE  SiblingOf(revealed[k]) # x /\ (n = 2 => SiblingOf(revealed[k]) # x + 1)
    <3>1. revealed[k] \in Needed /\ SiblingOf(SiblingOf(revealed[k])) = revealed[k]
      BY <1>2, NeededSibling DEF RevealedAll
    <3> QED BY <2>1, <2>2, <3>1
  <2>4. ASSUME NEW k \in 1..Len(revealed)
        PROVE  Handled(SiblingOf(revealed[k]))' <=> k <= used
    <3>1. \A y : SiblingOf(revealed[k]) = y => (Handled(SiblingOf(revealed[k]))' <=> Handled(y)')
      BY <1>1 DEF SiblingOf, Handled
    <3>2. Handled(SiblingOf(revealed[k])) <=> k <= used
      BY <1>2 DEF UsedInv
    <3> QED BY <1>4, <2>3, <3>1, <3>2
  <2> QED BY <1>1, <1>2, <2>4 DEF UsedInv
<1>7. AllRight' <=> AllRight
  <2>1. n = 2 => SecondPos # stop
    BY <1>3 DEF Paired, SiblingQueued
  <2>2. AllRight' <=> (\A k \in n..(Count - 1) : Right(k)) /\ Hash(p, kids) = nodes[p]
    <3>1. UNCHANGED <<shape, treeVars>>
      BY <1>1
    <3> QED BY <1>3, <2>1, <3>1, RightStep
  <2>3. nodes[p] = IF Exists(2 * p + 1) THEN Hash(p, <<nodes[2 * p], nodes[2 * p + 1]>>)
                   ELSE Hash(p, <<nodes[2 * p]>>)
    BY <1>2, <1>4, <1>5, NodeOfPath
  <2>4. IsLeft /\ x = 2 * p
    <3>1. IsLeft
      BY <1>3 DEF Paired, SiblingQueued, Alone
    <3> QED BY <1>5, <3>1 DEF IsLeft
  <2>5. Right(0) <=> queue[start] = nodes[x]
    BY <1>5, FirstPositions DEF Right
  <2>6. CASE n = 1
    <3>1. ~Exists(2 * p + 1)
      BY <1>2, <1>3, <2>4, <2>6, AloneHasNoSibling
    <3>2. Hash(p, kids) = nodes[p] <=> kids = <<nodes[2 * p]>>
      <4>1. nodes[p] = Hash(p, <<nodes[2 * p]>>)
        BY <2>3, <3>1
      <4> HIDE DEF kids, p
      <4> QED BY <4>1, HashIsInjective
    <3>3. Hash(p, kids) = nodes[p] <=> Right(0)
      BY <1>3, <2>4, <2>5, <2>6, <3>2
    <3>4. AllRight <=> Right(0) /\ \A k \in 1..(Count - 1) : Right(k)
      BY <1>5 DEF AllRight
    <3> QED BY <2>2, <2>6, <3>3, <3>4
  <2>7. CASE n = 2
    <3>1. Exists(2 * p + 1)
      BY <1>2, <1>4, <2>4, <2>7, PathFacts
    <3>2. Hash(p, kids) = nodes[p] <=> kids = <<nodes[2 * p], nodes[2 * p + 1]>>
      <4>1. nodes[p] = Hash(p, <<nodes[2 * p], nodes[2 * p + 1]>>)
        BY <2>3, <3>1
      <4> HIDE DEF kids, p
      <4> QED BY <4>1, HashIsInjective
    <3>3. Count >= 2 /\ Entry(1) = x + 1
      BY <1>2, <1>3, <2>4, <2>7, SiblingFound DEF Walk, Paired
    <3>4. Right(1) <=> queue[SecondPos] = nodes[x + 1]
      BY <3>3, FirstPositions DEF Right
    <3>5. Hash(p, kids) = nodes[p] <=> Right(0) /\ Right(1)
      BY <1>3, <2>4, <2>5, <2>7, <3>2, <3>4
    <3>6. AllRight <=> Right(0) /\ Right(1) /\ \A k \in 2..(Count - 1) : Right(k)
      <4>1. ASSUME NEW k \in 0..(Count - 1) PROVE k = 0 \/ k = 1 \/ k \in 2..(Count - 1)
        BY <1>5
      <4> QED BY <1>5, <3>3, <4>1 DEF AllRight
    <3> QED BY <2>2, <2>7, <3>5, <3>6
  <2> QED BY <2>6, <2>7
<1>8. AuthRight' <=> AuthRight
  BY <1>1, <1>5 DEF AuthRight
<1> QED BY <1>1, <1>4, <1>6, <1>7, <1>8 DEF RootInv, RootBinding, IsSeq

LEMMA RootIsGiven ==
  ASSUME StrongTypeOK, StrongTypeOK', BuildInv, OpenInv, RootInv, RootGiven
  PROVE  RootInv'
<1> DEFINE x == QueueHead
           p == x \div 2
           kids == KidsWithGiven(auth[used + 1])
<1>1. /\ pc = "root" /\ pc' = "root" /\ x # 1 /\ Given /\ ~Paired /\ used < Len(auth)
      /\ UNCHANGED <<pc, shape, treeVars, revealed, auth, root, genuine, leaves>>
      /\ used' = used + 1 /\ Shift(1) /\ queue' = [queue EXCEPT ![stop] = Hash(p, kids)]
  BY DEF RootGiven, PushDigest, Given, Paired, Shift
<1>2. InLoop /\ Walk /\ UsedInv /\ RevealedAll /\ pc \notin {"malloc", "leaves", "build"}
  BY <1>1 DEF InLoop, RootInv, OpenInv
<1>3. /\ Walk' /\ x \in OnPath
      /\ \A y : Handled(y)' <=> Handled(y) \/ y = x
  <2>1. UNCHANGED <<pc, shape, treeVars>>
    BY <1>1
  <2> QED BY <1>1, <1>2, <2>1, WalkStep
<1>4. /\ UNCHANGED <<nbLeaves, nbOpened, height, nodes, leaves>>
      /\ x \in Nat /\ x >= 2 /\ p \in OnPath /\ used \in Nat /\ Len(auth) \in Nat
      /\ Count \in Nat /\ Count >= 1 /\ Entry(0) = x /\ Len(revealed) \in Nat
  <2>1. x \in Nat /\ Count \in Nat /\ Count >= 1 /\ Entry(0) = x
    BY QueueTypes
  <2>2. x >= 1
    BY <1>2, <1>3, NodeCount, PathFacts
  <2>3. used \in Nat /\ Len(revealed) \in Nat /\ Len(auth) \in Nat
    <3>1. used \in Nat /\ revealed \in Seq(Nat)
      BY DEF StrongTypeOK, TypeOK
    <3>2. auth \in Seq({auth[k] : k \in DOMAIN auth})
      BY DEF RootInv, IsSeq
    <3> QED BY <3>1, <3>2, LenProperties
  <2>4. x >= 2
    BY <1>1, <2>1, <2>2
  <2>5. p \in OnPath
    BY <1>2, <1>3, <2>4, PathFacts
  <2> QED BY <1>1, <2>1, <2>3, <2>4, <2>5 DEF shape, treeVars
<1>5. /\ used + 1 \in 1..Len(revealed) /\ revealed[used + 1] = SiblingOf(x)
      /\ \A k \in 1..Len(revealed) : SiblingOf(revealed[k]) = x <=> k = used + 1
  BY <1>1, <1>2, NextRevealed
<1>6. UsedInv'
  <2>1. ASSUME NEW k \in 1..Len(revealed)
        PROVE  Handled(SiblingOf(revealed[k]))' <=> k <= used'
    <3>1. \A y : SiblingOf(revealed[k]) = y => (Handled(SiblingOf(revealed[k]))' <=> Handled(y)')
      BY <1>1 DEF SiblingOf, Handled
    <3>2. Handled(SiblingOf(revealed[k])) <=> k <= used
      BY <1>2 DEF UsedInv
    <3>3. Handled(SiblingOf(revealed[k]))' <=> k <= used \/ k = used + 1
      BY <1>3, <1>5, <3>1, <3>2
    <3> QED BY <1>1, <1>4, <3>3
  <2>2. used' <= Len(auth')
    BY <1>1, <1>4
  <2>3. Len(auth') <= Len(revealed')
    BY <1>1, <1>2 DEF UsedInv
  <2> QED BY <1>1, <2>1, <2>2, <2>3 DEF UsedInv
<1>7. AllRight' <=> AllRight /\ auth[used + 1] = nodes[revealed[used + 1]]
  <2>1. AllRight' <=> (\A k \in 1..(Count - 1) : Right(k)) /\ Hash(p, kids) = nodes[p]
    <3>1. UNCHANGED <<shape, treeVars>>
      BY <1>1
    <3>2. ASSUME NEW v, queue' = [queue EXCEPT ![stop] = v]
          PROVE  AllRight' <=> (\A k \in 1..(Count - 1) : Right(k)) /\ v = nodes[QueueHead \div 2]
      <4>1. ASSUME NEW n \in 1..2, n = 1
            PROVE  AllRight' <=> (\A k \in n..(Count - 1) : Right(k)) /\ v = nodes[QueueHead \div 2]
        <5>1. Shift(n) /\ (n = 2 => SecondPos # stop)
          BY <1>1, <4>1
        <5> QED BY <3>1, <3>2, <4>1, <5>1, RightStep
      <4> QED BY <4>1
    <3>3. queue' = [queue EXCEPT ![stop] = Hash(p, kids)]
      BY <1>1
    <3> HIDE DEF kids
    <3> QED BY <3>2, <3>3, Zenon
  <2>2. nodes[p] = IF Exists(2 * p + 1) THEN Hash(p, <<nodes[2 * p], nodes[2 * p + 1]>>)
                   ELSE Hash(p, <<nodes[2 * p]>>)
    BY <1>2, <1>3, <1>4, NodeOfPath
  <2>3. SiblingOf(x) \in Needed /\ Exists(SiblingOf(x)) /\ Exists(x)
    BY <1>1, <1>2, <1>3, GivenIsNeeded, PathFacts DEF Needed
  <2>4. Right(0) <=> queue[start] = nodes[x]
    BY <1>4, FirstPositions DEF Right
  <2>5. AllRight <=> Right(0) /\ \A k \in 1..(Count - 1) : Right(k)
    BY <1>4 DEF AllRight
  <2>6. Hash(p, kids) = nodes[p] <=> Right(0) /\ auth[used + 1] = nodes[SiblingOf(x)]
    <3>1. CASE IsLeft
      <4>1. x = 2 * p /\ SiblingOf(x) = 2 * p + 1
        BY <1>4, <3>1 DEF IsLeft, SiblingOf
      <4>2. nodes[p] = Hash(p, <<nodes[x], nodes[SiblingOf(x)]>>)
        BY <2>2, <2>3, <4>1
      <4>3. kids = <<queue[start], auth[used + 1]>>
        BY <3>1 DEF KidsWithGiven
      <4>4. Hash(p, kids) = nodes[p] <=> kids = <<nodes[x], nodes[SiblingOf(x)]>>
        BY <4>2, HashIsInjective
      <4> QED BY <2>4, <4>3, <4>4
    <3>2. CASE ~IsLeft
      <4>1. x = 2 * p + 1 /\ SiblingOf(x) = 2 * p
        BY <1>4, <3>2 DEF IsLeft, SiblingOf
      <4>2. nodes[p] = Hash(p, <<nodes[SiblingOf(x)], nodes[x]>>)
        BY <2>2, <2>3, <4>1
      <4>3. kids = <<auth[used + 1], queue[start]>>
        BY <3>2 DEF KidsWithGiven
      <4>4. Hash(p, kids) = nodes[p] <=> kids = <<nodes[SiblingOf(x)], nodes[x]>>
        BY <4>2, HashIsInjective
      <4> QED BY <2>4, <4>3, <4>4
    <3> QED BY <3>1, <3>2
  <2> QED BY <1>5, <2>1, <2>5, <2>6
<1>8. AuthRight <=> AuthRight' /\ auth[used + 1] = nodes[revealed[used + 1]]
  <2>1. used + 1 \in (used + 1)..Len(auth)
    BY <1>1, <1>4
  <2>2. \A k \in (used + 1)..Len(auth) : k = used + 1 \/ k \in ((used + 1) + 1)..Len(auth)
    BY <1>4
  <2>3. \A k \in ((used + 1) + 1)..Len(auth) : k \in (used + 1)..Len(auth)
    BY <1>4
  <2> QED BY <1>1, <1>4, <2>1, <2>2, <2>3 DEF AuthRight
<1>9. genuine' <=> Len(auth') = Len(revealed') /\ AllRight' /\ AuthRight'
  BY <1>1, <1>7, <1>8 DEF RootInv
<1> QED BY <1>1, <1>3, <1>6, <1>9 DEF RootInv, RootBinding, IsSeq

\* The loop starts from the open leaves of the signer, or from something else.
LEMMA RootStarts ==
  ASSUME WidthIsEnough, StrongTypeOK, StrongTypeOK', InputInv, BuildInv, OpenInv, RootInv,
         RootStart
  PROVE  RootInv'
<1>1. /\ pc = "opened" /\ pc' = "root" /\ leaves' = leaves
      /\ UNCHANGED <<shape, treeVars, revealed, used>>
  BY DEF RootStart, StartLoop
<1>2. /\ UNCHANGED <<nbLeaves, nbOpened, height, nodes, leaves>> /\ pc # "malloc" /\ InLoop'
      /\ used = 0 /\ genuine /\ Len(auth) = Len(revealed) /\ AuthRight /\ RevealedAll
      /\ Len(revealed) \in Nat /\ IsSeq(auth) /\ pc \notin {"malloc", "leaves", "build"}
  BY <1>1, SMTT(30) DEF shape, treeVars, InLoop, RootInv, OpenInv, StrongTypeOK, TypeOK
<1>3. StartLoop(2^height, leaves) /\ leaves \in LeafChoices
  <2>1. U16(2^height) = 2^height
    BY <1>2, NoTruncation
  <2> QED BY <1>1, <2>1 DEF RootStart, InputInv
<1>4. Walk' /\ \A y : ~Handled(y)'
  <2>1. UNCHANGED <<shape, treeVars>>
    BY <1>1
  <2> QED BY <1>2, <1>3, <2>1, WalkStarts
<1>5. /\ start' = 0 /\ stop' = 0 /\ slots' = [i \in 0..(nbOpened - 1) |-> 2^height + leaves[i]]
      /\ nbOpened \in Nat /\ nbOpened >= 1
  BY <1>3, Sizes DEF StartLoop
<1>6. Count' = nbOpened
  BY <1>2, <1>5 DEF Count
<1>7. ASSUME NEW k \in 0..(nbOpened - 1)
      PROVE  Right(k)' <=> queue'[k] = Leaf(leaves[k])
  <2>1. Pos(k)' = k
    BY <1>2, <1>5 DEF Pos
  <2>2. Entry(k)' = 2^height + leaves[k]
    BY <1>5, <2>1 DEF Entry
  <2>3. nodes[2^height + leaves[k]] = Leaf(leaves[k])
    <3>1. /\ 2^height + leaves[k] \in OnPath /\ leaves[k] \in Nat /\ 2^height \in Nat
          /\ 2^height + leaves[k] \in 1..NbNodes /\ Exists(2^height + leaves[k])
      BY <1>2, PathFacts, LeavesAreNodes, NodeCount
    <3>2. Correct(2^height + leaves[k])
      BY <1>2, <3>1 DEF BuildInv
    <3>3. 2^height + leaves[k] >= 2^height /\ (2^height + leaves[k]) - 2^height = leaves[k]
      BY <3>1
    <3> QED BY <3>2, <3>3 DEF Correct
  <2> QED BY <1>2, <2>1, <2>2, <2>3 DEF Right
<1>8. AllRight' <=> \A k \in 0..(nbOpened - 1) : queue'[k] = Leaf(leaves[k])
  BY <1>6, <1>7 DEF AllRight
<1>9. ASSUME NEW i PROVE Forged # Leaf(i)
  <2>1. Forged.kind = "forged" /\ Leaf(i).kind = "leaf"
    BY DEF Forged, Leaf, Digest
  <2> QED BY <2>1
<1>10. ASSUME NEW k \in 1..Len(revealed) PROVE nodes[revealed[k]] # Forged
  <2>1. revealed[k] \in Needed
    BY <1>2 DEF RevealedAll
  <2>2. revealed[k] \in 1..NbNodes /\ Exists(revealed[k])
    BY <1>2, <2>1, NodeCount DEF Needed
  <2> QED BY <1>2, <2>2, ForgedIsNoNode
<1>11. /\ IsSeq(auth') /\ Len(auth') <= Len(revealed)
       /\ genuine' <=> Len(auth') = Len(revealed) /\ AllRight' /\ AuthRight'
  <2>1. AuthRight' <=> \A k \in 1..Len(auth') : auth'[k] = nodes[revealed[k]]
    BY <1>1, <1>2 DEF AuthRight
  <2>2. \A k \in 1..Len(auth) : auth[k] = nodes[revealed[k]]
    BY <1>2 DEF AuthRight
  <2>3. OpenLeafDigests = [i \in 0..(nbOpened - 1) |-> Leaf(leaves[i])]
    BY DEF OpenLeafDigests
  <2>4. CASE ReceiveGenuine
    BY <1>2, <1>8, <2>1, <2>2, <2>3, <2>4 DEF ReceiveGenuine
  <2>5. CASE ReceiveForgedLeaf
    <3>1. PICK i \in 0..(nbOpened - 1) : queue' = [OpenLeafDigests EXCEPT ![i] = Forged]
      BY <2>5 DEF ReceiveForgedLeaf
    <3>2. queue'[i] = Forged
      BY <2>3, <3>1
    <3>3. ~AllRight'
      BY <1>8, <1>9, <3>2
    <3> QED BY <1>2, <2>5, <3>3 DEF ReceiveForgedLeaf
  <2>6. CASE ReceiveForgedAuth
    <3>1. PICK k \in 1..Len(auth) : auth' = [auth EXCEPT ![k] = Forged]
      BY <2>6 DEF ReceiveForgedAuth
    <3>2. /\ auth' \in Seq({auth'[j] : j \in DOMAIN auth'})
          /\ Len(auth') = Len(auth) /\ auth'[k] = Forged
      <4> DEFINE S == {auth[j] : j \in DOMAIN auth} \cup {Forged}
      <4>1. auth \in Seq(S) /\ Forged \in S
        BY <1>2 DEF IsSeq
      <4> HIDE DEF S
      <4>2. auth' \in Seq(S) /\ Len(auth') = Len(auth) /\ auth'[k] = Forged
        BY <3>1, <4>1, ExceptSeq
      <4>3. auth' \in Seq({auth'[j] : j \in DOMAIN auth'})
        BY <4>2, SeqOfItsElements
      <4> QED BY <4>2, <4>3
    <3>3. ~AuthRight'
      BY <1>2, <1>10, <2>1, <3>2
    <3>4. ~genuine'
      BY <2>6 DEF ReceiveForgedAuth
    <3>5. Len(auth') <= Len(revealed)
      BY <1>2, <3>2
    <3> QED BY <3>2, <3>3, <3>4, <3>5 DEF IsSeq
  <2>7. CASE ReceiveShortAuth
    <3>1. auth # <<>> /\ auth' = SubSeq(auth, 1, Len(auth) - 1) /\ ~genuine'
      BY <2>7 DEF ReceiveShortAuth
    <3>2. /\ auth' \in Seq({auth'[j] : j \in DOMAIN auth'})
          /\ Len(auth') < Len(auth) /\ Len(auth') \in Nat
      <4> DEFINE S == {auth[j] : j \in DOMAIN auth}
      <4>1. auth \in Seq(S) /\ Len(auth) \in Nat /\ Len(auth) # 0
        BY <1>2, <3>1 DEF IsSeq
      <4> HIDE DEF S
      <4>2. auth' \in Seq(S) /\ Len(auth') = Len(auth) - 1
        BY <3>1, <4>1, FrontOfSeq
      <4>3. auth' \in Seq({auth'[j] : j \in DOMAIN auth'})
        BY <4>2, SeqOfItsElements
      <4> QED BY <4>1, <4>2, <4>3
    <3> QED BY <1>2, <3>1, <3>2 DEF IsSeq
  <2> QED BY <2>4, <2>5, <2>6, <2>7 DEF RootStart
<1>12. Len(auth') \in Nat
  BY <1>11 DEF IsSeq
<1>13. UsedInv'
  <2>1. used' = 0 /\ Len(revealed') = Len(revealed) /\ Len(revealed) \in Nat
    BY <1>1, <1>2
  <2>2. ASSUME NEW k \in 1..Len(revealed) PROVE Handled(SiblingOf(revealed[k]))' <=> k <= used'
    <3>1. \A y : SiblingOf(revealed[k])' = y => (Handled(SiblingOf(revealed[k]))' <=> Handled(y)')
      BY DEF SiblingOf, Handled
    <3>2. ~Handled(SiblingOf(revealed[k]))'
      BY <1>4, <3>1
    <3>3. ~(k <= used')
      BY <2>1
    <3> QED BY <3>2, <3>3
  <2> QED BY <1>11, <1>12, <2>1, <2>2 DEF UsedInv
<1> QED BY <1>1, <1>4, <1>11, <1>13 DEF RootInv, RootBinding

\* The queue holds the root when node 1 is at its head.
LEMMA RootEnds ==
  ASSUME StrongTypeOK, BuildInv, OpenInv, RootInv, RootDone
  PROVE  RootInv'
<1>1. /\ pc = "root" /\ pc' = "done" /\ QueueHead = 1 /\ root' = queue[start]
      /\ auth' = auth /\ used' = used /\ genuine' = genuine /\ nodes' = nodes
  BY DEF RootDone, treeVars
<1>2. /\ InLoop /\ Walk /\ UsedInv /\ RevealedAll /\ pc \notin {"malloc", "leaves", "build"}
      /\ genuine <=> Len(auth) = Len(revealed) /\ AllRight /\ AuthRight
      /\ IsSeq(auth)
  BY <1>1 DEF InLoop, RootInv, OpenInv
<1>3. used \in Nat /\ Len(revealed) \in Nat /\ Len(auth) \in Nat
  <2>1. used \in Nat /\ revealed \in Seq(Nat)
    BY DEF StrongTypeOK, TypeOK
  <2>2. auth \in Seq({auth[k] : k \in DOMAIN auth})
    BY <1>2 DEF IsSeq
  <2> QED BY <2>1, <2>2, LenProperties
<1>4. \A k \in 1..Len(revealed) : k <= used
  <2> SUFFICES ASSUME NEW k \in 1..Len(revealed) PROVE k <= used
    OBVIOUS
  <2>1. revealed[k] \in Needed
    BY <1>2 DEF RevealedAll
  <2>2. SiblingOf(revealed[k]) \in OnPath /\ SiblingOf(revealed[k]) >= 2
    BY <1>2, <2>1, NeededSibling
  <2>3. Handled(SiblingOf(revealed[k]))
    BY <1>1, <1>2, <2>2, AllHandled
  <2> QED BY <1>2, <2>3 DEF UsedInv
<1>5. used = Len(auth) /\ Len(auth) = Len(revealed)
  <2>1. used <= Len(auth) /\ Len(auth) <= Len(revealed)
    BY <1>2 DEF UsedInv
  <2>2. Len(revealed) <= used
    <3>1. CASE Len(revealed) = 0
      BY <1>3, <3>1
    <3>2. CASE Len(revealed) # 0
      <4>1. Len(revealed) \in 1..Len(revealed)
        BY <1>3, <3>2
      <4> QED BY <1>4, <4>1
    <3> QED BY <3>1, <3>2
  <2> QED BY <1>3, <2>1, <2>2
<1>6. AuthRight
  <2>1. (used + 1)..Len(auth) = {}
    BY <1>3, <1>5
  <2> QED BY <2>1 DEF AuthRight
<1>7. AllRight <=> queue[start] = nodes[1]
  <2>1. Count \in Nat /\ Count = 1 /\ Entry(0) = 1
    <3>1. HeadPlace
      BY <1>2, HeadPlaced DEF Walk
    <3>2. HeadFirst = 1 /\ Count \in Nat /\ Count >= 1 /\ Entry(0) = 1
      BY <1>1, <3>1, QueueTypes DEF HeadPlace
    <3>3. CASE Count >= 2
      <4>1. 1 \in 1..(Count - 1)
        BY <3>2, <3>3
      <4>2. HeadLast \in Nat /\ HeadLast < 2 * HeadFirst /\ HeadFirst <= QueueHead
        BY <3>1 DEF HeadPlace
      <4>3. /\ Entry(1) \in Nat /\ Entry(1) >= 1
            /\ \/ HeadFirst <= Entry(1) /\ Entry(1) <= HeadLast /\ QueueHead < Entry(1)
               \/ Entry(1) < HeadFirst /\ Entry(1) < QueueHead \div 2
        BY <3>1, <4>1 DEF HeadPlace
      <4> QED BY <1>1, <3>2, <4>2, <4>3
    <3> QED BY <3>2, <3>3
  <2>2. AllRight <=> Right(0)
    <3>1. 0..(Count - 1) = {0}
      BY <2>1
    <3> QED BY <3>1 DEF AllRight
  <2> QED BY <2>1, <2>2, FirstPositions DEF Right
<1>8. /\ IsSeq(auth') /\ root' = nodes'[1] <=> genuine'
      /\ used' = Len(auth')
  BY <1>1, <1>2, <1>5, <1>6, <1>7 DEF IsSeq
<1> QED BY <1>1, <1>8 DEF RootInv, RootBinding

\* A node is missing when there is none left for a head that needs one.
LEMMA RootGivesUp ==
  ASSUME StrongTypeOK, BuildInv, OpenInv, RootInv, RootFails
  PROVE  RootInv'
<1>1. /\ pc = "root" /\ pc' = "failed" /\ QueueHead # 1 /\ Given /\ used = Len(auth)
      /\ auth' = auth /\ genuine' = genuine
  BY DEF RootFails, sigVars
<1>2. /\ Walk /\ UsedInv /\ RevealedAll /\ IsSeq(auth)
      /\ genuine <=> Len(auth) = Len(revealed) /\ AllRight /\ AuthRight
  BY <1>1 DEF RootInv, OpenInv
<1>3. used + 1 \in 1..Len(revealed)
  BY <1>1, <1>2, NextRevealed
<1>4. used \in Nat /\ Len(revealed) \in Nat
  <2>1. used \in Nat /\ revealed \in Seq(Nat)
    BY DEF StrongTypeOK, TypeOK
  <2> QED BY <2>1, LenProperties
<1>5. ~genuine
  BY <1>1, <1>2, <1>3, <1>4
<1> QED BY <1>1, <1>2, <1>5 DEF RootInv, RootBinding, IsSeq

\* What the signer sends are the nodes it revealed.
LEMMA RootIsSent ==
  ASSUME StrongTypeOK, BuildInv, OpenInv, OpenInv', RootInv, OpenDone
  PROVE  RootInv'
<1>1. /\ pc = "open" /\ pc' = "opened" /\ used' = used /\ genuine' = genuine
      /\ UNCHANGED <<nbLeaves, nbOpened, height, nodes, leaves, revealed>>
      /\ auth' = [k \in 1..Len(revealed) |-> NodeAt(revealed[k])]
  BY DEF OpenDone, shape, treeVars, loopVars
<1>2. used = 0 /\ genuine /\ RevealedAll' /\ pc # "malloc"
  BY <1>1 DEF RootInv, OpenInv
<1>3. Needed' = Needed
  BY <1>1, NeededFrame
<1>4. Len(revealed) \in Nat
  <2>1. revealed \in Seq(Nat)
    BY DEF StrongTypeOK, TypeOK
  <2> QED BY <2>1, LenProperties
<1>5. ASSUME NEW k \in 1..Len(revealed)
      PROVE  auth'[k] = nodes[revealed[k]]
  <2>1. revealed[k] \in Needed
    BY <1>1, <1>2, <1>3 DEF RevealedAll
  <2>2. revealed[k] \in 1..NbNodes
    BY <1>2, <2>1, NodeCount DEF Needed
  <2>3. DOMAIN nodes = 1..NbNodes
    BY <1>1 DEF BuildInv
  <2> QED BY <1>1, <2>2, <2>3 DEF NodeAt
<1>6. IsSeq(auth') /\ Len(auth') = Len(revealed)
  <2> DEFINE S == {NodeAt(revealed[k]) : k \in 1..Len(revealed)}
  <2>1. auth' \in [1..Len(revealed) -> S]
    BY <1>1
  <2> HIDE DEF S
  <2>2. auth' \in Seq(S)
    BY <1>4, <2>1, SeqDef
  <2>3. DOMAIN auth' = 1..Len(revealed)
    BY <1>1
  <2>4. Len(auth') = Len(revealed)
    BY <1>4, <2>2, <2>3, LenProperties
  <2> QED BY <2>2, <2>4, SeqOfItsElements DEF IsSeq
<1>7. AuthRight'
  <2>1. \A k \in (used' + 1)..Len(auth') : k \in 1..Len(revealed)
    BY <1>1, <1>2, <1>4, <1>6
  <2> QED BY <1>1, <1>5, <2>1 DEF AuthRight
<1> QED BY <1>1, <1>2, <1>6, <1>7 DEF RootInv, RootBinding

\* Nothing that RootInv speaks of changes.
LEMMA RootFrame ==
  ASSUME RootInv, UNCHANGED vars
  PROVE  RootInv'
<1>1. UNCHANGED <<pc, nbLeaves, nbOpened, height, nodes, leaves, first, last, slots, start, stop,
                  queue, revealed, auth, used, root, genuine>>
  BY DEF vars, shape, treeVars, loopVars, sigVars
<1>2. OnPath' = OnPath /\ \A d : LastOf(d)' = LastOf(d)
  BY <1>1, NeededFrame, TreeFrame
<1>3. /\ QueueHead' = QueueHead /\ Count' = Count /\ (\A k : Entry(k)' = Entry(k))
      /\ (\A k : Pos(k)' = Pos(k)) /\ HeadFirst' = HeadFirst /\ (IsLeft' <=> IsLeft)
  BY <1>1 DEF QueueHead, Count, Entry, Pos, HeadFirst, FloorOfHead, IsLeft
<1>4. LiveNodes' = LiveNodes /\ \A y : Handled(y)' <=> Handled(y)
  BY <1>2, <1>3 DEF LiveNodes, Handled
<1>5. Walk => Walk'
  <2>1. FloorInv => FloorInv'
    BY <1>1 DEF FloorInv, InLoop
  <2>2. QueueOrdered => QueueOrdered'
    BY <1>1, <1>3 DEF QueueOrdered, InLoop, OnFloors, Precedes
  <2>3. FloorIsReal => FloorIsReal'
    BY <1>1, <1>2 DEF FloorIsReal
  <2>4. Frontier => Frontier'
    BY <1>2, <1>3, <1>4 DEF Frontier
  <2> QED BY <2>1, <2>2, <2>3, <2>4 DEF Walk
<1>6. UsedInv => UsedInv'
  <2>1. \A k : Handled(SiblingOf(revealed[k]))' <=> Handled(SiblingOf(revealed[k]))
    <3> SUFFICES ASSUME NEW k
                 PROVE  Handled(SiblingOf(revealed[k]))' <=> Handled(SiblingOf(revealed[k]))
      OBVIOUS
    <3>1. \A y : SiblingOf(revealed[k]) = y => (Handled(SiblingOf(revealed[k]))' <=> Handled(y)')
      BY <1>1 DEF SiblingOf, Handled
    <3> QED BY <1>4, <3>1
  <2> QED BY <1>1, <2>1 DEF UsedInv
<1>7. (AllRight' <=> AllRight) /\ (AuthRight' <=> AuthRight)
  BY <1>1, <1>3 DEF AllRight, AuthRight, Right
<1>8. RootBinding => RootBinding'
  BY <1>1 DEF RootBinding
<1> QED BY <1>1, <1>5, <1>6, <1>7, <1>8 DEF RootInv, IsSeq

LEMMA InitRoot == Init => RootInv
<1> SUFFICES ASSUME Init PROVE RootInv
  OBVIOUS
<1>1. auth = <<>> /\ pc = "malloc" /\ used = 0 /\ genuine
  BY DEF Init
<1>2. <<>> \in Seq({})
  BY EmptySeq
<1>3. IsSeq(<<>>)
  BY <1>2, SeqOfItsElements DEF IsSeq
<1> QED BY <1>1, <1>3 DEF RootInv, RootBinding

LEMMA NextRoot ==
  ASSUME WidthIsEnough, StrongTypeOK, InputInv, BuildInv, OpenInv, OpenInv', RootInv, [Next]_vars
  PROVE  RootInv'
<1>0. StrongTypeOK'
  BY NextType
<1>1. CASE Build \/ OpenStart \/ OpenAlone \/ OpenPaired \/ OpenReveals
  <2>1. /\ pc \notin {"opened", "root", "done", "failed"}
        /\ pc' \notin {"opened", "root", "done", "failed"} /\ UNCHANGED sigVars
    BY <1>1 DEF Build, MallocMerkleTree, BuildLeaves, BuildFloor, BuildDone,
                OpenStart, OpenAlone, OpenPaired, OpenReveals
  <2> QED BY <2>1 DEF RootInv, RootBinding, IsSeq, sigVars
<1>2. CASE OpenDone
  BY <1>2, RootIsSent
<1>3. CASE RootStart
  BY <1>0, <1>3, RootStarts
<1>4. CASE RootAlone \/ RootPaired
  BY <1>0, <1>4, RootQuietly
<1>5. CASE RootGiven
  BY <1>0, <1>5, RootIsGiven
<1>6. CASE RootFails
  BY <1>6, RootGivesUp
<1>7. CASE RootDone
  BY <1>7, RootEnds
<1>8. CASE UNCHANGED vars
  BY <1>8, RootFrame
<1> QED BY <1>1, <1>2, <1>3, <1>4, <1>5, <1>6, <1>7, <1>8 DEF Next, Open, Root, Stopped

\* With parameters whose leaves leave one bit free in a uint16_t, what
\* get_merkle_root_from_auth returns is the root of the signer's tree exactly when the
\* opened leaves and the authentication nodes are the signer's; it consumes all the
\* nodes it received, and fails only when one is missing.
THEOREM BindsRoot ==
  ASSUME WidthIsEnough
  PROVE  Spec => []RootBinding
<1>1. Init => StrongTypeOK /\ InputInv /\ BuildInv /\ OpenInv /\ RootInv
  BY InitType, InitOrder, InitBuild, InitOpen, InitRoot DEF OrderInv
<1>2. StrongTypeOK /\ [Next]_vars => StrongTypeOK'
  BY NextType
<1>3. StrongTypeOK /\ InputInv /\ [Next]_vars => InputInv'
  BY NextInput
<1>4. StrongTypeOK /\ BuildInv /\ [Next]_vars => BuildInv'
  BY NextBuild
<1>5. StrongTypeOK /\ OpenInv /\ [Next]_vars => OpenInv'
  BY NextOpen
<1>6. /\ StrongTypeOK /\ InputInv /\ BuildInv /\ OpenInv /\ OpenInv' /\ RootInv /\ [Next]_vars
      => RootInv'
  BY NextRoot
<1>7. RootInv => RootBinding
  BY DEF RootInv
<1> QED BY <1>1, <1>2, <1>3, <1>4, <1>5, <1>6, <1>7, PTL DEF Spec
=============================================================================
