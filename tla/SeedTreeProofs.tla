---------------------------- MODULE SeedTreeProofs ----------------------------
(***************************************************************************)
(* Proofs about SeedTree, for every height and every number of leaves, of  *)
(* both layouts.                                                           *)
(***************************************************************************)
EXTENDS SeedTree, TLAPS, SequenceTheorems, WellFoundedInduction

-----------------------------------------------------------------------------
(* Arithmetic of the numbers of the nodes: node n is a child of node n div *)
(* 2, and its ancestors are its quotients by the powers of two.            *)

LEMMA Halves ==
  ASSUME NEW n \in Nat
  PROVE  /\ n \div 2 \in Nat /\ n % 2 \in {0, 1} /\ n = 2 * (n \div 2) + (n % 2)
         /\ n >= 1 => n \div 2 < n
         /\ n >= 2 => n \div 2 >= 1
OBVIOUS

\* The quotients of a number by powers of two.
LEMMA Quotients ==
  ASSUME NEW n \in Nat, NEW m \in Nat \ {0}
  PROVE  /\ n \div m \in Nat /\ (n \div m) \div 2 = n \div (2 * m)
         /\ \A q \in Nat : (q * m <= n <=> q <= n \div m)
<1> DEFINE a == n \div m
           r == n - m * a
<1>1. a \in Nat
  BY SMT
<1>2. r \in 0..(m - 1) /\ n = m * a + r
  <2>1. n % m \in 0..(m - 1) /\ n = m * (n \div m) + (n % m)
    BY Z3
  <2>2. m * a \in Nat
    BY <1>1
  <2> QED BY <2>1, <2>2
<1> HIDE DEF a, r
<1>3. ASSUME NEW q \in Nat PROVE q * m <= n <=> q <= a
  <2>1. CASE q <= a
    <3>1. PICK d \in Nat : a = q + d
      BY <1>1, <2>1, a - q \in Nat
    <3>2. m * a = q * m + m * d /\ m * d \in Nat /\ q * m \in Nat
      BY <3>1
    <3> QED BY <1>2, <2>1, <3>2
  <2>2. CASE ~(q <= a)
    <3>1. PICK d \in Nat : q = a + 1 + d
      BY <1>1, <2>2, q - a - 1 \in Nat
    <3>2. q * m = m * a + m + m * d /\ m * d \in Nat /\ m * a \in Nat
      BY <1>1, <3>1
    <3> QED BY <1>2, <2>2, <3>2
  <2> QED BY <2>1, <2>2
<1>4. a \div 2 = n \div (2 * m)
  <2>1. PICK h \in Nat, b \in {0, 1} : a = 2 * h + b
    BY <1>1, Halves
  <2>2. n = 2 * m * h + (m * b + r) /\ m * b + r \in 0..(2 * m - 1)
    <3>1. CASE b = 0
      <4>1. m * a = 2 * m * h /\ m * b = 0
        BY <2>1, <3>1
      <4> QED BY <1>2, <4>1
    <3>2. CASE b = 1
      <4>1. m * a = 2 * m * h + m /\ m * b = m
        BY <2>1, <3>2
      <4> QED BY <1>2, <4>1
    <3> QED BY <3>1, <3>2
  <2>3. ASSUME NEW x \in Nat, NEW y \in Nat, NEW p \in Nat \ {0}, y < p
        PROVE  (p * x + y) \div p = x
    BY <2>3, Z3
  <2>4. n \div (2 * m) = h
    <3>1. n = (2 * m) * h + (m * b + r) /\ 2 * m \in Nat \ {0}
      BY <2>2
    <3> QED BY <2>2, <2>3, <3>1
  <2>5. a \div 2 = h
    BY <2>1
  <2> QED BY <2>4, <2>5
<1> QED BY <1>1, <1>3, <1>4 DEF a

\* A nonempty set of natural numbers has a least element.
LEMMA Least == ASSUME NEW T, T \subseteq Nat, T # {} PROVE \E x \in T : \A y \in T : x <= y
<1> DEFINE R == {ss \in Nat \X Nat : ss[1] < ss[2]}
<1>1. IsWellFoundedOn(R, Nat)
  BY NatLessThanWellFounded DEF OpToRel
<1>2. PICK x \in T : \A y \in T : <<y, x>> \notin R
  BY <1>1, WFMin
<1>3. ASSUME NEW y \in T PROVE x <= y
  <2>1. <<y, x>> \notin R /\ x \in Nat /\ y \in Nat
    BY <1>2
  <2>2. ~(y < x)
    BY <2>1
  <2> QED BY <2>1, <2>2
<1> QED BY <1>3

LEMMA Powers ==
  ASSUME NEW d \in 0..UintBits
  PROVE  2^d \in Nat \ {0} /\ 2^(d + 1) = 2 * 2^d
BY PowersOfTwo

LEMMA PowersGrow ==
  ASSUME NEW d \in 0..UintBits, NEW e \in 0..d
  PROVE  2^e <= 2^d /\ (e < d => 2 * 2^e <= 2^d)
<1> UintBits \in Nat
  BY ShapesAssumption
<1>1. ASSUME NEW a \in 0..d PROVE 2^a <= 2^d
  <2>1. 2^a * 2^(d - a) = 2^d
    BY PowersOfTwo
  <2>2. 2^a \in Nat \ {0} /\ 2^(d - a) \in Nat \ {0}
    BY Powers
  <2>3. ASSUME NEW x \in Nat \ {0}, NEW y \in Nat \ {0} PROVE x <= x * y
    <3>1. PICK z \in Nat : y = 1 + z
      BY y - 1 \in Nat
    <3>2. x * y = x + x * z /\ x * z \in Nat
      BY <3>1
    <3> QED BY <3>2
  <2> QED BY <2>1, <2>2, <2>3
<1>2. CASE e < d
  <2>1. e + 1 \in 0..d /\ 2^(e + 1) = 2 * 2^e
    BY <1>2, Powers
  <2> QED BY <1>1, <2>1
<1> QED BY <1>1, <1>2

\* A node is numbered on two bytes.
LEMMA Narrow == ASSUME NEW n \in Nat, n < 2^UintBits PROVE U16(n) = n
<1>1. 2^UintBits \in Nat \ {0}
  BY ShapesAssumption, Powers
<1>2. ASSUME NEW m \in Nat \ {0}, n < m PROVE n % m = n
  BY <1>2, Z3
<1> QED BY <1>1, <1>2 DEF U16

-----------------------------------------------------------------------------
(* What malloc_seed_tree accepts. *)

ShapeInv ==
  /\ layout \in {"default", "perfect"} /\ <<height, nbLeaves>> \in Shapes
  /\ pc \in {"malloc", "refused", "expand", "path", "pos", "floor", "done"}
  /\ pc \notin {"malloc", "refused"} => Accepted

LEMMA Sizes ==
  ASSUME ShapeInv
  PROVE  /\ height \in 2..UintBits /\ UintBits \in Nat /\ nbLeaves \in Nat /\ nbLeaves >= 4
         /\ 2 * nbLeaves <= 2^UintBits
<1>1. /\ UintBits \in Nat \ {0} /\ height \in 2..UintBits
      /\ nbLeaves \in 4..2^(UintBits - 1)
  BY ShapesAssumption DEF ShapeInv
<1>2. 2^UintBits = 2 * 2^(UintBits - 1) /\ 2^(UintBits - 1) \in Nat
  BY <1>1, Powers, UintBits - 1 \in 0..UintBits, (UintBits - 1) + 1 = UintBits
<1> QED BY <1>1, <1>2

\* The leaves fill the last floor, or are on the last two floors, and they are stored
\* after the internal nodes.
LEMMA Floors ==
  ASSUME ShapeInv, Accepted
  PROVE  /\ height < UintBits /\ FirstLeaf = nbLeaves
         /\ 2^(height - 1) \in Nat /\ 2^height = 2 * 2^(height - 1)
         /\ 2^(height - 1) < nbLeaves /\ nbLeaves <= 2^height
         /\ layout = "perfect" => nbLeaves = 2^height
<1>1. /\ height \in 2..UintBits /\ UintBits \in Nat /\ nbLeaves \in Nat /\ nbLeaves >= 4
      /\ 2 * nbLeaves <= 2^UintBits /\ layout \in {"default", "perfect"}
  BY Sizes DEF ShapeInv
<1>2. 2^(height - 1) \in Nat \ {0} /\ 2^height = 2 * 2^(height - 1)
  BY <1>1, Powers, height - 1 \in 0..UintBits, (height - 1) + 1 = height
<1>3. 2^(height - 1) < nbLeaves /\ nbLeaves <= 2^height
  <2>1. ASSUME NEW a \in Nat, NEW m \in Nat \ {0}
        PROVE  (a \div m # 0 => m <= a) /\ (a \div m = 0 => a < m)
    BY <2>1, Z3
  <2>2. CASE layout = "perfect"
    BY <1>1, <1>2, <2>2 DEF Accepted
  <2>3. CASE layout = "default"
    <3>1. 2^(height - 1) <= nbLeaves - 1 /\ nbLeaves - 1 < 2^height
      BY <1>1, <1>2, <2>1, <2>3, nbLeaves - 1 \in Nat DEF Accepted
    <3> QED BY <1>1, <1>2, <3>1
  <2> QED BY <1>1, <2>2, <2>3
<1>4. layout = "perfect" => nbLeaves = 2^height
  BY DEF Accepted
<1>5. height < UintBits
  <2> SUFFICES ASSUME height = UintBits PROVE FALSE
    BY <1>1
  <2> QED BY <1>1, <1>2, <1>3
<1> QED BY <1>1, <1>2, <1>3, <1>4, <1>5 DEF FirstLeaf

\* A power of two from the fourth on is a multiple of four.
LEMMA FourDivides ==
  ASSUME NEW d \in 2..UintBits
  PROVE  2^d % 4 = 0 /\ 2^d >= 4
<1>1. UintBits \in Nat /\ d - 2 \in 0..UintBits /\ d - 1 \in 0..UintBits
  BY ShapesAssumption
<1>2. 2^d = 2 * 2^(d - 1) /\ 2^(d - 1) = 2 * 2^(d - 2) /\ 2^(d - 2) \in Nat \ {0}
  BY <1>1, Powers, (d - 1) + 1 = d, (d - 2) + 1 = d - 1
<1>3. ASSUME NEW m \in Nat, NEW p \in Nat \ {0}, m = 4 * p PROVE m % 4 = 0 /\ m >= 4
  BY <1>3, Z3
<1> QED BY <1>2, <1>3

\* The nodes hashed together are those from next to the next value of the counter, and
\* none is beyond the end of the loop.
LEMMA GroupFits ==
  ASSUME NEW n \in Nat, NEW end \in Nat, n < end,
         layout = "perfect" => n % 4 = 0 /\ end % 4 = 0
  PROVE  /\ \/ Four(n, end) = {n}
            \/ Four(n, end) = n..(n + 3) /\ n + 3 < end
         /\ layout = "perfect" => Four(n, end) = n..(n + 3)
<1>1. ASSUME n % 4 = 0, end % 4 = 0 PROVE n + 3 < end
  BY <1>1, Z3
<1>2. layout = "perfect" => n + 3 < end
  BY <1>1
<1> QED BY <1>2 DEF Four

\* The expansion of internal nodes writes their children, all nodes of the tree.
LEMMA ExpandedNodes ==
  ASSUME nbLeaves \in Nat, NEW p \in SUBSET (1..(nbLeaves - 1)),
         NEW tree, DOMAIN tree = 1..NbNodes
  PROVE  /\ DOMAIN Expanded(tree, p) = 1..NbNodes
         /\ \A i \in 1..NbNodes :
              /\ i \div 2 \in p => Expanded(tree, p)[i] = Child(tree[i \div 2], i \div 2, i % 2)
              /\ i \div 2 \notin p => Expanded(tree, p)[i] = tree[i]
<1>1. \A j \in p : 2 * j \in 1..NbNodes /\ 2 * j + 1 \in 1..NbNodes
  BY DEF NbNodes
<1>2. DOMAIN tree \cup {2 * j : j \in p} \cup {2 * j + 1 : j \in p} = 1..NbNodes
  BY <1>1
<1> QED BY <1>2 DEF Expanded

-----------------------------------------------------------------------------
(* The signer's seeds. *)

\* A seed is derived from the root seed, and ends with the node it is the seed of.
IsSeedOf(s, i) == s \in Seq(Nat) /\ Len(s) >= 1 /\ s[1] = 1 /\ s[Len(s)] = i

\* The first n nodes are derived from their parents.
Derived(n) ==
  /\ DOMAIN nodes = 1..NbNodes /\ nodes[1] = RootSeed
  /\ \A i \in 1..n : IsSeedOf(nodes[i], i)
  /\ \A i \in 2..n : nodes[i] = Child(nodes[i \div 2], i \div 2, i % 2)

NodesInv ==
  /\ pc = "expand" =>
       /\ next \in 1..nbLeaves /\ (layout = "perfect" /\ next > 3 => next % 4 = 0)
       /\ Derived(2 * next - 1)
  /\ pc \in {"path", "pos", "floor", "done"} => Derived(NbNodes)

LEMMA ChildIsSeed ==
  ASSUME ShapeInv, NEW i \in 2..NbNodes, NEW s, IsSeedOf(s, i \div 2)
  PROVE  IsSeedOf(Child(s, i \div 2, i % 2), i)
<1>1. /\ i \in Nat /\ i \div 2 \in Nat /\ i % 2 \in {0, 1} /\ i = 2 * (i \div 2) + (i % 2)
      /\ nbLeaves \in Nat /\ 2 * nbLeaves <= 2^UintBits /\ 2^UintBits \in Nat
  BY Halves, Sizes, Powers DEF NbNodes
<1>2. U16(i \div 2) = i \div 2
  BY <1>1, Narrow DEF NbNodes
<1>3. Child(s, i \div 2, i % 2) = Append(s, i)
  BY <1>1, <1>2 DEF Child
<1>4. s \in Seq(Nat) /\ Len(s) \in Nat /\ Len(s) >= 1 /\ s[1] = 1
  BY DEF IsSeedOf
<1>5. /\ Append(s, i) \in Seq(Nat) /\ Len(Append(s, i)) = Len(s) + 1
      /\ Append(s, i)[1] = s[1] /\ Append(s, i)[Len(s) + 1] = i
  BY <1>1, <1>4
<1> QED BY <1>3, <1>4, <1>5, SMTT(30) DEF IsSeedOf

LEMMA MallocKeeps ==
  ASSUME ShapeInv, MallocSeedTree
  PROVE  ShapeInv' /\ NodesInv'
<1>1. nbLeaves \in Nat /\ nbLeaves >= 4 /\ shape' = shape /\ next' = 1 /\ pc' = "expand"
  BY Sizes DEF MallocSeedTree
<1>2. nodes' = [i \in 1..NbNodes |-> IF i = 1 THEN RootSeed ELSE Junk]
  BY DEF MallocSeedTree
<1>3. IsSeedOf(RootSeed, 1)
  BY DEF IsSeedOf, RootSeed
<1>4. nodes'[1] = RootSeed /\ DOMAIN nodes' = 1..NbNodes
  BY <1>1, <1>2 DEF NbNodes
<1>5. ShapeInv'
  BY <1>1 DEF ShapeInv, MallocSeedTree, Accepted, shape
<1> QED BY <1>1, <1>3, <1>4, <1>5 DEF NodesInv, Derived, NbNodes, shape

LEMMA ExpandKeeps ==
  ASSUME ShapeInv, NodesInv, ExpandNodes
  PROVE  ShapeInv' /\ NodesInv'
<1>0. /\ pc = "expand" /\ pc' = "expand" /\ next < FirstLeaf
      /\ layout' = layout /\ height' = height /\ nbLeaves' = nbLeaves /\ NbNodes' = NbNodes
  BY DEF ExpandNodes, shape, NbNodes
<1>1. /\ nbLeaves \in Nat /\ nbLeaves >= 4 /\ next \in Nat \ {0} /\ next < nbLeaves
      /\ FirstLeaf = nbLeaves
      /\ layout = "perfect" /\ next > 3 => next % 4 = 0
      /\ layout = "perfect" => nbLeaves % 4 = 0
      /\ Derived(2 * next - 1)
  BY <1>0, Sizes, Floors, FourDivides DEF ShapeInv, NodesInv
<1>2. PICK m \in Nat : /\ Group(next) = next..m /\ next <= m /\ m < nbLeaves /\ next' = m + 1
                      /\ (next <= 3 => m = next)
                      /\ (layout = "perfect" /\ m + 1 > 3 => (m + 1) % 4 = 0)
  <2>1. CASE next <= 3
    <3>1. Group(next) = next..next /\ Group(next) = {next}
      BY <1>1, <2>1 DEF Group
    <3>2. next' = next + 1
      BY <3>1 DEF ExpandNodes, Advance
    <3>3. next + 1 > 3 => (next + 1) % 4 = 0
      BY <1>1, <2>1
    <3> QED BY <1>1, <3>1, <3>2, <3>3
  <2>2. CASE next > 3
    <3>1. Group(next) = Four(next, nbLeaves)
      BY <1>1, <2>2 DEF Group
    <3>2. /\ \/ Group(next) = {next}
             \/ Group(next) = next..(next + 3) /\ next + 3 < nbLeaves
          /\ layout = "perfect" => Group(next) = next..(next + 3)
      BY <1>1, <2>2, <3>1, GroupFits
    <3>3. CASE Group(next) = {next}
      <4>1. layout # "perfect"
        <5>1. next + 1 \in next..(next + 3) /\ next + 1 \notin {next}
          BY <1>1
        <5> QED BY <3>2, <3>3, <5>1
      <4>2. next' = next + 1
        BY <3>3 DEF ExpandNodes, Advance
      <4>3. Group(next) = next..next
        BY <1>1, <3>3
      <4> QED BY <1>1, <2>2, <4>1, <4>2, <4>3
    <3>4. CASE Group(next) # {next}
      <4>1. next' = next + 4
        BY <3>4 DEF ExpandNodes, Advance
      <4>2. Group(next) = next..(next + 3) /\ next + 3 < nbLeaves
        BY <3>2, <3>4
      <4>3. layout = "perfect" => (next + 3 + 1) % 4 = 0
        <5>1. ASSUME next % 4 = 0 PROVE (next + 3 + 1) % 4 = 0
          BY <1>1, <5>1, Z3
        <5> QED BY <1>1, <2>2, <5>1
      <4> QED BY <1>1, <2>2, <4>1, <4>2, <4>3, next' = (next + 3) + 1
    <3> QED BY <3>3, <3>4
  <2> QED BY <1>1, <2>1, <2>2
<1>3. /\ DOMAIN nodes' = 1..NbNodes
      /\ \A i \in 1..NbNodes :
           /\ i \div 2 \in next..m => nodes'[i] = Child(nodes[i \div 2], i \div 2, i % 2)
           /\ i \div 2 \notin next..m => nodes'[i] = nodes[i]
  <2>1. /\ nbLeaves \in Nat /\ Group(next) \in SUBSET (1..(nbLeaves - 1))
        /\ DOMAIN nodes = 1..NbNodes
    BY <1>1, <1>2 DEF Derived
  <2>2. nodes' = Expanded(nodes, Group(next)) /\ nbLeaves \in Nat /\ Group(next) = next..m
    BY <1>1, <1>2 DEF ExpandNodes
  <2>3. /\ DOMAIN Expanded(nodes, Group(next)) = 1..NbNodes
        /\ \A i \in 1..NbNodes :
             /\ i \div 2 \in Group(next) =>
                  Expanded(nodes, Group(next))[i] = Child(nodes[i \div 2], i \div 2, i % 2)
             /\ i \div 2 \notin Group(next) => Expanded(nodes, Group(next))[i] = nodes[i]
    BY <2>1, ExpandedNodes
  <2> QED BY <2>2, <2>3
<1>4. ASSUME NEW i \in 1..(2 * next - 1) PROVE nodes'[i] = nodes[i]
  BY <1>1, <1>2, <1>3, Halves, i \in 1..NbNodes DEF NbNodes
<1>5. ASSUME NEW i \in (2 * next)..(2 * (m + 1) - 1)
      PROVE  /\ i \in 2..NbNodes /\ i \div 2 \in 1..(2 * next - 1)
             /\ nodes'[i] = Child(nodes[i \div 2], i \div 2, i % 2)
             /\ nodes'[i \div 2] = nodes[i \div 2]
  <2>1. i \in 2..NbNodes /\ i \div 2 \in next..m
    BY <1>1, <1>2, Halves DEF NbNodes
  <2>2. i \div 2 \in 1..(2 * next - 1)
    <3>1. m <= next + 3
      BY <1>1, <1>2 DEF ExpandNodes, Advance
    <3> QED BY <1>1, <1>2, <2>1, <3>1
  <2> QED BY <1>3, <1>4, <2>1, <2>2
<1>6. Derived(2 * next - 1)'
  <2> DEFINE n == 2 * (m + 1) - 1
  <2>1. n = 2 * next' - 1
    BY <1>2
  <2>2. ASSUME NEW i \in 1..n PROVE IsSeedOf(nodes'[i], i)
    <3>1. CASE i \in 1..(2 * next - 1)
      BY <1>1, <1>4, <3>1 DEF Derived
    <3>2. CASE i \in (2 * next)..n
      <4>1. IsSeedOf(nodes[i \div 2], i \div 2)
        BY <1>1, <1>5, <3>2 DEF Derived
      <4> QED BY <1>5, <3>2, <4>1, ChildIsSeed
    <3> QED BY <1>1, <3>1, <3>2
  <2>3. ASSUME NEW i \in 2..n PROVE nodes'[i] = Child(nodes'[i \div 2], i \div 2, i % 2)
    <3>1. CASE i \in 2..(2 * next - 1)
      <4>1. i \div 2 \in 1..(2 * next - 1)
        BY <1>1, <3>1, Halves
      <4>2. nodes[i] = Child(nodes[i \div 2], i \div 2, i % 2)
        BY <1>1, <3>1 DEF Derived
      <4>3. nodes'[i] = nodes[i] /\ nodes'[i \div 2] = nodes[i \div 2]
        BY <1>1, <1>4, <3>1, <4>1
      <4> QED BY <4>2, <4>3
    <3>2. CASE i \in (2 * next)..n
      BY <1>5, <3>2
    <3> QED BY <1>1, <3>1, <3>2
  <2>4. nodes'[1] = RootSeed
    BY <1>1, <1>4 DEF Derived
  <2> QED BY <1>0, <1>3, <2>1, <2>2, <2>3, <2>4 DEF Derived, Child, RootSeed
<1>7. ShapeInv'
  BY <1>0 DEF ShapeInv, Accepted
<1> QED BY <1>0, <1>1, <1>2, <1>6, <1>7 DEF NodesInv

-----------------------------------------------------------------------------
(* The path. *)

\* The nodes from the hidden leaf to the root.
Anc(k) == HiddenNode \div 2^k

IsHidden == hidden \in Leaves

\* What the hidden path is: it ends at the root after PathSize steps.
LEMMA HiddenPath ==
  ASSUME ShapeInv, Accepted, IsHidden
  PROVE  /\ HiddenNode \in nbLeaves..NbNodes
         /\ SmallPath \in {0, 1} /\ PathSize = height - SmallPath
         /\ PathSize \in 1..height /\ PathSize + 1 \in 0..UintBits
         /\ 2^PathSize <= HiddenNode /\ HiddenNode < 2 * 2^PathSize
         /\ SmallPath = 1 => layout = "default" /\ HiddenNode < 2^height
<1>1. /\ height \in 2..UintBits /\ UintBits \in Nat /\ nbLeaves \in Nat /\ nbLeaves >= 4
      /\ height < UintBits /\ FirstLeaf = nbLeaves
      /\ 2^(height - 1) \in Nat /\ 2^height = 2 * 2^(height - 1)
      /\ 2^(height - 1) < nbLeaves /\ nbLeaves <= 2^height
      /\ layout = "perfect" => nbLeaves = 2^height
      /\ layout \in {"default", "perfect"}
  BY Sizes, Floors DEF ShapeInv
<1>2. HiddenNode \in nbLeaves..NbNodes
  BY <1>1 DEF HiddenNode, IsHidden, Leaves, NbNodes
<1>3. CASE layout = "perfect" \/ HiddenNode >= 2^height
  <2>1. PathSize = height /\ SmallPath = 0
    BY <1>1, <1>2, <1>3 DEF PathSize, SmallPath
  <2> QED BY <1>1, <1>2, <1>3, <2>1 DEF NbNodes
<1>4. CASE ~(layout = "perfect" \/ HiddenNode >= 2^height)
  <2>1. PathSize = height - 1 /\ SmallPath = 1
    BY <1>1, <1>2, <1>4 DEF PathSize, SmallPath
  <2> QED BY <1>1, <1>2, <1>4, <2>1 DEF NbNodes
<1> QED BY <1>3, <1>4

LEMMA Ancestors ==
  ASSUME ShapeInv, Accepted, IsHidden
  PROVE  /\ Anc(0) = HiddenNode
         /\ \A k \in 0..PathSize : /\ Anc(k) \in 1..NbNodes
                                  /\ 2^(PathSize - k) <= Anc(k) /\ Anc(k) < 2 * 2^(PathSize - k)
         /\ \A k \in 0..(PathSize - 1) : Anc(k + 1) = Anc(k) \div 2
<1>1. /\ HiddenNode \in nbLeaves..NbNodes /\ nbLeaves \in Nat /\ nbLeaves >= 4
      /\ UintBits \in Nat /\ height \in Nat
      /\ PathSize \in 1..height /\ PathSize + 1 \in 0..UintBits
      /\ 2^PathSize <= HiddenNode /\ HiddenNode < 2 * 2^PathSize
  BY Sizes, HiddenPath
<1>2. HiddenNode \in Nat
  BY <1>1
<1>3. ASSUME NEW k \in 0..PathSize
      PROVE  /\ k \in 0..UintBits /\ 2^k \in Nat \ {0} /\ Anc(k) \in 1..NbNodes
             /\ 2^(PathSize - k) <= Anc(k) /\ Anc(k) < 2 * 2^(PathSize - k)
  <2> DEFINE q == 2^(PathSize - k)
  <2>1. k \in 0..UintBits /\ PathSize \in 0..UintBits /\ PathSize - k \in 0..UintBits
    BY <1>1
  <2>2. /\ 2^k \in Nat \ {0} /\ q \in Nat \ {0} /\ 2^PathSize \in Nat \ {0}
        /\ 2^k * q = 2^PathSize
    BY <1>1, <2>1, Powers, PowersOfTwo
  <2> HIDE DEF q
  <2>3. q * 2^k = 2^PathSize /\ (2 * q) * 2^k = 2 * 2^PathSize
    BY <2>2
  <2>4. Anc(k) \in Nat
    BY <1>2, <2>2, Quotients DEF Anc
  <2>5. q <= Anc(k)
    BY <1>1, <1>2, <2>2, <2>3, Quotients DEF Anc
  <2>6. Anc(k) < 2 * q
    <3>1. 2 * q \in Nat /\ ~((2 * q) * 2^k <= HiddenNode)
      BY <1>1, <1>2, <2>2, <2>3
    <3>2. ~(2 * q <= Anc(k))
      BY <1>2, <2>2, <3>1, Quotients DEF Anc
    <3> QED BY <2>2, <2>4, <3>2
  <2>7. Anc(k) <= HiddenNode
    <3>1. Anc(k) * 2^k <= HiddenNode
      <4>1. PICK a \in Nat : a = Anc(k)
        BY <2>4
      <4>2. a * 2^k <= HiddenNode <=> a <= Anc(k)
        BY <1>2, <2>2, Quotients DEF Anc
      <4> QED BY <4>1, <4>2
    <3>2. ASSUME NEW a \in Nat, NEW p \in Nat \ {0} PROVE a <= a * p
      <4>1. PICK b \in Nat : p = 1 + b
        BY p - 1 \in Nat
      <4>2. a * p = a + a * b /\ a * b \in Nat
        BY <4>1
      <4> QED BY <4>2
    <3>3. Anc(k) * 2^k \in Nat /\ Anc(k) <= Anc(k) * 2^k
      BY <2>2, <2>4, <3>2
    <3> QED BY <1>2, <2>4, <3>1, <3>3
  <2>8. Anc(k) \in 1..NbNodes
    BY <1>1, <2>2, <2>4, <2>5, <2>7 DEF NbNodes
  <2> QED BY <2>1, <2>2, <2>5, <2>6, <2>8 DEF q
<1>4. ASSUME NEW k \in 0..(PathSize - 1) PROVE Anc(k + 1) = Anc(k) \div 2
  <2>1. 2^k \in Nat \ {0} /\ 2^(k + 1) = 2 * 2^k
    BY <1>1, <1>3, Powers
  <2> QED BY <1>2, <2>1, Quotients DEF Anc
<1>5. Anc(0) = HiddenNode
  <2>1. ASSUME NEW n \in Nat PROVE n \div 1 = n
    OBVIOUS
  <2> QED BY <1>2, <2>1, PowersOfTwo DEF Anc
<1> QED BY <1>3, <1>4, <1>5

\* The path never meets the same node twice, and only its end is the root.
LEMMA PathDescends ==
  ASSUME ShapeInv, Accepted, IsHidden
  PROVE  /\ PathSize \in Nat /\ Anc(PathSize) = 1
         /\ \A k \in 0..(PathSize - 1) : Anc(k) \in 2..NbNodes
         /\ \A k, l \in 0..PathSize : Anc(k) = Anc(l) => k = l
<1>1. /\ UintBits \in Nat /\ height \in Nat /\ PathSize \in 1..height
      /\ PathSize + 1 \in 0..UintBits /\ nbLeaves \in Nat
  BY Sizes, HiddenPath
<1>2. \A k \in 0..PathSize :
        /\ Anc(k) \in 1..NbNodes
        /\ 2^(PathSize - k) <= Anc(k) /\ Anc(k) < 2 * 2^(PathSize - k)
  BY Ancestors
<1>3. ASSUME NEW k \in 0..PathSize, NEW l \in 0..PathSize, k < l PROVE Anc(l) < Anc(k)
  <2>1. PathSize - k \in 0..UintBits /\ PathSize - l \in 0..(PathSize - k)
        /\ PathSize - l < PathSize - k
    BY <1>1, <1>3
  <2>2. /\ 2 * 2^(PathSize - l) <= 2^(PathSize - k)
        /\ 2^(PathSize - l) \in Nat /\ 2^(PathSize - k) \in Nat
    BY <1>1, <2>1, Powers, PowersGrow
  <2> QED BY <1>1, <1>2, <2>2 DEF NbNodes
<1>4. Anc(PathSize) = 1
  <2>1. 2^(PathSize - PathSize) = 1
    BY <1>1, PowersOfTwo
  <2>2. PathSize \in 0..PathSize
    BY <1>1
  <2>3. /\ Anc(PathSize) \in 1..NbNodes /\ 2^(PathSize - PathSize) <= Anc(PathSize)
        /\ Anc(PathSize) < 2 * 2^(PathSize - PathSize)
    BY <1>2, <2>2
  <2> QED BY <1>1, <2>1, <2>3 DEF NbNodes
<1>5. ASSUME NEW k \in 0..(PathSize - 1) PROVE Anc(k) \in 2..NbNodes
  <2>1. k \in 0..PathSize /\ PathSize \in 0..PathSize /\ k < PathSize
    BY <1>1
  <2>2. Anc(PathSize) < Anc(k)
    BY <1>3, <2>1
  <2> QED BY <1>1, <1>2, <1>4, <2>1, <2>2 DEF NbNodes
<1>6. ASSUME NEW k \in 0..PathSize, NEW l \in 0..PathSize, Anc(k) = Anc(l) PROVE k = l
  <2>1. ~(k < l) /\ ~(l < k)
    BY <1>1, <1>2, <1>3, <1>6 DEF NbNodes
  <2> QED BY <1>1, <2>1
<1> QED BY <1>1, <1>4, <1>5, <1>6

\* What the path reveals for a node is its sibling.
LEMMA Siblings ==
  ASSUME ShapeInv, NEW n \in 2..NbNodes
  PROVE  /\ Revealed(n) \in 2..NbNodes /\ Revealed(n) # n
         /\ Revealed(n) \div 2 = n \div 2
         /\ \A i \in Nat : i \div 2 = n \div 2 => i = n \/ i = Revealed(n)
<1>1. /\ nbLeaves \in Nat /\ 2 * nbLeaves <= 2^UintBits /\ 2^UintBits \in Nat
  BY Sizes, Powers
<1>2. n \in Nat /\ n < 2^UintBits
  BY <1>1 DEF NbNodes
<1>3. U16(n) = n
  BY <1>2, Narrow
<1>4. Revealed(n) = IF n % 2 = 0 THEN n + 1 ELSE n - 1
  BY <1>2, <1>3, Halves DEF Revealed, IsRight
<1>5. PICK h \in Nat, b \in {0, 1} : n = 2 * h + b /\ n \div 2 = h /\ n % 2 = b
  BY <1>2, Halves
<1>6. Revealed(n) = 2 * h + (1 - b)
  BY <1>4, <1>5
<1>7. Revealed(n) \in 2..NbNodes /\ Revealed(n) # n
  BY <1>1, <1>5, <1>6 DEF NbNodes
<1>8. Revealed(n) \div 2 = h
  BY <1>5, <1>6
<1>9. ASSUME NEW i \in Nat, i \div 2 = h PROVE i = n \/ i = Revealed(n)
  <2>1. PICK c \in {0, 1} : i = 2 * h + c
    BY <1>9, Halves
  <2> QED BY <1>5, <1>6, <2>1
<1> QED BY <1>5, <1>7, <1>8, <1>9

PathInv ==
  /\ pc \in {"malloc", "expand"} => path = <<>>
  /\ pc \in {"path", "pos", "floor", "done"} =>
       /\ IsHidden /\ path \in Seq(Seq(Nat)) /\ Len(path) \in 0..PathSize
       /\ \A k \in 1..Len(path) : path[k] = nodes[Revealed(Anc(k - 1))]
       /\ IF pc = "path" THEN node = Anc(Len(path)) ELSE Len(path) = PathSize

\* pos[d] is the sibling of the hidden path at depth d + 1.
PosInv ==
  pc \in {"pos", "floor", "done"} =>
    /\ pos \in [0..(height - 1) -> 0..NbNodes]
    /\ \A d \in 0..(PathSize - 1) :
         (pc = "pos" => height - 1 - d < next) => pos[d] = Revealed(Anc(PathSize - 1 - d))
    /\ pc = "pos" => /\ next \in SmallPath..height /\ node = Anc(next - SmallPath)
                     /\ rebuilt = [i \in 1..NbNodes |-> Junk]

\* What the nodes of the path depend on.
LEMMA Frame ==
  ASSUME layout' = layout, height' = height, nbLeaves' = nbLeaves, hidden' = hidden
  PROVE  /\ NbNodes' = NbNodes /\ PathSize' = PathSize /\ SmallPath' = SmallPath
         /\ FirstLeaf' = FirstLeaf /\ HiddenNode' = HiddenNode
         /\ (Accepted => Accepted') /\ (IsHidden => IsHidden')
         /\ \A k \in Int : Anc(k)' = Anc(k)
BY DEF NbNodes, PathSize, SmallPath, FirstLeaf, HiddenNode, Accepted, IsHidden, Leaves, Anc

LEMMA ChallengeKeeps ==
  ASSUME ShapeInv, NodesInv, PathInv, Challenge
  PROVE  ShapeInv' /\ NodesInv' /\ PathInv'
<1>1. /\ pc = "expand" /\ pc' = "path" /\ next >= FirstLeaf /\ nodes' = nodes
      /\ layout' = layout /\ height' = height /\ nbLeaves' = nbLeaves /\ path' = path
      /\ hidden' \in Leaves /\ node' = hidden' + FirstLeaf
  BY DEF Challenge, shape, Leaves
<1>2. nbLeaves \in Nat /\ FirstLeaf = nbLeaves /\ Accepted /\ height \in 2..UintBits
  BY <1>1, Sizes, Floors DEF ShapeInv
<1>3. next = nbLeaves /\ Derived(2 * nbLeaves - 1)
  BY <1>1, <1>2 DEF NodesInv
<1>4. ShapeInv'
  BY <1>1, <1>2 DEF ShapeInv, Accepted
<1>5. NodesInv'
  BY <1>1, <1>3 DEF NodesInv, Derived, NbNodes
<1>6. IsHidden' /\ FirstLeaf' = FirstLeaf /\ HiddenNode' = hidden' + FirstLeaf
  BY <1>1 DEF IsHidden, Leaves, FirstLeaf, HiddenNode
<1>7. Anc(0)' = HiddenNode'
  <2>1. PICK h \in Nat : hidden' = h /\ h + nbLeaves \in Nat
    BY <1>1, <1>2 DEF Leaves
  <2>2. HiddenNode' = h + nbLeaves
    BY <1>2, <1>6, <2>1
  <2>3. ASSUME NEW n \in Nat PROVE n \div 1 = n
    OBVIOUS
  <2> QED BY <2>1, <2>2, <2>3, PowersOfTwo DEF Anc
<1>8. PathSize' \in Nat
  BY <1>1, <1>2, ShapesAssumption DEF PathSize
<1>9. path' = <<>> /\ Len(path') = 0 /\ path' \in Seq(Seq(Nat))
  BY <1>1 DEF PathInv
<1> QED BY <1>1, <1>4, <1>5, <1>6, <1>7, <1>8, <1>9 DEF PathInv

\* The walk stops at the root.
LEMMA Top ==
  ASSUME ShapeInv, PathInv, pc = "path"
  PROVE  AtTop <=> Len(path) = PathSize
<1>1. /\ Accepted /\ IsHidden /\ Len(path) \in 0..PathSize /\ node = Anc(Len(path))
      /\ layout \in {"default", "perfect"}
  BY DEF ShapeInv, PathInv
<1>2. /\ PathSize \in Nat /\ Anc(PathSize) = 1 /\ nbLeaves \in Nat
      /\ \A k \in 0..(PathSize - 1) : Anc(k) \in 2..NbNodes
  BY <1>1, PathDescends, Sizes
<1>3. layout = "perfect" => PathSize = height
  BY DEF PathSize
<1>4. node <= 1 <=> Len(path) = PathSize
  <2>1. CASE Len(path) = PathSize
    BY <1>1, <1>2, <2>1
  <2>2. CASE Len(path) # PathSize
    <3>1. Anc(Len(path)) \in 2..NbNodes
      BY <1>1, <1>2, <2>2
    <3> QED BY <1>1, <1>2, <2>2, <3>1 DEF NbNodes
  <2> QED BY <2>1, <2>2
<1>5. CASE layout = "perfect"
  BY <1>3, <1>5 DEF AtTop
<1>6. CASE layout # "perfect"
  BY <1>4, <1>6 DEF AtTop
<1> QED BY <1>5, <1>6

LEMMA PathKeeps ==
  ASSUME ShapeInv, NodesInv, PathInv, PathStep
  PROVE  ShapeInv' /\ NodesInv' /\ PathInv'
<1>1. /\ pc = "path" /\ pc' = "path" /\ ~AtTop /\ nodes' = nodes
      /\ layout' = layout /\ height' = height /\ nbLeaves' = nbLeaves /\ hidden' = hidden
      /\ path' = Append(path, nodes[Revealed(node)]) /\ node' = Parent(node)
  BY DEF PathStep, shape
<1>2. /\ Accepted /\ IsHidden /\ path \in Seq(Seq(Nat)) /\ Derived(NbNodes)
      /\ Len(path) \in 0..PathSize /\ node = Anc(Len(path))
      /\ \A k \in 1..Len(path) : path[k] = nodes[Revealed(Anc(k - 1))]
  BY <1>1 DEF ShapeInv, PathInv, NodesInv
<1> DEFINE n == Len(path)
<1>3. /\ PathSize \in Nat /\ n \in 0..(PathSize - 1) /\ node \in 2..NbNodes
      /\ Anc(n + 1) = Anc(n) \div 2
  <2>1. PathSize \in Nat /\ \A k \in 0..(PathSize - 1) : Anc(k) \in 2..NbNodes
    BY <1>2, PathDescends
  <2>2. n \in 0..(PathSize - 1)
    BY <1>1, <1>2, <2>1, Top
  <2> QED BY <1>2, <2>1, <2>2, Ancestors
<1>4. Revealed(node) \in 1..NbNodes /\ nodes[Revealed(node)] \in Seq(Nat)
  <2>1. Revealed(node) \in 2..NbNodes /\ nbLeaves \in Nat
    BY <1>3, Siblings, Sizes
  <2>2. Revealed(node) \in 1..NbNodes
    BY <2>1 DEF NbNodes
  <2> QED BY <1>2, <2>2 DEF Derived, IsSeedOf
<1>5. /\ path' \in Seq(Seq(Nat)) /\ Len(path') = n + 1 /\ path'[n + 1] = nodes[Revealed(node)]
      /\ \A k \in 1..n : path'[k] = path[k]
  BY <1>1, <1>2, <1>4
<1>6. /\ NbNodes' = NbNodes /\ PathSize' = PathSize /\ Accepted' /\ IsHidden'
      /\ \A k \in Int : Anc(k)' = Anc(k)
  BY <1>1, <1>2, Frame
<1>7. ASSUME NEW k \in 1..(n + 1) PROVE path'[k] = nodes[Revealed(Anc(k - 1))]
  <2>1. CASE k \in 1..n
    BY <1>2, <1>5, <2>1
  <2>2. CASE k = n + 1
    <3>1. k - 1 = n
      BY <1>3, <2>2
    <3> QED BY <1>2, <1>5, <2>2, <3>1
  <2> QED BY <1>3, <2>1, <2>2
<1>8. node' = Anc(n + 1)
  BY <1>1, <1>2, <1>3 DEF Parent
<1> HIDE DEF n
<1>9. ASSUME NEW k \in 1..(n + 1) PROVE path'[k] = nodes'[Revealed(Anc(k - 1)')]
  <2>1. Anc(k - 1)' = Anc(k - 1)
    BY <1>3, <1>6, k - 1 \in Int
  <2> QED BY <1>1, <1>7, <2>1
<1>10. PathInv'
  BY <1>1, <1>3, <1>5, <1>6, <1>8, <1>9 DEF PathInv, Revealed, IsRight, U16
<1>11. ShapeInv' /\ NodesInv'
  BY <1>1, <1>2, <1>6 DEF ShapeInv, NodesInv, Derived
<1> QED BY <1>10, <1>11

\* reconstruct_tree leaves the signer's variables alone.
LEMMA VerifierKeeps ==
  ASSUME ShapeInv, NodesInv, PathInv,
         pc \in {"path", "pos", "floor"}, pc' \in {"pos", "floor", "done"}, pc = "path" => AtTop,
         UNCHANGED <<shape, signerVars>>
  PROVE  ShapeInv' /\ NodesInv' /\ PathInv'
<1>1. /\ layout' = layout /\ height' = height /\ nbLeaves' = nbLeaves
      /\ nodes' = nodes /\ hidden' = hidden /\ path' = path
  BY DEF shape, signerVars
<1>2. /\ Accepted /\ IsHidden /\ path \in Seq(Seq(Nat)) /\ Derived(NbNodes)
      /\ Len(path) \in 0..PathSize
      /\ \A k \in 1..Len(path) : path[k] = nodes[Revealed(Anc(k - 1))]
  BY DEF ShapeInv, PathInv, NodesInv
<1>3. Len(path) = PathSize
  BY Top DEF PathInv
<1>4. /\ NbNodes' = NbNodes /\ PathSize' = PathSize /\ Accepted' /\ IsHidden'
      /\ \A k \in Int : Anc(k)' = Anc(k)
  BY <1>1, <1>2, Frame
<1>5. ShapeInv' /\ NodesInv'
  BY <1>1, <1>2, <1>4 DEF ShapeInv, NodesInv, Derived
<1>6. ASSUME NEW k \in 1..Len(path) PROVE path'[k] = nodes'[Revealed(Anc(k - 1)')]
  <2>1. Anc(k - 1)' = Anc(k - 1)
    BY <1>2, <1>4, k - 1 \in Int
  <2> QED BY <1>1, <1>2, <2>1
<1>7. PathInv'
  BY <1>1, <1>2, <1>3, <1>4, <1>6 DEF PathInv, Revealed, IsRight, U16
<1> QED BY <1>5, <1>7

LEMMA ReconstructKeeps ==
  ASSUME ShapeInv, NodesInv, PathInv, ReconstructTree
  PROVE  PosInv'
<1>1. /\ pc = "path" /\ pc' = "pos" /\ next' = SmallPath /\ node' = HiddenNode
      /\ layout' = layout /\ height' = height /\ nbLeaves' = nbLeaves /\ hidden' = hidden
      /\ rebuilt' = [i \in 1..NbNodes |-> Junk] /\ pos' = [d \in 0..(height - 1) |-> 0]
  BY DEF ReconstructTree, shape, signerVars
<1>2. Accepted /\ IsHidden
  BY <1>1 DEF ShapeInv, PathInv
<1>3. /\ SmallPath \in {0, 1} /\ PathSize = height - SmallPath /\ height \in Nat /\ height >= 2
      /\ nbLeaves \in Nat /\ nbLeaves >= 4 /\ Anc(0) = HiddenNode
  BY <1>2, HiddenPath, Sizes, Ancestors
<1>4. /\ NbNodes' = NbNodes /\ PathSize' = PathSize /\ SmallPath' = SmallPath
      /\ \A k \in Int : Anc(k)' = Anc(k)
  BY <1>1, Frame
<1>5. \A d \in 0..(PathSize - 1) : ~(height - 1 - d < SmallPath)
  BY <1>3
<1>6. node' = Anc(next' - SmallPath)
  BY <1>1, <1>3
<1>7. pos' \in [0..(height - 1) -> 0..NbNodes]
  BY <1>1, <1>3 DEF NbNodes
<1>8. node' = Anc(next - SmallPath)'
  BY <1>1, <1>3, <1>4, <1>6
<1> QED BY <1>1, <1>3, <1>4, <1>5, <1>7, <1>8 DEF PosInv

LEMMA IndexKeeps ==
  ASSUME ShapeInv, NodesInv, PathInv, PosInv, IndexStep
  PROVE  PosInv'
<1>1. /\ pc = "pos" /\ pc' = "pos" /\ next < height /\ next' = next + 1 /\ node' = Parent(node)
      /\ layout' = layout /\ height' = height /\ nbLeaves' = nbLeaves /\ hidden' = hidden
      /\ rebuilt' = rebuilt /\ pos' = [pos EXCEPT ![height - next - 1] = Revealed(node)]
  BY DEF IndexStep, shape, signerVars
<1>2. /\ Accepted /\ IsHidden /\ pos \in [0..(height - 1) -> 0..NbNodes]
      /\ next \in SmallPath..height /\ node = Anc(next - SmallPath)
      /\ rebuilt = [i \in 1..NbNodes |-> Junk]
      /\ \A d \in 0..(PathSize - 1) : height - 1 - d < next => pos[d] = Revealed(Anc(PathSize - 1 - d))
  BY <1>1 DEF ShapeInv, PathInv, PosInv
<1>3. /\ SmallPath \in {0, 1} /\ PathSize = height - SmallPath /\ height \in Nat /\ height >= 2
      /\ nbLeaves \in Nat /\ nbLeaves >= 4
  BY <1>2, HiddenPath, Sizes
<1> DEFINE a == next - SmallPath
<1>4. a \in 0..(PathSize - 1) /\ next \in Nat
  BY <1>1, <1>2, <1>3
<1>5. node \in 2..NbNodes /\ Revealed(node) \in 0..NbNodes /\ Anc(a + 1) = Anc(a) \div 2
  <2>1. node \in 2..NbNodes /\ Anc(a + 1) = Anc(a) \div 2
    BY <1>2, <1>4, PathDescends, Ancestors
  <2>2. Revealed(node) \in 2..NbNodes
    BY <2>1, Siblings
  <2> QED BY <1>3, <2>1, <2>2 DEF NbNodes
<1>6. /\ NbNodes' = NbNodes /\ PathSize' = PathSize /\ SmallPath' = SmallPath
      /\ \A k \in Int : Anc(k)' = Anc(k)
  BY <1>1, Frame
<1>7. pos' \in [0..(height - 1) -> 0..NbNodes]
  BY <1>1, <1>2, <1>5
<1>8. node' = Anc(next - SmallPath)'
  <2>1. next' - SmallPath = a + 1
    BY <1>1, <1>3, <1>4
  <2> QED BY <1>1, <1>2, <1>4, <1>5, <1>6, <2>1 DEF Parent
<1>9. ASSUME NEW d \in 0..(PathSize - 1), height - 1 - d < next + 1
      PROVE  pos'[d] = Revealed(Anc(PathSize - 1 - d))
  <2>1. CASE height - 1 - d < next
    <3>1. d # height - next - 1
      BY <1>3, <1>4, <2>1
    <3> QED BY <1>1, <1>2, <1>3, <2>1, <3>1
  <2>2. CASE ~(height - 1 - d < next)
    <3>1. d = height - next - 1 /\ PathSize - 1 - d = a /\ d \in 0..(height - 1)
      BY <1>3, <1>4, <1>9, <2>2
    <3> QED BY <1>1, <1>2, <3>1
  <2> QED BY <2>1, <2>2
<1>10. ASSUME NEW d \in 0..(PathSize - 1), height - 1 - d < next'
       PROVE  pos'[d] = Revealed(Anc(PathSize - 1 - d)')
  BY <1>1, <1>3, <1>6, <1>9, <1>10
<1>11. next' \in SmallPath..height
  BY <1>1, <1>2, <1>3
<1> QED BY <1>1, <1>2, <1>6, <1>7, <1>8, <1>10, <1>11 DEF PosInv, Revealed, IsRight, U16

-----------------------------------------------------------------------------
(* The verifier's seeds. *)

OnPath(i) == \E k \in 0..PathSize : i = Anc(k)

LEMMA PathParents ==
  ASSUME ShapeInv, Accepted, IsHidden
  PROVE  /\ OnPath(1)
         /\ \A i \in 2..NbNodes : OnPath(i) => OnPath(i \div 2)
         /\ \A k \in 0..(PathSize - 1) : ~OnPath(Revealed(Anc(k)))
<1>1. /\ PathSize \in Nat /\ Anc(PathSize) = 1
      /\ \A k \in 0..(PathSize - 1) : Anc(k) \in 2..NbNodes
      /\ \A k, l \in 0..PathSize : Anc(k) = Anc(l) => k = l
  BY PathDescends
<1>2. \A k \in 0..(PathSize - 1) : Anc(k + 1) = Anc(k) \div 2
  BY Ancestors
<1>3. OnPath(1)
  BY <1>1 DEF OnPath
<1>4. ASSUME NEW i \in 2..NbNodes, OnPath(i) PROVE OnPath(i \div 2)
  <2>1. PICK k \in 0..PathSize : i = Anc(k)
    BY <1>4 DEF OnPath
  <2>2. k \in 0..(PathSize - 1) /\ k + 1 \in 0..PathSize
    BY <1>1, <2>1
  <2> QED BY <1>2, <2>1, <2>2 DEF OnPath
<1>5. ASSUME NEW k \in 0..(PathSize - 1) PROVE ~OnPath(Revealed(Anc(k)))
  <2> SUFFICES ASSUME OnPath(Revealed(Anc(k))) PROVE FALSE
    OBVIOUS
  <2>1. PICK l \in 0..PathSize : Revealed(Anc(k)) = Anc(l)
    BY DEF OnPath
  <2>2. /\ Anc(k) \in 2..NbNodes /\ Revealed(Anc(k)) \in 2..NbNodes
        /\ Revealed(Anc(k)) # Anc(k) /\ Revealed(Anc(k)) \div 2 = Anc(k) \div 2
    BY <1>1, Siblings
  <2>3. l \in 0..(PathSize - 1)
    <3>1. l # PathSize
      BY <1>1, <2>1, <2>2
    <3> QED BY <1>1, <3>1
  <2>4. Anc(l + 1) = Anc(k + 1)
    BY <1>2, <2>1, <2>2, <2>3
  <2>5. l + 1 \in 0..PathSize /\ k + 1 \in 0..PathSize
    BY <1>1, <2>3
  <2>6. l + 1 = k + 1
    BY <1>1, <2>4, <2>5
  <2>7. l = k
    BY <1>1, <2>3, <2>6
  <2> QED BY <2>1, <2>2, <2>7
<1> QED BY <1>3, <1>4, <1>5

\* The depth of a node of the path.
LEMMA PathDepth ==
  ASSUME ShapeInv, Accepted, IsHidden, NEW k \in 0..PathSize, NEW d \in 0..height,
         2^d <= Anc(k), Anc(k) < 2 * 2^d
  PROVE  k = PathSize - d
<1>1. /\ height \in Nat /\ UintBits \in Nat /\ height < UintBits /\ PathSize \in 1..height
      /\ nbLeaves \in Nat
  BY Sizes, Floors, HiddenPath
<1>2. /\ Anc(k) \in 1..NbNodes /\ 2^(PathSize - k) <= Anc(k) /\ Anc(k) < 2 * 2^(PathSize - k)
  BY Ancestors
<1>3. Anc(k) \in Nat /\ 2^d \in Nat /\ 2^(PathSize - k) \in Nat
  BY <1>1, <1>2, Powers DEF NbNodes
<1>4. CASE PathSize - k < d
  <2>1. 2 * 2^(PathSize - k) <= 2^d
    BY <1>1, <1>4, PowersGrow
  <2> QED BY <1>2, <1>3, <2>1
<1>5. CASE d < PathSize - k
  <2>1. 2 * 2^d <= 2^(PathSize - k)
    BY <1>1, <1>5, PowersGrow
  <2> QED BY <1>2, <1>3, <2>1
<1> QED BY <1>1, <1>4, <1>5

\* The node of a depth whose parent is on the hidden path and that is not is the one
\* whose seed is in the path.
LEMMA GivenNode ==
  ASSUME ShapeInv, Accepted, IsHidden, NEW d \in 1..height, NEW i \in 2..NbNodes,
         2^d <= i, i < 2 * 2^d, OnPath(i \div 2), ~OnPath(i)
  PROVE  d <= PathSize /\ i = Revealed(Anc(PathSize - d))
<1>1. /\ height \in Nat /\ UintBits \in Nat /\ height < UintBits /\ PathSize \in 1..height
      /\ nbLeaves \in Nat /\ HiddenNode \in nbLeaves..NbNodes /\ Anc(0) = HiddenNode
      /\ SmallPath \in {0, 1} /\ PathSize = height - SmallPath
  BY Sizes, Floors, HiddenPath, Ancestors
<1>2. i \in Nat /\ i \div 2 \in Nat /\ i >= 2 * (i \div 2) /\ i <= 2 * (i \div 2) + 1
  BY <1>1, Halves DEF NbNodes
<1>3. 2^(d - 1) \in Nat /\ 2^d = 2 * 2^(d - 1)
  BY <1>1, Powers, d - 1 \in 0..UintBits, (d - 1) + 1 = d
<1>4. 2^(d - 1) <= i \div 2 /\ i \div 2 < 2 * 2^(d - 1)
  BY <1>2, <1>3
<1>5. PICK k \in 0..PathSize : i \div 2 = Anc(k)
  BY DEF OnPath
<1>6. k = PathSize - (d - 1)
  BY <1>1, <1>4, <1>5, PathDepth
<1>7. d <= PathSize
  <2> SUFFICES ASSUME k = 0 PROVE FALSE
    BY <1>1, <1>6
  <2> QED BY <1>1, <1>2, <1>5 DEF NbNodes
<1> DEFINE l == PathSize - d
<1>8. l \in 0..(PathSize - 1) /\ k = l + 1 /\ l \in 0..PathSize
  BY <1>1, <1>6, <1>7
<1>9. Anc(l) \in 2..NbNodes /\ Anc(l) \div 2 = i \div 2
  BY <1>5, <1>8, PathDescends, Ancestors
<1>10. i # Anc(l)
  BY <1>8 DEF OnPath
<1>11. i = Revealed(Anc(l))
  BY <1>2, <1>9, <1>10, Siblings
<1> QED BY <1>7, <1>11

\* A seed that is not derived from the root seed.
IsUnknown(s) == s \in Seq(Nat) /\ Len(s) >= 1 /\ s[1] = 0

\* A tree has the signer's seeds, but those of the hidden path.
Right(tree, i) == /\ OnPath(i) => IsUnknown(tree[i])
                  /\ ~OnPath(i) => tree[i] = nodes[i]

\* From the node first on, both children of a hidden node are unknown: the depth that
\* first begins is not entered yet, which gives one of them.
Hidden(i, first) == OnPath(i) \/ (i >= first /\ OnPath(i \div 2))

RightAbove(tree, i, first) == /\ Hidden(i, first) => IsUnknown(tree[i])
                              /\ ~Hidden(i, first) => tree[i] = nodes[i]

FloorInv ==
  pc = "floor" =>
    /\ depth \in 2..(height - 1)
    /\ next \in 2^depth..End /\ (layout = "perfect" => next % 4 = 0)
    /\ DOMAIN rebuilt = 1..NbNodes
    /\ \A i \in 1..(2 * next - 1) : RightAbove(rebuilt, i, 2^(depth + 1))
    /\ \A i \in (2 * next)..NbNodes : rebuilt[i] = Junk

DoneInv ==
  pc = "done" => /\ depth = height /\ DOMAIN rebuilt = 1..NbNodes
                 /\ \A i \in 1..NbNodes : Right(rebuilt, i)

IInv == ShapeInv /\ NodesInv /\ PathInv /\ PosInv /\ FloorInv /\ DoneInv

\* What pos and the path hold, depth by depth, once pos is filled.
LEMMA GivenSeeds ==
  ASSUME ShapeInv, PathInv, PosInv, pc = "floor" \/ (pc = "pos" /\ next = height),
         NEW d \in 1..PathSize
  PROVE  /\ pos[d - 1] = Revealed(Anc(PathSize - d)) /\ pos[d - 1] \in 2..NbNodes
         /\ ~OnPath(pos[d - 1]) /\ pos[d - 1] \div 2 = Anc(PathSize - d) \div 2
         /\ Given(d) = nodes[pos[d - 1]]
<1>1. /\ Accepted /\ IsHidden /\ Len(path) = PathSize
      /\ \A k \in 1..Len(path) : path[k] = nodes[Revealed(Anc(k - 1))]
      /\ \A e \in 0..(PathSize - 1) :
           (pc = "pos" => height - 1 - e < next) => pos[e] = Revealed(Anc(PathSize - 1 - e))
  BY DEF ShapeInv, PathInv, PosInv
<1>2. /\ height \in Nat /\ PathSize \in 1..height
      /\ SmallPath \in {0, 1} /\ PathSize = height - SmallPath
  BY <1>1, Sizes, HiddenPath
<1> DEFINE l == PathSize - d
<1>3. l \in 0..(PathSize - 1) /\ d - 1 \in 0..(PathSize - 1) /\ height - 1 - (d - 1) < height
  BY <1>2
<1>4. pos[d - 1] = Revealed(Anc(l))
  <2>1. pos[d - 1] = Revealed(Anc(PathSize - 1 - (d - 1)))
    BY <1>1, <1>3
  <2>2. PathSize - 1 - (d - 1) = l
    BY <1>2
  <2> QED BY <2>1, <2>2
<1>5. Given(d) = nodes[Revealed(Anc(l))]
  <2>1. height - d - SmallPath + 1 = l + 1 /\ l + 1 \in 1..Len(path) /\ (l + 1) - 1 = l
    BY <1>1, <1>2
  <2> QED BY <1>1, <2>1 DEF Given
<1>6. /\ Revealed(Anc(l)) \in 2..NbNodes /\ ~OnPath(Revealed(Anc(l)))
      /\ Revealed(Anc(l)) \div 2 = Anc(l) \div 2
  <2>1. Anc(l) \in 2..NbNodes
    BY <1>1, <1>3, PathDescends
  <2> QED BY <1>1, <1>3, <2>1, Siblings, PathParents
<1> QED BY <1>4, <1>5, <1>6

\* The verifier's tree when the depth d is about to be entered.
FilledAbove(tree, d) ==
  /\ DOMAIN tree = 1..NbNodes
  /\ \A i \in 1..NbNodes :
       /\ i < 2 * 2^d => RightAbove(tree, i, 2^d)
       /\ i >= 2 * 2^d => tree[i] = Junk

\* To enter a depth gives the only seed of its hidden pair that is not hidden.
LEMMA EnterGives ==
  ASSUME ShapeInv, PathInv, PosInv, pc = "floor" \/ (pc = "pos" /\ next = height),
         NEW d \in 2..height, NEW tree, FilledAbove(tree, d), Enter(d, tree)
  PROVE  /\ DOMAIN rebuilt' = 1..NbNodes
         /\ \A i \in 1..NbNodes : i < 2 * 2^d => Right(rebuilt', i)
         /\ \A i \in 1..NbNodes : i >= 2 * 2^d => rebuilt'[i] = Junk
<1>1. /\ Accepted /\ IsHidden
      /\ height \in Nat /\ UintBits \in Nat /\ height < UintBits /\ nbLeaves \in Nat
      /\ PathSize \in 1..height /\ SmallPath \in {0, 1} /\ PathSize = height - SmallPath
  BY Sizes, Floors, HiddenPath, SMTT(30) DEF ShapeInv, PathInv
<1>2. 2^d \in Nat /\ 2^d >= 4
  BY <1>1, Powers, FourDivides
<1>3. CASE d <= PathSize
  <2> DEFINE p == pos[d - 1]
  <2>1. /\ p = Revealed(Anc(PathSize - d)) /\ p \in 2..NbNodes /\ ~OnPath(p)
        /\ Given(d) = nodes[p]
    BY <1>1, <1>3, GivenSeeds
  <2>2. rebuilt' = [tree EXCEPT ![p] = nodes[p]]
    <3>1. CASE d < height
      BY <2>1, <3>1 DEF Enter, Put
    <3>2. CASE d = height
      <4>1. SmallPath = 0 /\ Given(d) = path[1]
        BY <1>1, <1>3, <3>2 DEF Given
      <4> QED BY <1>1, <2>1, <3>2, <4>1 DEF Enter, Put
    <3> QED BY <1>1, <3>1, <3>2
  <2> HIDE DEF p
  <2>3. /\ DOMAIN rebuilt' = 1..NbNodes /\ rebuilt'[p] = nodes[p]
        /\ \A i \in 1..NbNodes : i # p => rebuilt'[i] = tree[i]
    BY <1>1, <2>1, <2>2 DEF FilledAbove, NbNodes
  <2>4. 2^d <= p /\ p < 2 * 2^d
    <3> DEFINE l == PathSize - d
    <3>1. l \in 0..(PathSize - 1) /\ l \in 0..PathSize /\ PathSize - l = d
      BY <1>1, <1>3
    <3>2. /\ 2^d <= Anc(l) /\ Anc(l) < 2 * 2^d /\ Anc(l) \in 2..NbNodes
      BY <1>1, <3>1, Ancestors, PathDescends
    <3>3. p \div 2 = Anc(l) \div 2
      BY <2>1, <3>2, Siblings
    <3>4. d - 1 \in 0..UintBits /\ (d - 1) + 1 = d
      BY <1>1
    <3>5. 2^d = 2 * 2^(d - 1) /\ 2^(d - 1) \in Nat
      BY <1>1, <3>4, Powers
    <3> HIDE DEF l
    <3>6. p \in Nat /\ Anc(l) \in Nat
      BY <1>1, <2>1, <3>2 DEF NbNodes
    <3> QED BY <3>2, <3>3, <3>5, <3>6
  <2>5. ASSUME NEW i \in 1..NbNodes, i < 2 * 2^d PROVE Right(rebuilt', i)
    <3>1. CASE i = p
      BY <2>1, <2>3, <3>1 DEF Right
    <3>2. CASE i # p
      <4>1. i >= 2^d /\ OnPath(i \div 2) => OnPath(i)
        <5> SUFFICES ASSUME i >= 2^d, OnPath(i \div 2), ~OnPath(i) PROVE FALSE
          OBVIOUS
        <5>1. i \in 2..NbNodes /\ 2^d <= i /\ d \in 1..height
          BY <1>1, <1>2 DEF NbNodes
        <5>2. i = Revealed(Anc(PathSize - d))
          BY <1>1, <2>5, <5>1, GivenNode
        <5> QED BY <2>1, <3>2, <5>2
      <4>2. RightAbove(tree, i, 2^d)
        BY <2>5 DEF FilledAbove
      <4>3. rebuilt'[i] = tree[i]
        BY <2>3, <3>2
      <4> QED BY <4>1, <4>2, <4>3 DEF Right, RightAbove, Hidden
    <3> QED BY <3>1, <3>2
  <2>6. ASSUME NEW i \in 1..NbNodes, i >= 2 * 2^d PROVE rebuilt'[i] = Junk
    <3>1. i # p
      BY <1>1, <1>2, <2>1, <2>4, <2>6 DEF NbNodes
    <3> QED BY <2>3, <2>6, <3>1 DEF FilledAbove
  <2> QED BY <2>3, <2>5, <2>6
<1>4. CASE ~(d <= PathSize)
  <2>1. d = height /\ SmallPath = 1 /\ rebuilt' = tree
    BY <1>1, <1>4 DEF Enter
  <2>2. ASSUME NEW i \in 1..NbNodes, i < 2 * 2^d PROVE Right(rebuilt', i)
    <3>1. i >= 2^d /\ OnPath(i \div 2) => OnPath(i)
      <4> SUFFICES ASSUME i >= 2^d, OnPath(i \div 2), ~OnPath(i) PROVE FALSE
        OBVIOUS
      <4>1. i \in 2..NbNodes /\ 2^d <= i /\ d \in 1..height
        BY <1>1, <1>2 DEF NbNodes
      <4> QED BY <1>1, <1>4, <2>2, <4>1, GivenNode
    <3>2. RightAbove(tree, i, 2^d)
      BY <2>2 DEF FilledAbove
    <3> QED BY <2>1, <3>1, <3>2 DEF Right, RightAbove, Hidden
  <2> QED BY <2>1, <2>2 DEF FilledAbove
<1> QED BY <1>3, <1>4

LEMMA EnterKeeps ==
  ASSUME ShapeInv, PathInv, PosInv, pc = "floor" \/ (pc = "pos" /\ next = height),
         NEW d \in 2..height, NEW tree, FilledAbove(tree, d), Enter(d, tree),
         UNCHANGED <<shape, signerVars, pos>>
  PROVE  PosInv' /\ FloorInv' /\ DoneInv'
<1>1. /\ Accepted /\ IsHidden
      /\ height \in Nat /\ UintBits \in Nat /\ height < UintBits /\ nbLeaves \in Nat
      /\ PathSize \in 1..height /\ FirstLeaf = nbLeaves
      /\ 2^(height - 1) < nbLeaves /\ nbLeaves <= 2^height
      /\ layout = "perfect" => nbLeaves = 2^height
  <2>1. Accepted
    BY DEF ShapeInv
  <2>2. IsHidden
    BY DEF PathInv
  <2> QED BY <2>1, <2>2, Sizes, Floors, HiddenPath
<1>2. /\ layout' = layout /\ height' = height /\ nbLeaves' = nbLeaves
      /\ nodes' = nodes /\ hidden' = hidden /\ pos' = pos /\ depth' = d
      /\ pc' = IF d < height THEN "floor" ELSE "done"
      /\ d < height => next' = 2^d
  BY DEF shape, signerVars, Enter, FloorStart
<1>3. /\ NbNodes' = NbNodes /\ PathSize' = PathSize /\ FirstLeaf' = FirstLeaf
      /\ \A k \in Int : Anc(k)' = Anc(k)
  BY <1>2, Frame
<1>4. /\ DOMAIN rebuilt' = 1..NbNodes
      /\ \A i \in 1..NbNodes : i < 2 * 2^d => Right(rebuilt', i)
      /\ \A i \in 1..NbNodes : i >= 2 * 2^d => rebuilt'[i] = Junk
  BY EnterGives
<1>5. /\ 2^d \in Nat \ {0} /\ 2^(d + 1) = 2 * 2^d /\ 2^d % 4 = 0 /\ 2^height \in Nat
      /\ 2^d <= 2^height
  BY <1>1, Powers, PowersGrow, FourDivides
<1>6. ASSUME NEW i \in 1..NbNodes PROVE OnPath(i)' <=> OnPath(i)
  <2>1. \A k \in 0..PathSize : Anc(k)' = Anc(k)
    BY <1>1, <1>3
  <2> QED BY <1>3, <2>1 DEF OnPath
<1>7. PosInv'
  <2>1. \A e \in 0..(PathSize - 1) : pos[e] = Revealed(Anc(PathSize - 1 - e))
    BY <1>1 DEF PosInv
  <2>2. ASSUME NEW e \in 0..(PathSize - 1) PROVE pos'[e] = Revealed(Anc(PathSize - 1 - e)')
    BY <1>1, <1>2, <1>3, <2>1, PathSize - 1 - e \in Int
  <2>3. pos \in [0..(height - 1) -> 0..NbNodes]
    BY DEF PosInv
  <2> QED BY <1>1, <1>2, <1>3, <2>2, <2>3 DEF PosInv, Revealed, IsRight, U16
<1>8. FloorInv'
  <2> SUFFICES ASSUME d < height PROVE FloorInv'
    BY <1>2 DEF FloorInv
  <2>1. /\ pc' = "floor" /\ next' = 2^d /\ 2^d <= End' /\ End' \in Nat /\ depth' = d
        /\ 2 * next' - 1 <= NbNodes
    <3>1. CASE d = height - 1
      BY <1>1, <1>2, <1>3, <1>5, <3>1 DEF End, NbNodes
    <3>2. CASE d # height - 1
      <4>1. 2 * 2^d <= 2^(height - 1) /\ 2^(height - 1) \in Nat
        BY <1>1, <3>2, PowersGrow, Powers, height - 1 \in 0..UintBits, d \in 0..(height - 1)
      <4> QED BY <1>1, <1>2, <1>5, <3>2, <4>1 DEF End, NbNodes
    <3> QED BY <3>1, <3>2
  <2>2. ASSUME NEW i \in 1..(2 * next' - 1) PROVE RightAbove(rebuilt, i, 2^(depth + 1))'
    <3>1. i \in 1..NbNodes /\ i < 2 * 2^d /\ ~(i >= 2^(depth' + 1))
      BY <1>1, <1>5, <2>1 DEF NbNodes
    <3>2. Right(rebuilt', i)
      BY <1>4, <3>1
    <3>3. Hidden(i, 2^(depth + 1))' <=> OnPath(i)
      BY <1>6, <3>1 DEF Hidden
    <3> QED BY <1>2, <3>2, <3>3 DEF Right, RightAbove, IsUnknown
  <2>3. ASSUME NEW i \in (2 * next')..NbNodes PROVE rebuilt'[i] = Junk
    BY <1>1, <1>4, <1>5, <2>1, i \in 1..NbNodes DEF NbNodes
  <2>4. depth' \in 2..(height - 1) /\ next' \in 2^depth'..End' /\ next' % 4 = 0
    BY <1>1, <1>5, <2>1
  <2> QED BY <1>2, <1>3, <1>4, <2>2, <2>3, <2>4 DEF FloorInv, Junk
<1>9. DoneInv'
  <2> SUFFICES ASSUME d = height PROVE DoneInv'
    BY <1>1, <1>2 DEF DoneInv
  <2>1. ASSUME NEW i \in 1..NbNodes PROVE Right(rebuilt, i)'
    <3>1. i < 2 * 2^d
      BY <1>1, <1>5 DEF NbNodes
    <3>2. Right(rebuilt', i)
      BY <1>4, <3>1
    <3> QED BY <1>2, <1>6, <3>2 DEF Right, IsUnknown
  <2> QED BY <1>2, <1>3, <1>4, <2>1 DEF DoneInv
<1> QED BY <1>7, <1>8, <1>9

\* The seed of depth 1 is given, and expanded.
LEMMA DepthOneKeeps ==
  ASSUME ShapeInv, NodesInv, PathInv, PosInv, DepthOne
  PROVE  PosInv' /\ FloorInv' /\ DoneInv'
<1>1. /\ pc = "pos" /\ next = height /\ Accepted /\ IsHidden /\ Derived(NbNodes)
      /\ rebuilt = [i \in 1..NbNodes |-> Junk]
      /\ UNCHANGED <<shape, signerVars, pos>>
  BY DEF DepthOne, ShapeInv, PathInv, PosInv, NodesInv
<1>2. /\ height \in Nat /\ height >= 2 /\ UintBits \in Nat /\ nbLeaves \in Nat /\ nbLeaves >= 4
      /\ height < UintBits /\ PathSize \in 1..height
  BY <1>1, Sizes, Floors, HiddenPath
<1> DEFINE p == pos[0]
           a == Anc(PathSize - 1)
           given == Put(rebuilt, p, Given(1))
           tree == Expanded(given, {p})
<1>3. 2^0 = 1 /\ 2^1 = 2 /\ 2^2 = 4
  BY <1>2, PowersOfTwo, Powers, 1 \in 0..UintBits, 1 + 1 = 2
<1>4. /\ p = Revealed(a) /\ p \in 2..NbNodes /\ ~OnPath(p) /\ Given(1) = nodes[p]
      /\ p \div 2 = a \div 2
  BY <1>1, <1>2, GivenSeeds, 1 \in 1..PathSize, 1 - 1 = 0
<1>5. a \in {2, 3} /\ OnPath(a) /\ p \in {2, 3} /\ p # a
  <2>1. PathSize - 1 \in 0..PathSize /\ PathSize - 1 \in 0..(PathSize - 1)
        /\ PathSize - (PathSize - 1) = 1
    BY <1>2
  <2>2. 2 <= a /\ a < 4 /\ a \in 2..NbNodes
    BY <1>1, <1>3, <2>1, Ancestors, PathDescends, SMTT(30)
  <2>3. OnPath(a)
    BY <2>1 DEF OnPath
  <2> HIDE DEF a, p
  <2>4. a \in {2, 3}
    BY <1>2, <2>2 DEF NbNodes
  <2>5. p \in Nat
    BY <1>2, <1>4 DEF NbNodes
  <2>6. p \div 2 = 1
    BY <1>4, <2>4
  <2>7. p \in {2, 3}
    BY <2>5, <2>6, Halves
  <2> QED BY <1>4, <2>3, <2>4, <2>7
<1> HIDE DEF p, a
<1>6. /\ DOMAIN given = 1..NbNodes /\ given[p] = nodes[p]
      /\ \A i \in 1..NbNodes : i # p => given[i] = Junk
  BY <1>1, <1>2, <1>4 DEF Put, NbNodes
<1> HIDE DEF given
<1>7. /\ DOMAIN tree = 1..NbNodes
      /\ \A i \in 1..NbNodes :
           /\ i \div 2 \in {p} => tree[i] = Child(given[i \div 2], i \div 2, i % 2)
           /\ i \div 2 \notin {p} => tree[i] = given[i]
  <2>1. {p} \in SUBSET (1..(nbLeaves - 1))
    BY <1>2, <1>5
  <2> QED BY <1>2, <1>6, <2>1, ExpandedNodes
<1> HIDE DEF tree
<1>8. IsUnknown(Junk)
  BY DEF IsUnknown, Junk
<1>9. FilledAbove(tree, 2)
  <2>1. ASSUME NEW i \in 1..NbNodes, i < 8
        PROVE  RightAbove(tree, i, 4)
    <3>1. i \in Nat /\ i \div 2 \in Nat /\ i >= 2 * (i \div 2) /\ i <= 2 * (i \div 2) + 1
      BY <1>2, Halves DEF NbNodes
    <3>2. CASE i = 1
      <4>1. tree[i] = Junk
        BY <1>5, <1>6, <1>7, <3>1, <3>2
      <4>2. OnPath(i)
        BY <1>1, <3>2, PathParents
      <4> QED BY <1>8, <4>1, <4>2 DEF Right, RightAbove, Hidden
    <3>3. CASE i = p
      <4>1. tree[i] = nodes[i]
        BY <1>5, <1>6, <1>7, <3>1, <3>3
      <4>2. ~OnPath(i) /\ ~(i >= 4)
        BY <1>4, <1>5, <3>3
      <4> QED BY <4>1, <4>2 DEF Right, RightAbove, Hidden
    <3>4. CASE i = a
      <4>1. tree[i] = Junk
        BY <1>5, <1>6, <1>7, <3>1, <3>4
      <4> QED BY <1>5, <1>8, <3>4, <4>1 DEF Right, RightAbove, Hidden
    <3>5. CASE i >= 4 /\ i \div 2 = p
      <4>1. i \in 2..NbNodes
        BY <1>2, <3>5 DEF NbNodes
      <4>2. tree[i] = Child(nodes[i \div 2], i \div 2, i % 2)
        BY <1>6, <1>7, <3>5
      <4>3. tree[i] = nodes[i]
        BY <1>1, <4>1, <4>2 DEF Derived
      <4>4. ~OnPath(i \div 2) /\ ~OnPath(i)
        BY <1>1, <1>4, <3>5, <4>1, PathParents
      <4> QED BY <4>3, <4>4 DEF Right, RightAbove, Hidden
    <3>6. CASE i >= 4 /\ i \div 2 = a
      <4>1. tree[i] = Junk
        BY <1>5, <1>6, <1>7, <3>1, <3>6
      <4> QED BY <1>5, <1>8, <3>6, <4>1 DEF Right, RightAbove, Hidden
    <3> QED BY <1>5, <2>1, <3>1, <3>2, <3>3, <3>4, <3>5, <3>6
  <2>2. ASSUME NEW i \in 1..NbNodes, i >= 8 PROVE tree[i] = Junk
    <3>1. i \in Nat /\ i \div 2 \in Nat /\ i <= 2 * (i \div 2) + 1
      BY <1>2, Halves DEF NbNodes
    <3> QED BY <1>5, <1>6, <1>7, <2>2, <3>1
  <2> QED BY <1>3, <1>7, <2>1, <2>2 DEF FilledAbove
<1>10. Enter(2, tree)
  BY DEF DepthOne, tree, given, p
<1> QED BY <1>1, <1>2, <1>9, <1>10, EnterKeeps, 2 \in 2..height

\* A group of nodes of the current depth is expanded.
LEMMA FloorNodesKeeps ==
  ASSUME ShapeInv, NodesInv, PathInv, PosInv, FloorInv, FloorNodes
  PROVE  PosInv' /\ FloorInv' /\ DoneInv'
<1>1. /\ pc = "floor" /\ pc' = "floor" /\ next < End /\ Accepted /\ IsHidden /\ Derived(NbNodes)
      /\ rebuilt' = Expanded(rebuilt, Four(next, End))
      /\ next' = next + Advance(Four(next, End))
      /\ layout' = layout /\ height' = height /\ nbLeaves' = nbLeaves
      /\ nodes' = nodes /\ hidden' = hidden /\ path' = path /\ pos' = pos /\ depth' = depth
  BY DEF FloorNodes, shape, signerVars, ShapeInv, PathInv, NodesInv
<1>2. /\ height \in Nat /\ UintBits \in Nat /\ height < UintBits /\ nbLeaves \in Nat
      /\ nbLeaves >= 4 /\ PathSize \in 1..height /\ FirstLeaf = nbLeaves
      /\ 2^(height - 1) < nbLeaves /\ nbLeaves <= 2^height
      /\ layout = "perfect" => nbLeaves = 2^height
      /\ layout \in {"default", "perfect"}
  BY <1>1, Sizes, Floors, HiddenPath DEF ShapeInv
<1>3. /\ depth \in 2..(height - 1)
      /\ next \in 2^depth..End /\ (layout = "perfect" => next % 4 = 0)
      /\ DOMAIN rebuilt = 1..NbNodes
      /\ \A i \in 1..(2 * next - 1) : RightAbove(rebuilt, i, 2^(depth + 1))
      /\ \A i \in (2 * next)..NbNodes : rebuilt[i] = Junk
  BY <1>1 DEF FloorInv
<1>4. /\ 2^depth \in Nat /\ 2^depth >= 4 /\ 2^(depth + 1) = 2 * 2^depth
      /\ 2^(depth + 1) % 4 = 0 /\ 2^height \in Nat /\ 2^(height - 1) \in Nat
      /\ 2^(depth + 1) <= 2^height /\ (depth < height - 1 => 2^(depth + 1) <= 2^(height - 1))
  <2>1. /\ depth \in 2..UintBits /\ depth + 1 \in 2..UintBits /\ height \in 0..UintBits
        /\ height - 1 \in 0..UintBits /\ depth + 1 \in 0..height
        /\ depth < height - 1 => depth + 1 \in 0..(height - 1)
    BY <1>2, <1>3
  <2> QED BY <1>2, <1>3, <2>1, Powers, PowersGrow, FourDivides
<1>5. /\ End \in Nat /\ End <= nbLeaves /\ End <= 2^(depth + 1)
      /\ layout = "perfect" => End % 4 = 0
  BY <1>2, <1>3, <1>4 DEF End
<1>6. next \in Nat /\ next >= 4
  BY <1>3, <1>4, <1>5
<1>7. PICK m \in Nat : /\ Four(next, End) = next..m /\ next <= m /\ m < End /\ next' = m + 1
                      /\ m <= next + 3 /\ (layout = "perfect" => (m + 1) % 4 = 0)
  <2>1. /\ \/ Four(next, End) = {next}
           \/ Four(next, End) = next..(next + 3) /\ next + 3 < End
        /\ layout = "perfect" => Four(next, End) = next..(next + 3)
    BY <1>1, <1>3, <1>5, <1>6, GroupFits
  <2>2. CASE Four(next, End) = {next}
    <3>1. layout # "perfect"
      <4>1. next + 1 \in next..(next + 3) /\ next + 1 \notin {next}
        BY <1>6
      <4> QED BY <2>1, <2>2, <4>1
    <3>2. next' = next + 1 /\ Four(next, End) = next..next
      BY <1>1, <1>6, <2>2 DEF Advance
    <3> QED BY <1>1, <1>6, <3>1, <3>2
  <2>3. CASE Four(next, End) # {next}
    <3>1. next' = next + 4
      BY <1>1, <2>3 DEF Advance
    <3>2. layout = "perfect" => (next + 3 + 1) % 4 = 0
      <4>1. ASSUME next % 4 = 0 PROVE (next + 3 + 1) % 4 = 0
        BY <1>6, <4>1, Z3
      <4> QED BY <1>3, <4>1
    <3> QED BY <1>6, <2>1, <2>3, <3>1, <3>2, next' = (next + 3) + 1
  <2> QED BY <2>2, <2>3
<1>8. /\ DOMAIN rebuilt' = 1..NbNodes
      /\ \A i \in 1..NbNodes :
           /\ i \div 2 \in next..m => rebuilt'[i] = Child(rebuilt[i \div 2], i \div 2, i % 2)
           /\ i \div 2 \notin next..m => rebuilt'[i] = rebuilt[i]
  <2>1. /\ nbLeaves \in Nat /\ Four(next, End) \in SUBSET (1..(nbLeaves - 1))
        /\ DOMAIN rebuilt = 1..NbNodes
    BY <1>2, <1>3, <1>5, <1>6, <1>7
  <2>2. rebuilt' = Expanded(rebuilt, Four(next, End)) /\ Four(next, End) = next..m
    BY <1>1, <1>7
  <2>3. /\ DOMAIN Expanded(rebuilt, Four(next, End)) = 1..NbNodes
        /\ \A i \in 1..NbNodes :
             /\ i \div 2 \in Four(next, End) =>
                  Expanded(rebuilt, Four(next, End))[i]
                    = Child(rebuilt[i \div 2], i \div 2, i % 2)
             /\ i \div 2 \notin Four(next, End) =>
                  Expanded(rebuilt, Four(next, End))[i] = rebuilt[i]
    BY <2>1, ExpandedNodes
  <2> QED BY <2>2, <2>3
<1>9. /\ NbNodes' = NbNodes /\ PathSize' = PathSize /\ FirstLeaf' = FirstLeaf /\ End' = End
      /\ \A k \in Int : Anc(k)' = Anc(k)
  BY <1>1, Frame DEF End
<1>10. ASSUME NEW i \in Nat PROVE (OnPath(i)' <=> OnPath(i)) /\ (Hidden(i, 2^(depth + 1))' <=> Hidden(i, 2^(depth + 1)))
  <2>1. \A k \in 0..PathSize : Anc(k)' = Anc(k)
    BY <1>2, <1>9
  <2> QED BY <1>1, <1>9, <2>1 DEF OnPath, Hidden
<1>11. ASSUME NEW i \in 1..(2 * next' - 1) PROVE RightAbove(rebuilt, i, 2^(depth + 1))'
  <2>1. i \in 1..NbNodes /\ i \in Nat
    BY <1>2, <1>5, <1>6, <1>7 DEF NbNodes
  <2>2. i \div 2 \in Nat /\ i % 2 \in {0, 1} /\ i = 2 * (i \div 2) + (i % 2)
    BY <2>1, Halves
  <2>3. RightAbove(rebuilt', i, 2^(depth + 1))
    <3>1. CASE i <= 2 * next - 1
      <4>1. rebuilt'[i] = rebuilt[i]
        BY <1>6, <1>8, <2>1, <2>2, <3>1
      <4> QED BY <1>3, <1>6, <2>1, <3>1, <4>1 DEF RightAbove
    <3>2. CASE ~(i <= 2 * next - 1)
      <4> DEFINE q == i \div 2
      <4>1. q \in next..m /\ q \in 1..(2 * next - 1) /\ q \in 1..NbNodes /\ i \in 2..NbNodes
        BY <1>2, <1>5, <1>6, <1>7, <2>1, <2>2, <3>2 DEF NbNodes
      <4>2. 2^depth <= q /\ ~(q >= 2^(depth + 1)) /\ i >= 2^(depth + 1)
        BY <1>3, <1>4, <1>5, <1>7, <2>2, <4>1
      <4>3. rebuilt'[i] = Child(rebuilt[q], q, i % 2)
        BY <1>8, <2>1, <4>1
      <4> HIDE DEF q
      <4>4. CASE OnPath(q)
        <5>1. IsUnknown(rebuilt[q])
          BY <1>3, <4>1, <4>4 DEF RightAbove, Hidden
        <5>2. IsUnknown(Child(rebuilt[q], q, i % 2))
          <6>1. 2 * U16(q) + (i % 2) \in Nat
            <7>1. q \in Nat /\ 2^UintBits \in Nat \ {0}
              BY <1>2, <4>1, Powers DEF NbNodes
            <7>2. U16(q) \in Nat
              BY <7>1, Z3 DEF U16
            <7> QED BY <2>2, <7>2
          <6>2. rebuilt[q] \in Seq(Nat) /\ Len(rebuilt[q]) >= 1 /\ rebuilt[q][1] = 0
            BY <5>1 DEF IsUnknown
          <6>3. /\ Append(rebuilt[q], 2 * U16(q) + (i % 2)) \in Seq(Nat)
                /\ Len(Append(rebuilt[q], 2 * U16(q) + (i % 2))) = Len(rebuilt[q]) + 1
                /\ Append(rebuilt[q], 2 * U16(q) + (i % 2))[1] = 0
            BY <6>1, <6>2
          <6>4. Child(rebuilt[q], q, i % 2) = Append(rebuilt[q], 2 * U16(q) + (i % 2))
            BY DEF Child
          <6>5. Len(rebuilt[q]) + 1 >= 1
            BY <6>2
          <6> QED BY <6>3, <6>4, <6>5 DEF IsUnknown
        <5>3. Hidden(i, 2^(depth + 1))
          BY <4>2, <4>4 DEF Hidden, q
        <5> QED BY <4>3, <5>2, <5>3 DEF RightAbove
      <4>5. CASE ~OnPath(q)
        <5>1. rebuilt[q] = nodes[q]
          BY <1>3, <4>1, <4>2, <4>5 DEF RightAbove, Hidden
        <5>2. nodes[i] = Child(nodes[q], q, i % 2)
          BY <1>1, <4>1 DEF Derived, q
        <5>3. ~OnPath(i)
          BY <1>1, <4>1, <4>5, PathParents DEF q
        <5>4. ~Hidden(i, 2^(depth + 1))
          BY <4>5, <5>3 DEF Hidden, q
        <5> QED BY <4>3, <5>1, <5>2, <5>4 DEF RightAbove
      <4> QED BY <4>4, <4>5
    <3> QED BY <3>1, <3>2
  <2> QED BY <1>1, <1>10, <2>1, <2>3 DEF RightAbove, IsUnknown
<1>12. ASSUME NEW i \in (2 * next')..NbNodes PROVE rebuilt'[i] = Junk
  <2>1. i \in 1..NbNodes /\ i \in Nat /\ i >= 2 * (m + 1)
    BY <1>2, <1>6, <1>7 DEF NbNodes
  <2>2. i \div 2 \in Nat /\ i <= 2 * (i \div 2) + 1
    BY <2>1, Halves
  <2>3. i \div 2 \notin next..m /\ i \in (2 * next)..NbNodes
    BY <1>6, <1>7, <2>1, <2>2
  <2> QED BY <1>3, <1>8, <2>1, <2>3
<1>13. next' \in 2^depth..End
  BY <1>3, <1>4, <1>5, <1>6, <1>7
<1>14. FloorInv'
  BY <1>1, <1>3, <1>7, <1>8, <1>9, <1>11, <1>12, <1>13 DEF FloorInv, Junk
<1>15. PosInv'
  <2>1. /\ pos \in [0..(height - 1) -> 0..NbNodes]
        /\ \A e \in 0..(PathSize - 1) : pos[e] = Revealed(Anc(PathSize - 1 - e))
    BY <1>1 DEF PosInv
  <2>2. ASSUME NEW e \in 0..(PathSize - 1) PROVE pos'[e] = Revealed(Anc(PathSize - 1 - e)')
    BY <1>1, <1>2, <1>9, <2>1, PathSize - 1 - e \in Int
  <2> QED BY <1>1, <1>9, <2>1, <2>2 DEF PosInv, Revealed, IsRight, U16
<1> QED BY <1>1, <1>14, <1>15 DEF DoneInv

LEMMA FloorDoneKeeps ==
  ASSUME ShapeInv, NodesInv, PathInv, PosInv, FloorInv, FloorDone
  PROVE  PosInv' /\ FloorInv' /\ DoneInv'
<1>1. /\ pc = "floor" /\ next >= End /\ Accepted /\ IsHidden /\ Enter(depth + 1, rebuilt)
      /\ UNCHANGED <<shape, signerVars, pos>>
  BY DEF FloorDone, ShapeInv, PathInv
<1>2. /\ height \in Nat /\ UintBits \in Nat /\ height < UintBits /\ nbLeaves \in Nat
      /\ FirstLeaf = nbLeaves /\ nbLeaves <= 2^height
      /\ layout = "perfect" => nbLeaves = 2^height
      /\ layout \in {"default", "perfect"}
  BY <1>1, Sizes, Floors DEF ShapeInv
<1>3. /\ depth \in 2..(height - 1) /\ next \in 2^depth..End /\ DOMAIN rebuilt = 1..NbNodes
      /\ \A i \in 1..(2 * next - 1) : RightAbove(rebuilt, i, 2^(depth + 1))
      /\ \A i \in (2 * next)..NbNodes : rebuilt[i] = Junk
  BY <1>1 DEF FloorInv
<1> DEFINE d == depth + 1
<1>4. d \in 2..height /\ d \in 0..UintBits /\ 2^d \in Nat /\ 2^depth \in Nat
  BY <1>2, <1>3, Powers
<1>5. /\ next = End /\ End \in Nat /\ (End = 2^d \/ (d = height /\ End = nbLeaves))
      /\ End <= 2^d
  BY <1>1, <1>2, <1>3, <1>4 DEF End
<1>6. FilledAbove(rebuilt, d)
  <2>1. ASSUME NEW i \in 1..NbNodes, i < 2 * 2^d
        PROVE  RightAbove(rebuilt, i, 2^d)
    <3>1. i \in 1..(2 * next - 1)
      BY <1>2, <1>4, <1>5, <2>1 DEF NbNodes
    <3> QED BY <1>3, <3>1 DEF RightAbove, Hidden
  <2>2. ASSUME NEW i \in 1..NbNodes, i >= 2 * 2^d PROVE rebuilt[i] = Junk
    <3>1. i \in (2 * next)..NbNodes
      BY <1>2, <1>4, <1>5, <2>2 DEF NbNodes
    <3> QED BY <1>3, <3>1
  <2> QED BY <1>3, <2>1, <2>2 DEF FilledAbove
<1> QED BY <1>1, <1>4, <1>6, EnterKeeps
-----------------------------------------------------------------------------
(* Every reachable state. *)

LEMMA InitInv == Init => IInv
<1> SUFFICES ASSUME Init PROVE IInv
  OBVIOUS
<1>1. PICK sh \in Shapes : height = sh[1] /\ nbLeaves = sh[2]
  BY DEF Init
<1>2. sh = <<sh[1], sh[2]>>
  BY ShapesAssumption
<1>3. ShapeInv
  BY <1>1, <1>2 DEF Init, ShapeInv
<1> QED BY <1>3 DEF Init, IInv, NodesInv, PathInv, PosInv, FloorInv, DoneInv

LEMMA NextInv == IInv /\ [Next]_vars => IInv'
<1> SUFFICES ASSUME IInv, [Next]_vars PROVE IInv'
  OBVIOUS
<1>1. ShapeInv /\ NodesInv /\ PathInv /\ PosInv /\ FloorInv /\ DoneInv
  BY DEF IInv
<1>2. CASE MallocSeedTree
  <2>1. pc = "malloc" /\ pc' = "expand" /\ path' = path
    BY <1>2 DEF MallocSeedTree
  <2>2. PathInv' /\ PosInv' /\ FloorInv' /\ DoneInv'
    BY <1>1, <2>1 DEF PathInv, PosInv, FloorInv, DoneInv
  <2> QED BY <1>1, <1>2, <2>2, MallocKeeps DEF IInv
<1>3. CASE RefuseSeedTree
  BY <1>1, <1>3 DEF RefuseSeedTree, shape, IInv, ShapeInv, NodesInv, PathInv, PosInv, FloorInv, DoneInv
<1>4. CASE ExpandNodes
  <2>1. pc = "expand" /\ pc' = "expand" /\ path' = path
    BY <1>4 DEF ExpandNodes
  <2>2. PathInv' /\ PosInv' /\ FloorInv' /\ DoneInv'
    BY <1>1, <2>1 DEF PathInv, PosInv, FloorInv, DoneInv
  <2> QED BY <1>1, <1>4, <2>2, ExpandKeeps DEF IInv
<1>5. CASE Challenge
  <2>1. PosInv' /\ FloorInv' /\ DoneInv'
    BY <1>5 DEF Challenge, PosInv, FloorInv, DoneInv
  <2> QED BY <1>1, <1>5, <2>1, ChallengeKeeps DEF IInv
<1>6. CASE PathStep
  <2>1. PosInv' /\ FloorInv' /\ DoneInv'
    BY <1>6 DEF PathStep, PosInv, FloorInv, DoneInv
  <2> QED BY <1>1, <1>6, <2>1, PathKeeps DEF IInv
<1>7. CASE ReconstructTree
  <2>1. /\ pc = "path" /\ AtTop /\ pc' = "pos" /\ UNCHANGED <<shape, signerVars>>
    BY <1>7 DEF ReconstructTree
  <2>2. FloorInv' /\ DoneInv'
    BY <2>1 DEF FloorInv, DoneInv
  <2> QED BY <1>1, <1>7, <2>1, <2>2, VerifierKeeps, ReconstructKeeps DEF IInv
<1>8. CASE IndexStep
  <2>1. /\ pc = "pos" /\ pc' = "pos" /\ UNCHANGED <<shape, signerVars>>
    BY <1>8 DEF IndexStep
  <2>2. FloorInv' /\ DoneInv'
    BY <2>1 DEF FloorInv, DoneInv
  <2> QED BY <1>1, <1>8, <2>1, <2>2, VerifierKeeps, IndexKeeps DEF IInv
<1>9. CASE DepthOne \/ FloorDone
  <2>1. /\ pc \in {"pos", "floor"} /\ pc' \in {"floor", "done"}
        /\ UNCHANGED <<shape, signerVars>>
    BY <1>9 DEF DepthOne, FloorDone, Enter
  <2> QED BY <1>1, <1>9, <2>1, VerifierKeeps, DepthOneKeeps, FloorDoneKeeps DEF IInv
<1>10. CASE FloorNodes
  <2>1. /\ pc = "floor" /\ pc' = "floor" /\ UNCHANGED <<shape, signerVars>>
    BY <1>10 DEF FloorNodes
  <2> QED BY <1>1, <1>10, <2>1, VerifierKeeps, FloorNodesKeeps DEF IInv
<1>11. CASE UNCHANGED vars
  <2>1. /\ pc' = pc /\ layout' = layout /\ height' = height /\ nbLeaves' = nbLeaves
        /\ next' = next /\ nodes' = nodes /\ hidden' = hidden /\ path' = path
        /\ node' = node /\ pos' = pos /\ depth' = depth /\ rebuilt' = rebuilt
    BY <1>11 DEF vars, shape, signerVars
  <2>2. ShapeInv' /\ NodesInv'
    BY <1>1, <2>1 DEF ShapeInv, Accepted, NodesInv, Derived, NbNodes
  <2>3. PathInv' /\ PosInv'
    BY <1>1, <2>1 DEF PathInv, PosInv, IsHidden, Leaves, PathSize, SmallPath, HiddenNode,
                      FirstLeaf, Anc, Revealed, IsRight, U16, NbNodes, Junk
  <2>4. FloorInv' /\ DoneInv'
    BY <1>1, <2>1 DEF FloorInv, DoneInv, RightAbove, Right, Hidden, OnPath, IsUnknown, PathSize,
                      HiddenNode, FirstLeaf, Anc, NbNodes, End, Junk
  <2> QED BY <2>2, <2>3, <2>4 DEF IInv
<1> QED BY <1>2, <1>3, <1>4, <1>5, <1>6, <1>7, <1>8, <1>9, <1>10, <1>11
        DEF Next, Sign, Verify, Stopped

LEMMA Invariance == Spec => []IInv
BY InitInv, NextInv, PTL DEF Spec

-----------------------------------------------------------------------------
(* Types. *)

TypeRest ==
  /\ hidden \in Leaves /\ next \in Nat /\ node \in Nat /\ depth \in 0..height
  /\ pc \in {"malloc", "refused", "expand"} => path = <<>>
  /\ pc \in {"malloc", "refused", "expand", "path"} => pos = <<>>

LEMMA TypeRestKept == IInv /\ TypeRest /\ [Next]_vars => TypeRest'
<1> SUFFICES ASSUME IInv, TypeRest, Next PROVE TypeRest'
  BY DEF TypeRest, Leaves, vars, shape, signerVars
<1>1. /\ height \in 2..UintBits /\ UintBits \in Nat /\ nbLeaves \in Nat /\ nbLeaves >= 4
      /\ ShapeInv
  BY Sizes DEF IInv
<1>2. ASSUME Accepted
      PROVE  /\ FirstLeaf \in Nat /\ SmallPath \in {0, 1}
             /\ (IsHidden => HiddenNode \in Nat)
  BY <1>1, <1>2, Floors DEF SmallPath, IsHidden, HiddenNode, Leaves
<1>3. ASSUME NEW n \in Nat PROVE Parent(n) \in Nat
  BY Halves DEF Parent
<1>4. CASE MallocSeedTree \/ RefuseSeedTree
  BY <1>4 DEF MallocSeedTree, RefuseSeedTree, TypeRest, Leaves, shape, signerVars
<1>5. CASE ExpandNodes \/ FloorNodes
  <2>1. /\ UNCHANGED <<pc, shape, hidden, path, node, pos, depth>>
    BY <1>5 DEF ExpandNodes, FloorNodes, signerVars
  <2>2. next' \in {next + 1, next + 4}
    BY <1>5 DEF ExpandNodes, FloorNodes, Advance
  <2>3. next' \in Nat
    BY <2>2 DEF TypeRest
  <2> QED BY <2>1, <2>3 DEF TypeRest, Leaves, shape
<1>6. CASE Challenge
  <2>1. Accepted /\ hidden' \in Leaves /\ node' = hidden' + FirstLeaf
    BY <1>6 DEF Challenge, IInv, ShapeInv, Leaves
  <2>2. node' \in Nat
    BY <1>1, <1>2, <2>1 DEF Leaves
  <2> QED BY <1>6, <2>1, <2>2 DEF Challenge, TypeRest, Leaves, shape
<1>7. CASE PathStep \/ IndexStep
  <2>1. /\ UNCHANGED <<pc, shape, hidden, depth>> /\ pc \in {"path", "pos"}
        /\ node' = Parent(node) /\ next' \in {next, next + 1} /\ (pc = "path" => pos' = pos)
    BY <1>7 DEF PathStep, IndexStep, signerVars
  <2>2. next' \in Nat /\ node' \in Nat
    BY <1>3, <2>1 DEF TypeRest
  <2> QED BY <2>1, <2>2 DEF TypeRest, Leaves, shape
<1>8. CASE ReconstructTree
  <2>1. Accepted /\ IsHidden
    BY <1>8 DEF ReconstructTree, IInv, ShapeInv, PathInv
  <2>2. next' \in Nat /\ node' \in Nat
    BY <1>2, <1>8, <2>1 DEF ReconstructTree
  <2> QED BY <1>8, <2>2 DEF ReconstructTree, TypeRest, Leaves, shape, signerVars
<1>9. CASE DepthOne \/ FloorDone
  <2>1. PICK d \in 2..height : /\ UNCHANGED <<shape, signerVars, pos>> /\ node' = node
                               /\ pc' \in {"floor", "done"} /\ depth' = d
                               /\ next' \in {next, 2^d}
    <3>1. CASE DepthOne
      <4>1. 2 \in 2..height /\ UNCHANGED <<shape, signerVars, pos>> /\ node' = node
        BY <1>1, <3>1 DEF DepthOne
      <4> QED BY <3>1, <4>1 DEF DepthOne, Enter, FloorStart
    <3>2. CASE FloorDone
      <4>1. depth \in 2..(height - 1)
        BY <3>2 DEF FloorDone, IInv, FloorInv
      <4>2. depth + 1 \in 2..height /\ UNCHANGED <<shape, signerVars, pos>> /\ node' = node
        BY <1>1, <3>2, <4>1 DEF FloorDone
      <4> QED BY <3>2, <4>2 DEF FloorDone, Enter, FloorStart
    <3> QED BY <1>9, <3>1, <3>2
  <2>2. next' \in Nat
    <3>1. 2^d \in Nat
      BY <1>1, <2>1, Powers, d \in 0..UintBits
    <3> QED BY <2>1, <3>1 DEF TypeRest
  <2> QED BY <1>1, <2>1, <2>2 DEF TypeRest, Leaves, shape, signerVars
<1>10. CASE Stopped
  BY <1>10 DEF Stopped, TypeRest, Leaves, vars, shape, signerVars
<1> QED BY <1>4, <1>5, <1>6, <1>7, <1>8, <1>9, <1>10 DEF Next, Sign, Verify

\* The type invariant: pos and the path have at most one entry per depth, pos holds
\* nodes of the tree, and no loop writes outside of the slabs of the two trees.
THEOREM Typing == Spec => []TypeOK
<1>1. Init => TypeRest
  <2> SUFFICES ASSUME Init PROVE TypeRest
    OBVIOUS
  <2>1. height \in Nat /\ nbLeaves \in Nat /\ nbLeaves >= 4
    BY InitInv, Sizes, ShapesAssumption DEF IInv
  <2> QED BY <2>1 DEF Init, TypeRest, Leaves
<1>2. IInv /\ TypeRest => TypeOK
  <2> SUFFICES ASSUME IInv, TypeRest PROVE TypeOK
    OBVIOUS
  <2>1. height \in 2..UintBits /\ UintBits \in Nat /\ nbLeaves \in Nat
    BY Sizes DEF IInv
  <2>2. height \in Nat
    BY <2>1
  <2>3. Len(path) <= height
    <3>1. CASE pc \in {"malloc", "refused", "expand"}
      BY <2>2, <3>1 DEF TypeRest
    <3>2. CASE pc \notin {"malloc", "refused", "expand"}
      <4>1. Accepted /\ IsHidden /\ Len(path) \in 0..PathSize
        BY <3>2 DEF IInv, ShapeInv, PathInv
      <4>2. PathSize \in 1..height
        BY <4>1, HiddenPath DEF IInv
      <4> QED BY <2>2, <4>1, <4>2
    <3> QED BY <3>1, <3>2
  <2>4. \A d \in DOMAIN pos : pos[d] \in 0..NbNodes
    <3>1. CASE pc \in {"pos", "floor", "done"}
      BY <3>1 DEF IInv, PosInv
    <3>2. CASE pc \notin {"pos", "floor", "done"}
      <4>1. pos = <<>>
        BY <3>2 DEF IInv, ShapeInv, TypeRest
      <4> QED BY <4>1
    <3> QED BY <3>1, <3>2
  <2>5. pc \notin {"malloc", "refused"} => DOMAIN nodes = 1..NbNodes
    BY DEF IInv, ShapeInv, NodesInv, Derived
  <2>6. pc \in {"pos", "floor", "done"} => DOMAIN rebuilt = 1..NbNodes
    BY DEF IInv, PosInv, FloorInv, DoneInv
  <2> QED BY <2>1, <2>2, <2>3, <2>4, <2>5, <2>6 DEF TypeOK, TypeRest, IInv, ShapeInv
<1> QED BY <1>1, <1>2, TypeRestKept, Invariance, PTL DEF Spec

-----------------------------------------------------------------------------
(* What the signer reveals. *)

\* expand_seed_tree derives every node from its parent, whatever the number of leaves:
\* the groups of four read only seeds that are written, and leave no node out.
THEOREM ExpandsAll == Spec => []FullyExpanded
<1>1. IInv => FullyExpanded
  BY DEF IInv, ShapeInv, NodesInv, Derived, FullyExpanded
<1> QED BY <1>1, Invariance, PTL

\* get_seed_path writes the number of seeds that get_seed_path_size announces to the
\* parser from the hidden leaf alone.
THEOREM AnnouncesSize == Spec => []SizeAnnounced
<1>1. IInv => SizeAnnounced
  BY DEF IInv, PathInv, SizeAnnounced
<1> QED BY <1>1, Invariance, PTL

\* A leaf is on the hidden path only if it is the hidden one.
LEMMA HiddenLeaf ==
  ASSUME ShapeInv, Accepted, IsHidden, NEW l \in Leaves
  PROVE  nbLeaves + l \in 1..NbNodes /\ (OnPath(nbLeaves + l) <=> l = hidden)
<1>1. /\ nbLeaves \in Nat /\ nbLeaves >= 4 /\ FirstLeaf = nbLeaves /\ Anc(0) = HiddenNode
      /\ PathSize \in Nat /\ hidden \in Nat /\ l \in Nat
  BY Sizes, Floors, Ancestors, PathDescends DEF IsHidden, Leaves
<1>2. nbLeaves + l \in 1..NbNodes
  BY <1>1 DEF Leaves, NbNodes
<1>3. ASSUME OnPath(nbLeaves + l) PROVE l = hidden
  <2>1. PICK k \in 0..PathSize : nbLeaves + l = Anc(k)
    BY <1>3 DEF OnPath
  <2>2. k = 0
    <3> SUFFICES ASSUME k # 0 PROVE FALSE
      OBVIOUS
    <3>1. k - 1 \in 0..(PathSize - 1) /\ k - 1 \in 0..PathSize /\ (k - 1) + 1 = k
      BY <1>1
    <3>2. Anc(k) = Anc(k - 1) \div 2 /\ Anc(k - 1) \in 1..NbNodes
      BY <3>1, Ancestors
    <3>3. Anc(k) < nbLeaves
      BY <1>1, <3>2, Halves DEF NbNodes
    <3> QED BY <1>1, <2>1, <3>3
  <2> QED BY <1>1, <2>1, <2>2 DEF HiddenNode
<1>4. ASSUME l = hidden PROVE OnPath(nbLeaves + l)
  <2>1. nbLeaves + l = Anc(0) /\ 0 \in 0..PathSize
    BY <1>1, <1>4 DEF HiddenNode
  <2> QED BY <2>1 DEF OnPath
<1> QED BY <1>2, <1>3, <1>4

\* The verifier has the seeds of all parties when reconstruct_tree returns, but the
\* seed of the hidden one.
THEOREM RebuildsAllButHidden == Spec => []AllButHidden
<1>1. IInv => AllButHidden
  <2> SUFFICES ASSUME IInv, pc = "done", NEW l \in Leaves
               PROVE  DOMAIN rebuilt = 1..NbNodes
                      /\ (LeafSeed(rebuilt, l) = LeafSeed(nodes, l) <=> l # hidden)
    <3>1. pc = "done" /\ IInv => DOMAIN rebuilt = 1..NbNodes
      BY DEF IInv, DoneInv
    <3> QED BY <3>1 DEF AllButHidden
  <2> DEFINE i == nbLeaves + l
  <2>1. /\ Derived(NbNodes) /\ DOMAIN rebuilt = 1..NbNodes
        /\ \A j \in 1..NbNodes : Right(rebuilt, j)
        /\ i \in 1..NbNodes /\ (OnPath(i) <=> l = hidden)
    BY HiddenLeaf DEF IInv, ShapeInv, NodesInv, PathInv, DoneInv
  <2> HIDE DEF i
  <2>2. nodes[i][1] = 1
    BY <2>1 DEF Derived, IsSeedOf
  <2>3. l = hidden => rebuilt[i][1] = 0
    BY <2>1 DEF Right, IsUnknown
  <2>4. l # hidden => rebuilt[i] = nodes[i]
    BY <2>1 DEF Right
  <2>5. rebuilt[i] = nodes[i] <=> l # hidden
    BY <2>2, <2>3, <2>4
  <2> QED BY <2>1, <2>5 DEF LeafSeed, i
<1> QED BY <1>1, Invariance, PTL

\* No step of reconstruct_tree replaces a genuine seed, in spite of the floors being
\* expanded whole, unknown nodes included.
THEOREM LosesNothing == Spec => NothingLost
<1>1. IInv /\ [Next]_vars => [Rebuilding => Genuine \subseteq Genuine']_vars
  <2> SUFFICES ASSUME IInv, Next, Rebuilding, NEW i \in Genuine PROVE i \in Genuine'
    OBVIOUS
  <2>1. /\ ShapeInv /\ PathInv /\ PosInv /\ FloorInv /\ pc \in {"pos", "floor"}
        /\ Derived(NbNodes) /\ Accepted /\ IsHidden
    BY DEF IInv, Rebuilding, NodesInv, ShapeInv, PathInv
  <2>2. /\ i \in 1..NbNodes /\ i \in DOMAIN rebuilt /\ rebuilt[i] = nodes[i]
        /\ rebuilt[i][1] = 1
    BY <2>1 DEF Genuine, Derived, IsSeedOf
  <2>3. rebuilt[i] # Junk
    BY <2>2 DEF Junk
  <2>4. pc = "floor"
    <3> SUFFICES ASSUME pc = "pos" PROVE FALSE
      BY <2>1
    <3> QED BY <2>1, <2>2, <2>3 DEF PosInv
  <2>5. nbLeaves \in Nat /\ i \in Nat
    BY <2>1, <2>2, Sizes DEF NbNodes
  <2>6. CASE FloorNodes
    <3>1. /\ nodes' = nodes /\ rebuilt' = Expanded(rebuilt, Four(next, End))
          /\ next \in Nat /\ i \in 1..(2 * next - 1)
      <4>1. /\ nodes' = nodes /\ rebuilt' = Expanded(rebuilt, Four(next, End))
        BY <2>6 DEF FloorNodes, signerVars
      <4>2. next \in 2^depth..End /\ depth \in 2..(height - 1)
            /\ \A j \in (2 * next)..NbNodes : rebuilt[j] = Junk
        BY <2>1, <2>4 DEF FloorInv
      <4>3. next \in Nat
        <5>1. height < UintBits /\ UintBits \in Nat /\ height \in Nat
          BY <2>1, Floors, Sizes
        <5>2. 2^depth \in Nat
          BY <4>2, <5>1, Powers
        <5> QED BY <4>2, <5>2
      <4>4. ~(i \in (2 * next)..NbNodes)
        BY <2>3, <4>2
      <4> QED BY <2>2, <2>5, <4>1, <4>3, <4>4 DEF NbNodes
    <3>2. i \div 2 \notin Four(next, End)
      BY <2>5, <3>1, Halves DEF Four
    <3>3. i \in DOMAIN rebuilt' /\ rebuilt'[i] = rebuilt[i]
      BY <2>2, <3>1, <3>2 DEF Expanded
    <3> QED BY <2>2, <3>1, <3>3 DEF Genuine
  <2>7. CASE FloorDone
    <3> DEFINE d == depth + 1
    <3>1. nodes' = nodes /\ Enter(d, rebuilt)
      BY <2>7 DEF FloorDone, signerVars
    <3>2. /\ height \in Nat /\ d \in 1..height /\ PathSize \in 1..height
          /\ SmallPath \in {0, 1} /\ PathSize = height - SmallPath
      <4>1. depth \in 2..(height - 1)
        BY <2>1, <2>4 DEF FloorInv
      <4>2. /\ height \in 2..UintBits /\ UintBits \in Nat /\ PathSize \in 1..height
            /\ SmallPath \in {0, 1} /\ PathSize = height - SmallPath
        BY <2>1, Sizes, HiddenPath
      <4> QED BY <4>1, <4>2
    <3>3. rebuilt' = rebuilt \/ (d <= PathSize /\ rebuilt' = Put(rebuilt, pos[d - 1], Given(d)))
      <4>1. CASE d < height
        BY <3>1, <3>2, <4>1 DEF Enter
      <4>2. CASE d = height
        <5>1. SmallPath = 0 => Given(d) = path[1]
          <6>1. SmallPath = 0 => height - d - SmallPath + 1 = 1
            BY <3>2, <4>2
          <6> QED BY <6>1 DEF Given
        <5> QED BY <3>1, <3>2, <4>2, <5>1 DEF Enter
      <4> QED BY <3>2, <4>1, <4>2
    <3> HIDE DEF d
    <3>4. CASE rebuilt' = rebuilt
      BY <3>1, <3>4, <2>2 DEF Genuine
    <3>5. CASE d <= PathSize /\ rebuilt' = Put(rebuilt, pos[d - 1], Given(d))
      <4>1. Given(d) = nodes[pos[d - 1]]
        BY <2>1, <2>4, <3>2, <3>5, GivenSeeds
      <4>2. rebuilt' = [rebuilt EXCEPT ![pos[d - 1]] = nodes[pos[d - 1]]]
        BY <3>5, <4>1 DEF Put
      <4> QED BY <2>2, <3>1, <4>2 DEF Genuine
    <3> QED BY <3>3, <3>4, <3>5
  <2> QED BY <2>4, <2>6, <2>7
          DEF Next, Sign, Verify, Stopped, Returned, MallocSeedTree, RefuseSeedTree, ExpandNodes,
              Challenge, PathStep, ReconstructTree, IndexStep, DepthOne
<1> QED BY <1>1, Invariance, PTL DEF Spec, NothingLost
-----------------------------------------------------------------------------
(* What the path gives. *)

\* The seeds a node is derived from are its own and those its parent is derived from.
LEMMA DerivesThrough ==
  ASSUME ShapeInv, Derived(NbNodes), NEW a \in 1..NbNodes, NEW b \in 2..NbNodes
  PROVE  Derives(nodes[a], nodes[b]) <=> (a = b \/ Derives(nodes[a], nodes[b \div 2]))
<1> DEFINE s == nodes[a]
           t == nodes[b \div 2]
<1>1. nbLeaves \in Nat /\ b \in 1..NbNodes /\ b \div 2 \in 1..NbNodes /\ b \in Nat
      /\ 2 * nbLeaves <= 2^UintBits /\ 2^UintBits \in Nat
  BY Sizes, Powers, Halves DEF NbNodes
<1>2. /\ s \in Seq(Nat) /\ Len(s) \in Nat /\ Len(s) >= 1 /\ s[Len(s)] = a
      /\ t \in Seq(Nat) /\ Len(t) \in Nat /\ nodes[b] = Child(t, b \div 2, b % 2)
      /\ nodes[b][Len(nodes[b])] = b
  <2>1. IsSeedOf(s, a) /\ IsSeedOf(t, b \div 2) /\ IsSeedOf(nodes[b], b)
    BY <1>1 DEF Derived
  <2>2. nodes[b] = Child(t, b \div 2, b % 2)
    BY DEF Derived
  <2> HIDE DEF s, t
  <2> QED BY <2>1, <2>2 DEF IsSeedOf
<1>3. nodes[b] = Append(t, b)
  <2>1. U16(b \div 2) = b \div 2
    BY <1>1, Narrow DEF NbNodes
  <2>2. b = 2 * (b \div 2) + (b % 2)
    BY <1>1, Halves
  <2> QED BY <1>2, <2>1, <2>2 DEF Child
<1> DEFINE v == Append(t, b)
<1> HIDE DEF s, t
<1>4. v \in Seq(Nat) /\ Len(v) = Len(t) + 1
  BY <1>1, <1>2
<1>5. nodes[b] = v /\ v[Len(v)] = b
  BY <1>2, <1>3
<1>6. s = v <=> a = b
  <2>1. a = b => s = v
    BY <1>5 DEF s
  <2> HIDE DEF v
  <2> QED BY <1>2, <1>5, <2>1
<1>7. CASE Len(s) <= Len(t)
  <2>1. SubSeq(v, 1, Len(s)) = SubSeq(t, 1, Len(s))
    BY <1>1, <1>2, <1>7
  <2> HIDE DEF v
  <2>2. s # v /\ Len(s) <= Len(v)
    <3>1. Len(s) < Len(v)
      BY <1>2, <1>4, <1>7
    <3>2. Len(s) # Len(v) /\ Len(s) <= Len(v)
      BY <1>2, <1>4, <3>1
    <3> QED BY <3>2
  <2>3. Derives(s, v) <=> Derives(s, t)
    BY <1>7, <2>1, <2>2, Zenon DEF Derives
  <2> QED BY <1>5, <1>6, <2>2, <2>3 DEF s, t
<1> HIDE DEF v
<1>8. CASE Len(s) = Len(t) + 1
  <2>1. Len(s) = Len(v) /\ SubSeq(v, 1, Len(v)) = v
    BY <1>4, <1>8, SubSeqFull
  <2>2. Derives(s, v) <=> s = v
    <3>1. SubSeq(v, 1, Len(s)) = v
      BY <2>1
    <3>2. Len(s) <= Len(v)
      BY <1>2, <2>1
    <3> QED BY <3>1, <3>2, Zenon DEF Derives
  <2>3. ~Derives(s, t)
    BY <1>2, <1>8 DEF Derives
  <2> QED BY <1>5, <1>6, <2>2, <2>3 DEF s, t
<1>9. CASE Len(s) > Len(t) + 1
  <2>1. ~Derives(s, t) /\ ~Derives(s, v) /\ s # v
    BY <1>2, <1>4, <1>9, SMTT(30) DEF Derives
  <2> QED BY <1>5, <1>6, <2>1 DEF s, t
<1> QED BY <1>2, <1>7, <1>8, <1>9

\* The node that the k-th seed of the path is the seed of.
Giver(k) == Revealed(Anc(k - 1))

\* Each node that is not on the hidden path is below exactly one node of the path, and
\* each node that is on it is below none.
Covered(b) ==
  IF OnPath(b) THEN \A k \in 1..PathSize : ~Derives(nodes[Giver(k)], nodes[b])
  ELSE \E j \in 1..PathSize :
         \A k \in 1..PathSize : Derives(nodes[Giver(k)], nodes[b]) <=> k = j

LEMMA Givers ==
  ASSUME ShapeInv, Accepted, IsHidden, NEW k \in 1..PathSize
  PROVE  /\ Giver(k) \in 2..NbNodes /\ ~OnPath(Giver(k)) /\ OnPath(Giver(k) \div 2)
         /\ \A j \in 1..PathSize : Giver(j) = Giver(k) => j = k
<1>1. PathSize \in Nat
  BY PathDescends
<1>2. ASSUME NEW j \in 1..PathSize
      PROVE  Giver(j) \in 2..NbNodes /\ ~OnPath(Giver(j)) /\ Giver(j) \div 2 = Anc(j)
  <2>1. j - 1 \in 0..(PathSize - 1) /\ (j - 1) + 1 = j
    BY <1>1
  <2>2. Anc(j - 1) \in 2..NbNodes /\ Anc(j) = Anc(j - 1) \div 2
    BY <2>1, PathDescends, Ancestors
  <2> QED BY <2>1, <2>2, Siblings, PathParents DEF Giver
<1>3. OnPath(Giver(k) \div 2)
  BY <1>1, <1>2 DEF OnPath
<1>4. ASSUME NEW j \in 1..PathSize, Giver(j) = Giver(k) PROVE j = k
  <2>1. Anc(j) = Anc(k) /\ j \in 0..PathSize /\ k \in 0..PathSize
    BY <1>1, <1>2, <1>4
  <2> QED BY <2>1, PathDescends
<1> QED BY <1>2, <1>3, <1>4

LEMMA CoversRoot ==
  ASSUME ShapeInv, Accepted, IsHidden, Derived(NbNodes)
  PROVE  Covered(1)
<1>1. OnPath(1) /\ nbLeaves \in Nat /\ nbLeaves >= 4
  BY PathParents, Sizes
<1>2. ASSUME NEW k \in 1..PathSize, Derives(nodes[Giver(k)], nodes[1]) PROVE FALSE
  <2> DEFINE g == Giver(k)
             s == nodes[g]
             t == nodes[1]
  <2>1. g \in 2..NbNodes /\ g \in 1..NbNodes /\ 1 \in 1..NbNodes
    BY <1>1, Givers DEF NbNodes
  <2>2. IsSeedOf(s, g) /\ IsSeedOf(t, 1) /\ t = RootSeed
    BY <2>1 DEF Derived
  <2> HIDE DEF g, s, t
  <2>3. Len(s) \in Nat /\ Len(s) >= 1 /\ s[1] = 1 /\ s[Len(s)] = g /\ g # 1
    BY <1>1, <2>1, <2>2 DEF IsSeedOf, NbNodes
  <2>4. Len(s) <= 1
    BY <1>2, <2>2 DEF Derives, RootSeed, s, t, g
  <2>5. Len(s) = 1
    BY <2>3, <2>4
  <2> QED BY <2>3, <2>5
<1> QED BY <1>1, <1>2 DEF Covered

LEMMA CoversChild ==
  ASSUME ShapeInv, Accepted, IsHidden, Derived(NbNodes), NEW b \in 2..NbNodes, Covered(b \div 2)
  PROVE  Covered(b)
<1> DEFINE p == b \div 2
<1>1. /\ nbLeaves \in Nat /\ PathSize \in Nat /\ Anc(0) = HiddenNode
      /\ HiddenNode \in nbLeaves..NbNodes
  BY Sizes, PathDescends, Ancestors, HiddenPath
<1>2. b \in Nat /\ p \in 1..NbNodes /\ p < nbLeaves
  BY <1>1, Halves DEF NbNodes
<1>3. ASSUME NEW k \in 1..PathSize
      PROVE  /\ Derives(nodes[Giver(k)], nodes[b])
                  <=> (Giver(k) = b \/ Derives(nodes[Giver(k)], nodes[p]))
             /\ ~OnPath(Giver(k)) /\ OnPath(Giver(k) \div 2)
  <2>1. Giver(k) \in 2..NbNodes /\ Giver(k) \in 1..NbNodes
    BY <1>1, Givers DEF NbNodes
  <2> QED BY <2>1, DerivesThrough, Givers
<1>4. CASE OnPath(b)
  <2>1. OnPath(p)
    BY <1>4, PathParents
  <2>2. ASSUME NEW k \in 1..PathSize PROVE ~Derives(nodes[Giver(k)], nodes[b])
    <3>1. ~Derives(nodes[Giver(k)], nodes[p])
      BY <2>1 DEF Covered
    <3>2. Giver(k) # b
      BY <1>3, <1>4
    <3> QED BY <1>3, <3>1, <3>2
  <2> QED BY <1>4, <2>2 DEF Covered
<1>5. CASE ~OnPath(b) /\ OnPath(p)
  <2>1. PICK j \in 0..PathSize : p = Anc(j)
    BY <1>5 DEF OnPath
  <2>2. j # 0
    BY <1>1, <1>2, <2>1
  <2>3. j \in 1..PathSize /\ j - 1 \in 0..(PathSize - 1) /\ j - 1 \in 0..PathSize
        /\ (j - 1) + 1 = j
    BY <1>1, <2>1, <2>2
  <2>4. Anc(j - 1) \in 2..NbNodes /\ Anc(j) = Anc(j - 1) \div 2
    BY <2>3, PathDescends, Ancestors
  <2>5. b # Anc(j - 1)
    BY <1>5, <2>3 DEF OnPath
  <2>6. b = Giver(j)
    BY <1>2, <2>1, <2>4, <2>5, Siblings DEF Giver
  <2>7. ASSUME NEW k \in 1..PathSize PROVE Derives(nodes[Giver(k)], nodes[b]) <=> k = j
    <3>1. ~Derives(nodes[Giver(k)], nodes[p])
      BY <1>5 DEF Covered
    <3>2. Giver(k) = b <=> k = j
      BY <2>3, <2>6, Givers
    <3> QED BY <1>3, <3>1, <3>2
  <2> QED BY <1>5, <2>3, <2>7 DEF Covered
<1>6. CASE ~OnPath(b) /\ ~OnPath(p)
  <2>1. PICK j \in 1..PathSize :
          \A k \in 1..PathSize : Derives(nodes[Giver(k)], nodes[p]) <=> k = j
    BY <1>6 DEF Covered
  <2>2. ASSUME NEW k \in 1..PathSize PROVE Derives(nodes[Giver(k)], nodes[b]) <=> k = j
    <3>1. Giver(k) # b
      BY <1>3, <1>6
    <3> QED BY <1>3, <2>1, <3>1
  <2> QED BY <1>6, <2>1, <2>2 DEF Covered
<1>7. OnPath(b) => OnPath(p)
  BY PathParents
<1> QED BY <1>4, <1>5, <1>6, <1>7

LEMMA CoversAll ==
  ASSUME ShapeInv, Accepted, IsHidden, Derived(NbNodes), NEW b \in 1..NbNodes
  PROVE  Covered(b)
<1> DEFINE T == {c \in 1..NbNodes : ~Covered(c)}
<1>1. nbLeaves \in Nat /\ nbLeaves >= 4 /\ T \subseteq Nat
  BY Sizes DEF NbNodes
<1>2. ASSUME T # {} PROVE FALSE
  <2>1. PICK c \in T : \A e \in T : c <= e
    BY <1>1, <1>2, Least
  <2>2. c \in 1..NbNodes /\ c \in Nat /\ ~Covered(c)
    BY <1>1, <2>1
  <2>3. CASE c = 1
    BY <2>2, <2>3, CoversRoot
  <2>4. CASE c # 1
    <3>1. /\ c \in 2..NbNodes /\ c \div 2 \in 1..NbNodes /\ c \div 2 \in Nat
          /\ c \div 2 < c
      BY <1>1, <2>2, <2>4, Halves DEF NbNodes
    <3>2. ~(c <= c \div 2)
      BY <2>2, <3>1
    <3>3. Covered(c \div 2)
      BY <2>1, <3>1, <3>2
    <3> QED BY <2>2, <3>1, <3>3, CoversChild
  <2> QED BY <2>3, <2>4
<1> QED BY <1>2

\* The path is what the verifier may know, exactly: the seed of each party but the
\* hidden one is derived from one seed of the path and no more, and the seed of the
\* hidden one from none.
THEOREM PartitionsLeaves == Spec => []PathPartition
<1>1. IInv => PathPartition
  <2> SUFFICES ASSUME IInv, pc \in {"pos", "floor", "done"}, NEW l \in Leaves
               PROVE  LET sources == {k \in 1..Len(path) : Derives(path[k], LeafSeed(nodes, l))}
                      IN  IF l = hidden THEN sources = {}
                          ELSE \E k \in 1..Len(path) : sources = {k}
    BY DEF PathPartition
  <2> DEFINE b == nbLeaves + l
             sources == {k \in 1..Len(path) : Derives(path[k], LeafSeed(nodes, l))}
  <2>1. /\ ShapeInv /\ Accepted /\ IsHidden /\ Derived(NbNodes) /\ Len(path) = PathSize
        /\ \A k \in 1..PathSize : path[k] = nodes[Giver(k)]
    BY DEF IInv, ShapeInv, NodesInv, PathInv, Giver
  <2>2. b \in 1..NbNodes /\ (OnPath(b) <=> l = hidden) /\ LeafSeed(nodes, l) = nodes[b]
    BY <2>1, HiddenLeaf DEF LeafSeed
  <2>3. sources = {k \in 1..PathSize : Derives(nodes[Giver(k)], nodes[b])}
    BY <2>1, <2>2
  <2>4. Covered(b)
    BY <2>1, <2>2, CoversAll
  <2> HIDE DEF sources, b
  <2>5. CASE l = hidden
    <3>1. sources = {}
      BY <2>2, <2>3, <2>4, <2>5 DEF Covered
    <3> QED BY <2>5, <3>1 DEF sources
  <2>6. CASE l # hidden
    <3>1. PICK j \in 1..PathSize :
            \A k \in 1..PathSize : Derives(nodes[Giver(k)], nodes[b]) <=> k = j
      BY <2>2, <2>4, <2>6 DEF Covered
    <3>2. sources = {j}
      BY <2>3, <3>1
    <3> QED BY <2>1, <2>6, <3>2 DEF sources
  <2> QED BY <2>5, <2>6
<1> QED BY <1>1, Invariance, PTL
=============================================================================
