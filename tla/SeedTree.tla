------------------------------- MODULE SeedTree -------------------------------
(***************************************************************************)
(* The trees of seeds of core/trees/seeds: the signer expands a root seed  *)
(* into one seed per party, reveals the seeds of all parties but a hidden  *)
(* one by a path of siblings, and the verifier rebuilds the others from    *)
(* the path.                                                               *)
(*                                                                         *)
(* Two sources implement the same header: "default", which the makefiles   *)
(* link, takes any number of leaves, stored after the internal nodes (the  *)
(* leaf i is node nbLeaves + i, so the leaves are on two floors when their *)
(* number is not a power of two); "perfect", which a build can link in its *)
(* place, takes 2^height leaves.                                           *)
(*                                                                         *)
(* Nodes 2p and 2p+1 are the two halves of the hash of p and of the seed   *)
(* of p.  A seed is the sequence of the nodes it was derived through: who  *)
(* has a seed can derive the seeds it is a prefix of, and no other.  The   *)
(* salt is common to all hashes and is left out.                           *)
(***************************************************************************)
EXTENDS Integers, Sequences

CONSTANTS
  UintBits, \* width of uint16_t
  Shapes    \* pairs <<height, number of leaves>>: PARAM_LOG_NB_PARTIES and
            \* PARAM_NB_PARTIES of a parameter set

\* reconstruct_tree expands the node of depth 1 of the path unconditionally, which
\* needs four leaves; the nodes are numbered on two bytes, and malloc_seed_tree
\* refuses a greater height for so few leaves.
ASSUME ShapesAssumption ==
  /\ UintBits \in Nat \ {0}
  /\ \A sh \in Shapes : sh \in (2..UintBits) \X (4..2^(UintBits - 1))

\* What the proofs use of the powers of two; the provers know nothing about ^.
ASSUME PowersOfTwo ==
  /\ 2^0 = 1 /\ 2^1 = 2
  /\ \A d \in 0..UintBits :
        /\ 2^d \in Nat \ {0} /\ 2^(d+1) = 2 * 2^d
        /\ \A e \in 0..d : 2^e * 2^(d - e) = 2^d

VARIABLES
  pc,
  layout,            \* the source that is linked
  height, nbLeaves,  \* the fields of seed_tree_t
  next,              \* i, the loop counter of expand_seed_tree and reconstruct_tree
  nodes,             \* the signer's seeds
  hidden,            \* hidden_leaf
  node,              \* hidden_node, walking to the root
  path,              \* the output of get_seed_path
  pos, depth,        \* pos[] and depth of reconstruct_tree
  rebuilt            \* the verifier's seeds

shape      == <<layout, height, nbLeaves>>
signerVars == <<nodes, hidden, path>>
vars == <<pc, shape, next, signerVars, node, pos, depth, rebuilt>>

U16(x) == x % 2^UintBits

NbNodes   == 2 * nbLeaves - 1
FirstLeaf == IF layout = "perfect" THEN 2^height ELSE nbLeaves

Junk        == <<0>>  \* memory that was never written
RootSeed    == <<1>>
Child(s, i, side) == Append(s, 2 * U16(i) + side)

\* What expanding the nodes of the set p writes.  The seeds are read before any is
\* written, as a four-way hash does.
Expanded(tree, p) ==
  [i \in DOMAIN tree \cup {2*j : j \in p} \cup {2*j + 1 : j \in p} |->
     IF i \div 2 \in p THEN Child(tree[i \div 2], i \div 2, i % 2) ELSE tree[i]]

Put(tree, i, s) == [tree EXCEPT ![i] = s]

-----------------------------------------------------------------------------
(* malloc_seed_tree and expand_seed_tree. *)

Accepted ==
  IF layout = "perfect" THEN 2^height = nbLeaves
  ELSE (nbLeaves - 1) \div 2^(height - 1) # 0 /\ (nbLeaves - 1) \div 2^height = 0

Init ==
  /\ pc = "malloc"
  /\ layout \in {"default", "perfect"}
  /\ \E sh \in Shapes : height = sh[1] /\ nbLeaves = sh[2]
  /\ next = 0 /\ nodes = <<>> /\ hidden = 0 /\ node = 0 /\ path = <<>>
  /\ pos = <<>> /\ depth = 0 /\ rebuilt = <<>>

MallocSeedTree ==
  /\ pc = "malloc"
  /\ Accepted
  /\ nodes' = [i \in 1..NbNodes |-> IF i = 1 THEN RootSeed ELSE Junk]
  /\ next' = 1
  /\ pc' = "expand"
  /\ UNCHANGED <<shape, hidden, path, node, pos, depth, rebuilt>>

RefuseSeedTree ==
  /\ pc = "malloc"
  /\ ~Accepted
  /\ pc' = "refused"
  /\ UNCHANGED <<shape, next, signerVars, node, pos, depth, rebuilt>>

\* The nodes hashed together with node i of a run of nodes that ends before end.
Four(i, end) ==
  IF layout = "perfect" \/ i + 3 < end THEN i..(i + 3) ELSE {i}

\* The first three internal nodes are hashed one at a time: their children are in
\* the group of four they would be in.
GroupWithoutPrologue(i) == Four(i, FirstLeaf)
Group(i) == IF i <= 3 THEN {i} ELSE Four(i, FirstLeaf)

\* What a loop over nodes adds to its counter.
NotAdvanced(group) == IF group = {next} THEN 0 ELSE 4
Advance(group) == IF group = {next} THEN 1 ELSE 4

ExpandNodes ==
  /\ pc = "expand" /\ next < FirstLeaf
  /\ nodes' = Expanded(nodes, Group(next))
  /\ next' = next + Advance(Group(next))
  /\ UNCHANGED <<pc, shape, hidden, path, node, pos, depth, rebuilt>>

-----------------------------------------------------------------------------
(* get_seed_path and get_seed_path_size. *)

IsRight(n) == n % 2

\* revealed_seed, the sibling of hidden_node: & 0xFFFE truncates it.
RevealedItself(n) == U16(n)
Revealed(n) == U16(n) - IsRight(n) + (1 - IsRight(n))

Parent(n) == n \div 2

\* The view challenge has chosen the hidden party.
Challenge ==
  /\ pc = "expand" /\ next >= FirstLeaf
  /\ \E h \in 0..(nbLeaves - 1) : hidden' = h /\ node' = h + FirstLeaf
  /\ pc' = "path"
  /\ UNCHANGED <<shape, next, nodes, path, pos, depth, rebuilt>>

AtTop == IF layout = "perfect" THEN Len(path) = height ELSE node <= 1

PathStep ==
  /\ pc = "path" /\ ~AtTop
  /\ path' = Append(path, nodes[Revealed(node)])
  /\ node' = Parent(node)
  /\ UNCHANGED <<pc, shape, next, nodes, hidden, pos, depth, rebuilt>>

HiddenNode == hidden + FirstLeaf

PathSizeStrict ==
  IF layout = "perfect" \/ HiddenNode > 2^height THEN height ELSE height - 1
PathSize ==
  IF layout = "perfect" \/ HiddenNode >= 2^height THEN height ELSE height - 1

-----------------------------------------------------------------------------
(* reconstruct_tree. *)

\* is_small_path: the hidden leaf is on the upper of the two floors of leaves.
SmallPath == IF layout = "default" /\ HiddenNode < 2^height THEN 1 ELSE 0

\* The seed of the path for a depth, the last of the path being of depth 1.
Given(d) == path[height - d - SmallPath + 1]

ReconstructTree ==
  /\ pc = "path" /\ AtTop
  /\ rebuilt' = [i \in 1..NbNodes |-> Junk]
  /\ pos' = [d \in 0..(height - 1) |-> 0]
  /\ node' = HiddenNode
  /\ next' = SmallPath
  /\ pc' = "pos"
  /\ UNCHANGED <<shape, signerVars, depth>>

IndexStep ==
  /\ pc = "pos" /\ next < height
  /\ pos' = [pos EXCEPT ![height - next - 1] = Revealed(node)]
  /\ node' = Parent(node)
  /\ next' = next + 1
  /\ UNCHANGED <<pc, shape, signerVars, depth, rebuilt>>

\* The first node to hash of depth d.
FloorStartAbove(d) == 2^(d - 1)
FloorStart(d) == 2^d

\* The depth d becomes the current one: its seed of the path is written, and its
\* nodes are those to hash.
Enter(d, tree) ==
  /\ depth' = d
  /\ IF d < height
     THEN /\ rebuilt' = Put(tree, pos[d - 1], Given(d))
          /\ next' = FloorStart(d)
          /\ pc' = "floor"
     ELSE /\ rebuilt' = IF SmallPath = 0 THEN Put(tree, pos[d - 1], path[1]) ELSE tree
          /\ next' = next
          /\ pc' = "done"

DepthOne ==
  /\ pc = "pos" /\ next = height
  /\ Enter(2, Expanded(Put(rebuilt, pos[0], Given(1)), {pos[0]}))
  /\ UNCHANGED <<shape, signerVars, node, pos>>

\* The end of the nodes to hash of the current depth: the last depth with internal
\* nodes has leaves too, in the default layout.
EndWhole == 2^(depth + 1)
End == IF layout = "default" /\ depth = height - 1 THEN FirstLeaf ELSE 2^(depth + 1)

FloorNodes ==
  /\ pc = "floor" /\ next < End
  /\ rebuilt' = Expanded(rebuilt, Four(next, End))
  /\ next' = next + Advance(Four(next, End))
  /\ UNCHANGED <<pc, shape, signerVars, node, pos, depth>>

FloorDone ==
  /\ pc = "floor" /\ next >= End
  /\ Enter(depth + 1, rebuilt)
  /\ UNCHANGED <<shape, signerVars, node, pos>>

-----------------------------------------------------------------------------
Returned == pc \in {"done", "refused"}

\* The functions have returned: nothing more happens.
Stopped == Returned /\ UNCHANGED vars

Sign   == MallocSeedTree \/ RefuseSeedTree \/ ExpandNodes \/ Challenge \/ PathStep
Verify == ReconstructTree \/ IndexStep \/ DepthOne \/ FloorNodes \/ FloorDone
Next   == Sign \/ Verify \/ Stopped

Spec == Init /\ [][Next]_vars

\* The functions are loops of a single thread that nothing suspends.
FairSpec == Spec /\ WF_vars(Sign \/ Verify)

-----------------------------------------------------------------------------
(* Properties. *)

Leaves == 0..(nbLeaves - 1)
LeafSeed(tree, l) == tree[nbLeaves + l]  \* get_leaves

Derives(s, t) == Len(s) <= Len(t) /\ SubSeq(t, 1, Len(s)) = s

\* Type invariant.  Its last two conjuncts say that no loop writes outside of the
\* slabs, whose sizes are fixed by malloc_seed_tree.
TypeOK ==
  /\ pc \in {"malloc", "refused", "expand", "path", "pos", "floor", "done"}
  /\ layout \in {"default", "perfect"}
  /\ height \in Nat /\ nbLeaves \in Nat /\ hidden \in Leaves
  /\ next \in Nat /\ node \in Nat /\ depth \in 0..height
  /\ Len(path) <= height
  /\ \A d \in DOMAIN pos : pos[d] \in 0..NbNodes
  /\ pc \notin {"malloc", "refused"} => DOMAIN nodes = 1..NbNodes
  /\ pc \in {"pos", "floor", "done"} => DOMAIN rebuilt = 1..NbNodes

\* Once the tree is expanded, every node is derived from its parent: the groups of
\* four never read a seed that is not written yet, and leave none out.
FullyExpanded ==
  pc \notin {"malloc", "refused", "expand"} =>
    \A i \in 2..NbNodes : nodes[i] = Child(nodes[i \div 2], i \div 2, i % 2)

\* Each leaf but the hidden one is derived from exactly one seed of the path, the
\* hidden one from none: the path reveals all that it should and nothing more.
PathPartition ==
  pc \in {"pos", "floor", "done"} =>
    \A l \in Leaves :
      LET sources == {k \in 1..Len(path) : Derives(path[k], LeafSeed(nodes, l))}
      IN  IF l = hidden THEN sources = {}
          ELSE \E k \in 1..Len(path) : sources = {k}

\* The parser reads as many bytes as get_seed_path_size announces, from the hidden
\* leaf alone: it is what the signer wrote.
SizeAnnounced == pc \in {"pos", "floor", "done"} => Len(path) = PathSize

\* The verifier rebuilds the signer's seed of every party but the hidden one, and
\* that one not, in the nodes of the tree: the last floor stops at its last leaf.
AllButHidden ==
  pc = "done" =>
    /\ DOMAIN rebuilt = 1..NbNodes
    /\ \A l \in Leaves : LeafSeed(rebuilt, l) = LeafSeed(nodes, l) <=> l # hidden

\* A genuine seed is never overwritten while the floors below the hidden path are
\* filled with what is derived from unwritten memory.
Genuine == {i \in DOMAIN nodes \cap DOMAIN rebuilt : rebuilt[i] = nodes[i]}
Rebuilding == pc \in {"pos", "floor"}
NothingLost == [][Rebuilding => Genuine \subseteq Genuine']_vars

\* The functions return, whatever leaf is hidden.
Terminates == <>Returned
=============================================================================
