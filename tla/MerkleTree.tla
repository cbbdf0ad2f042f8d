------------------------------ MODULE MerkleTree ------------------------------
(***************************************************************************)
(* The Merkle tree of core/trees/hash/merkle-tree.c: how the signer builds *)
(* it over the commitments of the parties, how it opens a set of leaves,   *)
(* and how the verifier recomputes the root from the opened leaves and the *)
(* authentication nodes.                                                   *)
(*                                                                         *)
(* The nodes are numbered as in a binary heap: the root is node 1, the     *)
(* children of p are 2p and 2p+1, the leaves start at 2^height.  A floor   *)
(* is not always full: its last node may be isolated (it has no sibling),  *)
(* and its parent is then the hash of one child.                           *)
(*                                                                         *)
(* Opening and verifying run the same loop over a circular queue of        *)
(* capacity nbOpened, which initially holds the open leaves in increasing  *)
(* order.  One iteration of the loop is one action.                        *)
(*                                                                         *)
(* Hashing is a free constructor: two digests are equal exactly when they  *)
(* were computed from the same node index and the same children, which is  *)
(* what collision resistance gives.  The salt is common to all hashes and  *)
(* is left out.                                                            *)
(***************************************************************************)
EXTENDS Integers, Sequences, FiniteSets

CONSTANTS
  UintBits, \* width of uint16_t
  Shapes    \* pairs <<number of leaves, number of open leaves>>, both fixed
            \* at compile time by a parameter set (PARAM_NB_PARTIES and
            \* PARAM_NB_REVEALED)

MaxHeight == 16  \* of a tree whose number of leaves is a uint16_t

ASSUME UintBitsAssumption == UintBits \in 1..MaxHeight

ASSUME ShapesAssumption ==
  \A sh \in Shapes : /\ sh \in Nat \X Nat
                     /\ sh[1] \in 1..(2^UintBits - 1)
                     /\ sh[2] \in 1..sh[1]

\* What the proofs need to know of the shifts 1 << d.
ASSUME PowersOfTwo ==
  /\ 2^0 = 1 /\ 2^MaxHeight = 65536
  /\ \A d \in 0..MaxHeight : /\ 2^d \in Nat /\ 0 < 2^d /\ 2^d <= 65536
                             /\ 2^(d+1) = 2 * 2^d
                             /\ \A e \in 0..d : 2^e <= 2^d

VARIABLES
  pc,        \* where the run of the three functions is
  nbLeaves, nbOpened,
  height, nodes,            \* the fields of merkle_tree_t
  level,                    \* "h" of build_merkle_tree
  leaves,                   \* leaves_indexes, the leaves that are open
  first, last,              \* first_index and last_index: the current floor
  slots, start, stop,       \* queue_indexes, queue_start, queue_stop
  queue,                    \* the digests of the queue, in root computation
  revealed,                 \* revealed_nodes of get_revealed_nodes
  auth, used,               \* the authentication nodes, how many are consumed
  root,                     \* the output of get_merkle_root_from_auth
  genuine                   \* history: the verifier got what the signer sent

shape    == <<nbLeaves, nbOpened>>
treeVars == <<height, nodes>>
loopVars == <<leaves, first, last, slots, start, stop>>
sigVars  == <<queue, auth, used, root, genuine>>
vars == <<pc, shape, treeVars, level, loopVars, revealed, sigVars>>

U16(x) == x % 2^UintBits

CeilLog2(x) ==
  IF x = 0 THEN 0 ELSE CHOOSE d \in 0..MaxHeight : 2^d >= x /\ (d = 0 \/ 2^(d-1) < x)

-----------------------------------------------------------------------------
(* Digests. *)

Digest(kind, at, kids) == [kind |-> kind, at |-> at, kids |-> kids]
Leaf(i)       == Digest("leaf", i, <<>>)
Junk          == Digest("junk", 0, <<>>)    \* memory that was never written
Forged        == Digest("forged", 0, <<>>)  \* anything but the expected digest
Hash(p, kids) == Digest("node", U16(p), kids)

-----------------------------------------------------------------------------
(* malloc_merkle_tree and build_merkle_tree. *)

NbNodes == 2^height + nbLeaves - 1

Init ==
  /\ pc = "malloc"
  /\ \E sh \in Shapes : nbLeaves = sh[1] /\ nbOpened = sh[2]
  /\ height = 0 /\ nodes = <<>> /\ level = 0
  /\ first = 0 /\ last = 0 /\ start = 0 /\ stop = 0
  /\ leaves = [i \in 0..(nbOpened - 1) |-> 0]
  /\ slots = [i \in 0..(nbOpened - 1) |-> 0]
  /\ queue = [i \in 0..(nbOpened - 1) |-> Junk]
  /\ revealed = <<>> /\ auth = <<>> /\ used = 0
  /\ root = Junk /\ genuine = TRUE

MallocMerkleTree ==
  /\ pc = "malloc"
  /\ height' = CeilLog2(nbLeaves)
  /\ nodes' = [i \in 1..(2^height' + nbLeaves - 1) |-> Junk]
  /\ pc' = "leaves"
  /\ UNCHANGED <<shape, level, loopVars, revealed, sigVars>>

BuildLeaves ==
  /\ pc = "leaves"
  /\ first' = NbNodes - nbLeaves + 1
  /\ last'  = NbNodes
  /\ nodes' = [i \in 1..NbNodes |-> IF i >= first' THEN Leaf(i - first') ELSE nodes[i]]
  /\ level' = height - 1
  /\ pc' = "build"
  /\ UNCHANGED <<shape, height, leaves, slots, start, stop, revealed, sigVars>>

\* Reading outside of the slab yields an arbitrary value.
NodeAt(i) == IF i \in DOMAIN nodes THEN nodes[i] ELSE Junk

\* The nodes of floor f..l that are hashed four at a time, always from two
\* children; the others of the floor are hashed one at a time.
GroupedOffByOne(f, l) ==
  IF level >= 2 THEN f..(f + 4 * ((l + 1 - f) \div 4) - 1) ELSE {}
Grouped(f, l) ==
  IF level >= 2 THEN f..(f + 4 * ((l - f) \div 4) - 1) ELSE {}

\* The children of node p of floor f..l that build_merkle_tree hashes.
HashedKids(p, f, l) ==
  IF p \in Grouped(f, l) \/ p < l \/ last % 2 = 1
  THEN <<NodeAt(2*p), NodeAt(2*p + 1)>>
  ELSE <<NodeAt(2*p)>>

LevelBelowUnsigned(h) == (h - 1) % 256
LevelBelow(h) == h - 1

BuildFloor ==
  /\ pc = "build" /\ level >= 0
  /\ first' = first \div 2
  /\ last'  = last \div 2
  /\ nodes' = [p \in 1..NbNodes |-> IF p \in first'..last'
                                    THEN Hash(p, HashedKids(p, first', last'))
                                    ELSE nodes[p]]
  /\ level' = LevelBelow(level)
  /\ UNCHANGED <<pc, shape, height, leaves, slots, start, stop, revealed, sigVars>>

BuildDone ==
  /\ pc = "build" /\ level = -1
  /\ pc' = "built"
  /\ UNCHANGED <<shape, treeVars, level, loopVars, revealed, sigVars>>

-----------------------------------------------------------------------------
(* The loop that get_revealed_nodes and get_merkle_root_from_auth share. *)

Wrap(i) == IF i = nbOpened THEN 0 ELSE i

QueueHead == slots[start]
SecondPos == Wrap(start + 1)

\* The floor of the node at the head, once it has been popped.
NoFloorChange == <<first, last>>
FloorOfHead ==
  IF QueueHead < first THEN <<first \div 2, last \div 2>> ELSE <<first, last>>

IsLeft  == QueueHead % 2 = 0
Sibling == IF IsLeft THEN QueueHead + 1 ELSE QueueHead - 1

\* The three outcomes for the head: it has no sibling, its sibling is the
\* next of the queue, or its sibling has to be given.
Alone  == IsLeft /\ QueueHead = FloorOfHead[2]
SiblingNeverQueued == FALSE
SiblingQueued == IsLeft /\ slots[SecondPos] = QueueHead + 1 /\ SecondPos # stop
Paired == ~Alone /\ SiblingQueued
Given  == ~Alone /\ ~SiblingQueued

\* Pops n nodes and pushes the parent of the first one.
ShiftInPlace(n) ==
  /\ leaves' = leaves
  /\ first' = FloorOfHead[1]
  /\ last'  = FloorOfHead[2]
  /\ start' = IF n = 1 THEN SecondPos ELSE Wrap(SecondPos + 1)
  /\ slots' = [slots EXCEPT ![start] = QueueHead \div 2]
  /\ stop'  = Wrap(stop + 1)
ShiftUnwrapped(n) ==
  /\ leaves' = leaves
  /\ first' = FloorOfHead[1]
  /\ last'  = FloorOfHead[2]
  /\ start' = IF n = 1 THEN SecondPos ELSE Wrap(SecondPos + 1)
  /\ slots' = [slots EXCEPT ![stop] = QueueHead \div 2]
  /\ stop'  = stop + 1
Shift(n) ==
  /\ leaves' = leaves
  /\ first' = FloorOfHead[1]
  /\ last'  = FloorOfHead[2]
  /\ start' = IF n = 1 THEN SecondPos ELSE Wrap(SecondPos + 1)
  /\ slots' = [slots EXCEPT ![stop] = QueueHead \div 2]
  /\ stop'  = Wrap(stop + 1)

StartLoop(base, indexes) ==
  /\ leaves' = indexes
  /\ first' = base
  /\ last'  = base + nbLeaves - 1
  /\ start' = 0 /\ stop' = 0
  /\ slots' = [i \in 0..(nbOpened - 1) |-> base + indexes[i]]

-----------------------------------------------------------------------------
(* open_merkle_tree, with the loop of get_revealed_nodes. *)

\* expand_view_challenge_hash yields sets of distinct parties, sorted.
UnsortedChoices ==
  {s \in [0..(nbOpened - 1) -> 0..(nbLeaves - 1)] :
     \A i, j \in 0..(nbOpened - 1) : i < j => s[i] # s[j]}
LeafChoices ==
  {s \in [0..(nbOpened - 1) -> 0..(nbLeaves - 1)] :
     \A i, j \in 0..(nbOpened - 1) : i < j => s[i] < s[j]}

OpenStart ==
  /\ pc = "built"
  /\ \E indexes \in LeafChoices : StartLoop(2^height, indexes)
  /\ pc' = "open"
  /\ UNCHANGED <<shape, treeVars, level, revealed, sigVars>>

OpenAlone ==
  /\ pc = "open" /\ QueueHead # 1 /\ Alone
  /\ Shift(1)
  /\ UNCHANGED <<pc, shape, treeVars, level, revealed, sigVars>>

OpenPaired ==
  /\ pc = "open" /\ QueueHead # 1 /\ Paired
  /\ Shift(2)
  /\ UNCHANGED <<pc, shape, treeVars, level, revealed, sigVars>>

OpenReveals ==
  /\ pc = "open" /\ QueueHead # 1 /\ Given
  /\ Shift(1)
  /\ revealed' = Append(revealed, Sibling)
  /\ UNCHANGED <<pc, shape, treeVars, level, sigVars>>

OpenDone ==
  /\ pc = "open" /\ QueueHead = 1
  /\ auth' = [k \in 1..Len(revealed) |-> NodeAt(revealed[k])]
  /\ pc' = "opened"
  /\ UNCHANGED <<shape, treeVars, level, loopVars, revealed, queue, used, root, genuine>>

-----------------------------------------------------------------------------
(* get_merkle_root_from_auth.  The verifier has the digests of the open    *)
(* leaves, recomputed from the opened views, and the authentication nodes  *)
(* of the signature.  At most one of them differs from what the signer     *)
(* committed to, or the last authentication node is missing.               *)

OpenLeafDigests == [i \in 0..(nbOpened - 1) |-> Leaf(leaves[i])]

ReceiveGenuine ==
  /\ queue' = OpenLeafDigests /\ auth' = auth /\ genuine' = TRUE

ReceiveForgedLeaf ==
  /\ \E i \in 0..(nbOpened - 1) : queue' = [OpenLeafDigests EXCEPT ![i] = Forged]
  /\ auth' = auth /\ genuine' = FALSE

ReceiveForgedAuth ==
  /\ \E k \in 1..Len(auth) : auth' = [auth EXCEPT ![k] = Forged]
  /\ queue' = OpenLeafDigests /\ genuine' = FALSE

ReceiveShortAuth ==
  /\ auth # <<>>
  /\ auth' = SubSeq(auth, 1, Len(auth) - 1)
  /\ queue' = OpenLeafDigests /\ genuine' = FALSE

RootStart ==
  /\ pc = "opened"
  /\ StartLoop(U16(2^height), leaves)
  /\ ReceiveGenuine \/ ReceiveForgedLeaf \/ ReceiveForgedAuth \/ ReceiveShortAuth
  /\ pc' = "root"
  /\ UNCHANGED <<shape, treeVars, level, revealed, used, root>>

\* hash_final writes the digest of the parent at the tail of the queue.
PushDigest(kids) == queue' = [queue EXCEPT ![stop] = Hash(QueueHead \div 2, kids)]

RootAlone ==
  /\ pc = "root" /\ QueueHead # 1 /\ Alone
  /\ Shift(1)
  /\ PushDigest(<<queue[start]>>)
  /\ UNCHANGED <<pc, shape, treeVars, level, revealed, auth, used, root, genuine>>

RootPaired ==
  /\ pc = "root" /\ QueueHead # 1 /\ Paired
  /\ Shift(2)
  /\ PushDigest(<<queue[start], queue[SecondPos]>>)
  /\ UNCHANGED <<pc, shape, treeVars, level, revealed, auth, used, root, genuine>>

\* The children of the parent of the head, when one of them is given.
KidsUnswapped(given) == <<queue[start], given>>
KidsWithGiven(given) == IF IsLeft THEN <<queue[start], given>> ELSE <<given, queue[start]>>

RootGiven ==
  /\ pc = "root" /\ QueueHead # 1 /\ Given
  /\ used < Len(auth)
  /\ Shift(1)
  /\ used' = used + 1
  /\ PushDigest(KidsWithGiven(auth[used + 1]))
  /\ UNCHANGED <<pc, shape, treeVars, level, revealed, auth, root, genuine>>

RootFails ==
  /\ pc = "root" /\ QueueHead # 1 /\ Given
  /\ used = Len(auth)
  /\ pc' = "failed"
  /\ UNCHANGED <<shape, treeVars, level, loopVars, revealed, sigVars>>

RootDone ==
  /\ pc = "root" /\ QueueHead = 1
  /\ root' = queue[start]
  /\ pc' = "done"
  /\ UNCHANGED <<shape, treeVars, level, loopVars, revealed, queue, auth, used, genuine>>

-----------------------------------------------------------------------------
Returned == pc \in {"done", "failed"}

\* The functions have returned: nothing more happens.
Stopped == Returned /\ UNCHANGED vars

Build == MallocMerkleTree \/ BuildLeaves \/ BuildFloor \/ BuildDone
Open  == OpenStart \/ OpenAlone \/ OpenPaired \/ OpenReveals \/ OpenDone
Root  == RootStart \/ RootAlone \/ RootPaired \/ RootGiven \/ RootFails \/ RootDone
Next  == Build \/ Open \/ Root \/ Stopped

Spec == Init /\ [][Next]_vars

\* The three functions are loops of a single thread that nothing suspends.
FairSpec == Spec /\ WF_vars(Build \/ Open \/ Root)

-----------------------------------------------------------------------------
(* Properties. *)

Phases == {"malloc", "leaves", "build", "built", "open", "opened", "root",
           "done", "failed"}
InLoop == pc \in {"open", "root"}

\* Type invariant.
TypeOK ==
  /\ pc \in Phases
  /\ nbLeaves \in 1..(2^UintBits - 1) /\ nbOpened \in 1..nbLeaves
  /\ height \in 0..MaxHeight /\ level \in -1..MaxHeight
  /\ first \in Nat /\ last \in Nat
  /\ leaves \in [0..(nbOpened - 1) -> 0..(nbLeaves - 1)]
  /\ slots \in [0..(nbOpened - 1) -> Nat]
  /\ start \in 0..(nbOpened - 1) /\ stop \in 0..(nbOpened - 1)
  /\ DOMAIN queue = 0..(nbOpened - 1)
  /\ revealed \in Seq(Nat)
  /\ used \in Nat
  /\ genuine \in BOOLEAN

\* Node i of the tree exists: its leftmost leaf does.
DepthOf(i) == CHOOSE d \in 0..height : 2^d <= i /\ i < 2^(d+1)
Exists(i)  == i * 2^(height - DepthOf(i)) <= NbNodes

\* Once built, every existing node is the hash of its existing children, the
\* nodes that four-way hashing and the isolated last nodes cover included: what
\* build_merkle_tree skips or hashes from unwritten memory is a node nobody can
\* authenticate.
TreeConsistent ==
  pc \notin {"malloc", "leaves", "build"} =>
    \A i \in {j \in 1..NbNodes : Exists(j)} :
      nodes[i] = IF i >= 2^height THEN Leaf(i - 2^height)
                 ELSE IF Exists(2*i + 1) THEN Hash(i, <<nodes[2*i], nodes[2*i + 1]>>)
                 ELSE Hash(i, <<nodes[2*i]>>)

\* The nodes on the paths from the open leaves to the root.
OnPath == {(2^height + leaves[k]) \div 2^j : k \in 0..(nbOpened - 1), j \in 0..height}

\* The authentication nodes are exactly the siblings of the paths of the open
\* leaves that are not on a path themselves, each revealed once: one less and
\* the verifier cannot compute the root, one more and the signature is longer
\* than what get_auth_size announces.
AuthIsMinimal ==
  pc \in {"opened", "root", "done", "failed"} =>
    LET needed == {i \in (2..NbNodes) \ OnPath : Exists(i) /\ i \div 2 \in OnPath}
    IN  /\ {revealed[k] : k \in 1..Len(revealed)} = needed
        /\ Len(revealed) = Cardinality(needed)

\* What the parameter sets allocate for the authentication nodes: with three
\* open leaves of 256, PARAM_TREE_NB_MAX_OPEN_LEAVES is 19.
NbMaxOpenLeaves ==
  LET c == CeilLog2(nbOpened) IN nbOpened * (height - c) + 2^c - nbOpened

\* The revealed nodes fit in the array open_merkle_tree allocates for them, and
\* in the space a signature reserves, whichever leaves are open.
RevealedFits ==
  revealed # <<>> => Len(revealed) <= NbMaxOpenLeaves /\ Len(revealed) <= height * nbOpened

\* The live entries of the circular queue at the head of the loop, from the
\* oldest, Entry(0), to the newest, Entry(Count - 1); start = stop means that the
\* queue is full.
Count    == IF start < stop THEN stop - start ELSE nbOpened - start + stop
Pos(k)   == IF start + k < nbOpened THEN start + k ELSE start + k - nbOpened
Entry(k) == slots[Pos(k)]

\* Each iteration takes n nodes off the front of the queue and puts the parent of
\* the first at its end; the wrap-around never loses or overwrites a live entry.
FifoStep(n) ==
  /\ n <= Count
  /\ Count' = Count - n + 1
  /\ \A k \in 0..(Count - n - 1) : Entry(k)' = Entry(k + n)
  /\ Entry(Count - 1)' = QueueHead \div 2

QueueIsFifo == [][InLoop /\ pc' = pc => FifoStep(1) \/ FifoStep(2)]_vars

\* The nodes of the queue are those of the current floor in increasing order,
\* then those of the floor above, in increasing order and left of the parents of
\* the former.  This is what lets the loop look for a sibling only at the next
\* entry and detect a change of floor on one comparison.
OnFloors(x) == x >= 1 /\ (x \in first..last \/ x \in (first \div 2)..(last \div 2))
Precedes(x, y) == \/ x < y /\ (x >= first <=> y >= first)
                  \/ x >= first /\ y < first /\ y < x \div 2

QueueOrdered ==
  InLoop => \A i \in 0..(Count - 1) :
              /\ OnFloors(Entry(i))
              /\ \A j \in (i + 1)..(Count - 1) : Precedes(Entry(i), Entry(j))

\* The recomputed root is the root of the signer's tree exactly when the opened
\* leaves and the authentication nodes are the signer's: every one of them is
\* hashed, on its side of the right parent.  The computation fails only when a
\* node is missing, and uses all of them otherwise.
RootBinding ==
  /\ pc = "done" => /\ root = nodes[1] <=> genuine
                    /\ used = Len(auth)
  /\ pc = "failed" => ~genuine

\* Each of the three loops ends, whatever leaves are open.
Terminates == <>Returned
=============================================================================
