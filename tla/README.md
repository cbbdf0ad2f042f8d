# A TLA+ model of libmpcith

libmpcith is a C library of signature schemes built from multiparty computation
"in the head".  The signer shares its secret among virtual parties, commits to
their shares, runs a multiparty protocol that checks the secret, and opens all
the parties but a few that a hash chooses.  The verifier recomputes the opened
parties and compares hashes.  A build links one transformation (`core/`), one
problem (`mpc/`), one field (`arithmetic/`) and one set of symmetric primitives
(`sym/`); almost all sizes are fixed by the preprocessor.

The code is single-threaded and keeps nothing between two calls.  What is hard
about it lies elsewhere: index arithmetic over trees whose floors are not full,
circular buffers and slots that are reused while they are being read, loops
unrolled by four with their leftovers, a verifier that recomputes other
quantities than the signer and must end with the same transcript, a parser that
derives lengths from data not yet verified, and random streams that two sides
cut differently.

Contents: [inventory](#inventory), [modules](#modules), [runs](#runs),
[findings](#findings), [proofs](#proofs), [what is not modelled](#what-is-not-modelled),
[plan](#plan).

## Inventory

Paths are relative to the repository.

**Merkle tree** (`core/trees/hash/merkle-tree.c`).  State: a slab of nodes
numbered as a heap, and in a loop a circular queue of node indexes, with the
digests in a second one, and the bounds of the current floor.  Operations:
`malloc_merkle_tree`, `build_merkle_tree`, `open_merkle_tree` (through
`get_revealed_nodes`), `get_auth_size`, `get_merkle_root_from_auth`.  Used by
the threshold signatures, one tree per execution.  Hard: the isolated last node
of a floor, groups of four, a queue whose `start = stop` is ambiguous, digests
overwritten in place.  Correct when the tree is complete, the opening is the
least sufficient one and fits its buffers, and the recomputed root is the
signer's exactly when leaves and path are.

**Trees of seeds** (`core/trees/seeds/default/tree.c`, `perfect/tree.c`).
State: a slab of seeds.  Operations: `malloc_seed_tree`, `expand_seed_tree`,
`get_leaves`, `get_seed_path`, `get_seed_path_size`, `reconstruct_tree`.  Used by
every scheme on additive sharings, one tree per execution.  Hard: two floors of
leaves, paths of two lengths, reconstruction by whole floors from memory that is
partly unwritten.  Correct when all leaves but the hidden one are rebuilt, the
hidden one is derivable from nothing in the path, and the announced length is
the written one.  The makefiles of all the variants link the default layout; the
other layout implements the same header (it contains a call of `printf` without
its header, so it needs a small repair to build today).

**View challenge** (`core/views.c`).  `expand_view_challenge_hash` turns a digest
into sets of distinct parties by rejection and sorts each set.  Both sides call
it, and the openings of the Merkle tree need its order.  Correct when each set
has the right number of distinct parties in order, and it returns.

**Pseudo-random generators** (`sym/drbg/aes/rnd.c`, `sym/drbg/hash/rnd.c`).
State: a cipher in counter mode, the last block and what is left of it.
Operations: `prg_init`, `prg_sample` and four-way versions.  Correct when a seed
stands for one stream of bytes whatever the lengths of the calls.

**Hash and extendable-output functions** (`sym/hash`).  Wrappers of Keccak.

**Signatures in five rounds on additive sharings**
(`core/linear-mpc/5rounds/additive/sign-mpcith-additive-based.c`).  State: seed
trees, four share slots used in turn, an accumulator, packed shares, the
commitments, challenges and broadcasts of all executions.  Operations:
`mpcith_additive_based_sign`, `mpcith_additive_based_sign_verify`,
`build_signature`, `parse_signature`.  It calls the seed trees, the view
challenge, the generator, the commitments, the packing and the protocol.
Correct when a genuine signature is accepted and an altered one is not, it fits
its buffer, and it does not contain all the shares of the witness.

**Packings** (`additive/traditional`, `hypercube`, `threshold-ggm`,
`threshold-ggm-lifting`).  Four implementations of one interface
(`packing_update`, `share_recomputing_update`, `has_sharing_offset_for`,
`recompose_broadcast`), by which the protocol runs on fewer shares than there
are parties.  Correct when the verifier deduces the broadcasts of the signer's
packs from packs of its own, whichever party is hidden.

**Multiparty protocols** (`mpc/`): multivariate equations, syndrome decoding in
two metrics, MinRank, AIM; sixteen directories.  Each implements
`generate_instance_with_solution`, `compute_correlated`,
`mpc_compute_plain_broadcast`, `mpc_compute_communications`, for some of them its
inverse, and the serialisation of its instances.  Hard: vectors that are packed
several to a word, chunks of which the last one is shorter, public constants that
one share only carries, draws that are rejected.  Correct when a drawn key is a
solution of its instance, when the broadcasts of the parties add up to the plain
one, and when the inverse gives a share back from its broadcast.

**Commitments** (`core/linear-mpc/5rounds/commit.c`): hashes of salt, execution,
party, seed and auxiliary values.

**Signatures in seven rounds** (`core/linear-mpc/7rounds`): as in five rounds,
with a part of the share of the last party, the hint, computed after a first
challenge, committed on its own, and left out of the packs until then.  Hard: two
commitments per execution of which one may be hidden, an accumulator emptied of
all parties but the last one before it is known.

**Threshold signatures** (`core/linear-mpc/5rounds/threshold-mt`): Shamir
sharings, commitments in a Merkle tree, a few parties open.  The verifier knows
what the open parties broadcast and inverts the protocol to get their shares.  Two
variants, `standard` and `nfpr`, with challenges per execution or for all of them.
Hard: the party at infinity, which has neither plain value nor public constant; an
authentication path whose length depends on which leaves are open.

**Non-linear and ring signatures** (`core/non-linear-mpc`, `mpc/*/fr23*`): sharings
of degree one in a circuit of degree above one, so that a broadcast is a polynomial
whose coefficients are interpolated, and one of which the verifier completes; over a
Merkle tree (with a challenge that checks the degree) and over seed trees; in a
ring, a selector in one-hot vectors hides which of the keys signs.  Hard: the place
of each value among the interpolation points, the last side of a selector, a ring
that is not a power of the length of a side.

**Interface and keys** (`core/api-sign`, `core/api-sign-ring`): `crypto_sign`,
`crypto_sign_open` and the key functions; a length prefix, and an instance that
two keys share.

**Arithmetic** (`arithmetic/`, and the field and matrix files inside
`mpc/minrank/mira`, `mpc/minrank/mirith`, `mpc/rank-sd/ryde`, `mpc/aim/aimer`): GF(2), GF(16),
GF(256), GF(2^m), GF(31), GF(251) and their extensions, a copy of each function for
each field.  It keeps no state.  Hard: lazy reductions whose sums must not pass the
width of their type, loops unrolled by four or eight with leftovers, values packed
several to a byte or a word, rejection in samplers, precomputed tables.

**Primitives** (AES, Keccak) and **applications** (`app/`: benchmarks, test vectors,
unit tests).

`PROJECT.json` lists the components with their status, and the hazards, each at
the line where it bites, with the properties that cover it.

## Modules

| module | models | builds on |
|---|---|---|
| `MerkleTree` | the Merkle tree, signer and verifier | |
| `SeedTree` | the trees of seeds in both layouts, signer and verifier | |
| `ViewChallenge` | `expand_view_challenge_hash` | |
| `ByteStream` | abstract: a stream of bytes per seed | |
| `PrgStream` | `prg_sample` and its buffer; implements `ByteStream` | |
| `MqProtocol` | one multiparty protocol, as operators | |
| `Packing` | the four packings, as operators | `MqProtocol` |
| `SignatureScheme` | abstract: what is accepted is what was sent | |
| `AdditiveSign` | the signature in five rounds; implements `SignatureScheme` | `Packing` |
| `SevenRoundSign` | the signature in seven rounds; implements `SignatureScheme` | `Packing` |
| `ThresholdSign` | both threshold signatures; implements `SignatureScheme` | `MqProtocol` |
| `NonLinearMpc` | the circuits of the non-linear signatures, as operators | `Packing` |
| `NonLinearSign` | two non-linear signatures and the ring one; implements `SignatureScheme` | `NonLinearMpc` |
| `Fields`, `FieldTables` | how the code multiplies, reduces, inverts, raises to powers; the tables | |
| `LibraryFields` | every field, by the constants of its file | `Fields` |
| `Vectors` | operations on arrays, matrices, polynomials, packed vectors, samplers | `LibraryFields` |
| `RankMetric` | ranks, supports, linearized polynomials of `ryde` and `mira` | `Vectors` |
| `PackedMatrix` | the matrices of `mirith`, two entries to a byte | `Vectors` |
| `Aim` | the one-way function of `aimer` | `LibraryFields` |
| `ArithmeticFiles` | each arithmetic file as an instance of the operators above | `RankMetric`, `Aim`, `PackedMatrix` |
| `Arithmetic` | a caller of all of them, and the textbook results | `ArithmeticFiles` |
| `AlgebraicProtocols` | `biscuit`, `mqom`, `sdith`, `aimer` and their relatives in `mpc/` | `RankMetric`, `Aim` |
| `RankProtocols` | MinRank and rank syndrome decoding, in all their directories | `AlgebraicProtocols` |
| `Problems` | what a build links behind `witness.h` and `mpc.h` | `RankProtocols` |
| `Protocols` | key, shares, broadcasts and inverse, for one problem at a time | `Fields` |
| `MerkleTreeProofs` | theorems on the queue, the tree that is built, what an opening reveals and the root the verifier computes | `MerkleTree` |
| `SeedTreeProofs` | theorems on the trees of seeds | `SeedTree` |
| `ViewChallengeProofs`, `PrgStreamProofs` | theorems | `ViewChallenge`, `PrgStream` |
| `PackingProofs` | lemmas on sums, remainders and the four packings | `Packing` |
| `AdditiveSignProofs` | theorems on the signature in five rounds | `AdditiveSign`, `PackingProofs` |
| `SevenRoundSignProofs` | theorems on the signature in seven rounds | `SevenRoundSign`, `PackingProofs` |
| `ThresholdSignProofs` | theorems on both threshold signatures | `ThresholdSign`, `PackingProofs` |
| `MC...` | instances for TLC | |

An action is one iteration of a loop of the code, with everything that the
iteration does.  `pc` says which loop runs.  `PROJECT.json` ("map") gives the
lines of each definition.

* `MerkleTree`.  `nodes`, `height` are the tree; `slots`, `start`, `stop` are
  `queue_indexes`, `queue_start`, `queue_stop`; `first`, `last` the floor;
  `queue` the array of digests, which the code calls `leaves`.  `BuildFloor` is
  one floor, `OpenAlone`/`OpenPaired`/`OpenReveals` and
  `RootAlone`/`RootPaired`/`RootGiven`/`RootFails` the outcomes of an iteration.
  A digest is a record of what was hashed, so that two are equal when they hash
  the same things.  `RootStart` gives the verifier what the signer sent, or that
  with one leaf or one node altered, or with the last node missing.
* `SeedTree`.  A seed is the path of derivations that leads to it; unwritten
  memory is a value from which other values are derived like from any other.
  `ExpandNodes` and `FloorNodes` are one node or one group of four.
* `ViewChallenge`.  `DrawAccepted` and `DrawRejected` are the outcomes of a draw,
  for any value the mask lets through; `SortCompare` is one comparison.
* `PrgStream`.  A byte is its position in the stream of the cipher.
* `AdditiveSign`.  `ShareFour`, `ShareOne`, `ShareLast` and `RecomputeFour`,
  `RecomputeOne`, `RecomputeLast` are the iterations over the parties, with the
  expansion of the shares, the accumulator, the packing and the commitment;
  `MpcChallenge`, `Simulate`, `ViewChallengeDrawn`, `BuildSignature`, `Parse`,
  `Emulate`, `Compare` are the phases between them.  A challenge is arbitrary,
  and the same on both sides when it is derived from the same digest.  What
  `SeedTree` shows of the rebuilt leaves is the operator `Rebuilt`.
  `Deliver...` hands over the signature, or the signature with one field changed;
  a path is the set of the nodes whose seeds it has, and a changed seed changes all
  the leaves under it.
  The witness and the broadcasts are numbers modulo a small prime, so the
  identities between packs are computed and not assumed.
* `SevenRoundSign`.  An action is one execution (`ShareSecret`, `ComputeHint`) or
  one phase of all; the grouping by four is that of `AdditiveSign` and is left out.
  `acc` and `packs` are the accumulator and the packs, `aux` the witness and hint
  shares of the last party, `coms` and `hintComs` the two sets of commitments.
  `ComputeHint` puts the last party into the packs, as the code does between the
  first two challenges.  The second challenge is not an interpolation point, which
  `expand_mpc_challenge_hash_2` draws again to avoid.
* `ThresholdSign`.  `Recover` is one iteration of the verifier: `Recovered` turns
  the protocol round for each open party, the results are hashed and the root is
  recomputed.  A root is the family of its leaves; what an authentication path
  gives is what `MerkleTree` shows.  `StandardX` and `NfprX` are the two variants of
  an action.
* `NonLinearSign`.  The three programs share their variables: `MtX`, `GgmX` and `RingX`
  are the versions of an action.  `br` holds the coefficients of the broadcast
  polynomials, `dcs` those of the degree check.  `RingSetup` refuses a ring
  without the signer's key or with keys of different templates.
* `Arithmetic`.  `call` is the call that is made, `out` what it returned; an
  action is a family of functions (`Multiply`, `Invert`, `RaiseToQ`, `Reduce`,
  `Matrix`, `Serialize`, ...), and `ComputesReference` compares `out` with a definition
  that shares nothing with the code.  An element of GF(2^m) is the set of exponents
  of its polynomial, so that a shift and an exclusive or are set operations; an
  element of GF(p) is a number, reduced by the steps of the code with its widths.
* `Protocols`.  `GenerateKey`, `ShareInput`, `ComputePlainBroadcast`,
  `ComputeCommunications` (one party) and `InvertCommunications` (one party) are the calls of
  the interface, whose functions are constants that `MCProtocols` binds to those of
  `Problems`; the record `scheme` holds the problem, its dimensions and the
  values it draws.  `holder` is the party whose share carries the public constants.

Conventions: the salt is left out where all hashes share it; logs and benchmark
marks are left out; memory is modelled by its contents, never by its allocation.

## Runs

| run | instance | states |
|---|---|---|
| `merkle` | all openings of trees of 1 to 6 leaves; openings of 1 to 3 leaves of trees of 7, 8, 9, 11, 14, 15, 16 | 237,398 |
| `merkle_16bit` | trees of 5 to 7 leaves, `uint16_t` of 3 bits; a violation | 447 |
| `seed_tree` | 4 to 20 and 31 to 33 leaves, both layouts, every hidden leaf | 7,333 |
| `view_challenge` | seven settings of sets, sizes and parties | 21,367 |
| `prg_stream` | blocks of 4 bytes, calls of 0 to 9 bytes | 737 |
| `additive_sign` | thirteen builds, two keys, two challenges, every hidden party, every alteration | 121,416 |
| `seven_round_sign` | six builds, every hidden party, every alteration | 64,289 |
| `threshold_sign` | seven builds, two keys, every set of open parties, every alteration | 50,682 |
| `nonlinear_sign` | 23 builds of three programs, both problems, rings of up to 252 keys | 13,076 |
| `arithmetic` | a list of calls of every function of the arithmetic files | 962 |
| `protocols` | 14 instances of 11 problems, four parties, every holder | 664 |
| `beaver_inverse` | minrank by rank decomposition with Beaver triples; a violation | 30 |

`merkle` shows that the tree is complete (`TreeConsistent`), that an opening
reveals exactly the nodes that are needed (`AuthIsMinimal`) and fits in what is
reserved for it (`RevealedFits`), that the circular queue loses nothing
(`QueueIsFifo`) and stays in order across floors (`QueueOrdered`), which is what
lets the code look at one entry only, that the root binds all that was sent
(`RootBinding`), and that the loops end.  Four-way hashing starts with floors of
nine leaves, and a floor is odd or even at each height for the numbers chosen:
1 to 6 and 7, 8, 9, 11, 14, 15, 16 cover an isolated last node at every floor of a tree
of height up to four and none.  Three open leaves is the number of all the
parameter sets of the threshold schemes.

`seed_tree` shows that groups of four never read a seed too early
(`FullyExpanded`), that each leaf but the hidden one comes from exactly one seed
of the path (`PathPartition`), that lengths agree (`SizeAnnounced`), that the
verifier gets the signer's seeds (`AllButHidden`) and that no seed is overwritten
on the way (`NothingLost`).  The heights next to the right one are given to
`malloc_seed_tree` too, which refuses them.  The numbers cover heights 2 to 6,
powers of two and their neighbours, and every residue of the last floor modulo
four.  Fewer than four leaves are outside of the model: `reconstruct_tree` expands
a node of depth one in all cases, and no parameter set has so few.

`view_challenge` shows `SortedSets`, `SortPermutes` and termination for one and
several sets, sets of one party, all parties, and numbers of parties that are
a power of two or not.

`prg_stream` shows that the buffered generator implements `ByteStream`
(`StreamSpec`) and the invariant of the buffer (`BufferInv`).  `MaxTotal` bounds the
bytes read from a seed; what matters is the alignment, and all are reached.

`additive_sign` shows that the shares add up (`SharesAddUp`), that the verifier
recomputes commitments and broadcasts of the signer (`SameTranscript`), that the
signature fits (`SignatureFits`), that it does not tell the witness
(`WitnessIndistinguishable`), and that the whole implements `SignatureScheme`
(`SchemeSpec`): what is accepted is what was sent.  The equation of each key has two
solutions.  `Rerun` is an execution that has one of them as its witness and any
share s for each party without a seed under the path that was sent; the property
finds, for each solution, an s for which the plain broadcast, the share of the last
party where it is sent and the broadcasts that are hashed are those of the signature.
The seed that is committed to in the digest is not asked to give s: the commitment
and the expansion are ideal functions here, so that this is a matter of their
security and not of the scheme.  After the groups of four one
to four parties are left; two builds have two executions, which share slots and
accumulator; the edges of the lifting have equal and unequal sizes.  The field
has five elements, the least where the threshold packings of four and five
parties have distinct nonzero points.  Shares are one fixed function of the seed:
the identities checked are linear in the shares, and the function has no
symmetry that would hide a misplaced one.

`seven_round_sign` shows that the hints, completed after the first challenge, add
up to the product they stand for (`HintsAddUp`), that the verifier of a genuine
signature has the signer's commitments of both kinds and its broadcasts
(`SameTranscript`), that a hidden last party leaks neither its share of the
witness nor its hint (`LastPartyHidden`), and `SchemeSpec`.  Each packing has a build; one
has two executions, and the lifting has one edge or two.

`threshold_sign` shows that the roots recomputed from inverted shares are the ones
the signer hashed (`SameRoots`), also when the party at infinity is open, that the
signature and the paths in it fit their buffers for every set of open parties
(`SignatureFits`), that all solutions of the equation explain what is sent
(`WitnessIndistinguishable`), and `SchemeSpec`.  The builds open one, two or all parties but
one, of as many parties as there are points or fewer, and reserve for a path
what the count of its nodes (`SpaceAssumption`) asks for.  `SchemeSpec` takes it that two
different view digests open different parties in some execution: with one or two
executions of at most five parties TLC would otherwise only find that small
challenges collide.

`nonlinear_sign` shows that the verifier completes the coefficient that is not
sent and gets the signer's polynomials, commitments and degree checks
(`SameBroadcasts`), and `SchemeSpec`, for the message and the ring.  The field is
GF(251), that of the builds.  Rings of 3, 7, 11 and 17 keys with selectors of one to
four sides fill the last side in part or whole; a ring of 252 keys with one side is
longer than there are points, one whose keys differ in their template and one
without the signer's key are refused.  For one quadratic equation and one side, the
broadcast of party 0, which stands for infinity, does not depend on the keys, and the
digests of the ring program hash the commitments and not the ring: when party 0 is
the hidden one in all executions (a chance in parties^executions) the model does
not require that another ring be rejected (`RingMatters`).

`arithmetic` compares each function with its definition.  Products in all 41
fields and extensions, inverses and powers run on spread operands and on the
greatest ones, where lazy sums are largest; `Reduce16` runs on the whole range it is
called on, `Reduce32` on multiples of p and their predecessors after each power of two
up to 2^31 (at p - 1 a quotient that is too large shows first, at zero one that is
too small), and the inverse tables are compared in full; lengths of arrays fall
on each side of the unrolled loops and of the word and byte boundaries.
The operands are fixed lists: a kernel is linear in each of its arguments, and
the errors that concern us (an index, a shift, a missing fold, an overflow) show
on dense operands.

`protocols` runs 11 problems on small dimensions over the fields they are built
with.  It shows that a drawn key is a solution of its instance
(`KeysAreSolutions`), that the broadcasts of the parties add up to the plain one
whichever share carries the public constants (`BroadcastsAddUp`), and that the three
inverses find a share again (`InverseRestores`).  There are four parties: in
characteristic two, with an odd number, a constant added to all the shares instead
of one goes unnoticed.

Every property of a passing run has a mutant of the code in `PROJECT.json`, an
operator of the modules that stands for a plausible mistake, under which TLC
finds the property violated.

Fairness: the functions are loops of one thread that nothing suspends, so the
specifications assume weak fairness of their steps together and nothing more.
`ViewChallenge` assumes in addition weak fairness of `DrawAccepted`: the draws are
the output of an extendable-output function, which does not avoid the acceptable
values forever.  `AdditiveSign` counts the delivery of a signature as a step, since
termination of the verifier is about signatures that arrive.  The other signature
modules have no loop that could not end (each action moves to the next execution or
the next phase), so they state no liveness.

## Findings

`merkle_16bit`: `merkle-tree.h` says that the number of leaves is bounded by
2^16.  A tree of more than 2^15 leaves has height 16, and
`get_merkle_root_from_auth` starts from `(uint16_t)(1<<tree_depth)`, which is zero,
while `get_revealed_nodes` starts from `(uint32_t)(1<<tree_depth)`.  Genuine
openings of such a tree do not verify.  The run scales the type to three bits.
The largest tree of a parameter set has 256 leaves, so no build is concerned; the
bound that holds is 2^15, and it is the hypothesis of theorems `OrderedQueue` and
`BindsRoot`.

`beaver_inverse`: in `mpc/minrank/fen22-rd/mpc.c`, built with
`PARAM_PURE_BEAVER_TRIPLE`, `mpc_compute_communications` adds the product of the opened
matrices to the share that carries the public constants only (lines 111-112), and
`mpc_compute_communications_inverse` adds it to every share (line 189).  The unit test
`core/linear-mpc/5rounds/units/test-mpc.c` says (lines 237-239) that the inverse restores
each share.  The run finds one that is not.  The inverse is called by the threshold
signatures only, and no configuration builds them with this option; with an odd
number of shares in characteristic two the sum of the shares hides it.  The same
module without the option passes in `protocols`.

## Proofs

TLAPS checks the theorems below for all values of the constants that satisfy the
assumptions.  Each one is of the form `Spec => ...`, from an inductive invariant whose
preservation has one lemma or one step per action.

* `MerkleTreeProofs`.  `Typing`: `Spec => []TypeOK`, from a stronger invariant,
  `StrongTypeOK`, which adds that the height is that of the number of leaves.
  `FifoQueue`: `Spec => QueueIsFifo`; a step of the queue is a rotation of its
  positions, by cases on the wrap-around.  `OrderedQueue`: under `WidthIsEnough`
  (every shape has at most 2^(UintBits-1) leaves), `Spec => []QueueOrdered`.
  The order is not inductive by itself: that the parent of the head goes after all
  other entries needs that they lie in the current floor or the one above, with
  bounds on the floor, and that the first entries are in order needs that the view
  challenge sorts.  The inductive invariant is `OrderInv`, the conjunction of
  `StrongTypeOK`, `InputInv` (the sizes come from `Shapes` and the leaves are in
  order), `FloorInv` (the floor starts at a power of two and does not reach the
  next one) and `QueueOrdered`.  Without `WidthIsEnough` it fails at `RootStart`,
  which is the finding.
  `BuildsWholeTree`: `Spec => []TreeConsistent`; the invariant `BuildInv` says that
  the nodes from the first of the current floor on are hashed from their children,
  and where the floor ends.
  `RevealsSiblings`: `Spec => []AuthIsMinimal`.  The
  invariant, `OpenInv`, relates the queue to the tree: the entries taken off so far
  are the ancestors of the open leaves before a position in the order of the floors,
  those in the queue are the ones from there on, and what is revealed is the siblings
  that those before it lack.
  `RevealsFew`: `Spec => []RevealedFits`, with no hypothesis on the shapes.  It
  bounds the number of revealed nodes by k log(n/k), rounded as the code rounds it;
  `FitsInv` counts: an entry of the queue on the floor of the head may still reveal one
  node, an entry on the floor above has cost one already and may cost another, and
  the floors above have a `Capacity` bounded by their nodes and by the open leaves.
  `BindsRoot`: under `WidthIsEnough`, `Spec => []RootBinding`.
  The invariant, `RootInv`, follows the verifier: what it received is the signer's
  exactly when the digests in the queue and the authentication nodes that are left
  are the signer's, which a hash of two of them preserves since it is injective; and
  the authentication nodes used so far are those whose siblings have been handled, so
  that the verifier and the signer agree on which node comes next.
* `SeedTreeProofs`, for both layouts.  `Typing`, `ExpandsAll`
  (`FullyExpanded`), `AnnouncesSize` (`SizeAnnounced`), `RebuildsAllButHidden`
  (`AllButHidden`), `LosesNothing` (`Spec => NothingLost`), `PartitionsLeaves`
  (`PathPartition`).  The invariant has one part per loop: `NodesInv` (the nodes
  below `next` have derived their children), `PathInv` (the path so far is the
  siblings of the nodes between the hidden leaf and the current one), `PosInv` (the
  positions the verifier computes are those of the path) and `FloorInv` (on a floor,
  the verifier has the seeds of the nodes that are not above the hidden leaf, and of
  no other).  That the groups of four read no unwritten seed and that the number of
  seeds is announced by one comparison follow from the bounds of the leaves of a
  layout, in `ShapeInv`.
* `ViewChallengeProofs`.  `Typing`, `SetsAreSorted` (`Spec => []SortedSets`) and
  `SortKeepsMembers` (`Spec => SortPermutes`).  The invariant has two loops: the
  members drawn so far are distinct; the positions sorted so far hold lesser
  parties than all that follow them.
* `PrgStreamProofs`.  `Typing`, and `Buffering`: `Spec => [](TypeOK /\ BufferInv)`.
  `PrgIsStream`: `Spec => StreamSpec`, every step maps to a step of `ByteStream` or
  a stutter, with the quotient and remainder of the lengths as the only arithmetic.
* `PackingProofs` has no theorem of a specification: it has the lemmas on which those of
  the signatures rest, for every field and number of parties.  `RunningSums` and
  `SumsCombine` are about sums, `Remainder` and `MultiplesCongruent` about equality
  modulo Q, `AffineWeights`, `PacksRelate`, `BroadcastsRelate` about the packings: in
  all of them but the traditional one the weight of an open party in a pack of the
  verifier is A + B w, where w is its weight in the pack of the signer and A and B
  depend on the hidden party only, and A + B w is zero for the hidden party.  So the
  pack of the verifier is A times the sum of all the shares plus B times that of the
  signer, and as a broadcast is affine in the share, `recompose_broadcast` can undo A
  and B.  In the traditional packing the last party takes the place of the hidden one.
* `AdditiveSignProofs`, for all builds, keys, seeds and challenges, and a field of any
  size.  `SharesReconstruct`: `Spec => []SharesAddUp`.  It is not inductive: `ShareInv`
  adds that, while an execution is shared, each part of the accumulator is the
  remainder of the sum of the shares of this execution so far, which is where an
  accumulator not reset, or a slot read too late, would show.  `SignsInBuffer`:
  `Spec => []SignatureFits`; a path has at most one seed per level (`PathIsShort`, a
  surjection from the levels), and the bound of a proof is summed over the executions.
  `HidesWitness`: `Spec => []WitnessIndistinguishable`.  The leaves under the nodes that
  `get_seed_path` collects are all but the hidden one (`PathOpensOthers`, from
  `PathAvoidsHidden` and `PathCoversOthers`).  The plain broadcast fixes the uniform
  value that goes with another solution, and the sums over the open parties then fix
  a share of the hidden one (`SomeShareExplains`).  The broadcasts stay the same because they are functions of
  the open shares and of the plain broadcast (`HiddenShareIsFree`), which comes from
  the correctness of `recompose_broadcast`.  `HiddenInv` keeps the hidden parties as
  they were when the proofs were built.
  `RecomputesTranscript`: `Spec => []SameTranscript`.  The invariant follows both
  loops: the packs of the signer hold the weighted sums of the shares of the parties
  so far, whichever of the three actions treated them; those of the verifier hold the
  sums with the weights of the open parties, the hidden one adding nothing; and the
  commitments made again are the signer's.
  `ImplementsScheme`: `Spec => SchemeSpec`.  That the genuine signature is accepted is
  `SameTranscript`; that an altered one is rejected says, for each field, which
  comparison it fails: a digest that is not the one that was sent, a length that is
  not the one required, or a challenge that hides another party, whose
  commitment the verifier is then sent and not made to recompute.
* `SevenRoundSignProofs`, likewise.  `SharesGiveHint`: `Spec => []HintsAddUp`; the
  invariant `ShareInv` says what the packs and the accumulator of an execution hold
  before and after the first challenge, between which the last party is missing from
  the packs and its hint is the sum of those of the others.  `HidesLastParty`:
  `Spec => []LastPartyHidden`, with `EmulInv`: what is sent is built from the hidden
  parties of the third challenge.  `RecomputesBothTranscripts`:
  `Spec => []SameTranscript`, for both sets of commitments and the broadcasts; its
  invariant, `TranscriptInv`, adds `GotInv`, that the verifier's three challenges are
  the signer's when the digests that carry them are, and `VerifierInv`, that what is
  recomputed so far is the signer's.  The recursion that treats all the parties of an
  execution in one action is unfolded with `LoopsExist`.  `ImplementsScheme`:
  `Spec => SchemeSpec`.
* `ThresholdSignProofs`, for both variants, all builds, keys, seeds, challenges and sets
  of open parties.  One invariant, `ThresholdInv`, serves the four theorems: its parts
  say what the signer has computed of the roots, the broadcasts and the signature, how
  what is delivered differs from what was sent when it does (`GotInv`), that two view
  digests open the same parties only when they are equal, and what the verifier
  has computed of what it got.  `RecoversRoots`: `Spec => []SameRoots`.  A broadcast is
  affine in the share, with its constant term in the plain input only, and so commutes
  with Horner's rule (`AffineDistributes`, by a function that keeps both sums
  step by step): what the verifier interpolates at an open party is what its share
  broadcasts, and the inverse of the protocol gives the share back from its witness part.
  For party 0, the one at infinity, both sides leave the constant out.
  `ImplementsScheme`: `Spec => SchemeSpec`, the variant that hashes the message last
  included.  `HidesWitness`: `Spec => []WitnessIndistinguishable`.  Given another
  solution of the public equation, its witness parts of the coefficients are obtained by
  interpolating through those of the open parties and that solution
  (`Interpolation`, by the least number of points for which it would fail, dividing by the
  difference of two points); the other parts follow from the broadcasts.  It uses that fewer parties
  open than there are, and that they are as many as the coefficients.
  `SignsInBuffer`: `Spec => []SignatureFits`.  Every node of an authentication path
  is the child of a node on the path of an open leaf, and each of those has one such
  child at most; above the floor of 2^c nodes the paths have at most 2^c - 1 nodes, and
  below at most one for each open leaf and floor.  With r open leaves of 2^n
  the path has r (n - c) + 2^c - r nodes at most, for any c.

The inductive invariants of `MerkleTree` were also model-checked on the shapes of
`merkle` and those of `AdditiveSign` on the builds of `additive_sign`.

Assumptions: those of the modules on their constants, which TLC evaluates on every
run.  `PowersOfTwo` (in `MerkleTree` and `SeedTree`) states what is used of 2^d for
the depths of a tree, and `BuildsAssumption` that 2^log is a number, because the provers
know nothing of exponents.  `ShapesAssumption` of `SeedTree` bounds trees as
`malloc_seed_tree` and the numbering on two bytes do, and leaves out those with less
than four leaves, which `reconstruct_tree` could not treat.  `SharesAssumption` says that
the witness of a key and the shares expanded from seeds are made of field elements:
the samplers of the fields return normalised elements.
`Supported`, in `ThresholdSign`, has besides the exponents what its parameters satisfy: at
most 256 parties, since an evaluation point is one byte, no more than the field has
elements, and fewer open than there are.  `SpaceAssumption` is about the sizes in the
parameter files: for some c, r (n - c) + 2^c - r is at most
`PARAM_TREE_NB_MAX_OPEN_LEAVES` (3 open leaves of 2^8, with c = 2, give exactly the 19 that
`mpc/minrank/fen22-lp` and `mpc/sd/sdith` reserve), and a broadcast, which is sent in place of
the uniform and corrected parts of a share, is not longer than they are.  `FieldAssumption` says that the
integers modulo Q have inverses, `WellFormed` what the preprocessor and
`malloc_seed_tree` check of the parameters, `ChallengesAssumption` that challenges are
field elements, the last one of the seven rounds not being an interpolation point.  `WidthIsEnough` is a hypothesis of `OrderedQueue` and `BindsRoot` only,
which are false without it; every parameter set satisfies it (256 leaves at most).

Only model-checked:

* liveness and every property under fairness, which are out of the prover's reach;
* `SameBroadcasts` and `SchemeSpec` of `NonLinearSign`: its broadcasts are the coefficients
  of a polynomial of the degree of the circuit, which are sums of products over the sets of
  the circuit, given as operators; that the code's interpolation finds them is an
  induction on the degree over such sums, which the provers cannot take as a parameter;
* what the recursive operators of `Fields`, `Vectors`, `RankMetric` and the protocols
  compute (`Arithmetic`, `Protocols`), since the prover cannot reason about RECURSIVE
  definitions and has no induction over data.

## What is not modelled

* Memory management: leaks, releases, and failures of `malloc`.  Reads past the
  end of an array in `mirith` (the last columns of a product, 16-byte loads) are
  modelled where they meet padding that is multiplied by zero or discarded.
* Cryptographic strength.  Hashes are injective constructors, generators are
  functions, challenges are arbitrary; the probability that a cheating signer
  guesses a challenge is not a question for these models.
* AES and Keccak, and the two thin layers over them: third-party code that is
  idealised.  `prg_init` and its four-way versions, which format a key from a salt
  and a seed: the four-way version with a salt has no caller.
* The interface `crypto_sign`, `crypto_sign_open`, and the bytes of serialised keys
  and signatures; the signature modules model lengths and which fields are present.
* Applications, benchmarks and unit tests.

Abstractions of what is modelled:

* In the signature modules the protocol is that of one quadratic equation (or of a
  code of length two) over a small prime field, and challenges and random values
  are fixed non-degenerate ones.  The protocols themselves, over the fields
  of the builds, are in `Protocols`; the challenges there are fixed values too, but
  for the points that `mqom` draws again.
* An altered path of seeds changes all the seeds that are under it, and no seed of a
  path made for another hidden party is right.
* In `Protocols` shares are combined member by member; the compressed broadcast is
  the broadcast with `v` zeroed; the last row of `v` of `mpc/rank-sd/fen22-rd` is
  left out.  The interpolation for circuits deeper than two, which no signature
  builds, is not modelled.
* `div_ct`, the constant-time division of the selectors, is a division, and the
  vector code of GF(251) (`gf251-avx2-ct.c`) is the sums that it computes.  `Reduce32`
  takes its 64-bit product on limbs of 13 bits, on values below 2^31.  The precomputed powers of `mqom` and `sdith`, the `e2_power` tables
  of `aimer` and the `__gf16_mulbase` tables of `mirith` are the values they hold, which
  were compared with the headers entry by entry.  Powers tables of challenges are
  evaluated by Horner's rule.  Trailing zero coefficients of linearized polynomials
  are kept.  Functions of `blas_avx2.h` that nothing calls, printing and copies are
  left out.
* `sign-mpcith-threshold-ggm-extended.c` calls `prg_init_x4` with an argument less than
  its header has when `PARAM_RND_EXPANSION_X4` is defined (line 437), so that this
  option does not compile; the model is the program without it.

## Plan

Done, in this order: `MerkleTree`, `SeedTree`, `ViewChallenge`,
`PrgStream` over `ByteStream`, `Packing` and `MqProtocol`,
`AdditiveSign`, `ThresholdSign`, `SevenRoundSign`, `NonLinearMpc` and `NonLinearSign`, all four
over `SignatureScheme`; `Fields` to `Arithmetic`; `AlgebraicProtocols`,
`RankProtocols`, `Problems` and `Protocols`; the proofs on the two trees, the view
challenge and the generator, then those on `AdditiveSign`, `SevenRoundSign` and
`ThresholdSign`.

Left for the model:

1. `SignApi`: keys, `crypto_sign` and `crypto_sign_open`, over an abstract scheme;
   the ownership of the instance that two keys share.
2. `PrgInit`: salt and seed in the single and four-way initialisations.
3. Serialisation of the instances of the protocols.

Proof left: `SameBroadcasts` of `NonLinearSign` for a fixed degree, that is for one
quadratic equation without a selector, where interpolation is by three points and needs
no induction.
