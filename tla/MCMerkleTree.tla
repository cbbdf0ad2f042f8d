----------------------------- MODULE MCMerkleTree -----------------------------
(***************************************************************************)
(* Instances of MerkleTree for TLC.                                        *)
(***************************************************************************)
EXTENDS MerkleTree

\* All openings of all trees of up to six leaves, and the openings of at most
\* three leaves of the larger trees: 3 is PARAM_NB_REVEALED of the threshold
\* schemes, and floors of 9 to 16 leaves are the first with a four-way group.
PassShapes == {sh \in (1..6) \X (1..6) : sh[2] <= sh[1]} \cup ({7, 8, 9, 11, 14, 15, 16} \X (1..3))

\* With uint16_t three bits wide, the header allows up to seven leaves: the trees
\* of five to seven leaves have height 3, and 1 << 3 does not fit.
DocShapes == (5..7) \X (1..2)
=============================================================================
