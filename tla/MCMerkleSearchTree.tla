------------------------- MODULE MCMerkleSearchTree -------------------------
(* The tree on four keys, some a prefix of others, with every hash.        *)
EXTENDS MerkleSearchTree

MCKeys == {<<1>>, <<1, 2>>, <<1, 2, 1>>, <<2>>}
=============================================================================
