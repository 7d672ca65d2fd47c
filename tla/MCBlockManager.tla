--------------------------- MODULE MCBlockManager ---------------------------
(* Instances of BlockManager for TLC. *)
EXTENDS BlockManager, TLC

(* A hash that loses nothing: the whole prefix, token by token. *)
ChainedHash(tokens, prefix) == prefix \o tokens

(* A hash that forgets the prefix: blocks that end alike collide, also two    *)
(* blocks of one sequence, which then shares one block twice.               *)
CollidingHash(tokens, prefix) == <<tokens[Len(tokens)]>>

MCPrompts == {<<1, 2, 1>>, <<1, 2, 2>>, <<1, 2, 1, 2>>}
CollidingPrompts == {<<1, 1, 1, 1, 1>>, <<2, 1, 1>>}

SeqSymmetry == Permutations(Seqs)
=============================================================================
