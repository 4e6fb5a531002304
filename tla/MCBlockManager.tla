---------------------------- MODULE MCBlockManager ----------------------------
(* Two sequences with the same prompt, which fills a block and starts the      *)
(* next, and free continuations that agree or differ in the second block; the *)
(* pool is too small for both without sharing.                                *)
EXTENDS BlockManager, TLC

SeqSymmetry == Permutations(Seqs)

MCPrompts == {<<1, 1, 1>>}
=============================================================================
