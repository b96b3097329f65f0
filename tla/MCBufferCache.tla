--------------------------- MODULE MCBufferCache ---------------------------
(* BufferCache; the tasks are alike, and so are the blocks but the one read ahead. *)
EXTENDS BufferCache, TLC
Symm == Permutations(Task) \cup Permutations(Block \ AheadBlock)
=============================================================================
