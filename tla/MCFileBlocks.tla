--------------------------- MODULE MCFileBlocks ----------------------------
(* FileBlocks: files of 1 + 2 + 4 blocks on a device of a few. *)
EXTENDS FileBlocks, TLC
=============================================================================
