----------------------------- MODULE MCInodes ------------------------------
(* Inodes, with a table of three entries. Every directory can be mounted on, so
   that the directories can be exchanged with each other. *)
EXTENDS Inodes, TLC
Symm == Permutations(Proc) \cup Permutations(Slot) \cup Permutations(File)
=============================================================================
