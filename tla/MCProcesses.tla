---------------------------- MODULE MCProcesses ----------------------------
EXTENDS Processes, TLC

(* The order of the slots other than init's does not matter. *)
Slots == Permutations(Task \ {Init1})

MCWaitCalls == {[by |-> "any", id |-> NoTask, untraced |-> TRUE, nohang |-> FALSE],
                [by |-> "own", id |-> NoTask, untraced |-> FALSE, nohang |-> TRUE]}
=============================================================================
