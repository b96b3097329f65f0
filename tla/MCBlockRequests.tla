-------------------------- MODULE MCBlockRequests --------------------------
(* BlockRequests with three requests, of which writes may use two. *)
EXTENDS BlockRequests, TLC
CONSTANTS b1, b2
TwoBlocks == (b1 :> 1 @@ b2 :> 4)
=============================================================================
