----------------------------- MODULE ByteStream -----------------------------
(***************************************************************************)
(* What a pipe promises: a bounded stream of bytes.  Bytes come out in the *)
(* order in which they went in, each once, and no more than Capacity are   *)
(* under way.  Byte values are running numbers, counted modulo Labels so   *)
(* that a stream may go on for ever.                                       *)
(*                                                                         *)
(* The promise does not cover a copy to or from user memory that is        *)
(* interrupted by a page fault: from such a moment on, until the next pipe *)
(* is made, the stream is broken and anything may come out.                *)
(***************************************************************************)
EXTENDS Naturals, Sequences

CONSTANTS Capacity, Labels

VARIABLES stream,   \* the bytes under way, the oldest first
          next,     \* the number of the next byte to go in
          given,    \* the bytes the last read was given
          broken

vars == <<stream, next, given, broken>>

Init == stream = <<>> /\ next = 0 /\ given = <<>> /\ broken = FALSE

Numbered(n) == [i \in 1..n |-> (next + i - 1) % Labels]

Put == \E n \in 1..(Capacity - Len(stream)) :
         /\ stream' = stream \o Numbered(n)
         /\ next' = (next + n) % Labels
         /\ UNCHANGED <<given, broken>>

Take == \E n \in 1..Len(stream) :
          /\ given' = SubSeq(stream, 1, n)
          /\ stream' = SubSeq(stream, n + 1, Len(stream))
          /\ UNCHANGED <<next, broken>>

(* The reader has used what it was given. *)
Used == given' = <<>> /\ UNCHANGED <<stream, next, broken>>

New == Init'

Break == broken'

Next == Put \/ Take \/ Used \/ New \/ Break

Spec == Init /\ [][Next]_vars
=============================================================================
