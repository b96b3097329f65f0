----------------------------- MODULE SerialDriver -----------------------------
(***************************************************************************)
(* A serial line under names of its own, so that it can stand beside the   *)
(* pipe, whose ring is the other queue of bytes, and the other drivers.    *)
(***************************************************************************)
EXTENDS Integers, Sequences

CONSTANTS TTY_BUF_SIZE, LineRoom, LineRest,
          MaxOut, MaxIn, MaxLostInterrupts   \* bounds

VARIABLE sl

SL == INSTANCE SerialLine WITH SIZE <- TTY_BUF_SIZE, ROOM <- LineRoom, STARTUP <- LineRest,
                               NrOut <- MaxOut, NrIn <- MaxIn, MaxLost <- MaxLostInterrupts

LineSpec == SL!Init /\ [][SL!Next]_sl

(* SerialLine: each character put in a serial queue goes over the line once, in order; of
   what comes in only what finds the queue full is lost. *)
LineExact == SL!LineExact
=============================================================================
