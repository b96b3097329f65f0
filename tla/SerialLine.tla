------------------------------ MODULE SerialLine ------------------------------
(***************************************************************************)
(* A serial line: kernel/chr_drv/serial.c, the interrupts of rs_io.s, and  *)
(* tty_write of tty_io.c on top of them.  The chip interrupts when it can  *)
(* take another character and when one has come in; an interrupt for the   *)
(* first may be lost, which the timer of do_rs_write is there for.         *)
(***************************************************************************)
EXTENDS Integers, Sequences

CONSTANTS SIZE,          \* TTY_BUF_SIZE
          ROOM, STARTUP, \* sleep_if_full waits for this room; the interrupt wakes at this rest
          NrOut, NrIn,   \* bound: characters written, and received
          MaxLost        \* bound: interrupts lost

VARIABLE sl

(* tie, thre: the transmit interrupt is enabled, the chip can take a character; irq: it
   asks; timeout, timer: SERx_TIMEOUT and SERx_TIMER are active; pc: the process in
   tty_write, which has put "put" of its NrOut characters.  sent: what went over the line;
   cooked: what copy_to_cooked was given. *)
Sl0 == [write_q |-> <<>>, read_q |-> <<>>, tie |-> FALSE, thre |-> TRUE, irq |-> FALSE,
        timeout |-> FALSE, timer |-> FALSE, pc |-> "out", put |-> 0, sent |-> 0, exact |-> TRUE,
        come |-> 0, dropped |-> {}, cooked |-> <<>>, lost |-> 0]

Init == sl = Sl0

Left(q) == SIZE - 1 - Len(q)
Full(q) == Left(q) = 0

(* The interrupt is asked for, or gets lost. *)
Raised(s) == {[s EXCEPT !.irq = TRUE]}
             \cup (IF s.lost < MaxLost THEN {[s EXCEPT !.lost = @ + 1]} ELSE {})

EnableTie(s) == IF s.tie \/ ~s.thre THEN {[s EXCEPT !.tie = TRUE]} ELSE Raised([s EXCEPT !.tie = TRUE])

(* A character goes to the chip. *)
Send(s) == [s EXCEPT !.thre = FALSE, !.irq = FALSE, !.write_q = Tail(@), !.sent = @ + 1,
                     !.exact = @ /\ Head(s.write_q) = s.sent + 1]

Woken(s) == [s EXCEPT !.pc = IF @ = "asleep" THEN "full" ELSE @]

-----------------------------------------------------------------------------
NotRearmed(s) ==
  IF s.write_q = <<>> THEN {[s EXCEPT !.timeout = FALSE]}
  ELSE {IF t.thre THEN Send(t) ELSE t : t \in EnableTie([s EXCEPT !.timeout = FALSE])}
DoRsWrite(s) ==
  IF s.write_q = <<>> THEN {[s EXCEPT !.timeout = FALSE]}
  ELSE {IF t.thre THEN Send(t) ELSE t : t \in EnableTie([s EXCEPT !.timeout = TRUE])}

RsWrite(s) == {[t EXCEPT !.timeout = TRUE] : t \in IF s.write_q = <<>> THEN {s} ELSE EnableTie(s)}

WriteBufferEmpty(s) == [Woken(s) EXCEPT !.tie = FALSE, !.irq = FALSE]

SentTwice(s) == IF s.write_q = <<>> THEN WriteBufferEmpty(s)
                ELSE [Send(Woken(s)) EXCEPT !.write_q = IF Len(s.write_q) > STARTUP THEN s.write_q ELSE @]
WriteChar(s) ==
  IF s.write_q = <<>> THEN WriteBufferEmpty(s)
  ELSE LET t == Send(IF Len(s.write_q) <= STARTUP THEN Woken(s) ELSE s)
       IN  IF t.write_q = <<>> THEN WriteBufferEmpty(t) ELSE t

ReadChar(s) ==
  LET full == Full(s.read_q)
      c == s.come + 1
  IN  [s EXCEPT !.come = c, !.timer = TRUE, !.read_q = IF full THEN @ ELSE Append(@, c),
                !.dropped = IF full THEN @ \cup {c} ELSE @]

-----------------------------------------------------------------------------
(* tty_write: the room is looked at, a character is put, the line is started. *)
TtyWrite ==
  \/ sl.pc = "out" /\ sl.put < NrOut /\ sl' = [sl EXCEPT !.pc = "look"]
  \/ sl.pc = "look" /\ sl' = [sl EXCEPT !.pc = IF Full(sl.write_q) THEN "full" ELSE "fill"]
  \/ sl.pc = "full" /\ sl' = [sl EXCEPT !.pc = IF Left(sl.write_q) < ROOM THEN "asleep" ELSE "fill"]
  \/ /\ sl.pc = "fill"
     /\ sl' = IF sl.put < NrOut /\ ~Full(sl.write_q)
              THEN [sl EXCEPT !.put = @ + 1, !.write_q = Append(@, sl.put + 1)]
              ELSE [sl EXCEPT !.pc = "start"]
  \/ /\ sl.pc = "start"
     /\ \E s \in RsWrite(sl) : sl' = [s EXCEPT !.pc = IF s.put < NrOut THEN "look" ELSE "out"]

Transmit == sl.irq /\ sl' = WriteChar(sl)

(* The chip has sent its character. *)
Shifted ==
  /\ ~sl.thre
  /\ sl' \in LET s == [sl EXCEPT !.thre = TRUE] IN IF s.tie THEN Raised(s) ELSE {s}

Receive == sl.come < NrIn /\ sl' = ReadChar(sl)

(* The timers: com1_timeout, which may forestall an interrupt (it is lost then), and
   com1_timer, which hands the characters on: somebody reads, so that secondary, where
   copy_to_cooked puts them and which is not modelled, has room for all of them. *)
Timeout ==
  /\ sl.timeout /\ (sl.irq => sl.lost < MaxLost)
  /\ sl' \in DoRsWrite([sl EXCEPT !.lost = IF sl.irq THEN @ + 1 ELSE @])
Timer == sl.timer /\ sl' = [sl EXCEPT !.timer = FALSE, !.cooked = @ \o sl.read_q, !.read_q = <<>>]

Next == TtyWrite \/ Transmit \/ Shifted \/ Receive \/ Timeout \/ Timer

-----------------------------------------------------------------------------
(* The line carries what was written, in order, each character once, whether the interrupt
   or the timer sends it; of what comes in only what finds the queue full is lost. *)
LineExact ==
  /\ sl.exact /\ sl.sent + Len(sl.write_q) = sl.put
  /\ LET kept == sl.cooked \o sl.read_q
     IN  /\ \A i, j \in 1..Len(kept) : i < j => kept[i] < kept[j]
         /\ {kept[i] : i \in 1..Len(kept)} = (1..sl.come) \ sl.dropped

(* A process that writes returns, though interrupts get lost, and all that was written is
   sent, all that was kept is handed on as long as secondary has room for it. *)
LineGoesOn ==
  /\ sl.pc # "out" ~> sl.pc = "out"
  /\ sl.put > sl.sent ~> sl.put = sl.sent
  /\ sl.read_q # <<>> ~> sl.read_q = <<>>
(***************************************************************************)
(* Why nothing is lost or sent twice: the inductive invariant of the       *)
(* proofs.                                                                 *)
(***************************************************************************)
Typed(s) ==
  s \in [write_q : Seq(Nat), read_q : Seq(Nat), tie : BOOLEAN, thre : BOOLEAN, irq : BOOLEAN,
         timeout : BOOLEAN, timer : BOOLEAN, put : Nat, sent : Nat, exact : BOOLEAN,
         pc : {"out", "look", "full", "asleep", "fill", "start"},
         come : Nat, dropped : SUBSET Nat, cooked : Seq(Nat), lost : Nat]

(* The queue holds what was put and is not yet sent. *)
OutFits(s) == /\ s.exact /\ s.sent + Len(s.write_q) = s.put
              /\ \A k \in 1..Len(s.write_q) : s.write_q[k] = s.sent + k

Rising(q) == \A i, j \in 1..Len(q) : i < j => q[i] < q[j]
Holds(q, S) == S = {q[i] : i \in 1..Len(q)}
InFits(s) == /\ s.dropped \subseteq 1..s.come
             /\ Rising(s.cooked \o s.read_q)
             /\ Holds(s.cooked \o s.read_q, (1..s.come) \ s.dropped)

Fits(s) == Typed(s) /\ OutFits(s) /\ InFits(s)
IInv == Fits(sl)
=============================================================================
