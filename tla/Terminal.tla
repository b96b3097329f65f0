------------------------------ MODULE Terminal ------------------------------
(***************************************************************************)
(* A terminal: kernel/chr_drv/tty_io.c and tty_ioctl.c, over a console,    *)
(* which puts everything on the screen at once unless output is stopped.   *)
(*                                                                         *)
(* The rings read_q, secondary and write_q are sequences; PUTCH into a     *)
(* full ring moves head onto tail, which empties it.  An interrupt is one  *)
(* step, and may come between any two steps of a process.  Those in which  *)
(* a process uses a ring that the interrupt uses too begin with a step of  *)
(* their own, and an interrupt that falls in between is noted in hist as   *)
(* "torn": what the rings hold then is not followed any further.           *)
(***************************************************************************)
EXTENDS Integers, Sequences, SequencesExt, FiniteSets

CONSTANTS Reader, Writer,
          Group,       \* process -> its process group
          SIZE,        \* TTY_BUF_SIZE: a ring holds one character less
          ROOM,        \* the 128 of sleep_if_full
          Mode,        \* termios settings: canon, echo, vmin, vtime
          Typed, MaxTyped,        \* characters that arrive, and how many
          Request, MaxIoctl,      \* ioctl calls, and how many
          Text, MaxWrites,        \* what a writer writes, and how many write
          NR           \* how much a reader asks for

Proc == Reader \cup Writer
NoOne == "no one"

ASSUME TerminalAssumption ==
  /\ SIZE \in Nat /\ ROOM \in 1..(SIZE - 1) /\ NR \in Nat \ {0}
  /\ {MaxTyped, MaxIoctl, MaxWrites} \subseteq Nat
  /\ Typed \subseteq {"a", "nl", "cr", "eof", "erase", "kill", "intr", "stop", "start"}
  /\ Request \subseteq {"flush in", "flush out", "stop", "start", "send stop", "group", "mode", "mode, flush"}

VARIABLES
          mode,    \* termios
          tty,     \* queues, device and timers, see Tty0
          fg,      \* tty->pgrp
          sig,     \* the processes with a signal pending
          rd, wr,  \* Reader, Writer -> the call it is in
          cr_flag, \* who has put a carriage return and not yet its newline
          typed, ioctls, writes, \* how many so far
          hist     \* not in the code: what has happened that spoils more, see End

vars == <<mode, tty, fg, sig, rd, wr, cr_flag, typed, ioctls, writes, hist>>

(* data: line ends in secondary.  What follows is not in the code: woken, queues woken by this step; intr, the
   foreground group gets a signal; wiped, write_q overflowed; out, what writers have sent;
   done and line, the input as lines, finished and being edited; flushed, cut: input,
   output was flushed. *)
Tty0 == [read_q |-> <<>>, secondary |-> <<>>, data |-> 0, write_q |-> <<>>, stopped |-> FALSE,
         woken |-> {}, intr |-> FALSE, wiped |-> FALSE, out |-> <<>>,
         done |-> <<>>, line |-> <<>>, flushed |-> FALSE, cut |-> FALSE]

Idle == [at |-> "out", nr |-> 0, got |-> 0, min |-> 0, time |-> FALSE, timeout |-> "none", pos |-> 1]

Init == /\ mode \in Mode /\ tty = Tty0
        /\ fg \in {Group[p] : p \in Proc} /\ sig = {}
        /\ rd = [p \in Reader |-> Idle] /\ wr = [p \in Writer |-> Idle] /\ cr_flag = NoOne
        /\ typed = 0 /\ ioctls = 0 /\ writes = 0 /\ hist = {}

Full(q) == Len(q) = SIZE - 1
Left(q) == SIZE - 1 - Len(q)
LineEnd(c) == c \in {"nl", "eof"}

(* PUTCH(c, tty->write_q), by whom. *)
Putch(s, who, c) == IF Full(s.write_q) THEN [s EXCEPT !.write_q = <<>>, !.wiped = TRUE]
                                       ELSE [s EXCEPT !.write_q = Append(@, <<who, c>>)]

-----------------------------------------------------------------------------
(* tty->write, here con_write. *)
TtyWrite(s) == LET w == [s EXCEPT !.woken = @ \cup {"write_q"}] IN
  IF s.stopped THEN w
  ELSE [w EXCEPT !.out = @ \o SelectSeq(s.write_q, LAMBDA e : e[1] # NoOne), !.write_q = <<>>]

(***************************************************************************)
(* copy_to_cooked.                                                         *)
(***************************************************************************)
(* What the input means: the line being edited, and the ones finished. *)
Edit(s, c) ==
  CASE mode.canon /\ c = "kill" -> [s EXCEPT !.line = <<>>]
    [] mode.canon /\ c = "erase" -> [s EXCEPT !.line = IF @ = <<>> THEN @ ELSE Front(@)]
    [] LineEnd(c) -> [s EXCEPT !.done = @ \o Append(s.line, c), !.line = <<>>]
    [] OTHER -> [s EXCEPT !.line = Append(@, c)]

(* The character before which erase and kill stop. *)
StopsAtNewline(q) == q = <<>> \/ Last(q) = "nl"
AtLineStart(q) == q = <<>> \/ LineEnd(Last(q))

Rubbed(s) ==
  IF AtLineStart(s.secondary) THEN s
  ELSE LET e == IF mode.echo THEN TtyWrite(Putch(s, NoOne, "del")) ELSE s
       IN  [e EXCEPT !.secondary = Front(@)]

Killed(s) == FoldLeft(LAMBDA u, c : Rubbed(u), s, s.secondary)

Echoed(s, c) ==
  IF ~mode.echo THEN s
  ELSE IF c = "nl" THEN Putch(Putch(s, NoOne, "nl"), NoOne, "cr") ELSE Putch(s, NoOne, c)

Counts(c) == LineEnd(c)

(* One character: ICRNL, IXON and ISIG are set with ICANON. *)
CookOne(s0) ==
  LET raw == Head(s0.read_q)
      c == IF raw = "cr" /\ mode.canon THEN "nl" ELSE raw
      s == [s0 EXCEPT !.read_q = Tail(@)]
  IN
  IF mode.canon /\ c = "kill" THEN Edit(Killed(s), c)
  ELSE IF mode.canon /\ c = "erase" THEN Edit(Rubbed(s), c)
  ELSE IF mode.canon /\ c \in {"stop", "start"} THEN TtyWrite([s EXCEPT !.stopped = (c = "stop")])
  ELSE IF mode.canon /\ c = "intr" THEN [s EXCEPT !.intr = TRUE]
  ELSE LET e == TtyWrite(Echoed([s EXCEPT !.data = @ + (IF Counts(c) THEN 1 ELSE 0)], c))
       IN  Edit([e EXCEPT !.secondary = Append(@, c)], c)

CanCook(s) == s.read_q # <<>> /\ ~Full(s.secondary)

CookAllQuietly(s) == FoldLeft(LAMBDA u, c : IF CanCook(u) THEN CookOne(u) ELSE u, s, s.read_q)
CookAll(s) ==
  [FoldLeft(LAMBDA u, c : IF CanCook(u) THEN CookOne(u) ELSE u, s, s.read_q)
   EXCEPT !.woken = @ \cup {"secondary"}]

(* The step ends with state s: the sleepers it has woken run, the foreground group has
   its signal.  seen: "torn", see above; "crossed", a process has put a character between
   the carriage return and the newline of another; "changed", termios or the foreground
   group have changed while somebody reads; and "wiped", something was put in a full write_q. *)
Woken(f, procs, queue, s) ==
  [p \in procs |-> IF f[p].at = "asleep" /\ queue \in s.woken THEN [f[p] EXCEPT !.at = "awake"] ELSE f[p]]

Signalled(s) == IF s.intr THEN {p \in Proc : /\ Group[p] = fg
                                             /\ (IF p \in Reader THEN rd[p].at ELSE wr[p].at) # "out"}
                          ELSE {}

End(s, r, w, drop, seen) ==
  /\ hist' = hist \cup seen \cup (IF s.wiped THEN {"wiped"} ELSE {})
  /\ tty' = [s EXCEPT !.woken = {}, !.intr = FALSE, !.wiped = FALSE]
  /\ rd' = Woken(r, Reader, "secondary", s)
  /\ wr' = Woken(w, Writer, "write_q", s)
  /\ sig' = (sig \cup Signalled(s)) \ drop

-----------------------------------------------------------------------------
(* A key.  put_queue drops it when read_q is full; the interrupt ends with
   copy_to_cooked. *)
Received(c) == IF Full(tty.read_q) THEN tty ELSE [tty EXCEPT !.read_q = Append(@, c)]

(* The interrupt falls into a copy_to_cooked of the process; it counts, kills or erases
   while the process takes a character; it echoes while the process puts one in write_q, or
   sends that to the screen while the process does. *)
Torn(s) ==
  \/ \E p \in Reader : \/ rd[p].at = "cooking"
                       \/ rd[p].at = "taking" /\ (s.data # tty.data \/ ~IsPrefix(tty.secondary, s.secondary))
  \/ "write_q" \in s.woken /\ \E p \in Writer : wr[p].at = "writing" \/ (wr[p].at = "putting" /\ mode.echo)

Arrive(c) ==
  /\ typed < MaxTyped /\ typed' = typed + 1
  /\ LET s == CookAll(Received(c)) IN End(s, rd, wr, {}, IF Torn(s) THEN {"torn"} ELSE {})
  /\ UNCHANGED <<mode, fg, cr_flag, ioctls, writes>>

(***************************************************************************)
(* tty_read.                                                               *)
(***************************************************************************)
Return(p) == [rd EXCEPT ![p] = Idle]

(* A reader of another group than the terminal's gets SIGTTIN and returns at once. *)
Read(p, nonblock) ==
  /\ rd[p].at = "out"
  /\ IF Group[p] # fg THEN UNCHANGED rd
     ELSE rd' = [rd EXCEPT ![p] =
            [Idle EXCEPT !.at = "cook", !.nr = NR,
               !.min = IF mode.canon \/ mode.vmin = 0 \/ mode.vmin > NR THEN NR ELSE mode.vmin,
               !.time = ~nonblock /\ ~mode.canon /\ mode.vmin > 0 /\ mode.vtime,
               !.timeout = IF nonblock THEN "none"
                           ELSE IF mode.canon \/ mode.vmin > 0 THEN "ever"
                           ELSE IF mode.vtime THEN "set" ELSE "none"]]
  /\ UNCHANGED <<mode, tty, fg, sig, wr, cr_flag, typed, ioctls, writes, hist>>

(* copy_to_cooked: it finds a character to cook, cooks it, and looks again. *)
ReadCook(p) ==
  /\ IF rd[p].at = "cook"
     THEN IF CanCook(tty) THEN End(tty, [rd EXCEPT ![p].at = "cooking"], wr, {}, {})
          ELSE End([tty EXCEPT !.woken = {"secondary"}], [rd EXCEPT ![p].at = "test"], wr, {}, {})
     ELSE rd[p].at = "cooking" /\ End(CookOne(tty), [rd EXCEPT ![p].at = "cook"], wr, {}, {})
  /\ UNCHANGED <<mode, fg, cr_flag, typed, ioctls, writes>>

NothingToRead ==
  \/ tty.secondary = <<>>
  \/ mode.canon /\ ~Full(tty.read_q) /\ tty.data = 0

ReadTest(p) ==
  /\ rd[p].at = "test"
  /\ \/ /\ NothingToRead /\ (rd[p].timeout = "none" \/ p \in sig)
        /\ rd' = Return(p) /\ sig' = sig \ {p}
     \/ /\ NothingToRead /\ rd[p].timeout # "none" /\ p \notin sig
        /\ rd' = [rd EXCEPT ![p].at = "asleep"] /\ UNCHANGED sig
     \/ ~NothingToRead /\ rd' = [rd EXCEPT ![p].at = "taking"] /\ UNCHANGED sig
  /\ UNCHANGED <<mode, tty, fg, wr, cr_flag, typed, ioctls, writes, hist>>

(* Woken, by a key (the signal of one comes with a wake_up), or by the timeout. *)
ReadWake(p) ==
  /\ \/ rd[p].at = "awake" /\ rd' = [rd EXCEPT ![p].at = "cook"]
     \/ /\ rd[p].at = "asleep" /\ rd[p].timeout = "set"
        /\ rd' = [rd EXCEPT ![p].at = "cook", ![p].timeout = "none"]
  /\ UNCHANGED <<mode, tty, fg, sig, wr, cr_flag, typed, ioctls, writes, hist>>

(* The input is a character shorter, at the front. *)
Taken(s) == [s EXCEPT !.secondary = Tail(@), !.data = @ - (IF LineEnd(Head(s.secondary)) THEN 1 ELSE 0),
                      !.done = IF @ = <<>> THEN @ ELSE Tail(@),
                      !.line = IF s.done = <<>> THEN Tail(@) ELSE @]

(* The loop ends with got characters: the call returns, or it waits for more. *)
ReadOver(p, got, s) ==
  LET back == mode.canon \/ got >= rd[p].min
  IN  End(s, IF back THEN Return(p)
             ELSE [rd EXCEPT ![p].got = got, ![p].at = "test", ![p].timeout = IF rd[p].time THEN "set" ELSE @],
          wr, IF back THEN {p} ELSE {}, {})

(* GETCH, and the count of the line ends; then the loop's test. *)
ReadTake(p) ==
  LET c == Head(tty.secondary)
      eof == c = "eof" /\ mode.canon
      got == IF eof THEN rd[p].got ELSE rd[p].got + 1
  IN
  /\ \/ /\ rd[p].at = "taking"
        /\ IF eof \/ got = rd[p].nr \/ (c = "nl" /\ mode.canon) THEN ReadOver(p, got, Taken(tty))
           ELSE End(Taken(tty), [rd EXCEPT ![p].got = got, ![p].at = "take"], wr, {}, {})
     \/ /\ rd[p].at = "take"
        /\ IF tty.secondary = <<>> THEN ReadOver(p, rd[p].got, tty)
           ELSE End(tty, [rd EXCEPT ![p].at = "taking"], wr, {}, {})
  /\ UNCHANGED <<mode, fg, cr_flag, typed, ioctls, writes>>

(***************************************************************************)
(* tty_write.                                                              *)
(***************************************************************************)
Write(p) ==
  /\ wr[p].at = "out" /\ wr[p].pos = 1 /\ writes < MaxWrites
  /\ writes' = writes + 1
  /\ wr' = [wr EXCEPT ![p].at = "room"]
  /\ UNCHANGED <<mode, tty, fg, sig, rd, cr_flag, typed, ioctls, hist>>

WriteBack(p) == wr' = [wr EXCEPT ![p].at = "out"] /\ sig' = sig \ {p}

(* sleep_if_full. *)
WriteRoom(p) ==
  LET ok == IF wr[p].at = "room" THEN ~Full(tty.write_q) ELSE Left(tty.write_q) >= ROOM IN
  /\ wr[p].at \in {"room", "awake"}
  /\ \/ p \in sig /\ WriteBack(p)
     \/ p \notin sig /\ ok /\ wr' = [wr EXCEPT ![p].at = "put"] /\ UNCHANGED sig
     \/ p \notin sig /\ ~ok /\ wr' = [wr EXCEPT ![p].at = "asleep"] /\ UNCHANGED sig
  /\ UNCHANGED <<mode, tty, fg, rd, cr_flag, typed, ioctls, writes, hist>>

WriteWake(p) ==
  /\ wr[p].at = "asleep" /\ p \in sig /\ wr' = [wr EXCEPT ![p].at = "awake"]
  /\ UNCHANGED <<mode, tty, fg, sig, rd, cr_flag, typed, ioctls, writes, hist>>

CrNext(p, cr) == IF cr THEN p ELSE NoOne

(* The loop's test, and PUTCH. *)
WritePut(p) ==
  LET c == Text[wr[p].pos]
      cr == c = "nl" /\ cr_flag = NoOne
  IN
  /\ \/ /\ wr[p].at = "put" /\ wr[p].pos <= Len(Text) /\ ~Full(tty.write_q)
        /\ End(tty, rd, [wr EXCEPT ![p].at = "putting"], {}, {}) /\ UNCHANGED cr_flag
     \/ /\ wr[p].at = "putting"
        /\ cr_flag' = CrNext(p, cr)
        /\ End(Putch(tty, p, IF cr THEN "cr" ELSE c), rd,
               [wr EXCEPT ![p].at = "put", ![p].pos = IF cr THEN @ ELSE @ + 1], {},
               IF cr_flag \in {NoOne, p} THEN {} ELSE {"crossed"})
  /\ UNCHANGED <<mode, fg, typed, ioctls, writes>>

(* tty->write, and the end of the call or the next sleep_if_full. *)
WriteOut(p) ==
  LET over == wr[p].pos > Len(Text) IN
  /\ \/ /\ wr[p].at = "put" /\ (over \/ Full(tty.write_q))
        /\ End(tty, rd, [wr EXCEPT ![p].at = "writing"], {}, {})
     \/ /\ wr[p].at = "writing"
        /\ End(TtyWrite(tty), rd, [wr EXCEPT ![p].at = IF over THEN "out" ELSE "room"],
               IF over THEN {p} ELSE {}, {})
  /\ UNCHANGED <<mode, fg, cr_flag, typed, ioctls, writes>>

(***************************************************************************)
(* tty_ioctl.                                                              *)
(***************************************************************************)
FlushIn(s) == [s EXCEPT !.read_q = <<>>, !.secondary = <<>>, !.woken = @ \cup {"secondary"},
                        !.done = <<>>, !.line = <<>>, !.flushed = TRUE]
FlushOut(s) == [s EXCEPT !.write_q = <<>>, !.woken = @ \cup {"write_q"}, !.cut = TRUE]

Answer(req, s) ==
  CASE req \in {"flush in", "mode, flush"} -> FlushIn(s)
    [] req = "flush out" -> FlushOut(s)
    [] req = "stop" -> TtyWrite([s EXCEPT !.stopped = TRUE])
    [] req = "start" -> TtyWrite([s EXCEPT !.stopped = FALSE])
    [] req = "send stop" -> Putch(s, NoOne, "stop")
    [] OTHER -> s

Ioctl(req) ==
  LET quiet == \A p \in Reader : rd[p].at = "out" IN
  /\ ioctls < MaxIoctl /\ ioctls' = ioctls + 1
  /\ IF req \in {"mode", "mode, flush"} THEN mode' \in Mode ELSE UNCHANGED mode
  /\ IF req = "group" THEN fg' \in {Group[p] : p \in Proc} ELSE UNCHANGED fg
  /\ End(Answer(req, tty), rd, wr, {},
         IF req \in {"group", "mode", "mode, flush"} /\ ~quiet THEN {"changed"} ELSE {})
  /\ UNCHANGED <<cr_flag, typed, writes>>

-----------------------------------------------------------------------------
ReaderStep(p) == ReadCook(p) \/ ReadTest(p) \/ ReadWake(p) \/ ReadTake(p)
WriterStep(p) == WriteRoom(p) \/ WriteWake(p) \/ WritePut(p) \/ WriteOut(p)

(* No process runs while another is in the middle of something; one that is between test
   and PUTCH of tty_write may sleep in get_fs_byte. *)
Alone(procs) == /\ \A p \in Reader \ procs : rd[p].at \notin {"cooking", "taking"}
                /\ \A p \in Writer \ procs : wr[p].at # "writing"

Next == /\ "torn" \notin hist
        /\ \/ \E c \in Typed : Arrive(c)
           \/ Alone({}) /\ \E req \in Request : Ioctl(req)
           \/ \E p \in Reader : Alone({p}) /\ ((\E nonblock \in BOOLEAN : Read(p, nonblock)) \/ ReaderStep(p))
           \/ \E p \in Writer : Alone({p}) /\ (Write(p) \/ WriterStep(p))

Spec == Init /\ [][Next]_vars

-----------------------------------------------------------------------------
LineEnds(q) == Len(SelectSeq(q, LineEnd))

(* secondary holds the lines that were typed, as edited: erase and kill never reach a line
   that is finished, however copy_to_cooked and the reader take turns.  Until a key comes in
   the middle of one of them; see Torn. *)
Edited == "torn" \notin hist => tty.secondary = tty.done \o tty.line

(* Nobody sleeps for input that is there: not for a line in secondary, and not for
   characters in read_q, unless secondary is full.  Until a key comes in the middle of
   copy_to_cooked or of the count of a line that is read (see Torn); while termios and the
   foreground group are left alone; for one reader, that asks for no more than secondary
   holds or with VMIN. *)
NobodySleepsOnInput ==
  hist \cap {"torn", "changed"} = {} =>
    \A p \in Reader : rd[p].at = "asleep" =>
      /\ mode.canon => LineEnds(tty.secondary) = 0
      /\ ~mode.canon => tty.secondary = <<>>
      /\ tty.read_q = <<>> \/ Full(tty.secondary)

Expanded(t) == FlattenSeq([i \in 1..Len(t) |-> IF t[i] = "nl" THEN <<"cr", "nl">> ELSE <<t[i]>>])

=============================================================================
