-------------------------------- MODULE Floppy --------------------------------
(***************************************************************************)
(* The floppy driver: kernel/blk_drv/floppy.c and the motors, which        *)
(* kernel/sched.c keeps.  The controller works for the drive the output    *)
(* register (DOR) selects.  It may refuse a byte, fail in a command or     *)
(* interrupt unasked; an interrupt is never lost, which this driver, with  *)
(* no timeout, relies on.  It refuses to read or write where the head is   *)
(* on another track, as the sectors are labelled.                          *)
(*                                                                         *)
(* As in HardDisk the driver is a record, fd, and a pass of do_fd_request  *)
(* and what it calls is one step.  A track holds one block, and a clock    *)
(* tick finds no command under way: a command is far shorter than the time *)
(* a motor is left running.                                                *)
(***************************************************************************)
EXTENDS Integers, Sequences, FiniteSets

CONSTANTS Request,        \* requests: id |-> [cmd, drive, track], ids 1.., added in this order
          Drive, Track,   \* drives; the tracks a disk has are 0..
          MAX_ERRORS, TRACK_ERRORS,   \* errors before giving up; before a track is no longer read whole
          SPIN, SELECT, OFF,          \* ticks: to spin up, to select, until a motor stops
          MaxFaults       \* bound: times the controller or a disk misbehaves

VARIABLE fd

Id == DOMAIN Request
None == [track |-> -1, drive |-> -1, val |-> 0]
NoTimer == [fn |-> "none", left |-> 0]
Long == OFF + 1           \* moff_timer of a drive in use: 100 s, taken not to run out

(* dor, motor: the drive the DOR selects and the motors it has on; op: the controller's
   command; chg: the process in floppy_change.  Not in the code: head, disk, what the
   drives are; on, ticks since a motor was started; value, what a read gave; unsure, the
   blocks a write has failed on; wrong, the reads that gave something else than the disk. *)
Fd0 == [queue |-> <<>>, do_floppy |-> "NULL", reset |-> FALSE, recal |-> FALSE, seek |-> FALSE,
        read_track |-> FALSE, current_drive |-> 0, current_track |-> 255, selected |-> FALSE,
        buffer |-> None, timer |-> NoTimer, pc |-> "idle", op |-> "none",
        dor |-> 0, motor |-> {}, mon |-> [d \in Drive |-> 0], moff |-> [d \in Drive |-> 0],
        chg |-> [pc |-> "none", nr |-> 0],
        head |-> [d \in Drive |-> 0], disk |-> [d \in Drive |-> [t \in Track |-> 0]],
        on |-> [d \in Drive |-> 0], ended |-> {}, unsure |-> {}, wrong |-> {}, faults |-> 0]

Init == fd = Fd0

Id1(h) == Head(h.queue).id
Current(h) == Request[Id1(h)]
Idle == fd.pc = "idle"
MayFail(h) == h.faults < MaxFaults
Faulty(h) == [h EXCEPT !.faults = @ + 1]

-----------------------------------------------------------------------------
(* The motors. *)

(* ticks_to_floppy_on: the ticks are mon[nr] of the result. *)
TicksToFloppyOn(h, nr) ==
  LET dor == IF h.selected THEN h.dor ELSE nr
      mon == IF nr \notin h.motor THEN SPIN
             ELSE IF dor # h.dor /\ h.mon[nr] < SELECT THEN SELECT ELSE h.mon[nr]
  IN  [h EXCEPT !.moff[nr] = Long, !.motor = @ \cup {nr}, !.dor = dor, !.mon[nr] = mon,
                !.on[nr] = IF nr \in h.motor THEN @ ELSE 0]

FloppyOff(h, nr) == [h EXCEPT !.moff[nr] = OFF]

(* do_floppy_timer. *)
DoFloppyTimer(h) ==
  LET stops == {d \in h.motor : h.mon[d] = 0 /\ h.moff[d] = 0}
      runs == {d \in h.motor : h.mon[d] = 0 /\ h.moff[d] \in 1..OFF}
      up == {d \in h.motor : h.mon[d] = 1}
  IN  [h EXCEPT !.motor = @ \ stops,
                !.mon = [d \in Drive |-> IF d \in h.motor /\ @[d] > 0 THEN @[d] - 1 ELSE @[d]],
                !.moff = [d \in Drive |-> IF d \in runs THEN @[d] - 1 ELSE @[d]],
                !.chg.pc = IF @ = "spin" /\ h.chg.nr \in up THEN "on" ELSE @]

-----------------------------------------------------------------------------
FloppyDeselect(h) == [h EXCEPT !.selected = FALSE,
                               !.chg.pc = IF @ = "asleep" THEN "select" ELSE @]

EndRequest(h, ok) ==
  LET blk == <<Current(h).drive, Current(h).track>>
  IN  [FloppyOff(h, Current(h).drive) EXCEPT
         !.queue = Tail(@), !.ended = @ \cup {Id1(h)},
         !.unsure = IF ~ok /\ Current(h).cmd = "write" THEN @ \cup {blk} ELSE @]

(* A read returns val to its caller. *)
Returns(h, val) ==
  LET c == Current(h)
      bad == val # h.disk[c.drive][c.track] /\ <<c.drive, c.track>> \notin h.unsure
  IN  [EndRequest(h, TRUE) EXCEPT !.wrong = IF bad THEN @ \cup {Id1(h)} ELSE @]

(* bad_flp_intr; after the last error CURRENT is the next request, or NULL. *)
BadFlpIntr(h) ==
  LET e == [h EXCEPT !.current_track = -1, !.queue[1].errors = @ + 1]
      g == IF Head(e.queue).errors > MAX_ERRORS THEN EndRequest(FloppyDeselect(e), FALSE) ELSE e
  IN  IF g.queue = <<>> THEN {g, [g EXCEPT !.reset = TRUE]}
      ELSE {[g EXCEPT !.reset = @ \/ Head(g.queue).errors > MAX_ERRORS \div 2]}

(* output_byte and "if (reset) do_fd_request()": the bytes of a command are taken, or one
   of them is not and the controller will be reset. *)
Output(h, op) ==
  LET again == [h EXCEPT !.reset = TRUE, !.pc = "request"]
  IN  IF h.reset THEN {again}
      ELSE {[h EXCEPT !.op = op]} \cup (IF MayFail(h) THEN {Faulty(again)} ELSE {})

SetupRwFloppy(h) ==
  Output([h EXCEPT !.do_floppy = "rw_interrupt", !.buffer = IF h.read_track THEN None ELSE @], "rw")

Transfer(h) ==
  LET t == [h EXCEPT !.read_track = Current(h).cmd = "read" /\ Head(h.queue).errors < TRACK_ERRORS]
  IN  IF t.reset THEN {[t EXCEPT !.pc = "request"]}
      ELSE IF ~t.seek THEN SetupRwFloppy(t)
      ELSE Output([t EXCEPT !.do_floppy = "seek_interrupt"], "seek")

FloppyOnInterrupt(h) ==
  LET s == [h EXCEPT !.selected = TRUE]
  IN  IF h.current_drive # h.dor
      THEN {[s EXCEPT !.dor = h.current_drive, !.timer = [fn |-> "transfer", left |-> SELECT]]}
      ELSE Transfer(s)

Timed(h, fn) == IF fn = "transfer" THEN Transfer(h) ELSE FloppyOnInterrupt(h)

-----------------------------------------------------------------------------
(* do_fd_request. *)

ResetFloppy(h) == [h EXCEPT !.reset = FALSE, !.recal = TRUE, !.do_floppy = "reset_interrupt",
                            !.op = "reset"]

RecalibrateFloppy(h) ==
  Output([h EXCEPT !.recal = FALSE, !.current_track = 0, !.do_floppy = "recal_interrupt"], "recal")

Buffered(h) == h.buffer.drive = Current(h).drive /\ h.buffer.track = Current(h).track

BufferKept(h) == h
BufferWritten(h) ==
  IF Buffered(h) /\ Current(h).cmd = "write" THEN [h EXCEPT !.buffer.val = Id1(h)] ELSE h

(* The disk must turn: now, or when the motor is up. *)
Start(h) ==
  LET t == TicksToFloppyOn([h EXCEPT !.seek = @ \/ Current(h).track # h.current_track],
                           h.current_drive)
      ticks == t.mon[t.current_drive]
  IN  IF ticks = 0 THEN FloppyOnInterrupt(t)
      ELSE {[t EXCEPT !.timer = [fn |-> "floppy_on_interrupt", left |-> ticks]]}

(* From "repeat": the flag seek is kept. *)
Repeat(h) ==
  IF h.queue = <<>> THEN {[h EXCEPT !.do_floppy = "NULL"]}
  ELSE LET c == [h EXCEPT !.seek = @ \/ h.current_drive # Current(h).drive,
                          !.current_drive = Current(h).drive]
           again == {[x EXCEPT !.pc = "repeat"] : x \in
                       IF Current(h).track \notin Track THEN {EndRequest(c, FALSE)}
                       ELSE {Returns(c, h.buffer.val)}}
       IN  IF Current(h).track \notin Track \/ (Buffered(h) /\ Current(h).cmd = "read")
           THEN again ELSE Start(BufferWritten(c))

DoFdRequest(h) ==
  LET n == [h EXCEPT !.seek = FALSE, !.pc = "idle"]
  IN  IF h.pc = "repeat" THEN Repeat([h EXCEPT !.pc = "idle"])
      ELSE IF h.reset THEN {ResetFloppy(n)}
      ELSE IF h.recal THEN RecalibrateFloppy(n)
      ELSE Repeat(n)

-----------------------------------------------------------------------------
(* The interrupts.  failed: the controller reports an error or does not report;
   when result has timed out, reset is already set. *)

RwInterrupt(h, failed, dma) ==
  {[x EXCEPT !.pc = "request"] : x \in
     IF failed THEN BadFlpIntr(h) \cup {EndRequest(FloppyDeselect(h), FALSE)}
     ELSE IF Current(h).cmd = "write" THEN {EndRequest(FloppyDeselect(h), TRUE)}
     ELSE LET b == [track |-> Current(h).track, drive |-> h.current_drive, val |-> dma]
          IN  {Returns(FloppyDeselect([h EXCEPT !.buffer = IF h.read_track THEN b ELSE @]), dma)}}

SeekInterrupt(h, failed) ==
  IF failed THEN {[x EXCEPT !.pc = "request"] : x \in BadFlpIntr([h EXCEPT !.recal = TRUE])}
  ELSE SetupRwFloppy([h EXCEPT !.current_track = Current(h).track])

RecalInterrupt(h, failed) ==
  {[h EXCEPT !.reset = @ \/ failed, !.recal = @ /\ failed, !.pc = "request"]}

(* The interrupt of command op, which moved the head or the data, or failed. *)
Handled(h, failed, dma) ==
  LET n == [h EXCEPT !.do_floppy = "NULL", !.op = "none"]
  IN  CASE h.do_floppy = "rw_interrupt" -> RwInterrupt(n, failed, dma)
        [] h.do_floppy = "seek_interrupt" -> SeekInterrupt(n, failed)
        [] h.do_floppy = "recal_interrupt" -> RecalInterrupt(n, failed)
        [] h.do_floppy = "reset_interrupt" -> {[n EXCEPT !.reset = @ \/ failed, !.pc = "request"]}

(* What the command does to the selected drive. *)
Found(h) == h.head[h.dor] = Current(h).track /\ h.dor \in h.motor

Done(h) ==
  CASE h.op = "seek" -> [h EXCEPT !.head[h.dor] = Current(h).track]
    [] h.op = "recal" -> [h EXCEPT !.head[h.dor] = 0]
    [] h.op = "rw" /\ Current(h).cmd = "write" -> [h EXCEPT !.disk[h.dor][Current(h).track] = Id1(h)]
    [] OTHER -> h

-----------------------------------------------------------------------------
Request_ == fd.pc \in {"request", "repeat"} /\ fd' \in DoFdRequest(fd)

Interrupt ==
  /\ Idle /\ fd.op # "none"
  /\ LET lost == fd.op = "rw" /\ ~Found(fd)
         dma == IF fd.op = "rw" THEN fd.disk[fd.dor][Current(fd).track] ELSE 0
     IN  \/ lost /\ fd' \in Handled(fd, TRUE, 0)
         \/ ~lost /\ fd' \in Handled(Done(fd), FALSE, dma)
         \/ /\ MayFail(fd)
            /\ \E silent \in BOOLEAN : fd' \in Handled([Faulty(fd) EXCEPT !.reset = @ \/ silent], TRUE, 0)

(* unexpected_floppy_interrupt. *)
Unexpected ==
  /\ Idle /\ fd.op = "none" /\ MayFail(fd)
  /\ \E bad \in BOOLEAN : fd' = [Faulty(fd) EXCEPT !.reset = @ \/ bad, !.recal = @ \/ ~bad]

(* do_timer: the timer of add_timer, then the motors. *)
Ticked(h) == [h EXCEPT !.on = [d \in Drive |-> IF d \in h.motor /\ @[d] < SPIN THEN @[d] + 1 ELSE @[d]]]

Tick ==
  /\ Idle /\ fd.op = "none" /\ fd.motor # {}
  /\ LET h == Ticked(fd)
         n == [h EXCEPT !.timer = NoTimer]
         outs == IF h.timer.left = 1 THEN Timed(n, h.timer.fn)
                 ELSE {[h EXCEPT !.timer.left = IF @ > 0 THEN @ - 1 ELSE 0]}
     IN  fd' \in {DoFloppyTimer(o) : o \in outs}

(* add_request: the driver is started when the list was empty.  If it still resets or
   recalibrates then, for a request that has ended, do_fd_request is entered a second time,
   two timers start two transfers, and the model stops there: pc is "reentered". *)
Add(r) ==
  /\ Idle
  /\ r = Cardinality(fd.ended) + Len(fd.queue) + 1
  /\ fd' = [fd EXCEPT !.queue = Append(@, [id |-> r, errors |-> 0]),
                      !.pc = CASE fd.queue # <<>> -> "idle"
                               [] fd.queue = <<>> /\ fd.op = "none" -> "request"
                               [] OTHER -> "reentered"]

(* floppy_change by a process that looks for a new disk. *)
Change ==
  /\ Idle
  /\ \/ /\ fd.chg.pc = "none"
        /\ \E d \in Drive : fd' = [fd EXCEPT !.chg = [pc |-> "on", nr |-> d]]
     \/ /\ fd.chg.pc = "on"
        /\ LET t == TicksToFloppyOn(fd, fd.chg.nr)
           IN  fd' = [t EXCEPT !.chg.pc = IF t.mon[fd.chg.nr] = 0 THEN "select" ELSE "spin"]
     \/ /\ fd.chg.pc = "select" /\ fd.dor # fd.chg.nr
        /\ fd' = [fd EXCEPT !.chg.pc = IF fd.selected THEN "asleep" ELSE "on"]
     \/ /\ fd.chg.pc = "select" /\ fd.dor = fd.chg.nr
        /\ \E changed \in BOOLEAN :
             fd' = [FloppyOff(fd, fd.chg.nr) EXCEPT !.chg.pc = "done",
                                                    !.buffer = IF changed THEN None ELSE @]

Next == Request_ \/ Interrupt \/ Unexpected \/ Tick \/ Change \/ (\E r \in Id : Add(r))

(* What happens by itself: the driver's steps, the interrupts and the clock. *)
Goes == Request_ \/ Interrupt \/ Tick

(* ENABLED <<Goes>>_fd written out, which TLC is slow to find: a tick changes something while
   a timer or a motor's counter runs.  A request that waits for nothing of this hangs. *)
CanGo ==
  \/ fd.pc \in {"request", "repeat"}
  \/ Idle /\ fd.op # "none"
  \/ /\ Idle /\ fd.motor # {}
     /\ \/ fd.timer.fn # "none"
        \/ \E d \in fd.motor : fd.on[d] < SPIN \/ fd.mon[d] > 0 \/ fd.moff[d] <= OFF

-----------------------------------------------------------------------------
(* A read that succeeds gives what the disk holds, from the track buffer too; only a block
   a write has failed on may be newer in the buffer, which is changed before the disk. *)
ReadsDisk == fd.wrong = {}

(* The controller reads and writes only on the drive the request is for, whichever drive
   a floppy_change selects meanwhile. *)
RightDrive == fd.op = "rw" => fd.dor = Current(fd).drive

(* A disk that is read or written has been turning for as long as it needs. *)
SpunUp == fd.op \in {"rw", "seek"} => fd.dor \in fd.motor /\ fd.on[fd.dor] >= SPIN

(* The list is emptied, each request ending one way or the other, whatever fails; unless a
   request finds the list empty and the driver at work (see Add). *)
EveryRequestEnds == fd.queue # <<>> ~> fd.queue = <<>> \/ fd.pc = "reentered"

-----------------------------------------------------------------------------
(***************************************************************************)
(* Why the drive is the right one and turns: the inductive invariant of    *)
(* the proofs.  Its slack is 1 in the middle of a tick, between the timer  *)
(* of add_timer and do_floppy_timer, and 0 otherwise.                      *)
(***************************************************************************)
FloppyAssumption ==
  /\ Drive \subseteq Nat /\ Track \subseteq Nat
  /\ \A r \in Id : Request[r].drive \in Drive /\ Request[r].track \in Int
  /\ {MAX_ERRORS, TRACK_ERRORS, MaxFaults} \subseteq Nat
  /\ SELECT \in Nat \ {0} /\ SPIN \in Nat /\ SELECT <= SPIN /\ OFF \in Nat /\ SPIN + SELECT <= OFF

Entry == [id : Id, errors : Nat]
Queues == Seq(Entry)
Value == Id \cup {0}
Handlers == {"NULL", "rw_interrupt", "seek_interrupt", "recal_interrupt", "reset_interrupt"}
Buffers == {None} \cup [track : Track, drive : Drive, val : Value]
TimerStates == {NoTimer} \cup [fn : {"transfer", "floppy_on_interrupt"}, left : Nat]
ChangeStates == [pc : {"none"}, nr : Int] \cup [pc : {"on", "spin", "select", "asleep", "done"}, nr : Drive]
Disks == [Drive -> [Track -> Value]]
Blocks == Drive \X Int
Typed(h) ==
  h \in [queue : Queues, do_floppy : Handlers, reset : BOOLEAN, recal : BOOLEAN, seek : BOOLEAN,
         read_track : BOOLEAN, current_drive : Int, current_track : Int, selected : BOOLEAN,
         buffer : Buffers, timer : TimerStates,
         pc : {"idle", "request", "repeat", "reentered"}, op : {"none", "rw", "seek", "recal", "reset"},
         dor : Int, motor : SUBSET Drive, mon : [Drive -> 0..SPIN], moff : [Drive -> Nat],
         chg : ChangeStates,
         head : [Drive -> Int], disk : Disks, on : [Drive -> Nat],
         ended : SUBSET Id, unsure : SUBSET Blocks, wrong : SUBSET Id, faults : Nat]

(* The track buffer holds what the disk holds, but for a write under way or one that failed. *)
UnderWay(h, d, t) == h.queue # <<>> /\ Current(h).cmd = "write" /\ Current(h).drive = d /\ Current(h).track = t
BufferFits(h) ==
  LET b == h.buffer
  IN  b # None => \/ b.val = h.disk[b.drive][b.track] \/ <<b.drive, b.track>> \in h.unsure
                  \/ UnderWay(h, b.drive, b.track)

(* A motor has turned as long as it needs, or does when mon runs out. *)
MotorFits(h, slack) == \A d \in h.motor : IF h.mon[d] = 0 THEN h.on[d] >= SPIN
                                          ELSE h.on[d] + h.mon[d] >= SPIN + slack

(* The first request is worked for: its drive's motor is on and the buffer is prepared. *)
Going(h) == /\ h.queue # <<>> /\ Current(h).track \in Track /\ h.current_drive = Current(h).drive
            /\ h.current_drive \in h.motor
            /\ Buffered(h) /\ Current(h).cmd = "write" => h.buffer.val = Id1(h)
Turns(h) == Going(h) /\ h.on[h.current_drive] >= SPIN
Chosen(h) == Turns(h) /\ h.selected /\ h.dor = h.current_drive

(* The motor stays on for as long as the timer is set to, and for the command after it. *)
StaysOn(h, ticks) == h.moff[h.current_drive] >= ticks

TimerFits(h, slack) ==
  /\ h.timer.fn # "none" => h.pc = "idle" /\ h.op = "none" /\ h.timer.left >= 1
  /\ h.timer.fn = "transfer" => /\ Chosen(h) /\ h.timer.left <= SELECT
                                /\ StaysOn(h, h.timer.left + slack)
  /\ h.timer.fn = "floppy_on_interrupt" =>
       /\ Going(h) /\ h.timer.left <= SPIN
       /\ h.on[h.current_drive] + h.timer.left >= SPIN
       /\ StaysOn(h, h.timer.left + SELECT + slack)

OpFits(h, slack) ==
  /\ h.op # "none" => h.pc \in {"idle", "reentered"}
  /\ h.op \in {"rw", "seek"} => Chosen(h) /\ StaysOn(h, slack)
  /\ h.op = "rw" => h.do_floppy = "rw_interrupt"
  /\ h.op = "seek" => h.do_floppy = "seek_interrupt"
  /\ h.op = "recal" => h.do_floppy = "recal_interrupt"
  /\ h.op = "reset" => h.do_floppy = "reset_interrupt"

Fits(h, slack) == /\ Typed(h) /\ h.wrong = {} /\ BufferFits(h) /\ MotorFits(h, slack)
                  /\ TimerFits(h, slack) /\ OpFits(h, slack)
IInv == Fits(fd, 0)
=============================================================================
