------------------------------ MODULE HardDisk ------------------------------
(***************************************************************************)
(* The hard disk driver, kernel/blk_drv/hd.c: the request list, the        *)
(* handler do_hd of the next interrupt, the timeout, and the controller it *)
(* drives.  A drive may answer with an error, answer late or not at all.   *)
(*                                                                         *)
(* The driver is a record hd, its routines are functions of it that return *)
(* the set of outcomes.  A pass of do_hd_request or reset_hd is one step,  *)
(* and the driver is not interrupted in it or between two of them.         *)
(***************************************************************************)
EXTENDS Integers, Sequences

CONSTANTS Request,     \* requests: id |-> [cmd, start]
          SECTORS,     \* nr_sectors of a request
          NR_HD, NR_SECTS, MAX_ERRORS,
          MaxFaults    \* bound: times the drive is not ready, wrong, slow or silent

VARIABLE hd

Id == DOMAIN Request
Quiet == [op |-> "none", id |-> 0, sec |-> 0, status |-> "ok"]

(* ctl: the controller's command, for a sector of a request; irq: its interrupt is
   pending; i: the drive reset_hd is at.  Not in the code: good, the sectors of a request
   that were moved for it; ended, its result; faults, how often the drive misbehaved. *)
Hd0 == [queue |-> <<>>, do_hd |-> "NULL", timer |-> FALSE, reset |-> FALSE, recal |-> FALSE,
        i |-> 0, pc |-> "idle", ctl |-> Quiet, irq |-> FALSE, faults |-> 0,
        good |-> [r \in Id |-> 0], ended |-> [r \in Id |-> "not yet"]]

Init == hd = Hd0

Current(h) == Head(h.queue)
Idle == hd.pc = "idle"
MayFail(h) == h.faults < MaxFaults
Faulty(h) == [h EXCEPT !.faults = @ + 1]

WinResult(h) == h.ctl.status # "ok"

-----------------------------------------------------------------------------
SetIntrOnly(h, intr) == [h EXCEPT !.do_hd = intr]
SetIntr(h, intr) == [h EXCEPT !.do_hd = intr, !.timer = TRUE]

EndRequest(h, result) == [h EXCEPT !.ended[Current(h).id] = result, !.queue = Tail(@)]

Erred(h) ==
  LET e == [h EXCEPT !.queue[1].errors = @ + 1]
  IN  IF Current(e).errors >= MAX_ERRORS THEN EndRequest(e, "error") ELSE e

(* bad_rw_intr.  When the request has just ended, CURRENT is the next one or NULL, and
   what is read through NULL may be anything. *)
BadRw(h) ==
  LET e == IF h.queue = <<>> THEN h ELSE Erred(h)
  IN  IF e.queue = <<>> THEN {e, [e EXCEPT !.reset = TRUE]}
      ELSE {[e EXCEPT !.reset = @ \/ Current(e).errors > MAX_ERRORS \div 2]}

(* hd_out: the command is given, or the controller is not ready and must be reset. *)
HdOut(h, op, intr) ==
  LET which == IF h.queue = <<>> THEN [id |-> 0, sec |-> 0] ELSE Current(h)
      ctl == [op |-> op, id |-> which.id, sec |-> which.sec, status |-> "busy"]
      given == [SetIntr(h, intr) EXCEPT !.ctl = ctl, !.pc = "idle"]
  IN  IF h.reset THEN {h}
      ELSE {given} \cup {[Faulty(x) EXCEPT !.reset = TRUE] : x \in {x \in {h} : MayFail(x)}}

(* The write was given to the drive, which may not ask for its data. *)
WriteOut(h) ==
  LET outs == HdOut(h, "write", "write_intr")
      unasked == {o \in outs : o.pc = "idle" /\ MayFail(o)}
  IN  outs \cup UNION {BadRw([Faulty(o) EXCEPT !.ctl = Quiet, !.pc = "request"]) : o \in unasked}

(* One pass of do_hd_request. *)
Pass(h) ==
  IF h.queue = <<>> THEN {[h EXCEPT !.do_hd = "NULL", !.timer = FALSE, !.pc = "idle"]}
  ELSE IF Current(h).sec + 2 > NR_SECTS THEN {EndRequest(h, "error")}
  ELSE IF h.reset THEN {[h EXCEPT !.recal = TRUE, !.pc = "reset"]}
  ELSE IF h.recal THEN HdOut([h EXCEPT !.recal = FALSE], "restore", "recal_intr")
  ELSE IF Request[Current(h).id].cmd = "read" THEN HdOut(h, "read", "read_intr")
  ELSE WriteOut(h)

(* The rest of a pass of reset_hd: the next drive is told its geometry. *)
Specify(h) ==
  LET n == [h EXCEPT !.i = @ + 1]
  IN  IF n.i < NR_HD THEN HdOut(n, "specify", "reset_hd") ELSE {[n EXCEPT !.pc = "request"]}

(* A pass of reset_hd; resetting the controller ends its command and its interrupt. *)
ResetPass(h) ==
  IF h.reset THEN Specify([h EXCEPT !.reset = FALSE, !.i = -1, !.ctl = Quiet, !.irq = FALSE])
  ELSE IF WinResult(h)
       THEN UNION {IF b.reset THEN {b} ELSE Specify(b) : b \in BadRw([h EXCEPT !.ctl = Quiet])}
  ELSE Specify(h)

-----------------------------------------------------------------------------
(* The sector the drive has moved is the one the request is at. *)
Right(h, op) == h.ctl.op = op /\ h.ctl.id = Current(h).id /\ h.ctl.sec = Current(h).sec

StaysBehind(h) == [h EXCEPT !.queue[1].nr = @ - 1]
Advance(h) == [h EXCEPT !.queue[1] = [Current(h) EXCEPT !.sec = @ + 1, !.nr = @ - 1]]

Moved(h, op) ==
  Advance(IF Right(h, op) THEN [h EXCEPT !.good[Current(h).id] = @ + 1] ELSE h)

(* read_intr and write_intr: after an error the rest of the request is tried again. *)
RwIntr(h, op, intr) ==
  IF WinResult(h) THEN {[b EXCEPT !.pc = "request", !.ctl = Quiet] : b \in BadRw(h)}
  ELSE LET m == Moved([h EXCEPT !.queue[1].errors = IF op = "read" THEN 0 ELSE @], op)
       IN  IF Current(m).nr > 0
           THEN {[SetIntr(m, intr) EXCEPT !.ctl.sec = @ + 1, !.ctl.status = "busy"]}
           ELSE {[EndRequest(m, "ok") EXCEPT !.pc = "request", !.ctl = Quiet]}

RecalIntr(h) ==
  {[b EXCEPT !.pc = "request", !.ctl = Quiet] :
     b \in IF WinResult(h) THEN BadRw(h) ELSE {h}}

(* hd_interrupt: the handler is taken, and the next one must be set anew. *)
Handled(h) ==
  LET n == [h EXCEPT !.do_hd = "NULL", !.timer = FALSE, !.irq = FALSE]
  IN  CASE h.do_hd = "read_intr" -> RwIntr(n, "read", "read_intr")
        [] h.do_hd = "write_intr" -> RwIntr(n, "write", "write_intr")
        [] h.do_hd = "recal_intr" -> RecalIntr(n)
        [] h.do_hd = "reset_hd" -> ResetPass([n EXCEPT !.pc = "reset"])
        [] h.do_hd = "NULL" -> {[n EXCEPT !.reset = TRUE, !.pc = "request", !.ctl = Quiet]}

-----------------------------------------------------------------------------
DoRequest == hd.pc = "request" /\ hd' \in Pass(hd)

DoReset == hd.pc = "reset" /\ hd' \in ResetPass(hd)

Interrupt == Idle /\ hd.irq /\ hd' \in Handled(hd)

(* add_request of ll_rw_blk.c, at the end of the list; it starts an idle driver. *)
Add(r) ==
  /\ Idle
  /\ hd.ended[r] = "not yet" /\ \A k \in 1..Len(hd.queue) : hd.queue[k].id # r
  /\ hd' = [hd EXCEPT !.queue = Append(@, [id |-> r, sec |-> Request[r].start,
                                           nr |-> SECTORS, errors |-> 0]),
                      !.pc = IF hd.queue = <<>> THEN "request" ELSE "idle"]

(* The drive is done with a sector or a command, or fails, or loses the command. *)
Answer ==
  /\ hd.ctl.op # "none" /\ hd.ctl.status = "busy"
  /\ \/ hd' = [hd EXCEPT !.irq = TRUE, !.ctl.status = "ok"]
     \/ MayFail(hd) /\ hd' = [Faulty(hd) EXCEPT !.irq = TRUE, !.ctl.status = "error"]
     \/ MayFail(hd) /\ hd' = [Faulty(hd) EXCEPT !.ctl = Quiet]

(* hd_times_out.  A drive that is merely slow, or whose interrupt has just come, is
   a fault too. *)
Timeout ==
  /\ Idle /\ hd.timer
  /\ hd.ctl.op = "none" \/ MayFail(hd)
  /\ LET h == [hd EXCEPT !.timer = FALSE, !.faults = IF hd.ctl.op = "none" THEN @ ELSE @ + 1]
     IN  hd' = IF h.queue = <<>> THEN h
               ELSE [SetIntr(Erred(h), "NULL") EXCEPT !.reset = TRUE, !.pc = "request"]

Next == DoRequest \/ DoReset \/ Interrupt \/ Answer \/ Timeout \/ (\E r \in Id : Add(r))

(* The driver's own steps are not put off; a drive that is not faulty answers, and a
   timer that is set runs out when nothing else happens. *)
Drive == DoRequest \/ DoReset \/ Interrupt \/ Answer \/ (hd.ctl.op = "none" /\ Timeout)

-----------------------------------------------------------------------------
(* A request that ends well has had each of its sectors moved, from or to its own place
   on the disk: after errors, resets and timeouts it is taken up where it stopped. *)
RightData == \A r \in Id : hd.ended[r] = "ok" => hd.good[r] = SECTORS

(* Whenever the driver waits with a request on the list, its timer is running: no lost
   interrupt can leave it waiting for good. *)
TimerRuns == Idle /\ hd.queue # <<>> => hd.timer \/ hd.irq

(* The list is emptied, each request ending with its data or with an error, however the
   drive misbehaves. *)
EveryRequestEnds == hd.queue # <<>> ~> hd.queue = <<>>

(***************************************************************************)
(* Why a request is taken up where it stopped: the inductive invariant of  *)
(* the proofs.                                                             *)
(***************************************************************************)
DiskAssumption == /\ \A r \in Id : Request[r].start \in Nat
                  /\ SECTORS \in Nat \ {0} /\ {NR_HD, NR_SECTS, MAX_ERRORS, MaxFaults} \subseteq Nat

Entry == [id : Id, sec : Nat, nr : Nat, errors : Nat]
Handlers == {"NULL", "read_intr", "write_intr", "recal_intr", "reset_hd"}
Commands == [op : {"none", "read", "write", "restore", "specify"}, id : Id \cup {0}, sec : Nat,
             status : {"ok", "error", "busy"}]
Typed(h) ==
  h \in [queue : Seq(Entry), do_hd : Handlers, timer : BOOLEAN, reset : BOOLEAN, recal : BOOLEAN,
         i : Int, pc : {"idle", "request", "reset"}, ctl : Commands, irq : BOOLEAN, faults : Nat,
         good : [Id -> Nat], ended : [Id -> {"not yet", "ok", "error"}]]

(* An entry of the list stands at the first of its sectors that has not been moved. *)
EntryFits(h, q) == /\ h.ended[q.id] = "not yet" /\ q.nr > 0 /\ h.good[q.id] + q.nr = SECTORS
                   /\ q.sec = Request[q.id].start + h.good[q.id]
EachOnce(h) == \A k, l \in 1..Len(h.queue) : h.queue[k].id = h.queue[l].id => k = l
Listed(h, r) == \E k \in 1..Len(h.queue) : h.queue[k].id = r
Accounted(h, r) == /\ h.ended[r] = "ok" => h.good[r] = SECTORS
                   /\ h.ended[r] = "not yet" => h.good[r] = 0 \/ Listed(h, r)

(* But for the first "but" entries. *)
FitBut(h, but) == /\ \A k \in 1..Len(h.queue) : k > but => EntryFits(h, h.queue[k])
                  /\ EachOnce(h) /\ \A r \in Id : Accounted(h, r)
ListFits(h) == FitBut(h, 0)

(* The drive is on the sector of the first request, or its interrupt for it has come, or it
   has lost the command. *)
AtWork(h, op) == /\ h.queue # <<>>
                 /\ IF h.irq THEN Right(h, op) /\ h.ctl.status # "busy"
                    ELSE h.ctl.op = "none" \/ (Right(h, op) /\ h.ctl.status = "busy")

(* No answer of the drive is pending or to come; else what is given next is a reset or a recal,
   whose handlers move no sector. *)
Calm(h) == ~h.irq /\ (h.ctl.op = "none" \/ h.ctl.status # "busy")
DriverFits(h) ==
  /\ h.pc = "request" \/ (h.pc = "idle" /\ h.queue = <<>>) => h.reset \/ h.recal \/ Calm(h)
  /\ h.pc = "reset" => h.reset /\ h.recal
  /\ h.pc = "idle" =>
       /\ h.queue # <<>> => h.timer
       /\ h.queue = <<>> => h.do_hd \in {"NULL", "reset_hd"}
       /\ h.do_hd = "reset_hd" => h.recal
       /\ h.do_hd = "read_intr" => AtWork(h, "read")
       /\ h.do_hd = "write_intr" => AtWork(h, "write")

Fits(h) == Typed(h) /\ ListFits(h) /\ DriverFits(h)
IInv == Fits(hd)
=============================================================================
