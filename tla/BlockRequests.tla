---------------------------- MODULE BlockRequests ----------------------------
(***************************************************************************)
(* The request layer between the buffer cache and a block driver:          *)
(* kernel/blk_drv/ll_rw_blk.c and end_request of blk.h.  Tasks turn        *)
(* buffers (make_request) and pages (ll_rw_page, ll_rw_swap_file) into     *)
(* requests, the elevator puts them into the device's list, and the        *)
(* device's interrupt completes the one at the front.                      *)
(*                                                                         *)
(* The kernel is not preempted: an action is what a task does between two  *)
(* calls of schedule().  Interrupts (Transfer, EndRequest) come between    *)
(* any two actions.  sleep_on and wake_up are taken from WaitQueue: a task *)
(* sleeps on a queue, and a wake_up of that queue lets all of them go on   *)
(* and look again.                                                         *)
(***************************************************************************)
EXTENDS Integers, Sequences, FiniteSets

CONSTANTS Task, NoTask,
          Buf, NoBuf,      \* buffer_heads; NoBuf is a request's bh = NULL
          BlockOf,         \* Buf -> the position of its block on the device
          PageAt,          \* the position of the pages that are swapped
          NR_REQUEST,
          Free,            \* a request whose dev is -1
          PageCalls,       \* the paging entry points that are used
          MaxCalls         \* bound: calls made in all

ASSUME RequestAssumption ==
  /\ NR_REQUEST \in Nat \ {0} /\ MaxCalls \in Nat
  /\ NoTask \notin Task /\ NoBuf \notin Buf
  /\ BlockOf \in [Buf -> Nat] /\ PageAt \in Nat
  /\ PageCalls \subseteq {"ll_rw_page", "ll_rw_swap_file"}

Slot == 1..NR_REQUEST
Read  == 0
Write == 1
Ahead == [READ |-> FALSE, WRITE |-> FALSE, READA |-> TRUE, WRITEA |-> TRUE]
Cmd   == [READ |-> Read, WRITE |-> Write, READA |-> Read, WRITEA |-> Write]

(* A request in use.  "sent": its data has gone over to or from the device. *)
Request == [cmd : {Read, Write}, sector : Nat, bh : Buf \cup {NoBuf},
            waiting : Task \cup {NoTask}, sent : BOOLEAN]

ASSUME FreeAssumption == Free \notin Request

VARIABLES request,   \* Slot -> Request or Free
          queue,     \* blk_dev[major].current_request and its next pointers
          b_lock, b_dirt, b_uptodate,   \* Buf -> BOOLEAN
          unsaved,   \* history: the buffer holds data the device has not got
          failed,    \* history: a write of the buffer ended in an I/O error
          job,       \* per task: where it is, and its arguments rw and bh
          wait,      \* what it sleeps on: a buffer, "wait_for_request", "page"
          busy,      \* the task in a stretch where only interrupts may come
          calls

bvars == <<b_lock, b_dirt, b_uptodate, unsaved, failed>>
vars == <<request, queue, bvars, job, wait, busy, calls>>

Awake == "awake"
Out == [at |-> "out", rw |-> "READ", bh |-> NoBuf]
At(t, l) == job' = [job EXCEPT ![t].at = l]
Return(t) == job' = [job EXCEPT ![t] = Out]
CmdOf(t) == Cmd[job[t].rw]
Runs(t) == wait[t] = Awake /\ busy \in {NoTask, t}

Init == /\ request = [i \in Slot |-> Free] /\ queue = <<>>
        /\ b_lock = [b \in Buf |-> FALSE] /\ b_dirt = [b \in Buf |-> FALSE]
        /\ b_uptodate \in [Buf -> BOOLEAN]   \* the cache has been in use
        /\ unsaved = [b \in Buf |-> FALSE] /\ failed = [b \in Buf |-> FALSE]
        /\ job = [t \in Task |-> Out] /\ wait = [t \in Task |-> Awake]
        /\ busy = NoTask /\ calls = 0

(***************************************************************************)
(* The list of requests.                                                   *)
(***************************************************************************)
InOrder(r, s) == \/ r.cmd < s.cmd
                 \/ r.cmd = s.cmd /\ r.sector < s.sector

(* add_request's loop stops at the i-th request of the list: r goes behind it. *)
StopsAt(r, i, q, reqs) ==
  LET this == reqs[q[i]]
      next == reqs[q[i + 1]]
  IN  IF r.bh = NoBuf
      THEN next.bh # NoBuf
      ELSE (InOrder(this, r) \/ ~InOrder(this, next)) /\ InOrder(r, next)

Place(r, q, reqs) ==
  LET stops == {i \in 1..Len(q) - 1 : StopsAt(r, i, q, reqs)}
  IN  IF stops = {} THEN Len(q) ELSE CHOOSE i \in stops : \A j \in stops : i <= j

(* add_request: b_dirt goes down when the request is listed, not at its end. *)
AddRequest(i, r) ==
  /\ request' = [request EXCEPT ![i] = r]
  /\ LET p == Place(r, queue, request)
     IN  queue' = SubSeq(queue, 1, p) \o <<i>> \o SubSeq(queue, p + 1, Len(queue))

(* Writes of buffers may use the low two thirds of the requests only. *)
Limit(cmd) == IF cmd = Read THEN NR_REQUEST ELSE (NR_REQUEST * 2) \div 3

FreeBelow(n) == {i \in Slot : i <= n /\ request[i] = Free}
Highest(S) == CHOOSE i \in S : \A j \in S : j <= i

WakeUp(q) == wait' = [t \in Task |-> IF wait[t] = q THEN Awake ELSE wait[t]]

(***************************************************************************)
(* make_request, from ll_rw_block.                                         *)
(***************************************************************************)
Call(t) ==
  /\ Runs(t) /\ job[t] = Out /\ calls < MaxCalls
  /\ calls' = calls + 1
  /\ UNCHANGED <<request, queue, bvars, wait>>

(* A read-ahead or write-ahead of a locked buffer is forgotten. *)
LlRwBlock(t, w, b) ==
  /\ Call(t)
  /\ IF Ahead[w] /\ b_lock[b] THEN UNCHANGED <<job, busy>>
     ELSE /\ job' = [job EXCEPT ![t] = [at |-> "lock_buffer", rw |-> w, bh |-> b]]
          /\ busy' = t

NothingToDo(t, b) == \/ CmdOf(t) = Write /\ ~b_dirt[b]
                     \/ CmdOf(t) = Read /\ b_uptodate[b]

(* A request for the locked buffer: found, or waited for. *)
GetRequest(t) ==
  LET b == job[t].bh
      free == FreeBelow(Limit(CmdOf(t)))
  IN  \/ /\ free # {}
         /\ AddRequest(Highest(free), [cmd |-> CmdOf(t), sector |-> BlockOf[b],
                                       bh |-> b, waiting |-> NoTask, sent |-> FALSE])
         /\ b_lock' = [b_lock EXCEPT ![b] = TRUE]
         /\ b_dirt' = [b_dirt EXCEPT ![b] = FALSE]
         /\ Return(t)
         /\ UNCHANGED wait
      \/ /\ free = {} /\ ~Ahead[job[t].rw]
         /\ b_lock' = [b_lock EXCEPT ![b] = TRUE]
         /\ wait' = [wait EXCEPT ![t] = "wait_for_request"]
         /\ At(t, "get_request")
         /\ UNCHANGED <<request, queue, b_dirt>>

GiveUpClean(t) ==
  /\ Ahead[job[t].rw] /\ FreeBelow(Limit(CmdOf(t))) = {}
  /\ WakeUp(job[t].bh) /\ Return(t)
  /\ b_dirt' = [b_dirt EXCEPT ![job[t].bh] = FALSE]
  /\ UNCHANGED <<request, queue, b_lock>>

(* A read-ahead or write-ahead does not wait for one. *)
GiveUp(t) ==
  /\ Ahead[job[t].rw] /\ FreeBelow(Limit(CmdOf(t))) = {}
  /\ WakeUp(job[t].bh)
  /\ Return(t)
  /\ UNCHANGED <<request, queue, b_lock, b_dirt>>

LockIgnored(t) == FALSE
LockTaken(t) == b_lock[job[t].bh]

(* lock_buffer, the test whether there is anything to do, and the first
   attempt at a request: one stretch without a schedule(). *)
LockBuffer(t) ==
  /\ Runs(t) /\ job[t].at = "lock_buffer"
  /\ \/ /\ LockTaken(t)
        /\ wait' = [wait EXCEPT ![t] = job[t].bh]
        /\ UNCHANGED <<request, queue, b_lock, b_dirt, job>>
     \/ /\ ~LockTaken(t) /\ NothingToDo(t, job[t].bh)
        /\ Return(t)
        /\ UNCHANGED <<request, queue, b_lock, b_dirt, wait>>
     \/ /\ ~LockTaken(t) /\ ~NothingToDo(t, job[t].bh)
        /\ GetRequest(t) \/ GiveUp(t)
  /\ busy' = NoTask
  /\ UNCHANGED <<b_uptodate, unsaved, failed, calls>>

Repeat(t) ==
  /\ Runs(t) /\ job[t].at = "get_request"
  /\ GetRequest(t)
  /\ UNCHANGED <<b_uptodate, unsaved, failed, busy, calls>>

(***************************************************************************)
(* Pages: ll_rw_page looks for a request and sleeps with interrupts off;   *)
(* ll_rw_swap_file (one block of it) does not, and an interrupt may come   *)
(* between its search and its sleep_on.                                    *)
(***************************************************************************)
PageRequest(t) == [cmd |-> CmdOf(t), sector |-> PageAt, bh |-> NoBuf,
                   waiting |-> t, sent |-> FALSE]

LlRwPage(t, w, f) ==
  /\ f \in PageCalls
  /\ Call(t)
  /\ job' = [job EXCEPT ![t] = [at |-> f, rw |-> w, bh |-> NoBuf]]
  /\ UNCHANGED busy

FoundForPage(t) ==
  /\ AddRequest(Highest(FreeBelow(NR_REQUEST)), PageRequest(t))
  /\ wait' = [wait EXCEPT ![t] = "page"]
  /\ Return(t)

PageGet(t) ==
  /\ Runs(t) /\ job[t].at = "ll_rw_page"
  /\ \/ FreeBelow(NR_REQUEST) # {} /\ FoundForPage(t)
     \/ /\ FreeBelow(NR_REQUEST) = {}
        /\ wait' = [wait EXCEPT ![t] = "wait_for_request"]
        /\ UNCHANGED <<request, queue, job>>
  /\ UNCHANGED <<bvars, busy, calls>>

SwapGet(t) ==
  /\ Runs(t) /\ job[t].at = "ll_rw_swap_file"
  /\ \/ FreeBelow(NR_REQUEST) # {} /\ FoundForPage(t) /\ UNCHANGED busy
     \/ /\ FreeBelow(NR_REQUEST) = {}
        /\ At(t, "swap_sleep") /\ busy' = t
        /\ UNCHANGED <<request, queue, wait>>
  /\ UNCHANGED <<bvars, calls>>

SwapSleep(t) ==
  /\ Runs(t) /\ job[t].at = "swap_sleep"
  /\ wait' = [wait EXCEPT ![t] = "wait_for_request"]
  /\ At(t, "ll_rw_swap_file")
  /\ busy' = NoTask
  /\ UNCHANGED <<request, queue, bvars, calls>>

(***************************************************************************)
(* The file systems change a buffer in place and set b_dirt, locked or not. *)
(***************************************************************************)
Modify(b) ==
  /\ busy = NoTask
  /\ b_uptodate[b] /\ ~unsaved[b]
  /\ b_dirt' = [b_dirt EXCEPT ![b] = TRUE]
  /\ unsaved' = [unsaved EXCEPT ![b] = TRUE]
  /\ UNCHANGED <<request, queue, b_lock, b_uptodate, failed, job, wait, busy, calls>>

(***************************************************************************)
(* Interrupts.  The driver moves the data of the front request, and later  *)
(* ends it, well or with an I/O error.                                     *)
(***************************************************************************)
Transfer ==
  /\ queue # <<>> /\ ~request[queue[1]].sent
  /\ LET r == request[queue[1]] IN
     /\ request' = [request EXCEPT ![queue[1]].sent = TRUE]
     /\ unsaved' = IF r.cmd = Write /\ r.bh # NoBuf
                   THEN [unsaved EXCEPT ![r.bh] = FALSE] ELSE unsaved
  /\ UNCHANGED <<queue, b_lock, b_dirt, b_uptodate, failed, job, wait, busy, calls>>

(* wake_up(&CURRENT->waiting) and wake_up(&wait_for_request), and for a buffer
   unlock_buffer's wake_up(&bh->b_wait). *)
WokenOnlyBuffer(r) == {t \in Task : t = r.waiting \/ wait[t] \in {r.bh} \cap Buf}
Woken(r) == {t \in Task : wait[t] = "wait_for_request" \/ t = r.waiting
                                                     \/ wait[t] \in {r.bh} \cap Buf}

EndRequest(uptodate) ==
  /\ queue # <<>>
  /\ LET r == request[queue[1]] IN
     /\ uptodate => r.sent
     /\ IF r.bh = NoBuf THEN UNCHANGED <<b_uptodate, b_lock, failed>>
        ELSE /\ b_uptodate' = [b_uptodate EXCEPT ![r.bh] = uptodate]
             /\ b_lock' = [b_lock EXCEPT ![r.bh] = FALSE]
             /\ failed' = [failed EXCEPT ![r.bh] = @ \/ (r.cmd = Write /\ ~uptodate)]
     /\ wait' = [t \in Task |-> IF t \in Woken(r) THEN Awake ELSE wait[t]]
  /\ request' = [request EXCEPT ![queue[1]] = Free]
  /\ queue' = Tail(queue)
  /\ UNCHANGED <<b_dirt, unsaved, job, busy, calls>>

Step(t) == LockBuffer(t) \/ Repeat(t) \/ PageGet(t) \/ SwapGet(t) \/ SwapSleep(t)

Next == \/ \E t \in Task : \/ \E w \in DOMAIN Cmd, b \in Buf : LlRwBlock(t, w, b)
                           \/ \E w \in {"READ", "WRITE"}, f \in PageCalls : LlRwPage(t, w, f)
                           \/ Step(t)
        \/ \E b \in Buf : Modify(b)
        \/ Transfer
        \/ \E uptodate \in BOOLEAN : EndRequest(uptodate)

Spec == Init /\ [][Next]_vars

(* Tasks that are awake run, and the device ends every request. *)
FairSpec == /\ Spec
            /\ \A t \in Task : WF_vars(Step(t))
            /\ WF_vars(Transfer) /\ WF_vars(\E uptodate \in BOOLEAN : EndRequest(uptodate))

-----------------------------------------------------------------------------
TypeOK ==
  /\ request \in [Slot -> Request \cup {Free}] /\ queue \in Seq(Slot)
  /\ \A f \in {b_lock, b_dirt, b_uptodate, unsaved, failed} : f \in [Buf -> BOOLEAN]
  /\ job \in [Task -> [at : {"out", "lock_buffer", "get_request", "ll_rw_page",
                             "ll_rw_swap_file", "swap_sleep"},
                       rw : DOMAIN Cmd, bh : Buf \cup {NoBuf}]]
  /\ wait \in [Task -> Buf \cup {Awake, "wait_for_request", "page"}]
  /\ busy \in Task \cup {NoTask} /\ calls \in 0..MaxCalls

Listed(b) == {i \in 1..Len(queue) : request[queue[i]].bh = b}
Holders(b) == {t \in Task : job[t].at = "get_request" /\ job[t].bh = b}

(* Every request in use is in the device's list, once: add_request loses none
   and the list never holds a request that has been given back. *)
ListComplete ==
  /\ {queue[i] : i \in 1..Len(queue)} = {i \in Slot : request[i] # Free}
  /\ \A i, j \in 1..Len(queue) : queue[i] = queue[j] => i = j

(* A buffer is locked exactly while one request or one task in make_request
   has it, and never two of them: what INIT_REQUEST ("block not locked") and
   unlock_buffer ("buffer not locked") of the drivers test. *)
LockHasOneOwner ==
  \A b \in Buf : Cardinality(Listed(b)) + Cardinality(Holders(b))
                   = IF b_lock[b] THEN 1 ELSE 0

(* Both, with the types. *)
RequestsExact == TypeOK /\ ListComplete /\ LockHasOneOwner

(* Changed data is never forgotten: it is on the device, or the buffer is
   dirty, or its write is listed and not yet sent, or that write failed.
   A change made while the buffer is being written is not an exception. *)
ChangesSurvive ==
  \A b \in Buf : unsaved[b] =>
     \/ b_dirt[b] \/ failed[b]
     \/ \E i \in Listed(b) : request[queue[i]].cmd = Write /\ ~request[queue[i]].sent

-----------------------------------------------------------------------------
(* What makes these invariants inductive, with the requests known by their slots. *)
Of(b) == {i \in Slot : request[i] # Free /\ request[i].bh = b}

Arguments == \A t \in Task : job[t].at \in {"lock_buffer", "get_request"} => job[t].bh \in Buf

OneOwner == \A b \in Buf :
  /\ \A i, j \in Of(b) : i = j
  /\ \A t, u \in Holders(b) : t = u
  /\ Of(b) = {} \/ Holders(b) = {}
  /\ b_lock[b] <=> Of(b) # {} \/ Holders(b) # {}

(* Nobody reads into a buffer that is up to date: only one that is can be changed. *)
ReadsAreNeeded == \A b \in Buf :
  /\ unsaved[b] => b_uptodate[b] \/ failed[b]
  /\ b_uptodate[b] => /\ \A i \in Of(b) : request[i].cmd = Write
                      /\ \A t \in Holders(b) : CmdOf(t) = Write

WillBeWritten == \A b \in Buf : unsaved[b] =>
  b_dirt[b] \/ failed[b] \/ \E i \in Of(b) : request[i].cmd = Write /\ ~request[i].sent

IInv == TypeOK /\ ListComplete /\ Arguments /\ OneOwner /\ ReadsAreNeeded /\ WillBeWritten

(* Every call of ll_rw_block or ll_rw_page returns: its buffer's lock and a
   request come to everybody who waits for them. *)
Calling(t) == (job[t] # Out /\ job[t].at \notin {"ll_rw_swap_file", "swap_sleep"}) \/ wait[t] = "page"
CallsReturn == \A t \in Task : Calling(t) ~> job[t] = Out /\ wait[t] = Awake
=============================================================================
