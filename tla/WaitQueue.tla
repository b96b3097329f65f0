------------------------------ MODULE WaitQueue ------------------------------
(***************************************************************************)
(* The kernel's only blocking primitive: sleep_on, interruptible_sleep_on  *)
(* and wake_up of kernel/sched.c, statement by statement, on one wait      *)
(* queue (a "struct task_struct *" such as bh->b_wait).  The clients are   *)
(* the two loops every user of a wait queue is built from: lock_buffer     *)
(* (take the lock) and wait_on_buffer (only wait for it), with the         *)
(* uninterruptible and the interruptible sleep, and the interrupt that     *)
(* unlocks.                                                                *)
(*                                                                         *)
(* One CPU, no kernel preemption: a task runs until it calls schedule(),   *)
(* only an interrupt can come in between, and only while IF is set.  The   *)
(* queue is a linked list nobody stores: each sleeper keeps the previous   *)
(* head in the local variable tmp of its own kernel stack.                 *)
(***************************************************************************)
EXTENDS Naturals, Sequences, FiniteSets

CONSTANTS Task,       \* the tasks, task 0 not among them
          NoTask,     \* NULL, and the idle task as the running one
          MaxCalls    \* bound: calls of lock/wait made by each task

(* What is assumed of them; SleepQueue, which has the constants of the runs, does. *)
QueueAssumption == NoTask \notin Task /\ MaxCalls \in Nat

Running         == "running"
Interruptible   == "interruptible"
Uninterruptible == "uninterruptible"
Ops == {"lock_buffer", "wait_on_buffer"}
Modes == {Interruptible, Uninterruptible}

(***************************************************************************)
(* pc: "out"    in user mode, or in kernel code that uses no wait queue;   *)
(*     "test"   at the loop head "while (bh->b_lock)";                     *)
(*     "save", "link", "mark"   the next statement of __sleep_on is        *)
(*              tmp = *p, *p = current, current->state = state;            *)
(*     "asleep" about to call schedule(), or inside it, not chosen yet;    *)
(*     "resume" schedule() has returned.                                   *)
(***************************************************************************)
Locations == {"out", "test", "save", "link", "mark", "asleep", "resume"}

VARIABLES cur,     \* current; NoTask when task 0 runs
          iff,     \* the CPU's interrupt flag, as left by cli() and sti()
          pc,      \* where each task is
          mode,    \* the state argument of its __sleep_on
          op,      \* the function it called
          state,   \* its task_struct's state field
          tmp,     \* the local variable tmp of its __sleep_on
          sig,     \* it has a signal pending that it does not block
          wq,      \* *p, the head of the queue
          b_lock,  \* bh->b_lock
          calls,   \* calls made so far
          chain    \* history: who is linked in, the latest first

vars == <<cur, iff, pc, mode, op, state, tmp, sig, wq, b_lock, calls, chain>>

Linked == {t \in Task : pc[t] \in {"mark", "asleep", "resume"}}

Goto(t, l) == pc' = [pc EXCEPT ![t] = l]

Init == /\ cur = NoTask /\ iff = "sti" /\ wq = NoTask
        /\ b_lock \in {0, 1}   \* the buffer may be locked already
        /\ chain = <<>>
        /\ pc = [t \in Task |-> "out"]
        /\ mode = [t \in Task |-> Uninterruptible]
        /\ op = [t \in Task |-> "wait_on_buffer"]
        /\ state = [t \in Task |-> Running]
        /\ tmp = [t \in Task |-> NoTask]
        /\ sig = [t \in Task |-> FALSE]
        /\ calls = [t \in Task |-> 0]

(***************************************************************************)
(* The client loops.                                                       *)
(***************************************************************************)

(* lock_buffer or wait_on_buffer is called; both begin with cli(). *)
Cli == iff' = "cli"

Call(t, m, f) ==
  /\ cur = t /\ pc[t] = "out" /\ calls[t] < MaxCalls
  /\ calls' = [calls EXCEPT ![t] = @ + 1]
  /\ mode' = [mode EXCEPT ![t] = m]
  /\ op' = [op EXCEPT ![t] = f]
  /\ Cli
  /\ Goto(t, "test")
  /\ UNCHANGED <<cur, state, tmp, sig, wq, b_lock, chain>>

(* sti(), and back to the caller: the locals are gone. *)
Leave(t) ==
  /\ Goto(t, "out") /\ iff' = "sti"
  /\ mode' = [mode EXCEPT ![t] = Uninterruptible]
  /\ op' = [op EXCEPT ![t] = "wait_on_buffer"]

(* The loop head.  An interruptible client (sleep_if_empty of tty_io.c has the
   same loop) gives up when it has a signal. *)
Test(t) ==
  /\ cur = t /\ pc[t] = "test"
  /\ \/ /\ b_lock = 1 /\ ~(mode[t] = Interruptible /\ sig[t])
        /\ Goto(t, "save")
        /\ UNCHANGED <<iff, b_lock, sig, mode, op>>
     \/ /\ b_lock = 1 /\ mode[t] = Interruptible /\ sig[t]
        /\ Leave(t)
        /\ sig' = [sig EXCEPT ![t] = FALSE]
        /\ UNCHANGED b_lock
     \/ /\ b_lock = 0
        /\ Leave(t)
        /\ b_lock' = IF op[t] = "lock_buffer" THEN 1 ELSE 0
        /\ UNCHANGED sig
  /\ UNCHANGED <<cur, state, tmp, wq, calls, chain>>

(***************************************************************************)
(* __sleep_on, up to the call of schedule(): the flags the caller had are  *)
(* saved, here always IF = 0.                                              *)
(***************************************************************************)
Save(t) ==
  /\ cur = t /\ pc[t] = "save"
  /\ tmp' = [tmp EXCEPT ![t] = wq]
  /\ Goto(t, "link")
  /\ UNCHANGED <<cur, iff, mode, op, state, sig, wq, b_lock, calls, chain>>

Link(t) ==
  /\ cur = t /\ pc[t] = "link"
  /\ wq' = t
  /\ chain' = <<t>> \o chain
  /\ Goto(t, "mark")
  /\ UNCHANGED <<cur, iff, mode, op, state, tmp, sig, b_lock, calls>>

Mark(t) ==
  /\ cur = t /\ pc[t] = "mark"
  /\ state' = [state EXCEPT ![t] = mode[t]]
  /\ iff' = "sti"
  /\ Goto(t, "asleep")
  /\ UNCHANGED <<cur, mode, op, tmp, sig, wq, b_lock, calls, chain>>

(***************************************************************************)
(* schedule(): first every interruptible task with a signal is made        *)
(* runnable, then a runnable task is chosen, or task 0 if there is none.   *)
(* Which of them is the business of module Scheduler.                      *)
(***************************************************************************)
SignalsSeen == [t \in Task |-> IF state[t] = Interruptible /\ sig[t]
                               THEN Running ELSE state[t]]

SwitchTo(next) ==
  /\ state' = SignalsSeen
  /\ cur' = next
  /\ IF next = NoTask THEN \A t \in Task : state'[t] # Running
                      ELSE state'[next] = Running
  /\ UNCHANGED <<iff, mode, op, tmp, sig, wq, b_lock, calls, chain>>

Reached(t) == IF t # NoTask /\ pc[t] = "asleep" THEN [pc EXCEPT ![t] = "resume"]
                                                ELSE pc

(* The running task sleeps, is preempted in user mode, or is task 0. *)
Schedule(next) ==
  /\ cur # NoTask => pc[cur] \in {"out", "asleep"}
  /\ SwitchTo(next)
  /\ pc' = Reached(next)

(***************************************************************************)
(* __sleep_on, after schedule() has returned.  A task that is not the head *)
(* sends the head on and goes back to sleep, uninterruptibly; the head     *)
(* takes itself off and sends its successor on, and the saved flags are    *)
(* restored.  An interrupt between these statements could only wake the    *)
(* head, which they do themselves: one step.                               *)
(***************************************************************************)
AlwaysHead(t) == TRUE
IsHead(t) == wq \in {NoTask, t}

(* wake_up(&t), and __sleep_on's tmp->state = 0. *)
WakeForgotten(t) == state
Wake(t) == IF t = NoTask THEN state ELSE [state EXCEPT ![t] = Running]

Resume(t) ==
  /\ cur = t /\ pc[t] = "resume"
  /\ \/ /\ ~IsHead(t)
        /\ state' = [state EXCEPT ![t] = Uninterruptible, ![wq] = Running]
        /\ Goto(t, "asleep")
        /\ UNCHANGED <<iff, wq, chain>>
     \/ /\ IsHead(t)
        /\ wq' = tmp[t]
        /\ state' = Wake(tmp[t])
        /\ iff' = "cli"
        /\ chain' = SubSeq(chain, 2, Len(chain))
        /\ Goto(t, "test")
  /\ UNCHANGED <<cur, mode, op, tmp, sig, b_lock, calls>>

(***************************************************************************)
(* Interrupts.                                                             *)
(***************************************************************************)

(* end_request: unlock_buffer, which ends in wake_up(&bh->b_wait). *)
Unlock ==
  /\ iff = "sti" /\ b_lock = 1
  /\ b_lock' = 0
  /\ state' = Wake(wq)
  /\ UNCHANGED <<cur, iff, pc, mode, op, tmp, sig, wq, calls, chain>>

(* A signal for t: from the keyboard, a timer, or another task's kill. *)
Signal(t) ==
  /\ iff = "sti" /\ pc[t] # "out" /\ mode[t] = Interruptible /\ ~sig[t]
  /\ sig' = [sig EXCEPT ![t] = TRUE]
  /\ UNCHANGED <<cur, iff, pc, mode, op, state, tmp, wq, b_lock, calls, chain>>

Work(t) == Test(t) \/ Save(t) \/ Link(t) \/ Mark(t) \/ Resume(t)

Next == \/ \E t \in Task : \/ \E m \in Modes, f \in Ops : Call(t, m, f)
                           \/ Test(t) \/ Save(t) \/ Link(t) \/ Mark(t)
                           \/ Resume(t) \/ Signal(t)
        \/ \E next \in Task \cup {NoTask} : Schedule(next)
        \/ Unlock

Spec == Init /\ [][Next]_vars

(***************************************************************************)
(* Fairness: the running task goes on; the scheduler comes round to every  *)
(* task that is runnable again and again (module Scheduler); the device    *)
(* interrupts in the end.  Nobody is obliged to call, and no signal need   *)
(* come.                                                                   *)
(***************************************************************************)
Fairness == /\ \A t \in Task : WF_vars(Work(t)) /\ SF_vars(Schedule(t))
            /\ SF_vars(Unlock)

FairSpec == Spec /\ Fairness

-----------------------------------------------------------------------------
TypeOK == /\ cur \in Task \cup {NoTask} /\ iff \in {"sti", "cli"}
          /\ pc \in [Task -> Locations]
          /\ mode \in [Task -> Modes] /\ op \in [Task -> Ops]
          /\ state \in [Task -> Modes \cup {Running}]
          /\ tmp \in [Task -> Task \cup {NoTask}]
          /\ sig \in [Task -> BOOLEAN]
          /\ wq \in Task \cup {NoTask} /\ b_lock \in {0, 1}
          /\ calls \in [Task -> 0..MaxCalls]
          /\ chain \in Seq(Task)

(* The tmp variables scattered over the kernel stacks form one list: it
   starts at *p, holds exactly the tasks that are inside __sleep_on, each
   once, the latest first, and ends in NULL.  So every sleeper is reached
   from *p, and no pointer leads to a task that has already left. *)
ChainIntact ==
  /\ Linked = {chain[i] : i \in 1..Len(chain)}
  /\ \A i, j \in 1..Len(chain) : chain[i] = chain[j] => i = j
  /\ wq = IF chain = <<>> THEN NoTask ELSE chain[1]
  /\ \A i \in 1..Len(chain) :
        tmp[chain[i]] = IF i = Len(chain) THEN NoTask ELSE chain[i + 1]

(* No wakeup is lost: when the buffer is unlocked and tasks are still inside
   __sleep_on, one of them is runnable - and passes it on down the list. *)
NoLostWakeup ==
  b_lock = 0 /\ Linked # {} => \E t \in Linked : state[t] = Running

(* What a task holds between cli() and the end of __sleep_on: it is the running
   one, interrupts are off, and so what it has read is still true. *)
CliSection ==
  /\ \A t \in Task : pc[t] \in Locations \ {"out", "asleep"} => cur = t
  /\ \A t \in Task : pc[t] \in {"test", "save", "link", "mark"} => iff = "cli"
  /\ \A t \in Task : pc[t] \in {"save", "link", "mark"} => b_lock = 1
  /\ \A t \in Task : pc[t] = "link" => tmp[t] = wq

(* The inductive invariant. *)
IInv == TypeOK /\ CliSection /\ ChainIntact /\ NoLostWakeup

(* Every call of lock_buffer or wait_on_buffer returns, as long as the tasks
   do not go on locking the buffer for ever. *)
EveryCallReturns == \A t \in Task : pc[t] = "test" ~> pc[t] = "out"
=============================================================================
