------------------------------ MODULE SleepQueue ------------------------------
(***************************************************************************)
(* The wait queue under names of its own, so that it can stand beside a    *)
(* module whose tasks sleep on it: BlockRequests takes from WaitQueue that *)
(* a wake_up lets all sleepers look again, however many they are.          *)
(***************************************************************************)
EXTENDS Naturals, Sequences

CONSTANTS Sleeper,     \* the tasks that sleep on this queue
          NoSleeper,   \* NULL, and the idle task
          MaxSleeps    \* bound: calls made by each of them

VARIABLES cur, iff, pc, mode, op, state, tmp, sig, wq, locked, made, chain

W == INSTANCE WaitQueue WITH Task <- Sleeper, NoTask <- NoSleeper, MaxCalls <- MaxSleeps,
                             b_lock <- locked, calls <- made

ASSUME SleepAssumption == W!QueueAssumption

QueueSpec == W!Spec
FairQueueSpec == W!FairSpec

(* __sleep_on: the tmp variables on the kernel stacks form one list of exactly the tasks
   that sleep, each once, from *p to NULL. *)
ChainIntact == W!ChainIntact

(* wake_up and __sleep_on: when the buffer is unlocked and tasks are still inside
   __sleep_on, one of them is runnable, and wakes the next. *)
NoLostWakeup == W!NoLostWakeup

(* lock_buffer and wait_on_buffer return, although wake_up wakes only the head. *)
EveryCallReturns == W!EveryCallReturns
=============================================================================
