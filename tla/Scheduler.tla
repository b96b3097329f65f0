------------------------------ MODULE Scheduler ------------------------------
(***************************************************************************)
(* Who runs: schedule, the time slices of do_timer, sys_nice, sys_alarm    *)
(* and the timeouts of kernel/sched.c, and the end of a system call in     *)
(* sys_call.s.  The clock is kept as differences: alarm and timeout are    *)
(* the ticks left.                                                         *)
(***************************************************************************)
EXTENDS Integers

CONSTANTS Task,         \* 1.., the slots of task[] in use; 0 is the idle task
          PRIORITY,     \* priority at the start, and the most a superuser raises it to
          Increment,    \* arguments of sys_nice
          Ticks,        \* arguments of sys_alarm and timeouts
          Alarmed, Niced  \* bound: the tasks that use an alarm or timeout, that call sys_nice

VARIABLE sc

Off == 99               \* an alarm or timeout that is not set
All == Task \cup {0}

Sc0 == [state |-> [t \in All |-> "running"], counter |-> [t \in All |-> PRIORITY],
        priority |-> [t \in All |-> PRIORITY], current |-> 0,
        alarm |-> [t \in All |-> Off], timeout |-> [t \in All |-> Off], sigalrm |-> {},
        busy |-> "no"]     \* schedule looks for a task for ever: interrupts are "on", "off"

Init == sc = Sc0

Due(left) == left < 0

(* schedule: alarms and timeouts that are over, and whom they wake. *)
CheckAlarms(s) ==
  LET rings == {t \in Task : Due(s.alarm[t])}
      out == {t \in Task : Due(s.timeout[t])}
      up == out \cup rings \cup s.sigalrm
  IN  [s EXCEPT !.sigalrm = @ \cup rings,
                !.alarm = [t \in All |-> IF t \in rings THEN Off ELSE @[t]],
                !.timeout = [t \in All |-> IF t \in out THEN Off ELSE @[t]],
                !.state = [t \in All |-> IF t \in up /\ @[t] = "interruptible" THEN "running" ELSE @[t]]]

Runnable(s) == {t \in Task : s.state[t] = "running"}

(* The task with the most ticks left, the last of them in task[]. *)
Goodness(s, t) == \A u \in Runnable(s) : s.counter[u] < s.counter[t]
                                         \/ (s.counter[u] = s.counter[t] /\ u <= t)

NotRecounted(s) == s
Recount(s) ==
  [s EXCEPT !.counter = [t \in All |-> IF t \in Task THEN @[t] \div 2 + s.priority[t] ELSE @[t]]]

Spent(s) == Runnable(s) # {} /\ \A t \in Runnable(s) : s.counter[t] = 0

Switch(s) == [s EXCEPT !.busy = "no", !.current = IF Runnable(s) = {} THEN 0
                                                  ELSE CHOOSE t \in Runnable(s) : Goodness(s, t)]

(* The choice of schedule.  Its loop goes on when all that can run have priority 0. *)
Choice(s, interrupts) ==
  CASE ~Spent(s) -> {Switch(s)}
    [] OTHER -> {IF Spent(b) THEN [b EXCEPT !.busy = interrupts] ELSE Switch(b) : b \in {Recount(s)}}

(* The one outcome of schedule. *)
Schedule(s, interrupts) == UNION {Choice(a, interrupts) : a \in {CheckAlarms(s)}}

-----------------------------------------------------------------------------
Down(left) == IF left = Off \/ left < 0 THEN left ELSE left - 1

(* The loop of schedule goes round once more. *)
Loop == sc.busy # "no" /\ sc' \in Choice(sc, sc.busy)

(* do_timer, in user mode or in the kernel, where it may interrupt schedule. *)
Tick(cpl) ==
  /\ sc.busy = "no" \/ (sc.busy = "on" /\ cpl = 0)
  /\ LET c == sc.counter[sc.current]
         s == [sc EXCEPT !.counter[sc.current] = IF c > 1 THEN c - 1 ELSE 0,
                         !.alarm = [t \in All |-> Down(@[t])], !.timeout = [t \in All |-> Down(@[t])]]
     IN  sc' \in IF c > 1 \/ cpl = 0 THEN {s} ELSE Schedule(s, "off")

(* The end of a system call: its slice is over, or a signal is taken. *)
Return ==
  /\ sc.busy = "no"
  /\ \/ sc.current # 0 /\ sc.counter[sc.current] = 0 /\ sc' \in Schedule(sc, "on")
     \/ sc.current \in sc.sigalrm /\ sc' = [sc EXCEPT !.sigalrm = @ \ {sc.current}]

(* The idle task calls pause again and again. *)
Idle == sc.busy = "no" /\ sc.current = 0 /\ sc' \in Schedule(sc, "on")

(* sleep_on and interruptible_sleep_on, the second with a timeout or not. *)
Sleep ==
  /\ sc.busy = "no" /\ sc.current # 0
  /\ \/ sc' \in Schedule([sc EXCEPT !.state[sc.current] = "uninterruptible"], "on")
     \/ \E left \in {Off} \cup (IF sc.current \in Alarmed THEN Ticks ELSE {}) :
          sc' \in Schedule([sc EXCEPT !.state[sc.current] = "interruptible", !.timeout[sc.current] = left], "on")

WakeUp(t) == sc.busy # "off" /\ sc.state[t] # "running" /\ sc' = [sc EXCEPT !.state[t] = "running"]

SysAlarm == /\ sc.busy = "no" /\ sc.current \in Alarmed
            /\ \E left \in Ticks \cup {Off} : sc' = [sc EXCEPT !.alarm[sc.current] = left]

(* sys_nice.  An increment equal to the priority leaves priority 0. *)
SysNice ==
  /\ sc.busy = "no" /\ sc.current \in Niced
  /\ LET p == sc.priority[sc.current]
     IN  \E i \in Increment : /\ p - i <= PRIORITY
                              /\ sc' = [sc EXCEPT !.priority[sc.current] = p - (IF i > p THEN p - 1 ELSE i)]

Next == \/ (\E cpl \in {0, 3} : Tick(cpl)) \/ Loop \/ Return \/ Idle \/ Sleep
        \/ (\E t \in Task : WakeUp(t)) \/ SysAlarm \/ SysNice

-----------------------------------------------------------------------------
(* A task that can run and whose priority is not 0 gets to run, whatever the others do and
   however they sleep, wake and are niced.  A task of priority 0 is given no ticks by
   schedule, which never chooses it while others can run. *)
RunnableRuns == \A t \in Task : sc.state[t] = "running" /\ sc.priority[t] # 0 ~> sc.current = t

(* A task that sleeps until a signal does not sleep past its alarm or its timeout, unless
   schedule is caught in its loop, which does not look at them: then all that can run have
   priority 0. *)
AlarmsRing ==
  \A t \in Task : (sc.state[t] = "interruptible" /\ (sc.alarm[t] # Off \/ sc.timeout[t] # Off))
                  ~> sc.state[t] = "running" \/ (sc.busy # "no" /\ \A u \in Runnable(sc) : sc.priority[u] = 0)
=============================================================================
