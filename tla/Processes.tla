------------------------------ MODULE Processes ------------------------------
(***************************************************************************)
(* kernel/fork.c, exit.c, signal.c and the process groups of sys.c: the    *)
(* table task[] with its family tree of pointers, signals, stopping,       *)
(* exit, orphaned process groups and waitpid.                              *)
(*                                                                         *)
(* A task in the kernel is not preempted: an action is what it does up to  *)
(* the next schedule().  fork sleeps while it copies the memory, with the  *)
(* child already in task[]; exit sleeps while it closes files; waitpid     *)
(* sleeps for a child.  Signals are not blocked and have their default     *)
(* actions.  Nobody is traced or has a controlling terminal; init is not   *)
(* killed and changes no group.  A pid is a slot: the 31 bits of last_pid  *)
(* do not wrap.  The loops over task[] skip its empty slots.               *)
(***************************************************************************)
EXTENDS Naturals, FiniteSets

CONSTANTS Task, NoTask,   \* the slots but 0; NoTask is NULL, task 0 and pgrp 0
          Init1,          \* task[1]
          WaitCalls,      \* the waitpid calls that are made: [by, id, untraced, nohang]
          MaxKills, MaxGroups   \* bounds: kills, changes of groups

ASSUME ProcessAssumption ==
  /\ Init1 \in Task /\ NoTask \notin Task /\ {MaxKills, MaxGroups} \subseteq Nat
  /\ WaitCalls \subseteq [by : {"any", "pid", "own", "pgrp"}, id : Task \cup {NoTask},
                           untraced : BOOLEAN, nohang : BOOLEAN]

VARIABLES task,       \* the slots in use
          state, pptr, cptr, ysptr, osptr, signal, exit_code, pgrp, session, leader,
          at,         \* where a task is
          newborn,    \* fork's p
          want,       \* waitpid's arguments
          kills, changes

links == <<pptr, cptr, ysptr, osptr>>
groups == <<pgrp, session, leader>>
counts == <<kills, changes>>
vars == <<task, state, links, signal, exit_code, groups, at, newborn, want, counts>>

Signals == {"HUP", "KILL", "CHLD", "CONT", "STOP"}
Number == [HUP |-> 1, KILL |-> 9, CHLD |-> 17, CONT |-> 18, STOP |-> 19]
Exited == "exit"   \* any code of do_exit
AnyChild == [by |-> "any", id |-> NoTask, untraced |-> FALSE, nohang |-> FALSE]

Blank(v) == [t \in Task |-> v]

Init ==
  /\ task = {Init1} /\ state = Blank("running") /\ signal = Blank({})
  /\ pptr = Blank(NoTask) /\ cptr = Blank(NoTask) /\ ysptr = Blank(NoTask) /\ osptr = Blank(NoTask)
  /\ exit_code = Blank("none")
  /\ pgrp = Blank(NoTask) /\ session = Blank(NoTask) /\ leader = Blank(FALSE)
  /\ at = Blank("user") /\ newborn = Blank(NoTask) /\ want = Blank(AnyChild)
  /\ kills = 0 /\ changes = 0

Runs(t) == t \in task /\ state[t] = "running"
InUser(t) == Runs(t) /\ at[t] = "user" /\ signal[t] = {}
Goto(t, l) == at' = [at EXCEPT ![t] = l]

(* The tasks from c on along the p_osptr links: whatever holds c and is closed under
   the links has them all.  The children of p are those from p_cptr on. *)
Closed(S) == \A p \in S : osptr[p] \in S \cup {NoTask}
From(c) ==
  LET closed == {S \in SUBSET Task : c \in S \cup {NoTask} /\ Closed(S)}
  IN  {d \in Task : \A S \in closed : d \in S}
Kids(p) == From(cptr[p])

(***************************************************************************)
(* fork.                                                                   *)
(***************************************************************************)

(* A pid no task has and no group (nor session: pids are not reused here, slots
   are).  The structure is copied, links and all. *)
FreshPid(c) == c \notin task /\ \A q \in task : c \notin {pgrp[q], session[q]}

Fork(t, c) ==
  /\ InUser(t) /\ FreshPid(c)
  /\ task' = task \cup {c}
  /\ state' = [state EXCEPT ![c] = "uninterruptible"]
  /\ pptr' = [pptr EXCEPT ![c] = pptr[t]] /\ cptr' = [cptr EXCEPT ![c] = cptr[t]]
  /\ ysptr' = [ysptr EXCEPT ![c] = ysptr[t]] /\ osptr' = [osptr EXCEPT ![c] = osptr[t]]
  /\ signal' = [signal EXCEPT ![c] = {}]
  /\ exit_code' = [exit_code EXCEPT ![c] = exit_code[t]]
  /\ pgrp' = [pgrp EXCEPT ![c] = pgrp[t]] /\ session' = [session EXCEPT ![c] = session[t]]
  /\ leader' = [leader EXCEPT ![c] = FALSE]
  /\ at' = [at EXCEPT ![t] = "fork", ![c] = "new"]
  /\ newborn' = [newborn EXCEPT ![t] = c]
  /\ UNCHANGED <<want, counts>>

(* copy_mem is done, which may have slept: the child is linked in. *)
Forked(t) ==
  LET c == newborn[t]
      old == cptr[t]
  IN
  /\ Runs(t) /\ at[t] = "fork"
  /\ pptr' = [pptr EXCEPT ![c] = t]
  /\ cptr' = [cptr EXCEPT ![c] = NoTask, ![t] = c]
  /\ ysptr' = [p \in Task |-> IF p = c THEN NoTask ELSE IF p = old THEN c ELSE ysptr[p]]
  /\ osptr' = [osptr EXCEPT ![c] = old]
  /\ state' = [state EXCEPT ![c] = "running"]
  /\ at' = [at EXCEPT ![t] = "user", ![c] = "user"]
  /\ newborn' = [newborn EXCEPT ![t] = NoTask]
  /\ UNCHANGED <<task, signal, exit_code, groups, want, counts>>

(* What is left of the structure c once it is free; nothing looks at it again
   but through a half-made child's links. *)
Freed(c) ==
  /\ task' = task \ {c}
  /\ state' = [state EXCEPT ![c] = "running"] /\ signal' = [signal EXCEPT ![c] = {}]
  /\ exit_code' = [exit_code EXCEPT ![c] = "none"]
  /\ pgrp' = [pgrp EXCEPT ![c] = NoTask] /\ session' = [session EXCEPT ![c] = NoTask]
  /\ leader' = [leader EXCEPT ![c] = FALSE]
  /\ pptr' = [pptr EXCEPT ![c] = NoTask]

(* copy_mem has failed. *)
ForkFails(t) ==
  /\ Runs(t) /\ at[t] = "fork"
  /\ Freed(newborn[t])
  /\ cptr' = [cptr EXCEPT ![newborn[t]] = NoTask] /\ ysptr' = [ysptr EXCEPT ![newborn[t]] = NoTask]
  /\ osptr' = [osptr EXCEPT ![newborn[t]] = NoTask]
  /\ at' = [at EXCEPT ![t] = "user", ![newborn[t]] = "user"]
  /\ newborn' = [newborn EXCEPT ![t] = NoTask]
  /\ UNCHANGED <<want, counts>>

(***************************************************************************)
(* Signals: send_sig to the tasks of S, and do_signal on the way back to   *)
(* user mode.                                                              *)
(***************************************************************************)
Resumes(sig) == sig \in {"KILL", "CONT"}
StateAfter(sig, p) == IF Resumes(sig) /\ state[p] = "stopped" THEN "running" ELSE state[p]
SignalAfter(sig, p) ==
  IF state[p] = "zombie" THEN {}   \* nobody looks at a zombie's signals
  ELSE (signal[p] \ (IF Resumes(sig) THEN {"STOP"} ELSE IF sig = "STOP" THEN {"CONT"} ELSE {}))
         \cup {sig}

SendSig(S, sig) ==
  /\ state' = [p \in Task |-> IF p \in S THEN StateAfter(sig, p) ELSE state[p]]
  /\ signal' = [p \in Task |-> IF p \in S THEN SignalAfter(sig, p) ELSE signal[p]]
  /\ exit_code' = [p \in Task |-> IF p \in S /\ Resumes(sig) THEN "none" ELSE exit_code[p]]

Group(g) == IF g = NoTask THEN {} ELSE {p \in task : pgrp[p] = g}

(* sys_kill of a process or of a group; init is left in peace. *)
Kill(t, S, sig) ==
  /\ InUser(t) /\ kills < MaxKills /\ kills' = kills + 1
  /\ Init1 \notin S /\ SendSig(S, sig)
  /\ UNCHANGED <<task, links, groups, at, newborn, want, changes>>

(* The signal with the lowest number. *)
First(t) == CHOOSE s \in signal[t] : \A r \in signal[t] : Number[s] <= Number[r]

DoSignal(t) ==
  LET s == First(t)
      father == pptr[t]
  IN
  /\ Runs(t) /\ at[t] = "user" /\ signal[t] # {}
  /\ signal' = [p \in Task |-> IF p = t THEN signal[p] \ {s}
                               ELSE IF p = father /\ s = "STOP" THEN signal[p] \cup {"CHLD"}
                               ELSE signal[p]]
  /\ \/ /\ s \in {"CHLD", "CONT"}
        /\ UNCHANGED <<state, exit_code, at>>
     \/ /\ s = "STOP"
        /\ state' = [state EXCEPT ![t] = "stopped"]
        /\ exit_code' = [exit_code EXCEPT ![t] = "STOP"]
        /\ UNCHANGED at
     \/ /\ s \in {"HUP", "KILL"}
        /\ Goto(t, "exit")
        /\ UNCHANGED <<state, exit_code>>
  /\ UNCHANGED <<task, links, groups, newborn, want, counts>>

(* schedule(): an interruptible task with a signal is runnable. *)
SignalSeen(t) ==
  /\ t \in task /\ state[t] = "interruptible" /\ signal[t] # {}
  /\ state' = [state EXCEPT ![t] = "running"]
  /\ UNCHANGED <<task, links, signal, exit_code, groups, at, newborn, want, counts>>

(***************************************************************************)
(* Process groups.                                                         *)
(***************************************************************************)
(* The session of a group is that of the member in its last slot, any of them. *)
SetPgid(t, p, g) ==
  /\ InUser(t) /\ p \in task \ {Init1} /\ (pptr[p] = t \/ p = t)
  /\ ~leader[p] /\ session[p] = session[t]
  /\ g # p => \E q \in task : pgrp[q] = g /\ session[q] = session[t]
  /\ pgrp[p] # g /\ changes < MaxGroups /\ changes' = changes + 1
  /\ pgrp' = [pgrp EXCEPT ![p] = g]
  /\ UNCHANGED <<task, state, links, signal, exit_code, session, leader, at, newborn, want,
                 kills>>

SetSid(t) ==
  /\ InUser(t) /\ t # Init1 /\ ~leader[t] /\ changes < MaxGroups /\ changes' = changes + 1
  /\ leader' = [leader EXCEPT ![t] = TRUE]
  /\ session' = [session EXCEPT ![t] = t] /\ pgrp' = [pgrp EXCEPT ![t] = t]
  /\ UNCHANGED <<task, state, links, signal, exit_code, at, newborn, want, kills>>

(* is_orphaned_pgrp, has_stopped_jobs, with st and pp for the states and the
   parents at that moment.  The parent of a half-made child may be gone: stale
   is what its freed structure says. *)
Connects(p, st, pp, stale) ==
  /\ st[p] # "zombie" /\ pp[p] \notin {Init1, NoTask}
  /\ IF pp[p] \in task THEN pgrp[pp[p]] # pgrp[p] /\ session[pp[p]] = session[p] ELSE stale
IsOrphaned(g, st, pp, stale) == \A p \in Group(g) : ~Connects(p, st, pp, stale)
HasStoppedJobs(g) == \E p \in Group(g) : state[p] = "stopped"

(***************************************************************************)
(* exit: do_exit sleeps while it gives up memory and files, and then does  *)
(* the rest in one go.                                                     *)
(***************************************************************************)
Exit(t) ==
  /\ InUser(t) /\ t # Init1
  /\ Goto(t, "exit")
  /\ UNCHANGED <<task, state, links, signal, exit_code, groups, newborn, want, counts>>

(* The groups that get SIGHUP and SIGCONT: case i, our own group loses its
   father outside; case ii, a child's group loses us.  In the loop over the
   children each finds the ones before it already with init. *)
CaseI(t, st, stale) ==
  /\ pptr[t] # NoTask /\ pgrp[pptr[t]] # pgrp[t] /\ session[pptr[t]] = session[t]
  /\ IsOrphaned(pgrp[t], st, pptr, stale) /\ HasStoppedJobs(pgrp[t])

CaseIINot(t, p, st, pp, stale) == FALSE
CaseII(t, p, st, pp, stale) ==
  /\ pgrp[p] # pgrp[t] /\ session[p] = session[t]
  /\ IsOrphaned(pgrp[p], st, pp, stale) /\ HasStoppedJobs(pgrp[p])

Inherited(t) == [p \in Task |-> IF p \in Kids(t) THEN Init1 ELSE pptr[p]]

HungUp(t, stale) ==
  LET st == [state EXCEPT ![t] = "zombie"]
      own == IF CaseI(t, st, stale) THEN Group(pgrp[t]) ELSE {}
      inherited == Inherited(t)
  IN  own \cup UNION {Group(pgrp[p]) :
                       p \in {q \in Kids(t) : CaseII(t, q, st, inherited, stale)}}

InitNotTold(t) == {pptr[t]}
Told(t) == {pptr[t]} \cup (IF \E p \in Kids(t) : state[p] = "zombie" THEN {Init1} ELSE {})

(* The children go to the front of init's list, the eldest before init's own
   youngest. *)
Eldest(t) == CHOOSE p \in Kids(t) : osptr[p] = NoTask
JoinedBack(t) == [ysptr EXCEPT ![cptr[Init1]] = Eldest(t)]

DoExit(t) ==
  /\ Runs(t) /\ at[t] = "exit"
  /\ \E stale \in BOOLEAN :
       LET hungUp == HungUp(t, stale)
           told == Told(t)
       IN
       /\ state' = [p \in Task |-> IF p = t THEN "zombie"
                                   ELSE IF p \in hungUp THEN StateAfter("CONT", p) ELSE state[p]]
       /\ exit_code' = [p \in Task |-> IF p \in hungUp THEN "none"
                                       ELSE IF p = t THEN Exited ELSE exit_code[p]]
       /\ signal' = [p \in Task |->
                       IF p = t \/ state[p] = "zombie" THEN {}
                       ELSE (IF p \in hungUp THEN SignalAfter("CONT", p) \cup {"HUP"} ELSE signal[p])
                               \cup (IF p \in told THEN {"CHLD"} ELSE {})]
  /\ pptr' = Inherited(t)
  /\ IF Kids(t) = {} THEN UNCHANGED <<cptr, ysptr, osptr>>
     ELSE /\ osptr' = [osptr EXCEPT ![Eldest(t)] = cptr[Init1]]
          /\ ysptr' = JoinedBack(t)
          /\ cptr' = [cptr EXCEPT ![Init1] = cptr[t], ![t] = NoTask]
  /\ UNCHANGED <<task, groups, at, newborn, want, counts>>

(***************************************************************************)
(* waitpid(pid, ..., options): for any child, for one, for those of the    *)
(* caller's group or of another.  Without children it returns at once.     *)
(***************************************************************************)
Wait(t, w) ==
  /\ InUser(t) /\ Kids(t) # {} /\ Goto(t, "wait")
  /\ want' = [want EXCEPT ![t] = w]
  /\ UNCHANGED <<task, state, links, signal, exit_code, groups, newborn, counts>>

Wanted(t) ==
  {c \in Kids(t) : \/ want[t].by = "any"
                   \/ want[t].by = "pid" /\ c = want[t].id
                   \/ want[t].by = "own" /\ pgrp[c] = pgrp[t]
                   \/ want[t].by = "pgrp" /\ pgrp[c] = want[t].id}
Zombies(t) == {c \in Wanted(t) : state[c] = "zombie"}
News(t) == {c \in Wanted(t) : want[t].untraced /\ state[c] = "stopped" /\ exit_code[c] # "none"}
Living(t) == {c \in Wanted(t) : state[c] \notin {"zombie", "stopped"}}

(* The youngest of the children there is something to tell of. *)
Reported(t) ==
  LET S == Zombies(t) \cup News(t) IN {c \in S : S \subseteq From(c)}

Returns(t) == want' = [want EXCEPT ![t] = AnyChild]

(* release. *)
NotUnlinked(c) == ysptr
Unlinked(c) == IF osptr[c] = NoTask THEN ysptr ELSE [ysptr EXCEPT ![osptr[c]] = ysptr[c]]

Youngest(c) == IF ysptr[c] # NoTask THEN cptr ELSE [cptr EXCEPT ![pptr[c]] = osptr[c]]

Reap(t) ==
  /\ Runs(t) /\ at[t] = "wait"
  /\ \E c \in Reported(t) \cap Zombies(t) :
       /\ Freed(c)
       /\ ysptr' = [Unlinked(c) EXCEPT ![c] = NoTask]
       /\ osptr' = [p \in Task |-> IF p = c THEN NoTask ELSE IF p = ysptr[c] THEN osptr[c] ELSE osptr[p]]
       /\ cptr' = Youngest(c)
       /\ at' = [at EXCEPT ![t] = "user", ![c] = "user"]
  /\ Returns(t)
  /\ UNCHANGED <<newborn, counts>>

ReportStop(t) ==
  /\ Runs(t) /\ at[t] = "wait"
  /\ \E c \in Reported(t) \cap News(t) : exit_code' = [exit_code EXCEPT ![c] = "none"]
  /\ Goto(t, "user") /\ Returns(t)
  /\ UNCHANGED <<task, state, links, signal, groups, newborn, counts>>

(* Nothing to report: sleep, or return if told not to or if no child is left
   that could change (a stopped one does not count). *)
WaitMore(t) ==
  /\ Runs(t) /\ at[t] = "wait" /\ Zombies(t) = {} /\ News(t) = {}
  /\ IF Living(t) # {} /\ ~want[t].nohang
     THEN state' = [state EXCEPT ![t] = "interruptible"] /\ Goto(t, "asleep") /\ UNCHANGED want
     ELSE Goto(t, "user") /\ Returns(t) /\ UNCHANGED state
  /\ UNCHANGED <<task, links, signal, exit_code, groups, newborn, counts>>

(* Awake again: a signal other than SIGCHLD ends the call. *)
Woken(t) ==
  /\ Runs(t) /\ at[t] = "asleep"
  /\ IF signal[t] \ {"CHLD"} = {} THEN Goto(t, "wait") /\ UNCHANGED want
     ELSE Goto(t, "user") /\ Returns(t)
  /\ UNCHANGED <<task, state, links, signal, exit_code, groups, newborn, counts>>

Steps(t) == Forked(t) \/ DoSignal(t) \/ SignalSeen(t) \/ DoExit(t)
              \/ Reap(t) \/ ReportStop(t) \/ WaitMore(t) \/ Woken(t)

Next ==
  \E t \in Task :
    \/ \E c \in Task : Fork(t, c)
    \/ Forked(t) \/ ForkFails(t)
    \/ \E p \in task, s \in {"KILL", "STOP"} : Kill(t, {p}, s)
    \/ \E g \in Task, s \in {"STOP", "CONT"} : Group(g) # {} /\ Kill(t, Group(g), s)
    \/ DoSignal(t) \/ SignalSeen(t)
    \/ \E p, g \in Task : SetPgid(t, p, g)
    \/ SetSid(t)
    \/ Exit(t) \/ DoExit(t)
    \/ \E w \in IF t = Init1 THEN {AnyChild} ELSE WaitCalls : Wait(t, w)
    \/ Reap(t) \/ ReportStop(t) \/ WaitMore(t) \/ Woken(t)

Spec == Init /\ [][Next]_vars

-----------------------------------------------------------------------------
(* Types, and that init lives: no exit hangs up its group, which is group 0. *)
Locations == {"user", "fork", "new", "wait", "asleep", "exit"}
Link == [Task -> Task \cup {NoTask}]
TypeOK ==
  /\ task \subseteq Task /\ Init1 \in task /\ state[Init1] \in {"running", "interruptible"}
  /\ state \in [Task -> {"running", "interruptible", "uninterruptible", "stopped", "zombie"}]
  /\ pptr \in Link /\ cptr \in Link /\ ysptr \in Link /\ osptr \in Link
  /\ pgrp \in Link /\ session \in Link /\ newborn \in Link
  /\ signal \in [Task -> SUBSET Signals] /\ leader \in [Task -> BOOLEAN]
  /\ exit_code \in [Task -> {"none", "STOP", Exited}]
  /\ at \in [Task -> Locations] /\ want \in [Task -> WaitCalls \cup {AnyChild}]
  /\ kills \in 0..MaxKills /\ changes \in 0..MaxGroups

Settled == {t \in task : at[t] # "new"}
ToTask(p) == p = NoTask \/ p \in task

(* The "rep invarient" of audit_ptree: links lead to tasks, siblings are
   linked both ways and have one parent, the youngest child has no younger
   sibling and is its parent's. *)
Audited(t) ==
  /\ ToTask(pptr[t]) /\ ToTask(cptr[t]) /\ ToTask(ysptr[t]) /\ ToTask(osptr[t])
  /\ t \notin {pptr[t], cptr[t], ysptr[t], osptr[t]}
  /\ osptr[t] # NoTask => pptr[osptr[t]] = pptr[t] /\ ysptr[osptr[t]] = t
  /\ ysptr[t] # NoTask => pptr[ysptr[t]] = pptr[t] /\ osptr[ysptr[t]] = t
  /\ cptr[t] # NoTask => pptr[cptr[t]] = t /\ ysptr[cptr[t]] = NoTask

(* What audit_ptree checks, and that each task finds all its children from
   p_cptr, for the tasks fork has linked in: after any order of forks, exits
   and waits, with any of them under way. *)
FamilyTree ==
  \A t \in Settled : Audited(t) /\ Kids(t) = {c \in Settled : pptr[c] = t}

(* do_exit writes through task[1]->p_cptr without a test: init has a child
   whenever an exiting task leaves children. *)
InitHasChildren ==
  \A t \in task : Runs(t) /\ at[t] = "exit" /\ Kids(t) # {} => cptr[Init1] # NoTask

(* The family as a whole, with the types: init, whom nobody can kill, included. *)
FamilyExact == TypeOK /\ FamilyTree /\ InitHasChildren

(* A parent that sleeps in waitpid has been told of a child that it could
   report: no zombie waits for a parent that waits for it.  (Not for waitpid(0), the
   caller's group: its parent may put a sleeper into the group of a zombie.) *)
WaiterIsTold ==
  \A t \in task :
    at[t] = "asleep" /\ state[t] = "interruptible" /\ want[t].by # "own" /\ Zombies(t) # {}
      => "CHLD" \in signal[t]

(* "Newly orphaned process groups are to receive a SIGHUP and a SIGCONT", if
   they have stopped jobs: whichever exit cuts off the group's last link to
   another group of its session.  (Where a half-made child of the group has a parent
   that is gone, what is_orphaned_pgrp reads there may hold the signals back.) *)
OrphansWoken ==
  [][(\E t \in task : state[t] # "zombie" /\ state'[t] = "zombie") =>
       \A p \in task :
         /\ state[p] = "stopped" /\ pgrp[p] # NoTask
         /\ ~IsOrphaned(pgrp[p], state, pptr, FALSE) /\ IsOrphaned(pgrp[p], state', pptr', TRUE)
         => state'[p] = "running" /\ {"HUP", "CONT"} \subseteq signal'[p]]_vars

(***************************************************************************)
(* Why they hold: the inductive invariant of the proofs.                   *)
(***************************************************************************)
(* Where a task is says what state it can be in; a zombie is in the last part of
   do_exit, a half-made child is woken by nobody. *)
StateFits ==
  \A t \in Task :
    /\ at[t] = "user" => state[t] \in {"running", "stopped"}
    /\ at[t] \in {"fork", "wait"} => state[t] = "running"
    /\ at[t] = "asleep" => state[t] \in {"running", "interruptible"}
    /\ at[t] = "exit" => state[t] \in {"running", "zombie"}
    /\ at[t] = "new" => state[t] = "uninterruptible"

(* Init is in no group, so that no exit hangs it up, and nobody kills it. *)
InitIsSafe == /\ at[Init1] \notin {"exit", "new"} /\ pgrp[Init1] = NoTask
              /\ signal[Init1] \subseteq {"CHLD"}

(* A half-made child belongs to the one fork that makes it. *)
NewbornFits ==
  /\ \A c \in Task \ task : at[c] = "user"
  /\ \A t \in Task : at[t] = "fork" => newborn[t] \in task /\ at[newborn[t]] = "new"
  /\ \A t, u \in Task : at[t] = "fork" /\ at[u] = "fork" /\ newborn[t] = newborn[u] => t = u

(* The links of tasks that are linked in lead to such tasks, and siblings are linked
   both ways. *)
InTree(p) == p = NoTask \/ p \in Settled
Linked(t) ==
  /\ InTree(pptr[t]) /\ InTree(cptr[t]) /\ InTree(ysptr[t]) /\ InTree(osptr[t])
  /\ t # pptr[t] /\ t # cptr[t] /\ t # ysptr[t] /\ t # osptr[t]
  /\ (pptr[t] = NoTask) <=> (t = Init1)
  /\ osptr[t] # NoTask => pptr[osptr[t]] = pptr[t] /\ ysptr[osptr[t]] = t
  /\ ysptr[t] # NoTask => pptr[ysptr[t]] = pptr[t] /\ osptr[ysptr[t]] = t
  /\ cptr[t] # NoTask => pptr[cptr[t]] = t /\ ysptr[cptr[t]] = NoTask

(* From p_cptr the links pass all children, and one of them is the eldest. *)
Children(t) == {c \in Settled : pptr[c] = t}
PassesAll(t) ==
  \A S \in SUBSET Settled : cptr[t] \in S \cup {NoTask} /\ Closed(S)
                               => Children(t) \subseteq S
HasEldest(t) == Children(t) # {} => \E e \in Children(t) : osptr[e] = NoTask

(* Nobody is his own ancestor: every task descends from init. *)
Rooted ==
  \A S \in SUBSET Settled : Init1 \in S /\ (\A c \in Settled : pptr[c] \in S => c \in S)
                               => S = Settled

FamilyFits == Rooted /\ \A t \in Settled : Linked(t) /\ PassesAll(t) /\ HasEldest(t)

(* Who has exited has given its children to init. *)
ZombiesAreBare == \A t \in task : state[t] = "zombie" => Children(t) = {}

IInv == TypeOK /\ StateFits /\ InitIsSafe /\ NewbornFits /\ FamilyFits /\ ZombiesAreBare
          /\ WaiterIsTold
=============================================================================
