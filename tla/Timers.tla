-------------------------------- MODULE Timers --------------------------------
(***************************************************************************)
(* The timers of add_timer and do_timer, kernel/sched.c: a list in which   *)
(* each entry counts the ticks after the entry before it.                  *)
(***************************************************************************)
EXTENDS Integers, Sequences

CONSTANTS Ticks,         \* what a timer may be set to
          TIME_REQUESTS  \* bound: timers set in all; the code panics at 64 at a time

VARIABLE tm

(* list: the timers, as [id, left]; Not in the code, of each timer: want, the ticks it was
   set to; age, those that have passed since; slack, the ticks of timers set after it while
   it waited; nr, how many were set; fired. *)
Tm0 == [list |-> <<>>, nr |-> 0, fired |-> {},
        want |-> [i \in 1..TIME_REQUESTS |-> 0], age |-> [i \in 1..TIME_REQUESTS |-> 0],
        slack |-> [i \in 1..TIME_REQUESTS |-> 0]]

Init == tm = Tm0

Inserted(list, k, e) == SubSeq(list, 1, k) \o <<e>> \o SubSeq(list, k + 1, Len(list))

PlaceAbsolute(list, e) == Inserted(list, Len(SelectSeq(list, LAMBDA x : x.left < e.left)), e)

(* The ticks until the k-th timer ends. *)
Ends(list) ==
  LET ends[k \in 0..Len(list)] == IF k = 0 THEN 0 ELSE ends[k - 1] + list[k].left
  IN  ends

(* The new entry goes behind those that end before it, and their ticks are taken off its
   own; those behind it keep theirs. *)
Place(list, e) ==
  LET passes(k) == \A i \in 1..k : list[i].left < e.left - Ends(list)[i - 1]
      k == CHOOSE k \in 0..Len(list) : passes(k) /\ (k < Len(list) => ~passes(k + 1))
  IN  Inserted(list, k, [e EXCEPT !.left = @ - Ends(list)[k]])

AddTimer(j) ==
  /\ tm.nr < TIME_REQUESTS
  /\ LET id == tm.nr + 1
         waiting == {tm.list[i].id : i \in 1..Len(tm.list)}
     IN  tm' = [tm EXCEPT !.nr = id, !.list = Place(@, [id |-> id, left |-> j]), !.want[id] = j,
                          !.slack = [i \in 1..TIME_REQUESTS |-> IF i \in waiting THEN @[i] + j ELSE @[i]]]

(* do_timer: the first entry counts down, and those that are then at 0 are called. *)
Tick ==
  /\ tm.list # <<>>
  /\ LET down == [tm.list EXCEPT ![1].left = @ - 1]
         n == CHOOSE n \in 0..Len(down) : /\ \A i \in 1..n : down[i].left <= 0
                                          /\ n < Len(down) => down[n + 1].left > 0
         waiting == {tm.list[i].id : i \in 1..Len(tm.list)}
     IN  tm' = [tm EXCEPT !.list = SubSeq(down, n + 1, Len(down)),
                          !.fired = @ \cup {down[i].id : i \in 1..n},
                          !.age = [i \in 1..TIME_REQUESTS |-> IF i \in waiting THEN @[i] + 1 ELSE @[i]]]

Next == Tick \/ \E j \in Ticks : AddTimer(j)

-----------------------------------------------------------------------------
(* No timer is called before its ticks have passed; it is late by no more than the timers
   set after it, whose ticks add_timer does not take off the entry behind them. *)
TimersInBounds ==
  \A i \in 1..tm.nr :
    /\ i \in tm.fired => tm.age[i] >= tm.want[i]
    /\ tm.age[i] <= tm.want[i] + tm.slack[i]

-----------------------------------------------------------------------------
(***************************************************************************)
(* Why: the inductive invariant of the proofs.                             *)
(***************************************************************************)
TimersAssumption == Ticks \subseteq Nat \ {0} /\ TIME_REQUESTS \in Nat

Id == 1..TIME_REQUESTS
Entry == [id : Id, left : Nat]

(* A timer that waits is called when the entries before it and its own have counted down:
   not before its ticks, and late by its slack at most. *)
OnTime(h) ==
  \A k \in 1..Len(h.list) :
    LET i == h.list[k].id
    IN  /\ h.age[i] + Ends(h.list)[k] >= h.want[i]
        /\ h.age[i] + Ends(h.list)[k] <= h.want[i] + h.slack[i]

(* A timer is in the list once, until it is called, and the first has still to count. *)
Waits(h) ==
  /\ h.list \in Seq(Entry) /\ (h.list # <<>> => h.list[1].left >= 1)
  /\ \A k \in 1..Len(h.list) : h.list[k].id <= h.nr /\ h.list[k].id \notin h.fired
  /\ \A k, l \in 1..Len(h.list) : h.list[k].id = h.list[l].id => k = l

Called(h) ==
  /\ h.fired \subseteq 1..h.nr /\ \A i \in Id : i > h.nr => h.age[i] = 0
  /\ \A i \in 1..h.nr : (i \in h.fired => h.age[i] >= h.want[i]) /\ h.age[i] <= h.want[i] + h.slack[i]

IInv ==
  /\ tm \in [list : Seq(Entry), nr : 0..TIME_REQUESTS, fired : SUBSET Id,
             want : [Id -> Nat], age : [Id -> Nat], slack : [Id -> Nat]]
  /\ OnTime(tm) /\ Waits(tm) /\ Called(tm)
=============================================================================
