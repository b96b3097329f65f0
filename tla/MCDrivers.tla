------------------------------ MODULE MCDrivers ------------------------------
(***************************************************************************)
(* The drivers, the timers and the scheduler on small instances.  They do  *)
(* not meet in these modules, so each is run by itself: part says which.   *)
(***************************************************************************)
EXTENDS HardDiskDriver, FloppyDriver, SerialDriver, TimerList

VARIABLES part, sc

Rq(c, d, t) == [cmd |-> c, drive |-> d, track |-> t]

(* The last one runs past the end of the disk. *)
DiskRequests == <<[cmd |-> "read", start |-> 0], [cmd |-> "write", start |-> 3],
                  [cmd |-> "read", start |-> 4]>>

FloppyRequests == <<Rq("read", 1, 1), Rq("write", 1, 1), Rq("write", 0, 0), Rq("read", 1, 1),
                    Rq("write", 1, 0)>>

SC == INSTANCE Scheduler WITH Task <- {1, 2}, PRIORITY <- 2, Increment <- {-1, 1, 2}, Ticks <- {0},
                              Alarmed <- {1}, Niced <- {2}

Init == /\ part \in {"hd", "fd", "sl", "tm", "sc"}
        /\ HD!Init /\ FD!Init /\ SL!Init /\ TM!Init /\ SC!Init

vars == <<part, hd, fd, sl, tm, sc>>

Next == \/ part = "hd" /\ HD!Next /\ UNCHANGED <<part, fd, sl, tm, sc>>
        \/ part = "fd" /\ FD!Next /\ UNCHANGED <<part, hd, sl, tm, sc>>
        \/ part = "sl" /\ SL!Next /\ UNCHANGED <<part, hd, fd, tm, sc>>
        \/ part = "tm" /\ TM!Next /\ UNCHANGED <<part, hd, fd, sl, sc>>
        \/ part = "sc" /\ SC!Next /\ UNCHANGED <<part, hd, fd, sl, tm>>

(* Hardware and clock go on; see the modules.  For the floppy the formula is WF_fd(FD!Goes),
   with CanGo for ENABLED <<FD!Goes>>_fd. *)
Fairness ==
  /\ WF_hd(HD!Drive)
  /\ []<>~(part = "fd" /\ FD!CanGo) \/ []<><<FD!Goes>>_fd
  /\ WF_sl(part = "sl" /\ SL!TtyWrite) /\ WF_sl(SL!Transmit) /\ WF_sl(SL!Shifted)
  /\ WF_sl(SL!Timeout) /\ WF_sl(SL!Timer)
  /\ WF_sc(part = "sc" /\ (SC!Tick(0) \/ SC!Tick(3))) /\ WF_sc(part = "sc" /\ (SC!Return \/ SC!Idle))
  /\ WF_sc(part = "sc" /\ SC!Loop)

Spec == Init /\ [][Next]_vars /\ Fairness

-----------------------------------------------------------------------------
(* HardDisk and Floppy: each request ends, with its data or an error, whatever fails and is
   late.  On the floppy, unless a request is added while the driver still resets after the
   last one has failed: do_fd_request is entered twice then, and nothing is said of it. *)
RequestsEnd == HD!EveryRequestEnds /\ FD!EveryRequestEnds

(* SerialLine: a writer returns and the queues are emptied, though interrupts get lost; the
   read queue as long as secondary has room. *)
LineGoesOn == SL!LineGoesOn

(* Scheduler: each task that can run, and whose priority is not 0, does, and alarms and
   timeouts end an interruptible sleep, unless schedule loops for tasks of priority 0. *)
EveryTaskRuns == part = "sc" => SC!RunnableRuns /\ SC!AlarmsRing
=============================================================================
