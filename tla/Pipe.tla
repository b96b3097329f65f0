-------------------------------- MODULE Pipe --------------------------------
(***************************************************************************)
(* fs/pipe.c, and what its users reach it through: descriptors and the     *)
(* file table (open.c, fcntl.c, read_write.c, fork and exit), the pipe     *)
(* part of inode.c, and select.c.  One pipe and the two entries of the     *)
(* file table it needs; the pipe is made and given up again and again.     *)
(*                                                                         *)
(* A process runs until it sleeps: current keeps the others out.  It       *)
(* sleeps on a wait queue, or for a page while bytes are copied between    *)
(* the pipe's page and its memory.  A byte is its running number, modulo   *)
(* Labels.                                                                 *)
(***************************************************************************)
EXTENDS Integers, Sequences, FiniteSets, FiniteSetsExt

CONSTANTS Proc, NoProc,
          PAGE_SIZE,   \* a power of two, so "& (PAGE_SIZE-1)" is a remainder
          NR_OPEN,     \* descriptors of a process
          Counts,      \* bound: how many bytes a call asks for
          SelectSets,  \* sets of "in", "out" and "ex" that select is called with
          Labels

ASSUME PipeAssumption ==
  /\ NoProc \notin Proc /\ IsFiniteSet(Proc) /\ PAGE_SIZE \in Nat \ {0, 1} /\ NR_OPEN \in Nat \ {0}
  /\ Counts \subseteq Nat \ {0} /\ Labels = 2 * PAGE_SIZE
  /\ SelectSets \subseteq SUBSET {"in", "out", "ex"}

RD == "read"   \* f[0]
WR == "write"  \* f[1]
File == {RD, WR}
Nothing == [f \in File |-> 0]

VARIABLES filp,       \* Proc -> File -> how many descriptors name it
          f_count,    \* File -> descriptors of all processes
          i_pipe, i_count, head, tail,
          page,       \* the page at i_size
          current,
          wait,       \* Proc -> the queue it sleeps on, or Awake
          job,        \* Proc -> the call it is in
          sig,        \* processes with a signal
          next, given, broken  \* history, see ByteStream

inode == <<i_pipe, i_count, head, tail, page>>
files == <<filp, f_count>>
history == <<next, given, broken>>
vars == <<files, inode, current, wait, job, sig, history>>

Awake == "awake"
Queue == {"i_wait", "i_wait2"}
Out == [at |-> "out", count |-> 0, set |-> {}]

Zeroed == [i \in 0..PAGE_SIZE - 1 |-> 0]
Advance(i, n) == (i + n) % PAGE_SIZE
PIPE_SIZE == (head + PAGE_SIZE - tail) % PAGE_SIZE
Room == PAGE_SIZE - 1 - PIPE_SIZE

Runs(p) == wait[p] = Awake /\ current \in {NoProc, p}
Calls(p) == Runs(p) /\ job[p] = Out
SleepOn(p, q) == wait' = [wait EXCEPT ![p] = q] /\ current' = NoProc
Woken(Q) == [p \in Proc |-> IF wait[p] \in Q THEN Awake ELSE wait[p]]
WakeUp(q) == wait' = Woken({q})
(* A signal is delivered on the way out. *)
Return(p) == job' = [job EXCEPT ![p] = Out] /\ current' = NoProc /\ sig' = sig \ {p}

Init ==
  /\ filp = [p \in Proc |-> Nothing]
  /\ f_count = [f \in File |-> 0]
  /\ i_pipe = FALSE /\ i_count = 0 /\ head = 0 /\ tail = 0
  /\ page = Zeroed
  /\ current = NoProc /\ wait = [p \in Proc |-> Awake] /\ job = [p \in Proc |-> Out]
  /\ sig = {} /\ next = 0 /\ given = <<>> /\ broken = FALSE

(***************************************************************************)
(* Descriptors.                                                            *)
(***************************************************************************)
Open(fp) == fp[RD] + fp[WR]

(* An inode and a page from get_free_page, which has zeroed it. *)
GetPipeInode == /\ i_pipe' = TRUE /\ i_count' = 2
                /\ head' = 0 /\ tail' = 0 /\ page' = Zeroed

(* sys_pipe: two files, two descriptors and an inode, or nothing of it.  What it takes before it fails it gives back. *)
SysPipe(p) ==
  /\ Calls(p)
  /\ \A f \in File : f_count[f] = 0
  /\ Open(filp[p]) + 2 <= NR_OPEN
  /\ filp' = [filp EXCEPT ![p] = [f \in File |-> 1]]
  /\ f_count' = [f \in File |-> 1]
  /\ GetPipeInode
  /\ next' = 0 /\ given' = <<>> /\ broken' = FALSE
  /\ UNCHANGED <<current, wait, job, sig>>

(* dupfd: another descriptor for the file, if one is free. *)
SysDup(p, f) ==
  /\ Calls(p) /\ filp[p][f] > 0 /\ Open(filp[p]) < NR_OPEN
  /\ filp' = [filp EXCEPT ![p][f] = @ + 1]
  /\ f_count' = [f_count EXCEPT ![f] = @ + 1]
  /\ UNCHANGED <<inode, current, wait, job, sig, history>>

(* iput, once for each file in C, the files whose last descriptor is gone: both
   queues are woken; the last one gives up the page and the inode. *)
IputForgetsWriters == {"i_wait"}
IputForgetsReaders == {"i_wait2"}
IputWakes == Queue
Iput(C) ==
  /\ i_count' = i_count - Cardinality(C)
  /\ i_pipe' = (i_count' > 0)
  /\ wait' = IF C = {} THEN wait ELSE Woken(IputWakes)
  /\ UNCHANGED <<head, tail, page>>

(* The descriptors of p become fp: f_count drops by what fp names less, and a
   file nobody names any more is put. *)
Closed(p, fp) ==
  /\ filp' = [filp EXCEPT ![p] = fp]
  /\ f_count' = [f \in File |-> f_count[f] + fp[f] - filp[p][f]]
  /\ Iput({f \in File : f_count[f] > 0 /\ f_count'[f] = 0})

SysClose(p, f) ==
  /\ Calls(p) /\ filp[p][f] > 0
  /\ Closed(p, [filp[p] EXCEPT ![f] = @ - 1])
  /\ UNCHANGED <<current, job, sig, history>>

(* sys_dup2(f, a descriptor of g): g is closed first. *)
SysDup2(p, f, g) ==
  /\ Calls(p) /\ f # g /\ filp[p][f] > 0 /\ filp[p][g] > 0
  /\ Closed(p, [filp[p] EXCEPT ![g] = @ - 1, ![f] = @ + 1])
  /\ UNCHANGED <<current, job, sig, history>>

(* fork: the child has the parent's descriptors, each file is counted again. *)
ForkUncounted(p) == f_count
ForkCounts(p) == [f \in File |-> f_count[f] + filp[p][f]]
Fork(p, c) ==
  /\ Calls(p) /\ job[c] = Out /\ c # p /\ filp[c] = Nothing /\ filp[p] # Nothing
  /\ filp' = [filp EXCEPT ![c] = filp[p]]
  /\ f_count' = ForkCounts(p)
  /\ UNCHANGED <<inode, current, wait, job, sig, history>>

(* do_exit closes all. *)
Exit(p) ==
  /\ Calls(p) /\ filp[p] # Nothing
  /\ Closed(p, Nothing)
  /\ UNCHANGED <<current, job, sig, history>>

(***************************************************************************)
(* pipe_read.                                                              *)
(***************************************************************************)
(* O_NONBLOCK may be set at any time by fcntl, or be left from the last use of
   the file: sys_pipe does not touch f_flags. *)
SysRead(p, n, nonblock) ==
  /\ Calls(p) /\ filp[p][RD] > 0
  /\ job' = [job EXCEPT ![p] = [Out EXCEPT !.at = IF nonblock THEN "read" ELSE "empty",
                                           !.count = n]]
  /\ current' = p
  /\ UNCHANGED <<files, inode, wait, sig, history>>

(* The loop that waits for bytes. *)
ReadWait(p) ==
  /\ Runs(p) /\ job[p].at = "empty"
  /\ \/ /\ PIPE_SIZE > 0
        /\ job' = [job EXCEPT ![p].at = "read"] /\ current' = p
        /\ UNCHANGED <<wait, sig>>
     \/ /\ PIPE_SIZE = 0 /\ (i_count # 2 \/ p \in sig)
        /\ Return(p) /\ WakeUp("i_wait2")
     \/ /\ PIPE_SIZE = 0 /\ i_count = 2 /\ p \notin sig
        /\ wait' = [Woken({"i_wait2"}) EXCEPT ![p] = "i_wait"] /\ current' = NoProc
        /\ UNCHANGED <<job, sig>>
  /\ UNCHANGED <<files, inode, history>>

ReadChars(p) == Min({PAGE_SIZE - tail, job[p].count, PIPE_SIZE})

Bytes(from, n) == [i \in 1..n |-> page[from + i - 1]]

(* The tail moves on before the bytes are copied.  The copy gets to its end, or
   reaches user memory that is not there: then the bytes are followed no more. *)
ReadChunk(p) ==
  LET chars == ReadChars(p) IN
  /\ Runs(p) /\ job[p].at = "read" /\ job[p].count > 0 /\ PIPE_SIZE > 0
  /\ tail' = Advance(tail, chars)
  /\ \/ /\ given' = Bytes(tail, chars)
        /\ job' = [job EXCEPT ![p].count = @ - chars]
        /\ current' = p /\ UNCHANGED <<broken, wait>>
        /\ UNCHANGED <<page, next>>
     \/ /\ job' = [job EXCEPT ![p].count = @ - chars, ![p].at = "read_fault"]
        /\ SleepOn(p, "page")
        /\ broken' = TRUE /\ given' = <<>> /\ page' = Zeroed /\ next' = 0
  /\ UNCHANGED <<files, i_pipe, i_count, head, sig>>

ReadDone(p) ==
  /\ Runs(p) /\ job[p].at = "read" /\ (job[p].count = 0 \/ PIPE_SIZE = 0)
  /\ Return(p) /\ WakeUp("i_wait2")
  /\ given' = <<>>
  /\ UNCHANGED <<files, inode, next, broken>>

(***************************************************************************)
(* pipe_write.                                                             *)
(***************************************************************************)
SysWrite(p, n) ==
  /\ Calls(p) /\ filp[p][WR] > 0
  /\ job' = [job EXCEPT ![p] = [Out EXCEPT !.at = "write", !.count = n]]
  /\ current' = p
  /\ UNCHANGED <<files, inode, wait, sig, history>>

(* The loop that waits for room; a full pipe without readers is a SIGPIPE. *)
WriteWait(p) ==
  /\ Runs(p) /\ job[p].at = "write" /\ job[p].count > 0 /\ Room = 0
  /\ \/ /\ i_count # 2 \/ p \in sig
        /\ Return(p) /\ WakeUp("i_wait")
     \/ /\ i_count = 2 /\ p \notin sig
        /\ wait' = [Woken({"i_wait"}) EXCEPT ![p] = "i_wait2"] /\ current' = NoProc
        /\ UNCHANGED <<job, sig>>
  /\ UNCHANGED <<files, inode, history>>

WriteCharsFull(p) == Min({PAGE_SIZE - head, job[p].count, Room + 1})
WriteChars(p) == Min({PAGE_SIZE - head, job[p].count, Room})

(* Byte number "next" and those that follow, at the head. *)
Stored(n) == [i \in 0..PAGE_SIZE - 1 |-> IF i \in head..(head + n - 1) /\ ~broken
                                        THEN (next + i - head) % Labels ELSE page[i]]

(* The head moves on before the bytes are there. *)
WriteChunk(p) ==
  LET chars == WriteChars(p) IN
  /\ Runs(p) /\ job[p].at = "write" /\ job[p].count > 0 /\ Room > 0
  /\ head' = Advance(head, chars)
  /\ \/ /\ page' = Stored(chars) /\ next' = IF broken THEN 0 ELSE (next + chars) % Labels
        /\ job' = [job EXCEPT ![p].count = @ - chars]
        /\ current' = p /\ UNCHANGED <<broken, given, wait>>
     \/ /\ job' = [job EXCEPT ![p].count = @ - chars, ![p].at = "write_fault"]
        /\ SleepOn(p, "page")
        /\ broken' = TRUE /\ given' = <<>> /\ page' = Zeroed /\ next' = 0
  /\ UNCHANGED <<files, i_pipe, i_count, tail, sig>>

WriteDone(p) ==
  /\ Runs(p) /\ job[p].at = "write" /\ job[p].count = 0
  /\ Return(p) /\ WakeUp("i_wait")
  /\ UNCHANGED <<files, inode, history>>

(* The page fault has been handled and the copy goes on to its end. *)
PageThere(p) ==
  /\ wait[p] = "page" /\ current = NoProc
  /\ wait' = [wait EXCEPT ![p] = Awake] /\ current' = p
  /\ job' = [job EXCEPT ![p].at = IF @ = "read_fault" THEN "read" ELSE "write"]
  /\ UNCHANGED <<files, inode, sig, history>>

(***************************************************************************)
(* sys_select on descriptors of the pipe, S the sets they are in.  All     *)
(* three checks put the process on i_wait.                                 *)
(***************************************************************************)
Ready(S) == {s \in S : \/ s = "in" /\ (PIPE_SIZE > 0 \/ i_count < 2)
                       \/ s = "out" /\ Room > 0
                       \/ s = "ex" /\ i_count < 2}

SysSelect(p, S) ==
  /\ Calls(p) /\ filp[p] # Nothing
  /\ job' = [job EXCEPT ![p] = [Out EXCEPT !.at = "select", !.set = S]]
  /\ current' = p
  /\ UNCHANGED <<files, inode, wait, sig, history>>

(* add_wait links the process into the queue as sleep_on would, free_wait takes
   it out as the end of sleep_on does. *)
SelectWait(p) == SleepOn(p, "i_wait")

DoSelect(p) ==
  /\ Runs(p) /\ job[p].at = "select"
  /\ \/ /\ Ready(job[p].set) # {} \/ p \in sig
        /\ Return(p) /\ UNCHANGED wait
     \/ /\ Ready(job[p].set) = {} /\ p \notin sig
        /\ SelectWait(p) /\ UNCHANGED <<job, sig>>
  /\ UNCHANGED <<files, inode, history>>

(* schedule() finds the timeout passed: the select ends without result. *)
Timeout(p) ==
  /\ job[p].at = "select" /\ wait[p] = "i_wait" /\ current = NoProc
  /\ wait' = [wait EXCEPT ![p] = Awake] /\ Return(p)
  /\ UNCHANGED <<files, inode, history>>

(* schedule() wakes an interruptible sleeper that has a signal. *)
Signal(p) ==
  /\ wait[p] \in Queue /\ current = NoProc
  /\ sig' = sig \cup {p}
  /\ wait' = [wait EXCEPT ![p] = Awake]
  /\ UNCHANGED <<files, inode, current, job, history>>

InKernel(p) == \/ ReadWait(p) \/ ReadChunk(p) \/ ReadDone(p) \/ WriteWait(p) \/ WriteChunk(p)
               \/ WriteDone(p) \/ PageThere(p) \/ DoSelect(p)

Next == \E p \in Proc :
  \/ SysPipe(p) \/ Exit(p) \/ Signal(p) \/ Timeout(p)
  \/ \E f \in File : SysClose(p, f) \/ SysDup(p, f) \/ \E g \in File : SysDup2(p, f, g)
  \/ \E c \in Proc : Fork(p, c)
  \/ \E n \in Counts : SysWrite(p, n) \/ \E nb \in BOOLEAN : SysRead(p, n, nb)
  \/ \E S \in SelectSets : SysSelect(p, S)
  \/ ReadWait(p) \/ ReadChunk(p) \/ ReadDone(p) \/ WriteWait(p) \/ WriteChunk(p)
  \/ WriteDone(p) \/ PageThere(p) \/ DoSelect(p)

Spec == Init /\ [][Next]_vars

(* A process in the kernel that is awake again and again gets its turn. *)
FairSpec == Spec /\ \A p \in Proc : SF_vars(InKernel(p))

-----------------------------------------------------------------------------
TypeOK ==
  /\ filp \in [Proc -> [File -> 0..NR_OPEN]] /\ f_count \in [File -> Nat]
  /\ i_pipe \in BOOLEAN /\ i_count \in 0..2
  /\ head \in 0..PAGE_SIZE - 1 /\ tail \in 0..PAGE_SIZE - 1
  /\ page \in [0..PAGE_SIZE - 1 -> 0..Labels - 1] /\ current \in Proc \cup {NoProc}
  /\ wait \in [Proc -> Queue \cup {Awake, "page"}] /\ sig \subseteq Proc
  /\ next \in 0..Labels - 1 /\ broken \in BOOLEAN

(* The descriptors that name f: the process, and which of its descriptors for f. *)
Descriptors(f) == {d \in Proc \X (1..NR_OPEN) : d[2] <= filp[d[1]][f]}

(* f_count and i_count: a file is counted once for each descriptor that names it,
   in whatever process, and the pipe once for each end that is open at all, so
   that "i_count != 2" in pipe_read and pipe_write means that one end is closed. *)
CountsExact ==
  /\ TypeOK
  /\ \A f \in File : f_count[f] = Cardinality(Descriptors(f))
  /\ i_count = Cardinality({f \in File : f_count[f] > 0})
  /\ i_pipe <=> i_count > 0

Asleep(p, at) == wait[p] \in Queue /\ job[p].at = at
Settled == current = NoProc /\ \A p \in Proc : wait[p] # "page"

(* Nobody is left asleep: a reader sleeps only while the pipe is empty and has a
   writer, a writer only while it is full and has a reader, a select for input
   or for exceptions only while there is neither a byte nor a closed end. *)
SleepersAreTold ==
  Settled => \A p \in Proc :
    /\ Asleep(p, "empty") => PIPE_SIZE = 0 /\ i_count = 2
    /\ Asleep(p, "write") => Room = 0 /\ i_count = 2
    /\ Asleep(p, "select") => Ready(job[p].set \ {"out"}) = {}

-----------------------------------------------------------------------------
(* What makes these invariants inductive. *)
Job == [at : {"out", "empty", "read", "read_fault", "write", "write_fault", "select"},
        count : Nat, set : SUBSET {"in", "out", "ex"}]

DescriptorsFit == \A p \in Proc : Open(filp[p]) <= NR_OPEN

(* Where a process can be, by what it sleeps on. *)
Places ==
  /\ current # NoProc => wait[current] = Awake /\ job[current].at # "out"
  /\ \A p \in Proc :
       /\ wait[p] = "page" <=> job[p].at \in {"read_fault", "write_fault"}
       /\ wait[p] = "i_wait" => job[p].at \in {"empty", "select"}
       /\ wait[p] = "i_wait2" => job[p].at = "write"
       /\ job[p].at \in {"write", "write_fault"} => filp[p][WR] > 0

(* Somebody is in the middle of a write, or of a read, and wakes the other side
   before he lets go of the processor for good. *)
Midway(p, at) == job[p].at \in at /\ (current = p \/ wait[p] = "page")
WriteUnderWay == \E p \in Proc : Midway(p, {"write", "write_fault"})
ReadUnderWay == \E p \in Proc : Midway(p, {"read", "read_fault"})

WillBeTold(p) ==
  /\ Asleep(p, "empty") => WriteUnderWay \/ (PIPE_SIZE = 0 /\ i_count = 2)
  /\ Asleep(p, "write") => ReadUnderWay \/ (Room = 0 /\ i_count = 2)
  /\ Asleep(p, "select") => WriteUnderWay \/ Ready(job[p].set \ {"out"}) = {}

IInv == /\ CountsExact /\ job \in [Proc -> Job] /\ DescriptorsFit
        /\ Places /\ \A p \in Proc : WillBeTold(p)

-----------------------------------------------------------------------------
(* The pipe implements the byte stream. *)
Stream == INSTANCE ByteStream WITH
            Capacity <- PAGE_SIZE - 1,
            stream <- [i \in 1..PIPE_SIZE |-> page[(tail + i - 1) % PAGE_SIZE]]
IsByteStream == Stream!Spec

(* End of file: when the other end is closed, every pipe_read and every
   pipe_write returns. *)
EndIsSeen ==
  \A p \in Proc : (job[p].at \in {"empty", "read", "write"} /\ i_count < 2) ~> (job[p] = Out)
=============================================================================
