----------------------------- MODULE PageMemory -----------------------------
(***************************************************************************)
(* mm/memory.c and mm/swap.c: page faults, copy-on-write, sharing of       *)
(* executables' pages, fork's copy of the page tables, exit, get_free_page *)
(* and swapping.  A page-table entry is empty, a page frame, or a place on *)
(* the swap device.  Page tables themselves are not counted as frames.     *)
(*                                                                         *)
(* A task in the kernel is not preempted; it gives way only where it waits *)
(* for the disk (swap requests, executable's blocks).  Of a driver's list  *)
(* the swap requests are kept, in their order; a new one goes anywhere     *)
(* among them, as add_request puts it before the first buffer request and  *)
(* buffer requests are sorted in between (module BlockRequests).  There is *)
(* always a free request.  The swap space is a device, not a file.         *)
(***************************************************************************)
EXTENDS Naturals, Sequences, FiniteSets, FiniteSetsExt

CONSTANTS Proc, NoProc,   \* the task slots, each with its address space
          First,          \* the one process there is at the start
          NPages,         \* pages of an address space
          FilePage,       \* those backed by the executable
          NFrames,        \* the frames of mem_map that are not USED
          NSwap,          \* pages of swap space
          MaxWrites,      \* bound: memory writes in all
          ManyTables      \* swap_out may give up before it has seen every page

ASSUME MemoryAssumption ==
  /\ First \in Proc /\ NoProc \notin Proc /\ IsFiniteSet(Proc)
  /\ NPages \in Nat /\ NFrames \in Nat /\ NSwap \in Nat /\ MaxWrites \in Nat
  /\ FilePage \subseteq 1..NPages /\ ManyTables \in BOOLEAN

Page  == 1..NPages
Frame == 1..NFrames
Swap  == 1..NSwap

(* *table_entry: 0, "present" with its frame and flags, or swap_nr << 1. *)
Empty == [kind |-> "none", at |-> 0, rw |-> FALSE, dirty |-> FALSE]
Present(f, w, d) == [kind |-> "present", at |-> f, rw |-> w, dirty |-> d]
Swapped(n) == [kind |-> "swap", at |-> n, rw |-> FALSE, dirty |-> FALSE]
Entry == {Empty} \cup [kind : {"present"}, at : Frame, rw : BOOLEAN, dirty : BOOLEAN]
                 \cup [kind : {"swap"}, at : Swap, rw : {FALSE}, dirty : {FALSE}]

VARIABLES alive,     \* the processes there are
          pte,       \* Proc -> Page -> Entry
          mem_map,   \* Frame -> number of users
          swapfree,  \* swap_bitmap: the pages of swap space that are free
          mem, swapmem,  \* contents of the frames and of the swap space
          mine,      \* history: Proc -> Page -> what the process wrote there
          swapq,     \* the swap requests, in the order of the device's list
          job,       \* Proc -> what its task does in the kernel
          waits,     \* the tasks that wait for the disk
          current,   \* the running task; NoProc: any that does not wait
          version,   \* writes made so far
          overtaken  \* history: a swap request has been put before one for the same page

vars == <<alive, pte, mem_map, swapfree, mem, swapmem, mine, swapq, job, waits, current, version,
          overtaken>>

(* op: the function at work, on page v; gfp: how far its get_free_page is; new:
   the frame it got; out: the frame swap_out writes; nr: the swap page that
   swap_in or fork reads; child: fork's. *)
User == [op |-> "user", v |-> 0, gfp |-> "no", new |-> 0, out |-> 0, nr |-> 0, child |-> NoProc]

Init ==
  /\ alive = {First} /\ pte = [p \in Proc |-> [v \in Page |-> Empty]]
  /\ mem_map = [f \in Frame |-> 0] /\ swapfree = Swap
  /\ mem = [f \in Frame |-> 0] /\ swapmem = [n \in Swap |-> 0]
  /\ mine = [p \in Proc |-> [v \in Page |-> 0]]
  /\ swapq = <<>> /\ job = [p \in Proc |-> User] /\ waits = {} /\ current = NoProc
  /\ version = 0 /\ overtaken = FALSE

Runs(t) == t \in alive /\ t \notin waits /\ current \in {NoProc, t}
InUser(t) == Runs(t) /\ job[t] = User
Begin(t, o, v) ==
  /\ job' = [job EXCEPT ![t] = [User EXCEPT !.op = o, !.v = v, !.gfp = "scan",
                                 !.nr = IF o = "swap_in" THEN pte[t][v].at ELSE 0]]
  /\ current' = t
Return(t) == job' = [job EXCEPT ![t] = User] /\ current' = NoProc
SetEntry(p, v, e) == pte' = [pte EXCEPT ![p][v] = e]

(* free_page takes one user off; the "trying to free free page" branch leaves
   the count at 0. *)
FreeKept(f) == mem_map
FreePage(f) == [mem_map EXCEPT ![f] = IF @ = 0 THEN 0 ELSE @ - 1]

(***************************************************************************)
(* User mode.  The processor sets the dirty bit; a missing or protected    *)
(* page faults (do_page_fault).                                            *)
(***************************************************************************)
UserWrite(t, v) ==
  LET e == pte[t][v] IN
  /\ InUser(t) /\ e.kind = "present" /\ e.rw /\ version < MaxWrites
  /\ version' = version + 1
  /\ mem' = [mem EXCEPT ![e.at] = version']
  /\ mine' = [mine EXCEPT ![t][v] = version']
  /\ SetEntry(t, v, [e EXCEPT !.dirty = TRUE])
  /\ UNCHANGED <<alive, mem_map, swapfree, swapmem, swapq, job, waits, current, overtaken>>

(* do_wp_page, un_wp_page: the last user just gets the page back writable. *)
SoleUser(f) == mem_map[f] = 1

WriteFault(t, v) ==
  LET e == pte[t][v] IN
  /\ InUser(t) /\ e.kind = "present" /\ ~e.rw
  /\ \/ /\ SoleUser(e.at)
        /\ SetEntry(t, v, [e EXCEPT !.rw = TRUE])
        /\ UNCHANGED <<job, current>>
     \/ /\ ~SoleUser(e.at)
        /\ Begin(t, "un_wp_page", v)
        /\ UNCHANGED pte
  /\ UNCHANGED <<alive, mem_map, swapfree, mem, swapmem, mine, swapq, waits, version, overtaken>>

(* do_no_page: swap in, or share a clean page with another process that runs
   the same program, or get a page and read or clear it. *)
Sharable(q, v) == pte[q][v].kind = "present" /\ ~pte[q][v].dirty

(* The slots share_page looks at: those of task[], with the children fork is
   still setting up; with one user of the executable it looks at none. *)
Slots == (alive \cup {job[p].child : p \in alive}) \ {NoProc}
CleanSharers(t, v) ==
  IF Cardinality(alive) < 2 THEN {} ELSE {q \in Slots \ {t} : Sharable(q, v)}

NoPageFault(t, v) ==
  /\ InUser(t) /\ pte[t][v].kind # "present"
  /\ \/ pte[t][v].kind = "swap" /\ Begin(t, "swap_in", v)
     \/ pte[t][v].kind = "none" /\ v \notin FilePage /\ Begin(t, "get_empty_page", v)
     \/ /\ pte[t][v].kind = "none" /\ v \in FilePage /\ CleanSharers(t, v) = {}
        /\ Begin(t, "do_no_page", v)
  /\ UNCHANGED <<alive, pte, mem_map, swapfree, mem, swapmem, mine, swapq, waits, version, overtaken>>

TryToShare(t, v) ==
  /\ InUser(t) /\ pte[t][v].kind = "none" /\ v \in FilePage
  /\ \E q \in CleanSharers(t, v) :
       LET e == [pte[q][v] EXCEPT !.rw = FALSE] IN
       /\ pte' = [pte EXCEPT ![q][v] = e, ![t][v] = e]
       /\ mem_map' = [mem_map EXCEPT ![e.at] = @ + 1]
  /\ UNCHANGED <<alive, swapfree, mem, swapmem, mine, swapq, job, waits, current, version, overtaken>>

(***************************************************************************)
(* get_free_page.  The first search runs over all of mem_map, from its     *)
(* end.  After a swap_out it is repeated with the registers as the first   *)
(* one left them - a count of zero - and finds nothing (the build is -O0,  *)
(* so the zero flag is swap_out's); swap_out is called until it fails.     *)
(***************************************************************************)
Gfp(t, s) == Runs(t) /\ job[t].gfp = s
FreeFrames == {f \in Frame : mem_map[f] = 0}

Scan(t) ==
  /\ Gfp(t, "scan")
  /\ \/ /\ FreeFrames # {}
        /\ LET f == Max(FreeFrames) IN
           /\ mem_map' = [mem_map EXCEPT ![f] = 1]
           /\ mem' = [mem EXCEPT ![f] = 0]
           /\ job' = [job EXCEPT ![t] = [@ EXCEPT !.gfp = "done", !.new = f]]
     \/ /\ FreeFrames = {}
        /\ job' = [job EXCEPT ![t].gfp = "swap_out"]
        /\ UNCHANGED <<mem_map, mem>>
  /\ current' = t
  /\ UNCHANGED <<alive, pte, swapfree, swapmem, mine, swapq, waits, version, overtaken>>

(* try_to_swap_out will take these entries, of any process, also of one that
   fork is still setting up: clean ones, and dirty ones with one user. *)
Dirty(p, v) == pte[p][v].kind = "present" /\ pte[p][v].dirty /\ mem_map[pte[p][v].at] = 1
Clean(p, v) == pte[p][v].kind = "present" /\ ~pte[p][v].dirty

Candidates == {e \in Proc \X Page : \/ Clean(e[1], e[2])
                                    \/ Dirty(e[1], e[2]) /\ swapfree # {}}

SwapOutClean(t, p, v) ==
  /\ Gfp(t, "swap_out") /\ Clean(p, v)
  /\ SetEntry(p, v, Empty)
  /\ mem_map' = FreePage(pte[p][v].at)
  /\ current' = t
  /\ UNCHANGED <<alive, swapfree, mem, swapmem, mine, swapq, job, waits, version, overtaken>>

(* add_request: the new request goes behind k of the others that are listed. *)
AddRequest(r) ==
  \E k \in 0..Len(swapq) :
    /\ swapq' = SubSeq(swapq, 1, k) \o <<r>> \o SubSeq(swapq, k + 1, Len(swapq))
    /\ overtaken' = (overtaken \/ \E i \in k + 1..Len(swapq) : swapq[i].nr = r.nr)

(* A dirty page: the entry is changed first, then the write is waited for. *)
SwapOutDirty(t, p, v) ==
  /\ Gfp(t, "swap_out") /\ Dirty(p, v) /\ swapfree # {}
  /\ LET nr == Min(swapfree)
         f == pte[p][v].at
     IN  /\ swapfree' = swapfree \ {nr}
         /\ SetEntry(p, v, Swapped(nr))
         /\ AddRequest([who |-> t, cmd |-> "write", nr |-> nr, frame |-> f])
         /\ job' = [job EXCEPT ![t] = [@ EXCEPT !.gfp = "written", !.out = f]]
  /\ waits' = waits \cup {t} /\ current' = NoProc
  /\ UNCHANGED <<alive, mem_map, mem, swapmem, mine, version>>

Written(t) ==
  /\ Gfp(t, "written")
  /\ mem_map' = FreePage(job[t].out)
  /\ job' = [job EXCEPT ![t] = [@ EXCEPT !.gfp = "swap_out", !.out = 0]]
  /\ current' = t
  /\ UNCHANGED <<alive, pte, swapfree, mem, swapmem, mine, swapq, waits, version, overtaken>>

(* swap_out fails, get_free_page returns 0: out of memory.  Its counter is that
   of one round, less what it takes off twice - for a page table and for each
   of its entries - so with many page tables it runs out before the end. *)
OutOfMemory(t) ==
  /\ Gfp(t, "swap_out") /\ (Candidates = {} \/ ManyTables)
  /\ job' = [job EXCEPT ![t].gfp = "failed"]
  /\ current' = t
  /\ UNCHANGED <<alive, pte, mem_map, swapfree, mem, swapmem, mine, swapq, waits, version, overtaken>>

(* The swap device ends the request at the front of its list. *)
SwapInterrupt ==
  /\ swapq # <<>>
  /\ LET r == Head(swapq) IN
     /\ IF r.cmd = "write"
        THEN swapmem' = [swapmem EXCEPT ![r.nr] = mem[r.frame]] /\ UNCHANGED mem
        ELSE mem' = [mem EXCEPT ![r.frame] = swapmem[r.nr]] /\ UNCHANGED swapmem
     /\ waits' = waits \ {r.who}
  /\ swapq' = Tail(swapq)
  /\ UNCHANGED <<alive, pte, mem_map, swapfree, mine, job, current, version, overtaken>>

(***************************************************************************)
(* The faults, once get_free_page has returned.                            *)
(***************************************************************************)

(* un_wp_page looks at the entry again: get_free_page may have slept, and the
   page be swapped out or its other users gone. *)
CopyOnWrite(t) ==
  LET e == pte[t][job[t].v]
      v == job[t].v
      new == job[t].new
  IN
  /\ Gfp(t, "done") /\ job[t].op = "un_wp_page"
  /\ IF e.kind = "present" /\ ~SoleUser(e.at)
     THEN /\ mem' = [mem EXCEPT ![new] = mem[e.at]]
          /\ SetEntry(t, v, Present(new, TRUE, e.dirty))
          /\ mem_map' = FreePage(e.at)
     ELSE /\ mem_map' = FreePage(new)
          /\ IF e.kind = "present" THEN SetEntry(t, v, [e EXCEPT !.rw = TRUE]) ELSE UNCHANGED pte
          /\ UNCHANGED mem
  /\ Return(t)
  /\ UNCHANGED <<alive, swapfree, swapmem, mine, swapq, waits, version, overtaken>>

(* read_swap_page(nr, new), for swap_in and for copy_page_tables. *)
ReadSwap(t) ==
  /\ Gfp(t, "done") /\ job[t].op \in {"swap_in", "fork"}
  /\ AddRequest([who |-> t, cmd |-> "read", nr |-> job[t].nr, frame |-> job[t].new])
  /\ job' = [job EXCEPT ![t].gfp = "read"]
  /\ waits' = waits \cup {t} /\ current' = NoProc
  /\ UNCHANGED <<alive, pte, mem_map, swapfree, mem, swapmem, mine, version>>

SwapKept(n) == swapfree
SwapFreed(n) == swapfree \cup {n}

SwapIn(t) ==
  /\ Gfp(t, "read") /\ job[t].op = "swap_in"
  /\ swapfree' = SwapFreed(job[t].nr)
  /\ SetEntry(t, job[t].v, Present(job[t].new, TRUE, TRUE))
  /\ Return(t)
  /\ UNCHANGED <<alive, mem_map, mem, swapmem, mine, swapq, waits, version, overtaken>>

(* A cleared page, or one filled from the executable (bread_page sleeps; a
   clean file page holds 0 like a clear one). *)
PutPage(t) ==
  /\ Gfp(t, "done") /\ job[t].op \in {"get_empty_page", "do_no_page"}
  /\ SetEntry(t, job[t].v, Present(job[t].new, TRUE, FALSE))
  /\ Return(t)
  /\ UNCHANGED <<alive, mem_map, swapfree, mem, swapmem, mine, swapq, waits, version, overtaken>>

BreadPage(t) ==
  /\ Gfp(t, "done") /\ job[t].op = "do_no_page" /\ current = t
  /\ current' = NoProc
  /\ UNCHANGED <<alive, pte, mem_map, swapfree, mem, swapmem, mine, swapq, job, waits, version, overtaken>>

(***************************************************************************)
(* fork: copy_page_tables, one entry at a time.                            *)
(***************************************************************************)
Fork(t, c) ==
  /\ InUser(t) /\ c \notin alive /\ \A p \in Proc : job[p].child # c
  /\ job' = [job EXCEPT ![t] = [User EXCEPT !.op = "fork", !.v = 1, !.child = c]]
  /\ current' = t
  /\ UNCHANGED <<alive, pte, mem_map, swapfree, mem, swapmem, mine, swapq, waits, version, overtaken>>

ProtectNone(e) == e
ProtectBoth(e) == [e EXCEPT !.rw = FALSE]

CopyEntry(t) ==
  LET e == pte[t][job[t].v]
      v == job[t].v
  IN
  /\ Runs(t) /\ job[t].op = "fork" /\ job[t].gfp = "no" /\ job[t].v <= NPages
  /\ \/ /\ e.kind = "none"
        /\ job' = [job EXCEPT ![t].v = @ + 1]
        /\ UNCHANGED <<pte, mem_map>>
     \/ /\ e.kind = "present"
        /\ pte' = [pte EXCEPT ![t][v] = ProtectBoth(e), ![job[t].child][v] = ProtectBoth(e)]
        /\ mem_map' = [mem_map EXCEPT ![e.at] = @ + 1]
        /\ job' = [job EXCEPT ![t].v = @ + 1]
     \/ /\ e.kind = "swap"
        /\ job' = [job EXCEPT ![t] = [@ EXCEPT !.gfp = "scan", !.nr = e.at]]
        /\ UNCHANGED <<pte, mem_map>>
  /\ current' = t
  /\ UNCHANGED <<alive, swapfree, mem, swapmem, mine, swapq, waits, version, overtaken>>

(* A swapped page: the parent gets it back, the child the place on the disk. *)
CopySwapped(t) ==
  LET v == job[t].v IN
  /\ Gfp(t, "read") /\ job[t].op = "fork"
  /\ pte' = [pte EXCEPT ![job[t].child][v] = Swapped(job[t].nr),
                        ![t][v] = Present(job[t].new, TRUE, TRUE)]
  /\ job' = [job EXCEPT ![t] = [@ EXCEPT !.v = v + 1, !.gfp = "no", !.new = 0, !.nr = 0]]
  /\ current' = t
  /\ UNCHANGED <<alive, mem_map, swapfree, mem, swapmem, mine, swapq, waits, version, overtaken>>

Forked(t) ==
  /\ Runs(t) /\ job[t].op = "fork" /\ job[t].v > NPages
  /\ alive' = alive \cup {job[t].child}
  /\ mine' = [mine EXCEPT ![job[t].child] = mine[t]]
  /\ Return(t)
  /\ UNCHANGED <<pte, mem_map, swapfree, mem, swapmem, swapq, waits, version, overtaken>>

(***************************************************************************)
(* free_page_tables, for exit, oom() and a fork that failed.               *)
(***************************************************************************)
Users(p, f) == Cardinality({v \in Page : pte[p][v].kind = "present" /\ pte[p][v].at = f})

FreePageTables(p) ==
  /\ mem_map' = [f \in Frame |-> mem_map[f] - Users(p, f)]
  /\ swapfree' = swapfree \cup {pte[p][v].at : v \in {u \in Page : pte[p][u].kind = "swap"}}
  /\ pte' = [pte EXCEPT ![p] = [v \in Page |-> Empty]]

Exit(t) ==
  /\ \/ InUser(t) /\ alive # {t}
     \/ Gfp(t, "failed") /\ job[t].op # "fork"
  /\ alive' = alive \ {t}
  /\ FreePageTables(t)
  /\ mine' = [mine EXCEPT ![t] = [v \in Page |-> 0]]
  /\ Return(t)
  /\ UNCHANGED <<mem, swapmem, swapq, waits, version, overtaken>>

ForkFails(t) ==
  /\ Gfp(t, "failed") /\ job[t].op = "fork"
  /\ FreePageTables(job[t].child)
  /\ Return(t)
  /\ UNCHANGED <<alive, mem, swapmem, mine, swapq, waits, version, overtaken>>

Next ==
  \/ \E t \in Proc :
       \/ \E v \in Page : UserWrite(t, v) \/ WriteFault(t, v) \/ NoPageFault(t, v)
                            \/ TryToShare(t, v)
       \/ \E p \in Proc, v \in Page : SwapOutClean(t, p, v) \/ SwapOutDirty(t, p, v)
       \/ Scan(t) \/ Written(t) \/ OutOfMemory(t) \/ CopyOnWrite(t) \/ ReadSwap(t)
       \/ SwapIn(t) \/ PutPage(t) \/ BreadPage(t) \/ CopyEntry(t) \/ CopySwapped(t)
       \/ Forked(t) \/ Exit(t) \/ ForkFails(t)
       \/ \E c \in Proc : Fork(t, c)
  \/ SwapInterrupt

Spec == Init /\ [][Next]_vars

-----------------------------------------------------------------------------
Job == [op : {"user", "un_wp_page", "swap_in", "get_empty_page", "do_no_page", "fork"},
        v : 0..NPages + 1, gfp : {"no", "scan", "swap_out", "written", "done", "read", "failed"},
        new : Frame \cup {0}, out : Frame \cup {0}, nr : Swap \cup {0}, child : Proc \cup {NoProc}]
SwapRequest == [who : Proc, cmd : {"read", "write"}, nr : Swap, frame : Frame]

TypeOK ==
  /\ job \in [Proc -> Job] /\ swapq \in Seq(SwapRequest)
  /\ alive \subseteq Proc /\ pte \in [Proc -> [Page -> Entry]]
  /\ mem_map \in [Frame -> Nat] /\ swapfree \subseteq Swap
  /\ mem \in [Frame -> 0..MaxWrites] /\ swapmem \in [Swap -> 0..MaxWrites]
  /\ mine \in [Proc -> [Page -> 0..MaxWrites]]
  /\ waits \subseteq Proc /\ current \in Proc \cup {NoProc} /\ version \in 0..MaxWrites
  /\ overtaken \in BOOLEAN

Refers(f) == {e \in Proc \X Page : pte[e[1]][e[2]].kind = "present" /\ pte[e[1]][e[2]].at = f}
Keeps(f) == {t \in Proc : job[t].new = f \/ job[t].out = f}

(* mem_map counts the users of every frame: the page-table entries that point
   to it and the kernel functions that hold it across a sleep.  So no frame
   is leaked and none is freed while it is mapped. *)
MemMapCounts ==
  \A f \in Frame : mem_map[f] = Cardinality(Refers(f)) + Cardinality(Keeps(f))

(* A frame that is mapped writable has no other mapping: what fork, sharing of
   executables, copy-on-write and swapping together must guarantee. *)
WritableIsPrivate ==
  \A f \in Frame : \A e \in Refers(f) : pte[e[1]][e[2]].rw => Refers(f) = {e}

(* Frames and their mappings, with the types. *)
FramesExact == TypeOK /\ MemMapCounts /\ WritableIsPrivate

(* A page of swap space is taken as long as one entry refers to it, and by no
   more than one entry. *)
SwapUsers(n) == {e \in Proc \X Page : pte[e[1]][e[2]] = Swapped(n)}
SwapSpaceExact ==
  \A n \in Swap : Cardinality(SwapUsers(n)) = IF n \in swapfree THEN 0 ELSE 1

(* Every process finds in its memory what it, or its parent before fork, wrote
   there last, through any number of faults, swaps and forks: present pages
   hold it, swapped ones have it on the disk or in a write under way.  So it is
   until add_request puts a swap request before one for the same page of swap
   space, which it does when a buffer request has been sorted in front of that
   one: then a page may be read before it is written. *)
InFlight(n) == {i \in 1..Len(swapq) : swapq[i].cmd = "write" /\ swapq[i].nr = n}
OnDisk == [n \in Swap |-> IF InFlight(n) = {} THEN swapmem[n]
                          ELSE mem[swapq[Max(InFlight(n))].frame]]
Content(e) ==
  IF e.kind = "present" THEN mem[e.at] ELSE IF e.kind = "none" THEN 0 ELSE OnDisk[e.at]

MemoryIsKept == ~overtaken => \A p \in alive, v \in Page : Content(pte[p][v]) = mine[p][v]

(* "If no free pages left, return 0": get_free_page fails only when there is
   no free page left. *)
FailsOnlyWhenFull ==
  [][\A t \in Proc : job[t].gfp # "failed" /\ job'[t].gfp = "failed" => FreeFrames = {}]_vars

(***************************************************************************)
(* Why they hold: the inductive invariant of the proofs.                   *)
(***************************************************************************)
(* What a task in the kernel relies on while it sleeps: the entry it faulted
   on can only be taken away by swap_out, and not at all if it is not there. *)
JobFits(t) ==
  LET j == job[t] IN
  /\ t \notin alive \/ j.op = "user" => j = User
  /\ j.op \notin {"user", "fork"} => j.v \in Page /\ j.gfp # "no"
  /\ j.op = "fork" => /\ j.v >= 1 /\ (j.gfp # "no" => j.v \in Page)
                      /\ j.child \in Proc \ alive
                      /\ \A v \in Page : v >= j.v => pte[j.child][v] = Empty
  /\ j.op # "fork" => j.child = NoProc
  /\ j.new # 0 <=> j.gfp \in {"done", "read"}
  /\ j.out # 0 <=> j.gfp = "written"
  /\ j.gfp = "read" => j.op \in {"swap_in", "fork"}
  /\ j.op = "swap_in" \/ (j.op = "fork" /\ j.gfp # "no")
       => j.nr \in Swap /\ pte[t][j.v] = Swapped(j.nr)
  /\ j.op \in {"get_empty_page", "do_no_page"} => pte[t][j.v] = Empty

(* A child under way has one father, and who is neither alive nor such a child
   has no memory. *)
Children ==
  /\ \A t, u \in Proc : job[t].child = job[u].child /\ job[t].child # NoProc => t = u
  /\ \A p \in Proc \ alive : (\A t \in Proc : job[t].child # p)
                                => \A v \in Page : pte[p][v] = Empty

(* A frame that a function holds is in nobody's tables and in no other hands. *)
KeptAlone ==
  \A t \in Proc : \A f \in {job[t].new, job[t].out} \ {0} : Refers(f) = {} /\ Keeps(f) = {t}

(* A page of swap space that is not free has one entry. *)
SwapUsed ==
  \A n \in Swap : IF n \in swapfree THEN SwapUsers(n) = {} ELSE \E e \in Proc \X Page : SwapUsers(n) = {e}

(* Every task that waits has one request, and the request is about what the
   task holds; a read has no write of the same page behind it, unless it has
   overtaken one. *)
Queued ==
  /\ \A t \in waits : \E i \in 1..Len(swapq) : swapq[i].who = t
  /\ \A i \in 1..Len(swapq) :
       LET r == swapq[i]
           j == job[r.who]
       IN  /\ r.who \in waits
           /\ r.cmd = "write" => j.gfp = "written" /\ j.out = r.frame
           /\ r.cmd = "read" => /\ j.gfp = "read" /\ j.new = r.frame /\ j.nr = r.nr
                                /\ ~overtaken => \A k \in i + 1..Len(swapq) :
                                     swapq[k].cmd = "write" => swapq[k].nr # r.nr
  /\ \A i, k \in 1..Len(swapq) : swapq[i].who = swapq[k].who => i = k

(* The contents on the way: of the child's table, of a clean page, which nobody
   has written, of a new page, and of one that has been read. *)
ForkCopies ==
  \A t \in Proc : ~overtaken /\ job[t].op = "fork" =>
    \A v \in Page : v < job[t].v => Content(pte[job[t].child][v]) = mine[t][v]
CleanIsClear ==
  \A p \in Proc, v \in Page : pte[p][v].kind = "present" /\ ~pte[p][v].dirty => mem[pte[p][v].at] = 0
NewIsRight ==
  \A t \in Proc : /\ job[t].gfp = "done" => mem[job[t].new] = 0
                  /\ ~overtaken /\ job[t].gfp = "read" /\ t \notin waits
                       => mem[job[t].new] = OnDisk[job[t].nr]

IInv == /\ TypeOK /\ MemMapCounts /\ WritableIsPrivate /\ SwapUsed /\ MemoryIsKept
        /\ (\A t \in Proc : JobFits(t)) /\ Children /\ KeptAlone /\ Queued
        /\ ForkCopies /\ CleanIsClear /\ NewIsRight
=============================================================================
