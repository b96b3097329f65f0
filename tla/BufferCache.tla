----------------------------- MODULE BufferCache -----------------------------
(***************************************************************************)
(* fs/buffer.c: the cache of disk blocks.  bread, getblk, get_hash_table,  *)
(* brelse, sync_buffers and sync_dev run on behalf of several tasks, and   *)
(* each of them may go to sleep in the middle and find the cache changed.  *)
(* One device; its requests are the ones of module BlockRequests, of which *)
(* only what the cache sees is kept: a buffer is locked while a request    *)
(* for it is under way, and there is a limited number of requests.         *)
(*                                                                         *)
(* An action is what a task does up to the next point where an interrupt   *)
(* matters; "current" keeps other tasks out until it sleeps or leaves the  *)
(* kernel.  Dirty inodes are not modelled: sync_inodes finds none.         *)
(***************************************************************************)
EXTENDS Naturals, Sequences, FiniteSets

CONSTANTS Task, NoTask,
          Buf, NoBuf,       \* the buffer_heads
          Block, NoBlock,   \* the blocks of the device; NoBlock: b_dev = 0
          AheadBlock,       \* the second blocks breada is called with, or NoBlock
          NR_REQUEST,       \* requests the device's list can hold
          MaxOps,           \* bound: calls of bread and sys_sync in all
          MaxWrites         \* bound: changes made to buffers in all

ASSUME CacheAssumption ==
  /\ NoTask \notin Task /\ NoBuf \notin Buf /\ NoBlock \notin Block
  /\ IsFiniteSet(Task) /\ IsFiniteSet(Buf) /\ Buf # {} /\ NR_REQUEST \in Nat \ {0}
  /\ AheadBlock \subseteq Block \cup {NoBlock}
  /\ MaxOps \in Nat /\ MaxWrites \in Nat

VARIABLES block,       \* Buf -> b_blocknr
          b_count, b_lock, b_dirt, b_uptodate,
          free_list,   \* the free list, from its head: all buffers
          data,        \* Buf -> b_data, a version number
          disk,        \* Block -> its contents on the device
          latest,      \* history: Block -> what was last written to it
          bad,         \* history: blocks with a failed write
          io,          \* Buf -> the request under way for it
          current,     \* the running task; NoTask: any that is awake
          wait,        \* Task -> what it sleeps on
          job,         \* Task -> where it is, and its local variables
          held,        \* Task -> the buffers bread has given it
          ops, version \* calls and changes made so far

bvars == <<block, b_count, b_lock, b_dirt, b_uptodate, free_list, data>>
vars == <<bvars, disk, latest, bad, io, current, wait, job, held, ops, version>>

(* Where a task is: blk and bh are getblk's; ptr, left and pass are those of
   sync_buffers' walk; ahead is breada's second block, first the buffer of its
   first one while it deals with the second. *)
Idle == [at |-> "out", blk |-> NoBlock, bh |-> NoBuf, ptr |-> NoBuf, left |-> 0, pass |-> 0,
         ahead |-> NoBlock, first |-> NoBuf]
Awake == "awake"
NoIO == [cmd |-> "none", from |-> 0]
NR_BUFFERS == Cardinality(Buf)

Runs(t) == wait[t] = Awake /\ current \in {NoTask, t}
Goto(t, l) == job' = [job EXCEPT ![t].at = l] /\ current' = t /\ UNCHANGED wait
Return(t) == job' = [job EXCEPT ![t] = Idle] /\ current' = NoTask
SleepOn(t, q) == wait' = [wait EXCEPT ![t] = q] /\ current' = NoTask
WakeUp(q) == wait' = [t \in Task |-> IF wait[t] = q THEN Awake ELSE wait[t]]

Init ==
  /\ block = [b \in Buf |-> NoBlock] /\ b_count = [b \in Buf |-> 0]
  /\ b_lock = [b \in Buf |-> FALSE] /\ b_dirt = [b \in Buf |-> FALSE]
  /\ b_uptodate = [b \in Buf |-> FALSE] /\ data = [b \in Buf |-> 0]
  /\ free_list \in [1..NR_BUFFERS -> Buf]
  /\ \A i, j \in 1..NR_BUFFERS : i # j => free_list[i] # free_list[j]
  /\ disk = [k \in Block |-> 0] /\ latest = disk /\ bad = {}
  /\ io = [b \in Buf |-> NoIO] /\ current = NoTask
  /\ wait = [t \in Task |-> Awake] /\ job = [t \in Task |-> Idle]
  /\ held = [t \in Task |-> {}] /\ ops = 0 /\ version = 0

(***************************************************************************)
(* The hash table and the free list.                                       *)
(***************************************************************************)
FindBuffer(k) == {b \in Buf : block[b] = k}

PlaceOf(b) == CHOOSE i \in 1..NR_BUFFERS : free_list[i] = b

(* remove_from_queues and insert_into_queues: out of the list, in at its end. *)
MoveToEnd(b) ==
  [i \in 1..NR_BUFFERS |-> IF i < PlaceOf(b) THEN free_list[i]
                           ELSE IF i < NR_BUFFERS THEN free_list[i + 1] ELSE b]

NextFree(b) == free_list[(PlaceOf(b) % NR_BUFFERS) + 1]

(***************************************************************************)
(* Requests, as make_request and end_request handle them.                  *)
(***************************************************************************)
Under == {b \in Buf : io[b] # NoIO}
RequestFree == Cardinality(Under) < NR_REQUEST

(* The buffer, locked, goes into the device's list. *)
Submit(b, cmd) ==
  /\ b_lock' = [b_lock EXCEPT ![b] = TRUE]
  /\ b_dirt' = [b_dirt EXCEPT ![b] = FALSE]
  /\ io' = [io EXCEPT ![b] = [cmd |-> cmd, from |-> data[b]]]

EndWakes(b) == {b, "wait_for_request"}

(* The interrupt.  A write puts down what the buffer holds at some moment
   between the request and its end. *)
EndRequest(b, ok) ==
  /\ b \in Under
  /\ io' = [io EXCEPT ![b] = NoIO]
  /\ b_lock' = [b_lock EXCEPT ![b] = FALSE]
  /\ b_uptodate' = [b_uptodate EXCEPT ![b] = ok]
  /\ wait' = [t \in Task |-> IF wait[t] \in EndWakes(b) THEN Awake ELSE wait[t]]
  /\ \/ /\ io[b].cmd = "READ"
        /\ data' = IF ok THEN [data EXCEPT ![b] = disk[block[b]]] ELSE data
        /\ UNCHANGED <<disk, bad>>
     \/ /\ io[b].cmd = "WRITE" /\ ok
        /\ \E v \in {io[b].from, data[b]} : disk' = [disk EXCEPT ![block[b]] = v]
        /\ UNCHANGED <<data, bad>>
     \/ /\ io[b].cmd = "WRITE" /\ ~ok
        /\ bad' = bad \cup {block[b]}
        /\ UNCHANGED <<data, disk>>
  /\ UNCHANGED <<block, b_count, b_dirt, free_list, latest, current, job, held, ops, version>>

(***************************************************************************)
(* bread and getblk.                                                       *)
(***************************************************************************)
(* bread(dev, k), or breada(dev, k, a, -1).  Bound: one breada at a time, since
   as many of them as there are buffers would wait for one another. *)
Bread(t, k, a) ==
  /\ Runs(t) /\ job[t] = Idle /\ ops < MaxOps /\ held[t] = {}
  /\ a # NoBlock => \A u \in Task : job[u].ahead = NoBlock /\ job[u].first = NoBuf
  /\ job' = [job EXCEPT ![t] = [Idle EXCEPT !.at = "getblk", !.blk = k, !.ahead = a]]
  /\ current' = t /\ ops' = ops + 1
  /\ UNCHANGED <<bvars, disk, latest, bad, io, wait, held, version>>

(* get_hash_table has found the block: take a reference, then wait for it. *)
Found(t) ==
  /\ Runs(t) /\ job[t].at = "getblk"
  /\ \E b \in FindBuffer(job[t].blk) :
       /\ b_count' = [b_count EXCEPT ![b] = @ + 1]
       /\ job' = [job EXCEPT ![t].at = "found", ![t].bh = b]
  /\ current' = t
  /\ UNCHANGED <<block, b_lock, b_dirt, b_uptodate, free_list, data, disk, latest, bad, io,
                 wait, held, ops, version>>

(* wait_on_buffer in get_hash_table, and the test that it is still the block. *)
FoundWait(t) ==
  LET b == job[t].bh IN
  /\ Runs(t) /\ job[t].at = "found"
  /\ \/ /\ b_lock[b]
        /\ SleepOn(t, b)
        /\ UNCHANGED <<job, b_count, free_list>>
     \/ /\ ~b_lock[b]
        /\ IF block[b] = job[t].blk
           THEN Goto(t, "got") /\ free_list' = MoveToEnd(b) /\ UNCHANGED b_count
           ELSE /\ Goto(t, "getblk") /\ UNCHANGED free_list
                /\ b_count' = [b_count EXCEPT ![b] = @ - 1]
  /\ UNCHANGED <<block, b_lock, b_dirt, b_uptodate, data, disk, latest, bad, io, held, ops, version>>

(* The search of the free list, from the buffer after its head.  It stops at
   the first unused buffer that is clean and unlocked; a write-ahead is tried
   for the dirty unused ones before that.  With no such buffer it settles for
   another unused one: for which, BADNESS decides; here it is left open. *)
Visited(i) == free_list[(i % NR_BUFFERS) + 1]
Good(b) == b_count[b] = 0 /\ ~b_dirt[b] /\ ~b_lock[b]

WrittenAhead(n) ==
  LET cand == {i \in 1..n : LET b == Visited(i) IN b_count[b] = 0 /\ b_dirt[b] /\ ~b_lock[b]}
      room == NR_REQUEST - Cardinality(Under)
  IN  {Visited(i) : i \in {j \in cand : Cardinality({m \in cand : m <= j}) <= room}}

StartWrites(W) ==
  /\ b_lock' = [b \in Buf |-> b_lock[b] \/ b \in W]
  /\ b_dirt' = [b \in Buf |-> b_dirt[b] /\ b \notin W]
  /\ io' = [b \in Buf |-> IF b \in W THEN [cmd |-> "WRITE", from |-> data[b]] ELSE io[b]]

Search(t) ==
  LET good == {i \in 1..NR_BUFFERS : Good(Visited(i))}
      first == CHOOSE i \in good : \A j \in good : i <= j
      unused == {b \in Buf : b_count[b] = 0}
  IN
  /\ Runs(t) /\ job[t].at = "getblk" /\ FindBuffer(job[t].blk) = {}
  /\ \/ /\ good # {}
        /\ StartWrites(WrittenAhead(first - 1))
        /\ job' = [job EXCEPT ![t].at = "check", ![t].bh = Visited(first)]
        /\ current' = t /\ UNCHANGED wait
     \/ /\ good = {} /\ unused # {}
        /\ StartWrites(WrittenAhead(NR_BUFFERS))
        /\ \E b \in unused : job' = [job EXCEPT ![t].at = "check", ![t].bh = b]
        /\ current' = t /\ UNCHANGED wait
     \/ /\ unused = {}
        /\ SleepOn(t, "buffer_wait")
        /\ UNCHANGED <<b_lock, b_dirt, io, job>>
  /\ UNCHANGED <<block, b_count, b_uptodate, free_list, data, disk, latest, bad, held, ops, version>>

(* What getblk tests again after each sleep before it takes the buffer. *)
InUseForgotten(b) == FALSE
InUse(b) == b_count[b] > 0
AppearedForgotten(k) == FALSE
Appeared(k) == FindBuffer(k) # {}
MustSyncForgotten(b) == FALSE
MustSync(b) == b_dirt[b]

Check(t) ==
  LET b == job[t].bh
      k == job[t].blk
  IN
  /\ Runs(t) /\ job[t].at = "check"
  /\ \/ /\ b_lock[b]
        /\ SleepOn(t, b)
        /\ UNCHANGED <<bvars, job>>
     \/ /\ ~b_lock[b] /\ ~InUse(b) /\ MustSync(b)
        /\ job' = [job EXCEPT ![t] = [@ EXCEPT !.at = "sync", !.ptr = free_list[1],
                                               !.left = NR_BUFFERS, !.pass = 2]]
        /\ current' = t
        /\ UNCHANGED <<bvars, wait>>
     \/ /\ ~b_lock[b] /\ (InUse(b) \/ (~MustSync(b) /\ Appeared(k)))
        /\ Goto(t, "getblk")
        /\ UNCHANGED bvars
     \/ /\ ~b_lock[b] /\ ~InUse(b) /\ ~MustSync(b) /\ ~Appeared(k)
        /\ b_count' = [b_count EXCEPT ![b] = 1]
        /\ b_dirt' = [b_dirt EXCEPT ![b] = FALSE]
        /\ b_uptodate' = [b_uptodate EXCEPT ![b] = FALSE]
        /\ block' = [block EXCEPT ![b] = k]
        /\ free_list' = MoveToEnd(b)
        /\ Goto(t, "got")
        /\ UNCHANGED <<b_lock, data>>
  /\ UNCHANGED <<disk, latest, bad, io, held, ops, version>>

(* bread after getblk: nothing to do, or ll_rw_block(READ, bh), where
   lock_buffer may sleep and so may the wait for a request. *)
Got(t) ==
  LET b == job[t].bh IN
  /\ Runs(t) /\ job[t].at = "got" /\ job[t].first = NoBuf
  /\ \/ /\ b_uptodate[b] /\ job[t].ahead # NoBlock
        /\ Goto(t, "read") /\ UNCHANGED held
     \/ /\ b_uptodate[b] /\ job[t].ahead = NoBlock
        /\ Return(t) /\ held' = [held EXCEPT ![t] = @ \cup {b}]
        /\ UNCHANGED wait
     \/ /\ ~b_uptodate[b]
        /\ Goto(t, "lock") /\ UNCHANGED held
  /\ UNCHANGED <<bvars, disk, latest, bad, io, ops, version>>

(* make_request(READ or WRITE): lock, look whether it is still needed, find a
   request; "after" is where the task goes on. *)
MakeRequest(t, b, cmd, after, retry) ==
  LET needed == IF cmd = "READ" THEN ~b_uptodate[b] ELSE b_dirt[b]
      owned == job[t].at = retry
  IN  IF b_lock[b] /\ ~owned
      THEN SleepOn(t, b) /\ UNCHANGED <<job, b_lock, b_dirt, io>>
      ELSE IF ~owned /\ ~needed
      THEN Goto(t, after) /\ UNCHANGED <<b_lock, b_dirt, io>>
      ELSE \/ RequestFree /\ Submit(b, cmd) /\ Goto(t, after)
           \/ /\ ~RequestFree
              /\ b_lock' = [b_lock EXCEPT ![b] = TRUE]
              /\ job' = [job EXCEPT ![t].at = retry]
              /\ SleepOn(t, "wait_for_request")
              /\ UNCHANGED <<b_dirt, io>>

ReadBlock(t) ==
  /\ Runs(t) /\ job[t].at \in {"lock", "read_request"}
  /\ MakeRequest(t, job[t].bh, "READ", "read", "read_request")
  /\ UNCHANGED <<block, b_count, b_uptodate, free_list, data, disk, latest, bad, held, ops, version>>

(* breada goes on to its second block while the first is being read ... *)
SecondBlock(t) ==
  /\ Runs(t) /\ job[t].at = "read" /\ job[t].ahead # NoBlock
  /\ job' = [job EXCEPT ![t] = [@ EXCEPT !.at = "getblk", !.blk = job[t].ahead,
                                         !.first = job[t].bh, !.ahead = NoBlock]]
  /\ current' = t
  /\ UNCHANGED <<bvars, disk, latest, bad, io, wait, held, ops, version>>

(* ... and calls ll_rw_block(READA, bh) if it is not up to date: a read of the
   first block, which is forgotten if that one is still locked or valid. *)
ReadAhead(t) ==
  LET tmp == job[t].bh
      b == job[t].first
  IN
  /\ Runs(t) /\ job[t].at = "got" /\ b # NoBuf
  /\ IF ~b_uptodate[tmp] /\ ~b_lock[b] /\ ~b_uptodate[b] /\ RequestFree
     THEN Submit(b, "READ") ELSE UNCHANGED <<b_lock, b_dirt, io>>
  /\ b_count' = [b_count EXCEPT ![tmp] = @ - 1]
  /\ job' = [job EXCEPT ![t] = [@ EXCEPT !.at = "read", !.bh = b, !.first = NoBuf]]
  /\ current' = t
  /\ UNCHANGED <<block, b_uptodate, free_list, data, disk, latest, bad, wait, held, ops, version>>

(* wait_on_buffer, and bread's end: a block that could not be read is
   released again (brelse) and bread returns NULL. *)
ReadDone(t) ==
  LET b == job[t].bh IN
  /\ Runs(t) /\ job[t].at = "read" /\ job[t].ahead = NoBlock
  /\ \/ /\ b_lock[b]
        /\ SleepOn(t, b)
        /\ UNCHANGED <<job, held, b_count>>
     \/ /\ ~b_lock[b] /\ b_uptodate[b]
        /\ Return(t) /\ held' = [held EXCEPT ![t] = @ \cup {b}]
        /\ UNCHANGED <<b_count, wait>>
     \/ /\ ~b_lock[b] /\ ~b_uptodate[b]
        /\ Return(t) /\ b_count' = [b_count EXCEPT ![b] = @ - 1]
        /\ WakeUp("buffer_wait")
        /\ UNCHANGED held
  /\ UNCHANGED <<block, b_lock, b_dirt, b_uptodate, free_list, data, disk, latest, bad, io, ops, version>>

(***************************************************************************)
(* What a task does with a buffer: change it, and give it back.            *)
(***************************************************************************)
Modify(t, b) ==
  /\ Runs(t) /\ job[t] = Idle /\ b \in held[t] /\ version < MaxWrites
  /\ version' = version + 1
  /\ data' = [data EXCEPT ![b] = version']
  /\ latest' = [latest EXCEPT ![block[b]] = version']
  /\ b_dirt' = [b_dirt EXCEPT ![b] = TRUE]
  /\ UNCHANGED <<block, b_count, b_lock, b_uptodate, free_list, disk, bad, io, current, wait,
                 job, held, ops>>

Brelse(t, b) ==
  /\ Runs(t) /\ job[t] = Idle /\ b \in held[t]
  /\ \/ /\ b_lock[b]
        /\ SleepOn(t, b)
        /\ UNCHANGED <<b_count, held>>
     \/ /\ ~b_lock[b]
        /\ b_count' = [b_count EXCEPT ![b] = @ - 1]
        /\ held' = [held EXCEPT ![t] = @ \ {b}]
        /\ WakeUp("buffer_wait")
        /\ UNCHANGED current
  /\ UNCHANGED <<block, b_lock, b_dirt, b_uptodate, free_list, data, disk, latest, bad, io, job,
                 ops, version>>

(***************************************************************************)
(* sync_buffers walks the free list, NR_BUFFERS steps from its head, while *)
(* the list changes under it whenever it sleeps.  sync_dev walks twice.    *)
(***************************************************************************)
Sync(t) ==
  /\ Runs(t) /\ job[t] = Idle /\ ops < MaxOps
  /\ job' = [job EXCEPT ![t] = [Idle EXCEPT !.at = "sync", !.ptr = free_list[1],
                                            !.left = NR_BUFFERS, !.pass = 1]]
  /\ current' = t /\ ops' = ops + 1
  /\ UNCHANGED <<bvars, disk, latest, bad, io, wait, held, version>>

(* wait_on_buffer(bh), and ll_rw_block(WRITE, bh) if it is dirty. *)
SyncOne(t) ==
  /\ Runs(t) /\ job[t].at \in {"sync", "sync_request"} /\ job[t].left > 0
  /\ MakeRequest(t, job[t].ptr, "WRITE", "sync_next", "sync_request")
  /\ UNCHANGED <<block, b_count, b_uptodate, free_list, data, disk, latest, bad, held, ops, version>>

SyncNext(t) ==
  /\ Runs(t) /\ job[t].at = "sync_next"
  /\ job' = [job EXCEPT ![t] = [@ EXCEPT !.at = "sync", !.ptr = NextFree(job[t].ptr),
                                         !.left = job[t].left - 1]]
  /\ current' = t
  /\ UNCHANGED <<bvars, disk, latest, bad, io, wait, held, ops, version>>

(* The end of a walk: the second one begins, or the caller goes on. *)
SyncDone(t) ==
  /\ Runs(t) /\ job[t].at = "sync" /\ job[t].left = 0
  /\ \/ /\ job[t].pass = 2
        /\ job' = [job EXCEPT ![t] = [@ EXCEPT !.ptr = free_list[1], !.left = NR_BUFFERS,
                                               !.pass = 1]]
        /\ current' = t
     \/ /\ job[t].pass = 1 /\ job[t].bh = NoBuf
        /\ Return(t)
     \/ /\ job[t].pass = 1 /\ job[t].bh # NoBuf
        /\ job' = [job EXCEPT ![t] = [@ EXCEPT !.at = "check", !.ptr = NoBuf, !.pass = 0]]
        /\ current' = t
  /\ UNCHANGED <<bvars, disk, latest, bad, io, wait, held, ops, version>>

InKernel(t) == Found(t) \/ FoundWait(t) \/ Search(t) \/ Check(t) \/ Got(t) \/ ReadBlock(t)
                 \/ SecondBlock(t) \/ ReadAhead(t) \/ ReadDone(t) \/ SyncOne(t) \/ SyncNext(t) \/ SyncDone(t)

(* The bound on calls is reached and everything has come to rest. *)
AtRest == /\ ops = MaxOps /\ Under = {}
          /\ \A t \in Task : job[t] = Idle /\ held[t] = {}
          /\ UNCHANGED vars

Next == \/ \E t \in Task : \/ \E k \in Block : \E a \in AheadBlock \ {k} : Bread(t, k, a)
                           \/ Found(t) \/ FoundWait(t) \/ Search(t) \/ Check(t) \/ Got(t)
                           \/ ReadBlock(t) \/ SecondBlock(t) \/ ReadAhead(t) \/ ReadDone(t)
                           \/ \E b \in Buf : Modify(t, b) \/ Brelse(t, b)
                           \/ Sync(t) \/ SyncOne(t) \/ SyncNext(t) \/ SyncDone(t)
        \/ \E b \in Buf, ok \in BOOLEAN : EndRequest(b, ok)
        \/ AtRest

Spec == Init /\ [][Next]_vars

-----------------------------------------------------------------------------
Places == {"out", "getblk", "found", "check", "got", "lock", "read_request", "read",
           "sync", "sync_request", "sync_next"}
Job == [at : Places, blk : Block \cup {NoBlock}, bh : Buf \cup {NoBuf}, ptr : Buf \cup {NoBuf},
        left : 0..NR_BUFFERS, pass : 0..2, ahead : Block \cup {NoBlock},
        first : Buf \cup {NoBuf}]

TypeOK ==
  /\ block \in [Buf -> Block \cup {NoBlock}] /\ b_count \in [Buf -> Nat]
  /\ b_lock \in [Buf -> BOOLEAN] /\ b_dirt \in [Buf -> BOOLEAN]
  /\ b_uptodate \in [Buf -> BOOLEAN] /\ data \in [Buf -> 0..MaxWrites]
  /\ free_list \in [1..NR_BUFFERS -> Buf]
  /\ disk \in [Block -> 0..MaxWrites] /\ latest \in [Block -> 0..MaxWrites]
  /\ bad \subseteq Block
  /\ io \in [Buf -> {NoIO} \cup [cmd : {"READ", "WRITE"}, from : 0..MaxWrites]]
  /\ current \in Task \cup {NoTask} /\ job \in [Task -> Job]
  /\ wait \in [Task -> Buf \cup {Awake, "buffer_wait", "wait_for_request"}]
  /\ held \in [Task -> SUBSET Buf] /\ ops \in 0..MaxOps /\ version \in 0..MaxWrites

(* "this buffer is the only one of it's kind": no block is in the cache
   twice, although getblk sleeps between its search for the block and its
   claim of a buffer. *)
OneBufferPerBlock ==
  \A b, c \in Buf : block[b] = block[c] /\ block[b] # NoBlock => b = c

(* b_count counts the references: the buffers tasks hold, and those getblk or
   bread is still working on.  brelse never frees a free buffer. *)
Refers == {"found", "got", "lock", "read_request", "read"}
RefersTo(t, b) == b \in held[t] \/ job[t].first = b \/ (job[t].bh = b /\ job[t].at \in Refers)
References(b) == {t \in Task : RefersTo(t, b)}
CountIsReferences == \A b \in Buf : b_count[b] = Cardinality(References(b))

(* The free list stays a list of all the buffers, each once. *)
FreeListComplete == {free_list[i] : i \in 1..Len(free_list)} = Buf /\ Len(free_list) = NR_BUFFERS

(* Lists and counts, with the types. *)
BuffersExact == TypeOK /\ FreeListComplete /\ CountIsReferences

(* A single copy: what the cache or, where it has no valid copy, the device
   says of a block is what was last written to it (unless writing it failed). *)
NothingLost ==
  \A k \in Block \ bad :
     IF \E b \in Buf : block[b] = k /\ b_uptodate[b]
     THEN \A b \in Buf : block[b] = k /\ b_uptodate[b] => data[b] = latest[k]
     ELSE disk[k] = latest[k]

(***************************************************************************)
(* Why they hold: the inductive invariant of the proofs.                   *)
(***************************************************************************)
(* What a task knows of the buffers it works on: the ones it has a reference
   to keep their block, and breada's two blocks are different. *)
JobFits(t) ==
  LET j == job[t] IN
  /\ j.at = "out" => j = Idle
  /\ j.at \notin {"out", "sync", "sync_request", "sync_next"} \/ j.bh # NoBuf
       => j.blk \in Block /\ held[t] = {}
  /\ j.at \in Refers \cup {"check"} => j.bh \in Buf
  /\ j.at \in Refers => block[j.bh] \in Block
  /\ j.at \in Refers /\ (j.at = "read" => j.ahead # NoBlock) => block[j.bh] = j.blk
  /\ j.at \in {"sync", "sync_request", "sync_next"} => j.ptr \in Buf
  /\ j.at \in {"sync_request", "sync_next"} => j.left > 0
  /\ j.at \in {"lock", "read_request", "read"} => j.first = NoBuf
  /\ j.ahead # NoBlock => j.first = NoBuf /\ j.blk # j.ahead
  /\ j.first # NoBuf => /\ j.bh # NoBuf /\ j.blk \in Block /\ held[t] = {}
                        /\ block[j.first] \in Block /\ block[j.first] # j.blk

(* t has locked b, and sleeps because there is no free request. *)
Locker(t, b) == \/ job[t].at = "read_request" /\ job[t].bh = b
                \/ job[t].at = "sync_request" /\ job[t].ptr = b

(* A locked buffer has one owner, the device or a task that waits for a
   request, and stays as its owner has found it. *)
Locks ==
  \A b \in Buf :
    /\ b_lock[b] <=> io[b] # NoIO \/ \E t \in Task : Locker(t, b)
    /\ \A t, u \in Task : Locker(t, b) /\ Locker(u, b) => t = u
    /\ \A t \in Task : Locker(t, b) => /\ io[b] = NoIO
                                       /\ job[t].at = "read_request" => ~b_uptodate[b]
                                       /\ job[t].at = "sync_request" => b_dirt[b]
    /\ io[b] # NoIO \/ b_dirt[b] => block[b] \in Block
    /\ io[b].cmd = "READ" => ~b_uptodate[b]

(* Only a buffer that is valid, or whose block is lost, is in a task's hands. *)
HeldAreValid ==
  \A t \in Task : \A b \in held[t] : block[b] \in Block /\ (b_uptodate[b] \/ block[b] \in bad)

(* A valid buffer has the last change, and unless it is dirty the device has
   it too or is about to get it; a buffer that is not valid has nothing. *)
CopyRight(b) ==
  block[b] \in Block \ bad =>
    /\ b_uptodate[b] => /\ data[b] = latest[block[b]]
                        /\ b_dirt[b] \/ IF io[b].cmd = "WRITE" THEN io[b].from = data[b]
                                        ELSE disk[block[b]] = latest[block[b]]
    /\ ~b_uptodate[b] => /\ ~b_dirt[b] /\ io[b].cmd # "WRITE"
                         /\ disk[block[b]] = latest[block[b]]

(* A block that is not in the cache is right on the device. *)
AbsentRight == \A k \in Block \ bad : FindBuffer(k) = {} => disk[k] = latest[k]

IInv == /\ TypeOK /\ OneBufferPerBlock /\ FreeListComplete /\ CountIsReferences
        /\ (\A t \in Task : JobFits(t)) /\ Locks /\ HeldAreValid
        /\ (\A b \in Buf : CopyRight(b)) /\ AbsentRight

=============================================================================
