------------------------- MODULE BufferCacheProofs -------------------------
(***************************************************************************)
(* Proofs about BufferCache, for any number of tasks, buffers, blocks,     *)
(* requests, calls and changes.                                            *)
(***************************************************************************)
EXTENDS BufferCache, FiniteSetTheorems, TLAPS

LEMMA Types == IInv => TypeOK
BY DEF IInv

LEMMA Fits == ASSUME IInv, NEW t \in Task PROVE JobFits(t)
BY DEF IInv

LEMMA NoIsNone == NoBuf \notin Buf /\ NoBlock \notin Block
BY CacheAssumption

LEMMA SomeBuffers == NR_BUFFERS \in Nat \ {0}
<1>1. NR_BUFFERS \in Nat
  BY CacheAssumption, FS_CardinalityType DEF NR_BUFFERS
<1>2. NR_BUFFERS # 0
  BY CacheAssumption, FS_EmptySet DEF NR_BUFFERS
<1>3. QED
  BY <1>1, <1>2

LEMMA Mod == ASSUME NEW n \in Nat \ {0}, NEW i \in 1..n PROVE (i % n) + 1 \in 1..n
<1>1. CASE i = n
  <2>1. i % n = 0
    BY <1>1, SMT
  <2>2. QED
    BY <2>1
<1>2. CASE i < n
  <2>1. i % n = i
    BY <1>2, SMT
  <2>2. QED
    BY <1>2, <2>1
<1>3. QED
  BY <1>1, <1>2

(***************************************************************************)
(* The free list.                                                          *)
(***************************************************************************)
ListHasAll == \A b \in Buf : \E i \in 1..NR_BUFFERS : free_list[i] = b

LEMMA FreeList == TypeOK => (FreeListComplete <=> ListHasAll)
<1> SUFFICES ASSUME TypeOK PROVE FreeListComplete <=> ListHasAll
  OBVIOUS
<1>1. Len(free_list) = NR_BUFFERS
  BY SomeBuffers DEF TypeOK
<1>2. \A i \in 1..NR_BUFFERS : free_list[i] \in Buf
  BY DEF TypeOK
<1>3. QED
  BY <1>1, <1>2 DEF FreeListComplete, ListHasAll

LEMMA PlaceIsThere ==
  ASSUME IInv, NEW b \in Buf
  PROVE  PlaceOf(b) \in 1..NR_BUFFERS /\ free_list[PlaceOf(b)] = b
<1>1. \E i \in 1..NR_BUFFERS : free_list[i] = b
  BY FreeList DEF IInv, ListHasAll
<1>2. QED
  BY <1>1 DEF PlaceOf

LEMMA NextIsThere ==
  ASSUME IInv, NEW b \in Buf
  PROVE  NextFree(b) \in Buf
<1>1. (PlaceOf(b) % NR_BUFFERS) + 1 \in 1..NR_BUFFERS
  BY PlaceIsThere, SomeBuffers, Mod
<1>2. QED
  BY <1>1, Types DEF NextFree, TypeOK

LEMMA HeadIsThere == ASSUME IInv PROVE free_list[1] \in Buf
BY SomeBuffers, Types DEF TypeOK

LEMMA VisitedIsThere == ASSUME IInv, NEW i \in 1..NR_BUFFERS PROVE Visited(i) \in Buf
<1>1. (i % NR_BUFFERS) + 1 \in 1..NR_BUFFERS
  BY SomeBuffers, Mod
<1>2. QED
  BY <1>1, Types DEF Visited, TypeOK

(* put_last_free and the claim of a buffer keep every buffer in the list. *)
LEMMA Moved ==
  ASSUME IInv, NEW b \in Buf
  PROVE  /\ MoveToEnd(b) \in [1..NR_BUFFERS -> Buf]
         /\ \A c \in Buf : \E i \in 1..NR_BUFFERS : MoveToEnd(b)[i] = c
<1>1. NR_BUFFERS \in Nat \ {0}
  BY SomeBuffers
<1>2. PICK n \in Nat : n = NR_BUFFERS
  BY <1>1
<1>3. PICK p \in 1..n : p = PlaceOf(b) /\ free_list[p] = b
  BY <1>2, PlaceIsThere
<1>4. free_list \in [1..n -> Buf]
  BY <1>2, Types DEF TypeOK
<1>5. MoveToEnd(b) = [i \in 1..n |-> IF i < p THEN free_list[i]
                                     ELSE IF i < n THEN free_list[i + 1] ELSE b]
  BY <1>2, <1>3 DEF MoveToEnd
<1>6. MoveToEnd(b) \in [1..n -> Buf]
  <2>1. ASSUME NEW i \in 1..n
        PROVE  (IF i < p THEN free_list[i] ELSE IF i < n THEN free_list[i + 1] ELSE b) \in Buf
    <3>1. CASE i < n
      <4>1. i + 1 \in 1..n
        BY <3>1, <1>2
      <4>2. QED
        BY <4>1, <1>4
    <3>2. CASE ~(i < n)
      BY <3>2, <1>4
    <3>3. QED
      BY <3>1, <3>2
  <2>2. QED
    BY <1>5, <2>1
<1>7. ASSUME NEW c \in Buf
      PROVE  \E i \in 1..n : MoveToEnd(b)[i] = c
  <2>1. PICK i \in 1..n : free_list[i] = c
    BY <1>2, FreeList DEF IInv, ListHasAll
  <2>2. CASE i < p
    BY <2>1, <2>2, <1>5
  <2>3. CASE i = p
    <3>1. n \in 1..n /\ MoveToEnd(b)[n] = b
      BY <1>2, <1>3, <1>5
    <3>2. QED
      BY <2>1, <2>3, <3>1, <1>3
  <2>4. CASE i > p
    <3>1. PICK m \in Nat : m = i - 1
      BY <2>4
    <3>2. m \in 1..n /\ ~(m < p) /\ m < n /\ m + 1 = i
      BY <3>1, <2>4, <1>2
    <3>3. MoveToEnd(b)[m] = free_list[m + 1]
      BY <3>2, <1>5
    <3>4. QED
      BY <2>1, <3>2, <3>3
  <2>5. QED
    BY <2>2, <2>3, <2>4
<1>8. QED
  BY <1>2, <1>6, <1>7

LEMMA ListMoved ==
  ASSUME IInv, TypeOK', NEW b \in Buf, free_list' = MoveToEnd(b)
  PROVE  FreeListComplete'
<1>1. ListHasAll'
  BY Moved DEF ListHasAll
<1>2. TypeOK' => (FreeListComplete' <=> ListHasAll')
  BY FreeList, PTL
<1>3. QED
  BY <1>1, <1>2

(***************************************************************************)
(* References.                                                             *)
(***************************************************************************)
LEMMA Finite == ASSUME NEW S \in SUBSET Task PROVE IsFiniteSet(S) /\ Cardinality(S) \in Nat
BY CacheAssumption, FS_Subset, FS_CardinalityType

LEMMA CountSame ==
  ASSUME IInv, b_count' = b_count,
         \A u \in Task, c \in Buf : RefersTo(u, c)' <=> RefersTo(u, c)
  PROVE  CountIsReferences'
<1>1. \A c \in Buf : References(c)' = References(c)
  BY DEF References
<1>2. QED
  BY <1>1 DEF IInv, CountIsReferences

LEMMA CountUp ==
  ASSUME IInv, NEW t \in Task, NEW b \in Buf, b_count' = [b_count EXCEPT ![b] = @ + 1],
         ~RefersTo(t, b), RefersTo(t, b)',
         \A u \in Task, c \in Buf : (u # t \/ c # b) => (RefersTo(u, c)' <=> RefersTo(u, c))
  PROVE  CountIsReferences'
<1>1. \A c \in Buf \ {b} : References(c)' = References(c)
  BY DEF References
<1>2. t \notin References(b) /\ References(b)' = References(b) \cup {t}
  BY DEF References
<1>3. References(b) \in SUBSET Task
  BY DEF References
<1>4. Cardinality(References(b)') = Cardinality(References(b)) + 1
  BY <1>2, <1>3, Finite, FS_AddElement
<1>5. b_count' = [b_count EXCEPT ![b] = b_count[b] + 1] /\ b_count \in [Buf -> Nat]
  BY Types DEF TypeOK
<1>6. ASSUME NEW c \in Buf PROVE b_count'[c] = Cardinality(References(c)')
  <2>1. b_count[c] = Cardinality(References(c))
    BY DEF IInv, CountIsReferences
  <2>2. CASE c = b
    BY <1>4, <1>5, <2>1, <2>2
  <2>3. CASE c # b
    BY <1>1, <1>5, <2>1, <2>3
  <2>4. QED
    BY <2>2, <2>3
<1>7. QED
  BY <1>6 DEF CountIsReferences

LEMMA CountDown ==
  ASSUME IInv, NEW t \in Task, NEW b \in Buf, b_count' = [b_count EXCEPT ![b] = @ - 1],
         RefersTo(t, b), ~RefersTo(t, b)',
         \A u \in Task, c \in Buf : (u # t \/ c # b) => (RefersTo(u, c)' <=> RefersTo(u, c))
  PROVE  CountIsReferences'
<1>1. \A c \in Buf \ {b} : References(c)' = References(c)
  BY DEF References
<1>2. t \in References(b) /\ References(b)' = References(b) \ {t}
  BY DEF References
<1>3. References(b) \in SUBSET Task
  BY DEF References
<1>4. Cardinality(References(b)') = Cardinality(References(b)) - 1
  BY <1>2, <1>3, Finite, FS_RemoveElement
<1>5. b_count' = [b_count EXCEPT ![b] = b_count[b] - 1] /\ b_count \in [Buf -> Nat]
  BY Types DEF TypeOK
<1>6. ASSUME NEW c \in Buf PROVE b_count'[c] = Cardinality(References(c)')
  <2>1. b_count[c] = Cardinality(References(c))
    BY DEF IInv, CountIsReferences
  <2>2. CASE c = b
    BY <1>4, <1>5, <2>1, <2>2
  <2>3. CASE c # b
    BY <1>1, <1>5, <2>1, <2>3
  <2>4. QED
    BY <2>2, <2>3
<1>7. QED
  BY <1>6 DEF CountIsReferences

LEMMA Referred ==
  ASSUME IInv, NEW t \in Task, NEW b \in Buf, RefersTo(t, b)
  PROVE  b_count[b] > 0
<1>1. t \in References(b) /\ References(b) \in SUBSET Task
  BY DEF References
<1>2. Cardinality(References(b)) # 0
  BY <1>1, Finite, FS_EmptySet
<1>3. Cardinality(References(b)) \in Nat
  BY <1>1, Finite
<1>4. QED
  BY <1>2, <1>3 DEF IInv, CountIsReferences

(***************************************************************************)
(* Steps of one task.                                                      *)
(***************************************************************************)
StepOf(t) == job' \in [Task -> Job] /\ \A u \in Task \ {t} : job'[u] = job[u]

LEMMA ChangeStep ==
  ASSUME IInv, NEW t \in Task, NEW j \in Job, job' = [job EXCEPT ![t] = j]
  PROVE  StepOf(t) /\ job'[t] = j
BY Types DEF StepOf, TypeOK

LEMMA GotoStep ==
  ASSUME IInv, NEW t \in Task, NEW l \in Places, job' = [job EXCEPT ![t].at = l]
  PROVE  StepOf(t) /\ job'[t] = [job[t] EXCEPT !.at = l]
<1>1. job[t] \in Job
  BY Types DEF TypeOK
<1>2. [job[t] EXCEPT !.at = l] \in Job
  BY <1>1 DEF Job
<1>3. job' = [job EXCEPT ![t] = [job[t] EXCEPT !.at = l]]
  OBVIOUS
<1>4. QED
  BY <1>2, <1>3, ChangeStep

LEMMA IdleIsJob == Idle \in Job
BY SomeBuffers DEF Idle, Job, Places

Requesting == {"read_request", "sync_request"}

(* A step that leaves buffers and device alone and neither begins nor ends a
   wait for a request. *)
LEMMA QuietStep ==
  ASSUME IInv, NEW t \in Task, StepOf(t),
         UNCHANGED <<block, b_lock, b_dirt, b_uptodate, data, disk, latest, bad, io>>,
         job[t].at \notin Requesting, job'[t].at \notin Requesting
  PROVE  OneBufferPerBlock' /\ Locks' /\ (\A b \in Buf : CopyRight(b)') /\ AbsentRight'
<1>1. \A u \in Task, b \in Buf : Locker(u, b)' <=> Locker(u, b)
  BY DEF StepOf, Locker, Requesting
<1>2. \A u \in Task, b \in Buf : Locker(u, b) => job'[u] = job[u]
  BY DEF StepOf, Locker, Requesting
<1>3. Locks'
  BY <1>1, <1>2 DEF IInv, Locks
<1>4. OneBufferPerBlock'
  BY DEF IInv, OneBufferPerBlock
<1>5. \A b \in Buf : CopyRight(b)'
  BY DEF IInv, CopyRight
<1>6. AbsentRight'
  BY DEF IInv, AbsentRight, FindBuffer
<1>7. QED
  BY <1>3, <1>4, <1>5, <1>6

LEMMA OthersFit ==
  ASSUME IInv, NEW t \in Task, StepOf(t), block' = block, JobFits(t)',
         \A u \in Task \ {t} : held'[u] = held[u]
  PROVE  \A u \in Task : JobFits(u)'
<1> SUFFICES ASSUME NEW u \in Task PROVE JobFits(u)'
  OBVIOUS
<1>1. CASE u = t
  BY <1>1
<1>2. CASE u # t
  <2>1. JobFits(u) /\ job'[u] = job[u] /\ held'[u] = held[u]
    BY <1>2, Fits DEF StepOf
  <2>2. QED
    BY <2>1 DEF JobFits
<1>3. QED
  BY <1>1, <1>2

(* The other tasks' references stay. *)
LEMMA OthersRefer ==
  ASSUME NEW t \in Task, StepOf(t), \A u \in Task \ {t} : held'[u] = held[u]
  PROVE  \A u \in Task \ {t} : \A b \in Buf : RefersTo(u, b)' <=> RefersTo(u, b)
BY DEF StepOf, RefersTo

LEMMA HeldKept ==
  ASSUME IInv, UNCHANGED <<held, block, b_uptodate, bad>>
  PROVE  HeldAreValid'
BY DEF IInv, HeldAreValid

LEMMA ListKept ==
  ASSUME IInv, UNCHANGED free_list
  PROVE  FreeListComplete'
BY DEF IInv, FreeListComplete

(***************************************************************************)
(* bread and getblk.                                                       *)
(***************************************************************************)
LEMMA BreadStep ==
  ASSUME IInv, NEW t \in Task, NEW k \in Block, NEW a \in AheadBlock \ {k}, Bread(t, k, a)
  PROVE  IInv'
<1> DEFINE j == [Idle EXCEPT !.at = "getblk", !.blk = k, !.ahead = a]
<1>1. /\ job[t] = Idle /\ ops < MaxOps /\ held[t] = {} /\ job' = [job EXCEPT ![t] = j]
      /\ current' = t /\ ops' = ops + 1
      /\ UNCHANGED <<bvars, disk, latest, bad, io, wait, held, version>>
  BY DEF Bread
<1>2. j \in Job
  BY IdleIsJob, CacheAssumption DEF Job, Places
<1>3. StepOf(t) /\ job'[t] = j
  BY <1>1, <1>2, ChangeStep
<1>4. TypeOK'
  BY <1>1, <1>3, Types, CacheAssumption DEF TypeOK, StepOf, bvars
<1>5. OneBufferPerBlock' /\ Locks' /\ (\A b \in Buf : CopyRight(b)') /\ AbsentRight'
  BY <1>1, <1>3, QuietStep DEF bvars, Requesting, Idle
<1>6. \A u \in Task : JobFits(u)'
  <2>1. JobFits(t)'
    BY <1>1, <1>3, NoIsNone DEF JobFits, Idle, Refers
  <2>2. QED
    BY <1>1, <1>3, <2>1, OthersFit DEF bvars
<1>7. CountIsReferences'
  <2>1. \A b \in Buf : RefersTo(t, b)' <=> RefersTo(t, b)
    BY <1>1, <1>3 DEF RefersTo, Idle, Refers
  <2>2. QED
    BY <1>1, <1>3, <2>1, OthersRefer, CountSame DEF bvars
<1>8. HeldAreValid' /\ FreeListComplete'
  BY <1>1, HeldKept, ListKept DEF bvars
<1>9. QED
  BY <1>4, <1>5, <1>6, <1>7, <1>8 DEF IInv

LEMMA FoundStep ==
  ASSUME IInv, NEW t \in Task, Found(t)
  PROVE  IInv'
<1>1. PICK b \in FindBuffer(job[t].blk) :
        /\ b_count' = [b_count EXCEPT ![b] = @ + 1]
        /\ job' = [job EXCEPT ![t].at = "found", ![t].bh = b]
  BY DEF Found
<1> DEFINE j == [job[t] EXCEPT !.at = "found", !.bh = b]
<1>2. /\ job[t].at = "getblk" /\ current' = t
      /\ UNCHANGED <<block, b_lock, b_dirt, b_uptodate, free_list, data, disk, latest, bad, io,
                     wait, held, ops, version>>
  BY DEF Found
<1>3. job[t] \in Job /\ JobFits(t) /\ b \in Buf /\ block[b] = job[t].blk
  BY Types, Fits DEF TypeOK, FindBuffer
<1>4. j \in Job /\ job' = [job EXCEPT ![t] = j]
  BY <1>1, <1>3 DEF Job, Places
<1>5. StepOf(t) /\ job'[t] = j
  BY <1>4, ChangeStep
<1>6. TypeOK'
  BY <1>1, <1>2, <1>3, <1>5, Types, CacheAssumption DEF TypeOK, StepOf
<1>7. OneBufferPerBlock' /\ Locks' /\ (\A c \in Buf : CopyRight(c)') /\ AbsentRight'
  <2>1. job'[t].at = "found"
    BY <1>3, <1>5 DEF Job
  <2>2. QED
    BY <1>2, <1>5, <2>1, QuietStep DEF Requesting
<1>8. job[t].blk \in Block /\ held[t] = {} /\ job[t].first # b
  BY <1>2, <1>3, NoIsNone DEF JobFits
<1>9. \A u \in Task : JobFits(u)'
  <2>1. JobFits(t)'
    BY <1>2, <1>3, <1>5, <1>8, NoIsNone DEF JobFits, Refers, Job
  <2>2. QED
    BY <1>2, <1>5, <2>1, OthersFit
<1>10. CountIsReferences'
  <2>1. ~RefersTo(t, b) /\ RefersTo(t, b)'
    BY <1>2, <1>3, <1>5, <1>8 DEF RefersTo, Refers, Job
  <2>2. \A c \in Buf \ {b} : RefersTo(t, c)' <=> RefersTo(t, c)
    BY <1>2, <1>3, <1>5, <1>8 DEF RefersTo, Refers, Job
  <2>3. QED
    BY <1>1, <1>2, <1>3, <1>5, <2>1, <2>2, OthersRefer, CountUp
<1>11. HeldAreValid' /\ FreeListComplete'
  BY <1>2, HeldKept, ListKept
<1>12. QED
  BY <1>6, <1>7, <1>9, <1>10, <1>11 DEF IInv

(* A step in which the task moves on and keeps what it refers to. *)
LEMMA MoveOn ==
  ASSUME IInv, NEW t \in Task, StepOf(t), TypeOK',
         UNCHANGED <<block, b_count, b_lock, b_dirt, b_uptodate, data, disk, latest, bad, io, held>>,
         job[t].at \notin Requesting, job'[t].at \notin Requesting,
         JobFits(t)', FreeListComplete',
         \A b \in Buf : RefersTo(t, b)' <=> RefersTo(t, b)
  PROVE  IInv'
<1>1. OneBufferPerBlock' /\ Locks' /\ (\A b \in Buf : CopyRight(b)') /\ AbsentRight'
  BY QuietStep
<1>2. \A u \in Task : JobFits(u)'
  BY OthersFit
<1>3. CountIsReferences'
  BY OthersRefer, CountSame
<1>4. HeldAreValid'
  BY HeldKept
<1>5. QED
  BY <1>1, <1>2, <1>3, <1>4 DEF IInv

(* A step in which nothing but the running task and the sleepers change. *)
LEMMA OnlySleep ==
  ASSUME IInv, TypeOK', UNCHANGED <<bvars, disk, latest, bad, io, job, held>>
  PROVE  IInv'
<1>1. OneBufferPerBlock' /\ FreeListComplete'
  BY DEF IInv, OneBufferPerBlock, FreeListComplete, bvars
<1>2. \A u \in Task, b \in Buf : RefersTo(u, b)' <=> RefersTo(u, b)
  BY DEF RefersTo
<1>3. CountIsReferences'
  BY <1>2, CountSame DEF bvars
<1>4. \A t \in Task : JobFits(t)'
  BY DEF IInv, JobFits, bvars
<1>5. Locks'
  <2>1. \A u \in Task, b \in Buf : Locker(u, b)' <=> Locker(u, b)
    BY DEF Locker
  <2>2. QED
    BY <2>1 DEF IInv, Locks, bvars
<1>6. HeldAreValid' /\ (\A b \in Buf : CopyRight(b)') /\ AbsentRight'
  BY DEF IInv, HeldAreValid, CopyRight, AbsentRight, FindBuffer, bvars
<1>7. QED
  BY <1>1, <1>3, <1>4, <1>5, <1>6 DEF IInv

Queues == Buf \cup {"buffer_wait", "wait_for_request"}

LEMMA Sleeping ==
  ASSUME IInv, NEW t \in Task, NEW q \in Queues, SleepOn(t, q),
         UNCHANGED <<bvars, disk, latest, bad, io, job, held, ops, version>>
  PROVE  IInv'
<1>1. TypeOK'
  BY Types DEF TypeOK, SleepOn, Queues, bvars
<1>2. QED
  BY <1>1, OnlySleep

LEMMA FoundWaitStep ==
  ASSUME IInv, NEW t \in Task, FoundWait(t)
  PROVE  IInv'
<1> DEFINE b == job[t].bh
<1>1. /\ job[t].at = "found"
      /\ UNCHANGED <<block, b_lock, b_dirt, b_uptodate, data, disk, latest, bad, io, held, ops,
                     version>>
  BY DEF FoundWait
<1>2. job[t] \in Job /\ JobFits(t)
  BY Types, Fits DEF TypeOK
<1>3. b \in Buf /\ block[b] = job[t].blk
  BY <1>1, <1>2 DEF JobFits, Refers
<1>4. CASE SleepOn(t, b) /\ UNCHANGED <<job, b_count, free_list>>
  BY <1>1, <1>3, <1>4, Sleeping DEF Queues, bvars
<1>5. CASE Goto(t, "got") /\ free_list' = MoveToEnd(b) /\ UNCHANGED b_count
  <2>1. StepOf(t) /\ job'[t] = [job[t] EXCEPT !.at = "got"]
    BY <1>5, GotoStep DEF Goto, Places
  <2>2. TypeOK'
    <3>1. free_list' \in [1..NR_BUFFERS -> Buf]
      BY <1>3, <1>5, Moved
    <3>2. QED
      BY <1>1, <1>5, <2>1, <3>1, Types DEF TypeOK, StepOf, Goto
  <2>3. FreeListComplete'
    BY <1>3, <1>5, <2>2, ListMoved
  <2>4. job'[t].at = "got" /\ job[t].at \notin Requesting /\ job'[t].at \notin Requesting
    BY <1>1, <1>2, <2>1 DEF Job, Requesting
  <2>5. JobFits(t)'
    BY <1>1, <1>2, <2>1 DEF JobFits, Job, Refers
  <2>6. \A c \in Buf : RefersTo(t, c)' <=> RefersTo(t, c)
    BY <1>1, <1>2, <2>1 DEF RefersTo, Refers, Job
  <2>7. QED
    BY <1>1, <1>5, <2>1, <2>2, <2>3, <2>4, <2>5, <2>6, MoveOn
<1>6. QED
  BY <1>3, <1>4, <1>5 DEF FoundWait

(* The end of bread: the caller has the buffer. *)
LEMMA ReturnsBuffer ==
  ASSUME IInv, NEW t \in Task, NEW b \in Buf, job[t].bh = b, b_uptodate[b],
         job[t].at \in {"got", "read"}, job[t].first = NoBuf,
         Return(t), held' = [held EXCEPT ![t] = @ \cup {b}],
         UNCHANGED <<bvars, disk, latest, bad, io, wait, ops, version>>
  PROVE  IInv'
<1>1. StepOf(t) /\ job'[t] = Idle
  BY IdleIsJob, ChangeStep DEF Return
<1>2. JobFits(t) /\ held \in [Task -> SUBSET Buf]
  BY Fits, Types DEF TypeOK
<1>3. block[b] \in Block /\ held[t] = {}
  BY <1>2 DEF JobFits, Refers
<1>4. held'[t] = {b} /\ \A u \in Task \ {t} : held'[u] = held[u]
  BY <1>2, <1>3
<1>5. TypeOK'
  BY <1>1, Types DEF TypeOK, StepOf, Return, bvars
<1>6. OneBufferPerBlock' /\ Locks' /\ (\A c \in Buf : CopyRight(c)') /\ AbsentRight'
  <2>1. job'[t].at = "out"
    BY <1>1 DEF Idle
  <2>2. QED
    BY <1>1, <2>1, QuietStep DEF bvars, Requesting
<1>7. \A u \in Task : JobFits(u)'
  <2>1. JobFits(t)'
    BY <1>1 DEF JobFits, Idle, Refers
  <2>2. QED
    BY <1>1, <1>4, <2>1, OthersFit DEF bvars
<1>8. CountIsReferences'
  <2>1. \A c \in Buf : RefersTo(t, c)' <=> c = b
    BY <1>1, <1>4, NoIsNone DEF RefersTo, Idle, Refers
  <2>2. \A c \in Buf : RefersTo(t, c) <=> c = b
    BY <1>3, NoIsNone DEF RefersTo, Refers
  <2>3. QED
    BY <1>1, <1>4, <2>1, <2>2, OthersRefer, CountSame DEF bvars
<1>9. HeldAreValid'
  BY <1>3, <1>4 DEF IInv, HeldAreValid, bvars
<1>10. FreeListComplete'
  BY ListKept DEF bvars
<1>11. QED
  BY <1>5, <1>6, <1>7, <1>8, <1>9, <1>10 DEF IInv

LEMMA GotStep ==
  ASSUME IInv, NEW t \in Task, Got(t)
  PROVE  IInv'
<1> DEFINE b == job[t].bh
<1>1. /\ job[t].at = "got" /\ job[t].first = NoBuf
      /\ UNCHANGED <<bvars, disk, latest, bad, io, ops, version>>
  BY DEF Got
<1>2. job[t] \in Job /\ JobFits(t)
  BY Types, Fits DEF TypeOK
<1>3. b \in Buf /\ block[b] \in Block /\ held[t] = {}
  BY <1>1, <1>2 DEF JobFits, Refers
<1>4. ASSUME NEW l \in {"read", "lock"}, Goto(t, l), UNCHANGED held
      PROVE  IInv'
  <2>1. StepOf(t) /\ job'[t] = [job[t] EXCEPT !.at = l]
    BY <1>4, GotoStep DEF Goto, Places
  <2>2. TypeOK'
    BY <1>1, <1>4, <2>1, Types DEF TypeOK, StepOf, Goto, bvars
  <2>3. FreeListComplete'
    BY <1>1, ListKept DEF bvars
  <2>4. job'[t].at = l /\ job[t].at \notin Requesting /\ job'[t].at \notin Requesting
    BY <1>1, <1>2, <2>1 DEF Job, Requesting
  <2>5. JobFits(t)'
    BY <1>1, <1>2, <1>4, <2>1 DEF JobFits, Job, Refers, bvars
  <2>6. \A c \in Buf : RefersTo(t, c)' <=> RefersTo(t, c)
    BY <1>1, <1>2, <1>4, <2>1 DEF RefersTo, Refers, Job
  <2>7. QED
    BY <1>1, <1>4, <2>1, <2>2, <2>3, <2>4, <2>5, <2>6, MoveOn DEF bvars
<1>5. CASE /\ b_uptodate[b] /\ Return(t) /\ held' = [held EXCEPT ![t] = @ \cup {b}]
           /\ UNCHANGED wait
  BY <1>1, <1>2, <1>3, <1>5, ReturnsBuffer DEF bvars
<1>6. QED
  BY <1>4, <1>5 DEF Got

(***************************************************************************)
(* Requests: the buffers of W go into the device's list.                   *)
(***************************************************************************)
LEMMA Submitted ==
  ASSUME IInv, NEW W \in SUBSET Buf, NEW cmd \in {"READ", "WRITE"},
         \A b \in W : /\ io[b] = NoIO /\ block[b] \in Block
                      /\ cmd = "READ" => ~b_uptodate[b]
                      /\ cmd = "WRITE" => b_dirt[b],
         b_lock' = [b \in Buf |-> b_lock[b] \/ b \in W],
         b_dirt' = [b \in Buf |-> b_dirt[b] /\ b \notin W],
         io' = [b \in Buf |-> IF b \in W THEN [cmd |-> cmd, from |-> data[b]] ELSE io[b]],
         UNCHANGED <<block, b_uptodate, data, disk, latest, bad>>,
         \A u \in Task, b \in Buf : /\ Locker(u, b)' <=> Locker(u, b) /\ b \notin W
                                    /\ Locker(u, b)' => job'[u].at = job[u].at
  PROVE  OneBufferPerBlock' /\ Locks' /\ (\A b \in Buf : CopyRight(b)') /\ AbsentRight'
<1>1. OneBufferPerBlock'
  BY DEF IInv, OneBufferPerBlock
<1>2. AbsentRight'
  BY DEF IInv, AbsentRight, FindBuffer
<1>3. ASSUME NEW b \in Buf, b \notin W
      PROVE  /\ b_lock'[b] <=> b_lock[b]
             /\ b_dirt'[b] <=> b_dirt[b]
             /\ io'[b] = io[b]
  BY <1>3
<1>4. ASSUME NEW b \in W
      PROVE  /\ b_lock'[b] /\ ~b_dirt'[b] /\ io'[b] = [cmd |-> cmd, from |-> data[b]]
             /\ io'[b].cmd = cmd /\ io'[b].from = data[b] /\ io'[b] # NoIO
  <2>1. b \in Buf
    OBVIOUS
  <2>2. io'[b] = [cmd |-> cmd, from |-> data[b]]
    BY <2>1
  <2>3. io'[b].cmd = cmd /\ io'[b].from = data[b]
    BY <2>2
  <2>4. NoIO.cmd = "none"
    BY DEF NoIO
  <2>5. QED
    BY <2>1, <2>2, <2>3, <2>4
<1>5. Locks'
  <2> SUFFICES ASSUME NEW b \in Buf
               PROVE  (/\ b_lock[b] <=> io[b] # NoIO \/ \E t \in Task : Locker(t, b)
                       /\ \A t, u \in Task : Locker(t, b) /\ Locker(u, b) => t = u
                       /\ \A t \in Task :
                            Locker(t, b) => /\ io[b] = NoIO
                                            /\ job[t].at = "read_request" => ~b_uptodate[b]
                                            /\ job[t].at = "sync_request" => b_dirt[b]
                       /\ io[b] # NoIO \/ b_dirt[b] => block[b] \in Block
                       /\ io[b].cmd = "READ" => ~b_uptodate[b])'
    BY DEF Locks
  <2>1. CASE b \in W
    <3>1. \A u \in Task : ~Locker(u, b)'
      BY <2>1
    <3>2. QED
      BY <2>1, <3>1, <1>4
  <2>2. CASE b \notin W
    <3>1. \A u \in Task : /\ Locker(u, b)' <=> Locker(u, b)
                          /\ Locker(u, b)' => job'[u].at = job[u].at
      BY <2>2
    <3>2. QED
      BY <2>2, <3>1, <1>3 DEF IInv, Locks
  <2>3. QED
    BY <2>1, <2>2
<1>6. ASSUME NEW b \in Buf PROVE CopyRight(b)'
  <2>1. CopyRight(b)
    BY DEF IInv
  <2>2. CASE b \in W
    BY <2>1, <2>2, <1>4 DEF CopyRight
  <2>3. CASE b \notin W
    BY <2>1, <2>3, <1>3 DEF CopyRight
  <2>4. QED
    BY <2>2, <2>3
<1>7. QED
  BY <1>1, <1>2, <1>5, <1>6

(* One buffer, as make_request puts it there. *)
LEMMA SubmitIsSet ==
  ASSUME TypeOK, NEW b \in Buf, NEW cmd \in {"READ", "WRITE"}, Submit(b, cmd)
  PROVE  /\ b_lock' = [c \in Buf |-> b_lock[c] \/ c \in {b}]
         /\ b_dirt' = [c \in Buf |-> b_dirt[c] /\ c \notin {b}]
         /\ io' = [c \in Buf |-> IF c \in {b} THEN [cmd |-> cmd, from |-> data[c]] ELSE io[c]]
<1>1. /\ b_lock' = [b_lock EXCEPT ![b] = TRUE] /\ b_dirt' = [b_dirt EXCEPT ![b] = FALSE]
      /\ io' = [io EXCEPT ![b] = [cmd |-> cmd, from |-> data[b]]]
  BY DEF Submit
<1>2. b_lock \in [Buf -> BOOLEAN] /\ b_dirt \in [Buf -> BOOLEAN]
  BY DEF TypeOK
<1>3. b_lock' = [c \in Buf |-> IF c = b THEN TRUE ELSE b_lock[c]]
  BY <1>1, <1>2
<1>4. b_dirt' = [c \in Buf |-> IF c = b THEN FALSE ELSE b_dirt[c]]
  BY <1>1, <1>2
<1>5. \A c \in Buf : (IF c = b THEN TRUE ELSE b_lock[c]) = (b_lock[c] \/ c \in {b})
  BY <1>2
<1>6. \A c \in Buf : (IF c = b THEN FALSE ELSE b_dirt[c]) = (b_dirt[c] /\ c \notin {b})
  BY <1>2
<1>7. b_lock' = [c \in Buf |-> b_lock[c] \/ c \in {b}]
  BY <1>3, <1>5
<1>8. b_dirt' = [c \in Buf |-> b_dirt[c] /\ c \notin {b}]
  BY <1>4, <1>6
<1>9. io \in [Buf -> {NoIO} \cup [cmd : {"READ", "WRITE"}, from : 0..MaxWrites]]
  BY DEF TypeOK
<1>10. io' = [c \in Buf |-> IF c \in {b} THEN [cmd |-> cmd, from |-> data[c]] ELSE io[c]]
  BY <1>1, <1>9
<1>11. QED
  BY <1>7, <1>8, <1>10

LEMMA SubmittedTypes ==
  ASSUME TypeOK, NEW W, NEW cmd \in {"READ", "WRITE"},
         b_lock' = [b \in Buf |-> b_lock[b] \/ b \in W],
         b_dirt' = [b \in Buf |-> b_dirt[b] /\ b \notin W],
         io' = [b \in Buf |-> IF b \in W THEN [cmd |-> cmd, from |-> data[b]] ELSE io[b]]
  PROVE  /\ b_lock' \in [Buf -> BOOLEAN] /\ b_dirt' \in [Buf -> BOOLEAN]
         /\ io' \in [Buf -> {NoIO} \cup [cmd : {"READ", "WRITE"}, from : 0..MaxWrites]]
<1>1. \A b \in Buf : data[b] \in 0..MaxWrites
  BY DEF TypeOK
<1>2. \A b \in Buf : io[b] \in {NoIO} \cup [cmd : {"READ", "WRITE"}, from : 0..MaxWrites]
  BY DEF TypeOK
<1>3. \A b \in Buf : [cmd |-> cmd, from |-> data[b]] \in [cmd : {"READ", "WRITE"}, from : 0..MaxWrites]
  BY <1>1
<1>4. io' \in [Buf -> {NoIO} \cup [cmd : {"READ", "WRITE"}, from : 0..MaxWrites]]
  BY <1>2, <1>3
<1>5. b_lock' \in [Buf -> BOOLEAN] /\ b_dirt' \in [Buf -> BOOLEAN]
  OBVIOUS
<1>6. QED
  BY <1>4, <1>5

(* No request, no owner: an unlocked buffer. *)
LEMMA Unlocked ==
  ASSUME IInv, NEW b \in Buf, ~b_lock[b]
  PROVE  io[b] = NoIO /\ \A t \in Task : ~Locker(t, b)
BY DEF IInv, Locks

LEMMA DirtyHasBlock == ASSUME IInv, NEW b \in Buf, b_dirt[b] PROVE block[b] \in Block
BY DEF IInv, Locks

(* The two users of make_request that may wait: bread for a block, and the
   walk of sync_buffers. *)
Caller(t, b, cmd, before, after, retry) ==
  /\ job[t].at \in {before, retry}
  /\ \/ /\ cmd = "READ" /\ before = "lock" /\ after = "read" /\ retry = "read_request"
        /\ b = job[t].bh
     \/ /\ cmd = "WRITE" /\ before = "sync" /\ after = "sync_next" /\ retry = "sync_request"
        /\ b = job[t].ptr /\ job[t].left > 0

LEMMA CallerHasBuffer ==
  ASSUME IInv, NEW t \in Task, NEW b, NEW cmd, NEW before, NEW after, NEW retry,
         Caller(t, b, cmd, before, after, retry)
  PROVE  b \in Buf /\ (cmd = "READ" => block[b] \in Block)
BY Fits DEF Caller, JobFits, Refers

(* The task itself: where it may go from there. *)
LEMMA CallerMoves ==
  ASSUME IInv, NEW t \in Task, NEW b, NEW cmd, NEW before, NEW after, NEW retry,
         Caller(t, b, cmd, before, after, retry), NEW l \in {after, retry},
         job' = [job EXCEPT ![t].at = l], UNCHANGED <<block, held, b_count>>
  PROVE  /\ StepOf(t) /\ job'[t].at = l /\ job'[t].bh = job[t].bh /\ job'[t].ptr = job[t].ptr
         /\ (\A u \in Task : JobFits(u)') /\ CountIsReferences'
<1>1. l \in Places /\ job[t] \in Job /\ JobFits(t)
  BY Types, Fits DEF Caller, Places, TypeOK
<1>2. StepOf(t) /\ job'[t] = [job[t] EXCEPT !.at = l]
  BY <1>1, GotoStep
<1>3. /\ job'[t].at = l /\ job'[t].bh = job[t].bh /\ job'[t].ptr = job[t].ptr
      /\ job'[t].blk = job[t].blk /\ job'[t].left = job[t].left
      /\ job'[t].first = job[t].first /\ job'[t].ahead = job[t].ahead
  BY <1>1, <1>2 DEF Job
<1>4. JobFits(t)'
  BY <1>1, <1>3 DEF JobFits, Caller, Refers
<1>5. \A u \in Task : JobFits(u)'
  BY <1>2, <1>4, OthersFit
<1>6. \A c \in Buf : RefersTo(t, c)' <=> RefersTo(t, c)
  BY <1>1, <1>3 DEF RefersTo, Caller, Refers
<1>7. CountIsReferences'
  BY <1>2, <1>6, OthersRefer, CountSame
<1>8. QED
  BY <1>2, <1>3, <1>5, <1>7

LEMMA MakeRequestStep ==
  ASSUME IInv, NEW t \in Task, NEW b, NEW cmd, NEW before, NEW after, NEW retry,
         Caller(t, b, cmd, before, after, retry), MakeRequest(t, b, cmd, after, retry),
         UNCHANGED <<block, b_count, b_uptodate, free_list, data, disk, latest, bad, held, ops,
                     version>>
  PROVE  IInv'
<1> DEFINE needed == IF cmd = "READ" THEN ~b_uptodate[b] ELSE b_dirt[b]
           owned == job[t].at = retry
<1>1. b \in Buf /\ cmd \in {"READ", "WRITE"} /\ (cmd = "READ" => block[b] \in Block)
  BY CallerHasBuffer DEF Caller
<1>2. HeldAreValid' /\ FreeListComplete'
  BY HeldKept, ListKept
<1>3. CASE SleepOn(t, b) /\ UNCHANGED <<job, b_lock, b_dirt, io>>
  BY <1>1, <1>3, Sleeping DEF Queues, bvars
<1>4. CASE ~owned /\ Goto(t, after) /\ UNCHANGED <<b_lock, b_dirt, io>>
  <2>1. job' = [job EXCEPT ![t].at = after] /\ current' = t /\ UNCHANGED wait
    BY <1>4 DEF Goto
  <2>2. /\ StepOf(t) /\ job'[t].at = after /\ job'[t].bh = job[t].bh /\ job'[t].ptr = job[t].ptr
        /\ (\A u \in Task : JobFits(u)') /\ CountIsReferences'
    <3>1. after \in {after, retry}
      OBVIOUS
    <3>2. QED
      BY <2>1, <3>1, CallerMoves
  <2>3. TypeOK'
    BY <1>4, <2>1, <2>2, Types DEF TypeOK, StepOf
  <2>4. job[t].at \notin Requesting /\ job'[t].at \notin Requesting
    BY <1>4, <2>2 DEF Caller, Requesting
  <2>5. OneBufferPerBlock' /\ Locks' /\ (\A c \in Buf : CopyRight(c)') /\ AbsentRight'
    BY <1>4, <2>2, <2>4, QuietStep
  <2>6. QED
    BY <1>2, <2>2, <2>3, <2>5 DEF IInv
<1>5. ASSUME owned \/ (~b_lock[b] /\ needed)
      PROVE  /\ io[b] = NoIO /\ block[b] \in Block /\ needed
             /\ \A u \in Task : Locker(u, b) => u = t
             /\ owned => Locker(t, b) /\ b_lock[b]
  <2>1. CASE owned
    <3>1. Locker(t, b)
      BY <2>1 DEF Caller, Locker
    <3>2. QED
      BY <1>1, <2>1, <3>1 DEF IInv, Locks, Caller
  <2>2. CASE ~owned
    <3>1. ~b_lock[b] /\ needed
      BY <1>5, <2>2
    <3>2. block[b] \in Block
      BY <1>1, <3>1, DirtyHasBlock
    <3>3. QED
      BY <1>1, <2>2, <3>1, <3>2, Unlocked
  <2>3. QED
    BY <2>1, <2>2
<1>6. CASE (owned \/ (~b_lock[b] /\ needed)) /\ Submit(b, cmd) /\ Goto(t, after)
  <2>1. job' = [job EXCEPT ![t].at = after] /\ current' = t /\ UNCHANGED wait
    BY <1>6 DEF Goto
  <2>2. /\ StepOf(t) /\ job'[t].at = after /\ job'[t].bh = job[t].bh /\ job'[t].ptr = job[t].ptr
        /\ (\A u \in Task : JobFits(u)') /\ CountIsReferences'
    <3>1. after \in {after, retry}
      OBVIOUS
    <3>2. QED
      BY <2>1, <3>1, CallerMoves
  <2>3. /\ b_lock' = [c \in Buf |-> b_lock[c] \/ c \in {b}]
        /\ b_dirt' = [c \in Buf |-> b_dirt[c] /\ c \notin {b}]
        /\ io' = [c \in Buf |-> IF c \in {b} THEN [cmd |-> cmd, from |-> data[c]] ELSE io[c]]
    BY <1>1, <1>6, Types, SubmitIsSet
  <2>4. TypeOK'
    <3>1. /\ b_lock' \in [Buf -> BOOLEAN] /\ b_dirt' \in [Buf -> BOOLEAN]
          /\ io' \in [Buf -> {NoIO} \cup [cmd : {"READ", "WRITE"}, from : 0..MaxWrites]]
      BY <1>1, <2>3, Types, SubmittedTypes
    <3>2. QED
      BY <2>1, <2>2, <3>1, Types DEF TypeOK, StepOf
  <2>5. ASSUME NEW u \in Task, NEW c \in Buf
        PROVE  /\ Locker(u, c)' <=> Locker(u, c) /\ c \notin {b}
               /\ Locker(u, c)' => job'[u].at = job[u].at
    <3>1. CASE u = t
      <4>1. ~Locker(t, c)'
        BY <2>2 DEF Caller, Locker
      <4>2. Locker(t, c) => c = b
        BY DEF Caller, Locker
      <4>3. QED
        BY <3>1, <4>1, <4>2
    <3>2. CASE u # t
      <4>1. job'[u] = job[u] /\ ~Locker(u, b)
        BY <1>5, <1>6, <2>2, <3>2 DEF StepOf
      <4>2. QED
        BY <4>1 DEF Locker
    <3>3. QED
      BY <3>1, <3>2
  <2>6. \A c \in {b} : /\ io[c] = NoIO /\ block[c] \in Block
                       /\ cmd = "READ" => ~b_uptodate[c]
                       /\ cmd = "WRITE" => b_dirt[c]
    BY <1>1, <1>5, <1>6
  <2>7. {b} \in SUBSET Buf
    BY <1>1
  <2>8. OneBufferPerBlock' /\ Locks' /\ (\A c \in Buf : CopyRight(c)') /\ AbsentRight'
    BY <1>1, <2>3, <2>5, <2>6, <2>7, Submitted
  <2>9. QED
    BY <1>2, <2>2, <2>4, <2>8 DEF IInv
<1>7. CASE /\ owned \/ (~b_lock[b] /\ needed)
           /\ b_lock' = [b_lock EXCEPT ![b] = TRUE]
           /\ job' = [job EXCEPT ![t].at = retry]
           /\ SleepOn(t, "wait_for_request")
           /\ UNCHANGED <<b_dirt, io>>
  <2>1. /\ StepOf(t) /\ job'[t].at = retry /\ job'[t].bh = job[t].bh /\ job'[t].ptr = job[t].ptr
        /\ (\A u \in Task : JobFits(u)') /\ CountIsReferences'
    BY <1>7, CallerMoves
  <2>2. TypeOK'
    BY <1>7, <2>1, Types DEF TypeOK, StepOf, SleepOn
  <2>3. OneBufferPerBlock' /\ (\A c \in Buf : CopyRight(c)') /\ AbsentRight'
    BY <1>7 DEF IInv, OneBufferPerBlock, CopyRight, AbsentRight, FindBuffer
  <2>4. ASSUME NEW u \in Task, NEW c \in Buf, c # b \/ u # t
        PROVE  (Locker(u, c)' <=> Locker(u, c)) /\ (Locker(u, c)' => job'[u].at = job[u].at)
    <3>1. CASE u = t
      BY <2>1, <2>4, <3>1 DEF Caller, Locker
    <3>2. CASE u # t
      BY <2>1, <3>2 DEF StepOf, Locker
    <3>3. QED
      BY <3>1, <3>2
  <2>5. Locker(t, b)'
    BY <2>1 DEF Caller, Locker
  <2>6. b_lock'[b] /\ \A c \in Buf \ {b} : b_lock'[c] <=> b_lock[c]
    BY <1>1, <1>7, Types DEF TypeOK
  <2>7. Locks'
    <3> SUFFICES ASSUME NEW c \in Buf
                 PROVE  (/\ b_lock[c] <=> io[c] # NoIO \/ \E u \in Task : Locker(u, c)
                         /\ \A v, u \in Task : Locker(v, c) /\ Locker(u, c) => v = u
                         /\ \A v \in Task :
                              Locker(v, c) => /\ io[c] = NoIO
                                              /\ job[v].at = "read_request" => ~b_uptodate[c]
                                              /\ job[v].at = "sync_request" => b_dirt[c]
                         /\ io[c] # NoIO \/ b_dirt[c] => block[c] \in Block
                         /\ io[c].cmd = "READ" => ~b_uptodate[c])'
      BY DEF Locks
    <3>1. CASE c = b
      <4>1. io[b] = NoIO /\ block[b] \in Block /\ needed /\ \A u \in Task : Locker(u, b)' => u = t
        BY <1>1, <1>5, <1>7, <2>4
      <4>2. io[b].cmd # "READ"
        BY <4>1 DEF NoIO
      <4>3. QED
        BY <1>7, <2>1, <2>5, <2>6, <3>1, <4>1, <4>2 DEF Caller
    <3>2. CASE c # b
      BY <1>7, <2>4, <2>6, <3>2 DEF IInv, Locks
    <3>3. QED
      BY <3>1, <3>2
  <2>8. QED
    BY <1>2, <2>1, <2>2, <2>3, <2>7 DEF IInv
<1>8. QED
  BY <1>3, <1>4, <1>6, <1>7 DEF MakeRequest

LEMMA ReadBlockStep == ASSUME IInv, NEW t \in Task, ReadBlock(t) PROVE IInv'
<1>1. Caller(t, job[t].bh, "READ", "lock", "read", "read_request")
  BY DEF ReadBlock, Caller
<1>2. QED
  BY <1>1, MakeRequestStep DEF ReadBlock

LEMMA SyncOneStep == ASSUME IInv, NEW t \in Task, SyncOne(t) PROVE IInv'
<1>1. Caller(t, job[t].ptr, "WRITE", "sync", "sync_next", "sync_request")
  BY DEF SyncOne, Caller
<1>2. QED
  BY <1>1, MakeRequestStep DEF SyncOne

(***************************************************************************)
(* The search of the free list.                                            *)
(***************************************************************************)
LEMMA MinExists ==
  ASSUME NEW S \in SUBSET Nat, S # {}
  PROVE  \E i \in S : \A j \in S : i <= j
<1> DEFINE R == {ij \in Nat \X Nat : ij[1] < ij[2]}
<1>1. IsWellFoundedOn(R, Nat)
  BY NatLessThanWellFounded DEF OpToRel
<1>2. PICK i \in S : \A j \in S : <<j, i>> \notin R
  <2> HIDE DEF R
  <2> QED BY <1>1, WFMin
<1>3. ASSUME NEW j \in S PROVE i <= j
  <2>1. i \in Nat /\ j \in Nat /\ <<j, i>> \in Nat \X Nat
    OBVIOUS
  <2>2. ~(j < i)
    BY <1>2, <2>1
  <2>3. QED
    BY <2>1, <2>2
<1>4. QED
  BY <1>3

(* What is written ahead is unused, dirty and not locked. *)
LEMMA AheadIsDirty ==
  ASSUME IInv, NEW n \in Nat, n <= NR_BUFFERS, NEW b \in WrittenAhead(n)
  PROVE  b \in Buf /\ b_dirt[b] /\ ~b_lock[b]
<1>1. PICK i \in 1..n : b = Visited(i) /\ b_dirt[Visited(i)] /\ ~b_lock[Visited(i)]
  BY DEF WrittenAhead
<1>2. NR_BUFFERS \in Nat
  BY SomeBuffers
<1>3. i \in 1..NR_BUFFERS
  BY <1>2
<1>4. QED
  BY <1>1, <1>3, VisitedIsThere

LEMMA Taken ==
  ASSUME IInv, NEW t \in Task, NEW n \in Nat, n <= NR_BUFFERS, NEW b \in Buf,
         job[t].at = "getblk", StartWrites(WrittenAhead(n)),
         job' = [job EXCEPT ![t].at = "check", ![t].bh = b], current' = t,
         UNCHANGED <<block, b_count, b_uptodate, free_list, data, disk, latest, bad, wait, held,
                     ops, version>>
  PROVE  IInv'
<1>1. PICK W : W = WrittenAhead(n)
  OBVIOUS
<1>2. W \in SUBSET Buf /\ \A c \in W : b_dirt[c] /\ ~b_lock[c]
  BY <1>1, AheadIsDirty
<1> DEFINE j == [job[t] EXCEPT !.at = "check", !.bh = b]
<1>3. job[t] \in Job /\ JobFits(t)
  BY Types, Fits DEF TypeOK
<1>4. j \in Job /\ job' = [job EXCEPT ![t] = j]
  BY <1>3 DEF Job, Places
<1>5. StepOf(t) /\ job'[t] = j
  BY <1>4, ChangeStep
<1>6. /\ job'[t].at = "check" /\ job'[t].bh = b /\ job'[t].blk = job[t].blk
      /\ job'[t].first = job[t].first /\ job'[t].ahead = job[t].ahead
  <2>1. "check" \in Places
    BY DEF Places
  <2>2. job'[t] = [job[t] EXCEPT !.at = "check", !.bh = b]
    BY <1>5
  <2>3. PICK r \in Job : r = job[t]
    BY <1>3
  <2>4. PICK i : i = job'[t]
    OBVIOUS
  <2>5. i = [r EXCEPT !.at = "check", !.bh = b]
    BY <2>2, <2>3, <2>4
  <2> HIDE DEF j
  <2>6. /\ i.at = "check" /\ i.bh = b /\ i.blk = r.blk
        /\ i.first = r.first /\ i.ahead = r.ahead
    BY <2>1, <2>5 DEF Job
  <2>7. QED
    BY <2>3, <2>4, <2>6
<1>7. /\ b_lock' = [c \in Buf |-> b_lock[c] \/ c \in W]
      /\ b_dirt' = [c \in Buf |-> b_dirt[c] /\ c \notin W]
      /\ io' = [c \in Buf |-> IF c \in W THEN [cmd |-> "WRITE", from |-> data[c]] ELSE io[c]]
  BY <1>1 DEF StartWrites
<1>8. TypeOK'
  <2>1. /\ b_lock' \in [Buf -> BOOLEAN] /\ b_dirt' \in [Buf -> BOOLEAN]
        /\ io' \in [Buf -> {NoIO} \cup [cmd : {"READ", "WRITE"}, from : 0..MaxWrites]]
    BY <1>7, Types, SubmittedTypes
  <2>2. QED
    BY <1>5, <2>1, Types DEF TypeOK, StepOf
<1>9. ASSUME NEW u \in Task, NEW c \in Buf
      PROVE  /\ Locker(u, c)' <=> Locker(u, c) /\ c \notin W
             /\ Locker(u, c)' => job'[u].at = job[u].at
  <2>1. Locker(u, c)' <=> Locker(u, c)
    BY <1>5, <1>6 DEF Locker, StepOf
  <2>2. Locker(u, c) => c \notin W
    BY <1>2 DEF IInv, Locks
  <2>3. Locker(u, c) => job'[u] = job[u]
    BY <1>5 DEF Locker, StepOf
  <2>4. QED
    BY <2>1, <2>2, <2>3
<1>10. \A c \in W : io[c] = NoIO /\ block[c] \in Block /\ b_dirt[c]
  BY <1>2, Unlocked, DirtyHasBlock
<1>11. OneBufferPerBlock' /\ Locks' /\ (\A c \in Buf : CopyRight(c)') /\ AbsentRight'
  BY <1>2, <1>7, <1>9, <1>10, Submitted
<1>12. \A u \in Task : JobFits(u)'
  <2>1. JobFits(t)'
    BY <1>3, <1>6, NoIsNone DEF JobFits, Refers
  <2>2. QED
    BY <1>5, <2>1, OthersFit
<1>13. CountIsReferences'
  <2>1. \A c \in Buf : RefersTo(t, c)' <=> RefersTo(t, c)
    BY <1>6 DEF RefersTo, Refers
  <2>2. QED
    BY <1>5, <2>1, OthersRefer, CountSame
<1>14. HeldAreValid' /\ FreeListComplete'
  BY HeldKept, ListKept
<1>15. QED
  BY <1>8, <1>11, <1>12, <1>13, <1>14 DEF IInv

LEMMA SearchStep ==
  ASSUME IInv, NEW t \in Task, Search(t)
  PROVE  IInv'
<1> DEFINE good == {i \in 1..NR_BUFFERS : Good(Visited(i))}
           first == CHOOSE i \in good : \A j \in good : i <= j
           unused == {b \in Buf : b_count[b] = 0}
<1>1. /\ job[t].at = "getblk"
      /\ UNCHANGED <<block, b_count, b_uptodate, free_list, data, disk, latest, bad, held, ops,
                     version>>
  BY DEF Search
<1>2. NR_BUFFERS \in Nat /\ NR_BUFFERS <= NR_BUFFERS
  BY SomeBuffers
<1>3. CASE /\ good # {} /\ StartWrites(WrittenAhead(first - 1))
           /\ job' = [job EXCEPT ![t].at = "check", ![t].bh = Visited(first)]
           /\ current' = t /\ UNCHANGED wait
  <2>1. good \in SUBSET Nat
    BY <1>2
  <2>2. \E i \in good : \A j \in good : i <= j
    <3> HIDE DEF good
    <3> QED BY <1>3, <2>1, MinExists
  <2>3. first \in good
    <3> HIDE DEF good
    <3> QED BY <2>2
  <2>4. PICK f \in 1..NR_BUFFERS : f = first
    BY <2>3
  <2> HIDE DEF good, first
  <2>5. PICK n \in Nat : n = first - 1 /\ n <= NR_BUFFERS
    <3>1. f - 1 \in Nat /\ f - 1 <= NR_BUFFERS
      BY <1>2
    <3>2. QED
      BY <3>1, <2>4
  <2>6. Visited(first) \in Buf
    BY <2>4, VisitedIsThere
  <2>7. StartWrites(WrittenAhead(n))
    BY <1>3, <2>5
  <2>8. QED
    BY <1>1, <1>3, <2>5, <2>6, <2>7, Taken
<1>4. CASE /\ StartWrites(WrittenAhead(NR_BUFFERS))
           /\ \E b \in unused : job' = [job EXCEPT ![t].at = "check", ![t].bh = b]
           /\ current' = t /\ UNCHANGED wait
  BY <1>1, <1>2, <1>4, Taken
<1>5. CASE SleepOn(t, "buffer_wait") /\ UNCHANGED <<b_lock, b_dirt, io, job>>
  BY <1>1, <1>5, Sleeping DEF Queues, bvars
<1>6. QED
  BY <1>3, <1>4, <1>5 DEF Search

(***************************************************************************)
(* getblk tests again, and takes the buffer.                               *)
(***************************************************************************)
LEMMA ClaimStep ==
  ASSUME IInv, NEW t \in Task, NEW b \in Buf, NEW k \in Block,
         job[t].at = "check", job[t].bh = b, job[t].blk = k,
         ~b_lock[b], ~InUse(b), ~MustSync(b), ~Appeared(k),
         b_count' = [b_count EXCEPT ![b] = 1], b_dirt' = [b_dirt EXCEPT ![b] = FALSE],
         b_uptodate' = [b_uptodate EXCEPT ![b] = FALSE], block' = [block EXCEPT ![b] = k],
         free_list' = MoveToEnd(b), Goto(t, "got"),
         UNCHANGED <<b_lock, data, disk, latest, bad, io, held, ops, version>>
  PROVE  IInv'
<1>1. b_count[b] = 0 /\ ~b_dirt[b] /\ \A c \in Buf : block[c] # k
  <2>1. b_count[b] \in Nat
    BY Types DEF TypeOK
  <2>2. QED
    BY <2>1 DEF InUse, MustSync, Appeared, FindBuffer
<1>2. io[b] = NoIO /\ \A u \in Task : ~Locker(u, b)
  BY Unlocked
<1>3. \A u \in Task : ~RefersTo(u, b)
  <2>1. ASSUME NEW u \in Task, RefersTo(u, b) PROVE FALSE
    BY <1>1, <2>1, Referred
  <2>2. QED
    BY <2>1
<1>4. job[t] \in Job /\ JobFits(t)
  BY Types, Fits DEF TypeOK
<1>5. StepOf(t) /\ job'[t] = [job[t] EXCEPT !.at = "got"]
  BY GotoStep DEF Goto, Places
<1>6. /\ job'[t].at = "got" /\ job'[t].bh = b /\ job'[t].blk = k
      /\ job'[t].first = job[t].first /\ job'[t].ahead = job[t].ahead
  BY <1>4, <1>5 DEF Job
<1>7. TypeOK'
  <2>1. free_list' \in [1..NR_BUFFERS -> Buf]
    BY Moved
  <2>2. QED
    BY <1>5, <2>1, Types DEF TypeOK, StepOf, Goto
<1>8. FreeListComplete'
  BY <1>7, ListMoved
<1>9. /\ block'[b] = k /\ ~b_uptodate'[b] /\ ~b_dirt'[b]
      /\ \A c \in Buf \ {b} : /\ block'[c] = block[c]
                              /\ b_uptodate'[c] <=> b_uptodate[c]
                              /\ b_dirt'[c] <=> b_dirt[c]
  BY Types DEF TypeOK
<1>10. OneBufferPerBlock'
  BY <1>1, <1>9 DEF IInv, OneBufferPerBlock
<1>11. CountIsReferences'
  <2>1. RefersTo(t, b)'
    BY <1>6 DEF RefersTo, Refers
  <2>2. \A c \in Buf \ {b} : RefersTo(t, c)' <=> RefersTo(t, c)
    BY <1>6 DEF RefersTo, Refers
  <2>3. b_count' = [b_count EXCEPT ![b] = @ + 1]
    BY <1>1
  <2>4. \A u \in Task, c \in Buf : (u # t \/ c # b) => (RefersTo(u, c)' <=> RefersTo(u, c))
    BY <1>5, <2>2, OthersRefer
  <2>5. QED
    BY <1>3, <2>1, <2>3, <2>4, CountUp
<1>12. \A u \in Task : JobFits(u)'
  <2>1. JobFits(t)'
    <3>1. job[t].first # b
      BY <1>3 DEF RefersTo
    <3>2. job[t].first # NoBuf => job[t].first \in Buf
      BY <1>4 DEF Job
    <3>3. QED
      BY <1>4, <1>6, <1>9, <3>1, <3>2 DEF JobFits, Refers
  <2>2. ASSUME NEW u \in Task, u # t PROVE JobFits(u)'
    <3>1. JobFits(u) /\ job[u] \in Job /\ job'[u] = job[u]
      BY <1>5, <2>2, Fits, Types DEF StepOf, TypeOK
    <3>2. job[u].first # b /\ (job[u].at \in Refers => job[u].bh # b)
      BY <1>3 DEF RefersTo
    <3>3. job[u].first # NoBuf => job[u].first \in Buf
      BY <3>1 DEF Job
    <3>4. QED
      BY <1>9, <3>1, <3>2, <3>3 DEF JobFits
  <2>3. QED
    BY <2>1, <2>2
<1>13. Locks'
  <2>1. \A u \in Task, c \in Buf : Locker(u, c)' <=> Locker(u, c)
    BY <1>5, <1>6 DEF StepOf, Locker
  <2>2. \A u \in Task, c \in Buf : Locker(u, c) => job'[u] = job[u] /\ c # b
    BY <1>2, <1>5 DEF StepOf, Locker
  <2>3. io[b].cmd # "READ"
    BY <1>2 DEF NoIO
  <2>4. QED
    BY <1>2, <1>9, <2>1, <2>2, <2>3 DEF IInv, Locks
<1>14. HeldAreValid'
  <2>1. \A u \in Task : b \notin held[u]
    BY <1>3 DEF RefersTo
  <2>2. \A u \in Task : held[u] \in SUBSET Buf
    BY Types DEF TypeOK
  <2>3. QED
    BY <1>9, <2>1, <2>2 DEF IInv, HeldAreValid
<1>15. \A c \in Buf : CopyRight(c)'
  <2>1. CopyRight(b)'
    <3>1. k \notin bad => disk[k] = latest[k]
      BY <1>1 DEF IInv, AbsentRight, FindBuffer
    <3>2. io[b].cmd # "WRITE"
      BY <1>2 DEF NoIO
    <3>3. QED
      BY <1>9, <3>1, <3>2 DEF CopyRight
  <2>2. ASSUME NEW c \in Buf, c # b PROVE CopyRight(c)'
    BY <1>9, <2>2 DEF IInv, CopyRight
  <2>3. QED
    BY <2>1, <2>2
<1>16. AbsentRight'
  <2> SUFFICES ASSUME NEW m \in Block \ bad, \A c \in Buf : block'[c] # m
               PROVE  disk[m] = latest[m]
    BY DEF AbsentRight, FindBuffer
  <2>1. CASE block[b] = m
    <3>1. io[b].cmd # "WRITE"
      BY <1>2 DEF NoIO
    <3>2. CopyRight(b)
      BY DEF IInv
    <3>3. QED
      BY <1>1, <2>1, <3>1, <3>2 DEF CopyRight
  <2>2. CASE block[b] # m
    <3>1. \A c \in Buf : block[c] # m
      BY <1>9, <2>2
    <3>2. QED
      BY <3>1 DEF IInv, AbsentRight, FindBuffer
  <2>3. QED
    BY <2>1, <2>2
<1>17. QED
  BY <1>7, <1>8, <1>10, <1>11, <1>12, <1>13, <1>14, <1>15, <1>16 DEF IInv

LEMMA CheckStep ==
  ASSUME IInv, NEW t \in Task, Check(t)
  PROVE  IInv'
<1> DEFINE b == job[t].bh
           k == job[t].blk
<1>1. job[t].at = "check" /\ UNCHANGED <<disk, latest, bad, io, held, ops, version>>
  BY DEF Check
<1>2. job[t] \in Job /\ JobFits(t)
  BY Types, Fits DEF TypeOK
<1>3. b \in Buf /\ k \in Block /\ held[t] = {}
  BY <1>1, <1>2 DEF JobFits
<1>4. CASE SleepOn(t, b) /\ UNCHANGED <<bvars, job>>
  BY <1>1, <1>3, <1>4, Sleeping DEF Queues
<1>5. CASE /\ job' = [job EXCEPT ![t] = [@ EXCEPT !.at = "sync", !.ptr = free_list[1],
                                                  !.left = NR_BUFFERS, !.pass = 2]]
           /\ current' = t /\ UNCHANGED <<bvars, wait>>
  <2> DEFINE j == [job[t] EXCEPT !.at = "sync", !.ptr = free_list[1], !.left = NR_BUFFERS,
                                 !.pass = 2]
  <2>1. j \in Job
    <3>1. 2 \in 0..2 /\ job[t] \in Job /\ free_list[1] \in Buf
      BY <1>2, HeadIsThere
    <3>2. NR_BUFFERS \in 0..NR_BUFFERS /\ "sync" \in Places
      BY SomeBuffers DEF Places
    <3>3. PICK h \in Buf : h = free_list[1]
      BY <3>1
    <3>4. PICK r \in Job : r = job[t]
      BY <3>1
    <3>5. [r EXCEPT !.at = "sync", !.ptr = h, !.left = NR_BUFFERS, !.pass = 2] \in Job
      BY <3>1, <3>2 DEF Job
    <3>6. QED
      BY <3>3, <3>4, <3>5
  <2>2. job' = [job EXCEPT ![t] = j]
    BY <1>5
  <2>3. StepOf(t) /\ job'[t] = j
    BY <2>1, <2>2, ChangeStep
  <2>4. /\ job'[t].at = "sync" /\ job'[t].ptr = free_list[1] /\ job'[t].bh = b
        /\ job'[t].blk = k /\ job'[t].first = job[t].first /\ job'[t].ahead = job[t].ahead
    BY <1>2, <2>3 DEF Job
  <2>5. JobFits(t)'
    BY <1>1, <1>2, <1>5, <2>4, HeadIsThere DEF JobFits, Refers, bvars
  <2>6. \A c \in Buf : RefersTo(t, c)' <=> RefersTo(t, c)
    BY <1>1, <2>4 DEF RefersTo, Refers
  <2>7. TypeOK'
    BY <1>1, <1>5, <2>3, Types DEF TypeOK, StepOf, bvars
  <2>8. FreeListComplete'
    BY <1>5, ListKept DEF bvars
  <2>9. job[t].at \notin Requesting /\ job'[t].at \notin Requesting
    BY <1>1, <2>4 DEF Requesting
  <2>10. QED
    BY <1>1, <1>5, <2>3, <2>5, <2>6, <2>7, <2>8, <2>9, MoveOn DEF bvars
<1>6. CASE Goto(t, "getblk") /\ UNCHANGED bvars
  <2>1. StepOf(t) /\ job'[t] = [job[t] EXCEPT !.at = "getblk"]
    BY <1>6, GotoStep DEF Goto, Places
  <2>2. /\ job'[t].at = "getblk" /\ job'[t].bh = b
        /\ job'[t].blk = k /\ job'[t].first = job[t].first /\ job'[t].ahead = job[t].ahead
    BY <1>2, <2>1 DEF Job
  <2>3. JobFits(t)'
    BY <1>1, <1>2, <1>6, <2>2 DEF JobFits, Refers, bvars
  <2>4. \A c \in Buf : RefersTo(t, c)' <=> RefersTo(t, c)
    BY <1>1, <2>2 DEF RefersTo, Refers
  <2>5. TypeOK'
    BY <1>1, <1>6, <2>1, Types DEF TypeOK, StepOf, Goto, bvars
  <2>6. FreeListComplete'
    BY <1>6, ListKept DEF bvars
  <2>7. job[t].at \notin Requesting /\ job'[t].at \notin Requesting
    BY <1>1, <2>2 DEF Requesting
  <2>8. QED
    BY <1>1, <1>6, <2>1, <2>3, <2>4, <2>5, <2>6, <2>7, MoveOn DEF bvars
<1>7. CASE /\ ~b_lock[b] /\ ~InUse(b) /\ ~MustSync(b) /\ ~Appeared(k)
           /\ b_count' = [b_count EXCEPT ![b] = 1]
           /\ b_dirt' = [b_dirt EXCEPT ![b] = FALSE]
           /\ b_uptodate' = [b_uptodate EXCEPT ![b] = FALSE]
           /\ block' = [block EXCEPT ![b] = k]
           /\ free_list' = MoveToEnd(b)
           /\ Goto(t, "got")
           /\ UNCHANGED <<b_lock, data>>
  BY <1>1, <1>3, <1>7, ClaimStep
<1>8. QED
  BY <1>4, <1>5, <1>6, <1>7 DEF Check

(***************************************************************************)
(* breada's second block, and the end of bread.                            *)
(***************************************************************************)
LEMMA SecondBlockStep ==
  ASSUME IInv, NEW t \in Task, SecondBlock(t)
  PROVE  IInv'
<1>1. /\ job[t].at = "read" /\ job[t].ahead # NoBlock
      /\ job' = [job EXCEPT ![t] = [@ EXCEPT !.at = "getblk", !.blk = job[t].ahead,
                                             !.first = job[t].bh, !.ahead = NoBlock]]
      /\ current' = t
      /\ UNCHANGED <<bvars, disk, latest, bad, io, wait, held, ops, version>>
  BY DEF SecondBlock
<1>2. job[t] \in Job /\ JobFits(t)
  BY Types, Fits DEF TypeOK
<1>3. PICK r \in Job : r = job[t]
  BY <1>2
<1> DEFINE j == [r EXCEPT !.at = "getblk", !.blk = r.ahead, !.first = r.bh, !.ahead = NoBlock]
<1>4. j \in Job
  BY DEF Job, Places
<1>5. job' = [job EXCEPT ![t] = j]
  BY <1>1, <1>3
<1>6. StepOf(t) /\ job'[t] = j
  BY <1>4, <1>5, ChangeStep
<1>7. /\ job'[t].at = "getblk" /\ job'[t].blk = r.ahead /\ job'[t].first = r.bh
      /\ job'[t].ahead = NoBlock /\ job'[t].bh = r.bh
  BY <1>6 DEF Job
<1> HIDE DEF j
<1>8. TypeOK'
  BY <1>1, <1>6, Types DEF TypeOK, StepOf, bvars
<1>9. r.bh \in Buf /\ r.first = NoBuf /\ block[r.bh] = r.blk /\ r.blk \in Block
      /\ r.ahead \in Block /\ r.blk # r.ahead /\ held[t] = {}
  <2>1. r.ahead \in Block \cup {NoBlock}
    BY DEF Job
  <2>2. QED
    BY <1>1, <1>2, <1>3, <2>1 DEF JobFits, Refers
<1>10. JobFits(t)'
  BY <1>1, <1>7, <1>9 DEF JobFits, Refers, bvars
<1>11. \A c \in Buf : RefersTo(t, c)' <=> RefersTo(t, c)
  BY <1>1, <1>3, <1>7, <1>9, NoIsNone DEF RefersTo, Refers
<1>12. FreeListComplete'
  BY <1>1, ListKept DEF bvars
<1>13. job[t].at \notin Requesting /\ job'[t].at \notin Requesting
  BY <1>1, <1>7 DEF Requesting
<1>14. QED
  BY <1>1, <1>6, <1>8, <1>10, <1>11, <1>12, <1>13, MoveOn DEF bvars

LEMMA ReadAheadStep ==
  ASSUME IInv, NEW t \in Task, ReadAhead(t)
  PROVE  IInv'
<1>1. job[t] \in Job /\ JobFits(t)
  BY Types, Fits DEF TypeOK
<1>2. PICK r \in Job : r = job[t]
  BY <1>1
<1> DEFINE j == [r EXCEPT !.at = "read", !.bh = r.first, !.first = NoBuf]
<1>3. /\ r.at = "got" /\ r.first # NoBuf
      /\ b_count' = [b_count EXCEPT ![r.bh] = @ - 1]
      /\ job' = [job EXCEPT ![t] = j] /\ current' = t
      /\ UNCHANGED <<block, b_uptodate, free_list, data, disk, latest, bad, wait, held, ops,
                     version>>
      /\ \/ ~b_lock[r.first] /\ ~b_uptodate[r.first] /\ Submit(r.first, "READ")
         \/ UNCHANGED <<b_lock, b_dirt, io>>
  BY <1>2 DEF ReadAhead
<1>4. PICK b \in Buf : b = r.first
  BY <1>3 DEF Job
<1>5. /\ r.bh \in Buf /\ held[t] = {} /\ block[r.bh] = r.blk /\ r.blk \in Block
      /\ block[b] \in Block /\ b # r.bh /\ r.ahead = NoBlock
  BY <1>1, <1>2, <1>3, <1>4 DEF JobFits, Refers
<1>6. j \in Job
  BY DEF Job, Places
<1>7. StepOf(t) /\ job'[t] = j
  BY <1>3, <1>6, ChangeStep
<1>8. /\ job'[t].at = "read" /\ job'[t].bh = b /\ job'[t].first = NoBuf
      /\ job'[t].ahead = NoBlock /\ job'[t].blk = r.blk
  BY <1>4, <1>5, <1>7 DEF Job
<1> HIDE DEF j
<1>9. \A u \in Task : JobFits(u)'
  <2>1. JobFits(t)'
    BY <1>3, <1>5, <1>8 DEF JobFits, Refers
  <2>2. QED
    BY <1>3, <1>7, <2>1, OthersFit
<1>10. CountIsReferences'
  <2>1. RefersTo(t, r.bh)
    BY <1>2, <1>3 DEF RefersTo, Refers
  <2>2. ~RefersTo(t, r.bh)'
    BY <1>3, <1>5, <1>8, NoIsNone DEF RefersTo
  <2>3. ASSUME NEW c \in Buf, c # r.bh
        PROVE  RefersTo(t, c)' <=> RefersTo(t, c)
    <3>1. RefersTo(t, c)' <=> c = b
      BY <1>3, <1>5, <1>8, NoIsNone DEF RefersTo, Refers
    <3>2. RefersTo(t, c) <=> c = b
      BY <1>2, <1>4, <1>5, <2>3 DEF RefersTo
    <3>3. QED
      BY <3>1, <3>2
  <2>4. \A u \in Task, c \in Buf : (u # t \/ c # r.bh) => (RefersTo(u, c)' <=> RefersTo(u, c))
    BY <1>3, <1>7, <2>3, OthersRefer
  <2>5. PICK tmp \in Buf : tmp = r.bh
    BY <1>5
  <2>6. QED
    BY <1>3, <2>1, <2>2, <2>4, <2>5, CountDown
<1>11. b_count' \in [Buf -> Nat]
  <2>1. b_count[r.bh] > 0
    BY <1>2, <1>3, <1>5, Referred DEF RefersTo, Refers
  <2>2. QED
    BY <1>3, <1>5, <2>1, Types DEF TypeOK
<1>12. HeldAreValid' /\ FreeListComplete'
  BY <1>3, HeldKept, ListKept
<1>13. CASE ~b_lock[b] /\ ~b_uptodate[b] /\ Submit(b, "READ")
  <2>1. /\ b_lock' = [c \in Buf |-> b_lock[c] \/ c \in {b}]
        /\ b_dirt' = [c \in Buf |-> b_dirt[c] /\ c \notin {b}]
        /\ io' = [c \in Buf |-> IF c \in {b} THEN [cmd |-> "READ", from |-> data[c]] ELSE io[c]]
    BY <1>13, Types, SubmitIsSet
  <2>2. TypeOK'
    <3>1. /\ b_lock' \in [Buf -> BOOLEAN] /\ b_dirt' \in [Buf -> BOOLEAN]
          /\ io' \in [Buf -> {NoIO} \cup [cmd : {"READ", "WRITE"}, from : 0..MaxWrites]]
      BY <2>1, Types, SubmittedTypes
    <3>2. QED
      BY <1>3, <1>7, <1>11, <3>1, Types DEF TypeOK, StepOf
  <2>3. io[b] = NoIO /\ \A u \in Task : ~Locker(u, b)
    BY <1>13, Unlocked
  <2>4. \A u \in Task, c \in Buf : /\ Locker(u, c)' <=> Locker(u, c) /\ c \notin {b}
                                   /\ Locker(u, c)' => job'[u].at = job[u].at
    <3>1. \A u \in Task, c \in Buf : Locker(u, c)' <=> Locker(u, c)
      BY <1>2, <1>3, <1>7, <1>8 DEF Locker, StepOf
    <3>2. \A u \in Task, c \in Buf : Locker(u, c) => job'[u] = job[u]
      BY <1>2, <1>3, <1>7 DEF Locker, StepOf
    <3>3. QED
      BY <2>3, <3>1, <3>2
  <2>5. OneBufferPerBlock' /\ Locks' /\ (\A c \in Buf : CopyRight(c)') /\ AbsentRight'
    <3>1. /\ {b} \in SUBSET Buf
          /\ \A c \in {b} : io[c] = NoIO /\ block[c] \in Block /\ ~b_uptodate[c]
      BY <1>5, <1>13, <2>3
    <3>2. QED
      BY <1>3, <2>1, <2>4, <3>1, Submitted
  <2>6. QED
    BY <1>9, <1>10, <1>12, <2>2, <2>5 DEF IInv
<1>14. CASE UNCHANGED <<b_lock, b_dirt, io>>
  <2>1. TypeOK'
    BY <1>3, <1>7, <1>11, <1>14, Types DEF TypeOK, StepOf
  <2>2. OneBufferPerBlock' /\ Locks' /\ (\A c \in Buf : CopyRight(c)') /\ AbsentRight'
    BY <1>2, <1>3, <1>7, <1>8, <1>14, QuietStep DEF Requesting
  <2>3. QED
    BY <1>9, <1>10, <1>12, <2>1, <2>2 DEF IInv
<1>15. QED
  BY <1>3, <1>4, <1>13, <1>14

(* A reference is given up: brelse, and bread of a block that cannot be read. *)
LEMMA Released ==
  ASSUME IInv, NEW t \in Task, NEW b \in Buf, StepOf(t),
         b_count' = [b_count EXCEPT ![b] = @ - 1], WakeUp("buffer_wait"),
         current' \in Task \cup {NoTask}, held' \in [Task -> SUBSET Buf],
         \A u \in Task : held'[u] \subseteq held[u],
         \A u \in Task \ {t} : held'[u] = held[u],
         UNCHANGED <<block, b_lock, b_dirt, b_uptodate, free_list, data, disk, latest, bad, io, ops,
                     version>>,
         job[t].at \notin Requesting, job'[t] = Idle,
         RefersTo(t, b), ~RefersTo(t, b)',
         \A c \in Buf \ {b} : RefersTo(t, c)' <=> RefersTo(t, c)
  PROVE  IInv'
<1>1. b_count[b] > 0
  BY Referred
<1>2. TypeOK'
  <2>1. b_count' \in [Buf -> Nat]
    BY <1>1, Types DEF TypeOK
  <2>2. wait' \in [Task -> Buf \cup {Awake, "buffer_wait", "wait_for_request"}]
    BY Types DEF TypeOK, WakeUp
  <2>3. QED
    BY <2>1, <2>2, Types DEF TypeOK, StepOf
<1>3. OneBufferPerBlock' /\ Locks' /\ (\A c \in Buf : CopyRight(c)') /\ AbsentRight'
  <2>1. job'[t].at \notin Requesting
    BY DEF Idle, Requesting
  <2>2. QED
    BY <2>1, QuietStep
<1>4. \A u \in Task : JobFits(u)'
  <2>1. JobFits(t)'
    BY DEF JobFits, Idle, Refers
  <2>2. QED
    BY <2>1, OthersFit
<1>5. CountIsReferences'
  <2>1. \A u \in Task, c \in Buf : (u # t \/ c # b) => (RefersTo(u, c)' <=> RefersTo(u, c))
    BY OthersRefer
  <2>2. QED
    BY <2>1, CountDown
<1>6. HeldAreValid'
  BY DEF IInv, HeldAreValid
<1>7. FreeListComplete'
  BY ListKept
<1>8. QED
  BY <1>2, <1>3, <1>4, <1>5, <1>6, <1>7 DEF IInv

LEMMA ReadDoneStep ==
  ASSUME IInv, NEW t \in Task, ReadDone(t)
  PROVE  IInv'
<1>1. /\ job[t].at = "read" /\ job[t].ahead = NoBlock
      /\ UNCHANGED <<block, b_lock, b_dirt, b_uptodate, free_list, data, disk, latest, bad, io, ops,
                     version>>
  BY DEF ReadDone
<1>2. JobFits(t)
  BY Fits
<1>3. PICK b \in Buf : b = job[t].bh
  BY <1>1, <1>2 DEF JobFits, Refers
<1>4. held[t] = {} /\ job[t].first = NoBuf
  BY <1>1, <1>2 DEF JobFits
<1>5. CASE SleepOn(t, b) /\ UNCHANGED <<job, held, b_count>>
  BY <1>1, <1>5, Sleeping DEF Queues, bvars
<1>6. CASE /\ b_uptodate[b] /\ Return(t) /\ held' = [held EXCEPT ![t] = @ \cup {b}]
           /\ UNCHANGED <<b_count, wait>>
  BY <1>1, <1>3, <1>4, <1>6, ReturnsBuffer DEF bvars
<1>7. CASE /\ Return(t) /\ b_count' = [b_count EXCEPT ![b] = @ - 1]
           /\ WakeUp("buffer_wait") /\ UNCHANGED held
  <2>1. StepOf(t) /\ job'[t] = Idle /\ current' \in Task \cup {NoTask}
    BY <1>7, IdleIsJob, ChangeStep DEF Return
  <2>2. RefersTo(t, b) /\ ~RefersTo(t, b)'
    BY <1>1, <1>3, <1>4, <1>7, <2>1, NoIsNone DEF RefersTo, Refers, Idle
  <2>3. \A c \in Buf \ {b} : RefersTo(t, c)' <=> RefersTo(t, c)
    BY <1>1, <1>3, <1>4, <1>7, <2>1, NoIsNone DEF RefersTo, Refers, Idle
  <2>4. held' \in [Task -> SUBSET Buf] /\ job[t].at \notin Requesting
    BY <1>1, <1>7, Types DEF TypeOK, Requesting
  <2>5. QED
    BY <1>1, <1>7, <2>1, <2>2, <2>3, <2>4, Released
<1>8. QED
  BY <1>3, <1>5, <1>6, <1>7 DEF ReadDone

(***************************************************************************)
(* What a task does with a buffer.                                         *)
(***************************************************************************)
LEMMA BrelseStep ==
  ASSUME IInv, NEW t \in Task, NEW b \in Buf, Brelse(t, b)
  PROVE  IInv'
<1>1. /\ job[t] = Idle /\ b \in held[t]
      /\ UNCHANGED <<block, b_lock, b_dirt, b_uptodate, free_list, data, disk, latest, bad, io, job,
                     ops, version>>
  BY DEF Brelse
<1>2. CASE SleepOn(t, b) /\ UNCHANGED <<b_count, held>>
  BY <1>1, <1>2, Sleeping DEF Queues, bvars
<1>3. CASE /\ b_count' = [b_count EXCEPT ![b] = @ - 1] /\ held' = [held EXCEPT ![t] = @ \ {b}]
           /\ WakeUp("buffer_wait") /\ UNCHANGED current
  <2>1. /\ StepOf(t) /\ job'[t] = Idle /\ current' \in Task \cup {NoTask}
        /\ held \in [Task -> SUBSET Buf]
    BY <1>1, <1>3, Types DEF TypeOK, StepOf
  <2>2. held'[t] = held[t] \ {b} /\ \A u \in Task \ {t} : held'[u] = held[u]
    BY <1>3, <2>1
  <2>3. held' \in [Task -> SUBSET Buf] /\ job[t].at \notin Requesting
    BY <1>1, <1>3, <2>1 DEF Idle, Requesting
  <2>4. RefersTo(t, b) /\ ~RefersTo(t, b)'
    BY <1>1, <2>1, <2>2, NoIsNone DEF RefersTo, Refers, Idle
  <2>5. \A c \in Buf \ {b} : RefersTo(t, c)' <=> RefersTo(t, c)
    BY <1>1, <2>1, <2>2 DEF RefersTo
  <2>6. \A u \in Task : held'[u] \subseteq held[u]
    BY <2>2
  <2>7. QED
    BY <1>1, <1>3, <2>1, <2>2, <2>3, <2>4, <2>5, <2>6, Released
<1>4. QED
  BY <1>2, <1>3 DEF Brelse

LEMMA ModifyStep ==
  ASSUME IInv, NEW t \in Task, NEW b \in Buf, Modify(t, b)
  PROVE  IInv'
<1>1. /\ b \in held[t] /\ version < MaxWrites /\ version' = version + 1
      /\ data' = [data EXCEPT ![b] = version']
      /\ latest' = [latest EXCEPT ![block[b]] = version']
      /\ b_dirt' = [b_dirt EXCEPT ![b] = TRUE]
      /\ UNCHANGED <<block, b_count, b_lock, b_uptodate, free_list, disk, bad, io, current, wait,
                     job, held, ops>>
  BY DEF Modify
<1>2. block[b] \in Block /\ (b_uptodate[b] \/ block[b] \in bad)
  BY <1>1 DEF IInv, HeldAreValid
<1>3. version' \in 0..MaxWrites
  BY <1>1, Types, CacheAssumption DEF TypeOK
<1>4. TypeOK'
  BY <1>1, <1>3, Types DEF TypeOK
<1>5. /\ data'[b] = version' /\ latest'[block[b]] = version' /\ b_dirt'[b]
      /\ \A c \in Buf \ {b} : data'[c] = data[c] /\ (b_dirt'[c] <=> b_dirt[c])
      /\ \A k \in Block \ {block[b]} : latest'[k] = latest[k]
  BY <1>1, <1>2, Types DEF TypeOK
<1>6. OneBufferPerBlock' /\ FreeListComplete'
  BY <1>1 DEF IInv, OneBufferPerBlock, FreeListComplete
<1>7. CountIsReferences'
  BY <1>1, CountSame DEF RefersTo
<1>8. \A u \in Task : JobFits(u)'
  BY <1>1 DEF IInv, JobFits
<1>9. Locks'
  <2>1. \A u \in Task, c \in Buf : Locker(u, c)' <=> Locker(u, c)
    BY <1>1 DEF Locker
  <2>2. \A c \in Buf : b_dirt[c] => b_dirt'[c]
    BY <1>5
  <2>3. \A c \in Buf : b_dirt'[c] => block[c] \in Block
    BY <1>2, <1>5, DirtyHasBlock
  <2>4. QED
    BY <1>1, <2>1, <2>2, <2>3 DEF IInv, Locks
<1>10. HeldAreValid'
  BY <1>1, HeldKept
<1>11. \A c \in Buf : CopyRight(c)'
  <2>1. CopyRight(b)'
    BY <1>1, <1>2, <1>5 DEF CopyRight
  <2>2. ASSUME NEW c \in Buf, c # b PROVE CopyRight(c)'
    <3>1. block[c] \in Block => block[c] # block[b]
      BY <2>2, NoIsNone DEF IInv, OneBufferPerBlock
    <3>2. CopyRight(c)
      BY DEF IInv
    <3>3. QED
      BY <1>1, <1>5, <2>2, <3>1, <3>2 DEF CopyRight
  <2>3. QED
    BY <2>1, <2>2
<1>12. AbsentRight'
  BY <1>1, <1>5 DEF IInv, AbsentRight, FindBuffer
<1>13. QED
  BY <1>4, <1>6, <1>7, <1>8, <1>9, <1>10, <1>11, <1>12 DEF IInv

(***************************************************************************)
(* The walk of sync_buffers.                                               *)
(***************************************************************************)
LEMMA SyncStep ==
  ASSUME IInv, NEW t \in Task, Sync(t)
  PROVE  IInv'
<1> DEFINE j == [Idle EXCEPT !.at = "sync", !.ptr = free_list[1], !.left = NR_BUFFERS, !.pass = 1]
<1>1. /\ job[t] = Idle /\ ops < MaxOps /\ job' = [job EXCEPT ![t] = j]
      /\ current' = t /\ ops' = ops + 1
      /\ UNCHANGED <<bvars, disk, latest, bad, io, wait, held, version>>
  BY DEF Sync
<1>2. free_list[1] \in Buf /\ NR_BUFFERS \in 0..NR_BUFFERS
  BY HeadIsThere, SomeBuffers
<1>3. j \in Job
  <2>1. PICK r \in Job : r = Idle
    BY IdleIsJob
  <2>2. "sync" \in Places /\ 1 \in 0..2
    BY DEF Places
  <2>3. [r EXCEPT !.at = "sync", !.ptr = free_list[1], !.left = NR_BUFFERS, !.pass = 1] \in Job
    BY <1>2, <2>2 DEF Job
  <2>4. QED
    BY <2>1, <2>3
<1>4. StepOf(t) /\ job'[t] = j
  BY <1>1, <1>3, ChangeStep
<1>5. /\ job'[t].at = "sync" /\ job'[t].ptr = free_list[1] /\ job'[t].bh = NoBuf
      /\ job'[t].first = NoBuf /\ job'[t].ahead = NoBlock
  BY <1>4 DEF Idle
<1> HIDE DEF j
<1>6. TypeOK'
  BY <1>1, <1>4, Types, CacheAssumption DEF TypeOK, StepOf, bvars
<1>7. JobFits(t)'
  BY <1>2, <1>5 DEF JobFits, Refers
<1>8. \A c \in Buf : RefersTo(t, c)' <=> RefersTo(t, c)
  BY <1>1, <1>5, NoIsNone DEF RefersTo, Idle
<1>9. FreeListComplete'
  BY <1>1, ListKept DEF bvars
<1>10. job[t].at \notin Requesting /\ job'[t].at \notin Requesting
  BY <1>1, <1>5 DEF Idle, Requesting
<1>11. QED
  BY <1>1, <1>4, <1>6, <1>7, <1>8, <1>9, <1>10, MoveOn DEF bvars

(* A step of the walk, in which the task's place and pointer change. *)
LEMMA Walks ==
  ASSUME IInv, NEW t \in Task, NEW j \in Job, job' = [job EXCEPT ![t] = j],
         UNCHANGED <<bvars, disk, latest, bad, io, wait, held, ops, version>>,
         current' \in Task \cup {NoTask}, job[t].at \in {"sync", "sync_next"},
         (j.at = "sync" /\ j.ptr \in Buf) \/ (j.at = "check" /\ j.bh # NoBuf),
         j.bh = job[t].bh, j.blk = job[t].blk,
         j.first = job[t].first, j.ahead = job[t].ahead
  PROVE  IInv'
<1>1. StepOf(t) /\ job'[t] = j
  BY ChangeStep
<1>2. TypeOK'
  BY <1>1, Types DEF TypeOK, StepOf, bvars
<1>3. j.at \in {"sync", "check"} /\ JobFits(t)
  BY Fits
<1>4. JobFits(t)'
  <2>1. j.bh \in Buf \cup {NoBuf}
    BY DEF Job
  <2>2. QED
    BY <1>1, <1>3, <2>1 DEF JobFits, Refers, bvars
<1>5. \A c \in Buf : RefersTo(t, c)' <=> RefersTo(t, c)
  BY <1>1, <1>3 DEF RefersTo, Refers
<1>6. FreeListComplete'
  BY ListKept DEF bvars
<1>7. job[t].at \notin Requesting /\ job'[t].at \notin Requesting
  BY <1>1, <1>3 DEF Requesting
<1>8. QED
  BY <1>1, <1>2, <1>4, <1>5, <1>6, <1>7, MoveOn DEF bvars

LEMMA SyncNextStep ==
  ASSUME IInv, NEW t \in Task, SyncNext(t)
  PROVE  IInv'
<1>1. job[t] \in Job /\ JobFits(t)
  BY Types, Fits DEF TypeOK
<1>2. PICK r \in Job : r = job[t]
  BY <1>1
<1>3. r.at = "sync_next" /\ r.left > 0 /\ r.ptr \in Buf
  BY <1>1, <1>2 DEF JobFits, SyncNext
<1>4. PICK n \in Buf : n = NextFree(r.ptr)
  BY <1>3, NextIsThere
<1> DEFINE j == [r EXCEPT !.at = "sync", !.ptr = n, !.left = r.left - 1]
<1>5. /\ job' = [job EXCEPT ![t] = j] /\ current' = t
      /\ UNCHANGED <<bvars, disk, latest, bad, io, wait, held, ops, version>>
  <2>1. job' = [job EXCEPT ![t] = [job[t] EXCEPT !.at = "sync", !.ptr = NextFree(job[t].ptr),
                                                 !.left = job[t].left - 1]]
    BY DEF SyncNext
  <2>2. QED
    BY <1>2, <1>4, <2>1 DEF SyncNext
<1>6. j \in Job
  <2>1. r.left - 1 \in 0..NR_BUFFERS
    BY <1>3, SomeBuffers DEF Job
  <2>2. QED
    BY <2>1 DEF Job, Places
<1>7. /\ j.at = "sync" /\ j.ptr = n /\ j.bh = r.bh /\ j.blk = r.blk /\ j.first = r.first
      /\ j.ahead = r.ahead
  BY DEF Job
<1> HIDE DEF j
<1>8. QED
  BY <1>2, <1>3, <1>5, <1>6, <1>7, Walks

LEMMA SyncDoneStep ==
  ASSUME IInv, NEW t \in Task, SyncDone(t)
  PROVE  IInv'
<1>1. job[t] \in Job /\ JobFits(t)
  BY Types, Fits DEF TypeOK
<1>2. PICK r \in Job : r = job[t]
  BY <1>1
<1>3. /\ r.at = "sync"
      /\ UNCHANGED <<bvars, disk, latest, bad, io, wait, held, ops, version>>
  BY <1>2 DEF SyncDone
<1>4. PICK h \in Buf : h = free_list[1]
  BY HeadIsThere
<1>5. CASE /\ job' = [job EXCEPT ![t] = [@ EXCEPT !.ptr = free_list[1], !.left = NR_BUFFERS,
                                                  !.pass = 1]]
           /\ current' = t
  <2> DEFINE j == [r EXCEPT !.ptr = h, !.left = NR_BUFFERS, !.pass = 1]
  <2>1. job' = [job EXCEPT ![t] = j]
    BY <1>2, <1>4, <1>5
  <2>2. NR_BUFFERS \in 0..NR_BUFFERS /\ 1 \in 0..2
    BY SomeBuffers
  <2>3. j \in Job
    BY <2>2 DEF Job
  <2>4. /\ j.at = "sync" /\ j.ptr = h /\ j.bh = r.bh /\ j.blk = r.blk /\ j.first = r.first
        /\ j.ahead = r.ahead
    BY <1>3 DEF Job
  <2> HIDE DEF j
  <2>5. QED
    BY <1>2, <1>3, <1>5, <2>1, <2>3, <2>4, Walks
<1>6. CASE job[t].bh = NoBuf /\ Return(t)
  <2>1. job' = [job EXCEPT ![t] = Idle] /\ current' \in Task \cup {NoTask}
    BY <1>6 DEF Return
  <2>2. Idle \in Job /\ Idle.bh = job[t].bh
    BY <1>6, IdleIsJob DEF Idle
  <2>3. TypeOK'
    BY <1>3, <2>1, <2>2, Types DEF TypeOK, bvars
  <2>4. StepOf(t) /\ job'[t] = Idle
    BY <2>1, <2>2, ChangeStep
  <2>5. JobFits(t)'
    BY <2>4 DEF JobFits, Idle, Refers
  <2>6. FreeListComplete'
    BY <1>3, ListKept DEF bvars
  <2>7. job[t].at \notin Requesting /\ job'[t].at \notin Requesting
    BY <1>2, <1>3, <2>4 DEF Requesting, Idle
  <2>8. job[t].first = NoBuf
    BY <1>1, <1>6 DEF JobFits
  <2>9. \A c \in Buf : RefersTo(t, c)' <=> RefersTo(t, c)
    BY <1>2, <1>3, <2>4, <2>8, NoIsNone DEF RefersTo, Idle, Refers
  <2>10. QED
    BY <1>3, <2>3, <2>4, <2>5, <2>6, <2>7, <2>9, MoveOn DEF bvars
<1>7. CASE /\ job[t].bh # NoBuf
           /\ job' = [job EXCEPT ![t] = [@ EXCEPT !.at = "check", !.ptr = NoBuf, !.pass = 0]]
           /\ current' = t
  <2> DEFINE j == [r EXCEPT !.at = "check", !.ptr = NoBuf, !.pass = 0]
  <2>1. job' = [job EXCEPT ![t] = j]
    BY <1>2, <1>7
  <2>2. j \in Job
    <3>1. "check" \in Places /\ 0 \in 0..2
      BY DEF Places
    <3>2. QED
      BY <3>1 DEF Job
  <2>3. /\ j.at = "check" /\ j.bh = r.bh /\ j.blk = r.blk /\ j.first = r.first
        /\ j.ahead = r.ahead
    BY <1>3 DEF Job
  <2> HIDE DEF j
  <2>4. QED
    BY <1>2, <1>3, <1>7, <2>1, <2>2, <2>3, Walks
<1>8. QED
  BY <1>5, <1>6, <1>7 DEF SyncDone

(***************************************************************************)
(* The interrupt.                                                          *)
(***************************************************************************)
LEMMA EndRequestStep ==
  ASSUME IInv, NEW b \in Buf, NEW ok \in BOOLEAN, EndRequest(b, ok)
  PROVE  IInv'
<1>1. /\ io[b] # NoIO
      /\ io' = [io EXCEPT ![b] = NoIO] /\ b_lock' = [b_lock EXCEPT ![b] = FALSE]
      /\ b_uptodate' = [b_uptodate EXCEPT ![b] = ok]
      /\ wait' = [t \in Task |-> IF wait[t] \in EndWakes(b) THEN Awake ELSE wait[t]]
      /\ UNCHANGED <<block, b_count, b_dirt, free_list, latest, current, job, held, ops, version>>
  BY DEF EndRequest, Under
<1>2. PICK k \in Block : k = block[b]
  BY <1>1 DEF IInv, Locks
<1>3. \A c \in Buf \ {b} : block[c] # k
  BY <1>2, NoIsNone DEF IInv, OneBufferPerBlock
<1>4. \A u \in Task : ~Locker(u, b)
  BY <1>1 DEF IInv, Locks
<1>5. /\ io'[b] = NoIO /\ ~b_lock'[b] /\ (b_uptodate'[b] <=> ok)
      /\ \A c \in Buf \ {b} : /\ io'[c] = io[c]
                              /\ b_lock'[c] <=> b_lock[c]
                              /\ b_uptodate'[c] <=> b_uptodate[c]
  BY <1>1, Types DEF TypeOK
<1>6. io'[b].cmd = "none"
  BY <1>5 DEF NoIO
<1>7. \/ /\ io[b].cmd = "READ" /\ UNCHANGED <<disk, bad>>
         /\ data' = IF ok THEN [data EXCEPT ![b] = disk[k]] ELSE data
      \/ /\ io[b].cmd = "WRITE" /\ ok /\ UNCHANGED <<data, bad>>
         /\ \E v \in {io[b].from, data[b]} : disk' = [disk EXCEPT ![k] = v]
      \/ /\ io[b].cmd = "WRITE" /\ ~ok /\ UNCHANGED <<data, disk>> /\ bad' = bad \cup {k}
  BY <1>2 DEF EndRequest
<1>8. io[b].from \in 0..MaxWrites
  BY <1>1, Types DEF TypeOK
<1>9. TypeOK'
  <2>1. data' \in [Buf -> 0..MaxWrites]
    BY <1>7, Types DEF TypeOK
  <2>2. disk' \in [Block -> 0..MaxWrites]
    BY <1>7, <1>8, Types DEF TypeOK
  <2>3. bad' \subseteq Block
    BY <1>7, Types DEF TypeOK
  <2>4. /\ io' \in [Buf -> {NoIO} \cup [cmd : {"READ", "WRITE"}, from : 0..MaxWrites]]
        /\ b_lock' \in [Buf -> BOOLEAN] /\ b_uptodate' \in [Buf -> BOOLEAN]
    BY <1>1, Types DEF TypeOK
  <2>5. wait' \in [Task -> Buf \cup {Awake, "buffer_wait", "wait_for_request"}]
    BY <1>1, Types DEF TypeOK
  <2>6. QED
    BY <1>1, <2>1, <2>2, <2>3, <2>4, <2>5, Types DEF TypeOK
<1>10. OneBufferPerBlock' /\ FreeListComplete'
  BY <1>1 DEF IInv, OneBufferPerBlock, FreeListComplete
<1>11. CountIsReferences'
  BY <1>1, CountSame DEF RefersTo
<1>12. \A t \in Task : JobFits(t)'
  BY <1>1 DEF IInv, JobFits
<1>13. Locks'
  <2>1. \A u \in Task, c \in Buf : Locker(u, c)' <=> Locker(u, c)
    BY <1>1 DEF Locker
  <2> SUFFICES ASSUME NEW c \in Buf
               PROVE  (/\ b_lock[c] <=> io[c] # NoIO \/ \E t \in Task : Locker(t, c)
                       /\ \A t, u \in Task : Locker(t, c) /\ Locker(u, c) => t = u
                       /\ \A t \in Task :
                            Locker(t, c) => /\ io[c] = NoIO
                                            /\ job[t].at = "read_request" => ~b_uptodate[c]
                                            /\ job[t].at = "sync_request" => b_dirt[c]
                       /\ io[c] # NoIO \/ b_dirt[c] => block[c] \in Block
                       /\ io[c].cmd = "READ" => ~b_uptodate[c])'
    BY DEF Locks
  <2>2. CASE c = b
    BY <1>1, <1>2, <1>4, <1>5, <1>6, <2>1, <2>2
  <2>3. CASE c # b
    BY <1>1, <1>5, <2>1, <2>3 DEF IInv, Locks
  <2>4. QED
    BY <2>2, <2>3
<1>14. io[b].cmd = "READ" => ~b_uptodate[b]
  BY DEF IInv, Locks
<1>15. bad \subseteq bad' /\ bad' \subseteq bad \cup {k}
  BY <1>7
<1>16. HeldAreValid'
  <2> SUFFICES ASSUME NEW t \in Task, NEW c \in held[t]
               PROVE  block[c] \in Block /\ (b_uptodate'[c] \/ block[c] \in bad')
    BY <1>1 DEF HeldAreValid
  <2>1. c \in Buf /\ block[c] \in Block /\ (b_uptodate[c] \/ block[c] \in bad)
    BY Types DEF IInv, HeldAreValid, TypeOK
  <2>2. CASE c = b
    BY <1>2, <1>5, <1>7, <1>14, <2>1, <2>2
  <2>3. CASE c # b
    BY <1>5, <1>15, <2>1, <2>3
  <2>4. QED
    BY <2>2, <2>3
<1>17. /\ \A c \in Buf \ {b} : data'[c] = data[c]
       /\ \A m \in Block \ {k} : disk'[m] = disk[m]
  BY <1>7, Types DEF TypeOK
<1>18. ASSUME NEW c \in Buf PROVE CopyRight(c)'
  <2>1. CopyRight(c)
    BY DEF IInv
  <2>2. CASE c # b
    BY <1>1, <1>3, <1>5, <1>15, <1>17, <2>1, <2>2 DEF CopyRight
  <2>3. CASE c = b /\ k \notin bad'
    <3>1. k \in Block \ bad
      BY <1>15, <2>3
    <3>2. CASE io[b].cmd = "READ"
      <4>1. ~b_uptodate[b] /\ ~b_dirt[b] /\ disk[k] = latest[k] /\ UNCHANGED disk
        BY <1>2, <1>7, <1>14, <2>1, <2>3, <3>1, <3>2 DEF CopyRight
      <4>2. ok => data'[b] = disk[k]
        BY <1>7, <3>2, Types DEF TypeOK
      <4>3. QED
        BY <1>1, <1>2, <1>5, <1>6, <2>3, <4>1, <4>2 DEF CopyRight
    <3>3. CASE io[b].cmd = "WRITE"
      <4>1. PICK v \in {io[b].from, data[b]} : ok /\ UNCHANGED data /\ disk' = [disk EXCEPT ![k] = v]
        BY <1>2, <1>7, <2>3, <3>3
      <4>2. b_uptodate[b] /\ data[b] = latest[k] /\ (b_dirt[b] \/ io[b].from = data[b])
        BY <1>2, <2>1, <2>3, <3>1, <3>3 DEF CopyRight
      <4>3. disk'[k] = v
        BY <4>1, Types DEF TypeOK
      <4>4. QED
        BY <1>1, <1>2, <1>5, <1>6, <2>3, <4>1, <4>2, <4>3 DEF CopyRight
    <3>4. QED
      BY <1>7, <3>2, <3>3
  <2>4. CASE c = b /\ k \in bad'
    BY <1>1, <1>2, <2>4 DEF CopyRight
  <2>5. QED
    BY <2>2, <2>3, <2>4
<1>19. AbsentRight'
  <2> SUFFICES ASSUME NEW m \in Block \ bad', \A c \in Buf : block[c] # m
               PROVE  disk'[m] = latest[m]
    BY <1>1 DEF AbsentRight, FindBuffer
  <2>1. m # k /\ m \notin bad /\ disk[m] = latest[m]
    BY <1>2, <1>15 DEF IInv, AbsentRight, FindBuffer
  <2>2. QED
    BY <1>17, <2>1
<1>20. QED
  BY <1>9, <1>10, <1>11, <1>12, <1>13, <1>16, <1>18, <1>19 DEF IInv

(***************************************************************************)
(* The initial state.                                                      *)
(***************************************************************************)
(* A list of NR_BUFFERS different buffers has all of them. *)
LEMMA InitialList ==
  ASSUME Init PROVE ListHasAll
<1>1. PICK n \in Nat : n = NR_BUFFERS
  BY SomeBuffers
<1>2. /\ free_list \in [1..n -> Buf]
      /\ \A i, j \in 1..n : i # j => free_list[i] # free_list[j]
  BY <1>1 DEF Init
<1> DEFINE S == {free_list[i] : i \in 1..n}
<1>3. IsFiniteSet(1..n) /\ Cardinality(1..n) = n
  BY FS_Interval
<1>4. free_list \in Bijection(1..n, S)
  BY <1>2 DEF Bijection, Injection, Surjection, IsInjective
<1>5. Cardinality(S) = n
  <2>1. ExistsBijection(1..n, S)
    BY <1>4 DEF ExistsBijection
  <2> HIDE DEF S
  <2>2. QED
    BY <1>3, <2>1, FS_Bijection
<1>6. S \subseteq Buf
  BY <1>2
<1>7. S = Buf
  BY <1>1, <1>5, <1>6, CacheAssumption, FS_Subset DEF NR_BUFFERS
<1>8. QED
  BY <1>1, <1>7 DEF ListHasAll

LEMMA InitIInv == Init => IInv
<1> SUFFICES ASSUME Init PROVE IInv
  OBVIOUS
<1>1. Idle \in Job /\ 0 \in 0..MaxWrites /\ 0 \in 0..MaxOps
  BY IdleIsJob, CacheAssumption
<1>2. TypeOK
  BY <1>1 DEF Init, TypeOK
<1>3. FreeListComplete
  BY <1>2, InitialList, FreeList
<1>4. OneBufferPerBlock
  BY DEF Init, OneBufferPerBlock
<1>5. CountIsReferences
  <2>1. \A b \in Buf : References(b) = {}
    BY NoIsNone DEF Init, References, RefersTo, Idle, Refers
  <2>2. QED
    BY <2>1, FS_EmptySet DEF Init, CountIsReferences
<1>6. \A t \in Task : JobFits(t)
  BY DEF Init, JobFits, Idle, Refers
<1>7. Locks
  BY DEF Init, Locks, Locker, Idle, NoIO
<1>8. HeldAreValid /\ (\A b \in Buf : CopyRight(b)) /\ AbsentRight
  BY NoIsNone DEF Init, HeldAreValid, CopyRight, AbsentRight
<1>9. QED
  BY <1>2, <1>3, <1>4, <1>5, <1>6, <1>7, <1>8 DEF IInv

LEMMA NextIInv == IInv /\ [Next]_vars => IInv'
<1> SUFFICES ASSUME IInv, [Next]_vars PROVE IInv'
  OBVIOUS
<1>1. CASE UNCHANGED vars
  <2>1. TypeOK'
    BY <1>1, Types DEF TypeOK, vars, bvars
  <2>2. QED
    BY <1>1, <2>1, OnlySleep DEF vars
<1>2. CASE AtRest
  <2>1. UNCHANGED vars
    BY <1>2 DEF AtRest
  <2>2. QED
    BY <1>1, <2>1
<1>3. CASE \E b \in Buf, ok \in BOOLEAN : EndRequest(b, ok)
  BY <1>3, EndRequestStep
<1>4. ASSUME NEW t \in Task, \E k \in Block : \E a \in AheadBlock \ {k} : Bread(t, k, a)
      PROVE  IInv'
  BY <1>4, BreadStep
<1>5. ASSUME NEW t \in Task, \E b \in Buf : Modify(t, b) \/ Brelse(t, b)
      PROVE  IInv'
  BY <1>5, ModifyStep, BrelseStep
<1>6. ASSUME NEW t \in Task,
             \/ Found(t) \/ FoundWait(t) \/ Search(t) \/ Check(t) \/ Got(t)
             \/ ReadBlock(t) \/ SecondBlock(t) \/ ReadAhead(t) \/ ReadDone(t)
             \/ Sync(t) \/ SyncOne(t) \/ SyncNext(t) \/ SyncDone(t)
      PROVE  IInv'
  BY <1>6, FoundStep, FoundWaitStep, SearchStep, CheckStep, GotStep, ReadBlockStep,
     SecondBlockStep, ReadAheadStep, ReadDoneStep, SyncStep, SyncOneStep, SyncNextStep,
     SyncDoneStep
<1>7. QED
  BY <1>1, <1>2, <1>3, <1>4, <1>5, <1>6 DEF Next

LEMMA Invariant == Spec => []IInv
BY InitIInv, NextIInv, PTL DEF Spec

(***************************************************************************)
(* The theorems.                                                           *)
(***************************************************************************)
(* No block is in the cache twice, however the calls of getblk interleave. *)
THEOREM CacheHasOneCopy == Spec => []OneBufferPerBlock
<1>1. IInv => OneBufferPerBlock
  BY DEF IInv
<1>2. QED
  BY <1>1, Invariant, PTL

(* The free list always has every buffer, and b_count is the number of tasks
   that hold the buffer or are at work on it. *)
THEOREM BuffersStayExact == Spec => []BuffersExact
<1>1. IInv => BuffersExact
  BY DEF IInv, BuffersExact
<1>2. QED
  BY <1>1, Invariant, PTL

(* Whatever was last written to a block is in its valid buffer or, without
   one, on the device: getblk, write-ahead, read-ahead and sync lose nothing. *)
THEOREM NoChangeIsLost == Spec => []NothingLost
<1>1. IInv => NothingLost
  <2> SUFFICES ASSUME IInv, NEW k \in Block \ bad
               PROVE  IF \E b \in Buf : block[b] = k /\ b_uptodate[b]
                      THEN \A b \in Buf : block[b] = k /\ b_uptodate[b] => data[b] = latest[k]
                      ELSE disk[k] = latest[k]
    BY DEF NothingLost
  <2>1. \A b \in Buf : CopyRight(b)
    BY DEF IInv
  <2>2. \A b \in Buf : block[b] = k /\ b_uptodate[b] => data[b] = latest[k]
    BY <2>1 DEF CopyRight
  <2>3. ASSUME ~ \E b \in Buf : block[b] = k /\ b_uptodate[b]
        PROVE  disk[k] = latest[k]
    <3>1. CASE FindBuffer(k) = {}
      BY <3>1 DEF IInv, AbsentRight
    <3>2. CASE FindBuffer(k) # {}
      BY <2>1, <2>3, <3>2 DEF CopyRight, FindBuffer
    <3>3. QED
      BY <3>1, <3>2
  <2>4. QED
    BY <2>2, <2>3
<1>2. QED
  BY <1>1, Invariant, PTL

=============================================================================
