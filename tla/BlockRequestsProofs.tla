------------------------- MODULE BlockRequestsProofs -------------------------
(***************************************************************************)
(* Proofs about BlockRequests, for any number of tasks, buffers, requests  *)
(* and calls; about WaitQueue, the queues its tasks sleep on, for any      *)
(* number of tasks and calls; and, at the end, about HardDisk and Floppy,  *)
(* the drivers its requests go to, for any requests, drives and failures.  *)
(***************************************************************************)
EXTENDS BlockRequests, SleepQueue, HardDiskDriver, FloppyDriver, SequenceTheorems, FiniteSetTheorems, TLAPS

(***************************************************************************)
(* Least and greatest elements, which Place and Highest choose.            *)
(***************************************************************************)
LEMMA MinExists ==
  ASSUME NEW S \in SUBSET Nat, S # {}
  PROVE  \E i \in S : \A j \in S : i <= j
<1> DEFINE R == {ij \in Nat \X Nat : ij[1] < ij[2]}
<1>1. IsWellFoundedOn(R, Nat)
  BY NatLessThanWellFounded DEF OpToRel
<1>2. PICK i \in S : \A j \in S : <<j, i>> \notin R
  <2> HIDE DEF R
  <2> QED BY <1>1, WFMin
<1>3. ASSUME NEW j \in S PROVE i <= j
  <2>1. i \in Nat /\ j \in Nat /\ <<j, i>> \in Nat \X Nat
    OBVIOUS
  <2>2. ~(j < i)
    BY <1>2, <2>1
  <2>3. QED
    BY <2>1, <2>2
<1>4. QED
  BY <1>3

LEMMA MaxExists ==
  ASSUME NEW n \in Nat, NEW S \in SUBSET (0..n), S # {}
  PROVE  \E i \in S : \A j \in S : j <= i
<1> DEFINE T == {n - i : i \in S}
<1>1. T \in SUBSET Nat /\ T # {}
  <2>1. PICK x : x \in S
    OBVIOUS
  <2>2. n - x \in T
    BY <2>1
  <2>3. \A i \in S : n - i \in Nat
    OBVIOUS
  <2>4. QED
    BY <2>2, <2>3
<1>2. PICK k \in T : \A j \in T : k <= j
  <2> HIDE DEF T
  <2> QED BY <1>1, MinExists
<1>3. PICK i \in S : k = n - i
  OBVIOUS
<1>4. ASSUME NEW j \in S PROVE j <= i
  <2>1. n - j \in T
    OBVIOUS
  <2>2. n - i <= n - j
    BY <1>2, <1>3, <2>1
  <2>3. i \in Int /\ j \in Int
    OBVIOUS
  <2>4. QED
    BY <2>2, <2>3
<1>5. QED
  BY <1>4

LEMMA HighestIsFree ==
  ASSUME NEW n, FreeBelow(n) # {}
  PROVE  Highest(FreeBelow(n)) \in Slot /\ request[Highest(FreeBelow(n))] = Free
<1>1. FreeBelow(n) \in SUBSET (0..NR_REQUEST) /\ NR_REQUEST \in Nat
  BY RequestAssumption DEF FreeBelow, Slot
<1>2. \E i \in FreeBelow(n) : \A j \in FreeBelow(n) : j <= i
  BY <1>1, MaxExists
<1>3. Highest(FreeBelow(n)) \in FreeBelow(n)
  BY <1>2 DEF Highest
<1>4. QED
  BY <1>3 DEF FreeBelow

LEMMA PlaceInList ==
  ASSUME NEW r, NEW q \in Seq(Slot), NEW reqs
  PROVE  Place(r, q, reqs) \in 0..Len(q)
<1> DEFINE stops == {i \in 1..Len(q) - 1 : StopsAt(r, i, q, reqs)}
<1>1. Len(q) \in Nat
  OBVIOUS
<1>2. CASE stops = {}
  BY <1>1, <1>2 DEF Place
<1>3. CASE stops # {}
  <2>1. stops \in SUBSET Nat /\ stops \subseteq 0..Len(q)
    BY <1>1
  <2>2. \E i \in stops : \A j \in stops : i <= j
    <3> HIDE DEF stops
    <3> QED BY <1>3, <2>1, MinExists
  <2>3. Place(r, q, reqs) = CHOOSE i \in stops : \A j \in stops : i <= j
    BY <1>3 DEF Place
  <2>4. Place(r, q, reqs) \in stops
    <3> HIDE DEF stops
    <3> QED BY <2>2, <2>3
  <2>5. QED
    BY <2>1, <2>4
<1>4. QED
  BY <1>2, <1>3

(***************************************************************************)
(* The list: add_request puts one request in, end_request takes the first  *)
(* one out.                                                                *)
(***************************************************************************)
HasInserted(r, q, p, x) ==
  /\ r \in Seq(Slot) /\ Len(r) = Len(q) + 1
  /\ r[p + 1] = x
  /\ \A k \in 1..p : r[k] = q[k]
  /\ \A k \in p + 1..Len(q) : r[k + 1] = q[k]

LEMMA Inserted ==
  ASSUME NEW q \in Seq(Slot), NEW p \in Nat, p \in 0..Len(q), NEW x \in Slot, NEW r,
         r = SubSeq(q, 1, p) \o <<x>> \o SubSeq(q, p + 1, Len(q))
  PROVE  HasInserted(r, q, p, x)
<1> DEFINE a == SubSeq(q, 1, p)
           b == SubSeq(q, p + 1, Len(q))
           n == Len(q)
<1>1. n \in Nat /\ p \in Nat /\ p <= n /\ \A i \in 1..n : q[i] \in Slot
  OBVIOUS
<1>2. a \in Seq(Slot) /\ Len(a) = p /\ \A k \in 1..p : a[k] = q[k]
  <2>1. \A i \in 1..p : q[i] \in Slot
    BY <1>1
  <2>2. /\ a \in Seq(Slot) /\ Len(a) = IF 1 <= p THEN p - 1 + 1 ELSE 0
        /\ \A k \in 1..p - 1 + 1 : a[k] = q[1 + k - 1]
    BY <1>1, <2>1, SubSeqProperties
  <2>3. QED
    BY <1>1, <2>2
<1>3. b \in Seq(Slot) /\ Len(b) = n - p /\ \A k \in 1..n - p : b[k] = q[p + k]
  <2>1. \A i \in p + 1..n : q[i] \in Slot
    BY <1>1
  <2>2. /\ b \in Seq(Slot) /\ Len(b) = IF p + 1 <= n THEN n - (p + 1) + 1 ELSE 0
        /\ \A k \in 1..n - (p + 1) + 1 : b[k] = q[p + 1 + k - 1]
    BY <1>1, <2>1, SubSeqProperties
  <2>3. QED
    BY <1>1, <2>2
<1> HIDE DEF a, b
<1>4. <<x>> \in Seq(Slot) /\ Len(<<x>>) = 1 /\ <<x>>[1] = x
  OBVIOUS
<1>5. /\ a \o <<x>> \in Seq(Slot) /\ Len(a \o <<x>>) = p + 1
      /\ (a \o <<x>>)[p + 1] = x /\ \A k \in 1..p : (a \o <<x>>)[k] = q[k]
  <2>1. /\ a \o <<x>> \in Seq(Slot) /\ Len(a \o <<x>>) = p + 1
        /\ \A k \in 1..p + 1 : (a \o <<x>>)[k] = IF k <= p THEN a[k] ELSE <<x>>[k - p]
    BY <1>1, <1>2, <1>4, ConcatProperties
  <2>2. PICK m : m = p + 1
    OBVIOUS
  <2>3. m \in 1..p + 1 /\ ~(m <= p) /\ m - p = 1
    BY <1>1, <2>2
  <2>4. (a \o <<x>>)[m] = <<x>>[m - p]
    BY <2>1, <2>3, Zenon
  <2>5. (a \o <<x>>)[p + 1] = x
    BY <1>4, <2>2, <2>3, <2>4
  <2>6. ASSUME NEW k \in 1..p PROVE (a \o <<x>>)[k] = q[k]
    <3>1. k \in 1..p + 1 /\ k <= p
      BY <1>1
    <3>2. (a \o <<x>>)[k] = a[k]
      BY <2>1, <3>1, Zenon
    <3>3. QED
      BY <1>2, <3>2
  <2>7. QED
    BY <2>1, <2>5, <2>6
<1> DEFINE c == a \o <<x>>
<1>6. r = c \o b
  BY DEF a, b
<1> HIDE DEF c
<1>7. c \in Seq(Slot) /\ Len(c) = p + 1
  BY <1>5 DEF c
<1>8. c[p + 1] = x /\ \A k \in 1..p : c[k] = q[k]
  BY <1>5 DEF c
<1>9. /\ r \in Seq(Slot) /\ Len(r) = Len(c) + Len(b)
      /\ \A k \in 1..Len(c) + Len(b) : r[k] = IF k <= Len(c) THEN c[k] ELSE b[k - Len(c)]
  <2>1. c \in Seq(Slot) /\ b \in Seq(Slot)
    BY <1>3, <1>7
  <2>2. /\ c \o b \in Seq(Slot) /\ Len(c \o b) = Len(c) + Len(b)
        /\ \A k \in 1..Len(c) + Len(b) : (c \o b)[k] = IF k <= Len(c) THEN c[k] ELSE b[k - Len(c)]
    BY <2>1, ConcatProperties
  <2>3. QED
    BY <1>6, <2>2
<1> HIDE DEF n
<1>10. Len(c) + Len(b) = n + 1
  BY <1>1, <1>3, <1>7
<1>11. ASSUME NEW k \in p + 1..n PROVE r[k + 1] = q[k]
  <2>1. k + 1 \in 1..n + 1 /\ ~(k + 1 <= Len(c)) /\ k + 1 - Len(c) = k - p /\ k - p \in 1..n - p
    BY <1>1, <1>7
  <2>2. r[k + 1] = b[k - p]
    <3>1. PICK m : m = k + 1
      OBVIOUS
    <3>2. m \in 1..Len(c) + Len(b) /\ ~(m <= Len(c)) /\ m - Len(c) = k - p
      BY <1>10, <2>1, <3>1
    <3>3. r[m] = b[m - Len(c)]
      BY <1>9, <3>2, Zenon
    <3>4. QED
      BY <3>1, <3>2, <3>3
  <2>3. b[k - p] = q[p + (k - p)] /\ p + (k - p) = k
    <3>1. PICK m : m = k - p
      OBVIOUS
    <3>2. m \in 1..n - p /\ p + m = k
      BY <1>1, <2>1, <3>1
    <3>3. b[m] = q[p + m]
      BY <1>3, <3>2 DEF n
    <3>4. QED
      BY <3>1, <3>2, <3>3
  <2>4. QED
    BY <2>2, <2>3
<1>12. ASSUME NEW k \in 1..p + 1 PROVE r[k] = c[k]
  <2>1. k \in 1..n + 1 /\ k <= Len(c)
    BY <1>1, <1>7
  <2>2. QED
    BY <1>9, <1>10, <2>1
<1>13. r[p + 1] = x /\ \A k \in 1..p : r[k] = q[k]
  <2>1. p + 1 \in 1..p + 1 /\ \A k \in 1..p : k \in 1..p + 1
    BY <1>1
  <2>2. QED
    BY <1>8, <1>12, <2>1
<1>14. QED
  BY <1>9, <1>10, <1>11, <1>13 DEF n, HasInserted

LEMMA ListStepAdd ==
  ASSUME TypeOK, ListComplete, NEW x \in Slot, request[x] = Free, NEW r \in Request,
         AddRequest(x, r)
  PROVE  /\ request' = [request EXCEPT ![x] = r] /\ request' \in [Slot -> Request \cup {Free}]
         /\ queue' \in Seq(Slot) /\ ListComplete'
<1> DEFINE n == Len(queue)
<1>1. queue \in Seq(Slot) /\ n \in Nat /\ \A k \in 1..n : queue[k] \in Slot
  BY DEF TypeOK
<1>2. PICK p \in Nat : p = Place(r, queue, request) /\ p \in 0..n
  BY <1>1, PlaceInList
<1>3. queue' = SubSeq(queue, 1, p) \o <<x>> \o SubSeq(queue, p + 1, n)
  BY <1>2 DEF AddRequest
<1>4. /\ queue' \in Seq(Slot) /\ Len(queue') = n + 1 /\ queue'[p + 1] = x
      /\ \A k \in 1..p : queue'[k] = queue[k]
      /\ \A k \in p + 1..n : queue'[k + 1] = queue[k]
  <2>1. p \in 0..Len(queue) /\ queue' = SubSeq(queue, 1, p) \o <<x>> \o SubSeq(queue, p + 1, Len(queue))
    BY <1>2, <1>3
  <2>2. HasInserted(queue', queue, p, x)
    <3> HIDE DEF n
    <3> QED BY <1>1, <1>2, <2>1, Inserted
  <2>3. QED
    BY <2>2 DEF HasInserted
<1>5. /\ request' = [request EXCEPT ![x] = r] /\ request' \in [Slot -> Request \cup {Free}]
      /\ \A i \in Slot : request'[i] # Free <=> (i = x \/ request[i] # Free)
  BY FreeAssumption DEF AddRequest, TypeOK
<1> DEFINE old(k) == IF k <= p THEN k ELSE k - 1
<1>6. ASSUME NEW k \in 1..n + 1, k # p + 1
      PROVE  old(k) \in 1..n /\ queue'[k] = queue[old(k)]
  <2>1. CASE k <= p
    BY <1>2, <1>4, <2>1
  <2>2. CASE ~(k <= p)
    <3>1. k - 1 \in p + 1..n /\ (k - 1) + 1 = k
      BY <1>1, <1>2, <1>6, <2>2
    <3>2. queue'[(k - 1) + 1] = queue[k - 1]
      BY <1>4, <3>1
    <3>3. QED
      BY <1>2, <2>2, <3>1, <3>2
  <2>3. QED
    BY <2>1, <2>2
<1>7. \A k \in 1..n : queue[k] # x
  BY <1>1 DEF ListComplete
<1>8. \A i, j \in 1..Len(queue') : queue'[i] = queue'[j] => i = j
  <2>1. SUFFICES ASSUME NEW i \in 1..n + 1, NEW j \in 1..n + 1, queue'[i] = queue'[j]
                 PROVE  i = j
    BY <1>4
  <2>2. CASE i = p + 1
    BY <1>4, <1>6, <1>7, <2>1, <2>2
  <2>3. CASE j = p + 1
    BY <1>4, <1>6, <1>7, <2>1, <2>3
  <2>4. CASE i # p + 1 /\ j # p + 1
    <3>1. old(i) \in 1..n /\ old(j) \in 1..n /\ queue[old(i)] = queue[old(j)]
      BY <1>6, <2>1, <2>4
    <3>2. old(i) = old(j)
      BY <3>1 DEF ListComplete
    <3>3. QED
      BY <1>1, <1>2, <2>4, <3>2
  <2>5. QED
    BY <2>2, <2>3, <2>4
<1>9. {queue'[i] : i \in 1..Len(queue')} = {i \in Slot : request'[i] # Free}
  <2>1. ASSUME NEW k \in 1..n + 1 PROVE queue'[k] \in Slot /\ request'[queue'[k]] # Free
    <3>1. CASE k = p + 1
      BY <1>4, <1>5, <3>1
    <3>2. CASE k # p + 1
      BY <1>1, <1>5, <1>6, <3>2 DEF ListComplete
    <3>3. QED
      BY <3>1, <3>2
  <2>2. ASSUME NEW i \in Slot, request'[i] # Free PROVE \E k \in 1..n + 1 : queue'[k] = i
    <3>1. CASE i = x
      BY <1>1, <1>2, <1>4, <3>1
    <3>2. CASE i # x
      <4>1. request[i] # Free
        BY <1>5, <2>2, <3>2
      <4>2. PICK k \in 1..n : queue[k] = i
        BY <4>1 DEF ListComplete
      <4>3. CASE k <= p
        <5>1. k \in 1..p /\ k \in 1..n + 1
          BY <1>1, <1>2, <4>3
        <5>2. QED
          BY <1>4, <4>2, <5>1
      <4>4. CASE ~(k <= p)
        <5>1. k \in p + 1..n /\ k + 1 \in 1..n + 1
          BY <1>1, <1>2, <4>4
        <5>2. QED
          BY <1>4, <4>2, <5>1
      <4>5. QED
        BY <4>3, <4>4
    <3>3. QED
      BY <3>1, <3>2
  <2>3. QED
    BY <1>4, <2>1, <2>2
<1>10. QED
  BY <1>4, <1>5, <1>8, <1>9 DEF ListComplete

LEMMA ListStepEnd ==
  ASSUME TypeOK, ListComplete, queue # <<>>,
         request' = [request EXCEPT ![queue[1]] = Free], queue' = Tail(queue)
  PROVE  queue' \in Seq(Slot) /\ ListComplete'
<1> DEFINE n == Len(queue)
<1>1. queue \in Seq(Slot) /\ n \in Nat /\ n # 0 /\ \A k \in 1..n : queue[k] \in Slot
  BY DEF TypeOK
<1>2. /\ queue' \in Seq(Slot) /\ Len(queue') = n - 1
      /\ \A k \in 1..n - 1 : queue'[k] = queue[k + 1]
  BY <1>1, HeadTailProperties
<1>3. 1 \in 1..n
  BY <1>1
<1>4. \A i \in Slot : request'[i] # Free <=> (i # queue[1] /\ request[i] # Free)
  BY <1>1, <1>3 DEF TypeOK
<1>5. {queue'[i] : i \in 1..Len(queue')} = {i \in Slot : request'[i] # Free}
  <2>1. ASSUME NEW k \in 1..n - 1 PROVE queue'[k] \in Slot /\ request'[queue'[k]] # Free
    <3>1. k + 1 \in 1..n /\ k + 1 # 1
      BY <1>1
    <3>2. queue[k + 1] # queue[1]
      BY <1>3, <3>1 DEF ListComplete
    <3>3. queue[k + 1] \in Slot /\ request[queue[k + 1]] # Free
      BY <1>1, <3>1 DEF ListComplete
    <3>4. QED
      BY <1>2, <1>4, <3>2, <3>3
  <2>2. ASSUME NEW i \in Slot, request'[i] # Free PROVE \E k \in 1..n - 1 : queue'[k] = i
    <3>1. i # queue[1] /\ request[i] # Free
      BY <1>4, <2>2
    <3>2. PICK k \in 1..n : queue[k] = i
      BY <3>1 DEF ListComplete
    <3>3. k - 1 \in 1..n - 1 /\ (k - 1) + 1 = k
      BY <1>1, <3>1, <3>2
    <3>4. queue'[k - 1] = queue[(k - 1) + 1]
      BY <1>2, <3>3
    <3>5. QED
      BY <3>2, <3>3, <3>4
  <2>3. QED
    BY <1>2, <2>1, <2>2
<1>6. \A i, j \in 1..Len(queue') : queue'[i] = queue'[j] => i = j
  <2>1. SUFFICES ASSUME NEW i \in 1..n - 1, NEW j \in 1..n - 1, queue'[i] = queue'[j]
                 PROVE  i = j
    BY <1>2
  <2>2. i + 1 \in 1..n /\ j + 1 \in 1..n /\ queue[i + 1] = queue[j + 1]
    BY <1>1, <1>2, <2>1
  <2>3. i + 1 = j + 1
    BY <2>2 DEF ListComplete
  <2>4. QED
    BY <2>3
<1>7. QED
  BY <1>2, <1>5, <1>6 DEF ListComplete

(***************************************************************************)
(* What the actions do to the buffers' owners.                             *)
(***************************************************************************)
JobType == [at : {"out", "lock_buffer", "get_request", "ll_rw_page", "ll_rw_swap_file", "swap_sleep"},
            rw : DOMAIN Cmd, bh : Buf \cup {NoBuf}]

LEMMA Types ==
  TypeOK <=> /\ request \in [Slot -> Request \cup {Free}] /\ queue \in Seq(Slot)
             /\ b_lock \in [Buf -> BOOLEAN] /\ b_dirt \in [Buf -> BOOLEAN]
             /\ b_uptodate \in [Buf -> BOOLEAN] /\ unsaved \in [Buf -> BOOLEAN]
             /\ failed \in [Buf -> BOOLEAN]
             /\ job \in [Task -> JobType]
             /\ wait \in [Task -> Buf \cup {Awake, "wait_for_request", "page"}]
             /\ busy \in Task \cup {NoTask} /\ calls \in 0..MaxCalls
  BY DEF TypeOK, JobType

LEMMA OutIsJob == Out \in JobType /\ Out.at = "out"
  BY DEF Out, JobType, Cmd

LEMMA Commands == ASSUME NEW j \in JobType PROVE Cmd[j.rw] \in {Read, Write}
  BY DEF JobType, Cmd

(* A task that neither had nor gets a buffer's lock moves on. *)
LEMMA QuietJob ==
  ASSUME IInv, TypeOK', UNCHANGED <<request, queue, bvars>>,
         NEW t \in Task, NEW j \in JobType, job' = [job EXCEPT ![t] = j],
         job[t].at # "get_request", j.at # "get_request",
         j.at = "lock_buffer" => j.bh \in Buf
  PROVE  IInv'
<1> USE DEF IInv
<1>1. job \in [Task -> JobType]
  BY Types
<1>2. \A u \in Task : job'[u] = IF u = t THEN j ELSE job[u]
  BY <1>1
<1>3. \A b : Of(b)' = Of(b) /\ Holders(b)' = Holders(b)
  BY <1>2 DEF Of, Holders
<1>4. ListComplete'
  BY DEF ListComplete
<1>5. Arguments'
  BY <1>2 DEF Arguments
<1>6. OneOwner'
  BY <1>3 DEF OneOwner, bvars
<1>7. ReadsAreNeeded'
  <2>1. \A b \in Buf : \A u \in Holders(b) : job'[u] = job[u]
    BY <1>2 DEF Holders
  <2>2. QED
    BY <1>3, <2>1 DEF ReadsAreNeeded, CmdOf, bvars
<1>8. WillBeWritten'
  BY <1>3 DEF WillBeWritten, bvars
<1>9. QED
  BY <1>4, <1>5, <1>6, <1>7, <1>8

(* GetRequest finds a request for the buffer that t holds, or has just locked. *)
LEMMA FoundRequest ==
  ASSUME IInv, NEW t \in Task, NEW b \in Buf, b = job[t].bh, NEW x \in Slot, request[x] = Free,
         AddRequest(x, [cmd |-> CmdOf(t), sector |-> BlockOf[b], bh |-> b,
                        waiting |-> NoTask, sent |-> FALSE]),
         b_lock' = [b_lock EXCEPT ![b] = TRUE], b_dirt' = [b_dirt EXCEPT ![b] = FALSE],
         Return(t), UNCHANGED <<wait, b_uptodate, unsaved, failed, calls>>,
         busy' \in Task \cup {NoTask},
         Of(b) = {}, Holders(b) \subseteq {t}, b_uptodate[b] => CmdOf(t) = Write
  PROVE  IInv'
<1> DEFINE r == [cmd |-> CmdOf(t), sector |-> BlockOf[b], bh |-> b,
                 waiting |-> NoTask, sent |-> FALSE]
<1> USE DEF IInv
<1>1. job \in [Task -> JobType] /\ request \in [Slot -> Request \cup {Free}]
  BY Types
<1>2. r \in Request /\ r # Free
  <2>1. CmdOf(t) \in {Read, Write} /\ BlockOf[b] \in Nat
    BY <1>1, Commands, RequestAssumption DEF CmdOf
  <2>2. r \in Request
    BY <2>1 DEF Request
  <2>3. QED
    BY <2>2, FreeAssumption
<1>3. /\ request' = [request EXCEPT ![x] = r] /\ request' \in [Slot -> Request \cup {Free}]
      /\ queue' \in Seq(Slot) /\ ListComplete'
  BY <1>2, ListStepAdd
<1> HIDE DEF r
<1>4. r.bh = b /\ r.cmd = CmdOf(t) /\ r.sent = FALSE
  BY DEF r
<1>5. \A i \in Slot : request'[i] = IF i = x THEN r ELSE request[i]
  BY <1>1, <1>3
<1>6. \A u \in Task : job'[u] = IF u = t THEN Out ELSE job[u]
  BY <1>1 DEF Return
<1>7. TypeOK'
  <2>1. job' \in [Task -> JobType]
    BY <1>1, OutIsJob DEF Return
  <2>2. b_lock' \in [Buf -> BOOLEAN] /\ b_dirt' \in [Buf -> BOOLEAN]
    BY Types
  <2>3. QED
    BY <1>3, <2>1, <2>2 DEF TypeOK, JobType
<1>8. Arguments'
  BY <1>6 DEF Arguments, Out
<1>9. Of(b)' = {x} /\ Holders(b)' = {}
  <2>1. Of(b)' = {x}
    BY <1>2, <1>4, <1>5 DEF Of
  <2>2. Holders(b)' = {}
    BY <1>6 DEF Holders, Out
  <2>3. QED
    BY <2>1, <2>2
<1>10. ASSUME NEW c \in Buf, c # b
       PROVE  Of(c)' = Of(c) /\ Holders(c)' = Holders(c)
  <2>1. Of(c)' = Of(c)
    BY <1>2, <1>4, <1>5, <1>10 DEF Of
  <2>2. Holders(c)' = Holders(c)
    BY <1>6, <1>10 DEF Holders, Out
  <2>3. QED
    BY <2>1, <2>2
<1>11. OneOwner'
  <2>1. ASSUME NEW c \in Buf PROVE c # b => b_lock'[c] = b_lock[c]
    BY Types
  <2>2. b_lock'[b]
    BY Types
  <2>3. QED
    BY <1>9, <1>10, <2>1, <2>2 DEF OneOwner
<1>12. ReadsAreNeeded'
  <2>1. ASSUME NEW c \in Buf, c # b
        PROVE  /\ \A i \in Of(c) : request'[i] = request[i]
               /\ \A u \in Holders(c) : CmdOf(u)' = CmdOf(u)
    BY <1>5, <1>6, <2>1 DEF Of, Holders, CmdOf
  <2>2. request'[x].cmd = CmdOf(t)
    BY <1>4, <1>5
  <2>3. QED
    BY <1>9, <1>10, <2>1, <2>2 DEF ReadsAreNeeded
<1>13. WillBeWritten'
  <2>1. ASSUME NEW c \in Buf, c # b, unsaved[c]
        PROVE  b_dirt'[c] \/ failed[c] \/ \E i \in Of(c)' : request'[i].cmd = Write /\ ~request'[i].sent
    <3>1. b_dirt'[c] = b_dirt[c]
      BY <2>1, Types
    <3>2. \A i \in Of(c) : request'[i] = request[i]
      BY <1>5, <2>1 DEF Of
    <3>3. QED
      BY <1>10, <2>1, <3>1, <3>2 DEF WillBeWritten
  <2>2. ASSUME unsaved[b]
        PROVE  failed[b] \/ \E i \in Of(b)' : request'[i].cmd = Write /\ ~request'[i].sent
    BY <1>4, <1>5, <1>9, <2>2 DEF ReadsAreNeeded
  <2>3. QED
    BY <2>1, <2>2 DEF WillBeWritten
<1>14. QED
  BY <1>3, <1>7, <1>8, <1>11, <1>12, <1>13

(* GetRequest finds none: t keeps the buffer locked and sleeps. *)
LEMMA WaitsForRequest ==
  ASSUME IInv, NEW t \in Task, NEW b \in Buf, b = job[t].bh,
         b_lock' = [b_lock EXCEPT ![b] = TRUE],
         wait' = [wait EXCEPT ![t] = "wait_for_request"], At(t, "get_request"),
         UNCHANGED <<request, queue, b_dirt, b_uptodate, unsaved, failed, calls>>,
         busy' \in Task \cup {NoTask},
         Of(b) = {}, Holders(b) \subseteq {t}, b_uptodate[b] => CmdOf(t) = Write
  PROVE  IInv'
<1> USE DEF IInv
<1>1. job \in [Task -> JobType] /\ job[t] \in JobType
  BY Types
<1>2. /\ \A u \in Task : u # t => job'[u] = job[u]
      /\ job'[t] = [job[t] EXCEPT !.at = "get_request"]
  BY <1>1 DEF At
<1>3. job'[t].at = "get_request" /\ job'[t].bh = b /\ job'[t].rw = job[t].rw
  BY <1>1, <1>2 DEF JobType
<1>4. TypeOK'
  <2>1. job' \in [Task -> JobType]
    BY <1>1 DEF At, JobType
  <2>2. b_lock' \in [Buf -> BOOLEAN]
    BY Types
  <2>3. wait' \in [Task -> Buf \cup {Awake, "wait_for_request", "page"}]
    BY Types
  <2>4. QED
    BY <2>1, <2>2, <2>3 DEF TypeOK, JobType
<1>5. ListComplete'
  BY DEF ListComplete
<1>6. Arguments'
  BY <1>2, <1>3 DEF Arguments
<1>7. \A c : Of(c)' = Of(c)
  BY DEF Of
<1>8. Holders(b)' = {t}
  BY <1>2, <1>3 DEF Holders
<1>9. \A c \in Buf : c # b => Holders(c)' = Holders(c)
  BY <1>2, <1>3 DEF Holders
<1>10. OneOwner'
  <2>1. ASSUME NEW c \in Buf PROVE c # b => b_lock'[c] = b_lock[c]
    BY Types
  <2>2. b_lock'[b]
    BY Types
  <2>3. QED
    BY <1>7, <1>8, <1>9, <2>1, <2>2 DEF OneOwner
<1>11. ReadsAreNeeded'
  <2>1. CmdOf(t)' = CmdOf(t)
    BY <1>3 DEF CmdOf
  <2>2. ASSUME NEW c \in Buf, c # b PROVE \A u \in Holders(c) : CmdOf(u)' = CmdOf(u)
    BY <1>2, <2>2 DEF Holders, CmdOf
  <2>3. QED
    BY <1>7, <1>8, <1>9, <2>1, <2>2 DEF ReadsAreNeeded
<1>12. WillBeWritten'
  BY <1>7 DEF WillBeWritten
<1>13. QED
  BY <1>4, <1>5, <1>6, <1>10, <1>11, <1>12

(* A request for a page concerns no buffer. *)
LEMMA PageRequested ==
  ASSUME IInv, NEW t \in Task, FreeBelow(NR_REQUEST) # {}, FoundForPage(t),
         job[t].at # "get_request", UNCHANGED <<bvars, busy, calls>>
  PROVE  IInv'
<1> DEFINE x == Highest(FreeBelow(NR_REQUEST))
           r == PageRequest(t)
<1> USE DEF IInv
<1>1. job \in [Task -> JobType] /\ request \in [Slot -> Request \cup {Free}]
  BY Types
<1>2. x \in Slot /\ request[x] = Free
  BY HighestIsFree
<1>3. r \in Request /\ r # Free /\ r.bh = NoBuf
  <2>1. CmdOf(t) \in {Read, Write} /\ PageAt \in Nat
    BY <1>1, Commands, RequestAssumption DEF CmdOf
  <2>2. r \in Request /\ r.bh = NoBuf
    BY <2>1 DEF Request, PageRequest
  <2>3. QED
    BY <2>2, FreeAssumption
<1>4. AddRequest(x, r) /\ wait' = [wait EXCEPT ![t] = "page"] /\ Return(t)
  BY DEF FoundForPage
<1> HIDE DEF x, r
<1>5. /\ request' = [request EXCEPT ![x] = r] /\ request' \in [Slot -> Request \cup {Free}]
      /\ queue' \in Seq(Slot) /\ ListComplete'
  BY <1>2, <1>3, <1>4, ListStepAdd
<1>6. \A i \in Slot : request'[i] = IF i = x THEN r ELSE request[i]
  BY <1>1, <1>5
<1>7. \A u \in Task : job'[u] = IF u = t THEN Out ELSE job[u]
  BY <1>1, <1>4 DEF Return
<1>8. TypeOK'
  <2>1. job' \in [Task -> JobType]
    BY <1>1, <1>4, OutIsJob DEF Return
  <2>2. wait' \in [Task -> Buf \cup {Awake, "wait_for_request", "page"}]
    BY <1>4, Types
  <2>3. QED
    BY <1>5, <2>1, <2>2 DEF TypeOK, JobType, bvars
<1>9. Arguments'
  BY <1>7 DEF Arguments, Out
<1>10. ASSUME NEW c \in Buf
       PROVE  /\ Of(c)' = Of(c) /\ Holders(c)' = Holders(c)
              /\ \A i \in Of(c) : request'[i] = request[i]
              /\ \A u \in Holders(c) : CmdOf(u)' = CmdOf(u)
  <2>1. c # NoBuf
    BY RequestAssumption
  <2>2. Of(c)' = Of(c)
    BY <1>2, <1>3, <1>6, <2>1 DEF Of
  <2>3. Holders(c)' = Holders(c)
    BY <1>7 DEF Holders, Out
  <2>4. \A i \in Of(c) : request'[i] = request[i]
    BY <1>2, <1>6 DEF Of
  <2>5. \A u \in Holders(c) : CmdOf(u)' = CmdOf(u)
    BY <1>7 DEF Holders, CmdOf
  <2>6. QED
    BY <2>2, <2>3, <2>4, <2>5
<1>11. OneOwner'
  BY <1>10 DEF OneOwner, bvars
<1>12. ReadsAreNeeded'
  BY <1>10 DEF ReadsAreNeeded, bvars
<1>13. WillBeWritten'
  BY <1>10 DEF WillBeWritten, bvars
<1>14. QED
  BY <1>5, <1>8, <1>9, <1>11, <1>12, <1>13

(***************************************************************************)
(* The steps.                                                              *)
(***************************************************************************)
LEMMA LlRwBlockStep ==
  ASSUME IInv, NEW t \in Task, NEW w \in DOMAIN Cmd, NEW b \in Buf, LlRwBlock(t, w, b)
  PROVE  IInv'
<1>1. job \in [Task -> JobType] /\ job[t] = Out /\ calls' \in 0..MaxCalls
  BY Types, RequestAssumption DEF IInv, LlRwBlock, Call
<1>2. UNCHANGED <<request, queue, bvars, wait>>
  BY DEF LlRwBlock, Call
<1>3. CASE UNCHANGED <<job, busy>>
  <2>1. TypeOK'
    BY <1>1, <1>2, <1>3 DEF IInv, TypeOK, bvars
  <2>2. job' = [job EXCEPT ![t] = Out]
    BY <1>1, <1>3
  <2>3. QED
    BY <1>1, <1>2, <2>1, <2>2, OutIsJob, QuietJob
<1>4. CASE /\ job' = [job EXCEPT ![t] = [at |-> "lock_buffer", rw |-> w, bh |-> b]]
           /\ busy' = t
  <2> DEFINE j == [at |-> "lock_buffer", rw |-> w, bh |-> b]
  <2>1. j \in JobType /\ j.at = "lock_buffer" /\ j.bh \in Buf
    BY DEF JobType
  <2>2. job' = [job EXCEPT ![t] = j]
    BY <1>4
  <2> HIDE DEF j
  <2>3. job' \in [Task -> JobType]
    BY <1>1, <2>1, <2>2
  <2>4. TypeOK'
    BY <1>1, <1>2, <1>4, <2>3 DEF IInv, TypeOK, bvars, JobType
  <2>5. QED
    BY <1>1, <1>2, <2>1, <2>2, <2>4, OutIsJob, QuietJob
<1>5. QED
  BY <1>3, <1>4 DEF LlRwBlock

LEMMA LlRwPageStep ==
  ASSUME IInv, NEW t \in Task, NEW w \in {"READ", "WRITE"}, NEW f \in PageCalls, LlRwPage(t, w, f)
  PROVE  IInv'
<1> DEFINE j == [at |-> f, rw |-> w, bh |-> NoBuf]
<1>1. job \in [Task -> JobType] /\ job[t] = Out /\ calls' \in 0..MaxCalls
  BY Types, RequestAssumption DEF IInv, LlRwPage, Call
<1>2. UNCHANGED <<request, queue, bvars, wait, busy>> /\ job' = [job EXCEPT ![t] = j]
  BY DEF LlRwPage, Call
<1>3. f \in {"ll_rw_page", "ll_rw_swap_file"}
  BY RequestAssumption
<1>4. j \in JobType /\ j.at \notin {"get_request", "lock_buffer"}
  BY <1>3 DEF JobType, Cmd
<1> HIDE DEF j
<1>5. job' \in [Task -> JobType]
  BY <1>1, <1>2, <1>4
<1>6. TypeOK'
  BY <1>1, <1>2, <1>5 DEF IInv, TypeOK, bvars, JobType
<1>7. QED
  BY <1>1, <1>2, <1>4, <1>6, OutIsJob, QuietJob

LEMMA GetRequestStep ==
  ASSUME IInv, NEW t \in Task, job[t].bh \in Buf, GetRequest(t),
         UNCHANGED <<b_uptodate, unsaved, failed, calls>>, busy' \in Task \cup {NoTask},
         Of(job[t].bh) = {}, Holders(job[t].bh) \subseteq {t},
         b_uptodate[job[t].bh] => CmdOf(t) = Write
  PROVE  IInv'
<1> DEFINE b == job[t].bh
           free == FreeBelow(Limit(CmdOf(t)))
<1>1. CASE free # {}
  <2>1. Highest(free) \in Slot /\ request[Highest(free)] = Free
    BY <1>1, HighestIsFree
  <2>2. /\ AddRequest(Highest(free), [cmd |-> CmdOf(t), sector |-> BlockOf[b],
                                      bh |-> b, waiting |-> NoTask, sent |-> FALSE])
        /\ b_lock' = [b_lock EXCEPT ![b] = TRUE]
        /\ b_dirt' = [b_dirt EXCEPT ![b] = FALSE]
        /\ Return(t) /\ UNCHANGED wait
    BY <1>1 DEF GetRequest
  <2> HIDE DEF free
  <2>3. QED
    BY <2>1, <2>2, FoundRequest
<1>2. CASE free = {}
  <2>1. /\ b_lock' = [b_lock EXCEPT ![b] = TRUE]
        /\ wait' = [wait EXCEPT ![t] = "wait_for_request"]
        /\ At(t, "get_request") /\ UNCHANGED <<request, queue, b_dirt>>
    BY <1>2 DEF GetRequest
  <2>2. QED
    BY <2>1, WaitsForRequest
<1>3. QED
  BY <1>1, <1>2

LEMMA LockBufferStep ==
  ASSUME IInv, NEW t \in Task, LockBuffer(t)
  PROVE  IInv'
<1> DEFINE b == job[t].bh
<1>1. job \in [Task -> JobType] /\ job[t] \in JobType /\ job[t].at = "lock_buffer" /\ b \in Buf
  BY Types DEF IInv, LockBuffer, Arguments
<1>2. busy' = NoTask /\ UNCHANGED <<b_uptodate, unsaved, failed, calls>>
  BY DEF LockBuffer
<1>3. CASE /\ wait' = [wait EXCEPT ![t] = b]
           /\ UNCHANGED <<request, queue, b_lock, b_dirt, job>>
  <2>1. job' = [job EXCEPT ![t] = job[t]]
    BY <1>1, <1>3
  <2>2. wait' \in [Task -> Buf \cup {Awake, "wait_for_request", "page"}]
    BY <1>1, <1>3, Types DEF IInv
  <2>3. TypeOK'
    BY <1>2, <1>3, <2>2 DEF IInv, TypeOK
  <2>4. QED
    BY <1>1, <1>2, <1>3, <2>1, <2>3, QuietJob DEF bvars
<1>4. CASE Return(t) /\ UNCHANGED <<request, queue, b_lock, b_dirt>>
           /\ wait' \in [Task -> Buf \cup {Awake, "wait_for_request", "page"}]
  <2>1. job' = [job EXCEPT ![t] = Out] /\ job' \in [Task -> JobType]
    BY <1>1, <1>4, OutIsJob DEF Return
  <2>2. TypeOK'
    BY <1>2, <1>4, <2>1 DEF IInv, TypeOK, JobType
  <2>3. QED
    BY <1>1, <1>2, <1>4, <2>1, <2>2, OutIsJob, QuietJob DEF bvars
<1>5. CASE ~LockTaken(t) /\ ~NothingToDo(t, b) /\ GetRequest(t)
  <2>1. Of(b) = {} /\ Holders(b) = {}
    BY <1>1, <1>5 DEF IInv, OneOwner, LockTaken
  <2>2. b_uptodate[b] => CmdOf(t) = Write
    BY <1>1, <1>5, Commands DEF NothingToDo, CmdOf
  <2>3. QED
    BY <1>1, <1>2, <1>5, <2>1, <2>2, GetRequestStep
<1>6. GiveUp(t) => wait' \in [Task -> Buf \cup {Awake, "wait_for_request", "page"}]
  BY Types DEF IInv, GiveUp, WakeUp
<1>7. UNCHANGED wait => wait' \in [Task -> Buf \cup {Awake, "wait_for_request", "page"}]
  BY Types DEF IInv
<1>8. \/ /\ wait' = [wait EXCEPT ![t] = b]
         /\ UNCHANGED <<request, queue, b_lock, b_dirt, job>>
      \/ Return(t) /\ UNCHANGED <<request, queue, b_lock, b_dirt, wait>>
      \/ ~LockTaken(t) /\ ~NothingToDo(t, b) /\ GetRequest(t)
      \/ GiveUp(t)
  BY DEF LockBuffer
<1>9. QED
  BY <1>3, <1>4, <1>5, <1>6, <1>7, <1>8 DEF GiveUp

LEMMA RepeatStep ==
  ASSUME IInv, NEW t \in Task, Repeat(t)
  PROVE  IInv'
<1> DEFINE b == job[t].bh
<1>1. b \in Buf /\ t \in Holders(b)
  BY DEF IInv, Repeat, Arguments, Holders
<1>2. Of(b) = {} /\ Holders(b) \subseteq {t}
  BY <1>1 DEF IInv, OneOwner
<1>3. b_uptodate[b] => CmdOf(t) = Write
  BY <1>1 DEF IInv, ReadsAreNeeded
<1>4. busy' \in Task \cup {NoTask}
  BY DEF IInv, TypeOK, Repeat
<1>5. QED
  BY <1>1, <1>2, <1>3, <1>4, GetRequestStep DEF Repeat

LEMMA PageSteps ==
  ASSUME IInv, NEW t \in Task, PageGet(t) \/ SwapGet(t) \/ SwapSleep(t)
  PROVE  IInv'
<1>1. job \in [Task -> JobType] /\ job[t] \in JobType /\ UNCHANGED <<bvars, calls>>
  BY Types DEF IInv, PageGet, SwapGet, SwapSleep
<1>2. job[t].at \in {"ll_rw_page", "ll_rw_swap_file", "swap_sleep"}
  BY DEF PageGet, SwapGet, SwapSleep
<1>3. CASE FreeBelow(NR_REQUEST) # {} /\ FoundForPage(t) /\ UNCHANGED busy
  BY <1>1, <1>2, <1>3, PageRequested
<1>4. ASSUME NEW l \in {"ll_rw_page", "ll_rw_swap_file", "swap_sleep"},
             At(t, l), UNCHANGED <<request, queue>>, busy' \in Task \cup {NoTask},
             wait' \in {wait, [wait EXCEPT ![t] = "wait_for_request"]}
      PROVE  IInv'
  <2> DEFINE j == [job[t] EXCEPT !.at = l]
  <2>1. j \in JobType /\ j.at = l
    BY <1>1 DEF JobType
  <2>2. job' = [job EXCEPT ![t] = j]
    BY <1>1, <1>4 DEF At
  <2> HIDE DEF j
  <2>3. job' \in [Task -> JobType]
    BY <1>1, <2>1, <2>2
  <2>4. wait' \in [Task -> Buf \cup {Awake, "wait_for_request", "page"}]
    BY <1>4, Types DEF IInv
  <2>5. TypeOK'
    BY <1>1, <1>4, <2>3, <2>4 DEF IInv, TypeOK, bvars, JobType
  <2>6. j.at # "get_request" /\ j.at # "lock_buffer" /\ job[t].at # "get_request"
    BY <1>2, <2>1
  <2>7. QED
    BY <1>1, <1>4, <2>1, <2>2, <2>5, <2>6, QuietJob
<1>5. CASE PageGet(t) /\ FreeBelow(NR_REQUEST) = {}
  <2>1. At(t, "ll_rw_page")
    BY <1>1, <1>5 DEF PageGet, At, JobType
  <2>2. QED
    BY <1>4, <1>5, <2>1 DEF PageGet, IInv, TypeOK
<1>6. CASE SwapGet(t) /\ At(t, "swap_sleep") /\ busy' = t /\ UNCHANGED <<request, queue, wait>>
  BY <1>4, <1>6
<1>7. CASE SwapSleep(t)
  BY <1>4, <1>7 DEF SwapSleep
<1>8. QED
  BY <1>3, <1>5, <1>6, <1>7 DEF PageGet, SwapGet

LEMMA ModifyStep ==
  ASSUME IInv, NEW b \in Buf, Modify(b)
  PROVE  IInv'
<1>1. /\ b_uptodate[b] /\ UNCHANGED <<request, queue, b_lock, b_uptodate, failed, job, wait, busy, calls>>
      /\ b_dirt' = [b_dirt EXCEPT ![b] = TRUE] /\ unsaved' = [unsaved EXCEPT ![b] = TRUE]
  BY DEF Modify
<1>2. \A c : Of(c)' = Of(c) /\ Holders(c)' = Holders(c)
  BY <1>1 DEF Of, Holders
<1>3. b_dirt' \in [Buf -> BOOLEAN] /\ unsaved' \in [Buf -> BOOLEAN]
  BY <1>1, Types DEF IInv
<1>4. b_dirt'[b] /\ \A c \in Buf : c # b => b_dirt'[c] = b_dirt[c] /\ unsaved'[c] = unsaved[c]
  BY <1>1, Types DEF IInv
<1>5. TypeOK'
  BY <1>1, <1>3 DEF IInv, TypeOK
<1>6. ListComplete' /\ Arguments'
  BY <1>1 DEF IInv, ListComplete, Arguments
<1>7. OneOwner'
  BY <1>1, <1>2 DEF IInv, OneOwner
<1>8. ReadsAreNeeded'
  BY <1>1, <1>2, <1>4 DEF IInv, ReadsAreNeeded, CmdOf
<1>9. WillBeWritten'
  BY <1>1, <1>2, <1>4 DEF IInv, WillBeWritten
<1>10. QED
  BY <1>5, <1>6, <1>7, <1>8, <1>9 DEF IInv

(* The front of the list. *)
LEMMA Front ==
  ASSUME IInv, queue # <<>>
  PROVE  queue[1] \in Slot /\ request[queue[1]] \in Request /\ request[queue[1]] # Free
<1>1. queue \in Seq(Slot) /\ Len(queue) \in Nat /\ Len(queue) # 0
  BY DEF IInv, TypeOK
<1>2. 1 \in 1..Len(queue)
  BY <1>1
<1>3. queue[1] \in Slot /\ request[queue[1]] # Free
  BY <1>1, <1>2 DEF IInv, ListComplete
<1>4. QED
  BY <1>3 DEF IInv, TypeOK

LEMMA TransferStep ==
  ASSUME IInv, Transfer
  PROVE  IInv'
<1> DEFINE x == queue[1]
           r == request[x]
           r2 == [r EXCEPT !.sent = TRUE]
<1>1. /\ UNCHANGED <<queue, b_lock, b_dirt, b_uptodate, failed, job, wait, busy, calls>>
      /\ request' = [request EXCEPT ![x] = r2]
      /\ unsaved' = IF r.cmd = Write /\ r.bh # NoBuf THEN [unsaved EXCEPT ![r.bh] = FALSE] ELSE unsaved
  BY DEF Transfer
<1>2. x \in Slot /\ r \in Request /\ r # Free
  BY Front DEF Transfer
<1>3. r2 \in Request /\ r2 # Free /\ r2.cmd = r.cmd /\ r2.bh = r.bh
  <2>1. r2 \in Request /\ r2.cmd = r.cmd /\ r2.bh = r.bh
    BY <1>2 DEF Request
  <2>2. QED
    BY <2>1, FreeAssumption
<1>4. request \in [Slot -> Request \cup {Free}] /\ unsaved \in [Buf -> BOOLEAN]
  BY Types DEF IInv
<1> HIDE DEF r2
<1>5. \A i \in Slot : request'[i] = IF i = x THEN r2 ELSE request[i]
  BY <1>1, <1>4
<1>6. request' \in [Slot -> Request \cup {Free}]
  BY <1>1, <1>3, <1>4
<1>7. unsaved' \in [Buf -> BOOLEAN] /\ \A c \in Buf : unsaved'[c] => unsaved[c] /\ ~(r.cmd = Write /\ r.bh = c)
  <2>1. r.bh \in Buf \cup {NoBuf}
    BY <1>2 DEF Request
  <2>2. CASE r.cmd = Write /\ r.bh # NoBuf
    BY <1>1, <1>4, <2>1, <2>2
  <2>3. CASE ~(r.cmd = Write /\ r.bh # NoBuf)
    BY <1>1, <1>4, <2>3, RequestAssumption
  <2>4. QED
    BY <2>2, <2>3
<1>8. TypeOK'
  BY <1>1, <1>6, <1>7 DEF IInv, TypeOK
<1>9. ListComplete'
  <2>1. \A i \in Slot : request'[i] # Free <=> request[i] # Free
    BY <1>2, <1>3, <1>5
  <2>2. QED
    BY <1>1, <2>1 DEF IInv, ListComplete
<1>10. Arguments'
  BY <1>1 DEF IInv, Arguments
<1>11. \A c : Holders(c)' = Holders(c)
  BY <1>1 DEF Holders
<1>12. \A c : Of(c)' = Of(c) /\ \A i \in Of(c) : request'[i].cmd = request[i].cmd
  BY <1>2, <1>3, <1>5 DEF Of
<1>13. OneOwner'
  BY <1>1, <1>11, <1>12 DEF IInv, OneOwner
<1>14. ReadsAreNeeded'
  BY <1>1, <1>7, <1>11, <1>12 DEF IInv, ReadsAreNeeded, CmdOf
<1>15. WillBeWritten'
  <2>1. ASSUME NEW c \in Buf, unsaved'[c], ~b_dirt[c], ~failed[c]
        PROVE  \E i \in Of(c) : request'[i].cmd = Write /\ ~request'[i].sent
    <3>1. PICK i \in Of(c) : request[i].cmd = Write /\ ~request[i].sent
      BY <1>7, <2>1 DEF IInv, WillBeWritten
    <3>2. i # x
      BY <1>7, <2>1, <3>1 DEF Of
    <3>3. request'[i] = request[i]
      BY <1>5, <3>2 DEF Of
    <3>4. QED
      BY <3>1, <3>3
  <2>2. QED
    BY <1>1, <1>12, <2>1 DEF WillBeWritten
<1>16. QED
  BY <1>8, <1>9, <1>10, <1>13, <1>14, <1>15 DEF IInv

LEMMA EndRequestStep ==
  ASSUME IInv, NEW uptodate \in BOOLEAN, EndRequest(uptodate)
  PROVE  IInv'
<1> DEFINE x == queue[1]
           r == request[x]
<1>0. PICK b : b = r.bh
  OBVIOUS
<1>1. /\ queue # <<>> /\ request' = [request EXCEPT ![x] = Free] /\ queue' = Tail(queue)
      /\ UNCHANGED <<b_dirt, unsaved, job, busy, calls>> /\ (uptodate => r.sent)
      /\ wait' = [t \in Task |-> IF t \in Woken(r) THEN Awake ELSE wait[t]]
  BY DEF EndRequest
<1>2. x \in Slot /\ r \in Request /\ r # Free /\ b \in Buf \cup {NoBuf}
  BY <1>0, <1>1, Front DEF Request
<1>3. b = NoBuf => UNCHANGED <<b_uptodate, b_lock, failed>>
  BY <1>0 DEF EndRequest
<1>4. b # NoBuf => /\ b_uptodate' = [b_uptodate EXCEPT ![b] = uptodate]
                   /\ b_lock' = [b_lock EXCEPT ![b] = FALSE]
                   /\ failed' = [failed EXCEPT ![b] = @ \/ (r.cmd = Write /\ ~uptodate)]
  BY <1>0 DEF EndRequest
<1>5. /\ request \in [Slot -> Request \cup {Free}] /\ b_lock \in [Buf -> BOOLEAN]
      /\ b_uptodate \in [Buf -> BOOLEAN] /\ failed \in [Buf -> BOOLEAN] /\ unsaved \in [Buf -> BOOLEAN]
      /\ wait \in [Task -> Buf \cup {Awake, "wait_for_request", "page"}]
  BY Types DEF IInv
<1>6. queue' \in Seq(Slot) /\ ListComplete'
  BY <1>1, ListStepEnd DEF IInv
<1>7. TypeOK'
  <2>1. request' \in [Slot -> Request \cup {Free}]
    BY <1>1, <1>5
  <2>2. wait' \in [Task -> Buf \cup {Awake, "wait_for_request", "page"}]
    BY <1>1, <1>5
  <2>3. b_lock' \in [Buf -> BOOLEAN] /\ b_uptodate' \in [Buf -> BOOLEAN]
    BY <1>3, <1>4, <1>5
  <2>4. failed' \in [Buf -> BOOLEAN]
    BY <1>3, <1>4, <1>5
  <2>5. QED
    BY <1>1, <1>6, <2>1, <2>2, <2>3, <2>4 DEF IInv, TypeOK
<1>8. Arguments'
  BY <1>1 DEF IInv, Arguments
<1>9. \A i \in Slot : request'[i] = IF i = x THEN Free ELSE request[i]
  BY <1>1, <1>5
<1>10. \A c : Holders(c)' = Holders(c) /\ Of(c)' = Of(c) \ {x}
  <2>1. \A c : Holders(c)' = Holders(c)
    BY <1>1 DEF Holders
  <2>2. \A c : Of(c)' = Of(c) \ {x}
    BY <1>2, <1>9 DEF Of
  <2>3. QED
    BY <2>1, <2>2
<1>11. \A c \in Buf : c # b => x \notin Of(c) /\ b_lock'[c] = b_lock[c]
                               /\ b_uptodate'[c] = b_uptodate[c] /\ failed'[c] = failed[c]
  <2>1. \A c \in Buf : c # b => x \notin Of(c)
    BY <1>0 DEF Of
  <2>2. CASE b = NoBuf
    BY <1>3, <2>1, <2>2
  <2>3. CASE b # NoBuf
    BY <1>2, <1>4, <1>5, <2>1, <2>3
  <2>4. QED
    BY <2>2, <2>3
<1>12. b \in Buf => /\ ~b_lock'[b] /\ (b_uptodate'[b] <=> uptodate)
                    /\ (failed'[b] <=> failed[b] \/ (r.cmd = Write /\ ~uptodate))
  BY <1>4, <1>5, RequestAssumption
<1>13. b \in Buf => Of(b) = {x} /\ Holders(b) = {} /\ Of(b)' = {}
  <2>1. ASSUME b \in Buf PROVE x \in Of(b)
    BY <1>0, <1>2, <2>1 DEF Of
  <2> HIDE DEF x
  <2>2. ASSUME b \in Buf PROVE Of(b) = {x} /\ Holders(b) = {}
    BY <2>1, <2>2 DEF IInv, OneOwner
  <2>3. QED
    BY <1>10, <2>2
<1>14. OneOwner'
  <2>1. ASSUME NEW c \in Buf, c # b PROVE Of(c)' = Of(c) /\ Holders(c)' = Holders(c) /\ b_lock'[c] = b_lock[c]
    BY <1>10, <1>11, <2>1
  <2>2. ASSUME b \in Buf PROVE Of(b)' = {} /\ Holders(b)' = {} /\ ~b_lock'[b]
    BY <1>10, <1>12, <1>13, <2>2
  <2>3. QED
    BY <2>1, <2>2 DEF IInv, OneOwner
<1>15. ReadsAreNeeded'
  <2>1. ASSUME NEW c \in Buf, c # b
        PROVE  /\ unsaved[c] => b_uptodate'[c] \/ failed'[c]
               /\ b_uptodate'[c] => /\ \A i \in Of(c)' : request'[i].cmd = Write
                                    /\ \A u \in Holders(c)' : CmdOf(u)' = Write
    <3>1. \A i \in Of(c)' : i \in Of(c) /\ request'[i] = request[i]
      BY <1>9, <1>10 DEF Of
    <3>2. \A u \in Holders(c)' : u \in Holders(c) /\ CmdOf(u)' = CmdOf(u)
      BY <1>1, <1>10 DEF CmdOf
    <3>3. QED
      BY <1>11, <2>1, <3>1, <3>2 DEF IInv, ReadsAreNeeded
  <2>2. ASSUME b \in Buf
        PROVE  /\ unsaved[b] => b_uptodate'[b] \/ failed'[b]
               /\ Of(b)' = {} /\ Holders(b)' = {}
    BY <1>10, <1>12, <1>13, <2>2 DEF IInv, ReadsAreNeeded
  <2>3. QED
    BY <1>1, <2>1, <2>2 DEF ReadsAreNeeded
<1>16. WillBeWritten'
  <2>1. ASSUME NEW c \in Buf, c # b, unsaved[c], ~b_dirt[c], ~failed'[c]
        PROVE  \E i \in Of(c)' : request'[i].cmd = Write /\ ~request'[i].sent
    <3>1. PICK i \in Of(c) : request[i].cmd = Write /\ ~request[i].sent
      BY <1>11, <2>1 DEF IInv, WillBeWritten
    <3>2. i \in Of(c)' /\ request'[i] = request[i]
      <4>1. i # x /\ i \in Slot
        BY <1>11, <2>1 DEF Of
      <4>2. QED
        BY <1>9, <1>10, <4>1
    <3>3. QED
      BY <3>1, <3>2
  <2>2. ASSUME b \in Buf, unsaved[b], ~b_dirt[b] PROVE failed'[b]
    <3>1. CASE failed[b]
      BY <1>12, <2>2, <3>1
    <3>2. CASE ~failed[b]
      <4>1. r.cmd = Write /\ ~r.sent
        BY <1>13, <2>2, <3>2 DEF IInv, WillBeWritten
      <4>2. QED
        BY <1>1, <1>12, <2>2, <4>1
    <3>3. QED
      BY <3>1, <3>2
  <2>3. QED
    BY <1>1, <2>1, <2>2 DEF WillBeWritten
<1>17. QED
  BY <1>6, <1>7, <1>8, <1>14, <1>15, <1>16 DEF IInv

LEMMA InitHolds == Init => IInv
<1> SUFFICES ASSUME Init PROVE IInv
  OBVIOUS
<1>1. \A i \in Slot : request[i] = Free
  BY DEF Init
<1>2. queue = <<>> /\ Len(queue) = 0
  BY DEF Init
<1>3. job = [t \in Task |-> Out] /\ \A t \in Task : job[t].at = "out"
  BY OutIsJob DEF Init
<1>4. \A b : Of(b) = {} /\ Holders(b) = {}
  BY <1>1, <1>3 DEF Of, Holders
<1>5. TypeOK
  <2>1. job \in [Task -> JobType]
    BY <1>3, OutIsJob
  <2>2. request \in [Slot -> Request \cup {Free}] /\ queue \in Seq(Slot) /\ calls \in 0..MaxCalls
    BY RequestAssumption DEF Init
  <2>3. /\ b_lock \in [Buf -> BOOLEAN] /\ b_dirt \in [Buf -> BOOLEAN] /\ b_uptodate \in [Buf -> BOOLEAN]
        /\ unsaved \in [Buf -> BOOLEAN] /\ failed \in [Buf -> BOOLEAN]
    BY DEF Init
  <2>4. wait \in [Task -> Buf \cup {Awake, "wait_for_request", "page"}] /\ busy \in Task \cup {NoTask}
    BY DEF Init
  <2>5. QED
    BY <2>1, <2>2, <2>3, <2>4, Types
<1>6. ListComplete
  BY <1>1, <1>2 DEF ListComplete
<1>7. Arguments
  BY <1>3 DEF Arguments
<1>8. OneOwner /\ ReadsAreNeeded /\ WillBeWritten
  <2>1. \A b \in Buf : ~b_lock[b] /\ ~unsaved[b]
    BY DEF Init
  <2>2. QED
    BY <1>4, <2>1 DEF OneOwner, ReadsAreNeeded, WillBeWritten
<1>9. QED
  BY <1>5, <1>6, <1>7, <1>8 DEF IInv

LEMMA NextHolds == IInv /\ [Next]_vars => IInv'
<1> SUFFICES ASSUME IInv, [Next]_vars PROVE IInv'
  OBVIOUS
<1>1. CASE UNCHANGED vars
  <2>1. /\ UNCHANGED <<request, queue, b_lock, b_dirt, b_uptodate>>
        /\ UNCHANGED <<unsaved, failed, job, wait, busy, calls>>
    BY <1>1 DEF vars, bvars
  <2>2. \A b : Of(b)' = Of(b) /\ Holders(b)' = Holders(b)
    BY <2>1 DEF Of, Holders
  <2>3. TypeOK' /\ ListComplete' /\ Arguments'
    BY <2>1 DEF IInv, TypeOK, ListComplete, Arguments
  <2>4. OneOwner' /\ WillBeWritten'
    BY <2>1, <2>2 DEF IInv, OneOwner, WillBeWritten
  <2>5. ReadsAreNeeded'
    BY <2>1, <2>2 DEF IInv, ReadsAreNeeded, CmdOf
  <2>6. QED
    BY <2>3, <2>4, <2>5 DEF IInv
<1>2. ASSUME NEW t \in Task, NEW w \in DOMAIN Cmd, NEW b \in Buf, LlRwBlock(t, w, b) PROVE IInv'
  BY <1>2, LlRwBlockStep
<1>3. ASSUME NEW t \in Task, NEW w \in {"READ", "WRITE"}, NEW f \in PageCalls, LlRwPage(t, w, f) PROVE IInv'
  BY <1>3, LlRwPageStep
<1>4. ASSUME NEW t \in Task, Step(t) PROVE IInv'
  BY <1>4, LockBufferStep, RepeatStep, PageSteps DEF Step
<1>5. ASSUME NEW b \in Buf, Modify(b) PROVE IInv'
  BY <1>5, ModifyStep
<1>6. CASE Transfer
  BY <1>6, TransferStep
<1>7. ASSUME NEW uptodate \in BOOLEAN, EndRequest(uptodate) PROVE IInv'
  BY <1>7, EndRequestStep
<1>8. QED
  BY <1>1, <1>2, <1>3, <1>4, <1>5, <1>6, <1>7 DEF Next

(***************************************************************************)
(* The list and the slots say the same, and one owner is a count of one.   *)
(***************************************************************************)
LEMMA ListedIsOf ==
  ASSUME IInv, NEW b \in Buf
  PROVE  /\ \A k \in Listed(b) : queue[k] \in Of(b)
         /\ \A i \in Of(b) : \E k \in Listed(b) : queue[k] = i
         /\ \A j, k \in Listed(b) : j = k
<1>1. queue \in Seq(Slot) /\ Len(queue) \in Nat /\ \A k \in 1..Len(queue) : queue[k] \in Slot
  BY DEF IInv, TypeOK
<1>2. \A k \in Listed(b) : queue[k] \in Of(b)
  BY <1>1 DEF Listed, Of, IInv, ListComplete
<1>3. \A i \in Of(b) : \E k \in Listed(b) : queue[k] = i
  BY DEF Listed, Of, IInv, ListComplete
<1>4. \A j, k \in Listed(b) : j = k
  <2>1. SUFFICES ASSUME NEW j \in Listed(b), NEW k \in Listed(b) PROVE j = k
    OBVIOUS
  <2>2. queue[j] = queue[k]
    BY <1>2 DEF IInv, OneOwner
  <2>3. QED
    BY <2>2 DEF IInv, ListComplete, Listed
<1>5. QED
  BY <1>2, <1>3, <1>4

LEMMA OneOrNone ==
  ASSUME NEW S, \A x, y \in S : x = y
  PROVE  Cardinality(S) = IF S = {} THEN 0 ELSE 1
<1>1. CASE S = {}
  BY <1>1, FS_EmptySet
<1>2. CASE S # {}
  <2>1. PICK x : x \in S
    BY <1>2
  <2>2. S = {x}
    BY <2>1
  <2>3. QED
    BY <1>2, <2>2, FS_Singleton
<1>3. QED
  BY <1>1, <1>2

LEMMA OwnersCounted == IInv => LockHasOneOwner
<1> SUFFICES ASSUME IInv, NEW b \in Buf
             PROVE  Cardinality(Listed(b)) + Cardinality(Holders(b)) = IF b_lock[b] THEN 1 ELSE 0
  BY DEF LockHasOneOwner
<1>1. Cardinality(Listed(b)) = IF Listed(b) = {} THEN 0 ELSE 1
  BY ListedIsOf, OneOrNone
<1>2. \A t, u \in Holders(b) : t = u
  BY DEF IInv, OneOwner
<1>3. Cardinality(Holders(b)) = IF Holders(b) = {} THEN 0 ELSE 1
  BY <1>2, OneOrNone
<1>4. Listed(b) = {} <=> Of(b) = {}
  BY ListedIsOf
<1>5. /\ Of(b) = {} \/ Holders(b) = {}
      /\ b_lock[b] <=> Of(b) # {} \/ Holders(b) # {}
  BY DEF IInv, OneOwner
<1>6. QED
  BY <1>1, <1>3, <1>4, <1>5

LEMMA ChangesAreListed == IInv => ChangesSurvive
<1> SUFFICES ASSUME IInv, NEW b \in Buf, unsaved[b], ~b_dirt[b], ~failed[b]
             PROVE  \E k \in Listed(b) : request[queue[k]].cmd = Write /\ ~request[queue[k]].sent
  BY DEF ChangesSurvive
<1>1. PICK i \in Of(b) : request[i].cmd = Write /\ ~request[i].sent
  BY DEF IInv, WillBeWritten
<1>2. PICK k \in Listed(b) : queue[k] = i
  BY ListedIsOf
<1>3. QED
  BY <1>1, <1>2

LEMMA Inductive == Spec => []IInv
<1>1. QED
  BY InitHolds, NextHolds, PTL DEF Spec

(* The device's list holds the requests in use, each once, and a buffer is
   locked exactly while one request or one task in make_request has it: for
   any number of tasks, buffers, requests, whatever the interrupts do
   (add_request, make_request, ll_rw_page, ll_rw_swap_file, end_request). *)
THEOREM RequestsStayExact == Spec => []RequestsExact
<1>1. IInv => RequestsExact
  BY OwnersCounted DEF IInv, RequestsExact
<1>2. QED
  BY <1>1, Inductive, PTL

(* A change that a file system makes to a buffer, locked or not, is on the
   device, or the buffer is dirty again, or its write has not yet been sent,
   or the write failed: clearing b_dirt in add_request forgets none. *)
THEOREM NoChangeIsForgotten == Spec => []ChangesSurvive
<1>1. QED
  BY ChangesAreListed, Inductive, PTL

(***************************************************************************)
(* The queue a task sleeps on, the wait queue of a buffer or of            *)
(* wait_for_request: module SleepQueue, whose W is WaitQueue.              *)
(***************************************************************************)
LEMMA SleepsAreCounted == NoSleeper \notin Sleeper /\ MaxSleeps \in Nat
  BY SleepAssumption DEF W!QueueAssumption

LEMMA QueueStarts == W!Init => W!IInv
<1> SUFFICES ASSUME W!Init PROVE W!IInv
  OBVIOUS
<1>1. W!TypeOK
  <2>1. chain \in Seq(Sleeper) /\ made \in [Sleeper -> 0..MaxSleeps]
    BY SleepsAreCounted DEF W!Init
  <2>2. QED
    BY <2>1
    DEF W!Init, W!TypeOK, W!Locations, W!Modes, W!Ops, W!Running, W!Interruptible, W!Uninterruptible
<1>2. W!CliSection
  BY DEF W!Init, W!CliSection
<1>3. W!Linked = {} /\ Len(chain) = 0
  BY DEF W!Init, W!Linked
<1>4. W!ChainIntact
  BY <1>3 DEF W!Init, W!ChainIntact
<1>5. QED
  BY <1>1, <1>2, <1>3, <1>4 DEF W!IInv, W!NoLostWakeup

LEMMA QueueTypeStep == W!TypeOK /\ [W!Next]_(W!vars) => W!TypeOK'
<1> SUFFICES ASSUME W!TypeOK, [W!Next]_(W!vars) PROVE W!TypeOK'
  OBVIOUS
<1> USE SleepsAreCounted
<1> USE DEF W!TypeOK, W!Locations, W!Modes, W!Ops, W!Running, W!Interruptible, W!Uninterruptible, W!Goto
<1>1. ASSUME NEW t \in Sleeper, NEW m \in W!Modes, NEW f \in W!Ops, W!Call(t, m, f)
      PROVE W!TypeOK'
  <2>1. made' \in [Sleeper -> 0..MaxSleeps]
    <3>1. made[t] + 1 \in 0..MaxSleeps
      BY <1>1 DEF W!Call, W!Cli
    <3>2. QED
      BY <1>1, <3>1 DEF W!Call, W!Cli
  <2>2. mode' \in [Sleeper -> W!Modes] /\ op' \in [Sleeper -> W!Ops]
    BY <1>1 DEF W!Call, W!Cli
  <2>3. pc' \in [Sleeper -> W!Locations]
    BY <1>1 DEF W!Call, W!Cli
  <2>4. QED
    BY <1>1, <2>1, <2>2, <2>3 DEF W!Call, W!Cli
<1>2. ASSUME NEW t \in Sleeper, W!Test(t) PROVE W!TypeOK'
  BY <1>2 DEF W!Test, W!Leave
<1>3. ASSUME NEW t \in Sleeper, W!Save(t) PROVE W!TypeOK'
  BY <1>3 DEF W!Save
<1>4. ASSUME NEW t \in Sleeper, W!Link(t) PROVE W!TypeOK'
  <2>1. chain' \in Seq(Sleeper)
    BY <1>4 DEF W!Link
  <2>2. QED
    BY <1>4, <2>1 DEF W!Link
<1>5. ASSUME NEW t \in Sleeper, W!Mark(t) PROVE W!TypeOK'
  BY <1>5 DEF W!Mark
<1>6. ASSUME NEW t \in Sleeper, W!Resume(t) PROVE W!TypeOK'
  <2>1. chain' \in Seq(Sleeper)
    <3>1. CASE UNCHANGED chain
      BY <3>1
    <3>2. CASE chain' = SubSeq(chain, 2, Len(chain))
      BY <3>2
    <3>3. QED
      BY <1>6, <3>1, <3>2 DEF W!Resume, W!IsHead, W!Wake
  <2>2. state' \in [Sleeper -> W!Modes \cup {W!Running}]
    <3>1. \/ wq \in Sleeper /\ state' = [state EXCEPT ![t] = W!Uninterruptible, ![wq] = W!Running]
          \/ state' = state
          \/ tmp[t] \in Sleeper /\ state' = [state EXCEPT ![tmp[t]] = W!Running]
      BY <1>6 DEF W!Resume, W!IsHead, W!Wake
    <3>2. QED
      BY <3>1
  <2>3. pc' \in [Sleeper -> W!Locations]
    <3>1. pc' = [pc EXCEPT ![t] = "asleep"] \/ pc' = [pc EXCEPT ![t] = "test"]
      BY <1>6 DEF W!Resume, W!IsHead, W!Wake
    <3>2. QED
      BY <3>1
  <2>5. wq' \in Sleeper \cup {NoSleeper} /\ iff' \in {"sti", "cli"}
    BY <1>6 DEF W!Resume, W!IsHead, W!Wake
  <2>4. QED
    BY <1>6, <2>1, <2>2, <2>3, <2>5 DEF W!Resume, W!IsHead, W!Wake
<1>7. ASSUME NEW t \in Sleeper, W!Signal(t) PROVE W!TypeOK'
  BY <1>7 DEF W!Signal
<1>8. ASSUME NEW next \in Sleeper \cup {NoSleeper}, W!Schedule(next) PROVE W!TypeOK'
  BY <1>8 DEF W!Schedule, W!SwitchTo, W!SignalsSeen, W!Reached
<1>9. CASE W!Unlock
  BY <1>9 DEF W!Unlock, W!Wake
<1>10. CASE UNCHANGED W!vars
  BY <1>10 DEF W!vars
<1>11. QED
  BY <1>1, <1>2, <1>3, <1>4, <1>5, <1>6, <1>7, <1>8, <1>9, <1>10 DEF W!Next

LEMMA CliStep == W!TypeOK /\ W!CliSection /\ [W!Next]_(W!vars) => W!CliSection'
<1> SUFFICES ASSUME W!TypeOK, W!CliSection, [W!Next]_(W!vars) PROVE W!CliSection'
  OBVIOUS
<1> USE SleepsAreCounted
<1> USE DEF W!TypeOK, W!CliSection, W!Locations, W!Goto
<1>1. ASSUME NEW t \in Sleeper, NEW m \in W!Modes, NEW f \in W!Ops, W!Call(t, m, f)
      PROVE W!CliSection'
  <2>1. /\ cur' = cur /\ cur = t /\ iff' = "cli" /\ locked' = locked /\ wq' = wq
        /\ tmp' = tmp /\ pc[t] = "out" /\ pc' = [pc EXCEPT ![t] = "test"]
    BY <1>1 DEF W!Call, W!Cli
  <2>2. QED
    BY <2>1
<1>2. ASSUME NEW t \in Sleeper, W!Test(t) PROVE W!CliSection'
  <2>1. /\ cur' = cur /\ cur = t /\ wq' = wq /\ tmp' = tmp /\ pc[t] = "test"
        /\ \/ locked = 1 /\ locked' = locked /\ iff' = iff /\ pc' = [pc EXCEPT ![t] = "save"]
           \/ pc' = [pc EXCEPT ![t] = "out"]
    BY <1>2 DEF W!Test, W!Leave
  <2>2. QED
    BY <2>1
<1>3. ASSUME NEW t \in Sleeper, W!Save(t) PROVE W!CliSection'
  BY <1>3 DEF W!Save
<1>4. ASSUME NEW t \in Sleeper, W!Link(t) PROVE W!CliSection'
  BY <1>4 DEF W!Link
<1>5. ASSUME NEW t \in Sleeper, W!Mark(t) PROVE W!CliSection'
  BY <1>5 DEF W!Mark
<1>6. ASSUME NEW t \in Sleeper, W!Resume(t) PROVE W!CliSection'
  <2>1. /\ cur' = cur /\ cur = t /\ locked' = locked /\ tmp' = tmp /\ pc[t] = "resume"
        /\ \/ pc' = [pc EXCEPT ![t] = "asleep"] /\ UNCHANGED <<iff, wq>>
           \/ pc' = [pc EXCEPT ![t] = "test"] /\ iff' = "cli"
    BY <1>6 DEF W!Resume, W!IsHead, W!Wake
  <2>2. QED
    BY <2>1
<1>7. ASSUME NEW t \in Sleeper, W!Signal(t) PROVE W!CliSection'
  BY <1>7 DEF W!Signal
<1>8. ASSUME NEW next \in Sleeper \cup {NoSleeper}, W!Schedule(next) PROVE W!CliSection'
  BY <1>8 DEF W!Schedule, W!SwitchTo, W!Reached
<1>9. CASE W!Unlock
  BY <1>9 DEF W!Unlock, W!Wake
<1>10. CASE UNCHANGED W!vars
  BY <1>10 DEF W!vars
<1>11. QED
  BY <1>1, <1>2, <1>3, <1>4, <1>5, <1>6, <1>7, <1>8, <1>9, <1>10 DEF W!Next

(***************************************************************************)
(* The list.  Only Link and the second half of Resume change it: a push    *)
(* and a pop.                                                              *)
(***************************************************************************)
LEMMA ListUntouched ==
  ASSUME W!ChainIntact, chain' = chain, wq' = wq, tmp' = tmp, W!Linked' = W!Linked
  PROVE  W!ChainIntact'
  BY DEF W!ChainIntact

LEMMA ChainStep == W!TypeOK /\ W!CliSection /\ W!ChainIntact /\ [W!Next]_(W!vars) => W!ChainIntact'
<1> SUFFICES ASSUME W!TypeOK, W!CliSection, W!ChainIntact, [W!Next]_(W!vars) PROVE W!ChainIntact'
  OBVIOUS
<1> USE SleepsAreCounted
<1>1. ASSUME NEW t \in Sleeper, NEW m \in W!Modes, NEW f \in W!Ops, W!Call(t, m, f)
      PROVE W!ChainIntact'
  <2>1. W!Linked' = W!Linked
    BY <1>1 DEF W!Call, W!Cli, W!Linked, W!Goto, W!TypeOK
  <2>2. QED
    BY <1>1, <2>1, ListUntouched DEF W!Call, W!Cli
<1>2. ASSUME NEW t \in Sleeper, W!Test(t) PROVE W!ChainIntact'
  <2>1. W!Linked' = W!Linked
    BY <1>2 DEF W!Test, W!Leave, W!Linked, W!Goto, W!TypeOK
  <2>2. QED
    BY <1>2, <2>1, ListUntouched DEF W!Test, W!Leave
<1>3. ASSUME NEW t \in Sleeper, W!Save(t) PROVE W!ChainIntact'
  <2>1. W!Linked' = W!Linked /\ t \notin W!Linked
    BY <1>3 DEF W!Save, W!Linked, W!Goto, W!TypeOK
  <2>2. \A i \in 1..Len(chain) : chain[i] \in W!Linked /\ tmp'[chain[i]] = tmp[chain[i]]
    BY <1>3, <2>1 DEF W!Save, W!ChainIntact, W!TypeOK
  <2>3. QED
    BY <1>3, <2>1, <2>2 DEF W!Save, W!ChainIntact
<1>4. ASSUME NEW t \in Sleeper, W!Link(t) PROVE W!ChainIntact'
  <2> DEFINE n == Len(chain)
  <2>1. W!Linked' = W!Linked \cup {t} /\ t \notin W!Linked
    BY <1>4 DEF W!Link, W!Linked, W!Goto, W!TypeOK
  <2>2. /\ n \in Nat /\ Len(chain') = n + 1
        /\ chain'[1] = t /\ \A i \in 1..n : chain'[i + 1] = chain[i]
    BY <1>4 DEF W!Link, W!TypeOK
  <2>3. \A i \in 2..n + 1 : i - 1 \in 1..n /\ chain'[i] = chain[i - 1]
    BY <2>2
  <2>4. tmp' = tmp /\ wq' = t /\ tmp[t] = wq
    BY <1>4 DEF W!Link, W!CliSection
  <2>5. W!Linked' = {chain'[i] : i \in 1..Len(chain')}
    <3>1. ASSUME NEW u \in W!Linked' PROVE \E i \in 1..n + 1 : u = chain'[i]
      <4>1. CASE u = t
        BY <4>1, <2>2
      <4>2. CASE u # t
        <5>1. PICK i \in 1..n : u = chain[i]
          BY <4>2, <2>1 DEF W!ChainIntact
        <5>2. i + 1 \in 1..n + 1 /\ u = chain'[i + 1]
          BY <5>1, <2>2
        <5>3. QED
          BY <5>2
      <4>3. QED
        BY <4>1, <4>2
    <3>2. \A i \in 1..n + 1 : chain'[i] \in W!Linked'
      BY <2>1, <2>2, <2>3 DEF W!ChainIntact
    <3>3. QED
      BY <2>2, <3>1, <3>2
  <2>6. \A i, j \in 1..Len(chain') : chain'[i] = chain'[j] => i = j
    <3>1. \A i \in 2..n + 1 : chain'[i] # t
      BY <2>1, <2>3 DEF W!ChainIntact
    <3>2. \A i, j \in 2..n + 1 : chain'[i] = chain'[j] => i = j
      BY <2>2, <2>3 DEF W!ChainIntact
    <3>3. QED
      BY <2>2, <3>1, <3>2
  <2>7. wq' = IF chain' = <<>> THEN NoSleeper ELSE chain'[1]
    BY <1>4, <2>2, <2>4
  <2>8. \A i \in 1..Len(chain') :
           tmp'[chain'[i]] = IF i = Len(chain') THEN NoSleeper ELSE chain'[i + 1]
    <3>1. tmp'[chain'[1]] = IF 1 = n + 1 THEN NoSleeper ELSE chain'[2]
      <4>1. CASE n = 0
        BY <4>1, <2>2, <2>4 DEF W!ChainIntact, W!TypeOK
      <4>2. CASE n # 0
        <5>1. chain # <<>> /\ 1 \in 1..n /\ chain'[2] = chain[1]
          BY <4>2, <2>2
        <5>2. QED
          BY <4>2, <5>1, <2>2, <2>4 DEF W!ChainIntact
      <4>3. QED
        BY <4>1, <4>2
    <3>2. ASSUME NEW i \in 2..n + 1
          PROVE  tmp'[chain'[i]] = IF i = n + 1 THEN NoSleeper ELSE chain'[i + 1]
      <4>1. i - 1 \in 1..n /\ chain'[i] = chain[i - 1]
        BY <2>3
      <4>2. tmp[chain[i - 1]] = IF i - 1 = n THEN NoSleeper ELSE chain[i]
        BY <4>1, <2>2 DEF W!ChainIntact
      <4>3. i # n + 1 => chain'[i + 1] = chain[i]
        BY <2>2
      <4>4. QED
        BY <4>1, <4>2, <4>3, <2>2, <2>4
    <3>3. QED
      BY <2>2, <3>1, <3>2
  <2>9. QED
    BY <2>5, <2>6, <2>7, <2>8 DEF W!ChainIntact
<1>5. ASSUME NEW t \in Sleeper, W!Mark(t) PROVE W!ChainIntact'
  <2>1. W!Linked' = W!Linked
    BY <1>5 DEF W!Mark, W!Linked, W!Goto, W!TypeOK
  <2>2. QED
    BY <1>5, <2>1, ListUntouched DEF W!Mark
<1>7. ASSUME NEW t \in Sleeper, W!Signal(t) PROVE W!ChainIntact'
  BY <1>7, ListUntouched DEF W!Signal, W!Linked
<1>8. ASSUME NEW next \in Sleeper \cup {NoSleeper}, W!Schedule(next) PROVE W!ChainIntact'
  <2>1. W!Linked' = W!Linked
    BY <1>8 DEF W!Schedule, W!SwitchTo, W!Reached, W!Linked, W!TypeOK
  <2>2. QED
    BY <1>8, <2>1, ListUntouched DEF W!Schedule, W!SwitchTo
<1>9. CASE W!Unlock
  BY <1>9, ListUntouched DEF W!Unlock, W!Wake, W!Linked
<1>10. CASE UNCHANGED W!vars
  BY <1>10, ListUntouched DEF W!vars, W!Linked
<1>6. ASSUME NEW t \in Sleeper, W!Resume(t) PROVE W!ChainIntact'
  <2> DEFINE n == Len(chain)
  <2>1. t \in W!Linked
    BY <1>6 DEF W!Resume, W!IsHead, W!Wake, W!Linked
  <2>2. n \in Nat /\ n # 0 /\ chain # <<>> /\ wq = chain[1] /\ chain[1] \in Sleeper
    BY <2>1 DEF W!ChainIntact, W!TypeOK
  <2>3. CASE wq # t
    <3>1. chain' = chain /\ wq' = wq /\ tmp' = tmp /\ pc' = [pc EXCEPT ![t] = "asleep"]
      BY <1>6, <2>2, <2>3 DEF W!Resume, W!IsHead, W!Wake, W!Goto
    <3>2. W!Linked' = W!Linked
      BY <3>1, <2>1 DEF W!Linked, W!TypeOK
    <3>3. QED
      BY <3>1, <3>2, ListUntouched
  <2>4. CASE wq = t
    <3>1. /\ chain' = SubSeq(chain, 2, n) /\ wq' = tmp[t] /\ tmp' = tmp
          /\ pc' = [pc EXCEPT ![t] = "test"]
      BY <1>6, <2>2, <2>4 DEF W!Resume, W!IsHead, W!Wake, W!Goto
    <3>2. W!Linked' = W!Linked \ {t}
      BY <3>1 DEF W!Linked, W!TypeOK
    <3>3. Len(chain') = n - 1 /\ \A i \in 1..n - 1 : chain'[i] = chain[i + 1]
      <4>1. 2 \in 1..Len(chain) + 1 /\ n \in 2 - 1..Len(chain) /\ chain \in Seq(Sleeper)
        BY <2>2 DEF W!TypeOK
      <4>2. /\ Len(SubSeq(chain, 2, n)) = IF 2 <= n THEN n - 2 + 1 ELSE 0
            /\ \A i \in 1..n - 2 + 1 : SubSeq(chain, 2, n)[i] = chain[2 + i - 1]
        BY <4>1, SubSeqProperties
      <4>3. Len(chain') = n - 1
        <5>1. CASE 2 <= n
          <6>1. Len(SubSeq(chain, 2, n)) = n - 2 + 1
            BY <4>2, <5>1
          <6>2. QED
            BY <2>2, <3>1, <6>1
        <5>2. CASE ~(2 <= n)
          <6>1. n \in Nat /\ n # 0
            BY <2>2
          <6>2. n = 1
            BY <5>2, <6>1
          <6>3. Len(SubSeq(chain, 2, n)) = 0
            BY <4>2, <5>2
          <6>4. QED
            BY <3>1, <6>2, <6>3
        <5>3. QED
          BY <5>1, <5>2
      <4>4. ASSUME NEW i \in 1..n - 1 PROVE chain'[i] = chain[i + 1]
        <5>1. i \in 1..n - 2 + 1 /\ 2 + i - 1 = i + 1
          BY <2>2
        <5>2. QED
          BY <3>1, <4>2, <5>1
      <4>5. QED
        BY <4>3, <4>4
    <3>4. \A i \in 2..n : chain[i] # t /\ i - 1 \in 1..n - 1 /\ chain[i] = chain'[i - 1]
      <4>1. ASSUME NEW i \in 2..n PROVE chain[i] # t
        <5>1. i \in 1..n /\ 1 \in 1..n /\ i # 1
          BY <2>2
        <5>2. chain[i] # chain[1]
          BY <5>1 DEF W!ChainIntact
        <5>3. QED
          BY <2>2, <2>4, <5>2
      <4>2. ASSUME NEW i \in 2..n PROVE i - 1 \in 1..n - 1 /\ chain[i] = chain'[i - 1]
        BY <2>2, <3>3
      <4>3. QED
        BY <4>1, <4>2
    <3>5. W!Linked' = {chain'[i] : i \in 1..Len(chain')}
      <4>1. ASSUME NEW u \in W!Linked' PROVE \E i \in 1..n - 1 : u = chain'[i]
        <5>1. PICK i \in 1..n : u = chain[i]
          BY <3>2 DEF W!ChainIntact
        <5>2. i \in 2..n
          <6>1. u # t
            BY <3>2
          <6>2. i # 1
            BY <2>2, <2>4, <5>1, <6>1
          <6>3. QED
            BY <2>2, <6>2
        <5>3. QED
          BY <3>4, <5>1, <5>2
      <4>2. \A i \in 1..n - 1 : chain'[i] \in W!Linked'
        BY <2>2, <3>2, <3>3, <3>4 DEF W!ChainIntact
      <4>3. QED
        BY <3>3, <4>1, <4>2
    <3>6. \A i, j \in 1..Len(chain') : chain'[i] = chain'[j] => i = j
      <4>1. ASSUME NEW i \in 1..n - 1, NEW j \in 1..n - 1, chain'[i] = chain'[j]
            PROVE  i = j
        <5>1. i + 1 \in 1..n /\ j + 1 \in 1..n /\ chain[i + 1] = chain[j + 1]
          BY <2>2, <3>3, <4>1
        <5>2. i + 1 = j + 1
          BY <5>1 DEF W!ChainIntact
        <5>3. QED
          BY <5>2
      <4>2. QED
        BY <3>3, <4>1
    <3>7. tmp[t] = IF n = 1 THEN NoSleeper ELSE chain[2]
      <4>1. 1 \in 1..n
        BY <2>2
      <4>2. tmp[chain[1]] = IF 1 = n THEN NoSleeper ELSE chain[1 + 1]
        BY <4>1 DEF W!ChainIntact
      <4>3. QED
        BY <2>2, <2>4, <4>2
    <3>8. wq' = IF chain' = <<>> THEN NoSleeper ELSE chain'[1]
      <4>1. CASE n = 1
        <5>1. chain' = <<>>
          BY <4>1, <3>1, <2>2 DEF W!TypeOK
        <5>2. QED
          BY <4>1, <5>1, <3>1, <3>7
      <4>2. CASE n # 1
        <5>1. chain' # <<>> /\ chain'[1] = chain[2]
          BY <4>2, <3>3, <2>2
        <5>2. QED
          BY <4>2, <5>1, <3>1, <3>7
      <4>3. QED
        BY <4>1, <4>2
    <3>9. \A i \in 1..Len(chain') :
             tmp'[chain'[i]] = IF i = Len(chain') THEN NoSleeper ELSE chain'[i + 1]
      <4>1. ASSUME NEW i \in 1..n - 1
            PROVE  tmp'[chain'[i]] = IF i = n - 1 THEN NoSleeper ELSE chain'[i + 1]
        <5>1. i + 1 \in 1..n /\ chain'[i] = chain[i + 1]
          BY <3>3, <2>2
        <5>2. tmp[chain[i + 1]] = IF i + 1 = n THEN NoSleeper ELSE chain[i + 2]
          BY <5>1, <2>2 DEF W!ChainIntact
        <5>3. i # n - 1 => chain'[i + 1] = chain[i + 2]
          BY <3>3, <2>2
        <5>4. QED
          BY <5>1, <5>2, <5>3, <3>1, <2>2
      <4>2. QED
        BY <3>3, <4>1
    <3>10. QED
      BY <3>5, <3>6, <3>8, <3>9 DEF W!ChainIntact
  <2>5. QED
    BY <2>3, <2>4
<1>11. QED
  BY <1>1, <1>2, <1>3, <1>4, <1>5, <1>6, <1>7, <1>8, <1>9, <1>10 DEF W!Next

(***************************************************************************)
(* No lost wakeup.  A wakeup could be lost between the test of b_lock and  *)
(* the assignment of the state, but there the buffer is still locked       *)
(* (CliSection); later it is the list that keeps it: whoever passes it on  *)
(* passes it to a task that is in the list.                                *)
(***************************************************************************)
LEMMA WakeupStep == W!IInv /\ [W!Next]_(W!vars) => W!NoLostWakeup'
<1> SUFFICES ASSUME W!IInv, [W!Next]_(W!vars), locked' = 0, W!Linked' # {}
             PROVE  \E t \in W!Linked' : state'[t] = W!Running
  BY DEF W!NoLostWakeup
<1> USE SleepsAreCounted
<1> USE DEF W!IInv, W!TypeOK, W!Goto, W!Linked
<1>h. W!Linked # {} => wq \in W!Linked
  BY DEF W!ChainIntact
<1>1. ASSUME NEW t \in Sleeper, NEW m \in W!Modes, NEW f \in W!Ops, W!Call(t, m, f)
      PROVE \E u \in W!Linked' : state'[u] = W!Running
  BY <1>1 DEF W!Call, W!Cli, W!NoLostWakeup
<1>2. ASSUME NEW t \in Sleeper, W!Test(t) PROVE \E u \in W!Linked' : state'[u] = W!Running
  <2>1. W!Linked' = W!Linked /\ state' = state
    BY <1>2 DEF W!Test, W!Leave
  <2>2. locked = 0
    BY <1>2 DEF W!Test, W!Leave
  <2>3. QED
    BY <2>1, <2>2 DEF W!NoLostWakeup
<1>3. ASSUME NEW t \in Sleeper, W!Save(t) PROVE \E u \in W!Linked' : state'[u] = W!Running
  BY <1>3 DEF W!Save, W!CliSection
<1>4. ASSUME NEW t \in Sleeper, W!Link(t) PROVE \E u \in W!Linked' : state'[u] = W!Running
  BY <1>4 DEF W!Link, W!CliSection
<1>5. ASSUME NEW t \in Sleeper, W!Mark(t) PROVE \E u \in W!Linked' : state'[u] = W!Running
  BY <1>5 DEF W!Mark, W!CliSection
<1>6. ASSUME NEW t \in Sleeper, W!Resume(t) PROVE \E u \in W!Linked' : state'[u] = W!Running
  <2>1. t \in W!Linked /\ wq \in W!Linked
    BY <1>6, <1>h DEF W!Resume, W!IsHead, W!Wake
  <2>2. CASE wq # t
    <3>1. /\ state' = [state EXCEPT ![t] = W!Uninterruptible, ![wq] = W!Running]
          /\ pc' = [pc EXCEPT ![t] = "asleep"]
      BY <1>6, <2>1, <2>2 DEF W!Resume, W!IsHead, W!Wake
    <3>2. wq \in W!Linked' /\ state'[wq] = W!Running
      BY <2>1, <2>2, <3>1
    <3>3. QED
      BY <3>2
  <2>3. CASE wq = t
    <3>1. /\ pc' = [pc EXCEPT ![t] = "test"]
          /\ state' = IF tmp[t] = NoSleeper THEN state ELSE [state EXCEPT ![tmp[t]] = W!Running]
          /\ wq' = tmp[t]
      BY <1>6, <2>1, <2>3 DEF W!Resume, W!IsHead, W!Wake
    <3>2. wq' \in W!Linked'
      BY ChainStep DEF W!ChainIntact
    <3>3. tmp[t] \in Sleeper /\ state'[tmp[t]] = W!Running
      BY <3>1, <3>2
    <3>4. QED
      BY <3>1, <3>2, <3>3
  <2>4. QED
    BY <2>2, <2>3
<1>7. ASSUME NEW t \in Sleeper, W!Signal(t) PROVE \E u \in W!Linked' : state'[u] = W!Running
  BY <1>7 DEF W!Signal, W!NoLostWakeup
<1>8. ASSUME NEW next \in Sleeper \cup {NoSleeper}, W!Schedule(next)
      PROVE \E u \in W!Linked' : state'[u] = W!Running
  <2>1. W!Linked' = W!Linked /\ locked' = locked
    BY <1>8 DEF W!Schedule, W!SwitchTo, W!Reached
  <2>2. \A u \in Sleeper : state[u] = W!Running => state'[u] = W!Running
    BY <1>8 DEF W!Schedule, W!SwitchTo, W!SignalsSeen
  <2>3. QED
    BY <2>1, <2>2 DEF W!NoLostWakeup
<1>9. CASE W!Unlock
  BY <1>9, <1>h DEF W!Unlock, W!Wake
<1>10. CASE UNCHANGED W!vars
  BY <1>10 DEF W!vars, W!NoLostWakeup
<1>11. QED
  BY <1>1, <1>2, <1>3, <1>4, <1>5, <1>6, <1>7, <1>8, <1>9, <1>10 DEF W!Next

LEMMA QueueInvariant == W!Spec => []W!IInv
<1>1. W!IInv /\ [W!Next]_(W!vars) => W!IInv'
  BY QueueTypeStep, CliStep, ChainStep, WakeupStep DEF W!IInv
<1>2. QED
  BY QueueStarts, <1>1, PTL DEF W!Spec

(* The type invariant of the wait queue holds in every reachable state. *)
THEOREM TypeCorrect == QueueSpec => []W!TypeOK
  BY QueueInvariant, PTL DEF W!IInv, QueueSpec

(* __sleep_on keeps its list: the tmp variables on the kernel stacks link
   exactly the sleeping tasks, from *p down, for any number of sleepers. *)
THEOREM SleepersAreLinked == QueueSpec => []ChainIntact
  BY QueueInvariant, PTL DEF W!IInv, QueueSpec, ChainIntact

(* sleep_on called with interrupts off, as lock_buffer and wait_on_buffer do,
   loses no wakeup of an interrupt, for any number of tasks. *)
THEOREM WakeupsAreKept == QueueSpec => []NoLostWakeup
  BY QueueInvariant, PTL DEF W!IInv, QueueSpec, NoLostWakeup

(***************************************************************************)
(* The driver the requests of a hard disk go to: each is taken up, after   *)
(* an error, a reset or a timeout, at the first sector that has not been   *)
(* moved.                                                                  *)
(***************************************************************************)
LEMMA DiskConstants == /\ SECTORS \in Nat /\ SECTORS > 0 /\ MAX_DISK_ERRORS \in Nat
/\ NR_HD \in Nat /\ NR_SECTS \in Nat
                      /\ MaxDiskFaults \in Nat /\ \A r \in HD!Id : DiskRequest[r].start \in Nat
  BY DriverAssumption DEF HD!DiskAssumption

(* What the routines do to the list and what they leave alone. *)
Same(h, g) == h.queue = g.queue /\ h.good = g.good /\ h.ended = g.ended

LEMMA SameDiskList == ASSUME NEW h, NEW g, Same(h, g), HD!ListFits(h) PROVE HD!ListFits(g)
<1>1. ASSUME NEW k \in 1..Len(g.queue) PROVE HD!EntryFits(g, g.queue[k])
  <2>1. k \in 1..Len(h.queue) /\ k > 0
    BY DEF Same
  <2>2. HD!EntryFits(h, h.queue[k])
    BY <2>1 DEF HD!ListFits, HD!FitBut
  <2>3. QED  BY <2>2 DEF Same, HD!EntryFits
<1>2. HD!EachOnce(g)
  BY DEF Same, HD!ListFits, HD!FitBut, HD!EachOnce
<1>3. ASSUME NEW r \in HD!Id PROVE HD!Accounted(g, r)
  BY DEF Same, HD!ListFits, HD!FitBut, HD!Accounted, HD!Listed
<1>4. QED  BY <1>1, <1>2, <1>3 DEF HD!ListFits, HD!FitBut

(* CURRENT is the first entry of the list. *)
LEMMA HeadFits ==
  ASSUME NEW h, HD!Typed(h), h.queue # <<>>
  PROVE  /\ HD!Current(h) = h.queue[1] /\ HD!Current(h) \in HD!Entry /\ Len(h.queue) \in Nat \ {0}
         /\ 1 \in 1..Len(h.queue)
<1>1. h.queue \in Seq(HD!Entry)
  BY DEF HD!Typed
<1>2. Len(h.queue) \in Nat /\ Len(h.queue) # 0
  BY <1>1, EmptySeq
<1>3. 1 \in 1..Len(h.queue)
  BY <1>2
<1>4. h.queue[1] \in HD!Entry
  BY <1>1, <1>3, ElementOfSeq
<1>5. QED  BY <1>2, <1>3, <1>4 DEF HD!Current

(* end_request takes the first entry off the list. *)
LEMMA EndFits ==
  ASSUME NEW h, HD!Typed(h), h.queue # <<>>, NEW result \in {"ok", "error"}, HD!FitBut(h, 1),
         result = "ok" => h.good[HD!Current(h).id] = SECTORS
  PROVE  HD!Typed(HD!EndRequest(h, result)) /\ HD!ListFits(HD!EndRequest(h, result))
<1>0. PICK n, c : n = Len(h.queue) /\ c = h.queue[1].id
  OBVIOUS
<1>e. PICK e : e = HD!EndRequest(h, result)
  OBVIOUS
<1>1. /\ HD!Current(h) = h.queue[1] /\ c \in HD!Id /\ n \in Nat \ {0} /\ h.queue \in Seq(HD!Entry)
      /\ h.ended \in [HD!Id -> {"not yet", "ok", "error"}] /\ h.good \in [HD!Id -> Nat]
  BY <1>0, HeadFits DEF HD!Entry, HD!Typed
<1>n. n \in Nat /\ n # 0
  BY <1>1
<1>2. /\ Tail(h.queue) \in Seq(HD!Entry) /\ Len(Tail(h.queue)) = n - 1
      /\ \A k \in 1..n - 1 : Tail(h.queue)[k] = h.queue[k + 1]
  BY <1>0, <1>1, HeadTailProperties
<1>3. e = [h EXCEPT !.ended = [h.ended EXCEPT ![c] = result], !.queue = Tail(h.queue)]
  BY <1>0, <1>1, <1>e DEF HD!EndRequest
<1>4. /\ e.queue = Tail(h.queue) /\ e.good = h.good /\ e.ended = [h.ended EXCEPT ![c] = result]
  BY <1>3 DEF HD!Typed
<1>5. HD!Typed(e)
  <2>1. e.ended \in [HD!Id -> {"not yet", "ok", "error"}]
    BY <1>1, <1>4
  <2>2. QED  BY <1>2, <1>3, <1>4, <2>1 DEF HD!Typed
<1>6. ASSUME NEW k \in 1..n - 1
      PROVE HD!EntryFits(e, e.queue[k]) /\ e.queue[k] = h.queue[k + 1] /\ e.queue[k].id # c
  <2>1. k + 1 > 1 /\ k + 1 \in 1..n /\ 1 \in 1..n /\ k + 1 # 1
    BY <1>n
  <2>2. e.queue[k] = h.queue[k + 1]
    BY <1>2, <1>4
  <2>3. h.queue[k + 1] \in HD!Entry
    BY <1>0, <1>1, <2>1, ElementOfSeq
  <2>4. h.queue[k + 1].id # c
    BY <1>0, <2>1 DEF HD!FitBut, HD!EachOnce
  <2>5. HD!EntryFits(h, h.queue[k + 1]) /\ h.queue[k + 1].id \in HD!Id
    BY <1>0, <2>1, <2>3 DEF HD!Entry, HD!FitBut
  <2>6. e.ended[h.queue[k + 1].id] = h.ended[h.queue[k + 1].id]
    BY <1>1, <1>4, <2>4, <2>5
  <2>7. QED  BY <1>4, <2>2, <2>4, <2>5, <2>6 DEF HD!EntryFits
<1>7. ASSUME NEW k \in 1..n - 1, NEW l \in 1..n - 1, e.queue[k].id = e.queue[l].id PROVE k = l
  <2>1. k + 1 \in 1..n /\ l + 1 \in 1..n /\ k \in Nat /\ l \in Nat
    BY <1>n
  <2>2. h.queue[k + 1].id = h.queue[l + 1].id
    BY <1>6, <1>7
  <2>3. k + 1 = l + 1
    BY <1>0, <2>1, <2>2 DEF HD!FitBut, HD!EachOnce
  <2>4. QED  BY <2>1, <2>3
<1>9. Len(e.queue) = n - 1
  BY <1>2, <1>4
<1>8. ASSUME NEW r \in HD!Id PROVE HD!Accounted(e, r)
  <2>1. CASE r = c
    BY <1>0, <1>1, <1>4, <2>1 DEF HD!Accounted
  <2>2. CASE r # c
    <3>1. e.ended[r] = h.ended[r] /\ e.good[r] = h.good[r]
      BY <1>1, <1>4, <2>2
    <3>2. ASSUME NEW k \in 1..n, h.queue[k].id = r PROVE HD!Listed(e, r)
      <4>1. k # 1
        BY <1>0, <2>2, <3>2
      <4>2. k - 1 \in 1..n - 1 /\ k = (k - 1) + 1
        BY <1>n, <4>1
      <4>3. e.queue[k - 1] = h.queue[k]
        BY <1>6, <4>2
      <4>4. QED  BY <1>9, <3>2, <4>2, <4>3 DEF HD!Listed
    <3>3. HD!Accounted(h, r)
      BY DEF HD!FitBut
    <3>4. QED  BY <1>0, <3>1, <3>2, <3>3 DEF HD!Accounted, HD!Listed
  <2>3. QED  BY <2>1, <2>2
<1>10. HD!ListFits(e)
  <2>1. HD!EachOnce(e)
    BY <1>7, <1>9 DEF HD!EachOnce
  <2>2. \A k \in 1..Len(e.queue) : HD!EntryFits(e, e.queue[k])
    BY <1>6, <1>9
  <2>3. QED  BY <1>8, <2>1, <2>2 DEF HD!ListFits, HD!FitBut
<1>11. QED  BY <1>5, <1>10, <1>e

(* The first entry changed in place. *)
LEMMA FirstSet ==
  ASSUME NEW h, HD!Typed(h), h.queue # <<>>, NEW q \in HD!Entry
  PROVE  /\ [h.queue EXCEPT ![1] = q] \in Seq(HD!Entry)
         /\ Len([h.queue EXCEPT ![1] = q]) = Len(h.queue)
         /\ [h.queue EXCEPT ![1] = q][1] = q
         /\ [h.queue EXCEPT ![1] = q] # <<>>
         /\ \A k \in 2..Len(h.queue) : [h.queue EXCEPT ![1] = q][k] = h.queue[k]
<1>1. h.queue \in Seq(HD!Entry) /\ 1 \in 1..Len(h.queue) /\ Len(h.queue) \in Nat \ {0}
  BY HeadFits DEF HD!Typed
<1>2. /\ [h.queue EXCEPT ![1] = q] \in Seq(HD!Entry) /\ Len([h.queue EXCEPT ![1] = q]) = Len(h.queue)
      /\ \A k \in 1..Len(h.queue) : [h.queue EXCEPT ![1] = q][k] = IF k = 1 THEN q ELSE h.queue[k]
  BY <1>1, ExceptSeq
<1>3. QED  BY <1>1, <1>2, EmptySeq

(* What a change of the list leaves alone. *)
SameDriver(h, g) == /\ g.do_hd = h.do_hd /\ g.timer = h.timer /\ g.reset = h.reset /\ g.recal = h.recal
                    /\ g.i = h.i /\ g.pc = h.pc /\ g.ctl = h.ctl /\ g.irq = h.irq

LEMMA EndDriver == ASSUME NEW h, HD!Typed(h), NEW result PROVE SameDriver(h, HD!EndRequest(h, result))
  BY DEF HD!Typed, HD!EndRequest, SameDriver

LEMMA NotFirst == ASSUME NEW n \in Nat, NEW k \in 1..n, k # 1 PROVE k \in 2..n /\ k > 1
  OBVIOUS

LEMMA PastFirst == ASSUME NEW n \in Nat, NEW k \in 1..n, k > 1 PROVE k \in 2..n /\ k # 1
  OBVIOUS

(* The first entry, and the sectors counted as moved, replaced. *)
Replaced(h, q, G) == [h EXCEPT !.queue = [h.queue EXCEPT ![1] = q], !.good = G]

Replaceable(h, q, G) ==
  /\ HD!Typed(h) /\ h.queue # <<>> /\ HD!FitBut(h, 1) /\ h.ended[HD!Current(h).id] = "not yet"
  /\ q \in HD!Entry /\ q.id = HD!Current(h).id
  /\ G \in [HD!Id -> Nat] /\ \A r \in HD!Id : r # q.id => G[r] = h.good[r]

Replacement(h, q, G, g) ==
  /\ HD!Typed(g) /\ g.queue # <<>> /\ HD!Current(g) = q /\ HD!FitBut(g, 1)
  /\ SameDriver(h, g) /\ g.ended = h.ended /\ g.good = G
  /\ HD!EntryFits(g, q) => HD!ListFits(g)

LEMMA FirstChanged ==
  ASSUME NEW h, NEW q, NEW G, Replaceable(h, q, G)
  PROVE  Replacement(h, q, G, Replaced(h, q, G))
<1>g. PICK g : g = Replaced(h, q, G)
  OBVIOUS
<1>h. /\ HD!Typed(h) /\ h.queue # <<>> /\ HD!FitBut(h, 1) /\ h.ended[HD!Current(h).id] = "not yet"
      /\ q \in HD!Entry /\ q.id = HD!Current(h).id
      /\ G \in [HD!Id -> Nat] /\ \A r \in HD!Id : r # q.id => G[r] = h.good[r]
  BY DEF Replaceable
<1>1. /\ g.queue = [h.queue EXCEPT ![1] = q] /\ g.good = G /\ g.ended = h.ended /\ SameDriver(h, g)
  BY <1>g, <1>h DEF HD!Typed, SameDriver, Replaced
<1>2. PICK n : n = Len(h.queue)
  OBVIOUS
<1>3. /\ g.queue \in Seq(HD!Entry) /\ Len(g.queue) = n /\ g.queue[1] = q /\ g.queue # <<>>
      /\ \A k \in 2..n : g.queue[k] = h.queue[k]
  <2>1. /\ [h.queue EXCEPT ![1] = q] \in Seq(HD!Entry) /\ Len([h.queue EXCEPT ![1] = q]) = Len(h.queue)
        /\ [h.queue EXCEPT ![1] = q][1] = q /\ [h.queue EXCEPT ![1] = q] # <<>>
        /\ \A k \in 2..Len(h.queue) : [h.queue EXCEPT ![1] = q][k] = h.queue[k]
    BY <1>h, FirstSet
  <2>2. QED  BY <1>1, <1>2, <2>1, Zenon
<1>4. HD!Typed(g)
  BY <1>g, <1>h, <1>1, <1>3 DEF HD!Typed, Replaced
<1>5. HD!Current(g) = q
  BY <1>3, <1>4, HeadFits
<1>6. /\ n \in Nat /\ n # 0 /\ 1 \in 1..n /\ q.id \in HD!Id /\ HD!Current(h) = h.queue[1]
      /\ h.queue \in Seq(HD!Entry)
  BY <1>h, <1>2, HeadFits DEF HD!Entry, HD!Typed
<1>7. ASSUME NEW k \in 1..n PROVE g.queue[k].id = h.queue[k].id
  <2>1. CASE k = 1
    BY <1>h, <1>3, <1>6, <2>1
  <2>2. CASE k # 1
    <3>1. k \in 2..n
      BY <1>6, <2>2, NotFirst
    <3>2. QED  BY <1>3, <3>1
  <2>3. QED  BY <2>1, <2>2
<1>8. HD!EachOnce(g)
  <2>1. HD!EachOnce(h)
    BY <1>h DEF HD!FitBut
  <2>2. QED  BY <1>2, <1>3, <1>7, <2>1 DEF HD!EachOnce
<1>9. ASSUME NEW k \in 1..n, k > 1 PROVE HD!EntryFits(g, g.queue[k])
  <2>1. k \in 2..n /\ k # 1
    BY <1>6, <1>9, PastFirst
  <2>2. g.queue[k] = h.queue[k] /\ HD!EntryFits(h, h.queue[k])
    BY <1>h, <1>2, <1>3, <1>9, <2>1 DEF HD!FitBut
  <2>3. h.queue[k].id \in HD!Id
    <3>1. h.queue[k] \in HD!Entry
      BY <1>2, <1>6, ElementOfSeq
    <3>2. QED  BY <3>1 DEF HD!Entry
  <2>4. h.queue[k].id # q.id
    BY <1>h, <1>2, <1>6, <2>1 DEF HD!FitBut, HD!EachOnce
  <2>5. G[h.queue[k].id] = h.good[h.queue[k].id]
    BY <1>h, <2>3, <2>4
  <2>6. QED  BY <1>1, <2>2, <2>5 DEF HD!EntryFits
<1>10. ASSUME NEW r \in HD!Id PROVE HD!Accounted(g, r)
  <2>1. CASE r = q.id
    <3>1. HD!Listed(g, r)
      BY <1>3, <1>6, <2>1 DEF HD!Listed
    <3>2. g.ended[r] = "not yet"
      BY <1>h, <1>1, <2>1
    <3>3. QED  BY <3>1, <3>2 DEF HD!Accounted
  <2>2. CASE r # q.id
    <3>1. g.good[r] = h.good[r] /\ g.ended[r] = h.ended[r]
      BY <1>h, <1>1, <2>2
    <3>2. HD!Accounted(h, r)
      BY <1>h DEF HD!FitBut
    <3>3. HD!Listed(h, r) => HD!Listed(g, r)
      BY <1>2, <1>3, <1>7 DEF HD!Listed
    <3>4. QED  BY <3>1, <3>2, <3>3 DEF HD!Accounted
  <2>3. QED  BY <2>1, <2>2
<1>11. HD!FitBut(g, 1)
  BY <1>3, <1>8, <1>9, <1>10 DEF HD!FitBut
<1>12. ASSUME HD!EntryFits(g, q) PROVE HD!ListFits(g)
  <2>1. ASSUME NEW k \in 1..n PROVE HD!EntryFits(g, g.queue[k])
    <3>1. CASE k = 1
      BY <1>3, <1>12, <3>1
    <3>2. CASE k # 1
      <4>1. k > 1
        BY <1>6, <3>2, NotFirst
      <4>2. QED  BY <1>9, <4>1
    <3>3. QED  BY <3>1, <3>2
  <2>2. QED  BY <1>3, <1>8, <1>10, <2>1 DEF HD!ListFits, HD!FitBut
<1>13. QED  BY <1>g, <1>1, <1>3, <1>4, <1>5, <1>11, <1>12 DEF Replacement

LEMMA FirstFits ==
  ASSUME NEW h, HD!Typed(h), HD!ListFits(h), h.queue # <<>>
  PROVE  HD!FitBut(h, 1) /\ HD!EntryFits(h, HD!Current(h)) /\ h.ended[HD!Current(h).id] = "not yet"
<1>1. HD!EntryFits(h, HD!Current(h))
  BY HeadFits DEF HD!ListFits, HD!FitBut
<1>2. \A k \in 1..Len(h.queue) : k > 1 => HD!EntryFits(h, h.queue[k])
  BY HeadFits DEF HD!ListFits, HD!FitBut
<1>3. QED  BY <1>1, <1>2 DEF HD!ListFits, HD!FitBut, HD!EntryFits

(* An error counts, and may end the request; where it stopped is kept. *)
LEMMA ErredFits ==
  ASSUME NEW h, HD!Typed(h), HD!ListFits(h), h.queue # <<>>
  PROVE  HD!Typed(HD!Erred(h)) /\ HD!ListFits(HD!Erred(h)) /\ SameDriver(h, HD!Erred(h))
<1>1. PICK q : q = [h.queue[1] EXCEPT !.errors = @ + 1]
  OBVIOUS
<1>2. PICK e : e = Replaced(h, q, h.good)
  OBVIOUS
<1>3. /\ HD!Current(h) = h.queue[1] /\ HD!Current(h) \in HD!Entry /\ h.good \in [HD!Id -> Nat]
  BY HeadFits DEF HD!Typed
<1>4. q \in HD!Entry /\ q.id = HD!Current(h).id /\ q.sec = HD!Current(h).sec /\ q.nr = HD!Current(h).nr
  BY <1>1, <1>3 DEF HD!Entry
<1>5. HD!FitBut(h, 1) /\ HD!EntryFits(h, HD!Current(h)) /\ h.ended[HD!Current(h).id] = "not yet"
  BY FirstFits
<1>6. /\ HD!Typed(e) /\ e.queue # <<>> /\ HD!Current(e) = q /\ HD!FitBut(e, 1)
      /\ SameDriver(h, e) /\ e.ended = h.ended /\ e.good = h.good /\ (HD!EntryFits(e, q) => HD!ListFits(e))
  <2>1. Replaceable(h, q, h.good)
    BY <1>3, <1>4, <1>5 DEF Replaceable
  <2>2. QED  BY <1>2, <2>1, FirstChanged DEF Replacement
<1>7. HD!ListFits(e)
  BY <1>4, <1>5, <1>6 DEF HD!EntryFits
<1>8. e = [h EXCEPT !.queue[1].errors = @ + 1]
  BY <1>1, <1>2 DEF HD!Typed, Replaced
<1>9. HD!Typed(HD!EndRequest(e, "error")) /\ HD!ListFits(HD!EndRequest(e, "error"))
      /\ SameDriver(e, HD!EndRequest(e, "error"))
  BY <1>6, EndFits, EndDriver
<1>10. HD!Erred(h) = IF HD!Current(e).errors >= MAX_DISK_ERRORS THEN HD!EndRequest(e, "error") ELSE e
  BY <1>8 DEF HD!Erred
<1>11. QED  BY <1>6, <1>7, <1>9, <1>10 DEF SameDriver

(* bad_rw_intr keeps the list fitting, and ends no reset that is asked for. *)
LEMMA BadRwFits ==
  ASSUME NEW h, HD!Typed(h), HD!ListFits(h), NEW b \in HD!BadRw(h)
  PROVE  /\ HD!Typed(b) /\ HD!ListFits(b) /\ (h.reset => b.reset)
         /\ b.do_hd = h.do_hd /\ b.timer = h.timer /\ b.recal = h.recal /\ b.pc = h.pc
         /\ b.ctl = h.ctl /\ b.irq = h.irq
<1>1. PICK e : e = IF h.queue = <<>> THEN h ELSE HD!Erred(h)
  OBVIOUS
<1>2. HD!Typed(e) /\ HD!ListFits(e) /\ SameDriver(h, e)
  BY <1>1, ErredFits DEF SameDriver
<1>3. PICK x \in BOOLEAN : b = [e EXCEPT !.reset = x] /\ (e.reset => x)
  <2>1. CASE e.queue = <<>>
    <3>1. b = e \/ b = [e EXCEPT !.reset = TRUE]
      BY <1>1, <2>1 DEF HD!BadRw
    <3>2. e = [e EXCEPT !.reset = e.reset] /\ e.reset \in BOOLEAN
      BY <1>2 DEF HD!Typed
    <3>3. QED  BY <3>1, <3>2
  <2>2. CASE e.queue # <<>>
    <3>1. b = [e EXCEPT !.reset = @ \/ HD!Current(e).errors > MAX_DISK_ERRORS \div 2]
      BY <1>1, <2>2 DEF HD!BadRw
    <3>2. e.reset \in BOOLEAN
      BY <1>2 DEF HD!Typed
    <3>3. b = [e EXCEPT !.reset = (e.reset \/ HD!Current(e).errors > MAX_DISK_ERRORS \div 2)]
      BY <3>1
    <3>4. QED  BY <3>2, <3>3
  <2>3. QED  BY <2>1, <2>2
<1>4. HD!Typed(b) /\ Same(e, b)
  BY <1>2, <1>3 DEF HD!Typed, Same
<1>5. HD!ListFits(b)
  BY <1>2, <1>4, SameDiskList
<1>6. /\ (e.reset => b.reset) /\ b.do_hd = e.do_hd /\ b.timer = e.timer /\ b.recal = e.recal /\ b.pc = e.pc
      /\ b.ctl = e.ctl /\ b.irq = e.irq
  BY <1>2, <1>3 DEF HD!Typed
<1>7. QED  BY <1>2, <1>4, <1>5, <1>6 DEF SameDriver

(* A command is given, or the controller is found not ready. *)
Given(h, command, intr, o) ==
  /\ o.pc = "idle" /\ o.timer /\ o.do_hd = intr /\ o.irq = h.irq /\ o.recal = h.recal
  /\ o.reset = h.reset
  /\ o.ctl.op = command /\ o.ctl.status = "busy" /\ o.queue = h.queue
  /\ o.queue # <<>> => HD!Right(o, command)
Refused(h, o) == o.reset /\ o.pc = h.pc /\ o.recal = h.recal

LEMMA HdOutFits ==
  ASSUME NEW h, HD!Typed(h), HD!ListFits(h), ~h.reset,
         NEW command \in {"read", "write", "restore", "specify"},
         NEW intr \in HD!Handlers, NEW o \in HD!HdOut(h, command, intr)
  PROVE  HD!Typed(o) /\ HD!ListFits(o) /\ (Given(h, command, intr, o) \/ Refused(h, o))
<1>1. PICK w : w = IF h.queue = <<>> THEN [id |-> 0, sec |-> 0] ELSE HD!Current(h)
  OBVIOUS
<1>2. PICK c : c = [op |-> command, id |-> w.id, sec |-> w.sec, status |-> "busy"]
  OBVIOUS
<1>3. w.id \in HD!Id \cup {0} /\ w.sec \in Nat
  <2>1. CASE h.queue = <<>>
    BY <1>1, <2>1
  <2>2. CASE h.queue # <<>>
    <3>1. HD!Current(h) \in HD!Entry
      BY <2>2, HeadFits
    <3>2. QED  BY <1>1, <2>2, <3>1 DEF HD!Entry
  <2>3. QED  BY <2>1, <2>2
<1>4. c \in HD!Commands
  BY <1>2, <1>3 DEF HD!Commands
<1>5. o = [h EXCEPT !.do_hd = intr, !.timer = TRUE, !.ctl = c, !.pc = "idle"]
      \/ o = [h EXCEPT !.faults = @ + 1, !.reset = TRUE]
  <2>1. o \in {[HD!SetIntr(h, intr) EXCEPT !.ctl = c, !.pc = "idle"]}
              \cup {[HD!Faulty(x) EXCEPT !.reset = TRUE] : x \in {x \in {h} : HD!MayFail(x)}}
    BY <1>1, <1>2 DEF HD!HdOut
  <2>2. CASE o = [HD!SetIntr(h, intr) EXCEPT !.ctl = c, !.pc = "idle"]
    BY <2>2 DEF HD!SetIntr, HD!Typed
  <2>3. CASE o = [HD!Faulty(h) EXCEPT !.reset = TRUE]
    BY <2>3 DEF HD!Faulty, HD!Typed
  <2>4. QED  BY <2>1, <2>2, <2>3
<1>6. CASE o = [h EXCEPT !.do_hd = intr, !.timer = TRUE, !.ctl = c, !.pc = "idle"]
  <2>1. HD!Typed(o) /\ Same(h, o)
    BY <1>4, <1>6 DEF HD!Typed, Same
  <2>2. /\ o.pc = "idle" /\ o.timer /\ o.do_hd = intr /\ o.irq = h.irq /\ o.recal = h.recal
        /\ o.reset = h.reset
        /\ o.ctl = c /\ o.queue = h.queue
    BY <1>6 DEF HD!Typed
  <2>3. o.queue # <<>> => HD!Right(o, command)
    BY <1>1, <1>2, <2>2 DEF HD!Right, HD!Current
  <2>4. QED  BY <1>2, <2>1, <2>2, <2>3, SameDiskList DEF Given
<1>7. CASE o = [h EXCEPT !.faults = @ + 1, !.reset = TRUE]
  <2>1. HD!Typed(o) /\ Same(h, o)
    <3>1. h.faults \in Nat
      BY DEF HD!Typed
    <3>a. h.faults + 1 \in Nat
      BY <3>1
    <3>2. HD!Typed(o)
      BY <1>7, <3>a DEF HD!Typed
    <3>3. QED  BY <1>7, <3>2 DEF HD!Typed, Same
  <2>2. o.reset /\ o.pc = h.pc /\ o.recal = h.recal
    BY <1>7 DEF HD!Typed
  <2>3. QED  BY <2>1, <2>2, SameDiskList DEF Refused
<1>8. QED  BY <1>5, <1>6, <1>7

(* The driver comes to its next look at the list. *)
LEMMA NextRequest ==
  ASSUME NEW b, HD!Typed(b), HD!ListFits(b), ~b.irq, NEW o,
         o = [b EXCEPT !.pc = "request", !.ctl = HD!Quiet]
  PROVE  HD!Fits(o)
<1>1. HD!Quiet \in HD!Commands /\ HD!Quiet.op = "none"
  BY DEF HD!Quiet, HD!Commands
<1>2. HD!Typed(o) /\ Same(b, o)
  <2>1. HD!Typed(o)
    BY <1>1 DEF HD!Typed
  <2>2. QED  BY <2>1 DEF HD!Typed, Same
<1>3. o.pc = "request" /\ o.ctl = HD!Quiet /\ o.irq = b.irq
  BY DEF HD!Typed
<1>4. HD!DriverFits(o)
  BY <1>1, <1>3 DEF HD!DriverFits, HD!Calm
<1>5. QED  BY <1>2, <1>4, SameDiskList DEF HD!Fits

(* reset_hd goes on to the next drive, or back to the list. *)
LEMMA SpecifyFits ==
  ASSUME NEW h, HD!Typed(h), HD!ListFits(h), h.pc = "reset", h.recal, ~h.reset, NEW o \in HD!Specify(h)
  PROVE  HD!Fits(o)
<1>1. PICK n : n = [h EXCEPT !.i = @ + 1]
  OBVIOUS
<1>2. /\ HD!Typed(n) /\ Same(h, n) /\ n.pc = "reset" /\ n.recal /\ ~n.reset
  <2>1. h.i + 1 \in Int
    <3>1. h.i \in Int
      BY DEF HD!Typed
    <3>2. QED  BY <3>1
  <2>2. HD!Typed(n)
    BY <1>1, <2>1 DEF HD!Typed
  <2>3. QED  BY <1>1, <2>2 DEF HD!Typed, Same
<1>3. HD!ListFits(n)
  BY <1>2, SameDiskList
<1>4. CASE n.i < NR_HD
  <2>1. o \in HD!HdOut(n, "specify", "reset_hd")
    BY <1>1, <1>4 DEF HD!Specify
  <2>2. HD!Typed(o) /\ HD!ListFits(o) /\ (Given(n, "specify", "reset_hd", o) \/ Refused(n, o))
    BY <1>2, <1>3, <2>1, HdOutFits DEF HD!Handlers
  <2>3. HD!DriverFits(o)
    BY <1>2, <2>2 DEF HD!DriverFits, Given, Refused
  <2>4. QED  BY <2>2, <2>3 DEF HD!Fits
<1>5. CASE ~(n.i < NR_HD)
  <2>1. o = [n EXCEPT !.pc = "request"]
    BY <1>1, <1>5 DEF HD!Specify
  <2>2. HD!Typed(o) /\ Same(n, o) /\ o.pc = "request" /\ o.recal
    BY <1>2, <2>1 DEF HD!Typed, Same
  <2>3. HD!DriverFits(o)
    BY <2>2 DEF HD!DriverFits
  <2>4. QED  BY <1>3, <2>2, <2>3, SameDiskList DEF HD!Fits
<1>6. QED  BY <1>4, <1>5

LEMMA ResetPassFits ==
  ASSUME NEW h, HD!Typed(h), HD!ListFits(h), h.pc = "reset", h.recal, NEW o \in HD!ResetPass(h)
  PROVE  HD!Fits(o)
<1>1. HD!Quiet \in HD!Commands
  BY DEF HD!Quiet, HD!Commands
<1>2. CASE h.reset
  <2>1. PICK n : n = [h EXCEPT !.reset = FALSE, !.i = -1, !.ctl = HD!Quiet, !.irq = FALSE]
    OBVIOUS
  <2>2. HD!Typed(n) /\ Same(h, n) /\ n.pc = "reset" /\ n.recal /\ ~n.reset
    <3>1. -1 \in Int
      OBVIOUS
    <3>2. HD!Typed(n)
      BY <1>1, <2>1, <3>1 DEF HD!Typed
    <3>3. QED  BY <2>1, <3>2 DEF HD!Typed, Same
  <2>3. o \in HD!Specify(n)
    BY <1>2, <2>1 DEF HD!ResetPass
  <2>4. HD!ListFits(n)
    BY <2>2, SameDiskList
  <2>5. QED  BY <2>2, <2>3, <2>4, SpecifyFits
<1>3. CASE ~h.reset /\ HD!WinResult(h)
  <2>1. PICK n : n = [h EXCEPT !.ctl = HD!Quiet]
    OBVIOUS
  <2>2. HD!Typed(n) /\ Same(h, n) /\ n.pc = "reset" /\ n.recal
    BY <1>1, <2>1 DEF HD!Typed, Same
  <2>3. HD!ListFits(n)
    BY <2>2, SameDiskList
  <2>4. PICK b \in HD!BadRw(n) : o \in IF b.reset THEN {b} ELSE HD!Specify(b)
    BY <1>3, <2>1 DEF HD!ResetPass
  <2>5. HD!Typed(b) /\ HD!ListFits(b) /\ b.pc = "reset" /\ b.recal
    BY <2>2, <2>3, <2>4, BadRwFits
  <2>6. CASE b.reset
    <3>1. HD!DriverFits(b)
      BY <2>5, <2>6 DEF HD!DriverFits
    <3>2. QED  BY <2>4, <2>5, <2>6, <3>1 DEF HD!Fits
  <2>7. CASE ~b.reset
    BY <2>4, <2>5, <2>7, SpecifyFits
  <2>8. QED  BY <2>6, <2>7
<1>4. CASE ~h.reset /\ ~HD!WinResult(h)
  <2>1. o \in HD!Specify(h)
    BY <1>4 DEF HD!ResetPass
  <2>2. QED  BY <1>4, <2>1, SpecifyFits
<1>5. QED  BY <1>2, <1>3, <1>4

(* A driver about to look at its list fits if no answer is pending, or a reset or recal is due. *)
LEMMA DiskRests ==
  ASSUME NEW b, HD!Typed(b), HD!ListFits(b), b.pc = "request", b.reset \/ b.recal \/ HD!Calm(b)
  PROVE  HD!Fits(b)
<1>1. HD!DriverFits(b)
  BY DEF HD!DriverFits
<1>2. QED  BY <1>1 DEF HD!Fits

(* A read or a write that was given to the drive is for the sector the request is at. *)
LEMMA WorkGiven ==
  ASSUME NEW h, h.queue # <<>>, ~h.reset, ~h.recal, HD!Calm(h), h.pc = "request",
         NEW command, NEW intr,
         <<command, intr>> \in {<<"read", "read_intr">>, <<"write", "write_intr">>},
         NEW o, HD!Typed(o), HD!ListFits(o), Given(h, command, intr, o) \/ Refused(h, o)
  PROVE  HD!Fits(o)
<1>1. CASE Refused(h, o)
  BY <1>1, DiskRests DEF Refused
<1>2. CASE Given(h, command, intr, o)
  <2>1. HD!AtWork(o, command)
    BY <1>2 DEF HD!AtWork, Given, HD!Calm
  <2>2. /\ (command = "read" /\ o.do_hd = "read_intr") \/ (command = "write" /\ o.do_hd = "write_intr")
    BY <1>2 DEF Given
  <2>3. o.pc = "idle" /\ o.queue # <<>> /\ o.timer
    BY <1>2 DEF Given
  <2>4. HD!DriverFits(o)
    BY <2>1, <2>2, <2>3 DEF HD!DriverFits
  <2>5. QED  BY <2>4 DEF HD!Fits
<1>3. QED  BY <1>1, <1>2

LEMMA WriteOutFits ==
  ASSUME NEW h, HD!Typed(h), HD!ListFits(h), h.pc = "request", h.queue # <<>>, ~h.reset,
         ~h.recal, HD!Calm(h),
         NEW o \in HD!WriteOut(h)
  PROVE  HD!Fits(o)
<1>1. ASSUME NEW x \in HD!HdOut(h, "write", "write_intr")
      PROVE  /\ HD!Typed(x) /\ HD!ListFits(x)
             /\ Given(h, "write", "write_intr", x) \/ Refused(h, x)
  BY <1>1, HdOutFits DEF HD!Handlers
<1>2. CASE o \in HD!HdOut(h, "write", "write_intr")
  BY <1>1, <1>2, WorkGiven
<1>3. ASSUME NEW x \in HD!HdOut(h, "write", "write_intr"), x.pc = "idle",
             o \in HD!BadRw([HD!Faulty(x) EXCEPT !.ctl = HD!Quiet, !.pc = "request"])
      PROVE  HD!Fits(o)
  <2>1. PICK n : n = [HD!Faulty(x) EXCEPT !.ctl = HD!Quiet, !.pc = "request"]
    OBVIOUS
  <2>2. HD!Typed(x) /\ HD!ListFits(x) /\ ~x.irq
    BY <1>1, <1>3 DEF Given, Refused, HD!Calm
  <2>3. HD!Quiet \in HD!Commands /\ HD!Quiet.op = "none"
    BY DEF HD!Quiet, HD!Commands
  <2>4. n = [x EXCEPT !.faults = x.faults + 1, !.ctl = HD!Quiet, !.pc = "request"]
    BY <2>1, <2>2 DEF HD!Faulty, HD!Typed
  <2>5. HD!Typed(n)
    <3>1. x.faults \in Nat
      BY <2>2 DEF HD!Typed
    <3>2. x.faults + 1 \in Nat
      BY <3>1
    <3>3. QED  BY <2>2, <2>3, <2>4, <3>2 DEF HD!Typed
  <2>6. Same(x, n) /\ ~n.irq /\ n.ctl.op = "none" /\ n.pc = "request"
    BY <2>2, <2>3, <2>4 DEF HD!Typed, Same
  <2>7. HD!ListFits(n)
    BY <2>2, <2>6, SameDiskList
  <2>8. HD!Typed(o) /\ HD!ListFits(o) /\ o.pc = "request" /\ ~o.irq /\ o.ctl.op = "none"
    <3>1. o \in HD!BadRw(n)
      BY <1>3, <2>1
    <3>2. QED  BY <2>5, <2>6, <2>7, <3>1, BadRwFits
  <2>9. QED  BY <2>8, DiskRests DEF HD!Calm
<1>4. QED  BY <1>2, <1>3 DEF HD!WriteOut

(* One pass of do_hd_request. *)
LEMMA PassFits == ASSUME NEW h, HD!Fits(h), h.pc = "request", NEW o \in HD!Pass(h) PROVE HD!Fits(o)
<1>1. HD!Typed(h) /\ HD!ListFits(h) /\ (h.reset \/ h.recal \/ HD!Calm(h))
  BY DEF HD!Fits, HD!DriverFits
<1>2. CASE h.queue = <<>>
  <2>1. o = [h EXCEPT !.do_hd = "NULL", !.timer = FALSE, !.pc = "idle"]
    BY <1>2 DEF HD!Pass
  <2>2. HD!Typed(o)
    BY <1>1, <2>1 DEF HD!Typed, HD!Handlers
  <2>3. Same(h, o) /\ o.pc = "idle" /\ o.queue = <<>> /\ o.do_hd = "NULL"
        /\ (o.reset \/ o.recal \/ HD!Calm(o))
    BY <1>1, <1>2, <2>1 DEF HD!Typed, Same, HD!Calm
  <2>4. HD!DriverFits(o)
    BY <2>3 DEF HD!DriverFits
  <2>5. QED  BY <1>1, <2>2, <2>3, <2>4, SameDiskList DEF HD!Fits
<1>3. CASE h.queue # <<>> /\ HD!Current(h).sec + 2 > NR_SECTS
  <2>1. o = HD!EndRequest(h, "error")
    BY <1>3 DEF HD!Pass
  <2>2. HD!Typed(o) /\ HD!ListFits(o) /\ SameDriver(h, o)
    BY <1>1, <1>3, <2>1, FirstFits, EndFits, EndDriver
  <2>3. o.reset \/ o.recal \/ HD!Calm(o)
    BY <1>1, <2>2 DEF SameDriver, HD!Calm
  <2>4. QED  BY <2>2, <2>3, DiskRests DEF SameDriver
<1>4. CASE h.queue # <<>> /\ ~(HD!Current(h).sec + 2 > NR_SECTS) /\ h.reset
  <2>1. o = [h EXCEPT !.recal = TRUE, !.pc = "reset"]
    BY <1>4 DEF HD!Pass
  <2>2. HD!Typed(o)
    BY <1>1, <2>1 DEF HD!Typed
  <2>3. Same(h, o) /\ o.pc = "reset" /\ o.reset /\ o.recal
    BY <1>1, <1>4, <2>1 DEF HD!Typed, Same
  <2>4. HD!DriverFits(o)
    BY <2>3 DEF HD!DriverFits
  <2>5. QED  BY <1>1, <2>2, <2>3, <2>4, SameDiskList DEF HD!Fits
<1>5. CASE h.queue # <<>> /\ ~(HD!Current(h).sec + 2 > NR_SECTS) /\ ~h.reset /\ h.recal
  <2>1. PICK n : n = [h EXCEPT !.recal = FALSE]
    OBVIOUS
  <2>2. o \in HD!HdOut(n, "restore", "recal_intr")
    BY <1>5, <2>1 DEF HD!Pass
  <2>3. HD!Typed(n)
    BY <1>1, <2>1 DEF HD!Typed
  <2>4. Same(h, n) /\ n.pc = "request" /\ ~n.reset /\ n.queue # <<>>
    BY <1>1, <1>5, <2>1 DEF HD!Typed, Same
  <2>5. HD!Typed(o) /\ HD!ListFits(o) /\ (Given(n, "restore", "recal_intr", o) \/ Refused(n, o))
    <3>1. HD!ListFits(n)
      BY <1>1, <2>4, SameDiskList
    <3>2. QED  BY <2>2, <2>3, <2>4, <3>1, HdOutFits DEF HD!Handlers
  <2>6. HD!DriverFits(o)
    BY <2>4, <2>5 DEF HD!DriverFits, Given, Refused
  <2>7. QED  BY <2>5, <2>6 DEF HD!Fits
<1>6. CASE h.queue # <<>> /\ ~(HD!Current(h).sec + 2 > NR_SECTS) /\ ~h.reset /\ ~h.recal
  <2>1. CASE o \in HD!HdOut(h, "read", "read_intr")
    <3>1. HD!Typed(o) /\ HD!ListFits(o) /\ (Given(h, "read", "read_intr", o) \/ Refused(h, o))
      BY <1>1, <1>6, <2>1, HdOutFits DEF HD!Handlers
    <3>2. QED  BY <1>1, <1>6, <3>1, WorkGiven
  <2>2. CASE o \in HD!WriteOut(h)
    BY <1>1, <1>6, <2>2, WriteOutFits
  <2>3. QED  BY <1>6, <2>1, <2>2 DEF HD!Pass
<1>7. QED  BY <1>2, <1>3, <1>4, <1>5, <1>6

(* A sector has been moved, and it was the one the request is at. *)
LEMMA OneMore ==
  ASSUME NEW good \in Nat, NEW nr \in Nat, nr > 0, NEW start \in Nat, NEW sec, sec = start + good,
         good + nr = SECTORS
  PROVE  /\ sec + 1 \in Nat /\ nr - 1 \in Nat /\ good + 1 \in Nat
         /\ (good + 1) + (nr - 1) = SECTORS /\ sec + 1 = start + (good + 1)
  OBVIOUS

LEMMA MovedFits ==
  ASSUME NEW h, HD!Typed(h), HD!ListFits(h), h.queue # <<>>, NEW command, HD!Right(h, command),
         NEW x \in Nat,
         NEW m, m = HD!Moved([h EXCEPT !.queue[1].errors = x], command)
  PROVE  /\ HD!Typed(m) /\ HD!FitBut(m, 1) /\ m.queue # <<>> /\ SameDriver(h, m)
         /\ HD!Current(m).id = HD!Current(h).id /\ HD!Current(m).sec = HD!Current(h).sec + 1
         /\ m.good[HD!Current(m).id] + HD!Current(m).nr = SECTORS
         /\ HD!Current(m).nr > 0 => HD!ListFits(m)
<1>1. PICK c : c = h.queue[1]
  OBVIOUS
<1>2. PICK q : q = [c EXCEPT !.errors = x, !.sec = c.sec + 1, !.nr = c.nr - 1]
  OBVIOUS
<1>3. PICK G : G = [h.good EXCEPT ![c.id] = h.good[c.id] + 1]
  OBVIOUS
<1>4. /\ HD!Current(h) = c /\ c \in HD!Entry /\ h.good \in [HD!Id -> Nat] /\ h.queue \in Seq(HD!Entry)
      /\ 1 \in 1..Len(h.queue)
  <2>1. HD!Current(h) = h.queue[1] /\ HD!Current(h) \in HD!Entry /\ 1 \in 1..Len(h.queue)
    BY HeadFits
  <2>2. h.good \in [HD!Id -> Nat] /\ h.queue \in Seq(HD!Entry)
    BY DEF HD!Typed
  <2>3. QED  BY <1>1, <2>1, <2>2
<1>5. /\ HD!FitBut(h, 1) /\ h.ended[c.id] = "not yet" /\ c.nr > 0 /\ h.good[c.id] + c.nr = SECTORS
      /\ c.sec = DiskRequest[c.id].start + h.good[c.id]
  BY <1>4, FirstFits DEF HD!EntryFits
<1>6. c.id \in HD!Id /\ c.sec \in Nat /\ c.nr \in Nat /\ c.errors \in Nat /\ h.good[c.id] \in Nat
      /\ DiskRequest[c.id].start \in Nat
  BY <1>4, DiskConstants DEF HD!Entry
<1>7. q \in HD!Entry /\ q.id = c.id /\ q.sec = c.sec + 1 /\ q.nr = c.nr - 1
  <2>1. c.sec + 1 \in Nat /\ c.nr - 1 \in Nat
    BY <1>5, <1>6, OneMore
  <2>2. QED  BY <1>2, <1>4, <2>1 DEF HD!Entry
<1>8. G \in [HD!Id -> Nat] /\ G[c.id] = h.good[c.id] + 1 /\ \A r \in HD!Id : r # q.id => G[r] = h.good[r]
  <2>1. h.good[c.id] + 1 \in Nat
    BY <1>6
  <2>2. QED  BY <1>3, <1>4, <1>6, <1>7, <2>1
<1>9. m = Replaced(h, q, G)
  <2>1. PICK e : e = [h EXCEPT !.queue = [h.queue EXCEPT ![1] = [c EXCEPT !.errors = x]]]
    OBVIOUS
  <2>2. e = [h EXCEPT !.queue[1].errors = x]
    BY <1>1, <2>1
  <2>3. [c EXCEPT !.errors = x] \in HD!Entry
    BY <1>4 DEF HD!Entry
  <2>4. e.queue = [h.queue EXCEPT ![1] = [c EXCEPT !.errors = x]] /\ e.good = h.good /\ e.ctl = h.ctl
    BY <2>1 DEF HD!Typed
  <2>5. /\ e.queue \in Seq(HD!Entry) /\ e.queue[1] = [c EXCEPT !.errors = x] /\ e.queue # <<>>
    BY <2>3, <2>4, FirstSet
  <2>6. HD!Typed(e)
    BY <2>1, <2>4, <2>5 DEF HD!Typed
  <2>7. HD!Current(e) = [c EXCEPT !.errors = x]
    BY <2>5, <2>6, HeadFits
  <2>8. HD!Current(e).id = c.id /\ HD!Current(e).sec = c.sec
    BY <1>4, <2>7 DEF HD!Entry
  <2>9. HD!Right(e, command)
    BY <1>4, <2>4, <2>8 DEF HD!Right
  <2>10. PICK g : g = [e EXCEPT !.good = G]
    OBVIOUS
  <2>11. g = [e EXCEPT !.good[HD!Current(e).id] = @ + 1]
    BY <1>3, <2>4, <2>8, <2>10
  <2>12. m = HD!Advance(g)
    BY <2>2, <2>9, <2>11 DEF HD!Moved
  <2>13. g.queue = e.queue
    BY <2>6, <2>10 DEF HD!Typed
  <2>20. m = [g EXCEPT !.queue = [e.queue EXCEPT ![1] = [e.queue[1] EXCEPT !.sec = @ + 1, !.nr = @ - 1]]]
    <3>1. HD!Current(g) = e.queue[1]
      <4>1. HD!Current(g) = HD!Current(e)
        BY <2>13 DEF HD!Current
      <4>2. QED  BY <2>5, <2>6, <4>1, HeadFits
    <3>2. m = [g EXCEPT !.queue[1] = [HD!Current(g) EXCEPT !.sec = @ + 1, !.nr = @ - 1]]
      BY <2>12 DEF HD!Advance
    <3>3. m = [g EXCEPT !.queue = [g.queue EXCEPT ![1] = [HD!Current(g) EXCEPT !.sec = @ + 1, !.nr = @ - 1]]]
      BY <3>2
    <3>4. QED  BY <2>13, <3>1, <3>3
  <2>13b. [e.queue[1] EXCEPT !.sec = @ + 1, !.nr = @ - 1] = q
    BY <1>2, <1>4, <2>5 DEF HD!Entry
  <2>14. m = [g EXCEPT !.queue = [e.queue EXCEPT ![1] = q]]
    BY <2>20, <2>13b
  <2>16. [e.queue EXCEPT ![1] = q] = [h.queue EXCEPT ![1] = q]
    BY <1>4, <2>4
  <2>17. QED  BY <2>1, <2>6, <2>10, <2>14, <2>16 DEF HD!Typed, Replaced
<1>10. Replacement(h, q, G, m)
  <2>1. Replaceable(h, q, G)
    BY <1>4, <1>5, <1>7, <1>8 DEF Replaceable
  <2>2. QED  BY <1>9, <2>1, FirstChanged
<1>11. /\ HD!Typed(m) /\ HD!FitBut(m, 1) /\ m.queue # <<>> /\ SameDriver(h, m)
       /\ HD!Current(m) = q /\ m.good = G
       /\ m.ended = h.ended /\ (HD!EntryFits(m, q) => HD!ListFits(m))
  BY <1>10 DEF Replacement
<1>12. m.good[q.id] + q.nr = SECTORS /\ q.sec = DiskRequest[q.id].start + m.good[q.id]
  <2>1. m.good[q.id] = h.good[c.id] + 1
    BY <1>7, <1>8, <1>11
  <2>2. /\ (h.good[c.id] + 1) + (c.nr - 1) = SECTORS
        /\ c.sec + 1 = DiskRequest[c.id].start + (h.good[c.id] + 1)
    <3>1. PICK u, v, s : u = h.good[c.id] /\ v = c.nr /\ s = DiskRequest[c.id].start
      OBVIOUS
    <3>2. /\ u \in Nat /\ v \in Nat /\ s \in Nat /\ v > 0 /\ c.sec = s + u /\ u + v = SECTORS
      BY <1>5, <1>6, <3>1
    <3>3. (u + 1) + (v - 1) = SECTORS /\ c.sec + 1 = s + (u + 1)
      BY <3>2, OneMore
    <3>4. QED  BY <3>1, <3>3
  <2>3. QED  BY <1>7, <2>1, <2>2
<1>13. q.nr > 0 => HD!ListFits(m)
  BY <1>5, <1>7, <1>11, <1>12 DEF HD!EntryFits
<1>14. QED  BY <1>4, <1>7, <1>11, <1>12, <1>13

(* read_intr and write_intr, called by the interrupt the driver waits for. *)
LEMMA RwIntrFits ==
  ASSUME NEW h, HD!Typed(h), HD!ListFits(h), h.queue # <<>>, h.pc = "idle", ~h.irq,
         NEW command, NEW intr,
         <<command, intr>> \in {<<"read", "read_intr">>, <<"write", "write_intr">>},
         HD!Right(h, command), NEW o \in HD!RwIntr(h, command, intr)
  PROVE  HD!Fits(o)
<1>1. CASE HD!WinResult(h)
  <2>1. PICK b \in HD!BadRw(h) : o = [b EXCEPT !.pc = "request", !.ctl = HD!Quiet]
    BY <1>1 DEF HD!RwIntr
  <2>2. HD!Typed(b) /\ HD!ListFits(b) /\ ~b.irq
    BY <2>1, BadRwFits
  <2>3. QED  BY <2>1, <2>2, NextRequest
<1>2. CASE ~HD!WinResult(h)
  <2>1. PICK x, m :
          /\ x \in Nat
          /\ m = HD!Moved([h EXCEPT !.queue[1].errors = x], command)
          /\ o \in IF HD!Current(m).nr > 0
                   THEN {[HD!SetIntr(m, intr) EXCEPT !.ctl.sec = @ + 1, !.ctl.status = "busy"]}
                   ELSE {[HD!EndRequest(m, "ok") EXCEPT !.pc = "request", !.ctl = HD!Quiet]}
    <3>1. PICK x : x = IF command = "read" THEN 0 ELSE h.queue[1].errors
      OBVIOUS
    <3>2. x \in Nat
      BY <3>1, HeadFits DEF HD!Entry
    <3>3. [h EXCEPT !.queue[1].errors = IF command = "read" THEN 0 ELSE @] = [h EXCEPT !.queue[1].errors = x]
      BY <3>1
    <3>4. QED  BY <1>2, <3>2, <3>3 DEF HD!RwIntr
  <2>2. /\ HD!Typed(m) /\ HD!FitBut(m, 1) /\ m.queue # <<>> /\ SameDriver(h, m)
        /\ HD!Current(m).id = HD!Current(h).id /\ HD!Current(m).sec = HD!Current(h).sec + 1
        /\ m.good[HD!Current(m).id] + HD!Current(m).nr = SECTORS
        /\ HD!Current(m).nr > 0 => HD!ListFits(m)
    BY <2>1, MovedFits
  <2>3. CASE HD!Current(m).nr > 0
    <3>1. PICK c : c = [m.ctl EXCEPT !.sec = m.ctl.sec + 1, !.status = "busy"]
      OBVIOUS
    <3>2. m.ctl \in HD!Commands /\ m.ctl.sec \in Nat
      BY <2>2 DEF HD!Typed, HD!Commands
    <3>3. m.ctl.sec + 1 \in Nat
      BY <3>2
    <3>4. c \in HD!Commands /\ c.op = m.ctl.op /\ c.id = m.ctl.id /\ c.sec = m.ctl.sec + 1
          /\ c.status = "busy"
      BY <3>1, <3>2, <3>3 DEF HD!Commands
    <3>5. o = [m EXCEPT !.do_hd = intr, !.timer = TRUE, !.ctl = c]
      BY <2>1, <2>2, <2>3, <3>1 DEF HD!SetIntr, HD!Typed
    <3>6. intr \in HD!Handlers
      BY DEF HD!Handlers
    <3>7. HD!Typed(o)
      BY <2>2, <3>4, <3>5, <3>6 DEF HD!Typed
    <3>8. Same(m, o) /\ o.pc = "idle" /\ ~o.irq /\ o.ctl = c /\ o.do_hd = intr /\ o.timer
          /\ o.queue # <<>>
      BY <2>2, <3>5 DEF HD!Typed, Same, SameDriver
    <3>9. HD!ListFits(o)
      BY <2>2, <2>3, <3>8, SameDiskList
    <3>10. HD!Right(o, command)
      BY <2>2, <3>4, <3>8 DEF HD!Right, Same, HD!Current, SameDriver
    <3>11. HD!AtWork(o, command)
      BY <3>4, <3>8, <3>10 DEF HD!AtWork
    <3>12. HD!DriverFits(o)
      BY <3>8, <3>11 DEF HD!DriverFits
    <3>13. QED  BY <3>7, <3>9, <3>12 DEF HD!Fits
  <2>4. CASE ~(HD!Current(m).nr > 0)
    <3>1. m.good[HD!Current(m).id] = SECTORS
      <4>1. HD!Current(m).nr \in Nat /\ HD!Current(m).id \in HD!Id /\ m.good \in [HD!Id -> Nat]
        BY <2>2, HeadFits DEF HD!Entry, HD!Typed
      <4>2. HD!Current(m).nr = 0 /\ m.good[HD!Current(m).id] \in Nat
        BY <2>4, <4>1
      <4>3. QED  BY <2>2, <4>2, DiskConstants
    <3>2. PICK e : e = HD!EndRequest(m, "ok")
      OBVIOUS
    <3>3. HD!Typed(e) /\ HD!ListFits(e) /\ SameDriver(m, e)
      BY <2>2, <3>1, <3>2, EndFits, EndDriver
    <3>4. ~e.irq
      BY <2>2, <3>3 DEF SameDriver
    <3>5. o = [e EXCEPT !.pc = "request", !.ctl = HD!Quiet]
      BY <2>1, <2>4, <3>2
    <3>6. QED  BY <3>3, <3>4, <3>5, NextRequest
  <2>5. QED  BY <2>3, <2>4
<1>3. QED  BY <1>1, <1>2

(* hd_interrupt, whichever handler is set. *)
LEMMA HandledFits == ASSUME NEW h, HD!Fits(h), h.pc = "idle", h.irq,
         NEW o \in HD!Handled(h) PROVE HD!Fits(o)
<1>1. PICK n : n = [h EXCEPT !.do_hd = "NULL", !.timer = FALSE, !.irq = FALSE]
  OBVIOUS
<1>2. HD!Typed(h) /\ HD!ListFits(h) /\ h.do_hd \in HD!Handlers
  BY DEF HD!Fits, HD!Typed
<1>3. HD!Typed(n)
  BY <1>1, <1>2 DEF HD!Typed, HD!Handlers
<1>4. Same(h, n) /\ n.pc = "idle" /\ ~n.irq /\ n.recal = h.recal /\ n.ctl = h.ctl /\ n.queue = h.queue
  BY <1>1, <1>2 DEF HD!Typed, Same
<1>5. HD!ListFits(n)
  BY <1>2, <1>4, SameDiskList
<1>6. CASE h.do_hd = "read_intr"
  <2>1. o \in HD!RwIntr(n, "read", "read_intr")
    BY <1>1, <1>6 DEF HD!Handled
  <2>2. h.queue # <<>> /\ HD!Right(h, "read")
    BY <1>6 DEF HD!Fits, HD!DriverFits, HD!AtWork
  <2>3. HD!Right(n, "read")
    BY <1>4, <2>2 DEF HD!Right, HD!Current
  <2>4. QED  BY <1>3, <1>4, <1>5, <2>1, <2>2, <2>3, RwIntrFits
<1>7. CASE h.do_hd = "write_intr"
  <2>1. o \in HD!RwIntr(n, "write", "write_intr")
    BY <1>1, <1>7 DEF HD!Handled
  <2>2. h.queue # <<>> /\ HD!Right(h, "write")
    BY <1>7 DEF HD!Fits, HD!DriverFits, HD!AtWork
  <2>3. HD!Right(n, "write")
    BY <1>4, <2>2 DEF HD!Right, HD!Current
  <2>4. QED  BY <1>3, <1>4, <1>5, <2>1, <2>2, <2>3, RwIntrFits
<1>8. CASE h.do_hd = "recal_intr"
  <2>1. o \in HD!RecalIntr(n)
    BY <1>1, <1>8 DEF HD!Handled
  <2>2. PICK b : o = [b EXCEPT !.pc = "request", !.ctl = HD!Quiet] /\ (b \in HD!BadRw(n) \/ b = n)
    BY <2>1 DEF HD!RecalIntr
  <2>3. HD!Typed(b) /\ HD!ListFits(b) /\ ~b.irq
    <3>1. CASE b = n
      BY <1>3, <1>4, <1>5, <3>1
    <3>2. CASE b \in HD!BadRw(n)
      BY <1>3, <1>4, <1>5, <3>2, BadRwFits
    <3>3. QED  BY <2>2, <3>1, <3>2
  <2>4. QED  BY <2>2, <2>3, NextRequest
<1>9. CASE h.do_hd = "reset_hd"
  <2>1. PICK x : x = [n EXCEPT !.pc = "reset"]
    OBVIOUS
  <2>2. o \in HD!ResetPass(x)
    BY <1>1, <1>9, <2>1 DEF HD!Handled
  <2>3. h.recal
    BY <1>9 DEF HD!Fits, HD!DriverFits
  <2>4. HD!Typed(x)
    BY <1>3, <2>1 DEF HD!Typed
  <2>5. Same(n, x) /\ x.pc = "reset" /\ x.recal
    BY <1>3, <1>4, <2>1, <2>3 DEF HD!Typed, Same
  <2>6. HD!ListFits(x)
    BY <1>5, <2>5, SameDiskList
  <2>7. QED  BY <2>2, <2>4, <2>5, <2>6, ResetPassFits
<1>10. CASE h.do_hd = "NULL"
  <2>1. PICK b : b = [n EXCEPT !.reset = TRUE]
    OBVIOUS
  <2>2. HD!Typed(b)
    BY <1>3, <2>1 DEF HD!Typed
  <2>3. Same(n, b) /\ ~b.irq
    BY <1>3, <1>4, <2>1 DEF HD!Typed, Same
  <2>4. o = [n EXCEPT !.reset = TRUE, !.pc = "request", !.ctl = HD!Quiet]
    BY <1>1, <1>10 DEF HD!Handled
  <2>5. o = [b EXCEPT !.pc = "request", !.ctl = HD!Quiet]
    BY <1>3, <2>1, <2>4 DEF HD!Typed
  <2>6. HD!ListFits(b)
    BY <1>5, <2>3, SameDiskList
  <2>7. QED  BY <2>2, <2>3, <2>5, <2>6, NextRequest
<1>11. QED  BY <1>2, <1>6, <1>7, <1>8, <1>9, <1>10 DEF HD!Handlers

(* add_request: the new entry has all its sectors to move. *)
LEMMA AddStep == ASSUME HD!Fits(hd), NEW r \in HD!Id, HD!Add(r) PROVE HD!Fits(hd')
<1>1. PICK e, n : e = [id |-> r, sec |-> DiskRequest[r].start, nr |-> SECTORS, errors |-> 0] /\ n = Len(hd.queue)
  OBVIOUS
<1>2. HD!Typed(hd) /\ HD!ListFits(hd) /\ hd.pc = "idle" /\ hd.queue \in Seq(HD!Entry)
      /\ hd.ended[r] = "not yet" /\ \A k \in 1..n : hd.queue[k].id # r
  BY <1>1 DEF HD!Add, HD!Fits, HD!Idle, HD!Typed
<1>3. e \in HD!Entry /\ e.id = r
  BY <1>1, DiskConstants DEF HD!Entry
<1>4. n \in Nat
  <2>1. PICK s \in Seq(HD!Entry) : s = hd.queue
    BY <1>2
  <2>2. Len(s) \in Nat
    OBVIOUS
  <2>3. QED  BY <1>1, <2>1, <2>2
<1>5. PICK next \in {"idle", "request"} :
        /\ next = IF hd.queue = <<>> THEN "request" ELSE "idle"
        /\ hd' = [hd EXCEPT !.queue = Append(hd.queue, e), !.pc = next]
  BY <1>1 DEF HD!Add
<1>6. /\ Append(hd.queue, e) \in Seq(HD!Entry) /\ Len(Append(hd.queue, e)) = n + 1
      /\ \A k \in 1..n : Append(hd.queue, e)[k] = hd.queue[k]
      /\ Append(hd.queue, e)[n + 1] = e
  <2>1. PICK s \in Seq(HD!Entry) : s = hd.queue
    BY <1>2
  <2>2. /\ Append(s, e) \in Seq(HD!Entry) /\ Len(Append(s, e)) = Len(s) + 1
        /\ \A k \in 1..Len(s) : Append(s, e)[k] = s[k]
        /\ Append(s, e)[Len(s) + 1] = e
    BY <1>3, AppendProperties
  <2>3. QED  BY <1>1, <2>1, <2>2
<1>7. HD!Typed(hd')
  BY <1>2, <1>5, <1>6 DEF HD!Typed
<1>8. /\ hd'.queue = Append(hd.queue, e) /\ hd'.pc = next /\ hd'.good = hd.good /\ hd'.ended = hd.ended
      /\ hd'.reset = hd.reset /\ hd'.recal = hd.recal /\ hd'.irq = hd.irq /\ hd'.ctl = hd.ctl
      /\ hd'.do_hd = hd.do_hd /\ hd'.timer = hd.timer
  BY <1>2, <1>5 DEF HD!Typed
<1>9. /\ Len(hd'.queue) = n + 1 /\ hd'.queue[n + 1] = e /\ n + 1 \in 1..n + 1
      /\ \A k \in 1..n : hd'.queue[k] = hd.queue[k] /\ k \in 1..n + 1
  BY <1>4, <1>6, <1>8
<1>10. \A k \in 1..n + 1 : k \in 1..n \/ k = n + 1
  BY <1>4
<1>11. ~HD!Listed(hd, r)
  BY <1>1, <1>2 DEF HD!Listed
<1>12. hd.good[r] = 0
  BY <1>2, <1>11 DEF HD!ListFits, HD!FitBut, HD!Accounted
<1>13. HD!EntryFits(hd', e)
  <2>1. SECTORS > 0 /\ 0 + SECTORS = SECTORS /\ DiskRequest[r].start = DiskRequest[r].start + 0
    BY DiskConstants
  <2>2. e.nr = SECTORS /\ e.sec = DiskRequest[r].start
    BY <1>1
  <2>3. QED  BY <1>2, <1>3, <1>8, <1>12, <2>1, <2>2 DEF HD!EntryFits
<1>14. ASSUME NEW k \in 1..n PROVE HD!EntryFits(hd', hd'.queue[k])
  <2>1. k \in 1..Len(hd.queue) /\ k > 0
    BY <1>1, <1>4
  <2>2. HD!EntryFits(hd, hd.queue[k])
    BY <1>2, <2>1 DEF HD!ListFits, HD!FitBut
  <2>3. QED  BY <1>8, <1>9, <2>2 DEF HD!EntryFits
<1>15. HD!EachOnce(hd')
  <2>1. ASSUME NEW k \in 1..n + 1, NEW l \in 1..n + 1, hd'.queue[k].id = hd'.queue[l].id PROVE k = l
    <3>1. CASE k \in 1..n /\ l \in 1..n
      <4>1. hd.queue[k].id = hd.queue[l].id
        BY <1>9, <2>1, <3>1
      <4>2. QED  BY <1>1, <1>2, <3>1, <4>1 DEF HD!ListFits, HD!FitBut, HD!EachOnce
    <3>2. CASE k \in 1..n /\ l = n + 1
      BY <1>2, <1>3, <1>9, <2>1, <3>2
    <3>3. CASE k = n + 1 /\ l \in 1..n
      BY <1>2, <1>3, <1>9, <2>1, <3>3
    <3>4. QED  BY <1>10, <3>1, <3>2, <3>3
  <2>2. QED  BY <1>9, <2>1 DEF HD!EachOnce
<1>16. ASSUME NEW i \in HD!Id PROVE HD!Accounted(hd', i)
  <2>1. HD!Accounted(hd, i)
    BY <1>2 DEF HD!ListFits, HD!FitBut
  <2>2. HD!Listed(hd, i) => HD!Listed(hd', i)
    BY <1>1, <1>9 DEF HD!Listed
  <2>3. QED  BY <1>8, <2>1, <2>2 DEF HD!Accounted
<1>17. HD!ListFits(hd')
  BY <1>9, <1>10, <1>13, <1>14, <1>15, <1>16 DEF HD!ListFits, HD!FitBut
<1>18. HD!DriverFits(hd')
  <2>1. CASE hd.queue = <<>>
    <3>1. hd.reset \/ hd.recal \/ HD!Calm(hd)
      BY <1>2, <2>1 DEF HD!Fits, HD!DriverFits
    <3>2. hd'.reset \/ hd'.recal \/ HD!Calm(hd)'
      BY <1>8, <3>1 DEF HD!Calm
    <3>3. hd'.pc = "request"
      BY <1>5, <1>8, <2>1
    <3>4. QED  BY <3>2, <3>3 DEF HD!DriverFits, HD!Calm
  <2>2. CASE hd.queue # <<>>
    <3>1. HD!Current(hd') = HD!Current(hd) /\ hd'.queue # <<>>
      <4>1. 1 \in 1..n
        BY <1>1, <1>2, <2>2, HeadFits
      <4>2. hd'.queue[1] = hd.queue[1] /\ hd'.queue # <<>>
        BY <1>4, <1>6, <1>8, <1>9, <4>1, EmptySeq
      <4>3. QED  BY <1>2, <1>7, <2>2, <4>2, HeadFits
    <3>2. \A command : HD!AtWork(hd, command) => HD!AtWork(hd', command)
      BY <1>8, <3>1 DEF HD!AtWork, HD!Right
    <3>3. hd'.pc = "idle"
      BY <1>5, <1>8, <2>2
    <3>4. QED  BY <1>2, <1>8, <2>2, <3>1, <3>2, <3>3 DEF HD!Fits, HD!DriverFits
  <2>3. QED  BY <2>1, <2>2
<1>19. QED  BY <1>7, <1>17, <1>18 DEF HD!Fits

(* The drive has ended its sector, or lost the command. *)
LEMMA AnswerFits ==
  ASSUME HD!Fits(hd), hd.ctl.op # "none", hd.ctl.status = "busy", NEW x, HD!Typed(x), Same(hd, x),
         x.do_hd = hd.do_hd, x.timer = hd.timer, x.reset = hd.reset, x.recal = hd.recal, x.pc = hd.pc,
         \/ /\ x.irq /\ x.ctl.status # "busy"
            /\ x.ctl.op = hd.ctl.op /\ x.ctl.id = hd.ctl.id /\ x.ctl.sec = hd.ctl.sec
         \/ x.irq = hd.irq /\ x.ctl.op = "none"
  PROVE  HD!Fits(x)
<1>1. ~HD!Calm(hd)
  BY DEF HD!Calm
<1>2. \A command : HD!Right(hd, command) => HD!Right(x, command) \/ (x.irq = hd.irq /\ x.ctl.op = "none")
  BY DEF HD!Right, HD!Current, Same
<1>3. \A command : HD!AtWork(hd, command) => HD!AtWork(x, command)
  BY <1>2 DEF HD!AtWork, Same
<1>4. HD!DriverFits(hd) /\ x.queue = hd.queue
  BY DEF HD!Fits, Same
<1>5. HD!DriverFits(x)
  BY <1>1, <1>3, <1>4 DEF HD!DriverFits
<1>6. QED  BY <1>5, SameDiskList DEF HD!Fits

LEMMA AnswerStep == ASSUME HD!Fits(hd), HD!Answer PROVE HD!Fits(hd')
<1>1. HD!Typed(hd) /\ hd.ctl \in HD!Commands
  BY DEF HD!Fits, HD!Typed
<1>2. hd.ctl.op # "none" /\ hd.ctl.status = "busy"
  BY DEF HD!Answer
<1>3. HD!Quiet \in HD!Commands /\ HD!Quiet.op = "none"
  BY DEF HD!Quiet, HD!Commands
<1>4. hd.faults \in Nat /\ hd.faults + 1 \in Nat
  <2>1. hd.faults \in Nat
    BY <1>1 DEF HD!Typed
  <2>2. QED  BY <2>1
<1>5. ASSUME NEW c \in HD!Commands, NEW f \in Nat, NEW q \in BOOLEAN,
             hd' = [hd EXCEPT !.faults = f, !.irq = q, !.ctl = c],
             \/ /\ q /\ c.status # "busy"
                /\ c.op = hd.ctl.op /\ c.id = hd.ctl.id /\ c.sec = hd.ctl.sec
             \/ q = hd.irq /\ c.op = "none"
      PROVE  HD!Fits(hd')
  <2>1. HD!Typed(hd')
    BY <1>1, <1>5 DEF HD!Typed
  <2>2. /\ Same(hd, hd') /\ hd'.ctl = c /\ hd'.irq = q /\ hd'.do_hd = hd.do_hd /\ hd'.timer = hd.timer
        /\ hd'.reset = hd.reset /\ hd'.recal = hd.recal /\ hd'.pc = hd.pc
    BY <1>1, <1>5 DEF HD!Typed, Same
  <2>3. QED  BY <1>2, <1>5, <2>1, <2>2, AnswerFits
<1>6. ASSUME NEW s \in {"ok", "error"}
      PROVE  LET c == [hd.ctl EXCEPT !.status = s]
             IN  /\ c \in HD!Commands /\ c.status # "busy"
                 /\ c.op = hd.ctl.op /\ c.id = hd.ctl.id /\ c.sec = hd.ctl.sec
  BY <1>1 DEF HD!Commands
<1>7. CASE hd' = [hd EXCEPT !.irq = TRUE, !.ctl.status = "ok"]
  <2>1. hd' = [hd EXCEPT !.faults = hd.faults, !.irq = TRUE, !.ctl = [hd.ctl EXCEPT !.status = "ok"]]
    BY <1>1, <1>7 DEF HD!Typed
  <2>2. QED  BY <1>4, <1>5, <1>6, <2>1
<1>8. CASE hd' = [HD!Faulty(hd) EXCEPT !.irq = TRUE, !.ctl.status = "error"]
  <2>1. hd' = [hd EXCEPT !.faults = hd.faults + 1, !.irq = TRUE, !.ctl = [hd.ctl EXCEPT !.status = "error"]]
    BY <1>1, <1>8 DEF HD!Typed, HD!Faulty
  <2>2. QED  BY <1>4, <1>5, <1>6, <2>1
<1>9. CASE hd' = [HD!Faulty(hd) EXCEPT !.ctl = HD!Quiet]
  <2>1. hd' = [hd EXCEPT !.faults = hd.faults + 1, !.irq = hd.irq, !.ctl = HD!Quiet]
        /\ hd.irq \in BOOLEAN
    BY <1>1, <1>9 DEF HD!Typed, HD!Faulty
  <2>2. QED  BY <1>3, <1>4, <1>5, <2>1
<1>10. QED  BY <1>7, <1>8, <1>9 DEF HD!Answer

(* hd_times_out. *)
LEMMA TimeoutStep == ASSUME HD!Fits(hd), HD!Timeout PROVE HD!Fits(hd')
<1>1. HD!Typed(hd) /\ HD!ListFits(hd) /\ hd.pc = "idle"
  BY DEF HD!Fits, HD!Timeout, HD!Idle
<1>2. PICK f, h :
        /\ f \in Nat
        /\ h = [hd EXCEPT !.timer = FALSE, !.faults = f]
        /\ hd' = IF h.queue = <<>> THEN h
                 ELSE [HD!SetIntr(HD!Erred(h), "NULL") EXCEPT !.reset = TRUE, !.pc = "request"]
  <2>1. hd.faults \in Nat
    BY <1>1 DEF HD!Typed
  <2>2. hd.faults + 1 \in Nat
    BY <2>1
  <2>3. QED  BY <2>1, <2>2 DEF HD!Timeout
<1>3. HD!Typed(h)
  BY <1>1, <1>2 DEF HD!Typed
<1>4. /\ Same(hd, h) /\ h.pc = "idle" /\ h.reset = hd.reset /\ h.recal = hd.recal
      /\ h.irq = hd.irq /\ h.ctl = hd.ctl /\ h.do_hd = hd.do_hd
  BY <1>1, <1>2 DEF HD!Typed, Same
<1>5. HD!ListFits(h)
  BY <1>1, <1>4, SameDiskList
<1>6. CASE h.queue = <<>>
  <2>1. HD!DriverFits(h)
    BY <1>1, <1>4, <1>6 DEF HD!Fits, HD!DriverFits, Same, HD!Calm, HD!AtWork
  <2>2. QED  BY <1>2, <1>3, <1>5, <1>6, <2>1 DEF HD!Fits
<1>7. CASE h.queue # <<>>
  <2>1. PICK e : e = HD!Erred(h)
    OBVIOUS
  <2>2. HD!Typed(e) /\ HD!ListFits(e)
    BY <1>3, <1>5, <1>7, <2>1, ErredFits
  <2>3. hd' = [e EXCEPT !.do_hd = "NULL", !.timer = TRUE, !.reset = TRUE, !.pc = "request"]
    BY <1>2, <1>7, <2>1, <2>2 DEF HD!SetIntr, HD!Typed
  <2>4. HD!Typed(hd')
    BY <2>2, <2>3 DEF HD!Typed, HD!Handlers
  <2>5. Same(e, hd') /\ hd'.pc = "request" /\ hd'.reset
    BY <2>2, <2>3 DEF HD!Typed, Same
  <2>6. QED  BY <2>2, <2>4, <2>5, SameDiskList, DiskRests
<1>8. QED  BY <1>6, <1>7

LEMMA DiskStarts == HD!Init => HD!Fits(hd)
<1> SUFFICES ASSUME HD!Init PROVE HD!Fits(hd)
  OBVIOUS
<1>1. /\ hd.queue = <<>> /\ hd.do_hd = "NULL" /\ hd.pc = "idle" /\ hd.irq = FALSE /\ hd.ctl = HD!Quiet
      /\ hd.good = [r \in HD!Id |-> 0] /\ hd.ended = [r \in HD!Id |-> "not yet"]
  BY DEF HD!Init, HD!Hd0
<1>2. HD!Quiet \in HD!Commands /\ HD!Quiet.op = "none"
  BY DEF HD!Quiet, HD!Commands
<1>3. /\ [r \in HD!Id |-> 0] \in [HD!Id -> Nat]
      /\ [r \in HD!Id |-> "not yet"] \in [HD!Id -> {"not yet", "ok", "error"}]
      /\ <<>> \in Seq(HD!Entry) /\ 0 \in Int /\ 0 \in Nat /\ Len(hd.queue) = 0
  <2>1. /\ [r \in HD!Id |-> 0] \in [HD!Id -> Nat]
        /\ [r \in HD!Id |-> "not yet"] \in [HD!Id -> {"not yet", "ok", "error"}]
    OBVIOUS
  <2>2. <<>> \in Seq(HD!Entry) /\ Len(<<>>) = 0
    BY EmptySeq
  <2>3. Len(hd.queue) = 0
    BY <1>1, <2>2
  <2>4. 0 \in Int /\ 0 \in Nat
    OBVIOUS
  <2>5. QED  BY <2>1, <2>2, <2>3, <2>4
<1>4. HD!Typed(hd)
  BY <1>2, <1>3 DEF HD!Init, HD!Hd0, HD!Typed, HD!Handlers
<1>5. HD!ListFits(hd)
  <2>1. 1..Len(hd.queue) = {}
    BY <1>3
  <2>2. HD!EachOnce(hd) /\ \A k \in 1..Len(hd.queue) : k > 0 => HD!EntryFits(hd, hd.queue[k])
    BY <2>1 DEF HD!EachOnce
  <2>3. ASSUME NEW r \in HD!Id PROVE HD!Accounted(hd, r)
    BY <1>1 DEF HD!Accounted
  <2>4. QED  BY <2>2, <2>3 DEF HD!ListFits, HD!FitBut
<1>6. HD!DriverFits(hd)
  BY <1>1, <1>2 DEF HD!DriverFits, HD!Calm
<1>7. QED  BY <1>4, <1>5, <1>6 DEF HD!Fits

LEMMA DiskSteps == HD!IInv /\ [HD!Next]_hd => HD!IInv'
<1> SUFFICES ASSUME HD!Fits(hd), [HD!Next]_hd PROVE HD!Fits(hd)'
  BY DEF HD!IInv
<1>1. CASE HD!DoRequest
  BY <1>1, PassFits DEF HD!DoRequest
<1>2. CASE HD!DoReset
  BY <1>2, ResetPassFits DEF HD!DoReset, HD!Fits, HD!DriverFits
<1>3. CASE HD!Interrupt
  BY <1>3, HandledFits DEF HD!Interrupt, HD!Idle
<1>4. CASE HD!Answer
  BY <1>4, AnswerStep
<1>5. CASE HD!Timeout
  BY <1>5, TimeoutStep
<1>6. ASSUME NEW r \in HD!Id, HD!Add(r) PROVE HD!Fits(hd)'
  BY <1>6, AddStep
<1>7. CASE UNCHANGED hd
  BY <1>7
<1>8. QED  BY <1>1, <1>2, <1>3, <1>4, <1>5, <1>6, <1>7 DEF HD!Next

LEMMA FitsMeansRight == HD!IInv => HD!RightData /\ HD!TimerRuns
<1>1. HD!IInv => HD!RightData
  BY DEF HD!IInv, HD!Fits, HD!ListFits, HD!FitBut, HD!Accounted, HD!RightData
<1>2. HD!IInv => HD!TimerRuns
  BY DEF HD!IInv, HD!Fits, HD!DriverFits, HD!TimerRuns, HD!Idle
<1>3. QED  BY <1>1, <1>2

(* do_hd_request and the handlers of hd.c, however often the drive fails, is late or is
   silent: a request that ends well has had each of its sectors moved, from or to its own
   place on the disk, and while one is listed an idle driver's timer runs. *)
THEOREM DiskStaysRight == DriverSpec => []HardDiskRight
<1>1. HD!Init => HD!IInv
  BY DiskStarts DEF HD!IInv
<1>2. HD!IInv => HardDiskRight
  BY FitsMeansRight DEF HardDiskRight
<1>3. QED
  BY <1>1, <1>2, DiskSteps, PTL DEF DriverSpec

(***************************************************************************)
(* The driver the requests of a floppy go to: when the controller has a    *)
(* command to read or write, the drive of the first request is selected    *)
(* and turns, whatever floppy_change and the clock have done meanwhile.    *)
(***************************************************************************)
LEMMA FloppyConstants ==
  /\ MAX_FLOPPY_ERRORS \in Nat /\ MaxFloppyFaults \in Nat /\ SELECT \in Nat /\ SELECT >= 1
  /\ SPIN \in Nat /\ OFF \in Nat
  /\ SELECT <= SPIN /\ SPIN + SELECT <= OFF /\ \A d \in FloppyDrive : d \in Nat /\ d # -1
  /\ \A r \in FD!Id : FloppyRequest[r].drive \in FloppyDrive /\ FloppyRequest[r].track \in Int
  /\ FD!None.drive \notin FloppyDrive
  BY FloppyDriverAssumption DEF FD!FloppyAssumption, FD!None

(* CURRENT is the first entry of the list. *)
LEMMA FirstRequest ==
  ASSUME NEW h, FD!Typed(h), h.queue # <<>>
  PROVE  /\ Head(h.queue) \in FD!Entry /\ FD!Id1(h) \in FD!Id /\ FD!Current(h).drive \in FloppyDrive
         /\ FD!Current(h).track \in Int /\ Tail(h.queue) \in Seq(FD!Entry)
<1>1. h.queue \in Seq(FD!Entry)
  BY DEF FD!Typed, FD!Queues
<1>2. Head(h.queue) \in FD!Entry /\ Tail(h.queue) \in Seq(FD!Entry)
  BY <1>1, HeadTailProperties
<1>3. FD!Id1(h) \in FD!Id
  BY <1>2 DEF FD!Entry, FD!Id1
<1>4. QED  BY <1>2, <1>3, FloppyConstants DEF FD!Current

(* What the buffer and the motors fit on, and no command or timer. *)
FloppyBase(h, s) == FD!Typed(h) /\ h.wrong = {} /\ FD!BufferFits(h) /\ FD!MotorFits(h, s)
Rested(h, s) == FloppyBase(h, s) /\ h.op = "none" /\ h.timer.fn = "none"

SameFirst(h, g) == (g.queue = <<>> <=> h.queue = <<>>) /\ (h.queue # <<>> => FD!Id1(g) = FD!Id1(h))
SameMotors(h, g) == g.motor = h.motor /\ g.mon = h.mon /\ g.on = h.on
SameBase(h, g) == /\ SameFirst(h, g) /\ SameMotors(h, g) /\ g.wrong = h.wrong /\ g.buffer = h.buffer
                  /\ g.disk = h.disk /\ g.unsure = h.unsure

LEMMA BaseKept == ASSUME NEW h, NEW g, NEW s, FloppyBase(h, s), FD!Typed(g),
         SameBase(h, g) PROVE FloppyBase(g, s)
<1>1. FD!BufferFits(g)
  BY DEF FloppyBase, FD!BufferFits, SameBase, SameFirst, FD!UnderWay, FD!Current
<1>2. FD!MotorFits(g, s)
  BY DEF FloppyBase, FD!MotorFits, SameBase, SameMotors
<1>3. QED  BY <1>1, <1>2 DEF FloppyBase, SameBase

LEMMA RestKept ==
  ASSUME NEW h, NEW g, NEW s, Rested(h, s), FD!Typed(g), SameBase(h, g), g.op = h.op, g.timer = h.timer
  PROVE  Rested(g, s)
  BY BaseKept DEF Rested

(* A driver at rest fits: between a command and the next. *)
LEMMA RestedFits == ASSUME NEW h, NEW s, Rested(h, s) PROVE FD!Fits(h, s)
  BY DEF Rested, FloppyBase, FD!Fits, FD!TimerFits, FD!OpFits

(* The flags, and where the driver is. *)
LEMMA FlagsKept ==
  ASSUME NEW h, NEW s, Rested(h, s), NEW r \in BOOLEAN, NEW c \in BOOLEAN,
         NEW p \in {"idle", "request", "repeat"},
         NEW f \in Nat, NEW g, g = [h EXCEPT !.reset = r, !.recal = c, !.pc = p, !.faults = f]
  PROVE  Rested(g, s) /\ g.queue = h.queue
<1>1. FD!Typed(h)
  BY DEF Rested, FloppyBase
<1>2. FD!Typed(g)
  BY <1>1 DEF FD!Typed
<1>3. /\ g.op = h.op /\ g.timer = h.timer /\ g.queue = h.queue /\ g.motor = h.motor /\ g.mon = h.mon
      /\ g.on = h.on /\ g.wrong = h.wrong /\ g.buffer = h.buffer /\ g.disk = h.disk
      /\ g.unsure = h.unsure
  BY <1>1 DEF FD!Typed
<1>4. SameBase(h, g)
  BY <1>3 DEF SameBase, SameFirst, SameMotors, FD!Id1
<1>5. QED  BY <1>2, <1>3, <1>4, RestKept

LEMMA PcKept ==
  ASSUME NEW h, NEW s, Rested(h, s), NEW p \in {"idle", "request", "repeat"}, NEW g,
         g = [h EXCEPT !.pc = p]
  PROVE  Rested(g, s) /\ g.queue = h.queue
<1>1. FD!Typed(h)
  BY DEF Rested, FloppyBase
<1>2. FD!Typed(g)
  BY <1>1 DEF FD!Typed
<1>3. /\ g.op = h.op /\ g.timer = h.timer /\ g.queue = h.queue /\ g.motor = h.motor /\ g.mon = h.mon
      /\ g.on = h.on /\ g.wrong = h.wrong /\ g.buffer = h.buffer /\ g.disk = h.disk
      /\ g.unsure = h.unsure
  BY <1>1 DEF FD!Typed
<1>4. SameBase(h, g)
  BY <1>3 DEF SameBase, SameFirst, SameMotors, FD!Id1
<1>5. QED  BY <1>2, <1>3, <1>4, RestKept

LEMMA ResetKept ==
  ASSUME NEW h, NEW s, Rested(h, s), NEW r \in BOOLEAN, NEW g, g = [h EXCEPT !.reset = r]
  PROVE  Rested(g, s) /\ g.queue = h.queue
<1>1. FD!Typed(h)
  BY DEF Rested, FloppyBase
<1>2. FD!Typed(g)
  BY <1>1 DEF FD!Typed
<1>3. /\ g.op = h.op /\ g.timer = h.timer /\ g.queue = h.queue /\ g.motor = h.motor /\ g.mon = h.mon
      /\ g.on = h.on /\ g.wrong = h.wrong /\ g.buffer = h.buffer /\ g.disk = h.disk
      /\ g.unsure = h.unsure
  BY <1>1 DEF FD!Typed
<1>4. SameBase(h, g)
  BY <1>3 DEF SameBase, SameFirst, SameMotors, FD!Id1
<1>5. QED  BY <1>2, <1>3, <1>4, RestKept

LEMMA DeselectKept ==
  ASSUME NEW h, NEW s, Rested(h, s), NEW g, g = FD!FloppyDeselect(h)
  PROVE  Rested(g, s) /\ g.queue = h.queue /\ g.disk = h.disk /\ g.unsure = h.unsure
  /\ g.buffer = h.buffer
<1>1. FD!Typed(h)
  BY DEF Rested, FloppyBase
<1>2. PICK c : c = IF h.chg.pc = "asleep" THEN "select" ELSE h.chg.pc
  OBVIOUS
<1>3. g = [h EXCEPT !.selected = FALSE, !.chg = [h.chg EXCEPT !.pc = c]]
  BY <1>1, <1>2 DEF FD!FloppyDeselect, FD!Typed
<1>4. [h.chg EXCEPT !.pc = c] \in FD!ChangeStates
  BY <1>1, <1>2 DEF FD!Typed, FD!ChangeStates
<1>5. FD!Typed(g)
  BY <1>1, <1>3, <1>4 DEF FD!Typed
<1>6. /\ g.op = h.op /\ g.timer = h.timer /\ g.queue = h.queue /\ g.motor = h.motor /\ g.mon = h.mon
      /\ g.on = h.on /\ g.wrong = h.wrong /\ g.buffer = h.buffer /\ g.disk = h.disk
      /\ g.unsure = h.unsure
  BY <1>1, <1>3 DEF FD!Typed
<1>7. SameBase(h, g)
  BY <1>6 DEF SameBase, SameFirst, SameMotors, FD!Id1
<1>8. QED  BY <1>5, <1>6, <1>7, RestKept

(* end_request: a write that fails may have been done, or half done. *)
LEMMA EndKept ==
  ASSUME NEW h, NEW s, Rested(h, s), h.queue # <<>>, NEW ok \in BOOLEAN,
         ok /\ FD!Current(h).cmd = "write" /\ FD!Buffered(h)
           => h.buffer.val = h.disk[FD!Current(h).drive][FD!Current(h).track],
         NEW e, e = FD!EndRequest(h, ok)
  PROVE  Rested(e, s)
<1>1. FD!Typed(h) /\ FD!BufferFits(h) /\ FD!MotorFits(h, s) /\ h.wrong = {}
  BY DEF Rested, FloppyBase
<1>2. PICK c, m, u, blk, n :
        /\ n = h.ended \cup {FD!Id1(h)} /\ c = FD!Current(h) /\ blk = <<c.drive, c.track>>
        /\ m = [h.moff EXCEPT ![c.drive] = OFF]
        /\ u = IF ~ok /\ c.cmd = "write" THEN h.unsure \cup {blk} ELSE h.unsure
  OBVIOUS
<1>3. blk \in FD!Blocks /\ FD!Id1(h) \in FD!Id /\ Tail(h.queue) \in Seq(FD!Entry)
  BY <1>1, <1>2, FirstRequest DEF FD!Blocks
<1>4. m \in [FloppyDrive -> Nat] /\ u \in SUBSET FD!Blocks /\ n \in SUBSET FD!Id
  BY <1>1, <1>2, <1>3, FloppyConstants DEF FD!Typed
<1>5. e = [h EXCEPT !.moff = m, !.queue = Tail(h.queue), !.ended = n, !.unsure = u]
  BY <1>1, <1>2 DEF FD!EndRequest, FD!FloppyOff, FD!Typed
<1>6. FD!Typed(e)
  <2>1. Tail(h.queue) \in FD!Queues
    BY <1>3 DEF FD!Queues
  <2>2. PICK q : q = Tail(h.queue)
    OBVIOUS
  <2>3. e = [h EXCEPT !.moff = m, !.queue = q, !.ended = n, !.unsure = u]
    BY <1>5, <2>2
  <2>4. PICK g : g = [h EXCEPT !.moff = m, !.queue = q]
    OBVIOUS
  <2>5. FD!Typed(g)
    BY <1>1, <1>4, <2>1, <2>2, <2>4 DEF FD!Typed
  <2>6. e = [g EXCEPT !.ended = n, !.unsure = u]
    BY <1>1, <2>3, <2>4 DEF FD!Typed
  <2>7. QED  BY <1>4, <2>5, <2>6 DEF FD!Typed
<1>7. /\ e.unsure = u /\ e.buffer = h.buffer /\ e.disk = h.disk /\ e.wrong = h.wrong /\ e.op = h.op
      /\ e.timer = h.timer /\ SameMotors(h, e)
  BY <1>1, <1>5 DEF FD!Typed, SameMotors
<1>8. FD!MotorFits(e, s)
  BY <1>1, <1>7 DEF FD!MotorFits, SameMotors
<1>9. FD!BufferFits(e)
  <2>1. SUFFICES ASSUME h.buffer # FD!None
                 PROVE  \/ h.buffer.val = h.disk[h.buffer.drive][h.buffer.track]
                        \/ <<h.buffer.drive, h.buffer.track>> \in u
    BY <1>7 DEF FD!BufferFits
  <2>2. CASE FD!UnderWay(h, h.buffer.drive, h.buffer.track)
    <3>1. c.cmd = "write" /\ FD!Buffered(h) /\ blk = <<h.buffer.drive, h.buffer.track>>
      BY <1>2, <2>2 DEF FD!UnderWay, FD!Buffered
    <3>2. QED  BY <1>2, <3>1
  <2>3. CASE ~FD!UnderWay(h, h.buffer.drive, h.buffer.track)
    BY <1>1, <1>2, <2>1, <2>3 DEF FD!BufferFits
  <2>4. QED  BY <2>2, <2>3
<1>10. QED  BY <1>1, <1>6, <1>7, <1>8, <1>9 DEF Rested, FloppyBase

(* A read that returns what the disk holds. *)
LEMMA ReturnsKept ==
  ASSUME NEW h, NEW s, Rested(h, s), h.queue # <<>>, FD!Current(h).cmd # "write", NEW val,
         \/ val = h.disk[FD!Current(h).drive][FD!Current(h).track]
         \/ <<FD!Current(h).drive, FD!Current(h).track>> \in h.unsure,
         NEW e, e = FD!Returns(h, val)
  PROVE  Rested(e, s)
<1>1. PICK g : g = FD!EndRequest(h, TRUE)
  OBVIOUS
<1>2. Rested(g, s)
  BY <1>1, EndKept
<1>3. FD!Typed(g)
  BY <1>2 DEF Rested, FloppyBase
<1>4. e = [g EXCEPT !.wrong = g.wrong]
  BY <1>1, <1>3 DEF FD!Returns
<1>5. e = g
  BY <1>3, <1>4 DEF FD!Typed
<1>6. QED  BY <1>2, <1>5

(* The error count of CURRENT. *)
LEMMA FirstEntry ==
  ASSUME NEW s \in Seq(FD!Entry), s # <<>>, NEW x \in Nat, NEW t, t = [s EXCEPT ![1].errors = x]
  PROVE  t \in Seq(FD!Entry) /\ t # <<>> /\ Head(t).id = Head(s).id
<1>1. Len(s) \in Nat \ {0} /\ Head(s) = s[1] /\ Head(s) \in FD!Entry
  BY HeadTailProperties, EmptySeq
<1>2. 1 \in 1..Len(s) /\ DOMAIN s = 1..Len(s)
  BY <1>1
<1>3. PICK q : q = [s[1] EXCEPT !.errors = x]
  OBVIOUS
<1>4. q \in FD!Entry /\ q.id = s[1].id
  BY <1>1, <1>3 DEF FD!Entry
<1>5. t = [s EXCEPT ![1] = q]
  BY <1>3
<1>6. t \in Seq(FD!Entry) /\ Len(t) = Len(s) /\ t[1] = q
  BY <1>2, <1>4, <1>5, ExceptSeq
<1>7. t # <<>> /\ Head(t) = t[1]
  BY <1>1, <1>6, HeadTailProperties, EmptySeq
<1>8. QED  BY <1>1, <1>4, <1>6, <1>7

LEMMA ErrorKept ==
  ASSUME NEW h, NEW s, Rested(h, s), h.queue # <<>>,
         NEW e, e = [h EXCEPT !.current_track = -1, !.queue[1].errors = @ + 1]
  PROVE  Rested(e, s) /\ e.queue # <<>>
<1>1. FD!Typed(h)
  BY DEF Rested, FloppyBase
<1>2. PICK x, q : x = h.queue[1].errors + 1 /\ q = [h.queue EXCEPT ![1].errors = x]
  OBVIOUS
<1>3. h.queue \in Seq(FD!Entry) /\ Head(h.queue) = h.queue[1] /\ Head(h.queue) \in FD!Entry
  BY <1>1, HeadTailProperties DEF FD!Typed, FD!Queues
<1>4. x \in Nat
  BY <1>2, <1>3 DEF FD!Entry
<1>5. q \in Seq(FD!Entry) /\ q # <<>> /\ Head(q).id = Head(h.queue).id
  BY <1>2, <1>3, <1>4, FirstEntry
<1>6. e = [h EXCEPT !.current_track = -1, !.queue = q]
  BY <1>1, <1>2 DEF FD!Typed
<1>7. FD!Typed(e)
  <2>1. q \in FD!Queues /\ -1 \in Int
    BY <1>5 DEF FD!Queues
  <2>2. QED  BY <1>1, <1>6, <2>1 DEF FD!Typed
<1>8. /\ e.op = h.op /\ e.timer = h.timer /\ e.queue = q /\ e.motor = h.motor /\ e.mon = h.mon
      /\ e.on = h.on /\ e.wrong = h.wrong /\ e.buffer = h.buffer /\ e.disk = h.disk
      /\ e.unsure = h.unsure
  BY <1>1, <1>6 DEF FD!Typed
<1>9. SameBase(h, e)
  BY <1>5, <1>8 DEF SameBase, SameFirst, SameMotors, FD!Id1
<1>10. QED  BY <1>5, <1>7, <1>8, <1>9, RestKept

(* bad_flp_intr: the error counts, and may end the request. *)
LEMMA BadFlpKept ==
  ASSUME NEW h, NEW s, Rested(h, s), h.queue # <<>>, NEW b \in FD!BadFlpIntr(h)
  PROVE  Rested(b, s)
<1>1. PICK e : e = [h EXCEPT !.current_track = -1, !.queue[1].errors = @ + 1]
  OBVIOUS
<1>2. Rested(e, s) /\ e.queue # <<>>
  BY <1>1, ErrorKept
<1>3. PICK d : d = FD!FloppyDeselect(e)
  OBVIOUS
<1>4. Rested(d, s) /\ d.queue # <<>>
  BY <1>2, <1>3, DeselectKept
<1>5. PICK n : n = FD!EndRequest(d, FALSE)
  OBVIOUS
<1>6. Rested(n, s)
  BY <1>4, <1>5, EndKept
<1>7. PICK g : g = IF Head(e.queue).errors > MAX_FLOPPY_ERRORS THEN n ELSE e
  OBVIOUS
<1>8. Rested(g, s) /\ g.reset \in BOOLEAN
  <2>1. Rested(g, s)
    BY <1>2, <1>6, <1>7
  <2>2. QED  BY <2>1 DEF Rested, FloppyBase, FD!Typed
<1>9. \/ b = g
      \/ b = [g EXCEPT !.reset = TRUE]
      \/ b = [g EXCEPT !.reset = @ \/ Head(g.queue).errors > MAX_FLOPPY_ERRORS \div 2]
  BY <1>1, <1>3, <1>5, <1>7 DEF FD!BadFlpIntr
<1>10. CASE b = [g EXCEPT !.reset = @ \/ Head(g.queue).errors > MAX_FLOPPY_ERRORS \div 2]
  <2>1. PICK r : r = (g.reset \/ Head(g.queue).errors > MAX_FLOPPY_ERRORS \div 2)
    OBVIOUS
  <2>2. r \in BOOLEAN
    BY <2>1
  <2>3. b = [g EXCEPT !.reset = r]
    BY <1>10, <2>1
  <2>4. QED  BY <1>8, <2>2, <2>3, ResetKept
<1>11. CASE b = [g EXCEPT !.reset = TRUE]
  BY <1>8, <1>11, ResetKept
<1>12. QED  BY <1>8, <1>9, <1>10, <1>11

(* What the first request is worked for with. *)
SameWork(h, g) == /\ SameFirst(h, g) /\ SameMotors(h, g) /\ g.buffer = h.buffer
                  /\ g.current_drive = h.current_drive /\ g.moff = h.moff

LEMMA GoingKept == ASSUME NEW h, NEW g, FD!Going(h), SameWork(h, g) PROVE FD!Going(g)
  BY DEF FD!Going, SameWork, SameFirst, SameMotors, FD!Current, FD!Buffered

LEMMA ChosenKept ==
  ASSUME NEW h, NEW g, NEW ticks, FD!Chosen(h), FD!StaysOn(h, ticks), SameWork(h, g),
         g.selected = h.selected,
         g.dor = h.dor
  PROVE  FD!Chosen(g) /\ FD!StaysOn(g, ticks)
  BY GoingKept DEF FD!Chosen, FD!Turns, FD!StaysOn, SameWork, SameMotors

Serves(handler, command) ==
  /\ command = "rw" => handler = "rw_interrupt"
  /\ command = "seek" => handler = "seek_interrupt"
  /\ command = "recal" => handler = "recal_interrupt"
  /\ command = "reset" => handler = "reset_interrupt"

(* A command is given. *)
LEMMA GivenFits ==
  ASSUME NEW h, NEW s, Rested(h, s), h.pc = "idle", NEW command \in {"rw", "seek", "recal", "reset"},
         command \in {"rw", "seek"} => FD!Chosen(h) /\ FD!StaysOn(h, s), Serves(h.do_floppy, command),
         NEW o, o = [h EXCEPT !.op = command]
  PROVE  FD!Fits(o, s)
<1>1. FD!Typed(h)
  BY DEF Rested, FloppyBase
<1>2. FD!Typed(o)
  BY <1>1 DEF FD!Typed
<1>3. /\ o.op = command /\ o.timer = h.timer /\ o.queue = h.queue /\ o.motor = h.motor /\ o.mon = h.mon
      /\ o.on = h.on /\ o.wrong = h.wrong /\ o.buffer = h.buffer /\ o.disk = h.disk
      /\ o.unsure = h.unsure /\ o.pc = h.pc /\ o.do_floppy = h.do_floppy /\ o.moff = h.moff
      /\ o.current_drive = h.current_drive /\ o.selected = h.selected /\ o.dor = h.dor
  BY <1>1 DEF FD!Typed
<1>4. SameBase(h, o) /\ SameWork(h, o)
  BY <1>3 DEF SameBase, SameFirst, SameMotors, SameWork, FD!Id1
<1>5. FloppyBase(o, s)
  BY <1>2, <1>4, BaseKept DEF Rested
<1>6. command \in {"rw", "seek"} => FD!Chosen(o) /\ FD!StaysOn(o, s)
  BY <1>3, <1>4, ChosenKept
<1>7. FD!OpFits(o, s)
  BY <1>3, <1>6 DEF FD!OpFits, Serves
<1>8. FD!TimerFits(o, s)
  BY <1>3 DEF FD!TimerFits, Rested
<1>9. QED  BY <1>5, <1>7, <1>8 DEF FD!Fits, FloppyBase

(* output_byte, which may fail. *)
LEMMA OutputFits ==
  ASSUME NEW h, NEW s, Rested(h, s), h.pc = "idle", NEW command \in {"rw", "seek", "recal", "reset"},
         command \in {"rw", "seek"} => FD!Chosen(h) /\ FD!StaysOn(h, s), Serves(h.do_floppy, command),
         NEW o \in FD!Output(h, command)
  PROVE  FD!Fits(o, s)
<1>1. PICK a : a = [h EXCEPT !.reset = TRUE, !.pc = "request"]
  OBVIOUS
<1>2. FD!Typed(h) /\ h.recal \in BOOLEAN /\ h.faults \in Nat
  BY DEF Rested, FloppyBase, FD!Typed
<1>3. Rested(a, s)
  <2>1. a = [h EXCEPT !.reset = TRUE, !.recal = h.recal, !.pc = "request", !.faults = h.faults]
    BY <1>1, <1>2 DEF FD!Typed
  <2>2. QED  BY <1>2, <2>1, FlagsKept
<1>4. Rested(FD!Faulty(a), s)
  <2>1. h.faults + 1 \in Nat
    BY <1>2
  <2>2. PICK f \in Nat : f = h.faults + 1
    BY <2>1
  <2>3. PICK g : g = FD!Faulty(a)
    OBVIOUS
  <2>4. g = [h EXCEPT !.reset = TRUE, !.recal = h.recal, !.pc = "request", !.faults = f]
    BY <1>1, <1>2, <2>2, <2>3 DEF FD!Typed, FD!Faulty
  <2>5. Rested(g, s)
    BY <1>2, <2>4, FlagsKept
  <2>6. QED  BY <2>3, <2>5
<1>5. o = a \/ o = FD!Faulty(a) \/ o = [h EXCEPT !.op = command]
  BY <1>1 DEF FD!Output
<1>6. QED  BY <1>3, <1>4, <1>5, RestedFits, GivenFits

(* setup_rw_floppy. *)
LEMMA SetupFits ==
  ASSUME NEW h, NEW s, Rested(h, s), h.pc = "idle", FD!Chosen(h), FD!StaysOn(h, s),
         NEW o \in FD!SetupRwFloppy(h)
  PROVE  FD!Fits(o, s)
<1>1. FD!Typed(h) /\ FD!BufferFits(h) /\ h.queue # <<>>
  BY DEF Rested, FloppyBase, FD!Chosen, FD!Turns, FD!Going
<1>2. PICK b : b = IF h.read_track THEN FD!None ELSE h.buffer
  OBVIOUS
<1>3. PICK x : x = [h EXCEPT !.do_floppy = "rw_interrupt", !.buffer = b]
  OBVIOUS
<1>4. b \in FD!Buffers
  BY <1>1, <1>2 DEF FD!Typed, FD!Buffers
<1>5. FD!Typed(x)
  BY <1>1, <1>3, <1>4 DEF FD!Typed, FD!Handlers
<1>6. /\ x.op = h.op /\ x.timer = h.timer /\ x.queue = h.queue /\ x.motor = h.motor /\ x.mon = h.mon
      /\ x.on = h.on /\ x.wrong = h.wrong /\ x.buffer = b /\ x.disk = h.disk
      /\ x.unsure = h.unsure /\ x.pc = h.pc /\ x.do_floppy = "rw_interrupt" /\ x.moff = h.moff
      /\ x.current_drive = h.current_drive /\ x.selected = h.selected /\ x.dor = h.dor
  BY <1>1, <1>3 DEF FD!Typed
<1>7. FD!BufferFits(x)
  BY <1>1, <1>2, <1>6 DEF FD!BufferFits, FD!UnderWay, FD!Current, FD!Id1
<1>8. Rested(x, s)
  BY <1>5, <1>6, <1>7 DEF Rested, FloppyBase, FD!MotorFits
<1>9. FD!Chosen(x) /\ FD!StaysOn(x, s)
  <2>1. FD!Current(h).drive \in FloppyDrive /\ FD!None.drive \notin FloppyDrive
        /\ FD!Current(x) = FD!Current(h) /\ FD!Id1(x) = FD!Id1(h)
    BY <1>1, <1>6, FirstRequest, FloppyConstants DEF FD!Current, FD!Id1
  <2>2. FD!Buffered(x) => b = h.buffer /\ FD!Buffered(h)
    BY <1>2, <1>6, <2>1 DEF FD!Buffered
  <2>3. FD!Going(x)
    BY <1>6, <2>1, <2>2 DEF FD!Chosen, FD!Turns, FD!Going
  <2>4. QED  BY <1>6, <2>3 DEF FD!Chosen, FD!Turns, FD!StaysOn
<1>10. o \in FD!Output(x, "rw")
  BY <1>1, <1>2, <1>3 DEF FD!SetupRwFloppy, FD!Typed
<1>11. QED  BY <1>6, <1>8, <1>9, <1>10, OutputFits DEF Serves

(* What a step leaves that neither looks at the request nor at the motors. *)
SameController(h, g) == /\ SameBase(h, g) /\ g.moff = h.moff
/\ g.current_drive = h.current_drive /\ g.dor = h.dor
                        /\ g.op = h.op /\ g.timer = h.timer /\ g.pc = h.pc

LEMMA ControllerKept ==
  ASSUME NEW h, NEW g, NEW s, Rested(h, s), FD!Typed(g), SameController(h, g)
  PROVE  /\ Rested(g, s) /\ g.pc = h.pc /\ (FD!Going(h) => FD!Going(g)) /\ (FD!Turns(h) => FD!Turns(g))
         /\ (FD!Chosen(h) /\ g.selected = h.selected => FD!Chosen(g))
         /\ \A k : FD!StaysOn(h, k) => FD!StaysOn(g, k)
<1>1. Rested(g, s)
  BY RestKept DEF SameController
<1>2. FD!Going(h) => FD!Going(g)
  BY GoingKept DEF SameController, SameBase, SameWork
<1>3. FD!Turns(h) => FD!Turns(g)
  BY <1>2 DEF FD!Turns, SameController, SameBase, SameMotors
<1>4. QED  BY <1>1, <1>2, <1>3 DEF FD!Chosen, FD!StaysOn, SameController

(* transfer: a command to read or write, or first to seek. *)
LEMMA TransferFits ==
  ASSUME NEW h, NEW s, Rested(h, s), h.pc = "idle", FD!Chosen(h), FD!StaysOn(h, s),
         NEW o \in FD!Transfer(h)
  PROVE  FD!Fits(o, s)
<1>1. FD!Typed(h)
  BY DEF Rested, FloppyBase
<1>2. PICK rt : rt = (FD!Current(h).cmd = "read" /\ Head(h.queue).errors < TRACK_ERRORS)
  OBVIOUS
<1>3. rt \in BOOLEAN
  BY <1>2
<1>4. PICK t : t = [h EXCEPT !.read_track = rt]
  OBVIOUS
<1>5. FD!Typed(t)
  BY <1>1, <1>3, <1>4 DEF FD!Typed
<1>6. /\ t.op = h.op /\ t.timer = h.timer /\ t.queue = h.queue /\ t.motor = h.motor /\ t.mon = h.mon
      /\ t.on = h.on /\ t.wrong = h.wrong /\ t.buffer = h.buffer /\ t.disk = h.disk
      /\ t.unsure = h.unsure /\ t.pc = h.pc /\ t.moff = h.moff
      /\ t.current_drive = h.current_drive /\ t.selected = h.selected /\ t.dor = h.dor
  BY <1>1, <1>4 DEF FD!Typed
<1>7. SameController(h, t)
  BY <1>6 DEF SameController, SameBase, SameFirst, SameMotors, FD!Id1
<1>8. Rested(t, s) /\ t.pc = "idle" /\ FD!Chosen(t) /\ FD!StaysOn(t, s)
  BY <1>5, <1>6, <1>7, ControllerKept
<1>9. PICK k : k = [t EXCEPT !.do_floppy = "seek_interrupt"]
  OBVIOUS
<1>10. \/ o = [t EXCEPT !.pc = "request"]
       \/ o \in FD!SetupRwFloppy(t)
       \/ o \in FD!Output(k, "seek")
  BY <1>2, <1>4, <1>9 DEF FD!Transfer
<1>11. CASE o = [t EXCEPT !.pc = "request"]
  <2>1. Rested(o, s)
    BY <1>8, <1>11, PcKept
  <2>2. QED  BY <2>1, RestedFits
<1>12. CASE o \in FD!SetupRwFloppy(t)
  BY <1>8, <1>12, SetupFits
<1>13. CASE o \in FD!Output(k, "seek")
  <2>1. FD!Typed(k)
    BY <1>5, <1>9 DEF FD!Typed, FD!Handlers
  <2>2. /\ k.op = t.op /\ k.timer = t.timer /\ k.queue = t.queue /\ k.motor = t.motor /\ k.mon = t.mon
        /\ k.on = t.on /\ k.wrong = t.wrong /\ k.buffer = t.buffer /\ k.disk = t.disk
        /\ k.unsure = t.unsure /\ k.pc = t.pc /\ k.moff = t.moff
        /\ k.current_drive = t.current_drive /\ k.selected = t.selected /\ k.dor = t.dor
        /\ k.do_floppy = "seek_interrupt"
    BY <1>5, <1>9 DEF FD!Typed
  <2>3. SameController(t, k)
    BY <2>2 DEF SameController, SameBase, SameFirst, SameMotors, FD!Id1
  <2>4. Rested(k, s) /\ k.pc = "idle" /\ FD!Chosen(k) /\ FD!StaysOn(k, s)
    BY <1>8, <2>1, <2>2, <2>3, ControllerKept
  <2>5. QED  BY <1>13, <2>2, <2>4, OutputFits DEF Serves
<1>14. QED  BY <1>10, <1>11, <1>12, <1>13

(* floppy_on_interrupt: the drive is selected, and has the time it needs for that. *)
LEMMA FloppyOnFits ==
  ASSUME NEW h, NEW s \in Nat, Rested(h, s), h.pc = "idle", FD!Turns(h), FD!StaysOn(h, SELECT + s),
         NEW o \in FD!FloppyOnInterrupt(h)
  PROVE  FD!Fits(o, s)
<1>1. FD!Typed(h) /\ h.current_drive \in FloppyDrive
  BY DEF Rested, FloppyBase, FD!Typed, FD!Turns, FD!Going
<1>2. PICK x : x = [h EXCEPT !.selected = TRUE]
  OBVIOUS
<1>3. FD!Typed(x)
  BY <1>1, <1>2 DEF FD!Typed
<1>4. /\ x.op = h.op /\ x.timer = h.timer /\ x.queue = h.queue /\ x.motor = h.motor /\ x.mon = h.mon
      /\ x.on = h.on /\ x.wrong = h.wrong /\ x.buffer = h.buffer /\ x.disk = h.disk
      /\ x.unsure = h.unsure /\ x.pc = h.pc /\ x.moff = h.moff
      /\ x.current_drive = h.current_drive /\ x.selected = TRUE /\ x.dor = h.dor
  BY <1>1, <1>2 DEF FD!Typed
<1>5. SameController(h, x)
  BY <1>4 DEF SameController, SameBase, SameFirst, SameMotors, FD!Id1
<1>6. Rested(x, s) /\ x.pc = "idle" /\ FD!Turns(x) /\ FD!StaysOn(x, SELECT + s)
  BY <1>3, <1>5, ControllerKept
<1>7. h.moff[h.current_drive] \in Nat /\ SELECT \in Nat /\ SELECT >= 1
  BY <1>1, FloppyConstants DEF FD!Typed
<1>8. CASE h.current_drive = h.dor
  <2>1. o \in FD!Transfer(x)
    BY <1>2, <1>8 DEF FD!FloppyOnInterrupt
  <2>2. FD!StaysOn(x, s) /\ FD!Chosen(x)
    BY <1>4, <1>6, <1>7, <1>8 DEF FD!StaysOn, FD!Chosen
  <2>3. QED  BY <1>6, <2>1, <2>2, TransferFits
<1>9. CASE h.current_drive # h.dor
  <2>1. PICK tm : tm = [fn |-> "transfer", left |-> SELECT]
    OBVIOUS
  <2>2. o = [x EXCEPT !.dor = h.current_drive, !.timer = tm]
    BY <1>2, <1>9, <2>1 DEF FD!FloppyOnInterrupt
  <2>3. tm \in FD!TimerStates /\ tm.fn = "transfer" /\ tm.left = SELECT
    BY <1>7, <2>1 DEF FD!TimerStates
  <2>4. h.current_drive \in Int
    BY <1>1 DEF FD!Typed
  <2>5. FD!Typed(o)
    BY <1>3, <2>2, <2>3, <2>4 DEF FD!Typed
  <2>6. /\ o.op = x.op /\ o.timer = tm /\ o.queue = x.queue /\ o.motor = x.motor /\ o.mon = x.mon
        /\ o.on = x.on /\ o.wrong = x.wrong /\ o.buffer = x.buffer /\ o.disk = x.disk
        /\ o.unsure = x.unsure /\ o.pc = x.pc /\ o.moff = x.moff
        /\ o.current_drive = x.current_drive /\ o.selected = TRUE /\ o.dor = h.current_drive
    BY <1>3, <1>4, <2>2 DEF FD!Typed
  <2>7. SameBase(x, o) /\ SameWork(x, o)
    BY <2>6 DEF SameBase, SameWork, SameFirst, SameMotors, FD!Id1
  <2>8. FloppyBase(o, s) /\ FD!Going(o)
    BY <1>6, <2>5, <2>7, BaseKept, GoingKept DEF Rested, FD!Turns
  <2>9. FD!Chosen(o) /\ FD!StaysOn(o, SELECT + s)
    BY <1>4, <1>6, <2>6, <2>8 DEF FD!Chosen, FD!Turns, FD!StaysOn
  <2>10. FD!TimerFits(o, s)
    BY <1>6, <1>7, <2>3, <2>6, <2>9 DEF FD!TimerFits, Rested
  <2>11. FD!OpFits(o, s)
    BY <1>6, <2>6 DEF FD!OpFits, Rested
  <2>12. QED  BY <2>8, <2>10, <2>11 DEF FD!Fits, FloppyBase
<1>10. QED  BY <1>8, <1>9

(* ticks_to_floppy_on: the motor is on, and mon covers what is left of its start. *)
LEMMA TicksFits ==
  ASSUME NEW h, FD!Typed(h), FD!MotorFits(h, 0), NEW nr \in FloppyDrive, NEW g,
         g = FD!TicksToFloppyOn(h, nr)
  PROVE  /\ FD!Typed(g) /\ FD!MotorFits(g, 0) /\ h.motor \subseteq g.motor /\ nr \in g.motor
         /\ \A d \in h.motor : g.on[d] = h.on[d]
         /\ \A d \in FloppyDrive : g.moff[d] = h.moff[d] \/ g.moff[d] >= OFF + 1
         /\ g.moff[nr] = OFF + 1 /\ (h.selected => g.dor = h.dor)
         /\ g.op = h.op /\ g.timer = h.timer /\ g.queue = h.queue /\ g.wrong = h.wrong
         /\ g.buffer = h.buffer /\ g.disk = h.disk /\ g.unsure = h.unsure /\ g.pc = h.pc
         /\ g.current_drive = h.current_drive /\ g.selected = h.selected /\ g.do_floppy = h.do_floppy
         /\ g.chg = h.chg
<1>1. PICK dor, n, mon, on, moff, motor :
        /\ dor = IF h.selected THEN h.dor ELSE nr
        /\ n = IF nr \notin h.motor THEN SPIN
               ELSE IF dor # h.dor /\ h.mon[nr] < SELECT THEN SELECT ELSE h.mon[nr]
        /\ mon = [h.mon EXCEPT ![nr] = n] /\ moff = [h.moff EXCEPT ![nr] = OFF + 1]
        /\ on = [h.on EXCEPT ![nr] = IF nr \in h.motor THEN h.on[nr] ELSE 0]
        /\ motor = h.motor \cup {nr}
  OBVIOUS
<1>2. /\ h.dor \in Int /\ nr \in Int /\ h.mon \in [FloppyDrive -> 0..SPIN]
      /\ h.on \in [FloppyDrive -> Nat]
      /\ h.moff \in [FloppyDrive -> Nat] /\ h.motor \in SUBSET FloppyDrive
  BY FloppyConstants DEF FD!Typed
<1>3. dor \in Int /\ n \in 0..SPIN
  BY <1>1, <1>2, FloppyConstants
<1>4. /\ mon \in [FloppyDrive -> 0..SPIN] /\ moff \in [FloppyDrive -> Nat]
      /\ on \in [FloppyDrive -> Nat]
      /\ motor \in SUBSET FloppyDrive
  BY <1>1, <1>2, <1>3, FloppyConstants
<1>5. g = [h EXCEPT !.moff = moff, !.motor = motor, !.dor = dor, !.mon = mon, !.on = on]
  BY <1>1 DEF FD!TicksToFloppyOn, FD!Long, FD!Typed
<1>6. FD!Typed(g)
  <2>1. PICK x : x = [h EXCEPT !.moff = moff, !.motor = motor, !.dor = dor]
    OBVIOUS
  <2>2. FD!Typed(x)
    BY <1>3, <1>4, <2>1 DEF FD!Typed
  <2>3. g = [x EXCEPT !.mon = mon, !.on = on]
    BY <1>5, <2>1 DEF FD!Typed
  <2>4. QED  BY <1>4, <2>2, <2>3 DEF FD!Typed
<1>7. /\ g.moff = moff /\ g.motor = motor /\ g.dor = dor /\ g.mon = mon /\ g.on = on
      /\ g.op = h.op /\ g.timer = h.timer /\ g.queue = h.queue /\ g.wrong = h.wrong
      /\ g.buffer = h.buffer /\ g.disk = h.disk /\ g.unsure = h.unsure /\ g.pc = h.pc
      /\ g.current_drive = h.current_drive /\ g.selected = h.selected /\ g.do_floppy = h.do_floppy
      /\ g.chg = h.chg
  BY <1>5 DEF FD!Typed
<1>8. \A d \in h.motor : on[d] = h.on[d]
  BY <1>1, <1>2
<1>9. FD!MotorFits(g, 0)
  <2>1. SUFFICES ASSUME NEW d \in motor
                 PROVE  IF mon[d] = 0 THEN on[d] >= SPIN ELSE on[d] + mon[d] >= SPIN + 0
    BY <1>7 DEF FD!MotorFits
  <2>2. CASE d # nr
    <3>1. d \in h.motor /\ mon[d] = h.mon[d] /\ on[d] = h.on[d]
      BY <1>1, <1>2, <2>2
    <3>2. QED  BY <3>1 DEF FD!MotorFits
  <2>3. CASE d = nr /\ nr \notin h.motor
    <3>1. mon[d] = SPIN /\ on[d] = 0
      BY <1>1, <1>2, <2>3
    <3>2. QED  BY <3>1, FloppyConstants
  <2>4. CASE d = nr /\ nr \in h.motor
    <3>1. mon[d] = n /\ on[d] = h.on[d]
      BY <1>1, <1>2, <2>4
    <3>2. h.on[nr] \in Nat /\ h.mon[nr] \in Nat /\ n \in Nat
      BY <1>2, <1>3, FloppyConstants
    <3>3. IF h.mon[nr] = 0 THEN h.on[nr] >= SPIN ELSE h.on[nr] + h.mon[nr] >= SPIN + 0
      BY <2>4 DEF FD!MotorFits
    <3>4. n = h.mon[nr] \/ (n = SELECT /\ h.mon[nr] < SELECT)
      BY <1>1, <2>4
    <3>5. QED  BY <2>4, <3>1, <3>2, <3>3, <3>4, FloppyConstants
  <2>5. QED  BY <2>2, <2>3, <2>4
<1>10. /\ \A d \in FloppyDrive : moff[d] = h.moff[d] \/ moff[d] >= OFF + 1
       /\ moff[nr] = OFF + 1
  BY <1>1, <1>2, FloppyConstants
<1>11. h.motor \subseteq motor /\ nr \in motor /\ (h.selected => dor = h.dor)
  BY <1>1
<1>12. QED  BY <1>6, <1>7, <1>8, <1>9, <1>10, <1>11

(* do_fd_request, from where the first request has a drive and a prepared buffer. *)
LEMMA StartFits ==
  ASSUME NEW h, Rested(h, 0), h.pc = "idle", h.queue # <<>>, FD!Current(h).track \in FloppyTrack,
         h.current_drive = FD!Current(h).drive,
         FD!Buffered(h) /\ FD!Current(h).cmd = "write" => h.buffer.val = FD!Id1(h),
         NEW o \in FD!Start(h)
  PROVE  FD!Fits(o, 0)
<1>1. FD!Typed(h) /\ h.current_drive \in FloppyDrive /\ FD!MotorFits(h, 0)
  BY FirstRequest DEF Rested, FloppyBase
<1>2. PICK sk : sk = (h.seek \/ FD!Current(h).track # h.current_track)
  OBVIOUS
<1>3. PICK x : x = [h EXCEPT !.seek = sk]
  OBVIOUS
<1>4. sk \in BOOLEAN
  BY <1>1, <1>2 DEF FD!Typed
<1>5. FD!Typed(x)
  BY <1>1, <1>3, <1>4 DEF FD!Typed
<1>6. /\ x.op = h.op /\ x.timer = h.timer /\ x.queue = h.queue /\ x.motor = h.motor /\ x.mon = h.mon
      /\ x.on = h.on /\ x.wrong = h.wrong /\ x.buffer = h.buffer /\ x.disk = h.disk
      /\ x.unsure = h.unsure /\ x.pc = h.pc /\ x.moff = h.moff
      /\ x.current_drive = h.current_drive
  BY <1>1, <1>3 DEF FD!Typed
<1>7. FD!MotorFits(x, 0)
  BY <1>1, <1>6 DEF FD!MotorFits
<1>8. PICK t : t = FD!TicksToFloppyOn(x, h.current_drive)
  OBVIOUS
<1>9. /\ FD!Typed(t) /\ FD!MotorFits(t, 0) /\ h.current_drive \in t.motor
      /\ t.moff[h.current_drive] = OFF + 1
      /\ t.op = x.op /\ t.timer = x.timer /\ t.queue = x.queue /\ t.wrong = x.wrong
      /\ t.buffer = x.buffer /\ t.disk = x.disk /\ t.unsure = x.unsure /\ t.pc = x.pc
      /\ t.current_drive = x.current_drive
  BY <1>1, <1>5, <1>7, <1>8, TicksFits
<1>10. FD!BufferFits(t)
  BY <1>6, <1>9 DEF Rested, FloppyBase, FD!BufferFits, FD!UnderWay, FD!Current, FD!Id1
<1>11. Rested(t, 0) /\ t.pc = "idle"
  BY <1>6, <1>9, <1>10 DEF Rested, FloppyBase
<1>12. FD!Going(t) /\ t.current_drive = h.current_drive
  BY <1>6, <1>9 DEF FD!Going, FD!Buffered, FD!Current, FD!Id1
<1>13. PICK n : n = t.mon[t.current_drive]
  OBVIOUS
<1>14. /\ n \in 0..SPIN /\ t.on[t.current_drive] \in Nat
       /\ IF n = 0 THEN t.on[t.current_drive] >= SPIN ELSE t.on[t.current_drive] + n >= SPIN + 0
  BY <1>1, <1>9, <1>12, <1>13 DEF FD!Typed, FD!MotorFits
<1>15. CASE n = 0
  <2>1. o \in FD!FloppyOnInterrupt(t)
    BY <1>2, <1>3, <1>6, <1>8, <1>13, <1>15 DEF FD!Start
  <2>2. FD!Turns(t) /\ FD!StaysOn(t, SELECT + 0)
    BY <1>9, <1>12, <1>14, <1>15, FloppyConstants DEF FD!Turns, FD!StaysOn
  <2>3. QED  BY <1>11, <2>1, <2>2, FloppyOnFits
<1>16. CASE n # 0
  <2>1. PICK tm : tm = [fn |-> "floppy_on_interrupt", left |-> n]
    OBVIOUS
  <2>2. o = [t EXCEPT !.timer = tm]
    BY <1>2, <1>3, <1>6, <1>8, <1>13, <1>16, <2>1 DEF FD!Start
  <2>3. tm \in FD!TimerStates /\ tm.fn = "floppy_on_interrupt" /\ tm.left = n /\ n \in Nat /\ n >= 1
    BY <1>14, <1>16, <2>1, FloppyConstants DEF FD!TimerStates
  <2>4. FD!Typed(o)
    BY <1>9, <2>2, <2>3 DEF FD!Typed
  <2>5. /\ o.op = t.op /\ o.timer = tm /\ o.queue = t.queue /\ o.motor = t.motor /\ o.mon = t.mon
        /\ o.on = t.on /\ o.wrong = t.wrong /\ o.buffer = t.buffer /\ o.disk = t.disk
        /\ o.unsure = t.unsure /\ o.pc = t.pc /\ o.moff = t.moff
        /\ o.current_drive = t.current_drive
    BY <1>9, <2>2 DEF FD!Typed
  <2>6. SameBase(t, o) /\ SameWork(t, o)
    BY <2>5 DEF SameBase, SameWork, SameFirst, SameMotors, FD!Id1
  <2>7. FloppyBase(o, 0) /\ FD!Going(o)
    BY <1>11, <1>12, <2>4, <2>6, BaseKept, GoingKept DEF Rested
  <2>8. /\ o.on[o.current_drive] + tm.left >= SPIN /\ tm.left <= SPIN
        /\ FD!StaysOn(o, tm.left + SELECT + 0)
    BY <1>9, <1>12, <1>14, <1>16, <2>3, <2>5, FloppyConstants DEF FD!StaysOn
  <2>9. FD!TimerFits(o, 0)
    BY <1>11, <2>3, <2>5, <2>7, <2>8 DEF FD!TimerFits, Rested
  <2>10. FD!OpFits(o, 0)
    BY <1>11, <2>5 DEF FD!OpFits, Rested
  <2>11. QED  BY <2>7, <2>9, <2>10 DEF FD!Fits, FloppyBase
<1>17. QED  BY <1>15, <1>16

(* The buffer is given the data of the write, which is then under way. *)
LEMMA BufferKeeps ==
  ASSUME NEW h, NEW s, Rested(h, s), h.queue # <<>>, NEW g, g = FD!BufferWritten(h)
  PROVE  /\ Rested(g, s) /\ g.pc = h.pc /\ g.queue = h.queue /\ g.current_drive = h.current_drive
         /\ FD!Buffered(g) /\ FD!Current(g).cmd = "write" => g.buffer.val = FD!Id1(g)
<1>1. FD!Typed(h) /\ FD!BufferFits(h) /\ FD!Id1(h) \in FD!Id /\ FD!Current(h).drive \in FloppyDrive
  BY FirstRequest DEF Rested, FloppyBase
<1>2. CASE FD!Buffered(h) /\ FD!Current(h).cmd = "write"
  <2>1. PICK b : b = [h.buffer EXCEPT !.val = FD!Id1(h)]
    OBVIOUS
  <2>2. g = [h EXCEPT !.buffer = b]
    BY <1>1, <1>2, <2>1 DEF FD!BufferWritten, FD!Typed
  <2>3. h.buffer \in FD!Buffers /\ h.buffer # FD!None
    BY <1>1, <1>2, FloppyConstants DEF FD!Buffered, FD!Typed
  <2>4. h.buffer \in [track : FloppyTrack, drive : FloppyDrive, val : FD!Value]
        /\ FD!Id1(h) \in FD!Value
    BY <1>1, <2>3 DEF FD!Buffers, FD!Value
  <2>5. /\ b \in [track : FloppyTrack, drive : FloppyDrive, val : FD!Value] /\ b.val = FD!Id1(h)
        /\ b.track = h.buffer.track /\ b.drive = h.buffer.drive
    BY <2>1, <2>4
  <2>6. b \in FD!Buffers
    BY <2>5 DEF FD!Buffers
  <2>7. FD!Typed(g)
    BY <1>1, <2>2, <2>6 DEF FD!Typed
  <2>8. /\ g.op = h.op /\ g.timer = h.timer /\ g.queue = h.queue /\ g.motor = h.motor /\ g.mon = h.mon
        /\ g.on = h.on /\ g.wrong = h.wrong /\ g.buffer = b /\ g.pc = h.pc
        /\ g.current_drive = h.current_drive
    BY <1>1, <2>2 DEF FD!Typed
  <2>9. FD!BufferFits(g)
    BY <1>2, <2>5, <2>8 DEF FD!BufferFits, FD!UnderWay, FD!Current, FD!Id1, FD!Buffered
  <2>10. Rested(g, s)
    BY <2>7, <2>8, <2>9 DEF Rested, FloppyBase, FD!MotorFits
  <2>11. QED  BY <2>5, <2>8, <2>10 DEF FD!Id1
<1>3. CASE ~(FD!Buffered(h) /\ FD!Current(h).cmd = "write")
  BY <1>3 DEF FD!BufferWritten
<1>4. QED  BY <1>2, <1>3

(* "repeat": the requests that need no disk end here. *)
LEMMA RepeatFits ==
  ASSUME NEW h, Rested(h, 0), h.pc = "idle", NEW o \in FD!Repeat(h)
  PROVE  FD!Fits(o, 0)
<1>1. FD!Typed(h) /\ FD!BufferFits(h)
  BY DEF Rested, FloppyBase
<1>2. CASE h.queue = <<>>
  <2>1. o = [h EXCEPT !.do_floppy = "NULL"]
    BY <1>2 DEF FD!Repeat
  <2>2. FD!Typed(o)
    BY <1>1, <2>1 DEF FD!Typed, FD!Handlers
  <2>3. /\ o.op = h.op /\ o.timer = h.timer /\ o.queue = h.queue /\ o.motor = h.motor /\ o.mon = h.mon
        /\ o.on = h.on /\ o.wrong = h.wrong /\ o.buffer = h.buffer /\ o.disk = h.disk
        /\ o.unsure = h.unsure
    BY <1>1, <2>1 DEF FD!Typed
  <2>4. SameBase(h, o)
    BY <2>3 DEF SameBase, SameFirst, SameMotors, FD!Id1
  <2>5. Rested(o, 0)
    BY <2>2, <2>3, <2>4, RestKept
  <2>6. QED  BY <2>5, RestedFits
<1>3. CASE h.queue # <<>>
  <2>1. PICK c, sk, dr : /\ sk = (h.seek \/ h.current_drive # FD!Current(h).drive)
                         /\ dr = FD!Current(h).drive
                         /\ c = [h EXCEPT !.seek = sk, !.current_drive = dr]
    OBVIOUS
  <2>2. sk \in BOOLEAN /\ dr \in Int /\ dr \in FloppyDrive
    <3>1. dr \in FloppyDrive
      BY <1>1, <1>3, <2>1, FirstRequest
    <3>2. QED  BY <1>1, <2>1, <3>1, FloppyConstants DEF FD!Typed
  <2>3. FD!Typed(c)
    BY <1>1, <2>1, <2>2 DEF FD!Typed
  <2>4. /\ c.op = h.op /\ c.timer = h.timer /\ c.queue = h.queue /\ c.motor = h.motor /\ c.mon = h.mon
        /\ c.on = h.on /\ c.wrong = h.wrong /\ c.buffer = h.buffer /\ c.disk = h.disk
        /\ c.unsure = h.unsure /\ c.pc = h.pc /\ c.current_drive = dr
    BY <1>1, <2>1 DEF FD!Typed
  <2>5. SameBase(h, c)
    BY <2>4 DEF SameBase, SameFirst, SameMotors, FD!Id1
  <2>6. Rested(c, 0) /\ c.queue # <<>> /\ c.pc = "idle"
    BY <1>3, <2>3, <2>4, <2>5, RestKept
  <2>7. FD!Current(c) = FD!Current(h) /\ FD!Id1(c) = FD!Id1(h) /\ (FD!Buffered(c) <=> FD!Buffered(h))
    BY <2>4 DEF FD!Current, FD!Id1, FD!Buffered
  <2>8. PICK x, y, z : /\ x = FD!EndRequest(c, FALSE) /\ y = FD!Returns(c, h.buffer.val)
                       /\ z = FD!BufferWritten(c)
    OBVIOUS
  <2>9. \/ FD!Current(h).track \notin FloppyTrack /\ o = [x EXCEPT !.pc = "repeat"]
        \/ FD!Buffered(h) /\ FD!Current(h).cmd = "read" /\ o = [y EXCEPT !.pc = "repeat"]
        \/ FD!Current(h).track \in FloppyTrack /\ o \in FD!Start(z)
    BY <1>3, <2>1, <2>8 DEF FD!Repeat
  <2>10. CASE o = [x EXCEPT !.pc = "repeat"]
    <3>1. Rested(x, 0)
      BY <2>6, <2>8, EndKept
    <3>2. Rested(o, 0)
      BY <2>10, <3>1, PcKept
    <3>3. QED  BY <3>2, RestedFits
  <2>11. CASE FD!Buffered(h) /\ FD!Current(h).cmd = "read" /\ o = [y EXCEPT !.pc = "repeat"]
    <3>1. h.buffer # FD!None
      BY <2>2, <2>1, <2>11, FloppyConstants DEF FD!Buffered
    <3>2. ~FD!UnderWay(h, h.buffer.drive, h.buffer.track)
      BY <2>11 DEF FD!UnderWay
    <3>3. \/ h.buffer.val = c.disk[FD!Current(c).drive][FD!Current(c).track]
          \/ <<FD!Current(c).drive, FD!Current(c).track>> \in c.unsure
      BY <1>1, <2>4, <2>7, <2>11, <3>1, <3>2 DEF FD!BufferFits, FD!Buffered
    <3>4. Rested(y, 0)
      BY <2>6, <2>7, <2>8, <2>11, <3>3, ReturnsKept
    <3>5. Rested(o, 0)
      BY <2>11, <3>4, PcKept
    <3>6. QED  BY <3>5, RestedFits
  <2>12. CASE FD!Current(h).track \in FloppyTrack /\ o \in FD!Start(z)
    <3>1. /\ Rested(z, 0) /\ z.pc = "idle" /\ z.queue # <<>> /\ z.current_drive = dr
          /\ z.queue = c.queue
          /\ FD!Buffered(z) /\ FD!Current(z).cmd = "write" => z.buffer.val = FD!Id1(z)
      BY <2>4, <2>6, <2>8, BufferKeeps
    <3>2. FD!Current(z) = FD!Current(h)
      BY <2>7, <3>1 DEF FD!Current, FD!Id1
    <3>3. z.current_drive = FD!Current(z).drive /\ FD!Current(z).track \in FloppyTrack
      BY <2>1, <2>12, <3>1, <3>2
    <3>4. QED  BY <2>12, <3>1, <3>3, StartFits
  <2>13. QED  BY <2>9, <2>10, <2>11, <2>12
<1>4. QED  BY <1>2, <1>3

(* do_fd_request. *)
LEMMA DoFdRequestFits ==
  ASSUME NEW h, Rested(h, 0), NEW o \in FD!DoFdRequest(h)
  PROVE  FD!Fits(o, 0)
<1>1. FD!Typed(h)
  BY DEF Rested, FloppyBase
<1>2. PICK m, n : m = [h EXCEPT !.pc = "idle"] /\ n = [h EXCEPT !.seek = FALSE, !.pc = "idle"]
  OBVIOUS
<1>3. \/ o \in FD!Repeat(m)
      \/ o = FD!ResetFloppy(n)
      \/ o \in FD!RecalibrateFloppy(n)
      \/ o \in FD!Repeat(n)
  BY <1>2 DEF FD!DoFdRequest
<1>4. m.pc = "idle" /\ n.pc = "idle" /\ Rested(m, 0)
  BY <1>1, <1>2, PcKept DEF FD!Typed
<1>5. Rested(n, 0)
  <2>1. FD!Typed(n)
    BY <1>1, <1>2 DEF FD!Typed
  <2>2. /\ n.op = h.op /\ n.timer = h.timer /\ n.queue = h.queue /\ n.motor = h.motor /\ n.mon = h.mon
        /\ n.on = h.on /\ n.wrong = h.wrong /\ n.buffer = h.buffer /\ n.disk = h.disk
        /\ n.unsure = h.unsure
    BY <1>1, <1>2 DEF FD!Typed
  <2>3. SameBase(h, n)
    BY <2>2 DEF SameBase, SameFirst, SameMotors, FD!Id1
  <2>4. QED  BY <2>1, <2>2, <2>3, RestKept
<1>6. FD!Typed(n)
  BY <1>5 DEF Rested, FloppyBase
<1>7. CASE o = FD!ResetFloppy(n)
  <2>1. PICK x : x = [n EXCEPT !.reset = FALSE, !.recal = TRUE, !.do_floppy = "reset_interrupt"]
    OBVIOUS
  <2>2. FD!Typed(x)
    BY <1>6, <2>1 DEF FD!Typed, FD!Handlers
  <2>3. /\ x.op = n.op /\ x.timer = n.timer /\ x.queue = n.queue /\ x.motor = n.motor /\ x.mon = n.mon
        /\ x.on = n.on /\ x.wrong = n.wrong /\ x.buffer = n.buffer /\ x.disk = n.disk
        /\ x.unsure = n.unsure /\ x.pc = n.pc /\ x.do_floppy = "reset_interrupt"
    BY <1>6, <2>1 DEF FD!Typed
  <2>4. SameBase(n, x)
    BY <2>3 DEF SameBase, SameFirst, SameMotors, FD!Id1
  <2>5. Rested(x, 0)
    BY <1>5, <2>2, <2>3, <2>4, RestKept
  <2>6. o = [x EXCEPT !.op = "reset"]
    BY <1>6, <1>7, <2>1 DEF FD!ResetFloppy, FD!Typed
  <2>7. QED  BY <1>4, <2>3, <2>5, <2>6, GivenFits DEF Serves
<1>8. CASE o \in FD!RecalibrateFloppy(n)
  <2>1. PICK x : x = [n EXCEPT !.recal = FALSE, !.current_track = 0, !.do_floppy = "recal_interrupt"]
    OBVIOUS
  <2>2. FD!Typed(x)
    <3>1. PICK z : z = [n EXCEPT !.recal = FALSE, !.do_floppy = "recal_interrupt"]
      OBVIOUS
    <3>2. FD!Typed(z)
      BY <1>6, <3>1 DEF FD!Typed, FD!Handlers
    <3>3. x = [z EXCEPT !.current_track = 0]
      BY <1>6, <2>1, <3>1 DEF FD!Typed
    <3>4. QED  BY <3>2, <3>3 DEF FD!Typed
  <2>3. /\ x.op = n.op /\ x.timer = n.timer /\ x.queue = n.queue /\ x.motor = n.motor /\ x.mon = n.mon
        /\ x.on = n.on /\ x.wrong = n.wrong /\ x.buffer = n.buffer /\ x.disk = n.disk
        /\ x.unsure = n.unsure /\ x.pc = n.pc /\ x.do_floppy = "recal_interrupt"
    BY <1>6, <2>1 DEF FD!Typed
  <2>4. SameBase(n, x)
    BY <2>3 DEF SameBase, SameFirst, SameMotors, FD!Id1
  <2>5. Rested(x, 0)
    BY <1>5, <2>2, <2>3, <2>4, RestKept
  <2>6. o \in FD!Output(x, "recal")
    BY <1>8, <2>1 DEF FD!RecalibrateFloppy
  <2>7. QED  BY <1>4, <2>3, <2>5, <2>6, OutputFits DEF Serves
<1>9. CASE o \in FD!Repeat(m)
  BY <1>4, <1>9, RepeatFits
<1>10. CASE o \in FD!Repeat(n)
  BY <1>4, <1>5, <1>10, RepeatFits
<1>11. QED  BY <1>3, <1>7, <1>8, <1>9, <1>10

(* A step that is none of the driver's own: of the controller, or of another process. *)
LEMMA FitsKept ==
  ASSUME NEW h, FD!Fits(h, 0), NEW g, FD!Typed(g), SameFirst(h, g), FD!MotorFits(g, 0),
         FD!BufferFits(g),
         h.motor \subseteq g.motor, \A d \in h.motor : g.on[d] = h.on[d],
         \A d \in FloppyDrive : g.moff[d] = h.moff[d] \/ g.moff[d] >= OFF,
         g.buffer = h.buffer \/ g.buffer = FD!None, h.selected => g.selected /\ g.dor = h.dor,
         g.wrong = h.wrong, g.current_drive = h.current_drive, g.op = h.op, g.timer = h.timer,
         g.pc = h.pc, g.do_floppy = h.do_floppy
  PROVE  FD!Fits(g, 0)
<1>1. FD!Typed(h)
  BY DEF FD!Fits
<1>2. FD!Going(h) => FD!Going(g)
  <2>1. SUFFICES ASSUME FD!Going(h) PROVE FD!Going(g)
    OBVIOUS
  <2>2. h.queue # <<>> /\ FD!Current(h).drive \in FloppyDrive /\ FD!None.drive \notin FloppyDrive
    BY <1>1, <2>1, FirstRequest, FloppyConstants DEF FD!Going
  <2>3. g.queue # <<>> /\ FD!Id1(g) = FD!Id1(h) /\ FD!Current(g) = FD!Current(h)
    BY <2>2 DEF SameFirst, FD!Current
  <2>4. FD!Buffered(g) => g.buffer = h.buffer /\ FD!Buffered(h)
    BY <2>2, <2>3 DEF FD!Buffered
  <2>5. QED  BY <2>1, <2>3, <2>4 DEF FD!Going
<1>3. \A k : FD!Going(h) /\ FD!StaysOn(h, k) /\ k <= OFF /\ k \in Nat => FD!StaysOn(g, k)
  <2>1. SUFFICES ASSUME NEW k \in Nat, FD!Going(h), FD!StaysOn(h, k), k <= OFF PROVE FD!StaysOn(g, k)
    OBVIOUS
  <2>2. h.current_drive \in FloppyDrive
    BY <1>1, <2>1, FirstRequest DEF FD!Going
  <2>3. PICK d \in FloppyDrive : d = h.current_drive
    BY <2>2
  <2>4. g.moff[d] \in Nat /\ h.moff[d] \in Nat /\ OFF \in Nat
    BY <1>1, FloppyConstants DEF FD!Typed
  <2>5. h.moff[d] >= k /\ (g.moff[d] = h.moff[d] \/ g.moff[d] >= OFF)
    BY <2>1, <2>3 DEF FD!StaysOn
  <2>6. g.moff[d] >= k
    BY <2>1, <2>4, <2>5
  <2>7. QED  BY <2>3, <2>6 DEF FD!StaysOn
<1>4. FD!Chosen(h) => FD!Chosen(g)
  BY <1>2 DEF FD!Chosen, FD!Turns, FD!Going
<1>5. SELECT \in Nat /\ SPIN \in Nat /\ OFF \in Nat /\ SPIN + SELECT <= OFF
  BY FloppyConstants
<1>6. h.timer \in FD!TimerStates
  BY <1>1 DEF FD!Typed
<1>7. FD!TimerFits(g, 0)
  <2>1. h.timer.fn # "none" => h.timer.left \in Nat
    BY <1>6 DEF FD!TimerStates, FD!NoTimer
  <2>2. FD!TimerFits(h, 0)
    BY DEF FD!Fits
  <2>3. g.timer.fn # "none" => g.pc = "idle" /\ g.op = "none" /\ g.timer.left >= 1
    BY <2>2 DEF FD!TimerFits
  <2>4. ASSUME g.timer.fn = "transfer"
        PROVE  FD!Chosen(g) /\ g.timer.left <= SELECT /\ FD!StaysOn(g, g.timer.left + 0)
    <3>1. FD!Chosen(h) /\ h.timer.left <= SELECT /\ FD!StaysOn(h, h.timer.left + 0)
      BY <2>2, <2>4 DEF FD!TimerFits
    <3>2. h.timer.left + 0 \in Nat /\ h.timer.left + 0 <= OFF
      BY <1>5, <2>1, <2>4, <3>1
    <3>3. FD!StaysOn(g, h.timer.left + 0)
      BY <1>3, <3>1, <3>2 DEF FD!Chosen, FD!Turns
    <3>4. QED  BY <1>4, <3>1, <3>3
  <2>5. ASSUME g.timer.fn = "floppy_on_interrupt"
        PROVE  /\ FD!Going(g) /\ g.timer.left <= SPIN /\ g.on[g.current_drive] + g.timer.left >= SPIN
               /\ FD!StaysOn(g, g.timer.left + SELECT + 0)
    <3>1. /\ FD!Going(h) /\ h.timer.left <= SPIN /\ h.on[h.current_drive] + h.timer.left >= SPIN
          /\ FD!StaysOn(h, h.timer.left + SELECT + 0)
      BY <2>2, <2>5 DEF FD!TimerFits
    <3>2. h.timer.left + SELECT + 0 \in Nat /\ h.timer.left + SELECT + 0 <= OFF
      BY <1>5, <2>1, <2>5, <3>1
    <3>3. FD!StaysOn(g, h.timer.left + SELECT + 0)
      BY <1>3, <3>1, <3>2
    <3>4. g.on[g.current_drive] = h.on[h.current_drive]
      BY <3>1 DEF FD!Going
    <3>5. QED  BY <1>2, <3>1, <3>3, <3>4
  <2>6. QED  BY <2>3, <2>4, <2>5 DEF FD!TimerFits
<1>8. FD!OpFits(g, 0)
  <2>1. FD!OpFits(h, 0) /\ 0 \in Nat /\ 0 <= OFF
    BY <1>5 DEF FD!Fits
  <2>2. g.op \in {"rw", "seek"} => FD!Chosen(g) /\ FD!StaysOn(g, 0)
    BY <1>3, <1>4, <2>1 DEF FD!OpFits, FD!Chosen, FD!Turns
  <2>3. QED  BY <2>1, <2>2 DEF FD!OpFits
<1>9. QED  BY <1>7, <1>8 DEF FD!Fits

(* rw_interrupt: what was read is what the disk holds, and what was written is in the buffer. *)
LEMMA RwFits ==
  ASSUME NEW h, Rested(h, 0), FD!Chosen(h), NEW fails \in BOOLEAN, NEW dma,
         ~fails /\ FD!Current(h).cmd = "write" /\ FD!Buffered(h)
           => h.buffer.val = h.disk[FD!Current(h).drive][FD!Current(h).track],
         ~fails /\ FD!Current(h).cmd # "write"
           => dma = h.disk[FD!Current(h).drive][FD!Current(h).track],
         NEW o \in FD!RwInterrupt(h, fails, dma)
  PROVE  FD!Fits(o, 0)
<1>1. FD!Typed(h) /\ FD!BufferFits(h) /\ h.queue # <<>> /\ FD!Current(h).track \in FloppyTrack
      /\ h.current_drive = FD!Current(h).drive
  BY DEF Rested, FloppyBase, FD!Chosen, FD!Turns, FD!Going
<1>2. FD!Current(h).drive \in FloppyDrive
  BY <1>1, FirstRequest
<1>3. PICK b, g : /\ b = [track |-> FD!Current(h).track, drive |-> h.current_drive, val |-> dma]
                  /\ g = [h EXCEPT !.buffer = IF h.read_track THEN b ELSE h.buffer]
  OBVIOUS
<1>4. PICK d, e, f, r : /\ d = FD!FloppyDeselect(h) /\ e = FD!EndRequest(d, fails = FALSE)
                        /\ f = FD!FloppyDeselect(g) /\ r = FD!Returns(f, dma)
  OBVIOUS
<1>5. PICK x : /\ o = [x EXCEPT !.pc = "request"]
               /\ \/ fails /\ x \in FD!BadFlpIntr(h)
                  \/ fails /\ x = FD!EndRequest(d, FALSE)
                  \/ ~fails /\ FD!Current(h).cmd = "write" /\ x = FD!EndRequest(d, TRUE)
                  \/ ~fails /\ FD!Current(h).cmd # "write" /\ x = r
  BY <1>1, <1>3, <1>4 DEF FD!RwInterrupt, FD!Typed
<1>6. /\ Rested(d, 0) /\ d.queue # <<>> /\ FD!Current(d) = FD!Current(h) /\ d.disk = h.disk
      /\ d.buffer = h.buffer
  BY <1>1, <1>4, DeselectKept DEF FD!Current, FD!Id1
<1>7. CASE fails /\ x \in FD!BadFlpIntr(h)
  <2>1. Rested(x, 0)
    BY <1>1, <1>7, BadFlpKept
  <2>2. Rested(o, 0)
    BY <1>5, <2>1, PcKept
  <2>3. QED  BY <2>2, RestedFits
<1>8. CASE fails /\ x = FD!EndRequest(d, FALSE)
  <2>1. Rested(x, 0)
    BY <1>6, <1>8, EndKept
  <2>2. Rested(o, 0)
    BY <1>5, <2>1, PcKept
  <2>3. QED  BY <2>2, RestedFits
<1>9. CASE ~fails /\ FD!Current(h).cmd = "write" /\ x = FD!EndRequest(d, TRUE)
  <2>1. FD!Buffered(d) => d.buffer.val = d.disk[FD!Current(d).drive][FD!Current(d).track]
    BY <1>6, <1>9 DEF FD!Buffered
  <2>2. Rested(x, 0)
    BY <1>6, <1>9, <2>1, EndKept
  <2>3. Rested(o, 0)
    BY <1>5, <2>2, PcKept
  <2>4. QED  BY <2>3, RestedFits
<1>10. CASE ~fails /\ FD!Current(h).cmd # "write" /\ x = r
  <2>1. dma = h.disk[FD!Current(h).drive][FD!Current(h).track] /\ dma \in FD!Value
    BY <1>1, <1>2, <1>10 DEF FD!Typed, FD!Disks
  <2>2. b \in FD!Buffers /\ b.val = dma /\ b.track = FD!Current(h).track
        /\ b.drive = FD!Current(h).drive
    BY <1>1, <1>2, <1>3, <2>1 DEF FD!Buffers
  <2>3. PICK bb : bb = IF h.read_track THEN b ELSE h.buffer
    OBVIOUS
  <2>4. bb \in FD!Buffers /\ g = [h EXCEPT !.buffer = bb]
    BY <1>1, <1>3, <2>2, <2>3 DEF FD!Typed
  <2>5. FD!Typed(g)
    BY <1>1, <2>4 DEF FD!Typed
  <2>6. /\ g.op = h.op /\ g.timer = h.timer /\ g.queue = h.queue /\ g.motor = h.motor /\ g.mon = h.mon
        /\ g.on = h.on /\ g.wrong = h.wrong /\ g.buffer = bb /\ g.disk = h.disk
        /\ g.unsure = h.unsure
    BY <1>1, <2>4 DEF FD!Typed
  <2>7. FD!Current(g) = FD!Current(h)
    BY <2>6 DEF FD!Current, FD!Id1
  <2>8. FD!BufferFits(g)
    <3>1. CASE bb = b
      BY <2>1, <2>2, <2>6, <3>1 DEF FD!BufferFits
    <3>2. CASE bb = h.buffer
      BY <1>1, <2>6, <2>7, <3>2 DEF FD!BufferFits, FD!UnderWay
    <3>3. QED  BY <2>3, <3>1, <3>2
  <2>9. Rested(g, 0)
    BY <2>5, <2>6, <2>8 DEF Rested, FloppyBase, FD!MotorFits
  <2>10. Rested(f, 0) /\ f.queue # <<>> /\ FD!Current(f) = FD!Current(h) /\ f.disk = h.disk
    BY <1>1, <1>4, <2>6, <2>7, <2>9, DeselectKept DEF FD!Current, FD!Id1
  <2>11. Rested(r, 0)
    BY <1>4, <1>10, <2>1, <2>10, ReturnsKept
  <2>12. Rested(o, 0)
    BY <1>5, <1>10, <2>11, PcKept
  <2>13. QED  BY <2>12, RestedFits
<1>11. QED  BY <1>5, <1>7, <1>8, <1>9, <1>10

(* seek_interrupt. *)
LEMMA SeekFits ==
  ASSUME NEW h, Rested(h, 0), h.pc = "idle", FD!Chosen(h), FD!StaysOn(h, 0), NEW fails \in BOOLEAN,
         NEW o \in FD!SeekInterrupt(h, fails)
  PROVE  FD!Fits(o, 0)
<1>1. FD!Typed(h) /\ h.queue # <<>>
  BY DEF Rested, FloppyBase, FD!Chosen, FD!Turns, FD!Going
<1>2. FD!Current(h).track \in Int
  BY <1>1, FirstRequest
<1>3. CASE fails
  <2>1. PICK g : g = [h EXCEPT !.recal = TRUE]
    OBVIOUS
  <2>2. PICK x \in FD!BadFlpIntr(g) : o = [x EXCEPT !.pc = "request"]
    BY <1>3, <2>1 DEF FD!SeekInterrupt
  <2>3. FD!Typed(g)
    BY <1>1, <2>1 DEF FD!Typed
  <2>4. /\ g.op = h.op /\ g.timer = h.timer /\ g.queue = h.queue /\ g.motor = h.motor /\ g.mon = h.mon
        /\ g.on = h.on /\ g.wrong = h.wrong /\ g.buffer = h.buffer /\ g.disk = h.disk
        /\ g.unsure = h.unsure
    BY <1>1, <2>1 DEF FD!Typed
  <2>5. SameBase(h, g)
    BY <2>4 DEF SameBase, SameFirst, SameMotors, FD!Id1
  <2>6. Rested(g, 0) /\ g.queue # <<>>
    BY <1>1, <2>3, <2>4, <2>5, RestKept
  <2>7. Rested(x, 0)
    BY <2>2, <2>6, BadFlpKept
  <2>8. Rested(o, 0)
    BY <2>2, <2>7, PcKept
  <2>9. QED  BY <2>8, RestedFits
<1>4. CASE ~fails
  <2>1. PICK tr : tr = FD!Current(h).track
    OBVIOUS
  <2>2. PICK g : g = [h EXCEPT !.current_track = tr]
    OBVIOUS
  <2>3. o \in FD!SetupRwFloppy(g)
    BY <1>4, <2>1, <2>2 DEF FD!SeekInterrupt
  <2>4. FD!Typed(g)
    BY <1>1, <1>2, <2>1, <2>2 DEF FD!Typed
  <2>5. /\ g.op = h.op /\ g.timer = h.timer /\ g.queue = h.queue /\ g.motor = h.motor /\ g.mon = h.mon
        /\ g.on = h.on /\ g.wrong = h.wrong /\ g.buffer = h.buffer /\ g.disk = h.disk
        /\ g.unsure = h.unsure /\ g.pc = h.pc /\ g.moff = h.moff
        /\ g.current_drive = h.current_drive /\ g.selected = h.selected /\ g.dor = h.dor
    BY <1>1, <2>2 DEF FD!Typed
  <2>6. SameController(h, g)
    BY <2>5 DEF SameController, SameBase, SameFirst, SameMotors, FD!Id1
  <2>7. Rested(g, 0) /\ g.pc = "idle" /\ FD!Chosen(g) /\ FD!StaysOn(g, 0)
    BY <2>4, <2>5, <2>6, ControllerKept
  <2>8. QED  BY <2>3, <2>7, SetupFits
<1>5. QED  BY <1>3, <1>4

(* floppy_interrupt, whichever handler is set. *)
LEMMA FloppyHandledFits ==
  ASSUME NEW h, FD!Fits(h, 0), h.op # "none", h.pc = "idle", NEW fails \in BOOLEAN, NEW dma,
         h.op = "rw" /\ ~fails /\ FD!Current(h).cmd = "write" /\ FD!Buffered(h)
           => h.buffer.val = h.disk[FD!Current(h).drive][FD!Current(h).track],
         h.op = "rw" /\ ~fails /\ FD!Current(h).cmd # "write"
           => dma = h.disk[FD!Current(h).drive][FD!Current(h).track],
         NEW o \in FD!Handled(h, fails, dma)
  PROVE  FD!Fits(o, 0)
<1>1. FD!Typed(h) /\ FD!OpFits(h, 0) /\ FD!TimerFits(h, 0) /\ h.op \in {"rw", "seek", "recal", "reset"}
  BY DEF FD!Fits, FD!Typed
<1>2. PICK n : n = [h EXCEPT !.do_floppy = "NULL", !.op = "none"]
  OBVIOUS
<1>3. FD!Typed(n)
  BY <1>1, <1>2 DEF FD!Typed, FD!Handlers
<1>4. /\ n.op = "none" /\ n.timer = h.timer /\ n.queue = h.queue /\ n.motor = h.motor /\ n.mon = h.mon
      /\ n.on = h.on /\ n.wrong = h.wrong /\ n.buffer = h.buffer /\ n.disk = h.disk
      /\ n.unsure = h.unsure /\ n.pc = h.pc /\ n.moff = h.moff
      /\ n.current_drive = h.current_drive /\ n.selected = h.selected /\ n.dor = h.dor
  BY <1>1, <1>2 DEF FD!Typed
<1>5. SameBase(h, n) /\ SameWork(h, n)
  BY <1>4 DEF SameBase, SameWork, SameFirst, SameMotors, FD!Id1
<1>6. Rested(n, 0) /\ n.pc = "idle"
  <2>1. FloppyBase(n, 0)
    BY <1>3, <1>5, BaseKept DEF FloppyBase, FD!Fits
  <2>2. n.timer.fn = "none" /\ n.pc = "idle"
    BY <1>1, <1>4 DEF FD!TimerFits, FD!OpFits
  <2>3. QED  BY <1>4, <2>1, <2>2 DEF Rested
<1>7. h.op \in {"rw", "seek"} => FD!Chosen(n) /\ FD!StaysOn(n, 0)
  BY <1>1, <1>4, <1>5, ChosenKept DEF FD!OpFits
<1>8. CASE h.op = "rw"
  <2>1. o \in FD!RwInterrupt(n, fails, dma)
    BY <1>1, <1>2, <1>8 DEF FD!Handled, FD!OpFits
  <2>2. FD!Current(n) = FD!Current(h) /\ (FD!Buffered(n) <=> FD!Buffered(h))
    BY <1>4 DEF FD!Current, FD!Id1, FD!Buffered
  <2>3. QED  BY <1>4, <1>6, <1>7, <1>8, <2>1, <2>2, RwFits
<1>9. CASE h.op = "seek"
  <2>1. o \in FD!SeekInterrupt(n, fails)
    BY <1>1, <1>2, <1>9 DEF FD!Handled, FD!OpFits
  <2>2. QED  BY <1>6, <1>7, <1>9, <2>1, SeekFits
<1>10. CASE h.op \in {"recal", "reset"}
  <2>1. PICK r, c : /\ o = [n EXCEPT !.reset = r, !.recal = c, !.pc = "request"]
                    /\ r \in BOOLEAN /\ c \in BOOLEAN
    <3>1. n.reset \in BOOLEAN /\ n.recal \in BOOLEAN
      BY <1>3 DEF FD!Typed
    <3>2. CASE h.op = "recal"
      <4>1. o = [n EXCEPT !.reset = n.reset \/ fails, !.recal = n.recal /\ fails, !.pc = "request"]
        BY <1>1, <1>2, <3>2 DEF FD!Handled, FD!OpFits, FD!RecalInterrupt
      <4>2. QED  BY <3>1, <4>1
    <3>3. CASE h.op = "reset"
      <4>1. o = [n EXCEPT !.reset = n.reset \/ fails, !.pc = "request"]
        BY <1>1, <1>2, <3>3 DEF FD!Handled, FD!OpFits
      <4>2. o = [n EXCEPT !.reset = n.reset \/ fails, !.recal = n.recal, !.pc = "request"]
        BY <1>3, <4>1 DEF FD!Typed
      <4>3. QED  BY <3>1, <4>2
    <3>4. QED  BY <1>10, <3>2, <3>3
  <2>2. FD!Typed(o)
    BY <1>3, <2>1 DEF FD!Typed
  <2>3. /\ o.op = n.op /\ o.timer = n.timer /\ o.queue = n.queue /\ o.motor = n.motor /\ o.mon = n.mon
        /\ o.on = n.on /\ o.wrong = n.wrong /\ o.buffer = n.buffer /\ o.disk = n.disk
        /\ o.unsure = n.unsure
    BY <1>3, <2>1 DEF FD!Typed
  <2>4. SameBase(n, o)
    BY <2>3 DEF SameBase, SameFirst, SameMotors, FD!Id1
  <2>5. Rested(o, 0)
    BY <1>6, <2>2, <2>3, <2>4, RestKept
  <2>6. QED  BY <2>5, RestedFits
<1>11. QED  BY <1>1, <1>8, <1>9, <1>10

(* What the command has done: the head moves, or the block is written that the buffer holds. *)
LEMMA DoneFits ==
  ASSUME NEW h, FD!Fits(h, 0), h.op # "none", NEW g, g = FD!Done(h)
  PROVE  /\ FD!Fits(g, 0) /\ g.pc = h.pc /\ g.op = h.op /\ g.queue = h.queue
         /\ g.op = "rw" /\ FD!Current(g).cmd = "write" /\ FD!Buffered(g)
              => g.buffer.val = g.disk[FD!Current(g).drive][FD!Current(g).track]
         /\ g.op = "rw" /\ FD!Current(g).cmd # "write" => g = h
<1>1. FD!Typed(h) /\ FD!OpFits(h, 0) /\ FD!BufferFits(h) /\ FD!MotorFits(h, 0)
  BY DEF FD!Fits
<1>2. CASE h.op = "rw" /\ FD!Current(h).cmd = "write"
  <2>1. /\ h.queue # <<>> /\ FD!Current(h).track \in FloppyTrack /\ h.dor = FD!Current(h).drive
        /\ FD!Buffered(h) => h.buffer.val = FD!Id1(h)
    BY <1>1, <1>2 DEF FD!OpFits, FD!Chosen, FD!Turns, FD!Going
  <2>2. FD!Current(h).drive \in FloppyDrive /\ FD!Id1(h) \in FD!Value
    BY <1>1, <2>1, FirstRequest DEF FD!Value
  <2>3. PICK d \in FloppyDrive, t \in FloppyTrack, v \in FD!Value :
          d = FD!Current(h).drive /\ t = FD!Current(h).track /\ v = FD!Id1(h)
    BY <2>1, <2>2
  <2>4. PICK dk : dk = [h.disk EXCEPT ![d][t] = v]
    OBVIOUS
  <2>5. h.disk \in [FloppyDrive -> [FloppyTrack -> FD!Value]]
    BY <1>1 DEF FD!Typed, FD!Disks
  <2>6. /\ dk \in FD!Disks /\ dk[d][t] = v
        /\ \A a \in FloppyDrive, b \in FloppyTrack : a # d \/ b # t => dk[a][b] = h.disk[a][b]
    <3>1. dk = [h.disk EXCEPT ![d] = [h.disk[d] EXCEPT ![t] = v]]
      BY <2>4
    <3>2. [h.disk[d] EXCEPT ![t] = v] \in [FloppyTrack -> FD!Value]
      BY <2>3, <2>5
    <3>3. dk \in FD!Disks
      BY <2>5, <3>1, <3>2 DEF FD!Disks
    <3>4. dk[d] = [h.disk[d] EXCEPT ![t] = v]
      BY <2>5, <3>1
    <3>5. dk[d][t] = v
      BY <2>5, <3>4
    <3>6. ASSUME NEW a \in FloppyDrive, NEW b \in FloppyTrack, a # d \/ b # t
          PROVE dk[a][b] = h.disk[a][b]
      <4>1. CASE a = d
        BY <2>5, <3>4, <3>6, <4>1
      <4>2. CASE a # d
        <5>1. dk[a] = h.disk[a]
          BY <2>5, <3>1, <4>2
        <5>2. QED  BY <5>1
      <4>3. QED  BY <4>1, <4>2
    <3>7. QED  BY <3>3, <3>5, <3>6
  <2>7. g = [h EXCEPT !.disk = dk]
    BY <1>2, <2>1, <2>3, <2>4 DEF FD!Done
  <2>8. FD!Typed(g)
    BY <1>1, <2>6, <2>7 DEF FD!Typed
  <2>9. /\ g.op = h.op /\ g.timer = h.timer /\ g.queue = h.queue /\ g.motor = h.motor /\ g.mon = h.mon
        /\ g.on = h.on /\ g.wrong = h.wrong /\ g.buffer = h.buffer /\ g.disk = dk
        /\ g.unsure = h.unsure /\ g.pc = h.pc /\ g.moff = h.moff /\ g.do_floppy = h.do_floppy
        /\ g.current_drive = h.current_drive /\ g.selected = h.selected /\ g.dor = h.dor
    BY <1>1, <2>7 DEF FD!Typed
  <2>10. FD!Current(g) = FD!Current(h) /\ FD!Id1(g) = FD!Id1(h) /\ (FD!Buffered(g) <=> FD!Buffered(h))
    BY <2>9 DEF FD!Current, FD!Id1, FD!Buffered
  <2>11. FD!BufferFits(g)
    <3>1. SUFFICES ASSUME h.buffer # FD!None
                   PROVE  \/ h.buffer.val = dk[h.buffer.drive][h.buffer.track]
                          \/ <<h.buffer.drive, h.buffer.track>> \in h.unsure
                          \/ FD!UnderWay(g, h.buffer.drive, h.buffer.track)
      BY <2>9 DEF FD!BufferFits
    <3>2. CASE h.buffer.drive = d /\ h.buffer.track = t
      BY <1>2, <2>1, <2>3, <2>9, <2>10, <3>2 DEF FD!UnderWay
    <3>3. CASE h.buffer.drive # d \/ h.buffer.track # t
      <4>1. dk[h.buffer.drive][h.buffer.track] = h.disk[h.buffer.drive][h.buffer.track]
        <5>1. h.buffer.drive \in FloppyDrive /\ h.buffer.track \in FloppyTrack
          BY <1>1, <3>1 DEF FD!Typed, FD!Buffers
        <5>2. QED  BY <2>6, <3>3, <5>1
      <4>2. FD!UnderWay(h, h.buffer.drive, h.buffer.track)
              => FD!UnderWay(g, h.buffer.drive, h.buffer.track)
        BY <2>9, <2>10 DEF FD!UnderWay
      <4>3. QED  BY <1>1, <3>1, <4>1, <4>2 DEF FD!BufferFits
    <3>4. QED  BY <3>2, <3>3
  <2>12. FD!MotorFits(g, 0) /\ SameFirst(h, g)
    BY <1>1, <2>9 DEF FD!MotorFits, SameFirst, FD!Id1
  <2>13. FD!Fits(g, 0)
    BY <2>8, <2>9, <2>11, <2>12, FitsKept
  <2>14. QED  BY <1>2, <2>1, <2>3, <2>6, <2>9, <2>10, <2>13
<1>3. CASE h.op \in {"seek", "recal"}
  <2>1. PICK z : z = IF h.op = "seek" THEN FD!Current(h).track ELSE 0
    OBVIOUS
  <2>2. z \in Int
    <3>1. h.op = "seek" => h.queue # <<>>
      BY <1>1 DEF FD!OpFits, FD!Chosen, FD!Turns, FD!Going
    <3>2. h.op = "seek" => FD!Current(h).track \in Int
      BY <1>1, <3>1, FirstRequest
    <3>3. QED  BY <2>1, <3>2
  <2>3. PICK heads : heads = [h.head EXCEPT ![h.dor] = z]
    OBVIOUS
  <2>4. heads \in [FloppyDrive -> Int]
    BY <1>1, <2>2, <2>3 DEF FD!Typed
  <2>5. g = [h EXCEPT !.head = heads]
    BY <1>1, <1>3, <2>1, <2>3 DEF FD!Done
  <2>6. FD!Typed(g)
    BY <1>1, <2>4, <2>5 DEF FD!Typed
  <2>7. /\ g.op = h.op /\ g.timer = h.timer /\ g.queue = h.queue /\ g.motor = h.motor /\ g.mon = h.mon
        /\ g.on = h.on /\ g.wrong = h.wrong /\ g.buffer = h.buffer /\ g.disk = h.disk
        /\ g.unsure = h.unsure /\ g.pc = h.pc /\ g.moff = h.moff /\ g.do_floppy = h.do_floppy
        /\ g.current_drive = h.current_drive /\ g.selected = h.selected /\ g.dor = h.dor
    BY <1>1, <2>5 DEF FD!Typed
  <2>8. FD!BufferFits(g) /\ FD!MotorFits(g, 0) /\ SameFirst(h, g)
    BY <1>1, <2>7 DEF FD!BufferFits, FD!MotorFits, SameFirst, FD!UnderWay, FD!Current, FD!Id1
  <2>9. FD!Fits(g, 0)
    BY <2>6, <2>7, <2>8, FitsKept
  <2>10. QED  BY <1>3, <2>7, <2>9
<1>4. CASE ~(h.op = "rw" /\ FD!Current(h).cmd = "write") /\ h.op \notin {"seek", "recal"}
  <2>1. g = h
    BY <1>4 DEF FD!Done
  <2>2. QED  BY <1>4, <2>1
<1>5. QED  BY <1>2, <1>3, <1>4

(* An error of the controller, and the flags it leaves. *)
LEMMA FaultyFits ==
  ASSUME NEW h, FD!Fits(h, 0), NEW r \in BOOLEAN, NEW c \in BOOLEAN, NEW f \in Nat,
         NEW g, g = [h EXCEPT !.reset = r, !.recal = c, !.faults = f]
  PROVE  FD!Fits(g, 0) /\ g.op = h.op
<1>1. FD!Typed(h) /\ FD!BufferFits(h) /\ FD!MotorFits(h, 0)
  BY DEF FD!Fits
<1>2. FD!Typed(g)
  BY <1>1 DEF FD!Typed
<1>3. /\ g.op = h.op /\ g.timer = h.timer /\ g.queue = h.queue /\ g.motor = h.motor /\ g.mon = h.mon
      /\ g.on = h.on /\ g.wrong = h.wrong /\ g.buffer = h.buffer /\ g.disk = h.disk
      /\ g.unsure = h.unsure /\ g.pc = h.pc /\ g.moff = h.moff /\ g.do_floppy = h.do_floppy
      /\ g.current_drive = h.current_drive /\ g.selected = h.selected /\ g.dor = h.dor
  BY <1>1 DEF FD!Typed
<1>4. FD!BufferFits(g) /\ FD!MotorFits(g, 0) /\ SameFirst(h, g)
  BY <1>1, <1>3 DEF FD!BufferFits, FD!MotorFits, SameFirst, FD!UnderWay, FD!Current, FD!Id1
<1>5. QED  BY <1>2, <1>3, <1>4, FitsKept

(* The actions. *)
LEMMA FloppyRequestStep == ASSUME FD!IInv, FD!Request_ PROVE FD!IInv'
<1>1. fd.op = "none" /\ fd.timer.fn = "none"
  BY DEF FD!IInv, FD!Fits, FD!OpFits, FD!TimerFits, FD!Request_
<1>2. Rested(fd, 0)
  BY <1>1 DEF FD!IInv, FD!Fits, Rested, FloppyBase
<1>3. FD!Fits(fd', 0)
  BY <1>2, DoFdRequestFits DEF FD!Request_
<1>4. QED  BY <1>3 DEF FD!IInv, FD!Fits, FD!Typed, FD!BufferFits, FD!MotorFits, FD!TimerFits, FD!OpFits

LEMMA FloppyInterruptStep == ASSUME FD!IInv, FD!Interrupt PROVE FD!IInv'
<1>1. FD!Fits(fd, 0) /\ fd.op # "none" /\ fd.pc = "idle"
  BY DEF FD!IInv, FD!Interrupt, FD!Idle
<1>2. FD!Typed(fd) /\ FD!OpFits(fd, 0)
  BY <1>1 DEF FD!Fits
<1>3. PICK lost, dma, dn : /\ lost = (fd.op = "rw" /\ ~FD!Found(fd)) /\ dn = FD!Done(fd)
                           /\ dma = IF fd.op = "rw" THEN fd.disk[fd.dor][FD!Current(fd).track] ELSE 0
  OBVIOUS
<1>4. \/ fd' \in FD!Handled(fd, TRUE, 0)
      \/ fd' \in FD!Handled(dn, FALSE, dma)
      \/ \E silent \in BOOLEAN : fd' \in FD!Handled([FD!Faulty(fd) EXCEPT !.reset = @ \/ silent], TRUE, 0)
  BY <1>3 DEF FD!Interrupt
<1>5. CASE fd' \in FD!Handled(fd, TRUE, 0)
  BY <1>1, <1>5, FloppyHandledFits DEF FD!IInv
<1>6. CASE fd' \in FD!Handled(dn, FALSE, dma)
  <2>1. /\ FD!Fits(dn, 0) /\ dn.pc = fd.pc /\ dn.op = fd.op /\ dn.queue = fd.queue
        /\ dn.op = "rw" /\ FD!Current(dn).cmd = "write" /\ FD!Buffered(dn)
             => dn.buffer.val = dn.disk[FD!Current(dn).drive][FD!Current(dn).track]
        /\ dn.op = "rw" /\ FD!Current(dn).cmd # "write" => dn = fd
    BY <1>1, <1>3, DoneFits
  <2>2. fd.op = "rw" => fd.dor = FD!Current(fd).drive
    BY <1>2 DEF FD!OpFits, FD!Chosen, FD!Turns, FD!Going
  <2>3. dn.op = "rw" /\ FD!Current(dn).cmd # "write"
          => dma = dn.disk[FD!Current(dn).drive][FD!Current(dn).track]
    BY <1>3, <2>1, <2>2
  <2>4. FD!Fits(fd', 0)
    BY <1>1, <1>6, <2>1, <2>3, FloppyHandledFits
  <2>5. QED  BY <2>4 DEF FD!IInv
<1>7. CASE \E silent \in BOOLEAN : fd' \in FD!Handled([FD!Faulty(fd) EXCEPT !.reset = @ \/ silent], TRUE, 0)
  <2>8. PICK silent \in BOOLEAN : fd' \in FD!Handled([FD!Faulty(fd) EXCEPT !.reset = @ \/ silent], TRUE, 0)
    BY <1>7
  <2>1. PICK g : g = [FD!Faulty(fd) EXCEPT !.reset = @ \/ silent]
    OBVIOUS
  <2>2. fd.reset \in BOOLEAN /\ fd.recal \in BOOLEAN /\ fd.faults \in Nat
    BY <1>2 DEF FD!Typed
  <2>3. PICK r \in BOOLEAN, c \in BOOLEAN, f \in Nat : r = (fd.reset \/ silent) /\ c = fd.recal /\ f = fd.faults + 1
    <3>1. (fd.reset \/ silent) \in BOOLEAN
      OBVIOUS
    <3>2. fd.faults + 1 \in Nat
      BY <2>2
    <3>3. QED  BY <2>2, <3>1, <3>2
  <2>4. g = [fd EXCEPT !.reset = r, !.recal = c, !.faults = f]
    BY <1>2, <2>1, <2>3 DEF FD!Faulty, FD!Typed
  <2>5. FD!Fits(g, 0) /\ g.op # "none" /\ g.pc = "idle"
    BY <1>1, <1>2, <2>4, FaultyFits DEF FD!Typed
  <2>6. FD!Fits(fd', 0)
    BY <2>1, <2>5, <2>8, FloppyHandledFits
  <2>7. QED  BY <2>6 DEF FD!IInv
<1>8. QED  BY <1>4, <1>5, <1>6, <1>7

LEMMA UnexpectedStep == ASSUME FD!IInv, FD!Unexpected PROVE FD!IInv'
<1>1. FD!Fits(fd, 0) /\ FD!Typed(fd)
  BY DEF FD!IInv, FD!Fits
<1>2. PICK bad \in BOOLEAN : fd' = [FD!Faulty(fd) EXCEPT !.reset = @ \/ bad, !.recal = @ \/ ~bad]
  BY DEF FD!Unexpected
<1>3. fd.reset \in BOOLEAN /\ fd.recal \in BOOLEAN /\ fd.faults \in Nat
  BY <1>1 DEF FD!Typed
<1>4. PICK r \in BOOLEAN, c \in BOOLEAN, f \in Nat :
        r = (fd.reset \/ bad) /\ c = (fd.recal \/ ~bad) /\ f = fd.faults + 1
  <2>1. (fd.reset \/ bad) \in BOOLEAN /\ (fd.recal \/ ~bad) \in BOOLEAN
    OBVIOUS
  <2>2. fd.faults + 1 \in Nat
    BY <1>3
  <2>3. QED  BY <2>1, <2>2
<1>5. fd' = [fd EXCEPT !.reset = r, !.recal = c, !.faults = f]
  BY <1>1, <1>2, <1>4 DEF FD!Faulty, FD!Typed
<1>6. FD!Fits(fd', 0)
  BY <1>1, <1>5, FaultyFits
<1>7. QED  BY <1>6 DEF FD!IInv

(* The clock: the motors have turned a tick longer ... *)
LEMMA TickedFits ==
  ASSUME NEW h, FD!Typed(h), FD!MotorFits(h, 0), NEW g, g = FD!Ticked(h)
  PROVE  /\ FD!Typed(g) /\ FD!MotorFits(g, 1)
         /\ \A d \in h.motor : g.on[d] >= SPIN \/ g.on[d] = h.on[d] + 1
         /\ \A d \in h.motor : g.on[d] >= h.on[d]
         /\ g.op = h.op /\ g.timer = h.timer /\ g.queue = h.queue /\ g.motor = h.motor /\ g.mon = h.mon
         /\ g.wrong = h.wrong /\ g.buffer = h.buffer /\ g.disk = h.disk /\ g.unsure = h.unsure
         /\ g.pc = h.pc /\ g.moff = h.moff /\ g.do_floppy = h.do_floppy
         /\ g.current_drive = h.current_drive /\ g.selected = h.selected /\ g.dor = h.dor
<1>1. PICK on :
        on = [d \in FloppyDrive |-> IF d \in h.motor /\ h.on[d] < SPIN THEN h.on[d] + 1 ELSE h.on[d]]
  OBVIOUS
<1>2. h.on \in [FloppyDrive -> Nat] /\ h.mon \in [FloppyDrive -> 0..SPIN]
      /\ h.motor \in SUBSET FloppyDrive
  BY DEF FD!Typed
<1>3. g = [h EXCEPT !.on = on]
  BY <1>1 DEF FD!Ticked, FD!Typed
<1>4. on \in [FloppyDrive -> Nat]
  BY <1>1, <1>2
<1>5. FD!Typed(g)
  BY <1>3, <1>4 DEF FD!Typed
<1>6. /\ g.op = h.op /\ g.timer = h.timer /\ g.queue = h.queue /\ g.motor = h.motor /\ g.mon = h.mon
      /\ g.wrong = h.wrong /\ g.buffer = h.buffer /\ g.disk = h.disk /\ g.unsure = h.unsure
      /\ g.pc = h.pc /\ g.moff = h.moff /\ g.do_floppy = h.do_floppy
      /\ g.current_drive = h.current_drive /\ g.selected = h.selected /\ g.dor = h.dor
      /\ g.on = on
  BY <1>3 DEF FD!Typed
<1>7. \A d \in h.motor : (on[d] >= SPIN \/ on[d] = h.on[d] + 1) /\ on[d] >= h.on[d]
  BY <1>1, <1>2, FloppyConstants
<1>8. FD!MotorFits(g, 1)
  <2>1. SUFFICES ASSUME NEW d \in h.motor
                 PROVE  IF h.mon[d] = 0 THEN on[d] >= SPIN ELSE on[d] + h.mon[d] >= SPIN + 1
    BY <1>6 DEF FD!MotorFits
  <2>2. on[d] \in Nat /\ h.on[d] \in Nat /\ h.mon[d] \in Nat /\ SPIN \in Nat
    BY <1>2, <1>4, FloppyConstants
  <2>3. IF h.mon[d] = 0 THEN h.on[d] >= SPIN ELSE h.on[d] + h.mon[d] >= SPIN + 0
    BY DEF FD!MotorFits
  <2>4. (on[d] >= SPIN \/ on[d] = h.on[d] + 1) /\ on[d] >= h.on[d]
    BY <1>7
  <2>5. QED  BY <2>2, <2>3, <2>4
<1>9. QED  BY <1>5, <1>6, <1>7, <1>8

(* ... and a motor stops that has not been used for as long, but not the one in use. *)
LEMMA FloppyTimerFits ==
  ASSUME NEW h, FD!Fits(h, 1), NEW g, g = FD!DoFloppyTimer(h)
  PROVE  FD!Fits(g, 0)
<1>1. FD!Typed(h) /\ FD!BufferFits(h) /\ FD!MotorFits(h, 1) /\ FD!TimerFits(h, 1)
      /\ FD!OpFits(h, 1) /\ h.wrong = {}
  BY DEF FD!Fits
<1>2. PICK stops, runs, up, c :
        /\ stops = {d \in h.motor : h.mon[d] = 0 /\ h.moff[d] = 0}
        /\ runs = {d \in h.motor : h.mon[d] = 0 /\ h.moff[d] \in 1..OFF}
        /\ up = {d \in h.motor : h.mon[d] = 1}
        /\ c = IF h.chg.pc = "spin" /\ h.chg.nr \in up THEN "on" ELSE h.chg.pc
  OBVIOUS
<1>3. PICK motor, mon, moff, chg :
        /\ motor = h.motor \ stops
        /\ mon = [d \in FloppyDrive |->
                    IF d \in h.motor /\ h.mon[d] > 0 THEN h.mon[d] - 1 ELSE h.mon[d]]
        /\ moff = [d \in FloppyDrive |-> IF d \in runs THEN h.moff[d] - 1 ELSE h.moff[d]]
        /\ chg = [h.chg EXCEPT !.pc = c]
  OBVIOUS
<1>4. /\ h.on \in [FloppyDrive -> Nat] /\ h.mon \in [FloppyDrive -> 0..SPIN]
      /\ h.motor \in SUBSET FloppyDrive
      /\ h.moff \in [FloppyDrive -> Nat] /\ h.chg \in FD!ChangeStates
  BY <1>1 DEF FD!Typed
<1>5. g = [h EXCEPT !.motor = motor, !.mon = mon, !.moff = moff, !.chg = chg]
  BY <1>1, <1>2, <1>3 DEF FD!DoFloppyTimer, FD!Typed
<1>6. motor \in SUBSET FloppyDrive /\ mon \in [FloppyDrive -> 0..SPIN] /\ moff \in [FloppyDrive -> Nat]
  <2>1. \A d \in runs : h.moff[d] \in Nat /\ h.moff[d] >= 1
    BY <1>2, <1>4, FloppyConstants
  <2>2. moff \in [FloppyDrive -> Nat]
    BY <1>3, <1>4, <2>1
  <2>3. mon \in [FloppyDrive -> 0..SPIN]
    BY <1>3, <1>4, FloppyConstants
  <2>4. QED  BY <1>3, <1>4, <2>2, <2>3
<1>7. chg \in FD!ChangeStates
  BY <1>2, <1>3, <1>4 DEF FD!ChangeStates
<1>8. FD!Typed(g)
  <2>1. PICK x : x = [h EXCEPT !.motor = motor, !.mon = mon]
    OBVIOUS
  <2>2. FD!Typed(x)
    BY <1>1, <1>6, <2>1 DEF FD!Typed
  <2>3. g = [x EXCEPT !.moff = moff, !.chg = chg]
    BY <1>1, <1>5, <2>1 DEF FD!Typed
  <2>4. QED  BY <1>6, <1>7, <2>2, <2>3 DEF FD!Typed
<1>9. /\ g.op = h.op /\ g.timer = h.timer /\ g.queue = h.queue /\ g.motor = motor /\ g.mon = mon
      /\ g.wrong = h.wrong /\ g.buffer = h.buffer /\ g.disk = h.disk /\ g.unsure = h.unsure
      /\ g.pc = h.pc /\ g.moff = moff /\ g.do_floppy = h.do_floppy /\ g.on = h.on
      /\ g.current_drive = h.current_drive /\ g.selected = h.selected /\ g.dor = h.dor
  BY <1>1, <1>5 DEF FD!Typed
<1>10. FD!BufferFits(g)
  BY <1>1, <1>9 DEF FD!BufferFits, FD!UnderWay, FD!Current, FD!Id1
<1>11. FD!MotorFits(g, 0)
  <2>1. SUFFICES ASSUME NEW d \in motor
                 PROVE  IF mon[d] = 0 THEN h.on[d] >= SPIN ELSE h.on[d] + mon[d] >= SPIN + 0
    BY <1>9 DEF FD!MotorFits
  <2>2. d \in h.motor /\ d \in FloppyDrive
    BY <1>3, <1>4
  <2>3. h.on[d] \in Nat /\ h.mon[d] \in Nat /\ SPIN \in Nat
    BY <1>4, <2>2, FloppyConstants
  <2>4. mon[d] = IF h.mon[d] > 0 THEN h.mon[d] - 1 ELSE h.mon[d]
    BY <1>3, <2>2
  <2>5. IF h.mon[d] = 0 THEN h.on[d] >= SPIN ELSE h.on[d] + h.mon[d] >= SPIN + 1
    BY <1>1, <2>2 DEF FD!MotorFits
  <2>6. QED  BY <2>3, <2>4, <2>5
<1>12. \A d \in FloppyDrive : h.moff[d] \in Nat /\ moff[d] \in Nat /\ moff[d] >= h.moff[d] - 1
  <2>1. SUFFICES ASSUME NEW d \in FloppyDrive
        PROVE h.moff[d] \in Nat /\ moff[d] \in Nat /\ moff[d] >= h.moff[d] - 1
    OBVIOUS
  <2>2. h.moff[d] \in Nat /\ moff[d] \in Nat
    BY <1>4, <1>6
  <2>3. moff[d] = h.moff[d] - 1 \/ moff[d] = h.moff[d]
    BY <1>3
  <2>4. QED  BY <2>2, <2>3
<1>13. ASSUME FD!Going(h), NEW k \in Nat, FD!StaysOn(h, k + 1) PROVE FD!Going(g) /\ FD!StaysOn(g, k + 0)
  <2>1. h.queue # <<>> /\ h.current_drive = FD!Current(h).drive
    BY <1>13 DEF FD!Going
  <2>2. h.current_drive \in FloppyDrive
    BY <1>1, <2>1, FirstRequest
  <2>3. PICK d \in FloppyDrive : d = h.current_drive
    BY <2>2
  <2>4. h.moff[d] >= k + 1
    BY <1>13, <2>3 DEF FD!StaysOn
  <2>5. h.moff[d] \in Nat /\ moff[d] \in Nat /\ moff[d] >= h.moff[d] - 1
    BY <1>12
  <2>6. moff[d] >= k + 0 /\ h.moff[d] # 0
    BY <2>4, <2>5
  <2>7. FD!StaysOn(g, k + 0)
    BY <1>9, <2>3, <2>6 DEF FD!StaysOn
  <2>8. g.current_drive \in g.motor
    BY <1>2, <1>3, <1>9, <1>13, <2>3, <2>6 DEF FD!Going
  <2>9. FD!Going(g)
    BY <1>9, <1>13, <2>8 DEF FD!Going, FD!Buffered, FD!Current, FD!Id1
  <2>10. QED  BY <2>7, <2>9
<1>14. ASSUME FD!Chosen(h), NEW k \in Nat, FD!StaysOn(h, k + 1)
      PROVE FD!Chosen(g) /\ FD!StaysOn(g, k + 0)
  <2>1. FD!Going(g) /\ FD!StaysOn(g, k + 0)
    BY <1>13, <1>14 DEF FD!Chosen, FD!Turns
  <2>2. QED  BY <1>9, <1>14, <2>1 DEF FD!Chosen, FD!Turns
<1>15. h.timer.fn # "none" => h.timer.left \in Nat
  BY <1>1 DEF FD!Typed, FD!TimerStates, FD!NoTimer
<1>16. FD!TimerFits(g, 0)
  <2>1. g.timer.fn # "none" => g.pc = "idle" /\ g.op = "none" /\ g.timer.left >= 1
    BY <1>1, <1>9 DEF FD!TimerFits
  <2>2. ASSUME g.timer.fn = "transfer"
        PROVE  FD!Chosen(g) /\ g.timer.left <= SELECT /\ FD!StaysOn(g, g.timer.left + 0)
    BY <1>1, <1>9, <1>14, <1>15, <2>2 DEF FD!TimerFits
  <2>3. ASSUME g.timer.fn = "floppy_on_interrupt"
        PROVE  /\ FD!Going(g) /\ g.timer.left <= SPIN /\ g.on[g.current_drive] + g.timer.left >= SPIN
               /\ FD!StaysOn(g, g.timer.left + SELECT + 0)
    <3>1. PICK k \in Nat : k = h.timer.left + SELECT
      BY <1>9, <1>15, <2>3, FloppyConstants
    <3>2. /\ FD!Going(h) /\ h.timer.left <= SPIN /\ h.on[h.current_drive] + h.timer.left >= SPIN
          /\ FD!StaysOn(h, k + 1)
      BY <1>1, <1>9, <2>3, <3>1 DEF FD!TimerFits
    <3>3. FD!Going(g) /\ FD!StaysOn(g, k + 0)
      BY <1>13, <3>2
    <3>4. QED  BY <1>9, <3>1, <3>2, <3>3
  <2>4. QED  BY <2>1, <2>2, <2>3 DEF FD!TimerFits
<1>17. FD!OpFits(g, 0)
  <2>1. ASSUME g.op \in {"rw", "seek"} PROVE FD!Chosen(g) /\ FD!StaysOn(g, 0)
    <3>1. PICK k \in Nat : k = 0
      OBVIOUS
    <3>2. FD!Chosen(h) /\ FD!StaysOn(h, k + 1)
      BY <1>1, <1>9, <2>1, <3>1 DEF FD!OpFits
    <3>3. FD!Chosen(g) /\ FD!StaysOn(g, k + 0)
      BY <1>14, <3>2
    <3>4. QED  BY <3>1, <3>3
  <2>2. QED  BY <1>1, <1>9, <2>1 DEF FD!OpFits
<1>18. QED  BY <1>1, <1>8, <1>9, <1>10, <1>11, <1>16, <1>17 DEF FD!Fits

(* do_timer: the timer of add_timer, then the motors. *)
LEMMA FloppyTickStep == ASSUME FD!IInv, FD!Tick PROVE FD!IInv'
<1>1. FD!Typed(fd) /\ FD!BufferFits(fd) /\ FD!MotorFits(fd, 0) /\ FD!TimerFits(fd, 0) /\ fd.wrong = {}
  BY DEF FD!IInv, FD!Fits
<1>2. fd.pc = "idle" /\ fd.op = "none"
  BY DEF FD!Tick, FD!Idle
<1>3. PICK h : h = FD!Ticked(fd)
  OBVIOUS
<1>4. /\ FD!Typed(h) /\ FD!MotorFits(h, 1)
      /\ \A d \in fd.motor : h.on[d] >= SPIN \/ h.on[d] = fd.on[d] + 1
      /\ \A d \in fd.motor : h.on[d] >= fd.on[d]
      /\ h.op = fd.op /\ h.timer = fd.timer /\ h.queue = fd.queue /\ h.motor = fd.motor
      /\ h.mon = fd.mon
      /\ h.wrong = fd.wrong /\ h.buffer = fd.buffer /\ h.disk = fd.disk /\ h.unsure = fd.unsure
      /\ h.pc = fd.pc /\ h.moff = fd.moff /\ h.do_floppy = fd.do_floppy
      /\ h.current_drive = fd.current_drive /\ h.selected = fd.selected /\ h.dor = fd.dor
  BY <1>1, <1>3, TickedFits
<1>5. PICK n, l, m : /\ n = [h EXCEPT !.timer = FD!NoTimer]
                     /\ l = [h.timer EXCEPT !.left = IF h.timer.left > 0 THEN h.timer.left - 1 ELSE 0]
                     /\ m = [h EXCEPT !.timer = l]
  OBVIOUS
<1>6. PICK o : /\ fd' = FD!DoFloppyTimer(o)
               /\ \/ h.timer.left = 1 /\ o \in FD!Timed(n, h.timer.fn)
                  \/ h.timer.left # 1 /\ o = m
  BY <1>3, <1>4, <1>5 DEF FD!Tick, FD!Typed
<1>7. h.timer \in FD!TimerStates
  BY <1>4 DEF FD!Typed
<1>8. FD!BufferFits(h)
  BY <1>1, <1>4 DEF FD!BufferFits, FD!UnderWay, FD!Current, FD!Id1
<1>9. FD!Going(fd) => FD!Going(h) /\ h.current_drive \in fd.motor /\ h.current_drive \in FloppyDrive
  BY <1>1, <1>4, FirstRequest DEF FD!Going, FD!Buffered, FD!Current, FD!Id1
<1>10. ASSUME FD!Going(fd)
       PROVE  /\ h.on[h.current_drive] \in Nat /\ fd.on[h.current_drive] \in Nat
              /\ h.on[h.current_drive] >= SPIN \/ h.on[h.current_drive] = fd.on[h.current_drive] + 1
              /\ h.on[h.current_drive] >= fd.on[h.current_drive]
  BY <1>1, <1>4, <1>9, <1>10 DEF FD!Typed
<1>11. FD!Chosen(fd) => FD!Chosen(h)
  <2>1. SUFFICES ASSUME FD!Chosen(fd) PROVE FD!Chosen(h)
    OBVIOUS
  <2>2. FD!Going(fd) /\ fd.on[fd.current_drive] >= SPIN
    BY <2>1 DEF FD!Chosen, FD!Turns
  <2>3. h.on[h.current_drive] >= SPIN
    BY <1>4, <1>10, <2>2, FloppyConstants
  <2>4. QED  BY <1>4, <1>9, <2>1, <2>2, <2>3 DEF FD!Chosen, FD!Turns
<1>12. CASE h.timer.left = 1 /\ o \in FD!Timed(n, h.timer.fn)
  <2>1. h.timer.fn \in {"transfer", "floppy_on_interrupt"} /\ 1 \in Nat
    BY <1>7, <1>12 DEF FD!TimerStates, FD!NoTimer
  <2>2. FD!NoTimer \in FD!TimerStates /\ FD!NoTimer.fn = "none"
    BY DEF FD!TimerStates, FD!NoTimer
  <2>3. FD!Typed(n)
    BY <1>4, <1>5, <2>2 DEF FD!Typed
  <2>4. /\ n.op = h.op /\ n.timer = FD!NoTimer /\ n.queue = h.queue /\ n.motor = h.motor
        /\ n.mon = h.mon
        /\ n.on = h.on /\ n.wrong = h.wrong /\ n.buffer = h.buffer /\ n.disk = h.disk
        /\ n.unsure = h.unsure /\ n.pc = h.pc /\ n.moff = h.moff
        /\ n.current_drive = h.current_drive /\ n.selected = h.selected /\ n.dor = h.dor
    BY <1>4, <1>5 DEF FD!Typed
  <2>5. SameBase(h, n) /\ SameWork(h, n)
    BY <2>4 DEF SameBase, SameWork, SameFirst, SameMotors, FD!Id1
  <2>6. FloppyBase(h, 1)
    BY <1>1, <1>4, <1>8 DEF FloppyBase
  <2>7. Rested(n, 1) /\ n.pc = "idle"
    BY <1>2, <1>4, <2>2, <2>3, <2>4, <2>5, <2>6, BaseKept DEF Rested
  <2>8. ASSUME h.timer.fn = "transfer" PROVE FD!Fits(o, 1)
    <3>1. FD!Chosen(fd) /\ FD!StaysOn(fd, 1 + 0)
      BY <1>1, <1>4, <1>12, <2>8 DEF FD!TimerFits
    <3>2. FD!Chosen(h) /\ FD!StaysOn(h, 1)
      BY <1>4, <1>11, <3>1 DEF FD!StaysOn
    <3>3. FD!Chosen(n) /\ FD!StaysOn(n, 1)
      BY <2>4, <2>5, <3>2, ChosenKept
    <3>4. o \in FD!Transfer(n)
      BY <1>12, <2>8 DEF FD!Timed
    <3>5. QED  BY <2>7, <3>3, <3>4, TransferFits
  <2>9. ASSUME h.timer.fn = "floppy_on_interrupt" PROVE FD!Fits(o, 1)
    <3>1. FD!Going(fd) /\ fd.on[fd.current_drive] + 1 >= SPIN /\ FD!StaysOn(fd, 1 + SELECT + 0)
      BY <1>1, <1>4, <1>12, <2>9 DEF FD!TimerFits
    <3>2. h.on[h.current_drive] >= SPIN
      BY <1>4, <1>10, <3>1, FloppyConstants
    <3>3. FD!Turns(h)
      BY <1>9, <3>1, <3>2 DEF FD!Turns
    <3>4. FD!Turns(n)
      BY <2>4, <2>5, <3>3, GoingKept DEF FD!Turns
    <3>5. FD!StaysOn(n, SELECT + 1)
      BY <1>4, <2>4, <3>1, FloppyConstants DEF FD!StaysOn
    <3>6. o \in FD!FloppyOnInterrupt(n)
      BY <1>12, <2>9 DEF FD!Timed
    <3>7. QED  BY <2>1, <2>7, <3>4, <3>5, <3>6, FloppyOnFits
  <2>10. FD!Fits(o, 1)
    BY <2>1, <2>8, <2>9
  <2>11. FD!Fits(fd', 0)
    BY <1>6, <2>10, FloppyTimerFits
  <2>12. QED  BY <2>11 DEF FD!IInv
<1>13. CASE h.timer.left # 1 /\ o = m
  <2>1. /\ l \in FD!TimerStates /\ l.fn = h.timer.fn
        /\ l.fn # "none" => /\ h.timer.left \in Nat
                            /\ h.timer.left >= 1 => l.left = h.timer.left - 1 /\ l.left >= 1
    BY <1>5, <1>7, <1>13 DEF FD!TimerStates, FD!NoTimer
  <2>2. FD!Typed(m)
    BY <1>4, <1>5, <2>1 DEF FD!Typed
  <2>3. /\ m.op = h.op /\ m.timer = l /\ m.queue = h.queue /\ m.motor = h.motor /\ m.mon = h.mon
        /\ m.on = h.on /\ m.wrong = h.wrong /\ m.buffer = h.buffer /\ m.disk = h.disk
        /\ m.unsure = h.unsure /\ m.pc = h.pc /\ m.moff = h.moff
        /\ m.current_drive = h.current_drive /\ m.selected = h.selected /\ m.dor = h.dor
    BY <1>4, <1>5 DEF FD!Typed
  <2>4. SameBase(h, m) /\ SameWork(h, m)
    BY <2>3 DEF SameBase, SameWork, SameFirst, SameMotors, FD!Id1
  <2>5. FloppyBase(h, 1)
    BY <1>1, <1>4, <1>8 DEF FloppyBase
  <2>6. FloppyBase(m, 1)
    BY <2>2, <2>4, <2>5, BaseKept
  <2>7. m.timer.fn # "none" => /\ h.timer.left >= 1 /\ h.timer.left \in Nat
                               /\ l.left = h.timer.left - 1 /\ l.left >= 1
    BY <1>1, <1>4, <2>1, <2>3 DEF FD!TimerFits
  <2>8. ASSUME m.timer.fn = "transfer"
        PROVE  FD!Chosen(m) /\ m.timer.left <= SELECT /\ FD!StaysOn(m, m.timer.left + 1)
    <3>1. FD!Chosen(fd) /\ h.timer.left <= SELECT /\ FD!StaysOn(fd, h.timer.left + 0)
      BY <1>1, <1>4, <2>1, <2>3, <2>8 DEF FD!TimerFits
    <3>2. FD!Chosen(h) /\ FD!StaysOn(h, h.timer.left)
      BY <1>4, <1>11, <2>7, <2>8, <3>1 DEF FD!StaysOn
    <3>3. FD!Chosen(m)
      BY <2>3, <2>4, <3>2, ChosenKept
    <3>4. m.timer.left + 1 = h.timer.left /\ m.timer.left <= SELECT
      BY <2>3, <2>7, <2>8, <3>1, FloppyConstants
    <3>5. QED  BY <2>3, <3>2, <3>3, <3>4 DEF FD!StaysOn
  <2>9. ASSUME m.timer.fn = "floppy_on_interrupt"
        PROVE  /\ FD!Going(m) /\ m.timer.left <= SPIN /\ m.on[m.current_drive] + m.timer.left >= SPIN
               /\ FD!StaysOn(m, m.timer.left + SELECT + 1)
    <3>1. /\ FD!Going(fd) /\ h.timer.left <= SPIN /\ fd.on[fd.current_drive] + h.timer.left >= SPIN
          /\ FD!StaysOn(fd, h.timer.left + SELECT + 0)
      BY <1>1, <1>4, <2>1, <2>3, <2>9 DEF FD!TimerFits
    <3>2. FD!Going(m)
      BY <1>9, <2>4, <3>1, GoingKept
    <3>3. m.timer.left <= SPIN /\ m.timer.left + SELECT + 1 = h.timer.left + SELECT + 0
      BY <2>3, <2>7, <2>9, <3>1, FloppyConstants
    <3>4. FD!StaysOn(m, m.timer.left + SELECT + 1)
      BY <1>4, <2>3, <3>1, <3>3 DEF FD!StaysOn
    <3>5. fd.on[h.current_drive] + h.timer.left >= SPIN
      BY <1>4, <3>1
    <3>6. m.on[m.current_drive] + m.timer.left >= SPIN
      BY <1>10, <2>3, <2>7, <2>9, <3>1, <3>5, FloppyConstants
    <3>7. QED  BY <3>2, <3>3, <3>4, <3>6
  <2>10. FD!TimerFits(m, 1)
    BY <1>2, <1>4, <2>3, <2>7, <2>8, <2>9 DEF FD!TimerFits
  <2>11. FD!OpFits(m, 1)
    BY <1>2, <1>4, <2>3 DEF FD!OpFits
  <2>12. FD!Fits(o, 1)
    BY <1>13, <2>6, <2>10, <2>11 DEF FD!Fits, FloppyBase
  <2>13. FD!Fits(fd', 0)
    BY <1>6, <2>12, FloppyTimerFits
  <2>14. QED  BY <2>13 DEF FD!IInv
<1>14. QED  BY <1>6, <1>12, <1>13

(* floppy_change: it may start a motor, and give the motor of the drive in use OFF ticks. *)
LEMMA ChangeStep == ASSUME FD!IInv, FD!Change PROVE FD!IInv'
<1>1. FD!Fits(fd, 0) /\ FD!Typed(fd) /\ FD!BufferFits(fd) /\ FD!MotorFits(fd, 0)
      /\ fd.chg \in FD!ChangeStates
  BY DEF FD!IInv, FD!Fits, FD!Typed
<1>2. fd.chg.pc # "none" => fd.chg.nr \in FloppyDrive
  BY <1>1 DEF FD!ChangeStates
<1>3. PICK nr : nr = fd.chg.nr
  OBVIOUS
<1>4. ASSUME NEW k \in FD!ChangeStates, NEW g, g = [fd EXCEPT !.chg = k] PROVE FD!Fits(g, 0)
  <2>1. FD!Typed(g)
    BY <1>1, <1>4 DEF FD!Typed
  <2>2. /\ g.op = fd.op /\ g.timer = fd.timer /\ g.queue = fd.queue /\ g.motor = fd.motor
        /\ g.mon = fd.mon
        /\ g.on = fd.on /\ g.wrong = fd.wrong /\ g.buffer = fd.buffer /\ g.disk = fd.disk
        /\ g.unsure = fd.unsure /\ g.pc = fd.pc /\ g.moff = fd.moff /\ g.do_floppy = fd.do_floppy
        /\ g.current_drive = fd.current_drive /\ g.selected = fd.selected /\ g.dor = fd.dor
    BY <1>1, <1>4 DEF FD!Typed
  <2>3. FD!BufferFits(g) /\ FD!MotorFits(g, 0) /\ SameFirst(fd, g)
    BY <1>1, <2>2 DEF FD!BufferFits, FD!MotorFits, SameFirst, FD!UnderWay, FD!Current, FD!Id1
  <2>4. QED  BY <1>1, <2>1, <2>2, <2>3, FitsKept
<1>5. ASSUME NEW d \in FloppyDrive, fd' = [fd EXCEPT !.chg = [pc |-> "on", nr |-> d]] PROVE FD!IInv'
  <2>1. PICK k \in FD!ChangeStates : k = [pc |-> "on", nr |-> d]
    BY DEF FD!ChangeStates
  <2>2. FD!Fits(fd', 0)
    BY <1>4, <1>5, <2>1
  <2>3. QED  BY <2>2 DEF FD!IInv
<1>6. ASSUME fd.chg.pc = "on", NEW t, t = FD!TicksToFloppyOn(fd, nr), NEW p \in {"select", "spin"},
             fd' = [t EXCEPT !.chg.pc = p]
      PROVE  FD!IInv'
  <2>1. nr \in FloppyDrive
    BY <1>2, <1>3, <1>6
  <2>2. /\ FD!Typed(t) /\ FD!MotorFits(t, 0) /\ fd.motor \subseteq t.motor /\ nr \in t.motor
        /\ \A d \in fd.motor : t.on[d] = fd.on[d]
        /\ \A d \in FloppyDrive : t.moff[d] = fd.moff[d] \/ t.moff[d] >= OFF + 1
        /\ (fd.selected => t.dor = fd.dor)
        /\ t.op = fd.op /\ t.timer = fd.timer /\ t.queue = fd.queue /\ t.wrong = fd.wrong
        /\ t.buffer = fd.buffer /\ t.disk = fd.disk /\ t.unsure = fd.unsure /\ t.pc = fd.pc
        /\ t.current_drive = fd.current_drive /\ t.selected = fd.selected /\ t.do_floppy = fd.do_floppy
        /\ t.chg = fd.chg
    BY <1>1, <1>6, <2>1, TicksFits
  <2>3. PICK k : k = [fd.chg EXCEPT !.pc = p]
    OBVIOUS
  <2>4. k \in FD!ChangeStates
    BY <1>1, <1>6, <2>3 DEF FD!ChangeStates
  <2>5. PICK g : g = fd'
    OBVIOUS
  <2>6. g = [t EXCEPT !.chg = k]
    BY <1>6, <2>2, <2>3, <2>5 DEF FD!Typed
  <2>7. FD!Typed(g)
    BY <2>2, <2>4, <2>6 DEF FD!Typed
  <2>8. /\ g.op = t.op /\ g.timer = t.timer /\ g.queue = t.queue /\ g.motor = t.motor /\ g.mon = t.mon
        /\ g.on = t.on /\ g.wrong = t.wrong /\ g.buffer = t.buffer /\ g.disk = t.disk
        /\ g.unsure = t.unsure /\ g.pc = t.pc /\ g.moff = t.moff /\ g.do_floppy = t.do_floppy
        /\ g.current_drive = t.current_drive /\ g.selected = t.selected /\ g.dor = t.dor
    BY <2>2, <2>6 DEF FD!Typed
  <2>9. FD!BufferFits(g) /\ FD!MotorFits(g, 0) /\ SameFirst(fd, g)
    BY <1>1, <2>2, <2>8 DEF FD!BufferFits, FD!MotorFits, SameFirst, FD!UnderWay, FD!Current, FD!Id1
  <2>10. \A d \in FloppyDrive : g.moff[d] = fd.moff[d] \/ g.moff[d] >= OFF
    <3>1. SUFFICES ASSUME NEW d \in FloppyDrive PROVE t.moff[d] = fd.moff[d] \/ t.moff[d] >= OFF
      BY <2>8
    <3>2. t.moff[d] \in Nat
      BY <2>2 DEF FD!Typed
    <3>3. QED  BY <2>2, <3>2, FloppyConstants
  <2>11. FD!Fits(g, 0)
    BY <1>1, <2>2, <2>7, <2>8, <2>9, <2>10, FitsKept
  <2>12. QED  BY <2>5, <2>11 DEF FD!IInv
<1>7. ASSUME fd.chg.pc = "select", NEW p \in {"asleep", "on"},
             fd' = [fd EXCEPT !.chg.pc = p] PROVE FD!IInv'
  <2>1. PICK k : k = [fd.chg EXCEPT !.pc = p]
    OBVIOUS
  <2>2. k \in FD!ChangeStates
    BY <1>1, <1>7, <2>1 DEF FD!ChangeStates
  <2>3. fd' = [fd EXCEPT !.chg = k]
    BY <1>7, <2>1
  <2>4. FD!Fits(fd', 0)
    BY <1>4, <2>2, <2>3
  <2>5. QED  BY <2>4 DEF FD!IInv
<1>8. ASSUME fd.chg.pc = "select", NEW b \in {fd.buffer, FD!None},
             fd' = [FD!FloppyOff(fd, nr) EXCEPT !.chg.pc = "done", !.buffer = b]
      PROVE  FD!IInv'
  <2>1. PICK k, m : k = [fd.chg EXCEPT !.pc = "done"] /\ m = [fd.moff EXCEPT ![nr] = OFF]
    OBVIOUS
  <2>2. k \in FD!ChangeStates
    BY <1>1, <1>8, <2>1 DEF FD!ChangeStates
  <2>3. fd.moff \in [FloppyDrive -> Nat] /\ fd.buffer \in FD!Buffers
    BY <1>1 DEF FD!Typed
  <2>4. m \in [FloppyDrive -> Nat] /\ b \in FD!Buffers
    BY <2>1, <2>3, FloppyConstants DEF FD!Buffers
  <2>5. PICK g : g = fd'
    OBVIOUS
  <2>6. g = [fd EXCEPT !.chg = k, !.moff = m, !.buffer = b]
    BY <1>1, <1>8, <2>1, <2>5 DEF FD!FloppyOff, FD!Typed
  <2>7. FD!Typed(g)
    BY <1>1, <2>2, <2>4, <2>6 DEF FD!Typed
  <2>8. /\ g.op = fd.op /\ g.timer = fd.timer /\ g.queue = fd.queue /\ g.motor = fd.motor
        /\ g.mon = fd.mon
        /\ g.on = fd.on /\ g.wrong = fd.wrong /\ g.buffer = b /\ g.disk = fd.disk
        /\ g.unsure = fd.unsure /\ g.pc = fd.pc /\ g.moff = m /\ g.do_floppy = fd.do_floppy
        /\ g.current_drive = fd.current_drive /\ g.selected = fd.selected /\ g.dor = fd.dor
    BY <1>1, <2>6 DEF FD!Typed
  <2>9. FD!BufferFits(g)
    BY <1>1, <1>8, <2>8 DEF FD!BufferFits, FD!UnderWay, FD!Current, FD!Id1
  <2>10. FD!MotorFits(g, 0) /\ SameFirst(fd, g)
    BY <1>1, <2>8 DEF FD!MotorFits, SameFirst, FD!Id1
  <2>11. \A d \in FloppyDrive : g.moff[d] = fd.moff[d] \/ g.moff[d] >= OFF
    BY <2>1, <2>3, <2>8, FloppyConstants
  <2>12. FD!Fits(g, 0)
    BY <1>1, <1>8, <2>7, <2>8, <2>9, <2>10, <2>11, FitsKept
  <2>13. QED  BY <2>5, <2>12 DEF FD!IInv
<1>9. \/ \E d \in FloppyDrive : fd' = [fd EXCEPT !.chg = [pc |-> "on", nr |-> d]]
      \/ /\ fd.chg.pc = "on"
         /\ \E t : \E p \in {"select", "spin"} :
              t = FD!TicksToFloppyOn(fd, nr) /\ fd' = [t EXCEPT !.chg.pc = p]
      \/ fd.chg.pc = "select" /\ \E p \in {"asleep", "on"} : fd' = [fd EXCEPT !.chg.pc = p]
      \/ /\ fd.chg.pc = "select"
         /\ \E b \in {fd.buffer, FD!None} :
              fd' = [FD!FloppyOff(fd, nr) EXCEPT !.chg.pc = "done", !.buffer = b]
  <2>1. CASE fd.chg.pc = "none"
        /\ \E d \in FloppyDrive : fd' = [fd EXCEPT !.chg = [pc |-> "on", nr |-> d]]
    BY <2>1
  <2>2. CASE /\ fd.chg.pc = "on"
             /\ LET t == FD!TicksToFloppyOn(fd, fd.chg.nr)
                IN  fd' = [t EXCEPT !.chg.pc = IF t.mon[fd.chg.nr] = 0 THEN "select" ELSE "spin"]
    <3>1. PICK t : t = FD!TicksToFloppyOn(fd, nr)
      OBVIOUS
    <3>2. PICK p \in {"select", "spin"} : p = IF t.mon[nr] = 0 THEN "select" ELSE "spin"
      OBVIOUS
    <3>3. fd' = [t EXCEPT !.chg.pc = p]
      BY <1>3, <2>2, <3>1, <3>2
    <3>4. QED  BY <2>2, <3>1, <3>3
  <2>3. CASE /\ fd.chg.pc = "select" /\ fd.dor # fd.chg.nr
             /\ fd' = [fd EXCEPT !.chg.pc = IF fd.selected THEN "asleep" ELSE "on"]
    <3>1. PICK p \in {"asleep", "on"} : p = IF fd.selected THEN "asleep" ELSE "on"
      OBVIOUS
    <3>2. fd' = [fd EXCEPT !.chg.pc = p]
      BY <2>3, <3>1
    <3>3. QED  BY <2>3, <3>2
  <2>4. CASE /\ fd.chg.pc = "select" /\ fd.dor = fd.chg.nr
             /\ \E changed \in BOOLEAN :
                  fd' = [FD!FloppyOff(fd, fd.chg.nr) EXCEPT !.chg.pc = "done",
                                                         !.buffer = IF changed THEN FD!None ELSE @]
    <3>1. PICK changed \in BOOLEAN :
            fd' = [FD!FloppyOff(fd, fd.chg.nr) EXCEPT !.chg.pc = "done",
                                                   !.buffer = IF changed THEN FD!None ELSE @]
      BY <2>4
    <3>2. PICK b \in {fd.buffer, FD!None} : b = IF changed THEN FD!None ELSE fd.buffer
      OBVIOUS
    <3>3. fd' = [FD!FloppyOff(fd, nr) EXCEPT !.chg.pc = "done", !.buffer = b]
      BY <1>1, <1>3, <3>1, <3>2 DEF FD!FloppyOff, FD!Typed
    <3>4. QED  BY <2>4, <3>3
  <2>5. QED  BY <2>1, <2>2, <2>3, <2>4 DEF FD!Change
<1>10. QED  BY <1>5, <1>6, <1>7, <1>8, <1>9

(* add_request. *)
LEMMA FloppyAddStep == ASSUME FD!IInv, NEW r \in FD!Id, FD!Add(r) PROVE FD!IInv'
<1>1. FD!Fits(fd, 0) /\ FD!Typed(fd) /\ FD!BufferFits(fd) /\ FD!MotorFits(fd, 0)
      /\ fd.queue \in Seq(FD!Entry)
  BY DEF FD!IInv, FD!Fits, FD!Typed, FD!Queues
<1>2. PICK en, q, p : /\ en = [id |-> r, errors |-> 0] /\ q = Append(fd.queue, en)
                      /\ p = CASE fd.queue # <<>> -> "idle"
                             [] fd.queue = <<>> /\ fd.op = "none" -> "request"
                             [] OTHER -> "reentered"
                      /\ fd' = [fd EXCEPT !.queue = q, !.pc = p]
  BY DEF FD!Add
<1>3. en \in FD!Entry /\ p \in {"idle", "request", "reentered"}
  BY <1>2 DEF FD!Entry
<1>4. /\ q \in Seq(FD!Entry) /\ Len(q) = Len(fd.queue) + 1
      /\ \A i \in 1..Len(fd.queue) : q[i] = fd.queue[i]
  BY <1>1, <1>2, <1>3, AppendProperties
<1>5. Len(fd.queue) \in Nat /\ (fd.queue # <<>> => Len(fd.queue) >= 1 /\ Head(fd.queue) = fd.queue[1])
  BY <1>1, EmptySeq, HeadTailProperties
<1>6. q # <<>> /\ Head(q) = q[1]
  BY <1>4, <1>5, EmptySeq, HeadTailProperties
<1>7. PICK g : g = fd'
  OBVIOUS
<1>8. FD!Typed(g)
  <2>1. q \in FD!Queues
    BY <1>4 DEF FD!Queues
  <2>2. g = [fd EXCEPT !.queue = q, !.pc = p]
    BY <1>2, <1>7
  <2>3. QED  BY <1>1, <1>3, <2>1, <2>2 DEF FD!Typed
<1>9. /\ g.op = fd.op /\ g.timer = fd.timer /\ g.queue = q /\ g.motor = fd.motor /\ g.mon = fd.mon
      /\ g.on = fd.on /\ g.wrong = fd.wrong /\ g.buffer = fd.buffer /\ g.disk = fd.disk
      /\ g.unsure = fd.unsure /\ g.pc = p /\ g.moff = fd.moff /\ g.do_floppy = fd.do_floppy
      /\ g.current_drive = fd.current_drive /\ g.selected = fd.selected /\ g.dor = fd.dor
  BY <1>1, <1>2, <1>7 DEF FD!Typed
<1>10. FD!MotorFits(g, 0)
  BY <1>1, <1>9 DEF FD!MotorFits
<1>11. CASE fd.queue = <<>>
  <2>1. fd.timer.fn = "none" /\ ~FD!Going(fd)
    <3>1. FD!TimerFits(fd, 0) /\ fd.timer \in FD!TimerStates
      BY <1>1 DEF FD!Fits, FD!Typed
    <3>2. fd.timer.fn \in {"none", "transfer", "floppy_on_interrupt"}
      BY <3>1 DEF FD!TimerStates, FD!NoTimer
    <3>3. ~FD!Going(fd)
      BY <1>11 DEF FD!Going
    <3>4. fd.timer.fn = "none"
      BY <3>1, <3>2, <3>3 DEF FD!TimerFits, FD!Chosen, FD!Turns
    <3>5. QED  BY <3>3, <3>4
  <2>2. FD!BufferFits(g)
    BY <1>1, <1>9, <1>11 DEF FD!BufferFits, FD!UnderWay
  <2>3. FD!OpFits(g, 0)
    <3>1. fd.op \notin {"rw", "seek"} /\ FD!OpFits(fd, 0)
      BY <1>1, <2>1 DEF FD!Fits, FD!OpFits, FD!Chosen, FD!Turns
    <3>2. fd.op # "none" => p = "reentered"
      BY <1>2, <1>11
    <3>3. QED  BY <1>9, <3>1, <3>2 DEF FD!OpFits
  <2>4. FD!Fits(g, 0)
    BY <1>1, <1>8, <1>9, <1>10, <2>1, <2>2, <2>3 DEF FD!Fits, FD!TimerFits
  <2>5. QED  BY <1>7, <2>4 DEF FD!IInv
<1>12. CASE fd.queue # <<>>
  <2>1. Head(q) = Head(fd.queue)
    BY <1>4, <1>5, <1>6, <1>12
  <2>2. SameFirst(fd, g)
    BY <1>6, <1>9, <1>12, <2>1 DEF SameFirst, FD!Id1
  <2>3. FD!BufferFits(g)
    BY <1>1, <1>6, <1>9, <1>12, <2>2 DEF FD!BufferFits, FD!UnderWay, SameFirst, FD!Current
  <2>4. g.pc = fd.pc
    BY <1>2, <1>9, <1>12 DEF FD!Add, FD!Idle
  <2>5. FD!Fits(g, 0)
    BY <1>1, <1>8, <1>9, <1>10, <2>2, <2>3, <2>4, FitsKept
  <2>6. QED  BY <1>7, <2>5 DEF FD!IInv
<1>13. QED  BY <1>11, <1>12

(* floppy_init. *)
LEMMA FloppyStarts == ASSUME FD!Init PROVE FD!IInv
<1>1. fd = FD!Fd0
  BY DEF FD!Init
<1>2. PICK zmon, zmoff, zhead, zdisk, zon, chg :
        /\ zmon = [d \in FloppyDrive |-> 0] /\ zmoff = [d \in FloppyDrive |-> 0]
        /\ zhead = [d \in FloppyDrive |-> 0]
        /\ zon = [d \in FloppyDrive |-> 0] /\ zdisk = [d \in FloppyDrive |-> [t \in FloppyTrack |-> 0]]
        /\ chg = [pc |-> "none", nr |-> 0]
  OBVIOUS
<1>3. /\ zmon \in [FloppyDrive -> 0..SPIN] /\ zmoff \in [FloppyDrive -> Nat]
      /\ zhead \in [FloppyDrive -> Int]
      /\ zon \in [FloppyDrive -> Nat] /\ zdisk \in FD!Disks /\ chg \in FD!ChangeStates
      /\ FD!NoTimer \in FD!TimerStates /\ FD!None \in FD!Buffers /\ <<>> \in FD!Queues
  BY <1>2, FloppyConstants
     DEF FD!Disks, FD!ChangeStates, FD!Value, FD!TimerStates, FD!Buffers, FD!Queues
<1>4. /\ fd.queue = <<>> /\ fd.op = "none" /\ fd.timer = FD!NoTimer /\ fd.wrong = {}
      /\ fd.buffer = FD!None
      /\ fd.motor = {}
  BY <1>1 DEF FD!Fd0
<1>5. FD!Typed(fd)
  <2>1. fd = [queue |-> <<>>, do_floppy |-> "NULL", reset |-> FALSE, recal |-> FALSE, seek |-> FALSE,
              read_track |-> FALSE, current_drive |-> 0, current_track |-> 255, selected |-> FALSE,
              buffer |-> FD!None, timer |-> FD!NoTimer, pc |-> "idle", op |-> "none",
              dor |-> 0, motor |-> {}, mon |-> zmon, moff |-> zmoff, chg |-> chg,
              head |-> zhead, disk |-> zdisk, on |-> zon, ended |-> {}, unsure |-> {}, wrong |-> {},
              faults |-> 0]
    BY <1>1, <1>2 DEF FD!Fd0
  <2>2. "NULL" \in FD!Handlers
    BY DEF FD!Handlers
  <2>3. QED  BY <1>3, <2>1, <2>2 DEF FD!Typed
<1>6. Rested(fd, 0)
  BY <1>4, <1>5 DEF Rested, FloppyBase, FD!BufferFits, FD!MotorFits, FD!NoTimer
<1>7. QED  BY <1>6, RestedFits DEF FD!IInv

LEMMA FloppySteps == FD!IInv /\ [FD!Next]_fd => FD!IInv'
<1>1. CASE UNCHANGED fd
  BY <1>1 DEF FD!IInv, FD!Fits, FD!Typed, FD!BufferFits, FD!MotorFits, FD!TimerFits, FD!OpFits,
              FD!UnderWay, FD!Chosen, FD!Turns, FD!Going, FD!StaysOn, FD!Buffered, FD!Current, FD!Id1
<1>2. ASSUME FD!IInv, FD!Next PROVE FD!IInv'
  BY <1>2, FloppyRequestStep, FloppyInterruptStep, UnexpectedStep, FloppyTickStep, ChangeStep,
     FloppyAddStep DEF FD!Next
<1>3. QED  BY <1>1, <1>2

LEMMA FitsMeansFloppyRight == ASSUME FD!IInv PROVE FD!ReadsDisk /\ FD!RightDrive /\ FD!SpunUp
<1>1. fd.wrong = {} /\ FD!OpFits(fd, 0)
  BY DEF FD!IInv, FD!Fits
<1>2. fd.op \in {"rw", "seek"} => FD!Chosen(fd)
  BY <1>1 DEF FD!OpFits
<1>3. QED  BY <1>1, <1>2 DEF FD!ReadsDisk, FD!RightDrive, FD!SpunUp, FD!Chosen, FD!Turns, FD!Going

(* do_fd_request, the interrupts and timers of floppy.c and the motors of sched.c, however
   often the controller fails: a read that succeeds gives what the disk holds, and the
   controller works on no other drive than the request's, and only when that is up to speed. *)
THEOREM FloppyStaysRight == FloppySpec => []FloppyRight
<1>1. FD!Init => FD!IInv
  BY FloppyStarts
<1>2. FD!IInv => FloppyRight
  BY FitsMeansFloppyRight DEF FloppyRight
<1>3. QED
  BY <1>1, <1>2, FloppySteps, PTL DEF FloppySpec
=============================================================================
