-------------------------- MODULE PageMemoryProofs --------------------------
(***************************************************************************)
(* Proofs about PageMemory, for any number of processes, pages, frames,    *)
(* pages of swap space and writes.                                         *)
(***************************************************************************)
EXTENDS PageMemory, FiniteSetTheorems, FunctionTheorems, SequenceTheorems, TLAPS

LEMMA Types == IInv => TypeOK
BY DEF IInv

LEMMA Fits == ASSUME IInv, NEW t \in Proc PROVE JobFits(t)
BY DEF IInv

LEMMA Constants ==
  /\ First \in Proc /\ NoProc \notin Proc /\ NPages \in Nat /\ NFrames \in Nat /\ NSwap \in Nat
  /\ MaxWrites \in Nat /\ 0 \notin Frame /\ 0 \notin Swap
BY MemoryAssumption DEF Frame, Swap

(***************************************************************************)
(* Page-table entries.                                                     *)
(***************************************************************************)
LEMMA EntryCases ==
  ASSUME NEW e \in Entry
  PROVE  \/ e = Empty /\ e.kind = "none"
         \/ e.kind = "present" /\ e.at \in Frame /\ e.rw \in BOOLEAN /\ e.dirty \in BOOLEAN
         \/ e.kind = "swap" /\ e.at \in Swap /\ e = Swapped(e.at)
<1>1. CASE e = Empty
  BY <1>1 DEF Empty
<1>2. CASE e \in [kind : {"present"}, at : Frame, rw : BOOLEAN, dirty : BOOLEAN]
  BY <1>2
<1>3. CASE e \in [kind : {"swap"}, at : Swap, rw : {FALSE}, dirty : {FALSE}]
  <2>1. e = [kind |-> "swap", at |-> e.at, rw |-> FALSE, dirty |-> FALSE] /\ e.at \in Swap
    BY <1>3
  <2>2. QED
    BY <2>1 DEF Swapped
<1>4. QED
  BY <1>1, <1>2, <1>3 DEF Entry

LEMMA EmptyEntry == Empty \in Entry /\ Empty.kind = "none"
BY DEF Entry, Empty

LEMMA PresentEntry ==
  ASSUME NEW f \in Frame, NEW w \in BOOLEAN, NEW d \in BOOLEAN
  PROVE  /\ Present(f, w, d) \in Entry /\ Present(f, w, d).kind = "present"
         /\ Present(f, w, d).at = f /\ Present(f, w, d).rw = w /\ Present(f, w, d).dirty = d
BY DEF Entry, Present

LEMMA SwappedEntry ==
  ASSUME NEW n \in Swap
  PROVE  Swapped(n) \in Entry /\ Swapped(n).kind = "swap" /\ Swapped(n).at = n
BY DEF Entry, Swapped

LEMMA FlagsChanged ==
  ASSUME NEW e \in Entry, e.kind = "present", NEW b \in BOOLEAN
  PROVE  /\ [e EXCEPT !.rw = b] \in Entry /\ [e EXCEPT !.rw = b].kind = "present"
         /\ [e EXCEPT !.rw = b].at = e.at /\ [e EXCEPT !.rw = b].rw = b
         /\ [e EXCEPT !.rw = b].dirty = e.dirty
         /\ [e EXCEPT !.dirty = b] \in Entry /\ [e EXCEPT !.dirty = b].kind = "present"
         /\ [e EXCEPT !.dirty = b].at = e.at /\ [e EXCEPT !.dirty = b].rw = e.rw
         /\ [e EXCEPT !.dirty = b].dirty = b
<1>1. e \in [kind : {"present"}, at : Frame, rw : BOOLEAN, dirty : BOOLEAN]
  <2>1. e # Empty
    BY EmptyEntry
  <2>2. e \notin [kind : {"swap"}, at : Swap, rw : {FALSE}, dirty : {FALSE}]
    OBVIOUS
  <2>3. QED
    BY <2>1, <2>2 DEF Entry
<1>2. /\ [e EXCEPT !.rw = b] \in [kind : {"present"}, at : Frame, rw : BOOLEAN, dirty : BOOLEAN]
      /\ [e EXCEPT !.dirty = b] \in [kind : {"present"}, at : Frame, rw : BOOLEAN, dirty : BOOLEAN]
  BY <1>1
<1>3. QED
  BY <1>1, <1>2 DEF Entry

LEMMA EntryType ==
  ASSUME IInv, NEW p \in Proc, NEW v \in Page
  PROVE  pte[p][v] \in Entry
BY Types DEF TypeOK

(* One entry, or the same entry of two processes, set. *)
LEMMA OneSet ==
  ASSUME IInv, NEW p \in Proc, NEW v \in Page, NEW e \in Entry, SetEntry(p, v, e)
  PROVE  /\ pte' \in [Proc -> [Page -> Entry]]
         /\ pte'[p][v] = e
         /\ \A q \in Proc, w \in Page : q # p \/ w # v => pte'[q][w] = pte[q][w]
<1>1. pte \in [Proc -> [Page -> Entry]] /\ pte' = [pte EXCEPT ![p][v] = e]
  BY Types DEF TypeOK, SetEntry
<1>2. QED
  BY <1>1

LEMMA TwoSet ==
  ASSUME IInv, NEW p \in Proc, NEW q \in Proc, p # q, NEW v \in Page, NEW e \in Entry,
         NEW d \in Entry, pte' = [pte EXCEPT ![p][v] = e, ![q][v] = d]
  PROVE  /\ pte' \in [Proc -> [Page -> Entry]]
         /\ pte'[p][v] = e /\ pte'[q][v] = d
         /\ \A r \in Proc, w \in Page : (r # p /\ r # q) \/ w # v => pte'[r][w] = pte[r][w]
<1>1. pte \in [Proc -> [Page -> Entry]]
  BY Types DEF TypeOK
<1>2. QED
  BY <1>1

(***************************************************************************)
(* The users of frames and of swap space.                                  *)
(***************************************************************************)
Cell == Proc \X Page

LEMMA Finite ==
  /\ \A S \in SUBSET Cell : IsFiniteSet(S) /\ Cardinality(S) \in Nat
  /\ \A S \in SUBSET Proc : IsFiniteSet(S) /\ Cardinality(S) \in Nat
  /\ \A S \in SUBSET Page : IsFiniteSet(S) /\ Cardinality(S) \in Nat
<1>1. IsFiniteSet(Page)
  BY MemoryAssumption, FS_Interval DEF Page
<1>2. IsFiniteSet(Proc)
  BY MemoryAssumption
<1>3. IsFiniteSet(Cell)
  BY <1>1, <1>2, FS_Product DEF Cell
<1>4. QED
  BY <1>1, <1>2, <1>3, FS_Subset, FS_CardinalityType

LEMMA RefersTo ==
  ASSUME NEW f, NEW p \in Proc, NEW v \in Page
  PROVE  <<p, v>> \in Refers(f) <=> pte[p][v].kind = "present" /\ pte[p][v].at = f
BY DEF Refers

LEMMA UsersAre == ASSUME NEW f PROVE Refers(f) \in SUBSET Cell /\ Keeps(f) \in SUBSET Proc
BY DEF Refers, Keeps, Cell

LEMMA AddOne ==
  ASSUME NEW S, IsFiniteSet(S), NEW x, x \notin S
  PROVE  Cardinality(S \cup {x}) = Cardinality(S) + 1
BY FS_AddElement

LEMMA TakeOne ==
  ASSUME NEW S, IsFiniteSet(S), NEW x \in S
  PROVE  Cardinality(S \ {x}) = Cardinality(S) - 1 /\ Cardinality(S) \in Nat \ {0}
<1>1. Cardinality(S \ {x}) = Cardinality(S) - 1
  BY FS_RemoveElement
<1>2. Cardinality(S) \in Nat /\ Cardinality(S) # 0
  BY FS_CardinalityType, FS_EmptySet
<1>3. QED
  BY <1>1, <1>2

LEMMA OneElement ==
  ASSUME NEW S, IsFiniteSet(S), Cardinality(S) = 1, NEW x \in S
  PROVE  S = {x}
<1>1. Cardinality(S \ {x}) = 0 /\ IsFiniteSet(S \ {x})
  BY FS_RemoveElement
<1>2. S \ {x} = {}
  BY <1>1, FS_EmptySet
<1>3. QED
  BY <1>2

LEMMA NoElement ==
  ASSUME NEW S, IsFiniteSet(S)
  PROVE  Cardinality(S) = 0 <=> S = {}
BY FS_EmptySet

LEMMA Singleton == ASSUME NEW x PROVE Cardinality({x}) = 1
BY FS_Singleton

(* What mem_map says of a frame. *)
LEMMA Counted ==
  ASSUME IInv, NEW f \in Frame
  PROVE  /\ mem_map[f] = Cardinality(Refers(f)) + Cardinality(Keeps(f)) /\ mem_map[f] \in Nat
         /\ IsFiniteSet(Refers(f)) /\ IsFiniteSet(Keeps(f))
         /\ Cardinality(Refers(f)) \in Nat /\ Cardinality(Keeps(f)) \in Nat
         /\ mem_map[f] = 0 => Refers(f) = {} /\ Keeps(f) = {}
         /\ \A x \in Refers(f) : mem_map[f] > 0 /\ (mem_map[f] = 1 => Refers(f) = {x} /\ Keeps(f) = {})
<1>1. mem_map[f] = Cardinality(Refers(f)) + Cardinality(Keeps(f)) /\ mem_map[f] \in Nat
  BY Types DEF IInv, MemMapCounts, TypeOK
<1>2. /\ IsFiniteSet(Refers(f)) /\ IsFiniteSet(Keeps(f))
      /\ Cardinality(Refers(f)) \in Nat /\ Cardinality(Keeps(f)) \in Nat
  BY UsersAre, Finite
<1>3. mem_map[f] = 0 => Refers(f) = {} /\ Keeps(f) = {}
  BY <1>1, <1>2, NoElement
<1>4. ASSUME NEW x \in Refers(f)
      PROVE  mem_map[f] > 0 /\ (mem_map[f] = 1 => Refers(f) = {x} /\ Keeps(f) = {})
  <2>1. Cardinality(Refers(f)) # 0
    BY <1>2, NoElement
  <2>2. mem_map[f] = 1 => Cardinality(Refers(f)) = 1 /\ Cardinality(Keeps(f)) = 0
    BY <1>1, <1>2, <2>1
  <2>3. QED
    BY <1>1, <1>2, <2>1, <2>2, OneElement, NoElement
<1>5. QED
  BY <1>1, <1>2, <1>3, <1>4

LEMMA Alone ==
  ASSUME IInv, NEW t \in Proc, NEW f \in {job[t].new, job[t].out}, f # 0
  PROVE  f \in Frame /\ Refers(f) = {} /\ Keeps(f) = {t} /\ mem_map[f] = 1
<1>1. f \in Frame
  BY Types DEF TypeOK, Job
<1>2. Refers(f) = {} /\ Keeps(f) = {t}
  BY DEF IInv, KeptAlone
<1>3. Cardinality(Refers(f)) = 0 /\ Cardinality(Keeps(f)) = 1
  BY <1>2, FS_EmptySet, Singleton
<1>4. mem_map[f] = Cardinality(Refers(f)) + Cardinality(Keeps(f))
  BY <1>1, Counted
<1>5. QED
  BY <1>1, <1>2, <1>3, <1>4

(* The entry p, v is set: the cells that refer to f. *)
LEMMA RefersAfter ==
  ASSUME NEW p \in Proc, NEW v \in Page, NEW f,
         \A q \in Proc, w \in Page : q # p \/ w # v => pte'[q][w] = pte[q][w]
  PROVE  Refers(f)' = IF pte'[p][v].kind = "present" /\ pte'[p][v].at = f
                      THEN Refers(f) \cup {<<p, v>>} ELSE Refers(f) \ {<<p, v>>}
<1>1. ASSUME NEW q \in Proc, NEW w \in Page, <<q, w>> # <<p, v>>
      PROVE  <<q, w>> \in Refers(f)' <=> <<q, w>> \in Refers(f)
  BY <1>1 DEF Refers
<1>2. <<p, v>> \in Refers(f)' <=> pte'[p][v].kind = "present" /\ pte'[p][v].at = f
  BY DEF Refers
<1>3. \A x \in Refers(f) \cup Refers(f)' : \E q \in Proc, w \in Page : x = <<q, w>>
  BY DEF Refers
<1>4. QED
  BY <1>1, <1>2, <1>3

LEMMA SwapUsersAfter ==
  ASSUME NEW p \in Proc, NEW v \in Page, NEW n,
         \A q \in Proc, w \in Page : q # p \/ w # v => pte'[q][w] = pte[q][w]
  PROVE  SwapUsers(n)' = IF pte'[p][v] = Swapped(n)
                         THEN SwapUsers(n) \cup {<<p, v>>} ELSE SwapUsers(n) \ {<<p, v>>}
<1>1. ASSUME NEW q \in Proc, NEW w \in Page, <<q, w>> # <<p, v>>
      PROVE  <<q, w>> \in SwapUsers(n)' <=> <<q, w>> \in SwapUsers(n)
  BY <1>1 DEF SwapUsers
<1>2. <<p, v>> \in SwapUsers(n)' <=> pte'[p][v] = Swapped(n)
  BY DEF SwapUsers, Swapped
<1>3. \A x \in SwapUsers(n) \cup SwapUsers(n)' : \E q \in Proc, w \in Page : x = <<q, w>>
  BY DEF SwapUsers
<1>4. QED
  BY <1>1, <1>2, <1>3

(***************************************************************************)
(* The swap requests, and what the swap space will hold.                   *)
(***************************************************************************)
LEMMA MinExists ==
  ASSUME NEW S \in SUBSET Nat, S # {}
  PROVE  \E i \in S : \A j \in S : i <= j
<1> DEFINE R == {ij \in Nat \X Nat : ij[1] < ij[2]}
<1>1. IsWellFoundedOn(R, Nat)
  BY NatLessThanWellFounded DEF OpToRel
<1>2. PICK i \in S : \A j \in S : <<j, i>> \notin R
  <2> HIDE DEF R
  <2> QED BY <1>1, WFMin
<1>3. ASSUME NEW j \in S PROVE i <= j
  <2>1. i \in Nat /\ j \in Nat /\ <<j, i>> \in Nat \X Nat
    OBVIOUS
  <2>2. ~(j < i)
    BY <1>2, <2>1
  <2>3. QED
    BY <2>1, <2>2
<1>4. QED
  BY <1>3

LEMMA MaxExists ==
  ASSUME NEW n \in Nat, NEW S \in SUBSET (0..n), S # {}
  PROVE  \E i \in S : \A j \in S : j <= i
<1> DEFINE T == {n - i : i \in S}
<1>1. T \in SUBSET Nat /\ T # {}
  <2>1. PICK x : x \in S
    OBVIOUS
  <2>2. n - x \in T
    BY <2>1
  <2>3. \A i \in S : n - i \in Nat
    OBVIOUS
  <2>4. QED
    BY <2>2, <2>3
<1>2. PICK k \in T : \A j \in T : k <= j
  <2> HIDE DEF T
  <2> QED BY <1>1, MinExists
<1>3. PICK i \in S : k = n - i
  OBVIOUS
<1>4. ASSUME NEW j \in S PROVE j <= i
  <2>1. n - j \in T
    OBVIOUS
  <2>2. n - i <= n - j
    BY <1>2, <1>3, <2>1
  <2>3. i \in Int /\ j \in Int
    OBVIOUS
  <2>4. QED
    BY <2>2, <2>3
<1>5. QED
  BY <1>4

LEMMA QueueType ==
  ASSUME TypeOK
  PROVE  Len(swapq) \in Nat /\ \A i \in 1..Len(swapq) : swapq[i] \in SwapRequest
BY DEF TypeOK

LEMMA InFlightIs ==
  ASSUME NEW n, NEW i
  PROVE  i \in InFlight(n) <=> i \in 1..Len(swapq) /\ swapq[i].cmd = "write" /\ swapq[i].nr = n
BY DEF InFlight

(* The last write of a page decides. *)
IsLast(n, i) == i \in InFlight(n) /\ \A k \in InFlight(n) : k <= i

LEMMA LastExists == TypeOK => \A n \in Swap : InFlight(n) # {} => \E i \in 1..Len(swapq) : IsLast(n, i)
<1> SUFFICES ASSUME TypeOK, NEW n \in Swap, InFlight(n) # {}
             PROVE  \E i \in 1..Len(swapq) : IsLast(n, i)
  OBVIOUS
<1>1. PICK m \in Nat : m = Len(swapq)
  BY QueueType
<1>2. InFlight(n) \in SUBSET (0..m)
  BY <1>1 DEF InFlight
<1>3. PICK i \in InFlight(n) : \A k \in InFlight(n) : k <= i
  BY <1>2, MaxExists
<1>4. QED
  BY <1>3 DEF IsLast, InFlight

LastRules == \A n \in Swap : \A i \in 1..Len(swapq) : IsLast(n, i) => OnDisk[n] = mem[swapq[i].frame]

LEMMA LastDecides == TypeOK => LastRules
<1> SUFFICES ASSUME TypeOK, NEW n \in Swap, NEW i \in 1..Len(swapq), IsLast(n, i)
             PROVE  OnDisk[n] = mem[swapq[i].frame]
  BY DEF LastRules
<1>1. InFlight(n) # {} /\ i \in InFlight(n) /\ \A k \in InFlight(n) : k <= i
  BY DEF IsLast
<1>2. InFlight(n) \in SUBSET Nat
  BY QueueType DEF InFlight
<1>3. Max(InFlight(n)) = i
  <2>1. \A x \in InFlight(n) : (\A y \in InFlight(n) : x >= y) => x = i
    BY <1>1, <1>2
  <2>2. \A y \in InFlight(n) : i >= y
    BY <1>1, <1>2
  <2>3. QED
    BY <1>1, <2>1, <2>2 DEF Max
<1>4. QED
  BY <1>1, <1>3 DEF OnDisk

LEMMA NoneDecides == \A n \in Swap : InFlight(n) = {} => OnDisk[n] = swapmem[n]
BY DEF OnDisk

(* A write under way takes its page from a frame that its task holds. *)
LEMMA WriterHolds ==
  ASSUME IInv, NEW i \in 1..Len(swapq), swapq[i].cmd = "write"
  PROVE  /\ swapq[i].frame \in Frame /\ swapq[i].who \in Proc
         /\ job[swapq[i].who].out = swapq[i].frame
<1>1. swapq[i] \in SwapRequest
  BY Types, QueueType
<1>2. QED
  BY <1>1 DEF IInv, Queued, SwapRequest

(* A change of a frame that no write takes its page from. *)
LEMMA DiskKept ==
  ASSUME IInv, TypeOK', NEW f, UNCHANGED <<swapq, swapmem>>,
         \A g \in Frame \ {f} : mem'[g] = mem[g],
         \A u \in Proc : job[u].out # f
  PROVE  \A n \in Swap : OnDisk'[n] = OnDisk[n]
<1> SUFFICES ASSUME NEW n \in Swap PROVE OnDisk'[n] = OnDisk[n]
  OBVIOUS
<1>1. InFlight(n)' = InFlight(n)
  BY DEF InFlight
<1>2. CASE InFlight(n) = {}
  <2>1. OnDisk[n] = swapmem[n]
    BY <1>2, NoneDecides
  <2>2. OnDisk'[n] = swapmem'[n]
    BY <1>1, <1>2 DEF OnDisk
  <2>3. QED
    BY <2>1, <2>2
<1>3. CASE InFlight(n) # {}
  <2>1. PICK i \in 1..Len(swapq) : IsLast(n, i)
    BY <1>3, Types, LastExists
  <2>2. IsLast(n, i)'
    BY <1>1, <2>1 DEF IsLast
  <2>3. OnDisk[n] = mem[swapq[i].frame]
    BY <2>1, Types, LastDecides DEF LastRules
  <2>4. OnDisk'[n] = mem'[swapq'[i].frame]
    <3>1. LastRules'
      BY LastDecides, PTL
    <3>2. QED
      BY <2>2, <3>1 DEF LastRules
  <2>5. swapq[i].cmd = "write"
    BY <2>1 DEF IsLast, InFlight
  <2>6. swapq[i].frame \in Frame /\ swapq[i].frame # f
    BY <2>5, WriterHolds
  <2>7. QED
    BY <2>3, <2>4, <2>6
<1>4. QED
  BY <1>2, <1>3

LEMMA DiskSame ==
  ASSUME UNCHANGED <<swapq, swapmem, mem>>
  PROVE  OnDisk' = OnDisk
BY DEF OnDisk, InFlight

(* A request joins the queue, behind p of the others. *)
HasInserted(r, q, p, x) ==
  /\ r \in Seq(SwapRequest) /\ Len(r) = Len(q) + 1
  /\ r[p + 1] = x
  /\ \A k \in 1..p : r[k] = q[k]
  /\ \A k \in p + 1..Len(q) : r[k + 1] = q[k]

LEMMA Inserted ==
  ASSUME NEW q \in Seq(SwapRequest), NEW p \in Nat, p \in 0..Len(q), NEW x \in SwapRequest, NEW r,
         r = SubSeq(q, 1, p) \o <<x>> \o SubSeq(q, p + 1, Len(q))
  PROVE  HasInserted(r, q, p, x)
<1> DEFINE a == SubSeq(q, 1, p)
           b == SubSeq(q, p + 1, Len(q))
           n == Len(q)
<1>1. n \in Nat /\ p \in Nat /\ p <= n /\ \A i \in 1..n : q[i] \in SwapRequest
  OBVIOUS
<1>2. a \in Seq(SwapRequest) /\ Len(a) = p /\ \A k \in 1..p : a[k] = q[k]
  <2>1. \A i \in 1..p : q[i] \in SwapRequest
    BY <1>1
  <2>2. /\ a \in Seq(SwapRequest) /\ Len(a) = IF 1 <= p THEN p - 1 + 1 ELSE 0
        /\ \A k \in 1..p - 1 + 1 : a[k] = q[1 + k - 1]
    BY <1>1, <2>1, SubSeqProperties
  <2>3. QED
    BY <1>1, <2>2
<1>3. b \in Seq(SwapRequest) /\ Len(b) = n - p /\ \A k \in 1..n - p : b[k] = q[p + k]
  <2>1. \A i \in p + 1..n : q[i] \in SwapRequest
    BY <1>1
  <2>2. /\ b \in Seq(SwapRequest) /\ Len(b) = IF p + 1 <= n THEN n - (p + 1) + 1 ELSE 0
        /\ \A k \in 1..n - (p + 1) + 1 : b[k] = q[p + 1 + k - 1]
    BY <1>1, <2>1, SubSeqProperties
  <2>3. QED
    BY <1>1, <2>2
<1> HIDE DEF a, b
<1>4. <<x>> \in Seq(SwapRequest) /\ Len(<<x>>) = 1 /\ <<x>>[1] = x
  OBVIOUS
<1>5. /\ a \o <<x>> \in Seq(SwapRequest) /\ Len(a \o <<x>>) = p + 1
      /\ (a \o <<x>>)[p + 1] = x /\ \A k \in 1..p : (a \o <<x>>)[k] = q[k]
  <2>1. /\ a \o <<x>> \in Seq(SwapRequest) /\ Len(a \o <<x>>) = p + 1
        /\ \A k \in 1..p + 1 : (a \o <<x>>)[k] = IF k <= p THEN a[k] ELSE <<x>>[k - p]
    BY <1>1, <1>2, <1>4, ConcatProperties
  <2>2. PICK m : m = p + 1
    OBVIOUS
  <2>3. m \in 1..p + 1 /\ ~(m <= p) /\ m - p = 1
    BY <1>1, <2>2
  <2>4. (a \o <<x>>)[m] = <<x>>[m - p]
    BY <2>1, <2>3, Zenon
  <2>5. (a \o <<x>>)[p + 1] = x
    BY <1>4, <2>2, <2>3, <2>4
  <2>6. ASSUME NEW k \in 1..p PROVE (a \o <<x>>)[k] = q[k]
    <3>1. k \in 1..p + 1 /\ k <= p
      BY <1>1
    <3>2. (a \o <<x>>)[k] = a[k]
      BY <2>1, <3>1, Zenon
    <3>3. QED
      BY <1>2, <3>2
  <2>7. QED
    BY <2>1, <2>5, <2>6
<1> DEFINE c == a \o <<x>>
<1>6. r = c \o b
  BY DEF a, b
<1> HIDE DEF c
<1>7. c \in Seq(SwapRequest) /\ Len(c) = p + 1
  BY <1>5 DEF c
<1>8. c[p + 1] = x /\ \A k \in 1..p : c[k] = q[k]
  BY <1>5 DEF c
<1>9. /\ r \in Seq(SwapRequest) /\ Len(r) = Len(c) + Len(b)
      /\ \A k \in 1..Len(c) + Len(b) : r[k] = IF k <= Len(c) THEN c[k] ELSE b[k - Len(c)]
  <2>1. c \in Seq(SwapRequest) /\ b \in Seq(SwapRequest)
    BY <1>3, <1>7
  <2>2. /\ c \o b \in Seq(SwapRequest) /\ Len(c \o b) = Len(c) + Len(b)
        /\ \A k \in 1..Len(c) + Len(b) : (c \o b)[k] = IF k <= Len(c) THEN c[k] ELSE b[k - Len(c)]
    BY <2>1, ConcatProperties
  <2>3. QED
    BY <1>6, <2>2
<1> HIDE DEF n
<1>10. Len(c) + Len(b) = n + 1
  BY <1>1, <1>3, <1>7
<1>11. ASSUME NEW k \in p + 1..n PROVE r[k + 1] = q[k]
  <2>1. k + 1 \in 1..n + 1 /\ ~(k + 1 <= Len(c)) /\ k + 1 - Len(c) = k - p /\ k - p \in 1..n - p
    BY <1>1, <1>7
  <2>2. r[k + 1] = b[k - p]
    <3>1. PICK m : m = k + 1
      OBVIOUS
    <3>2. m \in 1..Len(c) + Len(b) /\ ~(m <= Len(c)) /\ m - Len(c) = k - p
      BY <1>10, <2>1, <3>1
    <3>3. r[m] = b[m - Len(c)]
      BY <1>9, <3>2, Zenon
    <3>4. QED
      BY <3>1, <3>2, <3>3
  <2>3. b[k - p] = q[p + (k - p)] /\ p + (k - p) = k
    <3>1. PICK m : m = k - p
      OBVIOUS
    <3>2. m \in 1..n - p /\ p + m = k
      BY <1>1, <2>1, <3>1
    <3>3. b[m] = q[p + m]
      BY <1>3, <3>2 DEF n
    <3>4. QED
      BY <3>1, <3>2, <3>3
  <2>4. QED
    BY <2>2, <2>3
<1>12. ASSUME NEW k \in 1..p + 1 PROVE r[k] = c[k]
  <2>1. k \in 1..n + 1 /\ k <= Len(c)
    BY <1>1, <1>7
  <2>2. QED
    BY <1>9, <1>10, <2>1
<1>13. r[p + 1] = x /\ \A k \in 1..p : r[k] = q[k]
  <2>1. p + 1 \in 1..p + 1 /\ \A k \in 1..p : k \in 1..p + 1
    BY <1>1
  <2>2. QED
    BY <1>8, <1>12, <2>1
<1>14. QED
  BY <1>9, <1>10, <1>11, <1>13 DEF n, HasInserted

Placed(r, p) ==
  /\ swapq' = SubSeq(swapq, 1, p) \o <<r>> \o SubSeq(swapq, p + 1, Len(swapq))
  /\ overtaken' = (overtaken \/ \E i \in p + 1..Len(swapq) : swapq[i].nr = r.nr)
At(p, i) == IF i <= p THEN i ELSE i + 1

LEMMA Joined ==
  ASSUME TypeOK, NEW r \in SwapRequest, NEW p \in 0..Len(swapq), Placed(r, p), NEW m, m = Len(swapq)
  PROVE  /\ Len(swapq') = m + 1 /\ m \in Nat /\ p \in Nat /\ p + 1 \in 1..m + 1
         /\ swapq'[p + 1] = r /\ swapq' \in Seq(SwapRequest)
         /\ \A i \in 1..m : swapq'[At(p, i)] = swapq[i]
<1>1. m \in Nat /\ p \in Nat /\ p + 1 \in 1..m + 1
  BY QueueType
<1>2. HasInserted(swapq', swapq, p, r)
  BY <1>1, Inserted DEF TypeOK, Placed
<1>3. QED
  BY <1>1, <1>2 DEF HasInserted, At

(* The others keep their order. *)
LEMMA InOrder ==
  ASSUME NEW m \in Nat, NEW p \in 0..m
  PROVE  /\ \A i \in 1..m : At(p, i) \in 1..m + 1 /\ At(p, i) # p + 1
         /\ \A k \in 1..m + 1 : k = p + 1 \/ \E i \in 1..m : k = At(p, i)
         /\ \A i, k \in 1..m : (At(p, i) <= At(p, k) <=> i <= k) /\ (At(p, i) = At(p, k) => i = k)
         /\ \A i \in 1..m : At(p, i) > p + 1 => i \in p + 1..m
<1>1. ASSUME NEW k \in 1..m + 1, k # p + 1 PROVE \E i \in 1..m : k = At(p, i)
  <2>1. CASE k <= p
    <3>1. k \in 1..m /\ At(p, k) = k
      BY <2>1 DEF At
    <3>2. QED
      BY <3>1
  <2>2. CASE ~(k <= p)
    <3>1. PICK i \in 1..m : i = k - 1 /\ ~(i <= p)
      BY <1>1, <2>2
    <3>2. At(p, i) = k
      BY <3>1 DEF At
    <3>3. QED
      BY <3>2
  <2>3. QED
    BY <2>1, <2>2
<1>2. QED
  BY <1>1 DEF At

LEMMA StillInFlight ==
  ASSUME TypeOK, NEW r \in SwapRequest, NEW p \in 0..Len(swapq), Placed(r, p), NEW n,
         r.cmd = "read" \/ r.nr # n
  PROVE  /\ \A i \in InFlight(n) : At(p, i) \in InFlight(n)'
         /\ \A k \in InFlight(n)' : \E i \in InFlight(n) : k = At(p, i)
<1>0. PICK m \in Nat : m = Len(swapq)
  BY QueueType
<1>1. Len(swapq') = m + 1 /\ swapq'[p + 1] = r /\ \A i \in 1..m : swapq'[At(p, i)] = swapq[i]
  BY <1>0, Joined
<1>2. p \in 0..m
  BY <1>0
<1>3. /\ \A i \in 1..m : At(p, i) \in 1..m + 1
      /\ \A k \in 1..m + 1 : k = p + 1 \/ \E i \in 1..m : k = At(p, i)
  BY <1>2, InOrder
<1>4. ASSUME NEW i \in InFlight(n) PROVE At(p, i) \in InFlight(n)'
  <2>1. i \in 1..m /\ swapq[i].cmd = "write" /\ swapq[i].nr = n
    BY <1>0 DEF InFlight
  <2>2. At(p, i) \in 1..m + 1 /\ swapq'[At(p, i)] = swapq[i]
    BY <1>1, <1>3, <2>1
  <2>3. QED
    BY <1>1, <2>1, <2>2 DEF InFlight
<1>5. ASSUME NEW k \in InFlight(n)' PROVE \E i \in InFlight(n) : k = At(p, i)
  <2>1. k \in 1..m + 1 /\ swapq'[k].cmd = "write" /\ swapq'[k].nr = n
    BY <1>1 DEF InFlight
  <2>2. k # p + 1
    BY <1>1, <2>1
  <2>3. PICK i \in 1..m : k = At(p, i)
    BY <1>3, <2>1, <2>2
  <2>4. swapq[i] = swapq'[k]
    BY <1>1, <2>3
  <2>5. i \in InFlight(n)
    BY <1>0, <2>1, <2>3, <2>4 DEF InFlight
  <2>6. QED
    BY <2>3, <2>5
<1>6. QED
  BY <1>4, <1>5

LEMMA DiskKeeps ==
  ASSUME TypeOK, TypeOK', NEW r \in SwapRequest, NEW p \in 0..Len(swapq), Placed(r, p),
         NEW n \in Swap, r.cmd = "read" \/ r.nr # n, UNCHANGED <<mem, swapmem>>
  PROVE  OnDisk'[n] = OnDisk[n]
<1>0. PICK m \in Nat : m = Len(swapq)
  BY QueueType
<1>1. Len(swapq') = m + 1 /\ \A i \in 1..m : swapq'[At(p, i)] = swapq[i]
  BY <1>0, Joined
<1>2. p \in 0..m
  BY <1>0
<1>3. CASE InFlight(n) = {}
  <2>1. InFlight(n)' = {}
    BY <1>3, StillInFlight
  <2>2. QED
    BY <1>3, <2>1 DEF OnDisk
<1>4. CASE InFlight(n) # {}
  <2>1. PICK i \in 1..m : IsLast(n, i)
    BY <1>0, <1>4, LastExists
  <2>2. i \in InFlight(n) /\ \A k \in InFlight(n) : k <= i /\ k \in 1..m
    BY <1>0, <2>1 DEF IsLast, InFlight
  <2>3. PICK j \in 1..m + 1 : j = At(p, i) /\ j \in InFlight(n)' /\ swapq'[j] = swapq[i]
    BY <1>1, <1>2, <2>2, InOrder, StillInFlight
  <2>4. ASSUME NEW k \in InFlight(n)' PROVE k <= j
    <3>1. PICK l \in InFlight(n) : k = At(p, l)
      BY StillInFlight
    <3>2. l \in 1..m /\ l <= i
      BY <2>2
    <3>3. At(p, l) <= At(p, i)
      BY <1>2, <3>2, InOrder
    <3>4. QED
      BY <2>3, <3>1, <3>3
  <2>5. IsLast(n, j)' /\ j \in 1..Len(swapq')
    BY <1>1, <2>3, <2>4 DEF IsLast
  <2>6. OnDisk[n] = mem[swapq[i].frame]
    BY <1>0, <2>1, LastDecides DEF LastRules
  <2>7. LastRules'
    BY LastDecides, PTL
  <2>8. OnDisk'[n] = mem'[swapq'[j].frame]
    BY <2>5, <2>7 DEF LastRules
  <2>9. QED
    BY <2>3, <2>6, <2>8
<1>5. QED
  BY <1>3, <1>4

LEMMA DiskAfterWrite ==
  ASSUME TypeOK, TypeOK', NEW r \in SwapRequest, NEW p \in 0..Len(swapq), Placed(r, p), r.cmd = "write",
         ~overtaken', UNCHANGED <<mem, swapmem>>
  PROVE  OnDisk'[r.nr] = mem[r.frame]
<1>0. PICK m \in Nat : m = Len(swapq)
  BY QueueType
<1>1. /\ Len(swapq') = m + 1 /\ swapq'[p + 1] = r /\ p + 1 \in 1..m + 1 /\ p \in Nat
      /\ \A i \in 1..m : swapq'[At(p, i)] = swapq[i]
  BY <1>0, Joined
<1>2. \A i \in p + 1..m : swapq[i].nr # r.nr
  BY <1>0 DEF Placed
<1>3. p \in 0..m
  BY <1>0
<1>4. PICK j \in 1..m + 1 : j = p + 1
  BY <1>1
<1>5. ASSUME NEW k \in InFlight(r.nr)' PROVE k <= j
  <2>1. k \in 1..m + 1 /\ swapq'[k].nr = r.nr
    BY <1>1 DEF InFlight
  <2>2. CASE k # p + 1
    <3>1. PICK i \in 1..m : k = At(p, i)
      BY <1>3, <2>1, <2>2, InOrder
    <3>2. swapq[i].nr = r.nr
      BY <1>1, <2>1, <3>1
    <3>3. ~(i \in p + 1..m)
      BY <1>2, <3>2
    <3>4. ~(At(p, i) > p + 1)
      BY <1>3, <3>3, InOrder
    <3>5. QED
      BY <1>1, <1>4, <2>1, <3>1, <3>4
  <2>3. QED
    BY <1>4, <2>2
<1>6. j \in InFlight(r.nr)'
  BY <1>1, <1>4 DEF InFlight
<1>7. IsLast(r.nr, j)' /\ j \in 1..Len(swapq') /\ r.nr \in Swap /\ swapq'[j] = r
  BY <1>1, <1>4, <1>5, <1>6 DEF IsLast, SwapRequest
<1>8. LastRules'
  BY LastDecides, PTL
<1>9. OnDisk'[r.nr] = mem'[swapq'[j].frame]
  BY <1>7, <1>8 DEF LastRules
<1>10. QED
  BY <1>7, <1>9

(* The front request leaves the queue: the disk will hold what it would have. *)
LEMMA Left ==
  ASSUME TypeOK, swapq # <<>>, swapq' = Tail(swapq)
  PROVE  /\ Len(swapq) \in Nat \ {0} /\ Len(swapq') = Len(swapq) - 1
         /\ Head(swapq) = swapq[1] /\ swapq[1] \in SwapRequest
         /\ \A i \in 1..Len(swapq) - 1 : swapq'[i] = swapq[i + 1]
         /\ swapq' \in Seq(SwapRequest)
BY DEF TypeOK

LEMMA DiskAfterEnd ==
  ASSUME IInv, TypeOK', SwapInterrupt
  PROVE  \A n \in Swap : OnDisk'[n] = OnDisk[n]
<1> SUFFICES ASSUME NEW n \in Swap PROVE OnDisk'[n] = OnDisk[n]
  OBVIOUS
<1> DEFINE r == swapq[1]
<1>0. PICK m \in Nat : Len(swapq) = m + 1
  <2>1. Len(swapq) \in Nat \ {0}
    BY Types, Left DEF SwapInterrupt
  <2>2. Len(swapq) - 1 \in Nat /\ Len(swapq) = (Len(swapq) - 1) + 1
    BY <2>1
  <2>3. QED
    BY <2>2
<1>1. /\ Len(swapq') = m /\ r \in SwapRequest /\ \A i \in 1..m : swapq'[i] = swapq[i + 1]
      /\ Head(swapq) = r
  BY <1>0, Types, Left DEF SwapInterrupt
<1>2. LastRules' /\ LastRules /\ TypeOK
  BY LastDecides, Types, PTL
<1>3. ASSUME NEW i \in 1..m PROVE i \in InFlight(n)' <=> i + 1 \in InFlight(n)
  BY <1>0, <1>1 DEF InFlight
<1>4. InFlight(n)' \subseteq 1..m /\ InFlight(n) \subseteq 1..m + 1
  BY <1>0, <1>1 DEF InFlight
<1>5. r.cmd = "read" => \A i \in 1..m + 1 : swapq[i].cmd = "write" => mem'[swapq[i].frame] = mem[swapq[i].frame]
  <2> SUFFICES ASSUME r.cmd = "read", NEW i \in 1..m + 1, swapq[i].cmd = "write"
               PROVE  mem'[swapq[i].frame] = mem[swapq[i].frame]
    OBVIOUS
  <2>1. mem' = [mem EXCEPT ![r.frame] = swapmem[r.nr]]
    BY <1>1 DEF SwapInterrupt
  <2>2. 1 \in 1..Len(swapq) /\ i \in 1..Len(swapq)
    BY <1>0
  <2>3. swapq[i].frame \in Frame /\ swapq[i].who \in Proc /\ job[swapq[i].who].out = swapq[i].frame
    BY <2>2, WriterHolds
  <2>4. job[r.who].gfp = "read" /\ job[r.who].new = r.frame /\ r.who \in Proc /\ r.frame \in Frame
    BY <1>1, <2>2 DEF IInv, Queued, SwapRequest
  <2>5. job[r.who].out = 0
    BY <2>4, Fits, Types DEF JobFits, TypeOK, Job
  <2>6. swapq[i].frame # r.frame
    <3>1. ASSUME swapq[i].frame = r.frame PROVE FALSE
      <4>1. r.frame # 0 /\ r.frame \in {job[r.who].new, job[r.who].out}
        BY <2>4, Constants
      <4>2. Keeps(r.frame) = {r.who}
        BY <2>4, <4>1, Alone
      <4>3. swapq[i].who \in Keeps(r.frame)
        BY <2>3, <3>1 DEF Keeps
      <4>4. QED
        BY <2>3, <2>5, <3>1, <4>2, <4>3, Constants
    <3>2. QED
      BY <3>1
  <2>7. QED
    BY <2>1, <2>3, <2>6, <1>2 DEF TypeOK
<1>6. r.cmd = "write" => mem' = mem /\ swapmem' = [swapmem EXCEPT ![r.nr] = mem[r.frame]]
  BY <1>1 DEF SwapInterrupt
<1>7. CASE \E k \in 1..m : k \in InFlight(n)'
  <2>1. PICK i \in 1..Len(swapq) : IsLast(n, i)
    <3>1. InFlight(n) # {}
      BY <1>3, <1>7
    <3>2. QED
      BY <1>2, <3>1, LastExists
  <2>2. i # 1 /\ i \in 1..m + 1
    <3>1. PICK k \in 1..m : k \in InFlight(n)'
      BY <1>7
    <3>2. k + 1 <= i
      BY <3>1, <1>3, <2>1 DEF IsLast
    <3>3. QED
      BY <3>1, <3>2, <1>0
  <2>3. PICK k \in 1..m : i = k + 1
    <3>1. i - 1 \in 1..m /\ i = (i - 1) + 1
      BY <2>2
    <3>2. QED
      BY <3>1
  <2>4. k \in InFlight(n)'
    BY <1>3, <2>1, <2>3 DEF IsLast
  <2>5. \A h \in InFlight(n)' : h <= k
    <3>1. ASSUME NEW h \in InFlight(n)' PROVE h <= k
      <4>1. h \in 1..m
        BY <1>4
      <4>2. h + 1 \in InFlight(n)
        BY <4>1, <1>3
      <4>3. h + 1 <= k + 1
        BY <4>2, <2>1, <2>3 DEF IsLast
      <4>4. QED
        BY <4>1, <4>3
    <3>2. QED
      BY <3>1
  <2>6. IsLast(n, k)' /\ k \in 1..Len(swapq')
    BY <1>1, <2>4, <2>5 DEF IsLast
  <2>7. OnDisk'[n] = mem'[swapq'[k].frame] /\ swapq'[k] = swapq[i]
    BY <1>1, <1>2, <2>3, <2>6 DEF LastRules
  <2>8. OnDisk[n] = mem[swapq[i].frame]
    BY <1>2, <2>1 DEF LastRules
  <2>9. swapq[i].cmd = "write" /\ r.cmd \in {"read", "write"}
    BY <1>1, <2>1 DEF IsLast, InFlight, SwapRequest
  <2>10. QED
    BY <1>5, <1>6, <2>2, <2>7, <2>8, <2>9
<1>8. CASE ~\E k \in 1..m : k \in InFlight(n)'
  <2>1. InFlight(n)' = {}
    BY <1>4, <1>8
  <2>2. OnDisk'[n] = swapmem'[n]
    BY <2>1 DEF OnDisk
  <2>3. InFlight(n) \subseteq {1}
    <3>1. ASSUME NEW i \in InFlight(n), i # 1 PROVE FALSE
      <4>1. i \in 1..m + 1
        BY <1>4
      <4>2. i - 1 \in 1..m /\ (i - 1) + 1 = i
        BY <3>1, <4>1
      <4>3. PICK k \in 1..m : k + 1 = i
        BY <4>2
      <4>4. QED
        BY <1>3, <1>8, <4>3
    <3>2. QED
      BY <3>1
  <2>4. 1 \in 1..Len(swapq)
    BY <1>0
  <2>5. CASE 1 \in InFlight(n)
    <3>1. IsLast(n, 1)
      BY <2>3, <2>5 DEF IsLast
    <3>2. OnDisk[n] = mem[r.frame]
      BY <1>2, <2>4, <3>1 DEF LastRules
    <3>3. r.cmd = "write" /\ r.nr = n
      BY <2>5 DEF InFlight
    <3>4. QED
      BY <1>2, <1>6, <2>2, <3>2, <3>3 DEF TypeOK
  <2>6. CASE 1 \notin InFlight(n)
    <3>1. OnDisk[n] = swapmem[n]
      BY <2>3, <2>6, NoneDecides
    <3>2. r.cmd = "write" => r.nr # n
      BY <2>4, <2>6 DEF InFlight
    <3>3. r.cmd # "write" => swapmem' = swapmem
      BY <1>1 DEF SwapInterrupt
    <3>4. swapmem'[n] = swapmem[n]
      BY <1>2, <1>6, <3>2, <3>3 DEF TypeOK
    <3>5. QED
      BY <2>2, <3>1, <3>4
  <2>7. QED
    BY <2>5, <2>6
<1>9. QED
  BY <1>7, <1>8

(***************************************************************************)
(* What a step leaves alone.  The invariant is put together from what it   *)
(* says of one task, one frame, one page of swap space and one entry.      *)
(***************************************************************************)
Holds(p, v) == Content(pte[p][v])

FrameRight(f) ==
  /\ mem_map[f] = Cardinality(Refers(f)) + Cardinality(Keeps(f))
  /\ Keeps(f) = {} \/ (Refers(f) = {} /\ \E t \in Proc : Keeps(f) = {t})
  /\ \A e \in Refers(f) : pte[e[1]][e[2]].rw => Refers(f) = {e}
FramesRight == \A f \in Frame : FrameRight(f)

SwapRight(n) ==
  IF n \in swapfree THEN SwapUsers(n) = {} ELSE \E e \in Proc \X Page : SwapUsers(n) = {e}
CleanRight(p, v) == pte[p][v].kind = "present" /\ ~pte[p][v].dirty => mem[pte[p][v].at] = 0
NewRight(t) ==
  /\ job[t].gfp = "done" => mem[job[t].new] = 0
  /\ ~overtaken /\ job[t].gfp = "read" /\ t \notin waits => mem[job[t].new] = OnDisk[job[t].nr]
ForkCopied(t) ==
  ~overtaken /\ job[t].op = "fork" => \A v \in Page : v < job[t].v => Holds(job[t].child, v) = mine[t][v]

OthersSame(t) == \A u \in Proc \ {t} : job'[u] = job[u]
(* Only entries with a page are changed, but for the task's own and its child's. *)
Gentle(t) ==
  \A p \in Proc, v \in Page :
    pte'[p][v] = pte[p][v] \/ pte[p][v].kind = "present" \/ p = t \/ p = job[t].child

LEMMA Parts ==
  ASSUME IInv
  PROVE  /\ TypeOK /\ FramesRight /\ (\A n \in Swap : SwapRight(n))
         /\ (~overtaken => \A p \in alive, v \in Page : Holds(p, v) = mine[p][v])
         /\ (\A t \in Proc : JobFits(t)) /\ Children /\ Queued
         /\ (\A t \in Proc : ForkCopied(t)) /\ (\A p \in Proc, v \in Page : CleanRight(p, v))
         /\ (\A t \in Proc : NewRight(t))
<1>1. ASSUME NEW f \in Frame PROVE FrameRight(f)
  <2>1. ASSUME Keeps(f) # {} PROVE Refers(f) = {} /\ \E t \in Proc : Keeps(f) = {t}
    <3>1. PICK t \in Proc : t \in Keeps(f)
      BY <2>1 DEF Keeps
    <3>2. f \in {job[t].new, job[t].out} /\ f # 0
      BY <3>1, Constants DEF Keeps
    <3>3. QED
      BY <3>2, Alone
  <2>2. QED
    BY <2>1 DEF IInv, MemMapCounts, WritableIsPrivate, FrameRight
<1>2. QED
  BY <1>1 DEF IInv, FramesRight, SwapUsed, SwapRight, MemoryIsKept, Holds, ForkCopies, ForkCopied,
              CleanIsClear, CleanRight, NewIsRight, NewRight

LEMMA FramesBack == TypeOK /\ FramesRight => MemMapCounts /\ WritableIsPrivate /\ KeptAlone
<1> SUFFICES ASSUME TypeOK, FramesRight PROVE MemMapCounts /\ WritableIsPrivate /\ KeptAlone
  OBVIOUS
<1>1. MemMapCounts /\ WritableIsPrivate
  BY DEF FramesRight, FrameRight, MemMapCounts, WritableIsPrivate
<1>2. ASSUME NEW t \in Proc, NEW f \in {job[t].new, job[t].out} \ {0}
      PROVE  Refers(f) = {} /\ Keeps(f) = {t}
  <2>1. f \in Frame
    BY DEF TypeOK, Job
  <2>2. t \in Keeps(f)
    BY DEF Keeps
  <2>3. QED
    BY <2>1, <2>2 DEF FramesRight, FrameRight
<1>3. QED
  BY <1>1, <1>2 DEF KeptAlone

LEMMA Whole ==
  ASSUME TypeOK', FramesRight', \A n \in Swap : SwapRight(n)',
         MemoryIsKept', \A t \in Proc : JobFits(t)', Children', Queued',
         \A t \in Proc : ForkCopied(t)', \A p \in Proc, v \in Page : CleanRight(p, v)',
         \A t \in Proc : NewRight(t)'
  PROVE  IInv'
<1>1. MemMapCounts' /\ WritableIsPrivate' /\ KeptAlone'
  BY FramesBack, PTL
<1>2. SwapUsed'
  BY DEF SwapUsed, SwapRight
<1>3. ForkCopies'
  BY DEF ForkCopies, ForkCopied, Holds
<1>4. CleanIsClear'
  BY DEF CleanIsClear, CleanRight
<1>5. NewIsRight'
  BY DEF NewIsRight, NewRight
<1>6. QED
  BY <1>1, <1>2, <1>3, <1>4, <1>5 DEF IInv

LEMMA JobSet ==
  ASSUME IInv, NEW t \in Proc, NEW j \in Job, job' = [job EXCEPT ![t] = j]
  PROVE  job' \in [Proc -> Job] /\ job'[t] = j /\ OthersSame(t)
BY Types DEF TypeOK, OthersSame

LEMMA JobType == ASSUME IInv, NEW t \in Proc PROVE job[t] \in Job
BY Types DEF TypeOK

LEMMA KeepsAfter ==
  ASSUME NEW t \in Proc, OthersSame(t), NEW f
  PROVE  Keeps(f)' = IF job'[t].new = f \/ job'[t].out = f THEN Keeps(f) \cup {t} ELSE Keeps(f) \ {t}
BY DEF Keeps, OthersSame

LEMMA FrameSame ==
  ASSUME IInv, NEW f \in Frame, Refers(f)' = Refers(f), Keeps(f)' = Keeps(f), mem_map'[f] = mem_map[f],
         \A e \in Refers(f) : pte'[e[1]][e[2]].rw => pte[e[1]][e[2]].rw
  PROVE  FrameRight(f)'
<1>1. FrameRight(f)
  BY Parts DEF FramesRight
<1>2. QED
  BY <1>1 DEF FrameRight

LEMMA FramesSame ==
  ASSUME IInv, UNCHANGED <<pte, mem_map>>, \A u \in Proc : job'[u].new = job[u].new /\ job'[u].out = job[u].out
  PROVE  FramesRight'
<1>1. ASSUME NEW f \in Frame PROVE FrameRight(f)'
  <2>1. Refers(f)' = Refers(f) /\ Keeps(f)' = Keeps(f)
    BY DEF Refers, Keeps
  <2>2. QED
    BY <2>1, FrameSame
<1>2. QED
  BY <1>1 DEF FramesRight

LEMMA SwapSame ==
  ASSUME IInv, UNCHANGED swapfree, NEW n \in Swap, SwapUsers(n)' = SwapUsers(n)
  PROVE  SwapRight(n)'
<1>1. SwapRight(n)
  BY Parts
<1>2. QED
  BY <1>1 DEF SwapRight

LEMMA SwapsSame ==
  ASSUME IInv, UNCHANGED <<pte, swapfree>>
  PROVE  \A n \in Swap : SwapRight(n)'
<1>1. \A n \in Swap : SwapUsers(n)' = SwapUsers(n)
  BY DEF SwapUsers
<1>2. QED
  BY <1>1, SwapSame

LEMMA CellSame ==
  ASSUME IInv, NEW p \in Proc, NEW v \in Page, pte'[p][v] = pte[p][v],
         pte[p][v].kind = "present" => mem'[pte[p][v].at] = mem[pte[p][v].at],
         pte[p][v].kind = "swap" => OnDisk'[pte[p][v].at] = OnDisk[pte[p][v].at]
  PROVE  Holds(p, v)' = Holds(p, v) /\ CleanRight(p, v)'
<1>1. CleanRight(p, v)
  BY Parts
<1>2. CleanRight(p, v)'
  BY <1>1 DEF CleanRight
<1>3. pte[p][v] \in Entry
  BY EntryType
<1>4. pte[p][v].kind \in {"none", "present", "swap"}
  BY <1>3, EntryCases
<1>5. QED
  BY <1>2, <1>4 DEF Holds, Content

LEMMA CellsSame ==
  ASSUME IInv, UNCHANGED <<pte, mem>>, \A n \in Swap : OnDisk'[n] = OnDisk[n]
  PROVE  \A p \in Proc, v \in Page : Holds(p, v)' = Holds(p, v) /\ CleanRight(p, v)'
<1> SUFFICES ASSUME NEW p \in Proc, NEW v \in Page PROVE Holds(p, v)' = Holds(p, v) /\ CleanRight(p, v)'
  OBVIOUS
<1>1. pte[p][v].kind = "swap" => pte[p][v].at \in Swap
  BY EntryType, EntryCases, EmptyEntry
<1>2. QED
  BY <1>1, CellSame

LEMMA MemoryStays ==
  ASSUME IInv, (overtaken => overtaken'), UNCHANGED mine, alive' \subseteq alive,
         ~overtaken' => \A p \in alive', v \in Page : Holds(p, v)' = Holds(p, v)
  PROVE  MemoryIsKept'
<1> SUFFICES ASSUME ~overtaken' PROVE \A p \in alive', v \in Page : Holds(p, v)' = mine'[p][v]
  BY DEF MemoryIsKept, Holds
<1>1. \A p \in alive, v \in Page : Holds(p, v) = mine[p][v]
  BY Parts
<1>2. \A p \in alive', v \in Page : Holds(p, v)' = mine'[p][v]
  BY <1>1
<1>3. QED
  BY <1>2

LEMMA CopiesStay ==
  ASSUME IInv, (overtaken => overtaken'), NEW t \in Proc, OthersSame(t),
         \A u \in Proc \ {t} : mine'[u] = mine[u],
         ~overtaken' =>
           \A p \in Proc \ {t}, v \in Page : p # job[t].child => Holds(p, v)' = Holds(p, v)
  PROVE  \A u \in Proc \ {t} : (t \in alive => ForkCopied(u)')
<1> SUFFICES ASSUME NEW u \in Proc \ {t}, t \in alive, ~overtaken', job[u].op = "fork", NEW v \in Page, v < job[u].v
             PROVE  Holds(job[u].child, v)' = mine'[u][v]
  BY DEF ForkCopied, OthersSame
<1>1. Holds(job[u].child, v) = mine[u][v]
  BY Parts DEF ForkCopied
<1>2. PICK c \in Proc : c = job[u].child /\ c # t
  BY Fits DEF JobFits
<1>3. c # job[t].child
  BY <1>2, Constants DEF IInv, Children
<1>4. job'[u].child = c
  BY <1>2 DEF OthersSame
<1>5. Holds(c, v)' = Holds(c, v)
  BY <1>2, <1>3
<1>6. QED
  BY <1>1, <1>2, <1>4, <1>5

LEMMA IsRunning ==
  ASSUME IInv, NEW t, Runs(t)
  PROVE  t \in Proc /\ t \in alive /\ t \notin waits
BY Types DEF Runs, TypeOK

LEMMA OthersFit ==
  ASSUME IInv, NEW t \in alive, OthersSame(t), Gentle(t),
         alive \ {t} \subseteq alive', alive' \subseteq alive \cup {job[t].child}
  PROVE  \A u \in Proc \ {t} : JobFits(u)'
<1> SUFFICES ASSUME NEW u \in Proc \ {t} PROVE JobFits(u)'
  OBVIOUS
<1>1. JobFits(u) /\ job'[u] = job[u] /\ t \in Proc
  BY Fits, Types DEF OthersSame, TypeOK
<1>2. PICK j \in Job : j = job[u] /\ j = job'[u]
  BY <1>1, JobType
<1>3. u \notin alive' => u \notin alive
  OBVIOUS
<1>4. ASSUME j.op # "user" PROVE u # job[t].child
  <2>1. u \in alive
    BY <1>1, <1>2, <1>4 DEF JobFits, User
  <2>2. job[t].child \notin alive
    BY Fits, <1>1, Types, Constants DEF JobFits, TypeOK
  <2>3. QED
    BY <2>1, <2>2
<1>5. ASSUME NEW v \in Page, pte[u][v].kind # "present", j.op # "user" PROVE pte'[u][v] = pte[u][v]
  BY <1>4, <1>5 DEF Gentle
<1>6. ASSUME j.op = "fork"
      PROVE  /\ j.child \in Proc \ alive'
             /\ \A v \in Page : v >= j.v => pte'[j.child][v] = Empty
  <2>1. j.child \in Proc \ alive /\ \A v \in Page : v >= j.v => pte[j.child][v] = Empty
    BY <1>1, <1>2, <1>6 DEF JobFits
  <2>2. j.child # job[t].child
    BY <1>1, <1>2, <2>1, Constants DEF IInv, Children
  <2>3. QED
    BY <2>1, <2>2, EmptyEntry DEF Gentle
<1>7. ASSUME j.op = "swap_in" \/ (j.op = "fork" /\ j.gfp # "no")
      PROVE  j.nr \in Swap /\ pte'[u][j.v] = Swapped(j.nr)
  <2>1. j.nr \in Swap /\ pte[u][j.v] = Swapped(j.nr) /\ j.v \in Page /\ j.op # "user"
    BY <1>1, <1>2, <1>7 DEF JobFits
  <2>2. QED
    BY <2>1, <1>5, SwappedEntry
<1>8. ASSUME j.op \in {"get_empty_page", "do_no_page"}
      PROVE  pte'[u][j.v] = Empty
  <2>1. pte[u][j.v] = Empty /\ j.v \in Page /\ j.op # "user"
    BY <1>1, <1>2, <1>8 DEF JobFits
  <2>2. QED
    BY <2>1, <1>5, EmptyEntry
<1>9. QED
  BY <1>1, <1>2, <1>3, <1>6, <1>7, <1>8 DEF JobFits

LEMMA ChildrenKept ==
  ASSUME IInv, NEW t \in alive, OthersSame(t), Gentle(t), alive' = alive, job'[t].child = job[t].child
  PROVE  Children'
<1>1. \A u \in Proc : job'[u].child = job[u].child
  BY DEF OthersSame
<1>2. \A u, w \in Proc : job'[u].child = job'[w].child /\ job'[u].child # NoProc => u = w
  BY <1>1 DEF IInv, Children
<1>3. ASSUME NEW p \in Proc \ alive', \A u \in Proc : job'[u].child # p, NEW v \in Page
      PROVE  pte'[p][v] = Empty
  <2>1. pte[p][v] = Empty
    BY <1>1, <1>3 DEF IInv, Children
  <2>2. p # t /\ p # job[t].child
    BY <1>1, <1>3, Types DEF TypeOK
  <2>3. QED
    BY <2>1, <2>2, EmptyEntry DEF Gentle
<1>4. QED
  BY <1>2, <1>3 DEF Children

LEMMA QueueKept ==
  ASSUME IInv, (overtaken => overtaken'), NEW t \in Proc \ waits, OthersSame(t), UNCHANGED <<swapq, waits>>
  PROVE  Queued'
<1>1. \A i \in 1..Len(swapq) : swapq[i].who \in Proc /\ swapq[i].who \in waits
  BY Types, QueueType DEF IInv, Queued, SwapRequest
<1>2. \A i \in 1..Len(swapq) : job'[swapq[i].who] = job[swapq[i].who]
  BY <1>1 DEF OthersSame
<1>3. Queued
  BY DEF IInv
<1>4. QED
  BY <1>2, <1>3 DEF Queued

LEMMA NewKept ==
  ASSUME IInv, (overtaken => overtaken'), NEW t \in Proc, OthersSame(t), waits \ {t} \subseteq waits',
         \A u \in Proc \ {t} : job[u].new # 0 => mem'[job[u].new] = mem[job[u].new],
         \A u \in Proc \ {t} : job[u].gfp = "read" => OnDisk'[job[u].nr] = OnDisk[job[u].nr]
  PROVE  \A u \in Proc \ {t} : NewRight(u)'
<1> SUFFICES ASSUME NEW u \in Proc \ {t} PROVE NewRight(u)'
  OBVIOUS
<1>1. NewRight(u) /\ JobFits(u)
  BY Parts
<1>2. job[u].gfp \in {"done", "read"} => job[u].new # 0
  BY <1>1 DEF JobFits
<1>3. QED
  BY <1>1, <1>2 DEF NewRight, OthersSame

LEMMA ReadsSwap ==
  ASSUME IInv, NEW u \in Proc, job[u].gfp = "read"
  PROVE  job[u].nr \in Swap /\ pte[u][job[u].v] = Swapped(job[u].nr) /\ job[u].v \in Page /\ u \in alive
<1>1. JobFits(u)
  BY Fits
<1>2. job[u] \in Job
  BY JobType
<1>3. User.gfp = "no"
  BY DEF User
<1>4. QED
  BY <1>1, <1>2, <1>3 DEF JobFits

(* A task that only goes on: tables, memory and disk as they were. *)
LEMMA OnlyTheJob ==
  ASSUME IInv, NEW t \in alive \ waits, NEW j \in Job, job' = [job EXCEPT ![t] = j],
         UNCHANGED <<alive, pte, mem_map, swapfree, mem, swapmem, mine, swapq, waits, version, overtaken>>,
         current' \in Proc \cup {NoProc},
         j.new = job[t].new, j.out = job[t].out
  PROVE  /\ TypeOK' /\ FramesRight' /\ (\A n \in Swap : SwapRight(n)')
         /\ MemoryIsKept' /\ (\A u \in Proc \ {t} : JobFits(u)') /\ Queued'
         /\ (\A p \in Proc, v \in Page : CleanRight(p, v)')
         /\ (\A u \in Proc \ {t} : ForkCopied(u)' /\ NewRight(u)')
         /\ (j.child = job[t].child => Children')
         /\ (j.child = job[t].child /\ j.op = job[t].op /\ j.v = job[t].v => ForkCopied(t)')
         /\ (j.gfp \notin {"done", "read"} => NewRight(t)')
         /\ job'[t] = j /\ OthersSame(t)
<1>1. t \in Proc /\ job' \in [Proc -> Job] /\ job'[t] = j /\ OthersSame(t)
  BY JobSet, Types DEF TypeOK
<1>2. TypeOK'
  BY <1>1, Types DEF TypeOK
<1>3. OnDisk' = OnDisk
  BY DiskSame
<1>4. Gentle(t)
  BY DEF Gentle
<1>5. FramesRight'
  <2>1. \A u \in Proc : job'[u].new = job[u].new /\ job'[u].out = job[u].out
    BY <1>1 DEF OthersSame
  <2>2. QED
    BY <2>1, FramesSame
<1>6. \A n \in Swap : SwapRight(n)'
  BY SwapsSame
<1>7. \A p \in Proc, v \in Page : Holds(p, v)' = Holds(p, v) /\ CleanRight(p, v)'
  BY <1>3, CellsSame
<1>8. MemoryIsKept'
  BY <1>2, <1>7, MemoryStays DEF TypeOK
<1>9. \A u \in Proc \ {t} : JobFits(u)'
  BY <1>1, <1>4, OthersFit
<1>10. Queued'
  BY <1>1, QueueKept
<1>11. \A u \in Proc \ {t} : ForkCopied(u)'
  BY <1>1, <1>7, CopiesStay
<1>12. \A u \in Proc \ {t} : NewRight(u)'
  BY <1>1, <1>3, NewKept
<1>13. j.child = job[t].child => Children'
  BY <1>1, <1>4, ChildrenKept
<1>14. j.child = job[t].child /\ j.op = job[t].op /\ j.v = job[t].v => ForkCopied(t)'
  <2> SUFFICES ASSUME j.child = job[t].child, j.op = job[t].op, j.v = job[t].v, j.op = "fork",
                      ~overtaken', NEW v \in Page, v < j.v
               PROVE  Holds(job[t].child, v)' = mine'[t][v]
    BY <1>1 DEF ForkCopied
  <2>1. PICK c \in Proc : c = job[t].child /\ c = job'[t].child
    BY <1>1, Fits DEF JobFits
  <2>2. Holds(c, v) = mine[t][v]
    BY <1>1, <2>1, Parts DEF ForkCopied
  <2>3. QED
    BY <1>7, <2>1, <2>2
<1>15. j.gfp \notin {"done", "read"} => NewRight(t)'
  BY <1>1 DEF NewRight
<1>16. QED
  BY <1>1, <1>2, <1>5, <1>6, <1>7, <1>8, <1>9, <1>10, <1>11, <1>12, <1>13, <1>14, <1>15

(***************************************************************************)
(* The operations, one by one: those that only move the job on.            *)
(***************************************************************************)
LEMMA UserJob ==
  /\ User \in Job /\ User.op = "user" /\ User.v = 0 /\ User.gfp = "no" /\ User.new = 0
  /\ User.out = 0 /\ User.nr = 0 /\ User.child = NoProc
<1>1. 0 \in 0..NPages + 1
  BY Constants
<1>2. QED
  BY <1>1 DEF User, Job

LEMMA Begun ==
  ASSUME IInv, NEW t \in alive \ waits, job[t] = User, NEW v \in Page,
         NEW o \in {"un_wp_page", "swap_in", "get_empty_page", "do_no_page"}, Begin(t, o, v),
         UNCHANGED <<alive, pte, mem_map, swapfree, mem, swapmem, mine, swapq, waits, version, overtaken>>,
         o = "swap_in" => pte[t][v].kind = "swap",
         o \in {"get_empty_page", "do_no_page"} => pte[t][v].kind = "none"
  PROVE  IInv'
<1>0. t \in Proc /\ v \in 0..NPages + 1
  BY Types, Constants DEF TypeOK, Page
<1>1. pte[t][v] \in Entry
  BY <1>0, EntryType
<1>2. PICK n \in Swap \cup {0} : n = (IF o = "swap_in" THEN pte[t][v].at ELSE 0)
  BY <1>1, EntryCases, EmptyEntry
<1>3. PICK j : j = [User EXCEPT !.op = o, !.v = v, !.gfp = "scan", !.nr = n]
  OBVIOUS
<1>4. /\ j \in Job /\ j.op = o /\ j.v = v /\ j.gfp = "scan" /\ j.nr = n
      /\ j.new = 0 /\ j.out = 0 /\ j.child = NoProc
  BY <1>0, <1>3, UserJob DEF Job
<1>5. job' = [job EXCEPT ![t] = j] /\ current' \in Proc \cup {NoProc}
  BY <1>0, <1>2, <1>3 DEF Begin
<1>6. /\ TypeOK' /\ FramesRight' /\ (\A m \in Swap : SwapRight(m)')
      /\ MemoryIsKept' /\ (\A u \in Proc \ {t} : JobFits(u)') /\ Queued'
      /\ (\A p \in Proc, w \in Page : CleanRight(p, w)')
      /\ (\A u \in Proc \ {t} : ForkCopied(u)' /\ NewRight(u)')
      /\ Children' /\ NewRight(t)' /\ job'[t] = j
  <2>1. j.new = job[t].new /\ j.out = job[t].out /\ j.child = job[t].child /\ j.gfp \notin {"done", "read"}
    BY <1>4, UserJob
  <2>2. QED
    BY <1>4, <1>5, <2>1, OnlyTheJob
<1>7. JobFits(t)'
  <2>1. o = "swap_in" => n \in Swap /\ pte'[t][v] = Swapped(n)
    BY <1>1, <1>2, EntryCases, EmptyEntry
  <2>2. o \in {"get_empty_page", "do_no_page"} => pte'[t][v] = Empty
    BY <1>1, EntryCases
  <2>3. QED
    BY <1>4, <1>6, <2>1, <2>2 DEF JobFits
<1>8. ForkCopied(t)'
  BY <1>4, <1>6 DEF ForkCopied
<1>9. QED
  BY <1>6, <1>7, <1>8, Whole

LEMMA DoNoPageFault ==
  ASSUME IInv, NEW t \in Proc, NEW v \in Page, NoPageFault(t, v)
  PROVE  IInv'
<1>1. t \in alive \ waits /\ job[t] = User
  BY IsRunning DEF NoPageFault, InUser
<1>2. UNCHANGED <<alive, pte, mem_map, swapfree, mem, swapmem, mine, swapq, waits, version, overtaken>>
  BY DEF NoPageFault
<1>3. CASE pte[t][v].kind = "swap" /\ Begin(t, "swap_in", v)
  BY <1>1, <1>2, <1>3, Begun
<1>4. CASE pte[t][v].kind = "none" /\ Begin(t, "get_empty_page", v)
  BY <1>1, <1>2, <1>4, Begun
<1>5. CASE pte[t][v].kind = "none" /\ Begin(t, "do_no_page", v)
  BY <1>1, <1>2, <1>5, Begun
<1>6. QED
  BY <1>3, <1>4, <1>5 DEF NoPageFault

LEMMA GfpMoves ==
  ASSUME IInv, NEW t \in alive \ waits, NEW j \in Job, job' = [job EXCEPT ![t] = j],
         UNCHANGED <<alive, pte, mem_map, swapfree, mem, swapmem, mine, swapq, waits, version, overtaken>>,
         current' \in Proc \cup {NoProc},
         j = job[t] \/ (/\ job[t].gfp \in {"scan", "swap_out"} /\ j.gfp \in {"swap_out", "failed"}
                        /\ j.op = job[t].op /\ j.v = job[t].v /\ j.new = job[t].new
                        /\ j.out = job[t].out /\ j.nr = job[t].nr /\ j.child = job[t].child)
  PROVE  IInv'
<1>0. t \in Proc
  BY Types DEF TypeOK
<1>1. /\ TypeOK' /\ FramesRight' /\ (\A n \in Swap : SwapRight(n)')
      /\ MemoryIsKept' /\ (\A u \in Proc \ {t} : JobFits(u)') /\ Queued'
      /\ (\A p \in Proc, v \in Page : CleanRight(p, v)')
      /\ (\A u \in Proc \ {t} : ForkCopied(u)' /\ NewRight(u)')
      /\ Children' /\ ForkCopied(t)' /\ job'[t] = j
      /\ (j.gfp \notin {"done", "read"} => NewRight(t)')
  BY OnlyTheJob
<1>2. NewRight(t)'
  <2>1. CASE j = job[t]
    <3>1. OnDisk' = OnDisk
      BY DiskSame
    <3>2. NewRight(t)
      BY <1>0, Parts
    <3>3. QED
      BY <1>1, <2>1, <3>1, <3>2 DEF NewRight
  <2>2. CASE j # job[t]
    BY <1>1, <2>2
  <2>3. QED
    BY <2>1, <2>2
<1>3. JobFits(t)'
  <2>1. JobFits(t) /\ job[t] \in Job
    BY <1>0, Fits, JobType
  <2>2. job[t].gfp \in {"scan", "swap_out"} => job[t].op # "user"
    BY <2>1, UserJob DEF JobFits
  <2>3. QED
    BY <1>1, <2>1, <2>2 DEF JobFits
<1>4. QED
  BY <1>1, <1>2, <1>3, Whole

LEMMA DoOutOfMemory ==
  ASSUME IInv, NEW t \in Proc, OutOfMemory(t)
  PROVE  IInv'
<1>1. t \in alive \ waits /\ job[t].gfp = "swap_out"
  BY IsRunning DEF OutOfMemory, Gfp
<1>2. PICK r \in Job : r = job[t]
  BY JobType
<1>3. PICK j : j = [r EXCEPT !.gfp = "failed"]
  OBVIOUS
<1>4. /\ j \in Job /\ j.gfp = "failed" /\ j.op = r.op /\ j.v = r.v /\ j.new = r.new
      /\ j.out = r.out /\ j.nr = r.nr /\ j.child = r.child
  BY <1>3 DEF Job
<1>5. job' = [job EXCEPT ![t] = j] /\ current' \in Proc \cup {NoProc}
  BY <1>2, <1>3 DEF OutOfMemory
<1>6. QED
  BY <1>1, <1>2, <1>4, <1>5, GfpMoves DEF OutOfMemory

LEMMA DoBreadPage ==
  ASSUME IInv, NEW t \in Proc, BreadPage(t)
  PROVE  IInv'
<1>1. t \in alive \ waits /\ job[t] \in Job
  BY IsRunning, JobType DEF BreadPage, Gfp
<1>2. job' = [job EXCEPT ![t] = job[t]] /\ current' \in Proc \cup {NoProc}
  BY Types DEF BreadPage, TypeOK
<1>3. QED
  BY <1>1, <1>2, GfpMoves DEF BreadPage

LEMMA DoFork ==
  ASSUME IInv, NEW t \in Proc, NEW c \in Proc, Fork(t, c)
  PROVE  IInv'
<1>1. /\ t \in alive \ waits /\ job[t] = User /\ c \notin alive /\ 1 \in 0..NPages + 1
      /\ \A p \in Proc : job[p].child # c
  BY IsRunning, Constants DEF Fork, InUser
<1>2. PICK j : j = [User EXCEPT !.op = "fork", !.v = 1, !.child = c]
  OBVIOUS
<1>3. /\ j \in Job /\ j.op = "fork" /\ j.v = 1 /\ j.gfp = "no" /\ j.nr = 0
      /\ j.new = 0 /\ j.out = 0 /\ j.child = c
  BY <1>1, <1>2, UserJob DEF Job
<1>4. job' = [job EXCEPT ![t] = j] /\ current' \in Proc \cup {NoProc}
  BY <1>2 DEF Fork
<1>5. UNCHANGED <<alive, pte, mem_map, swapfree, mem, swapmem, mine, swapq, waits, version, overtaken>>
  BY DEF Fork
<1>6. /\ TypeOK' /\ FramesRight' /\ (\A m \in Swap : SwapRight(m)')
      /\ MemoryIsKept' /\ (\A u \in Proc \ {t} : JobFits(u)') /\ Queued'
      /\ (\A p \in Proc, w \in Page : CleanRight(p, w)')
      /\ (\A u \in Proc \ {t} : ForkCopied(u)' /\ NewRight(u)')
      /\ NewRight(t)' /\ job'[t] = j /\ OthersSame(t)
  BY <1>1, <1>3, <1>4, <1>5, UserJob, OnlyTheJob
<1>7. JobFits(t)'
  <2>1. \A v \in Page : pte'[c][v] = Empty
    BY <1>1, <1>5 DEF IInv, Children
  <2>2. QED
    BY <1>1, <1>3, <1>5, <1>6, <2>1 DEF JobFits
<1>8. ForkCopied(t)'
  <2>1. \A v \in Page : ~(v < 1)
    BY DEF Page
  <2>2. QED
    BY <1>3, <1>6, <2>1 DEF ForkCopied
<1>9. Children'
  <2>1. \A u, w \in Proc : job'[u].child = job'[w].child /\ job'[u].child # NoProc => u = w
    BY <1>1, <1>3, <1>6 DEF OthersSame, IInv, Children
  <2>2. ASSUME NEW p \in Proc \ alive', \A u \in Proc : job'[u].child # p, NEW v \in Page
        PROVE  pte'[p][v] = Empty
    <3>1. \A u \in Proc : job[u].child # p
      BY <1>1, <1>6, <2>2, UserJob, Constants DEF OthersSame
    <3>2. QED
      BY <1>5, <3>1 DEF IInv, Children
  <2>3. QED
    BY <2>1, <2>2 DEF Children
<1>10. QED
  BY <1>6, <1>7, <1>8, <1>9, Whole

LEMMA DoForked ==
  ASSUME IInv, NEW t \in Proc, Forked(t)
  PROVE  IInv'
<1>1. t \in alive \ waits /\ job[t].op = "fork" /\ job[t].v > NPages
  BY IsRunning DEF Forked
<1>2. PICK c \in Proc : c = job[t].child
  BY <1>1, Fits DEF JobFits
<1>3. job[t] \in Job /\ JobFits(t) /\ c \notin alive
  BY <1>1, <1>2, JobType, Fits DEF JobFits
<1>4. \A v \in Page : v < job[t].v
  BY <1>1, <1>3, Constants DEF Page, Job
<1>5. job[t].new = 0 /\ job[t].out = 0
  <2>1. job[t].v \notin Page
    BY <1>1, <1>3, Constants DEF Page, Job
  <2>2. job[t].gfp = "no"
    BY <1>1, <1>3, <2>1 DEF JobFits
  <2>3. QED
    BY <1>3, <2>2 DEF JobFits
<1>6. /\ job' = [job EXCEPT ![t] = User] /\ alive' = alive \cup {c}
      /\ mine' = [mine EXCEPT ![c] = mine[t]] /\ current' = NoProc
      /\ UNCHANGED <<pte, mem_map, swapfree, mem, swapmem, swapq, waits, version, overtaken>>
  BY <1>2 DEF Forked, Return
<1>7. job' \in [Proc -> Job] /\ job'[t] = User /\ OthersSame(t)
  BY <1>6, UserJob, JobSet
<1>8. TypeOK'
  BY <1>6, <1>7, Types DEF TypeOK
<1>9. FramesRight'
  <2>1. \A u \in Proc : job'[u].new = job[u].new /\ job'[u].out = job[u].out
    BY <1>5, <1>7, UserJob DEF OthersSame
  <2>2. QED
    BY <1>6, <2>1, FramesSame
<1>10. \A n \in Swap : SwapRight(n)'
  BY <1>6, SwapsSame
<1>11. OnDisk' = OnDisk
  BY <1>6, DiskSame
<1>12. \A p \in Proc, v \in Page : Holds(p, v)' = Holds(p, v) /\ CleanRight(p, v)'
  BY <1>6, <1>11, CellsSame
<1>13. mine'[c] = mine[t] /\ \A u \in Proc \ {c} : mine'[u] = mine[u]
  BY <1>6, Types DEF TypeOK
<1>14. MemoryIsKept'
  <2>1. ASSUME ~overtaken, NEW p \in alive', NEW v \in Page PROVE Holds(p, v)' = mine'[p][v]
    <3>1. CASE p = c
      <4>1. Holds(c, v) = mine[t][v]
        BY <1>1, <1>2, <1>4, <2>1, Parts DEF ForkCopied
      <4>2. QED
        BY <1>12, <1>13, <3>1, <4>1
    <3>2. CASE p # c
      <4>1. p \in alive /\ p \in Proc
        BY <1>6, <3>2, Types DEF TypeOK
      <4>2. Holds(p, v) = mine[p][v]
        BY <2>1, <4>1, Parts
      <4>3. QED
        BY <1>12, <1>13, <3>2, <4>1, <4>2
    <3>3. QED
      BY <3>1, <3>2
  <2>2. QED
    BY <1>6, <2>1 DEF MemoryIsKept, Holds
<1>15. Gentle(t)
  BY <1>6 DEF Gentle
<1>16. \A u \in Proc \ {t} : JobFits(u)'
  BY <1>1, <1>2, <1>6, <1>7, <1>15, OthersFit
<1>17. JobFits(t)'
  BY <1>7, UserJob DEF JobFits
<1>18. Queued'
  BY <1>1, <1>6, <1>7, QueueKept
<1>19. Children'
  <2>1. \A u, w \in Proc : job'[u].child = job'[w].child /\ job'[u].child # NoProc => u = w
    BY <1>7, UserJob DEF OthersSame, IInv, Children
  <2>2. ASSUME NEW p \in Proc \ alive', \A u \in Proc : job'[u].child # p, NEW v \in Page
        PROVE  pte'[p][v] = Empty
    <3>1. \A u \in Proc : job[u].child # p
      BY <1>2, <1>6, <1>7, <2>2 DEF OthersSame
    <3>2. QED
      BY <1>6, <3>1 DEF IInv, Children
  <2>3. QED
    BY <2>1, <2>2 DEF Children
<1>20. \A u \in Proc : ForkCopied(u)'
  <2>1. ASSUME NEW u \in Proc \ {t} PROVE ForkCopied(u)'
    <3>1. CASE u = c
      <4>1. job[u] = User
        BY <1>3, <3>1, Fits DEF JobFits
      <4>2. QED
        BY <1>7, <4>1, UserJob DEF ForkCopied, OthersSame
    <3>2. CASE u # c
      <4> SUFFICES ASSUME ~overtaken, job[u].op = "fork", NEW v \in Page, v < job[u].v
                   PROVE  Holds(job[u].child, v)' = mine'[u][v]
        BY <1>6, <1>7 DEF ForkCopied, OthersSame
      <4>1. PICK d \in Proc : d = job[u].child /\ d = job'[u].child
        BY <1>7, Fits DEF JobFits, OthersSame
      <4>2. Holds(d, v) = mine[u][v]
        BY <4>1, Parts DEF ForkCopied
      <4>3. QED
        BY <1>12, <1>13, <3>2, <4>1, <4>2
    <3>3. QED
      BY <3>1, <3>2
  <2>2. ForkCopied(t)'
    BY <1>7, UserJob DEF ForkCopied
  <2>3. QED
    BY <2>1, <2>2
<1>21. \A u \in Proc : NewRight(u)'
  <2>1. \A u \in Proc \ {t} : NewRight(u)'
    BY <1>6, <1>7, <1>11, NewKept
  <2>2. NewRight(t)'
    BY <1>7, UserJob DEF NewRight
  <2>3. QED
    BY <2>1, <2>2
<1>22. QED
  BY <1>8, <1>9, <1>10, <1>12, <1>14, <1>16, <1>17, <1>18, <1>19, <1>20, <1>21, Whole

(***************************************************************************)
(* Flags of entries.                                                       *)
(***************************************************************************)
LEMMA IsSwapped ==
  ASSUME NEW e \in Entry, NEW n \in Swap
  PROVE  e = Swapped(n) <=> e.kind = "swap" /\ e.at = n
<1>1. e = Swapped(n) => e.kind = "swap" /\ e.at = n
  BY SwappedEntry
<1>2. e.kind = "swap" /\ e.at = n => e = Swapped(n)
  BY EntryCases, EmptyEntry
<1>3. QED
  BY <1>1, <1>2

LEMMA FlagsOnly ==
  ASSUME IInv, pte' \in [Proc -> [Page -> Entry]],
         \A p \in Proc, v \in Page : pte'[p][v].kind = pte[p][v].kind /\ pte'[p][v].at = pte[p][v].at
  PROVE  /\ \A f \in Frame : Refers(f)' = Refers(f)
         /\ \A n \in Swap : SwapUsers(n)' = SwapUsers(n)
<1>1. \A f \in Frame : Refers(f)' = Refers(f)
  BY DEF Refers
<1>2. ASSUME NEW n \in Swap, NEW p \in Proc, NEW v \in Page
      PROVE  <<p, v>> \in SwapUsers(n)' <=> <<p, v>> \in SwapUsers(n)
  <2>1. pte'[p][v] \in Entry /\ pte[p][v] \in Entry
    BY EntryType
  <2>2. pte'[p][v] = Swapped(n) <=> pte[p][v] = Swapped(n)
    BY <2>1, IsSwapped
  <2>3. QED
    BY <2>2 DEF SwapUsers, Swapped
<1>3. ASSUME NEW n \in Swap PROVE SwapUsers(n)' = SwapUsers(n)
  <2>1. \A x \in SwapUsers(n) \cup SwapUsers(n)' : \E p \in Proc, v \in Page : x = <<p, v>>
    BY DEF SwapUsers
  <2>2. ASSUME NEW x PROVE x \in SwapUsers(n)' <=> x \in SwapUsers(n)
    BY <1>2, <2>1
  <2>3. QED
    BY <2>2
<1>4. QED
  BY <1>1, <1>3

LEMMA NotKept ==
  ASSUME IInv, NEW f \in Frame, NEW x \in Refers(f)
  PROVE  \A u \in Proc : job[u].new # f /\ job[u].out # f
BY Alone, Constants

LEMMA NotRead ==
  ASSUME IInv, NEW f \in Frame, \A u \in Proc : job[u].new # f /\ job[u].out # f
  PROVE  Keeps(f) = {}
BY DEF Keeps

(* A task at work in user mode, on its own entries and on entries with a page. *)
LEMMA InUserMode ==
  ASSUME IInv, NEW t \in alive \ waits, job[t] = User, Gentle(t),
         UNCHANGED <<alive, job, swapq, waits, overtaken>>
  PROVE  /\ t \in Proc /\ OthersSame(t) /\ (\A u \in Proc : JobFits(u)') /\ Children' /\ Queued'
<1>1. t \in Proc /\ OthersSame(t)
  BY Types DEF OthersSame, TypeOK
<1>2. \A u \in Proc \ {t} : JobFits(u)'
  BY <1>1, OthersFit
<1>3. JobFits(t)'
  BY UserJob DEF JobFits
<1>4. Children'
  BY <1>1, ChildrenKept
<1>5. Queued'
  BY <1>1, QueueKept
<1>6. QED
  BY <1>1, <1>2, <1>3, <1>4, <1>5

LEMMA DoUserWrite ==
  ASSUME IInv, NEW t \in Proc, NEW v \in Page, UserWrite(t, v)
  PROVE  IInv'
<1>1. t \in alive \ waits /\ job[t] = User
  BY IsRunning DEF UserWrite, InUser
<1>2. PICK e \in Entry : e = pte[t][v]
  BY EntryType
<1>3. /\ e.kind = "present" /\ e.rw /\ version < MaxWrites /\ version' = version + 1
      /\ mem' = [mem EXCEPT ![e.at] = version'] /\ mine' = [mine EXCEPT ![t][v] = version']
      /\ SetEntry(t, v, [e EXCEPT !.dirty = TRUE])
      /\ UNCHANGED <<alive, mem_map, swapfree, swapmem, swapq, job, waits, current, overtaken>>
  BY <1>2 DEF UserWrite
<1>4. PICK f \in Frame : f = e.at
  BY <1>3, EntryCases, EmptyEntry
<1>5. PICK d \in Entry : /\ d = [e EXCEPT !.dirty = TRUE] /\ d.kind = "present" /\ d.at = f
                         /\ d.rw = e.rw /\ d.dirty
  BY <1>3, <1>4, FlagsChanged
<1>6. /\ pte' \in [Proc -> [Page -> Entry]] /\ pte'[t][v] = d
      /\ \A q \in Proc, w \in Page : q # t \/ w # v => pte'[q][w] = pte[q][w]
  BY <1>3, <1>5, OneSet
<1>7. version' \in 0..MaxWrites /\ mem' \in [Frame -> 0..MaxWrites] /\ mine' \in [Proc -> [Page -> 0..MaxWrites]]
  <2>1. version' \in 0..MaxWrites
    BY <1>3, Types, Constants DEF TypeOK
  <2>2. QED
    BY <1>3, <1>4, <2>1, Types DEF TypeOK
<1>8. TypeOK'
  BY <1>3, <1>6, <1>7, Types DEF TypeOK
<1>9. \A p \in Proc, w \in Page : pte'[p][w].kind = pte[p][w].kind /\ pte'[p][w].at = pte[p][w].at
  BY <1>2, <1>3, <1>4, <1>5, <1>6
<1>10. \A p \in Proc, w \in Page : pte'[p][w].rw = pte[p][w].rw
  BY <1>2, <1>5, <1>6
<1>11. (\A g \in Frame : Refers(g)' = Refers(g)) /\ (\A n \in Swap : SwapUsers(n)' = SwapUsers(n))
  BY <1>6, <1>9, FlagsOnly
<1>12. FramesRight'
  <2>1. ASSUME NEW g \in Frame PROVE FrameRight(g)'
    <3>1. Keeps(g)' = Keeps(g)
      BY <1>3 DEF Keeps
    <3>2. \A x \in Refers(g) : pte'[x[1]][x[2]].rw => pte[x[1]][x[2]].rw
      BY <1>10 DEF Refers
    <3>3. QED
      BY <1>3, <1>11, <3>1, <3>2, FrameSame
  <2>2. QED
    BY <2>1 DEF FramesRight
<1>13. \A n \in Swap : SwapRight(n)'
  BY <1>3, <1>11, SwapSame
<1>14. Gentle(t)
  BY <1>6 DEF Gentle
<1>15. OthersSame(t) /\ (\A u \in Proc : JobFits(u)') /\ Children' /\ Queued'
  BY <1>1, <1>3, <1>14, InUserMode
<1>16. <<t, v>> \in Refers(f)
  BY <1>2, <1>3, <1>4, RefersTo
<1>17. Refers(f) = {<<t, v>>}
  BY <1>2, <1>3, <1>16 DEF IInv, WritableIsPrivate
<1>18. \A u \in Proc : job[u].new # f /\ job[u].out # f
  BY <1>16, NotKept
<1>19. mem'[f] = version' /\ \A g \in Frame \ {f} : mem'[g] = mem[g]
  BY <1>3, <1>4, Types DEF TypeOK
<1>20. \A n \in Swap : OnDisk'[n] = OnDisk[n]
  BY <1>3, <1>8, <1>18, <1>19, DiskKept
<1>21. ASSUME NEW p \in Proc, NEW w \in Page, p # t \/ w # v
       PROVE  Holds(p, w)' = Holds(p, w) /\ CleanRight(p, w)'
  <2>1. pte'[p][w] = pte[p][w]
    BY <1>6, <1>21
  <2>2. pte[p][w] \in Entry
    BY EntryType
  <2>3. pte[p][w].kind = "present" => pte[p][w].at \in Frame /\ pte[p][w].at # f
    <3>1. <<p, w>> \notin Refers(f)
      BY <1>17, <1>21
    <3>2. QED
      BY <2>2, <3>1, RefersTo, EntryCases, EmptyEntry
  <2>4. pte[p][w].kind = "swap" => pte[p][w].at \in Swap
    BY <2>2, EntryCases, EmptyEntry
  <2>5. QED
    BY <1>19, <1>20, <2>1, <2>3, <2>4, CellSame
<1>22. Holds(t, v)' = version' /\ CleanRight(t, v)'
  BY <1>5, <1>6, <1>19 DEF Holds, Content, CleanRight
<1>23. mine'[t][v] = version' /\ \A p \in Proc, w \in Page : p # t \/ w # v => mine'[p][w] = mine[p][w]
  BY <1>3, Types DEF TypeOK
<1>24. MemoryIsKept'
  <2>1. ASSUME ~overtaken, NEW p \in alive', NEW w \in Page PROVE Holds(p, w)' = mine'[p][w]
    <3>1. p \in alive /\ p \in Proc
      BY <1>3, Types DEF TypeOK
    <3>2. Holds(p, w) = mine[p][w]
      BY <2>1, <3>1, Parts
    <3>3. QED
      BY <1>21, <1>22, <1>23, <3>1, <3>2
  <2>2. QED
    BY <1>3, <2>1 DEF MemoryIsKept, Holds
<1>25. \A u \in Proc : ForkCopied(u)'
  <2>1. \A u \in Proc \ {t} : mine'[u] = mine[u]
    BY <1>3, Types DEF TypeOK
  <2>2. \A u \in Proc \ {t} : ForkCopied(u)'
    BY <1>1, <1>3, <1>15, <1>21, <2>1, CopiesStay
  <2>3. ForkCopied(t)'
    BY <1>1, <1>3, UserJob DEF ForkCopied
  <2>4. QED
    BY <2>2, <2>3
<1>26. \A u \in Proc : NewRight(u)'
  <2>1. \A u \in Proc : job[u].new # 0 => mem'[job[u].new] = mem[job[u].new]
    BY <1>18, <1>19, Alone
  <2>2. \A u \in Proc : job[u].gfp = "read" => OnDisk'[job[u].nr] = OnDisk[job[u].nr]
    BY <1>20, ReadsSwap
  <2>3. \A u \in Proc \ {t} : NewRight(u)'
    BY <1>3, <1>15, <2>1, <2>2, NewKept
  <2>4. NewRight(t)'
    BY <1>1, <1>3, UserJob DEF NewRight
  <2>5. QED
    BY <2>3, <2>4
<1>27. QED
  BY <1>8, <1>12, <1>13, <1>15, <1>21, <1>22, <1>24, <1>25, <1>26, Whole

(* The last user of a page gets it back writable. *)
LEMMA MadeWritable ==
  ASSUME IInv, NEW t \in Proc, NEW v \in Page, pte[t][v].kind = "present", SoleUser(pte[t][v].at),
         SetEntry(t, v, [pte[t][v] EXCEPT !.rw = TRUE])
  PROVE  /\ pte' \in [Proc -> [Page -> Entry]] /\ Gentle(t)
         /\ (\A p \in Proc, w \in Page : /\ pte'[p][w].kind = pte[p][w].kind
                                         /\ pte'[p][w].at = pte[p][w].at
                                         /\ pte'[p][w].dirty = pte[p][w].dirty)
         /\ (\A f \in Frame : Refers(f)' = Refers(f)) /\ (\A n \in Swap : SwapUsers(n)' = SwapUsers(n))
         /\ Keeps(pte[t][v].at) = {} /\ pte[t][v].at \in Frame
         /\ \A f \in Frame : \A e \in Refers(f) : pte'[e[1]][e[2]].rw => Refers(f) = {e}
<1>1. PICK e \in Entry : e = pte[t][v]
  BY EntryType
<1>2. PICK f \in Frame : f = e.at /\ e.kind = "present"
  BY <1>1, EntryCases, EmptyEntry
<1>3. PICK d \in Entry : /\ d = [e EXCEPT !.rw = TRUE] /\ d.kind = "present" /\ d.at = f
                         /\ d.rw = TRUE /\ d.dirty = e.dirty
  <2>1. /\ [e EXCEPT !.rw = TRUE] \in Entry /\ [e EXCEPT !.rw = TRUE].kind = "present"
        /\ [e EXCEPT !.rw = TRUE].at = e.at /\ [e EXCEPT !.rw = TRUE].rw = TRUE
        /\ [e EXCEPT !.rw = TRUE].dirty = e.dirty
    BY <1>2, FlagsChanged
  <2>2. QED
    BY <1>2, <2>1
<1>4. /\ pte' \in [Proc -> [Page -> Entry]] /\ pte'[t][v] = d
      /\ \A q \in Proc, w \in Page : q # t \/ w # v => pte'[q][w] = pte[q][w]
  BY <1>1, <1>3, OneSet
<1>5. Gentle(t)
  BY <1>4 DEF Gentle
<1>6. \A p \in Proc, w \in Page : /\ pte'[p][w].kind = pte[p][w].kind
                                  /\ pte'[p][w].at = pte[p][w].at
                                  /\ pte'[p][w].dirty = pte[p][w].dirty
  BY <1>1, <1>2, <1>3, <1>4
<1>7. (\A g \in Frame : Refers(g)' = Refers(g)) /\ (\A n \in Swap : SwapUsers(n)' = SwapUsers(n))
  BY <1>4, <1>6, FlagsOnly
<1>8. <<t, v>> \in Refers(f)
  BY <1>1, <1>2, RefersTo
<1>9. Refers(f) = {<<t, v>>} /\ Keeps(f) = {}
  BY <1>1, <1>2, <1>8, Counted DEF SoleUser
<1>10. ASSUME NEW g \in Frame, NEW x \in Refers(g), pte'[x[1]][x[2]].rw PROVE Refers(g) = {x}
  <2>1. CASE g = f
    BY <1>9, <2>1
  <2>2. CASE g # f
    <3>1. PICK p \in Proc, w \in Page : x = <<p, w>> /\ pte[p][w].at = g
      BY DEF Refers
    <3>2. pte'[p][w] = pte[p][w]
      BY <1>1, <1>2, <1>4, <2>2, <3>1
    <3>3. QED
      BY <1>10, <3>1, <3>2 DEF IInv, WritableIsPrivate
  <2>3. QED
    BY <2>1, <2>2
<1>11. QED
  BY <1>1, <1>2, <1>4, <1>5, <1>6, <1>7, <1>9, <1>10

(* Contents, when only flags change. *)
LEMMA FlagContents ==
  ASSUME IInv, UNCHANGED mem, \A n \in Swap : OnDisk'[n] = OnDisk[n],
         \A p \in Proc, w \in Page : /\ pte'[p][w].kind = pte[p][w].kind
                                     /\ pte'[p][w].at = pte[p][w].at
                                     /\ pte'[p][w].dirty = pte[p][w].dirty
  PROVE  \A p \in Proc, w \in Page : Holds(p, w)' = Holds(p, w) /\ CleanRight(p, w)'
<1> SUFFICES ASSUME NEW p \in Proc, NEW w \in Page PROVE Holds(p, w)' = Holds(p, w) /\ CleanRight(p, w)'
  OBVIOUS
<1>1. CleanRight(p, w)
  BY Parts
<1>2. CleanRight(p, w)'
  BY <1>1 DEF CleanRight
<1>3. pte[p][w] \in Entry
  BY EntryType
<1>4. \/ pte[p][w].kind = "none" \/ pte[p][w].kind = "present"
      \/ pte[p][w].kind = "swap" /\ pte[p][w].at \in Swap
  BY <1>3, EntryCases
<1>5. QED
  BY <1>2, <1>4 DEF Holds, Content

(* The contents are as they were: so is what depends on them. *)
LEMMA ContentsStay ==
  ASSUME IInv, (overtaken => overtaken'), NEW t \in alive, OthersSame(t),
         UNCHANGED <<alive, mine>>, waits \ {t} \subseteq waits',
         ~overtaken' => \A p \in Proc, v \in Page : Holds(p, v)' = Holds(p, v),
         \A u \in Proc \ {t} : job[u].new # 0 => mem'[job[u].new] = mem[job[u].new],
         \A u \in Proc \ {t} : job[u].gfp = "read" => OnDisk'[job[u].nr] = OnDisk[job[u].nr]
  PROVE  MemoryIsKept' /\ \A u \in Proc \ {t} : ForkCopied(u)' /\ NewRight(u)'
<1>1. t \in Proc /\ alive' \subseteq Proc
  BY Types DEF TypeOK
<1>2. MemoryIsKept'
  BY <1>1, MemoryStays
<1>3. \A u \in Proc \ {t} : ForkCopied(u)'
  BY <1>1, CopiesStay
<1>4. \A u \in Proc \ {t} : NewRight(u)'
  BY <1>1, NewKept
<1>5. QED
  BY <1>2, <1>3, <1>4

LEMMA DoWriteFault ==
  ASSUME IInv, NEW t \in Proc, NEW v \in Page, WriteFault(t, v)
  PROVE  IInv'
<1>1. t \in alive \ waits /\ job[t] = User
  BY IsRunning DEF WriteFault, InUser
<1>2. UNCHANGED <<alive, mem_map, swapfree, mem, swapmem, mine, swapq, waits, version, overtaken>>
  BY DEF WriteFault
<1>3. CASE ~SoleUser(pte[t][v].at) /\ Begin(t, "un_wp_page", v) /\ UNCHANGED pte
  BY <1>1, <1>2, <1>3, Begun
<1>4. CASE SoleUser(pte[t][v].at) /\ SetEntry(t, v, [pte[t][v] EXCEPT !.rw = TRUE]) /\ UNCHANGED <<job, current>>
  <2>1. pte[t][v].kind = "present"
    BY DEF WriteFault
  <2>2. /\ pte' \in [Proc -> [Page -> Entry]] /\ Gentle(t)
        /\ (\A p \in Proc, w \in Page : /\ pte'[p][w].kind = pte[p][w].kind
                                        /\ pte'[p][w].at = pte[p][w].at
                                        /\ pte'[p][w].dirty = pte[p][w].dirty)
        /\ (\A f \in Frame : Refers(f)' = Refers(f)) /\ (\A n \in Swap : SwapUsers(n)' = SwapUsers(n))
        /\ \A f \in Frame : \A e \in Refers(f) : pte'[e[1]][e[2]].rw => Refers(f) = {e}
    BY <1>4, <2>1, MadeWritable
  <2>3. TypeOK'
    BY <1>2, <1>4, <2>2, Types DEF TypeOK
  <2>4. FramesRight'
    <3>1. ASSUME NEW f \in Frame PROVE FrameRight(f)'
      <4>1. Keeps(f)' = Keeps(f)
        BY <1>4 DEF Keeps
      <4>2. FrameRight(f)
        BY Parts DEF FramesRight
      <4>3. QED
        BY <1>2, <2>2, <4>1, <4>2 DEF FrameRight
    <3>2. QED
      BY <3>1 DEF FramesRight
  <2>5. \A n \in Swap : SwapRight(n)'
    BY <1>2, <2>2, SwapSame
  <2>6. OthersSame(t) /\ (\A u \in Proc : JobFits(u)') /\ Children' /\ Queued'
    BY <1>1, <1>2, <1>4, <2>2, InUserMode
  <2>7. OnDisk' = OnDisk
    BY <1>2, DiskSame
  <2>8. \A p \in Proc, w \in Page : Holds(p, w)' = Holds(p, w) /\ CleanRight(p, w)'
    BY <1>2, <2>2, <2>7, FlagContents
  <2>9. MemoryIsKept' /\ \A u \in Proc \ {t} : ForkCopied(u)' /\ NewRight(u)'
    BY <1>1, <1>2, <2>6, <2>7, <2>8, ContentsStay
  <2>10. ForkCopied(t)' /\ NewRight(t)'
    BY <1>1, <1>4, UserJob DEF ForkCopied, NewRight
  <2>11. QED
    BY <2>3, <2>4, <2>5, <2>6, <2>8, <2>9, <2>10, Whole
<1>5. QED
  BY <1>3, <1>4 DEF WriteFault

(***************************************************************************)
(* A page gets one more user, and all of them lose the right to write.     *)
(***************************************************************************)
Share(q, r, v, e) ==
  /\ e = [pte[q][v] EXCEPT !.rw = FALSE]
  /\ pte' = [pte EXCEPT ![q][v] = e, ![r][v] = e]
  /\ mem_map' = [mem_map EXCEPT ![e.at] = mem_map[e.at] + 1]

LEMMA Shared ==
  ASSUME IInv, NEW q \in Proc, NEW r \in Proc, q # r, NEW v \in Page, pte[q][v].kind = "present",
         pte[r][v].kind = "none", NEW e, Share(q, r, v, e),
         \A u \in Proc : job'[u].new = job[u].new /\ job'[u].out = job[u].out
  PROVE  /\ pte' \in [Proc -> [Page -> Entry]] /\ mem_map' \in [Frame -> Nat] /\ FramesRight'
         /\ (\A n \in Swap : SwapUsers(n)' = SwapUsers(n))
         /\ pte'[q][v] = e /\ pte'[r][v] = e /\ e.kind = "present" /\ e.at = pte[q][v].at
         /\ e.dirty = pte[q][v].dirty /\ e.at \in Frame
         /\ (\A p \in Proc, w \in Page : (p # q /\ p # r) \/ w # v => pte'[p][w] = pte[p][w])
<1>1. PICK d \in Entry : d = pte[q][v]
  BY EntryType
<1>2. PICK f \in Frame : f = d.at /\ d.kind = "present"
  BY <1>1, EntryCases, EmptyEntry
<1>3. /\ e \in Entry /\ e.kind = "present" /\ e.at = f /\ e.rw = FALSE /\ e.dirty = d.dirty
  <2>1. /\ [d EXCEPT !.rw = FALSE] \in Entry /\ [d EXCEPT !.rw = FALSE].kind = "present"
        /\ [d EXCEPT !.rw = FALSE].at = d.at /\ [d EXCEPT !.rw = FALSE].rw = FALSE
        /\ [d EXCEPT !.rw = FALSE].dirty = d.dirty
    BY <1>2, FlagsChanged
  <2>2. QED
    BY <1>1, <1>2, <2>1 DEF Share
<1>4. /\ pte' \in [Proc -> [Page -> Entry]] /\ pte'[q][v] = e /\ pte'[r][v] = e
      /\ \A p \in Proc, w \in Page : (p # q /\ p # r) \/ w # v => pte'[p][w] = pte[p][w]
  BY <1>3, Types DEF Share, TypeOK
<1>5. /\ mem_map' \in [Frame -> Nat] /\ mem_map'[f] = mem_map[f] + 1
      /\ \A g \in Frame \ {f} : mem_map'[g] = mem_map[g]
  BY <1>3, Types DEF Share, TypeOK
<1>6. ASSUME NEW g \in Frame, NEW p \in Proc, NEW w \in Page
      PROVE  <<p, w>> \in Refers(g)' <=> <<p, w>> \in Refers(g) \/ (g = f /\ p = r /\ w = v)
  <2>1. <<p, w>> \in Refers(g)' <=> pte'[p][w].kind = "present" /\ pte'[p][w].at = g
    BY DEF Refers
  <2>2. <<p, w>> \in Refers(g) <=> pte[p][w].kind = "present" /\ pte[p][w].at = g
    BY RefersTo
  <2>3. CASE p = q /\ w = v
    BY <1>1, <1>2, <1>3, <1>4, <2>1, <2>2, <2>3
  <2>4. CASE p = r /\ w = v
    BY <1>3, <1>4, <2>1, <2>2, <2>4
  <2>5. CASE (p # q /\ p # r) \/ w # v
    BY <1>4, <2>1, <2>2, <2>5
  <2>6. QED
    BY <2>3, <2>4, <2>5
<1>7. \A g \in Frame : Refers(g) \subseteq Cell /\ Refers(g)' \subseteq Cell
  BY DEF Refers, Cell
<1>8. ASSUME NEW g \in Frame PROVE Refers(g)' = IF g = f THEN Refers(g) \cup {<<r, v>>} ELSE Refers(g)
  <2>1. ASSUME NEW x PROVE x \in Refers(g)' <=> x \in Refers(g) \/ (g = f /\ x = <<r, v>>)
    <3>1. x \in Refers(g)' \/ x \in Refers(g) => \E p \in Proc, w \in Page : x = <<p, w>>
      BY <1>7 DEF Cell
    <3>2. QED
      BY <1>6, <3>1
  <2>2. QED
    BY <2>1
<1>9. <<q, v>> \in Refers(f) /\ <<r, v>> \notin Refers(f)
  BY <1>1, <1>2, RefersTo
<1>10. \A g \in Frame : Keeps(g)' = Keeps(g)
  BY DEF Keeps
<1>11. Keeps(f) = {}
  BY <1>9, NotKept, NotRead
<1>12. ASSUME NEW g \in Frame PROVE FrameRight(g)'
  <2>1. CASE g = f
    <3>1. Cardinality(Refers(f)') = Cardinality(Refers(f)) + 1
      BY <1>8, <1>9, Counted, AddOne
    <3>2. mem_map'[f] = Cardinality(Refers(f)') + Cardinality(Keeps(f)')
      BY <1>5, <1>10, <3>1, Counted
    <3>3. ASSUME NEW x \in Refers(f)', pte'[x[1]][x[2]].rw PROVE FALSE
      <4>1. PICK p \in Proc, w \in Page : x = <<p, w>>
        BY <1>7 DEF Cell
      <4>2. (p # q /\ p # r) \/ w # v
        BY <1>3, <1>4, <3>3, <4>1
      <4>3. pte[p][w].rw /\ x \in Refers(f)
        BY <1>4, <1>8, <3>3, <4>1, <4>2
      <4>4. Refers(f) = {x}
        BY <4>1, <4>3 DEF IInv, WritableIsPrivate
      <4>5. QED
        BY <1>9, <4>1, <4>2, <4>4
    <3>4. QED
      BY <1>10, <1>11, <2>1, <3>2, <3>3 DEF FrameRight
  <2>2. CASE g # f
    <3>1. ASSUME NEW x \in Refers(g), pte'[x[1]][x[2]].rw PROVE pte[x[1]][x[2]].rw
      <4>1. PICK p \in Proc, w \in Page : x = <<p, w>>
        BY <1>7 DEF Cell
      <4>2. (p # q /\ p # r) \/ w # v
        BY <1>3, <1>4, <3>1, <4>1
      <4>3. QED
        BY <1>4, <3>1, <4>1, <4>2
    <3>2. QED
      BY <1>5, <1>8, <1>10, <2>2, <3>1, FrameSame
  <2>3. QED
    BY <2>1, <2>2
<1>13. ASSUME NEW n \in Swap PROVE SwapUsers(n)' = SwapUsers(n)
  <2>1. ASSUME NEW p \in Proc, NEW w \in Page
        PROVE  <<p, w>> \in SwapUsers(n)' <=> <<p, w>> \in SwapUsers(n)
    <3>1. /\ <<p, w>> \in SwapUsers(n)' <=> pte'[p][w] = Swapped(n)
          /\ <<p, w>> \in SwapUsers(n) <=> pte[p][w] = Swapped(n)
      BY DEF SwapUsers, Swapped
    <3>2. QED
      BY <1>1, <1>2, <1>3, <1>4, <3>1, SwappedEntry
  <2>2. \A x \in SwapUsers(n) \cup SwapUsers(n)' : \E p \in Proc, w \in Page : x = <<p, w>>
    BY DEF SwapUsers
  <2>3. ASSUME NEW x PROVE x \in SwapUsers(n)' <=> x \in SwapUsers(n)
    BY <2>1, <2>2
  <2>4. QED
    BY <2>3
<1>14. QED
  BY <1>1, <1>2, <1>3, <1>4, <1>5, <1>12, <1>13 DEF FramesRight

LEMMA DoTryToShare ==
  ASSUME IInv, NEW t \in Proc, NEW v \in Page, TryToShare(t, v)
  PROVE  IInv'
<1>1. t \in alive \ waits /\ job[t] = User /\ pte[t][v].kind = "none"
  BY IsRunning DEF TryToShare, InUser
<1>2. UNCHANGED <<alive, swapfree, mem, swapmem, mine, swapq, job, waits, current, version, overtaken>>
  BY DEF TryToShare
<1>3. PICK q \in CleanSharers(t, v) :
        LET e == [pte[q][v] EXCEPT !.rw = FALSE]
        IN  /\ pte' = [pte EXCEPT ![q][v] = e, ![t][v] = e]
            /\ mem_map' = [mem_map EXCEPT ![e.at] = @ + 1]
  BY DEF TryToShare
<1>4. q \in Proc /\ q # t /\ pte[q][v].kind = "present" /\ ~pte[q][v].dirty
  <2>1. q \in Slots \ {t} /\ Sharable(q, v)
    BY <1>3 DEF CleanSharers
  <2>2. Slots \subseteq Proc
    BY Types DEF Slots, TypeOK, Job
  <2>3. QED
    BY <2>1, <2>2 DEF Sharable
<1>5. PICK e : e = [pte[q][v] EXCEPT !.rw = FALSE]
  OBVIOUS
<1>6. Share(q, t, v, e)
  BY <1>3, <1>5 DEF Share
<1>7. /\ pte' \in [Proc -> [Page -> Entry]] /\ mem_map' \in [Frame -> Nat] /\ FramesRight'
      /\ (\A n \in Swap : SwapUsers(n)' = SwapUsers(n))
      /\ pte'[q][v] = e /\ pte'[t][v] = e /\ e.kind = "present" /\ e.at = pte[q][v].at
      /\ e.dirty = pte[q][v].dirty /\ e.at \in Frame
      /\ (\A p \in Proc, w \in Page : (p # q /\ p # t) \/ w # v => pte'[p][w] = pte[p][w])
  BY <1>1, <1>2, <1>4, <1>6, Shared
<1>8. TypeOK'
  BY <1>2, <1>7, Types DEF TypeOK
<1>9. \A n \in Swap : SwapRight(n)'
  BY <1>2, <1>7, SwapSame
<1>10. Gentle(t)
  BY <1>4, <1>7 DEF Gentle
<1>11. OthersSame(t) /\ (\A u \in Proc : JobFits(u)') /\ Children' /\ Queued'
  BY <1>1, <1>2, <1>10, InUserMode
<1>12. OnDisk' = OnDisk
  BY <1>2, DiskSame
<1>13. mem[e.at] = 0
  BY <1>4, <1>7, Parts DEF CleanRight
<1>14. ASSUME NEW p \in Proc, NEW w \in Page PROVE Holds(p, w)' = Holds(p, w) /\ CleanRight(p, w)'
  <2>1. CASE p = q /\ w = v
    BY <1>2, <1>4, <1>7, <1>13, <2>1 DEF Holds, Content, CleanRight
  <2>2. CASE p = t /\ w = v
    BY <1>1, <1>2, <1>7, <1>13, <2>2 DEF Holds, Content, CleanRight
  <2>3. CASE (p # q /\ p # t) \/ w # v
    BY <1>2, <1>7, <1>12, <2>3, CellSame
  <2>4. QED
    BY <2>1, <2>2, <2>3
<1>15. MemoryIsKept' /\ \A u \in Proc \ {t} : ForkCopied(u)' /\ NewRight(u)'
  BY <1>1, <1>2, <1>11, <1>12, <1>14, ContentsStay
<1>16. ForkCopied(t)' /\ NewRight(t)'
  BY <1>1, <1>2, UserJob DEF ForkCopied, NewRight
<1>17. QED
  BY <1>7, <1>8, <1>9, <1>11, <1>14, <1>15, <1>16, Whole

LEMMA DoCopyEntry ==
  ASSUME IInv, NEW t \in Proc, CopyEntry(t)
  PROVE  IInv'
<1>1. t \in alive \ waits /\ job[t].op = "fork" /\ job[t].gfp = "no" /\ job[t].v <= NPages
  BY IsRunning DEF CopyEntry
<1>2. PICK r \in Job : r = job[t]
  BY JobType
<1>3. JobFits(t) /\ r.new = 0 /\ r.out = 0
  BY <1>1, <1>2, Fits DEF JobFits
<1>4. PICK v \in Page : v = r.v /\ v + 1 \in 0..NPages + 1
  BY <1>1, <1>2, <1>3, Constants DEF JobFits, Page, Job
<1>5. PICK c \in Proc : c = r.child /\ c \notin alive /\ \A w \in Page : w >= v => pte[c][w] = Empty
  BY <1>1, <1>2, <1>3, <1>4 DEF JobFits
<1>6. PICK e \in Entry : e = pte[t][v]
  BY EntryType
<1>7. pte[c][v] = Empty /\ c # t
  BY <1>1, <1>4, <1>5 DEF Page
<1>8. current' \in Proc \cup {NoProc} /\ UNCHANGED <<alive, swapfree, mem, swapmem, mine, swapq, waits, version, overtaken>>
  BY DEF CopyEntry
<1>9. (~overtaken => Holds(t, v) = mine[t][v]) /\ ForkCopied(t)
  BY <1>1, Parts
<1>10. PICK j : j = [r EXCEPT !.v = v + 1]
  OBVIOUS
<1>11. /\ j \in Job /\ j.v = v + 1 /\ j.op = "fork" /\ j.gfp = "no" /\ j.new = 0 /\ j.out = 0
       /\ j.nr = r.nr /\ j.child = c
  BY <1>1, <1>2, <1>3, <1>4, <1>5, <1>10 DEF Job
<1>12. CASE e.kind = "none" /\ job' = [job EXCEPT ![t].v = @ + 1] /\ UNCHANGED <<pte, mem_map>>
  <2>1. job' = [job EXCEPT ![t] = j]
    BY <1>2, <1>4, <1>10, <1>12
  <2>2. /\ TypeOK' /\ FramesRight' /\ (\A n \in Swap : SwapRight(n)')
        /\ MemoryIsKept' /\ (\A u \in Proc \ {t} : JobFits(u)') /\ Queued'
        /\ (\A p \in Proc, w \in Page : CleanRight(p, w)')
        /\ (\A u \in Proc \ {t} : ForkCopied(u)' /\ NewRight(u)')
        /\ Children' /\ NewRight(t)' /\ job'[t] = j
    <3>1. j.new = job[t].new /\ j.out = job[t].out /\ j.child = job[t].child /\ j.gfp \notin {"done", "read"}
      BY <1>2, <1>3, <1>5, <1>11
    <3>2. QED
      BY <1>1, <1>8, <1>11, <1>12, <2>1, <3>1, OnlyTheJob
  <2>3. JobFits(t)'
    <3>1. \A w \in Page : w >= v + 1 => pte'[c][w] = Empty
      BY <1>4, <1>5, <1>12 DEF Page
    <3>2. v + 1 >= 1 /\ c \in Proc \ alive'
      BY <1>5, <1>8 DEF Page
    <3>3. QED
      BY <1>1, <1>8, <1>11, <2>2, <3>1, <3>2 DEF JobFits
  <2>4. ForkCopied(t)'
    <3> SUFFICES ASSUME ~overtaken, NEW w \in Page, w < v + 1 PROVE Holds(c, w)' = mine'[t][w]
      BY <1>8, <1>11, <2>2 DEF ForkCopied
    <3>1. OnDisk' = OnDisk
      BY <1>8, DiskSame
    <3>2. Holds(c, w)' = Holds(c, w)
      BY <1>8, <1>12, <3>1, CellsSame
    <3>3. CASE w = v
      BY <1>6, <1>7, <1>8, <1>9, <1>12, <3>2, <3>3, EmptyEntry DEF Holds, Content
    <3>4. CASE w # v
      <4>1. w < v
        BY <3>4 DEF Page
      <4>2. QED
        BY <1>1, <1>2, <1>4, <1>5, <1>8, <1>9, <3>2, <4>1 DEF ForkCopied
    <3>5. QED
      BY <3>3, <3>4
  <2>5. QED
    BY <2>2, <2>3, <2>4, Whole
<1>13. CASE /\ e.kind = "present" /\ job' = [job EXCEPT ![t].v = @ + 1]
            /\ pte' = [pte EXCEPT ![t][v] = ProtectBoth(e), ![c][v] = ProtectBoth(e)]
            /\ mem_map' = [mem_map EXCEPT ![e.at] = @ + 1]
  <2>1. job' = [job EXCEPT ![t] = j]
    BY <1>2, <1>4, <1>10, <1>13
  <2>2. job' \in [Proc -> Job] /\ job'[t] = j /\ OthersSame(t)
    BY <1>11, <2>1, JobSet
  <2>3. \A u \in Proc : job'[u].new = job[u].new /\ job'[u].out = job[u].out
    BY <1>2, <1>3, <1>11, <2>2 DEF OthersSame
  <2>4. PICK d : d = [pte[t][v] EXCEPT !.rw = FALSE]
    OBVIOUS
  <2>5. d.at = e.at
    <3>1. [e EXCEPT !.rw = FALSE].at = e.at
      BY <1>13, FlagsChanged
    <3>2. QED
      BY <1>6, <2>4, <3>1
  <2>6. Share(t, c, v, d)
    BY <1>6, <1>13, <2>4, <2>5 DEF ProtectBoth, Share
  <2>7. /\ pte' \in [Proc -> [Page -> Entry]] /\ mem_map' \in [Frame -> Nat] /\ FramesRight'
        /\ (\A n \in Swap : SwapUsers(n)' = SwapUsers(n))
        /\ pte'[t][v] = d /\ pte'[c][v] = d /\ d.kind = "present" /\ d.at = pte[t][v].at
        /\ d.dirty = pte[t][v].dirty /\ d.at \in Frame
        /\ (\A p \in Proc, w \in Page : (p # t /\ p # c) \/ w # v => pte'[p][w] = pte[p][w])
    <3>1. pte[t][v].kind = "present" /\ pte[c][v].kind = "none" /\ t # c
      BY <1>6, <1>7, <1>13, EmptyEntry
    <3>2. QED
      BY <2>3, <2>6, <3>1, Shared
  <2>8. TypeOK'
    BY <1>8, <2>2, <2>7, Types DEF TypeOK
  <2>9. \A n \in Swap : SwapRight(n)'
    BY <1>8, <2>7, SwapSame
  <2>10. Gentle(t)
    BY <1>2, <1>5, <2>7 DEF Gentle
  <2>11. \A u \in Proc \ {t} : JobFits(u)'
    BY <1>1, <1>8, <2>2, <2>10, OthersFit
  <2>12. Children'
    BY <1>1, <1>2, <1>5, <1>8, <1>11, <2>2, <2>10, ChildrenKept
  <2>13. Queued'
    BY <1>1, <1>8, <2>2, QueueKept
  <2>14. JobFits(t)'
    <3>1. \A w \in Page : w >= v + 1 => pte'[c][w] = Empty
      BY <1>4, <1>5, <2>7 DEF Page
    <3>2. v + 1 >= 1 /\ c \in Proc \ alive'
      BY <1>5, <1>8 DEF Page
    <3>3. QED
      BY <1>1, <1>8, <1>11, <2>2, <3>1, <3>2 DEF JobFits
  <2>15. OnDisk' = OnDisk
    BY <1>8, DiskSame
  <2>16. ASSUME NEW p \in Proc, NEW w \in Page, p # c \/ w # v
         PROVE  Holds(p, w)' = Holds(p, w) /\ CleanRight(p, w)'
    <3>1. CASE p = t /\ w = v
      <4>1. CleanRight(t, v)
        BY Parts
      <4>2. QED
        BY <1>6, <1>8, <1>13, <2>7, <3>1, <4>1 DEF Holds, Content, CleanRight
    <3>2. CASE p # t \/ w # v
      <4>1. pte'[p][w] = pte[p][w]
        BY <2>7, <2>16, <3>2
      <4>2. QED
        BY <1>8, <2>15, <4>1, CellSame
    <3>3. QED
      BY <3>1, <3>2
  <2>17. (~overtaken => Holds(c, v)' = mine[t][v]) /\ CleanRight(c, v)'
    <3>1. Holds(c, v)' = mem[d.at] /\ Holds(t, v) = mem[d.at]
      BY <1>6, <1>8, <1>13, <2>7 DEF Holds, Content
    <3>2. CleanRight(t, v)
      BY Parts
    <3>3. CleanRight(c, v)'
      BY <1>6, <1>8, <1>13, <2>7, <3>2 DEF CleanRight
    <3>4. QED
      BY <1>9, <3>1, <3>3
  <2>18. MemoryIsKept'
    <3>1. \A p \in alive', w \in Page : Holds(p, w)' = Holds(p, w)
      BY <1>5, <1>8, <2>8, <2>16 DEF TypeOK
    <3>2. QED
      BY <1>8, <3>1, MemoryStays
  <2>19. \A u \in Proc \ {t} : ForkCopied(u)'
    BY <1>1, <1>2, <1>5, <1>8, <2>2, <2>16, CopiesStay
  <2>20. ForkCopied(t)'
    <3> SUFFICES ASSUME ~overtaken, NEW w \in Page, w < v + 1 PROVE Holds(c, w)' = mine'[t][w]
      BY <1>8, <1>11, <2>2 DEF ForkCopied
    <3>1. CASE w = v
      BY <1>8, <2>17, <3>1
    <3>2. CASE w # v
      <4>1. w < v
        BY <3>2 DEF Page
      <4>2. QED
        BY <1>1, <1>2, <1>4, <1>5, <1>8, <1>9, <2>16, <3>2, <4>1 DEF ForkCopied
    <3>3. QED
      BY <3>1, <3>2
  <2>21. \A u \in Proc \ {t} : NewRight(u)'
    BY <1>8, <2>2, <2>15, NewKept
  <2>22. NewRight(t)'
    BY <1>11, <2>2 DEF NewRight
  <2>23. QED
    BY <2>7, <2>8, <2>9, <2>11, <2>12, <2>13, <2>14, <2>16, <2>17, <2>18, <2>19, <2>20, <2>21, <2>22, Whole
<1>14. CASE /\ e.kind = "swap" /\ job' = [job EXCEPT ![t] = [@ EXCEPT !.gfp = "scan", !.nr = e.at]]
            /\ UNCHANGED <<pte, mem_map>>
  <2>1. e.at \in Swap /\ e = Swapped(e.at)
    BY <1>14, EntryCases, EmptyEntry
  <2>2. PICK i : i = [r EXCEPT !.gfp = "scan", !.nr = e.at]
    OBVIOUS
  <2>3. /\ i \in Job /\ i.v = v /\ i.op = "fork" /\ i.gfp = "scan" /\ i.new = 0 /\ i.out = 0
        /\ i.nr = e.at /\ i.child = c
    BY <1>1, <1>2, <1>3, <1>4, <1>5, <2>1, <2>2 DEF Job
  <2>4. job' = [job EXCEPT ![t] = i]
    BY <1>2, <1>14, <2>2
  <2>5. /\ TypeOK' /\ FramesRight' /\ (\A n \in Swap : SwapRight(n)')
        /\ MemoryIsKept' /\ (\A u \in Proc \ {t} : JobFits(u)') /\ Queued'
        /\ (\A p \in Proc, w \in Page : CleanRight(p, w)')
        /\ (\A u \in Proc \ {t} : ForkCopied(u)' /\ NewRight(u)')
        /\ Children' /\ NewRight(t)' /\ ForkCopied(t)' /\ job'[t] = i
    <3>1. /\ i.new = job[t].new /\ i.out = job[t].out /\ i.child = job[t].child
          /\ i.op = job[t].op /\ i.v = job[t].v /\ i.gfp \notin {"done", "read"}
      BY <1>1, <1>2, <1>3, <1>4, <1>5, <2>3
    <3>2. QED
      BY <1>1, <1>8, <1>14, <2>3, <2>4, <3>1, OnlyTheJob
  <2>6. JobFits(t)'
    <3>1. v >= 1 /\ c \in Proc \ alive'
      BY <1>5, <1>8 DEF Page
    <3>2. QED
      BY <1>1, <1>4, <1>5, <1>6, <1>8, <1>14, <2>1, <2>3, <2>5, <3>1 DEF JobFits
  <2>7. QED
    BY <2>5, <2>6, Whole
<1>15. QED
  BY <1>2, <1>4, <1>5, <1>6, <1>12, <1>13, <1>14 DEF CopyEntry

(***************************************************************************)
(* get_free_page.                                                          *)
(***************************************************************************)
LEMMA MaxIn ==
  ASSUME NEW n \in Nat, NEW S \in SUBSET (1..n), S # {}
  PROVE  Max(S) \in S
<1>1. S \in SUBSET (0..n)
  OBVIOUS
<1>2. \E x \in S : \A y \in S : y <= x
  BY <1>1, MaxExists
<1>3. \E x \in S : \A y \in S : x >= y
  BY <1>2
<1>4. QED
  BY <1>3 DEF Max

LEMMA MinIn ==
  ASSUME NEW n \in Nat, NEW S \in SUBSET (1..n), S # {}
  PROVE  Min(S) \in S
<1>1. S \in SUBSET Nat
  OBVIOUS
<1>2. \E x \in S : \A y \in S : x <= y
  BY <1>1, MinExists
<1>3. QED
  BY <1>2 DEF Min

LEMMA Freed ==
  ASSUME IInv, NEW f \in Frame, mem_map' = FreePage(f), mem_map[f] > 0
  PROVE  /\ mem_map' \in [Frame -> Nat] /\ mem_map'[f] = mem_map[f] - 1
         /\ \A g \in Frame \ {f} : mem_map'[g] = mem_map[g]
BY Types DEF FreePage, TypeOK

LEMMA GfpFits ==
  ASSUME IInv, NEW t \in Proc, job[t].gfp # "no"
  PROVE  /\ JobFits(t) /\ job[t] \in Job /\ job[t].op # "user" /\ t \in alive /\ job[t].v \in Page
         /\ (job[t].gfp \notin {"done", "read"} => job[t].new = 0)
         /\ (job[t].gfp # "written" => job[t].out = 0)
<1>1. JobFits(t) /\ job[t] \in Job
  BY Fits, JobType
<1>2. job[t].op # "user" /\ t \in alive
  BY <1>1, UserJob DEF JobFits
<1>3. QED
  BY <1>1, <1>2 DEF JobFits

(* What JobFits says of entries, when no entry without a page is changed. *)
EntriesFit(t) ==
  /\ job[t].op = "fork" => \A v \in Page : v >= job[t].v => pte[job[t].child][v] = Empty
  /\ job[t].op = "swap_in" \/ (job[t].op = "fork" /\ job[t].gfp # "no")
       => pte[t][job[t].v] = Swapped(job[t].nr)
  /\ job[t].op \in {"get_empty_page", "do_no_page"} => pte[t][job[t].v] = Empty

LEMMA OwnEntries ==
  ASSUME IInv, NEW t \in Proc, job[t].gfp # "no",
         \A p \in Proc, v \in Page : pte'[p][v] = pte[p][v] \/ pte[p][v].kind = "present",
         job'[t].op = job[t].op, job'[t].child = job[t].child, job'[t].v = job[t].v,
         job'[t].nr = job[t].nr
  PROVE  EntriesFit(t)'
<1>1. JobFits(t) /\ job[t] \in Job /\ job[t].v \in Page
  BY GfpFits
<1>2. ASSUME job[t].op = "fork", NEW v \in Page, v >= job[t].v PROVE pte'[job[t].child][v] = Empty
  BY <1>1, <1>2, EmptyEntry DEF JobFits
<1>3. ASSUME job[t].op \in {"swap_in", "fork"} PROVE pte'[t][job[t].v] = Swapped(job[t].nr)
  BY <1>1, <1>3, SwappedEntry DEF JobFits
<1>4. ASSUME job[t].op \in {"get_empty_page", "do_no_page"} PROVE pte'[t][job[t].v] = Empty
  BY <1>1, <1>4, EmptyEntry DEF JobFits
<1>5. QED
  BY <1>2, <1>3, <1>4 DEF EntriesFit

(* A step of get_free_page leaves the rest of its job as it is. *)
LEMMA StillFits ==
  ASSUME IInv, NEW t \in Proc, job[t].gfp # "no", job'[t].gfp # "no", EntriesFit(t)', alive' = alive,
         job'[t].op = job[t].op, job'[t].child = job[t].child, job'[t].v = job[t].v, job'[t].nr = job[t].nr,
         job'[t].new # 0 <=> job'[t].gfp \in {"done", "read"}, job'[t].out # 0 <=> job'[t].gfp = "written",
         job'[t].gfp = "read" => job[t].op \in {"swap_in", "fork"}
  PROVE  JobFits(t)'
<1>1. JobFits(t) /\ job[t].op # "user" /\ t \in alive /\ job[t].v \in Page
  BY GfpFits
<1>2. QED
  BY <1>1 DEF JobFits, EntriesFit

LEMMA CopiedStill ==
  ASSUME IInv, (overtaken => overtaken'), NEW t \in Proc, job'[t].op = job[t].op,
         job'[t].child = job[t].child, job'[t].v = job[t].v,
         UNCHANGED mine, ~overtaken' => \A p \in Proc, v \in Page : Holds(p, v)' = Holds(p, v)
  PROVE  ForkCopied(t)'
<1> SUFFICES ASSUME ~overtaken', job[t].op = "fork", NEW v \in Page, v < job[t].v
             PROVE  Holds(job[t].child, v)' = mine'[t][v]
  BY DEF ForkCopied
<1>1. PICK c \in Proc : c = job[t].child /\ c = job'[t].child
  BY Fits DEF JobFits
<1>2. Holds(c, v) = mine[t][v]
  BY <1>1, Parts DEF ForkCopied
<1>3. QED
  BY <1>1, <1>2

LEMMA DoScan ==
  ASSUME IInv, NEW t \in Proc, Scan(t)
  PROVE  IInv'
<1>1. t \in alive \ waits /\ job[t].gfp = "scan"
  BY IsRunning DEF Scan, Gfp
<1>2. PICK r \in Job : r = job[t] /\ r.new = 0 /\ r.out = 0
  BY <1>1, GfpFits
<1>3. current' \in Proc \cup {NoProc} /\ UNCHANGED <<alive, pte, swapfree, swapmem, mine, swapq, waits, version, overtaken>>
  BY DEF Scan
<1>4. CASE job' = [job EXCEPT ![t].gfp = "swap_out"] /\ UNCHANGED <<mem_map, mem>>
  <2>1. PICK j : j = [r EXCEPT !.gfp = "swap_out"]
    OBVIOUS
  <2>2. /\ j \in Job /\ j.gfp = "swap_out" /\ j.op = r.op /\ j.v = r.v /\ j.new = r.new
        /\ j.out = r.out /\ j.nr = r.nr /\ j.child = r.child
    BY <2>1 DEF Job
  <2>3. job' = [job EXCEPT ![t] = j]
    BY <1>2, <1>4, <2>1
  <2>4. QED
    BY <1>1, <1>2, <1>3, <1>4, <2>2, <2>3, GfpMoves
<1>5. CASE /\ FreeFrames # {}
           /\ mem_map' = [mem_map EXCEPT ![Max(FreeFrames)] = 1]
           /\ mem' = [mem EXCEPT ![Max(FreeFrames)] = 0]
           /\ job' = [job EXCEPT ![t] = [@ EXCEPT !.gfp = "done", !.new = Max(FreeFrames)]]
  <2>1. PICK f \in Frame : f = Max(FreeFrames) /\ mem_map[f] = 0
    <3>1. FreeFrames \in SUBSET (1..NFrames) /\ NFrames \in Nat
      BY Constants DEF FreeFrames, Frame
    <3>2. Max(FreeFrames) \in FreeFrames
      BY <1>5, <3>1, MaxIn
    <3>3. QED
      BY <3>2 DEF FreeFrames
  <2>2. Refers(f) = {} /\ Keeps(f) = {} /\ f # 0
    BY <2>1, Counted, Constants
  <2>3. PICK j : j = [r EXCEPT !.gfp = "done", !.new = f]
    OBVIOUS
  <2>4. /\ j \in Job /\ j.gfp = "done" /\ j.op = r.op /\ j.v = r.v /\ j.new = f
        /\ j.out = 0 /\ j.nr = r.nr /\ j.child = r.child
    BY <1>2, <2>3 DEF Job
  <2>5. job' = [job EXCEPT ![t] = j]
    BY <1>2, <1>5, <2>1, <2>3
  <2>6. job' \in [Proc -> Job] /\ job'[t] = j /\ OthersSame(t)
    BY <2>4, <2>5, JobSet
  <2>7. /\ mem_map' \in [Frame -> Nat] /\ mem_map'[f] = 1 /\ \A g \in Frame \ {f} : mem_map'[g] = mem_map[g]
    BY <1>5, <2>1, Types DEF TypeOK
  <2>8. /\ mem' \in [Frame -> 0..MaxWrites] /\ mem'[f] = 0 /\ \A g \in Frame \ {f} : mem'[g] = mem[g]
    BY <1>5, <2>1, Types, Constants DEF TypeOK
  <2>9. TypeOK'
    BY <1>3, <2>6, <2>7, <2>8, Types DEF TypeOK
  <2>10. \A u \in Proc : job[u].new # f /\ job[u].out # f
    BY <2>2 DEF Keeps
  <2>11. \A n \in Swap : OnDisk'[n] = OnDisk[n]
    BY <1>3, <2>8, <2>9, <2>10, DiskKept
  <2>12. FramesRight'
    <3>1. ASSUME NEW g \in Frame PROVE FrameRight(g)'
      <4>1. Refers(g)' = Refers(g)
        BY <1>3 DEF Refers
      <4>2. CASE g = f
        <5>1. Keeps(f)' = {t}
          BY <2>2, <2>4, <2>6, KeepsAfter
        <5>2. Cardinality({t}) = 1 /\ Cardinality({}) = 0
          BY Singleton, FS_EmptySet
        <5>3. mem_map'[f] = Cardinality(Refers(f)') + Cardinality(Keeps(f)') /\ Refers(f)' = {}
          <6>1. Refers(f)' = {}
            BY <2>2, <4>1, <4>2
          <6>2. Cardinality(Refers(f)') = 0
            BY <5>2, <6>1
          <6>3. Cardinality(Keeps(f)') = 1
            BY <5>1, <5>2
          <6>4. QED
            BY <2>7, <6>1, <6>2, <6>3
        <5>4. QED
          BY <4>2, <5>1, <5>3 DEF FrameRight
      <4>3. CASE g # f
        <5>1. t \notin Keeps(g) /\ g # 0
          BY <1>2, Constants DEF Keeps
        <5>2. Keeps(g)' = Keeps(g)
          BY <2>4, <2>6, <4>3, <5>1, KeepsAfter
        <5>3. QED
          BY <1>3, <2>7, <4>1, <4>3, <5>2, FrameSame
      <4>4. QED
        BY <4>2, <4>3
    <3>2. QED
      BY <3>1 DEF FramesRight
  <2>13. \A n \in Swap : SwapRight(n)'
    BY <1>3, SwapsSame
  <2>14. ASSUME NEW p \in Proc, NEW w \in Page PROVE Holds(p, w)' = Holds(p, w) /\ CleanRight(p, w)'
    <3>1. pte[p][w] \in Entry /\ pte'[p][w] = pte[p][w]
      BY <1>3, EntryType
    <3>2. pte[p][w].kind = "present" => pte[p][w].at \in Frame /\ pte[p][w].at # f
      BY <2>2, <3>1, RefersTo, EntryCases, EmptyEntry
    <3>3. pte[p][w].kind = "swap" => pte[p][w].at \in Swap
      BY <3>1, EntryCases, EmptyEntry
    <3>4. QED
      BY <2>8, <2>11, <3>1, <3>2, <3>3, CellSame
  <2>15. \A u \in Proc : job[u].new # 0 => mem'[job[u].new] = mem[job[u].new]
    BY <2>8, <2>10, Alone
  <2>16. \A u \in Proc : job[u].gfp = "read" => OnDisk'[job[u].nr] = OnDisk[job[u].nr]
    BY <2>11, ReadsSwap
  <2>17. MemoryIsKept' /\ \A u \in Proc \ {t} : ForkCopied(u)' /\ NewRight(u)'
    BY <1>1, <1>3, <2>6, <2>14, <2>15, <2>16, ContentsStay
  <2>18. ForkCopied(t)' /\ NewRight(t)'
    <3>1. ForkCopied(t)'
      BY <1>2, <1>3, <2>4, <2>6, <2>14, CopiedStill
    <3>2. QED
      BY <2>4, <2>6, <2>8, <3>1 DEF NewRight
  <2>19. Gentle(t) /\ EntriesFit(t)'
    <3>1. \A p \in Proc, v \in Page : pte'[p][v] = pte[p][v] \/ pte[p][v].kind = "present"
      BY <1>3
    <3>2. EntriesFit(t)'
      BY <1>1, <1>2, <2>4, <2>6, <3>1, OwnEntries
    <3>3. QED
      BY <3>1, <3>2 DEF Gentle
  <2>20. \A u \in Proc \ {t} : JobFits(u)'
    BY <1>1, <1>3, <2>6, <2>19, OthersFit
  <2>21. JobFits(t)'
    BY <1>1, <1>2, <1>3, <2>2, <2>4, <2>6, <2>19, StillFits
  <2>22. Children'
    BY <1>1, <1>2, <1>3, <2>4, <2>6, <2>19, ChildrenKept
  <2>23. Queued'
    BY <1>1, <1>3, <2>6, QueueKept
  <2>24. QED
    BY <2>9, <2>12, <2>13, <2>14, <2>17, <2>18, <2>20, <2>21, <2>22, <2>23, Whole
<1>6. QED
  BY <1>4, <1>5 DEF Scan

LEMMA DoWritten ==
  ASSUME IInv, NEW t \in Proc, Written(t)
  PROVE  IInv'
<1>1. t \in alive \ waits /\ job[t].gfp = "written"
  BY IsRunning DEF Written, Gfp
<1>2. PICK r \in Job : r = job[t] /\ r.new = 0
  BY <1>1, GfpFits
<1>3. /\ current' \in Proc \cup {NoProc}
      /\ UNCHANGED <<alive, pte, swapfree, mem, swapmem, mine, swapq, waits, version, overtaken>>
  BY DEF Written
<1>4. PICK f \in Frame : f = r.out /\ Refers(f) = {} /\ Keeps(f) = {t} /\ mem_map[f] = 1
  <2>1. r.out # 0
    BY <1>1, <1>2, Fits DEF JobFits
  <2>2. QED
    BY <1>2, <2>1, Alone
<1>5. PICK j : j = [r EXCEPT !.gfp = "swap_out", !.out = 0]
  OBVIOUS
<1>6. /\ j \in Job /\ j.gfp = "swap_out" /\ j.op = r.op /\ j.v = r.v /\ j.new = 0
      /\ j.out = 0 /\ j.nr = r.nr /\ j.child = r.child
  <2>1. /\ DOMAIN r = {"op", "v", "gfp", "new", "out", "nr", "child"}
        /\ 0 \in Frame \cup {0}
    BY DEF Job
  <2>2. /\ j.gfp = "swap_out" /\ j.op = r.op /\ j.v = r.v /\ j.new = 0
        /\ j.out = 0 /\ j.nr = r.nr /\ j.child = r.child
    BY <1>2, <1>5, <2>1
  <2>3. j \in Job
    BY <1>5, <2>1 DEF Job
  <2>4. QED
    BY <2>2, <2>3
<1>7. job' = [job EXCEPT ![t] = j] /\ mem_map' = FreePage(f)
  BY <1>2, <1>4, <1>5 DEF Written
<1>8. job' \in [Proc -> Job] /\ job'[t] = j /\ OthersSame(t)
  BY <1>6, <1>7, JobSet
<1>9. mem_map' \in [Frame -> Nat] /\ mem_map'[f] = 0 /\ \A g \in Frame \ {f} : mem_map'[g] = mem_map[g]
  BY <1>4, <1>7, Freed
<1>10. TypeOK'
  BY <1>3, <1>8, <1>9, Types DEF TypeOK
<1>11. FramesRight'
  <2>1. ASSUME NEW g \in Frame PROVE FrameRight(g)'
    <3>1. Refers(g)' = Refers(g)
      BY <1>3 DEF Refers
    <3>2. Keeps(g)' = Keeps(g) \ {t}
      BY <1>6, <1>8, KeepsAfter, Constants
    <3>3. CASE g = f
      <4>1. Keeps(f)' = {} /\ Cardinality({}) = 0
        BY <1>4, <3>2, <3>3, FS_EmptySet
      <4>2. QED
        BY <1>4, <1>9, <3>1, <3>3, <4>1 DEF FrameRight
    <3>4. CASE g # f
      <4>1. t \notin Keeps(g)
        BY <1>2, <1>4, <3>4, Constants DEF Keeps
      <4>2. Keeps(g)' = Keeps(g)
        BY <3>2, <4>1
      <4>3. QED
        BY <1>3, <1>9, <3>1, <3>4, <4>2, FrameSame
    <3>5. QED
      BY <3>3, <3>4
  <2>2. QED
    BY <2>1 DEF FramesRight
<1>12. \A n \in Swap : SwapRight(n)'
  BY <1>3, SwapsSame
<1>13. OnDisk' = OnDisk
  BY <1>3, DiskSame
<1>14. \A p \in Proc, v \in Page : Holds(p, v)' = Holds(p, v) /\ CleanRight(p, v)'
  BY <1>3, <1>13, CellsSame
<1>15. MemoryIsKept' /\ \A u \in Proc \ {t} : ForkCopied(u)' /\ NewRight(u)'
  BY <1>1, <1>3, <1>8, <1>13, <1>14, ContentsStay
<1>16. ForkCopied(t)' /\ NewRight(t)'
  <2>1. ForkCopied(t)'
    BY <1>2, <1>3, <1>6, <1>8, <1>14, CopiedStill
  <2>2. QED
    BY <1>6, <1>8, <2>1 DEF NewRight
<1>17. Gentle(t) /\ EntriesFit(t)'
  <2>1. \A p \in Proc, v \in Page : pte'[p][v] = pte[p][v] \/ pte[p][v].kind = "present"
    BY <1>3
  <2>2. EntriesFit(t)'
    BY <1>1, <1>2, <1>6, <1>8, <2>1, OwnEntries
  <2>3. QED
    BY <2>1, <2>2 DEF Gentle
<1>18. \A u \in Proc \ {t} : JobFits(u)'
  BY <1>1, <1>3, <1>8, <1>17, OthersFit
<1>19. JobFits(t)'
  BY <1>1, <1>2, <1>3, <1>6, <1>8, <1>17, StillFits
<1>20. Children'
  BY <1>1, <1>2, <1>3, <1>6, <1>8, <1>17, ChildrenKept
<1>21. Queued'
  BY <1>1, <1>3, <1>8, QueueKept
<1>22. QED
  BY <1>10, <1>11, <1>12, <1>14, <1>15, <1>16, <1>18, <1>19, <1>20, <1>21, Whole

(***************************************************************************)
(* swap_out: an entry loses its page.                                      *)
(***************************************************************************)
LEMMA FramesButOne ==
  ASSUME IInv, NEW p \in Proc, NEW v \in Page, NEW f \in Frame, pte[p][v].kind = "present" => pte[p][v].at = f,
         pte'[p][v].kind = "present" => pte'[p][v].at = f,
         \A q \in Proc, w \in Page : q # p \/ w # v => pte'[q][w] = pte[q][w],
         \A g \in Frame \ {f} : mem_map'[g] = mem_map[g] /\ Keeps(g)' = Keeps(g),
         FrameRight(f)'
  PROVE  FramesRight'
<1>1. ASSUME NEW g \in Frame \ {f} PROVE FrameRight(g)'
  <2>1. <<p, v>> \notin Refers(g)
    BY RefersTo
  <2>2. Refers(g)' = Refers(g) \ {<<p, v>>}
    BY RefersAfter
  <2>3. ASSUME NEW x \in Refers(g), pte'[x[1]][x[2]].rw PROVE pte[x[1]][x[2]].rw
    <3>1. PICK q \in Proc, w \in Page : x = <<q, w>>
      BY DEF Refers
    <3>2. pte'[q][w] = pte[q][w]
      BY <2>1, <3>1
    <3>3. QED
      BY <2>3, <3>1, <3>2
  <2>4. QED
    BY <2>1, <2>2, <2>3, FrameSame
<1>2. QED
  BY <1>1 DEF FramesRight

LEMMA DoSwapOutClean ==
  ASSUME IInv, NEW t \in Proc, NEW p \in Proc, NEW v \in Page, SwapOutClean(t, p, v)
  PROVE  IInv'
<1>1. t \in alive \ waits /\ job[t].gfp = "swap_out"
  BY IsRunning DEF SwapOutClean, Gfp
<1>2. PICK e \in Entry : e = pte[p][v] /\ e.kind = "present" /\ ~e.dirty
  BY EntryType DEF SwapOutClean, Clean
<1>3. PICK f \in Frame : f = e.at
  BY <1>2, EntryCases, EmptyEntry
<1>4. /\ SetEntry(p, v, Empty) /\ mem_map' = FreePage(f) /\ current' \in Proc \cup {NoProc}
      /\ UNCHANGED <<alive, swapfree, mem, swapmem, mine, swapq, job, waits, version, overtaken>>
  BY <1>2, <1>3 DEF SwapOutClean
<1>5. /\ pte' \in [Proc -> [Page -> Entry]] /\ pte'[p][v] = Empty
      /\ \A q \in Proc, w \in Page : q # p \/ w # v => pte'[q][w] = pte[q][w]
  BY <1>4, EmptyEntry, OneSet
<1>6. <<p, v>> \in Refers(f)
  BY <1>2, <1>3, RefersTo
<1>7. Keeps(f) = {} /\ mem_map[f] > 0
  BY <1>6, NotKept, NotRead, Counted
<1>8. /\ mem_map' \in [Frame -> Nat] /\ mem_map'[f] = mem_map[f] - 1
      /\ \A g \in Frame \ {f} : mem_map'[g] = mem_map[g]
  BY <1>4, <1>7, Freed
<1>9. TypeOK'
  BY <1>4, <1>5, <1>8, Types DEF TypeOK
<1>10. OthersSame(t) /\ \A g : Keeps(g)' = Keeps(g)
  BY <1>4 DEF OthersSame, Keeps
<1>11. FramesRight'
  <2>1. Refers(f)' = Refers(f) \ {<<p, v>>}
    BY <1>5, RefersAfter, EmptyEntry
  <2>2. /\ Cardinality(Refers(f)') = Cardinality(Refers(f)) - 1
    BY <1>6, <2>1, Counted, TakeOne
  <2>3. mem_map'[f] = Cardinality(Refers(f)') + Cardinality(Keeps(f)')
    BY <1>8, <1>10, <2>2, Counted
  <2>4. ASSUME NEW x \in Refers(f)', pte'[x[1]][x[2]].rw PROVE FALSE
    <3>1. PICK q \in Proc, w \in Page : x = <<q, w>>
      BY <2>1 DEF Refers
    <3>2. pte'[q][w] = pte[q][w] /\ x \in Refers(f) /\ x # <<p, v>>
      BY <1>5, <2>1, <2>4, <3>1
    <3>3. Refers(f) = {x}
      BY <2>4, <3>1, <3>2 DEF IInv, WritableIsPrivate
    <3>4. QED
      BY <1>6, <3>2, <3>3
  <2>5. FrameRight(f)'
    BY <1>7, <1>10, <2>3, <2>4 DEF FrameRight
  <2>6. pte[p][v].at = f /\ pte'[p][v].kind = "none"
    BY <1>2, <1>3, <1>5, EmptyEntry
  <2>7. QED
    BY <1>5, <1>8, <1>10, <2>5, <2>6, FramesButOne
<1>12. ASSUME NEW n \in Swap PROVE SwapRight(n)'
  <2>1. SwapUsers(n)' = SwapUsers(n) \ {<<p, v>>}
    BY <1>5, SwapUsersAfter, SwappedEntry, EmptyEntry
  <2>2. <<p, v>> \notin SwapUsers(n)
    BY <1>2, SwappedEntry DEF SwapUsers
  <2>3. QED
    BY <1>4, <2>1, <2>2, SwapSame
<1>13. OnDisk' = OnDisk
  BY <1>4, DiskSame
<1>14. ASSUME NEW q \in Proc, NEW w \in Page PROVE Holds(q, w)' = Holds(q, w) /\ CleanRight(q, w)'
  <2>1. CASE q = p /\ w = v
    <3>1. mem[f] = 0
      BY <1>2, <1>3, Parts DEF CleanRight
    <3>2. QED
      BY <1>2, <1>3, <1>5, <2>1, <3>1, EmptyEntry DEF Holds, Content, CleanRight
  <2>2. CASE q # p \/ w # v
    BY <1>4, <1>5, <1>13, <2>2, CellSame
  <2>3. QED
    BY <2>1, <2>2
<1>15. MemoryIsKept' /\ \A u \in Proc \ {t} : ForkCopied(u)' /\ NewRight(u)'
  BY <1>1, <1>4, <1>10, <1>13, <1>14, ContentsStay
<1>16. ForkCopied(t)' /\ NewRight(t)'
  <2>1. ForkCopied(t)'
    BY <1>4, <1>14, CopiedStill
  <2>2. QED
    BY <1>1, <1>4, <2>1 DEF NewRight
<1>17. Gentle(t) /\ EntriesFit(t)'
  <2>1. \A q \in Proc, w \in Page : pte'[q][w] = pte[q][w] \/ pte[q][w].kind = "present"
    BY <1>2, <1>5
  <2>2. EntriesFit(t)'
    BY <1>1, <1>4, <2>1, OwnEntries
  <2>3. QED
    BY <2>1, <2>2 DEF Gentle
<1>18. \A u \in Proc \ {t} : JobFits(u)'
  BY <1>1, <1>4, <1>10, <1>17, OthersFit
<1>19. JobFits(t)'
  <2>1. JobFits(t)
    BY Fits
  <2>2. QED
    BY <1>4, <1>17, <2>1 DEF JobFits, EntriesFit
<1>20. Children'
  BY <1>1, <1>4, <1>10, <1>17, ChildrenKept
<1>21. Queued'
  BY <1>1, <1>4, <1>10, QueueKept
<1>22. QED
  BY <1>9, <1>11, <1>12, <1>14, <1>15, <1>16, <1>18, <1>19, <1>20, <1>21, Whole

(* A task sends a request and waits for it. *)
LEMMA QueueJoined ==
  ASSUME IInv, NEW t \in Proc \ waits, NEW r \in SwapRequest, OthersSame(t), r.who = t,
         NEW p \in 0..Len(swapq), Placed(r, p), waits' = waits \cup {t},
         r.cmd = "write" => /\ job'[t].gfp = "written" /\ job'[t].out = r.frame
                            /\ \A u \in Proc : job[u].gfp = "read" => job[u].nr # r.nr,
         r.cmd = "read" => job'[t].gfp = "read" /\ job'[t].new = r.frame /\ job'[t].nr = r.nr
  PROVE  Queued'
<1>0. PICK m \in Nat : m = Len(swapq)
  BY Types, QueueType
<1>1. /\ Len(swapq') = m + 1 /\ p \in Nat /\ p + 1 \in 1..m + 1 /\ swapq'[p + 1] = r
      /\ \A i \in 1..m : swapq'[At(p, i)] = swapq[i]
  BY <1>0, Types, Joined
<1>2. \A i \in 1..m : swapq[i] \in SwapRequest /\ swapq[i].who \in waits /\ swapq[i].who # t
  BY <1>0, Types, QueueType DEF IInv, Queued
<1>3. \A i \in 1..m : job'[swapq[i].who] = job[swapq[i].who] /\ swapq[i].who \in Proc
  BY <1>2 DEF OthersSame, SwapRequest
<1>10. p \in 0..m
  BY <1>0
<1>11. /\ \A i \in 1..m : At(p, i) \in 1..m + 1
       /\ \A k \in 1..m + 1 : k = p + 1 \/ \E i \in 1..m : k = At(p, i)
  BY <1>10, InOrder
<1>13. \A i, k \in 1..m : At(p, i) <= At(p, k) <=> i <= k
  BY <1>10, InOrder
<1>12. ASSUME NEW k \in 1..m + 1, k # p + 1
       PROVE  \E i \in 1..m : k = At(p, i) /\ swapq'[k] = swapq[i]
  <2>1. PICK i \in 1..m : k = At(p, i)
    BY <1>11, <1>12
  <2>2. QED
    BY <1>1, <2>1
<1>4. ASSUME NEW u \in waits' PROVE \E i \in 1..m + 1 : swapq'[i].who = u
  <2>1. CASE u = t
    BY <1>1, <2>1
  <2>2. CASE u # t
    <3>1. PICK i \in 1..m : swapq[i].who = u
      BY <1>0, <2>2 DEF IInv, Queued
    <3>2. At(p, i) \in 1..m + 1 /\ swapq'[At(p, i)].who = u
      BY <1>1, <1>11, <3>1
    <3>3. QED
      BY <3>2
  <2>3. QED
    BY <2>1, <2>2
<1>5. ASSUME NEW k \in 1..m + 1
      PROVE  /\ swapq'[k].who \in waits'
             /\ swapq'[k].cmd = "write" => /\ job'[swapq'[k].who].gfp = "written"
                                           /\ job'[swapq'[k].who].out = swapq'[k].frame
             /\ swapq'[k].cmd = "read" => /\ job'[swapq'[k].who].gfp = "read"
                                          /\ job'[swapq'[k].who].new = swapq'[k].frame
                                          /\ job'[swapq'[k].who].nr = swapq'[k].nr
  <2>1. CASE k = p + 1
    BY <1>1, <2>1
  <2>2. CASE k # p + 1
    <3>1. PICK i \in 1..m : swapq'[k] = swapq[i]
      BY <1>12, <2>2
    <3>2. QED
      BY <1>0, <1>2, <1>3, <3>1 DEF IInv, Queued
  <2>3. QED
    BY <2>1, <2>2
<1>6. ASSUME ~overtaken', NEW i \in 1..m + 1, swapq'[i].cmd = "read",
             NEW k \in i + 1..m + 1, swapq'[k].cmd = "write"
      PROVE  swapq'[k].nr # swapq'[i].nr
  <2>1. ~overtaken /\ \A l \in p + 1..m : swapq[l].nr # r.nr
    BY <1>0, <1>6 DEF Placed
  <2>2. k \in 1..m + 1 /\ i < k
    BY <1>6
  <2>3. CASE i = p + 1
    <3>1. PICK l \in 1..m : k = At(p, l) /\ swapq'[k] = swapq[l]
      BY <1>12, <2>2, <2>3
    <3>2. l \in p + 1..m
      BY <1>1, <1>10, <2>2, <2>3, <3>1, InOrder
    <3>3. QED
      BY <1>1, <2>1, <2>3, <3>1, <3>2
  <2>4. CASE i # p + 1 /\ k = p + 1
    <3>1. PICK l \in 1..m : swapq'[i] = swapq[l]
      BY <1>12, <2>4
    <3>2. job[swapq[l].who].gfp = "read" /\ job[swapq[l].who].nr = swapq[l].nr
      BY <1>0, <1>6, <3>1 DEF IInv, Queued
    <3>3. QED
      BY <1>1, <1>3, <1>6, <2>4, <3>1, <3>2
  <2>5. CASE i # p + 1 /\ k # p + 1
    <3>1. PICK l \in 1..m : i = At(p, l) /\ swapq'[i] = swapq[l]
      BY <1>12, <2>5
    <3>2. PICK n \in 1..m : k = At(p, n) /\ swapq'[k] = swapq[n]
      BY <1>12, <2>2, <2>5
    <3>3. ~(At(p, n) <= At(p, l))
      BY <2>2, <3>1, <3>2
    <3>4. n \in l + 1..m
      <4>1. ~(n <= l)
        BY <1>13, <3>3
      <4>2. QED
        BY <4>1
    <3>5. QED
      BY <1>0, <1>6, <2>1, <3>1, <3>2, <3>4 DEF IInv, Queued
  <2>6. QED
    BY <2>3, <2>4, <2>5
<1>7. ASSUME NEW i \in 1..m + 1, NEW k \in 1..m + 1, swapq'[i].who = swapq'[k].who
      PROVE  i = k
  <2>1. CASE i = p + 1 \/ k = p + 1
    BY <1>1, <1>2, <1>7, <1>12, <2>1
  <2>2. CASE i # p + 1 /\ k # p + 1
    <3>1. PICK l \in 1..m : i = At(p, l) /\ swapq'[i] = swapq[l]
      BY <1>12, <2>2
    <3>2. PICK n \in 1..m : k = At(p, n) /\ swapq'[k] = swapq[n]
      BY <1>12, <2>2
    <3>3. l = n
      BY <1>0, <1>7, <3>1, <3>2 DEF IInv, Queued
    <3>4. QED
      BY <3>1, <3>2, <3>3
  <2>3. QED
    BY <2>1, <2>2
<1>8. QED
  BY <1>1, <1>4, <1>5, <1>6, <1>7 DEF Queued

LEMMA DoReadSwap ==
  ASSUME IInv, NEW t \in Proc, ReadSwap(t)
  PROVE  IInv'
<1>1. t \in alive \ waits /\ job[t].gfp = "done" /\ job[t].op \in {"swap_in", "fork"}
  BY IsRunning DEF ReadSwap, Gfp
<1>2. PICK r \in Job : r = job[t] /\ r.out = 0
  BY <1>1, GfpFits
<1>3. PICK f \in Frame : f = r.new
  BY <1>1, <1>2, Fits DEF JobFits, Job
<1>4. r.nr \in Swap
  BY <1>1, <1>2, Fits DEF JobFits
<1>5. PICK q : q = [who |-> t, cmd |-> "read", nr |-> r.nr, frame |-> f]
  OBVIOUS
<1>6. q \in SwapRequest /\ q.who = t /\ q.cmd = "read" /\ q.nr = r.nr /\ q.frame = f
  BY <1>3, <1>4, <1>5 DEF SwapRequest
<1>7. PICK j : j = [r EXCEPT !.gfp = "read"]
  OBVIOUS
<1>8. /\ j \in Job /\ j.gfp = "read" /\ j.op = r.op /\ j.v = r.v /\ j.new = f
      /\ j.out = 0 /\ j.nr = r.nr /\ j.child = r.child
  BY <1>2, <1>3, <1>7 DEF Job
<1>30. PICK p \in 0..Len(swapq) : Placed(q, p)
  BY <1>2, <1>3, <1>5 DEF ReadSwap, AddRequest, Placed
<1>31. (overtaken => overtaken') /\ overtaken' \in BOOLEAN
  BY <1>30, Types DEF Placed, TypeOK
<1>9. /\ job' = [job EXCEPT ![t] = j] /\ waits' = waits \cup {t}
      /\ current' \in Proc \cup {NoProc}
      /\ UNCHANGED <<alive, pte, mem_map, swapfree, mem, swapmem, mine, version>>
  BY <1>2, <1>3, <1>5, <1>7 DEF ReadSwap
<1>10. job' \in [Proc -> Job] /\ job'[t] = j /\ OthersSame(t)
  BY <1>8, <1>9, JobSet
<1>11. TypeOK'
  BY <1>6, <1>9, <1>10, <1>30, <1>31, Types, Joined DEF TypeOK
<1>12. FramesRight'
  <2>1. \A u \in Proc : job'[u].new = job[u].new /\ job'[u].out = job[u].out
    BY <1>2, <1>3, <1>8, <1>10 DEF OthersSame
  <2>2. QED
    BY <1>9, <2>1, FramesSame
<1>13. \A n \in Swap : SwapRight(n)'
  BY <1>9, SwapsSame
<1>14. \A n \in Swap : OnDisk'[n] = OnDisk[n]
  BY <1>6, <1>9, <1>11, <1>30, Types, DiskKeeps
<1>15. \A a \in Proc, v \in Page : Holds(a, v)' = Holds(a, v) /\ CleanRight(a, v)'
  BY <1>9, <1>14, CellsSame
<1>16. \A u \in Proc : job[u].gfp = "read" => OnDisk'[job[u].nr] = OnDisk[job[u].nr]
  BY <1>14, ReadsSwap
<1>17. MemoryIsKept' /\ \A u \in Proc \ {t} : ForkCopied(u)' /\ NewRight(u)'
  BY <1>1, <1>9, <1>10, <1>15, <1>16, <1>31, ContentsStay
<1>18. ForkCopied(t)' /\ NewRight(t)'
  <2>1. ForkCopied(t)'
    BY <1>2, <1>8, <1>9, <1>10, <1>15, <1>31, CopiedStill
  <2>2. QED
    BY <1>8, <1>9, <1>10, <2>1 DEF NewRight
<1>19. Gentle(t) /\ EntriesFit(t)'
  <2>1. \A a \in Proc, v \in Page : pte'[a][v] = pte[a][v] \/ pte[a][v].kind = "present"
    BY <1>9
  <2>2. EntriesFit(t)'
    BY <1>1, <1>2, <1>8, <1>10, <2>1, OwnEntries
  <2>3. QED
    BY <2>1, <2>2 DEF Gentle
<1>20. \A u \in Proc \ {t} : JobFits(u)'
  BY <1>1, <1>9, <1>10, <1>19, OthersFit
<1>21. JobFits(t)'
  <2>1. f # 0
    BY Constants
  <2>2. QED
    BY <1>1, <1>2, <1>8, <1>9, <1>10, <1>19, <2>1, StillFits
<1>22. Children'
  BY <1>1, <1>2, <1>8, <1>9, <1>10, <1>19, ChildrenKept
<1>23. Queued'
  BY <1>1, <1>6, <1>8, <1>9, <1>10, <1>30, QueueJoined
<1>24. QED
  BY <1>11, <1>12, <1>13, <1>15, <1>17, <1>18, <1>20, <1>21, <1>22, <1>23, Whole

LEMMA DoSwapOutDirty ==
  ASSUME IInv, NEW t \in Proc, NEW p \in Proc, NEW v \in Page, SwapOutDirty(t, p, v)
  PROVE  IInv'
<1>1. t \in alive \ waits /\ job[t].gfp = "swap_out"
  BY IsRunning DEF SwapOutDirty, Gfp
<1>2. PICK e \in Entry : e = pte[p][v] /\ e.kind = "present" /\ e.dirty /\ mem_map[e.at] = 1
  BY EntryType DEF SwapOutDirty, Dirty
<1>3. PICK f \in Frame : f = e.at
  BY <1>2, EntryCases, EmptyEntry
<1>4. PICK n \in Swap : n = Min(swapfree) /\ n \in swapfree
  <2>1. swapfree \in SUBSET (1..NSwap) /\ NSwap \in Nat /\ swapfree # {}
    BY Types, Constants DEF TypeOK, Swap, SwapOutDirty
  <2>2. Min(swapfree) \in swapfree
    BY <2>1, MinIn
  <2>3. QED
    BY <2>2, Types DEF TypeOK
<1>5. PICK r \in Job : r = job[t] /\ r.new = 0 /\ r.out = 0
  BY <1>1, GfpFits
<1>6. PICK q : q = [who |-> t, cmd |-> "write", nr |-> n, frame |-> f]
  OBVIOUS
<1>7. q \in SwapRequest /\ q.who = t /\ q.cmd = "write" /\ q.nr = n /\ q.frame = f
  BY <1>6 DEF SwapRequest
<1>8. PICK j : j = [r EXCEPT !.gfp = "written", !.out = f]
  OBVIOUS
<1>9. /\ j \in Job /\ j.gfp = "written" /\ j.op = r.op /\ j.v = r.v /\ j.new = 0
      /\ j.out = f /\ j.nr = r.nr /\ j.child = r.child
  BY <1>5, <1>8 DEF Job
<1>40. PICK k \in 0..Len(swapq) : Placed(q, k)
  BY <1>2, <1>3, <1>4, <1>6 DEF SwapOutDirty, AddRequest, Placed
<1>41. (overtaken => overtaken') /\ overtaken' \in BOOLEAN
  BY <1>40, Types DEF Placed, TypeOK
<1>10. /\ swapfree' = swapfree \ {n} /\ SetEntry(p, v, Swapped(n))
       /\ job' = [job EXCEPT ![t] = j] /\ waits' = waits \cup {t}
       /\ current' \in Proc \cup {NoProc}
       /\ UNCHANGED <<alive, mem_map, mem, swapmem, mine, version>>
  BY <1>2, <1>3, <1>4, <1>5, <1>6, <1>8 DEF SwapOutDirty
<1>11. job' \in [Proc -> Job] /\ job'[t] = j /\ OthersSame(t)
  BY <1>9, <1>10, JobSet
<1>12. /\ pte' \in [Proc -> [Page -> Entry]] /\ pte'[p][v] = Swapped(n)
       /\ \A s \in Proc, w \in Page : s # p \/ w # v => pte'[s][w] = pte[s][w]
  BY <1>10, SwappedEntry, OneSet
<1>13. TypeOK'
  BY <1>7, <1>10, <1>11, <1>12, <1>40, <1>41, Types, Joined DEF TypeOK
<1>14. <<p, v>> \in Refers(f)
  BY <1>2, <1>3, RefersTo
<1>15. Refers(f) = {<<p, v>>} /\ Keeps(f) = {} /\ mem_map[f] = 1
  BY <1>2, <1>3, <1>14, Counted
<1>16. FramesRight'
  <2>1. Refers(f)' = {}
    <3>1. Refers(f)' = Refers(f) \ {<<p, v>>}
      BY <1>12, RefersAfter, SwappedEntry
    <3>2. QED
      BY <1>15, <3>1
  <2>2. Keeps(f)' = {t}
    BY <1>9, <1>11, <1>15, KeepsAfter
  <2>3. Cardinality(Refers(f)') = 0 /\ Cardinality(Keeps(f)') = 1
    BY <2>1, <2>2, FS_EmptySet, Singleton
  <2>4. mem_map'[f] = Cardinality(Refers(f)') + Cardinality(Keeps(f)')
    BY <1>10, <1>15, <2>3
  <2>5. FrameRight(f)'
    BY <2>1, <2>2, <2>4 DEF FrameRight
  <2>6. ASSUME NEW g \in Frame \ {f} PROVE Keeps(g)' = Keeps(g)
    <3>1. t \notin Keeps(g) /\ g # 0
      BY <1>5, Constants DEF Keeps
    <3>2. Keeps(g)' = IF job'[t].new = g \/ job'[t].out = g THEN Keeps(g) \cup {t} ELSE Keeps(g) \ {t}
      BY <1>11, KeepsAfter
    <3>3. QED
      BY <1>9, <1>11, <3>1, <3>2
  <2>7. pte[p][v].at = f /\ pte'[p][v].kind = "swap" /\ mem_map' = mem_map
    BY <1>2, <1>3, <1>10, <1>12, SwappedEntry
  <2>8. QED
    BY <1>12, <2>5, <2>6, <2>7, FramesButOne
<1>17. SwapUsers(n) = {}
  BY <1>4, Parts DEF SwapRight
<1>18. ASSUME NEW m \in Swap PROVE SwapRight(m)'
  <2>1. CASE m = n
    <3>1. SwapUsers(n)' = SwapUsers(n) \cup {<<p, v>>}
      BY <1>12, SwapUsersAfter
    <3>2. SwapUsers(n)' = {<<p, v>>} /\ n \notin swapfree'
      BY <1>10, <1>17, <3>1
    <3>3. QED
      BY <2>1, <3>2 DEF SwapRight
  <2>2. CASE m # n
    <3>1. Swapped(n) # Swapped(m)
      BY <2>2, SwappedEntry
    <3>2. SwapUsers(m)' = SwapUsers(m) \ {<<p, v>>}
      BY <1>12, <3>1, SwapUsersAfter
    <3>3. <<p, v>> \notin SwapUsers(m)
      BY <1>2, SwappedEntry DEF SwapUsers
    <3>4. SwapUsers(m)' = SwapUsers(m) /\ (m \in swapfree' <=> m \in swapfree)
      BY <1>10, <2>2, <3>2, <3>3
    <3>5. SwapRight(m)
      BY Parts
    <3>6. QED
      BY <3>4, <3>5 DEF SwapRight
  <2>3. QED
    BY <2>1, <2>2
<1>19. (~overtaken' => OnDisk'[n] = mem[f]) /\ \A m \in Swap \ {n} : OnDisk'[m] = OnDisk[m]
  <2>1. ~overtaken' => OnDisk'[n] = mem[f]
    BY <1>7, <1>10, <1>13, <1>40, Types, DiskAfterWrite
  <2>2. \A m \in Swap \ {n} : OnDisk'[m] = OnDisk[m]
    BY <1>7, <1>10, <1>13, <1>40, Types, DiskKeeps
  <2>3. QED
    BY <2>1, <2>2
<1>20. ASSUME NEW s \in Proc, NEW w \in Page, pte[s][w] = Swapped(n) PROVE FALSE
  <2>1. <<s, w>> \in SwapUsers(n)
    BY <1>20 DEF SwapUsers, Swapped
  <2>2. QED
    BY <1>17, <2>1
<1>21. ASSUME NEW s \in Proc, NEW w \in Page
       PROVE  (~overtaken' => Holds(s, w)' = Holds(s, w)) /\ CleanRight(s, w)'
  <2>1. CASE s = p /\ w = v
    <3>1. Holds(p, v)' = OnDisk'[n] /\ Holds(p, v) = mem[f]
      BY <1>2, <1>3, <1>12, SwappedEntry DEF Holds, Content
    <3>2. CleanRight(p, v)'
      BY <1>12, SwappedEntry DEF CleanRight
    <3>3. QED
      BY <1>19, <2>1, <3>1, <3>2
  <2>2. CASE s # p \/ w # v
    <3>1. pte[s][w] \in Entry /\ pte'[s][w] = pte[s][w]
      BY <1>12, <2>2, EntryType
    <3>2. pte[s][w].kind = "swap" => pte[s][w].at \in Swap \ {n}
      BY <1>20, <3>1, EntryCases, EmptyEntry
    <3>3. QED
      BY <1>10, <1>19, <3>1, <3>2, CellSame
  <2>3. QED
    BY <2>1, <2>2
<1>22. \A u \in Proc : job[u].gfp = "read" => job[u].nr # n /\ OnDisk'[job[u].nr] = OnDisk[job[u].nr]
  BY <1>19, <1>20, ReadsSwap
<1>23. MemoryIsKept' /\ \A u \in Proc \ {t} : ForkCopied(u)' /\ NewRight(u)'
  BY <1>1, <1>10, <1>11, <1>21, <1>22, <1>41, ContentsStay
<1>24. ForkCopied(t)' /\ NewRight(t)'
  <2>1. ForkCopied(t)'
    BY <1>5, <1>9, <1>10, <1>11, <1>21, <1>41, CopiedStill
  <2>2. QED
    BY <1>9, <1>11, <2>1 DEF NewRight
<1>25. Gentle(t) /\ EntriesFit(t)'
  <2>1. \A s \in Proc, w \in Page : pte'[s][w] = pte[s][w] \/ pte[s][w].kind = "present"
    BY <1>2, <1>12
  <2>2. EntriesFit(t)'
    BY <1>1, <1>5, <1>9, <1>11, <2>1, OwnEntries
  <2>3. QED
    BY <2>1, <2>2 DEF Gentle
<1>26. \A u \in Proc \ {t} : JobFits(u)'
  BY <1>1, <1>10, <1>11, <1>25, OthersFit
<1>27. JobFits(t)'
  <2>1. f # 0
    BY Constants
  <2>2. QED
    BY <1>1, <1>5, <1>9, <1>10, <1>11, <1>25, <2>1, StillFits
<1>28. Children'
  BY <1>1, <1>5, <1>9, <1>10, <1>11, <1>25, ChildrenKept
<1>29. Queued'
  BY <1>1, <1>7, <1>9, <1>10, <1>11, <1>22, <1>40, QueueJoined
<1>30. QED
  BY <1>13, <1>16, <1>18, <1>21, <1>23, <1>24, <1>26, <1>27, <1>28, <1>29, Whole

(* The device ends a request. *)
LEMMA DoSwapInterrupt ==
  ASSUME IInv, SwapInterrupt
  PROVE  IInv'
<1>0. PICK m \in Nat : Len(swapq) = m + 1
  <2>1. Len(swapq) \in Nat \ {0}
    BY Types, Left DEF SwapInterrupt
  <2>2. Len(swapq) - 1 \in Nat /\ Len(swapq) = (Len(swapq) - 1) + 1
    BY <2>1
  <2>3. QED
    BY <2>2
<1>1. /\ Len(swapq') = m /\ swapq[1] \in SwapRequest /\ \A i \in 1..m : swapq'[i] = swapq[i + 1]
      /\ Head(swapq) = swapq[1] /\ swapq' \in Seq(SwapRequest)
  BY <1>0, Types, Left DEF SwapInterrupt
<1>2. PICK r \in SwapRequest : r = swapq[1]
  BY <1>1
<1>3. /\ r.who \in Proc /\ r.cmd \in {"read", "write"} /\ r.nr \in Swap /\ r.frame \in Frame
      /\ 1 \in 1..Len(swapq)
  BY <1>0 DEF SwapRequest
<1>4. /\ r.who \in waits
      /\ r.cmd = "write" => job[r.who].gfp = "written" /\ job[r.who].out = r.frame
      /\ r.cmd = "read" => /\ job[r.who].gfp = "read" /\ job[r.who].new = r.frame /\ job[r.who].nr = r.nr
                           /\ ~overtaken => \A k \in 2..m + 1 : swapq[k].cmd = "write" => swapq[k].nr # r.nr
  BY <1>0, <1>2, <1>3 DEF IInv, Queued
<1>5. /\ waits' = waits \ {r.who} /\ UNCHANGED <<alive, pte, mem_map, swapfree, mine, job, current, version, overtaken>>
      /\ r.cmd = "write" => swapmem' = [swapmem EXCEPT ![r.nr] = mem[r.frame]] /\ mem' = mem
      /\ r.cmd = "read" => mem' = [mem EXCEPT ![r.frame] = swapmem[r.nr]] /\ swapmem' = swapmem
  BY <1>1, <1>2 DEF SwapInterrupt
<1>6. /\ mem' \in [Frame -> 0..MaxWrites] /\ swapmem' \in [Swap -> 0..MaxWrites]
  BY <1>3, <1>5, Types DEF TypeOK
<1>7. TypeOK'
  BY <1>1, <1>5, <1>6, Types DEF TypeOK
<1>8. \A n \in Swap : OnDisk'[n] = OnDisk[n]
  BY <1>7, DiskAfterEnd
<1>9. FramesRight'
  BY <1>5, FramesSame
<1>10. \A n \in Swap : SwapRight(n)'
  BY <1>5, SwapsSame
<1>11. r.cmd = "read" => Refers(r.frame) = {} /\ Keeps(r.frame) = {r.who}
  BY <1>3, <1>4, Alone, Constants
<1>12. \A g \in Frame : (r.cmd = "read" => g # r.frame) => mem'[g] = mem[g]
  BY <1>3, <1>5, Types DEF TypeOK
<1>13. ASSUME NEW p \in Proc, NEW w \in Page PROVE Holds(p, w)' = Holds(p, w) /\ CleanRight(p, w)'
  <2>1. pte[p][w] \in Entry /\ pte'[p][w] = pte[p][w]
    BY <1>5, EntryType
  <2>2. pte[p][w].kind = "present" => pte[p][w].at \in Frame /\ (r.cmd = "read" => pte[p][w].at # r.frame)
    <3>1. r.cmd = "read" => <<p, w>> \notin Refers(r.frame)
      BY <1>11
    <3>2. pte[p][w].kind = "present" => pte[p][w].at \in Frame
      BY <2>1, EntryCases, EmptyEntry
    <3>3. QED
      BY <3>1, <3>2 DEF Refers
  <2>3. pte[p][w].kind = "swap" => pte[p][w].at \in Swap
    BY <2>1, EntryCases, EmptyEntry
  <2>4. QED
    BY <1>8, <1>12, <2>1, <2>2, <2>3, CellSame
<1>14. MemoryIsKept'
  BY <1>5, <1>7, <1>13, MemoryStays DEF TypeOK
<1>15. \A u \in Proc : ForkCopied(u)'
  BY <1>5, <1>13, CopiedStill
<1>16. ASSUME NEW u \in Proc PROVE JobFits(u)'
  <2>1. JobFits(u)
    BY Fits
  <2>2. QED
    BY <1>5, <2>1 DEF JobFits
<1>17. Children'
  BY <1>5 DEF IInv, Children
<1>18. ASSUME NEW u \in Proc PROVE NewRight(u)'
  <2>1. CASE u = r.who
    <3>1. r.cmd = "write" => NewRight(u)'
      BY <1>4, <1>5, <2>1 DEF NewRight
    <3>2. ASSUME r.cmd = "read" PROVE NewRight(u)'
      <4>1. ~overtaken => InFlight(r.nr) = {}
        <5>1. ASSUME ~overtaken, NEW i \in InFlight(r.nr) PROVE FALSE
          <6>1. i \in 1..m + 1 /\ swapq[i].cmd = "write" /\ swapq[i].nr = r.nr
            BY <1>0 DEF InFlight
          <6>2. i # 1
            BY <1>2, <3>2, <6>1
          <6>3. i \in 2..m + 1
            BY <6>1, <6>2
          <6>4. QED
            BY <1>4, <3>2, <5>1, <6>1, <6>3
        <5>2. QED
          BY <5>1
      <4>2. ~overtaken => OnDisk[r.nr] = swapmem[r.nr]
        BY <1>3, <4>1, NoneDecides
      <4>3. mem'[r.frame] = swapmem[r.nr]
        BY <1>3, <1>5, <3>2, Types DEF TypeOK
      <4>4. QED
        BY <1>3, <1>4, <1>5, <1>8, <2>1, <3>2, <4>2, <4>3 DEF NewRight
    <3>3. QED
      BY <1>3, <3>1, <3>2
  <2>2. CASE u # r.who
    <3>1. job[u].new # 0 => mem'[job[u].new] = mem[job[u].new]
      <4>1. ASSUME job[u].new # 0 PROVE mem'[job[u].new] = mem[job[u].new]
        <5>1. job[u].new \in Frame /\ Keeps(job[u].new) = {u}
          BY <4>1, Alone
        <5>2. r.cmd = "read" => job[u].new # r.frame
          BY <1>11, <2>2, <5>1
        <5>3. QED
          BY <1>12, <5>1, <5>2
      <4>2. QED
        BY <4>1
    <3>2. job[u].gfp = "read" => OnDisk'[job[u].nr] = OnDisk[job[u].nr]
      BY <1>8, ReadsSwap
    <3>3. NewRight(u) /\ JobFits(u)
      BY Parts
    <3>4. job[u].gfp \in {"done", "read"} => job[u].new # 0
      BY <3>3 DEF JobFits
    <3>5. QED
      BY <1>5, <2>2, <3>1, <3>2, <3>3, <3>4 DEF NewRight
  <2>3. QED
    BY <2>1, <2>2
<1>19. Queued'
  <2>1. ASSUME NEW i \in 1..m PROVE swapq'[i] = swapq[i + 1] /\ i + 1 \in 1..m + 1 /\ swapq[i + 1].who # r.who
    <3>1. i + 1 \in 1..m + 1 /\ i + 1 # 1 /\ 1 \in 1..m + 1
      OBVIOUS
    <3>2. PICK k \in 1..m + 1 : k = i + 1 /\ k # 1
      BY <3>1
    <3>3. swapq[k].who # swapq[1].who
      BY <1>0, <3>1, <3>2 DEF IInv, Queued
    <3>4. QED
      BY <1>1, <1>2, <3>1, <3>2, <3>3
  <2>2. ASSUME NEW u \in waits' PROVE \E i \in 1..m : swapq'[i].who = u
    <3>1. PICK i \in 1..m + 1 : swapq[i].who = u
      BY <1>0, <1>5 DEF IInv, Queued
    <3>2. i # 1
      BY <1>2, <1>5, <3>1
    <3>3. i - 1 \in 1..m /\ (i - 1) + 1 = i
      BY <3>1, <3>2
    <3>4. PICK k \in 1..m : k + 1 = i
      BY <3>3
    <3>5. QED
      BY <2>1, <3>1, <3>4
  <2>3. ASSUME NEW i \in 1..m
        PROVE  /\ swapq'[i].who \in waits'
               /\ swapq'[i].cmd = "write" => /\ job'[swapq'[i].who].gfp = "written"
                                             /\ job'[swapq'[i].who].out = swapq'[i].frame
               /\ swapq'[i].cmd = "read" => /\ job'[swapq'[i].who].gfp = "read"
                                            /\ job'[swapq'[i].who].new = swapq'[i].frame
                                            /\ job'[swapq'[i].who].nr = swapq'[i].nr
    <3>1. PICK k \in 1..m + 1 : k = i + 1 /\ swapq'[i] = swapq[k] /\ swapq[k].who # r.who
      BY <2>1
    <3>2. QED
      BY <1>0, <1>5, <3>1 DEF IInv, Queued
  <2>4. ASSUME ~overtaken', NEW i \in 1..m, swapq'[i].cmd = "read", NEW k \in i + 1..m, swapq'[k].cmd = "write"
        PROVE  swapq'[k].nr # swapq'[i].nr
    <3>1. k \in 1..m /\ k + 1 \in (i + 1) + 1..m + 1
      BY <2>4
    <3>2. PICK a \in 1..m + 1 : a = i + 1 /\ swapq'[i] = swapq[a]
      BY <2>1
    <3>3. PICK b \in 1..m + 1 : b = k + 1 /\ swapq'[k] = swapq[b]
      BY <2>1, <3>1
    <3>4. b \in a + 1..m + 1
      BY <3>1, <3>2, <3>3
    <3>5. QED
      BY <1>0, <1>5, <2>4, <3>2, <3>3, <3>4 DEF IInv, Queued
  <2>5. ASSUME NEW i \in 1..m, NEW k \in 1..m, swapq'[i].who = swapq'[k].who
        PROVE  i = k
    <3>1. PICK a \in 1..m + 1 : a = i + 1 /\ swapq'[i] = swapq[a]
      BY <2>1
    <3>2. PICK b \in 1..m + 1 : b = k + 1 /\ swapq'[k] = swapq[b]
      BY <2>1
    <3>3. a = b
      BY <1>0, <2>5, <3>1, <3>2 DEF IInv, Queued
    <3>4. QED
      BY <3>1, <3>2, <3>3
  <2>6. QED
    BY <1>1, <2>2, <2>3, <2>4, <2>5 DEF Queued
<1>20. QED
  BY <1>7, <1>9, <1>10, <1>13, <1>14, <1>15, <1>16, <1>17, <1>18, <1>19, Whole

(***************************************************************************)
(* The faults: a page the task holds goes into its table.                  *)
(***************************************************************************)
LEMMA Returns ==
  ASSUME IInv, NEW t \in Proc, Return(t)
  PROVE  /\ job' \in [Proc -> Job] /\ job'[t] = User /\ OthersSame(t) /\ current' = NoProc
         /\ JobFits(t)' /\ ForkCopied(t)' /\ NewRight(t)'
<1>1. job' = [job EXCEPT ![t] = User] /\ current' = NoProc
  BY DEF Return
<1>2. job' \in [Proc -> Job] /\ job'[t] = User /\ OthersSame(t)
  BY <1>1, UserJob, JobSet
<1>3. JobFits(t)' /\ ForkCopied(t)' /\ NewRight(t)'
  BY <1>2, UserJob DEF JobFits, ForkCopied, NewRight
<1>4. QED
  BY <1>1, <1>2, <1>3

(* What a task holds whose get_free_page has returned a page. *)
LEMMA GotPage ==
  ASSUME IInv, NEW t \in Proc, job[t].gfp \in {"done", "read"}
  PROVE  /\ job[t].new \in Frame /\ job[t].out = 0 /\ Refers(job[t].new) = {}
         /\ Keeps(job[t].new) = {t} /\ mem_map[job[t].new] = 1
         /\ \A u \in Proc : job[u].out # job[t].new
         /\ \A u \in Proc \ {t} : job[u].new # job[t].new
<1>1. job[t].new # 0 /\ job[t].out = 0
  BY Fits DEF JobFits
<1>2. /\ job[t].new \in Frame /\ Refers(job[t].new) = {} /\ Keeps(job[t].new) = {t}
      /\ mem_map[job[t].new] = 1
  BY <1>1, Alone
<1>3. \A u \in Proc : job[u].out # job[t].new
  BY <1>1, <1>2 DEF Keeps
<1>4. \A u \in Proc \ {t} : job[u].new # job[t].new
  BY <1>2 DEF Keeps
<1>5. QED
  BY <1>1, <1>2, <1>3, <1>4

LEMMA PageMapped ==
  ASSUME IInv, NEW t \in Proc, NEW v \in Page, NEW f \in Frame, f = job[t].new, job[t].out = 0,
         pte[t][v].kind # "present", pte'[t][v].kind = "present", pte'[t][v].at = f,
         \A q \in Proc, w \in Page : q # t \/ w # v =>
            pte'[q][w] = pte[q][w] \/ (pte'[q][w].kind # "present" /\ pte[q][w].kind # "present"),
         UNCHANGED mem_map, OthersSame(t), job'[t].new = 0, job'[t].out = 0
  PROVE  FramesRight'
<1>1. f # 0
  BY Constants
<1>2. Refers(f) = {} /\ Keeps(f) = {t} /\ mem_map[f] = 1
  BY <1>1, Alone
<1>3. ASSUME NEW g \in Frame, NEW q \in Proc, NEW w \in Page, q # t \/ w # v
      PROVE  <<q, w>> \in Refers(g)' <=> <<q, w>> \in Refers(g)
  BY <1>3 DEF Refers
<1>4. \A g \in Frame : <<t, v>> \notin Refers(g) /\ (<<t, v>> \in Refers(g)' <=> g = f)
  BY DEF Refers
<1>5. \A g \in Frame : Refers(g) \subseteq Cell /\ Refers(g)' \subseteq Cell
  BY DEF Refers, Cell
<1>6. ASSUME NEW g \in Frame PROVE Refers(g)' = IF g = f THEN Refers(g) \cup {<<t, v>>} ELSE Refers(g)
  <2>1. ASSUME NEW x PROVE x \in Refers(g)' <=> x \in Refers(g) \/ (g = f /\ x = <<t, v>>)
    <3>1. x \in Refers(g)' \/ x \in Refers(g) => \E p \in Proc, w \in Page : x = <<p, w>>
      BY <1>5 DEF Cell
    <3>2. QED
      BY <1>3, <1>4, <3>1
  <2>2. QED
    BY <2>1
<1>7. \A g \in Frame : Keeps(g)' = Keeps(g) \ {t}
  BY KeepsAfter, Constants
<1>8. FrameRight(f)'
  <2>1. Refers(f)' = {<<t, v>>} /\ Keeps(f)' = {}
    BY <1>2, <1>6, <1>7
  <2>2. Cardinality(Refers(f)') = 1 /\ Cardinality(Keeps(f)') = 0
    BY <2>1, Singleton, FS_EmptySet
  <2>3. mem_map'[f] = Cardinality(Refers(f)') + Cardinality(Keeps(f)')
    BY <1>2, <2>2
  <2>4. QED
    BY <2>1, <2>3 DEF FrameRight
<1>9. ASSUME NEW g \in Frame \ {f} PROVE FrameRight(g)'
  <2>1. Refers(g)' = Refers(g)
    BY <1>6
  <2>2. t \notin Keeps(g)
    BY Constants DEF Keeps
  <2>3. Keeps(g)' = Keeps(g)
    BY <1>7, <2>2
  <2>4. ASSUME NEW x \in Refers(g), pte'[x[1]][x[2]].rw PROVE pte[x[1]][x[2]].rw
    <3>1. PICK q \in Proc, w \in Page : x = <<q, w>> /\ pte[q][w].kind = "present"
      BY DEF Refers
    <3>2. pte'[q][w] = pte[q][w]
      BY <3>1
    <3>3. QED
      BY <2>4, <3>1, <3>2
  <2>5. QED
    BY <2>1, <2>3, <2>4, FrameSame
<1>10. QED
  BY <1>8, <1>9 DEF FramesRight

LEMMA DoPutPage ==
  ASSUME IInv, NEW t \in Proc, PutPage(t)
  PROVE  IInv'
<1>1. t \in alive \ waits /\ job[t].gfp = "done" /\ job[t].op \in {"get_empty_page", "do_no_page"}
  BY IsRunning DEF PutPage, Gfp
<1>2. PICK v \in Page : v = job[t].v /\ pte[t][v] = Empty /\ job[t].child = NoProc
  BY <1>1, Fits DEF JobFits
<1>3. PICK f \in Frame : f = job[t].new /\ job[t].out = 0
  BY <1>1, GotPage
<1>4. /\ SetEntry(t, v, Present(f, TRUE, FALSE)) /\ Return(t)
      /\ UNCHANGED <<alive, mem_map, swapfree, mem, swapmem, mine, swapq, waits, version, overtaken>>
  BY <1>2, <1>3 DEF PutPage
<1>5. PICK e \in Entry : /\ e = Present(f, TRUE, FALSE) /\ e.kind = "present" /\ e.at = f
                         /\ e.rw = TRUE /\ e.dirty = FALSE
  BY PresentEntry
<1>6. /\ pte' \in [Proc -> [Page -> Entry]] /\ pte'[t][v] = e
      /\ \A q \in Proc, w \in Page : q # t \/ w # v => pte'[q][w] = pte[q][w]
  BY <1>4, <1>5, OneSet
<1>7. /\ job' \in [Proc -> Job] /\ job'[t] = User /\ OthersSame(t) /\ current' = NoProc
      /\ JobFits(t)' /\ ForkCopied(t)' /\ NewRight(t)'
  BY <1>4, Returns
<1>8. TypeOK'
  BY <1>4, <1>6, <1>7, Types DEF TypeOK
<1>9. FramesRight'
  <2>1. pte[t][v].kind # "present" /\ pte'[t][v].kind = "present" /\ pte'[t][v].at = f
    BY <1>2, <1>5, <1>6, EmptyEntry
  <2>2. job'[t].new = 0 /\ job'[t].out = 0
    BY <1>7, UserJob
  <2>3. QED
    BY <1>3, <1>4, <1>6, <1>7, <2>1, <2>2, PageMapped
<1>10. ASSUME NEW n \in Swap PROVE SwapRight(n)'
  <2>1. SwapUsers(n)' = SwapUsers(n) \ {<<t, v>>}
    <3>1. pte'[t][v] # Swapped(n)
      BY <1>5, <1>6, SwappedEntry
    <3>2. QED
      BY <1>6, <3>1, SwapUsersAfter
  <2>2. <<t, v>> \notin SwapUsers(n)
    BY <1>2, SwappedEntry, EmptyEntry DEF SwapUsers
  <2>3. QED
    BY <1>4, <2>1, <2>2, SwapSame
<1>11. OnDisk' = OnDisk
  BY <1>4, DiskSame
<1>12. mem[f] = 0
  BY <1>1, <1>3, Parts DEF NewRight
<1>13. ASSUME NEW q \in Proc, NEW w \in Page PROVE Holds(q, w)' = Holds(q, w) /\ CleanRight(q, w)'
  <2>1. CASE q = t /\ w = v
    BY <1>2, <1>4, <1>5, <1>6, <1>12, <2>1, EmptyEntry DEF Holds, Content, CleanRight
  <2>2. CASE q # t \/ w # v
    BY <1>4, <1>6, <1>11, <2>2, CellSame
  <2>3. QED
    BY <2>1, <2>2
<1>14. MemoryIsKept' /\ \A u \in Proc \ {t} : ForkCopied(u)' /\ NewRight(u)'
  BY <1>1, <1>4, <1>7, <1>11, <1>13, ContentsStay
<1>15. Gentle(t)
  BY <1>6 DEF Gentle
<1>16. \A u \in Proc \ {t} : JobFits(u)'
  BY <1>1, <1>4, <1>7, <1>15, OthersFit
<1>17. Children'
  BY <1>1, <1>2, <1>4, <1>7, <1>15, UserJob, ChildrenKept
<1>18. Queued'
  BY <1>1, <1>4, <1>7, QueueKept
<1>19. QED
  BY <1>7, <1>8, <1>9, <1>10, <1>13, <1>14, <1>16, <1>17, <1>18, Whole

(* The only user of a page of swap space. *)
LEMMA OnlySwapUser ==
  ASSUME IInv, NEW p \in Proc, NEW v \in Page, NEW n \in Swap, pte[p][v] = Swapped(n)
  PROVE  SwapUsers(n) = {<<p, v>>} /\ n \notin swapfree
<1>1. <<p, v>> \in SwapUsers(n)
  BY DEF SwapUsers, Swapped
<1>2. SwapRight(n)
  BY Parts
<1>3. QED
  BY <1>1, <1>2 DEF SwapRight

LEMMA DoSwapIn ==
  ASSUME IInv, NEW t \in Proc, SwapIn(t)
  PROVE  IInv'
<1>1. t \in alive \ waits /\ job[t].gfp = "read" /\ job[t].op = "swap_in"
  BY IsRunning DEF SwapIn, Gfp
<1>2. PICK v \in Page : v = job[t].v /\ job[t].child = NoProc
  BY <1>1, Fits DEF JobFits
<1>3. PICK f \in Frame : f = job[t].new /\ job[t].out = 0
  BY <1>1, GotPage
<1>4. PICK n \in Swap : n = job[t].nr /\ pte[t][v] = Swapped(n)
  BY <1>1, <1>2, ReadsSwap
<1>5. /\ SetEntry(t, v, Present(f, TRUE, TRUE)) /\ Return(t) /\ swapfree' = swapfree \cup {n}
      /\ UNCHANGED <<alive, mem_map, mem, swapmem, mine, swapq, waits, version, overtaken>>
  BY <1>2, <1>3, <1>4 DEF SwapIn, SwapFreed
<1>6. PICK e \in Entry : /\ e = Present(f, TRUE, TRUE) /\ e.kind = "present" /\ e.at = f
                         /\ e.rw = TRUE /\ e.dirty = TRUE
  BY PresentEntry
<1>7. /\ pte' \in [Proc -> [Page -> Entry]] /\ pte'[t][v] = e
      /\ \A q \in Proc, w \in Page : q # t \/ w # v => pte'[q][w] = pte[q][w]
  BY <1>5, <1>6, OneSet
<1>8. /\ job' \in [Proc -> Job] /\ job'[t] = User /\ OthersSame(t) /\ current' = NoProc
      /\ JobFits(t)' /\ ForkCopied(t)' /\ NewRight(t)'
  BY <1>5, Returns
<1>9. TypeOK'
  BY <1>5, <1>7, <1>8, Types DEF TypeOK
<1>10. FramesRight'
  <2>1. pte[t][v].kind # "present" /\ pte'[t][v].kind = "present" /\ pte'[t][v].at = f
    BY <1>4, <1>6, <1>7, SwappedEntry
  <2>2. job'[t].new = 0 /\ job'[t].out = 0
    BY <1>8, UserJob
  <2>3. QED
    BY <1>3, <1>5, <1>7, <1>8, <2>1, <2>2, PageMapped
<1>11. SwapUsers(n) = {<<t, v>>}
  BY <1>4, OnlySwapUser
<1>12. ASSUME NEW m \in Swap PROVE SwapRight(m)'
  <2>1. SwapUsers(m)' = SwapUsers(m) \ {<<t, v>>}
    <3>1. pte'[t][v] # Swapped(m)
      BY <1>6, <1>7, SwappedEntry
    <3>2. QED
      BY <1>7, <3>1, SwapUsersAfter
  <2>2. CASE m = n
    <3>1. SwapUsers(n)' = {} /\ n \in swapfree'
      BY <1>5, <1>11, <2>1, <2>2
    <3>2. QED
      BY <2>2, <3>1 DEF SwapRight
  <2>3. CASE m # n
    <3>1. <<t, v>> \notin SwapUsers(m)
      BY <1>4, <2>3, SwappedEntry DEF SwapUsers
    <3>2. SwapUsers(m)' = SwapUsers(m) /\ (m \in swapfree' <=> m \in swapfree)
      BY <1>5, <2>1, <2>3, <3>1
    <3>3. SwapRight(m)
      BY Parts
    <3>4. QED
      BY <3>2, <3>3 DEF SwapRight
  <2>4. QED
    BY <2>2, <2>3
<1>13. OnDisk' = OnDisk
  BY <1>5, DiskSame
<1>14. ~overtaken => mem[f] = OnDisk[n]
  BY <1>1, <1>3, <1>4, Parts DEF NewRight
<1>15. ASSUME NEW q \in Proc, NEW w \in Page
       PROVE  (~overtaken => Holds(q, w)' = Holds(q, w)) /\ CleanRight(q, w)'
  <2>1. CASE q = t /\ w = v
    <3>1. Holds(t, v)' = mem[f] /\ Holds(t, v) = OnDisk[n]
      BY <1>4, <1>5, <1>6, <1>7, SwappedEntry DEF Holds, Content
    <3>2. CleanRight(t, v)'
      BY <1>6, <1>7 DEF CleanRight
    <3>3. QED
      BY <1>14, <2>1, <3>1, <3>2
  <2>2. CASE q # t \/ w # v
    BY <1>5, <1>7, <1>13, <2>2, CellSame
  <2>3. QED
    BY <2>1, <2>2
<1>16. MemoryIsKept' /\ \A u \in Proc \ {t} : ForkCopied(u)' /\ NewRight(u)'
  BY <1>1, <1>5, <1>8, <1>13, <1>15, ContentsStay
<1>17. Gentle(t)
  BY <1>7 DEF Gentle
<1>18. \A u \in Proc \ {t} : JobFits(u)'
  BY <1>1, <1>5, <1>8, <1>17, OthersFit
<1>19. Children'
  BY <1>1, <1>2, <1>5, <1>8, <1>17, UserJob, ChildrenKept
<1>20. Queued'
  BY <1>1, <1>5, <1>8, QueueKept
<1>21. QED
  BY <1>8, <1>9, <1>10, <1>12, <1>15, <1>16, <1>18, <1>19, <1>20, Whole

LEMMA DoCopySwapped ==
  ASSUME IInv, NEW t \in Proc, CopySwapped(t)
  PROVE  IInv'
<1>1. t \in alive \ waits /\ job[t].gfp = "read" /\ job[t].op = "fork"
  BY IsRunning DEF CopySwapped, Gfp
<1>2. PICK r \in Job : r = job[t] /\ r.out = 0
  BY <1>1, GfpFits
<1>3. PICK v \in Page : v = r.v /\ v + 1 \in 0..NPages + 1
  BY <1>1, <1>2, GfpFits, Constants DEF Page
<1>4. PICK c \in Proc : c = r.child /\ c \notin alive /\ \A w \in Page : w >= v => pte[c][w] = Empty
  BY <1>1, <1>2, <1>3, Fits DEF JobFits
<1>5. PICK f \in Frame : f = r.new
  BY <1>1, <1>2, GotPage
<1>6. PICK n \in Swap : n = r.nr /\ pte[t][v] = Swapped(n)
  BY <1>1, <1>2, <1>3, ReadsSwap
<1>7. pte[c][v] = Empty /\ c # t
  BY <1>1, <1>3, <1>4 DEF Page
<1>8. PICK j : j = [r EXCEPT !.v = v + 1, !.gfp = "no", !.new = 0, !.nr = 0]
  OBVIOUS
<1>9. /\ j \in Job /\ j.v = v + 1 /\ j.op = "fork" /\ j.gfp = "no" /\ j.new = 0 /\ j.out = 0
      /\ j.nr = 0 /\ j.child = c
  <2>1. /\ DOMAIN r = {"op", "v", "gfp", "new", "out", "nr", "child"}
        /\ 0 \in Frame \cup {0} /\ 0 \in Swap \cup {0}
    BY DEF Job
  <2>2. /\ j.v = v + 1 /\ j.op = "fork" /\ j.gfp = "no" /\ j.new = 0 /\ j.out = 0
        /\ j.nr = 0 /\ j.child = c
    BY <1>1, <1>2, <1>4, <1>8, <2>1
  <2>3. j \in Job
    BY <1>3, <1>8, <2>1 DEF Job
  <2>4. QED
    BY <2>2, <2>3
<1>10. /\ pte' = [pte EXCEPT ![c][v] = Swapped(n), ![t][v] = Present(f, TRUE, TRUE)]
       /\ job' = [job EXCEPT ![t] = j] /\ current' \in Proc \cup {NoProc}
       /\ UNCHANGED <<alive, mem_map, swapfree, mem, swapmem, mine, swapq, waits, version, overtaken>>
  BY <1>2, <1>3, <1>4, <1>5, <1>6, <1>8 DEF CopySwapped
<1>11. PICK e \in Entry : /\ e = Present(f, TRUE, TRUE) /\ e.kind = "present" /\ e.at = f
                          /\ e.rw = TRUE /\ e.dirty = TRUE
  BY PresentEntry
<1>12. PICK s \in Entry : s = Swapped(n) /\ s.kind = "swap" /\ s.at = n
  BY SwappedEntry
<1>13. /\ pte' \in [Proc -> [Page -> Entry]] /\ pte'[t][v] = e /\ pte'[c][v] = s
       /\ \A q \in Proc, w \in Page : (q # c /\ q # t) \/ w # v => pte'[q][w] = pte[q][w]
  BY <1>7, <1>10, <1>11, <1>12, Types DEF TypeOK
<1>14. job' \in [Proc -> Job] /\ job'[t] = j /\ OthersSame(t)
  BY <1>9, <1>10, JobSet
<1>15. TypeOK'
  BY <1>10, <1>13, <1>14, Types DEF TypeOK
<1>16. FramesRight'
  <2>1. pte[t][v].kind # "present" /\ pte'[t][v].kind = "present" /\ pte'[t][v].at = f
    BY <1>6, <1>11, <1>13, SwappedEntry
  <2>2. \A q \in Proc, w \in Page : q # t \/ w # v =>
            pte'[q][w] = pte[q][w] \/ (pte'[q][w].kind # "present" /\ pte[q][w].kind # "present")
    BY <1>7, <1>12, <1>13, EmptyEntry
  <2>3. f = job[t].new /\ job[t].out = 0 /\ job'[t].new = 0 /\ job'[t].out = 0
    BY <1>2, <1>5, <1>9, <1>14
  <2>4. QED
    BY <1>10, <1>14, <2>1, <2>2, <2>3, PageMapped
<1>17. SwapUsers(n) = {<<t, v>>} /\ n \notin swapfree
  BY <1>6, OnlySwapUser
<1>18. ASSUME NEW m \in Swap PROVE SwapRight(m)'
  <2>1. ASSUME NEW q \in Proc, NEW w \in Page
        PROVE  /\ <<q, w>> \in SwapUsers(m)' <=> pte'[q][w] = Swapped(m)
               /\ <<q, w>> \in SwapUsers(m) <=> pte[q][w] = Swapped(m)
    BY DEF SwapUsers, Swapped
  <2>2. \A x \in SwapUsers(m) \cup SwapUsers(m)' : \E q \in Proc, w \in Page : x = <<q, w>>
    BY DEF SwapUsers
  <2>3. CASE m = n
    <3>1. ASSUME NEW q \in Proc, NEW w \in Page PROVE <<q, w>> \in SwapUsers(m)' <=> <<q, w>> = <<c, v>>
      <4>1. CASE q = c /\ w = v
        BY <1>12, <1>13, <2>1, <2>3, <4>1
      <4>2. CASE q = t /\ w = v
        BY <1>7, <1>11, <1>13, <2>1, <2>3, <4>2, SwappedEntry
      <4>3. CASE (q # c /\ q # t) \/ w # v
        BY <1>13, <1>17, <2>1, <2>3, <4>3
      <4>4. QED
        BY <4>1, <4>2, <4>3
    <3>2. SwapUsers(m)' = {<<c, v>>}
      BY <2>2, <3>1
    <3>3. QED
      BY <1>10, <1>17, <2>3, <3>2 DEF SwapRight
  <2>4. CASE m # n
    <3>1. ASSUME NEW q \in Proc, NEW w \in Page PROVE <<q, w>> \in SwapUsers(m)' <=> <<q, w>> \in SwapUsers(m)
      <4>1. CASE q = c /\ w = v
        BY <1>7, <1>12, <1>13, <2>1, <2>4, <4>1, SwappedEntry, EmptyEntry
      <4>2. CASE q = t /\ w = v
        <5>1. Swapped(n) # Swapped(m) /\ e # Swapped(m)
          BY <1>11, <2>4, SwappedEntry
        <5>2. QED
          BY <1>6, <1>13, <2>1, <4>2, <5>1
      <4>3. CASE (q # c /\ q # t) \/ w # v
        BY <1>13, <2>1, <4>3
      <4>4. QED
        BY <4>1, <4>2, <4>3
    <3>2. ASSUME NEW x PROVE x \in SwapUsers(m)' <=> x \in SwapUsers(m)
      BY <2>2, <3>1
    <3>3. SwapUsers(m)' = SwapUsers(m)
      BY <3>2
    <3>4. QED
      BY <1>10, <3>3, SwapSame
  <2>5. QED
    BY <2>3, <2>4
<1>19. OnDisk' = OnDisk
  BY <1>10, DiskSame
<1>20. ~overtaken => mem[f] = OnDisk[n]
  BY <1>1, <1>2, <1>5, <1>6, Parts DEF NewRight
<1>21. Holds(t, v) = OnDisk[n] /\ Holds(t, v)' = mem[f] /\ Holds(c, v)' = OnDisk[n]
  <2>1. Holds(t, v) = OnDisk[n]
    BY <1>6, <1>12 DEF Holds, Content
  <2>2. Holds(t, v)' = mem[f]
    BY <1>10, <1>11, <1>13 DEF Holds, Content
  <2>3. Holds(c, v)' = OnDisk[n]
    BY <1>12, <1>13, <1>19 DEF Holds, Content
  <2>4. QED
    BY <2>1, <2>2, <2>3
<1>22. CleanRight(t, v)' /\ CleanRight(c, v)'
  BY <1>11, <1>12, <1>13 DEF CleanRight
<1>23. ASSUME NEW q \in Proc, NEW w \in Page, q # c \/ w # v
       PROVE  (~overtaken => Holds(q, w)' = Holds(q, w)) /\ CleanRight(q, w)'
  <2>1. CASE q = t /\ w = v
    BY <1>20, <1>21, <1>22, <2>1
  <2>2. CASE q # t \/ w # v
    <3>1. pte'[q][w] = pte[q][w]
      BY <1>13, <1>23, <2>2
    <3>2. QED
      BY <1>10, <1>19, <3>1, CellSame
  <2>3. QED
    BY <2>1, <2>2
<1>24. MemoryIsKept'
  <2>1. ~overtaken => \A p \in alive', w \in Page : Holds(p, w)' = Holds(p, w)
    BY <1>4, <1>10, <1>15, <1>23 DEF TypeOK
  <2>2. QED
    BY <1>10, <2>1, MemoryStays
<1>25. \A u \in Proc \ {t} : ForkCopied(u)'
  BY <1>1, <1>2, <1>4, <1>10, <1>14, <1>23, CopiesStay
<1>26. ForkCopied(t)'
  <2> SUFFICES ASSUME ~overtaken, NEW w \in Page, w < v + 1 PROVE Holds(c, w)' = mine'[t][w]
    BY <1>9, <1>10, <1>14 DEF ForkCopied
  <2>1. CASE w = v
    <3>1. Holds(t, v) = mine[t][v]
      BY <1>1, Parts
    <3>2. QED
      BY <1>10, <1>20, <1>21, <2>1, <3>1
  <2>2. CASE w # v
    <3>1. w < v
      BY <2>2 DEF Page
    <3>2. Holds(c, w) = mine[t][w]
      BY <1>1, <1>2, <1>3, <1>4, <3>1, Parts DEF ForkCopied
    <3>3. QED
      BY <1>10, <1>23, <2>2, <3>2
  <2>3. QED
    BY <2>1, <2>2
<1>27. (\A u \in Proc \ {t} : NewRight(u)') /\ NewRight(t)'
  <2>1. \A u \in Proc \ {t} : NewRight(u)'
    BY <1>10, <1>14, <1>19, NewKept
  <2>2. NewRight(t)'
    BY <1>9, <1>14 DEF NewRight
  <2>3. QED
    BY <2>1, <2>2
<1>28. Gentle(t)
  BY <1>2, <1>4, <1>13 DEF Gentle
<1>29. \A u \in Proc \ {t} : JobFits(u)'
  BY <1>1, <1>10, <1>14, <1>28, OthersFit
<1>30. JobFits(t)'
  <2>1. \A w \in Page : w >= v + 1 => pte'[c][w] = Empty
    BY <1>3, <1>4, <1>13 DEF Page
  <2>2. v + 1 >= 1 /\ c \in Proc \ alive'
    BY <1>4, <1>10 DEF Page
  <2>3. QED
    BY <1>1, <1>9, <1>10, <1>14, <2>1, <2>2 DEF JobFits
<1>31. Children'
  BY <1>1, <1>2, <1>4, <1>9, <1>10, <1>14, <1>28, ChildrenKept
<1>32. Queued'
  BY <1>1, <1>10, <1>14, QueueKept
<1>33. QED
  BY <1>15, <1>16, <1>18, <1>22, <1>23, <1>24, <1>25, <1>26, <1>27, <1>29, <1>30, <1>31, <1>32, Whole

(* un_wp_page: the copy. *)
Copied(t, v, f, g, d) ==
  /\ mem' = [mem EXCEPT ![f] = mem[g]]
  /\ SetEntry(t, v, d)
  /\ mem_map' = FreePage(g)
  /\ Return(t)
  /\ UNCHANGED <<alive, swapfree, swapmem, mine, swapq, waits, version, overtaken>>

LEMMA PageCopied ==
  ASSUME IInv, NEW t \in Proc, NEW v \in Page, NEW f \in Frame, NEW g \in Frame, NEW d \in Entry,
         t \in alive \ waits, job[t].gfp = "done", job[t].op = "un_wp_page", f = job[t].new,
         pte[t][v].kind = "present", pte[t][v].at = g,
         d.kind = "present", d.at = f, ~d.dirty => ~pte[t][v].dirty, Copied(t, v, f, g, d)
  PROVE  IInv'
<1>1. /\ job[t].out = 0 /\ Refers(f) = {} /\ Keeps(f) = {t} /\ mem_map[f] = 1
      /\ (\A u \in Proc : job[u].out # f) /\ (\A u \in Proc \ {t} : job[u].new # f)
  BY GotPage
<1>2. <<t, v>> \in Refers(g)
  BY RefersTo
<1>3. <<t, v>> \in Refers(g) /\ g # f
  BY <1>1, <1>2
<1>4. Keeps(g) = {} /\ mem_map[g] > 0
  BY <1>3, NotKept, NotRead, Counted
<1>5. /\ mem' = [mem EXCEPT ![f] = mem[g]] /\ SetEntry(t, v, d)
      /\ mem_map' = FreePage(g) /\ Return(t)
      /\ UNCHANGED <<alive, swapfree, swapmem, mine, swapq, waits, version, overtaken>>
  BY DEF Copied
<1>7. /\ pte' \in [Proc -> [Page -> Entry]] /\ pte'[t][v] = d
      /\ \A q \in Proc, w \in Page : q # t \/ w # v => pte'[q][w] = pte[q][w]
  BY <1>5, OneSet
<1>8. /\ job' \in [Proc -> Job] /\ job'[t] = User /\ OthersSame(t) /\ current' = NoProc
      /\ JobFits(t)' /\ ForkCopied(t)' /\ NewRight(t)'
  BY <1>5, Returns
<1>9. /\ mem' \in [Frame -> 0..MaxWrites] /\ mem'[f] = mem[g] /\ \A h \in Frame \ {f} : mem'[h] = mem[h]
  BY <1>5, Types DEF TypeOK
<1>10. /\ mem_map' \in [Frame -> Nat] /\ mem_map'[g] = mem_map[g] - 1
       /\ \A h \in Frame \ {g} : mem_map'[h] = mem_map[h]
  BY <1>4, <1>5, Freed
<1>11. TypeOK'
  BY <1>5, <1>7, <1>8, <1>9, <1>10, Types DEF TypeOK
<1>12. \A h \in Frame : Keeps(h)' = Keeps(h) \ {t}
  BY <1>8, KeepsAfter, UserJob, Constants
<1>13. ASSUME NEW h \in Frame PROVE FrameRight(h)'
  <2>1. CASE h = f
    <3>1. Refers(f)' = {<<t, v>>}
      BY <1>1, <1>7, RefersAfter
    <3>2. Keeps(f)' = {}
      BY <1>1, <1>12
    <3>3. Cardinality(Refers(f)') = 1 /\ Cardinality(Keeps(f)') = 0
      BY <3>1, <3>2, Singleton, FS_EmptySet
    <3>4. mem_map'[f] = Cardinality(Refers(f)') + Cardinality(Keeps(f)')
      BY <1>1, <1>3, <1>10, <3>3
    <3>5. QED
      BY <2>1, <3>1, <3>2, <3>4 DEF FrameRight
  <2>2. CASE h = g
    <3>1. Refers(g)' = Refers(g) \ {<<t, v>>}
      BY <1>3, <1>7, RefersAfter
    <3>2. Keeps(g)' = {} /\ Keeps(g)' = Keeps(g)
      BY <1>4, <1>12
    <3>3. Cardinality(Refers(g)') = Cardinality(Refers(g)) - 1
      BY <1>3, <3>1, Counted, TakeOne
    <3>4. mem_map'[g] = Cardinality(Refers(g)') + Cardinality(Keeps(g)')
      <4>1. /\ mem_map[g] = Cardinality(Refers(g)) + Cardinality(Keeps(g)) /\ mem_map[g] \in Nat
            /\ Cardinality(Refers(g)) \in Nat /\ Cardinality(Keeps(g)) \in Nat
        BY Counted
      <4>2. Cardinality(Keeps(g)') = Cardinality(Keeps(g))
        BY <3>2
      <4>3. QED
        BY <1>10, <3>3, <4>1, <4>2
    <3>5. ASSUME NEW x \in Refers(g)', pte'[x[1]][x[2]].rw PROVE FALSE
      <4>1. PICK q \in Proc, w \in Page : x = <<q, w>>
        BY <3>1 DEF Refers
      <4>2. pte'[q][w] = pte[q][w] /\ x \in Refers(g) /\ x # <<t, v>>
        BY <1>7, <3>1, <3>5, <4>1
      <4>3. Refers(g) = {x}
        BY <3>5, <4>1, <4>2 DEF IInv, WritableIsPrivate
      <4>4. QED
        BY <1>3, <4>2, <4>3
    <3>6. QED
      BY <2>2, <3>2, <3>4, <3>5 DEF FrameRight
  <2>3. CASE h # f /\ h # g
    <3>1. Refers(h)' = Refers(h) /\ <<t, v>> \notin Refers(h)
      <4>1. <<t, v>> \notin Refers(h)
        BY <2>3, RefersTo
      <4>2. Refers(h)' = Refers(h) \ {<<t, v>>}
        BY <1>7, <2>3, RefersAfter
      <4>3. QED
        BY <4>1, <4>2
    <3>2. t \notin Keeps(h)
      BY <1>1, <2>3, Constants DEF Keeps
    <3>3. Keeps(h)' = Keeps(h)
      BY <1>12, <3>2
    <3>4. ASSUME NEW x \in Refers(h), pte'[x[1]][x[2]].rw PROVE pte[x[1]][x[2]].rw
      <4>1. PICK q \in Proc, w \in Page : x = <<q, w>>
        BY DEF Refers
      <4>2. pte'[q][w] = pte[q][w]
        BY <1>7, <3>1, <4>1
      <4>3. QED
        BY <3>4, <4>1, <4>2
    <3>5. QED
      BY <1>10, <2>3, <3>1, <3>3, <3>4, FrameSame
  <2>4. QED
    BY <2>1, <2>2, <2>3
<1>14. FramesRight'
  BY <1>13 DEF FramesRight
<1>15. ASSUME NEW n \in Swap PROVE SwapRight(n)'
  <2>1. SwapUsers(n)' = SwapUsers(n) \ {<<t, v>>}
    <3>1. pte'[t][v] # Swapped(n)
      BY <1>7, SwappedEntry
    <3>2. QED
      BY <1>7, <3>1, SwapUsersAfter
  <2>2. <<t, v>> \notin SwapUsers(n)
    BY SwappedEntry DEF SwapUsers
  <2>3. QED
    BY <1>5, <2>1, <2>2, SwapSame
<1>16. \A n \in Swap : OnDisk'[n] = OnDisk[n]
  BY <1>1, <1>5, <1>9, <1>11, DiskKept
<1>17. ASSUME NEW q \in Proc, NEW w \in Page PROVE Holds(q, w)' = Holds(q, w) /\ CleanRight(q, w)'
  <2>1. CASE q = t /\ w = v
    <3>1. Holds(t, v)' = mem[g] /\ Holds(t, v) = mem[g]
      BY <1>7, <1>9, <1>3 DEF Holds, Content
    <3>2. CleanRight(t, v)
      BY Parts
    <3>3. CleanRight(t, v)'
      BY <1>2, <1>7, <1>9, <3>2 DEF CleanRight
    <3>4. QED
      BY <2>1, <3>1, <3>3
  <2>2. CASE q # t \/ w # v
    <3>1. pte[q][w] \in Entry /\ pte'[q][w] = pte[q][w]
      BY <1>7, <2>2, EntryType
    <3>2. pte[q][w].kind = "present" => pte[q][w].at \in Frame /\ pte[q][w].at # f
      BY <1>1, <3>1, RefersTo, EntryCases, EmptyEntry
    <3>3. pte[q][w].kind = "swap" => pte[q][w].at \in Swap
      BY <3>1, EntryCases, EmptyEntry
    <3>4. QED
      BY <1>9, <1>16, <3>1, <3>2, <3>3, CellSame
  <2>3. QED
    BY <2>1, <2>2
<1>18. \A u \in Proc \ {t} : job[u].new # 0 => mem'[job[u].new] = mem[job[u].new]
  BY <1>1, <1>9, Alone
<1>19. \A u \in Proc : job[u].gfp = "read" => OnDisk'[job[u].nr] = OnDisk[job[u].nr]
  BY <1>16, ReadsSwap
<1>20. MemoryIsKept' /\ \A u \in Proc \ {t} : ForkCopied(u)' /\ NewRight(u)'
  BY <1>5, <1>8, <1>17, <1>18, <1>19, ContentsStay
<1>21. Gentle(t) /\ job[t].child = NoProc
  BY <1>7, Fits DEF Gentle, JobFits
<1>22. \A u \in Proc \ {t} : JobFits(u)'
  BY <1>5, <1>8, <1>21, OthersFit
<1>23. Children'
  BY <1>5, <1>8, <1>21, UserJob, ChildrenKept
<1>24. Queued'
  BY <1>5, <1>8, QueueKept
<1>25. QED
  BY <1>8, <1>11, <1>14, <1>15, <1>17, <1>20, <1>22, <1>23, <1>24, Whole

(* un_wp_page: no copy is needed after all, the new page is given back. *)
LEMMA PageGivenBack ==
  ASSUME IInv, NEW t \in Proc, NEW v \in Page, NEW f \in Frame, t \in alive \ waits,
         job[t].gfp = "done", job[t].op = "un_wp_page", f = job[t].new,
         mem_map' = FreePage(f), Return(t),
         UNCHANGED <<alive, swapfree, mem, swapmem, mine, swapq, waits, version, overtaken>>,
         \/ pte' = pte
         \/ /\ pte[t][v].kind = "present" /\ SoleUser(pte[t][v].at)
            /\ SetEntry(t, v, [pte[t][v] EXCEPT !.rw = TRUE])
  PROVE  IInv'
<1>1. /\ job[t].out = 0 /\ Refers(f) = {} /\ Keeps(f) = {t} /\ mem_map[f] = 1
      /\ (\A u \in Proc : job[u].out # f) /\ (\A u \in Proc \ {t} : job[u].new # f)
  BY GotPage
<1>2. /\ pte' \in [Proc -> [Page -> Entry]] /\ Gentle(t)
      /\ (\A p \in Proc, w \in Page : /\ pte'[p][w].kind = pte[p][w].kind
                                      /\ pte'[p][w].at = pte[p][w].at
                                      /\ pte'[p][w].dirty = pte[p][w].dirty)
      /\ (\A g \in Frame : Refers(g)' = Refers(g)) /\ (\A n \in Swap : SwapUsers(n)' = SwapUsers(n))
      /\ \A g \in Frame : \A x \in Refers(g) : pte'[x[1]][x[2]].rw => Refers(g) = {x}
  <2>1. CASE pte' = pte
    <3>1. pte' \in [Proc -> [Page -> Entry]] /\ Gentle(t)
      BY <2>1, Types DEF TypeOK, Gentle
    <3>2. (\A g \in Frame : Refers(g)' = Refers(g)) /\ (\A n \in Swap : SwapUsers(n)' = SwapUsers(n))
      BY <2>1 DEF Refers, SwapUsers
    <3>3. \A g \in Frame : \A x \in Refers(g) : pte'[x[1]][x[2]].rw => Refers(g) = {x}
      BY <2>1 DEF IInv, WritableIsPrivate
    <3>4. QED
      BY <2>1, <3>1, <3>2, <3>3
  <2>2. CASE /\ pte[t][v].kind = "present" /\ SoleUser(pte[t][v].at)
             /\ SetEntry(t, v, [pte[t][v] EXCEPT !.rw = TRUE])
    BY <2>2, MadeWritable
  <2>3. QED
    BY <2>1, <2>2
<1>3. /\ job' \in [Proc -> Job] /\ job'[t] = User /\ OthersSame(t) /\ current' = NoProc
      /\ JobFits(t)' /\ ForkCopied(t)' /\ NewRight(t)'
  BY Returns
<1>4. /\ mem_map' \in [Frame -> Nat] /\ mem_map'[f] = 0 /\ \A g \in Frame \ {f} : mem_map'[g] = mem_map[g]
  BY <1>1, Freed
<1>5. TypeOK'
  BY <1>2, <1>3, <1>4, Types DEF TypeOK
<1>6. ASSUME NEW g \in Frame PROVE FrameRight(g)'
  <2>1. Keeps(g)' = Keeps(g) \ {t}
    BY <1>3, KeepsAfter, UserJob, Constants
  <2>2. CASE g = f
    <3>1. Keeps(f)' = {} /\ Refers(f)' = {}
      BY <1>1, <1>2, <2>1, <2>2
    <3>2. Cardinality(Keeps(f)') = 0 /\ Cardinality(Refers(f)') = 0
      BY <3>1, FS_EmptySet
    <3>3. mem_map'[f] = Cardinality(Refers(f)') + Cardinality(Keeps(f)')
      BY <1>4, <3>2
    <3>4. QED
      BY <2>2, <3>1, <3>3 DEF FrameRight
  <2>3. CASE g # f
    <3>1. t \notin Keeps(g)
      BY <1>1, <2>3, Constants DEF Keeps
    <3>2. Keeps(g)' = Keeps(g) /\ Refers(g)' = Refers(g) /\ mem_map'[g] = mem_map[g]
      BY <1>2, <1>4, <2>1, <2>3, <3>1
    <3>3. FrameRight(g)
      BY Parts DEF FramesRight
    <3>4. \A x \in Refers(g)' : pte'[x[1]][x[2]].rw => Refers(g)' = {x}
      BY <1>2, <3>2
    <3>5. QED
      BY <3>2, <3>3, <3>4 DEF FrameRight
  <2>4. QED
    BY <2>2, <2>3
<1>7. FramesRight'
  BY <1>6 DEF FramesRight
<1>8. \A n \in Swap : SwapRight(n)'
  BY <1>2, SwapSame
<1>9. OnDisk' = OnDisk
  BY DiskSame
<1>10. \A p \in Proc, w \in Page : Holds(p, w)' = Holds(p, w) /\ CleanRight(p, w)'
  BY <1>2, <1>9, FlagContents
<1>11. MemoryIsKept' /\ \A u \in Proc \ {t} : ForkCopied(u)' /\ NewRight(u)'
  BY <1>3, <1>9, <1>10, ContentsStay
<1>12. job[t].child = NoProc
  BY Fits DEF JobFits
<1>13. \A u \in Proc \ {t} : JobFits(u)'
  BY <1>2, <1>3, OthersFit
<1>14. Children'
  BY <1>2, <1>3, <1>12, UserJob, ChildrenKept
<1>15. Queued'
  BY <1>3, QueueKept
<1>16. QED
  BY <1>3, <1>5, <1>7, <1>8, <1>10, <1>11, <1>13, <1>14, <1>15, Whole

LEMMA DoCopyOnWrite ==
  ASSUME IInv, NEW t \in Proc, CopyOnWrite(t)
  PROVE  IInv'
<1>1. t \in alive \ waits /\ job[t].gfp = "done" /\ job[t].op = "un_wp_page"
  BY IsRunning DEF CopyOnWrite, Gfp
<1>2. PICK v \in Page : v = job[t].v
  BY <1>1, GfpFits
<1>3. PICK f \in Frame : f = job[t].new
  BY <1>1, GotPage
<1>4. PICK e \in Entry : e = pte[t][v]
  BY EntryType
<1>5. CASE e.kind = "present" /\ ~SoleUser(e.at)
  <2>1. PICK g \in Frame, b \in BOOLEAN : g = e.at /\ b = e.dirty
    BY <1>5, EntryCases, EmptyEntry
  <2>2. PICK d \in Entry : d = Present(f, TRUE, b) /\ d.kind = "present" /\ d.at = f /\ d.dirty = b
    BY PresentEntry
  <2>3. Copied(t, v, f, g, d)
    BY <1>2, <1>3, <1>4, <1>5, <2>1, <2>2 DEF CopyOnWrite, Copied
  <2>4. ~d.dirty => ~pte[t][v].dirty
    BY <1>4, <2>1, <2>2
  <2>5. QED
    BY <1>1, <1>3, <1>4, <1>5, <2>1, <2>2, <2>3, <2>4, PageCopied
<1>6. CASE ~(e.kind = "present" /\ ~SoleUser(e.at))
  <2>1. /\ mem_map' = FreePage(f) /\ Return(t)
        /\ UNCHANGED <<alive, swapfree, mem, swapmem, mine, swapq, waits, version, overtaken>>
    BY <1>2, <1>3, <1>4, <1>6 DEF CopyOnWrite
  <2>2. CASE e.kind = "present"
    <3>1. SoleUser(pte[t][v].at) /\ SetEntry(t, v, [pte[t][v] EXCEPT !.rw = TRUE])
      BY <1>2, <1>3, <1>4, <1>6, <2>2 DEF CopyOnWrite
    <3>2. QED
      BY <1>1, <1>3, <1>4, <2>1, <2>2, <3>1, PageGivenBack
  <2>3. CASE e.kind # "present"
    <3>1. pte' = pte
      BY <1>2, <1>3, <1>4, <2>3 DEF CopyOnWrite
    <3>2. QED
      BY <1>1, <1>3, <2>1, <3>1, PageGivenBack
  <2>4. QED
    BY <2>2, <2>3
<1>7. QED
  BY <1>5, <1>6

(***************************************************************************)
(* free_page_tables: exit, and a fork that failed.                         *)
(***************************************************************************)
LEMMA UsersCounted ==
  ASSUME IInv, NEW p \in Proc, NEW f \in Frame
  PROVE  Users(p, f) = Cardinality({x \in Refers(f) : x[1] = p})
<1> DEFINE V == {v \in Page : pte[p][v].kind = "present" /\ pte[p][v].at = f}
           X == {x \in Refers(f) : x[1] = p}
           F == [v \in V |-> <<p, v>>]
<1>1. F \in [V -> X]
  BY DEF Refers
<1>2. \A a, b \in V : F[a] = F[b] => a = b
  OBVIOUS
<1>3. \A x \in X : \E v \in V : F[v] = x
  <2>1. ASSUME NEW x \in X PROVE \E v \in V : F[v] = x
    <3>1. PICK q \in Proc, w \in Page : x = <<q, w>>
      BY DEF Refers
    <3>2. q = p /\ w \in V
      BY <3>1 DEF Refers
    <3>3. QED
      BY <3>1, <3>2
  <2>2. QED
    BY <2>1
<1>4. F \in Bijection(V, X)
  <2> HIDE DEF F, V, X
  <2> QED BY <1>1, <1>2, <1>3, Fun_IsBij
<1>5. IsFiniteSet(V)
  BY Finite
<1>6. Cardinality(X) = Cardinality(V)
  <2> HIDE DEF F, V, X
  <2>1. ExistsBijection(V, X)
    BY <1>4 DEF ExistsBijection
  <2>2. QED
    BY <1>5, <2>1, FS_Bijection
<1>7. QED
  BY <1>6 DEF Users

LEMMA TablesFreed ==
  ASSUME IInv, NEW p \in Proc, FreePageTables(p),
         \A u \in Proc : job'[u].new = job[u].new /\ job'[u].out = job[u].out
  PROVE  /\ pte' \in [Proc -> [Page -> Entry]] /\ mem_map' \in [Frame -> Nat] /\ swapfree' \subseteq Swap
         /\ FramesRight' /\ (\A n \in Swap : SwapRight(n)')
         /\ (\A v \in Page : pte'[p][v] = Empty)
         /\ (\A q \in Proc \ {p} : pte'[q] = pte[q])
<1>1. /\ pte' \in [Proc -> [Page -> Entry]] /\ (\A v \in Page : pte'[p][v] = Empty)
      /\ (\A q \in Proc \ {p} : pte'[q] = pte[q])
  BY Types, EmptyEntry DEF FreePageTables, TypeOK
<1>2. \A f \in Frame : Keeps(f)' = Keeps(f)
  BY DEF Keeps
<1>3. ASSUME NEW f \in Frame
      PROVE  Refers(f)' = Refers(f) \ {x \in Refers(f) : x[1] = p}
  <2>1. ASSUME NEW q \in Proc, NEW w \in Page
        PROVE  <<q, w>> \in Refers(f)' <=> <<q, w>> \in Refers(f) /\ q # p
    BY <1>1, EmptyEntry DEF Refers
  <2>2. ASSUME NEW x PROVE x \in Refers(f)' <=> x \in Refers(f) \ {y \in Refers(f) : y[1] = p}
    <3>1. x \in Refers(f)' \/ x \in Refers(f) => \E q \in Proc, w \in Page : x = <<q, w>>
      BY DEF Refers
    <3>2. QED
      BY <2>1, <3>1
  <2>3. QED
    BY <2>2
<1>4. ASSUME NEW f \in Frame
      PROVE  /\ mem_map'[f] = Cardinality(Refers(f)') + Cardinality(Keeps(f)')
             /\ mem_map'[f] \in Nat
  <2>1. PICK X : X = {x \in Refers(f) : x[1] = p}
    OBVIOUS
  <2>2. Users(p, f) = Cardinality(X) /\ Refers(f)' = Refers(f) \ X /\ Refers(f) \cap X = X
    BY <1>3, <2>1, UsersCounted
  <2>3. /\ mem_map[f] = Cardinality(Refers(f)) + Cardinality(Keeps(f)) /\ mem_map[f] \in Nat
        /\ IsFiniteSet(Refers(f)) /\ Cardinality(Refers(f)) \in Nat /\ Cardinality(Keeps(f)) \in Nat
    BY Counted
  <2>4. /\ IsFiniteSet(Refers(f) \ X)
        /\ Cardinality(Refers(f) \ X) = Cardinality(Refers(f)) - Cardinality(Refers(f) \cap X)
    BY <2>3, FS_Difference
  <2>5. Cardinality(Refers(f)') = Cardinality(Refers(f)) - Users(p, f) /\ Cardinality(Refers(f)') \in Nat
    BY <2>2, <2>4, FS_CardinalityType
  <2>6. mem_map'[f] = mem_map[f] - Users(p, f)
    BY DEF FreePageTables
  <2>7. X \in SUBSET Cell /\ Users(p, f) \in Nat
    <3>1. X \in SUBSET Cell
      BY <2>1, UsersAre
    <3>2. QED
      BY <2>2, <3>1, Finite
  <2>8. Cardinality(Keeps(f)') = Cardinality(Keeps(f))
    BY <1>2
  <2>9. QED
    BY <2>3, <2>5, <2>6, <2>7, <2>8
<1>5. mem_map' \in [Frame -> Nat]
  <2>1. mem_map' = [f \in Frame |-> mem_map[f] - Users(p, f)]
    BY DEF FreePageTables
  <2>2. \A f \in Frame : mem_map[f] - Users(p, f) \in Nat
    BY <1>4, <2>1
  <2>3. QED
    BY <2>1, <2>2
<1>6. ASSUME NEW f \in Frame PROVE FrameRight(f)'
  <2>1. FrameRight(f)
    BY Parts DEF FramesRight
  <2>2. ASSUME NEW x \in Refers(f)', pte'[x[1]][x[2]].rw PROVE Refers(f)' = {x}
    <3>1. x \in Refers(f) /\ x[1] # p
      BY <1>3
    <3>2. PICK q \in Proc, w \in Page : x = <<q, w>>
      BY <3>1 DEF Refers
    <3>3. pte[q][w].rw
      BY <1>1, <2>2, <3>1, <3>2
    <3>4. Refers(f) = {x}
      BY <3>1, <3>2, <3>3 DEF IInv, WritableIsPrivate
    <3>5. QED
      BY <1>3, <2>2, <3>4
  <2>3. Keeps(f)' = {} \/ (Refers(f)' = {} /\ \E t \in Proc : Keeps(f)' = {t})
    BY <1>2, <1>3, <2>1 DEF FrameRight
  <2>4. QED
    BY <1>4, <2>2, <2>3 DEF FrameRight
<1>7. swapfree' = swapfree \cup {pte[p][v].at : v \in {u \in Page : pte[p][u].kind = "swap"}}
  BY DEF FreePageTables
<1>8. ASSUME NEW v \in Page, pte[p][v].kind = "swap"
      PROVE  pte[p][v].at \in Swap /\ pte[p][v] = Swapped(pte[p][v].at)
  BY <1>8, EntryType, EntryCases, EmptyEntry
<1>9. swapfree' \subseteq Swap
  BY <1>7, <1>8, Types DEF TypeOK
<1>10. ASSUME NEW n \in Swap PROVE SwapRight(n)'
  <2>1. ASSUME NEW q \in Proc, NEW w \in Page
        PROVE  <<q, w>> \in SwapUsers(n)' <=> <<q, w>> \in SwapUsers(n) /\ q # p
    <3>1. /\ <<q, w>> \in SwapUsers(n)' <=> pte'[q][w] = Swapped(n)
          /\ <<q, w>> \in SwapUsers(n) <=> pte[q][w] = Swapped(n)
      BY DEF SwapUsers, Swapped
    <3>2. Empty # Swapped(n)
      BY EmptyEntry, SwappedEntry
    <3>3. QED
      BY <1>1, <3>1, <3>2
  <2>2. \A x \in SwapUsers(n) \cup SwapUsers(n)' : \E q \in Proc, w \in Page : x = <<q, w>>
    BY DEF SwapUsers
  <2>3. SwapRight(n)
    BY Parts
  <2>4. CASE n \in swapfree
    <3>1. SwapUsers(n)' = {}
      BY <2>1, <2>2, <2>3, <2>4 DEF SwapRight
    <3>2. QED
      BY <1>7, <2>4, <3>1 DEF SwapRight
  <2>5. CASE n \notin swapfree /\ \E v \in Page : pte[p][v] = Swapped(n)
    <3>1. PICK v \in Page : pte[p][v] = Swapped(n)
      BY <2>5
    <3>2. SwapUsers(n) = {<<p, v>>}
      BY <3>1, OnlySwapUser
    <3>3. SwapUsers(n)' = {}
      BY <2>1, <2>2, <3>2
    <3>4. n \in swapfree'
      BY <1>7, <3>1, SwappedEntry
    <3>5. QED
      BY <3>3, <3>4 DEF SwapRight
  <2>6. CASE n \notin swapfree /\ ~\E v \in Page : pte[p][v] = Swapped(n)
    <3>1. n \notin swapfree'
      <4>1. ASSUME NEW v \in Page, pte[p][v].kind = "swap" PROVE pte[p][v].at # n
        BY <1>8, <2>6, <4>1
      <4>2. QED
        BY <1>7, <2>6, <4>1
    <3>2. ASSUME NEW q \in Proc, NEW w \in Page PROVE <<q, w>> \in SwapUsers(n) => q # p
      BY <2>6 DEF SwapUsers
    <3>3. ASSUME NEW x PROVE x \in SwapUsers(n)' <=> x \in SwapUsers(n)
      BY <2>1, <2>2, <3>2
    <3>4. SwapUsers(n)' = SwapUsers(n)
      BY <3>3
    <3>5. QED
      BY <2>3, <2>6, <3>1, <3>4 DEF SwapRight
  <2>7. QED
    BY <2>4, <2>5, <2>6
<1>11. QED
  BY <1>1, <1>5, <1>6, <1>9, <1>10 DEF FramesRight

LEMMA DoExit ==
  ASSUME IInv, NEW t \in Proc, Exit(t)
  PROVE  IInv'
<1>1. t \in alive \ waits /\ (job[t] = User \/ (job[t].gfp = "failed" /\ job[t].op # "fork"))
  BY IsRunning DEF Exit, InUser, Gfp
<1>2. job[t].new = 0 /\ job[t].out = 0 /\ job[t].child = NoProc
  <2>1. CASE job[t] = User
    BY <2>1, UserJob
  <2>2. CASE job[t].gfp = "failed" /\ job[t].op # "fork"
    BY <2>2, Fits DEF JobFits
  <2>3. QED
    BY <1>1, <2>1, <2>2
<1>3. /\ alive' = alive \ {t} /\ FreePageTables(t) /\ Return(t)
      /\ mine' = [mine EXCEPT ![t] = [v \in Page |-> 0]]
      /\ UNCHANGED <<mem, swapmem, swapq, waits, version, overtaken>>
  BY DEF Exit
<1>4. /\ job' \in [Proc -> Job] /\ job'[t] = User /\ OthersSame(t) /\ current' = NoProc
      /\ JobFits(t)' /\ ForkCopied(t)' /\ NewRight(t)'
  BY <1>3, Returns
<1>5. \A u \in Proc : job'[u].new = job[u].new /\ job'[u].out = job[u].out /\ job'[u].child = job[u].child
  BY <1>2, <1>4, UserJob DEF OthersSame
<1>6. /\ pte' \in [Proc -> [Page -> Entry]] /\ mem_map' \in [Frame -> Nat] /\ swapfree' \subseteq Swap
      /\ FramesRight' /\ (\A n \in Swap : SwapRight(n)')
      /\ (\A v \in Page : pte'[t][v] = Empty)
      /\ (\A q \in Proc \ {t} : pte'[q] = pte[q])
  BY <1>3, <1>5, TablesFreed
<1>7. /\ mine' \in [Proc -> [Page -> 0..MaxWrites]] /\ \A u \in Proc \ {t} : mine'[u] = mine[u]
  <2>1. [v \in Page |-> 0] \in [Page -> 0..MaxWrites]
    BY Constants
  <2>2. QED
    BY <1>3, <2>1, Types DEF TypeOK
<1>8. TypeOK'
  BY <1>3, <1>4, <1>6, <1>7, Types DEF TypeOK
<1>9. OnDisk' = OnDisk
  BY <1>3, DiskSame
<1>10. ASSUME NEW q \in Proc \ {t}, NEW w \in Page PROVE Holds(q, w)' = Holds(q, w) /\ CleanRight(q, w)'
  BY <1>3, <1>6, <1>9, CellSame
<1>11. \A w \in Page : CleanRight(t, w)'
  BY <1>6, EmptyEntry DEF CleanRight
<1>12. MemoryIsKept'
  <2>1. ASSUME ~overtaken, NEW p \in alive', NEW w \in Page PROVE Holds(p, w)' = mine'[p][w]
    <3>1. p \in alive /\ p \in Proc \ {t}
      BY <1>3, Types DEF TypeOK
    <3>2. Holds(p, w) = mine[p][w]
      BY <2>1, <3>1, Parts
    <3>3. QED
      BY <1>7, <1>10, <3>1, <3>2
  <2>2. QED
    BY <1>3, <2>1 DEF MemoryIsKept, Holds
<1>13. Gentle(t)
  BY <1>6 DEF Gentle
<1>14. \A u \in Proc \ {t} : JobFits(u)'
  BY <1>1, <1>3, <1>4, <1>13, OthersFit
<1>15. Children'
  <2>1. \A u, w \in Proc : job'[u].child = job'[w].child /\ job'[u].child # NoProc => u = w
    BY <1>5 DEF IInv, Children
  <2>2. ASSUME NEW p \in Proc \ alive', \A u \in Proc : job'[u].child # p, NEW v \in Page
        PROVE  pte'[p][v] = Empty
    <3>1. CASE p = t
      BY <1>6, <3>1
    <3>2. CASE p # t
      <4>1. p \notin alive /\ \A u \in Proc : job[u].child # p
        BY <1>3, <1>5, <2>2, <3>2
      <4>2. pte[p][v] = Empty
        BY <4>1 DEF IInv, Children
      <4>3. QED
        BY <1>6, <3>2, <4>2
    <3>3. QED
      BY <3>1, <3>2
  <2>3. QED
    BY <2>1, <2>2 DEF Children
<1>16. Queued'
  BY <1>1, <1>3, <1>4, QueueKept
<1>17. \A u \in Proc \ {t} : ForkCopied(u)'
  BY <1>1, <1>3, <1>4, <1>7, <1>10, CopiesStay
<1>18. \A u \in Proc \ {t} : NewRight(u)'
  BY <1>3, <1>4, <1>9, NewKept
<1>19. QED
  BY <1>4, <1>6, <1>8, <1>10, <1>11, <1>12, <1>14, <1>15, <1>16, <1>17, <1>18, Whole

LEMMA DoForkFails ==
  ASSUME IInv, NEW t \in Proc, ForkFails(t)
  PROVE  IInv'
<1>1. t \in alive \ waits /\ job[t].gfp = "failed" /\ job[t].op = "fork"
  BY IsRunning DEF ForkFails, Gfp
<1>2. job[t].new = 0 /\ job[t].out = 0
  BY <1>1, GfpFits
<1>3. PICK c \in Proc : c = job[t].child /\ c \notin alive
  BY <1>1, Fits DEF JobFits
<1>4. FreePageTables(c) /\ Return(t) /\ UNCHANGED <<alive, mem, swapmem, mine, swapq, waits, version, overtaken>>
  BY <1>3 DEF ForkFails
<1>5. /\ job' \in [Proc -> Job] /\ job'[t] = User /\ OthersSame(t) /\ current' = NoProc
      /\ JobFits(t)' /\ ForkCopied(t)' /\ NewRight(t)'
  BY <1>4, Returns
<1>6. \A u \in Proc : job'[u].new = job[u].new /\ job'[u].out = job[u].out
  BY <1>2, <1>5, UserJob DEF OthersSame
<1>7. /\ pte' \in [Proc -> [Page -> Entry]] /\ mem_map' \in [Frame -> Nat] /\ swapfree' \subseteq Swap
      /\ FramesRight' /\ (\A n \in Swap : SwapRight(n)')
      /\ (\A v \in Page : pte'[c][v] = Empty)
      /\ (\A q \in Proc \ {c} : pte'[q] = pte[q])
  BY <1>4, <1>6, TablesFreed
<1>8. TypeOK'
  BY <1>4, <1>5, <1>7, Types DEF TypeOK
<1>9. OnDisk' = OnDisk
  BY <1>4, DiskSame
<1>10. ASSUME NEW q \in Proc \ {c}, NEW w \in Page PROVE Holds(q, w)' = Holds(q, w) /\ CleanRight(q, w)'
  BY <1>4, <1>7, <1>9, CellSame
<1>11. \A w \in Page : CleanRight(c, w)'
  BY <1>7, EmptyEntry DEF CleanRight
<1>12. MemoryIsKept'
  <2>1. \A p \in alive', w \in Page : Holds(p, w)' = Holds(p, w)
    BY <1>3, <1>4, <1>8, <1>10 DEF TypeOK
  <2>2. QED
    BY <1>4, <2>1, MemoryStays
<1>13. Gentle(t)
  BY <1>3, <1>7 DEF Gentle
<1>14. \A u \in Proc \ {t} : JobFits(u)'
  BY <1>1, <1>4, <1>5, <1>13, OthersFit
<1>15. Children'
  <2>1. \A u, w \in Proc : job'[u].child = job'[w].child /\ job'[u].child # NoProc => u = w
    BY <1>5, UserJob DEF OthersSame, IInv, Children
  <2>2. ASSUME NEW p \in Proc \ alive', \A u \in Proc : job'[u].child # p, NEW v \in Page
        PROVE  pte'[p][v] = Empty
    <3>1. CASE p = c
      BY <1>7, <3>1
    <3>2. CASE p # c
      <4>1. p \notin alive /\ \A u \in Proc : job[u].child # p
        BY <1>3, <1>4, <1>5, <2>2, <3>2 DEF OthersSame
      <4>2. pte[p][v] = Empty
        BY <4>1 DEF IInv, Children
      <4>3. QED
        BY <1>7, <3>2, <4>2
    <3>3. QED
      BY <3>1, <3>2
  <2>3. QED
    BY <2>1, <2>2 DEF Children
<1>16. Queued'
  BY <1>1, <1>4, <1>5, QueueKept
<1>17. \A u \in Proc \ {t} : ForkCopied(u)'
  BY <1>1, <1>3, <1>4, <1>5, <1>10, CopiesStay
<1>18. \A u \in Proc \ {t} : NewRight(u)'
  BY <1>4, <1>5, <1>9, NewKept
<1>19. QED
  BY <1>5, <1>7, <1>8, <1>10, <1>11, <1>12, <1>14, <1>15, <1>16, <1>17, <1>18, Whole

(***************************************************************************)
(* The invariant holds.                                                    *)
(***************************************************************************)
LEMMA InitIInv == Init => IInv
<1> SUFFICES ASSUME Init PROVE IInv
  OBVIOUS
<1>1. TypeOK
  <2>1. overtaken \in BOOLEAN
    BY Zenon DEF Init
  <2>2. QED
    BY <2>1, Constants, UserJob, EmptyEntry DEF Init, TypeOK
<1>2. \A p \in Proc, v \in Page : pte[p][v] = Empty
  BY DEF Init
<1>3. \A t \in Proc : job[t] = User
  BY DEF Init
<1>4. \A f \in Frame : Refers(f) = {} /\ Keeps(f) = {} /\ mem_map[f] = 0
  BY <1>2, <1>3, EmptyEntry, UserJob, Constants DEF Refers, Keeps, Init
<1>5. MemMapCounts /\ WritableIsPrivate /\ KeptAlone
  <2>1. Cardinality({}) = 0
    BY FS_EmptySet
  <2>2. MemMapCounts /\ WritableIsPrivate
    BY <1>4, <2>1 DEF MemMapCounts, WritableIsPrivate
  <2>3. KeptAlone
    BY <1>3, UserJob DEF KeptAlone
  <2>4. QED
    BY <2>2, <2>3
<1>6. SwapUsed
  <2>1. \A n \in Swap : n \in swapfree /\ SwapUsers(n) = {}
    BY <1>2, EmptyEntry, SwappedEntry DEF Init, SwapUsers
  <2>2. QED
    BY <2>1 DEF SwapUsed
<1>7. MemoryIsKept
  BY <1>1, <1>2, EmptyEntry DEF Init, MemoryIsKept, Content, TypeOK
<1>8. \A t \in Proc : JobFits(t)
  BY <1>3, UserJob DEF JobFits
<1>9. Children
  BY <1>2, <1>3, UserJob DEF Children
<1>10. Queued
  <2>1. Len(swapq) = 0 /\ waits = {}
    BY DEF Init
  <2>2. 1..Len(swapq) = {}
    BY <2>1
  <2>3. QED
    BY <2>1, <2>2 DEF Queued
<1>11. ForkCopies /\ CleanIsClear /\ NewIsRight
  BY <1>2, <1>3, EmptyEntry, UserJob DEF ForkCopies, CleanIsClear, NewIsRight
<1>12. QED
  BY <1>1, <1>5, <1>6, <1>7, <1>8, <1>9, <1>10, <1>11 DEF IInv

LEMMA NextIInv == IInv /\ [Next]_vars => IInv'
<1> SUFFICES ASSUME IInv, [Next]_vars PROVE IInv'
  OBVIOUS
<1>1. CASE UNCHANGED vars
  <2>1. UNCHANGED <<alive, pte, mem_map, swapfree, mem, swapmem, mine, swapq, job, waits, current, version, overtaken>>
    BY <1>1 DEF vars
  <2>2. TypeOK'
    BY <2>1, Types DEF TypeOK
  <2>3. MemMapCounts' /\ WritableIsPrivate' /\ KeptAlone'
    <3>1. FramesRight'
      BY <2>1, FramesSame
    <3>2. QED
      BY <2>2, <3>1, FramesBack, PTL
  <2>4. SwapUsed'
    BY <2>1 DEF IInv, SwapUsed, SwapUsers
  <2>5. OnDisk' = OnDisk
    BY <2>1, DiskSame
  <2>6. MemoryIsKept' /\ ForkCopies'
    BY <2>1, <2>5 DEF IInv, MemoryIsKept, ForkCopies, Content
  <2>7. Children' /\ CleanIsClear'
    BY <2>1 DEF IInv, Children, CleanIsClear
  <2>8. Queued'
    BY <2>1 DEF IInv, Queued
  <2>9. NewIsRight'
    BY <2>1, <2>5 DEF IInv, NewIsRight
  <2>10. \A t \in Proc : JobFits(t)'
    BY <2>1 DEF IInv, JobFits
  <2>11. QED
    BY <2>2, <2>3, <2>4, <2>6, <2>7, <2>8, <2>9, <2>10 DEF IInv
<1>2. CASE Next
  <2>1. CASE SwapInterrupt
    BY <2>1, DoSwapInterrupt
  <2>2. ASSUME NEW t \in Proc, NEW v \in Page,
               UserWrite(t, v) \/ WriteFault(t, v) \/ NoPageFault(t, v) \/ TryToShare(t, v)
        PROVE  IInv'
    BY <2>2, DoUserWrite, DoWriteFault, DoNoPageFault, DoTryToShare
  <2>3. ASSUME NEW t \in Proc, NEW p \in Proc, NEW v \in Page,
               SwapOutClean(t, p, v) \/ SwapOutDirty(t, p, v)
        PROVE  IInv'
    BY <2>3, DoSwapOutClean, DoSwapOutDirty
  <2>4. ASSUME NEW t \in Proc,
               \/ Scan(t) \/ Written(t) \/ OutOfMemory(t) \/ CopyOnWrite(t) \/ ReadSwap(t)
               \/ SwapIn(t) \/ PutPage(t) \/ BreadPage(t) \/ CopyEntry(t) \/ CopySwapped(t)
               \/ Forked(t) \/ Exit(t) \/ ForkFails(t)
        PROVE  IInv'
    BY <2>4, DoScan, DoWritten, DoOutOfMemory, DoCopyOnWrite, DoReadSwap, DoSwapIn, DoPutPage,
       DoBreadPage, DoCopyEntry, DoCopySwapped, DoForked, DoExit, DoForkFails
  <2>5. ASSUME NEW t \in Proc, NEW c \in Proc, Fork(t, c) PROVE IInv'
    BY <2>5, DoFork
  <2>6. QED
    BY <1>2, <2>1, <2>2, <2>3, <2>4, <2>5 DEF Next
<1>3. QED
  BY <1>1, <1>2

LEMMA SwapExact == IInv => SwapSpaceExact
<1> SUFFICES ASSUME IInv, NEW n \in Swap
             PROVE  Cardinality(SwapUsers(n)) = IF n \in swapfree THEN 0 ELSE 1
  BY DEF SwapSpaceExact
<1>1. IF n \in swapfree THEN SwapUsers(n) = {} ELSE \E e \in Proc \X Page : SwapUsers(n) = {e}
  BY DEF IInv, SwapUsed
<1>2. QED
  BY <1>1, FS_EmptySet, Singleton

(* mem_map counts exactly the users of every frame, page-table entries and
   functions that hold a page across a sleep; and a frame that a process may
   write is in no other table.  Through faults, sharing, fork, swapping and
   exit, interleaved wherever the kernel sleeps. *)
THEOREM FramesStayExact == Spec => []FramesExact
<1>1. IInv => FramesExact
  BY DEF IInv, FramesExact
<1>2. QED
  BY <1>1, InitIInv, NextIInv, PTL DEF Spec

(* swap_bitmap marks exactly the pages of swap space that an entry refers to,
   and no two entries refer to one page. *)
THEOREM SwapSpaceStaysExact == Spec => []SwapSpaceExact
BY InitIInv, NextIInv, SwapExact, PTL DEF Spec

(* Every process finds in its memory what it, or its parent before fork, wrote
   there last. *)
THEOREM NoMemoryIsLost == Spec => []MemoryIsKept
<1>1. IInv => MemoryIsKept
  BY DEF IInv
<1>2. QED
  BY <1>1, InitIInv, NextIInv, PTL DEF Spec
=============================================================================
