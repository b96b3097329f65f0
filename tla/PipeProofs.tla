----------------------------- MODULE PipeProofs -----------------------------
(***************************************************************************)
(* Proofs about Pipe, for any ring size, any number of processes and of    *)
(* descriptors; and, at the end, about SerialLine, for any queue size and  *)
(* any number of characters and of lost interrupts.                        *)
(***************************************************************************)
EXTENDS Pipe, SerialDriver, FiniteSetTheorems, SequenceTheorems, TLAPS

(***************************************************************************)
(* The ring.                                                               *)
(***************************************************************************)
LEMMA Mod ==
  ASSUME NEW P \in Nat, P > 0, NEW x \in Nat
  PROVE  /\ x % P \in 0..P - 1
         /\ x < P => x % P = x
         /\ x >= P /\ x < P + P => x % P = x - P
<1>1. x % P \in 0..P - 1
  OBVIOUS
<1>2. x < P => x % P = x
  OBVIOUS
<1>3. x >= P /\ x < P + P => x % P = x - P
  OBVIOUS
<1>4. QED
  BY <1>1, <1>2, <1>3

LEMMA Size ==
  ASSUME TypeOK
  PROVE  /\ PAGE_SIZE \in Nat /\ PAGE_SIZE > 1 /\ head \in Nat /\ tail \in Nat
         /\ head < PAGE_SIZE /\ tail < PAGE_SIZE
         /\ PIPE_SIZE \in 0..PAGE_SIZE - 1 /\ Room \in 0..PAGE_SIZE - 1
         /\ PIPE_SIZE = IF tail <= head THEN head - tail ELSE head + PAGE_SIZE - tail
<1>1. /\ PAGE_SIZE \in Nat /\ PAGE_SIZE > 1 /\ head \in Nat /\ tail \in Nat
      /\ head < PAGE_SIZE /\ tail < PAGE_SIZE
  BY PipeAssumption DEF TypeOK
<1>2. head + PAGE_SIZE - tail \in Nat /\ head + PAGE_SIZE - tail < PAGE_SIZE + PAGE_SIZE
  BY <1>1
<1>3. PIPE_SIZE = IF tail <= head THEN head - tail ELSE head + PAGE_SIZE - tail
  BY <1>1, <1>2, Mod DEF PIPE_SIZE
<1>4. QED
  BY <1>1, <1>3 DEF Room

LEMMA Least ==
  ASSUME NEW a \in Nat, NEW b \in Nat, NEW c \in Nat
  PROVE  /\ Min({a, b, c}) \in Nat
         /\ Min({a, b, c}) <= a /\ Min({a, b, c}) <= b /\ Min({a, b, c}) <= c
         /\ a > 0 /\ b > 0 /\ c > 0 => Min({a, b, c}) > 0
<1>1. \E x \in {a, b, c} : \A y \in {a, b, c} : x <= y
  OBVIOUS
<1>2. Min({a, b, c}) \in {a, b, c} /\ \A y \in {a, b, c} : Min({a, b, c}) <= y
  BY <1>1 DEF Min
<1>3. QED
  BY <1>2

(* A chunk that pipe_read takes, or pipe_write puts. *)
LEMMA ReadTakes ==
  ASSUME TypeOK, NEW p \in Proc, job[p] \in Job, job[p].count > 0, PIPE_SIZE > 0
  PROVE  /\ ReadChars(p) \in Nat /\ ReadChars(p) > 0 /\ ReadChars(p) <= job[p].count
         /\ ReadChars(p) <= PIPE_SIZE /\ tail + ReadChars(p) <= PAGE_SIZE
<1>1. job[p].count \in Nat /\ PIPE_SIZE \in Nat /\ PAGE_SIZE - tail \in Nat /\ PAGE_SIZE - tail > 0
  BY Size DEF Job
<1>2. ReadChars(p) \in Nat /\ ReadChars(p) > 0 /\ ReadChars(p) <= job[p].count
      /\ ReadChars(p) <= PIPE_SIZE /\ ReadChars(p) <= PAGE_SIZE - tail
  BY <1>1, Least DEF ReadChars
<1>3. QED
  BY <1>2, Size

LEMMA WritePuts ==
  ASSUME TypeOK, NEW p \in Proc, job[p] \in Job, job[p].count > 0, Room > 0
  PROVE  /\ WriteChars(p) \in Nat /\ WriteChars(p) > 0 /\ WriteChars(p) <= job[p].count
         /\ WriteChars(p) <= Room /\ head + WriteChars(p) <= PAGE_SIZE
<1>1. job[p].count \in Nat /\ Room \in Nat /\ PAGE_SIZE - head \in Nat /\ PAGE_SIZE - head > 0
  BY Size DEF Job
<1>2. WriteChars(p) \in Nat /\ WriteChars(p) > 0 /\ WriteChars(p) <= job[p].count
      /\ WriteChars(p) <= Room /\ WriteChars(p) <= PAGE_SIZE - head
  BY <1>1, Least DEF WriteChars
<1>3. QED
  BY <1>2, Size

(* Moving an index on within the page. *)
LEMMA Advanced ==
  ASSUME PAGE_SIZE \in Nat, PAGE_SIZE > 1, NEW i \in Nat, NEW n \in Nat, i + n <= PAGE_SIZE
  PROVE  Advance(i, n) = IF i + n = PAGE_SIZE THEN 0 ELSE i + n
  BY Mod DEF Advance

(***************************************************************************)
(* Counting descriptors.                                                   *)
(***************************************************************************)
D(fl, f) == {d \in Proc \X (1..NR_OPEN) : d[2] <= fl[d[1]][f]}
Tables == [Proc -> [File -> 0..NR_OPEN]]

LEMMA OwnCount ==
  ASSUME NEW p \in Proc, NEW n \in Nat
  PROVE  IsFiniteSet({p} \X (1..n)) /\ Cardinality({p} \X (1..n)) = n
<1> DEFINE b == [i \in 1..n |-> <<p, i>>]
<1>1. b \in Bijection(1..n, {p} \X (1..n))
  <2>1. b \in [1..n -> {p} \X (1..n)]
    OBVIOUS
  <2>2. \A i, j \in 1..n : b[i] = b[j] => i = j
    OBVIOUS
  <2>3. \A d \in {p} \X (1..n) : \E i \in 1..n : b[i] = d
    OBVIOUS
  <2>4. QED
    BY <2>1, <2>2, <2>3 DEF Bijection, Injection, Surjection, IsInjective
<1>2. ExistsBijection(1..n, {p} \X (1..n))
  BY <1>1 DEF ExistsBijection
<1>3. IsFiniteSet(1..n) /\ Cardinality(1..n) = n
  BY FS_Interval
<1>4. QED
  BY <1>2, <1>3, FS_Bijection

LEMMA CountOne ==
  ASSUME NEW fl \in Tables, NEW gl \in Tables, NEW p \in Proc, NEW f \in File,
         \A q \in Proc : q # p => gl[q][f] = fl[q][f]
  PROVE  /\ Cardinality(D(fl, f)) \in Nat /\ fl[p][f] <= Cardinality(D(fl, f))
         /\ Cardinality(D(gl, f)) = Cardinality(D(fl, f)) + gl[p][f] - fl[p][f]
<1> DEFINE Rest == {d \in Proc \X (1..NR_OPEN) : d[1] # p /\ d[2] <= fl[d[1]][f]}
           Own(n) == {p} \X (1..n)
<1>1. NR_OPEN \in Nat /\ fl[p][f] \in 0..NR_OPEN /\ gl[p][f] \in 0..NR_OPEN
  BY PipeAssumption DEF Tables
<1>2. IsFiniteSet(Proc \X (1..NR_OPEN))
  <2>1. IsFiniteSet(1..NR_OPEN)
    BY <1>1, FS_Interval
  <2>2. QED
    BY <2>1, PipeAssumption, FS_Product
<1>3. IsFiniteSet(Rest) /\ Cardinality(Rest) \in Nat
  BY <1>2, FS_Subset, FS_CardinalityType
<1>4. D(fl, f) = Rest \cup Own(fl[p][f])
  BY <1>1 DEF D
<1>5. D(gl, f) = Rest \cup Own(gl[p][f])
  BY <1>1 DEF D
<1>6. ASSUME NEW n \in Nat PROVE Rest \cap Own(n) = {}
  OBVIOUS
<1>7. ASSUME NEW n \in Nat PROVE Cardinality(Rest \cup Own(n)) = Cardinality(Rest) + n
  <2>1. IsFiniteSet(Own(n)) /\ Cardinality(Own(n)) = n
    BY OwnCount
  <2>2. Cardinality(Rest \cap Own(n)) = 0
    BY <1>6, FS_EmptySet
  <2> HIDE DEF Rest, Own
  <2>3. Cardinality(Rest \cup Own(n)) = Cardinality(Rest) + Cardinality(Own(n)) - Cardinality(Rest \cap Own(n))
    BY <1>3, <2>1, FS_Union
  <2>4. QED
    BY <1>3, <2>1, <2>2, <2>3
<1> HIDE DEF Rest, Own
<1>8. QED
  BY <1>1, <1>3, <1>4, <1>5, <1>7

Ends == {f \in File : f_count[f] > 0}

LEMMA TwoEnds ==
  ASSUME NEW S \in SUBSET File
  PROVE  IsFiniteSet(S) /\ Cardinality(S) \in 0..2 /\ Cardinality(File) = 2
<1>1. IsFiniteSet({RD}) /\ Cardinality({RD}) = 1 /\ WR \notin {RD}
  BY FS_Singleton DEF RD, WR
<1>2. IsFiniteSet({RD} \cup {WR}) /\ Cardinality({RD} \cup {WR}) = 1 + 1
  BY <1>1, FS_AddElement
<1>3. IsFiniteSet(File) /\ Cardinality(File) = 2
  BY <1>2 DEF File
<1>4. IsFiniteSet(S) /\ Cardinality(S) <= Cardinality(File) /\ Cardinality(S) \in Nat
  BY <1>3, FS_Subset, FS_CardinalityType
<1>5. QED
  BY <1>3, <1>4

(* What the invariant says of the file table. *)
LEMMA Counted ==
  ASSUME CountsExact
  PROVE  /\ filp \in Tables /\ f_count \in [File -> Nat]
         /\ \A f \in File : f_count[f] = Cardinality(D(filp, f))
         /\ \A f \in File, p \in Proc : filp[p][f] \in Nat /\ filp[p][f] <= f_count[f]
         /\ i_count = Cardinality(Ends)
<1>1. filp \in Tables /\ f_count \in [File -> Nat]
  BY DEF CountsExact, TypeOK, Tables
<1>2. \A f \in File : f_count[f] = Cardinality(D(filp, f))
  BY DEF CountsExact, Descriptors, D
<1>3. ASSUME NEW f \in File, NEW p \in Proc PROVE filp[p][f] \in Nat /\ filp[p][f] <= f_count[f]
  <2>1. filp[p][f] \in 0..NR_OPEN /\ NR_OPEN \in Nat
    BY <1>1, PipeAssumption DEF Tables
  <2>2. filp[p][f] <= Cardinality(D(filp, f))
    BY <1>1, CountOne
  <2>3. QED
    BY <1>2, <2>1, <2>2
<1>4. i_count = Cardinality(Ends)
  BY DEF CountsExact, Ends
<1>5. QED
  BY <1>1, <1>2, <1>3, <1>4

(* One process's descriptors change, and f_count follows. *)
LEMMA Recounted ==
  ASSUME CountsExact, NEW p \in Proc, NEW fp \in [File -> 0..NR_OPEN],
         filp' = [filp EXCEPT ![p] = fp],
         f_count' = [f \in File |-> f_count[f] + fp[f] - filp[p][f]]
  PROVE  /\ filp' \in Tables /\ f_count' \in [File -> Nat]
         /\ \A f \in File : f_count'[f] = Cardinality(Descriptors(f)')
<1>1. filp \in Tables /\ f_count \in [File -> Nat] /\ filp' \in Tables
  BY Counted DEF Tables
<1>2. NR_OPEN \in Nat /\ \A f \in File : fp[f] \in 0..NR_OPEN
  BY PipeAssumption
<1>3. ASSUME NEW f \in File
      PROVE  f_count'[f] \in Nat /\ f_count'[f] = Cardinality(Descriptors(f)')
  <2>1. \A q \in Proc : q # p => filp'[q][f] = filp[q][f]
    BY <1>1 DEF Tables
  <2>2. filp'[p][f] = fp[f]
    BY <1>1 DEF Tables
  <2>3. Cardinality(D(filp', f)) = Cardinality(D(filp, f)) + filp'[p][f] - filp[p][f]
    <3>1. PICK gl \in Tables : gl = filp'
      BY <1>1
    <3>2. PICK fl \in Tables : fl = filp
      BY <1>1
    <3>3. \A q \in Proc : q # p => gl[q][f] = fl[q][f]
      BY <2>1, <3>1, <3>2
    <3>4. Cardinality(D(gl, f)) = Cardinality(D(fl, f)) + gl[p][f] - fl[p][f]
      BY <3>3, CountOne
    <3>5. QED
      BY <3>1, <3>2, <3>4
  <2>4. Descriptors(f)' = D(filp', f)
    BY DEF Descriptors, D
  <2>5. f_count'[f] = f_count[f] + fp[f] - filp[p][f]
    OBVIOUS
  <2>6. f_count[f] = Cardinality(D(filp, f)) /\ filp[p][f] \in Nat /\ filp[p][f] <= f_count[f] /\ f_count[f] \in Nat
    BY Counted
  <2>7. QED
    BY <1>2, <2>2, <2>3, <2>4, <2>5, <2>6
<1>4. f_count' \in [File -> Nat]
  BY <1>3
<1>5. QED
  BY <1>1, <1>3, <1>4

(***************************************************************************)
(* A step of p leaves the others where they are, or wakes them.            *)
(***************************************************************************)
Others(p) == \A q \in Proc : q # p =>
  /\ job'[q] = job[q]
  /\ wait'[q] \in {wait[q], Awake} /\ (wait[q] = "page" => wait'[q] = "page")
  /\ filp'[q][WR] >= filp[q][WR]

Placed(p) ==
  /\ wait[p] = "page" <=> job[p].at \in {"read_fault", "write_fault"}
  /\ wait[p] = "i_wait" => job[p].at \in {"empty", "select"}
  /\ wait[p] = "i_wait2" => job[p].at = "write"
  /\ job[p].at \in {"write", "write_fault"} => filp[p][WR] > 0

LEMMA PlacesKept ==
  ASSUME IInv, filp' \in Tables, NEW p \in Proc, Others(p), current' \in {NoProc, p},
         current' = p => wait'[p] = Awake /\ job'[p].at # "out", Placed(p)'
  PROVE  Places'
<1>1. ASSUME NEW q \in Proc PROVE Placed(q)'
  <2>1. CASE q = p
    BY <2>1
  <2>2. CASE q # p
    <3>1. Placed(q)
      BY DEF IInv, Places, Placed
    <3>2. /\ job'[q] = job[q] /\ wait'[q] \in {wait[q], Awake}
          /\ wait[q] = "page" => wait'[q] = "page"
      BY <2>2 DEF Others
    <3>3. filp[q][WR] \in Nat /\ filp'[q][WR] \in Nat /\ filp'[q][WR] >= filp[q][WR]
      <4>1. NR_OPEN \in Nat /\ WR \in File
        BY PipeAssumption DEF File
      <4>2. QED
        BY <2>2, <4>1, Counted DEF IInv, Others, Tables
    <3>4. QED
      BY <3>1, <3>2, <3>3 DEF Placed, Awake
  <2>3. QED
    BY <2>1, <2>2
<1>2. current' # NoProc => wait'[current'] = Awake /\ job'[current'].at # "out"
  OBVIOUS
<1>3. QED
  BY <1>1, <1>2 DEF Places, Placed

Writing == {"write", "write_fault"}
Reading == {"read", "read_fault"}

(* Whoever is midway stays so, or is p himself. *)
LEMMA MidwayKept ==
  ASSUME IInv, NEW p \in Proc, Others(p), current \in {NoProc, p}, NEW at,
         \E q \in Proc : Midway(q, at), ~Midway(p, at)
  PROVE  \E q \in Proc : q # p /\ Midway(q, at)'
<1>1. PICK q \in Proc : Midway(q, at)
  OBVIOUS
<1>2. q # p /\ wait[q] = "page"
  BY <1>1, PipeAssumption DEF Midway
<1>3. QED
  BY <1>1, <1>2 DEF Midway, Others

LEMMA ToldKept ==
  ASSUME IInv, TypeOK', NEW p \in Proc, Others(p), current \in {NoProc, p}, WillBeTold(p)',
         \/ Midway(p, Writing)'
         \/ \A q \in Proc : q # p => wait'[q] # "i_wait"
         \/ /\ ~Midway(p, Writing)
            /\ (PIPE_SIZE' <= PIPE_SIZE /\ i_count' = i_count) \/ (PIPE_SIZE' = 0 /\ i_count' = 2),
         \/ Midway(p, Reading)'
         \/ \A q \in Proc : q # p => wait'[q] # "i_wait2"
         \/ ~Midway(p, Reading) /\ Room' <= Room /\ i_count' = i_count
  PROVE  \A q \in Proc : WillBeTold(q)'
<1> SUFFICES ASSUME NEW q \in Proc, q # p PROVE WillBeTold(q)'
  OBVIOUS
<1>1. /\ job'[q] = job[q] /\ wait'[q] \in {wait[q], Awake}
  BY DEF Others
<1>2. \A at : Asleep(q, at)' => Asleep(q, at) /\ wait'[q] = wait[q]
  BY <1>1 DEF Asleep, Awake, Queue
<1>3. WillBeTold(q) /\ Placed(q)
  BY DEF IInv, Places, Placed
<1>4. PIPE_SIZE \in Nat /\ Room \in Nat /\ PIPE_SIZE' \in Nat /\ Room' \in Nat
  <2>1. PIPE_SIZE \in Nat /\ Room \in Nat
    BY Size DEF IInv, CountsExact
  <2>2. PIPE_SIZE' \in Nat /\ Room' \in Nat
    <3>1. PAGE_SIZE \in Nat /\ PAGE_SIZE > 0 /\ head' \in 0..PAGE_SIZE - 1 /\ tail' \in 0..PAGE_SIZE - 1
      BY PipeAssumption DEF TypeOK
    <3>2. PICK x \in Nat : x = head' + PAGE_SIZE - tail'
      <4>1. PICK h \in Nat, t \in Nat : h = head' /\ t = tail' /\ t <= PAGE_SIZE
        BY <3>1
      <4>2. PAGE_SIZE \in Nat /\ t <= PAGE_SIZE
        BY <3>1, <4>1
      <4>3. h + PAGE_SIZE - t \in Nat
        BY <4>2
      <4>4. QED
        BY <4>1, <4>3
    <3>3. x % PAGE_SIZE \in 0..PAGE_SIZE - 1
      BY <3>1, <3>2, Mod
    <3>4. PIPE_SIZE' = x % PAGE_SIZE /\ Room' = PAGE_SIZE - 1 - (x % PAGE_SIZE)
      BY <3>2 DEF PIPE_SIZE, Room
    <3>5. QED
      BY <3>1, <3>3, <3>4
  <2>3. QED
    BY <2>1, <2>2
<1>5. ASSUME Asleep(q, "empty")' PROVE WriteUnderWay' \/ (PIPE_SIZE' = 0 /\ i_count' = 2)
  <2>1. wait'[q] = "i_wait" /\ Asleep(q, "empty")
    BY <1>2, <1>3, <1>5 DEF Placed, Asleep, Queue
  <2>2. CASE Midway(p, Writing)'
    BY <2>2 DEF WriteUnderWay, Writing
  <2>3. CASE ~Midway(p, Writing) /\ ((PIPE_SIZE' <= PIPE_SIZE /\ i_count' = i_count) \/ (PIPE_SIZE' = 0 /\ i_count' = 2))
    <3>1. CASE WriteUnderWay
      BY <2>3, <3>1, MidwayKept DEF WriteUnderWay, Writing
    <3>2. CASE PIPE_SIZE = 0 /\ i_count = 2
      BY <1>4, <2>3, <3>2
    <3>3. QED
      BY <1>3, <2>1, <3>1, <3>2 DEF WillBeTold
  <2>4. QED
    BY <2>1, <2>2, <2>3
<1>6. ASSUME Asleep(q, "write")' PROVE ReadUnderWay' \/ (Room' = 0 /\ i_count' = 2)
  <2>1. wait'[q] = "i_wait2" /\ Asleep(q, "write")
    BY <1>2, <1>3, <1>6 DEF Placed, Asleep, Queue
  <2>2. CASE Midway(p, Reading)'
    BY <2>2 DEF ReadUnderWay, Reading
  <2>3. CASE ~Midway(p, Reading) /\ Room' <= Room /\ i_count' = i_count
    <3>1. CASE ReadUnderWay
      BY <2>3, <3>1, MidwayKept DEF ReadUnderWay, Reading
    <3>2. CASE Room = 0 /\ i_count = 2
      BY <1>4, <2>3, <3>2
    <3>3. QED
      BY <1>3, <2>1, <3>1, <3>2 DEF WillBeTold
  <2>4. QED
    BY <2>1, <2>2, <2>3
<1>7. ASSUME Asleep(q, "select")' PROVE WriteUnderWay' \/ Ready(job[q].set \ {"out"})' = {}
  <2>1. wait'[q] = "i_wait" /\ Asleep(q, "select")
    BY <1>2, <1>3, <1>7 DEF Placed, Asleep, Queue
  <2>2. CASE Midway(p, Writing)'
    BY <2>2 DEF WriteUnderWay, Writing
  <2>3. CASE ~Midway(p, Writing) /\ PIPE_SIZE' <= PIPE_SIZE /\ i_count' = i_count
    <3>1. CASE WriteUnderWay
      BY <2>3, <3>1, MidwayKept DEF WriteUnderWay, Writing
    <3>2. CASE Ready(job[q].set \ {"out"}) = {}
      BY <1>1, <1>4, <2>3, <3>2 DEF Ready
    <3>3. QED
      BY <1>3, <2>1, <3>1, <3>2 DEF WillBeTold
  <2>4. CASE PIPE_SIZE' = 0 /\ i_count' = 2
    BY <1>1, <2>4 DEF Ready
  <2>5. QED
    BY <2>1, <2>2, <2>3, <2>4
<1>8. QED
  BY <1>1, <1>5, <1>6, <1>7 DEF WillBeTold

(* Together, for a step that leaves the file table alone. *)
LEMMA FilesKept ==
  ASSUME IInv, TypeOK', job' \in [Proc -> Job], UNCHANGED <<filp, f_count, i_pipe, i_count>>,
         NEW p \in Proc, Others(p), current \in {NoProc, p}, current' \in {NoProc, p},
         current' = p => wait'[p] = Awake /\ job'[p].at # "out", Placed(p)', WillBeTold(p)',
         \/ Midway(p, Writing)'
         \/ \A q \in Proc : q # p => wait'[q] # "i_wait"
         \/ ~Midway(p, Writing) /\ PIPE_SIZE' <= PIPE_SIZE,
         \/ Midway(p, Reading)'
         \/ \A q \in Proc : q # p => wait'[q] # "i_wait2"
         \/ ~Midway(p, Reading) /\ Room' <= Room
  PROVE  IInv'
<1>1. CountsExact'
  <2>1. \A f \in File : Descriptors(f)' = Descriptors(f)
    BY DEF Descriptors
  <2>2. QED
    BY <2>1 DEF IInv, CountsExact
<1>2. DescriptorsFit'
  BY DEF IInv, DescriptorsFit, Open
<1>3. Places'
  <2>1. filp' \in Tables
    BY DEF TypeOK, Tables
  <2>2. QED
    BY <2>1, PlacesKept
<1>4. \A q \in Proc : WillBeTold(q)'
  <2>1. \/ Midway(p, Writing)'
        \/ \A q \in Proc : q # p => wait'[q] # "i_wait"
        \/ /\ ~Midway(p, Writing)
           /\ (PIPE_SIZE' <= PIPE_SIZE /\ i_count' = i_count) \/ (PIPE_SIZE' = 0 /\ i_count' = 2)
    OBVIOUS
  <2>2. \/ Midway(p, Reading)'
        \/ \A q \in Proc : q # p => wait'[q] # "i_wait2"
        \/ ~Midway(p, Reading) /\ Room' <= Room /\ i_count' = i_count
    OBVIOUS
  <2>3. QED
    BY <2>1, <2>2, ToldKept
<1>5. QED
  BY <1>1, <1>2, <1>3, <1>4 DEF IInv

LEMMA Types ==
  ASSUME IInv
  PROVE  /\ TypeOK /\ job \in [Proc -> Job] /\ \A p \in Proc : job[p] \in Job /\ Placed(p) /\ WillBeTold(p)
         /\ wait \in [Proc -> Queue \cup {Awake, "page"}]
         /\ PIPE_SIZE \in Nat /\ Room \in Nat
<1>1. TypeOK /\ job \in [Proc -> Job]
  BY DEF IInv, CountsExact
<1>2. \A p \in Proc : job[p] \in Job /\ Placed(p) /\ WillBeTold(p)
  BY <1>1 DEF IInv, Places, Placed
<1>3. wait \in [Proc -> Queue \cup {Awake, "page"}]
  BY <1>1 DEF TypeOK
<1>4. PIPE_SIZE \in Nat /\ Room \in Nat
  BY <1>1, Size
<1>5. QED
  BY <1>1, <1>2, <1>3, <1>4

LEMMA OutIsJob == Out \in Job /\ Out.at = "out"
  BY DEF Out, Job

(* A process that is awake or waits for a page is told nothing. *)
LEMMA AwakeIsTold ==
  ASSUME NEW p \in Proc, wait'[p] \notin Queue
  PROVE  WillBeTold(p)'
  BY DEF WillBeTold, Asleep

(* wake_up of the queues in Q. *)
WakesOthers(p, Q) ==
  \A q \in Proc : q # p => wait'[q] = IF wait[q] \in Q THEN Awake ELSE wait[q]

LEMMA OthersWoken ==
  ASSUME IInv, NEW p \in Proc, NEW Q \in SUBSET Queue, WakesOthers(p, Q), filp' = filp,
         NEW j, job' = [job EXCEPT ![p] = j]
  PROVE  /\ Others(p)
         /\ "i_wait" \in Q => \A q \in Proc : q # p => wait'[q] # "i_wait"
         /\ "i_wait2" \in Q => \A q \in Proc : q # p => wait'[q] # "i_wait2"
<1>1. \A q \in Proc : q # p => job'[q] = job[q]
  BY Types
<1>2. WR \in File /\ \A q \in Proc : filp[q][WR] \in Nat
  BY Counted DEF IInv, File
<1>3. \A q \in Proc : wait[q] = "page" => wait[q] \notin Q
  BY DEF Queue
<1>4. Others(p)
  BY <1>1, <1>2, <1>3 DEF Others, WakesOthers
<1>5. QED
  BY <1>4 DEF WakesOthers, Awake

(***************************************************************************)
(* The steps.                                                              *)
(***************************************************************************)
LEMMA CallStep ==
  ASSUME IInv, NEW p \in Proc, Calls(p), NEW j \in Job, j.at \in {"read", "empty", "write", "select"},
         j.at = "write" => filp[p][WR] > 0, job' = [job EXCEPT ![p] = j], current' = p,
         UNCHANGED <<files, inode, wait, sig, history>>
  PROVE  IInv'
<1>1. /\ UNCHANGED <<filp, f_count, i_pipe, i_count, head, tail, page>>
      /\ UNCHANGED <<wait, sig, next, given, broken>>
  BY DEF files, inode, history
<1>2. wait[p] = Awake /\ current \in {NoProc, p} /\ job[p].at = "out"
  BY OutIsJob DEF Calls, Runs
<1>3. TypeOK'
  BY <1>1, Types DEF TypeOK
<1>4. job' \in [Proc -> Job] /\ job'[p] = j
  BY Types
<1>5. Others(p)
  <2>1. {} \in SUBSET Queue /\ WakesOthers(p, {})
    BY <1>1 DEF WakesOthers
  <2>2. QED
    BY <1>1, <2>1, OthersWoken
<1>6. Placed(p)' /\ WillBeTold(p)'
  BY <1>1, <1>2, <1>4, AwakeIsTold DEF Placed, Awake, Queue
<1>7. ~Midway(p, Writing) /\ ~Midway(p, Reading) /\ PIPE_SIZE' <= PIPE_SIZE /\ Room' <= Room
  <2>1. PIPE_SIZE' = PIPE_SIZE /\ Room' = Room
    BY <1>1 DEF PIPE_SIZE, Room
  <2>2. QED
    BY <1>2, <2>1, Types DEF Midway, Writing, Reading
<1>8. QED
  BY <1>1, <1>2, <1>3, <1>4, <1>5, <1>6, <1>7, FilesKept

(* The call ends: whoever has read or written wakes the other side. *)
LEMMA ReturnStep ==
  ASSUME IInv, NEW p \in Proc, current \in {NoProc, p}, wait[p] # "page",
         NEW Q \in SUBSET Queue, WakesOthers(p, Q), wait'[p] = Awake,
         wait' = [q \in Proc |-> wait'[q]],
         Return(p), UNCHANGED <<files, inode, next, broken>>,
         job[p].at \in Writing => "i_wait" \in Q, job[p].at \in Reading => "i_wait2" \in Q
  PROVE  IInv'
<1>1. /\ UNCHANGED <<filp, f_count, i_pipe, i_count, head, tail, page>>
      /\ UNCHANGED <<next, broken>>
  BY DEF files, inode
<1>2. job' = [job EXCEPT ![p] = Out] /\ current' = NoProc /\ sig' = sig \ {p}
  BY DEF Return
<1>3. job' \in [Proc -> Job] /\ job'[p].at = "out"
  BY <1>2, Types, OutIsJob
<1>4. wait' \in [Proc -> Queue \cup {Awake, "page"}]
  BY Types DEF WakesOthers
<1>5. TypeOK'
  BY <1>1, <1>2, <1>4, Types DEF TypeOK
<1>6. /\ Others(p)
      /\ "i_wait" \in Q => \A q \in Proc : q # p => wait'[q] # "i_wait"
      /\ "i_wait2" \in Q => \A q \in Proc : q # p => wait'[q] # "i_wait2"
  BY <1>1, <1>2, OthersWoken
<1>7. Placed(p)' /\ WillBeTold(p)'
  BY <1>3, AwakeIsTold DEF Placed, Awake, Queue
<1>8. PIPE_SIZE' <= PIPE_SIZE /\ Room' <= Room
  <2>1. PIPE_SIZE' = PIPE_SIZE /\ Room' = Room
    BY <1>1 DEF PIPE_SIZE, Room
  <2>2. QED
    BY <2>1, Types
<1>9. current' # p
  BY <1>2, PipeAssumption
<1>10. (Midway(p, Writing) => "i_wait" \in Q) /\ (Midway(p, Reading) => "i_wait2" \in Q)
  BY DEF Midway
<1>11. QED
  BY <1>1, <1>2, <1>3, <1>5, <1>6, <1>7, <1>8, <1>9, <1>10, FilesKept

(* It goes to sleep, with the same duty. *)
LEMMA SleepStep ==
  ASSUME IInv, NEW p \in Proc, current \in {NoProc, p},
         NEW Q \in SUBSET Queue, WakesOthers(p, Q), NEW w \in Queue, wait'[p] = w,
         wait' = [q \in Proc |-> wait'[q]], current' = NoProc,
         UNCHANGED <<files, inode, job, sig, history>>,
         job[p].at \in Writing => "i_wait" \in Q, job[p].at \in Reading => "i_wait2" \in Q,
         Placed(p)', WillBeTold(p)'
  PROVE  IInv'
<1>1. /\ UNCHANGED <<filp, f_count, i_pipe, i_count, head, tail, page>>
      /\ UNCHANGED <<job, sig, next, given, broken>>
  BY DEF files, inode, history
<1>2. wait' \in [Proc -> Queue \cup {Awake, "page"}]
  <2>1. \A q \in Proc : wait'[q] \in Queue \cup {Awake, "page"}
    BY Types DEF WakesOthers
  <2>2. QED
    BY <2>1
<1>3. TypeOK'
  BY <1>1, <1>2, Types DEF TypeOK
<1>4. job' = [job EXCEPT ![p] = job[p]] /\ job' \in [Proc -> Job]
  BY <1>1, Types
<1>5. /\ Others(p)
      /\ "i_wait" \in Q => \A q \in Proc : q # p => wait'[q] # "i_wait"
      /\ "i_wait2" \in Q => \A q \in Proc : q # p => wait'[q] # "i_wait2"
  BY <1>1, <1>4, OthersWoken
<1>6. PIPE_SIZE' <= PIPE_SIZE /\ Room' <= Room
  <2>1. PIPE_SIZE' = PIPE_SIZE /\ Room' = Room
    BY <1>1 DEF PIPE_SIZE, Room
  <2>2. QED
    BY <2>1, Types
<1>7. current' # p
  BY PipeAssumption
<1>8. (Midway(p, Writing) => "i_wait" \in Q) /\ (Midway(p, Reading) => "i_wait2" \in Q)
  BY DEF Midway
<1>9. QED
  BY <1>1, <1>3, <1>4, <1>5, <1>6, <1>7, <1>8, FilesKept

LEMMA WokenOthers ==
  ASSUME IInv, NEW p \in Proc, NEW Q
  PROVE  /\ wait' = Woken(Q) =>
              /\ WakesOthers(p, Q) /\ wait' = [q \in Proc |-> wait'[q]]
              /\ wait[p] = Awake => wait'[p] = Awake
         /\ \A w : wait' = [Woken(Q) EXCEPT ![p] = w] =>
              WakesOthers(p, Q) /\ wait'[p] = w /\ wait' = [q \in Proc |-> wait'[q]]
         /\ \A w : wait' = [wait EXCEPT ![p] = w] =>
              WakesOthers(p, {}) /\ wait'[p] = w /\ wait' = [q \in Proc |-> wait'[q]]
         /\ wait' = wait => WakesOthers(p, {}) /\ wait' = [q \in Proc |-> wait'[q]]
<1>1. wait \in [Proc -> Queue \cup {Awake, "page"}]
  BY Types
<1>2. wait' = Woken(Q) => /\ WakesOthers(p, Q) /\ wait' = [q \in Proc |-> wait'[q]]
                          /\ wait[p] = Awake => wait'[p] = Awake
  BY DEF Woken, WakesOthers
<1>3. ASSUME NEW w, wait' = [Woken(Q) EXCEPT ![p] = w]
      PROVE  WakesOthers(p, Q) /\ wait'[p] = w /\ wait' = [q \in Proc |-> wait'[q]]
  BY <1>3 DEF Woken, WakesOthers
<1>4. ASSUME NEW w, wait' = [wait EXCEPT ![p] = w]
      PROVE  WakesOthers(p, {}) /\ wait'[p] = w /\ wait' = [q \in Proc |-> wait'[q]]
  BY <1>1, <1>4 DEF WakesOthers
<1>5. wait' = wait => WakesOthers(p, {}) /\ wait' = [q \in Proc |-> wait'[q]]
  BY <1>1 DEF WakesOthers
<1>6. QED
  BY <1>2, <1>3, <1>4, <1>5

LEMMA ReadWaitStep ==
  ASSUME IInv, NEW p \in Proc, ReadWait(p)
  PROVE  IInv'
<1>1. wait[p] = Awake /\ current \in {NoProc, p} /\ job[p].at = "empty" /\ UNCHANGED <<files, inode, history>>
  BY DEF ReadWait, Runs
<1>2. /\ UNCHANGED <<filp, f_count, i_pipe, i_count, head, tail, page>>
      /\ UNCHANGED <<next, given, broken>>
  BY <1>1 DEF files, inode, history
<1>3. PIPE_SIZE' = PIPE_SIZE /\ Room' = Room
  BY <1>2 DEF PIPE_SIZE, Room
<1>4. CASE job' = [job EXCEPT ![p].at = "read"] /\ current' = p /\ UNCHANGED <<wait, sig>>
  <2> DEFINE j == [job[p] EXCEPT !.at = "read"]
  <2>1. j \in Job /\ j.at = "read"
    BY Types DEF Job
  <2>2. job' = [job EXCEPT ![p] = j] /\ job' \in [Proc -> Job] /\ job'[p].at = "read"
    BY <1>4, <2>1, Types
  <2> HIDE DEF j
  <2>3. TypeOK'
    BY <1>2, <1>4, Types, PipeAssumption DEF TypeOK
  <2>4. Others(p)
    BY <1>2, <1>4, <2>2, WokenOthers, OthersWoken
  <2>5. Placed(p)' /\ WillBeTold(p)' /\ wait'[p] = Awake
    BY <1>1, <1>4, <2>2, AwakeIsTold DEF Placed, Awake, Queue
  <2>6. Midway(p, Reading)' /\ ~Midway(p, Writing) /\ PIPE_SIZE' <= PIPE_SIZE
    BY <1>1, <1>3, <1>4, <2>2, Types DEF Midway, Reading, Writing
  <2>7. QED
    BY <1>1, <1>2, <1>4, <2>2, <2>3, <2>4, <2>5, <2>6, FilesKept
<1>5. CASE Return(p) /\ WakeUp("i_wait2")
  <2>1. {"i_wait2"} \in SUBSET Queue /\ wait[p] # "page" /\ job[p].at \notin Writing
    BY <1>1 DEF Queue, Awake, Writing
  <2>2. WakesOthers(p, {"i_wait2"}) /\ wait'[p] = Awake /\ wait' = [q \in Proc |-> wait'[q]]
    BY <1>1, <1>5, WokenOthers DEF WakeUp
  <2>3. QED
    BY <1>1, <1>2, <1>5, <2>1, <2>2, ReturnStep
<1>6. CASE /\ PIPE_SIZE = 0 /\ i_count = 2 /\ UNCHANGED <<job, sig>>
           /\ wait' = [Woken({"i_wait2"}) EXCEPT ![p] = "i_wait"] /\ current' = NoProc
  <2>1. {"i_wait2"} \in SUBSET Queue /\ "i_wait" \in Queue /\ job[p].at \notin Writing
    BY <1>1 DEF Queue, Writing
  <2>2. WakesOthers(p, {"i_wait2"}) /\ wait'[p] = "i_wait" /\ wait' = [q \in Proc |-> wait'[q]]
    BY <1>6, WokenOthers
  <2>3. Placed(p)'
    BY <1>1, <1>6, <2>2 DEF Placed
  <2>4. WillBeTold(p)'
    BY <1>1, <1>2, <1>3, <1>6, <2>2 DEF WillBeTold, Asleep
  <2>5. QED
    BY <1>1, <1>2, <1>6, <2>1, <2>2, <2>3, <2>4, SleepStep
<1>7. QED
  BY <1>4, <1>5, <1>6 DEF ReadWait

LEMMA ReadDoneStep ==
  ASSUME IInv, NEW p \in Proc, ReadDone(p)
  PROVE  IInv'
<1>1. wait[p] = Awake /\ current \in {NoProc, p} /\ job[p].at = "read" /\ UNCHANGED <<files, inode, next, broken>>
  BY DEF ReadDone, Runs
<1>2. {"i_wait2"} \in SUBSET Queue /\ wait[p] # "page" /\ job[p].at \notin Writing
  BY <1>1 DEF Queue, Awake, Writing
<1>3. Return(p) /\ WakesOthers(p, {"i_wait2"}) /\ wait'[p] = Awake /\ wait' = [q \in Proc |-> wait'[q]]
  BY <1>1, WokenOthers DEF WakeUp, ReadDone
<1>4. QED
  BY <1>1, <1>2, <1>3, ReturnStep

LEMMA WriteWaitStep ==
  ASSUME IInv, NEW p \in Proc, WriteWait(p)
  PROVE  IInv'
<1>1. /\ wait[p] = Awake /\ current \in {NoProc, p} /\ job[p].at = "write" /\ Room = 0
      /\ UNCHANGED <<files, inode, history>>
  BY DEF WriteWait, Runs
<1>2. /\ UNCHANGED <<filp, f_count, i_pipe, i_count, head, tail, page>>
      /\ UNCHANGED <<next, given, broken>>
  BY <1>1 DEF files, inode, history
<1>3. Room' = Room
  BY <1>2 DEF PIPE_SIZE, Room
<1>4. CASE Return(p) /\ WakeUp("i_wait")
  <2>1. {"i_wait"} \in SUBSET Queue /\ wait[p] # "page" /\ job[p].at \notin Reading
    BY <1>1 DEF Queue, Awake, Reading
  <2>2. WakesOthers(p, {"i_wait"}) /\ wait'[p] = Awake /\ wait' = [q \in Proc |-> wait'[q]]
    BY <1>1, <1>4, WokenOthers DEF WakeUp
  <2>3. QED
    BY <1>1, <1>2, <1>4, <2>1, <2>2, ReturnStep
<1>5. CASE /\ i_count = 2 /\ UNCHANGED <<job, sig>>
           /\ wait' = [Woken({"i_wait"}) EXCEPT ![p] = "i_wait2"] /\ current' = NoProc
  <2>1. {"i_wait"} \in SUBSET Queue /\ "i_wait2" \in Queue /\ job[p].at \notin Reading
    BY <1>1 DEF Queue, Reading
  <2>2. WakesOthers(p, {"i_wait"}) /\ wait'[p] = "i_wait2" /\ wait' = [q \in Proc |-> wait'[q]]
    BY <1>5, WokenOthers
  <2>3. Placed(p)'
    BY <1>1, <1>2, <1>5, <2>2, Types DEF Placed
  <2>4. WillBeTold(p)'
    BY <1>1, <1>2, <1>3, <1>5, <2>2 DEF WillBeTold, Asleep
  <2>5. QED
    BY <1>1, <1>2, <1>5, <2>1, <2>2, <2>3, <2>4, SleepStep
<1>6. QED
  BY <1>4, <1>5 DEF WriteWait

LEMMA WriteDoneStep ==
  ASSUME IInv, NEW p \in Proc, WriteDone(p)
  PROVE  IInv'
<1>1. /\ wait[p] = Awake /\ current \in {NoProc, p} /\ job[p].at = "write"
      /\ UNCHANGED <<files, inode, next, broken>>
  BY DEF WriteDone, Runs, history
<1>2. {"i_wait"} \in SUBSET Queue /\ wait[p] # "page" /\ job[p].at \notin Reading
  BY <1>1 DEF Queue, Awake, Reading
<1>3. Return(p) /\ WakesOthers(p, {"i_wait"}) /\ wait'[p] = Awake /\ wait' = [q \in Proc |-> wait'[q]]
  BY <1>1, WokenOthers DEF WakeUp, WriteDone
<1>4. QED
  BY <1>1, <1>2, <1>3, ReturnStep

LEMMA SelectSteps ==
  ASSUME IInv, NEW p \in Proc, DoSelect(p) \/ Timeout(p)
  PROVE  IInv'
<1>1. /\ current \in {NoProc, p} /\ job[p].at = "select" /\ wait[p] \in {Awake, "i_wait"}
      /\ UNCHANGED <<files, inode, history>>
  BY DEF DoSelect, Timeout, Runs
<1>2. UNCHANGED <<head, tail, i_count, next, broken>> /\ PIPE_SIZE' = PIPE_SIZE
  BY <1>1 DEF inode, PIPE_SIZE, history
<1>3. {} \in SUBSET Queue /\ "i_wait" \in Queue /\ job[p].at \notin Writing /\ job[p].at \notin Reading
      /\ wait[p] # "page"
  BY <1>1 DEF Queue, Awake, Writing, Reading
<1>4. CASE Return(p) /\ wait' = [wait EXCEPT ![p] = Awake]
  <2>1. WakesOthers(p, {}) /\ wait'[p] = Awake /\ wait' = [q \in Proc |-> wait'[q]]
    BY <1>4, WokenOthers
  <2>2. QED
    BY <1>1, <1>2, <1>3, <1>4, <2>1, ReturnStep
<1>5. CASE Return(p) /\ wait[p] = Awake /\ wait' = wait
  <2>1. WakesOthers(p, {}) /\ wait'[p] = Awake /\ wait' = [q \in Proc |-> wait'[q]]
    BY <1>5, WokenOthers
  <2>2. QED
    BY <1>1, <1>2, <1>3, <1>5, <2>1, ReturnStep
<1>6. CASE Ready(job[p].set) = {} /\ SelectWait(p) /\ UNCHANGED <<job, sig>>
  <2>1. wait' = [wait EXCEPT ![p] = "i_wait"] /\ current' = NoProc
    BY <1>6 DEF SelectWait, SleepOn
  <2>2. WakesOthers(p, {}) /\ wait'[p] = "i_wait" /\ wait' = [q \in Proc |-> wait'[q]]
    BY <2>1, WokenOthers
  <2>3. Placed(p)'
    BY <1>1, <1>6, <2>2 DEF Placed
  <2>4. Ready(job[p].set \ {"out"})' = {}
    BY <1>2, <1>6 DEF Ready
  <2>5. WillBeTold(p)'
    BY <1>1, <1>6, <2>4 DEF WillBeTold, Asleep
  <2>6. QED
    BY <1>1, <1>3, <1>6, <2>1, <2>2, <2>3, <2>5, SleepStep
<1>7. QED
  BY <1>4, <1>5, <1>6 DEF DoSelect, Timeout, Runs

LEMMA SignalStep ==
  ASSUME IInv, NEW p \in Proc, Signal(p)
  PROVE  IInv'
<1>1. /\ wait[p] \in Queue /\ current = NoProc /\ wait' = [wait EXCEPT ![p] = Awake]
      /\ sig' = sig \cup {p}
      /\ UNCHANGED <<filp, f_count, i_pipe, i_count, head, tail, page>>
      /\ UNCHANGED <<current, job, next, given, broken>>
  BY DEF Signal, files, inode, history
<1>2. WakesOthers(p, {}) /\ wait'[p] = Awake /\ {} \in SUBSET Queue
  BY <1>1, WokenOthers
<1>3. job' = [job EXCEPT ![p] = job[p]] /\ job' \in [Proc -> Job]
  BY <1>1, Types
<1>4. Others(p)
  BY <1>1, <1>2, <1>3, OthersWoken
<1>5. TypeOK'
  <2>1. wait' \in [Proc -> Queue \cup {Awake, "page"}] /\ sig' \subseteq Proc
    BY <1>1, Types DEF TypeOK
  <2>2. QED
    BY <1>1, <2>1, Types DEF TypeOK
<1>6. Placed(p)' /\ WillBeTold(p)'
  BY <1>1, <1>2, Types, AwakeIsTold DEF Placed, Awake, Queue
<1>7. ~Midway(p, Writing) /\ ~Midway(p, Reading)
  BY <1>1, PipeAssumption DEF Midway, Queue
<1>8. PIPE_SIZE' <= PIPE_SIZE /\ Room' <= Room
  <2>1. PIPE_SIZE' = PIPE_SIZE /\ Room' = Room
    BY <1>1 DEF PIPE_SIZE, Room
  <2>2. QED
    BY <2>1, Types
<1>9. current' # p
  BY <1>1, PipeAssumption
<1>10. QED
  BY <1>1, <1>3, <1>4, <1>5, <1>6, <1>7, <1>8, <1>9, FilesKept

LEMMA PageThereStep ==
  ASSUME IInv, NEW p \in Proc, PageThere(p)
  PROVE  IInv'
<1> DEFINE l == IF job[p].at = "read_fault" THEN "read" ELSE "write"
           j == [job[p] EXCEPT !.at = l]
<1>1. /\ wait[p] = "page" /\ current = NoProc /\ wait' = [wait EXCEPT ![p] = Awake] /\ current' = p
      /\ UNCHANGED <<filp, f_count, i_pipe, i_count, head, tail, page>>
      /\ UNCHANGED <<sig, next, given, broken>>
  BY DEF PageThere, files, inode, history
<1>2. job[p].at \in {"read_fault", "write_fault"} /\ job[p] \in Job
  BY <1>1, Types DEF Placed
<1>3. j \in Job /\ j.at = l
  BY <1>2 DEF Job
<1>4. job' = [job EXCEPT ![p] = j]
  BY Types DEF PageThere
<1> HIDE DEF j
<1>5. job' \in [Proc -> Job] /\ job'[p].at = l
  BY <1>3, <1>4, Types
<1>6. WakesOthers(p, {}) /\ wait'[p] = Awake /\ {} \in SUBSET Queue
  BY <1>1, WokenOthers
<1>7. Others(p)
  BY <1>1, <1>4, <1>6, OthersWoken
<1>8. TypeOK'
  <2>1. wait' \in [Proc -> Queue \cup {Awake, "page"}] /\ current' \in Proc \cup {NoProc}
    BY <1>1, Types
  <2>2. QED
    BY <1>1, <2>1, Types DEF TypeOK
<1>9. Placed(p)' /\ WillBeTold(p)'
  BY <1>1, <1>2, <1>5, <1>6, Types, AwakeIsTold DEF Placed, Awake, Queue
<1>10. \/ Midway(p, Reading)' /\ ~Midway(p, Writing)
       \/ Midway(p, Writing)' /\ ~Midway(p, Reading)
  BY <1>1, <1>2, <1>5 DEF Midway, Reading, Writing
<1>11. PIPE_SIZE' <= PIPE_SIZE /\ Room' <= Room
  <2>1. PIPE_SIZE' = PIPE_SIZE /\ Room' = Room
    BY <1>1 DEF PIPE_SIZE, Room
  <2>2. QED
    BY <2>1, Types
<1>12. job'[p].at # "out"
  BY <1>5
<1>13. QED
  BY <1>1, <1>5, <1>6, <1>7, <1>8, <1>9, <1>10, <1>11, <1>12, FilesKept

LEMMA TailMoves ==
  ASSUME TypeOK, head' = head, NEW n \in Nat, n <= PIPE_SIZE, tail + n <= PAGE_SIZE,
         tail' = Advance(tail, n)
  PROVE  tail' \in 0..PAGE_SIZE - 1 /\ PIPE_SIZE' = PIPE_SIZE - n /\ Room' = Room + n
<1>1. PICK t : t = tail'
  OBVIOUS
<1>2. t = IF tail + n = PAGE_SIZE THEN 0 ELSE tail + n
  BY <1>1, Size, Advanced
<1>3. t \in Nat /\ t < PAGE_SIZE
  BY <1>2, Size
<1>4. PICK x \in Nat : x = head + PAGE_SIZE - t
  BY <1>3, Size
<1>5. x % PAGE_SIZE = IF t <= head THEN head - t ELSE head + PAGE_SIZE - t
  <2>1. x < PAGE_SIZE + PAGE_SIZE /\ (t <= head <=> x >= PAGE_SIZE)
    BY <1>3, <1>4, Size
  <2>2. PAGE_SIZE \in Nat /\ PAGE_SIZE > 0
    BY Size
  <2>3. (x < PAGE_SIZE => x % PAGE_SIZE = x) /\ (x >= PAGE_SIZE => x % PAGE_SIZE = x - PAGE_SIZE)
    BY <2>1, <2>2, Mod
  <2>4. QED
    BY <1>3, <1>4, <2>1, <2>2, <2>3, Size
<1>6. x % PAGE_SIZE = PIPE_SIZE - n
  BY <1>2, <1>5, Size
<1>7. PIPE_SIZE' = x % PAGE_SIZE
  BY <1>1, <1>4 DEF PIPE_SIZE
<1>8. Room' = PAGE_SIZE - 1 - PIPE_SIZE' /\ Room = PAGE_SIZE - 1 - PIPE_SIZE
  BY DEF Room
<1>9. QED
  BY <1>1, <1>3, <1>6, <1>7, <1>8, Size

LEMMA HeadMoves ==
  ASSUME TypeOK, tail' = tail, NEW n \in Nat, n <= Room, head + n <= PAGE_SIZE,
         head' = Advance(head, n)
  PROVE  head' \in 0..PAGE_SIZE - 1 /\ PIPE_SIZE' = PIPE_SIZE + n /\ Room' = Room - n
<1>1. PICK h : h = head'
  OBVIOUS
<1>2. h = IF head + n = PAGE_SIZE THEN 0 ELSE head + n
  BY <1>1, Size, Advanced
<1>3. h \in Nat /\ h < PAGE_SIZE
  BY <1>2, Size
<1>4. PICK x \in Nat : x = h + PAGE_SIZE - tail
  BY <1>3, Size
<1>5. x % PAGE_SIZE = IF tail <= h THEN h - tail ELSE h + PAGE_SIZE - tail
  <2>1. x < PAGE_SIZE + PAGE_SIZE /\ (tail <= h <=> x >= PAGE_SIZE)
    BY <1>3, <1>4, Size
  <2>2. PAGE_SIZE \in Nat /\ PAGE_SIZE > 0
    BY Size
  <2>3. (x < PAGE_SIZE => x % PAGE_SIZE = x) /\ (x >= PAGE_SIZE => x % PAGE_SIZE = x - PAGE_SIZE)
    BY <2>1, <2>2, Mod
  <2>4. QED
    BY <1>3, <1>4, <2>1, <2>2, <2>3, Size
<1>6. x % PAGE_SIZE = PIPE_SIZE + n
  BY <1>2, <1>5, Size DEF Room
<1>7. PIPE_SIZE' = x % PAGE_SIZE
  BY <1>1, <1>4 DEF PIPE_SIZE
<1>8. Room' = PAGE_SIZE - 1 - PIPE_SIZE' /\ Room = PAGE_SIZE - 1 - PIPE_SIZE
  BY DEF Room
<1>9. QED
  BY <1>1, <1>3, <1>6, <1>7, <1>8, Size

LEMMA ZeroedIsPage == Zeroed \in [0..PAGE_SIZE - 1 -> 0..Labels - 1] /\ 0 \in 0..Labels - 1 /\ Labels \in Nat /\ Labels > 0
  BY PipeAssumption DEF Zeroed

LEMMA ReadChunkStep ==
  ASSUME IInv, NEW p \in Proc, ReadChunk(p)
  PROVE  IInv'
<1> DEFINE n == ReadChars(p)
           ok == [job[p] EXCEPT !.count = @ - n]
           fault == [job[p] EXCEPT !.count = @ - n, !.at = "read_fault"]
<1>1. /\ wait[p] = Awake /\ current \in {NoProc, p} /\ job[p].at = "read" /\ job[p].count > 0 /\ PIPE_SIZE > 0
      /\ tail' = Advance(tail, n) /\ UNCHANGED <<filp, f_count, i_pipe, i_count, head, sig>>
  BY DEF ReadChunk, Runs, files
<1>2. job[p] \in Job /\ n \in Nat /\ n <= job[p].count /\ n <= PIPE_SIZE /\ tail + n <= PAGE_SIZE
  BY <1>1, Types, ReadTakes
<1>3. tail' \in 0..PAGE_SIZE - 1 /\ PIPE_SIZE' = PIPE_SIZE - n
  BY <1>1, <1>2, Types, TailMoves
<1>4. ok \in Job /\ fault \in Job /\ ok.at = "read" /\ fault.at = "read_fault"
  <2>1. PICK c \in Nat : c = job[p].count - n
    BY <1>2 DEF Job
  <2> HIDE DEF n
  <2>2. ok = [job[p] EXCEPT !.count = c]
    BY <2>1
  <2>3. fault = [job[p] EXCEPT !.count = c, !.at = "read_fault"]
    BY <2>1
  <2> HIDE DEF ok, fault
  <2>4. QED
    BY <1>1, <1>2, <2>2, <2>3 DEF Job
<1>5. \/ /\ job' = [job EXCEPT ![p] = ok] /\ current' = p /\ UNCHANGED <<wait, page, next, broken>>
      \/ /\ job' = [job EXCEPT ![p] = fault] /\ wait' = [wait EXCEPT ![p] = "page"] /\ current' = NoProc
         /\ page' = Zeroed /\ next' = 0 /\ broken' = TRUE
  BY Types DEF ReadChunk, SleepOn
<1> HIDE DEF ok, fault, n
<1>6. job' \in [Proc -> Job]
  BY <1>4, <1>5, Types
<1>7. WakesOthers(p, {}) /\ {} \in SUBSET Queue
  BY <1>5, WokenOthers
<1>8. Others(p)
  BY <1>1, <1>5, <1>7, OthersWoken
<1>9. TypeOK'
  <2>1. wait' \in [Proc -> Queue \cup {Awake, "page"}] /\ current' \in Proc \cup {NoProc}
    BY <1>5, Types
  <2>2. page' \in [0..PAGE_SIZE - 1 -> 0..Labels - 1] /\ next' \in 0..Labels - 1 /\ broken' \in BOOLEAN
    BY <1>5, Types, ZeroedIsPage DEF TypeOK
  <2>3. QED
    BY <1>1, <1>3, <2>1, <2>2, Types DEF TypeOK
<1>10. \/ current' = p /\ wait'[p] = Awake /\ job'[p].at = "read"
       \/ current' = NoProc /\ wait'[p] = "page" /\ job'[p].at = "read_fault"
  BY <1>1, <1>4, <1>5, Types
<1>11. Placed(p)' /\ WillBeTold(p)'
  BY <1>10, AwakeIsTold DEF Placed, Awake, Queue
<1>12. Midway(p, Reading)' /\ ~Midway(p, Writing) /\ PIPE_SIZE' <= PIPE_SIZE
  BY <1>1, <1>2, <1>3, <1>10, Types DEF Midway, Reading, Writing
<1>13. current' \in {NoProc, p} /\ (current' = p => wait'[p] = Awake /\ job'[p].at # "out")
  BY <1>10, PipeAssumption
<1>14. QED
  BY <1>1, <1>6, <1>8, <1>9, <1>11, <1>12, <1>13, FilesKept

LEMMA WriteChunkStep ==
  ASSUME IInv, NEW p \in Proc, WriteChunk(p)
  PROVE  IInv'
<1> DEFINE n == WriteChars(p)
           ok == [job[p] EXCEPT !.count = @ - n]
           fault == [job[p] EXCEPT !.count = @ - n, !.at = "write_fault"]
<1>1. /\ wait[p] = Awake /\ current \in {NoProc, p} /\ job[p].at = "write" /\ job[p].count > 0 /\ Room > 0
      /\ head' = Advance(head, n) /\ UNCHANGED <<filp, f_count, i_pipe, i_count, tail, sig>>
  BY DEF WriteChunk, Runs, files
<1>2. job[p] \in Job /\ n \in Nat /\ n <= job[p].count /\ n <= Room /\ head + n <= PAGE_SIZE
  BY <1>1, Types, WritePuts
<1>3. head' \in 0..PAGE_SIZE - 1 /\ Room' = Room - n
  BY <1>1, <1>2, Types, HeadMoves
<1>4. ok \in Job /\ fault \in Job /\ ok.at = "write" /\ fault.at = "write_fault"
  <2>1. PICK c \in Nat : c = job[p].count - n
    BY <1>2 DEF Job
  <2> HIDE DEF n
  <2>2. ok = [job[p] EXCEPT !.count = c]
    BY <2>1
  <2>3. fault = [job[p] EXCEPT !.count = c, !.at = "write_fault"]
    BY <2>1
  <2> HIDE DEF ok, fault
  <2>4. QED
    BY <1>1, <1>2, <2>2, <2>3 DEF Job
<1>5. \/ /\ job' = [job EXCEPT ![p] = ok] /\ current' = p /\ UNCHANGED <<wait, broken>>
         /\ page' = Stored(n) /\ next' = IF broken THEN 0 ELSE (next + n) % Labels
      \/ /\ job' = [job EXCEPT ![p] = fault] /\ wait' = [wait EXCEPT ![p] = "page"] /\ current' = NoProc
         /\ page' = Zeroed /\ next' = 0 /\ broken' = TRUE
  BY Types DEF WriteChunk, SleepOn
<1> HIDE DEF ok, fault, n
<1>6. job' \in [Proc -> Job]
  BY <1>4, <1>5, Types
<1>7. WakesOthers(p, {}) /\ {} \in SUBSET Queue
  BY <1>5, WokenOthers
<1>8. Others(p)
  BY <1>1, <1>5, <1>7, OthersWoken
<1>9. Stored(n) \in [0..PAGE_SIZE - 1 -> 0..Labels - 1]
  <2>1. ASSUME NEW i \in head..head + n - 1 PROVE (next + i - head) % Labels \in 0..Labels - 1
    <3>1. PICK x \in Nat : x = next + i - head
      BY <1>2, Types, Size, ZeroedIsPage DEF TypeOK
    <3>2. QED
      BY <3>1, ZeroedIsPage, Mod
  <2>2. page \in [0..PAGE_SIZE - 1 -> 0..Labels - 1]
    BY Types DEF TypeOK
  <2>3. QED
    BY <2>1, <2>2 DEF Stored
<1>10. (next + n) % Labels \in 0..Labels - 1
  <2>1. PICK x \in Nat : x = next + n
    BY <1>2, Types, ZeroedIsPage DEF TypeOK
  <2>2. QED
    BY <2>1, ZeroedIsPage, Mod
<1>11. TypeOK'
  <2>1. wait' \in [Proc -> Queue \cup {Awake, "page"}] /\ current' \in Proc \cup {NoProc}
    BY <1>5, Types
  <2>2. page' \in [0..PAGE_SIZE - 1 -> 0..Labels - 1]
    BY <1>5, <1>9, ZeroedIsPage
  <2>3. next' \in 0..Labels - 1 /\ broken' \in BOOLEAN
    BY <1>5, <1>10, Types, ZeroedIsPage DEF TypeOK
  <2>4. QED
    BY <1>1, <1>3, <2>1, <2>2, <2>3, Types DEF TypeOK
<1>12. \/ current' = p /\ wait'[p] = Awake /\ job'[p].at = "write"
       \/ current' = NoProc /\ wait'[p] = "page" /\ job'[p].at = "write_fault"
  BY <1>1, <1>4, <1>5, Types
<1>13. Placed(p)' /\ WillBeTold(p)'
  <2>1. filp'[p][WR] > 0
    BY <1>1, Types DEF Placed
  <2>2. QED
    BY <1>12, <2>1, AwakeIsTold DEF Placed, Awake, Queue
<1>14. Midway(p, Writing)' /\ ~Midway(p, Reading) /\ Room' <= Room
  BY <1>1, <1>2, <1>3, <1>12, Types DEF Midway, Reading, Writing
<1>15. current' \in {NoProc, p} /\ (current' = p => wait'[p] = Awake /\ job'[p].at # "out")
  BY <1>12, PipeAssumption
<1>16. QED
  BY <1>1, <1>6, <1>8, <1>11, <1>13, <1>14, <1>15, FilesKept

(***************************************************************************)
(* The steps that change the file table.                                   *)
(***************************************************************************)
(* Outside of a call, p sleeps on nothing and is midway in nothing. *)
LEMMA Idle ==
  ASSUME IInv, NEW p \in Proc, Calls(p)
  PROVE  /\ wait[p] = Awake /\ current \in {NoProc, p} /\ current # p /\ job[p].at = "out"
         /\ ~Midway(p, Writing) /\ ~Midway(p, Reading)
<1>1. wait[p] = Awake /\ current \in {NoProc, p} /\ job[p].at = "out"
  BY OutIsJob DEF Calls, Runs
<1>2. current # p
  BY <1>1, PipeAssumption DEF IInv, Places
<1>3. QED
  BY <1>1, <1>2 DEF Midway, Writing, Reading

(* An end is open while a descriptor names it. *)
LEMMA NamedIsOpen ==
  ASSUME IInv, NEW p \in Proc, NEW f \in File, filp[p][f] > 0
  PROVE  f_count[f] > 0
<1>1. filp[p][f] \in Nat /\ filp[p][f] <= f_count[f] /\ f_count[f] \in Nat
  BY Counted DEF IInv
<1>2. QED
  BY <1>1

(* The descriptors of p become fp, while head, tail and the calls stay. *)
LEMMA TableStep ==
  ASSUME IInv, NEW p \in Proc, NEW r \in Proc, job[p].at = "out", Calls(r), NEW fp \in [File -> 0..NR_OPEN],
         Open(fp) <= NR_OPEN,
         filp' = [filp EXCEPT ![p] = fp],
         f_count' = [f \in File |-> f_count[f] + fp[f] - filp[p][f]],
         i_count' = Cardinality(Ends'), i_pipe' \in BOOLEAN, i_pipe' <=> i_count' > 0,
         UNCHANGED <<head, tail, page, current, job, sig, next, broken>>,
         NEW Q \in SUBSET Queue, wait' = Woken(Q), i_count' = i_count \/ Q = Queue
  PROVE  IInv'
<1>1. /\ filp' \in Tables /\ f_count' \in [File -> Nat]
      /\ \A f \in File : f_count'[f] = Cardinality(Descriptors(f)')
  BY Recounted DEF IInv
<1>2. i_count' \in 0..2
  <2>1. Ends' \in SUBSET File
    BY DEF Ends
  <2>2. QED
    BY <2>1, TwoEnds
<1>3. wait' \in [Proc -> Queue \cup {Awake, "page"}]
  BY Types DEF Woken
<1>4. TypeOK'
  BY <1>1, <1>2, <1>3, Types DEF TypeOK, Tables
<1>5. CountsExact'
  BY <1>1, <1>4 DEF CountsExact, Ends
<1>6. DescriptorsFit'
  <2>1. \A q \in Proc : filp'[q] = IF q = p THEN fp ELSE filp[q]
    BY Counted DEF IInv, Tables
  <2>2. QED
    BY <2>1 DEF IInv, DescriptorsFit
<1>7. wait[r] = Awake /\ current \in {NoProc, r} /\ current # r /\ job[r].at = "out"
      /\ ~Midway(r, Writing) /\ ~Midway(r, Reading)
  BY Idle
<1>8. \A q \in Proc : wait'[q] = IF wait[q] \in Q THEN Awake ELSE wait[q]
  BY DEF Woken
<1>11. \A q \in Proc : Placed(q)'
  <2> SUFFICES ASSUME NEW q \in Proc PROVE Placed(q)'
    OBVIOUS
  <2>1. Placed(q)
    BY Types
  <2>2. wait'[q] \in {wait[q], Awake} /\ (wait[q] = "page" => wait'[q] = "page") /\ job'[q] = job[q]
    BY <1>8 DEF Queue
  <2>3. job[q].at \in {"write", "write_fault"} => filp'[q] = filp[q]
    BY Counted DEF IInv, Tables
  <2>4. QED
    BY <2>1, <2>2, <2>3 DEF Placed, Awake
<1>12. Places'
  <2>1. current' = NoProc
    BY <1>7
  <2>2. QED
    BY <1>11, <2>1 DEF Places, Placed
<1>13. \A q \in Proc : WillBeTold(q)'
  <2>1. PIPE_SIZE' = PIPE_SIZE /\ Room' = Room
    BY DEF PIPE_SIZE, Room
  <2>2. SUFFICES ASSUME NEW q \in Proc PROVE WillBeTold(q)'
    OBVIOUS
  <2>3. CASE Q = Queue
    <3>1. wait'[q] \notin Queue
      BY <1>8, <2>3 DEF Queue, Awake
    <3>2. QED
      BY <3>1, AwakeIsTold
  <2>4. CASE i_count' = i_count
    <3>1. \A at : Asleep(q, at)' => Asleep(q, at)
      BY <1>8 DEF Asleep, Queue, Awake
    <3>2. WillBeTold(q)
      BY Types
    <3>3. \A u \in Proc : \A at : Midway(u, at) => Midway(u, at)'
      BY <1>8 DEF Midway, Queue
    <3>4. (WriteUnderWay => WriteUnderWay') /\ (ReadUnderWay => ReadUnderWay')
      BY <3>3 DEF WriteUnderWay, ReadUnderWay
    <3>5. Ready(job[q].set \ {"out"})' = Ready(job[q].set \ {"out"})
      BY <2>1, <2>4 DEF Ready
    <3>6. QED
      BY <2>1, <2>4, <3>1, <3>2, <3>4, <3>5 DEF WillBeTold
  <2>5. QED
    BY <2>3, <2>4
<1>14. QED
  BY <1>5, <1>6, <1>12, <1>13, Types DEF IInv

LEMMA WokenNone == ASSUME IInv PROVE Woken({}) = wait
  BY Types DEF Woken

(* Ends stay as they are when every descriptor that comes is for an open one. *)
LEMMA EndsAfter ==
  ASSUME IInv, NEW p \in Proc, NEW fp \in [File -> 0..NR_OPEN],
         filp' = [filp EXCEPT ![p] = fp],
         f_count' = [f \in File |-> f_count[f] + fp[f] - filp[p][f]],
         \A f \in File : fp[f] > filp[p][f] => f_count[f] > 0
  PROVE  Ends' = Ends \ {f \in File : f_count[f] > 0 /\ f_count'[f] = 0}
<1>1. ASSUME NEW f \in File PROVE f_count'[f] > 0 <=> f_count[f] > 0 /\ f_count'[f] # 0
  <2>1. /\ f_count'[f] \in Nat /\ f_count[f] \in Nat
        /\ filp[p][f] \in Nat /\ filp[p][f] <= f_count[f]
    BY Recounted, Counted DEF IInv
  <2>2. fp[f] \in Nat /\ f_count'[f] = f_count[f] + fp[f] - filp[p][f]
    BY PipeAssumption
  <2>3. QED
    BY <2>1, <2>2
<1>2. QED
  BY <1>1 DEF Ends

LEMMA ClosedStep ==
  ASSUME IInv, NEW p \in Proc, Calls(p), NEW fp \in [File -> 0..NR_OPEN], Open(fp) <= NR_OPEN,
         \A f \in File : fp[f] > filp[p][f] => f_count[f] > 0,
         Closed(p, fp), UNCHANGED <<current, job, sig, history>>
  PROVE  IInv'
<1> DEFINE C == {f \in File : f_count[f] > 0 /\ f_count'[f] = 0}
<1>1. /\ filp' = [filp EXCEPT ![p] = fp]
      /\ f_count' = [f \in File |-> f_count[f] + fp[f] - filp[p][f]]
      /\ Iput(C)
  BY DEF Closed
<1>2. /\ i_count' = i_count - Cardinality(C)
      /\ i_pipe' \in BOOLEAN /\ (i_pipe' <=> i_count' > 0)
      /\ UNCHANGED <<head, tail, page, current, job, sig, next, broken>>
      /\ wait' = IF C = {} THEN wait ELSE Woken(Queue)
  <2>1. i_pipe' = (i_count' > 0)
    BY <1>1 DEF Iput
  <2>2. i_pipe' <=> i_count' > 0
    BY <2>1
  <2>3. i_pipe' \in BOOLEAN
    BY <2>1
  <2>4. QED
    BY <1>1, <2>2, <2>3 DEF Iput, IputWakes, history
<1>3. i_count' = Cardinality(Ends')
  <2>1. Ends' = Ends \ C
    BY <1>1, EndsAfter
  <2>2. C = Ends \cap C /\ IsFiniteSet(Ends)
    <3>1. Ends \in SUBSET File
      BY DEF Ends
    <3>2. QED
      BY <3>1, TwoEnds DEF Ends
  <2>3. i_count = Cardinality(Ends)
    BY Counted DEF IInv
  <2> HIDE DEF C
  <2>4. Cardinality(Ends \ C) = Cardinality(Ends) - Cardinality(Ends \cap C)
    BY <2>2, FS_Difference
  <2>5. QED
    BY <1>2, <2>1, <2>2, <2>3, <2>4
<1>4. job[p].at = "out"
  BY Idle
<1>5. CASE C = {}
  <2>1. wait' = Woken({}) /\ {} \in SUBSET Queue
    BY <1>2, <1>5, WokenNone
  <2>2. i_count' = i_count
    <3>1. Cardinality(C) = 0
      BY <1>5, FS_EmptySet
    <3>2. i_count \in Nat
      BY Types DEF TypeOK
    <3> HIDE DEF C
    <3>3. QED
      BY <1>2, <3>1, <3>2
  <2>3. QED
    BY <1>1, <1>2, <1>3, <1>4, <2>1, <2>2, TableStep
<1>6. CASE C # {}
  <2>1. wait' = Woken(Queue) /\ Queue \in SUBSET Queue
    BY <1>2, <1>6
  <2>2. QED
    BY <1>1, <1>2, <1>3, <1>4, <2>1, TableStep
<1>7. QED
  BY <1>5, <1>6

(* How many descriptors a process may have of each end. *)
LEMMA Fits ==
  ASSUME IInv, NEW p \in Proc
  PROVE  /\ NR_OPEN \in Nat /\ filp[p] \in [File -> 0..NR_OPEN] /\ RD \in File /\ WR \in File /\ RD # WR
         /\ filp[p][RD] \in Nat /\ filp[p][WR] \in Nat /\ filp[p][RD] + filp[p][WR] <= NR_OPEN
<1>1. NR_OPEN \in Nat /\ filp[p] \in [File -> 0..NR_OPEN]
  BY PipeAssumption, Counted DEF IInv, Tables
<1>2. RD \in File /\ WR \in File /\ RD # WR
  BY DEF File, RD, WR
<1>3. filp[p][RD] + filp[p][WR] <= NR_OPEN
  BY DEF IInv, DescriptorsFit, Open
<1>4. QED
  BY <1>1, <1>2, <1>3

LEMMA CloseSteps ==
  ASSUME IInv, NEW p \in Proc,
         \/ Exit(p)
         \/ \E f \in File : SysClose(p, f) \/ \E g \in File : SysDup2(p, f, g)
  PROVE  IInv'
<1>1. CASE Exit(p)
  <2>1. Nothing \in [File -> 0..NR_OPEN] /\ Open(Nothing) <= NR_OPEN
    BY Fits DEF Nothing, Open
  <2>2. \A f \in File : ~(Nothing[f] > filp[p][f])
    BY Fits, Counted DEF Nothing, IInv
  <2>3. QED
    BY <1>1, <2>1, <2>2, ClosedStep DEF Exit
<1>2. ASSUME NEW f \in File, SysClose(p, f) PROVE IInv'
  <2> DEFINE fp == [filp[p] EXCEPT ![f] = @ - 1]
  <2>1. filp[p][f] > 0 /\ f \in {RD, WR}
    BY <1>2 DEF SysClose, File
  <2>2. fp \in [File -> 0..NR_OPEN]
    BY <2>1, Fits
  <2>3. Open(fp) <= NR_OPEN
    BY <2>1, Fits DEF Open
  <2>4. \A g \in File : ~(fp[g] > filp[p][g])
    BY <2>1, Fits, Counted DEF IInv
  <2>5. Calls(p) /\ Closed(p, fp) /\ UNCHANGED <<current, job, sig, history>>
    BY <1>2 DEF SysClose
  <2> HIDE DEF fp
  <2>6. QED
    BY <2>2, <2>3, <2>4, <2>5, ClosedStep
<1>3. ASSUME NEW f \in File, NEW g \in File, SysDup2(p, f, g) PROVE IInv'
  <2> DEFINE fp == [filp[p] EXCEPT ![g] = @ - 1, ![f] = @ + 1]
  <2>1. /\ filp[p][f] > 0 /\ filp[p][g] > 0 /\ f # g
        /\ (f = RD /\ g = WR) \/ (f = WR /\ g = RD)
    BY <1>3 DEF SysDup2, File
  <2>2. fp \in [File -> 0..NR_OPEN]
    BY <2>1, Fits
  <2>3. Open(fp) <= NR_OPEN
    BY <2>1, Fits DEF Open
  <2>4. \A h \in File : fp[h] > filp[p][h] => f_count[h] > 0
    <3>1. \A h \in File : h # f => h = g
      BY <2>1 DEF File
    <3>2. ~(fp[g] > filp[p][g])
      BY <2>1, Fits
    <3>3. f_count[f] > 0
      BY <2>1, NamedIsOpen
    <3>4. QED
      BY <3>1, <3>2, <3>3
  <2>5. Calls(p) /\ Closed(p, fp) /\ UNCHANGED <<current, job, sig, history>>
    BY <1>3 DEF SysDup2
  <2> HIDE DEF fp
  <2>6. QED
    BY <2>2, <2>3, <2>4, <2>5, ClosedStep
<1>4. QED
  BY <1>1, <1>2, <1>3

(* dup and fork add descriptors for open ends. *)
LEMMA MoreStep ==
  ASSUME IInv, NEW p \in Proc, NEW c \in Proc, Calls(p), job[c].at = "out",
         NEW fp \in [File -> 0..NR_OPEN], Open(fp) <= NR_OPEN,
         filp' = [filp EXCEPT ![c] = fp],
         f_count' = [f \in File |-> f_count[f] + fp[f] - filp[c][f]],
         \A f \in File : fp[f] >= filp[c][f] /\ (fp[f] > filp[c][f] => f_count[f] > 0),
         UNCHANGED <<inode, current, wait, job, sig, history>>
  PROVE  IInv'
<1>1. Ends' = Ends
  <2>1. Ends' = Ends \ {f \in File : f_count[f] > 0 /\ f_count'[f] = 0}
    BY EndsAfter
  <2>2. ASSUME NEW f \in File, f_count[f] > 0 PROVE f_count'[f] # 0
    <3>1. f_count'[f] = f_count[f] + fp[f] - filp[c][f] /\ fp[f] >= filp[c][f] /\ fp[f] \in Nat
      BY PipeAssumption
    <3>2. f_count[f] \in Nat /\ filp[c][f] \in Nat
      BY Counted DEF IInv
    <3>3. QED
      BY <2>2, <3>1, <3>2
  <2>3. QED
    BY <2>1, <2>2
<1>2. /\ UNCHANGED <<head, tail, page, current, job, sig, next, broken>> /\ i_count' = i_count /\ i_pipe' = i_pipe
      /\ wait' = wait
  BY DEF inode, history
<1>3. i_count' = Cardinality(Ends') /\ i_pipe' \in BOOLEAN /\ (i_pipe' <=> i_count' > 0)
  BY <1>1, <1>2, Counted, Types DEF IInv, CountsExact, TypeOK
<1>4. wait' = Woken({}) /\ {} \in SUBSET Queue
  BY <1>2, WokenNone
<1>5. QED
  BY <1>2, <1>3, <1>4, TableStep

LEMMA DupStep ==
  ASSUME IInv, NEW p \in Proc, NEW f \in File, SysDup(p, f)
  PROVE  IInv'
<1> DEFINE fp == [filp[p] EXCEPT ![f] = @ + 1]
<1>1. /\ Calls(p) /\ filp[p][f] > 0 /\ filp[p][RD] + filp[p][WR] < NR_OPEN /\ f \in {RD, WR}
      /\ filp' = [filp EXCEPT ![p] = fp] /\ f_count' = [f_count EXCEPT ![f] = @ + 1]
      /\ UNCHANGED <<inode, current, wait, job, sig, history>>
  BY DEF SysDup, Open, File
<1>2. fp \in [File -> 0..NR_OPEN]
  BY <1>1, Fits
<1>3. Open(fp) <= NR_OPEN
  BY <1>1, Fits DEF Open
<1>4. \A g \in File : /\ filp[p][g] \in Nat /\ f_count[g] \in Nat
                      /\ fp[g] = IF g = f THEN filp[p][g] + 1 ELSE filp[p][g]
  BY Fits, Counted DEF IInv
<1>5. f_count' = [g \in File |-> f_count[g] + fp[g] - filp[p][g]]
  <2>1. ASSUME NEW g \in File PROVE f_count'[g] = f_count[g] + fp[g] - filp[p][g]
    <3>1. f_count'[g] = IF g = f THEN f_count[g] + 1 ELSE f_count[g]
      BY <1>1, Counted DEF IInv
    <3> HIDE DEF fp
    <3>2. QED
      BY <1>4, <3>1
  <2>2. f_count' = [g \in File |-> f_count'[g]]
    BY <1>1, Counted DEF IInv
  <2> HIDE DEF fp
  <2>3. QED
    BY <2>1, <2>2
<1>6. f_count[f] > 0
  BY <1>1, NamedIsOpen
<1>7. job[p].at = "out"
  BY <1>1, Idle
<1> HIDE DEF fp
<1>8. \A g \in File : fp[g] >= filp[p][g] /\ (fp[g] > filp[p][g] => f_count[g] > 0)
  BY <1>4, <1>6
<1>9. QED
  BY <1>1, <1>2, <1>3, <1>5, <1>7, <1>8, MoreStep

LEMMA ForkStep ==
  ASSUME IInv, NEW p \in Proc, NEW c \in Proc, Fork(p, c)
  PROVE  IInv'
<1>1. /\ Calls(p) /\ job[c].at = "out" /\ filp[c] = Nothing /\ filp' = [filp EXCEPT ![c] = filp[p]]
      /\ f_count' = [f \in File |-> f_count[f] + filp[p][f]]
      /\ UNCHANGED <<inode, current, wait, job, sig, history>>
  BY OutIsJob DEF Fork, ForkCounts
<1>2. filp[p] \in [File -> 0..NR_OPEN] /\ Open(filp[p]) <= NR_OPEN
  BY Fits DEF Open
<1>3. \A f \in File : filp[c][f] = 0 /\ filp[p][f] \in Nat /\ f_count[f] \in Nat
  BY <1>1, Counted DEF IInv, Nothing
<1>4. f_count' = [f \in File |-> f_count[f] + filp[p][f] - filp[c][f]]
  BY <1>1, <1>3
<1>5. \A f \in File : filp[p][f] >= filp[c][f] /\ (filp[p][f] > filp[c][f] => f_count[f] > 0)
  BY <1>3, NamedIsOpen
<1>6. QED
  BY <1>1, <1>2, <1>4, <1>5, MoreStep

LEMMA PipeStep ==
  ASSUME IInv, NEW p \in Proc, SysPipe(p)
  PROVE  IInv'
<1> DEFINE fp == [f \in File |-> 1]
<1>1. /\ Calls(p) /\ \A f \in File : f_count[f] = 0
      /\ filp[p][RD] + filp[p][WR] + 2 <= NR_OPEN
      /\ filp' = [filp EXCEPT ![p] = fp] /\ f_count' = [f \in File |-> 1]
      /\ i_pipe' = TRUE /\ i_count' = 2 /\ head' = 0 /\ tail' = 0 /\ page' = Zeroed
      /\ next' = 0 /\ broken' = FALSE /\ UNCHANGED <<current, wait, job, sig>>
  BY DEF SysPipe, Open, GetPipeInode
<1>2. \A q \in Proc, f \in File : filp[q][f] = 0
  BY <1>1, Counted DEF IInv
<1>3. 2 <= NR_OPEN
  BY <1>1, <1>2, Fits
<1>4. fp \in [File -> 0..NR_OPEN] /\ Open(fp) <= NR_OPEN
  BY <1>3, Fits DEF Open
<1>5. f_count' = [f \in File |-> f_count[f] + fp[f] - filp[p][f]]
  BY <1>1, <1>2
<1>6. /\ filp' \in Tables /\ f_count' \in [File -> Nat]
      /\ \A f \in File : f_count'[f] = Cardinality(Descriptors(f)')
  <2> HIDE DEF fp
  <2> QED BY <1>1, <1>4, <1>5, Recounted DEF IInv
<1>7. Ends' = File /\ i_count' = Cardinality(Ends')
  <2>1. Ends' = File
    BY <1>1 DEF Ends
  <2>2. QED
    BY <1>1, <2>1, TwoEnds
<1>8. TypeOK'
  <2>1. 0 \in 0..PAGE_SIZE - 1 /\ 2 \in 0..2
    BY PipeAssumption
  <2>2. page' \in [0..PAGE_SIZE - 1 -> 0..Labels - 1] /\ next' \in 0..Labels - 1
    BY <1>1, ZeroedIsPage
  <2>3. QED
    BY <1>1, <1>6, <2>1, <2>2, Types DEF TypeOK, Tables
<1>9. CountsExact'
  <2>1. i_pipe' <=> i_count' > 0
    BY <1>1
  <2>2. QED
    BY <1>6, <1>7, <1>8, <2>1 DEF CountsExact, Ends
<1>10. DescriptorsFit'
  <2>1. \A q \in Proc : filp'[q] = IF q = p THEN fp ELSE filp[q]
    BY <1>1, Counted DEF IInv, Tables
  <2> HIDE DEF fp
  <2>2. QED
    BY <1>4, <2>1 DEF IInv, DescriptorsFit
<1>11. /\ wait[p] = Awake /\ current = NoProc /\ job[p].at = "out"
       /\ ~Midway(p, Writing) /\ ~Midway(p, Reading)
  BY <1>1, Idle
<1>12. Others(p)
  <2>1. \A q \in Proc : q # p => filp'[q] = filp[q] /\ filp[q][WR] \in Nat
    BY <1>1, Fits, Counted DEF IInv, Tables
  <2>2. QED
    BY <1>1, <2>1 DEF Others
<1>13. Placed(p)' /\ WillBeTold(p)'
  BY <1>1, <1>11, AwakeIsTold DEF Placed, Awake, Queue
<1>14. current' # p /\ current' = NoProc
  BY <1>1, <1>11, PipeAssumption
<1>15. Places'
  BY <1>6, <1>12, <1>13, <1>14, PlacesKept
<1>16. PIPE_SIZE' = 0
  <2>1. PAGE_SIZE \in Nat /\ PAGE_SIZE > 0 /\ 0 + PAGE_SIZE - 0 = PAGE_SIZE
    BY PipeAssumption
  <2>2. PAGE_SIZE % PAGE_SIZE = PAGE_SIZE - PAGE_SIZE
    BY <2>1, Mod
  <2>3. PIPE_SIZE' = (0 + PAGE_SIZE - 0) % PAGE_SIZE
    BY <1>1 DEF PIPE_SIZE
  <2>4. QED
    BY <2>1, <2>2, <2>3
<1>17. \A q \in Proc : wait'[q] # "i_wait2"
  <2>1. \A q \in Proc : ~(filp[q][WR] > 0)
    BY <1>2, Fits
  <2>2. \A q \in Proc : wait[q] # "i_wait2"
    BY <2>1, Types DEF Placed
  <2>3. QED
    BY <1>1, <2>2
<1>18. \A q \in Proc : WillBeTold(q)'
  BY <1>1, <1>8, <1>11, <1>12, <1>13, <1>16, <1>17, ToldKept
<1>19. QED
  BY <1>1, <1>9, <1>10, <1>15, <1>18, Types DEF IInv

LEMMA CallSteps ==
  ASSUME IInv, NEW p \in Proc,
         \/ \E n \in Counts : SysWrite(p, n) \/ \E nb \in BOOLEAN : SysRead(p, n, nb)
         \/ \E S \in SelectSets : SysSelect(p, S)
  PROVE  IInv'
<1>1. ASSUME NEW n \in Counts, SysWrite(p, n) PROVE IInv'
  <2> DEFINE j == [Out EXCEPT !.at = "write", !.count = n]
  <2>1. n \in Nat
    BY PipeAssumption
  <2>2. j \in Job /\ j.at = "write"
    BY <2>1 DEF Out, Job
  <2>3. /\ Calls(p) /\ filp[p][WR] > 0 /\ job' = [job EXCEPT ![p] = j] /\ current' = p
        /\ UNCHANGED <<files, inode, wait, sig, history>>
    BY <1>1 DEF SysWrite
  <2> HIDE DEF j
  <2>4. QED
    BY <2>2, <2>3, CallStep
<1>2. ASSUME NEW n \in Counts, NEW nb \in BOOLEAN, SysRead(p, n, nb) PROVE IInv'
  <2> DEFINE l == IF nb THEN "read" ELSE "empty"
             j == [Out EXCEPT !.at = l, !.count = n]
  <2>1. n \in Nat /\ l \in {"read", "empty"}
    BY PipeAssumption
  <2>2. job' = [job EXCEPT ![p] = j]
    BY <1>2 DEF SysRead
  <2> HIDE DEF l
  <2>3. j \in Job /\ j.at = l
    BY <2>1 DEF Out, Job
  <2>4. Calls(p) /\ current' = p /\ UNCHANGED <<files, inode, wait, sig, history>>
    BY <1>2 DEF SysRead
  <2> HIDE DEF j
  <2>5. QED
    BY <2>1, <2>2, <2>3, <2>4, CallStep
<1>3. ASSUME NEW S \in SelectSets, SysSelect(p, S) PROVE IInv'
  <2> DEFINE j == [Out EXCEPT !.at = "select", !.set = S]
  <2>1. S \in SUBSET {"in", "out", "ex"}
    BY PipeAssumption
  <2>2. j \in Job /\ j.at = "select"
    BY <2>1 DEF Out, Job
  <2>3. /\ Calls(p) /\ job' = [job EXCEPT ![p] = j] /\ current' = p
        /\ UNCHANGED <<files, inode, wait, sig, history>>
    BY <1>3 DEF SysSelect
  <2> HIDE DEF j
  <2>4. QED
    BY <2>2, <2>3, CallStep
<1>4. QED
  BY <1>1, <1>2, <1>3

LEMMA InitHolds == Init => IInv
<1> SUFFICES ASSUME Init PROVE IInv
  OBVIOUS
<1>1. /\ filp = [p \in Proc |-> Nothing] /\ f_count = [f \in File |-> 0]
      /\ i_pipe = FALSE /\ i_count = 0 /\ head = 0 /\ tail = 0 /\ page = Zeroed /\ current = NoProc
      /\ wait = [p \in Proc |-> Awake] /\ job = [p \in Proc |-> Out] /\ sig = {} /\ next = 0 /\ broken = FALSE
  BY DEF Init
<1>2. NR_OPEN \in Nat /\ PAGE_SIZE \in Nat /\ PAGE_SIZE > 0
  BY PipeAssumption
<1>3. filp \in [Proc -> [File -> 0..NR_OPEN]] /\ \A p \in Proc, f \in File : filp[p][f] = 0
  BY <1>1, <1>2 DEF Nothing
<1>4. TypeOK
  <2>1. 0 \in 0..PAGE_SIZE - 1 /\ 0 \in 0..2 /\ f_count \in [File -> Nat]
    BY <1>1, <1>2
  <2>2. wait \in [Proc -> Queue \cup {Awake, "page"}] /\ current \in Proc \cup {NoProc}
    BY <1>1
  <2>3. QED
    BY <1>1, <1>3, <2>1, <2>2, ZeroedIsPage DEF TypeOK
<1>5. CountsExact
  <2>1. \A f \in File : Descriptors(f) = {}
    BY <1>3 DEF Descriptors
  <2>2. {f \in File : f_count[f] > 0} = {}
    BY <1>1
  <2>3. \A f \in File : f_count[f] = Cardinality(Descriptors(f))
    BY <1>1, <2>1, FS_EmptySet
  <2>4. i_count = Cardinality({f \in File : f_count[f] > 0})
    BY <1>1, <2>2, FS_EmptySet
  <2>5. i_pipe <=> i_count > 0
    BY <1>1
  <2>6. QED
    BY <1>4, <2>3, <2>4, <2>5 DEF CountsExact
<1>6. job \in [Proc -> Job] /\ \A p \in Proc : wait[p] = Awake /\ job[p].at = "out"
  BY <1>1, OutIsJob
<1>7. DescriptorsFit
  BY <1>2, <1>3 DEF DescriptorsFit, Open, File
<1>8. Places
  BY <1>1, <1>6 DEF Places, Awake
<1>9. \A p \in Proc : WillBeTold(p)
  BY <1>6 DEF WillBeTold, Asleep, Awake, Queue
<1>10. QED
  BY <1>5, <1>6, <1>7, <1>8, <1>9 DEF IInv

LEMMA NextHolds == IInv /\ [Next]_vars => IInv'
<1> SUFFICES ASSUME IInv, [Next]_vars PROVE IInv'
  OBVIOUS
<1>1. CASE UNCHANGED vars
  <2>1. /\ UNCHANGED <<filp, f_count, i_pipe, i_count, head, tail, page>>
        /\ UNCHANGED <<current, wait, job, sig, next, given, broken>>
    BY <1>1 DEF vars, files, inode, history
  <2>2. CountsExact'
    BY <2>1 DEF IInv, CountsExact, TypeOK, Descriptors
  <2>3. DescriptorsFit' /\ Places'
    BY <2>1 DEF IInv, DescriptorsFit, Open, Places
  <2>4. \A p \in Proc : WillBeTold(p)'
    BY <2>1 DEF IInv, WillBeTold, Asleep, WriteUnderWay, ReadUnderWay, Midway, Ready, PIPE_SIZE, Room
  <2>5. QED
    BY <2>1, <2>2, <2>3, <2>4 DEF IInv
<1>2. ASSUME NEW p \in Proc, SysPipe(p) PROVE IInv'
  BY <1>2, PipeStep
<1>3. ASSUME NEW p \in Proc, Signal(p) \/ Timeout(p) \/ DoSelect(p) PROVE IInv'
  BY <1>3, SignalStep, SelectSteps
<1>4. ASSUME NEW p \in Proc,
             Exit(p) \/ \E f \in File : SysClose(p, f) \/ \E g \in File : SysDup2(p, f, g)
      PROVE  IInv'
  BY <1>4, CloseSteps
<1>5. ASSUME NEW p \in Proc, NEW f \in File, SysDup(p, f) PROVE IInv'
  BY <1>5, DupStep
<1>6. ASSUME NEW p \in Proc, NEW c \in Proc, Fork(p, c) PROVE IInv'
  BY <1>6, ForkStep
<1>7. ASSUME NEW p \in Proc,
             \/ \E n \in Counts : SysWrite(p, n) \/ \E nb \in BOOLEAN : SysRead(p, n, nb)
             \/ \E S \in SelectSets : SysSelect(p, S)
      PROVE  IInv'
  BY <1>7, CallSteps
<1>8. ASSUME NEW p \in Proc, ReadWait(p) \/ ReadChunk(p) \/ ReadDone(p) \/ PageThere(p) PROVE IInv'
  BY <1>8, ReadWaitStep, ReadChunkStep, ReadDoneStep, PageThereStep
<1>9. ASSUME NEW p \in Proc, WriteWait(p) \/ WriteChunk(p) \/ WriteDone(p) PROVE IInv'
  BY <1>9, WriteWaitStep, WriteChunkStep, WriteDoneStep
<1>10. QED
  BY <1>1, <1>2, <1>3, <1>4, <1>5, <1>6, <1>7, <1>8, <1>9 DEF Next

LEMMA Inductive == Spec => []IInv
<1>1. QED
  BY InitHolds, NextHolds, PTL DEF Spec

(* f_count and i_count are exact whatever open, dup, dup2, close, fork and exit
   do, in any number of processes: so "i_count != 2" in pipe_read and
   pipe_write means that one end has been closed. *)
THEOREM CountsStayExact == Spec => []CountsExact
<1>1. IInv => CountsExact
  BY DEF IInv
<1>2. QED
  BY <1>1, Inductive, PTL

(* When nobody is in the middle of a read or a write, no reader sleeps on a pipe
   that has bytes or no writer, no writer on one that has room or no reader, and
   no select for input on a pipe that is ready. *)
THEOREM NobodyIsLeftAsleep == Spec => []SleepersAreTold
<1>1. IInv => SleepersAreTold
  <2> SUFFICES ASSUME IInv, Settled, NEW p \in Proc
               PROVE  /\ Asleep(p, "empty") => PIPE_SIZE = 0 /\ i_count = 2
                      /\ Asleep(p, "write") => Room = 0 /\ i_count = 2
                      /\ Asleep(p, "select") => Ready(job[p].set \ {"out"}) = {}
    BY DEF SleepersAreTold
  <2>1. ~WriteUnderWay /\ ~ReadUnderWay
    BY PipeAssumption DEF Settled, WriteUnderWay, ReadUnderWay, Midway
  <2>2. WillBeTold(p)
    BY Types
  <2>3. QED
    BY <2>1, <2>2 DEF WillBeTold
<1>2. QED
  BY <1>1, Inductive, PTL

(***************************************************************************)
(* The pipe implements ByteStream.                                         *)
(***************************************************************************)
Contents == [i \in 1..PIPE_SIZE |-> page[(tail + i - 1) % PAGE_SIZE]]
Byte == 0..Labels - 1

(* Where the i-th byte is. *)
LEMMA ByteAt ==
  ASSUME TypeOK, NEW i \in Nat, 0 < i, i < PAGE_SIZE
  PROVE  /\ (tail + i - 1) % PAGE_SIZE = IF tail + i - 1 < PAGE_SIZE THEN tail + i - 1 ELSE tail + i - 1 - PAGE_SIZE
         /\ (tail + i - 1) % PAGE_SIZE \in 0..PAGE_SIZE - 1
<1>1. PAGE_SIZE \in Nat /\ PAGE_SIZE > 0 /\ tail \in Nat /\ tail < PAGE_SIZE
  BY Size
<1>2. PICK x \in Nat : x = tail + i - 1
  BY <1>1
<1>3. x < PAGE_SIZE + PAGE_SIZE
  BY <1>1, <1>2
<1>4. x % PAGE_SIZE = IF x < PAGE_SIZE THEN x ELSE x - PAGE_SIZE
  BY <1>1, <1>3, Mod
<1>5. x % PAGE_SIZE \in 0..PAGE_SIZE - 1
  BY <1>1, Mod
<1>6. (tail + i - 1) % PAGE_SIZE = x % PAGE_SIZE
  BY <1>2
<1>7. QED
  BY <1>1, <1>2, <1>4, <1>5, <1>6

ContentsOK ==
  /\ Contents \in Seq(Byte) /\ Len(Contents) = PIPE_SIZE /\ PIPE_SIZE \in Nat
  /\ \A i \in 1..PIPE_SIZE : Contents[i] = page[(tail + i - 1) % PAGE_SIZE]

LEMMA ContentsType == TypeOK => ContentsOK
<1> SUFFICES ASSUME TypeOK PROVE ContentsOK
  OBVIOUS
<1>1. PIPE_SIZE \in Nat /\ PIPE_SIZE < PAGE_SIZE /\ PAGE_SIZE \in Nat
  BY Size
<1>2. ASSUME NEW i \in 1..PIPE_SIZE PROVE page[(tail + i - 1) % PAGE_SIZE] \in Byte
  <2>1. i \in Nat /\ 0 < i /\ i < PAGE_SIZE
    BY <1>1
  <2>2. (tail + i - 1) % PAGE_SIZE \in 0..PAGE_SIZE - 1
    BY <2>1, ByteAt
  <2>3. QED
    BY <2>2 DEF TypeOK, Byte
<1>3. Contents \in [1..PIPE_SIZE -> Byte]
  BY <1>2 DEF Contents
<1>4. Contents \in Seq(Byte) /\ Len(Contents) = PIPE_SIZE
  BY <1>1, <1>3
<1>5. QED
  BY <1>1, <1>4 DEF Contents, ContentsOK

LEMMA NextContents == TypeOK' => ContentsOK'
<1>1. QED
  BY ContentsType, PTL

LEMMA Stutters ==
  ASSUME UNCHANGED <<head, tail, page, next, given, broken>>
  PROVE  UNCHANGED Stream!vars
  BY DEF Stream!vars, PIPE_SIZE

(* The bytes that pipe_write puts at the head are behind those under way. *)
LEMMA WriteIsPut ==
  ASSUME IInv, TypeOK', NEW p \in Proc, WriteChunk(p), ~broken'
  PROVE  Stream!Put
<1>1. PICK n \in Nat : n = WriteChars(p)
  BY WritePuts, Types DEF WriteChunk
<1>2. /\ n > 0 /\ n <= Room /\ head + n <= PAGE_SIZE /\ head' = Advance(head, n) /\ tail' = tail
      /\ page' = Stored(n) /\ next' = (next + n) % Labels /\ given' = given /\ broken' = broken /\ ~broken
  BY <1>1, WritePuts, Types DEF WriteChunk
<1>3. PIPE_SIZE' = PIPE_SIZE + n
  BY <1>2, Types, HeadMoves
<1>4. /\ PAGE_SIZE \in Nat /\ PAGE_SIZE > 1 /\ head \in Nat /\ tail \in Nat /\ head < PAGE_SIZE /\ tail < PAGE_SIZE
      /\ PIPE_SIZE \in Nat /\ PIPE_SIZE < PAGE_SIZE /\ Room = PAGE_SIZE - 1 - PIPE_SIZE
      /\ PIPE_SIZE = IF tail <= head THEN head - tail ELSE head + PAGE_SIZE - tail
      /\ next \in Nat
  BY Types, Size, ZeroedIsPage DEF Room, TypeOK
<1> DEFINE new == [i \in 1..n |-> (next + i - 1) % Labels]
<1>5. new \in Seq(Byte) /\ Len(new) = n /\ \A i \in 1..n : new[i] = (next + i - 1) % Labels
  <2>1. ASSUME NEW i \in 1..n PROVE (next + i - 1) % Labels \in Byte
    <3>1. PICK x \in Nat : x = next + i - 1
      BY <1>4
    <3>2. QED
      BY <3>1, ZeroedIsPage, Mod DEF Byte
  <2>2. new \in [1..n -> Byte]
    BY <2>1
  <2>3. QED
    BY <2>2
<1> HIDE DEF new
<1>6. ContentsOK /\ ContentsOK'
  BY Types, ContentsType, NextContents
<1>7. /\ Contents \o new \in Seq(Byte) /\ Len(Contents \o new) = Len(Contents) + Len(new)
      /\ \A i \in 1..Len(Contents) + Len(new) :
           (Contents \o new)[i] = IF i <= Len(Contents) THEN Contents[i] ELSE new[i - Len(Contents)]
  BY <1>5, <1>6, ConcatProperties DEF ContentsOK
<1>8. ASSUME NEW i \in Nat, 0 < i, i <= PIPE_SIZE + n PROVE Contents'[i] = (Contents \o new)[i]
  <2>1. PICK k : k = (tail + i - 1) % PAGE_SIZE
    OBVIOUS
  <2>2. i < PAGE_SIZE
    BY <1>2, <1>4, <1>8
  <2>3. k = (IF tail + i - 1 < PAGE_SIZE THEN tail + i - 1 ELSE tail + i - 1 - PAGE_SIZE) /\ k \in 0..PAGE_SIZE - 1
    BY <1>8, <2>1, <2>2, Types, ByteAt
  <2>4. Contents'[i] = page'[k]
    <3>1. i \in 1..PIPE_SIZE'
      BY <1>3, <1>4, <1>8
    <3>2. QED
      BY <1>2, <1>6, <2>1, <3>1 DEF ContentsOK
  <2>5. page'[k] = IF k \in head..head + n - 1 THEN (next + k - head) % Labels ELSE page[k]
    BY <1>2, <2>3 DEF Stored
  <2>6. i \in 1..Len(Contents) + Len(new) /\ Len(Contents) = PIPE_SIZE
    BY <1>4, <1>5, <1>6, <1>8 DEF ContentsOK
  <2>7. CASE i <= PIPE_SIZE
    <3>1. k \notin head..head + n - 1
      BY <1>2, <1>4, <1>8, <2>3, <2>7
    <3>2. Contents[i] = page[k]
      BY <1>6, <1>8, <2>1, <2>7 DEF ContentsOK
    <3>3. QED
      BY <1>7, <2>4, <2>5, <2>6, <2>7, <3>1, <3>2
  <2>8. CASE ~(i <= PIPE_SIZE)
    <3>1. k \in head..head + n - 1 /\ next + k - head = next + (i - PIPE_SIZE) - 1
      BY <1>2, <1>4, <1>8, <2>3, <2>8
    <3>2. PICK m \in Nat : m = i - PIPE_SIZE /\ m \in 1..n
      <4>1. i - PIPE_SIZE \in Nat /\ 1 <= i - PIPE_SIZE /\ i - PIPE_SIZE <= n
        BY <1>4, <1>8, <2>8
      <4>2. QED
        BY <4>1
    <3>3. new[m] = (next + m - 1) % Labels
      BY <1>5, <3>2
    <3>4. (Contents \o new)[i] = new[m]
      BY <1>7, <2>6, <2>8, <3>2
    <3>5. QED
      BY <2>4, <2>5, <3>1, <3>2, <3>3, <3>4
  <2>9. QED
    BY <2>7, <2>8
<1>9. Contents' = Contents \o new
  <2>1. Contents' \in Seq(Byte) /\ Len(Contents') = PIPE_SIZE + n /\ Len(Contents \o new) = PIPE_SIZE + n
    BY <1>3, <1>4, <1>5, <1>6, <1>7 DEF ContentsOK
  <2>2. \A i \in 1..Len(Contents') : Contents'[i] = (Contents \o new)[i]
    BY <1>4, <1>8, <2>1
  <2>3. PICK s \in Seq(Byte) : s = Contents'
    BY <2>1
  <2>4. PICK u \in Seq(Byte) : u = Contents \o new
    BY <1>7
  <2>5. s = u
    BY <2>1, <2>2, <2>3, <2>4, SeqEqual
  <2>6. QED
    BY <2>3, <2>4, <2>5
<1>10. n \in 1..((PAGE_SIZE - 1) - Len(Contents))
  BY <1>2, <1>4, <1>6 DEF ContentsOK
<1>11. QED
  BY <1>2, <1>9, <1>10 DEF Stream!Put, Stream!Numbered, Contents, new

(* The bytes that pipe_read copies are the oldest. *)
LEMMA ReadIsTake ==
  ASSUME IInv, TypeOK', NEW p \in Proc, ReadChunk(p), ~broken'
  PROVE  Stream!Take
<1>1. PICK n \in Nat : n = ReadChars(p)
  BY ReadTakes, Types DEF ReadChunk
<1>2. /\ n > 0 /\ n <= PIPE_SIZE /\ tail + n <= PAGE_SIZE /\ tail' = Advance(tail, n) /\ head' = head
      /\ page' = page /\ next' = next /\ given' = Bytes(tail, n) /\ broken' = broken
  BY <1>1, ReadTakes, Types DEF ReadChunk
<1>3. PIPE_SIZE' = PIPE_SIZE - n
  BY <1>2, Types, TailMoves
<1>4. /\ PAGE_SIZE \in Nat /\ PAGE_SIZE > 1 /\ tail \in Nat /\ tail < PAGE_SIZE
      /\ PIPE_SIZE \in Nat /\ PIPE_SIZE < PAGE_SIZE
  BY Types, Size
<1>5. tail' \in Nat /\ tail' = IF tail + n = PAGE_SIZE THEN 0 ELSE tail + n
  BY <1>2, <1>4, Advanced
<1>6. ContentsOK /\ ContentsOK'
  BY Types, ContentsType, NextContents
<1>7. PICK c \in Seq(Byte) : c = Contents /\ Len(c) = PIPE_SIZE
  BY <1>6 DEF ContentsOK
<1>8. \A i \in 1..PIPE_SIZE : c[i] \in Byte /\ c[i] = page[(tail + i - 1) % PAGE_SIZE]
  <2>1. \A i \in 1..Len(c) : c[i] \in Byte
    BY ElementOfSeq
  <2>2. QED
    BY <1>6, <1>7, <2>1 DEF ContentsOK
<1>9. given' = SubSeq(c, 1, n)
  <2>1. /\ SubSeq(c, 1, n) \in Seq(Byte) /\ Len(SubSeq(c, 1, n)) = IF 1 <= n THEN n - 1 + 1 ELSE 0
        /\ \A i \in 1..n - 1 + 1 : SubSeq(c, 1, n)[i] = c[1 + i - 1]
    <3>1. \A i \in 1..n : c[i] \in Byte
      BY <1>2, <1>4, <1>8
    <3>2. QED
      BY <3>1, SubSeqProperties
  <2>2. Len(SubSeq(c, 1, n)) = n /\ \A i \in 1..n : SubSeq(c, 1, n)[i] = c[i]
    BY <1>2, <2>1
  <2>3. ASSUME NEW i \in Nat, 0 < i, i <= n PROVE Bytes(tail, n)[i] = SubSeq(c, 1, n)[i]
    <3>1. (tail + i - 1) % PAGE_SIZE = tail + i - 1
      BY <1>2, <1>4, <2>3, Types, ByteAt
    <3>2. Bytes(tail, n)[i] = page[tail + i - 1]
      BY <2>3 DEF Bytes
    <3>3. i \in 1..PIPE_SIZE /\ i \in 1..n
      BY <1>2, <1>4, <2>3
    <3>4. QED
      BY <1>8, <2>2, <3>1, <3>2, <3>3
  <2>4. Bytes(tail, n) = [i \in 1..n |-> Bytes(tail, n)[i]]
    BY DEF Bytes
  <2>5. SubSeq(c, 1, n) = [i \in 1..n |-> SubSeq(c, 1, n)[i]]
    <3>1. PICK s \in Seq(Byte) : s = SubSeq(c, 1, n)
      BY <2>1
    <3>2. s = [i \in 1..Len(s) |-> s[i]]
      OBVIOUS
    <3>3. QED
      BY <2>2, <3>1, <3>2
  <2>6. [i \in 1..n |-> Bytes(tail, n)[i]] = [i \in 1..n |-> SubSeq(c, 1, n)[i]]
    BY <2>3
  <2>7. QED
    BY <1>2, <2>4, <2>5, <2>6
<1>10. Contents' = SubSeq(c, n + 1, Len(c))
  <2>1. PICK u : u = SubSeq(c, n + 1, Len(c))
    OBVIOUS
  <2>2. /\ u \in Seq(Byte) /\ Len(u) = IF n + 1 <= Len(c) THEN Len(c) - (n + 1) + 1 ELSE 0
        /\ \A i \in 1..Len(c) - (n + 1) + 1 : u[i] = c[(n + 1) + i - 1]
    <3>1. \A i \in n + 1..Len(c) : c[i] \in Byte
      BY <1>2, <1>4, <1>7, <1>8
    <3>2. n + 1 \in Int /\ Len(c) \in Int
      BY <1>4, <1>7
    <3>3. QED
      BY <2>1, <3>1, <3>2, SubSeqProperties
  <2>3. Len(u) = PIPE_SIZE - n
    BY <1>2, <1>4, <1>7, <2>2
  <2>4. Contents' \in Seq(Byte) /\ Len(Contents') = PIPE_SIZE - n
    BY <1>3, <1>6 DEF ContentsOK
  <2>5. ASSUME NEW i \in Nat, 0 < i, i <= PIPE_SIZE - n PROVE Contents'[i] = u[i]
    <3>1. PICK t \in Nat : t = tail' /\ t < PAGE_SIZE
      BY <1>2, <1>4, <1>5
    <3>2. PICK m \in Nat : m = n + i
      OBVIOUS
    <3>3. m \in 1..PIPE_SIZE /\ 0 < m /\ m < PAGE_SIZE
      BY <1>2, <1>4, <2>5, <3>2
    <3>4. u[i] = c[m]
      <4>1. i \in 1..Len(c) - (n + 1) + 1 /\ (n + 1) + i - 1 = m
        BY <1>2, <1>4, <1>7, <2>5, <3>2
      <4>2. QED
        BY <2>2, <4>1
    <3>5. Contents'[i] = page[(t + i - 1) % PAGE_SIZE]
      <4>1. i \in 1..PIPE_SIZE'
        BY <1>2, <1>3, <1>4, <2>5
      <4>2. QED
        BY <1>2, <1>6, <3>1, <4>1 DEF ContentsOK
    <3>6. (t + i - 1) % PAGE_SIZE = (tail + m - 1) % PAGE_SIZE
      <4>1. PICK x \in Nat : x = t + i - 1
        <5>1. t + i - 1 \in Nat
          BY <2>5
        <5>2. QED
          BY <5>1
      <4>2. x < PAGE_SIZE + PAGE_SIZE
        BY <1>2, <1>4, <2>5, <3>1, <4>1
      <4>3. x % PAGE_SIZE = IF x < PAGE_SIZE THEN x ELSE x - PAGE_SIZE
        BY <1>4, <4>2, Mod
      <4>4. (tail + m - 1) % PAGE_SIZE = IF tail + m - 1 < PAGE_SIZE THEN tail + m - 1 ELSE tail + m - 1 - PAGE_SIZE
        BY <3>3, Types, ByteAt
      <4>5. x = IF tail + n = PAGE_SIZE THEN i - 1 ELSE tail + m - 1
        BY <1>2, <1>4, <1>5, <3>1, <3>2, <4>1
      <4>6. (t + i - 1) % PAGE_SIZE = x % PAGE_SIZE
        BY <4>1
      <4>7. CASE tail + n = PAGE_SIZE
        BY <1>2, <1>4, <2>5, <3>2, <3>3, <4>3, <4>4, <4>5, <4>6, <4>7
      <4>8. CASE tail + n # PAGE_SIZE
        BY <1>2, <1>4, <2>5, <3>2, <3>3, <4>3, <4>4, <4>5, <4>6, <4>8
      <4>9. QED
        BY <4>7, <4>8
    <3>7. QED
      BY <1>8, <3>3, <3>4, <3>5, <3>6
  <2>6. PICK s \in Seq(Byte) : s = Contents'
    BY <2>4
  <2>7. \A i \in 1..Len(s) : s[i] = u[i]
    BY <1>2, <1>4, <2>4, <2>5, <2>6
  <2>8. s = u
    BY <2>2, <2>3, <2>4, <2>6, <2>7, SeqEqual
  <2>9. QED
    BY <2>1, <2>6, <2>8
<1>11. n \in 1..Len(Contents)
  BY <1>2, <1>4, <1>7
<1>12. QED
  BY <1>2, <1>7, <1>9, <1>10, <1>11 DEF Stream!Take, Contents

LEMMA StreamStep == IInv /\ IInv' /\ [Next]_vars => [Stream!Next]_(Stream!vars)
<1> SUFFICES ASSUME IInv, IInv', [Next]_vars PROVE Stream!Next \/ UNCHANGED Stream!vars
  OBVIOUS
<1>1. TypeOK'
  BY DEF IInv, CountsExact
<1>2. CASE UNCHANGED <<head, tail, page, next, given, broken>>
  BY <1>2, Stutters
<1>3. CASE broken'
  BY <1>3 DEF Stream!Next, Stream!Break
<1>4. ASSUME NEW p \in Proc, SysPipe(p) PROVE Stream!Next
  <2>1. head' = 0 /\ tail' = 0 /\ next' = 0 /\ given' = <<>> /\ broken' = FALSE
    BY <1>4 DEF SysPipe, GetPipeInode
  <2>2. PIPE_SIZE' = 0
    <3>1. PAGE_SIZE \in Nat /\ PAGE_SIZE > 0 /\ 0 + PAGE_SIZE - 0 = PAGE_SIZE
      BY PipeAssumption
    <3>2. PAGE_SIZE % PAGE_SIZE = PAGE_SIZE - PAGE_SIZE
      BY <3>1, Mod
    <3>3. PIPE_SIZE' = (0 + PAGE_SIZE - 0) % PAGE_SIZE
      BY <2>1 DEF PIPE_SIZE
    <3>4. QED
      BY <3>1, <3>2, <3>3
  <2>3. Contents' = <<>>
    BY <2>2 DEF Contents
  <2>4. QED
    BY <2>1, <2>3 DEF Stream!Next, Stream!New, Stream!Init, Contents
<1>5. ASSUME NEW p \in Proc, ReadDone(p) PROVE Stream!Next
  <2>1. given' = <<>> /\ UNCHANGED <<head, tail, page, next, broken>>
    BY <1>5 DEF ReadDone, inode
  <2>2. QED
    BY <2>1 DEF Stream!Next, Stream!Used, PIPE_SIZE
<1>6. ASSUME NEW p \in Proc, ReadChunk(p) \/ WriteChunk(p), ~broken' PROVE Stream!Next
  BY <1>1, <1>6, ReadIsTake, WriteIsPut DEF Stream!Next
<1>7. ASSUME NEW p \in Proc,
             \/ Exit(p) \/ Signal(p) \/ Timeout(p)
             \/ \E f \in File : SysClose(p, f) \/ SysDup(p, f) \/ \E g \in File : SysDup2(p, f, g)
             \/ \E c \in Proc : Fork(p, c)
      PROVE  UNCHANGED <<head, tail, page, next, given, broken>>
  BY <1>7 DEF Exit, Signal, Timeout, SysClose, SysDup, SysDup2, Fork, Closed, Iput, inode, history
<1>8. ASSUME NEW p \in Proc,
             \/ \E n \in Counts : SysWrite(p, n) \/ \E nb \in BOOLEAN : SysRead(p, n, nb)
             \/ \E S \in SelectSets : SysSelect(p, S)
             \/ ReadWait(p) \/ WriteWait(p) \/ WriteDone(p) \/ PageThere(p) \/ DoSelect(p)
      PROVE  UNCHANGED <<head, tail, page, next, given, broken>>
  BY <1>8 DEF SysWrite, SysRead, SysSelect, ReadWait, WriteWait, WriteDone, PageThere, DoSelect, inode, history
<1>9. CASE UNCHANGED vars
  BY <1>2, <1>9 DEF vars, inode, history
<1>10. QED
  BY <1>2, <1>3, <1>4, <1>5, <1>6, <1>7, <1>8, <1>9 DEF Next

LEMMA StreamInit == Init => Stream!Init
<1> SUFFICES ASSUME Init PROVE Stream!Init
  OBVIOUS
<1>1. head = 0 /\ tail = 0 /\ next = 0 /\ given = <<>> /\ broken = FALSE
  BY DEF Init
<1>2. PIPE_SIZE = 0
  BY <1>1, InitHolds, Size DEF IInv, CountsExact
<1>3. Contents = <<>>
  BY <1>2 DEF Contents
<1>4. QED
  BY <1>1, <1>3 DEF Stream!Init, Contents

(* What the pipe's users see is a bounded stream of bytes: as long as no copy is
   interrupted by a page fault, the bytes come out in the order in which they
   went in, each once, around the end of the page and for every page size. *)
THEOREM PipeIsByteStream == Spec => IsByteStream
<1>1. QED
  BY Inductive, StreamInit, StreamStep, PTL DEF Spec, IsByteStream, Stream!Spec

(***************************************************************************)
(* The queues of a serial line, between tty_write and tty_read and the     *)
(* interrupts and timers of the chip, which move the characters on.        *)
(***************************************************************************)
(* What a routine does that neither moves a character nor loses one. *)
SameLine(s, t) ==
  /\ t.write_q = s.write_q /\ t.put = s.put /\ t.sent = s.sent /\ t.exact = s.exact
  /\ t.read_q = s.read_q /\ t.come = s.come /\ t.dropped = s.dropped /\ t.cooked = s.cooked

LEMMA LineKept == ASSUME NEW s, NEW t, SL!Fits(s), SL!Typed(t), SameLine(s, t) PROVE SL!Fits(t)
  BY DEF SL!Fits, SL!OutFits, SL!InFits, SameLine

(* The interrupt is enabled, the writer woken, the timers and the program counter set. *)
LEMMA RaisedFits == ASSUME NEW s, SL!Fits(s), NEW t \in SL!Raised(s) PROVE SL!Fits(t) /\ SameLine(s, t)
<1>1. SL!Typed(s)
  BY DEF SL!Fits
<1>2. PICK l \in Nat, b \in BOOLEAN : t = [s EXCEPT !.irq = b, !.lost = l]
  <2>1. s.lost \in Nat /\ s.irq \in BOOLEAN
    BY <1>1 DEF SL!Typed
  <2>2. s.lost + 1 \in Nat
    BY <2>1
  <2>3. CASE t = [s EXCEPT !.irq = TRUE]
    <3>1. t = [s EXCEPT !.irq = TRUE, !.lost = s.lost]
      BY <1>1, <2>3 DEF SL!Typed
    <3>2. QED  BY <2>1, <3>1
  <2>4. CASE t = [s EXCEPT !.lost = @ + 1]
    <3>1. t = [s EXCEPT !.irq = s.irq, !.lost = s.lost + 1]
      BY <1>1, <2>4 DEF SL!Typed
    <3>2. QED  BY <2>1, <2>2, <3>1
  <2>5. QED  BY <2>3, <2>4 DEF SL!Raised
<1>3. SL!Typed(t) /\ SameLine(s, t)
  BY <1>1, <1>2 DEF SL!Typed, SameLine
<1>4. QED  BY <1>3, LineKept

LEMMA WriterFits ==
  ASSUME NEW s, SL!Fits(s), NEW p \in {"out", "look", "full", "asleep", "fill", "start"},
         NEW t, t = [s EXCEPT !.pc = p]
  PROVE  SL!Fits(t) /\ SameLine(s, t)
<1>1. SL!Typed(s)
  BY DEF SL!Fits
<1>2. SL!Typed(t) /\ SameLine(s, t)
  BY <1>1 DEF SL!Typed, SameLine
<1>3. QED  BY <1>2, LineKept

LEMMA TimeoutFits ==
  ASSUME NEW s, SL!Fits(s), NEW b \in BOOLEAN, NEW t, t = [s EXCEPT !.timeout = b]
  PROVE  SL!Fits(t) /\ SameLine(s, t)
<1>1. SL!Typed(s)
  BY DEF SL!Fits
<1>2. SL!Typed(t) /\ SameLine(s, t)
  BY <1>1 DEF SL!Typed, SameLine
<1>3. QED  BY <1>2, LineKept

LEMMA WokenFits == ASSUME NEW s, SL!Fits(s) PROVE SL!Fits(SL!Woken(s)) /\ SameLine(s, SL!Woken(s))
<1>1. SL!Typed(s)
  BY DEF SL!Fits
<1>2. PICK p : p = IF s.pc = "asleep" THEN "full" ELSE s.pc
  OBVIOUS
<1>3. p \in {"out", "look", "full", "asleep", "fill", "start"}
  BY <1>1, <1>2 DEF SL!Typed
<1>4. SL!Woken(s) = [s EXCEPT !.pc = p]
  BY <1>1, <1>2 DEF SL!Woken, SL!Typed
<1>5. QED  BY <1>3, <1>4, WriterFits

LEMMA TieFits == ASSUME NEW s, SL!Fits(s) PROVE LET t == [s EXCEPT !.tie = TRUE] IN SL!Fits(t) /\ SameLine(s, t)
<1>1. SL!Typed(s)
  BY DEF SL!Fits
<1>2. PICK t : t = [s EXCEPT !.tie = TRUE]
  OBVIOUS
<1>3. SL!Typed(t) /\ SameLine(s, t)
  BY <1>1, <1>2 DEF SL!Typed, SameLine
<1>4. QED  BY <1>2, <1>3, LineKept

LEMMA EnableTieFits ==
  ASSUME NEW s, SL!Fits(s), NEW t \in SL!EnableTie(s) PROVE SL!Fits(t) /\ t.write_q = s.write_q
<1>1. PICK e : e = [s EXCEPT !.tie = TRUE]
  OBVIOUS
<1>2. SL!Fits(e) /\ SameLine(s, e)
  BY <1>1, TieFits
<1>3. t = e \/ t \in SL!Raised(e)
  BY <1>1 DEF SL!EnableTie
<1>4. QED  BY <1>2, <1>3, RaisedFits DEF SameLine

LEMMA OneOn == ASSUME NEW n \in Nat, NEW k \in Nat PROVE n + (k + 1) = n + 1 + k
  OBVIOUS

(* The head of the queue is the next character of the line. *)
LEMMA SendFits == ASSUME NEW s, SL!Fits(s), s.write_q # <<>> PROVE SL!Fits(SL!Send(s))
<1>1. SL!Typed(s) /\ SL!OutFits(s) /\ SL!InFits(s)
  BY DEF SL!Fits
<1>2. PICK q \in Seq(Nat) : q = s.write_q /\ q # <<>>
  BY <1>1 DEF SL!Typed
<1>3. /\ Len(q) \in Nat \ {0} /\ Head(q) = q[1] /\ Tail(q) \in Seq(Nat) /\ Len(Tail(q)) = Len(q) - 1
      /\ \A k \in 1..Len(q) - 1 : Tail(q)[k] = q[k + 1]
  BY <1>2, HeadTailProperties, EmptySeq
<1>4. /\ s.sent \in Nat /\ s.put \in Nat /\ s.sent + Len(q) = s.put
      /\ \A k \in 1..Len(q) : q[k] = s.sent + k
  BY <1>1, <1>2 DEF SL!Typed, SL!OutFits
<1>5. Head(q) = s.sent + 1
  <2>1. 1 \in 1..Len(q)
    BY <1>3
  <2>2. q[1] = s.sent + 1
    BY <1>4, <2>1
  <2>3. QED  BY <1>3, <2>2
<1>6. PICK t : t = SL!Send(s)
  OBVIOUS
<1>7. t = [s EXCEPT !.thre = FALSE, !.irq = FALSE, !.write_q = Tail(q), !.sent = s.sent + 1, !.exact = TRUE]
  BY <1>1, <1>2, <1>5, <1>6 DEF SL!Send, SL!OutFits, SL!Typed
<1>8. s.sent + 1 \in Nat
  BY <1>4
<1>9. SL!Typed(t)
  BY <1>1, <1>3, <1>7, <1>8 DEF SL!Typed
<1>10. /\ t.write_q = Tail(q) /\ t.sent = s.sent + 1 /\ t.exact /\ t.put = s.put
       /\ t.come = s.come /\ t.dropped = s.dropped /\ t.cooked = s.cooked /\ t.read_q = s.read_q
  BY <1>1, <1>7 DEF SL!Typed
<1>11. s.sent + 1 + Len(Tail(q)) = s.put
  BY <1>3, <1>4
<1>12. ASSUME NEW k \in 1..Len(Tail(q)) PROVE Tail(q)[k] = s.sent + 1 + k
  <2>1. k + 1 \in 1..Len(q) /\ k \in 1..Len(q) - 1
    BY <1>3
  <2>2. Tail(q)[k] = s.sent + (k + 1)
    BY <1>3, <1>4, <2>1
  <2>3. s.sent \in Nat /\ k \in Nat
    BY <1>4
  <2>4. s.sent + (k + 1) = s.sent + 1 + k
    BY <2>3, OneOn
  <2>5. QED  BY <2>2, <2>4
<1>13. SL!OutFits(t)
  BY <1>10, <1>11, <1>12 DEF SL!OutFits
<1>14. SL!InFits(t)
  BY <1>1, <1>10 DEF SL!InFits
<1>15. QED  BY <1>6, <1>9, <1>13, <1>14 DEF SL!Fits

(* A character is put at the end of the queue. *)
LEMMA PutFits ==
  ASSUME NEW s, SL!Fits(s), NEW t, t = [s EXCEPT !.put = @ + 1, !.write_q = Append(@, s.put + 1)]
  PROVE  SL!Fits(t)
<1>1. SL!Typed(s) /\ SL!OutFits(s) /\ SL!InFits(s)
  BY DEF SL!Fits
<1>2. PICK q \in Seq(Nat) : q = s.write_q
  BY <1>1 DEF SL!Typed
<1>3. /\ s.sent \in Nat /\ s.put \in Nat /\ s.sent + Len(q) = s.put /\ Len(q) \in Nat
      /\ \A k \in 1..Len(q) : q[k] = s.sent + k
  BY <1>1, <1>2 DEF SL!Typed, SL!OutFits
<1>4. s.put + 1 \in Nat
  BY <1>3
<1>5. PICK a : a = Append(q, s.put + 1)
  OBVIOUS
<1>6. /\ a \in Seq(Nat) /\ Len(a) = Len(q) + 1 /\ a[Len(q) + 1] = s.put + 1
      /\ \A k \in 1..Len(q) : a[k] = q[k]
  BY <1>4, <1>5, AppendProperties
<1>7. t = [s EXCEPT !.put = s.put + 1, !.write_q = a]
  BY <1>1, <1>2, <1>5 DEF SL!Typed
<1>8. SL!Typed(t)
  BY <1>1, <1>4, <1>6, <1>7 DEF SL!Typed
<1>9. /\ t.write_q = a /\ t.sent = s.sent /\ t.exact = s.exact /\ t.put = s.put + 1
      /\ t.come = s.come /\ t.dropped = s.dropped /\ t.cooked = s.cooked /\ t.read_q = s.read_q
  BY <1>1, <1>7 DEF SL!Typed
<1>10. s.sent + Len(a) = s.put + 1 /\ s.sent + (Len(q) + 1) = s.put + 1
  <2>1. s.sent + (Len(q) + 1) = s.put + 1
    BY <1>3
  <2>2. QED  BY <1>6, <2>1
<1>11. ASSUME NEW k \in 1..Len(a) PROVE a[k] = s.sent + k
  <2>1. k \in 1..Len(q) \/ k = Len(q) + 1
    BY <1>3, <1>6
  <2>3. CASE k \in 1..Len(q)
    BY <1>3, <1>6, <2>3
  <2>4. CASE k = Len(q) + 1
    BY <1>6, <1>10, <2>4
  <2>5. QED  BY <2>1, <2>3, <2>4
<1>12. SL!OutFits(t)
  BY <1>1, <1>9, <1>10, <1>11 DEF SL!OutFits
<1>13. SL!InFits(t)
  BY <1>1, <1>9 DEF SL!InFits
<1>14. QED  BY <1>8, <1>12, <1>13 DEF SL!Fits

(* write_buffer_empty. *)
LEMMA EmptyFits == ASSUME NEW s, SL!Fits(s) PROVE SL!Fits(SL!WriteBufferEmpty(s))
<1>1. PICK w : w = SL!Woken(s)
  OBVIOUS
<1>2. SL!Fits(w) /\ SL!Typed(w)
  BY <1>1, WokenFits DEF SL!Fits
<1>3. PICK t : t = [w EXCEPT !.tie = FALSE, !.irq = FALSE]
  OBVIOUS
<1>4. SL!Typed(t) /\ SameLine(w, t)
  BY <1>2, <1>3 DEF SL!Typed, SameLine
<1>5. QED  BY <1>1, <1>2, <1>3, <1>4, LineKept DEF SL!WriteBufferEmpty

(* The routines of rs_io.s and serial.c. *)
LEMMA WriteCharFits == ASSUME NEW s, SL!Fits(s) PROVE SL!Fits(SL!WriteChar(s))
<1>1. CASE s.write_q = <<>>
  BY <1>1, EmptyFits DEF SL!WriteChar
<1>2. CASE s.write_q # <<>>
  <2>1. PICK w : w = IF Len(s.write_q) <= LineRest THEN SL!Woken(s) ELSE s
    OBVIOUS
  <2>2. SL!Fits(w) /\ w.write_q # <<>>
    BY <1>2, <2>1, WokenFits DEF SameLine
  <2>3. PICK t : t = SL!Send(w)
    OBVIOUS
  <2>4. SL!Fits(t)
    BY <2>2, <2>3, SendFits
  <2>5. SL!WriteChar(s) = IF t.write_q = <<>> THEN SL!WriteBufferEmpty(t) ELSE t
    BY <1>2, <2>1, <2>3 DEF SL!WriteChar
  <2>6. QED  BY <2>4, <2>5, EmptyFits
<1>3. QED  BY <1>1, <1>2

LEMMA DoRsWriteFits == ASSUME NEW s, SL!Fits(s), NEW o \in SL!DoRsWrite(s) PROVE SL!Fits(o)
<1>1. CASE s.write_q = <<>>
  BY <1>1, TimeoutFits DEF SL!DoRsWrite
<1>2. CASE s.write_q # <<>>
  <2>1. PICK e : e = [s EXCEPT !.timeout = TRUE]
    OBVIOUS
  <2>2. SL!Fits(e) /\ e.write_q # <<>>
    BY <1>2, <2>1, TimeoutFits DEF SameLine
  <2>3. PICK t \in SL!EnableTie(e) : o = IF t.thre THEN SL!Send(t) ELSE t
    BY <1>2, <2>1 DEF SL!DoRsWrite
  <2>4. SL!Fits(t) /\ t.write_q # <<>>
    BY <2>2, EnableTieFits
  <2>5. QED  BY <2>3, <2>4, SendFits
<1>3. QED  BY <1>1, <1>2

LEMMA RsWriteFits == ASSUME NEW s, SL!Fits(s), NEW o \in SL!RsWrite(s) PROVE SL!Fits(o)
<1>1. PICK t \in IF s.write_q = <<>> THEN {s} ELSE SL!EnableTie(s) : o = [t EXCEPT !.timeout = TRUE]
  BY DEF SL!RsWrite
<1>2. SL!Fits(t)
  BY EnableTieFits
<1>3. QED  BY <1>1, <1>2, TimeoutFits

(* What is kept of the characters that come in. *)
LEMMA Joined ==
  ASSUME NEW q \in Seq(Nat), NEW r \in Seq(Nat), NEW c \in Nat
  PROVE  /\ q \o r \in Seq(Nat) /\ q \o Append(r, c) = Append(q \o r, c)
         /\ q \o r = (q \o r) \o <<>>
<1>1. q \o r \in Seq(Nat)
  BY ConcatProperties
<1>2. q \o Append(r, c) = Append(q \o r, c)
  BY <1>1
<1>3. QED  BY <1>1, <1>2, ConcatEmptySeq

(* One more character is kept, or dropped. *)
LEMMA OneMoreKept ==
  ASSUME NEW q \in Seq(Nat), NEW n \in Nat, NEW gone \in SUBSET (1..n), SL!Rising(q), SL!Holds(q, (1..n) \ gone)
  PROVE  SL!Rising(Append(q, n + 1)) /\ SL!Holds(Append(q, n + 1), (1..n + 1) \ gone)
<1>1. PICK a : a = Append(q, n + 1)
  OBVIOUS
<1>2. /\ a \in Seq(Nat) /\ Len(a) = Len(q) + 1 /\ a[Len(q) + 1] = n + 1 /\ Len(q) \in Nat
      /\ \A k \in 1..Len(q) : a[k] = q[k]
  BY <1>1, AppendProperties
<1>3. \A k \in 1..Len(a) : k \in 1..Len(q) \/ k = Len(q) + 1
  BY <1>2
<1>4. \A k \in 1..Len(q) : q[k] \in (1..n) \ gone /\ k \in 1..Len(a)
  BY <1>2 DEF SL!Holds
<1>5. ASSUME NEW i \in 1..Len(a), NEW j \in 1..Len(a), i < j PROVE a[i] < a[j]
  <2>1. i \in 1..Len(q)
    BY <1>2, <1>5
  <2>2. CASE j \in 1..Len(q)
    <3>1. q[i] < q[j]
      BY <1>5, <2>1, <2>2 DEF SL!Rising
    <3>2. QED  BY <1>2, <2>1, <2>2, <3>1
  <2>3. CASE j = Len(q) + 1
    <3>1. q[i] \in 1..n
      BY <1>4, <2>1
    <3>2. q[i] < n + 1
      BY <3>1
    <3>3. QED  BY <1>2, <2>1, <2>3, <3>2
  <2>4. QED  BY <1>3, <2>2, <2>3
<1>6. ASSUME NEW c \in (1..n + 1) \ gone PROVE \E k \in 1..Len(a) : c = a[k]
  <2>1. CASE c = n + 1
    <3>1. Len(q) + 1 \in 1..Len(a)
      BY <1>2
    <3>2. QED  BY <1>2, <2>1, <3>1
  <2>2. CASE c # n + 1
    <3>1. c \in (1..n) \ gone
      BY <2>2
    <3>2. PICK k \in 1..Len(q) : c = q[k]
      BY <3>1 DEF SL!Holds
    <3>3. QED  BY <1>2, <1>4, <3>2
  <2>3. QED  BY <2>1, <2>2
<1>7. n + 1 \in (1..n + 1) \ gone
  OBVIOUS
<1>8. ASSUME NEW k \in 1..Len(a) PROVE a[k] \in (1..n + 1) \ gone
  <2>1. CASE k \in 1..Len(q)
    <3>1. q[k] \in (1..n) \ gone
      BY <1>4, <2>1
    <3>2. q[k] \in (1..n + 1) \ gone
      BY <3>1
    <3>3. QED  BY <1>2, <2>1, <3>2
  <2>2. CASE k = Len(q) + 1
    BY <1>2, <1>7, <2>2
  <2>3. QED  BY <1>3, <2>1, <2>2
<1>9. (1..n + 1) \ gone = {a[k] : k \in 1..Len(a)}
  BY <1>6, <1>8
<1>10. QED  BY <1>1, <1>5, <1>9 DEF SL!Rising, SL!Holds

LEMMA OneMoreDropped ==
  ASSUME NEW n \in Nat, NEW gone \in SUBSET (1..n)
  PROVE  (1..n + 1) \ (gone \cup {n + 1}) = (1..n) \ gone /\ gone \cup {n + 1} \subseteq 1..n + 1
         /\ gone \subseteq 1..n + 1
  OBVIOUS

(* read_char: the character is kept, or the queue is full. *)
LEMMA ReadCharFits == ASSUME NEW s, SL!Fits(s) PROVE SL!Fits(SL!ReadChar(s))
<1>1. SL!Typed(s) /\ SL!OutFits(s) /\ SL!InFits(s)
  BY DEF SL!Fits
<1>2. PICK q, r, n, gone : q = s.cooked /\ r = s.read_q /\ n = s.come /\ gone = s.dropped
  OBVIOUS
<1>3. q \in Seq(Nat) /\ r \in Seq(Nat) /\ n \in Nat /\ gone \in SUBSET (1..n) /\ gone \in SUBSET Nat
  BY <1>1, <1>2 DEF SL!Typed, SL!InFits
<1>4. SL!Rising(q \o r) /\ SL!Holds(q \o r, (1..n) \ gone)
  BY <1>1, <1>2 DEF SL!InFits
<1>5. n + 1 \in Nat
  BY <1>3
<1>6. PICK t : t = SL!ReadChar(s)
  OBVIOUS
<1>7. CASE SL!Full(s.read_q)
  <2>1. t = [s EXCEPT !.come = n + 1, !.timer = TRUE, !.read_q = r, !.dropped = gone \cup {n + 1}]
    BY <1>1, <1>2, <1>6, <1>7 DEF SL!ReadChar, SL!Typed
  <2>2. gone \cup {n + 1} \in SUBSET Nat
    BY <1>3, <1>5
  <2>3. SL!Typed(t)
    BY <1>1, <1>3, <1>5, <2>1, <2>2 DEF SL!Typed
  <2>4. /\ t.write_q = s.write_q /\ t.sent = s.sent /\ t.exact = s.exact /\ t.put = s.put
        /\ t.come = n + 1 /\ t.dropped = gone \cup {n + 1} /\ t.cooked = q /\ t.read_q = r
    BY <1>1, <1>2, <2>1 DEF SL!Typed
  <2>5. SL!InFits(t)
    <3>1. (1..n + 1) \ (gone \cup {n + 1}) = (1..n) \ gone /\ gone \cup {n + 1} \subseteq 1..n + 1
      BY <1>3, OneMoreDropped
    <3>2. SL!Holds(q \o r, (1..n + 1) \ (gone \cup {n + 1}))
      BY <1>4, <3>1
    <3>3. QED  BY <1>4, <2>4, <3>1, <3>2 DEF SL!InFits
  <2>6. SL!OutFits(t)
    BY <1>1, <2>4 DEF SL!OutFits
  <2>7. QED  BY <1>6, <2>3, <2>5, <2>6 DEF SL!Fits
<1>8. CASE ~SL!Full(s.read_q)
  <2>1. PICK a : a = Append(r, n + 1)
    OBVIOUS
  <2>2. a \in Seq(Nat)
    BY <1>3, <1>5, <2>1, AppendProperties
  <2>3. t = [s EXCEPT !.come = n + 1, !.timer = TRUE, !.read_q = a, !.dropped = gone]
    BY <1>1, <1>2, <1>6, <1>8, <2>1 DEF SL!ReadChar, SL!Typed
  <2>4. SL!Typed(t)
    BY <1>1, <1>3, <1>5, <2>2, <2>3 DEF SL!Typed
  <2>5. /\ t.write_q = s.write_q /\ t.sent = s.sent /\ t.exact = s.exact /\ t.put = s.put
        /\ t.come = n + 1 /\ t.dropped = gone /\ t.cooked = q /\ t.read_q = a
    BY <1>1, <1>2, <2>3 DEF SL!Typed
  <2>6. q \o a = Append(q \o r, n + 1) /\ q \o r \in Seq(Nat)
    BY <1>3, <1>5, <2>1, Joined
  <2>7. SL!Rising(q \o a) /\ SL!Holds(q \o a, (1..n + 1) \ gone)
    BY <1>3, <1>4, <2>6, OneMoreKept
  <2>8. SL!InFits(t)
    BY <1>3, <2>5, <2>7, OneMoreDropped DEF SL!InFits
  <2>9. SL!OutFits(t)
    BY <1>1, <2>5 DEF SL!OutFits
  <2>10. QED  BY <1>6, <2>4, <2>8, <2>9 DEF SL!Fits
<1>9. QED  BY <1>7, <1>8

(* tty_write: one character, or the writer goes on, sleeps or starts the line. *)
LEMMA TtyWriteStep == ASSUME SL!Fits(sl), SL!TtyWrite PROVE SL!Fits(sl')
<1> DEFINE Pcs == {"out", "look", "full", "asleep", "fill", "start"}
<1>1. ASSUME NEW p \in Pcs, sl' = [sl EXCEPT !.pc = p] PROVE SL!Fits(sl')
  BY <1>1, WriterFits
<1>2. CASE sl' = [sl EXCEPT !.pc = "look"]
  BY <1>1, <1>2
<1>3. CASE sl' = [sl EXCEPT !.pc = IF SL!Full(sl.write_q) THEN "full" ELSE "fill"]
  <2>1. CASE SL!Full(sl.write_q)
    <3>1. sl' = [sl EXCEPT !.pc = "full"]
      BY <1>3, <2>1
    <3>2. QED  BY <1>1, <3>1
  <2>2. CASE ~SL!Full(sl.write_q)
    <3>1. sl' = [sl EXCEPT !.pc = "fill"]
      BY <1>3, <2>2
    <3>2. QED  BY <1>1, <3>1
  <2>3. QED  BY <2>1, <2>2
<1>4. CASE sl' = [sl EXCEPT !.pc = IF SL!Left(sl.write_q) < LineRoom THEN "asleep" ELSE "fill"]
  <2>1. CASE SL!Left(sl.write_q) < LineRoom
    <3>1. sl' = [sl EXCEPT !.pc = "asleep"]
      BY <1>4, <2>1
    <3>2. QED  BY <1>1, <3>1
  <2>2. CASE ~(SL!Left(sl.write_q) < LineRoom)
    <3>1. sl' = [sl EXCEPT !.pc = "fill"]
      BY <1>4, <2>2
    <3>2. QED  BY <1>1, <3>1
  <2>3. QED  BY <2>1, <2>2
<1>5. CASE sl' = IF sl.put < MaxOut /\ ~SL!Full(sl.write_q)
                 THEN [sl EXCEPT !.put = @ + 1, !.write_q = Append(@, sl.put + 1)]
                 ELSE [sl EXCEPT !.pc = "start"]
  <2>1. CASE sl' = [sl EXCEPT !.put = @ + 1, !.write_q = Append(@, sl.put + 1)]
    BY <2>1, PutFits
  <2>2. CASE sl' = [sl EXCEPT !.pc = "start"]
    BY <1>1, <2>2
  <2>3. QED  BY <1>5, <2>1, <2>2
<1>6. CASE \E s \in SL!RsWrite(sl) : sl' = [s EXCEPT !.pc = IF s.put < MaxOut THEN "look" ELSE "out"]
  <2>1. PICK s \in SL!RsWrite(sl), p \in Pcs : sl' = [s EXCEPT !.pc = p]
    <3>1. PICK s \in SL!RsWrite(sl) : sl' = [s EXCEPT !.pc = IF s.put < MaxOut THEN "look" ELSE "out"]
      BY <1>6
    <3>2. PICK p : p = IF s.put < MaxOut THEN "look" ELSE "out"
      OBVIOUS
    <3>3. p \in Pcs /\ sl' = [s EXCEPT !.pc = p]
      BY <3>1, <3>2
    <3>4. QED  BY <3>3
  <2>2. SL!Fits(s)
    BY RsWriteFits
  <2>3. QED  BY <2>1, <2>2, WriterFits
<1>7. QED  BY <1>2, <1>3, <1>4, <1>5, <1>6 DEF SL!TtyWrite

LEMMA ShiftedStep == ASSUME SL!Fits(sl), SL!Shifted PROVE SL!Fits(sl')
<1>1. PICK s : s = [sl EXCEPT !.thre = TRUE]
  OBVIOUS
<1>2. SL!Typed(sl)
  BY DEF SL!Fits
<1>3. SL!Typed(s) /\ SameLine(sl, s)
  BY <1>1, <1>2 DEF SL!Typed, SameLine
<1>4. SL!Fits(s)
  BY <1>3, LineKept
<1>5. sl' = s \/ sl' \in SL!Raised(s)
  BY <1>1 DEF SL!Shifted
<1>6. QED  BY <1>4, <1>5, RaisedFits

LEMMA TimeoutStep == ASSUME SL!Fits(sl), SL!Timeout PROVE SL!Fits(sl')
<1>1. PICK l, s : l = (IF sl.irq THEN sl.lost + 1 ELSE sl.lost) /\ s = [sl EXCEPT !.lost = l]
  OBVIOUS
<1>2. SL!Typed(sl)
  BY DEF SL!Fits
<1>3. l \in Nat
  <2>1. sl.lost \in Nat
    BY <1>2 DEF SL!Typed
  <2>2. sl.lost + 1 \in Nat
    BY <2>1
  <2>3. QED  BY <1>1, <2>1, <2>2
<1>4. SL!Typed(s) /\ SameLine(sl, s)
  BY <1>1, <1>2, <1>3 DEF SL!Typed, SameLine
<1>5. SL!Fits(s)
  BY <1>4, LineKept
<1>6. sl' \in SL!DoRsWrite(s)
  BY <1>1, <1>2 DEF SL!Timeout, SL!Typed
<1>7. QED  BY <1>5, <1>6, DoRsWriteFits

(* com1_timer hands the characters on. *)
LEMMA TimerStep == ASSUME SL!Fits(sl), SL!Timer PROVE SL!Fits(sl')
<1>1. SL!Typed(sl) /\ SL!OutFits(sl) /\ SL!InFits(sl)
  BY DEF SL!Fits
<1>2. PICK q \in Seq(Nat), r \in Seq(Nat) : q = sl.cooked /\ r = sl.read_q
  BY <1>1 DEF SL!Typed
<1>3. PICK k : k = q \o r
  OBVIOUS
<1>4. k \in Seq(Nat) /\ k \o <<>> = k /\ <<>> \in Seq(Nat)
  BY <1>3, ConcatProperties, ConcatEmptySeq, EmptySeq
<1>5. sl' = [sl EXCEPT !.timer = FALSE, !.cooked = k, !.read_q = <<>>]
  BY <1>1, <1>2, <1>3 DEF SL!Timer, SL!Typed
<1>6. SL!Typed(sl')
  BY <1>1, <1>4, <1>5 DEF SL!Typed
<1>7. /\ sl'.write_q = sl.write_q /\ sl'.sent = sl.sent /\ sl'.exact = sl.exact /\ sl'.put = sl.put
      /\ sl'.come = sl.come /\ sl'.dropped = sl.dropped /\ sl'.cooked = k /\ sl'.read_q = <<>>
  BY <1>1, <1>5 DEF SL!Typed
<1>8. SL!InFits(sl')
  BY <1>1, <1>2, <1>3, <1>4, <1>7 DEF SL!InFits
<1>9. SL!OutFits(sl')
  BY <1>1, <1>7 DEF SL!OutFits
<1>10. QED  BY <1>6, <1>8, <1>9 DEF SL!Fits

LEMMA LineStarts == SL!Init => SL!IInv
<1> SUFFICES ASSUME SL!Init PROVE SL!Fits(sl)
  BY DEF SL!IInv
<1>1. <<>> \in Seq(Nat) /\ Len(<<>>) = 0 /\ <<>> \o <<>> = <<>>
  BY EmptySeq, ConcatEmptySeq
<1>2. {} \in SUBSET Nat /\ 0 \in Nat
  OBVIOUS
<1>3. SL!Typed(sl)
  BY <1>1, <1>2 DEF SL!Init, SL!Sl0, SL!Typed
<1>4. /\ sl.write_q = <<>> /\ sl.read_q = <<>> /\ sl.cooked = <<>> /\ sl.exact /\ sl.sent = 0
      /\ sl.put = 0 /\ sl.come = 0 /\ sl.dropped = {}
  BY DEF SL!Init, SL!Sl0
<1>5. 1..Len(<<>>) = {} /\ 1..0 = {} /\ 0 + Len(<<>>) = 0
  BY <1>1
<1>6. SL!OutFits(sl)
  BY <1>4, <1>5 DEF SL!OutFits
<1>7. SL!Rising(<<>>) /\ SL!Holds(<<>>, {})
  BY <1>5 DEF SL!Rising, SL!Holds
<1>8. SL!InFits(sl)
  BY <1>1, <1>4, <1>5, <1>7 DEF SL!InFits
<1>9. QED  BY <1>3, <1>6, <1>8 DEF SL!Fits

LEMMA LineSteps == SL!IInv /\ [SL!Next]_sl => SL!IInv'
<1> SUFFICES ASSUME SL!Fits(sl), [SL!Next]_sl PROVE SL!Fits(sl)'
  BY DEF SL!IInv
<1>1. CASE SL!TtyWrite
  BY <1>1, TtyWriteStep
<1>2. CASE SL!Transmit
  BY <1>2, WriteCharFits DEF SL!Transmit
<1>3. CASE SL!Shifted
  BY <1>3, ShiftedStep
<1>4. CASE SL!Receive
  BY <1>4, ReadCharFits DEF SL!Receive
<1>5. CASE SL!Timeout
  BY <1>5, TimeoutStep
<1>6. CASE SL!Timer
  BY <1>6, TimerStep
<1>7. CASE UNCHANGED sl
  BY <1>7
<1>8. QED  BY <1>1, <1>2, <1>3, <1>4, <1>5, <1>6, <1>7 DEF SL!Next

LEMMA LineFitsMeansExact == SL!IInv => SL!LineExact
<1> SUFFICES ASSUME SL!Fits(sl) PROVE SL!LineExact
  BY DEF SL!IInv
<1>1. SL!OutFits(sl) /\ SL!InFits(sl)
  BY DEF SL!Fits
<1>2. PICK k : k = sl.cooked \o sl.read_q
  OBVIOUS
<1>3. SL!Rising(k) /\ SL!Holds(k, (1..sl.come) \ sl.dropped)
  BY <1>1, <1>2 DEF SL!InFits
<1>4. {k[i] : i \in 1..Len(k)} = (1..sl.come) \ sl.dropped
  BY <1>3 DEF SL!Holds
<1>5. \A i, j \in 1..Len(k) : i < j => k[i] < k[j]
  BY <1>3 DEF SL!Rising
<1>6. sl.exact /\ sl.sent + Len(sl.write_q) = sl.put
  BY <1>1 DEF SL!OutFits
<1>7. QED  BY <1>2, <1>4, <1>5, <1>6 DEF SL!LineExact

(* write_char of rs_io.s, do_rs_write and com1_timer, whichever of them sends a character or
   hands it on, and however many interrupts are lost: the line carries what tty_write put,
   in order, each once; what comes in is kept unless it finds the queue full. *)
THEOREM LineStaysExact == LineSpec => []LineExact
  BY LineStarts, LineSteps, LineFitsMeansExact, PTL DEF LineSpec, LineExact
=============================================================================
