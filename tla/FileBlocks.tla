----------------------------- MODULE FileBlocks -----------------------------
(***************************************************************************)
(* The blocks of files: fs/minix/inode.c (_bmap), truncate.c, file_dev.c   *)
(* and the block bitmap of bitmap.c.  Processes read and write single      *)
(* blocks of files and truncate them; an action ends where the code may    *)
(* sleep: in getblk and bread, and at a user page that is not there.       *)
(*                                                                         *)
(* A file has DIRECT pointers to blocks, one to a block of PER pointers    *)
(* and one to a block of pointers to such blocks.  The bitmap is the set   *)
(* of blocks in use; that find_first_zero returns the first zero bit is    *)
(* taken for granted here.                                                 *)
(***************************************************************************)
EXTENDS Naturals, Sequences, FiniteSets, FiniteSetsExt

CONSTANTS Proc, File,
          DIRECT, PER,   \* the code's 7 and 512
          NR_BLOCKS,     \* data blocks of the device
          Number,        \* the blocks of files that are read and written
          MaxCalls       \* bound: calls in all

NULL == 0
Block == 1..NR_BLOCKS

ASSUME FileBlocksAssumption ==
  /\ DIRECT \in Nat \ {0} /\ PER \in Nat \ {0} /\ NR_BLOCKS \in Nat /\ MaxCalls \in Nat
  /\ Number \subseteq 0..(DIRECT + PER + PER * PER - 1)

VARIABLES zmap,    \* the blocks in use
          zone,    \* File -> pointers of the inode, i_data
          ptr,     \* Block -> what it holds as a block of pointers
          data,    \* the blocks that hold data of a file
          size,    \* File -> i_size, in blocks
          job,     \* Proc -> the call it is in
          calls,
          panicked,  \* minix_new_block has found its block in use: everything stops
          lost,      \* not in the code: the blocks that no file refers to any more, see Drop
          mixed      \* not in the code: a file is truncated while somebody changes it; the
                     \* model stops there

vars == <<zmap, zone, ptr, data, size, job, calls, panicked, lost, mixed>>
tree == <<zmap, zone, ptr, data, lost>>
noted == <<panicked, mixed>>

NoPtr == [k \in 1..PER |-> NULL]

(* level: how many pointers bmap has followed; nr: the block it is about to read; bh:
   the block it holds; stack: the blocks truncate holds, with the next pointer of
   each, the inode at the bottom. *)
Out == [op |-> "out", at |-> "out", f |-> 0, n |-> 0, level |-> 0, nr |-> NULL, bh |-> NULL,
        new |-> NULL, stack |-> <<>>]

Init == /\ zmap = {} /\ zone = [f \in File |-> [k \in 1..(DIRECT + 2) |-> NULL]]
        /\ ptr = [b \in Block |-> NoPtr] /\ data = {}
        /\ size = [f \in File |-> 0] /\ job = [p \in Proc |-> Out] /\ calls = 0
        /\ panicked = FALSE /\ lost = {} /\ mixed = FALSE

At(p, l) == job[p].at = l
Return(p) == job' = [job EXCEPT ![p] = Out]

Changing(q, op, f) == job[q].op = op /\ job[q].f = f

(***************************************************************************)
(* _bmap.                                                                  *)
(***************************************************************************)
(* The pointers on the way to block n: the first is in the inode. *)
Way(n) ==
  LET m == n - DIRECT
      q == m - PER
  IN  IF n < DIRECT THEN <<n + 1>>
      ELSE IF m < PER THEN <<DIRECT + 1, m + 1>>
      ELSE <<DIRECT + 2, (q \div PER) + 1, (q % PER) + 1>>

Index(j) == Way(j.n)[j.level]
Pointer(j) == IF j.level = 1 THEN zone[j.f][Index(j)] ELSE ptr[j.bh][Index(j)]

(* What _bmap finds there.  A reader that got to a block after it was freed, or holds data
   by now, finds anything; nobody else does. *)
Found(j) ==
  IF j.op = "read" /\ j.level > 1 /\ (j.bh \notin zmap \/ j.bh \in data) THEN Block \cup {NULL}
  ELSE {Pointer(j)}

(* The blocks behind block b, when it is one of pointers, perhaps to such blocks. *)
Children(b) == {ptr[b][k] : k \in 1..PER} \ {NULL}
Behind(b) == Children(b) \cup UNION {Children(c) : c \in Children(b)}

(* The pointer is b: it is the block, or the next one to read. *)
Followed(j, b) == [j EXCEPT !.bh = NULL, !.new = NULL, !.nr = b,
                            !.at = IF j.level = Len(Way(j.n)) THEN "data" ELSE "bread"]

Bmap(p) ==
  LET j == job[p] IN
  /\ At(p, "bmap")
  /\ \E b \in Found(j) :
       \/ /\ b # NULL
          /\ job' = [job EXCEPT ![p] = Followed(j, b)]
          /\ UNCHANGED zmap
       \/ /\ b = NULL /\ j.op = "write" /\ zmap # Block
          /\ \E new \in {Min(Block \ zmap)} :
               /\ zmap' = zmap \cup {new}
               /\ job' = [job EXCEPT ![p] = [j EXCEPT !.at = "getblk", !.new = new]]
       \/ /\ b = NULL /\ (j.op = "read" \/ zmap = Block)  \* zeroes, or no space
          /\ Return(p)
          /\ UNCHANGED zmap
  /\ UNCHANGED <<zone, ptr, data, size, calls, lost, noted>>

(* Somebody else has a buffer of block b, or is in bread and may have it by now. *)
Holds(q, b) == job[q].bh = b \/ \E i \in DOMAIN job[q].stack : job[q].stack[i].b = b
Held(p, b) == \E q \in Proc \ {p} : Holds(q, b)
Awaited(p, b) == \E q \in Proc \ {p} : job[q].nr = b

(* The end of minix_new_block, which panics when somebody else holds the block, and the
   pointer set: it was NULL before minix_new_block slept, but may lead to the block of
   another writer now, which is lost with what is behind it.  A block that is lost itself
   loses what is put in it. *)
Drop(j) == IF j.bh \in lost THEN {j.new}
           ELSE IF Pointer(j) = NULL THEN {} ELSE {Pointer(j)} \cup Behind(Pointer(j))

NewBlock(p) ==
  LET j == job[p]
      blank == [ptr EXCEPT ![j.new] = NoPtr]
  IN
  /\ At(p, "getblk")
  /\ \/ /\ Held(p, j.new) \/ Awaited(p, j.new)
        /\ panicked' = TRUE /\ UNCHANGED <<tree, job>>
     \/ /\ ~Held(p, j.new)
        /\ IF j.level = 1
           THEN zone' = [zone EXCEPT ![j.f][Index(j)] = j.new] /\ ptr' = blank
           ELSE ptr' = [blank EXCEPT ![j.bh][Index(j)] = j.new] /\ UNCHANGED zone
        /\ data' = data \ {j.new}
        /\ lost' = lost \cup Drop(j)
        /\ job' = [job EXCEPT ![p] = Followed(j, j.new)]
        /\ UNCHANGED <<zmap, panicked>>
  /\ UNCHANGED <<size, calls, mixed>>

(* bread of a block of pointers, which may fail. *)
BmapRead(p) ==
  LET j == job[p] IN
  /\ At(p, "bread")
  /\ \/ job' = [job EXCEPT ![p] = [j EXCEPT !.at = "bmap", !.bh = j.nr, !.nr = NULL,
                                            !.level = @ + 1]]
     \/ Return(p)
  /\ UNCHANGED <<tree, size, calls, noted>>

(***************************************************************************)
(* minix_file_read, minix_file_write: one block.                           *)
(***************************************************************************)
Start(p, op, f, n) ==
  /\ At(p, "out") /\ calls < MaxCalls
  /\ op = "read" => n < size[f]
  /\ calls' = calls + 1
  /\ mixed' = (mixed \/ (op = "write" /\ \E q \in Proc : Changing(q, "truncate", f)))
  /\ job' = [job EXCEPT ![p] = [Out EXCEPT !.op = op, !.at = "bmap", !.f = f, !.n = n, !.level = 1]]
  /\ UNCHANGED <<tree, size, panicked>>

ReadWrite(p) ==
  LET j == job[p] IN
  /\ At(p, "data")
  /\ \/ /\ job' = [job EXCEPT ![p] = [j EXCEPT !.at = "copy", !.bh = j.nr, !.nr = NULL]]
        /\ size' = IF j.op = "write" THEN [size EXCEPT ![j.f] = Max({@, j.n + 1})] ELSE size
     \/ Return(p) /\ UNCHANGED size
  /\ UNCHANGED <<tree, calls, noted>>

CopiedNotReleased(p) ==
  /\ At(p, "copy")
  /\ job' = [job EXCEPT ![p] = [Out EXCEPT !.bh = job[p].bh]]
  /\ UNCHANGED <<tree, size, calls, noted>>

Copied(p) ==
  LET j == job[p] IN
  /\ At(p, "copy")
  /\ data' = IF j.op = "write" THEN data \cup {j.bh} ELSE data
  /\ Return(p)
  /\ UNCHANGED <<zmap, zone, ptr, size, calls, lost, noted>>

(***************************************************************************)
(* minix_truncate, minix_free_ind, minix_free_dind.                        *)
(***************************************************************************)
(* The frame of block b, NULL for the inode; below: how far its blocks reach down. *)
Frame(b, below) == [b |-> b, k |-> 1, busy |-> FALSE, below |-> below]

Truncate(p, f) ==
  /\ At(p, "out") /\ calls < MaxCalls
  /\ calls' = calls + 1
  /\ mixed' = (mixed \/ \E q \in Proc, op \in {"write", "truncate"} : Changing(q, op, f))
  /\ job' = [job EXCEPT ![p] = [Out EXCEPT !.op = "truncate", !.at = "free", !.f = f,
                                           !.stack = <<Frame(NULL, 3)>>]]
  /\ UNCHANGED <<tree, size, panicked>>

Top(p) == job[p].stack[Len(job[p].stack)]
Pointers(p, fr) == IF fr.b = NULL THEN zone[job[p].f] ELSE ptr[fr.b]
Left(p, fr) == {k \in DOMAIN Pointers(p, fr) : k >= fr.k /\ Pointers(p, fr)[k] # NULL}
Below(fr, k) == IF fr.b # NULL THEN fr.below - 1
                ELSE IF k <= DIRECT THEN 0 ELSE k - DIRECT

(* The pointer k of frame fr, NULL from now on. *)
Forget(p, fr, k) ==
  IF fr.b = NULL THEN zone' = [zone EXCEPT ![job[p].f][k] = NULL] /\ UNCHANGED ptr
                 ELSE ptr' = [ptr EXCEPT ![fr.b][k] = NULL] /\ UNCHANGED zone

SetTop(p, fr, depth) ==
  job' = [job EXCEPT ![p].stack = [SubSeq(@, 1, depth) EXCEPT ![depth] = fr]]

(* minix_free_block(b) for pointer k of frame fr, at that depth of the stack: it refuses a
   block somebody else has a buffer of.  The blocks in behind were not looked at and are
   lost with it. *)
FreeBlock(p, b, fr, k, depth, behind) ==
  \/ /\ ~Held(p, b)
     /\ zmap' = zmap \ {b}
     /\ Forget(p, fr, k)
     /\ SetTop(p, [fr EXCEPT !.k = k + 1], depth)
     /\ lost' = lost \cup behind
  \/ /\ Held(p, b) \/ Awaited(p, b)
     /\ SetTop(p, [fr EXCEPT !.k = k + 1, !.busy = TRUE], depth)
     /\ UNCHANGED <<zmap, zone, ptr, lost>>

(* The next pointer: a block to free, or a block of pointers to read first.  When that
   bread fails the block is freed without what is behind it. *)
FreeNext(p) ==
  LET fr == Top(p)
      k == Min(Left(p, fr))
      b == Pointers(p, fr)[k]
  IN
  /\ At(p, "free") /\ Left(p, fr) # {}
  /\ \/ FreeBlock(p, b, fr, k, Len(job[p].stack), Behind(b))
     \/ /\ Below(fr, k) > 0
        /\ job' = [job EXCEPT ![p].stack = Append([@ EXCEPT ![Len(@)].k = k], Frame(b, Below(fr, k)))]
        /\ UNCHANGED <<zmap, zone, ptr, lost>>
  /\ UNCHANGED <<data, size, calls, noted>>

(* A block of pointers is through: it is freed itself, unless one of its own was busy. *)
KeepNever(fr) == FALSE
Keep(fr) == fr.busy

FreeSelf(p) ==
  LET d == Len(job[p].stack)
      fr == Top(p)
      up == job[p].stack[d - 1]
  IN
  /\ At(p, "free") /\ Left(p, fr) = {} /\ d > 1
  /\ \/ ~Keep(fr) /\ FreeBlock(p, fr.b, up, up.k, d - 1, {})
     \/ /\ Keep(fr)
        /\ SetTop(p, [up EXCEPT !.k = @ + 1, !.busy = TRUE], d - 1)
        /\ UNCHANGED <<zmap, zone, ptr, lost>>
  /\ UNCHANGED <<data, size, calls, noted>>

(* All is free, or once more for what was busy. *)
TruncateEnd(p) ==
  /\ At(p, "free") /\ Len(job[p].stack) = 1 /\ Left(p, Top(p)) = {}
  /\ \/ /\ ~Top(p).busy
        /\ size' = [size EXCEPT ![job[p].f] = 0]
        /\ Return(p)
     \/ /\ Top(p).busy
        /\ job' = [job EXCEPT ![p].stack = <<Frame(NULL, 3)>>]
        /\ UNCHANGED size
  /\ UNCHANGED <<tree, calls, noted>>

Step(p) == \/ Bmap(p) \/ NewBlock(p) \/ BmapRead(p) \/ ReadWrite(p) \/ Copied(p)
           \/ FreeNext(p) \/ FreeSelf(p) \/ TruncateEnd(p)

Stopped == panicked \/ mixed

AtRest == Stopped \/ (calls = MaxCalls /\ \A p \in Proc : At(p, "out"))

Next == \/ ~Stopped /\ \E p \in Proc, f \in File :
             \/ \E op \in {"read", "write"}, n \in Number : Start(p, op, f, n)
             \/ Truncate(p, f)
        \/ ~Stopped /\ \E p \in Proc : Step(p)
        \/ AtRest /\ UNCHANGED vars

(* Every process in the kernel gets to run; the others may hold a block each time a
   truncate looks at it, but not for ever. *)
Fairness == \A p \in Proc : WF_vars(~Stopped /\ Step(p))

Spec == Init /\ [][Next]_vars

FairSpec == Spec /\ Fairness

-----------------------------------------------------------------------------
(* The pointers that lead to block b: <<file, k>> of an inode, or <<block, k>> of a block
   of pointers that is reached itself. *)
Roots == {r \in File \X (1..(DIRECT + 2)) : zone[r[1]][r[2]] # NULL}
Single == {zone[r[1]][r[2]] : r \in {r \in Roots : r[2] = DIRECT + 1}}
Double == {zone[r[1]][r[2]] : r \in {r \in Roots : r[2] = DIRECT + 2}}
Inner == (Single \cup Double \cup {ptr[b][k] : b \in Double, k \in 1..PER}) \ {NULL}
References(b) == Cardinality({r \in Roots : zone[r[1]][r[2]] = b})
                 + Cardinality({r \in Inner \X (1..PER) : ptr[r[1]][r[2]] = b})

(* Every block has its one place: what a file refers to is in use and referred to only
   once, and what is in use belongs to a file, or to a process that is about to put it
   into one, or is lost: it was behind a block of pointers that truncate could not read, or
   another writer has put its own block over it.  Writers, readers and truncates of all
   files work on it at the same time; until a file is truncated that somebody else
   writes or truncates, which the code does not prevent. *)
BlocksExact ==
  ~mixed =>
    \A b \in Block :
      /\ References(b) <= 1
      /\ References(b) = 1 => b \in zmap /\ b \notin lost
      /\ b \in zmap => References(b) = 1 \/ b \in lost \/ \E p \in Proc : job[p].new = b

(* truncate gets to its end, however often it finds a block busy; unless the kernel panics,
   or somebody else changes the file at the same time: two truncates of one file can find
   each other's buffer of its block of pointers again and again. *)
TruncateEnds == \A p \in Proc : job[p].op = "truncate" ~> job[p].op # "truncate" \/ Stopped

(***************************************************************************)
(* Why every block has its one place: the inductive invariant of the       *)
(* proofs.                                                                 *)
(***************************************************************************)
Pointed == Block \cup {NULL}
Frames == [b : Pointed, k : Nat \ {0}, busy : BOOLEAN, below : 0..3]
Job == [op : {"out", "read", "write", "truncate"},
        at : {"out", "bmap", "getblk", "bread", "data", "copy", "free"},
        f : File \cup {0}, n : Number \cup {0}, level : 0..3, nr : Pointed, bh : Pointed,
        new : Pointed, stack : Seq(Frames)]

TypeOK ==
  /\ zmap \subseteq Block /\ data \subseteq Block /\ lost \subseteq Block
  /\ zone \in [File -> [1..(DIRECT + 2) -> Pointed]]
  /\ ptr \in [Block -> [1..PER -> Pointed]]
  /\ size \in [File -> Nat] /\ job \in [Proc -> Job] /\ calls \in Nat
  /\ panicked \in BOOLEAN /\ mixed \in BOOLEAN

Referenced(b) == \/ \E f \in File, k \in 1..(DIRECT + 2) : zone[f][k] = b
                 \/ \E c \in Inner, k \in 1..PER : ptr[c][k] = b

(* No two pointers lead to one block. *)
Unique ==
  /\ \A f, g \in File, k, l \in 1..(DIRECT + 2) :
       zone[f][k] = zone[g][l] /\ zone[f][k] # NULL => f = g /\ k = l
  /\ \A f \in File, k \in 1..(DIRECT + 2), c \in Inner, l \in 1..PER :
       zone[f][k] # NULL => zone[f][k] # ptr[c][l]
  /\ \A c, d \in Inner, k, l \in 1..PER :
       ptr[c][k] = ptr[d][l] /\ ptr[c][k] # NULL => c = d /\ k = l

(* None leads to a block that is free or lost, and only blocks of pointers lead on. *)
TreeFits == /\ Unique
            /\ \A b \in Block : Referenced(b) => b \in zmap /\ b \notin lost
            /\ \A b \in Block : Referenced(b) /\ b \notin Inner => Children(b) = {}
            /\ \A b \in zmap : Referenced(b) \/ b \in lost \/ \E p \in Proc : job[p].new = b
LostFits == lost \subseteq zmap /\ \A b \in lost : Children(b) \subseteq lost

(* Block b is one of pointers of file f, with d levels of blocks below it. *)
Reaches(f, d, b) ==
  /\ b # NULL
  /\ \/ d = 2 /\ b = zone[f][DIRECT + 2]
     \/ d = 1 /\ \/ b = zone[f][DIRECT + 1]
                 \/ zone[f][DIRECT + 2] # NULL /\ \E k \in 1..PER : b = ptr[zone[f][DIRECT + 2]][k]

(* What a writer holds, or is about to read, is on its way in the file or lost; a reader
   may have come to any block. *)
Walking == {"bmap", "getblk", "bread", "data", "copy"}
WriterFits(j) ==
  j.op = "write" =>
    /\ j.at \in {"bmap", "getblk"} /\ j.level > 1 => j.bh \in lost \/ Reaches(j.f, Len(Way(j.n)) - j.level + 1, j.bh)
    /\ j.at = "bread" => j.nr \in lost \/ Reaches(j.f, Len(Way(j.n)) - j.level, j.nr)
WalkFits(j) ==
  j.at \in Walking =>
    /\ j.op \in {"read", "write"} /\ j.f \in File /\ j.n \in Number /\ j.stack = <<>>
    /\ j.level \in 1..Len(Way(j.n))
    /\ j.at \in {"bmap", "getblk"} => j.nr = NULL /\ IF j.level = 1 THEN j.bh = NULL ELSE j.bh \in Block
    /\ j.at = "getblk" => j.op = "write"
    /\ j.at \in {"bread", "data"} => j.bh = NULL /\ j.nr \in Block
    /\ j.at = "bread" => j.level < Len(Way(j.n))
    /\ j.at = "copy" => j.nr = NULL /\ j.bh \in Block
NewFits(j) == /\ j.at = "getblk" <=> j.new # NULL
              /\ j.new # NULL => j.new \in zmap /\ j.new \notin lost /\ ~Referenced(j.new)

(* The blocks truncate holds lead from one to the next, and what it has left behind it
   in one of them was busy. *)
Passed(p, fr) ==
  \A k \in DOMAIN Pointers(p, fr) : k < fr.k /\ Pointers(p, fr)[k] # NULL => fr.busy
StackFits(p) ==
  At(p, "free") =>
    LET j == job[p]
        s == j.stack
    IN
    /\ j.op = "truncate" /\ j.f \in File /\ j.nr = NULL /\ j.bh = NULL
    /\ Len(s) \in 1..3 /\ s[1].b = NULL
    /\ Len(s) > 1 => /\ s[1].k \in {DIRECT + 1, DIRECT + 2} /\ s[2].below = s[1].k - DIRECT
                     /\ s[2].b # NULL /\ s[2].b = zone[j.f][s[1].k]
    /\ Len(s) > 2 => /\ s[2].k \in 1..PER /\ s[2].below = 2 /\ s[3].below = 1
                     /\ s[3].b # NULL /\ s[3].b = ptr[s[2].b][s[2].k]
    /\ \A i \in 1..Len(s) : Passed(p, s[i])

JobFits(p) == /\ At(p, "out") => job[p] = Out
              /\ WalkFits(job[p]) /\ WriterFits(job[p]) /\ NewFits(job[p]) /\ StackFits(p)

(* No two allocate one block, and a truncate has its file for itself, readers aside. *)
Apart(p, q) ==
  /\ job[p].new # NULL => job[p].new # job[q].new
  /\ job[p].op = "truncate" => /\ ~Changing(q, "write", job[p].f)
                               /\ ~Changing(q, "truncate", job[p].f)

Fits == /\ TreeFits /\ LostFits
        /\ \A p \in Proc : JobFits(p)
        /\ \A p, q \in Proc : p # q => Apart(p, q)

IInv == TypeOK /\ (~mixed => Fits)
=============================================================================
