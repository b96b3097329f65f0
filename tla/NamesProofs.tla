----------------------------- MODULE NamesProofs ------------------------------
(***************************************************************************)
(* Theorems about Names, for any number of processes, inodes, names and    *)
(* calls: every call puts the references it takes, whichever way it ends;  *)
(* links and entries agree, and the directories are a tree.                *)
(***************************************************************************)
EXTENDS Names, TLAPS, FiniteSetTheorems, WellFoundedInduction

(***************************************************************************)
(* Counting references.                                                    *)
(***************************************************************************)
One(x, i) == IF x = i THEN 1 ELSE 0
OfCall(j, i) ==
  One(j.dir, i) + One(j.dir2, i) + One(j.inode, i) + One(j.inode2, i) + One(j.up, i)

LEMMA OfCallType == \A j, i : OfCall(j, i) \in Nat
PROOF BY DEF OfCall, One

Fs(F, j, i) == {f \in F : j[f] = i}

LEMMA CountField ==
  ASSUME NEW F, IsFiniteSet(F), NEW g, g \notin F, NEW j, NEW i
  PROVE  Cardinality(Fs(F \cup {g}, j, i)) = Cardinality(Fs(F, j, i)) + One(j[g], i)
PROOF
<1>1. IsFiniteSet(Fs(F, j, i)) /\ Cardinality(Fs(F, j, i)) \in Nat
  BY FS_Subset, FS_CardinalityType DEF Fs
<1>2. CASE j[g] = i
  <2>1. Fs(F \cup {g}, j, i) = Fs(F, j, i) \cup {g} /\ g \notin Fs(F, j, i)  BY <1>2 DEF Fs
  <2>2. QED  BY <1>1, <1>2, <2>1, FS_AddElement DEF One
<1>3. CASE j[g] # i
  <2>1. Fs(F \cup {g}, j, i) = Fs(F, j, i)  BY <1>3 DEF Fs
  <2>2. QED  BY <1>1, <1>3, <2>1 DEF One
<1>4. QED  BY <1>2, <1>3

(* What Put takes off the counts. *)
LEMMA CountOne == ASSUME NEW j, NEW i, NEW g PROVE Cardinality(Fs({g}, j, i)) = One(j[g], i)
PROOF
<1>1. Fs({g}, j, i) = IF j[g] = i THEN {g} ELSE {}  BY DEF Fs
<1>2. QED  BY <1>1, FS_Singleton, FS_EmptySet DEF One

LEMMA CountTwo ==
  ASSUME NEW j, NEW i
  PROVE  Cardinality(Fs({"inode", "inode2"}, j, i)) = One(j.inode, i) + One(j.inode2, i)
PROOF
<1>1. {"inode", "inode2"} = {"inode"} \cup {"inode2"} /\ "inode2" \notin {"inode"}  OBVIOUS
<1>2. IsFiniteSet({"inode"})  BY FS_Singleton
<1> DEFINE F == {"inode"}
<1>3. Cardinality(Fs(F, j, i)) = One(j["inode"], i)  BY CountOne
<1>4. Cardinality(Fs(F \cup {"inode2"}, j, i)) = Cardinality(Fs(F, j, i)) + One(j["inode2"], i)
  <2> HIDE DEF F
  <2>1. "inode2" \notin F  BY <1>1 DEF F
  <2>2. IsFiniteSet(F)  BY <1>2 DEF F
  <2>3. QED  BY <2>1, <2>2, CountField
<1>5. QED  BY <1>1, <1>3, <1>4

LEMMA CountAll ==
  ASSUME NEW j, NEW i
  PROVE  IsFiniteSet(RefFields) /\ Cardinality(Fs(RefFields, j, i)) = OfCall(j, i)
PROOF
<1> DEFINE F1 == {"dir"}
           F2 == F1 \cup {"dir2"}
           F3 == F2 \cup {"inode"}
           F4 == F3 \cup {"inode2"}
           F5 == F4 \cup {"up"}
<1>1. /\ "dir2" \notin F1 /\ "inode" \notin F2 /\ "inode2" \notin F3 /\ "up" \notin F4
      /\ F5 = RefFields
  BY DEF RefFields
<1>2. IsFiniteSet(F1) /\ Cardinality(Fs(F1, j, i)) = One(j["dir"], i)  BY FS_Singleton, CountOne
<1> HIDE DEF F1
<1>3. IsFiniteSet(F2) /\ Cardinality(Fs(F2, j, i)) = Cardinality(Fs(F1, j, i)) + One(j["dir2"], i)
  BY <1>1, <1>2, CountField, FS_AddElement
<1> HIDE DEF F2
<1>4. IsFiniteSet(F3) /\ Cardinality(Fs(F3, j, i)) = Cardinality(Fs(F2, j, i)) + One(j["inode"], i)
  BY <1>1, <1>3, CountField, FS_AddElement
<1> HIDE DEF F3
<1>5. IsFiniteSet(F4) /\ Cardinality(Fs(F4, j, i)) = Cardinality(Fs(F3, j, i)) + One(j["inode2"], i)
  BY <1>1, <1>4, CountField, FS_AddElement
<1> HIDE DEF F4
<1>6. IsFiniteSet(F5) /\ Cardinality(Fs(F5, j, i)) = Cardinality(Fs(F4, j, i)) + One(j["up"], i)
  BY <1>1, <1>5, CountField, FS_AddElement
<1> HIDE DEF F5
<1>7. QED  BY <1>1, <1>2, <1>3, <1>4, <1>5, <1>6 DEF OfCall

LEMMA HeldChanges ==
  ASSUME job \in [Proc -> Job], NEW p \in Proc, NEW r \in Job, job' = [job EXCEPT ![p] = r],
         NEW i \in Ino
  PROVE  /\ Cardinality(Held(i)') = Cardinality(Held(i)) + OfCall(r, i) - OfCall(job[p], i)
         /\ Cardinality(Held(i)) \in Nat /\ Cardinality(Held(i)') \in Nat
PROOF
<1> DEFINE Others == {h \in Held(i) : h[1] # p}
           Mine(j) == {p} \X Fs(RefFields, j, i)
<1>1. IsFiniteSet(RefFields)  BY CountAll
<1>2. ASSUME NEW j
      PROVE  IsFiniteSet(Mine(j)) /\ Cardinality(Mine(j)) = OfCall(j, i)
  <2>1. IsFiniteSet(Fs(RefFields, j, i))  BY <1>1, FS_Subset DEF Fs
  <2>2. IsFiniteSet({p}) /\ Cardinality({p}) = 1  BY FS_Singleton
  <2>3. Cardinality(Fs(RefFields, j, i)) = OfCall(j, i) /\ OfCall(j, i) \in Nat
    BY CountAll, OfCallType
  <2>4. /\ IsFiniteSet({p} \X Fs(RefFields, j, i))
        /\ Cardinality({p} \X Fs(RefFields, j, i)) = 1 * Cardinality(Fs(RefFields, j, i))
    BY <2>1, <2>2, FS_Product
  <2>5. QED  BY <2>3, <2>4
<1>3. IsFiniteSet(Proc \X RefFields)  BY <1>1, FS_Product, NamesAssumption
<1>4. IsFiniteSet(Others) /\ IsFiniteSet(Held(i)) /\ IsFiniteSet(Held(i)')
  BY <1>3, FS_Subset DEF Held
<1>5. Held(i) = Others \cup Mine(job[p]) /\ Others \cap Mine(job[p]) = {}  BY DEF Held, Fs
<1>6. Held(i)' = Others \cup Mine(r) /\ Others \cap Mine(r) = {}  BY DEF Held, Fs
<1> HIDE DEF Others, Mine
<1>7. ASSUME NEW j, Others \cap Mine(j) = {}
      PROVE  Cardinality(Others \cup Mine(j)) = Cardinality(Others) + OfCall(j, i)
  <2>1. Cardinality(Others \cup Mine(j))
          = Cardinality(Others) + Cardinality(Mine(j)) - Cardinality({})
    BY <1>2, <1>4, <1>7, FS_Union
  <2>2. Cardinality(Others) \in Nat /\ Cardinality(Mine(j)) \in Nat /\ Cardinality({}) = 0
    BY <1>2, <1>4, FS_CardinalityType, FS_EmptySet
  <2>3. QED  BY <1>2, <2>1, <2>2
<1>8. Cardinality(Held(i)) \in Nat /\ Cardinality(Held(i)') \in Nat /\ Cardinality(Others) \in Nat
  BY <1>4, FS_CardinalityType
<1>9. OfCall(r, i) \in Nat /\ OfCall(job[p], i) \in Nat  BY OfCallType
<1>10. /\ Cardinality(Held(i)) = Cardinality(Others) + OfCall(job[p], i)
       /\ Cardinality(Held(i)') = Cardinality(Others) + OfCall(r, i)
  BY <1>5, <1>6, <1>7
<1>11. QED  BY <1>8, <1>9, <1>10

LEMMA OpenedChanges ==
  ASSUME open \in [Proc -> Ref], NEW p \in Proc, NEW o, open' = [open EXCEPT ![p] = o],
         NEW i \in Ino
  PROVE  /\ Cardinality(Opened(i)') = Cardinality(Opened(i)) + One(o, i) - One(open[p], i)
         /\ Cardinality(Opened(i)) \in Nat /\ Cardinality(Opened(i)') \in Nat
PROOF
<1> DEFINE Others == {q \in Proc \ {p} : open[q] = i}
<1>1. IsFiniteSet(Others) /\ IsFiniteSet(Opened(i)) /\ IsFiniteSet(Opened(i)')
  BY FS_Subset, NamesAssumption DEF Opened
<1>2. /\ Opened(i) = IF open[p] = i THEN Others \cup {p} ELSE Others
      /\ Opened(i)' = IF o = i THEN Others \cup {p} ELSE Others
      /\ p \notin Others
  BY DEF Opened
<1> HIDE DEF Others
<1>3. Cardinality(Others \cup {p}) = Cardinality(Others) + 1  BY <1>1, <1>2, FS_AddElement
<1>4. Cardinality(Others) \in Nat /\ Cardinality(Opened(i)) \in Nat /\ Cardinality(Opened(i)') \in Nat
  BY <1>1, FS_CardinalityType
<1>5. QED  BY <1>2, <1>3, <1>4 DEF One

(***************************************************************************)
(* The step of a call.                                                     *)
(***************************************************************************)
Kinds == {"free", "file", "dir", "link"}
Counts == [Ino -> Int]

(* p's call goes from j to r and takes and puts what makes the difference. *)
Moves(p, r, o) ==
  /\ r \in Job /\ o \in Ref /\ CallFits(r) /\ Holds(r)
  /\ r.op \in {"open", "creat"} => o = NULL
  /\ job' = [job EXCEPT ![p] = r] /\ open' = [open EXCEPT ![p] = o]
  /\ count' \in Counts
  /\ \A i \in Ino : count'[i] = count[i] + OfCall(r, i) - OfCall(job[p], i)
                                         + One(o, i) - One(open[p], i)
  /\ FsTyped' /\ lock' \in Proc \cup {NoProc} /\ calls' \in 0..MaxCalls

LEMMA MovesFit ==
  ASSUME IInv, NEW p \in Proc, NEW r, NEW o, Moves(p, r, o)
  PROVE  IInv'
PROOF
<1> TypeOK /\ CallsFit  BY DEF IInv, RefsBalanced
<1>1. TypeOK'  BY DEF Moves, TypeOK, Counts
<1>2. ASSUME NEW i \in Ino
      PROVE  count'[i] = (IF i = ROOT THEN 1 ELSE 0)
                           + Cardinality(Held(i)') + Cardinality(Opened(i)')
  <2>1. /\ Cardinality(Held(i)') = Cardinality(Held(i)) + OfCall(r, i) - OfCall(job[p], i)
        /\ Cardinality(Held(i)) \in Nat /\ Cardinality(Held(i)') \in Nat
    BY HeldChanges DEF Moves, TypeOK
  <2>2. /\ Cardinality(Opened(i)') = Cardinality(Opened(i)) + One(o, i) - One(open[p], i)
        /\ Cardinality(Opened(i)) \in Nat /\ Cardinality(Opened(i)') \in Nat
    BY OpenedChanges DEF Moves, TypeOK
  <2>3. OfCall(r, i) \in Nat /\ OfCall(job[p], i) \in Nat  BY OfCallType
  <2>4. One(o, i) \in Nat /\ One(open[p], i) \in Nat  BY DEF One
  <2>5. count'[i] = count[i] + OfCall(r, i) - OfCall(job[p], i) + One(o, i) - One(open[p], i)
    BY DEF Moves
  <2>6. count[i] = (IF i = ROOT THEN 1 ELSE 0) + Cardinality(Held(i)) + Cardinality(Opened(i))
    BY DEF IInv, RefsBalanced
  <2>7. QED  BY <2>1, <2>2, <2>3, <2>4, <2>5, <2>6
<1>3. CallsFit'  BY DEF Moves, CallsFit, TypeOK
<1>4. QED  BY <1>1, <1>2, <1>3 DEF IInv, RefsBalanced

LEMMA PutOf ==
  ASSUME NEW c \in Counts, NEW j
  PROVE  /\ \A F \in {{"dir"}, {"up"}, {"inode", "inode2"}, RefFields} : Put(c, j, F) \in Counts
         /\ \A i \in Ino : /\ Put(c, j, {"dir"})[i] = c[i] - One(j.dir, i)
                           /\ Put(c, j, {"up"})[i] = c[i] - One(j.up, i)
                           /\ Put(c, j, {"inode", "inode2"})[i]
                                = c[i] - One(j.inode, i) - One(j.inode2, i)
                           /\ Put(c, j, RefFields)[i] = c[i] - OfCall(j, i)
PROOF
<1>1. \A F, i : i \in Ino => Put(c, j, F)[i] = c[i] - Cardinality(Fs(F, j, i))  BY DEF Put, Fs
<1>2. \A F : Put(c, j, F) = [i \in Ino |-> c[i] - Cardinality(Fs(F, j, i))]  BY DEF Put, Fs
<1>3. ASSUME NEW i \in Ino
      PROVE  /\ Cardinality(Fs({"dir"}, j, i)) = One(j.dir, i)
             /\ Cardinality(Fs({"up"}, j, i)) = One(j.up, i)
             /\ Cardinality(Fs({"inode", "inode2"}, j, i)) = One(j.inode, i) + One(j.inode2, i)
             /\ Cardinality(Fs(RefFields, j, i)) = OfCall(j, i)
  BY CountOne, CountTwo, CountAll
<1>4. \A x, i : One(x, i) \in Nat  BY DEF One
<1>5. \A i \in Ino : c[i] \in Int /\ OfCall(j, i) \in Nat  BY OfCallType DEF Counts
<1>6. ASSUME NEW F \in {{"dir"}, {"up"}, {"inode", "inode2"}, RefFields}
      PROVE  Put(c, j, F) \in Counts
  <2>1. ASSUME NEW i \in Ino PROVE Cardinality(Fs(F, j, i)) \in Int
    <3>1. One(j.inode, i) + One(j.inode2, i) \in Int /\ One(j.dir, i) \in Int /\ One(j.up, i) \in Int
      BY <1>4
    <3>2. QED  BY <1>3, <1>5, <3>1
  <2>2. QED  BY <1>2, <1>5, <2>1 DEF Counts
<1>7. QED  BY <1>1, <1>3, <1>4, <1>5, <1>6

LEMMA FreedType ==
  ASSUME NEW c, NEW n, NEW k \in [Ino -> Kinds] PROVE Freed(c, n, k) \in [Ino -> Kinds]
PROOF BY DEF Freed, Kinds

LEMMA IgetOf ==
  ASSUME count \in Counts, NEW i \in Ino
  PROVE  Iget(i) \in Counts /\ \A n \in Ino : Iget(i)[n] = count[n] + One(i, n)
PROOF BY DEF Iget, Counts, One

LEMMA OutFits == Out \in Job /\ CallFits(Out) /\ Holds(Out) /\ \A i \in Ino : OfCall(Out, i) = 0
PROOF
<1>1. Out \in Job
  <2>1. <<>> \in Seq(Component)  OBVIOUS
  <2>2. QED  BY <2>1 DEF Out, Job, Locations, Ref, NULL
<1>2. CallFits(Out)  BY DEF CallFits, Out, Where, Renaming, Walking, NULL
<1>3. Holds(Out)  BY DEF Holds, Out, Renaming, Walking, NULL
<1>4. \A i \in Ino : OfCall(Out, i) = 0  BY DEF OfCall, One, Out, Ino, NULL
<1>5. QED  BY <1>1, <1>2, <1>3, <1>4

(* A call that ends has put all it held. *)
LEMMA ReturnFits ==
  ASSUME IInv, NEW p \in Proc, NEW n \in [Ino -> Int], NEW k \in [Ino -> Kinds],
         Return(p, n, k), entry' \in [Ino -> [Slot -> Entry]], parent' \in [Ino -> Ino],
         target' = target, open' = open, calls' = calls
  PROVE  IInv'
PROOF
<1>1. TypeOK  BY DEF IInv, RefsBalanced
<1>2. count \in Counts /\ count' = Put(count, job[p], RefFields)  BY <1>1 DEF TypeOK, Counts, Return
<1>3. count' \in Counts /\ \A i \in Ino : count'[i] = count[i] - OfCall(job[p], i)
  <2>1. /\ Put(count, job[p], RefFields) \in Counts
        /\ \A i \in Ino : Put(count, job[p], RefFields)[i] = count[i] - OfCall(job[p], i)
    BY <1>2, PutOf
  <2>2. QED  BY <1>2, <2>1
<1>4. open' = [open EXCEPT ![p] = open[p]] /\ open[p] \in Ref  BY <1>1 DEF TypeOK
<1>5. FsTyped'
  <2>1. kind' \in [Ino -> Kinds]  BY FreedType DEF Return
  <2>2. QED  BY <1>1, <2>1 DEF FsTyped, TypeOK, Return, Kinds
<1>6. Moves(p, Out, open[p])
  <2>1. \A i \in Ino : /\ OfCall(Out, i) = 0 /\ OfCall(job[p], i) \in Nat /\ count[i] \in Int
                       /\ One(open[p], i) \in Nat
    BY <1>2, OutFits, OfCallType DEF Counts, One
  <2>2. \A i \in Ino : count'[i] = count[i] + OfCall(Out, i) - OfCall(job[p], i)
                                            + One(open[p], i) - One(open[p], i)
    BY <1>3, <2>1
  <2>3. lock' \in Proc \cup {NoProc} /\ calls' \in 0..MaxCalls  BY <1>1 DEF TypeOK, Return
  <2>4. Out.op = "out"  BY DEF Out
  <2>5. job' = [job EXCEPT ![p] = Out]  BY DEF Return
  <2>6. QED  BY <1>3, <1>4, <1>5, <2>2, <2>3, <2>4, <2>5, OutFits DEF Moves
<1>7. QED  BY <1>6, MovesFit

LEMMA FailFits == ASSUME IInv, NEW p \in Proc, Fail(p) PROVE IInv'
PROOF
<1>1. FsTyped  BY DEF IInv, RefsBalanced, TypeOK
<1>2. QED  BY <1>1, ReturnFits DEF Fail, FsTyped, Kinds

LEMMA SetFits ==
  ASSUME NEW n \in [Ino -> Int], NEW x, NEW v \in Int PROVE [n EXCEPT ![x] = v] \in [Ino -> Int]
PROOF OBVIOUS

LEMMA FailNewFits == ASSUME IInv, NEW p \in Proc, FailNew(p) PROVE IInv'
PROOF
<1>1. FsTyped  BY DEF IInv, RefsBalanced, TypeOK
<1>2. [nlink EXCEPT ![job[p].inode] = 0] \in [Ino -> Int]
  <2>1. nlink \in [Ino -> Int]  BY <1>1 DEF FsTyped
  <2>2. QED  BY <2>1, SetFits
<1>3. QED  BY <1>1, <1>2, ReturnFits DEF FailNew, FsTyped, Kinds

LEMMA CallOf ==
  ASSUME IInv, NEW p \in Proc
  PROVE  /\ TypeOK /\ job[p] \in Job /\ CallFits(job[p]) /\ Holds(job[p])
         /\ open[p] \in Ref /\ (job[p].op \in {"open", "creat"} => open[p] = NULL)
PROOF BY DEF IInv, RefsBalanced, TypeOK, CallsFit

SameRefs(j, r) == /\ r.dir = j.dir /\ r.dir2 = j.dir2 /\ r.inode = j.inode
                  /\ r.inode2 = j.inode2 /\ r.up = j.up

(* The call goes on and holds what it held. *)
LEMMA GoesOn ==
  ASSUME IInv, NEW p \in Proc, NEW r \in Job, CallFits(r), Holds(r), SameRefs(job[p], r),
         r.op = job[p].op, job' = [job EXCEPT ![p] = r], count' = count, open' = open,
         FsTyped', lock' \in Proc \cup {NoProc}, calls' = calls
  PROVE  IInv'
PROOF
<1>1. /\ TypeOK /\ job[p] \in Job /\ open[p] \in Ref
      /\ (job[p].op \in {"open", "creat"} => open[p] = NULL)
  BY CallOf
<1>2. ASSUME NEW i \in Ino
      PROVE  count'[i] = count[i] + OfCall(r, i) - OfCall(job[p], i) + One(open[p], i) - One(open[p], i)
  <2>1. OfCall(r, i) = OfCall(job[p], i)  BY DEF OfCall, SameRefs
  <2>2. count[i] \in Int /\ OfCall(r, i) \in Nat /\ One(open[p], i) \in Nat
    BY <1>1, OfCallType DEF TypeOK, One
  <2>3. QED  BY <2>1, <2>2
<1>3. open' = [open EXCEPT ![p] = open[p]] /\ count' \in Counts /\ calls' \in 0..MaxCalls
  BY <1>1 DEF TypeOK, Counts
<1>4. Moves(p, r, open[p])  BY <1>1, <1>2, <1>3 DEF Moves
<1>5. QED  BY <1>4, MovesFit

LEMMA GoesTo ==
  ASSUME IInv, NEW p \in Proc, NEW l \in Locations, Goto(p, l),
         CallFits([job[p] EXCEPT !.at = l]), Holds([job[p] EXCEPT !.at = l]),
         count' = count, open' = open, FsTyped', lock' \in Proc \cup {NoProc}, calls' = calls
  PROVE  IInv'
PROOF
<1> DEFINE r == [job[p] EXCEPT !.at = l]
<1>1. job[p] \in Job  BY CallOf
<1>2. r \in Job /\ SameRefs(job[p], r) /\ r.op = job[p].op  BY <1>1 DEF Job, SameRefs
<1>3. job' = [job EXCEPT ![p] = r]  BY DEF Goto
<1> HIDE DEF r
<1>4. CallFits(r) /\ Holds(r)  BY DEF r
<1>5. QED  BY <1>2, <1>3, <1>4, GoesOn

LEMMA FsStays ==
  ASSUME TypeOK, UNCHANGED fs PROVE FsTyped'
PROOF BY DEF TypeOK, FsTyped, fs

(***************************************************************************)
(* The walk.                                                               *)
(***************************************************************************)
LEMMA Places ==
  \A l \in {"walk", "iget", "lookup", "opened", "find", "new", "block", "add", "linked", "entry",
            "remove", "rmdir", "lock", "old", "old_iget", "new_name", "new_iget", "check", "subdir",
            "sanity"} : l \in Locations
PROOF BY DEF Locations

LEMMA StartStep ==
  ASSUME IInv, NEW p \in Proc, NEW op \in Op, NEW path \in Path, NEW name \in Name,
         NEW path2 \in SecondPath(op), NEW name2 \in SecondName(op),
         Start(p, op, path, name, path2, name2)
  PROVE  IInv'
PROOF
<1> DEFINE path1 == IF op = "link" THEN Append(path, name) ELSE path
           g == IF op = "link" THEN "inode" ELSE "dir"
           r == [Out EXCEPT !.op = op, !.at = "walk", !.name = name, !.name2 = name2, !.dir = ROOT,
                   !.path = path1, !.goal = g, !.then = path2]
<1>1. TypeOK /\ job[p] = Out /\ open[p] \in Ref /\ (op \in {"open", "creat"} => open[p] = NULL)
  BY CallOf DEF Start
<1>2. /\ path1 \in Seq(Component) /\ path2 \in Seq(Component) /\ name2 \in Name \cup {""}
      /\ ROOT \in Ref
  <2>1. path \in Seq(Component)  BY PathsAssumption
  <2>2. path2 \in Seq(Component)
    <3>1. <<>> \in Seq(Component)  OBVIOUS
    <3>2. QED  BY <3>1, PathsAssumption DEF SecondPath
  <2>3. name2 \in Name \cup {""}  BY DEF SecondName
  <2>4. name \in Component  BY DEF Component
  <2>5. Append(path, name) \in Seq(Component)  BY <2>1, <2>4
  <2>6. ROOT \in Ref  BY NamesAssumption DEF ROOT, Ino, Ref
  <2>7. QED  BY <2>1, <2>2, <2>3, <2>5, <2>6
<1>3. g \in {"", "dir", "inode", "dir2", "file"} /\ (g = "inode" <=> op = "link") /\ g \in {"dir", "inode"}
  OBVIOUS
<1>4. op \in Op /\ op \in {"open", "creat", "mknod", "mkdir", "symlink", "link", "unlink", "rmdir",
                           "rename", "readlink"}
  BY NamesAssumption
<1> HIDE DEF path1, g
<1>5. r \in Job
  BY <1>2, <1>3, OutFits, Places DEF Job
<1>6. CallFits(r) /\ Holds(r)
  <2>1. /\ r.op = op /\ r.at = "walk" /\ r.goal = g /\ r.path = path1 /\ r.dir = ROOT
        /\ r.dir2 = NULL /\ r.inode = NULL /\ r.inode2 = NULL /\ r.up = NULL
        /\ r.slot = NULL /\ r.slot2 = NULL /\ r.ino = NULL
    BY DEF Out
  <2> HIDE DEF r
  <2>2. CallFits(r)
    BY <1>3, <1>4, <2>1 DEF CallFits, Where, Renaming, Walking, NULL
  <2>3. Holds(r)
    <3>1. ROOT # NULL  BY DEF ROOT, NULL
    <3>2. QED  BY <1>3, <1>4, <2>1, <3>1 DEF Holds, Renaming, Walking
  <2>4. QED  BY <2>2, <2>3
<1>7. \A i \in Ino : OfCall(r, i) = One(ROOT, i)
  BY DEF OfCall, Out, One, NULL, Ino
<1>8. count \in Counts /\ count' = Iget(ROOT)  BY <1>1 DEF TypeOK, Counts, Start
<1>9. count' \in Counts /\ \A i \in Ino : count'[i] = count[i] + One(ROOT, i)
  <2>1. ROOT \in Ino  BY NamesAssumption DEF ROOT, Ino
  <2>2. QED  BY <1>8, <2>1, IgetOf
<1>10. job' = [job EXCEPT ![p] = r]  BY DEF Start, path1, g
<1>11. open' = [open EXCEPT ![p] = open[p]] /\ r.op = op
  BY <1>1 DEF Start, TypeOK, Out
<1> HIDE DEF r
<1>12. FsTyped' /\ lock' \in Proc \cup {NoProc}
  BY <1>1, FsStays DEF Start, TypeOK
<1>13. calls' \in 0..MaxCalls  BY <1>1, NamesAssumption DEF Start, TypeOK
<1>14. ASSUME NEW i \in Ino
       PROVE  count'[i] = count[i] + OfCall(r, i) - OfCall(job[p], i) + One(open[p], i) - One(open[p], i)
  BY <1>1, <1>7, <1>8, <1>9, OutFits DEF One, Counts
<1>15. Moves(p, r, open[p])
  BY <1>1, <1>5, <1>6, <1>9, <1>10, <1>11, <1>12, <1>13, <1>14 DEF Moves
<1>16. QED  BY <1>15, MovesFit

LEMMA LeastExists ==
  ASSUME NEW S \in SUBSET Nat, S # {}
  PROVE  \E i \in S : \A j \in S : i <= j
PROOF
<1> DEFINE R == {ij \in Nat \X Nat : ij[1] < ij[2]}
<1>1. IsWellFoundedOn(R, Nat)  BY NatLessThanWellFounded DEF OpToRel
<1>2. PICK i \in S : \A j \in S : <<j, i>> \notin R
  <2> HIDE DEF R
  <2> QED  BY <1>1, WFMin
<1>3. \A j \in S : i <= j
  <2>1. SUFFICES ASSUME NEW j \in S PROVE i <= j  OBVIOUS
  <2>2. i \in Nat /\ j \in Nat /\ <<j, i>> \in Nat \X Nat  OBVIOUS
  <2>3. QED  BY <1>2, <2>2
<1>4. QED  BY <1>3

LEMMA MinExists ==
  ASSUME NEW S \in SUBSET Nat, S # {}
  PROVE  Min(S) \in S
PROOF
<1>1. \E x \in S : \A y \in S : x <= y  BY LeastExists
<1>2. QED  BY <1>1 DEF Min

LEMMA FoundIsEntry ==
  ASSUME FsTyped, NEW d \in Ino, NEW name, Find(d, name) # {}
  PROVE  Min(Find(d, name)) \in Slot /\ entry[d][Min(Find(d, name))].ino \in Ino
PROOF
<1>1. Find(d, name) \in SUBSET Nat  BY DEF Find, Slot
<1>2. Min(Find(d, name)) \in Find(d, name)  BY <1>1, MinExists
<1> DEFINE s == Min(Find(d, name))
<1>3. s \in Slot /\ entry[d][s].ino # NULL  BY <1>2 DEF Find
<1> HIDE DEF s
<1>4. entry[d][s].ino \in Ref  BY <1>3 DEF FsTyped, Entry
<1>5. QED  BY <1>3, <1>4 DEF Ref, s

LEMMA LookedUp ==
  ASSUME FsTyped, NEW d \in Ino, NEW name
  PROVE  LookUp(d, name) \subseteq Ino
PROOF
<1>1. InodeNamed(d, name) \subseteq Ino  BY FoundIsEntry DEF InodeNamed
<1>2. parent[d] \in Ino  BY DEF FsTyped
<1>3. QED  BY <1>1, <1>2 DEF LookUp

LEMMA RefIsIno == \A i \in Ref : i # NULL => i \in Ino
PROOF BY DEF Ref

LEMMA WalkStep ==
  ASSUME IInv, NEW p \in Proc, Walk(p)
  PROVE  IInv'
PROOF
<1>1. TypeOK /\ FsTyped  BY CallOf DEF TypeOK
<1>2. PICK j \in Job : j = job[p] /\ CallFits(j) /\ Holds(j)  BY CallOf
<1>3. j.at = "walk" /\ j.path # <<>>  BY <1>2 DEF Walk, At
<1>4. CASE Head(j.path) = EndOfLink /\ job' = [job EXCEPT ![p].path = Tail(@), ![p].depth = @ - 1]
             /\ UNCHANGED <<fs, count, open, lock, calls>>
  <2> DEFINE r == [j EXCEPT !.path = Tail(j.path), !.depth = j.depth - 1]
  <2>1. Tail(j.path) \in Seq(Component) /\ j.depth - 1 \in Int
    <3>1. j.path \in Seq(Component) /\ j.depth \in Int  BY DEF Job
    <3>2. QED  BY <1>3, <3>1
  <2>2. r \in Job /\ SameRefs(j, r) /\ r.op = j.op  BY <2>1 DEF Job, SameRefs
  <2>3. CallFits(r) /\ Holds(r)
    BY <1>2, <1>3 DEF CallFits, Holds, Renaming, Walking, Job, Where
  <2>4. job' = [job EXCEPT ![p] = r]  BY <1>1, <1>2, <1>4 DEF TypeOK
  <2> HIDE DEF r
  <2>5. FsTyped' /\ lock' \in Proc \cup {NoProc}  BY <1>1, <1>4, FsStays DEF TypeOK
  <2>6. QED  BY <1>2, <1>4, <2>2, <2>3, <2>4, <2>5, GoesOn
<1>5. CASE \E i \in LookUp(j.dir, Head(j.path)) : job' = [job EXCEPT ![p].at = "iget", ![p].ino = i]
             /\ UNCHANGED <<fs, count, open, lock, calls>>
  <2>1. PICK i \in LookUp(j.dir, Head(j.path)) : job' = [job EXCEPT ![p].at = "iget", ![p].ino = i]
             /\ UNCHANGED <<fs, count, open, lock, calls>>
    BY <1>5
  <2> DEFINE r == [j EXCEPT !.at = "iget", !.ino = i]
  <2>2. j.dir \in Ino  BY <1>2, <1>3, RefIsIno DEF Holds, Job
  <2>3. i \in Ref /\ i # NULL
    <3>1. i \in Ino  BY <1>1, <2>2, LookedUp
    <3>2. QED  BY <3>1 DEF Ref, Ino, NULL
  <2>4. r \in Job /\ SameRefs(j, r) /\ r.op = j.op
    BY <2>3, Places DEF Job, SameRefs
  <2>5. CallFits(r) /\ Holds(r)
    BY <1>2, <1>3, <2>3 DEF CallFits, Holds, Renaming, Walking, Job, Where
  <2>6. job' = [job EXCEPT ![p] = r]  BY <1>1, <1>2, <2>1 DEF TypeOK
  <2> HIDE DEF r
  <2>7. FsTyped' /\ lock' \in Proc \cup {NoProc}  BY <1>1, <2>1, FsStays DEF TypeOK
  <2>8. QED  BY <1>2, <2>1, <2>4, <2>5, <2>6, <2>7, GoesOn
<1>6. CASE Fail(p)  BY <1>6, FailFits
<1>7. QED  BY <1>2, <1>4, <1>5, <1>6 DEF Walk

LEMMA KindChanges ==
  ASSUME FsTyped, kind' \in [Ino -> Kinds], UNCHANGED <<nlink, entry, parent, target>>
  PROVE  FsTyped'
PROOF BY DEF FsTyped, Kinds

(* The call gives up the reference dir for one to x. *)
LEMMA DirExchanged ==
  ASSUME IInv, NEW p \in Proc, NEW r \in Job, CallFits(r), Holds(r), NEW x \in Ino,
         r.dir = x, r.dir2 = job[p].dir2, r.inode = job[p].inode, r.inode2 = job[p].inode2,
         r.up = job[p].up, r.op = job[p].op,
         count' = Put(Iget(x), job[p], {"dir"}), kind' = Freed(count', nlink, kind),
         job' = [job EXCEPT ![p] = r], UNCHANGED <<nlink, entry, parent, target, open, lock, calls>>
  PROVE  IInv'
PROOF
<1>1. /\ TypeOK /\ FsTyped /\ open[p] \in Ref
      /\ (job[p].op \in {"open", "creat"} => open[p] = NULL)
  BY CallOf DEF TypeOK
<1>2. count \in Counts  BY <1>1 DEF TypeOK, Counts
<1>3. Iget(x) \in Counts /\ \A i \in Ino : Iget(x)[i] = count[i] + One(x, i)  BY <1>2, IgetOf
<1>4. /\ Put(Iget(x), job[p], {"dir"}) \in Counts
      /\ \A i \in Ino : Put(Iget(x), job[p], {"dir"})[i] = Iget(x)[i] - One(job[p].dir, i)
  BY <1>3, PutOf
<1>5. ASSUME NEW i \in Ino
      PROVE  count'[i] = count[i] + OfCall(r, i) - OfCall(job[p], i) + One(open[p], i) - One(open[p], i)
  <2>1. count[i] \in Int  BY <1>2 DEF Counts
  <2>2. count'[i] = Iget(x)[i] - One(job[p].dir, i)  BY <1>4
  <2>3. count'[i] = count[i] + One(x, i) - One(job[p].dir, i)  
    <3>1. One(x, i) \in Int /\ One(job[p].dir, i) \in Int  BY DEF One
    <3>2. Iget(x)[i] = count[i] + One(x, i)  BY <1>3
    <3>3. QED  BY <2>1, <2>2, <3>1, <3>2
  <2>4. QED  BY <2>1, <2>3 DEF OfCall, One
<1>6. FsTyped'
  <2>1. kind \in [Ino -> Kinds]  BY <1>1 DEF FsTyped, Kinds
  <2>2. kind' \in [Ino -> Kinds]  BY <2>1, FreedType
  <2>3. QED  BY <1>1, <2>2, KindChanges
<1>7. open' = [open EXCEPT ![p] = open[p]] /\ lock' \in Proc \cup {NoProc} /\ calls' \in 0..MaxCalls
  BY <1>1 DEF TypeOK
<1>8. count' \in Counts  BY <1>4
<1>9. Moves(p, r, open[p])  BY <1>1, <1>5, <1>6, <1>7, <1>8 DEF Moves
<1>10. QED  BY <1>9, MovesFit

(* The call takes a reference to x. *)
LEMMA Taken ==
  ASSUME IInv, NEW p \in Proc, NEW r \in Job, CallFits(r), Holds(r), NEW x \in Ino,
         \A i \in Ino : OfCall(r, i) = OfCall(job[p], i) + One(x, i),
         r.op = job[p].op, count' = Iget(x), FsTyped',
         job' = [job EXCEPT ![p] = r], UNCHANGED <<open, lock, calls>>
  PROVE  IInv'
PROOF
<1>1. /\ TypeOK /\ open[p] \in Ref
      /\ (job[p].op \in {"open", "creat"} => open[p] = NULL)
  BY CallOf
<1>2. count \in Counts  BY <1>1 DEF TypeOK, Counts
<1>3. count' \in Counts /\ \A i \in Ino : count'[i] = count[i] + One(x, i)  BY <1>2, IgetOf
<1>4. ASSUME NEW i \in Ino
      PROVE  count'[i] = count[i] + OfCall(r, i) - OfCall(job[p], i) + One(open[p], i) - One(open[p], i)
  <2>1. count[i] \in Int /\ OfCall(job[p], i) \in Nat  BY <1>2, OfCallType DEF Counts
  <2>2. QED  BY <1>3, <2>1 DEF One
<1>5. open' = [open EXCEPT ![p] = open[p]] /\ lock' \in Proc \cup {NoProc} /\ calls' \in 0..MaxCalls
  BY <1>1 DEF TypeOK
<1>6. Moves(p, r, open[p])  BY <1>1, <1>3, <1>4, <1>5 DEF Moves
<1>7. QED  BY <1>6, MovesFit

LEMMA PathOn ==
  ASSUME NEW path \in Seq(Component), path # <<>>, NEW link \in Seq(Component)
  PROVE  /\ Tail(path) \in Seq(Component) /\ link \o <<EndOfLink>> \in Seq(Component)
         /\ link \o <<EndOfLink>> \o Tail(path) \in Seq(Component)
PROOF
<1>1. EndOfLink \in Component  BY DEF Component
<1>2. Tail(path) \in Seq(Component) /\ <<EndOfLink>> \in Seq(Component)  BY <1>1
<1>3. QED  BY <1>2

LEMMA WalkIgetStep ==
  ASSUME IInv, NEW p \in Proc, WalkIget(p)
  PROVE  IInv'
PROOF
<1>1. TypeOK /\ FsTyped  BY CallOf DEF TypeOK
<1>2. PICK j \in Job : j = job[p] /\ CallFits(j) /\ Holds(j)  BY CallOf
<1>3. j.at = "iget" /\ j.ino # NULL /\ j.path # <<>>  BY <1>2 DEF WalkIget, At, CallFits
<1>4. PICK i \in Ino : i = j.ino  BY <1>3, RefIsIno DEF Job
<1>5. j.path \in Seq(Component) /\ target[i] \in Seq(Component) /\ j.depth + 1 \in Int
  <2>1. j.path \in Seq(Component) /\ j.depth \in Int  BY DEF Job
  <2>2. target[i] \in Seq(Component)  BY <1>1 DEF FsTyped
  <2>3. QED  BY <2>1, <2>2
<1>6. CASE /\ count' = Put(Iget(i), j, {"dir"})
           /\ kind' = Freed(count', nlink, kind)
           /\ job' = [job EXCEPT ![p] = [j EXCEPT !.at = "walk", !.dir = i, !.path = Tail(j.path), !.ino = NULL]]
           /\ UNCHANGED <<lock, nlink>>
  <2> DEFINE r == [j EXCEPT !.at = "walk", !.dir = i, !.path = Tail(j.path), !.ino = NULL]
  <2>1. i \in Ref /\ NULL \in Ref /\ i # NULL  BY DEF Ref, Ino, NULL
  <2>2. r \in Job /\ r.op = j.op /\ r.dir2 = j.dir2 /\ r.inode = j.inode /\ r.inode2 = j.inode2
        /\ r.up = j.up /\ r.dir = i
    BY <1>3, <1>5, <2>1, PathOn, Places DEF Job
  <2>a. r.at = "walk" /\ r.goal = j.goal /\ r.slot = j.slot /\ r.slot2 = j.slot2  BY DEF Job
  <2>4. job' = [job EXCEPT ![p] = r]  BY <1>6
  <2> HIDE DEF r
  <2>3. CallFits(r) /\ Holds(r)
    BY <1>2, <1>3, <2>1, <2>2, <2>a DEF CallFits, Holds, Renaming, Walking, Where
  <2>5. UNCHANGED <<nlink, entry, parent, target, open, lock, calls>>  BY <1>6 DEF WalkIget
  <2>6. QED  BY <1>2, <1>6, <2>2, <2>3, <2>4, <2>5, DirExchanged
<1>7. CASE /\ job' = [job EXCEPT ![p] = [j EXCEPT !.at = "walk", !.ino = NULL, !.depth = j.depth + 1,
                                          !.path = target[i] \o <<EndOfLink>> \o Tail(j.path)]]
           /\ UNCHANGED <<count, kind, lock, nlink>>
  <2> DEFINE q == target[i] \o <<EndOfLink>> \o Tail(j.path)
             r == [j EXCEPT !.at = "walk", !.ino = NULL, !.depth = j.depth + 1, !.path = q]
  <2>1. q \in Seq(Component) /\ NULL \in Ref  BY <1>3, <1>5, PathOn DEF Ref
  <2>2. job' = [job EXCEPT ![p] = r]  BY <1>7
  <2> HIDE DEF q
  <2>3. r \in Job /\ SameRefs(j, r) /\ r.op = j.op
    BY <1>5, <2>1, Places DEF Job, SameRefs
  <2>a. r.at = "walk" /\ r.goal = j.goal /\ r.slot = j.slot /\ r.slot2 = j.slot2  BY DEF Job
  <2> HIDE DEF r
  <2>4. CallFits(r) /\ Holds(r)
    BY <1>2, <1>3, <2>3, <2>a DEF CallFits, Holds, SameRefs, Renaming, Walking, Where
  <2>5. FsTyped' /\ lock' \in Proc \cup {NoProc}
    BY <1>1, <1>7, FsStays DEF TypeOK, WalkIget, fs
  <2>6. count' = count /\ open' = open /\ calls' = calls  BY <1>7 DEF WalkIget
  <2>7. QED  BY <1>2, <2>2, <2>3, <2>4, <2>5, <2>6, GoesOn
<1>8. CASE Return(p, nlink, kind)
  BY <1>1, <1>8, ReturnFits DEF WalkIget, FsTyped, Kinds
<1>9. QED  BY <1>2, <1>4, <1>6, <1>7, <1>8 DEF WalkIget

(* A step that only says where the call is now. *)
LEMMA GotoStep ==
  ASSUME IInv, NEW p \in Proc, NEW l \in Locations, Goto(p, l),
         CallFits([job[p] EXCEPT !.at = l]), Holds([job[p] EXCEPT !.at = l]),
         UNCHANGED <<fs, count, open, calls>>, lock' \in {lock, p}
  PROVE  IInv'
PROOF
<1>1. TypeOK  BY CallOf
<1>2. FsTyped' /\ lock' \in Proc \cup {NoProc}  BY <1>1, FsStays DEF TypeOK
<1>3. QED  BY <1>2, GoesTo

LEMMA WalkedStep ==
  ASSUME IInv, NEW p \in Proc, Walked(p)
  PROVE  IInv'
PROOF
<1>1. PICK j \in Job : j = job[p] /\ CallFits(j) /\ Holds(j)  BY CallOf
<1>2. /\ j.at = "walk" /\ j.goal = "dir" /\ j.op \notin {"link", "rename", "out"}
  BY <1>1 DEF Walked, At, CallFits, Walking
<1>3. CASE Fail(p)  BY <1>3, FailFits
<1>4. CASE Goto(p, FirstStep[j.op]) /\ UNCHANGED <<fs, count, open, lock, calls>>
  <2>1. PICK l : l = FirstStep[j.op]  OBVIOUS
  <2>2. j.op \in {"open", "creat", "mknod", "mkdir", "symlink", "unlink", "rmdir", "readlink"}
    BY <1>2, NamesAssumption DEF Job
  <2>3. /\ j.op \in {"open", "creat", "readlink"} => l = "lookup"
        /\ j.op \in {"mknod", "mkdir"} => l = "find"
        /\ j.op = "symlink" => l = "new"
        /\ j.op \in {"unlink", "rmdir"} => l = "entry"
    BY <2>1 DEF FirstStep
  <2>4. l \in Locations  BY <2>2, <2>3, Places
  <2>5. CallFits([j EXCEPT !.at = l]) /\ Holds([j EXCEPT !.at = l])
    <3> DEFINE r == [j EXCEPT !.at = l]
    <3>1. /\ r.at = l /\ r.op = j.op /\ r.goal = j.goal /\ r.dir = j.dir /\ r.dir2 = j.dir2
          /\ r.inode = j.inode /\ r.inode2 = j.inode2 /\ r.up = j.up /\ r.slot = j.slot
          /\ r.slot2 = j.slot2 /\ r.ino = j.ino
      BY DEF Job
    <3> HIDE DEF r
    <3>2. CallFits(r)  BY <1>1, <1>2, <2>2, <2>3, <3>1 DEF CallFits, Walking, Renaming, Where
    <3>3. Holds(r)  BY <1>1, <1>2, <2>2, <2>3, <3>1 DEF Holds, Walking, Renaming
    <3>4. QED  BY <3>2, <3>3 DEF r
  <2>6. QED  BY <1>1, <1>4, <2>1, <2>4, <2>5, GotoStep
<1>5. QED  BY <1>1, <1>3, <1>4 DEF Walked

(* The call goes on with the same references, in other places. *)
LEMMA HeldAlike ==
  ASSUME IInv, NEW p \in Proc, NEW r \in Job, CallFits(r), Holds(r), r.op = job[p].op,
         \A i \in Ino : OfCall(r, i) = OfCall(job[p], i) + One(NULL, i),
         job' = [job EXCEPT ![p] = r], UNCHANGED <<fs, count, open, lock, calls>>
  PROVE  IInv'
PROOF
<1>1. /\ TypeOK /\ open[p] \in Ref
      /\ (job[p].op \in {"open", "creat"} => open[p] = NULL)
  BY CallOf
<1>2. ASSUME NEW i \in Ino
      PROVE  count'[i] = count[i] + OfCall(r, i) - OfCall(job[p], i) + One(open[p], i) - One(open[p], i)
  <2>1. count[i] \in Int /\ OfCall(job[p], i) \in Nat  BY <1>1, OfCallType DEF TypeOK
  <2>2. OfCall(r, i) = OfCall(job[p], i) /\ One(open[p], i) \in Int
    BY <2>1 DEF One, NULL, Ino
  <2>3. QED  BY <2>1, <2>2
<1>3. open' = [open EXCEPT ![p] = open[p]] /\ count' \in Counts /\ calls' \in 0..MaxCalls
      /\ lock' \in Proc \cup {NoProc}
  BY <1>1 DEF TypeOK, Counts
<1>4. FsTyped'  BY <1>1, FsStays
<1>5. Moves(p, r, open[p])  BY <1>1, <1>2, <1>3, <1>4 DEF Moves
<1>6. QED  BY <1>5, MovesFit

LEMMA WalkedLinkStep ==
  ASSUME IInv, NEW p \in Proc, WalkedLink(p)
  PROVE  IInv'
PROOF
<1>1. TypeOK /\ FsTyped  BY CallOf DEF TypeOK
<1>2. PICK j \in Job : j = job[p] /\ CallFits(j) /\ Holds(j)  BY CallOf
<1>3. j.at = "walk" /\ j.path = <<>> /\ j.op = "link" /\ j.dir \in Ref /\ j.dir # NULL
  BY <1>2 DEF WalkedLink, At, Holds, Job
<1>4. ROOT \in Ino /\ ROOT \in Ref /\ ROOT # NULL  BY NamesAssumption DEF ROOT, Ino, Ref, NULL
<1>5. CASE /\ j.goal = "inode"
           /\ count' = Iget(ROOT)
           /\ job' = [job EXCEPT ![p] = [j EXCEPT !.inode = j.dir, !.dir = ROOT, !.path = j.then,
                                           !.goal = "dir", !.name = j.name2]]
           /\ UNCHANGED <<fs, open, lock, calls>>
  <2> DEFINE r == [j EXCEPT !.inode = j.dir, !.dir = ROOT, !.path = j.then, !.goal = "dir", !.name = j.name2]
  <2>a. r \in Job  BY <1>3, <1>4 DEF Job
  <2>b. /\ r.op = j.op /\ r.at = j.at /\ r.goal = "dir" /\ r.path = j.then /\ r.dir = ROOT
       /\ r.dir2 = j.dir2 /\ r.inode = j.dir /\ r.inode2 = j.inode2 /\ r.up = j.up
       /\ r.slot = j.slot /\ r.slot2 = j.slot2 /\ r.ino = j.ino
    BY DEF Job
  <2>c. job' = [job EXCEPT ![p] = r]  BY <1>5
  <2> HIDE DEF r
  <2>d. CallFits(r)  BY <1>2, <1>3, <1>4, <1>5, <2>b DEF CallFits, Walking, Renaming, Where
  <2>e. Holds(r)  BY <1>2, <1>3, <1>4, <1>5, <2>b DEF Holds, Walking, Renaming
  <2>f. j.inode = NULL  BY <1>2, <1>3, <1>5 DEF Holds, Walking
  <2>g. \A i \in Ino : OfCall(r, i) = OfCall(job[p], i) + One(ROOT, i)
    BY <1>2, <2>b, <2>f DEF OfCall, One, Ino, NULL
  <2>h. FsTyped'  BY <1>1, <1>5, FsStays
  <2>i. r.op = job[p].op /\ count' = Iget(ROOT) /\ UNCHANGED <<open, lock, calls>>
    BY <1>2, <1>5, <2>b
  <2>j. QED  BY <1>4, <2>a, <2>c, <2>d, <2>e, <2>g, <2>h, <2>i, Taken
<1>6. CASE /\ j.goal = "dir" /\ Goto(p, FirstStep[j.op])
           /\ UNCHANGED <<fs, count, open, lock, calls>>
  <2>1. FirstStep[j.op] = "find" /\ "find" \in Locations  BY <1>3, Places DEF FirstStep
  <2> DEFINE r == [j EXCEPT !.at = "find"]
  <2>b. /\ r.op = j.op /\ r.at = "find" /\ r.goal = j.goal /\ r.path = j.path /\ r.dir = j.dir
       /\ r.dir2 = j.dir2 /\ r.inode = j.inode /\ r.inode2 = j.inode2 /\ r.up = j.up
       /\ r.slot = j.slot /\ r.slot2 = j.slot2 /\ r.ino = j.ino
    BY DEF Job
  <2> HIDE DEF r
  <2>d. CallFits(r)  BY <1>2, <1>3, <1>6, <2>b DEF CallFits, Walking, Renaming, Where
  <2>e. Holds(r)  BY <1>2, <1>3, <1>6, <2>b DEF Holds, Walking, Renaming
  <2>f. QED  BY <1>2, <1>6, <2>1, <2>d, <2>e, GotoStep DEF r
<1>7. CASE Fail(p)  BY <1>7, FailFits
<1>8. QED  BY <1>2, <1>5, <1>6, <1>7 DEF WalkedLink

LEMMA WalkedRenameStep ==
  ASSUME IInv, NEW p \in Proc, WalkedRename(p)
  PROVE  IInv'
PROOF
<1>1. TypeOK /\ FsTyped  BY CallOf DEF TypeOK
<1>2. PICK j \in Job : j = job[p] /\ CallFits(j) /\ Holds(j)  BY CallOf
<1>3. j.at = "walk" /\ j.path = <<>> /\ j.op = "rename" /\ j.dir \in Ref /\ j.dir2 \in Ref /\ j.dir # NULL
  BY <1>2 DEF WalkedRename, At, Holds, Job
<1>4. ROOT \in Ino /\ ROOT \in Ref /\ ROOT # NULL  BY NamesAssumption DEF ROOT, Ino, Ref, NULL
<1>5. CASE /\ j.goal = "dir"
           /\ count' = Iget(ROOT)
           /\ job' = [job EXCEPT ![p] = [j EXCEPT !.dir2 = j.dir, !.dir = ROOT, !.path = j.then,
                                           !.goal = "dir2"]]
           /\ UNCHANGED <<fs, open, lock, calls>>
  <2> DEFINE r == [j EXCEPT !.dir2 = j.dir, !.dir = ROOT, !.path = j.then, !.goal = "dir2"]
  <2>a. r \in Job  BY <1>3, <1>4 DEF Job
  <2>b. /\ r.op = j.op /\ r.at = j.at /\ r.goal = "dir2" /\ r.path = j.then /\ r.dir = ROOT
       /\ r.dir2 = j.dir /\ r.inode = j.inode /\ r.inode2 = j.inode2 /\ r.up = j.up
       /\ r.slot = j.slot /\ r.slot2 = j.slot2 /\ r.ino = j.ino
    BY DEF Job
  <2>c. job' = [job EXCEPT ![p] = r]  BY <1>5
  <2> HIDE DEF r
  <2>d. CallFits(r)  BY <1>2, <1>3, <1>4, <1>5, <2>b DEF CallFits, Walking, Renaming, Where
  <2>e. Holds(r)  BY <1>2, <1>3, <1>4, <1>5, <2>b DEF Holds, Walking, Renaming
  <2>f. j.dir2 = NULL  BY <1>2, <1>3, <1>5 DEF Holds, Walking, Renaming
  <2>g. \A i \in Ino : OfCall(r, i) = OfCall(job[p], i) + One(ROOT, i)
    BY <1>2, <2>b, <2>f DEF OfCall, One, Ino, NULL
  <2>h. FsTyped'  BY <1>1, <1>5, FsStays
  <2>i. r.op = job[p].op /\ count' = Iget(ROOT) /\ UNCHANGED <<open, lock, calls>>
    BY <1>2, <1>5, <2>b
  <2>j. QED  BY <1>4, <2>a, <2>c, <2>d, <2>e, <2>g, <2>h, <2>i, Taken
<1>6. CASE /\ j.goal = "dir2"
           /\ job' = [job EXCEPT ![p] = [j EXCEPT !.dir = j.dir2, !.dir2 = j.dir, !.at = "lock"]]
           /\ UNCHANGED <<fs, count, open, lock, calls>>
  <2> DEFINE r == [j EXCEPT !.dir = j.dir2, !.dir2 = j.dir, !.at = "lock"]
  <2>a. r \in Job  BY <1>3, Places DEF Job
  <2>b. /\ r.op = j.op /\ r.at = "lock" /\ r.goal = j.goal /\ r.path = j.path /\ r.dir = j.dir2
       /\ r.dir2 = j.dir /\ r.inode = j.inode /\ r.inode2 = j.inode2 /\ r.up = j.up
       /\ r.slot = j.slot /\ r.slot2 = j.slot2 /\ r.ino = j.ino
    BY DEF Job
  <2>c. job' = [job EXCEPT ![p] = r]  BY <1>6
  <2> HIDE DEF r
  <2>d. CallFits(r)  BY <1>2, <1>3, <1>6, <2>b DEF CallFits, Walking, Renaming, Where
  <2>e. Holds(r)  BY <1>2, <1>3, <1>6, <2>b DEF Holds, Walking, Renaming
  <2>f. \A i \in Ino : OfCall(r, i) = OfCall(job[p], i) + One(NULL, i)
    BY <1>2, <2>b DEF OfCall, One, Ino, NULL
  <2>g. QED  BY <1>1, <1>2, <1>6, <2>a, <2>b, <2>c, <2>d, <2>e, <2>f, HeldAlike
<1>7. CASE Fail(p)  BY <1>7, FailFits
<1>8. QED  BY <1>2, <1>5, <1>6, <1>7 DEF WalkedRename

(***************************************************************************)
(* open, creat, readlink.                                                  *)
(***************************************************************************)
LEMMA OpenLookupStep ==
  ASSUME IInv, NEW p \in Proc, OpenLookup(p)
  PROVE  IInv'
PROOF
<1>1. TypeOK /\ FsTyped  BY CallOf DEF TypeOK
<1>2. PICK j \in Job : j = job[p] /\ CallFits(j) /\ Holds(j)  BY CallOf
<1>3. /\ j.at = "lookup" /\ j.op \in {"open", "creat", "readlink"}
      /\ j.dir \in Ref /\ j.dir # NULL /\ "new" \in Locations
  <2>1. "lookup" \in DOMAIN Where /\ Where["lookup"] = {"open", "creat", "readlink"}  BY DEF Where
  <2>2. QED  BY <1>2, <2>1, Places DEF OpenLookup, At, CallFits, Holds, Job
<1>4. CASE \E i \in LookUp(j.dir, j.name) : job' = [job EXCEPT ![p].at = "opened", ![p].ino = i]
             /\ UNCHANGED <<fs, count, open, lock, calls>>
  <2>1. PICK i \in LookUp(j.dir, j.name) : job' = [job EXCEPT ![p].at = "opened", ![p].ino = i]
             /\ UNCHANGED <<fs, count, open, lock, calls>>
    BY <1>4
  <2>2. i \in Ref /\ i # NULL
    <3>1. i \in Ino  BY <1>1, <1>3, RefIsIno, LookedUp
    <3>2. QED  BY <3>1 DEF Ref, Ino, NULL
  <2> DEFINE r == [j EXCEPT !.at = "opened", !.ino = i]
  <2>a. r \in Job  BY <2>2, Places DEF Job
  <2>b. /\ r.op = j.op /\ r.at = "opened" /\ r.goal = j.goal /\ r.path = j.path /\ r.dir = j.dir
       /\ r.dir2 = j.dir2 /\ r.inode = j.inode /\ r.inode2 = j.inode2 /\ r.up = j.up
       /\ r.slot = j.slot /\ r.slot2 = j.slot2 /\ r.ino = i
    BY DEF Job
  <2>c. job' = [job EXCEPT ![p] = r]  BY <1>1, <1>2, <2>1 DEF TypeOK
  <2> HIDE DEF r
  <2>d. CallFits(r)  BY <1>2, <1>3, <2>2, <2>b DEF CallFits, Walking, Renaming, Where
  <2>e. Holds(r)  BY <1>2, <1>3, <2>2, <2>b DEF Holds, Walking, Renaming
  <2>f. SameRefs(j, r)  BY <2>b DEF SameRefs
  <2>g. FsTyped' /\ lock' \in Proc \cup {NoProc}  BY <1>1, <2>1, FsStays DEF TypeOK
  <2>h. r.op = job[p].op /\ count' = count /\ open' = open /\ calls' = calls  BY <1>2, <2>1, <2>b
  <2>i. QED  BY <1>2, <2>a, <2>c, <2>d, <2>e, <2>f, <2>g, <2>h, GoesOn
<1>5. CASE j.op = "creat" /\ Goto(p, "new") /\ UNCHANGED <<fs, count, open, lock, calls>>
  <2> DEFINE r == [j EXCEPT !.at = "new"]
  <2>b. /\ r.op = j.op /\ r.at = "new" /\ r.goal = j.goal /\ r.path = j.path /\ r.dir = j.dir
       /\ r.dir2 = j.dir2 /\ r.inode = j.inode /\ r.inode2 = j.inode2 /\ r.up = j.up
       /\ r.slot = j.slot /\ r.slot2 = j.slot2 /\ r.ino = j.ino
    BY DEF Job
  <2> HIDE DEF r
  <2>d. CallFits(r)  BY <1>2, <1>3, <1>5, <2>b DEF CallFits, Walking, Renaming, Where
  <2>e. Holds(r)  BY <1>2, <1>3, <1>5, <2>b DEF Holds, Walking, Renaming
  <2>f. QED  BY <1>2, <1>3, <1>5, <2>d, <2>e, GotoStep DEF r
<1>6. CASE Fail(p)  BY <1>6, FailFits
<1>7. QED  BY <1>2, <1>4, <1>5, <1>6 DEF OpenLookup

LEMMA OpenIgetStep ==
  ASSUME IInv, NEW p \in Proc, OpenIget(p)
  PROVE  IInv'
PROOF
<1>1. TypeOK /\ FsTyped  BY CallOf DEF TypeOK
<1>2. PICK j \in Job : j = job[p] /\ CallFits(j) /\ Holds(j)  BY CallOf
<1>3. /\ j.at = "opened" /\ j.op \in {"open", "creat", "readlink"} /\ j.ino # NULL
      /\ j.dir \in Ref /\ j.dir # NULL
  <2>1. "opened" \in DOMAIN Where /\ Where["opened"] = {"open", "creat", "readlink"}  BY DEF Where
  <2>2. QED  BY <1>2, <2>1 DEF OpenIget, At, CallFits, Holds, Job
<1>4. PICK i \in Ino : i = j.ino  BY <1>3, RefIsIno DEF Job
<1>5. i \in Ref /\ i # NULL  BY DEF Ref, Ino, NULL
<1>6. target[i] \in Seq(Component) /\ j.depth + 1 \in Int
  <2>1. j.depth \in Int  BY DEF Job
  <2>2. target[i] \in Seq(Component)  BY <1>1 DEF FsTyped
  <2>3. QED  BY <2>1, <2>2
<1>7. UNCHANGED <<entry, parent, target, open, calls>>  BY DEF OpenIget
<1>8. CASE Return(p, nlink, kind)
  BY <1>1, <1>7, <1>8, ReturnFits DEF FsTyped, Kinds
<1>9. CASE /\ j.op # "readlink"
           /\ count' = Put(Iget(i), j, {"dir"})
           /\ kind' = Freed(count', nlink, kind)
           /\ job' = [job EXCEPT ![p] = [j EXCEPT !.at = "walk", !.goal = "file", !.dir = i]]
           /\ UNCHANGED <<lock, nlink>>
  <2> DEFINE r == [j EXCEPT !.at = "walk", !.goal = "file", !.dir = i]
  <2>a. r \in Job  BY <1>5, Places DEF Job
  <2>b. /\ r.op = j.op /\ r.at = "walk" /\ r.goal = "file" /\ r.path = j.path /\ r.dir = i
       /\ r.dir2 = j.dir2 /\ r.inode = j.inode /\ r.inode2 = j.inode2 /\ r.up = j.up
       /\ r.slot = j.slot /\ r.slot2 = j.slot2 /\ r.ino = j.ino
    BY DEF Job
  <2>c. job' = [job EXCEPT ![p] = r]  BY <1>9
  <2> HIDE DEF r
  <2>d. CallFits(r)  BY <1>2, <1>3, <1>5, <1>9, <2>b DEF CallFits, Walking, Renaming, Where
  <2>e. Holds(r)  BY <1>2, <1>3, <1>5, <1>9, <2>b DEF Holds, Walking, Renaming
  <2>f. /\ r.dir2 = job[p].dir2 /\ r.inode = job[p].inode /\ r.inode2 = job[p].inode2
        /\ r.up = job[p].up /\ r.op = job[p].op /\ r.dir = i
        /\ count' = Put(Iget(i), job[p], {"dir"}) /\ kind' = Freed(count', nlink, kind)
        /\ UNCHANGED <<nlink, entry, parent, target, open, lock, calls>>
    BY <1>2, <1>7, <1>9, <2>b
  <2>g. QED  BY <2>a, <2>c, <2>d, <2>e, <2>f, DirExchanged
<1>10. CASE /\ j.op # "readlink"
            /\ job' = [job EXCEPT ![p] = [j EXCEPT !.at = "walk", !.goal = "file", !.depth = j.depth + 1,
                                            !.path = target[i] \o <<EndOfLink>>]]
            /\ UNCHANGED <<count, kind, lock, nlink>>
  <2>1. PICK q \in Seq(Component) : q = target[i] \o <<EndOfLink>>
    <3>1. EndOfLink \in Component  BY DEF Component
    <3>2. <<EndOfLink>> \in Seq(Component)  BY <3>1
    <3>3. \A s \in Seq(Component) : s \o <<EndOfLink>> \in Seq(Component)  BY <3>2
    <3>4. target[i] \o <<EndOfLink>> \in Seq(Component)  BY <1>6, <3>3
    <3>5. QED  BY <3>4
  <2>2. PICK d \in Int : d = j.depth + 1  BY <1>6
  <2> DEFINE r == [j EXCEPT !.at = "walk", !.goal = "file", !.depth = d, !.path = q]
  <2>a. r \in Job  BY Places DEF Job
  <2>b. /\ r.op = j.op /\ r.at = "walk" /\ r.goal = "file" /\ r.path = q /\ r.dir = j.dir
       /\ r.dir2 = j.dir2 /\ r.inode = j.inode /\ r.inode2 = j.inode2 /\ r.up = j.up
       /\ r.slot = j.slot /\ r.slot2 = j.slot2 /\ r.ino = j.ino
    BY DEF Job
  <2>c. job' = [job EXCEPT ![p] = r]  BY <1>10, <2>1, <2>2
  <2> HIDE DEF r
  <2>d. CallFits(r)  BY <1>2, <1>3, <1>5, <1>10, <2>b DEF CallFits, Walking, Renaming, Where
  <2>e. Holds(r)  BY <1>2, <1>3, <1>5, <1>10, <2>b DEF Holds, Walking, Renaming
  <2>f. SameRefs(j, r)  BY <2>b DEF SameRefs
  <2>g. FsTyped' /\ lock' \in Proc \cup {NoProc}
    BY <1>1, <1>7, <1>10, FsStays DEF TypeOK, fs
  <2>h. r.op = job[p].op /\ count' = count /\ open' = open /\ calls' = calls  BY <1>2, <1>7, <1>10, <2>b
  <2>i. QED  BY <1>2, <2>a, <2>c, <2>d, <2>e, <2>f, <2>g, <2>h, GoesOn
<1>11. QED  BY <1>2, <1>4, <1>8, <1>9, <1>10 DEF OpenIget

(* The call is over and leaves o open. *)
LEMMA OpensFits ==
  ASSUME IInv, NEW p \in Proc, NEW o \in Ref, open[p] = NULL, open' = [open EXCEPT ![p] = o],
         job' = [job EXCEPT ![p] = Out], FsTyped', UNCHANGED <<lock, calls>>, count' \in Counts,
         \A i \in Ino : count'[i] = count[i] - OfCall(job[p], i) + One(o, i)
  PROVE  IInv'
PROOF
<1>1. TypeOK  BY CallOf
<1>2. lock' \in Proc \cup {NoProc} /\ calls' \in 0..MaxCalls  BY <1>1 DEF TypeOK
<1>3. ASSUME NEW i \in Ino
      PROVE  count'[i] = count[i] + OfCall(Out, i) - OfCall(job[p], i) + One(o, i) - One(open[p], i)
  <2>1. count[i] \in Int /\ OfCall(job[p], i) \in Nat  BY <1>1, OfCallType DEF TypeOK
  <2>2. OfCall(Out, i) = 0  BY OutFits
  <2>3. One(open[p], i) = 0 /\ One(o, i) \in Int  BY DEF One, NULL, Ino
  <2>4. QED  BY <2>1, <2>2, <2>3
<1>4. Out.op = "out"  BY DEF Out
<1>5. Moves(p, Out, o)  BY <1>2, <1>3, <1>4, OutFits DEF Moves
<1>6. QED  BY <1>5, MovesFit

LEMMA OpenDoneStep ==
  ASSUME IInv, NEW p \in Proc, OpenDone(p)
  PROVE  IInv'
PROOF
<1>1. TypeOK /\ FsTyped  BY CallOf DEF TypeOK
<1>2. PICK j \in Job : j = job[p] /\ CallFits(j) /\ Holds(j)  BY CallOf
<1>3. j.at = "walk" /\ j.goal = "file" /\ j.op \in {"open", "creat"}
  BY <1>2 DEF OpenDone, At, CallFits, Walking
<1>4. CASE Fail(p)  BY <1>4, FailFits
<1>5. CASE /\ open' = [open EXCEPT ![p] = j.dir]
           /\ job' = [job EXCEPT ![p] = Out]
           /\ UNCHANGED <<fs, count, lock, calls>>
  <2>1. j.dir \in Ref  BY DEF Job
  <2>2. open[p] = NULL  BY <1>2, <1>3, <1>5, CallOf
  <2>3. j.dir2 = NULL /\ j.inode = NULL /\ j.inode2 = NULL /\ j.up = NULL
    <3>1. j.dir2 = NULL  BY <1>2, <1>3 DEF Holds, Renaming
    <3>2. j.inode = NULL  BY <1>2, <1>3 DEF Holds
    <3>3. j.slot2 = NULL  BY <1>2, <1>3 DEF CallFits
    <3>4. j.inode2 = NULL /\ j.up = NULL  BY <1>2, <1>3, <3>3 DEF Holds
    <3>5. QED  BY <3>1, <3>2, <3>4
  <2>4. ASSUME NEW i \in Ino
        PROVE  count'[i] = count[i] - OfCall(job[p], i) + One(j.dir, i)
    <3>1. count'[i] = count[i] /\ count[i] \in Int  BY <1>1, <1>5 DEF TypeOK
    <3>2. OfCall(job[p], i) = One(j.dir, i)  BY <1>2, <2>3 DEF OfCall, One, NULL, Ino
    <3>3. One(j.dir, i) \in Int  BY DEF One
    <3>4. QED  BY <3>1, <3>2, <3>3
  <2>5. count' \in Counts /\ FsTyped'  BY <1>1, <1>5, FsStays DEF TypeOK, Counts
  <2>6. QED  BY <1>5, <2>1, <2>2, <2>4, <2>5, OpensFits
<1>6. QED  BY <1>2, <1>4, <1>5 DEF OpenDone

LEMMA CloseStep ==
  ASSUME IInv, NEW p \in Proc, Close(p)
  PROVE  IInv'
PROOF
<1>1. TypeOK /\ FsTyped /\ job[p] \in Job /\ CallFits(job[p]) /\ Holds(job[p]) /\ open[p] \in Ref
  BY CallOf DEF TypeOK
<1>2. open[p] # NULL /\ job[p] = Out /\ open[p] \in Ino  BY <1>1, RefIsIno DEF Close
<1>3. count \in Counts  BY <1>1 DEF TypeOK, Counts
<1>4. count' \in Counts /\ \A i \in Ino : count'[i] = count[i] - One(open[p], i)
  BY <1>2, <1>3 DEF Close, Counts, One
<1>5. FsTyped'
  <2>1. kind \in [Ino -> Kinds]  BY <1>1 DEF FsTyped, Kinds
  <2>2. kind' \in [Ino -> Kinds]  BY <2>1, FreedType DEF Close
  <2>3. QED  BY <1>1, <2>2, KindChanges DEF Close
<1>6. ASSUME NEW i \in Ino
      PROVE  count'[i] = count[i] + OfCall(job[p], i) - OfCall(job[p], i) + One(NULL, i) - One(open[p], i)
  <2>1. count[i] \in Int /\ OfCall(job[p], i) \in Nat  BY <1>3, OfCallType DEF Counts
  <2>2. One(NULL, i) = 0 /\ One(open[p], i) \in Int  BY DEF One, NULL, Ino
  <2>3. QED  BY <1>4, <2>1, <2>2
<1>7. job' = [job EXCEPT ![p] = job[p]]  BY <1>1 DEF Close, TypeOK
<1>8. NULL \in Ref /\ open' = [open EXCEPT ![p] = NULL]  BY DEF Ref, Close
<1>9. lock' \in Proc \cup {NoProc} /\ calls' \in 0..MaxCalls  BY <1>1 DEF TypeOK, Close
<1>10. Moves(p, job[p], NULL)  BY <1>1, <1>4, <1>5, <1>6, <1>7, <1>8, <1>9 DEF Moves
<1>11. QED  BY <1>10, MovesFit

LEMMA FindNoneStep ==
  ASSUME IInv, NEW p \in Proc, FindNone(p)
  PROVE  IInv'
PROOF
<1>1. TypeOK /\ FsTyped  BY CallOf DEF TypeOK
<1>2. PICK j \in Job : j = job[p] /\ CallFits(j) /\ Holds(j)  BY CallOf
<1>3. j.at = "find" /\ j.op \in {"mknod", "mkdir", "symlink", "link"}
      /\ "add" \in Locations /\ "new" \in Locations
  <2>1. "find" \in DOMAIN Where /\ Where["find"] = {"mknod", "mkdir", "symlink", "link"}  BY DEF Where
  <2>2. QED  BY <1>2, <2>1, Places DEF FindNone, At, CallFits
<1>4. CASE /\ Goto(p, IF j.op \in {"link", "symlink"} THEN "add" ELSE "new")
           /\ UNCHANGED <<fs, count, open, lock, calls>>
  <2>1. PICK l : l = IF j.op \in {"link", "symlink"} THEN "add" ELSE "new"  OBVIOUS
  <2>2. l \in Locations /\ l \in {"add", "new"} /\ (l = "add" <=> j.op \in {"link", "symlink"})
    BY <1>3, <2>1
  <2> DEFINE r == [j EXCEPT !.at = l]
  <2>b. /\ r.op = j.op /\ r.at = l /\ r.goal = j.goal /\ r.path = j.path /\ r.dir = j.dir
       /\ r.dir2 = j.dir2 /\ r.inode = j.inode /\ r.inode2 = j.inode2 /\ r.up = j.up
       /\ r.slot = j.slot /\ r.slot2 = j.slot2 /\ r.ino = j.ino
    BY DEF Job
  <2> HIDE DEF r
  <2>d. CallFits(r)
    <3>1. j.op \in Where[l]
      <4>1. /\ Where["add"] = {"creat", "mknod", "mkdir", "symlink", "link"}
            /\ Where["new"] = {"creat", "mknod", "mkdir", "symlink"}
        BY DEF Where
      <4>2. QED  BY <1>3, <2>2, <4>1
    <3>2. QED  BY <1>2, <1>3, <2>2, <2>b, <3>1 DEF CallFits, Walking, Renaming
  <2>e. Holds(r)
    <3>1. j.op = "link" => j.goal = "dir"  BY <1>2, <1>3 DEF CallFits, Walking
    <3>2. QED  BY <1>2, <1>3, <2>2, <2>b, <3>1 DEF Holds, Walking, Renaming
  <2>f. QED  BY <1>2, <1>4, <2>1, <2>2, <2>d, <2>e, GotoStep DEF r
<1>5. CASE Fail(p)  BY <1>5, FailFits
<1>6. CASE FailNew(p)  BY <1>6, FailNewFits
<1>7. QED  BY <1>2, <1>4, <1>5, <1>6 DEF FindNone

(***************************************************************************)
(* The calls that make an entry.                                           *)
(***************************************************************************)
LEMMA WhereIs ==
  /\ Where["new"] = {"creat", "mknod", "mkdir", "symlink"} /\ Where["block"] = {"mkdir", "symlink"}
  /\ Where["add"] = {"creat", "mknod", "mkdir", "symlink", "link"} /\ Where["linked"] = {"link"}
  /\ Where["entry"] = {"unlink", "rmdir"} /\ Where["remove"] = {"unlink", "rmdir"}
  /\ Where["rmdir"] = {"rmdir"}
  /\ \A l \in {"new", "block", "add", "linked", "entry", "remove", "rmdir"} : l \in DOMAIN Where
  /\ \A l \in Renaming : l \notin DOMAIN Where
PROOF BY DEF Where, Renaming

LEMMA SlotsAreNumbers == Slot \subseteq Nat
PROOF
<1>1. DIR_ENTRIES \in Nat  BY NamesAssumption
<1>2. QED  BY <1>1 DEF Slot

LEMMA AddedFits ==
  ASSUME FsTyped, NEW d \in Ino, NEW name \in Name \cup {""}, NEW i \in Ref, Unused(d) # {}
  PROVE  Added(d, name, i) \in [Ino -> [Slot -> Entry]]
PROOF
<1>1. Unused(d) \in SUBSET Nat
  <2>1. Slot \subseteq Nat  BY SlotsAreNumbers
  <2>2. Unused(d) \subseteq Slot  BY DEF Unused
  <2>3. QED  BY <2>1, <2>2
<1>2. Min(Unused(d)) \in Unused(d)  BY <1>1, MinExists
<1>3. PICK s \in Slot : s = Min(Unused(d))  BY <1>2 DEF Unused
<1>4. PICK e \in Entry : e = [name |-> name, ino |-> i]  BY DEF Entry
<1>5. entry \in [Ino -> [Slot -> Entry]]  BY DEF FsTyped
<1>6. [entry EXCEPT ![d][s] = e] \in [Ino -> [Slot -> Entry]]  BY <1>5
<1>7. QED  BY <1>3, <1>4, <1>6 DEF Added

LEMMA NewInodeStep ==
  ASSUME IInv, NEW p \in Proc, NewInode(p)
  PROVE  IInv'
PROOF
<1>1. TypeOK /\ FsTyped  BY CallOf DEF TypeOK
<1>2. PICK j \in Job : j = job[p] /\ CallFits(j) /\ Holds(j)  BY CallOf
<1>3. j.at = "new" /\ j.op \in {"creat", "mknod", "mkdir", "symlink"}
  BY <1>2, WhereIs DEF NewInode, At, CallFits
<1> DEFINE free == {i \in Ino : kind[i] = "free"}
           i == Min(free)
<1>4. CASE /\ free # {}
           /\ kind' = [kind EXCEPT ![i] = KindOf(j.op)]
           /\ nlink' = [nlink EXCEPT ![i] = 1]
           /\ count' = Iget(i)
           /\ job' = [job EXCEPT ![p].inode = i,
                                 ![p].at = IF j.op \in {"mkdir", "symlink"} THEN "block" ELSE "add"]
           /\ UNCHANGED <<entry, parent, target, open, lock, calls>>
  <2>1. PICK n \in Ino : n = i
    <3>1. free \in SUBSET Nat  BY DEF Ino
    <3>2. i \in free  BY <1>4, <3>1, MinExists
    <3>3. QED  BY <3>2
  <2> HIDE DEF i
  <2>2. n \in Ref /\ n # NULL  BY DEF Ref, Ino, NULL
  <2>3. PICK l : l = IF j.op \in {"mkdir", "symlink"} THEN "block" ELSE "add"  OBVIOUS
  <2>4. /\ l \in Locations /\ l \in {"block", "add"} /\ (l = "block" <=> j.op \in {"mkdir", "symlink"})
        /\ l \in DOMAIN Where /\ j.op \in Where[l]
    BY <1>3, <2>3, WhereIs, Places
  <2> DEFINE r == [j EXCEPT !.inode = n, !.at = l]
  <2>a. r \in Job  BY <2>2, <2>4 DEF Job
  <2>b. /\ r.op = j.op /\ r.at = l /\ r.goal = j.goal /\ r.path = j.path /\ r.dir = j.dir
       /\ r.dir2 = j.dir2 /\ r.inode = n /\ r.inode2 = j.inode2 /\ r.up = j.up
       /\ r.slot = j.slot /\ r.slot2 = j.slot2 /\ r.ino = j.ino
    BY DEF Job
  <2>c. job' = [job EXCEPT ![p] = r]  BY <1>1, <1>2, <1>4, <2>1, <2>3 DEF TypeOK
  <2> HIDE DEF r
  <2>d. CallFits(r)  BY <1>2, <1>3, <2>2, <2>4, <2>b DEF CallFits, Walking, Renaming
  <2>e. Holds(r)  BY <1>2, <1>3, <2>2, <2>4, <2>b DEF Holds, Walking, Renaming
  <2>f. j.inode = NULL  BY <1>2, <1>3 DEF Holds
  <2>g. \A x \in Ino : OfCall(r, x) = OfCall(job[p], x) + One(n, x)
    BY <1>2, <2>b, <2>f DEF OfCall, One, Ino, NULL
  <2>h. FsTyped'
    <3>1. KindOf(j.op) \in Kinds  BY DEF KindOf, Kinds
    <3>2. kind' \in [Ino -> Kinds]  BY <1>1, <1>4, <3>1 DEF FsTyped, Kinds
    <3>3. nlink' \in [Ino -> Int]
      <4>1. nlink \in [Ino -> Int] /\ 1 \in Int  BY <1>1 DEF FsTyped
      <4>2. QED  BY <1>4, <4>1
    <3>4. QED  BY <1>1, <1>4, <3>2, <3>3 DEF FsTyped, Kinds
  <2>i. r.op = job[p].op /\ count' = Iget(n) /\ UNCHANGED <<open, lock, calls>>
    BY <1>2, <1>4, <2>1, <2>b
  <2>j. QED  BY <2>a, <2>c, <2>d, <2>e, <2>g, <2>h, <2>i, Taken
<1>5. CASE Fail(p)  BY <1>5, FailFits
<1>6. QED  BY <1>2, <1>4, <1>5 DEF NewInode

LEMMA MkdirBlockStep ==
  ASSUME IInv, NEW p \in Proc, MkdirBlock(p)
  PROVE  IInv'
PROOF
<1>1. TypeOK /\ FsTyped  BY CallOf DEF TypeOK
<1>2. PICK j \in Job : j = job[p] /\ CallFits(j) /\ Holds(j)  BY CallOf
<1>3. j.at = "block" /\ j.op = "mkdir" /\ j.dir \in Ino
  <2>1. j.at = "block" /\ j.op = "mkdir"  BY <1>2 DEF MkdirBlock, At
  <2>2. QED  BY <1>2, <2>1, RefIsIno DEF Holds, Job
<1>4. CASE FailNew(p)  BY <1>4, FailNewFits
<1>5. CASE /\ entry' = [entry EXCEPT ![j.inode] = EmptyDir]
           /\ parent' = [parent EXCEPT ![j.inode] = j.dir]
           /\ nlink' = [nlink EXCEPT ![j.inode] = 2]
           /\ Goto(p, "add")
           /\ UNCHANGED <<kind, target, count, open, lock, calls>>
  <2> DEFINE r == [j EXCEPT !.at = "add"]
  <2>b. /\ r.op = j.op /\ r.at = "add" /\ r.goal = j.goal /\ r.path = j.path /\ r.dir = j.dir
       /\ r.dir2 = j.dir2 /\ r.inode = j.inode /\ r.inode2 = j.inode2 /\ r.up = j.up
       /\ r.slot = j.slot /\ r.slot2 = j.slot2 /\ r.ino = j.ino
    BY DEF Job
  <2> HIDE DEF r
  <2>d. CallFits(r)  BY <1>2, <1>3, <2>b, WhereIs DEF CallFits, Walking, Renaming
  <2>e. Holds(r)  BY <1>2, <1>3, <2>b DEF Holds, Walking, Renaming
  <2>f. FsTyped'
    <3>1. EmptyDir \in [Slot -> Entry]
      <4>1. NoEntry \in Entry  BY DEF NoEntry, Entry, Ref
      <4>2. QED  BY <4>1 DEF EmptyDir
    <3>2. entry' \in [Ino -> [Slot -> Entry]]  BY <1>1, <1>5, <3>1 DEF FsTyped
    <3>3. parent' \in [Ino -> Ino]  BY <1>1, <1>3, <1>5 DEF FsTyped
    <3>4. nlink' \in [Ino -> Int]
      <4>1. nlink \in [Ino -> Int] /\ 2 \in Int  BY <1>1 DEF FsTyped
      <4>2. QED  BY <1>5, <4>1
    <3>5. QED  BY <1>1, <1>5, <3>2, <3>3, <3>4 DEF FsTyped
  <2>g. "add" \in Locations /\ lock' \in Proc \cup {NoProc} /\ count' = count /\ open' = open /\ calls' = calls
    BY <1>1, <1>5, Places DEF TypeOK
  <2>h. QED  BY <1>2, <1>5, <2>d, <2>e, <2>f, <2>g, GoesTo DEF r
<1>6. QED  BY <1>2, <1>4, <1>5 DEF MkdirBlock

LEMMA SymlinkBlockStep ==
  ASSUME IInv, NEW p \in Proc, SymlinkBlock(p)
  PROVE  IInv'
PROOF
<1>1. TypeOK /\ FsTyped  BY CallOf DEF TypeOK
<1>2. PICK j \in Job : j = job[p] /\ CallFits(j) /\ Holds(j)  BY CallOf
<1>3. j.at = "block" /\ j.op = "symlink"  BY <1>2 DEF SymlinkBlock, At
<1>4. CASE FailNew(p)  BY <1>4, FailNewFits
<1>5. CASE /\ target' = [target EXCEPT ![j.inode] = j.then]
           /\ Goto(p, "find")
           /\ UNCHANGED <<kind, nlink, entry, parent, count, open, lock, calls>>
  <2> DEFINE r == [j EXCEPT !.at = "find"]
  <2>b. /\ r.op = j.op /\ r.at = "find" /\ r.goal = j.goal /\ r.path = j.path /\ r.dir = j.dir
       /\ r.dir2 = j.dir2 /\ r.inode = j.inode /\ r.inode2 = j.inode2 /\ r.up = j.up
       /\ r.slot = j.slot /\ r.slot2 = j.slot2 /\ r.ino = j.ino
    BY DEF Job
  <2> HIDE DEF r
  <2>d. CallFits(r)
    <3>1. Where["find"] = {"mknod", "mkdir", "symlink", "link"}  BY DEF Where
    <3>2. QED  BY <1>2, <1>3, <2>b, <3>1 DEF CallFits, Walking, Renaming
  <2>e. Holds(r)  BY <1>2, <1>3, <2>b DEF Holds, Walking, Renaming
  <2>f. FsTyped'
    <3>1. j.then \in Seq(Component)  BY DEF Job
    <3>2. target' \in [Ino -> Seq(Component)]  BY <1>1, <1>5, <3>1 DEF FsTyped
    <3>3. QED  BY <1>1, <1>5, <3>2 DEF FsTyped
  <2>g. "find" \in Locations /\ lock' \in Proc \cup {NoProc} /\ count' = count /\ open' = open /\ calls' = calls
    BY <1>1, <1>5, Places DEF TypeOK
  <2>h. QED  BY <1>2, <1>5, <2>d, <2>e, <2>f, <2>g, GoesTo DEF r
<1>6. QED  BY <1>2, <1>4, <1>5 DEF SymlinkBlock

LEMMA AddFailsStep == ASSUME IInv, NEW p \in Proc, AddFails(p) PROVE IInv'
PROOF BY FailFits, FailNewFits DEF AddFails

(* At the new entry a call holds its directory and its inode. *)
LEMMA Adding ==
  ASSUME IInv, NEW p \in Proc, CanAdd(p)
  PROVE  /\ FsTyped /\ job[p].dir \in Ino /\ job[p].inode \in Ino
         /\ job[p].op \in {"creat", "mknod", "mkdir", "symlink", "link"}
         /\ Added(job[p].dir, job[p].name, job[p].inode) \in [Ino -> [Slot -> Entry]]
         /\ job[p].dir2 = NULL /\ job[p].inode2 = NULL /\ job[p].up = NULL
         /\ job[p].op # "link" \/ job[p].goal = "dir"
PROOF
<1>1. TypeOK /\ FsTyped  BY CallOf DEF TypeOK
<1>2. PICK j \in Job : j = job[p] /\ CallFits(j) /\ Holds(j)  BY CallOf
<1>3. j.at = "add" /\ j.op \in {"creat", "mknod", "mkdir", "symlink", "link"}
  BY <1>2, WhereIs DEF CanAdd, At, CallFits
<1>4. j.dir \in Ino /\ j.inode \in Ino /\ j.name \in Name \cup {""} /\ j.inode \in Ref
  BY <1>2, <1>3, RefIsIno DEF Holds, Job
<1>5. j.dir2 = NULL /\ j.inode2 = NULL /\ j.up = NULL /\ (j.op # "link" \/ j.goal = "dir")
  <2>1. j.slot2 = NULL /\ (j.op # "link" \/ j.goal = "dir")  BY <1>2, <1>3 DEF CallFits, Walking
  <2>2. j.dir2 = NULL  BY <1>2, <1>3 DEF Holds, Walking, Renaming
  <2>3. QED  BY <1>2, <1>3, <2>1, <2>2 DEF Holds
<1>6. Added(j.dir, j.name, j.inode) \in [Ino -> [Slot -> Entry]]
  BY <1>1, <1>2, <1>4, AddedFits DEF CanAdd
<1>7. QED  BY <1>1, <1>2, <1>3, <1>4, <1>5, <1>6

LEMMA MknodStep == ASSUME IInv, NEW p \in Proc, Mknod(p) PROVE IInv'
PROOF
<1>1. CanAdd(p) /\ FsTyped /\ entry' \in [Ino -> [Slot -> Entry]]  BY Adding DEF Mknod
<1>2. Return(p, nlink, kind) /\ UNCHANGED <<parent, target, open, calls>>  BY DEF Mknod
<1>3. parent' \in [Ino -> Ino] /\ nlink \in [Ino -> Int] /\ kind \in [Ino -> Kinds]
  BY <1>1, <1>2 DEF FsTyped, Kinds
<1>4. QED  BY <1>1, <1>2, <1>3, ReturnFits

LEMMA MkdirStep == ASSUME IInv, NEW p \in Proc, Mkdir(p) PROVE IInv'
PROOF
<1>1. /\ CanAdd(p) /\ FsTyped /\ entry' \in [Ino -> [Slot -> Entry]] /\ job[p].dir \in Ino
  BY Adding DEF Mkdir
<1>2. Return(p, LinksOfMkdir(job[p].dir), kind) /\ UNCHANGED <<parent, target, open, calls>>
  BY DEF Mkdir
<1>3. parent' \in [Ino -> Ino] /\ kind \in [Ino -> Kinds] /\ nlink \in [Ino -> Int]
  BY <1>1, <1>2 DEF FsTyped, Kinds
<1>4. LinksOfMkdir(job[p].dir) \in [Ino -> Int]
  BY <1>1, <1>3 DEF LinksOfMkdir
<1>5. QED  BY <1>1, <1>2, <1>3, <1>4, ReturnFits

(* dir is put. *)
LEMMA DirPut ==
  ASSUME IInv, NEW p \in Proc, count' = Put(count, job[p], {"dir"})
  PROVE  count' \in Counts /\ \A i \in Ino : count'[i] = count[i] - One(job[p].dir, i)
PROOF
<1>1. count \in Counts  BY CallOf DEF TypeOK, Counts
<1>2. /\ Put(count, job[p], {"dir"}) \in Counts
      /\ \A i \in Ino : Put(count, job[p], {"dir"})[i] = count[i] - One(job[p].dir, i)
  BY <1>1, PutOf
<1>3. QED  BY <1>2

LEMMA CreateStep == ASSUME IInv, NEW p \in Proc, Create(p) PROVE IInv'
PROOF
<1>1. TypeOK /\ open[p] = NULL  BY CallOf DEF Create
<1>2. /\ CanAdd(p) /\ FsTyped /\ entry' \in [Ino -> [Slot -> Entry]] /\ job[p].inode \in Ino
      /\ job[p].dir2 = NULL /\ job[p].inode2 = NULL /\ job[p].up = NULL
  BY Adding DEF Create
<1>3. /\ count' = Put(count, job[p], {"dir"}) /\ kind' = Freed(count', nlink, kind)
      /\ open' = [open EXCEPT ![p] = job[p].inode] /\ job' = [job EXCEPT ![p] = Out]
      /\ UNCHANGED <<nlink, parent, target, lock, calls>>
  BY DEF Create
<1>4. count' \in Counts /\ \A i \in Ino : count'[i] = count[i] - One(job[p].dir, i)
  BY <1>3, DirPut
<1>5. FsTyped'
  <2>1. kind' \in [Ino -> Kinds]  BY <1>2, <1>3, FreedType DEF FsTyped, Kinds
  <2>2. QED  BY <1>2, <1>3, <2>1 DEF FsTyped, Kinds
<1>6. ASSUME NEW i \in Ino
      PROVE  count'[i] = count[i] - OfCall(job[p], i) + One(job[p].inode, i)
  <2>1. OfCall(job[p], i) = One(job[p].dir, i) + One(job[p].inode, i)
    BY <1>2 DEF OfCall, One, NULL, Ino
  <2>2. count[i] \in Int /\ One(job[p].dir, i) \in Int /\ One(job[p].inode, i) \in Int
    BY <1>1 DEF TypeOK, One
  <2>3. QED  BY <1>4, <2>1, <2>2
<1>7. job[p].inode \in Ref  BY <1>2 DEF Ref
<1>8. QED  BY <1>1, <1>3, <1>4, <1>5, <1>6, <1>7, OpensFits

(* A call that puts references, and takes none for them, by its end or on its way. *)
LEMMA PutsFit ==
  ASSUME IInv, NEW p \in Proc, NEW r \in Job, CallFits(r), Holds(r), r.op \in {job[p].op, "out"},
         count' \in Counts, \A i \in Ino : count'[i] = count[i] + OfCall(r, i) - OfCall(job[p], i),
         job' = [job EXCEPT ![p] = r], FsTyped', UNCHANGED <<open, lock, calls>>
  PROVE  IInv'
PROOF
<1>1. /\ TypeOK /\ open[p] \in Ref
      /\ (job[p].op \in {"open", "creat"} => open[p] = NULL)
  BY CallOf
<1>2. ASSUME NEW i \in Ino
      PROVE  count'[i] = count[i] + OfCall(r, i) - OfCall(job[p], i) + One(open[p], i) - One(open[p], i)
  <2>1. count[i] \in Int /\ OfCall(job[p], i) \in Nat /\ OfCall(r, i) \in Nat /\ One(open[p], i) \in Int
    BY <1>1, OfCallType DEF TypeOK, One
  <2>2. count'[i] = count[i] + OfCall(r, i) - OfCall(job[p], i)  OBVIOUS
  <2>3. QED  BY <2>1, <2>2
<1>3. open' = [open EXCEPT ![p] = open[p]] /\ lock' \in Proc \cup {NoProc} /\ calls' \in 0..MaxCalls
  BY <1>1 DEF TypeOK
<1>4. r.op \in {"open", "creat"} => open[p] = NULL  BY <1>1
<1>5. Moves(p, r, open[p])  BY <1>1, <1>2, <1>3, <1>4 DEF Moves
<1>6. QED  BY <1>5, MovesFit

LEMMA LinkStep == ASSUME IInv, NEW p \in Proc, Link(p) PROVE IInv'
PROOF
<1>1. TypeOK  BY CallOf
<1>2. PICK j \in Job : j = job[p] /\ CallFits(j) /\ Holds(j)  BY CallOf
<1>3. /\ CanAdd(p) /\ FsTyped /\ entry' \in [Ino -> [Slot -> Entry]] /\ j.goal = "dir"
      /\ j.op = "link" /\ j.at = "add"
  BY <1>2, Adding DEF Link, CanAdd, At
<1>4. /\ count' = Put(count, job[p], {"dir"}) /\ kind' = Freed(count', nlink, kind)
      /\ job' = [job EXCEPT ![p].at = "linked", ![p].dir = NULL]
      /\ UNCHANGED <<nlink, parent, target, open, lock, calls>>
  BY DEF Link
<1> DEFINE r == [j EXCEPT !.at = "linked", !.dir = NULL]
<1>a. r \in Job
  <2>1. "linked" \in Locations /\ NULL \in Ref  BY Places DEF Ref
  <2>2. QED  BY <2>1 DEF Job
<1>b. /\ r.op = j.op /\ r.at = "linked" /\ r.goal = j.goal /\ r.path = j.path /\ r.dir = NULL
      /\ r.dir2 = j.dir2 /\ r.inode = j.inode /\ r.inode2 = j.inode2 /\ r.up = j.up
      /\ r.slot = j.slot /\ r.slot2 = j.slot2 /\ r.ino = j.ino
  BY DEF Job
<1>c. job' = [job EXCEPT ![p] = r]  BY <1>1, <1>2, <1>4 DEF TypeOK
<1> HIDE DEF r
<1>d. CallFits(r)  BY <1>2, <1>3, <1>b, WhereIs DEF CallFits, Walking, Renaming
<1>e. Holds(r)  BY <1>2, <1>3, <1>b DEF Holds, Walking, Renaming
<1>5. count' \in Counts /\ \A i \in Ino : count'[i] = count[i] - One(j.dir, i)
  BY <1>2, <1>4, DirPut
<1>6. ASSUME NEW i \in Ino PROVE count'[i] = count[i] + OfCall(r, i) - OfCall(job[p], i)
  <2>1. OfCall(job[p], i) = OfCall(r, i) + One(j.dir, i)
    BY <1>2, <1>b DEF OfCall, One, NULL, Ino
  <2>2. count[i] \in Int /\ OfCall(r, i) \in Nat /\ One(j.dir, i) \in Int
    BY <1>1, OfCallType DEF TypeOK, One
  <2>3. QED  BY <1>5, <2>1, <2>2
<1>7. FsTyped'
  <2>1. kind' \in [Ino -> Kinds]  BY <1>3, <1>4, FreedType DEF FsTyped, Kinds
  <2>2. QED  BY <1>3, <1>4, <2>1 DEF FsTyped, Kinds
<1>8. r.op \in {job[p].op, "out"}  BY <1>2, <1>b
<1>9. QED  BY <1>4, <1>5, <1>6, <1>7, <1>8, <1>a, <1>c, <1>d, <1>e, PutsFit

(* Links are counted for one inode more or less. *)
LEMMA LinkFits ==
  ASSUME NEW n \in [Ino -> Int], NEW x
  PROVE  /\ [n EXCEPT ![x] = n[x] + 1] \in [Ino -> Int]
         /\ [n EXCEPT ![x] = n[x] - 1] \in [Ino -> Int]
         /\ [n EXCEPT ![x] = IF n[x] = 0 THEN 0 ELSE n[x] - 1] \in [Ino -> Int]
PROOF
<1>1. CASE x \in Ino  BY <1>1
<1>2. CASE x \notin Ino
  <2>1. \A v : [n EXCEPT ![x] = v] = n  BY <1>2
  <2>2. QED  BY <2>1
<1>3. QED  BY <1>1, <1>2

LEMMA LinkedStep == ASSUME IInv, NEW p \in Proc, Linked(p) PROVE IInv'
PROOF
<1>1. FsTyped  BY CallOf DEF TypeOK
<1>2. PICK n : n = [nlink EXCEPT ![job[p].inode] = @ + 1]  OBVIOUS
<1>3. n \in [Ino -> Int]
  <2>1. nlink \in [Ino -> Int]  BY <1>1 DEF FsTyped
  <2>2. QED  BY <1>2, <2>1, LinkFits
<1>4. Return(p, n, kind) /\ UNCHANGED <<entry, parent, target, open, calls>>  BY <1>2 DEF Linked
<1>5. /\ entry' \in [Ino -> [Slot -> Entry]] /\ parent' \in [Ino -> Ino]
      /\ kind \in [Ino -> Kinds]
  BY <1>1, <1>4 DEF FsTyped, Kinds
<1>6. QED  BY <1>3, <1>4, <1>5, ReturnFits

(***************************************************************************)
(* unlink and rmdir.                                                       *)
(***************************************************************************)
LEMMA ClearedFits ==
  ASSUME FsTyped, NEW d, NEW s PROVE Cleared(d, s) \in [Ino -> [Slot -> Entry]]
PROOF
<1>1. entry \in [Ino -> [Slot -> Entry]]  BY DEF FsTyped
<1>2. ASSUME NEW e \in Entry PROVE [e EXCEPT !.ino = NULL] \in Entry
  BY DEF Entry, Ref
<1>3. ASSUME NEW i \in Ino PROVE Cleared(d, s)[i] \in [Slot -> Entry]
  <2>1. entry[i] \in [Slot -> Entry]  BY <1>1
  <2>2. [entry[i] EXCEPT ![s].ino = NULL] \in [Slot -> Entry]  BY <1>2, <2>1
  <2>3. Cleared(d, s)[i] = IF i = d THEN [entry[i] EXCEPT ![s].ino = NULL] ELSE entry[i]
    BY <1>1 DEF Cleared
  <2>4. QED  BY <2>1, <2>2, <2>3
<1>4. Cleared(d, s) = [i \in Ino |-> Cleared(d, s)[i]]  BY <1>1 DEF Cleared
<1>5. QED  BY <1>3, <1>4

LEMMA FindEntryStep == ASSUME IInv, NEW p \in Proc, FindEntry(p) PROVE IInv'
PROOF
<1>1. TypeOK /\ FsTyped  BY CallOf DEF TypeOK
<1>2. PICK j \in Job : j = job[p] /\ CallFits(j) /\ Holds(j)  BY CallOf
<1>3. j.at = "entry" /\ j.op \in {"unlink", "rmdir"} /\ j.dir \in Ino
  <2>1. j.at = "entry"  BY <1>2 DEF FindEntry, At
  <2>2. j.op \in {"unlink", "rmdir"}  BY <1>2, <2>1, WhereIs DEF CallFits, Renaming
  <2>3. QED  BY <1>2, <2>1, <2>2, RefIsIno DEF Holds, Job, Renaming
<1> DEFINE found == Find(j.dir, j.name)
<1>4. CASE /\ found # {}
           /\ job' = [job EXCEPT ![p] = [j EXCEPT !.at = "remove", !.slot = Min(found),
                                           !.ino = entry[j.dir][Min(found)].ino]]
           /\ UNCHANGED <<fs, count, open, lock, calls>>
  <2>1. PICK s \in Slot : s = Min(found)  BY <1>1, <1>3, <1>4, FoundIsEntry
  <2>2. PICK i \in Ino : i = entry[j.dir][s].ino  BY <1>1, <1>3, <1>4, <2>1, FoundIsEntry
  <2> DEFINE r == [j EXCEPT !.at = "remove", !.slot = s, !.ino = i]
  <2>3. i \in Ref /\ i # NULL /\ s # NULL  BY DEF Ref, Ino, NULL, Slot
  <2>a. r \in Job  BY <2>3, Places DEF Job
  <2>b. /\ r.op = j.op /\ r.at = "remove" /\ r.goal = j.goal /\ r.path = j.path /\ r.dir = j.dir
        /\ r.dir2 = j.dir2 /\ r.inode = j.inode /\ r.inode2 = j.inode2 /\ r.up = j.up
        /\ r.slot = s /\ r.slot2 = j.slot2 /\ r.ino = i
    BY DEF Job
  <2>c. job' = [job EXCEPT ![p] = r]  BY <1>4, <2>1, <2>2
  <2> HIDE DEF r, found
  <2>d. CallFits(r)  BY <1>2, <1>3, <2>3, <2>b, WhereIs DEF CallFits, Walking, Renaming
  <2>e. Holds(r)  BY <1>2, <1>3, <2>3, <2>b DEF Holds, Walking, Renaming
  <2>f. SameRefs(job[p], r) /\ r.op = job[p].op  BY <1>2, <2>b DEF SameRefs
  <2>g. FsTyped' /\ lock' \in Proc \cup {NoProc}  BY <1>1, <1>4, FsStays DEF TypeOK
  <2>h. QED  BY <1>4, <2>a, <2>c, <2>d, <2>e, <2>f, <2>g, GoesOn
<1>5. CASE Fail(p)  BY <1>5, FailFits
<1>6. QED  BY <1>2, <1>4, <1>5 DEF FindEntry

LEMMA UnlinkStep == ASSUME IInv, NEW p \in Proc, Unlink(p) PROVE IInv'
PROOF
<1>1. TypeOK /\ FsTyped  BY CallOf DEF TypeOK
<1>2. PICK j \in Job : j = job[p] /\ CallFits(j) /\ Holds(j)  BY CallOf
<1>3. j.at = "remove" /\ j.op = "unlink"  BY <1>2 DEF Unlink, At
<1>4. CASE Fail(p)  BY <1>4, FailFits
<1>5. CASE /\ entry' = Cleared(j.dir, j.slot)
           /\ count' = Put(count, j, {"dir"})
           /\ nlink' = [nlink EXCEPT ![j.ino] = IF @ = 0 THEN 0 ELSE @ - 1]
           /\ kind' = Freed(count', nlink', kind)
           /\ job' = [job EXCEPT ![p] = Out]
           /\ UNCHANGED <<parent, target, open, lock, calls>>
  <2>1. count' \in Counts /\ \A i \in Ino : count'[i] = count[i] - One(j.dir, i)
    BY <1>2, <1>5, DirPut
  <2>2. j.dir2 = NULL /\ j.inode = NULL /\ j.inode2 = NULL /\ j.up = NULL
    <3>1. j.slot2 = NULL  BY <1>2, <1>3 DEF CallFits
    <3>2. j.dir2 = NULL  BY <1>2, <1>3 DEF Holds, Renaming, Walking
    <3>3. j.inode = NULL  BY <1>2, <1>3 DEF Holds
    <3>4. QED  BY <1>2, <1>3, <3>1, <3>2, <3>3 DEF Holds
  <2>3. ASSUME NEW i \in Ino PROVE count'[i] = count[i] + OfCall(Out, i) - OfCall(job[p], i)
    <3>1. OfCall(job[p], i) = One(j.dir, i)  BY <1>2, <2>2 DEF OfCall, One, NULL, Ino
    <3>2. OfCall(Out, i) = 0 /\ count[i] \in Int /\ One(j.dir, i) \in Int
      BY <1>1, OutFits DEF TypeOK, One
    <3>3. QED  BY <2>1, <3>1, <3>2
  <2>4. FsTyped'
    <3>1. nlink' \in [Ino -> Int]
      <4>1. nlink \in [Ino -> Int]  BY <1>1 DEF FsTyped
      <4>2. QED  BY <1>5, <4>1, LinkFits
    <3>2. kind' \in [Ino -> Kinds]  BY <1>1, <1>5, FreedType DEF FsTyped, Kinds
    <3>3. entry' \in [Ino -> [Slot -> Entry]]  BY <1>1, <1>5, ClearedFits
    <3>4. QED  BY <1>1, <1>5, <3>1, <3>2, <3>3 DEF FsTyped, Kinds
  <2>5. Out.op \in {job[p].op, "out"}  BY DEF Out
  <2>6. QED  BY <1>5, <2>1, <2>3, <2>4, <2>5, OutFits, PutsFit
<1>6. QED  BY <1>2, <1>4, <1>5 DEF Unlink

LEMMA RmdirIgetStep == ASSUME IInv, NEW p \in Proc, RmdirIget(p) PROVE IInv'
PROOF
<1>1. TypeOK /\ FsTyped  BY CallOf DEF TypeOK
<1>2. PICK j \in Job : j = job[p] /\ CallFits(j) /\ Holds(j)  BY CallOf
<1>3. j.at = "remove" /\ j.op = "rmdir" /\ j.ino # NULL /\ j.slot # NULL
  BY <1>2 DEF RmdirIget, At, CallFits, Renaming
<1>4. PICK x \in Ino : x = j.ino  BY <1>3, RefIsIno DEF Job
<1>5. count' = Iget(x) /\ UNCHANGED <<fs, open, lock, calls>>
      /\ job' = [job EXCEPT ![p].at = "rmdir", ![p].inode = x]
  BY <1>2, <1>4 DEF RmdirIget
<1> DEFINE r == [j EXCEPT !.at = "rmdir", !.inode = x]
<1>6. x \in Ref /\ x # NULL  BY DEF Ref, Ino, NULL
<1>a. r \in Job  BY <1>6, Places DEF Job
<1>b. /\ r.op = j.op /\ r.at = "rmdir" /\ r.goal = j.goal /\ r.path = j.path /\ r.dir = j.dir
      /\ r.dir2 = j.dir2 /\ r.inode = x /\ r.inode2 = j.inode2 /\ r.up = j.up /\ r.slot = j.slot
      /\ r.slot2 = j.slot2 /\ r.ino = j.ino
  BY DEF Job
<1>c. job' = [job EXCEPT ![p] = r]  BY <1>1, <1>2, <1>5 DEF TypeOK
<1> HIDE DEF r
<1>d. CallFits(r)  BY <1>2, <1>3, <1>6, <1>b, WhereIs DEF CallFits, Walking, Renaming
<1>e. Holds(r)  BY <1>2, <1>3, <1>6, <1>b DEF Holds, CallFits, Walking, Renaming
<1>f. j.inode = NULL  BY <1>2, <1>3 DEF Holds, CallFits
<1>g. \A i \in Ino : OfCall(r, i) = OfCall(job[p], i) + One(x, i)
  BY <1>2, <1>b, <1>f DEF OfCall, One, Ino, NULL
<1>h. FsTyped' /\ r.op = job[p].op  BY <1>1, <1>2, <1>5, <1>b, FsStays
<1>i. QED  BY <1>5, <1>a, <1>c, <1>d, <1>e, <1>g, <1>h, Taken

LEMMA RmdirStep == ASSUME IInv, NEW p \in Proc, Rmdir(p) PROVE IInv'
PROOF
<1>1. FsTyped  BY CallOf DEF TypeOK
<1>2. PICK j : j = job[p]  OBVIOUS
<1>3. CASE Fail(p)  BY <1>3, FailFits
<1>4. CASE /\ entry' = Cleared(j.dir, j.slot)
           /\ Return(p, [nlink EXCEPT ![j.inode] = 0, ![j.dir] = @ - 1], kind)
           /\ UNCHANGED <<parent, target, open, calls>>
  <2>1. PICK n : n = [nlink EXCEPT ![j.inode] = 0, ![j.dir] = @ - 1]  OBVIOUS
  <2>2. n \in [Ino -> Int]
    <3>1. nlink \in [Ino -> Int] /\ j.dir \in Ino
      <4>1. Holds(j) /\ j.at = "rmdir" /\ j.dir \in Ref  BY <1>2, CallOf DEF Rmdir, At, Job
      <4>2. QED  BY <1>1, <4>1, RefIsIno DEF Holds, FsTyped
    <3>2. QED  BY <2>1, <3>1
  <2>3. entry' \in [Ino -> [Slot -> Entry]]  BY <1>1, <1>4, ClearedFits
  <2>4. parent' \in [Ino -> Ino] /\ kind \in [Ino -> Kinds]  BY <1>1, <1>4 DEF FsTyped, Kinds
  <2>5. QED  BY <1>4, <2>1, <2>2, <2>3, <2>4, ReturnFits
<1>5. QED  BY <1>2, <1>3, <1>4 DEF Rmdir

(***************************************************************************)
(* rename.                                                                 *)
(***************************************************************************)
LEMMA RenameLockStep == ASSUME IInv, NEW p \in Proc, RenameLock(p) PROVE IInv'
PROOF
<1>1. PICK j \in Job : j = job[p] /\ CallFits(j) /\ Holds(j)  BY CallOf
<1>2. j.at = "lock" /\ j.op = "rename"  BY <1>1 DEF RenameLock, At, CallFits, Renaming
<1>3. /\ Goto(p, "old") /\ UNCHANGED <<fs, count, open, calls>> /\ lock' \in {lock, p}
  BY DEF RenameLock
<1> DEFINE r == [j EXCEPT !.at = "old"]
<1>b. /\ r.op = j.op /\ r.at = "old" /\ r.goal = j.goal /\ r.path = j.path /\ r.dir = j.dir
      /\ r.dir2 = j.dir2 /\ r.inode = j.inode /\ r.inode2 = j.inode2 /\ r.up = j.up
      /\ r.slot = j.slot /\ r.slot2 = j.slot2 /\ r.ino = j.ino
  BY DEF Job
<1> HIDE DEF r
<1>4. CallFits(r)  BY <1>1, <1>2, <1>b, WhereIs DEF CallFits, Walking, Renaming
<1>5. Holds(r)  BY <1>1, <1>2, <1>b DEF Holds, Walking, Renaming
<1>6. QED  BY <1>1, <1>3, <1>4, <1>5, GotoStep, Places DEF r

LEMMA RenameOldStep == ASSUME IInv, NEW p \in Proc, RenameOld(p) PROVE IInv'
PROOF
<1>1. TypeOK /\ FsTyped  BY CallOf DEF TypeOK
<1>2. PICK j \in Job : j = job[p] /\ CallFits(j) /\ Holds(j)  BY CallOf
<1>3. j.at = "old" /\ j.op = "rename" /\ j.dir \in Ino
  <2>1. j.at = "old"  BY <1>2 DEF RenameOld, At
  <2>2. j.op = "rename"  BY <1>2, <2>1, WhereIs DEF CallFits, Renaming
  <2>3. QED  BY <1>2, <2>1, <2>2, RefIsIno DEF Holds, Job, Renaming
<1> DEFINE found == Find(j.dir, j.name)
<1>4. CASE /\ found # {}
           /\ job' = [job EXCEPT ![p] = [j EXCEPT !.at = "old_iget", !.slot = Min(found),
                                           !.ino = entry[j.dir][Min(found)].ino]]
           /\ UNCHANGED <<fs, count, open, lock, calls>>
  <2>1. PICK s \in Slot : s = Min(found)  BY <1>1, <1>3, <1>4, FoundIsEntry
  <2>2. PICK i \in Ino : i = entry[j.dir][s].ino  BY <1>1, <1>3, <1>4, <2>1, FoundIsEntry
  <2> DEFINE r == [j EXCEPT !.at = "old_iget", !.slot = s, !.ino = i]
  <2>3. i \in Ref /\ i # NULL /\ s # NULL  BY DEF Ref, Ino, NULL, Slot
  <2>a. r \in Job  BY <2>3, Places DEF Job
  <2>b. /\ r.op = j.op /\ r.at = "old_iget" /\ r.goal = j.goal /\ r.path = j.path
        /\ r.dir = j.dir /\ r.dir2 = j.dir2 /\ r.inode = j.inode /\ r.inode2 = j.inode2
        /\ r.up = j.up /\ r.slot = s /\ r.slot2 = j.slot2 /\ r.ino = i
    BY DEF Job
  <2>c. job' = [job EXCEPT ![p] = r]  BY <1>4, <2>1, <2>2
  <2> HIDE DEF r, found
  <2>d. CallFits(r)  BY <1>2, <1>3, <2>3, <2>b, WhereIs DEF CallFits, Walking, Renaming
  <2>e. Holds(r)  BY <1>2, <1>3, <2>3, <2>b DEF Holds, Walking, Renaming
  <2>f. SameRefs(job[p], r) /\ r.op = job[p].op  BY <1>2, <2>b DEF SameRefs
  <2>g. FsTyped' /\ lock' \in Proc \cup {NoProc}  BY <1>1, <1>4, FsStays DEF TypeOK
  <2>h. QED  BY <1>4, <2>a, <2>c, <2>d, <2>e, <2>f, <2>g, GoesOn
<1>5. CASE Fail(p)  BY <1>5, FailFits
<1>6. QED  BY <1>2, <1>4, <1>5 DEF RenameOld

LEMMA RenameOldIgetStep == ASSUME IInv, NEW p \in Proc, RenameOldIget(p) PROVE IInv'
PROOF
<1>1. TypeOK /\ FsTyped  BY CallOf DEF TypeOK
<1>2. PICK j \in Job : j = job[p] /\ CallFits(j) /\ Holds(j)  BY CallOf
<1>3. j.at = "old_iget" /\ j.op = "rename" /\ j.ino # NULL /\ j.slot # NULL
  BY <1>2 DEF RenameOldIget, At, CallFits, Renaming
<1>4. PICK x \in Ino : x = j.ino  BY <1>3, RefIsIno DEF Job
<1>5. count' = Iget(x) /\ UNCHANGED <<fs, open, lock, calls>>
      /\ job' = [job EXCEPT ![p].at = "new_name", ![p].inode = x]
  BY <1>2, <1>4 DEF RenameOldIget
<1> DEFINE r == [j EXCEPT !.at = "new_name", !.inode = x]
<1>6. x \in Ref /\ x # NULL  BY DEF Ref, Ino, NULL
<1>a. r \in Job  BY <1>6, Places DEF Job
<1>b. /\ r.op = j.op /\ r.at = "new_name" /\ r.goal = j.goal /\ r.path = j.path /\ r.dir = j.dir
      /\ r.dir2 = j.dir2 /\ r.inode = x /\ r.inode2 = j.inode2 /\ r.up = j.up /\ r.slot = j.slot
      /\ r.slot2 = j.slot2 /\ r.ino = j.ino
  BY DEF Job
<1>c. job' = [job EXCEPT ![p] = r]  BY <1>1, <1>2, <1>5 DEF TypeOK
<1> HIDE DEF r
<1>d. CallFits(r)  BY <1>2, <1>3, <1>6, <1>b, WhereIs DEF CallFits, Walking, Renaming
<1>e. Holds(r)  BY <1>2, <1>3, <1>6, <1>b DEF Holds, CallFits, Walking, Renaming
<1>f. j.inode = NULL  BY <1>2, <1>3 DEF Holds, CallFits
<1>g. \A i \in Ino : OfCall(r, i) = OfCall(job[p], i) + One(x, i)
  BY <1>2, <1>b, <1>f DEF OfCall, One, Ino, NULL
<1>h. FsTyped' /\ r.op = job[p].op  BY <1>1, <1>2, <1>5, <1>b, FsStays
<1>i. QED  BY <1>5, <1>a, <1>c, <1>d, <1>e, <1>g, <1>h, Taken

LEMMA RenameNewStep == ASSUME IInv, NEW p \in Proc, RenameNew(p) PROVE IInv'
PROOF
<1>1. TypeOK /\ FsTyped  BY CallOf DEF TypeOK
<1>2. PICK j \in Job : j = job[p] /\ CallFits(j) /\ Holds(j)  BY CallOf
<1>3. j.at = "new_name" /\ j.op = "rename" /\ j.slot # NULL /\ j.dir2 \in Ino
  <2>1. j.at = "new_name"  BY <1>2 DEF RenameNew, At
  <2>2. j.op = "rename" /\ j.slot # NULL  BY <1>2, <2>1, WhereIs DEF CallFits, Renaming
  <2>3. QED  BY <1>2, <2>1, <2>2, RefIsIno DEF Holds, Job, Renaming
<1> DEFINE found == Find(j.dir2, j.name2)
<1>4. CASE /\ found # {}
           /\ job' = [job EXCEPT ![p] = [j EXCEPT !.at = "new_iget", !.slot2 = Min(found),
                                           !.ino = entry[j.dir2][Min(found)].ino]]
           /\ UNCHANGED <<fs, count, open, lock, calls>>
  <2>1. PICK s \in Slot : s = Min(found)  BY <1>1, <1>3, <1>4, FoundIsEntry
  <2>2. PICK i \in Ino : i = entry[j.dir2][s].ino  BY <1>1, <1>3, <1>4, <2>1, FoundIsEntry
  <2> DEFINE r == [j EXCEPT !.at = "new_iget", !.slot2 = s, !.ino = i]
  <2>3. i \in Ref /\ i # NULL /\ s # NULL  BY DEF Ref, Ino, NULL, Slot
  <2>a. r \in Job  BY <2>3, Places DEF Job
  <2>b. /\ r.op = j.op /\ r.at = "new_iget" /\ r.goal = j.goal /\ r.path = j.path
        /\ r.dir = j.dir /\ r.dir2 = j.dir2 /\ r.inode = j.inode /\ r.inode2 = j.inode2
        /\ r.up = j.up /\ r.slot = j.slot /\ r.slot2 = s /\ r.ino = i
    BY DEF Job
  <2>c. job' = [job EXCEPT ![p] = r]  BY <1>4, <2>1, <2>2
  <2> HIDE DEF r, found
  <2>d. CallFits(r)  BY <1>2, <1>3, <2>3, <2>b, WhereIs DEF CallFits, Walking, Renaming
  <2>e. Holds(r)  BY <1>2, <1>3, <2>3, <2>b DEF Holds, CallFits, Walking, Renaming
  <2>f. SameRefs(job[p], r) /\ r.op = job[p].op  BY <1>2, <2>b DEF SameRefs
  <2>g. FsTyped' /\ lock' \in Proc \cup {NoProc}  BY <1>1, <1>4, FsStays DEF TypeOK
  <2>h. QED  BY <1>4, <2>a, <2>c, <2>d, <2>e, <2>f, <2>g, GoesOn
<1>5. CASE Goto(p, "check") /\ UNCHANGED <<fs, count, open, lock, calls>>
  <2> DEFINE r == [j EXCEPT !.at = "check"]
  <2>b. /\ r.op = j.op /\ r.at = "check" /\ r.goal = j.goal /\ r.path = j.path /\ r.dir = j.dir
        /\ r.dir2 = j.dir2 /\ r.inode = j.inode /\ r.inode2 = j.inode2 /\ r.up = j.up
        /\ r.slot = j.slot /\ r.slot2 = j.slot2 /\ r.ino = j.ino
    BY DEF Job
  <2> HIDE DEF r
  <2>d. CallFits(r)  BY <1>2, <1>3, <2>b, WhereIs DEF CallFits, Walking, Renaming
  <2>e. Holds(r)  BY <1>2, <1>3, <2>b DEF Holds, CallFits, Walking, Renaming
  <2>f. QED  BY <1>2, <1>5, <2>d, <2>e, GotoStep, Places DEF r
<1>6. QED  BY <1>2, <1>4, <1>5 DEF RenameNew

LEMMA RenameNewIgetStep == ASSUME IInv, NEW p \in Proc, RenameNewIget(p) PROVE IInv'
PROOF
<1>1. TypeOK /\ FsTyped  BY CallOf DEF TypeOK
<1>2. PICK j \in Job : j = job[p] /\ CallFits(j) /\ Holds(j)  BY CallOf
<1>3. j.at = "new_iget" /\ j.op = "rename" /\ j.slot2 # NULL /\ j.ino # NULL /\ j.slot # NULL
  BY <1>2 DEF RenameNewIget, At, CallFits, Renaming
<1>4. PICK x \in Ino : x = j.ino  BY <1>3, RefIsIno DEF Job
<1>5. count' = Iget(x) /\ UNCHANGED <<fs, open, lock, calls>>
      /\ job' = [job EXCEPT ![p].at = "check", ![p].inode2 = x]
  BY <1>2, <1>4 DEF RenameNewIget
<1> DEFINE r == [j EXCEPT !.at = "check", !.inode2 = x]
<1>6. x \in Ref /\ x # NULL  BY DEF Ref, Ino, NULL
<1>a. r \in Job  BY <1>6, Places DEF Job
<1>b. /\ r.op = j.op /\ r.at = "check" /\ r.goal = j.goal /\ r.path = j.path /\ r.dir = j.dir
      /\ r.dir2 = j.dir2 /\ r.inode = j.inode /\ r.inode2 = x /\ r.up = j.up /\ r.slot = j.slot
      /\ r.slot2 = j.slot2 /\ r.ino = j.ino
  BY DEF Job
<1>c. job' = [job EXCEPT ![p] = r]  BY <1>1, <1>2, <1>5 DEF TypeOK
<1> HIDE DEF r
<1>d. CallFits(r)  BY <1>2, <1>3, <1>6, <1>b, WhereIs DEF CallFits, Walking, Renaming
<1>e. Holds(r)  BY <1>2, <1>3, <1>6, <1>b DEF Holds, CallFits, Walking, Renaming
<1>f. j.inode2 = NULL  BY <1>2, <1>3 DEF Holds, CallFits
<1>g. \A i \in Ino : OfCall(r, i) = OfCall(job[p], i) + One(x, i)
  BY <1>2, <1>b, <1>f DEF OfCall, One, Ino, NULL
<1>h. FsTyped' /\ r.op = job[p].op  BY <1>1, <1>2, <1>5, <1>b, FsStays
<1>i. QED  BY <1>5, <1>a, <1>c, <1>d, <1>e, <1>g, <1>h, Taken

LEMMA RenameCheckStep == ASSUME IInv, NEW p \in Proc, RenameCheck(p) PROVE IInv'
PROOF
<1>1. TypeOK /\ FsTyped  BY CallOf DEF TypeOK
<1>2. PICK j \in Job : j = job[p] /\ CallFits(j) /\ Holds(j)  BY CallOf
<1>3. j.at = "check" /\ j.op = "rename" /\ j.slot # NULL  BY <1>2 DEF RenameCheck, At, CallFits, Renaming
<1>4. CASE Fail(p)  BY <1>4, FailFits
<1>5. CASE Goto(p, "sanity") /\ UNCHANGED <<fs, count, open, lock, calls>>
  <2> DEFINE r == [j EXCEPT !.at = "sanity"]
  <2>b. /\ r.op = j.op /\ r.at = "sanity" /\ r.goal = j.goal /\ r.path = j.path /\ r.dir = j.dir
        /\ r.dir2 = j.dir2 /\ r.inode = j.inode /\ r.inode2 = j.inode2 /\ r.up = j.up
        /\ r.slot = j.slot /\ r.slot2 = j.slot2 /\ r.ino = j.ino
    BY DEF Job
  <2> HIDE DEF r
  <2>d. CallFits(r)  BY <1>2, <1>3, <2>b, WhereIs DEF CallFits, Walking, Renaming
  <2>e. Holds(r)  BY <1>2, <1>3, <2>b DEF Holds, CallFits, Walking, Renaming
  <2>f. QED  BY <1>2, <1>5, <2>d, <2>e, GotoStep, Places DEF r
<1>6. CASE /\ count' = Iget(j.dir2)
           /\ job' = [job EXCEPT ![p] = [j EXCEPT !.at = "subdir", !.up = j.dir2]]
           /\ UNCHANGED <<fs, open, lock, calls>>
  <2> DEFINE r == [j EXCEPT !.at = "subdir", !.up = j.dir2]
  <2>1. j.dir2 \in Ino /\ j.dir2 \in Ref /\ j.dir2 # NULL
    BY <1>2, <1>3, RefIsIno DEF Holds, Job, Renaming
  <2>a. r \in Job  BY <2>1, Places DEF Job
  <2>b. /\ r.op = j.op /\ r.at = "subdir" /\ r.goal = j.goal /\ r.path = j.path /\ r.dir = j.dir
        /\ r.dir2 = j.dir2 /\ r.inode = j.inode /\ r.inode2 = j.inode2 /\ r.up = j.dir2
        /\ r.slot = j.slot /\ r.slot2 = j.slot2 /\ r.ino = j.ino
    BY DEF Job
  <2>c. job' = [job EXCEPT ![p] = r]  BY <1>6
  <2> HIDE DEF r
  <2>d. CallFits(r)  BY <1>2, <1>3, <2>b, WhereIs DEF CallFits, Walking, Renaming
  <2>e. Holds(r)  BY <1>2, <1>3, <2>1, <2>b DEF Holds, CallFits, Walking, Renaming
  <2>f. j.up = NULL  BY <1>2, <1>3 DEF Holds
  <2>g. \A i \in Ino : OfCall(r, i) = OfCall(job[p], i) + One(j.dir2, i)
    BY <1>2, <2>b, <2>f DEF OfCall, One, Ino, NULL
  <2>h. FsTyped' /\ r.op = job[p].op  BY <1>1, <1>2, <1>6, <2>b, FsStays
  <2>i. QED  BY <1>6, <2>1, <2>a, <2>c, <2>d, <2>e, <2>g, <2>h, Taken
<1>7. QED  BY <1>2, <1>4, <1>5, <1>6 DEF RenameCheck

LEMMA SubdirStep == ASSUME IInv, NEW p \in Proc, Subdir(p) PROVE IInv'
PROOF
<1>1. TypeOK /\ FsTyped /\ count \in Counts  BY CallOf DEF TypeOK, Counts
<1>2. PICK j \in Job : j = job[p] /\ CallFits(j) /\ Holds(j)  BY CallOf
<1>3. j.at = "subdir" /\ j.op = "rename" /\ j.slot # NULL /\ j.up \in Ino
  <2>1. j.at = "subdir" /\ j.op = "rename" /\ j.slot # NULL
    BY <1>2 DEF Subdir, At, CallFits, Renaming
  <2>2. QED  BY <1>2, <2>1, RefIsIno DEF Holds, Job
<1>4. CASE Fail(p)  BY <1>4, FailFits
<1>5. CASE /\ count' = Put(Iget(parent[j.up]), j, {"up"})
           /\ job' = [job EXCEPT ![p].up = parent[j.up]]
           /\ UNCHANGED <<fs, open, lock, calls>>
  <2>1. PICK x \in Ino : x = parent[j.up]  BY <1>1, <1>3 DEF FsTyped
  <2> DEFINE r == [j EXCEPT !.up = x]
  <2>2. x \in Ref /\ x # NULL  BY DEF Ref, Ino, NULL
  <2>a. r \in Job  BY <2>2 DEF Job
  <2>b. /\ r.op = j.op /\ r.at = j.at /\ r.goal = j.goal /\ r.path = j.path /\ r.dir = j.dir
        /\ r.dir2 = j.dir2 /\ r.inode = j.inode /\ r.inode2 = j.inode2 /\ r.up = x
        /\ r.slot = j.slot /\ r.slot2 = j.slot2 /\ r.ino = j.ino
    BY DEF Job
  <2>c. job' = [job EXCEPT ![p] = r]  BY <1>1, <1>2, <1>5, <2>1 DEF TypeOK
  <2> HIDE DEF r
  <2>d. CallFits(r)  BY <1>2, <1>3, <2>b, WhereIs DEF CallFits, Walking, Renaming
  <2>e. Holds(r)  BY <1>2, <1>3, <2>2, <2>b DEF Holds, Walking, Renaming
  <2>f. Iget(x) \in Counts /\ \A i \in Ino : Iget(x)[i] = count[i] + One(x, i)  BY <1>1, IgetOf
  <2>g. count' \in Counts /\ \A i \in Ino : count'[i] = Iget(x)[i] - One(j.up, i)
    <3>1. PICK c \in Counts : c = Iget(x)  BY <2>f
    <3>2. count' = Put(c, j, {"up"})  BY <1>5, <2>1, <3>1
    <3>3. /\ Put(c, j, {"up"}) \in Counts
          /\ \A i \in Ino : Put(c, j, {"up"})[i] = c[i] - One(j.up, i)
      BY PutOf
    <3>4. QED  BY <3>1, <3>2, <3>3
  <2>h. ASSUME NEW i \in Ino PROVE count'[i] = count[i] + OfCall(r, i) - OfCall(job[p], i)
    <3>1. count[i] \in Int /\ One(x, i) \in Int /\ One(j.up, i) \in Int /\ OfCall(r, i) \in Nat
      BY <1>1, OfCallType DEF Counts, One
    <3>2. OfCall(r, i) = OfCall(job[p], i) + One(x, i) - One(j.up, i)
      BY <1>2, <2>b DEF OfCall, One
    <3>3. OfCall(job[p], i) \in Nat  BY OfCallType
    <3>4. count'[i] = count[i] + One(x, i) - One(j.up, i)  BY <2>f, <2>g, <3>1
    <3>5. QED  BY <3>1, <3>2, <3>3, <3>4
  <2>i. FsTyped' /\ r.op \in {job[p].op, "out"}  BY <1>1, <1>2, <1>5, <2>b, FsStays
  <2>j. QED  BY <1>5, <2>a, <2>c, <2>d, <2>e, <2>g, <2>h, <2>i, PutsFit
<1>6. CASE /\ count' = Put(count, j, {"up"})
           /\ job' = [job EXCEPT ![p].up = NULL, ![p].at = "sanity"]
           /\ UNCHANGED <<fs, open, lock, calls>>
  <2> DEFINE r == [j EXCEPT !.up = NULL, !.at = "sanity"]
  <2>1. NULL \in Ref  BY DEF Ref
  <2>a. r \in Job  BY <2>1, Places DEF Job
  <2>b. /\ r.op = j.op /\ r.at = "sanity" /\ r.goal = j.goal /\ r.path = j.path /\ r.dir = j.dir
        /\ r.dir2 = j.dir2 /\ r.inode = j.inode /\ r.inode2 = j.inode2 /\ r.up = NULL
        /\ r.slot = j.slot /\ r.slot2 = j.slot2 /\ r.ino = j.ino
    BY DEF Job
  <2>c. job' = [job EXCEPT ![p] = r]  BY <1>1, <1>2, <1>6 DEF TypeOK
  <2> HIDE DEF r
  <2>d. CallFits(r)  BY <1>2, <1>3, <2>b, WhereIs DEF CallFits, Walking, Renaming
  <2>e. Holds(r)  BY <1>2, <1>3, <2>b DEF Holds, CallFits, Walking, Renaming
  <2>f. /\ Put(count, j, {"up"}) \in Counts
        /\ \A i \in Ino : Put(count, j, {"up"})[i] = count[i] - One(j.up, i)
    BY <1>1, PutOf
  <2>g. ASSUME NEW i \in Ino PROVE count'[i] = count[i] + OfCall(r, i) - OfCall(job[p], i)
    <3>1. OfCall(job[p], i) = OfCall(r, i) + One(j.up, i)
      BY <1>2, <2>b DEF OfCall, One, NULL, Ino
    <3>2. count[i] \in Int /\ One(j.up, i) \in Int /\ OfCall(r, i) \in Nat
      BY <1>1, OfCallType DEF Counts, One
    <3>3. count'[i] = count[i] - One(j.up, i)  BY <1>6, <2>f
    <3>4. QED  BY <3>1, <3>2, <3>3
  <2>h. FsTyped' /\ r.op \in {job[p].op, "out"} /\ count' \in Counts
    BY <1>1, <1>2, <1>6, <2>b, <2>f, FsStays
  <2>i. QED  BY <1>6, <2>a, <2>c, <2>d, <2>e, <2>g, <2>h, PutsFit
<1>7. QED  BY <1>2, <1>4, <1>5, <1>6 DEF Subdir

LEMMA RenameStep == ASSUME IInv, NEW p \in Proc, Rename(p) PROVE IInv'
PROOF
<1>1. TypeOK /\ FsTyped /\ count \in Counts  BY CallOf DEF TypeOK, Counts
<1>2. PICK j \in Job : j = job[p] /\ CallFits(j) /\ Holds(j)  BY CallOf
<1>3. j.at = "sanity" /\ j.op = "rename"  BY <1>2 DEF Rename, At, CallFits, Renaming
<1>4. j.dir2 \in Ino /\ j.inode \in Ref /\ j.name2 \in Name \cup {""}
  BY <1>2, <1>3, RefIsIno DEF Holds, Job, Renaming
<1>5. CASE Fail(p)  BY <1>5, FailFits
<1>6. ASSUME NEW s,
             entry' = [Cleared(j.dir, j.slot) EXCEPT
                         ![j.dir2][s] = [name |-> j.name2, ino |-> j.inode]],
             parent' = IF kind[j.inode] = "dir" THEN [parent EXCEPT ![j.inode] = j.dir2] ELSE parent,
             Return(p, DirMoved(IF j.inode2 = NULL THEN nlink
                                ELSE [nlink EXCEPT ![j.inode2] = @ - 1], j), kind),
             UNCHANGED <<target, open, calls>>
      PROVE  IInv'
  <2>1. PICK e \in Entry : e = [name |-> j.name2, ino |-> j.inode]  BY <1>4 DEF Entry
  <2>2. PICK c \in [Ino -> [Slot -> Entry]] : c = Cleared(j.dir, j.slot)  BY <1>1, ClearedFits
  <2>3. entry' \in [Ino -> [Slot -> Entry]]
    <3>1. entry' = [c EXCEPT ![j.dir2][s] = e]  BY <1>6, <2>1, <2>2
    <3>2. QED  BY <3>1
  <2>4. parent' \in [Ino -> Ino]
    <3>1. parent \in [Ino -> Ino]  BY <1>1 DEF FsTyped
    <3>2. QED  BY <1>4, <1>6, <3>1
  <2>5. nlink \in [Ino -> Int] /\ kind \in [Ino -> Kinds]  BY <1>1 DEF FsTyped, Kinds
  <2>6. PICK n \in [Ino -> Int] : n = IF j.inode2 = NULL THEN nlink
                                      ELSE [nlink EXCEPT ![j.inode2] = @ - 1]
    BY <2>5, LinkFits
  <2>7. DirMoved(n, j) \in [Ino -> Int]  BY DEF DirMoved
  <2>8. QED  BY <1>6, <2>3, <2>4, <2>5, <2>6, <2>7, ReturnFits
<1>7. CASE /\ count' = Put(count, j, {"inode", "inode2"})
           /\ kind' = Freed(count', nlink, kind)
           /\ job' = [job EXCEPT ![p] = [j EXCEPT !.at = "old", !.inode = NULL, !.inode2 = NULL,
                                           !.slot = NULL, !.slot2 = NULL, !.ino = NULL]]
           /\ UNCHANGED <<nlink, entry, parent, target, open, lock, calls>>
  <2> DEFINE r == [j EXCEPT !.at = "old", !.inode = NULL, !.inode2 = NULL,
                            !.slot = NULL, !.slot2 = NULL, !.ino = NULL]
  <2>1. NULL \in Ref  BY DEF Ref
  <2>a. r \in Job  BY <2>1, Places DEF Job
  <2>b. /\ r.op = j.op /\ r.at = "old" /\ r.goal = j.goal /\ r.path = j.path /\ r.dir = j.dir
        /\ r.dir2 = j.dir2 /\ r.inode = NULL /\ r.inode2 = NULL /\ r.up = j.up /\ r.slot = NULL
        /\ r.slot2 = NULL /\ r.ino = NULL
    BY DEF Job
  <2>c. job' = [job EXCEPT ![p] = r]  BY <1>7
  <2> HIDE DEF r
  <2>d. CallFits(r)  BY <1>2, <1>3, <2>b, WhereIs DEF CallFits, Walking, Renaming
  <2>e. Holds(r)  BY <1>2, <1>3, <2>b DEF Holds, CallFits, Walking, Renaming
  <2>f. /\ Put(count, j, {"inode", "inode2"}) \in Counts
        /\ \A i \in Ino : Put(count, j, {"inode", "inode2"})[i]
                            = count[i] - One(j.inode, i) - One(j.inode2, i)
    BY <1>1, PutOf
  <2>g. ASSUME NEW i \in Ino PROVE count'[i] = count[i] + OfCall(r, i) - OfCall(job[p], i)
    <3>1. OfCall(job[p], i) = OfCall(r, i) + One(j.inode, i) + One(j.inode2, i)
      BY <1>2, <2>b DEF OfCall, One, NULL, Ino
    <3>2. /\ count[i] \in Int /\ One(j.inode, i) \in Int /\ One(j.inode2, i) \in Int
          /\ OfCall(r, i) \in Nat
      BY <1>1, OfCallType DEF Counts, One
    <3>3. count'[i] = count[i] - One(j.inode, i) - One(j.inode2, i)  BY <1>7, <2>f
    <3>4. QED  BY <3>1, <3>2, <3>3
  <2>h. FsTyped'
    <3>1. kind' \in [Ino -> Kinds]  BY <1>1, <1>7, FreedType DEF FsTyped, Kinds
    <3>2. QED  BY <1>1, <1>7, <3>1, KindChanges
  <2>i. r.op \in {job[p].op, "out"} /\ count' \in Counts  BY <1>2, <1>7, <2>b, <2>f
  <2>j. QED  BY <1>7, <2>a, <2>c, <2>d, <2>e, <2>g, <2>h, <2>i, PutsFit
<1>8. QED  BY <1>2, <1>5, <1>6, <1>7 DEF Rename

(***************************************************************************)
(* The theorem.                                                            *)
(***************************************************************************)
LEMMA PlantedFits ==
  ASSUME NEW t \in Trees, NEW n \in DOMAIN t
  PROVE  /\ n \in Nat /\ n < NR_INODES /\ n + 1 \in Ino /\ t[n].kind \in Kinds /\ t[n].dir \in Ino
         /\ t[n].name \in Name \cup {""} /\ t[n].target \in Seq(Component)
PROOF
<1>1. t \in Seq(Planted) /\ Len(t) < NR_INODES  BY PathsAssumption
<1>2. Len(t) \in Nat /\ DOMAIN t = 1..Len(t) /\ t[n] \in Planted  BY <1>1
<1>3. NR_INODES \in Nat  BY NamesAssumption
<1>4. n \in Nat /\ n < NR_INODES /\ n + 1 \in Ino  BY <1>1, <1>2, <1>3 DEF Ino
<1>5. QED  BY <1>2, <1>4 DEF Planted, Kinds

LEMMA CountsAreNumbers ==
  ASSUME NEW t \in Trees, NEW S, S \subseteq DOMAIN t
  PROVE  Cardinality(S) \in Nat
PROOF
<1>1. Len(t) \in Nat /\ DOMAIN t = 1..Len(t)
  <2>1. t \in Seq(Planted)  BY PathsAssumption
  <2>2. QED  BY <2>1
<1>2. IsFiniteSet(DOMAIN t)  BY <1>1, FS_Interval
<1>3. QED  BY <1>2, FS_Subset, FS_CardinalityType

LEMMA InitFits == Init => IInv
PROOF
<1> SUFFICES ASSUME Init PROVE IInv  OBVIOUS
<1> DEFINE In(t, i) == {n \in DOMAIN t : t[n].dir = i}
           Nth(t, i, s) == {n \in In(t, i) : Cardinality({m \in In(t, i) : m <= n}) = s}
           Of(t, i) == IF i - 1 \in DOMAIN t THEN t[i - 1].kind ELSE IF i = ROOT THEN "dir" ELSE "free"
           Links(t, i) == CASE Of(t, i) = "dir" -> 2 + Cardinality({n \in In(t, i) : t[n].kind = "dir"})
                            [] Of(t, i) = "free" -> 0
                            [] OTHER -> 1
           At0(t, i, s) == IF Nth(t, i, s) = {} THEN NoEntry
                           ELSE [name |-> t[Min(Nth(t, i, s))].name, ino |-> Min(Nth(t, i, s)) + 1]
           Above(t, i) == IF i - 1 \in DOMAIN t THEN t[i - 1].dir ELSE ROOT
           Points(t, i) == IF i - 1 \in DOMAIN t THEN t[i - 1].target ELSE <<>>
<1>1. PICK t \in Trees :
        /\ kind = [i \in Ino |-> Of(t, i)] /\ nlink = [i \in Ino |-> Links(t, i)]
        /\ entry = [i \in Ino |-> [s \in Slot |-> At0(t, i, s)]]
        /\ parent = [i \in Ino |-> Above(t, i)] /\ target = [i \in Ino |-> Points(t, i)]
  BY DEF Init
<1>2. ROOT \in Ino  BY NamesAssumption DEF ROOT, Ino
<1>3. \A i \in Ino : Of(t, i) \in Kinds  BY PlantedFits DEF Kinds
<1>4. \A i \in Ino : Links(t, i) \in Int
  <2>1. ASSUME NEW i \in Ino PROVE Links(t, i) \in Int
    <3> DEFINE S == {n \in In(t, i) : t[n].kind = "dir"}
    <3>1. S \subseteq DOMAIN t  OBVIOUS
    <3>2. PICK c \in Nat : c = Cardinality(S)
      <4> HIDE DEF S
      <4> QED  BY <3>1, CountsAreNumbers
    <3>3. Links(t, i) = CASE Of(t, i) = "dir" -> 2 + c [] Of(t, i) = "free" -> 0 [] OTHER -> 1
      BY <3>2
    <3> HIDE DEF Links, Of, S
    <3>4. QED  BY <3>3
  <2>2. QED  BY <2>1
<1>5. \A i \in Ino, s \in Slot : At0(t, i, s) \in Entry
  <2>1. ASSUME NEW i \in Ino, NEW s \in Slot PROVE At0(t, i, s) \in Entry
    <3>1. NoEntry \in Entry  BY DEF NoEntry, Entry, Ref
    <3>2. ASSUME Nth(t, i, s) # {} PROVE At0(t, i, s) \in Entry
      <4>1. Nth(t, i, s) \subseteq DOMAIN t  OBVIOUS
      <4>2. Nth(t, i, s) \in SUBSET Nat
        <5> HIDE DEF Nth
        <5> QED  BY <4>1, PlantedFits
      <4>3. PICK n \in DOMAIN t : n = Min(Nth(t, i, s))
        <5> HIDE DEF Nth
        <5> QED  BY <3>2, <4>1, <4>2, MinExists
      <4>4. t[n].name \in Name \cup {""} /\ n + 1 \in Ref  BY PlantedFits DEF Ref
      <4>5. At0(t, i, s) = [name |-> t[n].name, ino |-> n + 1]
        <5> HIDE DEF Nth
        <5> QED  BY <3>2, <4>3
      <4>6. [name |-> t[n].name, ino |-> n + 1] \in Entry  BY <4>4 DEF Entry
      <4> HIDE DEF At0
      <4>7. QED  BY <4>5, <4>6
    <3>3. QED  BY <3>1, <3>2
  <2>2. QED  BY <2>1
<1>6. \A i \in Ino : Above(t, i) \in Ino  BY <1>2, PlantedFits
<1>7. \A i \in Ino : Points(t, i) \in Seq(Component)
  <2>1. <<>> \in Seq(Component)  OBVIOUS
  <2>2. QED  BY <2>1, PlantedFits
<1>8. FsTyped
  <2> HIDE DEF Of, Links, At0, Above, Points
  <2> QED  BY <1>1, <1>3, <1>4, <1>5, <1>6, <1>7 DEF FsTyped, Kinds
<1>9. /\ count = [i \in Ino |-> IF i = ROOT THEN 1 ELSE 0]
      /\ job = [p \in Proc |-> Out] /\ open = [p \in Proc |-> NULL]
      /\ lock = NoProc /\ calls = 0
  BY DEF Init
<1>10. TypeOK
  <2>1. NULL \in Ref /\ 0 \in 0..MaxCalls  BY NamesAssumption DEF Ref
  <2>2. QED  BY <1>8, <1>9, <2>1, OutFits DEF TypeOK
<1>11. CallsFit  BY <1>9, OutFits DEF CallsFit
<1>12. ASSUME NEW i \in Ino
       PROVE  count[i] = (IF i = ROOT THEN 1 ELSE 0) + Cardinality(Held(i)) + Cardinality(Opened(i))
  <2>1. i # NULL  BY DEF Ino, NULL
  <2>2. \A f \in RefFields : Out[f] = NULL
    <3>1. /\ Out["dir"] = NULL /\ Out["dir2"] = NULL /\ Out["inode"] = NULL
          /\ Out["inode2"] = NULL /\ Out["up"] = NULL
      BY DEF Out
    <3>2. QED  BY <3>1 DEF RefFields
  <2>3. Held(i) = {} /\ Opened(i) = {}  BY <1>9, <2>1, <2>2 DEF Held, Opened
  <2>4. QED  BY <1>9, <2>3, FS_EmptySet
<1>13. QED  BY <1>10, <1>11, <1>12 DEF IInv, RefsBalanced

LEMMA RestFits == ASSUME IInv, UNCHANGED vars PROVE IInv'
PROOF
<1>1. TypeOK' /\ TypeOK  BY CallOf DEF IInv, RefsBalanced, TypeOK, FsTyped, vars, fs
<1>2. CallsFit'  BY DEF IInv, CallsFit, vars
<1>3. QED  BY <1>1, <1>2 DEF IInv, RefsBalanced, Held, Opened, vars

LEMMA NextFits == ASSUME IInv, [Next]_vars PROVE IInv'
PROOF
<1>1. ASSUME NEW p \in Proc, NEW op \in Op, NEW path \in Path, NEW name \in Name,
             NEW path2 \in SecondPath(op), NEW name2 \in SecondName(op),
             Start(p, op, path, name, path2, name2)
      PROVE  IInv'
  BY <1>1, StartStep
<1>2. ASSUME NEW p \in Proc,
             Walk(p) \/ WalkIget(p) \/ Walked(p) \/ WalkedLink(p) \/ WalkedRename(p)
      PROVE  IInv'
  BY <1>2, WalkStep, WalkIgetStep, WalkedStep, WalkedLinkStep, WalkedRenameStep
<1>3. ASSUME NEW p \in Proc,
             OpenLookup(p) \/ OpenIget(p) \/ OpenDone(p) \/ Readlink(p) \/ Close(p)
      PROVE  IInv'
  BY <1>3, OpenLookupStep, OpenIgetStep, OpenDoneStep, CloseStep, FailFits DEF Readlink
<1>4. ASSUME NEW p \in Proc,
             \/ FindNone(p) \/ NewInode(p) \/ MkdirBlock(p) \/ SymlinkBlock(p) \/ AddFails(p)
             \/ Mknod(p) \/ Mkdir(p) \/ Create(p) \/ Link(p) \/ Linked(p)
      PROVE  IInv'
  BY <1>4, FindNoneStep, NewInodeStep, MkdirBlockStep, SymlinkBlockStep, AddFailsStep, MknodStep,
     MkdirStep, CreateStep, LinkStep, LinkedStep
<1>5. ASSUME NEW p \in Proc, FindEntry(p) \/ Unlink(p) \/ RmdirIget(p) \/ Rmdir(p)
      PROVE  IInv'
  BY <1>5, FindEntryStep, UnlinkStep, RmdirIgetStep, RmdirStep
<1>6. ASSUME NEW p \in Proc,
             \/ RenameLock(p) \/ RenameOld(p) \/ RenameOldIget(p) \/ RenameNew(p)
             \/ RenameNewIget(p) \/ RenameCheck(p) \/ Subdir(p) \/ Rename(p)
      PROVE  IInv'
  BY <1>6, RenameLockStep, RenameOldStep, RenameOldIgetStep, RenameNewStep, RenameNewIgetStep,
     RenameCheckStep, SubdirStep, RenameStep
<1>7. CASE AtRest  BY <1>7, RestFits DEF AtRest
<1>8. CASE UNCHANGED vars  BY <1>8, RestFits
<1>9. QED  BY <1>1, <1>2, <1>3, <1>4, <1>5, <1>6, <1>7, <1>8 DEF Next

(* Whatever races there are between calls (Races is either), each of them puts every
   reference it takes, once, whichever way it ends: i_count is the number of
   references that calls under way and open files hold (fs/namei.c: every iput on
   every way out of a call). *)
THEOREM ReferencesBalance == Spec => []RefsBalanced
PROOF
<1>1. IInv => RefsBalanced  BY DEF IInv
<1>2. QED  BY <1>1, InitFits, NextFits, PTL DEF Spec

(***************************************************************************)
(* Links and entries.                                                      *)
(***************************************************************************)
Fits == IInv /\ FsFits /\ JobsFit /\ ~overdir

LEMMA FitsHas ==
  ASSUME Fits
  PROVE  /\ TypeOK /\ FsTyped /\ CallsFit /\ RootFits /\ InodesFit /\ LinksRight /\ IsTree
         /\ \A p \in Proc : JobFits(p, job[p]) /\ job[p] \in Job /\ CallFits(job[p]) /\ Holds(job[p])
PROOF BY DEF Fits, FsFits, JobsFit, IInv, RefsBalanced, TypeOK, CallsFit

(* The step of one call changes the counts by the references that come and go. *)
LEMMA CountsMove ==
  ASSUME IInv, IInv', NEW p \in Proc, NEW r \in Job, job' = [job EXCEPT ![p] = r],
         NEW o, open' = [open EXCEPT ![p] = o], NEW i \in Ino
  PROVE  /\ count'[i] = count[i] + OfCall(r, i) - OfCall(job[p], i) + One(o, i) - One(open[p], i)
         /\ count[i] \in Nat /\ count'[i] \in Nat
         /\ OfCall(r, i) \in Nat /\ OfCall(job[p], i) \in Nat
         /\ One(o, i) \in Nat /\ One(open[p], i) \in Nat
PROOF
<1>1. /\ Cardinality(Held(i)') = Cardinality(Held(i)) + OfCall(r, i) - OfCall(job[p], i)
      /\ Cardinality(Held(i)) \in Nat /\ Cardinality(Held(i)') \in Nat
  BY HeldChanges DEF IInv, RefsBalanced, TypeOK
<1>2. /\ Cardinality(Opened(i)') = Cardinality(Opened(i)) + One(o, i) - One(open[p], i)
      /\ Cardinality(Opened(i)) \in Nat /\ Cardinality(Opened(i)') \in Nat
  BY OpenedChanges DEF IInv, RefsBalanced, TypeOK
<1>3. OfCall(r, i) \in Nat /\ OfCall(job[p], i) \in Nat  BY OfCallType
<1>4. One(o, i) \in Nat /\ One(open[p], i) \in Nat  BY DEF One
<1>5. /\ count[i] = (IF i = ROOT THEN 1 ELSE 0) + Cardinality(Held(i)) + Cardinality(Opened(i))
      /\ count'[i] = (IF i = ROOT THEN 1 ELSE 0) + Cardinality(Held(i)') + Cardinality(Opened(i)')
  BY DEF IInv, RefsBalanced
<1>6. QED  BY <1>1, <1>2, <1>3, <1>4, <1>5

(* Two references are two. *)
LEMMA CountIs ==
  ASSUME IInv, NEW i \in Ino
  PROVE  /\ count[i] = (IF i = ROOT THEN 1 ELSE 0) + Cardinality(Held(i)) + Cardinality(Opened(i))
         /\ Cardinality(Held(i)) \in Nat /\ Cardinality(Opened(i)) \in Nat /\ count[i] \in Nat
         /\ IsFiniteSet(Held(i)) /\ IsFiniteSet(Opened(i))
PROOF
<1>1. IsFiniteSet(RefFields)  BY CountAll
<1>2. IsFiniteSet(Held(i)) /\ IsFiniteSet(Opened(i))
  BY <1>1, FS_Product, FS_Subset, NamesAssumption DEF Held, Opened
<1>3. Cardinality(Held(i)) \in Nat /\ Cardinality(Opened(i)) \in Nat  BY <1>2, FS_CardinalityType
<1>4. count[i] = (IF i = ROOT THEN 1 ELSE 0) + Cardinality(Held(i)) + Cardinality(Opened(i))
  BY DEF IInv, RefsBalanced
<1>5. QED  BY <1>2, <1>3, <1>4

LEMMA AtLeastOne ==
  ASSUME NEW S, IsFiniteSet(S), NEW x \in S PROVE Cardinality(S) >= 1
PROOF
<1>1. Cardinality(S) \in Nat  BY FS_CardinalityType
<1>2. Cardinality(S) # 0  BY FS_EmptySet
<1>3. QED  BY <1>1, <1>2

LEMMA AtLeastTwo ==
  ASSUME NEW S, IsFiniteSet(S), NEW x \in S, NEW y \in S, x # y PROVE Cardinality(S) >= 2
PROOF
<1>1. IsFiniteSet(S \ {x}) /\ Cardinality(S \ {x}) = Cardinality(S) - 1  BY FS_RemoveElement
<1>2. Cardinality(S \ {x}) >= 1 /\ Cardinality(S) \in Nat  BY <1>1, AtLeastOne, FS_CardinalityType
<1>3. QED  BY <1>1, <1>2

LEMMA HeldCounts ==
  ASSUME IInv, NEW p \in Proc, NEW f \in RefFields, job[p][f] \in Ino
  PROVE  count[job[p][f]] >= 1
PROOF
<1> DEFINE i == job[p][f]
<1>1. <<p, f>> \in Held(i)  BY DEF Held
<1>2. QED  BY <1>1, CountIs, AtLeastOne

LEMMA OpenCounts ==
  ASSUME IInv, NEW p \in Proc, open[p] \in Ino PROVE count[open[p]] >= 1
PROOF
<1>1. p \in Opened(open[p])  BY DEF Opened
<1>2. QED  BY <1>1, CountIs, AtLeastOne

(* Who alone has an inode. *)
LEMMA Alone ==
  ASSUME IInv, NEW q \in Proc, NEW g \in RefFields, job[q][g] \in Ino, count[job[q][g]] = 1
  PROVE  /\ job[q][g] # ROOT
         /\ \A p \in Proc : /\ open[p] # job[q][g]
                            /\ \A f \in RefFields : job[p][f] = job[q][g] => p = q /\ f = g
PROOF
<1> DEFINE i == job[q][g]
<1>1. <<q, g>> \in Held(i)  BY DEF Held
<1>2. Cardinality(Held(i)) >= 1  BY <1>1, CountIs, AtLeastOne
<1>3. i # ROOT /\ Cardinality(Opened(i)) = 0 /\ Cardinality(Held(i)) = 1  BY <1>2, CountIs
<1>4. \A p \in Proc : open[p] # i
  <2> SUFFICES ASSUME NEW p \in Proc, open[p] = i PROVE FALSE  OBVIOUS
  <2>1. p \in Opened(i)  BY DEF Opened
  <2>2. QED  BY <1>3, <2>1, CountIs, AtLeastOne
<1>5. ASSUME NEW p \in Proc, NEW f \in RefFields, job[p][f] = i, <<p, f>> # <<q, g>> PROVE FALSE
  <2>1. <<p, f>> \in Held(i)  BY <1>5 DEF Held
  <2>2. QED  BY <1>1, <1>3, <1>5, <2>1, CountIs, AtLeastTwo
<1>6. QED  BY <1>3, <1>4, <1>5

LEMMA Finite ==
  /\ IsFiniteSet(Ino) /\ IsFiniteSet(Slot) /\ IsFiniteSet(Ino \X Slot)
  /\ \A i : /\ IsFiniteSet(Entries(i)) /\ IsFiniteSet(Inside(i))
            /\ IsFiniteSet(New(i)) /\ IsFiniteSet(Late(i))
            /\ Cardinality(Entries(i)) \in Nat /\ Cardinality(Inside(i)) \in Nat
            /\ Cardinality(New(i)) \in Nat /\ Cardinality(Late(i)) \in Nat
PROOF
<1>1. NR_INODES \in Int /\ DIR_ENTRIES \in Int  BY NamesAssumption
<1>2. IsFiniteSet(Ino) /\ IsFiniteSet(Slot)  BY <1>1, FS_Interval DEF Ino, Slot
<1>3. IsFiniteSet(Ino \X Slot)  BY <1>2, FS_Product
<1>4. \A i : /\ IsFiniteSet(Entries(i)) /\ IsFiniteSet(Inside(i))
             /\ IsFiniteSet(New(i)) /\ IsFiniteSet(Late(i))
  BY <1>2, <1>3, FS_Subset, NamesAssumption DEF Entries, Inside, New, Late
<1>5. QED  BY <1>2, <1>3, <1>4, FS_CardinalityType

(* What a call p may take a reference to. *)
Ripe(p, i) == i \in Ino /\ kind[i] # "free" /\ New(i) \subseteq {p}

LEMMA MakersAlone ==
  ASSUME Fits, NEW q \in Proc, Making(job[q]) # NULL
  PROVE  LET i == job[q].inode IN
         /\ i \in Ino /\ Making(job[q]) = i /\ count[i] = 1 /\ New(i) = {q} /\ i # ROOT
         /\ ~Placed(i) /\ Entries(i) = {} /\ empty_dir(i)
         /\ kind[i] = KindOf(job[q].op) /\ nlink[i] \in {1, 2}
         /\ \A d \in Ino : Placed(d) => parent[d] # i
         /\ \A p \in Proc : /\ open[p] # i
                            /\ \A f \in RefFields : job[p][f] = i => p = q /\ f = "inode"
PROOF
<1> DEFINE i == job[q].inode
<1>1. Making(job[q]) = i /\ i # NULL  BY DEF Making
<1>2. i \in Ino /\ job[q]["inode"] = i  BY <1>1, FitsHas DEF Job, Ref
<1>3. MakingFits(job[q])  BY FitsHas DEF JobFits
<1>4. count[i] = 1 /\ kind[i] = KindOf(job[q].op) /\ nlink[i] \in {1, 2}  BY <1>3 DEF MakingFits
<1>5. IInv /\ "inode" \in RefFields  BY DEF Fits, RefFields
<1>6. i # ROOT /\ \A p \in Proc : /\ open[p] # i
                                  /\ \A f \in RefFields : job[p][f] = i => p = q /\ f = "inode"
  BY <1>2, <1>4, <1>5, Alone
<1>7. New(i) = {q}
  <2>1. q \in New(i)  BY <1>1 DEF New
  <2>2. \A p \in New(i) : job[p]["inode"] = i
    BY <1>1 DEF New, Making
  <2>3. QED  BY <1>5, <1>6, <2>1, <2>2 DEF New
<1>8. ~Placed(i)  BY <1>7 DEF Placed
<1>9. Entries(i) = {} /\ empty_dir(i)  BY <1>2, <1>7, <1>8, FitsHas DEF InodesFit
<1>10. \A d \in Ino : Placed(d) => parent[d] # i
  <2>1. \A d \in Ino : Placed(d) => Placed(parent[d])  BY FitsHas DEF InodesFit
  <2>2. QED  BY <1>8, <2>1
<1>11. QED  BY <1>1, <1>2, <1>4, <1>6, <1>7, <1>8, <1>9, <1>10

LEMMA HeldRipe ==
  ASSUME Fits, NEW p \in Proc
  PROVE  /\ \A f \in RefFields : job[p][f] # NULL => Ripe(p, job[p][f])
         /\ open[p] # NULL => Ripe(p, open[p]) /\ New(open[p]) = {}
PROOF
<1>1. IInv /\ TypeOK  BY FitsHas DEF Fits
<1>2. ASSUME NEW i \in Ino, NEW f \in RefFields \cup {"open"},
             IF f = "open" THEN open[p] = i ELSE job[p][f] = i
      PROVE  Ripe(p, i) /\ (f = "open" => New(i) = {})
  <2>1. count[i] >= 1  BY <1>1, <1>2, HeldCounts, OpenCounts
  <2>2. kind[i] # "free"  BY <2>1, FitsHas DEF InodesFit
  <2>3. ASSUME NEW q \in New(i), q # p \/ f = "open" PROVE FALSE
    <3>1. q \in Proc /\ Making(job[q]) = i  BY DEF New
    <3>2. Making(job[q]) # NULL /\ job[q].inode = i  BY <3>1 DEF Making, NULL, Ino
    <3>3. /\ open[p] # i
          /\ \A g \in RefFields : job[p][g] = i => p = q /\ g = "inode"
      BY <3>1, <3>2, MakersAlone
    <3>4. "open" \notin RefFields  BY DEF RefFields
    <3>5. QED  BY <1>2, <2>3, <3>3, <3>4
  <2>4. QED  BY <2>2, <2>3 DEF Ripe
<1>3. \A f \in RefFields : job[p][f] \in Ref
  <2>1. job[p] \in Job  BY FitsHas
  <2>2. QED  BY <2>1 DEF Job, RefFields
<1>4. open[p] \in Ref  BY <1>1 DEF TypeOK
<1>5. ASSUME NEW f \in RefFields, job[p][f] # NULL PROVE Ripe(p, job[p][f])
  <2>1. f # "open"  BY DEF RefFields
  <2>2. job[p][f] \in Ino  BY <1>3, <1>5 DEF Ref
  <2>3. QED  BY <1>2, <2>1, <2>2
<1>6. ASSUME open[p] # NULL PROVE Ripe(p, open[p]) /\ New(open[p]) = {}
  <2>1. open[p] \in Ino  BY <1>4, <1>6 DEF Ref
  <2>2. QED  BY <1>2, <2>1
<1>7. QED  BY <1>5, <1>6

LEMMA EntryRipe ==
  ASSUME Fits, NEW i \in Ino, Entries(i) # {}
  PROVE  New(i) = {} /\ kind[i] # "free" /\ \A p : Ripe(p, i)
PROOF
<1>1. New(i) = {}  BY FitsHas DEF InodesFit
<1>2. kind[i] # "free"  BY FitsHas DEF LinksRight, Placed, Live
<1>3. QED  BY <1>1, <1>2 DEF Ripe

LEMMA PlacedRipe ==
  ASSUME Fits, NEW i \in Ino, Placed(i)
  PROVE  New(i) = {} /\ kind[i] = "dir" /\ (\A p : Ripe(p, i)) /\ Placed(parent[i]) /\ parent[i] \in Ino
PROOF BY FitsHas DEF InodesFit, Placed, Live, Ripe, FsTyped

(* A directory that a call has, and does not make, is deleted or in its place. *)
LEMMA LivePlaced ==
  ASSUME Fits, NEW p \in Proc, NEW f \in RefFields, f # "inode" \/ Making(job[p]) = NULL,
         job[p][f] # NULL, Live(job[p][f])
  PROVE  Placed(job[p][f])
PROOF
<1>1. Ripe(p, job[p][f])  BY HeldRipe
<1>2. ASSUME p \in New(job[p][f]) PROVE FALSE
  <2>1. Making(job[p]) = job[p][f]  BY <1>2 DEF New
  <2>2. Making(job[p]) # NULL /\ job[p].inode = job[p][f]  BY <2>1 DEF Making
  <2>3. f = "inode"  BY <2>2, MakersAlone
  <2>4. QED  BY <2>2, <2>3
<1>3. QED  BY <1>1, <1>2 DEF Ripe, Placed

(***************************************************************************)
(* A step that leaves the files as they are.                               *)
(***************************************************************************)
SameFiles(p, r, o) ==
  /\ r \in Job /\ job' = [job EXCEPT ![p] = r] /\ open' = [open EXCEPT ![p] = o]
  /\ nlink' = nlink /\ entry' = entry /\ parent' = parent /\ overdir' = overdir
  /\ kind' = kind \/ kind' = Freed(count', nlink, kind)
  /\ Making(r) = Making(job[p]) /\ Linking(r) = Linking(job[p])
  /\ \A f \in RefFields : r[f] = NULL \/ Ripe(p, r[f])
  /\ o = NULL \/ Ripe(p, o)

LEMMA NoneTaken ==
  ASSUME Fits, IInv', NEW p \in Proc, NEW r \in Job, NEW o,
         job' = [job EXCEPT ![p] = r], open' = [open EXCEPT ![p] = o],
         \A f \in RefFields : r[f] = NULL \/ Ripe(p, r[f]),
         o = NULL \/ Ripe(p, o), NEW i \in Ino, ~Ripe(p, i)
  PROVE  count'[i] = count[i]
PROOF
<1>1. /\ count'[i] = count[i] + OfCall(r, i) - OfCall(job[p], i) + One(o, i) - One(open[p], i)
      /\ count[i] \in Nat
  BY CountsMove DEF Fits
<1>2. \A f \in RefFields : r[f] # i /\ job[p][f] # i
  <2>1. i # NULL  BY DEF Ino, NULL
  <2>2. QED  BY <2>1, HeldRipe
<1>3. OfCall(r, i) = 0 /\ OfCall(job[p], i) = 0  BY <1>2 DEF OfCall, One, RefFields
<1>4. One(o, i) = 0 /\ One(open[p], i) = 0
  <2>1. i # NULL  BY DEF Ino, NULL
  <2>2. QED  BY <2>1, HeldRipe DEF One
<1>5. QED  BY <1>1, <1>3, <1>4

LEMMA SameView ==
  ASSUME Fits, IInv', NEW p \in Proc, NEW r, NEW o, SameFiles(p, r, o)
  PROVE  /\ \A i : New(i)' = New(i) /\ Late(i)' = Late(i)
         /\ \A i \in Ino : /\ kind'[i] = kind[i] \/ (kind'[i] = "free" /\ nlink[i] = 0 /\ count'[i] = 0)
                           /\ kind'[i] = "free" => nlink[i] = 0 /\ count'[i] = 0
                           /\ Live(i)' <=> Live(i)
                           /\ Placed(i)' <=> Placed(i)
         /\ \A i : Entries(i)' = Entries(i) /\ Inside(i)' = Inside(i)
         /\ \A q \in Proc : q # p => job'[q] = job[q]
         /\ job'[p] = r
PROOF
<1>1. TypeOK /\ FsTyped /\ TypeOK' /\ FsTyped'  BY FitsHas DEF IInv, RefsBalanced, TypeOK
<1>2. job'[p] = r /\ \A q \in Proc : q # p => job'[q] = job[q]  BY <1>1 DEF SameFiles, TypeOK
<1>3. \A i : New(i)' = New(i) /\ Late(i)' = Late(i)
  <2>1. \A q \in Proc : Making(job'[q]) = Making(job[q]) /\ Linking(job'[q]) = Linking(job[q])
    BY <1>2 DEF SameFiles
  <2>2. QED  BY <2>1 DEF New, Late
<1>4. \A i \in Ino : /\ kind'[i] = kind[i] \/ (kind'[i] = "free" /\ nlink[i] = 0 /\ count'[i] = 0)
                     /\ kind'[i] = "free" => nlink[i] = 0 /\ count'[i] = 0
  <2> SUFFICES ASSUME NEW i \in Ino
               PROVE  /\ kind'[i] = kind[i] \/ (kind'[i] = "free" /\ nlink[i] = 0 /\ count'[i] = 0)
                      /\ kind'[i] = "free" => nlink[i] = 0 /\ count'[i] = 0
    OBVIOUS
  <2>1. kind'[i] = kind[i] \/ (kind'[i] = "free" /\ nlink[i] = 0 /\ count'[i] = 0)
    BY DEF SameFiles, Freed
  <2>2. ASSUME kind[i] = "free" PROVE nlink[i] = 0 /\ count'[i] = 0
    <3>1. nlink[i] = 0 /\ count[i] = 0  BY <2>2, FitsHas DEF InodesFit
    <3>2. ~Ripe(p, i)  BY <2>2 DEF Ripe
    <3>3. count'[i] = count[i]  BY <3>2, NoneTaken DEF SameFiles
    <3>4. QED  BY <3>1, <3>3
  <2>3. QED  BY <2>1, <2>2
<1>5. \A i \in Ino : Live(i)' <=> Live(i)
  <2> SUFFICES ASSUME NEW i \in Ino PROVE Live(i)' <=> Live(i)  OBVIOUS
  <2>1. kind'[i] = kind[i] \/ (kind'[i] = "free" /\ nlink[i] = 0)  BY <1>4
  <2>2. nlink' = nlink  BY DEF SameFiles
  <2>3. nlink[i] = 0 => ~(nlink[i] > 0)  OBVIOUS
  <2>4. QED  BY <2>1, <2>2, <2>3 DEF Live
<1>6. \A i \in Ino : Placed(i)' <=> Placed(i)  BY <1>3, <1>5 DEF Placed
<1>7. \A i : Entries(i)' = Entries(i) /\ Inside(i)' = Inside(i)
  BY <1>5, <1>6 DEF Entries, Inside, SameFiles
<1>8. QED  BY <1>2, <1>3, <1>4, <1>5, <1>6, <1>7

LEMMA SameFsFits ==
  ASSUME Fits, IInv', NEW p \in Proc, NEW r, NEW o, SameFiles(p, r, o)
  PROVE  FsFits'
PROOF
<1> USE SameView
<1>1. RootFits'
  <2>1. ROOT \in Ino  BY NamesAssumption DEF ROOT, Ino
  <2>2. QED  BY <2>1, FitsHas DEF RootFits, SameFiles
<1>2. InodesFit'
  <2> SUFFICES ASSUME NEW i \in Ino
               PROVE  /\ kind'[i] = "free" => nlink'[i] = 0 /\ count'[i] = 0
                      /\ ~Placed(i)' => empty_dir(i)'
                      /\ New(i)' # {} => Entries(i)' = {}
                      /\ Placed(i)' => Placed(parent[i])'
    BY DEF InodesFit
  <2>1. kind'[i] = "free" => nlink'[i] = 0 /\ count'[i] = 0  BY DEF SameFiles
  <2>2. ~Placed(i)' => empty_dir(i)'  BY FitsHas DEF InodesFit, empty_dir, SameFiles
  <2>3. New(i)' # {} => Entries(i)' = {}  BY FitsHas DEF InodesFit
  <2>4. Placed(i)' => Placed(parent[i])'
    <3>1. parent'[i] = parent[i] /\ parent[i] \in Ino  BY FitsHas DEF FsTyped, SameFiles
    <3>2. Placed(parent[i])' <=> Placed(parent[i])
      <4>1. New(parent[i])' = New(parent[i])  BY <3>1 DEF New, Making
      <4> QED  BY <3>1 DEF Placed, Live
    <3>3. QED  BY <3>2, FitsHas DEF InodesFit
  <2>5. QED  BY <2>1, <2>2, <2>3, <2>4
<1>3. LinksRight'
  <2> SUFFICES ASSUME NEW i \in Ino
               PROVE  /\ Entries(i)' # {} => kind'[i] \in {"file", "link"} \/ Placed(i)'
                      /\ kind'[i] \in {"file", "link"}
                           => nlink'[i] + Cardinality(Late(i)') = Cardinality(Entries(i)') + Cardinality(New(i)')
                      /\ Placed(i)' => nlink'[i] = Cardinality(Entries(i)') + 1 + Cardinality(Inside(i)')
    BY DEF LinksRight
  <2>1. /\ Entries(i) # {} => kind[i] \in {"file", "link"} \/ Placed(i)
        /\ kind[i] \in {"file", "link"}
             => nlink[i] + Cardinality(Late(i)) = Cardinality(Entries(i)) + Cardinality(New(i))
        /\ Placed(i) => nlink[i] = Cardinality(Entries(i)) + 1 + Cardinality(Inside(i))
    BY FitsHas DEF LinksRight
  <2>2. ASSUME Entries(i) # {}, kind'[i] = "free", kind[i] \in {"file", "link"} PROVE FALSE
    <3>1. nlink[i] = 0 /\ count'[i] = 0  BY <2>2
    <3>2. New(i) = {}  BY <2>2, EntryRipe
    <3>3. Cardinality(Late(i)) = Cardinality(Entries(i)) + Cardinality(New(i))
      <4>1. Cardinality(Late(i)) \in Nat  BY FS_Subset, FS_CardinalityType, NamesAssumption DEF Late
      <4>2. QED  BY <2>1, <2>2, <3>1, <4>1
    <3>4. Late(i) # {}
      <4>1. Cardinality(Entries(i)) # 0 /\ Cardinality(Entries(i)) \in Nat
        BY <2>2, Finite, FS_EmptySet, FS_CardinalityType
      <4>2. Cardinality(New(i)) = 0 /\ Cardinality({}) = 0  BY <3>2, FS_EmptySet
      <4>3. QED  BY <3>3, <4>1, <4>2
    <3>5. PICK q \in Proc : Linking(job'[q]) = i  BY <3>4 DEF Late
    <3>6. job'[q]["inode"] = i /\ "inode" \in RefFields
      BY <3>5 DEF Linking, RefFields, NULL, Ino
    <3>7. <<q, "inode">> \in Held(i)'  BY <3>6 DEF Held
    <3>8. count'[i] >= 1
      <4>1. \A n \in Ino : count'[n] = (IF n = ROOT THEN 1 ELSE 0) + Cardinality(Held(n)') + Cardinality(Opened(n)')
        BY DEF IInv, RefsBalanced
      <4>2. IsFiniteSet(RefFields)  BY CountAll
      <4>3. IsFiniteSet(Held(i)') /\ IsFiniteSet(Opened(i)')
        BY <4>2, FS_Product, FS_Subset, NamesAssumption DEF Held, Opened
      <4>4. Cardinality(Held(i)') >= 1  BY <3>7, <4>3, AtLeastOne
      <4>5. Cardinality(Held(i)') \in Nat /\ Cardinality(Opened(i)') \in Nat  BY <4>3, FS_CardinalityType
      <4>6. QED  BY <4>1, <4>4, <4>5
    <3>9. QED  BY <3>1, <3>8
  <2>3. /\ kind'[i] = kind[i] \/ kind'[i] = "free"
        /\ nlink' = nlink /\ Late(i)' = Late(i) /\ Entries(i)' = Entries(i)
        /\ New(i)' = New(i) /\ Inside(i)' = Inside(i) /\ (Placed(i)' <=> Placed(i))
    BY DEF SameFiles
  <2>4. Entries(i)' # {} => kind'[i] \in {"file", "link"} \/ Placed(i)'  BY <2>1, <2>2, <2>3
  <2>5. kind'[i] \in {"file", "link"}
          => nlink'[i] + Cardinality(Late(i)') = Cardinality(Entries(i)') + Cardinality(New(i)')
    BY <2>1, <2>3
  <2>6. Placed(i)' => nlink'[i] = Cardinality(Entries(i)') + 1 + Cardinality(Inside(i)')
    BY <2>1, <2>3
  <2>7. QED  BY <2>4, <2>5, <2>6
<1>4. IsTree'
  <2>1. \A i \in Ino \ {ROOT} : Placed(i)' => \E s \in Slot : Entries(i)' = {<<parent'[i], s>>}
    BY FitsHas DEF IsTree, SameFiles
  <2>2. \A D \in SUBSET {i \in Ino : Placed(i)'} :
          D # {} /\ (\A i \in D : parent'[i] \in D) => ROOT \in D
    <3>1. {i \in Ino : Placed(i)'} = {i \in Ino : Placed(i)}  OBVIOUS
    <3>2. QED  BY <3>1, FitsHas DEF IsTree, SameFiles
  <2>3. QED  BY <2>1, <2>2 DEF IsTree
<1>5. QED  BY <1>1, <1>2, <1>3, <1>4 DEF FsFits

(***************************************************************************)
(* What the other calls rely on.                                           *)
(***************************************************************************)
QuietNow(p) == \A q \in Proc \ {p} : job[q].at \notin Relying
OthersHold(p, i) == \E q \in Proc \ {p}, f \in RefFields : job[q][f] = i

Leaves(p) ==
  /\ \A q \in Proc \ {p} : job'[q] = job[q] /\ (lock = q => lock' = q)
  /\ QuietNow(p) \/ \A i \in Ino : Entries(i) \subseteq Entries(i)'
  /\ \A i \in Ino : OthersHold(p, i) => kind'[i] = kind[i] /\ (Live(i)' <=> Live(i))
  /\ \A q \in Proc \ {p} :
       Making(job[q]) # NULL => LET i == job[q].inode IN
         nlink'[i] = nlink[i] /\ parent'[i] = parent[i] /\ count'[i] = count[i]
  /\ \/ lock = p /\ QuietNow(p)
     \/ \A i \in Ino : Placed(i) => parent'[i] = parent[i]
  /\ \A i \in Ino : Placed(i) /\ Live(i)' => Placed(i)'

LEMMA HoldsIt ==
  ASSUME Fits, NEW p \in Proc, NEW q \in Proc \ {p}, NEW f \in RefFields, job[q][f] # NULL
  PROVE  job[q][f] \in Ino /\ OthersHold(p, job[q][f])
PROOF
<1>1. job[q][f] \in Ref
  <2>1. job[q] \in Job  BY FitsHas
  <2>2. QED  BY <2>1 DEF Job, RefFields
<1>2. QED  BY <1>1 DEF Ref, OthersHold

LEMMA OthersFit ==
  ASSUME Fits, IInv', InodesFit', NEW p \in Proc, Leaves(p), NEW q \in Proc \ {p}
  PROVE  JobFits(q, job[q])'
PROOF
<1> PICK j : j = job[q]  OBVIOUS
<1>1. /\ job'[q] = j /\ j \in Job /\ CallFits(j) /\ Holds(j)
      /\ Seen(j) /\ DirsFit(j) /\ MakingFits(j) /\ RenameFits(j)
      /\ j.at \in Renaming \ {"lock"} => lock = q
  BY FitsHas DEF Leaves, JobFits
<1>2. j.ino \in Ref /\ j.dir \in Ref /\ j.dir2 \in Ref /\ j.inode \in Ref /\ j.up \in Ref
  BY <1>1 DEF Job
<1>3. \A i \in {j.dir, j.dir2, j.inode, j.up} : i # NULL =>
        /\ i \in Ino /\ kind'[i] = kind[i] /\ (Live(i)' <=> Live(i))
  <2>1. \A f \in RefFields : j[f] # NULL => j[f] \in Ino /\ OthersHold(p, j[f])  BY HoldsIt
  <2>2. {"dir", "dir2", "inode", "up"} \subseteq RefFields  BY DEF RefFields
  <2>3. \A i \in {j.dir, j.dir2, j.inode, j.up} : \E f \in RefFields : i = j[f]  BY <2>2
  <2>4. QED  BY <2>1, <2>3 DEF Leaves
<1>4. \A i \in {j.dir, j.dir2, j.up} : i # NULL /\ Live(i) => Placed(i)
  <2>1. \A f \in RefFields : f # "inode" /\ j[f] # NULL /\ Live(j[f]) => Placed(j[f])
    BY LivePlaced
  <2>2. {"dir", "dir2", "up"} \subseteq RefFields /\ "inode" \notin {"dir", "dir2", "up"}  BY DEF RefFields
  <2>3. \A i \in {j.dir, j.dir2, j.up} : \E f \in RefFields : f # "inode" /\ i = j[f]  BY <2>2
  <2>4. QED  BY <2>1, <2>3
<1>5. Seen(j)'
  <2>1. j.op = "link" /\ j.at \in {"find", "add", "linked"} => kind'[j.inode] # "dir"
    <3> SUFFICES ASSUME j.op = "link", j.at \in {"find", "add", "linked"} PROVE kind'[j.inode] # "dir"
      OBVIOUS
    <3>1. kind[j.inode] # "dir"  BY <1>1 DEF Seen
    <3>2. j.inode # NULL  BY <1>1 DEF Holds, CallFits, Walking
    <3>3. QED  BY <1>3, <3>1, <3>2
  <2>2. CASE QuietNow(p)
    <3>1. j.at \notin Relying  BY <2>2 DEF QuietNow
    <3>2. QED  BY <2>1, <3>1, <1>1 DEF Seen, Relying
  <2>3. CASE ~QuietNow(p)
    <3>1. /\ \A i \in Ino : Entries(i) \subseteq Entries(i)'
          /\ \A i \in Ino : Placed(i) => parent'[i] = parent[i]
      BY <2>3 DEF Leaves
    <3>2. j.at \in {"iget", "opened", "remove", "rmdir", "old_iget", "new_iget"} => j.ino \in Ino
      BY <1>1, <1>2 DEF CallFits, Ref
    <3>3. j.at \in {"iget", "opened"} => Entries(j.ino)' # {} \/ (Live(j.dir)' /\ parent'[j.dir] = j.ino)
      <4> SUFFICES ASSUME j.at \in {"iget", "opened"}
                   PROVE  Entries(j.ino)' # {} \/ (Live(j.dir)' /\ parent'[j.dir] = j.ino)
        OBVIOUS
      <4>1. Entries(j.ino) # {} \/ (Live(j.dir) /\ parent[j.dir] = j.ino)  BY <1>1 DEF Seen
      <4>2. j.dir # NULL  BY <1>1 DEF Holds
      <4>3. j.ino \in Ino /\ Entries(j.ino) \subseteq Entries(j.ino)'  BY <3>1, <3>2
      <4>4. Live(j.dir) => Live(j.dir)' /\ Placed(j.dir) /\ j.dir \in Ino  BY <1>3, <1>4, <4>2
      <4>5. Live(j.dir) => parent'[j.dir] = parent[j.dir]  BY <3>1, <4>4
      <4>6. QED  BY <4>1, <4>3, <4>4, <4>5
    <3>4. j.at \in {"remove", "rmdir", "old_iget"} => <<j.dir, j.slot>> \in Entries(j.ino)'
      BY <1>1, <3>1, <3>2 DEF Seen
    <3>5. j.at = "rmdir" => j.inode = j.ino  BY <1>1 DEF Seen
    <3>6. j.at = "new_iget" => Entries(j.ino)' # {}  BY <1>1, <3>1, <3>2 DEF Seen
    <3>7. QED  BY <1>1, <2>1, <3>3, <3>4, <3>5, <3>6 DEF Seen
  <2>4. QED  BY <2>2, <2>3
<1>6. DirsFit(j)'
  <2>1. j.at \in Permitted => j.dir # NULL  BY <1>1 DEF Holds, Permitted, Renaming
  <2>2. QED  BY <1>1, <1>3, <2>1 DEF DirsFit
<1>7. MakingFits(j)'
  <2> SUFFICES ASSUME Making(j) # NULL PROVE MakingFits(j)'  BY <1>1 DEF MakingFits, Making
  <2>1. j.inode # NULL  BY DEF Making
  <2>2. /\ nlink'[j.inode] = nlink[j.inode] /\ parent'[j.inode] = parent[j.inode]
        /\ count'[j.inode] = count[j.inode]
    BY DEF Leaves
  <2>3. kind'[j.inode] = kind[j.inode]  BY <1>3, <2>1
  <2>4. QED  BY <1>1, <2>2, <2>3 DEF MakingFits
<1>8. ASSUME NEW top, lock # p, j.dir2 # NULL, Live(j.dir2), Passed(j, top)
      PROVE  Passed(j, top)'
  <2>1. PICK D \in SUBSET {i \in Ino : Placed(i)} :
          /\ j.inode \notin D /\ j.dir2 \in D \cup top
          /\ \A i \in D : parent[i] \in D \cup top
    BY <1>8 DEF Passed
  <2> DEFINE E == {i \in D : Placed(i)'}
  <2>2. E \in SUBSET {i \in Ino : Placed(i)'} /\ j.inode \notin E  BY <2>1
  <2>3. j.dir2 \in E \cup top
    <3>1. Placed(j.dir2) /\ Live(j.dir2)' /\ j.dir2 \in Ino  BY <1>3, <1>4, <1>8
    <3>2. Placed(j.dir2)'  BY <3>1, <1>1 DEF Leaves
    <3>3. QED  BY <2>1, <3>2, <1>1
  <2>4. ASSUME NEW i \in E PROVE parent'[i] \in E \cup top
    <3>1. i \in Ino /\ Placed(i) /\ Placed(i)' /\ parent[i] \in D \cup top  BY <2>1
    <3>2. parent'[i] = parent[i]  BY <1>8, <3>1 DEF Leaves
    <3>3. Placed(parent[i])'  BY <3>1 DEF InodesFit
    <3>4. parent[i] \in D => Placed(parent[i])'  BY <3>3
    <3>5. QED  BY <3>1, <3>2, <3>3
  <2> HIDE DEF E
  <2>5. QED  BY <2>2, <2>3, <2>4, <1>1 DEF Passed
<1>9. RenameFits(j)'
  <2>1. CASE lock = p
    <3>1. j.at \notin {"subdir", "sanity"}  BY <1>1, <2>1 DEF Renaming
    <3>2. QED  BY <1>1, <3>1 DEF RenameFits
  <2>2. CASE lock # p
    <3>1. j.at \in {"subdir", "sanity"} => j.inode # NULL /\ j.dir2 # NULL /\ j.dir # NULL
      BY <1>1 DEF Holds, Renaming
    <3>2. j.at = "subdir" => j.up # NULL  BY <1>1 DEF Holds
    <3>3. j.at = "subdir" => /\ Live(j.inode)' /\ j.slot2 = NULL
                             /\ IF Live(j.dir2)' THEN Live(j.up)' /\ Passed(j, {j.up})' ELSE j.up = j.dir2
      BY <1>1, <1>3, <1>8, <2>2, <3>1, <3>2 DEF RenameFits
    <3>4. ASSUME j.at = "sanity", kind'[j.inode] = "dir"
          PROVE  /\ Live(j.inode)' /\ j.slot2 = NULL /\ parent'[j.inode] = j.dir
                 /\ Live(j.dir2)' => Passed(j, {})'
      <4>1. kind[j.inode] = "dir" /\ j.inode \in Ino  BY <1>3, <3>1, <3>4
      <4>2. /\ Live(j.inode) /\ j.slot2 = NULL /\ parent[j.inode] = j.dir
            /\ Live(j.dir2) => Passed(j, {})
        BY <1>1, <3>4, <4>1 DEF RenameFits
      <4>3. Making(j) = NULL /\ "inode" \in RefFields  BY <3>4 DEF Making, RefFields
      <4>4. Placed(j.inode)  BY <3>1, <3>4, <4>2, <4>3, LivePlaced
      <4>5. parent'[j.inode] = parent[j.inode]  BY <2>2, <4>1, <4>4 DEF Leaves
      <4>6. QED  BY <1>3, <1>8, <2>2, <3>1, <3>4, <4>1, <4>2, <4>5
    <3>5. QED  BY <1>1, <3>3, <3>4 DEF RenameFits
  <2>3. QED  BY <2>1, <2>2
<1>10. j.at \in Renaming \ {"lock"} => lock' = q  BY <1>1 DEF Leaves
<1>11. QED  BY <1>1, <1>5, <1>6, <1>7, <1>9, <1>10 DEF JobFits

LEMMA HeldAfter ==
  ASSUME IInv', NEW p \in Proc, NEW f \in RefFields, NEW i \in Ino, job'[p][f] = i
  PROVE  count'[i] >= 1 /\ count'[i] \in Nat
PROOF
<1>1. count'[i] = (IF i = ROOT THEN 1 ELSE 0) + Cardinality(Held(i)') + Cardinality(Opened(i)')
  BY DEF IInv, RefsBalanced
<1>2. IsFiniteSet(RefFields)  BY CountAll
<1>3. IsFiniteSet(Held(i)') /\ IsFiniteSet(Opened(i)')
  BY <1>2, FS_Product, FS_Subset, NamesAssumption DEF Held, Opened
<1>4. <<p, f>> \in Held(i)'  BY DEF Held
<1>5. Cardinality(Held(i)') >= 1  BY <1>3, <1>4, AtLeastOne
<1>6. Cardinality(Held(i)') \in Nat /\ Cardinality(Opened(i)') \in Nat  BY <1>3, FS_CardinalityType
<1>7. QED  BY <1>1, <1>5, <1>6

KeepsLocks(p) == \A q \in Proc \ {p} : lock = q => lock' = q

LEMMA SameLeaves ==
  ASSUME Fits, IInv', NEW p \in Proc, NEW r, NEW o, SameFiles(p, r, o), KeepsLocks(p)
  PROVE  Leaves(p)
PROOF
<1>1. \A q \in Proc \ {p} : job'[q] = job[q] /\ (lock = q => lock' = q)  BY SameView DEF KeepsLocks
<1>2. \A i \in Ino : Entries(i) \subseteq Entries(i)'  BY SameView
<1>3. ASSUME NEW i \in Ino, OthersHold(p, i) PROVE kind'[i] = kind[i] /\ (Live(i)' <=> Live(i))
  <2>1. PICK q \in Proc \ {p}, f \in RefFields : job[q][f] = i  BY <1>3 DEF OthersHold
  <2>2. count'[i] >= 1  BY <1>1, <2>1, HeldAfter
  <2>3. QED  BY <2>2, SameView
<1>4. ASSUME NEW q \in Proc \ {p}, Making(job[q]) # NULL
      PROVE  LET i == job[q].inode IN
             nlink'[i] = nlink[i] /\ parent'[i] = parent[i] /\ count'[i] = count[i]
  <2> DEFINE i == job[q].inode
  <2>1. i \in Ino /\ New(i) = {q}  BY <1>4, MakersAlone
  <2>2. ~Ripe(p, i)  BY <2>1 DEF Ripe
  <2>3. count'[i] = count[i]  BY <2>1, <2>2, NoneTaken DEF SameFiles
  <2>4. QED  BY <2>3 DEF SameFiles
<1>5. \A i \in Ino : Placed(i) => parent'[i] = parent[i]  BY DEF SameFiles
<1>6. \A i \in Ino : Placed(i) /\ Live(i)' => Placed(i)'  BY SameView
<1>7. QED  BY <1>1, <1>2, <1>3, <1>4, <1>5, <1>6 DEF Leaves

(* What the call itself has to show for that. *)
Ready(p, r) ==
  /\ Seen(r) /\ DirsFit(r) /\ RenameFits(r)
  /\ Making(r) # NULL => SameRefs(job[p], r) /\ MakingFits(r) /\ open'[p] = open[p]
  /\ r.at \in Renaming \ {"lock"} => lock' = p

LEMMA SameFits ==
  ASSUME Fits, IInv', NEW p \in Proc, NEW r, NEW o, SameFiles(p, r, o), KeepsLocks(p), Ready(p, r)
  PROVE  Fits'
PROOF
<1>1. FsFits' /\ InodesFit'  BY SameFsFits DEF FsFits
<1>2. Leaves(p)  BY SameLeaves
<1>3. ASSUME NEW q \in Proc \ {p} PROVE JobFits(q, job[q])'  BY <1>1, <1>2, OthersFit
<1>4. /\ job'[p] = r /\ r \in Job /\ CallFits(r) /\ Holds(r)
      /\ \A i : Entries(i)' = Entries(i)
      /\ \A i \in Ino : /\ kind'[i] = kind[i] \/ kind'[i] = "free"
                        /\ Live(i)' <=> Live(i)
                        /\ Placed(i)' <=> Placed(i)
      /\ parent' = parent /\ nlink' = nlink
  BY SameView DEF IInv, CallsFit, SameFiles
<1>5. \A f \in RefFields : r[f] # NULL => r[f] \in Ino
  BY RefIsIno DEF SameFiles, Ripe
<1>6. /\ r.dir # NULL => r.dir \in Ino
      /\ r.dir2 # NULL => r.dir2 \in Ino
      /\ r.inode # NULL => r.inode \in Ino
      /\ r.up # NULL => r.up \in Ino
  BY <1>5 DEF RefFields
<1>7. Seen(r)'
  <2>1. r.at \in {"iget", "opened"} => Entries(r.ino)' # {} \/ (Live(r.dir)' /\ parent'[r.dir] = r.ino)
    BY <1>4, <1>6 DEF Ready, Seen, Holds
  <2>2. r.at \in {"remove", "rmdir", "old_iget"} => <<r.dir, r.slot>> \in Entries(r.ino)'
    BY <1>4 DEF Ready, Seen
  <2>3. r.at = "rmdir" => r.inode = r.ino  BY DEF Ready, Seen
  <2>4. r.at = "new_iget" => Entries(r.ino)' # {}  BY <1>4 DEF Ready, Seen
  <2>5. r.op = "link" /\ r.at \in {"find", "add", "linked"} => kind'[r.inode] # "dir"
    <3> SUFFICES ASSUME r.op = "link", r.at \in {"find", "add", "linked"} PROVE kind'[r.inode] # "dir"
      OBVIOUS
    <3>1. kind[r.inode] # "dir"  BY DEF Ready, Seen
    <3>2. r.inode # NULL  BY <1>4 DEF Holds, CallFits, Walking
    <3>3. QED  BY <1>4, <1>6, <3>1, <3>2
  <2>6. QED  BY <2>1, <2>2, <2>3, <2>4, <2>5 DEF Seen
<1>8. DirsFit(r)'
  <2>1. r.at \in Permitted => r.dir # NULL  BY <1>4 DEF Holds, Permitted, Renaming
  <2>2. QED  BY <1>4, <1>6, <2>1 DEF DirsFit, Ready
<1>9. MakingFits(r)'
  <2> SUFFICES ASSUME Making(r) # NULL PROVE MakingFits(r)'  BY DEF MakingFits, Making
  <2>1. r.inode # NULL /\ r.inode \in Ino  BY <1>6 DEF Making
  <2>2. \A i : OfCall(r, i) = OfCall(job[p], i)  BY DEF Ready, SameRefs, OfCall, RefFields
  <2>3. count'[r.inode] = count[r.inode]
    <3>1. o = open[p]
      <4>1. open'[p] = o  BY FitsHas DEF SameFiles, TypeOK
      <4>2. QED  BY <4>1 DEF Ready
    <3>2. /\ count'[r.inode] = count[r.inode] + OfCall(r, r.inode) - OfCall(job[p], r.inode)
                                 + One(o, r.inode) - One(open[p], r.inode)
          /\ count[r.inode] \in Nat /\ OfCall(r, r.inode) \in Nat /\ One(o, r.inode) \in Nat
      BY <2>1, CountsMove DEF SameFiles, Fits
    <3>3. QED  BY <2>2, <3>1, <3>2
  <2>4. kind'[r.inode] = kind[r.inode]
    <3>1. MakingFits(r)  BY DEF Ready
    <3>2. count'[r.inode] = 1  BY <2>3, <3>1 DEF MakingFits
    <3>3. QED  BY <2>1, <3>2, SameView
  <2>5. QED  BY <1>4, <2>3, <2>4 DEF MakingFits, Ready
<1>10. RenameFits(r)'
  <2>1. {i \in Ino : Placed(i)'} = {i \in Ino : Placed(i)}  BY <1>4
  <2>2. \A top : Passed(r, top)' <=> Passed(r, top)  BY <1>4, <2>1 DEF Passed
  <2>3. r.at \in {"subdir", "sanity"} => r.inode \in Ino /\ r.dir2 \in Ino
    BY <1>4, <1>6 DEF Holds, Renaming
  <2>4. r.at = "subdir" => r.up \in Ino  BY <1>4, <1>6 DEF Holds
  <2>5. QED  BY <1>4, <2>2, <2>3, <2>4 DEF Ready, RenameFits
<1>11. JobFits(p, job[p])'  BY <1>4, <1>7, <1>8, <1>9, <1>10 DEF JobFits, Ready
<1>12. JobsFit'  BY <1>3, <1>11 DEF JobsFit
<1>13. QED  BY <1>1, <1>12 DEF Fits, SameFiles

(* A call that ends without a name for a new inode. *)
LEMMA EndsFit ==
  ASSUME Fits, IInv', NEW p \in Proc, Fail(p), Making(job[p]) = NULL, Linking(job[p]) = NULL
  PROVE  Fits'
PROOF
<1>1. TypeOK  BY FitsHas
<1>2. Out \in Job  BY OutFits
<1>3. /\ Making(Out) = NULL /\ Linking(Out) = NULL
      /\ \A f \in RefFields : Out[f] = NULL
  BY DEF Out, Making, Linking, RefFields
<1>4. open' = [open EXCEPT ![p] = open[p]]  BY <1>1 DEF Fail, TypeOK
<1>5. SameFiles(p, Out, open[p])
  BY <1>2, <1>3, <1>4, HeldRipe DEF SameFiles, Fail, Return
<1>6. KeepsLocks(p)  BY NamesAssumption DEF KeepsLocks, Fail, Return
<1>7. Ready(p, Out)  BY <1>3 DEF Ready, Out, Seen, DirsFit, RenameFits, Permitted, Renaming
<1>8. QED  BY <1>5, <1>6, <1>7, SameFits

(***************************************************************************)
(* The steps that take and put references only.                            *)
(***************************************************************************)
Takes(j, r, i) ==
  LET Kept == {NULL, i, j.dir, j.dir2, j.inode, j.inode2, j.up} IN
  r.dir \in Kept /\ r.dir2 \in Kept /\ r.inode \in Kept /\ r.inode2 \in Kept /\ r.up \in Kept

LEMMA GoesOnFits ==
  ASSUME Fits, IInv', NEW p \in Proc, NEW r, NEW i, i = NULL \/ Ripe(p, i),
         job' = [job EXCEPT ![p] = r], UNCHANGED <<nlink, entry, parent, open, overdir>>,
         kind' = kind \/ kind' = Freed(count', nlink, kind), KeepsLocks(p),
         Making(r) = Making(job[p]), Linking(r) = Linking(job[p]), Takes(job[p], r, i), Ready(p, r)
  PROVE  Fits'
PROOF
<1>1. TypeOK /\ TypeOK'  BY FitsHas DEF IInv, RefsBalanced
<1>2. r \in Job
  <2>1. job'[p] = r /\ job' \in [Proc -> Job]  BY <1>1 DEF TypeOK
  <2>2. QED  BY <2>1
<1>3. open' = [open EXCEPT ![p] = open[p]]  BY <1>1 DEF TypeOK
<1>4. /\ \A f \in RefFields : r[f] = NULL \/ Ripe(p, r[f])
      /\ open[p] = NULL \/ Ripe(p, open[p])
  BY HeldRipe DEF Takes, RefFields
<1>5. SameFiles(p, r, open[p])  BY <1>2, <1>3, <1>4 DEF SameFiles
<1>6. QED  BY <1>5, SameFits

LEMMA WalkReady ==
  ASSUME NEW p, NEW r, r.at = "walk", r.dir2 # NULL => (kind[r.dir2] = "dir" => Live(r.dir2))
  PROVE  Ready(p, r) /\ Making(r) = NULL /\ Linking(r) = NULL
PROOF BY DEF Ready, Making, Linking, Seen, DirsFit, RenameFits, Permitted, Renaming

LEMMA RootPlaced ==
  ASSUME Fits PROVE Placed(ROOT) /\ ROOT \in Ino /\ \A p : Ripe(p, ROOT)
PROOF
<1>1. ROOT \in Ino /\ ROOT # NULL  BY NamesAssumption DEF ROOT, Ino, NULL
<1>2. New(ROOT) = {}
  <2> SUFFICES ASSUME NEW q \in New(ROOT) PROVE FALSE  OBVIOUS
  <2>1. q \in Proc /\ Making(job[q]) = ROOT  BY DEF New
  <2>2. QED  BY <1>1, <2>1, MakersAlone
<1>3. Placed(ROOT)  BY <1>2, FitsHas DEF RootFits, Placed
<1>4. QED  BY <1>1, <1>3, PlacedRipe

LEMMA StartKeeps ==
  ASSUME Fits, IInv', NEW p \in Proc, NEW op, NEW path, NEW name, NEW path2, NEW name2,
         Start(p, op, path, name, path2, name2)
  PROVE  Fits'
PROOF
<1> DEFINE r == [Out EXCEPT !.op = op, !.at = "walk", !.name = name, !.name2 = name2, !.dir = ROOT,
                    !.path = IF op = "link" THEN Append(path, name) ELSE path,
                    !.goal = IF op = "link" THEN "inode" ELSE "dir", !.then = path2]
<1>1. /\ r.at = "walk" /\ r.dir = ROOT /\ r.dir2 = NULL /\ r.inode = NULL /\ r.inode2 = NULL
      /\ r.up = NULL
  BY DEF Out
<1>2. job' = [job EXCEPT ![p] = r] /\ job[p] = Out  BY DEF Start
<1> HIDE DEF r
<1>3. Making(Out) = NULL /\ Linking(Out) = NULL  BY DEF Out, Making, Linking
<1>4. Ready(p, r) /\ Making(r) = NULL /\ Linking(r) = NULL  BY <1>1, WalkReady
<1>5. Ripe(p, ROOT)  BY RootPlaced
<1>6. Takes(job[p], r, ROOT)  BY <1>1 DEF Takes
<1>7. UNCHANGED <<nlink, entry, parent, open, overdir>> /\ kind' = kind /\ KeepsLocks(p)
  BY DEF Start, fs, KeepsLocks
<1>8. QED  BY <1>2, <1>3, <1>4, <1>5, <1>6, <1>7, GoesOnFits

LEMMA LookUpSeen ==
  ASSUME Fits, NEW d \in Ino, NEW name, NEW i \in LookUp(d, name)
  PROVE  i \in Ino /\ (Entries(i) # {} \/ (Live(d) /\ parent[d] = i))
PROOF
<1>1. i \in Ino  BY FitsHas, LookedUp
<1>2. Live(d) /\ (i = parent[d] \/ i \in InodeNamed(d, name))
  BY DEF LookUp, Live, MayUse, InodeNamed
<1>3. ASSUME i \in InodeNamed(d, name) PROVE Entries(i) # {}
  <2>1. Find(d, name) # {} /\ i = entry[d][Min(Find(d, name))].ino  BY <1>3 DEF InodeNamed
  <2>2. Min(Find(d, name)) \in Slot  BY <2>1, FitsHas, FoundIsEntry
  <2>3. <<d, Min(Find(d, name))>> \in Entries(i)  BY <1>2, <2>1, <2>2 DEF Entries
  <2>4. QED  BY <2>3
<1>4. QED  BY <1>1, <1>2, <1>3

LEMMA SeenRipe ==
  ASSUME Fits, NEW p \in Proc, job[p].at \in {"iget", "opened"}
  PROVE  job[p].ino \in Ino /\ Ripe(p, job[p].ino)
PROOF
<1>1. PICK j \in Job : j = job[p] /\ Seen(j) /\ CallFits(j) /\ Holds(j)  BY FitsHas DEF JobFits
<1>2. j.ino \in Ino /\ j.dir \in Ino /\ j.dir # NULL
  BY <1>1, RefIsIno DEF CallFits, Holds, Job
<1>3. CASE Entries(j.ino) # {}  BY <1>1, <1>2, <1>3, EntryRipe
<1>4. CASE Live(j.dir) /\ parent[j.dir] = j.ino
  <2>1. "dir" \in RefFields /\ "dir" # "inode" /\ job[p]["dir"] = j.dir  BY <1>1 DEF RefFields
  <2>2. Placed(j.dir)  BY <1>2, <1>4, <2>1, LivePlaced
  <2>3. Placed(j.ino)  BY <1>2, <1>4, <2>2, PlacedRipe
  <2>4. QED  BY <1>1, <1>2, <2>3, PlacedRipe
<1>5. QED  BY <1>1, <1>3, <1>4 DEF Seen

LEMMA WalkKeeps ==
  ASSUME Fits, IInv', NEW p \in Proc, Walk(p)
  PROVE  Fits'
PROOF
<1>1. TypeOK  BY FitsHas
<1>2. PICK j \in Job : j = job[p] /\ CallFits(j) /\ Holds(j) /\ DirsFit(j)  BY FitsHas DEF JobFits
<1>3. j.at = "walk" /\ Making(j) = NULL /\ Linking(j) = NULL
  BY <1>2 DEF Walk, At, Making, Linking
<1>4. CASE Head(j.path) = EndOfLink /\ job' = [job EXCEPT ![p].path = Tail(@), ![p].depth = @ - 1]
             /\ UNCHANGED <<fs, count, open, lock, calls, overdir>>
  <2> DEFINE r == [j EXCEPT !.path = Tail(j.path), !.depth = j.depth - 1]
  <2>1. job' = [job EXCEPT ![p] = r]  BY <1>1, <1>2, <1>4 DEF TypeOK
  <2>2. r.at = "walk" /\ r.dir2 = j.dir2 /\ Takes(j, r, NULL)  BY <1>3 DEF Job, Takes
  <2> HIDE DEF r
  <2>3. Ready(p, r) /\ Making(r) = NULL /\ Linking(r) = NULL
    BY <1>2, <2>2, WalkReady DEF DirsFit
  <2>4. QED  BY <1>2, <1>3, <1>4, <2>1, <2>2, <2>3, GoesOnFits DEF fs, KeepsLocks
<1>5. CASE \E i \in LookUp(j.dir, Head(j.path)) : job' = [job EXCEPT ![p].at = "iget", ![p].ino = i]
             /\ UNCHANGED <<fs, count, open, lock, calls, overdir>>
  <2>1. PICK i \in LookUp(j.dir, Head(j.path)) : job' = [job EXCEPT ![p].at = "iget", ![p].ino = i]
             /\ UNCHANGED <<fs, count, open, lock, calls, overdir>>
    BY <1>5
  <2> DEFINE r == [j EXCEPT !.at = "iget", !.ino = i]
  <2>2. j.dir \in Ino  BY <1>2, <1>3, RefIsIno DEF Holds, Job
  <2>3. Entries(i) # {} \/ (Live(j.dir) /\ parent[j.dir] = i)  BY <2>2, LookUpSeen
  <2>4. job' = [job EXCEPT ![p] = r]  BY <1>1, <1>2, <2>1 DEF TypeOK
  <2>5. /\ r.at = "iget" /\ r.ino = i /\ r.dir = j.dir /\ r.dir2 = j.dir2 /\ Takes(j, r, NULL)
    BY DEF Job, Takes
  <2> HIDE DEF r
  <2>6. Making(r) = NULL /\ Linking(r) = NULL  BY <2>5 DEF Making, Linking
  <2>7. Ready(p, r)
    BY <1>2, <2>3, <2>5, <2>6 DEF Ready, Seen, DirsFit, RenameFits, Permitted, Renaming
  <2>8. QED  BY <1>2, <1>3, <2>1, <2>4, <2>5, <2>6, <2>7, GoesOnFits DEF fs, KeepsLocks
<1>6. CASE Fail(p)  BY <1>2, <1>3, <1>6, EndsFit
<1>7. QED  BY <1>2, <1>4, <1>5, <1>6 DEF Walk

LEMMA WalkIgetKeeps ==
  ASSUME Fits, IInv', NEW p \in Proc, WalkIget(p)
  PROVE  Fits'
PROOF
<1>1. TypeOK  BY FitsHas
<1>2. PICK j \in Job : j = job[p] /\ CallFits(j) /\ Holds(j) /\ DirsFit(j)  BY FitsHas DEF JobFits
<1>3. j.at = "iget" /\ Making(j) = NULL /\ Linking(j) = NULL
  BY <1>2 DEF WalkIget, At, Making, Linking
<1>4. Ripe(p, j.ino)  BY <1>2, <1>3, SeenRipe
<1>5. UNCHANGED <<entry, parent, open, calls, overdir>>  BY DEF WalkIget
<1>6. CASE /\ kind' = Freed(count', nlink, kind)
           /\ job' = [job EXCEPT ![p] = [j EXCEPT !.at = "walk", !.dir = j.ino, !.path = Tail(j.path),
                                                  !.ino = NULL]]
           /\ UNCHANGED <<lock, nlink>>
  <2> DEFINE r == [j EXCEPT !.at = "walk", !.dir = j.ino, !.path = Tail(j.path), !.ino = NULL]
  <2>1. job' = [job EXCEPT ![p] = r]  BY <1>6
  <2>2. r.at = "walk" /\ r.dir2 = j.dir2 /\ Takes(j, r, j.ino)  BY DEF Job, Takes
  <2> HIDE DEF r
  <2>3. Ready(p, r) /\ Making(r) = NULL /\ Linking(r) = NULL
    BY <1>2, <2>2, WalkReady DEF DirsFit
  <2>4. QED  BY <1>2, <1>3, <1>4, <1>5, <1>6, <2>1, <2>2, <2>3, GoesOnFits DEF KeepsLocks
<1>7. CASE /\ job' = [job EXCEPT ![p] = [j EXCEPT !.at = "walk", !.ino = NULL, !.depth = j.depth + 1,
                                        !.path = target[j.ino] \o <<EndOfLink>> \o Tail(j.path)]]
           /\ UNCHANGED <<count, kind, lock, nlink>>
  <2> DEFINE r == [j EXCEPT !.at = "walk", !.ino = NULL, !.depth = j.depth + 1,
                            !.path = target[j.ino] \o <<EndOfLink>> \o Tail(j.path)]
  <2>1. job' = [job EXCEPT ![p] = r]  BY <1>7
  <2>2. r.at = "walk" /\ r.dir2 = j.dir2 /\ Takes(j, r, NULL)  BY DEF Job, Takes
  <2> HIDE DEF r
  <2>3. Ready(p, r) /\ Making(r) = NULL /\ Linking(r) = NULL
    BY <1>2, <2>2, WalkReady DEF DirsFit
  <2>4. QED  BY <1>2, <1>3, <1>5, <1>7, <2>1, <2>2, <2>3, GoesOnFits DEF KeepsLocks
<1>8. CASE Return(p, nlink, kind)
  <2>1. Fail(p)  BY <1>8 DEF WalkIget, Fail
  <2>2. QED  BY <1>2, <1>3, <2>1, EndsFit
<1>9. QED  BY <1>2, <1>6, <1>7, <1>8 DEF WalkIget

(* The call goes on with what it has. *)
LEMMA GotoKeeps ==
  ASSUME Fits, IInv', NEW p \in Proc, NEW l, Goto(p, l),
         UNCHANGED <<fs, count, open, calls, overdir>>, KeepsLocks(p),
         Making(job[p]) = NULL, Linking(job[p]) = NULL,
         NEW r, r = [job[p] EXCEPT !.at = l],
         Seen(r), DirsFit(r), RenameFits(r), Making(r) = NULL, Linking(r) = NULL,
         l \in Renaming \ {"lock"} => lock' = p
  PROVE  Fits'
PROOF
<1>1. TypeOK /\ job[p] \in Job  BY FitsHas
<1>2. job' = [job EXCEPT ![p] = r]  BY <1>1 DEF Goto, TypeOK
<1>3. r.at = l /\ Takes(job[p], r, NULL)  BY <1>1 DEF Takes, Job
<1>4. Ready(p, r)  BY <1>3 DEF Ready
<1>5. QED  BY <1>2, <1>3, <1>4, GoesOnFits DEF fs

LEMMA MineAfter ==
  ASSUME TypeOK, IInv', NEW p \in Proc, NEW r, job' = [job EXCEPT ![p] = r]
  PROVE  job'[p] = r /\ r \in Job /\ CallFits(r) /\ Holds(r)
PROOF BY DEF IInv, RefsBalanced, CallsFit, TypeOK

LEMMA UsableIsLive == ASSUME NEW d, MayUse(d) PROVE kind[d] = "dir" => Live(d)
PROOF BY DEF MayUse, Live

LEMMA WalkedKeeps ==
  ASSUME Fits, IInv', NEW p \in Proc, Walked(p)
  PROVE  Fits'
PROOF
<1>1. TypeOK  BY FitsHas
<1>2. PICK j \in Job : j = job[p] /\ CallFits(j) /\ Holds(j) /\ DirsFit(j)  BY FitsHas DEF JobFits
<1>3. /\ j.at = "walk" /\ j.goal = "dir" /\ j.op \notin {"link", "rename"} /\ j.op # "out"
      /\ Making(j) = NULL /\ Linking(j) = NULL
  BY <1>2 DEF Walked, At, Making, Linking, CallFits, Walking
<1>4. CASE Fail(p)  BY <1>2, <1>3, <1>4, EndsFit
<1>5. CASE ~Refused(j) /\ Goto(p, FirstStep[j.op])
             /\ UNCHANGED <<fs, count, open, lock, calls, overdir>>
  <2> DEFINE l == FirstStep[j.op]
             r == [j EXCEPT !.at = l]
  <2>1. job' = [job EXCEPT ![p] = r]  BY <1>1, <1>2, <1>5 DEF Goto, TypeOK
  <2>2. Holds(r) /\ CallFits(r)  BY <1>1, <2>1, MineAfter
  <2>3. j.op \in {"open", "creat", "readlink", "mknod", "mkdir", "symlink", "unlink", "rmdir"}
    <3>1. j.op \in Op \cup {"out"}  BY DEF Job
    <3>2. QED  BY <1>3, <3>1, NamesAssumption
  <2>4. /\ l \in {"lookup", "find", "new", "entry"}
        /\ l = "lookup" <=> j.op \in {"open", "creat", "readlink"}
        /\ l = "find" => j.op \in {"mknod", "mkdir"}
    BY <2>3 DEF FirstStep
  <2>5. r.at = l /\ r.op = j.op /\ r.dir = j.dir /\ r.dir2 = j.dir2 /\ r.inode = j.inode  BY DEF Job
  <2>6. l # "lookup" => MayUse(j.dir)  BY <1>5, <2>4 DEF Refused
  <2> HIDE DEF r, l
  <2>7. Seen(r) /\ RenameFits(r) /\ Linking(r) = NULL
    BY <1>3, <2>4, <2>5 DEF Seen, RenameFits, Linking
  <2>8. DirsFit(r)  BY <1>2, <2>4, <2>5, <2>6, UsableIsLive DEF DirsFit, Permitted, Renaming
  <2>9. Making(r) = NULL
    <3>1. r.at = "find" => r.inode = NULL  BY <1>3, <2>2, <2>4, <2>5 DEF Holds
    <3>2. QED  BY <2>4, <2>5, <3>1 DEF Making
  <2>10. l \notin Renaming  BY <2>4 DEF Renaming
  <2>11. Goto(p, l)  BY <1>5 DEF l
  <2>12. r = [job[p] EXCEPT !.at = l]  BY <1>2 DEF r
  <2>13. QED  BY <1>2, <1>3, <1>5, <2>7, <2>8, <2>9, <2>10, <2>11, <2>12, GotoKeeps DEF KeepsLocks
<1>6. QED  BY <1>2, <1>4, <1>5 DEF Walked

LEMMA WalkedLinkKeeps ==
  ASSUME Fits, IInv', NEW p \in Proc, WalkedLink(p)
  PROVE  Fits'
PROOF
<1>1. TypeOK  BY FitsHas
<1>2. PICK j \in Job : j = job[p] /\ CallFits(j) /\ Holds(j) /\ DirsFit(j)  BY FitsHas DEF JobFits
<1>3. j.at = "walk" /\ j.op = "link" /\ Making(j) = NULL /\ Linking(j) = NULL
  BY <1>2 DEF WalkedLink, At, Making, Linking
<1>4. CASE /\ job' = [job EXCEPT ![p] = [j EXCEPT !.inode = j.dir, !.dir = ROOT, !.path = j.then,
                                        !.goal = "dir", !.name = j.name2]]
           /\ UNCHANGED <<fs, open, lock, calls, overdir>>
  <2> DEFINE r == [j EXCEPT !.inode = j.dir, !.dir = ROOT, !.path = j.then, !.goal = "dir",
                            !.name = j.name2]
  <2>1. job' = [job EXCEPT ![p] = r]  BY <1>4
  <2>2. r.at = "walk" /\ r.dir2 = j.dir2 /\ Takes(j, r, ROOT)  BY <1>3 DEF Job, Takes
  <2> HIDE DEF r
  <2>3. Ready(p, r) /\ Making(r) = NULL /\ Linking(r) = NULL
    BY <1>2, <2>2, WalkReady DEF DirsFit
  <2>4. Ripe(p, ROOT)  BY RootPlaced
  <2>5. QED  BY <1>2, <1>3, <1>4, <2>1, <2>2, <2>3, <2>4, GoesOnFits DEF fs, KeepsLocks
<1>5. CASE /\ j.goal = "dir" /\ ~Refused(j) /\ kind[j.inode] # "dir"
           /\ Goto(p, FirstStep[j.op]) /\ UNCHANGED <<fs, count, open, lock, calls, overdir>>
  <2> DEFINE r == [j EXCEPT !.at = "find"]
  <2>1. r.at = "find" /\ r.op = "link" /\ r.dir = j.dir /\ r.dir2 = j.dir2 /\ r.inode = j.inode
    BY <1>3 DEF Job
  <2>2. Goto(p, "find") /\ r = [job[p] EXCEPT !.at = "find"] /\ "find" \notin Renaming
    BY <1>2, <1>3, <1>5 DEF FirstStep, Renaming
  <2> HIDE DEF r
  <2>3. MayUse(j.dir)  BY <1>3, <1>5 DEF Refused
  <2>4. Seen(r) /\ RenameFits(r) /\ Linking(r) = NULL /\ Making(r) = NULL
    BY <1>5, <2>1 DEF Seen, RenameFits, Linking, Making
  <2>5. DirsFit(r)  BY <1>2, <2>1, <2>3, UsableIsLive DEF DirsFit
  <2>6. QED  BY <1>2, <1>3, <1>5, <2>2, <2>4, <2>5, GotoKeeps DEF KeepsLocks
<1>6. CASE Fail(p)  BY <1>2, <1>3, <1>6, EndsFit
<1>7. QED  BY <1>2, <1>4, <1>5, <1>6 DEF WalkedLink

LEMMA WalkedRenameKeeps ==
  ASSUME Fits, IInv', NEW p \in Proc, WalkedRename(p)
  PROVE  Fits'
PROOF
<1>1. TypeOK  BY FitsHas
<1>2. PICK j \in Job : j = job[p] /\ CallFits(j) /\ Holds(j) /\ DirsFit(j)  BY FitsHas DEF JobFits
<1>3. j.at = "walk" /\ j.op = "rename" /\ Making(j) = NULL /\ Linking(j) = NULL
  BY <1>2 DEF WalkedRename, At, Making, Linking
<1>4. CASE Fail(p)  BY <1>2, <1>3, <1>4, EndsFit
<1>5. CASE /\ ~Refused(j)
           /\ job' = [job EXCEPT ![p] = [j EXCEPT !.dir2 = j.dir, !.dir = ROOT, !.path = j.then,
                                             !.goal = "dir2"]]
           /\ UNCHANGED <<fs, open, lock, calls, overdir>>
  <2> DEFINE r == [j EXCEPT !.dir2 = j.dir, !.dir = ROOT, !.path = j.then, !.goal = "dir2"]
  <2>1. job' = [job EXCEPT ![p] = r]  BY <1>5
  <2>2. r.at = "walk" /\ r.dir2 = j.dir /\ Takes(j, r, ROOT)  BY <1>3 DEF Job, Takes
  <2> HIDE DEF r
  <2>3. MayUse(j.dir)  BY <1>3, <1>5 DEF Refused
  <2>4. Ready(p, r) /\ Making(r) = NULL /\ Linking(r) = NULL
    BY <2>2, <2>3, WalkReady, UsableIsLive
  <2>5. Ripe(p, ROOT)  BY RootPlaced
  <2>6. QED  BY <1>2, <1>3, <1>5, <2>1, <2>2, <2>4, <2>5, GoesOnFits DEF fs, KeepsLocks
<1>6. CASE /\ ~Refused(j) /\ j.goal = "dir2"
           /\ job' = [job EXCEPT ![p] = [j EXCEPT !.dir = j.dir2, !.dir2 = j.dir, !.at = "lock"]]
           /\ UNCHANGED <<fs, count, open, lock, calls, overdir>>
  <2> DEFINE r == [j EXCEPT !.dir = j.dir2, !.dir2 = j.dir, !.at = "lock"]
  <2>1. job' = [job EXCEPT ![p] = r]  BY <1>6
  <2>2. r.at = "lock" /\ r.op = "rename" /\ r.dir = j.dir2 /\ r.dir2 = j.dir /\ Takes(j, r, NULL)
    BY <1>3 DEF Job, Takes
  <2> HIDE DEF r
  <2>3. MayUse(j.dir) /\ j.dir2 # NULL  BY <1>2, <1>3, <1>6 DEF Refused, Holds, Walking
  <2>4. Making(r) = NULL /\ Linking(r) = NULL  BY <2>2 DEF Making, Linking
  <2>5. Ready(p, r)
    BY <1>2, <2>2, <2>3, <2>4, UsableIsLive DEF Ready, Seen, RenameFits, DirsFit
  <2>6. QED  BY <1>2, <1>3, <1>6, <2>1, <2>2, <2>4, <2>5, GoesOnFits DEF fs, KeepsLocks
<1>7. QED  BY <1>2, <1>4, <1>5, <1>6 DEF WalkedRename

LEMMA OpenLookupKeeps ==
  ASSUME Fits, IInv', NEW p \in Proc, OpenLookup(p)
  PROVE  Fits'
PROOF
<1>1. TypeOK  BY FitsHas
<1>2. PICK j \in Job : j = job[p] /\ CallFits(j) /\ Holds(j) /\ DirsFit(j)  BY FitsHas DEF JobFits
<1>3. j.at = "lookup" /\ Making(j) = NULL /\ Linking(j) = NULL
  BY <1>2 DEF OpenLookup, At, Making, Linking
<1>4. CASE \E i \in LookUp(j.dir, j.name) :
              /\ job' = [job EXCEPT ![p].at = "opened", ![p].ino = i]
              /\ UNCHANGED <<fs, count, open, lock, calls, overdir>>
  <2>1. PICK i \in LookUp(j.dir, j.name) :
              /\ job' = [job EXCEPT ![p].at = "opened", ![p].ino = i]
              /\ UNCHANGED <<fs, count, open, lock, calls, overdir>>
    BY <1>4
  <2> DEFINE r == [j EXCEPT !.at = "opened", !.ino = i]
  <2>2. j.dir \in Ino  BY <1>2, <1>3, RefIsIno DEF Holds, Job
  <2>3. Entries(i) # {} \/ (Live(j.dir) /\ parent[j.dir] = i)  BY <2>2, LookUpSeen
  <2>4. job' = [job EXCEPT ![p] = r]  BY <1>1, <1>2, <2>1 DEF TypeOK
  <2>5. r.at = "opened" /\ r.ino = i /\ r.dir = j.dir /\ r.dir2 = j.dir2 /\ Takes(j, r, NULL)
    BY DEF Job, Takes
  <2> HIDE DEF r
  <2>6. Making(r) = NULL /\ Linking(r) = NULL  BY <2>5 DEF Making, Linking
  <2>7. Ready(p, r)
    BY <1>2, <2>3, <2>5, <2>6 DEF Ready, Seen, DirsFit, RenameFits, Permitted, Renaming
  <2>8. QED  BY <1>2, <1>3, <2>1, <2>4, <2>5, <2>6, <2>7, GoesOnFits DEF fs, KeepsLocks
<1>5. CASE MayUse(j.dir) /\ Goto(p, "new") /\ UNCHANGED <<fs, count, open, lock, calls, overdir>>
  <2> DEFINE r == [j EXCEPT !.at = "new"]
  <2>1. r.at = "new" /\ r.dir = j.dir /\ r.dir2 = j.dir2 /\ r.inode = j.inode  BY DEF Job
  <2>2. r = [job[p] EXCEPT !.at = "new"] /\ "new" \notin Renaming  BY <1>2 DEF Renaming
  <2> HIDE DEF r
  <2>3. Seen(r) /\ RenameFits(r) /\ Linking(r) = NULL /\ Making(r) = NULL
    BY <2>1 DEF Seen, RenameFits, Linking, Making
  <2>4. DirsFit(r)  BY <1>2, <1>5, <2>1, UsableIsLive DEF DirsFit
  <2>5. QED  BY <1>2, <1>3, <1>5, <2>2, <2>3, <2>4, GotoKeeps DEF KeepsLocks
<1>6. CASE Fail(p)  BY <1>2, <1>3, <1>6, EndsFit
<1>7. QED  BY <1>2, <1>4, <1>5, <1>6 DEF OpenLookup

LEMMA OpenIgetKeeps ==
  ASSUME Fits, IInv', NEW p \in Proc, OpenIget(p)
  PROVE  Fits'
PROOF
<1>1. TypeOK  BY FitsHas
<1>2. PICK j \in Job : j = job[p] /\ CallFits(j) /\ Holds(j) /\ DirsFit(j)  BY FitsHas DEF JobFits
<1>3. j.at = "opened" /\ Making(j) = NULL /\ Linking(j) = NULL
  BY <1>2 DEF OpenIget, At, Making, Linking
<1>4. Ripe(p, j.ino)  BY <1>2, <1>3, SeenRipe
<1>5. UNCHANGED <<entry, parent, open, calls, overdir>>  BY DEF OpenIget
<1>6. CASE /\ kind' = Freed(count', nlink, kind)
           /\ job' = [job EXCEPT ![p] = [j EXCEPT !.at = "walk", !.goal = "file", !.dir = j.ino]]
           /\ UNCHANGED <<lock, nlink>>
  <2> DEFINE r == [j EXCEPT !.at = "walk", !.goal = "file", !.dir = j.ino]
  <2>1. job' = [job EXCEPT ![p] = r]  BY <1>6
  <2>2. r.at = "walk" /\ r.dir2 = j.dir2 /\ Takes(j, r, j.ino)  BY DEF Job, Takes
  <2> HIDE DEF r
  <2>3. Ready(p, r) /\ Making(r) = NULL /\ Linking(r) = NULL
    BY <1>2, <2>2, WalkReady DEF DirsFit
  <2>4. QED  BY <1>2, <1>3, <1>4, <1>5, <1>6, <2>1, <2>2, <2>3, GoesOnFits DEF KeepsLocks
<1>7. CASE /\ job' = [job EXCEPT ![p] = [j EXCEPT !.at = "walk", !.goal = "file",
                        !.depth = j.depth + 1, !.path = target[j.ino] \o <<EndOfLink>>]]
           /\ UNCHANGED <<count, kind, lock, nlink>>
  <2> DEFINE r == [j EXCEPT !.at = "walk", !.goal = "file", !.depth = j.depth + 1,
                            !.path = target[j.ino] \o <<EndOfLink>>]
  <2>1. job' = [job EXCEPT ![p] = r]  BY <1>7
  <2>2. r.at = "walk" /\ r.dir2 = j.dir2 /\ Takes(j, r, NULL)  BY DEF Job, Takes
  <2> HIDE DEF r
  <2>3. Ready(p, r) /\ Making(r) = NULL /\ Linking(r) = NULL
    BY <1>2, <2>2, WalkReady DEF DirsFit
  <2>4. QED  BY <1>2, <1>3, <1>5, <1>7, <2>1, <2>2, <2>3, GoesOnFits DEF KeepsLocks
<1>8. CASE Return(p, nlink, kind)
  <2>1. Fail(p)  BY <1>8 DEF OpenIget, Fail
  <2>2. QED  BY <1>2, <1>3, <2>1, EndsFit
<1>9. QED  BY <1>2, <1>6, <1>7, <1>8 DEF OpenIget

LEMMA OutReady ==
  ASSUME NEW p
  PROVE  /\ Ready(p, Out) /\ Making(Out) = NULL /\ Linking(Out) = NULL
         /\ \A f \in RefFields : Out[f] = NULL
PROOF
<1>1. Making(Out) = NULL /\ Linking(Out) = NULL /\ \A f \in RefFields : Out[f] = NULL
  BY DEF Out, Making, Linking, RefFields
<1>2. QED  BY <1>1 DEF Ready, Out, Seen, DirsFit, RenameFits, Permitted, Renaming

LEMMA OpenDoneKeeps ==
  ASSUME Fits, IInv', NEW p \in Proc, OpenDone(p)
  PROVE  Fits'
PROOF
<1>1. PICK j \in Job : j = job[p] /\ CallFits(j) /\ Holds(j)  BY FitsHas
<1>2. j.at = "walk" /\ Making(j) = NULL /\ Linking(j) = NULL
  BY <1>1 DEF OpenDone, At, Making, Linking
<1>3. CASE /\ open' = [open EXCEPT ![p] = j.dir] /\ job' = [job EXCEPT ![p] = Out]
           /\ UNCHANGED <<fs, count, lock, calls, overdir>>
  <2>1. j.dir = NULL \/ Ripe(p, j.dir)
    <3>1. "dir" \in RefFields /\ job[p]["dir"] = j.dir  BY <1>1 DEF RefFields
    <3>2. QED  BY <3>1, HeldRipe
  <2>2. SameFiles(p, Out, j.dir)
    BY <1>1, <1>2, <1>3, <2>1, OutFits, OutReady DEF SameFiles, fs
  <2>3. KeepsLocks(p)  BY <1>3 DEF KeepsLocks
  <2>4. QED  BY <2>2, <2>3, OutReady, SameFits
<1>4. CASE Fail(p)  BY <1>1, <1>2, <1>4, EndsFit
<1>5. QED  BY <1>1, <1>3, <1>4 DEF OpenDone

LEMMA CloseKeeps ==
  ASSUME Fits, IInv', NEW p \in Proc, Close(p)
  PROVE  Fits'
PROOF
<1>1. job[p] = Out /\ job' = [job EXCEPT ![p] = Out]  BY FitsHas DEF Close, TypeOK
<1>2. SameFiles(p, Out, NULL)
  BY <1>1, OutFits, OutReady DEF SameFiles, Close
<1>3. KeepsLocks(p)  BY DEF KeepsLocks, Close
<1>4. QED  BY <1>2, <1>3, OutReady, SameFits

LEMMA ReadlinkKeeps ==
  ASSUME Fits, IInv', NEW p \in Proc, Readlink(p)
  PROVE  Fits'
PROOF BY EndsFit DEF Readlink, At, Making, Linking

(***************************************************************************)
(* The steps that change an inode that has no name yet.                    *)
(***************************************************************************)
(* Nobody but p has i, and no directory names it or is in it. *)
Nameless(p, i) ==
  /\ i \in Ino /\ ~Placed(i) /\ Entries(i) = {} /\ empty_dir(i)
  /\ \A d \in Ino : Placed(d) => parent[d] # i
  /\ \A q \in Proc \ {p}, f \in RefFields : job[q][f] # i

MakeStep(p, r, i) ==
  /\ Nameless(p, i) /\ empty_dir(i)' /\ (Live(i)' => Making(r) = i)
  /\ job' = [job EXCEPT ![p] = r] /\ open' = open /\ overdir' = overdir
  /\ \A k \in Ino \ {i} :
       /\ nlink'[k] = nlink[k] /\ parent'[k] = parent[k] /\ entry'[k] = entry[k]
       /\ kind'[k] = IF kind'[k] = "free" /\ nlink[k] = 0 /\ count'[k] = 0 THEN "free" ELSE kind[k]
  /\ Making(job[p]) \in {NULL, i} /\ Making(r) \in {NULL, i}
  /\ Linking(job[p]) = NULL /\ Linking(r) = NULL
  /\ kind'[i] = "free" => nlink'[i] = 0 /\ count'[i] = 0
  /\ kind'[i] \in {"file", "link"} => nlink'[i] = 1 /\ Making(r) = i
  /\ \A f \in RefFields : r[f] \in {NULL, i} \/ \E g \in RefFields : r[f] = job[p][g]

Avoids(p, r, k) == \A f \in RefFields : r[f] # k /\ job[p][f] # k

LEMMA NotTakenBy ==
  ASSUME Fits, IInv', NEW p \in Proc, NEW r \in Job, NEW o,
         job' = [job EXCEPT ![p] = r], open' = [open EXCEPT ![p] = o], NEW k \in Ino,
         Avoids(p, r, k), open[p] # k, o # k
  PROVE  count'[k] = count[k]
PROOF
<1>1. /\ count'[k] = count[k] + OfCall(r, k) - OfCall(job[p], k) + One(o, k) - One(open[p], k)
      /\ count[k] \in Nat
  BY CountsMove DEF Fits
<1>2. OfCall(r, k) = 0 /\ OfCall(job[p], k) = 0  BY DEF Avoids, OfCall, One, RefFields
<1>3. One(o, k) = 0 /\ One(open[p], k) = 0  BY DEF One
<1>4. QED  BY <1>1, <1>2, <1>3

OpensOther(p, k) == \E o : open' = [open EXCEPT ![p] = o] /\ o # k

LEMMA NotTaken ==
  ASSUME Fits, IInv', NEW p \in Proc, NEW r \in Job,
         job' = [job EXCEPT ![p] = r], NEW k \in Ino,
         OpensOther(p, k),
         Avoids(p, r, k), open[p] # k
  PROVE  count'[k] = count[k]
PROOF
<1>1. PICK o : open' = [open EXCEPT ![p] = o] /\ o # k  BY DEF OpensOther
<1>2. open' = [open EXCEPT ![p] = o]  BY <1>1
<1>3. o # k  BY <1>1
<1>4. QED  BY <1>2, <1>3, NotTakenBy

LEMMA MakeView ==
  ASSUME Fits, IInv', NEW p \in Proc, NEW r, NEW i, MakeStep(p, r, i)
  PROVE  /\ r \in Job /\ job'[p] = r /\ \A q \in Proc \ {p} : job'[q] = job[q]
         /\ \A k : Late(k)' = Late(k)
         /\ \A k \in Ino : k # i => New(k)' = New(k)
         /\ New(i)' = (IF Making(r) = i THEN {p} ELSE {}) /\ Late(i) = {}
         /\ \A k \in Ino : Placed(k)' <=> Placed(k)
         /\ \A k \in Ino : Entries(k)' = Entries(k) /\ Inside(k)' = Inside(k)
         /\ \A k \in Ino : k # i => (Live(k)' <=> Live(k)) /\ (kind'[k] = "free" => nlink[k] = 0 /\ count'[k] = 0)
PROOF
<1>1. TypeOK /\ FsTyped /\ TypeOK' /\ FsTyped'  BY FitsHas DEF IInv, RefsBalanced, TypeOK
<1>2. job'[p] = r /\ r \in Job /\ \A q \in Proc \ {p} : job'[q] = job[q]
  BY <1>1 DEF MakeStep, TypeOK
<1>3. \A k : Late(k)' = Late(k)
  <2>1. \A q \in Proc : Linking(job'[q]) = Linking(job[q])  BY <1>2 DEF MakeStep
  <2>2. QED  BY <2>1 DEF Late
<1>4. i \in Ino /\ i # NULL  BY DEF MakeStep, Nameless, Ino, NULL
<1>5. \A q \in Proc \ {p} : Making(job[q]) # i /\ Linking(job[q]) # i
  <2>1. "inode" \in RefFields  BY DEF RefFields
  <2>2. QED  BY <1>4, <2>1 DEF MakeStep, Nameless, Making, Linking
<1>6. \A k \in Ino : k # i => New(k)' = New(k)
  <2> SUFFICES ASSUME NEW k \in Ino, k # i PROVE New(k)' = New(k)  OBVIOUS
  <2>1. Making(job[p]) # k /\ Making(r) # k
    <3>1. k # NULL  BY DEF Ino, NULL
    <3>2. QED  BY <3>1 DEF MakeStep
  <2>2. QED  BY <1>2, <2>1 DEF New
<1>7. New(i)' = (IF Making(r) = i THEN {p} ELSE {}) /\ Late(i) = {}
  BY <1>2, <1>4, <1>5 DEF New, Late, MakeStep
<1>8. \A k \in Ino : k # i => (kind'[k] = "free" => nlink[k] = 0 /\ count'[k] = 0)
  <2> SUFFICES ASSUME NEW k \in Ino, k # i, kind'[k] = "free" PROVE nlink[k] = 0 /\ count'[k] = 0
    OBVIOUS
  <2>1. CASE kind[k] = "free"
    <3>1. nlink[k] = 0 /\ count[k] = 0  BY <2>1, FitsHas DEF InodesFit
    <3>2. \A f \in RefFields : job[p][f] # k
      <4>1. k # NULL  BY DEF Ino, NULL
      <4>2. QED  BY <2>1, <4>1, HeldRipe DEF Ripe
    <3>3. \A f \in RefFields : r[f] # k
      <4>1. k # NULL  BY DEF Ino, NULL
      <4>2. QED  BY <3>2, <4>1 DEF MakeStep
    <3>4. open[p] # k
      <4>1. k # NULL  BY DEF Ino, NULL
      <4>2. QED  BY <2>1, <4>1, HeldRipe DEF Ripe
    <3>6. job' = [job EXCEPT ![p] = r]  BY DEF MakeStep
    <3>7. Avoids(p, r, k)  BY <3>2, <3>3 DEF Avoids
    <3>8. OpensOther(p, k)
      <4>1. open' = [open EXCEPT ![p] = open[p]]  BY <1>1 DEF MakeStep, TypeOK
      <4>2. QED  BY <3>4, <4>1 DEF OpensOther
    <3>10. count'[k] = count[k]  BY <1>2, <3>4, <3>6, <3>7, <3>8, NotTaken
    <3>11. QED  BY <3>1, <3>10
  <2>2. CASE kind[k] # "free"  BY <2>2 DEF MakeStep
  <2>3. QED  BY <2>1, <2>2
<1>9. \A k \in Ino : k # i => (Live(k)' <=> Live(k))
  <2> SUFFICES ASSUME NEW k \in Ino, k # i PROVE Live(k)' <=> Live(k)  OBVIOUS
  <2>1. nlink'[k] = nlink[k] /\ (kind'[k] = kind[k] \/ (kind'[k] = "free" /\ nlink[k] = 0))
    BY DEF MakeStep
  <2>2. nlink[k] = 0 => ~(nlink[k] > 0)  OBVIOUS
  <2>3. QED  BY <2>1, <2>2 DEF Live
<1>10. \A k \in Ino : Placed(k)' <=> Placed(k)
  <2>1. \A k \in Ino : k # i => (Placed(k)' <=> Placed(k))  BY <1>6, <1>9 DEF Placed
  <2>2. ~Placed(i)  BY DEF MakeStep, Nameless
  <2>3. ~Placed(i)'  BY <1>7 DEF MakeStep, Placed
  <2>4. QED  BY <2>1, <2>2, <2>3
<1>11. \A k \in Ino : Entries(k)' = Entries(k)
  <2> SUFFICES ASSUME NEW k \in Ino PROVE Entries(k)' = Entries(k)  OBVIOUS
  <2>1. k # NULL  BY DEF Ino, NULL
  <2>2. ASSUME NEW e \in Ino \X Slot
        PROVE  (Live(e[1])' /\ entry'[e[1]][e[2]].ino = k) <=> (Live(e[1]) /\ entry[e[1]][e[2]].ino = k)
    <3>1. CASE e[1] = i  BY <2>1, <3>1 DEF MakeStep, Nameless, empty_dir
    <3>2. CASE e[1] # i  BY <1>9, <3>2 DEF MakeStep
    <3>3. QED  BY <3>1, <3>2
  <2>3. QED  BY <2>2 DEF Entries
<1>12. \A k \in Ino : Inside(k)' = Inside(k)
  <2>1. \A d \in Ino : Placed(d) => d # i  BY DEF MakeStep, Nameless
  <2>2. \A d \in Ino : Placed(d) => parent'[d] = parent[d]  BY <2>1 DEF MakeStep
  <2>3. QED  BY <1>10, <2>2 DEF Inside
<1>13. QED  BY <1>2, <1>3, <1>6, <1>7, <1>8, <1>9, <1>10, <1>11, <1>12

LEMMA MakeFsFits ==
  ASSUME Fits, IInv', NEW p \in Proc, NEW r, NEW i, MakeStep(p, r, i)
  PROVE  FsFits'
PROOF
<1> USE MakeView
<1>1. /\ i \in Ino /\ i # NULL /\ ~Placed(i) /\ Entries(i) = {} /\ empty_dir(i)'
      /\ \A d \in Ino : Placed(d) => parent[d] # i
      /\ \A k \in Ino \ {i} :
           /\ nlink'[k] = nlink[k] /\ parent'[k] = parent[k] /\ entry'[k] = entry[k]
           /\ kind'[k] = kind[k] \/ (kind'[k] = "free" /\ nlink[k] = 0 /\ count'[k] = 0)
      /\ kind'[i] = "free" => nlink'[i] = 0 /\ count'[i] = 0
      /\ kind'[i] \in {"file", "link"} => nlink'[i] = 1 /\ Making(r) = i
  BY DEF MakeStep, Nameless, Ino, NULL
<1>2. RootFits'
  <2>1. Placed(ROOT) /\ ROOT \in Ino  BY RootPlaced
  <2>2. ROOT # i  BY <1>1, <2>1
  <2>3. QED  BY <1>1, <2>1, <2>2, FitsHas DEF RootFits
<1>3. InodesFit'
  <2> SUFFICES ASSUME NEW k \in Ino
               PROVE  /\ kind'[k] = "free" => nlink'[k] = 0 /\ count'[k] = 0
                      /\ ~Placed(k)' => empty_dir(k)'
                      /\ New(k)' # {} => Entries(k)' = {}
                      /\ Placed(k)' => Placed(parent[k])'
    BY DEF InodesFit
  <2>1. kind'[k] = "free" => nlink'[k] = 0 /\ count'[k] = 0  BY <1>1
  <2>2. ~Placed(k)' => empty_dir(k)'
    <3>1. CASE k = i  BY <1>1, <3>1
    <3>2. CASE k # i  BY <1>1, <3>2, FitsHas DEF InodesFit, empty_dir
    <3>3. QED  BY <3>1, <3>2
  <2>3. New(k)' # {} => Entries(k)' = {}
    <3>1. CASE k = i  BY <1>1, <3>1
    <3>2. CASE k # i  BY <3>2, FitsHas DEF InodesFit
    <3>3. QED  BY <3>1, <3>2
  <2>4. Placed(k)' => Placed(parent[k])'
    <3> SUFFICES ASSUME Placed(k)' PROVE Placed(parent[k])'  OBVIOUS
    <3>1. Placed(k) /\ k # i  BY <1>1
    <3>2. parent'[k] = parent[k] /\ Placed(parent[k]) /\ parent[k] \in Ino /\ parent[k] # i
      BY <1>1, <3>1, PlacedRipe
    <3>3. \A d \in Ino : d = parent[k] => Placed(d)'  BY <3>2
    <3>4. Live(parent[k])'
      <4>1. Live(parent[k])  BY <3>2 DEF Placed
      <4>2. kind'[parent[k]] = kind[parent[k]] \/ (kind'[parent[k]] = "free" /\ nlink[parent[k]] = 0)
        BY <1>1, <3>2
      <4>3. nlink'[parent[k]] = nlink[parent[k]]  BY <1>1, <3>2
      <4>4. QED  BY <3>2, <4>1, <4>2, <4>3 DEF Live
    <3>5. New(parent[k])' = {}
      <4>1. New(parent[k]) = {}  BY <3>2 DEF Placed
      <4>2. \A d \in Ino : d = parent[k] => New(d)' = {}  BY <3>2, <4>1
      <4>3. PICK d \in Ino : d = parent[k]  BY <3>2
      <4>4. New(d)' = {} /\ d = parent'[k]  BY <3>2, <4>2, <4>3
      <4>5. QED  BY <4>4 DEF New
    <3>6. QED  BY <3>2, <3>4, <3>5 DEF Placed, Live
  <2>5. QED  BY <2>1, <2>2, <2>3, <2>4
<1>4. LinksRight'
  <2> SUFFICES ASSUME NEW k \in Ino
               PROVE  /\ Entries(k)' # {} => kind'[k] \in {"file", "link"} \/ Placed(k)'
                      /\ kind'[k] \in {"file", "link"}
                           => nlink'[k] + Cardinality(Late(k)') = Cardinality(Entries(k)') + Cardinality(New(k)')
                      /\ Placed(k)' => nlink'[k] = Cardinality(Entries(k)') + 1 + Cardinality(Inside(k)')
    BY DEF LinksRight
  <2>1. CASE k = i
    <3>1. Entries(k)' = {} /\ ~Placed(k)' /\ Late(k)' = {}  BY <1>1, <2>1
    <3>2. kind'[k] \in {"file", "link"} => New(k)' = {p} /\ nlink'[k] = 1  BY <1>1, <2>1
    <3>3. Cardinality({}) = 0 /\ Cardinality({p}) = 1  BY FS_EmptySet, FS_Singleton
    <3>4. QED  BY <3>1, <3>2, <3>3
  <2>2. CASE k # i
    <3>1. /\ Entries(k) # {} => kind[k] \in {"file", "link"} \/ Placed(k)
          /\ kind[k] \in {"file", "link"}
               => nlink[k] + Cardinality(Late(k)) = Cardinality(Entries(k)) + Cardinality(New(k))
          /\ Placed(k) => nlink[k] = Cardinality(Entries(k)) + 1 + Cardinality(Inside(k))
      BY FitsHas DEF LinksRight
    <3>2. /\ Late(k)' = Late(k) /\ New(k)' = New(k) /\ Entries(k)' = Entries(k)
          /\ Inside(k)' = Inside(k) /\ (Placed(k)' <=> Placed(k)) /\ nlink'[k] = nlink[k]
          /\ kind'[k] = kind[k] \/ (kind'[k] = "free" /\ nlink[k] = 0 /\ count'[k] = 0)
      BY <1>1, <2>2
    <3>3. ASSUME Entries(k) # {}, kind'[k] # kind[k], kind[k] \in {"file", "link"} PROVE FALSE
      <4>1. nlink[k] = 0 /\ count'[k] = 0  BY <3>2, <3>3
      <4>2. /\ Cardinality(Late(k)) \in Nat /\ Cardinality(Entries(k)) \in Nat
            /\ Cardinality(New(k)) \in Nat /\ Cardinality(Entries(k)) # 0
        BY <3>3, Finite, FS_EmptySet
      <4>3. Cardinality(Late(k)) # 0  BY <3>1, <3>3, <4>1, <4>2
      <4>4. Late(k)' # {}  BY <3>2, <4>3, FS_EmptySet
      <4>5. PICK q \in Proc : Linking(job'[q]) = k  BY <4>4 DEF Late
      <4>6. job'[q]["inode"] = k /\ "inode" \in RefFields
        BY <4>5 DEF Linking, RefFields, NULL, Ino
      <4>7. QED  BY <4>1, <4>6, HeldAfter
    <3>4. Entries(k)' # {} => kind'[k] \in {"file", "link"} \/ Placed(k)'  BY <3>1, <3>2, <3>3
    <3>5. QED  BY <3>1, <3>2, <3>4
  <2>3. QED  BY <2>1, <2>2
<1>5. IsTree'
  <2>1. \A k \in Ino : Placed(k) => parent'[k] = parent[k]  BY <1>1
  <2>2. {k \in Ino : Placed(k)'} = {k \in Ino : Placed(k)}  OBVIOUS
  <2>3. \A k \in Ino \ {ROOT} : Placed(k)' => \E s \in Slot : Entries(k)' = {<<parent'[k], s>>}
    BY <2>1, FitsHas DEF IsTree
  <2>4. ASSUME NEW D \in SUBSET {k \in Ino : Placed(k)'}, D # {}, \A k \in D : parent'[k] \in D
        PROVE  ROOT \in D
    <3>1. D \in SUBSET {k \in Ino : Placed(k)}  BY <2>2
    <3>2. \A k \in D : parent[k] \in D  BY <2>1, <2>4, <3>1
    <3>3. QED  BY <2>4, <3>1, <3>2, FitsHas DEF IsTree
  <2>5. QED  BY <2>3, <2>4 DEF IsTree
<1>6. QED  BY <1>2, <1>3, <1>4, <1>5 DEF FsFits

LEMMA MakeLeaves ==
  ASSUME Fits, IInv', NEW p \in Proc, NEW r, NEW i, MakeStep(p, r, i), KeepsLocks(p)
  PROVE  Leaves(p)
PROOF
<1> USE MakeView
<1>1. /\ i \in Ino /\ ~Placed(i) /\ Nameless(p, i)
      /\ \A k \in Ino \ {i} :
           /\ nlink'[k] = nlink[k] /\ parent'[k] = parent[k]
           /\ kind'[k] = kind[k] \/ (kind'[k] = "free" /\ nlink[k] = 0 /\ count'[k] = 0)
  BY DEF MakeStep, Nameless
<1>2. \A q \in Proc \ {p} : job'[q] = job[q] /\ (lock = q => lock' = q)  BY DEF KeepsLocks
<1>3. \A k \in Ino : Entries(k) \subseteq Entries(k)'  OBVIOUS
<1>4. ASSUME NEW k \in Ino, OthersHold(p, k) PROVE kind'[k] = kind[k] /\ (Live(k)' <=> Live(k))
  <2>1. PICK q \in Proc \ {p}, f \in RefFields : job[q][f] = k  BY <1>4 DEF OthersHold
  <2>2. count'[k] >= 1  BY <1>2, <2>1, HeldAfter
  <2>3. k # i  BY <1>1, <2>1 DEF Nameless
  <2>4. QED  BY <1>1, <2>2, <2>3
<1>5. ASSUME NEW q \in Proc \ {p}, Making(job[q]) # NULL
      PROVE  LET k == job[q].inode IN
             nlink'[k] = nlink[k] /\ parent'[k] = parent[k] /\ count'[k] = count[k]
  <2>1. PICK k \in Ino : k = job[q].inode  BY <1>5, MakersAlone
  <2>2. /\ \A f \in RefFields : job[p][f] # k
        /\ open[p] # k /\ New(k) = {q}
    BY <1>5, <2>1, MakersAlone
  <2>3. k # i
    <3>1. "inode" \in RefFields  BY DEF RefFields
    <3>2. QED  BY <1>1, <2>1, <3>1 DEF Nameless
  <2>4. \A f \in RefFields : r[f] # k
    <3>1. k # NULL  BY DEF Ino, NULL
    <3>2. QED  BY <2>2, <2>3, <3>1 DEF MakeStep
  <2>5. Avoids(p, r, k)  BY <2>2, <2>4 DEF Avoids
  <2>6. OpensOther(p, k)
    <3>1. open' = [open EXCEPT ![p] = open[p]]  BY FitsHas DEF MakeStep, TypeOK
    <3>2. QED  BY <2>2, <3>1 DEF OpensOther
  <2>7. open[p] # k /\ job' = [job EXCEPT ![p] = r] /\ r \in Job  BY <2>2 DEF MakeStep
  <2>8. count'[k] = count[k]
    <3> HIDE MakeView
    <3> QED  BY <2>5, <2>6, <2>7, NotTaken
  <2>9. QED  BY <1>1, <2>1, <2>3, <2>8
<1>6. \A k \in Ino : Placed(k) => parent'[k] = parent[k]  BY <1>1
<1>7. \A k \in Ino : Placed(k) /\ Live(k)' => Placed(k)'  OBVIOUS
<1>8. QED  BY <1>2, <1>3, <1>4, <1>5, <1>6, <1>7 DEF Leaves

LEMMA MakeFits ==
  ASSUME Fits, IInv', NEW p \in Proc, NEW r, NEW i, MakeStep(p, r, i), KeepsLocks(p),
         Seen(r)', DirsFit(r)', MakingFits(r)', r.at \notin Renaming
  PROVE  Fits'
PROOF
<1>1. FsFits' /\ InodesFit'  BY MakeFsFits DEF FsFits
<1>2. Leaves(p)  BY MakeLeaves
<1>3. ASSUME NEW q \in Proc \ {p} PROVE JobFits(q, job[q])'  BY <1>1, <1>2, OthersFit
<1>4. job'[p] = r  BY MakeView
<1>5. RenameFits(r)' /\ overdir' = overdir  BY DEF RenameFits, Renaming, MakeStep
<1>6. JobFits(p, job[p])'  BY <1>4, <1>5 DEF JobFits
<1>7. JobsFit'  BY <1>3, <1>6 DEF JobsFit
<1>8. QED  BY <1>1, <1>5, <1>7 DEF Fits

LEMMA PutAll ==
  ASSUME IInv, NEW p \in Proc, NEW i \in Ino, count' = Put(count, job[p], RefFields)
  PROVE  /\ count'[i] = count[i] - OfCall(job[p], i)
         /\ count[i] \in Int /\ OfCall(job[p], i) \in Nat
PROOF
<1>1. count \in Counts  BY DEF IInv, RefsBalanced, TypeOK, Counts
<1>2. QED  BY <1>1, PutOf, OfCallType DEF Counts

LEMMA FailNewKeeps ==
  ASSUME Fits, IInv', NEW p \in Proc, FailNew(p), Making(job[p]) # NULL
  PROVE  Fits'
PROOF
<1> PICK i : i = job[p].inode  OBVIOUS
<1>1. /\ i \in Ino /\ Making(job[p]) = i /\ count[i] = 1 /\ ~Placed(i) /\ Entries(i) = {} /\ empty_dir(i)
      /\ \A d \in Ino : Placed(d) => parent[d] # i
      /\ \A q \in Proc : \A f \in RefFields : job[q][f] = i => q = p /\ f = "inode"
  BY MakersAlone
<1>2. Nameless(p, i)  BY <1>1 DEF Nameless
<1>3. OfCall(job[p], i) = 1
  <2>1. job[p]["inode"] = i /\ \A f \in {"dir", "dir2", "inode2", "up"} : job[p][f] # i
    BY <1>1 DEF RefFields
  <2>2. QED  BY <2>1 DEF OfCall, One
<1>4. /\ count' = Put(count, job[p], RefFields) /\ nlink' = [nlink EXCEPT ![i] = 0]
      /\ kind' = Freed(count', nlink', kind) /\ job' = [job EXCEPT ![p] = Out]
      /\ lock' = IF lock = p THEN NoProc ELSE lock
      /\ UNCHANGED <<entry, parent, target, open, calls, overdir>>
  BY DEF FailNew, Return
<1>5. count'[i] = 0  BY <1>1, <1>3, <1>4, PutAll DEF Fits
<1>6. nlink'[i] = 0 /\ \A k \in Ino : k # i => nlink'[k] = nlink[k]
  BY <1>1, <1>4, FitsHas DEF FsTyped
<1>7. \A k \in Ino : kind'[k] = IF count'[k] = 0 /\ nlink'[k] = 0 THEN "free" ELSE kind[k]
  BY <1>4 DEF Freed
<1>8. kind'[i] = "free"  BY <1>1, <1>5, <1>6, <1>7
<1>9. Linking(job[p]) = NULL  BY <1>1 DEF Making, Linking, Ino, NULL
<1>10. empty_dir(i)' /\ ~Live(i)'  BY <1>1, <1>4, <1>8 DEF empty_dir, Live
<1>11. \A k \in Ino \ {i} :
         kind'[k] = IF kind'[k] = "free" /\ nlink[k] = 0 /\ count'[k] = 0 THEN "free" ELSE kind[k]
  BY <1>6, <1>7
<1>12. MakeStep(p, Out, i)
  BY <1>1, <1>2, <1>4, <1>5, <1>6, <1>8, <1>9, <1>10, <1>11, OutReady DEF MakeStep
<1>13. KeepsLocks(p)  BY <1>4, NamesAssumption DEF KeepsLocks
<1>14. Seen(Out)' /\ DirsFit(Out)' /\ MakingFits(Out)' /\ Out.at \notin Renaming
  BY DEF Seen, DirsFit, MakingFits, Making, Out, Permitted, Renaming
<1>15. QED  BY <1>12, <1>13, <1>14, MakeFits

LEMMA SymlinkBlockKeeps ==
  ASSUME Fits, IInv', NEW p \in Proc, SymlinkBlock(p)
  PROVE  Fits'
PROOF
<1>1. TypeOK  BY FitsHas
<1>2. PICK j \in Job : j = job[p] /\ CallFits(j) /\ Holds(j) /\ DirsFit(j) /\ MakingFits(j)
  BY FitsHas DEF JobFits
<1>3. /\ j.at = "block" /\ j.op = "symlink" /\ Making(j) = j.inode /\ Linking(j) = NULL
      /\ j.inode # NULL
  BY <1>2 DEF SymlinkBlock, At, Making, Linking, Holds
<1>4. CASE /\ Goto(p, "find")
           /\ UNCHANGED <<kind, nlink, entry, parent, count, open, lock, calls, overdir>>
  <2> DEFINE r == [j EXCEPT !.at = "find"]
  <2>1. job' = [job EXCEPT ![p] = r]  BY <1>1, <1>2, <1>4 DEF Goto, TypeOK
  <2>2. /\ r.at = "find" /\ r.op = "symlink" /\ r.dir = j.dir /\ r.dir2 = j.dir2 /\ r.inode = j.inode
        /\ SameRefs(j, r) /\ Takes(j, r, NULL)
    BY <1>3 DEF Job, SameRefs, Takes
  <2> HIDE DEF r
  <2>3. Making(r) = j.inode /\ Linking(r) = NULL  BY <2>2 DEF Making, Linking
  <2>4. Seen(r) /\ DirsFit(r) /\ RenameFits(r)
    BY <1>2, <1>3, <2>2 DEF Seen, DirsFit, RenameFits, Permitted
  <2>5. MakingFits(r)  BY <1>2, <1>3, <2>2, <2>3 DEF MakingFits
  <2>6. Ready(p, r)  BY <1>2, <1>4, <2>2, <2>4, <2>5 DEF Ready, Renaming
  <2>7. QED  BY <1>2, <1>3, <1>4, <2>1, <2>2, <2>3, <2>6, GoesOnFits DEF KeepsLocks
<1>5. CASE FailNew(p)  BY <1>2, <1>3, <1>5, FailNewKeeps
<1>6. QED  BY <1>4, <1>5 DEF SymlinkBlock

LEMMA FindNoneKeeps ==
  ASSUME Fits, IInv', NEW p \in Proc, FindNone(p)
  PROVE  Fits'
PROOF
<1>1. TypeOK  BY FitsHas
<1>2. PICK j \in Job : /\ j = job[p] /\ CallFits(j) /\ Holds(j) /\ Seen(j) /\ DirsFit(j)
                       /\ MakingFits(j)
  BY FitsHas DEF JobFits
<1>3. /\ j.at = "find" /\ Linking(j) = NULL
      /\ Making(j) = IF j.op = "symlink" THEN j.inode ELSE NULL
      /\ j.op = "symlink" => j.inode # NULL
  BY <1>2 DEF FindNone, At, Making, Linking, Holds
<1>4. CASE /\ Goto(p, IF j.op \in {"link", "symlink"} THEN "add" ELSE "new")
           /\ UNCHANGED <<fs, count, open, lock, calls, overdir>>
  <2> DEFINE l == IF j.op \in {"link", "symlink"} THEN "add" ELSE "new"
             r == [j EXCEPT !.at = l]
  <2>1. job' = [job EXCEPT ![p] = r]  BY <1>1, <1>2, <1>4 DEF Goto, TypeOK
  <2>2. /\ r.at = l /\ r.op = j.op /\ r.dir = j.dir /\ r.dir2 = j.dir2 /\ r.inode = j.inode
        /\ SameRefs(j, r) /\ Takes(j, r, NULL)
    BY <1>3 DEF Job, SameRefs, Takes
  <2>3. l \in {"add", "new"} /\ (l = "add" <=> j.op \in {"link", "symlink"})  OBVIOUS
  <2> HIDE DEF r, l
  <2>4. Making(r) = Making(j) /\ Linking(r) = NULL
    <3>1. Making(r) = IF j.op # "link" /\ l = "add" THEN j.inode ELSE NULL
      BY <2>2, <2>3 DEF Making
    <3>2. QED  BY <1>3, <2>2, <2>3, <3>1 DEF Linking
  <2>5. Seen(r) /\ DirsFit(r) /\ RenameFits(r)
    BY <1>2, <1>3, <2>2, <2>3 DEF Seen, DirsFit, RenameFits, Permitted
  <2>6. Making(r) # NULL => MakingFits(r)
    BY <1>2, <1>3, <2>2, <2>3, <2>4 DEF MakingFits
  <2>7. Ready(p, r)  BY <1>2, <1>4, <2>2, <2>3, <2>5, <2>6 DEF Ready, Renaming
  <2>8. QED  BY <1>2, <1>3, <1>4, <2>1, <2>2, <2>4, <2>7, GoesOnFits DEF fs, KeepsLocks
<1>5. CASE j.op # "symlink" /\ Fail(p)  BY <1>2, <1>3, <1>5, EndsFit
<1>6. CASE j.op = "symlink" /\ FailNew(p)  BY <1>2, <1>3, <1>6, FailNewKeeps
<1>7. QED  BY <1>2, <1>4, <1>5, <1>6 DEF FindNone

LEMMA AddFailsKeeps ==
  ASSUME Fits, IInv', NEW p \in Proc, AddFails(p)
  PROVE  Fits'
PROOF
<1>1. PICK j \in Job : j = job[p] /\ Holds(j)  BY FitsHas
<1>2. j.at = "add" /\ Linking(j) = NULL /\ j.inode # NULL /\ (j.op # "link" => Making(j) = j.inode)
      /\ (j.op = "link" => Making(j) = NULL)
  BY <1>1 DEF AddFails, At, Making, Linking, Holds
<1>3. QED  BY <1>1, <1>2, EndsFit, FailNewKeeps DEF AddFails

(* An inode that is free is nobody's. *)
LEMMA FreeNameless ==
  ASSUME Fits, NEW p \in Proc, NEW i \in Ino, kind[i] = "free"
  PROVE  Nameless(p, i) /\ nlink[i] = 0 /\ count[i] = 0 /\ New(i) = {}
         /\ \A q \in Proc : open[q] # i /\ \A f \in RefFields : job[q][f] # i
PROOF
<1>1. nlink[i] = 0 /\ count[i] = 0  BY FitsHas DEF InodesFit
<1>2. i # NULL  BY DEF Ino, NULL
<1>3. \A q \in Proc : open[q] # i /\ \A f \in RefFields : job[q][f] # i
  BY <1>2, HeldRipe DEF Ripe
<1>4. ~Placed(i) /\ ~Live(i)  BY DEF Placed, Live
<1>5. Entries(i) = {}  BY EntryRipe
<1>6. empty_dir(i)  BY <1>4, FitsHas DEF InodesFit
<1>7. \A d \in Ino : Placed(d) => parent[d] # i  BY PlacedRipe, <1>4
<1>8. New(i) = {}
  <2>1. "inode" \in RefFields  BY DEF RefFields
  <2>2. QED  BY <1>2, <1>3, <2>1 DEF New, Making
<1>9. QED  BY <1>1, <1>3, <1>4, <1>5, <1>6, <1>7, <1>8 DEF Nameless

LEMMA NewInodeKeeps ==
  ASSUME Fits, IInv', NEW p \in Proc, NewInode(p)
  PROVE  Fits'
PROOF
<1>1. TypeOK /\ FsTyped  BY FitsHas
<1>2. PICK j \in Job : j = job[p] /\ CallFits(j) /\ Holds(j) /\ DirsFit(j)  BY FitsHas DEF JobFits
<1>3. /\ j.at = "new" /\ j.op \in {"creat", "mknod", "mkdir", "symlink"}
      /\ Making(j) = NULL /\ Linking(j) = NULL /\ j.dir2 = NULL /\ j.dir # NULL
  <2>1. j.at = "new"  BY <1>2 DEF NewInode, At
  <2>2. j.op \in {"creat", "mknod", "mkdir", "symlink"}  BY <1>2, <2>1, WhereIs DEF CallFits
  <2>3. QED  BY <1>2, <2>1, <2>2 DEF Making, Linking, Holds, Renaming, Walking
<1>4. CASE Fail(p)  BY <1>2, <1>3, <1>4, EndsFit
<1> DEFINE free == {k \in Ino : kind[k] = "free"}
<1>5. ASSUME NEW i, i = Min(free), free # {},
             kind' = [kind EXCEPT ![i] = KindOf(j.op)], nlink' = [nlink EXCEPT ![i] = 1],
             count' = Iget(i),
             job' = [job EXCEPT ![p].inode = i,
                                ![p].at = IF j.op \in {"mkdir", "symlink"} THEN "block" ELSE "add"],
             UNCHANGED <<entry, parent, target, open, lock, calls, overdir>>
      PROVE  Fits'
  <2>1. i \in Ino /\ kind[i] = "free"
    <3>1. free \in SUBSET Nat  BY NamesAssumption DEF Ino
    <3>2. Min(free) \in free  BY <1>5, <3>1, MinExists
    <3>3. QED  BY <1>5, <3>2
  <2> HIDE DEF free
  <2>2. /\ Nameless(p, i) /\ nlink[i] = 0 /\ count[i] = 0
        /\ \A f \in RefFields : job[p][f] # i
    BY <2>1, FreeNameless
  <2> DEFINE l == IF j.op \in {"mkdir", "symlink"} THEN "block" ELSE "add"
             r == [j EXCEPT !.inode = i, !.at = l]
  <2>3. job' = [job EXCEPT ![p] = r]  BY <1>1, <1>2, <1>5 DEF TypeOK
  <2>4. l \in {"block", "add"} /\ (l = "add" => j.op # "mkdir")  OBVIOUS
  <2>5. /\ r.at = l /\ r.op = j.op /\ r.inode = i /\ r.dir = j.dir /\ r.dir2 = j.dir2
        /\ \A f \in RefFields : r[f] = i \/ r[f] = j[f]
    BY DEF Job, RefFields
  <2> HIDE DEF r, l
  <2>6. Making(r) = i /\ Linking(r) = NULL  BY <1>3, <2>4, <2>5 DEF Making, Linking
  <2>7. KindOf(j.op) \in {"dir", "link", "file"}  BY DEF KindOf
  <2>8. /\ kind'[i] = KindOf(j.op) /\ nlink'[i] = 1 /\ count'[i] = 1 /\ kind'[i] # "free"
        /\ \A k \in Ino \ {i} : kind'[k] = kind[k] /\ nlink'[k] = nlink[k]
    BY <1>1, <1>5, <2>1, <2>2, <2>7 DEF FsTyped, TypeOK, Iget
  <2>9. empty_dir(i)'  BY <1>5, <2>2 DEF Nameless, empty_dir
  <2>10. MakeStep(p, r, i)
    BY <1>2, <1>3, <1>5, <2>2, <2>3, <2>5, <2>6, <2>8, <2>9 DEF MakeStep
  <2>11. Seen(r)'  BY <1>3, <2>4, <2>5 DEF Seen
  <2>12. DirsFit(r)'
    <3>1. j.dir \in Ino /\ j.dir # i
      <4>1. "dir" \in RefFields /\ job[p]["dir"] = j.dir  BY <1>2 DEF RefFields
      <4>2. QED  BY <1>3, <2>2, <4>1, RefIsIno DEF Job
    <3>2. kind'[j.dir] = kind[j.dir] /\ nlink'[j.dir] = nlink[j.dir]  BY <2>8, <3>1
    <3>3. kind[j.dir] = "dir" => Live(j.dir)  BY <1>2, <1>3 DEF DirsFit, Permitted
    <3>4. QED  BY <1>3, <2>5, <3>2, <3>3 DEF DirsFit, Live
  <2>13. MakingFits(r)'  BY <2>4, <2>5, <2>8 DEF MakingFits
  <2>14. r.at \notin Renaming /\ KeepsLocks(p)  BY <1>5, <2>4, <2>5 DEF Renaming, KeepsLocks
  <2>15. QED  BY <2>10, <2>11, <2>12, <2>13, <2>14, MakeFits
<1>6. QED  BY <1>2, <1>4, <1>5 DEF NewInode

LEMMA MkdirBlockKeeps ==
  ASSUME Fits, IInv', NEW p \in Proc, MkdirBlock(p)
  PROVE  Fits'
PROOF
<1>1. TypeOK /\ FsTyped  BY FitsHas
<1>2. PICK j \in Job : j = job[p] /\ CallFits(j) /\ Holds(j) /\ DirsFit(j)  BY FitsHas DEF JobFits
<1>3. /\ j.at = "block" /\ j.op = "mkdir" /\ Making(j) = j.inode /\ Linking(j) = NULL
      /\ j.inode # NULL /\ j.dir # NULL /\ j.dir2 = NULL
  BY <1>2 DEF MkdirBlock, At, Making, Linking, Holds, Renaming, Walking
<1>4. CASE FailNew(p)  BY <1>2, <1>3, <1>4, FailNewKeeps
<1> PICK i : i = j.inode  OBVIOUS
<1>5. CASE /\ entry' = [entry EXCEPT ![i] = EmptyDir] /\ parent' = [parent EXCEPT ![i] = j.dir]
           /\ nlink' = [nlink EXCEPT ![i] = 2] /\ Goto(p, "add")
           /\ UNCHANGED <<kind, target, count, open, lock, calls, overdir>>
  <2>1. /\ i \in Ino /\ count[i] = 1 /\ ~Placed(i) /\ Entries(i) = {} /\ empty_dir(i)
        /\ \A d \in Ino : Placed(d) => parent[d] # i
        /\ \A q \in Proc : \A f \in RefFields : job[q][f] = i => q = p /\ f = "inode"
        /\ kind[i] = "dir"
    <3>1. KindOf(j.op) = "dir"  BY <1>3 DEF KindOf
    <3>2. QED  BY <1>2, <1>3, <3>1, MakersAlone
  <2>2. Nameless(p, i)  BY <2>1 DEF Nameless
  <2> DEFINE r == [j EXCEPT !.at = "add"]
  <2>3. job' = [job EXCEPT ![p] = r]  BY <1>1, <1>2, <1>5 DEF Goto, TypeOK
  <2>4. /\ r.at = "add" /\ r.op = "mkdir" /\ r.inode = i /\ r.dir = j.dir /\ r.dir2 = j.dir2
        /\ \A f \in RefFields : r[f] = j[f]
    BY <1>3 DEF Job, RefFields
  <2> HIDE DEF r
  <2>5. Making(r) = i /\ Linking(r) = NULL  BY <2>4 DEF Making, Linking
  <2>6. /\ nlink'[i] = 2 /\ parent'[i] = j.dir /\ entry'[i] = EmptyDir
        /\ \A k \in Ino \ {i} : nlink'[k] = nlink[k] /\ parent'[k] = parent[k] /\ entry'[k] = entry[k]
    BY <1>1, <1>5, <2>1 DEF FsTyped
  <2>7. empty_dir(i)'
    <3>1. \A s \in Slot : EmptyDir[s].ino = NULL  BY DEF EmptyDir, NoEntry
    <3>2. QED  BY <2>6, <3>1 DEF empty_dir
  <2>8. MakeStep(p, r, i)
    BY <1>2, <1>3, <1>5, <2>1, <2>2, <2>3, <2>4, <2>5, <2>6, <2>7 DEF MakeStep
  <2>9. Seen(r)'  BY <2>4 DEF Seen
  <2>10. DirsFit(r)'
    <3>1. j.dir \in Ino /\ j.dir # i
      <4>1. "dir" \in RefFields /\ job[p]["dir"] = j.dir /\ "dir" # "inode"  BY <1>2 DEF RefFields
      <4>2. QED  BY <1>3, <2>1, <4>1, RefIsIno DEF Job
    <3>2. kind'[j.dir] = kind[j.dir] /\ nlink'[j.dir] = nlink[j.dir]  BY <1>5, <2>6, <3>1
    <3>3. kind[j.dir] = "dir" => Live(j.dir)  BY <1>2, <1>3 DEF DirsFit, Permitted
    <3>4. QED  BY <1>3, <2>4, <3>2, <3>3 DEF DirsFit, Live
  <2>11. MakingFits(r)'
    <3>1. KindOf(r.op) = "dir"  BY <2>4 DEF KindOf
    <3>2. count'[i] = 1 /\ kind'[i] = "dir"  BY <1>5, <2>1
    <3>3. QED  BY <2>4, <2>6, <3>1, <3>2 DEF MakingFits
  <2>12. r.at \notin Renaming /\ KeepsLocks(p)  BY <1>5, <2>4 DEF Renaming, KeepsLocks
  <2>13. QED  BY <2>8, <2>9, <2>10, <2>11, <2>12, MakeFits
<1>6. QED  BY <1>2, <1>4, <1>5 DEF MkdirBlock

(***************************************************************************)
(* unlink, rmdir and rename find an entry.                                 *)
(***************************************************************************)
LEMMA FoundSeen ==
  ASSUME Fits, NEW d \in Ino, NEW name, Find(d, name) # {}
  PROVE  LET s == Min(Find(d, name)) IN
         /\ s \in Slot /\ entry[d][s].ino \in Ino /\ <<d, s>> \in Entries(entry[d][s].ino)
         /\ Placed(d) /\ Live(d)
PROOF
<1> PICK s : s = Min(Find(d, name))  OBVIOUS
<1>1. s \in Slot /\ entry[d][s].ino \in Ino  BY FitsHas, FoundIsEntry
<1>2. entry[d][s].ino # NULL  BY <1>1 DEF Ino, NULL
<1>3. Placed(d)  BY <1>1, <1>2, FitsHas DEF InodesFit, empty_dir
<1>4. Live(d)  BY <1>3 DEF Placed
<1>5. <<d, s>> \in Entries(entry[d][s].ino)  BY <1>1, <1>4 DEF Entries
<1>6. QED  BY <1>1, <1>3, <1>4, <1>5

LEMMA FindEntryKeeps ==
  ASSUME Fits, IInv', NEW p \in Proc, FindEntry(p)
  PROVE  Fits'
PROOF
<1>1. TypeOK  BY FitsHas
<1>2. PICK j \in Job : j = job[p] /\ CallFits(j) /\ Holds(j) /\ DirsFit(j)  BY FitsHas DEF JobFits
<1>3. /\ j.at = "entry" /\ Making(j) = NULL /\ Linking(j) = NULL /\ j.dir # NULL /\ j.dir \in Ino
      /\ j.dir2 = NULL
  BY <1>2, RefIsIno DEF FindEntry, At, Making, Linking, Holds, Job, Renaming, Walking
<1>4. CASE Fail(p)  BY <1>2, <1>3, <1>4, EndsFit
<1> PICK s : s = Min(Find(j.dir, j.name))  OBVIOUS
<1>5. CASE /\ Find(j.dir, j.name) # {}
           /\ job' = [job EXCEPT ![p] = [j EXCEPT !.at = "remove", !.slot = s,
                                               !.ino = entry[j.dir][s].ino]]
           /\ UNCHANGED <<fs, count, open, lock, calls, overdir>>
  <2> PICK i : i = entry[j.dir][s].ino  OBVIOUS
  <2> DEFINE r == [j EXCEPT !.at = "remove", !.slot = s, !.ino = i]
  <2>1. <<j.dir, s>> \in Entries(i) /\ Live(j.dir)  BY <1>3, <1>5, FoundSeen
  <2>2. job' = [job EXCEPT ![p] = r]  BY <1>5
  <2>3. /\ r.at = "remove" /\ r.op = j.op /\ r.dir = j.dir /\ r.dir2 = j.dir2 /\ r.slot = s /\ r.ino = i
        /\ Takes(j, r, NULL)
    BY DEF Job, Takes
  <2> HIDE DEF r
  <2>4. Making(r) = NULL /\ Linking(r) = NULL  BY <2>3 DEF Making, Linking
  <2>5. Seen(r) /\ DirsFit(r) /\ RenameFits(r)  BY <1>3, <2>1, <2>3 DEF Seen, DirsFit, RenameFits
  <2>6. Ready(p, r)  BY <2>3, <2>4, <2>5 DEF Ready, Renaming
  <2>7. QED  BY <1>2, <1>3, <1>5, <2>2, <2>3, <2>4, <2>6, GoesOnFits DEF fs, KeepsLocks
<1>6. QED  BY <1>2, <1>4, <1>5 DEF FindEntry

LEMMA RmdirIgetKeeps ==
  ASSUME Fits, IInv', NEW p \in Proc, RmdirIget(p)
  PROVE  Fits'
PROOF
<1>1. TypeOK  BY FitsHas
<1>2. PICK j \in Job : j = job[p] /\ CallFits(j) /\ Holds(j) /\ DirsFit(j) /\ Seen(j)
  BY FitsHas DEF JobFits
<1>3. /\ j.at = "remove" /\ j.op = "rmdir" /\ Making(j) = NULL /\ Linking(j) = NULL /\ j.dir2 = NULL
      /\ j.ino \in Ino /\ <<j.dir, j.slot>> \in Entries(j.ino)
  <2>1. j.at = "remove" /\ j.op = "rmdir"  BY <1>2 DEF RmdirIget, At
  <2>2. j.ino \in Ino  BY <1>2, <2>1, RefIsIno DEF CallFits, Job
  <2>3. QED  BY <1>2, <2>1, <2>2 DEF Making, Linking, Holds, Renaming, Walking, Seen
<1> DEFINE r == [j EXCEPT !.at = "rmdir", !.inode = j.ino]
<1>4. job' = [job EXCEPT ![p] = r] /\ UNCHANGED <<fs, open, lock, calls, overdir>>
  BY <1>1, <1>2 DEF RmdirIget, TypeOK
<1>5. /\ r.at = "rmdir" /\ r.op = j.op /\ r.dir = j.dir /\ r.dir2 = j.dir2 /\ r.slot = j.slot
      /\ r.ino = j.ino /\ r.inode = j.ino /\ Takes(j, r, j.ino)
  BY DEF Job, Takes
<1> HIDE DEF r
<1>6. Making(r) = NULL /\ Linking(r) = NULL  BY <1>5 DEF Making, Linking
<1>7. Seen(r) /\ RenameFits(r)  BY <1>3, <1>5 DEF Seen, RenameFits
<1>8. DirsFit(r)  BY <1>2, <1>3, <1>5 DEF DirsFit, Permitted
<1>9. Ready(p, r)  BY <1>5, <1>6, <1>7, <1>8 DEF Ready, Renaming
<1>10. Ripe(p, j.ino)  BY <1>3, EntryRipe
<1>11. QED  BY <1>2, <1>3, <1>4, <1>5, <1>6, <1>9, <1>10, GoesOnFits DEF fs, KeepsLocks

(***************************************************************************)
(* rename up to the rename.                                                *)
(***************************************************************************)
LEMMA RenamerHas ==
  ASSUME Fits, NEW p \in Proc, job[p].at \in Renaming
  PROVE  /\ job[p].op = "rename" /\ Making(job[p]) = NULL /\ Linking(job[p]) = NULL
         /\ job[p].dir \in Ino /\ job[p].dir2 \in Ino /\ job[p].dir2 # NULL
         /\ kind[job[p].dir] = "dir" => Live(job[p].dir)
         /\ kind[job[p].dir2] = "dir" => Live(job[p].dir2)
         /\ job[p].at # "lock" => lock = p
PROOF
<1>1. PICK j \in Job : j = job[p] /\ CallFits(j) /\ Holds(j) /\ DirsFit(j)
                       /\ (j.at \in Renaming \ {"lock"} => lock = p)
  BY FitsHas DEF JobFits
<1>2. j.op = "rename" /\ j.at \in Renaming  BY <1>1 DEF CallFits
<1>3. j.at \notin {"out", "linked", "block", "find", "add"}  BY <1>2 DEF Renaming
<1>4. j.dir # NULL /\ j.dir2 # NULL  BY <1>1, <1>2, <1>3 DEF Holds
<1>5. j.dir \in Ino /\ j.dir2 \in Ino  BY <1>4, RefIsIno DEF Job
<1>6. Making(j) = NULL /\ Linking(j) = NULL  BY <1>3 DEF Making, Linking
<1>7. QED  BY <1>1, <1>2, <1>4, <1>5, <1>6 DEF DirsFit, Permitted

(* It goes on there, with the same directories. *)
LEMMA RenamerGoesOn ==
  ASSUME Fits, IInv', NEW p \in Proc, job[p].at \in Renaming, lock' = p, KeepsLocks(p),
         NEW r, job' = [job EXCEPT ![p] = r], r.at \in Renaming, r.op = "rename",
         r.dir = job[p].dir, r.dir2 = job[p].dir2,
         NEW i, i = NULL \/ Ripe(p, i), Takes(job[p], r, i), Seen(r), RenameFits(r),
         UNCHANGED <<nlink, entry, parent, open, overdir>>,
         kind' = kind \/ kind' = Freed(count', nlink, kind)
  PROVE  Fits'
PROOF
<1>1. r.at \notin {"linked", "block", "find", "add"}  BY DEF Renaming
<1>2. Making(r) = NULL /\ Linking(r) = NULL  BY <1>1 DEF Making, Linking
<1>3. DirsFit(r)  BY RenamerHas DEF DirsFit
<1>4. Ready(p, r)  BY <1>2, <1>3 DEF Ready
<1>5. Making(job[p]) = NULL /\ Linking(job[p]) = NULL  BY RenamerHas
<1>6. QED  BY <1>2, <1>4, <1>5, GoesOnFits

LEMMA RenameLockKeeps ==
  ASSUME Fits, IInv', NEW p \in Proc, RenameLock(p)
  PROVE  Fits'
PROOF
<1>1. TypeOK  BY FitsHas
<1>2. PICK j \in Job : j = job[p]  BY FitsHas
<1>3. j.at = "lock" /\ j.at \in Renaming /\ lock' = p /\ KeepsLocks(p)
  BY <1>2, NamesAssumption DEF RenameLock, At, Renaming, LockFree, KeepsLocks
<1> DEFINE r == [j EXCEPT !.at = "old"]
<1>4. job' = [job EXCEPT ![p] = r]  BY <1>1, <1>2 DEF RenameLock, Goto, TypeOK
<1>5. r.at = "old" /\ r.op = j.op /\ r.dir = j.dir /\ r.dir2 = j.dir2 /\ Takes(j, r, NULL)
  BY DEF Job, Takes
<1> HIDE DEF r
<1>6. Seen(r) /\ RenameFits(r) /\ r.at \in Renaming /\ r.op = "rename"
  BY <1>2, <1>3, <1>5, RenamerHas DEF Seen, RenameFits, Renaming
<1>7. UNCHANGED <<nlink, entry, parent, open, overdir>> /\ kind' = kind  BY DEF RenameLock, fs
<1>8. QED  BY <1>2, <1>3, <1>4, <1>5, <1>6, <1>7, RenamerGoesOn

LEMMA RenameOldKeeps ==
  ASSUME Fits, IInv', NEW p \in Proc, RenameOld(p)
  PROVE  Fits'
PROOF
<1>1. TypeOK  BY FitsHas
<1>2. PICK j \in Job : j = job[p]  BY FitsHas
<1>3. j.at = "old" /\ j.at \in Renaming  BY <1>2 DEF RenameOld, At, Renaming
<1>4. /\ Making(j) = NULL /\ Linking(j) = NULL /\ j.dir \in Ino /\ lock = p /\ j.op = "rename"
  BY <1>2, <1>3, RenamerHas
<1>5. CASE Fail(p)  BY <1>2, <1>4, <1>5, EndsFit
<1> PICK s : s = Min(Find(j.dir, j.name))  OBVIOUS
<1>6. CASE /\ Find(j.dir, j.name) # {}
           /\ job' = [job EXCEPT ![p] = [j EXCEPT !.at = "old_iget", !.slot = s,
                                               !.ino = entry[j.dir][s].ino]]
           /\ UNCHANGED <<fs, count, open, lock, calls, overdir>>
  <2> PICK i : i = entry[j.dir][s].ino  OBVIOUS
  <2> DEFINE r == [j EXCEPT !.at = "old_iget", !.slot = s, !.ino = i]
  <2>1. <<j.dir, s>> \in Entries(i)  BY <1>4, <1>6, FoundSeen
  <2>2. job' = [job EXCEPT ![p] = r]  BY <1>6
  <2>3. /\ r.at = "old_iget" /\ r.op = j.op /\ r.dir = j.dir /\ r.dir2 = j.dir2 /\ r.slot = s
        /\ r.ino = i /\ Takes(j, r, NULL)
    BY DEF Job, Takes
  <2> HIDE DEF r
  <2>4. Seen(r) /\ RenameFits(r) /\ r.at \in Renaming
    BY <1>4, <2>1, <2>3 DEF Seen, RenameFits, Renaming
  <2>5. UNCHANGED <<nlink, entry, parent, open, overdir>> /\ kind' = kind /\ lock' = p /\ KeepsLocks(p)
    BY <1>4, <1>6 DEF fs, KeepsLocks
  <2>6. QED  BY <1>2, <1>3, <1>4, <2>2, <2>3, <2>4, <2>5, RenamerGoesOn
<1>7. QED  BY <1>2, <1>5, <1>6 DEF RenameOld

LEMMA RenameOldIgetKeeps ==
  ASSUME Fits, IInv', NEW p \in Proc, RenameOldIget(p)
  PROVE  Fits'
PROOF
<1>1. TypeOK  BY FitsHas
<1>2. PICK j \in Job : j = job[p] /\ CallFits(j) /\ Seen(j)  BY FitsHas DEF JobFits
<1>3. j.at = "old_iget" /\ j.at \in Renaming  BY <1>2 DEF RenameOldIget, At, Renaming
<1>4. lock = p /\ j.op = "rename"  BY <1>2, <1>3, RenamerHas
<1>5. j.ino \in Ino /\ Entries(j.ino) # {}  BY <1>2, <1>3, RefIsIno DEF CallFits, Job, Seen
<1> DEFINE r == [j EXCEPT !.at = "new_name", !.inode = j.ino]
<1>6. job' = [job EXCEPT ![p] = r] /\ UNCHANGED <<fs, open, lock, calls, overdir>>
  BY <1>1, <1>2 DEF RenameOldIget, TypeOK
<1>7. r.at = "new_name" /\ r.op = j.op /\ r.dir = j.dir /\ r.dir2 = j.dir2 /\ Takes(j, r, j.ino)
  BY DEF Job, Takes
<1> HIDE DEF r
<1>8. Seen(r) /\ RenameFits(r) /\ r.at \in Renaming  BY <1>4, <1>7 DEF Seen, RenameFits, Renaming
<1>9. UNCHANGED <<nlink, entry, parent, open, overdir>> /\ kind' = kind /\ lock' = p /\ KeepsLocks(p)
  BY <1>4, <1>6 DEF fs, KeepsLocks
<1>10. Ripe(p, j.ino)  BY <1>5, EntryRipe
<1>11. QED  BY <1>2, <1>3, <1>4, <1>6, <1>7, <1>8, <1>9, <1>10, RenamerGoesOn

LEMMA RenameNewKeeps ==
  ASSUME Fits, IInv', NEW p \in Proc, RenameNew(p)
  PROVE  Fits'
PROOF
<1>1. TypeOK  BY FitsHas
<1>2. PICK j \in Job : j = job[p]  BY FitsHas
<1>3. j.at = "new_name" /\ j.at \in Renaming  BY <1>2 DEF RenameNew, At, Renaming
<1>4. lock = p /\ j.op = "rename" /\ j.dir2 \in Ino  BY <1>2, <1>3, RenamerHas
<1>5. UNCHANGED <<nlink, entry, parent, open, overdir>> /\ kind' = kind /\ lock' = p /\ KeepsLocks(p)
  BY <1>4 DEF RenameNew, fs, KeepsLocks
<1> PICK s : s = Min(Find(j.dir2, j.name2))  OBVIOUS
<1>6. CASE /\ Find(j.dir2, j.name2) # {}
           /\ job' = [job EXCEPT ![p] = [j EXCEPT !.at = "new_iget", !.slot2 = s,
                                               !.ino = entry[j.dir2][s].ino]]
  <2> PICK i : i = entry[j.dir2][s].ino  OBVIOUS
  <2> DEFINE r == [j EXCEPT !.at = "new_iget", !.slot2 = s, !.ino = i]
  <2>1. Entries(i) # {}  BY <1>4, <1>6, FoundSeen
  <2>2. job' = [job EXCEPT ![p] = r]  BY <1>6
  <2>3. /\ r.at = "new_iget" /\ r.op = j.op /\ r.dir = j.dir /\ r.dir2 = j.dir2
        /\ r.ino = i /\ Takes(j, r, NULL)
    BY DEF Job, Takes
  <2> HIDE DEF r
  <2>4. Seen(r) /\ RenameFits(r) /\ r.at \in Renaming
    BY <1>4, <2>1, <2>3 DEF Seen, RenameFits, Renaming
  <2>5. QED  BY <1>2, <1>3, <1>4, <1>5, <2>2, <2>3, <2>4, RenamerGoesOn
<1>7. CASE Goto(p, "check")
  <2> DEFINE r == [j EXCEPT !.at = "check"]
  <2>1. job' = [job EXCEPT ![p] = r]  BY <1>1, <1>2, <1>7 DEF Goto, TypeOK
  <2>2. r.at = "check" /\ r.op = j.op /\ r.dir = j.dir /\ r.dir2 = j.dir2 /\ Takes(j, r, NULL)
    BY DEF Job, Takes
  <2> HIDE DEF r
  <2>3. Seen(r) /\ RenameFits(r) /\ r.at \in Renaming  BY <1>4, <2>2 DEF Seen, RenameFits, Renaming
  <2>4. QED  BY <1>2, <1>3, <1>4, <1>5, <2>1, <2>2, <2>3, RenamerGoesOn
<1>8. QED  BY <1>2, <1>6, <1>7 DEF RenameNew

LEMMA RenameNewIgetKeeps ==
  ASSUME Fits, IInv', NEW p \in Proc, RenameNewIget(p)
  PROVE  Fits'
PROOF
<1>1. TypeOK  BY FitsHas
<1>2. PICK j \in Job : j = job[p] /\ CallFits(j) /\ Seen(j)  BY FitsHas DEF JobFits
<1>3. j.at = "new_iget" /\ j.at \in Renaming  BY <1>2 DEF RenameNewIget, At, Renaming
<1>4. lock = p /\ j.op = "rename"  BY <1>2, <1>3, RenamerHas
<1>5. j.ino \in Ino /\ Entries(j.ino) # {}  BY <1>2, <1>3, RefIsIno DEF CallFits, Job, Seen
<1> DEFINE r == [j EXCEPT !.at = "check", !.inode2 = j.ino]
<1>6. job' = [job EXCEPT ![p] = r] /\ UNCHANGED <<fs, open, lock, calls, overdir>>
  BY <1>1, <1>2 DEF RenameNewIget, TypeOK
<1>7. r.at = "check" /\ r.op = j.op /\ r.dir = j.dir /\ r.dir2 = j.dir2 /\ Takes(j, r, j.ino)
  BY DEF Job, Takes
<1> HIDE DEF r
<1>8. Seen(r) /\ RenameFits(r) /\ r.at \in Renaming  BY <1>4, <1>7 DEF Seen, RenameFits, Renaming
<1>9. UNCHANGED <<nlink, entry, parent, open, overdir>> /\ kind' = kind /\ lock' = p /\ KeepsLocks(p)
  BY <1>4, <1>6 DEF fs, KeepsLocks
<1>10. Ripe(p, j.ino)  BY <1>5, EntryRipe
<1>11. QED  BY <1>2, <1>3, <1>4, <1>6, <1>7, <1>8, <1>9, <1>10, RenamerGoesOn

LEMMA RenameCheckKeeps ==
  ASSUME Fits, IInv', NEW p \in Proc, RenameCheck(p)
  PROVE  Fits'
PROOF
<1>1. TypeOK  BY FitsHas
<1>2. PICK j \in Job : j = job[p]  BY FitsHas
<1>3. j.at = "check" /\ j.at \in Renaming  BY <1>2 DEF RenameCheck, At, Renaming
<1>4. /\ lock = p /\ j.op = "rename" /\ j.dir2 \in Ino /\ Making(j) = NULL /\ Linking(j) = NULL
      /\ kind[j.dir2] = "dir" => Live(j.dir2)
  BY <1>2, <1>3, RenamerHas
<1>5. CASE Fail(p)  BY <1>2, <1>4, <1>5, EndsFit
<1>6. CASE /\ j.inode # j.inode2 /\ kind[j.inode] # "dir" /\ Goto(p, "sanity")
           /\ UNCHANGED <<fs, count, open, lock, calls, overdir>>
  <2> DEFINE r == [j EXCEPT !.at = "sanity"]
  <2>1. job' = [job EXCEPT ![p] = r]  BY <1>1, <1>2, <1>6 DEF Goto, TypeOK
  <2>2. /\ r.at = "sanity" /\ r.op = j.op /\ r.dir = j.dir /\ r.dir2 = j.dir2 /\ r.inode = j.inode
        /\ r.inode2 = j.inode2 /\ Takes(j, r, NULL)
    BY DEF Job, Takes
  <2> HIDE DEF r
  <2>3. Seen(r) /\ RenameFits(r) /\ r.at \in Renaming
    BY <1>4, <1>6, <2>2 DEF Seen, RenameFits, Renaming
  <2>4. UNCHANGED <<nlink, entry, parent, open, overdir>> /\ kind' = kind /\ lock' = p /\ KeepsLocks(p)
    BY <1>4, <1>6 DEF fs, KeepsLocks
  <2>5. QED  BY <1>2, <1>3, <1>4, <2>1, <2>2, <2>3, <2>4, RenamerGoesOn
<1>7. CASE /\ kind[j.inode] = "dir" /\ j.slot2 = NULL /\ MayUse(j.inode)
           /\ job' = [job EXCEPT ![p] = [j EXCEPT !.at = "subdir", !.up = j.dir2]]
           /\ UNCHANGED <<fs, open, lock, calls, overdir>>
  <2> DEFINE r == [j EXCEPT !.at = "subdir", !.up = j.dir2]
  <2>1. job' = [job EXCEPT ![p] = r]  BY <1>7
  <2>2. /\ r.at = "subdir" /\ r.op = j.op /\ r.dir = j.dir /\ r.dir2 = j.dir2 /\ r.inode = j.inode
        /\ r.up = j.dir2 /\ r.slot2 = NULL /\ Takes(j, r, NULL)
    BY <1>7 DEF Job, Takes
  <2> HIDE DEF r
  <2>3. Passed(r, {r.up})
    <3>1. {} \in SUBSET {i \in Ino : Placed(i)} /\ r.dir2 \in {} \cup {r.up}  BY <2>2
    <3>2. QED  BY <3>1 DEF Passed
  <2>4. RenameFits(r)  BY <1>7, <2>2, <2>3, UsableIsLive DEF RenameFits
  <2>5. Seen(r) /\ r.at \in Renaming  BY <1>4, <2>2 DEF Seen, Renaming
  <2>6. UNCHANGED <<nlink, entry, parent, open, overdir>> /\ kind' = kind /\ lock' = p /\ KeepsLocks(p)
    BY <1>4, <1>7 DEF fs, KeepsLocks
  <2>7. QED  BY <1>2, <1>3, <1>4, <2>1, <2>2, <2>4, <2>5, <2>6, RenamerGoesOn
<1>8. QED  BY <1>2, <1>5, <1>6, <1>7 DEF RenameCheck

(* One directory further up. *)
LEMMA PassedOn ==
  ASSUME Fits, NEW j, NEW r, NEW up \in Ino, Placed(up), Passed(j, {up}), up # j.inode,
         r.inode = j.inode, r.dir2 = j.dir2, NEW top, parent[up] \in top \/ parent[up] = up
  PROVE  Passed(r, top)
PROOF
<1>1. PICK D \in SUBSET {i \in Ino : Placed(i)} :
        /\ j.inode \notin D /\ j.dir2 \in D \cup {up}
        /\ \A i \in D : parent[i] \in D \cup {up}
  BY DEF Passed
<1> DEFINE E == D \cup {up}
<1>2. E \in SUBSET {i \in Ino : Placed(i)} /\ r.inode \notin E /\ r.dir2 \in E \cup top  BY <1>1
<1>3. \A i \in E : parent[i] \in E \cup top  BY <1>1
<1> HIDE DEF E
<1>4. QED  BY <1>2, <1>3 DEF Passed

LEMMA SubdirKeeps ==
  ASSUME Fits, IInv', NEW p \in Proc, Subdir(p)
  PROVE  Fits'
PROOF
<1>1. TypeOK  BY FitsHas
<1>2. PICK j \in Job : j = job[p] /\ Holds(j) /\ RenameFits(j)  BY FitsHas DEF JobFits
<1>3. j.at = "subdir" /\ j.at \in Renaming  BY <1>2 DEF Subdir, At, Renaming
<1>4. /\ lock = p /\ j.op = "rename" /\ j.dir2 \in Ino /\ Making(j) = NULL /\ Linking(j) = NULL
      /\ kind[j.dir2] = "dir" => Live(j.dir2)
  BY <1>2, <1>3, RenamerHas
<1>5. /\ j.up # NULL /\ j.up \in Ino /\ Live(j.inode) /\ j.slot2 = NULL /\ j.inode # j.inode2
      /\ IF Live(j.dir2) THEN Live(j.up) /\ Passed(j, {j.up}) ELSE j.up = j.dir2
  BY <1>2, <1>3, RefIsIno DEF Holds, RenameFits, Job
<1>6. Live(j.up) => Placed(j.up)
  <2>1. "up" \in RefFields /\ "up" # "inode" /\ job[p]["up"] = j.up  BY <1>2 DEF RefFields
  <2>2. QED  BY <1>5, <2>1, LivePlaced
<1>7. CASE Fail(p)  BY <1>2, <1>4, <1>7, EndsFit
<1>8. CASE /\ ~IsAbove(j) /\ ~AtTop(j.up)
           /\ job' = [job EXCEPT ![p].up = parent[j.up]]
           /\ UNCHANGED <<fs, open, lock, calls, overdir>>
  <2>1. kind[j.up] = "dir" /\ j.up # j.inode  BY <1>8 DEF AtTop, IsAbove
  <2>2. Live(j.dir2) /\ Live(j.up) /\ Placed(j.up) /\ Passed(j, {j.up})  BY <1>4, <1>5, <1>6, <2>1
  <2> PICK i : i = parent[j.up]  OBVIOUS
  <2>3. Ripe(p, i) /\ Live(i)
    <3>1. Placed(i) /\ i \in Ino  BY <1>5, <2>2, PlacedRipe
    <3>2. QED  BY <3>1, PlacedRipe DEF Placed
  <2> DEFINE r == [j EXCEPT !.up = i]
  <2>4. job' = [job EXCEPT ![p] = r]  BY <1>1, <1>2, <1>8 DEF TypeOK
  <2>5. /\ r.at = "subdir" /\ r.op = j.op /\ r.dir = j.dir /\ r.dir2 = j.dir2 /\ r.inode = j.inode
        /\ r.up = i /\ r.slot2 = NULL /\ Takes(j, r, i)
    BY <1>3, <1>5 DEF Job, Takes
  <2> HIDE DEF r
  <2>6. Passed(r, {i})  BY <1>5, <2>1, <2>2, <2>5, PassedOn
  <2>7. RenameFits(r)  BY <1>5, <2>2, <2>3, <2>5, <2>6 DEF RenameFits
  <2>8. Seen(r) /\ r.at \in Renaming  BY <1>4, <2>5 DEF Seen, Renaming
  <2>9. UNCHANGED <<nlink, entry, parent, open, overdir>> /\ kind' = kind /\ lock' = p /\ KeepsLocks(p)
    BY <1>4, <1>8 DEF fs, KeepsLocks
  <2>10. QED  BY <1>2, <1>3, <1>4, <2>3, <2>4, <2>5, <2>7, <2>8, <2>9, RenamerGoesOn
<1>9. CASE /\ ~IsAbove(j) /\ AtTop(j.up) /\ parent[j.inode] = j.dir
           /\ job' = [job EXCEPT ![p].up = NULL, ![p].at = "sanity"]
           /\ UNCHANGED <<fs, open, lock, calls, overdir>>
  <2> DEFINE r == [j EXCEPT !.up = NULL, !.at = "sanity"]
  <2>1. job' = [job EXCEPT ![p] = r]  BY <1>1, <1>2, <1>9 DEF TypeOK
  <2>2. /\ r.at = "sanity" /\ r.op = j.op /\ r.dir = j.dir /\ r.dir2 = j.dir2 /\ r.inode = j.inode
        /\ r.slot2 = NULL /\ r.inode2 = j.inode2 /\ Takes(j, r, NULL)
    BY <1>3, <1>5 DEF Job, Takes
  <2> HIDE DEF r
  <2>3. j.up # j.inode  BY <1>9 DEF IsAbove
  <2>4. ASSUME Live(j.dir2) PROVE Passed(r, {})
    <3>1. Live(j.up) /\ Placed(j.up) /\ Passed(j, {j.up})  BY <1>5, <1>6, <2>4
    <3>2. parent[j.up] = j.up  BY <1>9, <3>1 DEF AtTop, Live
    <3>3. QED  BY <1>5, <2>2, <2>3, <3>1, <3>2, PassedOn
  <2>5. RenameFits(r)  BY <1>5, <1>9, <2>2, <2>4 DEF RenameFits
  <2>6. Seen(r) /\ r.at \in Renaming  BY <1>4, <2>2 DEF Seen, Renaming
  <2>7. UNCHANGED <<nlink, entry, parent, open, overdir>> /\ kind' = kind /\ lock' = p /\ KeepsLocks(p)
    BY <1>4, <1>9 DEF fs, KeepsLocks
  <2>8. QED  BY <1>2, <1>3, <1>4, <2>1, <2>2, <2>5, <2>6, <2>7, RenamerGoesOn
<1>10. QED  BY <1>2, <1>7, <1>8, <1>9 DEF Subdir

(***************************************************************************)
(* The steps that change entries.                                          *)
(***************************************************************************)
EntryStep(p, r, o) ==
  /\ r \in Job /\ job' = [job EXCEPT ![p] = r] /\ open' = [open EXCEPT ![p] = o]
  /\ Making(r) = NULL
  /\ \A f \in RefFields : r[f] = NULL \/ Ripe(p, r[f])
  /\ o = NULL \/ Ripe(p, o)
  /\ kind' = Freed(count', nlink', kind)
  /\ \A k \in Ino : ~Ripe(p, k) => nlink'[k] = nlink[k] /\ parent'[k] = parent[k]

LEMMA EntryStepView ==
  ASSUME Fits, IInv', NEW p \in Proc, NEW r, NEW o, EntryStep(p, r, o)
  PROVE  /\ job'[p] = r /\ r \in Job /\ \A q \in Proc \ {p} : job'[q] = job[q]
         /\ \A k \in Ino : /\ kind'[k] = kind[k] \/ (kind'[k] = "free" /\ nlink'[k] = 0 /\ count'[k] = 0)
                           /\ kind'[k] = "free" => nlink'[k] = 0 /\ count'[k] = 0
                           /\ Live(k)' <=> (kind[k] = "dir" /\ nlink'[k] > 0)
                           /\ ~Ripe(p, k) => count'[k] = count[k]
         /\ \A k \in Ino : New(k)' = New(k) \ {p}
         /\ \A k \in Ino : Late(k)' = (Late(k) \ {p}) \cup (IF Linking(r) = k THEN {p} ELSE {})
PROOF
<1>1. TypeOK /\ FsTyped /\ TypeOK' /\ FsTyped'  BY FitsHas DEF IInv, RefsBalanced, TypeOK
<1>2. job'[p] = r /\ r \in Job /\ \A q \in Proc \ {p} : job'[q] = job[q]
  BY <1>1 DEF EntryStep, TypeOK
<1>3. \A k \in Ino : ~Ripe(p, k) => count'[k] = count[k]
  BY NoneTaken DEF EntryStep
<1>4. \A k \in Ino : /\ kind'[k] = kind[k] \/ (kind'[k] = "free" /\ nlink'[k] = 0 /\ count'[k] = 0)
                     /\ kind'[k] = "free" => nlink'[k] = 0 /\ count'[k] = 0
  <2> SUFFICES ASSUME NEW k \in Ino
               PROVE  /\ kind'[k] = kind[k] \/ (kind'[k] = "free" /\ nlink'[k] = 0 /\ count'[k] = 0)
                      /\ kind'[k] = "free" => nlink'[k] = 0 /\ count'[k] = 0
    OBVIOUS
  <2>1. kind'[k] = kind[k] \/ (kind'[k] = "free" /\ nlink'[k] = 0 /\ count'[k] = 0)
    BY DEF EntryStep, Freed
  <2>2. ASSUME kind[k] = "free" PROVE nlink'[k] = 0 /\ count'[k] = 0
    <3>1. nlink[k] = 0 /\ count[k] = 0  BY <2>2, FitsHas DEF InodesFit
    <3>2. ~Ripe(p, k)  BY <2>2 DEF Ripe
    <3>3. nlink'[k] = nlink[k] /\ count'[k] = count[k]  BY <1>3, <3>2 DEF EntryStep
    <3>4. QED  BY <3>1, <3>3
  <2>3. QED  BY <2>1, <2>2
<1>5. \A k \in Ino : Live(k)' <=> (kind[k] = "dir" /\ nlink'[k] > 0)
  <2> SUFFICES ASSUME NEW k \in Ino PROVE Live(k)' <=> (kind[k] = "dir" /\ nlink'[k] > 0)  OBVIOUS
  <2>1. kind'[k] = kind[k] \/ (kind'[k] = "free" /\ nlink'[k] = 0)  BY <1>4
  <2>2. nlink'[k] = 0 => ~(nlink'[k] > 0)  OBVIOUS
  <2>3. QED  BY <2>1, <2>2 DEF Live
<1>6. \A k \in Ino : New(k)' = New(k) \ {p}
  <2> SUFFICES ASSUME NEW k \in Ino PROVE New(k)' = New(k) \ {p}  OBVIOUS
  <2>1. k # NULL  BY DEF Ino, NULL
  <2>2. Making(r) # k  BY <2>1 DEF EntryStep
  <2>3. QED  BY <1>2, <2>2 DEF New
<1>7. \A k \in Ino : Late(k)' = (Late(k) \ {p}) \cup (IF Linking(r) = k THEN {p} ELSE {})
  BY <1>2 DEF Late
<1>8. QED  BY <1>2, <1>3, <1>4, <1>5, <1>6, <1>7

LEMMA EntryLeaves ==
  ASSUME Fits, IInv', NEW p \in Proc, NEW r, NEW o, EntryStep(p, r, o), KeepsLocks(p),
         \A k \in Ino : OthersHold(p, k) => (Live(k)' <=> Live(k)),
         QuietNow(p) \/ \A k \in Ino : Entries(k) \subseteq Entries(k)',
         (lock = p /\ QuietNow(p)) \/ \A k \in Ino : Placed(k) => parent'[k] = parent[k]
  PROVE  Leaves(p)
PROOF
<1> USE EntryStepView
<1>1. \A q \in Proc \ {p} : job'[q] = job[q] /\ (lock = q => lock' = q)  BY DEF KeepsLocks
<1>2. ASSUME NEW k \in Ino, OthersHold(p, k) PROVE kind'[k] = kind[k] /\ (Live(k)' <=> Live(k))
  <2>1. PICK q \in Proc \ {p}, f \in RefFields : job[q][f] = k  BY <1>2 DEF OthersHold
  <2>2. count'[k] >= 1  BY <1>1, <2>1, HeldAfter
  <2>3. kind'[k] = kind[k]  BY <2>2
  <2>4. QED  BY <1>2, <2>3
<1>3. ASSUME NEW q \in Proc \ {p}, Making(job[q]) # NULL
      PROVE  LET k == job[q].inode IN
             nlink'[k] = nlink[k] /\ parent'[k] = parent[k] /\ count'[k] = count[k]
  <2>1. PICK k \in Ino : k = job[q].inode /\ New(k) = {q}  BY <1>3, MakersAlone
  <2>2. ~Ripe(p, k)  BY <2>1 DEF Ripe
  <2>3. nlink'[k] = nlink[k] /\ parent'[k] = parent[k]  BY <2>2 DEF EntryStep
  <2>4. count'[k] = count[k]  BY <2>2
  <2>5. QED  BY <2>1, <2>3, <2>4
<1>4. ASSUME NEW k \in Ino, Placed(k), Live(k)' PROVE Placed(k)'
  <2>1. New(k)' = {}  BY <1>4 DEF Placed
  <2>2. QED  BY <1>4, <2>1 DEF Placed
<1>5. QED  BY <1>1, <1>2, <1>3, <1>4 DEF Leaves

LEMMA EntryStepFits ==
  ASSUME Fits, IInv', NEW p \in Proc, NEW r, NEW o, EntryStep(p, r, o), Leaves(p), FsFits',
         JobFits(p, r)', overdir' = overdir
  PROVE  Fits'
PROOF
<1>1. job'[p] = r /\ InodesFit'  BY EntryStepView DEF FsFits
<1>2. ASSUME NEW q \in Proc \ {p} PROVE JobFits(q, job[q])'  BY <1>1, OthersFit
<1>3. JobFits(p, job[p])'
  <2>1. QED  BY <1>1 DEF JobFits
<1>4. JobsFit'  BY <1>2, <1>3 DEF JobsFit
<1>5. QED  BY <1>4 DEF Fits

LEMMA OutJobFits == ASSUME NEW p PROVE JobFits(p, Out)'
PROOF
BY DEF JobFits, Seen, DirsFit, MakingFits, RenameFits, Making, Out, Permitted, Renaming

(* What there is of an inode that does not change. *)
LEMMA SameLinks ==
  ASSUME Fits, IInv', NEW p \in Proc, NEW r, NEW o, EntryStep(p, r, o), NEW k \in Ino,
         Entries(k)' = Entries(k), Inside(k)' = Inside(k), nlink'[k] = nlink[k],
         New(k)' = New(k), Late(k)' = Late(k)
  PROVE  /\ Entries(k)' # {} => kind'[k] \in {"file", "link"} \/ Placed(k)'
         /\ kind'[k] \in {"file", "link"}
              => nlink'[k] + Cardinality(Late(k)') = Cardinality(Entries(k)') + Cardinality(New(k)')
         /\ Placed(k)' => nlink'[k] = Cardinality(Entries(k)') + 1 + Cardinality(Inside(k)')
PROOF
<1> USE EntryStepView
<1>1. /\ Entries(k) # {} => kind[k] \in {"file", "link"} \/ Placed(k)
      /\ kind[k] \in {"file", "link"}
           => nlink[k] + Cardinality(Late(k)) = Cardinality(Entries(k)) + Cardinality(New(k))
      /\ Placed(k) => nlink[k] = Cardinality(Entries(k)) + 1 + Cardinality(Inside(k))
  BY FitsHas DEF LinksRight
<1>2. Placed(k)' <=> Placed(k)
  <2>1. Live(k)' <=> Live(k)  BY DEF Live
  <2>2. QED  BY <2>1 DEF Placed
<1>3. ASSUME Entries(k) # {}, kind'[k] # kind[k], kind[k] \in {"file", "link"} PROVE FALSE
  <2>1. nlink[k] = 0 /\ count'[k] = 0  BY <1>3
  <2>2. /\ Cardinality(Late(k)) \in Nat /\ Cardinality(Entries(k)) \in Nat
        /\ Cardinality(New(k)) \in Nat /\ Cardinality(Entries(k)) # 0
    BY <1>3, Finite, FS_EmptySet
  <2>3. Cardinality(Late(k)) # 0  BY <1>1, <1>3, <2>1, <2>2
  <2>4. Late(k)' # {}  BY <2>3, FS_EmptySet
  <2>5. PICK q \in Proc : Linking(job'[q]) = k  BY <2>4 DEF Late
  <2>6. job'[q]["inode"] = k /\ "inode" \in RefFields
    BY <2>5 DEF Linking, RefFields, NULL, Ino
  <2>7. QED  BY <2>1, <2>6, HeldAfter
<1>4. kind'[k] = kind[k] \/ kind'[k] = "free"  OBVIOUS
<1>5. Entries(k)' # {} => kind'[k] \in {"file", "link"} \/ Placed(k)'  BY <1>1, <1>2, <1>3, <1>4
<1>6. QED  BY <1>1, <1>2, <1>4, <1>5

LEMMA AddedEntries ==
  ASSUME Fits, NEW d \in Ino, Live(d), NEW name, NEW i \in Ino, Unused(d) # {},
         entry' = Added(d, name, i), \A k \in Ino : Live(k)' <=> Live(k)
  PROVE  \E s \in Slot :
           /\ <<d, s>> \notin Entries(i) /\ Entries(i)' = Entries(i) \cup {<<d, s>>}
           /\ Cardinality(Entries(i)') = Cardinality(Entries(i)) + 1
           /\ \A k \in Ino : k # i => Entries(k)' = Entries(k)
           /\ \A k \in Ino : k # d => entry'[k] = entry[k]
PROOF
<1>1. FsTyped  BY FitsHas
<1>2. Min(Unused(d)) \in Unused(d)
  <2>1. Unused(d) \in SUBSET Nat  BY SlotsAreNumbers DEF Unused
  <2>2. QED  BY <2>1, MinExists
<1>3. PICK s \in Slot : s = Min(Unused(d)) /\ entry[d][s].ino = NULL  BY <1>2 DEF Unused
<1>4. entry' = [entry EXCEPT ![d][s] = [name |-> name, ino |-> i]]  BY <1>3 DEF Added
<1>5. entry'[d][s].ino = i  BY <1>1, <1>3, <1>4 DEF FsTyped
<1>6. \A e \in Ino \X Slot : e # <<d, s>> => entry'[e[1]][e[2]] = entry[e[1]][e[2]]
  BY <1>1, <1>3, <1>4 DEF FsTyped
<1>7. \A k \in Ino : k # d => entry'[k] = entry[k]  BY <1>1, <1>4 DEF FsTyped
<1>8. i # NULL /\ \A k \in Ino : k # NULL  BY DEF Ino, NULL
<1>9. \A k \in Ino : <<d, s>> \notin Entries(k)  BY <1>3, <1>8 DEF Entries
<1>10. \A k \in Ino : k # i => Entries(k)' = Entries(k)
  <2> SUFFICES ASSUME NEW k \in Ino, k # i PROVE Entries(k)' = Entries(k)  OBVIOUS
  <2>1. \A e \in Ino \X Slot : (Live(e[1])' /\ entry'[e[1]][e[2]].ino = k)
                                <=> (Live(e[1]) /\ entry[e[1]][e[2]].ino = k)
    <3> SUFFICES ASSUME NEW e \in Ino \X Slot
                 PROVE  (Live(e[1])' /\ entry'[e[1]][e[2]].ino = k)
                          <=> (Live(e[1]) /\ entry[e[1]][e[2]].ino = k)
      OBVIOUS
    <3>1. CASE e = <<d, s>>  BY <1>3, <1>5, <1>8, <3>1
    <3>2. CASE e # <<d, s>>  BY <1>6, <3>2
    <3>3. QED  BY <3>1, <3>2
  <2>2. QED  BY <2>1 DEF Entries
<1>11. Entries(i)' = Entries(i) \cup {<<d, s>>}
  <2>1. \A e \in Ino \X Slot : (Live(e[1])' /\ entry'[e[1]][e[2]].ino = i)
                                <=> (Live(e[1]) /\ entry[e[1]][e[2]].ino = i) \/ e = <<d, s>>
    <3> SUFFICES ASSUME NEW e \in Ino \X Slot
                 PROVE  (Live(e[1])' /\ entry'[e[1]][e[2]].ino = i)
                          <=> (Live(e[1]) /\ entry[e[1]][e[2]].ino = i) \/ e = <<d, s>>
      OBVIOUS
    <3>1. CASE e = <<d, s>>  BY <1>5, <3>1
    <3>2. CASE e # <<d, s>>  BY <1>6, <3>2
    <3>3. QED  BY <3>1, <3>2
  <2>2. <<d, s>> \in Ino \X Slot  BY <1>3
  <2>3. QED  BY <2>1, <2>2 DEF Entries
<1>12. Cardinality(Entries(i)') = Cardinality(Entries(i)) + 1
  <2>1. IsFiniteSet(Entries(i)) /\ <<d, s>> \notin Entries(i)  BY <1>9, Finite
  <2>2. QED  BY <1>11, <2>1, FS_AddElement
<1>13. QED  BY <1>3, <1>7, <1>9, <1>10, <1>11, <1>12

(* The links of files change: those in F. *)
FileRight(k) ==
  /\ Entries(k) # {} => kind[k] \in {"file", "link"}
  /\ kind[k] \in {"file", "link"}
       => nlink[k] + Cardinality(Late(k)) = Cardinality(Entries(k)) + Cardinality(New(k))
  /\ New(k) # {} => Entries(k) = {}

LEMMA FilesFsFits ==
  ASSUME Fits, IInv', NEW p \in Proc, NEW r, NEW o, EntryStep(p, r, o), parent' = parent,
         NEW F \in SUBSET Ino, \A k \in F : kind[k] \in {"file", "link"} /\ FileRight(k)',
         \A k \in Ino \ F : /\ Entries(k)' = Entries(k) /\ nlink'[k] = nlink[k]
                            /\ New(k)' = New(k) /\ Late(k)' = Late(k),
         \A k \in Ino : ~Placed(k) => entry'[k] = entry[k]
  PROVE  FsFits' /\ \A k \in Ino : Live(k)' <=> Live(k)
PROOF
<1> USE EntryStepView
<1>1. \A k \in F : ~Live(k) /\ ~Live(k)'  BY DEF Live
<1>2. \A k \in Ino : Live(k)' <=> Live(k)
  <2>1. \A k \in Ino \ F : Live(k)' <=> Live(k)  BY DEF Live
  <2>2. QED  BY <1>1, <2>1
<1>3. \A k \in Ino : Placed(k)' <=> Placed(k)
  <2>1. \A k \in Ino \ F : Placed(k)' <=> Placed(k)  BY <1>2 DEF Placed
  <2>2. \A k \in F : ~Placed(k)' /\ ~Placed(k)  BY <1>1 DEF Placed
  <2>3. QED  BY <2>1, <2>2
<1>4. \A k \in Ino : Inside(k)' = Inside(k)  BY <1>3 DEF Inside
<1>5. \A k \in Ino : Placed(k) => k \notin F  BY <1>1 DEF Placed
<1>6. RootFits'
  <2>1. ROOT \in Ino /\ Placed(ROOT)  BY RootPlaced
  <2>2. ROOT \notin F  BY <1>5, <2>1
  <2>3. Entries(ROOT)' = {}  BY <2>1, <2>2, FitsHas DEF RootFits
  <2>4. QED  BY <1>2, <2>1, <2>3, FitsHas DEF RootFits
<1>7. InodesFit'
  <2> SUFFICES ASSUME NEW k \in Ino
               PROVE  /\ kind'[k] = "free" => nlink'[k] = 0 /\ count'[k] = 0
                      /\ ~Placed(k)' => empty_dir(k)'
                      /\ New(k)' # {} => Entries(k)' = {}
                      /\ Placed(k)' => Placed(parent[k])'
    BY DEF InodesFit
  <2>1. ~Placed(k)' => empty_dir(k)'
    <3>1. ~Placed(k) => empty_dir(k)  BY FitsHas DEF InodesFit
    <3>2. QED  BY <1>3, <3>1 DEF empty_dir
  <2>2. New(k)' # {} => Entries(k)' = {}
    <3>1. CASE k \in F  BY <3>1 DEF FileRight
    <3>2. CASE k \notin F  BY <3>2, FitsHas DEF InodesFit
    <3>3. QED  BY <3>1, <3>2
  <2>3. Placed(k)' => Placed(parent[k])'
    <3>1. parent'[k] = parent[k] /\ parent[k] \in Ino  BY FitsHas DEF FsTyped
    <3>2. Placed(k) => Placed(parent[k])  BY FitsHas DEF InodesFit
    <3>3. \A m \in Ino : m = parent'[k] => (Placed(m)' <=> Placed(parent[k])')  BY DEF Placed, Live, New
    <3>4. QED  BY <1>3, <3>1, <3>2, <3>3
  <2>4. QED  BY <2>1, <2>2, <2>3
<1>8. LinksRight'
  <2> SUFFICES ASSUME NEW k \in Ino
               PROVE  /\ Entries(k)' # {} => kind'[k] \in {"file", "link"} \/ Placed(k)'
                      /\ kind'[k] \in {"file", "link"}
                           => nlink'[k] + Cardinality(Late(k)') = Cardinality(Entries(k)') + Cardinality(New(k)')
                      /\ Placed(k)' => nlink'[k] = Cardinality(Entries(k)') + 1 + Cardinality(Inside(k)')
    BY DEF LinksRight
  <2>1. CASE k \notin F
    <3>1. /\ Entries(k)' = Entries(k) /\ Inside(k)' = Inside(k) /\ nlink'[k] = nlink[k]
          /\ New(k)' = New(k) /\ Late(k)' = Late(k)
      BY <1>4, <2>1
    <3>2. QED  BY <3>1, SameLinks
  <2>2. CASE k \in F
    <3>1. ~Placed(k)'  BY <1>1, <2>2 DEF Placed
    <3>2. FileRight(k)'  BY <2>2
    <3>3. QED  BY <3>1, <3>2 DEF FileRight
  <2>3. QED  BY <2>1, <2>2
<1>9. IsTree'
  <2>1. {k \in Ino : Placed(k)'} = {k \in Ino : Placed(k)}  BY <1>3
  <2>2. \A k \in Ino \ {ROOT} : Placed(k)' => \E x \in Slot : Entries(k)' = {<<parent'[k], x>>}
    BY <1>3, <1>5, FitsHas DEF IsTree
  <2>3. ASSUME NEW D \in SUBSET {k \in Ino : Placed(k)'}, D # {}, \A k \in D : parent'[k] \in D
        PROVE  ROOT \in D
    BY <2>1, <2>3, FitsHas DEF IsTree
  <2>4. QED  BY <2>2, <2>3 DEF IsTree
<1>10. QED  BY <1>2, <1>6, <1>7, <1>8, <1>9 DEF FsFits

(* A file gets a name. *)
LEMMA NamedFsFits ==
  ASSUME Fits, IInv', NEW p \in Proc, NEW r, NEW o, EntryStep(p, r, o),
         NEW d \in Ino, Placed(d), NEW i \in Ino, kind[i] \in {"file", "link"}, kind'[i] = kind[i],
         Ripe(p, i), Unused(d) # {}, NEW name, entry' = Added(d, name, i),
         nlink' = nlink, parent' = parent, Making(job[p]) \in {NULL, i},
         \A k \in Ino : k # i => Late(k)' = Late(k),
         Cardinality(Late(i)') + Cardinality(New(i)) = Cardinality(Late(i)) + 1
  PROVE  FsFits' /\ \A k \in Ino : (Live(k)' <=> Live(k)) /\ Entries(k) \subseteq Entries(k)'
PROOF
<1> USE EntryStepView
<1>1. \A k \in Ino : Live(k)' <=> Live(k)  BY DEF Live
<1>2. Live(d)  BY DEF Placed
<1>3. PICK s \in Slot :
           /\ <<d, s>> \notin Entries(i) /\ Entries(i)' = Entries(i) \cup {<<d, s>>}
           /\ Cardinality(Entries(i)') = Cardinality(Entries(i)) + 1
           /\ \A k \in Ino : k # i => Entries(k)' = Entries(k)
           /\ \A k \in Ino : k # d => entry'[k] = entry[k]
  BY <1>1, <1>2, AddedEntries
<1>4. New(i)' = {} /\ \A k \in Ino : k # i => New(k)' = New(k)
  <2>1. New(i)' = {}  BY DEF Ripe
  <2>2. ASSUME NEW k \in Ino, k # i PROVE New(k)' = New(k)
    <3>1. k # NULL  BY DEF Ino, NULL
    <3>2. p \notin New(k)  BY <2>2, <3>1 DEF New
    <3>3. QED  BY <3>2
  <2>3. QED  BY <2>1, <2>2
<1>5. FileRight(i)'
  <2>1. nlink[i] + Cardinality(Late(i)) = Cardinality(Entries(i)) + Cardinality(New(i))
    BY FitsHas DEF LinksRight
  <2>2. Cardinality(New(i)') = 0  BY <1>4, FS_EmptySet
  <2>3. /\ Cardinality(Late(i)) \in Nat /\ Cardinality(Entries(i)) \in Nat /\ Cardinality(New(i)) \in Nat
        /\ nlink[i] \in Int /\ Cardinality(Late(i)') \in Nat
    <3>1. Cardinality(Late(i)') \in Nat  BY FS_Subset, FS_CardinalityType, NamesAssumption DEF Late
    <3>2. QED  BY <3>1, Finite, FitsHas DEF FsTyped
  <2>4. nlink'[i] + Cardinality(Late(i)') = Cardinality(Entries(i)') + Cardinality(New(i)')
    BY <1>3, <2>1, <2>2, <2>3
  <2>5. QED  BY <1>4, <2>4 DEF FileRight
<1> DEFINE F == {i}
<1>6. F \in SUBSET Ino /\ \A k \in F : kind[k] \in {"file", "link"} /\ FileRight(k)'
  <2>1. \A k \in F : k = i  OBVIOUS
  <2>2. \A k \in F : FileRight(k)'
    <3>1. FileRight(i)'  BY <1>5
    <3>2. QED  BY <3>1 DEF FileRight, Entries, New, Late, Live
  <2>3. QED  BY <2>2
<1>7. \A k \in Ino \ F : /\ Entries(k)' = Entries(k) /\ nlink'[k] = nlink[k]
                         /\ New(k)' = New(k) /\ Late(k)' = Late(k)
  BY <1>3, <1>4
<1>8. \A k \in Ino : ~Placed(k) => entry'[k] = entry[k]  BY <1>3
<1> HIDE DEF F
<1>9. FsFits'  BY <1>6, <1>7, <1>8, FilesFsFits
<1>10. \A k \in Ino : Entries(k) \subseteq Entries(k)'  BY <1>3
<1>11. QED  BY <1>1, <1>9, <1>10

(***************************************************************************)
(* The calls that make an entry.                                           *)
(***************************************************************************)
LEMMA AdderHas ==
  ASSUME Fits, NEW p \in Proc, CanAdd(p)
  PROVE  /\ job[p].dir \in Ino /\ Placed(job[p].dir) /\ Live(job[p].dir) /\ Unused(job[p].dir) # {}
         /\ job[p].inode \in Ino /\ job[p].inode # NULL /\ Ripe(p, job[p].inode)
         /\ Linking(job[p]) = NULL
         /\ job[p].op # "link" => Making(job[p]) = job[p].inode
         /\ job[p].op = "link" => Making(job[p]) = NULL
         /\ \A k \in Ino : p \notin Late(k)
PROOF
<1>1. PICK j \in Job : j = job[p] /\ Holds(j) /\ DirsFit(j)  BY FitsHas DEF JobFits
<1>2. j.at = "add" /\ Unused(j.dir) # {}  BY <1>1 DEF CanAdd, At
<1>3. j.dir # NULL /\ j.inode # NULL  BY <1>1, <1>2 DEF Holds
<1>4. j.dir \in Ino /\ j.inode \in Ino  BY <1>3, RefIsIno DEF Job
<1>5. kind[j.dir] = "dir"  BY <1>2 DEF Unused
<1>6. Live(j.dir)  BY <1>1, <1>2, <1>5 DEF DirsFit, Permitted
<1>7. Placed(j.dir) /\ Ripe(p, j.inode)
  <2>1. {"dir", "inode"} \subseteq RefFields /\ "dir" # "inode"  BY DEF RefFields
  <2>2. job[p]["dir"] = j.dir /\ job[p]["inode"] = j.inode  BY <1>1
  <2>3. QED  BY <1>3, <1>6, <2>1, <2>2, LivePlaced, HeldRipe
<1>8. /\ Linking(j) = NULL /\ (j.op # "link" => Making(j) = j.inode)
      /\ (j.op = "link" => Making(j) = NULL)
  BY <1>2 DEF Making, Linking
<1>9. \A k \in Ino : p \notin Late(k)
  <2>1. \A k \in Ino : k # NULL  BY DEF Ino, NULL
  <2>2. QED  BY <1>1, <1>8, <2>1 DEF Late
<1>10. QED  BY <1>1, <1>2, <1>3, <1>4, <1>6, <1>7, <1>8, <1>9

LEMMA NamedFits ==
  ASSUME Fits, IInv', NEW p \in Proc, NEW r, NEW o, EntryStep(p, r, o), CanAdd(p), KeepsLocks(p),
         NEW i, i = job[p].inode, kind[i] \in {"file", "link"}, kind'[i] = kind[i],
         NEW name, entry' = Added(job[p].dir, name, i),
         nlink' = nlink, parent' = parent, overdir' = overdir,
         Linking(r) = (IF job[p].op = "link" THEN i ELSE NULL),
         JobFits(p, r)'
  PROVE  Fits'
PROOF
<1> PICK d : d = job[p].dir  OBVIOUS
<1>1. /\ d \in Ino /\ Placed(d) /\ Unused(d) # {} /\ i \in Ino /\ i # NULL /\ Ripe(p, i)
      /\ job[p].op # "link" => Making(job[p]) = i
      /\ job[p].op = "link" => Making(job[p]) = NULL
      /\ \A k \in Ino : p \notin Late(k)
  BY AdderHas
<1>2. \A k \in Ino : Late(k)' = (Late(k) \ {p}) \cup (IF Linking(r) = k THEN {p} ELSE {})
  BY EntryStepView
<1>3. \A k \in Ino : k # i => Late(k)' = Late(k)
  <2>1. \A k \in Ino : k # NULL  BY DEF Ino, NULL
  <2>2. QED  BY <1>1, <1>2, <2>1
<1>4. Cardinality(Late(i)') + Cardinality(New(i)) = Cardinality(Late(i)) + 1
  <2>1. CASE job[p].op = "link"
    <3>1. Late(i)' = Late(i) \cup {p} /\ p \notin Late(i)  BY <1>1, <1>2, <2>1
    <3>2. New(i) = {}  BY <1>1, <2>1 DEF Ripe, New
    <3>3. Cardinality(Late(i)') = Cardinality(Late(i)) + 1 /\ Cardinality(Late(i)) \in Nat
      BY <3>1, Finite, FS_AddElement
    <3>4. Cardinality(New(i)) = 0  BY <3>2, FS_EmptySet
    <3>5. QED  BY <3>3, <3>4
  <2>2. CASE job[p].op # "link"
    <3>1. Late(i)' = Late(i)
      <4>1. Linking(r) # i  BY <1>1, <2>2
      <4>2. QED  BY <1>1, <1>2, <4>1
    <3>2. New(i) = {p}  BY <1>1, <2>2 DEF Ripe, New
    <3>3. Cardinality(New(i)) = 1 /\ Cardinality(Late(i)) \in Nat  BY <3>2, Finite, FS_Singleton
    <3>4. QED  BY <3>1, <3>3
  <2>3. QED  BY <2>1, <2>2
<1>5. entry' = Added(d, name, i) /\ Making(job[p]) \in {NULL, i}  BY <1>1
<1>6. FsFits' /\ \A k \in Ino : (Live(k)' <=> Live(k)) /\ Entries(k) \subseteq Entries(k)'
  BY <1>1, <1>3, <1>4, <1>5, NamedFsFits
<1>7. Leaves(p)
  <2>1. \A k \in Ino : Placed(k) => parent'[k] = parent[k]  OBVIOUS
  <2>2. QED  BY <1>6, <2>1, EntryLeaves
<1>8. QED  BY <1>6, <1>7, EntryStepFits

LEMMA MknodKeeps ==
  ASSUME Fits, IInv', NEW p \in Proc, Mknod(p)
  PROVE  Fits'
PROOF
<1>1. PICK j \in Job : j = job[p] /\ MakingFits(j)  BY FitsHas DEF JobFits
<1> PICK i : i = j.inode  OBVIOUS
<1>2. CanAdd(p) /\ j.at = "add" /\ j.op \in {"mknod", "symlink"}  BY <1>1 DEF Mknod, CanAdd, At
<1>3. i \in Ino /\ i # NULL /\ Ripe(p, i) /\ Making(j) = i  BY <1>1, <1>2, AdderHas
<1>4. kind[i] \in {"file", "link"} /\ nlink[i] = 1
  BY <1>1, <1>2, <1>3 DEF MakingFits, KindOf
<1>5. /\ job' = [job EXCEPT ![p] = Out] /\ open' = [open EXCEPT ![p] = open[p]]
      /\ nlink' = nlink /\ parent' = parent /\ overdir' = overdir /\ kind' = Freed(count', nlink', kind)
      /\ entry' = Added(j.dir, j.name, i) /\ lock' = IF lock = p THEN NoProc ELSE lock
  BY <1>1, FitsHas DEF Mknod, Return, TypeOK
<1>6. EntryStep(p, Out, open[p])
  BY <1>5, OutFits, OutReady, HeldRipe DEF EntryStep
<1>7. kind'[i] = kind[i]  BY <1>3, <1>4, <1>5 DEF Freed
<1>8. KeepsLocks(p)  BY <1>5, NamesAssumption DEF KeepsLocks
<1>9. Linking(Out) = IF j.op = "link" THEN i ELSE NULL  BY <1>2, OutReady
<1>10. JobFits(p, Out)'  BY OutJobFits
<1>11. QED  BY <1>1, <1>2, <1>4, <1>5, <1>6, <1>7, <1>8, <1>9, <1>10, NamedFits

LEMMA CreateKeeps ==
  ASSUME Fits, IInv', NEW p \in Proc, Create(p)
  PROVE  Fits'
PROOF
<1>1. PICK j \in Job : j = job[p] /\ MakingFits(j)  BY FitsHas DEF JobFits
<1> PICK i : i = j.inode  OBVIOUS
<1>2. CanAdd(p) /\ j.at = "add" /\ j.op = "creat"  BY <1>1 DEF Create, CanAdd, At
<1>3. i \in Ino /\ i # NULL /\ Ripe(p, i) /\ Making(j) = i  BY <1>1, <1>2, AdderHas
<1>4. kind[i] \in {"file", "link"} /\ nlink[i] = 1
  BY <1>1, <1>2, <1>3 DEF MakingFits, KindOf
<1>5. /\ job' = [job EXCEPT ![p] = Out] /\ open' = [open EXCEPT ![p] = i]
      /\ nlink' = nlink /\ parent' = parent /\ overdir' = overdir /\ kind' = Freed(count', nlink', kind)
      /\ entry' = Added(j.dir, j.name, i) /\ lock' = lock
  BY <1>1 DEF Create
<1>6. EntryStep(p, Out, i)
  BY <1>3, <1>5, OutFits, OutReady DEF EntryStep
<1>7. kind'[i] = kind[i]  BY <1>3, <1>4, <1>5 DEF Freed
<1>8. KeepsLocks(p)  BY <1>5 DEF KeepsLocks
<1>9. Linking(Out) = IF j.op = "link" THEN i ELSE NULL  BY <1>2, OutReady
<1>10. JobFits(p, Out)'  BY OutJobFits
<1>11. QED  BY <1>1, <1>2, <1>4, <1>5, <1>6, <1>7, <1>8, <1>9, <1>10, NamedFits

LEMMA LinkKeeps ==
  ASSUME Fits, IInv', NEW p \in Proc, Link(p)
  PROVE  Fits'
PROOF
<1>1. PICK j \in Job : j = job[p] /\ Seen(j) /\ Holds(j)  BY FitsHas DEF JobFits
<1> PICK i : i = j.inode  OBVIOUS
<1>2. CanAdd(p) /\ j.at = "add" /\ j.op = "link"  BY <1>1 DEF Link, CanAdd, At
<1>3. i \in Ino /\ i # NULL /\ Ripe(p, i) /\ Making(j) = NULL  BY <1>1, <1>2, AdderHas
<1>4. kind[i] \in {"file", "link"}
  <2>1. kind[i] # "dir" /\ kind[i] # "free"  BY <1>1, <1>2, <1>3 DEF Seen, Ripe
  <2>2. QED  BY <1>3, <2>1, FitsHas DEF FsTyped
<1> DEFINE r == [j EXCEPT !.at = "linked", !.dir = NULL]
<1>5. /\ job' = [job EXCEPT ![p] = r] /\ open' = [open EXCEPT ![p] = open[p]]
      /\ nlink' = nlink /\ parent' = parent /\ overdir' = overdir /\ kind' = Freed(count', nlink', kind)
      /\ entry' = Added(j.dir, j.name, i) /\ lock' = lock
  BY <1>1, FitsHas DEF Link, TypeOK
<1>6. /\ r.at = "linked" /\ r.op = "link" /\ r.inode = i /\ r.dir2 = j.dir2
      /\ \A f \in RefFields : r[f] = NULL \/ r[f] = j[f]
  BY <1>2 DEF Job, RefFields
<1> HIDE DEF r
<1>7. job'[p] = r /\ r \in Job /\ Holds(r)  BY <1>5, FitsHas, MineAfter
<1>8. Making(r) = NULL /\ Linking(r) = i  BY <1>6 DEF Making, Linking
<1>9. EntryStep(p, r, open[p])
  BY <1>1, <1>5, <1>6, <1>7, <1>8, HeldRipe DEF EntryStep
<1>10. kind'[i] = kind[i]
  <2>1. job'[p]["inode"] = i /\ "inode" \in RefFields  BY <1>6, <1>7 DEF RefFields
  <2>2. count'[i] >= 1  BY <1>3, <2>1, HeldAfter
  <2>3. QED  BY <1>3, <1>5, <2>2 DEF Freed
<1>11. KeepsLocks(p)  BY <1>5 DEF KeepsLocks
<1>12. JobFits(p, r)'
  <2>1. r.at \notin Permitted /\ r.at \notin Renaming /\ r.dir2 = NULL
    BY <1>6, <1>7 DEF Permitted, Renaming, Holds, Walking
  <2>2. Seen(r)'  BY <1>4, <1>6, <1>10 DEF Seen
  <2>3. QED  BY <1>6, <1>8, <2>1, <2>2 DEF JobFits, DirsFit, MakingFits, Making, RenameFits
<1>13. Linking(r) = IF j.op = "link" THEN i ELSE NULL  BY <1>2, <1>8
<1>14. QED  BY <1>1, <1>2, <1>4, <1>5, <1>9, <1>10, <1>11, <1>12, <1>13, NamedFits

(* A file in memory stays as long as it has a name, or gets one that is not counted yet. *)
LEMMA CountedRight ==
  ASSUME Fits, IInv', NEW p \in Proc, NEW r, NEW o, EntryStep(p, r, o), NEW k \in Ino,
         kind[k] \in {"file", "link"}, New(k)' # {} => Entries(k)' = {},
         nlink'[k] + Cardinality(Late(k)') = Cardinality(Entries(k)') + Cardinality(New(k)')
  PROVE  FileRight(k)'
PROOF
<1>1. ASSUME Entries(k)' # {} PROVE kind'[k] \in {"file", "link"}
  <2> SUFFICES ASSUME kind'[k] # kind[k] PROVE FALSE  OBVIOUS
  <2>1. nlink'[k] = 0 /\ count'[k] = 0  BY EntryStepView
  <2>2. IsFiniteSet(Entries(k)') /\ IsFiniteSet(Late(k)')
    BY Finite, FS_Subset, NamesAssumption DEF Entries, Late
  <2>3. Cardinality(Entries(k)') \in Nat /\ Cardinality(Late(k)') \in Nat /\ Cardinality(Entries(k)') # 0
    BY <1>1, <2>2, FS_CardinalityType, FS_EmptySet
  <2>4. Cardinality(New(k)') = 0  BY <1>1, FS_EmptySet
  <2>5. Cardinality(Late(k)') # 0  BY <2>1, <2>3, <2>4
  <2>6. Late(k)' # {}  BY <2>5, FS_EmptySet
  <2>7. PICK q \in Proc : Linking(job'[q]) = k  BY <2>6 DEF Late
  <2>8. job'[q]["inode"] = k /\ "inode" \in RefFields
    BY <2>7 DEF Linking, RefFields, NULL, Ino
  <2>9. QED  BY <2>1, <2>8, HeldAfter
<1>2. QED  BY <1>1 DEF FileRight

LEMMA LinkedKeeps ==
  ASSUME Fits, IInv', NEW p \in Proc, Linked(p)
  PROVE  Fits'
PROOF
<1>1. PICK j \in Job : j = job[p] /\ Seen(j) /\ Holds(j) /\ CallFits(j)  BY FitsHas DEF JobFits
<1> PICK i : i = j.inode  OBVIOUS
<1>2. j.at = "linked" /\ j.op = "link"
  <2>1. j.at = "linked"  BY <1>1 DEF Linked, At
  <2>2. QED  BY <1>1, <2>1, WhereIs DEF CallFits
<1>3. i \in Ino /\ i # NULL /\ Ripe(p, i)
  <2>1. i # NULL  BY <1>1, <1>2 DEF Holds
  <2>2. "inode" \in RefFields /\ job[p]["inode"] = i  BY <1>1 DEF RefFields
  <2>3. QED  BY <2>1, <2>2, HeldRipe DEF Ripe
<1>4. kind[i] \in {"file", "link"}
  <2>1. kind[i] # "dir" /\ kind[i] # "free"  BY <1>1, <1>2, <1>3 DEF Seen, Ripe
  <2>2. QED  BY <1>3, <2>1, FitsHas DEF FsTyped
<1>5. /\ job' = [job EXCEPT ![p] = Out] /\ open' = [open EXCEPT ![p] = open[p]]
      /\ nlink' = [nlink EXCEPT ![i] = @ + 1] /\ parent' = parent /\ entry' = entry
      /\ overdir' = overdir /\ kind' = Freed(count', nlink', kind)
      /\ lock' = IF lock = p THEN NoProc ELSE lock
  BY <1>1, FitsHas DEF Linked, Return, TypeOK
<1>6. nlink'[i] = nlink[i] + 1 /\ \A k \in Ino : k # i => nlink'[k] = nlink[k]
  BY <1>3, <1>5, FitsHas DEF FsTyped
<1>7. EntryStep(p, Out, open[p])
  BY <1>3, <1>5, <1>6, OutFits, OutReady, HeldRipe DEF EntryStep
<1>8. KeepsLocks(p)  BY <1>5, NamesAssumption DEF KeepsLocks
<1>9. /\ \A k \in Ino : New(k)' = New(k) \ {p}
      /\ \A k \in Ino : Late(k)' = Late(k) \ {p}
      /\ \A k \in Ino : Live(k)' <=> (kind[k] = "dir" /\ nlink'[k] > 0)
  <2>1. /\ \A k \in Ino : New(k)' = New(k) \ {p}
        /\ \A k \in Ino : Late(k)' = (Late(k) \ {p}) \cup (IF Linking(Out) = k THEN {p} ELSE {})
        /\ \A k \in Ino : Live(k)' <=> (kind[k] = "dir" /\ nlink'[k] > 0)
    BY <1>7, EntryStepView
  <2>2. \A k \in Ino : Linking(Out) # k  BY OutReady DEF Ino, NULL
  <2>3. QED  BY <2>1, <2>2
<1>10. Making(j) = NULL /\ Linking(j) = i  BY <1>2 DEF Making, Linking
<1>11. \A k \in Ino : p \notin New(k)
  <2>1. \A k \in Ino : k # NULL  BY DEF Ino, NULL
  <2>2. QED  BY <1>1, <1>10, <2>1 DEF New
<1>12. p \in Late(i) /\ \A k \in Ino : k # i => p \notin Late(k)  BY <1>1, <1>10 DEF Late
<1>13. \A k \in Ino : Live(k)' <=> Live(k)  BY <1>4, <1>6, <1>9 DEF Live
<1>14. \A k \in Ino : Entries(k)' = Entries(k)  BY <1>5, <1>13 DEF Entries
<1>15. FileRight(i)'
  <2>1. nlink[i] + Cardinality(Late(i)) = Cardinality(Entries(i)) + Cardinality(New(i))
    BY <1>3, <1>4, FitsHas DEF LinksRight
  <2>2. Cardinality(Late(i)') = Cardinality(Late(i)) - 1 /\ Cardinality(Late(i)) \in Nat
    BY <1>3, <1>9, <1>12, Finite, FS_RemoveElement
  <2>3. New(i)' = New(i)  BY <1>3, <1>9, <1>11
  <2>4. Cardinality(Entries(i)) \in Nat /\ Cardinality(New(i)) \in Nat /\ nlink[i] \in Int
    BY <1>3, Finite, FitsHas DEF FsTyped
  <2>5. nlink'[i] + Cardinality(Late(i)') = Cardinality(Entries(i)') + Cardinality(New(i)')
    BY <1>3, <1>6, <1>14, <2>1, <2>2, <2>3, <2>4
  <2>6. New(i)' # {} => Entries(i)' = {}  BY <1>3, <1>14, <2>3, FitsHas DEF InodesFit
  <2>7. QED  BY <1>3, <1>4, <1>7, <2>5, <2>6, CountedRight
<1> DEFINE F == {i}
<1>16. F \in SUBSET Ino /\ \A k \in F : kind[k] \in {"file", "link"} /\ FileRight(k)'
  <2>1. \A k \in F : k = i  OBVIOUS
  <2>2. \A k \in F : FileRight(k)'
    <3>1. FileRight(i)'  BY <1>15
    <3>2. QED  BY <3>1 DEF FileRight, Entries, New, Late, Live
  <2>3. QED  BY <1>3, <1>4, <2>2
<1>17. \A k \in Ino \ F : /\ Entries(k)' = Entries(k) /\ nlink'[k] = nlink[k]
                          /\ New(k)' = New(k) /\ Late(k)' = Late(k)
  BY <1>6, <1>9, <1>11, <1>12, <1>14
<1>18. \A k \in Ino : ~Placed(k) => entry'[k] = entry[k]  BY <1>5
<1> HIDE DEF F
<1>19. FsFits'  BY <1>5, <1>7, <1>16, <1>17, <1>18, FilesFsFits
<1>20. Leaves(p)
  <2>1. \A k \in Ino : OthersHold(p, k) => (Live(k)' <=> Live(k))  BY <1>13
  <2>2. \A k \in Ino : Entries(k) \subseteq Entries(k)'  BY <1>14
  <2>3. \A k \in Ino : Placed(k) => parent'[k] = parent[k]  BY <1>5
  <2>4. QED  BY <1>7, <1>8, <2>1, <2>2, <2>3, EntryLeaves
<1>21. QED  BY <1>5, <1>7, <1>19, <1>20, OutJobFits, EntryStepFits

LEMMA PlacedThere == ASSUME NEW k, NEW m, m = parent'[k], Placed(m)' PROVE Placed(parent[k])'
PROOF BY DEF Placed, Live, New

LEMMA MkdirKeeps ==
  ASSUME Fits, IInv', NEW p \in Proc, Mkdir(p)
  PROVE  Fits'
PROOF
<1>1. PICK j \in Job : j = job[p] /\ MakingFits(j)  BY FitsHas DEF JobFits
<1> PICK i : i = j.inode  OBVIOUS
<1> PICK d : d = j.dir  OBVIOUS
<1>2. CanAdd(p) /\ j.at = "add" /\ j.op = "mkdir"  BY <1>1 DEF Mkdir, CanAdd, At
<1>3. /\ i \in Ino /\ i # NULL /\ Ripe(p, i) /\ Making(j) = i
      /\ d \in Ino /\ Placed(d) /\ Live(d) /\ Unused(d) # {} /\ \A k \in Ino : p \notin Late(k)
  BY <1>1, <1>2, AdderHas
<1>4. kind[i] = "dir" /\ nlink[i] = 2 /\ parent[i] = d
  BY <1>1, <1>2, <1>3 DEF MakingFits, KindOf
<1>5. /\ ~Placed(i) /\ Entries(i) = {} /\ New(i) = {p} /\ i # ROOT
      /\ \A k \in Ino : Placed(k) => parent[k] # i
      /\ \A q \in Proc : \A f \in RefFields : job[q][f] = i => q = p
  <2>1. Making(job[p]) # NULL  BY <1>1, <1>3
  <2>2. QED  BY <1>1, <2>1, MakersAlone
<1>6. /\ job' = [job EXCEPT ![p] = Out] /\ open' = [open EXCEPT ![p] = open[p]]
      /\ nlink' = [nlink EXCEPT ![d] = @ + 1] /\ parent' = parent /\ entry' = Added(d, j.name, i)
      /\ overdir' = overdir /\ kind' = Freed(count', nlink', kind)
      /\ lock' = IF lock = p THEN NoProc ELSE lock
  BY <1>1, FitsHas DEF Mkdir, LinksOfMkdir, Return, TypeOK
<1>7. nlink'[d] = nlink[d] + 1 /\ \A k \in Ino : k # d => nlink'[k] = nlink[k]
  BY <1>3, <1>6, FitsHas DEF FsTyped
<1>8. Ripe(p, d)  BY <1>3, PlacedRipe
<1>9. EntryStep(p, Out, open[p])
  BY <1>6, <1>7, <1>8, OutFits, OutReady, HeldRipe DEF EntryStep
<1>10. /\ \A k \in Ino : /\ kind'[k] = kind[k] \/ (kind'[k] = "free" /\ nlink'[k] = 0 /\ count'[k] = 0)
                         /\ kind'[k] = "free" => nlink'[k] = 0 /\ count'[k] = 0
                         /\ Live(k)' <=> (kind[k] = "dir" /\ nlink'[k] > 0)
       /\ \A k \in Ino : New(k)' = New(k) \ {p} /\ Late(k)' = Late(k)
  <2>1. \A k \in Ino : Late(k)' = (Late(k) \ {p}) \cup (IF Linking(Out) = k THEN {p} ELSE {})
    BY <1>9, EntryStepView
  <2>2. \A k \in Ino : Linking(Out) # k  BY OutReady DEF Ino, NULL
  <2>3. \A k \in Ino : Late(k)' = Late(k)  BY <1>3, <2>1, <2>2
  <2>4. QED  BY <1>9, <2>3, EntryStepView
<1>11. \A k \in Ino : Live(k)' <=> Live(k)
  <2>1. kind[d] = "dir" /\ nlink[d] > 0 /\ nlink[d] \in Int  BY <1>3, FitsHas DEF Live, FsTyped
  <2>2. nlink'[d] > 0  BY <1>7, <2>1
  <2>3. QED  BY <1>7, <1>10, <2>1, <2>2 DEF Live
<1>12. New(i)' = {} /\ \A k \in Ino : k # i => New(k)' = New(k)
  <2>1. \A k \in Ino : k # i => p \notin New(k)  BY <1>1, <1>3 DEF New
  <2>2. \A k \in Ino : New(k)' = New(k) \ {p}  BY <1>10
  <2>3. \A k \in Ino : k # i => New(k)' = New(k)  BY <2>1, <2>2
  <2>4. New(i)' = {}  BY <1>3, <1>5, <2>2
  <2>5. QED  BY <2>3, <2>4
<1>13. \A k \in Ino : Placed(k)' <=> Placed(k) \/ k = i
  <2>1. Placed(i)'
    <3>1. Live(i)  BY <1>4 DEF Live
    <3>2. QED  BY <1>3, <1>11, <1>12, <3>1 DEF Placed
  <2>2. QED  BY <1>11, <1>12, <2>1 DEF Placed
<1>14. PICK s \in Slot :
           /\ <<d, s>> \notin Entries(i) /\ Entries(i)' = Entries(i) \cup {<<d, s>>}
           /\ \A k \in Ino : k # i => Entries(k)' = Entries(k)
           /\ \A k \in Ino : k # d => entry'[k] = entry[k]
  BY <1>3, <1>6, <1>11, AddedEntries
<1>15. Entries(i)' = {<<d, s>>} /\ i # d  BY <1>3, <1>5, <1>14
<1>16. Inside(d)' = Inside(d) \cup {i} /\ \A k \in Ino : k # d => Inside(k)' = Inside(k)
  BY <1>3, <1>4, <1>6, <1>13 DEF Inside
<1>17. RootFits'
  <2>1. ROOT \in Ino  BY RootPlaced
  <2>2. QED  BY <1>5, <1>6, <1>11, <1>14, <2>1, FitsHas DEF RootFits
<1>18. InodesFit'
  <2> SUFFICES ASSUME NEW k \in Ino
               PROVE  /\ kind'[k] = "free" => nlink'[k] = 0 /\ count'[k] = 0
                      /\ ~Placed(k)' => empty_dir(k)'
                      /\ New(k)' # {} => Entries(k)' = {}
                      /\ Placed(k)' => Placed(parent[k])'
    BY DEF InodesFit
  <2>1. ~Placed(k)' => empty_dir(k)'
    <3>1. ~Placed(k)' => empty_dir(k) /\ k # d  BY <1>3, <1>13, FitsHas DEF InodesFit
    <3>2. QED  BY <1>14, <3>1 DEF empty_dir
  <2>2. New(k)' # {} => Entries(k)' = {}  BY <1>12, <1>14, FitsHas DEF InodesFit
  <2>3. Placed(k)' => Placed(parent[k])'
    <3>1. CASE k = i
      <4>1. Placed(d)' /\ d = parent'[k]  BY <1>3, <1>4, <1>6, <1>13, <3>1
      <4>2. QED  BY <4>1, PlacedThere
    <3>2. CASE k # i /\ Placed(k)'
      <4> PICK m : m = parent[k]  OBVIOUS
      <4>1. m \in Ino /\ Placed(m)  BY <1>13, <3>2, PlacedRipe
      <4>2. Placed(m)' /\ m = parent'[k]  BY <1>6, <1>13, <4>1
      <4>3. QED  BY <4>2, PlacedThere
    <3>3. QED  BY <3>1, <3>2
  <2>4. QED  BY <1>10, <2>1, <2>2, <2>3
<1>19. LinksRight'
  <2> SUFFICES ASSUME NEW k \in Ino
               PROVE  /\ Entries(k)' # {} => kind'[k] \in {"file", "link"} \/ Placed(k)'
                      /\ kind'[k] \in {"file", "link"}
                           => nlink'[k] + Cardinality(Late(k)') = Cardinality(Entries(k)') + Cardinality(New(k)')
                      /\ Placed(k)' => nlink'[k] = Cardinality(Entries(k)') + 1 + Cardinality(Inside(k)')
    BY DEF LinksRight
  <2>1. CASE k = i
    <3>1. Placed(k)' /\ kind'[k] \notin {"file", "link"}  BY <1>4, <1>10, <1>13, <2>1
    <3>2. Inside(k)' = {}  BY <1>5, <1>15, <1>16, <2>1 DEF Inside
    <3>3. Cardinality(Entries(k)') = 1 /\ Cardinality(Inside(k)') = 0
      BY <1>15, <2>1, <3>2, FS_EmptySet, FS_Singleton
    <3>4. nlink'[k] = 2  BY <1>4, <1>7, <1>15, <2>1
    <3>5. QED  BY <3>1, <3>3, <3>4
  <2>2. CASE k = d
    <3>1. Placed(k)' /\ kind'[k] \notin {"file", "link"}
      <4>1. kind[d] = "dir"  BY <1>3 DEF Live
      <4>2. QED  BY <1>3, <1>10, <1>13, <2>2, <4>1
    <3>2. nlink[d] = Cardinality(Entries(d)) + 1 + Cardinality(Inside(d))
      BY <1>3, FitsHas DEF LinksRight
    <3>3. i \notin Inside(d) /\ IsFiniteSet(Inside(d)) /\ Cardinality(Inside(d)) \in Nat
          /\ Cardinality(Entries(d)) \in Nat
      BY <1>5, Finite DEF Inside
    <3>4. Cardinality(Inside(d)') = Cardinality(Inside(d)) + 1  BY <1>16, <3>3, FS_AddElement
    <3>5. Entries(d)' = Entries(d)  BY <1>3, <1>14, <1>15
    <3>6. nlink'[k] = Cardinality(Entries(k)') + 1 + Cardinality(Inside(k)')
      BY <1>7, <2>2, <3>2, <3>3, <3>4, <3>5
    <3>7. QED  BY <3>1, <3>6
  <2>3. CASE k # i /\ k # d
    <3>1. /\ Entries(k)' = Entries(k) /\ Inside(k)' = Inside(k) /\ nlink'[k] = nlink[k]
          /\ New(k)' = New(k) /\ Late(k)' = Late(k)
      BY <1>7, <1>10, <1>12, <1>14, <1>16, <2>3
    <3>2. QED  BY <1>9, <3>1, SameLinks
  <2>4. QED  BY <2>1, <2>2, <2>3
<1>20. IsTree'
  <2>1. \A k \in Ino \ {ROOT} : Placed(k)' => \E x \in Slot : Entries(k)' = {<<parent'[k], x>>}
    <3> SUFFICES ASSUME NEW k \in Ino \ {ROOT}, Placed(k)'
                 PROVE  \E x \in Slot : Entries(k)' = {<<parent'[k], x>>}
      OBVIOUS
    <3>1. CASE k = i  BY <1>4, <1>6, <1>15, <3>1
    <3>2. CASE k # i
      <4>1. \E x \in Slot : Entries(k) = {<<parent[k], x>>}  BY <1>13, <3>2, FitsHas DEF IsTree
      <4>2. QED  BY <1>6, <1>14, <3>2, <4>1
    <3>3. QED  BY <3>1, <3>2
  <2>2. ASSUME NEW D \in SUBSET {k \in Ino : Placed(k)'}, D # {}, \A k \in D : parent'[k] \in D
        PROVE  ROOT \in D
    <3> DEFINE E == D \ {i}
    <3>1. E \in SUBSET {k \in Ino : Placed(k)}  BY <1>13
    <3>2. \A k \in E : parent[k] \in E  BY <1>5, <1>6, <2>2, <3>1
    <3>3. E # {}
      <4>1. PICK k \in D : TRUE  BY <2>2
      <4>2. CASE k = i
        <5>1. d \in D  BY <1>4, <1>6, <2>2, <4>1, <4>2
        <5>2. QED  BY <1>15, <5>1
      <4>3. CASE k # i  BY <4>1, <4>3
      <4>4. QED  BY <4>2, <4>3
    <3> HIDE DEF E
    <3>4. ROOT \in E  BY <3>1, <3>2, <3>3, FitsHas DEF IsTree
    <3>5. QED  BY <3>4 DEF E
  <2>3. QED  BY <2>1, <2>2 DEF IsTree
<1>21. FsFits'  BY <1>17, <1>18, <1>19, <1>20 DEF FsFits
<1>22. KeepsLocks(p)  BY <1>6, NamesAssumption DEF KeepsLocks
<1>23. Leaves(p)
  <2>1. \A k \in Ino : OthersHold(p, k) => (Live(k)' <=> Live(k))  BY <1>11
  <2>2. \A k \in Ino : Entries(k) \subseteq Entries(k)'  BY <1>14
  <2>3. \A k \in Ino : Placed(k) => parent'[k] = parent[k]  BY <1>6
  <2>4. QED  BY <1>9, <1>22, <2>1, <2>2, <2>3, EntryLeaves
<1>24. QED  BY <1>6, <1>9, <1>21, <1>23, OutJobFits, EntryStepFits

(***************************************************************************)
(* The calls that clear an entry.                                          *)
(***************************************************************************)
LEMMA ClearedEntries ==
  ASSUME Fits, NEW d \in Ino, NEW s \in Slot, NEW i \in Ino, <<d, s>> \in Entries(i),
         entry' = Cleared(d, s),
         \A k \in Ino : Live(k)' => Live(k), \A k \in Ino : Live(k) /\ ~Live(k)' => empty_dir(k)
  PROVE  /\ Entries(i)' = Entries(i) \ {<<d, s>>}
         /\ Cardinality(Entries(i)') = Cardinality(Entries(i)) - 1
         /\ \A k \in Ino : k # i => Entries(k)' = Entries(k)
         /\ \A k \in Ino : k # d => entry'[k] = entry[k]
PROOF
<1>1. FsTyped  BY FitsHas
<1>2. entry'[d][s].ino = NULL
  <2>1. entry[d][s] \in Entry  BY <1>1 DEF FsTyped
  <2>2. entry'[d][s] = [entry[d][s] EXCEPT !.ino = NULL]  BY <1>1 DEF FsTyped, Cleared
  <2>3. QED  BY <2>1, <2>2 DEF Entry
<1>3. \A e \in Ino \X Slot : e # <<d, s>> => entry'[e[1]][e[2]] = entry[e[1]][e[2]]
  BY <1>1 DEF FsTyped, Cleared
<1>4. \A k \in Ino : k # d => entry'[k] = entry[k]  BY <1>1 DEF FsTyped, Cleared
<1>5. \A k \in Ino : k # NULL  BY DEF Ino, NULL
<1>6. entry[d][s].ino = i  BY DEF Entries
<1>7. ASSUME NEW k \in Ino, NEW e \in Ino \X Slot
      PROVE  (Live(e[1])' /\ entry'[e[1]][e[2]].ino = k)
               <=> (Live(e[1]) /\ entry[e[1]][e[2]].ino = k /\ e # <<d, s>>)
  <2>1. CASE e = <<d, s>>  BY <1>2, <1>5, <2>1
  <2>2. CASE e # <<d, s>>
    <3>1. entry'[e[1]][e[2]] = entry[e[1]][e[2]]  BY <1>3, <2>2
    <3>2. entry[e[1]][e[2]].ino = k => ~empty_dir(e[1])  BY <1>5 DEF empty_dir
    <3>3. e[1] \in Ino  OBVIOUS
    <3>4. entry[e[1]][e[2]].ino = k => (Live(e[1])' <=> Live(e[1]))  BY <3>2, <3>3
    <3>5. QED  BY <2>2, <3>1, <3>4
  <2>3. QED  BY <2>1, <2>2
<1>8. Entries(i)' = Entries(i) \ {<<d, s>>}  BY <1>7 DEF Entries
<1>9. \A k \in Ino : k # i => Entries(k)' = Entries(k)
  <2> SUFFICES ASSUME NEW k \in Ino, k # i PROVE Entries(k)' = Entries(k)  OBVIOUS
  <2>1. \A e \in Ino \X Slot : entry[e[1]][e[2]].ino = k => e # <<d, s>>  BY <1>6
  <2>2. QED  BY <1>7, <2>1 DEF Entries
<1>10. Cardinality(Entries(i)') = Cardinality(Entries(i)) - 1  BY <1>8, Finite, FS_RemoveElement
<1>11. QED  BY <1>4, <1>8, <1>9, <1>10

(* Who has found an entry that is not gone. *)
LEMMA EntryThere ==
  ASSUME Fits, NEW p \in Proc, job[p].at \in {"remove", "rmdir"}
  PROVE  /\ job[p].ino \in Ino /\ job[p].dir \in Ino /\ job[p].slot \in Slot
         /\ <<job[p].dir, job[p].slot>> \in Entries(job[p].ino)
         /\ Placed(job[p].dir) /\ Live(job[p].dir) /\ New(job[p].ino) = {} /\ Ripe(p, job[p].ino)
         /\ Making(job[p]) = NULL /\ Linking(job[p]) = NULL
         /\ \A k \in Ino : p \notin New(k) /\ p \notin Late(k)
PROOF
<1>1. PICK j \in Job : j = job[p] /\ Seen(j) /\ CallFits(j) /\ Holds(j)  BY FitsHas DEF JobFits
<1>2. j.ino \in Ino  BY <1>1, RefIsIno DEF CallFits, Job
<1>3. <<j.dir, j.slot>> \in Entries(j.ino)  BY <1>1 DEF Seen
<1>4. j.dir \in Ino /\ j.slot \in Slot /\ Live(j.dir)  BY <1>3 DEF Entries
<1>5. New(j.ino) = {} /\ Ripe(p, j.ino)  BY <1>2, <1>3, EntryRipe
<1>6. Making(j) = NULL /\ Linking(j) = NULL  BY <1>1 DEF Making, Linking
<1>7. Placed(j.dir)
  <2>1. "dir" \in RefFields /\ "dir" # "inode" /\ job[p]["dir"] = j.dir  BY <1>1 DEF RefFields
  <2>2. j.dir # NULL  BY <1>4 DEF Ino, NULL
  <2>3. QED  BY <1>4, <2>1, <2>2, LivePlaced
<1>8. \A k \in Ino : p \notin New(k) /\ p \notin Late(k)
  <2>1. \A k \in Ino : k # NULL  BY DEF Ino, NULL
  <2>2. QED  BY <1>1, <1>6, <2>1 DEF New, Late
<1>9. QED  BY <1>1, <1>2, <1>3, <1>4, <1>5, <1>6, <1>7, <1>8

LEMMA QuietLate ==
  ASSUME NEW p \in Proc, QuietNow(p), NEW k \in Ino, p \notin Late(k) PROVE Late(k) = {}
PROOF
<1> SUFFICES ASSUME NEW q \in Late(k) PROVE FALSE  OBVIOUS
<1>1. q \in Proc \ {p} /\ Linking(job[q]) = k  BY DEF Late
<1>2. job[q].at = "linked"  BY <1>1 DEF Linking, Ino, NULL
<1>3. QED  BY <1>1, <1>2 DEF QuietNow, Relying

LEMMA UnlinkKeeps ==
  ASSUME Fits, IInv', ~Races, NEW p \in Proc, Unlink(p)
  PROVE  Fits'
PROOF
<1>1. PICK j \in Job : j = job[p]  BY FitsHas
<1> PICK i : i = j.ino  OBVIOUS
<1> PICK d : d = j.dir  OBVIOUS
<1> PICK s : s = j.slot  OBVIOUS
<1>2. j.at = "remove" /\ QuietNow(p)  BY <1>1 DEF Unlink, At, Quiet, QuietNow
<1>3. /\ i \in Ino /\ d \in Ino /\ s \in Slot /\ <<d, s>> \in Entries(i) /\ Placed(d) /\ Live(d)
      /\ New(i) = {} /\ Ripe(p, i) /\ Making(j) = NULL /\ Linking(j) = NULL
      /\ \A k \in Ino : p \notin New(k) /\ p \notin Late(k)
  BY <1>1, <1>2, EntryThere
<1>4. CASE Fail(p)  BY <1>1, <1>3, <1>4, EndsFit
<1>5. CASE /\ kind[i] # "dir" /\ entry' = Cleared(d, s)
           /\ nlink' = [nlink EXCEPT ![i] = IF @ = 0 THEN 0 ELSE @ - 1]
           /\ kind' = Freed(count', nlink', kind) /\ job' = [job EXCEPT ![p] = Out]
           /\ UNCHANGED <<parent, target, open, lock, calls, overdir>>
  <2>1. kind[i] \in {"file", "link"}
    <3>1. kind[i] \in {"file", "link"} \/ Placed(i)  BY <1>3, FitsHas DEF LinksRight
    <3>2. QED  BY <1>5, <3>1 DEF Placed, Live
  <2>2. Late(i) = {}  BY <1>2, <1>3, QuietLate
  <2>3. nlink[i] = Cardinality(Entries(i)) /\ nlink[i] >= 1 /\ nlink[i] \in Int
    <3>1. nlink[i] + Cardinality(Late(i)) = Cardinality(Entries(i)) + Cardinality(New(i))
      BY <1>3, <2>1, FitsHas DEF LinksRight
    <3>2. Cardinality(Late(i)) = 0 /\ Cardinality(New(i)) = 0  BY <1>3, <2>2, FS_EmptySet
    <3>3. nlink[i] \in Int /\ Cardinality(Entries(i)) \in Nat  BY <1>3, Finite, FitsHas DEF FsTyped
    <3>4. Cardinality(Entries(i)) >= 1  BY <1>3, Finite, AtLeastOne
    <3>5. QED  BY <3>1, <3>2, <3>3, <3>4
  <2>4. nlink'[i] = nlink[i] - 1 /\ \A k \in Ino : k # i => nlink'[k] = nlink[k]
    BY <1>3, <1>5, <2>3, FitsHas DEF FsTyped
  <2>5. EntryStep(p, Out, open[p])
    <3>1. open' = [open EXCEPT ![p] = open[p]]  BY <1>5, FitsHas DEF TypeOK
    <3>2. open[p] = NULL \/ Ripe(p, open[p])  BY HeldRipe
    <3>3. QED  BY <1>3, <1>5, <2>4, <3>1, <3>2, OutFits, OutReady DEF EntryStep
  <2>6. /\ \A k \in Ino : New(k)' = New(k) /\ Late(k)' = Late(k)
        /\ \A k \in Ino : Live(k)' <=> (kind[k] = "dir" /\ nlink'[k] > 0)
    <3>1. /\ \A k \in Ino : New(k)' = New(k) \ {p}
          /\ \A k \in Ino : Late(k)' = (Late(k) \ {p}) \cup (IF Linking(Out) = k THEN {p} ELSE {})
          /\ \A k \in Ino : Live(k)' <=> (kind[k] = "dir" /\ nlink'[k] > 0)
      BY <2>5, EntryStepView
    <3>2. \A k \in Ino : Linking(Out) # k  BY OutReady DEF Ino, NULL
    <3>3. \A k \in Ino : p \notin New(k) /\ p \notin Late(k)  BY <1>3
    <3>4. \A k \in Ino : New(k)' = New(k)  BY <3>1, <3>3
    <3>5. \A k \in Ino : Late(k)' = Late(k)  BY <3>1, <3>2, <3>3
    <3>6. QED  BY <3>1, <3>4, <3>5
  <2>7. \A k \in Ino : Live(k)' <=> Live(k)  BY <2>1, <2>4, <2>6 DEF Live
  <2>8. /\ Cardinality(Entries(i)') = Cardinality(Entries(i)) - 1
        /\ \A k \in Ino : k # i => Entries(k)' = Entries(k)
        /\ \A k \in Ino : k # d => entry'[k] = entry[k]
    BY <1>3, <1>5, <2>7, ClearedEntries
  <2>9. FileRight(i)'
    <3>1. New(i)' = {} /\ Late(i)' = {}  BY <1>3, <2>2, <2>6
    <3>2. Cardinality(New(i)') = 0 /\ Cardinality(Late(i)') = 0  BY <3>1, FS_EmptySet
    <3>3. nlink'[i] + Cardinality(Late(i)') = Cardinality(Entries(i)') + Cardinality(New(i)')
      BY <2>3, <2>4, <2>8, <3>2
    <3>4. QED  BY <1>3, <2>1, <2>5, <3>1, <3>3, CountedRight
  <2> DEFINE F == {i}
  <2>10. F \in SUBSET Ino /\ \A k \in F : kind[k] \in {"file", "link"} /\ FileRight(k)'
    <3>1. \A k \in F : FileRight(k)'  BY <2>9 DEF FileRight, Entries, New, Late, Live
    <3>2. QED  BY <1>3, <2>1, <3>1
  <2>11. \A k \in Ino \ F : /\ Entries(k)' = Entries(k) /\ nlink'[k] = nlink[k]
                            /\ New(k)' = New(k) /\ Late(k)' = Late(k)
    BY <2>4, <2>6, <2>8
  <2>12. \A k \in Ino : ~Placed(k) => entry'[k] = entry[k]  BY <1>3, <2>8
  <2> HIDE DEF F
  <2>13. parent' = parent /\ KeepsLocks(p)  BY <1>5 DEF KeepsLocks
  <2>14. FsFits'  BY <2>5, <2>10, <2>11, <2>12, <2>13, FilesFsFits
  <2>15. Leaves(p)
    <3>1. \A k \in Ino : OthersHold(p, k) => (Live(k)' <=> Live(k))  BY <2>7
    <3>2. \A k \in Ino : Placed(k) => parent'[k] = parent[k]  BY <2>13
    <3>3. QED  BY <1>2, <2>5, <2>13, <3>1, <3>2, EntryLeaves
  <2>16. QED  BY <1>5, <2>5, <2>14, <2>15, OutJobFits, EntryStepFits
<1>6. QED  BY <1>1, <1>4, <1>5 DEF Unlink

LEMMA RmdirKeeps ==
  ASSUME Fits, IInv', ~Races, NEW p \in Proc, Rmdir(p)
  PROVE  Fits'
PROOF
<1>1. PICK j \in Job : j = job[p] /\ Seen(j)  BY FitsHas DEF JobFits
<1> PICK i : i = j.inode  OBVIOUS
<1> PICK d : d = j.dir  OBVIOUS
<1> PICK s : s = j.slot  OBVIOUS
<1>2. j.at = "rmdir" /\ QuietNow(p) /\ i = j.ino  BY <1>1 DEF Rmdir, At, Quiet, QuietNow, Seen
<1>3. /\ i \in Ino /\ d \in Ino /\ s \in Slot /\ <<d, s>> \in Entries(i) /\ Placed(d) /\ Live(d)
      /\ New(i) = {} /\ Ripe(p, i) /\ Making(j) = NULL /\ Linking(j) = NULL
      /\ \A k \in Ino : p \notin New(k) /\ p \notin Late(k)
  BY <1>1, <1>2, EntryThere
<1>4. CASE Fail(p)  BY <1>1, <1>3, <1>4, EndsFit
<1>5. CASE /\ i # d /\ kind[i] = "dir" /\ empty_dir(i) /\ count[i] = 1
           /\ entry' = Cleared(d, s) /\ Return(p, [nlink EXCEPT ![i] = 0, ![d] = @ - 1], kind)
           /\ UNCHANGED <<parent, target, open, calls, overdir>>
  <2>1. Placed(i) /\ i # ROOT  BY <1>3, <1>5, FitsHas DEF LinksRight, RootFits
  <2>2. parent[i] = d /\ Entries(i) = {<<d, s>>}
    <3>1. \E x \in Slot : Entries(i) = {<<parent[i], x>>}  BY <1>3, <2>1, FitsHas DEF IsTree
    <3>2. QED  BY <1>3, <3>1
  <2>3. Inside(i) = {}
    <3> SUFFICES ASSUME NEW k \in Inside(i) PROVE FALSE  OBVIOUS
    <3>1. k \in Ino /\ Placed(k) /\ parent[k] = i  BY DEF Inside
    <3>2. k # ROOT  BY <2>1, <3>1, FitsHas DEF RootFits
    <3>3. PICK x \in Slot : Entries(k) = {<<i, x>>}  BY <3>1, <3>2, FitsHas DEF IsTree
    <3>4. <<i, x>> \in Entries(k)  BY <3>3
    <3>5. entry[i][x].ino = k  BY <3>4 DEF Entries
    <3>6. k # NULL  BY <3>1 DEF Ino, NULL
    <3>7. QED  BY <1>5, <3>3, <3>5, <3>6 DEF empty_dir
  <2>4. /\ nlink[d] = Cardinality(Entries(d)) + 1 + Cardinality(Inside(d)) /\ nlink[d] \in Int
        /\ Cardinality(Entries(d)) \in Nat /\ Cardinality(Inside(d)) \in Nat
    BY <1>3, Finite, FitsHas DEF LinksRight, FsTyped
  <2>5. i \in Inside(d) /\ Cardinality(Inside(d)) >= 1
    <3>1. i \in Inside(d)  BY <1>3, <2>1, <2>2 DEF Inside
    <3>2. QED  BY <3>1, Finite, AtLeastOne
  <2>6. \A q \in Proc : \A f \in RefFields : job[q][f] = i => q = p
    <3>1. "inode" \in RefFields /\ job[p]["inode"] = i  BY <1>1 DEF RefFields
    <3>2. QED  BY <1>3, <1>5, <3>1, Alone DEF Fits
  <2>7. /\ job' = [job EXCEPT ![p] = Out] /\ open' = [open EXCEPT ![p] = open[p]]
        /\ kind' = Freed(count', nlink', kind) /\ lock' = IF lock = p THEN NoProc ELSE lock
        /\ nlink' = [nlink EXCEPT ![i] = 0, ![d] = @ - 1] /\ parent' = parent /\ overdir' = overdir
    BY <1>5, FitsHas DEF Return, TypeOK
  <2>8. /\ nlink'[i] = 0 /\ nlink'[d] = nlink[d] - 1
        /\ \A k \in Ino : k # i /\ k # d => nlink'[k] = nlink[k]
    BY <1>3, <1>5, <2>7, FitsHas DEF FsTyped
  <2>9. EntryStep(p, Out, open[p])
    <3>1. open[p] = NULL \/ Ripe(p, open[p])  BY HeldRipe
    <3>2. Ripe(p, d)  BY <1>3, PlacedRipe
    <3>3. QED  BY <1>3, <2>7, <2>8, <3>1, <3>2, OutFits, OutReady DEF EntryStep
  <2>10. /\ \A k \in Ino : New(k)' = New(k) /\ Late(k)' = Late(k)
         /\ \A k \in Ino : Live(k)' <=> (kind[k] = "dir" /\ nlink'[k] > 0)
         /\ \A k \in Ino : kind'[k] = kind[k] \/ kind'[k] = "free"
         /\ \A k \in Ino : kind'[k] = "free" => nlink'[k] = 0 /\ count'[k] = 0
    <3>1. /\ \A k \in Ino : New(k)' = New(k) \ {p}
          /\ \A k \in Ino : Late(k)' = (Late(k) \ {p}) \cup (IF Linking(Out) = k THEN {p} ELSE {})
          /\ \A k \in Ino : Live(k)' <=> (kind[k] = "dir" /\ nlink'[k] > 0)
          /\ \A k \in Ino : kind'[k] = kind[k] \/ kind'[k] = "free"
          /\ \A k \in Ino : kind'[k] = "free" => nlink'[k] = 0 /\ count'[k] = 0
      BY <2>9, EntryStepView
    <3>2. \A k \in Ino : Linking(Out) # k  BY OutReady DEF Ino, NULL
    <3>3. \A k \in Ino : p \notin New(k) /\ p \notin Late(k)  BY <1>3
    <3>4. \A k \in Ino : New(k)' = New(k)  BY <3>1, <3>3
    <3>5. \A k \in Ino : Late(k)' = Late(k)  BY <3>1, <3>2, <3>3
    <3>6. QED  BY <3>1, <3>4, <3>5
  <2>11. \A k \in Ino : Live(k)' <=> Live(k) /\ k # i
    <3>1. ~Live(i)'  BY <1>3, <2>8, <2>10
    <3>2. Live(d)'
      <4>1. kind[d] = "dir"  BY <1>3 DEF Live
      <4>2. nlink'[d] > 0  BY <2>4, <2>5, <2>8
      <4>3. QED  BY <1>3, <2>10, <4>1, <4>2
    <3>3. QED  BY <1>3, <1>5, <2>8, <2>10, <3>1, <3>2 DEF Live
  <2>12. \A k \in Ino : Placed(k)' <=> Placed(k) /\ k # i  BY <2>10, <2>11 DEF Placed
  <2>13. /\ Entries(i)' = {} /\ \A k \in Ino : k # i => Entries(k)' = Entries(k)
         /\ \A k \in Ino : k # d => entry'[k] = entry[k]
    <3>1. \A k \in Ino : Live(k)' => Live(k)  BY <2>11
    <3>2. \A k \in Ino : Live(k) /\ ~Live(k)' => empty_dir(k)  BY <1>5, <2>11
    <3>3. entry' = Cleared(d, s)  BY <1>5
    <3>4. /\ Entries(i)' = Entries(i) \ {<<d, s>>}
          /\ \A k \in Ino : k # i => Entries(k)' = Entries(k)
          /\ \A k \in Ino : k # d => entry'[k] = entry[k]
      BY <1>3, <3>1, <3>2, <3>3, ClearedEntries
    <3>5. QED  BY <2>2, <3>4
  <2>14. Inside(d)' = Inside(d) \ {i} /\ \A k \in Ino : k # d => Inside(k)' = Inside(k)
    BY <1>3, <2>2, <2>7, <2>12 DEF Inside
  <2>15. RootFits'
    <3>1. ROOT \in Ino  BY RootPlaced
    <3>2. QED  BY <2>1, <2>7, <2>11, <2>13, <3>1, FitsHas DEF RootFits
  <2>16. InodesFit'
    <3> SUFFICES ASSUME NEW k \in Ino
                 PROVE  /\ kind'[k] = "free" => nlink'[k] = 0 /\ count'[k] = 0
                        /\ ~Placed(k)' => empty_dir(k)'
                        /\ New(k)' # {} => Entries(k)' = {}
                        /\ Placed(k)' => Placed(parent[k])'
      BY DEF InodesFit
    <3>1. ~Placed(k)' => empty_dir(k)'
      <4>1. ~Placed(k)' => empty_dir(k) /\ k # d  BY <1>3, <1>5, <2>12, FitsHas DEF InodesFit
      <4>2. QED  BY <2>13, <4>1 DEF empty_dir
    <3>2. New(k)' # {} => Entries(k)' = {}  BY <1>3, <2>10, <2>13, FitsHas DEF InodesFit
    <3>3. ASSUME Placed(k)' PROVE Placed(parent[k])'
      <4> PICK m : m = parent[k]  OBVIOUS
      <4>1. m \in Ino /\ Placed(m) /\ Placed(k)  BY <2>12, <3>3, PlacedRipe
      <4>2. m # i  BY <2>3, <4>1 DEF Inside
      <4>3. Placed(m)' /\ m = parent'[k]  BY <2>7, <2>12, <4>1, <4>2
      <4>4. QED  BY <4>3, PlacedThere
    <3>4. QED  BY <2>10, <3>1, <3>2, <3>3
  <2>17. LinksRight'
    <3> SUFFICES ASSUME NEW k \in Ino
                 PROVE  /\ Entries(k)' # {} => kind'[k] \in {"file", "link"} \/ Placed(k)'
                        /\ kind'[k] \in {"file", "link"}
                             => nlink'[k] + Cardinality(Late(k)') = Cardinality(Entries(k)') + Cardinality(New(k)')
                        /\ Placed(k)' => nlink'[k] = Cardinality(Entries(k)') + 1 + Cardinality(Inside(k)')
      BY DEF LinksRight
    <3>1. CASE k = i
      <4>1. ~Placed(k)' /\ kind'[k] \notin {"file", "link"} /\ Entries(k)' = {}
        BY <1>5, <2>10, <2>12, <2>13, <3>1
      <4>2. QED  BY <4>1
    <3>2. CASE k = d
      <4>1. Placed(k)' /\ kind'[k] \notin {"file", "link"}
        <5>1. kind[d] = "dir"  BY <1>3 DEF Live
        <5>2. QED  BY <1>3, <1>5, <2>10, <2>12, <3>2, <5>1
      <4>2. Cardinality(Inside(d)') = Cardinality(Inside(d)) - 1
        BY <2>5, <2>14, Finite, FS_RemoveElement
      <4>3. Entries(d)' = Entries(d)  BY <1>3, <1>5, <2>13
      <4>4. nlink'[k] = Cardinality(Entries(k)') + 1 + Cardinality(Inside(k)')
        BY <2>4, <2>8, <3>2, <4>2, <4>3
      <4>5. QED  BY <4>1, <4>4
    <3>3. CASE k # i /\ k # d
      <4>1. /\ Entries(k)' = Entries(k) /\ Inside(k)' = Inside(k) /\ nlink'[k] = nlink[k]
            /\ New(k)' = New(k) /\ Late(k)' = Late(k)
        BY <2>8, <2>10, <2>13, <2>14, <3>3
      <4>2. QED  BY <2>9, <4>1, SameLinks
    <3>4. QED  BY <3>1, <3>2, <3>3
  <2>18. IsTree'
    <3>1. \A k \in Ino \ {ROOT} : Placed(k)' => \E x \in Slot : Entries(k)' = {<<parent'[k], x>>}
      <4> SUFFICES ASSUME NEW k \in Ino \ {ROOT}, Placed(k)'
                   PROVE  \E x \in Slot : Entries(k)' = {<<parent'[k], x>>}
        OBVIOUS
      <4>1. \E x \in Slot : Entries(k) = {<<parent[k], x>>}  BY <2>12, FitsHas DEF IsTree
      <4>2. Entries(k)' = Entries(k)  BY <2>12, <2>13
      <4>3. QED  BY <2>7, <4>1, <4>2
    <3>2. ASSUME NEW D \in SUBSET {k \in Ino : Placed(k)'}, D # {}, \A k \in D : parent'[k] \in D
          PROVE  ROOT \in D
      <4>1. D \in SUBSET {k \in Ino : Placed(k)}  BY <2>12
      <4>2. \A k \in D : parent[k] \in D  BY <2>7, <3>2
      <4>3. QED  BY <3>2, <4>1, <4>2, FitsHas DEF IsTree
    <3>3. QED  BY <3>1, <3>2 DEF IsTree
  <2>19. FsFits'  BY <2>15, <2>16, <2>17, <2>18 DEF FsFits
  <2>20. KeepsLocks(p)  BY <2>7, NamesAssumption DEF KeepsLocks
  <2>21. Leaves(p)
    <3>1. \A k \in Ino : OthersHold(p, k) => (Live(k)' <=> Live(k))  BY <2>6, <2>11 DEF OthersHold
    <3>2. \A k \in Ino : Placed(k) => parent'[k] = parent[k]  BY <2>7
    <3>3. QED  BY <1>2, <2>9, <2>20, <3>1, <3>2, EntryLeaves
  <2>22. QED  BY <2>7, <2>9, <2>19, <2>21, OutJobFits, EntryStepFits
<1>6. QED  BY <1>1, <1>2, <1>4, <1>5 DEF Rmdir

(***************************************************************************)
(* rename.                                                                 *)
(***************************************************************************)
(* The entry s of d goes, and i, whose name it was, is entered in s2 of d2, over i2. *)
EntryMoves(d, s, i, d2, s2, i2, name) ==
  /\ d \in Ino /\ d2 \in Ino /\ s \in Slot /\ s2 \in Slot /\ i \in Ino /\ i2 \in Ref
  /\ i # i2 /\ <<d, s>> \in Entries(i) /\ Live(d2) /\ entry[d2][s2].ino = i2
  /\ entry' = [Cleared(d, s) EXCEPT ![d2][s2] = [name |-> name, ino |-> i]]

LEMMA MovedEntries ==
  ASSUME Fits, NEW d, NEW d2, NEW s, NEW s2, NEW i, NEW i2, NEW name,
         EntryMoves(d, s, i, d2, s2, i2, name), \A k \in Ino : Live(k)' <=> Live(k)
  PROVE  /\ Entries(i)' = (Entries(i) \ {<<d, s>>}) \cup {<<d2, s2>>}
         /\ Cardinality(Entries(i)') = Cardinality(Entries(i))
         /\ i2 # NULL => /\ <<d2, s2>> \in Entries(i2)
                         /\ Cardinality(Entries(i2)') = Cardinality(Entries(i2)) - 1
         /\ \A k \in Ino : k \notin {i, i2} => Entries(k)' = Entries(k)
         /\ \A k \in Ino : k \notin {d, d2} => entry'[k] = entry[k]
PROOF
<1> USE DEF EntryMoves
<1>1. FsTyped  BY FitsHas
<1>2. entry[d][s].ino = i  BY DEF Entries
<1>3. <<d, s>> # <<d2, s2>>  BY <1>2
<1> DEFINE c == Cleared(d, s)
<1>4. /\ c \in [Ino -> [Slot -> Entry]] /\ c[d][s].ino = NULL
      /\ \A e \in Ino \X Slot : e # <<d, s>> => c[e[1]][e[2]] = entry[e[1]][e[2]]
      /\ \A k \in Ino : k # d => c[k] = entry[k]
  <2>1. entry \in [Ino -> [Slot -> Entry]] /\ entry[d][s] \in Entry  BY <1>1 DEF FsTyped
  <2>2. [entry[d][s] EXCEPT !.ino = NULL] \in Entry /\ [entry[d][s] EXCEPT !.ino = NULL].ino = NULL
    BY <2>1 DEF Entry, Ref
  <2>3. c = [entry EXCEPT ![d] = [entry[d] EXCEPT ![s] = [entry[d][s] EXCEPT !.ino = NULL]]]
    BY DEF Cleared
  <2> HIDE DEF c
  <2>4. QED  BY <2>1, <2>2, <2>3
<1>5. entry' = [c EXCEPT ![d2][s2] = [name |-> name, ino |-> i]]  OBVIOUS
<1> HIDE DEF c
<1>6. entry'[d2][s2].ino = i  BY <1>4, <1>5
<1>7. \A e \in Ino \X Slot : e # <<d2, s2>> => entry'[e[1]][e[2]] = c[e[1]][e[2]]
  BY <1>4, <1>5
<1>8. \A k \in Ino : k \notin {d, d2} => entry'[k] = entry[k]  BY <1>4, <1>5
<1>9. entry'[d][s].ino = NULL
  <2>1. <<d, s>> \in Ino \X Slot  OBVIOUS
  <2>2. \A e \in Ino \X Slot : e = <<d, s>> => entry'[e[1]][e[2]] = c[e[1]][e[2]]  BY <1>3, <1>7
  <2>3. QED  BY <1>4, <2>1, <2>2
<1>10. \A k \in Ino : k # NULL  BY DEF Ino, NULL
<1>11. ASSUME NEW k \in Ino, NEW e \in Ino \X Slot
       PROVE  (Live(e[1])' /\ entry'[e[1]][e[2]].ino = k)
                <=> \/ k = i /\ e = <<d2, s2>>
                    \/ Live(e[1]) /\ entry[e[1]][e[2]].ino = k /\ e # <<d, s>> /\ e # <<d2, s2>>
  <2>1. CASE e = <<d2, s2>>  BY <1>6, <2>1
  <2>2. CASE e = <<d, s>>  BY <1>3, <1>9, <1>10, <2>2
  <2>3. CASE e # <<d, s>> /\ e # <<d2, s2>>
    <3>1. entry'[e[1]][e[2]] = entry[e[1]][e[2]]  BY <1>4, <1>7, <2>3
    <3>2. e[1] \in Ino  OBVIOUS
    <3>3. QED  BY <2>3, <3>1, <3>2
  <2>4. QED  BY <2>1, <2>2, <2>3
<1>12. Entries(i)' = (Entries(i) \ {<<d, s>>}) \cup {<<d2, s2>>} /\ <<d2, s2>> \notin Entries(i)
  <2>1. <<d2, s2>> \notin Entries(i)  BY DEF Entries
  <2>2. \A e \in Ino \X Slot : e \in Entries(i)' <=> (e \in Entries(i) /\ e # <<d, s>>) \/ e = <<d2, s2>>
    BY <1>11, <2>1 DEF Entries
  <2>3. Entries(i) \in SUBSET (Ino \X Slot) /\ Entries(i)' \in SUBSET (Ino \X Slot)
        /\ <<d2, s2>> \in Ino \X Slot
    BY DEF Entries
  <2>4. QED  BY <2>1, <2>2, <2>3
<1>13. Cardinality(Entries(i)') = Cardinality(Entries(i))
  <2>1. IsFiniteSet(Entries(i)) /\ Cardinality(Entries(i)) \in Nat  BY Finite
  <2>2. /\ IsFiniteSet(Entries(i) \ {<<d, s>>})
        /\ Cardinality(Entries(i) \ {<<d, s>>}) = Cardinality(Entries(i)) - 1
    BY <2>1, FS_RemoveElement
  <2>3. Cardinality((Entries(i) \ {<<d, s>>}) \cup {<<d2, s2>>}) = Cardinality(Entries(i)) - 1 + 1
    BY <1>12, <2>2, FS_AddElement
  <2>4. QED  BY <1>12, <2>1, <2>3
<1>14. ASSUME NEW k \in Ino, k \notin {i, i2} PROVE Entries(k)' = Entries(k)
  <2>1. <<d, s>> \notin Entries(k) /\ <<d2, s2>> \notin Entries(k)  BY <1>2, <1>14 DEF Entries
  <2>2. \A e \in Ino \X Slot : e \in Entries(k)' <=> e \in Entries(k)
    BY <1>11, <1>14, <2>1 DEF Entries
  <2>3. Entries(k) \in SUBSET (Ino \X Slot) /\ Entries(k)' \in SUBSET (Ino \X Slot)  BY DEF Entries
  <2>4. QED  BY <2>2, <2>3
<1>15. ASSUME i2 # NULL
       PROVE  /\ <<d2, s2>> \in Entries(i2)
              /\ Cardinality(Entries(i2)') = Cardinality(Entries(i2)) - 1
  <2>1. i2 \in Ino /\ <<d2, s2>> \in Entries(i2)  BY <1>15 DEF Ref, Entries
  <2>2. <<d, s>> \notin Entries(i2)  BY <1>2 DEF Entries
  <2>3. \A e \in Ino \X Slot : e \in Entries(i2)' <=> e \in Entries(i2) /\ e # <<d2, s2>>
    BY <1>11, <2>1, <2>2 DEF Entries
  <2>4. Entries(i2) \in SUBSET (Ino \X Slot) /\ Entries(i2)' \in SUBSET (Ino \X Slot)  BY DEF Entries
  <2>5. Entries(i2)' = Entries(i2) \ {<<d2, s2>>}  BY <2>3, <2>4
  <2>6. IsFiniteSet(Entries(i2))  BY Finite
  <2>7. Cardinality(Entries(i2) \ {<<d2, s2>>}) = Cardinality(Entries(i2)) - 1
    BY <2>1, <2>6, FS_RemoveElement
  <2>8. QED  BY <2>1, <2>5, <2>7
<1>16. QED  BY <1>8, <1>12, <1>13, <1>14, <1>15

(* What rename has looked at again. *)
SecondSlot(j) == IF j.slot2 # NULL THEN j.slot2 ELSE Min(Unused(j.dir2))

LEMMA SaneHas ==
  ASSUME Fits, NEW p \in Proc, At(p, "sanity"), NEW j, j = job[p], NEW s2, s2 = SecondSlot(j),
         j.slot2 # NULL \/ Unused(j.dir2) # {}, Sane(j, s2)
  PROVE  /\ j.dir \in Ino /\ j.dir2 \in Ino /\ j.slot \in Slot /\ s2 \in Slot
         /\ j.inode \in Ino /\ j.inode2 \in Ref /\ j.inode # j.inode2
         /\ <<j.dir, j.slot>> \in Entries(j.inode) /\ Placed(j.dir) /\ Placed(j.dir2) /\ Live(j.dir2)
         /\ entry[j.dir2][s2].ino = j.inode2 /\ lock = p
         /\ New(j.inode) = {} /\ Ripe(p, j.inode)
         /\ j.inode2 # NULL => /\ j.slot2 # NULL /\ <<j.dir2, s2>> \in Entries(j.inode2)
                               /\ New(j.inode2) = {} /\ Ripe(p, j.inode2)
         /\ \A k \in Ino : p \notin New(k) /\ p \notin Late(k)
PROOF
<1>1. j \in Job /\ Holds(j) /\ CallFits(j) /\ RenameFits(j) /\ j.at = "sanity" /\ j.at \in Renaming
  BY FitsHas DEF JobFits, At, Renaming
<1>2. /\ lock = p /\ j.dir \in Ino /\ j.dir2 \in Ino /\ Making(j) = NULL /\ Linking(j) = NULL
      /\ kind[j.dir2] = "dir" => Live(j.dir2)
  BY <1>1, RenamerHas
<1>3. j.inode \in Ino /\ j.inode # NULL /\ j.slot \in Slot /\ j.inode2 \in Ref
      /\ (j.inode2 # NULL <=> j.slot2 # NULL) /\ j.inode # j.inode2
  BY <1>1, RefIsIno DEF Holds, CallFits, Job, RenameFits
<1>4. s2 \in Slot /\ (j.slot2 = NULL => kind[j.dir2] = "dir" /\ entry[j.dir2][s2].ino = NULL)
  <2>1. CASE j.slot2 # NULL  BY <1>1, <2>1 DEF SecondSlot, Job
  <2>2. CASE j.slot2 = NULL
    <3>1. Unused(j.dir2) \in SUBSET Nat  BY SlotsAreNumbers DEF Unused
    <3>2. s2 \in Unused(j.dir2)  BY <2>2, <3>1, MinExists DEF SecondSlot
    <3>3. QED  BY <2>2, <3>2 DEF Unused
  <2>3. QED  BY <2>1, <2>2
<1>5. entry[j.dir2][s2].ino = j.inode2 /\ entry[j.dir][j.slot].ino = j.inode
  BY <1>3, <1>4 DEF Sane
<1>6. Placed(j.dir) /\ <<j.dir, j.slot>> \in Entries(j.inode)
  <2>1. ~empty_dir(j.dir)  BY <1>3, <1>5 DEF empty_dir
  <2>2. Placed(j.dir)  BY <1>2, <2>1, FitsHas DEF InodesFit
  <2>3. QED  BY <1>2, <1>3, <1>5, <2>2 DEF Placed, Entries
<1>7. Placed(j.dir2) /\ Live(j.dir2)
  <2>1. CASE j.slot2 # NULL
    <3>1. ~empty_dir(j.dir2)  BY <1>3, <1>4, <1>5, <2>1 DEF empty_dir
    <3>2. QED  BY <1>2, <3>1, FitsHas DEF InodesFit, Placed
  <2>2. CASE j.slot2 = NULL
    <3>1. "dir2" \in RefFields /\ "dir2" # "inode" /\ job[p]["dir2"] = j.dir2  BY DEF RefFields
    <3>2. Live(j.dir2) /\ j.dir2 # NULL  BY <1>2, <1>4, <2>2 DEF Ino, NULL
    <3>3. QED  BY <3>1, <3>2, LivePlaced
  <2>3. QED  BY <2>1, <2>2
<1>8. New(j.inode) = {} /\ Ripe(p, j.inode)  BY <1>3, <1>6, EntryRipe
<1>9. ASSUME j.inode2 # NULL
      PROVE  /\ j.slot2 # NULL /\ <<j.dir2, s2>> \in Entries(j.inode2)
             /\ New(j.inode2) = {} /\ Ripe(p, j.inode2)
  <2>1. j.inode2 \in Ino  BY <1>3, <1>9 DEF Ref
  <2>2. <<j.dir2, s2>> \in Entries(j.inode2)  BY <1>2, <1>4, <1>5, <1>7 DEF Entries
  <2>3. QED  BY <1>3, <1>9, <2>1, <2>2, EntryRipe
<1>10. \A k \in Ino : p \notin New(k) /\ p \notin Late(k)
  <2>1. \A k \in Ino : k # NULL  BY DEF Ino, NULL
  <2>2. QED  BY <1>2, <2>1 DEF New, Late
<1>11. QED  BY <1>2, <1>3, <1>4, <1>5, <1>6, <1>7, <1>8, <1>9, <1>10

LEMMA OutView ==
  ASSUME Fits, IInv', NEW p \in Proc, NEW o, EntryStep(p, Out, o),
         \A k \in Ino : p \notin New(k) /\ p \notin Late(k)
  PROVE  /\ \A k \in Ino : New(k)' = New(k) /\ Late(k)' = Late(k)
         /\ \A k \in Ino : Live(k)' <=> (kind[k] = "dir" /\ nlink'[k] > 0)
         /\ \A k \in Ino : kind'[k] = kind[k] \/ kind'[k] = "free"
         /\ \A k \in Ino : kind'[k] = "free" => nlink'[k] = 0 /\ count'[k] = 0
PROOF
<1>1. /\ \A k \in Ino : New(k)' = New(k) \ {p}
      /\ \A k \in Ino : Late(k)' = (Late(k) \ {p}) \cup (IF Linking(Out) = k THEN {p} ELSE {})
      /\ \A k \in Ino : Live(k)' <=> (kind[k] = "dir" /\ nlink'[k] > 0)
      /\ \A k \in Ino : kind'[k] = kind[k] \/ kind'[k] = "free"
      /\ \A k \in Ino : kind'[k] = "free" => nlink'[k] = 0 /\ count'[k] = 0
  BY EntryStepView
<1>2. \A k \in Ino : Linking(Out) # k  BY OutReady DEF Ino, NULL
<1>3. \A k \in Ino : New(k)' = New(k)  BY <1>1
<1>4. \A k \in Ino : Late(k)' = Late(k)  BY <1>1, <1>2
<1>5. QED  BY <1>1, <1>3, <1>4

LEMMA RenameFile ==
  ASSUME Fits, IInv', NEW p \in Proc, NEW o, EntryStep(p, Out, o), QuietNow(p),
         \A k \in Ino : p \notin New(k) /\ p \notin Late(k),
         NEW d, NEW d2, NEW s, NEW s2, NEW i, NEW i2, NEW name, EntryMoves(d, s, i, d2, s2, i2, name),
         Placed(d), Placed(d2), kind[i] \in {"file", "link"}, i2 # NULL => kind[i2] \in {"file", "link"} /\ New(i2) = {},
         parent' = parent, \A k \in Ino : nlink'[k] = nlink[k] - (IF k = i2 THEN 1 ELSE 0)
  PROVE  FsFits' /\ \A k \in Ino : Live(k)' <=> Live(k)
PROOF
<1>1. /\ \A k \in Ino : New(k)' = New(k) /\ Late(k)' = Late(k)
      /\ \A k \in Ino : Live(k)' <=> (kind[k] = "dir" /\ nlink'[k] > 0)
  BY OutView
<1>2. \A k \in Ino : nlink[k] \in Int  BY FitsHas DEF FsTyped
<1>3. \A k \in Ino : k # i2 => nlink'[k] = nlink[k]  BY <1>2
<1>4. \A k \in Ino : k = i2 => nlink'[k] = nlink[k] - 1  BY <1>2
<1>5. \A k \in Ino : k = i2 => kind[k] # "dir"  BY DEF Ino, NULL
<1>6. \A k \in Ino : Live(k)' <=> Live(k)  BY <1>1, <1>3, <1>5 DEF Live
<1>7. i \in Ino /\ i2 \in Ref /\ i # i2 /\ <<d, s>> \in Entries(i)  BY DEF EntryMoves
<1>8. /\ Entries(i)' = (Entries(i) \ {<<d, s>>}) \cup {<<d2, s2>>}
      /\ Cardinality(Entries(i)') = Cardinality(Entries(i))
      /\ i2 # NULL => /\ <<d2, s2>> \in Entries(i2)
                      /\ Cardinality(Entries(i2)') = Cardinality(Entries(i2)) - 1
      /\ \A k \in Ino : k \notin {i, i2} => Entries(k)' = Entries(k)
      /\ \A k \in Ino : k \notin {d, d2} => entry'[k] = entry[k]
  BY <1>6, MovedEntries
<1>9. \A k \in Ino : Late(k) = {} /\ Late(k)' = {}  BY <1>1, QuietLate
<1>10. New(i) = {}  BY <1>7, EntryRipe
<1> DEFINE F == {k \in Ino : k \in {i, i2}}
<1>11. ASSUME NEW k \in F PROVE FileRight(k)' /\ kind[k] \in {"file", "link"}
  <2>1. k \in Ino /\ kind[k] \in {"file", "link"} /\ New(k) = {} /\ New(k)' = {} /\ Late(k)' = {}
        /\ Late(k) = {}
    BY <1>1, <1>7, <1>9, <1>10 DEF Ino, NULL
  <2>2. nlink[k] + Cardinality(Late(k)) = Cardinality(Entries(k)) + Cardinality(New(k))
    BY <2>1, FitsHas DEF LinksRight
  <2>3. Cardinality({}) = 0 /\ Cardinality(Entries(k)) \in Nat /\ nlink[k] \in Int
    BY <1>2, <2>1, Finite, FS_EmptySet
  <2>4. nlink'[k] = Cardinality(Entries(k)')
    <3>1. CASE k = i
      <4>1. k # i2  BY <1>7, <3>1
      <4>2. nlink'[k] = nlink[k]  BY <1>3, <2>1, <4>1
      <4>3. Cardinality(Entries(k)') = Cardinality(Entries(k))  BY <1>8, <3>1
      <4>4. QED  BY <2>1, <2>2, <2>3, <4>2, <4>3
    <3>2. CASE k = i2
      <4>1. i2 # NULL  BY <2>1, <3>2 DEF Ino, NULL
      <4>2. QED  BY <1>4, <1>8, <2>1, <2>2, <2>3, <3>2, <4>1
    <3>3. QED  BY <3>1, <3>2
  <2>5. nlink'[k] + Cardinality(Late(k)') = Cardinality(Entries(k)') + Cardinality(New(k)')
    <3>1. nlink'[k] \in Int  BY <1>3, <1>4, <2>1, <2>3
    <3>2. QED  BY <2>1, <2>3, <2>4, <3>1
  <2>6. FileRight(k)'  BY <2>1, <2>5, CountedRight
  <2>7. QED  BY <2>1, <2>6
<1>12. F \in SUBSET Ino /\ \A k \in F : kind[k] \in {"file", "link"} /\ FileRight(k)'
  <2>1. \A k \in F : kind[k] \in {"file", "link"}  BY <1>11
  <2>2. ASSUME NEW k \in F PROVE FileRight(k)'  BY <1>11
  <2>3. QED  BY <2>1, <2>2
<1>13. \A k \in Ino \ F : /\ Entries(k)' = Entries(k) /\ nlink'[k] = nlink[k]
                          /\ New(k)' = New(k) /\ Late(k)' = Late(k)
  BY <1>1, <1>3, <1>8
<1>14. \A k \in Ino : ~Placed(k) => entry'[k] = entry[k]  BY <1>8
<1> HIDE DEF F
<1>15. FsFits'  BY <1>12, <1>13, <1>14, FilesFsFits
<1>16. QED  BY <1>6, <1>15

NotAbove(j, i, d2) == j.inode = i /\ j.dir2 = d2 /\ Passed(j, {})
Reparented(i, d2) == parent' = [parent EXCEPT ![i] = d2]

LEMMA RenameDir ==
  ASSUME Fits, IInv', NEW p \in Proc, NEW o, EntryStep(p, Out, o),
         \A k \in Ino : p \notin New(k) /\ p \notin Late(k),
         NEW d, NEW d2, NEW s, NEW s2, NEW i, NEW i2, NEW name, EntryMoves(d, s, i, d2, s2, i2, name), i2 \notin Ino,
         Placed(d), Placed(d2), kind[i] = "dir",
         NEW j, NotAbove(j, i, d2), Reparented(i, d2),
         \A k \in Ino : nlink'[k] = nlink[k] + (IF k = d2 THEN 1 ELSE 0) - (IF k = d THEN 1 ELSE 0)
  PROVE  FsFits' /\ \A k \in Ino : Live(k)' <=> Live(k)
PROOF
<1>1. /\ \A k \in Ino : New(k)' = New(k) /\ Late(k)' = Late(k)
      /\ \A k \in Ino : Live(k)' <=> (kind[k] = "dir" /\ nlink'[k] > 0)
      /\ \A k \in Ino : kind'[k] = kind[k] \/ kind'[k] = "free"
      /\ \A k \in Ino : kind'[k] = "free" => nlink'[k] = 0 /\ count'[k] = 0
  BY OutView
<1>2. d \in Ino /\ d2 \in Ino /\ s2 \in Slot /\ i \in Ino /\ <<d, s>> \in Entries(i)  BY DEF EntryMoves
<1>3. Placed(i) /\ i # ROOT  BY <1>2, FitsHas DEF LinksRight, RootFits
<1>4. Entries(i) = {<<d, s>>} /\ parent[i] = d
  <2>1. \E x \in Slot : Entries(i) = {<<parent[i], x>>}  BY <1>2, <1>3, FitsHas DEF IsTree
  <2>2. QED  BY <1>2, <2>1
<1>5. parent'[i] = d2 /\ \A k \in Ino : k # i => parent'[k] = parent[k]
  BY <1>2, FitsHas DEF FsTyped, Reparented
<1>6. PICK E \in SUBSET {k \in Ino : Placed(k)} :
        i \notin E /\ d2 \in E /\ \A k \in E : parent[k] \in E
  BY DEF Passed, NotAbove
<1>7. \A k \in Ino : /\ nlink[k] \in Int /\ nlink'[k] \in Int
                     /\ Cardinality(Entries(k)) \in Nat /\ Cardinality(Inside(k)) \in Nat
                     /\ IsFiniteSet(Inside(k))
  <2>1. \A k \in Ino : nlink[k] \in Int  BY FitsHas DEF FsTyped
  <2>2. QED  BY <2>1, Finite
<1>8. \A k \in Ino : Live(k)' <=> Live(k)
  <2> SUFFICES ASSUME NEW k \in Ino, kind[k] = "dir" PROVE nlink'[k] > 0 <=> nlink[k] > 0
    BY <1>1 DEF Live
  <2>1. CASE k = d
    <3>1. nlink[k] = Cardinality(Entries(k)) + 1 + Cardinality(Inside(k))
      BY <2>1, FitsHas DEF LinksRight
    <3>2. i \in Inside(k)  BY <1>2, <1>3, <1>4, <2>1 DEF Inside
    <3>3. Cardinality(Inside(k)) >= 1  BY <3>2, Finite, AtLeastOne
    <3>4. QED  BY <1>7, <2>1, <3>1, <3>3
  <2>2. CASE k = d2
    <3>1. nlink[k] > 0  BY <2>2 DEF Placed, Live
    <3>2. QED  BY <1>7, <2>1, <2>2, <3>1
  <2>3. CASE k # d /\ k # d2
    <3>1. nlink'[k] = nlink[k] + 0 - 0  BY <2>3
    <3>2. QED  BY <1>7, <3>1
  <2>4. QED  BY <2>1, <2>2, <2>3
<1>9. \A k \in Ino : Placed(k)' <=> Placed(k)  BY <1>1, <1>8 DEF Placed
<1>10. /\ Entries(i)' = (Entries(i) \ {<<d, s>>}) \cup {<<d2, s2>>}
       /\ Cardinality(Entries(i)') = Cardinality(Entries(i))
       /\ i2 # NULL => /\ <<d2, s2>> \in Entries(i2)
                       /\ Cardinality(Entries(i2)') = Cardinality(Entries(i2)) - 1
       /\ \A k \in Ino : k \notin {i, i2} => Entries(k)' = Entries(k)
       /\ \A k \in Ino : k \notin {d, d2} => entry'[k] = entry[k]
  BY <1>8, MovedEntries
<1>11. Entries(i)' = {<<d2, s2>>} /\ \A k \in Ino : k # i => Entries(k)' = Entries(k)
  <2>1. \A k \in Ino : k # i2  OBVIOUS
  <2>2. QED  BY <1>4, <1>10, <2>1
<1>12. \A k \in Ino : Cardinality(Entries(k)') = Cardinality(Entries(k))  BY <1>10, <1>11
<1>13. \A k \in Ino : Inside(k)' = IF k = d2 THEN Inside(k) \cup {i} ELSE Inside(k) \ {i}
  BY <1>2, <1>3, <1>5, <1>9 DEF Inside
<1>14. \A k \in Ino : i \in Inside(k) <=> k = d  BY <1>2, <1>3, <1>4 DEF Inside
<1>15. \A k \in Ino : Cardinality(Inside(k)') = Cardinality(Inside(k))
                        + (IF k = d2 THEN 1 ELSE 0) - (IF k = d THEN 1 ELSE 0)
  <2> SUFFICES ASSUME NEW k \in Ino
               PROVE  Cardinality(Inside(k)') = Cardinality(Inside(k))
                        + (IF k = d2 THEN 1 ELSE 0) - (IF k = d THEN 1 ELSE 0)
    OBVIOUS
  <2>1. CASE k = d /\ k = d2
    <3>1. Inside(k)' = Inside(k) \cup {i}  BY <1>13, <2>1
    <3>2. i \in Inside(k)  BY <1>14, <2>1
    <3>3. Inside(k)' = Inside(k)  BY <3>1, <3>2
    <3>4. QED  BY <1>7, <2>1, <3>3
  <2>2. CASE k = d /\ k # d2
    <3>1. Inside(k)' = Inside(k) \ {i}  BY <1>13, <2>2
    <3>2. i \in Inside(k) /\ IsFiniteSet(Inside(k))  BY <1>7, <1>14, <2>2
    <3>3. Cardinality(Inside(k) \ {i}) = Cardinality(Inside(k)) - 1  BY <3>2, FS_RemoveElement
    <3>4. QED  BY <1>7, <2>2, <3>1, <3>3
  <2>3. CASE k # d /\ k = d2
    <3>1. Inside(k)' = Inside(k) \cup {i}  BY <1>13, <2>3
    <3>2. i \notin Inside(k) /\ IsFiniteSet(Inside(k))  BY <1>7, <1>14, <2>3
    <3>3. Cardinality(Inside(k) \cup {i}) = Cardinality(Inside(k)) + 1  BY <3>2, FS_AddElement
    <3>4. QED  BY <1>7, <2>3, <3>1, <3>3
  <2>4. CASE k # d /\ k # d2
    <3>1. Inside(k)' = Inside(k) \ {i} /\ i \notin Inside(k)
      <4>1. Inside(k)' = Inside(k) \ {i}  BY <1>13, <2>4
      <4>2. i \notin Inside(k)  BY <1>14, <2>4
      <4>3. QED  BY <4>1, <4>2
    <3>2. Inside(k)' = Inside(k)  BY <3>1
    <3>3. QED  BY <1>7, <2>4, <3>2
  <2>5. QED  BY <2>1, <2>2, <2>3, <2>4
<1>16. RootFits'
  <2>1. ROOT \in Ino  BY RootPlaced
  <2>2. QED  BY <1>3, <1>5, <1>8, <1>11, <2>1, FitsHas DEF RootFits
<1>17. InodesFit'
  <2> SUFFICES ASSUME NEW k \in Ino
               PROVE  /\ kind'[k] = "free" => nlink'[k] = 0 /\ count'[k] = 0
                      /\ ~Placed(k)' => empty_dir(k)'
                      /\ New(k)' # {} => Entries(k)' = {}
                      /\ Placed(k)' => Placed(parent[k])'
    BY DEF InodesFit
  <2>1. ~Placed(k)' => empty_dir(k)'
    <3>1. ~Placed(k)' => empty_dir(k) /\ k # d /\ k # d2  BY <1>9, FitsHas DEF InodesFit
    <3>2. QED  BY <1>10, <3>1 DEF empty_dir
  <2>2. New(k)' # {} => Entries(k)' = {}
    <3>1. New(i) = {}  BY <1>3 DEF Placed
    <3>2. QED  BY <1>1, <1>11, <3>1, FitsHas DEF InodesFit
  <2>3. Placed(k)' => Placed(parent[k])'
    <3>1. CASE k = i
      <4>1. Placed(d2)' /\ d2 = parent'[k]  BY <1>2, <1>5, <1>9, <3>1
      <4>2. QED  BY <4>1, PlacedThere
    <3>2. CASE k # i /\ Placed(k)'
      <4> PICK m : m = parent[k]  OBVIOUS
      <4>1. m \in Ino /\ Placed(m)  BY <1>9, <3>2, PlacedRipe
      <4>2. Placed(m)' /\ m = parent'[k]  BY <1>5, <1>9, <3>2, <4>1
      <4>3. QED  BY <4>2, PlacedThere
    <3>3. QED  BY <3>1, <3>2
  <2>4. QED  BY <1>1, <2>1, <2>2, <2>3
<1>18. LinksRight'
  <2> SUFFICES ASSUME NEW k \in Ino
               PROVE  /\ Entries(k)' # {} => kind'[k] \in {"file", "link"} \/ Placed(k)'
                      /\ kind'[k] \in {"file", "link"}
                           => nlink'[k] + Cardinality(Late(k)') = Cardinality(Entries(k)') + Cardinality(New(k)')
                      /\ Placed(k)' => nlink'[k] = Cardinality(Entries(k)') + 1 + Cardinality(Inside(k)')
    BY DEF LinksRight
  <2>1. CASE Placed(k)
    <3>1. Placed(k)' /\ kind'[k] \notin {"file", "link"}
      <4>1. kind[k] = "dir"  BY <2>1 DEF Placed, Live
      <4>2. QED  BY <1>1, <1>9, <2>1, <4>1
    <3>2. nlink[k] = Cardinality(Entries(k)) + 1 + Cardinality(Inside(k))
      BY <2>1, FitsHas DEF LinksRight
    <3>3. nlink'[k] = nlink[k] + (IF k = d2 THEN 1 ELSE 0) - (IF k = d THEN 1 ELSE 0)  OBVIOUS
    <3>4. nlink'[k] = Cardinality(Entries(k)') + 1 + Cardinality(Inside(k)')
      BY <1>7, <1>12, <1>15, <3>2, <3>3
    <3>5. QED  BY <3>1, <3>4
  <2>2. CASE ~Placed(k)
    <3>1. k # d /\ k # d2 /\ k # i  BY <1>3, <2>2
    <3>2. nlink'[k] = nlink[k] + 0 - 0  BY <3>1
    <3>3. Inside(k)' = Inside(k)
      <4>1. Inside(k)' = Inside(k) \ {i}  BY <1>13, <3>1
      <4>2. i \notin Inside(k)  BY <1>14, <3>1
      <4>3. QED  BY <4>1, <4>2
    <3>4. /\ Entries(k)' = Entries(k) /\ Inside(k)' = Inside(k) /\ nlink'[k] = nlink[k]
          /\ New(k)' = New(k) /\ Late(k)' = Late(k)
      BY <1>1, <1>7, <1>11, <3>1, <3>2, <3>3
    <3>5. QED  BY <3>4, SameLinks
  <2>3. QED  BY <2>1, <2>2
<1>19. IsTree'
  <2>1. \A k \in Ino \ {ROOT} : Placed(k)' => \E x \in Slot : Entries(k)' = {<<parent'[k], x>>}
    <3> SUFFICES ASSUME NEW k \in Ino \ {ROOT}, Placed(k)'
                 PROVE  \E x \in Slot : Entries(k)' = {<<parent'[k], x>>}
      OBVIOUS
    <3>1. CASE k = i  BY <1>2, <1>5, <1>11, <3>1
    <3>2. CASE k # i
      <4>1. \E x \in Slot : Entries(k) = {<<parent[k], x>>}  BY <1>9, FitsHas DEF IsTree
      <4>2. QED  BY <1>5, <1>11, <3>2, <4>1
    <3>3. QED  BY <3>1, <3>2
  <2>2. ASSUME NEW D \in SUBSET {k \in Ino : Placed(k)'}, D # {}, \A k \in D : parent'[k] \in D
        PROVE  ROOT \in D
    <3>1. D \in SUBSET {k \in Ino : Placed(k)}  BY <1>9
    <3>2. CASE i \notin D
      <4>1. \A k \in D : parent[k] \in D  BY <1>5, <2>2, <3>1, <3>2
      <4>2. QED  BY <2>2, <3>1, <4>1, FitsHas DEF IsTree
    <3>3. CASE i \in D
      <4> DEFINE B == D \cap E
      <4>1. B \in SUBSET {k \in Ino : Placed(k)} /\ d2 \in B  BY <1>5, <1>6, <2>2, <3>1, <3>3
      <4>2. \A k \in B : parent[k] \in B
        <5> SUFFICES ASSUME NEW k \in D, k \in E PROVE parent[k] \in D /\ parent[k] \in E  OBVIOUS
        <5>1. k # i /\ k \in Ino  BY <1>6, <3>1
        <5>2. parent'[k] = parent[k]  BY <1>5, <5>1
        <5>3. QED  BY <1>6, <2>2, <5>2
      <4> HIDE DEF B
      <4>3. ROOT \in B  BY <4>1, <4>2, FitsHas DEF IsTree
      <4>4. QED  BY <4>3 DEF B
    <3>4. QED  BY <3>2, <3>3
  <2>3. QED  BY <2>1, <2>2 DEF IsTree
<1>20. QED  BY <1>8, <1>16, <1>17, <1>18, <1>19 DEF FsFits

(* The rename is done. *)
Renames(p, j, s2) ==
  /\ entry' = [Cleared(j.dir, j.slot) EXCEPT ![j.dir2][s2] = [name |-> j.name2, ino |-> j.inode]]
  /\ parent' = IF kind[j.inode] = "dir" THEN [parent EXCEPT ![j.inode] = j.dir2] ELSE parent
  /\ Return(p, DirMoved(IF j.inode2 = NULL THEN nlink
                        ELSE [nlink EXCEPT ![j.inode2] = @ - 1], j), kind)
  /\ overdir' = (overdir \/ (j.inode2 # NULL /\ kind[j.inode2] = "dir"))
  /\ UNCHANGED <<target, open, calls>>

LEMMA RenamesKeeps ==
  ASSUME Fits, IInv', NEW p \in Proc, At(p, "sanity"), QuietNow(p), NEW j, j = job[p],
         NEW s2, s2 = SecondSlot(j), j.slot2 # NULL \/ Unused(j.dir2) # {}, Sane(j, s2),
         Renames(p, j, s2)
  PROVE  overdir' \/ Fits'
PROOF
<1> PICK d : d = j.dir  OBVIOUS
<1> PICK d2 : d2 = j.dir2  OBVIOUS
<1> PICK s : s = j.slot  OBVIOUS
<1> PICK i : i = j.inode  OBVIOUS
<1> PICK i2 : i2 = j.inode2  OBVIOUS
<1> PICK name : name = j.name2  OBVIOUS
<1> SUFFICES ASSUME ~overdir' PROVE Fits'
  OBVIOUS
<1>1. /\ d \in Ino /\ d2 \in Ino /\ s \in Slot /\ s2 \in Slot
      /\ i \in Ino /\ i2 \in Ref /\ i # i2
      /\ <<d, s>> \in Entries(i) /\ Placed(d) /\ Placed(d2) /\ Live(d2)
      /\ entry[d2][s2].ino = i2 /\ lock = p
      /\ New(i) = {} /\ Ripe(p, i)
      /\ i2 # NULL => /\ j.slot2 # NULL /\ <<d2, s2>> \in Entries(i2)
                      /\ New(i2) = {} /\ Ripe(p, i2)
      /\ \A k \in Ino : p \notin New(k) /\ p \notin Late(k)
  BY SaneHas
<1>2. EntryMoves(d, s, i, d2, s2, i2, name)  BY <1>1 DEF EntryMoves, Renames
<1>3. i2 # NULL => kind[i2] \in {"file", "link"}
  <2> SUFFICES ASSUME i2 # NULL PROVE kind[i2] \in {"file", "link"}  OBVIOUS
  <2>1. i2 \in Ino /\ Entries(i2) # {}  BY <1>1 DEF Ref
  <2>2. kind[i2] # "dir"  BY DEF Renames
  <2>3. QED  BY <2>1, <2>2, FitsHas DEF LinksRight, Placed, Live
<1>4. /\ job' = [job EXCEPT ![p] = Out] /\ open' = [open EXCEPT ![p] = open[p]]
      /\ kind' = Freed(count', nlink', kind) /\ lock' = NoProc /\ KeepsLocks(p)
  <2>1. open' = open /\ TypeOK /\ ~overdir  BY FitsHas DEF Renames, Fits
  <2>2. lock' = NoProc /\ job' = [job EXCEPT ![p] = Out] /\ kind' = Freed(count', nlink', kind)
    BY <1>1 DEF Renames, Return
  <2>3. KeepsLocks(p)  BY <1>1 DEF KeepsLocks
  <2>4. open' = [open EXCEPT ![p] = open[p]]  BY <2>1 DEF TypeOK
  <2>5. QED  BY <2>2, <2>3, <2>4
<1>5. \A k \in Ino : nlink[k] \in Int  BY FitsHas DEF FsTyped
<1>6. open[p] = NULL \/ Ripe(p, open[p])  BY HeldRipe
<1>7. (\A k \in Ino : ~Ripe(p, k) => nlink'[k] = nlink[k] /\ parent'[k] = parent[k])
         => EntryStep(p, Out, open[p])
  BY <1>4, <1>6, OutFits, OutReady DEF EntryStep
<1>8. kind[i] = "dir" \/ kind[i] \in {"file", "link"}  BY <1>1, FitsHas DEF LinksRight, Placed, Live
<1>9. EntryStep(p, Out, open[p]) /\ FsFits' /\ \A k \in Ino : Live(k)' <=> Live(k)
  <2>1. CASE kind[i] \in {"file", "link"}
    <3>1. /\ parent' = parent
          /\ nlink' = IF i2 = NULL THEN nlink ELSE [nlink EXCEPT ![i2] = @ - 1]
      BY <2>1 DEF Renames, Return, DirMoved
    <3>2. \A k \in Ino : nlink'[k] = nlink[k] - (IF k = i2 THEN 1 ELSE 0)
      <4> SUFFICES ASSUME NEW k \in Ino PROVE nlink'[k] = nlink[k] - (IF k = i2 THEN 1 ELSE 0)
        OBVIOUS
      <4>1. CASE i2 = NULL  BY <1>5, <3>1, <4>1 DEF Ino, NULL
      <4>2. CASE i2 # NULL  BY <1>5, <3>1, <4>2, FitsHas DEF FsTyped
      <4>3. QED  BY <4>1, <4>2
    <3>3. \A k \in Ino : ~Ripe(p, k) => nlink'[k] = nlink[k] /\ parent'[k] = parent[k]
      <4>1. \A k \in Ino : ~Ripe(p, k) => k # i2  BY <1>1 DEF Ino, NULL
      <4>2. QED  BY <1>5, <3>1, <3>2, <4>1
    <3>4. EntryStep(p, Out, open[p])  BY <1>7, <3>3
    <3>5. \A k \in Ino : p \notin New(k) /\ p \notin Late(k)  BY <1>1
    <3>6. i2 # NULL => kind[i2] \in {"file", "link"} /\ New(i2) = {}  BY <1>1, <1>3
    <3>7. Placed(d) /\ Placed(d2)  BY <1>1
    <3>8. parent' = parent  BY <3>1
    <3>9. FsFits' /\ \A k \in Ino : Live(k)' <=> Live(k)
      BY <1>2, <2>1, <3>2, <3>4, <3>5, <3>6, <3>7, <3>8, RenameFile
    <3>10. QED  BY <3>4, <3>9
  <2>2. CASE kind[i] = "dir"
    <3>1. j.slot2 = NULL /\ Passed(j, {})
      <4>1. RenameFits(j) /\ j.at = "sanity"  BY FitsHas DEF JobFits, At
      <4>2. QED  BY <1>1, <2>2, <4>1 DEF RenameFits
    <3>2. i2 = NULL /\ i2 \notin Ino  BY <1>1, <3>1 DEF Ino, NULL
    <3>3. /\ parent' = [parent EXCEPT ![i] = d2]
          /\ nlink' = [k \in Ino |-> nlink[k] + (IF k = d2 THEN 1 ELSE 0) - (IF k = d THEN 1 ELSE 0)]
      BY <2>2, <3>2 DEF Renames, Return, DirMoved
    <3>4. NotAbove(j, i, d2) /\ Reparented(i, d2)  BY <3>1, <3>3 DEF NotAbove, Reparented
    <3>5. \A k \in Ino : nlink'[k] = nlink[k] + (IF k = d2 THEN 1 ELSE 0) - (IF k = d THEN 1 ELSE 0)
      BY <3>3
    <3>6. \A k \in Ino : ~Ripe(p, k) => nlink'[k] = nlink[k] /\ parent'[k] = parent[k]
      <4> SUFFICES ASSUME NEW k \in Ino, ~Ripe(p, k) PROVE nlink'[k] = nlink[k] /\ parent'[k] = parent[k]
        OBVIOUS
      <4>1. Ripe(p, d) /\ Ripe(p, d2)  BY <1>1, PlacedRipe
      <4>2. k # i /\ k # d /\ k # d2  BY <1>1, <4>1
      <4>3. nlink'[k] = nlink[k] + 0 - 0  BY <3>5, <4>2
      <4>4. parent'[k] = parent[k]  BY <3>3, <4>2, FitsHas DEF FsTyped
      <4>5. QED  BY <1>5, <4>3, <4>4
    <3>7. EntryStep(p, Out, open[p])  BY <1>7, <3>6
    <3>8. \A k \in Ino : p \notin New(k) /\ p \notin Late(k)  BY <1>1
    <3>9. Placed(d) /\ Placed(d2) /\ i2 \notin Ino  BY <1>1, <3>2
    <3>10. FsFits' /\ \A k \in Ino : Live(k)' <=> Live(k)
      BY <1>2, <2>2, <3>4, <3>5, <3>7, <3>8, <3>9, RenameDir
    <3>11. QED  BY <3>7, <3>10
  <2>3. QED  BY <1>8, <2>1, <2>2
<1>10. \A k \in Ino : OthersHold(p, k) => (Live(k)' <=> Live(k))  BY <1>9
<1>11. lock = p /\ QuietNow(p)  BY <1>1
<1>12. Leaves(p)  BY <1>4, <1>9, <1>10, <1>11, EntryLeaves
<1>13. JobFits(p, Out)'  BY OutJobFits
<1>14. JobsFit'
  <2>1. job'[p] = Out /\ InodesFit'  BY <1>9, EntryStepView DEF FsFits
  <2>2. ASSUME NEW q \in Proc \ {p} PROVE JobFits(q, job[q])'  BY <1>12, <2>1, OthersFit
  <2>3. JobFits(p, job[p])'
    <3>1. QED  BY <1>13, <2>1 DEF JobFits
  <2>4. QED  BY <2>2, <2>3 DEF JobsFit
<1>15. QED  BY <1>9, <1>14 DEF Fits

LEMMA RenameKeeps ==
  ASSUME Fits, IInv', ~Races, NEW p \in Proc, Rename(p)
  PROVE  overdir' \/ Fits'
PROOF
<1>1. TypeOK  BY FitsHas
<1>2. PICK j \in Job : j = job[p]  BY FitsHas
<1>3. j.at = "sanity" /\ j.at \in Renaming /\ At(p, "sanity") /\ QuietNow(p)
  BY <1>2 DEF Rename, At, Renaming, Quiet, QuietNow
<1>4. lock = p /\ j.op = "rename" /\ Making(j) = NULL /\ Linking(j) = NULL
  BY <1>2, <1>3, RenamerHas
<1>5. CASE Fail(p)  BY <1>2, <1>4, <1>5, EndsFit
<1> PICK s2 : s2 = SecondSlot(j)  OBVIOUS
<1>6. CASE /\ j.slot2 # NULL \/ Unused(j.dir2) # {}
           /\ Sane(j, s2) /\ Renames(p, j, s2)
  BY <1>2, <1>3, <1>6, RenamesKeeps
<1> DEFINE r == [j EXCEPT !.at = "old", !.inode = NULL, !.inode2 = NULL,
                          !.slot = NULL, !.slot2 = NULL, !.ino = NULL]
<1>7. CASE /\ kind' = Freed(count', nlink, kind) /\ job' = [job EXCEPT ![p] = r]
           /\ UNCHANGED <<nlink, entry, parent, target, open, lock, calls, overdir>>
  <2>1. r.at = "old" /\ r.op = j.op /\ r.dir = j.dir /\ r.dir2 = j.dir2 /\ Takes(j, r, NULL)
    BY DEF Job, Takes
  <2> HIDE DEF r
  <2>2. Seen(r) /\ RenameFits(r) /\ r.at \in Renaming  BY <1>4, <2>1 DEF Seen, RenameFits, Renaming
  <2>3. lock' = p /\ KeepsLocks(p) /\ UNCHANGED <<nlink, entry, parent, open, overdir>>
    BY <1>4, <1>7 DEF KeepsLocks
  <2>4. QED  BY <1>2, <1>3, <1>4, <1>7, <2>1, <2>2, <2>3, RenamerGoesOn
<1>8. QED
  <2> HIDE DEF r
  <2>1. \/ Fail(p)
        \/ /\ j.slot2 # NULL \/ Unused(j.dir2) # {}
           /\ Sane(j, s2) /\ Renames(p, j, s2)
        \/ /\ kind' = Freed(count', nlink, kind) /\ job' = [job EXCEPT ![p] = r]
           /\ UNCHANGED <<nlink, entry, parent, target, open, lock, calls, overdir>>
    BY <1>2 DEF Rename, SecondSlot, Renames, r
  <2>2. QED  BY <1>5, <1>6, <1>7, <2>1

(***************************************************************************)
(* The files there are at first.                                           *)
(***************************************************************************)
PlantedIn(t, d) == {n \in DOMAIN t : t[n].dir = d}
Rank(t, n) == Cardinality({m \in PlantedIn(t, t[n].dir) : m <= n})

LEMMA TreeHas ==
  ASSUME NEW t \in Trees
  PROVE  /\ IsFiniteSet(DOMAIN t) /\ \A S \in SUBSET DOMAIN t : IsFiniteSet(S) /\ Cardinality(S) \in Nat
         /\ \A n \in DOMAIN t : /\ n \in Nat /\ n >= 1 /\ n + 1 \in Ino /\ n + 1 # ROOT
                                /\ t[n].kind \in {"file", "dir", "link"} /\ t[n].dir \in Ino /\ t[n].dir <= n
                                /\ t[n].dir = ROOT \/ (/\ t[n].dir - 1 \in DOMAIN t
                                                       /\ t[t[n].dir - 1].kind = "dir")
                                /\ Cardinality(PlantedIn(t, t[n].dir)) <= DIR_ENTRIES
PROOF
<1>1. t \in Seq(Planted) /\ Len(t) < NR_INODES /\ \A n \in 1..Len(t) : t[n].dir <= n
  BY PathsAssumption
<1>2. Len(t) \in Nat /\ DOMAIN t = 1..Len(t) /\ \A n \in DOMAIN t : t[n] \in Planted  BY <1>1
<1>3. IsFiniteSet(DOMAIN t)  BY <1>2, FS_Interval
<1>4. \A S \in SUBSET DOMAIN t : IsFiniteSet(S) /\ Cardinality(S) \in Nat
  BY <1>3, FS_Subset, FS_CardinalityType
<1>5. \A n \in DOMAIN t : n \in Nat /\ n >= 1 /\ n + 1 \in Ino /\ n + 1 # ROOT
  BY <1>1, <1>2, NamesAssumption DEF Ino, ROOT
<1>6. \A n \in DOMAIN t : t[n].kind \in {"file", "dir", "link"} /\ t[n].dir \in Ino
  BY <1>2 DEF Planted
<1>7. ASSUME NEW n \in DOMAIN t
      PROVE  /\ t[n].dir <= n
             /\ t[n].dir = ROOT \/ (t[n].dir - 1 \in DOMAIN t /\ t[t[n].dir - 1].kind = "dir")
             /\ Cardinality(PlantedIn(t, t[n].dir)) <= DIR_ENTRIES
  <2>1. t[n].dir <= n /\ t[n].dir \in Ino  BY <1>1, <1>2, <1>6
  <2>2. /\ t[n].dir = ROOT \/ t[t[n].dir - 1].kind = "dir"
        /\ Cardinality(PlantedIn(t, t[n].dir)) <= DIR_ENTRIES
    BY <1>2, TreesAssumption DEF PlantedIn
  <2>3. t[n].dir # ROOT => t[n].dir - 1 \in DOMAIN t
    BY <1>2, <2>1, NamesAssumption DEF Ino, ROOT
  <2>4. QED  BY <2>1, <2>2, <2>3
<1>8. QED  BY <1>3, <1>4, <1>5, <1>6, <1>7

(* Each has a slot of its own. *)
LEMMA Ranked ==
  ASSUME NEW t \in Trees, NEW n \in DOMAIN t
  PROVE  /\ Rank(t, n) \in Slot
         /\ \A m \in PlantedIn(t, t[n].dir) : Rank(t, m) = Rank(t, n) => m = n
PROOF
<1> PICK d : d = t[n].dir  OBVIOUS
<1> DEFINE UpTo(k) == {m \in PlantedIn(t, d) : m <= k}
<1>1. PlantedIn(t, d) \in SUBSET DOMAIN t  BY DEF PlantedIn
<1>2. \A k : /\ UpTo(k) \in SUBSET PlantedIn(t, d) /\ UpTo(k) \in SUBSET DOMAIN t
             /\ IsFiniteSet(UpTo(k)) /\ Cardinality(UpTo(k)) \in Nat
  <2>1. \A k : UpTo(k) \in SUBSET PlantedIn(t, d) /\ UpTo(k) \in SUBSET DOMAIN t  BY <1>1
  <2> HIDE DEF UpTo
  <2>2. QED  BY <2>1, TreeHas
<1>3. \A k \in PlantedIn(t, d) : /\ k \in DOMAIN t /\ k \in Nat /\ Rank(t, k) = Cardinality(UpTo(k))
                                 /\ k \in UpTo(k)
  <2> SUFFICES ASSUME NEW k \in PlantedIn(t, d)
               PROVE  /\ k \in DOMAIN t /\ k \in Nat /\ Rank(t, k) = Cardinality(UpTo(k))
                      /\ k \in UpTo(k)
    OBVIOUS
  <2>1. k \in DOMAIN t /\ t[k].dir = d  BY DEF PlantedIn
  <2>2. k \in Nat /\ k <= k
    <3>1. k \in Nat  BY <2>1, TreeHas
    <3>2. QED  BY <3>1
  <2>3. Rank(t, k) = Cardinality(UpTo(k))  BY <2>1 DEF Rank
  <2>4. QED  BY <2>1, <2>2, <2>3
<1>4. n \in PlantedIn(t, d)  BY DEF PlantedIn
<1>5. Rank(t, n) \in Slot
  <2>1. UpTo(n) # {} /\ Rank(t, n) = Cardinality(UpTo(n))  BY <1>3, <1>4
  <2>2. Cardinality(UpTo(n)) # 0
    <3> HIDE DEF UpTo
    <3> QED  BY <1>2, <2>1, FS_EmptySet
  <2>3. Cardinality(PlantedIn(t, d)) <= DIR_ENTRIES  BY TreeHas
  <2>4. IsFiniteSet(PlantedIn(t, d)) /\ Cardinality(PlantedIn(t, d)) \in Nat  BY <1>1, TreeHas
  <2>5. Cardinality(UpTo(n)) <= Cardinality(PlantedIn(t, d))
    <3> HIDE DEF UpTo
    <3> QED  BY <1>2, <2>4, FS_Subset
  <2>6. Cardinality(UpTo(n)) \in Nat /\ DIR_ENTRIES \in Nat  BY <1>2, NamesAssumption
  <2> HIDE DEF UpTo
  <2>7. QED  BY <2>1, <2>2, <2>3, <2>4, <2>5, <2>6 DEF Slot
<1>6. ASSUME NEW a \in PlantedIn(t, d), NEW b \in PlantedIn(t, d), a < b
      PROVE  Cardinality(UpTo(a)) # Cardinality(UpTo(b))
  <2>1. a \in Nat /\ b \in Nat  BY <1>3
  <2>2. UpTo(a) \in SUBSET UpTo(b) /\ b \in UpTo(b) /\ b \notin UpTo(a)
    <3>1. \A m \in PlantedIn(t, d) : m \in Nat  BY <1>3
    <3>2. \A m \in PlantedIn(t, d) : m <= a => m <= b  BY <1>6, <2>1, <3>1
    <3>3. b <= b /\ ~(b <= a)  BY <1>6, <2>1
    <3>4. QED  BY <3>2, <3>3
  <2>3. IsFiniteSet(UpTo(b))  BY <1>2
  <2> HIDE DEF UpTo
  <2>4. Cardinality(UpTo(b)) = Cardinality(UpTo(a)) => UpTo(b) = UpTo(a)  BY <2>2, <2>3, FS_Subset
  <2>5. QED  BY <2>2, <2>4
<1>7. ASSUME NEW m \in PlantedIn(t, d), Rank(t, m) = Rank(t, n) PROVE m = n
  <2>1. m \in Nat /\ n \in Nat /\ Cardinality(UpTo(m)) = Cardinality(UpTo(n))  BY <1>3, <1>4, <1>7
  <2>2. ~(m < n) /\ ~(n < m)  BY <1>4, <1>6, <2>1
  <2>3. QED  BY <2>1, <2>2
<1>8. QED  BY <1>5, <1>7

Dirs(t, d) == {n \in PlantedIn(t, d) : t[n].kind = "dir"}
StandsFor(t) ==
  /\ \A n \in DOMAIN t : /\ kind[n + 1] = t[n].kind /\ parent[n + 1] = t[n].dir
                         /\ entry[t[n].dir][Rank(t, n)].ino = n + 1
  /\ kind[ROOT] = "dir" /\ parent[ROOT] = ROOT
  /\ \A i \in Ino : /\ i = ROOT \/ kind[i] = "free" \/ i - 1 \in DOMAIN t
                    /\ kind[i] = "dir" => nlink[i] = 2 + Cardinality(Dirs(t, i))
                    /\ kind[i] \in {"file", "link"} => nlink[i] = 1
                    /\ kind[i] = "free" => nlink[i] = 0
  /\ \A d \in Ino, s \in Slot :
       \/ entry[d][s].ino = NULL
       \/ \E n \in DOMAIN t : entry[d][s].ino = n + 1 /\ t[n].dir = d /\ Rank(t, n) = s

LEMMA InitStands == Init => \E t \in Trees : StandsFor(t)
PROOF
<1> SUFFICES ASSUME Init PROVE \E t \in Trees : StandsFor(t)  OBVIOUS
<1> DEFINE In(t, i) == {n \in DOMAIN t : t[n].dir = i}
           Nth(t, i, s) == {n \in In(t, i) : Cardinality({m \in In(t, i) : m <= n}) = s}
           Of(t, i) == IF i - 1 \in DOMAIN t THEN t[i - 1].kind ELSE IF i = ROOT THEN "dir" ELSE "free"
           Links(t, i) == CASE Of(t, i) = "dir" -> 2 + Cardinality({n \in In(t, i) : t[n].kind = "dir"})
                            [] Of(t, i) = "free" -> 0
                            [] OTHER -> 1
           At0(t, i, s) == IF Nth(t, i, s) = {} THEN NoEntry
                           ELSE [name |-> t[Min(Nth(t, i, s))].name, ino |-> Min(Nth(t, i, s)) + 1]
           Above(t, i) == IF i - 1 \in DOMAIN t THEN t[i - 1].dir ELSE ROOT
           Points(t, i) == IF i - 1 \in DOMAIN t THEN t[i - 1].target ELSE <<>>
<1>1. PICK t \in Trees :
        /\ kind = [i \in Ino |-> Of(t, i)] /\ nlink = [i \in Ino |-> Links(t, i)]
        /\ entry = [i \in Ino |-> [s \in Slot |-> At0(t, i, s)]]
        /\ parent = [i \in Ino |-> Above(t, i)] /\ target = [i \in Ino |-> Points(t, i)]
  BY DEF Init
<1>2. \A i \in Ino : kind[i] = Of(t, i) /\ nlink[i] = Links(t, i) /\ parent[i] = Above(t, i)
  <2> HIDE DEF Of, Links, Above
  <2> QED  BY <1>1
<1>3. \A i \in Ino, s \in Slot : entry[i][s] = At0(t, i, s)
  <2> HIDE DEF At0
  <2> QED  BY <1>1
<1>4. \A n \in DOMAIN t : /\ n \in Nat /\ n >= 1 /\ n + 1 \in Ino /\ n + 1 # ROOT /\ (n + 1) - 1 = n
                          /\ t[n].kind \in {"file", "dir", "link"} /\ t[n].dir \in Ino
  <2>1. \A n \in DOMAIN t : /\ n \in Nat /\ n >= 1 /\ n + 1 \in Ino /\ n + 1 # ROOT
                            /\ t[n].kind \in {"file", "dir", "link"} /\ t[n].dir \in Ino
    BY TreeHas
  <2>2. \A n \in Nat : (n + 1) - 1 = n  OBVIOUS
  <2>3. QED  BY <2>1, <2>2
<1>5. ROOT \in Ino /\ ROOT - 1 \notin DOMAIN t
  <2>1. ROOT - 1 = 0  BY DEF ROOT
  <2>2. \A n \in DOMAIN t : n # 0  BY <1>4
  <2>3. ROOT \in Ino  BY NamesAssumption DEF ROOT, Ino
  <2>4. QED  BY <2>1, <2>2, <2>3
<1>6. \A d \in Ino, s \in Slot : Nth(t, d, s) = {n \in PlantedIn(t, d) : Rank(t, n) = s}
  BY DEF PlantedIn, Rank
<1>7. ASSUME NEW d \in Ino, NEW s \in Slot, NEW n \in DOMAIN t, t[n].dir = d, Rank(t, n) = s
      PROVE  entry[d][s].ino = n + 1
  <2>1. n \in Nth(t, d, s) /\ Nth(t, d, s) \subseteq PlantedIn(t, d)  BY <1>6, <1>7 DEF PlantedIn
  <2>2. \A m \in Nth(t, d, s) : m = n  BY <1>6, <1>7, Ranked
  <2>3. Nth(t, d, s) \in SUBSET Nat /\ Nth(t, d, s) # {}
    <3> HIDE DEF Nth
    <3> QED  BY <1>4, <2>1, <2>2
  <2>4. Min(Nth(t, d, s)) = n
    <3> HIDE DEF Nth
    <3> QED  BY <2>2, <2>3, MinExists
  <2>5. At0(t, d, s) = [name |-> t[n].name, ino |-> n + 1]
    <3> HIDE DEF Nth
    <3> QED  BY <2>3, <2>4
  <2> HIDE DEF At0
  <2>6. QED  BY <1>3, <2>5
<1>8. ASSUME NEW d \in Ino, NEW s \in Slot
      PROVE  \/ entry[d][s].ino = NULL
             \/ \E n \in DOMAIN t : entry[d][s].ino = n + 1 /\ t[n].dir = d /\ Rank(t, n) = s
  <2>1. CASE Nth(t, d, s) = {}
    <3>1. At0(t, d, s) = NoEntry  BY <2>1
    <3>2. NoEntry.ino = NULL  BY DEF NoEntry
    <3>3. entry[d][s] = NoEntry
      <4> HIDE DEF At0
      <4> QED  BY <1>3, <3>1
    <3>4. QED  BY <3>2, <3>3
  <2>2. CASE Nth(t, d, s) # {}
    <3>1. PICK n : n \in Nth(t, d, s)  BY <2>2
    <3>2. n \in DOMAIN t /\ t[n].dir = d  BY <3>1
    <3>3. Rank(t, n) = s  BY <1>6, <3>1
    <3>4. entry[d][s].ino = n + 1  BY <1>7, <3>2, <3>3
    <3>5. QED  BY <3>2, <3>3, <3>4
  <2>3. QED  BY <2>1, <2>2
<1>9. ASSUME NEW n \in DOMAIN t
      PROVE  /\ kind[n + 1] = t[n].kind /\ parent[n + 1] = t[n].dir
             /\ entry[t[n].dir][Rank(t, n)].ino = n + 1
  <2>1. kind[n + 1] = t[n].kind /\ parent[n + 1] = t[n].dir
    <3>1. PICK i \in Ino : i = n + 1 /\ i - 1 = n  BY <1>4
    <3>2. kind[i] = Of(t, i) /\ parent[i] = Above(t, i)  BY <1>2
    <3>3. Of(t, i) = t[n].kind /\ Above(t, i) = t[n].dir  BY <3>1
    <3>4. QED  BY <3>1, <3>2, <3>3
  <2>2. t[n].dir \in Ino /\ Rank(t, n) \in Slot  BY <1>4, Ranked
  <2>3. entry[t[n].dir][Rank(t, n)].ino = n + 1  BY <1>7, <2>2
  <2>4. QED  BY <2>1, <2>3
<1>10. kind[ROOT] = "dir" /\ parent[ROOT] = ROOT  BY <1>2, <1>5
<1>11. ASSUME NEW i \in Ino
       PROVE  /\ i = ROOT \/ kind[i] = "free" \/ i - 1 \in DOMAIN t
              /\ kind[i] = "dir" => nlink[i] = 2 + Cardinality(Dirs(t, i))
              /\ kind[i] \in {"file", "link"} => nlink[i] = 1
              /\ kind[i] = "free" => nlink[i] = 0
  <2>1. i = ROOT \/ kind[i] = "free" \/ i - 1 \in DOMAIN t  BY <1>2
  <2>2. kind[i] = Of(t, i) /\ nlink[i] = Links(t, i)  BY <1>2
  <2>3. {n \in In(t, i) : t[n].kind = "dir"} = Dirs(t, i)  BY DEF Dirs, PlantedIn
  <2>4. Links(t, i) = CASE kind[i] = "dir" -> 2 + Cardinality(Dirs(t, i))
                        [] kind[i] = "free" -> 0
                        [] OTHER -> 1
    BY <2>2, <2>3
  <2> HIDE DEF Of, Links
  <2>5. nlink[i] = CASE kind[i] = "dir" -> 2 + Cardinality(Dirs(t, i))
                        [] kind[i] = "free" -> 0
                        [] OTHER -> 1
    BY <2>2, <2>4
  <2>6. QED  BY <2>1, <2>5
<1>12. StandsFor(t)  BY <1>8, <1>9, <1>10, <1>11 DEF StandsFor
<1>13. QED  BY <1>12

LEMMA OneMore ==
  ASSUME NEW S \in SUBSET Nat, IsFiniteSet(S)
  PROVE  LET T == {n + 1 : n \in S} IN IsFiniteSet(T) /\ Cardinality(T) = Cardinality(S)
PROOF
<1> DEFINE T == {n + 1 : n \in S}
           f == [n \in S |-> n + 1]
<1>1. f \in Bijection(S, T)
  <2>1. f \in [S -> T]  OBVIOUS
  <2>2. \A i, j \in S : f[i] = f[j] => i = j  OBVIOUS
  <2>3. \A k \in T : \E i \in S : f[i] = k  OBVIOUS
  <2>4. QED  BY <2>1, <2>2, <2>3 DEF Bijection, Injection, IsInjective, Surjection
<1>2. ExistsBijection(S, T)  BY <1>1 DEF ExistsBijection
<1> HIDE DEF T
<1>3. IsFiniteSet(T) /\ Cardinality(T) = Cardinality(S)  BY <1>2, FS_Bijection
<1>4. QED  BY <1>3 DEF T

LEMMA AtFirst ==
  ASSUME Init
  PROVE  /\ FsTyped /\ \A p \in Proc : job[p] = Out
         /\ \A i \in Ino : New(i) = {} /\ Late(i) = {} /\ count[i] = (IF i = ROOT THEN 1 ELSE 0)
PROOF
<1>1. FsTyped  BY InitFits DEF IInv, RefsBalanced, TypeOK
<1>2. /\ \A p \in Proc : job[p] = Out
      /\ \A i \in Ino : count[i] = IF i = ROOT THEN 1 ELSE 0
  BY DEF Init
<1>3. \A i \in Ino : i # NULL  BY DEF Ino, NULL
<1>4. Making(Out) = NULL /\ Linking(Out) = NULL  BY OutReady
<1>5. QED  BY <1>1, <1>2, <1>3, <1>4 DEF New, Late

LEMMA InitLinks == Init => FsFits /\ JobsFit
PROOF
<1> SUFFICES ASSUME Init PROVE FsFits /\ JobsFit  OBVIOUS
<1>1. PICK t \in Trees : StandsFor(t)  BY InitStands
<1>2. FsTyped /\ ROOT \in Ino  BY AtFirst, NamesAssumption DEF ROOT, Ino
<1>3. \A n \in DOMAIN t : /\ n \in Nat /\ n >= 1 /\ n + 1 \in Ino /\ n + 1 # ROOT
                          /\ t[n].dir \in Ino /\ t[n].dir <= n
                          /\ t[n].kind \in {"file", "dir", "link"}
  BY TreeHas
<1>4. /\ \A S \in SUBSET DOMAIN t : IsFiniteSet(S) /\ Cardinality(S) \in Nat
      /\ \A i : Dirs(t, i) \in SUBSET DOMAIN t
  BY TreeHas DEF Dirs, PlantedIn
<1>5. \A i : Cardinality(Dirs(t, i)) \in Nat /\ IsFiniteSet(Dirs(t, i))  BY <1>4
<1>6. \A i \in Ino : (Live(i) <=> kind[i] = "dir") /\ (Placed(i) <=> kind[i] = "dir")
  <2>1. ASSUME NEW i \in Ino, kind[i] = "dir" PROVE nlink[i] > 0
    <3>1. nlink[i] = 2 + Cardinality(Dirs(t, i))  BY <1>1, <2>1 DEF StandsFor
    <3>2. Cardinality(Dirs(t, i)) \in Nat  BY <1>5
    <3>3. QED  BY <3>1, <3>2
  <2>2. QED  BY <2>1, AtFirst DEF Live, Placed
<1>7. ASSUME NEW n \in DOMAIN t PROVE kind[t[n].dir] = "dir"
  <2>1. CASE t[n].dir = ROOT  BY <1>1, <2>1 DEF StandsFor
  <2>2. CASE t[n].dir # ROOT
    <3>1. PICK m \in DOMAIN t : m = t[n].dir - 1 /\ t[m].kind = "dir"  BY <2>2, TreeHas
    <3>2. t[n].dir \in Int  BY <1>3 DEF Ino
    <3>3. t[n].dir = m + 1  BY <3>1, <3>2
    <3>4. QED  BY <1>1, <3>1, <3>3 DEF StandsFor
  <2>3. QED  BY <2>1, <2>2
<1>8. ASSUME NEW i \in Ino, NEW d \in Ino, NEW s \in Slot, entry[d][s].ino = i
      PROVE  \E n \in DOMAIN t : i = n + 1 /\ t[n].dir = d /\ Rank(t, n) = s
  <2>1. i # NULL  BY DEF Ino, NULL
  <2>2. QED  BY <1>1, <1>8, <2>1 DEF StandsFor
<1>9. ASSUME NEW n \in DOMAIN t PROVE Entries(n + 1) = {<<t[n].dir, Rank(t, n)>>}
  <2>1. t[n].dir \in Ino /\ Live(t[n].dir) /\ Rank(t, n) \in Slot
    BY <1>3, <1>6, <1>7, Ranked
  <2>2. entry[t[n].dir][Rank(t, n)].ino = n + 1  BY <1>1 DEF StandsFor
  <2>3. <<t[n].dir, Rank(t, n)>> \in Entries(n + 1)  BY <2>1, <2>2 DEF Entries
  <2>4. ASSUME NEW e \in Entries(n + 1) PROVE e = <<t[n].dir, Rank(t, n)>>
    <3>1. PICK d \in Ino, s \in Slot : e = <<d, s>> /\ entry[d][s].ino = n + 1  BY DEF Entries
    <3>2. n + 1 \in Ino  BY <1>3
    <3>3. PICK m \in DOMAIN t : n + 1 = m + 1 /\ t[m].dir = d /\ Rank(t, m) = s
      BY <1>8, <3>1, <3>2
    <3>4. m = n  BY <1>3, <3>3
    <3>5. QED  BY <3>1, <3>3, <3>4
  <2>5. QED  BY <2>3, <2>4
<1>10. ASSUME NEW i \in Ino, Entries(i) # {} PROVE \E n \in DOMAIN t : i = n + 1
  <2>1. PICK d \in Ino, s \in Slot : entry[d][s].ino = i  BY <1>10 DEF Entries
  <2>2. QED  BY <1>8, <2>1
<1>11. Entries(ROOT) = {}  BY <1>2, <1>3, <1>10
<1>12. ASSUME NEW i \in Ino, i # ROOT, kind[i] # "free"
       PROVE  \E n \in DOMAIN t : i = n + 1 /\ kind[i] = t[n].kind /\ parent[i] = t[n].dir
  <2>1. i - 1 \in DOMAIN t  BY <1>1, <1>12 DEF StandsFor
  <2>2. PICK n \in DOMAIN t : n = i - 1  BY <2>1
  <2>3. i \in Int  BY DEF Ino
  <2>4. i = n + 1  BY <2>2, <2>3
  <2>5. QED  BY <1>1, <2>4 DEF StandsFor
<1>13. RootFits  BY <1>1, <1>2, <1>6, <1>11 DEF RootFits, StandsFor
<1>14. InodesFit
  <2> SUFFICES ASSUME NEW i \in Ino
               PROVE  /\ kind[i] = "free" => nlink[i] = 0 /\ count[i] = 0
                      /\ ~Placed(i) => empty_dir(i)
                      /\ New(i) # {} => Entries(i) = {}
                      /\ Placed(i) => Placed(parent[i])
    BY DEF InodesFit
  <2>1. kind[i] = "free" => nlink[i] = 0 /\ count[i] = 0
    <3>1. kind[ROOT] = "dir"  BY <1>1 DEF StandsFor
    <3>2. QED  BY <1>1, <3>1, AtFirst DEF StandsFor
  <2>2. ~Placed(i) => empty_dir(i)
    <3>1. ASSUME NEW s \in Slot, entry[i][s].ino # NULL PROVE Placed(i)
      <4>1. PICK n \in DOMAIN t : t[n].dir = i  BY <1>1, <3>1 DEF StandsFor
      <4>2. QED  BY <1>6, <1>7, <4>1
    <3>2. QED  BY <3>1 DEF empty_dir
  <2>3. Placed(i) => Placed(parent[i])
    <3>1. CASE i = ROOT  BY <1>1, <1>2, <1>6, <3>1 DEF StandsFor
    <3>2. CASE i # ROOT /\ Placed(i)
      <4>1. PICK n \in DOMAIN t : parent[i] = t[n].dir  BY <1>6, <1>12, <3>2
      <4>2. QED  BY <1>3, <1>6, <1>7, <4>1
    <3>3. QED  BY <3>1, <3>2
  <2>4. QED  BY <2>1, <2>2, <2>3, AtFirst
<1>15. LinksRight
  <2> SUFFICES ASSUME NEW i \in Ino
               PROVE  /\ Entries(i) # {} => kind[i] \in {"file", "link"} \/ Placed(i)
                      /\ kind[i] \in {"file", "link"}
                           => nlink[i] + Cardinality(Late(i)) = Cardinality(Entries(i)) + Cardinality(New(i))
                      /\ Placed(i) => nlink[i] = Cardinality(Entries(i)) + 1 + Cardinality(Inside(i))
    BY DEF LinksRight
  <2>1. Entries(i) # {} => kind[i] \in {"file", "link"} \/ Placed(i)
    <3> SUFFICES ASSUME Entries(i) # {} PROVE kind[i] \in {"file", "link"} \/ Placed(i)  OBVIOUS
    <3>1. PICK n \in DOMAIN t : i = n + 1  BY <1>10
    <3>2. kind[i] = t[n].kind  BY <1>1, <3>1 DEF StandsFor
    <3>3. QED  BY <1>3, <1>6, <3>2
  <2>2. ASSUME kind[i] \in {"file", "link"}
        PROVE  nlink[i] + Cardinality(Late(i)) = Cardinality(Entries(i)) + Cardinality(New(i))
    <3>1. i # ROOT  BY <1>1, <2>2 DEF StandsFor
    <3>2. PICK n \in DOMAIN t : i = n + 1  BY <1>12, <2>2, <3>1
    <3>3. Cardinality(Entries(i)) = 1  BY <1>9, <3>2, FS_Singleton
    <3>4. Cardinality(Late(i)) = 0 /\ Cardinality(New(i)) = 0  BY AtFirst, FS_EmptySet
    <3>5. nlink[i] = 1  BY <1>1, <2>2 DEF StandsFor
    <3>6. QED  BY <3>3, <3>4, <3>5
  <2>3. ASSUME Placed(i)
        PROVE  nlink[i] = Cardinality(Entries(i)) + 1 + Cardinality(Inside(i))
    <3> DEFINE T == {n + 1 : n \in Dirs(t, i)}
    <3>1. Dirs(t, i) \in SUBSET Nat  BY <1>3, <1>4
    <3>2. IsFiniteSet(T) /\ Cardinality(T) = Cardinality(Dirs(t, i))  BY <1>5, <3>1, OneMore
    <3>3. nlink[i] = 2 + Cardinality(Dirs(t, i)) /\ Cardinality(Dirs(t, i)) \in Nat
      BY <1>1, <1>5, <1>6, <2>3 DEF StandsFor
    <3>4. \A k \in T : k \in Ino /\ k # ROOT /\ Placed(k) /\ parent[k] = i
      <4> SUFFICES ASSUME NEW n \in Dirs(t, i)
                   PROVE  n + 1 \in Ino /\ n + 1 # ROOT /\ Placed(n + 1) /\ parent[n + 1] = i
        OBVIOUS
      <4>1. n \in DOMAIN t /\ t[n].dir = i /\ t[n].kind = "dir"  BY DEF Dirs, PlantedIn
      <4>2. kind[n + 1] = "dir" /\ parent[n + 1] = i  BY <1>1, <4>1 DEF StandsFor
      <4>3. QED  BY <1>3, <1>6, <4>1, <4>2
    <3>5. \A k \in Ino : k # ROOT /\ Placed(k) /\ parent[k] = i => k \in T
      <4> SUFFICES ASSUME NEW k \in Ino, k # ROOT, Placed(k), parent[k] = i PROVE k \in T  OBVIOUS
      <4>1. kind[k] = "dir"  BY <1>6
      <4>2. PICK n \in DOMAIN t : k = n + 1 /\ t[n].kind = "dir" /\ t[n].dir = i  BY <1>12, <4>1
      <4>3. QED  BY <4>2 DEF Dirs, PlantedIn
    <3> HIDE DEF T
    <3>6. CASE i = ROOT
      <4>1. Inside(i) = T \cup {ROOT}  BY <1>13, <2>3, <3>4, <3>5, <3>6 DEF Inside, RootFits
      <4>2. ROOT \notin T  BY <3>4
      <4>3. Cardinality(T \cup {ROOT}) = Cardinality(T) + 1  BY <3>2, <4>2, FS_AddElement
      <4>4. Cardinality(Entries(i)) = 0  BY <1>11, <3>6, FS_EmptySet
      <4>5. QED  BY <3>2, <3>3, <4>1, <4>3, <4>4
    <3>7. CASE i # ROOT
      <4>1. parent[ROOT] # i  BY <1>13, <3>7 DEF RootFits
      <4>2. Inside(i) = T  BY <3>4, <3>5, <4>1 DEF Inside
      <4>3. kind[i] # "free"  BY <1>6, <2>3
      <4>4. PICK n \in DOMAIN t : i = n + 1  BY <1>12, <3>7, <4>3
      <4>5. Cardinality(Entries(i)) = 1  BY <1>9, <4>4, FS_Singleton
      <4>6. QED  BY <3>2, <3>3, <4>2, <4>5
    <3>8. QED  BY <3>6, <3>7
  <2>4. QED  BY <2>1, <2>2, <2>3
<1>16. IsTree
  <2>1. ASSUME NEW i \in Ino \ {ROOT}, Placed(i)
        PROVE  \E s \in Slot : Entries(i) = {<<parent[i], s>>}
    <3>1. kind[i] # "free"  BY <1>6, <2>1
    <3>2. PICK n \in DOMAIN t : i = n + 1 /\ parent[i] = t[n].dir  BY <1>12, <3>1
    <3>3. QED  BY <1>9, <3>2, Ranked
  <2>2. ASSUME NEW D \in SUBSET {i \in Ino : Placed(i)}, D # {}, \A i \in D : parent[i] \in D
        PROVE  ROOT \in D
    <3>1. D \in SUBSET Nat  BY DEF Ino
    <3>2. PICK m \in D : \A k \in D : m <= k  BY <2>2, <3>1, LeastExists
    <3>3. m \in Ino /\ Placed(m) /\ kind[m] # "free"  BY <1>6
    <3>4. ASSUME m # ROOT PROVE FALSE
      <4>1. PICK n \in DOMAIN t : m = n + 1 /\ parent[m] = t[n].dir  BY <1>12, <3>3, <3>4
      <4>2. t[n].dir <= n /\ n \in Nat /\ t[n].dir \in Ino  BY <1>3
      <4>3. t[n].dir \in D  BY <2>2, <4>1
      <4>4. m <= t[n].dir  BY <3>2, <4>3
      <4>5. QED  BY <4>1, <4>2, <4>4 DEF Ino
    <3>5. QED  BY <3>4
  <2>3. QED  BY <2>1, <2>2 DEF IsTree
<1>17. JobsFit
  <2>1. ASSUME NEW p \in Proc PROVE JobFits(p, Out)
    BY DEF JobFits, Seen, DirsFit, MakingFits, RenameFits, Making, Out, Permitted, Renaming
  <2>2. QED  BY <2>1, AtFirst DEF JobsFit
<1>18. QED  BY <1>13, <1>14, <1>15, <1>16, <1>17 DEF FsFits

(***************************************************************************)
(* Every step.                                                             *)
(***************************************************************************)
LEMMA FailsQuietly ==
  ASSUME NEW p, Fail(p) \/ FailNew(p) PROVE overdir' = overdir
PROOF BY DEF Fail, FailNew

LEMMA OverdirStays ==
  ASSUME NEW p \in Proc, overdir,
         \/ \E op \in Op, path \in Path, name \in Name :
              \E path2 \in SecondPath(op), name2 \in SecondName(op) :
                Start(p, op, path, name, path2, name2)
         \/ Walk(p) \/ WalkIget(p) \/ Walked(p) \/ WalkedLink(p) \/ WalkedRename(p)
         \/ OpenLookup(p) \/ OpenIget(p) \/ OpenDone(p) \/ Readlink(p) \/ Close(p)
         \/ FindNone(p) \/ NewInode(p) \/ MkdirBlock(p) \/ SymlinkBlock(p) \/ AddFails(p)
         \/ Mknod(p) \/ Mkdir(p) \/ Create(p) \/ Link(p) \/ Linked(p)
         \/ FindEntry(p) \/ Unlink(p) \/ RmdirIget(p) \/ Rmdir(p)
         \/ RenameLock(p) \/ RenameOld(p) \/ RenameOldIget(p) \/ RenameNew(p)
         \/ RenameNewIget(p) \/ RenameCheck(p) \/ Subdir(p) \/ Rename(p)
  PROVE  overdir'
PROOF
<1> USE FailsQuietly
<1>1. ASSUME NEW op, NEW path, NEW name, NEW path2, NEW name2,
             Start(p, op, path, name, path2, name2)
      PROVE  overdir'
  BY <1>1 DEF Start
<1>2. ASSUME Walk(p) PROVE overdir'  BY <1>2 DEF Walk
<1>3. ASSUME WalkIget(p) \/ OpenIget(p) \/ Close(p) \/ Readlink(p) PROVE overdir'
  BY <1>3 DEF WalkIget, OpenIget, Close, Readlink
<1>4. ASSUME Walked(p) PROVE overdir'  BY <1>4 DEF Walked
<1>5. ASSUME WalkedLink(p) PROVE overdir'  BY <1>5 DEF WalkedLink
<1>6. ASSUME WalkedRename(p) PROVE overdir'  BY <1>6 DEF WalkedRename
<1>7. ASSUME OpenLookup(p) PROVE overdir'  BY <1>7 DEF OpenLookup
<1>8. ASSUME OpenDone(p) PROVE overdir'  BY <1>8 DEF OpenDone
<1>9. ASSUME FindNone(p) PROVE overdir'  BY <1>9 DEF FindNone
<1>10. ASSUME NewInode(p) PROVE overdir'  BY <1>10 DEF NewInode
<1>11. ASSUME MkdirBlock(p) \/ SymlinkBlock(p) \/ AddFails(p) PROVE overdir'
  BY <1>11 DEF MkdirBlock, SymlinkBlock, AddFails
<1>12. ASSUME Mknod(p) \/ Mkdir(p) \/ Create(p) \/ Link(p) \/ Linked(p) PROVE overdir'
  BY <1>12 DEF Mknod, Mkdir, Create, Link, Linked
<1>13. ASSUME FindEntry(p) PROVE overdir'  BY <1>13 DEF FindEntry
<1>14. ASSUME Unlink(p) \/ RmdirIget(p) \/ Rmdir(p) PROVE overdir'
  BY <1>14 DEF Unlink, RmdirIget, Rmdir
<1>15. ASSUME RenameLock(p) \/ RenameOld(p) \/ RenameOldIget(p) PROVE overdir'
  BY <1>15 DEF RenameLock, RenameOld, RenameOldIget
<1>16. ASSUME RenameNew(p) \/ RenameNewIget(p) PROVE overdir'
  BY <1>16 DEF RenameNew, RenameNewIget
<1>17. ASSUME RenameCheck(p) PROVE overdir'  BY <1>17 DEF RenameCheck
<1>18. ASSUME Subdir(p) PROVE overdir'  BY <1>18 DEF Subdir
<1>19. ASSUME Rename(p) PROVE overdir'  BY <1>19 DEF Rename
<1>20. QED
  BY <1>1, <1>2, <1>3, <1>4, <1>5, <1>6, <1>7, <1>8, <1>9, <1>10, <1>11, <1>12, <1>13, <1>14,
     <1>15, <1>16, <1>17, <1>18, <1>19

LEMMA RestKeeps == ASSUME NamesFit, UNCHANGED vars PROVE NamesFit'
PROOF
<1>1. /\ kind' = kind /\ nlink' = nlink /\ entry' = entry /\ parent' = parent
      /\ count' = count /\ job' = job /\ lock' = lock /\ overdir' = overdir
  BY DEF vars, fs
<1>2. \A i : /\ New(i)' = New(i) /\ Late(i)' = Late(i) /\ (Live(i)' <=> Live(i))
             /\ (empty_dir(i)' <=> empty_dir(i))
  BY <1>1 DEF New, Late, Live, empty_dir
<1>3. \A i : Placed(i)' <=> Placed(i)  BY <1>2 DEF Placed
<1>4. \A i : Entries(i)' = Entries(i) /\ Inside(i)' = Inside(i)
  BY <1>1, <1>2, <1>3 DEF Entries, Inside
<1>5. FsFits => FsFits'
  <2>1. RootFits => RootFits'  BY <1>1, <1>2, <1>4 DEF RootFits
  <2>2. InodesFit => InodesFit'  BY <1>1, <1>2, <1>3, <1>4 DEF InodesFit
  <2>3. LinksRight => LinksRight'  BY <1>1, <1>2, <1>3, <1>4 DEF LinksRight
  <2>4. IsTree => IsTree'  BY <1>1, <1>3, <1>4 DEF IsTree
  <2>5. QED  BY <2>1, <2>2, <2>3, <2>4 DEF FsFits
<1>6. JobsFit => JobsFit'
  <2>1. \A p \in Proc : JobFits(p, job[p]) => JobFits(p, job[p])'
    <3> SUFFICES ASSUME NEW p \in Proc, JobFits(p, job[p]) PROVE JobFits(p, job[p])'  OBVIOUS
    <3>1. Seen(job[p])'  BY <1>1, <1>2, <1>4 DEF JobFits, Seen
    <3>2. DirsFit(job[p])'  BY <1>1, <1>2 DEF JobFits, DirsFit
    <3>3. MakingFits(job[p])'  BY <1>1 DEF JobFits, MakingFits, Making
    <3>4. RenameFits(job[p])'  BY <1>1, <1>2, <1>3 DEF JobFits, RenameFits, Passed
    <3>5. QED  BY <1>1, <3>1, <3>2, <3>3, <3>4 DEF JobFits
  <2>2. QED  BY <2>1 DEF JobsFit
<1>7. QED  BY <1>1, <1>5, <1>6 DEF NamesFit

LEMMA NextKeeps == ASSUME IInv, IInv', NamesFit, ~Races, [Next]_vars PROVE NamesFit'
PROOF
<1>1. CASE overdir /\ Next /\ ~AtRest
  <2>1. overdir'  BY <1>1, OverdirStays DEF Next
  <2>2. QED  BY <2>1 DEF NamesFit
<1>2. CASE ~overdir /\ Next /\ ~AtRest
  <2>1. Fits  BY <1>2 DEF Fits, NamesFit
  <2>2. ASSUME NEW p \in Proc, NEW op \in Op, NEW path \in Path, NEW name \in Name,
               NEW path2 \in SecondPath(op), NEW name2 \in SecondName(op),
               Start(p, op, path, name, path2, name2)
        PROVE  Fits'
    BY <2>1, <2>2, StartKeeps
  <2>3. ASSUME NEW p \in Proc,
               Walk(p) \/ WalkIget(p) \/ Walked(p) \/ WalkedLink(p) \/ WalkedRename(p)
        PROVE  Fits'
    BY <2>1, <2>3, WalkKeeps, WalkIgetKeeps, WalkedKeeps, WalkedLinkKeeps, WalkedRenameKeeps
  <2>4. ASSUME NEW p \in Proc,
               OpenLookup(p) \/ OpenIget(p) \/ OpenDone(p) \/ Readlink(p) \/ Close(p)
        PROVE  Fits'
    BY <2>1, <2>4, OpenLookupKeeps, OpenIgetKeeps, OpenDoneKeeps, ReadlinkKeeps, CloseKeeps
  <2>5. ASSUME NEW p \in Proc,
               \/ FindNone(p) \/ NewInode(p) \/ MkdirBlock(p) \/ SymlinkBlock(p) \/ AddFails(p)
               \/ Mknod(p) \/ Mkdir(p) \/ Create(p) \/ Link(p) \/ Linked(p)
        PROVE  Fits'
    BY <2>1, <2>5, FindNoneKeeps, NewInodeKeeps, MkdirBlockKeeps, SymlinkBlockKeeps, AddFailsKeeps,
       MknodKeeps, MkdirKeeps, CreateKeeps, LinkKeeps, LinkedKeeps
  <2>6. ASSUME NEW p \in Proc, FindEntry(p) \/ Unlink(p) \/ RmdirIget(p) \/ Rmdir(p)
        PROVE  Fits'
    BY <2>1, <2>6, FindEntryKeeps, UnlinkKeeps, RmdirIgetKeeps, RmdirKeeps
  <2>7. ASSUME NEW p \in Proc,
               \/ RenameLock(p) \/ RenameOld(p) \/ RenameOldIget(p) \/ RenameNew(p)
               \/ RenameNewIget(p) \/ RenameCheck(p) \/ Subdir(p) \/ Rename(p)
        PROVE  overdir' \/ Fits'
    BY <2>1, <2>7, RenameLockKeeps, RenameOldKeeps, RenameOldIgetKeeps, RenameNewKeeps,
       RenameNewIgetKeeps, RenameCheckKeeps, SubdirKeeps, RenameKeeps
  <2>8. overdir' \/ Fits'  BY <1>2, <2>2, <2>3, <2>4, <2>5, <2>6, <2>7 DEF Next
  <2>9. QED  BY <2>8 DEF Fits, NamesFit
<1>3. CASE AtRest  BY <1>3, RestKeeps DEF AtRest
<1>4. CASE UNCHANGED vars  BY <1>4, RestKeeps
<1>5. QED  BY <1>1, <1>2, <1>3, <1>4

LEMMA NamesAlwaysFit == ~Races => (Spec => [](IInv /\ NamesFit))
PROOF
<1> SUFFICES ASSUME ~Races PROVE Spec => [](IInv /\ NamesFit)  OBVIOUS
<1>1. Init => IInv /\ NamesFit  BY InitFits, InitLinks DEF NamesFit
<1>2. IInv /\ NamesFit /\ [Next]_vars => (IInv /\ NamesFit)'
  <2> SUFFICES ASSUME IInv, NamesFit, [Next]_vars PROVE IInv' /\ NamesFit'  OBVIOUS
  <2>1. IInv'  BY NextFits
  <2>2. NamesFit'  BY <2>1, NextKeeps
  <2>3. QED  BY <2>1, <2>2
<1>3. QED  BY <1>1, <1>2, PTL DEF Spec

(* As long as no entry goes while another call relies on it (Races = FALSE) and no file has been
   renamed over a directory, every call, wherever the others are, leaves the links of a file equal
   to the entries that name it, and those of a directory to its entry, its "." and the ".." of
   the directories in it; what is named is allocated (fs/minix/namei.c: i_nlink and the entries
   are changed in different steps, with sleeps between). *)
THEOREM LinksCounted == ~Races => (Spec => []LinkCounts)
PROOF
<1> SUFFICES ASSUME ~Races PROVE Spec => []LinkCounts  OBVIOUS
<1>1. NamesFit => LinkCounts  BY DEF NamesFit, FsFits, LinkCounts
<1>2. QED  BY <1>1, NamesAlwaysFit, PTL

(* Likewise the directories stay a tree, each with one entry, in the directory its ".." names:
   renames one after the other never make a directory one below itself, since subdir comes to
   the top without meeting it and nothing else moves a directory meanwhile
   (fs/minix/namei.c: subdir, do_minix_rename under the lock of minix_rename). *)
THEOREM DirectoriesAreATree == ~Races => (Spec => []Tree)
PROOF
<1> SUFFICES ASSUME ~Races PROVE Spec => []Tree  OBVIOUS
<1>1. NamesFit => Tree  BY DEF NamesFit, FsFits, Tree
<1>2. QED  BY <1>1, NamesAlwaysFit, PTL
===============================================================================
