---------------------------- MODULE InodesProofs -----------------------------
(***************************************************************************)
(* Theorems about Inodes, for any number of processes, table entries,      *)
(* files and changes: what the inode table promises as long as nobody      *)
(* disturbs the two places that rely on what they do not look at (Races =  *)
(* FALSE), up to the first overlap of two mounts or umounts, where the     *)
(* model stops.                                                            *)
(***************************************************************************)
EXTENDS Inodes, TLAPS, FiniteSetTheorems

(* The invariant before two mounts or umounts overlap: one call reads the super block, one
   is past its tests. *)
Apart(j, k) == ~(Past(j) /\ Past(k)) /\ ~(j.at = "read_super" /\ k.at = "read_super")
Sound == /\ TableFits
         /\ \A p \in Proc : MountFits(Now(p))
         /\ \A p, q \in Proc : p = q \/ Apart(Now(p), Now(q))

LEMMA SoundAfter == Sound' => IInv'
PROOF BY DEF IInv, Sound, MountsFit, OneReads, Overlapped, Apart, At

LEMMA SoundIs == ~Overlapped => (IInv <=> Sound)
PROOF BY DEF IInv, Sound, MountsFit, OneReads, Overlapped, Apart, At

(***************************************************************************)
(* Counting references.                                                    *)
(***************************************************************************)
One(x, s) == IF x = s THEN 1 ELSE 0
OfJob(h, s) == One(h.ref, s) + One(h.e, s) + One(h.dir, s) + One(h.s, s)

LEMMA OneType == \A x, s : One(x, s) \in Nat
PROOF BY DEF One

LEMMA OfJobType == \A h, s : OfJob(h, s) \in Nat
PROOF BY DEF OfJob, One

Fs(F, h, s) == {f \in F : h[f] = s}

LEMMA CountField ==
  ASSUME NEW F, IsFiniteSet(F), NEW g, g \notin F, NEW h, NEW s
  PROVE  Cardinality(Fs(F \cup {g}, h, s)) = Cardinality(Fs(F, h, s)) + One(h[g], s)
PROOF
<1>1. IsFiniteSet(Fs(F, h, s)) /\ Cardinality(Fs(F, h, s)) \in Nat
  BY FS_Subset, FS_CardinalityType DEF Fs
<1>2. CASE h[g] = s
  <2>1. Fs(F \cup {g}, h, s) = Fs(F, h, s) \cup {g} /\ g \notin Fs(F, h, s)  BY <1>2 DEF Fs
  <2>2. QED  BY <1>1, <1>2, <2>1, FS_AddElement DEF One
<1>3. CASE h[g] # s
  <2>1. Fs(F \cup {g}, h, s) = Fs(F, h, s)  BY <1>3 DEF Fs
  <2>2. QED  BY <1>1, <1>3, <2>1 DEF One
<1>4. QED  BY <1>2, <1>3

LEMMA CountAll ==
  ASSUME NEW h, NEW s
  PROVE  IsFiniteSet(RefFields) /\ Cardinality(Fs(RefFields, h, s)) = OfJob(h, s)
PROOF
<1> DEFINE F0 == {}
           F1 == F0 \cup {"ref"}
           F2 == F1 \cup {"e"}
           F3 == F2 \cup {"dir"}
           F4 == F3 \cup {"s"}
<1>1. "ref" \notin F0 /\ "e" \notin F1 /\ "dir" \notin F2 /\ "s" \notin F3 /\ F4 = RefFields
  BY DEF RefFields
<1>2. IsFiniteSet(F0) /\ Cardinality(Fs(F0, h, s)) = 0
  <2>1. Fs(F0, h, s) = {}  BY DEF Fs
  <2>2. QED  BY <2>1, FS_EmptySet
<1> HIDE DEF F0
<1>3. IsFiniteSet(F1) /\ Cardinality(Fs(F1, h, s)) = Cardinality(Fs(F0, h, s)) + One(h["ref"], s)
  BY <1>1, <1>2, CountField, FS_AddElement
<1> HIDE DEF F1
<1>4. IsFiniteSet(F2) /\ Cardinality(Fs(F2, h, s)) = Cardinality(Fs(F1, h, s)) + One(h["e"], s)
  BY <1>1, <1>3, CountField, FS_AddElement
<1> HIDE DEF F2
<1>5. IsFiniteSet(F3) /\ Cardinality(Fs(F3, h, s)) = Cardinality(Fs(F2, h, s)) + One(h["dir"], s)
  BY <1>1, <1>4, CountField, FS_AddElement
<1> HIDE DEF F3
<1>6. IsFiniteSet(F4) /\ Cardinality(Fs(F4, h, s)) = Cardinality(Fs(F3, h, s)) + One(h["s"], s)
  BY <1>1, <1>5, CountField, FS_AddElement
<1> HIDE DEF F4
<1>7. One(h.ref, s) \in Nat  BY DEF One
<1>8. QED  BY <1>1, <1>2, <1>3, <1>4, <1>5, <1>6, <1>7 DEF OfJob

LEMMA HeldIsFinite == \A s : IsFiniteSet(Held(s)) /\ Cardinality(Held(s)) \in Nat
PROOF
<1>1. IsFiniteSet(RefFields)  BY CountAll
<1>2. IsFiniteSet(Proc)  BY InodesAssumption
<1>3. IsFiniteSet(Proc \X RefFields)  BY <1>1, <1>2, FS_Product
<1>4. \A s : Held(s) \subseteq Proc \X RefFields  BY DEF Held
<1>5. QED  BY <1>3, <1>4, FS_Subset, FS_CardinalityType

LEMMA HeldChanges ==
  ASSUME job \in [Proc -> Job], NEW p \in Proc, NEW r \in Job, job' = [job EXCEPT ![p] = r],
         NEW s \in Slot
  PROVE  /\ Cardinality(Held(s)') = Cardinality(Held(s)) + OfJob(HeldBy(r), s)
                                                         - OfJob(HeldBy(job[p]), s)
         /\ Cardinality(Held(s)) \in Nat /\ Cardinality(Held(s)') \in Nat
PROOF
<1> DEFINE Others == {h \in Held(s) : h[1] # p}
           Mine(j) == {p} \X Fs(RefFields, HeldBy(j), s)
<1>1. IsFiniteSet(RefFields)  BY CountAll
<1>2. ASSUME NEW j
      PROVE  IsFiniteSet(Mine(j)) /\ Cardinality(Mine(j)) = OfJob(HeldBy(j), s)
  <2>1. IsFiniteSet(Fs(RefFields, HeldBy(j), s))  BY <1>1, FS_Subset DEF Fs
  <2>2. IsFiniteSet({p}) /\ Cardinality({p}) = 1  BY FS_Singleton
  <2>3. /\ Cardinality(Fs(RefFields, HeldBy(j), s)) = OfJob(HeldBy(j), s)
        /\ OfJob(HeldBy(j), s) \in Nat
    BY CountAll, OfJobType
  <2>4. /\ IsFiniteSet({p} \X Fs(RefFields, HeldBy(j), s))
        /\ Cardinality({p} \X Fs(RefFields, HeldBy(j), s))
             = 1 * Cardinality(Fs(RefFields, HeldBy(j), s))
    BY <2>1, <2>2, FS_Product
  <2>5. QED  BY <2>3, <2>4
<1>3. IsFiniteSet(Held(s)) /\ Cardinality(Held(s)) \in Nat  BY HeldIsFinite
<1>4. IsFiniteSet(Others) /\ Cardinality(Others) \in Nat  BY <1>3, FS_Subset, FS_CardinalityType
<1>5. Held(s) = Others \cup Mine(job[p]) /\ Others \cap Mine(job[p]) = {}
  <2> HIDE DEF RefFields
  <2> QED  BY DEF Held, Fs
<1>6. Held(s)' = Others \cup Mine(r) /\ Others \cap Mine(r) = {}
  <2> HIDE DEF RefFields
  <2> QED  BY DEF Held, Fs
<1> HIDE DEF Others, Mine
<1>7. ASSUME NEW j, Others \cap Mine(j) = {}
      PROVE  Cardinality(Others \cup Mine(j)) = Cardinality(Others) + OfJob(HeldBy(j), s)
  <2>1. Cardinality(Others \cup Mine(j))
          = Cardinality(Others) + Cardinality(Mine(j)) - Cardinality({})
    BY <1>2, <1>4, <1>7, FS_Union
  <2>2. Cardinality(Mine(j)) \in Nat /\ Cardinality({}) = 0
    BY <1>2, FS_CardinalityType, FS_EmptySet
  <2>3. QED  BY <1>2, <1>4, <2>1, <2>2
<1>8. OfJob(HeldBy(r), s) \in Nat /\ OfJob(HeldBy(job[p]), s) \in Nat  BY OfJobType
<1>9. /\ Cardinality(Held(s)) = Cardinality(Others) + OfJob(HeldBy(job[p]), s)
      /\ Cardinality(Held(s)') = Cardinality(Others) + OfJob(HeldBy(r), s)
  BY <1>5, <1>6, <1>7
<1>10. QED  BY <1>4, <1>8, <1>9

(* Whoever has the inode is in its count; when the count is one nobody else has it. *)
LEMMA Counted ==
  ASSUME Sound, NEW s \in Slot
  PROVE  /\ table[s].count \in Nat
         /\ \A p \in Proc, f \in RefFields : HeldBy(job[p])[f] = s => table[s].count > 0
         /\ sb.covered = s \/ sb.mounted = s => table[s].count > 0
PROOF
<1>1. table[s].count = Cardinality(Held(s)) + (IF sb.covered = s THEN 1 ELSE 0)
                                            + (IF sb.mounted = s THEN 1 ELSE 0)
  BY DEF Sound, TableFits, CountIsReferences
<1>2. IsFiniteSet(Held(s)) /\ Cardinality(Held(s)) \in Nat  BY HeldIsFinite
<1>3. ASSUME NEW p \in Proc, NEW f \in RefFields, HeldBy(job[p])[f] = s
      PROVE  Cardinality(Held(s)) > 0
  <2>1. <<p, f>> \in Held(s)  BY <1>3 DEF Held
  <2>2. Cardinality(Held(s)) # 0  BY <1>2, <2>1, FS_EmptySet
  <2>3. QED  BY <1>2, <2>2
<1>4. QED  BY <1>1, <1>2, <1>3

LEMMA Alone ==
  ASSUME Sound, NEW s \in Slot, table[s].count = 1, NEW p \in Proc, NEW f \in RefFields,
         HeldBy(job[p])[f] = s
  PROVE  /\ sb.covered # s /\ sb.mounted # s
         /\ \A q \in Proc, g \in RefFields : HeldBy(job[q])[g] = s => q = p /\ g = f
PROOF
<1>1. table[s].count = Cardinality(Held(s)) + (IF sb.covered = s THEN 1 ELSE 0)
                                            + (IF sb.mounted = s THEN 1 ELSE 0)
  BY DEF Sound, TableFits, CountIsReferences
<1>2. IsFiniteSet(Held(s)) /\ Cardinality(Held(s)) \in Nat  BY HeldIsFinite
<1>3. <<p, f>> \in Held(s)  BY DEF Held
<1>4. Cardinality(Held(s)) # 0  BY <1>2, <1>3, FS_EmptySet
<1>5. sb.covered # s /\ sb.mounted # s /\ Cardinality(Held(s)) = 1  BY <1>1, <1>2, <1>4
<1>6. ASSUME NEW q \in Proc, NEW g \in RefFields, HeldBy(job[q])[g] = s
      PROVE  q = p /\ g = f
  <2>1. <<q, g>> \in Held(s)  BY <1>6 DEF Held
  <2>2. IsFiniteSet(Held(s) \ {<<p, f>>})
        /\ Cardinality(Held(s) \ {<<p, f>>}) = Cardinality(Held(s)) - 1
    BY <1>2, <1>3, FS_RemoveElement
  <2>3. Held(s) \ {<<p, f>>} = {}  BY <1>5, <2>2, FS_EmptySet
  <2>4. <<q, g>> = <<p, f>>  BY <2>1, <2>3
  <2>5. QED  BY <2>4
<1>7. QED  BY <1>5, <1>6

(***************************************************************************)
(* What a call makes use of: it is held by the call, or by the super block *)
(* the call is about to give up.                                           *)
(***************************************************************************)
UsesS == {"mwait", "found", "mounted"} \cup Putting
Uses(j) == {x \in Slot : \/ x = j.ref \/ x = j.now.e \/ x = j.now.dir
                         \/ x = j.now.s /\ j.now.at \in UsesS}

LEMMA CallOf ==
  ASSUME Sound, NEW p \in Proc
  PROVE  /\ TypeOK /\ job[p] \in Job /\ Now(p) \in Call /\ Now(p) = job[p].now
         /\ JobFits(job[p]) /\ EmptyFits(Now(p)) /\ RightInode(job[p]) /\ MountFits(Now(p))
         /\ Sought(Now(p)) => HasName(Now(p).id)
         /\ \A q \in Proc : q # p => Apart(Now(p), Now(q)) /\ Apart(Now(q), Now(p))
PROOF BY DEF Sound, TableFits, TypeOK, JobsFit, CallsFit, Now, Job

LEMMA UsesHeld ==
  ASSUME Sound, NEW p \in Proc, NEW x \in Uses(job[p])
  PROVE  \/ \E f \in RefFields : HeldBy(job[p])[f] = x
         \/ Now(p).op = "umount" /\ (sb.covered = x \/ sb.mounted = x)
PROOF
<1> PICK j \in Job : j = job[p]  BY CallOf
<1>1. /\ j.now.op \in Ops /\ Now(p) = j.now /\ j.now \in Call
      /\ JobFits(j) /\ MountFits(j.now) /\ x \in Uses(j) /\ x \in Slot /\ NoSlot \notin Slot
  BY CallOf, InodesAssumption DEF Job, Call, Uses
<1>2. CASE x = j.ref \/ x = j.now.e \/ x = j.now.dir
  <2>1. /\ "ref" \in RefFields /\ "e" \in RefFields /\ "dir" \in RefFields
        /\ HeldBy(j)["ref"] = j.ref /\ HeldBy(j)["e"] = j.now.e /\ HeldBy(j)["dir"] = j.now.dir
    BY DEF RefFields, HeldBy
  <2>2. QED  BY <1>2, <2>1
<1>3. CASE x = j.now.s /\ j.now.at \in {"mwait", "found", "mounted"}
  <2>1. "s" \in RefFields /\ HeldBy(j)["s"] = x  BY <1>3 DEF RefFields, HeldBy
  <2>2. QED  BY <2>1
<1>4. CASE x = j.now.s /\ j.now.at \in Putting /\ x # j.ref /\ x # j.now.dir
  <2>1. j.now.op \in {"mount", "umount"}
    BY <1>1, <1>4 DEF JobFits, OpFits, Ops, Putting, Out, Seeking
  <2>2. CASE j.now.op = "umount"
    BY <1>1, <1>4, <2>2 DEF MountFits
  <2>3. CASE j.now.op = "mount"
    <3>1. "s" \in RefFields /\ HeldBy(j)["s"] = x
      BY <1>4, <2>3 DEF RefFields, HeldBy, Putting
    <3>2. QED  BY <3>1
  <2>4. QED  BY <2>1, <2>2, <2>3
<1>5. QED  BY <1>1, <1>2, <1>3, <1>4 DEF Uses, UsesS

LEMMA UsesCounted ==
  ASSUME Sound, NEW p \in Proc, NEW x \in Uses(job[p])
  PROVE  x \in Slot /\ table[x].count \in Nat /\ table[x].count > 0
PROOF
<1>1. x \in Slot  BY DEF Uses
<1>2. QED  BY <1>1, UsesHeld, Counted

(* What two calls use, or a call and the super block, has a count of two or more. *)
LEMMA TwoUsers ==
  ASSUME Sound, NEW p \in Proc, NEW q \in Proc, p # q, NEW x \in Uses(job[p]), x \in Uses(job[q])
  PROVE  table[x].count # 1
PROOF
<1> SUFFICES ASSUME table[x].count = 1 PROVE FALSE
  OBVIOUS
<1>1. x \in Slot  BY DEF Uses
<1>2. \A f \in RefFields : HeldBy(job[p])[f] # x
  <2> SUFFICES ASSUME NEW f \in RefFields, HeldBy(job[p])[f] = x PROVE FALSE
    OBVIOUS
  <2>1. sb.covered # x /\ sb.mounted # x /\ \A g \in RefFields : HeldBy(job[q])[g] # x
    BY <1>1, Alone
  <2>2. QED  BY <2>1, UsesHeld
<1>3. \A f \in RefFields : HeldBy(job[q])[f] # x
  <2> SUFFICES ASSUME NEW f \in RefFields, HeldBy(job[q])[f] = x PROVE FALSE
    OBVIOUS
  <2>1. sb.covered # x /\ sb.mounted # x /\ \A g \in RefFields : HeldBy(job[p])[g] # x
    BY <1>1, Alone
  <2>2. QED  BY <2>1, UsesHeld
<1>4. Now(p).op = "umount" /\ Now(q).op = "umount"  BY <1>2, <1>3, UsesHeld
<1>5. QED  BY <1>4, CallOf DEF Apart, Past

LEMMA MountUser ==
  ASSUME Sound, NEW p \in Proc, NEW x \in Uses(job[p]), Now(p).op # "umount",
         sb.covered = x \/ sb.mounted = x
  PROVE  table[x].count # 1
PROOF
<1>1. x \in Slot  BY DEF Uses
<1>2. PICK f \in RefFields : HeldBy(job[p])[f] = x  BY UsesHeld
<1>3. QED  BY <1>1, <1>2, Alone

(* A claimed entry is its call's own. *)
LEMMA ClaimedOwn ==
  ASSUME Sound, NEW p \in Proc, Now(p).e # NoSlot
  PROVE  /\ Now(p).e \in Slot /\ Now(p).e \in Uses(job[p]) /\ table[Now(p).e].count = 1
         /\ \A q \in Proc : q # p => Now(p).e \notin Uses(job[q])
         /\ sb.covered # Now(p).e /\ sb.mounted # Now(p).e
         /\ Now(p).op # "umount"
PROOF
<1> DEFINE e == Now(p).e
<1>1. /\ e \in Slot /\ e \in Uses(job[p])
      /\ Now(p).at \in {"search", "swait", "read", "alloc"} /\ Now(p).op # "umount"
  BY CallOf DEF Call, SlotOrNone, Uses, JobFits, HoldsFit, OpFits, Putting
<1>2. table[e].count = 1  BY <1>1, CallOf DEF EmptyFits, Claimed, Zero
<1>3. QED  BY <1>1, <1>2, TwoUsers, MountUser

(***************************************************************************)
(* What stays as it is when one call goes on.                              *)
(***************************************************************************)
Becomes(p, r) == r \in Job /\ JobFits(r) /\ job' = [job EXCEPT ![p] = r]

LEMMA NowAfter ==
  ASSUME Sound, NEW p \in Proc, NEW r, Becomes(p, r)
  PROVE  /\ job' \in [Proc -> Job] /\ job'[p] = r /\ Now(p)' = r.now
         /\ \A q \in Proc : q # p => job'[q] = job[q] /\ Now(q)' = Now(q)
         /\ JobsFit'
PROOF BY DEF Sound, TableFits, TypeOK, JobsFit, Becomes, Now

LEMMA BecomeIs ==
  ASSUME Sound, NEW p \in Proc, NEW j, Become(p, j)
  PROVE  job' = [job EXCEPT ![p] = [now |-> j, ref |-> job[p].ref]]
PROOF
<1>1. job[p] \in [now : Call, ref : SlotOrNone]  BY CallOf DEF Job
<1>2. [job[p] EXCEPT !.now = j] = [now |-> j, ref |-> job[p].ref]  BY <1>1
<1>3. job' = [job EXCEPT ![p] = [job[p] EXCEPT !.now = j]]  BY DEF Become
<1>4. QED  BY <1>2, <1>3

LEMMA CountsFit ==
  ASSUME Sound, NEW p \in Proc, NEW r, Becomes(p, r),
         \A s \in Slot : table'[s].count = table[s].count
                           + OfJob(HeldBy(r), s) - OfJob(HeldBy(job[p]), s)
                           + One(sb'.covered, s) - One(sb.covered, s)
                           + One(sb'.mounted, s) - One(sb.mounted, s)
  PROVE  CountIsReferences'
PROOF
<1> SUFFICES ASSUME NEW s \in Slot
             PROVE  table'[s].count = Cardinality(Held(s)')
                      + (IF sb'.covered = s THEN 1 ELSE 0) + (IF sb'.mounted = s THEN 1 ELSE 0)
  BY DEF CountIsReferences
<1>1. /\ Cardinality(Held(s)') = Cardinality(Held(s)) + OfJob(HeldBy(r), s)
                                                      - OfJob(HeldBy(job[p]), s)
      /\ Cardinality(Held(s)) \in Nat /\ Cardinality(Held(s)') \in Nat
  BY HeldChanges DEF Becomes, Sound, TableFits, TypeOK
<1>2. table[s].count = Cardinality(Held(s)) + One(sb.covered, s) + One(sb.mounted, s)
  BY DEF Sound, TableFits, CountIsReferences, One
<1>3. OfJob(HeldBy(r), s) \in Nat /\ OfJob(HeldBy(job[p]), s) \in Nat  BY OfJobType
<1>4. table'[s].count = Cardinality(Held(s)') + One(sb'.covered, s) + One(sb'.mounted, s)
  BY <1>1, <1>2, <1>3 DEF One
<1>5. QED  BY <1>4 DEF One

LEMMA CountsStay ==
  ASSUME Sound, NEW p \in Proc, NEW r, Becomes(p, r), sb' = sb,
         \A s \in Slot : table'[s].count = table[s].count,
         \A s \in Slot : OfJob(HeldBy(r), s) = OfJob(HeldBy(job[p]), s)
  PROVE  CountIsReferences'
PROOF
<1>1. \A s \in Slot : OfJob(HeldBy(r), s) \in Nat /\ One(sb.covered, s) \in Nat
                      /\ One(sb.mounted, s) \in Nat /\ table[s].count \in Int
  BY OfJobType DEF One, Sound, TableFits, TypeOK, Inode
<1>2. \A s \in Slot : table'[s].count = table[s].count
                         + OfJob(HeldBy(r), s) - OfJob(HeldBy(job[p]), s)
                         + One(sb'.covered, s) - One(sb.covered, s)
                         + One(sb'.mounted, s) - One(sb.mounted, s)
  BY <1>1
<1>3. QED  BY <1>2, CountsFit

LEMMA LocksFit ==
  ASSUME Sound, NEW p \in Proc, NEW r, Becomes(p, r),
         \A s \in Slot : table'[s].lock <=> \/ table[s].lock /\ s # Locker(Now(p))
                                            \/ s = Locker(r.now),
         Locker(r.now) = Locker(Now(p)) \/ Locker(r.now) = NoSlot
           \/ (Locker(r.now) \in Slot /\ ~table[Locker(r.now)].lock)
  PROVE  Locks'
PROOF
<1>1. Locks  BY DEF Sound, TableFits
<1>2. Now(p)' = r.now /\ \A q \in Proc : q # p => Now(q)' = Now(q)  BY NowAfter
<1>3. NoSlot \notin Slot  BY InodesAssumption
<1>4. ASSUME NEW s \in Slot
      PROVE  table'[s].lock <=> \E q \in Proc : Locker(Now(q)') = s
  <2>1. table[s].lock <=> \E q \in Proc : Locker(Now(q)) = s  BY <1>1 DEF Locks
  <2>2. \A q \in Proc : Locker(Now(q)) = s /\ s = Locker(Now(p)) => q = p
    BY <1>1, <1>3 DEF Locks
  <2>3. QED  BY <1>2, <2>1, <2>2
<1>5. ASSUME NEW q \in Proc, NEW q2 \in Proc, Locker(Now(q)') = Locker(Now(q2)'),
             Locker(Now(q)') # NoSlot
      PROVE  q = q2
  <2>1. \A a, b \in Proc : Locker(Now(a)) = Locker(Now(b)) /\ Locker(Now(a)) # NoSlot => a = b
    BY <1>1 DEF Locks
  <2>2. \A a \in Proc : Locker(Now(a)) \in Slot => table[Locker(Now(a))].lock
    BY <1>1 DEF Locks
  <2>3. QED  BY <1>2, <1>5, <2>1, <2>2
<1>6. Locks' <=> /\ \A s \in Slot : table'[s].lock <=> \E q \in Proc : Locker(Now(q)') = s
                 /\ \A q, q2 \in Proc : /\ Locker(Now(q)') = Locker(Now(q2)')
                                        /\ Locker(Now(q)') # NoSlot
                                        => q = q2
  BY DEF Locks, Locker
<1>7. QED  BY <1>4, <1>5, <1>6

LEMMA ReadsStay ==
  ASSUME Sound, NEW p \in Proc, NEW r, Becomes(p, r), Reader(r.now) = Reader(Now(p))
  PROVE  \A s : BeingRead(s)' <=> BeingRead(s)
PROOF
<1>1. Now(p)' = r.now /\ \A q \in Proc : q # p => Now(q)' = Now(q)  BY NowAfter
<1>2. \A q \in Proc : Reader(Now(q)') = Reader(Now(q))  BY <1>1
<1>3. \A s : BeingRead(s)' <=> \E q \in Proc : Reader(Now(q)') = s  BY DEF BeingRead, Reader
<1>4. QED  BY <1>2, <1>3 DEF BeingRead

(* The inodes keep their places and their contents. *)
LEMMA ContentsStay ==
  ASSUME \A s \in Slot : /\ table'[s].id = table[s].id
                         /\ table'[s].nlink = table[s].nlink /\ table'[s].ver = table[s].ver,
         \A s : BeingRead(s)' <=> BeingRead(s), NEW i, disk'[i] = disk[i]
  PROVE  Holders(i)' = Holders(i) /\ InMemory(i)' = InMemory(i) /\ Current(i)' = Current(i)
PROOF
<1>1. Holders(i)' = Holders(i)  BY DEF Holders
<1>2. InMemory(i)' = InMemory(i)  BY <1>1 DEF InMemory
<1>3. \A s \in InMemory(i) : Saved(s)' = Saved(s)  BY DEF Saved, InMemory, Holders
<1>4. Current(i) = IF InMemory(i) = {} THEN {disk[i]} ELSE {Saved(s) : s \in InMemory(i)}
  BY DEF Current
<1>5. Current(i)' = IF InMemory(i)' = {} THEN {disk'[i]} ELSE {Saved(s)' : s \in InMemory(i)'}
  BY DEF Current
<1>6. {Saved(s)' : s \in InMemory(i)'} = {Saved(s) : s \in InMemory(i)}  BY <1>2, <1>3
<1>7. QED  BY <1>1, <1>2, <1>4, <1>5, <1>6

(* What is current is that in the one entry, or on disk. *)
LEMMA CurrentOf ==
  ASSUME TableFits, NEW i \in Id
  PROVE  /\ \A s \in Slot : table[s].id = i /\ ~BeingRead(s) => Current(i) = {Saved(s)}
         /\ (\A s \in Slot : table[s].id = i => BeingRead(s)) => Current(i) = {disk[i]}
PROOF
<1>1. NoId \notin Id  BY InodesAssumption
<1>2. \A s \in Slot : table[s].id = i /\ ~BeingRead(s) => InMemory(i) = {s}
  BY <1>1 DEF TableFits, OneCopy, InMemory, Holders
<1>3. (\A s \in Slot : table[s].id = i => BeingRead(s)) => InMemory(i) = {}
  BY DEF InMemory, Holders
<1>4. \A s \in Slot : InMemory(i) = {s} => Current(i) = {Saved(s)}  BY DEF Current
<1>5. InMemory(i) = {} => Current(i) = {disk[i]}  BY DEF Current
<1>6. QED  BY <1>2, <1>3, <1>4, <1>5

LEMMA CurrentIs ==
  ASSUME Sound, NEW i \in Id
  PROVE  /\ \A s \in Slot : table[s].id = i /\ ~BeingRead(s) => Current(i) = {Saved(s)}
         /\ (\A s \in Slot : table[s].id = i => BeingRead(s)) => Current(i) = {disk[i]}
PROOF BY CurrentOf DEF Sound

EntriesTyped == /\ table \in [Slot -> Inode] /\ disk \in [Id -> OnDisk] /\ imap \subseteq Id
                /\ sb \in Super /\ latest \in [Id -> Nat]
Clean == \A s \in Slot : table[s].id # NoId /\ Unlocked(s) /\ ~table[s].dirt
                           => disk[table[s].id] = Saved(s)
(* What a step of one call that may be the second past its tests does not keep. *)
IsApart(p, r) == \A q \in Proc : q # p => Apart(r.now, Now(q)) /\ Apart(Now(q), r.now)

MountsHold(p, r) == /\ MountFits(r.now)' /\ IsApart(p, r)
                    /\ \A q \in Proc : q # p => MountFits(Now(q))'

LEMMA Whole ==
  ASSUME Sound, NEW p \in Proc, NEW r, Becomes(p, r), EntriesTyped',
         CountIsReferences', OneCopy', Locks', FreeIsReady', EntriesFit', Kept', SuperFits',
         HasName(Root2)', EmptyFits(r.now)', RightInode(r)',
         Sought(r.now) => HasName(r.now.id)',
         \A q \in Proc : q # p => EmptyFits(Now(q))' /\ RightInode(job[q])',
         \A i \in Id : (\E q \in Proc : q # p /\ Sought(Now(q)) /\ Now(q).id = i) => HasName(i)'
  PROVE  /\ TableFits'
         /\ MountsHold(p, r) => Sound'
PROOF
<1>1. /\ job' \in [Proc -> Job] /\ job'[p] = r /\ Now(p)' = r.now /\ JobsFit'
      /\ \A q \in Proc : q # p => job'[q] = job[q] /\ Now(q)' = Now(q)
  BY NowAfter
<1>2. TypeOK'  BY <1>1 DEF TypeOK, EntriesTyped
<1>3. ASSUME NEW q \in Proc
      PROVE  EmptyFits(Now(q))' /\ RightInode(job[q])'
  <2>1. CASE q = p  BY <1>1, <2>1 DEF EmptyFits, RightInode, Now, Reader
  <2>2. CASE q # p  BY <2>2
  <2>3. QED  BY <2>1, <2>2
<1>4. ASSUME NEW q \in Proc PROVE (Sought(Now(q)) => HasName(Now(q).id))'
  <2>1. CASE q = p  BY <1>1, <2>1 DEF Sought
  <2>2. CASE q # p
    <3>1. Sought(Now(q)) => Now(q).id \in Id  BY CallOf DEF Sought, Call
    <3>2. PICK k \in Call : k = Now(q)  BY CallOf
    <3>3. Sought(k) => HasName(k.id)'  BY <2>2, <3>1, <3>2
    <3>4. Now(q)' = k  BY <1>1, <2>2, <3>2
    <3>5. QED  BY <3>3, <3>4
  <2>3. QED  BY <2>1, <2>2
<1>5. TableFits'
  <2>1. CallsFit'  BY <1>3, <1>4 DEF CallsFit
  <2>2. QED  BY <1>1, <1>2, <2>1 DEF TableFits
<1>6. ASSUME MountsHold(p, r) PROVE Sound'
  <2>1. ASSUME NEW q \in Proc, NEW u \in Proc PROVE q = u \/ Apart(Now(q)', Now(u)')
    <3>1. CASE q = p  BY <1>1, <1>6, <3>1 DEF MountsHold, IsApart
    <3>2. CASE u = p  BY <1>1, <1>6, <3>2 DEF MountsHold, IsApart
    <3>3. CASE q # p /\ u # p  BY <1>1, <3>3 DEF Sound
    <3>4. QED  BY <3>1, <3>2, <3>3
  <2>2. \A q, u \in Proc : q = u \/ Apart(Now(q), Now(u))'  BY <2>1 DEF Apart, Past
  <2>3. ASSUME NEW q \in Proc PROVE MountFits(Now(q))'
    <3>1. CASE q = p  BY <1>1, <1>6, <3>1 DEF MountsHold, MountFits, Now
    <3>2. CASE q # p  BY <1>6, <3>2 DEF MountsHold
    <3>3. QED  BY <3>1, <3>2
  <2>4. QED  BY <1>5, <2>2, <2>3 DEF Sound
<1>7. QED  BY <1>5, <1>6

(* The inodes are what they were, in memory or on disk. *)
LEMMA Steady ==
  ASSUME Sound, NEW p \in Proc, NEW r, Becomes(p, r), EntriesTyped', imap' = imap, latest' = latest,
         \A i \in Id : Current(i)' = Current(i),
         CountIsReferences', OneCopy', Locks', FreeIsReady', EntriesFit', Clean', SuperFits',
         EmptyFits(r.now)', RightInode(r)',
         Sought(r.now) => HasName(r.now.id),
         \A q \in Proc : q # p => EmptyFits(Now(q))' /\ RightInode(job[q])'
  PROVE  /\ TableFits'
         /\ MountsHold(p, r) => Sound'
PROOF
<1>1. \A i \in Id : HasName(i)' <=> HasName(i)  BY DEF HasName
<1>2. Kept'
  <2>1. \A i \in imap : i \in Id /\ \A c \in Current(i) : c.ver = latest[i]
    BY DEF Sound, TableFits, Kept, TypeOK
  <2>2. QED  BY <2>1 DEF Kept, Clean
<1>3. Root2 \in Id /\ HasName(Root2)'  BY <1>1 DEF Id, Sound, TableFits
<1>4. \A i \in Id : (\E q \in Proc : q # p /\ Sought(Now(q)) /\ Now(q).id = i) => HasName(i)'
  BY <1>1, CallOf
<1>5. Sought(r.now) => HasName(r.now.id)'
  <2>1. Sought(r.now) => r.now.id \in Id  BY DEF Becomes, Job, Call, Sought
  <2>2. QED  BY <1>1, <2>1
<1>6. QED  BY <1>2, <1>3, <1>4, <1>5, Whole

LEMMA OthersHold ==
  ASSUME Sound, NEW p \in Proc, NEW r, Becomes(p, r), NEW q \in Proc, q # p,
         \A x \in Uses(job[q]) : table'[x].id = table[x].id,
         Now(q).e # NoSlot => table'[Now(q).e] = table[Now(q).e],
         Now(q).at = "truncate" => /\ table'[Now(q).s].nlink = table[Now(q).s].nlink
                                   /\ table'[Now(q).s].count = table[Now(q).s].count
  PROVE  EmptyFits(Now(q))' /\ RightInode(job[q])'
PROOF
<1> PICK k \in Job : k = job[q]  BY CallOf
<1>1. /\ job'[q] = k /\ Now(q)' = k.now /\ Now(q) = k.now /\ k.now \in Call
      /\ JobFits(k) /\ EmptyFits(k.now) /\ RightInode(k)
  BY NowAfter, CallOf
<1>2. EmptyFits(k.now)'
  BY <1>1 DEF EmptyFits, JobFits, HoldsFit
<1>3. RightInode(k)'
  <2>1. k.ref # NoSlot => k.ref \in Uses(k)  BY DEF Job, SlotOrNone, Uses
  <2>2. k.now.dir # NoSlot => k.now.dir \in Uses(k)  BY <1>1 DEF Call, SlotOrNone, Uses
  <2>3. k.now.at \in UsesS => k.now.s \in Uses(k)
    BY <1>1 DEF Call, SlotOrNone, Uses, UsesS, JobFits, HoldsFit, Putting
  <2> HIDE DEF Uses
  <2>4. QED  BY <1>1, <2>1, <2>2, <2>3 DEF RightInode, UsesS, Putting
<1>4. EmptyFits(Now(q))' = EmptyFits(k.now)'  BY <1>1 DEF EmptyFits
<1>5. RightInode(job[q])' = RightInode(k)'  BY <1>1 DEF RightInode
<1>6. QED  BY <1>2, <1>3, <1>4, <1>5

LEMMA OthersMount ==
  ASSUME Sound, NEW p \in Proc, NEW r, Becomes(p, r), NEW q \in Proc, q # p, sb' = sb,
         Now(q).op = "umount" =>
           \A s \in Slot : /\ table'[s].mount = table[s].mount
                           /\ InUse2(s)' => InUse2(s) /\ table'[s].count = table[s].count
  PROVE  MountFits(Now(q))'
PROOF
<1>1. Now(q)' = Now(q) /\ MountFits(Now(q))  BY NowAfter, CallOf
<1>2. QED  BY <1>1 DEF MountFits

LEMMA SuperStays ==
  ASSUME Sound, NEW p \in Proc, NEW r, Becomes(p, r), sb' = sb,
         \A s \in Slot : /\ table'[s].mount = table[s].mount
                         /\ InUse2(s)' => InUse2(s) \/ (sb.dev /\ ~sb.lock),
         \A s \in Slot : s = sb.mounted \/ s = sb.covered => table'[s].id = table[s].id,
         Now(p).op = "umount" => r.now.op = "umount"
  PROVE  SuperFits'
PROOF
<1>1. SuperFits /\ TypeOK  BY DEF Sound, TableFits
<1>2. Now(p)' = r.now /\ \A q \in Proc : q # p => Now(q)' = Now(q)  BY NowAfter
<1>3. Umounting => Umounting'  BY <1>2 DEF Umounting
<1>4. {sb.covered, sb.mounted} \subseteq SlotOrNone  BY <1>1 DEF TypeOK, Super
<1>5. /\ sb.covered # NoSlot => /\ table'[sb.covered].mount = table[sb.covered].mount
                                /\ table'[sb.covered].id = table[sb.covered].id
      /\ sb.mounted # NoSlot => table'[sb.mounted].id = table[sb.mounted].id
  BY <1>4 DEF SlotOrNone
<1>6. QED  BY <1>1, <1>3, <1>5 DEF SuperFits

(* Only the call moves on. *)
LEMMA JobStep ==
  ASSUME Sound, NEW p \in Proc, NEW r, Becomes(p, r), UNCHANGED <<table, disk, imap, sb, latest>>,
         \A s \in Slot : OfJob(HeldBy(r), s) = OfJob(HeldBy(job[p]), s),
         Locker(r.now) = Locker(Now(p)), Reader(r.now) = Reader(Now(p)),
         Now(p).op = "umount" => r.now.op = "umount",
         EmptyFits(r.now), RightInode(r), Sought(r.now) => HasName(r.now.id)
  PROVE  /\ TableFits'
         /\ MountFits(r.now) /\ IsApart(p, r) => Sound'
PROOF
<1>1. EntriesTyped'  BY DEF EntriesTyped, Sound, TableFits, TypeOK
<1>2. \A s : BeingRead(s)' <=> BeingRead(s)  BY ReadsStay
<1>3. \A i \in Id : Current(i)' = Current(i)  BY <1>2, ContentsStay
<1>4. CountIsReferences'  BY CountsStay
<1>5. Locks'
  <2>1. \A s \in Slot : Locker(Now(p)) = s => table[s].lock  BY DEF Sound, TableFits, Locks
  <2>2. QED  BY <2>1, LocksFit
<1>6. OneCopy' /\ FreeIsReady' /\ EntriesFit' /\ Clean'
  BY DEF Sound, TableFits, OneCopy, FreeIsReady, Free, Ready, Unlocked, EntriesFit, Kept, Clean, Saved
<1>7. SuperFits'
  <2>1. \A s \in Slot : InUse2(s)' => InUse2(s)  BY DEF InUse2
  <2>2. QED  BY <2>1, SuperStays
<1>8. \A q \in Proc : q # p => EmptyFits(Now(q))' /\ RightInode(job[q])'  BY OthersHold
<1>9. EmptyFits(r.now)' /\ RightInode(r)'  BY DEF EmptyFits, RightInode
<1>10. ASSUME MountFits(r.now), IsApart(p, r) PROVE MountsHold(p, r)
  <2>1. \A s \in Slot : InUse2(s)' <=> InUse2(s)  BY DEF InUse2
  <2>2. \A q \in Proc : q # p => MountFits(Now(q))'  BY <2>1, OthersMount
  <2>3. MountFits(r.now)'  BY <1>10, <2>1 DEF MountFits
  <2>4. QED  BY <1>10, <2>2, <2>3 DEF MountsHold
<1>11. QED  BY <1>1, <1>3, <1>4, <1>5, <1>6, <1>7, <1>8, <1>9, <1>10, Steady

(***************************************************************************)
(* Calls begin.                                                            *)
(***************************************************************************)
LEMMA IsOut ==
  ASSUME Sound, NEW p \in Proc, At(p, "out")
  PROVE  Now(p) = Out
PROOF
<1> PICK j \in Call : j = Now(p)  BY CallOf
<1>1. j.at = "out" /\ JobFits(job[p]) /\ j = job[p].now /\ j.op \in Ops
  BY CallOf DEF At, Call
<1>2. j.op = "out"  BY <1>1 DEF JobFits, OpFits, Ops, Seeking, Putting
<1>3. QED  BY <1>1, <1>2 DEF JobFits, OpFits

LEMMA NamedHasName ==
  ASSUME Sound, NEW i \in Id, Named(i)
  PROVE  HasName(i)
PROOF
<1>1. NoId \notin Id /\ TypeOK  BY InodesAssumption DEF Sound, TableFits
<1>2. CASE \E s \in Holders(i) : table[s].nlink > 0
  <2>1. PICK s \in Slot : table[s].id = i /\ table[s].nlink > 0  BY <1>2 DEF Holders
  <2>2. ~BeingRead(s)
    <3> SUFFICES ASSUME NEW q \in Proc, Reader(Now(q)) = s PROVE FALSE  BY DEF BeingRead
    <3>1. Now(q).at = "read" /\ Now(q).e = s  BY InodesAssumption DEF Reader
    <3>2. table[s].nlink = 0  BY <3>1, CallOf DEF EmptyFits, Claimed, Zero
    <3>3. QED  BY <2>1, <3>2
  <2>3. Current(i) = {Saved(s)}  BY <2>1, <2>2, CurrentIs
  <2>4. QED  BY <2>1, <2>3 DEF HasName, Named, Saved
<1>3. CASE Holders(i) = {} /\ disk[i].nlink > 0
  <2>1. Current(i) = {disk[i]}  BY <1>3, CurrentIs DEF Holders
  <2>2. QED  BY <1>3, <2>1 DEF HasName, Named
<1>4. QED  BY <1>2, <1>3 DEF Named

(* A call has begun: nothing is held, nothing is locked. *)
LEMMA Begun ==
  ASSUME Sound, NEW p \in Proc, Idle(p), NEW j \in Call, Become(p, j),
         UNCHANGED <<table, disk, imap, sb, latest>>,
         OpFits(j), j.op \notin {"close", "umount"}, j.at \in {"empty", "sync"},
         j.e = NoSlot, j.s = NoSlot, j.dir = NoSlot, j.id # Root2,
         j.id # NoId => HasName(j.id)
  PROVE  Sound'
PROOF
<1> PICK r \in Job : r = [now |-> j, ref |-> NoSlot]  BY DEF Job, SlotOrNone
<1>1. Now(p) = Out /\ job[p].ref = NoSlot /\ NoSlot \notin Slot /\ r.now = j /\ r.ref = NoSlot
  BY IsOut, InodesAssumption DEF Idle
<1>2. Becomes(p, r)
  <2>1. job' = [job EXCEPT ![p] = r]  BY <1>1, BecomeIs
  <2>2. HoldsFit(j)  BY DEF HoldsFit, Putting
  <2>3. QED  BY <1>1, <2>1, <2>2 DEF Becomes, JobFits
<1>3. \A s \in Slot : OfJob(HeldBy(r), s) = OfJob(HeldBy(job[p]), s)
  <2>1. job[p].now = Out /\ Out.e = NoSlot /\ Out.s = NoSlot /\ Out.dir = NoSlot
    BY <1>1 DEF Now, Out
  <2>2. QED  BY <1>1, <2>1 DEF OfJob, One, HeldBy, Putting
<1>4. Locker(r.now) = Locker(Now(p)) /\ Reader(r.now) = Reader(Now(p)) /\ Now(p).op # "umount"
  BY <1>1 DEF Locker, Reader, Out
<1>5. EmptyFits(r.now) /\ RightInode(r) /\ MountFits(r.now)
  BY <1>1 DEF EmptyFits, RightInode, MountFits, Putting
<1>6. Sought(r.now) => HasName(r.now.id)  BY <1>1 DEF Sought
<1>7. IsApart(p, r)  BY <1>1, CallOf DEF IsApart, Apart, Past, Out
<1>8. QED  BY <1>2, <1>3, <1>4, <1>5, <1>6, <1>7, JobStep

LEMMA OutIsCall == Out \in Call /\ Out.e = NoSlot /\ Out.s = NoSlot /\ Out.dir = NoSlot
PROOF BY DEF Out, Call, Ops, Locations, SlotOrNone

LEMMA OpenStep == ASSUME Sound, NEW p \in Proc, Open(p) PROVE Sound'
PROOF
<1>1. PICK i \in File : Named(i) /\ Become(p, [Out EXCEPT !.op = "open", !.at = "empty", !.id = i])
  BY DEF Open
<1> PICK j \in Call : j = [Out EXCEPT !.op = "open", !.at = "empty", !.id = i]
  BY DEF Out, Call, Ops, Locations, SlotOrNone, Id
<1>2. /\ j.op = "open" /\ j.at = "empty" /\ j.id = i /\ j.e = NoSlot /\ j.s = NoSlot
      /\ j.dir = NoSlot
  BY DEF Out
<1>3. OpFits(j) /\ i \in Id /\ i # Root2 /\ HasName(i)
  BY <1>1, <1>2, NamedHasName, InodesAssumption DEF OpFits, Seeking, Id
<1>4. QED  BY <1>1, <1>2, <1>3, Begun DEF Open

LEMMA CreateStep == ASSUME Sound, NEW p \in Proc, Create(p) PROVE Sound'
PROOF
<1> PICK j \in Call : j = [Out EXCEPT !.op = "new", !.at = "empty"]
  BY DEF Out, Call, Ops, Locations, SlotOrNone
<1>1. /\ j.op = "new" /\ j.at = "empty" /\ j.id = NoId /\ j.e = NoSlot /\ j.s = NoSlot
      /\ j.dir = NoSlot
  BY DEF Out
<1>2. OpFits(j) /\ NoId # Root2  BY <1>1, InodesAssumption DEF OpFits, Id
<1>3. QED  BY <1>1, <1>2, Begun DEF Create

LEMMA SyncStep == ASSUME Sound, NEW p \in Proc, Sync(p) PROVE Sound'
PROOF
<1> PICK j \in Call : j = [Out EXCEPT !.op = "sync", !.at = "sync", !.todo = Slot]
  BY DEF Out, Call, Ops, Locations, SlotOrNone
<1>1. /\ j.op = "sync" /\ j.at = "sync" /\ j.id = NoId /\ j.e = NoSlot /\ j.s = NoSlot
      /\ j.dir = NoSlot
  BY DEF Out
<1>2. OpFits(j) /\ NoId # Root2  BY <1>1, InodesAssumption DEF OpFits, Id
<1>3. QED  BY <1>1, <1>2, Begun DEF Sync

LEMMA MountStep == ASSUME Sound, NEW p \in Proc, Mount(p) PROVE Sound'
PROOF
<1>1. PICK i \in MountPoint :
        Named(i) /\ Become(p, [Out EXCEPT !.op = "mount", !.at = "empty", !.id = i])
  BY DEF Mount
<1> PICK j \in Call : j = [Out EXCEPT !.op = "mount", !.at = "empty", !.id = i]
  BY InodesAssumption DEF Out, Call, Ops, Locations, SlotOrNone, Id
<1>2. /\ j.op = "mount" /\ j.at = "empty" /\ j.id = i /\ j.e = NoSlot /\ j.s = NoSlot
      /\ j.dir = NoSlot
  BY DEF Out
<1>3. OpFits(j) /\ i \in Id /\ i # Root2 /\ HasName(i)
  BY <1>1, <1>2, NamedHasName, InodesAssumption DEF OpFits, Seeking, Id
<1>4. QED  BY <1>1, <1>2, <1>3, Begun DEF Mount

LEMMA CloseStep == ASSUME Sound, NEW p \in Proc, Close(p) PROVE Sound'
PROOF
<1> PICK j \in Call : j = [Out EXCEPT !.op = "close", !.at = "put", !.s = job[p].ref]
  BY CallOf DEF Out, Call, Ops, Locations, SlotOrNone, Job
<1>1. /\ j.op = "close" /\ j.at = "put" /\ j.id = NoId /\ j.e = NoSlot /\ j.s = job[p].ref
      /\ j.dir = NoSlot
  BY DEF Out
<1> PICK r \in Job : r = [now |-> j, ref |-> job[p].ref]  BY CallOf DEF Job
<1>2. /\ Now(p) = Out /\ job[p].ref # NoSlot /\ NoSlot \notin Slot /\ r.now = j /\ r.ref = job[p].ref
      /\ NoId # Root2
  BY IsOut, InodesAssumption DEF Close, Id
<1>3. Becomes(p, r)
  <2>1. job' = [job EXCEPT ![p] = r]  BY BecomeIs DEF Close
  <2>2. OpFits(j) /\ HoldsFit(j)  BY <1>1, <1>2 DEF OpFits, HoldsFit, Putting
  <2>3. QED  BY <1>1, <1>2, <2>1, <2>2 DEF Becomes, JobFits
<1>4. \A s \in Slot : OfJob(HeldBy(r), s) = OfJob(HeldBy(job[p]), s)
  <2>1. /\ job[p].now = Out /\ Out.e = NoSlot /\ Out.s = NoSlot /\ Out.dir = NoSlot
        /\ Out.at = "out"
    BY <1>2 DEF Now, Out
  <2>2. HeldBy(r) = [ref |-> job[p].ref, e |-> NoSlot, dir |-> NoSlot, s |-> NoSlot]
    BY <1>1, <1>2 DEF HeldBy, Putting
  <2>3. HeldBy(job[p]) = [ref |-> job[p].ref, e |-> NoSlot, dir |-> NoSlot, s |-> NoSlot]
    BY <2>1 DEF HeldBy, Putting
  <2>4. QED  BY <2>2, <2>3
<1>5. Locker(r.now) = Locker(Now(p)) /\ Reader(r.now) = Reader(Now(p)) /\ Now(p).op # "umount"
  <2>1. Out.at = "out" /\ Out.op = "out"  BY DEF Out
  <2>2. QED  BY <1>1, <1>2, <2>1 DEF Locker, Reader
<1>6. EmptyFits(r.now) /\ RightInode(r) /\ MountFits(r.now)
  <2>1. table[job[p].ref].id # NoId  BY <1>2, CallOf DEF RightInode
  <2>2. EmptyFits(j) /\ MountFits(j)  BY <1>1, <1>2 DEF EmptyFits, MountFits
  <2>3. RightInode(r)  BY <1>1, <1>2, <2>1 DEF RightInode, Putting
  <2>4. QED  BY <1>2, <2>2, <2>3
<1>7. Sought(r.now) => HasName(r.now.id)  BY <1>1, <1>2 DEF Sought
<1>8. IsApart(p, r)  BY <1>1, <1>2, CallOf DEF IsApart, Apart, Past, Out
<1>9. QED  BY <1>3, <1>4, <1>5, <1>6, <1>7, <1>8, JobStep DEF Close

(***************************************************************************)
(* Mounts.                                                                 *)
(***************************************************************************)
(* What iget has got is held from now on, no longer by the way there. *)
LEMMA MountedWaitStep == ASSUME Sound, NEW p \in Proc, MountedWait(p) PROVE Sound'
PROOF
<1> PICK k \in Job : k = job[p]  BY CallOf
<1>1. /\ k.now.at = "mwait" /\ Now(p) = k.now /\ k.now \in Call /\ JobFits(k) /\ NoSlot \notin Slot
      /\ RightInode(k) /\ NoId # Root2 /\ Root2 \notin MountPoint /\ Root2 \notin File
  BY CallOf, InodesAssumption DEF MountedWait, At, Id
<1>2. /\ k.now.s \in Slot /\ k.now.e = NoSlot /\ k.now.dir = NoSlot /\ k.ref = NoSlot
      /\ k.now.op \in {"open", "mount"} /\ k.now.id # Root2 /\ table[k.now.s].id = Root2
      /\ k.now.op = "mount" => k.now.id \in MountPoint
  BY <1>1 DEF JobFits, OpFits, HoldsFit, Call, SlotOrNone, Ops, Seeking, Putting, Out, RightInode
<1>3. CASE k.now.op = "open"
  <2> PICK r \in Job : r = [now |-> Out, ref |-> k.now.s]
    BY <1>2, OutIsCall DEF Job, SlotOrNone
  <2>1. r.now = Out /\ r.ref = k.now.s /\ Out.at = "out" /\ Out.op = "out" /\ Out.id = NoId
    BY DEF Out
  <2>2. Becomes(p, r)
    <3>1. job' = [job EXCEPT ![p] = r]  BY <1>1, <1>3 DEF MountedWait, Got
    <3>2. OpFits(Out) /\ HoldsFit(Out)  BY <2>1, OutIsCall DEF OpFits, HoldsFit, Putting
    <3>3. QED  BY <2>1, <3>1, <3>2 DEF Becomes, JobFits
  <2>3. \A s \in Slot : OfJob(HeldBy(r), s) = OfJob(HeldBy(k), s)
    BY <1>1, <1>2, <2>1, OutIsCall DEF OfJob, One, HeldBy, Putting
  <2>4. /\ Locker(r.now) = Locker(Now(p)) /\ Reader(r.now) = Reader(Now(p))
        /\ Now(p).op # "umount" /\ ~Sought(r.now)
    BY <1>1, <1>3, <2>1 DEF Locker, Reader, Sought, Seeking
  <2>5. EmptyFits(r.now) /\ MountFits(r.now)
    BY <1>1, <2>1, OutIsCall DEF EmptyFits, MountFits
  <2>6. RightInode(r)  BY <1>1, <1>2, <2>1, OutIsCall DEF RightInode, Putting
  <2>7. IsApart(p, r)  BY <2>1, OutIsCall, CallOf DEF IsApart, Apart, Past
  <2>8. QED  BY <2>2, <2>3, <2>4, <2>5, <2>6, <2>7, JobStep DEF MountedWait
<1>4. CASE k.now.op = "mount"
  <2> PICK j \in Call : j = [k.now EXCEPT !.at = "found", !.e = NoSlot, !.s = k.now.s]
    BY <1>1, <1>2 DEF Call, Locations, SlotOrNone
  <2> PICK r \in Job : r = [now |-> j, ref |-> k.ref]  BY DEF Job
  <2>1. /\ r.now = j /\ r.ref = NoSlot /\ j.at = "found" /\ j.op = "mount" /\ j.id \in MountPoint
        /\ j.e = NoSlot /\ j.s = k.now.s /\ j.dir = NoSlot
    BY <1>1, <1>2, <1>4 DEF Call
  <2>2. Becomes(p, r)
    <3>1. job' = [job EXCEPT ![p] = r]
      BY <1>1, <1>2, <1>4, BecomeIs DEF MountedWait, Got
    <3>2. OpFits(j)  BY <2>1 DEF OpFits
    <3>3. HoldsFit(j)  BY <1>1, <1>2, <2>1 DEF HoldsFit, Putting
    <3>4. QED  BY <2>1, <3>1, <3>2, <3>3 DEF Becomes, JobFits
  <2>3. \A s \in Slot : OfJob(HeldBy(r), s) = OfJob(HeldBy(k), s)
    <3>1. HeldBy(r) = HeldBy(k)  BY <1>1, <1>2, <2>1 DEF HeldBy
    <3>2. QED  BY <3>1
  <2>4. /\ Locker(r.now) = Locker(Now(p)) /\ Reader(r.now) = Reader(Now(p))
        /\ Now(p).op # "umount" /\ ~Sought(r.now)
    BY <1>1, <1>4, <2>1 DEF Locker, Reader, Sought, Seeking
  <2>5. EmptyFits(r.now) /\ MountFits(r.now)  BY <1>1, <2>1 DEF EmptyFits, MountFits
  <2>6. RightInode(r)  BY <1>1, <1>2, <2>1 DEF RightInode, Putting
  <2>7. IsApart(p, r)
    <3>1. \A q \in Proc : q # p => Apart(k.now, Now(q)) /\ Apart(Now(q), k.now)
      BY <1>1, CallOf
    <3>2. QED  BY <1>1, <2>1, <3>1 DEF IsApart, Apart, Past
  <2>8. QED  BY <2>2, <2>3, <2>4, <2>5, <2>6, <2>7, JobStep DEF MountedWait
<1>5. QED  BY <1>2, <1>3, <1>4

LEMMA MountFoundStep == ASSUME Sound, NEW p \in Proc, MountFound(p) PROVE Sound'
PROOF
<1> PICK k \in Job : k = job[p]  BY CallOf
<1> DEFINE s == k.now.s
<1>1. /\ k.now.at = "found" /\ Now(p) = k.now /\ k.now \in Call /\ JobFits(k) /\ NoSlot \notin Slot
      /\ RightInode(k) /\ NoId # Root2 /\ Root2 \notin MountPoint /\ NoId \notin MountPoint
  BY CallOf, InodesAssumption DEF MountFound, At, Id
<1>2. /\ s \in Slot /\ k.now.e = NoSlot /\ k.now.dir = NoSlot /\ k.ref = NoSlot
      /\ k.now.op = "mount" /\ k.now.id \in MountPoint /\ table[s].id \in MountPoint \cup {Root2}
      /\ s \in Uses(k)
  BY <1>1 DEF JobFits, OpFits, HoldsFit, Call, SlotOrNone, Ops, Seeking, Putting, Out, RightInode,
              Uses, UsesS
<1>4. CASE Refuse(p, s)
  <2> PICK j \in Call : j = [k.now EXCEPT !.at = "put", !.s = s]
    BY <1>1, <1>2 DEF Call, Locations, SlotOrNone
  <2> PICK r \in Job : r = [now |-> j, ref |-> k.ref]  BY DEF Job
  <2>1. /\ r.now = j /\ r.ref = NoSlot /\ j.at = "put" /\ j.op = "mount" /\ j.id \in MountPoint
        /\ j.e = NoSlot /\ j.s = s /\ j.dir = NoSlot
    BY <1>1, <1>2 DEF Call
  <2>2. Becomes(p, r)
    <3>1. job' = [job EXCEPT ![p] = r]  BY <1>1, <1>4, BecomeIs DEF Refuse
    <3>2. OpFits(j) /\ HoldsFit(j)  BY <1>1, <1>2, <2>1 DEF OpFits, HoldsFit, Putting
    <3>3. QED  BY <2>1, <3>1, <3>2 DEF Becomes, JobFits
  <2>3. \A t \in Slot : OfJob(HeldBy(r), t) = OfJob(HeldBy(k), t)
    <3>1. HeldBy(r) = HeldBy(k)  BY <1>1, <1>2, <2>1 DEF HeldBy, Putting
    <3>2. QED  BY <3>1
  <2>4. /\ Locker(r.now) = Locker(Now(p)) /\ Reader(r.now) = Reader(Now(p))
        /\ Now(p).op # "umount" /\ ~Sought(r.now)
    BY <1>1, <1>2, <2>1 DEF Locker, Reader, Sought, Seeking
  <2>5. EmptyFits(r.now) /\ MountFits(r.now)  BY <1>1, <2>1 DEF EmptyFits, MountFits
  <2>6. RightInode(r)
    <3>1. table[s].id # NoId  BY <1>1, <1>2
    <3>2. QED  BY <1>1, <1>2, <2>1, <3>1 DEF RightInode, Putting
  <2>7. IsApart(p, r)  BY <1>1, <2>1 DEF IsApart, Apart, Past
  <2>8. QED  BY <2>2, <2>3, <2>4, <2>5, <2>6, <2>7, JobStep DEF MountFound
<1>5. CASE ~Busy(s) /\ Become(p, [Now(p) EXCEPT !.at = "super", !.dir = s, !.s = NoSlot])
  <2> PICK j \in Call : j = [k.now EXCEPT !.at = "super", !.dir = s, !.s = NoSlot]
    BY <1>1, <1>2 DEF Call, Locations, SlotOrNone
  <2> PICK r \in Job : r = [now |-> j, ref |-> k.ref]  BY DEF Job
  <2>1. /\ r.now = j /\ r.ref = NoSlot /\ j.at = "super" /\ j.op = "mount" /\ j.id \in MountPoint
        /\ j.e = NoSlot /\ j.s = NoSlot /\ j.dir = s
    BY <1>1, <1>2 DEF Call
  <2>2. Becomes(p, r)
    <3>1. job' = [job EXCEPT ![p] = r]  BY <1>1, <1>5, BecomeIs
    <3>2. OpFits(j) /\ HoldsFit(j)  BY <1>1, <1>2, <2>1 DEF OpFits, HoldsFit, Putting
    <3>3. QED  BY <2>1, <3>1, <3>2 DEF Becomes, JobFits
  <2>3. \A t \in Slot : OfJob(HeldBy(r), t) = OfJob(HeldBy(k), t)
    <3>1. HeldBy(r) = [ref |-> NoSlot, e |-> NoSlot, dir |-> s, s |-> NoSlot]
      BY <2>1 DEF HeldBy
    <3>2. HeldBy(k) = [ref |-> NoSlot, e |-> NoSlot, dir |-> NoSlot, s |-> s]
      BY <1>1, <1>2 DEF HeldBy
    <3>3. QED  BY <3>1, <3>2, OneType DEF OfJob
  <2>4. /\ Locker(r.now) = Locker(Now(p)) /\ Reader(r.now) = Reader(Now(p))
        /\ Now(p).op # "umount" /\ ~Sought(r.now)
    BY <1>1, <1>2, <2>1 DEF Locker, Reader, Sought, Seeking
  <2>5. table[s].count = 1 /\ table[s].id \in MountPoint  BY <1>2, <1>5 DEF Busy
  <2>6. EmptyFits(r.now) /\ MountFits(r.now)  BY <1>1, <2>1 DEF EmptyFits, MountFits
  <2>7. RightInode(r)  BY <1>1, <1>2, <2>1, <2>5 DEF RightInode, Putting
  <2>8. IsApart(p, r)  BY <1>1, <2>1 DEF IsApart, Apart, Past
  <2>9. QED  BY <2>2, <2>3, <2>4, <2>6, <2>7, <2>8, JobStep DEF MountFound
<1>6. QED  BY <1>1, <1>4, <1>5 DEF MountFound

(* The super block changes, and whether an entry is mounted on or dirty. *)
LEMMA SuperStep ==
  ASSUME Sound, NEW p \in Proc, NEW r, Becomes(p, r), UNCHANGED <<disk, imap, latest>>,
         sb' \in Super, table' \in [Slot -> Inode],
         \A s \in Slot :
           /\ table'[s].id = table[s].id /\ table'[s].nlink = table[s].nlink
           /\ table'[s].ver = table[s].ver /\ table'[s].count = table[s].count
           /\ table'[s].lock = table[s].lock
           /\ table'[s].dirt = table[s].dirt \/ (table'[s].dirt /\ table[s].count # 0 /\ table[s].id # NoId),
         \A s \in Slot : One(sb'.covered, s) - One(sb.covered, s) + One(sb'.mounted, s)
                           - One(sb.mounted, s) = OfJob(HeldBy(job[p]), s) - OfJob(HeldBy(r), s),
         Locker(Now(p)) = NoSlot, Locker(r.now) = NoSlot, Reader(r.now) = Reader(Now(p)),
         r.now.e = NoSlot, RightInode(r), Sought(r.now) => HasName(r.now.id),
         \A q \in Proc : q # p => (Now(q).e # NoSlot => table'[Now(q).e] = table[Now(q).e]),
         SuperFits'
  PROVE  /\ TableFits'
         /\ MountsHold(p, r) => Sound'
PROOF
<1>1. EntriesTyped'  BY DEF EntriesTyped, Sound, TableFits, TypeOK
<1>2. \A s : BeingRead(s)' <=> BeingRead(s)  BY ReadsStay
<1>3. \A i \in Id : Current(i)' = Current(i)  BY <1>2, ContentsStay
<1>4. CountIsReferences'
  <2>1. \A s \in Slot : /\ OfJob(HeldBy(r), s) \in Nat /\ OfJob(HeldBy(job[p]), s) \in Nat
                        /\ One(sb.covered, s) \in Nat /\ One(sb.mounted, s) \in Nat
                        /\ One(sb'.covered, s) \in Nat /\ One(sb'.mounted, s) \in Nat
                        /\ table[s].count \in Int
    BY OfJobType, OneType DEF Sound, TableFits, TypeOK, Inode
  <2>2. \A s \in Slot : table'[s].count = table[s].count
                           + OfJob(HeldBy(r), s) - OfJob(HeldBy(job[p]), s)
                           + One(sb'.covered, s) - One(sb.covered, s)
                           + One(sb'.mounted, s) - One(sb.mounted, s)
    <3> SUFFICES ASSUME NEW s \in Slot
                 PROVE  table'[s].count = table[s].count
                           + OfJob(HeldBy(r), s) - OfJob(HeldBy(job[p]), s)
                           + One(sb'.covered, s) - One(sb.covered, s)
                           + One(sb'.mounted, s) - One(sb.mounted, s)
      OBVIOUS
    <3>1. /\ One(sb'.covered, s) - One(sb.covered, s) + One(sb'.mounted, s) - One(sb.mounted, s)
               = OfJob(HeldBy(job[p]), s) - OfJob(HeldBy(r), s)
          /\ table'[s].count = table[s].count
      OBVIOUS
    <3> DEFINE a == OfJob(HeldBy(r), s)
               b == OfJob(HeldBy(job[p]), s)
               u == One(sb'.covered, s)
               v == One(sb.covered, s)
               x == One(sb'.mounted, s)
               y == One(sb.mounted, s)
               c == table[s].count
    <3>2. /\ a \in Nat /\ b \in Nat /\ u \in Nat /\ v \in Nat /\ x \in Nat /\ y \in Nat
          /\ c \in Int /\ table'[s].count = c /\ u - v + x - y = b - a
      BY <2>1, <3>1
    <3> HIDE DEF a, b, u, v, x, y, c
    <3>3. table'[s].count = c + a - b + u - v + x - y  BY <3>2
    <3>4. QED  BY <3>3 DEF a, b, u, v, x, y, c
  <2>3. QED  BY <2>2, CountsFit
<1>5. Locks'
  <2>1. NoSlot \notin Slot  BY InodesAssumption
  <2>2. QED  BY <2>1, LocksFit
<1>6. OneCopy' /\ FreeIsReady' /\ EntriesFit'
  BY DEF Sound, TableFits, OneCopy, FreeIsReady, Free, Ready, Unlocked, EntriesFit
<1>7. Clean'
  <2>1. \A s \in Slot : Saved(s)' = Saved(s)  BY DEF Saved
  <2>2. QED  BY <2>1 DEF Sound, TableFits, Kept, Clean, Unlocked
<1>8. \A q \in Proc : q # p => EmptyFits(Now(q))' /\ RightInode(job[q])'
  <2> SUFFICES ASSUME NEW q \in Proc, q # p PROVE EmptyFits(Now(q))' /\ RightInode(job[q])'
    OBVIOUS
  <2>1. Now(q).at = "truncate" => Now(q).s \in Slot
    BY CallOf DEF JobFits, HoldsFit, Putting, Call, SlotOrNone
  <2>2. \A x \in Uses(job[q]) : x \in Slot  BY DEF Uses
  <2>3. QED  BY <2>1, <2>2, OthersHold
<1>9. EmptyFits(r.now)' /\ RightInode(r)'
  <2>1. EmptyFits(r.now)'  BY DEF EmptyFits, Becomes, JobFits, HoldsFit
  <2>2. r.now.at \in Putting \cup {"mwait", "mounted", "found"} => r.now.s \in Slot
    BY DEF Becomes, JobFits, HoldsFit, Putting, Call, SlotOrNone, Job
  <2>3. RightInode(r)'
    BY <2>2 DEF RightInode, Becomes, Job, Call, SlotOrNone, Putting
  <2>4. QED  BY <2>1, <2>3
<1>10. QED  BY <1>1, <1>3, <1>4, <1>5, <1>6, <1>7, <1>8, <1>9, Steady

(* A call that has the directory to mount on. *)
LEMMA DirIs ==
  ASSUME Sound, NEW p \in Proc, Now(p).dir # NoSlot
  PROVE  /\ Now(p).op = "mount" /\ Now(p).dir \in Slot /\ table[Now(p).dir].id \in MountPoint
         /\ NoId \notin MountPoint /\ Root2 \notin MountPoint
PROOF
<1>1. /\ Now(p).op = "mount" /\ Now(p).dir \in Slot /\ table[Now(p).dir].id \in MountPoint
  BY CallOf DEF JobFits, HoldsFit, RightInode, Call, SlotOrNone
<1>2. QED  BY <1>1, InodesAssumption DEF Id

LEMMA ToRoot2 ==
  ASSUME Sound, NEW p \in Proc, Now(p).id = Root2
  PROVE  Past(Now(p)) /\ Now(p).dir # NoSlot
PROOF
<1> PICK j \in Call : j = Now(p)  BY CallOf
<1>1. OpFits(j) /\ HoldsFit(j) /\ j.op \in Ops  BY CallOf DEF JobFits, Call
<1>2. Root2 \notin File /\ Root2 # NoId  BY InodesAssumption DEF Id
<1>3. j.op = "mount"  BY <1>1, <1>2 DEF OpFits, Ops, Out
<1>4. QED  BY <1>1, <1>3 DEF HoldsFit, Past

(* Who reads the super block, or mounts the device, is alone there. *)
LEMMA AtSuper ==
  ASSUME Sound, NEW p \in Proc, Now(p).at = "read_super" \/ Now(p).id = Root2
  PROVE  /\ Now(p).dir # NoSlot /\ sb.covered = NoSlot /\ sb.mounted = NoSlot
         /\ \A q \in Proc : q # p => /\ Now(q).op # "umount" /\ Now(q).id # Root2
                                     /\ Now(q).at # "read_super"
PROOF
<1>1. Now(p).dir # NoSlot
  <2> PICK j \in Call : j = Now(p)  BY CallOf
  <2>1. OpFits(j) /\ HoldsFit(j) /\ j.op \in Ops  BY CallOf DEF JobFits, Call
  <2>2. CASE j.at = "read_super"  BY <2>1, <2>2 DEF OpFits, HoldsFit, Ops, Seeking, Putting, Out
  <2>3. QED  BY <2>2, ToRoot2
<1>2. MountFits(Now(p))  BY CallOf
<1>3. sb.covered = NoSlot /\ sb.mounted = NoSlot  BY <1>2 DEF MountFits
<1>4. ASSUME NEW q \in Proc, q # p
      PROVE  Now(q).op # "umount" /\ Now(q).id # Root2 /\ Now(q).at # "read_super"
  <2>1. MountFits(Now(q)) /\ Apart(Now(p), Now(q))  BY <1>4, CallOf
  <2>2. CASE Now(p).at = "read_super"  BY <1>2, <2>1, <2>2 DEF MountFits, Apart
  <2>3. CASE Now(p).id = Root2
    <3>1. Past(Now(p)) /\ (Now(q).id = Root2 => Past(Now(q)))  BY <2>3, ToRoot2
    <3>2. QED  BY <1>2, <2>1, <2>3, <3>1 DEF MountFits, Apart, Past
  <2>4. QED  BY <2>2, <2>3
<1>5. QED  BY <1>1, <1>3, <1>4

(* Without a super block nothing is mounted, and nobody is at it. *)
LEMMA NoDevice ==
  ASSUME Sound, ~sb.dev
  PROVE  /\ sb.covered = NoSlot /\ sb.mounted = NoSlot
         /\ \A s \in Slot : ~InUse2(s) /\ ~table[s].mount
         /\ \A q \in Proc : /\ Now(q).op # "umount" /\ Now(q).id # Root2
                            /\ Now(q).at # "read_super"
PROOF
<1>1. \A q \in Proc : Now(q).op # "umount" /\ Now(q).id # Root2 /\ Now(q).at # "read_super"
  BY CallOf DEF MountFits
<1>2. SuperFits /\ sb \in Super /\ NoSlot \notin Slot
  BY InodesAssumption DEF Sound, TableFits, TypeOK
<1>3. \A s \in Slot : ~InUse2(s)  BY <1>2 DEF SuperFits
<1>4. sb.mounted = NoSlot
  <2> SUFFICES ASSUME sb.mounted # NoSlot PROVE FALSE
    OBVIOUS
  <2>1. sb.mounted \in Slot /\ table[sb.mounted].id = Root2
    BY <1>2 DEF SuperFits, Super, SlotOrNone
  <2>2. table[sb.mounted].count > 0  BY <2>1, Counted
  <2>3. QED  BY <1>3, <2>1, <2>2 DEF InUse2
<1>5. sb.covered = NoSlot  BY <1>2, <1>4 DEF SuperFits
<1>6. \A s \in Slot : ~table[s].mount  BY <1>2, <1>5 DEF SuperFits
<1>7. QED  BY <1>1, <1>3, <1>4, <1>5, <1>6

(* The call at the super block goes on, with the directory. *)
LEMMA DirCall ==
  ASSUME Sound, NEW p \in Proc, Now(p).dir # NoSlot, Now(p).at \in {"super", "read_super"},
         NEW r, \/ \E j \in Call : j = [Now(p) EXCEPT !.at = "put", !.s = Now(p).dir]
                                   /\ r = [now |-> j, ref |-> job[p].ref]
                \/ \E j \in Call : j = [Now(p) EXCEPT !.at = "empty", !.id = Root2]
                                   /\ r = [now |-> j, ref |-> job[p].ref]
                \/ \E j \in Call : j = [Now(p) EXCEPT !.at = "read_super"]
                                   /\ r = [now |-> j, ref |-> job[p].ref]
  PROVE  /\ r \in Job /\ JobFits(r) /\ r.now.op = "mount" /\ r.now.dir = Now(p).dir
         /\ r.now.e = NoSlot /\ RightInode(r) /\ HeldBy(r) = HeldBy(job[p])
         /\ Locker(r.now) = NoSlot /\ Locker(Now(p)) = NoSlot
         /\ Reader(r.now) = NoSlot /\ Reader(Now(p)) = NoSlot
         /\ r.now.id = Root2 <=> r.now.at = "empty"
         /\ Sought(r.now) => HasName(r.now.id)
         /\ r.now.at = "put" => IsApart(p, r)
         /\ EmptyFits(r.now)
PROOF
<1> PICK k \in Job : k = job[p]  BY CallOf
<1>1. /\ k.now = Now(p) /\ k.now \in Call /\ JobFits(k) /\ NoSlot \notin Slot /\ RightInode(k)
      /\ NoId # Root2 /\ Root2 \notin MountPoint /\ NoId \notin MountPoint /\ HasName(Root2)
  BY CallOf, InodesAssumption DEF Id, Sound, TableFits
<1>2. /\ k.now.e = NoSlot /\ k.ref = NoSlot /\ k.now.op = "mount" /\ k.now.id \in MountPoint
      /\ table[k.now.dir].id \in MountPoint /\ k.now.dir \in Slot
      /\ k.now.at \in {"super", "read_super"} /\ k.now.dir # NoSlot
  BY <1>1 DEF JobFits, OpFits, HoldsFit, Call, SlotOrNone, Ops, Seeking, Putting, Out, RightInode
<1>4. ASSUME NEW j \in Call, r = [now |-> j, ref |-> k.ref],
             \/ j = [k.now EXCEPT !.at = "put", !.s = k.now.dir]
             \/ j = [k.now EXCEPT !.at = "empty", !.id = Root2]
             \/ j = [k.now EXCEPT !.at = "read_super"]
      PROVE  /\ r.now = j /\ r.ref = NoSlot /\ j.op = "mount" /\ j.dir = k.now.dir /\ j.e = NoSlot
             /\ j.at \in {"put", "empty", "read_super"}
             /\ IF j.at = "empty" THEN j.id = Root2 ELSE j.id \in MountPoint
             /\ j.at = "put" => j.s = j.dir
             /\ r \in Job
  <2>1. r.now = j /\ r.ref = NoSlot /\ r \in Job  BY <1>2, <1>4 DEF Job
  <2>2. CASE j = [k.now EXCEPT !.at = "put", !.s = k.now.dir]
    BY <1>1, <1>2, <2>1, <2>2 DEF Call
  <2>3. CASE j = [k.now EXCEPT !.at = "empty", !.id = Root2]
    BY <1>1, <1>2, <2>1, <2>3 DEF Call
  <2>4. CASE j = [k.now EXCEPT !.at = "read_super"]
    BY <1>1, <1>2, <2>1, <2>4 DEF Call
  <2>5. QED  BY <1>4, <2>2, <2>3, <2>4
<1> PICK j \in Call :
      /\ r.now = j /\ r.ref = NoSlot /\ j.op = "mount" /\ j.dir = k.now.dir /\ j.e = NoSlot
      /\ j.at \in {"put", "empty", "read_super"}
      /\ IF j.at = "empty" THEN j.id = Root2 ELSE j.id \in MountPoint
      /\ j.at = "put" => j.s = j.dir
      /\ r \in Job
  BY <1>1, <1>4
<1>5. JobFits(r)
  <2>1. OpFits(j)  BY <1>1 DEF OpFits, Seeking, Putting
  <2>2. HoldsFit(j)  BY <1>1, <1>2 DEF HoldsFit, Putting
  <2>3. QED  BY <2>1, <2>2 DEF JobFits
<1>6. HeldBy(r) = HeldBy(k)  BY <1>1, <1>2 DEF HeldBy, Putting
<1>7. RightInode(r)  BY <1>1, <1>2 DEF RightInode, Putting
<1>8. r.now.at = "put" => IsApart(p, r)  BY <1>1 DEF IsApart, Apart, Past
<1>9. /\ Locker(r.now) = NoSlot /\ Locker(Now(p)) = NoSlot
      /\ Reader(r.now) = NoSlot /\ Reader(Now(p)) = NoSlot
  BY <1>1, <1>2 DEF Locker, Reader
<1>10. Sought(r.now) => HasName(r.now.id)  BY <1>1 DEF Sought, Seeking
<1>11. EmptyFits(r.now)  BY DEF EmptyFits
<1>12. r.now.id = Root2 <=> r.now.at = "empty"  BY <1>1
<1>13. QED  BY <1>2, <1>5, <1>6, <1>7, <1>8, <1>9, <1>10, <1>11, <1>12, <1>1

(* The mount is past its tests now: it may be the second call there. *)
LEMMA ReadSuperStep == ASSUME Sound, NEW p \in Proc, ReadSuper(p) PROVE IInv'
PROOF
<1> DEFINE dir == Now(p).dir
<1>1. /\ Now(p).at = "super" /\ Now(p) \in Call /\ NoSlot \notin Slot /\ ~sb.lock
      /\ JobFits(job[p]) /\ Now(p) = job[p].now
  BY CallOf, InodesAssumption DEF ReadSuper, At, SuperFree
<1>2. dir # NoSlot
  BY <1>1 DEF JobFits, OpFits, HoldsFit, Call, Ops, Seeking, Putting, Out
<1>3. Now(p).op = "mount" /\ dir \in Slot /\ NoId # Root2  BY <1>2, DirIs, InodesAssumption DEF Id
<1>4. CASE sb.dev /\ Refuse(p, dir) /\ UNCHANGED sb
  <2> PICK j \in Call : j = [Now(p) EXCEPT !.at = "put", !.s = dir]
    BY <1>1, <1>3 DEF Call, Locations, SlotOrNone
  <2> PICK r : r = [now |-> j, ref |-> job[p].ref]  OBVIOUS
  <2>1. /\ r \in Job /\ JobFits(r) /\ r.now.op = "mount" /\ r.now.dir = Now(p).dir
        /\ r.now.e = NoSlot /\ RightInode(r) /\ HeldBy(r) = HeldBy(job[p])
        /\ Locker(r.now) = Locker(Now(p)) /\ Reader(r.now) = Reader(Now(p))
        /\ r.now.id = Root2 <=> r.now.at = "empty"
        /\ Sought(r.now) => HasName(r.now.id)
        /\ r.now.at = "put" => IsApart(p, r)
        /\ EmptyFits(r.now)
    BY <1>1, <1>2, DirCall
  <2>2. r.now = j /\ j.at = "put"  BY <1>1 DEF Call
  <2>3. Becomes(p, r)  BY <1>4, <2>1, BecomeIs DEF Refuse, Becomes
  <2>4. MountFits(r.now)  BY <1>3, <2>1, <2>2 DEF MountFits
  <2>5. Sound'  BY <1>3, <1>4, <2>1, <2>2, <2>3, <2>4, JobStep DEF ReadSuper
  <2>6. QED  BY <2>5, SoundAfter
<1>5. CASE sb.dev /\ sb.covered = NoSlot /\ Iget(p, Root2) /\ UNCHANGED sb
  <2> PICK j \in Call : j = [Now(p) EXCEPT !.at = "empty", !.id = Root2]
    BY <1>1, <1>3 DEF Call, Locations, Id
  <2> PICK r : r = [now |-> j, ref |-> job[p].ref]  OBVIOUS
  <2>1. /\ r \in Job /\ JobFits(r) /\ r.now.op = "mount" /\ r.now.dir = Now(p).dir
        /\ r.now.e = NoSlot /\ RightInode(r) /\ HeldBy(r) = HeldBy(job[p])
        /\ Locker(r.now) = Locker(Now(p)) /\ Reader(r.now) = Reader(Now(p))
        /\ r.now.id = Root2 <=> r.now.at = "empty"
        /\ Sought(r.now) => HasName(r.now.id)
        /\ EmptyFits(r.now)
    BY <1>1, <1>2, DirCall
  <2>2. r.now = j /\ j.at = "empty"  BY <1>1 DEF Call
  <2>3. Becomes(p, r)  BY <1>5, <2>1, BecomeIs DEF Iget, Becomes
  <2>4. /\ TableFits'
        /\ MountFits(r.now) /\ IsApart(p, r) => Sound'
    BY <1>3, <1>5, <2>1, <2>3, JobStep DEF ReadSuper
  <2>5. CASE IsApart(p, r)
    <3>1. Past(r.now)  BY <2>1, <2>2 DEF Past
    <3>2. \A q \in Proc : Now(q).op # "umount"
      BY <1>3, <2>5, <3>1 DEF IsApart, Apart, Past
    <3>3. sb.mounted = NoSlot  BY <1>5, <3>2 DEF Sound, TableFits, SuperFits, Umounting
    <3>4. MountFits(r.now)  BY <1>1, <1>5, <2>1, <2>2, <3>3 DEF MountFits
    <3>5. QED  BY <2>4, <2>5, <3>4, SoundAfter
  <2>6. CASE ~IsApart(p, r)
    <3>1. PICK q \in Proc : q # p /\ Past(Now(q)) /\ Past(r.now)
      BY <2>2, <2>6 DEF IsApart, Apart
    <3>2. Now(q)' = Now(q) /\ Now(p)' = r.now  BY <2>3, <3>1, NowAfter
    <3>3. Past(Now(q))' /\ Past(Now(p))'  BY <3>1, <3>2 DEF Past
    <3>4. Overlapped'  BY <3>1, <3>3 DEF Overlapped
    <3>5. QED  BY <2>4, <3>4 DEF IInv
  <2>7. QED  BY <2>5, <2>6
<1>6. CASE /\ ~sb.dev /\ sb' = [NoSuper EXCEPT !.dev = TRUE, !.lock = TRUE]
           /\ Goto(p, "read_super")
  <2> PICK j \in Call : j = [Now(p) EXCEPT !.at = "read_super"]
    BY <1>1, <1>3 DEF Call, Locations
  <2> PICK r : r = [now |-> j, ref |-> job[p].ref]  OBVIOUS
  <2>1. /\ r \in Job /\ JobFits(r) /\ r.now.op = "mount" /\ r.now.dir = Now(p).dir
        /\ r.now.e = NoSlot /\ RightInode(r) /\ HeldBy(r) = HeldBy(job[p])
        /\ Locker(r.now) = NoSlot /\ Locker(Now(p)) = NoSlot /\ Reader(r.now) = Reader(Now(p))
        /\ r.now.id = Root2 <=> r.now.at = "empty"
        /\ Sought(r.now) => HasName(r.now.id)
    BY <1>1, <1>2, DirCall
  <2>2. r.now = j /\ j.at = "read_super"  BY <1>1 DEF Call
  <2>3. Becomes(p, r)
    <3>1. Become(p, j)  BY <1>6 DEF Goto, Become, Now
    <3>2. QED  BY <2>1, <3>1, BecomeIs DEF Becomes
  <2>4. sb' = [dev |-> TRUE, lock |-> TRUE, covered |-> NoSlot, mounted |-> NoSlot]
    BY <1>6 DEF NoSuper
  <2>5. MountFits(r.now)'  BY <2>1, <2>2, <2>4 DEF MountFits
  <2>6. UNCHANGED <<table, disk, imap, latest>>  BY <1>6 DEF ReadSuper
  <2>7. /\ sb.covered = NoSlot /\ sb.mounted = NoSlot
        /\ \A s \in Slot : ~InUse2(s) /\ ~table[s].mount
        /\ \A q \in Proc : /\ Now(q).op # "umount" /\ Now(q).id # Root2
                           /\ Now(q).at # "read_super"
    BY <1>6, NoDevice
  <2>8. SuperFits'  BY <2>4, <2>6, <2>7 DEF SuperFits, InUse2
  <2>9. \A q \in Proc : q # p => MountFits(Now(q))'
    <3>1. \A q \in Proc : q # p => Now(q)' = Now(q)  BY <2>3, NowAfter
    <3>2. QED  BY <2>7, <3>1 DEF MountFits
  <2>10. sb' \in Super /\ table' \in [Slot -> Inode]
    BY <2>4, <2>6 DEF Super, SlotOrNone, Sound, TableFits, TypeOK
  <2>11. \A s \in Slot : One(sb'.covered, s) - One(sb.covered, s) + One(sb'.mounted, s)
                           - One(sb.mounted, s) = OfJob(HeldBy(job[p]), s) - OfJob(HeldBy(r), s)
    <3>1. \A s \in Slot : OfJob(HeldBy(r), s) = OfJob(HeldBy(job[p]), s)
                          /\ OfJob(HeldBy(r), s) \in Nat
      BY <2>1, OfJobType
    <3>2. QED  BY <2>4, <2>7, <3>1, OneType
  <2>12. IsApart(p, r)  BY <1>3, <2>1, <2>2, <2>7 DEF IsApart, Apart, Past
  <2>13. Sound'
    BY <2>1, <2>3, <2>5, <2>6, <2>8, <2>9, <2>10, <2>11, <2>12, SuperStep DEF MountsHold
  <2>14. QED  BY <2>13, SoundAfter
<1>7. QED  BY <1>3, <1>4, <1>5, <1>6 DEF ReadSuper

LEMMA SuperReadStep == ASSUME Sound, NEW p \in Proc, SuperRead(p) PROVE Sound'
PROOF
<1> DEFINE dir == Now(p).dir
<1>1. /\ Now(p).at = "read_super" /\ Now(p) \in Call /\ NoSlot \notin Slot
      /\ JobFits(job[p]) /\ Now(p) = job[p].now
  BY CallOf, InodesAssumption DEF SuperRead, At
<1>2. dir # NoSlot  BY <1>1, AtSuper
<1>3. /\ Now(p).op = "mount" /\ dir \in Slot /\ sb.covered = NoSlot /\ sb.mounted = NoSlot
      /\ \A q \in Proc : q # p => /\ Now(q).op # "umount" /\ Now(q).id # Root2
                                  /\ Now(q).at # "read_super"
  BY <1>1, <1>2, AtSuper, DirIs
<1>4. sb.dev /\ sb.lock /\ sb \in Super  BY <1>1, CallOf DEF MountFits, TypeOK
<1>5. \A s \in Slot : ~InUse2(s) /\ ~table[s].mount
  BY <1>1, <1>3, <1>4 DEF Sound, TableFits, SuperFits
<1>6. UNCHANGED <<table, disk, imap, latest>>  BY DEF SuperRead
<1>7. sb' \in Super /\ table' \in [Slot -> Inode] /\ sb'.covered = NoSlot /\ sb'.mounted = NoSlot
      /\ ~sb'.lock
  <2>1. sb' = [sb EXCEPT !.lock = FALSE] \/ sb' = NoSuper  BY DEF SuperRead
  <2>2. table' \in [Slot -> Inode]  BY <1>6 DEF Sound, TableFits, TypeOK
  <2>3. CASE sb' = [sb EXCEPT !.lock = FALSE]  BY <1>3, <1>4, <2>2, <2>3 DEF Super
  <2>4. CASE sb' = NoSuper  BY <2>2, <2>4 DEF Super, SlotOrNone, NoSuper
  <2>5. QED  BY <2>1, <2>3, <2>4
<1>8. SuperFits'  BY <1>5, <1>6, <1>7 DEF SuperFits, InUse2
<1>9. PICK r : /\ r \in Job /\ JobFits(r) /\ r.now.op = "mount" /\ r.now.dir = Now(p).dir
               /\ r.now.e = NoSlot /\ RightInode(r) /\ HeldBy(r) = HeldBy(job[p])
               /\ Locker(r.now) = NoSlot /\ Locker(Now(p)) = NoSlot
               /\ Reader(r.now) = Reader(Now(p))
               /\ r.now.id = Root2 <=> r.now.at = "empty"
               /\ Sought(r.now) => HasName(r.now.id)
               /\ r.now.at \in {"put", "empty"}
               /\ job' = [job EXCEPT ![p] = r]
               /\ r.now.at = "empty" => sb'.dev
  <2>1. CASE Refuse(p, dir)
    <3> PICK j \in Call : j = [Now(p) EXCEPT !.at = "put", !.s = dir]
      BY <1>1, <1>3 DEF Call, Locations, SlotOrNone
    <3> PICK r : r = [now |-> j, ref |-> job[p].ref]  OBVIOUS
    <3>1. r.now = j /\ j.at = "put"  BY <1>1 DEF Call
    <3>2. job' = [job EXCEPT ![p] = r]  BY <2>1, BecomeIs DEF Refuse
    <3>3. QED  BY <1>1, <1>2, <3>1, <3>2, DirCall
  <2>2. CASE Iget(p, Root2) /\ sb' = [sb EXCEPT !.lock = FALSE]
    <3> PICK j \in Call : j = [Now(p) EXCEPT !.at = "empty", !.id = Root2]
      BY <1>1, <1>3 DEF Call, Locations, Id
    <3> PICK r : r = [now |-> j, ref |-> job[p].ref]  OBVIOUS
    <3>1. r.now = j /\ j.at = "empty"  BY <1>1 DEF Call
    <3>2. job' = [job EXCEPT ![p] = r]  BY <2>2, BecomeIs DEF Iget
    <3>3. sb'.dev  BY <1>4, <2>2 DEF Super
    <3>4. /\ r \in Job /\ JobFits(r) /\ r.now.op = "mount" /\ r.now.dir = Now(p).dir
          /\ r.now.e = NoSlot /\ RightInode(r) /\ HeldBy(r) = HeldBy(job[p])
          /\ Locker(r.now) = NoSlot /\ Locker(Now(p)) = NoSlot
          /\ Reader(r.now) = Reader(Now(p))
          /\ r.now.id = Root2 <=> r.now.at = "empty"
          /\ Sought(r.now) => HasName(r.now.id)
      BY <1>1, <1>2, DirCall
    <3>5. QED  BY <3>1, <3>2, <3>3, <3>4
  <2>3. QED  BY <2>1, <2>2 DEF SuperRead
<1>10. Becomes(p, r)  BY <1>9 DEF Becomes
<1>11. MountFits(r.now)'  BY <1>7, <1>9 DEF MountFits
<1>12. \A q \in Proc : q # p => MountFits(Now(q))'
  <2>1. \A q \in Proc : q # p => Now(q)' = Now(q)  BY <1>10, NowAfter
  <2>2. QED  BY <1>3, <1>7, <2>1 DEF MountFits
<1>13. \A s \in Slot : One(sb'.covered, s) - One(sb.covered, s) + One(sb'.mounted, s)
                           - One(sb.mounted, s) = OfJob(HeldBy(job[p]), s) - OfJob(HeldBy(r), s)
  <2>1. \A s \in Slot : OfJob(HeldBy(r), s) = OfJob(HeldBy(job[p]), s)
                        /\ OfJob(HeldBy(r), s) \in Nat
    BY <1>9, OfJobType
  <2>2. QED  BY <1>3, <1>7, <2>1, OneType
<1>14. IsApart(p, r)  BY <1>3, <1>9 DEF IsApart, Apart, Past
<1>15. QED
  BY <1>6, <1>7, <1>8, <1>9, <1>10, <1>11, <1>12, <1>13, <1>14, SuperStep DEF MountsHold

LEMMA OutJob ==
  ASSUME Sound, NEW p \in Proc, NEW x \in SlotOrNone, NEW r, r = [now |-> Out, ref |-> x]
  PROVE  /\ r \in Job /\ JobFits(r) /\ r.now = Out /\ r.ref = x
         /\ x = NoSlot \/ table[x].id # NoId => RightInode(r)
         /\ x = NoSlot \/ table'[x].id # NoId => RightInode(r)'
         /\ Locker(r.now) = NoSlot /\ Reader(r.now) = NoSlot /\ ~Sought(r.now) /\ r.now.e = NoSlot
         /\ MountFits(r.now) /\ MountFits(r.now)' /\ EmptyFits(r.now) /\ EmptyFits(r.now)'
         /\ IsApart(p, r)
         /\ \A s \in Slot : OfJob(HeldBy(r), s) = One(x, s)
PROOF
<1>1. r.now = Out /\ r.ref = x /\ r \in Job  BY OutIsCall DEF Job
<1>2. Out.at = "out" /\ Out.op = "out" /\ Out.id = NoId /\ NoId # Root2 /\ NoSlot \notin Slot
  BY InodesAssumption DEF Out, Id
<1>3. OpFits(Out) /\ HoldsFit(Out)  BY <1>2, OutIsCall DEF OpFits, HoldsFit, Putting
<1>4. /\ JobFits(r)
      /\ x = NoSlot \/ table[x].id # NoId => RightInode(r)
      /\ x = NoSlot \/ table'[x].id # NoId => RightInode(r)'
  BY <1>1, <1>2, <1>3, OutIsCall DEF JobFits, RightInode, Putting
<1>5. Locker(r.now) = NoSlot /\ Reader(r.now) = NoSlot /\ ~Sought(r.now) /\ r.now.e = NoSlot
  BY <1>1, <1>2, OutIsCall DEF Locker, Reader, Sought, Seeking
<1>6. MountFits(r.now) /\ MountFits(r.now)' /\ EmptyFits(r.now) /\ EmptyFits(r.now)'
  BY <1>1, <1>2, OutIsCall DEF MountFits, EmptyFits
<1>7. IsApart(p, r)
  <2>1. \A q \in Proc : Apart(Out, Now(q)) /\ Apart(Now(q), Out)
    BY <1>2, OutIsCall DEF Apart, Past
  <2>2. QED  BY <1>1, <2>1 DEF IsApart
<1>8. \A s \in Slot : OfJob(HeldBy(r), s) = One(x, s)
  <2>1. HeldBy(r) = [ref |-> x, e |-> NoSlot, dir |-> NoSlot, s |-> NoSlot]
    BY <1>1, <1>2, OutIsCall DEF HeldBy, Putting
  <2>2. \A s \in Slot : One(NoSlot, s) = 0 /\ One(x, s) \in Nat  BY <1>2 DEF One
  <2>3. QED  BY <2>1, <2>2 DEF OfJob
<1>9. QED  BY <1>1, <1>4, <1>5, <1>6, <1>7, <1>8

LEMMA MountedStep == ASSUME Sound, NEW p \in Proc, Mounted(p) PROVE Sound'
PROOF
<1> PICK k \in Job : k = job[p]  BY CallOf
<1> DEFINE s == k.now.s
           dir == k.now.dir
<1>1. /\ k.now.at = "mounted" /\ Now(p) = k.now /\ k.now \in Call /\ JobFits(k) /\ NoSlot \notin Slot
      /\ RightInode(k) /\ MountFits(k.now) /\ NoId # Root2 /\ Root2 \notin MountPoint /\ NoId \notin MountPoint
  BY CallOf, InodesAssumption DEF Mounted, At, Id
<1>2. /\ s \in Slot /\ k.now.e = NoSlot /\ dir # NoSlot /\ k.ref = NoSlot
      /\ k.now.op = "mount" /\ k.now.id = Root2 /\ table[s].id = Root2
  BY <1>1 DEF JobFits, OpFits, HoldsFit, Call, SlotOrNone, Ops, Seeking, Putting, Out, RightInode
<1>3. /\ dir \in Slot /\ table[dir].id \in MountPoint /\ sb.covered = NoSlot /\ sb.mounted = NoSlot
      /\ \A q \in Proc : q # p => /\ Now(q).op # "umount" /\ Now(q).id # Root2
                                  /\ Now(q).at # "read_super"
  BY <1>1, <1>2, AtSuper, DirIs
<1>4. sb.dev /\ ~sb.lock /\ sb \in Super /\ table \in [Slot -> Inode]
  BY <1>1, <1>2, CallOf DEF MountFits, TypeOK
<1> PICK r : r = [now |-> Out, ref |-> job[p].ref]  OBVIOUS
<1>5. /\ r \in Job /\ JobFits(r) /\ r.now = Out /\ RightInode(r)
      /\ Locker(r.now) = NoSlot /\ Reader(r.now) = NoSlot /\ ~Sought(r.now) /\ r.now.e = NoSlot
      /\ MountFits(r.now)' /\ IsApart(p, r)
      /\ \A t \in Slot : OfJob(HeldBy(r), t) = One(NoSlot, t)
  BY <1>2, OutJob DEF SlotOrNone
<1>6. Becomes(p, r)  BY <1>5, BecomeIs DEF Mounted, Becomes
<1>7. sb' = [dev |-> sb.dev, lock |-> sb.lock, covered |-> dir, mounted |-> s]
  BY <1>1, <1>4 DEF Mounted, Super
<1>8. table' = [table EXCEPT ![dir] = [table[dir] EXCEPT !.mount = TRUE, !.dirt = TRUE]]
  BY <1>1, <1>3, <1>4 DEF Mounted
<1>9. \A t \in Slot : t # dir => table'[t] = table[t]  BY <1>8
<1>10. table'[dir] = [table[dir] EXCEPT !.mount = TRUE, !.dirt = TRUE]  BY <1>3, <1>4, <1>8
<1>11. /\ table'[dir] \in Inode /\ table'[dir].id = table[dir].id /\ table'[dir].nlink = table[dir].nlink
       /\ table'[dir].ver = table[dir].ver /\ table'[dir].count = table[dir].count
       /\ table'[dir].lock = table[dir].lock /\ table'[dir].dirt /\ table'[dir].mount
  <2>1. table[dir] \in Inode  BY <1>3, <1>4
  <2>2. QED  BY <1>10, <2>1 DEF Inode
<1>12. sb' \in Super /\ table' \in [Slot -> Inode]
  <2>1. table' = [t \in Slot |-> table'[t]]  BY <1>4, <1>8
  <2>2. QED  BY <1>2, <1>3, <1>4, <1>7, <1>9, <1>11, <2>1 DEF Super, SlotOrNone
<1>13. dir \in Uses(k) /\ table[dir].count # 0
  <2>1. dir \in Uses(k)  BY <1>3 DEF Uses
  <2>2. QED  BY <2>1, UsesCounted
<1>14. \A t \in Slot : One(sb'.covered, t) - One(sb.covered, t) + One(sb'.mounted, t)
                           - One(sb.mounted, t) = OfJob(HeldBy(job[p]), t) - OfJob(HeldBy(r), t)
  <2>1. HeldBy(k) = [ref |-> NoSlot, e |-> NoSlot, dir |-> dir, s |-> s]
    BY <1>1, <1>2 DEF HeldBy
  <2>2. \A t \in Slot : One(NoSlot, t) = 0  BY <1>1 DEF One
  <2>3. \A t \in Slot : OfJob(HeldBy(job[p]), t) = One(dir, t) + One(s, t)
    BY <2>1, <2>2, OneType DEF OfJob
  <2>4. QED  BY <1>3, <1>5, <1>7, <2>2, <2>3, OneType
<1>15. Locker(Now(p)) = NoSlot /\ Reader(Now(p)) = NoSlot  BY <1>1 DEF Locker, Reader
<1>16. SuperFits'
  <2>1. \A t \in Slot : ~table[t].mount  BY <1>1, <1>3 DEF Sound, TableFits, SuperFits
  <2>2. \A t \in Slot : InUse2(t)' <=> InUse2(t)  BY <1>9, <1>11 DEF InUse2
  <2>3. table'[s].id = Root2  BY <1>2, <1>9, <1>11
  <2>4. QED  BY <1>1, <1>2, <1>3, <1>4, <1>7, <1>9, <1>11, <2>1, <2>2, <2>3 DEF SuperFits
<1>17. \A q \in Proc : q # p => MountFits(Now(q))'
  <2>1. \A q \in Proc : q # p => Now(q)' = Now(q)  BY <1>6, NowAfter
  <2>2. QED  BY <1>3, <2>1 DEF MountFits
<1>18. \A q \in Proc : q # p /\ Now(q).e # NoSlot => table'[Now(q).e] = table[Now(q).e]
  <2>1. \A q \in Proc : q # p /\ Now(q).e # NoSlot => Now(q).e \in Slot /\ Now(q).e # dir
    BY <1>13, ClaimedOwn
  <2>2. QED  BY <1>9, <2>1
<1>19. \A t \in Slot :
         /\ table'[t].id = table[t].id /\ table'[t].nlink = table[t].nlink
         /\ table'[t].ver = table[t].ver /\ table'[t].count = table[t].count
         /\ table'[t].lock = table[t].lock
         /\ table'[t].dirt = table[t].dirt \/ (table'[t].dirt /\ table[t].count # 0 /\ table[t].id # NoId)
  BY <1>1, <1>3, <1>9, <1>11, <1>13
<1>20. UNCHANGED <<disk, imap, latest>>  BY DEF Mounted
<1>21. QED
  BY <1>5, <1>6, <1>12, <1>14, <1>15, <1>16, <1>17, <1>18, <1>19, <1>20, SuperStep DEF MountsHold

(* It may be the second umount; a mount that is past its tests has found nothing mounted. *)
LEMMA UmountStep == ASSUME Sound, NEW p \in Proc, Umount(p) PROVE IInv'
PROOF
<1> DEFINE c == sb.covered
<1> PICK j \in Call : j = [Out EXCEPT !.op = "umount", !.at = "put", !.s = c]
  BY CallOf DEF Out, Call, Ops, Locations, SlotOrNone, TypeOK, Super
<1> PICK r \in Job : r = [now |-> j, ref |-> NoSlot]  BY DEF Job, SlotOrNone
<1>1. /\ Now(p) = Out /\ job[p].ref = NoSlot /\ NoSlot \notin Slot /\ r.now = j /\ r.ref = NoSlot
      /\ NoId # Root2 /\ NoId \notin MountPoint /\ Root2 \notin MountPoint
      /\ Out.at = "out" /\ Out.op = "out"
  BY IsOut, InodesAssumption DEF Umount, Idle, Id, Out
<1>2. /\ j.op = "umount" /\ j.at = "put" /\ j.id = NoId /\ j.e = NoSlot /\ j.s = c
      /\ j.dir = NoSlot
  BY DEF Out
<1>3. /\ sb.dev /\ ~sb.lock /\ c \in Slot /\ table[c].id \in MountPoint /\ sb.mounted # NoSlot
      /\ \A t \in Slot : table[t].mount => t = c
      /\ table \in [Slot -> Inode] /\ sb' = sb /\ sb \in Super
  BY CallOf DEF Umount, SuperFree, Sound, TableFits, SuperFits, TypeOK, Super, SlotOrNone
<1>4. \A t \in Slot : InUse2(t) => t = sb.mounted /\ table[t].count = 1
  BY DEF Umount, InUse, InUse2
<1>5. \A q \in Proc : Now(q).id # Root2 /\ Now(q).at # "read_super"
  BY <1>1, <1>3, CallOf DEF MountFits
<1>7. Becomes(p, r)
  <2>1. job' = [job EXCEPT ![p] = r]  BY <1>1, BecomeIs DEF Umount
  <2>2. OpFits(j) /\ HoldsFit(j)  BY <1>1, <1>2, <1>3 DEF OpFits, HoldsFit, Putting
  <2>3. QED  BY <1>1, <1>2, <2>1, <2>2 DEF Becomes, JobFits
<1>8. table' = [table EXCEPT ![c] = [table[c] EXCEPT !.mount = FALSE]]
  BY <1>3 DEF Umount
<1>9. \A t \in Slot : t # c => table'[t] = table[t]  BY <1>8
<1>10. table'[c] = [table[c] EXCEPT !.mount = FALSE]  BY <1>3, <1>8
<1>11. /\ table'[c] \in Inode /\ table'[c].id = table[c].id /\ table'[c].nlink = table[c].nlink
       /\ table'[c].ver = table[c].ver /\ table'[c].count = table[c].count
       /\ table'[c].lock = table[c].lock /\ table'[c].dirt = table[c].dirt /\ ~table'[c].mount
  <2>1. table[c] \in Inode  BY <1>3
  <2>2. QED  BY <1>10, <2>1 DEF Inode
<1>12. table' \in [Slot -> Inode]
  <2>1. table' = [t \in Slot |-> table'[t]]  BY <1>3, <1>8
  <2>2. QED  BY <1>3, <1>9, <1>11, <2>1
<1>13. \A t \in Slot : OfJob(HeldBy(r), t) = OfJob(HeldBy(job[p]), t)
  <2>1. HeldBy(r) = [ref |-> NoSlot, e |-> NoSlot, dir |-> NoSlot, s |-> NoSlot]
    BY <1>1, <1>2 DEF HeldBy, Putting
  <2>2. job[p].now = Out  BY <1>1 DEF Now
  <2>3. HeldBy(job[p]) = [ref |-> NoSlot, e |-> NoSlot, dir |-> NoSlot, s |-> NoSlot]
    BY <1>1, <2>2, OutIsCall DEF HeldBy, Putting
  <2>4. QED  BY <2>1, <2>3
<1>14. \A t \in Slot : One(sb'.covered, t) - One(sb.covered, t) + One(sb'.mounted, t)
                           - One(sb.mounted, t) = OfJob(HeldBy(job[p]), t) - OfJob(HeldBy(r), t)
  <2>1. \A t \in Slot : OfJob(HeldBy(r), t) \in Nat  BY OfJobType
  <2>2. QED  BY <1>3, <1>13, <2>1, OneType
<1>15. /\ Locker(Now(p)) = NoSlot /\ Reader(Now(p)) = NoSlot /\ Locker(r.now) = NoSlot
       /\ Reader(r.now) = NoSlot /\ ~Sought(r.now)
  BY <1>1, <1>2 DEF Locker, Reader, Sought, Seeking
<1>16. \A t \in Slot : InUse2(t)' <=> InUse2(t)  BY <1>9, <1>11 DEF InUse2
<1>17. SuperFits'
  <2>1. Umounting'
    <3>1. Now(p)' = r.now  BY <1>7, NowAfter
    <3>2. QED  BY <1>1, <1>2, <3>1 DEF Umounting
  <2>2. sb.mounted \in Slot /\ table'[sb.mounted].id = Root2
    BY <1>3, <1>9, <1>11 DEF Sound, TableFits, SuperFits, Super, SlotOrNone
  <2>3. QED  BY <1>3, <1>9, <1>11, <1>16, <2>1, <2>2 DEF SuperFits
<1>18. MountFits(r.now)'
  <2>1. \A t \in Slot : ~table'[t].mount  BY <1>3, <1>9, <1>11
  <2>2. \A t \in Slot : InUse2(t)' => t = sb.mounted /\ table'[t].count = 1
    BY <1>4, <1>9, <1>11, <1>16
  <2>3. QED  BY <1>1, <1>2, <1>3, <2>1, <2>2 DEF MountFits
<1>19. ASSUME \A q \in Proc : q # p => Now(q).op # "umount" PROVE MountsHold(p, r)
  <2>1. \A q \in Proc : q # p => Now(q)' = Now(q)  BY <1>7, NowAfter
  <2>2. \A q \in Proc : q # p => MountFits(Now(q))'  BY <1>5, <1>19, <2>1 DEF MountFits
  <2>3. IsApart(p, r)  BY <1>1, <1>2, <1>5, <1>19 DEF IsApart, Apart, Past
  <2>4. QED  BY <1>18, <2>2, <2>3 DEF MountsHold
<1>20. \A q \in Proc : q # p /\ Now(q).e # NoSlot => table'[Now(q).e] = table[Now(q).e]
  <2>1. \A q \in Proc : q # p /\ Now(q).e # NoSlot => Now(q).e \in Slot /\ Now(q).e # c
    BY ClaimedOwn
  <2>2. QED  BY <1>9, <2>1
<1>21. RightInode(r)  BY <1>1, <1>2, <1>3 DEF RightInode, Putting
<1>23. \A t \in Slot :
         /\ table'[t].id = table[t].id /\ table'[t].nlink = table[t].nlink
         /\ table'[t].ver = table[t].ver /\ table'[t].count = table[t].count
         /\ table'[t].lock = table[t].lock /\ table'[t].dirt = table[t].dirt
  BY <1>9, <1>11
<1>24. UNCHANGED <<disk, imap, latest>> /\ sb' \in Super  BY <1>3 DEF Umount
<1>25. /\ TableFits'
       /\ MountsHold(p, r) => Sound'
  BY <1>1, <1>2, <1>7, <1>12, <1>14, <1>15, <1>17, <1>20, <1>21, <1>23, <1>24, SuperStep
<1>26. CASE \A q \in Proc : q # p => Now(q).op # "umount"  BY <1>19, <1>25, <1>26, SoundAfter
<1>27. CASE \E q \in Proc : q # p /\ Now(q).op = "umount"
  <2>1. PICK q \in Proc : q # p /\ Now(q).op = "umount"  BY <1>27
  <2>2. Now(q)' = Now(q) /\ Now(p)' = j  BY <1>1, <1>7, <2>1, NowAfter
  <2>3. Past(Now(q))' /\ Past(Now(p))'  BY <1>2, <2>1, <2>2 DEF Past
  <2>4. Overlapped'  BY <2>1, <2>3 DEF Overlapped
  <2>5. QED  BY <1>25, <2>4 DEF IInv
<1>28. QED  BY <1>26, <1>27

LEMMA PutSuperStep == ASSUME Sound, NEW p \in Proc, PutSuper(p) PROVE Sound'
PROOF
<1> PICK k \in Job : k = job[p]  BY CallOf
<1>1. /\ k.now.at = "put_super" /\ Now(p) = k.now /\ k.now \in Call /\ JobFits(k) /\ NoSlot \notin Slot
      /\ MountFits(k.now)
  BY CallOf, InodesAssumption DEF PutSuper, At
<1>2. k.now.op = "umount" /\ k.now.e = NoSlot /\ k.now.dir = NoSlot /\ k.ref = NoSlot
  BY <1>1 DEF JobFits, OpFits, HoldsFit, Call, Ops, Seeking, Putting, Out
<1>3. /\ sb.covered = NoSlot /\ sb.mounted = NoSlot
      /\ \A t \in Slot : ~table[t].mount /\ ~InUse2(t)
  BY <1>1, <1>2 DEF MountFits
<1>4. ASSUME NEW q \in Proc, q # p
      PROVE  Now(q).op # "umount" /\ Now(q).id # Root2 /\ Now(q).at # "read_super"
  <2>1. Apart(Now(p), Now(q)) /\ MountFits(Now(q)) /\ Past(Now(p))
    BY <1>1, <1>2, <1>4, CallOf DEF Past
  <2>2. ~Past(Now(q))  BY <2>1 DEF Apart
  <2>3. ~sb.lock  BY <1>1, <1>2 DEF MountFits
  <2>4. QED  BY <1>4, <2>1, <2>2, <2>3, ToRoot2 DEF MountFits, Past
<1> PICK r : r = [now |-> Out, ref |-> job[p].ref]  OBVIOUS
<1>5. /\ r \in Job /\ JobFits(r) /\ r.now = Out /\ RightInode(r)
      /\ Locker(r.now) = NoSlot /\ Reader(r.now) = NoSlot /\ ~Sought(r.now) /\ r.now.e = NoSlot
      /\ MountFits(r.now)' /\ IsApart(p, r)
      /\ \A t \in Slot : OfJob(HeldBy(r), t) = One(NoSlot, t)
  BY <1>2, OutJob DEF SlotOrNone
<1>6. Becomes(p, r)  BY <1>5, BecomeIs DEF PutSuper, Becomes
<1>7. sb' = NoSuper /\ sb' \in Super  BY <1>3 DEF PutSuper, NoSuper, Super, SlotOrNone
<1>8. UNCHANGED <<table, disk, imap, latest>> /\ table' \in [Slot -> Inode]
  BY DEF PutSuper, Sound, TableFits, TypeOK
<1>9. Locker(Now(p)) = NoSlot /\ Reader(Now(p)) = NoSlot  BY <1>1 DEF Locker, Reader
<1>10. \A t \in Slot : One(sb'.covered, t) - One(sb.covered, t) + One(sb'.mounted, t)
                           - One(sb.mounted, t) = OfJob(HeldBy(job[p]), t) - OfJob(HeldBy(r), t)
  <2>1. HeldBy(k) = [ref |-> NoSlot, e |-> NoSlot, dir |-> NoSlot, s |-> NoSlot]
    BY <1>1, <1>2 DEF HeldBy, Putting
  <2>2. \A t \in Slot : One(NoSlot, t) = 0  BY <1>1 DEF One
  <2>3. \A t \in Slot : OfJob(HeldBy(job[p]), t) = 0  BY <2>1, <2>2 DEF OfJob
  <2>4. sb'.covered = NoSlot /\ sb'.mounted = NoSlot  BY <1>7 DEF NoSuper
  <2>5. QED  BY <1>3, <1>5, <2>2, <2>3, <2>4
<1>11. SuperFits'  BY <1>3, <1>7, <1>8 DEF SuperFits, InUse2, NoSuper
<1>12. \A q \in Proc : q # p => MountFits(Now(q))'
  <2> SUFFICES ASSUME NEW q \in Proc, q # p PROVE MountFits(Now(q))'
    OBVIOUS
  <2>1. Now(q)' = Now(q)  BY <1>6, NowAfter
  <2>2. QED  BY <1>4, <2>1 DEF MountFits
<1>13. QED
  BY <1>5, <1>6, <1>7, <1>8, <1>9, <1>10, <1>11, <1>12, SuperStep DEF MountsHold

(***************************************************************************)
(* get_empty_inode.                                                        *)
(***************************************************************************)
(* One entry changes that nobody uses, or nobody but the call. *)
LEMMA OneEntry ==
  ASSUME Sound, NEW p \in Proc, NEW r, Becomes(p, r), NEW s \in Slot, NEW i \in Inode,
         table' = [table EXCEPT ![s] = i]
  PROVE  /\ table' \in [Slot -> Inode] /\ table'[s] = i
         /\ \A t \in Slot : t # s => table'[t] = table[t]
PROOF BY DEF Sound, TableFits, TypeOK

LEMMA Unused ==
  ASSUME Sound, NEW p \in Proc, NEW r, Becomes(p, r), NEW s \in Slot,
         \A t \in Slot : t # s => table'[t] = table[t],
         \A q \in Proc : q # p => s \notin Uses(job[q])
  PROVE  \A q \in Proc : q # p => EmptyFits(Now(q))' /\ RightInode(job[q])'
PROOF
<1> SUFFICES ASSUME NEW q \in Proc, q # p PROVE EmptyFits(Now(q))' /\ RightInode(job[q])'
  OBVIOUS
<1>1. \A x \in Uses(job[q]) : x \in Slot /\ x # s  BY DEF Uses
<1>2. Now(q).e # NoSlot => Now(q).e \in Uses(job[q])  BY ClaimedOwn
<1>3. Now(q).at = "truncate" => Now(q).s \in Uses(job[q])
  BY CallOf DEF JobFits, HoldsFit, Putting, Call, SlotOrNone, Uses, UsesS
<1>4. QED  BY <1>1, <1>2, <1>3, OthersHold

(* The other inodes are as they were. *)
LEMMA OthersCurrent ==
  ASSUME Sound, NEW s \in Slot, \A t \in Slot : t # s => table'[t] = table[t],
         \A t \in Slot : t # s => (BeingRead(t)' <=> BeingRead(t)),
         NEW i \in Id, table[s].id # i, table'[s].id # i, disk'[i] = disk[i]
  PROVE  Current(i)' = Current(i)
PROOF
<1>1. InMemory(i)' = InMemory(i) /\ s \notin InMemory(i)  BY DEF InMemory, Holders
<1>2. \A t \in InMemory(i) : Saved(t)' = Saved(t)  BY <1>1 DEF Saved, InMemory, Holders
<1>3. Current(i) = IF InMemory(i) = {} THEN {disk[i]} ELSE {Saved(t) : t \in InMemory(i)}
  BY DEF Current
<1>4. Current(i)' = IF InMemory(i)' = {} THEN {disk'[i]} ELSE {Saved(t)' : t \in InMemory(i)'}
  BY DEF Current
<1>5. {Saved(t)' : t \in InMemory(i)'} = {Saved(t) : t \in InMemory(i)}  BY <1>1, <1>2
<1>6. QED  BY <1>1, <1>3, <1>4, <1>5

LEMMA ClaimedIs ==
  /\ Claimed \in Inode /\ Claimed.id = NoId /\ Claimed.count = 1 /\ Claimed.lock = FALSE
  /\ Claimed.dirt = FALSE /\ Claimed.mount = FALSE
PROOF
<1>1. Zero \in Inode  BY DEF Zero, Inode
<1>2. Claimed \in Inode /\ Claimed.count = 1  BY <1>1 DEF Claimed, Inode
<1>3. /\ Claimed.id = Zero.id /\ Claimed.lock = Zero.lock /\ Claimed.dirt = Zero.dirt
      /\ Claimed.mount = Zero.mount
  BY <1>1 DEF Claimed, Inode
<1>4. QED  BY <1>2, <1>3 DEF Zero

LEMMA UnlockedIsRead ==
  ASSUME TableFits, NEW s \in Slot, ~table[s].lock
  PROVE  ~BeingRead(s)
PROOF
<1> SUFFICES ASSUME NEW q \in Proc, Reader(Now(q)) = s PROVE FALSE  BY DEF BeingRead
<1>1. Locker(Now(q)) = s  BY InodesAssumption DEF Reader, Locker
<1>2. QED  BY <1>1 DEF TableFits, Locks

LEMMA NotRead ==
  ASSUME Sound, NEW s \in Slot, ~table[s].lock
  PROVE  ~BeingRead(s)
PROOF BY UnlockedIsRead DEF Sound

LEMMA GetEmptyStep == ASSUME Sound, NEW p \in Proc, GetEmpty(p) PROVE Sound'
PROOF
<1> PICK k \in Job : k = job[p]  BY CallOf
<1> PICK s \in Slot : table[s].count = 0 /\ Ready(s) /\ Claim(p, s)  BY DEF GetEmpty, Free
<1>1. /\ k.now.at = "empty" /\ Now(p) = k.now /\ k.now \in Call /\ JobFits(k) /\ NoSlot \notin Slot
      /\ MountFits(k.now) /\ RightInode(k) /\ (Sought(k.now) => HasName(k.now.id))
  BY CallOf, InodesAssumption DEF GetEmpty, At
<1>2. k.now.e = NoSlot /\ k.now.op \in {"open", "new", "mount"} /\ k.ref = NoSlot
  BY <1>1 DEF JobFits, OpFits, HoldsFit, Call, Ops, Seeking, Putting, Out
<1> DEFINE l == IF k.now.op = "new" THEN "alloc" ELSE "search"
<1>j. PICK j \in Call : j = [k.now EXCEPT !.e = s, !.s = NoSlot, !.at = l]
  BY <1>1 DEF Call, SlotOrNone, Locations
<1>r. PICK r \in Job : r = [now |-> j, ref |-> k.ref]  BY DEF Job
<1>3. /\ r.now = j /\ r.ref = NoSlot /\ j.op = k.now.op /\ j.at = l /\ j.id = k.now.id
      /\ j.e = s /\ j.s = NoSlot /\ j.dir = k.now.dir
      /\ j.at \in {"alloc", "search"} /\ (j.at = "alloc" <=> j.op = "new")
  BY <1>j, <1>r, <1>1, <1>2 DEF Call
<1> HIDE DEF l
<1>4. Becomes(p, r)
  <2>1. job' = [job EXCEPT ![p] = r]  BY <1>j, <1>r, <1>1, BecomeIs DEF Claim, l
  <2>2. OpFits(j)  BY <1>1, <1>2, <1>3 DEF JobFits, OpFits, Seeking
  <2>3. HoldsFit(j)  BY <1>1, <1>2, <1>3 DEF JobFits, HoldsFit, Putting
  <2>4. QED  BY <1>2, <1>3, <2>1, <2>2, <2>3 DEF Becomes, JobFits
<1>5. table' = [table EXCEPT ![s] = Claimed]  BY DEF Claim, Claimed
<1>6. /\ table' \in [Slot -> Inode] /\ table'[s] = Claimed
      /\ \A t \in Slot : t # s => table'[t] = table[t]
  BY <1>4, <1>5, ClaimedIs, OneEntry
<1>7. UNCHANGED <<disk, imap, sb, latest>>  BY DEF GetEmpty
<1>8. /\ \A q \in Proc : s \notin Uses(job[q])
      /\ sb.covered # s /\ sb.mounted # s
      /\ ~table[s].dirt /\ ~table[s].lock /\ table[s].mount = FALSE
  <2>1. sb.covered # s /\ sb.mounted # s  BY Counted
  <2>2. \A q \in Proc : s \notin Uses(job[q])  BY UsesCounted
  <2>3. QED  BY <2>1, <2>2 DEF Ready, Unlocked, Sound, TableFits, SuperFits, TypeOK, Inode
<1>9. EntriesTyped'  BY <1>6, <1>7 DEF EntriesTyped, Sound, TableFits, TypeOK
<1>10. Locker(r.now) = NoSlot /\ Locker(Now(p)) = NoSlot /\ Reader(r.now) = Reader(Now(p))
  BY <1>1, <1>3 DEF Locker, Reader
<1>11. \A t : BeingRead(t)' <=> BeingRead(t)  BY <1>4, <1>10, ReadsStay
<1>12. ASSUME NEW i \in Id PROVE Current(i)' = Current(i)
  <2>1. NoId # i  BY InodesAssumption
  <2>2. CASE table[s].id # i  BY <1>6, <1>7, <1>11, <2>1, <2>2, ClaimedIs, OthersCurrent
  <2>3. CASE table[s].id = i
    <3>1. ~BeingRead(s)  BY <1>8, NotRead
    <3>2. Current(i) = {Saved(s)} /\ disk[i] = Saved(s)
      BY <1>8, <2>1, <2>3, <3>1, CurrentIs DEF Sound, TableFits, Kept, Unlocked
    <3>3. InMemory(i)' = {}
      BY <1>6, <2>1, <2>3, ClaimedIs DEF InMemory, Holders, Sound, TableFits, OneCopy
    <3>4. Current(i)' = {disk'[i]}  BY <3>3 DEF Current
    <3>5. QED  BY <1>7, <3>2, <3>4
  <2>4. QED  BY <2>2, <2>3
<1>13. CountIsReferences'
  <2>1. \A t \in Slot : OfJob(HeldBy(r), t) = OfJob(HeldBy(k), t) + One(s, t)
    <3>1. HeldBy(r) = [ref |-> NoSlot, e |-> s, dir |-> k.now.dir, s |-> NoSlot]
      BY <1>2, <1>3 DEF HeldBy, Putting
    <3>2. HeldBy(k) = [ref |-> NoSlot, e |-> NoSlot, dir |-> k.now.dir, s |-> NoSlot]
      BY <1>1, <1>2 DEF HeldBy, Putting
    <3>3. \A t \in Slot : One(NoSlot, t) = 0  BY <1>1 DEF One
    <3>4. QED  BY <3>1, <3>2, <3>3, OneType DEF OfJob
  <2>2. \A t \in Slot : table'[t].count = table[t].count + One(s, t)
    BY <1>6, ClaimedIs DEF One, Sound, TableFits, TypeOK, Inode
  <2>3. ASSUME NEW t \in Slot
        PROVE  table'[t].count = table[t].count
                           + OfJob(HeldBy(r), t) - OfJob(HeldBy(job[p]), t)
                           + One(sb'.covered, t) - One(sb.covered, t)
                           + One(sb'.mounted, t) - One(sb.mounted, t)
    <3>1. /\ One(s, t) \in Nat /\ OfJob(HeldBy(k), t) \in Nat /\ table[t].count \in Int
          /\ One(sb.covered, t) \in Nat /\ One(sb.mounted, t) \in Nat
      BY OneType, OfJobType DEF Sound, TableFits, TypeOK, Inode
    <3>2. QED  BY <1>7, <2>1, <2>2, <3>1
  <2>4. QED  BY <1>4, <2>3, CountsFit
<1>14. Locks'
  <2>1. \A t \in Slot : table'[t].lock <=> table[t].lock  BY <1>6, <1>8, ClaimedIs
  <2>2. QED  BY <1>1, <1>4, <1>10, <2>1, LocksFit
<1>15. OneCopy' /\ FreeIsReady' /\ EntriesFit' /\ Clean'
  <2>1. OneCopy'  BY <1>6, ClaimedIs DEF Sound, TableFits, OneCopy
  <2>2. FreeIsReady'  BY <1>6, ClaimedIs DEF Sound, TableFits, FreeIsReady, Free, Ready, Unlocked
  <2>3. EntriesFit'  BY <1>6, <1>7, ClaimedIs DEF Sound, TableFits, EntriesFit
  <2>4. Clean'  BY <1>6, <1>7, ClaimedIs DEF Sound, TableFits, Kept, Clean, Unlocked, Saved
  <2>5. QED  BY <2>1, <2>2, <2>3, <2>4
<1>16. NoId # Root2  BY InodesAssumption DEF Id
<1>17. \A t \in Slot : /\ table'[t].mount = table[t].mount
                       /\ InUse2(t)' => InUse2(t) /\ table'[t].count = table[t].count
  BY <1>6, <1>8, <1>16, ClaimedIs DEF InUse2
<1>18. SuperFits'
  <2>1. Now(p).op # "umount"  BY <1>1, <1>2
  <2>2. QED  BY <1>4, <1>6, <1>7, <1>8, <1>17, <2>1, SuperStays
<1>19. EmptyFits(r.now)' /\ RightInode(r)' /\ MountFits(r.now)'
  <2>1. EmptyFits(r.now)'  BY <1>3, <1>6 DEF EmptyFits
  <2>2. k.now.dir # NoSlot => k.now.dir \in Slot /\ k.now.dir # s
    BY <1>1, <1>8 DEF Call, SlotOrNone, Uses
  <2>3. RightInode(r)'  BY <1>1, <1>3, <1>6, <2>2 DEF RightInode, Putting
  <2>4. MountFits(r.now)'  BY <1>1, <1>2, <1>3, <1>7 DEF MountFits
  <2>5. QED  BY <2>1, <2>3, <2>4
<1>20. Sought(r.now) => HasName(r.now.id)  BY <1>1, <1>3 DEF Sought, Seeking
<1>21. \A q \in Proc : q # p => EmptyFits(Now(q))' /\ RightInode(job[q])' /\ MountFits(Now(q))'
  <2>1. \A q \in Proc : q # p => EmptyFits(Now(q))' /\ RightInode(job[q])'
    BY <1>4, <1>6, <1>8, Unused
  <2>2. \A q \in Proc : q # p => MountFits(Now(q))'
    BY <1>4, <1>6, <1>7, <1>8, <1>17, ClaimedIs, OthersMount
  <2>3. QED  BY <2>1, <2>2
<1>22. IsApart(p, r)
  <2>1. \A q \in Proc : q # p => Apart(k.now, Now(q)) /\ Apart(Now(q), k.now)
    BY <1>1, CallOf
  <2>2. QED  BY <1>3, <2>1 DEF IsApart, Apart, Past
<1>23. QED
  BY <1>4, <1>7, <1>9, <1>12, <1>13, <1>14, <1>15, <1>18, <1>19, <1>20, <1>21, <1>22, Steady DEF MountsHold

(***************************************************************************)
(* iget.                                                                   *)
(***************************************************************************)
LEMMA GotoIs ==
  ASSUME Sound, NEW p \in Proc, NEW l, Goto(p, l)
  PROVE  Become(p, [Now(p) EXCEPT !.at = l])
PROOF BY DEF Goto, Become, Now

(* What iget knows while it seeks. *)
LEMMA Seeks ==
  ASSUME Sound, NEW p \in Proc, Now(p).at \in {"search", "swait", "read"}
  PROVE  /\ Now(p).e \in Slot /\ job[p].ref = NoSlot /\ Now(p).op \in {"open", "mount"}
         /\ Now(p).id \in Id /\ HasName(Now(p).id)
         /\ Now(p).op = "open" => Now(p).id \in File /\ Now(p).dir = NoSlot
         /\ Now(p).op = "mount" => /\ Now(p).id \in MountPoint \cup {Root2}
                                   /\ Now(p).dir # NoSlot <=> Now(p).id = Root2
         /\ Now(p).id = Root2 => sb.dev /\ ~sb.lock
         /\ Now(p).dir # NoSlot => Now(p).dir \in Slot /\ table[Now(p).dir].id \in MountPoint
         /\ Now(p).at = "swait" => Now(p).s \in Slot
PROOF
<1>p. PICK k \in Job : k = job[p]  BY CallOf
<1>1. /\ k.now = Now(p) /\ k.now \in Call /\ JobFits(k) /\ NoSlot \notin Slot
      /\ MountFits(k.now) /\ RightInode(k) /\ (Sought(k.now) => HasName(k.now.id))
      /\ NoId \notin Id /\ MountPoint \subseteq File /\ Root2 \notin File
  BY <1>p, CallOf, InodesAssumption
<1>2. k.ref = NoSlot /\ k.now.op \in {"open", "mount"} /\ k.now.e \in Slot
  BY <1>1 DEF JobFits, OpFits, HoldsFit, Call, Ops, Seeking, Putting, Out, SlotOrNone
<1>3. /\ k.now.op = "open" => k.now.id \in File
      /\ k.now.op = "mount" => k.now.id \in MountPoint \cup {Root2}
  BY <1>1 DEF JobFits, OpFits
<1>4. k.now.id \in Id /\ HasName(k.now.id)  BY <1>1, <1>2, <1>3 DEF Sought, Seeking, Id
<1>5. k.now.dir # NoSlot <=> k.now.op = "mount" /\ k.now.id = Root2
  BY <1>1 DEF JobFits, HoldsFit, Putting
<1>6. k.now.dir # NoSlot => k.now.dir \in Slot /\ table[k.now.dir].id \in MountPoint
  BY <1>1 DEF RightInode, Call, SlotOrNone
<1>7. k.now.id = Root2 => sb.dev /\ ~sb.lock  BY <1>1 DEF MountFits
<1>8. k.now.at = "swait" => k.now.s \in Slot  BY <1>1 DEF JobFits, HoldsFit, Call, SlotOrNone
<1>9. QED  BY <1>p, <1>1, <1>2, <1>3, <1>4, <1>5, <1>6, <1>7, <1>8

(* The empty inode is given up for the one that has been found, or it is the one. *)
LEMMA Gets ==
  ASSUME Sound, NEW p \in Proc, Now(p).at \in {"search", "swait", "read"}, NEW s \in Slot,
         \/ Got(p, s)
         \/ /\ Become(p, [Now(p) EXCEPT !.at = "mwait", !.e = NoSlot, !.s = s])
            /\ table'[s].id = Root2 /\ Now(p).id # Root2,
         sb' = sb, table'[s].id # NoId,
         Now(p).id = Root2 => table'[s].id = Root2,
         Now(p).id \in MountPoint => table'[s].id \in MountPoint \cup {Root2},
         Now(p).dir # NoSlot => table'[Now(p).dir].id \in MountPoint
  PROVE  \E r : /\ Becomes(p, r) /\ IsApart(p, r)
                /\ Locker(r.now) = NoSlot /\ Reader(r.now) = NoSlot /\ ~Sought(r.now)
                /\ EmptyFits(r.now)' /\ RightInode(r)' /\ MountFits(r.now)'
                /\ \A t \in Slot : OfJob(HeldBy(r), t)
                     = OfJob(HeldBy(job[p]), t) - One(Now(p).e, t) + One(s, t)
PROOF
<1>p. PICK k \in Job : k = job[p]  BY CallOf
<1>1. /\ k.now = Now(p) /\ k.now \in Call /\ NoSlot \notin Slot /\ MountFits(k.now)
      /\ NoId \notin Id /\ MountPoint \subseteq File /\ Root2 \notin File /\ NoId # Root2
  BY <1>p, CallOf, InodesAssumption DEF Id
<1>2. /\ k.now.e \in Slot /\ k.ref = NoSlot /\ k.now.op \in {"open", "mount"}
      /\ k.now.op = "open" => k.now.id \in File /\ k.now.dir = NoSlot
      /\ k.now.op = "mount" => /\ k.now.id \in MountPoint \cup {Root2}
                               /\ k.now.dir # NoSlot <=> k.now.id = Root2
      /\ k.now.at \in {"search", "swait", "read"}
  BY <1>p, <1>1, Seeks
<1>3. \A t \in Slot : One(NoSlot, t) = 0  BY <1>1 DEF One
<1>4. \A t \in Slot : OfJob(HeldBy(k), t) = One(k.now.e, t) + One(k.now.dir, t)
  <2>1. HeldBy(k) = [ref |-> NoSlot, e |-> k.now.e, dir |-> k.now.dir, s |-> NoSlot]
    BY <1>2 DEF HeldBy, Putting
  <2>2. QED  BY <1>3, <2>1, OneType DEF OfJob
<1>5. CASE Got(p, s) /\ k.now.op = "open"
  <2>1. PICK r : r = [now |-> Out, ref |-> s]  OBVIOUS
  <2>2. /\ r \in Job /\ JobFits(r) /\ r.now = Out /\ r.ref = s
        /\ Locker(r.now) = NoSlot /\ Reader(r.now) = NoSlot /\ ~Sought(r.now)
        /\ MountFits(r.now)' /\ EmptyFits(r.now)' /\ IsApart(p, r)
        /\ \A t \in Slot : OfJob(HeldBy(r), t) = One(s, t)
    <3>1. /\ r.now = Out /\ r.ref = s /\ r \in Job  BY <2>1, OutIsCall DEF Job, SlotOrNone
    <3>2. Out.at = "out" /\ Out.op = "out" /\ Out.id = NoId  BY DEF Out
    <3>3. OpFits(Out) /\ HoldsFit(Out)  BY <3>2, OutIsCall DEF OpFits, HoldsFit, Putting
    <3>4. JobFits(r)  BY <3>1, <3>2, <3>3 DEF JobFits
    <3>5. Locker(r.now) = NoSlot /\ Reader(r.now) = NoSlot /\ ~Sought(r.now)
      BY <3>1, <3>2, OutIsCall DEF Locker, Reader, Sought, Seeking
    <3>6. MountFits(r.now)' /\ EmptyFits(r.now)'
      BY <1>1, <3>1, <3>2, OutIsCall DEF MountFits, EmptyFits
    <3>7. IsApart(p, r)
      <4>1. \A q \in Proc : Apart(Out, Now(q)) /\ Apart(Now(q), Out)
        BY <3>2, OutIsCall DEF Apart, Past
      <4>2. QED  BY <3>1, <4>1 DEF IsApart
    <3>8. \A t \in Slot : OfJob(HeldBy(r), t) = One(s, t)
      <4>1. HeldBy(r) = [ref |-> s, e |-> NoSlot, dir |-> NoSlot, s |-> NoSlot]
        BY <3>1, <3>2, OutIsCall DEF HeldBy, Putting
      <4>2. QED  BY <1>3, <4>1, OneType DEF OfJob
    <3>9. QED  BY <3>1, <3>4, <3>5, <3>6, <3>7, <3>8
  <2>3. RightInode(r)'
    BY <1>1, <2>2, OutIsCall DEF RightInode, Putting, Out
  <2>4. Becomes(p, r)  BY <1>1, <1>5, <2>1, <2>2 DEF Got, Becomes
  <2>5. \A t \in Slot : OfJob(HeldBy(r), t) = OfJob(HeldBy(k), t) - One(k.now.e, t) + One(s, t)
    BY <1>2, <1>3, <1>4, <1>5, <2>2, OneType
  <2>6. QED  BY <1>p, <1>1, <2>2, <2>3, <2>4, <2>5
<1>6. ASSUME NEW j \in Call, NEW l \in {"mwait", "found", "mounted"},
             j = [k.now EXCEPT !.at = l, !.e = NoSlot, !.s = s], Become(p, j),
             l = "mwait" => table'[s].id = Root2 /\ k.now.id # Root2,
             l = "found" => k.now.op = "mount" /\ k.now.id \in MountPoint,
             l = "mounted" => k.now.op = "mount" /\ k.now.id = Root2
      PROVE  \E r : /\ Becomes(p, r) /\ IsApart(p, r)
                    /\ Locker(r.now) = NoSlot /\ Reader(r.now) = NoSlot /\ ~Sought(r.now)
                    /\ EmptyFits(r.now)' /\ RightInode(r)' /\ MountFits(r.now)'
                    /\ \A t \in Slot : OfJob(HeldBy(r), t)
                         = OfJob(HeldBy(job[p]), t) - One(Now(p).e, t) + One(s, t)
  <2>1. PICK r \in Job : r = [now |-> j, ref |-> NoSlot]  BY DEF Job, SlotOrNone
  <2>2. r.now = j /\ r.ref = NoSlot  BY <2>1
  <2>3. /\ j.op = k.now.op /\ j.at = l /\ j.id = k.now.id /\ j.e = NoSlot /\ j.s = s
        /\ j.dir = k.now.dir
    BY <1>1, <1>6 DEF Call
  <2>4. job' = [job EXCEPT ![p] = r]  BY <1>p, <1>2, <1>6, <2>1, BecomeIs
  <2> HIDE <1>6
  <2>5. /\ l = "mwait" => table'[s].id = Root2 /\ k.now.id # Root2
        /\ l = "found" => k.now.op = "mount" /\ k.now.id \in MountPoint
        /\ l = "mounted" => k.now.op = "mount" /\ k.now.id = Root2
        /\ l \in {"mwait", "found", "mounted"}
    BY <1>6
  <2>6. OpFits(j)  BY <1>1, <1>2, <2>3, <2>5 DEF OpFits, Seeking
  <2>7. HoldsFit(j)  BY <1>1, <1>2, <2>3, <2>5 DEF HoldsFit, Putting
  <2>8. Becomes(p, r)  BY <1>2, <2>2, <2>3, <2>4, <2>6, <2>7 DEF Becomes, JobFits
  <2>9. Locker(j) = NoSlot /\ Reader(j) = NoSlot /\ ~Sought(j)
    BY <2>3, <2>5 DEF Locker, Reader, Sought, Seeking
  <2>10. EmptyFits(j)'  BY <2>3, <2>5 DEF EmptyFits
  <2>11. RightInode(r)'
    BY <1>1, <1>2, <2>2, <2>3, <2>5 DEF RightInode, Putting
  <2>12. MountFits(j)'  BY <1>1, <1>2, <2>3, <2>5 DEF MountFits
  <2>13. IsApart(p, r)
    <3>1. \A q \in Proc : q # p => Apart(k.now, Now(q)) /\ Apart(Now(q), k.now)
      BY <1>1, CallOf
    <3>2. QED  BY <2>2, <2>3, <3>1 DEF IsApart, Apart, Past
  <2>14. \A t \in Slot : OfJob(HeldBy(r), t) = One(k.now.dir, t) + One(s, t)
    <3>1. HeldBy(r) = [ref |-> NoSlot, e |-> NoSlot, dir |-> k.now.dir, s |-> s]
      BY <2>2, <2>3, <2>5 DEF HeldBy
    <3>2. QED  BY <1>3, <3>1, OneType DEF OfJob
  <2>15. \A t \in Slot : OfJob(HeldBy(r), t) = OfJob(HeldBy(k), t) - One(k.now.e, t) + One(s, t)
    BY <1>4, <2>14, OneType
  <2>16. QED  BY <1>p, <1>1, <2>2, <2>8, <2>9, <2>10, <2>11, <2>12, <2>13, <2>15
<1>7. \A l \in {"mwait", "found", "mounted"} : [k.now EXCEPT !.at = l, !.e = NoSlot, !.s = s] \in Call
  BY <1>1 DEF Call, SlotOrNone, Locations
<1>8. CASE Got(p, s) /\ k.now.op = "mount"
  <2> DEFINE l == IF k.now.id = Root2 THEN "mounted" ELSE "found"
             j == [k.now EXCEPT !.at = l, !.e = NoSlot, !.s = s]
  <2>1. Become(p, j)  BY <1>1, <1>8 DEF Got
  <2>2. /\ l \in {"mwait", "found", "mounted"} /\ l # "mwait"
        /\ l = "found" => k.now.op = "mount" /\ k.now.id \in MountPoint
        /\ l = "mounted" => k.now.op = "mount" /\ k.now.id = Root2
    BY <1>2, <1>8
  <2>3. j \in Call  BY <1>7, <2>2
  <2> HIDE DEF l
  <2>4. QED  BY <1>6, <2>1, <2>2, <2>3
<1>9. CASE /\ Become(p, [Now(p) EXCEPT !.at = "mwait", !.e = NoSlot, !.s = s])
           /\ table'[s].id = Root2 /\ Now(p).id # Root2
  <2> DEFINE j == [k.now EXCEPT !.at = "mwait", !.e = NoSlot, !.s = s]
  <2>1. Become(p, j) /\ j \in Call  BY <1>1, <1>7, <1>9
  <2>2. QED  BY <1>1, <1>6, <1>9, <2>1
<1>10. QED  BY <1>2, <1>5, <1>8, <1>9

LEMMA TakeStep ==
  ASSUME Sound, NEW p \in Proc, Now(p).at \in {"search", "swait"}, NEW s \in Slot,
         table[s].id = Now(p).id, Unlocked(s), Take(p, s), UNCHANGED <<disk, imap, sb, latest>>
  PROVE  Sound'
PROOF
<1>p. PICK k \in Job : k = job[p]  BY CallOf
<1> DEFINE e == k.now.e
           id == k.now.id
<1>1. /\ k.now = Now(p) /\ e \in Slot /\ k.ref = NoSlot /\ k.now.op \in {"open", "mount"}
      /\ id \in Id /\ HasName(id) /\ k.now.at \in {"search", "swait"}
      /\ k.now.op = "open" => id \in File
      /\ id = Root2 => sb.dev /\ ~sb.lock
      /\ k.now.dir # NoSlot => k.now.dir \in Slot /\ table[k.now.dir].id \in MountPoint
      /\ table[e] = Claimed
  BY <1>p, CallOf, Seeks DEF EmptyFits
<1>2. /\ NoSlot \notin Slot /\ NoId \notin Id /\ MountPoint \subseteq File /\ Root2 \notin File
      /\ MountPoint \subseteq Id /\ Root2 \in Id
  BY InodesAssumption DEF Id
<1>3. table[s].id = id /\ table[s].lock = FALSE /\ s # e
  BY <1>1, <1>2, ClaimedIs DEF Unlocked, Sound, TableFits, TypeOK, Inode
<1>r. PICK real : real = IF table[s].mount /\ sb.covered = s THEN sb.mounted ELSE s  OBVIOUS
<1>4. /\ real \in Slot
      /\ \/ real = s
         \/ real = sb.mounted /\ table[real].id = Root2 /\ id \in MountPoint /\ table[s].mount
  <2>1. CASE table[s].mount /\ sb.covered = s
    <3>1. SuperFits /\ sb.mounted \in SlotOrNone
      BY DEF Sound, TableFits, TypeOK, Super
    <3>2. sb.mounted # NoSlot /\ table[sb.covered].id \in MountPoint  BY <1>2, <2>1, <3>1 DEF SuperFits
    <3>3. sb.mounted \in Slot /\ table[sb.mounted].id = Root2  BY <3>1, <3>2 DEF SuperFits, SlotOrNone
    <3>4. id \in MountPoint  BY <1>3, <2>1, <3>2
    <3>5. QED  BY <1>r, <2>1, <3>3, <3>4
  <2>2. CASE ~(table[s].mount /\ sb.covered = s)  BY <1>r, <2>2
  <2>3. QED  BY <2>1, <2>2
<1>5. table[real].id \in Id /\ HasName(table[real].id)
  BY <1>1, <1>2, <1>3, <1>4 DEF Sound, TableFits
<1>6. \A q \in Proc : Now(q).e # real
  <2> SUFFICES ASSUME NEW q \in Proc, Now(q).e = real PROVE FALSE
    OBVIOUS
  <2>1. real # sb.mounted  BY <1>2, <1>4, ClaimedOwn
  <2>2. Now(q).at \in {"search", "swait", "alloc", "read"}
    BY <1>2, <1>4, CallOf DEF JobFits, HoldsFit
  <2>3. table[real] = Claimed \/ table[real].lock
    <3>1. table[real] = Claimed \/ table[real] = [Claimed EXCEPT !.id = Now(q).id, !.lock = TRUE]
      BY <2>2, CallOf DEF EmptyFits
    <3>2. [Claimed EXCEPT !.id = Now(q).id, !.lock = TRUE].lock
      BY ClaimedIs DEF Inode
    <3>3. QED  BY <3>1, <3>2
  <2>4. QED  BY <1>1, <1>2, <1>3, <1>4, <2>1, <2>3, ClaimedIs
<1>7. real # e  BY <1>1, <1>6
<1>8. table[real].nlink # 0
  <2>1. ~BeingRead(real)
    <3> SUFFICES ASSUME NEW q \in Proc, Reader(Now(q)) = real PROVE FALSE  BY DEF BeingRead
    <3>1. QED  BY <1>2, <1>4, <1>6 DEF Reader
  <2>2. Current(table[real].id) = {Saved(real)}  BY <1>4, <1>5, <2>1, CurrentIs
  <2>3. QED  BY <1>5, <2>2 DEF HasName, Saved
<1>9. table' = [t \in Slot |-> [table[t] EXCEPT !.count = @ + (IF t = real THEN 1 ELSE 0)
                                                            - (IF t = e THEN 1 ELSE 0)]]
  BY <1>1, <1>r DEF Take, GivenBack
<1>10. ASSUME NEW t \in Slot
       PROVE  /\ table'[t] \in Inode
              /\ table'[t].id = table[t].id /\ table'[t].nlink = table[t].nlink
              /\ table'[t].ver = table[t].ver /\ table'[t].lock = table[t].lock
              /\ table'[t].dirt = table[t].dirt /\ table'[t].mount = table[t].mount
              /\ table'[t].count = table[t].count + One(real, t) - One(e, t)
              /\ t # real /\ t # e => table'[t] = table[t]
  <2>1. table[t] \in Inode  BY DEF Sound, TableFits, TypeOK
  <2>2. table'[t] = [table[t] EXCEPT !.count = table[t].count + One(real, t) - One(e, t)]
    BY <1>9 DEF One
  <2>3. table[t].count + One(real, t) - One(e, t) \in Int  BY <2>1, OneType DEF Inode
  <2>4. /\ table'[t] \in Inode
        /\ table'[t].id = table[t].id /\ table'[t].nlink = table[t].nlink
        /\ table'[t].ver = table[t].ver /\ table'[t].lock = table[t].lock
        /\ table'[t].dirt = table[t].dirt /\ table'[t].mount = table[t].mount
        /\ table'[t].count = table[t].count + One(real, t) - One(e, t)
    BY <2>1, <2>2, <2>3 DEF Inode
  <2>5. t # real /\ t # e => table[t].count + One(real, t) - One(e, t) = table[t].count
    BY <2>1 DEF One, Inode
  <2>6. t # real /\ t # e => table'[t] = table[t]  BY <2>1, <2>2, <2>5 DEF Inode
  <2>7. QED  BY <2>4, <2>6
<1>11. PICK r : /\ Becomes(p, r) /\ IsApart(p, r)
                /\ Locker(r.now) = NoSlot /\ Reader(r.now) = NoSlot /\ ~Sought(r.now)
                /\ EmptyFits(r.now)' /\ RightInode(r)' /\ MountFits(r.now)'
                /\ \A t \in Slot : OfJob(HeldBy(r), t)
                     = OfJob(HeldBy(job[p]), t) - One(Now(p).e, t) + One(real, t)
  <2>1. \/ Got(p, real)
        \/ /\ Become(p, [Now(p) EXCEPT !.at = "mwait", !.e = NoSlot, !.s = real])
           /\ table[real].lock
    BY <1>r DEF Take
  <2>2. table[real].lock => table'[real].id = Root2 /\ Now(p).id # Root2
    BY <1>1, <1>2, <1>3, <1>4, <1>10
  <2>3. Now(p).id \in MountPoint => table'[real].id \in MountPoint \cup {Root2}
    <3>1. table'[real].id = table[real].id  BY <1>4, <1>10
    <3>2. table[real].id = id \/ table[real].id = Root2  BY <1>3, <1>4
    <3>3. QED  BY <1>1, <3>1, <3>2
  <2>4. table'[real].id # NoId  BY <1>2, <1>4, <1>5, <1>10
  <2>5. Now(p).id = Root2 => table'[real].id = Root2  BY <1>1, <1>2, <1>3, <1>4, <1>10
  <2>6. Now(p).dir # NoSlot => table'[Now(p).dir].id \in MountPoint  BY <1>1, <1>10
  <2>7. sb' = sb  OBVIOUS
  <2>8. Now(p).at \in {"search", "swait", "read"}  OBVIOUS
  <2>9. QED  BY <1>4, <2>1, <2>2, <2>3, <2>4, <2>5, <2>6, <2>7, <2>8, Gets
<1>12. EntriesTyped'
  <2>1. table' = [t \in Slot |-> table'[t]]  BY <1>9
  <2>2. table' \in [Slot -> Inode]  BY <1>10, <2>1
  <2>3. QED  BY <2>2 DEF EntriesTyped, Sound, TableFits, TypeOK
<1>13. Locker(Now(p)) = NoSlot /\ Reader(Now(p)) = NoSlot  BY <1>1 DEF Locker, Reader
<1>14. \A i \in Id : Current(i)' = Current(i)
  <2>1. \A t : BeingRead(t)' <=> BeingRead(t)  BY <1>11, <1>13, ReadsStay
  <2>2. QED  BY <1>10, <2>1, ContentsStay
<1>15. CountIsReferences'
  <2>1. ASSUME NEW t \in Slot
        PROVE  table'[t].count = table[t].count
                           + OfJob(HeldBy(r), t) - OfJob(HeldBy(job[p]), t)
                           + One(sb'.covered, t) - One(sb.covered, t)
                           + One(sb'.mounted, t) - One(sb.mounted, t)
    <3> DEFINE a == OfJob(HeldBy(r), t)
               b == OfJob(HeldBy(job[p]), t)
               u == One(e, t)
               v == One(real, t)
               x == One(sb.covered, t)
               y == One(sb.mounted, t)
               c == table[t].count
    <3>1. /\ a \in Nat /\ b \in Nat /\ u \in Nat /\ v \in Nat /\ x \in Nat /\ y \in Nat /\ c \in Int
          /\ a = b - u + v /\ table'[t].count = c + v - u
      BY <1>1, <1>10, <1>11, OneType, OfJobType DEF Sound, TableFits, TypeOK, Inode
    <3> HIDE DEF a, b, u, v, x, y, c
    <3>2. table'[t].count = c + a - b + x - x + y - y  BY <3>1
    <3>3. QED  BY <3>2 DEF a, b, u, v, x, y, c
  <2>2. QED  BY <1>11, <2>1, CountsFit
<1>16. Locks'  BY <1>2, <1>10, <1>11, <1>13, LocksFit
<1>17. OneCopy' /\ EntriesFit' /\ Clean'
  <2>1. \A t \in Slot : Saved(t)' = Saved(t)  BY <1>10 DEF Saved
  <2>2. QED  BY <1>10, <2>1 DEF Sound, TableFits, OneCopy, EntriesFit, Kept, Clean, Unlocked
<1>18. FreeIsReady'
  <2> SUFFICES ASSUME NEW t \in Slot, table'[t].count = 0 PROVE ~table[t].dirt /\ ~table[t].lock
    BY <1>10 DEF FreeIsReady, Free, Ready, Unlocked
  <2>1. CASE t = e  BY <1>1, <2>1, ClaimedIs
  <2>2. CASE t # e
    <3>1. table[t].count \in Nat  BY Counted
    <3>2. table[t].count = 0  BY <1>10, <2>2, <3>1 DEF One
    <3>3. QED  BY <3>2 DEF Sound, TableFits, FreeIsReady, Free, Ready, Unlocked
  <2>3. QED  BY <2>1, <2>2
<1>19. \A t \in Slot : t # real => (InUse2(t)' => InUse2(t) /\ table'[t].count = table[t].count)
  <2> SUFFICES ASSUME NEW t \in Slot, t # real, InUse2(t)'
               PROVE  InUse2(t) /\ table'[t].count = table[t].count
    OBVIOUS
  <2>1. t # e  BY <1>1, <1>2, <1>10, ClaimedIs DEF InUse2
  <2>2. QED  BY <1>10, <2>1 DEF InUse2
<1>20. InUse2(real)' => InUse2(real) \/ (sb.dev /\ ~sb.lock)
  <2>1. CASE real = s  BY <1>1, <1>3, <1>10, <2>1 DEF InUse2
  <2>2. CASE real = sb.mounted  BY <1>4, <1>10, <2>2, Counted DEF InUse2
  <2>3. QED  BY <1>4, <2>1, <2>2
<1>21. SuperFits'
  <2>1. Now(p).op # "umount"  BY <1>1
  <2>2. \A t \in Slot : /\ table'[t].mount = table[t].mount
                        /\ InUse2(t)' => InUse2(t) \/ (sb.dev /\ ~sb.lock)
    BY <1>10, <1>19, <1>20
  <2>3. QED  BY <1>10, <1>11, <2>1, <2>2, SuperStays
<1>22. \A q \in Proc : q # p => EmptyFits(Now(q))' /\ RightInode(job[q])' /\ MountFits(Now(q))'
  <2> SUFFICES ASSUME NEW q \in Proc, q # p
               PROVE  EmptyFits(Now(q))' /\ RightInode(job[q])' /\ MountFits(Now(q))'
    OBVIOUS
  <2>1. \A x \in Uses(job[q]) : table'[x].id = table[x].id  BY <1>10 DEF Uses
  <2>2. e \notin Uses(job[q])  BY <1>1, <1>2, ClaimedOwn
  <2>3. Now(q).e # NoSlot => table'[Now(q).e] = table[Now(q).e]
    BY <1>6, <1>10, <2>2, ClaimedOwn
  <2>4. Now(q).at = "truncate" => /\ table'[Now(q).s].nlink = table[Now(q).s].nlink
                                  /\ table'[Now(q).s].count = table[Now(q).s].count
    <3> SUFFICES ASSUME Now(q).at = "truncate"
                 PROVE  /\ table'[Now(q).s].nlink = table[Now(q).s].nlink
                        /\ table'[Now(q).s].count = table[Now(q).s].count
      OBVIOUS
    <3>1. Now(q).s \in Uses(job[q]) /\ Now(q).s \in Slot
      BY CallOf DEF JobFits, HoldsFit, Putting, Call, SlotOrNone, Uses, UsesS
    <3>2. table[Now(q).s].nlink = 0
      <4>1. RightInode(job[q]) /\ Now(q) = job[q].now  BY CallOf
      <4>2. QED  BY <4>1 DEF RightInode
    <3>3. Now(q).s # real /\ Now(q).s # e  BY <1>8, <2>2, <3>1, <3>2
    <3>4. QED  BY <1>10, <3>1, <3>3
  <2>5. EmptyFits(Now(q))' /\ RightInode(job[q])'  BY <1>11, <2>1, <2>3, <2>4, OthersHold
  <2>6. Now(q).op = "umount" => table[real].id # Root2
    <3> SUFFICES ASSUME Now(q).op = "umount" PROVE table[real].id # Root2
      OBVIOUS
    <3>1. MountFits(Now(q)) /\ Apart(Now(p), Now(q))  BY CallOf
    <3>2. \A t \in Slot : ~table[t].mount  BY <3>1 DEF MountFits
    <3>3. id # Root2  BY <1>1, <3>1, ToRoot2 DEF Apart, Past
    <3>4. QED  BY <1>3, <1>4, <3>2, <3>3
  <2>7. MountFits(Now(q))'
    <3>1. InUse2(real)' => table[real].id = Root2  BY <1>4, <1>10 DEF InUse2
    <3>2. QED  BY <1>10, <1>11, <1>19, <2>6, <3>1, OthersMount
  <2>8. QED  BY <2>5, <2>7
<1>23. QED
  BY <1>11, <1>12, <1>14, <1>15, <1>16, <1>17, <1>18, <1>21, <1>22, Steady DEF MountsHold

(* What is not there is read into the empty inode, which is locked. *)
LEMMA StartReadStep ==
  ASSUME Sound, NEW p \in Proc, Now(p).at = "search", Holders(Now(p).id) = {},
         table' = [table EXCEPT ![Now(p).e].id = Now(p).id, ![Now(p).e].lock = TRUE],
         Goto(p, "read"), UNCHANGED <<disk, imap, sb, latest>>
  PROVE  Sound'
PROOF
<1>p. PICK k \in Job : k = job[p]  BY CallOf
<1> DEFINE e == k.now.e
           id == k.now.id
<1>1. /\ k.now = Now(p) /\ e \in Slot /\ k.ref = NoSlot /\ k.now.op \in {"open", "mount"}
      /\ id \in Id /\ HasName(id) /\ k.now.at = "search" /\ k.now \in Call
      /\ k.now.op = "open" => id \in File
      /\ id = Root2 => sb.dev /\ ~sb.lock
      /\ k.now.dir # NoSlot => k.now.dir \in Slot /\ table[k.now.dir].id \in MountPoint
      /\ table[e] = Claimed /\ JobFits(k) /\ MountFits(k.now)
  BY <1>p, CallOf, Seeks DEF EmptyFits
<1>2. /\ NoSlot \notin Slot /\ NoId \notin Id /\ MountPoint \subseteq File /\ Root2 \notin File
      /\ MountPoint \subseteq Id /\ Root2 \in Id
  BY InodesAssumption DEF Id
<1>3. /\ \A q \in Proc : q # p => e \notin Uses(job[q])
      /\ sb.covered # e /\ sb.mounted # e
  BY <1>1, <1>2, ClaimedOwn
<1>j. PICK j \in Call : j = [k.now EXCEPT !.at = "read"]
  BY <1>1 DEF Call, Locations
<1>r. PICK r \in Job : r = [now |-> j, ref |-> k.ref]  BY DEF Job
<1>4. /\ r.now = j /\ r.ref = NoSlot /\ j.op = k.now.op /\ j.at = "read" /\ j.id = id
      /\ j.e = e /\ j.dir = k.now.dir
  BY <1>j, <1>r, <1>1 DEF Call
<1>5. Becomes(p, r)
  <2>1. job' = [job EXCEPT ![p] = r]  BY <1>p, <1>j, <1>r, <1>1, GotoIs, BecomeIs
  <2>2. OpFits(j)  BY <1>1, <1>4 DEF JobFits, OpFits, Seeking
  <2>3. HoldsFit(j)  BY <1>1, <1>4 DEF JobFits, HoldsFit, Putting
  <2>4. QED  BY <1>1, <1>4, <2>1, <2>2, <2>3 DEF Becomes, JobFits
<1>i. PICK i \in Inode : i = [Claimed EXCEPT !.id = id, !.lock = TRUE]
  BY <1>1, ClaimedIs DEF Inode
<1>6. i.id = id /\ i.lock /\ i.count = 1 /\ ~i.mount /\ ~i.dirt
  BY <1>i, ClaimedIs DEF Inode
<1>7. /\ table' \in [Slot -> Inode] /\ table'[e] = i
      /\ \A t \in Slot : t # e => table'[t] = table[t]
  <2>1. table' = [table EXCEPT ![e] = i]
    <3>1. table' = [table EXCEPT ![e].id = id, ![e].lock = TRUE] /\ e \in Slot  BY <1>1
    <3>2. table' = [table EXCEPT ![e] = [table[e] EXCEPT !.id = id, !.lock = TRUE]]
      BY <3>1 DEF Sound, TableFits, TypeOK
    <3>3. QED  BY <1>1, <1>i, <3>2
  <2>2. QED  BY <1>1, <1>5, <2>1, OneEntry
<1>u. sb' = sb /\ imap' = imap /\ disk' = disk /\ latest' = latest  OBVIOUS
<1>8. EntriesTyped'  BY <1>7 DEF EntriesTyped, Sound, TableFits, TypeOK
<1>9. /\ Locker(r.now) = e /\ Locker(Now(p)) = NoSlot /\ Reader(r.now) = e /\ Reader(Now(p)) = NoSlot
  BY <1>1, <1>4 DEF Locker, Reader
<1>10. \A t \in Slot : BeingRead(t)' <=> BeingRead(t) \/ t = e
  <2>1. Now(p)' = r.now /\ \A q \in Proc : q # p => Now(q)' = Now(q)  BY <1>5, NowAfter
  <2>2. \A t : BeingRead(t)' <=> \E q \in Proc : Reader(Now(q)') = t  BY DEF BeingRead, Reader
  <2>3. \A t : BeingRead(t)' <=> \/ Reader(r.now) = t
                                 \/ \E q \in Proc : q # p /\ Reader(Now(q)) = t
    BY <2>1, <2>2
  <2>4. \A t \in Slot : BeingRead(t) <=> \E q \in Proc : q # p /\ Reader(Now(q)) = t
    BY <1>2, <1>9 DEF BeingRead
  <2>5. QED  BY <1>9, <2>3, <2>4
<1>11. ASSUME NEW n \in Id PROVE Current(n)' = Current(n)
  <2>1. CASE n # id
    <3>1. table[e].id # n /\ table'[e].id # n  BY <1>1, <1>2, <1>6, <1>7, <2>1, ClaimedIs
    <3>2. QED  BY <1>1, <1>7, <1>10, <3>1, OthersCurrent
  <2>2. CASE n = id
    <3>1. Current(n) = {disk[n]}  BY <1>1, <2>2, CurrentIs DEF Holders
    <3>2. InMemory(n)' = {}
      BY <1>1, <1>7, <1>10, <2>2 DEF InMemory, Holders
    <3>3. Current(n)' = {disk'[n]}  BY <3>2 DEF Current
    <3>4. QED  BY <3>1, <3>3
  <2>3. QED  BY <2>1, <2>2
<1>12. CountIsReferences'
  <2>1. HeldBy(r) = HeldBy(job[p])
    BY <1>p, <1>1, <1>4 DEF HeldBy, Putting
  <2>2. \A t \in Slot : table'[t].count = table[t].count  BY <1>1, <1>6, <1>7, ClaimedIs
  <2>3. QED  BY <1>5, <1>u, <2>1, <2>2, CountsStay
<1>13. Locks'
  <2>1. ~table[e].lock  BY <1>1, ClaimedIs
  <2>2. \A t \in Slot : table'[t].lock <=> table[t].lock \/ t = e  BY <1>1, <1>6, <1>7
  <2>3. QED  BY <1>1, <1>2, <1>5, <1>9, <2>1, <2>2, LocksFit
<1>14. OneCopy' /\ FreeIsReady' /\ EntriesFit' /\ Clean'
  <2>1. OneCopy'  BY <1>1, <1>6, <1>7 DEF Sound, TableFits, OneCopy, Holders
  <2>2. FreeIsReady'
    <3>1. \A t \in Slot : table'[t].count = 0 => t # e /\ table'[t] = table[t]
      BY <1>6, <1>7, 1 # 0
    <3>2. QED  BY <3>1 DEF Sound, TableFits, FreeIsReady, Free, Ready, Unlocked
  <2>3. EntriesFit'
    <3>1. id \in imap /\ id # NoId  BY <1>1, <1>2 DEF HasName
    <3>2. QED  BY <1>6, <1>7, <1>u, <3>1 DEF Sound, TableFits, EntriesFit
  <2>4. Clean'
    <3>1. \A t \in Slot : t # e => Saved(t)' = Saved(t)  BY <1>7 DEF Saved
    <3>2. QED  BY <1>6, <1>7, <3>1 DEF Sound, TableFits, Kept, Clean, Unlocked
  <2>5. QED  BY <2>1, <2>2, <2>3, <2>4
<1>15. \A t \in Slot : table'[t].mount = table[t].mount
  <2>1. table[e].mount = FALSE /\ table'[e].mount = FALSE
    BY <1>1, <1>6, <1>7, ClaimedIs DEF Inode
  <2>2. QED  BY <1>7, <2>1
<1>16. SuperFits'
  <2>1. \A t \in Slot : InUse2(t)' => InUse2(t) \/ (sb.dev /\ ~sb.lock)
    BY <1>1, <1>6, <1>7 DEF InUse2
  <2>2. \A t \in Slot : t = sb.mounted \/ t = sb.covered => table'[t].id = table[t].id
    BY <1>3, <1>7
  <2>3. Now(p).op # "umount"  BY <1>1
  <2>4. QED  BY <1>5, <1>15, <2>1, <2>2, <2>3, SuperStays
<1>17. EmptyFits(r.now)' /\ RightInode(r)' /\ MountFits(r.now)'
  <2>1. EmptyFits(r.now)'  BY <1>i, <1>4, <1>7 DEF EmptyFits
  <2>2. k.now.dir # NoSlot => k.now.dir # e
    BY <1>1, <1>2, ClaimedIs
  <2>3. RightInode(r)'  BY <1>1, <1>4, <1>7, <2>2 DEF RightInode, Putting
  <2>4. MountFits(r.now)'  BY <1>1, <1>4 DEF MountFits
  <2>5. QED  BY <2>1, <2>3, <2>4
<1>18. ASSUME NEW q \in Proc, q # p
       PROVE  EmptyFits(Now(q))' /\ RightInode(job[q])' /\ MountFits(Now(q))'
  <2>1. EmptyFits(Now(q))' /\ RightInode(job[q])'
    BY <1>1, <1>3, <1>5, <1>7, <1>18, Unused
  <2>2. CASE Now(q).op # "umount"  BY <1>5, <1>u, <1>18, <2>1, <2>2, OthersMount
  <2>3. CASE Now(q).op = "umount"
    <3>1. Apart(Now(p), Now(q))  BY <1>18, CallOf
    <3>2. id # Root2  BY <1>1, <2>3, <3>1, ToRoot2 DEF Apart, Past
    <3>3. \A t \in Slot : InUse2(t)' => InUse2(t) /\ table'[t].count = table[t].count
      BY <1>1, <1>6, <1>7, <3>2 DEF InUse2
    <3>4. QED  BY <1>5, <1>15, <1>u, <1>18, <2>1, <3>3, OthersMount
  <2>4. QED  BY <2>1, <2>2, <2>3
<1>19. IsApart(p, r)
  <2>1. \A q \in Proc : q # p => Apart(k.now, Now(q)) /\ Apart(Now(q), k.now)
    BY <1>1, CallOf
  <2>2. QED  BY <1>4, <2>1 DEF IsApart, Apart, Past
<1>20. Sought(r.now) => HasName(r.now.id)  BY <1>1, <1>4
<1>21. QED
  BY <1>5, <1>8, <1>11, <1>12, <1>13, <1>14, <1>16, <1>17, <1>18, <1>19, <1>20, Steady DEF MountsHold

(* The wait for it, and the search again. *)
LEMMA SeekStep ==
  ASSUME Sound, NEW p \in Proc, Now(p).at \in {"search", "swait"}, NEW s \in SlotOrNone,
         NEW l \in {"search", "swait"}, l = "swait" => s # NoSlot,
         Become(p, [Now(p) EXCEPT !.at = l, !.s = s]), UNCHANGED <<table, disk, imap, sb, latest>>
  PROVE  Sound'
PROOF
<1>p. PICK k \in Job : k = job[p]  BY CallOf
<1>1. /\ k.now = Now(p) /\ k.now.at \in {"search", "swait"} /\ k.now \in Call /\ k.ref = NoSlot
      /\ k.now.op \in {"open", "mount"} /\ JobFits(k) /\ EmptyFits(k.now) /\ RightInode(k)
      /\ MountFits(k.now) /\ HasName(k.now.id)
  BY <1>p, CallOf, Seeks
<1>j. PICK j \in Call : j = [k.now EXCEPT !.at = l, !.s = s]
  BY <1>1 DEF Call, Locations
<1>r. PICK r \in Job : r = [now |-> j, ref |-> k.ref]  BY DEF Job
<1>2. /\ r.now = j /\ r.ref = NoSlot /\ j.op = k.now.op /\ j.at = l /\ j.id = k.now.id
      /\ j.e = k.now.e /\ j.s = s /\ j.dir = k.now.dir
  BY <1>j, <1>r, <1>1 DEF Call
<1>3. Becomes(p, r)
  <2>1. job' = [job EXCEPT ![p] = r]  BY <1>p, <1>j, <1>r, <1>1, BecomeIs
  <2>2. OpFits(j)  BY <1>1, <1>2 DEF JobFits, OpFits, Seeking
  <2>3. HoldsFit(j)  BY <1>1, <1>2 DEF JobFits, HoldsFit, Putting
  <2>4. QED  BY <1>1, <1>2, <2>1, <2>2, <2>3 DEF Becomes, JobFits
<1>4. HeldBy(r) = HeldBy(job[p])  BY <1>p, <1>1, <1>2 DEF HeldBy, Putting
<1>5. Locker(r.now) = Locker(Now(p)) /\ Reader(r.now) = Reader(Now(p)) /\ Now(p).op # "umount"
  BY <1>1, <1>2 DEF Locker, Reader
<1>6. EmptyFits(r.now)  BY <1>1, <1>2 DEF EmptyFits
<1>7. RightInode(r)  BY <1>1, <1>2 DEF RightInode, Putting
<1>8. MountFits(r.now)  BY <1>1, <1>2 DEF MountFits
<1>9. IsApart(p, r)
  <2>1. \A q \in Proc : q # p => Apart(k.now, Now(q)) /\ Apart(Now(q), k.now)  BY <1>1, CallOf
  <2>2. QED  BY <1>2, <2>1 DEF IsApart, Apart, Past
<1>10. Sought(r.now) => HasName(r.now.id)  BY <1>1, <1>2
<1>11. QED  BY <1>3, <1>4, <1>5, <1>6, <1>7, <1>8, <1>9, <1>10, JobStep

LEMMA SearchStep == ASSUME Sound, NEW p \in Proc, Search(p) PROVE Sound'
PROOF
<1>1. Now(p).at = "search" /\ UNCHANGED <<disk, imap, sb, latest>>  BY DEF Search, At
<1>2. ASSUME NEW s \in Holders(Now(p).id), Unlocked(s), Take(p, s) PROVE Sound'
  BY <1>1, <1>2, TakeStep DEF Holders
<1>3. ASSUME NEW s \in Holders(Now(p).id),
             Become(p, [Now(p) EXCEPT !.at = "swait", !.s = s]), UNCHANGED table
      PROVE  Sound'
  <2>1. s \in SlotOrNone /\ s # NoSlot  BY InodesAssumption DEF Holders, SlotOrNone
  <2>2. QED  BY <1>1, <1>3, <2>1, SeekStep
<1>4. CASE /\ Holders(Now(p).id) = {} /\ Goto(p, "read")
           /\ table' = [table EXCEPT ![Now(p).e].id = Now(p).id, ![Now(p).e].lock = TRUE]
  BY <1>1, <1>4, StartReadStep
<1>5. QED  BY <1>2, <1>3, <1>4 DEF Search

LEMMA SearchWaitStep == ASSUME Sound, NEW p \in Proc, SearchWait(p) PROVE Sound'
PROOF
<1>1. /\ Now(p).at = "swait" /\ Unlocked(Now(p).s) /\ UNCHANGED <<disk, imap, sb, latest>>
      /\ Now(p).s \in Slot
  BY Seeks DEF SearchWait, At
<1>2. CASE StillThere(Now(p).s, Now(p).id) /\ Take(p, Now(p).s)
  BY <1>1, <1>2, TakeStep DEF StillThere
<1>3. CASE Goto(p, "search") /\ UNCHANGED table
  <2>1. Become(p, [Now(p) EXCEPT !.at = "search"])  BY <1>3, GotoIs
  <2>2. [Now(p) EXCEPT !.at = "search"] = [Now(p) EXCEPT !.at = "search", !.s = Now(p).s]
    BY CallOf DEF Call
  <2>3. Now(p).s \in SlotOrNone  BY <1>1 DEF SlotOrNone
  <2>4. QED  BY <1>1, <1>3, <2>1, <2>2, <2>3, SeekStep
<1>4. QED  BY <1>2, <1>3 DEF SearchWait

(* It has been read. *)
LEMMA ReadInodeStep == ASSUME Sound, NEW p \in Proc, ReadInode(p) PROVE Sound'
PROOF
<1>p. PICK k \in Job : k = job[p]  BY CallOf
<1> DEFINE e == k.now.e
           id == k.now.id
<1>1. /\ k.now = Now(p) /\ e \in Slot /\ k.ref = NoSlot /\ k.now.op \in {"open", "mount"}
      /\ id \in Id /\ HasName(id) /\ k.now.at = "read" /\ k.now \in Call
      /\ k.now.op = "open" => id \in File /\ k.now.dir = NoSlot
      /\ id = Root2 => sb.dev /\ ~sb.lock
      /\ k.now.dir # NoSlot => k.now.dir \in Slot /\ table[k.now.dir].id \in MountPoint
      /\ k.now.op = "mount" => /\ id \in MountPoint \cup {Root2}
                               /\ k.now.dir # NoSlot <=> id = Root2
      /\ table[e] = [Claimed EXCEPT !.id = id, !.lock = TRUE]
  BY <1>p, CallOf, Seeks DEF EmptyFits, ReadInode, At
<1>2. /\ NoSlot \notin Slot /\ NoId \notin Id /\ MountPoint \subseteq File /\ Root2 \notin File
      /\ MountPoint \subseteq Id /\ Root2 \in Id
  BY InodesAssumption DEF Id
<1>3. /\ \A q \in Proc : q # p => e \notin Uses(job[q])
      /\ sb.covered # e /\ sb.mounted # e
  BY <1>1, <1>2, ClaimedOwn
<1>u. sb' = sb /\ imap' = imap /\ disk' = disk /\ latest' = latest  BY DEF ReadInode
<1>4. /\ table[e].id = id /\ table[e].lock /\ table[e].count = 1 /\ ~table[e].dirt
      /\ table[e].mount = FALSE /\ table[e] \in Inode /\ disk[id] \in OnDisk
  BY <1>1, ClaimedIs DEF Inode, Sound, TableFits, TypeOK
<1>i. PICK i \in Inode : i = [table[e] EXCEPT !.nlink = disk[id].nlink, !.ver = disk[id].ver,
                                              !.lock = FALSE]
  BY <1>4 DEF Inode, OnDisk
<1>5. /\ i.id = id /\ i.lock = FALSE /\ i.count = 1 /\ ~i.dirt /\ i.mount = FALSE
      /\ i.nlink = disk[id].nlink /\ i.ver = disk[id].ver
  BY <1>i, <1>4 DEF Inode
<1>6. /\ table' \in [Slot -> Inode] /\ table'[e] = i
      /\ \A t \in Slot : t # e => table'[t] = table[t]
  <2>1. table' = [table EXCEPT ![e].nlink = disk[id].nlink, ![e].ver = disk[id].ver,
                               ![e].lock = FALSE]
    BY <1>1 DEF ReadInode
  <2>2. table' = [table EXCEPT ![e] = i]  BY <1>1, <1>i, <2>1 DEF Sound, TableFits, TypeOK
  <2>3. QED  BY <1>1, <2>2 DEF Sound, TableFits, TypeOK
<1>7. PICK r : /\ Becomes(p, r) /\ IsApart(p, r)
               /\ Locker(r.now) = NoSlot /\ Reader(r.now) = NoSlot /\ ~Sought(r.now)
               /\ EmptyFits(r.now)' /\ RightInode(r)' /\ MountFits(r.now)'
               /\ \A t \in Slot : OfJob(HeldBy(r), t)
                    = OfJob(HeldBy(job[p]), t) - One(Now(p).e, t) + One(e, t)
  <2>1. Got(p, e)  BY <1>1 DEF ReadInode
  <2>2. table'[e].id # NoId /\ (Now(p).id = Root2 => table'[e].id = Root2)
    BY <1>1, <1>2, <1>5, <1>6
  <2>3. Now(p).id \in MountPoint => table'[e].id \in MountPoint \cup {Root2}  BY <1>1, <1>5, <1>6
  <2>4. ASSUME k.now.dir # NoSlot PROVE k.now.dir # e
    <3>1. id = Root2  BY <1>1, <2>4
    <3>2. table[k.now.dir].id \in MountPoint  BY <1>1, <2>4
    <3>3. QED  BY <1>2, <1>4, <3>1, <3>2
  <2>5. Now(p).dir # NoSlot => table'[Now(p).dir].id \in MountPoint  BY <1>1, <1>6, <2>4
  <2>6. Now(p).at \in {"search", "swait", "read"}  BY <1>1
  <2>7. QED  BY <1>1, <1>u, <2>1, <2>2, <2>3, <2>5, <2>6, Gets
<1>8. EntriesTyped'  BY <1>6, <1>u DEF EntriesTyped, Sound, TableFits, TypeOK
<1>9. Locker(Now(p)) = e /\ Reader(Now(p)) = e  BY <1>1 DEF Locker, Reader
<1>10. \A t \in Slot : BeingRead(t)' <=> BeingRead(t) /\ t # e
  <2>1. Now(p)' = r.now /\ \A q \in Proc : q # p => Now(q)' = Now(q)  BY <1>7, NowAfter
  <2>2. \A t : BeingRead(t)' <=> \E q \in Proc : Reader(Now(q)') = t  BY DEF BeingRead, Reader
  <2>3. \A t \in Slot : BeingRead(t)' <=> \E q \in Proc : q # p /\ Reader(Now(q)) = t
    BY <1>2, <1>7, <2>1, <2>2
  <2>4. ASSUME NEW q \in Proc, q # p PROVE Reader(Now(q)) # e
    <3> SUFFICES ASSUME Reader(Now(q)) = e PROVE FALSE
      OBVIOUS
    <3>1. Locker(Now(q)) = e  BY <1>1, <1>2 DEF Reader, Locker
    <3>2. QED  BY <1>1, <1>2, <1>9, <2>4, <3>1 DEF Sound, TableFits, Locks
  <2>5. QED  BY <1>9, <2>3, <2>4 DEF BeingRead
<1>11. Saved(e)' = disk[id]  BY <1>4, <1>5, <1>6 DEF Saved, OnDisk
<1>12. ASSUME NEW n \in Id PROVE Current(n)' = Current(n)
  <2>1. CASE n # id
    <3>1. table[e].id # n /\ table'[e].id # n  BY <1>4, <1>5, <1>6, <2>1
    <3>2. QED  BY <1>1, <1>6, <1>10, <1>u, <3>1, OthersCurrent
  <2>2. CASE n = id
    <3>1. BeingRead(e)  BY <1>9 DEF BeingRead
    <3>2. \A t \in Slot : table[t].id = id => t = e
      BY <1>1, <1>2, <1>4 DEF Sound, TableFits, OneCopy
    <3>3. Current(n) = {disk[n]}  BY <2>2, <3>1, <3>2, CurrentIs
    <3>4. InMemory(n)' = {e}
      BY <1>1, <1>5, <1>6, <1>10, <2>2, <3>2 DEF InMemory, Holders
    <3>5. Current(n)' = {Saved(e)'}  BY <3>4 DEF Current
    <3>6. QED  BY <1>11, <2>2, <3>3, <3>5
  <2>3. QED  BY <2>1, <2>2
<1>13. CountIsReferences'
  <2>1. \A t \in Slot : OfJob(HeldBy(r), t) = OfJob(HeldBy(job[p]), t)
    <3>1. \A t \in Slot : OfJob(HeldBy(r), t) = OfJob(HeldBy(job[p]), t) - One(e, t) + One(e, t)
      BY <1>1, <1>7
    <3>2. \A t \in Slot : One(e, t) \in Nat /\ OfJob(HeldBy(job[p]), t) \in Nat
      BY OneType, OfJobType
    <3>3. QED  BY <3>1, <3>2
  <2>2. \A t \in Slot : table'[t].count = table[t].count  BY <1>4, <1>5, <1>6
  <2>3. QED  BY <1>7, <1>u, <2>1, <2>2, CountsStay
<1>14. Locks'
  <2>1. \A t \in Slot : table'[t].lock <=> table[t].lock /\ t # e  BY <1>5, <1>6
  <2>2. QED  BY <1>2, <1>7, <1>9, <2>1, LocksFit
<1>15. OneCopy' /\ FreeIsReady' /\ EntriesFit' /\ Clean'
  <2>1. \A t \in Slot : table'[t].id = table[t].id  BY <1>4, <1>5, <1>6
  <2>2. OneCopy'  BY <2>1 DEF Sound, TableFits, OneCopy
  <2>3. FreeIsReady'
    <3>1. \A t \in Slot : table'[t].count = 0 => t # e /\ table'[t] = table[t]
      BY <1>5, <1>6, 1 # 0
    <3>2. QED  BY <3>1 DEF Sound, TableFits, FreeIsReady, Free, Ready, Unlocked
  <2>4. EntriesFit'  BY <1>4, <1>5, <1>6, <1>u DEF Sound, TableFits, EntriesFit
  <2>5. Clean'
    <3>1. \A t \in Slot : t # e => Saved(t)' = Saved(t)  BY <1>6 DEF Saved
    <3>2. QED  BY <1>5, <1>6, <1>11, <1>u, <3>1 DEF Sound, TableFits, Kept, Clean, Unlocked
  <2>6. QED  BY <2>2, <2>3, <2>4, <2>5
<1>16. \A t \in Slot : /\ table'[t].mount = table[t].mount /\ table'[t].id = table[t].id
                       /\ InUse2(t)' => InUse2(t) /\ table'[t].count = table[t].count
  BY <1>4, <1>5, <1>6 DEF InUse2
<1>17. SuperFits'
  <2>1. Now(p).op # "umount"  BY <1>1
  <2>2. QED  BY <1>7, <1>16, <1>u, <2>1, SuperStays
<1>18. ASSUME NEW q \in Proc, q # p
       PROVE  EmptyFits(Now(q))' /\ RightInode(job[q])' /\ MountFits(Now(q))'
  <2>1. EmptyFits(Now(q))' /\ RightInode(job[q])'
    BY <1>1, <1>3, <1>6, <1>7, <1>18, Unused
  <2>2. MountFits(Now(q))'  BY <1>7, <1>16, <1>u, <1>18, OthersMount
  <2>3. QED  BY <2>1, <2>2
<1>19. QED
  BY <1>7, <1>8, <1>12, <1>13, <1>14, <1>15, <1>17, <1>18, <1>u, Steady DEF MountsHold

(***************************************************************************)
(* minix_new_inode, and what a process does with an inode it has.          *)
(***************************************************************************)
(* A reference is given back, and with the last one perhaps the entry. *)
LEMMA GiveBack ==
  ASSUME Sound, NEW p \in Proc, NEW r, Becomes(p, r), NEW s \in Uses(job[p]), NEW i \in Inode,
         table' = [table EXCEPT ![s] = i], i.count = table[s].count - 1,
         ~table[s].lock, ~i.lock, i.dirt => i.count # 0 /\ i.id # NoId,
         i.id = table[s].id \/ (i.id = NoId /\ i.count = 0),
         latest' = latest, disk' = disk, imap' \subseteq imap,
         i.id # NoId => i.id \in imap',
         \A t \in Slot : t # s /\ table[t].id # NoId => table[t].id \in imap',
         sb' \in Super, Kept', HasName(Root2)',
         \A t \in Slot : One(sb'.covered, t) - One(sb.covered, t) + One(sb'.mounted, t)
                           - One(sb.mounted, t)
                           = OfJob(HeldBy(job[p]), t) - OfJob(HeldBy(r), t) - One(s, t),
         Locker(Now(p)) = NoSlot, Locker(r.now) = NoSlot, ~Sought(r.now),
         EmptyFits(r.now)', RightInode(r)', MountFits(r.now)', SuperFits', IsApart(p, r),
         \A q \in Proc : q # p => MountFits(Now(q))',
         \A m \in Id : (\E q \in Proc : q # p /\ Sought(Now(q)) /\ Now(q).id = m) => HasName(m)'
  PROVE  Sound'
PROOF
<1>1. s \in Slot /\ table[s].count \in Nat /\ table[s].count > 0  BY UsesCounted
<1>2. /\ table' \in [Slot -> Inode] /\ table'[s] = i
      /\ \A t \in Slot : t # s => table'[t] = table[t]
  BY <1>1, OneEntry
<1>3. EntriesTyped'  BY <1>2 DEF EntriesTyped, Sound, TableFits, TypeOK
<1>4. CountIsReferences'
  <2>1. ASSUME NEW t \in Slot
        PROVE  table'[t].count = table[t].count
                           + OfJob(HeldBy(r), t) - OfJob(HeldBy(job[p]), t)
                           + One(sb'.covered, t) - One(sb.covered, t)
                           + One(sb'.mounted, t) - One(sb.mounted, t)
    <3> DEFINE a == OfJob(HeldBy(r), t)
               b == OfJob(HeldBy(job[p]), t)
               u == One(s, t)
               x1 == One(sb'.covered, t)
               x0 == One(sb.covered, t)
               y1 == One(sb'.mounted, t)
               y0 == One(sb.mounted, t)
               c == table[t].count
    <3>1. /\ a \in Nat /\ b \in Nat /\ u \in Nat /\ x1 \in Nat /\ x0 \in Nat /\ y1 \in Nat /\ y0 \in Nat
          /\ c \in Int
      BY OneType, OfJobType DEF Sound, TableFits, TypeOK, Inode
    <3>2. table'[t].count = c - u  BY <1>1, <1>2, <3>1 DEF One
    <3>3. x1 - x0 + y1 - y0 = b - a - u  OBVIOUS
    <3> HIDE DEF a, b, u, x1, x0, y1, y0, c
    <3>4. table'[t].count = c + a - b + x1 - x0 + y1 - y0  BY <3>1, <3>2, <3>3
    <3>5. QED  BY <3>4 DEF a, b, u, x1, x0, y1, y0, c
  <2>2. QED  BY <2>1, CountsFit
<1>5. Locks'
  <2>1. \A t \in Slot : table'[t].lock <=> table[t].lock  BY <1>1, <1>2
  <2>2. QED  BY <2>1, InodesAssumption, LocksFit
<1>6. OneCopy'  BY <1>1, <1>2 DEF Sound, TableFits, OneCopy
<1>7. FreeIsReady'  BY <1>1, <1>2 DEF Sound, TableFits, FreeIsReady, Free, Ready, Unlocked
<1>8. EntriesFit'  BY <1>1, <1>2 DEF Sound, TableFits, EntriesFit
<1>9. ASSUME NEW q \in Proc, q # p
      PROVE  EmptyFits(Now(q))' /\ RightInode(job[q])'
  <2>1. \A x \in Uses(job[q]) : table'[x].id = table[x].id
    <3> SUFFICES ASSUME NEW x \in Uses(job[q]) PROVE table'[x].id = table[x].id
      OBVIOUS
    <3>1. CASE x # s  BY <1>2, <3>1, UsesCounted
    <3>2. CASE x = s
      <4>1. table[s].count # 1  BY <1>9, <3>2, TwoUsers
      <4>2. i.count # 0  BY <1>1, <4>1
      <4>3. QED  BY <1>2, <3>2, <4>2
    <3>3. QED  BY <3>1, <3>2
  <2>2. Now(q).e # NoSlot => table'[Now(q).e] = table[Now(q).e]
    <3>1. Now(q).e # NoSlot => Now(q).e \in Slot /\ Now(q).e # s  BY <1>9, ClaimedOwn
    <3>2. QED  BY <1>2, <3>1
  <2>3. Now(q).at = "truncate" => Now(q).s \in Slot /\ Now(q).s # s
    <3> SUFFICES ASSUME Now(q).at = "truncate" PROVE Now(q).s \in Slot /\ Now(q).s # s
      OBVIOUS
    <3>1. Now(q).s \in Uses(job[q]) /\ Now(q).s \in Slot
      BY CallOf DEF JobFits, HoldsFit, Putting, Call, SlotOrNone, Uses, UsesS
    <3>2. table[Now(q).s].count = 1
      <4>1. RightInode(job[q]) /\ Now(q) = job[q].now  BY CallOf
      <4>2. QED  BY <4>1 DEF RightInode
    <3>3. QED  BY <1>9, <3>1, <3>2, TwoUsers
  <2>4. Now(q).at = "truncate" => /\ table'[Now(q).s].nlink = table[Now(q).s].nlink
                                  /\ table'[Now(q).s].count = table[Now(q).s].count
    BY <1>2, <2>3
  <2>5. QED  BY <1>9, <2>1, <2>2, <2>4, OthersHold
<1>10. Sought(r.now) => HasName(r.now.id)'  OBVIOUS
<1>11. QED  BY <1>3, <1>4, <1>5, <1>6, <1>7, <1>8, <1>9, <1>10, Whole DEF MountsHold

LEMMA NewInodeStep == ASSUME Sound, NEW p \in Proc, NewInode(p) PROVE Sound'
PROOF
<1>p. PICK k \in Job : k = job[p]  BY CallOf
<1> DEFINE e == k.now.e
<1>1. /\ k.now = Now(p) /\ k.now.at = "alloc" /\ k.now \in Call /\ JobFits(k)
      /\ EmptyFits(k.now)
  BY <1>p, CallOf DEF NewInode, At
<1>2. /\ NoSlot \notin Slot /\ NoId \notin Id /\ Root2 \notin File /\ Root2 \in Id /\ File \subseteq Id
      /\ MountPoint \subseteq File
  BY InodesAssumption DEF Id
<1>3. /\ e \in Slot /\ k.now.op = "new" /\ k.now.dir = NoSlot /\ k.ref = NoSlot
      /\ table[e] = Claimed /\ table[e].count = 1
  BY <1>1, ClaimedIs
     DEF JobFits, OpFits, HoldsFit, Call, Ops, SlotOrNone, Seeking, Putting, Out, EmptyFits
<1>4. /\ \A q \in Proc : q # p => e \notin Uses(job[q])
      /\ sb.covered # e /\ sb.mounted # e
  BY <1>1, <1>2, <1>3, ClaimedOwn
<1>5. /\ Locker(Now(p)) = NoSlot /\ Reader(Now(p)) = NoSlot
      /\ \A t \in Slot : OfJob(HeldBy(job[p]), t) = One(e, t)
  <2>1. HeldBy(k) = [ref |-> NoSlot, e |-> e, dir |-> NoSlot, s |-> NoSlot]
    BY <1>1, <1>3 DEF HeldBy, Putting
  <2>2. \A t \in Slot : One(NoSlot, t) = 0 /\ One(e, t) \in Nat  BY <1>2 DEF One
  <2>3. QED  BY <1>p, <1>1, <2>1, <2>2 DEF OfJob, Locker, Reader
<1>u. sb' = sb /\ disk' = disk  BY DEF NewInode
<1>6. ASSUME NEW i \in File \ imap, imap' = imap \cup {i}, latest' = [latest EXCEPT ![i] = 0],
             table' = [table EXCEPT ![e].id = i, ![e].nlink = 1, ![e].dirt = TRUE],
             job' = [job EXCEPT ![p] = [now |-> Out, ref |-> e]]
      PROVE  Sound'
  <2>r. PICK r : r = [now |-> Out, ref |-> e]  OBVIOUS
  <2>i. PICK n \in Inode : n = [Claimed EXCEPT !.id = i, !.nlink = 1, !.dirt = TRUE]
    BY <1>2, ClaimedIs DEF Inode
  <2>1. /\ n.id = i /\ n.count = 1 /\ n.lock = FALSE /\ n.dirt /\ n.mount = FALSE
        /\ n.nlink = 1 /\ n.ver = 0
    <3>1. Claimed.ver = 0  BY DEF Claimed, Zero
    <3>2. QED  BY <2>i, <3>1, ClaimedIs DEF Inode
  <2>2. /\ table' \in [Slot -> Inode] /\ table'[e] = n
        /\ \A t \in Slot : t # e => table'[t] = table[t]
    <3>1. table' = [table EXCEPT ![e] = n]  BY <1>3, <1>6, <2>i DEF Sound, TableFits, TypeOK
    <3>2. QED  BY <1>3, <3>1 DEF Sound, TableFits, TypeOK
  <2>3. i \in Id /\ i # NoId /\ i # Root2 /\ \A t \in Slot : table[t].id # i
    BY <1>2 DEF Sound, TableFits, EntriesFit
  <2>4. /\ r \in Job /\ JobFits(r) /\ r.now = Out /\ RightInode(r)'
        /\ Locker(r.now) = NoSlot /\ Reader(r.now) = NoSlot /\ ~Sought(r.now)
        /\ MountFits(r.now)' /\ EmptyFits(r.now)' /\ IsApart(p, r)
        /\ \A t \in Slot : OfJob(HeldBy(r), t) = One(e, t)
    <3>1. e \in SlotOrNone /\ table'[e].id # NoId  BY <1>3, <2>1, <2>2, <2>3 DEF SlotOrNone
    <3>2. QED  BY <2>r, <3>1, OutJob
  <2>5. Becomes(p, r)  BY <1>6, <2>r, <2>4 DEF Becomes
  <2>6. EntriesTyped'
    <3>1. latest' \in [Id -> Nat] /\ imap' \subseteq Id  BY <1>6, <2>3 DEF Sound, TableFits, TypeOK
    <3>2. QED  BY <1>u, <2>2, <3>1 DEF EntriesTyped, Sound, TableFits, TypeOK
  <2>7. \A t : BeingRead(t)' <=> BeingRead(t)  BY <1>5, <2>4, <2>5, ReadsStay
  <2>8. \A m \in Id : m # i => Current(m)' = Current(m)
    <3> SUFFICES ASSUME NEW m \in Id, m # i PROVE Current(m)' = Current(m)
      OBVIOUS
    <3>1. table[e].id # m /\ table'[e].id # m  BY <1>2, <1>3, <2>1, <2>2, ClaimedIs
    <3>2. QED  BY <1>3, <1>u, <2>2, <2>7, <3>1, OthersCurrent
  <2>9. \A c \in Current(i)' : c.nlink = 1 /\ c.ver = 0
    <3>1. table[e].lock = FALSE  BY <1>3, ClaimedIs
    <3>2. ~BeingRead(e)  BY <1>3, <3>1, NotRead
    <3>3. InMemory(i)' = {e}
      BY <1>3, <2>1, <2>2, <2>3, <2>7, <3>2 DEF InMemory, Holders
    <3>4. Current(i)' = {Saved(e)'}  BY <3>3 DEF Current
    <3>5. Saved(e)' = [nlink |-> 1, ver |-> 0]  BY <2>1, <2>2 DEF Saved
    <3>6. QED  BY <3>4, <3>5
  <2>10. CountIsReferences'
    <3>1. \A t \in Slot : table'[t].count = table[t].count  BY <1>3, <2>1, <2>2
    <3>2. QED  BY <1>5, <1>u, <2>4, <2>5, <3>1, CountsStay
  <2>11. Locks'
    <3>1. \A t \in Slot : table'[t].lock <=> table[t].lock  BY <1>3, <2>1, <2>2, ClaimedIs
    <3>2. QED  BY <1>2, <1>5, <2>4, <2>5, <3>1, LocksFit
  <2>12. OneCopy'  BY <2>1, <2>2, <2>3 DEF Sound, TableFits, OneCopy
  <2>13. FreeIsReady'
    <3>1. \A t \in Slot : table'[t].count = 0 => t # e /\ table'[t] = table[t]
      BY <2>1, <2>2, 1 # 0
    <3>2. QED  BY <3>1 DEF Sound, TableFits, FreeIsReady, Free, Ready, Unlocked
  <2>14. EntriesFit'  BY <1>6, <2>1, <2>2, <2>3 DEF Sound, TableFits, EntriesFit
  <2>15. Kept'
    <3>1. \A t \in Slot : t # e => Saved(t)' = Saved(t)  BY <2>2 DEF Saved
    <3>2. Clean'  BY <1>u, <2>1, <2>2, <3>1 DEF Sound, TableFits, Kept, Clean, Unlocked
    <3>3. \A m \in imap : m # i /\ m \in Id /\ latest'[m] = latest[m]
                          /\ \A c \in Current(m) : c.ver = latest[m]
      BY <1>6 DEF Sound, TableFits, Kept, TypeOK
    <3>4. latest'[i] = 0  BY <1>6, <2>3 DEF Sound, TableFits, TypeOK
    <3>5. \A m \in imap' : \A c \in Current(m)' : c.ver = latest'[m]
      BY <1>6, <2>8, <2>9, <3>3, <3>4
    <3>6. QED  BY <3>2, <3>5 DEF Kept, Clean
  <2>16. \A m \in Id : HasName(m) => HasName(m)'
    <3>1. \A m \in imap : m # i /\ m \in imap'  BY <1>6
    <3>2. QED  BY <2>8, <3>1 DEF HasName
  <2>17. HasName(Root2)'
    <3>1. HasName(Root2)  BY DEF Sound, TableFits
    <3>2. HasName(Root2)' <=> /\ Root2 \in imap' /\ \A c \in Current(Root2)' : c.nlink > 0
      BY DEF HasName
    <3>3. QED  BY <1>2, <1>6, <2>3, <2>8, <3>1, <3>2 DEF HasName
  <2>18. \A t \in Slot : /\ table'[t].mount = table[t].mount
                         /\ InUse2(t)' => InUse2(t) /\ table'[t].count = table[t].count
    BY <1>3, <2>1, <2>2, <2>3, ClaimedIs DEF InUse2
  <2>19. SuperFits'
    <3>1. \A t \in Slot : t = sb.mounted \/ t = sb.covered => table'[t].id = table[t].id
      BY <1>4, <2>2
    <3>2. Now(p).op # "umount"  BY <1>1, <1>3
    <3>3. QED  BY <1>u, <2>5, <2>18, <3>1, <3>2, SuperStays
  <2>20. ASSUME NEW q \in Proc, q # p
         PROVE  EmptyFits(Now(q))' /\ RightInode(job[q])' /\ MountFits(Now(q))'
    <3>1. EmptyFits(Now(q))' /\ RightInode(job[q])'
      BY <1>3, <1>4, <2>2, <2>5, <2>20, Unused
    <3>2. MountFits(Now(q))'  BY <1>u, <2>5, <2>18, <2>20, OthersMount
    <3>3. QED  BY <3>1, <3>2
  <2>21. \A m \in Id : (\E q \in Proc : q # p /\ Sought(Now(q)) /\ Now(q).id = m) => HasName(m)'
    BY <2>16, CallOf
  <2>22. QED
    BY <2>4, <2>5, <2>6, <2>10, <2>11, <2>12, <2>13, <2>14, <2>15, <2>17, <2>19, <2>20, <2>21, Whole DEF MountsHold
<1>7. ASSUME table' = [table EXCEPT ![e].count = @ - 1], Become(p, Out), UNCHANGED <<imap, latest>>
      PROVE  Sound'
  <2>r. PICK r : r = [now |-> Out, ref |-> NoSlot]  OBVIOUS
  <2>i. PICK n \in Inode : n = [Claimed EXCEPT !.count = 0]  BY ClaimedIs, 0 \in Int DEF Inode
  <2>1. n.id = NoId /\ n.count = 0 /\ n.lock = FALSE /\ ~n.dirt /\ n.mount = FALSE
    BY <2>i, ClaimedIs DEF Inode
  <2>2. table' = [table EXCEPT ![e] = n]
    <3>1. [table[e] EXCEPT !.count = table[e].count - 1] = n  BY <1>3, <2>i
    <3>2. table' = [table EXCEPT ![e] = [table[e] EXCEPT !.count = table[e].count - 1]]
      BY <1>3, <1>7 DEF Sound, TableFits, TypeOK
    <3>3. QED  BY <3>1, <3>2
  <2>3. /\ table' \in [Slot -> Inode] /\ table'[e] = n
        /\ \A t \in Slot : t # e => table'[t] = table[t]
    BY <1>3, <2>2 DEF Sound, TableFits, TypeOK
  <2>4. /\ r \in Job /\ JobFits(r) /\ r.now = Out /\ RightInode(r)'
        /\ Locker(r.now) = NoSlot /\ Reader(r.now) = NoSlot /\ ~Sought(r.now)
        /\ MountFits(r.now)' /\ EmptyFits(r.now)' /\ IsApart(p, r)
        /\ \A t \in Slot : OfJob(HeldBy(r), t) = One(NoSlot, t)
    <3>1. NoSlot \in SlotOrNone  BY DEF SlotOrNone
    <3>2. QED  BY <2>r, <3>1, OutJob
  <2>5. Becomes(p, r)
    <3>1. job' = [job EXCEPT ![p] = r]  BY <1>p, <1>3, <1>7, <2>r, BecomeIs
    <3>2. QED  BY <2>4, <3>1 DEF Becomes
  <2>6. \A t : BeingRead(t)' <=> BeingRead(t)  BY <1>5, <2>4, <2>5, ReadsStay
  <2>7. \A m \in Id : Current(m)' = Current(m)
    <3> SUFFICES ASSUME NEW m \in Id PROVE Current(m)' = Current(m)
      OBVIOUS
    <3>1. table[e].id # m /\ table'[e].id # m  BY <1>2, <1>3, <2>1, <2>3, ClaimedIs
    <3>2. QED  BY <1>3, <1>u, <2>3, <2>6, <3>1, OthersCurrent
  <2>8. \A m \in Id : HasName(m)' <=> HasName(m)  BY <1>7, <2>7 DEF HasName
  <2>9. Kept'
    <3>1. \A t \in Slot : t # e => Saved(t)' = Saved(t)  BY <2>3 DEF Saved
    <3>2. Clean'  BY <1>u, <2>1, <2>3, <3>1 DEF Sound, TableFits, Kept, Clean, Unlocked
    <3>3. \A m \in imap : m \in Id /\ \A c \in Current(m) : c.ver = latest[m]
      BY DEF Sound, TableFits, Kept, TypeOK
    <3>4. QED  BY <1>7, <2>7, <3>2, <3>3 DEF Kept, Clean
  <2>10. \A t \in Slot : /\ table'[t].mount = table[t].mount
                         /\ InUse2(t)' => InUse2(t) /\ table'[t].count = table[t].count
    BY <1>2, <1>3, <2>1, <2>3, ClaimedIs DEF InUse2
  <2>11. SuperFits'
    <3>1. \A t \in Slot : t = sb.mounted \/ t = sb.covered => table'[t].id = table[t].id
      BY <1>4, <2>3
    <3>2. Now(p).op # "umount"  BY <1>1, <1>3
    <3>3. QED  BY <1>u, <2>5, <2>10, <3>1, <3>2, SuperStays
  <2>12. \A q \in Proc : q # p => MountFits(Now(q))'  BY <1>u, <2>5, <2>10, OthersMount
  <2>13. \A m \in Id : (\E q \in Proc : q # p /\ Sought(Now(q)) /\ Now(q).id = m) => HasName(m)'
    BY <2>8, CallOf
  <2>14. \A t \in Slot : One(sb'.covered, t) - One(sb.covered, t) + One(sb'.mounted, t)
                           - One(sb.mounted, t)
                           = OfJob(HeldBy(job[p]), t) - OfJob(HeldBy(r), t) - One(e, t)
    <3>1. \A t \in Slot : One(NoSlot, t) = 0  BY <1>2 DEF One
    <3>2. QED  BY <1>5, <1>u, <2>4, <3>1, OneType
  <2>15. HasName(Root2)'  BY <1>2, <2>8 DEF Sound, TableFits
  <2>16. e \in Uses(job[p])  BY <1>p, <1>3 DEF Uses
  <2>17. n.count = table[e].count - 1 /\ ~table[e].lock /\ n.id = table[e].id
    BY <1>3, <2>1, ClaimedIs
  <2>18. sb' \in Super /\ imap' = imap /\ latest' = latest
    BY <1>7, <1>u DEF Sound, TableFits, TypeOK
  <2>19. \A t \in Slot : table[t].id # NoId => table[t].id \in imap  BY DEF Sound, TableFits, EntriesFit
  <2>20. QED
    BY <1>5, <1>u, <2>1, <2>2, <2>4, <2>5, <2>9, <2>11, <2>12, <2>13, <2>14, <2>15, <2>16, <2>17,
       <2>18, <2>19, GiveBack
<1>8. QED  BY <1>1, <1>6, <1>7 DEF NewInode

(* A process changes the inode it has open, which is dirty from then on. *)
LEMMA OwnChange ==
  ASSUME Sound, NEW p \in Proc, At(p, "out"), NEW s, s = job[p].ref, s # NoSlot, NEW i \in Inode,
         table' = [table EXCEPT ![s] = i], UNCHANGED <<disk, imap, sb, job>>,
         i.id = table[s].id, i.count = table[s].count, i.lock = table[s].lock,
         i.mount = table[s].mount, i.dirt, latest' = [latest EXCEPT ![table[s].id] = i.ver],
         \/ i.nlink = table[s].nlink
         \/ table[s].id # Root2 /\ \A q \in Proc : Now(q).id # table[s].id
  PROVE  Sound'
PROOF
<1> DEFINE id == table[s].id
<1>r. PICK r \in Job : r = job[p]  BY CallOf
<1>1. Now(p) = Out /\ r.now = Out /\ NoSlot \notin Slot /\ NoId \notin Id /\ Root2 \in Id
      /\ Out.at = "out" /\ Out.op = "out"
  BY <1>r, IsOut, OutIsCall, InodesAssumption DEF Id, Out, Now
<1>2. s \in Slot /\ s \in Uses(job[p]) /\ id # NoId
  BY <1>r, CallOf DEF Job, SlotOrNone, Uses, RightInode
<1>3. id \in Id /\ id \in imap /\ table[s].count \in Nat /\ table[s].count > 0
  BY <1>2, UsesCounted DEF Sound, TableFits, TypeOK, Inode, EntriesFit
<1>4. /\ table' \in [Slot -> Inode] /\ table'[s] = i
      /\ \A t \in Slot : t # s => table'[t] = table[t]
  BY <1>2 DEF Sound, TableFits, TypeOK
<1>u. sb' = sb /\ imap' = imap /\ disk' = disk  OBVIOUS
<1>5. Becomes(p, r)
  <2>1. JobFits(r)  BY <1>r, CallOf
  <2>2. job' = [job EXCEPT ![p] = r]  BY <1>r DEF Sound, TableFits, TypeOK
  <2>3. QED  BY <2>1, <2>2 DEF Becomes
<1>6. EntriesTyped'
  <2>1. latest' \in [Id -> Nat]  BY <1>3 DEF Sound, TableFits, TypeOK, Inode
  <2>2. QED  BY <1>4, <1>u, <2>1 DEF EntriesTyped, Sound, TableFits, TypeOK
<1>7. \A t : BeingRead(t)' <=> BeingRead(t)  BY <1>r, <1>1, <1>5, ReadsStay
<1>8. ~BeingRead(s)
  <2> SUFFICES ASSUME NEW q \in Proc, Reader(Now(q)) = s PROVE FALSE  BY DEF BeingRead
  <2>1. Now(q).at = "read" /\ Now(q).e = s  BY <1>1, <1>2 DEF Reader
  <2>2. q # p  BY <1>1, <2>1
  <2>3. QED  BY <1>1, <1>2, <2>1, <2>2, ClaimedOwn
<1>9. Current(id) = {Saved(s)} /\ Current(id)' = {Saved(s)'}
  <2>1. InMemory(id)' = {s}
    BY <1>1, <1>2, <1>3, <1>4, <1>7, <1>8 DEF InMemory, Holders, Sound, TableFits, OneCopy
  <2>2. Current(id)' = {Saved(s)'}  BY <2>1 DEF Current
  <2>3. QED  BY <1>2, <1>3, <1>8, <2>2, CurrentIs
<1>10. Saved(s)' = [nlink |-> i.nlink, ver |-> i.ver] /\ Saved(s).nlink = table[s].nlink
  BY <1>4 DEF Saved
<1>11. ASSUME NEW m \in Id, m # id PROVE Current(m)' = Current(m)
  BY <1>2, <1>4, <1>7, <1>11, <1>u, OthersCurrent
<1>12. CountIsReferences'
  <2>1. \A t \in Slot : table'[t].count = table[t].count  BY <1>4
  <2>2. QED  BY <1>r, <1>5, <1>u, <2>1, CountsStay
<1>13. Locks'
  <2>1. Locker(r.now) = NoSlot /\ Locker(Now(p)) = NoSlot  BY <1>1 DEF Locker
  <2>2. \A t \in Slot : table'[t].lock <=> table[t].lock  BY <1>4
  <2>3. QED  BY <1>1, <1>5, <2>1, <2>2, LocksFit
<1>14. OneCopy' /\ EntriesFit' /\ FreeIsReady'
  <2>1. \A t \in Slot : table'[t].id = table[t].id  BY <1>4
  <2>2. OneCopy'  BY <2>1 DEF Sound, TableFits, OneCopy
  <2>3. EntriesFit'  BY <1>2, <1>3, <1>4, <1>u DEF Sound, TableFits, EntriesFit
  <2>4. \A t \in Slot : table'[t].count = 0 => t # s /\ table'[t] = table[t]
    BY <1>3, <1>4
  <2>5. FreeIsReady'  BY <2>4 DEF Sound, TableFits, FreeIsReady, Free, Ready, Unlocked
  <2>6. QED  BY <2>2, <2>3, <2>5
<1>15. Kept'
  <2>1. \A t \in Slot : t # s => Saved(t)' = Saved(t)  BY <1>4 DEF Saved
  <2>2. Clean'  BY <1>4, <1>u, <2>1 DEF Sound, TableFits, Kept, Clean, Unlocked
  <2>3. latest'[id] = i.ver /\ \A m \in Id : m # id => latest'[m] = latest[m]
    BY <1>3 DEF Sound, TableFits, TypeOK
  <2>4. \A m \in imap : m \in Id /\ \A c \in Current(m) : c.ver = latest[m]
    BY DEF Sound, TableFits, Kept, TypeOK
  <2>5. \A c \in Current(id)' : c.ver = latest'[id]  BY <1>9, <1>10, <2>3
  <2>6. \A m \in imap : \A c \in Current(m)' : c.ver = latest'[m]
    BY <1>11, <2>3, <2>4, <2>5
  <2>7. QED  BY <1>u, <2>2, <2>6 DEF Kept, Clean
<1>16. \A m \in Id : m # id => (HasName(m)' <=> HasName(m))  BY <1>11, <1>u DEF HasName
<1>17. i.nlink = table[s].nlink => (HasName(id) => HasName(id)')
  <2>1. HasName(id)' <=> id \in imap' /\ \A c \in Current(id)' : c.nlink > 0  BY DEF HasName
  <2>2. HasName(id) <=> id \in imap /\ \A c \in Current(id) : c.nlink > 0  BY DEF HasName
  <2>3. QED  BY <1>9, <1>10, <1>u, <2>1, <2>2
<1>18. HasName(Root2)'
  <2>1. CASE Root2 = id  BY <1>17, <2>1 DEF Sound, TableFits
  <2>2. CASE Root2 # id  BY <1>1, <1>16, <2>2 DEF Sound, TableFits
  <2>3. QED  BY <2>1, <2>2
<1>19. \A m \in Id : (\E q \in Proc : q # p /\ Sought(Now(q)) /\ Now(q).id = m) => HasName(m)'
  <2> SUFFICES ASSUME NEW q \in Proc, q # p, Sought(Now(q)), Now(q).id \in Id
               PROVE  HasName(Now(q).id)'
    BY <1>5, NowAfter
  <2>1. HasName(Now(q).id) /\ Now(q)' = Now(q)  BY <1>5, CallOf, NowAfter
  <2>2. CASE Now(q).id # id  BY <1>16, <2>1, <2>2
  <2>3. CASE Now(q).id = id  BY <1>17, <2>1, <2>3
  <2>4. QED  BY <2>2, <2>3
<1>20. \A t \in Slot : /\ table'[t].mount = table[t].mount /\ table'[t].id = table[t].id
                       /\ InUse2(t)' => InUse2(t) /\ table'[t].count = table[t].count
  BY <1>4 DEF InUse2
<1>21. SuperFits'
  <2>1. Now(p).op # "umount"  BY <1>1
  <2>2. QED  BY <1>5, <1>20, <1>u, <2>1, SuperStays
<1>22. EmptyFits(r.now)' /\ RightInode(r)' /\ MountFits(r.now)' /\ ~Sought(r.now) /\ IsApart(p, r)
  <2>1. r = [now |-> Out, ref |-> s] /\ s \in SlotOrNone
    BY <1>r, <1>1, <1>2 DEF Job, SlotOrNone
  <2>2. table'[s].id # NoId  BY <1>2, <1>4
  <2>3. QED  BY <2>1, <2>2, OutJob
<1>23. ASSUME NEW q \in Proc, q # p
       PROVE  EmptyFits(Now(q))' /\ RightInode(job[q])' /\ MountFits(Now(q))'
  <2>1. \A x \in Uses(job[q]) : table'[x].id = table[x].id  BY <1>20 DEF Uses
  <2>2. Now(q).e # NoSlot => table'[Now(q).e] = table[Now(q).e]
    <3>1. Now(q).e # NoSlot => Now(q).e \in Slot /\ Now(q).e # s  BY <1>2, <1>23, ClaimedOwn
    <3>2. QED  BY <1>4, <3>1
  <2>3. Now(q).at = "truncate" => Now(q).s \in Slot /\ Now(q).s # s
    <3> SUFFICES ASSUME Now(q).at = "truncate" PROVE Now(q).s \in Slot /\ Now(q).s # s
      OBVIOUS
    <3>1. Now(q).s \in Uses(job[q]) /\ Now(q).s \in Slot
      BY CallOf DEF JobFits, HoldsFit, Putting, Call, SlotOrNone, Uses, UsesS
    <3>2. table[Now(q).s].count = 1
      <4>1. RightInode(job[q]) /\ Now(q) = job[q].now  BY CallOf
      <4>2. QED  BY <4>1 DEF RightInode
    <3>3. QED  BY <1>2, <1>23, <3>1, <3>2, TwoUsers
  <2>4. Now(q).at = "truncate" => /\ table'[Now(q).s].nlink = table[Now(q).s].nlink
                                  /\ table'[Now(q).s].count = table[Now(q).s].count
    BY <1>4, <2>3
  <2>5. EmptyFits(Now(q))' /\ RightInode(job[q])'
    BY <1>5, <1>23, <2>1, <2>2, <2>4, OthersHold
  <2>6. MountFits(Now(q))'  BY <1>5, <1>20, <1>u, <1>23, OthersMount
  <2>7. QED  BY <2>5, <2>6
<1>24. QED
  BY <1>5, <1>6, <1>12, <1>13, <1>14, <1>15, <1>18, <1>19, <1>21, <1>22, <1>23, Whole DEF MountsHold

LEMMA ChangeStep == ASSUME Sound, NEW p \in Proc, Change(p) PROVE Sound'
PROOF
<1>s. PICK s \in SlotOrNone : s = job[p].ref  BY CallOf DEF Job
<1>1. s \in Slot /\ table[s] \in Inode /\ table \in [Slot -> Inode]
  BY <1>s, CallOf DEF Change, SlotOrNone, Sound, TableFits, TypeOK
<1>v. table[s].ver + 1 \in Nat /\ TRUE \in BOOLEAN  BY <1>1 DEF Inode
<1>i. PICK i \in Inode : i = Changed(table[s])
  <2>1. [table[s] EXCEPT !.ver = table[s].ver + 1, !.dirt = TRUE] \in Inode
    BY <1>1, <1>v DEF Inode
  <2>2. QED  BY <2>1 DEF Changed
<1>2. /\ i.id = table[s].id /\ i.count = table[s].count /\ i.lock = table[s].lock
      /\ i.mount = table[s].mount /\ i.dirt /\ i.nlink = table[s].nlink
  BY <1>i, <1>1 DEF Changed, Inode
<1>3. table' = [table EXCEPT ![s] = i]  BY <1>s, <1>i DEF Change
<1>4. latest' = [latest EXCEPT ![table[s].id] = i.ver]  BY <1>s, <1>1, <1>3 DEF Change
<1>5. At(p, "out") /\ s # NoSlot /\ UNCHANGED <<disk, imap, sb, job>>  BY <1>s DEF Change
<1>6. QED  BY <1>s, <1>2, <1>3, <1>4, <1>5, OwnChange

LEMMA UnlinkStep == ASSUME Sound, ~Races, NEW p \in Proc, Unlink(p) PROVE Sound'
PROOF
<1>s. PICK s \in SlotOrNone : s = job[p].ref  BY CallOf DEF Job
<1>1. s \in Slot /\ table[s] \in Inode /\ table \in [Slot -> Inode]
  BY <1>s, CallOf DEF Unlink, SlotOrNone, Sound, TableFits, TypeOK
<1>i. PICK i \in Inode : i = [table[s] EXCEPT !.nlink = 0, !.dirt = TRUE]
  BY <1>1 DEF Inode
<1>2. /\ i.id = table[s].id /\ i.count = table[s].count /\ i.lock = table[s].lock
      /\ i.mount = table[s].mount /\ i.dirt /\ i.ver = table[s].ver
  BY <1>i, <1>1 DEF Inode
<1>3. table' = [table EXCEPT ![s] = i]
  <2>1. table' = [table EXCEPT ![s].nlink = 0, ![s].dirt = TRUE]  BY <1>s DEF Unlink
  <2>2. QED  BY <1>1, <1>i, <2>1
<1>4. At(p, "out") /\ s # NoSlot /\ UNCHANGED <<disk, imap, sb, job>> /\ latest' = latest
  BY <1>s DEF Unlink
<1>5. table[s].id # Root2 /\ \A q \in Proc : Now(q).id # table[s].id
  BY <1>s, InodesAssumption DEF Unlink, Calm
<1>6. latest = [latest EXCEPT ![table[s].id] = i.ver]
  <2>1. table[s].id \in Id /\ table[s].id \in imap
    BY <1>s, <1>1, InodesAssumption DEF Unlink, Sound, TableFits, EntriesFit, Id
  <2>2. ~BeingRead(s)
    <3> SUFFICES ASSUME NEW q \in Proc, Reader(Now(q)) = s PROVE FALSE  BY DEF BeingRead
    <3>1. Now(q).at = "read" /\ Now(q).e = s  BY <1>1, InodesAssumption DEF Reader
    <3>2. Now(q).id = table[s].id
      <4>1. table[s] = [Claimed EXCEPT !.id = Now(q).id, !.lock = TRUE]
        BY <3>1, CallOf DEF EmptyFits
      <4>2. QED  BY <4>1, ClaimedIs DEF Inode
    <3>3. QED  BY <1>5, <3>2
  <2>3. Current(table[s].id) = {Saved(s)}  BY <1>1, <2>1, <2>2, CurrentIs
  <2>4. latest[table[s].id] = table[s].ver
    <3>1. Saved(s).ver = latest[table[s].id]  BY <2>1, <2>3 DEF Sound, TableFits, Kept
    <3>2. QED  BY <3>1 DEF Saved
  <2>5. QED  BY <1>2, <2>1, <2>4 DEF Sound, TableFits, TypeOK
<1>7. latest' = [latest EXCEPT ![table[s].id] = i.ver]  BY <1>4, <1>6
<1>8. QED  BY <1>s, <1>2, <1>3, <1>4, <1>5, <1>7, OwnChange

(***************************************************************************)
(* iput.                                                                   *)
(***************************************************************************)
LEMMA Puts ==
  ASSUME Sound, NEW p \in Proc, Now(p).at \in Putting
  PROVE  /\ Now(p).s \in Slot /\ Now(p).s \in Uses(job[p]) /\ table[Now(p).s].id \in Id
         /\ table[Now(p).s].count \in Nat /\ table[Now(p).s].count > 0
         /\ Now(p).op \in {"close", "mount", "umount"}
         /\ Now(p).e = NoSlot /\ Reader(Now(p)) = NoSlot /\ ~Sought(Now(p)) /\ Now(p).id # Root2
         /\ Now(p).op # "close" => job[p].ref = NoSlot
         /\ Now(p).op = "close" => job[p].ref = Now(p).s
         /\ Now(p).dir # NoSlot => Now(p).op = "mount" /\ Now(p).dir = Now(p).s
         /\ \A t \in Slot : OfJob(HeldBy(job[p]), t)
              = IF Now(p).op = "umount" THEN 0 ELSE One(Now(p).s, t)
PROOF
<1>p. PICK k \in Job : k = job[p]  BY CallOf
<1>1. /\ k.now = Now(p) /\ k.now.at \in Putting /\ k.now \in Call /\ JobFits(k) /\ RightInode(k)
      /\ NoSlot \notin Slot /\ NoId # Root2 /\ Root2 \notin MountPoint
  BY <1>p, CallOf, InodesAssumption DEF Id
<1>2. /\ k.now.op \in {"close", "mount", "umount"} /\ k.now.id # Root2 /\ k.now.s \in Slot
      /\ k.now.e = NoSlot
  BY <1>1 DEF JobFits, OpFits, HoldsFit, Call, SlotOrNone, Ops, Seeking, Putting, Out
<1>3. /\ k.now.op # "close" => k.ref = NoSlot
      /\ k.now.op = "close" => k.ref = k.now.s
      /\ k.now.dir # NoSlot => k.now.op = "mount" /\ k.now.dir = k.now.s
  BY <1>1, <1>2 DEF JobFits, HoldsFit, Putting
<1>4. k.now.s \in Uses(job[p])  BY <1>p, <1>1, <1>2 DEF Uses, UsesS
<1>5. table[k.now.s].id \in Id
  BY <1>1, <1>2 DEF RightInode, Sound, TableFits, TypeOK, Inode
<1>6. Reader(k.now) = NoSlot /\ ~Sought(k.now)
  BY <1>1 DEF Reader, Sought, Seeking, Putting
<1>7. ASSUME NEW t \in Slot
      PROVE  OfJob(HeldBy(k), t) = IF k.now.op = "umount" THEN 0 ELSE One(k.now.s, t)
  <2>1. One(NoSlot, t) = 0 /\ One(k.now.s, t) \in Nat  BY <1>1 DEF One
  <2>2. CASE k.now.op = "umount"
    <3>1. HeldBy(k) = [ref |-> NoSlot, e |-> NoSlot, dir |-> NoSlot, s |-> NoSlot]
      BY <1>1, <1>2, <1>3, <2>2 DEF HeldBy, Putting
    <3>2. QED  BY <2>1, <2>2, <3>1 DEF OfJob
  <2>3. CASE k.now.op = "close"
    <3>1. HeldBy(k) = [ref |-> k.now.s, e |-> NoSlot, dir |-> NoSlot, s |-> NoSlot]
      BY <1>1, <1>2, <1>3, <2>3 DEF HeldBy, Putting
    <3>2. QED  BY <2>1, <2>3, <3>1 DEF OfJob
  <2>4. CASE k.now.op = "mount" /\ k.now.dir = k.now.s
    <3>1. HeldBy(k) = [ref |-> NoSlot, e |-> NoSlot, dir |-> k.now.s, s |-> NoSlot]
      BY <1>1, <1>2, <1>3, <2>4 DEF HeldBy, Putting
    <3>2. QED  BY <2>1, <2>4, <3>1 DEF OfJob
  <2>5. CASE k.now.op = "mount" /\ k.now.dir # k.now.s
    <3>1. k.now.dir = NoSlot  BY <1>3, <2>5
    <3>2. HeldBy(k) = [ref |-> NoSlot, e |-> NoSlot, dir |-> NoSlot, s |-> k.now.s]
      BY <1>1, <1>2, <1>3, <2>5, <3>1 DEF HeldBy, Putting
    <3>3. QED  BY <2>1, <2>5, <3>2 DEF OfJob
  <2>6. QED  BY <1>2, <2>2, <2>3, <2>4, <2>5
<1>8. table[k.now.s].count \in Nat /\ table[k.now.s].count > 0  BY <1>4, UsesCounted
<1>9. QED  BY <1>p, <1>1, <1>2, <1>3, <1>4, <1>5, <1>6, <1>7, <1>8

(* What umount knows while it puts the two inodes of the super block. *)
LEMMA Umounts ==
  ASSUME Sound, NEW p \in Proc, Now(p).op = "umount", Now(p).at \in Putting
  PROVE  /\ sb.dev /\ ~sb.lock /\ sb.mounted \in Slot /\ table[sb.mounted].id = Root2
         /\ sb.covered # NoSlot => /\ sb.covered \in Slot /\ table[sb.covered].id \in MountPoint
                                   /\ sb.covered # sb.mounted /\ Now(p).s = sb.covered
         /\ sb.covered = NoSlot => Now(p).s = sb.mounted
         /\ \A t \in Slot : ~table[t].mount /\ (InUse2(t) => t = sb.mounted /\ table[t].count = 1)
         /\ \A q \in Proc : q # p => /\ Now(q).op # "umount" /\ Now(q).id # Root2
                                     /\ Now(q).at # "read_super"
PROOF
<1>1. /\ MountFits(Now(p)) /\ SuperFits /\ sb \in Super /\ NoSlot \notin Slot /\ Now(p).s \in Slot
      /\ Root2 \notin MountPoint
  BY CallOf, Puts, InodesAssumption DEF Sound, TableFits, TypeOK
<1>2. Now(p).s = IF sb.covered # NoSlot THEN sb.covered ELSE sb.mounted  BY <1>1 DEF MountFits
<1>3. sb.covered # NoSlot => sb.covered \in Slot /\ table[sb.covered].id \in MountPoint
  BY <1>1 DEF SuperFits, Super, SlotOrNone
<1>4. sb.mounted \in Slot /\ table[sb.mounted].id = Root2
  BY <1>1, <1>2 DEF SuperFits, Super, SlotOrNone
<1>5. ASSUME NEW q \in Proc, q # p
      PROVE  Now(q).op # "umount" /\ Now(q).id # Root2 /\ Now(q).at # "read_super"
  <2>1. Apart(Now(p), Now(q)) /\ MountFits(Now(q)) /\ Past(Now(p))  BY <1>5, CallOf DEF Past
  <2>2. ~Past(Now(q))  BY <2>1 DEF Apart
  <2>3. ~sb.lock  BY <1>1 DEF MountFits
  <2>4. QED  BY <1>5, <2>1, <2>2, <2>3, ToRoot2 DEF MountFits, Past
<1>6. QED  BY <1>1, <1>2, <1>3, <1>4, <1>5 DEF MountFits

(* The end of iput, for whatever put the inode. *)
LEMMA PutBack ==
  ASSUME Sound, NEW p \in Proc, Now(p).at \in {"put", "truncate"}, PutDone(p, sb), NEW s,
         s = Now(p).s, NEW i \in Inode, table' = [table EXCEPT ![s] = i],
         i.count = table[s].count - 1, ~table[s].lock, ~i.lock,
         i.dirt => i.count # 0 /\ i.id # NoId,
         \/ i.id = table[s].id /\ i.mount = table[s].mount
         \/ i.id = NoId /\ i.count = 0 /\ i.mount = FALSE,
         latest' = latest, disk' = disk, imap' \subseteq imap,
         i.id # NoId => i.id \in imap',
         \A t \in Slot : t # s /\ table[t].id # NoId => table[t].id \in imap',
         Kept', HasName(Root2)',
         \A m \in Id : (\E q \in Proc : q # p /\ Sought(Now(q)) /\ Now(q).id = m) => HasName(m)'
  PROVE  Sound'
PROOF
<1>1. /\ s \in Slot /\ s \in Uses(job[p]) /\ table[s].id \in Id /\ table[s].count \in Nat
      /\ table[s].count > 0 /\ Now(p).op \in {"close", "mount", "umount"} /\ Now(p).e = NoSlot
      /\ Now(p).op # "close" => job[p].ref = NoSlot
      /\ Now(p).dir # NoSlot => Now(p).op = "mount"
      /\ \A t \in Slot : OfJob(HeldBy(job[p]), t)
           = IF Now(p).op = "umount" THEN 0 ELSE One(s, t)
  BY Puts DEF Putting
<1>2. /\ NoSlot \notin Slot /\ NoId \notin Id /\ NoId # Root2 /\ Root2 \notin MountPoint /\ NoId \notin MountPoint
  BY InodesAssumption DEF Id
<1>3. /\ table' \in [Slot -> Inode] /\ table'[s] = i
      /\ \A t \in Slot : t # s => table'[t] = table[t]
  BY <1>1 DEF Sound, TableFits, TypeOK
<1>4. Locker(Now(p)) = NoSlot  BY DEF Locker
<1>5. \A t \in Slot : InUse2(t)' => InUse2(t)  BY <1>1, <1>2, <1>3 DEF InUse2
<1>6. \A t : One(NoSlot, t) = IF t = NoSlot THEN 1 ELSE 0  BY DEF One
<1>7. ASSUME NEW r, Becomes(p, r), IsApart(p, r), Locker(r.now) = NoSlot, ~Sought(r.now),
             EmptyFits(r.now)', RightInode(r)', MountFits(r.now)', SuperFits', sb' \in Super,
             \A q \in Proc : q # p => MountFits(Now(q))',
             \A t \in Slot : One(sb'.covered, t) - One(sb.covered, t) + One(sb'.mounted, t)
                               - One(sb.mounted, t)
                               = OfJob(HeldBy(job[p]), t) - OfJob(HeldBy(r), t) - One(s, t)
      PROVE  Sound'
  BY <1>1, <1>4, <1>7, GiveBack
<1>8. CASE Now(p).op # "umount"
  <2>r. PICK r : r = [now |-> Out, ref |-> NoSlot]  OBVIOUS
  <2>1. sb' = sb /\ job' = [job EXCEPT ![p] = r]
    <3>1. CASE Now(p).op = "close"  BY <2>r, <3>1 DEF PutDone
    <3>2. CASE Now(p).op = "mount"
      <4>1. Become(p, Out) /\ sb' = sb  BY <3>2 DEF PutDone
      <4>2. QED  BY <1>1, <2>r, <3>2, <4>1, BecomeIs
    <3>3. QED  BY <1>1, <1>8, <3>1, <3>2
  <2>2. /\ r \in Job /\ JobFits(r) /\ r.now = Out /\ RightInode(r)'
        /\ Locker(r.now) = NoSlot /\ ~Sought(r.now)
        /\ MountFits(r.now)' /\ EmptyFits(r.now)' /\ IsApart(p, r)
        /\ \A t \in Slot : OfJob(HeldBy(r), t) = One(NoSlot, t)
    <3>1. NoSlot \in SlotOrNone  BY DEF SlotOrNone
    <3>2. QED  BY <2>r, <3>1, OutJob
  <2>3. Becomes(p, r)  BY <2>1, <2>2 DEF Becomes
  <2>4. sb.covered = s \/ sb.mounted = s => i.count # 0
    <3>1. sb.covered = s \/ sb.mounted = s => table[s].count # 1  BY <1>1, <1>8, MountUser
    <3>2. QED  BY <1>1, <3>1
  <2>5. \A t \in Slot : table'[t].mount = table[t].mount
    <3>1. i.mount = table[s].mount
      <4>1. CASE i.count = 0
        <5>1. table[s].mount \in BOOLEAN /\ (table[s].mount => sb.covered = s)
          BY <1>1 DEF Sound, TableFits, TypeOK, Inode, SuperFits
        <5>2. QED  BY <2>4, <4>1, <5>1
      <4>2. CASE i.count # 0  BY <4>2
      <4>3. QED  BY <4>1, <4>2
    <3>2. QED  BY <1>3, <3>1
  <2>6. \A t \in Slot : t = sb.mounted \/ t = sb.covered => table'[t].id = table[t].id
    BY <1>3, <2>4
  <2>7. SuperFits'  BY <1>5, <1>8, <2>1, <2>3, <2>5, <2>6, SuperStays
  <2>8. ASSUME NEW q \in Proc, q # p PROVE MountFits(Now(q))'
    <3>1. CASE Now(q).op = "umount"
      <4>1. InUse2(s) => s = sb.mounted /\ table[s].count = 1
        BY <1>1, <3>1, CallOf DEF MountFits
      <4>2. ~InUse2(s)  BY <1>1, <1>8, <4>1, MountUser
      <4>3. \A t \in Slot : InUse2(t)' => InUse2(t) /\ table'[t].count = table[t].count
        BY <1>3, <1>5, <4>2
      <4>4. QED  BY <2>1, <2>3, <2>5, <2>8, <4>3, OthersMount
    <3>2. CASE Now(q).op # "umount"  BY <2>1, <2>3, <2>8, <3>2, OthersMount
    <3>3. QED  BY <3>1, <3>2
  <2>9. \A t \in Slot : One(sb'.covered, t) - One(sb.covered, t) + One(sb'.mounted, t)
                          - One(sb.mounted, t)
                          = OfJob(HeldBy(job[p]), t) - OfJob(HeldBy(r), t) - One(s, t)
    BY <1>1, <1>2, <1>6, <1>8, <2>1, <2>2, OneType
  <2>10. sb' \in Super  BY <2>1 DEF Sound, TableFits, TypeOK
  <2>11. QED  BY <1>7, <2>2, <2>3, <2>7, <2>8, <2>9, <2>10
<1>9. CASE Now(p).op = "umount"
  <2>1. /\ sb.dev /\ ~sb.lock /\ sb.mounted \in Slot /\ table[sb.mounted].id = Root2
        /\ sb.covered # NoSlot => /\ sb.covered \in Slot /\ table[sb.covered].id \in MountPoint
                                  /\ sb.covered # sb.mounted /\ s = sb.covered
        /\ sb.covered = NoSlot => s = sb.mounted
        /\ \A t \in Slot : ~table[t].mount /\ (InUse2(t) => t = sb.mounted /\ table[t].count = 1)
        /\ \A q \in Proc : q # p => /\ Now(q).op # "umount" /\ Now(q).id # Root2
                                    /\ Now(q).at # "read_super"
    BY <1>9, Umounts DEF Putting
  <2>2. \A t \in Slot : ~table'[t].mount  BY <1>1, <1>3, <2>1
  <2>3. sb \in [dev : BOOLEAN, lock : BOOLEAN, covered : SlotOrNone, mounted : SlotOrNone]
        /\ NoSlot \in SlotOrNone
    BY DEF Sound, TableFits, TypeOK, Super, SlotOrNone
  <2>4. Now(p) \in Call /\ job[p].ref = NoSlot /\ Now(p).dir = NoSlot /\ Now(p).id = NoId
        /\ Now(p).e = NoSlot
    BY <1>1, <1>9, CallOf DEF JobFits, OpFits
  <2>5. ASSUME NEW q \in Proc, q # p, NEW r, Becomes(p, r) PROVE MountFits(Now(q))'
    <3>1. Now(q)' = Now(q)  BY <2>5, NowAfter
    <3>2. QED  BY <2>1, <2>5, <3>1 DEF MountFits
  <2>6. ASSUME NEW j \in Call, NEW r, r = [now |-> j, ref |-> NoSlot], Become(p, j),
               j.op = "umount", j.id = NoId, j.e = NoSlot, j.dir = NoSlot, j.s # NoSlot,
               j.at \in {"put", "put_super"}
        PROVE  /\ Becomes(p, r) /\ IsApart(p, r) /\ Locker(r.now) = NoSlot /\ ~Sought(r.now)
               /\ EmptyFits(r.now)' /\ Umounting' /\ r.now = j /\ r.ref = NoSlot
               /\ \A t \in Slot : OfJob(HeldBy(r), t) = 0
    <3>1. r.now = j /\ r.ref = NoSlot /\ r \in Job  BY <2>3, <2>6 DEF Job
    <3>2. OpFits(j) /\ HoldsFit(j)  BY <2>6 DEF OpFits, HoldsFit, Putting
    <3>3. job' = [job EXCEPT ![p] = r]  BY <2>4, <2>6, BecomeIs
    <3>4. Becomes(p, r)  BY <2>6, <3>1, <3>2, <3>3 DEF Becomes, JobFits
    <3>5. Now(p)' = j  BY <3>1, <3>4, NowAfter
    <3>6. Umounting'  BY <2>6, <3>5 DEF Umounting
    <3>7. IsApart(p, r)  BY <2>1, <2>6, <3>1 DEF IsApart, Apart, Past
    <3>8. Locker(j) = NoSlot /\ ~Sought(j)  BY <2>6 DEF Locker, Sought
    <3>9. EmptyFits(j)'  BY <2>6 DEF EmptyFits
    <3>10. HeldBy(r) = [ref |-> NoSlot, e |-> NoSlot, dir |-> NoSlot, s |-> NoSlot]
      BY <2>6, <3>1 DEF HeldBy
    <3>11. \A t \in Slot : One(NoSlot, t) = 0  BY <1>2, <1>6
    <3>12. \A t \in Slot : OfJob(HeldBy(r), t) = 0  BY <3>10, <3>11 DEF OfJob
    <3>13. QED  BY <3>1, <3>4, <3>6, <3>7, <3>8, <3>9, <3>12
  <2>7. CASE sb.covered # NoSlot
    <3>j. PICK j \in Call : j = [Now(p) EXCEPT !.s = sb.mounted, !.at = "put"]
      BY <2>3, <2>4 DEF Call, Locations
    <3>r. PICK r : r = [now |-> j, ref |-> NoSlot]  OBVIOUS
    <3>1. /\ j.op = "umount" /\ j.id = NoId /\ j.e = NoSlot /\ j.dir = NoSlot /\ j.s = sb.mounted
          /\ j.at = "put"
      BY <3>j, <1>9, <2>4 DEF Call
    <3>2. sb' = [sb EXCEPT !.covered = NoSlot] /\ Become(p, j)
      BY <1>9, <2>7, <3>j DEF PutDone
    <3>3. /\ sb'.covered = NoSlot /\ sb'.mounted = sb.mounted /\ sb'.dev = sb.dev
          /\ sb'.lock = sb.lock /\ sb' \in Super
      BY <2>3, <3>2 DEF Super
    <3>4. /\ Becomes(p, r) /\ IsApart(p, r) /\ Locker(r.now) = NoSlot /\ ~Sought(r.now)
          /\ EmptyFits(r.now)' /\ Umounting' /\ r.now = j /\ r.ref = NoSlot
          /\ \A t \in Slot : OfJob(HeldBy(r), t) = 0
      BY <1>2, <2>1, <2>6, <3>r, <3>1, <3>2
    <3>5. table'[sb.mounted] = table[sb.mounted]  BY <1>3, <2>1, <2>7
    <3>6. RightInode(r)'  BY <1>2, <2>1, <3>1, <3>4, <3>5 DEF RightInode
    <3>7. \A t \in Slot : InUse2(t)' => t = sb.mounted /\ table'[t].count = 1
      BY <1>5, <2>1, <3>5
    <3>8. MountFits(r.now)'
      BY <1>2, <2>1, <2>2, <3>1, <3>3, <3>4, <3>7 DEF MountFits
    <3>9. SuperFits'  BY <1>2, <2>1, <2>2, <3>3, <3>4, <3>5 DEF SuperFits
    <3>10. \A t \in Slot : One(sb'.covered, t) - One(sb.covered, t) + One(sb'.mounted, t)
                             - One(sb.mounted, t)
                             = OfJob(HeldBy(job[p]), t) - OfJob(HeldBy(r), t) - One(s, t)
      <4> SUFFICES ASSUME NEW t \in Slot
                   PROVE  One(sb'.covered, t) - One(sb.covered, t) + One(sb'.mounted, t)
                             - One(sb.mounted, t)
                             = OfJob(HeldBy(job[p]), t) - OfJob(HeldBy(r), t) - One(s, t)
        OBVIOUS
      <4>1. /\ One(sb'.covered, t) = 0 /\ sb'.mounted = sb.mounted /\ sb.covered = s
            /\ OfJob(HeldBy(job[p]), t) = 0 /\ OfJob(HeldBy(r), t) = 0
        BY <1>1, <1>2, <1>6, <1>9, <2>1, <2>7, <3>3, <3>4
      <4>2. One(s, t) \in Nat /\ One(sb.mounted, t) \in Nat  BY OneType
      <4>3. QED  BY <4>1, <4>2
    <3>11. \A q \in Proc : q # p => MountFits(Now(q))'  BY <2>5, <3>4
    <3>12. QED  BY <1>7, <3>3, <3>4, <3>6, <3>8, <3>9, <3>10, <3>11
  <2>8. CASE sb.covered = NoSlot
    <3>j. PICK j \in Call : j = [Now(p) EXCEPT !.at = "put_super"]
      BY <2>4 DEF Call, Locations
    <3>r. PICK r : r = [now |-> j, ref |-> NoSlot]  OBVIOUS
    <3>1. /\ j.op = "umount" /\ j.id = NoId /\ j.e = NoSlot /\ j.dir = NoSlot /\ j.s = s
          /\ j.at = "put_super"
      BY <3>j, <1>9, <2>4 DEF Call
    <3>2. sb' = [sb EXCEPT !.mounted = NoSlot] /\ Goto(p, "put_super")
      BY <1>9, <2>8 DEF PutDone
    <3>3. Become(p, j)  BY <3>j, <3>2, GotoIs
    <3>4. /\ sb'.covered = NoSlot /\ sb'.mounted = NoSlot /\ sb'.dev = sb.dev
          /\ sb'.lock = sb.lock /\ sb' \in Super
      BY <2>3, <2>8, <3>2 DEF Super
    <3>5. /\ Becomes(p, r) /\ IsApart(p, r) /\ Locker(r.now) = NoSlot /\ ~Sought(r.now)
          /\ EmptyFits(r.now)' /\ Umounting' /\ r.now = j /\ r.ref = NoSlot
          /\ \A t \in Slot : OfJob(HeldBy(r), t) = 0
      BY <1>1, <1>2, <2>6, <3>r, <3>1, <3>3
    <3>6. RightInode(r)'  BY <3>1, <3>5 DEF RightInode, Putting
    <3>7. \A t \in Slot : ~InUse2(t)'
      <4> SUFFICES ASSUME NEW t \in Slot, InUse2(t)' PROVE FALSE
        OBVIOUS
      <4>1. t = s /\ table[t].count = 1  BY <1>5, <2>1, <2>8
      <4>2. table'[t].count = 0  BY <1>3, <4>1
      <4>3. QED  BY <4>2 DEF InUse2
    <3>8. MountFits(r.now)'
      BY <1>2, <2>1, <2>2, <3>1, <3>4, <3>5, <3>7 DEF MountFits, Putting
    <3>9. SuperFits'  BY <2>2, <3>4, <3>7 DEF SuperFits
    <3>10. \A t \in Slot : One(sb'.covered, t) - One(sb.covered, t) + One(sb'.mounted, t)
                             - One(sb.mounted, t)
                             = OfJob(HeldBy(job[p]), t) - OfJob(HeldBy(r), t) - One(s, t)
      <4> SUFFICES ASSUME NEW t \in Slot
                   PROVE  One(sb'.covered, t) - One(sb.covered, t) + One(sb'.mounted, t)
                             - One(sb.mounted, t)
                             = OfJob(HeldBy(job[p]), t) - OfJob(HeldBy(r), t) - One(s, t)
        OBVIOUS
      <4>1. /\ One(sb'.covered, t) = 0 /\ One(sb.covered, t) = 0 /\ One(sb'.mounted, t) = 0
            /\ sb.mounted = s
            /\ OfJob(HeldBy(job[p]), t) = 0 /\ OfJob(HeldBy(r), t) = 0
        BY <1>1, <1>2, <1>6, <1>9, <2>1, <2>8, <3>4, <3>5
      <4>2. One(s, t) \in Nat  BY OneType
      <4>3. QED  BY <4>1, <4>2
    <3>11. \A q \in Proc : q # p => MountFits(Now(q))'  BY <2>5, <3>5
    <3>12. QED  BY <1>7, <3>4, <3>5, <3>6, <3>8, <3>9, <3>10, <3>11
  <2>9. QED  BY <2>7, <2>8
<1>10. QED  BY <1>8, <1>9

LEMMA PutDoneReads ==
  ASSUME Sound, NEW p \in Proc, Now(p).at \in Putting, PutDone(p, sb)
  PROVE  \A t \in Slot : BeingRead(t)' <=> BeingRead(t)
PROOF
<1>1. Now(p) \in Call /\ Now(p).op \in {"close", "mount", "umount"} /\ Reader(Now(p)) = NoSlot
      /\ NoSlot \notin Slot /\ Out.at = "out"
  BY CallOf, Puts, InodesAssumption DEF Out
<1>a. ASSUME NEW j, Become(p, j), j.at # "read"
      PROVE  \E r : job' = [job EXCEPT ![p] = r] /\ r.now.at # "read"
  <2>1. PICK r : r = [now |-> j, ref |-> job[p].ref]  OBVIOUS
  <2>2. job' = [job EXCEPT ![p] = r] /\ r.now = j  BY <1>a, <2>1, BecomeIs
  <2>3. QED  BY <1>a, <2>2
<1>2. \E r : job' = [job EXCEPT ![p] = r] /\ r.now.at # "read"
  <2>1. CASE Now(p).op = "close"
    <3>1. [now |-> Out, ref |-> NoSlot].now.at # "read"  BY <1>1
    <3>2. QED  BY <2>1, <3>1 DEF PutDone
  <2>2. CASE Now(p).op = "mount"
    <3>1. Become(p, Out)  BY <2>2 DEF PutDone
    <3>2. QED  BY <1>1, <1>a, <3>1
  <2>3. CASE Now(p).op = "umount"
    <3>1. \E l \in {"put", "put_super"} : \E x : Become(p, [Now(p) EXCEPT !.s = x, !.at = l])
      <4>1. CASE sb.covered # NoSlot  BY <2>3, <4>1 DEF PutDone
      <4>2. CASE sb.covered = NoSlot
        <5>1. Become(p, [Now(p) EXCEPT !.at = "put_super"])  BY <2>3, <4>2, GotoIs DEF PutDone
        <5>2. [Now(p) EXCEPT !.at = "put_super"]
                = [Now(p) EXCEPT !.s = Now(p).s, !.at = "put_super"]
          BY <1>1 DEF Call
        <5>3. QED  BY <5>1, <5>2
      <4>3. QED  BY <4>1, <4>2
    <3>2. PICK l \in {"put", "put_super"} : \E x : Become(p, [Now(p) EXCEPT !.s = x, !.at = l])
      BY <3>1
    <3>3. PICK x : Become(p, [Now(p) EXCEPT !.s = x, !.at = l])  BY <3>2
    <3>4. [Now(p) EXCEPT !.s = x, !.at = l].at = l  BY <1>1 DEF Call
    <3>5. QED  BY <1>a, <3>3, <3>4
  <2>4. QED  BY <1>1, <2>1, <2>2, <2>3
<1>3. PICK r : job' = [job EXCEPT ![p] = r] /\ r.now.at # "read"  BY <1>2
<1>4. job'[p] = r /\ \A q \in Proc : q # p => job'[q] = job[q]  BY <1>3 DEF Sound, TableFits, TypeOK
<1>5. \A q \in Proc : Reader(Now(q)') = Reader(Now(q))
  <2>1. Now(p)' = r.now /\ \A q \in Proc : q # p => Now(q)' = Now(q)  BY <1>4 DEF Now
  <2>2. Reader(r.now) = NoSlot  BY <1>3 DEF Reader
  <2>3. QED  BY <1>1, <2>1, <2>2
<1>6. \A t : BeingRead(t)' <=> \E q \in Proc : Reader(Now(q)') = t  BY DEF BeingRead, Reader
<1>7. QED  BY <1>5, <1>6 DEF BeingRead

(* From one place of iput to another. *)
LEMMA PutGoes ==
  ASSUME Sound, NEW p \in Proc, Now(p).at \in Putting, NEW l \in Putting, Goto(p, l)
  PROVE  \E r : /\ Becomes(p, r) /\ IsApart(p, r) /\ r.now.at = l /\ r.now.s = Now(p).s
                /\ r.now.op = Now(p).op /\ r.now.e = NoSlot /\ HeldBy(r) = HeldBy(job[p])
                /\ Reader(r.now) = NoSlot /\ ~Sought(r.now)
                /\ EmptyFits(r.now) /\ MountFits(r.now)
                /\ \/ l # "truncate"
                   \/ table[Now(p).s].nlink = 0 /\ table[Now(p).s].count = 1
                   => RightInode(r)
PROOF
<1>p. PICK k \in Job : k = job[p]  BY CallOf
<1>1. /\ k.now = Now(p) /\ k.now.at \in Putting /\ k.now \in Call /\ JobFits(k) /\ RightInode(k)
      /\ EmptyFits(k.now) /\ MountFits(k.now) /\ k.now.op \in {"close", "mount", "umount"}
      /\ k.now.e = NoSlot
  BY <1>p, CallOf, Puts
<1>j. PICK j \in Call : j = [k.now EXCEPT !.at = l]
  BY <1>1 DEF Call, Locations, Putting
<1>r. PICK r \in Job : r = [now |-> j, ref |-> k.ref]  BY <1>1 DEF Job
<1>2. /\ r.now = j /\ r.ref = k.ref /\ j.op = k.now.op /\ j.at = l /\ j.id = k.now.id
      /\ j.e = NoSlot /\ j.s = k.now.s /\ j.dir = k.now.dir
  BY <1>j, <1>r, <1>1 DEF Call
<1>3. Becomes(p, r)
  <2>1. job' = [job EXCEPT ![p] = r]  BY <1>p, <1>j, <1>r, <1>1, GotoIs, BecomeIs
  <2>2. OpFits(j)  BY <1>1, <1>2 DEF JobFits, OpFits, Seeking, Putting
  <2>3. HoldsFit(j)  BY <1>1, <1>2 DEF JobFits, HoldsFit, Putting
  <2>4. QED  BY <1>1, <1>2, <2>1, <2>2, <2>3 DEF Becomes, JobFits
<1>4. HeldBy(r) = HeldBy(job[p])  BY <1>p, <1>1, <1>2 DEF HeldBy, Putting
<1>5. Reader(r.now) = NoSlot /\ ~Sought(r.now)
  BY <1>2 DEF Reader, Sought, Seeking, Putting
<1>6. EmptyFits(r.now)  BY <1>2 DEF EmptyFits, Putting
<1>7. MountFits(r.now)  BY <1>1, <1>2 DEF MountFits, Putting
<1>8. IsApart(p, r)
  <2>1. \A q \in Proc : q # p => Apart(k.now, Now(q)) /\ Apart(Now(q), k.now)  BY <1>1, CallOf
  <2>2. j.at # "read_super"  BY <1>2 DEF Putting
  <2>3. QED  BY <1>2, <2>1, <2>2 DEF IsApart, Apart, Past
<1>9. l # "truncate" \/ (table[k.now.s].nlink = 0 /\ table[k.now.s].count = 1) => RightInode(r)
  BY <1>1, <1>2 DEF RightInode, Putting
<1>10. QED  BY <1>1, <1>2, <1>3, <1>4, <1>5, <1>6, <1>7, <1>8, <1>9

(* lock_inode before the inode is written. *)
LEMMA LockStep ==
  ASSUME Sound, NEW p \in Proc, NEW r, Becomes(p, r), NEW s \in Slot, ~table[s].lock,
         table' = Locked(s), UNCHANGED <<disk, imap, sb, latest>>,
         table[s].id # NoId, table[s].count # 0, HeldBy(r) = HeldBy(job[p]),
         Locker(Now(p)) = NoSlot, Locker(r.now) = s,
         Reader(Now(p)) = NoSlot, Reader(r.now) = NoSlot, ~Sought(r.now),
         r.now.e = NoSlot, r.now.at # "truncate",
         RightInode(r), MountFits(r.now), IsApart(p, r), Now(p).op = "umount" => r.now.op = "umount"
  PROVE  Sound'
PROOF
<1>i. PICK i \in Inode : i = [table[s] EXCEPT !.lock = TRUE]  BY DEF Sound, TableFits, TypeOK, Inode
<1>1. /\ i.id = table[s].id /\ i.count = table[s].count /\ i.lock /\ i.dirt = table[s].dirt
      /\ i.nlink = table[s].nlink /\ i.ver = table[s].ver /\ i.mount = table[s].mount
  BY <1>i DEF Sound, TableFits, TypeOK, Inode
<1>2. /\ table' \in [Slot -> Inode] /\ table'[s] = i
      /\ \A t \in Slot : t # s => table'[t] = table[t]
  <2>1. table' = [table EXCEPT ![s] = i]  BY <1>i DEF Locked
  <2>2. QED  BY <2>1 DEF Sound, TableFits, TypeOK
<1>u. sb' = sb /\ imap' = imap /\ disk' = disk /\ latest' = latest  OBVIOUS
<1>3. \A t \in Slot :
        /\ table'[t].id = table[t].id /\ table'[t].count = table[t].count
        /\ table'[t].nlink = table[t].nlink /\ table'[t].ver = table[t].ver
        /\ table'[t].mount = table[t].mount /\ table'[t].dirt = table[t].dirt
        /\ table'[t].lock <=> table[t].lock \/ t = s
  BY <1>1, <1>2
<1>4. EntriesTyped'  BY <1>2, <1>u DEF EntriesTyped, Sound, TableFits, TypeOK
<1>5. \A n \in Id : Current(n)' = Current(n)
  <2>1. \A t : BeingRead(t)' <=> BeingRead(t)  BY ReadsStay
  <2>2. QED  BY <1>3, <1>u, <2>1, ContentsStay
<1>6. CountIsReferences'  BY <1>3, <1>u, CountsStay
<1>7. Locks'  BY <1>3, InodesAssumption, LocksFit
<1>8. OneCopy' /\ EntriesFit'  BY <1>3, <1>u DEF Sound, TableFits, OneCopy, EntriesFit
<1>9. FreeIsReady'
  <2>1. \A t \in Slot : table'[t].count = 0 => t # s /\ table'[t] = table[t]  BY <1>2, <1>3
  <2>2. QED  BY <2>1 DEF Sound, TableFits, FreeIsReady, Free, Ready, Unlocked
<1>10. Clean'
  <2>1. \A t \in Slot : Saved(t)' = Saved(t)  BY <1>3 DEF Saved
  <2>2. QED  BY <1>3, <1>u, <2>1 DEF Sound, TableFits, Kept, Clean, Unlocked
<1>11. \A t \in Slot : InUse2(t)' <=> InUse2(t)  BY <1>3 DEF InUse2
<1>12. SuperFits'  BY <1>3, <1>11, <1>u, SuperStays
<1>13. EmptyFits(r.now)' /\ RightInode(r)' /\ MountFits(r.now)'
  <2>1. EmptyFits(r.now)'
    <3>1. HoldsFit(r.now)  BY DEF Becomes, JobFits
    <3>2. QED  BY <3>1 DEF EmptyFits, HoldsFit
  <2>2. RightInode(r)'
    <3>1. \A t \in SlotOrNone : t # NoSlot => table'[t].id = table[t].id
      BY <1>3 DEF SlotOrNone
    <3>2. r.ref \in SlotOrNone /\ r.now.s \in SlotOrNone /\ r.now.dir \in SlotOrNone
          /\ HoldsFit(r.now)
      BY DEF Becomes, Job, Call, JobFits
    <3>3. QED  BY <3>1, <3>2 DEF RightInode, HoldsFit, Putting
  <2>3. MountFits(r.now)'  BY <1>3, <1>11, <1>u DEF MountFits
  <2>4. QED  BY <2>1, <2>2, <2>3
<1>14. ASSUME NEW q \in Proc, q # p
       PROVE  EmptyFits(Now(q))' /\ RightInode(job[q])' /\ MountFits(Now(q))'
  <2>1. \A x \in Uses(job[q]) : table'[x].id = table[x].id  BY <1>3 DEF Uses
  <2>2. Now(q).e # NoSlot => table'[Now(q).e] = table[Now(q).e]
    <3> SUFFICES ASSUME Now(q).e # NoSlot PROVE table'[Now(q).e] = table[Now(q).e]
      OBVIOUS
    <3>1. Now(q).e \in Slot  BY ClaimedOwn
    <3>2. table[Now(q).e] = Claimed \/ table[Now(q).e].lock
      <4>1. Now(q).at \in {"search", "swait", "alloc", "read"}
        BY CallOf DEF JobFits, HoldsFit
      <4>2. table[Now(q).e] = Claimed
              \/ table[Now(q).e] = [Claimed EXCEPT !.id = Now(q).id, !.lock = TRUE]
        BY <4>1, CallOf DEF EmptyFits
      <4>3. [Claimed EXCEPT !.id = Now(q).id, !.lock = TRUE].lock  BY ClaimedIs DEF Inode
      <4>4. QED  BY <4>2, <4>3
    <3>3. Now(q).e # s  BY <3>2, ClaimedIs
    <3>4. QED  BY <1>2, <3>1, <3>3
  <2>3. Now(q).at = "truncate" => /\ table'[Now(q).s].nlink = table[Now(q).s].nlink
                                  /\ table'[Now(q).s].count = table[Now(q).s].count
    <3>1. Now(q).at = "truncate" => Now(q).s \in Slot  BY Puts DEF Putting
    <3>2. QED  BY <1>3, <3>1
  <2>4. EmptyFits(Now(q))' /\ RightInode(job[q])'  BY <1>14, <2>1, <2>2, <2>3, OthersHold
  <2>5. MountFits(Now(q))'  BY <1>3, <1>11, <1>u, <1>14, OthersMount
  <2>6. QED  BY <2>4, <2>5
<1>15. QED
  BY <1>4, <1>5, <1>6, <1>7, <1>8, <1>9, <1>10, <1>12, <1>13, <1>14, <1>u, Steady DEF MountsHold

LEMMA PutStep == ASSUME Sound, NEW p \in Proc, Put(p) PROVE Sound'
PROOF
<1>s. PICK s : s = Now(p).s  OBVIOUS
<1>1. /\ Now(p).at = "put" /\ Now(p).at \in Putting /\ ~table[s].lock
      /\ UNCHANGED <<disk, imap, latest>>
  BY <1>s DEF Put, At, Unlocked, Putting
<1>2. /\ s \in Slot /\ s \in Uses(job[p]) /\ table[s].id \in Id /\ table[s].count \in Nat
      /\ table[s].count > 0 /\ Reader(Now(p)) = NoSlot /\ table[s] \in Inode
  BY <1>s, <1>1, Puts DEF Sound, TableFits, TypeOK
<1>3. NoId \notin Id /\ Root2 \in Id  BY InodesAssumption DEF Id
<1>4. Locker(Now(p)) = NoSlot  BY <1>1 DEF Locker
<1>5. ASSUME table[s].count > 1 \/ (table[s].nlink > 0 /\ ~table[s].dirt),
             table' = [table EXCEPT ![s].count = @ - 1], PutDone(p, sb)
      PROVE  Sound'
  <2>i. PICK i \in Inode : i = [table[s] EXCEPT !.count = table[s].count - 1]
    <3>1. table[s].count - 1 \in Int  BY <1>2
    <3>2. QED  BY <1>2, <3>1 DEF Inode
  <2>1. /\ i.id = table[s].id /\ i.count = table[s].count - 1 /\ i.lock = table[s].lock
        /\ i.dirt = table[s].dirt /\ i.nlink = table[s].nlink /\ i.ver = table[s].ver
        /\ i.mount = table[s].mount
    BY <2>i, <1>2 DEF Inode
  <2>2. table' = [table EXCEPT ![s] = i]
    BY <1>2, <1>5, <2>i DEF Sound, TableFits, TypeOK
  <2>3. /\ table' \in [Slot -> Inode] /\ table'[s] = i
        /\ \A t \in Slot : t # s => table'[t] = table[t]
    BY <1>2, <2>2 DEF Sound, TableFits, TypeOK
  <2>4. i.count = 0 => ~i.dirt  BY <1>2, <1>5, <2>1
  <2>5. \A t \in Slot : BeingRead(t)' <=> BeingRead(t)  BY <1>1, <1>5, PutDoneReads
  <2>6. \A m \in Id : Current(m)' = Current(m)
    <3> SUFFICES ASSUME NEW m \in Id PROVE Current(m)' = Current(m)
      OBVIOUS
    <3>1. CASE table[s].id # m
      BY <1>1, <1>2, <2>1, <2>3, <2>5, <3>1, OthersCurrent
    <3>2. CASE table[s].id = m
      <4>1. ~BeingRead(s)  BY <1>1, <1>2, NotRead
      <4>2. Current(m) = {Saved(s)}  BY <1>2, <3>2, <4>1, CurrentIs
      <4>3. InMemory(m)' = {s}
        BY <1>2, <1>3, <2>1, <2>3, <2>5, <3>2, <4>1 DEF InMemory, Holders, Sound, TableFits, OneCopy
      <4>4. Current(m)' = {Saved(s)'}  BY <4>3 DEF Current
      <4>5. Saved(s)' = Saved(s)  BY <2>1, <2>3 DEF Saved
      <4>6. QED  BY <4>2, <4>4, <4>5
    <3>3. QED  BY <3>1, <3>2
  <2>7. \A m \in Id : HasName(m)' <=> HasName(m)  BY <1>1, <2>6 DEF HasName
  <2>8. Kept'
    <3>1. \A t \in Slot : /\ Saved(t)' = Saved(t) /\ table'[t].id = table[t].id
                          /\ table'[t].lock = table[t].lock /\ table'[t].dirt = table[t].dirt
      BY <2>1, <2>3 DEF Saved
    <3>2. Clean'  BY <1>1, <3>1 DEF Sound, TableFits, Kept, Clean, Unlocked
    <3>3. \A m \in imap : m \in Id /\ \A c \in Current(m) : c.ver = latest[m]
      BY DEF Sound, TableFits, Kept, TypeOK
    <3>4. QED  BY <1>1, <2>6, <3>2, <3>3 DEF Kept, Clean
  <2>9. HasName(Root2)'  BY <1>3, <2>7 DEF Sound, TableFits
  <2>10. \A m \in Id : (\E q \in Proc : q # p /\ Sought(Now(q)) /\ Now(q).id = m) => HasName(m)'
    BY <2>7, CallOf
  <2>11. \A t \in Slot : table[t].id # NoId => table[t].id \in imap'
    BY <1>1 DEF Sound, TableFits, EntriesFit
  <2>12. Now(p).at \in {"put", "truncate"} /\ i.id # NoId /\ i.id \in imap' /\ ~i.lock
         /\ (i.dirt => i.count # 0)
    BY <1>1, <1>2, <1>3, <2>1, <2>4, <2>11
  <2>13. latest' = latest /\ disk' = disk /\ imap' \subseteq imap  BY <1>1
  <2>14. QED
    BY <1>s, <1>1, <1>5, <2>1, <2>2, <2>8, <2>9, <2>10, <2>11, <2>12, <2>13, PutBack
<1>6. ASSUME ~PutOne(s), table[s].nlink = 0, Goto(p, "truncate"), UNCHANGED <<table, sb>>
      PROVE  Sound'
  <2>1. "truncate" \in Putting /\ table[s].count = 1  BY <1>2, <1>6 DEF Putting, PutOne
  <2>2. PICK r : /\ Becomes(p, r) /\ IsApart(p, r) /\ r.now.at = "truncate" /\ r.now.s = s
                 /\ r.now.op = Now(p).op /\ r.now.e = NoSlot /\ HeldBy(r) = HeldBy(job[p])
                 /\ Reader(r.now) = NoSlot /\ ~Sought(r.now)
                 /\ EmptyFits(r.now) /\ MountFits(r.now) /\ RightInode(r)
    BY <1>s, <1>1, <1>6, <2>1, PutGoes
  <2>3. Locker(r.now) = NoSlot  BY <2>2 DEF Locker
  <2>4. QED  BY <1>1, <1>2, <1>4, <1>6, <2>2, <2>3, JobStep
<1>7. ASSUME StartWrite(p, s, "pwrite"), UNCHANGED sb
      PROVE  Sound'
  <2>1. "pwrite" \in Putting /\ Goto(p, "pwrite")  BY <1>7 DEF Putting, StartWrite
  <2>2. PICK r : /\ Becomes(p, r) /\ IsApart(p, r) /\ r.now.at = "pwrite" /\ r.now.s = s
                 /\ r.now.op = Now(p).op /\ r.now.e = NoSlot /\ HeldBy(r) = HeldBy(job[p])
                 /\ Reader(r.now) = NoSlot /\ ~Sought(r.now)
                 /\ EmptyFits(r.now) /\ MountFits(r.now) /\ RightInode(r)
    BY <1>s, <1>1, <2>1, PutGoes
  <2>3. Locker(r.now) = s  BY <2>2 DEF Locker
  <2>4. table' = Locked(s)  BY <1>7 DEF StartWrite
  <2>5. QED  BY <1>1, <1>2, <1>3, <1>4, <1>7, <2>2, <2>3, <2>4, LockStep
<1>8. QED  BY <1>s, <1>5, <1>6, <1>7 DEF Put, PutOne, PutClean

(* minix_free_inode: nobody else has it, and nobody seeks it for it has no name. *)
LEMMA FreeInodeStep == ASSUME Sound, ~Races, NEW p \in Proc, FreeInode(p) PROVE Sound'
PROOF
<1>s. PICK s : s = Now(p).s  OBVIOUS
<1>1. /\ Now(p).at = "truncate" /\ Now(p).at \in Putting /\ ~table[s].lock /\ PutDone(p, sb)
      /\ disk' = disk /\ latest' = latest
  BY <1>s DEF FreeInode, At, Calm, Unlocked, Putting
<1>2. /\ s \in Slot /\ s \in Uses(job[p]) /\ table[s].id \in Id
      /\ table[s].nlink = 0 /\ table[s].count = 1
  <2>1. RightInode(job[p]) /\ Now(p) = job[p].now  BY CallOf
  <2>2. QED  BY <1>s, <1>1, <2>1, Puts DEF RightInode
<1>3. NoId \notin Id /\ Root2 \in Id  BY InodesAssumption DEF Id
<1>4. imap' = imap \ {table[s].id} /\ table' = [table EXCEPT ![s] = Zero]
  BY <1>s, <1>2 DEF FreeInode
<1>5. Zero \in Inode /\ Zero.id = NoId /\ Zero.count = 0 /\ ~Zero.lock /\ ~Zero.dirt /\ Zero.mount = FALSE
  BY DEF Zero, Inode
<1>6. /\ table' \in [Slot -> Inode] /\ table'[s] = Zero
      /\ \A t \in Slot : t # s => table'[t] = table[t]
  BY <1>2, <1>4, <1>5 DEF Sound, TableFits, TypeOK
<1>7. Current(table[s].id) = {Saved(s)} /\ Saved(s).nlink = 0
  <2>1. ~BeingRead(s)  BY <1>1, <1>2, NotRead
  <2>2. QED  BY <1>2, <2>1, CurrentIs DEF Saved
<1>8. ~HasName(table[s].id)  BY <1>7 DEF HasName
<1>9. ASSUME NEW m \in Id, m # table[s].id PROVE Current(m)' = Current(m) /\ (HasName(m)' <=> HasName(m))
  <2>1. \A t \in Slot : BeingRead(t)' <=> BeingRead(t)  BY <1>1, PutDoneReads
  <2>2. Current(m)' = Current(m)
    BY <1>1, <1>2, <1>3, <1>5, <1>6, <1>9, <2>1, OthersCurrent
  <2>3. m \in imap' <=> m \in imap  BY <1>4, <1>9
  <2>4. HasName(m)' <=> m \in imap' /\ \A c \in Current(m)' : c.nlink > 0  BY DEF HasName
  <2>5. QED  BY <2>2, <2>3, <2>4 DEF HasName
<1>10. HasName(Root2)'  BY <1>3, <1>8, <1>9 DEF Sound, TableFits
<1>11. \A m \in Id : (\E q \in Proc : q # p /\ Sought(Now(q)) /\ Now(q).id = m) => HasName(m)'
  <2> SUFFICES ASSUME NEW m \in Id, NEW q \in Proc, Sought(Now(q)), Now(q).id = m
               PROVE  HasName(m)'
    OBVIOUS
  <2>1. HasName(m)  BY CallOf
  <2>2. QED  BY <1>8, <1>9, <2>1
<1>12. \A t \in Slot : t # s /\ table[t].id # NoId => table[t].id \in imap'
  BY <1>2, <1>4 DEF Sound, TableFits, EntriesFit, OneCopy
<1>13. Kept'
  <2>1. \A t \in Slot : t # s => Saved(t)' = Saved(t)  BY <1>6 DEF Saved
  <2>2. Clean'  BY <1>1, <1>5, <1>6, <2>1 DEF Sound, TableFits, Kept, Clean, Unlocked
  <2>3. \A m \in imap : m \in Id /\ \A c \in Current(m) : c.ver = latest[m]
    BY DEF Sound, TableFits, Kept, TypeOK
  <2>4. \A m \in imap' : \A c \in Current(m)' : c.ver = latest'[m]
    BY <1>1, <1>4, <1>9, <2>3
  <2>5. QED  BY <2>2, <2>4 DEF Kept, Clean
<1>14. Zero.count = table[s].count - 1  BY <1>2, <1>5
<1>15. Now(p).at \in {"put", "truncate"} /\ imap' \subseteq imap  BY <1>1, <1>4
<1>16. QED
  BY <1>s, <1>1, <1>4, <1>5, <1>10, <1>11, <1>12, <1>13, <1>14, <1>15, PutBack

(***************************************************************************)
(* write_inode and sync_inodes.                                            *)
(***************************************************************************)
(* The inode is on disk as it is in memory. *)
LEMMA WriteStep ==
  ASSUME Sound, NEW p \in Proc, NEW r, Becomes(p, r), NEW s \in Slot, Locker(Now(p)) = s,
         Reader(Now(p)) = NoSlot, Locker(r.now) = NoSlot, Reader(r.now) = NoSlot,
         HeldBy(r) = HeldBy(job[p]), r.now.e = NoSlot, r.now.at # "truncate", ~Sought(r.now),
         NEW l, EndWrite(p, s, l),
         RightInode(r), MountFits(r.now), IsApart(p, r), Now(p).op = "umount" => r.now.op = "umount"
  PROVE  Sound'
PROOF
<1>i. PICK i \in Inode : i = [table[s] EXCEPT !.lock = FALSE, !.dirt = FALSE]
  BY DEF Sound, TableFits, TypeOK, Inode
<1>1. /\ i.id = table[s].id /\ i.count = table[s].count /\ i.lock = FALSE /\ i.dirt = FALSE
      /\ i.nlink = table[s].nlink /\ i.ver = table[s].ver /\ i.mount = table[s].mount
      /\ table[s] \in Inode
  BY <1>i DEF Sound, TableFits, TypeOK, Inode
<1>2. /\ table' \in [Slot -> Inode] /\ table'[s] = i
      /\ \A t \in Slot : t # s => table'[t] = table[t]
  <2>1. table' = [table EXCEPT ![s].lock = FALSE, ![s].dirt = FALSE]  BY DEF EndWrite
  <2>2. table' = [table EXCEPT ![s] = i]  BY <1>i, <2>1 DEF Sound, TableFits, TypeOK
  <2>3. QED  BY <2>2 DEF Sound, TableFits, TypeOK
<1>u. sb' = sb /\ imap' = imap /\ latest' = latest  BY DEF EndWrite
<1>3. NoId \notin Id /\ NoSlot \notin Slot  BY InodesAssumption
<1>4. table[s].lock /\ table[s].id \in Id
  <2>1. table[s].lock  BY DEF Sound, TableFits, Locks
  <2>2. QED  BY <1>1, <2>1 DEF Sound, TableFits, EntriesFit, Inode
<1>5. Saved(s) \in OnDisk /\ disk' = [disk EXCEPT ![table[s].id] = Saved(s)]
  BY <1>1, <1>3, <1>4 DEF EndWrite, Saved, OnDisk, Inode
<1>6. /\ disk' \in [Id -> OnDisk] /\ disk'[table[s].id] = Saved(s)
      /\ \A m \in Id : m # table[s].id => disk'[m] = disk[m]
  BY <1>4, <1>5 DEF Sound, TableFits, TypeOK
<1>7. \A t \in Slot :
        /\ table'[t].id = table[t].id /\ table'[t].count = table[t].count
        /\ table'[t].nlink = table[t].nlink /\ table'[t].ver = table[t].ver
        /\ table'[t].mount = table[t].mount
        /\ table'[t].lock <=> table[t].lock /\ t # s
        /\ table'[t].dirt => table[t].dirt
  BY <1>1, <1>2
<1>8. EntriesTyped'  BY <1>2, <1>6, <1>u DEF EntriesTyped, Sound, TableFits, TypeOK
<1>9. \A m \in Id : Current(m)' = Current(m)
  <2> SUFFICES ASSUME NEW m \in Id PROVE Current(m)' = Current(m)
    OBVIOUS
  <2>1. \A t : BeingRead(t)' <=> BeingRead(t)  BY ReadsStay
  <2>2. CASE m # table[s].id  BY <1>6, <1>7, <2>1, <2>2, ContentsStay
  <2>3. CASE m = table[s].id
    <3>1. ~BeingRead(s)
      <4> SUFFICES ASSUME NEW q \in Proc, Reader(Now(q)) = s PROVE FALSE  BY DEF BeingRead
      <4>1. Locker(Now(q)) = s  BY <1>3 DEF Reader, Locker
      <4>2. q = p  BY <1>3, <4>1 DEF Sound, TableFits, Locks
      <4>3. QED  BY <1>3, <4>2
    <3>2. Current(m) = {Saved(s)}  BY <2>3, <3>1, CurrentIs
    <3>3. InMemory(m)' = {s}
      BY <1>3, <1>4, <1>7, <2>1, <2>3, <3>1 DEF InMemory, Holders, Sound, TableFits, OneCopy
    <3>4. Current(m)' = {Saved(s)'}  BY <3>3 DEF Current
    <3>5. Saved(s)' = Saved(s)  BY <1>7 DEF Saved
    <3>6. QED  BY <3>2, <3>4, <3>5
  <2>4. QED  BY <2>2, <2>3
<1>10. CountIsReferences'  BY <1>7, <1>u, CountsStay
<1>11. Locks'  BY <1>3, <1>7, LocksFit
<1>12. OneCopy' /\ EntriesFit'  BY <1>7, <1>u DEF Sound, TableFits, OneCopy, EntriesFit
<1>13. FreeIsReady'  BY <1>7 DEF Sound, TableFits, FreeIsReady, Free, Ready, Unlocked
<1>14. Clean'
  <2>1. \A t \in Slot : Saved(t)' = Saved(t)  BY <1>7 DEF Saved
  <2>2. \A t \in Slot : t # s => table'[t] = table[t] /\ (table[t].id # table[s].id)
    BY <1>2, <1>3, <1>4 DEF Sound, TableFits, OneCopy
  <2>3. \A t \in Slot : table[t].id # NoId => table[t].id \in Id  BY DEF Sound, TableFits, TypeOK, Inode
  <2>4. QED  BY <1>6, <1>7, <2>1, <2>2, <2>3 DEF Sound, TableFits, Kept, Clean, Unlocked
<1>15. \A t \in Slot : InUse2(t)' <=> InUse2(t)  BY <1>7 DEF InUse2
<1>16. SuperFits'  BY <1>7, <1>15, <1>u, SuperStays
<1>17. EmptyFits(r.now)' /\ RightInode(r)' /\ MountFits(r.now)'
  <2>1. EmptyFits(r.now)'
    <3>1. HoldsFit(r.now)  BY DEF Becomes, JobFits
    <3>2. QED  BY <3>1 DEF EmptyFits, HoldsFit
  <2>2. RightInode(r)'
    <3>1. \A t \in SlotOrNone : t # NoSlot => table'[t].id = table[t].id
      BY <1>7 DEF SlotOrNone
    <3>2. r.ref \in SlotOrNone /\ r.now.s \in SlotOrNone /\ r.now.dir \in SlotOrNone
          /\ HoldsFit(r.now)
      BY DEF Becomes, Job, Call, JobFits
    <3>3. QED  BY <3>1, <3>2 DEF RightInode, HoldsFit, Putting
  <2>3. MountFits(r.now)'  BY <1>7, <1>15, <1>u DEF MountFits
  <2>4. QED  BY <2>1, <2>2, <2>3
<1>18. ASSUME NEW q \in Proc, q # p
       PROVE  EmptyFits(Now(q))' /\ RightInode(job[q])' /\ MountFits(Now(q))'
  <2>1. \A x \in Uses(job[q]) : table'[x].id = table[x].id  BY <1>7 DEF Uses
  <2>2. Now(q).e # NoSlot => table'[Now(q).e] = table[Now(q).e]
    <3> SUFFICES ASSUME Now(q).e # NoSlot PROVE table'[Now(q).e] = table[Now(q).e]
      OBVIOUS
    <3>1. Now(q).e \in Slot  BY ClaimedOwn
    <3>2. Now(q).e # s
      <4> SUFFICES ASSUME Now(q).e = s PROVE FALSE
        OBVIOUS
      <4>1. Now(q).at \in {"search", "swait", "alloc", "read"}
        BY CallOf DEF JobFits, HoldsFit
      <4>2. CASE Now(q).at = "read"
        <5>1. Locker(Now(q)) = s  BY <4>2 DEF Locker
        <5>2. QED  BY <1>3, <1>18, <5>1 DEF Sound, TableFits, Locks
      <4>3. CASE Now(q).at # "read"
        <5>1. table[s] = Claimed  BY <4>1, <4>3, CallOf DEF EmptyFits
        <5>2. QED  BY <1>4, <5>1, ClaimedIs
      <4>4. QED  BY <4>2, <4>3
    <3>3. QED  BY <1>2, <3>1, <3>2
  <2>3. Now(q).at = "truncate" => /\ table'[Now(q).s].nlink = table[Now(q).s].nlink
                                  /\ table'[Now(q).s].count = table[Now(q).s].count
    <3>1. Now(q).at = "truncate" => Now(q).s \in Slot  BY Puts DEF Putting
    <3>2. QED  BY <1>7, <3>1
  <2>4. EmptyFits(Now(q))' /\ RightInode(job[q])'  BY <1>18, <2>1, <2>2, <2>3, OthersHold
  <2>5. MountFits(Now(q))'  BY <1>7, <1>15, <1>u, <1>18, OthersMount
  <2>6. QED  BY <2>4, <2>5
<1>19. QED
  BY <1>8, <1>9, <1>10, <1>11, <1>12, <1>13, <1>14, <1>16, <1>17, <1>18, <1>u, Steady DEF MountsHold

LEMMA PutWriteStep == ASSUME Sound, NEW p \in Proc, PutWrite(p) PROVE Sound'
PROOF
<1>s. PICK s : s = Now(p).s  OBVIOUS
<1>1. /\ Now(p).at = "pwrite" /\ Now(p).at \in Putting /\ EndWrite(p, s, "put")
      /\ "put" \in Putting
  BY <1>s DEF PutWrite, At, Putting
<1>2. s \in Slot /\ Reader(Now(p)) = NoSlot /\ Locker(Now(p)) = s
  BY <1>s, <1>1, Puts DEF Locker
<1>3. Goto(p, "put")  BY <1>1 DEF EndWrite
<1>4. PICK r : /\ Becomes(p, r) /\ IsApart(p, r) /\ r.now.at = "put" /\ r.now.s = s
               /\ r.now.op = Now(p).op /\ r.now.e = NoSlot /\ HeldBy(r) = HeldBy(job[p])
               /\ Reader(r.now) = NoSlot /\ ~Sought(r.now)
               /\ EmptyFits(r.now) /\ MountFits(r.now) /\ RightInode(r)
  BY <1>s, <1>1, <1>3, PutGoes
<1>5. Locker(r.now) = NoSlot  BY <1>4 DEF Locker
<1>6. QED  BY <1>1, <1>2, <1>4, <1>5, WriteStep

LEMMA Syncs ==
  ASSUME Sound, NEW p \in Proc, Now(p).at \in {"sync", "sync_write"}
  PROVE  /\ Now(p).op = "sync" /\ Now(p).id = NoId /\ Now(p).e = NoSlot /\ Now(p).dir = NoSlot
         /\ job[p].ref = NoSlot /\ Now(p).todo \subseteq Slot
         /\ Now(p).at = "sync_write" => Now(p).s \in Slot
PROOF
<1>p. PICK k \in Job : k = job[p]  BY CallOf
<1>1. /\ k.now = Now(p) /\ k.now.at \in {"sync", "sync_write"} /\ k.now \in Call /\ JobFits(k)
      /\ Out.at = "out"
  BY <1>p, CallOf DEF Out
<1>2. k.now.op = "sync"  BY <1>1 DEF JobFits, OpFits, Call, Ops, Seeking, Putting
<1>3. k.now.id = NoId /\ k.now.e = NoSlot /\ k.now.dir = NoSlot /\ k.ref = NoSlot
  BY <1>1, <1>2 DEF JobFits, OpFits, HoldsFit
<1>4. k.now.at = "sync_write" => k.now.s \in Slot
  BY <1>1 DEF JobFits, HoldsFit, Call, SlotOrNone
<1>5. k.now.todo \subseteq Slot  BY <1>1 DEF Call
<1>6. QED  BY <1>p, <1>1, <1>2, <1>3, <1>4, <1>5

LEMMA SyncGoes ==
  ASSUME Sound, NEW p \in Proc, Now(p).at \in {"sync", "sync_write"}, NEW j \in Call, Become(p, j),
         j.op = "sync", j.at \in {"sync", "sync_write"}, j.id = NoId, j.e = NoSlot,
         j.dir = NoSlot, j.at = "sync_write" => j.s # NoSlot
  PROVE  \E r : /\ Becomes(p, r) /\ IsApart(p, r) /\ r.now = j /\ HeldBy(r) = HeldBy(job[p])
                /\ Reader(r.now) = NoSlot /\ ~Sought(r.now) /\ Reader(Now(p)) = NoSlot
                /\ EmptyFits(r.now) /\ MountFits(r.now) /\ RightInode(r) /\ Now(p).op # "umount"
PROOF
<1>1. /\ Now(p).op = "sync" /\ Now(p).e = NoSlot /\ Now(p).dir = NoSlot /\ job[p].ref = NoSlot
      /\ NoId # Root2 /\ Now(p) = job[p].now
  BY Syncs, CallOf, InodesAssumption DEF Id
<1>r. PICK r \in Job : r = [now |-> j, ref |-> NoSlot]  BY DEF Job, SlotOrNone
<1>2. r.now = j /\ r.ref = NoSlot  BY <1>r
<1>3. Becomes(p, r)
  <2>1. job' = [job EXCEPT ![p] = r]  BY <1>r, <1>1, BecomeIs
  <2>2. OpFits(j)  BY DEF OpFits, Putting
  <2>3. HoldsFit(j)  BY DEF HoldsFit, Putting
  <2>4. QED  BY <1>2, <2>1, <2>2, <2>3 DEF Becomes, JobFits
<1>4. HeldBy(r) = HeldBy(job[p])  BY <1>1, <1>2 DEF HeldBy
<1>5. Reader(j) = NoSlot /\ ~Sought(j) /\ Reader(Now(p)) = NoSlot  BY DEF Reader, Sought, Seeking
<1>6. EmptyFits(j) /\ MountFits(j)  BY <1>1 DEF EmptyFits, MountFits
<1>7. RightInode(r)  BY <1>2 DEF RightInode, Putting
<1>8. IsApart(p, r)
  <2>1. \A q \in Proc : q # p => Apart(j, Now(q)) /\ Apart(Now(q), j)  BY DEF Apart, Past
  <2>2. QED  BY <1>2, <2>1 DEF IsApart
<1>9. QED  BY <1>1, <1>2, <1>3, <1>4, <1>5, <1>6, <1>7, <1>8

LEMMA SyncOneStep == ASSUME Sound, NEW p \in Proc, SyncOne(p) PROVE Sound'
PROOF
<1>k. PICK k \in Call : k = Now(p)  BY CallOf
<1>1. /\ k.at = "sync" /\ k.op = "sync" /\ k.id = NoId /\ k.e = NoSlot /\ k.dir = NoSlot
      /\ job[p].ref = NoSlot /\ k.todo \subseteq Slot /\ UNCHANGED <<disk, imap, sb, latest>>
  BY <1>k, Syncs DEF SyncOne, At
<1>2. Locker(Now(p)) = NoSlot /\ NoSlot \notin Slot  BY <1>k, <1>1, InodesAssumption DEF Locker
<1>3. ASSUME NEW s \in k.todo, ~table[s].lock, table[s].dirt, table' = Locked(s),
             Become(p, [k EXCEPT !.at = "sync_write", !.s = s, !.todo = k.todo \ {s}])
      PROVE  Sound'
  <2>1. s \in Slot /\ s # NoSlot  BY <1>1, <1>2
  <2>j. PICK j \in Call : j = [k EXCEPT !.at = "sync_write", !.s = s, !.todo = k.todo \ {s}]
    BY <1>1, <2>1 DEF Call, Locations, SlotOrNone
  <2>2. /\ j.op = "sync" /\ j.at = "sync_write" /\ j.id = NoId /\ j.e = NoSlot /\ j.dir = NoSlot
        /\ j.s = s
    BY <2>j, <1>1 DEF Call
  <2>3. PICK r : /\ Becomes(p, r) /\ IsApart(p, r) /\ r.now = j /\ HeldBy(r) = HeldBy(job[p])
                 /\ Reader(r.now) = NoSlot /\ ~Sought(r.now) /\ Reader(Now(p)) = NoSlot
                 /\ EmptyFits(r.now) /\ MountFits(r.now) /\ RightInode(r) /\ Now(p).op # "umount"
    BY <1>k, <1>1, <1>3, <2>j, <2>1, <2>2, SyncGoes
  <2>4. Locker(r.now) = s /\ r.now.e = NoSlot /\ r.now.at # "truncate"  BY <2>2, <2>3 DEF Locker
  <2>5. table[s].id # NoId /\ table[s].count # 0
    BY <1>3, <2>1 DEF Sound, TableFits, EntriesFit, FreeIsReady, Free, Ready
  <2>6. QED  BY <1>1, <1>2, <1>3, <2>1, <2>3, <2>4, <2>5, LockStep
<1>4. ASSUME NEW s \in k.todo, Become(p, [k EXCEPT !.todo = k.todo \ {s}]), UNCHANGED table
      PROVE  Sound'
  <2>j. PICK j \in Call : j = [k EXCEPT !.todo = k.todo \ {s}]  BY <1>1 DEF Call
  <2>1. /\ j.op = "sync" /\ j.at = "sync" /\ j.id = NoId /\ j.e = NoSlot /\ j.dir = NoSlot
    BY <2>j, <1>1 DEF Call
  <2>2. PICK r : /\ Becomes(p, r) /\ IsApart(p, r) /\ r.now = j /\ HeldBy(r) = HeldBy(job[p])
                 /\ Reader(r.now) = NoSlot /\ ~Sought(r.now) /\ Reader(Now(p)) = NoSlot
                 /\ EmptyFits(r.now) /\ MountFits(r.now) /\ RightInode(r) /\ Now(p).op # "umount"
    BY <1>k, <1>1, <1>4, <2>j, <2>1, SyncGoes
  <2>3. Locker(r.now) = NoSlot  BY <2>1, <2>2 DEF Locker
  <2>4. QED  BY <1>1, <1>2, <1>4, <2>2, <2>3, JobStep
<1>5. ASSUME Become(p, Out), UNCHANGED table PROVE Sound'
  <2>r. PICK r : r = [now |-> Out, ref |-> NoSlot]  OBVIOUS
  <2>1. /\ r \in Job /\ JobFits(r) /\ r.now = Out /\ RightInode(r)
        /\ Locker(r.now) = NoSlot /\ Reader(r.now) = NoSlot /\ ~Sought(r.now)
        /\ MountFits(r.now) /\ EmptyFits(r.now) /\ IsApart(p, r)
        /\ \A t \in Slot : OfJob(HeldBy(r), t) = One(NoSlot, t)
    <3>1. NoSlot \in SlotOrNone  BY DEF SlotOrNone
    <3>2. QED  BY <2>r, <3>1, OutJob
  <2>2. Becomes(p, r)
    <3>1. job' = [job EXCEPT ![p] = r]  BY <1>1, <1>5, <2>r, BecomeIs
    <3>2. QED  BY <2>1, <3>1 DEF Becomes
  <2>3. \A t \in Slot : OfJob(HeldBy(job[p]), t) = OfJob(HeldBy(r), t)
    <3>1. HeldBy(job[p]) = [ref |-> NoSlot, e |-> NoSlot, dir |-> NoSlot, s |-> NoSlot]
      BY <1>k, <1>1, CallOf DEF HeldBy
    <3>2. \A t \in Slot : One(NoSlot, t) = 0  BY <1>2 DEF One
    <3>3. QED  BY <2>1, <3>1, <3>2 DEF OfJob
  <2>4. Reader(Now(p)) = NoSlot /\ Now(p).op # "umount"  BY <1>k, <1>1 DEF Reader
  <2>5. QED  BY <1>1, <1>2, <1>5, <2>1, <2>2, <2>3, <2>4, JobStep
<1>6. QED  BY <1>k, <1>3, <1>4, <1>5 DEF SyncOne, Unlocked

LEMMA SyncWriteStep == ASSUME Sound, NEW p \in Proc, SyncWrite(p) PROVE Sound'
PROOF
<1>k. PICK k \in Call : k = Now(p)  BY CallOf
<1>s. PICK s : s = k.s  OBVIOUS
<1>1. /\ k.at = "sync_write" /\ k.op = "sync" /\ k.id = NoId /\ k.e = NoSlot /\ k.dir = NoSlot
      /\ s \in Slot /\ EndWrite(p, s, "sync")
  BY <1>k, <1>s, Syncs DEF SyncWrite, At
<1>j. PICK j \in Call : j = [k EXCEPT !.at = "sync"]  BY DEF Call, Locations
<1>2. /\ j.op = "sync" /\ j.at = "sync" /\ j.id = NoId /\ j.e = NoSlot /\ j.dir = NoSlot
  BY <1>j, <1>1 DEF Call
<1>3. Become(p, j)
  <2>1. Goto(p, "sync")  BY <1>1 DEF EndWrite
  <2>2. QED  BY <1>k, <1>j, <2>1, GotoIs
<1>4. PICK r : /\ Becomes(p, r) /\ IsApart(p, r) /\ r.now = j /\ HeldBy(r) = HeldBy(job[p])
               /\ Reader(r.now) = NoSlot /\ ~Sought(r.now) /\ Reader(Now(p)) = NoSlot
               /\ EmptyFits(r.now) /\ MountFits(r.now) /\ RightInode(r) /\ Now(p).op # "umount"
  BY <1>k, <1>1, <1>2, <1>3, SyncGoes
<1>5. Locker(r.now) = NoSlot /\ r.now.e = NoSlot /\ r.now.at # "truncate"
  BY <1>2, <1>4 DEF Locker
<1>6. Locker(Now(p)) = s  BY <1>k, <1>s, <1>1 DEF Locker
<1>7. QED  BY <1>1, <1>4, <1>5, <1>6, WriteStep

(***************************************************************************)
(* The invariant.                                                          *)
(***************************************************************************)
LEMMA InitIInv == ASSUME Init PROVE IInv
PROOF
<1>1. /\ NoId \notin Id /\ NoSlot \notin Slot /\ Root2 \in Id /\ NoId # Root2 /\ MountPoint \subseteq File
  BY InodesAssumption DEF Id
<1>2. Zero \in Inode /\ Zero.id = NoId /\ Zero.count = 0 /\ ~Zero.lock /\ ~Zero.dirt /\ Zero.mount = FALSE
  BY DEF Zero, Inode
<1>3. /\ table \in [Slot -> Inode] /\ disk \in [Id -> OnDisk] /\ imap = Id /\ sb = NoSuper
      /\ latest \in [Id -> Nat]
      /\ \A s \in Slot : table[s] = Zero
      /\ \A i \in Id : disk[i] = [nlink |-> 1, ver |-> 0] /\ latest[i] = 0
  BY <1>2 DEF Init, OnDisk
<1>4. /\ NoSuper \in Super /\ ~sb.dev /\ ~sb.lock /\ sb.covered = NoSlot /\ sb.mounted = NoSlot
  BY <1>3 DEF NoSuper, Super, SlotOrNone
<1>j. PICK j \in Job : j = [now |-> Out, ref |-> NoSlot]  BY OutIsCall DEF Job, SlotOrNone
<1>5. /\ j.now = Out /\ j.ref = NoSlot /\ job \in [Proc -> Job]
      /\ \A p \in Proc : job[p] = j /\ Now(p) = Out
      /\ Out.at = "out" /\ Out.op = "out" /\ Out.id = NoId
  BY <1>j DEF Init, Now, Out
<1>6. TypeOK  BY <1>3, <1>4, <1>5 DEF TypeOK
<1>7. JobsFit
  <2>1. OpFits(Out) /\ HoldsFit(Out)  BY <1>5, OutIsCall DEF OpFits, HoldsFit, Putting
  <2>2. QED  BY <1>5, <2>1 DEF JobsFit, JobFits
<1>8. CountIsReferences
  <2>1. HeldBy(j) = [ref |-> NoSlot, e |-> NoSlot, dir |-> NoSlot, s |-> NoSlot]
    BY <1>5, OutIsCall DEF HeldBy
  <2>2. \A s \in Slot : Held(s) = {}  BY <1>1, <1>5, <2>1 DEF Held, RefFields
  <2>3. \A s \in Slot : Cardinality(Held(s)) = 0
    <3>1. Cardinality({}) = 0  BY FS_EmptySet
    <3>2. QED  BY <2>2, <3>1
  <2>4. \A s \in Slot : table[s].count = 0 /\ sb.covered # s /\ sb.mounted # s
    BY <1>1, <1>2, <1>3, <1>4
  <2>5. QED  BY <2>3, <2>4 DEF CountIsReferences
<1>9. OneCopy /\ FreeIsReady /\ EntriesFit
  BY <1>1, <1>2, <1>3 DEF OneCopy, FreeIsReady, Free, Ready, Unlocked, EntriesFit
<1>10. Locker(Out) = NoSlot /\ Reader(Out) = NoSlot /\ ~Sought(Out)
  BY <1>5 DEF Locker, Reader, Sought, Seeking
<1>11. Locks  BY <1>1, <1>2, <1>3, <1>5, <1>10 DEF Locks
<1>12. \A i \in Id : Current(i) = {disk[i]}
  <2>1. \A i \in Id : InMemory(i) = {}  BY <1>1, <1>2, <1>3 DEF InMemory, Holders
  <2>2. QED  BY <2>1 DEF Current
<1>13. Kept
  <2>1. \A i \in imap : \A c \in Current(i) : c.ver = latest[i]  BY <1>3, <1>12
  <2>2. QED  BY <1>2, <1>3, <2>1 DEF Kept
<1>14. HasName(Root2)  BY <1>1, <1>3, <1>12 DEF HasName
<1>15. SuperFits  BY <1>2, <1>3, <1>4 DEF SuperFits, InUse2
<1>16. CallsFit
  <2>1. EmptyFits(Out)  BY <1>5, OutIsCall DEF EmptyFits
  <2>2. RightInode(j)  BY <1>5, OutIsCall DEF RightInode, Putting
  <2>3. QED  BY <1>5, <1>10, <2>1, <2>2 DEF CallsFit
<1>17. MountsFit
  <2>1. MountFits(Out)  BY <1>1, <1>5, OutIsCall DEF MountFits
  <2>2. QED  BY <1>5, <2>1 DEF MountsFit, OneReads, At
<1>18. QED
  BY <1>6, <1>7, <1>8, <1>9, <1>11, <1>13, <1>14, <1>15, <1>16, <1>17 DEF IInv, TableFits

LEMMA StutterIInv == ASSUME IInv, UNCHANGED vars PROVE IInv'
PROOF
<1>1. /\ table' = table /\ disk' = disk /\ imap' = imap /\ sb' = sb /\ latest' = latest /\ job' = job
  BY DEF vars
<1>2. \A p : Now(p)' = Now(p)  BY <1>1 DEF Now
<1>3. \A s : BeingRead(s)' <=> BeingRead(s)  BY <1>2 DEF BeingRead, Reader
<1>4. \A i \in Id : Current(i)' = Current(i)  BY <1>1, <1>3, ContentsStay
<1>5. TypeOK' /\ JobsFit' /\ OneCopy' /\ FreeIsReady' /\ EntriesFit'
  BY <1>1 DEF IInv, TableFits, TypeOK, JobsFit, OneCopy, FreeIsReady, Free, Ready, Unlocked, EntriesFit
<1>6. CountIsReferences'
  <2>1. \A s \in Slot : Held(s)' = Held(s)  BY <1>1 DEF Held
  <2>2. QED  BY <1>1, <2>1 DEF IInv, TableFits, CountIsReferences
<1>7. Locks'  BY <1>1 DEF IInv, TableFits, Locks, Now
<1>8. Kept'
  <2>1. \A m \in imap : m \in Id /\ \A c \in Current(m) : c.ver = latest[m]
    BY DEF IInv, TableFits, Kept, TypeOK
  <2>2. QED  BY <1>1, <1>4, <2>1 DEF IInv, TableFits, Kept, Unlocked, Saved
<1>9. \A i \in Id : HasName(i)' <=> HasName(i)  BY <1>1, <1>4 DEF HasName
<1>10. HasName(Root2)'  BY <1>9 DEF IInv, TableFits, Id
<1>11. SuperFits'
  <2>1. Umounting' <=> Umounting  BY <1>2 DEF Umounting
  <2>2. QED  BY <1>1, <2>1 DEF IInv, TableFits, SuperFits, InUse2
<1>12. CallsFit'
  <2> SUFFICES ASSUME NEW p \in Proc
               PROVE  /\ EmptyFits(Now(p))' /\ RightInode(job[p])'
                      /\ Sought(Now(p))' => HasName(Now(p).id)'
    BY DEF CallsFit
  <2>1. PICK k \in Job : k = job[p]  BY DEF IInv, TableFits, TypeOK
  <2>2. /\ k.now = Now(p) /\ EmptyFits(k.now) /\ RightInode(k)
        /\ Sought(k.now) => HasName(k.now.id) /\ k.now.id \in Id
    BY <2>1 DEF IInv, TableFits, CallsFit, Sought, Call, Job, Now
  <2>3. EmptyFits(k.now)' /\ RightInode(k)' /\ (Sought(k.now) => HasName(k.now.id)')
    BY <1>1, <1>9, <2>2 DEF EmptyFits, RightInode
  <2>4. Now(p)' = k.now /\ job'[p] = k  BY <1>1, <1>2, <2>1, <2>2
  <2>5. QED  BY <2>3, <2>4 DEF EmptyFits, RightInode, Sought
<1>13. ~Overlapped' => MountsFit'
  <2>1. Overlapped' <=> Overlapped  BY <1>2 DEF Overlapped, Past
  <2>2. ASSUME MountsFit PROVE MountsFit'
    <3>1. OneReads'  BY <1>2, <2>2 DEF MountsFit, OneReads, At
    <3>2. ASSUME NEW p \in Proc PROVE MountFits(Now(p))'
      <4>1. Now(p)' = Now(p) /\ MountFits(Now(p))  BY <1>2, <2>2 DEF MountsFit
      <4>2. QED  BY <1>1, <4>1 DEF MountFits, InUse2
    <3>3. QED  BY <3>1, <3>2 DEF MountsFit
  <2>3. QED  BY <2>1, <2>2 DEF IInv
<1>14. QED
  BY <1>5, <1>6, <1>7, <1>8, <1>10, <1>11, <1>12, <1>13 DEF IInv, TableFits

LEMMA NextIInv == ASSUME IInv, ~Races, [Next]_vars PROVE IInv'
PROOF
<1>1. ASSUME Sound, NEW p \in Proc,
             \/ Open(p) \/ Create(p) \/ Change(p) \/ Unlink(p) \/ Close(p) \/ Sync(p)
             \/ Mount(p)
             \/ GetEmpty(p) \/ Search(p) \/ SearchWait(p)
             \/ MountedWait(p) \/ ReadInode(p) \/ NewInode(p) \/ Put(p) \/ PutWrite(p)
             \/ FreeInode(p) \/ SyncOne(p) \/ SyncWrite(p) \/ MountFound(p)
             \/ SuperRead(p) \/ Mounted(p) \/ PutSuper(p)
      PROVE  Sound'
  BY <1>1, OpenStep, CreateStep, ChangeStep, UnlinkStep, CloseStep, SyncStep, MountStep,
     GetEmptyStep, SearchStep, SearchWaitStep, MountedWaitStep, ReadInodeStep,
     NewInodeStep, PutStep, PutWriteStep, FreeInodeStep, SyncOneStep, SyncWriteStep,
     MountFoundStep, SuperReadStep, MountedStep, PutSuperStep
<1>2. CASE Next
  <2>1. ~Overlapped /\ Sound  BY <1>2, SoundIs DEF Next
  <2>2. PICK p \in Proc :
          \/ Open(p) \/ Create(p) \/ Change(p) \/ Unlink(p) \/ Close(p) \/ Sync(p)
          \/ Mount(p) \/ Umount(p)
          \/ GetEmpty(p) \/ Search(p) \/ SearchWait(p)
          \/ MountedWait(p) \/ ReadInode(p) \/ NewInode(p) \/ Put(p) \/ PutWrite(p)
          \/ FreeInode(p) \/ SyncOne(p) \/ SyncWrite(p) \/ MountFound(p) \/ ReadSuper(p)
          \/ SuperRead(p) \/ Mounted(p) \/ PutSuper(p)
    BY <1>2 DEF Next
  <2>3. CASE Umount(p) \/ ReadSuper(p)  BY <2>1, <2>3, UmountStep, ReadSuperStep
  <2>4. CASE ~(Umount(p) \/ ReadSuper(p))
    <3>1. Sound'  BY <1>1, <2>1, <2>2, <2>4
    <3>2. QED  BY <3>1, SoundAfter
  <2>5. QED  BY <2>3, <2>4
<1>3. CASE UNCHANGED vars  BY <1>3, StutterIInv
<1>4. QED  BY <1>2, <1>3

LEMMA Invariant == ~Races => (Spec => []IInv)
PROOF
<1> SUFFICES ASSUME ~Races PROVE Spec => []IInv
  OBVIOUS
<1>1. Init => IInv  BY InitIInv
<1>2. IInv /\ [Next]_vars => IInv'  BY NextIInv
<1>3. QED  BY <1>1, <1>2, PTL DEF Spec

(* Never are two entries of the table the same inode, however the searches of iget, the
   waits in it and minix_new_inode are interleaved: as long as no inode is freed while
   iget is on its way to it, and up to an overlap of mounts or umounts. *)
THEOREM InodeIsOnceInTable == ~Races => (Spec => []OneCopy)
PROOF
<1> SUFFICES ASSUME ~Races PROVE Spec => []OneCopy
  OBVIOUS
<1>1. IInv => OneCopy  BY DEF IInv, TableFits
<1>2. QED  BY <1>1, Invariant, PTL

(* i_count is at every moment the number of those who have the inode: what is open, the
   calls that are under way, and a mount, through every path of iget, iput, sys_mount and
   sys_umount, the refused and the failed ones included. *)
THEOREM CountsAreReferences == ~Races => (Spec => []CountIsReferences)
PROOF
<1> SUFFICES ASSUME ~Races PROVE Spec => []CountIsReferences
  OBVIOUS
<1>1. IInv => CountIsReferences  BY DEF IInv, TableFits
<1>2. QED  BY <1>1, Invariant, PTL

(* What is unlocked in memory has been read, and is current. *)
LEMMA IInvNothingLost == ASSUME IInv PROVE NothingLost
PROOF
<1> SUFFICES ASSUME NEW i \in imap
             PROVE  /\ \A s \in Holders(i) :
                         /\ Unlocked(s) => table[s].ver = latest[i]
                         /\ Unlocked(s) /\ ~table[s].dirt => disk[i].ver = latest[i]
                    /\ Holders(i) = {} => disk[i].ver = latest[i]
  BY DEF NothingLost
<1>1. i \in Id /\ NoId \notin Id /\ \A c \in Current(i) : c.ver = latest[i]
  BY InodesAssumption DEF IInv, TableFits, TypeOK, Kept
<1>2. ASSUME NEW s \in Holders(i), Unlocked(s)
      PROVE  table[s].ver = latest[i] /\ (~table[s].dirt => disk[i].ver = latest[i])
  <2>1. s \in Slot /\ table[s].id = i  BY DEF Holders
  <2>2. ~BeingRead(s)  BY <1>2, <2>1, UnlockedIsRead DEF Unlocked, IInv
  <2>3. Current(i) = {Saved(s)}  BY <1>1, <2>1, <2>2, CurrentOf DEF IInv
  <2>4. Saved(s).ver = latest[i]  BY <1>1, <2>3
  <2>5. ~table[s].dirt => disk[i] = Saved(s)  BY <1>1, <1>2, <2>1 DEF IInv, TableFits, Kept
  <2>6. QED  BY <2>4, <2>5 DEF Saved
<1>3. Holders(i) = {} => disk[i].ver = latest[i]
  <2>1. Holders(i) = {} => Current(i) = {disk[i]}  BY <1>1, CurrentOf DEF Holders, IInv
  <2>2. QED  BY <1>1, <2>1
<1>4. QED  BY <1>2, <1>3

(* What a process has written to an inode is in memory or on disk until it is deleted,
   whoever syncs, puts or gets it meanwhile. *)
THEOREM NoInodeIsLost == ~Races => (Spec => []NothingLost)
PROOF
<1> SUFFICES ASSUME ~Races PROVE Spec => []NothingLost
  OBVIOUS
<1>1. IInv => NothingLost  BY IInvNothingLost
<1>2. QED  BY <1>1, Invariant, PTL

(* A directory is marked as mounted on only while the super block covers it, a covered one
   has the root of the device, and the device stays while an inode of it is in use: with any
   number of directories and of processes that mount, unmount and use the device, until two
   of them are past the tests of sys_mount and sys_umount together, which nothing prevents. *)
THEOREM MountsStayPaired == ~Races => (Spec => []MountsPaired)
PROOF
<1> SUFFICES ASSUME ~Races PROVE Spec => []MountsPaired
  OBVIOUS
<1>1. IInv => MountsPaired
  BY DEF IInv, TableFits, SuperFits, MountsPaired, InUse2, Umounting
<1>2. QED  BY <1>1, Invariant, PTL
=============================================================================
