------------------------------- MODULE Inodes -------------------------------
(***************************************************************************)
(* The inode table (fs/inode.c), the allocation of inodes                  *)
(* (fs/minix/bitmap.c), and mounts (fs/super.c).  Processes get and put    *)
(* inodes, change and delete them, sync the table, mount and unmount one   *)
(* device; an action ends where the code may sleep: at a lock, and in      *)
(* bread while it holds one.                                               *)
(*                                                                         *)
(* An inode on disk is a link count and a version, which stands for all    *)
(* that a process may change in it.  The root device holds File, the other *)
(* device only its root directory.                                         *)
(***************************************************************************)
EXTENDS Integers, FiniteSets, FiniteSetsExt

CONSTANTS Proc, Slot, NoSlot,  \* processes, entries of inode_table
          File, Root2, NoId,   \* inodes of the root device, the root of the other, none
          MountPoint,          \* the files that may be mounted on, the directories
          MaxVersion,          \* bound: changes to inodes in all
          Races                \* FALSE: what is used without a look is left alone, see Calm

Id == File \cup {Root2}

ASSUME InodesAssumption == /\ NoId \notin Id /\ NoSlot \notin Slot /\ MountPoint \subseteq File
                           /\ Root2 \notin File /\ MaxVersion \in Nat /\ Races \in BOOLEAN
                           /\ IsFiniteSet(Proc)

VARIABLES table,   \* Slot -> the inode in memory
          disk,    \* Id -> [nlink, ver]
          imap,    \* the inodes that are allocated
          sb,      \* the super block of the other device
          latest,  \* Id -> the version last written by a process
          job      \* Proc -> the call it is in

vars == <<table, disk, imap, sb, latest, job>>

Zero == [id |-> NoId, count |-> 0, lock |-> FALSE, dirt |-> FALSE, nlink |-> 0, ver |-> 0,
         mount |-> FALSE]

(* ref: the inode a process has open; e, s, dir: the references a call holds on the
   way, the empty inode, the one that is got or put, the directory to mount on. *)
Out == [op |-> "out", at |-> "out", id |-> NoId, e |-> NoSlot, s |-> NoSlot, dir |-> NoSlot,
        todo |-> {}]

NoSuper == [dev |-> FALSE, lock |-> FALSE, covered |-> NoSlot, mounted |-> NoSlot]

Init == /\ table = [s \in Slot |-> Zero]
        /\ disk = [i \in Id |-> [nlink |-> 1, ver |-> 0]]
        /\ imap = Id
        /\ sb = NoSuper
        /\ latest = [i \in Id |-> 0]
        /\ job = [p \in Proc |-> [now |-> Out, ref |-> NoSlot]]

Now(p) == job[p].now
At(p, l) == Now(p).at = l
Become(p, j) == job' = [job EXCEPT ![p].now = j]
Goto(p, l) == job' = [job EXCEPT ![p].now.at = l]
Unlocked(s) == ~table[s].lock
Locked(s) == [table EXCEPT ![s].lock = TRUE]

Idle(p) == At(p, "out") /\ job[p].ref = NoSlot

(* Two places rely on what they do not look at: iget on the number it was given, whose
   inode may be deleted and freed before iget gets to it; minix_free_inode on an inode
   that nobody is writing, it wipes the lock too.  With Races = FALSE nobody disturbs
   them. *)
Calm(quiet) == Races \/ quiet

(* get_super, lock_super: nobody else is at the super block. *)
SuperFree == ~sb.lock

(* A mount has found the device not mounted and sleeps in iget, an umount has found it not
   in use and sleeps in iput: neither looks again, and nothing keeps two of them apart.
   Two mounts then both set s_mounted and s_covered, two umounts put the directory twice,
   which ends in a panic of iput.  The model goes up to such an overlap and stops. *)
Past(j) == j.op = "umount" \/ (j.op = "mount" /\ j.id = Root2)
Overlapped == \E p, q \in Proc : p # q /\ Past(Now(p)) /\ Past(Now(q))

(* What a call does once iget has given it an inode, or NULL. *)
Got(p, s) ==
  IF Now(p).op = "mount"
  THEN Become(p, [Now(p) EXCEPT !.at = IF Now(p).id = Root2 THEN "mounted" ELSE "found",
                                !.e = NoSlot, !.s = s])
  ELSE job' = [job EXCEPT ![p] = [now |-> Out, ref |-> s]]

(***************************************************************************)
(* write_inode, read_inode.                                                *)
(***************************************************************************)
Saved(s) == [nlink |-> table[s].nlink, ver |-> table[s].ver]

(* lock_inode, then minix_write_inode sleeps in bread ... *)
StartWrite(p, s, l) == table' = Locked(s) /\ Goto(p, l)

(* ... and then copies the inode and unlocks it. *)
EndWrite(p, s, l) ==
  /\ disk' = IF table[s].id = NoId THEN disk ELSE [disk EXCEPT ![table[s].id] = Saved(s)]
  /\ table' = [table EXCEPT ![s].lock = FALSE, ![s].dirt = FALSE]
  /\ Goto(p, l)
  /\ UNCHANGED <<imap, sb, latest>>

(***************************************************************************)
(* get_empty_inode.                                                        *)
(***************************************************************************)
Free == {s \in Slot : table[s].count = 0}
Ready(s) == ~table[s].dirt /\ Unlocked(s)

(* memset, and a count of one: iget goes on to search, minix_new_inode to allocate. *)
Claim(p, s) ==
  /\ table' = [table EXCEPT ![s] = [Zero EXCEPT !.count = 1]]
  /\ Become(p, [Now(p) EXCEPT !.e = s, !.s = NoSlot,
                              !.at = IF Now(p).op = "new" THEN "alloc" ELSE "search"])

(* Without a free one the kernel panics.  The code would wait for one that is locked
   and write one that is dirty: FreeIsReady says that it never has to. *)
GetEmpty(p) ==
  /\ At(p, "empty")
  /\ \E s \in Free : Ready(s) /\ Claim(p, s)
  /\ UNCHANGED <<disk, imap, sb, latest>>

(***************************************************************************)
(* iget.                                                                   *)
(***************************************************************************)
Iget(p, i) == Become(p, [Now(p) EXCEPT !.at = "empty", !.id = i])

HoldersUnlocked(i) == {s \in Slot : table[s].id = i /\ Unlocked(s)}
Holders(i) == {s \in Slot : table[s].id = i}

NotGivenBack(p, s) == 0
GivenBack(p, s) == IF s = Now(p).e THEN 1 ELSE 0

(* The inode is in the table at s, unlocked: one more reference, or one to the root of
   what is mounted on it; the empty inode is given back. *)
Take(p, s) ==
  LET real == IF table[s].mount /\ sb.covered = s THEN sb.mounted ELSE s IN
  /\ table' = [t \in Slot |-> [table[t] EXCEPT !.count = @ + (IF t = real THEN 1 ELSE 0)
                                                          - GivenBack(p, t)]]
  /\ \/ /\ real # NoSlot /\ table[real].lock
        /\ Become(p, [Now(p) EXCEPT !.at = "mwait", !.e = NoSlot, !.s = real])
     \/ /\ real = NoSlot \/ ~table[real].lock
        /\ Got(p, real)

Search(p) ==
  LET j == Now(p) IN
  /\ At(p, "search")
  /\ \/ \E s \in Holders(j.id) :
          \/ Unlocked(s) /\ Take(p, s)
          \/ /\ ~Unlocked(s)
             /\ Become(p, [j EXCEPT !.at = "swait", !.s = s])
             /\ UNCHANGED table
     \/ /\ Holders(j.id) = {}  \* read_inode
        /\ table' = [table EXCEPT ![j.e].id = j.id, ![j.e].lock = TRUE]
        /\ Goto(p, "read")
  /\ UNCHANGED <<disk, imap, sb, latest>>

(* After the wait it must still be the inode that is wanted. *)
StillThere(s, i) == table[s].id = i

SearchWait(p) ==
  LET j == Now(p) IN
  /\ At(p, "swait") /\ Unlocked(j.s)
  /\ \/ StillThere(j.s, j.id) /\ Take(p, j.s)
     \/ ~StillThere(j.s, j.id) /\ Goto(p, "search") /\ UNCHANGED table
  /\ UNCHANGED <<disk, imap, sb, latest>>

MountedWait(p) ==
  /\ At(p, "mwait") /\ Unlocked(Now(p).s)
  /\ Got(p, Now(p).s)
  /\ UNCHANGED <<table, disk, imap, sb, latest>>

ReadInode(p) ==
  LET e == Now(p).e
      d == disk[Now(p).id]
  IN
  /\ At(p, "read")
  /\ table' = [table EXCEPT ![e].nlink = d.nlink, ![e].ver = d.ver, ![e].lock = FALSE]
  /\ Got(p, e)
  /\ UNCHANGED <<disk, imap, sb, latest>>

(* namei has read the number of a file that has a name. *)
Named(i) == /\ i \in imap
            /\ \/ \E s \in Holders(i) : table[s].nlink > 0
               \/ Holders(i) = {} /\ disk[i].nlink > 0

Open(p) ==
  /\ Idle(p)
  /\ \E i \in File : Named(i) /\ Become(p, [Out EXCEPT !.op = "open", !.at = "empty", !.id = i])
  /\ UNCHANGED <<table, disk, imap, sb, latest>>

(***************************************************************************)
(* minix_new_inode, and what a process does with an inode it has.          *)
(***************************************************************************)
Create(p) ==
  /\ Idle(p)
  /\ Become(p, [Out EXCEPT !.op = "new", !.at = "empty"])
  /\ UNCHANGED <<table, disk, imap, sb, latest>>

NewInode(p) ==
  LET e == Now(p).e IN
  /\ At(p, "alloc")
  /\ \/ \E i \in File \ imap :
          /\ imap' = imap \cup {i}
          /\ table' = [table EXCEPT ![e].id = i, ![e].nlink = 1, ![e].dirt = TRUE]
          /\ latest' = [latest EXCEPT ![i] = 0]
          /\ job' = [job EXCEPT ![p] = [now |-> Out, ref |-> e]]
     \/ /\ File \subseteq imap
        /\ table' = [table EXCEPT ![e].count = @ - 1]
        /\ Become(p, Out)
        /\ UNCHANGED <<imap, latest>>
  /\ UNCHANGED <<disk, sb>>

ChangedNotDirty(i) == [i EXCEPT !.ver = i.ver + 1]
Changed(i) == [i EXCEPT !.ver = i.ver + 1, !.dirt = TRUE]

Change(p) ==
  LET s == job[p].ref IN
  /\ At(p, "out") /\ s # NoSlot /\ latest[table[s].id] < MaxVersion
  /\ table' = [table EXCEPT ![s] = Changed(table[s])]
  /\ latest' = [latest EXCEPT ![table[s].id] = table'[s].ver]
  /\ UNCHANGED <<disk, imap, sb, job>>

(* The last name of a file goes; what is mounted on stays. *)
Unlink(p) ==
  LET s == job[p].ref IN
  /\ At(p, "out") /\ s # NoSlot /\ table[s].id \in File /\ table[s].nlink > 0 /\ ~table[s].mount
  /\ Calm(\A q \in Proc : Now(q).id # table[s].id)
  /\ table' = [table EXCEPT ![s].nlink = 0, ![s].dirt = TRUE]
  /\ UNCHANGED <<disk, imap, sb, latest, job>>

(***************************************************************************)
(* iput of Now(p).s; the call goes on as its op says.                      *)
(***************************************************************************)
PutDone(p, sb1) ==
  CASE Now(p).op = "close" -> job' = [job EXCEPT ![p] = [now |-> Out, ref |-> NoSlot]] /\ sb' = sb1
    [] Now(p).op = "umount" /\ sb1.covered # NoSlot  \* iput(s_covered), then of s_mounted
         -> /\ sb' = [sb1 EXCEPT !.covered = NoSlot]
            /\ Become(p, [Now(p) EXCEPT !.s = sb1.mounted, !.at = "put"])
    [] Now(p).op = "umount" /\ sb1.covered = NoSlot
         -> sb' = [sb1 EXCEPT !.mounted = NoSlot] /\ Goto(p, "put_super")
    [] OTHER -> Become(p, Out) /\ sb' = sb1

Close(p) ==
  /\ At(p, "out") /\ job[p].ref # NoSlot
  /\ Become(p, [Out EXCEPT !.op = "close", !.at = "put", !.s = job[p].ref])
  /\ UNCHANGED <<table, disk, imap, sb, latest>>

(* For a count of one iput deletes, or writes and looks once more. *)
PutOne(s) == table[s].count > 1
PutClean(s) == ~table[s].dirt

Put(p) ==
  LET s == Now(p).s IN
  /\ At(p, "put") /\ Unlocked(s)
  /\ \/ /\ PutOne(s) \/ (table[s].nlink > 0 /\ PutClean(s))
        /\ table' = [table EXCEPT ![s].count = @ - 1]
        /\ PutDone(p, sb)
     \/ /\ ~PutOne(s) /\ table[s].nlink = 0
        /\ Goto(p, "truncate")
        /\ UNCHANGED <<table, sb>>
     \/ /\ ~PutOne(s) /\ table[s].nlink > 0 /\ ~PutClean(s)
        /\ StartWrite(p, s, "pwrite")
        /\ UNCHANGED sb
  /\ UNCHANGED <<disk, imap, latest>>

PutWrite(p) == At(p, "pwrite") /\ EndWrite(p, Now(p).s, "put")

(* minix_truncate has slept, minix_free_inode: the count is not taken back if somebody
   else has it now. *)
FreeInode(p) ==
  LET s == Now(p).s IN
  /\ At(p, "truncate") /\ Calm(Unlocked(s))
  /\ IF table[s].count > 1 THEN UNCHANGED <<table, imap>>
     ELSE /\ imap' = imap \ {table[s].id}
          /\ table' = [table EXCEPT ![s] = Zero]
  /\ PutDone(p, sb)
  /\ UNCHANGED <<disk, latest>>

(***************************************************************************)
(* sync_inodes.                                                            *)
(***************************************************************************)
Sync(p) ==
  /\ Idle(p)
  /\ Become(p, [Out EXCEPT !.op = "sync", !.at = "sync", !.todo = Slot])
  /\ UNCHANGED <<table, disk, imap, sb, latest>>

SyncOne(p) ==
  LET j == Now(p) IN
  /\ At(p, "sync")
  /\ \/ \E s \in j.todo :
          /\ Unlocked(s)
          /\ \/ /\ table[s].dirt
                /\ table' = Locked(s)
                /\ Become(p, [j EXCEPT !.at = "sync_write", !.s = s, !.todo = j.todo \ {s}])
             \/ /\ ~table[s].dirt
                /\ Become(p, [j EXCEPT !.todo = j.todo \ {s}])
                /\ UNCHANGED table
     \/ j.todo = {} /\ Become(p, Out) /\ UNCHANGED table
  /\ UNCHANGED <<disk, imap, sb, latest>>

SyncWrite(p) == At(p, "sync_write") /\ EndWrite(p, Now(p).s, "sync")

(***************************************************************************)
(* sys_mount, sys_umount.                                                  *)
(***************************************************************************)
Mount(p) ==
  /\ Idle(p)
  /\ \E i \in MountPoint :
       Named(i) /\ Become(p, [Out EXCEPT !.op = "mount", !.at = "empty", !.id = i])
  /\ UNCHANGED <<table, disk, imap, sb, latest>>

(* A mount that has been refused puts the directory, s. *)
Refuse(p, s) == Become(p, [Now(p) EXCEPT !.at = "put", !.s = s])

(* namei has given the directory, or the root of what is already mounted there. *)
Busy(s) == table[s].count # 1 \/ table[s].id = Root2

MountFound(p) ==
  LET s == Now(p).s IN
  /\ At(p, "found")
  /\ \/ s # NoSlot /\ Busy(s) /\ Refuse(p, s)
     \/ /\ s # NoSlot /\ ~Busy(s)
        /\ Become(p, [Now(p) EXCEPT !.at = "super", !.dir = s, !.s = NoSlot])
  /\ UNCHANGED <<table, disk, imap, sb, latest>>

(* read_super: the super block there is, or a new one that is locked and read. *)
ReadSuper(p) ==
  LET dir == Now(p).dir IN
  /\ At(p, "super") /\ SuperFree
  /\ \/ /\ sb.dev
        /\ IF sb.covered # NoSlot \/ table[dir].mount THEN Refuse(p, dir) ELSE Iget(p, Root2)
        /\ UNCHANGED sb
     \/ /\ ~sb.dev
        /\ sb' = [NoSuper EXCEPT !.dev = TRUE, !.lock = TRUE]
        /\ Goto(p, "read_super")
  /\ UNCHANGED <<table, disk, imap, latest>>

(* The blocks are read, or one cannot be, or it is no minix file system. *)
SuperRead(p) ==
  LET dir == Now(p).dir IN
  /\ At(p, "read_super")
  /\ \/ /\ sb' = [sb EXCEPT !.lock = FALSE]
        /\ IF table[dir].mount THEN Refuse(p, dir) ELSE Iget(p, Root2)
     \/ sb' = NoSuper /\ Refuse(p, dir)
  /\ UNCHANGED <<table, disk, imap, latest>>

Mounted(p) ==
  LET j == Now(p) IN
  /\ At(p, "mounted")
  /\ sb' = [sb EXCEPT !.mounted = j.s, !.covered = j.dir]
  /\ table' = [table EXCEPT ![j.dir].mount = TRUE, ![j.dir].dirt = TRUE]
  /\ Become(p, Out)
  /\ UNCHANGED <<disk, imap, latest>>

(* Nobody else may have an inode of the device. *)
InUseForgotten == FALSE
InUse == \E s \in Slot : /\ table[s].id = Root2 /\ table[s].count > 0
                         /\ ~(s = sb.mounted /\ table[s].count = 1)

Umount(p) ==
  /\ Idle(p) /\ sb.dev /\ SuperFree /\ sb.covered # NoSlot /\ ~InUse
  /\ table' = [table EXCEPT ![sb.covered].mount = FALSE]
  /\ Become(p, [Out EXCEPT !.op = "umount", !.at = "put", !.s = sb.covered])
  /\ UNCHANGED <<disk, imap, sb, latest>>

PutSuper(p) ==
  /\ At(p, "put_super") /\ SuperFree
  /\ sb' = IF sb.covered # NoSlot THEN sb ELSE NoSuper
  /\ Become(p, Out)
  /\ UNCHANGED <<table, disk, imap, latest>>

Next == /\ ~Overlapped
        /\ \E p \in Proc :
             \/ Open(p) \/ Create(p) \/ Change(p) \/ Unlink(p) \/ Close(p) \/ Sync(p)
             \/ Mount(p) \/ Umount(p)
             \/ GetEmpty(p) \/ Search(p) \/ SearchWait(p)
             \/ MountedWait(p) \/ ReadInode(p) \/ NewInode(p) \/ Put(p) \/ PutWrite(p)
             \/ FreeInode(p) \/ SyncOne(p) \/ SyncWrite(p) \/ MountFound(p) \/ ReadSuper(p)
             \/ SuperRead(p) \/ Mounted(p) \/ PutSuper(p)

Spec == Init /\ [][Next]_vars

-----------------------------------------------------------------------------
(* What follows is said up to the first overlap of two calls that are past the tests of
   mount and umount, see Overlapped. *)

(* Nothing is twice in the table: a second copy would be changed and written on its
   own, whatever sleeps between the search of iget and the place it takes. *)
OneCopy == \A s, t \in Slot : table[s].id = table[t].id /\ table[s].id # NoId => s = t

(* i_count is the number of those who have the inode: open files, calls under way, a
   mount.  One too many and the entry is lost for ever, one too few and it is given to
   somebody else.  What a call has in s it holds from iget on and, when a mount is refused
   that has not come to dir, up to the end of iput. *)
RefFields == {"ref", "e", "s", "dir"}
HeldBy(j) == [ref |-> j.ref, e |-> j.now.e, dir |-> j.now.dir,
              s |-> IF \/ j.now.at \in {"found", "mounted", "mwait"}
                       \/ /\ j.now.at \in {"put", "pwrite", "truncate"}
                          /\ j.now.op = "mount" /\ j.now.dir # j.now.s
                    THEN j.now.s ELSE NoSlot]
Held(s) == {h \in Proc \X RefFields : HeldBy(job[h[1]])[h[2]] = s}
CountIsReferences ==
  \A s \in Slot :
    table[s].count = Cardinality(Held(s)) + (IF sb.covered = s THEN 1 ELSE 0)
                                          + (IF sb.mounted = s THEN 1 ELSE 0)

(* No change is lost: what is in memory, once it has been read, is what was last
   written to it, and so is the disk when it is not in memory or is clean there. *)
NothingLost ==
  \A i \in imap :
    /\ \A s \in Holders(i) : /\ Unlocked(s) => table[s].ver = latest[i]
                             /\ Unlocked(s) /\ ~table[s].dirt => disk[i].ver = latest[i]
    /\ Holders(i) = {} => disk[i].ver = latest[i]

(* A mounted device covers a directory that knows it, and has a root: nobody gets the
   directory under it, nobody is left without an inode; and the device stays as long as
   an inode of it is in use.  On whatever directories it is mounted at the same time,
   until two mounts, two umounts or one of each have passed their tests together: from
   there on the code does not keep it, and the model stops. *)
MountsPaired ==
  /\ \A s \in Slot : table[s].mount => sb.covered = s
  /\ sb.covered # NoSlot => /\ sb.mounted # NoSlot /\ table[sb.mounted].id = Root2
                            /\ \/ table[sb.covered].mount
                               \/ \E p \in Proc : Now(p).op = "umount"
  /\ (\E s \in Slot : table[s].id = Root2 /\ table[s].count > 0) => sb.dev

(***************************************************************************)
(* Why: the inductive invariant of the proofs, for Races = FALSE.          *)
(***************************************************************************)
SlotOrNone == Slot \cup {NoSlot}
Inode == [id : Id \cup {NoId}, count : Int, lock : BOOLEAN, dirt : BOOLEAN, nlink : {0, 1},
          ver : Nat, mount : BOOLEAN]
OnDisk == [nlink : {0, 1}, ver : Nat]
Super == [dev : BOOLEAN, lock : BOOLEAN, covered : SlotOrNone, mounted : SlotOrNone]
Ops == {"out", "open", "new", "close", "sync", "mount", "umount"}
Locations == {"out", "empty", "search", "swait", "read", "alloc", "mwait", "found", "super",
              "read_super", "mounted", "put", "pwrite", "truncate", "sync", "sync_write",
              "put_super"}
Call == [op : Ops, at : Locations, id : Id \cup {NoId}, e : SlotOrNone, s : SlotOrNone,
         dir : SlotOrNone, todo : SUBSET Slot]
Job == [now : Call, ref : SlotOrNone]
TypeOK == /\ table \in [Slot -> Inode] /\ disk \in [Id -> OnDisk] /\ imap \subseteq Id
          /\ sb \in Super /\ latest \in [Id -> Nat] /\ job \in [Proc -> Job]

(* Where a call is says what it is and what it holds. *)
Seeking == {"empty", "search", "swait", "read"}
Putting == {"put", "pwrite", "truncate"}
OpFits(j) ==
  /\ j.op = "out" => j = Out
  /\ j.op = "open" => j.at \in Seeking \cup {"mwait"} /\ j.id \in File
  /\ j.op = "new" => j.at \in {"empty", "alloc"} /\ j.id = NoId
  /\ j.op = "close" => j.at \in Putting /\ j.id = NoId
  /\ j.op = "sync" => j.at \in {"sync", "sync_write"} /\ j.id = NoId
  /\ j.op = "umount" => j.at \in Putting \cup {"put_super"} /\ j.id = NoId
  /\ j.op = "mount" =>
       \/ j.id \in MountPoint /\ j.at \in Seeking \cup Putting \cup {"mwait", "found", "super", "read_super"}
       \/ j.id = Root2 /\ j.at \in Seeking \cup {"mounted"}
HoldsFit(j) ==
  /\ j.e # NoSlot <=> j.at \in {"search", "swait", "read", "alloc"}
  /\ j.at \in {"swait", "mwait", "found", "mounted", "sync_write"} \cup Putting => j.s # NoSlot
  /\ j.dir # NoSlot <=> /\ j.op = "mount"
                        /\ \/ j.id = Root2 \/ j.at \in {"super", "read_super"}
                           \/ j.at \in Putting /\ j.dir = j.s
JobFits(j) == /\ OpFits(j.now) /\ HoldsFit(j.now)
              /\ j.ref # NoSlot => j.now.op \in {"out", "close"}
              /\ j.now.op = "close" => j.ref = j.now.s
JobsFit == \A p \in Proc : JobFits(job[p])

(* Who locks what, and who is reading it in. *)
Locker(j) == IF j.at = "read" THEN j.e ELSE IF j.at \in {"pwrite", "sync_write"} THEN j.s ELSE NoSlot
Locks == /\ \A s \in Slot : table[s].lock <=> \E p \in Proc : Locker(Now(p)) = s
         /\ \A p, q \in Proc : Locker(Now(p)) = Locker(Now(q)) /\ Locker(Now(p)) # NoSlot => p = q
Reader(j) == IF j.at = "read" THEN j.e ELSE NoSlot
BeingRead(s) == \E p \in Proc : Reader(Now(p)) = s

(* The entry that iget or minix_new_inode has claimed is nobody else's. *)
Claimed == [Zero EXCEPT !.count = 1]
EmptyFits(j) == /\ j.at \in {"search", "swait", "alloc"} => table[j.e] = Claimed
                /\ j.at = "read" => table[j.e] = [Claimed EXCEPT !.id = j.id, !.lock = TRUE]

(* An entry without references may be used at once, what is locked or dirty is an inode. *)
FreeIsReady == \A s \in Free : Ready(s)
EntriesFit == \A s \in Slot : /\ table[s].lock \/ table[s].dirt => table[s].id # NoId
                              /\ table[s].id # NoId => table[s].id \in imap

(* What a call has hold of is the inode it should be. *)
RightInode(j) ==
  /\ j.ref # NoSlot => table[j.ref].id # NoId
  /\ j.now.at \in {"mwait", "mounted"} => table[j.now.s].id = Root2
  /\ j.now.at = "found" => table[j.now.s].id \in MountPoint \cup {Root2}
  /\ j.now.dir # NoSlot => table[j.now.dir].id \in MountPoint
  /\ j.now.at \in Putting => table[j.now.s].id # NoId
  /\ j.now.at = "truncate" => table[j.now.s].nlink = 0 /\ table[j.now.s].count = 1

(* The inode as it is now: in memory, or on disk when it is not there or not yet read.  One
   that is looked for has a name. *)
InMemory(i) == {s \in Holders(i) : ~BeingRead(s)}
Current(i) == IF InMemory(i) = {} THEN {disk[i]} ELSE {Saved(s) : s \in InMemory(i)}
HasName(i) == i \in imap /\ \A c \in Current(i) : c.nlink > 0
Sought(j) == j.at \in Seeking /\ j.id # NoId
Kept == /\ \A i \in imap : \A c \in Current(i) : c.ver = latest[i]
        /\ \A s \in Slot : table[s].id # NoId /\ Unlocked(s) /\ ~table[s].dirt
                           => disk[table[s].id] = Saved(s)

(* Mounts: one call reads the super block, and as long as no two are past their tests what
   a call has found there stays. *)
InUse2(s) == table[s].id = Root2 /\ table[s].count > 0
Umounting == \E p \in Proc : Now(p).op = "umount"
OneReads == \A p, q \in Proc : At(p, "read_super") /\ At(q, "read_super") => p = q
SuperFits ==
  /\ \A s \in Slot : /\ table[s].mount => sb.covered = s
                     /\ InUse2(s) => sb.dev /\ ~sb.lock
  /\ sb.covered # NoSlot => /\ table[sb.covered].id \in MountPoint /\ sb.mounted # NoSlot
                            /\ table[sb.covered].mount \/ Umounting
  /\ sb.mounted # NoSlot => /\ table[sb.mounted].id = Root2
                            /\ sb.covered # NoSlot \/ Umounting
MountFits(j) ==
  /\ j.at = "read_super" => sb.dev /\ sb.lock /\ sb.covered = NoSlot /\ sb.mounted = NoSlot
  /\ j.id = Root2 => sb.dev /\ ~sb.lock /\ sb.covered = NoSlot /\ sb.mounted = NoSlot
  /\ j.op = "umount" =>
       /\ sb.dev /\ ~sb.lock
       /\ \A s \in Slot : ~table[s].mount /\ (InUse2(s) => s = sb.mounted /\ table[s].count = 1)
       /\ j.at \in Putting => j.s = IF sb.covered # NoSlot THEN sb.covered ELSE sb.mounted
       /\ j.at = "put_super" => sb.covered = NoSlot /\ sb.mounted = NoSlot

MountsFit == OneReads /\ \A p \in Proc : MountFits(Now(p))

CallsFit ==
  \A p \in Proc : /\ EmptyFits(Now(p)) /\ RightInode(job[p])
                  /\ Sought(Now(p)) => HasName(Now(p).id)

TableFits == /\ TypeOK /\ JobsFit /\ CountIsReferences /\ OneCopy /\ Locks
             /\ FreeIsReady /\ EntriesFit /\ Kept /\ SuperFits /\ HasName(Root2) /\ CallsFit

IInv == TableFits /\ (~Overlapped => MountsFit)
=============================================================================
