------------------------------- MODULE Names --------------------------------
(***************************************************************************)
(* fs/namei.c and fs/minix/namei.c: path names, directories and link       *)
(* counts.  open, mknod, mkdir, symlink, link, unlink, rmdir and rename    *)
(* run on behalf of several processes; an action ends where the code may   *)
(* sleep: it reads a directory block, gets an inode, allocates one.        *)
(*                                                                         *)
(* Inodes are known by number; count, kind and nlink are those of the      *)
(* inode in memory (module Inodes is about how it gets there).  Everybody  *)
(* is the superuser; what is left of permission() is that nobody may use a *)
(* directory that has been deleted.  Directories are of one block, files   *)
(* of none: for want of a block minix_add_entry refuses to put an entry    *)
(* into a file, which is all that keeps "file/name" from being made.       *)
(***************************************************************************)
EXTENDS Integers, Sequences, FiniteSets, FiniteSetsExt, Functions

CONSTANTS Proc, NoProc,
          NR_INODES,   \* inodes of the device, 1 .. NR_INODES
          Name,
          DIR_ENTRIES, \* entries of a directory after "." and ".."
          Path,        \* the directories calls name, sequences over Name and ".."
          LinkPath,    \* what symbolic links are made to contain
          MAX_LINKS,   \* the code's 5, the links followed one inside another
          Op,          \* the calls that are made
          MaxCalls,    \* bound: calls in all
          Trees,       \* what there may be at first: sequences of [kind, dir, name, target],
                       \* where inode n + 1 is the n-th of them and comes after its directory
          Races        \* FALSE: no entry goes while another call relies on it

NULL == 0
ROOT == 1
Ino == 1..NR_INODES
Slot == 1..DIR_ENTRIES
EndOfLink == "end of link"
Component == Name \cup {"..", EndOfLink}

(* Trees are of directories, files and links, each in a directory that comes before it. *)
Planted == [kind : {"file", "dir", "link"}, dir : Ino, name : Name, target : Seq(Component)]

ASSUME NamesAssumption ==
  /\ NR_INODES \in Nat \ {0} /\ DIR_ENTRIES \in Nat \ {0}
  /\ NoProc \notin Proc /\ IsFiniteSet(Proc)
  /\ MaxCalls \in Nat /\ MAX_LINKS \in Nat /\ Races \in BOOLEAN
  /\ Op \subseteq {"open", "creat", "mknod", "mkdir", "symlink", "link", "unlink", "rmdir", "rename",
                   "readlink"}

ASSUME PathsAssumption ==
  /\ Path \subseteq Seq(Component) /\ LinkPath \subseteq Seq(Component)
  /\ \A t \in Trees : /\ t \in Seq(Planted) /\ Len(t) < NR_INODES
                       /\ \A n \in 1..Len(t) : t[n].dir <= n

(* They are in directories, which have room for them. *)
ASSUME TreesAssumption ==
  \A t \in Trees : \A n \in 1..Len(t) :
    /\ t[n].dir = ROOT \/ t[t[n].dir - 1].kind = "dir"
    /\ Cardinality({m \in 1..Len(t) : t[m].dir = t[n].dir}) <= DIR_ENTRIES

VARIABLES kind,     \* Ino -> "free", "file", "dir" or "link"
          nlink, count,
          entry,    \* Ino -> Slot -> [name, ino], ino = NULL: unused
          parent,   \* Ino -> the inode of ".."
          target,   \* Ino -> the path in a symbolic link
          job, open,  \* Proc -> the call it is in, the file it has open
          lock,     \* who is in minix_rename
          calls,
          overdir   \* not in the code: has a file been renamed over a directory?

fs == <<kind, nlink, entry, parent, target>>
vars == <<fs, count, job, open, lock, calls, overdir>>

(* dir, dir2, inode, inode2 and up are references the call holds.  goal: which of
   them the walk along path is for; then: the walk after that. *)
Out == [op |-> "out", at |-> "out", goal |-> "", path |-> <<>>, depth |-> 0, then |-> <<>>,
        dir |-> NULL, dir2 |-> NULL, inode |-> NULL, inode2 |-> NULL, up |-> NULL,
        name |-> "", name2 |-> "", slot |-> NULL, slot2 |-> NULL, ino |-> NULL]
RefFields == {"dir", "dir2", "inode", "inode2", "up"}

NoEntry == [name |-> "", ino |-> NULL]
EmptyDir == [s \in Slot |-> NoEntry]

(* A tree t, nobody at work; the n-th inode made in a directory has the n-th slot. *)
Init ==
  /\ \E t \in Trees :
       LET In(i) == {n \in DOMAIN t : t[n].dir = i}
           Nth(i, s) == {n \in In(i) : Cardinality({m \in In(i) : m <= n}) = s}
           Of(i) == IF i - 1 \in DOMAIN t THEN t[i - 1].kind ELSE IF i = ROOT THEN "dir" ELSE "free"
       IN
       /\ kind = [i \in Ino |-> Of(i)]
       /\ nlink = [i \in Ino |-> CASE Of(i) = "dir" -> 2 + Cardinality({n \in In(i) : t[n].kind = "dir"})
                                    [] Of(i) = "free" -> 0
                                    [] OTHER -> 1]
       /\ entry = [i \in Ino |-> [s \in Slot |-> IF Nth(i, s) = {} THEN NoEntry
                    ELSE LET n == Min(Nth(i, s)) IN [name |-> t[n].name, ino |-> n + 1]]]
       /\ parent = [i \in Ino |-> IF i - 1 \in DOMAIN t THEN t[i - 1].dir ELSE ROOT]
       /\ target = [i \in Ino |-> IF i - 1 \in DOMAIN t THEN t[i - 1].target ELSE <<>>]
  /\ count = [i \in Ino |-> IF i = ROOT THEN 1 ELSE 0]
  /\ job = [p \in Proc |-> Out] /\ open = [p \in Proc |-> NULL]
  /\ lock = NoProc /\ calls = 0 /\ overdir = FALSE

(***************************************************************************)
(* References.                                                             *)
(***************************************************************************)
(* iput of the references F of the call, count being c and links n; an inode
   without references and links is freed. *)
PutOneTooFew(c, j, F) == [i \in Ino |-> IF \E f \in F : j[f] = i THEN c[i] - 1 ELSE c[i]]
Put(c, j, F) == [i \in Ino |-> c[i] - Cardinality({f \in F : j[f] = i})]
Freed(c, n, k) == [i \in Ino |-> IF c[i] = 0 /\ n[i] = 0 THEN "free" ELSE k[i]]

Iget(i) == [count EXCEPT ![i] = @ + 1]

(* The call of p ends, with links n and kinds k: it puts all it holds. *)
Return(p, n, k) ==
  /\ count' = Put(count, job[p], RefFields)
  /\ nlink' = n
  /\ kind' = Freed(count', n, k)
  /\ job' = [job EXCEPT ![p] = Out]
  /\ lock' = IF lock = p THEN NoProc ELSE lock

Fail(p) == Return(p, nlink, kind) /\ UNCHANGED <<entry, parent, target, open, calls, overdir>>

(* A new inode that did not get a name goes with the call. *)
FailNew(p) == /\ Return(p, [nlink EXCEPT ![job[p].inode] = 0], kind)
              /\ UNCHANGED <<entry, parent, target, open, calls, overdir>>

Goto(p, l) == job' = [job EXCEPT ![p].at = l]

At(p, l) == job[p].at = l

(* Between reading an entry and getting its inode, in unlink and rmdir up to the end,
   and in link before the new name is counted, a call relies on the entry and does
   not look at it again: the entry, and with it the inode, may be gone.  With
   Races = FALSE nobody removes one then. *)
Relying == {"iget", "opened", "old_iget", "new_iget", "remove", "rmdir", "linked"}
Quiet(p, ats) == Races \/ \A q \in Proc \ {p} : job[q].at \notin ats

(***************************************************************************)
(* dir_namei, lookup, follow_link: one component after the other.          *)
(***************************************************************************)
Find(d, name) == {s \in Slot : entry[d][s].ino # NULL /\ entry[d][s].name = name}

(* permission() *)
MayUse(d) == nlink[d] > 0

(* minix_lookup: the inode of the first such entry, if d is a directory and has one. *)
InodeNamed(d, name) ==
  IF kind[d] # "dir" THEN {}
  ELSE {entry[d][s].ino : s \in {Min(Find(d, name)) : x \in Find(d, name)}}

(* lookup; ".." of the root is the root. *)
LookUp(d, name) == IF ~MayUse(d) THEN {}
                   ELSE IF name = ".." /\ kind[d] = "dir" THEN {parent[d]}
                   ELSE InodeNamed(d, name)

Start(p, op, path, name, path2, name2) ==
  /\ job[p] = Out /\ calls < MaxCalls /\ (op \in {"open", "creat"} => open[p] = NULL)
  /\ calls' = calls + 1
  /\ count' = Iget(ROOT)
  /\ job' = [job EXCEPT ![p] =
       [Out EXCEPT !.op = op, !.at = "walk", !.name = name, !.name2 = name2, !.dir = ROOT,
          !.path = IF op = "link" THEN Append(path, name) ELSE path,
          !.goal = IF op = "link" THEN "inode" ELSE "dir", !.then = path2]]
  /\ UNCHANGED <<fs, open, lock, overdir>>

(* The next component is looked up in job.dir. *)
Walk(p) ==
  LET j == job[p]
      d == j.dir
      found == LookUp(d, Head(j.path))
  IN
  /\ At(p, "walk") /\ j.path # <<>>
  /\ \/ /\ Head(j.path) = EndOfLink
        /\ job' = [job EXCEPT ![p].path = Tail(@), ![p].depth = @ - 1]
        /\ UNCHANGED <<fs, count, open, lock, calls, overdir>>
     \/ /\ Head(j.path) # EndOfLink /\ found # {}
        /\ \E i \in found : job' = [job EXCEPT ![p].at = "iget", ![p].ino = i]
        /\ UNCHANGED <<fs, count, open, lock, calls, overdir>>
     \/ /\ Head(j.path) # EndOfLink /\ found = {}
        /\ Fail(p)

(* iget of the component: the walk goes on from it, or along the link it is. *)
WalkIget(p) ==
  LET j == job[p]
      i == j.ino
  IN
  /\ At(p, "iget")
  /\ \/ /\ kind[i] # "link"
        /\ count' = Put(Iget(i), j, {"dir"})
        /\ kind' = Freed(count', nlink, kind)
        /\ job' = [job EXCEPT ![p] = [j EXCEPT !.at = "walk", !.dir = i, !.path = Tail(j.path), !.ino = NULL]]
        /\ UNCHANGED <<lock, nlink>>
     \/ /\ kind[i] = "link" /\ j.depth <= MAX_LINKS
        /\ job' = [job EXCEPT ![p] = [j EXCEPT !.at = "walk", !.ino = NULL, !.depth = j.depth + 1,
                                        !.path = target[i] \o <<EndOfLink>> \o Tail(j.path)]]
        /\ UNCHANGED <<count, kind, lock, nlink>>
     \/ /\ kind[i] = "link" /\ j.depth > MAX_LINKS
        /\ Return(p, nlink, kind)
  /\ UNCHANGED <<entry, parent, target, open, calls, overdir>>

(* The directory is there: each call goes on in its own order of steps, after it has
   asked for the permission; open and readlink do that later. *)
FirstStep == [open |-> "lookup", creat |-> "lookup", readlink |-> "lookup", mknod |-> "find",
              mkdir |-> "find", symlink |-> "new", link |-> "find", unlink |-> "entry",
              rmdir |-> "entry"]

Refused(j) == j.op \notin {"open", "creat", "readlink"} /\ ~MayUse(j.dir)

Walked(p) ==
  LET j == job[p] IN
  /\ At(p, "walk") /\ j.path = <<>> /\ j.goal = "dir" /\ j.op \notin {"link", "rename"}
  /\ IF Refused(j) THEN Fail(p)
     ELSE Goto(p, FirstStep[j.op]) /\ UNCHANGED <<fs, count, open, lock, calls, overdir>>

(* sys_link, minix_link: first the inode, then the directory for the new name. *)
WalkedLink(p) ==
  LET j == job[p] IN
  /\ At(p, "walk") /\ j.path = <<>> /\ j.op = "link"
  /\ \/ /\ j.goal = "inode"
        /\ count' = Iget(ROOT)
        /\ job' = [job EXCEPT ![p] = [j EXCEPT !.inode = j.dir, !.dir = ROOT, !.path = j.then,
                                        !.goal = "dir", !.name = j.name2]]
        /\ UNCHANGED <<fs, open, lock, calls, overdir>>
     \/ /\ j.goal = "dir" /\ ~Refused(j) /\ kind[j.inode] # "dir"
        /\ Goto(p, FirstStep[j.op])
        /\ UNCHANGED <<fs, count, open, lock, calls, overdir>>
     \/ /\ j.goal = "dir" /\ (Refused(j) \/ kind[j.inode] = "dir")
        /\ Fail(p)

(* sys_rename: the directory of the old name, kept in dir2 for a while, then that of
   the new one. *)
WalkedRename(p) ==
  LET j == job[p] IN
  /\ At(p, "walk") /\ j.path = <<>> /\ j.op = "rename"
  /\ IF Refused(j) THEN Fail(p)
     ELSE \/ /\ j.goal = "dir"
             /\ count' = Iget(ROOT)
             /\ job' = [job EXCEPT ![p] = [j EXCEPT !.dir2 = j.dir, !.dir = ROOT, !.path = j.then,
                                             !.goal = "dir2"]]
             /\ UNCHANGED <<fs, open, lock, calls, overdir>>
          \/ /\ j.goal = "dir2"
             /\ job' = [job EXCEPT ![p] = [j EXCEPT !.dir = j.dir2, !.dir2 = j.dir, !.at = "lock"]]
             /\ UNCHANGED <<fs, count, open, lock, calls, overdir>>

(***************************************************************************)
(* open_namei.                                                             *)
(***************************************************************************)
OpenLookup(p) ==
  LET j == job[p]
      found == LookUp(j.dir, j.name)
  IN
  /\ At(p, "lookup")
  /\ \/ /\ found # {}
        /\ \E i \in found : job' = [job EXCEPT ![p].at = "opened", ![p].ino = i]
        /\ UNCHANGED <<fs, count, open, lock, calls, overdir>>
     \/ /\ found = {} /\ j.op = "creat" /\ MayUse(j.dir)
        /\ Goto(p, "new")
        /\ UNCHANGED <<fs, count, open, lock, calls, overdir>>
     \/ /\ found = {} /\ (j.op # "creat" \/ ~MayUse(j.dir))
        /\ Fail(p)

(* iget of what was found; a link is followed from the directory on.  creat may have
   been asked for a new file only. *)
OpenIget(p) ==
  LET j == job[p]
      i == j.ino
  IN
  /\ At(p, "opened") /\ j.op # "readlink"
  /\ \/ /\ j.op = "creat" \/ (kind[i] = "link" /\ j.depth > MAX_LINKS)
        /\ Return(p, nlink, kind)
     \/ /\ kind[i] # "link"
        /\ count' = Put(Iget(i), j, {"dir"})
        /\ kind' = Freed(count', nlink, kind)
        /\ job' = [job EXCEPT ![p] = [j EXCEPT !.at = "walk", !.goal = "file", !.dir = i]]
        /\ UNCHANGED <<lock, nlink>>
     \/ /\ kind[i] = "link" /\ j.depth <= MAX_LINKS
        /\ job' = [job EXCEPT ![p] = [j EXCEPT !.at = "walk", !.goal = "file", !.depth = j.depth + 1,
                                        !.path = target[i] \o <<EndOfLink>>]]
        /\ UNCHANGED <<count, kind, lock, nlink>>
  /\ UNCHANGED <<entry, parent, target, open, calls, overdir>>

(* What was named is there: open it, unless it is deleted or a directory to write. *)
OpenDone(p) ==
  LET j == job[p]
      refused == ~MayUse(j.dir) \/ (j.op = "creat" /\ kind[j.dir] = "dir")
  IN
  /\ At(p, "walk") /\ j.path = <<>> /\ j.goal = "file"
  /\ \/ /\ ~refused
        /\ open' = [open EXCEPT ![p] = j.dir]
        /\ job' = [job EXCEPT ![p] = Out]
        /\ UNCHANGED <<fs, count, lock, calls, overdir>>
     \/ refused /\ Fail(p)

(* sys_readlink, minix_readlink: iget of the last component as it is, and its iput. *)
Readlink(p) ==
  /\ At(p, "opened") /\ job[p].op = "readlink"
  /\ Fail(p)

Close(p) ==
  /\ open[p] # NULL /\ job[p] = Out
  /\ count' = [count EXCEPT ![open[p]] = @ - 1]
  /\ kind' = Freed(count', nlink, kind)
  /\ open' = [open EXCEPT ![p] = NULL]
  /\ UNCHANGED <<nlink, entry, parent, target, job, lock, calls, overdir>>

(***************************************************************************)
(* The calls that make an entry.                                           *)
(***************************************************************************)
(* minix_find_entry says that the name is not there yet. *)
FindNone(p) ==
  LET j == job[p] IN
  /\ At(p, "find")
  /\ \/ /\ Find(j.dir, j.name) = {}
        /\ Goto(p, IF j.op \in {"link", "symlink"} THEN "add" ELSE "new")
        /\ UNCHANGED <<fs, count, open, lock, calls, overdir>>
     \/ /\ Find(j.dir, j.name) # {} /\ j.op # "symlink"
        /\ Fail(p)
     \/ /\ Find(j.dir, j.name) # {} /\ j.op = "symlink"
        /\ FailNew(p)

KindOf(op) == CASE op = "mkdir" -> "dir" [] op = "symlink" -> "link" [] OTHER -> "file"

(* minix_new_inode *)
NewInode(p) ==
  LET j == job[p]
      free == {i \in Ino : kind[i] = "free"}
      i == Min(free)
  IN
  /\ At(p, "new")
  /\ \/ /\ free # {}
        /\ kind' = [kind EXCEPT ![i] = KindOf(j.op)]
        /\ nlink' = [nlink EXCEPT ![i] = 1]
        /\ count' = Iget(i)
        /\ job' = [job EXCEPT ![p].inode = i,
                              ![p].at = IF j.op \in {"mkdir", "symlink"} THEN "block" ELSE "add"]
        /\ UNCHANGED <<entry, parent, target, open, lock, calls, overdir>>
     \/ /\ free = {}
        /\ Fail(p)

(* mkdir: the block with "." and "..", if there is one. *)
MkdirBlock(p) ==
  LET j == job[p]
      i == j.inode
  IN
  /\ At(p, "block") /\ j.op = "mkdir"
  /\ \/ /\ entry' = [entry EXCEPT ![i] = EmptyDir]
        /\ parent' = [parent EXCEPT ![i] = j.dir]
        /\ nlink' = [nlink EXCEPT ![i] = 2]
        /\ Goto(p, "add")
        /\ UNCHANGED <<kind, target, count, open, lock, calls, overdir>>
     \/ FailNew(p)

(* symlink: the block with the name, if there is one. *)
SymlinkBlock(p) ==
  /\ At(p, "block") /\ job[p].op = "symlink"
  /\ \/ /\ target' = [target EXCEPT ![job[p].inode] = job[p].then]
        /\ Goto(p, "find")
        /\ UNCHANGED <<kind, nlink, entry, parent, count, open, lock, calls, overdir>>
     \/ FailNew(p)

Unused(d) == {s \in Slot : kind[d] = "dir" /\ entry[d][s].ino = NULL}

(* minix_add_entry takes the first entry that is not in use; the callers put the inode
   number there at once. *)
Added(d, name, i) == [entry EXCEPT ![d][Min(Unused(d))] = [name |-> name, ino |-> i]]
CanAdd(p) == At(p, "add") /\ Unused(job[p].dir) # {}

AddFails(p) ==
  /\ At(p, "add") /\ Unused(job[p].dir) = {}
  /\ \/ job[p].op = "link" /\ Fail(p)
     \/ job[p].op # "link" /\ FailNew(p)

Mknod(p) ==
  LET j == job[p] IN
  /\ CanAdd(p) /\ j.op \in {"mknod", "symlink"}
  /\ entry' = Added(j.dir, j.name, j.inode)
  /\ Return(p, nlink, kind)
  /\ UNCHANGED <<parent, target, open, calls, overdir>>

LinksOfMkdir(d) == [nlink EXCEPT ![d] = @ + 1]

Mkdir(p) ==
  LET j == job[p] IN
  /\ CanAdd(p) /\ j.op = "mkdir"
  /\ entry' = Added(j.dir, j.name, j.inode)
  /\ Return(p, LinksOfMkdir(j.dir), kind)
  /\ UNCHANGED <<parent, target, open, calls, overdir>>

Create(p) ==
  LET j == job[p] IN
  /\ CanAdd(p) /\ j.op = "creat"
  /\ entry' = Added(j.dir, j.name, j.inode)
  /\ count' = Put(count, j, {"dir"})
  /\ kind' = Freed(count', nlink, kind)
  /\ open' = [open EXCEPT ![p] = j.inode]
  /\ job' = [job EXCEPT ![p] = Out]
  /\ UNCHANGED <<nlink, parent, target, lock, calls, overdir>>

(* link counts the new name only after an iput that may sleep. *)
Link(p) ==
  LET j == job[p] IN
  /\ CanAdd(p) /\ j.op = "link"
  /\ entry' = Added(j.dir, j.name, j.inode)
  /\ count' = Put(count, j, {"dir"})
  /\ kind' = Freed(count', nlink, kind)
  /\ job' = [job EXCEPT ![p].at = "linked", ![p].dir = NULL]
  /\ UNCHANGED <<nlink, parent, target, open, lock, calls, overdir>>

Linked(p) ==
  /\ At(p, "linked")
  /\ Return(p, [nlink EXCEPT ![job[p].inode] = @ + 1], kind)
  /\ UNCHANGED <<entry, parent, target, open, calls, overdir>>

(***************************************************************************)
(* unlink and rmdir: the entry is found, its inode fetched, the entry      *)
(* cleared without another look at it.                                     *)
(***************************************************************************)
FindEntry(p) ==
  LET j == job[p]
      found == Find(j.dir, j.name)
  IN
  /\ At(p, "entry") /\ Quiet(p, {"remove", "rmdir"})
  /\ \/ /\ found # {}
        /\ job' = [job EXCEPT ![p] = [j EXCEPT !.at = "remove", !.slot = Min(found),
                                               !.ino = entry[j.dir][Min(found)].ino]]
        /\ UNCHANGED <<fs, count, open, lock, calls, overdir>>
     \/ found = {} /\ Fail(p)

Cleared(d, s) == [entry EXCEPT ![d][s].ino = NULL]

Unlink(p) ==
  LET j == job[p]
      i == j.ino
  IN
  /\ At(p, "remove") /\ j.op = "unlink" /\ Quiet(p, Relying)
  /\ \/ kind[i] = "dir" /\ Fail(p)
     \/ /\ kind[i] # "dir"
        /\ entry' = Cleared(j.dir, j.slot)
        /\ count' = Put(count, j, {"dir"})
        /\ nlink' = [nlink EXCEPT ![i] = IF @ = 0 THEN 0 ELSE @ - 1]
        /\ kind' = Freed(count', nlink', kind)
        /\ job' = [job EXCEPT ![p] = Out]
        /\ UNCHANGED <<parent, target, open, lock, calls, overdir>>

empty_dir(i) == \A s \in Slot : entry[i][s].ino = NULL

RmdirIget(p) ==
  LET j == job[p] IN
  /\ At(p, "remove") /\ j.op = "rmdir"
  /\ count' = Iget(j.ino)
  /\ job' = [job EXCEPT ![p].at = "rmdir", ![p].inode = j.ino]
  /\ UNCHANGED <<fs, open, lock, calls, overdir>>

Rmdir(p) ==
  LET j == job[p]
      i == j.inode
  IN
  /\ At(p, "rmdir") /\ Quiet(p, Relying)
  /\ \/ /\ i = j.dir \/ kind[i] # "dir" \/ ~empty_dir(i) \/ count[i] > 1
        /\ Fail(p)
     \/ /\ i # j.dir /\ kind[i] = "dir" /\ empty_dir(i) /\ count[i] = 1
        /\ entry' = Cleared(j.dir, j.slot)
        /\ Return(p, [nlink EXCEPT ![i] = 0, ![j.dir] = @ - 1], kind)
        /\ UNCHANGED <<parent, target, open, calls, overdir>>

(***************************************************************************)
(* rename.                                                                 *)
(***************************************************************************)
LockFree == lock = NoProc

RenameLock(p) ==
  /\ At(p, "lock") /\ LockFree
  /\ lock' = p
  /\ Goto(p, "old")
  /\ UNCHANGED <<fs, count, open, calls, overdir>>

RenameOld(p) ==
  LET j == job[p]
      found == Find(j.dir, j.name)
  IN
  /\ At(p, "old")
  /\ \/ /\ found # {}
        /\ job' = [job EXCEPT ![p] = [j EXCEPT !.at = "old_iget", !.slot = Min(found),
                                               !.ino = entry[j.dir][Min(found)].ino]]
        /\ UNCHANGED <<fs, count, open, lock, calls, overdir>>
     \/ found = {} /\ Fail(p)

RenameOldIget(p) ==
  /\ At(p, "old_iget")
  /\ count' = Iget(job[p].ino)
  /\ job' = [job EXCEPT ![p].at = "new_name", ![p].inode = job[p].ino]
  /\ UNCHANGED <<fs, open, lock, calls, overdir>>

(* Is there an entry with the new name? *)
RenameNew(p) ==
  LET j == job[p]
      found == Find(j.dir2, j.name2)
  IN
  /\ At(p, "new_name")
  /\ \/ /\ found # {}
        /\ job' = [job EXCEPT ![p] = [j EXCEPT !.at = "new_iget", !.slot2 = Min(found),
                                               !.ino = entry[j.dir2][Min(found)].ino]]
     \/ /\ found = {}
        /\ Goto(p, "check")
  /\ UNCHANGED <<fs, count, open, lock, calls, overdir>>

RenameNewIget(p) ==
  /\ At(p, "new_iget")
  /\ count' = Iget(job[p].ino)
  /\ job' = [job EXCEPT ![p].at = "check", ![p].inode2 = job[p].ino]
  /\ UNCHANGED <<fs, open, lock, calls, overdir>>

(* For a directory subdir goes up from the new place, to see whether the directory
   is above it. *)
RenameCheck(p) ==
  LET j == job[p] IN
  /\ At(p, "check")
  /\ \/ /\ j.inode = j.inode2 \/ (kind[j.inode] = "dir" /\ (j.slot2 # NULL \/ ~MayUse(j.inode)))
        /\ Fail(p)
     \/ /\ j.inode # j.inode2 /\ kind[j.inode] # "dir"
        /\ Goto(p, "sanity")
        /\ UNCHANGED <<fs, count, open, lock, calls, overdir>>
     \/ /\ kind[j.inode] = "dir" /\ j.slot2 = NULL /\ MayUse(j.inode)
        /\ count' = Iget(j.dir2)
        /\ job' = [job EXCEPT ![p] = [j EXCEPT !.at = "subdir", !.up = j.dir2]]
        /\ UNCHANGED <<fs, open, lock, calls, overdir>>

SubdirForgotten(j) == FALSE
IsAbove(j) == j.up = j.inode

AtTop(d) == kind[d] # "dir" \/ parent[d] = d

Subdir(p) ==
  LET j == job[p] IN
  /\ At(p, "subdir")
  /\ \/ /\ IsAbove(j) \/ (AtTop(j.up) /\ parent[j.inode] # j.dir)
        /\ Fail(p)
     \/ /\ ~IsAbove(j) /\ ~AtTop(j.up)
        /\ count' = Put(Iget(parent[j.up]), j, {"up"})
        /\ job' = [job EXCEPT ![p].up = parent[j.up]]
        /\ UNCHANGED <<fs, open, lock, calls, overdir>>
     \/ /\ ~IsAbove(j) /\ AtTop(j.up) /\ parent[j.inode] = j.dir
        /\ count' = Put(count, j, {"up"})
        /\ job' = [job EXCEPT ![p].up = NULL, ![p].at = "sanity"]
        /\ UNCHANGED <<fs, open, lock, calls, overdir>>

(* minix_add_entry if there was no entry; then a look at all that was read before:
   the rename, or once more from the beginning. *)
SaneForgotten(j, s2) == TRUE
Sane(j, s2) == /\ j.inode2 # NULL => entry[j.dir2][s2].ino = j.inode2
               /\ entry[j.dir2][s2].ino # NULL => j.inode2 # NULL
               /\ entry[j.dir][j.slot].ino = j.inode

DirMoved(n, j) == IF kind[j.inode] = "dir"
                  THEN [i \in Ino |-> n[i] + (IF i = j.dir2 THEN 1 ELSE 0)
                                           - (IF i = j.dir THEN 1 ELSE 0)]
                  ELSE n

Rename(p) ==
  LET j == job[p]
      s2 == IF j.slot2 # NULL THEN j.slot2 ELSE Min(Unused(j.dir2))
  IN
  /\ At(p, "sanity") /\ Quiet(p, Relying)
  /\ \/ /\ j.slot2 = NULL /\ Unused(j.dir2) = {}
        /\ Fail(p)
     \/ /\ j.slot2 # NULL \/ Unused(j.dir2) # {}
        /\ Sane(j, s2)
        /\ entry' = [Cleared(j.dir, j.slot) EXCEPT
                       ![j.dir2][s2] = [name |-> j.name2, ino |-> j.inode]]
        /\ parent' = IF kind[j.inode] = "dir" THEN [parent EXCEPT ![j.inode] = j.dir2] ELSE parent
        /\ Return(p, DirMoved(IF j.inode2 = NULL THEN nlink
                              ELSE [nlink EXCEPT ![j.inode2] = @ - 1], j), kind)
        /\ overdir' = (overdir \/ (j.inode2 # NULL /\ kind[j.inode2] = "dir"))
        /\ UNCHANGED <<target, open, calls>>
     \/ /\ j.slot2 # NULL \/ Unused(j.dir2) # {}
        /\ ~Sane(j, s2)
        /\ count' = Put(count, j, {"inode", "inode2"})
        /\ kind' = Freed(count', nlink, kind)
        /\ job' = [job EXCEPT ![p] = [j EXCEPT !.at = "old", !.inode = NULL, !.inode2 = NULL,
                                               !.slot = NULL, !.slot2 = NULL, !.ino = NULL]]
        /\ UNCHANGED <<nlink, entry, parent, target, open, lock, calls, overdir>>

SecondPath(op) == IF op = "symlink" THEN LinkPath ELSE IF op \in {"link", "rename"} THEN Path ELSE {<<>>}
SecondName(op) == IF op \in {"link", "rename"} THEN Name ELSE {""}

AtRest == calls = MaxCalls /\ (\A p \in Proc : job[p] = Out /\ open[p] = NULL) /\ UNCHANGED vars

Next == \/ \E p \in Proc :
             \/ \E op \in Op, path \in Path, name \in Name :
                  \E path2 \in SecondPath(op), name2 \in SecondName(op) :
                    Start(p, op, path, name, path2, name2)
             \/ Walk(p) \/ WalkIget(p) \/ Walked(p) \/ WalkedLink(p) \/ WalkedRename(p)
             \/ OpenLookup(p) \/ OpenIget(p) \/ OpenDone(p) \/ Readlink(p) \/ Close(p)
             \/ FindNone(p) \/ NewInode(p) \/ MkdirBlock(p) \/ SymlinkBlock(p) \/ AddFails(p)
             \/ Mknod(p) \/ Mkdir(p) \/ Create(p) \/ Link(p) \/ Linked(p)
             \/ FindEntry(p) \/ Unlink(p) \/ RmdirIget(p) \/ Rmdir(p)
             \/ RenameLock(p) \/ RenameOld(p) \/ RenameOldIget(p) \/ RenameNew(p)
             \/ RenameNewIget(p) \/ RenameCheck(p) \/ Subdir(p) \/ Rename(p)
        \/ AtRest

Spec == Init /\ [][Next]_vars

-----------------------------------------------------------------------------
(* The types. *)
Ref == Ino \cup {NULL}
Entry == [name : Name \cup {""}, ino : Ref]
FsTyped ==
  /\ kind \in [Ino -> {"free", "file", "dir", "link"}] /\ nlink \in [Ino -> Int]
  /\ entry \in [Ino -> [Slot -> Entry]] /\ parent \in [Ino -> Ino]
  /\ target \in [Ino -> Seq(Component)]
Locations == {"out", "walk", "iget", "lookup", "opened", "find", "new", "block", "add", "linked",
              "entry", "remove", "rmdir", "lock", "old", "old_iget", "new_name", "new_iget",
              "check", "subdir", "sanity"}
Job == [op : Op \cup {"out"}, at : Locations, goal : {"", "dir", "inode", "dir2", "file"},
        path : Seq(Component), depth : Int, then : Seq(Component),
        dir : Ref, dir2 : Ref, inode : Ref, inode2 : Ref, up : Ref,
        name : Name \cup {""}, name2 : Name \cup {""},
        slot : Slot \cup {NULL}, slot2 : Slot \cup {NULL}, ino : Ref]
TypeOK == /\ FsTyped /\ count \in [Ino -> Int]
          /\ job \in [Proc -> Job] /\ open \in [Proc -> Ref]
          /\ lock \in Proc \cup {NoProc} /\ calls \in 0..MaxCalls

(* Every reference a call takes it puts again, once, whichever way it ends: i_count
   is the number of references that calls under way and open files hold. *)
Held(i) == {h \in Proc \X RefFields : job[h[1]][h[2]] = i}
Opened(i) == {p \in Proc : open[p] = i}
RefsBalanced ==
  TypeOK /\ \A i \in Ino : count[i] = (IF i = ROOT THEN 1 ELSE 0)
                                        + Cardinality(Held(i)) + Cardinality(Opened(i))

Live(d) == kind[d] = "dir" /\ nlink[d] > 0
Entries(i) == {e \in Ino \X Slot : Live(e[1]) /\ entry[e[1]][e[2]].ino = i}

(* The inode a call is making, which has no name yet; the one whose new name is not counted
   yet; the directories made in a directory. *)
Making(j) == IF j.op # "link" /\ j.at \in {"block", "find", "add"} THEN j.inode ELSE NULL
Linking(j) == IF j.at = "linked" THEN j.inode ELSE NULL
New(i) == {p \in Proc : Making(job[p]) = i}
Late(i) == {p \in Proc : Linking(job[p]) = i}
Placed(d) == Live(d) /\ New(d) = {}
Inside(i) == {d \in Ino : Placed(d) /\ parent[d] = i}

(* Link counts: what is in a directory is allocated; a file has as many links as
   there are entries for it; a directory one for its entry, one for its "." and one
   for the ".." of each directory made in it.  A new inode has its links before it
   has its name, a second name comes before the link it counts for.  All this until a file
   is renamed over a directory, which is then without a name and keeps its "..". *)
LinksRight ==
  \A i \in Ino :
    /\ Entries(i) # {} => kind[i] \in {"file", "link"} \/ Placed(i)
    /\ kind[i] \in {"file", "link"}
         => nlink[i] + Cardinality(Late(i)) = Cardinality(Entries(i)) + Cardinality(New(i))
    /\ Placed(i) => nlink[i] = Cardinality(Entries(i)) + 1 + Cardinality(Inside(i))
LinkCounts == overdir \/ LinksRight

(* The directories form a tree: each but the root has one entry, in the directory its ".."
   names, and going from ".." to ".." comes to the root: what goes in a circle without it
   would be directories of which each has its ".." among them. *)
IsTree ==
  /\ \A i \in Ino \ {ROOT} : Placed(i) => \E s \in Slot : Entries(i) = {<<parent[i], s>>}
  /\ \A D \in SUBSET {i \in Ino : Placed(i)} :
       D # {} /\ (\A i \in D : parent[i] \in D) => ROOT \in D
Tree == overdir \/ IsTree

(***************************************************************************)
(* Why the references balance: the inductive invariant of the proofs.      *)
(***************************************************************************)
(* Where a call is says what it is and which references it holds, so that it never
   takes one over another and forgets none. *)
Where ==
  [out |-> {"out"}, lookup |-> {"open", "creat", "readlink"}, opened |-> {"open", "creat", "readlink"},
   find |-> {"mknod", "mkdir", "symlink", "link"}, new |-> {"creat", "mknod", "mkdir", "symlink"},
   block |-> {"mkdir", "symlink"}, add |-> {"creat", "mknod", "mkdir", "symlink", "link"},
   linked |-> {"link"}, entry |-> {"unlink", "rmdir"}, remove |-> {"unlink", "rmdir"},
   rmdir |-> {"rmdir"}]
Renaming == {"lock", "old", "old_iget", "new_name", "new_iget", "check", "subdir", "sanity"}
Walking(j) == j.at \in {"walk", "iget"}

CallFits(j) ==
  /\ j.at \in DOMAIN Where => j.op \in Where[j.at]
  /\ j.at \in Renaming => j.op = "rename"
  /\ j.at = "out" => j = Out
  /\ j.at = "iget" => j.path # <<>>
  /\ Walking(j) => /\ j.op # "out" /\ j.goal # ""
                   /\ j.goal = "inode" => j.op = "link"
                   /\ j.goal = "dir2" => j.op = "rename"
                   /\ j.goal = "file" => j.op \in {"open", "creat"}
  /\ j.op = "link" => j.goal = "dir" \/ Walking(j)
  /\ j.at \in {"iget", "opened", "remove", "rmdir", "old_iget", "new_iget"} => j.ino # NULL
  /\ j.at \in {"remove", "rmdir", "old_iget", "new_name", "new_iget", "check", "subdir", "sanity"}
       => j.slot # NULL
  /\ j.at = "new_iget" => j.slot2 # NULL
  /\ j.slot2 # NULL => j.at \in {"new_iget", "check", "subdir", "sanity"}

Holds(j) ==
  /\ j.dir # NULL <=> j.at \notin {"out", "linked"}
  /\ j.dir2 # NULL <=> j.at \in Renaming \/ (Walking(j) /\ j.goal = "dir2")
  /\ j.inode # NULL <=> \/ j.at \in {"block", "add", "linked", "rmdir", "new_name", "new_iget",
                                     "check", "subdir", "sanity"}
                        \/ j.op = "link" /\ j.goal = "dir"
                        \/ j.op = "symlink" /\ j.at = "find"
  /\ j.inode2 # NULL <=> j.slot2 # NULL /\ j.at # "new_iget"
  /\ j.up # NULL <=> j.at = "subdir"

CallsFit == \A p \in Proc : /\ CallFits(job[p]) /\ Holds(job[p])
                            /\ job[p].op \in {"open", "creat"} => open[p] = NULL
IInv == RefsBalanced /\ CallsFit

(***************************************************************************)
(* Why links and entries agree: what is added to IInv, for Races = FALSE   *)
(* and as long as no file has been renamed over a directory.               *)
(***************************************************************************)
(* The directories: what is not one, or deleted, has no entries; each but the root is named
   once, in its parent, which is a directory itself.  No inode that is free is referred to,
   none that is being made has a name. *)
RootFits == Live(ROOT) /\ parent[ROOT] = ROOT /\ Entries(ROOT) = {}
InodesFit ==
  \A i \in Ino :
    /\ kind[i] = "free" => nlink[i] = 0 /\ count[i] = 0
    /\ ~Placed(i) => empty_dir(i)
    /\ New(i) # {} => Entries(i) = {}
    /\ Placed(i) => Placed(parent[i])

(* What a call has found out holds until it uses it. *)
Seen(j) ==
  /\ j.at \in {"iget", "opened"} => Entries(j.ino) # {} \/ (Live(j.dir) /\ parent[j.dir] = j.ino)
  /\ j.at \in {"remove", "rmdir", "old_iget"} => <<j.dir, j.slot>> \in Entries(j.ino)
  /\ j.at = "rmdir" => j.inode = j.ino
  /\ j.at = "new_iget" => Entries(j.ino) # {}
  /\ j.op = "link" /\ j.at \in {"find", "add", "linked"} => kind[j.inode] # "dir"

(* Before the permission is asked for, the directory may be a deleted one. *)
Permitted == {"find", "new", "block", "add", "entry", "remove", "rmdir"} \cup Renaming
DirsFit(j) == /\ j.at \in Permitted => (kind[j.dir] = "dir" => Live(j.dir))
              /\ j.dir2 # NULL => (kind[j.dir2] = "dir" => Live(j.dir2))

MakingFits(j) ==
  Making(j) # NULL =>
    /\ count[j.inode] = 1 /\ kind[j.inode] = KindOf(j.op)
    /\ nlink[j.inode] = IF j.op = "mkdir" /\ j.at = "add" THEN 2 ELSE 1
    /\ j.op = "mkdir" /\ j.at = "add" => parent[j.inode] = j.dir

(* subdir has come from dir2 as far as top without meeting the inode. *)
Passed(j, top) ==
  \E D \in SUBSET {i \in Ino : Placed(i)} :
    /\ j.inode \notin D /\ j.dir2 \in D \cup top
    /\ \A i \in D : parent[i] \in D \cup top
RenameFits(j) ==
  /\ j.at = "subdir" => /\ Live(j.inode) /\ j.slot2 = NULL
                        /\ IF Live(j.dir2) THEN Live(j.up) /\ Passed(j, {j.up}) ELSE j.up = j.dir2
  /\ j.at = "sanity" => j.inode # j.inode2
  /\ j.at = "sanity" /\ kind[j.inode] = "dir" =>
       /\ Live(j.inode) /\ j.slot2 = NULL /\ parent[j.inode] = j.dir
       /\ Live(j.dir2) => Passed(j, {})

JobFits(p, j) == /\ Seen(j) /\ DirsFit(j) /\ MakingFits(j) /\ RenameFits(j)
                 /\ j.at \in Renaming \ {"lock"} => lock = p
JobsFit == \A p \in Proc : JobFits(p, job[p])
FsFits == RootFits /\ InodesFit /\ LinksRight /\ IsTree
NamesFit == overdir \/ (FsFits /\ JobsFit)
=============================================================================
