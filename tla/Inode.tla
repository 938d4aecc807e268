------------------------------- MODULE Inode -------------------------------
(***************************************************************************)
(* Inodes, directories and path names of kern/fs.c, as operators on a      *)
(* state of the file system                                                *)
(*                                                                         *)
(*   [ic: the inode cache, di: the inodes on disk, panic: the message of   *)
(*    the panic that stopped the kernel, ip: the pointer last returned]    *)
(*                                                                         *)
(* No call of these functions sleeps, so a system call composes them into  *)
(* one step.  The contents of a regular file are left out.  Those of a     *)
(* directory are a function from names to inode numbers, 0 for no entry.   *)
(***************************************************************************)
EXTENDS Integers, FiniteSetsExt, SequencesExt

CONSTANTS
  NINODE,    \* entries of the inode cache
  NINODES,   \* sb.ninodes: inodes on disk, number 0 included
  Name       \* names of files, other than "." and ".."

Icache == 1 .. NINODE
NULL == 0                       \* the null pointer; also no entry
Inum == 1 .. NINODES - 1
ROOTINO == 1
EntryName == Name \cup {".", ".."}

ASSUME InodeAssumption ==
  NINODE \in Nat /\ NINODES \in Nat /\ ROOTINO \in Inum /\ Name \cap {".", ".."} = {}

NoEntries == [n \in EntryName |-> 0]
FreeInode == [type |-> "none", nlink |-> 0, ents |-> NoEntries]
FreeEntry == [inum |-> 0, ref |-> 0, valid |-> FALSE, type |-> "none", nlink |-> 0]

Panic(s, message) == [s EXCEPT !.panic = message, !.ip = NULL]
Fail(s) == [s EXCEPT !.ip = NULL]

\* F(s), with s evaluated once.
On(s, F(_)) == CHOOSE r \in {F(t) : t \in {s}} : TRUE

\* What F makes of s, unless the kernel has stopped; unless s returned NULL.
Then(s, F(_)) == On(s, LAMBDA t : IF t.panic = "none" THEN F(t) ELSE t)
IfFound(s, F(_)) == On(s, LAMBDA t : IF t.ip # NULL THEN F(t) ELSE t)

-----------------------------------------------------------------------------
\* The inode cache.
idup(s, e) == [s EXCEPT !.ic[e].ref = @ + 1, !.ip = e]

\* A free entry is taken for inode inum.
Recycle(s, inum) ==
  LET empty == {e \in Icache : s.ic[e].ref = 0}
  IN IF empty = {} THEN Panic(s, "iget: no inodes")
     ELSE [s EXCEPT !.ic[Min(empty)] = [FreeEntry EXCEPT !.inum = inum, !.ref = 1],
                    !.ip = Min(empty)]

\* Mutant: the cache is not searched for the inode first.
igetAlwaysNew(s, inum) == Recycle(s, inum)

iget(s, inum) ==
  LET cached == {e \in Icache : s.ic[e].ref > 0 /\ s.ic[e].inum = inum}
  IN IF cached # {} THEN idup(s, Min(cached)) ELSE Recycle(s, inum)

\* The entry as read from the disk.
Loaded(s, entry) ==
  [entry EXCEPT !.valid = TRUE, !.type = s.di[entry.inum].type,
                !.nlink = s.di[entry.inum].nlink]

ilock(s, e) ==
  IF e = NULL \/ s.ic[e].ref < 1 THEN Panic(s, "ilock")
  ELSE IF s.ic[e].valid THEN s
  ELSE IF s.di[s.ic[e].inum].type = "none" THEN Panic(s, "ilock: no type")
  ELSE [s EXCEPT !.ic[e] = Loaded(s, @)]

iupdate(s, e) ==
  [s EXCEPT !.di[s.ic[e].inum].type = s.ic[e].type,
            !.di[s.ic[e].inum].nlink = s.ic[e].nlink]

\* ip->nlink is changed by d and written through to the disk.
AddLinks(s, e, d) == On([s EXCEPT !.ic[e].nlink = @ + d], LAMBDA t : iupdate(t, e))

\* The contents are discarded; iput() does so before it frees the inode.
itrunc(s, e) == On([s EXCEPT !.di[s.ic[e].inum].ents = NoEntries],
                   LAMBDA t : iupdate(t, e))

FreeOnDisk(s, e) ==
  On([itrunc(s, e) EXCEPT !.ic[e].type = "none"],
     LAMBDA t : [iupdate(t, e) EXCEPT !.ic[e].valid = FALSE])

\* One reference less.  What is left in an entry without references is never
\* read: iget() and ilock() overwrite it.  The model forgets it.
Dropped(entry) ==
  IF entry.ref = 1 THEN FreeEntry ELSE [entry EXCEPT !.ref = @ - 1]

\* Mutant: the inode is freed under the other references to it.
iputFreesShared(s, e) ==
  LET t == IF s.ic[e].valid /\ s.ic[e].nlink = 0 THEN FreeOnDisk(s, e) ELSE s
  IN [t EXCEPT !.ic[e] = Dropped(@)]

iput(s, e) ==
  LET unused == s.ic[e].valid /\ s.ic[e].nlink = 0 /\ s.ic[e].ref = 1
      t == IF unused THEN FreeOnDisk(s, e) ELSE s
  IN [t EXCEPT !.ic[e] = Dropped(@)]

ialloc(s, type) ==
  LET free == {i \in Inum : s.di[i].type = "none"}
  IN IF free = {} THEN Panic(s, "ialloc: no inodes")
     ELSE On([s EXCEPT !.di[Min(free)] = [FreeInode EXCEPT !.type = type]],
             LAMBDA t : iget(t, Min(free)))

-----------------------------------------------------------------------------
\* Directories.
IsDir(s, e) == s.ic[e].type = "DIR"

dirlookup(s, dp, name) ==
  LET inum == s.di[s.ic[dp].inum].ents[name]
  IN IF ~IsDir(s, dp) THEN Panic(s, "dirlookup not DIR")
     ELSE IF inum = 0 THEN Fail(s) ELSE iget(s, inum)

\* writei() of one directory entry.
SetEntry(s, dp, name, inum) == [s EXCEPT !.di[s.ic[dp].inum].ents[name] = inum]

\* ip is dp afterwards, or NULL if the name is taken.
dirlink(s, dp, name, inum) ==
  Then(dirlookup(s, dp, name), LAMBDA found :
    IF found.ip # NULL THEN Fail(iput(found, found.ip))
    ELSE [SetEntry(found, dp, name, inum) EXCEPT !.ip = dp])

isdirempty(s, e) == \A n \in Name : s.di[s.ic[e].inum].ents[n] = 0

-----------------------------------------------------------------------------
\* Path names: [abs: does it start with a slash, elems: its elements].
Start(s, cwd, path) == IF path.abs THEN iget(s, ROOTINO) ELSE idup(s, cwd)

\* ip is locked; unless it is a directory, it is put and the walk has failed.
LockDir(s) ==
  Then(ilock(s, s.ip), LAMBDA t : IF IsDir(t, t.ip) THEN t ELSE Fail(iput(t, t.ip)))

\* Mutant: the directory is not put when it lacks the name.
WalkKeepsDir(s, name) ==
  IfFound(s, LAMBDA dir : IfFound(LockDir(dir), LAMBDA t :
    IfFound(dirlookup(t, t.ip, name), LAMBDA u : iput(u, t.ip))))

\* One round of the loop of namex(): from the directory ip to its entry.
Walk(s, name) ==
  IfFound(s, LAMBDA dir : IfFound(LockDir(dir), LAMBDA t :
    Then(dirlookup(t, t.ip, name), LAMBDA u : iput(u, t.ip))))

namei(s, cwd, path) == FoldLeft(Walk, Start(s, cwd, path), path.elems)

nameiparent(s, cwd, path) ==
  IF path.elems = <<>>
    THEN IfFound(Start(s, cwd, path), LAMBDA t : Fail(iput(t, t.ip)))
    ELSE IfFound(FoldLeft(Walk, Start(s, cwd, path), Front(path.elems)), LockDir)
=============================================================================
