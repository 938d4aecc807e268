------------------------------ MODULE Sysfile ------------------------------
(***************************************************************************)
(* Open files, descriptors and the file system calls: kern/file.c,         *)
(* kern/sysfile.c, and what fork, exec and exit do to files.  A call is    *)
(* one step, and any live process may make the next one.  A process that   *)
(* has exited holds no file, so a zombie's slot counts as free.            *)
(*                                                                         *)
(* Offsets, permissions and the contents of files are left out, and with   *)
(* them read, write, lseek and stat, which change nothing else.            *)
(***************************************************************************)
EXTENDS Inode

CONSTANTS
  NPROC, NOFILE, NFILE,
  Path,       \* the path names in use
  MaxLeaks,   \* bound on the references that are never given back
  MaxLinks    \* bound on the links to a file

VARIABLES
  fs,         \* inode cache and disk, as in Inode
  ftable,     \* the file table
  ofile, cwd, \* of each process: descriptors, working directory
  alive,      \* the slots in use
  leaked      \* of each cache entry: references lost by exit and utime

vars == <<fs, ftable, ofile, cwd, alive, leaked>>

Proc == 0 .. NPROC - 1
initproc == 0
Fd == 0 .. NOFILE - 1
File == 1 .. NFILE
NoFile == [ref |-> 0, type |-> "NONE", ip |-> NULL]

ASSUME SysfileAssumption ==
  /\ NPROC \in Nat \ {0} /\ NOFILE \in Nat /\ NFILE \in Nat
  /\ MaxLeaks \in Nat /\ MaxLinks \in Nat
  /\ \A path \in Path : path.abs \in BOOLEAN /\ path.elems \in Seq(EntryName)

\* The root directory as mkfs makes it.
MkfsRoot ==
  [type |-> "DIR", nlink |-> 1,
   ents |-> [NoEntries EXCEPT !["."] = ROOTINO, ![".."] = ROOTINO]]

\* userinit(): init runs in the root directory, and has no file open.
Init ==
  LET disk == [i \in Inum |-> IF i = ROOTINO THEN MkfsRoot ELSE FreeInode]
      booted == iget([ic |-> [e \in Icache |-> FreeEntry], di |-> disk,
                      panic |-> "none", ip |-> NULL], ROOTINO)
  IN /\ fs = Fail(booted)
     /\ ftable = [f \in File |-> NoFile]
     /\ ofile = [p \in Proc |-> [fd \in Fd |-> NULL]]
     /\ cwd = [p \in Proc |-> IF p = initproc THEN booted.ip ELSE NULL]
     /\ alive = {initproc}
     /\ leaked = [e \in Icache |-> 0]

Runs(p) == p \in alive /\ fs.panic = "none"
Leaks == MapThenSumSet(LAMBDA e : leaked[e], Icache) + Cardinality(alive \ {initproc})

\* The call leaves the file system in state s.
Leaves(s) == fs' = Fail(s)

-----------------------------------------------------------------------------
\* The file table.  FreeFile and FreeFd are where filealloc() and fdalloc()
\* look for a free place.
FreeFile == {f \in File : ftable[f].ref = 0}
FreeFd(p) == {fd \in Fd : ofile[p][fd] = NULL}

\* fileclose() on c = [s: file system, ft: file table].
fileclose(c, f) ==
  IF c.ft[f].ref < 1 THEN [c EXCEPT !.s = Panic(@, "fileclose")]
  ELSE IF c.ft[f].ref > 1 THEN [c EXCEPT !.ft[f].ref = @ - 1]
  ELSE [s |-> IF c.ft[f].type = "INODE" THEN iput(c.s, c.ft[f].ip) ELSE c.s,
        ft |-> [c.ft EXCEPT ![f] = NoFile]]

\* s after filedup() of the files in fset, which panics if one is not open.
FiledupPanics(s, fset) ==
  IF \E f \in fset : ftable[f].ref < 1 THEN Panic(s, "filedup") ELSE s

sys_dup(p, fd) ==
  /\ Runs(p)
  /\ ofile[p][fd] # NULL /\ FreeFd(p) # {}
  /\ Leaves(FiledupPanics(fs, {ofile[p][fd]}))
  /\ ofile' = [ofile EXCEPT ![p][Min(FreeFd(p))] = ofile[p][fd]]
  /\ ftable' = [ftable EXCEPT ![ofile[p][fd]].ref = @ + 1]
  /\ UNCHANGED <<cwd, alive, leaked>>

sys_close(p, fd) ==
  /\ Runs(p)
  /\ ofile[p][fd] # NULL
  /\ \E c \in {fileclose([s |-> fs, ft |-> ftable], ofile[p][fd])} :
       Leaves(c.s) /\ ftable' = c.ft
  /\ ofile' = [ofile EXCEPT ![p][fd] = NULL]
  /\ UNCHANGED <<cwd, alive, leaked>>

\* Mutant: the descriptor of the read end stays when there is none for the
\* write end.
PipeFdsKeepsFirst(p) ==
  LET rf == Min(FreeFile)
      wf == Min(FreeFile \ {rf})
      fd0 == Min(FreeFd(p))
  IN IF Cardinality(FreeFd(p)) >= 2
       THEN [ofile[p] EXCEPT ![fd0] = rf, ![Min(FreeFd(p) \ {fd0})] = wf]
     ELSE IF FreeFd(p) # {} THEN [ofile[p] EXCEPT ![fd0] = rf] ELSE ofile[p]

\* The descriptors after sys_pipe(), when pipealloc() found two files.
PipeFds(p) ==
  LET rf == Min(FreeFile)
      wf == Min(FreeFile \ {rf})
      fd0 == Min(FreeFd(p))
  IN IF Cardinality(FreeFd(p)) >= 2
       THEN [ofile[p] EXCEPT ![fd0] = rf, ![Min(FreeFd(p) \ {fd0})] = wf]
       ELSE ofile[p]

\* sys_pipe() takes two files and two descriptors, or gives all back.
sys_pipe(p) ==
  LET rf == Min(FreeFile)
      wf == Min(FreeFile \ {rf})
      end == [ref |-> 1, type |-> "PIPE", ip |-> NULL]
  IN /\ Runs(p)
     /\ Cardinality(FreeFile) >= 2
     /\ ofile' = [ofile EXCEPT ![p] = PipeFds(p)]
     /\ ftable' = IF Cardinality(FreeFd(p)) >= 2
                    THEN [ftable EXCEPT ![rf] = end, ![wf] = end] ELSE ftable
     /\ UNCHANGED <<fs, cwd, alive, leaked>>

-----------------------------------------------------------------------------
\* Links.
LastName(path) == Last(path.elems)
LockParent(s, cdir, path) ==
  IfFound(nameiparent(s, cdir, path), LAMBDA t : ilock(t, t.ip))
LockNamed(s, cdir, path) == IfFound(namei(s, cdir, path), LAMBDA t : ilock(t, t.ip))
PutBoth(s, e1, e2) == On(iput(s, e1), LAMBDA t : iput(t, e2))

\* Mutant: the link is not counted.
LinkToUncounted(s, cdir, ip, new) ==
  Then(LockParent(s, cdir, new), LAMBDA t :
    IF t.ip = NULL THEN iput(t, ip)
    ELSE Then(dirlink(t, t.ip, LastName(new), t.ic[ip].inum), LAMBDA u :
           PutBoth(u, t.ip, ip)))

\* The end of sys_link() when the link cannot be made.
LinkBad(s, ip) ==
  Then(ilock(s, ip), LAMBDA t : On(AddLinks(t, ip, -1), LAMBDA u : iput(u, ip)))

\* sys_link() once ip is known to be a file: count the link, enter it, and take
\* it back if that fails.
LinkTo(s, cdir, ip, new) ==
  Then(LockParent(AddLinks(s, ip, 1), cdir, new), LAMBDA t :
    IF t.ip = NULL THEN LinkBad(t, ip)
    ELSE Then(dirlink(t, t.ip, LastName(new), t.ic[ip].inum), LAMBDA u :
           IF u.ip # NULL THEN PutBoth(u, t.ip, ip)
           ELSE On(iput(u, t.ip), LAMBDA v : LinkBad(v, ip))))

\* Mutant: a directory can be linked to.
LinkAny(s, cdir, old, new) ==
  IfFound(LockNamed(s, cdir, old), LAMBDA f : LinkTo(f, cdir, f.ip, new))

\* sys_link().
Link(s, cdir, old, new) ==
  IfFound(LockNamed(s, cdir, old), LAMBDA f :
    IF IsDir(f, f.ip) THEN iput(f, f.ip) ELSE LinkTo(f, cdir, f.ip, new))

\* sys_unlink() once ip, the entry of dp called name, may be removed.
RemoveEntry(s, dp, name, ip) ==
  LET cleared == SetEntry(s, dp, name, 0)
  IN On(IF IsDir(s, ip) THEN AddLinks(cleared, dp, -1) ELSE cleared, LAMBDA t :
       On(AddLinks(iput(t, dp), ip, -1), LAMBDA u : iput(u, ip)))

Unlink(s, cdir, path) ==
  LET name == LastName(path)
      Found(t, dp) ==
        IF t.ip = NULL THEN iput(t, dp)
        ELSE Then(ilock(t, t.ip), LAMBDA u :
               IF u.ic[u.ip].nlink < 1 THEN Panic(u, "unlink: nlink < 1")
               ELSE IF IsDir(u, u.ip) /\ ~isdirempty(u, u.ip) THEN PutBoth(u, u.ip, dp)
               ELSE RemoveEntry(u, dp, name, u.ip))
  IN IfFound(LockParent(s, cdir, path), LAMBDA t :
       IF name \in {".", ".."} THEN iput(t, t.ip)
       ELSE Then(dirlookup(t, t.ip, name), LAMBDA u : Found(u, t.ip)))

\* Mutant: ".." is not counted as a link to the parent.
MakeDotsUncounted(s, ip, dp) ==
  IfFound(dirlink(s, ip, ".", s.ic[ip].inum), LAMBDA t :
    dirlink(t, ip, "..", t.ic[dp].inum))

\* The entries "." and ".." of the new directory ip in dp.
MakeDots(s, ip, dp) ==
  IfFound(On(AddLinks(s, dp, 1), LAMBDA t : dirlink(t, ip, ".", t.ic[ip].inum)),
          LAMBDA t : dirlink(t, ip, "..", t.ic[dp].inum))

OrPanic(s, message) ==
  Then(s, LAMBDA t : IF t.ip = NULL THEN Panic(t, message) ELSE t)

\* create() from the new inode ip on: link count, entries, name in dp.
LinkNew(s, ip, dp, name) ==
  LET linked == On([s EXCEPT !.ic[ip].nlink = 1], LAMBDA t : iupdate(t, ip))
      dots == IF IsDir(s, ip) THEN OrPanic(MakeDots(linked, ip, dp), "create dots")
              ELSE linked
      entered == Then(dots, LAMBDA t : dirlink(t, dp, name, t.ic[ip].inum))
  IN Then(OrPanic(entered, "create: dirlink"), LAMBDA t : [iput(t, dp) EXCEPT !.ip = ip])

\* create() when dp has an entry ip of that name.
CreateOld(s, dp, type) ==
  Then(ilock(iput(s, dp), s.ip), LAMBDA t :
    IF type = "FILE" /\ t.ic[t.ip].type = "FILE" THEN t ELSE Fail(iput(t, t.ip)))

create(s, cdir, path, type) ==
  IfFound(LockParent(s, cdir, path), LAMBDA t :
    Then(dirlookup(t, t.ip, LastName(path)), LAMBDA found :
      IF found.ip # NULL THEN CreateOld(found, t.ip, type)
      ELSE IfFound(IfFound(ialloc(found, type), LAMBDA new : ilock(new, new.ip)),
                   LAMBDA new : LinkNew(new, new.ip, t.ip, LastName(path)))))

sys_link(p, old, new) ==
  /\ Runs(p)
  /\ \A i \in Inum : fs.di[i].type = "FILE" => fs.di[i].nlink < MaxLinks
  /\ Leaves(Link(fs, cwd[p], old, new))
  /\ UNCHANGED <<ftable, ofile, cwd, alive, leaked>>

sys_unlink(p, path) ==
  /\ Runs(p)
  /\ Leaves(Unlink(fs, cwd[p], path))
  /\ UNCHANGED <<ftable, ofile, cwd, alive, leaked>>

sys_mkdir(p, path) ==
  /\ Runs(p)
  /\ Leaves(IfFound(create(fs, cwd[p], path, "DIR"), LAMBDA t : iput(t, t.ip)))
  /\ UNCHANGED <<ftable, ofile, cwd, alive, leaked>>

-----------------------------------------------------------------------------
\* Opening files.
Mode == {"rdonly", "write", "create"}

\* sys_open() up to the locked inode ip, or NULL.
Opened(p, path, mode) ==
  IF mode = "create" THEN create(fs, cwd[p], path, "FILE")
  ELSE IfFound(LockNamed(fs, cwd[p], path), LAMBDA t :
         IF IsDir(t, t.ip) /\ mode # "rdonly" THEN Fail(iput(t, t.ip)) ELSE t)

HasPlace(p) == FreeFile # {} /\ FreeFd(p) # {}

sys_open(p, path, mode) ==
  /\ Runs(p)
  /\ \E s \in {Opened(p, path, mode)} :
       IF s.ip # NULL /\ HasPlace(p)
         THEN LET f == Min(FreeFile)
              IN /\ Leaves(s)
                 /\ ftable' = [ftable EXCEPT ![f] = [ref |-> 1, type |-> "INODE", ip |-> s.ip]]
                 /\ ofile' = [ofile EXCEPT ![p][Min(FreeFd(p))] = f]
         ELSE /\ Leaves(IfFound(s, LAMBDA t : iput(t, t.ip)))
              /\ UNCHANGED <<ftable, ofile>>
  /\ UNCHANGED <<cwd, alive, leaked>>

\* sys_exec() of a program closes the file it read.  When what it opened is
\* not a program, or there is no memory for it, the file stays open.
sys_exec(p, path) ==
  \/ sys_open(p, path, "rdonly")
  \/ /\ Runs(p) /\ HasPlace(p)
     /\ \E s \in {Opened(p, path, "rdonly")} :
          /\ s.ip # NULL /\ s.ic[s.ip].type = "FILE"
          /\ Leaves(iput(s, s.ip))
     /\ UNCHANGED <<ftable, ofile, cwd, alive, leaked>>

-----------------------------------------------------------------------------
\* Working directories.
ichdir(p, s, ip) ==
  \E t \in {ilock(s, ip)} :
    IF t.panic = "none" /\ IsDir(t, ip)
      THEN Leaves(iput(t, cwd[p])) /\ cwd' = [cwd EXCEPT ![p] = ip]
      ELSE Leaves(Then(t, LAMBDA u : iput(u, ip))) /\ UNCHANGED cwd

sys_chdir(p, path) ==
  /\ Runs(p)
  /\ \E s \in {namei(fs, cwd[p], path)} :
       IF s.ip = NULL THEN Leaves(s) /\ UNCHANGED cwd ELSE ichdir(p, s, s.ip)
  /\ UNCHANGED <<ftable, ofile, alive, leaked>>

\* sys_fchdir() of a descriptor for a file or directory.
sys_fchdir(p, fd) ==
  /\ Runs(p)
  /\ ofile[p][fd] # NULL /\ ftable[ofile[p][fd]].type = "INODE"
  /\ ichdir(p, fs, ftable[ofile[p][fd]].ip)
  /\ UNCHANGED <<ftable, ofile, alive, leaked>>

\* sys_utime() does not put the inode it looked up.
sys_utime(p, path) ==
  /\ Runs(p) /\ Leaks < MaxLeaks
  /\ \E s \in {LockNamed(fs, cwd[p], path)} :
       IF s.ip = NULL THEN Leaves(s) /\ UNCHANGED leaked
       ELSE /\ Leaves(iupdate(s, s.ip))
            /\ leaked' = [leaked EXCEPT ![s.ip] = @ + 1]
  /\ UNCHANGED <<ftable, ofile, cwd, alive>>

-----------------------------------------------------------------------------
\* Processes.  The child's descriptors that the parent has closed are left as
\* they are in the slot.
sys_fork(p) ==
  LET q == Min(Proc \ alive)
      open == {fd \in Fd : ofile[p][fd] # NULL}
  IN /\ Runs(p) /\ Proc \ alive # {} /\ Leaks < MaxLeaks
     /\ Leaves(Then(FiledupPanics(fs, {ofile[p][fd] : fd \in open}),
                    LAMBDA t : idup(t, cwd[p])))
     /\ ofile' = [ofile EXCEPT ![q] =
                    [fd \in Fd |-> IF fd \in open THEN ofile[p][fd] ELSE @[fd]]]
     /\ ftable' = [f \in File |-> [ftable[f] EXCEPT
                     !.ref = @ + Cardinality({fd \in open : ofile[p][fd] = f})]]
     /\ cwd' = [cwd EXCEPT ![q] = cwd[p]]
     /\ alive' = alive \cup {q}
     /\ UNCHANGED leaked

\* sys_exit() closes the files, and forgets the working directory without a
\* call of iput().
sys_exit(p) ==
  LET Close(c, fd) == IF ofile[p][fd] = NULL \/ c.s.panic # "none" THEN c
                      ELSE fileclose(c, ofile[p][fd])
  IN /\ Runs(p) /\ p # initproc
     /\ \E c \in {FoldLeft(Close, [s |-> fs, ft |-> ftable],
                           [i \in 1 .. NOFILE |-> i - 1])} :
          Leaves(c.s) /\ ftable' = c.ft
     /\ ofile' = [ofile EXCEPT ![p] = [fd \in Fd |-> NULL]]
     /\ cwd' = [cwd EXCEPT ![p] = NULL]
     /\ alive' = alive \ {p}
     /\ leaked' = [leaked EXCEPT ![cwd[p]] = @ + 1]

Next ==
  \E p \in Proc :
    \/ \E fd \in Fd : sys_dup(p, fd) \/ sys_close(p, fd)
    \/ sys_pipe(p) \/ sys_fork(p) \/ sys_exit(p)
    \/ \E path \in Path :
         \/ sys_unlink(p, path) \/ sys_mkdir(p, path) \/ sys_chdir(p, path)
         \/ sys_utime(p, path) \/ sys_exec(p, path)
         \/ \E mode \in Mode : sys_open(p, path, mode)
         \/ \E new \in Path : sys_link(p, path, new)

Spec == Init /\ [][Next]_vars

\* With sys_fchdir(), which the other runs leave out.  It also calls end_op()
\* without begin_op(), which has no effect in a model without the log.
FchdirNext == Next \/ \E p \in Proc, fd \in Fd : sys_fchdir(p, fd)
FchdirSpec == Init /\ [][FchdirNext]_vars

-----------------------------------------------------------------------------
Stopped == fs.panic # "none"
Inode(e) == fs.ic[e].inum
HasName(i) == \E d \in Inum, n \in Name : fs.di[d].ents[n] = i

\* A directory that was removed while some process was in it.
Removed(d) == d # ROOTINO /\ fs.di[d].type = "DIR" /\ ~HasName(d)

\* The count of an open file is the number of descriptors that refer to it:
\* through dup, fork, exit, failing opens and failing pipes no file is closed
\* under one of its users or kept after the last.
FileRefsMatch ==
  ~Stopped => \A f \in File :
    ftable[f].ref = Cardinality({pf \in Proc \X Fd : ofile[pf[1]][pf[2]] = f})

\* In-memory pointers to a cache entry.
Pointers(e) ==
  Cardinality({f \in File : ftable[f].type = "INODE" /\ ftable[f].ip = e})
    + Cardinality({p \in alive : cwd[p] = e})

\* Every system call, on every path through it, gives back the references it
\* takes: those that are left belong to open files and working directories, or
\* were lost by the two calls that are known to lose one, utime and exit.
RefsAccountedFor ==
  ~Stopped => \A e \in Icache : fs.ic[e].ref = Pointers(e) + leaked[e]

\* The cache agrees with the disk: an inode is cached once, one that is in use
\* is not freed, and what the cache says of it is on the disk.
CacheCoherent ==
  ~Stopped => \A e \in Icache : fs.ic[e].ref > 0 =>
    /\ \A e2 \in Icache : fs.ic[e2].ref > 0 /\ Inode(e2) = Inode(e) => e2 = e
    /\ fs.di[Inode(e)].type # "none"
    /\ fs.ic[e].valid => /\ fs.ic[e].type = fs.di[Inode(e)].type
                         /\ fs.ic[e].nlink = fs.di[Inode(e)].nlink

\* Links to inode i on disk: its names, and the ".." of its subdirectories.
Links(i) ==
  Cardinality({dn \in Inum \X Name : fs.di[dn[1]].ents[dn[2]] = i})
    + Cardinality({d \in Inum : HasName(d) /\ fs.di[d].ents[".."] = i})

\* nlink is never less than the number of links, so that no inode is freed
\* while a directory entry leads to it.
LinksCounted == ~Stopped => \A i \in Inum : fs.di[i].nlink >= Links(i)

\* Directories form a tree: a directory has one name, and its ".." is the
\* directory that has it.
DirectoriesFormATree ==
  ~Stopped => \A d, x \in Inum, n \in Name :
    fs.di[d].type = "DIR" /\ fs.di[x].ents[n] = d =>
      /\ fs.di[d].ents["."] = d /\ fs.di[d].ents[".."] = x
      /\ \A y \in Inum, m \in Name : fs.di[y].ents[m] = d => y = x /\ m = n

\* The kernel panics in these calls only when the inode cache or the disk has
\* no inode left, or when a process follows ".." from a removed directory to
\* where its parent was.
PanicsExplained ==
  \/ ~Stopped
  \/ fs.panic = "iget: no inodes" /\ \A e \in Icache : fs.ic[e].ref > 0
  \/ fs.panic = "ialloc: no inodes" /\ \A i \in Inum : fs.di[i].type # "none"
  \/ fs.panic = "ilock: no type" /\ \E d \in Inum : Removed(d)

\* What fs.c says of ip->ref: it tracks the number of pointers to the entry.
\* An entry with fewer references than pointers can be recycled for another
\* inode, and a working directory changes under its process.
PointersHaveRefs == ~Stopped => \A e \in Icache : fs.ic[e].ref >= Pointers(e)
=============================================================================
