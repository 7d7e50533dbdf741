-------------------------------- MODULE Inode -------------------------------
(***************************************************************************)
(* Inodes and their references: the inode cache and directories of fs.c,   *)
(* the file table of file.c, and the system calls of sysfile.c that make   *)
(* and drop names and references: open, mkdir, mknod, link, unlink, chdir, *)
(* close and dup.                                                          *)
(*                                                                         *)
(* From taking an inode's sleep lock to giving it back is one step, unless *)
(* the code waits for a second lock meanwhile; so is what happens under    *)
(* icache.lock or ftable.lock.  Contents are left to FileBlocks; the data  *)
(* of a directory is its names, "." left out.                              *)
(***************************************************************************)
EXTENDS Naturals, Sequences, FiniteSets, FiniteSetsExt

CONSTANTS Procs,
          NINODES,    \* inodes on disk, 1..NINODES; ROOTINO is 1
          NINODE,     \* param.h: entries of the inode cache
          NFILE,      \* param.h: entries of the file table
          NOFILE,     \* param.h: open files of a process
          Calls,      \* what processes call, see CallType
          MaxLinks    \* bound: link() is not called on a file with so many

Names == {"a", "b", "d", ".."}
Paths == UNION {[1..n -> Names] : n \in 1..2}
\* root: paths begin with "/"; mode is of use to open, new to link.
CallType == [op : {"open", "mkdir", "mknod", "link", "unlink", "chdir"},
             path : Paths, root : BOOLEAN,
             mode : {"read", "write", "create"}, new : Paths]

ASSUME InodeAssumption ==
  /\ IsFiniteSet(Procs) /\ "none" \notin Procs
  /\ NINODES \in Nat \ {0} /\ NINODE \in Nat \ {0}
  /\ NFILE \in Nat /\ NOFILE \in Nat /\ Calls \subseteq CallType
  /\ MaxLinks \in Nat

Inums == 1..NINODES
Slots == 1..NINODE
Files == 1..NFILE
Fds == 0..NOFILE - 1
ROOTINO == 1
None == 0          \* no slot, no file, no inode

VARIABLES
  dinode,     \* on disk: type and nlink
  dir,        \* on disk: the names in a directory
  icache,     \* the cache's entries; type and nlink count while valid
  ftable,     \* ref, and the inode (FD_NONE: None)
  ofile,      \* per process
  cwd,        \* per process: its current directory
  proc,       \* per process: where it is, and the references it holds
  panicked    \* "no", or the function that panicked
vars == <<dinode, dir, icache, ftable, ofile, cwd, proc, panicked>>
files == <<ftable, ofile>>

NoNames == [n \in Names |-> None]
Unread == [inum |-> None, ref |-> 0, valid |-> FALSE, type |-> "free",
           nlink |-> 0, lock |-> "none"]
NoCall == [op |-> "none", path |-> <<>>, root |-> TRUE, mode |-> "read", new |-> <<>>]
\* at: namex()'s inode; dp, ip: the system call's; put: the inode that iput()
\* is dropping, after which the call goes on at then.
AtRest == [pc |-> "idle", call |-> NoCall, rest |-> <<>>, at |-> None,
           dp |-> None, ip |-> None, put |-> None, then |-> "idle"]

\* A disk with an empty root directory, which is everybody's cwd, and stays
\* that of init, who is not in Procs.
Init ==
  /\ dinode = [i \in Inums |-> IF i = ROOTINO THEN [type |-> "dir", nlink |-> 1]
                               ELSE [type |-> "free", nlink |-> 0]]
  /\ dir = [i \in Inums |-> IF i = ROOTINO THEN [NoNames EXCEPT ![".."] = ROOTINO]
                            ELSE NoNames]
  /\ icache = [s \in Slots |->
       IF s = 1 THEN [Unread EXCEPT !.inum = ROOTINO, !.ref = Cardinality(Procs) + 1]
                ELSE Unread]
  /\ ftable = [f \in Files |-> [ref |-> 0, ip |-> None]]
  /\ ofile = [p \in Procs |-> [fd \in Fds |-> None]]
  /\ cwd = [p \in Procs |-> 1]
  /\ proc = [p \in Procs |-> AtRest]
  /\ panicked = "no"

At(p, l) == panicked = "no" /\ proc[p].pc = l
Panic(f) == panicked' = f /\ UNCHANGED <<dinode, dir, icache, files, cwd, proc>>
-----------------------------------------------------------------------------
(* The inode cache *)

\* The slot iget(i) returns in cache c; None: panic.
SlotFor(c, i) ==
  LET have == {s \in Slots : c[s].ref > 0 /\ c[s].inum = i}
      empty == {s \in Slots : c[s].ref = 0}
  IN  IF have # {} THEN Min(have)
      ELSE IF empty # {} THEN Min(empty) ELSE None

\* The cache after iget(i).
iget(c, i) ==
  LET s == SlotFor(c, i) IN
  IF c[s].ref > 0 THEN [c EXCEPT ![s].ref = @ + 1]
  ELSE [c EXCEPT ![s] = [Unread EXCEPT !.inum = i, !.ref = 1]]

Unlocked(s) == icache[s].lock = "none"

\* Slot s after ilock() by p.
ilock(p, s) ==
  LET r == icache[s] IN
  [r EXCEPT !.lock = p, !.valid = TRUE,
            !.type = IF r.valid THEN @ ELSE dinode[r.inum].type,
            !.nlink = IF r.valid THEN @ ELSE dinode[r.inum].nlink]
\* The same when iunlock() follows in this step.
Seen(p, s) == [ilock(p, s) EXCEPT !.lock = "none"]

\* Mutation: iupdate() does not copy nlink.
iupdateTypeOnly(d, r) == [d EXCEPT ![r.inum].type = r.type]
\* The disk inode after iupdate() of cache entry r.
iupdate(d, r) == [d EXCEPT ![r.inum] = [type |-> r.type, nlink |-> r.nlink]]

\* Process p, with locals l, calls iput(l[which]) and then goes on at label then.
Putting(l, which, then) ==
  [l EXCEPT !.pc = "iput", !.put = l[which], ![which] = None, !.then = then]

\* Is this the last reference to an inode without links?
Last(s) == icache[s].valid /\ icache[s].nlink = 0 /\ icache[s].ref = 1

\* iput(): the test, under the sleep lock.
Iput(p) ==
  /\ At(p, "iput") /\ Unlocked(proc[p].put)
  /\ LET s == proc[p].put IN
     IF Last(s)
       THEN /\ icache' = [icache EXCEPT ![s].lock = p]
            /\ proc' = [proc EXCEPT ![p].pc = "ifree"]
       ELSE /\ proc' = [proc EXCEPT ![p].pc = "iref"]
            /\ UNCHANGED icache
  /\ UNCHANGED <<dinode, dir, files, cwd, panicked>>

\* itrunc(), type = 0, iupdate().
IputFree(p) ==
  /\ At(p, "ifree")
  /\ LET s == proc[p].put
         i == icache[s].inum
     IN  /\ dinode' = [dinode EXCEPT ![i] = [type |-> "free", nlink |-> 0]]
         /\ dir' = [dir EXCEPT ![i] = NoNames]
         /\ icache' = [icache EXCEPT ![s] = [Unread EXCEPT
                                            !.inum = i, !.ref = icache[s].ref]]
  /\ proc' = [proc EXCEPT ![p].pc = "iref"]
  /\ UNCHANGED <<files, cwd, panicked>>

\* ip->ref--.
IputRef(p) ==
  /\ At(p, "iref")
  /\ LET s == proc[p].put IN
     icache' = [icache EXCEPT ![s] =
       IF @.ref = 1 THEN Unread ELSE [@ EXCEPT !.ref = icache[s].ref - 1]]
  /\ proc' = [proc EXCEPT ![p] = IF @.then = "idle" THEN AtRest ELSE
                [@ EXCEPT !.pc = proc[p].then, !.put = None, !.then = "idle"]]
  /\ UNCHANGED <<dinode, dir, files, cwd, panicked>>
-----------------------------------------------------------------------------
(* Path names *)

\* A, unless ilock(s) panics.
Locking(p, s, A) ==
  IF ilock(p, s).type = "free" THEN Panic("ilock") ELSE A

\* A, unless iget(i) panics.
Getting(i, A) == IF SlotFor(icache, i) = None THEN Panic("iget") ELSE A

\* Is it nameiparent() that the call is in?
nameiparent(l) == CASE l.call.op = "open" -> l.call.mode = "create"
                    [] l.call.op = "chdir" -> FALSE
                    [] l.call.op = "link" -> l.ip # None
                    [] OTHER -> TRUE

\* Where namex() starts, and the cache after its iget() or idup().
StartSlot(p, c, call) == IF call.root THEN SlotFor(c, ROOTINO) ELSE cwd[p]
StartCache(p, c, call) == IF call.root THEN iget(c, ROOTINO)
                          ELSE [c EXCEPT ![cwd[p]].ref = @ + 1]

\* Mutation: sys_link() returns where it should go to bad.
NotFoundReturns(l) == "idle"
\* Where the call goes on with the inode of its path, with the directory of
\* its path, and without either.
AfterNamei(l) == CASE l.call.op = "link" -> "linkinc"
                   [] l.call.op = "chdir" -> "chdir" [] OTHER -> "open"
AfterParent(l) == IF l.call.op \in {"link", "unlink"} THEN l.call.op ELSE "create"
NotFound(l) == IF l.ip # None THEN "linkundo" ELSE "idle"

\* One turn of namex()'s loop, up to its iput(): the inode is locked, looked
\* through for the next element, and unlocked.
Namex(p) ==
  /\ At(p, "namex") /\ Unlocked(proc[p].at)
  /\ LET l == proc[p]
         s == l.at
         r == Seen(p, s)
         c == [icache EXCEPT ![s] = r]
         last == Len(l.rest) = 1
         i == dir[r.inum][Head(l.rest)]
         n == SlotFor(c, i)
     IN  Locking(p, s,
         CASE r.type = "dir" /\ nameiparent(l) /\ last ->
                /\ icache' = c
                /\ proc' = [proc EXCEPT ![p] =
                     [l EXCEPT !.pc = AfterParent(l), !.at = None, !.dp = s]]
                /\ UNCHANGED <<dinode, dir, files, cwd, panicked>>
           [] r.type = "dir" /\ ~(nameiparent(l) /\ last) /\ i # None ->
                Getting(i,
                /\ icache' = iget(c, i)
                /\ proc' = [proc EXCEPT ![p] =
                     [Putting(l, "at", IF last THEN AfterNamei(l) ELSE "namex")
                       EXCEPT !.rest = Tail(@), ![IF last THEN "ip" ELSE "at"] = n]]
                /\ UNCHANGED <<dinode, dir, files, cwd, panicked>>)
           [] OTHER ->
                /\ icache' = c
                /\ proc' = [proc EXCEPT ![p] = Putting(l, "at", NotFound(l))]
                /\ UNCHANGED <<dinode, dir, files, cwd, panicked>>)

\* A system call begins.
Call(p, call) ==
  /\ At(p, "idle")
  /\ icache' = StartCache(p, icache, call)
  /\ proc' = [proc EXCEPT ![p] =
       [AtRest EXCEPT !.pc = "namex", !.call = call, !.rest = call.path,
                      !.at = StartSlot(p, icache, call)]]
  /\ UNCHANGED <<dinode, dir, files, cwd, panicked>>
-----------------------------------------------------------------------------
(* create, open, mkdir *)

\* What ialloc() chooses from: it takes the first.
FreeInodes == {j \in Inums : dinode[j].type = "free"}

\* create(): the name is there, or an inode is allocated and named.  The new
\* inode stays locked while the directory is put.
Create(p) ==
  /\ At(p, "create") /\ Unlocked(proc[p].dp)
  /\ LET l == proc[p]
         s == l.dp
         r == Seen(p, s)
         c == [icache EXCEPT ![s] = r]
         name == Head(l.rest)
         i == dir[r.inum][name]
         new == Min(FreeInodes)
         type == CASE l.call.op = "mkdir" -> "dir" [] l.call.op = "mknod" -> "dev"
                   [] OTHER -> "file"
         nlink == IF type = "dir" THEN r.nlink + 1 ELSE r.nlink
         n == SlotFor(c, new)
     IN  Locking(p, s,
         CASE i # None -> Getting(i,
                /\ icache' = iget(c, i)
                /\ proc' = [proc EXCEPT ![p] = [Putting(l, "dp", "open")
                                                EXCEPT !.ip = SlotFor(c, i)]]
                /\ UNCHANGED <<dinode, dir, files, cwd, panicked>>)
           [] i = None /\ FreeInodes = {} -> Panic("ialloc")
           [] OTHER -> Getting(new,
                /\ dinode' = [dinode EXCEPT ![new] = [type |-> type, nlink |-> 1],
                                            ![r.inum].nlink = nlink]
                /\ dir' = [dir EXCEPT ![r.inum][name] = new,
                     ![new][".."] = IF type = "dir" THEN r.inum ELSE None]
                /\ icache' = [iget(c, new) EXCEPT
                     ![s].nlink = nlink,
                     ![n] = [@ EXCEPT !.lock = p, !.valid = TRUE,
                                      !.type = type, !.nlink = 1]]
                /\ proc' = [proc EXCEPT ![p] =
                     [Putting(l, "dp", IF type = "file" THEN "opened" ELSE "made")
                       EXCEPT !.ip = n]]
                /\ UNCHANGED <<files, cwd, panicked>>))

\* ilock() of the inode that was found, and what it may not be.
OpenLock(p) ==
  /\ At(p, "open") /\ Unlocked(proc[p].ip)
  /\ LET l == proc[p]
         s == l.ip
         r == ilock(p, s)
         refused == CASE l.call.op # "open" -> TRUE
                      [] l.call.mode = "create" -> r.type # "file"
                      [] l.call.mode = "write" -> r.type = "dir"
                      [] OTHER -> FALSE
     IN  Locking(p, s,
         /\ icache' = [icache EXCEPT ![s] = IF refused THEN Seen(p, s) ELSE r]
         /\ proc' = [proc EXCEPT ![p] = IF refused THEN Putting(l, "ip", "idle")
                                        ELSE [l EXCEPT !.pc = "opened"]]
         /\ UNCHANGED <<dinode, dir, files, cwd, panicked>>)

\* What filealloc() and fdalloc() choose from: they take the first.
FreeFiles == {f \in Files : ftable[f].ref = 0}
FreeFds(p) == {fd \in Fds : ofile[p][fd] = None}

\* filealloc() and fdalloc(); the descriptor takes over the reference.
Opened(p) ==
  /\ At(p, "opened")
  /\ LET l == proc[p]
         f == Min(FreeFiles)
     IN  /\ icache' = [icache EXCEPT ![l.ip].lock = "none"]
         /\ IF FreeFiles # {} /\ FreeFds(p) # {}
              THEN /\ ftable' = [ftable EXCEPT ![f] = [ref |-> 1, ip |-> l.ip]]
                   /\ ofile' = [ofile EXCEPT ![p][Min(FreeFds(p))] = f]
                   /\ proc' = [proc EXCEPT ![p] = AtRest]
              ELSE /\ proc' = [proc EXCEPT ![p] = Putting(l, "ip", "idle")]
                   /\ UNCHANGED files
  /\ UNCHANGED <<dinode, dir, cwd, panicked>>

\* mkdir and mknod: iunlockput() of the new inode.
Made(p) ==
  /\ At(p, "made")
  /\ icache' = [icache EXCEPT ![proc[p].ip].lock = "none"]
  /\ proc' = [proc EXCEPT ![p] = Putting(@, "ip", "idle")]
  /\ UNCHANGED <<dinode, dir, files, cwd, panicked>>

\* close: fileclose().
Close(p, fd) ==
  /\ At(p, "idle") /\ ofile[p][fd] # None
  /\ LET f == ofile[p][fd] IN
     IF ftable[f].ref > 1
       THEN /\ ftable' = [ftable EXCEPT ![f].ref = @ - 1]
            /\ UNCHANGED proc
       ELSE /\ ftable' = [ftable EXCEPT ![f] = [ref |-> 0, ip |-> None]]
            /\ proc' = [proc EXCEPT ![p] =
                 [AtRest EXCEPT !.pc = "iput", !.put = ftable[f].ip]]
  /\ ofile' = [ofile EXCEPT ![p][fd] = None]
  /\ UNCHANGED <<dinode, dir, icache, cwd, panicked>>

\* dup: fdalloc() and filedup().
Dup(p, fd) ==
  /\ At(p, "idle") /\ ofile[p][fd] # None /\ FreeFds(p) # {}
  /\ ofile' = [ofile EXCEPT ![p][Min(FreeFds(p))] = ofile[p][fd]]
  /\ ftable' = [ftable EXCEPT ![ofile[p][fd]].ref = @ + 1]
  /\ UNCHANGED <<dinode, dir, icache, proc, cwd, panicked>>
-----------------------------------------------------------------------------
(* unlink *)

\* The directory is locked and stays so if the name is found.
Unlink(p) ==
  /\ At(p, "unlink") /\ Unlocked(proc[p].dp)
  /\ LET l == proc[p]
         s == l.dp
         i == dir[icache[s].inum][Head(l.rest)]
         c == [icache EXCEPT ![s] = ilock(p, s)]
     IN  Locking(p, s,
         IF i = None \/ Head(l.rest) = ".."
           THEN /\ icache' = [icache EXCEPT ![s] = Seen(p, s)]
                /\ proc' = [proc EXCEPT ![p] = Putting(l, "dp", "idle")]
                /\ UNCHANGED <<dinode, dir, files, cwd, panicked>>
           ELSE Getting(i,
                /\ icache' = iget(c, i)
                /\ proc' = [proc EXCEPT ![p] = [l EXCEPT !.pc = "unlinklock",
                                                        !.ip = SlotFor(c, i)]]
                /\ UNCHANGED <<dinode, dir, files, cwd, panicked>>))

isdirempty(i) == \A n \in Names : n = ".." \/ dir[i][n] = None

\* The inode is locked too.  A directory in use is left alone; otherwise the
\* name is erased, and the directory put while the inode is locked.
UnlinkLock(p) ==
  /\ At(p, "unlinklock") /\ Unlocked(proc[p].ip)
  /\ LET l == proc[p]
         r == ilock(p, l.ip)
         d == icache[l.dp]
         nlink == IF r.type = "dir" THEN d.nlink - 1 ELSE d.nlink
     IN  Locking(p, l.ip,
         CASE r.nlink < 1 -> Panic("unlink")
           [] r.nlink > 0 /\ r.type = "dir" /\ ~isdirempty(r.inum) ->
                /\ icache' = [icache EXCEPT ![l.ip] = Seen(p, l.ip)]
                /\ proc' = [proc EXCEPT ![p] = Putting(l, "ip", "unlinkbad")]
                /\ UNCHANGED <<dinode, dir, files, cwd, panicked>>
           [] OTHER ->
                /\ dir' = [dir EXCEPT ![d.inum][Head(l.rest)] = None]
                /\ dinode' = [dinode EXCEPT ![d.inum].nlink = nlink]
                /\ icache' = [icache EXCEPT ![l.ip] = r, ![l.dp].nlink = nlink,
                                            ![l.dp].lock = "none"]
                /\ proc' = [proc EXCEPT ![p] = Putting(l, "dp", "unlinkdec")]
                /\ UNCHANGED <<files, cwd, panicked>>)

\* iunlockput() of the directory after a refusal.
UnlinkBad(p) ==
  /\ At(p, "unlinkbad")
  /\ icache' = [icache EXCEPT ![proc[p].dp].lock = "none"]
  /\ proc' = [proc EXCEPT ![p] = Putting(@, "dp", "idle")]
  /\ UNCHANGED <<dinode, dir, files, cwd, panicked>>

\* ip->nlink--, iupdate(), iunlockput().
UnlinkDec(p) ==
  /\ At(p, "unlinkdec")
  /\ LET s == proc[p].ip
         r == [icache[s] EXCEPT !.nlink = @ - 1, !.lock = "none"]
     IN  /\ icache' = [icache EXCEPT ![s] = r]
         /\ dinode' = iupdate(dinode, r)
  /\ proc' = [proc EXCEPT ![p] = Putting(@, "ip", "idle")]
  /\ UNCHANGED <<dir, files, cwd, panicked>>
-----------------------------------------------------------------------------
(* link *)

\* The old name's inode gets its link before the new name exists.
LinkInc(p) ==
  /\ At(p, "linkinc") /\ Unlocked(proc[p].ip)
  /\ ilock(p, proc[p].ip).nlink < MaxLinks
  /\ LET l == proc[p]
         s == l.ip
         r == Seen(p, s)
         up == [r EXCEPT !.nlink = @ + 1]
         c == [icache EXCEPT ![s] = up]
     IN  Locking(p, s,
         IF r.type = "dir"
           THEN /\ icache' = [icache EXCEPT ![s] = r]
                /\ proc' = [proc EXCEPT ![p] = Putting(l, "ip", "idle")]
                /\ UNCHANGED <<dinode, dir, files, cwd, panicked>>
           ELSE /\ dinode' = iupdate(dinode, up)
                /\ icache' = StartCache(p, c, l.call)
                /\ proc' = [proc EXCEPT ![p] =
                     [l EXCEPT !.pc = "namex", !.rest = l.call.new,
                               !.at = StartSlot(p, c, l.call)]]
                /\ UNCHANGED <<dir, files, cwd, panicked>>)

\* dirlink(): a name that exists is put while the directory is locked.
Link(p) ==
  /\ At(p, "link") /\ Unlocked(proc[p].dp)
  /\ LET l == proc[p]
         s == l.dp
         d == icache[s].inum
         name == Head(l.rest)
         i == dir[d][name]
         c == [icache EXCEPT ![s] = ilock(p, s)]
     IN  Locking(p, s,
         IF i # None
           THEN Getting(i,
                /\ icache' = iget(c, i)
                /\ proc' = [proc EXCEPT ![p] =
                     [l EXCEPT !.pc = "iput", !.put = SlotFor(c, i),
                               !.then = "linkbad"]]
                /\ UNCHANGED <<dinode, dir, files, cwd, panicked>>)
           ELSE /\ dir' = [dir EXCEPT ![d][name] = icache[l.ip].inum]
                /\ icache' = [icache EXCEPT ![s] = Seen(p, s)]
                /\ proc' = [proc EXCEPT ![p] = Putting(l, "dp", "linkput")]
                /\ UNCHANGED <<dinode, files, cwd, panicked>>)

\* The iput() that ends a successful link().
LinkPut(p) ==
  /\ At(p, "linkput")
  /\ proc' = [proc EXCEPT ![p] = Putting(@, "ip", "idle")]
  /\ UNCHANGED <<dinode, dir, icache, files, cwd, panicked>>

\* iunlockput() of the directory after dirlink() has failed.
LinkBad(p) ==
  /\ At(p, "linkbad")
  /\ icache' = [icache EXCEPT ![proc[p].dp].lock = "none"]
  /\ proc' = [proc EXCEPT ![p] = Putting(@, "dp", "linkundo")]
  /\ UNCHANGED <<dinode, dir, files, cwd, panicked>>

\* bad: the link is taken back.
LinkUndo(p) ==
  /\ At(p, "linkundo") /\ Unlocked(proc[p].ip)
  /\ LET s == proc[p].ip
         r == [Seen(p, s) EXCEPT !.nlink = @ - 1]
     IN  Locking(p, s,
         /\ icache' = [icache EXCEPT ![s] = r]
         /\ dinode' = iupdate(dinode, r)
         /\ proc' = [proc EXCEPT ![p] = Putting(@, "ip", "idle")]
         /\ UNCHANGED <<dir, files, cwd, panicked>>)
-----------------------------------------------------------------------------
(* chdir *)

\* The inode is looked at, and the old directory put before the new one is set.
Chdir(p) ==
  /\ At(p, "chdir") /\ Unlocked(proc[p].ip)
  /\ LET l == proc[p]
         r == Seen(p, l.ip)
     IN  Locking(p, l.ip,
         /\ icache' = [icache EXCEPT ![l.ip] = r]
         /\ IF r.type # "dir"
              THEN /\ proc' = [proc EXCEPT ![p] = Putting(l, "ip", "idle")]
                   /\ UNCHANGED cwd
              ELSE /\ proc' = [proc EXCEPT ![p] =
                        [l EXCEPT !.pc = "iput", !.put = cwd[p], !.then = "chdirset"]]
                   /\ cwd' = [cwd EXCEPT ![p] = None]
         /\ UNCHANGED <<dinode, dir, files, panicked>>)

ChdirSet(p) ==
  /\ At(p, "chdirset")
  /\ cwd' = [cwd EXCEPT ![p] = proc[p].ip]
  /\ proc' = [proc EXCEPT ![p] = AtRest]
  /\ UNCHANGED <<dinode, dir, icache, files, panicked>>
-----------------------------------------------------------------------------
Step(p) ==
  \/ \E call \in Calls : Call(p, call)
  \/ \E fd \in Fds : Close(p, fd) \/ Dup(p, fd)
  \/ Namex(p) \/ Create(p) \/ OpenLock(p) \/ Opened(p) \/ Made(p)
  \/ Unlink(p) \/ UnlinkLock(p) \/ UnlinkBad(p) \/ UnlinkDec(p)
  \/ LinkInc(p) \/ Link(p) \/ LinkPut(p) \/ LinkBad(p) \/ LinkUndo(p)
  \/ Chdir(p) \/ ChdirSet(p)
  \/ Iput(p) \/ IputFree(p) \/ IputRef(p)

Next == \E p \in Procs : Step(p)

Spec == Init /\ [][Next]_vars
-----------------------------------------------------------------------------
(* Properties *)

\* ip->ref "tracks the number of in-memory pointers to the entry": open files,
\* current directories and what system calls in progress hold, so that an entry
\* is recycled exactly when nothing refers to it any more.
RefsExact ==
  \A s \in Slots :
    icache[s].ref =
        Cardinality({f \in Files : ftable[f].ref > 0 /\ ftable[f].ip = s})
      + Cardinality({x \in Procs \X {"at", "dp", "ip", "put"} : proc[x[1]][x[2]] = s})
      + Cardinality({p \in Procs : cwd[p] = s})
      + IF icache[s].inum = ROOTINO THEN 1 ELSE 0

\* The sleep lock a process waits for.
Wanted(p) ==
  LET l == proc[p] IN
  CASE l.pc = "namex" -> l.at
    [] l.pc \in {"create", "unlink", "link"} -> l.dp
    [] l.pc \in {"open", "unlinklock", "linkinc", "linkundo", "chdir"} -> l.ip
    [] l.pc = "iput" -> l.put
    [] OTHER -> None

\* Does the call look up ".."?
Dotted(call) == \/ \E k \in DOMAIN call.path : call.path[k] = ".."
                \/ call.op = "link" /\ \E k \in DOMAIN call.new : call.new[k] = ".."


\* nlink is never less than the names that directories hold (for a directory:
\* with its subdirectories' ".."), whatever creates, links and unlinks overlap
\* and wherever they fail; so iput() takes no inode for nameless that has a name.
NamesCounted ==
  \A i \in Inums :
    LET names == {x \in Inums \X (Names \ {".."}) : dir[x[1]][x[2]] = i}
        below == {n \in Names \ {".."} : dir[i][n] # None /\ dinode[dir[i][n]].type = "dir"}
    IN  dinode[i].nlink >= Cardinality(names) + Cardinality(below)

WaitsFor(p, q) == Wanted(p) # None /\ icache[Wanted(p)].lock = q

\* Does p put a directory while it keeps an inode of it locked?  create() and
\* sys_unlink() do, and dirlink() when it finds the name "..".
PutsUpward(p) ==
  /\ proc[p].pc = "iput"
  /\ \/ proc[p].then \in {"opened", "made", "unlinkdec"}
     \/ proc[p].then = "linkbad" /\ Head(proc[p].rest) = ".."


(* What does not hold, see README. *)

\* "iput() frees if the reference and link counts have fallen to zero": an
\* inode without links is in use or free.  Fails with PlainCalls.
UnlinkedReclaimed ==
  \A i \in Inums :
    dinode[i].type # "free" /\ dinode[i].nlink = 0 =>
      \E s \in Slots : icache[s].ref > 0 /\ icache[s].inum = i

\* "The separation also helps avoid deadlock": no two processes wait for each
\* other's inode locks.  Fails with PlainCalls.
NoLockCycle == \A p, q \in Procs : ~(WaitsFor(p, q) /\ WaitsFor(q, p))
=============================================================================
