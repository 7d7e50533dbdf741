------------------------------- MODULE Memory -------------------------------
(***************************************************************************)
(* Physical pages and address spaces: kalloc.c, vm.c, exec(), growproc()   *)
(* and the memory side of the calls of Proc, whose actions are composed     *)
(* here with what they do to pages.  In Proc an allocation may fail at     *)
(* will; here it fails when the free list is empty.                        *)
(*                                                                         *)
(* Addresses and sizes are counted in units of which PGSIZE make a page, so *)
(* that sizes need not be page aligned.  One page table stands for those   *)
(* of the kernel's half of a directory.  What a call does without sleeping *)
(* and between two of its accesses to shared fields is one step.           *)
(***************************************************************************)
EXTENDS Proc, Sequences, SequencesExt

CONSTANTS NPAGES,      \* pages handed to freerange()
          PGSIZE,      \* units in a page
          NPTENTRIES,  \* pages mapped by one page table
          NUPDE,       \* page tables of the user half of a directory
          WORD,        \* 2^32: unsigned numbers are taken modulo WORD
          NSTACKS,     \* entries of stable.st
          MaxCalls,    \* bound: calls of sbrk() and exec() in a behaviour
          Segments,    \* where the segment of a program that is run may end
          Grows        \* arguments of sbrk()

Pages == 1..NPAGES
KERNBASE == NUPDE * NPTENTRIES * PGSIZE
Entries == 0..Max({NUPDE, NPTENTRIES - 1})

ASSUME MemoryAssumption ==
  /\ NPAGES \in Nat /\ PGSIZE \in Nat \ {0} /\ NPTENTRIES \in Nat \ {0}
  /\ NUPDE \in Nat \ {0} /\ NSTACKS \in Nat /\ MaxCalls \in Nat
  /\ Segments \subseteq Nat \ {0}
  /\ WORD \in Nat /\ Grows \subseteq Int
  /\ \A n \in Grows : n < WORD \div 2 /\ -n < WORD \div 2
  /\ KERNBASE <= WORD \div 2

VARIABLES
  free,             \* the pages on kmem.freelist
  page,             \* contents of the directories and page tables
  kstack, dir,      \* per slot: p->kstack, p->pgdir (0: none)
  sz, sbase, snum,  \* per slot: the fields of struct proc
  stable,           \* the entries of stable.st in use
  image,            \* per slot: the directory exec() builds, and its size
  brk,              \* per slot: argument of sbrk() and the size it has read,
                    \* until it succeeds
  ncalls            \* calls of sbrk() and exec() so far
mvars == <<free, page, kstack, dir, sz, sbase, snum, stable, image, brk, ncalls>>
allvars == <<vars, mvars>>
perproc == <<kstack, dir, sz, sbase, snum>>

NoImage == [dir |-> 0, sz |-> 0]
NoBrk == [n |-> 0, addr |-> 0]
Blank == [i \in Entries |-> 0]
-----------------------------------------------------------------------------
(* kalloc.c.  A memory m is the free list, the contents of pages, whether  *)
(* the last call succeeded, the directory made last and a panic.  Which of  *)
(* the free pages is at the head of the list makes no difference.           *)

Mem == [free |-> free, page |-> page, ok |-> TRUE, dir |-> 0, panic |-> FALSE]
Failed(m) == [m EXCEPT !.ok = FALSE]
Panicked(m) == [m EXCEPT !.panic = TRUE]

\* The page kalloc() returns, and the memory it leaves behind.
FirstFree(m) == Min(m.free)
kalloc(m) == [m EXCEPT !.free = @ \ {FirstFree(m)}, !.page[FirstFree(m)] = Blank]

\* kfree() of the pages in V.  A page that is freed twice is on the list twice;
\* here that is a panic.
kfree(m, V) == [m EXCEPT !.free = @ \cup V, !.panic = @ \/ V \cap m.free # {},
                         !.page = [v \in Pages |-> IF v \in V THEN Blank ELSE @[v]]]
-----------------------------------------------------------------------------
(* vm.c *)

PGROUNDUP(a) == ((a + PGSIZE - 1) \div PGSIZE) * PGSIZE
PDX(a) == a \div (PGSIZE * NPTENTRIES)
PTX(a) == (a \div PGSIZE) % NPTENTRIES

\* The addresses a of the loops "for(a = PGROUNDUP(from); a < to; a += PGSIZE)".
PageAddrs(from, to) ==
  [i \in 1..(PGROUNDUP(Max({from, to})) - PGROUNDUP(from)) \div PGSIZE |->
     PGROUNDUP(from) + (i - 1) * PGSIZE]

\* walkpgdir() without allocation, and the page it finds there (0: none).
Table(m, d, a) == m.page[d][PDX(a)]
Pte(m, d, a) == IF Table(m, d, a) = 0 THEN 0
                ELSE m.page[Table(m, d, a)][PTX(a)]

\* mappages() of one page v, with walkpgdir() making the page table.
mappages(m, d, a, v) ==
  IF Table(m, d, a) # 0
    THEN IF Pte(m, d, a) # 0 THEN Panicked(m)
         ELSE [m EXCEPT !.page[Table(m, d, a)][PTX(a)] = v]
  ELSE IF m.free = {} THEN Failed(m)
  ELSE [kalloc(m) EXCEPT !.page[d][PDX(a)] = FirstFree(m),
                         !.page[FirstFree(m)][PTX(a)] = v]

\* A new page at a; a page that cannot be mapped is given back.
NewPage(m, d, a) ==
  IF ~m.ok \/ m.panic THEN m
  ELSE IF m.free = {} THEN Failed(m)
  ELSE LET r == mappages(kalloc(m), d, a, FirstFree(m)) IN
       IF r.ok THEN r ELSE kfree(r, {FirstFree(m)})

\* The pages mapped from address newsz up to oldsz are freed.
deallocuvm(m, d, oldsz, newsz) ==
  LET out == {a \in Range(PageAddrs(newsz, oldsz)) : Pte(m, d, a) # 0}
      r == kfree(m, {Pte(m, d, a) : a \in out})
  IN  [r EXCEPT !.page = [v \in Pages |-> [i \in Entries |->
         IF \E a \in out : v = Table(m, d, a) /\ i = PTX(a) THEN 0 ELSE @[v][i]]]]

\* Mutation of allocuvm: what has been allocated is kept when memory runs out.
allocuvmKeeping(m, d, oldsz, newsz) ==
  IF newsz >= KERNBASE THEN Failed(m)
  ELSE FoldLeft(LAMBDA r, a : NewPage(r, d, a), m, PageAddrs(oldsz, newsz))

\* The page tables made on the way stay when it fails.
allocuvm(m, d, oldsz, newsz) ==
  IF newsz >= KERNBASE THEN Failed(m)
  ELSE LET r == FoldLeft(LAMBDA s, a : NewPage(s, d, a), m,
                         PageAddrs(oldsz, newsz))
       IN  IF r.ok THEN r ELSE deallocuvm(r, d, newsz, oldsz)

\* The page tables of a directory, the kernel's included.
Tables(m, d) == {m.page[d][i] : i \in 0..NUPDE} \ {0}

freevm(m, d) == kfree(deallocuvm(m, d, KERNBASE, 0), Tables(m, d) \cup {d})

setupkvm(m) ==
  IF m.free = {} THEN Failed(m)
  ELSE LET d == FirstFree(m)
           r == kalloc(m)
       IN  IF r.free = {} THEN Failed(freevm(r, d))
           ELSE [kalloc(r) EXCEPT !.page[d][NUPDE] = FirstFree(r), !.dir = d]

\* Pages that are not present are left out of the copy.
copyuvm(m, d, size) ==
  LET s == setupkvm(m)
      Copied(r, a) == IF Table(m, d, a) = 0 THEN Panicked(r)
                      ELSE IF Pte(m, d, a) = 0 THEN r
                      ELSE NewPage(r, s.dir, a)
      c == FoldLeft(Copied, s, PageAddrs(0, size))
  IN  IF ~s.ok THEN s
      ELSE IF c.ok THEN c ELSE Failed(freevm(c, s.dir))

\* One more call of sbrk() or exec().
Counted == ncalls < MaxCalls /\ ncalls' = ncalls + 1

\* The memory becomes m.
Becomes(m) == free' = m.free /\ page' = m.page
-----------------------------------------------------------------------------
\* exec() has given init a one-page program; its directory is page 1.
MemInit ==
  /\ Init
  /\ LET i0 == PGROUNDUP(1) + 2 * PGSIZE
         m0 == [free |-> Pages, page |-> [v \in Pages |-> Blank], ok |-> TRUE,
                dir |-> 0, panic |-> FALSE]
         s == setupkvm(m0)
         u == allocuvm(s, s.dir, 0, i0)
     IN  /\ free = u.free \ {FirstFree(u)} /\ page = u.page
         /\ kstack = [p \in Slots |-> IF p = initproc THEN FirstFree(u) ELSE 0]
         /\ dir = [p \in Slots |-> IF p = initproc THEN s.dir ELSE 0]
         /\ sz = [p \in Slots |-> IF p = initproc THEN i0 ELSE 0]
  /\ sbase = [p \in Slots |-> 0] /\ snum = [p \in Slots |-> 0]
  /\ stable = {}
  /\ image = [p \in Slots |-> NoImage] /\ brk = [p \in Slots |-> NoBrk]
  /\ ncalls = 0

\* The kernel stops; nothing of it is looked at again.
Panic == /\ panicked' = TRUE
         /\ UNCHANGED <<program, proc, pc, arg, counters, freed, lock, mvars>>

\* allocproc(): the kernel stack of the slot, for fork() and thread_create().
Alloc(p) ==
  /\ ForkAlloc(p) \/ CreateAlloc(p)
  /\ LET q == Min(Unusable) IN
     /\ proc'[q].state = "EMBRYO" <=> free # {}
     /\ kstack' = [kstack EXCEPT ![q] = IF free = {} THEN 0 ELSE FirstFree(Mem)]
     /\ free' = IF free = {} THEN free ELSE free \ {FirstFree(Mem)}
     /\ sbase' = [sbase EXCEPT ![q] = 0] /\ snum' = [snum EXCEPT ![q] = 0]
  /\ UNCHANGED <<page, dir, sz, stable, image, brk, ncalls>>

\* Mutation of ForkFailed: the kernel stack of the embryo is not freed.
ForkFailedKeeping(m, q) == m

\* fork() when copyuvm() has failed.
ForkFailed(m, q) == kfree(m, {kstack[q]})

\* fork(): copyuvm() reads the sizes and page tables without a lock.
ForkCopy(p) ==
  LET q == arg[p]
      r == copyuvm(Mem, dir[p], sz[p])
  IN  IF At(p, "fork") /\ r.panic THEN Panic
      ELSE /\ Fork(p)
           /\ proc'[q].state = "RUNNABLE" <=> r.ok
           /\ IF r.ok
                THEN /\ Becomes(r)
                     /\ dir' = [dir EXCEPT ![q] = r.dir]
                     /\ sz' = [sz EXCEPT ![q] = sz[p]]
                     /\ UNCHANGED kstack
                ELSE /\ Becomes(ForkFailed(r, q))
                     /\ dir' = [dir EXCEPT ![q] = 0]
                     /\ kstack' = [kstack EXCEPT ![q] = 0]
                     /\ UNCHANGED sz
           /\ UNCHANGED <<sbase, snum, stable, image, brk, ncalls>>
-----------------------------------------------------------------------------
(* Thread stacks *)

\* get_base(): the lowest entry of stable.st that is not in use.
FreeStacks == 0..NSTACKS - 1 \ stable
StackBase(size, i) == size + 2 * PGSIZE * (i + 1)

\* The locked part of thread_create().  When the stack cannot be allocated, the
\* kernel stack and the entry of stable.st are kept.
CreateStack(p) ==
  /\ At(p, "create")
  /\ IF FreeStacks = {} THEN Panic
     ELSE LET q == arg[p]
              i == Min(FreeStacks)
              b == StackBase(sz[p], i)
              r == allocuvm(Mem, dir[p], b, b + 2 * PGSIZE)
          IN  IF r.panic THEN Panic
              ELSE /\ Create(p)
                   /\ proc'[q].state = "RUNNABLE" <=> r.ok
                   /\ Becomes(r)
                   /\ dir' = [dir EXCEPT ![q] = dir[p]]
                   /\ sz' = [sz EXCEPT ![q] = IF r.ok THEN b + 2 * PGSIZE ELSE 0]
                   /\ sbase' = [sbase EXCEPT ![q] = b]
                   /\ snum' = [snum EXCEPT ![q] = i]
                   /\ stable' = stable \cup {i}
                   /\ UNCHANGED <<kstack, image, brk, ncalls>>

\* What exit() and thread_join() free of an LWP.
ReapThread(m, q) ==
  deallocuvm(kfree(m, {kstack[q]}), dir[q], sbase[q] + 2 * PGSIZE, sbase[q])

\* The slots in Q have been reaped: kstack, sbase and snum are cleared.
Cleared(Q) ==
  /\ kstack' = [q \in Slots |-> IF q \in Q THEN 0 ELSE kstack[q]]
  /\ sbase' = [q \in Slots |-> IF q \in Q THEN 0 ELSE sbase[q]]
  /\ snum' = [q \in Slots |-> IF q \in Q THEN 0 ELSE snum[q]]

\* exit() does not give the entries of stable.st back.
ExitFrees(p) ==
  /\ ExitReap(p)
  /\ LET dead == {q \in Lwps(p) : proc[q].state = "ZOMBIE"} IN
     /\ Becomes(FoldLeft(ReapThread, Mem, SetToSortSeq(dead, <)))
     /\ Cleared(dead)
  /\ UNCHANGED <<dir, sz, stable, image, brk, ncalls>>

JoinFrees(p) ==
  /\ Join(p) \/ JoinAgain(p)
  /\ LET dead == {q \in Lwps(p) : /\ proc[q].lwpid = arg'[p]
                                  /\ proc[q].state = "ZOMBIE"}
         gone == IF dead = {} THEN {} ELSE {Min(dead)}
     IN  /\ Becomes(FoldLeft(ReapThread, Mem, SetToSortSeq(gone, <)))
         /\ stable' = stable \ {snum[q] : q \in gone}
         /\ Cleared(gone)
  /\ UNCHANGED <<dir, sz, image, brk, ncalls>>

\* wait() frees the kernel stack and the whole address space of the child.
WaitFrees(p) ==
  /\ Wait(p)
  /\ LET dead == {q \in Children(p) : proc[q].state = "ZOMBIE"} IN
     IF dead = {} THEN UNCHANGED <<free, page, kstack>>
     ELSE /\ Becomes(freevm(kfree(Mem, {kstack[Min(dead)]}), dir[Min(dead)]))
          /\ kstack' = [kstack EXCEPT ![Min(dead)] = 0]
  /\ UNCHANGED <<dir, sz, sbase, snum, stable, image, brk, ncalls>>
-----------------------------------------------------------------------------
(* sbrk and growproc *)

\* Whose size an LWP grows.
SizeOf(p) == IF proc[p].lwpid > 0 THEN proc[p].parent ELSE p

\* Mutation of SbrkAddr: the address is rounded to a page.
SbrkAddrRounded(p) == PGROUNDUP(sz[p])

\* The address sys_sbrk() will return, read before growproc() takes the lock.
SbrkAddr(p) == sz[p]

Sbrk(p, n) ==
  /\ Enters(p, "sbrk") /\ Counted
  /\ brk' = [brk EXCEPT ![p] = [n |-> n, addr |-> SbrkAddr(p)]]
  /\ Goto(p, "sbrk")
  /\ UNCHANGED <<proc, arg, counters, rest, free, page, perproc, stable, image>>

\* The entries of stable.st growproc() takes: n / (2*PGSIZE), rounded to zero.
Taken(n) == IF n > 0 THEN n \div (2 * PGSIZE) ELSE 0
Lowest(k) == {i \in FreeStacks : Cardinality({j \in FreeStacks : j < i}) < k}

\* growproc().  On failure it returns with ptable.lock held.
Grow(p) ==
  /\ At(p, "sbrk")
  /\ LET n == brk[p].n
         q == SizeOf(p)
         new == (sz[q] + n) % WORD
         r == IF n > 0 THEN allocuvm(Mem, dir[p], sz[q], new)
              ELSE deallocuvm(Mem, dir[p], sz[q], new)
         size == IF n <= 0 /\ new >= sz[q] THEN sz[q] ELSE new
         fails == IF n > 0 THEN ~r.ok ELSE n < 0 /\ size = 0
     IN  IF r.panic \/ Cardinality(FreeStacks) < Taken(n) THEN Panic
         ELSE /\ Becomes(r)
              /\ stable' = stable \cup Lowest(Taken(n))
              /\ snum' = IF Taken(n) = 0 THEN snum
                         ELSE [snum EXCEPT ![p] = Max(Lowest(Taken(n)))]
              /\ sz' = IF fails THEN sz ELSE [sz EXCEPT ![q] = size]
              /\ lock' = IF fails THEN p ELSE lock
              /\ brk' = IF fails THEN brk ELSE [brk EXCEPT ![p] = NoBrk]
              /\ Goto(p, "user")
              /\ UNCHANGED <<program, proc, arg, counters, freed, panicked,
                             kstack, dir, sbase, image, ncalls>>
-----------------------------------------------------------------------------
(* exec.  Without the file, or with a bad header, it changes nothing. *)

\* setupkvm() and the segment of the program, up to address e.  exec() sleeps
\* for the disk while it loads the segment.
Exec(p, e) ==
  /\ Enters(p, "exec") /\ Counted
  /\ program.joins => Lwps(p) = {}
  /\ LET s == setupkvm(Mem)
         r == allocuvm(s, s.dir, 0, e)
     IN  IF s.ok /\ r.ok
           THEN /\ Becomes(r)
                /\ image' = [image EXCEPT ![p] = [dir |-> s.dir, sz |-> e]]
                /\ Goto(p, "exec")
           ELSE /\ Becomes(IF s.ok THEN freevm(r, s.dir) ELSE s)
                /\ UNCHANGED <<image, pc>>
  /\ UNCHANGED <<proc, arg, counters, rest, perproc, stable, brk>>

\* The user stack above its guard page.
ExecStack(p) == LET top == PGROUNDUP(image[p].sz) IN
  allocuvm(Mem, image[p].dir, top, top + 2 * PGSIZE)

\* "bad:" - the segment cannot be read, the stack cannot be allocated, or the
\* arguments do not fit.
ExecBad(p) ==
  /\ At(p, "exec")
  /\ \/ Becomes(freevm(Mem, image[p].dir))
     \/ Becomes(freevm(ExecStack(p), image[p].dir))
  /\ image' = [image EXCEPT ![p] = NoImage]
  /\ Goto(p, "user")
  /\ UNCHANGED <<proc, arg, counters, rest, perproc, stable, brk, ncalls>>

\* "Commit to the user image" frees the old one.
ExecCommit(p) ==
  /\ At(p, "exec") /\ ExecStack(p).ok
  /\ Becomes(freevm(ExecStack(p), dir[p]))
  /\ dir' = [dir EXCEPT ![p] = image[p].dir]
  /\ sz' = [sz EXCEPT ![p] = PGROUNDUP(image[p].sz) + 2 * PGSIZE]
  /\ image' = [image EXCEPT ![p] = NoImage]
  /\ Goto(p, "user")
  /\ UNCHANGED <<proc, arg, counters, rest, kstack, sbase, snum, stable, brk, ncalls>>
-----------------------------------------------------------------------------
\* The actions of Proc that allocate and free nothing.
Other(p) == /\ \/ Exit(p) \/ ExitFinish(p) \/ CreateLoad(p) \/ CreateStore(p)
               \/ ThreadExit(p) \/ ThreadExitFinish(p)
            /\ UNCHANGED mvars

MemNext == \E p \in Slots :
           \/ Alloc(p) \/ ForkCopy(p) \/ CreateStack(p) \/ ExitFrees(p) \/ JoinFrees(p)
           \/ WaitFrees(p) \/ Other(p)
           \/ \E n \in Grows : Sbrk(p, n)
           \/ Grow(p)
           \/ \E e \in Segments : Exec(p, e)
           \/ ExecBad(p) \/ ExecCommit(p)

MemSpec == MemInit /\ [][MemNext]_allvars
-----------------------------------------------------------------------------
(* Properties. *)

\* The processes that own their address space; an LWP shares its main thread's.
Owners == {p \in Made : Role(p) # "lwp"}

\* Kernel stacks of slots that are not in use: the next allocproc() would take
\* such a slot and forget them.
Lost == {kstack[p] : p \in Unusable} \ {0}

\* Every page that is not lost is on the free list or has exactly one use: it is
\* the kernel stack of one process, one directory, one page table, or mapped at one
\* address of one address space.  So nothing is freed twice, and whatever fails
\* half-way - fork(), exec(), sbrk() - has given everything back; only a failed
\* thread_create() loses a page, the kernel stack of the LWP it was making.
PagesAccounted ==
  LET dirs == {dir[p] : p \in Owners} \cup ({image[p].dir : p \in Slots} \ {0})
      TablesOf(d) == {page[d][i] : i \in 0..NUPDE - 1} \ {0}
      uses(v) ==
        Cardinality({p \in Slots \ Unusable : kstack[p] = v})
          + Cardinality({p \in Owners : dir[p] = v})
          + Cardinality({p \in Slots : image[p].dir = v})
          + Cardinality({x \in dirs \X (0..NUPDE) : page[x[1]][x[2]] = v})
          + Cardinality({x \in (UNION {TablesOf(d) : d \in dirs})
                                 \X (0..NPTENTRIES - 1) : page[x[1]][x[2]] = v})
  IN  /\ \A v \in Pages : uses(v) = IF v \in free \cup Lost THEN 0 ELSE 1
      /\ Lost \cap free = {}
      /\ Lost # {} => /\ lock # NoProc /\ Lost = {kstack[arg[lock]]}
                      /\ proc[arg[lock]].lwpid > 0

\* argptr(): a system call takes a buffer of n units at address i.
argptr(p, i, n) == ~(n < 0 \/ i >= sz[p] \/ (i + n) % WORD > sz[p])

Units == 0..KERNBASE - 1
Mapped(p) == {a \in Units : Pte(Mem, dir[p], a) # 0}
StackOf(q) == {a \in Units : /\ a >= PGROUNDUP(sbase[q])
                             /\ a < PGROUNDUP(sbase[q] + 2 * PGSIZE)}

\* What a failed growproc() has unmapped beyond what it had mapped: everything, when
\* the new size was 0, or the stacks of threads in the range of the growth.
Undone(p) ==
  IF lock \notin {p} \cup Lwps(p) THEN {}
  ELSE LET n == brk[lock].n
           new == (sz[p] + n) % WORD
       IN  {a \in Units : \/ n < 0 /\ a < PGROUNDUP(sz[p])
                          \/ /\ n > 0 /\ new < KERNBASE
                             /\ a >= PGROUNDUP(sz[p]) /\ a < PGROUNDUP(new)}

\* A process has mapped what argptr() lets a system call touch, to the end of the
\* last page, the stacks of its threads, and nothing else, also after exec() or
\* thread_create() have failed half-way.  After a failed sbrk() exactly what
\* growproc() has undone too much is missing.
ImageExact ==
  \A p \in Owners : proc[p].lwpid = 0 =>
    Mapped(p) = ({a \in Units : argptr(p, (a \div PGSIZE) * PGSIZE, 0)}
                   \cup UNION {StackOf(q) : q \in Lwps(p) \cap Made}) \ Undone(p)

\* What sbrk() returns is the start of memory that has become usable with the
\* call and was not before, also next to the stacks of running threads.
SbrkFresh ==
  [][\A p \in Slots : Grow(p) /\ brk[p].n > 0 /\ ~panicked' /\ lock' = NoProc =>
       \A a \in brk[p].addr..brk[p].addr + brk[p].n - 1 :
         /\ a < sz'[p] /\ a >= sz[p]
         /\ Pte([Mem EXCEPT !.page = page'], dir[p], a) # 0]_allvars
=============================================================================
