----------------------------- MODULE InodeLinks -----------------------------
(***************************************************************************)
(* The links of inodes are counted, whatever the number of processes,      *)
(* inodes, cache entries and files and whatever processes call.            *)
(***************************************************************************)
EXTENDS InodeRefs

\* Leaves that need arithmetic, or more than first-order reasoning, name SMT.
USE Zenon

-----------------------------------------------------------------------------
(* The inductive invariant of the link counts. *)

\* An inode is cached once.
OneSlot(c) ==
  \A s, t \in Slots : c[s].inum # None /\ c[s].inum = c[t].inum => s = t

\* An entry that is locked has been read, and then is what the disk d has.
Agrees(r, d) ==
  /\ r.lock # "none" => r.valid
  /\ r.valid => /\ r.inum # None /\ r.type # "free"
                /\ r.type = d[r.inum].type /\ r.nlink = d[r.inum].nlink
Coherent(c, d) == \A s \in Slots : Agrees(c[s], d)

\* The locks a call with locals l holds while it waits for another, or is in iput().
HoldsIp == {"opened", "made", "unlinkdec"}
HoldsDp == {"unlinklock", "unlinkbad", "linkbad"}
Locked(l) == {s \in Slots : \/ l.pc = "ifree" /\ s = l.put
                            \/ Point(l) \in HoldsIp /\ s = l.ip
                            \/ Point(l) \in HoldsDp /\ s = l.dp}
Locks == \A p \in Procs, s \in Slots : icache[s].lock = p <=> s \in Locked(proc[p])

\* A free inode has no links and no names.
FreeEmpty(d, e) == \A i \in Inums : d[i].type = "free" => d[i].nlink = 0 /\ e[i] = NoNames

\* link() has counted a link that no directory holds yet, or that it is to take
\* back; unlink() has erased a name and not yet taken its link.
Linking(l) == Point(l) \in {"namex", "link", "linkbad", "linkundo"} /\ l.ip # None
Owes(l) == Linking(l) \/ Point(l) = "unlinkdec"

\* What a call relies on while others run: the inode it links is no directory,
\* the name it found to erase is there, the inode it frees has no links.  No
\* iput() comes between finding the name and erasing it.
Relies(l, c, d, e) ==
  /\ l.then # "unlinklock"
  /\ l.pc = "unlinklock" => /\ Head(l.rest) # ".."
                            /\ e[c[l.dp].inum][Head(l.rest)] = c[l.ip].inum
  /\ l.pc = "ifree" => /\ d[c[l.put].inum].nlink = 0
                       /\ Point(l) \in HoldsIp => l.ip # l.put
                       /\ Point(l) \in HoldsDp => l.dp # l.put
LinksFile(l, c, d) == Linking(l) => d[c[l.ip].inum].type \notin {"dir", "free"}

\* The names of inode i, its subdirectories, and the calls that owe it a link.
Entries == Inums \X (Names \ {".."})
NamesOf(e, i) == {x \in Entries : e[x[1]][x[2]] = i}
Below(d, e, i) == {n \in Names \ {".."} : e[i][n] # None /\ d[e[i][n]].type = "dir"}
Debtors(pr, c, i) == {p \in Procs : Owes(pr[p]) /\ c[pr[p].ip].inum = i}
Enough(k, N, B, D) == k >= Cardinality(N) + Cardinality(B) + Cardinality(D)
Counted(d, e, pr, c, i) ==
  Enough(d[i].nlink, NamesOf(e, i), Below(d, e, i), Debtors(pr, c, i))

LinkInv ==
  /\ OneSlot(icache) /\ Coherent(icache, dinode) /\ Locks /\ FreeEmpty(dinode, dir)
  /\ \A p \in Procs : /\ Relies(proc[p], icache, dinode, dir)
                      /\ LinksFile(proc[p], icache, dinode)
  /\ \A i \in Inums : Counted(dinode, dir, proc, icache, i)
-----------------------------------------------------------------------------
(* The cache, its locks and the disk. *)

\* An entry that is in use before and after is for the same inode.
Stays(b, c) == \A s \in Slots : b[s].inum # None /\ c[s].inum # None => c[s].inum = b[s].inum

\* A cache that a step of p may leave, with disk d, when p then holds locks L.
Good(c, d, p, L) ==
  /\ OneSlot(c) /\ Coherent(c, d) /\ Stays(icache, c)
  /\ \A s \in Slots : /\ c[s].lock = p <=> s \in L
                      /\ \A q \in Procs \ {p} : c[s].lock = q <=> icache[s].lock = q

\* The cache as it is.
LEMMA GoodNow ==
  ASSUME LinkInv, NEW p \in Procs
  PROVE  Good(icache, dinode, p, Locked(proc[p]))
BY DEF LinkInv, Good, Stays, Locks

\* Entries that differ in their references only.
Alike(r, u) == /\ u.inum = r.inum /\ u.valid = r.valid /\ u.type = r.type
               /\ u.nlink = r.nlink /\ u.lock = r.lock

\* idup(), and iget() of an inode that is cached.
LEMMA GoodAlike ==
  ASSUME NEW b, NEW c, NEW d, NEW p, NEW L, Good(b, d, p, L),
         \A s \in Slots : Alike(b[s], c[s])
  PROVE  Good(c, d, p, L)
<1>0. /\ OneSlot(b) /\ Coherent(b, d)
      /\ \A s \in Slots : c[s].inum = b[s].inum
  BY DEF Good, Alike
<1>1. OneSlot(c)
  BY <1>0 DEF OneSlot
<1>2. Coherent(c, d)
  <2> SUFFICES ASSUME NEW s \in Slots PROVE Agrees(c[s], d)
    BY DEF Coherent
  <2>1. Agrees(b[s], d) /\ Alike(b[s], c[s])
    BY <1>0 DEF Coherent
  <2> QED
    BY <2>1 DEF Agrees, Alike
<1>3. Stays(icache, c)
  BY DEF Good, Stays, Alike
<1>4. \A s \in Slots : c[s].lock = b[s].lock
  BY DEF Alike
<1> QED
  BY <1>1, <1>2, <1>3, <1>4 DEF Good

\* Inodes that are not in J stay.
SameBut(d, f, J) == \A i \in Inums \ J : f[i] = d[i]

\* From locks L to M, with slot s locked (b) or not.
Passes(L, M, s, b) == \A t \in Slots : t \in M <=> IF t = s THEN b ELSE t \in L

\* An entry is locked, read, changed with its inode on disk, or unlocked.
LEMMA GoodSet ==
  ASSUME NEW c \in [Slots -> Entry], NEW d, NEW f, NEW p \in Procs, NEW L, NEW M,
         Good(c, d, p, L), NEW s \in Slots, NEW r, Kept(r, c[s]),
         c[s].lock \in {p, "none"}, r.lock \in {p, "none"}, Agrees(r, f),
         SameBut(d, f, {c[s].inum}),
         Passes(L, M, s, r.lock = p)
  PROVE  Good([c EXCEPT ![s] = r], f, p, M)
<1> DEFINE e == [c EXCEPT ![s] = r]
<1>1. e[s] = r /\ \A t \in Slots \ {s} : e[t] = c[t]
  OBVIOUS
<1>2. \A t \in Slots : e[t].inum = c[t].inum
  BY <1>1 DEF Kept
<1> HIDE DEF e
<1>0. OneSlot(c) /\ Coherent(c, d)
  BY DEF Good
<1>3. OneSlot(e)
  BY <1>0, <1>2 DEF OneSlot
<1>4. Stays(icache, e)
  BY <1>2 DEF Good, Stays
<1>5. Coherent(e, f)
  <2> SUFFICES ASSUME NEW t \in Slots, t # s PROVE Agrees(c[t], f)
    BY <1>1 DEF Coherent
  <2>1. Agrees(c[t], d) /\ (c[t].inum # None => c[t].inum # c[s].inum)
    BY DEF Good, Coherent, OneSlot
  <2>2. c[t].inum \in Inums \cup {None}
    BY EntryFields
  <2>3. c[t].inum # None => f[c[t].inum] = d[c[t].inum]
    BY <2>1, <2>2 DEF SameBut
  <2> QED
    BY <2>1, <2>3 DEF Agrees
<1>6. ASSUME NEW t \in Slots
      PROVE  /\ e[t].lock = p <=> t \in M
             /\ \A q \in Procs \ {p} : e[t].lock = q <=> icache[t].lock = q
  <2>1. "none" \notin Procs
    BY InodeAssumption
  <2>2. CASE t = s
    <3>1. s \in M <=> r.lock = p
      BY DEF Passes
    <3>2. ASSUME NEW q \in Procs \ {p} PROVE icache[s].lock # q /\ r.lock # q
      <4>1. c[s].lock = q <=> icache[s].lock = q
        BY DEF Good
      <4>2. q # p /\ q # "none"
        BY <2>1
      <4> QED
        BY <4>1, <4>2
    <3> QED
      BY <1>1, <2>2, <3>1, <3>2
  <2>3. CASE t # s
    <3>1. /\ c[t].lock = p <=> t \in L
          /\ \A q \in Procs \ {p} : c[t].lock = q <=> icache[t].lock = q
      BY DEF Good
    <3>2. t \in M <=> t \in L
      BY <2>3 DEF Passes
    <3> QED
      BY <1>1, <2>3, <3>1, <3>2
  <2> QED
    BY <2>2, <2>3
<1> QED
  BY <1>3, <1>4, <1>5, <1>6 DEF Good, e

\* iget().
LEMMA GoodGet ==
  ASSUME NEW c, CacheOK(c), SameRefs(icache, c), NEW d, NEW p \in Procs, NEW L,
         Good(c, d, p, L), NEW i \in Inums, SlotFor(c, i) # None
  PROVE  Good(iget(c, i), d, p, L)
<1> DEFINE n == SlotFor(c, i)
           e == iget(c, i)
<1>1. /\ CacheOK(e) /\ Gets(c, e, n, i) /\ \A s \in Slots \ {n} : e[s] = c[s]
      /\ c[n].ref > 0 => e[n] = [c[n] EXCEPT !.ref = @ + 1]
      /\ c[n].ref = 0 => e[n] = Fresh(i, 1)
  BY IgetGets
<1> HIDE DEF n, e
<1>2. n \in Slots /\ c[n] \in Entry /\ c[n].ref \in Nat
  BY <1>1, EntryFields DEF Gets, CacheOK
<1>3. c[n].ref > 0 \/ c[n].ref = 0
  BY <1>2, SMT
<1>4. CASE c[n].ref > 0
  <2>1. c[n].ref + 1 \in Nat
    BY <1>2, SMT
  <2>2. Alike(c[n], e[n])
    <3>1. e[n] = [c[n] EXCEPT !.ref = c[n].ref + 1]
      BY <1>1, <1>4
    <3> DEFINE m == c[n].ref + 1
    <3> HIDE DEF m
    <3>2. Alike(c[n], [c[n] EXCEPT !.ref = m])
      BY <1>2, <2>1, RefSet DEF Alike, m
    <3> QED
      BY <3>1, <3>2 DEF m
  <2>3. \A s \in Slots : Alike(c[s], e[s])
    BY <1>1, <2>2 DEF Alike
  <2> QED
    BY <2>3, GoodAlike DEF e
<1>5. CASE c[n].ref = 0
  <2>1. /\ e[n].inum = i /\ e[n].valid = FALSE /\ e[n].lock = "none"
    <3>1. i \in Inums \cup {None} /\ 1 \in Nat
      BY SMT
    <3>2. Fresh(i, 1).inum = i /\ Fresh(i, 1).lock = "none"
      BY <3>1, UnreadFields
    <3>3. Fresh(i, 1).valid = FALSE
      BY DEF Fresh, Unread
    <3> QED
      BY <1>1, <1>5, <3>2, <3>3
  <2>2. c[n].inum = None /\ \A s \in Slots : c[s].inum # i
    BY <1>1, <1>2, <1>5 DEF CacheOK, Gets
  <2>3. c[n].lock = "none"
    BY <1>2, <2>2 DEF Good, Coherent, Agrees
  <2>8. OneSlot(c) /\ Coherent(c, d)
    BY DEF Good
  <2>4. OneSlot(e)
    <3> SUFFICES ASSUME NEW s \in Slots, NEW t \in Slots, e[s].inum # None,
                        e[s].inum = e[t].inum
                 PROVE  s = t
      BY DEF OneSlot
    <3>1. CASE s = n \/ t = n
      BY <1>1, <2>1, <2>2, <3>1
    <3>2. CASE s # n /\ t # n
      BY <1>1, <2>8, <3>2 DEF OneSlot
    <3> QED
      BY <3>1, <3>2
  <2>5. Coherent(e, d)
    BY <1>1, <2>1, <2>8 DEF Coherent, Agrees
  <2>6. Stays(icache, e)
    BY <1>1, <1>2, <2>2 DEF Good, Stays, SameRefs
  <2>7. \A s \in Slots : e[s].lock = c[s].lock
    BY <1>1, <2>1, <2>3
  <2> QED
    BY <2>4, <2>5, <2>6, <2>7 DEF Good, e
<1> QED
  BY <1>3, <1>4, <1>5

\* The iget() or idup() that namex() starts with.
LEMMA GoodStart ==
  ASSUME NEW c, CacheOK(c), SameRefs(icache, c), NEW d, NEW p \in Procs, NEW L,
         Good(c, d, p, L), NEW call, cwd[p] \in Slots, c[cwd[p]].ref > 0
  PROVE  Good(StartCache(p, c, call), d, p, L)
<1>1. CASE call.root
  <2>1. StartSlot(p, c, call) \in Slots
    BY StartGets
  <2>2. SlotFor(c, ROOTINO) # None /\ ROOTINO \in Inums
    BY <1>1, <2>1, Numbers DEF StartSlot
  <2> QED
    BY <1>1, <2>2, GoodGet DEF StartCache
<1>2. CASE ~call.root
  <2> DEFINE n == cwd[p]
             m == c[n].ref + 1
             e == [c EXCEPT ![n] = [c[n] EXCEPT !.ref = m]]
  <2>1. StartCache(p, c, call) = e
    BY <1>2 DEF StartCache
  <2>2. c[n] \in Entry /\ c[n].ref \in Nat /\ c \in [Slots -> Entry]
    BY EntryFields DEF CacheOK
  <2>3. m \in Nat
    BY <2>2, SMT
  <2>4. e[n] = [c[n] EXCEPT !.ref = m] /\ \A s \in Slots \ {n} : e[s] = c[s]
    BY <2>2
  <2> HIDE DEF n, m, e
  <2>7. Alike(c[n], [c[n] EXCEPT !.ref = m])
    BY <2>2, <2>3, RefSet DEF Alike
  <2>5. Alike(c[n], e[n])
    BY <2>4, <2>7
  <2>6. \A s \in Slots : Alike(c[s], e[s])
    BY <2>4, <2>5 DEF Alike
  <2> QED
    BY <2>1, <2>6, GoodAlike
<1> QED
  BY <1>1, <1>2
-----------------------------------------------------------------------------
(* Counting. *)

\* What the counts of NamesCounted count is finite.
LEMMA LinksFinite ==
  ASSUME NEW d, NEW e, NEW pr, NEW c, NEW i
  PROVE  /\ IsFiniteSet(NamesOf(e, i)) /\ IsFiniteSet(Below(d, e, i))
         /\ IsFiniteSet(Debtors(pr, c, i))
<1>1. NINODES \in Int /\ 1 \in Int
  BY InodeAssumption, SMT
<1>2. IsFiniteSet(Inums)
  BY <1>1, FS_Interval DEF Inums
<1>3. IsFiniteSet({"a"}) /\ IsFiniteSet({"b"}) /\ IsFiniteSet({"d"})
  BY FS_Singleton
<1>4. IsFiniteSet({"a"} \cup {"b"})
  BY <1>3, FS_Union
<1>5. IsFiniteSet(({"a"} \cup {"b"}) \cup {"d"})
  BY <1>3, <1>4, FS_Union
<1>6. Names \ {".."} = ({"a"} \cup {"b"}) \cup {"d"}
  BY DEF Names
<1>7. IsFiniteSet(Names \ {".."})
  BY <1>5, <1>6
<1>8. IsFiniteSet(Entries)
  BY <1>2, <1>7, FS_Product DEF Entries
<1>9. /\ NamesOf(e, i) \subseteq Entries /\ Below(d, e, i) \subseteq Names \ {".."}
      /\ Debtors(pr, c, i) \subseteq Procs
  BY DEF NamesOf, Below, Debtors
<1> QED
  BY <1>7, <1>8, <1>9, Finite, FS_Subset

\* A link count that is zero counts nothing.
LEMMA NoLinks ==
  ASSUME NEW N, NEW B, NEW D, IsFiniteSet(N), IsFiniteSet(B), IsFiniteSet(D),
         Enough(0, N, B, D)
  PROVE  N = {} /\ B = {} /\ D = {}
<1> DEFINE n == Cardinality(N)
           b == Cardinality(B)
           d == Cardinality(D)
<1>1. n \in Nat /\ b \in Nat /\ d \in Nat
  BY FS_CardinalityType
<1>2. 0 >= n + b + d
  BY DEF Enough
<1> HIDE DEF n, b, d
<1>3. n = 0 /\ b = 0 /\ d = 0
  BY <1>1, <1>2, SMT
<1> QED
  BY <1>3, FS_EmptySet DEF n, b, d

\* An inode without links has no name, no subdirectory and no debtor.
LEMMA Nameless ==
  ASSUME NEW d, NEW e, NEW pr, NEW c, NEW i, Counted(d, e, pr, c, i), d[i].nlink = 0
  PROVE  NamesOf(e, i) = {} /\ Below(d, e, i) = {} /\ Debtors(pr, c, i) = {}
<1>1. Enough(0, NamesOf(e, i), Below(d, e, i), Debtors(pr, c, i))
  BY DEF Counted
<1> QED
  <2> DEFINE N == NamesOf(e, i)
             B == Below(d, e, i)
             D == Debtors(pr, c, i)
  <2>1. IsFiniteSet(N) /\ IsFiniteSet(B) /\ IsFiniteSet(D)
    BY LinksFinite
  <2> HIDE DEF N, B, D
  <2>2. N = {} /\ B = {} /\ D = {}
    BY <1>1, <2>1, NoLinks DEF N, B, D
  <2> QED
    BY <2>2 DEF N, B, D

\* Fewer names, subdirectories and debtors.
LEMMA EnoughLess ==
  ASSUME NEW k \in Int, NEW N, NEW B, NEW D,
         IsFiniteSet(N), IsFiniteSet(B), IsFiniteSet(D), Enough(k, N, B, D),
         NEW M \in SUBSET N, NEW A \in SUBSET B, NEW C \in SUBSET D
  PROVE  Enough(k, M, A, C)
<1> DEFINE n == Cardinality(N)
           b == Cardinality(B)
           d == Cardinality(D)
           m == Cardinality(M)
           a == Cardinality(A)
           c == Cardinality(C)
<1>1. /\ n \in Nat /\ m \in Nat /\ m <= n /\ b \in Nat /\ a \in Nat /\ a <= b
      /\ d \in Nat /\ c \in Nat /\ c <= d
  BY FS_Subset, FS_CardinalityType
<1>2. k >= n + b + d
  BY DEF Enough
<1> HIDE DEF n, b, d, m, a, c
<1>3. k >= m + a + c
  BY <1>1, <1>2, SMT
<1> QED
  BY <1>3 DEF Enough, m, a, c

\* One name x, subdirectory y or debtor z more, or less, for one link.
Moved(k, j, N, B, D, M, A, C, x, y, z) ==
  /\ M \ {x} \subseteq N /\ A \ {y} \subseteq B /\ C \ {z} \subseteq D
  /\ j - k >= One(x \in M) - One(x \in N) + One(y \in A) - One(y \in B)
                + One(z \in C) - One(z \in D)
AllFinite(N, B, D) == IsFiniteSet(N) /\ IsFiniteSet(B) /\ IsFiniteSet(D)

\* Then there are enough links still.
LEMMA EnoughStep ==
  ASSUME NEW k \in Int, NEW j \in Int, NEW N, NEW B, NEW D, NEW M, NEW A, NEW C,
         NEW x, NEW y, NEW z, Enough(k, N, B, D), AllFinite(N, B, D), AllFinite(M, A, C),
         Moved(k, j, N, B, D, M, A, C, x, y, z)
  PROVE  Enough(j, M, A, C)
<1>1. ASSUME NEW S, NEW T, IsFiniteSet(S), IsFiniteSet(T), NEW u, T \ {u} \subseteq S
      PROVE  /\ Cardinality(S) \in Nat /\ Cardinality(T) \in Nat
             /\ Cardinality(T) <= Cardinality(S) + One(u \in T) - One(u \in S)
  <2> DEFINE R == (S \ {u}) \cup (T \cap {u})
  <2>8. (S \ {u}) \in SUBSET S /\ (T \cap {u}) \in SUBSET T
    OBVIOUS
  <2>1. IsFiniteSet(S \ {u}) /\ IsFiniteSet(T \cap {u})
    BY <1>1, <2>8, FS_Subset
  <2>2. IsFiniteSet(R)
    BY <2>1, FS_Union
  <2>3. S \ {u} = R \ {u} /\ (u \in R <=> u \in T) /\ T \subseteq R
    BY <1>1
  <2> HIDE DEF R
  <2>4. /\ Cardinality(S) \in Nat /\ Cardinality(R) \in Nat
        /\ Cardinality(R) = Cardinality(S) + One(u \in R) - One(u \in S)
    BY <1>1, <2>2, <2>3, SetChange
  <2>5. Cardinality(T) \in Nat /\ Cardinality(T) <= Cardinality(R)
    BY <1>1, <2>2, <2>3, FS_Subset, FS_CardinalityType
  <2>6. One(u \in R) = One(u \in T)
    BY <2>3 DEF One
  <2>7. One(u \in T) \in Int /\ One(u \in S) \in Int
    BY SMT DEF One
  <2> QED
    BY <2>4, <2>5, <2>6, <2>7, SMT
<1> DEFINE n == Cardinality(N)
           b == Cardinality(B)
           d == Cardinality(D)
           m == Cardinality(M)
           a == Cardinality(A)
           c == Cardinality(C)
<1>2. n \in Nat /\ m \in Nat /\ m <= n + One(x \in M) - One(x \in N)
  BY <1>1 DEF AllFinite, Moved
<1>3. b \in Nat /\ a \in Nat /\ a <= b + One(y \in A) - One(y \in B)
  BY <1>1 DEF AllFinite, Moved
<1>4. d \in Nat /\ c \in Nat /\ c <= d + One(z \in C) - One(z \in D)
  BY <1>1 DEF AllFinite, Moved
<1>5. /\ k >= n + b + d
      /\ j - k >= One(x \in M) - One(x \in N) + One(y \in A) - One(y \in B)
                    + One(z \in C) - One(z \in D)
  BY DEF Enough, Moved
<1> HIDE DEF n, b, d, m, a, c
<1>6. j >= m + a + c
  BY <1>2, <1>3, <1>4, <1>5, SMT DEF One
<1> QED
  BY <1>6 DEF Enough, m, a, c
-----------------------------------------------------------------------------
(* Steps of one process. *)

\* The pointers of calls are to entries in use.
Live(s, c) == s # None => s \in Slots /\ c[s].inum \in Inums /\ c[s].inum # None
AllLive == \A q \in Procs : /\ Live(proc[q].dp, icache) /\ Live(proc[q].ip, icache)
                            /\ Live(proc[q].put, icache)

\* Before a step they are.
LEMMA NowLive == RefInv => AllLive
<1> SUFFICES ASSUME RefInv, NEW q \in Procs
             PROVE  /\ Live(proc[q].dp, icache) /\ Live(proc[q].ip, icache)
                    /\ Live(proc[q].put, icache)
  BY DEF AllLive
<1>1. proc[q] \in Local
  BY AtFacts
<1>2. /\ proc[q].dp \in Slots \cup {None} /\ proc[q].ip \in Slots \cup {None}
      /\ proc[q].put \in Slots \cup {None}
  BY <1>1, LocalFields DEF Pointers
<1> QED
  BY <1>2, HeldCached DEF Live

\* So they are after it.
LEMMA ThenLive == RefInv' => AllLive'
BY NowLive, PTL

\* The disk changes where nobody but p has a lock, and the type of an inode
\* only if that is free or without links.
Guarded(p) ==
  /\ \A s \in Slots, q \in Procs \ {p} : icache[s].lock = q =>
       /\ dinode'[icache[s].inum] = dinode[icache[s].inum]
       /\ dir'[icache[s].inum] = dir[icache[s].inum]
  /\ \A i \in Inums : \/ dinode'[i].type = dinode[i].type
                      \/ dinode[i].type = "free" \/ dinode[i].nlink = 0

\* A step of p.
LEMMA LinkStep ==
  ASSUME RefInv, RefInv', LinkInv, NEW p \in Procs, AgreeBut(proc, proc', Procs, p),
         Good(icache', dinode', p, Locked(proc'[p])), FreeEmpty(dinode', dir'),
         Guarded(p), Relies(proc'[p], icache', dinode', dir'),
         LinksFile(proc'[p], icache', dinode'),
         \A i \in Inums : Counted(dinode', dir', proc', icache', i)
  PROVE  LinkInv'
<1>1. AllLive /\ AllLive'
  BY NowLive, ThenLive
<1>2. Locks'
  <2> SUFFICES ASSUME NEW q \in Procs, NEW s \in Slots
               PROVE  icache'[s].lock = q <=> s \in Locked(proc'[q])
    BY DEF Locks
  <2>1. CASE q = p
    BY <2>1 DEF Good
  <2>2. CASE q # p
    <3>1. proc'[q] = proc[q] /\ (icache[s].lock = q <=> s \in Locked(proc[q]))
      BY <2>2 DEF AgreeBut, LinkInv, Locks
    <3>2. icache'[s].lock = q <=> icache[s].lock = q
      BY <2>2 DEF Good
    <3> QED
      BY <3>1, <3>2
  <2> QED
    BY <2>1, <2>2
<1>3. ASSUME NEW q \in Procs
      PROVE  /\ Relies(proc'[q], icache', dinode', dir')
             /\ LinksFile(proc'[q], icache', dinode')
  <2>1. CASE q = p
    BY <2>1
  <2>2. CASE q # p
    <3> DEFINE l == proc[q]
    <3>1. proc'[q] = l
      BY <2>2 DEF AgreeBut
    <3>2. /\ Relies(l, icache, dinode, dir) /\ LinksFile(l, icache, dinode)
          /\ \A s \in Slots : s \in Locked(l) => icache[s].lock = q
      BY DEF LinkInv, Locks
    <3>3. /\ Live(l.dp, icache) /\ Live(l.ip, icache) /\ Live(l.put, icache)
      BY <1>1 DEF AllLive
    <3>4. /\ Live(l.dp, icache') /\ Live(l.ip, icache') /\ Live(l.put, icache')
      BY <1>1, <3>1 DEF AllLive
    <3>5. Controlled(l, cwd[q])
      BY AtFacts
    <3>6. ASSUME NEW s, Live(s, icache), Live(s, icache'), s # None
          PROVE  /\ icache'[s].inum = icache[s].inum /\ icache[s].inum \in Inums
                 /\ s \in Slots
      BY <3>6 DEF Live, Good, Stays
    <3> HIDE DEF l
    <3>7. ASSUME NEW s \in Slots, s \in Locked(l)
          PROVE  /\ dinode'[icache[s].inum] = dinode[icache[s].inum]
                 /\ dir'[icache[s].inum] = dir[icache[s].inum]
      BY <2>2, <3>2, <3>7 DEF Guarded
    <3>8. ASSUME l.pc = "unlinklock"
          PROVE  /\ Head(l.rest) # ".."
                 /\ dir'[icache'[l.dp].inum][Head(l.rest)] = icache'[l.ip].inum
      <4>1. l.dp # None /\ l.ip # None
        BY <3>5, <3>8 DEF Controlled, Point, Putters, HasDp, HasIp
      <4>2. /\ l.dp \in Slots /\ icache'[l.dp].inum = icache[l.dp].inum
            /\ icache'[l.ip].inum = icache[l.ip].inum
        BY <3>3, <3>4, <3>6, <4>1
      <4>3. l.dp \in Locked(l)
        BY <3>8, <4>2 DEF Locked, Point, Putters, HoldsDp
      <4>4. dir'[icache[l.dp].inum] = dir[icache[l.dp].inum]
        BY <3>7, <4>2, <4>3
      <4> QED
        BY <3>2, <3>8, <4>2, <4>4 DEF Relies
    <3>9. ASSUME l.pc = "ifree"
          PROVE  /\ dinode'[icache'[l.put].inum].nlink = 0
                 /\ Point(l) \in HoldsIp => l.ip # l.put
                 /\ Point(l) \in HoldsDp => l.dp # l.put
      <4>1. l.put # None
        BY <3>5, <3>9 DEF Controlled, Putters
      <4>2. l.put \in Slots /\ icache'[l.put].inum = icache[l.put].inum
        BY <3>3, <3>4, <3>6, <4>1
      <4>3. l.put \in Locked(l)
        BY <3>9, <4>2 DEF Locked
      <4>4. dinode'[icache[l.put].inum] = dinode[icache[l.put].inum]
        BY <3>7, <4>2, <4>3
      <4> QED
        BY <3>2, <3>9, <4>2, <4>4 DEF Relies
    <3>10. ASSUME Linking(l)
           PROVE  dinode'[icache'[l.ip].inum].type \notin {"dir", "free"}
      <4> DEFINE i == icache[l.ip].inum
      <4>1. l.ip # None
        BY <3>10 DEF Linking
      <4>2. icache'[l.ip].inum = i /\ i \in Inums
        BY <3>3, <3>4, <3>6, <4>1
      <4>3. dinode[i].type \notin {"dir", "free"}
        BY <3>2, <3>10 DEF LinksFile
      <4>4. dinode[i].nlink # 0
        <5>1. q \in Debtors(proc, icache, i)
          BY <3>10 DEF Debtors, Owes, l
        <5>2. Counted(dinode, dir, proc, icache, i)
          BY <4>2 DEF LinkInv
        <5> QED
          BY <5>1, <5>2, Nameless
      <4> QED
        BY <4>2, <4>3, <4>4 DEF Guarded
    <3>11. l.then # "unlinklock"
      BY <3>2 DEF Relies
    <3> QED
      BY <3>1, <3>8, <3>9, <3>10, <3>11 DEF Relies, LinksFile
  <2> QED
    BY <2>1, <2>2
<1> QED
  BY <1>2, <1>3 DEF LinkInv, Good

\* A pointer that is held before and after a step stays for the same inode.
LEMMA PointerStays ==
  ASSUME RefInv, RefInv', NEW q \in Procs, Stays(icache, icache')
  PROVE  /\ proc[q].ip # None /\ proc'[q].ip = proc[q].ip =>
              /\ icache'[proc[q].ip].inum = icache[proc[q].ip].inum
              /\ icache[proc[q].ip].inum \in Inums
         /\ Owes(proc[q]) => proc[q].ip # None
         /\ Owes(proc'[q]) => proc'[q].ip # None
<1>1. AllLive /\ AllLive'
  BY NowLive, ThenLive
<1>2. Live(proc[q].ip, icache) /\ Live(proc'[q].ip, icache')
  BY <1>1 DEF AllLive
<1>3. Controlled(proc[q], cwd[q])
  BY DEF RefInv, Control
<1>4. Controlled(proc'[q], cwd'[q])
  BY DEF RefInv, Control
<1>5. ASSUME NEW l, NEW d, Controlled(l, d), Owes(l) PROVE l.ip # None
  BY <1>5 DEF Controlled, Owes, Linking, HasIp
<1> QED
  BY <1>2, <1>3, <1>4, <1>5 DEF Live, Stays

\* Who else owes a link still does.
LEMMA OtherDebtors ==
  ASSUME RefInv, RefInv', NEW p \in Procs, Stays(icache, icache'),
         AgreeBut(proc, proc', Procs, p), NEW i
  PROVE  Debtors(proc', icache', i) \ {p} = Debtors(proc, icache, i) \ {p}
<1> SUFFICES ASSUME NEW q \in Procs, q # p
             PROVE  /\ proc'[q] = proc[q]
                    /\ Owes(proc[q]) => icache'[proc[q].ip].inum = icache[proc[q].ip].inum
  BY DEF Debtors
<1>1. proc'[q] = proc[q]
  BY DEF AgreeBut
<1> QED
  BY <1>1, PointerStays

\* From locals l to n, p owes no more.
OwesLess(l, n) == /\ Linking(n) => Linking(l) /\ n.ip = l.ip
                  /\ Point(n) = "unlinkdec" => Point(l) = "unlinkdec" /\ n.ip = l.ip

\* A step of p that leaves the disk alone.
LEMMA KeepLinks ==
  ASSUME RefInv, RefInv', LinkInv, NEW p \in Procs, NEW n, proc' = [proc EXCEPT ![p] = n],
         UNCHANGED <<dinode, dir>>, Good(icache', dinode, p, Locked(n)),
         Relies(n, icache', dinode, dir), OwesLess(proc[p], n)
  PROVE  LinkInv'
<1>1. proc'[p] = n /\ AgreeBut(proc, proc', Procs, p)
  BY DEF RefInv, Typed, AgreeBut
<1>2. Stays(icache, icache')
  BY DEF Good
<1>3. Guarded(p)
  BY DEF Guarded
<1>4. FreeEmpty(dinode', dir')
  BY DEF LinkInv
<1>5. LinksFile(n, icache', dinode')
  <2> SUFFICES ASSUME Linking(n)
               PROVE  dinode[icache'[n.ip].inum].type \notin {"dir", "free"}
    BY DEF LinksFile
  <2>1. Linking(proc[p]) /\ n.ip = proc[p].ip /\ proc[p].ip # None
    BY DEF OwesLess, Linking
  <2>2. icache'[n.ip].inum = icache[n.ip].inum
    BY <1>1, <1>2, <2>1, PointerStays
  <2> QED
    BY <2>1, <2>2 DEF LinkInv, LinksFile
<1>6. ASSUME NEW i \in Inums
      PROVE  Counted(dinode', dir', proc', icache', i)
  <2>1. Debtors(proc', icache', i) \ {p} = Debtors(proc, icache, i) \ {p}
    BY <1>1, <1>2, OtherDebtors
  <2>2. ASSUME p \in Debtors(proc', icache', i)
        PROVE  p \in Debtors(proc, icache, i)
    <3>1. Owes(n) /\ icache'[n.ip].inum = i
      BY <1>1, <2>2 DEF Debtors
    <3>2. Owes(proc[p]) /\ n.ip = proc[p].ip
      BY <3>1 DEF OwesLess, Owes
    <3>3. icache'[n.ip].inum = icache[n.ip].inum
      BY <1>1, <1>2, <3>2, PointerStays
    <3> QED
      BY <3>1, <3>2, <3>3 DEF Debtors
  <2> DEFINE N == NamesOf(dir, i)
             B == Below(dinode, dir, i)
             D == Debtors(proc, icache, i)
             C == Debtors(proc', icache', i)
             k == dinode[i].nlink
  <2>3. C \in SUBSET D
    BY <2>1, <2>2
  <2>4. Enough(k, N, B, D) /\ IsFiniteSet(N) /\ IsFiniteSet(B) /\ IsFiniteSet(D)
    BY LinksFinite DEF LinkInv, Counted
  <2>5. k \in Int
    BY DEF RefInv, Typed, OnDisk
  <2> HIDE DEF N, B, C, D, k
  <2>6. Enough(k, N, B, C)
    BY <2>3, <2>4, <2>5, EnoughLess
  <2> QED
    BY <2>6 DEF Counted, N, B, C, k
<1> QED
  BY <1>1, <1>3, <1>4, <1>5, <1>6, LinkStep

\* Nothing that matters to the links changes.
LEMMA SameLinks ==
  ASSUME LinkInv, UNCHANGED <<dinode, dir, icache, proc>>
  PROVE  LinkInv'
BY DEF LinkInv, Locks

\* ilock() alone, and with iunlock() after it.
LEMMA IlockGood ==
  ASSUME RefInv, LinkInv, NEW p \in Procs, NEW s \in Slots, icache[s].inum # None,
         Unlocked(s), ilock(p, s).type # "free", NEW M
  PROVE  /\ Passes(Locked(proc[p]), M, s, TRUE) =>
              Good([icache EXCEPT ![s] = ilock(p, s)], dinode, p, M)
         /\ Passes(Locked(proc[p]), M, s, FALSE) =>
              Good([icache EXCEPT ![s] = Seen(p, s)], dinode, p, M)
<1> DEFINE r == ilock(p, s)
           u == Seen(p, s)
           L == Locked(proc[p])
<1>1. /\ Typed /\ icache \in [Slots -> Entry] /\ Good(icache, dinode, p, L)
      /\ Agrees(icache[s], dinode)
  BY AtFacts, GoodNow DEF LinkInv, Coherent
<1>2. Kept(r, icache[s]) /\ Kept(u, icache[s])
  BY <1>1, IlockKept
<1>3. /\ r.lock = p /\ r.valid = TRUE /\ u.lock = "none" /\ u.valid = TRUE
      /\ u.type = r.type /\ u.nlink = r.nlink
  BY <1>1, IlockEntry
<1>4. /\ r.type = (IF icache[s].valid THEN icache[s].type
                   ELSE dinode[icache[s].inum].type)
      /\ r.nlink = (IF icache[s].valid THEN icache[s].nlink
                    ELSE dinode[icache[s].inum].nlink)
  BY <1>1, IlockReads
<1>5. r.type # "free" /\ icache[s].lock = "none" /\ p # "none"
  BY InodeAssumption DEF Unlocked
<1> HIDE DEF r, u, L
<1>6. r.type = dinode[icache[s].inum].type /\ r.nlink = dinode[icache[s].inum].nlink
  BY <1>1, <1>4 DEF Agrees
<1>7. Agrees(r, dinode) /\ Agrees(u, dinode)
  BY <1>2, <1>3, <1>5, <1>6 DEF Agrees, Kept
<1>8. ASSUME Passes(L, M, s, TRUE) PROVE Good([icache EXCEPT ![s] = r], dinode, p, M)
  <2>1. Passes(L, M, s, r.lock = p)
    BY <1>3, <1>8 DEF Passes
  <2> QED
    BY <1>1, <1>2, <1>3, <1>5, <1>7, <2>1, GoodSet DEF SameBut
<1>9. ASSUME Passes(L, M, s, FALSE) PROVE Good([icache EXCEPT ![s] = u], dinode, p, M)
  <2>1. Passes(L, M, s, u.lock = p)
    BY <1>3, <1>5, <1>9 DEF Passes
  <2> QED
    BY <1>1, <1>2, <1>3, <1>5, <1>7, <2>1, GoodSet DEF SameBut
<1> QED
  BY <1>8, <1>9 DEF r, u, L

\* iunlock().
LEMMA UnlockGood ==
  ASSUME RefInv, LinkInv, NEW p \in Procs, NEW s \in Locked(proc[p]), NEW M,
         Passes(Locked(proc[p]), M, s, FALSE)
  PROVE  Good([icache EXCEPT ![s].lock = "none"], dinode, p, M)
<1> DEFINE r == [icache[s] EXCEPT !.lock = "none"]
           L == Locked(proc[p])
<1>1. s \in Slots
  BY DEF Locked
<1>2. /\ icache \in [Slots -> Entry] /\ Good(icache, dinode, p, L)
      /\ Agrees(icache[s], dinode) /\ icache[s].lock = p
  BY <1>1, AtFacts, GoodNow DEF LinkInv, Coherent, Locks
<1>3. [icache EXCEPT ![s].lock = "none"] = [icache EXCEPT ![s] = r]
  OBVIOUS
<1>4. "none" \in Procs \cup {"none"} /\ icache[s] \in Entry /\ p # "none"
  BY <1>1, <1>2, InodeAssumption
<1>5. /\ r \in Entry /\ r.inum = icache[s].inum /\ r.ref = icache[s].ref
      /\ r.valid = icache[s].valid /\ r.type = icache[s].type
      /\ r.nlink = icache[s].nlink /\ r.lock = "none"
  BY <1>4, LockSet
<1> HIDE DEF r, L
<1>6. Kept(r, icache[s]) /\ Agrees(r, dinode)
  BY <1>2, <1>5 DEF Kept, Agrees
<1>7. Passes(L, M, s, r.lock = p)
  BY <1>4, <1>5 DEF Passes, L
<1>8. Good([icache EXCEPT ![s] = r], dinode, p, M)
  BY <1>1, <1>2, <1>5, <1>6, <1>7, GoodSet DEF SameBut
<1> QED
  BY <1>3, <1>8

\* sys_mkdir() and sys_mknod() unlock the new inode and put it.
LEMMA MadeLinks ==
  ASSUME RefInv, RefInv', LinkInv, NEW p \in Procs, Made(p)
  PROVE  LinkInv'
<1> DEFINE l == proc[p]
           s == l.ip
           n == Putting(l, "ip", "idle")
<1>1. l \in Local /\ Controlled(l, cwd[p])
  BY AtFacts
<1>2. l.pc = "made"
  BY DEF Made, At
<1>3. s # None
  BY <1>1, <1>2 DEF Controlled, Point, Putters, HasDp, HasIp
<1>4. s \in Slots
  BY <1>1, <1>3, LocalFields DEF Pointers
<1>5. Loc(n, "iput", l.call, l.rest, l.at, l.dp, None, s, "idle")
  <2>1. "idle" \in Points
    BY DEF Points, HasIp
  <2> QED
    BY <1>1, <2>1, PuttingLoc
<1>6. /\ icache' = [icache EXCEPT ![s].lock = "none"] /\ proc' = [proc EXCEPT ![p] = n]
      /\ UNCHANGED <<dinode, dir>>
  BY DEF Made
<1> HIDE DEF n
<1>7. s \in Locked(l) /\ Passes(Locked(l), Locked(n), s, FALSE)
  BY <1>2, <1>4, <1>5 DEF Loc, Locked, Point, Putters, HoldsIp, HoldsDp, Passes
<1> HIDE DEF s
<1>8. Good(icache', dinode, p, Locked(n))
  BY <1>6, <1>7, UnlockGood
<1>9. Relies(n, icache', dinode, dir)
  BY <1>5 DEF Loc, Relies
<1>10. OwesLess(l, n)
  BY <1>2, <1>5 DEF Loc, OwesLess, Linking, Point, Putters
<1> QED
  BY <1>6, <1>8, <1>9, <1>10, KeepLinks

\* sys_unlink() unlocks and puts the directory after a refusal.
LEMMA UnlinkBadLinks ==
  ASSUME RefInv, RefInv', LinkInv, NEW p \in Procs, UnlinkBad(p)
  PROVE  LinkInv'
<1> DEFINE l == proc[p]
           s == l.dp
           n == Putting(l, "dp", "idle")
<1>1. l \in Local /\ Controlled(l, cwd[p])
  BY AtFacts
<1>2. l.pc = "unlinkbad"
  BY DEF UnlinkBad, At
<1>3. s # None
  BY <1>1, <1>2 DEF Controlled, Point, Putters, HasDp, HasIp
<1>4. s \in Slots
  BY <1>1, <1>3, LocalFields DEF Pointers
<1>5. Loc(n, "iput", l.call, l.rest, l.at, None, l.ip, s, "idle")
  <2>1. "idle" \in Points
    BY DEF Points, HasIp
  <2> QED
    BY <1>1, <2>1, PuttingLoc
<1>6. /\ icache' = [icache EXCEPT ![s].lock = "none"] /\ proc' = [proc EXCEPT ![p] = n]
      /\ UNCHANGED <<dinode, dir>>
  BY DEF UnlinkBad
<1> HIDE DEF n
<1>7. s \in Locked(l) /\ Passes(Locked(l), Locked(n), s, FALSE)
  BY <1>2, <1>4, <1>5 DEF Loc, Locked, Point, Putters, HoldsIp, HoldsDp, Passes
<1> HIDE DEF s
<1>8. Good(icache', dinode, p, Locked(n))
  BY <1>6, <1>7, UnlockGood
<1>9. Relies(n, icache', dinode, dir)
  BY <1>5 DEF Loc, Relies
<1>10. OwesLess(l, n)
  BY <1>2, <1>5 DEF Loc, OwesLess, Linking, Point, Putters
<1> QED
  BY <1>6, <1>8, <1>9, <1>10, KeepLinks

\* sys_link() unlocks and puts the directory when the name is taken.
LEMMA LinkBadLinks ==
  ASSUME RefInv, RefInv', LinkInv, NEW p \in Procs, LinkBad(p)
  PROVE  LinkInv'
<1> DEFINE l == proc[p]
           s == l.dp
           n == Putting(l, "dp", "linkundo")
<1>1. l \in Local /\ Controlled(l, cwd[p])
  BY AtFacts
<1>2. l.pc = "linkbad"
  BY DEF LinkBad, At
<1>3. s # None
  BY <1>1, <1>2 DEF Controlled, Point, Putters, HasDp, HasIp
<1>4. s \in Slots
  BY <1>1, <1>3, LocalFields DEF Pointers
<1>5. Loc(n, "iput", l.call, l.rest, l.at, None, l.ip, s, "linkundo")
  <2>1. "linkundo" \in Points
    BY DEF Points, HasIp
  <2> QED
    BY <1>1, <2>1, PuttingLoc
<1>6. /\ icache' = [icache EXCEPT ![s].lock = "none"] /\ proc' = [proc EXCEPT ![p] = n]
      /\ UNCHANGED <<dinode, dir>>
  BY DEF LinkBad
<1> HIDE DEF n
<1>7. s \in Locked(l) /\ Passes(Locked(l), Locked(n), s, FALSE)
  BY <1>2, <1>4, <1>5 DEF Loc, Locked, Point, Putters, HoldsIp, HoldsDp, Passes
<1> HIDE DEF s
<1>8. Good(icache', dinode, p, Locked(n))
  BY <1>6, <1>7, UnlockGood
<1>9. Relies(n, icache', dinode, dir)
  BY <1>5 DEF Loc, Relies
<1>10. OwesLess(l, n)
  BY <1>2, <1>5 DEF Loc, OwesLess, Linking, Point, Putters
<1> QED
  BY <1>6, <1>8, <1>9, <1>10, KeepLinks

\* sys_link() puts the inode.
LEMMA LinkPutLinks ==
  ASSUME RefInv, RefInv', LinkInv, NEW p \in Procs, LinkPut(p)
  PROVE  LinkInv'
<1> DEFINE l == proc[p]
           n == Putting(l, "ip", "idle")
<1>1. l \in Local
  BY AtFacts
<1>2. l.pc = "linkput"
  BY DEF LinkPut, At
<1>3. Loc(n, "iput", l.call, l.rest, l.at, l.dp, None, l.ip, "idle")
  <2>1. "idle" \in Points
    BY DEF Points
  <2> QED
    BY <1>1, <2>1, PuttingLoc
<1>4. proc' = [proc EXCEPT ![p] = n] /\ UNCHANGED <<dinode, dir, icache>>
  BY DEF LinkPut
<1> HIDE DEF n
<1>5. Locked(n) = Locked(l)
  BY <1>2, <1>3 DEF Loc, Locked, Point, Putters, HoldsIp, HoldsDp
<1>6. Good(icache', dinode, p, Locked(n))
  BY <1>4, <1>5, GoodNow
<1>7. Relies(n, icache', dinode, dir)
  BY <1>3 DEF Loc, Relies
<1>8. OwesLess(l, n)
  BY <1>3 DEF Loc, OwesLess, Linking, Point, Putters
<1> QED
  BY <1>4, <1>6, <1>7, <1>8, KeepLinks

\* sys_chdir() ends.
LEMMA ChdirSetLinks ==
  ASSUME RefInv, RefInv', LinkInv, NEW p \in Procs, ChdirSet(p)
  PROVE  LinkInv'
<1> DEFINE l == proc[p]
<1>1. l.pc = "chdirset"
  BY DEF ChdirSet, At
<1>2. proc' = [proc EXCEPT ![p] = AtRest] /\ UNCHANGED <<dinode, dir, icache>>
  BY DEF ChdirSet
<1>3. Locked(AtRest) = Locked(l)
  BY <1>1, RestLoc DEF Loc, Locked, Point, Putters, HoldsIp, HoldsDp
<1>4. Good(icache', dinode, p, Locked(AtRest))
  BY <1>2, <1>3, GoodNow
<1>5. Relies(AtRest, icache', dinode, dir)
  BY RestLoc DEF Loc, Relies
<1>6. OwesLess(l, AtRest)
  BY RestLoc DEF Loc, OwesLess, Linking, Point, Putters
<1> QED
  BY <1>2, <1>4, <1>5, <1>6, KeepLinks

\* open(): ilock() of the inode, which stays locked unless it is refused.
LEMMA OpenLockLinks ==
  ASSUME RefInv, RefInv', LinkInv, NEW p \in Procs, OpenLock(p)
  PROVE  LinkInv'
<1> DEFINE l == proc[p]
           s == l.ip
           r == ilock(p, s)
           u == Seen(p, s)
           k == [l EXCEPT !.pc = "opened"]
           n == Putting(l, "ip", "idle")
<1>1. l \in Local /\ Controlled(l, cwd[p])
  BY AtFacts
<1>2. l.pc = "open" /\ Unlocked(s)
  BY DEF OpenLock, At
<1>3. s # None
  BY <1>1, <1>2 DEF Controlled, Point, Putters, HasDp, HasIp
<1>4. s \in Slots
  BY <1>1, <1>3, LocalFields DEF Pointers
<1>5. icache[s].inum # None
  BY <1>4, HeldCached
<1>6. /\ Loc(n, "iput", l.call, l.rest, l.at, l.dp, None, s, "idle")
      /\ Loc(k, "opened", l.call, l.rest, l.at, l.dp, s, l.put, l.then)
  <2>1. "idle" \in Points /\ "opened" \in Points \cup Putters
    BY DEF Points, HasIp
  <2>2. Loc(n, "iput", l.call, l.rest, l.at, l.dp, None, s, "idle")
    BY <1>1, <2>1, PuttingLoc
  <2>3. Loc(k, "opened", l.call, l.rest, l.at, l.dp, s, l.put, l.then)
    BY <1>1, <2>1 DEF Loc, Local
  <2> QED
    BY <2>2, <2>3
<1>7. \/ Panic("ilock")
      \/ /\ r.type # "free" /\ UNCHANGED <<dinode, dir>>
         /\ \/ icache' = [icache EXCEPT ![s] = u] /\ proc' = [proc EXCEPT ![p] = n]
            \/ icache' = [icache EXCEPT ![s] = r] /\ proc' = [proc EXCEPT ![p] = k]
  BY DEF OpenLock, Locking
<1>8. CASE Panic("ilock")
  BY <1>8, SameLinks DEF Panic
<1> HIDE DEF n, k
<1>9. /\ Passes(Locked(l), Locked(n), s, FALSE)
      /\ Passes(Locked(l), Locked(k), s, TRUE)
  BY <1>2, <1>6 DEF Loc, Locked, Point, Putters, HoldsIp, HoldsDp, Passes
<1>10. /\ Relies(n, icache', dinode, dir) /\ OwesLess(l, n)
       /\ Relies(k, icache', dinode, dir) /\ OwesLess(l, k)
  <2>1. l.then # "unlinklock"
    BY DEF LinkInv, Relies
  <2> QED
    BY <1>6, <2>1 DEF Loc, Relies, OwesLess, Linking, Point, Putters
<1>11. ASSUME r.type # "free"
       PROVE  /\ Good([icache EXCEPT ![s] = u], dinode, p, Locked(n))
              /\ Good([icache EXCEPT ![s] = r], dinode, p, Locked(k))
  BY <1>2, <1>4, <1>5, <1>9, <1>11, IlockGood
<1> HIDE DEF r, u
<1>12. CASE /\ r.type # "free" /\ UNCHANGED <<dinode, dir>>
            /\ icache' = [icache EXCEPT ![s] = u] /\ proc' = [proc EXCEPT ![p] = n]
  BY <1>10, <1>11, <1>12, KeepLinks
<1>13. CASE /\ r.type # "free" /\ UNCHANGED <<dinode, dir>>
            /\ icache' = [icache EXCEPT ![s] = r] /\ proc' = [proc EXCEPT ![p] = k]
  BY <1>10, <1>11, <1>13, KeepLinks
<1> QED
  BY <1>7, <1>8, <1>12, <1>13

\* open() ends, or puts the inode.
LEMMA OpenedLinks ==
  ASSUME RefInv, RefInv', LinkInv, NEW p \in Procs, Opened(p)
  PROVE  LinkInv'
<1> DEFINE l == proc[p]
           s == l.ip
           n == Putting(l, "ip", "idle")
<1>1. l \in Local /\ Controlled(l, cwd[p])
  BY AtFacts
<1>2. l.pc = "opened"
  BY DEF Opened, At
<1>3. s # None
  BY <1>1, <1>2 DEF Controlled, Point, Putters, HasDp, HasIp
<1>4. s \in Slots
  BY <1>1, <1>3, LocalFields DEF Pointers
<1>5. Loc(n, "iput", l.call, l.rest, l.at, l.dp, None, s, "idle")
  <2>1. "idle" \in Points
    BY DEF Points
  <2> QED
    BY <1>1, <2>1, PuttingLoc
<1>6. /\ icache' = [icache EXCEPT ![s].lock = "none"] /\ UNCHANGED <<dinode, dir>>
      /\ proc' = [proc EXCEPT ![p] = AtRest] \/ proc' = [proc EXCEPT ![p] = n]
  BY DEF Opened
<1> HIDE DEF n
<1>7. /\ s \in Locked(l) /\ Passes(Locked(l), Locked(n), s, FALSE)
      /\ Passes(Locked(l), Locked(AtRest), s, FALSE)
  BY <1>2, <1>4, <1>5, RestLoc DEF Loc, Locked, Point, Putters, HoldsIp, HoldsDp, Passes
<1> HIDE DEF s
<1>8. Good(icache', dinode, p, Locked(n)) /\ Good(icache', dinode, p, Locked(AtRest))
  BY <1>6, <1>7, UnlockGood
<1>9. /\ Relies(n, icache', dinode, dir) /\ OwesLess(l, n)
      /\ Relies(AtRest, icache', dinode, dir) /\ OwesLess(l, AtRest)
  BY <1>5, RestLoc DEF Loc, Relies, OwesLess, Linking, Point, Putters
<1>10. CASE proc' = [proc EXCEPT ![p] = n]
  BY <1>6, <1>8, <1>9, <1>10, KeepLinks
<1>11. CASE proc' = [proc EXCEPT ![p] = AtRest]
  BY <1>6, <1>8, <1>9, <1>11, KeepLinks
<1> QED
  BY <1>6, <1>10, <1>11

\* chdir(): the inode is looked at.
LEMMA ChdirLinks ==
  ASSUME RefInv, RefInv', LinkInv, NEW p \in Procs, Chdir(p)
  PROVE  LinkInv'
<1> DEFINE l == proc[p]
           s == l.ip
           r == Seen(p, s)
           k == [l EXCEPT !.pc = "iput", !.put = cwd[p], !.then = "chdirset"]
           n == Putting(l, "ip", "idle")
<1>1. l \in Local /\ Controlled(l, cwd[p]) /\ cwd[p] \in Pointers
  BY AtFacts
<1>2. l.pc = "chdir" /\ Unlocked(s)
  BY DEF Chdir, At
<1>3. s # None
  BY <1>1, <1>2 DEF Controlled, Point, Putters, HasDp, HasIp
<1>4. s \in Slots
  BY <1>1, <1>3, LocalFields DEF Pointers
<1>5. icache[s].inum # None
  BY <1>4, HeldCached
<1>6. /\ Loc(n, "iput", l.call, l.rest, l.at, l.dp, None, s, "idle")
      /\ Loc(k, "iput", l.call, l.rest, l.at, l.dp, s, cwd[p], "chdirset")
  <2>1. "idle" \in Points /\ "chdirset" \in Points /\ "iput" \in Points \cup Putters
    BY DEF Points, HasIp, Putters
  <2>2. Loc(n, "iput", l.call, l.rest, l.at, l.dp, None, s, "idle")
    BY <1>1, <2>1, PuttingLoc
  <2>3. Loc(k, "iput", l.call, l.rest, l.at, l.dp, s, cwd[p], "chdirset")
    BY <1>1, <2>1 DEF Loc, Local
  <2> QED
    BY <2>2, <2>3
<1>7. \/ Panic("ilock")
      \/ /\ ilock(p, s).type # "free" /\ UNCHANGED <<dinode, dir>>
         /\ icache' = [icache EXCEPT ![s] = r]
         /\ proc' = [proc EXCEPT ![p] = n] \/ proc' = [proc EXCEPT ![p] = k]
  BY DEF Chdir, Locking
<1>8. CASE Panic("ilock")
  BY <1>8, SameLinks DEF Panic
<1> HIDE DEF n, k
<1>9. /\ Passes(Locked(l), Locked(n), s, FALSE)
      /\ Passes(Locked(l), Locked(k), s, FALSE)
  BY <1>2, <1>6 DEF Loc, Locked, Point, Putters, HoldsIp, HoldsDp, Passes
<1>10. /\ Relies(n, icache', dinode, dir) /\ OwesLess(l, n)
       /\ Relies(k, icache', dinode, dir) /\ OwesLess(l, k)
  BY <1>6 DEF Loc, Relies, OwesLess, Linking, Point, Putters
<1>11. ASSUME ilock(p, s).type # "free"
       PROVE  /\ Good([icache EXCEPT ![s] = r], dinode, p, Locked(n))
              /\ Good([icache EXCEPT ![s] = r], dinode, p, Locked(k))
  BY <1>2, <1>4, <1>5, <1>9, <1>11, IlockGood
<1> HIDE DEF r
<1>12. CASE /\ ilock(p, s).type # "free" /\ UNCHANGED <<dinode, dir>>
            /\ icache' = [icache EXCEPT ![s] = r]
            /\ proc' = [proc EXCEPT ![p] = n]
  BY <1>10, <1>11, <1>12, KeepLinks
<1>13. CASE /\ ilock(p, s).type # "free" /\ UNCHANGED <<dinode, dir>>
            /\ icache' = [icache EXCEPT ![s] = r]
            /\ proc' = [proc EXCEPT ![p] = k]
  BY <1>10, <1>11, <1>13, KeepLinks
<1> QED
  BY <1>7, <1>8, <1>12, <1>13

\* fileclose(): the last descriptor of a file puts its inode.
LEMMA CloseLinks ==
  ASSUME RefInv, RefInv', LinkInv, NEW p \in Procs, NEW fd \in Fds, Close(p, fd)
  PROVE  LinkInv'
<1> DEFINE l == proc[p]
           f == ofile[p][fd]
           k == [AtRest EXCEPT !.pc = "iput", !.put = ftable[f].ip]
<1>1. l.pc = "idle"
  BY DEF Close, At
<1>2. \/ UNCHANGED <<dinode, dir, icache, proc>>
      \/ UNCHANGED <<dinode, dir, icache>> /\ proc' = [proc EXCEPT ![p] = k]
  BY DEF Close
<1>3. k.pc = "iput" /\ k.then = "idle"
  BY DEF AtRest
<1> HIDE DEF k
<1>4. Locked(k) = Locked(l)
  BY <1>1, <1>3 DEF Locked, Point, Putters, HoldsIp, HoldsDp
<1>5. /\ Good(icache, dinode, p, Locked(k)) /\ Relies(k, icache, dinode, dir)
      /\ OwesLess(l, k)
  BY <1>3, <1>4, GoodNow DEF Relies, OwesLess, Linking, Point, Putters
<1>6. CASE UNCHANGED <<dinode, dir, icache>> /\ proc' = [proc EXCEPT ![p] = k]
  BY <1>5, <1>6, KeepLinks
<1> QED
  BY <1>2, <1>6, SameLinks

\* dup().
LEMMA DupLinks ==
  ASSUME LinkInv, NEW p \in Procs, NEW fd \in Fds, Dup(p, fd)
  PROVE  LinkInv'
BY SameLinks DEF Dup

\* A call begins.
LEMMA CallLinks ==
  ASSUME RefInv, RefInv', LinkInv, NEW p \in Procs, NEW call \in Calls, Call(p, call)
  PROVE  LinkInv'
<1> DEFINE l == proc[p]
           k == [AtRest EXCEPT !.pc = "namex", !.call = call, !.rest = call.path,
                               !.at = StartSlot(p, icache, call)]
<1>1. /\ CacheOK(icache) /\ l \in Local /\ Controlled(l, cwd[p]) /\ cwd[p] \in Pointers
  BY AtFacts
<1>2. l.pc = "idle"
  BY DEF Call, At
<1>3. cwd[p] # None
  BY <1>1, <1>2 DEF Controlled, Point, Putters, HasDp, HasIp
<1>4. cwd[p] \in Slots
  BY <1>1, <1>3 DEF Pointers
<1>5. icache[cwd[p]].ref > 0 /\ SameRefs(icache, icache)
  BY <1>4, HeldCached DEF SameRefs
<1>6. /\ icache' = StartCache(p, icache, call) /\ proc' = [proc EXCEPT ![p] = k]
      /\ UNCHANGED <<dinode, dir>>
  BY DEF Call
<1>7. k.pc = "namex" /\ k.ip = None /\ k.then = "idle"
  BY DEF AtRest
<1> HIDE DEF k
<1>8. Locked(k) = Locked(l)
  BY <1>2, <1>7 DEF Locked, Point, Putters, HoldsIp, HoldsDp
<1>9. Good(icache, dinode, p, Locked(k))
  BY <1>8, GoodNow
<1>10. Good(icache', dinode, p, Locked(k))
  BY <1>1, <1>4, <1>5, <1>6, <1>9, GoodStart
<1>11. Relies(k, icache', dinode, dir) /\ OwesLess(l, k)
  BY <1>7 DEF Relies, OwesLess, Linking, Point, Putters
<1> QED
  BY <1>6, <1>10, <1>11, KeepLinks

\* iput(): the test, and the lock if it is passed.
LEMMA IputLinks ==
  ASSUME RefInv, RefInv', LinkInv, NEW p \in Procs, Iput(p)
  PROVE  LinkInv'
<1> DEFINE l == proc[p]
           s == l.put
           r == [icache[s] EXCEPT !.lock = p]
           k == [l EXCEPT !.pc = "iref"]
           n == [l EXCEPT !.pc = "ifree"]
<1>1. /\ l \in Local /\ Controlled(l, cwd[p]) /\ icache \in [Slots -> Entry]
      /\ proc \in [Procs -> Local]
  BY AtFacts DEF Typed
<1>2. l.pc = "iput" /\ Unlocked(s)
  BY DEF Iput, At
<1>3. s # None
  BY <1>1, <1>2 DEF Controlled, Putters
<1>4. s \in Slots
  BY <1>1, <1>3, LocalFields DEF Pointers
<1>5. icache[s].inum # None /\ icache[s] \in Entry
  BY <1>4, HeldCached
<1>6. /\ Loc(k, "iref", l.call, l.rest, l.at, l.dp, l.ip, s, l.then)
      /\ Loc(n, "ifree", l.call, l.rest, l.at, l.dp, l.ip, s, l.then)
  <2>1. "iref" \in Points \cup Putters /\ "ifree" \in Points \cup Putters
    BY DEF Putters
  <2> QED
    BY <1>1, <2>1 DEF Loc, Local
<1>7. \/ UNCHANGED <<dinode, dir, icache>> /\ proc' = [proc EXCEPT ![p] = k]
      \/ /\ UNCHANGED <<dinode, dir>> /\ Last(s)
         /\ icache' = [icache EXCEPT ![s] = r] /\ proc' = [proc EXCEPT ![p] = n]
  BY <1>1 DEF Iput
<1> HIDE DEF k, n
<1>8. Point(k) = Point(l) /\ Point(n) = Point(l)
  BY <1>2, <1>6 DEF Loc, Point, Putters
<1>9. OwesLess(l, k) /\ OwesLess(l, n)
  BY <1>6, <1>8 DEF Loc, OwesLess, Linking
<1>10. CASE UNCHANGED <<dinode, dir, icache>> /\ proc' = [proc EXCEPT ![p] = k]
  <2>1. Locked(k) = Locked(l)
    BY <1>2, <1>6, <1>8 DEF Loc, Locked
  <2>2. Good(icache', dinode, p, Locked(k))
    BY <1>10, <2>1, GoodNow
  <2>3. Relies(k, icache', dinode, dir)
    BY <1>6 DEF Loc, Relies, LinkInv
  <2> QED
    BY <1>9, <1>10, <2>2, <2>3, KeepLinks
<1>11. CASE /\ UNCHANGED <<dinode, dir>> /\ Last(s)
            /\ icache' = [icache EXCEPT ![s] = r] /\ proc' = [proc EXCEPT ![p] = n]
  <2>1. /\ r \in Entry /\ r.inum = icache[s].inum /\ r.ref = icache[s].ref
        /\ r.valid = icache[s].valid /\ r.type = icache[s].type
        /\ r.nlink = icache[s].nlink /\ r.lock = p
    BY <1>5, LockSet
  <2> HIDE DEF r
  <2>2. /\ icache[s].valid /\ icache[s].nlink = 0 /\ icache[s].lock = "none" /\ p # "none"
        /\ Agrees(icache[s], dinode)
    BY <1>2, <1>4, <1>11, InodeAssumption DEF Last, Unlocked, LinkInv, Coherent
  <2>3. Kept(r, icache[s]) /\ Agrees(r, dinode) /\ dinode[icache[s].inum].nlink = 0
    BY <2>1, <2>2 DEF Kept, Agrees
  <2>4. Passes(Locked(l), Locked(n), s, r.lock = p)
    BY <1>2, <1>4, <1>6, <1>8, <2>1 DEF Loc, Locked, Passes
  <2>5. Good(icache, dinode, p, Locked(l))
    BY GoodNow
  <2>6. Good(icache', dinode, p, Locked(n))
    BY <1>1, <1>4, <1>11, <2>1, <2>2, <2>3, <2>4, <2>5, GoodSet DEF SameBut
  <2>7. s \notin Locked(l)
    BY <1>4, <2>2 DEF LinkInv, Locks
  <2>8. /\ Point(n) \in HoldsIp => n.ip # s
        /\ Point(n) \in HoldsDp => n.dp # s
    BY <1>4, <1>6, <1>8, <2>7 DEF Loc, Locked
  <2>9. icache'[s].inum = icache[s].inum
    BY <1>1, <1>4, <1>11, <2>1
  <2>10. l.then # "unlinklock"
    BY DEF LinkInv, Relies
  <2>11. Relies(n, icache', dinode, dir)
    BY <1>6, <2>3, <2>8, <2>9, <2>10 DEF Loc, Relies
  <2> QED
    BY <1>9, <1>11, <2>6, <2>11, KeepLinks
<1> QED
  BY <1>7, <1>10, <1>11

\* ip->ref--.
LEMMA IputRefLinks ==
  ASSUME RefInv, RefInv', LinkInv, NEW p \in Procs, IputRef(p)
  PROVE  LinkInv'
<1> DEFINE l == proc[p]
           s == l.put
           r == [icache[s] EXCEPT !.ref = icache[s].ref - 1]
           u == IF icache[s].ref = 1 THEN Unread ELSE r
           k == IF l.then = "idle" THEN AtRest
                ELSE [l EXCEPT !.pc = l.then, !.put = None, !.then = "idle"]
<1>1. /\ l \in Local /\ Controlled(l, cwd[p]) /\ icache \in [Slots -> Entry]
      /\ proc \in [Procs -> Local] /\ Good(icache, dinode, p, Locked(l))
  BY AtFacts, GoodNow DEF Typed
<1>2. l.pc = "iref"
  BY DEF IputRef, At
<1>3. s # None
  BY <1>1, <1>2 DEF Controlled, Putters
<1>4. s \in Slots
  BY <1>1, <1>3, LocalFields DEF Pointers
<1>5. icache[s].ref \in Nat /\ icache[s].ref > 0 /\ icache[s] \in Entry
  BY <1>4, HeldCached
<1>6. icache[s].ref - 1 \in Nat
  BY <1>5, SMT
<1>7. /\ icache' = [icache EXCEPT ![s] = u] /\ proc' = [proc EXCEPT ![p] = k]
      /\ UNCHANGED <<dinode, dir>>
  BY <1>1 DEF IputRef
<1>8. icache'[s] = u /\ \A t \in Slots \ {s} : icache'[t] = icache[t]
  BY <1>1, <1>4, <1>7
<1>9. Alike(icache[s], r)
  <2> DEFINE m == icache[s].ref - 1
  <2> HIDE DEF m
  <2>1. Alike(icache[s], [icache[s] EXCEPT !.ref = m])
    BY <1>5, <1>6, RefSet DEF Alike, m
  <2> QED
    BY <2>1 DEF m
<1>10. icache[s].ref = 1 => icache'[s] = Unread
  BY <1>8
<1>11. icache[s].ref # 1 => Alike(icache[s], icache'[s])
  BY <1>8, <1>9
<1>12. l.then \in Points /\ l.then \notin Putters
  <2>1. l.then \in Points
    BY <1>1, LocalFields
  <2> QED
    BY <2>1 DEF Points, Putters, HasDp, HasIp
<1>13. /\ k.pc = l.then /\ k.pc \notin Putters /\ Point(k) = l.then /\ k.then = "idle"
       /\ l.then # "idle" => k.ip = l.ip /\ k.dp = l.dp /\ k.rest = l.rest
  <2>1. CASE l.then = "idle"
    BY <2>1, RestLoc DEF Loc, Point, Putters
  <2>2. CASE l.then # "idle"
    <3>1. /\ k.pc = l.then /\ k.then = "idle" /\ k.ip = l.ip /\ k.dp = l.dp /\ k.rest = l.rest
      BY <1>1, <2>2 DEF Local
    <3> QED
      BY <1>12, <3>1 DEF Point
  <2> QED
    BY <2>1, <2>2
<1> HIDE DEF u, k, r
<1>14. Point(l) = l.then
  BY <1>2 DEF Point, Putters
<1>15. Locked(k) = Locked(l)
  BY <1>2, <1>13, <1>14 DEF Locked, HoldsIp, HoldsDp, Putters
<1>16. OwesLess(l, k)
  BY <1>13, <1>14 DEF OwesLess, Linking
<1>17. Good(icache', dinode, p, Locked(k))
  <2>1. CASE icache[s].ref # 1
    <3>1. \A t \in Slots : Alike(icache[t], icache'[t])
      BY <1>8, <1>11, <2>1 DEF Alike
    <3> QED
      BY <1>1, <1>15, <3>1, GoodAlike
  <2>2. CASE icache[s].ref = 1
    <3>1. icache'[s] = Unread /\ Unread.inum = None /\ Unread.lock = "none"
          /\ Unread.valid = FALSE
      BY <1>10, <2>2 DEF Unread
    <3>2. OneSlot(icache) /\ Coherent(icache, dinode)
      BY DEF LinkInv
    <3>3. OneSlot(icache')
      <4> SUFFICES ASSUME NEW a \in Slots, NEW b \in Slots, icache'[a].inum # None,
                          icache'[a].inum = icache'[b].inum
                   PROVE  a = b
        BY DEF OneSlot
      <4>1. a # s /\ b # s
        BY <3>1
      <4> QED
        BY <1>8, <3>2, <4>1 DEF OneSlot
    <3>4. Coherent(icache', dinode)
      BY <1>8, <3>1, <3>2 DEF Coherent, Agrees
    <3>5. Stays(icache, icache')
      BY <1>8, <3>1 DEF Stays
    <3>6. \A q \in Procs : icache[s].lock # q
      <4> SUFFICES ASSUME NEW q \in Procs, icache[s].lock = q PROVE FALSE
        OBVIOUS
      <4>1. s \in Locked(proc[q])
        BY <1>4 DEF LinkInv, Locks
      <4>2. /\ Live(proc'[q].dp, icache') /\ Live(proc'[q].ip, icache')
            /\ Live(proc'[q].put, icache')
        BY ThenLive DEF AllLive
      <4>3. proc'[q].dp # s /\ proc'[q].ip # s /\ proc'[q].put # s
        BY <1>3, <3>1, <4>2 DEF Live
      <4>4. CASE q = p
        <5>1. proc'[p] = k /\ s \in Locked(k)
          BY <1>1, <1>7, <1>15, <4>1, <4>4
        <5> QED
          BY <1>13, <4>3, <4>4, <5>1 DEF Locked, Putters
      <4>5. CASE q # p
        <5>1. proc'[q] = proc[q]
          BY <1>1, <1>7, <4>5
        <5> QED
          BY <4>1, <4>3, <5>1 DEF Locked
      <4> QED
        BY <4>4, <4>5
    <3>7. p # "none" /\ \A q \in Procs : q # "none"
      BY InodeAssumption
    <3>8. ASSUME NEW t \in Slots, NEW q \in Procs
          PROVE  icache'[t].lock = q <=> icache[t].lock = q
      BY <1>8, <3>1, <3>6, <3>7
    <3> QED
      BY <1>1, <1>15, <3>3, <3>4, <3>5, <3>8 DEF Good
  <2> QED
    BY <2>1, <2>2
<1>18. Relies(k, icache', dinode, dir)
  <2>1. l.then # "unlinklock"
    BY DEF LinkInv, Relies
  <2> QED
    BY <1>12, <1>13, <2>1 DEF Relies, Putters
<1> QED
  BY <1>7, <1>16, <1>17, <1>18, KeepLinks

\* namex() looks one element up.
LEMMA NamexLinks ==
  ASSUME RefInv, RefInv', LinkInv, NEW p \in Procs, Namex(p)
  PROVE  LinkInv'
<1> DEFINE l == proc[p]
           s == l.at
           r == Seen(p, s)
           c == [icache EXCEPT ![s] = r]
           last == Len(l.rest) = 1
           i == dir[r.inum][Head(l.rest)]
           n == SlotFor(c, i)
           a == [l EXCEPT !.pc = AfterParent(l), !.at = None, !.dp = s]
           b == Putting(l, "at", NotFound(l))
           m == [Putting(l, "at", IF last THEN AfterNamei(l) ELSE "namex")
                       EXCEPT !.rest = Tail(@), ![IF last THEN "ip" ELSE "at"] = n]
<1>1. /\ Typed /\ CacheOK(icache) /\ l \in Local /\ Controlled(l, cwd[p])
      /\ icache \in [Slots -> Entry] /\ OnDisk(dinode, dir)
  BY AtFacts
<1>2. l.pc = "namex" /\ Unlocked(s)
  BY DEF Namex, At
<1>3. /\ s # None /\ l.rest \in Paths /\ l.call \in Calls
      /\ l.ip # None => l.call.op = "link"
  BY <1>1, <1>2 DEF Controlled, Point, Putters, HasDp, HasIp
<1>4. s \in Slots
  BY <1>1, <1>3, LocalFields DEF Pointers
<1>5. icache[s].inum \in Inums /\ icache[s].inum # None
  BY <1>4, HeldCached
<1>6. Kept(r, icache[s])
  BY <1>1, <1>4, <1>5, IlockKept
<1>7. c \in [Slots -> Entry] /\ SameRefs(icache, c) /\ CacheOK(c)
  <2>1. /\ Kept(r, icache[s]) /\ s \in Slots /\ icache \in [Slots -> Entry]
        /\ CacheOK(icache)
    BY <1>1, <1>4, <1>6
  <2> HIDE DEF r, s
  <2> QED
    BY <2>1, EntrySet
<1>8. Head(l.rest) \in Names
  <2> HIDE DEF l
  <2> QED
    BY <1>3, PathFacts
<1>9. i \in Inums \cup {None}
  BY <1>1, <1>5, <1>6, <1>8 DEF OnDisk, Kept
<1>10. \/ Panic("ilock") \/ Panic("iget")
       \/ /\ ilock(p, s).type # "free" /\ UNCHANGED <<dinode, dir>>
          /\ \/ /\ nameiparent(l) /\ icache' = c /\ proc' = [proc EXCEPT ![p] = a]
             \/ /\ ~(nameiparent(l) /\ last) /\ i # None /\ SlotFor(icache, i) # None
                /\ icache' = iget(c, i) /\ proc' = [proc EXCEPT ![p] = m]
             \/ icache' = c /\ proc' = [proc EXCEPT ![p] = b]
  BY DEF Namex, Locking, Getting
<1>11. l.then # "unlinklock"
  BY DEF LinkInv, Relies
<1>12. Passes(Locked(l), Locked(l), s, FALSE)
  BY <1>2 DEF Locked, Point, Putters, HoldsIp, HoldsDp, Passes
<1>13. ilock(p, s).type # "free" => Good(c, dinode, p, Locked(l))
  BY <1>2, <1>4, <1>5, <1>12, IlockGood
<1>14. Point(l) = "namex" /\ Locked(l) = {}
  BY <1>2 DEF Locked, Point, Putters, HoldsIp, HoldsDp
<1> HIDE DEF r, c, i, n, m, a, b
<1>15. CASE Panic("ilock") \/ Panic("iget")
  BY <1>15, SameLinks DEF Panic
<1>16. CASE /\ ilock(p, s).type # "free" /\ UNCHANGED <<dinode, dir>>
            /\ nameiparent(l) /\ icache' = c /\ proc' = [proc EXCEPT ![p] = a]
  <2> DEFINE t == AfterParent(l)
  <2>1. l.call.op = "link" <=> l.ip # None
    BY <1>3, <1>16, CallFacts DEF nameiparent
  <2>2. /\ t \in {"link", "unlink", "create"} /\ (t = "link" <=> l.ip # None)
    BY <2>1 DEF AfterParent
  <2>3. a.pc = t /\ a.ip = l.ip /\ a.then = l.then
    BY <1>1 DEF Local, a
  <2> HIDE DEF t
  <2>4. Point(a) = t /\ Locked(a) = {}
    BY <2>2, <2>3 DEF Locked, Point, Putters, HoldsIp, HoldsDp
  <2>5. Relies(a, icache', dinode, dir) /\ OwesLess(l, a)
    BY <1>11, <1>14, <2>2, <2>3, <2>4 DEF Relies, OwesLess, Linking
  <2>6. Good(icache', dinode, p, Locked(a))
    BY <1>13, <1>14, <1>16, <2>4
  <2> QED
    BY <1>16, <2>5, <2>6, KeepLinks
<1>17. CASE /\ ilock(p, s).type # "free" /\ UNCHANGED <<dinode, dir>>
            /\ icache' = c /\ proc' = [proc EXCEPT ![p] = b]
  <2> DEFINE t == NotFound(l)
  <2>1. t \in {"linkundo", "idle"}
    BY DEF NotFound
  <2>2. t \in Points
    BY <2>1 DEF Points, HasIp
  <2>3. Loc(b, "iput", l.call, l.rest, None, l.dp, l.ip, s, t)
    BY <1>1, <2>2, PuttingLoc DEF b
  <2> HIDE DEF t
  <2>4. Point(b) = t /\ Locked(b) = {}
    BY <2>1, <2>3 DEF Loc, Locked, Point, Putters, HoldsIp, HoldsDp
  <2>5. Relies(b, icache', dinode, dir) /\ OwesLess(l, b)
    BY <1>14, <2>1, <2>3, <2>4 DEF Loc, Relies, OwesLess, Linking
  <2>6. Good(icache', dinode, p, Locked(b))
    BY <1>13, <1>14, <1>17, <2>4
  <2> QED
    BY <1>17, <2>5, <2>6, KeepLinks
<1>18. CASE /\ ilock(p, s).type # "free" /\ UNCHANGED <<dinode, dir>>
            /\ ~(nameiparent(l) /\ last) /\ i # None /\ SlotFor(icache, i) # None
            /\ icache' = iget(c, i) /\ proc' = [proc EXCEPT ![p] = m]
  <2> DEFINE t == IF last THEN AfterNamei(l) ELSE "namex"
             g == Putting(l, "at", t)
  <2>1. SlotFor(c, i) # None /\ i \in Inums
    BY <1>7, <1>9, <1>18 DEF SameRefs, SlotFor
  <2>2. Good(icache', dinode, p, Locked(l))
    BY <1>7, <1>13, <1>18, <2>1, GoodGet
  <2>3. /\ t \in {"linkinc", "chdir", "open", "namex"} /\ (~last => t = "namex")
        /\ last => t # "namex"
    BY DEF AfterNamei
  <2>4. t \in Points
    BY <2>3 DEF Points, HasIp
  <2>5. Loc(g, "iput", l.call, l.rest, None, l.dp, l.ip, s, t)
    BY <1>1, <2>4, PuttingLoc
  <2>6. m = [g EXCEPT !.rest = Tail(@), ![IF last THEN "ip" ELSE "at"] = n]
    BY DEF m
  <2> HIDE DEF t, g
  <2>7. m.pc = "iput" /\ m.then = t /\ (~last => m.ip = l.ip)
    <3>1. CASE last
      <4>1. m = [g EXCEPT !.rest = Tail(l.rest), !.ip = n]
        BY <2>5, <2>6, <3>1 DEF Loc
      <4> QED
        BY <2>5, <3>1, <4>1 DEF Loc, Local
    <3>2. CASE ~last
      <4>1. m = [g EXCEPT !.rest = Tail(l.rest), !.at = n]
        BY <2>5, <2>6, <3>2 DEF Loc
      <4> QED
        BY <2>5, <4>1 DEF Loc, Local
    <3> QED
      BY <3>1, <3>2
  <2>8. Point(m) = t /\ Locked(m) = {}
    BY <2>3, <2>7 DEF Locked, Point, Putters, HoldsIp, HoldsDp
  <2>9. Relies(m, icache', dinode, dir) /\ OwesLess(l, m)
    BY <1>14, <2>3, <2>7, <2>8 DEF Relies, OwesLess, Linking
  <2>10. Good(icache', dinode, p, Locked(m))
    BY <1>14, <2>2, <2>8
  <2> QED
    BY <1>18, <2>9, <2>10, KeepLinks
<1> QED
  BY <1>10, <1>15, <1>16, <1>17, <1>18

\* unlink(): the name is looked up, and the directory stays locked if it is there.
LEMMA UnlinkLinks ==
  ASSUME RefInv, RefInv', LinkInv, NEW p \in Procs, Unlink(p)
  PROVE  LinkInv'
<1> DEFINE l == proc[p]
           s == l.dp
           i == dir[icache[s].inum][Head(l.rest)]
           r == ilock(p, s)
           c == [icache EXCEPT ![s] = r]
           d == [icache EXCEPT ![s] = Seen(p, s)]
           n == SlotFor(c, i)
           k == [l EXCEPT !.pc = "unlinklock", !.ip = n]
           m == Putting(l, "dp", "idle")
<1>1. /\ Typed /\ CacheOK(icache) /\ l \in Local /\ Controlled(l, cwd[p])
      /\ icache \in [Slots -> Entry] /\ OnDisk(dinode, dir) /\ proc \in [Procs -> Local]
  BY AtFacts DEF Typed
<1>2. l.pc = "unlink" /\ Unlocked(s)
  BY DEF Unlink, At
<1>3. s # None /\ l.rest \in Paths
  BY <1>1, <1>2 DEF Controlled, Point, Putters, HasDp, HasIp
<1>4. s \in Slots
  BY <1>1, <1>3, LocalFields DEF Pointers
<1>5. icache[s].inum \in Inums /\ icache[s].inum # None
  BY <1>4, HeldCached
<1>6. Kept(r, icache[s])
  BY <1>1, <1>4, <1>5, IlockKept
<1>7. c \in [Slots -> Entry] /\ SameRefs(icache, c) /\ CacheOK(c)
  <2>1. /\ Kept(r, icache[s]) /\ s \in Slots /\ icache \in [Slots -> Entry]
        /\ CacheOK(icache)
    BY <1>1, <1>4, <1>6
  <2> HIDE DEF r, s
  <2> QED
    BY <2>1, EntrySet
<1>8. Head(l.rest) \in Names
  <2> HIDE DEF l
  <2> QED
    BY <1>3, PathFacts
<1>9. i \in Inums \cup {None}
  BY <1>1, <1>5, <1>8 DEF OnDisk
<1>10. \/ Panic("ilock") \/ Panic("iget")
       \/ /\ r.type # "free" /\ UNCHANGED <<dinode, dir>>
          /\ \/ icache' = d /\ proc' = [proc EXCEPT ![p] = m]
             \/ /\ i # None /\ SlotFor(icache, i) # None /\ Head(l.rest) # ".."
                /\ icache' = iget(c, i) /\ proc' = [proc EXCEPT ![p] = k]
  BY DEF Unlink, Locking, Getting
<1>11. Loc(m, "iput", l.call, l.rest, l.at, None, l.ip, s, "idle")
  <2>1. "idle" \in Points
    BY DEF Points
  <2> QED
    BY <1>1, <2>1, PuttingLoc
<1>12. k.pc = "unlinklock" /\ k.dp = s /\ k.ip = n /\ k.rest = l.rest /\ k.then = l.then
  BY <1>1 DEF Local
<1>13. l.then # "unlinklock"
  BY DEF LinkInv, Relies
<1> HIDE DEF k, m
<1>14. /\ Passes(Locked(l), Locked(m), s, FALSE)
       /\ Passes(Locked(l), Locked(k), s, TRUE)
  BY <1>2, <1>4, <1>11, <1>12 DEF Loc, Locked, Point, Putters, HoldsIp, HoldsDp, Passes
<1>15. OwesLess(l, k) /\ OwesLess(l, m) /\ Relies(m, icache', dinode, dir)
  BY <1>11, <1>12 DEF Loc, Relies, OwesLess, Linking, Point, Putters
<1>16. ASSUME r.type # "free"
       PROVE  /\ Good(d, dinode, p, Locked(m)) /\ Good(c, dinode, p, Locked(k))
  BY <1>2, <1>4, <1>5, <1>14, <1>16, IlockGood
<1> HIDE DEF r, c, d, i
<1>17. CASE Panic("ilock") \/ Panic("iget")
  BY <1>17, SameLinks DEF Panic
<1>18. CASE /\ r.type # "free" /\ UNCHANGED <<dinode, dir>>
            /\ icache' = d /\ proc' = [proc EXCEPT ![p] = m]
  BY <1>15, <1>16, <1>18, KeepLinks
<1>19. CASE /\ r.type # "free" /\ UNCHANGED <<dinode, dir>>
            /\ i # None /\ SlotFor(icache, i) # None /\ Head(l.rest) # ".."
            /\ icache' = iget(c, i) /\ proc' = [proc EXCEPT ![p] = k]
  <2>1. SlotFor(c, i) # None /\ i \in Inums
    BY <1>7, <1>9, <1>19 DEF SameRefs, SlotFor
  <2>2. Good(icache', dinode, p, Locked(k))
    BY <1>7, <1>16, <1>19, <2>1, GoodGet
  <2>3. Gets(icache, icache', n, i)
    BY <1>7, <1>19, <2>1, IgetAfter
  <2>4. icache'[n].inum = i
    BY <2>3 DEF Gets
  <2>5. icache'[s].inum = icache[s].inum
    <3>1. proc'[p] = k
      BY <1>1, <1>19
    <3>2. Live(k.dp, icache')
      BY <3>1, ThenLive DEF AllLive
    <3>3. Stays(icache, icache')
      BY <2>2 DEF Good
    <3> QED
      BY <1>3, <1>4, <1>5, <1>12, <3>2, <3>3 DEF Live, Stays
  <2>6. dir[icache'[s].inum][Head(l.rest)] = icache'[n].inum
    BY <2>4, <2>5 DEF i
  <2> HIDE DEF n
  <2>7. Relies(k, icache', dinode, dir)
    BY <1>12, <1>13, <1>19, <2>6 DEF Relies
  <2> QED
    BY <1>15, <1>19, <2>2, <2>7, KeepLinks
<1> QED
  BY <1>10, <1>17, <1>18, <1>19
-----------------------------------------------------------------------------
(* Steps that change links. *)

\* Another process's lock is on another inode.
LEMMA OthersLock ==
  ASSUME LinkInv, NEW p \in Procs, NEW s \in Slots, icache[s].lock \in {p, "none"},
         NEW t \in Slots, NEW q \in Procs \ {p}, icache[t].lock = q
  PROVE  /\ icache[t].inum # icache[s].inum
         /\ dinode[icache[t].inum].type # "free"
<1>1. Agrees(icache[t], dinode) /\ q # "none" /\ q # p /\ OneSlot(icache)
  BY InodeAssumption DEF LinkInv, Coherent
<1>2. icache[t].inum # None /\ dinode[icache[t].inum].type # "free" /\ t # s
  BY <1>1 DEF Agrees
<1> QED
  BY <1>1, <1>2 DEF OneSlot

\* p may change the inodes of J: they are free, or nobody but p has them locked.
MayChange(p, J) ==
  \A j \in J : \/ dinode[j].type = "free"
              \/ \E s \in Slots : icache[s].inum = j /\ icache[s].lock \in {p, "none"}

\* The type of an inode changes only if it is free or has no links.
TypesKept == \A i \in Inums : \/ dinode'[i].type = dinode[i].type
                              \/ dinode[i].type = "free" \/ dinode[i].nlink = 0

\* A step changes inodes that p may change.
LEMMA GuardStep ==
  ASSUME RefInv, LinkInv, NEW p \in Procs, NEW J, MayChange(p, J),
         SameBut(dinode, dinode', J), SameBut(dir, dir', J), TypesKept
  PROVE  Guarded(p)
<1> SUFFICES ASSUME NEW t \in Slots, NEW q \in Procs \ {p}, icache[t].lock = q
             PROVE  icache[t].inum \in Inums \ J
  BY DEF Guarded, SameBut, TypesKept
<1>1. ASSUME NEW s \in Slots, icache[s].lock \in {p, "none"}
      PROVE  /\ icache[t].inum # icache[s].inum
  BY <1>1, OthersLock
<1>2. /\ Agrees(icache[t], dinode) /\ icache[t] \in Entry /\ q # "none"
  BY InodeAssumption DEF LinkInv, Coherent, RefInv, Typed
<1>3. dinode[icache[t].inum].type # "free" /\ icache[t].inum # None
  BY <1>2 DEF Agrees
<1>4. icache[t].inum \in Inums \cup {None}
  BY <1>2, EntryFields
<1> QED
  BY <1>1, <1>3, <1>4 DEF MayChange

\* What x counts for from N to M, y from B to A and z from D to C is at most h.
Gains(N, M, x, B, A, y, D, C, z, h) ==
  h >= One(x \in M) - One(x \in N) + One(y \in A) - One(y \in B)
         + One(z \in C) - One(z \in D)

\* The links of i are counted after a step if its names change by x at most,
\* its subdirectories by y, its debtors by p, and nlink by as much.
LEMMA CountStep ==
  ASSUME RefInv, RefInv', LinkInv, NEW p \in Procs, AgreeBut(proc, proc', Procs, p),
         Stays(icache, icache'), NEW i \in Inums, NEW x, NEW y,
         NamesOf(dir', i) \ {x} \subseteq NamesOf(dir, i),
         Below(dinode', dir', i) \ {y} \subseteq Below(dinode, dir, i),
         Gains(NamesOf(dir, i), NamesOf(dir', i), x,
               Below(dinode, dir, i), Below(dinode', dir', i), y,
               Debtors(proc, icache, i), Debtors(proc', icache', i), p,
               dinode'[i].nlink - dinode[i].nlink)
  PROVE  Counted(dinode', dir', proc', icache', i)
<1> DEFINE N == NamesOf(dir, i)
           B == Below(dinode, dir, i)
           D == Debtors(proc, icache, i)
           k == dinode[i].nlink
           M == NamesOf(dir', i)
           A == Below(dinode', dir', i)
           C == Debtors(proc', icache', i)
           j == dinode'[i].nlink
<1>1. C \ {p} = D \ {p}
  BY OtherDebtors
<1>2. Moved(k, j, N, B, D, M, A, C, x, y, p)
  BY <1>1 DEF Gains, Moved
<1>3. Enough(k, N, B, D) /\ AllFinite(N, B, D) /\ AllFinite(M, A, C)
  BY LinksFinite DEF LinkInv, Counted, AllFinite
<1>4. k \in Int /\ j \in Int
  BY DEF RefInv, Typed, OnDisk
<1> HIDE DEF N, B, D, M, A, C, j, k
<1>5. Enough(j, M, A, C)
  BY <1>2, <1>3, <1>4, EnoughStep
<1> QED
  BY <1>5 DEF Counted, M, A, C, j

\* nlink of the inode that p points to changes by what p comes to owe.
LEMMA NlinkLinks ==
  ASSUME RefInv, RefInv', LinkInv, NEW p \in Procs, NEW n, proc' = [proc EXCEPT ![p] = n],
         NEW s \in Slots, proc[p].ip = s, icache[s].lock \in {p, "none"}, NEW h \in Int,
         dinode[icache[s].inum].type # "free",
         dinode' = [dinode EXCEPT ![icache[s].inum] =
                      [type |-> dinode[icache[s].inum].type, nlink |-> h]],
         dir' = dir, Good(icache', dinode', p, Locked(n)),
         Relies(n, icache', dinode', dir'), LinksFile(n, icache', dinode'),
         Owes(n) => n.ip = s,
         h - dinode[icache[s].inum].nlink >= One(Owes(n)) - One(Owes(proc[p]))
  PROVE  LinkInv'
<1> DEFINE j == icache[s].inum
<1>1. proc'[p] = n /\ AgreeBut(proc, proc', Procs, p) /\ OnDisk(dinode, dir)
  BY DEF RefInv, Typed, AgreeBut
<1>2. Stays(icache, icache')
  BY DEF Good
<1>3. j \in Inums /\ s # None
  BY HeldCached, Numbers
<1>4. /\ dinode'[j].type = dinode[j].type /\ dinode'[j].nlink = h
      /\ SameBut(dinode, dinode', {j})
  BY <1>1, <1>3 DEF OnDisk, SameBut
<1> HIDE DEF j
<1>5. \A i \in Inums : dinode'[i].type = dinode[i].type
  BY <1>4 DEF SameBut
<1>6. FreeEmpty(dinode', dir')
  <2> SUFFICES ASSUME NEW i \in Inums, dinode'[i].type = "free"
               PROVE  dinode'[i].nlink = 0 /\ dir[i] = NoNames
    BY DEF FreeEmpty
  <2>1. dinode[i].type = "free"
    BY <1>5
  <2>2. dinode'[i] = dinode[i]
    BY <1>4, <2>1 DEF j, SameBut
  <2> QED
    BY <2>1, <2>2 DEF LinkInv, FreeEmpty
<1>7. Guarded(p)
  <2>1. MayChange(p, {j}) /\ TypesKept /\ SameBut(dir, dir', {j})
    BY <1>5 DEF MayChange, TypesKept, SameBut, j
  <2> QED
    BY <1>4, <2>1, GuardStep
<1>8. ASSUME NEW i \in Inums
      PROVE  Counted(dinode', dir', proc', icache', i)
  <2>1. NamesOf(dir', i) = NamesOf(dir, i) /\ Below(dinode', dir', i) = Below(dinode, dir, i)
    <3>1. \A m \in Names : dir[i][m] \in Inums \cup {None}
      BY <1>1 DEF OnDisk
    <3>2. NamesOf(dir', i) = NamesOf(dir, i)
      OBVIOUS
    <3>3. ASSUME NEW m \in Names \ {".."}
          PROVE  m \in Below(dinode', dir', i) <=> m \in Below(dinode, dir, i)
      <4>1. dir[i][m] # None => dinode'[dir[i][m]].type = dinode[dir[i][m]].type
        BY <1>5, <3>1
      <4> QED
        BY <4>1 DEF Below
    <3>4. Below(dinode', dir', i) = Below(dinode, dir, i)
      BY <3>3 DEF Below
    <3> QED
      BY <3>2, <3>4
  <2>2. Owes(n) => icache'[n.ip].inum = j
    BY <1>1, <1>2, <1>3, PointerStays DEF j
  <2>3. /\ p \in Debtors(proc', icache', i) <=> Owes(n) /\ i = j
        /\ p \in Debtors(proc, icache, i) <=> Owes(proc[p]) /\ i = j
    BY <1>1, <2>2 DEF Debtors, j
  <2>4. dinode'[i].nlink \in Int /\ dinode[i].nlink \in Int
    BY DEF RefInv, Typed, OnDisk
  <2> DEFINE D == Debtors(proc, icache, i)
             C == Debtors(proc', icache', i)
             N == NamesOf(dir, i)
             B == Below(dinode, dir, i)
             k == dinode[i].nlink
             m == dinode'[i].nlink
  <2>5. /\ i = j => m - k >= One(Owes(n)) - One(Owes(proc[p]))
        /\ i # j => m = k
        /\ p \in C <=> Owes(n) /\ i = j
        /\ p \in D <=> Owes(proc[p]) /\ i = j
    BY <1>4, <2>3 DEF j, SameBut
  <2> HIDE DEF C, D, N, B, k, m
  <2>6. m - k >= One(p \in C) - One(p \in D)
    <3>1. CASE i = j
      <4>1. (p \in C <=> Owes(n)) /\ (p \in D <=> Owes(proc[p]))
        BY <2>5, <3>1
      <4>2. One(p \in C) = One(Owes(n)) /\ One(p \in D) = One(Owes(proc[p]))
        BY <4>1 DEF One
      <4> QED
        BY <2>5, <3>1, <4>2
    <3>2. CASE i # j
      BY <2>4, <2>5, <3>2, SMT DEF One, k, m
    <3> QED
      BY <3>1, <3>2
  <2>7. m \in Int /\ k \in Int
    BY <2>4 DEF k, m
  <2>8. Gains(N, N, None, B, B, None, D, C, p, m - k)
    BY <2>6, <2>7, SMT DEF Gains, One
  <2> QED
    BY <1>1, <1>2, <2>1, <2>8, CountStep DEF N, B, D, C, k, m
<1> QED
  BY <1>1, <1>6, <1>7, <1>8, LinkStep

\* What ilock() reads is what the disk has.
LEMMA SeenDisk ==
  ASSUME RefInv, LinkInv, NEW p \in Procs, NEW s \in Slots, icache[s].inum # None
  PROVE  /\ Kept(Seen(p, s), icache[s]) /\ Kept(ilock(p, s), icache[s])
         /\ Seen(p, s).lock = "none" /\ Seen(p, s).valid = TRUE
         /\ ilock(p, s).lock = p /\ ilock(p, s).valid = TRUE
         /\ Seen(p, s).type = dinode[icache[s].inum].type
         /\ Seen(p, s).nlink = dinode[icache[s].inum].nlink
         /\ ilock(p, s).type = dinode[icache[s].inum].type
         /\ ilock(p, s).nlink = dinode[icache[s].inum].nlink
<1> DEFINE r == ilock(p, s)
           u == Seen(p, s)
<1>1. Typed /\ Agrees(icache[s], dinode)
  BY DEF RefInv, LinkInv, Coherent
<1>2. Kept(r, icache[s]) /\ Kept(u, icache[s])
  BY <1>1, IlockKept
<1>3. /\ r.lock = p /\ r.valid = TRUE /\ u.lock = "none" /\ u.valid = TRUE
      /\ u.type = r.type /\ u.nlink = r.nlink
  BY <1>1, IlockEntry
<1>4. /\ r.type = (IF icache[s].valid THEN icache[s].type
                   ELSE dinode[icache[s].inum].type)
      /\ r.nlink = (IF icache[s].valid THEN icache[s].nlink
                    ELSE dinode[icache[s].inum].nlink)
  BY <1>1, IlockReads
<1> HIDE DEF r, u
<1>5. r.type = dinode[icache[s].inum].type /\ r.nlink = dinode[icache[s].inum].nlink
  BY <1>1, <1>4 DEF Agrees
<1> QED
  BY <1>2, <1>3, <1>5 DEF r, u

\* unlink() takes the link of the name it has erased.
LEMMA UnlinkDecLinks ==
  ASSUME RefInv, RefInv', LinkInv, NEW p \in Procs, UnlinkDec(p)
  PROVE  LinkInv'
<1> DEFINE l == proc[p]
           s == l.ip
           e == icache[s]
           h == e.nlink - 1
           u == [e EXCEPT !.nlink = h]
           r == [u EXCEPT !.lock = "none"]
           n == Putting(l, "ip", "idle")
           j == e.inum
<1>1. /\ l \in Local /\ Controlled(l, cwd[p]) /\ icache \in [Slots -> Entry]
      /\ OnDisk(dinode, dir)
  BY AtFacts
<1>2. l.pc = "unlinkdec"
  BY DEF UnlinkDec, At
<1>3. s # None
  BY <1>1, <1>2 DEF Controlled, Point, Putters, HasDp, HasIp
<1>4. s \in Slots
  BY <1>1, <1>3, LocalFields DEF Pointers
<1>5. e \in Entry /\ j \in Inums
  BY <1>4, HeldCached
<1>6. s \in Locked(l)
  BY <1>2, <1>4 DEF Locked, Point, Putters, HoldsIp
<1>7. e.lock = p /\ p # "none" /\ Agrees(e, dinode) /\ Good(icache, dinode, p, Locked(l))
  BY <1>4, <1>6, GoodNow, InodeAssumption DEF LinkInv, Locks, Coherent
<1>8. e.type # "free" /\ dinode[j].type = e.type /\ dinode[j].nlink = e.nlink
  BY <1>7 DEF Agrees
<1>9. Loc(n, "iput", l.call, l.rest, l.at, l.dp, None, s, "idle")
  <2>1. "idle" \in Points
    BY DEF Points
  <2> QED
    BY <1>1, <2>1, PuttingLoc
<1>10. /\ icache' = [icache EXCEPT ![s] = r] /\ dinode' = iupdate(dinode, r)
       /\ proc' = [proc EXCEPT ![p] = n] /\ dir' = dir
  BY DEF UnlinkDec
<1> HIDE DEF n
<1>11. e.nlink \in Int /\ "none" \in Procs \cup {"none"}
  BY <1>5, EntryFields
<1>12. h \in Int /\ h - e.nlink >= 0 - 1
  BY <1>11, SMT
<1> HIDE DEF h
<1>13. /\ r \in Entry /\ r.inum = j /\ r.ref = e.ref /\ r.valid = e.valid /\ r.type = e.type
       /\ r.nlink = h /\ r.lock = "none"
  <2>1. /\ u \in Entry /\ u.inum = j /\ u.ref = e.ref /\ u.valid = e.valid
        /\ u.type = e.type /\ u.nlink = h
    BY <1>5, <1>12, NlinkSet
  <2> HIDE DEF u, e
  <2> QED
    BY <1>11, <2>1, LockSet
<1> HIDE DEF r
<1>14. dinode' = [dinode EXCEPT ![j] = [type |-> dinode[j].type, nlink |-> h]]
  BY <1>8, <1>10, <1>13 DEF iupdate
<1>15. /\ dinode'[j].type = e.type /\ dinode'[j].nlink = h
       /\ SameBut(dinode, dinode', {j})
  BY <1>1, <1>5, <1>8, <1>14 DEF OnDisk, SameBut
<1>16. Agrees(r, dinode') /\ Kept(r, e)
  BY <1>5, <1>7, <1>8, <1>13, <1>15 DEF Agrees, Kept
<1>17. Passes(Locked(l), Locked(n), s, r.lock = p)
  BY <1>2, <1>4, <1>7, <1>9, <1>13 DEF Loc, Locked, Point, Putters, HoldsIp, HoldsDp, Passes
<1>18. Good(icache', dinode', p, Locked(n))
  <2>1. e.lock \in {p, "none"} /\ r.lock \in {p, "none"}
    BY <1>7, <1>13
  <2> QED
    BY <1>1, <1>4, <1>7, <1>10, <1>15, <1>16, <1>17, <2>1, GoodSet
<1>19. Relies(n, icache', dinode', dir') /\ LinksFile(n, icache', dinode') /\ ~Owes(n)
  BY <1>9 DEF Loc, Relies, LinksFile, Owes, Linking, Point, Putters
<1>20. Owes(l)
  BY <1>2 DEF Owes, Point, Putters
<1>21. h - dinode[j].nlink >= One(Owes(n)) - One(Owes(l))
  BY <1>8, <1>12, <1>19, <1>20 DEF One
<1>22. e.lock \in {p, "none"} /\ dinode[j].type # "free"
  BY <1>7, <1>8
<1> QED
  BY <1>4, <1>10, <1>12, <1>14, <1>18, <1>19, <1>21, <1>22, NlinkLinks

\* link() takes its link back.
LEMMA LinkUndoLinks ==
  ASSUME RefInv, RefInv', LinkInv, NEW p \in Procs, LinkUndo(p)
  PROVE  LinkInv'
<1> DEFINE l == proc[p]
           s == l.ip
           e == icache[s]
           u == Seen(p, s)
           h == u.nlink - 1
           r == [u EXCEPT !.nlink = h]
           n == Putting(l, "ip", "idle")
           j == e.inum
<1>1. /\ Typed /\ l \in Local /\ Controlled(l, cwd[p]) /\ icache \in [Slots -> Entry]
      /\ OnDisk(dinode, dir)
  BY AtFacts
<1>2. l.pc = "linkundo" /\ Unlocked(s)
  BY DEF LinkUndo, At
<1>3. s # None
  BY <1>1, <1>2 DEF Controlled, Point, Putters, HasDp, HasIp
<1>4. s \in Slots
  BY <1>1, <1>3, LocalFields DEF Pointers
<1>5. j \in Inums /\ j # None
  BY <1>4, HeldCached
<1>6. e.lock = "none" /\ p # "none" /\ Good(icache, dinode, p, Locked(l))
  BY <1>2, GoodNow, InodeAssumption DEF Unlocked
<1>7. /\ Kept(u, e) /\ u.lock = "none" /\ u.valid = TRUE
      /\ u.type = dinode[j].type /\ u.nlink = dinode[j].nlink
  BY <1>1, <1>4, <1>5, SeenDisk
<1>8. Loc(n, "iput", l.call, l.rest, l.at, l.dp, None, s, "idle")
  <2>1. "idle" \in Points
    BY DEF Points
  <2> QED
    BY <1>1, <2>1, PuttingLoc
<1>9. \/ Panic("ilock")
      \/ /\ icache' = [icache EXCEPT ![s] = r] /\ dinode' = iupdate(dinode, r)
         /\ proc' = [proc EXCEPT ![p] = n] /\ dir' = dir
  BY DEF LinkUndo, Locking
<1> HIDE DEF n, u
<1>10. u \in Entry /\ u.nlink \in Int
  BY <1>7, EntryFields DEF Kept
<1>11. h \in Int /\ h - u.nlink >= 0 - 1
  BY <1>10, SMT
<1> HIDE DEF h
<1>12. /\ r \in Entry /\ r.inum = u.inum /\ r.ref = u.ref /\ r.valid = u.valid
       /\ r.type = u.type /\ r.nlink = h /\ r.lock = u.lock
  BY <1>10, <1>11, NlinkSet
<1> HIDE DEF r
<1>13. CASE Panic("ilock")
  BY <1>13, SameLinks DEF Panic
<1>14. CASE /\ icache' = [icache EXCEPT ![s] = r] /\ dinode' = iupdate(dinode, r)
            /\ proc' = [proc EXCEPT ![p] = n] /\ dir' = dir
  <2>1. r.inum = j /\ r.type = dinode[j].type /\ r.lock = "none" /\ r.valid = TRUE
    BY <1>7, <1>12 DEF Kept
  <2>2. dinode' = [dinode EXCEPT ![j] = [type |-> dinode[j].type, nlink |-> h]]
    BY <1>12, <1>14, <2>1 DEF iupdate
  <2>3. /\ dinode'[j].type = dinode[j].type /\ dinode'[j].nlink = h
        /\ SameBut(dinode, dinode', {j})
    BY <1>1, <1>5, <2>2 DEF OnDisk, SameBut
  <2>4. Owes(l) /\ dinode[j].type # "free"
    BY <1>2, <1>3 DEF Owes, Linking, Point, Putters, LinkInv, LinksFile
  <2>5. Agrees(r, dinode') /\ Kept(r, e)
    BY <1>5, <1>7, <1>12, <2>1, <2>3, <2>4 DEF Agrees, Kept
  <2>6. Passes(Locked(l), Locked(n), s, r.lock = p)
    BY <1>2, <1>6, <1>8, <2>1 DEF Loc, Locked, Point, Putters, HoldsIp, HoldsDp, Passes
  <2>7. e.lock \in {p, "none"} /\ r.lock \in {p, "none"}
    BY <1>6, <2>1
  <2>8. Good(icache', dinode', p, Locked(n))
    BY <1>1, <1>4, <1>6, <1>14, <2>3, <2>5, <2>6, <2>7, GoodSet
  <2>9. Relies(n, icache', dinode', dir') /\ LinksFile(n, icache', dinode') /\ ~Owes(n)
    BY <1>8 DEF Loc, Relies, LinksFile, Owes, Linking, Point, Putters
  <2>10. h - dinode[j].nlink >= One(Owes(n)) - One(Owes(l))
    BY <1>7, <1>11, <2>4, <2>9 DEF One
  <2> QED
    BY <1>4, <1>11, <1>14, <2>2, <2>4, <2>7, <2>8, <2>9, <2>10, NlinkLinks
<1> QED
  BY <1>9, <1>13, <1>14

\* link() counts the new link, or refuses a directory.
LEMMA LinkIncLinks ==
  ASSUME RefInv, RefInv', LinkInv, NEW p \in Procs, LinkInc(p)
  PROVE  LinkInv'
<1> DEFINE l == proc[p]
           s == l.ip
           e == icache[s]
           u == Seen(p, s)
           h == u.nlink + 1
           r == [u EXCEPT !.nlink = h]
           c == [icache EXCEPT ![s] = r]
           k == [l EXCEPT !.pc = "namex", !.rest = l.call.new, !.at = StartSlot(p, c, l.call)]
           n == Putting(l, "ip", "idle")
           j == e.inum
<1>1. /\ Typed /\ CacheOK(icache) /\ l \in Local /\ Controlled(l, cwd[p])
      /\ icache \in [Slots -> Entry] /\ OnDisk(dinode, dir) /\ cwd[p] \in Pointers
      /\ proc \in [Procs -> Local]
  BY AtFacts DEF Typed
<1>2. l.pc = "linkinc" /\ Unlocked(s)
  BY DEF LinkInc, At
<1>3. s # None /\ cwd[p] # None
  BY <1>1, <1>2 DEF Controlled, Point, Putters, HasDp, HasIp
<1>4. s \in Slots /\ cwd[p] \in Slots
  BY <1>1, <1>3, LocalFields DEF Pointers
<1>5. j \in Inums /\ j # None /\ icache[cwd[p]].ref > 0
  BY <1>4, HeldCached
<1>6. e.lock = "none" /\ p # "none" /\ Good(icache, dinode, p, Locked(l))
  BY <1>2, GoodNow, InodeAssumption DEF Unlocked
<1>7. /\ Kept(u, e) /\ u.lock = "none" /\ u.valid = TRUE
      /\ u.type = dinode[j].type /\ u.nlink = dinode[j].nlink
      /\ ilock(p, s).type = dinode[j].type
  BY <1>4, <1>5, SeenDisk
<1>8. Loc(n, "iput", l.call, l.rest, l.at, l.dp, None, s, "idle")
  <2>1. "idle" \in Points
    BY DEF Points
  <2> QED
    BY <1>1, <2>1, PuttingLoc
<1>9. k.pc = "namex" /\ k.ip = s /\ k.then = l.then
  BY <1>1 DEF Local
<1>10. \/ Panic("ilock")
       \/ /\ ilock(p, s).type # "free" /\ icache' = [icache EXCEPT ![s] = u]
          /\ proc' = [proc EXCEPT ![p] = n] /\ UNCHANGED <<dinode, dir>>
       \/ /\ u.type # "dir" /\ u.type # "free" /\ dinode' = iupdate(dinode, r)
          /\ icache' = StartCache(p, c, l.call)
          /\ proc' = [proc EXCEPT ![p] = k] /\ dir' = dir
  BY <1>7 DEF LinkInc, Locking
<1> HIDE DEF n, k
<1>11. CASE Panic("ilock")
  BY <1>11, SameLinks DEF Panic
<1>12. CASE /\ ilock(p, s).type # "free" /\ icache' = [icache EXCEPT ![s] = u]
            /\ proc' = [proc EXCEPT ![p] = n] /\ UNCHANGED <<dinode, dir>>
  <2>1. Passes(Locked(l), Locked(n), s, FALSE)
    BY <1>2, <1>8 DEF Loc, Locked, Point, Putters, HoldsIp, HoldsDp, Passes
  <2>2. Relies(n, icache', dinode, dir) /\ OwesLess(l, n)
    BY <1>8 DEF Loc, Relies, OwesLess, Linking, Point, Putters
  <2>3. Good(icache', dinode, p, Locked(n))
    BY <1>2, <1>4, <1>5, <1>12, <2>1, IlockGood
  <2> QED
    BY <1>12, <2>2, <2>3, KeepLinks
<1> HIDE DEF u
<1>13. u \in Entry /\ u.nlink \in Int
  BY <1>7, EntryFields DEF Kept
<1>14. h \in Int /\ h - u.nlink >= 1 - 0
  BY <1>13, SMT
<1> HIDE DEF h
<1>15. /\ r \in Entry /\ r.inum = u.inum /\ r.ref = u.ref /\ r.valid = u.valid
       /\ r.type = u.type /\ r.nlink = h /\ r.lock = u.lock
  BY <1>13, <1>14, NlinkSet
<1> HIDE DEF r
<1>16. CASE /\ u.type # "dir" /\ u.type # "free" /\ dinode' = iupdate(dinode, r)
            /\ icache' = StartCache(p, c, l.call)
            /\ proc' = [proc EXCEPT ![p] = k] /\ dir' = dir
  <2>1. r.inum = j /\ r.type = dinode[j].type /\ r.lock = "none" /\ r.valid = TRUE
    BY <1>7, <1>15 DEF Kept
  <2>2. dinode' = [dinode EXCEPT ![j] = [type |-> dinode[j].type, nlink |-> h]]
    BY <1>15, <1>16, <2>1 DEF iupdate
  <2>3. /\ dinode'[j].type = dinode[j].type /\ dinode'[j].nlink = h
        /\ SameBut(dinode, dinode', {j})
    BY <1>1, <1>5, <2>2 DEF OnDisk, SameBut
  <2>4. dinode[j].type # "free" /\ dinode[j].type # "dir"
    BY <1>7, <1>16
  <2>5. Agrees(r, dinode') /\ Kept(r, e)
    BY <1>5, <1>7, <1>15, <2>1, <2>3, <2>4 DEF Agrees, Kept
  <2>6. Passes(Locked(l), Locked(k), s, r.lock = p)
    BY <1>2, <1>6, <1>9, <2>1 DEF Locked, Point, Putters, HoldsIp, HoldsDp, Passes
  <2>7. e.lock \in {p, "none"} /\ r.lock \in {p, "none"}
    BY <1>6, <2>1
  <2>8. Good(c, dinode', p, Locked(k))
    BY <1>1, <1>4, <1>6, <2>3, <2>5, <2>6, <2>7, GoodSet
  <2>9. SameRefs(icache, c) /\ CacheOK(c)
    <3>1. Kept(r, icache[s]) /\ s \in Slots /\ CacheOK(icache) /\ icache \in [Slots -> Entry]
      BY <1>1, <1>4, <2>5
    <3> HIDE DEF s
    <3> QED
      BY <3>1, EntrySet
  <2> HIDE DEF c
  <2>10. c[cwd[p]].ref > 0
    BY <1>4, <1>5, <2>9 DEF SameRefs
  <2>11. Good(icache', dinode', p, Locked(k))
    BY <1>4, <1>16, <2>8, <2>9, <2>10, GoodStart
  <2>12. Relies(k, icache', dinode', dir')
    BY <1>9 DEF Relies, LinkInv
  <2>13. LinksFile(k, icache', dinode')
    <3>1. proc'[p] = k
      BY <1>1, <1>16
    <3>2. Live(k.ip, icache') /\ Stays(icache, icache')
      BY <2>11, <3>1, ThenLive DEF AllLive, Good
    <3>3. icache'[s].inum = j
      BY <1>3, <1>4, <1>5, <1>9, <3>2 DEF Live, Stays
    <3> QED
      BY <1>9, <2>3, <2>4, <3>3 DEF LinksFile
  <2>14. Owes(k) /\ ~Owes(l)
    BY <1>2, <1>3, <1>9 DEF Owes, Linking, Point, Putters
  <2>15. h - dinode[j].nlink >= One(Owes(k)) - One(Owes(l))
    BY <1>7, <1>14, <2>14 DEF One
  <2> QED
    BY <1>4, <1>9, <1>14, <1>16, <2>2, <2>4, <2>7, <2>11, <2>12, <2>13, <2>15, NlinkLinks
<1> QED
  BY <1>10, <1>11, <1>12, <1>16

\* In directory d, name becomes that of inode v.
DirSet(e, f, d, name, v) == f = [e EXCEPT ![d][name] = v]

\* Then the names of i change by that one at most,
NamesVary(e, f, d, name, v, i) ==
  /\ NamesOf(f, i) \ {<<d, name>>} = NamesOf(e, i) \ {<<d, name>>}
  /\ <<d, name>> \in NamesOf(f, i) <=> name # ".." /\ v = i
  /\ <<d, name>> \in NamesOf(e, i) <=> name # ".." /\ e[d][name] = i

\* and so do its subdirectories.
BelowVary(g, e, f, d, name, v, i) ==
  /\ Below(g, f, i) \ {name} = Below(g, e, i) \ {name}
  /\ i # d => Below(g, f, i) = Below(g, e, i)
  /\ name \in Below(g, f, d) <=> name # ".." /\ v # None /\ g[v].type = "dir"
  /\ name \in Below(g, e, d) <=>
       name # ".." /\ e[d][name] # None /\ g[e[d][name]].type = "dir"

\* Only that entry changes.
LEMMA EntryChange ==
  ASSUME NEW e, NEW f, NEW g, OnDisk(g, e), NEW d \in Inums, NEW name \in Names,
         NEW v, DirSet(e, f, d, name, v)
  PROVE  /\ f[d][name] = v
         /\ \A m \in Names \ {name} : f[d][m] = e[d][m]
         /\ SameBut(e, f, {d})
<1>1. e \in [Inums -> [Names -> Inums \cup {None}]] /\ f = [e EXCEPT ![d][name] = v]
  BY DEF OnDisk, DirSet
<1> QED
  BY <1>1 DEF SameBut

\* The names of i change by that one at most.
LEMMA NamesSet ==
  ASSUME NEW e, NEW f, NEW g, OnDisk(g, e), NEW d \in Inums, NEW name \in Names,
         NEW v, DirSet(e, f, d, name, v), NEW i
  PROVE  NamesVary(e, f, d, name, v, i)
<1> DEFINE x == <<d, name>>
<1>0. /\ f[d][name] = v
      /\ \A m \in Names \ {name} : f[d][m] = e[d][m]
      /\ SameBut(e, f, {d})
  BY EntryChange
<1>1. /\ f[d][name] = v
      /\ \A m \in Names \ {name} : f[d][m] = e[d][m]
      /\ \A j \in Inums \ {d} : f[j] = e[j]
  BY <1>0 DEF SameBut
<1>2. x[1] = d /\ x[2] = name /\ (x \in Entries <=> name # "..")
  BY DEF Entries
<1>3. ASSUME NEW z \in Entries, z # x PROVE f[z[1]][z[2]] = e[z[1]][z[2]]
  <2>1. z = <<z[1], z[2]>> /\ z[1] \in Inums /\ z[2] \in Names
    BY <1>3, SMT DEF Entries
  <2>2. z[1] # d \/ z[2] # name
    BY <1>3, <2>1
  <2>3. CASE z[1] # d
    BY <1>1, <2>1, <2>3
  <2>4. CASE z[1] = d
    BY <1>1, <2>1, <2>2, <2>4
  <2> QED
    BY <2>3, <2>4
<1> HIDE DEF x
<1>4. NamesOf(f, i) \ {x} = NamesOf(e, i) \ {x}
  BY <1>3 DEF NamesOf
<1>5. /\ x \in NamesOf(f, i) <=> name # ".." /\ v = i
      /\ x \in NamesOf(e, i) <=> name # ".." /\ e[d][name] = i
  BY <1>1, <1>2 DEF NamesOf
<1> QED
  BY <1>4, <1>5 DEF x, NamesVary

\* So do its subdirectories.
LEMMA BelowSet ==
  ASSUME NEW e, NEW f, NEW g, OnDisk(g, e), NEW d \in Inums, NEW name \in Names,
         NEW v, DirSet(e, f, d, name, v), NEW i \in Inums
  PROVE  BelowVary(g, e, f, d, name, v, i)
<1>0. /\ f[d][name] = v
      /\ \A m \in Names \ {name} : f[d][m] = e[d][m]
      /\ SameBut(e, f, {d})
  BY EntryChange
<1>1. /\ f[d][name] = v
      /\ \A m \in Names \ {name} : f[d][m] = e[d][m]
      /\ i # d => f[i] = e[i]
  BY <1>0 DEF SameBut
<1>2. Below(g, f, i) \ {name} = Below(g, e, i) \ {name}
  <2>1. CASE i = d
    BY <1>1, <2>1 DEF Below
  <2>2. CASE i # d
    BY <1>1, <2>2 DEF Below
  <2> QED
    BY <2>1, <2>2
<1>3. i # d => Below(g, f, i) = Below(g, e, i)
  BY <1>1 DEF Below
<1>4. /\ name \in Below(g, f, d) <=> name # ".." /\ v # None /\ g[v].type = "dir"
      /\ name \in Below(g, e, d) <=>
           name # ".." /\ e[d][name] # None /\ g[e[d][name]].type = "dir"
  BY <1>1 DEF Below
<1> QED
  BY <1>2, <1>3, <1>4 DEF BelowVary

\* dirlink() names the inode, or finds the name taken and puts its inode.
LEMMA LinkLinks ==
  ASSUME RefInv, RefInv', LinkInv, NEW p \in Procs, Link(p)
  PROVE  LinkInv'
<1> DEFINE l == proc[p]
           s == l.dp
           name == Head(l.rest)
           j == icache[s].inum
           v == icache[l.ip].inum
           i == dir[j][name]
           r == ilock(p, s)
           c == [icache EXCEPT ![s] = r]
           d == [icache EXCEPT ![s] = Seen(p, s)]
           n == SlotFor(c, i)
           k == [l EXCEPT !.pc = "iput", !.put = n, !.then = "linkbad"]
           m == Putting(l, "dp", "linkput")
<1>1. /\ Typed /\ CacheOK(icache) /\ l \in Local /\ Controlled(l, cwd[p])
      /\ icache \in [Slots -> Entry] /\ OnDisk(dinode, dir) /\ proc \in [Procs -> Local]
  BY AtFacts DEF Typed
<1>2. l.pc = "link" /\ Unlocked(s)
  BY DEF Link, At
<1>3. s # None /\ l.ip # None /\ l.rest \in Paths
  BY <1>1, <1>2 DEF Controlled, Point, Putters, HasDp, HasIp
<1>4. s \in Slots /\ l.ip \in Slots
  BY <1>1, <1>3, LocalFields DEF Pointers
<1>5. j \in Inums /\ j # None /\ v \in Inums /\ v # None
  BY <1>4, HeldCached
<1>6. Kept(r, icache[s]) /\ r.type = dinode[j].type
  BY <1>4, <1>5, SeenDisk
<1>7. c \in [Slots -> Entry] /\ SameRefs(icache, c) /\ CacheOK(c)
  <2>1. /\ Kept(r, icache[s]) /\ s \in Slots /\ icache \in [Slots -> Entry]
        /\ CacheOK(icache)
    BY <1>1, <1>4, <1>6
  <2> HIDE DEF r, s
  <2> QED
    BY <2>1, EntrySet
<1>8. name \in Names
  <2> HIDE DEF l
  <2> QED
    BY <1>3, PathFacts
<1>9. i \in Inums \cup {None}
  BY <1>1, <1>5, <1>8 DEF OnDisk
<1>10. \/ Panic("ilock") \/ Panic("iget")
       \/ /\ r.type # "free" /\ i = None /\ dir' = [dir EXCEPT ![j][name] = v]
          /\ icache' = d /\ proc' = [proc EXCEPT ![p] = m] /\ dinode' = dinode
       \/ /\ r.type # "free" /\ i # None /\ SlotFor(icache, i) # None
          /\ icache' = iget(c, i) /\ proc' = [proc EXCEPT ![p] = k]
          /\ UNCHANGED <<dinode, dir>>
  BY DEF Link, Locking, Getting
<1>11. Loc(m, "iput", l.call, l.rest, l.at, None, l.ip, s, "linkput")
  <2>1. "linkput" \in Points
    BY DEF Points, HasIp
  <2> QED
    BY <1>1, <2>1, PuttingLoc
<1>12. k.pc = "iput" /\ k.dp = s /\ k.ip = l.ip /\ k.then = "linkbad"
  BY <1>1 DEF Local
<1> HIDE DEF k, m
<1>13. /\ Passes(Locked(l), Locked(m), s, FALSE)
       /\ Passes(Locked(l), Locked(k), s, TRUE)
  BY <1>2, <1>4, <1>11, <1>12 DEF Loc, Locked, Point, Putters, HoldsIp, HoldsDp, Passes
<1>14. /\ OwesLess(l, k) /\ Relies(k, icache', dinode, dir)
       /\ Relies(m, icache', dinode', dir') /\ LinksFile(m, icache', dinode') /\ ~Owes(m)
       /\ Owes(l) /\ Linking(l)
  BY <1>2, <1>3, <1>11, <1>12
     DEF Loc, Relies, OwesLess, LinksFile, Owes, Linking, Point, Putters
<1>15. ASSUME r.type # "free"
       PROVE  /\ Good(d, dinode, p, Locked(m)) /\ Good(c, dinode, p, Locked(k))
  BY <1>2, <1>4, <1>5, <1>13, <1>15, IlockGood
<1> HIDE DEF r, c, d, name
<1>16. CASE Panic("ilock") \/ Panic("iget")
  BY <1>16, SameLinks DEF Panic
<1>17. CASE /\ r.type # "free" /\ i # None /\ SlotFor(icache, i) # None
            /\ icache' = iget(c, i) /\ proc' = [proc EXCEPT ![p] = k]
            /\ UNCHANGED <<dinode, dir>>
  <2> HIDE DEF i
  <2>1. SlotFor(c, i) # None /\ i \in Inums
    BY <1>7, <1>9, <1>17 DEF SameRefs, SlotFor
  <2>2. Good(icache', dinode, p, Locked(k))
    BY <1>7, <1>15, <1>17, <2>1, GoodGet
  <2> QED
    BY <1>14, <1>17, <2>2, KeepLinks
<1>18. CASE /\ r.type # "free" /\ i = None /\ dir' = [dir EXCEPT ![j][name] = v]
            /\ icache' = d /\ proc' = [proc EXCEPT ![p] = m] /\ dinode' = dinode
  <2>1. proc'[p] = m /\ AgreeBut(proc, proc', Procs, p)
    BY <1>1, <1>18 DEF AgreeBut
  <2>2. Good(icache', dinode', p, Locked(m)) /\ Stays(icache, icache')
    BY <1>15, <1>18 DEF Good
  <2>3. DirSet(dir, dir', j, name, v) /\ dir[j][name] = None
    BY <1>18 DEF DirSet
  <2>4. dinode[v].type # "dir" /\ dinode[j].type # "free"
    BY <1>6, <1>14, <1>18 DEF LinkInv, LinksFile
  <2>5. icache[s].lock \in {p, "none"}
    BY <1>2 DEF Unlocked
  <2> HIDE DEF j, v
  <2>6. SameBut(dir, dir', {j})
    BY <1>1, <1>5, <1>8, <2>3, EntryChange
  <2>7. FreeEmpty(dinode', dir')
    BY <1>18, <2>4, <2>6 DEF LinkInv, FreeEmpty, SameBut
  <2>8. Guarded(p)
    <3>1. MayChange(p, {j}) /\ TypesKept /\ SameBut(dinode, dinode', {j})
      BY <1>4, <1>18, <2>5 DEF MayChange, TypesKept, SameBut, j
    <3> QED
      BY <2>6, <3>1, GuardStep
  <2>9. ASSUME NEW z \in Inums
        PROVE  Counted(dinode', dir', proc', icache', z)
    <3> DEFINE x == <<j, name>>
               N == NamesOf(dir, z)
               M == NamesOf(dir', z)
               B == Below(dinode, dir, z)
               A == Below(dinode', dir', z)
               D == Debtors(proc, icache, z)
               C == Debtors(proc', icache', z)
               h == dinode'[z].nlink - dinode[z].nlink
    <3>1. /\ M \ {x} = N \ {x}
          /\ x \in M <=> name # ".." /\ v = z
          /\ x \in N <=> name # ".." /\ dir[j][name] = z
      <4>1. NamesVary(dir, dir', j, name, v, z)
        BY <1>1, <1>5, <1>8, <2>3, NamesSet
      <4> QED
        BY <4>1 DEF NamesVary
    <3>2. z # None
      BY Numbers
    <3>3. M \ {x} \subseteq N /\ x \notin N /\ (x \in M => z = v)
      BY <2>3, <3>1, <3>2
    <3>4. A \subseteq B
      <4>1. /\ Below(dinode, dir', z) \ {name} = Below(dinode, dir, z) \ {name}
            /\ z # j => Below(dinode, dir', z) = Below(dinode, dir, z)
            /\ name \in Below(dinode, dir', j) <=>
                 name # ".." /\ v # None /\ dinode[v].type = "dir"
        <5>1. BelowVary(dinode, dir, dir', j, name, v, z)
          BY <1>1, <1>5, <1>8, <2>3, BelowSet
        <5> QED
          BY <5>1 DEF BelowVary
      <4>2. A = Below(dinode, dir', z)
        BY <1>18
      <4> HIDE DEF A
      <4>3. CASE z = j
        BY <2>4, <4>1, <4>2, <4>3
      <4>4. CASE z # j
        BY <4>1, <4>2, <4>4
      <4> QED
        BY <4>3, <4>4
    <3>5. p \notin C /\ (p \in D <=> z = v)
      BY <1>14, <2>1 DEF Debtors, v
    <3>6. h = 0
      <4>1. dinode[z].nlink \in Int
        BY <1>1 DEF OnDisk
      <4> QED
        BY <1>18, <4>1, SMT
    <3>7. None \in A => None \in B
      BY <3>4
    <3>8. A \ {None} \subseteq B
      BY <3>4
    <3> HIDE DEF N, M, B, A, C, D, h, x
    <3>9. Gains(N, M, x, B, A, None, D, C, p, h)
      BY <3>3, <3>5, <3>6, <3>7, SMT DEF Gains, One
    <3> QED
      BY <2>1, <2>2, <3>3, <3>8, <3>9, CountStep DEF N, M, B, A, C, D, h
  <2> QED
    BY <1>14, <2>1, <2>2, <2>7, <2>8, <2>9, LinkStep
<1> QED
  BY <1>10, <1>16, <1>17, <1>18

\* The links of i are counted after a step that adds nothing to count.
LEMMA CountLess ==
  ASSUME RefInv, RefInv', LinkInv, NEW p \in Procs, AgreeBut(proc, proc', Procs, p),
         Stays(icache, icache'), NEW i \in Inums,
         NamesOf(dir', i) \subseteq NamesOf(dir, i),
         Below(dinode', dir', i) \subseteq Below(dinode, dir, i),
         p \in Debtors(proc', icache', i) => p \in Debtors(proc, icache, i),
         dinode'[i].nlink = dinode[i].nlink
  PROVE  Counted(dinode', dir', proc', icache', i)
<1> DEFINE N == NamesOf(dir, i)
           M == NamesOf(dir', i)
           B == Below(dinode, dir, i)
           A == Below(dinode', dir', i)
           D == Debtors(proc, icache, i)
           C == Debtors(proc', icache', i)
           h == dinode'[i].nlink - dinode[i].nlink
<1>1. h = 0
  <2>1. dinode[i].nlink \in Int
    BY DEF RefInv, Typed, OnDisk
  <2> QED
    BY <2>1, SMT
<1>2. /\ M \ {None} \subseteq N /\ A \ {None} \subseteq B
      /\ None \in M => None \in N
      /\ None \in A => None \in B
      /\ p \in C => p \in D
  OBVIOUS
<1> HIDE DEF N, M, B, A, C, D, h
<1>3. Gains(N, M, None, B, A, None, D, C, p, h)
  BY <1>1, <1>2, SMT DEF Gains, One
<1> QED
  BY <1>2, <1>3, CountStep DEF N, M, B, A, C, D, h

\* iput() frees an inode that nothing names or is about to name.
LEMMA IputFreeLinks ==
  ASSUME RefInv, RefInv', LinkInv, NEW p \in Procs, IputFree(p)
  PROVE  LinkInv'
<1> DEFINE l == proc[p]
           s == l.put
           j == icache[s].inum
           u == Fresh(j, icache[s].ref)
           n == [l EXCEPT !.pc = "iref"]
<1>1. /\ l \in Local /\ Controlled(l, cwd[p]) /\ OnDisk(dinode, dir)
      /\ icache \in [Slots -> Entry] /\ proc \in [Procs -> Local]
  BY AtFacts DEF RefInv, Typed
<1>2. l.pc = "ifree"
  BY DEF IputFree, At
<1>3. s # None
  BY <1>1, <1>2 DEF Controlled, Putters
<1>4. s \in Slots
  BY <1>1, <1>3, LocalFields DEF Pointers
<1>5. j \in Inums /\ icache[s].ref \in Nat
  BY <1>4, HeldCached
<1>6. /\ dinode' = [dinode EXCEPT ![j] = [type |-> "free", nlink |-> 0]]
      /\ dir' = [dir EXCEPT ![j] = NoNames]
      /\ icache' = [icache EXCEPT ![s] = u]
      /\ proc' = [proc EXCEPT ![p] = n]
  BY <1>1 DEF IputFree, Fresh
<1>7. Kept(u, icache[s]) /\ u.lock = "none" /\ u.valid = FALSE
  <2> DEFINE m == icache[s].ref
  <2>1. j \in Inums \cup {None} /\ m \in Nat
    BY <1>5
  <2>2. j = icache[s].inum /\ m = icache[s].ref
    OBVIOUS
  <2> HIDE DEF j, m
  <2>3. Fresh(j, m) \in Entry /\ Fresh(j, m).inum = j /\ Fresh(j, m).ref = m
    BY <2>1, UnreadFields
  <2>5. Fresh(j, m).lock = "none"
    BY <2>1, UnreadFields
  <2>4. Fresh(j, m).valid = FALSE
    BY DEF Fresh, Unread
  <2> QED
    BY <2>2, <2>3, <2>4, <2>5 DEF Kept
<1>8. /\ n.pc = "iref" /\ n.then = l.then /\ n.ip = l.ip /\ n.dp = l.dp /\ n.put = s
  BY <1>1 DEF Local
<1> HIDE DEF n, u
<1>9. Point(n) = Point(l)
  BY <1>2, <1>8 DEF Point, Putters
<1>10. /\ dinode[j].nlink = 0
       /\ Point(l) \in HoldsIp => l.ip # s
       /\ Point(l) \in HoldsDp => l.dp # s
       /\ l.then # "unlinklock"
  BY <1>2 DEF LinkInv, Relies
<1>11. s \in Locked(l) /\ icache[s].lock = p /\ Good(icache, dinode, p, Locked(l)) /\ p # "none"
  BY <1>2, <1>4, GoodNow, InodeAssumption DEF Locked, LinkInv, Locks
<1>12. Passes(Locked(l), Locked(n), s, u.lock = p)
  BY <1>2, <1>4, <1>7, <1>8, <1>9, <1>10, <1>11 DEF Locked, Passes
<1>13. /\ dinode'[j].type = "free" /\ dinode'[j].nlink = 0
       /\ SameBut(dinode, dinode', {j})
       /\ dir'[j] = NoNames /\ SameBut(dir, dir', {j})
  BY <1>1, <1>5, <1>6 DEF OnDisk, SameBut
<1>14. proc'[p] = n /\ AgreeBut(proc, proc', Procs, p)
  BY <1>1, <1>6 DEF AgreeBut
<1>15. Good(icache', dinode', p, Locked(n))
  <2>1. icache[s].lock \in {p, "none"} /\ u.lock \in {p, "none"} /\ Agrees(u, dinode')
    BY <1>7, <1>11 DEF Agrees
  <2>2. SameBut(dinode, dinode', {icache[s].inum})
    BY <1>13
  <2> QED
    BY <1>1, <1>4, <1>6, <1>7, <1>11, <1>12, <2>1, <2>2, GoodSet
<1>16. Stays(icache, icache')
  BY <1>15 DEF Good
<1>17. NamesOf(dir, j) = {} /\ Below(dinode, dir, j) = {} /\ Debtors(proc, icache, j) = {}
  <2>1. Counted(dinode, dir, proc, icache, j)
    BY <1>5 DEF LinkInv
  <2> QED
    BY <1>10, <2>1, Nameless
<1>18. MayChange(p, {j})
  BY <1>4, <1>11 DEF MayChange
<1>19. Owes(n) <=> Owes(l)
  BY <1>8, <1>9 DEF Owes, Linking
<1>20. Owes(l) => icache'[l.ip].inum = icache[l.ip].inum /\ icache[l.ip].inum \in Inums
  BY <1>8, <1>14, <1>16, PointerStays
<1> HIDE DEF j
<1>21. FreeEmpty(dinode', dir')
  <2> SUFFICES ASSUME NEW i \in Inums, dinode'[i].type = "free"
               PROVE  dinode'[i].nlink = 0 /\ dir'[i] = NoNames
    BY DEF FreeEmpty
  <2>1. CASE i = j
    BY <1>13, <2>1
  <2>2. CASE i # j
    BY <1>13, <2>2 DEF SameBut, LinkInv, FreeEmpty
  <2> QED
    BY <2>1, <2>2
<1>22. Guarded(p)
  <2>1. TypesKept
    BY <1>10, <1>13 DEF TypesKept, SameBut
  <2> QED
    BY <1>13, <1>18, <2>1, GuardStep
<1>23. Relies(n, icache', dinode', dir')
  BY <1>8, <1>10 DEF Relies
<1>24. LinksFile(n, icache', dinode')
  <2> SUFFICES ASSUME Linking(n)
               PROVE  dinode'[icache'[n.ip].inum].type \notin {"dir", "free"}
    BY DEF LinksFile
  <2>1. Linking(l) /\ Owes(l)
    BY <1>8, <1>9 DEF Linking, Owes
  <2>2. icache[l.ip].inum # j
    BY <1>17, <2>1 DEF Debtors
  <2>3. dinode[icache[l.ip].inum].type \notin {"dir", "free"}
    BY <2>1 DEF LinkInv, LinksFile
  <2> QED
    BY <1>8, <1>13, <1>20, <2>1, <2>2, <2>3 DEF SameBut
<1>25. ASSUME NEW z \in Inums
       PROVE  Counted(dinode', dir', proc', icache', z)
  <2>1. NamesOf(dir', z) \subseteq NamesOf(dir, z)
    <3> SUFFICES ASSUME NEW x \in Entries, dir'[x[1]][x[2]] = z
                 PROVE  dir[x[1]][x[2]] = z
      BY DEF NamesOf
    <3>1. x[1] \in Inums /\ x[2] \in Names /\ z # None
      BY Numbers, SMT DEF Entries
    <3>2. x[1] # j
      BY <1>13, <3>1 DEF NoNames
    <3> QED
      BY <1>13, <3>1, <3>2 DEF SameBut
  <2>2. Below(dinode', dir', z) \subseteq Below(dinode, dir, z)
    <3> SUFFICES ASSUME NEW m \in Names \ {".."}, dir'[z][m] # None,
                        dinode'[dir'[z][m]].type = "dir"
                 PROVE  dir[z][m] # None /\ dinode[dir[z][m]].type = "dir"
      BY DEF Below
    <3>1. z # j
      BY <1>13 DEF NoNames
    <3>2. dir'[z] = dir[z]
      BY <1>13, <3>1 DEF SameBut
    <3>3. dir[z][m] \in Inums \cup {None}
      <4>1. m \in Names /\ dir \in [Inums -> [Names -> Inums \cup {None}]]
        BY <1>1 DEF OnDisk
      <4> QED
        BY <4>1
    <3>4. dir[z][m] \in Inums \ {j}
      BY <1>13, <3>2, <3>3
    <3> QED
      BY <1>13, <3>2, <3>4 DEF SameBut
  <2>3. p \in Debtors(proc', icache', z) => p \in Debtors(proc, icache, z)
    BY <1>8, <1>14, <1>19, <1>20 DEF Debtors
  <2>4. dinode'[z].nlink = dinode[z].nlink
    BY <1>10, <1>13 DEF SameBut
  <2> QED
    BY <1>14, <1>16, <2>1, <2>2, <2>3, <2>4, CountLess
<1> QED
  BY <1>14, <1>15, <1>21, <1>22, <1>23, <1>24, <1>25, LinkStep

\* unlink() erases the name it found, and takes the link of a subdirectory's ".."
\* from the directory; or it refuses.
LEMMA UnlinkLockLinks ==
  ASSUME RefInv, RefInv', LinkInv, NEW p \in Procs, UnlinkLock(p)
  PROVE  LinkInv'
<1> DEFINE l == proc[p]
           s == l.ip
           t == l.dp
           name == Head(l.rest)
           d == icache[t]
           j == d.inum
           v == icache[s].inum
           r == ilock(p, s)
           nlink == IF r.type = "dir" THEN d.nlink - 1 ELSE d.nlink
           c == [icache EXCEPT ![s] = r, ![t].nlink = nlink, ![t].lock = "none"]
           c1 == [icache EXCEPT ![s] = r]
           u1 == [d EXCEPT !.nlink = nlink]
           u2 == [u1 EXCEPT !.lock = "none"]
           e == [icache EXCEPT ![s] = Seen(p, s)]
           n == Putting(l, "dp", "unlinkdec")
           k == Putting(l, "ip", "unlinkbad")
           M1 == Locked(l) \cup {s}
<1>1. /\ Typed /\ l \in Local /\ Controlled(l, cwd[p]) /\ icache \in [Slots -> Entry]
      /\ OnDisk(dinode, dir) /\ proc \in [Procs -> Local]
  BY AtFacts DEF Typed
<1>2. l.pc = "unlinklock" /\ Unlocked(s)
  BY DEF UnlinkLock, At
<1>3. t # None /\ s # None /\ l.rest \in Paths
  BY <1>1, <1>2 DEF Controlled, Point, Putters, HasDp, HasIp
<1>4. s \in Slots /\ t \in Slots
  BY <1>1, <1>3, LocalFields DEF Pointers
<1>5. j \in Inums /\ j # None /\ v \in Inums /\ v # None /\ d \in Entry
  BY <1>4, HeldCached
<1>6. Kept(r, icache[s]) /\ r.type = dinode[v].type
  BY <1>4, <1>5, SeenDisk
<1>7. t \in Locked(l) /\ d.lock = p /\ p # "none" /\ Agrees(d, dinode)
  BY <1>2, <1>4, InodeAssumption
     DEF Locked, Point, Putters, HoldsDp, LinkInv, Locks, Coherent
<1>8. /\ dinode[j].type # "free" /\ dinode[j].type = d.type /\ dinode[j].nlink = d.nlink
      /\ s # t /\ icache[s].lock = "none"
  BY <1>2, <1>7 DEF Agrees, Unlocked
<1>9. v # j
  BY <1>4, <1>5, <1>8 DEF LinkInv, OneSlot
<1>10. name # ".." /\ dir[j][name] = v
  BY <1>2 DEF LinkInv, Relies
<1>11. name \in Names
  <2> HIDE DEF l
  <2> QED
    BY <1>3, PathFacts
<1>12. \/ Panic("ilock") \/ Panic("unlink")
       \/ /\ r.type # "free" /\ icache' = e /\ proc' = [proc EXCEPT ![p] = k]
          /\ UNCHANGED <<dinode, dir>>
       \/ /\ r.type # "free" /\ dir' = [dir EXCEPT ![j][name] = None]
          /\ dinode' = [dinode EXCEPT ![j].nlink = nlink]
          /\ icache' = c /\ proc' = [proc EXCEPT ![p] = n]
  BY DEF UnlinkLock, Locking
<1>13. /\ Loc(n, "iput", l.call, l.rest, l.at, None, s, t, "unlinkdec")
       /\ Loc(k, "iput", l.call, l.rest, l.at, t, None, s, "unlinkbad")
  <2>1. "unlinkdec" \in Points /\ "unlinkbad" \in Points
    BY DEF Points, HasIp, HasDp
  <2> QED
    BY <1>1, <2>1, PuttingLoc
<1> HIDE DEF n, k
<1>14. /\ Passes(Locked(l), Locked(k), s, FALSE)
       /\ Passes(Locked(l), M1, s, TRUE)
       /\ Passes(M1, Locked(n), t, FALSE)
  BY <1>2, <1>4, <1>8, <1>13 DEF Loc, Locked, Point, Putters, HoldsIp, HoldsDp, Passes
<1>15. /\ OwesLess(l, k) /\ Relies(k, icache', dinode, dir)
       /\ Relies(n, icache', dinode', dir') /\ LinksFile(n, icache', dinode') /\ Owes(n)
       /\ ~Owes(l)
  BY <1>2, <1>13 DEF Loc, Relies, OwesLess, LinksFile, Owes, Linking, Point, Putters
<1> HIDE DEF M1
<1>16. ASSUME r.type # "free"
       PROVE  Good(e, dinode, p, Locked(k)) /\ Good(c1, dinode, p, M1)
  BY <1>2, <1>4, <1>5, <1>14, <1>16, IlockGood
<1>17. d.nlink \in Int /\ nlink \in Int /\ nlink - d.nlink = 0 - One(r.type = "dir")
  <2>1. d.nlink \in Int
    BY <1>5, EntryFields
  <2> HIDE DEF r, d
  <2> QED
    BY <2>1, SMT DEF One
<1>18. c = [c1 EXCEPT ![t] = u2] /\ c1[t] = d
  BY <1>1, <1>4, <1>8
<1>19. c1 \in [Slots -> Entry]
  <2>1. Kept(r, icache[s]) /\ s \in Slots /\ icache \in [Slots -> Entry]
    BY <1>1, <1>4, <1>6
  <2> HIDE DEF r, s
  <2> QED
    BY <2>1, EntrySet
<1> HIDE DEF nlink
<1>20. /\ u2 \in Entry /\ u2.inum = j /\ u2.ref = d.ref /\ u2.valid = d.valid
       /\ u2.type = d.type /\ u2.nlink = nlink /\ u2.lock = "none"
  <2>1. /\ u1 \in Entry /\ u1.inum = j /\ u1.ref = d.ref /\ u1.valid = d.valid
        /\ u1.type = d.type /\ u1.nlink = nlink
    BY <1>5, <1>17, NlinkSet
  <2>2. "none" \in Procs \cup {"none"}
    OBVIOUS
  <2> HIDE DEF u1, d
  <2> QED
    BY <2>1, <2>2, LockSet
<1> HIDE DEF c, c1, u1, u2, e, r, name
<1>21. CASE Panic("ilock") \/ Panic("unlink")
  BY <1>21, SameLinks DEF Panic
<1>22. CASE /\ r.type # "free" /\ icache' = e /\ proc' = [proc EXCEPT ![p] = k]
            /\ UNCHANGED <<dinode, dir>>
  <2>1. Good(icache', dinode, p, Locked(k))
    BY <1>16, <1>22
  <2> QED
    BY <1>15, <1>22, <2>1, KeepLinks
<1>23. CASE /\ r.type # "free" /\ dir' = [dir EXCEPT ![j][name] = None]
            /\ dinode' = [dinode EXCEPT ![j].nlink = nlink]
            /\ icache' = c /\ proc' = [proc EXCEPT ![p] = n]
  <2>1. proc'[p] = n /\ AgreeBut(proc, proc', Procs, p)
    BY <1>1, <1>23 DEF AgreeBut
  <2>2. /\ dinode'[j].type = dinode[j].type /\ dinode'[j].nlink = nlink
        /\ SameBut(dinode, dinode', {j})
    BY <1>1, <1>5, <1>23 DEF OnDisk, SameBut
  <2>3. Good(icache', dinode', p, Locked(n)) /\ Stays(icache, icache')
    <3>1. Kept(u2, c1[t]) /\ c1[t].lock \in {p, "none"} /\ u2.lock \in {p, "none"}
      BY <1>7, <1>18, <1>20 DEF Kept
    <3>2. Agrees(u2, dinode')
      BY <1>5, <1>7, <1>8, <1>20, <2>2 DEF Agrees
    <3>3. Passes(M1, Locked(n), t, u2.lock = p)
      BY <1>7, <1>14, <1>20 DEF Passes
    <3>4. SameBut(dinode, dinode', {c1[t].inum})
      BY <1>18, <2>2
    <3>5. Good(c1, dinode, p, M1)
      BY <1>16, <1>23
    <3>6. Good([c1 EXCEPT ![t] = u2], dinode', p, Locked(n))
      BY <1>4, <1>19, <3>1, <3>2, <3>3, <3>4, <3>5, GoodSet
    <3> QED
      BY <1>18, <1>23, <3>6 DEF Good
  <2>4. DirSet(dir, dir', j, name, None)
    BY <1>23 DEF DirSet
  <2>5. icache'[s].inum = v
    <3>1. n.ip = s
      BY <1>13 DEF Loc
    <3> QED
      BY <1>3, <2>1, <2>3, <3>1, PointerStays
  <2>6. MayChange(p, {j})
    BY <1>4, <1>7 DEF MayChange
  <2>7. \A z : p \notin Debtors(proc, icache, z)
    BY <1>15 DEF Debtors
  <2>8. \A z : p \in Debtors(proc', icache', z) <=> z = v
    <3>1. n.ip = s
      BY <1>13 DEF Loc
    <3> QED
      BY <1>15, <2>1, <2>5, <3>1 DEF Debtors
  <2> HIDE DEF j, v
  <2>9. SameBut(dir, dir', {j})
    BY <1>1, <1>5, <1>11, <2>4, EntryChange
  <2>10. \A i \in Inums : dinode'[i].type = dinode[i].type
    BY <2>2 DEF SameBut
  <2>11. FreeEmpty(dinode', dir')
    <3> SUFFICES ASSUME NEW i \in Inums, dinode'[i].type = "free"
                 PROVE  dinode'[i].nlink = 0 /\ dir'[i] = NoNames
      BY DEF FreeEmpty
    <3>1. dinode[i].type = "free" /\ i # j
      BY <1>8, <2>10
    <3> QED
      BY <2>2, <2>9, <3>1 DEF LinkInv, FreeEmpty, SameBut
  <2>12. Guarded(p)
    <3>1. TypesKept
      BY <2>10 DEF TypesKept
    <3> QED
      BY <2>2, <2>6, <2>9, <3>1, GuardStep
  <2>13. ASSUME NEW z \in Inums
         PROVE  Counted(dinode', dir', proc', icache', z)
    <3> DEFINE x == <<j, name>>
               N == NamesOf(dir, z)
               M == NamesOf(dir', z)
               B == Below(dinode, dir, z)
               A == Below(dinode', dir', z)
               D == Debtors(proc, icache, z)
               C == Debtors(proc', icache', z)
               h == dinode'[z].nlink - dinode[z].nlink
    <3>1. z # None
      BY Numbers
    <3>2. M \ {x} \subseteq N /\ x \notin M /\ (x \in N <=> z = v)
      <4>1. NamesVary(dir, dir', j, name, None, z)
        BY <1>1, <1>5, <1>11, <2>4, NamesSet
      <4> QED
        BY <1>10, <3>1, <4>1 DEF NamesVary
    <3>3. A = Below(dinode, dir', z)
      <4>1. OnDisk(dinode', dir')
        BY DEF RefInv, Typed
      <4>2. \A m \in Names : dir'[z][m] \in Inums \cup {None}
        BY <4>1 DEF OnDisk
      <4> QED
        BY <2>10, <4>2 DEF Below
    <3> HIDE DEF A
    <3>4. /\ A \ {name} \subseteq B
          /\ z = j => name \notin A /\ (name \in B <=> r.type = "dir")
          /\ z # j => A = B
      <4>1. BelowVary(dinode, dir, dir', j, name, None, z)
        BY <1>1, <1>5, <1>11, <2>4, BelowSet
      <4>2. /\ Below(dinode, dir', z) \ {name} = Below(dinode, dir, z) \ {name}
            /\ z # j => Below(dinode, dir', z) = Below(dinode, dir, z)
            /\ name \notin Below(dinode, dir', j)
            /\ name \in Below(dinode, dir, j) <=> dinode[v].type = "dir"
        BY <1>5, <1>10, <4>1 DEF BelowVary
      <4> QED
        BY <1>6, <3>3, <4>2
    <3>5. p \notin D /\ (p \in C <=> z = v)
      BY <2>7, <2>8
    <3>6. IF z = j THEN h = 0 - One(r.type = "dir") ELSE h = 0
      <4>1. CASE z = j
        BY <1>8, <1>17, <2>2, <4>1
      <4>2. CASE z # j
        <5>1. dinode'[z].nlink = dinode[z].nlink /\ dinode[z].nlink \in Int
          BY <1>1, <2>2, <4>2 DEF OnDisk, SameBut
        <5> QED
          BY <4>2, <5>1, SMT
      <4> QED
        BY <4>1, <4>2
    <3> HIDE DEF N, M, B, C, D, h, x
    <3>7. Gains(N, M, x, B, A, name, D, C, p, h)
      <4>1. CASE z = j
        BY <1>9, <3>2, <3>4, <3>5, <3>6, <4>1, SMT DEF Gains, One
      <4>2. CASE z # j
        BY <3>2, <3>4, <3>5, <3>6, <4>2, SMT DEF Gains, One
      <4> QED
        BY <4>1, <4>2
    <3> QED
      BY <2>1, <2>3, <3>2, <3>4, <3>7, CountStep DEF N, M, B, A, C, D, h
  <2> QED
    BY <1>15, <2>1, <2>3, <2>11, <2>12, <2>13, LinkStep
<1> QED
  BY <1>12, <1>21, <1>22, <1>23

\* On disk f, inode i is allocated for a name in directory j, which then has k links.
Allocates(f, j, i, type, k) ==
  /\ f[i].type = type /\ f[i].nlink = 1
  /\ f[j] = [dinode[j] EXCEPT !.nlink = k]
  /\ SameBut(dinode, f, {j, i})

\* The entry of a new inode, which create() locks.
Allocated(r, p, type) == [r EXCEPT !.lock = p, !.valid = TRUE, !.type = type, !.nlink = 1]

\* The cache when create() has allocated inode i for the directory of entry s.
LEMMA AllocGood ==
  ASSUME RefInv, LinkInv, NEW p \in Procs, NEW c, CacheOK(c), SameRefs(icache, c),
         Good(c, dinode, p, {}), NEW s \in Slots, c[s].valid, c[s].lock = "none",
         NEW i \in Inums, dinode[i].type = "free", SlotFor(c, i) # None,
         NEW type \in Types \ {"free"}, NEW k \in Int, NEW f,
         c[s].inum \in Inums, Allocates(f, c[s].inum, i, type, k),
         NEW h, h = [iget(c, i) EXCEPT ![s].nlink = k,
                                       ![SlotFor(c, i)] = Allocated(@, p, type)]
  PROVE  Good(h, f, p, {SlotFor(c, i)})
<1> DEFINE n == SlotFor(c, i)
           g == iget(c, i)
           j == c[s].inum
           u == [c[s] EXCEPT !.nlink = k]
           f1 == [dinode EXCEPT ![j].nlink = k]
           g1 == [g EXCEPT ![s] = u]
           w == Allocated(g[n], p, type)
<1>1. /\ CacheOK(g) /\ Gets(c, g, n, i) /\ \A t \in Slots \ {n} : g[t] = c[t]
  BY IgetGets
<1>2. Good(g, dinode, p, {})
  BY GoodGet
<1>3. /\ Agrees(c[s], dinode) /\ c[s] \in Entry /\ c[s].ref \in Nat /\ None \notin Inums
      /\ g \in [Slots -> Entry] /\ OnDisk(dinode, dir) /\ p # "none"
  BY <1>1, EntryFields, Numbers, InodeAssumption
     DEF Good, Coherent, CacheOK, RefInv, Typed
<1>4. dinode[j].type = c[s].type /\ dinode[j].type # "free" /\ j # i
  BY <1>3 DEF Agrees
<1>5. n \in Slots /\ g[n].inum = i /\ n # s
  <2>1. n \in Slots /\ g[n].inum = i /\ (c[n].ref > 0 => c[n].inum = i)
    BY <1>1 DEF Gets
  <2>2. c[s].ref # 0
    BY <1>3 DEF CacheOK
  <2>3. c[s].ref > 0
    BY <1>3, <2>2, SMT
  <2> QED
    BY <1>4, <2>1, <2>3
<1>6. g[s] = c[s] /\ h = [g1 EXCEPT ![n] = w]
  <2>1. g[s] = c[s]
    BY <1>1, <1>5
  <2>2. h = [g EXCEPT ![s].nlink = k, ![n] = Allocated(g[n], p, type)]
    BY <1>3, <1>5 DEF Allocated
  <2> QED
    BY <1>3, <1>5, <2>1, <2>2
<1>7. /\ f1[j].type = dinode[j].type /\ f1[j].nlink = k /\ f1[j] = f[j]
      /\ SameBut(dinode, f1, {j})
  <2>1. /\ dinode[j] \in [type : Types, nlink : Int]
        /\ dinode \in [Inums -> [type : Types, nlink : Int]]
    BY <1>3 DEF OnDisk
  <2>2. f1[j] = [dinode[j] EXCEPT !.nlink = k] /\ SameBut(dinode, f1, {j})
    BY <2>1 DEF SameBut
  <2>3. f[j] = [dinode[j] EXCEPT !.nlink = k]
    BY DEF Allocates
  <2> HIDE DEF f1, j
  <2> QED
    BY <2>1, <2>2, <2>3
<1>8. SameBut(f1, f, {i}) /\ f[i].type = type /\ f[i].nlink = 1
  <2> HIDE DEF f1
  <2> QED
    BY <1>7 DEF SameBut, Allocates
<1>9. /\ u \in Entry /\ u.inum = j /\ u.ref = c[s].ref /\ u.valid = c[s].valid
      /\ u.type = c[s].type /\ u.nlink = k /\ u.lock = c[s].lock
  BY <1>3, NlinkSet
<1>10. /\ w \in Entry /\ w.inum = i /\ w.ref = g[n].ref /\ w.valid = TRUE
       /\ w.type = type /\ w.nlink = 1 /\ w.lock = p
  <2>1. g[n] \in Entry /\ type \in Types /\ 1 \in Int /\ g[n].inum = i
    BY <1>3, <1>5, SMT
  <2> DEFINE b == g[n]
  <2> HIDE DEF b
  <2>2. b \in Entry /\ Allocated(b, p, type) = w
    BY <2>1 DEF b
  <2>3. /\ Allocated(b, p, type) \in Entry /\ Allocated(b, p, type).inum = b.inum
        /\ Allocated(b, p, type).ref = b.ref
    BY <2>1, <2>2 DEF Entry, Allocated
  <2>4. /\ Allocated(b, p, type).valid = TRUE /\ Allocated(b, p, type).type = type
        /\ Allocated(b, p, type).nlink = 1 /\ Allocated(b, p, type).lock = p
    BY <2>2 DEF Entry, Allocated
  <2> QED
    BY <2>1, <2>2, <2>3, <2>4 DEF b
<1> HIDE DEF n, g, u, f1, w, g1, j
<1>11. Good(g1, f1, p, {}) /\ g1 \in [Slots -> Entry] /\ g1[n] = g[n]
  <2>1. Kept(u, g[s]) /\ g[s].lock \in {p, "none"} /\ u.lock \in {p, "none"}
    BY <1>6, <1>9 DEF Kept, j
  <2>2. Agrees(u, f1)
    BY <1>3, <1>4, <1>7, <1>9 DEF Agrees, j
  <2>3. SameBut(dinode, f1, {g[s].inum})
    BY <1>6, <1>7 DEF j
  <2>4. Passes({}, {}, s, u.lock = p)
    BY <1>3, <1>9 DEF Passes
  <2>5. Good([g EXCEPT ![s] = u], f1, p, {})
    BY <1>2, <1>3, <2>1, <2>2, <2>3, <2>4, GoodSet
  <2>6. [g EXCEPT ![s] = u] \in [Slots -> Entry]
    BY <1>3, <2>1 DEF Kept
  <2> QED
    BY <1>3, <1>5, <2>5, <2>6 DEF g1
<1>12. g[n].lock = "none"
  <2>1. Agrees(g[n], dinode)
    BY <1>2, <1>5 DEF Good, Coherent
  <2> QED
    BY <1>5, <2>1 DEF Agrees
<1>13. Good([g1 EXCEPT ![n] = w], f, p, {n})
  <2>1. Kept(w, g1[n]) /\ g1[n].lock \in {p, "none"} /\ w.lock \in {p, "none"}
    BY <1>5, <1>10, <1>11, <1>12 DEF Kept
  <2>2. Agrees(w, f)
    BY <1>3, <1>8, <1>10 DEF Agrees
  <2>3. SameBut(f1, f, {g1[n].inum})
    BY <1>5, <1>8, <1>11
  <2>4. Passes({}, {n}, n, w.lock = p)
    BY <1>10 DEF Passes
  <2> QED
    BY <1>5, <1>11, <2>1, <2>2, <2>3, <2>4, GoodSet
<1> QED
  BY <1>6, <1>13 DEF n

\* The links are counted when inode i is allocated and named in directory j.
LEMMA AllocCount ==
  ASSUME RefInv, RefInv', LinkInv, NEW p \in Procs, AgreeBut(proc, proc', Procs, p),
         Stays(icache, icache'), ~Owes(proc[p]), ~Owes(proc'[p]),
         NEW j \in Inums, NEW i \in Inums, j # i, dinode[i].type = "free",
         NEW name \in Names, dir[j][name] = None, NEW type, NEW k \in Int,
         k - dinode[j].nlink = One(type = "dir"), Allocates(dinode', j, i, type, k),
         NEW w, NEW d1, DirSet(dir, d1, j, name, i), DirSet(d1, dir', i, "..", w),
         NEW z \in Inums
  PROVE  Counted(dinode', dir', proc', icache', z)
<1> DEFINE x == <<j, name>>
           N == NamesOf(dir, z)
           M == NamesOf(dir', z)
           B == Below(dinode, dir, z)
           A == Below(dinode', dir', z)
           D == Debtors(proc, icache, z)
           C == Debtors(proc', icache', z)
           h == dinode'[z].nlink - dinode[z].nlink
<1>1. /\ dinode \in [Inums -> [type : Types, nlink : Int]]
      /\ dinode' \in [Inums -> [type : Types, nlink : Int]]
      /\ dir \in [Inums -> [Names -> Inums \cup {None}]]
  BY DEF RefInv, Typed, OnDisk
<1>2. d1 \in [Inums -> [Names -> Inums \cup {None}]]
  BY <1>1 DEF DirSet
<1>3. OnDisk(dinode', dir) /\ OnDisk(dinode', d1)
  BY <1>1, <1>2 DEF OnDisk
<1>4. /\ dinode'[i].type = type /\ dinode'[i].nlink = 1
      /\ dinode'[j].type = dinode[j].type /\ dinode'[j].nlink = k
      /\ SameBut(dinode, dinode', {j, i})
  BY <1>1 DEF Allocates
<1>5. ".." \in Names /\ z # None /\ i # None
  BY Numbers DEF Names
<1>6. dinode[i].nlink = 0 /\ dir[i] = NoNames
  BY DEF LinkInv, FreeEmpty
<1>7. NamesOf(dir, i) = {} /\ Below(dinode, dir, i) = {}
  <2>1. Counted(dinode, dir, proc, icache, i)
    BY DEF LinkInv
  <2> QED
    BY <1>6, <2>1, Nameless
<1>8. M \ {x} \subseteq N /\ x \notin N /\ (x \in M => z = i)
  <2>1. NamesVary(dir, d1, j, name, i, z) /\ NamesVary(d1, dir', i, "..", w, z)
    BY <1>3, <1>5, NamesSet
  <2>2. M = NamesOf(d1, z)
    <3> DEFINE T == NamesOf(d1, z)
               y == <<i, "..">>
    <3>1. M \ {y} = T \ {y} /\ y \notin M /\ y \notin T
      BY <2>1 DEF NamesVary
    <3> HIDE DEF M, T, y
    <3>2. M = T
      BY <3>1, SMT
    <3> QED
      BY <3>2 DEF T
  <2>3. /\ NamesOf(d1, z) \ {x} = N \ {x}
        /\ x \in NamesOf(d1, z) => i = z
        /\ x \in N => dir[j][name] = z
    BY <2>1 DEF NamesVary
  <2> HIDE DEF M, N, x
  <2> QED
    BY <1>5, <2>2, <2>3
<1>9. Below(dinode', dir, z) = B
  <2> SUFFICES ASSUME NEW m \in Names \ {".."}, dir[z][m] # None
               PROVE  dinode'[dir[z][m]].type = dinode[dir[z][m]].type
    BY DEF Below
  <2>1. m \in Names /\ dir[z][m] \in Inums
    <3>1. m \in Names
      OBVIOUS
    <3>2. dir[z][m] \in Inums \cup {None}
      BY <1>1, <3>1, SMT
    <3> QED
      BY <3>1, <3>2
  <2>2. <<z, m>> \in Entries /\ <<z, m>>[1] = z /\ <<z, m>>[2] = m
    BY DEF Entries
  <2>3. dir[z][m] # i
    BY <1>7, <2>2 DEF NamesOf
  <2> QED
    BY <1>4, <2>1, <2>3 DEF SameBut
<1>10. /\ A \ {name} \subseteq B
       /\ z = j => name \notin B /\ (name \in A => type = "dir")
       /\ z # j => A = B
  <2>1. BelowVary(dinode', dir, d1, j, name, i, z) /\ BelowVary(dinode', d1, dir', i, "..", w, z)
    BY <1>3, <1>5, BelowSet
  <2>2. ".." \notin A /\ ".." \notin Below(dinode', d1, z)
    BY DEF Below
  <2>3. A = Below(dinode', d1, z)
    <3> DEFINE T == Below(dinode', d1, z)
    <3>1. A \ {".."} = T \ {".."} /\ ".." \notin A /\ ".." \notin T
      BY <2>1, <2>2 DEF BelowVary
    <3> HIDE DEF A, T
    <3>2. A = T
      BY <3>1, SMT
    <3> QED
      BY <3>2 DEF T
  <2>4. /\ Below(dinode', d1, z) \ {name} = Below(dinode', dir, z) \ {name}
        /\ z # j => Below(dinode', d1, z) = Below(dinode', dir, z)
        /\ name \in Below(dinode', d1, j) => type = "dir"
        /\ name \notin Below(dinode', dir, j)
    BY <1>4, <2>1 DEF BelowVary
  <2> HIDE DEF A, B
  <2> QED
    BY <1>9, <2>3, <2>4
<1>11. p \notin C /\ p \notin D
  BY DEF Debtors
<1>12. /\ z = j => h = One(type = "dir")
       /\ z = i => h = 1
       /\ z # i /\ z # j => h = 0
  <2>1. ASSUME z # i, z # j PROVE h = 0
    <3>1. dinode'[z].nlink = dinode[z].nlink /\ dinode[z].nlink \in Int
      BY <1>1, <1>4, <2>1 DEF SameBut
    <3> QED
      BY <3>1, SMT
  <2>2. z = i => h = 1
    BY <1>4, <1>6, SMT
  <2> QED
    BY <1>4, <2>1, <2>2
<1> HIDE DEF N, M, B, A, C, D, h, x
<1>13. Gains(N, M, x, B, A, name, D, C, p, h)
  <2>1. CASE z = j
    BY <1>8, <1>10, <1>11, <1>12, <2>1, SMT DEF Gains, One
  <2>2. CASE z = i
    BY <1>8, <1>10, <1>11, <1>12, <2>2, SMT DEF Gains, One
  <2>3. CASE z # i /\ z # j
    BY <1>8, <1>10, <1>11, <1>12, <2>3, SMT DEF Gains, One
  <2> QED
    BY <2>1, <2>2, <2>3
<1> QED
  BY <1>8, <1>10, <1>13, CountStep DEF N, M, B, A, C, D, h

\* create() gets the inode of the name, or names one it allocates.
LEMMA CreateLinks ==
  ASSUME RefInv, RefInv', LinkInv, NEW p \in Procs, Create(p)
  PROVE  LinkInv'
<1> DEFINE l == proc[p]
           s == l.dp
           r == Seen(p, s)
           c == [icache EXCEPT ![s] = r]
           name == Head(l.rest)
           j == r.inum
           i == dir[j][name]
           new == Min(FreeInodes)
           type == CASE l.call.op = "mkdir" -> "dir" [] l.call.op = "mknod" -> "dev"
                     [] OTHER -> "file"
           nlink == IF type = "dir" THEN r.nlink + 1 ELSE r.nlink
           n == SlotFor(c, new)
           m == SlotFor(c, i)
           h == [iget(c, new) EXCEPT ![s].nlink = nlink, ![n] = Allocated(@, p, type)]
           t == IF type = "file" THEN "opened" ELSE "made"
           w == IF type = "dir" THEN j ELSE None
           a == [Putting(l, "dp", "open") EXCEPT !.ip = m]
           k == [Putting(l, "dp", t) EXCEPT !.ip = n]
<1>1. /\ Typed /\ CacheOK(icache) /\ l \in Local /\ Controlled(l, cwd[p])
      /\ icache \in [Slots -> Entry] /\ OnDisk(dinode, dir) /\ proc \in [Procs -> Local]
  BY AtFacts DEF Typed
<1>2. l.pc = "create" /\ Unlocked(s)
  BY DEF Create, At
<1>3. s # None /\ l.at = None /\ l.rest \in Paths
  BY <1>1, <1>2 DEF Controlled, Point, Putters, HasDp, HasIp
<1>4. s \in Slots
  BY <1>1, <1>3, LocalFields DEF Pointers
<1>5. icache[s].inum \in Inums /\ icache[s].inum # None
  BY <1>4, HeldCached
<1>6. /\ Kept(r, icache[s]) /\ r.lock = "none" /\ r.valid = TRUE
      /\ r.type = dinode[icache[s].inum].type /\ r.nlink = dinode[icache[s].inum].nlink
  BY <1>4, <1>5, SeenDisk
<1>7. j = icache[s].inum /\ j \in Inums /\ r.type = dinode[j].type /\ r.nlink = dinode[j].nlink
  BY <1>5, <1>6 DEF Kept
<1>8. c \in [Slots -> Entry] /\ SameRefs(icache, c) /\ CacheOK(c) /\ c[s] = r
  <2>1. /\ Kept(r, icache[s]) /\ s \in Slots /\ icache \in [Slots -> Entry]
        /\ CacheOK(icache)
    BY <1>1, <1>4, <1>6
  <2> HIDE DEF r, s
  <2> QED
    BY <2>1, EntrySet
<1>9. name \in Names
  <2> HIDE DEF l
  <2> QED
    BY <1>3, PathFacts
<1>10. type \in Types \ {"free"} /\ t \in {"opened", "made"}
  BY DEF Types
<1>11. Locked(l) = {} /\ ~Owes(l)
  BY <1>2 DEF Locked, Owes, Linking, Point, Putters, HoldsIp, HoldsDp
<1>12. ilock(p, s).type # "free" => Good(c, dinode, p, {})
  <2>1. Passes(Locked(l), {}, s, FALSE)
    BY <1>11 DEF Passes
  <2> QED
    BY <1>2, <1>4, <1>5, <2>1, IlockGood
<1>13. ilock(p, s).type = r.type
  <2>1. ilock(p, s).type = dinode[icache[s].inum].type
    BY <1>4, <1>5, SeenDisk
  <2> QED
    BY <1>6, <2>1
<1>14. \/ Panic("ilock") \/ Panic("iget") \/ Panic("ialloc")
       \/ /\ ilock(p, s).type # "free" /\ i # None /\ SlotFor(icache, i) # None
          /\ icache' = iget(c, i) /\ proc' = [proc EXCEPT ![p] = a]
          /\ UNCHANGED <<dinode, dir>>
       \/ /\ ilock(p, s).type # "free" /\ i = None /\ FreeInodes # {}
          /\ SlotFor(icache, new) # None
          /\ dinode' = [dinode EXCEPT ![new] = [type |-> type, nlink |-> 1],
                                      ![j].nlink = nlink]
          /\ dir' = [dir EXCEPT ![j][name] = new, ![new][".."] = w]
          /\ icache' = h /\ proc' = [proc EXCEPT ![p] = k]
  <2> HIDE DEF type
  <2> QED
    BY DEF Create, Locking, Getting, Allocated, type
<1>15. nlink \in Int /\ nlink - dinode[j].nlink = One(type = "dir")
  <2>1. r.nlink \in Int
    BY <1>6, EntryFields DEF Kept
  <2>2. r.nlink = dinode[j].nlink
    BY <1>7
  <2> HIDE DEF r, type, j
  <2> QED
    BY <2>1, <2>2, SMT DEF One
<1> HIDE DEF r, c, type, nlink, name, new, h, w, j, t
<1>16. CASE Panic("ilock") \/ Panic("iget") \/ Panic("ialloc")
  BY <1>16, SameLinks DEF Panic
<1>17. CASE /\ ilock(p, s).type # "free" /\ i # None /\ SlotFor(icache, i) # None
            /\ icache' = iget(c, i) /\ proc' = [proc EXCEPT ![p] = a]
            /\ UNCHANGED <<dinode, dir>>
  <2>1. i \in Inums
    <3>1. i \in Inums \cup {None}
      BY <1>1, <1>7, <1>9 DEF OnDisk
    <3> QED
      BY <1>17, <3>1
  <2> HIDE DEF i
  <2>2. SlotFor(c, i) # None /\ m \in Slots
    BY <1>8, <1>17, <2>1, IgetAfter
  <2>3. Good(icache', dinode, p, {})
    BY <1>8, <1>12, <1>17, <2>1, <2>2, GoodGet
  <2> HIDE DEF m
  <2>4. Loc(a, "iput", l.call, l.rest, None, None, m, s, "open")
    BY <1>1, <1>3, <2>2, PutDpLoc
  <2> HIDE DEF a
  <2>5. /\ Locked(a) = {} /\ OwesLess(l, a) /\ Relies(a, icache', dinode, dir)
    BY <2>4 DEF Loc, Locked, OwesLess, Relies, Linking, Point, Putters, HoldsIp, HoldsDp
  <2> QED
    BY <1>17, <2>3, <2>5, KeepLinks
<1>18. CASE /\ ilock(p, s).type # "free" /\ i = None /\ FreeInodes # {}
            /\ SlotFor(icache, new) # None
            /\ dinode' = [dinode EXCEPT ![new] = [type |-> type, nlink |-> 1],
                                        ![j].nlink = nlink]
            /\ dir' = [dir EXCEPT ![j][name] = new, ![new][".."] = w]
            /\ icache' = h /\ proc' = [proc EXCEPT ![p] = k]
  <2>1. new \in Inums /\ dinode[new].type = "free"
    <3>1. FreeInodes \subseteq Nat
      BY Numbers DEF FreeInodes
    <3>2. new \in FreeInodes
      BY <1>18, <3>1, MinIn DEF new
    <3> QED
      BY <3>2 DEF FreeInodes
  <2>2. dinode[j].type # "free" /\ j # new
    BY <1>7, <1>13, <1>18, <2>1
  <2>3. Allocates(dinode', j, new, type, nlink)
    <3> DEFINE d1 == [dinode EXCEPT ![new] = [type |-> type, nlink |-> 1]]
    <3>1. dinode \in [Inums -> [type : Types, nlink : Int]]
      BY <1>1 DEF OnDisk
    <3>2. /\ d1[new] = [type |-> type, nlink |-> 1] /\ d1[j] = dinode[j]
          /\ \A z \in Inums \ {new} : d1[z] = dinode[z]
          /\ DOMAIN d1 = Inums
      BY <1>7, <2>1, <2>2, <3>1
    <3>3. dinode' = [d1 EXCEPT ![j].nlink = nlink]
      BY <1>18
    <3> HIDE DEF d1
    <3>4. /\ dinode'[j] = [d1[j] EXCEPT !.nlink = nlink]
          /\ \A z \in Inums \ {j} : dinode'[z] = d1[z]
      BY <1>7, <3>2, <3>3
    <3>5. dinode'[new] = [type |-> type, nlink |-> 1]
      BY <2>1, <2>2, <3>2, <3>4
    <3>6. SameBut(dinode, dinode', {j, new})
      BY <3>2, <3>4 DEF SameBut
    <3>7. dinode'[j] = [dinode[j] EXCEPT !.nlink = nlink]
      BY <3>2, <3>4
    <3>8. dinode'[new].type = type /\ dinode'[new].nlink = 1
      BY <3>5, SMT
    <3> QED
      BY <3>6, <3>7, <3>8 DEF Allocates
  <2> DEFINE e1 == [dir EXCEPT ![j][name] = new]
  <2>4. DirSet(dir, e1, j, name, new) /\ DirSet(e1, dir', new, "..", w)
    BY <1>18 DEF DirSet
  <2> HIDE DEF e1
  <2>5. dir[j][name] = None
    BY <1>18
  <2>6. proc'[p] = k /\ AgreeBut(proc, proc', Procs, p)
    BY <1>1, <1>18 DEF AgreeBut
  <2>7. SlotFor(c, new) # None /\ n \in Slots
    BY <1>8, <1>18, <2>1, IgetAfter
  <2>8. Loc(k, "iput", l.call, l.rest, None, None, n, s, t)
    BY <1>1, <1>3, <1>10, <2>7, PutDpLoc
  <2> HIDE DEF k
  <2>9. /\ Locked(k) = {n} /\ ~Owes(k) /\ Relies(k, icache', dinode', dir')
        /\ LinksFile(k, icache', dinode')
    BY <1>10, <2>7, <2>8
       DEF Loc, Locked, Owes, LinksFile, Relies, Linking, Point, Putters, HoldsIp, HoldsDp
  <2>10. Good(icache', dinode', p, Locked(k)) /\ Stays(icache, icache')
    <3>1. Good(c, dinode, p, {})
      BY <1>12, <1>18
    <3>2. c[s].valid /\ c[s].lock = "none" /\ c[s].inum = j
      BY <1>6, <1>8 DEF j
    <3>3. c[s].inum \in Inums /\ Allocates(dinode', c[s].inum, new, type, nlink)
      BY <1>7, <2>3, <3>2
    <3>4. /\ s \in Slots /\ CacheOK(c) /\ SameRefs(icache, c) /\ type \in Types \ {"free"}
          /\ nlink \in Int /\ new \in Inums /\ dinode[new].type = "free"
          /\ SlotFor(c, new) # None
      BY <1>4, <1>8, <1>10, <1>15, <2>1, <2>7
    <3>5. h = [iget(c, new) EXCEPT ![s].nlink = nlink,
                                   ![SlotFor(c, new)] = Allocated(@, p, type)]
      BY DEF h
    <3> HIDE DEF s, n
    <3>6. Good(h, dinode', p, {SlotFor(c, new)})
      BY <3>1, <3>2, <3>3, <3>4, <3>5, AllocGood
    <3> QED
      BY <1>18, <2>9, <3>6 DEF Good, n
  <2>11. SameBut(dinode, dinode', {j, new}) /\ SameBut(dir, dir', {j, new})
    <3>1. SameBut(dir, e1, {j})
      BY <1>1, <1>7, <1>9, <2>4, EntryChange
    <3>2. OnDisk(dinode, e1) /\ ".." \in Names
      <4>1. dir \in [Inums -> [Names -> Inums \cup {None}]]
        BY <1>1 DEF OnDisk
      <4>2. e1 \in [Inums -> [Names -> Inums \cup {None}]]
        BY <1>7, <1>9, <2>1, <4>1 DEF e1
      <4> QED
        BY <1>1, <4>2 DEF OnDisk, Names
    <3>3. SameBut(e1, dir', {new})
      BY <2>1, <2>4, <3>2, EntryChange
    <3> QED
      BY <2>3, <3>1, <3>3 DEF SameBut, Allocates
  <2>12. /\ dinode'[new].type = type /\ dinode'[j].type = dinode[j].type
    <3>1. dinode[j] \in [type : Types, nlink : Int]
      BY <1>1, <1>7 DEF OnDisk
    <3> QED
      BY <2>3, <3>1 DEF Allocates
  <2>13. FreeEmpty(dinode', dir')
    <3> SUFFICES ASSUME NEW z \in Inums, dinode'[z].type = "free"
                 PROVE  dinode'[z].nlink = 0 /\ dir'[z] = NoNames
      BY DEF FreeEmpty
    <3>1. z # j /\ z # new
      BY <1>10, <2>2, <2>12
    <3> QED
      BY <2>11, <3>1 DEF LinkInv, FreeEmpty, SameBut
  <2>14. Guarded(p)
    <3>1. icache[s].lock \in {p, "none"} /\ icache[s].inum = j
      BY <1>2, <1>7 DEF Unlocked
    <3>2. MayChange(p, {j, new})
      BY <1>4, <2>1, <3>1 DEF MayChange
    <3>3. TypesKept
      BY <2>1, <2>11, <2>12 DEF TypesKept, SameBut
    <3> QED
      BY <2>11, <3>2, <3>3, GuardStep
  <2>15. ASSUME NEW z \in Inums
         PROVE  Counted(dinode', dir', proc', icache', z)
    <3>1. ~Owes(proc[p]) /\ ~Owes(proc'[p])
      BY <1>11, <2>6, <2>9
    <3>2. nlink - dinode[j].nlink = One(type = "dir") /\ nlink \in Int
      BY <1>15
    <3> QED
      BY <1>7, <1>9, <2>1, <2>2, <2>3, <2>4, <2>5, <2>6, <2>10, <3>1, <3>2, AllocCount
  <2> QED
    BY <2>6, <2>9, <2>10, <2>13, <2>14, <2>15, LinkStep
<1> QED
  BY <1>14, <1>16, <1>17, <1>18
-----------------------------------------------------------------------------
(* The theorems. *)

\* At the start only the root has a type, and it has no name but its own "..".
LEMMA InitLinkInv == Init => LinkInv
<1> SUFFICES ASSUME Init PROVE LinkInv
  OBVIOUS
<1>1. RefInv
  BY InitRefInv
<1>2. /\ \A s \in Slots : icache[s].valid = FALSE /\ icache[s].lock = "none"
      /\ \A s \in Slots \ {1} : icache[s].inum = None
  BY DEF Init, Unread
<1>3. OneSlot(icache) /\ Coherent(icache, dinode)
  BY <1>2 DEF OneSlot, Coherent, Agrees
<1>4. \A p \in Procs : proc[p] = AtRest
  BY DEF Init
<1>5. AtRest.pc = "idle" /\ AtRest.then = "idle" /\ AtRest.ip = None
  BY DEF AtRest
<1>6. Point(AtRest) = "idle"
  BY <1>5 DEF Point, Putters
<1>7. Locked(AtRest) = {} /\ ~Owes(AtRest) /\ ~Linking(AtRest)
  BY <1>5, <1>6 DEF Locked, Owes, Linking, HoldsIp, HoldsDp
<1>8. Locks
  BY <1>2, <1>4, <1>7, InodeAssumption DEF Locks
<1>9. \A i \in Inums : /\ i # ROOTINO => dinode[i].type = "free" /\ dinode[i].nlink = 0
                                        /\ dir[i] = NoNames
                       /\ i = ROOTINO => dinode[i].type = "dir" /\ dinode[i].nlink = 1
                       /\ \A m \in Names \ {".."} : dir[i][m] = None
  <2> SUFFICES ASSUME NEW i \in Inums
               PROVE  /\ i # ROOTINO => dinode[i].type = "free" /\ dinode[i].nlink = 0
                                        /\ dir[i] = NoNames
                      /\ i = ROOTINO => dinode[i].type = "dir" /\ dinode[i].nlink = 1
                      /\ \A m \in Names \ {".."} : dir[i][m] = None
    OBVIOUS
  <2>1. CASE i = ROOTINO
    BY <2>1 DEF Init, NoNames
  <2>2. CASE i # ROOTINO
    BY <2>2 DEF Init, NoNames
  <2> QED
    BY <2>1, <2>2
<1>10. FreeEmpty(dinode, dir)
  BY <1>9 DEF FreeEmpty
<1>11. ASSUME NEW p \in Procs
       PROVE  /\ Relies(proc[p], icache, dinode, dir)
              /\ LinksFile(proc[p], icache, dinode)
  BY <1>4, <1>5, <1>7 DEF Relies, LinksFile
<1>12. ASSUME NEW i \in Inums PROVE Counted(dinode, dir, proc, icache, i)
  <2>1. NamesOf(dir, i) = {}
    <3> SUFFICES ASSUME NEW x \in Entries PROVE dir[x[1]][x[2]] # i
      BY DEF NamesOf
    <3>1. x[1] \in Inums /\ x[2] \in Names \ {".."} /\ i # None
      BY Numbers, SMT DEF Entries
    <3> QED
      BY <1>9, <3>1
  <2>2. Below(dinode, dir, i) = {}
    BY <1>9 DEF Below
  <2>3. Debtors(proc, icache, i) = {}
    BY <1>4, <1>7 DEF Debtors
  <2>4. Cardinality({}) = 0
    BY FS_EmptySet
  <2>5. dinode[i].nlink \in {0, 1}
    BY <1>9
  <2> DEFINE k == dinode[i].nlink
             o == Cardinality({})
  <2>6. k \in {0, 1} /\ o = 0
    BY <2>4, <2>5
  <2> HIDE DEF k, o
  <2>7. k >= o + o + o
    BY <2>6, SMT
  <2> QED
    BY <2>1, <2>2, <2>3, <2>7 DEF Counted, Enough, k, o
<1> QED
  BY <1>3, <1>8, <1>10, <1>11, <1>12 DEF LinkInv

\* One step per action.
LEMMA NextLinkInv == RefInv /\ LinkInv /\ [Next]_vars => LinkInv'
<1> SUFFICES ASSUME RefInv, LinkInv, [Next]_vars PROVE LinkInv'
  OBVIOUS
<1>1. RefInv'
  BY NextRefInv
<1>2. CASE UNCHANGED vars
  BY <1>2, SameLinks DEF vars
<1>3. CASE Next
  <2>1. PICK p \in Procs : Step(p)
    BY <1>3 DEF Next
  <2>2. CASE \E call \in Calls : Call(p, call)
    BY <1>1, <2>2, CallLinks
  <2>3. CASE \E fd \in Fds : Close(p, fd) \/ Dup(p, fd)
    BY <1>1, <2>3, CloseLinks, DupLinks
  <2>4. CASE Namex(p)
    BY <1>1, <2>4, NamexLinks
  <2>5. CASE Create(p)
    BY <1>1, <2>5, CreateLinks
  <2>6. CASE OpenLock(p) \/ Opened(p) \/ Made(p)
    BY <1>1, <2>6, OpenLockLinks, OpenedLinks, MadeLinks
  <2>7. CASE Unlink(p) \/ UnlinkLock(p) \/ UnlinkBad(p) \/ UnlinkDec(p)
    BY <1>1, <2>7, UnlinkLinks, UnlinkLockLinks, UnlinkBadLinks, UnlinkDecLinks
  <2>8. CASE LinkInc(p) \/ Link(p) \/ LinkPut(p) \/ LinkBad(p) \/ LinkUndo(p)
    BY <1>1, <2>8, LinkIncLinks, LinkLinks, LinkPutLinks, LinkBadLinks, LinkUndoLinks
  <2>9. CASE Chdir(p) \/ ChdirSet(p)
    BY <1>1, <2>9, ChdirLinks, ChdirSetLinks
  <2>10. CASE Iput(p) \/ IputFree(p) \/ IputRef(p)
    BY <1>1, <2>10, IputLinks, IputFreeLinks, IputRefLinks
  <2> QED
    BY <2>1, <2>2, <2>3, <2>4, <2>5, <2>6, <2>7, <2>8, <2>9, <2>10 DEF Step
<1> QED
  BY <1>2, <1>3

\* An inode is cached once; what is locked is as on disk; the locks a call holds
\* are the ones its place in the code says; and nlink counts the names, the
\* subdirectories and the links that calls in progress owe.
THEOREM LinkInvariance == Spec => []LinkInv
<1>1. Init => LinkInv
  BY InitLinkInv
<1>2. RefInv /\ LinkInv /\ [Next]_vars => LinkInv'
  BY NextLinkInv
<1> QED
  BY <1>1, <1>2, RefInvariance, PTL DEF Spec

\* nlink is never less than the names that directories hold, whatever create(),
\* link() and unlink() overlap and wherever they fail, so iput() frees no inode
\* that has a name: for every number of processes, inodes, entries and files.
THEOREM NamesCountedHolds == Spec => []NamesCounted
<1>1. RefInv /\ LinkInv => NamesCounted
  <2> SUFFICES ASSUME RefInv, LinkInv, NEW i \in Inums
               PROVE  dinode[i].nlink >= Cardinality(NamesOf(dir, i))
                                           + Cardinality(Below(dinode, dir, i))
    BY DEF NamesCounted, NamesOf, Below, Entries
  <2> DEFINE k == dinode[i].nlink
             n == Cardinality(NamesOf(dir, i))
             b == Cardinality(Below(dinode, dir, i))
             d == Cardinality(Debtors(proc, icache, i))
  <2>1. k >= n + b + d
    BY DEF LinkInv, Counted, Enough
  <2>2. n \in Nat /\ b \in Nat /\ d \in Nat
    BY LinksFinite, FS_CardinalityType
  <2>3. k \in Int
    BY DEF RefInv, Typed, OnDisk
  <2> HIDE DEF k, n, b, d
  <2>4. k >= n + b
    BY <2>1, <2>2, <2>3, SMT
  <2> QED
    BY <2>4 DEF k, n, b
<1> QED
  BY <1>1, RefInvariance, LinkInvariance, PTL
=============================================================================
