----------------------------- MODULE InodeRefs ------------------------------
(***************************************************************************)
(* The references to inodes are counted, whatever the number of processes, *)
(* inodes, cache entries and files and whatever processes call.            *)
(***************************************************************************)
EXTENDS Inode, Integers, FiniteSetTheorems, TLAPS

\* Leaves that need arithmetic, or more than first-order reasoning, name SMT.
USE Zenon

-----------------------------------------------------------------------------
(* The inductive invariant of the reference counts. *)

Types == {"free", "dir", "file", "dev"}
Pointers == Slots \cup {None}
Putters == {"iput", "ifree", "iref"}
HasDp == {"create", "unlink", "unlinklock", "unlinkbad", "link", "linkbad"}
HasIp == {"open", "opened", "made", "unlinklock", "unlinkdec", "linkinc", "link",
          "linkput", "linkbad", "linkundo", "chdir", "chdirset"}
Points == {"idle", "namex"} \cup HasDp \cup HasIp
Entry == [inum : Inums \cup {None}, ref : Nat, valid : BOOLEAN, type : Types,
          nlink : Int, lock : Procs \cup {"none"}]
Local == [pc : Points \cup Putters, call : Calls \cup {NoCall},
          rest : Paths \cup {<<>>}, at : Pointers, dp : Pointers,
          ip : Pointers, put : Pointers, then : Points]
Vars == {"at", "dp", "ip", "put"}

OnDisk(d, e) == /\ d \in [Inums -> [type : Types, nlink : Int]]
                /\ e \in [Inums -> [Names -> Inums \cup {None}]]
Typed ==
  /\ OnDisk(dinode, dir)
  /\ icache \in [Slots -> Entry]
  /\ ftable \in [Files -> [ref : Nat, ip : Pointers]]
  /\ ofile \in [Procs -> [Fds -> Files \cup {None}]]
  /\ cwd \in [Procs -> Pointers]
  /\ proc \in [Procs -> Local]

\* Where a call with locals l is, or will go on after iput().
Point(l) == IF l.pc \in Putters THEN l.then ELSE l.pc

\* The references a call holds at each point of it; d is the current directory.
Controlled(l, d) ==
  /\ l.pc \in Putters <=> l.put # None
  /\ Point(l) = "namex" <=> l.at # None
  /\ Point(l) \in HasDp <=> l.dp # None
  /\ Point(l) \in HasIp => l.ip # None
  /\ l.ip # None => Point(l) \in HasIp \/ (Point(l) = "namex" /\ l.call.op = "link")
  /\ d = None <=> Point(l) = "chdirset"
  /\ Point(l) = "namex" \/ Point(l) \in HasDp => l.rest \in Paths
  /\ Point(l) \in HasDp => Len(l.rest) = 1
  /\ Point(l) # "idle" => l.call \in Calls
  /\ Point(l) = "linkinc" => l.call.op = "link"
Control == \A p \in Procs : Controlled(proc[p], cwd[p])

\* A cache entry is for an inode as long as it is referred to; the root's
\* always is, by init.
Cached ==
  /\ \A s \in Slots : icache[s].ref = 0 <=> icache[s].inum = None
  /\ \E s \in Slots : icache[s].inum = ROOTINO

\* An open file has its descriptors for references.
Descs(of, f) == {x \in Procs \X Fds : of[x[1]][x[2]] = f}
FilesExact ==
  \A f \in Files : /\ ftable[f].ref = Cardinality(Descs(ofile, f))
                   /\ ftable[f].ref > 0 => ftable[f].ip # None

RefInv == Typed /\ Control /\ Cached /\ FilesExact /\ RefsExact
-----------------------------------------------------------------------------
(* Counting. *)

One(b) == IF b THEN 1 ELSE 0

\* A count goes from a to b as what one thing counts for goes from x to y.
Change(a, b, x, y) == b = a + y - x

\* Two finite sets that agree but for x.
LEMMA SetChange ==
  ASSUME NEW S, NEW T, NEW x, IsFiniteSet(S), IsFiniteSet(T), S \ {x} = T \ {x}
  PROVE  /\ Cardinality(S) \in Nat /\ Cardinality(T) \in Nat
         /\ Cardinality(T) = Cardinality(S) + One(x \in T) - One(x \in S)
<1> DEFINE s == Cardinality(S)
           t == Cardinality(T)
           u == Cardinality(S \ {x})
<1>1. s \in Nat /\ t \in Nat
  BY FS_CardinalityType
<1>2. /\ x \in S => u = s - 1
      /\ x \notin S => u = s
  BY FS_RemoveElement
<1>3. /\ x \in T => u = t - 1
      /\ x \notin T => u = t
  BY FS_RemoveElement
<1> HIDE DEF s, t, u
<1>4. t = s + One(x \in T) - One(x \in S)
  BY <1>1, <1>2, <1>3, SMT DEF One
<1> QED
  BY <1>1, <1>4 DEF s, t

\* The pointers to slot s: open files, variables of calls, current directories.
FilesAt(ft, s) == {f \in Files : ft[f].ref > 0 /\ ft[f].ip = s}
VarsAt(pr, s) == {x \in Procs \X Vars : pr[x[1]][x[2]] = s}
CwdsAt(cw, s) == {p \in Procs : cw[p] = s}

\* Everything that can hold a reference is one of finitely many.
LEMMA Finite ==
  /\ IsFiniteSet(Procs) /\ IsFiniteSet(Files) /\ IsFiniteSet(Procs \X Vars)
  /\ IsFiniteSet(Procs \X Fds)
<1>1. IsFiniteSet(Procs) /\ NFILE \in Int /\ NOFILE - 1 \in Int /\ 0 \in Int /\ 1 \in Int
  BY InodeAssumption, SMT
<1>2. IsFiniteSet(Files) /\ IsFiniteSet(Fds)
  BY <1>1, FS_Interval DEF Files, Fds
<1>3. IsFiniteSet({"at"}) /\ IsFiniteSet({"dp"}) /\ IsFiniteSet({"ip"}) /\ IsFiniteSet({"put"})
  BY FS_Singleton
<1>4. IsFiniteSet({"at"} \cup {"dp"}) /\ IsFiniteSet({"ip"} \cup {"put"})
  BY <1>3, FS_Union
<1>5. IsFiniteSet(({"at"} \cup {"dp"}) \cup ({"ip"} \cup {"put"}))
  BY <1>4, FS_Union
<1>6. ({"at"} \cup {"dp"}) \cup ({"ip"} \cup {"put"}) = Vars
  BY DEF Vars
<1> QED
  BY <1>1, <1>2, <1>5, <1>6, FS_Product

\* What the counts of RefsExact and FilesExact count is finite.
LEMMA Counts ==
  ASSUME NEW s, NEW ft, NEW pr, NEW cw, NEW of
  PROVE  /\ IsFiniteSet(FilesAt(ft, s)) /\ Cardinality(FilesAt(ft, s)) \in Nat
         /\ IsFiniteSet(VarsAt(pr, s)) /\ Cardinality(VarsAt(pr, s)) \in Nat
         /\ IsFiniteSet(CwdsAt(cw, s)) /\ Cardinality(CwdsAt(cw, s)) \in Nat
         /\ IsFiniteSet(Descs(of, s)) /\ Cardinality(Descs(of, s)) \in Nat
<1>1. /\ FilesAt(ft, s) \in SUBSET Files /\ VarsAt(pr, s) \in SUBSET (Procs \X Vars)
      /\ CwdsAt(cw, s) \in SUBSET Procs /\ Descs(of, s) \in SUBSET (Procs \X Fds)
  BY DEF FilesAt, VarsAt, CwdsAt, Descs
<1>2. /\ IsFiniteSet(FilesAt(ft, s)) /\ IsFiniteSet(VarsAt(pr, s))
      /\ IsFiniteSet(CwdsAt(cw, s)) /\ IsFiniteSet(Descs(of, s))
  BY <1>1, Finite, FS_Subset
<1> QED
  BY <1>2, FS_CardinalityType

\* The pointers to s of a call with locals l.
Held(l, s) == One(l.at = s) + One(l.dp = s) + One(l.ip = s) + One(l.put = s)

\* How often the locals of a call refer to an entry is a number.
LEMMA HeldType ==
  ASSUME NEW l, NEW s
  PROVE  /\ Held(l, s) \in Nat
         /\ Held(l, s) > 0 <=> l.at = s \/ l.dp = s \/ l.ip = s \/ l.put = s
BY SMT DEF Held, One

\* Functions on S that agree but for x.
AgreeBut(f, g, S, x) == \A y \in S \ {x} : f[y] = g[y]

\* The locals of one process change.
LEMMA VarsChange ==
  ASSUME NEW pr, NEW qr, NEW p \in Procs, NEW s, AgreeBut(pr, qr, Procs, p)
  PROVE  Change(Cardinality(VarsAt(pr, s)), Cardinality(VarsAt(qr, s)),
                Held(pr[p], s), Held(qr[p], s))
<1> DEFINE A == VarsAt(pr, s)
           E == VarsAt(qr, s)
           B == (A \ {<<p, "at">>}) \cup (E \cap {<<p, "at">>})
           C == (B \ {<<p, "dp">>}) \cup (E \cap {<<p, "dp">>})
           D == (C \ {<<p, "ip">>}) \cup (E \cap {<<p, "ip">>})
<1>1. A \in SUBSET (Procs \X Vars) /\ E \in SUBSET (Procs \X Vars)
  BY DEF VarsAt
<1>2. /\ <<p, "at">> \in A <=> pr[p].at = s
      /\ <<p, "dp">> \in A <=> pr[p].dp = s
      /\ <<p, "ip">> \in A <=> pr[p].ip = s
      /\ <<p, "put">> \in A <=> pr[p].put = s
      /\ <<p, "at">> \in E <=> qr[p].at = s
      /\ <<p, "dp">> \in E <=> qr[p].dp = s
      /\ <<p, "ip">> \in E <=> qr[p].ip = s
      /\ <<p, "put">> \in E <=> qr[p].put = s
  BY SMT DEF VarsAt, Vars
<1>3. \A q \in Procs \ {p}, v \in Vars : <<q, v>> \in A <=> <<q, v>> \in E
  BY DEF VarsAt, AgreeBut
<1> HIDE DEF A, E
<1>4. IsFiniteSet(A) /\ IsFiniteSet(B) /\ IsFiniteSet(C) /\ IsFiniteSet(D) /\ IsFiniteSet(E)
  <2>1. /\ B \in SUBSET (Procs \X Vars) /\ C \in SUBSET (Procs \X Vars)
        /\ D \in SUBSET (Procs \X Vars)
    BY <1>1
  <2> QED
    BY <1>1, <2>1, Finite, FS_Subset
<1>5. A \ {<<p, "at">>} = B \ {<<p, "at">>} /\ (<<p, "at">> \in B <=> <<p, "at">> \in E)
  OBVIOUS
<1>6. /\ B \ {<<p, "dp">>} = C \ {<<p, "dp">>} 
      /\ (<<p, "dp">> \in C <=> <<p, "dp">> \in E)
      /\ (<<p, "dp">> \in B <=> <<p, "dp">> \in A)
  BY SMT
<1>7. /\ C \ {<<p, "ip">>} = D \ {<<p, "ip">>} 
      /\ (<<p, "ip">> \in D <=> <<p, "ip">> \in E)
      /\ (<<p, "ip">> \in C <=> <<p, "ip">> \in A)
  BY SMT
<1>8. /\ D \ {<<p, "put">>} = E \ {<<p, "put">>} 
      /\ (<<p, "put">> \in D <=> <<p, "put">> \in A)
  <2>1. <<p, "put">> \in D <=> <<p, "put">> \in A
    BY SMT
  <2>2. ASSUME NEW x \in Procs \X Vars, x # <<p, "put">>
        PROVE  x \in D <=> x \in E
    <3>1. PICK q \in Procs, v \in Vars : x = <<q, v>>
      BY SMT
    <3>2. CASE q = p
      <4>1. v = "at" \/ v = "dp" \/ v = "ip"
        BY <2>2, <3>1, <3>2 DEF Vars
      <4> QED
        BY <3>1, <3>2, <4>1, SMT
    <3>3. CASE q # p
      <4>1. x \in A <=> x \in E
        BY <1>3, <3>1, <3>3
      <4>2. x # <<p, "at">> /\ x # <<p, "dp">> /\ x # <<p, "ip">>
        BY <3>1, <3>3
      <4> QED
        BY <4>1, <4>2
    <3> QED
      BY <3>2, <3>3
  <2>3. D \subseteq Procs \X Vars
    BY <1>1
  <2> QED
    BY <1>1, <2>1, <2>2, <2>3
<1> HIDE DEF B, C, D
<1> DEFINE a == Cardinality(A)
           b == Cardinality(B)
           c == Cardinality(C)
           d == Cardinality(D)
           e == Cardinality(E)
<1>9. /\ a \in Nat /\ b \in Nat
      /\ b = a + One(<<p, "at">> \in B) - One(<<p, "at">> \in A)
  BY <1>4, <1>5, SetChange
<1>10. /\ c \in Nat 
       /\ c = b + One(<<p, "dp">> \in C) - One(<<p, "dp">> \in B)
  BY <1>4, <1>6, SetChange, SMT
<1>11. /\ d \in Nat 
       /\ d = c + One(<<p, "ip">> \in D) - One(<<p, "ip">> \in C)
  BY <1>4, <1>7, SetChange, SMT
<1>12. /\ e \in Nat 
       /\ e = d + One(<<p, "put">> \in E) - One(<<p, "put">> \in D)
  BY <1>4, <1>8, SetChange, SMT
<1> HIDE DEF a, b, c, d, e
<1>13. e = a + Held(qr[p], s) - Held(pr[p], s)
  BY <1>2, <1>5, <1>6, <1>7, <1>8, <1>9, <1>10, <1>11, <1>12, SMT DEF Held, One
<1> QED
  BY <1>13 DEF a, e, A, E, Change

\* The current directory of one process changes.
LEMMA CwdsChange ==
  ASSUME NEW cw, NEW dw, NEW p \in Procs, NEW s, AgreeBut(cw, dw, Procs, p)
  PROVE  Change(Cardinality(CwdsAt(cw, s)), Cardinality(CwdsAt(dw, s)),
                One(cw[p] = s), One(dw[p] = s))
<1>1. CwdsAt(cw, s) \ {p} = CwdsAt(dw, s) \ {p}
  BY DEF CwdsAt, AgreeBut
<1>2. (p \in CwdsAt(cw, s) <=> cw[p] = s) /\ (p \in CwdsAt(dw, s) <=> dw[p] = s)
  BY DEF CwdsAt
<1>3. IsFiniteSet(CwdsAt(cw, s)) /\ IsFiniteSet(CwdsAt(dw, s))
  BY Counts
<1>4. Cardinality(CwdsAt(dw, s)) = Cardinality(CwdsAt(cw, s)) 
        + One(p \in CwdsAt(dw, s)) - One(p \in CwdsAt(cw, s))
  BY <1>1, <1>3, SetChange
<1> QED
  BY <1>2, <1>4 DEF One, Change

\* One file changes.
FileAt(e, s) == One(e.ref > 0 /\ e.ip = s)

\* Open files: one entry of the file table changes.
LEMMA FilesChange ==
  ASSUME NEW ft, NEW gt, NEW f \in Files, NEW s, AgreeBut(ft, gt, Files, f)
  PROVE  Change(Cardinality(FilesAt(ft, s)), Cardinality(FilesAt(gt, s)),
                FileAt(ft[f], s), FileAt(gt[f], s))
<1>1. FilesAt(ft, s) \ {f} = FilesAt(gt, s) \ {f}
  BY DEF FilesAt, AgreeBut
<1>2. /\ f \in FilesAt(ft, s) <=> ft[f].ref > 0 /\ ft[f].ip = s
      /\ f \in FilesAt(gt, s) <=> gt[f].ref > 0 /\ gt[f].ip = s
  BY DEF FilesAt
<1>3. IsFiniteSet(FilesAt(ft, s)) /\ IsFiniteSet(FilesAt(gt, s))
  BY Counts
<1>4. Cardinality(FilesAt(gt, s)) = Cardinality(FilesAt(ft, s)) 
        + One(f \in FilesAt(gt, s)) - One(f \in FilesAt(ft, s))
  BY <1>1, <1>3, SetChange
<1> QED
  BY <1>2, <1>4 DEF One, FileAt, Change

\* One descriptor changes.
DescsAgreeBut(of, og, p, fd) ==
  \A q \in Procs, h \in Fds : <<q, h>> # <<p, fd>> => of[q][h] = og[q][h]

\* Descriptors: one descriptor changes.
LEMMA DescsChange ==
  ASSUME NEW of, NEW og, NEW p \in Procs, NEW fd \in Fds, NEW f,
         DescsAgreeBut(of, og, p, fd)
  PROVE  Change(Cardinality(Descs(of, f)), Cardinality(Descs(og, f)),
                One(of[p][fd] = f), One(og[p][fd] = f))
<1> DEFINE x == <<p, fd>>
<1>1. Descs(of, f) \ {x} = Descs(og, f) \ {x}
  BY SMT DEF Descs, DescsAgreeBut
<1>2. /\ x \in Descs(of, f) <=> of[p][fd] = f
      /\ x \in Descs(og, f) <=> og[p][fd] = f
  BY DEF Descs
<1>3. IsFiniteSet(Descs(of, f)) /\ IsFiniteSet(Descs(og, f))
  BY Counts
<1> HIDE DEF x
<1>4. Cardinality(Descs(og, f)) = Cardinality(Descs(of, f)) 
        + One(x \in Descs(og, f)) - One(x \in Descs(of, f))
  BY <1>1, <1>3, SetChange
<1> QED
  BY <1>2, <1>4 DEF One, Change
-----------------------------------------------------------------------------
(* Records. *)

\* The fields of a cache entry.
LEMMA EntryFields ==
  ASSUME NEW r \in Entry
  PROVE  /\ r.inum \in Inums \cup {None} /\ r.ref \in Nat /\ r.valid \in BOOLEAN
         /\ r.type \in Types /\ r.nlink \in Int /\ r.lock \in Procs \cup {"none"}
BY DEF Entry

\* The fields of a call's locals.
LEMMA LocalFields ==
  ASSUME NEW l \in Local
  PROVE  /\ l.pc \in Points \cup Putters /\ l.call \in Calls \cup {NoCall}
         /\ l.rest \in Paths \cup {<<>>} /\ l.at \in Pointers /\ l.dp \in Pointers
         /\ l.ip \in Pointers /\ l.put \in Pointers /\ l.then \in Points
BY DEF Local

\* Slots and inode numbers are numbers, and the root is an inode.
LEMMA Numbers ==
  /\ Slots \subseteq Nat \ {0} /\ Inums \subseteq Nat \ {0} /\ Files \subseteq Nat \ {0}
  /\ None \notin Slots /\ None \notin Inums /\ None \notin Files
  /\ ROOTINO \in Inums /\ 1 \in Slots
<1>1. NINODES \in Nat \ {0} /\ NINODE \in Nat \ {0} /\ NFILE \in Nat
  BY InodeAssumption
<1> QED
  BY <1>1, SMT DEF Slots, Inums, Files, None, ROOTINO

\* The first of some numbers.
LEMMA MinIn ==
  ASSUME NEW S, S \subseteq Nat, S # {}
  PROVE  Min(S) \in S
<1>2. PICK x \in S : \A y \in S : ~(<<y, x>> \in OpToRel(<, Nat))
  BY NatLessThanWellFounded, WFMin
<1>3. \A y \in S : x <= y
  <2> SUFFICES ASSUME NEW y \in S PROVE x <= y
    OBVIOUS
  <2>1. x \in Nat /\ y \in Nat
    OBVIOUS
  <2>2. ~(y < x)
    BY <1>2, <2>1 DEF OpToRel
  <2> QED
    BY <2>1, <2>2, SMT
<1> QED
  BY <1>3 DEF Min

\* A cache entry that is not read yet.
Fresh(i, n) == [Unread EXCEPT !.inum = i, !.ref = n]

\* The entry iget() makes for an inode that was not cached.
LEMMA UnreadFields ==
  ASSUME NEW i \in Inums \cup {None}, NEW n \in Nat
  PROVE  /\ Fresh(i, n) \in Entry /\ Fresh(i, n).inum = i /\ Fresh(i, n).ref = n
         /\ Fresh(i, n).valid = FALSE /\ Fresh(i, n).lock = "none"
         /\ Fresh(i, n).type = "free" /\ Fresh(i, n).nlink = 0
<1>1. 0 \in Nat /\ 0 \in Int
  BY SMT
<1> QED
  BY <1>1 DEF Unread, Entry, Types, None, Fresh

\* An empty entry.
LEMMA UnreadIn == /\ Unread \in Entry /\ Unread.inum = None /\ Unread.ref = 0
                  /\ Unread.valid = FALSE /\ Unread.lock = "none"
<1>1. 0 \in Nat /\ 0 \in Int
  BY SMT
<1> QED
  BY <1>1 DEF Unread, Entry, Types, None

\* One more reference to a cache entry.
LEMMA RefSet ==
  ASSUME NEW r \in Entry, NEW n \in Nat
  PROVE  LET u == [r EXCEPT !.ref = n]
         IN  /\ u \in Entry /\ u.inum = r.inum /\ u.ref = n /\ u.valid = r.valid
             /\ u.type = r.type /\ u.nlink = r.nlink /\ u.lock = r.lock
BY DEF Entry

\* ip->lock changes.
LEMMA LockSet ==
  ASSUME NEW r \in Entry, NEW k \in Procs \cup {"none"}
  PROVE  LET u == [r EXCEPT !.lock = k]
         IN  /\ u \in Entry /\ u.inum = r.inum /\ u.ref = r.ref /\ u.valid = r.valid
             /\ u.type = r.type /\ u.nlink = r.nlink /\ u.lock = k
BY DEF Entry

\* ip->nlink changes.
LEMMA NlinkSet ==
  ASSUME NEW r \in Entry, NEW n \in Int
  PROVE  LET u == [r EXCEPT !.nlink = n]
         IN  /\ u \in Entry /\ u.inum = r.inum /\ u.ref = r.ref /\ u.valid = r.valid
             /\ u.type = r.type /\ u.nlink = n /\ u.lock = r.lock
BY DEF Entry

-----------------------------------------------------------------------------
(* The inode cache. *)

\* Nothing is cached or given up.
SameRefs(c, d) == \A s \in Slots : d[s].ref = c[s].ref /\ d[s].inum = c[s].inum

\* Slot n of cache c gets one more reference, for inode i.
Gets(c, d, n, i) ==
  /\ n \in Slots /\ d[n].ref = c[n].ref + 1 /\ d[n].inum = i
  /\ c[n].ref > 0 => c[n].inum = i
  /\ c[n].ref = 0 => \A s \in Slots : c[s].inum # i
  /\ \A s \in Slots \ {n} : d[s].ref = c[s].ref /\ d[s].inum = c[s].inum

CacheOK(c) == /\ c \in [Slots -> Entry]
              /\ \A s \in Slots : c[s].ref = 0 <=> c[s].inum = None
              /\ \E s \in Slots : c[s].inum = ROOTINO

\* What iget() returns.
LEMMA SlotForFinds ==
  ASSUME NEW c, CacheOK(c), NEW i \in Inums
  PROVE  /\ \/ SlotFor(c, i) = None
            \/ /\ SlotFor(c, i) \in Slots
               /\ c[SlotFor(c, i)].ref > 0 => c[SlotFor(c, i)].inum = i
               /\ c[SlotFor(c, i)].ref = 0 => \A s \in Slots : c[s].inum # i
         /\ \A s \in Slots : c[s].inum = i => 
              SlotFor(c, i) \in Slots /\ c[SlotFor(c, i)].ref > 0
<1> DEFINE have == {s \in Slots : c[s].ref > 0 /\ c[s].inum = i}
           empty == {s \in Slots : c[s].ref = 0}
<1>1. have \subseteq Nat /\ empty \subseteq Nat
  BY Numbers
<1>2. SlotFor(c, i) = IF have # {} THEN Min(have)
                      ELSE IF empty # {} THEN Min(empty) ELSE None
  BY DEF SlotFor
<1>3. have # {} => Min(have) \in have
  BY <1>1, MinIn
<1>4. empty # {} => Min(empty) \in empty
  BY <1>1, MinIn
<1>5. \A s \in Slots : c[s].inum = i => s \in have
  <2> SUFFICES ASSUME NEW s \in Slots, c[s].inum = i PROVE s \in have
    OBVIOUS
  <2>1. c[s].ref \in Nat /\ c[s].ref # 0
    BY Numbers, EntryFields DEF CacheOK
  <2> QED
    BY <2>1, SMT
<1>6. CASE have # {}
  <2>1. SlotFor(c, i) \in have
    BY <1>2, <1>3, <1>6
  <2>2. \A s \in have : s \in Slots /\ c[s].ref > 0 /\ c[s].ref # 0 /\ c[s].inum = i
    BY SMT
  <2> QED
    BY <2>1, <2>2
<1>7. CASE have = {} /\ empty # {}
  <2>1. SlotFor(c, i) \in empty
    BY <1>2, <1>4, <1>7
  <2>2. \A s \in empty : s \in Slots /\ ~(c[s].ref > 0) /\ c[s].ref = 0
    BY SMT
  <2> QED
    BY <1>5, <1>7, <2>1, <2>2
<1>8. CASE have = {} /\ empty = {}
  BY <1>2, <1>5, <1>8
<1> QED
  BY <1>6, <1>7, <1>8

\* iget().
LEMMA IgetGets ==
  ASSUME NEW c, CacheOK(c), NEW i \in Inums, SlotFor(c, i) # None
  PROVE  LET n == SlotFor(c, i)
             d == iget(c, i)
         IN  /\ CacheOK(d) /\ Gets(c, d, n, i)
             /\ \A s \in Slots \ {n} : d[s] = c[s]
             /\ c[n].ref > 0 => d[n] = [c[n] EXCEPT !.ref = @ + 1]
             /\ c[n].ref = 0 => d[n] = Fresh(i, 1)
<1> DEFINE n == SlotFor(c, i)
           d == iget(c, i)
<1>1. /\ n \in Slots /\ (c[n].ref > 0 => c[n].inum = i)
      /\ c[n].ref = 0 => \A s \in Slots : c[s].inum # i
  BY SlotForFinds
<1>2. c[n] \in Entry /\ c[n].ref \in Nat /\ c \in [Slots -> Entry]
  BY <1>1, EntryFields DEF CacheOK
<1>3. d = IF c[n].ref > 0 THEN [c EXCEPT ![n].ref = @ + 1]
          ELSE [c EXCEPT ![n] = [Unread EXCEPT !.inum = i, !.ref = 1]]
  BY DEF iget
<1>4. c[n].ref + 1 \in Nat /\ 1 \in Nat /\ c[n].ref + 1 # 0 /\ 1 # 0 /\ 1 = 0 + 1
      /\ (c[n].ref > 0 <=> c[n].ref # 0)
  BY <1>2, SMT
<1> HIDE DEF n, d
<1>5. CASE c[n].ref > 0
  <2>1. d = [c EXCEPT ![n] = [c[n] EXCEPT !.ref = c[n].ref + 1]]
    BY <1>2, <1>3, <1>5
  <2>2. /\ [c[n] EXCEPT !.ref = c[n].ref + 1] \in Entry
        /\ [c[n] EXCEPT !.ref = c[n].ref + 1].ref = c[n].ref + 1
        /\ [c[n] EXCEPT !.ref = c[n].ref + 1].inum = c[n].inum
    BY <1>2, <1>4, RefSet
  <2>3. d \in [Slots -> Entry] /\ d[n] = [c[n] EXCEPT !.ref = c[n].ref + 1]
        /\ \A s \in Slots \ {n} : d[s] = c[s]
    BY <1>1, <1>2, <2>1, <2>2
  <2>4. CacheOK(d)
    BY <1>1, <1>4, <1>5, <2>2, <2>3, Numbers DEF CacheOK
  <2>5. Gets(c, d, n, i)
    BY <1>1, <1>4, <1>5, <2>2, <2>3 DEF Gets
  <2> QED
    BY <1>4, <1>5, <2>3, <2>4, <2>5 DEF n, d
<1>6. CASE ~(c[n].ref > 0)
  <2>1. d = [c EXCEPT ![n] = Fresh(i, 1)]
    BY <1>3, <1>6 DEF Fresh
  <2>2. Fresh(i, 1) \in Entry /\ Fresh(i, 1).inum = i /\ Fresh(i, 1).ref = 1
    <3>1. i \in Inums \cup {None}
      OBVIOUS
    <3> QED
      BY <1>4, <3>1, UnreadFields
  <2>3. /\ d \in [Slots -> Entry] /\ d[n] = Fresh(i, 1)
        /\ \A s \in Slots \ {n} : d[s] = c[s]
    BY <1>1, <1>2, <2>1, <2>2
  <2>4. i # None /\ c[n].ref = 0 /\ c[n].inum = None
    BY <1>1, <1>4, <1>6, Numbers DEF CacheOK
  <2>5. CacheOK(d)
    <3>1. \E s \in Slots : d[s].inum = ROOTINO
      BY <1>1, <2>3, <2>4, Numbers DEF CacheOK
    <3> QED
      BY <1>4, <2>2, <2>3, <2>4, <3>1 DEF CacheOK
  <2>6. Gets(c, d, n, i)
    BY <1>1, <1>4, <2>2, <2>3, <2>4 DEF Gets
  <2> QED
    BY <1>6, <2>3, <2>4, <2>5, <2>6 DEF n, d
<1> QED
  BY <1>5, <1>6
-----------------------------------------------------------------------------
(* Steps that keep the counts. *)

\* The pointers to slot s that are to be counted.
RefSum(ft, pr, cw, c, s) ==
  Cardinality(FilesAt(ft, s)) + Cardinality(VarsAt(pr, s))
    + Cardinality(CwdsAt(cw, s)) + One(c[s].inum = ROOTINO)

\* RefsExact, in terms of RefSum.
LEMMA RefsAre ==
  /\ RefsExact <=> \A s \in Slots : icache[s].ref = RefSum(ftable, proc, cwd, icache, s)
  /\ RefsExact' <=> \A s \in Slots :
       icache'[s].ref = RefSum(ftable', proc', cwd', icache', s)
BY DEF RefsExact, RefSum, FilesAt, VarsAt, CwdsAt, One, Vars

\* The effect of a step of p on the pointers, file f apart.
LEMMA SumStep ==
  ASSUME Typed, NEW p \in Procs, NEW s \in Slots,
         AgreeBut(proc, proc', Procs, p), AgreeBut(cwd, cwd', Procs, p),
         NEW g \in Int, 
         Cardinality(FilesAt(ftable', s)) = Cardinality(FilesAt(ftable, s)) + g
  PROVE  /\ RefSum(ftable, proc, cwd, icache, s) \in Nat
         /\ RefSum(ftable', proc', cwd', icache', s) =
              RefSum(ftable, proc, cwd, icache, s) + g
                + Held(proc'[p], s) - Held(proc[p], s)
                + One(cwd'[p] = s) - One(cwd[p] = s)
                + One(icache'[s].inum = ROOTINO) - One(icache[s].inum = ROOTINO)
<1>1. Change(Cardinality(VarsAt(proc, s)), Cardinality(VarsAt(proc', s)),
             Held(proc[p], s), Held(proc'[p], s))
  BY VarsChange
<1>2. Change(Cardinality(CwdsAt(cwd, s)), Cardinality(CwdsAt(cwd', s)),
             One(cwd[p] = s), One(cwd'[p] = s))
  BY CwdsChange
<1>3. /\ Cardinality(FilesAt(ftable, s)) \in Nat /\ Cardinality(VarsAt(proc, s)) \in Nat
      /\ Cardinality(CwdsAt(cwd, s)) \in Nat
  BY Counts
<1>4. Held(proc'[p], s) \in Nat /\ Held(proc[p], s) \in Nat
  BY HeldType
<1> QED
  BY <1>1, <1>2, <1>3, <1>4, SMT DEF RefSum, One, Change

\* Every pointer of p counts.
LEMMA RefSumLeast ==
  ASSUME NEW p \in Procs, NEW s
  PROVE  RefSum(ftable, proc, cwd, icache, s) >= 
           Held(proc[p], s) + One(cwd[p] = s) + One(icache[s].inum = ROOTINO)
<1> DEFINE t == IF s = None THEN 1 ELSE None
           m == [at |-> t, dp |-> t, ip |-> t, put |-> t]
           pr == [q \in Procs |-> IF q = p THEN m ELSE proc[q]]
           cw == [q \in Procs |-> IF q = p THEN t ELSE cwd[q]]
<1>1. t # s
  BY SMT DEF None
<1>2. Held(pr[p], s) = 0 /\ One(cw[p] = s) = 0
  BY <1>1, SMT DEF Held, One
<1>3. AgreeBut(pr, proc, Procs, p) /\ AgreeBut(cw, cwd, Procs, p)
  BY DEF AgreeBut
<1> HIDE DEF pr, cw
<1>4. /\ Change(Cardinality(VarsAt(pr, s)), Cardinality(VarsAt(proc, s)),
                Held(pr[p], s), Held(proc[p], s))
      /\ Change(Cardinality(CwdsAt(cw, s)), Cardinality(CwdsAt(cwd, s)),
                One(cw[p] = s), One(cwd[p] = s))
  BY <1>3, VarsChange, CwdsChange
<1>5. /\ Cardinality(FilesAt(ftable, s)) \in Nat /\ Cardinality(VarsAt(pr, s)) \in Nat
      /\ Cardinality(CwdsAt(cw, s)) \in Nat
  BY Counts
<1>6. Held(proc[p], s) \in Nat
  BY HeldType
<1> QED
  BY <1>2, <1>4, <1>5, <1>6, SMT DEF RefSum, One, Change

\* One process goes on.
LEMMA ControlStep ==
  ASSUME Control, NEW p \in Procs, Controlled(proc'[p], cwd'[p]),
         AgreeBut(proc, proc', Procs, p), AgreeBut(cwd, cwd', Procs, p)
  PROVE  Control'
<1> SUFFICES ASSUME NEW q \in Procs PROVE Controlled(proc'[q], cwd'[q])
  BY DEF Control
<1>1. CASE q = p
  BY <1>1
<1>2. CASE q # p
  <2>1. proc'[q] = proc[q] /\ cwd'[q] = cwd[q]
    BY <1>2 DEF AgreeBut
  <2> QED
    BY <2>1 DEF Control
<1> QED
  BY <1>1, <1>2

\* From locals l and current directory d to n and e, one more reference is held,
\* to g.
Moves(l, d, n, e, g) ==
  \A s \in Slots : Held(n, s) + One(e = s) = Held(l, s) + One(d = s) + One(g = s)

\* A step of p that moves references about.
LEMMA KeepStep ==
  ASSUME RefInv, NEW p \in Procs, NEW n \in Local, icache' \in [Slots -> Entry],
         OnDisk(dinode', dir'), cwd' \in [Procs -> Pointers],
         proc' = [proc EXCEPT ![p] = n], UNCHANGED files,
         AgreeBut(cwd, cwd', Procs, p),
         Controlled(n, cwd'[p]), SameRefs(icache, icache'),
         Moves(proc[p], cwd[p], n, cwd'[p], None)
  PROVE  RefInv'
<1>1. /\ Typed /\ Control /\ Cached /\ FilesExact /\ RefsExact
      /\ ftable' = ftable /\ ofile' = ofile
  BY DEF RefInv, files
<1>0. Typed'
  BY <1>1 DEF Typed
<1>2. proc'[p] = n /\ AgreeBut(proc, proc', Procs, p)
  BY <1>1 DEF Typed, AgreeBut
<1>3. Control'
  BY <1>1, <1>2, ControlStep
<1>4. Cached'
  BY <1>1 DEF Cached, SameRefs
<1>5. FilesExact'
  BY <1>1 DEF FilesExact
<1>6. RefsExact'
  <2> SUFFICES ASSUME NEW s \in Slots
               PROVE  icache'[s].ref = RefSum(ftable', proc', cwd', icache', s)
    BY RefsAre
  <2>1. icache[s].ref = RefSum(ftable, proc, cwd, icache, s)
    BY <1>1, RefsAre
  <2>2. Cardinality(FilesAt(ftable', s)) = Cardinality(FilesAt(ftable, s)) + 0
        /\ 0 \in Int
    <3>1. Cardinality(FilesAt(ftable, s)) \in Nat
      BY Counts
    <3> QED
      BY <1>1, <3>1, SMT
  <2>3. /\ RefSum(ftable, proc, cwd, icache, s) \in Nat
        /\ RefSum(ftable', proc', cwd', icache', s) =
              RefSum(ftable, proc, cwd, icache, s) + 0
                + Held(proc'[p], s) - Held(proc[p], s)
                + One(cwd'[p] = s) - One(cwd[p] = s)
                + One(icache'[s].inum = ROOTINO) - One(icache[s].inum = ROOTINO)
    BY <1>1, <1>2, <2>2, SumStep
  <2>4. icache'[s].ref = icache[s].ref /\ icache'[s].inum = icache[s].inum
    BY DEF SameRefs
  <2>5. Held(n, s) \in Nat /\ Held(proc[p], s) \in Nat
    BY HeldType
  <2>6. None # s /\ Held(n, s) + One(cwd'[p] = s) =
                    Held(proc[p], s) + One(cwd[p] = s) + One(None = s)
    BY Numbers DEF Moves
  <2> QED
    BY <1>2, <2>1, <2>3, <2>4, <2>5, <2>6, SMT DEF One
<1> QED
  BY <1>0, <1>3, <1>4, <1>5, <1>6 DEF RefInv

\* A step of p that takes a reference to slot g.
LEMMA GetStep ==
  ASSUME RefInv, NEW p \in Procs, NEW n \in Local, icache' \in [Slots -> Entry],
         OnDisk(dinode', dir'), cwd' \in [Procs -> Pointers],
         proc' = [proc EXCEPT ![p] = n], UNCHANGED files,
         AgreeBut(cwd, cwd', Procs, p),
         Controlled(n, cwd'[p]), 
         NEW g \in Slots, NEW i \in Inums, Gets(icache, icache', g, i),
         Moves(proc[p], cwd[p], n, cwd'[p], g)
  PROVE  RefInv'
<1>1. /\ Typed /\ Control /\ Cached /\ FilesExact /\ RefsExact
      /\ ftable' = ftable /\ ofile' = ofile
  BY DEF RefInv, files
<1>0. Typed'
  BY <1>1 DEF Typed
<1>2. proc'[p] = n /\ AgreeBut(proc, proc', Procs, p)
  BY <1>1 DEF Typed, AgreeBut
<1>3. Control'
  BY <1>1, <1>2, ControlStep
<1>4. \A s \in Slots : icache[s].ref \in Nat /\ icache'[s].ref \in Nat
  BY <1>0, <1>1, EntryFields DEF Typed
<1>5. Cached'
  <2>1. icache'[g].ref # 0 /\ icache'[g].inum # None
    <3>1. icache'[g].ref = icache[g].ref + 1 /\ icache'[g].inum = i
      BY DEF Gets
    <3> QED
      BY <1>4, <3>1, Numbers, SMT
  <2>2. PICK r \in Slots : icache[r].inum = ROOTINO
    BY <1>1 DEF Cached
  <2>3. icache'[r].inum = ROOTINO
    <3>1. CASE r # g
      BY <2>2, <3>1 DEF Gets
    <3>2. CASE r = g
      <4>1. icache[g].ref # 0
        BY <1>1, <2>2, <3>2, Numbers DEF Cached
      <4>2. icache[g].ref > 0
        BY <1>4, <4>1, SMT
      <4> QED
        BY <2>2, <3>2, <4>2 DEF Gets
    <3> QED
      BY <3>1, <3>2
  <2> QED
    BY <1>1, <2>1, <2>3 DEF Cached, Gets
<1>6. FilesExact'
  BY <1>1 DEF FilesExact
<1>7. RefsExact'
  <2> SUFFICES ASSUME NEW s \in Slots
               PROVE  icache'[s].ref = RefSum(ftable', proc', cwd', icache', s)
    BY RefsAre
  <2>1. icache[s].ref = RefSum(ftable, proc, cwd, icache, s)
    BY <1>1, RefsAre
  <2>2. Cardinality(FilesAt(ftable', s)) = Cardinality(FilesAt(ftable, s)) + 0
        /\ 0 \in Int
    <3>1. Cardinality(FilesAt(ftable, s)) \in Nat
      BY Counts
    <3> QED
      BY <1>1, <3>1, SMT
  <2>3. /\ RefSum(ftable, proc, cwd, icache, s) \in Nat
        /\ RefSum(ftable', proc', cwd', icache', s) =
              RefSum(ftable, proc, cwd, icache, s) + 0
                + Held(proc'[p], s) - Held(proc[p], s)
                + One(cwd'[p] = s) - One(cwd[p] = s)
                + One(icache'[s].inum = ROOTINO) - One(icache[s].inum = ROOTINO)
    BY <1>1, <1>2, <2>2, SumStep
  <2>4. /\ icache'[s].ref = icache[s].ref + One(g = s)
        /\ icache'[s].inum = ROOTINO <=> icache[s].inum = ROOTINO
    <3>1. CASE s # g
      <4>1. icache'[s].ref = icache[s].ref /\ icache'[s].inum = icache[s].inum
        BY <3>1 DEF Gets
      <4> QED
        BY <1>4, <3>1, <4>1, SMT DEF One
    <3>2. CASE s = g
      <4>1. icache'[s].ref = icache[s].ref + 1
        BY <3>2 DEF Gets
      <4>2. CASE icache[s].ref > 0
        <5>1. icache'[s].inum = icache[s].inum
          BY <3>2, <4>2 DEF Gets
        <5> QED
          BY <3>2, <4>1, <5>1 DEF One
      <4>3. CASE ~(icache[s].ref > 0)
        <5>1. icache[s].ref = 0
          BY <1>4, <4>3, SMT
        <5>2. icache[s].inum = None /\ i # ROOTINO
          BY <1>1, <3>2, <5>1 DEF Cached, Gets
        <5> QED
          BY <3>2, <4>1, <5>2, Numbers DEF One, Gets
      <4> QED
        BY <4>2, <4>3
    <3> QED
      BY <3>1, <3>2
  <2>5. Held(n, s) \in Nat /\ Held(proc[p], s) \in Nat
    BY HeldType
  <2>6. Held(n, s) + One(cwd'[p] = s) =
          Held(proc[p], s) + One(cwd[p] = s) + One(g = s)
    BY DEF Moves
  <2> QED
    BY <1>2, <2>1, <2>3, <2>4, <2>5, <2>6, SMT DEF One
<1> QED
  BY <1>0, <1>3, <1>5, <1>6, <1>7 DEF RefInv

\* A step of p that drops its reference to slot g.
LEMMA DropStep ==
  ASSUME RefInv, NEW p \in Procs, NEW n \in Local, icache' \in [Slots -> Entry],
         UNCHANGED <<dinode, dir, files, cwd>>,
         proc' = [proc EXCEPT ![p] = n], Controlled(n, cwd[p]), 
         NEW g \in Slots, Moves(n, cwd[p], proc[p], cwd[p], g),
         \A s \in Slots \ {g} : icache'[s] = icache[s],
         icache[g].ref = 1 => icache'[g] = Unread,
         icache[g].ref # 1 => /\ icache'[g].ref = icache[g].ref - 1
                              /\ icache'[g].inum = icache[g].inum
  PROVE  RefInv'
<1>1. /\ Typed /\ Control /\ Cached /\ FilesExact /\ RefsExact
      /\ ftable' = ftable /\ ofile' = ofile /\ cwd' = cwd
  BY DEF RefInv, files
<1>2. Typed' /\ AgreeBut(cwd, cwd', Procs, p)
  BY <1>1 DEF Typed, AgreeBut
<1>3. proc'[p] = n /\ AgreeBut(proc, proc', Procs, p)
  BY <1>1 DEF Typed, AgreeBut
<1>4. Control'
  BY <1>1, <1>2, <1>3, ControlStep
<1>5. FilesExact'
  BY <1>1 DEF FilesExact
<1>6. \A s \in Slots : icache[s].ref \in Nat /\ icache'[s].ref \in Nat
  BY <1>1, EntryFields DEF Typed
<1>7. ASSUME NEW s \in Slots
      PROVE  /\ icache[s].ref = RefSum(ftable, proc, cwd, icache, s)
             /\ RefSum(ftable, proc, cwd, icache, s) >= 
                  Held(proc[p], s) + One(cwd[p] = s) + One(icache[s].inum = ROOTINO)
             /\ RefSum(ftable', proc', cwd', icache', s) =
                  RefSum(ftable, proc, cwd, icache, s) + 0
                    + Held(proc'[p], s) - Held(proc[p], s)
                    + One(cwd'[p] = s) - One(cwd[p] = s)
                    + One(icache'[s].inum = ROOTINO) - One(icache[s].inum = ROOTINO)
  <2>1. icache[s].ref = RefSum(ftable, proc, cwd, icache, s)
    BY <1>1, RefsAre
  <2>2. Cardinality(FilesAt(ftable', s)) = Cardinality(FilesAt(ftable, s)) + 0
        /\ 0 \in Int
    <3>1. Cardinality(FilesAt(ftable, s)) \in Nat
      BY Counts
    <3> QED
      BY <1>1, <3>1, SMT
  <2>3. RefSum(ftable', proc', cwd', icache', s) =
              RefSum(ftable, proc, cwd, icache, s) + 0
                + Held(proc'[p], s) - Held(proc[p], s)
                + One(cwd'[p] = s) - One(cwd[p] = s)
                + One(icache'[s].inum = ROOTINO) - One(icache[s].inum = ROOTINO)
    BY <1>1, <1>2, <1>3, <2>2, SumStep
  <2>4. RefSum(ftable, proc, cwd, icache, s) >= 
          Held(proc[p], s) + One(cwd[p] = s) + One(icache[s].inum = ROOTINO)
    BY <1>1, RefSumLeast
  <2> QED
    BY <2>1, <2>3, <2>4
<1>8. Held(proc[p], g) + One(cwd[p] = g) >= 1
  <2>1. Held(n, g) \in Nat
    BY HeldType
  <2> QED
    BY <2>1, SMT DEF Moves, One
<1>9. icache[g].ref = 1 => icache[g].inum # ROOTINO
  <2>1. icache[g].ref >= Held(proc[p], g) + One(cwd[p] = g) + One(icache[g].inum = ROOTINO)
    BY <1>7
  <2>2. Held(proc[p], g) \in Nat
    BY HeldType
  <2> QED
    BY <1>8, <2>1, <2>2, SMT DEF One
<1>10. /\ icache[g].ref # 0
       /\ icache[g].ref = 1 => icache'[g].ref = 0 /\ icache'[g].inum = None
       /\ icache[g].ref # 1 => icache'[g].ref # 0
       /\ icache'[g].ref = icache[g].ref - 1
       /\ (icache'[g].inum = ROOTINO) <=> (icache[g].inum = ROOTINO)
  <2>1. icache[g].ref # 0
    <3>1. icache[g].ref >= Held(proc[p], g) + One(cwd[p] = g) + One(icache[g].inum = ROOTINO)
      BY <1>7
    <3>2. Held(proc[p], g) \in Nat
      BY HeldType
    <3> QED
      BY <1>8, <3>1, <3>2, SMT DEF One
  <2>2. icache[g].ref = 1 => icache'[g].ref = 0 /\ icache'[g].inum = None
    BY UnreadIn
  <2>3. icache[g].ref # 1 => icache'[g].ref # 0
    BY <1>6, <2>1, SMT
  <2>4. icache'[g].ref = icache[g].ref - 1
    BY <1>6, <2>2, SMT
  <2>5. (icache'[g].inum = ROOTINO) <=> (icache[g].inum = ROOTINO)
    BY <1>9, <2>2, Numbers
  <2> QED
    BY <2>1, <2>2, <2>3, <2>4, <2>5
<1>11. Cached'
  <2>1. PICK r \in Slots : icache[r].inum = ROOTINO
    BY <1>1 DEF Cached
  <2>2. icache'[r].inum = ROOTINO
    BY <1>10, <2>1
  <2> QED
    BY <1>1, <1>10, <2>2 DEF Cached
<1>12. RefsExact'
  <2> SUFFICES ASSUME NEW s \in Slots
               PROVE  icache'[s].ref = RefSum(ftable', proc', cwd', icache', s)
    BY RefsAre
  <2>1. /\ icache'[s].ref = icache[s].ref - One(g = s)
        /\ (icache'[s].inum = ROOTINO) <=> (icache[s].inum = ROOTINO)
    <3>1. CASE s = g
      BY <1>10, <3>1 DEF One
    <3>2. CASE s # g
      <4>1. icache'[s] = icache[s]
        BY <3>2
      <4> QED
        BY <1>6, <3>2, <4>1, SMT DEF One
    <3> QED
      BY <3>1, <3>2
  <2>2. Held(n, s) \in Nat /\ Held(proc[p], s) \in Nat
    BY HeldType
  <2>3. Held(proc[p], s) + One(cwd[p] = s) = Held(n, s) + One(cwd[p] = s) + One(g = s)
    BY DEF Moves
  <2>4. /\ icache[s].ref = RefSum(ftable, proc, cwd, icache, s)
        /\ RefSum(ftable', proc', cwd', icache', s) =
              RefSum(ftable, proc, cwd, icache, s) + 0
                + Held(proc'[p], s) - Held(proc[p], s)
                + One(cwd'[p] = s) - One(cwd[p] = s)
                + One(icache'[s].inum = ROOTINO) - One(icache[s].inum = ROOTINO)
    BY <1>7
  <2> QED
    BY <1>1, <1>3, <1>6, <2>1, <2>2, <2>3, <2>4, SMT DEF One
<1> QED
  BY <1>2, <1>4, <1>5, <1>11, <1>12 DEF RefInv

\* A call and a file go from locals l and entry e to n and d: what one of them
\* gives up the other takes.
Hands(l, e, n, d) ==
  \A s \in Slots : Held(n, s) + FileAt(d, s) = Held(l, s) + FileAt(e, s)

\* A step of p that changes its descriptor fd and file f, and hands references
\* over to f or takes them back.
LEMMA FileStep ==
  ASSUME RefInv, NEW p \in Procs, NEW n \in Local, icache' \in [Slots -> Entry],
         UNCHANGED <<dinode, dir, cwd>>, SameRefs(icache, icache'),
         proc' = [proc EXCEPT ![p] = n], Controlled(n, cwd[p]), 
         NEW f \in Files, NEW e \in [ref : Nat, ip : Pointers],
         NEW fd \in Fds, NEW v \in {f, None}, ofile[p][fd] \in {f, None},
         ftable' = [ftable EXCEPT ![f] = e],
         ofile' = [ofile EXCEPT ![p][fd] = v],
         e.ref > 0 => e.ip # None,
         Change(ftable[f].ref, e.ref, One(ofile[p][fd] = f), One(v = f)),
         Hands(proc[p], ftable[f], n, e)
  PROVE  RefInv'
<1>1. Typed /\ Control /\ Cached /\ FilesExact /\ RefsExact /\ cwd' = cwd
  BY DEF RefInv
<1>2. ofile' \in [Procs -> [Fds -> Files \cup {None}]]
  BY <1>1 DEF Typed
<1>3. Typed' /\ AgreeBut(cwd, cwd', Procs, p)
  BY <1>1, <1>2 DEF Typed, AgreeBut
<1>4. proc'[p] = n /\ AgreeBut(proc, proc', Procs, p)
  BY <1>1 DEF Typed, AgreeBut
<1>5. Control'
  BY <1>1, <1>3, <1>4, ControlStep
<1>6. Cached'
  BY <1>1 DEF Cached, SameRefs
<1>7. /\ ftable'[f] = e /\ AgreeBut(ftable, ftable', Files, f)
      /\ \A g \in Files : ftable[g].ref \in Nat /\ ftable'[g].ref \in Nat
  BY <1>1, <1>3 DEF Typed, AgreeBut
<1>8. ofile'[p][fd] = v /\ DescsAgreeBut(ofile, ofile', p, fd)
  BY <1>1 DEF Typed, DescsAgreeBut
<1>9. FilesExact'
  <2> SUFFICES ASSUME NEW g \in Files
               PROVE  /\ ftable'[g].ref = Cardinality(Descs(ofile', g))
                      /\ ftable'[g].ref > 0 => ftable'[g].ip # None
    BY DEF FilesExact
  <2>1. Change(Cardinality(Descs(ofile, g)), Cardinality(Descs(ofile', g)),
               One(ofile[p][fd] = g), One(v = g))
    <3>1. Change(Cardinality(Descs(ofile, g)), Cardinality(Descs(ofile', g)),
                 One(ofile[p][fd] = g), One(ofile'[p][fd] = g))
      BY <1>8, DescsChange
    <3> QED
      BY <1>8, <3>1
  <2>2. ftable[g].ref = Cardinality(Descs(ofile, g)) /\ (ftable[g].ref > 0 => ftable[g].ip # None)
    BY <1>1 DEF FilesExact
  <2>3. CASE g = f
    BY <1>7, <2>1, <2>2, <2>3 DEF Change
  <2>4. CASE g # f
    <3>1. ftable'[g] = ftable[g]
      BY <1>7, <2>4 DEF AgreeBut
    <3>2. One(v = g) = 0 /\ One(ofile[p][fd] = g) = 0
      <4>1. g # None
        BY Numbers
      <4>2. v # g /\ ofile[p][fd] # g
        BY <2>4, <4>1
      <4> QED
        BY <4>2 DEF One
    <3>3. ftable[g].ref + 0 - 0 = ftable[g].ref
      BY <1>7, SMT
    <3> QED
      BY <2>1, <2>2, <3>1, <3>2, <3>3 DEF Change
  <2> QED
    BY <2>3, <2>4
<1>10. RefsExact'
  <2> SUFFICES ASSUME NEW s \in Slots
               PROVE  icache'[s].ref = RefSum(ftable', proc', cwd', icache', s)
    BY RefsAre
  <2> DEFINE d == FileAt(e, s) - FileAt(ftable[f], s)
  <2>1. icache[s].ref = RefSum(ftable, proc, cwd, icache, s)
    BY <1>1, RefsAre
  <2>2. Change(Cardinality(FilesAt(ftable, s)), Cardinality(FilesAt(ftable', s)), 
               FileAt(ftable[f], s), FileAt(ftable'[f], s))
    BY <1>7, FilesChange
  <2>3. Cardinality(FilesAt(ftable', s)) = Cardinality(FilesAt(ftable, s)) + d
        /\ d \in Int
    <3>1. Cardinality(FilesAt(ftable, s)) \in Nat
      BY Counts
    <3>2. FileAt(e, s) \in Nat /\ FileAt(ftable[f], s) \in Nat
      BY SMT DEF FileAt, One
    <3> QED
      BY <1>7, <2>2, <3>1, <3>2, SMT DEF Change
  <2> HIDE DEF d
  <2>4. /\ RefSum(ftable, proc, cwd, icache, s) \in Nat
        /\ RefSum(ftable', proc', cwd', icache', s) =
              RefSum(ftable, proc, cwd, icache, s) + d
                + Held(proc'[p], s) - Held(proc[p], s)
                + One(cwd'[p] = s) - One(cwd[p] = s)
                + One(icache'[s].inum = ROOTINO) - One(icache[s].inum = ROOTINO)
    BY <1>1, <1>3, <1>4, <2>3, SumStep
  <2>5. icache'[s].ref = icache[s].ref /\ icache'[s].inum = icache[s].inum
    BY DEF SameRefs
  <2>6. /\ Held(n, s) \in Nat /\ Held(proc[p], s) \in Nat
        /\ FileAt(e, s) \in Nat /\ FileAt(ftable[f], s) \in Nat
    <3>1. FileAt(e, s) \in Nat /\ FileAt(ftable[f], s) \in Nat
      BY SMT DEF FileAt, One
    <3> QED
      BY <3>1, HeldType
  <2>7. Held(n, s) + FileAt(e, s) = Held(proc[p], s) + FileAt(ftable[f], s)
    BY DEF Hands
  <2> QED
    BY <1>1, <1>4, <2>1, <2>4, <2>5, <2>6, <2>7, SMT DEF One, d
<1> QED
  BY <1>3, <1>5, <1>6, <1>9, <1>10 DEF RefInv

\* A panic changes nothing.
LEMMA PanicStep ==
  ASSUME RefInv, NEW f, Panic(f)
  PROVE  RefInv'
<1>1. UNCHANGED <<dinode, dir, icache, ftable, ofile, cwd, proc>>
  BY DEF Panic, files
<1> QED
  BY <1>1 DEF RefInv, Typed, Control, Cached, FilesExact, RefsExact
-----------------------------------------------------------------------------
(* What a call may rely on. *)

\* The inodes of a call are in the cache.
LEMMA HeldCached ==
  ASSUME RefInv, NEW p \in Procs, NEW s \in Slots,
         \/ proc[p].at = s \/ proc[p].dp = s \/ proc[p].ip = s \/ proc[p].put = s
         \/ cwd[p] = s
  PROVE  /\ icache[s] \in Entry /\ icache[s].ref \in Nat /\ icache[s].ref > 0
         /\ icache[s].inum \in Inums /\ icache[s].inum # None
<1>1. Typed /\ Cached /\ RefsExact
  BY DEF RefInv
<1>2. icache[s] \in Entry
  BY <1>1 DEF Typed
<1>3. icache[s].ref \in Nat /\ icache[s].inum \in Inums \cup {None}
  BY <1>2, EntryFields
<1>4. icache[s].ref >= 
           Held(proc[p], s) + One(cwd[p] = s) + One(icache[s].inum = ROOTINO)
  <2>1. icache[s].ref = RefSum(ftable, proc, cwd, icache, s)
    BY <1>1, RefsAre
  <2>2. RefSum(ftable, proc, cwd, icache, s) >=
          Held(proc[p], s) + One(cwd[p] = s) + One(icache[s].inum = ROOTINO)
    BY RefSumLeast
  <2> QED
    BY <2>1, <2>2
<1>5. Held(proc[p], s) \in Nat /\ (cwd[p] = s \/ Held(proc[p], s) > 0)
  BY HeldType
<1>6. icache[s].ref > 0 /\ icache[s].ref # 0
  BY <1>3, <1>4, <1>5, SMT DEF One
<1> QED
  BY <1>1, <1>2, <1>3, <1>6 DEF Cached

\* An open file's inode is in the cache.
LEMMA FileCached ==
  ASSUME RefInv, NEW f \in Files, ftable[f].ref > 0
  PROVE  /\ ftable[f].ip \in Slots /\ icache[ftable[f].ip].ref > 0
         /\ icache[ftable[f].ip].inum \in Inums
<1> DEFINE s == ftable[f].ip
<1>1. Typed /\ Cached /\ RefsExact /\ FilesExact
  BY DEF RefInv
<1>2. s \in Slots
  BY <1>1 DEF Typed, FilesExact, Pointers
<1>3. icache[s] \in Entry
  BY <1>1, <1>2 DEF Typed
<1>4. icache[s].ref \in Nat /\ icache[s].inum \in Inums \cup {None}
  BY <1>3, EntryFields
<1>5. icache[s].ref = RefSum(ftable, proc, cwd, icache, s)
  BY <1>1, <1>2, RefsAre
<1>6. Cardinality(FilesAt(ftable, s)) # 0
  <2>1. f \in FilesAt(ftable, s)
    BY DEF FilesAt
  <2> QED
    BY <2>1, Counts, FS_EmptySet
<1>7. /\ Cardinality(FilesAt(ftable, s)) \in Nat /\ Cardinality(VarsAt(proc, s)) \in Nat
      /\ Cardinality(CwdsAt(cwd, s)) \in Nat
  BY Counts
<1> HIDE DEF s
<1>8. icache[s].ref > 0 /\ icache[s].ref # 0
  BY <1>4, <1>5, <1>6, <1>7, SMT DEF RefSum, One
<1> QED
  BY <1>1, <1>2, <1>4, <1>8 DEF Cached, s

\* ilock(), with iunlock() and without.
LEMMA IlockReads ==
  ASSUME Typed, NEW p \in Procs, NEW s \in Slots, icache[s].inum # None
  PROVE  /\ ilock(p, s) \in Entry /\ ilock(p, s).inum = icache[s].inum
         /\ ilock(p, s).ref = icache[s].ref /\ ilock(p, s).valid = TRUE
         /\ ilock(p, s).lock = p
         /\ ilock(p, s).type = (IF icache[s].valid THEN icache[s].type
                                ELSE dinode[icache[s].inum].type)
         /\ ilock(p, s).nlink = (IF icache[s].valid THEN icache[s].nlink
                                 ELSE dinode[icache[s].inum].nlink)
<1> DEFINE e == icache[s]
           r == ilock(p, s)
           type == IF e.valid THEN e.type ELSE dinode[e.inum].type
           nlink == IF e.valid THEN e.nlink ELSE dinode[e.inum].nlink
<1>1. e \in Entry
  BY DEF Typed
<1>2. e.inum \in Inums /\ e.type \in Types /\ e.nlink \in Int
  BY <1>1, EntryFields
<1>3. dinode[e.inum].type \in Types /\ dinode[e.inum].nlink \in Int
  BY <1>2 DEF Typed, OnDisk
<1>4. type \in Types /\ nlink \in Int
  BY <1>2, <1>3
<1>5. r = [e EXCEPT !.lock = p, !.valid = TRUE, !.type = type, !.nlink = nlink]
  BY <1>1 DEF ilock, Entry
<1> HIDE DEF e, type, nlink
<1>6. /\ r \in Entry /\ r.inum = e.inum /\ r.ref = e.ref /\ r.valid = TRUE
      /\ r.type = type /\ r.nlink = nlink /\ r.lock = p
  BY <1>1, <1>4, <1>5 DEF Entry
<1> QED
  BY <1>6 DEF e, r, type, nlink

\* What ilock(), with iunlock() and without, does to an entry.
LEMMA IlockEntry ==
  ASSUME Typed, NEW p \in Procs, NEW s \in Slots, icache[s].inum # None
  PROVE  /\ ilock(p, s) \in Entry /\ ilock(p, s).inum = icache[s].inum
         /\ ilock(p, s).ref = icache[s].ref /\ ilock(p, s).lock = p
         /\ ilock(p, s).valid = TRUE
         /\ Seen(p, s) \in Entry /\ Seen(p, s).inum = icache[s].inum
         /\ Seen(p, s).ref = icache[s].ref /\ Seen(p, s).lock = "none"
         /\ Seen(p, s).valid = TRUE
         /\ Seen(p, s).type = ilock(p, s).type /\ Seen(p, s).nlink = ilock(p, s).nlink
<1> DEFINE r == ilock(p, s)
           u == Seen(p, s)
<1>1. /\ r \in Entry /\ r.inum = icache[s].inum /\ r.ref = icache[s].ref
      /\ r.valid = TRUE /\ r.lock = p
  BY IlockReads
<1>2. u = [r EXCEPT !.lock = "none"]
  BY DEF Seen
<1> HIDE DEF r, u
<1>3. /\ u \in Entry /\ u.inum = r.inum /\ u.ref = r.ref /\ u.valid = TRUE
      /\ u.type = r.type /\ u.nlink = r.nlink /\ u.lock = "none"
  BY <1>1, <1>2, LockSet
<1> QED
  BY <1>1, <1>3 DEF r, u

\* An entry that stays the same inode's, with as many references.
Kept(r, e) == r \in Entry /\ r.inum = e.inum /\ r.ref = e.ref

\* ilock(), and ilock() with iunlock(), leave an entry its inode and its references.
LEMMA IlockKept ==
  ASSUME Typed, NEW p \in Procs, NEW s \in Slots, icache[s].inum # None
  PROVE  Kept(ilock(p, s), icache[s]) /\ Kept(Seen(p, s), icache[s])
BY IlockEntry DEF Kept

\* One entry of the cache is changed.
LEMMA EntrySet ==
  ASSUME NEW c \in [Slots -> Entry], NEW s \in Slots, NEW r, Kept(r, c[s])
  PROVE  LET d == [c EXCEPT ![s] = r]
         IN  /\ d \in [Slots -> Entry] /\ SameRefs(c, d) /\ d[s] = r
             /\ \A t \in Slots \ {s} : d[t] = c[t]
             /\ CacheOK(c) => CacheOK(d)
<1> DEFINE d == [c EXCEPT ![s] = r]
<1>1. d \in [Slots -> Entry] /\ d[s] = r /\ \A t \in Slots \ {s} : d[t] = c[t]
  BY DEF Kept
<1>2. SameRefs(c, d)
  BY <1>1 DEF SameRefs, Kept
<1>3. CacheOK(c) => CacheOK(d)
  BY <1>1, <1>2 DEF CacheOK, SameRefs
<1> QED
  BY <1>1, <1>2, <1>3

\* iunlock().
LEMMA Unlocks ==
  ASSUME NEW c \in [Slots -> Entry], NEW s \in Slots, NEW k \in Procs \cup {"none"}
  PROVE  LET d == [c EXCEPT ![s].lock = k]
         IN  /\ d \in [Slots -> Entry] /\ SameRefs(c, d)
             /\ d[s] = [c[s] EXCEPT !.lock = k] /\ \A t \in Slots \ {s} : d[t] = c[t]
<1> DEFINE r == [c[s] EXCEPT !.lock = k]
           d == [c EXCEPT ![s].lock = k]
<1>1. Kept(r, c[s])
  BY LockSet DEF Kept
<1>2. d = [c EXCEPT ![s] = r]
  OBVIOUS
<1> HIDE DEF r, d
<1>3. /\ d \in [Slots -> Entry] /\ SameRefs(c, d)
      /\ d[s] = r /\ \A t \in Slots \ {s} : d[t] = c[t]
  BY <1>1, <1>2, EntrySet
<1> QED
  BY <1>3 DEF d, r

\* iupdate().
LEMMA UpdateTyped ==
  ASSUME OnDisk(dinode, dir), NEW r \in Entry, r.inum \in Inums
  PROVE  OnDisk(iupdate(dinode, r), dir)
<1>1. r.type \in Types /\ r.nlink \in Int
  BY EntryFields
<1>2. [type |-> r.type, nlink |-> r.nlink] \in [type : Types, nlink : Int]
  BY <1>1
<1> QED
  BY <1>2 DEF OnDisk, iupdate

\* Descriptors are numbers.
LEMMA FdNumbers == Fds \subseteq Nat
BY InodeAssumption, SMT DEF Fds

\* iget() after a change of an entry.
LEMMA SameGets ==
  ASSUME NEW b, NEW c, NEW d, NEW n, NEW i, SameRefs(b, c), Gets(c, d, n, i)
  PROVE  Gets(b, d, n, i)
BY DEF SameRefs, Gets

\* iget() after a change of an entry that leaves references alone.
LEMMA IgetAfter ==
  ASSUME NEW c, CacheOK(c), SameRefs(icache, c), NEW i \in Inums, SlotFor(icache, i) # None
  PROVE  /\ SlotFor(c, i) \in Slots /\ SlotFor(c, i) # None
         /\ CacheOK(iget(c, i)) /\ iget(c, i) \in [Slots -> Entry]
         /\ Gets(icache, iget(c, i), SlotFor(c, i), i)
<1>1. SlotFor(c, i) # None
  BY DEF SameRefs, SlotFor
<1>2. CacheOK(iget(c, i)) /\ Gets(c, iget(c, i), SlotFor(c, i), i)
  BY <1>1, IgetGets
<1>3. Gets(icache, iget(c, i), SlotFor(c, i), i)
  BY <1>2, SameGets
<1> QED
  BY <1>1, <1>2, <1>3 DEF CacheOK, Gets

\* Where namex() starts.
LEMMA StartGets ==
  ASSUME NEW c, CacheOK(c), NEW p \in Procs, NEW call, cwd[p] \in Slots, c[cwd[p]].ref > 0
  PROVE  LET n == StartSlot(p, c, call)
             d == StartCache(p, c, call)
         IN  /\ n \in Slots /\ c[n].ref > 0 /\ c[n].inum \in Inums
             /\ CacheOK(d) /\ Gets(c, d, n, c[n].inum)
<1> DEFINE n == StartSlot(p, c, call)
           d == StartCache(p, c, call)
<1>1. CASE call.root
  <2>1. n = SlotFor(c, ROOTINO) /\ d = iget(c, ROOTINO)
    BY <1>1 DEF StartSlot, StartCache
  <2>2. ROOTINO \in Inums
    BY Numbers
  <2>3. PICK s \in Slots : c[s].inum = ROOTINO
    BY DEF CacheOK
  <2>4. SlotFor(c, ROOTINO) \in Slots /\ c[SlotFor(c, ROOTINO)].ref > 0
    BY <2>2, <2>3, SlotForFinds
  <2>5. SlotFor(c, ROOTINO) # None
    BY <2>4, Numbers
  <2>6. c[SlotFor(c, ROOTINO)].inum = ROOTINO
    BY <2>2, <2>4, <2>5, SlotForFinds
  <2> DEFINE m == SlotFor(c, ROOTINO)
             e == iget(c, ROOTINO)
  <2>7. /\ CacheOK(e) /\ Gets(c, e, m, ROOTINO)
        /\ \A t \in Slots \ {m} : e[t] = c[t]
        /\ c[m].ref > 0 => e[m] = [c[m] EXCEPT !.ref = @ + 1]
    BY <2>2, <2>5, IgetGets
  <2>8. /\ m \in Slots /\ c[m].ref > 0 /\ c[m].inum = ROOTINO /\ n = m /\ d = e
    BY <2>1, <2>4, <2>6
  <2> HIDE DEF m, e, n, d
  <2>9. /\ n \in Slots /\ c[n].ref > 0 /\ c[n].inum \in Inums
        /\ CacheOK(d) /\ Gets(c, d, n, c[n].inum)
        /\ d[n] = [c[n] EXCEPT !.ref = @ + 1]
        /\ \A x \in Slots \ {n} : d[x] = c[x]
        /\ c[n].inum = ROOTINO
    BY <2>2, <2>7, <2>8
  <2> QED
    BY <2>9 DEF n, d
<1>2. CASE ~call.root
  <2>1. n = cwd[p] /\ d = [c EXCEPT ![n].ref = @ + 1]
    BY <1>2 DEF StartSlot, StartCache
  <2>2. n \in Slots /\ c[n].ref > 0 /\ c \in [Slots -> Entry] /\ c[n] \in Entry
    BY <2>1 DEF CacheOK
  <2> HIDE DEF n, d
  <2>3. c[n].ref \in Nat /\ c[n].inum \in Inums \cup {None}
    BY <2>2, EntryFields
  <2>4. c[n].ref + 1 \in Nat /\ c[n].ref # 0 /\ c[n].ref + 1 # 0
    BY <2>2, <2>3, SMT
  <2>5. c[n].inum \in Inums /\ c[n].inum # None
    BY <2>2, <2>3, <2>4 DEF CacheOK
  <2> DEFINE r == [c[n] EXCEPT !.ref = c[n].ref + 1]
  <2>6. r \in Entry /\ r.ref = c[n].ref + 1 /\ r.inum = c[n].inum
    BY <2>2, <2>4, RefSet
  <2>7. d = [c EXCEPT ![n] = r]
    BY <2>1, <2>2
  <2> HIDE DEF r
  <2>8. d \in [Slots -> Entry] /\ d[n] = r /\ \A s \in Slots \ {n} : d[s] = c[s]
    BY <2>2, <2>6, <2>7
  <2>9. CacheOK(d)
    BY <2>2, <2>4, <2>5, <2>6, <2>8 DEF CacheOK
  <2>10. Gets(c, d, n, c[n].inum)
    BY <2>2, <2>4, <2>6, <2>8 DEF Gets
  <2> QED
    BY <1>2, <2>2, <2>5, <2>8, <2>9, <2>10 DEF n, d, r
<1> QED
  BY <1>1, <1>2

\* Paths have one or two elements.
LEMMA PathFacts ==
  ASSUME NEW w \in Paths
  PROVE  /\ Head(w) \in Names /\ (Len(w) = 1 \/ Len(w) = 2)
         /\ Len(w) = 1 => Tail(w) = <<>>
         /\ Len(w) # 1 => Tail(w) \in Paths
<1>1. PICK k \in 1..2 : w \in [1..k -> Names]
  BY DEF Paths
<1>2. k = 1 \/ k = 2
  BY <1>1, SMT
<1>3. w \in Seq(Names) /\ Len(w) = k
  BY <1>1, <1>2, SMT
<1>4. Head(w) \in Names
  BY <1>2, <1>3, SMT
<1> HIDE DEF Names
<1>5. CASE k = 1
  <2>1. w = <<w[1]>>
    BY <1>1, <1>5, SMT
  <2>2. Tail(w) = <<>>
    <3>1. \A a : Tail(<<a>>) = <<>>
      BY SMT
    <3> QED
      BY <2>1, <3>1
  <2> QED
    BY <1>3, <1>4, <1>5, <2>2
<1>6. CASE k = 2
  <2>1. Tail(w) \in [1..1 -> Names]
    <3>1. w = <<w[1], w[2]>> /\ w[2] \in Names
      BY <1>1, <1>6, SMT
    <3>2. \A a, b : Tail(<<a, b>>) = <<b>>
      BY SMT
    <3>3. \A b \in Names : <<b>> \in [1..1 -> Names]
      BY SMT
    <3>4. Tail(w) = <<w[2]>>
      BY <3>1, <3>2
    <3> QED
      BY <3>1, <3>3, <3>4
  <2>2. [1..1 -> Names] \in {[1..n -> Names] : n \in 1..2}
    BY SMT
  <2>3. Tail(w) \in Paths
    BY <2>1, <2>2 DEF Paths
  <2> QED
    BY <1>3, <1>4, <1>6, <2>3, SMT
<1> QED
  BY <1>2, <1>5, <1>6

\* What processes call.
LEMMA CallFacts ==
  ASSUME NEW c \in Calls
  PROVE  /\ c.path \in Paths /\ c.new \in Paths
         /\ c.op \in {"open", "mkdir", "mknod", "link", "unlink", "chdir"}
BY InodeAssumption DEF CallType

\* A call's locals, one by one.
Loc(n, pc, c, rest, at, dp, ip, put, then) ==
  /\ n \in Local /\ n.pc = pc /\ n.call = c /\ n.rest = rest /\ n.at = at
  /\ n.dp = dp /\ n.ip = ip /\ n.put = put /\ n.then = then

\* The locals of a call that begins to put an inode.
LEMMA PuttingLoc ==
  ASSUME NEW l \in Local, NEW t \in Points
  PROVE  /\ Loc(Putting(l, "at", t), "iput", l.call, l.rest, None, l.dp, l.ip, l.at, t)
         /\ Loc(Putting(l, "dp", t), "iput", l.call, l.rest, l.at, None, l.ip, l.dp, t)
         /\ Loc(Putting(l, "ip", t), "iput", l.call, l.rest, l.at, l.dp, None, l.ip, t)
<1>1. "iput" \in Points \cup Putters /\ None \in Pointers
  BY DEF Putters, Pointers
<1>2. l.at \in Pointers /\ l.dp \in Pointers /\ l.ip \in Pointers
  BY LocalFields
<1>3. Putting(l, "at", t) = [l EXCEPT !.pc = "iput", !.put = l.at, !.at = None, !.then = t]
  BY DEF Putting
<1>4. Putting(l, "dp", t) = [l EXCEPT !.pc = "iput", !.put = l.dp, !.dp = None, !.then = t]
  BY DEF Putting
<1>5. Putting(l, "ip", t) = [l EXCEPT !.pc = "iput", !.put = l.ip, !.ip = None, !.then = t]
  BY DEF Putting
<1>6. Loc(Putting(l, "at", t), "iput", l.call, l.rest, None, l.dp, l.ip, l.at, t)
  BY <1>1, <1>2, <1>3 DEF Loc, Local
<1>7. Loc(Putting(l, "dp", t), "iput", l.call, l.rest, l.at, None, l.ip, l.dp, t)
  BY <1>1, <1>2, <1>4 DEF Loc, Local
<1>8. Loc(Putting(l, "ip", t), "iput", l.call, l.rest, l.at, l.dp, None, l.ip, t)
  BY <1>1, <1>2, <1>5 DEF Loc, Local
<1> QED
  BY <1>6, <1>7, <1>8

\* The same with the inode that was found.
LEMMA PutDpLoc ==
  ASSUME NEW l \in Local, l.at = None, NEW t \in {"open", "opened", "made"}, NEW n \in Slots
  PROVE  Loc([Putting(l, "dp", t) EXCEPT !.ip = n],
             "iput", l.call, l.rest, None, None, n, l.dp, t)
<1> DEFINE k == Putting(l, "dp", t)
<1>1. t \in Points /\ n \in Pointers
  BY DEF Points, HasIp, Pointers
<1>2. Loc(k, "iput", l.call, l.rest, None, None, l.ip, l.dp, t)
  BY <1>1, PuttingLoc
<1> HIDE DEF k
<1>3. Loc([k EXCEPT !.ip = n], "iput", l.call, l.rest, None, None, n, l.dp, t)
  BY <1>1, <1>2 DEF Loc, Local
<1> QED
  BY <1>3 DEF k

\* A call at rest.
LEMMA RestLoc == Loc(AtRest, "idle", NoCall, <<>>, None, None, None, None, "idle")
<1>1. "idle" \in Points /\ None \in Pointers
  BY DEF Points, Pointers
<1> QED
  BY <1>1 DEF AtRest, Loc, Local

\* What is known of a call when it takes a step.
LEMMA AtFacts ==
  ASSUME RefInv, NEW p \in Procs
  PROVE  /\ Typed /\ CacheOK(icache) /\ proc[p] \in Local /\ Controlled(proc[p], cwd[p])
         /\ icache \in [Slots -> Entry] /\ OnDisk(dinode, dir)
         /\ cwd \in [Procs -> Pointers] /\ cwd[p] \in Pointers
         /\ \A d : AgreeBut(cwd, cwd, Procs, d)
<1>1. Typed /\ Control /\ Cached
  BY DEF RefInv
<1>2. \A d : AgreeBut(cwd, cwd, Procs, d)
  BY DEF AgreeBut
<1> QED
  BY <1>1, <1>2 DEF Typed, Control, Cached, CacheOK

-----------------------------------------------------------------------------
(* One lemma per action. *)

\* A turn of namex(): the element's inode is got before the directory is put.
LEMMA NamexRefInv ==
  ASSUME RefInv, NEW p \in Procs, Namex(p)
  PROVE  RefInv'
<1> DEFINE l == proc[p]
           s == l.at
           r == Seen(p, s)
           c == [icache EXCEPT ![s] = r]
           last == Len(l.rest) = 1
           i == dir[r.inum][Head(l.rest)]
           n == SlotFor(c, i)
           m == [Putting(l, "at", IF last THEN AfterNamei(l) ELSE "namex")
                       EXCEPT !.rest = Tail(@), ![IF last THEN "ip" ELSE "at"] = n]
<1>1. /\ Typed /\ CacheOK(icache) /\ l \in Local /\ Controlled(l, cwd[p])
      /\ icache \in [Slots -> Entry] /\ OnDisk(dinode, dir)
      /\ cwd \in [Procs -> Pointers] /\ AgreeBut(cwd, cwd, Procs, p)
  BY AtFacts
<1>2. l.pc = "namex"
  BY DEF Namex, At
<1>3. /\ l.put = None /\ l.dp = None /\ s # None /\ cwd[p] # None
      /\ l.rest \in Paths /\ l.call \in Calls
      /\ l.ip # None => l.call.op = "link"
  BY <1>1, <1>2 DEF Controlled, Point, Putters, HasDp, HasIp
<1>4. s \in Slots /\ l.ip \in Pointers
  BY <1>1, <1>3, LocalFields DEF Pointers
<1>5. icache[s].inum \in Inums /\ icache[s].inum # None
  BY <1>4, HeldCached
<1>6. Kept(r, icache[s])
  BY <1>1, <1>4, <1>5, IlockKept
<1>7. c \in [Slots -> Entry] /\ SameRefs(icache, c) /\ CacheOK(c)
  BY <1>1, <1>4, <1>6, EntrySet
<1>8. /\ Head(l.rest) \in Names /\ Tail(l.rest) \in Paths \cup {<<>>}
      /\ ~last => Tail(l.rest) \in Paths
  <2> HIDE DEF l
  <2> QED
    BY <1>3, PathFacts
<1>9. i \in Inums \cup {None}
  BY <1>1, <1>5, <1>6, <1>8 DEF OnDisk, Kept
<1>10. \/ Panic("ilock") \/ Panic("iget")
       \/ /\ nameiparent(l) /\ last /\ icache' = c
          /\ proc' = [proc EXCEPT ![p] =
                     [l EXCEPT !.pc = AfterParent(l), !.at = None, !.dp = s]]
          /\ UNCHANGED <<dinode, dir, files, cwd, panicked>>
       \/ /\ ~(nameiparent(l) /\ last) /\ i # None /\ SlotFor(icache, i) # None
          /\ icache' = iget(c, i)
          /\ proc' = [proc EXCEPT ![p] = m]
          /\ UNCHANGED <<dinode, dir, files, cwd, panicked>>
       \/ /\ icache' = c
          /\ proc' = [proc EXCEPT ![p] = Putting(l, "at", NotFound(l))]
          /\ UNCHANGED <<dinode, dir, files, cwd, panicked>>
  BY DEF Namex, Locking, Getting
<1> HIDE DEF r, c, i, n, m
<1>11. CASE Panic("ilock") \/ Panic("iget")
  BY <1>11, PanicStep
<1>12. CASE /\ nameiparent(l) /\ last /\ icache' = c
            /\ proc' = [proc EXCEPT ![p] =
                     [l EXCEPT !.pc = AfterParent(l), !.at = None, !.dp = s]]
            /\ UNCHANGED <<dinode, dir, files, cwd, panicked>>
  <2> DEFINE t == AfterParent(l)
             k == [l EXCEPT !.pc = t, !.at = None, !.dp = s]
  <2>1. l.call.op = "link" <=> l.ip # None
    BY <1>3, <1>12, CallFacts DEF nameiparent
  <2>2. /\ t \in {"link", "unlink", "create"} /\ (t = "link" <=> l.ip # None)
    BY <2>1 DEF AfterParent
  <2>3. Loc(k, t, l.call, l.rest, None, s, l.ip, None, l.then)
    <3>1. t \in Points \cup Putters /\ s \in Pointers /\ None \in Pointers
      BY <1>4, <2>2 DEF Points, HasDp, Pointers
    <3> HIDE DEF t
    <3> QED
      BY <1>1, <1>3, <3>1 DEF Loc, Local
  <2> HIDE DEF k, t
  <2>4. Controlled(k, cwd[p])
    BY <1>3, <1>12, <2>2, <2>3 DEF Loc, Controlled, Point, Putters, HasDp, HasIp
  <2>5. Moves(l, cwd[p], k, cwd[p], None)
    BY <1>3, <1>4, <2>3, Numbers, SMT DEF Loc, Moves, Held, One
  <2> QED
    BY <1>1, <1>7, <1>12, <2>3, <2>4, <2>5, KeepStep DEF Loc, k, t
<1>13. CASE /\ icache' = c
            /\ proc' = [proc EXCEPT ![p] = Putting(l, "at", NotFound(l))]
            /\ UNCHANGED <<dinode, dir, files, cwd, panicked>>
  <2> DEFINE t == NotFound(l)
             k == Putting(l, "at", t)
  <2>1. t \in {"linkundo", "idle"} /\ (t = "linkundo" <=> l.ip # None)
    BY DEF NotFound
  <2>2. t \in Points
    BY <2>1 DEF Points, HasIp
  <2>3. Loc(k, "iput", l.call, l.rest, None, None, l.ip, s, t)
    BY <1>1, <1>3, <2>2, PuttingLoc
  <2> HIDE DEF k, t
  <2>4. Controlled(k, cwd[p])
    BY <1>3, <2>1, <2>3 DEF Loc, Controlled, Point, Putters, HasDp, HasIp
  <2>5. Moves(l, cwd[p], k, cwd[p], None)
    BY <1>3, <1>4, <2>3, Numbers, SMT DEF Loc, Moves, Held, One
  <2> QED
    BY <1>1, <1>7, <1>13, <2>3, <2>4, <2>5, KeepStep DEF Loc, k, t
<1>14. CASE /\ ~(nameiparent(l) /\ last) /\ i # None /\ SlotFor(icache, i) # None
            /\ icache' = iget(c, i)
            /\ proc' = [proc EXCEPT ![p] = m]
            /\ UNCHANGED <<dinode, dir, files, cwd, panicked>>
  <2> DEFINE t == IF last THEN AfterNamei(l) ELSE "namex"
  <2>1. SlotFor(c, i) # None
    BY <1>7, <1>14 DEF SameRefs, SlotFor
  <2>2. i \in Inums
    BY <1>9, <1>14
  <2>3. CacheOK(icache') /\ Gets(c, icache', n, i) /\ n \in Slots
    <3>1. CacheOK(iget(c, i)) /\ Gets(c, iget(c, i), SlotFor(c, i), i)
      BY <1>7, <2>1, <2>2, IgetGets
    <3> QED
      BY <1>14, <3>1 DEF n, Gets
  <2>4. Gets(icache, icache', n, i) /\ icache' \in [Slots -> Entry]
    BY <1>7, <2>3, SameGets DEF CacheOK
  <2>5. /\ last => t \in {"linkinc", "chdir", "open"} /\ l.ip = None
        /\ ~last => t = "namex"
        /\ t = "linkinc" => l.call.op = "link"
    BY <1>3, <1>14 DEF AfterNamei, nameiparent
  <2>6. t \in Points
    BY <2>5 DEF Points, HasIp
  <2>7. Loc(Putting(l, "at", t), "iput", l.call, l.rest, None, None, l.ip, s, t)
    BY <1>1, <1>3, <2>6, PuttingLoc
  <2>8. m = [Putting(l, "at", t) EXCEPT !.rest = Tail(@), ![IF last THEN "ip" ELSE "at"] = n]
    BY DEF m
  <2> HIDE DEF t
  <2>9. CASE last
    <3>1. m = [Putting(l, "at", t) EXCEPT !.rest = Tail(l.rest), !.ip = n]
      BY <2>7, <2>8, <2>9 DEF Loc
    <3>2. Loc(m, "iput", l.call, Tail(l.rest), None, None, n, s, t)
      BY <1>8, <2>3, <2>7, <3>1 DEF Loc, Local, Pointers
    <3>3. Controlled(m, cwd[p])
      BY <1>3, <2>3, <2>5, <2>9, <3>2, Numbers DEF Loc, Controlled, Point, Putters, HasDp, HasIp
    <3>4. Moves(l, cwd[p], m, cwd[p], n)
      BY <1>3, <1>4, <2>3, <2>5, <2>9, <3>2, Numbers, SMT DEF Loc, Moves, Held, One
    <3> QED
      BY <1>1, <1>14, <2>2, <2>3, <2>4, <3>2, <3>3, <3>4, GetStep DEF Loc
  <2>10. CASE ~last
    <3>1. m = [Putting(l, "at", t) EXCEPT !.rest = Tail(l.rest), !.at = n]
      BY <2>7, <2>8, <2>10 DEF Loc
    <3>2. Loc(m, "iput", l.call, Tail(l.rest), n, None, l.ip, s, t)
      BY <1>8, <2>3, <2>7, <3>1 DEF Loc, Local, Pointers
    <3>3. Controlled(m, cwd[p])
      BY <1>3, <1>8, <2>3, <2>5, <2>10, <3>2, Numbers
         DEF Loc, Controlled, Point, Putters, HasDp, HasIp
    <3>4. Moves(l, cwd[p], m, cwd[p], n)
      BY <1>3, <1>4, <2>3, <2>5, <3>2, Numbers, SMT DEF Loc, Moves, Held, One
    <3> QED
      BY <1>1, <1>14, <2>2, <2>3, <2>4, <3>2, <3>3, <3>4, GetStep DEF Loc
  <2> QED
    BY <2>9, <2>10
<1> QED
  BY <1>10, <1>11, <1>12, <1>13, <1>14

\* A call puts its inode; cache entries are changed but not recycled.
LEMMA PutIpStep ==
  ASSUME RefInv, NEW p \in Procs, NEW t \in {"idle", "unlinkbad"},
         proc[p].pc \in HasIp, proc[p].pc # "chdirset",
         t = "unlinkbad" <=> proc[p].dp # None,
         proc' = [proc EXCEPT ![p] = Putting(proc[p], "ip", t)],
         UNCHANGED <<files, cwd>>, OnDisk(dinode', dir'),
         icache' \in [Slots -> Entry], SameRefs(icache, icache')
  PROVE  RefInv'
<1> DEFINE l == proc[p]
           k == Putting(l, "ip", t)
<1>1. /\ l \in Local /\ Controlled(l, cwd[p])
      /\ cwd \in [Procs -> Pointers] /\ AgreeBut(cwd, cwd, Procs, p)
  BY AtFacts
<1>2. /\ l.put = None /\ l.at = None /\ l.ip # None /\ cwd[p] # None
      /\ l.dp # None => l.rest \in Paths /\ Len(l.rest) = 1 /\ l.call \in Calls
  BY <1>1 DEF Controlled, Point, Putters, HasDp, HasIp
<1>3. t \in Points
  BY DEF Points, HasDp
<1>4. Loc(k, "iput", l.call, l.rest, None, l.dp, None, l.ip, t)
  BY <1>1, <1>2, <1>3, PuttingLoc
<1>5. cwd' = cwd
  OBVIOUS
<1> HIDE DEF l, k
<1>6. Controlled(k, cwd[p])
  BY <1>2, <1>4 DEF l, Loc, Controlled, Point, Putters, HasDp, HasIp
<1>7. Moves(l, cwd[p], k, cwd[p], None)
  BY <1>2, <1>4, Numbers, SMT DEF Loc, Moves, Held, One
<1> QED
  BY <1>1, <1>4, <1>5, <1>6, <1>7, KeepStep DEF Loc, k, l

\* A call puts its directory.
LEMMA PutDpStep ==
  ASSUME RefInv, NEW p \in Procs, NEW t \in {"idle", "unlinkdec", "linkput", "linkundo"},
         proc[p].pc \in HasDp, t # "idle" <=> proc[p].ip # None,
         proc' = [proc EXCEPT ![p] = Putting(proc[p], "dp", t)],
         UNCHANGED <<files, cwd>>, OnDisk(dinode', dir'),
         icache' \in [Slots -> Entry], SameRefs(icache, icache')
  PROVE  RefInv'
<1> DEFINE l == proc[p]
           k == Putting(l, "dp", t)
<1>1. /\ l \in Local /\ Controlled(l, cwd[p])
      /\ cwd \in [Procs -> Pointers] /\ AgreeBut(cwd, cwd, Procs, p)
  BY AtFacts
<1>2. /\ l.put = None /\ l.at = None /\ l.dp # None /\ cwd[p] # None /\ l.call \in Calls
  BY <1>1 DEF Controlled, Point, Putters, HasDp, HasIp
<1>3. t \in Points
  BY DEF Points, HasIp
<1>4. Loc(k, "iput", l.call, l.rest, None, None, l.ip, l.dp, t)
  BY <1>1, <1>2, <1>3, PuttingLoc
<1>5. cwd' = cwd
  OBVIOUS
<1> HIDE DEF l, k
<1>6. Controlled(k, cwd[p])
  BY <1>2, <1>4 DEF l, Loc, Controlled, Point, Putters, HasDp, HasIp
<1>7. Moves(l, cwd[p], k, cwd[p], None)
  BY <1>2, <1>4, Numbers, SMT DEF Loc, Moves, Held, One
<1> QED
  BY <1>1, <1>4, <1>5, <1>6, <1>7, KeepStep DEF Loc, k, l

\* sys_open() locks the inode it found, or refuses and puts it.
LEMMA OpenLockRefInv ==
  ASSUME RefInv, NEW p \in Procs, OpenLock(p)
  PROVE  RefInv'
<1> DEFINE l == proc[p]
           s == l.ip
           r == ilock(p, s)
           k == [l EXCEPT !.pc = "opened"]
<1>1. /\ Typed /\ l \in Local /\ Controlled(l, cwd[p])
      /\ icache \in [Slots -> Entry] /\ OnDisk(dinode, dir)
      /\ cwd \in [Procs -> Pointers] /\ AgreeBut(cwd, cwd, Procs, p)
  BY AtFacts
<1>2. l.pc = "open"
  BY DEF OpenLock, At
<1>3. /\ l.put = None /\ l.dp = None /\ l.at = None /\ s # None /\ cwd[p] # None
      /\ l.call \in Calls
  BY <1>1, <1>2 DEF Controlled, Point, Putters, HasDp, HasIp
<1>4. s \in Slots
  BY <1>1, <1>3, LocalFields DEF Pointers
<1>5. icache[s].inum # None
  BY <1>4, HeldCached
<1>6. Kept(r, icache[s]) /\ Kept(Seen(p, s), icache[s])
  BY <1>1, <1>4, <1>5, IlockKept
<1> DEFINE refused == CASE l.call.op # "open" -> TRUE
                        [] l.call.mode = "create" -> r.type # "file"
                        [] l.call.mode = "write" -> r.type = "dir"
                        [] OTHER -> FALSE
           e == IF refused THEN Seen(p, s) ELSE r
           c == [icache EXCEPT ![s] = e]
<1>7. \/ Panic("ilock")
      \/ /\ icache' = c
         /\ proc' = [proc EXCEPT ![p] = IF refused THEN Putting(l, "ip", "idle") ELSE k]
         /\ UNCHANGED <<dinode, dir, files, cwd, panicked>>
  BY DEF OpenLock, Locking
<1>8. CASE Panic("ilock")
  BY <1>8, PanicStep
<1>9. Kept(e, icache[s])
  BY <1>6
<1> HIDE DEF r, refused, e
<1>10. c \in [Slots -> Entry] /\ SameRefs(icache, c)
  BY <1>1, <1>4, <1>9, EntrySet
<1> HIDE DEF c
<1>11. CASE /\ icache' = c
            /\ proc' = [proc EXCEPT ![p] = Putting(l, "ip", "idle")]
            /\ UNCHANGED <<dinode, dir, files, cwd, panicked>>
  <2>1. l.pc \in HasIp /\ l.pc # "chdirset" /\ "idle" \in {"idle", "unlinkbad"}
    BY <1>2 DEF HasIp
  <2>2. UNCHANGED <<files, cwd>> /\ OnDisk(dinode', dir')
    BY <1>1, <1>11
  <2> QED
    BY <1>3, <1>10, <1>11, <2>1, <2>2, PutIpStep
<1>12. CASE /\ icache' = c
            /\ proc' = [proc EXCEPT ![p] = k]
            /\ UNCHANGED <<dinode, dir, files, cwd, panicked>>
  <2>1. Loc(k, "opened", l.call, l.rest, None, None, l.ip, None, l.then)
    <3>1. "opened" \in Points \cup Putters
      BY DEF Points, HasIp
    <3> QED
      BY <1>1, <1>3, <3>1 DEF Loc, Local
  <2> HIDE DEF k
  <2>2. Controlled(k, cwd[p])
    BY <1>3, <2>1 DEF Loc, Controlled, Point, Putters, HasDp, HasIp
  <2>3. Moves(l, cwd[p], k, cwd[p], None)
    BY <1>3, <2>1, Numbers, SMT DEF Loc, Moves, Held, One
  <2> QED
    BY <1>1, <1>10, <1>12, <2>1, <2>2, <2>3, KeepStep DEF Loc, k
<1> QED
  BY <1>7, <1>8, <1>11, <1>12

\* sys_mkdir() and sys_mknod() put the inode that create() returned.
LEMMA MadeRefInv ==
  ASSUME RefInv, NEW p \in Procs, Made(p)
  PROVE  RefInv'
<1> DEFINE s == proc[p].ip
<1>1. /\ proc[p] \in Local /\ Controlled(proc[p], cwd[p])
      /\ icache \in [Slots -> Entry] /\ OnDisk(dinode, dir)
  BY AtFacts
<1>2. proc[p].pc = "made"
  BY DEF Made, At
<1>3. proc[p].dp = None /\ s # None
  BY <1>1, <1>2 DEF Controlled, Point, Putters, HasDp, HasIp
<1>4. s \in Slots
  BY <1>1, <1>3, LocalFields DEF Pointers
<1>5. icache' \in [Slots -> Entry] /\ SameRefs(icache, icache')
  BY <1>1, <1>4, Unlocks DEF Made
<1>6. /\ proc' = [proc EXCEPT ![p] = Putting(proc[p], "ip", "idle")]
      /\ UNCHANGED <<files, cwd>> /\ OnDisk(dinode', dir')
  BY <1>1 DEF Made
<1>7. proc[p].pc \in HasIp /\ proc[p].pc # "chdirset" /\ "idle" \in {"idle", "unlinkbad"}
  BY <1>2 DEF HasIp
<1> QED
  BY <1>3, <1>5, <1>6, <1>7, PutIpStep

\* sys_unlink() puts the directory after a refusal.
LEMMA UnlinkBadRefInv ==
  ASSUME RefInv, NEW p \in Procs, UnlinkBad(p)
  PROVE  RefInv'
<1> DEFINE s == proc[p].dp
<1>1. /\ proc[p] \in Local /\ Controlled(proc[p], cwd[p])
      /\ icache \in [Slots -> Entry] /\ OnDisk(dinode, dir)
  BY AtFacts
<1>2. proc[p].pc = "unlinkbad"
  BY DEF UnlinkBad, At
<1>3. proc[p].ip = None /\ s # None
  BY <1>1, <1>2 DEF Controlled, Point, Putters, HasDp, HasIp
<1>4. s \in Slots
  BY <1>1, <1>3, LocalFields DEF Pointers
<1>5. icache' \in [Slots -> Entry] /\ SameRefs(icache, icache')
  BY <1>1, <1>4, Unlocks DEF UnlinkBad
<1>6. /\ proc' = [proc EXCEPT ![p] = Putting(proc[p], "dp", "idle")]
      /\ UNCHANGED <<files, cwd>> /\ OnDisk(dinode', dir')
  BY <1>1 DEF UnlinkBad
<1>7. proc[p].pc \in HasDp
  BY <1>2 DEF HasDp
<1> QED
  BY <1>3, <1>5, <1>6, <1>7, PutDpStep

\* sys_link() puts the directory after dirlink() failed.
LEMMA LinkBadRefInv ==
  ASSUME RefInv, NEW p \in Procs, LinkBad(p)
  PROVE  RefInv'
<1> DEFINE s == proc[p].dp
<1>1. /\ proc[p] \in Local /\ Controlled(proc[p], cwd[p])
      /\ icache \in [Slots -> Entry] /\ OnDisk(dinode, dir)
  BY AtFacts
<1>2. proc[p].pc = "linkbad"
  BY DEF LinkBad, At
<1>3. proc[p].ip # None /\ s # None
  BY <1>1, <1>2 DEF Controlled, Point, Putters, HasDp, HasIp
<1>4. s \in Slots
  BY <1>1, <1>3, LocalFields DEF Pointers
<1>5. icache' \in [Slots -> Entry] /\ SameRefs(icache, icache')
  BY <1>1, <1>4, Unlocks DEF LinkBad
<1>6. /\ proc' = [proc EXCEPT ![p] = Putting(proc[p], "dp", "linkundo")]
      /\ UNCHANGED <<files, cwd>> /\ OnDisk(dinode', dir')
  BY <1>1 DEF LinkBad
<1>7. proc[p].pc \in HasDp
  BY <1>2 DEF HasDp
<1> QED
  BY <1>3, <1>5, <1>6, <1>7, PutDpStep

\* sys_link() puts the inode it has linked.
LEMMA LinkPutRefInv ==
  ASSUME RefInv, NEW p \in Procs, LinkPut(p)
  PROVE  RefInv'
<1>1. /\ proc[p] \in Local /\ Controlled(proc[p], cwd[p])
      /\ icache \in [Slots -> Entry] /\ OnDisk(dinode, dir)
  BY AtFacts
<1>2. proc[p].pc = "linkput"
  BY DEF LinkPut, At
<1>3. proc[p].dp = None
  BY <1>1, <1>2 DEF Controlled, Point, Putters, HasDp
<1>4. icache' \in [Slots -> Entry] /\ SameRefs(icache, icache')
  BY <1>1 DEF LinkPut, SameRefs
<1>5. /\ proc' = [proc EXCEPT ![p] = Putting(proc[p], "ip", "idle")]
      /\ UNCHANGED <<files, cwd>> /\ OnDisk(dinode', dir')
  BY <1>1 DEF LinkPut
<1>6. proc[p].pc \in HasIp /\ proc[p].pc # "chdirset" /\ "idle" \in {"idle", "unlinkbad"}
  BY <1>2 DEF HasIp
<1> QED
  BY <1>3, <1>4, <1>5, <1>6, PutIpStep

\* A system call begins with namex()'s iget() or idup().
LEMMA CallRefInv ==
  ASSUME RefInv, NEW p \in Procs, NEW call \in Calls, Call(p, call)
  PROVE  RefInv'
<1> DEFINE l == proc[p]
           n == StartSlot(p, icache, call)
           d == StartCache(p, icache, call)
           k == [AtRest EXCEPT !.pc = "namex", !.call = call, !.rest = call.path, !.at = n]
<1>1. /\ CacheOK(icache) /\ l \in Local /\ Controlled(l, cwd[p]) /\ OnDisk(dinode, dir)
      /\ cwd \in [Procs -> Pointers] /\ AgreeBut(cwd, cwd, Procs, p)
      /\ cwd[p] \in Pointers
  BY AtFacts
<1>2. l.pc = "idle"
  BY DEF Call, At
<1>3. l.put = None /\ l.dp = None /\ l.at = None /\ l.ip = None /\ cwd[p] # None
  BY <1>1, <1>2 DEF Controlled, Point, Putters, HasDp, HasIp
<1>4. cwd[p] \in Slots
  BY <1>1, <1>3 DEF Pointers
<1>5. icache[cwd[p]].ref > 0
  BY <1>4, HeldCached
<1>6. /\ n \in Slots /\ icache[n].inum \in Inums
      /\ CacheOK(d) /\ Gets(icache, d, n, icache[n].inum)
  BY <1>1, <1>4, <1>5, StartGets
<1>7. /\ icache' = d /\ proc' = [proc EXCEPT ![p] = k]
      /\ UNCHANGED <<dinode, dir, files, cwd, panicked>>
  BY DEF Call
<1> HIDE DEF n, d
<1>8. Loc(k, "namex", call, call.path, n, None, None, None, "idle")
  <2>1. "namex" \in Points /\ n \in Pointers /\ call.path \in Paths
    BY <1>6, CallFacts DEF Points, Pointers
  <2> QED
    BY <2>1, RestLoc DEF Loc, Local
<1> HIDE DEF k
<1>9. n # None /\ call.path \in Paths
  BY <1>6, Numbers, CallFacts
<1>10. Controlled(k, cwd[p])
  BY <1>3, <1>8, <1>9 DEF Loc, Controlled, Point, Putters, HasDp, HasIp
<1>11. Moves(l, cwd[p], k, cwd[p], n)
  BY <1>3, <1>6, <1>8, Numbers, SMT DEF Loc, Moves, Held, One
<1>12. icache' \in [Slots -> Entry] /\ Gets(icache, icache', n, icache[n].inum)
  BY <1>6, <1>7 DEF CacheOK
<1> QED
  BY <1>1, <1>6, <1>7, <1>8, <1>10, <1>11, <1>12, GetStep DEF Loc

\* sys_chdir() makes the reference it holds the current directory.
LEMMA ChdirSetRefInv ==
  ASSUME RefInv, NEW p \in Procs, ChdirSet(p)
  PROVE  RefInv'
<1> DEFINE l == proc[p]
<1>1. /\ l \in Local /\ Controlled(l, cwd[p]) /\ OnDisk(dinode, dir)
      /\ cwd \in [Procs -> Pointers] /\ icache \in [Slots -> Entry]
  BY AtFacts
<1>2. l.pc = "chdirset"
  BY DEF ChdirSet, At
<1>3. l.put = None /\ l.dp = None /\ l.at = None /\ l.ip # None /\ cwd[p] = None
  BY <1>1, <1>2 DEF Controlled, Point, Putters, HasDp, HasIp
<1>4. l.ip \in Pointers
  BY <1>1, LocalFields
<1>5. /\ cwd' = [cwd EXCEPT ![p] = l.ip] /\ proc' = [proc EXCEPT ![p] = AtRest]
      /\ UNCHANGED <<dinode, dir, icache, files, panicked>>
  BY DEF ChdirSet
<1>6. /\ cwd' \in [Procs -> Pointers] /\ cwd'[p] = l.ip /\ AgreeBut(cwd, cwd', Procs, p)
  BY <1>1, <1>4, <1>5 DEF AgreeBut
<1>7. icache' \in [Slots -> Entry] /\ SameRefs(icache, icache') /\ OnDisk(dinode', dir')
  BY <1>1, <1>5 DEF SameRefs
<1>8. Controlled(AtRest, cwd'[p])
  BY <1>3, <1>6, RestLoc DEF Loc, Controlled, Point, Putters, HasDp, HasIp
<1>9. Moves(l, cwd[p], AtRest, cwd'[p], None)
  BY <1>3, <1>6, RestLoc, Numbers, SMT DEF Loc, Moves, Held, One
<1>10. AtRest \in Local
  BY RestLoc DEF Loc
<1> QED
  BY <1>5, <1>6, <1>7, <1>8, <1>9, <1>10, KeepStep

\* The test of iput() changes no reference.
LEMMA IputRefInv ==
  ASSUME RefInv, NEW p \in Procs, Iput(p)
  PROVE  RefInv'
<1> DEFINE l == proc[p]
           s == l.put
<1>1. /\ l \in Local /\ Controlled(l, cwd[p]) /\ OnDisk(dinode, dir)
      /\ cwd \in [Procs -> Pointers] /\ icache \in [Slots -> Entry]
      /\ AgreeBut(cwd, cwd, Procs, p)
  BY AtFacts
<1>2. l.pc = "iput"
  BY DEF Iput, At
<1>3. s # None
  BY <1>1, <1>2 DEF Controlled, Putters
<1>4. s \in Slots
  BY <1>1, <1>3, LocalFields DEF Pointers
<1>5. PICK t \in {"ifree", "iref"} : proc' = [proc EXCEPT ![p].pc = t]
  BY DEF Iput
<1>6. \/ icache' = [icache EXCEPT ![s].lock = p]
      \/ icache' = icache
  BY DEF Iput
<1>7. icache' \in [Slots -> Entry] /\ SameRefs(icache, icache')
  <2>1. CASE icache' = icache
    BY <1>1, <2>1 DEF SameRefs
  <2>2. CASE icache' = [icache EXCEPT ![s].lock = p]
    BY <1>1, <1>4, <2>2, Unlocks
  <2> QED
    BY <1>6, <2>1, <2>2
<1>8. UNCHANGED <<dinode, dir, files, cwd, panicked>>
  BY DEF Iput
<1> DEFINE k == [l EXCEPT !.pc = t]
<1>9. proc' = [proc EXCEPT ![p] = k]
  BY <1>1, <1>5
<1>10. Loc(k, t, l.call, l.rest, l.at, l.dp, l.ip, l.put, l.then)
  <2>1. t \in Points \cup Putters
    BY DEF Putters
  <2> QED
    BY <1>1, <2>1 DEF Loc, Local
<1> HIDE DEF k
<1>11. Controlled(k, cwd[p])
  <2>1. Point(k) = Point(l) /\ k.pc \in Putters /\ l.pc \in Putters
    BY <1>2, <1>10 DEF Loc, Point, Putters
  <2> QED
    BY <1>1, <1>10, <2>1 DEF Loc, Controlled
<1>12. Moves(l, cwd[p], k, cwd[p], None)
  BY <1>10, Numbers, SMT DEF Loc, Moves, Held, One
<1> QED
  BY <1>1, <1>7, <1>8, <1>9, <1>10, <1>11, <1>12, KeepStep DEF Loc

\* iput() frees the inode on disk and keeps its reference.
LEMMA IputFreeRefInv ==
  ASSUME RefInv, NEW p \in Procs, IputFree(p)
  PROVE  RefInv'
<1> DEFINE l == proc[p]
           s == l.put
           i == icache[s].inum
           m == icache[s].ref
           u == Fresh(i, m)
           k == [l EXCEPT !.pc = "iref"]
<1>1. /\ l \in Local /\ Controlled(l, cwd[p]) /\ OnDisk(dinode, dir)
      /\ cwd \in [Procs -> Pointers] /\ icache \in [Slots -> Entry]
      /\ AgreeBut(cwd, cwd, Procs, p)
  BY AtFacts
<1>2. l.pc = "ifree"
  BY DEF IputFree, At
<1>3. s # None
  BY <1>1, <1>2 DEF Controlled, Putters
<1>4. s \in Slots
  BY <1>1, <1>3, LocalFields DEF Pointers
<1>5. i \in Inums /\ icache[s].ref \in Nat
  BY <1>4, HeldCached
<1>6. /\ dinode' = [dinode EXCEPT ![i] = [type |-> "free", nlink |-> 0]]
      /\ dir' = [dir EXCEPT ![i] = NoNames]
      /\ icache' = [icache EXCEPT ![s] = u]
      /\ UNCHANGED <<files, cwd, panicked>>
      /\ proc' = [proc EXCEPT ![p].pc = "iref"]
  BY DEF IputFree, Fresh
<1>7. u \in Entry /\ u.inum = i /\ u.ref = m
  <2>1. i \in Inums \cup {None} /\ m \in Nat
    BY <1>5
  <2> HIDE DEF i, m
  <2> QED
    BY <2>1, UnreadFields
<1> HIDE DEF u, i
<1>8. icache' \in [Slots -> Entry] /\ SameRefs(icache, icache')
  BY <1>1, <1>4, <1>6, <1>7, EntrySet DEF i, m, Kept
<1>9. OnDisk(dinode', dir')
  <2>1. 0 \in Int /\ None \in Inums \cup {None}
    BY SMT
  <2>2. [type |-> "free", nlink |-> 0] \in [type : Types, nlink : Int]
    BY <2>1 DEF Types
  <2>3. NoNames \in [Names -> Inums \cup {None}]
    BY DEF NoNames
  <2> QED
    BY <1>1, <1>5, <1>6, <2>2, <2>3 DEF OnDisk
<1>10. proc' = [proc EXCEPT ![p] = k]
  BY <1>1, <1>6
<1>11. Loc(k, "iref", l.call, l.rest, l.at, l.dp, l.ip, l.put, l.then)
  <2>1. "iref" \in Points \cup Putters
    BY DEF Putters
  <2> QED
    BY <1>1, <2>1 DEF Loc, Local
<1> HIDE DEF k
<1>12. Controlled(k, cwd[p])
  <2>1. Point(k) = Point(l) /\ k.pc \in Putters /\ l.pc \in Putters
    BY <1>2, <1>11 DEF Loc, Point, Putters
  <2> QED
    BY <1>1, <1>11, <2>1 DEF Loc, Controlled
<1>13. Moves(l, cwd[p], k, cwd[p], None)
  BY <1>11, Numbers, SMT DEF Loc, Moves, Held, One
<1> QED
  BY <1>1, <1>6, <1>8, <1>9, <1>10, <1>11, <1>12, <1>13, KeepStep DEF Loc

\* ip->ref-- of iput(), with which a reference goes.
LEMMA IputRefRefInv ==
  ASSUME RefInv, NEW p \in Procs, IputRef(p)
  PROVE  RefInv'
<1> DEFINE l == proc[p]
           s == l.put
           r == [icache[s] EXCEPT !.ref = icache[s].ref - 1]
           u == IF icache[s].ref = 1 THEN Unread ELSE r
           k == IF l.then = "idle" THEN AtRest
                ELSE [l EXCEPT !.pc = l.then, !.put = None, !.then = "idle"]
<1>1. /\ l \in Local /\ Controlled(l, cwd[p]) /\ OnDisk(dinode, dir)
      /\ cwd \in [Procs -> Pointers] /\ icache \in [Slots -> Entry]
      /\ proc \in [Procs -> Local]
  BY AtFacts DEF Typed
<1>2. l.pc = "iref"
  BY DEF IputRef, At
<1>3. s # None
  BY <1>1, <1>2 DEF Controlled, Putters
<1>4. s \in Slots
  BY <1>1, <1>3, LocalFields DEF Pointers
<1>5. icache[s].ref \in Nat /\ icache[s].ref > 0 /\ icache[s] \in Entry
  BY <1>4, HeldCached
<1>6. icache[s].ref - 1 \in Nat
  BY <1>5, SMT
<1>7. r \in Entry /\ r.inum = icache[s].inum /\ r.ref = icache[s].ref - 1
  BY <1>5, <1>6, RefSet
<1>8. u \in Entry
  BY <1>7, UnreadIn
<1>9. icache' = [icache EXCEPT ![s] = u]
  BY DEF IputRef
<1>10. proc' = [proc EXCEPT ![p] = k]
  BY <1>1 DEF IputRef
<1>11. UNCHANGED <<dinode, dir, files, cwd>>
  BY DEF IputRef
<1> HIDE DEF r
<1>12. /\ icache' \in [Slots -> Entry] /\ \A t \in Slots \ {s} : icache'[t] = icache[t]
       /\ icache'[s] = u
  BY <1>1, <1>4, <1>8, <1>9
<1>13. /\ icache[s].ref = 1 => icache'[s] = Unread
       /\ icache[s].ref # 1 => /\ icache'[s].ref = icache[s].ref - 1
                               /\ icache'[s].inum = icache[s].inum
  BY <1>7, <1>12
<1> HIDE DEF u
<1>14. l.then \in Points /\ l.then \notin Putters
  <2>1. l.then \in Points
    BY <1>1, LocalFields
  <2> QED
    BY <2>1 DEF Points, Putters, HasDp, HasIp
<1>15. CASE l.then = "idle"
  <2>1. k = AtRest
    BY <1>15
  <2>2. l.at = None /\ l.dp = None /\ l.ip = None /\ cwd[p] # None
    BY <1>1, <1>2, <1>15 DEF Controlled, Point, Putters, HasDp, HasIp
  <2> HIDE DEF k
  <2>3. Controlled(k, cwd[p])
    BY <2>1, <2>2, RestLoc DEF Loc, Controlled, Point, Putters, HasDp, HasIp
  <2>4. Moves(k, cwd[p], l, cwd[p], s)
    BY <2>1, <2>2, RestLoc, Numbers, SMT DEF Loc, Moves, Held, One
  <2>5. k \in Local
    BY <2>1, RestLoc DEF Loc
  <2> QED
    BY <1>4, <1>10, <1>11, <1>12, <1>13, <2>3, <2>4, <2>5, DropStep
<1>16. CASE l.then # "idle"
  <2>1. k = [l EXCEPT !.pc = l.then, !.put = None, !.then = "idle"]
    BY <1>16
  <2>2. Loc(k, l.then, l.call, l.rest, l.at, l.dp, l.ip, None, "idle")
    <3>1. "idle" \in Points /\ l.then \in Points \cup Putters /\ None \in Pointers
      BY <1>14 DEF Points, Pointers
    <3> QED
      BY <1>1, <2>1, <3>1 DEF Loc, Local
  <2> HIDE DEF k
  <2>3. Controlled(k, cwd[p])
    <3>1. Point(k) = l.then /\ Point(l) = l.then /\ k.pc \notin Putters
      BY <1>2, <1>14, <2>2 DEF Loc, Point, Putters
    <3> QED
      BY <1>1, <2>2, <3>1 DEF Loc, Controlled
  <2>4. Moves(k, cwd[p], l, cwd[p], s)
    BY <2>2, Numbers, SMT DEF Loc, Moves, Held, One
  <2> QED
    BY <1>4, <1>10, <1>11, <1>12, <1>13, <2>2, <2>3, <2>4, DropStep DEF Loc
<1> QED
  BY <1>15, <1>16

\* sys_chdir() puts the old directory, or the inode that is none.
LEMMA ChdirRefInv ==
  ASSUME RefInv, NEW p \in Procs, Chdir(p)
  PROVE  RefInv'
<1> DEFINE l == proc[p]
           s == l.ip
           r == Seen(p, s)
           c == [icache EXCEPT ![s] = r]
           k == [l EXCEPT !.pc = "iput", !.put = cwd[p], !.then = "chdirset"]
<1>1. /\ Typed /\ l \in Local /\ Controlled(l, cwd[p])
      /\ icache \in [Slots -> Entry] /\ OnDisk(dinode, dir)
      /\ cwd \in [Procs -> Pointers] /\ cwd[p] \in Pointers
  BY AtFacts
<1>2. l.pc = "chdir"
  BY DEF Chdir, At
<1>3. /\ l.put = None /\ l.dp = None /\ l.at = None /\ s # None /\ cwd[p] # None
      /\ l.call \in Calls
  BY <1>1, <1>2 DEF Controlled, Point, Putters, HasDp, HasIp
<1>4. s \in Slots
  BY <1>1, <1>3, LocalFields DEF Pointers
<1>5. icache[s].inum # None
  BY <1>4, HeldCached
<1>6. Kept(r, icache[s])
  BY <1>1, <1>4, <1>5, IlockKept
<1>7. c \in [Slots -> Entry] /\ SameRefs(icache, c)
  BY <1>1, <1>4, <1>6, EntrySet
<1>8. \/ Panic("ilock")
      \/ /\ icache' = c /\ proc' = [proc EXCEPT ![p] = Putting(l, "ip", "idle")]
         /\ UNCHANGED <<dinode, dir, files, cwd, panicked>>
      \/ /\ icache' = c /\ proc' = [proc EXCEPT ![p] = k]
         /\ cwd' = [cwd EXCEPT ![p] = None]
         /\ UNCHANGED <<dinode, dir, files, panicked>>
  BY DEF Chdir, Locking
<1> HIDE DEF r, c
<1>9. CASE Panic("ilock")
  BY <1>9, PanicStep
<1>10. CASE /\ icache' = c /\ proc' = [proc EXCEPT ![p] = Putting(l, "ip", "idle")]
            /\ UNCHANGED <<dinode, dir, files, cwd, panicked>>
  <2>1. l.pc \in HasIp /\ l.pc # "chdirset" /\ "idle" \in {"idle", "unlinkbad"}
    BY <1>2 DEF HasIp
  <2>2. UNCHANGED <<files, cwd>> /\ OnDisk(dinode', dir')
    BY <1>1, <1>10
  <2> QED
    BY <1>3, <1>7, <1>10, <2>1, <2>2, PutIpStep
<1>11. CASE /\ icache' = c /\ proc' = [proc EXCEPT ![p] = k]
            /\ cwd' = [cwd EXCEPT ![p] = None]
            /\ UNCHANGED <<dinode, dir, files, panicked>>
  <2>1. Loc(k, "iput", l.call, l.rest, None, None, s, cwd[p], "chdirset")
    <3>1. "iput" \in Points \cup Putters /\ "chdirset" \in Points
      BY DEF Points, HasIp, Putters
    <3> QED
      BY <1>1, <1>3, <3>1 DEF Loc, Local
  <2> HIDE DEF k
  <2>2. cwd' \in [Procs -> Pointers] /\ cwd'[p] = None /\ AgreeBut(cwd, cwd', Procs, p)
    BY <1>1, <1>11 DEF AgreeBut, Pointers
  <2>3. Controlled(k, cwd'[p])
    BY <1>3, <2>1, <2>2 DEF Loc, Controlled, Point, Putters, HasDp, HasIp
  <2>4. Moves(l, cwd[p], k, cwd'[p], None)
    BY <1>3, <2>1, <2>2, Numbers, SMT DEF Loc, Moves, Held, One
  <2> QED
    BY <1>1, <1>7, <1>11, <2>1, <2>2, <2>3, <2>4, KeepStep DEF Loc
<1> QED
  BY <1>8, <1>9, <1>10, <1>11

\* sys_unlink() takes a link from the inode and puts it.
LEMMA UnlinkDecRefInv ==
  ASSUME RefInv, NEW p \in Procs, UnlinkDec(p)
  PROVE  RefInv'
<1> DEFINE s == proc[p].ip
           r == [icache[s] EXCEPT !.nlink = @ - 1, !.lock = "none"]
<1>1. /\ proc[p] \in Local /\ Controlled(proc[p], cwd[p])
      /\ icache \in [Slots -> Entry] /\ OnDisk(dinode, dir)
  BY AtFacts
<1>2. proc[p].pc = "unlinkdec"
  BY DEF UnlinkDec, At
<1>3. proc[p].dp = None /\ s # None
  BY <1>1, <1>2 DEF Controlled, Point, Putters, HasDp, HasIp
<1>4. s \in Slots
  BY <1>1, <1>3, LocalFields DEF Pointers
<1>5. icache[s] \in Entry /\ icache[s].inum \in Inums
  BY <1>4, HeldCached
<1>6. r \in Entry /\ r.inum = icache[s].inum /\ r.ref = icache[s].ref
  <2> DEFINE e == icache[s]
             u == [e EXCEPT !.nlink = e.nlink - 1]
  <2>1. e \in Entry /\ e.nlink \in Int
    BY <1>5, EntryFields
  <2>2. e.nlink - 1 \in Int
    BY <2>1, SMT
  <2> HIDE DEF e
  <2>3. u \in Entry /\ u.inum = e.inum /\ u.ref = e.ref
    BY <2>1, <2>2, NlinkSet
  <2>4. r = [u EXCEPT !.lock = "none"]
    BY DEF e
  <2> HIDE DEF u, r
  <2>5. r \in Entry /\ r.inum = u.inum /\ r.ref = u.ref
    BY <2>3, <2>4, LockSet
  <2> QED
    BY <2>3, <2>5 DEF e
<1>7. /\ icache' = [icache EXCEPT ![s] = r] /\ dinode' = iupdate(dinode, r)
      /\ proc' = [proc EXCEPT ![p] = Putting(proc[p], "ip", "idle")]
      /\ UNCHANGED <<files, cwd>> /\ dir' = dir
  BY DEF UnlinkDec
<1> HIDE DEF r
<1>8. icache' \in [Slots -> Entry] /\ SameRefs(icache, icache')
  BY <1>1, <1>4, <1>6, <1>7, EntrySet DEF Kept
<1>9. OnDisk(dinode', dir')
  BY <1>1, <1>5, <1>6, <1>7, UpdateTyped
<1>10. proc[p].pc \in HasIp /\ proc[p].pc # "chdirset" /\ "idle" \in {"idle", "unlinkbad"}
  BY <1>2 DEF HasIp
<1> QED
  BY <1>3, <1>7, <1>8, <1>9, <1>10, PutIpStep

\* sys_link() takes its link back and puts the inode.
LEMMA LinkUndoRefInv ==
  ASSUME RefInv, NEW p \in Procs, LinkUndo(p)
  PROVE  RefInv'
<1> DEFINE s == proc[p].ip
           u == Seen(p, s)
           r == [u EXCEPT !.nlink = @ - 1]
<1>1. /\ Typed /\ proc[p] \in Local /\ Controlled(proc[p], cwd[p])
      /\ icache \in [Slots -> Entry] /\ OnDisk(dinode, dir)
  BY AtFacts
<1>2. proc[p].pc = "linkundo"
  BY DEF LinkUndo, At
<1>3. proc[p].dp = None /\ s # None
  BY <1>1, <1>2 DEF Controlled, Point, Putters, HasDp, HasIp
<1>4. s \in Slots
  BY <1>1, <1>3, LocalFields DEF Pointers
<1>5. icache[s].inum \in Inums /\ icache[s].inum # None
  BY <1>4, HeldCached
<1>6. r \in Entry /\ r.inum = icache[s].inum /\ r.ref = icache[s].ref
  <2>1. Kept(u, icache[s])
    BY <1>1, <1>4, <1>5, IlockKept
  <2> HIDE DEF u
  <2>2. u.nlink \in Int
    BY <2>1, EntryFields DEF Kept
  <2>3. u.nlink - 1 \in Int
    BY <2>2, SMT
  <2> QED
    BY <2>1, <2>3, NlinkSet DEF Kept
<1>7. \/ Panic("ilock")
      \/ /\ icache' = [icache EXCEPT ![s] = r] /\ dinode' = iupdate(dinode, r)
         /\ proc' = [proc EXCEPT ![p] = Putting(proc[p], "ip", "idle")]
         /\ UNCHANGED <<files, cwd>> /\ dir' = dir
  BY DEF LinkUndo, Locking
<1> HIDE DEF r
<1>8. CASE Panic("ilock")
  BY <1>8, PanicStep
<1>9. CASE /\ icache' = [icache EXCEPT ![s] = r] /\ dinode' = iupdate(dinode, r)
           /\ proc' = [proc EXCEPT ![p] = Putting(proc[p], "ip", "idle")]
           /\ UNCHANGED <<files, cwd>> /\ dir' = dir
  <2>1. icache' \in [Slots -> Entry] /\ SameRefs(icache, icache')
    BY <1>1, <1>4, <1>6, <1>9, EntrySet DEF Kept
  <2>2. OnDisk(dinode', dir')
    BY <1>1, <1>5, <1>6, <1>9, UpdateTyped
  <2>3. proc[p].pc \in HasIp /\ proc[p].pc # "chdirset" /\ "idle" \in {"idle", "unlinkbad"}
    BY <1>2 DEF HasIp
  <2> QED
    BY <1>3, <1>9, <2>1, <2>2, <2>3, PutIpStep
<1> QED
  BY <1>7, <1>8, <1>9

\* filealloc() and fdalloc(): the open file takes over the reference, or it is put.
LEMMA OpenedRefInv ==
  ASSUME RefInv, NEW p \in Procs, Opened(p)
  PROVE  RefInv'
<1> DEFINE l == proc[p]
           s == l.ip
           f == Min(FreeFiles)
           fd == Min(FreeFds(p))
           e == [ref |-> 1, ip |-> s]
<1>1. /\ Typed /\ l \in Local /\ Controlled(l, cwd[p])
      /\ icache \in [Slots -> Entry] /\ OnDisk(dinode, dir)
  BY AtFacts
<1>2. l.pc = "opened"
  BY DEF Opened, At
<1>3. l.put = None /\ l.dp = None /\ l.at = None /\ s # None /\ cwd[p] # None
  BY <1>1, <1>2 DEF Controlled, Point, Putters, HasDp, HasIp
<1>4. s \in Slots
  BY <1>1, <1>3, LocalFields DEF Pointers
<1>5. icache' = [icache EXCEPT ![s].lock = "none"] /\ UNCHANGED <<dinode, dir, cwd, panicked>>
  BY DEF Opened
<1>6. icache' \in [Slots -> Entry] /\ SameRefs(icache, icache')
  BY <1>1, <1>4, <1>5, Unlocks
<1>7. \/ /\ FreeFiles # {} /\ FreeFds(p) # {}
         /\ ftable' = [ftable EXCEPT ![f] = e]
         /\ ofile' = [ofile EXCEPT ![p][fd] = f]
         /\ proc' = [proc EXCEPT ![p] = AtRest]
      \/ /\ proc' = [proc EXCEPT ![p] = Putting(l, "ip", "idle")]
         /\ UNCHANGED files
  BY DEF Opened
<1>8. CASE /\ proc' = [proc EXCEPT ![p] = Putting(l, "ip", "idle")]
           /\ UNCHANGED files
  <2>1. l.pc \in HasIp /\ l.pc # "chdirset" /\ "idle" \in {"idle", "unlinkbad"}
    BY <1>2 DEF HasIp
  <2>2. UNCHANGED <<files, cwd>> /\ OnDisk(dinode', dir')
    BY <1>1, <1>5, <1>8
  <2> QED
    BY <1>3, <1>6, <1>8, <2>1, <2>2, PutIpStep
<1>9. CASE /\ FreeFiles # {} /\ FreeFds(p) # {}
           /\ ftable' = [ftable EXCEPT ![f] = e]
           /\ ofile' = [ofile EXCEPT ![p][fd] = f]
           /\ proc' = [proc EXCEPT ![p] = AtRest]
  <2>1. f \in Files /\ ftable[f].ref = 0
    <3>1. FreeFiles \subseteq Nat
      BY Numbers DEF FreeFiles
    <3>2. f \in FreeFiles
      BY <1>9, <3>1, MinIn
    <3> QED
      BY <3>2 DEF FreeFiles
  <2>2. fd \in Fds /\ ofile[p][fd] = None
    <3>1. FreeFds(p) \subseteq Nat
      BY FdNumbers DEF FreeFds
    <3>2. fd \in FreeFds(p)
      BY <1>9, <3>1, MinIn
    <3> QED
      BY <3>2 DEF FreeFds
  <2> HIDE DEF f, fd
  <2>3. e \in [ref : Nat, ip : Pointers] /\ e.ref = 1 /\ e.ip = s
    <3>1. 1 \in Nat
      BY SMT
    <3> QED
      BY <1>4, <3>1 DEF Pointers
  <2> HIDE DEF e
  <2>4. f # None
    BY <2>1, Numbers
  <2>5. Change(ftable[f].ref, e.ref, One(ofile[p][fd] = f), One(f = f))
    BY <2>1, <2>2, <2>3, <2>4, SMT DEF Change, One
  <2>6. Hands(l, ftable[f], AtRest, e)
    BY <1>3, <2>1, <2>3, RestLoc, Numbers, SMT DEF Loc, Held, One, FileAt, Hands
  <2>7. Controlled(AtRest, cwd[p])
    BY <1>3, RestLoc DEF Loc, Controlled, Point, Putters, HasDp, HasIp
  <2>8. AtRest \in Local
    BY RestLoc DEF Loc
  <2>9. f \in {f, None} /\ ofile[p][fd] \in {f, None} /\ (e.ref > 0 => e.ip # None)
        /\ UNCHANGED <<dinode, dir, cwd>>
    BY <1>3, <1>5, <2>2, <2>3
  <2> QED
    BY <1>6, <1>9, <2>1, <2>2, <2>3, <2>5, <2>6, <2>7, <2>8, <2>9, FileStep
<1> QED
  BY <1>7, <1>8, <1>9

\* fileclose(): the last descriptor of a file puts its inode.
LEMMA CloseRefInv ==
  ASSUME RefInv, NEW p \in Procs, NEW fd \in Fds, Close(p, fd)
  PROVE  RefInv'
<1> DEFINE l == proc[p]
           f == ofile[p][fd]
           e == [ftable[f] EXCEPT !.ref = ftable[f].ref - 1]
           z == [ref |-> 0, ip |-> None]
           k == [AtRest EXCEPT !.pc = "iput", !.put = ftable[f].ip]
<1>1. /\ Typed /\ l \in Local /\ Controlled(l, cwd[p]) /\ proc \in [Procs -> Local]
      /\ icache \in [Slots -> Entry] /\ ftable \in [Files -> [ref : Nat, ip : Pointers]]
      /\ f \in Files \cup {None} /\ FilesExact
  BY AtFacts DEF Typed, RefInv
<1>2. l.pc = "idle" /\ f # None
  BY DEF Close, At
<1>3. l.put = None /\ l.dp = None /\ l.at = None /\ l.ip = None /\ cwd[p] # None
  BY <1>1, <1>2 DEF Controlled, Point, Putters, HasDp, HasIp
<1>4. /\ f \in Files /\ ftable[f] \in [ref : Nat, ip : Pointers]
      /\ ftable[f].ref \in Nat /\ ftable[f].ip \in Pointers
  BY <1>1, <1>2
<1>5. ftable[f].ref > 0
  <2>1. <<p, fd>> \in Descs(ofile, f)
    BY DEF Descs
  <2>2. Cardinality(Descs(ofile, f)) # 0
    BY <2>1, Counts, FS_EmptySet
  <2>3. ftable[f].ref = Cardinality(Descs(ofile, f))
    BY <1>1, <1>4 DEF FilesExact
  <2> QED
    BY <1>4, <2>2, <2>3, SMT
<1>6. ftable[f].ip \in Slots
  BY <1>4, <1>5, FileCached
<1>7. /\ ofile' = [ofile EXCEPT ![p][fd] = None]
      /\ UNCHANGED <<dinode, dir, icache, cwd, panicked>>
      /\ \/ /\ ftable[f].ref > 1 /\ ftable' = [ftable EXCEPT ![f] = e] /\ proc' = proc
         \/ /\ ~(ftable[f].ref > 1) /\ ftable' = [ftable EXCEPT ![f] = z] 
            /\ proc' = [proc EXCEPT ![p] = k]
  BY <1>1, <1>4 DEF Close
<1>8. icache' \in [Slots -> Entry] /\ SameRefs(icache, icache')
  BY <1>1, <1>7 DEF SameRefs
<1>9. None \in {f, None} /\ f \in {f, None} /\ None # f /\ UNCHANGED <<dinode, dir, cwd>>
  BY <1>2, <1>7
<1>10. CASE ftable[f].ref > 1 /\ ftable' = [ftable EXCEPT ![f] = e] /\ proc' = proc
  <2>1. ftable[f].ref - 1 \in Nat /\ ftable[f].ref - 1 > 0
    BY <1>4, <1>10, SMT
  <2>2. e \in [ref : Nat, ip : Pointers] /\ e.ref = ftable[f].ref - 1 /\ e.ip = ftable[f].ip
    BY <1>4, <2>1
  <2>3. proc' = [proc EXCEPT ![p] = l]
    BY <1>1, <1>10
  <2> HIDE DEF e
  <2>4. Change(ftable[f].ref, e.ref, One(ofile[p][fd] = f), One(None = f))
    BY <1>4, <1>9, <2>2, SMT DEF Change, One
  <2>5. Hands(l, ftable[f], l, e)
    BY <1>5, <2>1, <2>2 DEF FileAt, Hands
  <2>6. e.ref > 0 => e.ip # None
    BY <1>6, <2>2, Numbers
  <2> HIDE DEF l
  <2> QED
    BY <1>1, <1>4, <1>7, <1>8, <1>9, <1>10, <2>2, <2>3, <2>4, <2>5, <2>6, FileStep DEF l
<1>11. CASE /\ ~(ftable[f].ref > 1) /\ ftable' = [ftable EXCEPT ![f] = z]
            /\ proc' = [proc EXCEPT ![p] = k]
  <2>1. ftable[f].ref = 1 /\ 0 \in Nat
    BY <1>4, <1>5, <1>11, SMT
  <2>2. z \in [ref : Nat, ip : Pointers] /\ z.ref = 0
    BY <2>1 DEF Pointers
  <2>3. Loc(k, "iput", NoCall, <<>>, None, None, None, ftable[f].ip, "idle")
    <3>1. "iput" \in Points \cup Putters
      BY DEF Putters
    <3> QED
      BY <1>4, <3>1, RestLoc DEF Loc, Local
  <2> HIDE DEF z, k
  <2>4. Change(ftable[f].ref, z.ref, One(ofile[p][fd] = f), One(None = f))
    BY <1>9, <2>1, <2>2, SMT DEF Change, One
  <2>5. Hands(l, ftable[f], k, z)
    BY <1>3, <2>1, <2>2, <2>3, Numbers, SMT DEF Loc, Held, One, FileAt, Hands
  <2>6. z.ref > 0 => z.ip # None
    BY <2>2, SMT
  <2>7. ftable[f].ip # None
    BY <1>6, Numbers
  <2>8. Controlled(k, cwd[p])
    BY <1>3, <2>3, <2>7 DEF Loc, Controlled, Point, Putters, HasDp, HasIp
  <2> QED
    BY <1>4, <1>7, <1>8, <1>9, <1>11, <2>2, <2>3, <2>4, <2>5, <2>6, <2>8, FileStep DEF Loc
<1> QED
  BY <1>7, <1>10, <1>11

\* filedup(): a file has one descriptor more.
LEMMA DupRefInv ==
  ASSUME RefInv, NEW p \in Procs, NEW fd \in Fds, Dup(p, fd)
  PROVE  RefInv'
<1> DEFINE l == proc[p]
           f == ofile[p][fd]
           g == Min(FreeFds(p))
           e == [ftable[f] EXCEPT !.ref = ftable[f].ref + 1]
<1>1. /\ Typed /\ l \in Local /\ Controlled(l, cwd[p]) /\ proc \in [Procs -> Local]
      /\ icache \in [Slots -> Entry] /\ ftable \in [Files -> [ref : Nat, ip : Pointers]]
      /\ f \in Files \cup {None} /\ FilesExact
  BY AtFacts DEF Typed, RefInv
<1>2. f # None /\ FreeFds(p) # {}
  BY DEF Dup
<1>3. /\ f \in Files /\ ftable[f] \in [ref : Nat, ip : Pointers]
      /\ ftable[f].ref \in Nat /\ ftable[f].ip \in Pointers
  BY <1>1, <1>2
<1>4. ftable[f].ref > 0
  <2>1. <<p, fd>> \in Descs(ofile, f)
    BY DEF Descs
  <2>2. Cardinality(Descs(ofile, f)) # 0
    BY <2>1, Counts, FS_EmptySet
  <2>3. ftable[f].ref = Cardinality(Descs(ofile, f))
    BY <1>1, <1>3 DEF FilesExact
  <2> QED
    BY <1>3, <2>2, <2>3, SMT
<1>5. ftable[f].ip \in Slots
  BY <1>3, <1>4, FileCached
<1>6. g \in Fds /\ ofile[p][g] = None
  <2>1. FreeFds(p) \subseteq Nat
    BY FdNumbers DEF FreeFds
  <2>2. g \in FreeFds(p)
    BY <1>2, <2>1, MinIn
  <2> QED
    BY <2>2 DEF FreeFds
<1>7. /\ ofile' = [ofile EXCEPT ![p][g] = f]
      /\ UNCHANGED <<dinode, dir, icache, cwd, panicked>> /\ proc' = proc
      /\ ftable' = [ftable EXCEPT ![f] = e]
  BY <1>1, <1>3 DEF Dup
<1> HIDE DEF g
<1>8. icache' \in [Slots -> Entry] /\ SameRefs(icache, icache')
  BY <1>1, <1>7 DEF SameRefs
<1>9. f \in {f, None} /\ ofile[p][g] \in {f, None} /\ UNCHANGED <<dinode, dir, cwd>>
  BY <1>6, <1>7
<1>10. ftable[f].ref + 1 \in Nat /\ ftable[f].ref + 1 > 0
  BY <1>3, SMT
<1>11. e \in [ref : Nat, ip : Pointers] /\ e.ref = ftable[f].ref + 1 /\ e.ip = ftable[f].ip
  BY <1>3, <1>10
<1>12. proc' = [proc EXCEPT ![p] = l]
  BY <1>1, <1>7
<1> HIDE DEF e
<1>13. Change(ftable[f].ref, e.ref, One(ofile[p][g] = f), One(f = f))
  BY <1>2, <1>3, <1>6, <1>11, SMT DEF Change, One
<1>14. Hands(l, ftable[f], l, e)
  BY <1>4, <1>10, <1>11 DEF FileAt, Hands
<1>15. e.ref > 0 => e.ip # None
  BY <1>5, <1>11, Numbers
<1> HIDE DEF l
<1> QED
  BY <1>1, <1>3, <1>6, <1>7, <1>8, <1>9, <1>11, <1>12, <1>13, <1>14, <1>15, FileStep DEF l

\* sys_unlink() gets the inode of the name, or puts the directory.
LEMMA UnlinkRefInv ==
  ASSUME RefInv, NEW p \in Procs, Unlink(p)
  PROVE  RefInv'
<1> DEFINE l == proc[p]
           s == l.dp
           i == dir[icache[s].inum][Head(l.rest)]
           c == [icache EXCEPT ![s] = ilock(p, s)]
           d == [icache EXCEPT ![s] = Seen(p, s)]
           n == SlotFor(c, i)
           k == [l EXCEPT !.pc = "unlinklock", !.ip = n]
<1>1. /\ Typed /\ CacheOK(icache) /\ l \in Local /\ Controlled(l, cwd[p])
      /\ icache \in [Slots -> Entry] /\ OnDisk(dinode, dir)
      /\ cwd \in [Procs -> Pointers] /\ AgreeBut(cwd, cwd, Procs, p)
  BY AtFacts
<1>2. l.pc = "unlink"
  BY DEF Unlink, At
<1>3. /\ l.put = None /\ s # None /\ l.at = None /\ l.ip = None /\ cwd[p] # None
      /\ l.rest \in Paths /\ Len(l.rest) = 1 /\ l.call \in Calls
  BY <1>1, <1>2 DEF Controlled, Point, Putters, HasDp, HasIp
<1>4. s \in Slots
  BY <1>1, <1>3, LocalFields DEF Pointers
<1>5. icache[s].inum \in Inums /\ icache[s].inum # None
  BY <1>4, HeldCached
<1>6. Kept(ilock(p, s), icache[s]) /\ Kept(Seen(p, s), icache[s])
  BY <1>1, <1>4, <1>5, IlockKept
<1>7. /\ c \in [Slots -> Entry] /\ SameRefs(icache, c) /\ CacheOK(c)
  BY <1>1, <1>4, <1>6, EntrySet
<1>8. d \in [Slots -> Entry] /\ SameRefs(icache, d)
  BY <1>1, <1>4, <1>6, EntrySet
<1>9. Head(l.rest) \in Names
  <2> HIDE DEF l
  <2> QED
    BY <1>3, PathFacts
<1>10. i \in Inums \cup {None}
  BY <1>1, <1>5, <1>9 DEF OnDisk
<1>11. \/ Panic("ilock") \/ Panic("iget")
       \/ /\ icache' = d /\ proc' = [proc EXCEPT ![p] = Putting(l, "dp", "idle")]
          /\ UNCHANGED <<dinode, dir, files, cwd, panicked>>
       \/ /\ i # None /\ SlotFor(icache, i) # None
          /\ icache' = iget(c, i) /\ proc' = [proc EXCEPT ![p] = k]
          /\ UNCHANGED <<dinode, dir, files, cwd, panicked>>
  BY DEF Unlink, Locking, Getting
<1> HIDE DEF c, d, i
<1>12. CASE Panic("ilock") \/ Panic("iget")
  BY <1>12, PanicStep
<1>13. CASE /\ icache' = d /\ proc' = [proc EXCEPT ![p] = Putting(l, "dp", "idle")]
            /\ UNCHANGED <<dinode, dir, files, cwd, panicked>>
  <2>1. l.pc \in HasDp
    BY <1>2 DEF HasDp
  <2>2. UNCHANGED <<files, cwd>> /\ OnDisk(dinode', dir')
    BY <1>1, <1>13
  <2> QED
    BY <1>3, <1>8, <1>13, <2>1, <2>2, PutDpStep
<1>14. CASE /\ i # None /\ SlotFor(icache, i) # None
            /\ icache' = iget(c, i) /\ proc' = [proc EXCEPT ![p] = k]
            /\ UNCHANGED <<dinode, dir, files, cwd, panicked>>
  <2>1. i \in Inums
    BY <1>10, <1>14
  <2>2. /\ n \in Slots /\ n # None /\ icache' \in [Slots -> Entry]
        /\ Gets(icache, icache', n, i)
    BY <1>7, <1>14, <2>1, IgetAfter
  <2> HIDE DEF n
  <2>3. Loc(k, "unlinklock", l.call, l.rest, None, s, n, None, l.then)
    <3>1. "unlinklock" \in Points \cup Putters /\ n \in Pointers
      BY <2>2 DEF Points, HasDp, Pointers
    <3> QED
      BY <1>1, <1>3, <3>1 DEF Loc, Local
  <2> HIDE DEF k
  <2>4. Controlled(k, cwd[p])
    BY <1>3, <2>2, <2>3 DEF Loc, Controlled, Point, Putters, HasDp, HasIp
  <2>5. Moves(l, cwd[p], k, cwd[p], n)
    BY <1>3, <2>2, <2>3, Numbers, SMT DEF Loc, Moves, Held, One
  <2> QED
    BY <1>1, <1>14, <2>1, <2>2, <2>3, <2>4, <2>5, GetStep DEF Loc
<1> QED
  BY <1>11, <1>12, <1>13, <1>14

\* dirlink() gets the inode of a name that exists; else the directory is put.
LEMMA LinkRefInv ==
  ASSUME RefInv, NEW p \in Procs, Link(p)
  PROVE  RefInv'
<1> DEFINE l == proc[p]
           s == l.dp
           name == Head(l.rest)
           i == dir[icache[s].inum][name]
           c == [icache EXCEPT ![s] = ilock(p, s)]
           d == [icache EXCEPT ![s] = Seen(p, s)]
           n == SlotFor(c, i)
           k == [l EXCEPT !.pc = "iput", !.put = n, !.then = "linkbad"]
<1>1. /\ Typed /\ CacheOK(icache) /\ l \in Local /\ Controlled(l, cwd[p])
      /\ icache \in [Slots -> Entry] /\ OnDisk(dinode, dir)
      /\ cwd \in [Procs -> Pointers] /\ AgreeBut(cwd, cwd, Procs, p)
  BY AtFacts
<1>2. l.pc = "link"
  BY DEF Link, At
<1>3. /\ l.put = None /\ s # None /\ l.at = None /\ l.ip # None /\ cwd[p] # None
      /\ l.rest \in Paths /\ Len(l.rest) = 1 /\ l.call \in Calls
  BY <1>1, <1>2 DEF Controlled, Point, Putters, HasDp, HasIp
<1>4. s \in Slots /\ l.ip \in Slots
  BY <1>1, <1>3, LocalFields DEF Pointers
<1>5. icache[s].inum \in Inums /\ icache[s].inum # None /\ icache[l.ip].inum \in Inums
  BY <1>4, HeldCached
<1>6. Kept(ilock(p, s), icache[s]) /\ Kept(Seen(p, s), icache[s])
  BY <1>1, <1>4, <1>5, IlockKept
<1>7. /\ c \in [Slots -> Entry] /\ SameRefs(icache, c) /\ CacheOK(c)
  BY <1>1, <1>4, <1>6, EntrySet
<1>8. d \in [Slots -> Entry] /\ SameRefs(icache, d)
  BY <1>1, <1>4, <1>6, EntrySet
<1>9. name \in Names
  <2> HIDE DEF l
  <2> QED
    BY <1>3, PathFacts
<1>10. i \in Inums \cup {None}
  BY <1>1, <1>5, <1>9 DEF OnDisk
<1>11. \/ Panic("ilock") \/ Panic("iget")
       \/ /\ icache' = d /\ proc' = [proc EXCEPT ![p] = Putting(l, "dp", "linkput")]
          /\ dir' = [dir EXCEPT ![icache[s].inum][name] = icache[l.ip].inum]
          /\ UNCHANGED <<dinode, files, cwd, panicked>>
       \/ /\ i # None /\ SlotFor(icache, i) # None
          /\ icache' = iget(c, i) /\ proc' = [proc EXCEPT ![p] = k]
          /\ UNCHANGED <<dinode, dir, files, cwd, panicked>>
  BY DEF Link, Locking, Getting
<1> HIDE DEF c, d, i, name
<1>12. CASE Panic("ilock") \/ Panic("iget")
  BY <1>12, PanicStep
<1>13. CASE /\ icache' = d /\ proc' = [proc EXCEPT ![p] = Putting(l, "dp", "linkput")]
            /\ dir' = [dir EXCEPT ![icache[s].inum][name] = icache[l.ip].inum]
            /\ UNCHANGED <<dinode, files, cwd, panicked>>
  <2>1. l.pc \in HasDp
    BY <1>2 DEF HasDp
  <2>2. UNCHANGED <<files, cwd>> /\ OnDisk(dinode', dir')
    BY <1>1, <1>5, <1>9, <1>13 DEF OnDisk
  <2> QED
    BY <1>3, <1>8, <1>13, <2>1, <2>2, PutDpStep
<1>14. CASE /\ i # None /\ SlotFor(icache, i) # None
            /\ icache' = iget(c, i) /\ proc' = [proc EXCEPT ![p] = k]
            /\ UNCHANGED <<dinode, dir, files, cwd, panicked>>
  <2>1. i \in Inums
    BY <1>10, <1>14
  <2>2. /\ n \in Slots /\ n # None /\ icache' \in [Slots -> Entry]
        /\ Gets(icache, icache', n, i)
    BY <1>7, <1>14, <2>1, IgetAfter
  <2> HIDE DEF n
  <2>3. Loc(k, "iput", l.call, l.rest, None, s, l.ip, n, "linkbad")
    <3>1. "iput" \in Points \cup Putters /\ n \in Pointers /\ "linkbad" \in Points
      BY <2>2 DEF Points, HasDp, Putters, Pointers
    <3> QED
      BY <1>1, <1>3, <3>1 DEF Loc, Local
  <2> HIDE DEF k
  <2>4. Controlled(k, cwd[p])
    BY <1>3, <2>2, <2>3 DEF Loc, Controlled, Point, Putters, HasDp, HasIp
  <2>5. Moves(l, cwd[p], k, cwd[p], n)
    BY <1>3, <2>2, <2>3, Numbers, SMT DEF Loc, Moves, Held, One
  <2> QED
    BY <1>1, <1>14, <2>1, <2>2, <2>3, <2>4, <2>5, GetStep DEF Loc
<1> QED
  BY <1>11, <1>12, <1>13, <1>14

\* sys_unlink() refuses, or erases the name and puts the directory.
LEMMA UnlinkLockRefInv ==
  ASSUME RefInv, NEW p \in Procs, UnlinkLock(p)
  PROVE  RefInv'
<1> DEFINE l == proc[p]
           s == l.ip
           t == l.dp
           r == ilock(p, s)
           d == icache[t]
           nlink == IF r.type = "dir" THEN d.nlink - 1 ELSE d.nlink
           c == [icache EXCEPT ![s] = r, ![t].nlink = nlink, ![t].lock = "none"]
           e == [icache EXCEPT ![s] = Seen(p, s)]
<1>1. /\ Typed /\ l \in Local /\ Controlled(l, cwd[p])
      /\ icache \in [Slots -> Entry] /\ OnDisk(dinode, dir)
  BY AtFacts
<1>2. l.pc = "unlinklock"
  BY DEF UnlinkLock, At
<1>3. l.put = None /\ t # None /\ s # None /\ l.rest \in Paths
  BY <1>1, <1>2 DEF Controlled, Point, Putters, HasDp, HasIp
<1>4. s \in Slots /\ t \in Slots
  BY <1>1, <1>3, LocalFields DEF Pointers
<1>5. icache[s].inum # None /\ d.inum \in Inums /\ d \in Entry
  BY <1>4, HeldCached
<1>6. Kept(r, icache[s]) /\ Kept(Seen(p, s), icache[s])
  BY <1>1, <1>4, <1>5, IlockKept
<1>7. e \in [Slots -> Entry] /\ SameRefs(icache, e)
  <2>1. Kept(Seen(p, s), icache[s]) /\ s \in Slots /\ icache \in [Slots -> Entry]
    BY <1>1, <1>4, <1>6
  <2> HIDE DEF s, t
  <2> QED
    BY <2>1, EntrySet
<1>8. nlink \in Int
  <2>1. d.nlink \in Int
    BY <1>5, EntryFields
  <2> QED
    BY <2>1, SMT
<1>9. Head(l.rest) \in Names
  <2> HIDE DEF l
  <2> QED
    BY <1>3, PathFacts
<1>10. \/ Panic("ilock") \/ Panic("unlink")
       \/ /\ icache' = e /\ proc' = [proc EXCEPT ![p] = Putting(l, "ip", "unlinkbad")]
          /\ UNCHANGED <<dinode, dir, files, cwd, panicked>>
       \/ /\ dir' = [dir EXCEPT ![d.inum][Head(l.rest)] = None]
          /\ dinode' = [dinode EXCEPT ![d.inum].nlink = nlink]
          /\ icache' = c /\ proc' = [proc EXCEPT ![p] = Putting(l, "dp", "unlinkdec")]
          /\ UNCHANGED <<files, cwd, panicked>>
  BY DEF UnlinkLock, Locking
<1>11. c \in [Slots -> Entry] /\ SameRefs(icache, c)
  <2> DEFINE c1 == [icache EXCEPT ![s] = r]
             u1 == [c1[t] EXCEPT !.nlink = nlink]
             u2 == [u1 EXCEPT !.lock = "none"]
  <2>1. c1 \in [Slots -> Entry] /\ SameRefs(icache, c1)
    <3>1. Kept(r, icache[s]) /\ s \in Slots /\ icache \in [Slots -> Entry]
      BY <1>1, <1>4, <1>6
    <3> HIDE DEF r, s, t
    <3> QED
      BY <3>1, EntrySet
  <2>2. c = [c1 EXCEPT ![t].nlink = nlink, ![t].lock = "none"]
    OBVIOUS
  <2> HIDE DEF c, c1, nlink
  <2>3. u1 \in Entry /\ u1.inum = c1[t].inum /\ u1.ref = c1[t].ref
    BY <1>4, <1>8, <2>1, NlinkSet
  <2>4. Kept(u2, c1[t])
    <3> HIDE DEF u1
    <3>1. "none" \in Procs \cup {"none"}
      OBVIOUS
    <3>2. u2 \in Entry /\ u2.inum = u1.inum /\ u2.ref = u1.ref
      BY <2>3, <3>1, LockSet
    <3> QED
      BY <2>3, <3>2 DEF Kept
  <2>5. c = [c1 EXCEPT ![t] = u2]
    BY <1>4, <2>1, <2>2
  <2> HIDE DEF u1, u2
  <2>6. c \in [Slots -> Entry] /\ SameRefs(c1, c)
    BY <1>4, <2>1, <2>4, <2>5, EntrySet
  <2> QED
    BY <2>1, <2>6 DEF SameRefs
<1> HIDE DEF c, e, nlink, r
<1>12. CASE Panic("ilock") \/ Panic("unlink")
  BY <1>12, PanicStep
<1>13. CASE /\ icache' = e /\ proc' = [proc EXCEPT ![p] = Putting(l, "ip", "unlinkbad")]
            /\ UNCHANGED <<dinode, dir, files, cwd, panicked>>
  <2>1. l.pc \in HasIp /\ l.pc # "chdirset" /\ "unlinkbad" \in {"idle", "unlinkbad"}
    BY <1>2 DEF HasIp
  <2>2. UNCHANGED <<files, cwd>> /\ OnDisk(dinode', dir')
    BY <1>1, <1>13
  <2> QED
    BY <1>3, <1>7, <1>13, <2>1, <2>2, PutIpStep
<1>14. CASE /\ dir' = [dir EXCEPT ![d.inum][Head(l.rest)] = None]
            /\ dinode' = [dinode EXCEPT ![d.inum].nlink = nlink]
            /\ icache' = c /\ proc' = [proc EXCEPT ![p] = Putting(l, "dp", "unlinkdec")]
            /\ UNCHANGED <<files, cwd, panicked>>
  <2>1. l.pc \in HasDp
    BY <1>2 DEF HasDp
  <2>2. UNCHANGED <<files, cwd>> /\ OnDisk(dinode', dir')
    <3>1. [dinode[d.inum] EXCEPT !.nlink = nlink] \in [type : Types, nlink : Int]
      BY <1>1, <1>5, <1>8 DEF OnDisk
    <3>2. dinode' = [dinode EXCEPT ![d.inum] = [dinode[d.inum] EXCEPT !.nlink = nlink]]
      BY <1>1, <1>5, <1>14 DEF OnDisk
    <3>3. dinode' \in [Inums -> [type : Types, nlink : Int]]
      BY <1>1, <1>5, <3>1, <3>2 DEF OnDisk
    <3>4. dir' \in [Inums -> [Names -> Inums \cup {None}]]
      BY <1>1, <1>5, <1>9, <1>14 DEF OnDisk
    <3> QED
      BY <1>14, <3>3, <3>4 DEF OnDisk
  <2> QED
    BY <1>3, <1>11, <1>14, <2>1, <2>2, PutDpStep
<1> QED
  BY <1>10, <1>12, <1>13, <1>14

\* sys_link() counts the link and starts on the new path, or refuses.
LEMMA LinkIncRefInv ==
  ASSUME RefInv, NEW p \in Procs, LinkInc(p)
  PROVE  RefInv'
<1> DEFINE l == proc[p]
           s == l.ip
           r == Seen(p, s)
           up == [r EXCEPT !.nlink = @ + 1]
           c == [icache EXCEPT ![s] = up]
           e == [icache EXCEPT ![s] = r]
           n == StartSlot(p, c, l.call)
           d == StartCache(p, c, l.call)
           k == [l EXCEPT !.pc = "namex", !.rest = l.call.new, !.at = n]
<1>1. /\ Typed /\ CacheOK(icache) /\ l \in Local /\ Controlled(l, cwd[p])
      /\ icache \in [Slots -> Entry] /\ OnDisk(dinode, dir)
      /\ cwd \in [Procs -> Pointers] /\ AgreeBut(cwd, cwd, Procs, p)
      /\ cwd[p] \in Pointers
  BY AtFacts
<1>2. l.pc = "linkinc"
  BY DEF LinkInc, At
<1>3. /\ l.put = None /\ l.dp = None /\ l.at = None /\ s # None /\ cwd[p] # None
      /\ l.call \in Calls /\ l.call.op = "link"
  BY <1>1, <1>2 DEF Controlled, Point, Putters, HasDp, HasIp
<1>4. s \in Slots /\ cwd[p] \in Slots
  BY <1>1, <1>3, LocalFields DEF Pointers
<1>5. icache[s].inum \in Inums /\ icache[s].inum # None /\ icache[cwd[p]].ref > 0
  BY <1>4, HeldCached
<1>6. Kept(r, icache[s])
  BY <1>1, <1>4, <1>5, IlockKept
<1>7. e \in [Slots -> Entry] /\ SameRefs(icache, e)
  BY <1>1, <1>4, <1>6, EntrySet
<1>8. \/ Panic("ilock")
      \/ /\ icache' = e
         /\ proc' = [proc EXCEPT ![p] = Putting(l, "ip", "idle")]
         /\ UNCHANGED <<dinode, dir, files, cwd, panicked>>
      \/ /\ dinode' = iupdate(dinode, up) /\ icache' = d
         /\ proc' = [proc EXCEPT ![p] = k]
         /\ UNCHANGED <<dir, files, cwd, panicked>>
  BY DEF LinkInc, Locking
<1>9. Kept(up, icache[s])
  <2> HIDE DEF r
  <2>1. r.nlink \in Int
    BY <1>6, EntryFields DEF Kept
  <2>2. r.nlink + 1 \in Int
    BY <2>1, SMT
  <2>3. up \in Entry /\ up.inum = r.inum /\ up.ref = r.ref
    BY <1>6, <2>2, NlinkSet DEF Kept
  <2> QED
    BY <1>6, <2>3 DEF Kept
<1> HIDE DEF r, up, e
<1>10. c \in [Slots -> Entry] /\ SameRefs(icache, c) /\ CacheOK(c)
  BY <1>1, <1>4, <1>9, EntrySet
<1> HIDE DEF c
<1>11. CASE Panic("ilock")
  BY <1>11, PanicStep
<1>12. CASE /\ icache' = e
            /\ proc' = [proc EXCEPT ![p] = Putting(l, "ip", "idle")]
            /\ UNCHANGED <<dinode, dir, files, cwd, panicked>>
  <2>1. l.pc \in HasIp /\ l.pc # "chdirset" /\ "idle" \in {"idle", "unlinkbad"}
    BY <1>2 DEF HasIp
  <2>2. UNCHANGED <<files, cwd>> /\ OnDisk(dinode', dir')
    BY <1>1, <1>12
  <2> QED
    BY <1>3, <1>7, <1>12, <2>1, <2>2, PutIpStep
<1>13. CASE /\ dinode' = iupdate(dinode, up) /\ icache' = d
            /\ proc' = [proc EXCEPT ![p] = k]
            /\ UNCHANGED <<dir, files, cwd, panicked>>
  <2>2. c[cwd[p]].ref > 0
    BY <1>4, <1>5, <1>10 DEF SameRefs
  <2>3. /\ n \in Slots /\ c[n].inum \in Inums /\ CacheOK(d) /\ Gets(c, d, n, c[n].inum)
    BY <1>4, <1>10, <2>2, StartGets
  <2> HIDE DEF n, d
  <2>4. Gets(icache, icache', n, c[n].inum) /\ icache' \in [Slots -> Entry]
    BY <1>10, <1>13, <2>3, SameGets DEF CacheOK
  <2>5. OnDisk(dinode', dir')
    BY <1>1, <1>5, <1>9, <1>13, UpdateTyped DEF Kept
  <2>6. Loc(k, "namex", l.call, l.call.new, n, None, s, None, l.then)
    <3>1. "namex" \in Points \cup Putters /\ n \in Pointers /\ l.call.new \in Paths
      BY <1>3, <2>3, CallFacts DEF Points, Pointers
    <3> QED
      BY <1>1, <1>3, <3>1 DEF Loc, Local
  <2>7. n # None /\ l.call.new \in Paths
    BY <1>3, <2>3, Numbers, CallFacts
  <2> HIDE DEF k
  <2>8. Controlled(k, cwd[p])
    BY <1>3, <2>6, <2>7 DEF Loc, Controlled, Point, Putters, HasDp, HasIp
  <2>9. Moves(l, cwd[p], k, cwd[p], n)
    BY <1>3, <2>3, <2>6, Numbers, SMT DEF Loc, Moves, Held, One
  <2> QED
    BY <1>1, <1>13, <2>3, <2>4, <2>5, <2>6, <2>8, <2>9, GetStep DEF Loc
<1> QED
  BY <1>8, <1>11, <1>12, <1>13

\* create() gets the inode of the name, or one it allocates, and puts the directory.
LEMMA CreateRefInv ==
  ASSUME RefInv, NEW p \in Procs, Create(p)
  PROVE  RefInv'
<1> DEFINE l == proc[p]
           s == l.dp
           r == Seen(p, s)
           c == [icache EXCEPT ![s] = r]
           name == Head(l.rest)
           i == dir[r.inum][name]
           new == Min(FreeInodes)
           type == CASE l.call.op = "mkdir" -> "dir" [] l.call.op = "mknod" -> "dev"
                     [] OTHER -> "file"
           nlink == IF type = "dir" THEN r.nlink + 1 ELSE r.nlink
           n == SlotFor(c, new)
           m == SlotFor(c, i)
           g == iget(c, new)
           h == [g EXCEPT ![s].nlink = nlink,
                     ![n] = [@ EXCEPT !.lock = p, !.valid = TRUE,
                                      !.type = type, !.nlink = 1]]
           t == IF type = "file" THEN "opened" ELSE "made"
<1>1. /\ Typed /\ CacheOK(icache) /\ l \in Local /\ Controlled(l, cwd[p])
      /\ icache \in [Slots -> Entry] /\ OnDisk(dinode, dir)
      /\ cwd \in [Procs -> Pointers] /\ AgreeBut(cwd, cwd, Procs, p)
  BY AtFacts
<1>2. l.pc = "create"
  BY DEF Create, At
<1>3. /\ l.put = None /\ s # None /\ l.at = None /\ l.ip = None /\ cwd[p] # None
      /\ l.rest \in Paths /\ Len(l.rest) = 1 /\ l.call \in Calls
  BY <1>1, <1>2 DEF Controlled, Point, Putters, HasDp, HasIp
<1>4. s \in Slots
  BY <1>1, <1>3, LocalFields DEF Pointers
<1>5. icache[s].inum \in Inums /\ icache[s].inum # None
  BY <1>4, HeldCached
<1>6. Kept(r, icache[s])
  BY <1>1, <1>4, <1>5, IlockKept
<1>7. /\ c \in [Slots -> Entry] /\ SameRefs(icache, c) /\ CacheOK(c)
  BY <1>1, <1>4, <1>6, EntrySet
<1>8. name \in Names
  <2> HIDE DEF l
  <2> QED
    BY <1>3, PathFacts
<1>9. i \in Inums \cup {None}
  BY <1>1, <1>5, <1>6, <1>8 DEF OnDisk, Kept
<1>10. type \in {"dir", "dev", "file"}
  OBVIOUS
<1>11. \/ Panic("ilock") \/ Panic("iget") \/ Panic("ialloc")
       \/ /\ i # None /\ SlotFor(icache, i) # None
          /\ icache' = iget(c, i)
          /\ proc' = [proc EXCEPT ![p] = [Putting(l, "dp", "open") EXCEPT !.ip = m]]
          /\ UNCHANGED <<dinode, dir, files, cwd, panicked>>
       \/ /\ FreeInodes # {} /\ SlotFor(icache, new) # None
          /\ dinode' = [dinode EXCEPT ![new] = [type |-> type, nlink |-> 1],
                                      ![r.inum].nlink = nlink]
          /\ dir' = [dir EXCEPT ![r.inum][name] = new,
                     ![new][".."] = IF type = "dir" THEN r.inum ELSE None]
          /\ icache' = h
          /\ proc' = [proc EXCEPT ![p] = [Putting(l, "dp", t) EXCEPT !.ip = n]]
          /\ UNCHANGED <<files, cwd, panicked>>
  <2> HIDE DEF type
  <2> QED
    BY DEF Create, Locking, Getting, type
<1>12. nlink \in Int
  <2> HIDE DEF r, type
  <2>1. r.nlink \in Int
    BY <1>6, EntryFields DEF Kept
  <2> QED
    BY <2>1, SMT
<1> HIDE DEF r, c, i, type, nlink, name, new, h
<1>13. CASE Panic("ilock") \/ Panic("iget") \/ Panic("ialloc")
  BY <1>13, PanicStep
<1>14. CASE /\ i # None /\ SlotFor(icache, i) # None
            /\ icache' = iget(c, i)
            /\ proc' = [proc EXCEPT ![p] = [Putting(l, "dp", "open") EXCEPT !.ip = m]]
            /\ UNCHANGED <<dinode, dir, files, cwd, panicked>>
  <2> DEFINE k == [Putting(l, "dp", "open") EXCEPT !.ip = m]
  <2>1. i \in Inums
    BY <1>9, <1>14
  <2>2. /\ m \in Slots /\ m # None /\ icache' \in [Slots -> Entry]
        /\ Gets(icache, icache', m, i)
    BY <1>7, <1>14, <2>1, IgetAfter
  <2> HIDE DEF m
  <2>3. Loc(k, "iput", l.call, l.rest, None, None, m, s, "open")
    BY <1>1, <1>3, <2>2, PutDpLoc
  <2> HIDE DEF k
  <2>4. Controlled(k, cwd[p])
    BY <1>3, <2>2, <2>3 DEF Loc, Controlled, Point, Putters, HasDp, HasIp
  <2>5. Moves(l, cwd[p], k, cwd[p], m)
    BY <1>3, <1>4, <2>2, <2>3, Numbers, SMT DEF Loc, Moves, Held, One
  <2> QED
    BY <1>1, <1>14, <2>1, <2>2, <2>3, <2>4, <2>5, GetStep DEF Loc, k
<1>15. CASE /\ FreeInodes # {} /\ SlotFor(icache, new) # None
            /\ dinode' = [dinode EXCEPT ![new] = [type |-> type, nlink |-> 1],
                                        ![r.inum].nlink = nlink]
            /\ dir' = [dir EXCEPT ![r.inum][name] = new,
                       ![new][".."] = IF type = "dir" THEN r.inum ELSE None]
            /\ icache' = h
            /\ proc' = [proc EXCEPT ![p] = [Putting(l, "dp", t) EXCEPT !.ip = n]]
            /\ UNCHANGED <<files, cwd, panicked>>
  <2> DEFINE k == [Putting(l, "dp", t) EXCEPT !.ip = n]
  <2>1. new \in Inums
    <3>1. FreeInodes \subseteq Nat
      BY Numbers DEF FreeInodes
    <3>2. new \in FreeInodes
      BY <1>15, <3>1, MinIn DEF new
    <3> QED
      BY <3>2 DEF FreeInodes
  <2>2. /\ n \in Slots /\ n # None /\ g \in [Slots -> Entry]
        /\ Gets(icache, g, n, new)
    BY <1>7, <1>15, <2>1, IgetAfter
  <2> HIDE DEF n, g
  <2>3. h \in [Slots -> Entry] /\ SameRefs(g, h)
    <3> DEFINE u == [g[s] EXCEPT !.nlink = nlink]
               g1 == [g EXCEPT ![s] = u]
               v == [g1[n] EXCEPT !.lock = p, !.valid = TRUE, !.type = type, !.nlink = 1]
    <3>1. Kept(u, g[s])
      BY <1>4, <1>12, <2>2, NlinkSet DEF Kept
    <3>2. h = [g EXCEPT ![s].nlink = nlink,
                     ![n] = [@ EXCEPT !.lock = p, !.valid = TRUE,
                                      !.type = type, !.nlink = 1]]
      BY DEF h
    <3>3. h = [g1 EXCEPT ![n] = v]
      BY <1>4, <2>2, <3>2
    <3> HIDE DEF u
    <3>4. g1 \in [Slots -> Entry] /\ SameRefs(g, g1)
      BY <1>4, <2>2, <3>1, EntrySet
    <3> HIDE DEF g1
    <3>5. Kept(v, g1[n])
      <4>1. g1[n] \in Entry /\ type \in Types /\ 1 \in Int
        BY <1>10, <2>2, <3>4, SMT DEF Types
      <4> QED
        BY <4>1 DEF Entry, Kept
    <3> HIDE DEF v
    <3>6. h \in [Slots -> Entry] /\ SameRefs(g1, h)
      BY <2>2, <3>3, <3>4, <3>5, EntrySet
    <3> QED
      BY <3>4, <3>6 DEF SameRefs
  <2>4. Gets(icache, icache', n, new) /\ icache' \in [Slots -> Entry]
    BY <1>15, <2>2, <2>3 DEF Gets, SameRefs
  <2>5. OnDisk(dinode', dir')
    <3>1. r.inum \in Inums
      BY <1>5, <1>6 DEF Kept
    <3>2. dinode' \in [Inums -> [type : Types, nlink : Int]]
      <4> DEFINE d1 == [dinode EXCEPT ![new] = [type |-> type, nlink |-> 1]]
      <4>1. [type |-> type, nlink |-> 1] \in [type : Types, nlink : Int]
        <5>1. type \in Types /\ 1 \in Int
          BY <1>10, SMT DEF Types
        <5> QED
          BY <5>1
      <4>2. d1 \in [Inums -> [type : Types, nlink : Int]]
        BY <1>1, <2>1, <4>1 DEF OnDisk
      <4>3. dinode' = [d1 EXCEPT ![r.inum].nlink = nlink]
        BY <1>15
      <4> HIDE DEF d1
      <4>4. [d1[r.inum] EXCEPT !.nlink = nlink] \in [type : Types, nlink : Int]
        BY <1>12, <3>1, <4>2
      <4>5. dinode' = [d1 EXCEPT ![r.inum] = [d1[r.inum] EXCEPT !.nlink = nlink]]
        BY <3>1, <4>2, <4>3
      <4> QED
        BY <3>1, <4>2, <4>4, <4>5
    <3>3. dir' \in [Inums -> [Names -> Inums \cup {None}]]
      <4> DEFINE d1 == [dir EXCEPT ![r.inum][name] = new]
                 z == IF type = "dir" THEN r.inum ELSE None
      <4>1. d1 \in [Inums -> [Names -> Inums \cup {None}]]
        BY <1>1, <1>8, <2>1, <3>1 DEF OnDisk
      <4>2. dir' = [d1 EXCEPT ![new][".."] = z]
        BY <1>15
      <4>3. z \in Inums \cup {None} /\ ".." \in Names
        BY <3>1 DEF Names
      <4> HIDE DEF d1, z
      <4> QED
        BY <2>1, <4>1, <4>2, <4>3
    <3> QED
      BY <3>2, <3>3 DEF OnDisk
  <2>6. t \in {"opened", "made"}
    OBVIOUS
  <2> HIDE DEF t
  <2>7. Loc(k, "iput", l.call, l.rest, None, None, n, s, t)
    BY <1>1, <1>3, <2>2, <2>6, PutDpLoc
  <2> HIDE DEF k
  <2>8. Controlled(k, cwd[p])
    BY <1>3, <2>2, <2>6, <2>7 DEF Loc, Controlled, Point, Putters, HasDp, HasIp
  <2>9. Moves(l, cwd[p], k, cwd[p], n)
    BY <1>3, <1>4, <2>2, <2>7, Numbers, SMT DEF Loc, Moves, Held, One
  <2> QED
    BY <1>1, <1>15, <2>1, <2>2, <2>4, <2>5, <2>7, <2>8, <2>9, GetStep DEF Loc, k
<1> QED
  BY <1>11, <1>13, <1>14, <1>15

-----------------------------------------------------------------------------
(* The theorem. *)

\* At the start the root is the only entry: a reference for each process, and one for init.
LEMMA InitRefInv == Init => RefInv
<1> SUFFICES ASSUME Init PROVE RefInv
  OBVIOUS
<1> DEFINE N == Cardinality(Procs)
<1>1. N \in Nat /\ N + 1 \in Nat /\ 0 \in Nat /\ 0 \in Int /\ 1 \in Int /\ N + 1 # 0
  <2>1. N \in Nat
    BY Finite, FS_CardinalityType
  <2> HIDE DEF N
  <2> QED
    BY <2>1, SMT
<1> HIDE DEF N
<1>2. 1 \in Slots /\ ROOTINO \in Inums /\ ROOTINO # None /\ None \notin Slots
  BY Numbers
<1>3. /\ icache[1] = Fresh(ROOTINO, N + 1)
      /\ \A s \in Slots \ {1} : icache[s] = Unread
  BY <1>2 DEF Init, Fresh, N
<1>4. /\ Fresh(ROOTINO, N + 1) \in Entry /\ Fresh(ROOTINO, N + 1).inum = ROOTINO
      /\ Fresh(ROOTINO, N + 1).ref = N + 1
  <2>1. ROOTINO \in Inums \cup {None}
    BY <1>2
  <2> QED
    BY <1>1, <2>1, UnreadFields
<1>5. icache \in [Slots -> Entry]
  <2>1. icache = [s \in Slots |-> IF s = 1 THEN Fresh(ROOTINO, N + 1) ELSE Unread]
    BY DEF Init, Fresh, N
  <2> QED
    BY <1>4, <2>1, UnreadIn
<1>6. OnDisk(dinode, dir)
  <2>1. /\ [type |-> "dir", nlink |-> 1] \in [type : Types, nlink : Int]
        /\ [type |-> "free", nlink |-> 0] \in [type : Types, nlink : Int]
    BY <1>1 DEF Types
  <2>2. NoNames \in [Names -> Inums \cup {None}]
    BY DEF NoNames
  <2>3. [NoNames EXCEPT ![".."] = ROOTINO] \in [Names -> Inums \cup {None}]
    BY <1>2, <2>2
  <2> QED
    BY <2>1, <2>2, <2>3 DEF Init, OnDisk
<1>7. \A p \in Procs : proc[p] = AtRest /\ cwd[p] = 1
  BY DEF Init
<1>8. Typed
  <2>1. [ref |-> 0, ip |-> None] \in [ref : Nat, ip : Pointers]
    BY <1>1 DEF Pointers
  <2>2. ftable \in [Files -> [ref : Nat, ip : Pointers]]
    BY <2>1 DEF Init
  <2>3. ofile \in [Procs -> [Fds -> Files \cup {None}]]
    BY DEF Init
  <2>4. cwd \in [Procs -> Pointers]
    BY <1>2 DEF Init, Pointers
  <2>5. AtRest \in Local
    BY RestLoc DEF Loc
  <2>6. proc \in [Procs -> Local]
    BY <2>5 DEF Init
  <2> QED
    BY <1>5, <1>6, <2>2, <2>3, <2>4, <2>6 DEF Typed
<1>9. Control
  <2> SUFFICES ASSUME NEW p \in Procs PROVE Controlled(AtRest, 1)
    BY <1>7 DEF Control
  <2>1. 1 # None
    BY <1>2
  <2> QED
    BY <2>1, RestLoc DEF Loc, Controlled, Point, Putters, HasDp, HasIp
<1>10. Cached
  BY <1>1, <1>2, <1>3, <1>4, UnreadIn DEF Cached
<1>11. \A f \in Files : ftable[f].ref = 0 /\ ~(ftable[f].ref > 0)
  <2>1. \A f \in Files : ftable[f].ref = 0
    BY DEF Init
  <2> QED
    BY <2>1, SMT
<1>12. FilesExact
  <2> SUFFICES ASSUME NEW f \in Files PROVE 0 = Cardinality(Descs(ofile, f))
    BY <1>11 DEF FilesExact
  <2>1. f # None
    BY Numbers
  <2>2. Descs(ofile, f) = {}
    BY <2>1, SMT DEF Descs, Init
  <2> QED
    BY <2>2, FS_EmptySet
<1>13. RefsExact
  <2> SUFFICES ASSUME NEW s \in Slots
               PROVE  icache[s].ref = RefSum(ftable, proc, cwd, icache, s)
    BY RefsAre
  <2>1. Cardinality(FilesAt(ftable, s)) = 0
    <3>1. FilesAt(ftable, s) = {}
      BY <1>11 DEF FilesAt
    <3> QED
      BY <3>1, FS_EmptySet
  <2>2. Cardinality(VarsAt(proc, s)) = 0
    <3>1. \A p \in Procs : /\ proc[p].at # s /\ proc[p].dp # s
                           /\ proc[p].ip # s /\ proc[p].put # s
      BY <1>2, <1>7, RestLoc DEF Loc
    <3>2. VarsAt(proc, s) = {}
      <4> SUFFICES ASSUME NEW p \in Procs, NEW v \in Vars PROVE proc[p][v] # s
        BY SMT DEF VarsAt
      <4>1. v = "at" \/ v = "dp" \/ v = "ip" \/ v = "put"
        BY DEF Vars
      <4> QED
        BY <3>1, <4>1
    <3> QED
      BY <3>2, FS_EmptySet
  <2>3. CASE s = 1
    <3>1. CwdsAt(cwd, s) = Procs
      BY <1>7, <2>3 DEF CwdsAt
    <3>2. icache[s].inum = ROOTINO /\ icache[s].ref = N + 1
      BY <1>3, <1>4, <2>3
    <3>3. Cardinality(CwdsAt(cwd, s)) = N
      BY <3>1 DEF N
    <3> QED
      BY <1>1, <2>1, <2>2, <3>2, <3>3, SMT DEF RefSum, One
  <2>4. CASE s # 1
    <3>1. CwdsAt(cwd, s) = {}
      BY <1>7, <2>4 DEF CwdsAt
    <3>2. icache[s].inum # ROOTINO /\ icache[s].ref = 0
      BY <1>2, <1>3, <2>4, UnreadIn
    <3>3. Cardinality(CwdsAt(cwd, s)) = 0
      BY <3>1, FS_EmptySet
    <3> QED
      BY <2>1, <2>2, <3>2, <3>3, SMT DEF RefSum, One
  <2> QED
    BY <2>3, <2>4
<1> QED
  BY <1>8, <1>9, <1>10, <1>12, <1>13 DEF RefInv

\* Every step of every process preserves the invariant.
LEMMA NextRefInv == RefInv /\ [Next]_vars => RefInv'
<1> SUFFICES ASSUME RefInv, [Next]_vars PROVE RefInv'
  OBVIOUS
<1>1. CASE UNCHANGED vars
  BY <1>1 DEF vars, RefInv, Typed, Control, Cached, FilesExact, RefsExact
<1>2. CASE Next
  <2>1. PICK p \in Procs : Step(p)
    BY <1>2 DEF Next
  <2>2. CASE \E call \in Calls : Call(p, call)
    BY <2>2, CallRefInv
  <2>3. CASE \E fd \in Fds : Close(p, fd) \/ Dup(p, fd)
    BY <2>3, CloseRefInv, DupRefInv
  <2>4. CASE Namex(p)
    BY <2>4, NamexRefInv
  <2>5. CASE Create(p)
    BY <2>5, CreateRefInv
  <2>6. CASE OpenLock(p) \/ Opened(p) \/ Made(p)
    BY <2>6, OpenLockRefInv, OpenedRefInv, MadeRefInv
  <2>7. CASE Unlink(p) \/ UnlinkLock(p) \/ UnlinkBad(p) \/ UnlinkDec(p)
    BY <2>7, UnlinkRefInv, UnlinkLockRefInv, UnlinkBadRefInv, UnlinkDecRefInv
  <2>8. CASE LinkInc(p) \/ Link(p) \/ LinkPut(p) \/ LinkBad(p) \/ LinkUndo(p)
    BY <2>8, LinkIncRefInv, LinkRefInv, LinkPutRefInv, LinkBadRefInv, LinkUndoRefInv
  <2>9. CASE Chdir(p) \/ ChdirSet(p)
    BY <2>9, ChdirRefInv, ChdirSetRefInv
  <2>10. CASE Iput(p) \/ IputFree(p) \/ IputRef(p)
    BY <2>10, IputRefInv, IputFreeRefInv, IputRefRefInv
  <2> QED
    BY <2>1, <2>2, <2>3, <2>4, <2>5, <2>6, <2>7, <2>8, <2>9, <2>10 DEF Step
<1> QED
  BY <1>1, <1>2

\* The references a call holds are the ones its place in the code says, and
\* the counts of entries and of open files agree with what is held.
THEOREM RefInvariance == Spec => []RefInv
<1>1. Init => RefInv
  BY InitRefInv
<1>2. RefInv /\ [Next]_vars => RefInv'
  BY NextRefInv
<1> QED
  BY <1>1, <1>2, PTL DEF Spec

\* ip->ref is exactly the number of pointers to the entry, whatever iget(),
\* idup() and iput() of open, mkdir, mknod, link, unlink, chdir, close and dup
\* overlap, for every number of processes, inodes, entries and files.
THEOREM RefsExactHolds == Spec => []RefsExact
<1>1. RefInv => RefsExact
  BY DEF RefInv
<1> QED
  BY <1>1, RefInvariance, PTL

=============================================================================
