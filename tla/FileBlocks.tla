----------------------------- MODULE FileBlocks -----------------------------
(***************************************************************************)
(* The blocks of files: mkfs.c, which builds the disk, and fs.c, which     *)
(* takes it over: balloc, bfree, bmap with its four kinds of block,        *)
(* itrunc, readi and writei.                                               *)
(*                                                                         *)
(* Contents and offsets are counted in words: a block is NINDIRECT words,  *)
(* which are file data or block numbers, as in the code.  A call holds     *)
(* ip->lock from its start to its end, so there is one at a time for each  *)
(* inode; calls on different inodes meet in the bitmap.  readi and writei  *)
(* make a step for each block (bmap and the copy), itrunc for each bfree.  *)
(***************************************************************************)
EXTENDS Integers, Sequences, FiniteSets, FiniteSetsExt, SequencesExt

CONSTANTS Inodes,     \* files in use
          NDIRECT,    \* fs.h: direct blocks of an inode
          NINDIRECT,  \* fs.h: block numbers in a block
          NBLOCKS,    \* data blocks of the disk, 1..NBLOCKS
          Lengths,    \* per inode: words a call may ask for
          MaxWrites,  \* bound: writes in a behaviour
          Root,       \* the root directory
          Image       \* mkfs: its calls iappend(inum, ., n), as <<inum, n>>

ASSUME BlocksAssumption ==
  /\ NDIRECT \in Nat \ {0} /\ NINDIRECT \in Nat \ {0} /\ NBLOCKS \in Nat
  /\ Lengths \in [Inodes -> SUBSET Nat] /\ MaxWrites \in Nat
  /\ Root \in Inodes /\ Image \in Seq(Inodes \X Nat)

NDINDIRECT == NINDIRECT * NINDIRECT
NTINDIRECT == NDINDIRECT * NINDIRECT
MAXFILE == NDIRECT + NINDIRECT + NDINDIRECT + NTINDIRECT
BSIZE == NINDIRECT                 \* in words
DataBlocks == 1..NBLOCKS           \* numbered from nmeta on
Entries == 0..NINDIRECT - 1
Slots == 0..NDIRECT + 2            \* of ip->addrs

VARIABLES
  addrs, size,   \* per inode
  blk,           \* contents of the data blocks
  used,          \* blocks marked in the bitmap
  call,          \* per inode: the call that holds ip->lock, see Idle
  stamp,         \* counts the writes; also what they write
  panicked,      \* "no", or the function that panicked
  mkfs,          \* the calls of iappend to come, freeblock, and whether mkfs
                 \* is done and the kernel runs
  written        \* history: the words of each file, as they were written
vars == <<addrs, size, blk, used, call, stamp, panicked, mkfs, written>>
disk == <<addrs, blk, used>>

\* tot: words done; got: what readi() has copied.
Idle == [op |-> "idle", off |-> 0, n |-> 0, val |-> 0, tot |-> 0, got |-> <<>>]
Zeroed == [j \in Entries |-> 0]

\* ialloc() has zeroed the inodes, and wsect() the disk.
Init ==
  /\ addrs = [ip \in Inodes |-> [i \in Slots |-> 0]]
  /\ size = [ip \in Inodes |-> 0]
  /\ blk = [b \in DataBlocks |-> Zeroed]
  /\ used = {}
  /\ call = [ip \in Inodes |-> Idle]
  /\ stamp = 0 /\ panicked = "no"
  /\ mkfs = [calls |-> Image, freeblock |-> 1, done |-> FALSE]
  /\ written = [ip \in Inodes |-> <<>>]

Panic(f) == panicked' = f /\ UNCHANGED <<disk, size, call, stamp, mkfs, written>>

\* File f after words w + 1 to w + m have been set to val.
Stored(f, w, m, val) ==
  [i \in 1..Max({Len(f), w + m}) |-> IF i \in w + 1..w + m THEN val ELSE f[i]]
\* A block after the same.
Filled(b, o, m, val) == [j \in Entries |-> IF j \in o..o + m - 1 THEN val ELSE b[j]]

-----------------------------------------------------------------------------
(* bmap *)

\* Mutation of Path: the index of the second level is taken for the third.
PathRepeated(bn) ==
  LET b1 == bn - NDIRECT
      b2 == b1 - NINDIRECT
      b3 == b2 - NDINDIRECT
  IN  IF bn < NDIRECT THEN <<bn>>
      ELSE IF b1 < NINDIRECT THEN <<NDIRECT, b1>>
      ELSE IF b2 < NDINDIRECT
        THEN <<NDIRECT + 1, b2 \div NINDIRECT, b2 % NINDIRECT>>
      ELSE <<NDIRECT + 2, b3 \div NDINDIRECT,
             (b3 % NDINDIRECT) \div NINDIRECT, (b3 % NDINDIRECT) \div NINDIRECT>>

\* Where block bn of a file hangs: a slot of addrs, then an entry of each
\* indirect block on the way.
Path(bn) ==
  LET b1 == bn - NDIRECT
      b2 == b1 - NINDIRECT
      b3 == b2 - NDINDIRECT
  IN  IF bn < NDIRECT THEN <<bn>>
      ELSE IF b1 < NINDIRECT THEN <<NDIRECT, b1>>
      ELSE IF b2 < NDINDIRECT
        THEN <<NDIRECT + 1, b2 \div NINDIRECT, b2 % NINDIRECT>>
      ELSE <<NDIRECT + 2, b3 \div NDINDIRECT,
             (b3 % NDINDIRECT) \div NINDIRECT, (b3 % NDINDIRECT) % NINDIRECT>>

\* balloc() and the reference to the new block, which bzero() has cleared, in
\* entry j of block s.at; s.at = 0 is the inode.
Allocated(s, j, b) ==
  [addrs |-> IF s.at = 0 THEN [s.addrs EXCEPT ![j] = b] ELSE s.addrs,
   blk |-> LET z == [s.blk EXCEPT ![b] = Zeroed] IN
           IF s.at = 0 THEN z ELSE [z EXCEPT ![s.at][j] = b],
   used |-> s.used \cup {b},
   at |-> b]

\* One level of bmap(): go down entry j, allocating the block if there is none;
\* -1 when the disk is full.
Level(s, j) ==
  LET e == IF s.at = 0 THEN s.addrs[j] ELSE s.blk[s.at][j]
      free == DataBlocks \ s.used
  IN  IF s.at = -1 THEN s
      ELSE IF e # 0 THEN [s EXCEPT !.at = e]
      ELSE IF free = {} THEN [s EXCEPT !.at = -1]
      ELSE Allocated(s, j, Min(free))

\* bmap(): the block (at) and what has become of inode, blocks and bitmap.
bmap(ip, bn) ==
  FoldLeft(Level, [addrs |-> addrs[ip], blk |-> blk, used |-> used, at |-> 0],
           Path(bn))
-----------------------------------------------------------------------------
(* mkfs *)

\* iappend() knows direct and single indirect blocks only.
MkPath(fbn) == IF fbn < NDIRECT THEN <<fbn>> ELSE <<NDIRECT, fbn - NDIRECT>>

\* Blocks are handed out in order, freeblock++, and are not yet marked.
MkLevel(s, j) ==
  LET e == IF s.at = 0 THEN s.addrs[j] ELSE s.blk[s.at][j]
  IN  IF e # 0 THEN [s EXCEPT !.at = e]
      ELSE Allocated(s, j, mkfs.freeblock + Cardinality(s.used))

\* The next call of iappend(); each is for data of its own.
Iappend ==
  /\ mkfs.calls # <<>> /\ \A ip \in Inodes : call[ip] = Idle
  /\ LET ip == Head(mkfs.calls)[1] IN
     call' = [call EXCEPT ![ip] = [Idle EXCEPT
                !.op = "append", !.off = size[ip], !.n = Head(mkfs.calls)[2],
                !.val = MaxWrites + Len(mkfs.calls)]]
  /\ mkfs' = [mkfs EXCEPT !.calls = Tail(@)]
  /\ UNCHANGED <<disk, size, stamp, panicked, written>>

\* One turn of its loop.
AppendBlock(ip) ==
  /\ call[ip].op = "append" /\ call[ip].tot < call[ip].n
  /\ LET c == call[ip]
         w == c.off + c.tot
         o == w % BSIZE
         m == Min({c.n - c.tot, BSIZE - o})
         s == FoldLeft(MkLevel, [addrs |-> addrs[ip], blk |-> blk, used |-> {},
                                 at |-> 0], MkPath(w \div BSIZE))
     IN  /\ addrs' = [addrs EXCEPT ![ip] = s.addrs]
         /\ blk' = [s.blk EXCEPT ![s.at] = Filled(@, o, m, c.val)]
         /\ mkfs' = [mkfs EXCEPT !.freeblock = @ + Cardinality(s.used)]
         /\ call' = [call EXCEPT ![ip].tot = @ + m]
         /\ written' = [written EXCEPT ![ip] = Stored(@, w, m, c.val)]
  /\ UNCHANGED <<used, size, stamp, panicked>>

\* winode() of the new size.
AppendDone(ip) ==
  /\ call[ip].op = "append" /\ call[ip].tot = call[ip].n
  /\ size' = [size EXCEPT ![ip] = call[ip].off + call[ip].n]
  /\ call' = [call EXCEPT ![ip] = Idle]
  /\ UNCHANGED <<disk, stamp, panicked, mkfs, written>>

\* mkfs's balloc(): the first blocks are marked.
Bitmap(n) == 1..n - 1

\* The end of mkfs: the root directory's size is rounded up to a block, which
\* makes room for entries that are free, and the bitmap is written.
MkfsDone ==
  /\ mkfs.calls = <<>> /\ ~mkfs.done /\ \A ip \in Inodes : call[ip] = Idle
  /\ LET off == ((size[Root] \div BSIZE) + 1) * BSIZE IN
     /\ size' = [size EXCEPT ![Root] = off]
     /\ written' = [written EXCEPT ![Root] = Stored(@, size[Root], off - size[Root], 0)]
  /\ used' = Bitmap(mkfs.freeblock)
  /\ mkfs' = [mkfs EXCEPT !.done = TRUE]
  /\ UNCHANGED <<addrs, blk, call, stamp, panicked>>
-----------------------------------------------------------------------------
(* readi and writei *)

Begin(ip, op, off, n, val) ==
  /\ mkfs.done /\ panicked = "no" /\ call[ip] = Idle
  /\ call' = [call EXCEPT ![ip] = [Idle EXCEPT !.op = op, !.off = off, !.n = n,
                                               !.val = val]]

\* The calls that return -1 at once change nothing.  Behind off <= size the
\* test off + n < off is never true: MAXFILE*BSIZE and n are below 2^31.
Writei(ip, off, n) ==
  /\ stamp < MaxWrites
  /\ off <= size[ip]
  /\ off + n <= MAXFILE * BSIZE
  /\ Begin(ip, "write", off, n, stamp + 1)
  /\ stamp' = stamp + 1
  /\ UNCHANGED <<disk, size, panicked, mkfs, written>>

Readi(ip, off, n) ==
  /\ off <= size[ip]
  /\ Begin(ip, "read", off, IF off + n > size[ip] THEN size[ip] - off ELSE n, 0)
  /\ UNCHANGED <<disk, size, stamp, panicked, mkfs, written>>

\* One turn of the loops of readi() and writei(): bmap() and memmove() between
\* the caller and the block.  The first m words from o on are copied.
Copy(ip) ==
  /\ panicked = "no"
  /\ call[ip].op \in {"read", "write"} /\ call[ip].tot < call[ip].n
  /\ LET c == call[ip]
         w == c.off + c.tot
         o == w % BSIZE
         m == Min({c.n - c.tot, BSIZE - o})
         s == bmap(ip, w \div BSIZE)
     IN  CASE s.at = -1 -> Panic("balloc")
           [] c.op = "read" /\ s.used # used -> Panic("log_write")
           [] c.op = "read" /\ s.used = used ->
                /\ call' = [call EXCEPT ![ip].tot = @ + m, ![ip].got =
                     @ \o [i \in 1..m |-> blk[s.at][o + i - 1]]]
                /\ UNCHANGED <<disk, size, stamp, panicked, mkfs, written>>
           [] OTHER ->
                /\ addrs' = [addrs EXCEPT ![ip] = s.addrs]
                /\ blk' = [s.blk EXCEPT ![s.at] = Filled(@, o, m, c.val)]
                /\ used' = s.used
                /\ call' = [call EXCEPT ![ip].tot = @ + m]
                /\ written' = [written EXCEPT ![ip] = Stored(@, w, m, c.val)]
                /\ UNCHANGED <<size, stamp, panicked, mkfs>>

\* The end of the call; writei() updates the size.
Return(ip) ==
  /\ panicked = "no"
  /\ call[ip].op \in {"read", "write"} /\ call[ip].tot = call[ip].n
  /\ size' = IF call[ip].op = "write"
               THEN [size EXCEPT ![ip] = Max({@, call[ip].off + call[ip].n})]
               ELSE size
  /\ call' = [call EXCEPT ![ip] = Idle]
  /\ UNCHANGED <<disk, stamp, panicked, mkfs, written>>
-----------------------------------------------------------------------------
(* itrunc *)

\* Of an empty file, which has no blocks, itrunc() changes nothing; the root
\* directory never loses its last link.
Itrunc(ip) == /\ size[ip] > 0 /\ ip # Root
              /\ Begin(ip, "trunc", 0, 0, 0)
              /\ written' = [written EXCEPT ![ip] = <<>>]
              /\ UNCHANGED <<disk, size, stamp, panicked, mkfs>>

\* Levels of indirect blocks under a slot.
Depth(i) == IF i < NDIRECT THEN 0 ELSE i - NDIRECT + 1

\* Mutation of Descend: the loops stop one level short.
DescendShort(c) ==
  LET below == {j \in Entries : blk[c.at][j] # 0} IN
  IF c.depth <= 1 \/ below = {} THEN c
  ELSE [at |-> blk[c.at][Min(below)], depth |-> c.depth - 1,
        from |-> c.at, idx |-> Min(below)]

\* From block c.at, referenced by entry c.idx of block c.from, to the first
\* block below it, if there is one.
Descend(c) ==
  LET below == {j \in Entries : blk[c.at][j] # 0} IN
  IF c.depth = 0 \/ below = {} THEN c
  ELSE [at |-> blk[c.at][Min(below)], depth |-> c.depth - 1,
        from |-> c.at, idx |-> Min(below)]

\* The block that itrunc()'s nested loops free next: the first one, in the
\* order of addrs, that has nothing left below it.  from = 0 is the inode.
Victim(ip) ==
  LET i == Min({k \in Slots : addrs[ip][k] # 0}) IN
  Descend(Descend(Descend([at |-> addrs[ip][i], depth |-> Depth(i),
                           from |-> 0, idx |-> i])))

\* bfree(), and the reference to the block cleared.
TruncFree(ip) ==
  /\ panicked = "no" /\ call[ip].op = "trunc"
  /\ \E k \in Slots : addrs[ip][k] # 0
  /\ LET v == Victim(ip) IN
     IF v.at \notin used THEN Panic("bfree")
     ELSE /\ used' = used \ {v.at}
          /\ IF v.from = 0
               THEN addrs' = [addrs EXCEPT ![ip][v.idx] = 0] /\ UNCHANGED blk
               ELSE blk' = [blk EXCEPT ![v.from][v.idx] = 0] /\ UNCHANGED addrs
          /\ UNCHANGED <<size, call, stamp, panicked, mkfs, written>>

TruncDone(ip) ==
  /\ panicked = "no" /\ call[ip].op = "trunc"
  /\ \A k \in Slots : addrs[ip][k] = 0
  /\ size' = [size EXCEPT ![ip] = 0]
  /\ call' = [call EXCEPT ![ip] = Idle]
  /\ UNCHANGED <<disk, stamp, panicked, mkfs, written>>
-----------------------------------------------------------------------------
\* Where calls begin: the offset of an open file is anywhere up to its end.
Offsets(ip) == {0, size[ip] \div 2, size[ip]}

Next == \/ Iappend \/ MkfsDone
        \/ \E ip \in Inodes :
          \/ AppendBlock(ip) \/ AppendDone(ip)
          \/ Copy(ip) \/ Return(ip)
          \/ \E off \in Offsets(ip), n \in Lengths[ip] :
               Writei(ip, off, n) \/ Readi(ip, off, n)
          \/ Itrunc(ip) \/ TruncFree(ip) \/ TruncDone(ip)

Spec == Init /\ [][Next]_vars
-----------------------------------------------------------------------------
(* Properties. *)

\* Every place of a block in a file, and the block there (0: none).
Places == UNION {{<<i>> \o s : s \in UNION {[1..d -> Entries] :
                                            d \in 0..Depth(i)}} : i \in Slots}
BlockAt(ip, place) ==
  FoldLeft(LAMBDA b, j : IF b = 0 THEN 0 ELSE blk[b][j],
           addrs[ip][Head(place)], Tail(place))
Occupied == {o \in {<<ip, q, BlockAt(ip, q)>> : ip \in Inodes, q \in Places} :
               o[3] # 0}

\* The blocks that hang in some file are exactly those the bitmap marks (while
\* mkfs runs: those below freeblock), and each of them hangs in one place: mkfs
\* and bmap() share no block, itrunc() leaks none and frees none twice.
BlocksOwnedOnce ==
  LET occ == Occupied
      marked == IF mkfs.done THEN used ELSE Bitmap(mkfs.freeblock)
  IN  /\ marked = {o[3] : o \in occ}
      /\ Cardinality(marked) = Cardinality(occ)
      /\ panicked # "bfree"

\* Through direct, indirect, double and triple indirect blocks a file is an
\* array of words: each holds what was last written to it, whatever the calls
\* on this and other files do, and that is what readi() returns.  The kernel
\* continues the files of mkfs; readi(), which runs outside of transactions,
\* never makes bmap() allocate.
FilesAreArrays ==
  /\ panicked # "log_write"
  /\ \A ip \in Inodes :
    /\ \A w \in DOMAIN written[ip] :
         LET b == BlockAt(ip, Path((w - 1) \div BSIZE)) IN
         b # 0 /\ blk[b][(w - 1) % BSIZE] = written[ip][w]
    /\ call[ip].got = SubSeq(written[ip], call[ip].off + 1,
                             call[ip].off + Len(call[ip].got))
    /\ call[ip] = Idle => size[ip] = Len(written[ip])
=============================================================================
