------------------------------- MODULE FileData -------------------------------
(***************************************************************************)
(* The contents of files (kernel/fs.c): block allocation, bmap(), itrunc(), *)
(* readi() and writei(), over a buffer cache and a log that commits the    *)
(* blocks of an operation together (modules Bcache and Log).               *)
(*                                                                         *)
(* One operation runs at a time, as begin_op() has it in this build; each  *)
(* turn of writei()'s loop is a step.                                      *)
(***************************************************************************)
EXTENDS Integers, Sequences, FiniteSets

CONSTANTS
  Files,       \* inodes
  NBlocks,     \* data blocks of the disk
  BSIZE, NDIRECT, NINDIRECT, MAXOPBLOCKS,
  Vals,        \* bytes that users write
  Root         \* the root directory: entries of one byte, never truncated

ASSUME FileDataAssumption ==
  /\ {NBlocks, BSIZE, NDIRECT, NINDIRECT} \subseteq Nat \ {0}
  /\ MAXOPBLOCKS \in Nat /\ MAXOPBLOCKS >= 6
  /\ {0, -1} \cap Vals = {} /\ Root \in Files

Torn == -1      \* no byte
Blocks == 1 .. NBlocks
MAXFILE == NDIRECT + NINDIRECT
MaxBytes == MAXFILE * BSIZE

(* A block holds bytes or, as an indirect block, block numbers: both are    *)
(* functions on its positions.                                             *)
Places == 0 .. (IF BSIZE > NINDIRECT THEN BSIZE ELSE NINDIRECT) - 1
Zeroed == [j \in Places |-> 0]
Stale == [j \in Places |-> Torn]   \* whatever a free block was left with
NoInode == [size |-> 0, addrs |-> [j \in 0 .. NDIRECT |-> 0]]

VARIABLES
  disk, dbitmap, dinode,     \* what a restart would find
  cache, bitmap,             \* blocks as the buffer cache holds them
  inode,                     \* in-memory inodes, changed under ilock()
  tx,                        \* what the running operation has logged
  op,                        \* the running writei(), or Idle
  file                       \* the contents that the callers were promised, with
                             \* Torn for bytes that a failed write may have changed

diskVars == <<disk, dbitmap, dinode>>
memVars == <<cache, bitmap, inode, tx>>
vars == <<diskVars, memVars, op, file>>

Idle == [pc |-> "idle"]

\* The blocks of the disk: data blocks, the bitmap, a block for each inode.
Data(b) == <<"data", b>>
Bitmap == <<"bitmap", 0>>
Ino(f) == <<"inode", f>>

Init ==
  /\ disk = [b \in Blocks |-> Zeroed] /\ dbitmap = {} /\ dinode = [f \in Files |-> NoInode]
  /\ cache = disk /\ bitmap = dbitmap /\ inode = dinode
  /\ tx = {}
  /\ op = Idle
  /\ file = [f \in Files |-> <<>>]

-----------------------------------------------------------------------------
(* The state of blocks and inodes as one record, so that steps compose. *)

Mem == [cache |-> cache, bitmap |-> bitmap, inode |-> inode, tx |-> tx]
SetMem(m) ==
  /\ cache' = m.cache /\ bitmap' = m.bitmap /\ inode' = m.inode /\ tx' = m.tx

\* log_write(): the block goes to disk when the operation ends.
log_write(m, b) == [m EXCEPT !.tx = @ \cup {b}]

Free(m) == Blocks \ m.bitmap

\* balloc(): mark the first free block and zero it; 0 when there is none.
balloc(m) ==
  IF Free(m) = {} THEN [m |-> m, addr |-> 0]
  ELSE LET b == CHOOSE b \in Free(m) : \A c \in Free(m) : b <= c IN
       [m |-> log_write(log_write([m EXCEPT !.bitmap = @ \cup {b}, !.cache[b] = Zeroed],
                                  Bitmap), Data(b)),
        addr |-> b]

\* bmap(): the block of index bn, allocated (with its indirect block) if missing.
bmap(m0, f, bn) ==
  IF bn < NDIRECT
  THEN IF m0.inode[f].addrs[bn] # 0 THEN [m |-> m0, addr |-> m0.inode[f].addrs[bn]]
       ELSE LET a == balloc(m0) IN
            [m |-> IF a.addr = 0 THEN a.m ELSE [a.m EXCEPT !.inode[f].addrs[bn] = a.addr],
             addr |-> a.addr]
  ELSE LET have == m0.inode[f].addrs[NDIRECT]
           ind == IF have # 0 THEN [m |-> m0, addr |-> have] ELSE balloc(m0)
           m1 == [ind.m EXCEPT !.inode[f].addrs[NDIRECT] = ind.addr]
           j == bn - NDIRECT
       IN IF ind.addr = 0 THEN ind
          ELSE IF m1.cache[ind.addr][j] # 0
          THEN [m |-> m1, addr |-> m1.cache[ind.addr][j]]
          ELSE LET a == balloc(m1) IN
               [m |-> IF a.addr = 0 THEN a.m
                      ELSE log_write([a.m EXCEPT !.cache[ind.addr][j] = a.addr], Data(ind.addr)),
                addr |-> a.addr]

\* Mutation: does not log the inode.
iupdate_skip(m, f) == m

\* iupdate(): the inode's block is logged with the operation.
iupdate(m, f) == log_write(m, Ino(f))

\* end_op() commits: what was logged, and nothing else, reaches the disk.  The old
\* contents of blocks that are free now are no longer told apart.
Commit(m) ==
  LET Forget(b, data) == IF b \in bitmap \ m.bitmap THEN Stale ELSE data IN
  /\ disk' = [b \in Blocks |-> Forget(b, IF Data(b) \in m.tx THEN m.cache[b] ELSE disk[b])]
  /\ dbitmap' = IF Bitmap \in m.tx THEN m.bitmap ELSE dbitmap
  /\ dinode' = [f \in Files |-> IF Ino(f) \in m.tx THEN m.inode[f] ELSE dinode[f]]
  /\ SetMem([m EXCEPT !.tx = {}, !.cache = [b \in Blocks |-> Forget(b, m.cache[b])]])

-----------------------------------------------------------------------------
(* writei() *)

\* filewrite() writes at most this much in one operation.
MaxWrite == ((MAXOPBLOCKS - 1 - 1 - 2) \div 2) * BSIZE

Smaller(x, y) == IF x < y THEN x ELSE y

\* begin_op(), ilock() and the checks on the range; the offset is that of some
\* open file, which another open file's truncation may have left past the end.
\* dirlink() and unlink() write an entry of the directory in the same way.
filewrite(f) ==
  /\ op = Idle
  /\ \E off \in 0 .. MaxBytes, n \in 1 .. (IF f = Root THEN 1 ELSE MaxWrite), v \in Vals :
       /\ off <= inode[f].size /\ off + n <= MaxBytes
       /\ op' = [pc |-> "write", f |-> f, start |-> off, tot |-> 0, n |-> n, v |-> v, torn |-> 0]
  /\ UNCHANGED <<diskVars, memVars, file>>

\* Bytes of the block that a turn of the loop fills, from position lo on.
Chunk(o) ==
  LET off == o.start + o.tot IN
  [bn |-> off \div BSIZE, lo |-> off % BSIZE,
   m |-> Smaller(o.n - o.tot, BSIZE - (off % BSIZE))]

Fill(data, lo, m, v) == [j \in Places |-> IF j \in lo .. lo + m - 1 THEN v ELSE data[j]]

\* One turn: map the block, copy the bytes in, log the block.
writei_block ==
  LET c == Chunk(op)
      a == bmap(Mem, op.f, c.bn)
  IN /\ op.pc = "write" /\ op.tot < op.n
     /\ a.addr # 0
     /\ SetMem(log_write([a.m EXCEPT !.cache[a.addr] = Fill(@, c.lo, c.m, op.v)], Data(a.addr)))
     /\ op' = [op EXCEPT !.tot = @ + c.m]
     /\ UNCHANGED <<diskVars, file>>

\* Out of space: bmap() may have allocated the indirect block only.
writei_full ==
  LET a == bmap(Mem, op.f, Chunk(op).bn) IN
  /\ op.pc = "write" /\ op.tot < op.n
  /\ a.addr = 0
  /\ SetMem(a.m)
  /\ op' = [op EXCEPT !.pc = "finish"]
  /\ UNCHANGED <<diskVars, file>>

\* A bad user address: copyin() works page by page and may have copied k bytes;
\* the block stays allocated and changed, without log_write().
writei_fault ==
  LET c == Chunk(op)
      a == bmap(Mem, op.f, c.bn)
  IN /\ op.pc = "write" /\ op.tot < op.n
     /\ op.f # Root
     /\ a.addr # 0
     /\ \E k \in 0 .. c.m - 1 :
          /\ SetMem([a.m EXCEPT !.cache[a.addr] = Fill(@, c.lo, k, op.v)])
          /\ op' = [op EXCEPT !.pc = "finish", !.torn = k]
     /\ UNCHANGED <<diskVars, file>>

\* What a caller may expect of a file after k bytes v were written at off, and
\* the next t were not but may have changed.
Written(s, off, k, t, v) ==
  [j \in 1 .. (IF off + k > Len(s) THEN off + k ELSE Len(s)) |->
     IF j \in off + 1 .. off + k THEN v
     ELSE IF j \in off + k + 1 .. off + k + t /\ s[j] # v THEN Torn ELSE s[j]]

\* Mutation: takes the count that was asked for as written.
writei_finish_n ==
  LET f == op.f
      end == op.start + op.n
      m == IF end > inode[f].size THEN [Mem EXCEPT !.inode[f].size = end] ELSE Mem
  IN /\ op.pc = "finish" \/ (op.pc = "write" /\ op.tot = op.n)
     /\ SetMem(iupdate(m, f))
     /\ op' = [op EXCEPT !.pc = "end"]
     /\ UNCHANGED <<diskVars, file>>

\* The new size and iupdate().
writei_finish ==
  LET f == op.f
      end == op.start + op.tot
      m == IF end > inode[f].size THEN [Mem EXCEPT !.inode[f].size = end] ELSE Mem
  IN /\ op.pc = "finish" \/ (op.pc = "write" /\ op.tot = op.n)
     /\ SetMem(iupdate(m, f))
     /\ op' = [op EXCEPT !.pc = "end"]
     /\ UNCHANGED <<diskVars, file>>

\* The operation ends with the count tot.
end_op ==
  /\ op.pc = "end"
  /\ Commit(Mem)
  /\ file' = [file EXCEPT ![op.f] = Written(@, op.start, op.tot, op.torn, op.v)]
  /\ op' = Idle

-----------------------------------------------------------------------------
(* itrunc() and restarts *)

Indirect(blocks, ino) ==
  LET a == ino.addrs[NDIRECT] IN
  IF a = 0 THEN {} ELSE {blocks[a][j] : j \in 0 .. NINDIRECT - 1} \ {0}
Direct(ino) == {ino.addrs[j] : j \in 0 .. NDIRECT} \ {0}
Owned(blocks, ino) == Direct(ino) \cup Indirect(blocks, ino)

\* bfree() of each of these blocks: one bit each of the logged bitmap block.
bfree(m, blocks) ==
  IF blocks = {} THEN m ELSE log_write([m EXCEPT !.bitmap = @ \ blocks], Bitmap)

\* Free every block of the file, the indirect block last.
itrunc(f) ==
  LET ino == inode[f] IN
  /\ op = Idle /\ f # Root
  /\ Commit(iupdate([bfree(Mem, Owned(cache, ino)) EXCEPT !.inode[f] = NoInode], f))
  /\ file' = [file EXCEPT ![f] = <<>>]
  /\ UNCHANGED op

\* A restart forgets the operation that was running.
Crash ==
  /\ op # Idle
  /\ SetMem([cache |-> disk, bitmap |-> dbitmap, inode |-> dinode, tx |-> {}])
  /\ op' = Idle
  /\ UNCHANGED <<diskVars, file>>

Next ==
  \/ \E f \in Files : filewrite(f) \/ itrunc(f)
  \/ writei_block \/ writei_full \/ writei_fault \/ writei_finish
  \/ end_op
  \/ Crash

Spec == Init /\ [][Next]_vars

-----------------------------------------------------------------------------
(* readi() *)

\* bmap() of a block that exists.
Lookup(f, bn) ==
  IF bn < NDIRECT THEN inode[f].addrs[bn]
  ELSE LET a == inode[f].addrs[NDIRECT] IN
       IF a = 0 THEN 0 ELSE cache[a][bn - NDIRECT]

\* The bytes that readi() copies out.
readi(f, off, n) ==
  IF off > inode[f].size THEN <<>>
  ELSE [j \in 1 .. Smaller(n, inode[f].size - off) |->
          cache[Lookup(f, (off + j - 1) \div BSIZE)][(off + j - 1) % BSIZE]]

-----------------------------------------------------------------------------
(* Properties *)

\* Every variable has its type.
TypeOK ==
  /\ dbitmap \subseteq Blocks /\ bitmap \subseteq Blocks
  /\ \A f \in Files : /\ inode[f].size \in 0 .. MaxBytes
                      /\ dinode[f].size \in 0 .. MaxBytes
  /\ tx \subseteq {Data(b) : b \in Blocks} \cup {Bitmap} \cup {Ino(f) : f \in Files}
  /\ op = Idle \/ op.tot \in 0 .. op.n

Holes(f) == {bn \in 0 .. MAXFILE - 1 : bn * BSIZE < inode[f].size /\ Lookup(f, bn) = 0}

\* Every block below a file's size is mapped.
NoHole == \A f \in Files : Holes(f) = {}

\* Between operations read() returns what the writes before it were told they
\* wrote (the count that writei() returned, at their offsets), also after failed
\* writes, after truncation and after a restart, except in bytes that a write with a
\* bad address was at; and readi(), which runs outside of any operation, meets no
\* hole in which bmap() would allocate a block.
ReadsBack ==
  TypeOK /\ NoHole /\ (op = Idle =>
    \A f \in Files :
      /\ inode[f].size = Len(file[f])
      /\ \A off \in 0 .. MaxBytes, n \in 0 .. MaxBytes :
           LET got == readi(f, off, n) IN
           /\ Len(got) = (IF off > Len(file[f]) THEN 0 ELSE Smaller(n, Len(file[f]) - off))
           /\ \A j \in 1 .. Len(got) : file[f][off + j] \in {Torn, got[j]})

\* The block numbers that an inode holds, direct, indirect block and indirect.
Slots(blocks, ino) ==
  {<<"i", j>> : j \in {j \in 0 .. NDIRECT : ino.addrs[j] # 0}} \cup
  (IF ino.addrs[NDIRECT] = 0 THEN {}
   ELSE {<<"a", j>> : j \in {j \in 0 .. NINDIRECT - 1 : blocks[ino.addrs[NDIRECT]][j] # 0}})

Exact(blocks, map, inodes) ==
  /\ map = UNION {Owned(blocks, inodes[f]) : f \in Files}
  /\ \A f, g \in Files : f # g => Owned(blocks, inodes[f]) \cap Owned(blocks, inodes[g]) = {}
  /\ \A f \in Files : Cardinality(Owned(blocks, inodes[f])) = Cardinality(Slots(blocks, inodes[f]))

\* The bitmap marks exactly the blocks that files hold, and no block is held
\* twice: in memory at every step, and on the disk for a restart.
BlocksExact == Exact(cache, bitmap, inode) /\ Exact(disk, dbitmap, dinode)

\* The position in the file f that byte j of block b holds; none for other blocks.
PosIn(f, b, j) ==
  {bn * BSIZE + j : bn \in {k \in 0 .. MAXFILE - 1 : Lookup(f, k) = b /\ j < BSIZE}}

\* Byte j of block b is free, past the end of its file, or under a failed write.
Unpromised(b, j) ==
  \/ b \notin bitmap
  \/ \E f \in Files : \E k \in PosIn(f, b, j) :
       \/ k >= inode[f].size \/ file[f][k + 1] = Torn
       \/ op # Idle /\ op.f = f /\ k \in op.start + op.tot .. op.start + op.tot + op.torn - 1

\* A buffer that the log does not hold is as on disk, so that it may be evicted
\* at any time ("After changing buffer data, call bwrite to write it to disk",
\* kernel/bio.c; log_write() stands in for bwrite()): a write that failed half-way
\* breaks this only in bytes of which nobody was told.
CacheClean ==
  /\ \A b \in Blocks : Data(b) \notin tx =>
       \A j \in Places : cache[b][j] = disk[b][j] \/ Unpromised(b, j)
  /\ Bitmap \notin tx => bitmap = dbitmap
  /\ op = Idle => inode = dinode
==============================================================================
