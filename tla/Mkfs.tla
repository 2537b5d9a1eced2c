--------------------------------- MODULE Mkfs ---------------------------------
(***************************************************************************)
(* The file system from the beginning: mkfs (mkfs/mkfs.c) builds the image *)
(* with an allocator of its own, and the kernel boots from it and goes on  *)
(* as in FileData.                                                         *)
(***************************************************************************)
EXTENDS FileData

CONSTANTS
  RootBytes,   \* size of the entries that mkfs writes into the root directory
  MaxContents  \* bound: size of a file given to mkfs

\* The entries of the root do not fill its last block: rounding its size up, mkfs
\* would otherwise give it a block that it does not have.
ASSUME MkfsAssumption ==
  /\ RootBytes \in 1 .. NDIRECT * BSIZE /\ RootBytes % BSIZE # 0
  /\ MaxContents \in 0 .. MaxBytes

VARIABLES
  img,     \* the image while mkfs runs, or Booted
  todo     \* the rest of the running iappend(), or Idle

mvars == <<vars, img, todo>>

Booted == [freeblock |-> 0]

\* Every block zeroed by wsect(), and the inodes of ialloc().  The last component
\* is what mkfs was given to store.
MkfsInit ==
  /\ Init
  /\ img = [freeblock |-> 1, disk |-> disk, inode |-> dinode, want |-> file]
  /\ todo = Idle

\* Entries of the root, or the next buffer of a file; read() fills the buffer
\* except at the end of the file.
mkfs_append(f) ==
  /\ img # Booted /\ todo = Idle
  /\ \E n \in 1 .. BSIZE, v \in Vals :
       /\ img.inode[f].size + n <= (IF f = Root THEN RootBytes ELSE MaxContents)
       /\ f # Root => img.inode[f].size % BSIZE = 0
       /\ todo' = [pc |-> "iappend", f |-> f, n |-> n, v |-> v]
  /\ UNCHANGED <<vars, img>>

\* freeblock++ as the address at a place of an inode or indirect block, if none.
Alloc(im, a) ==
  IF a # 0 THEN [im |-> im, addr |-> a]
  ELSE [im |-> [im EXCEPT !.freeblock = @ + 1], addr |-> im.freeblock]

\* The block x of index fbn.
Place(im, f, fbn) ==
  LET j == IF fbn < NDIRECT THEN fbn ELSE NDIRECT
      a == Alloc(im, im.inode[f].addrs[j])
      i1 == [a.im EXCEPT !.inode[f].addrs[j] = a.addr]
      b == Alloc(i1, i1.disk[a.addr][fbn - NDIRECT])
  IN IF fbn < NDIRECT THEN [im |-> i1, addr |-> a.addr]
     ELSE [im |-> [b.im EXCEPT !.disk[a.addr][fbn - NDIRECT] = b.addr], addr |-> b.addr]

\* A turn of iappend()'s loop; the size is stored after the last one, and no one
\* looks in between.
iappend ==
  LET off == img.inode[todo.f].size
      fbn == off \div BSIZE
      n1 == Smaller(todo.n, (fbn + 1) * BSIZE - off)
      x == Place(img, todo.f, fbn)
  IN /\ todo # Idle
     /\ x.im.freeblock <= NBlocks + 1     \* the files fit
     /\ img' = [x.im EXCEPT
          !.disk[x.addr] = Fill(@, off - fbn * BSIZE, n1, todo.v),
          !.inode[todo.f].size = off + n1,
          !.want[todo.f] = @ \o [j \in 1 .. n1 |-> todo.v]]
     /\ todo' = IF n1 = todo.n THEN Idle ELSE [todo EXCEPT !.n = @ - n1]
     /\ UNCHANGED vars

\* Mutation: the block after the last one is marked, too.
balloc_used == 1 .. img.freeblock

\* balloc(): the blocks that the bitmap marks.
mkfs_balloc == 1 .. img.freeblock - 1

\* The size of the root is rounded up to blocks, the bitmap is written, and the
\* kernel starts with this disk.
boot ==
  LET size == (img.inode[Root].size \div BSIZE + 1) * BSIZE
      inodes == [img.inode EXCEPT ![Root].size = size]
      pad == [j \in 1 .. size - img.inode[Root].size |-> 0]
  IN /\ img # Booted /\ todo = Idle /\ img.inode[Root].size = RootBytes
     /\ disk' = img.disk /\ cache' = img.disk
     /\ dbitmap' = mkfs_balloc /\ bitmap' = mkfs_balloc
     /\ dinode' = inodes /\ inode' = inodes
     /\ file' = [img.want EXCEPT ![Root] = @ \o pad]
     /\ img' = Booted
     /\ UNCHANGED <<tx, op, todo>>

Mkfs == (\E f \in Files : mkfs_append(f)) \/ iappend \/ boot

Kernel == img = Booted /\ Next /\ UNCHANGED <<img, todo>>

MkfsSpec == MkfsInit /\ [][Mkfs \/ Kernel]_mvars
==============================================================================
