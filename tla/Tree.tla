--------------------------------- MODULE Tree ---------------------------------
(***************************************************************************)
(* The directory tree: path lookup in kernel/fs.c (namex, dirlookup,       *)
(* dirlink) and the calls of kernel/sysfile.c that change it.  The log of  *)
(* this build admits one operation at a time, so a system call is a step;  *)
(* open files and current directories keep inodes alive in between.        *)
(***************************************************************************)
EXTENDS Integers, FiniteSets

CONSTANTS
  Procs, Names,
  NInum,      \* inodes on disk; 1 is the root
  MaxPath,    \* bound: elements of a path
  MaxLink     \* bound: links of an inode

ASSUME TreeAssumption == NInum \in Nat \ {0} /\ MaxPath \in Nat \ {0}

Inums == 1 .. NInum
ROOTINO == 1
Dot == "."
DotDot == ".."
ASSUME NamesAssumption == {Dot, DotDot} \cap Names = {}

VARIABLES
  type,       \* "free", "dir" or "file" (devices are files)
  nlink,
  ent,        \* directory entries: inum, or 0
  dotdot,     \* the entry ".." of a directory
  cwd, open,  \* of a process: its directory, and its open file (or 0)
  panicked

vars == <<type, nlink, ent, dotdot, cwd, open, panicked>>

NoEntries == [x \in Names |-> 0]

Init ==
  /\ type = [i \in Inums |-> IF i = ROOTINO THEN "dir" ELSE "free"]
  /\ nlink = [i \in Inums |-> IF i = ROOTINO THEN 1 ELSE 0]
  /\ ent = [i \in Inums |-> NoEntries]
  /\ dotdot = [i \in Inums |-> IF i = ROOTINO THEN ROOTINO ELSE 0]
  /\ cwd = [p \in Procs |-> ROOTINO] /\ open = [p \in Procs |-> 0]
  /\ panicked = FALSE

-----------------------------------------------------------------------------
(* Lookup: an inum, 0 when there is none *)

dirlookup(d, x) == IF x = Dot THEN d ELSE IF x = DotDot THEN dotdot[d] ELSE ent[d][x]

Elems == Names \cup {Dot, DotDot}

\* What ilock() panics about: a reference to an inode that is free.
NoType == -1

\* A turn of namex()'s loop, from inode i to its entry x.
Step(i, x) ==
  IF i \in {0, NoType} THEN i
  ELSE IF type[i] = "free" THEN NoType
  ELSE IF type[i] # "dir" THEN 0
  ELSE dirlookup(i, x)

\* ilock() of the inode that a lookup returned.
ilock(i) == IF i # 0 /\ i # NoType /\ type[i] = "free" THEN NoType ELSE i

\* Where the paths of up to n elements that p can give lead, absolute or from cwd.
Walk(p, n) ==
  LET to[k \in 0 .. n] ==
        IF k = 0 THEN {ROOTINO, cwd[p]}
        ELSE LET s == to[k-1] IN s \cup {Step(i, x) : i \in s, x \in Elems}
  IN to[n]

\* The inodes of these paths, without the ones that do not exist.
namei(p) == {ilock(i) : i \in Walk(p, MaxPath)} \ {0}

\* The directories that hold their last elements, with this element.
nameiparent(p) ==
  {d \in {ilock(i) : i \in Walk(p, MaxPath - 1)} \ {0} : d > 0 => type[d] = "dir"} \X Elems

-----------------------------------------------------------------------------

\* The iput()s at the end of an operation: an inode without links is freed when its
\* last reference goes, and its contents with it.
iput(ty, nl, en, dd, c, o) ==
  LET gone == {i \in Inums : /\ ty[i] # "free" /\ nl[i] = 0
                             /\ \A p \in Procs : i \notin {c[p], o[p]}}
  IN /\ type' = [i \in Inums |-> IF i \in gone THEN "free" ELSE ty[i]]
     /\ ent' = [i \in Inums |-> IF i \in gone THEN NoEntries ELSE en[i]]
     /\ dotdot' = [i \in Inums |-> IF i \in gone THEN 0 ELSE dd[i]]
     /\ nlink' = nl /\ cwd' = c /\ open' = o

Panic == panicked' = TRUE /\ UNCHANGED <<type, nlink, ent, dotdot, cwd, open>>
Run == panicked = FALSE

FreeInums == {i \in Inums : type[i] = "free"}
ialloc == CHOOSE i \in FreeInums : \A j \in FreeInums : i <= j

\* Mutation: dp->nlink++ for ".." is forgotten.
create_uncounted(d, x, ty, who) ==
  LET i == ialloc IN
  /\ FreeInums # {} /\ x \in Names /\ ent[d][x] = 0
  /\ iput([type EXCEPT ![i] = ty], [nlink EXCEPT ![i] = 1],
          [ent EXCEPT ![d][x] = i, ![i] = NoEntries],
          [dotdot EXCEPT ![i] = IF ty = "dir" THEN d ELSE 0],
          cwd, [p \in Procs |-> IF p \in who THEN i ELSE open[p]])
  /\ UNCHANGED panicked

\* A new inode of type ty for name x in d, opened by the processes in who.  When
\* dirlink() finds no block, ip->nlink = 0 and iput() free it again.
create(d, x, ty, who) ==
  LET i == ialloc
      up == IF ty = "dir" THEN 1 ELSE 0
  IN /\ FreeInums # {} /\ x \in Names /\ ent[d][x] = 0 /\ nlink[d] + up <= MaxLink
     /\ iput([type EXCEPT ![i] = ty],
             [nlink EXCEPT ![i] = 1, ![d] = @ + up],
             [ent EXCEPT ![d][x] = i, ![i] = NoEntries],
             [dotdot EXCEPT ![i] = IF ty = "dir" THEN d ELSE 0],
             cwd, [p \in Procs |-> IF p \in who THEN i ELSE open[p]])
     /\ UNCHANGED panicked

\* open(), with O_CREATE or without.
sys_open(p) ==
  /\ Run /\ open[p] = 0
  /\ \/ \E i \in namei(p) :
          IF i = NoType THEN Panic
          ELSE /\ open' = [open EXCEPT ![p] = i]
               /\ UNCHANGED <<type, nlink, ent, dotdot, cwd, panicked>>
     \/ \E at \in nameiparent(p) :
          IF at[1] = NoType THEN Panic ELSE create(at[1], at[2], "file", {p})

sys_close(p) ==
  /\ Run /\ open[p] # 0
  /\ iput(type, nlink, ent, dotdot, cwd, [open EXCEPT ![p] = 0])
  /\ UNCHANGED panicked

\* mkdir() and mknod().
sys_mkdir(p) ==
  /\ Run
  /\ \E at \in nameiparent(p), ty \in {"dir", "file"} :
       IF at[1] = NoType THEN Panic ELSE create(at[1], at[2], ty, {})

\* A new entry, unless the name is there ("." and ".." always are).
dirlink(d, x, i) == x \in Names /\ ent[d][x] = 0 /\ ent' = [ent EXCEPT ![d][x] = i]

\* link(): not of directories; the count goes up first, and down again when there
\* is no place for the entry.
sys_link(p) ==
  /\ Run
  /\ \E i \in namei(p), at \in nameiparent(p) :
       IF i = NoType THEN Panic
       ELSE IF type[i] # "dir" /\ at[1] = NoType THEN Panic
       ELSE /\ type[i] # "dir" /\ nlink[i] < MaxLink
            /\ nlink' = [nlink EXCEPT ![i] = @ + 1]
            /\ dirlink(at[1], at[2], i)
            /\ UNCHANGED <<type, dotdot, cwd, open, panicked>>

\* Mutation: any directory counts as empty.
isdirempty_always(i) == TRUE

isdirempty(i) == ent[i] = NoEntries

\* Removes entry x, for inode i, of directory d.
dirunlink(d, x, i) ==
  LET down == IF type[i] = "dir" THEN 1 ELSE 0 IN
  IF type[i] = "free" \/ nlink[i] < 1 THEN Panic
  ELSE /\ type[i] = "dir" => isdirempty(i)
       /\ iput(type, [nlink EXCEPT ![i] = @ - 1, ![d] = @ - down],
               [ent EXCEPT ![d][x] = 0], dotdot, cwd, open)
       /\ UNCHANGED panicked

\* unlink(): of files and of empty directories, but not of "." and "..".
sys_unlink(p) ==
  /\ Run
  /\ \E at \in nameiparent(p) :
       IF at[1] = NoType THEN Panic
       ELSE /\ at[2] \in Names /\ ent[at[1]][at[2]] # 0
            /\ dirunlink(at[1], at[2], ent[at[1]][at[2]])

\* chdir(): the old directory is released before the new one is set.
sys_chdir(p) ==
  /\ Run
  /\ \E i \in namei(p) :
       IF i = NoType THEN Panic
       ELSE /\ type[i] = "dir"
            /\ iput(type, nlink, ent, dotdot, [cwd EXCEPT ![p] = i], open)
            /\ UNCHANGED panicked

Next ==
  \E p \in Procs :
    \/ sys_open(p) \/ sys_close(p) \/ sys_mkdir(p) \/ sys_link(p)
    \/ sys_unlink(p) \/ sys_chdir(p)

Spec == Init /\ [][Next]_vars

-----------------------------------------------------------------------------
(* Properties *)

\* Every variable has its type.
TypeOK ==
  /\ type \in [Inums -> {"free", "dir", "file"}]
  /\ nlink \in [Inums -> 0 .. MaxLink]
  /\ ent \in [Inums -> [Names -> 0 .. NInum]] /\ dotdot \in [Inums -> 0 .. NInum]
  /\ cwd \in [Procs -> Inums] /\ open \in [Procs -> 0 .. NInum] /\ panicked \in BOOLEAN

Children(s) == {ent[d][x] : d \in s, x \in Names} \ {0}
\* The inodes that have a path from the root.
Reachable ==
  LET from[k \in 0 .. NInum] ==
        IF k = 0 THEN {ROOTINO} ELSE LET s == from[k-1] IN s \cup Children(s)
  IN from[NInum]

\* The entries (directory, name, inode) below the root.
Links == {<<l[1], l[2], ent[l[1]][l[2]]>> : l \in {k \in Reachable \X Names : ent[k[1]][k[2]] # 0}}

\* Links that nlink counts: entries, and the ".." of subdirectories.
Count(i, links) ==
  Cardinality({l \in links : l[3] = i})
  + Cardinality({l \in links : l[1] = i /\ type[l[3]] = "dir"})
  + (IF i = ROOTINO THEN 1 ELSE 0)

\* Below the root is a tree: every entry leads to an inode in use, a directory has
\* one entry and its ".." leads back to it; nlink never undercounts, so unlink()
\* never frees an inode that has a name.
TreeShape ==
  LET links == Links IN
  /\ TypeOK
  /\ \A l \in links :
       /\ type[l[3]] # "free"
       /\ type[l[3]] = "dir" => /\ dotdot[l[3]] = l[1] /\ l[3] # ROOTINO
                                /\ \A m \in links : m[3] = l[3] => m = l
  /\ \A i \in Reachable : nlink[i] >= Count(i, links)

\* A call adds or removes at most one name below the root: nothing disappears
\* together with its directory.
OneEntry ==
  [][LET old == Links
         new == Links'
     IN Cardinality(old \ new) + Cardinality(new \ old) <= 1]_vars
==============================================================================
