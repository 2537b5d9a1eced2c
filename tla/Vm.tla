---------------------------------- MODULE Vm ----------------------------------
(***************************************************************************)
(* Physical pages and user address spaces: kernel/kalloc.c, kernel/vm.c    *)
(* and the calls that build and free address spaces (fork, exec, sbrk and  *)
(* freeproc in kernel/proc.c and kernel/exec.c).                           *)
(*                                                                         *)
(* Every call of kalloc() may fail, and processes compete for the pages:   *)
(* the loops of uvmalloc() and uvmcopy() take one step per page.  kalloc() *)
(* always hands out a page that nobody has, so pages are counted rather    *)
(* than named: a page freed twice or forgotten shows in the total.         *)
(***************************************************************************)
EXTENDS UserCopy, FiniteSets

CONSTANTS
  Procs, Init0,  \* process slots, and the one of the first process
  NPages,        \* physical pages
  PerTable,      \* pages mapped by one second-level table (1024)
  Sizes          \* sizes asked for by sbrk() and by segments of programs

ASSUME VmAssumption ==
  /\ Init0 \in Procs /\ IsFiniteSet(Procs)
  /\ {NPages, PGSIZE, PerTable, MaxVpn, Word} \subseteq Nat \ {0} /\ MaxLen \in Nat
  /\ NPages >= 5   \* the first process
  /\ MaxVpn >= 2   \* a stack and its guard page
  /\ Sizes \subseteq 0 .. MaxVpn * PGSIZE
  /\ UintMod \in Nat /\ UintMod > 2 * MaxVpn * PGSIZE /\ UintMod % PGSIZE = 0

Vpns == 0 .. MaxVpn - 1
TableOf(v) == v \div PerTable
Tables == {TableOf(v) : v \in Vpns}

(* An address space: whether there is one (a root, and a table that maps    *)
(* trampoline and trapframe), its tables for user pages, its user pages, and *)
(* those of them that uvmclear() has taken PTE_U from.                      *)
NoSpace == [on |-> FALSE, tab |-> {}, pg |-> {}, guard |-> {}]
uvmcreate == [NoSpace EXCEPT !.on = TRUE]   \* empty
NoJob == [kind |-> "none"]

VARIABLES
  free,       \* length of kmem.freelist
  trapframe, pagetable, sz,   \* struct proc
  job,        \* the call that a process is in
  pipe,       \* pages used for other things (pipes, argument strings)
  panicked

procVars == <<trapframe, pagetable, sz>>
vars == <<free, procVars, job, pipe, panicked>>

\* PGROUNDUP, in pages.
RoundUp(n) == (n + PGSIZE - 1) \div PGSIZE

-----------------------------------------------------------------------------
(* kernel/vm.c, as functions from free pages and a space to new ones *)

\* proc_pagetable(): the root, and mappages() of the two pages at the top, which
\* share a table.  Without a table uvmfree() gives the root back.
proc_pagetable(fr) ==
  IF fr < 2 THEN [ok |-> FALSE, free |-> fr, as |-> NoSpace]
  ELSE [ok |-> TRUE, free |-> fr - 2, as |-> uvmcreate]

\* Mutation: keeps the user page when there is no page for the table.
MapPageLeak(fr, as, v) ==
  LET need == IF TableOf(v) \in as.tab THEN 1 ELSE 2 IN
  IF fr < need THEN [ok |-> FALSE, free |-> 0, as |-> as, bad |-> FALSE]
  ELSE [ok |-> TRUE, free |-> fr - need, bad |-> v \in as.pg,
        as |-> [as EXCEPT !.tab = @ \cup {TableOf(v)}, !.pg = @ \cup {v}]]

\* kalloc() and mappages() of one user page.  When walk() finds no page for a
\* table the user page is freed again.  "bad" is mappages()'s panic.
MapPage(fr, as, v) ==
  LET need == IF TableOf(v) \in as.tab THEN 1 ELSE 2 IN
  IF fr < need THEN [ok |-> FALSE, free |-> fr, as |-> as, bad |-> FALSE]
  ELSE [ok |-> TRUE, free |-> fr - need, bad |-> v \in as.pg,
        as |-> [as EXCEPT !.tab = @ \cup {TableOf(v)}, !.pg = @ \cup {v}]]

\* uvmunmap() of the pages from .. to - 1 with do_free; panics on a page that is
\* not mapped.
uvmunmap(fr, as, from, to) ==
  [free |-> fr + to - from,
   as |-> [as EXCEPT !.pg = @ \ (from .. to - 1), !.guard = @ \ (from .. to - 1)],
   bad |-> ~(from .. to - 1 \subseteq as.pg)]

\* freewalk() of the tables, which panics if a page is still mapped.
freewalk(fr, as) == [free |-> fr + Cardinality(as.tab) + 2, bad |-> as.pg # {}]

\* The user pages up to size n, then the tables.
proc_freepagetable(fr, as, n) ==
  LET u == uvmunmap(fr, as, 0, RoundUp(n))
      w == freewalk(u.free, u.as)
  IN [free |-> w.free, bad |-> u.bad \/ w.bad]

\* Takes PTE_U from the page below the stack.
uvmclear(as, v) == [as EXCEPT !.guard = @ \cup {v}]

\* The page of the first process.
uvmfirst(fr, as) == MapPage(fr, as, 0)

Panic(b) == panicked' = (panicked \/ b)

\* userinit(): a trapframe and a page of code.
Init ==
  LET pt == proc_pagetable(NPages - 1)
      m == uvmfirst(pt.free, pt.as)
  IN /\ free = m.free
     /\ trapframe = [p \in Procs |-> p = Init0]
     /\ pagetable = [p \in Procs |-> IF p = Init0 THEN m.as ELSE NoSpace]
     /\ sz = [p \in Procs |-> IF p = Init0 THEN PGSIZE ELSE 0]
     /\ job = [p \in Procs |-> NoJob]
     /\ pipe = 0 /\ panicked = FALSE

\* Process p is in user mode; without memory it can only fault, and exit.
Alive(p) ==
  /\ ~panicked /\ trapframe[p] /\ job[p] = NoJob
  /\ \A q \in Procs : job[q].kind = "copy" => job[q].child # p

User(p) == Alive(p) /\ sz[p] > 0
Return(p) == job' = [job EXCEPT ![p] = NoJob]

-----------------------------------------------------------------------------
(* sbrk *)

\* growproc() with n > 0 calls uvmalloc().
sbrk_grow(p) ==
  /\ User(p)
  /\ \E new \in Sizes : new > sz[p] /\ job' = [job EXCEPT ![p] =
       [kind |-> "grow", base |-> RoundUp(sz[p]), a |-> RoundUp(sz[p]), new |-> new]]
  /\ UNCHANGED <<free, procVars, pipe, panicked>>

\* Mutation: a failed growth keeps its pages.
grow_page_keep(p) ==
  LET j == job[p]
      m == MapPage(free, pagetable[p], j.a)
  IN /\ ~panicked /\ j.kind = "grow" /\ j.a * PGSIZE < j.new
     /\ free' = m.free /\ pagetable' = [pagetable EXCEPT ![p] = m.as]
     /\ IF m.ok THEN job' = [job EXCEPT ![p].a = @ + 1] /\ Panic(m.bad)
                ELSE Return(p) /\ UNCHANGED panicked
     /\ UNCHANGED <<trapframe, sz, pipe>>

\* A turn of uvmalloc()'s loop; on failure uvmdealloc() takes the pages back.
grow_page(p) ==
  LET j == job[p]
      m == MapPage(free, pagetable[p], j.a)
      u == uvmunmap(m.free, m.as, j.base, j.a)
  IN /\ ~panicked /\ j.kind = "grow" /\ j.a * PGSIZE < j.new
     /\ IF m.ok
        THEN /\ free' = m.free /\ pagetable' = [pagetable EXCEPT ![p] = m.as]
             /\ job' = [job EXCEPT ![p].a = @ + 1] /\ Panic(m.bad)
        ELSE /\ free' = u.free /\ pagetable' = [pagetable EXCEPT ![p] = u.as]
             /\ Return(p) /\ Panic(u.bad)
     /\ UNCHANGED <<trapframe, sz, pipe>>

grow_done(p) ==
  /\ ~panicked /\ job[p].kind = "grow" /\ job[p].a * PGSIZE >= job[p].new
  /\ sz' = [sz EXCEPT ![p] = job[p].new]
  /\ Return(p)
  /\ UNCHANGED <<free, trapframe, pagetable, pipe, panicked>>

\* growproc() with n < 0: sz + n is unsigned, so a shrink below 0 wraps to a
\* larger size, which uvmdealloc() ignores.
sbrk_shrink(p) ==
  /\ User(p)
  /\ \E n \in 1 .. MaxVpn * PGSIZE :
       LET new == (sz[p] - n) % UintMod
           u == uvmunmap(free, pagetable[p], RoundUp(new), RoundUp(sz[p]))
       IN IF new >= sz[p] THEN UNCHANGED <<free, pagetable, sz, panicked>>
          ELSE /\ sz' = [sz EXCEPT ![p] = new]
               /\ IF RoundUp(new) < RoundUp(sz[p])
                  THEN /\ free' = u.free /\ pagetable' = [pagetable EXCEPT ![p] = u.as]
                       /\ Panic(u.bad)
                  ELSE UNCHANGED <<free, pagetable, panicked>>
  /\ UNCHANGED <<trapframe, job, pipe>>

-----------------------------------------------------------------------------
(* fork *)

\* allocproc(): the trapframe and the empty page table, or neither.
fork(p, q) ==
  LET pt == proc_pagetable(free - 1) IN
  /\ User(p) /\ ~trapframe[q]
  /\ IF free > 0 /\ pt.ok
     THEN /\ trapframe' = [trapframe EXCEPT ![q] = TRUE]
          /\ pagetable' = [pagetable EXCEPT ![q] = pt.as]
          /\ free' = pt.free
          /\ job' = [job EXCEPT ![p] = [kind |-> "copy", child |-> q, i |-> 0]]
     ELSE /\ free' = IF free > 0 THEN pt.free + 1 ELSE free
          /\ UNCHANGED <<trapframe, pagetable, job>>
  /\ UNCHANGED <<sz, pipe, panicked>>

\* A turn of uvmcopy()'s loop, which also copies the page's flags; on failure the
\* copied pages are unmapped and freeproc() frees the rest.
copy_page(p) ==
  LET j == job[p]
      q == j.child
      m == MapPage(free, pagetable[q], j.i)
      flags == {j.i} \cap pagetable[p].guard
      u == uvmunmap(free, pagetable[q], 0, j.i)
      f == proc_freepagetable(u.free + 1, u.as, sz[q])
  IN /\ ~panicked /\ j.kind = "copy" /\ j.i * PGSIZE < sz[p]
     /\ IF m.ok
        THEN /\ free' = m.free
             /\ pagetable' = [pagetable EXCEPT ![q] = [m.as EXCEPT !.guard = @ \cup flags]]
             /\ job' = [job EXCEPT ![p].i = @ + 1]
             /\ Panic(m.bad \/ j.i \notin pagetable[p].pg)
             /\ UNCHANGED trapframe
        ELSE /\ free' = f.free
             /\ pagetable' = [pagetable EXCEPT ![q] = NoSpace]
             /\ trapframe' = [trapframe EXCEPT ![q] = FALSE]
             /\ Return(p) /\ Panic(u.bad \/ f.bad)
     /\ UNCHANGED <<sz, pipe>>

copy_done(p) ==
  /\ ~panicked /\ job[p].kind = "copy" /\ job[p].i * PGSIZE >= sz[p]
  /\ sz' = [sz EXCEPT ![job[p].child] = sz[p]]
  /\ Return(p)
  /\ UNCHANGED <<free, trapframe, pagetable, pipe, panicked>>

\* exit() and the parent's wait(): freeproc().
freeproc(p) ==
  LET f == proc_freepagetable(free + 1, pagetable[p], sz[p]) IN
  /\ Alive(p) /\ p # Init0
  /\ free' = f.free /\ Panic(f.bad)
  /\ trapframe' = [trapframe EXCEPT ![p] = FALSE]
  /\ pagetable' = [pagetable EXCEPT ![p] = NoSpace]
  /\ sz' = [sz EXCEPT ![p] = 0]
  /\ UNCHANGED <<job, pipe>>

-----------------------------------------------------------------------------
(* exec *)

\* A new page table beside the old one; n is the size loaded so far, and the
\* loop of uvmalloc() is at page a on its way to size new.
exec(p) ==
  LET pt == proc_pagetable(free) IN
  /\ User(p)
  /\ free' = pt.free
  /\ job' = [job EXCEPT ![p] = IF ~pt.ok THEN NoJob ELSE
       [kind |-> "load", as |-> pt.as, n |-> 0, a |-> 0, base |-> 0, new |-> 0]]
  /\ UNCHANGED <<procVars, pipe, panicked>>

Loading(p) == ~panicked /\ job[p].kind \in {"load", "stack"}
Loaded(p) == job[p].a * PGSIZE >= job[p].new

\* uvmalloc() for the next segment; one that ends below the size changes nothing.
exec_segment(p) ==
  /\ Loading(p) /\ job[p].kind = "load" /\ Loaded(p)
  /\ \E end \in Sizes :
       /\ end > job[p].new /\ RoundUp(end) + 2 <= MaxVpn
       /\ job' = [job EXCEPT ![p].n = job[p].new, ![p].base = RoundUp(job[p].new),
                             ![p].a = RoundUp(job[p].new), ![p].new = end]
  /\ UNCHANGED <<free, procVars, pipe, panicked>>

\* Two more pages for the stack.
exec_stack(p) ==
  LET n == RoundUp(job[p].new) IN
  /\ Loading(p) /\ job[p].kind = "load" /\ Loaded(p)
  /\ job' = [job EXCEPT ![p].kind = "stack", ![p].n = n * PGSIZE, ![p].base = n,
                        ![p].a = n, ![p].new = (n + 2) * PGSIZE]
  /\ UNCHANGED <<free, procVars, pipe, panicked>>

\* A turn of uvmalloc()'s loop.  If it fails, its pages are taken back and "bad:"
\* frees the new page table, of size n.
exec_page(p) ==
  LET j == job[p]
      m == MapPage(free, j.as, j.a)
      u == uvmunmap(free, j.as, j.base, j.a)
      f == proc_freepagetable(u.free, u.as, j.n)
  IN /\ Loading(p) /\ ~Loaded(p)
     /\ IF m.ok
        THEN /\ free' = m.free /\ Panic(m.bad)
             /\ job' = [job EXCEPT ![p].as = m.as, ![p].a = @ + 1]
        ELSE free' = f.free /\ Panic(u.bad \/ f.bad) /\ Return(p)
     /\ UNCHANGED <<procVars, pipe>>

\* Any other error (the file, a segment, the arguments) between two uvmalloc()s.
exec_bad(p) ==
  LET f == proc_freepagetable(free, job[p].as, job[p].new) IN
  /\ Loading(p) /\ Loaded(p)
  /\ free' = f.free /\ Panic(f.bad) /\ Return(p)
  /\ UNCHANGED <<procVars, pipe>>

\* uvmclear() the page below the stack, commit to the new image, free the old one.
exec_commit(p) ==
  LET f == proc_freepagetable(free, pagetable[p], sz[p])
      image == uvmclear(job[p].as, RoundUp(job[p].new) - 2)
  IN
  /\ Loading(p) /\ job[p].kind = "stack" /\ Loaded(p)
  /\ pagetable' = [pagetable EXCEPT ![p] = image]
  /\ sz' = [sz EXCEPT ![p] = job[p].new]
  /\ free' = f.free /\ Panic(f.bad) /\ Return(p)
  /\ UNCHANGED <<trapframe, pipe>>

-----------------------------------------------------------------------------

\* Other users of kalloc(), one page at a time.
kalloc ==
  /\ ~panicked /\ free > 0 /\ pipe = 0
  /\ pipe' = 1 /\ free' = free - 1
  /\ UNCHANGED <<procVars, job, panicked>>

kfree ==
  /\ ~panicked /\ pipe > 0
  /\ free' = free + 1 /\ pipe' = pipe - 1
  /\ UNCHANGED <<procVars, job, panicked>>

Next ==
  \/ \E p \in Procs :
       \/ sbrk_grow(p) \/ grow_page(p) \/ grow_done(p) \/ sbrk_shrink(p)
       \/ copy_page(p) \/ copy_done(p) \/ freeproc(p)
       \/ exec(p) \/ exec_segment(p) \/ exec_stack(p) \/ exec_page(p)
       \/ exec_bad(p) \/ exec_commit(p)
       \/ \E q \in Procs : fork(p, q)
  \/ kalloc \/ kfree

Spec == Init /\ [][Next]_vars

-----------------------------------------------------------------------------
(* Properties *)

\* Every variable has its type.
TypeOK ==
  /\ free \in 0 .. NPages /\ pipe \in 0 .. 1 /\ panicked \in BOOLEAN
  /\ trapframe \in [Procs -> BOOLEAN]
  /\ pagetable \in [Procs -> [on : BOOLEAN, tab : SUBSET Tables, pg : SUBSET Vpns,
                             guard : SUBSET Vpns]]
  /\ sz \in [Procs -> 0 .. MaxVpn * PGSIZE]
  /\ \A p \in Procs : job[p].kind \in {"none", "grow", "copy", "load", "stack"}

Count(as) == (IF as.on THEN 2 ELSE 0) + Cardinality(as.tab) + Cardinality(as.pg)

\* What process p holds: its trapframe, its address space, and the one that
\* exec() is building.
Held(p) ==
  (IF trapframe[p] THEN 1 ELSE 0) + Count(pagetable[p])
  + (IF job[p].kind \in {"load", "stack"} THEN Count(job[p].as) ELSE 0)

\* The pages of the processes, as the processes number them.
PagesHeld == UNION {{p} \X (1 .. Held(p)) : p \in Procs}

\* Every page is in exactly one place: free, held by a process or in other use.
\* No path of fork, exec, sbrk or exit, failing or not, leaks or doubly frees one,
\* or reaches a panic of mappages, uvmunmap, freewalk or uvmcopy.
PagesExact == ~panicked /\ free + pipe + Cardinality(PagesHeld) = NPages

\* A process in user mode has exactly the pages below its size, whatever calls
\* succeeded or failed before, and a free slot has none.
MapExact ==
  TypeOK /\ \A p \in Procs :
    /\ Alive(p) => pagetable[p].on /\ pagetable[p].pg = 0 .. RoundUp(sz[p]) - 1
    /\ ~trapframe[p] => pagetable[p] = NoSpace /\ sz[p] = 0

\* Every copy to or from a process that runs does what its caller expects: copyin()
\* and copyout() succeed exactly when all bytes are user memory of the process and
\* then copy them in order, copyinstr() exactly up to the first '\0', fetchaddr()
\* only below p->sz, and none of them touches any other byte: not the guard page
\* below the stack, and nothing beyond the end of the last page.
CopyRight ==
  \A p \in Procs :
    Alive(p) => <<pagetable[p].pg \ pagetable[p].guard, TRUE>> \in Verdicts
==============================================================================
