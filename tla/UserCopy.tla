------------------------------- MODULE UserCopy -------------------------------
(***************************************************************************)
(* Copies between kernel and user memory: copyin(), copyout() and          *)
(* copyinstr() of kernel/vm.c and fetchaddr() of kernel/syscall.c, for a   *)
(* process with the user pages ok.  The loops go page by page, in unsigned *)
(* arithmetic.  A result has the bytes that were copied, each known by its *)
(* user address, in the order of the kernel's buffer.                      *)
(***************************************************************************)
EXTENDS Integers, Sequences

CONSTANTS
  PGSIZE,        \* in bytes
  UintMod,       \* width of addresses and sizes (2^32)
  Word,          \* sizeof(uint32)
  MaxVpn,        \* bound: user pages of an address space
  MaxLen         \* bound: length of a copy

Addrs == 0 .. UintMod - 1
Page(va) == va \div PGSIZE

\* A user page is mapped at va, valid and with PTE_U.
walkaddr(ok, va) == Page(va) \in ok

\* Bytes up to the end of the page of va, at most n.
Chunk(va, n) ==
  LET room == PGSIZE - (va % PGSIZE) IN IF room > n THEN n ELSE room

\* The n bytes from va on.
Run(va, n) == [i \in 1 .. n |-> va + i - 1]

\* Mutation: the offset in the page is kept.
NextPageOffset(va) == (va + PGSIZE) % UintMod

\* dstva = va0 + PGSIZE.
NextPage(va) == ((Page(va) + 1) * PGSIZE) % UintMod

\* copyin() and copyout() of n bytes at va0.
copy(ok, va0, n) ==
  LET loop[len \in 0 .. n] == [va \in Addrs |->
        IF len = 0 THEN [ok |-> TRUE, bytes |-> <<>>]
        ELSE IF ~walkaddr(ok, va) THEN [ok |-> FALSE, bytes |-> <<>>]
        ELSE LET c == Chunk(va, len)
                 rest == loop[len - c][NextPage(va)]
             IN [ok |-> rest.ok, bytes |-> Run(va, c) \o rest.bytes]]
  IN loop[n][va0]

\* copyinstr(): it stops after the first '\0' (the bytes in nul), and a string
\* without one in n bytes is an error.
copyinstr(ok, nul, va0, n) ==
  LET loop[max \in 0 .. n] == [va \in Addrs |->
        IF max = 0 \/ ~walkaddr(ok, va) THEN [ok |-> FALSE, bytes |-> <<>>]
        ELSE LET c == Chunk(va, max)
                 zeros == {i \in 1 .. c : va + i - 1 \in nul}
                 rest == loop[max - c][NextPage(va)]
             IN IF zeros = {} THEN [ok |-> rest.ok, bytes |-> Run(va, c) \o rest.bytes]
                ELSE [ok |-> TRUE,
                      bytes |-> Run(va, CHOOSE i \in zeros : \A j \in zeros : i <= j)]]
  IN loop[n][va0]

\* fetchaddr() of a process of size size: the word must lie below it.
fetchaddr(ok, size, addr) ==
  IF addr >= size \/ (addr + Word) % UintMod > size THEN [ok |-> FALSE, bytes |-> <<>>]
  ELSE copy(ok, addr, Word)

-----------------------------------------------------------------------------
(* What the callers expect *)

Lens == 0 .. MaxLen
UserBytes == 0 .. MaxVpn * PGSIZE - 1

\* The n bytes at va, all of which are user memory.
Whole(ok, va, n) == va + n <= UintMod /\ \A i \in 0 .. n - 1 : Page(va + i) \in ok

\* r has copied bytes of the process only, from va on, and no more than n.
InBounds(ok, va, n, r) ==
  /\ Len(r.bytes) <= n
  /\ r.bytes = Run(va, Len(r.bytes)) /\ Whole(ok, va, Len(r.bytes))

CopyOk(ok, va, n) ==
  LET r == copy(ok, va, n) IN
  /\ InBounds(ok, va, n, r)
  /\ r.ok <=> n = 0 \/ Whole(ok, va, n)
  /\ r.ok => Len(r.bytes) = n

StringOk(ok, nul, va, n) ==
  LET r == copyinstr(ok, nul, va, n)
      lens == {k \in 1 .. n : va + k - 1 \in nul /\ \A i \in 1 .. k - 1 : va + i - 1 \notin nul}
  IN /\ InBounds(ok, va, n, r)
     /\ r.ok <=> \E k \in lens : Whole(ok, va, k) /\ Len(r.bytes) = k

FetchOk(ok, size, va) ==
  fetchaddr(ok, size, va).ok <=> va + Word <= size /\ Whole(ok, va, Word)

AllRight(ok) ==
  /\ \A va \in Addrs, n \in Lens : CopyOk(ok, va, n)
  /\ \A va \in Addrs, n \in Lens, nul \in SUBSET UserBytes : StringOk(ok, nul, va, n)
  /\ \A va \in Addrs, size \in 0 .. MaxVpn * PGSIZE : FetchOk(ok, size, va)

\* Every set of user pages, and whether all copies to and from it are right.
Verdicts == {<<ok, AllRight(ok)>> : ok \in SUBSET (0 .. MaxVpn - 1)}
==============================================================================
