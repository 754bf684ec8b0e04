-------------------------------- MODULE Heap --------------------------------
(***************************************************************************)
(* The kernel heap, src/kernel/heap.cpp: a doubly linked list of blocks,   *)
(* each behind a header, first fit, split on kmalloc, merged on kfree.     *)
(*                                                                         *)
(* Its callers (the system calls, the file system, the network, process    *)
(* creation) run with interrupts off, or in kernel_main, during which no   *)
(* handler allocates: an operation is one step.  A caller gives back only  *)
(* what it was given, and once.  Requests are small enough for the         *)
(* rounding not to overflow 32 bits; HEAP_MAGIC is never overwritten, and  *)
(* the contents of blocks are left out.  Addresses count from heap_start.  *)
(***************************************************************************)
EXTENDS Integers, FiniteSets

CONSTANTS
  Size,      \* heap_sz
  Header,    \* sizeof(Block)
  MinSplit,  \* MIN_SPLIT
  Unit,      \* kmalloc rounds up to a multiple of it (8)
  Aligns,    \* alignments asked of kmalloc_aligned
  Requests   \* sizes asked for

ASSUME HeapAssumption ==
  /\ Header \in Nat \ {0} /\ MinSplit \in Nat /\ Unit \in Nat \ {0}
  /\ Size \in Nat /\ Size > Header
  /\ Aligns \subseteq Nat \ {0} /\ Requests \subseteq Nat

VARIABLES
  blk,    \* the headers in the list, by their addresses; heap_head is the one at 0
  used,   \* used_bytes
  given   \* what the callers have: the bytes asked for, by the address returned

vars == <<blk, used, given>>
----------------------------------------------------------------------------
Null == -1

Block(size, free, next, prev) == [size |-> size, free |-> free, next |-> next, prev |-> prev]

Rounded(n) == ((n + Unit - 1) \div Unit) * Unit

\* find_free: the list is in the order of the addresses.
Fitting(n)     == {b \in DOMAIN blk : blk[b].free /\ blk[b].size >= n}
IsFirst(b, n)  == b \in Fitting(n) /\ \A c \in Fitting(n) : b <= c

\* Faulty variants, here and below, stand before the definition they break.
SplitHeaderForgotten(bs, b, n) ==
  LET nb == b + Header + n
  IN IF bs[b].size < n + Header + MinSplit THEN bs
     ELSE [a \in DOMAIN bs \cup {nb} |->
             IF a = nb THEN Block(bs[b].size - n, TRUE, bs[b].next, b)
             ELSE IF a = b THEN [bs[b] EXCEPT !.size = n, !.next = nb]
             ELSE IF a = bs[b].next THEN [bs[a] EXCEPT !.prev = nb]
             ELSE bs[a]]

\* try_split: what is left behind n bytes becomes a block of its own if it is large enough.
Split(bs, b, n) ==
  LET nb == b + Header + n
  IN IF bs[b].size < n + Header + MinSplit THEN bs
     ELSE [a \in DOMAIN bs \cup {nb} |->
             IF a = nb THEN Block(bs[b].size - n - Header, TRUE, bs[b].next, b)
             ELSE IF a = b THEN [bs[b] EXCEPT !.size = n, !.next = nb]
             ELSE IF a = bs[b].next THEN [bs[a] EXCEPT !.prev = nb]
             ELSE bs[a]]

AbsorbPrevForgotten(bs, b) ==
  LET n == bs[b].next
  IN [a \in DOMAIN bs \ {n} |->
        IF a = b THEN [bs[b] EXCEPT !.size = @ + Header + bs[n].size, !.next = bs[n].next]
        ELSE bs[a]]

\* The block after b becomes part of b.
Absorb(bs, b) ==
  LET n == bs[b].next
  IN [a \in DOMAIN bs \ {n} |->
        IF a = b THEN [bs[b] EXCEPT !.size = @ + Header + bs[n].size, !.next = bs[n].next]
        ELSE IF a = bs[n].next THEN [bs[a] EXCEPT !.prev = b]
        ELSE bs[a]]

\* try_merge: with the block after it, then with the one before it.
Merge(bs, b) ==
  LET fwd == IF bs[b].next # Null /\ bs[bs[b].next].free THEN Absorb(bs, b) ELSE bs
  IN IF fwd[b].prev # Null /\ fwd[fwd[b].prev].free THEN Absorb(fwd, fwd[b].prev) ELSE fwd

\* kmalloc(n), n not 0, when the first block that fits is b.
Take(bs, b, n) == [Split(bs, b, Rounded(n)) EXCEPT ![b].free = FALSE]

Freed(bs, b) == Merge([bs EXCEPT ![b].free = TRUE], b)

Less(u, n) == IF u >= n THEN u - n ELSE u

Gives(g, p, n) == [q \in DOMAIN g \cup {p} |-> IF q = p THEN n ELSE g[q]]
TakesBack(g, p) == [q \in DOMAIN g \ {p} |-> g[q]]
----------------------------------------------------------------------------
\* kmalloc, also as sys_mmap2 and operator new; 0 bytes, or nothing that fits, returns null.
Kmalloc(n) ==
  \E b \in DOMAIN blk :
    /\ n > 0 /\ IsFirst(b, Rounded(n))
    /\ blk' = Take(blk, b, n)
    /\ used' = used + blk'[b].size
    /\ given' = Gives(given, b + Header, n)

\* kmalloc_aligned: an address further into a larger block.
KmallocAligned(n, align) ==
  \E b \in DOMAIN blk :
    /\ n > 0 /\ IsFirst(b, Rounded(n + align))
    /\ blk' = Take(blk, b, n + align)
    /\ used' = used + blk'[b].size
    /\ given' = Gives(given, ((b + Header + align - 1) \div align) * align, n)

\* kfree, also as sys_munmap and operator delete, of what kmalloc has returned.
Kfree(p) ==
  LET b == p - Header
  IN /\ b \in DOMAIN blk
     /\ blk' = Freed(blk, b)
     /\ used' = Less(used, blk[b].size)
     /\ given' = TakesBack(given, p)

\* krealloc of a block that is not large enough: another is taken before it is given back.
KreallocMoves(p, n) ==
  LET b == p - Header
  IN \E c \in DOMAIN blk :
       /\ b \in DOMAIN blk /\ blk[b].size < Rounded(n) /\ IsFirst(c, Rounded(n))
       /\ LET taken == Take(blk, c, Rounded(n))
          IN /\ blk' = Freed(taken, b)
             /\ used' = Less(used + taken[c].size, taken[b].size)
             /\ given' = Gives(TakesBack(given, p), c + Header, n)

\* krealloc in place.
KreallocStays(p, n) ==
  /\ p - Header \in DOMAIN blk /\ n > 0 /\ blk[p - Header].size >= Rounded(n)
  /\ given' = Gives(given, p, n)
  /\ UNCHANGED <<blk, used>>
----------------------------------------------------------------------------
Init ==
  /\ blk = [b \in {0} |-> Block(Size - Header, TRUE, Null, Null)]
  /\ used = 0
  /\ given = [p \in {} |-> 0]

Next ==
  \/ \E n \in Requests :
       \/ Kmalloc(n)
       \/ \E align \in Aligns : KmallocAligned(n, align)
  \/ \E p \in DOMAIN given :
       \/ Kfree(p)
       \/ \E n \in Requests : KreallocMoves(p, n) \/ KreallocStays(p, n)

Spec == Init /\ [][Next]_vars
----------------------------------------------------------------------------
Addresses == 0..(Size - 1)

\* Every variable stays within the values its declaration comment describes.
TypeOK ==
  /\ DOMAIN blk \subseteq Addresses /\ 0 \in DOMAIN blk
  /\ blk \in [DOMAIN blk -> [size : 0..Size, free : BOOLEAN, next : DOMAIN blk \cup {Null},
                             prev : DOMAIN blk \cup {Null}]]
  /\ used \in 0..Size
  /\ DOMAIN given \subseteq Addresses /\ given \in [DOMAIN given -> 1..Size]

End(b) == b + Header + blk[b].size

\* Blocks fill the heap without a gap and without overlapping: each ends where the one after
\* it begins, the last where the heap does, and prev leads back.
Tiled ==
  /\ blk[0].prev = Null
  /\ \A b \in DOMAIN blk :
       IF blk[b].next = Null THEN End(b) = Size
       ELSE blk[b].next = End(b) /\ blk[blk[b].next].prev = b
  /\ \A b, c \in DOMAIN blk : b < c => End(b) <= c

\* No two free blocks are neighbours.
Merged ==
  \A b \in DOMAIN blk : blk[b].next # Null => ~(blk[b].free /\ blk[blk[b].next].free)

Within(p, b) == b + Header <= p /\ p + given[p] <= End(b)

Taken == {b \in DOMAIN blk : ~blk[b].free}

\* Whatever a caller has lies in a block that is not free, and every such block has somebody
\* who can give it back.
Owned ==
  /\ \A p \in DOMAIN given : \E b \in Taken : Within(p, b)
  /\ \A b \in Taken : \E p \in DOMAIN given : \A q \in DOMAIN given : Within(q, b) <=> q = p

\* used_bytes counts the bytes of the blocks in use (code: heap.cpp:73, :107).
Counted == used = Cardinality(UNION {b + Header .. End(b) - 1 : b \in Taken})

\* However kmalloc, krealloc and kfree follow on each other, the list of blocks stays whole:
\* it fills the heap, free neighbours are merged, every block in use belongs to one caller,
\* and the count of used bytes is exact (code: try_split and try_merge, heap.cpp:40-64).
ListSound == TypeOK /\ Tiled /\ Merged /\ Owned /\ Counted

A == INSTANCE Allocator

\* The heap keeps the promise of Allocator: what it gives out lies in the heap and apart
\* from everything that callers still have, also while krealloc holds two blocks (code:
\* heap.cpp:66-109).
IsAllocator == A!Spec
=============================================================================
