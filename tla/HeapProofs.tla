------------------------------- MODULE HeapProofs -------------------------------
(***************************************************************************)
(* Proofs about module Heap, for any heap, header and rounding, and any    *)
(* requests.                                                               *)
(*                                                                         *)
(* Two facts about the list are not in ListSound and are needed for the    *)
(* induction: prev leads to the block before, from where next leads back,  *)
(* and what is given out begins behind a header.  What kmalloc and kfree   *)
(* do to a list is proved once, for any list (Take and Freed); a step of   *)
(* the heap then only adds a block to those in use or takes one away.      *)
(***************************************************************************)
EXTENDS Heap, FiniteSetTheorems, TLAPS

-----------------------------------------------------------------------------
(* Rounding                                                                 *)

\* Rounding up to a multiple of u adds less than u.
LEMMA RoundUp ==
  ASSUME NEW x \in Nat, NEW u \in Nat \ {0}
  PROVE  /\ ((x + u - 1) \div u) * u \in Nat
         /\ x <= ((x + u - 1) \div u) * u /\ ((x + u - 1) \div u) * u <= x + u - 1
  <1> DEFINE y == x + u - 1
             q == y \div u
             r == y % u
  <1>1. y \in Nat
    OBVIOUS
  <1>2. q \in Nat /\ r \in 0 .. u - 1 /\ y = u * q + r
    BY <1>1
  <1>3. u * q = q * u /\ q * u \in Nat
    BY <1>2
  <1> HIDE DEF q, r
  <1>4. x <= q * u /\ q * u <= y
    BY <1>2, <1>3
  <1> QED
    BY <1>3, <1>4 DEF q

LEMMA RoundedType ==
  ASSUME NEW n \in Nat
  PROVE  Rounded(n) \in Nat /\ n <= Rounded(n) /\ (n = 0 => Rounded(n) = 0)
  <1>1. Rounded(n) \in Nat /\ n <= Rounded(n)
    BY RoundUp, HeapAssumption DEF Rounded
  <1>2. (0 + Unit - 1) \div Unit = 0
    BY HeapAssumption
  <1> QED
    BY <1>1, <1>2, HeapAssumption DEF Rounded

-----------------------------------------------------------------------------
(* Lists of blocks                                                          *)

EndOf(bs, b) == b + Header + bs[b].size

\* A list that fills the heap, with its links in both directions.
Blocks(D) == [size : Nat, free : BOOLEAN, next : D \cup {Null}, prev : D \cup {Null}]
Typed(bs)   == /\ DOMAIN bs \subseteq Addresses /\ 0 \in DOMAIN bs
               /\ bs \in [DOMAIN bs -> Blocks(DOMAIN bs)]
Linked(bs)  == \A b \in DOMAIN bs :
                 /\ bs[b].next = Null => EndOf(bs, b) = Size
                 /\ bs[b].next # Null => bs[b].next = EndOf(bs, b) /\ bs[bs[b].next].prev = b
Back(bs)    == /\ bs[0].prev = Null
               /\ \A b \in DOMAIN bs : bs[b].prev # Null => bs[bs[b].prev].next = b
Ordered(bs) == \A b, c \in DOMAIN bs : b < c => EndOf(bs, b) <= c

WellFormed(bs) == Typed(bs) /\ Linked(bs) /\ Back(bs) /\ Ordered(bs)

\* b and the block after it are free.
FreePair(bs, b) == bs[b].next # Null /\ bs[b].free /\ bs[bs[b].next].free
NoPairs(bs)     == \A b \in DOMAIN bs : ~FreePair(bs, b)

\* The list cs has the blocks in use that bs has, except at b.
SameTaken(bs, cs, b) ==
  /\ \A a \in DOMAIN cs \ {b} : ~cs[a].free => a \in DOMAIN bs /\ ~bs[a].free /\ cs[a].size = bs[a].size
  /\ \A a \in DOMAIN bs \ {b} : ~bs[a].free => a \in DOMAIN cs /\ ~cs[a].free /\ cs[a].size = bs[a].size

LEMMA RelinkedBlock ==
  ASSUME NEW D, NEW k \in Blocks(D), NEW E, NEW pv \in E \cup {Null}, D \subseteq E,
         NEW j, j = [k EXCEPT !.prev = pv]
  PROVE  j \in Blocks(E) /\ j.size = k.size /\ j.next = k.next /\ j.free = k.free /\ j.prev = pv
  BY DEF Blocks

LEMMA SizeType == Size \in Nat /\ Header \in Nat /\ Header > 0 /\ MinSplit \in Nat /\ Null \notin Addresses
  BY HeapAssumption DEF Addresses, Null

\* Every block lies in the heap.
LEMMA EndsInside ==
  ASSUME NEW bs, WellFormed(bs), NEW b \in DOMAIN bs
  PROVE  /\ b \in Nat /\ bs[b].size \in Nat /\ EndOf(bs, b) \in Nat /\ EndOf(bs, b) <= Size
         /\ bs[b].free \in BOOLEAN
         /\ bs[b].next \in DOMAIN bs \cup {Null} /\ bs[b].prev \in DOMAIN bs \cup {Null}
  BY SizeType DEF WellFormed, Typed, Linked, EndOf, Addresses, Blocks

\* What changes only whether b is free keeps the list.
LEMMA MarkedList ==
  ASSUME NEW bs, WellFormed(bs), NEW b \in DOMAIN bs, NEW f \in BOOLEAN
  PROVE  LET cs == [bs EXCEPT ![b].free = f]
         IN  /\ WellFormed(cs) /\ DOMAIN cs = DOMAIN bs
             /\ cs[b].free = f
             /\ \A a \in DOMAIN bs : /\ a # b => cs[a] = bs[a]
                                     /\ cs[a].size = bs[a].size /\ cs[a].next = bs[a].next
                                     /\ cs[a].prev = bs[a].prev
  <1> DEFINE cs == [bs EXCEPT ![b].free = f]
  <1>1. /\ DOMAIN cs = DOMAIN bs /\ cs[b].free = f
        /\ \A a \in DOMAIN bs : /\ a # b => cs[a] = bs[a]
                                /\ cs[a].size = bs[a].size /\ cs[a].next = bs[a].next
                                /\ cs[a].prev = bs[a].prev
        /\ cs \in [DOMAIN bs -> Blocks(DOMAIN bs)]
    BY DEF WellFormed, Typed, Blocks
  <1> HIDE DEF cs
  <1>2. Typed(cs)
    BY <1>1 DEF WellFormed, Typed
  <1>3. Linked(cs)
    BY <1>1 DEF WellFormed, Typed, Linked, EndOf, Blocks
  <1>4. Back(cs)
    BY <1>1 DEF WellFormed, Typed, Back, Blocks
  <1>5. Ordered(cs)
    BY <1>1 DEF WellFormed, Ordered, EndOf
  <1> QED
    BY <1>1, <1>2, <1>3, <1>4, <1>5 DEF WellFormed, cs

\* try_split keeps the list, adds at most a free block, and leaves at most one pair of free
\* blocks: the one that kmalloc is about to take, and its rest.
LEMMA SplitList ==
  ASSUME NEW bs, WellFormed(bs), NoPairs(bs), NEW b \in DOMAIN bs, bs[b].free, NEW n \in Nat
  PROVE  LET cs == Split(bs, b, n)
         IN  /\ WellFormed(cs) /\ b \in DOMAIN cs /\ cs[b].free
             /\ \A a \in DOMAIN cs : FreePair(cs, a) => a = b
             /\ cs[b].size = bs[b].size \/ cs[b].size = n
             /\ \A a \in DOMAIN bs \ {b} :
                  a \in DOMAIN cs /\ cs[a].size = bs[a].size /\ cs[a].free = bs[a].free
             /\ \A a \in DOMAIN cs \ {b} : a \in DOMAIN bs \/ cs[a].free
  <1> DEFINE cs == Split(bs, b, n)
             nb == b + Header + n
             nx == bs[b].next
  <1>1. CASE bs[b].size < n + Header + MinSplit
    <2>1. cs = bs
      BY <1>1 DEF Split
    <2> QED
      BY <2>1 DEF NoPairs
  <1>2. CASE ~(bs[b].size < n + Header + MinSplit)
    <2> DEFINE rest == bs[b].size - n - Header
    <2>0. /\ b \in Nat /\ bs[b].size \in Nat /\ EndOf(bs, b) <= Size /\ nb \in Nat /\ b < nb
          /\ nb + Header <= EndOf(bs, b) /\ rest \in Nat /\ nb + Header + rest = EndOf(bs, b)
          /\ nb \in Addresses
      BY <1>2, SizeType, EndsInside DEF EndOf, Addresses
    <2>1. nb \notin DOMAIN bs
      BY <2>0, SizeType DEF WellFormed, Ordered, EndOf
    <2>2. cs = [a \in DOMAIN bs \cup {nb} |->
                  IF a = nb THEN Block(rest, TRUE, nx, b)
                  ELSE IF a = b THEN [bs[b] EXCEPT !.size = n, !.next = nb]
                  ELSE IF a = nx THEN [bs[a] EXCEPT !.prev = nb]
                  ELSE bs[a]]
      BY <1>2 DEF Split
    <2>3. nx = Null \/ (nx \in DOMAIN bs /\ nx = EndOf(bs, b) /\ nx # b /\ nx # nb /\ nx \in Nat)
      BY <2>0, SizeType DEF WellFormed, Typed, Linked, Blocks, EndOf, Addresses
    <2>4. DOMAIN cs = DOMAIN bs \cup {nb}
      BY <2>2
    <2>5. cs[nb] = [size |-> rest, free |-> TRUE, next |-> nx, prev |-> b]
      BY <2>2 DEF Block
    <2>6. cs[b] = [bs[b] EXCEPT !.size = n, !.next = nb]
      BY <2>1, <2>2
    <2>7. \A a \in DOMAIN bs : a = nx => cs[a] = [bs[a] EXCEPT !.prev = nb]
      BY <2>1, <2>2, <2>3, SizeType DEF WellFormed, Typed
    <2>8. \A a \in DOMAIN bs : a # b /\ a # nx => cs[a] = bs[a]
      BY <2>1, <2>2
    <2>9. \A a \in DOMAIN bs : bs[a] \in Blocks(DOMAIN bs)
      BY DEF WellFormed, Typed
    <2> HIDE DEF cs, nb, rest
    <2>10. /\ cs[nb].size = rest /\ cs[nb].free = TRUE /\ cs[nb].next = nx /\ cs[nb].prev = b
           /\ cs[nb] \in Blocks(DOMAIN cs)
      BY <2>0, <2>3, <2>4, <2>5 DEF Blocks
    <2>b. /\ cs[b].size = n /\ cs[b].next = nb
          /\ cs[b].free = bs[b].free /\ cs[b].prev = bs[b].prev
          /\ cs[b] \in Blocks(DOMAIN cs)
      <3>1. bs[b] \in Blocks(DOMAIN bs) /\ DOMAIN bs \subseteq DOMAIN cs /\ nb \in DOMAIN cs \cup {Null}
        BY <2>4, <2>9
      <3> QED
        <4> DEFINE k == bs[b]
                   j == cs[b]
                   D == DOMAIN bs
                   E == DOMAIN cs
        <4>1. k \in Blocks(D) /\ D \subseteq E /\ nb \in E \cup {Null}
              /\ j = [k EXCEPT !.size = n, !.next = nb]
          BY <2>6, <3>1
        <4> HIDE DEF k, j, D, E
        <4>2. j \in Blocks(E) /\ j.size = n /\ j.next = nb /\ j.free = k.free /\ j.prev = k.prev
          BY <4>1 DEF Blocks
        <4> QED
          BY <4>2 DEF k, j, E
    <2>11. ASSUME NEW a \in DOMAIN bs \ {b}
           PROVE  /\ cs[a].size = bs[a].size /\ cs[a].free = bs[a].free /\ cs[a].next = bs[a].next
                  /\ cs[a].prev = IF a = nx THEN nb ELSE bs[a].prev
                  /\ cs[a] \in Blocks(DOMAIN cs)
      <3>1. bs[a] \in Blocks(DOMAIN bs) /\ DOMAIN bs \subseteq DOMAIN cs /\ nb \in DOMAIN cs \cup {Null}
        BY <2>4, <2>9
      <3>2. CASE a = nx
        <4>1. cs[a] = [bs[a] EXCEPT !.prev = nb]
          BY <2>7, <3>2
        <4> HIDE DEF nx
        <4> QED
          BY <3>1, <3>2, <4>1, RelinkedBlock
      <3>3. CASE a # nx
        <4>1. cs[a] = bs[a]
          BY <2>8, <3>3
        <4> HIDE DEF nx
        <4> QED
          BY <3>1, <3>3, <4>1 DEF Blocks
      <3> QED
        BY <3>2, <3>3
    <2>12. Typed(cs)
      <3>1. \A a \in DOMAIN cs : cs[a] \in Blocks(DOMAIN cs)
        BY <2>4, <2>10, <2>b, <2>11
      <3>2. cs = [a \in DOMAIN cs |-> cs[a]]
        BY <2>2
      <3> QED
        BY <2>0, <2>4, <3>1, <3>2 DEF WellFormed, Typed
    <2>13. Ordered(cs)
      <3> SUFFICES ASSUME NEW c \in DOMAIN cs, NEW d \in DOMAIN cs, c < d
                   PROVE  EndOf(cs, c) <= d
        BY DEF Ordered
      <3>0. \A x, y \in DOMAIN bs : x < y => EndOf(bs, x) <= y
        BY DEF WellFormed, Ordered
      <3>n. \A x \in DOMAIN bs : x \in Nat /\ EndOf(bs, x) \in Nat
        BY EndsInside
      <3>1. CASE c = nb
        <4>1. EndOf(cs, nb) = EndOf(bs, b)
          BY <2>0, <2>10 DEF EndOf
        <4>2. d \in DOMAIN bs /\ b < d
          BY <2>0, <2>4, <3>1, <3>n
        <4> QED
          BY <3>0, <3>1, <4>1, <4>2
      <3>2. CASE c = b
        <4>1. EndOf(cs, b) = nb
          BY <2>b DEF EndOf, nb
        <4>2. d = nb \/ EndOf(bs, b) <= d
          BY <2>4, <3>0, <3>2
        <4> QED
          BY <2>0, <2>4, <3>2, <3>n, <4>1, <4>2, SizeType
      <3>3. CASE c \in DOMAIN bs \ {b}
        <4>1. EndOf(cs, c) = EndOf(bs, c)
          BY <2>11, <3>3 DEF EndOf
        <4>2. CASE d \in DOMAIN bs
          BY <3>0, <3>3, <4>1, <4>2
        <4>3. CASE d = nb
          <5>1. c < b
            <6>1. ~(b < c)
              BY <2>0, <3>0, <3>3, <3>n, <4>3, SizeType
            <6> QED
              BY <2>0, <3>3, <3>n, <6>1
          <5>2. EndOf(bs, c) <= b
            BY <3>0, <3>3, <5>1
          <5> QED
            BY <2>0, <3>3, <3>n, <4>1, <4>3, <5>2
        <4> QED
          BY <2>4, <4>2, <4>3
      <3> QED
        BY <2>4, <3>1, <3>2, <3>3
    <2>14. Linked(cs)
      <3> SUFFICES ASSUME NEW a \in DOMAIN cs
                   PROVE  /\ cs[a].next = Null => EndOf(cs, a) = Size
                          /\ cs[a].next # Null =>
                               cs[a].next = EndOf(cs, a) /\ cs[cs[a].next].prev = a
        BY DEF Linked
      <3>0. \A x \in DOMAIN bs : /\ bs[x].next = Null => EndOf(bs, x) = Size
                                 /\ bs[x].next # Null => /\ bs[x].next = EndOf(bs, x)
                                                         /\ bs[bs[x].next].prev = x
                                                         /\ bs[x].next \in DOMAIN bs
        BY EndsInside DEF WellFormed, Linked
      <3>1. CASE a = nb
        <4>1. EndOf(cs, nb) = EndOf(bs, b)
          BY <2>0, <2>10 DEF EndOf
        <4>2. nx # Null => cs[nx].prev = nb
          BY <2>3, <2>11
        <4> QED
          BY <2>3, <2>10, <3>0, <3>1, <4>1, <4>2
      <3>2. CASE a = b
        <4>1. EndOf(cs, b) = nb
          BY <2>b DEF EndOf, nb
        <4>2. nb # Null
          BY <2>0, SizeType
        <4> QED
          BY <2>10, <2>b, <3>2, <4>1, <4>2
      <3>3. CASE a \in DOMAIN bs \ {b}
        <4>1. EndOf(cs, a) = EndOf(bs, a) /\ cs[a].next = bs[a].next
          BY <2>11, <3>3 DEF EndOf
        <4>2. ASSUME bs[a].next # Null PROVE cs[bs[a].next].prev = a
          <5>1. bs[a].next \in DOMAIN bs /\ bs[bs[a].next].prev = a
            BY <3>0, <3>3, <4>2
          <5>2. bs[a].next # nx
            <6>1. nx # Null => bs[nx].prev = b
              BY <3>0
            <6> QED
              BY <3>3, <4>2, <5>1, <6>1
          <5>3. CASE bs[a].next = b
            BY <2>b, <5>1, <5>3
          <5>4. CASE bs[a].next # b
            BY <2>11, <5>1, <5>2, <5>4
          <5> QED
            BY <5>3, <5>4
        <4> QED
          BY <3>0, <3>3, <4>1, <4>2
      <3> QED
        BY <2>4, <3>1, <3>2, <3>3
    <2>15. Back(cs)
      <3>0. /\ bs[0].prev = Null /\ 0 \in DOMAIN bs
            /\ \A x \in DOMAIN bs : bs[x].prev # Null =>
                  bs[bs[x].prev].next = x /\ bs[x].prev \in DOMAIN bs
        BY EndsInside DEF WellFormed, Back, Typed
      <3>1. cs[0].prev = Null
        <4>1. nx # Null => nx # 0
          BY <2>0, <2>3, SizeType
        <4>2. nx # 0
          BY <4>1, SizeType DEF Null
        <4> QED
          BY <2>b, <2>11, <3>0, <4>2
      <3>2. ASSUME NEW a \in DOMAIN cs, cs[a].prev # Null
            PROVE  cs[cs[a].prev].next = a
        <4>1. CASE a = nb
          BY <2>10, <2>b, <4>1
        <4>2. CASE a = b
          <5>1. cs[b].prev = bs[b].prev /\ bs[b].prev \in DOMAIN bs /\ bs[bs[b].prev].next = b
            BY <2>b, <3>0, <3>2, <4>2
          <5>2. bs[b].prev # b
            BY <2>0, <2>3, <5>1 DEF Null
          <5> QED
            BY <2>11, <4>2, <5>1, <5>2
        <4>3. CASE a \in DOMAIN bs \ {b} /\ a = nx
          <5>1. cs[a].prev = nb
            BY <2>11, <4>3
          <5> QED
            BY <2>10, <4>3, <5>1
        <4>4. CASE a \in DOMAIN bs \ {b} /\ a # nx
          <5>1. cs[a].prev = bs[a].prev
            BY <2>11, <4>4
          <5>2. bs[a].prev \in DOMAIN bs /\ bs[bs[a].prev].next = a
            BY <3>0, <3>2, <4>4, <5>1
          <5>3. bs[a].prev # b
            BY <4>4, <5>2
          <5> QED
            BY <2>11, <5>1, <5>2, <5>3
        <4> QED
          BY <2>4, <4>1, <4>2, <4>3, <4>4
      <3> QED
        BY <3>1, <3>2 DEF Back
    <2>16. ASSUME NEW a \in DOMAIN cs, FreePair(cs, a) PROVE a = b
      <3> SUFFICES ASSUME a # b PROVE FALSE
        OBVIOUS
      <3>1. CASE a = nb
        <4>1. nx # Null /\ cs[nx].free /\ nx \in DOMAIN bs \ {b}
          BY <2>3, <2>10, <2>16, <3>1 DEF FreePair
        <4>2. bs[nx].free
          BY <2>11, <4>1
        <4> QED
          BY <4>1, <4>2 DEF NoPairs, FreePair
      <3>2. CASE a \in DOMAIN bs \ {b}
        <4>1. bs[a].free /\ bs[a].next # Null /\ cs[bs[a].next].free
          BY <2>11, <2>16, <3>2 DEF FreePair
        <4>2. bs[a].next \in DOMAIN bs
          BY <3>2, <4>1, EndsInside
        <4>3. bs[bs[a].next].free
          BY <2>b, <2>11, <4>1, <4>2
        <4> QED
          BY <3>2, <4>1, <4>3 DEF NoPairs, FreePair
      <3> QED
        BY <2>4, <3>1, <3>2
    <2> QED
      BY <2>4, <2>10, <2>b, <2>11, <2>12, <2>13, <2>14, <2>15, <2>16 DEF WellFormed, cs
  <1> QED
    BY <1>1, <1>2

\* Merging two neighbours keeps the list, and changes no other block but for its prev.
LEMMA AbsorbList ==
  ASSUME NEW bs, WellFormed(bs), NEW b \in DOMAIN bs, NEW n, n = bs[b].next, n # Null,
         NEW cs, cs = Absorb(bs, b)
  PROVE  /\ WellFormed(cs) /\ DOMAIN cs = DOMAIN bs \ {n} /\ b \in DOMAIN cs /\ n \in DOMAIN bs
         /\ cs[b].free = bs[b].free /\ cs[b].next = bs[n].next
         /\ \A a \in DOMAIN cs \ {b} :
              cs[a].size = bs[a].size /\ cs[a].free = bs[a].free /\ cs[a].next = bs[a].next
  <1> DEFINE m == bs[n].next
             sz == bs[b].size + Header + bs[n].size
  <1>0. /\ n \in DOMAIN bs /\ n = EndOf(bs, b) /\ bs[n].prev = b /\ n # b /\ n # 0
        /\ m \in DOMAIN bs \cup {Null} /\ sz \in Nat /\ b + Header + sz = EndOf(bs, n)
        /\ b \in Nat /\ n \in Nat /\ EndOf(bs, n) \in Nat /\ b < n /\ EndOf(bs, b) \in Nat
    <2>1. n \in DOMAIN bs /\ n = EndOf(bs, b) /\ bs[n].prev = b
      BY EndsInside DEF WellFormed, Linked
    <2> QED
      BY <2>1, EndsInside, SizeType DEF EndOf
  <1>1. m # Null => m \in DOMAIN bs /\ m = EndOf(bs, n) /\ bs[m].prev = n /\ m # n /\ m # b /\ m # 0
    <2>1. m # Null => m \in DOMAIN bs /\ m = EndOf(bs, n) /\ bs[m].prev = n
      BY <1>0 DEF WellFormed, Linked
    <2> QED
      BY <2>1, <1>0, EndsInside, SizeType DEF EndOf
  <1>2. cs = [a \in DOMAIN bs \ {n} |->
                IF a = b THEN [bs[b] EXCEPT !.size = @ + Header + bs[n].size, !.next = m]
                ELSE IF a = m THEN [bs[a] EXCEPT !.prev = b]
                ELSE bs[a]]
    BY DEF Absorb
  <1>3. DOMAIN cs = DOMAIN bs \ {n} /\ b \in DOMAIN cs
    BY <1>0, <1>2
  <1>4. cs[b] = [bs[b] EXCEPT !.size = sz, !.next = m]
    BY <1>2, <1>3
  <1>5. \A a \in DOMAIN bs \ {b, n} : cs[a] = IF a = m THEN [bs[a] EXCEPT !.prev = b] ELSE bs[a]
    BY <1>2
  <1>6. \A a \in DOMAIN bs : bs[a] \in Blocks(DOMAIN bs)
    BY DEF WellFormed, Typed
  <1>7. \A a \in DOMAIN bs : bs[a].next = n => a = b
    BY <1>0 DEF WellFormed, Linked, Null
  <1>8. \A a \in DOMAIN bs : bs[a].prev = n => a = m
    BY <1>0, SizeType DEF WellFormed, Back, Null
  <1> HIDE DEF sz, m
  <1>10. /\ cs[b].size = sz /\ cs[b].next = m /\ cs[b].free = bs[b].free /\ cs[b].prev = bs[b].prev
    <2> DEFINE k == bs[b]
               j == cs[b]
               D == DOMAIN bs
    <2>1. k \in Blocks(D) /\ j = [k EXCEPT !.size = sz, !.next = m]
      BY <1>4, <1>6
    <2> HIDE DEF k, j, D
    <2>2. j.size = sz /\ j.next = m /\ j.free = k.free /\ j.prev = k.prev
      BY <2>1 DEF Blocks
    <2> QED
      BY <2>2 DEF k, j
  <1>11. ASSUME NEW a \in DOMAIN bs \ {b, n}
         PROVE  /\ cs[a].size = bs[a].size /\ cs[a].free = bs[a].free /\ cs[a].next = bs[a].next
                /\ cs[a].prev = IF a = m THEN b ELSE bs[a].prev
    <2> DEFINE k == bs[a]
               D == DOMAIN bs
    <2>1. k \in Blocks(D) /\ cs[a] = IF a = m THEN [k EXCEPT !.prev = b] ELSE k
      BY <1>5, <1>6
    <2> HIDE DEF k, D
    <2>2. /\ cs[a].size = k.size /\ cs[a].free = k.free /\ cs[a].next = k.next
          /\ cs[a].prev = IF a = m THEN b ELSE k.prev
      BY <2>1 DEF Blocks
    <2> QED
      BY <2>2 DEF k
  <1>12. Typed(cs)
    <2>1. cs[b] \in Blocks(DOMAIN cs)
      <3> DEFINE k == bs[b]
                 j == cs[b]
                 E == DOMAIN cs
      <3>1. k \in Blocks(DOMAIN bs) /\ j = [k EXCEPT !.size = sz, !.next = m]
        BY <1>4, <1>6
      <3>2. m \in E \cup {Null}
        BY <1>0, <1>1, <1>3
      <3>3. k.prev \in E \cup {Null}
        BY <1>0, <1>1, <1>3, <1>8, EndsInside DEF Null
      <3>4. sz \in Nat
        BY <1>0
      <3> HIDE DEF k, j, E
      <3>5. j \in Blocks(E)
        BY <3>1, <3>2, <3>3, <3>4 DEF Blocks
      <3> QED
        BY <3>5 DEF j, E
    <2>3. ASSUME NEW a \in DOMAIN bs \ {b, n} PROVE cs[a] \in Blocks(DOMAIN cs)
      <3> DEFINE k == bs[a]
                 E == DOMAIN cs
      <3>1. k \in Blocks(DOMAIN bs) /\ cs[a] = IF a = m THEN [k EXCEPT !.prev = b] ELSE k
        BY <1>5, <1>6
      <3>2. k.next \in E \cup {Null} /\ (a # m => k.prev \in E \cup {Null}) /\ b \in E
        BY <1>3, <1>7, <1>8, EndsInside
      <3> HIDE DEF k, E
      <3>3. cs[a] \in Blocks(E)
        BY <3>1, <3>2 DEF Blocks
      <3> QED
        BY <3>3 DEF E
    <2>2. cs = [a \in DOMAIN cs |-> cs[a]]
      BY <1>2
    <2> QED
      BY <1>0, <1>3, <2>1, <2>2, <2>3 DEF WellFormed, Typed
  <1>13. Ordered(cs)
    <2> SUFFICES ASSUME NEW c \in DOMAIN cs, NEW d \in DOMAIN cs, c < d
                 PROVE  EndOf(cs, c) <= d
      BY DEF Ordered
    <2>0. \A x, y \in DOMAIN bs : x < y => EndOf(bs, x) <= y
      BY DEF WellFormed, Ordered
    <2>1. \A x \in DOMAIN bs : x \in Nat
      BY EndsInside
    <2>2. CASE c = b
      <3>1. EndOf(cs, b) = EndOf(bs, n)
        BY <1>0, <1>10 DEF EndOf
      <3>2. n <= d /\ d # n
        BY <1>0, <1>3, <2>0, <2>2
      <3>3. n < d
        BY <1>0, <1>3, <2>1, <3>2
      <3> QED
        BY <1>0, <1>3, <2>0, <2>2, <3>1, <3>3
    <2>3. CASE c # b
      <3>1. EndOf(cs, c) = EndOf(bs, c)
        BY <1>3, <1>11, <2>3 DEF EndOf
      <3> QED
        BY <1>3, <2>0, <3>1
    <2> QED
      BY <2>2, <2>3
  <1>14. Linked(cs)
    <2> SUFFICES ASSUME NEW a \in DOMAIN cs
                 PROVE  /\ cs[a].next = Null => EndOf(cs, a) = Size
                        /\ cs[a].next # Null =>
                             cs[a].next = EndOf(cs, a) /\ cs[cs[a].next].prev = a
      BY DEF Linked
    <2>0. \A x \in DOMAIN bs : /\ bs[x].next = Null => EndOf(bs, x) = Size
                               /\ bs[x].next # Null => /\ bs[x].next = EndOf(bs, x)
                                                       /\ bs[bs[x].next].prev = x
                                                       /\ bs[x].next \in DOMAIN bs
      BY EndsInside DEF WellFormed, Linked
    <2>1. CASE a = b
      <3>1. EndOf(cs, b) = EndOf(bs, n)
        BY <1>0, <1>10 DEF EndOf
      <3>2. m # Null => cs[m].prev = b
        BY <1>1, <1>11
      <3>3. m = Null => EndOf(bs, n) = Size
        BY <1>0, <2>0 DEF m
      <3> QED
        BY <1>1, <1>10, <2>1, <3>1, <3>2, <3>3
    <2>2. CASE a # b
      <3>1. EndOf(cs, a) = EndOf(bs, a) /\ cs[a].next = bs[a].next /\ a \in DOMAIN bs
        BY <1>3, <1>11, <2>2 DEF EndOf
      <3>2. ASSUME bs[a].next # Null PROVE cs[bs[a].next].prev = a
        <4>1. bs[a].next \in DOMAIN bs /\ bs[bs[a].next].prev = a /\ bs[a].next # n
          BY <1>7, <2>0, <2>2, <3>1, <3>2
        <4>2. CASE bs[a].next = b
          BY <1>10, <4>1, <4>2
        <4>3. CASE bs[a].next # b
          <5>1. bs[a].next # m
            <6>1. m = bs[a].next => bs[m].prev = a
              BY <4>1
            <6> QED
              BY <1>1, <1>3, <3>2, <6>1
          <5> QED
            BY <1>11, <4>1, <4>3, <5>1
        <4> QED
          BY <4>2, <4>3
      <3> QED
        BY <2>0, <3>1, <3>2
    <2> QED
      BY <2>1, <2>2
  <1>15. Back(cs)
    <2>0. /\ bs[0].prev = Null /\ 0 \in DOMAIN bs
          /\ \A x \in DOMAIN bs : bs[x].prev # Null =>
                bs[bs[x].prev].next = x /\ bs[x].prev \in DOMAIN bs
      BY EndsInside DEF WellFormed, Back, Typed
    <2>1. cs[0].prev = Null
      <3>1. m # 0
        BY <1>1 DEF Null
      <3> QED
        BY <1>0, <1>10, <1>11, <2>0, <3>1
    <2>2. ASSUME NEW a \in DOMAIN cs, cs[a].prev # Null
          PROVE  cs[cs[a].prev].next = a
      <3>1. CASE a = b
        <4>1. cs[b].prev = bs[b].prev /\ bs[b].prev \in DOMAIN bs /\ bs[bs[b].prev].next = b
          BY <1>10, <2>0, <2>2, <3>1
        <4>2. bs[b].prev # b /\ bs[b].prev # n
          <5>1. bs[b].next # b
            BY <1>0
          <5>2. bs[b].prev = n => b = m
            BY <1>8
          <5>3. b # m
            BY <1>0, <1>1 DEF Null
          <5> QED
            BY <4>1, <5>1, <5>2, <5>3
        <4> QED
          BY <1>11, <3>1, <4>1, <4>2
      <3>2. CASE a # b /\ a = m
        <4>1. cs[a].prev = b
          BY <1>3, <1>11, <3>2
        <4> QED
          BY <1>10, <3>2, <4>1
      <3>3. CASE a # b /\ a # m
        <4>1. cs[a].prev = bs[a].prev /\ a \in DOMAIN bs
          BY <1>3, <1>11, <3>3
        <4>2. bs[a].prev \in DOMAIN bs /\ bs[bs[a].prev].next = a
          BY <2>0, <2>2, <4>1
        <4>3. bs[a].prev # n
          BY <1>8, <3>3, <4>1
        <4>4. bs[a].prev # b
          <5>1. a # n
            BY <1>3
          <5> QED
            BY <4>2, <5>1
        <4> QED
          BY <1>11, <4>1, <4>2, <4>3, <4>4
      <3> QED
        BY <3>1, <3>2, <3>3
    <2> QED
      BY <2>1, <2>2 DEF Back
  <1> QED
    BY <1>0, <1>3, <1>10, <1>11, <1>12, <1>13, <1>14, <1>15 DEF WellFormed, m

\* next leads to a later block, whose prev leads back, and the other way round.
LEMMA Neighbours ==
  ASSUME NEW bs, WellFormed(bs), NEW b \in DOMAIN bs
  PROVE  /\ bs[b].next # Null => /\ bs[b].next \in DOMAIN bs /\ bs[b].next # b
                                 /\ bs[bs[b].next].prev = b
         /\ bs[b].prev # Null => /\ bs[b].prev \in DOMAIN bs /\ bs[b].prev # b
                                 /\ bs[bs[b].prev].next = b
         /\ b # Null
  <1>1. ASSUME NEW a \in DOMAIN bs, bs[a].next # Null
        PROVE  bs[a].next \in DOMAIN bs /\ bs[a].next # a /\ bs[bs[a].next].prev = a
    <2>1. bs[a].next \in DOMAIN bs /\ bs[a].next = EndOf(bs, a) /\ bs[bs[a].next].prev = a
      BY <1>1, EndsInside DEF WellFormed, Linked
    <2> QED
      BY <2>1, EndsInside, SizeType DEF EndOf
  <1>2. b \in Nat
    BY EndsInside
  <1>3. ASSUME bs[b].prev # Null
        PROVE  bs[b].prev \in DOMAIN bs /\ bs[b].prev # b /\ bs[bs[b].prev].next = b
    <2>1. bs[b].prev \in DOMAIN bs /\ bs[bs[b].prev].next = b
      BY <1>3, EndsInside DEF WellFormed, Back
    <2>2. b # Null
      BY <1>2 DEF Null
    <2> QED
      BY <1>1, <2>1, <2>2
  <1> QED
    BY <1>1, <1>2, <1>3 DEF Null

\* What kmalloc does to the list: one free block is in use afterwards, and nothing else.
LEMMA TakeList ==
  ASSUME NEW bs, WellFormed(bs), NoPairs(bs), NEW b \in DOMAIN bs, bs[b].free, NEW n \in Nat
  PROVE  LET t == Take(bs, b, n)
         IN  /\ WellFormed(t) /\ NoPairs(t) /\ b \in DOMAIN t /\ ~t[b].free
             /\ t[b].size = bs[b].size \/ t[b].size = Rounded(n)
             /\ SameTaken(bs, t, b)
  <1> DEFINE cs == Split(bs, b, Rounded(n))
             t == [cs EXCEPT ![b].free = FALSE]
  <1>1. /\ WellFormed(cs) /\ b \in DOMAIN cs /\ cs[b].free
        /\ \A a \in DOMAIN cs : FreePair(cs, a) => a = b
        /\ cs[b].size = bs[b].size \/ cs[b].size = Rounded(n)
        /\ \A a \in DOMAIN bs \ {b} :
             a \in DOMAIN cs /\ cs[a].size = bs[a].size /\ cs[a].free = bs[a].free
        /\ \A a \in DOMAIN cs \ {b} : a \in DOMAIN bs \/ cs[a].free
    BY SplitList, RoundedType
  <1>2. Take(bs, b, n) = t
    BY DEF Take
  <1> HIDE DEF cs
  <1>3. /\ WellFormed(t) /\ DOMAIN t = DOMAIN cs /\ t[b].free = FALSE
        /\ \A a \in DOMAIN cs : /\ a # b => t[a] = cs[a]
                                /\ t[a].size = cs[a].size /\ t[a].next = cs[a].next
    BY <1>1, MarkedList
  <1> HIDE DEF t
  <1>4. NoPairs(t)
    <2> SUFFICES ASSUME NEW a \in DOMAIN t, FreePair(t, a) PROVE FALSE
      BY DEF NoPairs
    <2>1. a # b /\ a \in DOMAIN cs /\ t[a].next # Null /\ t[t[a].next].free /\ t[a] = cs[a]
      BY <1>3 DEF FreePair
    <2>2. t[a].next \in DOMAIN cs /\ t[a].next # b
      BY <1>3, <2>1, Neighbours
    <2>3. FreePair(cs, a)
      BY <1>3, <2>1, <2>2 DEF FreePair
    <2> QED
      BY <1>1, <2>1, <2>3
  <1>5. SameTaken(bs, t, b)
    BY <1>1, <1>3 DEF SameTaken
  <1> QED
    BY <1>1, <1>2, <1>3, <1>4, <1>5

\* What kfree does to it: the block is no longer in use, and nothing else changes.
LEMMA FreedList ==
  ASSUME NEW bs, WellFormed(bs), NoPairs(bs), NEW b \in DOMAIN bs, ~bs[b].free
  PROVE  LET r == Freed(bs, b)
         IN  /\ WellFormed(r) /\ NoPairs(r) /\ SameTaken(bs, r, b)
             /\ b \in DOMAIN r => r[b].free
  <1> DEFINE f == [bs EXCEPT ![b].free = TRUE]
             fwd == IF f[b].next # Null /\ f[f[b].next].free THEN Absorb(f, b) ELSE f
             p == fwd[b].prev
             r == IF p # Null /\ fwd[p].free THEN Absorb(fwd, p) ELSE fwd
  <1>1. Freed(bs, b) = r
    BY DEF Freed, Merge
  <1>2. /\ WellFormed(f) /\ DOMAIN f = DOMAIN bs /\ f[b].free = TRUE
        /\ \A a \in DOMAIN bs : /\ a # b => f[a] = bs[a]
                                /\ f[a].size = bs[a].size /\ f[a].next = bs[a].next
    BY MarkedList
  <1> HIDE DEF f
  <1>3. \A a \in DOMAIN f : FreePair(f, a) => a = b \/ f[a].next = b
    <2> SUFFICES ASSUME NEW a \in DOMAIN f, FreePair(f, a), a # b, f[a].next # b
                 PROVE  FALSE
      OBVIOUS
    <2>1. f[a].next \in DOMAIN f /\ f[a] = bs[a]
      BY <1>2, Neighbours DEF FreePair
    <2>2. FreePair(bs, a)
      BY <1>2, <2>1 DEF FreePair
    <2> QED
      BY <1>2, <2>2 DEF NoPairs
  <1>4. /\ WellFormed(fwd) /\ b \in DOMAIN fwd /\ fwd[b].free
        /\ \A a \in DOMAIN fwd : FreePair(fwd, a) => fwd[a].next = b
        /\ \A a \in DOMAIN fwd \ {b} : a \in DOMAIN bs /\ fwd[a].size = bs[a].size /\ fwd[a].free = bs[a].free
        /\ \A a \in DOMAIN bs \ {b} : a \in DOMAIN fwd \/ bs[a].free
    <2>1. CASE f[b].next # Null /\ f[f[b].next].free
      <3> DEFINE cs == Absorb(f, b)
                 n == f[b].next
      <3>1. fwd = cs
        BY <2>1
      <3>2. /\ WellFormed(cs) /\ DOMAIN cs = DOMAIN f \ {n} /\ b \in DOMAIN cs
            /\ n \in DOMAIN f
            /\ cs[b].free = f[b].free /\ cs[b].next = f[n].next
            /\ \A a \in DOMAIN cs \ {b} :
                 cs[a].size = f[a].size /\ cs[a].free = f[a].free /\ cs[a].next = f[a].next
        <4>1. n # Null
          BY <2>1
        <4> HIDE DEF n, cs
        <4> QED
          BY <1>2, <4>1, AbsorbList DEF n, cs
      <3> HIDE DEF cs
      <3>3. n # b /\ n # Null /\ f[n].free
        BY <1>2, <2>1, Neighbours
      <3>4. ASSUME NEW a \in DOMAIN cs, FreePair(cs, a) PROVE cs[a].next = b
        <4>1. CASE a = b
          <5>1. f[n].next # Null /\ cs[f[n].next].free
            BY <3>2, <3>4, <4>1 DEF FreePair
          <5>2. f[n].next \in DOMAIN f /\ f[n].next # n /\ f[f[n].next].prev = n
            BY <1>2, <3>2, <5>1, Neighbours
          <5>3. f[n].next # b
            <6>1. cs[b].next # b
              BY <3>2, <3>4, <4>1, Neighbours DEF FreePair
            <6> QED
              BY <3>2, <6>1
          <5>4. FreePair(f, n)
            BY <3>2, <3>3, <5>1, <5>2, <5>3 DEF FreePair
          <5> QED
            BY <1>3, <3>2, <3>3, <5>3, <5>4
        <4>2. CASE a # b
          <5>1. f[a].free /\ f[a].next # Null /\ cs[f[a].next].free /\ a \in DOMAIN f
            BY <3>2, <3>4, <4>2 DEF FreePair
          <5>2. f[a].next \in DOMAIN cs
            <6>1. cs[a].next \in DOMAIN cs
              BY <3>2, <3>4, Neighbours DEF FreePair
            <6> QED
              BY <3>2, <4>2, <6>1
          <5>3. FreePair(f, a)
            BY <3>2, <5>1, <5>2 DEF FreePair
          <5> QED
            BY <1>3, <3>2, <4>2, <5>1, <5>3
        <4> QED
          BY <4>1, <4>2
      <3>5. \A a \in DOMAIN cs \ {b} : a \in DOMAIN bs /\ cs[a].size = bs[a].size /\ cs[a].free = bs[a].free
        BY <1>2, <3>2
      <3>6. \A a \in DOMAIN bs \ {b} : a \in DOMAIN cs \/ bs[a].free
        BY <1>2, <3>2, <3>3
      <3> HIDE DEF fwd
      <3> QED
        BY <1>2, <3>1, <3>2, <3>4, <3>5, <3>6
    <2>2. CASE ~(f[b].next # Null /\ f[f[b].next].free)
      <3>1. fwd = f
        BY <2>2
      <3>2. \A a \in DOMAIN f : FreePair(f, a) => f[a].next = b
        BY <1>3, <2>2 DEF FreePair
      <3> HIDE DEF fwd
      <3> QED
        BY <1>2, <3>1, <3>2
    <2> QED
      BY <2>1, <2>2
  <1> HIDE DEF fwd
  <1>5. CASE p # Null /\ fwd[p].free
    <2> DEFINE cs == Absorb(fwd, p)
    <2>0. p \in DOMAIN fwd /\ p # b /\ fwd[p].next = b /\ fwd[p].next # Null
      BY <1>4, <1>5, Neighbours
    <2>1. r = cs
      BY <1>5
    <2>2. /\ WellFormed(cs) /\ DOMAIN cs = DOMAIN fwd \ {b} /\ p \in DOMAIN cs
          /\ cs[p].free = fwd[p].free /\ cs[p].next = fwd[b].next
          /\ \A a \in DOMAIN cs \ {p} :
               cs[a].size = fwd[a].size /\ cs[a].free = fwd[a].free /\ cs[a].next = fwd[a].next
      <3> HIDE DEF p, cs
      <3> QED
        BY <1>4, <2>0, AbsorbList DEF cs
    <2> HIDE DEF cs, p
    <2>3. NoPairs(cs)
      <3> SUFFICES ASSUME NEW a \in DOMAIN cs, FreePair(cs, a) PROVE FALSE
        BY DEF NoPairs
      <3>0. cs[a].next \in DOMAIN cs /\ cs[a].next # Null /\ cs[a].free /\ cs[cs[a].next].free
        BY <2>2, Neighbours DEF FreePair
      <3>1. CASE a = p
        <4>1. FreePair(fwd, b)
          BY <1>4, <2>2, <3>0, <3>1 DEF FreePair
        <4>2. fwd[b].next # b
          BY <2>2, <3>0, <3>1
        <4> QED
          BY <1>4, <4>1, <4>2
      <3>2. CASE a # p
        <4>1. FreePair(fwd, a) /\ fwd[a].next # b
          BY <2>2, <3>0, <3>2 DEF FreePair
        <4> QED
          BY <1>4, <2>2, <4>1
      <3> QED
        BY <3>1, <3>2
    <2>4. SameTaken(bs, cs, b)
      BY <1>4, <1>5, <2>2 DEF SameTaken
    <2> QED
      BY <1>1, <2>1, <2>2, <2>3, <2>4
  <1>6. CASE ~(p # Null /\ fwd[p].free)
    <2>1. r = fwd
      BY <1>6
    <2>2. NoPairs(fwd)
      <3> SUFFICES ASSUME NEW a \in DOMAIN fwd, FreePair(fwd, a) PROVE FALSE
        BY DEF NoPairs
      <3>1. fwd[a].next = b /\ fwd[a].free
        BY <1>4 DEF FreePair
      <3>2. p = a /\ a # Null
        BY <1>4, <3>1, Neighbours
      <3> QED
        BY <1>6, <3>1, <3>2
    <2>3. SameTaken(bs, fwd, b)
      BY <1>4 DEF SameTaken
    <2> QED
      BY <1>1, <1>4, <2>1, <2>2, <2>3
  <1> QED
    BY <1>5, <1>6

-----------------------------------------------------------------------------
(* The invariant, for any list, callers' places and count                   *)

InUse(bs)     == {b \in DOMAIN bs : ~bs[b].free}
Span(bs, b)   == b + Header .. EndOf(bs, b) - 1
BytesInUse(bs) == UNION {Span(bs, b) : b \in InUse(bs)}

Lies(bs, g, p, b) == b + Header <= p /\ p + g[p] <= EndOf(bs, b)

Places(g) == DOMAIN g \subseteq Nat /\ g \in [DOMAIN g -> Nat \ {0}]

Owners(bs, g) ==
  /\ \A p \in DOMAIN g : \E b \in InUse(bs) : Lies(bs, g, p, b)
  /\ \A b \in InUse(bs) : \E p \in DOMAIN g : \A q \in DOMAIN g : Lies(bs, g, q, b) <=> q = p

Inv(bs, g, u) ==
  WellFormed(bs) /\ NoPairs(bs) /\ Places(g) /\ Owners(bs, g) /\ u = Cardinality(BytesInUse(bs))

\* What lies in one block lies in no other.
LEMMA OneBlock ==
  ASSUME NEW bs, WellFormed(bs), NEW g, Places(g), NEW p \in DOMAIN g,
         NEW b \in DOMAIN bs, NEW c \in DOMAIN bs, Lies(bs, g, p, b), Lies(bs, g, p, c)
  PROVE  b = c
  <1>1. /\ b \in Nat /\ c \in Nat /\ EndOf(bs, b) \in Nat /\ EndOf(bs, c) \in Nat
    BY EndsInside
  <1>2. p \in Nat /\ g[p] \in Nat \ {0}
    BY DEF Places
  <1>3. ~(b < c) /\ ~(c < b)
    BY <1>1, <1>2, SizeType DEF WellFormed, Ordered, Lies
  <1> QED
    BY <1>1, <1>3

LEMMA BytesFinite ==
  ASSUME NEW bs, WellFormed(bs)
  PROVE  /\ BytesInUse(bs) \subseteq Addresses /\ IsFiniteSet(BytesInUse(bs))
         /\ Cardinality(BytesInUse(bs)) \in 0 .. Size
  <1>1. BytesInUse(bs) \subseteq Addresses
    <2> SUFFICES ASSUME NEW b \in InUse(bs), NEW a \in Span(bs, b) PROVE a \in Addresses
      BY DEF BytesInUse
    <2>1. b \in Nat /\ EndOf(bs, b) \in Nat /\ EndOf(bs, b) <= Size
      BY EndsInside DEF InUse
    <2> QED
      BY <2>1, SizeType DEF Span, Addresses
  <1>2. IsFiniteSet(Addresses) /\ Cardinality(Addresses) = Size
    BY FS_Interval, SizeType DEF Addresses
  <1> QED
    BY <1>1, <1>2, FS_Subset, FS_CardinalityType, SizeType

\* A block more in use adds its size to the count.
LEMMA MoreBytes ==
  ASSUME NEW bs, NEW cs, WellFormed(bs), WellFormed(cs), NEW b \in DOMAIN cs, ~cs[b].free,
         SameTaken(bs, cs, b), b \in DOMAIN bs => bs[b].free
  PROVE  Cardinality(BytesInUse(cs)) = Cardinality(BytesInUse(bs)) + cs[b].size
  <1>1. \A a : a \in InUse(cs) <=> a \in InUse(bs) \/ a = b
    BY DEF InUse, SameTaken
  <1>2. \A a \in InUse(bs) : Span(cs, a) = Span(bs, a) /\ a # b /\ a \in DOMAIN cs
    BY DEF InUse, SameTaken, Span, EndOf
  <1>3. BytesInUse(cs) = BytesInUse(bs) \cup Span(cs, b)
    BY <1>1, <1>2 DEF BytesInUse
  <1>4. BytesInUse(bs) \cap Span(cs, b) = {}
    <2> SUFFICES ASSUME NEW a \in InUse(bs), NEW x \in Span(cs, a), x \in Span(cs, b) PROVE FALSE
      BY <1>2 DEF BytesInUse
    <2>1. a \in DOMAIN cs /\ a # b
      BY <1>2
    <2>2. /\ a \in Nat /\ b \in Nat /\ EndOf(cs, a) \in Nat /\ EndOf(cs, b) \in Nat
      BY <2>1, EndsInside
    <2>3. a < b => EndOf(cs, a) <= b
      BY <2>1 DEF WellFormed, Ordered
    <2>4. b < a => EndOf(cs, b) <= a
      BY <2>1 DEF WellFormed, Ordered
    <2> QED
      BY <2>1, <2>2, <2>3, <2>4, SizeType DEF Span
  <1>5. IsFiniteSet(Span(cs, b)) /\ Cardinality(Span(cs, b)) = cs[b].size
    <2>1. /\ b + Header \in Int /\ EndOf(cs, b) - 1 \in Int /\ cs[b].size \in Nat
          /\ b + Header + cs[b].size = EndOf(cs, b) /\ b \in Nat
      BY EndsInside, SizeType DEF EndOf
    <2>2. /\ IsFiniteSet(Span(cs, b))
          /\ Cardinality(Span(cs, b)) =
               IF b + Header > EndOf(cs, b) - 1 THEN 0 ELSE EndOf(cs, b) - 1 - (b + Header) + 1
      BY <2>1, FS_Interval DEF Span
    <2> QED
      BY <2>1, <2>2, SizeType
  <1>6. IsFiniteSet(BytesInUse(bs)) /\ Cardinality(BytesInUse(bs)) \in Nat
    BY BytesFinite, SizeType
  <1>7. Cardinality(BytesInUse(cs)) =
          Cardinality(BytesInUse(bs)) + Cardinality(Span(cs, b)) - Cardinality({})
    BY <1>3, <1>4, <1>5, <1>6, FS_Union
  <1>8. cs[b].size \in Nat
    BY EndsInside
  <1> QED
    BY <1>5, <1>6, <1>7, <1>8, FS_EmptySet

\* A place given out in a block that was free until now: it lies in the heap, apart from all
\* other places, and the invariant holds of the list, the places and the count after it.
LEMMA GiveInv ==
  ASSUME NEW bs, NEW g, NEW u, Inv(bs, g, u), NEW b \in DOMAIN bs, bs[b].free,
         NEW cs, WellFormed(cs), NoPairs(cs), SameTaken(bs, cs, b), b \in DOMAIN cs, ~cs[b].free,
         NEW p \in Nat, NEW n \in Nat \ {0}, b + Header <= p, p + n <= EndOf(cs, b)
  PROVE  /\ Inv(cs, Gives(g, p, n), u + cs[b].size)
         /\ p \notin DOMAIN g /\ p + n <= Size
         /\ \A q \in DOMAIN g : p + n <= q \/ q + g[q] <= p
  <1> DEFINE h == Gives(g, p, n)
  <1>0. /\ WellFormed(bs) /\ Places(g) /\ Owners(bs, g) /\ u = Cardinality(BytesInUse(bs))
        /\ b \in Nat /\ EndOf(cs, b) \in Nat /\ EndOf(cs, b) <= Size
    BY EndsInside DEF Inv
  <1>1. \A a : a \in InUse(cs) <=> a \in InUse(bs) \/ a = b
    BY DEF InUse, SameTaken
  <1>2. \A a \in InUse(bs) : EndOf(cs, a) = EndOf(bs, a) /\ a # b /\ a \in DOMAIN cs
    BY DEF InUse, SameTaken, EndOf
  <1>3. ASSUME NEW q \in DOMAIN g
        PROVE  (p + n <= q \/ q + g[q] <= p) /\ q # p /\ ~Lies(cs, g, q, b)
    <2>1. PICK a \in InUse(bs) : Lies(bs, g, q, a)
      BY <1>0 DEF Owners
    <2>2. a # b /\ a \in DOMAIN cs /\ Lies(cs, g, q, a) /\ a \in Nat /\ EndOf(cs, a) \in Nat
      BY <1>2, <2>1, EndsInside DEF Lies
    <2>3. (a < b => EndOf(cs, a) <= b) /\ (b < a => EndOf(cs, b) <= a)
      BY <2>2 DEF WellFormed, Ordered
    <2>4. q \in Nat /\ g[q] \in Nat \ {0}
      BY <1>0 DEF Places
    <2>5. ~Lies(cs, g, q, b)
      BY <1>0, <2>2, OneBlock
    <2> QED
      BY <1>0, <2>2, <2>3, <2>4, <2>5, SizeType DEF Lies
  <1>4. p + n <= Size
    BY <1>0, SizeType
  <1>5. /\ DOMAIN h = DOMAIN g \cup {p} /\ h[p] = n /\ \A q \in DOMAIN g : h[q] = g[q]
    BY <1>3 DEF Gives
  <1>6. Places(h)
    BY <1>0, <1>3 DEF Places, Gives
  <1> HIDE DEF h
  <1>7. Owners(cs, h)
    <2>1. ASSUME NEW q \in DOMAIN g, NEW a \in InUse(bs)
          PROVE  Lies(cs, h, q, a) <=> Lies(bs, g, q, a)
      BY <1>2, <1>5 DEF Lies
    <2>2. Lies(cs, h, p, b)
      BY <1>5 DEF Lies
    <2>3. \A q \in DOMAIN g : ~Lies(cs, h, q, b)
      BY <1>3, <1>5 DEF Lies
    <2>4. \A a \in InUse(bs) : ~Lies(cs, h, p, a)
      <3> SUFFICES ASSUME NEW a \in InUse(bs), Lies(cs, h, p, a) PROVE FALSE
        OBVIOUS
      <3>1. p \in DOMAIN h /\ a \in DOMAIN cs /\ a # b
        BY <1>2, <1>5
      <3> QED
        BY <1>6, <2>2, <3>1, OneBlock
    <2>5. \A q \in DOMAIN h : \E a \in InUse(cs) : Lies(cs, h, q, a)
      <3>1. ASSUME NEW q \in DOMAIN g PROVE \E a \in InUse(cs) : Lies(cs, h, q, a)
        BY <1>0, <1>1, <2>1 DEF Owners
      <3>2. \E a \in InUse(cs) : Lies(cs, h, p, a)
        BY <1>1, <2>2
      <3> QED
        BY <1>5, <3>1, <3>2
    <2>6. ASSUME NEW a \in InUse(cs)
          PROVE  \E q \in DOMAIN h : \A r \in DOMAIN h : Lies(cs, h, r, a) <=> r = q
      <3>1. CASE a = b
        <4>1. \A r \in DOMAIN h : Lies(cs, h, r, b) <=> r = p
          BY <1>5, <2>2, <2>3
        <4> QED
          BY <1>5, <3>1, <4>1
      <3>2. CASE a \in InUse(bs)
        <4>1. PICK q \in DOMAIN g : \A r \in DOMAIN g : Lies(bs, g, r, a) <=> r = q
          BY <1>0, <3>2 DEF Owners
        <4>2. \A r \in DOMAIN h : Lies(cs, h, r, a) <=> r = q
          BY <1>3, <1>5, <2>1, <2>4, <3>2, <4>1
        <4> QED
          BY <1>5, <4>1, <4>2
      <3> QED
        BY <1>1, <3>1, <3>2
    <2> QED
      BY <2>5, <2>6 DEF Owners
  <1>8. u + cs[b].size = Cardinality(BytesInUse(cs))
    BY <1>0, MoreBytes
  <1> QED
    BY <1>3, <1>4, <1>6, <1>7, <1>8 DEF Inv, h

\* The block before a place that is given back is the one it lies in.
LEMMA OwnBlock ==
  ASSUME NEW bs, NEW g, NEW u, Inv(bs, g, u), NEW p \in DOMAIN g, p - Header \in DOMAIN bs
  PROVE  p - Header \in InUse(bs) /\ Lies(bs, g, p, p - Header)
  <1>1. PICK a \in InUse(bs) : Lies(bs, g, p, a)
    BY DEF Inv, Owners
  <1>2. /\ a \in DOMAIN bs /\ a \in Nat /\ EndOf(bs, a) \in Nat /\ WellFormed(bs)
    BY EndsInside DEF Inv, InUse
  <1>3. p \in Nat /\ g[p] \in Nat \ {0}
    BY DEF Inv, Places
  <1>4. ~(a < p - Header)
    BY <1>1, <1>2, <1>3, SizeType DEF WellFormed, Ordered, Lies
  <1>5. a = p - Header
    BY <1>1, <1>2, <1>3, <1>4, SizeType DEF Lies
  <1> QED
    BY <1>1, <1>5

\* A place given back: the invariant holds after it.
LEMMA ReleaseInv ==
  ASSUME NEW bs, NEW g, NEW u, Inv(bs, g, u), NEW p \in DOMAIN g, NEW b \in DOMAIN bs,
         b = p - Header
  PROVE  Inv(Freed(bs, b), TakesBack(g, p), Less(u, bs[b].size))
  <1> DEFINE r == Freed(bs, b)
             h == TakesBack(g, p)
  <1>0. /\ WellFormed(bs) /\ NoPairs(bs) /\ Places(g) /\ Owners(bs, g)
        /\ u = Cardinality(BytesInUse(bs)) /\ ~bs[b].free /\ b \in InUse(bs) /\ Lies(bs, g, p, b)
    BY OwnBlock DEF Inv, InUse
  <1>1. /\ WellFormed(r) /\ NoPairs(r) /\ SameTaken(bs, r, b) /\ (b \in DOMAIN r => r[b].free)
    BY <1>0, FreedList
  <1>2. DOMAIN h = DOMAIN g \ {p} /\ \A q \in DOMAIN h : h[q] = g[q]
    BY DEF TakesBack
  <1>3. Places(h)
    BY <1>0 DEF Places, TakesBack
  <1> HIDE DEF r, h
  <1>4. \A a : a \in InUse(r) <=> a \in InUse(bs) /\ a # b
    BY <1>1 DEF InUse, SameTaken
  <1>5. ASSUME NEW q \in DOMAIN h, NEW a \in InUse(r)
        PROVE  Lies(r, h, q, a) <=> Lies(bs, g, q, a)
    <2>1. EndOf(r, a) = EndOf(bs, a)
      BY <1>1, <1>4 DEF InUse, SameTaken, EndOf
    <2> QED
      BY <1>2, <2>1 DEF Lies
  <1>6. \A q \in DOMAIN g : Lies(bs, g, q, b) <=> q = p
    <2>1. PICK x \in DOMAIN g : \A q \in DOMAIN g : Lies(bs, g, q, b) <=> q = x
      BY <1>0 DEF Owners
    <2> QED
      BY <1>0, <2>1
  <1>7. Owners(r, h)
    <2>1. ASSUME NEW q \in DOMAIN h PROVE \E a \in InUse(r) : Lies(r, h, q, a)
      <3>1. PICK a \in InUse(bs) : Lies(bs, g, q, a)
        BY <1>0, <1>2 DEF Owners
      <3>2. a # b
        BY <1>2, <1>6, <3>1
      <3> QED
        BY <1>4, <1>5, <3>1, <3>2
    <2>2. ASSUME NEW a \in InUse(r)
          PROVE  \E q \in DOMAIN h : \A x \in DOMAIN h : Lies(r, h, x, a) <=> x = q
      <3>1. PICK q \in DOMAIN g : \A x \in DOMAIN g : Lies(bs, g, x, a) <=> x = q
        BY <1>0, <1>4 DEF Owners
      <3>2. q # p
        <4>1. b \in DOMAIN bs /\ a \in DOMAIN bs /\ a # b
          BY <1>4 DEF InUse
        <4> QED
          BY <1>0, <3>1, <4>1, OneBlock
      <3> QED
        BY <1>2, <1>5, <3>1, <3>2
    <2> QED
      BY <2>1, <2>2 DEF Owners
  <1>8. Less(u, bs[b].size) = Cardinality(BytesInUse(r))
    <2>1. SameTaken(r, bs, b)
      BY <1>1 DEF SameTaken
    <2>2. Cardinality(BytesInUse(bs)) = Cardinality(BytesInUse(r)) + bs[b].size
      BY <1>0, <1>1, <2>1, MoreBytes
    <2>3. Cardinality(BytesInUse(r)) \in Nat /\ bs[b].size \in Nat
      BY <1>0, <1>1, BytesFinite, EndsInside, SizeType
    <2> QED
      BY <1>0, <2>2, <2>3 DEF Less
  <1> QED
    BY <1>1, <1>3, <1>7, <1>8 DEF Inv, r, h

-----------------------------------------------------------------------------
(* The steps of the heap                                                    *)

IInv == Inv(blk, given, used)

LEMMA InitInv == Init => IInv /\ A!Init
  <1> SUFFICES ASSUME Init PROVE IInv /\ A!Init
    OBVIOUS
  <1>1. /\ DOMAIN blk = {0} /\ blk = [b \in {0} |-> blk[b]]
        /\ blk[0] = [size |-> Size - Header, free |-> TRUE, next |-> Null, prev |-> Null]
    BY DEF Init, Block
  <1>2. /\ Size - Header \in Nat /\ 0 \in Addresses /\ 0 + Header + (Size - Header) = Size
    BY HeapAssumption DEF Addresses
  <1>3. blk[0].free = TRUE /\ blk[0].next = Null /\ blk[0].prev = Null /\ EndOf(blk, 0) = Size
    BY <1>1, <1>2 DEF EndOf
  <1>4. WellFormed(blk)
    <2>1. blk[0] \in Blocks(DOMAIN blk)
      <3> DEFINE k == blk[0]
                 n == Size - Header
                 D == DOMAIN blk
      <3>1. k = [size |-> n, free |-> TRUE, next |-> Null, prev |-> Null] /\ n \in Nat
        BY <1>1, <1>2
      <3> HIDE DEF k, n, D
      <3>2. k \in Blocks(D)
        BY <3>1 DEF Blocks
      <3> QED
        BY <3>2 DEF k, D
    <2>2. Typed(blk)
      BY <1>1, <1>2, <2>1 DEF Typed
    <2> QED
      BY <1>1, <1>3, <2>2 DEF WellFormed, Linked, Back, Ordered
  <1>5. NoPairs(blk)
    BY <1>1, <1>3 DEF NoPairs, FreePair
  <1>6. InUse(blk) = {}
    BY <1>1, <1>3 DEF InUse
  <1>7. DOMAIN given = {} /\ Places(given) /\ Owners(blk, given)
    BY <1>6 DEF Init, Places, Owners
  <1>8. used = Cardinality(BytesInUse(blk))
    BY <1>6, FS_EmptySet DEF Init, BytesInUse
  <1> QED
    BY <1>4, <1>5, <1>7, <1>8 DEF IInv, Inv, Init, A!Init

\* The first block that fits has room for what is asked, also after the split.
LEMMA TakenRoom ==
  ASSUME IInv, NEW b \in DOMAIN blk, NEW k \in Nat, NEW n \in Nat, n <= k,
         IsFirst(b, n) \/ IsFirst(b, Rounded(k)), NEW t, t = Take(blk, b, k)
  PROVE  /\ blk[b].free /\ WellFormed(t) /\ NoPairs(t) /\ SameTaken(blk, t, b) /\ b \in DOMAIN t
         /\ ~t[b].free /\ b + Header + n <= EndOf(t, b) /\ b \in Nat
  <1>1. Rounded(k) \in Nat /\ k <= Rounded(k)
    BY RoundedType
  <1>2. /\ WellFormed(blk) /\ NoPairs(blk) /\ b \in Nat /\ blk[b].size \in Nat
    BY EndsInside DEF IInv, Inv
  <1>3. blk[b].free /\ n <= blk[b].size
    BY <1>1, <1>2 DEF IsFirst, Fitting
  <1>4. /\ WellFormed(t) /\ NoPairs(t) /\ b \in DOMAIN t /\ ~t[b].free
        /\ t[b].size = blk[b].size \/ t[b].size = Rounded(k)
        /\ SameTaken(blk, t, b)
    BY <1>2, <1>3, TakeList
  <1>5. n <= t[b].size /\ t[b].size \in Nat
    BY <1>1, <1>2, <1>3, <1>4
  <1>6. b + Header + n <= EndOf(t, b)
    BY <1>2, <1>5, SizeType DEF EndOf
  <1> QED
    BY <1>2, <1>3, <1>4, <1>6

\* A place found in it, given out.
LEMMA Allocates ==
  ASSUME IInv, NEW b \in DOMAIN blk, blk[b].free, WellFormed(blk'), NoPairs(blk'),
         SameTaken(blk, blk', b), b \in DOMAIN blk', ~blk'[b].free,
         NEW p \in Nat, NEW n \in Nat, n > 0, b + Header <= p, p + n <= EndOf(blk', b),
         used' = used + blk'[b].size, given' = Gives(given, p, n)
  PROVE  IInv' /\ A!Next
  <1>1. /\ Inv(blk', Gives(given, p, n), used + blk'[b].size)
        /\ p \notin DOMAIN given /\ p + n <= Size
        /\ \A q \in DOMAIN given : p + n <= q \/ q + given[q] <= p
    BY GiveInv DEF IInv
  <1>2. IInv'
    BY <1>1 DEF IInv
  <1>3. p \in DOMAIN given' /\ given'[p] = n
    BY DEF Gives
  <1>4. A!Allocate(p, n)
    BY <1>1 DEF A!Allocate, A!Inside, A!Apart, A!With, Gives
  <1> QED
    BY <1>2, <1>3, <1>4 DEF A!Next

LEMMA KmallocStep == ASSUME IInv, NEW n \in Requests, Kmalloc(n) PROVE IInv' /\ A!Next
  <1>0. n \in Nat
    BY HeapAssumption
  <1>1. PICK b \in DOMAIN blk : /\ n > 0 /\ IsFirst(b, Rounded(n)) /\ blk' = Take(blk, b, n)
                                /\ used' = used + blk'[b].size
                                /\ given' = Gives(given, b + Header, n)
    BY DEF Kmalloc
  <1>2. /\ blk[b].free /\ WellFormed(blk') /\ NoPairs(blk') /\ SameTaken(blk, blk', b)
        /\ b \in DOMAIN blk' /\ ~blk'[b].free /\ b + Header + n <= EndOf(blk', b) /\ b \in Nat
    BY <1>0, <1>1, TakenRoom
  <1>3. b + Header \in Nat /\ b + Header <= b + Header
    BY <1>2, SizeType
  <1> QED
    BY <1>0, <1>1, <1>2, <1>3, Allocates

\* The aligned address is less than the alignment further on, which was asked for as well.
LEMMA KmallocAlignedStep ==
  ASSUME IInv, NEW n \in Requests, NEW align \in Aligns, KmallocAligned(n, align)
  PROVE  IInv' /\ A!Next
  <1>0. n \in Nat /\ align \in Nat \ {0} /\ n + align \in Nat
    BY HeapAssumption
  <1> DEFINE p(b) == ((b + Header + align - 1) \div align) * align
  <1>1. PICK b \in DOMAIN blk : /\ n > 0 /\ IsFirst(b, Rounded(n + align))
                                /\ blk' = Take(blk, b, n + align)
                                /\ used' = used + blk'[b].size
                                /\ given' = Gives(given, p(b), n)
    BY DEF KmallocAligned
  <1>2. /\ blk[b].free /\ WellFormed(blk') /\ NoPairs(blk') /\ SameTaken(blk, blk', b)
        /\ b \in DOMAIN blk' /\ ~blk'[b].free /\ b + Header + (n + align) <= EndOf(blk', b)
        /\ b \in Nat /\ EndOf(blk', b) \in Nat
    BY <1>0, <1>1, TakenRoom, EndsInside
  <1>3. p(b) \in Nat /\ b + Header <= p(b) /\ p(b) <= b + Header + align - 1
    <2>1. b + Header \in Nat
      BY <1>2, SizeType
    <2> QED
      BY <1>0, <2>1, RoundUp
  <1> HIDE DEF p
  <1>4. p(b) + n <= EndOf(blk', b)
    BY <1>0, <1>2, <1>3, SizeType
  <1> QED
    BY <1>0, <1>1, <1>2, <1>3, <1>4, Allocates

LEMMA KfreeStep == ASSUME IInv, NEW p \in DOMAIN given, Kfree(p) PROVE IInv' /\ A!Next
  <1>1. /\ p - Header \in DOMAIN blk /\ blk' = Freed(blk, p - Header)
        /\ used' = Less(used, blk[p - Header].size) /\ given' = TakesBack(given, p)
    BY DEF Kfree
  <1>2. IInv'
    BY <1>1, ReleaseInv DEF IInv
  <1>3. A!Release(p)
    BY <1>1 DEF A!Release, A!Without, TakesBack
  <1> QED
    BY <1>2, <1>3 DEF A!Next

\* krealloc that moves takes another block while the first is still in use.
LEMMA KreallocMovesStep ==
  ASSUME IInv, NEW p \in DOMAIN given, NEW n \in Requests, KreallocMoves(p, n)
  PROVE  IInv' /\ A!Next
  <1> DEFINE b == p - Header
  <1>0. n \in Nat
    BY HeapAssumption
  <1>1. PICK c \in DOMAIN blk :
          /\ b \in DOMAIN blk /\ blk[b].size < Rounded(n) /\ IsFirst(c, Rounded(n))
          /\ blk' = Freed(Take(blk, c, Rounded(n)), b)
          /\ used' = Less(used + Take(blk, c, Rounded(n))[c].size, Take(blk, c, Rounded(n))[b].size)
          /\ given' = Gives(TakesBack(given, p), c + Header, n)
    BY DEF KreallocMoves
  <1> DEFINE t == Take(blk, c, Rounded(n))
             q == c + Header
             g == Gives(given, q, n)
  <1>2. n > 0
    <2>1. blk[b].size \in Nat
      BY <1>1, EndsInside DEF IInv, Inv
    <2> QED
      BY <1>0, <1>1, <2>1, RoundedType
  <1>3. Rounded(n) \in Nat /\ n <= Rounded(n)
    BY <1>0, RoundedType
  <1>4. /\ blk[c].free /\ WellFormed(t) /\ NoPairs(t) /\ SameTaken(blk, t, c) /\ c \in DOMAIN t
        /\ ~t[c].free /\ c + Header + Rounded(n) <= EndOf(t, c) /\ c \in Nat /\ EndOf(t, c) \in Nat
    BY <1>1, <1>3, TakenRoom, EndsInside
  <1>5. q \in Nat /\ c + Header <= q /\ q + n <= EndOf(t, c)
    BY <1>0, <1>3, <1>4, SizeType
  <1>6. ~blk[b].free /\ b # c
    BY <1>1, <1>4, OwnBlock DEF IInv, InUse
  <1>7. b \in DOMAIN t
    BY <1>1, <1>4, <1>6 DEF SameTaken
  <1>8. p \in Nat /\ p = b + Header
    BY SizeType DEF IInv, Inv, Places
  <1> HIDE DEF t, q, g
  <1>9. /\ Inv(t, g, used + t[c].size) /\ q \notin DOMAIN given /\ q + n <= Size
        /\ \A x \in DOMAIN given : q + n <= x \/ x + given[x] <= q
    BY <1>0, <1>2, <1>4, <1>5, GiveInv DEF IInv, g
  <1>10. p \in DOMAIN g /\ p # q
    BY <1>9 DEF g, Gives
  <1>11. Inv(Freed(t, b), TakesBack(g, p), Less(used + t[c].size, t[b].size))
    BY <1>7, <1>9, <1>10, ReleaseInv
  <1>12. TakesBack(g, p) = given'
    <2>1. given' = Gives(TakesBack(given, p), q, n)
      BY <1>1 DEF q
    <2> QED
      BY <1>9, <1>10, <2>1 DEF g, Gives, TakesBack
  <1>13. IInv'
    BY <1>1, <1>11, <1>12 DEF IInv, t
  <1>14. q \in DOMAIN given' /\ given'[q] = n /\ given' = A!With(A!Without(given, p), q, n)
    BY <1>1 DEF q, Gives, TakesBack, A!With, A!Without
  <1>15. A!Move(p, q, n)
    BY <1>2, <1>5, <1>9, <1>14 DEF A!Move, A!Inside, A!Apart
  <1> QED
    BY <1>13, <1>14, <1>15 DEF A!Next

\* krealloc in place asks for no more than the block has, which nobody else has a part of.
LEMMA KreallocStaysStep ==
  ASSUME IInv, NEW p \in DOMAIN given, NEW n \in Requests, KreallocStays(p, n)
  PROVE  IInv' /\ A!Next
  <1> DEFINE b == p - Header
             h == Gives(given, p, n)
  <1>0. /\ n \in Nat /\ n > 0 /\ b \in DOMAIN blk /\ blk[b].size >= Rounded(n)
        /\ blk' = blk /\ used' = used /\ given' = h
    BY HeapAssumption DEF KreallocStays
  <1>1. /\ WellFormed(blk) /\ NoPairs(blk) /\ Places(given) /\ Owners(blk, given)
        /\ b \in InUse(blk) /\ Lies(blk, given, p, b)
        /\ used = Cardinality(BytesInUse(blk))
    BY <1>0, OwnBlock DEF IInv, Inv
  <1>2. /\ b \in Nat /\ EndOf(blk, b) \in Nat /\ EndOf(blk, b) <= Size
        /\ p \in Nat /\ p = b + Header /\ p + n <= EndOf(blk, b)
    <2>1. /\ b \in Nat /\ EndOf(blk, b) \in Nat /\ EndOf(blk, b) <= Size
          /\ blk[b].size \in Nat
      BY <1>0, <1>1, EndsInside
    <2>2. p \in Nat /\ p = b + Header
      BY <1>1, SizeType DEF Places
    <2>3. Rounded(n) \in Nat /\ n <= Rounded(n)
      BY <1>0, RoundedType
    <2> HIDE DEF b
    <2> QED
      BY <1>0, <2>1, <2>2, <2>3, SizeType DEF EndOf
  <1> HIDE DEF b
  <1>3. DOMAIN h = DOMAIN given /\ h[p] = n /\ \A q \in DOMAIN given \ {p} : h[q] = given[q]
    BY DEF Gives
  <1>4. Places(h)
    BY <1>0, <1>1 DEF Places, Gives
  <1>5. ASSUME NEW a \in InUse(blk), NEW q \in DOMAIN given
        PROVE  Lies(blk, h, q, a) <=> Lies(blk, given, q, a)
    <2>0. a \in DOMAIN blk /\ b \in DOMAIN blk
      BY <1>1 DEF InUse
    <2>1. CASE q # p
      BY <1>3, <2>1 DEF Lies
    <2>2. CASE q = p
      <3>1. Lies(blk, h, p, b)
        BY <1>2, <1>3, SizeType DEF Lies
      <3>2. Lies(blk, h, p, a) => a = b
        BY <1>1, <1>3, <1>4, <2>0, <3>1, OneBlock
      <3>3. Lies(blk, given, p, a) => a = b
        BY <1>1, <2>0, OneBlock
      <3> QED
        BY <1>1, <2>2, <3>1, <3>2, <3>3
    <2> QED
      BY <2>1, <2>2
  <1>6. Owners(blk, h)
    BY <1>1, <1>3, <1>5 DEF Owners
  <1>7. IInv'
    BY <1>0, <1>1, <1>4, <1>6 DEF IInv, Inv
  <1>8. ASSUME NEW q \in DOMAIN given \ {p}
        PROVE  p + n <= q \/ q + given[q] <= p
    <2>1. PICK a \in InUse(blk) : Lies(blk, given, q, a)
      BY <1>1 DEF Owners
    <2>2. a \in DOMAIN blk /\ a \in Nat /\ EndOf(blk, a) \in Nat /\ b \in DOMAIN blk
      BY <1>1, EndsInside DEF InUse
    <2>3. a # b
      BY <1>1, <2>1 DEF Owners
    <2>4. (a < b => EndOf(blk, a) <= b) /\ (b < a => EndOf(blk, b) <= a)
      BY <1>1, <2>2 DEF WellFormed, Ordered
    <2>5. q \in Nat /\ given[q] \in Nat
      BY <1>1 DEF Places
    <2> QED
      BY <1>0, <1>2, <2>1, <2>2, <2>3, <2>4, <2>5, SizeType DEF Lies
  <1>9. A!Resize(p, n)
    <2>1. A!Inside(p, n)
      BY <1>0, <1>2, SizeType DEF A!Inside
    <2>2. A!Apart(p, n, {p})
      BY <1>8 DEF A!Apart
    <2> QED
      BY <1>0, <2>1, <2>2 DEF A!Resize, A!With, Gives
  <1>10. p \in DOMAIN given' /\ given'[p] = n
    BY <1>0, <1>3
  <1> QED
    BY <1>7, <1>9, <1>10 DEF A!Next

LEMMA Steps == IInv /\ [Next]_vars => IInv' /\ [A!Next]_given
  <1> SUFFICES ASSUME IInv, [Next]_vars PROVE IInv' /\ [A!Next]_given
    OBVIOUS
  <1>1. CASE Next
    BY <1>1, KmallocStep, KmallocAlignedStep, KfreeStep, KreallocMovesStep, KreallocStaysStep DEF Next
  <1>2. CASE UNCHANGED vars
    BY <1>2 DEF vars, IInv
  <1> QED
    BY <1>1, <1>2

-----------------------------------------------------------------------------
(* What follows for the heap                                                *)

LEMMA InvListSound == IInv => ListSound
  <1> SUFFICES ASSUME IInv PROVE ListSound
    OBVIOUS
  <1>1. /\ WellFormed(blk) /\ NoPairs(blk) /\ Places(given) /\ Owners(blk, given)
        /\ used = Cardinality(BytesInUse(blk))
    BY DEF IInv, Inv
  <1>2. \A b \in DOMAIN blk : EndOf(blk, b) = End(b)
    BY DEF EndOf, End
  <1>3. InUse(blk) = Taken /\ \A b \in DOMAIN blk, p \in DOMAIN given :
                                Lies(blk, given, p, b) <=> Within(p, b)
    BY <1>2 DEF InUse, Taken, Lies, Within
  <1>4. TypeOK
    <2>1. DOMAIN blk \subseteq Addresses /\ 0 \in DOMAIN blk
      BY <1>1 DEF WellFormed, Typed
    <2>2. blk \in [DOMAIN blk -> [size : 0..Size, free : BOOLEAN, next : DOMAIN blk \cup {Null},
                                   prev : DOMAIN blk \cup {Null}]]
      <3> SUFFICES ASSUME NEW b \in DOMAIN blk
                   PROVE  blk[b] \in [size : 0..Size, free : BOOLEAN, next : DOMAIN blk \cup {Null},
                                      prev : DOMAIN blk \cup {Null}]
        BY <1>1 DEF WellFormed, Typed
      <3> DEFINE k == blk[b]
                 D == DOMAIN blk
      <3>1. k \in Blocks(D) /\ k.size \in 0..Size
        <4>1. blk[b].size \in Nat /\ b \in Nat /\ EndOf(blk, b) <= Size
          BY <1>1, EndsInside
        <4> QED
          BY <1>1, <4>1, SizeType DEF WellFormed, Typed, EndOf
      <3> HIDE DEF k, D
      <3>2. k \in [size : 0..Size, free : BOOLEAN, next : D \cup {Null}, prev : D \cup {Null}]
        BY <3>1 DEF Blocks
      <3> QED
        BY <3>2 DEF k, D
    <2>3. used \in 0..Size
      BY <1>1, BytesFinite
    <2>4. ASSUME NEW p \in DOMAIN given PROVE p \in Addresses /\ given[p] \in 1..Size
      <3>1. PICK b \in InUse(blk) : Lies(blk, given, p, b)
        BY <1>1 DEF Owners
      <3>2. /\ b \in Nat /\ EndOf(blk, b) \in Nat /\ EndOf(blk, b) <= Size
        BY <1>1, EndsInside DEF InUse
      <3>3. p \in Nat /\ given[p] \in Nat \ {0}
        BY <1>1 DEF Places
      <3> QED
        BY <3>1, <3>2, <3>3, SizeType DEF Lies, Addresses
    <2>5. given \in [DOMAIN given -> 1..Size]
      BY <1>1, <2>4 DEF Places
    <2> QED
      BY <2>1, <2>2, <2>3, <2>4, <2>5 DEF TypeOK
  <1>5. Tiled
    BY <1>1, <1>2 DEF Tiled, WellFormed, Linked, Back, Ordered
  <1>6. Merged
    BY <1>1 DEF Merged, NoPairs, FreePair
  <1>7. Owned
    <2>1. \A p \in DOMAIN given : \E b \in Taken : Within(p, b)
      BY <1>1, <1>3 DEF Owners, Taken
    <2>2. ASSUME NEW b \in Taken
          PROVE  \E p \in DOMAIN given : \A q \in DOMAIN given : Within(q, b) <=> q = p
      <3>1. b \in DOMAIN blk
        BY DEF Taken
      <3>2. PICK p \in DOMAIN given : \A q \in DOMAIN given : Lies(blk, given, q, b) <=> q = p
        BY <1>1, <1>3 DEF Owners
      <3> QED
        BY <1>3, <3>1, <3>2
    <2> QED
      BY <2>1, <2>2 DEF Owned
  <1>8. Counted
    <2>1. BytesInUse(blk) = UNION {b + Header .. End(b) - 1 : b \in Taken}
      BY <1>2, <1>3 DEF BytesInUse, Span, Taken
    <2> QED
      BY <1>1, <2>1 DEF Counted
  <1> QED
    BY <1>4, <1>5, <1>6, <1>7, <1>8 DEF ListSound

\* However kmalloc, krealloc and kfree follow on each other, the blocks fill the heap, free
\* neighbours are merged, every block in use belongs to one caller, and used_bytes is exact
\* (code: try_split and try_merge, heap.cpp:40-64), for any heap and any requests.
THEOREM HeapListSound == Spec => []ListSound
  <1>1. Init => IInv
    BY InitInv
  <1>2. IInv /\ [Next]_vars => IInv'
    BY Steps
  <1> QED
    BY <1>1, <1>2, InvListSound, PTL DEF Spec

\* The heap implements Allocator: what kmalloc and krealloc return lies in the heap and apart
\* from everything that is still in use (code: heap.cpp:66-109).
THEOREM HeapImplementsAllocator == Spec => IsAllocator
  <1>1. Init => IInv /\ A!Init
    BY InitInv
  <1>2. IInv /\ [Next]_vars => IInv' /\ [A!Next]_given
    BY Steps
  <1> QED
    BY <1>1, <1>2, PTL DEF Spec, IsAllocator, A!Spec
================================================================================
