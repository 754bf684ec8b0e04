----------------------------- MODULE Allocator -----------------------------
(***************************************************************************)
(* What the kernel heap promises to its callers (heap.h): the bytes that   *)
(* they have asked for and not given back lie in the heap and apart from   *)
(* each other.  Where they lie, and when a request is refused, is open.    *)
(***************************************************************************)
EXTENDS Integers

CONSTANT Size  \* bytes of the heap, headers included

VARIABLE given  \* what the callers have: the bytes asked for, by the address returned

Inside(p, n) == 0 <= p /\ p + n <= Size

\* n bytes at p touch nothing that has been given out, what is at the addresses of but aside.
Apart(p, n, but) == \A q \in DOMAIN given \ but : p + n <= q \/ q + given[q] <= p

With(g, p, n) == [q \in DOMAIN g \cup {p} |-> IF q = p THEN n ELSE g[q]]
Without(g, p) == [q \in DOMAIN g \ {p} |-> g[q]]

Allocate(p, n) ==
  /\ n > 0 /\ Inside(p, n) /\ Apart(p, n, {})
  /\ given' = With(given, p, n)

Release(p) ==
  given' = Without(given, p)

\* Both places are in use while the contents are copied.
Move(p, q, n) ==
  /\ n > 0 /\ Inside(q, n) /\ Apart(q, n, {})
  /\ given' = With(Without(given, p), q, n)

Resize(p, n) ==
  /\ n > 0 /\ Inside(p, n) /\ Apart(p, n, {p})
  /\ given' = With(given, p, n)

Init == given = [p \in {} |-> 0]

\* Whatever is given out after the step can be read off given'.
Next ==
  \/ \E p \in DOMAIN given' : Allocate(p, given'[p])
  \/ \E p \in DOMAIN given :
       \/ Release(p)
       \/ \E q \in DOMAIN given' : Move(p, q, given'[q])
       \/ p \in DOMAIN given' /\ Resize(p, given'[p])

Spec == Init /\ [][Next]_given
=============================================================================
