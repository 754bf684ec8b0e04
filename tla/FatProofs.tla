------------------------------- MODULE FatProofs -------------------------------
(***************************************************************************)
(* Proofs about module Fat, for any number of clusters, entries, names and *)
(* descriptors.                                                            *)
(*                                                                         *)
(* Sound says what a disk is at every moment of every operation but those  *)
(* that erase: each head, which is the root or the first cluster that an   *)
(* entry has, begins a chain that ends, and no two chains meet.  Each kind *)
(* of write is shown to keep it where the plans put it.  What an operation *)
(* that erases leaves when it is cut short is described by the chains it   *)
(* has started to free (Cleared), and by the two entries of a file that is *)
(* being moved.  What any operation leaves when one of its writes fails    *)
(* and it goes on is compared with what it leaves otherwise (Slips): a     *)
(* damaged disk is sound but for the entries that Partly excepts.          *)
(***************************************************************************)
EXTENDS Fat, SequenceTheorems, FiniteSetTheorems, WellFoundedInduction, TLAPS

-----------------------------------------------------------------------------
(* Recursion and induction over numbers                                     *)

LEMMA LeastNumber ==
  ASSUME NEW S \in SUBSET Nat, S # {}
  PROVE  \E m \in S : \A k \in S : m <= k
  <1>1. PICK m \in S : \A k \in S : ~(<<k, m>> \in OpToRel(<, Nat))
    BY NatLessThanWellFounded, WFMin
  <1>2. \A k \in S : ~(k < m)
    BY <1>1 DEF OpToRel
  <1> QED
    BY <1>2

LEMMA Induct ==
  ASSUME NEW n \in Nat, NEW P, 0 \in P, \A k \in 1..n : k - 1 \in P => k \in P
  PROVE  \A k \in 0..n : k \in P
  <1> SUFFICES ASSUME NEW j \in 0..n, j \notin P PROVE FALSE
    OBVIOUS
  <1> DEFINE bad == {k \in 0..n : k \notin P}
  <1>1. PICK m \in bad : \A k \in bad : m <= k
    <2>1. bad \in SUBSET Nat /\ bad # {}
      OBVIOUS
    <2> HIDE DEF bad
    <2> QED
      BY <2>1, LeastNumber
  <1>2. m \in 1..n /\ m - 1 \in 0..n /\ m - 1 \notin bad
    BY <1>1
  <1> QED
    BY <1>1, <1>2

\* f is the function on 0..n that begins with a and goes on as g says.
Recurs(f, n, S, a, g) ==
  f \in [0..n -> S] /\ f[0] = a /\ \A k \in 1..n : f[k] = g[<<k, f[k-1]>>]

LEMMA Recursion ==
  ASSUME NEW n \in Nat, NEW S, NEW a \in S, NEW g \in [(1..n) \X S -> S]
  PROVE  \E f : Recurs(f, n, S, a, g)
  <1> DEFINE Is(f, m) == f[0] = a /\ \A k \in 1..m : f[k] = g[<<k, f[k-1]>>]
             P == {m \in 0..n : \E f \in [0..m -> S] : Is(f, m)}
  <1>1. 0 \in P
    <2> DEFINE h == [k \in 0..0 |-> a]
    <2>1. h \in [0..0 -> S] /\ Is(h, 0)
      OBVIOUS
    <2> HIDE DEF h, Is
    <2> QED
      BY <2>1
  <1>2. ASSUME NEW m \in 1..n, m - 1 \in P PROVE m \in P
    <2>1. PICK f \in [0..m-1 -> S] : Is(f, m - 1)
      BY <1>2
    <2> DEFINE h == [k \in 0..m |-> IF k = m THEN g[<<m, f[m-1]>>] ELSE f[k]]
    <2>2. g[<<m, f[m-1]>>] \in S
      OBVIOUS
    <2>3. h \in [0..m -> S]
      BY <2>2
    <2>4. ASSUME NEW k \in 1..m PROVE h[k] = g[<<k, h[k-1]>>]
      <3>1. CASE k = m
        <4>1. h[k] = g[<<m, f[m-1]>>] /\ h[k-1] = f[m-1]
          BY <3>1
        <4> QED
          BY <4>1, <3>1
      <3>2. CASE k # m
        <4>1. k \in 1..m-1 /\ h[k] = f[k] /\ h[k-1] = f[k-1]
          BY <3>2
        <4> QED
          BY <4>1, <2>1
      <3> QED
        BY <3>1, <3>2
    <2>5. h[0] = a
      BY <2>1
    <2>6. Is(h, m)
      BY <2>4, <2>5
    <2> HIDE DEF h, Is
    <2> QED
      BY <2>3, <2>6
  <1>3. n \in P
    <2> HIDE DEF P
    <2> QED
      BY <1>1, <1>2, Induct
  <1> QED
    BY <1>3 DEF Recurs

-----------------------------------------------------------------------------
(* Parts of sequences                                                       *)

Distinct(s) == \A j, k \in 1..Len(s) : s[j] = s[k] => j = k

LEMMA RangeAppend ==
  ASSUME NEW T, NEW s \in Seq(T), NEW e \in T
  PROVE  /\ Append(s, e) \in Seq(T) /\ Len(Append(s, e)) = Len(s) + 1
         /\ Append(s, e)[Len(s) + 1] = e
         /\ \A k \in 1..Len(s) : Append(s, e)[k] = s[k]
         /\ Range(Append(s, e)) = Range(s) \cup {e}
         /\ Distinct(s) /\ e \notin Range(s) => Distinct(Append(s, e))
  <1>1. /\ Append(s, e) \in Seq(T) /\ Len(Append(s, e)) = Len(s) + 1
        /\ Append(s, e)[Len(s) + 1] = e
        /\ \A k \in 1..Len(s) : Append(s, e)[k] = s[k]
        /\ DOMAIN Append(s, e) = 1..Len(s) + 1 /\ DOMAIN s = 1..Len(s)
    OBVIOUS
  <1>2. ASSUME NEW v \in Range(s) \cup {e} PROVE v \in Range(Append(s, e))
    <2>1. CASE v = e
      BY <1>1, <2>1 DEF Range
    <2>2. CASE v # e
      <3>1. PICK k \in 1..Len(s) : s[k] = v
        BY <1>1, <2>2 DEF Range
      <3>2. k \in 1..Len(s) + 1 /\ Append(s, e)[k] = v
        BY <1>1, <3>1
      <3> QED
        BY <1>1, <3>2 DEF Range
    <2> QED
      BY <2>1, <2>2
  <1>3. ASSUME NEW v \in Range(Append(s, e)) PROVE v \in Range(s) \cup {e}
    <2>1. PICK k \in 1..Len(s) + 1 : Append(s, e)[k] = v
      BY <1>1 DEF Range
    <2> QED
      BY <1>1, <2>1 DEF Range
  <1>4. ASSUME Distinct(s), e \notin Range(s) PROVE Distinct(Append(s, e))
    <2> SUFFICES ASSUME NEW j \in 1..Len(s) + 1, NEW k \in 1..Len(s) + 1,
                        Append(s, e)[j] = Append(s, e)[k]
                 PROVE j = k
      BY <1>1 DEF Distinct
    <2>1. \A i \in 1..Len(s) : s[i] # e
      BY <1>1, <1>4 DEF Range
    <2> QED
      BY <1>1, <1>4, <2>1 DEF Distinct
  <1> QED
    BY <1>1, <1>2, <1>3, <1>4

\* The elements of one sequence after another.
LEMMA OneAfter ==
  ASSUME NEW T, NEW v \in Seq(T), NEW w \in Seq(T)
  PROVE  /\ v \o w \in Seq(T) /\ Len(v \o w) = Len(v) + Len(w) /\ Len(v) \in Nat /\ Len(w) \in Nat
         /\ \A k \in 1..Len(v) : (v \o w)[k] = v[k]
         /\ \A k \in 1..Len(w) : (v \o w)[Len(v) + k] = w[k]
         /\ Range(v \o w) = Range(v) \cup Range(w)
  <1> DEFINE u == v \o w
             a == Len(v)
             b == Len(w)
  <1>1. /\ u \in Seq(T) /\ Len(u) = a + b /\ a \in Nat /\ b \in Nat
        /\ \A k \in 1..a : u[k] = v[k]
        /\ \A k \in 1..b : u[a + k] = w[k]
        /\ DOMAIN u = 1..a + b /\ DOMAIN v = 1..a /\ DOMAIN w = 1..b
    OBVIOUS
  <1> HIDE DEF u, a, b
  <1>2. ASSUME NEW d \in Range(u) PROVE d \in Range(v) \cup Range(w)
    <2>1. PICK k \in 1..a + b : u[k] = d
      BY <1>1, <1>2 DEF Range
    <2>2. CASE k \in 1..a
      BY <1>1, <2>1, <2>2 DEF Range
    <2>3. CASE k \notin 1..a
      <3>1. k - a \in 1..b /\ k = a + (k - a)
        BY <1>1, <2>1, <2>3
      <3>2. u[a + (k - a)] = w[k - a]
        BY <1>1, <3>1
      <3> QED
        BY <1>1, <2>1, <3>1, <3>2 DEF Range
    <2> QED
      BY <2>2, <2>3
  <1>3. Range(v) \subseteq Range(u)
    <2>1. \A k \in 1..a : k \in 1..a + b
      BY <1>1
    <2> QED
      BY <1>1, <2>1 DEF Range
  <1>4. Range(w) \subseteq Range(u)
    <2>1. \A k \in 1..b : a + k \in 1..a + b
      BY <1>1
    <2> QED
      BY <1>1, <2>1 DEF Range
  <1>5. Range(u) = Range(v) \cup Range(w)
    BY <1>2, <1>3, <1>4
  <1> QED
    BY <1>1, <1>5 DEF u, a, b

\* The recursion of Only.
LEMMA OnlyUpto ==
  ASSUME NEW T, NEW s \in Seq(T), NEW S
  PROVE  \E f : /\ Only(s, S) = f[Len(s)]
                /\ f[0] = <<>>
                /\ \A k \in 1..Len(s) : f[k] = IF s[k] \in S THEN Append(f[k-1], s[k]) ELSE f[k-1]
  <1> DEFINE n == Len(s)
             e == <<>>
             R(f) == [k \in 0..n |-> IF k = 0 THEN <<>>
                        ELSE IF s[k] \in S THEN Append(f[k-1], s[k]) ELSE f[k-1]]
             Q == Seq(T)
             g == [z \in (1..n) \X Q |-> IF s[z[1]] \in S THEN Append(z[2], s[z[1]]) ELSE z[2]]
  <1>1. n \in Nat /\ g \in [(1..n) \X Q -> Q] /\ e \in Q
    OBVIOUS
  <1>2. \A k \in 1..n, q \in Q : g[<<k, q>>] = IF s[k] \in S THEN Append(q, s[k]) ELSE q
    OBVIOUS
  <1> HIDE DEF g, Q, e, n
  <1>3. PICK f : Recurs(f, n, Q, e, g)
    BY <1>1, Recursion, Zenon
  <1>4. \A k \in 1..n : f[k] = IF s[k] \in S THEN Append(f[k-1], s[k]) ELSE f[k-1]
    <2> SUFFICES ASSUME NEW k \in 1..n
                 PROVE f[k] = IF s[k] \in S THEN Append(f[k-1], s[k]) ELSE f[k-1]
      OBVIOUS
    <2>1. k - 1 \in 0..n /\ f[k-1] \in Q
      BY <1>1, <1>3 DEF Recurs
    <2> QED
      BY <1>2, <1>3, <2>1 DEF Recurs
  <1>5. f = R(f)
    <2>1. ASSUME NEW k \in 0..n PROVE f[k] = R(f)[k]
      <3>1. k # 0 => k \in 1..n
        BY <1>1
      <3> QED
        BY <1>3, <1>4, <3>1 DEF e, Recurs
    <2>2. f = [k \in 0..n |-> f[k]]
      BY <1>3 DEF Recurs
    <2> QED
      BY <2>1, <2>2
  <1>6. \E u : u = (CHOOSE h : h = R(h)) /\ Only(s, S) = u[n]
    BY Zenon DEF Only, n
  <1>7. PICK u : u = (CHOOSE h : h = R(h)) /\ Only(s, S) = u[n]
    BY <1>6
  <1>8. u = R(u)
    <2> HIDE DEF R
    <2> QED
      BY <1>5, <1>7, Zenon
  <1>9. 0 \in 0..n /\ u[0] = <<>>
    BY <1>8, <1>1
  <1>10. ASSUME NEW k \in 1..n
         PROVE u[k] = IF s[k] \in S THEN Append(u[k-1], s[k]) ELSE u[k-1]
    <2>1. k \in 0..n /\ k # 0
      BY <1>1
    <2> QED
      BY <1>8, <2>1
  <1> QED
    <2>1. Only(s, S) = u[Len(s)]
      BY <1>7 DEF n
    <2>2. \A k \in 1..Len(s) : u[k] = IF s[k] \in S THEN Append(u[k-1], s[k]) ELSE u[k-1]
      BY <1>10 DEF n
    <2> QED
      BY <1>9, <2>1, <2>2

\* What Only returns.
LEMMA OnlyFacts ==
  ASSUME NEW T, NEW s \in Seq(T), NEW S
  PROVE  /\ Only(s, S) \in Seq(T)
         /\ Range(Only(s, S)) = Range(s) \cap S
         /\ Distinct(s) => Distinct(Only(s, S))
  <1>1. PICK f : /\ Only(s, S) = f[Len(s)]
                 /\ f[0] = <<>>
                 /\ \A k \in 1..Len(s) :
                      f[k] = IF s[k] \in S THEN Append(f[k-1], s[k]) ELSE f[k-1]
    BY OnlyUpto
  <1> DEFINE First(k) == {s[j] : j \in 1..k}
             P == {k \in 0..Len(s) : /\ f[k] \in Seq(T)
                                     /\ Range(f[k]) = First(k) \cap S
                                     /\ Distinct(s) => Distinct(f[k])}
  <1>2. 0 \in P
    <2>1. Range(<<>>) = {} /\ <<>> \in Seq(T) /\ First(0) = {}
      BY DEF Range
    <2>2. Distinct(<<>>)
      BY DEF Distinct
    <2> HIDE DEF First
    <2>3. 0 \in 0..Len(s)
      OBVIOUS
    <2>4. f[0] \in Seq(T) /\ Range(f[0]) = First(0) \cap S /\ Distinct(f[0])
      <3>1. First(0) \cap S = {}
        BY <2>1
      <3> QED
        BY <1>1, <2>1, <2>2, <3>1, Zenon
    <2> QED
      BY <2>3, <2>4
  <1>3. ASSUME NEW k \in 1..Len(s), k - 1 \in P PROVE k \in P
    <2>1. /\ f[k-1] \in Seq(T) /\ Range(f[k-1]) = First(k-1) \cap S
          /\ Distinct(s) => Distinct(f[k-1])
      BY <1>3
    <2>2. First(k) = First(k-1) \cup {s[k]}
      <3>1. 1..k = (1..k-1) \cup {k}
        OBVIOUS
      <3> QED
        BY <3>1
    <2>3. s[k] \in T
      OBVIOUS
    <2>4. CASE s[k] \in S
      <3>1. f[k] = Append(f[k-1], s[k])
        BY <1>1, <2>4
      <3>2. Distinct(s) => s[k] \notin First(k-1)
        BY DEF Distinct
      <3>3. /\ Append(f[k-1], s[k]) \in Seq(T)
            /\ Range(Append(f[k-1], s[k])) = Range(f[k-1]) \cup {s[k]}
            /\ Distinct(f[k-1]) /\ s[k] \notin Range(f[k-1]) => Distinct(Append(f[k-1], s[k]))
        BY <2>1, <2>3, RangeAppend
      <3> HIDE DEF First
      <3>4. f[k] \in Seq(T) /\ (Distinct(s) => Distinct(f[k]))
        BY <2>1, <3>1, <3>2, <3>3
      <3>5. Range(f[k]) = First(k) \cap S
        <4>1. Range(f[k]) = (First(k-1) \cap S) \cup {s[k]}
          BY <2>1, <3>1, <3>3
        <4> QED
          BY <2>2, <2>4, <4>1
      <3> QED
        BY <3>4, <3>5
    <2>5. CASE s[k] \notin S
      <3>1. f[k] = f[k-1]
        BY <1>1, <2>5
      <3> HIDE DEF First
      <3> QED
        BY <2>1, <2>2, <2>5, <3>1
    <2> QED
      BY <2>4, <2>5
  <1>4. Len(s) \in P
    <2> HIDE DEF P
    <2>1. Len(s) \in Nat
      OBVIOUS
    <2>2. \A k \in 0..Len(s) : k \in P
      BY <1>2, <1>3, <2>1, Induct
    <2> QED
      BY <2>1, <2>2
  <1>5. First(Len(s)) = Range(s)
    BY DEF Range
  <1> QED
    BY <1>1, <1>4, <1>5

\* g is what FlattenSeq has put together after each of the sequences ss.
Flattens(g, ss, T) ==
  /\ g[0] = <<>>
  /\ \A k \in 1..Len(ss) : g[k] = g[k-1] \o ss[k]
  /\ \A k \in 0..Len(ss) : g[k] \in Seq(T)
  /\ FlattenSeq(ss) = g[Len(ss)]

LEMMA Flattened ==
  ASSUME NEW T, NEW ss \in Seq(Seq(T))
  PROVE  \E g : Flattens(g, ss, T)
  <1> DEFINE n == Len(ss)
             S == Seq(T)
             R(f) == [i \in 1..n |-> IF i = 1 THEN ss[i] ELSE f[i-1] \o ss[i]]
             j == [z \in (1..n) \X S |-> z[2] \o ss[z[1]]]
  <1>1. n \in Nat /\ \A k \in 1..n : ss[k] \in S
    OBVIOUS
  <1>2. j \in [(1..n) \X S -> S]
    BY <1>1
  <1>3. \A k \in 1..n, s \in S : j[<<k, s>>] = s \o ss[k]
    OBVIOUS
  <1>4. <<>> \in S /\ \A s \in S : <<>> \o s = s /\ s \in Seq(T)
    OBVIOUS
  <1>5. n = Len(ss)
    OBVIOUS
  <1> HIDE DEF n, S, j
  <1>6. PICK h : Recurs(h, n, S, <<>>, j)
    BY <1>1, <1>2, <1>4, Recursion, Zenon
  <1>7. /\ h[0] = <<>> /\ \A k \in 0..n : h[k] \in S
        /\ \A k \in 1..n : h[k] = h[k-1] \o ss[k]
    <2>1. \A k \in 1..n : k - 1 \in 0..n
      BY <1>1
    <2> QED
      BY <1>3, <1>6, <2>1 DEF Recurs
  <1>8. [i \in 1..n |-> h[i]] = R([i \in 1..n |-> h[i]])
    <2> DEFINE v == [i \in 1..n |-> h[i]]
    <2>1. ASSUME NEW k \in 1..n PROVE v[k] = IF k = 1 THEN ss[k] ELSE v[k-1] \o ss[k]
      <3>1. CASE k = 1
        <4>1. h[k] = <<>> \o ss[k]
          <5>1. k - 1 = 0
            BY <3>1
          <5> QED
            BY <1>7, <5>1
        <4> QED
          BY <1>1, <1>4, <3>1, <4>1
      <3>2. CASE k # 1
        <4>1. k - 1 \in 1..n
          BY <1>1, <3>2
        <4> QED
          BY <1>7, <3>2, <4>1
      <3> QED
        BY <3>1, <3>2
    <2> QED
      BY <2>1
  <1> DEFINE u == CHOOSE v : v = R(v)
  <1>9. n # 0 => FlattenSeq(ss) = u[n]
    BY <1>5 DEF FlattenSeq
  <1>10. u = R(u)
    <2> DEFINE v == [i \in 1..n |-> h[i]]
    <2>1. v = R(v)
      BY <1>8
    <2> HIDE DEF R, v
    <2> QED
      BY <2>1, Zenon
  <1> HIDE DEF u
  <1> DEFINE P == {k \in 0..n : k # 0 => u[k] = h[k]}
  <1>11. \A k \in 0..n : k \in P
    <2>1. 0 \in P
      BY <1>1
    <2>2. ASSUME NEW k \in 1..n, k - 1 \in P PROVE k \in P
      <3>1. u[k] = IF k = 1 THEN ss[k] ELSE u[k-1] \o ss[k]
        BY <1>10
      <3>2. k \in 0..n /\ (k # 1 => k - 1 # 0)
        BY <1>1
      <3>3. CASE k = 1
        <4>1. h[k] = <<>> \o ss[k]
          <5>1. k - 1 = 0
            BY <3>3
          <5> QED
            BY <1>7, <5>1
        <4> QED
          BY <1>1, <1>4, <3>1, <3>2, <3>3, <4>1
      <3>4. CASE k # 1
        BY <1>7, <2>2, <3>1, <3>2, <3>4
      <3> QED
        BY <3>3, <3>4
    <2> HIDE DEF P
    <2> QED
      BY <1>1, <2>1, <2>2, Induct
  <1>12. FlattenSeq(ss) = h[n]
    <2>1. CASE n = 0
      <3>1. ss = <<>>
        BY <1>5, <2>1, EmptySeq
      <3>2. Len(ss) = 0 => FlattenSeq(ss) = ss
        BY Zenon DEF FlattenSeq
      <3> QED
        BY <1>5, <1>7, <2>1, <3>1, <3>2
    <2>2. CASE n # 0
      <3>1. n \in 0..n
        BY <1>1
      <3> QED
        BY <1>9, <1>11, <2>2, <3>1
    <2> QED
      BY <2>1, <2>2
  <1> QED
    BY <1>4, <1>5, <1>7, <1>12 DEF Flattens

LEMMA FlattenRange ==
  ASSUME NEW T, NEW ss \in Seq(Seq(T))
  PROVE  FlattenSeq(ss) \in Seq(T) /\ Range(FlattenSeq(ss)) = UNION {Range(ss[k]) : k \in 1..Len(ss)}
  <1> DEFINE n == Len(ss)
             U(k) == UNION {Range(ss[j]) : j \in 1..k}
  <1>1. PICK g : Flattens(g, ss, T)
    BY Flattened, Zenon
  <1>2. n \in Nat /\ \A k \in 1..n : ss[k] \in Seq(T)
    OBVIOUS
  <1> DEFINE P == {k \in 0..n : Range(g[k]) = U(k)}
  <1>3. 0 \in P
    <2>1. g[0] = <<>> /\ 0 \in 0..n
      BY <1>1, <1>2 DEF Flattens
    <2>2. Range(<<>>) = {}
      BY DEF Range
    <2>3. U(0) = {}
      OBVIOUS
    <2> QED
      BY <2>1, <2>2, <2>3
  <1>4. ASSUME NEW k \in 1..n, k - 1 \in P PROVE k \in P
    <2>1. k \in 0..n /\ k - 1 \in 0..n /\ \A j : j \in 1..k <=> j = k \/ j \in 1..k-1
      BY <1>2
    <2>2. g[k] = g[k-1] \o ss[k] /\ g[k-1] \in Seq(T) /\ ss[k] \in Seq(T)
      BY <1>1, <1>2, <2>1 DEF Flattens
    <2>3. Range(g[k-1] \o ss[k]) = Range(g[k-1]) \cup Range(ss[k])
      BY <2>2, OneAfter
    <2>4. U(k) = U(k-1) \cup Range(ss[k])
      BY <2>1
    <2>5. Range(g[k-1]) = U(k-1)
      BY <1>4
    <2> QED
      BY <2>1, <2>2, <2>3, <2>4, <2>5
  <1>5. \A k \in 0..n : k \in P
    <2> HIDE DEF P, n
    <2> QED
      BY <1>2, <1>3, <1>4, Induct
  <1>6. n \in 0..n
    BY <1>2
  <1> QED
    BY <1>1, <1>5, <1>6 DEF Flattens

-----------------------------------------------------------------------------
(* Chains                                                                   *)

Tables == [Clusters -> Clusters \cup {Free, Eof}]

\* t is a chain of the table f.
Path(f, t) ==
  /\ t \in Seq(Clusters) /\ t # <<>>
  /\ Distinct(t)
  /\ \A k \in 1..Len(t) - 1 : f[t[k]] = t[k+1]
  /\ f[t[Len(t)]] = Eof

LEMMA ClusterFacts ==
  /\ Root \in Clusters /\ Clusters \subseteq Nat
  /\ 0 \notin Clusters /\ Free \notin Clusters /\ Eof \notin Clusters /\ Free # Eof
  /\ IsFiniteSet(Clusters) /\ Cardinality(Clusters) = LastCluster - 1
  /\ LastCluster \in Nat /\ LastCluster - 1 \in Nat \ {0}
  <1>1. LastCluster \in Nat /\ 2 \in Int /\ LastCluster >= 2
    BY FatAssumption
  <1>2. IsFiniteSet(2..LastCluster) /\ Cardinality(2..LastCluster) = LastCluster - 2 + 1
    BY <1>1, FS_Interval
  <1> QED
    BY <1>1, <1>2, FatAssumption DEF Clusters, Free, Eof

\* How Follow goes from cluster to cluster, and where it stops.
Hops(f, c, m, hop) ==
  /\ m \in 0..LastCluster - 1
  /\ hop[0] = c
  /\ \A k \in 1..m : hop[k-1] \in Clusters /\ hop[k] = f[hop[k-1]]
  /\ m < LastCluster - 1 => hop[m] \notin Clusters
  /\ Follow(f, c) = [k \in 1..m |-> hop[k-1]]

LEMMA FollowHops ==
  ASSUME NEW f \in Tables, NEW c
  PROVE  \E m, hop : Hops(f, c, m, hop)
  <1> DEFINE n == Cardinality(Clusters)
             R(h) == [k \in 0..n |-> IF k = 0 THEN c
                        ELSE IF h[k-1] \in Clusters THEN f[h[k-1]] ELSE Eof]
             Q == Clusters \cup {Free, Eof, c}
             g == [z \in (1..n) \X Q |-> IF z[2] \in Clusters THEN f[z[2]] ELSE Eof]
  <1>1. n \in Nat /\ n = LastCluster - 1
    BY ClusterFacts
  <1>2. c \in Q /\ g \in [(1..n) \X Q -> Q]
    BY DEF Tables
  <1>3. \A k \in 1..n, q \in Q : g[<<k, q>>] = IF q \in Clusters THEN f[q] ELSE Eof
    OBVIOUS
  <1> HIDE DEF n, Q, g
  <1>4. PICK h : Recurs(h, n, Q, c, g)
    BY <1>1, <1>2, Recursion, Zenon
  <1>5. h = R(h)
    <2>1. ASSUME NEW k \in 0..n PROVE h[k] = R(h)[k]
      <3>1. CASE k = 0
        BY <1>4, <3>1 DEF Recurs
      <3>2. CASE k # 0
        <4>1. k \in 1..n /\ k - 1 \in 0..n
          BY <1>1, <3>2
        <4>2. h[k-1] \in Q /\ h[k] = g[<<k, h[k-1]>>]
          BY <1>4, <4>1 DEF Recurs
        <4> QED
          BY <1>3, <3>2, <4>1, <4>2
      <3> QED
        BY <3>1, <3>2
    <2>2. h = [k \in 0..n |-> h[k]]
      BY <1>4 DEF Recurs
    <2> QED
      BY <2>1, <2>2
  <1> DEFINE u == CHOOSE v : v = R(v)
  <1>7. Follow(f, c) = [k \in 1..Cardinality({j \in 1..n : u[j-1] \in Clusters}) |-> u[k-1]]
    BY DEF Follow, n
  <1>8. u = R(u)
    <2> HIDE DEF R
    <2> QED
      BY <1>5, Zenon
  <1> HIDE DEF u
  <1>9. u[0] = c
    BY <1>1, <1>8
  <1>10. \A k \in 1..n : u[k] = IF u[k-1] \in Clusters THEN f[u[k-1]] ELSE Eof
    BY <1>1, <1>8
  <1> HIDE DEF R
  <1> SUFFICES \E m \in 0..n : /\ {j \in 1..n : u[j-1] \in Clusters} = 1..m
                               /\ m < n => u[m] \notin Clusters
    <2>1. PICK m \in 0..n : /\ {j \in 1..n : u[j-1] \in Clusters} = 1..m
                            /\ m < n => u[m] \notin Clusters
      OBVIOUS
    <2>2. Cardinality(1..m) = m
      <3>1. 1 \in Int /\ m \in Int /\ m >= 0
        BY <1>1
      <3> QED
        BY <3>1, FS_Interval
    <2>3. Follow(f, c) = [k \in 1..m |-> u[k-1]]
      BY <1>7, <2>1, <2>2
    <2>4. \A k \in 1..m : k \in 1..n /\ u[k-1] \in Clusters
      BY <2>1
    <2>5. Hops(f, c, m, u)
      BY <1>1, <1>9, <1>10, <2>1, <2>3, <2>4 DEF Hops
    <2> QED
      BY <2>5
  <1> DEFINE out == {k \in 0..n : u[k] \notin Clusters}
  <1>11. CASE out = {}
    <2>1. {j \in 1..n : u[j-1] \in Clusters} = 1..n
      BY <1>1, <1>11
    <2> QED
      BY <1>1, <2>1
  <1>12. CASE out # {}
    <2>1. PICK m \in out : \A k \in out : m <= k
      <3>1. out \in SUBSET Nat
        BY <1>1
      <3> HIDE DEF out
      <3> QED
        BY <1>12, <3>1, LeastNumber
    <2> DEFINE P == {k \in 0..n : k >= m => u[k] \notin Clusters}
    <2>2. 0 \in P
      BY <1>1, <2>1
    <2>3. ASSUME NEW k \in 1..n, k - 1 \in P PROVE k \in P
      <3>1. CASE k - 1 >= m
        <4>1. u[k] = Eof
          BY <1>10, <2>3, <3>1
        <4> QED
          BY <4>1, ClusterFacts
      <3>2. CASE k = m
        BY <2>1, <3>2
      <3>3. CASE k < m
        BY <1>1, <2>1, <3>3
      <3> QED
        BY <1>1, <2>1, <3>1, <3>2, <3>3
    <2>4. \A k \in 0..n : k \in P
      <3> HIDE DEF P
      <3> QED
        BY <1>1, <2>2, <2>3, Induct
    <2>5. {j \in 1..n : u[j-1] \in Clusters} = 1..m
      <3>1. \A j \in 1..n : u[j-1] \in Clusters <=> j <= m
        BY <1>1, <2>1, <2>4
      <3> QED
        BY <1>1, <2>1, <3>1
    <2> QED
      BY <2>1, <2>5
  <1> QED
    BY <1>11, <1>12

LEMMA FollowFacts ==
  ASSUME NEW f \in Tables, NEW c
  PROVE  /\ Follow(f, c) \in Seq(Clusters)
         /\ c \notin Clusters => Follow(f, c) = <<>>
         /\ c \in Clusters => Follow(f, c) # <<>> /\ Follow(f, c)[1] = c
  <1>1. PICK m, hop : Hops(f, c, m, hop)
    BY FollowHops
  <1>2. m \in 0..LastCluster - 1 /\ LastCluster \in Nat /\ LastCluster - 1 \in Nat \ {0}
    BY <1>1, ClusterFacts DEF Hops
  <1>3. Follow(f, c) = [k \in 1..m |-> hop[k-1]] /\ \A k \in 1..m : hop[k-1] \in Clusters
    BY <1>1 DEF Hops
  <1>4. Follow(f, c) \in Seq(Clusters) /\ Len(Follow(f, c)) = m
    BY <1>2, <1>3
  <1>5. hop[0] = c /\ (m < LastCluster - 1 => hop[m] \notin Clusters)
    BY <1>1 DEF Hops
  <1>6. c \notin Clusters => m = 0
    <2>1. m >= 1 => 1 \in 1..m /\ hop[1-1] = c
      BY <1>2, <1>5
    <2> QED
      BY <1>2, <1>3, <2>1
  <1>7. c \in Clusters => m >= 1
    BY <1>2, <1>5
  <1>8. m >= 1 => Follow(f, c)[1] = c
    BY <1>2, <1>3, <1>5
  <1> QED
    BY <1>4, <1>6, <1>7, <1>8

\* A chain does not leave a set that the table does not lead out of.
LEMMA FollowInside ==
  ASSUME NEW f \in Tables, NEW S, NEW c, c \in S \/ c \notin Clusters,
         \A d \in S \cap Clusters : f[d] \in S \/ f[d] \notin Clusters
  PROVE  Range(Follow(f, c)) \subseteq S
  <1>1. PICK m, hop : Hops(f, c, m, hop)
    BY FollowHops
  <1>2. /\ m \in Nat /\ hop[0] = c
        /\ \A k \in 1..m : hop[k-1] \in Clusters /\ hop[k] = f[hop[k-1]]
        /\ Follow(f, c) = [k \in 1..m |-> hop[k-1]]
    BY <1>1, ClusterFacts DEF Hops
  <1> DEFINE P == {k \in 0..m : hop[k] \in S \/ hop[k] \notin Clusters}
  <1>3. 0 \in P
    BY <1>2
  <1>4. ASSUME NEW k \in 1..m, k - 1 \in P PROVE k \in P
    <2>1. hop[k-1] \in S \cap Clusters
      BY <1>2, <1>4
    <2> QED
      BY <1>2, <2>1
  <1>5. \A k \in 0..m : k \in P
    <2> HIDE DEF P
    <2> QED
      BY <1>2, <1>3, <1>4, Induct
  <1>6. \A k \in 1..m : hop[k-1] \in S
    <2> SUFFICES ASSUME NEW k \in 1..m PROVE hop[k-1] \in S
      OBVIOUS
    <2>1. k - 1 \in 0..m
      BY <1>2
    <2> QED
      BY <1>2, <1>5, <2>1
  <1> QED
    BY <1>2, <1>6 DEF Range

LEMMA PathShort ==
  ASSUME NEW t \in Seq(Clusters), Distinct(t)
  PROVE  Len(t) <= LastCluster - 1
  <1>1. t \in Injection(1..Len(t), Clusters)
    BY DEF Distinct, Injection, IsInjective
  <1>2. /\ IsFiniteSet(Clusters) => Cardinality(1..Len(t)) <= Cardinality(Clusters)
    BY <1>1, FS_Injection
  <1>3. Cardinality(1..Len(t)) = Len(t)
    <2> DEFINE n == Len(t)
    <2>1. 1 \in Int /\ n \in Int /\ n >= 0
      OBVIOUS
    <2> HIDE DEF n
    <2>2. Cardinality(1..n) = IF 1 > n THEN 0 ELSE n - 1 + 1
      BY <2>1, FS_Interval
    <2>3. Cardinality(1..n) = n
      BY <2>1, <2>2
    <2> QED
      BY <2>3 DEF n
  <1> QED
    BY <1>2, <1>3, ClusterFacts

\* Follow finds the chain that there is.
LEMMA FollowPath ==
  ASSUME NEW f \in Tables, NEW t, Path(f, t)
  PROVE  Follow(f, t[1]) = t
  <1>1. PICK m, hop : Hops(f, t[1], m, hop)
    BY FollowHops
  <1> DEFINE n == Len(t)
  <1>2. /\ t \in Seq(Clusters) /\ n \in Nat \ {0} /\ n <= LastCluster - 1
        /\ \A k \in 1..n : t[k] \in Clusters
        /\ t = [k \in 1..n |-> t[k]]
    BY PathShort DEF Path
  <1>3. /\ m \in 0..LastCluster - 1 /\ hop[0] = t[1] /\ LastCluster \in Nat /\ LastCluster - 1 \in Nat
        /\ \A k \in 1..m : hop[k-1] \in Clusters /\ hop[k] = f[hop[k-1]]
        /\ m < LastCluster - 1 => hop[m] \notin Clusters
        /\ Follow(f, t[1]) = [k \in 1..m |-> hop[k-1]]
    BY <1>1, ClusterFacts DEF Hops
  <1>4. (\A k \in 1..n - 1 : f[t[k]] = t[k+1]) /\ f[t[n]] = Eof
    BY DEF Path
  <1> HIDE DEF n
  <1> DEFINE P == {k \in 0..m : /\ k < n => hop[k] = t[k+1]
                                /\ k = n => hop[k] = Eof
                                /\ k <= n}
  <1>5. 0 \in P
    BY <1>2, <1>3
  <1>6. ASSUME NEW k \in 1..m, k - 1 \in P PROVE k \in P
    <2>1. k - 1 <= n /\ hop[k-1] \in Clusters /\ hop[k] = f[hop[k-1]]
      BY <1>3, <1>6
    <2>2. k - 1 # n
      BY <1>6, <2>1, ClusterFacts
    <2>3. k <= n /\ hop[k-1] = t[k]
      BY <1>2, <1>6, <2>1, <2>2
    <2>4. CASE k < n
      <3>1. k \in 1..n - 1
        BY <1>2, <2>4
      <3> QED
        BY <1>4, <2>1, <2>3, <3>1
    <2>5. CASE k = n
      BY <1>4, <2>1, <2>3, <2>5
    <2> QED
      BY <1>2, <2>3, <2>4, <2>5
  <1>7. \A k \in 0..m : k \in P
    <2> HIDE DEF P
    <2>1. m \in Nat
      BY <1>3
    <2> QED
      BY <1>5, <1>6, <2>1, Induct
  <1>8. m = n
    <2>1. m \in 0..m /\ m <= n
      BY <1>3, <1>7
    <2>2. m < n => hop[m] = t[m+1] /\ m + 1 \in 1..n
      <3>1. m \in P
        BY <1>7, <2>1
      <3> QED
        BY <1>2, <1>3, <2>1, <3>1
    <2>3. m < n => m < LastCluster - 1 /\ hop[m] \in Clusters
      BY <1>2, <1>3, <2>1, <2>2
    <2> QED
      BY <1>2, <1>3, <2>1, <2>3
  <1>9. \A k \in 1..n : hop[k-1] = t[k]
    <2> SUFFICES ASSUME NEW k \in 1..n PROVE hop[k-1] = t[k]
      OBVIOUS
    <2>1. k - 1 \in 0..m /\ k - 1 < n /\ (k - 1) + 1 = k
      BY <1>2, <1>8
    <2> QED
      BY <1>7, <2>1
  <1> QED
    BY <1>2, <1>3, <1>8, <1>9

LEMMA PathFrame ==
  ASSUME NEW f, NEW g, NEW t, Path(f, t), \A d \in Range(t) : g[d] = f[d]
  PROVE  Path(g, t)
  <1>1. \A k \in 1..Len(t) : t[k] \in Range(t)
    BY DEF Path, Range
  <1>2. Len(t) \in Nat \ {0}
    BY DEF Path
  <1>3. \A k \in 1..Len(t) : g[t[k]] = f[t[k]]
    BY <1>1
  <1> QED
    BY <1>2, <1>3 DEF Path

LEMMA PathLonger ==
  ASSUME NEW f, NEW g, NEW t, Path(f, t), NEW c \in Clusters \ Range(t),
         \A d \in Range(t) \ {t[Len(t)]} : g[d] = f[d],
         g[t[Len(t)]] = c, g[c] = Eof
  PROVE  Path(g, Append(t, c))
  <1>1. t \in Seq(Clusters) /\ Len(t) \in Nat \ {0} /\ Distinct(t)
    BY DEF Path
  <1> DEFINE u == Append(t, c)
  <1>2. /\ u \in Seq(Clusters) /\ Len(u) = Len(t) + 1 /\ u[Len(t) + 1] = c
        /\ \A k \in 1..Len(t) : u[k] = t[k]
        /\ Distinct(u)
    BY <1>1, RangeAppend
  <1>3. ASSUME NEW k \in 1..Len(t) - 1 PROVE g[t[k]] = t[k+1]
    <2>1. k \in 1..Len(t) /\ Len(t) \in 1..Len(t) /\ k # Len(t)
      BY <1>1
    <2>2. t[k] \in Range(t) \ {t[Len(t)]}
      BY <1>1, <2>1 DEF Distinct, Range
    <2> QED
      BY <2>2 DEF Path
  <1>4. ASSUME NEW k \in 1..Len(t) PROVE g[u[k]] = u[k+1]
    <2>1. CASE k = Len(t)
      BY <1>1, <1>2, <2>1
    <2>2. CASE k # Len(t)
      <3>1. k \in 1..Len(t) - 1 /\ k + 1 \in 1..Len(t)
        BY <1>1, <2>2
      <3> QED
        BY <1>2, <1>3, <3>1
    <2> QED
      BY <2>1, <2>2
  <1> HIDE DEF u
  <1>5. u # <<>> /\ Len(u) - 1 = Len(t)
    BY <1>1, <1>2
  <1>6. Path(g, u)
    BY <1>1, <1>2, <1>4, <1>5 DEF Path
  <1> QED
    BY <1>6 DEF u

-----------------------------------------------------------------------------
(* The disk as a record, as the plans work on it                            *)

Cell   == Entries \cup {Unused, Dot, Leftover}
Copies == [at : Places, cluster : Clusters \cup {0}, size : 0..MaxSize, off : 0..MaxSize]
Disks  == [fat : [Clusters -> Clusters \cup {Free, Eof}],
           slot : [Clusters -> [1..SlotsPer -> Cell]],
           written : SUBSET Clusters,
           open : [Handles -> Copies \cup {Closed}]]

Entry(x, p) == x.slot[p[1]][p[2]]
InUse(x)    == {p \in Places : Entry(x, p).kind \in {"file", "dir"}}

\* The chain that begins at c, and its clusters.
Trail(x, c) == Follow(x.fat, c)
On(x, c)    == Range(Trail(x, c))

\* The first clusters of the root and of what the entries name; those of directories.
Heads(x)    == {c \in Clusters : c = Root \/ \E p \in InUse(x) : Entry(x, p).cluster = c}
DirHeads(x) == {c \in Clusters : \/ c = Root
                                 \/ \E p \in InUse(x) : /\ Entry(x, p).kind = "dir"
                                                        /\ Entry(x, p).cluster = c}
Used(x)     == UNION {On(x, c) : c \in Heads(x)}

\* A chain that begins at c has size clusters with data.
Full(x, c, size) ==
  /\ size <= Len(Trail(x, c))
  /\ \A k \in 1..size : Trail(x, c)[k] \in x.written

Ending(x)  == \A c \in Heads(x) : Path(x.fat, Trail(x, c))
Apart(x)   == \A c, d \in Heads(x) : c = d \/ On(x, c) \cap On(x, d) = {}
OneEach(x) == /\ \A p \in InUse(x) : Entry(x, p).cluster # Root
              /\ \A p, q \in InUse(x) : \/ p = q \/ Entry(x, p).cluster = 0
                                        \/ Entry(x, p).cluster # Entry(x, q).cluster
\* An entry stands in a directory, and one of a directory in the root.
Rooted(x)  == \A p \in InUse(x) :
                /\ \E d \in DirHeads(x) : p[1] \in On(x, d) /\ (Entry(x, p).kind = "dir" => d = Root)
                /\ Entry(x, p).kind = "dir" => Entry(x, p).cluster # 0
Filled(x)  == \A p \in InUse(x) :
                Entry(x, p).kind = "file" => Full(x, Entry(x, p).cluster, Entry(x, p).size)

Sound(x) == x \in Disks /\ Ending(x) /\ Apart(x) /\ OneEach(x) /\ Rooted(x) /\ Filled(x)

\* What a descriptor remembers is true of the file, or was when the file was still shorter.
Remembers(x, f) ==
  /\ f.at \in InUse(x) /\ Entry(x, f.at).kind = "file"
  /\ f.cluster # 0 => Entry(x, f.at).cluster = f.cluster
  /\ Full(x, f.cluster, f.size)
  /\ f.off <= f.size

Opened(x) == \A h \in Handles : x.open[h] # Closed => Remembers(x, x.open[h])

\* The clusters that are taken and in no chain.
Lost(x) == {c \in Clusters : x.fat[c] # Free} \ Used(x)

\* What holds on a damaged disk too: E are the entries that were about to be erased, or that a
\* mkdir or a write whose failure nobody noticed was about, M the two of a file that was being
\* moved.
Partly(x, E, M) ==
  /\ x \in Disks
  /\ Path(x.fat, Trail(x, Root))
  /\ \A p \in InUse(x) \ E : Entry(x, p).cluster # 0 => Path(x.fat, Trail(x, Entry(x, p).cluster))
  /\ \A p \in InUse(x) : On(x, Entry(x, p).cluster) \cap On(x, Root) = {}
  /\ \A p, q \in InUse(x) : \/ p = q \/ {p, q} \subseteq M
                            \/ On(x, Entry(x, p).cluster) \cap On(x, Entry(x, q).cluster) = {}
  /\ \A p \in InUse(x) \ E :
       Entry(x, p).kind = "file" => Full(x, Entry(x, p).cluster, Entry(x, p).size)

\* The entry at p is found from the root.
Reached(x, p) ==
  /\ p \in InUse(x)
  /\ \/ p[1] \in On(x, Root)
     \/ \E q \in InUse(x) : /\ Entry(x, q).kind = "dir" /\ q[1] \in On(x, Root)
                            /\ p[1] \in On(x, Entry(x, q).cluster)

IInv ==
  /\ Disk \in Disks
  /\ cut.on \subseteq Places
  /\ harm \subseteq {"crash", "unlink", "rmdir", "rename", "split", "overlooked"}
  /\ Ready => /\ Sound(Disk) /\ Opened(Disk)
              /\ harm = {} => Lost(Disk) = {}
  /\ Partly(Disk, Unfinished, BeingMoved)
  /\ "rename" \in harm => \E p \in cut.on : Reached(Disk, p)

\* The file at p is still there: it has the clusters and the data that it had.
Longer(x, y, c) ==
  /\ Len(Trail(x, c)) <= Len(Trail(y, c))
  /\ \A k \in 1..Len(Trail(x, c)) :
       /\ Trail(y, c)[k] = Trail(x, c)[k]
       /\ Trail(x, c)[k] \in x.written => Trail(x, c)[k] \in y.written

Keeps(x, y, p) ==
  p \in InUse(x) /\ Entry(x, p).kind = "file" =>
    /\ p \in InUse(y) /\ Entry(y, p).kind = "file"
    /\ Entry(x, p).cluster # 0 => /\ Entry(y, p).cluster = Entry(x, p).cluster
                                  /\ Longer(x, y, Entry(x, p).cluster)

LEMMA DiskFacts ==
  ASSUME NEW x \in Disks
  PROVE  /\ x.fat \in Tables /\ x.written \subseteq Clusters
         /\ \A p \in Places : Entry(x, p) \in Cell /\ p[1] \in Clusters /\ p[2] \in 1..SlotsPer
         /\ InUse(x) \subseteq Places
         /\ \A p \in InUse(x) : Entry(x, p) \in Entries
         /\ \A c : Trail(x, c) \in Seq(Clusters) /\ On(x, c) \subseteq Clusters
         /\ Trail(x, 0) = <<>> /\ On(x, 0) = {}
         /\ \A c \in Clusters : Trail(x, c) # <<>> /\ Trail(x, c)[1] = c /\ c \in On(x, c)
  <1>1. x.fat \in Tables /\ x.written \subseteq Clusters
    BY DEF Disks, Tables
  <1>2. \A p \in Places : Entry(x, p) \in Cell /\ p[1] \in Clusters /\ p[2] \in 1..SlotsPer
    BY DEF Disks, Places, Entry
  <1>3. InUse(x) \subseteq Places
    BY DEF InUse
  <1>4. \A p \in InUse(x) : Entry(x, p) \in Entries
    <2>1. Unused.kind = "unused" /\ Dot.kind = "dot" /\ Leftover.kind = "leftover"
      BY DEF Unused, Dot, Leftover, Slot
    <2>2. \A p \in InUse(x) : Entry(x, p) \in Cell /\ Entry(x, p).kind \in {"file", "dir"}
      BY <1>2 DEF InUse
    <2> QED
      BY <2>1, <2>2 DEF Cell
  <1>5. \A c : Trail(x, c) \in Seq(Clusters)
    BY <1>1, FollowFacts DEF Trail
  <1>6. \A c : On(x, c) \subseteq Clusters
    BY <1>5 DEF On, Range
  <1>7. Trail(x, 0) = <<>>
    BY <1>1, FollowFacts, ClusterFacts DEF Trail
  <1>8. On(x, 0) = {}
    BY <1>7 DEF On, Range
  <1>9. \A c \in Clusters : Trail(x, c) # <<>> /\ Trail(x, c)[1] = c
    BY <1>1, FollowFacts DEF Trail
  <1>10. \A c \in Clusters : c \in On(x, c)
    <2> SUFFICES ASSUME NEW c \in Clusters PROVE c \in On(x, c)
      OBVIOUS
    <2>1. 1 \in DOMAIN Trail(x, c)
      BY <1>5, <1>9
    <2> QED
      BY <1>9, <2>1 DEF On, Range
  <1> QED
    BY <1>1, <1>2, <1>3, <1>4, <1>5, <1>6, <1>7, <1>8, <1>9, <1>10

LEMMA HeadFacts ==
  ASSUME NEW x, Sound(x)
  PROVE  /\ Root \in Heads(x) /\ Root \in DirHeads(x) /\ DirHeads(x) \subseteq Heads(x)
         /\ Heads(x) \subseteq Clusters
         /\ \A p \in InUse(x) : Entry(x, p).cluster # 0 => Entry(x, p).cluster \in Heads(x)
         /\ \A c \in Heads(x) : On(x, c) \subseteq Used(x)
         /\ Used(x) \subseteq Clusters
         /\ \A d \in Used(x) : x.fat[d] # Free
         /\ \A c \in Heads(x) : \A d \in On(x, c) : x.fat[d] \in On(x, c) \/ x.fat[d] = Eof
  <1>1. x \in Disks /\ Ending(x)
    BY DEF Sound
  <1>2. Root \in Heads(x) /\ Root \in DirHeads(x) /\ DirHeads(x) \subseteq Heads(x) /\ Heads(x) \subseteq Clusters
    BY ClusterFacts DEF Heads, DirHeads
  <1>3. \A p \in InUse(x) : Entry(x, p).cluster # 0 => Entry(x, p).cluster \in Heads(x)
    BY <1>1, DiskFacts DEF Heads, Entries
  <1>4. (\A c \in Heads(x) : On(x, c) \subseteq Used(x)) /\ Used(x) \subseteq Clusters
    BY <1>1, DiskFacts DEF Used
  <1>5. ASSUME NEW c \in Heads(x), NEW d \in On(x, c)
        PROVE  x.fat[d] \in On(x, c) \/ x.fat[d] = Eof
    <2>1. PICK k \in DOMAIN Trail(x, c) : Trail(x, c)[k] = d
      BY DEF On, Range
    <2>2. Path(x.fat, Trail(x, c)) /\ Trail(x, c) \in Seq(Clusters)
      BY <1>1 DEF Ending, Path
    <2>3. k \in 1..Len(Trail(x, c)) /\ Len(Trail(x, c)) \in Nat
      BY <2>1, <2>2
    <2>4. CASE k = Len(Trail(x, c))
      BY <2>1, <2>2, <2>4 DEF Path
    <2>5. CASE k # Len(Trail(x, c))
      <3>1. k \in 1..Len(Trail(x, c)) - 1 /\ k + 1 \in DOMAIN Trail(x, c)
        BY <2>2, <2>3, <2>5
      <3>2. x.fat[d] = Trail(x, c)[k+1]
        BY <2>1, <2>2, <3>1 DEF Path
      <3> QED
        BY <3>1, <3>2 DEF On, Range
    <2> QED
      BY <2>4, <2>5
  <1>6. \A d \in Used(x) : x.fat[d] # Free
    <2> SUFFICES ASSUME NEW c \in Heads(x), NEW d \in On(x, c) PROVE x.fat[d] # Free
      BY DEF Used
    <2> QED
      BY <1>1, <1>5, DiskFacts, ClusterFacts
  <1> QED
    BY <1>2, <1>3, <1>4, <1>5, <1>6

LEMMA SameTrail ==
  ASSUME NEW x, NEW y \in Disks, Sound(x), NEW c \in Heads(x),
         \A d \in On(x, c) : y.fat[d] = x.fat[d]
  PROVE  Trail(y, c) = Trail(x, c) /\ On(y, c) = On(x, c) /\ Path(y.fat, Trail(y, c))
  <1>1. x \in Disks /\ Path(x.fat, Trail(x, c)) /\ c \in Clusters
    BY HeadFacts DEF Sound, Ending
  <1>2. Path(y.fat, Trail(x, c))
    BY <1>1, PathFrame DEF On
  <1>3. Trail(x, c)[1] = c /\ y.fat \in Tables
    BY <1>1, DiskFacts
  <1>4. Trail(y, c) = Trail(x, c)
    BY <1>2, <1>3, FollowPath DEF Trail
  <1> QED
    BY <1>2, <1>4 DEF On

LEMMA LongerFull ==
  ASSUME NEW x \in Disks, NEW y \in Disks, NEW c, NEW size \in Nat, Longer(x, y, c), Full(x, c, size)
  PROVE  Full(y, c, size)
  <1>1. Len(Trail(x, c)) \in Nat /\ Len(Trail(y, c)) \in Nat
    BY DiskFacts
  <1> QED
    BY <1>1 DEF Longer, Full

LEMMA KeptRemembered ==
  ASSUME NEW x \in Disks, NEW y \in Disks, NEW f \in Copies, Remembers(x, f), Keeps(x, y, f.at)
  PROVE  Remembers(y, f)
  <1>1. f.size \in Nat /\ f.cluster \in Clusters \cup {0}
    BY FatAssumption DEF Copies
  <1>2. CASE f.cluster = 0
    <2>1. Trail(y, 0) = Trail(x, 0) /\ Len(Trail(x, 0)) = 0
      BY DiskFacts
    <2>2. f.size = 0
      BY <1>1, <1>2, <2>1 DEF Remembers, Full
    <2>3. Full(y, f.cluster, f.size)
      BY <1>2, <2>1, <2>2 DEF Full
    <2> QED
      BY <1>2, <2>3 DEF Remembers, Keeps
  <1>3. CASE f.cluster # 0
    <2>1. Longer(x, y, f.cluster) /\ Entry(y, f.at).cluster = f.cluster
      BY <1>3 DEF Remembers, Keeps
    <2>2. Full(y, f.cluster, f.size)
      BY <1>1, <2>1, LongerFull DEF Remembers
    <2> QED
      BY <2>1, <2>2 DEF Remembers, Keeps
  <1> QED
    BY <1>2, <1>3

LEMMA KeepsOn ==
  ASSUME NEW x \in Disks, NEW y \in Disks, NEW z \in Disks, NEW p, Keeps(x, y, p), Keeps(y, z, p)
  PROVE  Keeps(x, z, p)
  <1> SUFFICES ASSUME p \in InUse(x), Entry(x, p).kind = "file" PROVE Keeps(x, z, p)
    BY DEF Keeps
  <1>1. p \in InUse(y) /\ Entry(y, p).kind = "file" /\ p \in InUse(z) /\ Entry(z, p).kind = "file"
    BY DEF Keeps
  <1>2. CASE Entry(x, p).cluster # 0
    <2> DEFINE c == Entry(x, p).cluster
    <2>1. Longer(x, y, c) /\ Longer(y, z, c) /\ Entry(z, p).cluster = c
      BY <1>1, <1>2 DEF Keeps
    <2>2. Len(Trail(x, c)) \in Nat /\ Len(Trail(y, c)) \in Nat /\ Len(Trail(z, c)) \in Nat
      BY DiskFacts
    <2>3. Longer(x, z, c)
      <3> HIDE DEF c
      <3> QED
        BY <2>1, <2>2 DEF Longer
    <2> QED
      BY <1>1, <2>1, <2>3 DEF Keeps
  <1> QED
    BY <1>1, <1>2 DEF Keeps

\* A write that concerns clusters in no chain, the data in a file or its size.
LEMMA Unmoved ==
  ASSUME NEW x, NEW y \in Disks, Sound(x), InUse(y) = InUse(x),
         \A p \in InUse(x) : /\ Entry(y, p).kind = Entry(x, p).kind
                             /\ Entry(y, p).cluster = Entry(x, p).cluster,
         \A p \in InUse(x) : \/ Entry(y, p).size = Entry(x, p).size
                             \/ Full([x EXCEPT !.written = y.written], Entry(x, p).cluster, Entry(y, p).size),
         \A d \in Used(x) : y.fat[d] = x.fat[d],
         x.written \cap Used(x) \subseteq y.written
  PROVE  /\ Sound(y) /\ Heads(y) = Heads(x) /\ DirHeads(y) = DirHeads(x) /\ Used(y) = Used(x)
         /\ \A c \in Heads(x) \cup {0} : Trail(y, c) = Trail(x, c)
         /\ \A p : Keeps(x, y, p)
  <1>1. x \in Disks /\ Ending(x) /\ Apart(x) /\ OneEach(x) /\ Rooted(x) /\ Filled(x)
    BY DEF Sound
  <1>2. Heads(y) = Heads(x) /\ DirHeads(y) = DirHeads(x)
    BY DEF Heads, DirHeads
  <1>3. ASSUME NEW c \in Heads(x)
        PROVE  Trail(y, c) = Trail(x, c) /\ On(y, c) = On(x, c) /\ Path(y.fat, Trail(y, c))
    <2>1. \A d \in On(x, c) : y.fat[d] = x.fat[d]
      BY HeadFacts
    <2> QED
      BY <2>1, SameTrail
  <1>4. Trail(y, 0) = Trail(x, 0)
    BY <1>1, DiskFacts
  <1>5. Used(y) = Used(x)
    BY <1>2, <1>3 DEF Used
  <1>6. Ending(y) /\ Apart(y) /\ OneEach(y)
    BY <1>1, <1>2, <1>3 DEF Ending, Apart, OneEach
  <1>7. Rooted(y)
    <2> SUFFICES ASSUME NEW p \in InUse(x)
                 PROVE  /\ \E d \in DirHeads(x) : p[1] \in On(y, d) /\ (Entry(x, p).kind = "dir" => d = Root)
                        /\ Entry(x, p).kind = "dir" => Entry(x, p).cluster # 0
      BY <1>2 DEF Rooted
    <2>1. PICK d \in DirHeads(x) : p[1] \in On(x, d) /\ (Entry(x, p).kind = "dir" => d = Root)
      BY <1>1 DEF Rooted
    <2>2. p[1] \in On(y, d)
      BY <1>3, <2>1, HeadFacts
    <2> QED
      BY <1>1, <2>1, <2>2 DEF Rooted
  <1>8. \A c \in Heads(x) : \A k \in 1..Len(Trail(x, c)) : Trail(x, c)[k] \in x.written => Trail(x, c)[k] \in y.written
    <2> SUFFICES ASSUME NEW c \in Heads(x), NEW k \in 1..Len(Trail(x, c)), Trail(x, c)[k] \in x.written
                 PROVE  Trail(x, c)[k] \in y.written
      OBVIOUS
    <2>1. Trail(x, c) \in Seq(Clusters)
      BY <1>1, DiskFacts
    <2>2. Trail(x, c)[k] \in Used(x)
      BY <2>1 DEF On, Range, Used
    <2> QED
      BY <2>2
  <1>9. \A c \in Heads(x) \cup {0} : Longer(x, y, c)
    <2>1. ASSUME NEW c \in Heads(x) PROVE Longer(x, y, c)
      <3>1. Trail(y, c) = Trail(x, c) /\ Len(Trail(x, c)) \in Nat
        BY <1>1, <1>3, DiskFacts
      <3> QED
        BY <1>8, <3>1 DEF Longer
    <2>2. Longer(x, y, 0)
      <3>1. Len(Trail(x, 0)) = 0
        BY <1>1, DiskFacts
      <3> QED
        BY <1>4, <3>1 DEF Longer
    <2> QED
      BY <2>1, <2>2
  <1>10. Filled(y)
    <2> SUFFICES ASSUME NEW p \in InUse(x), Entry(x, p).kind = "file"
                 PROVE  Full(y, Entry(x, p).cluster, Entry(y, p).size)
      BY DEF Filled
    <2> DEFINE c == Entry(x, p).cluster
    <2>1. c \in Heads(x) \cup {0} /\ Full(x, c, Entry(x, p).size)
      BY <1>1, HeadFacts DEF Filled
    <2>2. Entry(x, p) \in Entries
      BY <1>1, DiskFacts
    <2>3. Entry(x, p).size \in Nat
      BY <2>2, FatAssumption DEF Entries
    <2>4. CASE Entry(y, p).size = Entry(x, p).size
      <3> HIDE DEF c
      <3>1. Full(y, c, Entry(x, p).size)
        BY <1>1, <1>9, <2>1, <2>3, LongerFull
      <3> QED
        BY <2>4, <3>1 DEF c
    <2>5. CASE Full([x EXCEPT !.written = y.written], c, Entry(y, p).size)
      <3> DEFINE z == [x EXCEPT !.written = y.written]
      <3>1. z.fat = x.fat /\ z.written = y.written
        BY <1>1 DEF Disks
      <3> HIDE DEF z, c
      <3>2. Trail(z, c) = Trail(y, c)
        <4>1. Trail(z, c) = Trail(x, c)
          BY <3>1 DEF Trail
        <4> QED
          BY <1>3, <1>4, <2>1, <4>1
      <3>3. Full(z, c, Entry(y, p).size)
        BY <2>5 DEF z
      <3>4. Full(y, c, Entry(y, p).size)
        BY <3>1, <3>2, <3>3 DEF Full
      <3> QED
        BY <3>4 DEF c
    <2> QED
      BY <2>4, <2>5
  <1>11. ASSUME NEW p PROVE Keeps(x, y, p)
    <2> SUFFICES ASSUME p \in InUse(x), Entry(x, p).kind = "file", Entry(x, p).cluster # 0
                 PROVE  Longer(x, y, Entry(x, p).cluster)
      BY DEF Keeps
    <2> QED
      BY <1>9, HeadFacts
  <1> QED
    BY <1>2, <1>3, <1>4, <1>5, <1>6, <1>7, <1>10, <1>11 DEF Sound

\* A cluster in no chain is linked to the end of one.
LEMMA Linked ==
  ASSUME NEW x, NEW y \in Disks, Sound(x), NEW h \in Heads(x), NEW c \in Clusters \ Used(x),
         x.fat[c] = Eof, y.fat = [x.fat EXCEPT ![Last(Trail(x, h))] = c],
         y.slot = x.slot, y.written = x.written
  PROVE  /\ Sound(y) /\ Heads(y) = Heads(x) /\ DirHeads(y) = DirHeads(x) /\ InUse(y) = InUse(x)
         /\ Used(y) = Used(x) \cup {c}
         /\ Trail(y, h) = Append(Trail(x, h), c) /\ On(y, h) = On(x, h) \cup {c}
         /\ \A d \in Heads(x) \ {h} : Trail(y, d) = Trail(x, d) /\ On(y, d) = On(x, d)
         /\ \A p : Keeps(x, y, p)
  <1>1. x \in Disks /\ Ending(x) /\ Apart(x) /\ OneEach(x) /\ Rooted(x) /\ Filled(x)
    BY DEF Sound
  <1> DEFINE t == Trail(x, h)
  <1>2. Path(x.fat, t) /\ t \in Seq(Clusters) /\ Len(t) \in Nat \ {0} /\ t[1] = h /\ h \in Clusters
    <2>1. Path(x.fat, t) /\ h \in Clusters
      BY <1>1, HeadFacts DEF Ending
    <2>2. t \in Seq(Clusters) /\ t # <<>> /\ t[1] = h
      BY <1>1, <2>1, DiskFacts
    <2> HIDE DEF t
    <2> QED
      BY <2>1, <2>2
  <1>3. Last(t) = t[Len(t)] /\ Last(t) \in On(x, h)
    <2>1. Last(t) = t[Len(t)] /\ Len(t) \in DOMAIN t
      BY <1>2 DEF Last
    <2> QED
      BY <2>1 DEF On, Range
  <1>4. c \notin On(x, h)
    BY HeadFacts
  <1>5. /\ \A d \in Clusters \ {Last(t)} : y.fat[d] = x.fat[d]
        /\ y.fat[Last(t)] = c
    BY <1>1, <1>2, <1>3 DEF Disks, On, Range
  <1>6. Path(y.fat, Append(t, c))
    <2>1. \A d \in Range(t) \ {t[Len(t)]} : y.fat[d] = x.fat[d]
      BY <1>1, <1>3, <1>5, DiskFacts DEF On
    <2>2. c \in Clusters \ Range(t)
      BY <1>4 DEF On
    <2>3. y.fat[t[Len(t)]] = c
      BY <1>3, <1>5
    <2>4. y.fat[c] = Eof
      BY <1>3, <1>4, <1>5
    <2>5. Path(x.fat, t)
      BY <1>2
    <2> HIDE DEF t
    <2>6. \A f, g : /\ Path(f, t) /\ g[t[Len(t)]] = c /\ g[c] = Eof
                   /\ (\A d \in Range(t) \ {t[Len(t)]} : g[d] = f[d])
                   => Path(g, Append(t, c))
      BY <2>2, PathLonger
    <2> QED
      BY <2>1, <2>3, <2>4, <2>5, <2>6, Zenon
  <1>7. /\ Append(t, c) \in Seq(Clusters) /\ Len(Append(t, c)) = Len(t) + 1
        /\ \A k \in 1..Len(t) : Append(t, c)[k] = t[k]
        /\ Range(Append(t, c)) = Range(t) \cup {c}
    <2> HIDE DEF t
    <2> QED
      BY <1>2, RangeAppend
  <1>8. Trail(y, h) = Append(t, c)
    <2>1. Append(t, c)[1] = h
      BY <1>2, <1>7
    <2>2. y.fat \in Tables
      BY DiskFacts
    <2> HIDE DEF t
    <2> QED
      BY <1>6, <2>1, <2>2, FollowPath DEF Trail
  <1>9. On(y, h) = On(x, h) \cup {c}
    BY <1>7, <1>8 DEF On
  <1>10. InUse(y) = InUse(x) /\ \A p : Entry(y, p) = Entry(x, p)
    BY DEF InUse, Entry
  <1>11. Heads(y) = Heads(x) /\ DirHeads(y) = DirHeads(x)
    BY <1>10 DEF Heads, DirHeads
  <1>12. ASSUME NEW d \in Heads(x) \ {h}
         PROVE  Trail(y, d) = Trail(x, d) /\ On(y, d) = On(x, d) /\ Path(y.fat, Trail(y, d))
    <2>1. On(x, d) \cap On(x, h) = {} /\ On(x, d) \subseteq Clusters
      BY <1>1, DiskFacts DEF Apart
    <2>2. \A e \in On(x, d) : e \in Clusters \ {Last(t)}
      BY <1>3, <2>1
    <2> QED
      BY <1>5, <2>2, SameTrail
  <1>13. Used(y) = Used(x) \cup {c}
    BY <1>9, <1>11, <1>12 DEF Used
  <1>14. Ending(y)
    BY <1>6, <1>8, <1>11, <1>12 DEF Ending
  <1>15. Apart(y)
    <2>1. \A d \in Heads(x) : c \notin On(x, d)
      BY HeadFacts
    <2> QED
      BY <1>1, <1>9, <1>11, <1>12, <2>1 DEF Apart
  <1>16. OneEach(y)
    BY <1>1, <1>10 DEF OneEach
  <1>17. \A d \in Heads(x) : On(x, d) \subseteq On(y, d)
    BY <1>9, <1>12
  <1>18. Rooted(y)
    <2> SUFFICES ASSUME NEW p \in InUse(x)
                 PROVE  /\ \E d \in DirHeads(x) : p[1] \in On(y, d) /\ (Entry(x, p).kind = "dir" => d = Root)
                        /\ Entry(x, p).kind = "dir" => Entry(x, p).cluster # 0
      BY <1>10, <1>11 DEF Rooted
    <2>1. PICK d \in DirHeads(x) : p[1] \in On(x, d) /\ (Entry(x, p).kind = "dir" => d = Root)
      BY <1>1 DEF Rooted
    <2>2. p[1] \in On(y, d)
      BY <1>17, <2>1, HeadFacts
    <2> QED
      BY <1>1, <2>1, <2>2 DEF Rooted
  <1>19. ASSUME NEW d \in Heads(x) \cup {0} PROVE Longer(x, y, d)
    <2>1. Len(Trail(x, d)) <= Len(Trail(y, d))
      <3>1. CASE d = h
        BY <1>2, <1>7, <1>8, <3>1
      <3>2. CASE d # h
        <4>1. Trail(y, d) = Trail(x, d)
          BY <1>1, <1>12, <3>2, DiskFacts
        <4>2. Len(Trail(x, d)) \in Nat
          BY <1>1, DiskFacts
        <4> QED
          BY <4>1, <4>2
      <3> QED
        BY <3>1, <3>2
    <2>2. \A k \in 1..Len(Trail(x, d)) : Trail(y, d)[k] = Trail(x, d)[k]
      <3>1. CASE d = h
        BY <1>2, <1>7, <1>8, <3>1
      <3>2. CASE d # h
        BY <1>1, <1>12, <3>2, DiskFacts
      <3> QED
        BY <3>1, <3>2
    <2> QED
      BY <2>1, <2>2 DEF Longer
  <1>20. Filled(y)
    <2> SUFFICES ASSUME NEW p \in InUse(x), Entry(x, p).kind = "file"
                 PROVE  Full(y, Entry(x, p).cluster, Entry(x, p).size)
      BY <1>10 DEF Filled
    <2>1. Entry(x, p).cluster \in Heads(x) \cup {0} /\ Full(x, Entry(x, p).cluster, Entry(x, p).size)
      BY <1>1, HeadFacts DEF Filled
    <2>2. Entry(x, p) \in Entries
      BY <1>1, DiskFacts
    <2>3. Entry(x, p).size \in Nat
      BY <2>2, FatAssumption DEF Entries
    <2> QED
      BY <1>1, <1>19, <2>1, <2>3, LongerFull
  <1>21. ASSUME NEW p PROVE Keeps(x, y, p)
    BY <1>10, <1>19, HeadFacts DEF Keeps
  <1> QED
    BY <1>8, <1>9, <1>10, <1>11, <1>12, <1>13, <1>14, <1>15, <1>16, <1>18, <1>20, <1>21 DEF Sound

LEMMA Alone ==
  ASSUME NEW x \in Disks, NEW c \in Clusters, x.fat[c] = Eof
  PROVE  Path(x.fat, <<c>>) /\ Trail(x, c) = <<c>> /\ On(x, c) = {c}
  <1>1. Path(x.fat, <<c>>)
    <2>1. <<c>> \in Seq(Clusters) /\ <<c>> # <<>> /\ Len(<<c>>) = 1 /\ <<c>>[1] = c
      OBVIOUS
    <2> QED
      BY <2>1 DEF Path, Distinct
  <1>2. Trail(x, c) = <<c>>
    <2>1. x.fat \in Tables /\ <<c>>[1] = c
      BY DiskFacts
    <2> QED
      BY <1>1, <2>1, FollowPath DEF Trail
  <1>3. Range(<<c>>) = {c}
    BY DEF Range
  <1> QED
    BY <1>1, <1>2, <1>3 DEF On

\* An entry without data is written into a slot of the directory d: an unused one, or that of a
\* file.  What it names, if anything, is a cluster in no chain.
LEMMA Entered ==
  ASSUME NEW x, NEW y \in Disks, Sound(x), NEW p \in Places, NEW e \in Entries, NEW d \in DirHeads(x),
         y.fat = x.fat, y.written = x.written,
         \A q \in Places : Entry(y, q) = IF q = p THEN e ELSE Entry(x, q),
         p \in InUse(x) => Entry(x, p).kind = "file" /\ e.kind = "file",
         p[1] \in On(x, d), e.kind = "dir" => d = Root /\ e.cluster # 0,
         e.size = 0, e.cluster # 0 => e.cluster \notin Used(x) /\ x.fat[e.cluster] = Eof
  PROVE  /\ Sound(y) /\ InUse(y) = InUse(x) \cup {p} /\ DirHeads(x) \subseteq DirHeads(y)
         /\ Heads(y) \subseteq Heads(x) \cup {e.cluster}
         /\ \A c : Trail(y, c) = Trail(x, c)
         /\ \A q : (q = p /\ p \in InUse(x) => Entry(x, p).cluster = 0) => Keeps(x, y, q)
         /\ (p \in InUse(x) => Entry(x, p).cluster = 0) => Used(x) \cup On(x, e.cluster) \subseteq Used(y)
  <1>1. x \in Disks /\ Ending(x) /\ Apart(x) /\ OneEach(x) /\ Rooted(x) /\ Filled(x)
    BY DEF Sound
  <1> DEFINE c == e.cluster
  <1>2. e.kind \in {"file", "dir"} /\ c \in Clusters \cup {0}
    BY DEF Entries
  <1>3. InUse(y) = InUse(x) \cup {p} /\ \A q \in InUse(x) : q \in Places
    BY <1>2 DEF InUse
  <1>4. Entry(y, p) = e /\ \A q \in InUse(x) \ {p} : Entry(y, q) = Entry(x, q)
    BY <1>3
  <1>5. \A b : Trail(y, b) = Trail(x, b) /\ On(y, b) = On(x, b)
    BY DEF Trail, On
  <1>6. Heads(y) \subseteq Heads(x) \cup {c}
    BY <1>3, <1>4 DEF Heads
  <1>7. DirHeads(x) \subseteq DirHeads(y)
    BY <1>3, <1>4 DEF DirHeads
  <1>8. c # 0 => Path(x.fat, Trail(x, c)) /\ On(x, c) = {c}
    BY <1>1, <1>2, Alone
  <1>9. 0 \notin Heads(y)
    BY ClusterFacts DEF Heads
  <1>10. c \notin Heads(x)
    <2>1. c = 0 => c \notin Heads(x)
      BY ClusterFacts DEF Heads
    <2>2. \A b \in Heads(x) : b \in Used(x)
      BY <1>1, HeadFacts, DiskFacts
    <2> QED
      BY <2>1, <2>2
  <1>11. Ending(y)
    BY <1>1, <1>5, <1>6, <1>8, <1>9 DEF Ending
  <1>12. Apart(y)
    <2>1. c # 0 => \A b \in Heads(x) : On(x, c) \cap On(x, b) = {}
      BY <1>8, HeadFacts
    <2> QED
      BY <1>1, <1>5, <1>6, <1>9, <2>1 DEF Apart
  <1>13. OneEach(y)
    <2>1. c # Root
      BY <1>10, HeadFacts
    <2>2. \A q \in InUse(x) : Entry(x, q).cluster = 0 \/ Entry(x, q).cluster # c
      BY <1>10, HeadFacts
    <2> QED
      BY <1>1, <1>3, <1>4, <2>1, <2>2 DEF OneEach
  <1>14. Rooted(y)
    <2> SUFFICES ASSUME NEW q \in InUse(y)
                 PROVE  /\ \E b \in DirHeads(y) : q[1] \in On(y, b) /\ (Entry(y, q).kind = "dir" => b = Root)
                        /\ Entry(y, q).kind = "dir" => Entry(y, q).cluster # 0
      BY DEF Rooted
    <2>1. CASE q = p
      BY <1>4, <1>5, <1>7, <2>1
    <2>2. CASE q # p
      <3>1. q \in InUse(x) /\ Entry(y, q) = Entry(x, q)
        BY <1>3, <1>4, <2>2
      <3> QED
        BY <1>1, <1>5, <1>7, <3>1 DEF Rooted
    <2> QED
      BY <2>1, <2>2
  <1>15. \A b, n : Full(x, b, n) => Full(y, b, n)
    BY <1>5 DEF Full
  <1>16. Filled(y)
    <2>1. Full(x, c, 0)
      <3>1. Len(Trail(x, c)) \in Nat
        BY <1>1, DiskFacts
      <3> QED
        BY <3>1 DEF Full
    <2>2. \A q \in InUse(x) : Entry(x, q).kind = "file" => Full(y, Entry(x, q).cluster, Entry(x, q).size)
      BY <1>1, <1>15 DEF Filled
    <2> QED
      BY <1>3, <1>4, <1>15, <2>1, <2>2 DEF Filled
  <1>17. \A b : Longer(x, y, b)
    <2> SUFFICES ASSUME NEW b PROVE Longer(x, y, b)
      OBVIOUS
    <2>1. Len(Trail(x, b)) \in Nat
      BY <1>1, DiskFacts
    <2> QED
      BY <1>5, <2>1 DEF Longer
  <1>18. ASSUME NEW q, q = p /\ p \in InUse(x) => Entry(x, p).cluster = 0 PROVE Keeps(x, y, q)
    <2> SUFFICES ASSUME q \in InUse(x), Entry(x, q).kind = "file"
                 PROVE  /\ q \in InUse(y) /\ Entry(y, q).kind = "file"
                        /\ Entry(x, q).cluster # 0 => /\ Entry(y, q).cluster = Entry(x, q).cluster
                                                      /\ Longer(x, y, Entry(x, q).cluster)
      BY DEF Keeps
    <2> QED
      BY <1>3, <1>4, <1>17, <1>18
  <1>19. ASSUME p \in InUse(x) => Entry(x, p).cluster = 0
         PROVE  Used(x) \cup On(x, c) \subseteq Used(y)
    <2>1. ASSUME NEW b \in Heads(x) PROVE b \in Heads(y)
      <3>1. CASE b = Root
        BY <3>1 DEF Heads
      <3>2. CASE b # Root
        <4>1. PICK q \in InUse(x) : Entry(x, q).cluster = b
          BY <3>2 DEF Heads
        <4>2. b # 0
          BY ClusterFacts DEF Heads
        <4>3. q # p
          BY <1>19, <4>1, <4>2
        <4>4. q \in InUse(y) /\ Entry(y, q).cluster = b
          BY <1>3, <1>4, <4>1, <4>3
        <4> QED
          BY <4>4 DEF Heads
      <3> QED
        BY <3>1, <3>2
    <2>2. c # 0 => c \in Heads(y)
      BY <1>2, <1>3, <1>4 DEF Heads
    <2>3. c = 0 => On(x, c) = {}
      BY <1>1, DiskFacts
    <2> HIDE DEF c
    <2> QED
      BY <1>5, <2>1, <2>2, <2>3 DEF Used
  <1> QED
    BY <1>3, <1>5, <1>6, <1>7, <1>11, <1>12, <1>13, <1>14, <1>16, <1>18, <1>19 DEF Sound

LEMMA SoundPartly ==
  ASSUME NEW x, Sound(x), NEW E, NEW M
  PROVE  /\ Partly(x, E, M)
         /\ \A p \in InUse(x) : Reached(x, p)
  <1>1. x \in Disks /\ Ending(x) /\ Apart(x) /\ OneEach(x) /\ Rooted(x) /\ Filled(x)
    BY DEF Sound
  <1>2. On(x, 0) = {}
    BY <1>1, DiskFacts
  <1>3. \A p \in InUse(x) : Entry(x, p).cluster # 0 => Entry(x, p).cluster \in Heads(x)
    BY HeadFacts
  <1>4. Path(x.fat, Trail(x, Root))
    BY <1>1, HeadFacts DEF Ending
  <1>5. \A p \in InUse(x) : Entry(x, p).cluster # 0 => Path(x.fat, Trail(x, Entry(x, p).cluster))
    BY <1>1, <1>3 DEF Ending
  <1>6. \A p \in InUse(x) : On(x, Entry(x, p).cluster) \cap On(x, Root) = {}
    <2> SUFFICES ASSUME NEW p \in InUse(x), Entry(x, p).cluster # 0
                 PROVE  On(x, Entry(x, p).cluster) \cap On(x, Root) = {}
      BY <1>2
    <2> QED
      BY <1>1, <1>3, HeadFacts DEF Apart, OneEach
  <1>7. \A p, q \in InUse(x) : p = q \/ On(x, Entry(x, p).cluster) \cap On(x, Entry(x, q).cluster) = {}
    <2> SUFFICES ASSUME NEW p \in InUse(x), NEW q \in InUse(x), p # q,
                        Entry(x, p).cluster # 0, Entry(x, q).cluster # 0
                 PROVE  On(x, Entry(x, p).cluster) \cap On(x, Entry(x, q).cluster) = {}
      BY <1>2
    <2>1. Entry(x, p).cluster # Entry(x, q).cluster
      BY <1>1 DEF OneEach
    <2> QED
      BY <1>1, <1>3, <2>1 DEF Apart
  <1>8. ASSUME NEW p \in InUse(x) PROVE Reached(x, p)
    <2>1. PICK d \in DirHeads(x) : p[1] \in On(x, d)
      BY <1>1 DEF Rooted
    <2>2. CASE d = Root
      BY <2>1, <2>2 DEF Reached
    <2>3. CASE d # Root
      <3>1. PICK q \in InUse(x) : Entry(x, q).kind = "dir" /\ Entry(x, q).cluster = d
        BY <2>3 DEF DirHeads
      <3>2. q[1] \in On(x, Root)
        BY <1>1, <3>1 DEF Rooted
      <3> QED
        BY <2>1, <3>1, <3>2 DEF Reached
    <2> QED
      BY <2>2, <2>3
  <1>9. \A p \in InUse(x) : Entry(x, p).kind = "file" => Full(x, Entry(x, p).cluster, Entry(x, p).size)
    BY <1>1 DEF Filled
  <1> QED
    BY <1>1, <1>4, <1>5, <1>6, <1>7, <1>8, <1>9 DEF Partly

\* The two entries of a file or directory that is being moved.
LEMMA Twice ==
  ASSUME NEW x, NEW y \in Disks, Sound(x), NEW p \in InUse(x), NEW q \in Places \ InUse(x), NEW e,
         y.fat = x.fat, y.written = x.written,
         e.kind = Entry(x, p).kind, e.cluster = Entry(x, p).cluster, e.size = Entry(x, p).size,
         \A r \in Places : Entry(y, r) = IF r = q THEN e ELSE Entry(x, r)
  PROVE  Partly(y, {}, {p, q}) /\ Reached(y, p)
  <1>1. x \in Disks /\ Partly(x, {}, {p, q}) /\ Reached(x, p)
    BY SoundPartly DEF Sound
  <1>2. \A b : Trail(y, b) = Trail(x, b) /\ On(y, b) = On(x, b)
    BY DEF Trail, On
  <1>3. \A r \in InUse(x) : r \in Places
    BY <1>1, DiskFacts
  <1>4. InUse(y) = InUse(x) \cup {q} /\ \A r \in InUse(x) : Entry(y, r) = Entry(x, r)
    BY <1>3 DEF InUse
  <1>5. Entry(y, q) = e
    OBVIOUS
  <1>6. \A b, n : Full(x, b, n) => Full(y, b, n)
    BY <1>2 DEF Full
  <1>7. \A r \in InUse(x) :
          /\ Entry(x, r).cluster # 0 => Path(x.fat, Trail(x, Entry(x, r).cluster))
          /\ On(x, Entry(x, r).cluster) \cap On(x, Root) = {}
          /\ Entry(x, r).kind = "file" => Full(x, Entry(x, r).cluster, Entry(x, r).size)
          /\ \A s \in InUse(x) : s = r \/ On(x, Entry(x, r).cluster) \cap On(x, Entry(x, s).cluster) = {}
    BY SoundPartly DEF Partly
  <1>8. Path(y.fat, Trail(y, Root))
    BY <1>1, <1>2 DEF Partly
  <1>9. ASSUME NEW r \in InUse(y)
        PROVE  /\ Entry(y, r).cluster # 0 => Path(y.fat, Trail(y, Entry(y, r).cluster))
               /\ On(y, Entry(y, r).cluster) \cap On(y, Root) = {}
               /\ Entry(y, r).kind = "file" => Full(y, Entry(y, r).cluster, Entry(y, r).size)
    <2>1. CASE r = q
      BY <1>2, <1>5, <1>6, <1>7, <2>1
    <2>2. CASE r # q
      <3>1. r \in InUse(x) /\ Entry(y, r) = Entry(x, r)
        BY <1>4, <2>2
      <3> QED
        BY <1>2, <1>6, <1>7, <3>1
    <2> QED
      BY <2>1, <2>2
  <1>10. ASSUME NEW r \in InUse(y), NEW s \in InUse(y), r # s, ~({r, s} \subseteq {p, q})
         PROVE  On(y, Entry(y, r).cluster) \cap On(y, Entry(y, s).cluster) = {}
    <2>1. CASE r = q
      <3>1. s \in InUse(x) /\ s # p /\ Entry(y, s) = Entry(x, s)
        BY <1>4, <1>10, <2>1
      <3> QED
        BY <1>2, <1>5, <1>7, <2>1, <3>1
    <2>2. CASE s = q
      <3>1. r \in InUse(x) /\ r # p /\ Entry(y, r) = Entry(x, r)
        BY <1>4, <1>10, <2>2
      <3> QED
        BY <1>2, <1>5, <1>7, <2>2, <3>1
    <2>3. CASE r # q /\ s # q
      BY <1>2, <1>4, <1>7, <1>10, <2>3
    <2> QED
      BY <2>1, <2>2, <2>3
  <1>11. Reached(y, p)
    BY <1>1, <1>2, <1>4 DEF Reached
  <1> QED
    BY <1>8, <1>9, <1>10, <1>11 DEF Partly

\* An entry has moved to another slot.
LEMMA Moved ==
  ASSUME NEW x, NEW y \in Disks, Sound(x), NEW p \in InUse(x), NEW q \in Places \ InUse(x), NEW e,
         y.fat = x.fat, y.written = x.written,
         e.kind = Entry(x, p).kind, e.cluster = Entry(x, p).cluster, e.size = Entry(x, p).size,
         \A r \in Places : Entry(y, r) = IF r = q THEN e ELSE IF r = p THEN Unused ELSE Entry(x, r),
         NEW d \in DirHeads(x), q[1] \in On(x, d), e.kind = "dir" => d = Root
  PROVE  Sound(y) /\ Used(y) = Used(x) /\ \A r : r # p => Keeps(x, y, r)
  <1>1. x \in Disks /\ Ending(x) /\ Apart(x) /\ OneEach(x) /\ Rooted(x) /\ Filled(x)
    BY DEF Sound
  <1>2. \A b : Trail(y, b) = Trail(x, b) /\ On(y, b) = On(x, b)
    BY DEF Trail, On
  <1>3. (\A r \in InUse(x) : r \in Places) /\ p # q
    BY <1>1, DiskFacts
  <1>4. Unused.kind \notin {"file", "dir"}
    BY DEF Unused, Slot
  <1>5. /\ InUse(y) = (InUse(x) \ {p}) \cup {q} /\ Entry(y, q) = e
        /\ \A r \in InUse(x) \ {p} : Entry(y, r) = Entry(x, r)
    <2>1. Entry(y, q) = e /\ Entry(y, p) = Unused
      BY <1>3
    <2>2. \A r \in InUse(x) \ {p} : Entry(y, r) = Entry(x, r)
      BY <1>3
    <2>3. ASSUME NEW r \in Places PROVE r \in InUse(y) <=> r \in (InUse(x) \ {p}) \cup {q}
      <3>1. CASE r = q
        BY <2>1, <3>1 DEF InUse
      <3>2. CASE r = p
        BY <1>3, <1>4, <2>1, <3>2 DEF InUse
      <3>3. CASE r # q /\ r # p
        BY <3>3 DEF InUse
      <3> QED
        BY <3>1, <3>2, <3>3
    <2> QED
      BY <1>3, <2>1, <2>2, <2>3 DEF InUse
  <1> DEFINE was(r) == IF r = q THEN p ELSE r
  <1>6. \A r \in InUse(y) : /\ was(r) \in InUse(x)
                            /\ Entry(y, r).kind = Entry(x, was(r)).kind
                            /\ Entry(y, r).cluster = Entry(x, was(r)).cluster
                            /\ Entry(y, r).size = Entry(x, was(r)).size
    BY <1>5
  <1>7. \A r, s \in InUse(y) : was(r) = was(s) => r = s
    BY <1>3, <1>5
  <1>8. \A s \in InUse(x) : \E r \in InUse(y) : was(r) = s
    <2> SUFFICES ASSUME NEW s \in InUse(x) PROVE \E r \in InUse(y) : was(r) = s
      OBVIOUS
    <2>1. CASE s = p
      BY <1>5, <2>1
    <2>2. CASE s # p
      <3>1. s \in InUse(y) /\ s # q
        BY <1>5, <2>2
      <3> QED
        BY <3>1
    <2> QED
      BY <2>1, <2>2
  <1>9. \A r \in InUse(y) \ {q} : was(r) = r
    OBVIOUS
  <1>10. was(q) = p
    OBVIOUS
  <1> HIDE DEF was
  <1>11. Heads(y) = Heads(x) /\ DirHeads(y) = DirHeads(x)
    BY <1>6, <1>8 DEF Heads, DirHeads
  <1>12. Used(y) = Used(x)
    BY <1>2, <1>11 DEF Used
  <1>13. Ending(y) /\ Apart(y)
    BY <1>1, <1>2, <1>11 DEF Ending, Apart
  <1>14. OneEach(y)
    BY <1>1, <1>6, <1>7 DEF OneEach
  <1>15. Rooted(y)
    <2> SUFFICES ASSUME NEW r \in InUse(y)
                 PROVE  /\ \E b \in DirHeads(x) : r[1] \in On(x, b) /\ (Entry(y, r).kind = "dir" => b = Root)
                        /\ Entry(y, r).kind = "dir" => Entry(y, r).cluster # 0
      BY <1>2, <1>11 DEF Rooted
    <2>1. Entry(y, r).kind = "dir" => Entry(y, r).cluster # 0
      BY <1>1, <1>6 DEF Rooted
    <2>2. CASE r = q
      BY <1>5, <2>1, <2>2
    <2>3. CASE r # q
      <3>1. r \in InUse(x) /\ Entry(y, r) = Entry(x, r)
        BY <1>5, <2>3
      <3> QED
        BY <1>1, <3>1 DEF Rooted
    <2> QED
      BY <2>2, <2>3
  <1>16. \A b, n : Full(x, b, n) => Full(y, b, n)
    BY <1>2 DEF Full
  <1>17. Filled(y)
    BY <1>1, <1>6, <1>16 DEF Filled
  <1>18. \A b : Longer(x, y, b)
    <2> SUFFICES ASSUME NEW b PROVE Longer(x, y, b)
      OBVIOUS
    <2>1. Len(Trail(x, b)) \in Nat
      BY <1>1, DiskFacts
    <2> QED
      BY <1>2, <2>1 DEF Longer
  <1>19. \A r : r # p => Keeps(x, y, r)
    BY <1>5, <1>18 DEF Keeps
  <1> QED
    BY <1>12, <1>13, <1>14, <1>15, <1>17, <1>19 DEF Sound

-----------------------------------------------------------------------------
(* Erasing                                                                  *)

\* The clusters that entries have.
Owned(x, E) == UNION {On(x, Entry(x, p).cluster) : p \in E}

\* y is x after the clusters D were freed and the entries G erased.
Cleared(x, y, D, G) ==
  /\ \A c \in Clusters : y.fat[c] = IF c \in D THEN Free ELSE x.fat[c]
  /\ \A p \in Places : Entry(y, p) = IF p[1] \in D \/ p \in G THEN Unused ELSE Entry(x, p)
  /\ y.written = x.written \ D
  /\ y.open = x.open

\* What is left: the chains of the root and of all entries but E.
Spared(x, y, E, D, G) ==
  /\ InUse(y) = {p \in InUse(x) \ G : p[1] \notin D}
  /\ \A p \in InUse(y) : Entry(y, p) = Entry(x, p)
  /\ \A p \in InUse(x) : On(y, Entry(x, p).cluster) \subseteq On(x, Entry(x, p).cluster)
  /\ \A c \in {Root} \cup {Entry(x, p).cluster : p \in InUse(x) \ E} :
       /\ Trail(y, c) = Trail(x, c) /\ On(y, c) = On(x, c)
       /\ Longer(x, y, c)
       /\ c # 0 => Path(y.fat, Trail(y, c))

LEMMA ClearedFacts ==
  ASSUME NEW x, NEW y \in Disks, Sound(x), NEW E \in SUBSET InUse(x), NEW G \in SUBSET E,
         NEW D \in SUBSET Owned(x, E), Cleared(x, y, D, G)
  PROVE  Spared(x, y, E, D, G)
  <1>1. x \in Disks
    BY DEF Sound
  <1>2. Unused.kind \notin {"file", "dir"}
    BY DEF Unused, Slot
  <1>3. /\ InUse(y) = {p \in InUse(x) \ G : p[1] \notin D}
        /\ \A p \in InUse(y) : Entry(y, p) = Entry(x, p)
    <2>1. ASSUME NEW p \in Places
          PROVE  /\ p \in InUse(y) <=> p \in InUse(x) /\ p \notin G /\ p[1] \notin D
                 /\ p \in InUse(y) => Entry(y, p) = Entry(x, p)
      <3>1. CASE p[1] \in D \/ p \in G
        <4>1. Entry(y, p) = Unused
          BY <3>1 DEF Cleared
        <4> QED
          BY <1>2, <3>1, <4>1 DEF InUse
      <3>2. CASE ~(p[1] \in D \/ p \in G)
        <4>1. Entry(y, p) = Entry(x, p)
          BY <3>2 DEF Cleared
        <4> QED
          BY <3>2, <4>1 DEF InUse
      <3> QED
        BY <3>1, <3>2
    <2> QED
      BY <1>1, <2>1, DiskFacts
  <1>4. ASSUME NEW p \in InUse(x) PROVE On(y, Entry(x, p).cluster) \subseteq On(x, Entry(x, p).cluster)
    <2>1. CASE Entry(x, p).cluster = 0
      BY <2>1, DiskFacts
    <2>2. CASE Entry(x, p).cluster # 0
      <3> DEFINE c == Entry(x, p).cluster
                 S == On(x, c)
      <3>1. c \in Heads(x) /\ c \in S /\ S \subseteq Clusters
        BY <1>1, <2>2, HeadFacts, DiskFacts
      <3>2. \A d \in S : x.fat[d] \in S \/ x.fat[d] = Eof
        BY <3>1, HeadFacts
      <3>3. \A d \in S \cap Clusters : y.fat[d] \in S \/ y.fat[d] \notin Clusters
        BY <3>2, ClusterFacts DEF Cleared
      <3>4. y.fat \in Tables
        BY DiskFacts
      <3> HIDE DEF c, S
      <3>5. Range(Follow(y.fat, c)) \subseteq S
        BY <3>1, <3>3, <3>4, FollowInside
      <3> QED
        BY <3>5 DEF c, S, On, Trail
    <2> QED
      BY <2>1, <2>2
  <1>5. ASSUME NEW c \in {Root} \cup {Entry(x, p).cluster : p \in InUse(x) \ E}
        PROVE  /\ Trail(y, c) = Trail(x, c) /\ On(y, c) = On(x, c)
               /\ Longer(x, y, c)
               /\ c # 0 => Path(y.fat, Trail(y, c))
    <2>1. CASE c = 0
      <3>1. Trail(y, c) = <<>> /\ Trail(x, c) = <<>>
        BY <1>1, <2>1, DiskFacts
      <3> QED
        BY <2>1, <3>1 DEF On, Longer
    <2>2. CASE c # 0
      <3>1. c \in Heads(x)
        BY <2>2, HeadFacts
      <3>2. ASSUME NEW p \in E PROVE On(x, Entry(x, p).cluster) \cap On(x, c) = {}
        <4>1. CASE c = Root
          BY <4>1, SoundPartly DEF Partly
        <4>2. CASE c # Root
          <5>1. PICK q \in InUse(x) \ E : Entry(x, q).cluster = c
            BY <4>2
          <5>2. p \in InUse(x) /\ p # q
            OBVIOUS
          <5>3. Partly(x, {}, {})
            BY SoundPartly
          <5> QED
            BY <5>1, <5>2, <5>3 DEF Partly
        <4> QED
          BY <4>1, <4>2
      <3>3. On(x, c) \cap D = {}
        BY <3>2 DEF Owned
      <3>4. \A d \in On(x, c) : d \in Clusters /\ d \notin D
        BY <1>1, <3>3, DiskFacts
      <3>5. \A d \in On(x, c) : y.fat[d] = x.fat[d]
        BY <3>4 DEF Cleared
      <3>6. Trail(y, c) = Trail(x, c) /\ On(y, c) = On(x, c) /\ Path(y.fat, Trail(y, c))
        BY <3>1, <3>5, SameTrail
      <3>7. Longer(x, y, c)
        <4>1. Trail(x, c) \in Seq(Clusters)
          BY <1>1, DiskFacts
        <4>2. \A k \in 1..Len(Trail(x, c)) : Trail(x, c)[k] \in On(x, c)
          BY <4>1 DEF On, Range
        <4>3. \A k \in 1..Len(Trail(x, c)) : Trail(x, c)[k] \in x.written => Trail(x, c)[k] \in y.written
          BY <3>4, <4>2 DEF Cleared
        <4> QED
          BY <3>6, <4>1, <4>3 DEF Longer
      <3> QED
        BY <3>6, <3>7
    <2> QED
      BY <2>1, <2>2
  <1> QED
    BY <1>3, <1>4, <1>5 DEF Spared

LEMMA FullSize ==
  ASSUME NEW x, Sound(x), NEW y \in Disks, NEW p \in InUse(x), Entry(x, p).kind = "file",
         Longer(x, y, Entry(x, p).cluster)
  PROVE  Full(y, Entry(x, p).cluster, Entry(x, p).size)
  <1>1. x \in Disks /\ Full(x, Entry(x, p).cluster, Entry(x, p).size)
    BY DEF Sound, Filled
  <1>2. Entry(x, p) \in Entries
    BY <1>1, DiskFacts
  <1>3. Entry(x, p).size \in Nat
    BY <1>2, FatAssumption DEF Entries
  <1> QED
    BY <1>1, <1>3, LongerFull

\* In the middle of erasing E.
LEMMA ClearedPartly ==
  ASSUME NEW x, NEW y \in Disks, Sound(x), NEW E \in SUBSET InUse(x), NEW G \in SUBSET E,
         NEW D \in SUBSET Owned(x, E), Cleared(x, y, D, G)
  PROVE  Partly(y, E, {})
  <1>s. Spared(x, y, E, D, G)
    BY ClearedFacts
  <1>1. InUse(y) \subseteq InUse(x) /\ \A p \in InUse(y) : Entry(y, p) = Entry(x, p)
    BY <1>s DEF Spared
  <1>2. \A p \in InUse(x) : On(y, Entry(x, p).cluster) \subseteq On(x, Entry(x, p).cluster)
    BY <1>s DEF Spared
  <1> DEFINE H == {Root} \cup {Entry(x, p).cluster : p \in InUse(x) \ E}
  <1>a. \A c \in H : /\ Trail(y, c) = Trail(x, c) /\ On(y, c) = On(x, c) /\ Longer(x, y, c)
                     /\ c # 0 => Path(y.fat, Trail(y, c))
    BY <1>s DEF Spared
  <1>3. Trail(y, Root) = Trail(x, Root) /\ On(y, Root) = On(x, Root) /\ Path(y.fat, Trail(y, Root))
    BY <1>a, ClusterFacts
  <1>4. \A p \in InUse(x) \ E : /\ Longer(x, y, Entry(x, p).cluster)
                                /\ Entry(x, p).cluster # 0 => Path(y.fat, Trail(y, Entry(x, p).cluster))
    BY <1>a
  <1>5. Partly(x, {}, {})
    BY SoundPartly
  <1>6. \A p \in InUse(y) : On(y, Entry(y, p).cluster) \cap On(y, Root) = {}
    BY <1>1, <1>2, <1>3, <1>5 DEF Partly
  <1>7. ASSUME NEW p \in InUse(y), NEW q \in InUse(y), p # q
        PROVE  On(y, Entry(y, p).cluster) \cap On(y, Entry(y, q).cluster) = {}
    <2>1. On(x, Entry(x, p).cluster) \cap On(x, Entry(x, q).cluster) = {}
      BY <1>1, <1>5, <1>7 DEF Partly
    <2>2. /\ On(y, Entry(y, p).cluster) \subseteq On(x, Entry(x, p).cluster)
          /\ On(y, Entry(y, q).cluster) \subseteq On(x, Entry(x, q).cluster)
      BY <1>1, <1>2
    <2> QED
      BY <2>1, <2>2
  <1>8. ASSUME NEW p \in InUse(y) \ E, Entry(y, p).kind = "file"
        PROVE  Full(y, Entry(y, p).cluster, Entry(y, p).size)
    BY <1>1, <1>4, <1>8, FullSize
  <1> QED
    BY <1>1, <1>3, <1>4, <1>6, <1>7, <1>8 DEF Partly

\* All of E is erased, and with a directory all that is in it.
LEMMA ClearedSound ==
  ASSUME NEW x, NEW y \in Disks, Sound(x), NEW E \in SUBSET InUse(x), Cleared(x, y, Owned(x, E), E),
         \A p \in InUse(x) : p[1] \in Owned(x, E) => p \in E
  PROVE  Sound(y) /\ Lost(y) \subseteq Lost(x) /\ \A p : p \notin E => Keeps(x, y, p)
  <1>1. x \in Disks /\ Ending(x) /\ Apart(x) /\ OneEach(x) /\ Rooted(x) /\ Filled(x)
    BY DEF Sound
  <1>s. Spared(x, y, E, Owned(x, E), E)
    <2>1. \A D, G : D = Owned(x, E) /\ G = E /\ Cleared(x, y, D, G) => Spared(x, y, E, D, G)
      <3> SUFFICES ASSUME NEW D, NEW G, D = Owned(x, E), G = E, Cleared(x, y, D, G)
                   PROVE  Spared(x, y, E, D, G)
        OBVIOUS
      <3>1. D \in SUBSET Owned(x, E) /\ G \in SUBSET E
        OBVIOUS
      <3> QED
        BY <3>1, ClearedFacts
    <2> QED
      BY <2>1
  <1>2. InUse(y) = InUse(x) \ E /\ \A p \in InUse(y) : Entry(y, p) = Entry(x, p)
    <2>1. InUse(y) = {p \in InUse(x) \ E : p[1] \notin Owned(x, E)} /\ \A p \in InUse(y) : Entry(y, p) = Entry(x, p)
      BY <1>s DEF Spared
    <2> QED
      BY <2>1
  <1> DEFINE H == {Root} \cup {Entry(x, p).cluster : p \in InUse(x) \ E}
  <1>3. \A c \in H : /\ Trail(y, c) = Trail(x, c) /\ On(y, c) = On(x, c) /\ Longer(x, y, c)
                     /\ c # 0 => Path(y.fat, Trail(y, c))
    BY <1>s DEF Spared
  <1>4. Heads(y) = H \ {0} /\ Heads(y) \subseteq Heads(x)
    <2>1. H \subseteq Clusters \cup {0}
      <3>1. \A p \in InUse(x) : Entry(x, p).cluster \in Clusters \cup {0}
        BY <1>1, DiskFacts DEF Entries
      <3> QED
        BY <3>1, ClusterFacts
    <2>2. Heads(y) = H \ {0}
      BY <1>2, <2>1, ClusterFacts DEF Heads
    <2> QED
      BY <1>2, <2>2, HeadFacts DEF Heads
  <1> HIDE DEF H
  <1>5. Ending(y)
    BY <1>3, <1>4 DEF Ending
  <1>6. Apart(y)
    BY <1>1, <1>3, <1>4 DEF Apart
  <1>7. OneEach(y)
    BY <1>1, <1>2 DEF OneEach
  <1>8. Rooted(y)
    <2> SUFFICES ASSUME NEW p \in InUse(x) \ E
                 PROVE  /\ \E d \in DirHeads(y) : p[1] \in On(y, d) /\ (Entry(x, p).kind = "dir" => d = Root)
                        /\ Entry(x, p).kind = "dir" => Entry(x, p).cluster # 0
      BY <1>2 DEF Rooted
    <2>1. PICK d \in DirHeads(x) : p[1] \in On(x, d) /\ (Entry(x, p).kind = "dir" => d = Root)
      BY <1>1 DEF Rooted
    <2>2. d \in DirHeads(y)
      <3>1. CASE d = Root
        BY <3>1, ClusterFacts DEF DirHeads
      <3>2. CASE d # Root
        <4>1. PICK q \in InUse(x) : Entry(x, q).kind = "dir" /\ Entry(x, q).cluster = d
          BY <3>2 DEF DirHeads
        <4>2. q \notin E
          BY <2>1, <4>1 DEF Owned
        <4> QED
          BY <1>2, <4>1, <4>2 DEF DirHeads
      <3> QED
        BY <3>1, <3>2
    <2>3. d \in H
      BY <1>4, <2>2 DEF Heads, DirHeads
    <2> QED
      BY <1>1, <1>3, <2>1, <2>2, <2>3 DEF Rooted
  <1>9. \A p \in InUse(x) \ E : Longer(x, y, Entry(x, p).cluster)
    BY <1>3 DEF H
  <1>10. Filled(y)
    <2> SUFFICES ASSUME NEW p \in InUse(x) \ E, Entry(x, p).kind = "file"
                 PROVE  Full(y, Entry(x, p).cluster, Entry(x, p).size)
      BY <1>2 DEF Filled
    <2> QED
      BY <1>9, FullSize
  <1>11. ASSUME NEW c \in Lost(y) PROVE c \in Lost(x)
    <2>1. c \in Clusters /\ y.fat[c] # Free /\ c \notin Used(y)
      BY <1>11 DEF Lost
    <2>2. c \notin Owned(x, E) /\ x.fat[c] # Free
      BY <2>1 DEF Cleared
    <2>3. ASSUME NEW h \in Heads(x), c \in On(x, h) PROVE FALSE
      <3>1. CASE h \in H
        <4>1. h \in Heads(y) /\ c \in On(y, h)
          BY <1>3, <1>4, <2>3, <3>1, ClusterFacts DEF Heads
        <4> QED
          BY <2>1, <4>1 DEF Used
      <3>2. CASE h \notin H
        <4>1. PICK p \in E : Entry(x, p).cluster = h
          BY <3>2 DEF H, Heads
        <4> QED
          BY <2>2, <2>3, <4>1 DEF Owned
      <3> QED
        BY <3>1, <3>2
    <2> QED
      BY <2>1, <2>2, <2>3 DEF Lost, Used
  <1>12. \A p : p \notin E => Keeps(x, y, p)
    BY <1>2, <1>9 DEF Keeps
  <1> QED
    BY <1>5, <1>6, <1>7, <1>8, <1>10, <1>11, <1>12 DEF Sound

-----------------------------------------------------------------------------
(* What each write does                                                     *)

Writes ==
  UNION {[k : {"fat"}, c : Clusters, v : Clusters \cup {Free, Eof}],
         [k : {"blank"}, c : Clusters, s : [1..SlotsPer -> Cell]],
         [k : {"data"}, c : Clusters],
         [k : {"entry"}, p : Places, e : Entries, ks : SUBSET Handles],
         [k : {"update"}, p : Places, f : Copies, ks : SUBSET Handles],
         [k : {"erase"}, p : Places],
         [k : {"none"}]}

LEMMA DiskRecord ==
  ASSUME NEW f \in Tables, NEW s \in [Clusters -> [1..SlotsPer -> Cell]], NEW w \in SUBSET Clusters,
         NEW o \in [Handles -> Copies \cup {Closed}]
  PROVE  [fat |-> f, slot |-> s, written |-> w, open |-> o] \in Disks
  BY DEF Disks, Tables

Changed(s, p, e) == [s EXCEPT ![p[1]][p[2]] = e]

LEMMA SlotChanged ==
  ASSUME NEW s \in [Clusters -> [1..SlotsPer -> Cell]], NEW p \in Places, NEW e \in Cell
  PROVE  /\ Changed(s, p, e) \in [Clusters -> [1..SlotsPer -> Cell]]
         /\ \A q \in Places : Changed(s, p, e)[q[1]][q[2]] = IF q = p THEN e ELSE s[q[1]][q[2]]
  <1> DEFINE t == Changed(s, p, e)
  <1>1. p[1] \in Clusters /\ p[2] \in 1..SlotsPer /\ p = <<p[1], p[2]>>
    BY DEF Places
  <1> DEFINE r == [s[p[1]] EXCEPT ![p[2]] = e]
  <1>2. r \in [1..SlotsPer -> Cell]
    BY <1>1
  <1>3. \A i \in 1..SlotsPer : r[i] = IF i = p[2] THEN e ELSE s[p[1]][i]
    BY <1>1
  <1>4. t = [s EXCEPT ![p[1]] = r]
    BY DEF Changed
  <1> HIDE DEF r, t
  <1>5. t \in [Clusters -> [1..SlotsPer -> Cell]] /\ \A c \in Clusters : t[c] = IF c = p[1] THEN r ELSE s[c]
    BY <1>1, <1>2, <1>4
  <1>6. ASSUME NEW q \in Places PROVE t[q[1]][q[2]] = IF q = p THEN e ELSE s[q[1]][q[2]]
    <2>1. q[1] \in Clusters /\ q[2] \in 1..SlotsPer /\ q = <<q[1], q[2]>>
      BY DEF Places
    <2>2. q = p <=> q[1] = p[1] /\ q[2] = p[2]
      BY <1>1, <2>1
    <2> QED
      BY <1>3, <1>5, <2>1, <2>2
  <1> QED
    BY <1>5, <1>6 DEF t

LEMMA ApplyFat ==
  ASSUME NEW x \in Disks, NEW c \in Clusters, NEW v \in Clusters \cup {Eof}, NEW y,
         y = Apply(SetFat(c, v), x)
  PROVE  /\ y \in Disks /\ y.fat = [x.fat EXCEPT ![c] = v]
         /\ y.slot = x.slot /\ y.written = x.written /\ y.open = x.open
  <1>1. v # Free
    BY ClusterFacts
  <1>2. y = [x EXCEPT !.fat[c] = v]
    BY <1>1 DEF Apply, SetFat
  <1>3. /\ y = [fat |-> y.fat, slot |-> y.slot, written |-> y.written, open |-> y.open]
        /\ y.fat = [x.fat EXCEPT ![c] = v] /\ y.slot = x.slot /\ y.written = x.written /\ y.open = x.open
    BY <1>2 DEF Disks
  <1>4. [x.fat EXCEPT ![c] = v] \in Tables
    BY DEF Disks, Tables
  <1>5. y \in Disks
    BY <1>3, <1>4 DEF Disks, Tables
  <1> QED
    BY <1>3, <1>5

LEMMA ApplyFree ==
  ASSUME NEW x \in Disks, NEW c \in Clusters, NEW y, y = Apply(SetFat(c, Free), x)
  PROVE  /\ y \in Disks /\ y.fat = [x.fat EXCEPT ![c] = Free]
         /\ \A p \in Places : Entry(y, p) = IF p[1] = c THEN Unused ELSE Entry(x, p)
         /\ y.written = x.written \ {c} /\ y.open = x.open
  <1>1. y = [x EXCEPT !.fat[c] = Free, !.slot[c] = NoSlots, !.written = @ \ {c}]
    BY DEF Apply, SetFat
  <1>2. NoSlots \in [1..SlotsPer -> Cell] /\ \A i \in 1..SlotsPer : NoSlots[i] = Unused
    BY DEF NoSlots, Cell
  <1> HIDE DEF NoSlots
  <1>4. /\ y.fat = [x.fat EXCEPT ![c] = Free] /\ y.slot = [x.slot EXCEPT ![c] = NoSlots]
        /\ y.written = x.written \ {c} /\ y.open = x.open
        /\ y = [fat |-> y.fat, slot |-> y.slot, written |-> y.written, open |-> y.open]
    BY <1>1 DEF Disks
  <1>6. /\ [x.fat EXCEPT ![c] = Free] \in Tables
        /\ [x.slot EXCEPT ![c] = NoSlots] \in [Clusters -> [1..SlotsPer -> Cell]]
    BY <1>2 DEF Disks, Tables
  <1>3. y \in Disks
    BY <1>4, <1>6 DEF Disks, Tables
  <1>5. \A p \in Places : Entry(y, p) = IF p[1] = c THEN Unused ELSE Entry(x, p)
    BY <1>2, <1>4 DEF Disks, Entry, Places
  <1> QED
    BY <1>3, <1>4, <1>5

LEMMA ApplyBlank ==
  ASSUME NEW x \in Disks, NEW c \in Clusters, NEW s \in [1..SlotsPer -> Cell], NEW y,
         y = Apply(Blank(c, s), x)
  PROVE  /\ y \in Disks /\ y.fat = x.fat /\ y.written = x.written /\ y.open = x.open
         /\ y.slot = [x.slot EXCEPT ![c] = s]
  <1>1. y = [x EXCEPT !.slot[c] = s]
    BY DEF Apply, Blank
  <1>2. y \in Disks
    BY <1>1 DEF Disks
  <1>3. y.fat = x.fat /\ y.written = x.written /\ y.open = x.open /\ y.slot = [x.slot EXCEPT ![c] = s]
    BY <1>1 DEF Disks
  <1> QED
    BY <1>2, <1>3 DEF Disks, Entry, Places

LEMMA ApplyData ==
  ASSUME NEW x \in Disks, NEW c \in Clusters, NEW y, y = Apply(Data(c), x)
  PROVE  /\ y \in Disks /\ y.fat = x.fat /\ y.slot = x.slot /\ y.open = x.open
         /\ y.written = x.written \cup {c}
  <1>1. y = [x EXCEPT !.written = @ \cup {c}]
    BY DEF Apply, Data
  <1> QED
    BY <1>1 DEF Disks

LEMMA ApplyPut ==
  ASSUME NEW x \in Disks, NEW p \in Places, NEW e \in Entries, NEW ks \in SUBSET Handles, NEW y,
         y = Apply(Put(p, e, ks), x)
  PROVE  /\ y \in Disks /\ y.fat = x.fat /\ y.written = x.written
         /\ \A q \in Places : Entry(y, q) = IF q = p THEN e ELSE Entry(x, q)
         /\ \A h \in Handles : y.open[h] = IF h \in ks THEN Copy(p, 0, 0) ELSE x.open[h]
  <1> DEFINE o == [h \in Handles |-> IF h \in ks THEN Copy(p, 0, 0) ELSE x.open[h]]
  <1>1. y = [x EXCEPT !.slot[p[1]][p[2]] = e, !.open = o]
    BY DEF Apply, Put
  <1>2. Copy(p, 0, 0) \in Copies
    BY FatAssumption DEF Copy, Copies
  <1>3. o \in [Handles -> Copies \cup {Closed}]
    BY <1>2 DEF Disks
  <1>4. \A h \in Handles : o[h] = IF h \in ks THEN Copy(p, 0, 0) ELSE x.open[h]
    OBVIOUS
  <1> HIDE DEF o
  <1>5. p[1] \in Clusters /\ p[2] \in 1..SlotsPer /\ p = <<p[1], p[2]>> /\ e \in Cell
    BY DEF Places, Cell
  <1>7. /\ y.fat = x.fat /\ y.written = x.written /\ y.open = o
        /\ y.slot = [x.slot EXCEPT ![p[1]][p[2]] = e]
        /\ y = [fat |-> y.fat, slot |-> y.slot, written |-> y.written, open |-> y.open]
    BY <1>1 DEF Disks
  <1>8. /\ y.slot \in [Clusters -> [1..SlotsPer -> Cell]]
        /\ \A q \in Places : Entry(y, q) = IF q = p THEN e ELSE Entry(x, q)
    <2>1. x.slot \in [Clusters -> [1..SlotsPer -> Cell]] /\ e \in Cell
      BY <1>5 DEF Disks
    <2>2. y.slot = Changed(x.slot, p, e)
      BY <1>7 DEF Changed
    <2>3. /\ Changed(x.slot, p, e) \in [Clusters -> [1..SlotsPer -> Cell]]
          /\ \A q \in Places : Changed(x.slot, p, e)[q[1]][q[2]] = IF q = p THEN e ELSE x.slot[q[1]][q[2]]
      BY <2>1, SlotChanged
    <2> QED
      BY <2>2, <2>3 DEF Entry
  <1>6. y \in Disks
    BY <1>3, <1>7, <1>8 DEF Disks
  <1> QED
    BY <1>4, <1>6, <1>7, <1>8

LEMMA ApplyErase ==
  ASSUME NEW x \in Disks, NEW p \in Places, NEW y, y = Apply(Erase(p), x)
  PROVE  /\ y \in Disks /\ y.fat = x.fat /\ y.written = x.written /\ y.open = x.open
         /\ \A q \in Places : Entry(y, q) = IF q = p THEN Unused ELSE Entry(x, q)
  <1>1. y = [x EXCEPT !.slot[p[1]][p[2]] = Unused]
    BY DEF Apply, Erase
  <1>5. p[1] \in Clusters /\ p[2] \in 1..SlotsPer /\ p = <<p[1], p[2]>> /\ Unused \in Cell
    BY DEF Places, Cell
  <1>7. /\ y.fat = x.fat /\ y.written = x.written /\ y.open = x.open
        /\ y.slot = [x.slot EXCEPT ![p[1]][p[2]] = Unused]
        /\ y = [fat |-> y.fat, slot |-> y.slot, written |-> y.written, open |-> y.open]
    BY <1>1 DEF Disks
  <1>8. /\ y.slot \in [Clusters -> [1..SlotsPer -> Cell]]
        /\ \A q \in Places : Entry(y, q) = IF q = p THEN Unused ELSE Entry(x, q)
    <2>1. x.slot \in [Clusters -> [1..SlotsPer -> Cell]] /\ Unused \in Cell
      BY <1>5 DEF Disks
    <2>2. y.slot = Changed(x.slot, p, Unused)
      BY <1>7 DEF Changed
    <2>3. /\ Changed(x.slot, p, Unused) \in [Clusters -> [1..SlotsPer -> Cell]]
          /\ \A q \in Places : Changed(x.slot, p, Unused)[q[1]][q[2]] = IF q = p THEN Unused ELSE x.slot[q[1]][q[2]]
      BY <2>1, SlotChanged
    <2> QED
      BY <2>2, <2>3 DEF Entry
  <1>6. y \in Disks
    BY <1>7, <1>8 DEF Disks
  <1> QED
    BY <1>6, <1>7, <1>8

Updated(e, f) ==
  IF e.kind = "file" THEN [e EXCEPT !.cluster = f.cluster, !.size = f.size] ELSE e

LEMMA ApplyUpdate ==
  ASSUME NEW x \in Disks, NEW p \in Places, NEW f \in Copies, NEW ks \in SUBSET Handles, NEW y,
         y = Apply(Update(p, f, ks), x)
  PROVE  /\ y \in Disks /\ y.fat = x.fat /\ y.written = x.written
         /\ \A q \in Places : Entry(y, q) = IF q = p THEN Updated(Entry(x, p), f) ELSE Entry(x, q)
         /\ \A h \in Handles : y.open[h] = IF h \in ks THEN f ELSE x.open[h]
  <1> DEFINE o == [h \in Handles |-> IF h \in ks THEN f ELSE x.open[h]]
             e == Updated(Entry(x, p), f)
  <1>5. p[1] \in Clusters /\ p[2] \in 1..SlotsPer /\ p = <<p[1], p[2]>>
    BY DEF Places
  <1>1. y = [x EXCEPT !.slot[p[1]][p[2]] = e, !.open = o]
    BY <1>5 DEF Apply, Update, Updated, Entry, Disks
  <1>2. e \in Cell
    <2>1. Entry(x, p) \in Cell
      BY DiskFacts
    <2>2. CASE Entry(x, p).kind = "file"
      <3>1. Entry(x, p) \in Entries
        BY <2>2, DiskFacts DEF InUse
      <3>2. [Entry(x, p) EXCEPT !.cluster = f.cluster, !.size = f.size] \in Entries
        BY <3>1 DEF Entries, Copies
      <3> QED
        BY <2>2, <3>2 DEF Cell, Updated
    <2> QED
      BY <2>1, <2>2 DEF Updated
  <1>3. o \in [Handles -> Copies \cup {Closed}]
    BY DEF Disks
  <1>4. \A h \in Handles : o[h] = IF h \in ks THEN f ELSE x.open[h]
    OBVIOUS
  <1>9. e = Updated(Entry(x, p), f)
    OBVIOUS
  <1> HIDE DEF o, e
  <1>7. /\ y.fat = x.fat /\ y.written = x.written /\ y.open = o
        /\ y.slot = [x.slot EXCEPT ![p[1]][p[2]] = e]
        /\ y = [fat |-> y.fat, slot |-> y.slot, written |-> y.written, open |-> y.open]
    BY <1>1 DEF Disks
  <1>8. /\ y.slot \in [Clusters -> [1..SlotsPer -> Cell]]
        /\ \A q \in Places : Entry(y, q) = IF q = p THEN e ELSE Entry(x, q)
    <2>1. x.slot \in [Clusters -> [1..SlotsPer -> Cell]] /\ e \in Cell
      BY <1>2 DEF Disks
    <2>2. y.slot = Changed(x.slot, p, e)
      BY <1>7 DEF Changed
    <2>3. /\ Changed(x.slot, p, e) \in [Clusters -> [1..SlotsPer -> Cell]]
          /\ \A q \in Places : Changed(x.slot, p, e)[q[1]][q[2]] = IF q = p THEN e ELSE x.slot[q[1]][q[2]]
      BY <2>1, SlotChanged
    <2> QED
      BY <2>2, <2>3 DEF Entry
  <1>6. y \in Disks
    BY <1>3, <1>7, <1>8 DEF Disks
  <1> QED
    BY <1>4, <1>6, <1>7, <1>8, <1>9

LEMMA ApplyTyped ==
  ASSUME NEW x \in Disks, NEW w \in Writes
  PROVE  Apply(w, x) \in Disks
  <1>1. CASE w \in [k : {"fat"}, c : Clusters, v : Clusters \cup {Free, Eof}]
    <2>1. w = SetFat(w.c, w.v) /\ w.c \in Clusters /\ w.v \in Clusters \cup {Free, Eof}
      BY <1>1 DEF SetFat
    <2>2. CASE w.v = Free
      BY <2>1, <2>2, ApplyFree
    <2>3. CASE w.v # Free
      <3>1. w.v \in Clusters \cup {Eof}
        BY <2>1, <2>3
      <3>2. \A c \in Clusters, v \in Clusters \cup {Eof} : Apply(SetFat(c, v), x) \in Disks
        BY ApplyFat
      <3> QED
        BY <2>1, <3>1, <3>2
    <2> QED
      BY <2>2, <2>3
  <1>2. CASE w \in [k : {"blank"}, c : Clusters, s : [1..SlotsPer -> Cell]]
    <2>1. w = Blank(w.c, w.s) /\ w.c \in Clusters /\ w.s \in [1..SlotsPer -> Cell]
      BY <1>2 DEF Blank
    <2> QED
      BY <2>1, ApplyBlank
  <1>3. CASE w \in [k : {"data"}, c : Clusters]
    <2>1. w = Data(w.c) /\ w.c \in Clusters
      BY <1>3 DEF Data
    <2> QED
      BY <2>1, ApplyData
  <1>4. CASE w \in [k : {"entry"}, p : Places, e : Entries, ks : SUBSET Handles]
    <2>1. w = Put(w.p, w.e, w.ks) /\ w.p \in Places /\ w.e \in Entries /\ w.ks \in SUBSET Handles
      BY <1>4 DEF Put
    <2> QED
      BY <2>1, ApplyPut
  <1>5. CASE w \in [k : {"update"}, p : Places, f : Copies, ks : SUBSET Handles]
    <2>1. w = Update(w.p, w.f, w.ks) /\ w.p \in Places /\ w.f \in Copies /\ w.ks \in SUBSET Handles
      BY <1>5 DEF Update
    <2>2. \A p \in Places, f \in Copies, ks \in SUBSET Handles : Apply(Update(p, f, ks), x) \in Disks
      <3> SUFFICES ASSUME NEW p \in Places, NEW f \in Copies, NEW ks \in SUBSET Handles
                   PROVE  Apply(Update(p, f, ks), x) \in Disks
        OBVIOUS
      <3> DEFINE y == Apply(Update(p, f, ks), x)
      <3>1. y = Apply(Update(p, f, ks), x)
        OBVIOUS
      <3> HIDE DEF y
      <3>2. y \in Disks
        BY <3>1, ApplyUpdate
      <3> QED
        BY <3>1, <3>2
    <2> QED
      BY <2>1, <2>2
  <1>6. CASE w \in [k : {"erase"}, p : Places]
    <2>1. w = Erase(w.p) /\ w.p \in Places
      BY <1>6 DEF Erase
    <2> QED
      BY <2>1, ApplyErase
  <1>7. CASE w \in [k : {"none"}]
    BY <1>7 DEF Apply
  <1> QED
    BY <1>1, <1>2, <1>3, <1>4, <1>5, <1>6, <1>7 DEF Writes

\* s is what there is after each number of writes of the plan.
Runs(s, plan, x) ==
  /\ s[0] = x
  /\ \A k \in 0..Len(plan) : s[k] \in Disks
  /\ \A k \in 1..Len(plan) : s[k] = Apply(plan[k], s[k-1])

LEMMA StatesRun ==
  ASSUME NEW plan \in Seq(Writes), NEW x \in Disks
  PROVE  Runs(States(plan, x), plan, x)
  <1> DEFINE n == Len(plan)
             R(f) == [k \in 0..n |-> IF k = 0 THEN x ELSE Apply(plan[k], f[k-1])]
             g == [z \in (1..n) \X Disks |-> Apply(plan[z[1]], z[2])]
  <1>1. n \in Nat /\ \A k \in 1..n : plan[k] \in Writes
    OBVIOUS
  <1>2. \A k \in 1..n, st \in Disks : Apply(plan[k], st) \in Disks
    BY <1>1, ApplyTyped
  <1>3. g \in [(1..n) \X Disks -> Disks]
    BY <1>2
  <1>4. \A k \in 1..n, st \in Disks : g[<<k, st>>] = Apply(plan[k], st)
    OBVIOUS
  <1> HIDE DEF n, g
  <1>5. PICK h : Recurs(h, n, Disks, x, g)
    BY <1>1, <1>3, Recursion, Zenon
  <1>6. h = R(h)
    <2>1. ASSUME NEW k \in 0..n PROVE h[k] = R(h)[k]
      <3>1. CASE k = 0
        BY <1>5, <3>1 DEF Recurs
      <3>2. CASE k # 0
        <4>1. k \in 1..n /\ k - 1 \in 0..n
          BY <1>1, <3>2
        <4>2. h[k-1] \in Disks /\ h[k] = g[<<k, h[k-1]>>]
          BY <1>5, <4>1 DEF Recurs
        <4> QED
          BY <1>4, <3>2, <4>1, <4>2
      <3> QED
        BY <3>1, <3>2
    <2>2. h = [k \in 0..n |-> h[k]]
      BY <1>5 DEF Recurs
    <2> QED
      BY <2>1, <2>2
  <1> DEFINE u == CHOOSE v : v = R(v)
  <1>7. States(plan, x) = u
    BY DEF States, n
  <1>8. u = R(u)
    <2> HIDE DEF R
    <2> QED
      BY <1>6, Zenon
  <1> HIDE DEF u
  <1>9. u[0] = x /\ \A k \in 1..n : u[k] = Apply(plan[k], u[k-1])
    <2>1. u[0] = x
      BY <1>1, <1>8
    <2>2. ASSUME NEW k \in 1..n PROVE u[k] = Apply(plan[k], u[k-1])
      <3>1. k \in 0..n /\ k # 0
        BY <1>1
      <3> QED
        BY <1>8, <3>1
    <2> QED
      BY <2>1, <2>2
  <1> HIDE DEF R
  <1> DEFINE P == {k \in 0..n : u[k] \in Disks}
  <1>10. 0 \in P
    BY <1>1, <1>9
  <1>11. ASSUME NEW k \in 1..n, k - 1 \in P PROVE k \in P
    BY <1>1, <1>2, <1>9, <1>11
  <1>12. \A k \in 0..n : k \in P
    <2> HIDE DEF P
    <2> QED
      BY <1>1, <1>10, <1>11, Induct
  <1> QED
    BY <1>7, <1>9, <1>12 DEF Runs, n

LEMMA RunsSame ==
  ASSUME NEW plan \in Seq(Writes), NEW x, NEW s, NEW r, Runs(s, plan, x), Runs(r, plan, x)
  PROVE  \A k \in 0..Len(plan) : s[k] = r[k]
  <1> DEFINE n == Len(plan)
             P == {k \in 0..n : s[k] = r[k]}
  <1>1. n \in Nat
    OBVIOUS
  <1>2. 0 \in P
    BY <1>1 DEF Runs
  <1>3. ASSUME NEW k \in 1..n, k - 1 \in P PROVE k \in P
    BY <1>1, <1>3 DEF Runs
  <1>4. \A k \in 0..n : k \in P
    <2> HIDE DEF P, n
    <2> QED
      BY <1>1, <1>2, <1>3, Induct
  <1> QED
    BY <1>4

\* One plan after another.
LEMMA StatesConcat ==
  ASSUME NEW v \in Seq(Writes), NEW w \in Seq(Writes), NEW x \in Disks
  PROVE  /\ v \o w \in Seq(Writes) /\ Len(v \o w) = Len(v) + Len(w)
         /\ \A k \in 0..Len(v) : States(v \o w, x)[k] = States(v, x)[k]
         /\ \A k \in 0..Len(w) : States(v \o w, x)[Len(v) + k] = States(w, States(v, x)[Len(v)])[k]
  <1> DEFINE s == States(v \o w, x)
             a == Len(v)
             b == Len(w)
             z == States(v, x)[a]
             t == [k \in 0..b |-> s[a + k]]
  <1>1. /\ v \o w \in Seq(Writes) /\ Len(v \o w) = a + b /\ a \in Nat /\ b \in Nat
        /\ \A k \in 1..a : (v \o w)[k] = v[k]
        /\ \A k \in 1..b : (v \o w)[a + k] = w[k]
    OBVIOUS
  <1>2. Runs(s, v \o w, x)
    BY <1>1, StatesRun
  <1> HIDE DEF s
  <1>3. Runs(s, v, x)
    <2>1. \A k \in 1..a : k \in 1..a + b
      BY <1>1
    <2>2. \A k \in 0..a : k \in 0..a + b
      BY <1>1
    <2> QED
      BY <1>1, <1>2, <2>1, <2>2 DEF Runs
  <1>4. Runs(States(v, x), v, x)
    BY StatesRun
  <1>5. \A k \in 0..a : s[k] = States(v, x)[k]
    BY <1>3, <1>4, RunsSame
  <1>6. s[a] = z /\ z \in Disks
    <2>1. a \in 0..a
      BY <1>1
    <2> QED
      BY <1>4, <1>5, <2>1 DEF Runs
  <1> HIDE DEF a, b, z
  <1>7. Runs(t, w, z)
    <2>1. t[0] = z
      BY <1>1, <1>6
    <2>2. ASSUME NEW k \in 0..b PROVE t[k] \in Disks
      <3>1. a + k \in 0..a + b
        BY <1>1
      <3> QED
        BY <1>1, <1>2, <3>1 DEF Runs
    <2>3. ASSUME NEW k \in 1..b PROVE t[k] = Apply(w[k], t[k-1])
      <3>1. /\ a + k \in 1..a + b /\ (a + k) - 1 = a + (k - 1)
            /\ k \in 0..b /\ k - 1 \in 0..b
        BY <1>1
      <3>2. s[a + k] = Apply((v \o w)[a + k], s[(a + k) - 1])
        BY <1>1, <1>2, <3>1 DEF Runs
      <3> QED
        BY <1>1, <3>1, <3>2
    <2> HIDE DEF t
    <2> QED
      BY <2>1, <2>2, <2>3 DEF Runs, b
  <1>8. Runs(States(w, z), w, z)
    BY <1>6, StatesRun
  <1>9. \A k \in 0..b : t[k] = States(w, z)[k]
    <2> HIDE DEF t
    <2> QED
      BY <1>7, <1>8, RunsSame DEF b
  <1>10. \A k \in 0..b : t[k] = s[a + k]
    OBVIOUS
  <1> HIDE DEF t
  <1> QED
    BY <1>1, <1>5, <1>9, <1>10 DEF s, a, b, z

\* Where the kth write of two plans comes from, and what there is before and after it.
InTwo(k, v, w, x) ==
  LET s == States(v \o w, x)
      r == States(v, x)
      t == States(w, r[Len(v)])
  IN \/ /\ k \in 1..Len(v) /\ (v \o w)[k] = v[k]
        /\ s[k] = r[k] /\ s[k-1] = r[k-1]
     \/ \E j \in 1..Len(w) :
          /\ k = Len(v) + j /\ (v \o w)[k] = w[j]
          /\ s[k] = t[j] /\ s[k-1] = t[j-1]

LEMMA TwoPlans ==
  ASSUME NEW v \in Seq(Writes), NEW w \in Seq(Writes), NEW x \in Disks
  PROVE  \A k \in 1..Len(v \o w) : InTwo(k, v, w, x)
  <1> DEFINE s == States(v \o w, x)
             r == States(v, x)
             t == States(w, r[Len(v)])
             u == v \o w
  <1>1. /\ Len(u) = Len(v) + Len(w) /\ Len(v) \in Nat /\ Len(w) \in Nat
        /\ \A k \in 1..Len(v) : u[k] = v[k]
        /\ \A k \in 1..Len(w) : u[Len(v) + k] = w[k]
    OBVIOUS
  <1>2. /\ \A k \in 0..Len(v) : s[k] = r[k]
        /\ \A k \in 0..Len(w) : s[Len(v) + k] = t[k]
    BY StatesConcat
  <1> SUFFICES ASSUME NEW k \in 1..Len(u) PROVE InTwo(k, v, w, x)
    OBVIOUS
  <1>3. (\/ k \in 1..Len(v) /\ u[k] = v[k] /\ s[k] = r[k] /\ s[k-1] = r[k-1]
         \/ \E j \in 1..Len(w) : k = Len(v) + j /\ u[k] = w[j] /\ s[k] = t[j] /\ s[k-1] = t[j-1])
         => InTwo(k, v, w, x)
    BY DEF InTwo
  <1> HIDE DEF s, r, t, u
  <1>4. CASE k \in 1..Len(v)
    <2>1. k \in 0..Len(v) /\ k - 1 \in 0..Len(v)
      BY <1>1, <1>4
    <2> QED
      BY <1>1, <1>2, <1>3, <1>4, <2>1
  <1>5. CASE k \notin 1..Len(v)
    <2> DEFINE j == k - Len(v)
    <2>1. /\ j \in 1..Len(w) /\ j \in 0..Len(w) /\ j - 1 \in 0..Len(w)
          /\ k = Len(v) + j /\ k - 1 = Len(v) + (j - 1)
      BY <1>1, <1>5
    <2> HIDE DEF j
    <2>2. u[k] = w[j] /\ s[k] = t[j] /\ s[k-1] = t[j-1]
      BY <1>1, <1>2, <2>1
    <2> QED
      BY <1>3, <2>1, <2>2
  <1> QED
    BY <1>4, <1>5

-----------------------------------------------------------------------------
(* Completed, cut short or given up                                         *)

LEMMA SameDisk ==
  ASSUME NEW x \in Disks, NEW y \in Disks, y.fat = x.fat, y.slot = x.slot, y.written = x.written
  PROVE  /\ Sound(x) => Sound(y)
         /\ Lost(y) = Lost(x)
         /\ InUse(y) = InUse(x) /\ DirHeads(y) = DirHeads(x) /\ Heads(y) = Heads(x)
         /\ \A c : Trail(y, c) = Trail(x, c) /\ On(y, c) = On(x, c)
         /\ \A p : Entry(y, p) = Entry(x, p) /\ (Reached(x, p) => Reached(y, p))
         /\ \A f : Remembers(x, f) => Remembers(y, f)
         /\ \A E, M : Partly(x, E, M) => Partly(y, E, M)
  <1>1. /\ InUse(y) = InUse(x) /\ \A p : Entry(y, p) = Entry(x, p)
        /\ \A c : Trail(y, c) = Trail(x, c) /\ On(y, c) = On(x, c)
    BY DEF InUse, Entry, Trail, On
  <1>2. Heads(y) = Heads(x) /\ DirHeads(y) = DirHeads(x)
    BY <1>1 DEF Heads, DirHeads
  <1>3. Used(y) = Used(x)
    BY <1>1, <1>2 DEF Used
  <1>4. \A c, n : Full(x, c, n) => Full(y, c, n)
    BY <1>1 DEF Full
  <1>5. ASSUME Sound(x) PROVE Sound(y)
    <2>1. Ending(y) /\ Apart(y)
      BY <1>1, <1>2, <1>5 DEF Sound, Ending, Apart
    <2>2. OneEach(y) /\ Rooted(y)
      BY <1>1, <1>2, <1>5 DEF Sound, OneEach, Rooted
    <2>3. Filled(y)
      BY <1>1, <1>4, <1>5 DEF Sound, Filled
    <2> QED
      BY <2>1, <2>2, <2>3 DEF Sound
  <1>6. \A f : Remembers(x, f) => Remembers(y, f)
    BY <1>1, <1>4 DEF Remembers
  <1>7. \A E, M : Partly(x, E, M) => Partly(y, E, M)
    BY <1>1, <1>4 DEF Partly
  <1>8. \A p : Reached(x, p) => Reached(y, p)
    BY <1>1 DEF Reached
  <1>9. Lost(y) = Lost(x)
    BY <1>3 DEF Lost
  <1> QED
    BY <1>1, <1>2, <1>5, <1>6, <1>7, <1>8, <1>9

\* What a restart finds.
LEMMA CrashedFacts ==
  ASSUME NEW x \in Disks
  PROVE  /\ Crashed(x) \in Disks /\ Opened(Crashed(x))
         /\ Sound(x) => Sound(Crashed(x))
         /\ Lost(Crashed(x)) = Lost(x)
         /\ \A p : Reached(x, p) => Reached(Crashed(x), p)
         /\ \A E, M : Partly(x, E, M) => Partly(Crashed(x), E, M)
  <1> DEFINE y == Crashed(x)
  <1>1. /\ y.fat = x.fat /\ y.slot = x.slot /\ y.written = x.written
        /\ y.open = [h \in Handles |-> Closed] /\ y \in Disks
    BY DEF Crashed, Disks
  <1> HIDE DEF y
  <1>2. Opened(y)
    BY <1>1 DEF Opened
  <1>3. /\ Sound(x) => Sound(y)
        /\ Lost(y) = Lost(x)
        /\ \A p : Reached(x, p) => Reached(y, p)
        /\ \A E, M : Partly(x, E, M) => Partly(y, E, M)
    BY <1>1, SameDisk
  <1> QED
    BY <1>1, <1>2, <1>3 DEF y

LEMMA BecomesDisk ==
  ASSUME NEW st \in Disks, Becomes(st)
  PROVE  Disk' = st
  BY DEF Becomes, Disk, Disks

Harms == {"crash", "unlink", "rmdir", "rename", "split", "overlooked"}

\* The four ways in which a step may end.
Done(hurts, y) == Disk' = y /\ harm' = harm \cup hurts /\ cut' = cut

CutShort(name, on, y) ==
  /\ Disk' = Crashed(y)
  /\ IF name \in {"unlink", "rmdir", "rename"}
     THEN harm' = harm \cup {name} /\ cut' = [name |-> name, on |-> on]
     ELSE harm' = harm \cup {"crash"} /\ cut' = cut

GivenUp(name, on, y, w, hurts) ==
  /\ w.k \in {"data", "entry", "erase"}
  /\ Disk' = Undone(name, w, y)
  /\ harm' = harm \cup hurts \cup (IF w.k = "erase" THEN {name} ELSE {})
  /\ cut' = IF w.k = "erase" THEN [name |-> name, on |-> on] ELSE cut

Unheeded(name, on, y) ==
  /\ Disk' = Crashed(y)
  /\ harm' = harm \cup {"overlooked"} /\ cut' = [name |-> name, on |-> on]

\* The plan with its kth write missed, and when that may be seen after the jth.
Without(plan, k) == [plan EXCEPT ![k] = Missed(@)]

Slip(plan, k, j) ==
  /\ plan[k].k \in {"fat", "blank", "update"}
  /\ plan[k].k = "fat" => \A i \in k+1..j : plan[i].k # "fat"

\* What an operation on the entries on may leave behind when a write fails unnoticed ...
Hurt(name, on, y) ==
  /\ y \in Disks
  /\ Partly(y, IF name \in {"unlink", "rmdir", "mkdir", "write"} THEN on ELSE {},
               IF name = "rename" THEN on ELSE {})

\* ... wherever that is.
Slips(name, on, plan, x) ==
  \A k \in 1..Len(plan) : \A j \in k..Len(plan) :
    Slip(plan, k, j) => Hurt(name, on, States(Without(plan, k), x)[j])

LEMMA Performed ==
  ASSUME NEW plan \in Seq(Writes), NEW name, NEW on, NEW hurts, Disk \in Disks,
         Perform(name, on, plan, hurts), NEW s, s = States(plan, Disk),
         \A k \in 1..Len(plan) : plan[k].k \in {"data", "entry", "erase"}
                                   => Undone(name, plan[k], s[k-1]) \in Disks,
         Slips(name, on, plan, Disk)
  PROVE  \/ Len(plan) \in 1..Len(plan) /\ Done(hurts, s[Len(plan)])
         \/ \E k \in 1..Len(plan) : k < Len(plan) /\ CutShort(name, on, s[k])
         \/ \E k \in 1..Len(plan) : GivenUp(name, on, s[k-1], plan[k], hurts)
         \/ \E y : Hurt(name, on, y) /\ Unheeded(name, on, y)
  <1>1. Runs(s, plan, Disk)
    BY StatesRun
  <1>2. PICK k \in 1..Len(plan) :
               \/ k = Len(plan) /\ Completes(s[k], hurts)
               \/ k < Len(plan) /\ PowerFails(name, on, s[k])
               \/ WriteFails(name, on, s[k-1], plan[k], hurts)
               \/ \E j \in k..Len(plan) : Overlooks(name, on, plan, k, j)
    BY DEF Perform
  <1>3. Len(plan) \in Nat /\ s[k] \in Disks
    BY <1>1, <1>2 DEF Runs
  <1>4. CASE k = Len(plan) /\ Completes(s[k], hurts)
    <2>1. Becomes(s[k])
      BY <1>4 DEF Completes
    <2>2. Disk' = s[k]
      BY <1>3, <2>1, BecomesDisk
    <2> QED
      BY <1>3, <1>4, <2>2 DEF Completes, Done
  <1>5. CASE k < Len(plan) /\ PowerFails(name, on, s[k])
    <2>1. Crashed(s[k]) \in Disks /\ Becomes(Crashed(s[k]))
      BY <1>3, <1>5, CrashedFacts DEF PowerFails
    <2>2. Disk' = Crashed(s[k])
      BY <2>1, BecomesDisk
    <2> QED
      BY <1>5, <2>2 DEF PowerFails, CutShort
  <1>6. CASE WriteFails(name, on, s[k-1], plan[k], hurts)
    <2>1. plan[k].k \in {"data", "entry", "erase"} /\ Becomes(Undone(name, plan[k], s[k-1]))
      BY <1>6 DEF WriteFails
    <2>2. Disk' = Undone(name, plan[k], s[k-1])
      BY <2>1, BecomesDisk
    <2> QED
      BY <1>6, <2>1, <2>2 DEF WriteFails, GivenUp
  <1>7. ASSUME NEW j \in k..Len(plan), Overlooks(name, on, plan, k, j)
        PROVE  \E y : Hurt(name, on, y) /\ Unheeded(name, on, y)
    <2> DEFINE y == States(Without(plan, k), Disk)[j]
    <2>1. Slip(plan, k, j) /\ Becomes(Crashed(y))
      BY <1>7 DEF Overlooks, Slip, Without
    <2>2. Hurt(name, on, y)
      BY <2>1 DEF Slips
    <2> HIDE DEF y
    <2>3. Crashed(y) \in Disks
      BY <2>2, CrashedFacts DEF Hurt
    <2>4. Disk' = Crashed(y)
      BY <2>1, <2>3, BecomesDisk
    <2> QED
      BY <1>7, <2>2, <2>4 DEF Overlooks, Unheeded
  <1> QED
    BY <1>2, <1>4, <1>5, <1>6, <1>7

\* A step in which a write fails unnoticed.
LEMMA Overlooking ==
  ASSUME Ready, NEW name, NEW on \in SUBSET Places, NEW y, Hurt(name, on, y), Unheeded(name, on, y)
  PROVE  IInv'
  <1>1. /\ cut'.on = on /\ cut'.name = name /\ ~Ready' /\ harm' \subseteq Harms /\ "rename" \notin harm'
    BY DEF Unheeded, Ready, Harms
  <1>2. Disk' \in Disks /\ Partly(Disk', Unfinished', BeingMoved')
    BY <1>1, CrashedFacts DEF Unheeded, Hurt, Unfinished, BeingMoved
  <1> QED
    BY <1>1, <1>2 DEF IInv, Harms

\* A step to a sound disk.
LEMMA Closing ==
  ASSUME NEW y, Disk' = y, Sound(y), cut'.on \subseteq Places, harm' \subseteq Harms,
         "rename" \notin harm', harm' \subseteq {"crash"} => Opened(y), harm' = {} => Lost(y) = {}
  PROVE  IInv'
  <1>1. y \in Disks
    BY DEF Sound
  <1>2. \A E, M : Partly(y, E, M)
    BY SoundPartly
  <1> QED
    BY <1>1, <1>2 DEF IInv, Ready, Harms

\* What an operation that does not erase leaves, unless it hurts the disk.
Fine(x, y, hurts) == Sound(y) /\ (hurts = {} => Opened(y) /\ Lost(y) \subseteq Lost(x))

LEMMA SafeStep ==
  ASSUME IInv, Ready, NEW plan \in Seq(Writes), NEW name \in {"create", "mkdir", "write"},
         NEW on \in SUBSET Places, Slips(name, on, plan, Disk),
         NEW hurts \in {{}, {"split"}}, Perform(name, on, plan, hurts),
         NEW s, s = States(plan, Disk),
         \A k \in 1..Len(plan) : Sound(s[k]) /\ plan[k].k # "erase",
         Fine(Disk, s[Len(plan)], hurts),
         \A k \in 1..Len(plan) : plan[k].k \in {"data", "entry"}
                                   => Fine(Disk, Undone(name, plan[k], s[k-1]), hurts)
  PROVE  IInv'
  <1>1. Disk \in Disks /\ cut.on \subseteq Places /\ (harm = {} => Lost(Disk) = {}) /\ harm \subseteq {"crash"}
    BY DEF IInv, Ready
  <1>2. \A k \in 1..Len(plan) : plan[k].k \in {"data", "entry", "erase"}
                                  => Undone(name, plan[k], s[k-1]) \in Disks
    BY DEF Fine, Sound
  <1>3. CASE Disk' = s[Len(plan)] /\ harm' = harm \cup hurts /\ cut' = cut
    <2> DEFINE y == s[Len(plan)]
    <2>1. Sound(y) /\ (hurts = {} => Opened(y) /\ Lost(y) \subseteq Lost(Disk))
      BY DEF Fine
    <2>2. /\ harm' \subseteq Harms /\ "rename" \notin harm' /\ cut'.on \subseteq Places
          /\ harm' \subseteq {"crash"} => Opened(y)
          /\ harm' = {} => Lost(y) = {}
      BY <1>1, <1>3, <2>1 DEF Harms
    <2>3. Disk' = y
      BY <1>3
    <2> HIDE DEF y
    <2> QED
      BY <2>1, <2>2, <2>3, Closing
  <1>4. ASSUME NEW k \in 1..Len(plan), Disk' = Crashed(s[k]),
               harm' = harm \cup {"crash"} /\ cut' = cut
        PROVE  IInv'
    <2> DEFINE y == Crashed(s[k])
    <2>1. Sound(y) /\ Opened(y)
      BY CrashedFacts DEF Sound
    <2>2. harm' \subseteq Harms /\ "rename" \notin harm' /\ harm' # {} /\ cut'.on \subseteq Places
      BY <1>1, <1>4 DEF Harms
    <2>3. Disk' = y
      BY <1>4
    <2> HIDE DEF y
    <2> QED
      BY <2>1, <2>2, <2>3, Closing
  <1>5. ASSUME NEW k \in 1..Len(plan), plan[k].k \in {"data", "entry"},
               Disk' = Undone(name, plan[k], s[k-1]), harm' = harm \cup hurts, cut' = cut
        PROVE  IInv'
    <2> DEFINE y == Undone(name, plan[k], s[k-1])
    <2>1. Sound(y) /\ (hurts = {} => Opened(y) /\ Lost(y) \subseteq Lost(Disk))
      BY <1>5 DEF Fine
    <2>2. /\ harm' \subseteq Harms /\ "rename" \notin harm' /\ cut'.on \subseteq Places
          /\ harm' \subseteq {"crash"} => Opened(y)
          /\ harm' = {} => Lost(y) = {}
      BY <1>1, <1>5, <2>1 DEF Harms
    <2>3. Disk' = y
      BY <1>5
    <2> HIDE DEF y
    <2> QED
      BY <2>1, <2>2, <2>3, Closing
  <1>6. name \notin {"unlink", "rmdir", "rename"}
    OBVIOUS
  <1>7. \/ Done(hurts, s[Len(plan)])
        \/ \E k \in 1..Len(plan) : CutShort(name, on, s[k])
        \/ \E k \in 1..Len(plan) : GivenUp(name, on, s[k-1], plan[k], hurts)
        \/ \E y : Hurt(name, on, y) /\ Unheeded(name, on, y)
    BY <1>1, <1>2, Performed
  <1>8. ASSUME NEW k \in 1..Len(plan), GivenUp(name, on, s[k-1], plan[k], hurts) PROVE IInv'
    <2>1. /\ plan[k].k \in {"data", "entry"} /\ plan[k].k # "erase"
          /\ Disk' = Undone(name, plan[k], s[k-1])
      BY <1>8 DEF GivenUp
    <2>2. harm' = harm \cup hurts /\ cut' = cut
      BY <1>8, <2>1 DEF GivenUp
    <2> QED
      BY <1>5, <2>1, <2>2
  <1>9. ASSUME NEW y, Hurt(name, on, y), Unheeded(name, on, y) PROVE IInv'
    BY <1>9, Overlooking
  <1> QED
    BY <1>3, <1>4, <1>6, <1>7, <1>8, <1>9 DEF Done, CutShort

\* What an operation that erases or moves the entries on may leave behind.
Halfway(name, on, y) ==
  /\ y \in Disks
  /\ name # "rename" => Partly(y, on, {})
  /\ name = "rename" => Partly(y, {}, on) /\ \E p \in on : Reached(y, p)

LEMMA CrashedHalfway ==
  ASSUME NEW y, NEW name, NEW on, Halfway(name, on, y)
  PROVE  Halfway(name, on, Crashed(y))
  BY CrashedFacts DEF Halfway

LEMMA Damaging ==
  ASSUME Ready, NEW name \in {"unlink", "rmdir", "rename"}, NEW on \in SUBSET Places,
         harm' = harm \cup {name}, cut' = [name |-> name, on |-> on], Halfway(name, on, Disk')
  PROVE  IInv'
  <1>1. /\ cut'.on = on /\ cut'.name = name /\ name \in harm' /\ ~Ready' /\ harm' \subseteq {"crash", name}
    BY DEF Ready
  <1>2. CASE name = "rename"
    <2>1. Unfinished' = {} /\ BeingMoved' = on
      BY <1>1, <1>2 DEF Unfinished, BeingMoved
    <2> QED
      BY <1>1, <1>2, <2>1 DEF IInv, Halfway
  <1>3. CASE name # "rename"
    <2>1. Unfinished' = on /\ BeingMoved' = {} /\ "rename" \notin harm'
      BY <1>1, <1>3 DEF Unfinished, BeingMoved
    <2> QED
      BY <1>1, <1>3, <2>1 DEF IInv, Halfway
  <1> QED
    BY <1>2, <1>3

LEMMA ErasingStep ==
  ASSUME IInv, Ready, NEW plan \in Seq(Writes), NEW name \in {"unlink", "rmdir", "rename"},
         NEW on \in SUBSET Places, Perform(name, on, plan, {}), Slips(name, on, plan, Disk),
         NEW s, s = States(plan, Disk),
         \A k \in 1..Len(plan) : k < Len(plan) => Halfway(name, on, s[k]),
         Fine(Disk, s[Len(plan)], {}),
         \A k \in 1..Len(plan) : plan[k].k = "erase" => Halfway(name, on, s[k-1]),
         \A k \in 1..Len(plan) : plan[k].k \in {"data", "entry"} => Fine(Disk, s[k-1], {})
  PROVE  IInv'
  <1>1. Disk \in Disks /\ cut.on \subseteq Places /\ (harm = {} => Lost(Disk) = {}) /\ harm \subseteq {"crash"}
    BY DEF IInv, Ready
  <1>2. \A w, st : Undone(name, w, st) = st
    BY DEF Undone
  <1>3. \A k \in 1..Len(plan) : plan[k].k \in {"data", "entry", "erase"}
                                  => Undone(name, plan[k], s[k-1]) \in Disks
    BY <1>2 DEF Fine, Sound, Halfway
  <1>4. ASSUME NEW y, Fine(Disk, y, {}), Disk' = y, harm' = harm, cut' = cut
        PROVE  IInv'
    <2>1. Sound(y) /\ Opened(y) /\ Lost(y) \subseteq Lost(Disk)
      BY <1>4 DEF Fine
    <2>2. /\ harm' \subseteq Harms /\ "rename" \notin harm' /\ cut'.on \subseteq Places
          /\ harm' = {} => Lost(y) = {}
      BY <1>1, <1>4, <2>1 DEF Harms
    <2> QED
      BY <1>4, <2>1, <2>2, Closing
  <1>5. ASSUME NEW k \in 1..Len(plan), k < Len(plan), CutShort(name, on, s[k])
        PROVE  IInv'
    <2>1. Halfway(name, on, Crashed(s[k]))
      BY <1>5, CrashedHalfway
    <2>2. Disk' = Crashed(s[k]) /\ harm' = harm \cup {name} /\ cut' = [name |-> name, on |-> on]
      BY <1>5 DEF CutShort
    <2> QED
      BY <2>1, <2>2, Damaging
  <1>6. ASSUME NEW k \in 1..Len(plan), GivenUp(name, on, s[k-1], plan[k], {})
        PROVE  IInv'
    <2>1. Disk' = s[k-1] /\ plan[k].k \in {"data", "entry", "erase"}
      BY <1>2, <1>6 DEF GivenUp
    <2>2. CASE plan[k].k = "erase"
      <3>1. harm' = harm \cup {name} /\ cut' = [name |-> name, on |-> on]
        BY <1>6, <2>2 DEF GivenUp
      <3> QED
        BY <2>1, <2>2, <3>1, Damaging
    <2>3. CASE plan[k].k \in {"data", "entry"}
      <3>1. plan[k].k # "erase"
        BY <2>3
      <3>2. harm' = harm /\ cut' = cut
        BY <1>6, <3>1 DEF GivenUp
      <3> QED
        BY <1>4, <2>1, <2>3, <3>2
    <2> QED
      BY <2>1, <2>2, <2>3
  <1>7. \/ Done({}, s[Len(plan)])
        \/ \E k \in 1..Len(plan) : k < Len(plan) /\ CutShort(name, on, s[k])
        \/ \E k \in 1..Len(plan) : GivenUp(name, on, s[k-1], plan[k], {})
        \/ \E y : Hurt(name, on, y) /\ Unheeded(name, on, y)
    BY <1>1, <1>3, Performed
  <1>8. CASE Done({}, s[Len(plan)])
    BY <1>4, <1>8 DEF Done
  <1>9. ASSUME NEW y, Hurt(name, on, y), Unheeded(name, on, y) PROVE IInv'
    BY <1>9, Overlooking
  <1> QED
    BY <1>5, <1>6, <1>7, <1>8, <1>9

-----------------------------------------------------------------------------
(* Writes to clusters in no chain                                           *)

Alike(x, y) ==
  /\ Sound(y) /\ InUse(y) = InUse(x) /\ \A p \in InUse(x) : Entry(y, p) = Entry(x, p)
  /\ Heads(y) = Heads(x) /\ DirHeads(y) = DirHeads(x) /\ Used(y) = Used(x)
  /\ \A c \in Heads(x) \cup {0} : Trail(y, c) = Trail(x, c) /\ On(y, c) = On(x, c)
  /\ \A p : Keeps(x, y, p)
  /\ y.open = x.open

LEMMA UnmovedAlike ==
  ASSUME NEW x, NEW y \in Disks, Sound(x), InUse(y) = InUse(x), \A p \in InUse(x) : Entry(y, p) = Entry(x, p),
         \A d \in Used(x) : y.fat[d] = x.fat[d], x.written \cap Used(x) \subseteq y.written, y.open = x.open
  PROVE  Alike(x, y)
  <1>1. /\ Sound(y) /\ Heads(y) = Heads(x) /\ DirHeads(y) = DirHeads(x) /\ Used(y) = Used(x)
        /\ \A c \in Heads(x) \cup {0} : Trail(y, c) = Trail(x, c)
        /\ \A p : Keeps(x, y, p)
    BY Unmoved
  <1> QED
    BY <1>1 DEF Alike, On

\* An entry that is in use stands in a cluster of some chain.
LEMMA InUseUsed ==
  ASSUME NEW x, Sound(x), NEW p \in InUse(x)
  PROVE  p[1] \in Used(x)
  BY HeadFacts DEF Sound, Rooted

LEMMA Taken ==
  ASSUME NEW x, Sound(x), NEW c \in Clusters \ Used(x), NEW y, y = Apply(SetFat(c, Eof), x)
  PROVE  /\ Alike(x, y) /\ y.fat = [x.fat EXCEPT ![c] = Eof] /\ y.written = x.written
         /\ \A p : Entry(y, p) = Entry(x, p)
         /\ Lost(y) = Lost(x) \cup {c}
  <1>1. x \in Disks
    BY DEF Sound
  <1>2. /\ y \in Disks /\ y.fat = [x.fat EXCEPT ![c] = Eof]
        /\ y.slot = x.slot /\ y.written = x.written /\ y.open = x.open
    BY <1>1, ApplyFat
  <1>3. InUse(y) = InUse(x) /\ \A p : Entry(y, p) = Entry(x, p)
    BY <1>2 DEF InUse, Entry
  <1>4. y.fat[c] = Eof /\ \A d \in Clusters \ {c} : y.fat[d] = x.fat[d]
    BY <1>1, <1>2 DEF Disks
  <1>5. \A d \in Used(x) : y.fat[d] = x.fat[d]
    BY <1>4, HeadFacts
  <1>6. Alike(x, y)
    BY <1>2, <1>3, <1>5, UnmovedAlike
  <1>7. Lost(y) = Lost(x) \cup {c}
    BY <1>4, <1>6, ClusterFacts DEF Lost, Alike
  <1> QED
    BY <1>2, <1>3, <1>6, <1>7

LEMMA Freed ==
  ASSUME NEW x, Sound(x), NEW c \in Clusters \ Used(x), NEW y, y = Apply(SetFat(c, Free), x)
  PROVE  Alike(x, y) /\ Lost(y) = Lost(x) \ {c}
  <1>1. x \in Disks
    BY DEF Sound
  <1>2. /\ y \in Disks /\ y.fat = [x.fat EXCEPT ![c] = Free]
        /\ \A p \in Places : Entry(y, p) = IF p[1] = c THEN Unused ELSE Entry(x, p)
        /\ y.written = x.written \ {c} /\ y.open = x.open
    BY <1>1, ApplyFree
  <1>3. InUse(y) = InUse(x) /\ \A p \in InUse(x) : Entry(y, p) = Entry(x, p)
    <2>1. \A p \in InUse(x) : p \in Places /\ p[1] # c
      BY <1>1, InUseUsed, DiskFacts
    <2>2. Unused.kind \notin {"file", "dir"}
      BY DEF Unused, Slot
    <2>3. \A p \in InUse(x) : Entry(y, p) = Entry(x, p)
      BY <1>2, <2>1
    <2>4. \A p \in Places : p \in InUse(y) <=> p \in InUse(x)
      BY <1>2, <2>1, <2>2 DEF InUse
    <2> QED
      BY <2>1, <2>3, <2>4 DEF InUse
  <1>4. y.fat[c] = Free /\ \A d \in Clusters \ {c} : y.fat[d] = x.fat[d]
    BY <1>1, <1>2 DEF Disks
  <1>5. \A d \in Used(x) : y.fat[d] = x.fat[d]
    BY <1>4, HeadFacts
  <1>6. x.written \cap Used(x) \subseteq y.written
    BY <1>2
  <1>7. Alike(x, y)
    BY <1>2, <1>3, <1>5, <1>6, UnmovedAlike
  <1>8. Lost(y) = Lost(x) \ {c}
    BY <1>4, <1>7 DEF Lost, Alike
  <1> QED
    BY <1>7, <1>8

NoneIn(s) == \A i \in 1..SlotsPer : s[i].kind \notin {"file", "dir"}

LEMMA Blanked ==
  ASSUME NEW x, Sound(x), NEW c \in Clusters \ Used(x), NEW s \in [1..SlotsPer -> Cell],
         NoneIn(s), NEW y, y = Apply(Blank(c, s), x)
  PROVE  /\ Alike(x, y) /\ Lost(y) = Lost(x) /\ y.fat = x.fat /\ y.written = x.written
         /\ \A p \in Places : p[1] # c => Entry(y, p) = Entry(x, p)
  <1>1. x \in Disks
    BY DEF Sound
  <1>2. /\ y \in Disks /\ y.fat = x.fat /\ y.written = x.written /\ y.open = x.open
        /\ y.slot = [x.slot EXCEPT ![c] = s]
    BY <1>1, ApplyBlank
  <1>3. /\ InUse(y) = InUse(x) /\ \A p \in InUse(x) : Entry(y, p) = Entry(x, p)
        /\ \A p \in Places : p[1] # c => Entry(y, p) = Entry(x, p)
    <2>1. \A p \in InUse(x) : p \in Places /\ p[1] # c
      BY <1>1, InUseUsed, DiskFacts
    <2>2. ASSUME NEW p \in Places
          PROVE  /\ p[1] = c => Entry(y, p).kind \notin {"file", "dir"}
                 /\ p[1] # c => Entry(y, p) = Entry(x, p)
      <3>1. p[1] \in Clusters /\ p[2] \in 1..SlotsPer /\ x.slot \in [Clusters -> [1..SlotsPer -> Cell]]
        BY <1>1 DEF Places, Disks
      <3>2. y.slot[p[1]] = IF p[1] = c THEN s ELSE x.slot[p[1]]
        BY <1>2, <3>1
      <3> QED
        BY <3>1, <3>2 DEF Entry, NoneIn
    <2>3. \A p \in InUse(x) : Entry(y, p) = Entry(x, p)
      BY <2>1, <2>2
    <2>4. \A p \in Places : p \in InUse(y) <=> p \in InUse(x)
      BY <2>1, <2>2 DEF InUse
    <2>5. \A p \in Places : p[1] # c => Entry(y, p) = Entry(x, p)
      BY <2>2
    <2> QED
      BY <2>1, <2>3, <2>4, <2>5 DEF InUse
  <1>7. Alike(x, y)
    BY <1>2, <1>3, UnmovedAlike
  <1>8. Lost(y) = Lost(x)
    BY <1>2, <1>7 DEF Lost, Alike
  <1> QED
    BY <1>2, <1>3, <1>7, <1>8

LEMMA AlikeOn ==
  ASSUME NEW x, NEW y, NEW z, Sound(x), Alike(x, y), Alike(y, z)
  PROVE  Alike(x, z)
  <1>1. \A p : Keeps(x, z, p)
    BY KeepsOn DEF Alike, Sound
  <1> QED
    BY <1>1 DEF Alike

-----------------------------------------------------------------------------
(* Writes that fail and nobody notices                                      *)

Leftovers == [i \in 1..SlotsPer |-> Leftover]

LEMMA LeftoversFacts ==
  Leftovers \in [1..SlotsPer -> Cell] /\ NoneIn(Leftovers)
  BY DEF Leftovers, NoneIn, Cell, Leftover, Slot

LEMMA MissedIs ==
  ASSUME NEW w \in Writes
  PROVE  /\ Missed(w) \in Writes
         /\ w.k \in {"fat", "update"} => Missed(w) = Nothing
         /\ w.k = "blank" => Missed(w) = Blank(w.c, Leftovers) /\ w.c \in Clusters /\ w = Blank(w.c, w.s)
                             /\ w.s \in [1..SlotsPer -> Cell]
  <1>1. w.k \in {"fat", "update"} => Missed(w) = Nothing
    BY DEF Missed
  <1>2. w.k = "blank" => /\ Missed(w) = Blank(w.c, Leftovers) /\ w.c \in Clusters /\ w = Blank(w.c, w.s)
                         /\ w.s \in [1..SlotsPer -> Cell]
    <2> SUFFICES ASSUME w.k = "blank"
                 PROVE  /\ Missed(w) = Blank(w.c, Leftovers) /\ w.c \in Clusters /\ w = Blank(w.c, w.s)
                        /\ w.s \in [1..SlotsPer -> Cell]
      OBVIOUS
    <2>1. w \in [k : {"blank"}, c : Clusters, s : [1..SlotsPer -> Cell]]
      BY DEF Writes
    <2>2. Missed(w) = Blank(w.c, Leftovers)
      BY DEF Missed, Leftovers
    <2> QED
      BY <2>1, <2>2 DEF Blank
  <1>3. w.k \notin {"fat", "update", "blank"} => Missed(w) = w
    BY DEF Missed
  <1>4. Nothing \in Writes
    BY DEF Nothing, Writes
  <1>5. w.k = "blank" => Missed(w) \in Writes
    BY <1>2, LeftoversFacts DEF Writes, Blank
  <1> QED
    BY <1>1, <1>2, <1>3, <1>4, <1>5

LEMMA ApplyNothing ==
  ASSUME NEW x PROVE Apply(Nothing, x) = x
  BY DEF Apply, Nothing

\* The plan without its kth write, and what there is until then.
LEMMA WithoutFacts ==
  ASSUME NEW plan \in Seq(Writes), NEW k \in 1..Len(plan)
  PROVE  /\ Without(plan, k) \in Seq(Writes) /\ Len(Without(plan, k)) = Len(plan)
         /\ Without(plan, k)[k] = Missed(plan[k])
         /\ \A i \in 1..Len(plan) : i # k => Without(plan, k)[i] = plan[i]
  <1>1. Missed(plan[k]) \in Writes
    BY MissedIs
  <1> DEFINE m == Missed(plan[k])
  <1>2. Without(plan, k) = [plan EXCEPT ![k] = m]
    BY DEF Without
  <1> HIDE DEF m
  <1> QED
    BY <1>1, <1>2 DEF m

LEMMA WithoutRuns ==
  ASSUME NEW plan \in Seq(Writes), NEW x \in Disks, NEW k \in 1..Len(plan),
         NEW s, s = States(plan, x), NEW r, r = States(Without(plan, k), x)
  PROVE  /\ Runs(s, plan, x) /\ Runs(r, Without(plan, k), x)
         /\ \A i \in 0..k-1 : r[i] = s[i]
         /\ s[k] = Apply(plan[k], s[k-1]) /\ r[k] = Apply(Missed(plan[k]), s[k-1])
         /\ \A i \in k+1..Len(plan) : s[i] = Apply(plan[i], s[i-1]) /\ r[i] = Apply(plan[i], r[i-1])
  <1> DEFINE u == Without(plan, k)
             n == Len(plan)
             P == {i \in 0..k-1 : r[i] = s[i]}
  <1>1. /\ u \in Seq(Writes) /\ Len(u) = n /\ u[k] = Missed(plan[k]) /\ \A i \in 1..n : i # k => u[i] = plan[i]
        /\ n \in Nat /\ k \in 1..n
    BY WithoutFacts
  <1> HIDE DEF u, n
  <1>2. Runs(s, plan, x) /\ Runs(r, u, x)
    BY <1>1, StatesRun DEF u
  <1>3. \A i \in 1..n : s[i] = Apply(plan[i], s[i-1]) /\ r[i] = Apply(u[i], r[i-1])
    BY <1>1, <1>2 DEF Runs, n
  <1>4. s[0] = x /\ r[0] = x
    BY <1>2 DEF Runs
  <1>5. 0 \in P
    BY <1>1, <1>4
  <1>6. ASSUME NEW i \in 1..k-1, i - 1 \in P PROVE i \in P
    <2>1. i \in 1..n /\ i # k /\ i \in 0..k-1
      BY <1>1
    <2> QED
      BY <1>1, <1>3, <1>6, <2>1
  <1>7. \A i \in 0..k-1 : i \in P
    <2>1. k - 1 \in Nat
      BY <1>1
    <2> HIDE DEF P
    <2> QED
      BY <1>5, <1>6, <2>1, Induct
  <1>8. \A i \in 0..k-1 : r[i] = s[i]
    BY <1>7
  <1> HIDE DEF P
  <1>9. r[k-1] = s[k-1]
    BY <1>1, <1>8
  <1>10. \A i \in k+1..n : i \in 1..n /\ i # k
    BY <1>1
  <1> QED
    BY <1>1, <1>2, <1>3, <1>8, <1>9, <1>10 DEF u, n

\* What each write from the one after a to b keeps is still so at the end.
LEMMA Kept ==
  ASSUME NEW n \in Nat, NEW a \in 0..n, NEW b \in a..n, NEW r, NEW S, r[a] \in S,
         \A i \in a+1..b : r[i-1] \in S => r[i] \in S
  PROVE  r[b] \in S
  <1> DEFINE m == b - a
             P == {i \in 0..m : r[a + i] \in S}
  <1>1. m \in Nat /\ a + m = b /\ a + 0 = a
    OBVIOUS
  <1>2. 0 \in P
    BY <1>1
  <1>3. ASSUME NEW i \in 1..m, i - 1 \in P PROVE i \in P
    <2>1. a + i \in a+1..b /\ (a + i) - 1 = a + (i - 1) /\ i \in 0..m
      BY <1>1
    <2>2. r[(a + i) - 1] \in S
      BY <1>3, <2>1
    <2>3. r[a + i] \in S
      BY <2>1, <2>2
    <2> QED
      BY <2>1, <2>3
  <1>4. \A i \in 0..m : i \in P
    <2> HIDE DEF P, m
    <2> QED
      BY <1>1, <1>2, <1>3, Induct
  <1>5. m \in P
    BY <1>1, <1>4
  <1> QED
    BY <1>1, <1>5

\* x and y differ in slots that hold no entry.
Same(x, y) ==
  /\ y \in Disks /\ y.fat = x.fat /\ y.written = x.written
  /\ InUse(y) = InUse(x) /\ \A p \in InUse(x) : Entry(y, p) = Entry(x, p)

LEMMA SamePartly ==
  ASSUME NEW x \in Disks, NEW y, Same(x, y), NEW E, NEW M, Partly(x, E, M)
  PROVE  Partly(y, E, M)
  <1>1. \A c : Trail(y, c) = Trail(x, c) /\ On(y, c) = On(x, c)
    BY DEF Same, Trail, On
  <1>2. \A c, n : Full(x, c, n) => Full(y, c, n)
    BY <1>1 DEF Same, Full
  <1> QED
    BY <1>1, <1>2 DEF Same, Partly

\* An entry with which y differs is none.
LEMMA SameBy ==
  ASSUME NEW x \in Disks, NEW y \in Disks, y.fat = x.fat, y.written = x.written,
         \A p \in Places : \/ Entry(y, p) = Entry(x, p)
                           \/ Entry(y, p).kind \notin {"file", "dir"} /\ Entry(x, p).kind \notin {"file", "dir"}
  PROVE  Same(x, y)
  BY DEF Same, InUse

LEMMA SameEntries ==
  ASSUME NEW x \in Disks, NEW y, Same(x, y), NEW p \in Places
  PROVE  \/ Entry(y, p) = Entry(x, p)
         \/ Entry(y, p).kind \notin {"file", "dir"} /\ Entry(x, p).kind \notin {"file", "dir"}
  BY DEF Same, InUse

LEMMA EmptyKinds ==
  Unused.kind \notin {"file", "dir"} /\ Dot.kind \notin {"file", "dir"} /\ Leftover.kind \notin {"file", "dir"}
  BY DEF Unused, Dot, Leftover, Slot

\* y is x after the slots of the cluster c were overwritten.
Overlaid(x, y, c, s) ==
  /\ y \in Disks /\ y.fat = x.fat /\ y.written = x.written
  /\ \A p \in Places : Entry(y, p) = IF p[1] = c THEN s[p[2]] ELSE Entry(x, p)

LEMMA BlankOverlaid ==
  ASSUME NEW x \in Disks, NEW c \in Clusters, NEW s \in [1..SlotsPer -> Cell]
  PROVE  Overlaid(x, Apply(Blank(c, s), x), c, s)
  <1> DEFINE y == Apply(Blank(c, s), x)
  <1>0. y = Apply(Blank(c, s), x)
    OBVIOUS
  <1> HIDE DEF y
  <1>1. /\ y \in Disks /\ y.fat = x.fat /\ y.written = x.written
        /\ y.slot = [x.slot EXCEPT ![c] = s]
    BY <1>0, ApplyBlank
  <1>2. \A p \in Places : Entry(y, p) = IF p[1] = c THEN s[p[2]] ELSE Entry(x, p)
    <2> SUFFICES ASSUME NEW p \in Places PROVE Entry(y, p) = IF p[1] = c THEN s[p[2]] ELSE Entry(x, p)
      OBVIOUS
    <2>1. p[1] \in Clusters /\ DOMAIN x.slot = Clusters
      BY DiskFacts DEF Disks
    <2> QED
      BY <1>1, <2>1 DEF Entry
  <1> QED
    BY <1>0, <1>1, <1>2 DEF Overlaid

LEMMA SameApply ==
  ASSUME NEW x \in Disks, NEW y, Same(x, y), NEW w \in Writes
  PROVE  Same(Apply(w, x), Apply(w, y))
  <1> DEFINE a == Apply(w, x)
             b == Apply(w, y)
  <1>0. a = Apply(w, x) /\ b = Apply(w, y)
    OBVIOUS
  <1> HIDE DEF a, b
  <1>1. y \in Disks /\ y.fat = x.fat /\ y.written = x.written /\ a \in Disks /\ b \in Disks
    BY <1>0, ApplyTyped DEF Same
  <1>9. /\ b.fat = a.fat /\ b.written = a.written
        /\ \A p \in Places : \/ Entry(b, p) = Entry(a, p)
                             \/ Entry(b, p).kind \notin {"file", "dir"} /\ Entry(a, p).kind \notin {"file", "dir"}
        => Same(a, b)
    BY <1>1, SameBy
  <1>10. \A p \in Places : \/ Entry(y, p) = Entry(x, p)
                           \/ Entry(y, p).kind \notin {"file", "dir"} /\ Entry(x, p).kind \notin {"file", "dir"}
    BY SameEntries
  <1> SUFFICES Same(a, b)
    BY <1>0
  <1>11. y \in Disks
    BY <1>1
  <1>2. CASE w \in [k : {"fat"}, c : Clusters, v : Clusters \cup {Free, Eof}]
    <2> DEFINE c == w.c
               v == w.v
    <2>1. w = SetFat(c, v) /\ c \in Clusters /\ v \in Clusters \cup {Free, Eof}
      BY <1>2 DEF SetFat
    <2> HIDE DEF c, v
    <2>2. CASE v = Free
      <3>1. /\ a.fat = [x.fat EXCEPT ![c] = Free] /\ a.written = x.written \ {c}
            /\ \A p \in Places : Entry(a, p) = IF p[1] = c THEN Unused ELSE Entry(x, p)
        <4>1. a = Apply(SetFat(c, Free), x)
          BY <1>0, <2>1, <2>2
        <4> QED
          BY <2>1, <4>1, ApplyFree
      <3>2. /\ b.fat = [y.fat EXCEPT ![c] = Free] /\ b.written = y.written \ {c}
            /\ \A p \in Places : Entry(b, p) = IF p[1] = c THEN Unused ELSE Entry(y, p)
        <4>1. b = Apply(SetFat(c, Free), y)
          BY <1>0, <2>1, <2>2
        <4> QED
          BY <1>11, <2>1, <4>1, ApplyFree
      <3> QED
        BY <1>1, <3>1, <3>2, <1>9, <1>10
    <2>3. CASE v # Free
      <3>1. v \in Clusters \cup {Eof}
        BY <2>1, <2>3
      <3>2. a.fat = [x.fat EXCEPT ![c] = v] /\ a.slot = x.slot /\ a.written = x.written
        BY <1>0, <2>1, <3>1, ApplyFat
      <3>3. b.fat = [y.fat EXCEPT ![c] = v] /\ b.slot = y.slot /\ b.written = y.written
        BY <1>0, <1>1, <2>1, <3>1, ApplyFat
      <3>4. \A p \in Places : Entry(a, p) = Entry(x, p) /\ Entry(b, p) = Entry(y, p)
        BY <3>2, <3>3 DEF Entry
      <3> QED
        BY <1>1, <3>2, <3>3, <3>4, <1>9, <1>10
    <2> QED
      BY <2>2, <2>3
  <1>3. CASE w \in [k : {"blank"}, c : Clusters, s : [1..SlotsPer -> Cell]]
    <2>1. w = Blank(w.c, w.s) /\ w.c \in Clusters /\ w.s \in [1..SlotsPer -> Cell]
      BY <1>3 DEF Blank
    <2>2. Overlaid(x, a, w.c, w.s) /\ Overlaid(y, b, w.c, w.s)
      <3>1. Overlaid(x, Apply(Blank(w.c, w.s), x), w.c, w.s) /\ Overlaid(y, Apply(Blank(w.c, w.s), y), w.c, w.s)
        BY <1>11, <2>1, BlankOverlaid
      <3> QED
        BY <1>0, <2>1, <3>1
    <2> QED
      BY <1>1, <1>9, <1>10, <2>2 DEF Overlaid
  <1>4. CASE w \in [k : {"data"}, c : Clusters]
    <2>1. w = Data(w.c) /\ w.c \in Clusters
      BY <1>4 DEF Data
    <2>2. a.fat = x.fat /\ a.slot = x.slot /\ a.written = x.written \cup {w.c}
      BY <1>0, <2>1, ApplyData
    <2>3. b.fat = y.fat /\ b.slot = y.slot /\ b.written = y.written \cup {w.c}
      BY <1>0, <1>1, <2>1, ApplyData
    <2>4. \A p \in Places : Entry(a, p) = Entry(x, p) /\ Entry(b, p) = Entry(y, p)
      BY <2>2, <2>3 DEF Entry
    <2> QED
      BY <1>1, <2>2, <2>3, <2>4, <1>9, <1>10
  <1>5. CASE w \in [k : {"entry"}, p : Places, e : Entries, ks : SUBSET Handles]
    <2>1. w = Put(w.p, w.e, w.ks) /\ w.p \in Places /\ w.e \in Entries /\ w.ks \in SUBSET Handles
      BY <1>5 DEF Put
    <2>2. /\ a.fat = x.fat /\ a.written = x.written
          /\ \A p \in Places : Entry(a, p) = IF p = w.p THEN w.e ELSE Entry(x, p)
      BY <1>0, <2>1, ApplyPut
    <2>3. /\ b.fat = y.fat /\ b.written = y.written
          /\ \A p \in Places : Entry(b, p) = IF p = w.p THEN w.e ELSE Entry(y, p)
      BY <1>0, <1>1, <2>1, ApplyPut
    <2> QED
      BY <1>1, <2>2, <2>3, <1>9, <1>10
  <1>6. CASE w \in [k : {"update"}, p : Places, f : Copies, ks : SUBSET Handles]
    <2> DEFINE p0 == w.p
               f == w.f
               ks == w.ks
    <2>1. w = Update(p0, f, ks) /\ p0 \in Places /\ f \in Copies /\ ks \in SUBSET Handles
      BY <1>6 DEF Update
    <2> HIDE DEF p0, f, ks
    <2>2. /\ a.fat = x.fat /\ a.written = x.written
          /\ \A p \in Places : Entry(a, p) = IF p = p0 THEN Updated(Entry(x, p0), f) ELSE Entry(x, p)
      <3>1. a = Apply(Update(p0, f, ks), x)
        BY <1>0, <2>1
      <3> QED
        BY <2>1, <3>1, ApplyUpdate
    <2>3. /\ b.fat = y.fat /\ b.written = y.written
          /\ \A p \in Places : Entry(b, p) = IF p = p0 THEN Updated(Entry(y, p0), f) ELSE Entry(y, p)
      <3>1. b = Apply(Update(p0, f, ks), y)
        BY <1>0, <2>1
      <3> QED
        BY <1>1, <2>1, <3>1, ApplyUpdate
    <2>4. \A e : e.kind \notin {"file", "dir"} => Updated(e, f) = e
      BY DEF Updated
    <2>5. \A p \in Places : \/ Entry(b, p) = Entry(a, p)
                            \/ Entry(b, p).kind \notin {"file", "dir"} /\ Entry(a, p).kind \notin {"file", "dir"}
      <3> SUFFICES ASSUME NEW p \in Places
                   PROVE  \/ Entry(b, p) = Entry(a, p)
                          \/ Entry(b, p).kind \notin {"file", "dir"} /\ Entry(a, p).kind \notin {"file", "dir"}
        OBVIOUS
      <3>1. \/ Entry(y, p) = Entry(x, p)
            \/ Entry(y, p).kind \notin {"file", "dir"} /\ Entry(x, p).kind \notin {"file", "dir"}
        BY SameEntries
      <3>2. CASE p = p0
        BY <2>2, <2>3, <2>4, <3>1, <3>2
      <3>3. CASE p # p0
        BY <2>2, <2>3, <3>1, <3>3
      <3> QED
        BY <3>2, <3>3
    <2> QED
      BY <1>1, <1>9, <2>2, <2>3, <2>5
  <1>7. CASE w \in [k : {"erase"}, p : Places]
    <2>1. w = Erase(w.p) /\ w.p \in Places
      BY <1>7 DEF Erase
    <2>2. /\ a.fat = x.fat /\ a.written = x.written
          /\ \A p \in Places : Entry(a, p) = IF p = w.p THEN Unused ELSE Entry(x, p)
      BY <1>0, <2>1, ApplyErase
    <2>3. /\ b.fat = y.fat /\ b.written = y.written
          /\ \A p \in Places : Entry(b, p) = IF p = w.p THEN Unused ELSE Entry(y, p)
      BY <1>0, <1>1, <2>1, ApplyErase
    <2> QED
      BY <1>1, <2>2, <2>3, <1>9, <1>10
  <1>8. CASE w \in [k : {"none"}]
    <2>1. a = x /\ b = y
      BY <1>0, <1>8 DEF Apply
    <2> QED
      BY <2>1
  <1> QED
    BY <1>2, <1>3, <1>4, <1>5, <1>6, <1>7, <1>8 DEF Writes

LEMMA BlankSame ==
  ASSUME NEW z \in Disks, NEW c \in Clusters, NEW t \in [1..SlotsPer -> Cell], NoneIn(t),
         NEW u \in [1..SlotsPer -> Cell], NoneIn(u),
         NEW a, a = Apply(Blank(c, t), z), NEW b, b = Apply(Blank(c, u), z)
  PROVE  a \in Disks /\ Same(a, b)
  <1>1. Overlaid(z, a, c, t) /\ Overlaid(z, b, c, u)
    BY BlankOverlaid
  <1>2. \A p \in Places : p[2] \in 1..SlotsPer
    BY DEF Places
  <1>3. \A p \in Places : \/ Entry(b, p) = Entry(a, p)
                          \/ Entry(b, p).kind \notin {"file", "dir"} /\ Entry(a, p).kind \notin {"file", "dir"}
    BY <1>1, <1>2 DEF NoneIn, Overlaid
  <1> QED
    BY <1>1, <1>3, SameBy DEF Overlaid

\* A cluster that was to be overwritten and was not: the slots differ, and that is all.
LEMMA Unblanked ==
  ASSUME NEW plan \in Seq(Writes), NEW x \in Disks, NEW k \in 1..Len(plan), plan[k].k = "blank",
         NoneIn(plan[k].s), NEW j \in k..Len(plan), NEW E, NEW M,
         NEW s, s = States(plan, x), Partly(s[j], E, M)
  PROVE  Partly(States(Without(plan, k), x)[j], E, M)
  <1> DEFINE r == States(Without(plan, k), x)
             n == Len(plan)
             S == {i \in 0..n : s[i] \in Disks /\ Same(s[i], r[i])}
  <1>0. r = States(Without(plan, k), x)
    OBVIOUS
  <1> HIDE DEF r
  <1>1. /\ Runs(s, plan, x) /\ n \in Nat
        /\ s[k] = Apply(plan[k], s[k-1]) /\ r[k] = Apply(Missed(plan[k]), s[k-1])
        /\ \A i \in k+1..n : s[i] = Apply(plan[i], s[i-1]) /\ r[i] = Apply(plan[i], r[i-1])
    BY <1>0, WithoutRuns
  <1>2. /\ plan[k] \in Writes /\ k \in 0..n /\ k - 1 \in 0..n
        /\ \A i \in k+1..j : i \in 1..n /\ i \in 0..n /\ i - 1 \in 0..n /\ i \in k+1..n
    OBVIOUS
  <1>3. \A i \in 0..n : s[i] \in Disks
    BY <1>1 DEF Runs
  <1>4. k \in S
    <2> DEFINE c == plan[k].c
               t == plan[k].s
               z == s[k-1]
               a == s[k]
               b == r[k]
    <2>1. plan[k] = Blank(c, t) /\ c \in Clusters /\ t \in [1..SlotsPer -> Cell] /\ Missed(plan[k]) = Blank(c, Leftovers)
      BY <1>2, MissedIs
    <2>2. NoneIn(t) /\ z \in Disks /\ a = Apply(Blank(c, t), z) /\ b = Apply(Blank(c, Leftovers), z)
      BY <1>1, <1>2, <1>3, <2>1
    <2> HIDE DEF c, t, z, a, b
    <2>3. a \in Disks /\ Same(a, b)
      BY <2>1, <2>2, LeftoversFacts, BlankSame
    <2> QED
      BY <1>2, <2>3 DEF a, b
  <1>5. ASSUME NEW i \in k+1..j, i - 1 \in S PROVE i \in S
    <2>1. /\ plan[i] \in Writes /\ s[i-1] \in Disks /\ Same(s[i-1], r[i-1])
          /\ s[i] = Apply(plan[i], s[i-1]) /\ r[i] = Apply(plan[i], r[i-1])
      BY <1>1, <1>2, <1>5
    <2>2. Same(s[i], r[i])
      BY <2>1, SameApply
    <2> QED
      BY <1>2, <1>3, <2>2
  <1>6. j \in S
    <2> DEFINE id == [i \in 0..n |-> i]
    <2>1. id[k] \in S /\ \A i \in k+1..j : id[i-1] \in S => id[i] \in S
      BY <1>2, <1>4, <1>5
    <2>2. j \in k..n /\ id[j] = j
      BY <1>2
    <2> HIDE DEF id, S, n
    <2>3. id[j] \in S
      BY <1>1, <1>2, <2>1, <2>2, Kept
    <2> QED
      BY <2>2, <2>3
  <1>7. s[j] \in Disks /\ Same(s[j], r[j])
    BY <1>6
  <1> HIDE DEF S, n
  <1> QED
    BY <1>0, <1>7, SamePartly

\* y is z with perhaps the entry e in the slot q, and otherwise at most fewer entries.
Strayed(z, y, q, e) ==
  /\ y \in Disks /\ y.fat = z.fat /\ y.written = z.written
  /\ \A p \in InUse(y) : \/ p \in InUse(z) /\ Entry(y, p) = Entry(z, p)
                         \/ p = q /\ Entry(y, p) = e

\* A write that makes no more of it.
Filler(w, q, e) ==
  \/ w.k = "blank" /\ NoneIn(w.s)
  \/ w.k = "erase"
  \/ q \in Places /\ e \in Entries /\ \E ks \in SUBSET Handles : w = Put(q, e, ks)

\* The entry e in the slot q does not meet the others, unless both are in M, and is right unless
\* it is in E.
Fits(z, q, e, E, M) ==
  /\ On(z, e.cluster) \cap On(z, Root) = {}
  /\ \A p \in InUse(z) : {p, q} \subseteq M \/ On(z, Entry(z, p).cluster) \cap On(z, e.cluster) = {}
  /\ q \in E \/ /\ e.cluster # 0 => Path(z.fat, Trail(z, e.cluster))
                /\ e.kind = "file" => Full(z, e.cluster, e.size)

LEMMA StrayedPartly ==
  ASSUME NEW z, Sound(z), NEW y, NEW q, NEW e, Strayed(z, y, q, e), NEW E, NEW M, Fits(z, q, e, E, M)
  PROVE  Partly(y, E, M)
  <1>1. \A c : Trail(y, c) = Trail(z, c) /\ On(y, c) = On(z, c)
    BY DEF Strayed, Trail, On
  <1>2. \A c, n : Full(z, c, n) => Full(y, c, n)
    BY <1>1 DEF Strayed, Full
  <1>3. y \in Disks /\ y.fat = z.fat
    BY DEF Strayed
  <1>4. /\ Path(z.fat, Trail(z, Root))
        /\ \A p \in InUse(z) : Entry(z, p).cluster # 0 => Path(z.fat, Trail(z, Entry(z, p).cluster))
        /\ \A p \in InUse(z) : On(z, Entry(z, p).cluster) \cap On(z, Root) = {}
        /\ \A p, r \in InUse(z) : p = r \/ On(z, Entry(z, p).cluster) \cap On(z, Entry(z, r).cluster) = {}
        /\ \A p \in InUse(z) : Entry(z, p).kind = "file" => Full(z, Entry(z, p).cluster, Entry(z, p).size)
    <2>1. Partly(z, {}, {})
      BY SoundPartly
    <2> QED
      BY <2>1 DEF Partly
  <1>5. ASSUME NEW p \in InUse(y)
        PROVE  \/ p \in InUse(z) /\ Entry(y, p) = Entry(z, p)
               \/ p = q /\ Entry(y, p) = e
    BY DEF Strayed
  <1>6. \A p \in InUse(y) \ E : Entry(y, p).cluster # 0 => Path(y.fat, Trail(y, Entry(y, p).cluster))
    BY <1>1, <1>3, <1>4, <1>5 DEF Fits
  <1>7. \A p \in InUse(y) : On(y, Entry(y, p).cluster) \cap On(y, Root) = {}
    BY <1>1, <1>4, <1>5 DEF Fits
  <1>8. ASSUME NEW p \in InUse(y), NEW r \in InUse(y), p # r, ~({p, r} \subseteq M)
        PROVE  On(y, Entry(y, p).cluster) \cap On(y, Entry(y, r).cluster) = {}
    <2>1. CASE p \in InUse(z) /\ Entry(y, p) = Entry(z, p) /\ r \in InUse(z) /\ Entry(y, r) = Entry(z, r)
      BY <1>1, <1>4, <1>8, <2>1
    <2>2. CASE p = q /\ Entry(y, p) = e /\ r \in InUse(z) /\ Entry(y, r) = Entry(z, r)
      BY <1>1, <1>8, <2>2 DEF Fits
    <2>3. CASE r = q /\ Entry(y, r) = e /\ p \in InUse(z) /\ Entry(y, p) = Entry(z, p)
      BY <1>1, <1>8, <2>3 DEF Fits
    <2> QED
      BY <1>5, <1>8, <2>1, <2>2, <2>3
  <1>9. \A p \in InUse(y) \ E :
          Entry(y, p).kind = "file" => Full(y, Entry(y, p).cluster, Entry(y, p).size)
    BY <1>2, <1>4, <1>5 DEF Fits
  <1>10. Path(y.fat, Trail(y, Root))
    BY <1>1, <1>3, <1>4
  <1> QED
    BY <1>3, <1>6, <1>7, <1>8, <1>9, <1>10 DEF Partly

LEMMA StrayedApply ==
  ASSUME NEW z, NEW y, NEW q, NEW e, Strayed(z, y, q, e), NEW w \in Writes, Filler(w, q, e)
  PROVE  Strayed(z, Apply(w, y), q, e)
  <1> DEFINE a == Apply(w, y)
  <1>0. a = Apply(w, y) /\ y \in Disks
    BY DEF Strayed
  <1> HIDE DEF a
  <1>1. \A u : /\ u \in Disks /\ u.fat = y.fat /\ u.written = y.written
               /\ \A p \in Places : \/ Entry(u, p) = Entry(y, p)
                                    \/ Entry(u, p).kind \notin {"file", "dir"}
                                    \/ p = q /\ Entry(u, p) = e
               => Strayed(z, u, q, e)
    BY DEF Strayed, InUse
  <1>2. CASE w.k = "blank" /\ NoneIn(w.s)
    <2>1. w = Blank(w.c, w.s) /\ w.c \in Clusters /\ w.s \in [1..SlotsPer -> Cell]
      BY <1>2, MissedIs
    <2>2. Overlaid(y, a, w.c, w.s)
      <3>1. Overlaid(y, Apply(Blank(w.c, w.s), y), w.c, w.s)
        BY <1>0, <2>1, BlankOverlaid
      <3> QED
        BY <1>0, <2>1, <3>1
    <2>3. \A p \in Places : p[2] \in 1..SlotsPer
      BY DEF Places
    <2>4. \A p \in Places : Entry(a, p) = Entry(y, p) \/ Entry(a, p).kind \notin {"file", "dir"}
      BY <1>2, <2>2, <2>3 DEF Overlaid, NoneIn
    <2>5. a \in Disks /\ a.fat = y.fat /\ a.written = y.written
      BY <2>2 DEF Overlaid
    <2> QED
      BY <1>0, <1>1, <2>4, <2>5
  <1>3. CASE w.k = "erase"
    <2>1. w = Erase(w.p) /\ w.p \in Places
      BY <1>3 DEF Erase, Writes
    <2>2. /\ a \in Disks /\ a.fat = y.fat /\ a.written = y.written
          /\ \A p \in Places : Entry(a, p) = IF p = w.p THEN Unused ELSE Entry(y, p)
      BY <1>0, <2>1, ApplyErase
    <2> QED
      BY <1>0, <1>1, <2>2, EmptyKinds
  <1>4. CASE q \in Places /\ e \in Entries /\ \E ks \in SUBSET Handles : w = Put(q, e, ks)
    <2>1. PICK ks \in SUBSET Handles : w = Put(q, e, ks)
      BY <1>4
    <2>2. /\ a \in Disks /\ a.fat = y.fat /\ a.written = y.written
          /\ \A p \in Places : Entry(a, p) = IF p = q THEN e ELSE Entry(y, p)
      <3>1. a = Apply(Put(q, e, ks), y)
        BY <1>0, <2>1
      <3> QED
        BY <1>0, <1>4, <3>1, ApplyPut
    <2> QED
      BY <1>0, <1>1, <2>2
  <1> QED
    BY <1>2, <1>3, <1>4 DEF Filler

\* A write to the table that was missed, with none after it.
LEMMA Unlinked ==
  ASSUME NEW plan \in Seq(Writes), NEW x \in Disks, NEW k \in 1..Len(plan), plan[k].k = "fat",
         NEW j \in k..Len(plan), NEW s, s = States(plan, x), Sound(s[k-1]),
         NEW q, NEW e, \A i \in k+1..j : Filler(plan[i], q, e),
         NEW E, NEW M, j = k \/ Fits(s[k-1], q, e, E, M)
  PROVE  Partly(States(Without(plan, k), x)[j], E, M)
  <1> DEFINE r == States(Without(plan, k), x)
             n == Len(plan)
             z == s[k-1]
             S == {i \in 0..n : Strayed(z, r[i], q, e)}
  <1>0. r = States(Without(plan, k), x)
    OBVIOUS
  <1> HIDE DEF r
  <1>1. /\ Runs(r, Without(plan, k), x) /\ n \in Nat /\ plan[k] \in Writes
        /\ r[k] = Apply(Missed(plan[k]), s[k-1])
        /\ \A i \in k+1..n : r[i] = Apply(plan[i], r[i-1])
    BY <1>0, WithoutRuns
  <1>2. r[k] = z
    <2>1. Missed(plan[k]) = Nothing
      BY <1>1, MissedIs
    <2> QED
      BY <1>1, <2>1, ApplyNothing
  <1>3. CASE j = k
    BY <1>0, <1>2, <1>3, SoundPartly
  <1>4. CASE j # k
    <2>1. Fits(z, q, e, E, M)
      BY <1>4
    <2>2. Strayed(z, z, q, e)
      BY DEF Strayed, Sound
    <2> HIDE DEF z
    <2>3. k \in S
      BY <1>2, <2>2
    <2>4. ASSUME NEW i \in k+1..j, i - 1 \in S PROVE i \in S
      <3>1. /\ i \in 0..n /\ i \in k+1..n /\ plan[i] \in Writes /\ Filler(plan[i], q, e)
            /\ Strayed(z, r[i-1], q, e)
        BY <2>4
      <3>2. r[i] = Apply(plan[i], r[i-1])
        BY <1>1, <3>1
      <3>3. Strayed(z, r[i], q, e)
        BY <3>1, <3>2, StrayedApply
      <3> QED
        BY <3>1, <3>3
    <2>5. j \in S
      <3> DEFINE id == [i \in 0..n |-> i]
      <3>1. /\ k \in 0..n /\ j \in k..n /\ id[j] = j /\ id[k] = k
            /\ \A i \in k+1..j : id[i-1] = i - 1 /\ id[i] = i
        OBVIOUS
      <3>2. id[k] \in S /\ \A i \in k+1..j : id[i-1] \in S => id[i] \in S
        BY <2>3, <2>4, <3>1
      <3> HIDE DEF id, S, n
      <3>3. id[j] \in S
        BY <1>1, <3>1, <3>2, Kept
      <3> QED
        BY <3>1, <3>3
    <2>6. Strayed(z, r[j], q, e)
      BY <2>5
    <2> HIDE DEF S
    <2> QED
      BY <1>0, <2>1, <2>6, StrayedPartly DEF z
  <1> QED
    BY <1>3, <1>4

LEMMA HurtIs ==
  ASSUME NEW name, NEW on, NEW y, NEW E, NEW M, Partly(y, E, M),
         E = IF name \in {"unlink", "rmdir", "mkdir", "write"} THEN on ELSE {},
         M = IF name = "rename" THEN on ELSE {}
  PROVE  Hurt(name, on, y)
  <1>1. y \in Disks
    BY DEF Partly
  <1> QED
    BY <1>1 DEF Hurt

\* An entry of an empty file fits anywhere.
LEMMA EmptyFits ==
  ASSUME NEW z \in Disks, NEW q, NEW e, e.cluster = 0, e.size = 0, NEW E, NEW M
  PROVE  Fits(z, q, e, E, M)
  <1>1. On(z, 0) = {} /\ Len(Trail(z, 0)) = 0
    BY DiskFacts
  <1>2. Full(z, 0, 0)
    BY <1>1 DEF Full
  <1> QED
    BY <1>1, <1>2 DEF Fits

\* An operation that makes room for the entry e in the slot q, and enters it.
Entering(plan, s, q, e, E, M) ==
  /\ q \in Places /\ e \in Entries
  /\ \A k \in 1..Len(plan) :
       /\ plan[k].k \in {"fat", "blank", "entry", "erase"}
       /\ plan[k].k = "blank" => NoneIn(plan[k].s)
       /\ plan[k].k = "entry" => \E ks \in SUBSET Handles : plan[k] = Put(q, e, ks)
       /\ plan[k].k = "fat" => Sound(s[k-1]) /\ (k < Len(plan) => Fits(s[k-1], q, e, E, M))
       /\ Partly(s[k], E, M)

LEMMA EnteringSlips ==
  ASSUME NEW plan \in Seq(Writes), NEW x \in Disks, NEW s, s = States(plan, x), NEW q, NEW e, NEW E, NEW M,
         Entering(plan, s, q, e, E, M), NEW name, NEW on,
         E = IF name \in {"unlink", "rmdir", "mkdir", "write"} THEN on ELSE {},
         M = IF name = "rename" THEN on ELSE {}
  PROVE  Slips(name, on, plan, x)
  <1> SUFFICES ASSUME NEW k \in 1..Len(plan), NEW j \in k..Len(plan), Slip(plan, k, j)
               PROVE  Partly(States(Without(plan, k), x)[j], E, M)
    BY HurtIs DEF Slips
  <1>1. Len(plan) \in Nat /\ j \in 1..Len(plan)
    OBVIOUS
  <1>2. q \in Places /\ e \in Entries
    BY DEF Entering
  <1>3. ASSUME NEW i \in 1..Len(plan)
        PROVE  /\ plan[i].k \in {"fat", "blank", "entry", "erase"}
               /\ plan[i].k = "blank" => NoneIn(plan[i].s)
               /\ plan[i].k = "entry" => \E ks \in SUBSET Handles : plan[i] = Put(q, e, ks)
               /\ plan[i].k = "fat" => Sound(s[i-1]) /\ (i < Len(plan) => Fits(s[i-1], q, e, E, M))
               /\ Partly(s[i], E, M)
    BY DEF Entering
  <1>4. CASE plan[k].k = "blank"
    <2>1. NoneIn(plan[k].s) /\ Partly(s[j], E, M)
      BY <1>1, <1>3, <1>4
    <2> QED
      BY <1>4, <2>1, Unblanked
  <1>5. CASE plan[k].k = "fat"
    <2>1. \A i \in k+1..j : i \in 1..Len(plan) /\ plan[i].k # "fat"
      BY <1>5 DEF Slip
    <2>2. \A i \in k+1..j : Filler(plan[i], q, e)
      BY <1>2, <1>3, <2>1 DEF Filler
    <2>3. Sound(s[k-1]) /\ (j = k \/ Fits(s[k-1], q, e, E, M))
      BY <1>1, <1>3, <1>5
    <2> QED
      BY <1>5, <2>2, <2>3, Unlinked
  <1>6. plan[k].k \in {"fat", "blank"}
    BY <1>3 DEF Slip
  <1> QED
    BY <1>4, <1>5, <1>6

-----------------------------------------------------------------------------
(* Directories and free clusters                                            *)

LEMMA DivMod ==
  ASSUME NEW m \in Nat, NEW w \in Nat \ {0}
  PROVE  m \div w \in Int /\ m % w \in 0..w - 1 /\ m = w * (m \div w) + (m % w)
  <1> DEFINE q == m \div w
             r == m % w
  <1>1. q \in Int /\ r \in 0..w - 1 /\ m = w * q + r
    OBVIOUS
  <1> QED
    BY <1>1

LEMMA Splitting ==
  ASSUME NEW n \in Nat, NEW w \in Nat \ {0}
  PROVE  /\ \A j \in 1..n * w : ((j - 1) \div w) + 1 \in 1..n /\ ((j - 1) % w) + 1 \in 1..w
         /\ \A i \in 1..n, r \in 1..w : /\ (i - 1) * w + r \in 1..n * w
                                        /\ (((i - 1) * w + r - 1) \div w) + 1 = i
                                        /\ (((i - 1) * w + r - 1) % w) + 1 = r
  <1>1. ASSUME NEW j \in 1..n * w
        PROVE  ((j - 1) \div w) + 1 \in 1..n /\ ((j - 1) % w) + 1 \in 1..w
    <2> DEFINE q == (j - 1) \div w
               r == (j - 1) % w
    <2>1. n * w \in Nat /\ j \in Nat
      OBVIOUS
    <2>2. q \in Int /\ r \in 0..w - 1 /\ j - 1 = w * q + r
      BY <2>1
    <2> HIDE DEF q, r
    <2>3. q >= 0
      <3> SUFFICES ASSUME q <= -1 PROVE FALSE
        BY <2>2
      <3>1. w * q <= w * (-1)
        BY <2>2
      <3> QED
        BY <2>1, <2>2, <3>1
    <2>4. q < n
      <3> SUFFICES ASSUME q >= n PROVE FALSE
        BY <2>2
      <3>1. w * q >= w * n
        BY <2>2
      <3>2. w * n = n * w
        OBVIOUS
      <3> QED
        BY <2>1, <2>2, <3>1, <3>2
    <2> QED
      BY <2>2, <2>3, <2>4 DEF q, r
  <1>2. ASSUME NEW i \in 1..n, NEW r \in 1..w
        PROVE  /\ (i - 1) * w + r \in 1..n * w
               /\ (((i - 1) * w + r - 1) \div w) + 1 = i
               /\ (((i - 1) * w + r - 1) % w) + 1 = r
    <2>1. (i - 1) * w >= 0 /\ (i - 1) * w + w = i * w /\ i * w <= n * w /\ (i - 1) * w \in Nat
      <3>1. i - 1 \in Nat /\ n - i \in Nat
        OBVIOUS
      <3>2. (i - 1) * w \in Nat /\ (n - i) * w \in Nat
        BY <3>1
      <3>3. (i - 1) * w = i * w - w /\ (n - i) * w = n * w - i * w
        OBVIOUS
      <3> QED
        BY <3>2, <3>3
    <2>2. (i - 1) * w + r \in 1..n * w
      BY <2>1
    <2> DEFINE m == (i - 1) * w + r - 1
    <2>3. m \in Nat /\ m = w * (i - 1) + (r - 1)
      BY <2>1
    <2>4. m \div w \in Int /\ m % w \in 0..w - 1 /\ m = w * (m \div w) + (m % w)
      <3>1. m \in Nat
        BY <2>3
      <3> HIDE DEF m
      <3> QED
        BY <3>1, DivMod
    <2> DEFINE q == m \div w
               s == m % w
    <2>5. q \in Int /\ s \in 0..w - 1 /\ w * q + s = w * (i - 1) + (r - 1)
      BY <2>3, <2>4
    <2> HIDE DEF m, q, s
    <2>6. q = i - 1
      <3>1. CASE q < i - 1
        <4>1. (i - 1 - q) \in Nat /\ i - 1 - q >= 1
          BY <2>5, <3>1
        <4>2. w * (i - 1 - q) >= w
          BY <4>1
        <4>3. w * (i - 1 - q) = w * (i - 1) - w * q
          BY <2>5
        <4> QED
          BY <2>5, <4>2, <4>3
      <3>2. CASE q > i - 1
        <4>1. q - (i - 1) \in Nat /\ q - (i - 1) >= 1
          BY <2>5, <3>2
        <4>2. w * (q - (i - 1)) >= w
          BY <4>1
        <4>3. w * (q - (i - 1)) = w * q - w * (i - 1)
          BY <2>5
        <4> QED
          BY <2>5, <4>2, <4>3
      <3> QED
        BY <2>5, <3>1, <3>2
    <2>7. s = r - 1
      BY <2>5, <2>6
    <2> QED
      BY <2>2, <2>6, <2>7 DEF m, q, s
  <1> QED
    BY <1>1, <1>2

LEMMA DiskIs ==
  /\ \A c : Chain(c) = Trail(Disk, c)
  /\ \A p : At(p) = Entry(Disk, p)
  /\ Disk.fat = fat /\ Disk.slot = slot /\ Disk.written = written /\ Disk.open = open
  BY DEF Chain, Trail, Disk, At, Entry

LEMMA PlacesFacts ==
  ASSUME Disk \in Disks, NEW d
  PROVE  PlacesOf(d) \in Seq(Places) /\ Range(PlacesOf(d)) = On(Disk, d) \X (1..SlotsPer)
  <1> DEFINE t == Trail(Disk, d)
             n == Len(t)
             a(j) == ((j - 1) \div SlotsPer) + 1
             b(j) == ((j - 1) % SlotsPer) + 1
  <1>1. t \in Seq(Clusters) /\ n \in Nat /\ SlotsPer \in Nat \ {0}
    BY DiskFacts, FatAssumption
  <1>2. \A j \in 1..n * SlotsPer : a(j) \in 1..n /\ b(j) \in 1..SlotsPer
    <2> HIDE DEF n
    <2> QED
      BY <1>1, Splitting
  <1>3. \A i \in 1..n, r \in 1..SlotsPer :
          /\ (i - 1) * SlotsPer + r \in 1..n * SlotsPer
          /\ a((i - 1) * SlotsPer + r) = i /\ b((i - 1) * SlotsPer + r) = r
    <2> HIDE DEF n
    <2> QED
      BY <1>1, Splitting
  <1>4. PlacesOf(d) = [j \in 1..n * SlotsPer |-> <<t[a(j)], b(j)>>] /\ n * SlotsPer \in Nat
    BY <1>1, DiskIs DEF PlacesOf
  <1> HIDE DEF n, t, a, b
  <1>5. \A i \in 1..n : t[i] \in Clusters
    BY <1>1 DEF n
  <1>6. PlacesOf(d) \in Seq(Places)
    BY <1>2, <1>4, <1>5 DEF Places
  <1>7. Range(PlacesOf(d)) \subseteq On(Disk, d) \X (1..SlotsPer)
    BY <1>1, <1>2, <1>4 DEF Range, On, n, t
  <1>8. ASSUME NEW p \in On(Disk, d) \X (1..SlotsPer) PROVE p \in Range(PlacesOf(d))
    <2>1. PICK i \in 1..n : t[i] = p[1]
      BY <1>1 DEF On, Range, n, t
    <2> DEFINE j == (i - 1) * SlotsPer + p[2]
    <2>2. j \in 1..n * SlotsPer /\ a(j) = i /\ b(j) = p[2]
      BY <1>3
    <2> HIDE DEF j
    <2>3. PlacesOf(d)[j] = <<t[i], p[2]>> /\ j \in DOMAIN PlacesOf(d)
      BY <1>4, <2>2
    <2>4. PlacesOf(d)[j] = p
      BY <2>1, <2>3
    <2> QED
      BY <2>3, <2>4 DEF Range
  <1> QED
    BY <1>6, <1>7, <1>8

LEMMA ListingFacts ==
  ASSUME Disk \in Disks, NEW d
  PROVE  /\ Listing(d) \in Seq(Places)
         /\ Range(Listing(d)) = {p \in InUse(Disk) : p[1] \in On(Disk, d)}
  <1>1. PlacesOf(d) \in Seq(Places) /\ Range(PlacesOf(d)) = On(Disk, d) \X (1..SlotsPer)
    BY PlacesFacts
  <1> DEFINE S == {p \in Places : At(p).kind \in {"file", "dir"}}
  <1>2. S = InUse(Disk)
    BY DiskIs DEF InUse
  <1>3. Listing(d) = Only(PlacesOf(d), S)
    BY DEF Listing
  <1> HIDE DEF S
  <1>4. /\ Only(PlacesOf(d), S) \in Seq(Places)
        /\ Range(Only(PlacesOf(d), S)) = Range(PlacesOf(d)) \cap S
    BY <1>1, OnlyFacts
  <1>5. \A p \in InUse(Disk) : p \in Places /\ p = <<p[1], p[2]>> /\ p[2] \in 1..SlotsPer
    BY DEF InUse, Places
  <1> QED
    BY <1>1, <1>2, <1>3, <1>4, <1>5

LEMMA LiveFacts ==
  ASSUME Disk \in Disks
  PROVE  /\ Dirs \subseteq DirHeads(Disk) \cup {0} /\ Live \subseteq InUse(Disk)
         /\ \A p \in InUse(Disk) : Reached(Disk, p) => p \in Live
         /\ Sound(Disk) => Live = InUse(Disk) /\ Dirs \subseteq DirHeads(Disk)
  <1>1. \A d : Range(Listing(d)) = {p \in InUse(Disk) : p[1] \in On(Disk, d)}
    BY ListingFacts
  <1>2. Dirs = {Root} \cup {Entry(Disk, q).cluster : q \in {r \in InUse(Disk) :
                               r[1] \in On(Disk, Root) /\ Entry(Disk, r).kind = "dir"}}
    BY <1>1, DiskIs DEF Dirs
  <1>3. Live = UNION {{p \in InUse(Disk) : p[1] \in On(Disk, d)} : d \in Dirs}
    BY <1>1 DEF Live
  <1>4. Dirs \subseteq DirHeads(Disk) \cup {0}
    BY <1>2, DiskFacts, ClusterFacts DEF DirHeads, Entries
  <1>5. ASSUME NEW p \in InUse(Disk), Reached(Disk, p) PROVE p \in Live
    <2>1. \E d \in Dirs : p[1] \in On(Disk, d)
      BY <1>2, <1>5 DEF Reached
    <2> QED
      BY <1>3, <2>1
  <1>6. ASSUME Sound(Disk) PROVE Live = InUse(Disk) /\ Dirs \subseteq DirHeads(Disk)
    <2>1. \A p \in InUse(Disk) : Reached(Disk, p)
      BY <1>6, SoundPartly
    <2>2. \A q \in InUse(Disk) : Entry(Disk, q).kind = "dir" => Entry(Disk, q).cluster # 0
      BY <1>6 DEF Sound, Rooted
    <2>3. 0 \notin Dirs
      BY <1>2, <2>2, ClusterFacts
    <2> QED
      BY <1>3, <1>4, <1>5, <2>1, <2>3
  <1> QED
    BY <1>3, <1>4, <1>5, <1>6

LEMMA FreeFacts ==
  ASSUME Disk \in Disks
  PROVE  /\ FreeList \in Seq(Clusters) /\ Distinct(FreeList)
         /\ Range(FreeList) = {c \in Clusters : fat[c] = Free}
  <1> DEFINE s == [k \in 1..LastCluster - 1 |-> k + 1]
             S == {c \in Clusters : fat[c] = Free}
  <1>1. s \in Seq(Clusters) /\ Distinct(s) /\ Range(s) = Clusters
    <2>1. LastCluster - 1 \in Nat /\ LastCluster \in Nat
      BY ClusterFacts
    <2>2. \A k \in 1..LastCluster - 1 : k + 1 \in Clusters
      BY <2>1 DEF Clusters
    <2>3. \A c \in Clusters : c - 1 \in 1..LastCluster - 1 /\ (c - 1) + 1 = c
      BY <2>1 DEF Clusters
    <2>4. s \in Seq(Clusters)
      BY <2>1, <2>2
    <2>5. DOMAIN s = 1..LastCluster - 1 /\ Len(s) = LastCluster - 1
      BY <2>1
    <2>6. Distinct(s)
      <3> SUFFICES ASSUME NEW j \in 1..LastCluster - 1, NEW k \in 1..LastCluster - 1, s[j] = s[k]
                   PROVE  j = k
        BY <2>5, Zenon DEF Distinct
      <3> QED
        BY <2>1
    <2>7. \A c \in Clusters : c \in Range(s)
      <3> SUFFICES ASSUME NEW c \in Clusters PROVE c \in Range(s)
        OBVIOUS
      <3>1. c - 1 \in DOMAIN s /\ s[c - 1] = c
        BY <2>3, <2>5
      <3> QED
        BY <3>1 DEF Range
    <2> QED
      BY <2>2, <2>4, <2>5, <2>6, <2>7 DEF Range
  <1>2. FreeList = Only(s, S)
    BY DEF FreeList
  <1>3. S \subseteq Clusters
    OBVIOUS
  <1> HIDE DEF s
  <1> QED
    BY <1>1, <1>2, <1>3, OnlyFacts

-----------------------------------------------------------------------------
(* Room for an entry                                                        *)

\* What write_dir_entry plans: one write, none for want of a cluster, or four.
PutForm(put, d, e, free, ks) ==
  \/ \E p \in Places : p[1] \in On(Disk, d) /\ At(p).kind = "unused" /\ put = <<Put(p, e, ks)>>
  \/ free = <<>> /\ put = <<>>
  \/ \E c \in Range(free) :
       /\ c = Head(free)
       /\ put = <<SetFat(c, Eof), Blank(c, NoSlots), SetFat(Last(Chain(d)), c), Put(<<c, 1>>, e, ks)>>

LEMMA PutForms ==
  ASSUME Disk \in Disks, NEW d, NEW e, NEW free \in Seq(Clusters), NEW ks
  PROVE  PutForm(PutInto(d, e, free, ks), d, e, free, ks)
  <1> DEFINE unused == Only(PlacesOf(d), {p \in Places : At(p).kind = "unused"})
  <1>1. /\ unused \in Seq(Places)
        /\ Range(unused) = Range(PlacesOf(d)) \cap {p \in Places : At(p).kind = "unused"}
    BY PlacesFacts, OnlyFacts
  <1>2. CASE unused # <<>>
    <2>1. PutInto(d, e, free, ks) = <<Put(Head(unused), e, ks)>>
      BY <1>2 DEF PutInto
    <2>2. Head(unused) \in Range(unused)
      <3> HIDE DEF unused
      <3>1. Head(unused) = unused[1] /\ 1 \in DOMAIN unused
        BY <1>1, <1>2
      <3> QED
        BY <3>1 DEF Range
    <2>3. Head(unused) \in Places /\ At(Head(unused)).kind = "unused" /\ Head(unused)[1] \in On(Disk, d)
      BY <1>1, <2>2, PlacesFacts
    <2> QED
      BY <2>1, <2>3 DEF PutForm
  <1>3. CASE unused = <<>> /\ free = <<>>
    BY <1>3 DEF PutInto, PutForm
  <1>4. CASE unused = <<>> /\ free # <<>>
    <2> DEFINE c == Head(free)
    <2>1. c \in Range(free)
      <3>1. c = free[1] /\ 1 \in DOMAIN free
        BY <1>4
      <3> QED
        BY <3>1 DEF Range
    <2>2. PutInto(d, e, free, ks) =
            <<SetFat(c, Eof), Blank(c, NoSlots), SetFat(Last(Chain(d)), c), Put(<<c, 1>>, e, ks)>>
      BY <1>4 DEF PutInto
    <2> QED
      BY <2>1, <2>2 DEF PutForm
  <1> QED
    BY <1>2, <1>3, <1>4

\* z is x after the writes that find the slot q for an entry of the directory d; b is any cluster
\* that is neither in a chain nor free.
Prepared(x, z, d, q, free) ==
  /\ Sound(z) /\ z.open = x.open
  /\ InUse(z) = InUse(x) /\ \A p \in InUse(x) : Entry(z, p) = Entry(x, p)
  /\ DirHeads(z) = DirHeads(x)
  /\ Lost(z) \subseteq Lost(x)
  /\ \A p : Keeps(x, z, p)
  /\ q \in Places \ InUse(z) /\ q[1] \in On(z, d)
  /\ \A b \in Clusters : b \notin Used(x) /\ b \notin Range(free) => b \notin Used(z) /\ z.fat[b] = x.fat[b]

\* What is in use in x stays so in z, and other clusters, but the free ones, stay unused.
Untouched(x, z, free) ==
  /\ InUse(z) = InUse(x) /\ \A p \in InUse(x) : Entry(z, p) = Entry(x, p)
  /\ \A b \in Clusters : b \notin Used(x) /\ b \notin Range(free) => b \notin Used(z) /\ z.fat[b] = x.fat[b]

\* The plan of PutInto comes to a slot and fills it.
Finds(put, x, d, e, free, ks, s, n, q) ==
  /\ n \in Nat /\ Len(put) = n + 1 /\ put[n + 1] = Put(q, e, ks)
  /\ \A k \in 1..n : put[k].k \in {"fat", "blank"} /\ (put[k].k = "blank" => NoneIn(put[k].s))
  /\ \A k \in 0..n : Sound(s[k]) /\ Untouched(x, s[k], free)
  /\ Prepared(x, s[n], d, q, free) /\ q \in Places

LEMMA WriteTypes ==
  /\ \A c \in Clusters, v \in Clusters \cup {Free, Eof} : SetFat(c, v) \in Writes /\ SetFat(c, v).k = "fat"
  /\ \A c \in Clusters, s \in [1..SlotsPer -> Cell] : Blank(c, s) \in Writes /\ Blank(c, s).k = "blank"
  /\ \A c \in Clusters : Data(c) \in Writes /\ Data(c).k = "data"
  /\ \A p \in Places, e \in Entries, ks \in SUBSET Handles : Put(p, e, ks) \in Writes
  /\ \A p, e, ks : Put(p, e, ks).k = "entry" /\ Put(p, e, ks).e = e /\ Put(p, e, ks).p = p
  /\ \A p \in Places, f \in Copies, ks \in SUBSET Handles :
       Update(p, f, ks) \in Writes /\ Update(p, f, ks).k = "update"
  /\ \A p \in Places : Erase(p) \in Writes /\ Erase(p).k = "erase"
  BY DEF Writes, SetFat, Blank, Data, Put, Update, Erase

LEMMA NoSlotsFacts ==
  /\ NoSlots \in [1..SlotsPer -> Cell] /\ NoneIn(NoSlots)
  /\ Dots \in [1..SlotsPer -> Cell] /\ NoneIn(Dots)
  BY DEF NoSlots, Dots, NoneIn, Cell, Unused, Dot, Slot

LEMMA PutFinds ==
  ASSUME Disk \in Disks, NEW x, Sound(x), NEW d \in DirHeads(x), Trail(x, d) = Trail(Disk, d),
         \A p \in Places : At(p).kind = "unused" /\ p[1] \in On(Disk, d) => p \notin InUse(x),
         NEW free \in Seq(Clusters), Range(free) \cap Used(x) = {},
         NEW e \in Entries, NEW ks \in SUBSET Handles,
         NEW put, put = PutInto(d, e, free, ks), put # <<>>, NEW s, s = States(put, x)
  PROVE  put \in Seq(Writes) /\ \E n, q : Finds(put, x, d, e, free, ks, s, n, q)
  <1>1. x \in Disks /\ d \in Heads(x) /\ d \in Clusters
    BY HeadFacts DEF Sound
  <1>2. CASE \E p \in Places : /\ p[1] \in On(Disk, d) /\ At(p).kind = "unused"
                               /\ put = <<Put(p, e, ks)>>
    <2>1. PICK q \in Places : q[1] \in On(Disk, d) /\ At(q).kind = "unused" /\ put = <<Put(q, e, ks)>>
      BY <1>2
    <2>2. put \in Seq(Writes) /\ Len(put) = 1 /\ put[1] = Put(q, e, ks)
      BY <2>1, WriteTypes
    <2>3. s[0] = x
      BY <1>1, <2>2, StatesRun DEF Runs
    <2>4. q \in Places \ InUse(x) /\ q[1] \in On(x, d)
      BY <2>1 DEF On
    <2>5. \A p : Keeps(x, x, p)
      <3> SUFFICES ASSUME NEW p PROVE Keeps(x, x, p)
        OBVIOUS
      <3>1. \A c : Len(Trail(x, c)) \in Nat
        BY <1>1, DiskFacts
      <3> QED
        BY <3>1 DEF Keeps, Longer
    <2>6. Prepared(x, s[0], d, q, free)
      BY <2>3, <2>4, <2>5 DEF Prepared
    <2>7. Finds(put, x, d, e, free, ks, s, 0, q)
      BY <2>1, <2>2, <2>3, <2>6 DEF Finds, Untouched
    <2> QED
      BY <2>2, <2>7
  <1>3. ASSUME NEW c \in Range(free),
               put = <<SetFat(c, Eof), Blank(c, NoSlots), SetFat(Last(Chain(d)), c), Put(<<c, 1>>, e, ks)>>
        PROVE  put \in Seq(Writes) /\ \E n, q : Finds(put, x, d, e, free, ks, s, n, q)
    <2> DEFINE l == Last(Trail(x, d))
               q == <<c, 1>>
    <2>1. c \in Clusters \ Used(x)
      BY DEF Range
    <2>2. l \in On(x, d) /\ l \in Clusters /\ l = Last(Chain(d)) /\ q \in Places
      <3>1. Trail(x, d) \in Seq(Clusters) /\ Trail(x, d) # <<>>
        BY <1>1, DiskFacts
      <3>2. l = Trail(x, d)[Len(Trail(x, d))] /\ Len(Trail(x, d)) \in DOMAIN Trail(x, d)
        BY <3>1 DEF Last
      <3>3. l \in On(x, d) /\ l \in Clusters
        BY <3>1, <3>2 DEF On, Range
      <3>4. 1 \in 1..SlotsPer
        BY FatAssumption
      <3> QED
        BY <2>1, <3>3, <3>4, DiskIs DEF Places
    <2> HIDE DEF l, q
    <2>3. /\ put \in Seq(Writes) /\ Len(put) = 4
          /\ put[1] = SetFat(c, Eof) /\ put[2] = Blank(c, NoSlots) /\ put[3] = SetFat(l, c)
          /\ put[4] = Put(q, e, ks)
          /\ put[1].k = "fat" /\ put[2].k = "blank" /\ put[3].k = "fat"
      <3>1. /\ SetFat(c, Eof) \in Writes /\ Blank(c, NoSlots) \in Writes /\ SetFat(l, c) \in Writes
            /\ Put(q, e, ks) \in Writes
            /\ SetFat(c, Eof).k = "fat" /\ Blank(c, NoSlots).k = "blank" /\ SetFat(l, c).k = "fat"
        BY <2>1, <2>2, WriteTypes, NoSlotsFacts
      <3> QED
        BY <1>3, <2>2, <3>1 DEF q
    <2>4. /\ s[0] = x /\ s[1] = Apply(SetFat(c, Eof), s[0]) /\ s[2] = Apply(Blank(c, NoSlots), s[1])
          /\ s[3] = Apply(SetFat(l, c), s[2])
      <3>1. Runs(s, put, x)
        BY <1>1, <2>3, StatesRun
      <3>2. 1 \in 1..Len(put) /\ 2 \in 1..Len(put) /\ 3 \in 1..Len(put) /\ 1 - 1 = 0 /\ 2 - 1 = 1 /\ 3 - 1 = 2
        BY <2>3
      <3>3. \A k \in 1..Len(put) : s[k] = Apply(put[k], s[k-1])
        BY <3>1 DEF Runs
      <3>4. s[1] = Apply(put[1], s[1-1]) /\ s[2] = Apply(put[2], s[2-1]) /\ s[3] = Apply(put[3], s[3-1])
        BY <3>2, <3>3
      <3> QED
        BY <2>3, <3>1, <3>2, <3>4 DEF Runs
    <2>5. /\ Alike(x, s[1]) /\ s[1].fat = [x.fat EXCEPT ![c] = Eof] /\ s[1].written = x.written
          /\ Lost(s[1]) = Lost(x) \cup {c}
      BY <2>1, <2>4, Taken
    <2>6. /\ Alike(s[1], s[2]) /\ Lost(s[2]) = Lost(s[1]) /\ s[2].fat = s[1].fat
      <3>1. Sound(s[1]) /\ c \in Clusters \ Used(s[1])
        BY <2>1, <2>5 DEF Alike
      <3> QED
        BY <2>4, <3>1, NoSlotsFacts, Blanked
    <2>7. Alike(x, s[2])
      BY <2>5, <2>6, AlikeOn
    <2>8. /\ Sound(s[2]) /\ s[2] \in Disks /\ Used(s[2]) = Used(x) /\ d \in Heads(s[2])
          /\ s[2].fat = [x.fat EXCEPT ![c] = Eof] /\ s[2].fat[c] = Eof
          /\ Trail(s[2], d) = Trail(x, d) /\ On(s[2], d) = On(x, d)
          /\ Lost(s[2]) = Lost(x) \cup {c}
      BY <1>1, <2>1, <2>5, <2>6, <2>7 DEF Alike, Sound, Disks
    <2>9. /\ s[3] \in Disks /\ s[3].fat = [s[2].fat EXCEPT ![l] = c]
          /\ s[3].slot = s[2].slot /\ s[3].written = s[2].written /\ s[3].open = s[2].open
      BY <2>1, <2>2, <2>4, <2>8, ApplyFat
    <2>10. /\ Sound(s[3]) /\ DirHeads(s[3]) = DirHeads(s[2]) /\ InUse(s[3]) = InUse(s[2])
           /\ Used(s[3]) = Used(s[2]) \cup {c}
           /\ On(s[3], d) = On(s[2], d) \cup {c}
           /\ \A p : Keeps(s[2], s[3], p)
      <3>1. s[3].fat = [s[2].fat EXCEPT ![Last(Trail(s[2], d))] = c]
        BY <2>8, <2>9 DEF l
      <3>2. c \in Clusters \ Used(s[2])
        BY <2>1, <2>8
      <3> DEFINE a == s[2]
                 b == s[3]
      <3>3. /\ b \in Disks /\ Sound(a) /\ d \in Heads(a) /\ a.fat[c] = Eof
            /\ b.fat = [a.fat EXCEPT ![Last(Trail(a, d))] = c] /\ b.slot = a.slot /\ b.written = a.written
            /\ c \in Clusters \ Used(a)
        BY <2>8, <2>9, <3>1, <3>2
      <3> HIDE DEF l, a, b
      <3>4. /\ Sound(b) /\ DirHeads(b) = DirHeads(a) /\ InUse(b) = InUse(a)
            /\ Used(b) = Used(a) \cup {c}
            /\ On(b, d) = On(a, d) \cup {c}
            /\ \A p : Keeps(a, b, p)
        BY <3>3, Linked
      <3> QED
        BY <3>4 DEF a, b
    <2>11. \A p : Keeps(x, s[3], p)
      BY <1>1, <2>7, <2>8, <2>9, <2>10, KeepsOn DEF Alike
    <2>12. \A b \in Clusters \ {c, l} : s[3].fat[b] = x.fat[b]
      BY <1>1, <2>1, <2>2, <2>8, <2>9 DEF Disks
    <2>13. x.fat[l] # Free
      BY <1>1, <2>2, HeadFacts
    <2>14. Lost(s[3]) \subseteq Lost(x)
      <3> SUFFICES ASSUME NEW b \in Lost(s[3]) PROVE b \in Lost(x)
        OBVIOUS
      <3>1. b \in Clusters /\ s[3].fat[b] # Free /\ b \notin Used(x) /\ b # c
        BY <2>8, <2>10 DEF Lost
      <3> QED
        BY <2>12, <2>13, <3>1 DEF Lost
    <2>15. q \in Places \ InUse(s[3]) /\ q[1] \in On(s[3], d)
      <3>1. q[1] = c
        BY DEF q
      <3>2. q \notin InUse(x)
        BY <2>1, <3>1, InUseUsed
      <3> QED
        BY <2>2, <2>7, <2>10, <3>1, <3>2 DEF Alike
    <2>16. \A b \in Clusters : b \notin Used(x) /\ b \notin Range(free) => b \notin Used(s[3]) /\ s[3].fat[b] = x.fat[b]
      <3> SUFFICES ASSUME NEW b \in Clusters, b \notin Used(x), b \notin Range(free)
                   PROVE  b \notin Used(s[3]) /\ s[3].fat[b] = x.fat[b]
        OBVIOUS
      <3>1. b # c /\ b # l
        BY <1>1, <2>2, HeadFacts
      <3> QED
        BY <2>8, <2>10, <2>12, <3>1
    <2>17. /\ InUse(s[3]) = InUse(x) /\ DirHeads(s[3]) = DirHeads(x) /\ s[3].open = x.open
           /\ \A p \in InUse(x) : Entry(s[3], p) = Entry(x, p)
      BY <2>7, <2>9, <2>10 DEF Alike, Entry
    <2>18. Prepared(x, s[3], d, q, free)
      BY <2>10, <2>11, <2>14, <2>15, <2>16, <2>17 DEF Prepared
    <2>19. \A k \in 0..3 : Sound(s[k]) /\ Untouched(x, s[k], free)
      <3>1. \A b \in Clusters \ {c} : s[1].fat[b] = x.fat[b] /\ s[2].fat[b] = x.fat[b]
        BY <1>1, <2>5, <2>8 DEF Disks
      <3>2. c \in Range(free)
        OBVIOUS
      <3>3. Used(s[1]) = Used(x)
        BY <2>5 DEF Alike
      <3>4. \A b \in Clusters : b \notin Used(x) /\ b \notin Range(free) =>
               /\ b \notin Used(s[1]) /\ s[1].fat[b] = x.fat[b]
               /\ b \notin Used(s[2]) /\ s[2].fat[b] = x.fat[b]
        BY <2>8, <3>1, <3>2, <3>3
      <3>5. Sound(s[0]) /\ Untouched(x, s[0], free)
        BY <2>4 DEF Untouched
      <3>6. Sound(s[1]) /\ Untouched(x, s[1], free)
        BY <2>5, <3>4 DEF Untouched, Alike
      <3>7. Sound(s[2]) /\ Untouched(x, s[2], free)
        BY <2>7, <2>8, <3>4 DEF Untouched, Alike
      <3>8. Sound(s[3]) /\ Untouched(x, s[3], free)
        BY <2>10, <2>16, <2>17 DEF Untouched
      <3>9. \A k \in 0..3 : k = 0 \/ k = 1 \/ k = 2 \/ k = 3
        OBVIOUS
      <3> QED
        BY <3>5, <3>6, <3>7, <3>8, <3>9
    <2>20. Finds(put, x, d, e, free, ks, s, 3, q)
      <3>1. put[2].s = NoSlots
        BY <2>3 DEF Blank
      <3>2. \A k \in 1..3 : k = 1 \/ k = 2 \/ k = 3
        OBVIOUS
      <3>3. \A k \in 1..3 : put[k].k \in {"fat", "blank"} /\ (put[k].k = "blank" => NoneIn(put[k].s))
        BY <2>3, <3>1, <3>2, NoSlotsFacts
      <3> QED
        BY <2>2, <2>3, <2>18, <2>19, <3>3 DEF Finds
    <2> QED
      BY <2>3, <2>20
  <1>4. \/ \E p \in Places : /\ p[1] \in On(Disk, d) /\ At(p).kind = "unused"
                              /\ put = <<Put(p, e, ks)>>
        \/ \E c \in Range(free) :
              put = <<SetFat(c, Eof), Blank(c, NoSlots), SetFat(Last(Chain(d)), c), Put(<<c, 1>>, e, ks)>>
    <2>1. PutForm(PutInto(d, e, free, ks), d, e, free, ks)
      BY PutForms
    <2>2. PutForm(put, d, e, free, ks)
      BY <2>1
    <2> QED
      BY <2>2 DEF PutForm
  <1> QED
    BY <1>2, <1>3, <1>4

-----------------------------------------------------------------------------
(* touch, open with O_CREAT, mkdir                                          *)

LEMMA KeptOpened ==
  ASSUME NEW x \in Disks, NEW y \in Disks, Opened(x), \A p : Keeps(x, y, p),
         \A h \in Handles : y.open[h] = x.open[h] \/ Remembers(y, y.open[h])
  PROVE  Opened(y)
  <1> SUFFICES ASSUME NEW h \in Handles, y.open[h] # Closed PROVE Remembers(y, y.open[h])
    BY DEF Opened
  <1>1. CASE y.open[h] = x.open[h]
    <2>1. x.open[h] \in Copies /\ Remembers(x, x.open[h])
      BY <1>1 DEF Disks, Opened
    <2> QED
      BY <1>1, <2>1, KeptRemembered
  <1> QED
    BY <1>1

LEMMA PutSound ==
  ASSUME NEW z, Sound(z), NEW d \in DirHeads(z), NEW q \in Places \ InUse(z), q[1] \in On(z, d),
         NEW e \in Entries, NEW ks \in SUBSET Handles, NEW y, y = Apply(Put(q, e, ks), z),
         e.kind = "dir" => d = Root /\ e.cluster # 0,
         e.size = 0, e.cluster # 0 => e.cluster \notin Used(z) /\ z.fat[e.cluster] = Eof
  PROVE  /\ Sound(y) /\ \A p : Keeps(z, y, p)
         /\ Lost(y) \subseteq Lost(z) \ On(z, e.cluster)
         /\ q \in InUse(y) /\ Entry(y, q) = e
         /\ \A h \in Handles : y.open[h] = IF h \in ks THEN Copy(q, 0, 0) ELSE z.open[h]
  <1>1. z \in Disks
    BY DEF Sound
  <1>2. /\ y \in Disks /\ y.fat = z.fat /\ y.written = z.written
        /\ \A p \in Places : Entry(y, p) = IF p = q THEN e ELSE Entry(z, p)
        /\ \A h \in Handles : y.open[h] = IF h \in ks THEN Copy(q, 0, 0) ELSE z.open[h]
    BY <1>1, ApplyPut
  <1>3. /\ Sound(y) /\ InUse(y) = InUse(z) \cup {q}
        /\ \A p : (p = q /\ q \in InUse(z) => Entry(z, q).cluster = 0) => Keeps(z, y, p)
        /\ (q \in InUse(z) => Entry(z, q).cluster = 0) => Used(z) \cup On(z, e.cluster) \subseteq Used(y)
    BY <1>2, Entered
  <1>4. Lost(y) \subseteq Lost(z) \ On(z, e.cluster)
    BY <1>2, <1>3 DEF Lost
  <1> QED
    BY <1>2, <1>3, <1>4

LEMMA FreeUnused ==
  ASSUME Sound(Disk)
  PROVE  /\ Range(FreeList) \cap Used(Disk) = {}
         /\ \A p \in Places : At(p).kind = "unused" => p \notin InUse(Disk)
  BY FreeFacts, HeadFacts, DiskIs DEF Sound, InUse

LEMMA StoredFacts ==
  ASSUME NEW n \in Names, NEW c \in Clusters \cup {0}, NEW kind \in {"file", "dir"}
  PROVE  Slot(kind, Stored(n), c, 0) \in Entries
  BY FatAssumption DEF Slot, Stored, Entries

LEMMA CreateStep ==
  ASSUME IInv, Ready, NEW d \in Dirs, NEW n \in Names, NEW ks \in SUBSET Handles, Create(d, n, ks)
  PROVE  IInv'
  <1> DEFINE e == Slot("file", Stored(n), 0, 0)
             put == PutInto(d, e, FreeList, ks)
             s == States(put, Disk)
  <1>1. Perform("create", {}, put, {})
    BY DEF Create
  <1>2. /\ Sound(Disk) /\ Opened(Disk) /\ Disk \in Disks /\ d \in DirHeads(Disk)
        /\ e \in Entries /\ e.kind = "file" /\ e.cluster = 0 /\ e.size = 0
    BY LiveFacts, StoredFacts DEF IInv, Slot
  <1>3. put # <<>>
    <2>1. \E k \in 1..Len(put) : TRUE
      BY <1>1 DEF Perform
    <2> HIDE DEF put
    <2>2. Len(<<>>) = 0
      OBVIOUS
    <2> QED
      BY <2>1, <2>2
  <1> HIDE DEF e
  <1>4. put \in Seq(Writes) /\ \E m, q : Finds(put, Disk, d, e, FreeList, ks, s, m, q)
    <2>1. put = PutInto(d, e, FreeList, ks) /\ s = States(put, Disk)
      OBVIOUS
    <2>2. FreeList \in Seq(Clusters)
      BY <1>2, FreeFacts
    <2> HIDE DEF put, s
    <2> QED
      BY <1>2, <1>3, <2>1, <2>2, FreeUnused, PutFinds
  <1>5. PICK m, q : Finds(put, Disk, d, e, FreeList, ks, s, m, q)
    BY <1>4
  <1>6. Runs(s, put, Disk)
    BY <1>2, <1>4, StatesRun
  <1>7. s = States(put, Disk)
    OBVIOUS
  <1> HIDE DEF put, s
  <1> DEFINE z == s[m]
             y == s[m+1]
  <1>8. /\ m \in Nat /\ Len(put) = m + 1 /\ put[m + 1] = Put(q, e, ks)
        /\ \A k \in 1..m : put[k].k \in {"fat", "blank"} /\ (put[k].k = "blank" => NoneIn(put[k].s))
        /\ \A k \in 0..m : Sound(s[k])
        /\ Prepared(Disk, z, d, q, FreeList) /\ q \in Places
    BY <1>5 DEF Finds
  <1>9. y = Apply(Put(q, e, ks), z)
    <2>1. m + 1 \in 1..Len(put) /\ (m + 1) - 1 = m
      BY <1>8
    <2> QED
      BY <1>6, <1>8, <2>1 DEF Runs
  <1> HIDE DEF z, y
  <1>10. /\ Sound(z) /\ d \in DirHeads(z) /\ q \in Places \ InUse(z) /\ q[1] \in On(z, d)
         /\ z.open = Disk.open /\ Lost(z) \subseteq Lost(Disk) /\ \A p : Keeps(Disk, z, p)
    BY <1>2, <1>8 DEF Prepared
  <1>11. /\ Sound(y) /\ \A p : Keeps(z, y, p)
         /\ Lost(y) \subseteq Lost(z)
         /\ q \in InUse(y) /\ Entry(y, q) = e
         /\ \A h \in Handles : y.open[h] = IF h \in ks THEN Copy(q, 0, 0) ELSE z.open[h]
    BY <1>2, <1>9, <1>10, PutSound
  <1>12. Opened(z) /\ z \in Disks /\ y \in Disks
    BY <1>2, <1>10, <1>11, KeptOpened DEF Sound
  <1>13. Remembers(y, Copy(q, 0, 0))
    <2>1. Len(Trail(y, 0)) = 0
      BY <1>12, DiskFacts
    <2>2. Full(y, 0, 0)
      BY <2>1 DEF Full
    <2> QED
      BY <1>2, <1>11, <2>2 DEF Remembers, Copy
  <1>14. Opened(y)
    BY <1>11, <1>12, <1>13, KeptOpened
  <1>15. Fine(Disk, z, {}) /\ Fine(Disk, y, {})
    BY <1>10, <1>11, <1>12, <1>14 DEF Fine
  <1>16. \A k \in 1..Len(put) : Sound(s[k]) /\ put[k].k # "erase"
    <2> SUFFICES ASSUME NEW k \in 1..Len(put) PROVE Sound(s[k]) /\ put[k].k # "erase"
      OBVIOUS
    <2>1. CASE k = m + 1
      BY <1>8, <1>11, <2>1, WriteTypes DEF y
    <2>2. CASE k # m + 1
      <3>1. k \in 1..m /\ k \in 0..m
        BY <1>8, <2>2
      <3> QED
        BY <1>8, <3>1
    <2> QED
      BY <2>1, <2>2
  <1>17. Fine(Disk, s[Len(put)], {})
    BY <1>8, <1>15 DEF y
  <1>18. ASSUME NEW k \in 1..Len(put), put[k].k \in {"data", "entry"}
         PROVE  Fine(Disk, Undone("create", put[k], s[k-1]), {})
    <2>1. k = m + 1 /\ k - 1 = m
      BY <1>8, <1>18
    <2>2. Undone("create", put[k], s[k-1]) = z
      BY <2>1 DEF Undone, z
    <2> QED
      BY <1>15, <2>2
  <1>19. Slips("create", {}, put, Disk)
    <2>1. ASSUME NEW k \in 1..Len(put)
          PROVE  /\ put[k].k \in {"fat", "blank", "entry", "erase"}
                 /\ put[k].k = "blank" => NoneIn(put[k].s)
                 /\ put[k].k = "entry" => \E l \in SUBSET Handles : put[k] = Put(q, e, l)
                 /\ put[k].k = "fat" => Sound(s[k-1]) /\ (k < Len(put) => Fits(s[k-1], q, e, {}, {}))
                 /\ Partly(s[k], {}, {})
      <3>1. Partly(s[k], {}, {})
        BY <1>16, SoundPartly
      <3>2. CASE k = m + 1
        BY <1>8, <3>1, <3>2, WriteTypes
      <3>3. CASE k # m + 1
        <4>1. k \in 1..m /\ k - 1 \in 0..m
          BY <1>8, <3>3
        <4>2. Sound(s[k-1]) /\ s[k-1] \in Disks
          BY <1>8, <4>1 DEF Sound
        <4>3. Fits(s[k-1], q, e, {}, {})
          BY <1>2, <4>2, EmptyFits
        <4> QED
          BY <1>8, <3>1, <4>1, <4>2, <4>3
      <3> QED
        BY <3>2, <3>3
    <2>2. Entering(put, s, q, e, {}, {})
      BY <1>2, <1>8, <2>1 DEF Entering
    <2> QED
      BY <1>2, <1>4, <1>7, <2>2, EnteringSlips
  <1> QED
    BY <1>1, <1>4, <1>7, <1>16, <1>17, <1>18, <1>19, SafeStep

LEMMA MkdirStep ==
  ASSUME IInv, Ready, NEW n \in Names, Mkdir(n)
  PROVE  IInv'
  <1> DEFINE c == Head(FreeList)
             e == Slot("dir", Stored(n), c, 0)
             free == Tail(FreeList)
             put == PutInto(Root, e, free, {})
             v == <<SetFat(c, Eof), Blank(c, Dots)>>
             w == IF put = <<>> THEN <<SetFat(c, Free)>> ELSE put
             plan == v \o w
             s == States(plan, Disk)
             x == States(v, Disk)[2]
             t == States(w, x)
             on == IF put = <<>> THEN {} ELSE {Last(put).p}
  <1>1. Perform("mkdir", on, plan, {}) /\ FreeList # <<>>
    BY DEF Mkdir
  <1>2. Sound(Disk) /\ Opened(Disk) /\ Disk \in Disks
    BY DEF IInv
  <1>3. FreeList \in Seq(Clusters) /\ Distinct(FreeList) /\ Range(FreeList) = {b \in Clusters : fat[b] = Free}
    BY <1>2, FreeFacts
  <1>4. /\ c \in Range(FreeList) /\ c \in Clusters /\ free \in Seq(Clusters)
        /\ Range(free) \subseteq Range(FreeList) /\ c \notin Range(free)
    <2> DEFINE f == FreeList
    <2>1. f \in Seq(Clusters) /\ f # <<>> /\ Distinct(f)
      BY <1>1, <1>3
    <2> HIDE DEF f
    <2>2. /\ Head(f) = f[1] /\ Tail(f) \in Seq(Clusters) /\ Len(Tail(f)) = Len(f) - 1 /\ 1 \in 1..Len(f)
          /\ \A k \in 1..Len(f) - 1 : Tail(f)[k] = f[k+1]
          /\ DOMAIN f = 1..Len(f) /\ DOMAIN Tail(f) = 1..Len(f) - 1
      BY <2>1
    <2>3. \A k \in 1..Len(f) - 1 : k + 1 \in 1..Len(f) /\ k + 1 # 1
      BY <2>1
    <2>4. Head(f) \in Range(f) /\ Head(f) \in Clusters
      BY <2>1, <2>2 DEF Range
    <2>5. Range(Tail(f)) \subseteq Range(f)
      BY <2>2, <2>3 DEF Range
    <2>6. Head(f) \notin Range(Tail(f))
      BY <2>1, <2>2, <2>3 DEF Range, Distinct
    <2> QED
      BY <2>2, <2>4, <2>5, <2>6 DEF f
  <1>5. e \in Entries /\ e.kind = "dir" /\ e.cluster = c /\ e.size = 0 /\ c # 0 /\ c \notin Used(Disk)
    BY <1>2, <1>3, <1>4, StoredFacts, FreeUnused, ClusterFacts DEF Slot
  <1>6. /\ put = PutInto(Root, e, free, {}) /\ w = (IF put = <<>> THEN <<SetFat(c, Free)>> ELSE put)
        /\ on = IF put = <<>> THEN {} ELSE {Last(put).p}
    OBVIOUS
  <1> HIDE DEF c, e, free, put, w, on
  <1>7. /\ v \in Seq(Writes) /\ Len(v) = 2 /\ v[1] = SetFat(c, Eof) /\ v[2] = Blank(c, Dots)
        /\ v[1].k = "fat" /\ v[2].k = "blank"
    <2>1. /\ SetFat(c, Eof) \in Writes /\ SetFat(c, Eof).k = "fat"
          /\ Blank(c, Dots) \in Writes /\ Blank(c, Dots).k = "blank"
      BY <1>4, WriteTypes, NoSlotsFacts
    <2> QED
      BY <2>1
  <1> HIDE DEF v
  <1>8. Runs(States(v, Disk), v, Disk)
    BY <1>2, <1>7, StatesRun
  <1> DEFINE r == States(v, Disk)
  <1>9. r[0] = Disk /\ r[1] = Apply(SetFat(c, Eof), r[0]) /\ r[2] = Apply(Blank(c, Dots), r[1])
    <2>1. 1 \in 1..Len(v) /\ 2 \in 1..Len(v) /\ 1 - 1 = 0 /\ 2 - 1 = 1
      BY <1>7
    <2> HIDE DEF r
    <2>2. Runs(r, v, Disk)
      BY <1>8 DEF r
    <2>3. r[1] = Apply(v[1], r[1-1]) /\ r[2] = Apply(v[2], r[2-1])
      BY <2>1, <2>2 DEF Runs
    <2> QED
      BY <1>7, <2>1, <2>2, <2>3 DEF Runs
  <1>10. x = r[2]
    OBVIOUS
  <1> HIDE DEF r, x
  <1>11. /\ Alike(Disk, r[1]) /\ r[1].fat = [Disk.fat EXCEPT ![c] = Eof] /\ Lost(r[1]) = Lost(Disk) \cup {c}
         /\ \A p : Entry(r[1], p) = Entry(Disk, p)
    BY <1>2, <1>4, <1>5, <1>9, Taken
  <1>12. /\ Alike(r[1], x) /\ Lost(x) = Lost(r[1]) /\ x.fat = r[1].fat
    <2>1. Sound(r[1]) /\ c \in Clusters \ Used(r[1])
      BY <1>4, <1>5, <1>11 DEF Alike
    <2> QED
      BY <1>9, <1>10, <2>1, NoSlotsFacts, Blanked
  <1>13. Alike(Disk, x)
    BY <1>2, <1>11, <1>12, AlikeOn
  <1>14. /\ Sound(x) /\ Used(x) = Used(Disk) /\ Root \in DirHeads(x) /\ Trail(x, Root) = Trail(Disk, Root)
         /\ InUse(x) = InUse(Disk) /\ x.fat[c] = Eof /\ Lost(x) = Lost(Disk) \cup {c} /\ x \in Disks
         /\ x.open = Disk.open /\ \A p : Keeps(Disk, x, p)
    BY <1>2, <1>4, <1>11, <1>12, <1>13, HeadFacts DEF Alike, Sound, Disks
  <1>15. ASSUME w \in Seq(Writes), \A k \in 0..Len(w) : Sound(t[k]), \A k \in 1..Len(w) : w[k].k # "erase",
                Fine(Disk, t[Len(w)], {}),
                \A k \in 1..Len(w) : w[k].k \in {"data", "entry"}
                                       => Fine(Disk, Undone("mkdir", w[k], t[k-1]), {}),
                on \in SUBSET Places,
                NEW p \in Places, NEW f \in Entries, Fits(Disk, p, f, on, {}),
                \A k \in 1..Len(w) : /\ w[k].k \in {"fat", "blank", "entry"}
                                     /\ w[k].k = "blank" => NoneIn(w[k].s)
                                     /\ w[k].k = "entry" => w[k] = Put(p, f, {})
                                     /\ w[k].k = "fat" /\ k < Len(w) => Fits(t[k-1], p, f, on, {})
         PROVE  IInv'
    <2>1. /\ s = States(v \o w, Disk) /\ plan = v \o w /\ t = States(w, r[2]) /\ r = States(v, Disk)
          /\ s = States(plan, Disk) /\ Len(v) = 2
      BY <1>7, <1>10 DEF r
    <2> HIDE DEF s, plan, t
    <2>2. /\ v \o w \in Seq(Writes) /\ Len(v \o w) = Len(v) + Len(w)
          /\ \A k \in 0..Len(w) : States(v \o w, Disk)[Len(v) + k] = States(w, States(v, Disk)[Len(v)])[k]
          /\ \A k \in 1..Len(v \o w) : InTwo(k, v, w, Disk)
      BY <1>2, <1>7, <1>15, StatesConcat, TwoPlans
    <2>3. ASSUME NEW k \in 1..Len(plan)
          PROVE  \/ k = 1 /\ plan[k] = v[1] /\ s[k] = r[1]
                 \/ k = 2 /\ plan[k] = v[2] /\ s[k] = r[2]
                 \/ \E j \in 1..Len(w) : /\ k = Len(v) + j /\ plan[k] = w[j]
                                         /\ s[k] = t[j] /\ s[k-1] = t[j-1]
      <3>1. InTwo(k, v, w, Disk)
        BY <2>1, <2>2
      <3>2. \A i \in 1..2 : i = 1 \/ i = 2
        OBVIOUS
      <3> QED
        BY <2>1, <3>1, <3>2 DEF InTwo
    <2>4. ASSUME NEW k \in 1..Len(plan)
          PROVE  /\ Sound(s[k]) /\ plan[k].k # "erase"
                 /\ plan[k].k \in {"data", "entry"} => Fine(Disk, Undone("mkdir", plan[k], s[k-1]), {})
      <3>1. CASE plan[k] = v[1] /\ s[k] = r[1]
        BY <1>7, <1>11, <3>1 DEF Alike
      <3>2. CASE plan[k] = v[2] /\ s[k] = r[2]
        BY <1>7, <1>10, <1>14, <3>2
      <3>3. CASE \E j \in 1..Len(w) : plan[k] = w[j] /\ s[k] = t[j] /\ s[k-1] = t[j-1]
        <4>1. PICK j \in 1..Len(w) : plan[k] = w[j] /\ s[k] = t[j] /\ s[k-1] = t[j-1]
          BY <3>3
        <4>2. j \in 0..Len(w)
          BY <1>15
        <4> QED
          BY <1>15, <4>1, <4>2
      <3> QED
        BY <2>3, <3>1, <3>2, <3>3
    <2>5. Fine(Disk, s[Len(plan)], {})
      <3>1. Len(w) \in 0..Len(w)
        BY <1>15
      <3>2. s[Len(plan)] = t[Len(w)]
        BY <2>1, <2>2, <3>1
      <3> QED
        BY <1>15, <3>2
    <2>6. plan \in Seq(Writes)
      BY <2>1, <2>2
    <2>7. ASSUME NEW k \in 1..Len(plan)
          PROVE  /\ plan[k].k \in {"fat", "blank", "entry", "erase"}
                 /\ plan[k].k = "blank" => NoneIn(plan[k].s)
                 /\ plan[k].k = "entry" => \E l \in SUBSET Handles : plan[k] = Put(p, f, l)
                 /\ plan[k].k = "fat" => Sound(s[k-1]) /\ (k < Len(plan) => Fits(s[k-1], p, f, on, {}))
                 /\ Partly(s[k], on, {})
      <3>1. Partly(s[k], on, {})
        BY <2>4, SoundPartly
      <3>2. CASE k = 1 /\ plan[k] = v[1]
        <4>1. s[k-1] = Disk
          <5>1. Runs(s, plan, Disk)
            BY <1>2, <2>1, <2>6, StatesRun
          <5> QED
            BY <3>2, <5>1 DEF Runs
        <4> QED
          BY <1>2, <1>7, <1>15, <3>1, <3>2, <4>1
      <3>3. CASE plan[k] = v[2]
        <4>1. plan[k].s = Dots
          BY <1>7, <3>3 DEF Blank
        <4> QED
          BY <1>7, <3>1, <3>3, <4>1, NoSlotsFacts
      <3>4. ASSUME NEW j \in 1..Len(w), k = Len(v) + j, plan[k] = w[j], s[k-1] = t[j-1]
            PROVE  /\ plan[k].k \in {"fat", "blank", "entry", "erase"}
                   /\ plan[k].k = "blank" => NoneIn(plan[k].s)
                   /\ plan[k].k = "entry" => \E l \in SUBSET Handles : plan[k] = Put(p, f, l)
                   /\ plan[k].k = "fat" => Sound(s[k-1]) /\ (k < Len(plan) => Fits(s[k-1], p, f, on, {}))
        <4>1. Len(w) \in Nat /\ j - 1 \in 0..Len(w) /\ {} \in SUBSET Handles
          BY <1>15
        <4>2. Sound(s[k-1])
          BY <1>15, <3>4, <4>1
        <4>3. k < Len(plan) => j < Len(w)
          BY <1>7, <2>1, <2>2, <3>4, <4>1
        <4>4. /\ w[j].k \in {"fat", "blank", "entry"}
              /\ w[j].k = "blank" => NoneIn(w[j].s)
              /\ w[j].k = "entry" => w[j] = Put(p, f, {})
              /\ w[j].k = "fat" /\ j < Len(w) => Fits(t[j-1], p, f, on, {})
          BY <1>15
        <4> QED
          BY <3>4, <4>1, <4>2, <4>3, <4>4
      <3> QED
        BY <2>3, <3>1, <3>2, <3>3, <3>4
    <2>8. Slips("mkdir", on, plan, Disk)
      <3>1. Entering(plan, s, p, f, on, {})
        BY <1>15, <2>7 DEF Entering
      <3> QED
        BY <1>2, <2>1, <2>6, <3>1, EnteringSlips
    <2> QED
      BY <1>1, <1>15, <2>1, <2>4, <2>5, <2>6, <2>8, SafeStep
  <1>16. CASE put = <<>>
    <2>1. w = <<SetFat(c, Free)>>
      BY <1>6, <1>16
    <2>2. w \in Seq(Writes) /\ Len(w) = 1 /\ w[1] = SetFat(c, Free) /\ w[1].k = "fat"
      <3>1. SetFat(c, Free) \in Writes /\ SetFat(c, Free).k = "fat"
        BY <1>4, WriteTypes
      <3> QED
        BY <2>1, <3>1
    <2>3. Runs(t, w, x)
      BY <1>14, <2>2, StatesRun
    <2> HIDE DEF t
    <2>4. t[0] = x /\ t[1] = Apply(SetFat(c, Free), x)
      <3>1. 1 \in 1..Len(w) /\ 1 - 1 = 0
        BY <2>2
      <3>2. t[1] = Apply(w[1], t[1-1])
        BY <2>3, <3>1 DEF Runs
      <3> QED
        BY <2>2, <2>3, <3>1, <3>2 DEF Runs
    <2>5. Alike(x, t[1]) /\ Lost(t[1]) = Lost(x) \ {c}
      BY <1>4, <1>5, <1>14, <2>4, Freed
    <2>6. Sound(t[1]) /\ t[1] \in Disks /\ t[1].open = Disk.open /\ \A p : Keeps(Disk, t[1], p)
      BY <1>2, <1>14, <2>5, KeepsOn DEF Alike, Sound
    <2>7. Fine(Disk, t[1], {})
      <3>1. Opened(t[1])
        BY <1>2, <2>6, KeptOpened
      <3> QED
        BY <1>14, <2>5, <2>6, <3>1 DEF Fine
    <2> QED
      <3>1. \A k \in 0..Len(w) : k = 0 \/ k = 1
        BY <2>2
      <3>2. \A k \in 1..Len(w) : k = 1
        BY <2>2
      <3>3. \A k \in 0..Len(w) : Sound(t[k])
        BY <1>14, <2>4, <2>6, <3>1
      <3>4. \A k \in 1..Len(w) : w[k].k = "fat" /\ ~(k < Len(w))
        BY <2>2, <3>2
      <3> DEFINE p == <<Root, 1>>
                 f == Slot("file", Stored(n), 0, 0)
      <3>5. p \in Places
        BY ClusterFacts, FatAssumption DEF Places
      <3>6. f \in Entries /\ f.cluster = 0 /\ f.size = 0
        BY StoredFacts DEF Slot
      <3>7. on \in SUBSET Places /\ Fits(Disk, p, f, on, {})
        BY <1>2, <1>6, <1>16, <3>6, EmptyFits
      <3>8. Fine(Disk, t[Len(w)], {})
        BY <2>2, <2>7
      <3> HIDE DEF p, f
      <3>9. \A k \in 1..Len(w) : /\ w[k].k # "erase"
                                 /\ w[k].k \in {"data", "entry"}
                                      => Fine(Disk, Undone("mkdir", w[k], t[k-1]), {})
        BY <3>4
      <3>10. \A k \in 1..Len(w) : /\ w[k].k \in {"fat", "blank", "entry"}
                                  /\ w[k].k = "blank" => NoneIn(w[k].s)
                                  /\ w[k].k = "entry" => w[k] = Put(p, f, {})
                                  /\ w[k].k = "fat" /\ k < Len(w) => Fits(t[k-1], p, f, on, {})
        BY <3>4
      <3> QED
        BY <1>15, <2>2, <3>3, <3>5, <3>6, <3>7, <3>8, <3>9, <3>10
  <1>17. CASE put # <<>>
    <2>1. w = put
      BY <1>6, <1>17
    <2>2. /\ \A p \in Places : At(p).kind = "unused" /\ p[1] \in On(Disk, Root) => p \notin InUse(x)
          /\ Range(free) \cap Used(x) = {}
      BY <1>2, <1>4, <1>14, FreeUnused
    <2>3. t = States(put, x)
      BY <2>1
    <2> HIDE DEF t
    <2>4. put \in Seq(Writes) /\ \E m, q : Finds(put, x, Root, e, free, {}, t, m, q)
      BY <1>2, <1>4, <1>5, <1>6, <1>14, <1>17, <2>2, <2>3, PutFinds
    <2>5. PICK m, q : Finds(put, x, Root, e, free, {}, t, m, q)
      BY <2>4
    <2>6. Runs(t, put, x)
      BY <1>14, <2>3, <2>4, StatesRun
    <2> DEFINE z == t[m]
               y == t[m+1]
    <2>7. /\ m \in Nat /\ Len(put) = m + 1 /\ put[m + 1] = Put(q, e, {})
          /\ \A k \in 1..m : put[k].k \in {"fat", "blank"} /\ (put[k].k = "blank" => NoneIn(put[k].s))
          /\ \A k \in 0..m : Sound(t[k]) /\ Untouched(x, t[k], free)
          /\ Prepared(x, z, Root, q, free) /\ q \in Places
      BY <2>5 DEF Finds
    <2>8. y = Apply(Put(q, e, {}), z)
      <3>1. m + 1 \in 1..Len(put) /\ (m + 1) - 1 = m
        BY <2>7
      <3> QED
        BY <2>6, <2>7, <3>1 DEF Runs
    <2> HIDE DEF z, y
    <2>9. /\ Sound(z) /\ Root \in DirHeads(z) /\ q \in Places \ InUse(z) /\ q[1] \in On(z, Root)
          /\ z.open = x.open /\ Lost(z) \subseteq Lost(x) /\ \A p : Keeps(x, z, p)
      BY <1>14, <2>7 DEF Prepared
    <2>10. c \notin Used(z) /\ z.fat[c] = Eof /\ c \in On(z, c)
      <3>1. c \notin Used(z) /\ z.fat[c] = x.fat[c]
        BY <1>4, <1>5, <1>14, <2>7 DEF Prepared
      <3> QED
        BY <1>4, <1>14, <2>9, <3>1, DiskFacts DEF Sound
    <2>11. /\ Sound(y) /\ \A p : Keeps(z, y, p)
           /\ Lost(y) \subseteq Lost(z) \ On(z, c)
           /\ \A h \in Handles : y.open[h] = IF h \in {} THEN Copy(q, 0, 0) ELSE z.open[h]
      <3>1. {} \in SUBSET Handles
        OBVIOUS
      <3> QED
        BY <1>5, <2>8, <2>9, <2>10, <3>1, PutSound
    <2>12. /\ z \in Disks /\ y \in Disks /\ \A p : Keeps(Disk, z, p)
           /\ \A h \in Handles : z.open[h] = Disk.open[h] /\ y.open[h] = z.open[h]
      BY <1>2, <1>14, <2>9, <2>11, KeepsOn DEF Sound
    <2>13. Opened(z)
      BY <1>2, <2>12, KeptOpened
    <2>14. Opened(y)
      BY <2>11, <2>12, <2>13, KeptOpened
    <2>15. Fine(Disk, y, {})
      BY <1>14, <2>9, <2>10, <2>11, <2>14 DEF Fine
    <2> DEFINE u == Apply(SetFat(c, Free), z)
    <2>16. Undone("mkdir", put[m+1], t[m]) = u
      BY <1>5, <2>7, WriteTypes DEF Undone, z
    <2>17. Fine(Disk, u, {})
      <3>1. u = Apply(SetFat(c, Free), z)
        OBVIOUS
      <3> HIDE DEF u
      <3>2. Alike(z, u) /\ Lost(u) = Lost(z) \ {c}
        BY <1>4, <2>9, <2>10, <3>1, Freed
      <3>3. Sound(u) /\ u \in Disks /\ u.open = z.open /\ \A p : Keeps(z, u, p)
        BY <3>2 DEF Alike, Sound
      <3>4. Opened(u)
        BY <2>12, <2>13, <3>3, KeptOpened
      <3> QED
        BY <1>14, <2>9, <3>2, <3>3, <3>4 DEF Fine
    <2> HIDE DEF u
    <2>18. ASSUME NEW k \in 0..Len(put) PROVE Sound(t[k])
      <3>1. CASE k = m + 1
        BY <2>11, <3>1 DEF y
      <3>2. CASE k # m + 1
        <4>1. k \in 0..m
          BY <2>7, <3>2
        <4> QED
          BY <2>7, <4>1
      <3> QED
        BY <3>1, <3>2
    <2>19. ASSUME NEW k \in 1..Len(put)
           PROVE  /\ put[k].k # "erase"
                  /\ put[k].k \in {"data", "entry"} => Fine(Disk, Undone("mkdir", put[k], t[k-1]), {})
      <3>1. CASE k = m + 1
        <4>1. put[k].k = "entry" /\ k - 1 = m
          BY <2>7, <3>1, WriteTypes
        <4> QED
          BY <2>16, <2>17, <3>1, <4>1
      <3>2. CASE k # m + 1
        <4>1. k \in 1..m
          BY <2>7, <3>2
        <4> QED
          BY <2>7, <4>1
      <3> QED
        BY <3>1, <3>2
    <2>20. Fine(Disk, t[Len(put)], {})
      BY <2>7, <2>15 DEF y
    <2>21. on = {q} /\ on \in SUBSET Places
      <3>1. Last(put) = put[m+1]
        BY <2>7 DEF Last
      <3> QED
        BY <1>6, <1>17, <2>7, <3>1, WriteTypes
    <2>22. ASSUME NEW a, Sound(a), c \notin Used(a), a.fat[c] \in {Free, Eof}
           PROVE  Fits(a, q, e, on, {})
      <3>1. On(a, c) \subseteq {c}
        <4>1. a.fat \in Tables
          BY <2>22, DiskFacts DEF Sound
        <4>2. \A b \in {c} \cap Clusters : a.fat[b] \in {c} \/ a.fat[b] \notin Clusters
          BY <2>22, ClusterFacts
        <4> QED
          BY <4>1, <4>2, FollowInside DEF On, Trail
      <3>2. /\ On(a, Root) \subseteq Used(a)
            /\ \A p \in InUse(a) : Entry(a, p).cluster # 0 => On(a, Entry(a, p).cluster) \subseteq Used(a)
            /\ On(a, 0) = {}
        BY <2>22, HeadFacts, DiskFacts DEF Sound
      <3>3. \A p \in InUse(a) : On(a, Entry(a, p).cluster) \cap On(a, c) = {}
        BY <2>22, <3>1, <3>2
      <3>4. On(a, c) \cap On(a, Root) = {}
        BY <2>22, <3>1, <3>2
      <3> QED
        BY <1>5, <2>21, <3>3, <3>4 DEF Fits
    <2>23. Fits(Disk, q, e, on, {})
      <3>1. Disk.fat[c] = Free
        BY <1>3, <1>4, DiskIs
      <3> QED
        BY <1>2, <1>5, <2>22, <3>1
    <2>24. ASSUME NEW k \in 1..Len(put)
           PROVE  /\ put[k].k \in {"fat", "blank", "entry"}
                  /\ put[k].k = "blank" => NoneIn(put[k].s)
                  /\ put[k].k = "entry" => put[k] = Put(q, e, {})
                  /\ put[k].k = "fat" /\ k < Len(put) => Fits(t[k-1], q, e, on, {})
      <3>1. CASE k = m + 1
        BY <2>7, <3>1, WriteTypes
      <3>2. CASE k # m + 1
        <4>1. k \in 1..m /\ k - 1 \in 0..m
          BY <2>7, <3>2
        <4> DEFINE a == t[k-1]
        <4>2. Sound(a) /\ Untouched(x, a, free)
          BY <2>7, <4>1
        <4> HIDE DEF a
        <4>3. c \notin Used(a) /\ a.fat[c] = x.fat[c]
          BY <1>4, <1>5, <1>14, <4>2 DEF Untouched
        <4>4. Fits(a, q, e, on, {})
          BY <1>14, <2>22, <4>2, <4>3
        <4> QED
          BY <2>7, <4>1, <4>4 DEF a
      <3> QED
        BY <3>1, <3>2
    <2> QED
      BY <1>5, <1>15, <2>1, <2>4, <2>7, <2>18, <2>19, <2>20, <2>21, <2>23, <2>24
  <1> QED
    BY <1>16, <1>17

-----------------------------------------------------------------------------
(* mv                                                                       *)

LEMMA RenameStep ==
  ASSUME IInv, Ready, NEW p \in Live, NEW d \in Dirs, NEW n \in Names, Rename(p, d, n)
  PROVE  IInv'
  <1> DEFINE e == [At(p) EXCEPT !.name = Stored(n)]
             put == PutInto(d, e, FreeList, {})
             w == <<Erase(p)>>
             plan == put \o w
             on == {p, Last(put).p}
             s == States(plan, Disk)
             t == States(put, Disk)
  <1>1. /\ Perform("rename", on, plan, {}) /\ put # <<>> /\ NotOpen({p})
        /\ At(p).kind = "dir" => d = Root
    BY DEF Rename
  <1>2. /\ Sound(Disk) /\ Opened(Disk) /\ Disk \in Disks /\ d \in DirHeads(Disk) /\ p \in InUse(Disk)
        /\ p \in Places /\ At(p) = Entry(Disk, p) /\ At(p) \in Entries
        /\ harm \subseteq {"crash"} /\ (harm = {} => Lost(Disk) = {}) /\ cut.on \subseteq Places
    BY LiveFacts, DiskIs, DiskFacts DEF IInv, Ready
  <1>3. /\ e \in Entries /\ e.kind = At(p).kind /\ e.cluster = At(p).cluster /\ e.size = At(p).size
    BY <1>2, FatAssumption DEF Entries, Stored
  <1>4. FreeList \in Seq(Clusters) /\ put = PutInto(d, e, FreeList, {}) /\ t = States(put, Disk)
        /\ s = States(put \o w, Disk) /\ w = <<Erase(p)>> /\ plan = put \o w /\ s = States(plan, Disk)
        /\ on = {p, Last(put).p}
    BY <1>2, FreeFacts
  <1> HIDE DEF e, put, w, plan, s, t, on
  <1>5. put \in Seq(Writes) /\ \E m, q : Finds(put, Disk, d, e, FreeList, {}, t, m, q)
    BY <1>1, <1>2, <1>3, <1>4, FreeUnused, PutFinds
  <1>6. PICK m, q : Finds(put, Disk, d, e, FreeList, {}, t, m, q)
    BY <1>5
  <1> DEFINE z == t[m]
             y == t[m+1]
  <1>7. /\ m \in Nat /\ Len(put) = m + 1 /\ put[m + 1] = Put(q, e, {})
        /\ \A k \in 1..m : put[k].k \in {"fat", "blank"} /\ (put[k].k = "blank" => NoneIn(put[k].s))
        /\ \A k \in 0..m : /\ Sound(t[k]) /\ InUse(t[k]) = InUse(Disk)
                           /\ \A r \in InUse(Disk) : Entry(t[k], r) = Entry(Disk, r)
        /\ Prepared(Disk, z, d, q, FreeList)
    BY <1>6 DEF Finds, Untouched
  <1>8. Runs(t, put, Disk)
    BY <1>2, <1>4, <1>5, StatesRun
  <1>9. y = Apply(Put(q, e, {}), z)
    <2>1. m + 1 \in 1..Len(put) /\ (m + 1) - 1 = m
      BY <1>7
    <2> QED
      BY <1>7, <1>8, <2>1 DEF Runs
  <1> HIDE DEF z, y
  <1>10. /\ Sound(z) /\ d \in DirHeads(z) /\ q \in Places \ InUse(z) /\ q[1] \in On(z, d)
         /\ z.open = Disk.open /\ Lost(z) \subseteq Lost(Disk) /\ \A r : Keeps(Disk, z, r)
         /\ p \in InUse(z) /\ Entry(z, p) = At(p) /\ z \in Disks
    BY <1>2, <1>7 DEF Prepared, Sound
  <1>11. /\ y \in Disks /\ y.fat = z.fat /\ y.written = z.written
         /\ \A r \in Places : Entry(y, r) = IF r = q THEN e ELSE Entry(z, r)
         /\ \A h \in Handles : y.open[h] = z.open[h]
    <2>1. {} \in SUBSET Handles /\ q \in Places
      BY <1>10
    <2>2. /\ y \in Disks /\ y.fat = z.fat /\ y.written = z.written
          /\ \A r \in Places : Entry(y, r) = IF r = q THEN e ELSE Entry(z, r)
          /\ \A h \in Handles : y.open[h] = IF h \in {} THEN Copy(q, 0, 0) ELSE z.open[h]
      BY <1>3, <1>9, <1>10, <2>1, ApplyPut
    <2> QED
      BY <2>2
  <1>12. Partly(y, {}, {p, q}) /\ Reached(y, p)
    BY <1>3, <1>10, <1>11, Twice
  <1> DEFINE u == Apply(Erase(p), y)
  <1>13. /\ u \in Disks /\ u.fat = y.fat /\ u.written = y.written /\ u.open = y.open
         /\ \A r \in Places : Entry(u, r) = IF r = p THEN Unused ELSE Entry(y, r)
    <2>1. u = Apply(Erase(p), y)
      OBVIOUS
    <2> HIDE DEF u
    <2> QED
      BY <1>2, <1>11, <2>1, ApplyErase
  <1>14. u = Apply(Erase(p), y)
    OBVIOUS
  <1> HIDE DEF u
  <1>15. Sound(u) /\ Used(u) = Used(z) /\ \A r : r # p => Keeps(z, u, r)
    <2>1. p # q
      BY <1>10
    <2>2. \A r \in Places : Entry(u, r) = IF r = q THEN e ELSE IF r = p THEN Unused ELSE Entry(z, r)
      BY <1>11, <1>13, <2>1
    <2> QED
      BY <1>1, <1>3, <1>10, <1>11, <1>13, <2>2, Moved
  <1>16. Opened(z)
    BY <1>2, <1>10, KeptOpened
  <1>17. Opened(u)
    <2> SUFFICES ASSUME NEW h \in Handles, u.open[h] # Closed PROVE Remembers(u, u.open[h])
      BY DEF Opened
    <2>1. u.open[h] = z.open[h] /\ u.open[h] = open[h]
      BY <1>10, <1>11, <1>13, DiskIs
    <2>2. z.open[h] \in Copies /\ Remembers(z, z.open[h])
      BY <1>10, <1>16, <2>1 DEF Opened, Disks
    <2>3. z.open[h].at # p
      BY <1>1, <2>1 DEF NotOpen
    <2> QED
      BY <1>10, <1>13, <1>15, <2>1, <2>2, <2>3, KeptRemembered
  <1>18. Lost(u) \subseteq Lost(Disk)
    <2>1. Lost(u) = Lost(z)
      BY <1>11, <1>13, <1>15 DEF Lost
    <2> QED
      BY <1>10, <2>1
  <1>19. on = {p, q} /\ on \in SUBSET Places
    <2>1. Last(put) = Put(q, e, {})
      BY <1>7 DEF Last
    <2> QED
      BY <1>2, <1>4, <1>10, <2>1, WriteTypes
  <1>20. /\ w \in Seq(Writes) /\ Len(w) = 1 /\ w[1] = Erase(p) /\ w[1].k = "erase"
    <2>1. Erase(p) \in Writes /\ Erase(p).k = "erase"
      BY <1>2, WriteTypes
    <2> QED
      BY <1>4, <2>1
  <1>21. /\ plan \in Seq(Writes) /\ Len(plan) = m + 2
         /\ \A k \in 1..m + 2 : InTwo(k, put, w, Disk)
    <2>1. /\ put \o w \in Seq(Writes) /\ Len(put \o w) = Len(put) + Len(w)
          /\ \A k \in 1..Len(put \o w) : InTwo(k, put, w, Disk)
      BY <1>2, <1>5, <1>20, StatesConcat, TwoPlans
    <2>2. Len(put \o w) = m + 2
      BY <1>7, <1>20, <2>1
    <2> QED
      BY <1>4, <2>1, <2>2
  <1>22. ASSUME NEW k \in 1..m + 2
         PROVE  \/ k \in 1..m + 1 /\ plan[k] = put[k] /\ s[k] = t[k] /\ s[k-1] = t[k-1]
                \/ k = m + 2 /\ plan[k] = Erase(p) /\ s[k] = u /\ s[k-1] = y
    <2> DEFINE r == States(w, y)
    <2>1. Runs(r, w, y)
      BY <1>11, <1>20, StatesRun
    <2>2. r = States(w, y)
      OBVIOUS
    <2> HIDE DEF r
    <2>3. r[0] = y /\ r[1] = u
      <3>1. 1 \in 1..Len(w) /\ 1 - 1 = 0
        BY <1>20
      <3>2. r[1] = Apply(w[1], r[1-1])
        BY <2>1, <3>1 DEF Runs
      <3> QED
        BY <1>14, <1>20, <2>1, <3>1, <3>2 DEF Runs
    <2>4. InTwo(k, put, w, Disk)
      BY <1>21
    <2>5. States(w, t[Len(put)]) = r
      BY <1>7, <2>2 DEF y
    <2>6. \/ k \in 1..Len(put) /\ plan[k] = put[k] /\ s[k] = t[k] /\ s[k-1] = t[k-1]
          \/ \E j \in 1..Len(w) : k = Len(put) + j /\ plan[k] = w[j] /\ s[k] = r[j] /\ s[k-1] = r[j-1]
      BY <1>4, <2>4, <2>5 DEF InTwo
    <2>7. \A j \in 1..Len(w) : j = 1 /\ j - 1 = 0
      BY <1>20
    <2>8. CASE k \in 1..Len(put) /\ plan[k] = put[k] /\ s[k] = t[k] /\ s[k-1] = t[k-1]
      BY <1>7, <2>8
    <2>9. CASE \E j \in 1..Len(w) : k = Len(put) + j /\ plan[k] = w[j] /\ s[k] = r[j] /\ s[k-1] = r[j-1]
      <3>1. k = Len(put) + 1 /\ plan[k] = w[1] /\ s[k] = r[1] /\ s[k-1] = r[0]
        BY <2>7, <2>9
      <3>2. k = m + 2
        BY <1>7, <3>1
      <3> QED
        BY <1>20, <2>3, <3>1, <3>2
    <2> QED
      BY <2>6, <2>8, <2>9
  <1>23. ASSUME NEW k \in 1..m + 2, k < m + 2 PROVE Halfway("rename", on, s[k])
    <2>1. CASE k \in 1..m
      <3>1. k \in 0..m /\ k \in 1..m + 1 /\ k # m + 2
        BY <1>7, <2>1
      <3>2. s[k] = t[k]
        BY <1>22, <3>1
      <3>3. Sound(s[k]) /\ p \in InUse(s[k])
        BY <1>2, <1>7, <3>1, <3>2
      <3>4. Partly(s[k], {}, on) /\ Reached(s[k], p) /\ s[k] \in Disks
        BY <3>3, SoundPartly DEF Sound
      <3> QED
        BY <1>19, <3>4 DEF Halfway
    <2>2. CASE k = m + 1
      <3>1. s[k] = y /\ k # m + 2
        BY <1>7, <1>22, <2>2 DEF y
      <3> QED
        BY <1>11, <1>12, <1>19, <3>1 DEF Halfway
    <2> QED
      BY <1>7, <1>23, <2>1, <2>2
  <1>24. ASSUME NEW k \in 1..m + 2, plan[k].k = "erase" PROVE Halfway("rename", on, s[k-1])
    <2>1. CASE k = m + 2
      <3>1. k - 1 = m + 1 /\ m + 1 \in 0..m + 1
        BY <1>7, <2>1
      <3>2. s[m + 1] = y
        BY <1>22, <3>1 DEF y
      <3> QED
        BY <1>11, <1>12, <1>19, <3>1, <3>2 DEF Halfway
    <2>2. CASE k # m + 2
      <3>1. k \in 1..m + 1 /\ plan[k] = put[k]
        BY <1>22, <2>2
      <3>2. CASE k \in 1..m
        BY <1>7, <1>24, <3>1, <3>2
      <3>3. CASE k = m + 1
        BY <1>7, <1>24, <3>1, <3>3, WriteTypes
      <3> QED
        BY <1>7, <3>1, <3>2, <3>3
    <2> QED
      BY <2>1, <2>2
  <1>25. ASSUME NEW k \in 1..m + 2, plan[k].k \in {"data", "entry"} PROVE Fine(Disk, s[k-1], {})
    <2>1. k # m + 2
      BY <1>7, <1>20, <1>22, <1>25
    <2>2. k \in 1..m + 1 /\ plan[k] = put[k] /\ s[k-1] = t[k-1]
      BY <1>22, <2>1
    <2>3. k = m + 1
      BY <1>7, <1>25, <2>2
    <2>4. s[k-1] = z
      BY <1>7, <2>2, <2>3 DEF z
    <2> QED
      BY <1>10, <1>16, <2>4 DEF Fine
  <1>26. Fine(Disk, s[m + 2], {})
    <2>1. m + 2 \in 1..m + 2 /\ m + 2 \notin 1..m + 1
      BY <1>7
    <2>2. s[m + 2] = u
      BY <1>22, <2>1
    <2> QED
      BY <1>15, <1>17, <1>18, <2>2 DEF Fine
  <1>27. ASSUME NEW a, Sound(a), p \in InUse(a), Entry(a, p) = At(p)
         PROVE  Fits(a, q, e, {}, on)
    <2>1. Partly(a, {}, {})
      BY <1>27, SoundPartly
    <2>2. /\ On(a, e.cluster) \cap On(a, Root) = {}
          /\ e.cluster # 0 => Path(a.fat, Trail(a, e.cluster))
          /\ e.kind = "file" => Full(a, e.cluster, e.size)
      BY <1>3, <1>27, <2>1 DEF Partly
    <2>3. \A r \in InUse(a) : {r, q} \subseteq on \/ On(a, Entry(a, r).cluster) \cap On(a, e.cluster) = {}
      BY <1>3, <1>19, <1>27, <2>1 DEF Partly
    <2> QED
      BY <2>2, <2>3 DEF Fits
  <1>28. ASSUME NEW k \in 1..m + 2
         PROVE  /\ plan[k].k \in {"fat", "blank", "entry", "erase"}
                /\ plan[k].k = "blank" => NoneIn(plan[k].s)
                /\ plan[k].k = "entry" => \E l \in SUBSET Handles : plan[k] = Put(q, e, l)
                /\ plan[k].k = "fat" => Sound(s[k-1]) /\ (k < m + 2 => Fits(s[k-1], q, e, {}, on))
                /\ Partly(s[k], {}, on)
    <2>1. CASE k = m + 2
      <3>1. k \notin 1..m + 1
        BY <1>7, <2>1
      <3>2. plan[k] = Erase(p) /\ s[k] = u
        BY <1>22, <3>1
      <3> QED
        BY <1>2, <1>15, <3>2, SoundPartly, WriteTypes
    <2>2. CASE k # m + 2
      <3>1. plan[k] = put[k] /\ s[k-1] = t[k-1] /\ k < m + 2
        BY <1>7, <1>22, <2>2
      <3>2. Partly(s[k], {}, on)
        BY <1>23, <3>1 DEF Halfway
      <3>3. CASE k = m + 1
        <4>1. {} \in SUBSET Handles
          OBVIOUS
        <4> QED
          BY <1>7, <3>1, <3>2, <3>3, <4>1, WriteTypes
      <3>4. CASE k # m + 1
        <4>1. k \in 1..m /\ k - 1 \in 0..m
          BY <1>7, <2>2, <3>4
        <4> DEFINE a == t[k-1]
        <4>2. Sound(a) /\ p \in InUse(a) /\ Entry(a, p) = At(p)
          BY <1>2, <1>7, <4>1
        <4> HIDE DEF a
        <4>3. Fits(a, q, e, {}, on)
          BY <1>27, <4>2
        <4> QED
          BY <1>7, <3>1, <3>2, <4>1, <4>2, <4>3 DEF a
      <3> QED
        BY <3>3, <3>4
    <2> QED
      BY <2>1, <2>2
  <1>29. Slips("rename", on, plan, Disk)
    <2>1. Entering(plan, s, q, e, {}, on)
      BY <1>3, <1>10, <1>21, <1>28 DEF Entering
    <2> QED
      BY <1>2, <1>4, <1>21, <2>1, EnteringSlips
  <1> QED
    <2>1. /\ \A k \in 1..Len(plan) : k < Len(plan) => Halfway("rename", on, s[k])
          /\ \A k \in 1..Len(plan) : plan[k].k = "erase" => Halfway("rename", on, s[k-1])
          /\ \A k \in 1..Len(plan) : plan[k].k \in {"data", "entry"} => Fine(Disk, s[k-1], {})
          /\ Fine(Disk, s[Len(plan)], {})
      BY <1>21, <1>23, <1>24, <1>25, <1>26
    <2>2. "rename" \in {"unlink", "rmdir", "rename"}
      OBVIOUS
    <2>3. plan \in Seq(Writes) /\ on \in SUBSET Places /\ s = States(plan, Disk) /\ Perform("rename", on, plan, {})
      BY <1>1, <1>4, <1>19, <1>21
    <2> QED
      BY <1>29, <2>1, <2>2, <2>3, ErasingStep

-----------------------------------------------------------------------------
(* rm, rm -r                                                                *)

\* A plan that frees clusters of D and erases entries of E, one write of it perhaps missed, and
\* what its first k writes do.
Clearing(plan, D, E) ==
  /\ plan \in Seq(Writes)
  /\ \A k \in 1..Len(plan) : \/ \E c \in D : plan[k] = SetFat(c, Free)
                             \/ \E p \in E : plan[k] = Erase(p)
                             \/ plan[k] = Nothing
FreedIn(plan, k)  == {c \in Clusters : \E j \in 1..k : plan[j] = SetFat(c, Free)}
ErasedIn(plan, k) == {p \in Places : \E j \in 1..k : plan[j] = Erase(p)}

LEMMA ClearingWrites ==
  /\ \A c, b : SetFat(c, Free) = SetFat(b, Free) => c = b
  /\ \A p, q : Erase(p) = Erase(q) => p = q
  /\ \A c, p : SetFat(c, Free) # Erase(p)
  /\ \A c : SetFat(c, Free).k = "fat" /\ SetFat(c, Free) # Nothing
  /\ \A p : Erase(p).k = "erase" /\ Erase(p) # Nothing
  /\ Nothing.k = "none"
  <1>1. /\ \A c : SetFat(c, Free).k = "fat" /\ SetFat(c, Free).c = c
        /\ \A p : Erase(p).k = "erase" /\ Erase(p).p = p
        /\ Nothing.k = "none"
    BY DEF SetFat, Erase, Nothing
  <1>2. ASSUME NEW c, NEW b, SetFat(c, Free) = SetFat(b, Free) PROVE c = b
    <2>1. SetFat(c, Free).c = SetFat(b, Free).c
      BY <1>2
    <2> QED
      BY <1>1, <2>1
  <1>3. ASSUME NEW p, NEW q, Erase(p) = Erase(q) PROVE p = q
    <2>1. Erase(p).p = Erase(q).p
      BY <1>3
    <2> QED
      BY <1>1, <2>1
  <1>4. ASSUME NEW c, NEW p, SetFat(c, Free) = Erase(p) PROVE FALSE
    <2>1. "fat" = "erase"
      BY <1>1, <1>4, Zenon
    <2> QED
      BY <2>1
  <1>5. ASSUME NEW c, SetFat(c, Free) = Nothing PROVE FALSE
    <2>1. "fat" = "none"
      BY <1>1, <1>5, Zenon
    <2> QED
      BY <2>1
  <1>6. ASSUME NEW p, Erase(p) = Nothing PROVE FALSE
    <2>1. "erase" = "none"
      BY <1>1, <1>6, Zenon
    <2> QED
      BY <2>1
  <1> QED
    BY <1>1, <1>2, <1>3, <1>4, <1>5, <1>6, Zenon

LEMMA ClearedMore ==
  ASSUME NEW x, NEW y \in Disks, NEW D, NEW G, Cleared(x, y, D, G)
  PROVE  /\ \A c \in Clusters : Cleared(x, Apply(SetFat(c, Free), y), D \cup {c}, G)
         /\ \A p \in Places : Cleared(x, Apply(Erase(p), y), D, G \cup {p})
  <1>1. ASSUME NEW c \in Clusters PROVE Cleared(x, Apply(SetFat(c, Free), y), D \cup {c}, G)
    <2> DEFINE z == Apply(SetFat(c, Free), y)
    <2>1. z = Apply(SetFat(c, Free), y)
      OBVIOUS
    <2> HIDE DEF z
    <2>2. /\ z \in Disks /\ z.fat = [y.fat EXCEPT ![c] = Free]
          /\ \A p \in Places : Entry(z, p) = IF p[1] = c THEN Unused ELSE Entry(y, p)
          /\ z.written = y.written \ {c} /\ z.open = y.open
      BY <2>1, ApplyFree
    <2>3. \A b \in Clusters : z.fat[b] = IF b \in D \cup {c} THEN Free ELSE x.fat[b]
      BY <2>2 DEF Cleared, Disks
    <2>4. \A p \in Places : Entry(z, p) = IF p[1] \in D \cup {c} \/ p \in G THEN Unused ELSE Entry(x, p)
      BY <2>2 DEF Cleared
    <2>5. z.written = x.written \ (D \cup {c}) /\ z.open = x.open
      BY <2>2 DEF Cleared
    <2> QED
      BY <2>1, <2>3, <2>4, <2>5 DEF Cleared
  <1>2. ASSUME NEW p \in Places PROVE Cleared(x, Apply(Erase(p), y), D, G \cup {p})
    <2> DEFINE z == Apply(Erase(p), y)
    <2>1. z = Apply(Erase(p), y)
      OBVIOUS
    <2> HIDE DEF z
    <2>2. /\ z \in Disks /\ z.fat = y.fat /\ z.written = y.written /\ z.open = y.open
          /\ \A q \in Places : Entry(z, q) = IF q = p THEN Unused ELSE Entry(y, q)
      BY <2>1, ApplyErase
    <2>3. \A q \in Places : Entry(z, q) = IF q[1] \in D \/ q \in G \cup {p} THEN Unused ELSE Entry(x, q)
      BY <2>2 DEF Cleared
    <2> QED
      BY <2>1, <2>2, <2>3 DEF Cleared
  <1> QED
    BY <1>1, <1>2

LEMMA ClearingStates ==
  ASSUME NEW x \in Disks, NEW D \in SUBSET Clusters, NEW E \in SUBSET Places,
         NEW plan, Clearing(plan, D, E), NEW s, Runs(s, plan, x)
  PROVE  \A k \in 0..Len(plan) : /\ FreedIn(plan, k) \subseteq D /\ ErasedIn(plan, k) \subseteq E
                                 /\ Cleared(x, s[k], FreedIn(plan, k), ErasedIn(plan, k))
  <1> DEFINE n == Len(plan)
             P == {k \in 0..n : /\ FreedIn(plan, k) \subseteq D /\ ErasedIn(plan, k) \subseteq E
                                /\ Cleared(x, s[k], FreedIn(plan, k), ErasedIn(plan, k))}
  <1>1. n \in Nat
    BY DEF Clearing
  <1>2. 0 \in P
    <2>1. FreedIn(plan, 0) = {} /\ ErasedIn(plan, 0) = {}
      BY DEF FreedIn, ErasedIn
    <2>2. Cleared(x, x, {}, {})
      BY DEF Cleared
    <2> QED
      <3>1. s[0] = x /\ 0 \in 0..n
        BY <1>1 DEF Runs
      <3>2. Cleared(x, s[0], FreedIn(plan, 0), ErasedIn(plan, 0))
        BY <2>1, <2>2, <3>1
      <3> QED
        BY <2>1, <3>1, <3>2
  <1>3. ASSUME NEW k \in 1..n, k - 1 \in P PROVE k \in P
    <2> DEFINE F == FreedIn(plan, k-1)
               G == ErasedIn(plan, k-1)
    <2>1. k \in 0..n /\ k - 1 \in 0..n /\ \A j \in 1..k : j = k \/ j \in 1..k-1
      BY <1>1
    <2>2. F \subseteq D /\ G \subseteq E /\ Cleared(x, s[k-1], F, G) /\ s[k-1] \in Disks
          /\ s[k] = Apply(plan[k], s[k-1])
      BY <1>3, <2>1 DEF Runs
    <2>3. \A j \in 1..k - 1 : j \in 1..k
      BY <1>1
    <2>4. k \in 1..k
      BY <1>1
    <2>5. CASE \E c \in D : plan[k] = SetFat(c, Free)
      <3>1. PICK c \in D : plan[k] = SetFat(c, Free)
        BY <2>5
      <3>2. FreedIn(plan, k) = F \cup {c}
        BY <2>1, <2>3, <2>4, <3>1, ClearingWrites DEF FreedIn
      <3>3. ErasedIn(plan, k) = G
        BY <2>1, <2>3, <3>1, ClearingWrites DEF ErasedIn
      <3> HIDE DEF F, G
      <3>4. Cleared(x, Apply(SetFat(c, Free), s[k-1]), F \cup {c}, G)
        <4> DEFINE y == s[k-1]
        <4>1. y \in Disks /\ Cleared(x, y, F, G) /\ c \in Clusters
          BY <2>2
        <4> HIDE DEF y
        <4>2. Cleared(x, Apply(SetFat(c, Free), y), F \cup {c}, G)
          BY <4>1, ClearedMore
        <4> QED
          BY <4>2 DEF y
      <3> QED
        BY <2>1, <2>2, <3>1, <3>2, <3>3, <3>4
    <2>6. CASE \E p \in E : plan[k] = Erase(p)
      <3>1. PICK p \in E : plan[k] = Erase(p)
        BY <2>6
      <3>2. ErasedIn(plan, k) = G \cup {p}
        BY <2>1, <2>3, <2>4, <3>1, ClearingWrites DEF ErasedIn
      <3>3. FreedIn(plan, k) = F
        BY <2>1, <2>3, <3>1, ClearingWrites DEF FreedIn
      <3> HIDE DEF F, G
      <3>4. Cleared(x, Apply(Erase(p), s[k-1]), F, G \cup {p})
        <4> DEFINE y == s[k-1]
        <4>1. y \in Disks /\ Cleared(x, y, F, G) /\ p \in Places
          BY <2>2
        <4> HIDE DEF y
        <4>2. Cleared(x, Apply(Erase(p), y), F, G \cup {p})
          BY <4>1, ClearedMore
        <4> QED
          BY <4>2 DEF y
      <3> QED
        BY <2>1, <2>2, <3>1, <3>2, <3>3, <3>4
    <2>7. CASE plan[k] = Nothing
      <3>1. FreedIn(plan, k) = F /\ ErasedIn(plan, k) = G
        BY <2>1, <2>3, <2>7, ClearingWrites DEF FreedIn, ErasedIn
      <3>2. s[k] = s[k-1]
        BY <2>2, <2>7, ApplyNothing
      <3> HIDE DEF F, G
      <3> QED
        BY <2>1, <2>2, <3>1, <3>2
    <2> QED
      BY <2>5, <2>6, <2>7 DEF Clearing
  <1>4. \A k \in 0..n : k \in P
    <2> HIDE DEF P, n
    <2> QED
      BY <1>1, <1>2, <1>3, Induct
  <1> QED
    BY <1>4

\* The writes that free the clusters D and erase the entries E.
Clears(D, E) == {SetFat(c, Free) : c \in D} \cup {Erase(p) : p \in E}

LEMMA ClearingPlan ==
  ASSUME NEW D \in SUBSET Clusters, NEW E \in SUBSET Places, NEW plan \in Seq(Writes), Range(plan) = Clears(D, E)
  PROVE  /\ Clearing(plan, D, E)
         /\ FreedIn(plan, Len(plan)) = D /\ ErasedIn(plan, Len(plan)) = E
  <1>1. DOMAIN plan = 1..Len(plan)
    OBVIOUS
  <1>2. \A w : w \in Clears(D, E) <=> \E j \in 1..Len(plan) : plan[j] = w
    BY <1>1 DEF Range
  <1>3. Clearing(plan, D, E)
    BY <1>2 DEF Clearing, Clears
  <1>4. \A c \in Clusters : SetFat(c, Free) \in Clears(D, E) <=> c \in D
    BY ClearingWrites DEF Clears
  <1>5. \A p \in Places : Erase(p) \in Clears(D, E) <=> p \in E
    BY ClearingWrites DEF Clears
  <1>6. FreedIn(plan, Len(plan)) = D
    BY <1>2, <1>4 DEF FreedIn
  <1>7. ErasedIn(plan, Len(plan)) = E
    BY <1>2, <1>5 DEF ErasedIn
  <1> QED
    BY <1>3, <1>6, <1>7

LEMMA EraseAllFacts ==
  ASSUME Disk \in Disks, NEW p \in Places
  PROVE  EraseAll(p) \in Seq(Writes) /\ Range(EraseAll(p)) = Clears(On(Disk, At(p).cluster), {p})
  <1> DEFINE chain == Chain(At(p).cluster)
             v == [k \in 1..Len(chain) |-> SetFat(chain[k], Free)]
             w == <<Erase(p)>>
  <1>1. chain \in Seq(Clusters) /\ Range(chain) = On(Disk, At(p).cluster)
    BY DiskFacts, DiskIs DEF On
  <1>2. EraseAll(p) = v \o w
    BY DEF EraseAll
  <1> HIDE DEF chain
  <1>3. Len(chain) \in Nat /\ (\A k \in 1..Len(chain) : chain[k] \in Clusters) /\ DOMAIN chain = 1..Len(chain)
    BY <1>1
  <1>4. \A c \in Clusters : SetFat(c, Free) \in Writes
    BY WriteTypes
  <1>5. v \in Seq(Writes) /\ Len(v) = Len(chain) /\ DOMAIN v = 1..Len(chain)
        /\ \A k \in 1..Len(chain) : v[k] = SetFat(chain[k], Free)
    BY <1>3, <1>4
  <1>6. Range(v) = {SetFat(c, Free) : c \in On(Disk, At(p).cluster)}
    <2> HIDE DEF v
    <2>1. Range(v) = {v[k] : k \in 1..Len(chain)}
      BY <1>5 DEF Range
    <2>2. On(Disk, At(p).cluster) = {chain[k] : k \in 1..Len(chain)}
      BY <1>1, <1>3 DEF Range
    <2> QED
      BY <1>5, <2>1, <2>2
  <1>7. w \in Seq(Writes) /\ Range(w) = {Erase(p)}
    <2>1. Erase(p) \in Writes
      BY WriteTypes
    <2>2. w \in Seq(Writes) /\ DOMAIN w = 1..1 /\ w[1] = Erase(p)
      BY <2>1
    <2> HIDE DEF w
    <2> QED
      BY <2>2 DEF Range
  <1> HIDE DEF v, w
  <1>8. v \o w \in Seq(Writes) /\ Range(v \o w) = Range(v) \cup Range(w)
    BY <1>5, <1>7, OneAfter
  <1>9. Clears(On(Disk, At(p).cluster), {p}) = Range(v) \cup Range(w)
    BY <1>6, <1>7 DEF Clears
  <1> QED
    BY <1>2, <1>8, <1>9

\* What stands in a directory other than the root is a file, and nothing stands in a file.
LEMMA FilesOnly ==
  ASSUME NEW x, Sound(x), NEW p \in InUse(x), NEW q \in InUse(x), q[1] \in On(x, Entry(x, p).cluster)
  PROVE  Entry(x, p).kind = "dir" /\ Entry(x, q).kind = "file"
  <1> DEFINE c == Entry(x, p).cluster
  <1>1. c # 0
    BY DiskFacts DEF Sound
  <1>2. c \in Heads(x) /\ c # Root
    BY <1>1, HeadFacts DEF Sound, OneEach
  <1>3. PICK d \in DirHeads(x) : q[1] \in On(x, d) /\ (Entry(x, q).kind = "dir" => d = Root)
    BY DEF Sound, Rooted
  <1>4. c = d
    <2>1. d \in Heads(x) /\ q[1] \in On(x, c) \cap On(x, d)
      BY <1>3, HeadFacts
    <2> QED
      BY <1>2, <2>1 DEF Sound, Apart
  <1>5. PICK r \in InUse(x) : Entry(x, r).kind = "dir" /\ Entry(x, r).cluster = c
    BY <1>2, <1>4 DEF DirHeads
  <1>6. r = p
    BY <1>1, <1>5 DEF Sound, OneEach
  <1> QED
    BY <1>2, <1>3, <1>4, <1>5, <1>6 DEF InUse

LEMMA EraseStep ==
  ASSUME IInv, Ready, NEW name \in {"unlink", "rmdir"}, NEW on \in SUBSET InUse(Disk), NEW E \in SUBSET on,
         NEW plan \in Seq(Writes), Range(plan) = Clears(Owned(Disk, E), E), Perform(name, on, plan, {}),
         \A q \in InUse(Disk) : q[1] \in Owned(Disk, E) => q \in E,
         \A h \in Handles : open[h] # Closed => open[h].at \notin E
  PROVE  IInv'
  <1> DEFINE s == States(plan, Disk)
             n == Len(plan)
             D == Owned(Disk, E)
  <1>1. Sound(Disk) /\ Opened(Disk) /\ Disk \in Disks /\ InUse(Disk) \subseteq Places
    BY DiskFacts DEF IInv
  <1>2. Runs(s, plan, Disk)
    BY <1>1, StatesRun
  <1>3. /\ D \subseteq Owned(Disk, on) /\ D \subseteq Clusters /\ E \subseteq Places /\ on \subseteq Places
        /\ n \in Nat
    BY <1>1, DiskFacts DEF Owned
  <1>4. /\ Clearing(plan, D, E) /\ FreedIn(plan, n) = D /\ ErasedIn(plan, n) = E
    BY <1>3, ClearingPlan
  <1>5. s = States(plan, Disk)
    OBVIOUS
  <1> HIDE DEF s
  <1>6. \A k \in 0..n : /\ FreedIn(plan, k) \subseteq D /\ ErasedIn(plan, k) \subseteq E
                        /\ Cleared(Disk, s[k], FreedIn(plan, k), ErasedIn(plan, k))
    <2> HIDE DEF D
    <2> QED
      BY <1>1, <1>2, <1>3, <1>4, ClearingStates
  <1>7. ASSUME NEW k \in 0..n PROVE Halfway(name, on, s[k])
    <2> DEFINE y == s[k]
               F == FreedIn(plan, k)
               G == ErasedIn(plan, k)
    <2>1. /\ y \in Disks /\ on \in SUBSET InUse(Disk) /\ G \in SUBSET on /\ F \in SUBSET Owned(Disk, on)
          /\ Cleared(Disk, y, F, G)
      BY <1>2, <1>3, <1>6 DEF Runs
    <2> HIDE DEF y, F, G
    <2>2. Partly(y, on, {})
      BY <1>1, <2>1, ClearedPartly
    <2>3. Halfway(name, on, y)
      BY <2>1, <2>2 DEF Halfway
    <2> QED
      BY <2>3 DEF y
  <1>8. Fine(Disk, s[n], {})
    <2> DEFINE y == s[n]
    <2>1. n \in 0..n
      BY <1>3
    <2>2. y \in Disks /\ Cleared(Disk, y, Owned(Disk, E), E)
      BY <1>2, <1>4, <1>6, <2>1 DEF Runs
    <2> HIDE DEF y
    <2>3. Sound(y) /\ Lost(y) \subseteq Lost(Disk) /\ \A p : p \notin E => Keeps(Disk, y, p)
      BY <1>1, <2>2, ClearedSound
    <2>4. ASSUME NEW h \in Handles, y.open[h] # Closed PROVE Remembers(y, y.open[h])
      <3>1. y.open[h] = Disk.open[h] /\ Disk.open[h] = open[h]
        BY <2>2, DiskIs DEF Cleared
      <3>2. Disk.open[h] \in Copies /\ Remembers(Disk, Disk.open[h])
        BY <1>1, <2>4, <3>1 DEF Opened, Disks
      <3>3. Keeps(Disk, y, Disk.open[h].at)
        BY <2>3, <2>4, <3>1
      <3> QED
        BY <1>1, <2>2, <3>1, <3>2, <3>3, KeptRemembered
    <2> QED
      BY <2>3, <2>4 DEF Fine, Opened, y
  <1>9. \A k \in 1..n : plan[k].k \notin {"data", "entry"}
    BY <1>4, ClearingWrites DEF Clearing
  <1>10. \A k \in 1..n : k \in 0..n /\ k - 1 \in 0..n
    BY <1>3
  <1>11. /\ \A k \in 1..n : k < n => Halfway(name, on, s[k])
         /\ \A k \in 1..n : plan[k].k = "erase" => Halfway(name, on, s[k-1])
    BY <1>7, <1>10
  <1>12. on \in SUBSET Places /\ name \in {"unlink", "rmdir", "rename"}
    BY <1>3
  <1>13. ASSUME NEW k \in 1..n, NEW j \in k..n, Slip(plan, k, j)
         PROVE  Hurt(name, on, States(Without(plan, k), Disk)[j])
    <2> DEFINE u == Without(plan, k)
               r == States(u, Disk)
               y == r[j]
               F == FreedIn(u, j)
               G == ErasedIn(u, j)
    <2>1. plan[k] \in Writes /\ plan[k].k = "fat"
      BY <1>3, <1>4, <1>13, ClearingWrites DEF Clearing, Slip
    <2>2. /\ u \in Seq(Writes) /\ Len(u) = n /\ u[k] = Nothing
          /\ \A i \in 1..n : i # k => u[i] = plan[i]
      BY <2>1, MissedIs, WithoutFacts
    <2> HIDE DEF u
    <2>3. Clearing(u, D, E)
      BY <1>4, <2>2 DEF Clearing
    <2>4. Runs(r, u, Disk)
      BY <1>1, <2>2, StatesRun
    <2>5. j \in 0..n
      BY <1>3
    <2> HIDE DEF r
    <2>6. F \subseteq D /\ G \subseteq E /\ Cleared(Disk, y, F, G)
      <3> HIDE DEF D
      <3> QED
        BY <1>1, <1>3, <2>2, <2>3, <2>4, <2>5, ClearingStates
    <2>7. y \in Disks /\ on \in SUBSET InUse(Disk) /\ G \in SUBSET on /\ F \in SUBSET Owned(Disk, on)
      BY <1>3, <2>2, <2>4, <2>5, <2>6 DEF Runs
    <2> HIDE DEF y, F, G
    <2>8. Partly(y, on, {})
      BY <1>1, <2>6, <2>7, ClearedPartly
    <2>9. Hurt(name, on, y)
      BY <2>8, HurtIs
    <2> QED
      BY <2>9 DEF y, r, u
  <1>14. Slips(name, on, plan, Disk)
    BY <1>13 DEF Slips
  <1> QED
    BY <1>5, <1>8, <1>9, <1>11, <1>12, <1>14, ErasingStep

LEMMA UnlinkStep ==
  ASSUME IInv, Ready, NEW p \in Live, Unlink(p)
  PROVE  IInv'
  <1> DEFINE plan == EraseAll(p)
             E == {p}
  <1>1. At(p).kind = "file" /\ NotOpen(E) /\ Perform("unlink", E, plan, {})
    BY DEF Unlink
  <1>2. Sound(Disk) /\ Disk \in Disks /\ p \in InUse(Disk) /\ p \in Places /\ At(p) = Entry(Disk, p)
    BY LiveFacts, DiskFacts, DiskIs DEF IInv
  <1>3. Owned(Disk, E) = On(Disk, At(p).cluster)
    BY <1>2 DEF Owned
  <1>4. plan \in Seq(Writes) /\ Range(plan) = Clears(Owned(Disk, E), E)
    BY <1>2, <1>3, EraseAllFacts
  <1>5. \A q \in InUse(Disk) : q[1] \notin Owned(Disk, E)
    BY <1>1, <1>2, <1>3, FilesOnly
  <1>6. \A h \in Handles : open[h].at \notin E
    BY <1>1 DEF NotOpen
  <1>7. E \in SUBSET InUse(Disk) /\ E \in SUBSET E /\ "unlink" \in {"unlink", "rmdir"}
    BY <1>2
  <1> HIDE DEF plan, E
  <1> QED
    BY <1>1, <1>4, <1>5, <1>6, <1>7, EraseStep

\* rm -r deletes nothing that is not in the directory.
LEMMA DeletedFacts ==
  ASSUME NEW kids \in Seq(Places)
  PROVE  Deleted(kids) \in Seq(Range(kids))
  <1> DEFINE n == Len(kids)
             K == Range(kids)
             S == Seq(K)
             left(s) == Only(kids, Places \ Range(s))
             same(s, m) == Only(left(s), {q \in Places : At(q).name = m})
             next(i, s) == IF i > Len(left(s)) THEN s ELSE Append(s, Head(same(s, At(left(s)[i]).name)))
             R(f) == [i \in 0..n |-> IF i = 0 THEN <<>> ELSE next(i, f[i-1])]
             g == [z \in (1..n) \X S |-> next(z[1], z[2])]
  <1>1. n \in Nat /\ <<>> \in S /\ K \subseteq Places
    BY DEF Range
  <1>2. ASSUME NEW i \in 1..n, NEW s \in S PROVE next(i, s) \in S
    <2> DEFINE l == left(s)
               m == At(l[i]).name
               t == same(s, m)
    <2>1. l \in Seq(Places) /\ Range(l) \subseteq K
      BY OnlyFacts
    <2>2. CASE i > Len(l)
      BY <2>2
    <2>3. CASE ~(i > Len(l))
      <3>1. t = Only(l, {q \in Places : At(q).name = At(l[i]).name})
        OBVIOUS
      <3> HIDE DEF l
      <3>2. DOMAIN l = 1..Len(l) /\ i \in 1..Len(l)
        BY <1>1, <2>1, <2>3
      <3>3. l[i] \in Range(l) /\ l[i] \in Places
        BY <2>1, <3>2 DEF Range
      <3> HIDE DEF t
      <3>4. t \in Seq(Places) /\ Range(t) = Range(l) \cap {q \in Places : At(q).name = At(l[i]).name}
        BY <2>1, <3>1, OnlyFacts
      <3>5. l[i] \in Range(t)
        BY <3>3, <3>4
      <3>6. t # <<>> /\ DOMAIN t = 1..Len(t) /\ Len(t) \in Nat
        BY <3>4, <3>5 DEF Range
      <3>7. Head(t) = t[1] /\ 1 \in 1..Len(t)
        BY <3>4, <3>6
      <3>8. Head(t) \in K
        BY <2>1, <3>4, <3>6, <3>7 DEF Range
      <3>9. Append(s, Head(t)) \in S
        BY <3>8
      <3> QED
        BY <2>3, <3>9 DEF l, t
    <2> QED
      BY <2>2, <2>3
  <1> HIDE DEF next
  <1>3. g \in [(1..n) \X S -> S]
    BY <1>2
  <1>4. \A i \in 1..n, s \in S : g[<<i, s>>] = next(i, s)
    OBVIOUS
  <1> HIDE DEF g, S
  <1>5. PICK h : Recurs(h, n, S, <<>>, g)
    <2> HIDE DEF n
    <2> QED
      BY <1>1, <1>3, Recursion, Zenon
  <1> DEFINE u == CHOOSE v : v = R(v)
  <1>6. Deleted(kids) = u[n]
    BY DEF Deleted, next
  <1>7. h = R(h)
    <2> HIDE DEF n
    <2>1. ASSUME NEW k \in 0..n PROVE h[k] = R(h)[k]
      <3>1. CASE k = 0
        BY <1>5, <3>1 DEF Recurs
      <3>2. CASE k # 0
        <4>1. k \in 1..n /\ k - 1 \in 0..n
          BY <1>1, <3>2
        <4>2. h[k-1] \in S /\ h[k] = g[<<k, h[k-1]>>]
          BY <1>5, <4>1 DEF Recurs
        <4> QED
          BY <1>4, <3>2, <4>1, <4>2
      <3> QED
        BY <3>1, <3>2
    <2>2. h = [k \in 0..n |-> h[k]]
      BY <1>5 DEF Recurs
    <2> QED
      BY <2>1, <2>2
  <1>8. u = R(u)
    <2> HIDE DEF R
    <2> QED
      BY <1>7, Zenon
  <1> HIDE DEF u, n
  <1> DEFINE P == {k \in 0..n : u[k] = h[k]}
  <1>9. 0 \in P
    <2>1. u[0] = <<>> /\ h[0] = <<>>
      BY <1>1, <1>5, <1>8 DEF Recurs
    <2> QED
      BY <1>1, <2>1
  <1>10. ASSUME NEW k \in 1..n, k - 1 \in P PROVE k \in P
    <2>1. k \in 0..n /\ k # 0
      BY <1>1
    <2>2. u[k] = next(k, u[k-1])
      BY <1>8, <2>1
    <2>3. h[k] = next(k, h[k-1])
      BY <1>7, <2>1
    <2> QED
      BY <1>10, <2>1, <2>2, <2>3
  <1>11. \A k \in 0..n : k \in P
    <2> HIDE DEF P
    <2> QED
      BY <1>1, <1>9, <1>10, Induct
  <1>12. u[n] \in S
    <2>1. n \in 0..n
      BY <1>1
    <2> QED
      BY <1>5, <1>11, <2>1 DEF Recurs
  <1> QED
    BY <1>6, <1>12 DEF S

LEMMA ClearsUnion ==
  ASSUME NEW D, NEW E, NEW F, NEW G
  PROVE  Clears(D, E) \cup Clears(F, G) = Clears(D \cup F, E \cup G)
  BY DEF Clears

LEMMA EraseEachFacts ==
  ASSUME Disk \in Disks, NEW gone \in Seq(Places)
  PROVE  LET v == FlattenSeq([i \in 1..Len(gone) |-> EraseAll(gone[i])])
         IN v \in Seq(Writes) /\ Range(v) = Clears(Owned(Disk, Range(gone)), Range(gone))
  <1> DEFINE n == Len(gone)
             ss == [i \in 1..n |-> EraseAll(gone[i])]
             C(p) == Clears(On(Disk, At(p).cluster), {p})
  <1>1. n \in Nat /\ (\A i \in 1..n : gone[i] \in Places) /\ DOMAIN gone = 1..n
    OBVIOUS
  <1>2. \A i \in 1..n : EraseAll(gone[i]) \in Seq(Writes) /\ Range(EraseAll(gone[i])) = C(gone[i])
    BY <1>1, EraseAllFacts
  <1> HIDE DEF n, C
  <1>3. /\ ss \in Seq(Seq(Writes)) /\ Len(ss) = n
        /\ \A i \in 1..n : Range(ss[i]) = C(gone[i])
    BY <1>1, <1>2
  <1>4. FlattenSeq(ss) \in Seq(Writes) /\ Range(FlattenSeq(ss)) = UNION {Range(ss[i]) : i \in 1..n}
    <2> HIDE DEF ss
    <2> QED
      BY <1>3, FlattenRange
  <1>5. UNION {Range(ss[i]) : i \in 1..n} = UNION {C(p) : p \in Range(gone)}
    <2> HIDE DEF ss
    <2>1. Range(gone) = {gone[i] : i \in 1..n}
      BY <1>1 DEF Range
    <2> QED
      BY <1>3, <2>1
  <1>6. UNION {C(p) : p \in Range(gone)} = Clears(Owned(Disk, Range(gone)), Range(gone))
    BY DiskIs DEF C, Clears, Owned
  <1> QED
    BY <1>4, <1>5, <1>6 DEF n

LEMMA RemoveAllStep ==
  ASSUME IInv, Ready, NEW p \in Live, RemoveAll(p)
  PROVE  IInv'
  <1> DEFINE kids == Listing(At(p).cluster)
             gone == Deleted(kids)
             v == FlattenSeq([i \in 1..Len(gone) |-> EraseAll(gone[i])])
             w == IF Range(kids) = Range(gone) THEN EraseAll(p) ELSE <<>>
             K == IF Range(kids) = Range(gone) THEN {p} ELSE {}
             E == K \cup Range(gone)
             on == {p} \cup Range(gone)
  <1>1. At(p).kind = "dir" /\ NotOpen(Range(kids)) /\ Perform("rmdir", on, v \o w, {})
    BY DEF RemoveAll
  <1>2. /\ Sound(Disk) /\ Opened(Disk) /\ Disk \in Disks /\ p \in InUse(Disk) /\ p \in Places
        /\ At(p) = Entry(Disk, p)
    BY LiveFacts, DiskFacts, DiskIs DEF IInv
  <1>3. kids \in Seq(Places) /\ Range(kids) = {q \in InUse(Disk) : q[1] \in On(Disk, At(p).cluster)}
    BY <1>2, ListingFacts
  <1> HIDE DEF kids
  <1>4. gone \in Seq(Range(kids))
    BY <1>3, DeletedFacts
  <1> HIDE DEF gone
  <1>5. Range(gone) \subseteq Range(kids) /\ Range(kids) \subseteq InUse(Disk) /\ InUse(Disk) \subseteq Places
        /\ gone \in Seq(Places)
    <2>1. Range(kids) \subseteq InUse(Disk) /\ InUse(Disk) \subseteq Places
      BY <1>2, <1>3, DiskFacts
    <2>2. \A i \in 1..Len(gone) : gone[i] \in Range(kids)
      BY <1>4
    <2>3. DOMAIN gone = 1..Len(gone)
      BY <1>4
    <2>4. Range(gone) \subseteq Range(kids)
      BY <2>2, <2>3 DEF Range
    <2>5. gone \in Seq(Places)
      BY <1>4, <2>1, <2>2
    <2> QED
      BY <2>1, <2>4, <2>5
  <1>6. v \in Seq(Writes) /\ Range(v) = Clears(Owned(Disk, Range(gone)), Range(gone))
    BY <1>2, <1>5, EraseEachFacts
  <1>7. w \in Seq(Writes) /\ Range(w) = Clears(Owned(Disk, K), K)
    <2>1. CASE Range(kids) = Range(gone)
      <3>1. w = EraseAll(p) /\ K = {p}
        BY <2>1
      <3>2. Owned(Disk, K) = On(Disk, At(p).cluster)
        BY <1>2, <3>1 DEF Owned
      <3> QED
        BY <1>2, <3>1, <3>2, EraseAllFacts
    <2>2. CASE Range(kids) # Range(gone)
      <3>1. w = <<>> /\ K = {}
        BY <2>2
      <3>2. <<>> \in Seq(Writes) /\ Range(<<>>) = {}
        BY DEF Range
      <3>3. Clears(Owned(Disk, {}), {}) = {}
        BY DEF Clears, Owned
      <3> QED
        BY <3>1, <3>2, <3>3
    <2> QED
      BY <2>1, <2>2
  <1> DEFINE plan == v \o w
  <1>8. plan \in Seq(Writes) /\ Range(plan) = Clears(Owned(Disk, E), E)
    <2> HIDE DEF v, w, K
    <2>1. v \o w \in Seq(Writes) /\ Range(v \o w) = Range(v) \cup Range(w)
      BY <1>6, <1>7, OneAfter
    <2>2. Owned(Disk, E) = Owned(Disk, K) \cup Owned(Disk, Range(gone))
      BY DEF Owned
    <2>3. Clears(Owned(Disk, K), K) \cup Clears(Owned(Disk, Range(gone)), Range(gone))
            = Clears(Owned(Disk, E), E)
      <3> DEFINE A == Owned(Disk, K)
                 B == Owned(Disk, Range(gone))
      <3>1. Owned(Disk, E) = A \cup B /\ E = K \cup Range(gone)
        BY <2>2
      <3> HIDE DEF A, B, E
      <3>2. Clears(A, K) \cup Clears(B, Range(gone)) = Clears(A \cup B, K \cup Range(gone))
        BY ClearsUnion
      <3> QED
        BY <3>1, <3>2 DEF A, B
    <2> QED
      BY <1>6, <1>7, <2>1, <2>3
  <1> HIDE DEF v, w
  <1>9. \A q \in Range(kids) : Entry(Disk, q).kind = "file"
    BY <1>2, <1>3, FilesOnly
  <1>10. ASSUME NEW q \in InUse(Disk), q[1] \in Owned(Disk, E) PROVE q \in E
    <2>1. PICK r \in E : q[1] \in On(Disk, Entry(Disk, r).cluster)
      BY <1>10 DEF Owned
    <2>2. r \in InUse(Disk)
      BY <1>2, <1>5, <2>1
    <2>3. Entry(Disk, r).kind = "dir"
      BY <1>2, <2>1, <2>2, FilesOnly
    <2>4. r \notin Range(gone)
      BY <1>5, <1>9, <2>3
    <2>5. r = p /\ Range(kids) = Range(gone)
      BY <2>1, <2>4
    <2>6. q \in Range(kids)
      BY <1>2, <1>3, <2>1, <2>5
    <2> QED
      BY <2>5, <2>6
  <1>11. ASSUME NEW h \in Handles, open[h] # Closed PROVE open[h].at \notin E
    <2>1. open[h].at \notin Range(gone)
      BY <1>1, <1>5 DEF NotOpen
    <2>2. Remembers(Disk, open[h])
      BY <1>2, <1>11, DiskIs DEF Opened
    <2>3. open[h].at # p
      BY <1>1, <1>2, <2>2 DEF Remembers
    <2> QED
      BY <2>1, <2>3
  <1>12. on \in SUBSET InUse(Disk) /\ E \in SUBSET on /\ "rmdir" \in {"unlink", "rmdir"}
         /\ Perform("rmdir", on, plan, {})
    BY <1>1, <1>2, <1>5
  <1> HIDE DEF plan, E, on
  <1> QED
    BY <1>8, <1>10, <1>11, <1>12, EraseStep

-----------------------------------------------------------------------------
(* open, close, read, restart                                               *)

LEMMA OpenChanged ==
  ASSUME IInv, Ready, UNCHANGED <<fat, slot, written, cut, harm>>,
         open' \in [Handles -> Copies \cup {Closed}],
         \A h \in Handles : open'[h] # Closed => open'[h] = open[h] \/ Remembers(Disk, open'[h])
  PROVE  IInv'
  <1> DEFINE y == [fat |-> fat, slot |-> slot, written |-> written, open |-> open']
  <1>1. /\ Sound(Disk) /\ Opened(Disk) /\ Disk \in Disks /\ cut.on \subseteq Places
        /\ (harm = {} => Lost(Disk) = {}) /\ harm \subseteq {"crash"}
    BY DEF IInv, Ready
  <1>2. Disk' = y
    BY DEF Disk
  <1>3. /\ y \in Disks /\ y.fat = Disk.fat /\ y.slot = Disk.slot /\ y.written = Disk.written
        /\ y.open = open'
    <2>1. /\ fat \in Tables /\ slot \in [Clusters -> [1..SlotsPer -> Cell]] /\ written \in SUBSET Clusters
      BY <1>1, DiskIs DEF Disks, Tables
    <2>2. y \in Disks
      BY <2>1, DiskRecord
    <2> QED
      BY <2>2, DiskIs
  <1> HIDE DEF y
  <1>4. Sound(y) /\ Lost(y) = Lost(Disk) /\ \A f : Remembers(Disk, f) => Remembers(y, f)
    BY <1>1, <1>3, SameDisk
  <1>5. Opened(y)
    <2> SUFFICES ASSUME NEW h \in Handles, y.open[h] # Closed PROVE Remembers(y, y.open[h])
      BY DEF Opened
    <2>1. y.open[h] = open'[h]
      BY <1>3
    <2>2. open'[h] = open[h] => Remembers(Disk, open'[h])
      BY <1>1, <2>1, DiskIs DEF Opened
    <2> QED
      BY <1>4, <2>1, <2>2
  <1>6. cut' = cut /\ harm' = harm
    OBVIOUS
  <1>7. harm' \subseteq Harms /\ "rename" \notin harm' /\ cut'.on \subseteq Places
    BY <1>1, <1>6 DEF Harms
  <1> QED
    BY <1>1, <1>2, <1>4, <1>5, <1>6, <1>7, Closing

LEMMA OpenIs ==
  ASSUME Disk \in Disks
  PROVE  open \in [Handles -> Copies \cup {Closed}]
  BY DiskIs DEF Disks

LEMMA OpenStep ==
  ASSUME IInv, Ready, NEW p \in Live, NEW h \in Handles, Open(h, p)
  PROVE  IInv'
  <1> DEFINE f == Copy(p, At(p).cluster, At(p).size)
  <1>1. /\ At(p).kind = "file" /\ open' = [open EXCEPT ![h] = f]
        /\ UNCHANGED <<fat, slot, written, cut, harm>>
    BY DEF Open
  <1>2. /\ Sound(Disk) /\ Disk \in Disks /\ p \in InUse(Disk) /\ p \in Places
        /\ At(p) = Entry(Disk, p) /\ At(p) \in Entries /\ open \in [Handles -> Copies \cup {Closed}]
    BY LiveFacts, DiskFacts, DiskIs, OpenIs DEF IInv
  <1>3. f \in Copies /\ f.at = p /\ f.cluster = At(p).cluster /\ f.size = At(p).size /\ f.off = 0
    BY <1>2, FatAssumption DEF Copies, Entries, Copy
  <1>4. Remembers(Disk, f)
    <2>1. Full(Disk, Entry(Disk, p).cluster, Entry(Disk, p).size)
      BY <1>1, <1>2 DEF Sound, Filled
    <2>2. 0 <= At(p).size
      BY <1>2 DEF Entries
    <2> HIDE DEF f
    <2> QED
      BY <1>1, <1>2, <1>3, <2>1, <2>2 DEF Remembers
  <1> HIDE DEF f
  <1>5. open' \in [Handles -> Copies \cup {Closed}] /\ \A k \in Handles : open'[k] = IF k = h THEN f ELSE open[k]
    BY <1>1, <1>2, <1>3
  <1> QED
    BY <1>1, <1>4, <1>5, OpenChanged

LEMMA CloseStep ==
  ASSUME IInv, Ready, NEW h \in Handles, Close(h)
  PROVE  IInv'
  <1>1. open' = [open EXCEPT ![h] = Closed] /\ UNCHANGED <<fat, slot, written, cut, harm>>
    BY DEF Close
  <1>2. open \in [Handles -> Copies \cup {Closed}]
    BY OpenIs DEF IInv
  <1>3. /\ open' \in [Handles -> Copies \cup {Closed}]
        /\ \A k \in Handles : open'[k] = IF k = h THEN Closed ELSE open[k]
    BY <1>1, <1>2
  <1> QED
    BY <1>1, <1>3, OpenChanged

LEMMA RestartStep ==
  ASSUME IInv, Ready, Restart
  PROVE  IInv'
  <1>1. /\ UNCHANGED <<fat, slot, written, cut, harm>>
        /\ open' \in [Handles -> Copies \cup {Closed}] /\ \A h \in Handles : open'[h] = Closed
    BY DEF Restart
  <1> QED
    BY <1>1, OpenChanged

LEMMA ReadStep ==
  ASSUME IInv, Ready, NEW h \in Handles, ReadFd(h)
  PROVE  IInv'
  <1> DEFINE f == open[h]
             g == [f EXCEPT !.off = @ + 1]
  <1>1. /\ open' = [open EXCEPT ![h].off = @ + 1] /\ UNCHANGED <<fat, slot, written, cut, harm>>
        /\ f.off < (IF f.size <= Len(Chain(f.cluster)) THEN f.size ELSE Len(Chain(f.cluster)))
    BY DEF ReadFd
  <1>2. /\ open \in [Handles -> Copies \cup {Closed}] /\ Disk \in Disks /\ Opened(Disk)
    BY OpenIs DEF IInv
  <1>3. f \in Copies \cup {Closed}
    BY <1>2
  <1>4. f # Closed
    <2> SUFFICES ASSUME f = Closed PROVE FALSE
      OBVIOUS
    <2>1. Closed.size = 0 /\ Closed.off = 0 /\ Closed.cluster = 0
      BY DEF Closed, Copy
    <2>2. Chain(0) = <<>>
      BY <1>2, DiskFacts, DiskIs
    <2>3. Len(Chain(0)) = 0
      BY <2>2
    <2> HIDE DEF f
    <2> QED
      BY <1>1, <2>1, <2>3
  <1>5. f \in Copies /\ Remembers(Disk, f)
    BY <1>2, <1>3, <1>4, DiskIs DEF Opened
  <1>6. Len(Chain(f.cluster)) \in Nat
    <2>1. Chain(f.cluster) \in Seq(Clusters)
      BY <1>2, DiskFacts, DiskIs
    <2> QED
      BY <2>1
  <1>7. f.off \in Nat /\ f.size \in Nat /\ f.size <= MaxSize /\ f.off + 1 <= f.size
    BY <1>1, <1>5, <1>6, FatAssumption DEF Copies
  <1> HIDE DEF f
  <1>8. g \in Copies /\ g.at = f.at /\ g.cluster = f.cluster /\ g.size = f.size /\ g.off = f.off + 1
    BY <1>5, <1>7, FatAssumption DEF Copies
  <1>9. open' \in [Handles -> Copies \cup {Closed}] /\ \A k \in Handles : open'[k] = IF k = h THEN g ELSE open[k]
    <2>1. open' = [open EXCEPT ![h] = g]
      BY <1>1 DEF f
    <2> HIDE DEF g
    <2> QED
      BY <1>2, <1>8, <2>1
  <1>10. Remembers(Disk, g)
    <2> HIDE DEF g
    <2> QED
      BY <1>5, <1>7, <1>8 DEF Remembers
  <1> HIDE DEF g
  <1> QED
    BY <1>1, <1>9, <1>10, OpenChanged

LEMMA InitStep ==
  ASSUME Init
  PROVE  IInv
  <1> DEFINE x == Disk
  <1>1. /\ fat = [c \in Clusters |-> IF c = Root THEN Eof ELSE Free]
        /\ slot = [c \in Clusters |-> NoSlots] /\ written = {}
        /\ open = [h \in Handles |-> Closed] /\ cut.on = {} /\ harm = {}
    BY DEF Init, Whole
  <1>2. x \in Disks /\ x.fat = fat /\ x.slot = slot /\ x.written = written /\ x.open = open
    <2>1. /\ fat \in Tables /\ slot \in [Clusters -> [1..SlotsPer -> Cell]] /\ written \in SUBSET Clusters
          /\ open \in [Handles -> Copies \cup {Closed}]
      BY <1>1, NoSlotsFacts DEF Tables
    <2>2. x \in Disks
      BY <2>1, DiskRecord DEF Disk
    <2> QED
      BY <2>2, DiskIs
  <1> HIDE DEF x
  <1>3. x.fat[Root] = Eof /\ \A c \in Clusters : c # Root => x.fat[c] = Free
    BY <1>1, <1>2, ClusterFacts
  <1>4. InUse(x) = {}
    <2> SUFFICES ASSUME NEW p \in InUse(x) PROVE FALSE
      OBVIOUS
    <2>1. p \in Places /\ Entry(x, p).kind \in {"file", "dir"}
      BY DEF InUse
    <2>2. p[1] \in Clusters /\ p[2] \in 1..SlotsPer
      BY <1>2, <2>1, DiskFacts
    <2>3. Entry(x, p) = NoSlots[p[2]]
      BY <1>1, <1>2, <2>2 DEF Entry
    <2> QED
      BY <2>1, <2>2, <2>3, NoSlotsFacts DEF NoneIn
  <1>5. Path(x.fat, Trail(x, Root)) /\ On(x, Root) = {Root}
    BY <1>2, <1>3, Alone, ClusterFacts
  <1>6. Heads(x) = {Root} /\ Used(x) = {Root}
    <2>1. Heads(x) = {Root}
      BY <1>4, ClusterFacts DEF Heads
    <2> QED
      BY <1>5, <2>1 DEF Used
  <1>7. Sound(x)
    BY <1>2, <1>4, <1>5, <1>6 DEF Sound, Ending, Apart, OneEach, Rooted, Filled
  <1>8. Opened(x)
    BY <1>1, <1>2 DEF Opened
  <1>9. Lost(x) = {}
    BY <1>3, <1>6 DEF Lost
  <1>10. Partly(x, Unfinished, BeingMoved)
    BY <1>7, SoundPartly
  <1> QED
    BY <1>1, <1>2, <1>7, <1>8, <1>9, <1>10 DEF IInv, x

-----------------------------------------------------------------------------
(* write                                                                    *)

After(v, y) == States(v, y)[Len(v)]

\* No write of v does damage or, when it fails, loses more than the operation does anyway.
Careful(v, y, hurts) ==
  /\ v \in Seq(Writes)
  /\ \A k \in 1..Len(v) : /\ Sound(States(v, y)[k]) /\ v[k].k \notin {"erase", "entry"}
                          /\ v[k].k = "data" => Fine(Disk, States(v, y)[k-1], hurts)

LEMMA CarefulTwo ==
  ASSUME NEW y \in Disks, NEW hurts, NEW v, Careful(v, y, hurts), NEW w, Careful(w, After(v, y), hurts)
  PROVE  Careful(v \o w, y, hurts) /\ After(v \o w, y) = After(w, After(v, y))
  <1> DEFINE z == After(v, y)
             s == States(v \o w, y)
             u == v \o w
  <1>1. v \in Seq(Writes) /\ w \in Seq(Writes)
    BY DEF Careful
  <1>2. /\ u \in Seq(Writes) /\ Len(u) = Len(v) + Len(w)
        /\ \A k \in 0..Len(w) : s[Len(v) + k] = States(w, z)[k]
    BY <1>1, StatesConcat DEF After
  <1>3. \A k \in 1..Len(u) : InTwo(k, v, w, y)
    BY <1>1, TwoPlans
  <1>4. ASSUME NEW k \in 1..Len(u)
        PROVE  /\ Sound(s[k]) /\ u[k].k \notin {"erase", "entry"}
               /\ u[k].k = "data" => Fine(Disk, s[k-1], hurts)
    <2>1. \/ k \in 1..Len(v) /\ u[k] = v[k] /\ s[k] = States(v, y)[k] /\ s[k-1] = States(v, y)[k-1]
          \/ \E j \in 1..Len(w) : /\ k = Len(v) + j /\ u[k] = w[j]
                                  /\ s[k] = States(w, z)[j] /\ s[k-1] = States(w, z)[j-1]
      BY <1>3 DEF InTwo, After
    <2> HIDE DEF s, u, z
    <2>2. CASE k \in 1..Len(v) /\ u[k] = v[k] /\ s[k] = States(v, y)[k] /\ s[k-1] = States(v, y)[k-1]
      BY <2>2 DEF Careful
    <2>3. CASE \E j \in 1..Len(w) : /\ k = Len(v) + j /\ u[k] = w[j]
                                    /\ s[k] = States(w, z)[j] /\ s[k-1] = States(w, z)[j-1]
      <3>1. PICK j \in 1..Len(w) : u[k] = w[j] /\ s[k] = States(w, z)[j] /\ s[k-1] = States(w, z)[j-1]
        BY <2>3
      <3>2. Careful(w, z, hurts)
        BY DEF z
      <3> QED
        BY <3>1, <3>2 DEF Careful
    <2> QED
      BY <2>1, <2>2, <2>3
  <1>5. Careful(u, y, hurts)
    BY <1>2, <1>4 DEF Careful
  <1>6. s[Len(u)] = States(w, z)[Len(w)]
    <2>1. Len(w) \in 0..Len(w)
      BY <1>1
    <2> QED
      BY <1>2, <2>1
  <1> QED
    BY <1>5, <1>6 DEF After

LEMMA CarefulNone ==
  ASSUME NEW y \in Disks, NEW hurts
  PROVE  Careful(<<>>, y, hurts) /\ After(<<>>, y) = y
  <1>1. <<>> \in Seq(Writes) /\ Len(<<>>) = 0 /\ \A k \in 1..0 : FALSE
    OBVIOUS
  <1>2. Runs(States(<<>>, y), <<>>, y)
    BY <1>1, StatesRun
  <1> QED
    BY <1>1, <1>2 DEF Careful, After, Runs

LEMMA CarefulOne ==
  ASSUME NEW y \in Disks, NEW hurts, NEW w \in Writes, w.k \notin {"erase", "entry"}, Sound(Apply(w, y)),
         w.k = "data" => Fine(Disk, y, hurts)
  PROVE  Careful(<<w>>, y, hurts) /\ After(<<w>>, y) = Apply(w, y)
  <1> DEFINE v == <<w>>
             s == States(v, y)
  <1>1. v \in Seq(Writes) /\ Len(v) = 1 /\ v[1] = w
    OBVIOUS
  <1> HIDE DEF v
  <1>2. Runs(s, v, y)
    BY <1>1, StatesRun
  <1> HIDE DEF s
  <1>3. s[0] = y /\ s[1] = Apply(w, y)
    <2>1. 1 \in 1..Len(v) /\ 1 - 1 = 0
      BY <1>1
    <2>2. s[1] = Apply(v[1], s[1-1])
      BY <1>2, <2>1 DEF Runs
    <2> QED
      BY <1>1, <1>2, <2>1, <2>2 DEF Runs
  <1>4. \A k \in 1..Len(v) : k = 1 /\ k - 1 = 0
    BY <1>1
  <1>5. Careful(v, y, hurts)
    BY <1>1, <1>3, <1>4 DEF Careful, s
  <1>6. After(v, y) = Apply(w, y)
    BY <1>1, <1>3 DEF After, s
  <1> QED
    BY <1>5, <1>6 DEF v

LEMMA AfterDisk ==
  ASSUME NEW y \in Disks, NEW v \in Seq(Writes)
  PROVE  After(v, y) \in Disks
  <1>1. Runs(States(v, y), v, y) /\ Len(v) \in 0..Len(v)
    BY StatesRun
  <1> QED
    BY <1>1 DEF Runs, After

\* The copy f of an entry with which a file is written, and the clusters all that it may get.
Writing(f, all, ks) ==
  /\ f \in Copies /\ ks \in SUBSET Handles /\ all \in Seq(Clusters) /\ Distinct(all)
  /\ Len(Chain(f.cluster)) \in 0..Len(all)
  /\ f.off <= f.size /\ f.size <= Len(Chain(f.cluster))

\* The file has the first m clusters of all, and data in the first k of them.
Going(y, f, all, k, m) ==
  /\ Sound(y)
  /\ f.at \in InUse(y) /\ Entry(y, f.at).kind = "file"
  /\ m > 0 => /\ Entry(y, f.at).cluster = all[1]
              /\ Len(Trail(y, all[1])) = m /\ \A j \in 1..m : Trail(y, all[1])[j] = all[j]
  /\ m = 0 /\ Hurts(f) = {} => Entry(y, f.at).cluster = 0
  /\ \A j \in m + 1..Len(all) : all[j] \notin Used(y)
  /\ \A j \in 1..m : j <= k \/ j <= f.size => all[j] \in y.written
  /\ Hurts(f) = {} => Opened(y) /\ Lost(y) \subseteq Lost(Disk)

LEMMA GoingFine ==
  ASSUME NEW y, NEW f, NEW all, NEW k, NEW m, Going(y, f, all, k, m)
  PROVE  Fine(Disk, y, Hurts(f)) /\ y \in Disks
  BY DEF Going, Fine, Sound

LEMMA PairIs ==
  ASSUME NEW a \in Writes, NEW b \in Writes
  PROVE  <<a, b>> = <<a>> \o <<b>>
  <1> DEFINE v == <<a>>
             w == <<b>>
             u == <<a, b>>
  <1>1. /\ v \in Seq(Writes) /\ w \in Seq(Writes) /\ u \in Seq(Writes)
        /\ Len(v) = 1 /\ Len(w) = 1 /\ Len(u) = 2 /\ v[1] = a /\ w[1] = b /\ u[1] = a /\ u[2] = b
    OBVIOUS
  <1> HIDE DEF v, w, u
  <1>2. /\ v \o w \in Seq(Writes) /\ Len(v \o w) = Len(v) + Len(w)
        /\ \A k \in 1..Len(v) : (v \o w)[k] = v[k]
        /\ \A k \in 1..Len(w) : (v \o w)[Len(v) + k] = w[k]
    BY <1>1, OneAfter
  <1>3. Len(v \o w) = 2 /\ (v \o w)[1] = a /\ (v \o w)[2] = b
    <2>1. 1 \in 1..Len(v) /\ 1 \in 1..Len(w) /\ Len(v) + 1 = 2
      BY <1>1
    <2> QED
      BY <1>1, <1>2, <2>1
  <1>4. \A k \in 1..Len(u) : u[k] = (v \o w)[k]
    BY <1>1, <1>3
  <1>5. u = v \o w
    BY <1>1, <1>2, <1>3, <1>4
  <1> QED
    BY <1>5 DEF u, v, w

LEMMA LinkNext ==
  ASSUME NEW f, NEW all, NEW ks, Writing(f, all, ks), NEW k \in 2..Len(all), k > Len(Chain(f.cluster)),
         NEW y, Going(y, f, all, k-1, k-1)
  PROVE  Careful(Link(f, all, k, ks), y, Hurts(f)) /\ Going(After(Link(f, all, k, ks), y), f, all, k-1, k)
  <1> DEFINE c == all[k]
             l == all[k-1]
             h == all[1]
             p == f.at
             a == SetFat(c, Eof)
             b == SetFat(l, c)
             z == Apply(a, y)
             u == Apply(b, z)
  <1>1. /\ all \in Seq(Clusters) /\ Distinct(all) /\ Len(all) \in Nat /\ f.size \in Nat /\ f.size <= k - 1
        /\ k \in 1..Len(all) /\ k - 1 \in 1..Len(all) /\ 1 \in 1..Len(all) /\ k # 1 /\ k \in Nat /\ k - 1 > 0
        /\ k - 1 \in Nat
    <2>1. Len(Chain(f.cluster)) \in Nat /\ f.size \in Nat /\ f.size <= Len(Chain(f.cluster))
          /\ all \in Seq(Clusters) /\ Distinct(all)
      BY DEF Writing, Copies
    <2> QED
      BY <2>1
  <1>2. c \in Clusters /\ l \in Clusters /\ h \in Clusters
    BY <1>1
  <1>3. /\ Sound(y) /\ y \in Disks /\ p \in InUse(y) /\ Entry(y, p).kind = "file" /\ Entry(y, p).cluster = h
        /\ Len(Trail(y, h)) = k - 1 /\ \A j \in 1..k - 1 : Trail(y, h)[j] = all[j]
    BY <1>1 DEF Going, Sound
  <1>4. c \notin Used(y)
    <2>1. k \in (k - 1) + 1..Len(all)
      BY <1>1
    <2> QED
      BY <2>1 DEF Going
  <1>5. z = Apply(SetFat(c, Eof), y) /\ u = Apply(SetFat(l, c), z)
    OBVIOUS
  <1>6. Link(f, all, k, ks) = <<a, b>>
    BY <1>1 DEF Link
  <1>7. /\ a \in Writes /\ b \in Writes /\ a.k = "fat" /\ b.k = "fat"
        /\ <<a, b>> = <<a>> \o <<b>>
    <2>1. a \in Writes /\ b \in Writes /\ a.k = "fat" /\ b.k = "fat"
      BY <1>2, WriteTypes
    <2> QED
      BY <2>1, PairIs
  <1> HIDE DEF c, l, h, p, a, b, z, u
  <1>8. /\ Alike(y, z) /\ z.fat = [y.fat EXCEPT ![c] = Eof] /\ z.written = y.written
        /\ \A q : Entry(z, q) = Entry(y, q)
        /\ Lost(z) = Lost(y) \cup {c}
    <2>1. c \in Clusters \ Used(y) /\ z = Apply(SetFat(c, Eof), y) /\ Sound(y)
      BY <1>2, <1>3, <1>4, <1>5
    <2> QED
      BY <2>1, Taken
  <1>9. /\ Sound(z) /\ z \in Disks /\ z.open = y.open /\ Used(z) = Used(y) /\ InUse(z) = InUse(y)
        /\ Heads(z) = Heads(y) /\ \A q : Keeps(y, z, q)
    BY <1>8 DEF Alike, Sound
  <1>10. h \in Heads(z) /\ h # 0
    BY <1>2, <1>3, <1>9, HeadFacts, ClusterFacts
  <1>11. Trail(z, h) = Trail(y, h) /\ Trail(z, h) \in Seq(Clusters) /\ Last(Trail(z, h)) = l
    <2>1. Trail(z, h) = Trail(y, h) /\ Trail(z, h) \in Seq(Clusters)
      BY <1>8, <1>9, <1>10, DiskFacts DEF Alike
    <2>2. k - 1 \in 1..k - 1
      BY <1>1
    <2> QED
      BY <1>3, <2>1, <2>2 DEF Last, l
  <1>12. u \in Disks /\ u.fat = [z.fat EXCEPT ![l] = c] /\ u.slot = z.slot /\ u.written = z.written
         /\ u.open = z.open
    BY <1>2, <1>5, <1>9, ApplyFat
  <1>13. z.fat[c] = Eof /\ c \in Clusters \ Used(z)
    BY <1>2, <1>3, <1>4, <1>8, <1>9 DEF Disks
  <1>14. /\ Sound(u) /\ InUse(u) = InUse(z) /\ Used(u) = Used(z) \cup {c}
         /\ Trail(u, h) = Append(Trail(z, h), c)
         /\ \A q : Keeps(z, u, q)
    <2>1. u.fat = [z.fat EXCEPT ![Last(Trail(z, h))] = c]
      BY <1>11, <1>12
    <2> QED
      BY <1>9, <1>10, <1>12, <1>13, <2>1, Linked
  <1>15. Len(Trail(u, h)) = k /\ \A j \in 1..k : Trail(u, h)[j] = all[j]
    <2> DEFINE t == Trail(z, h)
    <2>1. t \in Seq(Clusters) /\ Len(t) = k - 1 /\ (\A j \in 1..k - 1 : t[j] = all[j]) /\ Trail(u, h) = Append(t, c)
      BY <1>3, <1>11, <1>14
    <2> HIDE DEF t
    <2>2. /\ Len(Append(t, c)) = Len(t) + 1 /\ Append(t, c)[Len(t) + 1] = c
          /\ \A j \in 1..Len(t) : Append(t, c)[j] = t[j]
      BY <1>2, <2>1, RangeAppend
    <2>3. Len(t) + 1 = k /\ \A j \in 1..k : j = k \/ j \in 1..k - 1
      BY <1>1, <2>1
    <2> QED
      BY <2>1, <2>2, <2>3 DEF c
  <1>16. \A j \in k + 1..Len(all) : all[j] \notin Used(u)
    <2> SUFFICES ASSUME NEW j \in k + 1..Len(all) PROVE all[j] \notin Used(u)
      OBVIOUS
    <2>1. j \in (k - 1) + 1..Len(all) /\ j \in 1..Len(all) /\ j # k
      BY <1>1
    <2>2. all[j] \notin Used(y)
      BY <2>1 DEF Going
    <2>3. all[j] # c
      BY <1>1, <2>1 DEF Distinct, c
    <2> QED
      BY <1>9, <1>14, <2>2, <2>3
  <1>17. \A j \in 1..k : j <= k - 1 \/ j <= f.size => all[j] \in u.written
    <2> SUFFICES ASSUME NEW j \in 1..k, j <= k - 1 \/ j <= f.size PROVE all[j] \in u.written
      OBVIOUS
    <2>1. j \in 1..k - 1 /\ j <= k - 1
      BY <1>1
    <2> QED
      BY <1>8, <1>12, <2>1 DEF Going
  <1>18. Lost(u) \subseteq Lost(y)
    <2> SUFFICES ASSUME NEW d \in Lost(u) PROVE d \in Lost(y)
      OBVIOUS
    <2>1. d \in Clusters /\ u.fat[d] # Free /\ d \notin Used(z) /\ d # c
      BY <1>14 DEF Lost
    <2>2. l \in Used(z)
      <3>1. k - 1 \in 1..k - 1
        BY <1>1
      <3>2. Trail(z, h)[k - 1] = l /\ DOMAIN Trail(z, h) = 1..k - 1
        BY <1>3, <1>11, <3>1 DEF l
      <3>3. l \in On(z, h)
        BY <3>1, <3>2 DEF On, Range
      <3> QED
        BY <1>9, <1>10, <3>3, HeadFacts
    <2>3. u.fat[d] = z.fat[d]
      BY <1>9, <1>12, <2>1, <2>2 DEF Disks
    <2> QED
      BY <1>8, <2>1, <2>3 DEF Lost
  <1>19. ASSUME Hurts(f) = {} PROVE Opened(u) /\ Lost(u) \subseteq Lost(Disk)
    <2>1. Opened(y) /\ Lost(y) \subseteq Lost(Disk)
      BY <1>19 DEF Going
    <2>2. Opened(z)
      BY <1>3, <1>9, <2>1, KeptOpened
    <2>3. Opened(u)
      BY <1>9, <1>12, <1>14, <2>2, KeptOpened
    <2> QED
      BY <1>18, <2>1, <2>3
  <1>20. Entry(u, p) = Entry(y, p) /\ p \in InUse(u)
    BY <1>3, <1>8, <1>9, <1>12, <1>14 DEF Entry
  <1>21. Going(u, f, all, k-1, k)
    <2>1. k > 0 /\ k # 0
      BY <1>1
    <2> QED
      BY <1>3, <1>14, <1>15, <1>16, <1>17, <1>19, <1>20, <2>1 DEF Going, h, p
  <1>22. Careful(<<a>>, y, Hurts(f)) /\ After(<<a>>, y) = z
    <2>1. a.k \notin {"erase", "entry"} /\ ~(a.k = "data") /\ Sound(Apply(a, y)) /\ z = Apply(a, y)
      BY <1>5, <1>7, <1>9 DEF a
    <2> QED
      BY <1>3, <1>7, <2>1, CarefulOne
  <1>23. Careful(<<b>>, z, Hurts(f)) /\ After(<<b>>, z) = u
    <2>1. b.k \notin {"erase", "entry"} /\ ~(b.k = "data") /\ Sound(Apply(b, z)) /\ u = Apply(b, z)
      BY <1>5, <1>7, <1>14 DEF b
    <2> QED
      BY <1>7, <1>9, <2>1, CarefulOne
  <1>24. Careful(<<a>> \o <<b>>, y, Hurts(f)) /\ After(<<a>> \o <<b>>, y) = u
    BY <1>3, <1>22, <1>23, CarefulTwo
  <1> QED
    BY <1>6, <1>7, <1>21, <1>24

LEMMA UpdatedFacts ==
  ASSUME NEW e \in Entries, e.kind = "file", NEW g \in Copies
  PROVE  LET u == Updated(e, g)
         IN u \in Entries /\ u.kind = "file" /\ u.cluster = g.cluster /\ u.size = g.size
  <1>1. g.cluster \in Clusters \cup {0} /\ g.size \in 0..MaxSize
    BY DEF Copies
  <1>2. Updated(e, g) = [e EXCEPT !.cluster = g.cluster, !.size = g.size]
    BY DEF Updated
  <1> QED
    BY <1>1, <1>2 DEF Entries

LEMMA LinkFirst ==
  ASSUME NEW f, NEW all, NEW ks, Writing(f, all, ks), 1 \in 1..Len(all), 1 > Len(Chain(f.cluster)),
         NEW y, Going(y, f, all, 0, 0)
  PROVE  Careful(Link(f, all, 1, ks), y, Hurts(f)) /\ Going(After(Link(f, all, 1, ks), y), f, all, 0, 1)
  <1> DEFINE c == all[1]
             p == f.at
             g == [f EXCEPT !.cluster = c]
             a == SetFat(c, Eof)
             b == Update(p, g, ks)
             z == Apply(a, y)
             u == Apply(b, z)
  <1>1. /\ all \in Seq(Clusters) /\ Distinct(all) /\ Len(all) \in Nat /\ f \in Copies /\ f.size = 0 /\ f.off = 0
        /\ ks \in SUBSET Handles
    <2>1. /\ Len(Chain(f.cluster)) \in Nat /\ f.size \in Nat /\ f.off \in Nat /\ f.off <= f.size
          /\ f.size <= Len(Chain(f.cluster)) /\ all \in Seq(Clusters) /\ Distinct(all) /\ f \in Copies
          /\ ks \in SUBSET Handles
      BY DEF Writing, Copies
    <2> QED
      BY <2>1
  <1>2. c \in Clusters /\ c # 0 /\ p \in Places
    BY <1>1, ClusterFacts DEF Copies
  <1>3. /\ g \in Copies /\ g.at = p /\ g.cluster = c /\ g.size = 0 /\ g.off = 0
    BY <1>1, <1>2 DEF Copies
  <1>4. Sound(y) /\ y \in Disks /\ p \in InUse(y) /\ Entry(y, p).kind = "file"
    BY DEF Going, Sound
  <1>5. c \notin Used(y)
    <2>1. 1 \in 0 + 1..Len(all)
      BY <1>1
    <2> QED
      BY <2>1 DEF Going
  <1>6. z = Apply(SetFat(c, Eof), y) /\ u = Apply(Update(p, g, ks), z)
    OBVIOUS
  <1>7. Link(f, all, 1, ks) = <<a, b>>
    BY DEF Link
  <1>8. /\ a \in Writes /\ b \in Writes /\ a.k = "fat" /\ b.k = "update"
        /\ <<a, b>> = <<a>> \o <<b>>
    <2>1. a \in Writes /\ a.k = "fat"
      BY <1>2, WriteTypes
    <2> HIDE DEF g
    <2>2. b \in Writes /\ b.k = "update"
      BY <1>1, <1>2, <1>3, WriteTypes
    <2> HIDE DEF a, b
    <2> QED
      BY <2>1, <2>2, PairIs
  <1> HIDE DEF c, p, g, a, b, z, u
  <1>9. /\ Alike(y, z) /\ z.fat = [y.fat EXCEPT ![c] = Eof] /\ z.written = y.written
        /\ \A q : Entry(z, q) = Entry(y, q)
        /\ Lost(z) = Lost(y) \cup {c}
    <2>1. c \in Clusters \ Used(y) /\ z = Apply(SetFat(c, Eof), y) /\ Sound(y)
      BY <1>2, <1>4, <1>5, <1>6
    <2> QED
      BY <2>1, Taken
  <1>10. /\ Sound(z) /\ z \in Disks /\ z.open = y.open /\ Used(z) = Used(y) /\ InUse(z) = InUse(y)
         /\ \A q : Keeps(y, z, q)
    BY <1>9 DEF Alike, Sound
  <1>11. /\ u \in Disks /\ u.fat = z.fat /\ u.written = z.written
         /\ \A q \in Places : Entry(u, q) = IF q = p THEN Updated(Entry(z, p), g) ELSE Entry(z, q)
         /\ \A h \in Handles : u.open[h] = IF h \in ks THEN g ELSE z.open[h]
    BY <1>1, <1>2, <1>3, <1>6, <1>10, ApplyUpdate
  <1> DEFINE e == Updated(Entry(z, p), g)
  <1>12. /\ e \in Entries /\ e.kind = "file" /\ e.cluster = c /\ e.size = 0
    <2>1. Entry(z, p) \in Entries /\ Entry(z, p).kind = "file"
      BY <1>4, <1>9, <1>10, DiskFacts
    <2> QED
      BY <1>2, <1>3, <2>1, FatAssumption, UpdatedFacts
  <1>13. PICK d \in DirHeads(z) : p[1] \in On(z, d)
    BY <1>4, <1>10 DEF Sound, Rooted
  <1>14. z.fat[c] = Eof /\ c \notin Used(z)
    BY <1>2, <1>4, <1>5, <1>9, <1>10 DEF Disks
  <1> HIDE DEF e
  <1>15. /\ \A q \in Places : Entry(u, q) = IF q = p THEN e ELSE Entry(z, q)
         /\ p \in InUse(z) => Entry(z, p).kind = "file" /\ e.kind = "file"
         /\ e.kind = "dir" => d = Root /\ e.cluster # 0
         /\ e.cluster # 0 => e.cluster \notin Used(z) /\ z.fat[e.cluster] = Eof
    BY <1>4, <1>9, <1>11, <1>12, <1>14 DEF e
  <1>16. /\ Sound(u) /\ InUse(u) = InUse(z) \cup {p}
         /\ Heads(u) \subseteq Heads(z) \cup {e.cluster}
         /\ \A b0 : Trail(u, b0) = Trail(z, b0)
         /\ \A q : (q = p /\ p \in InUse(z) => Entry(z, p).cluster = 0) => Keeps(z, u, q)
         /\ (p \in InUse(z) => Entry(z, p).cluster = 0) => Used(z) \cup On(z, e.cluster) \subseteq Used(u)
    BY <1>2, <1>10, <1>11, <1>12, <1>13, <1>15, Entered
  <1>17. Entry(u, p) = e /\ p \in InUse(u)
    BY <1>2, <1>15, <1>16
  <1>18. Trail(z, c) = <<c>> /\ On(z, c) = {c}
    BY <1>2, <1>10, <1>14, Alone
  <1>19. Len(Trail(u, c)) = 1 /\ Trail(u, c)[1] = c
    BY <1>16, <1>18
  <1>20. \A j \in 1 + 1..Len(all) : all[j] \notin Used(u)
    <2> SUFFICES ASSUME NEW j \in 1 + 1..Len(all), all[j] \in Used(u) PROVE FALSE
      OBVIOUS
    <2>1. j \in 1..Len(all) /\ j \in 0 + 1..Len(all) /\ j # 1
      BY <1>1
    <2>2. all[j] \notin Used(y)
      BY <2>1 DEF Going
    <2>3. all[j] # c
      BY <1>1, <2>1 DEF Distinct, c
    <2>4. PICK i \in Heads(u) : all[j] \in On(u, i)
      BY DEF Used
    <2>5. On(u, i) = On(z, i) /\ i \in Heads(z) \cup {c}
      BY <1>12, <1>16, <2>4 DEF On
    <2>6. CASE i = c
      BY <1>18, <2>3, <2>4, <2>5, <2>6
    <2>7. CASE i \in Heads(z)
      BY <1>10, <2>2, <2>4, <2>5, <2>7 DEF Used
    <2> QED
      BY <2>5, <2>6, <2>7
  <1>21. Remembers(u, g)
    <2>1. Full(u, c, 0)
      BY <1>19 DEF Full
    <2> QED
      BY <1>3, <1>12, <1>17, <2>1 DEF Remembers
  <1>22. ASSUME Hurts(f) = {} PROVE Opened(u) /\ Lost(u) \subseteq Lost(Disk)
    <2>1. Opened(y) /\ Lost(y) \subseteq Lost(Disk) /\ Entry(z, p).cluster = 0
      BY <1>9, <1>22 DEF Going, p
    <2>2. (\A q : Keeps(z, u, q)) /\ Used(z) \cup {c} \subseteq Used(u)
      BY <1>12, <1>16, <1>18, <2>1
    <2>3. Opened(z)
      BY <1>4, <1>10, <2>1, KeptOpened
    <2>4. \A h \in Handles : u.open[h] = z.open[h] \/ Remembers(u, u.open[h])
      BY <1>11, <1>21
    <2>5. Opened(u)
      BY <1>10, <1>11, <2>2, <2>3, <2>4, KeptOpened
    <2>6. Lost(u) \subseteq Lost(y)
      BY <1>9, <1>11, <2>2 DEF Lost
    <2> QED
      BY <2>1, <2>5, <2>6
  <1>23. Going(u, f, all, 0, 1)
    <2>1. \A j \in 1..1 : j = 1 /\ ~(j <= 0 \/ j <= f.size)
      BY <1>1
    <2> QED
      BY <1>12, <1>16, <1>17, <1>19, <1>20, <1>22, <2>1 DEF Going, c, p
  <1>24. Careful(<<a>>, y, Hurts(f)) /\ After(<<a>>, y) = z
    <2>1. a.k \notin {"erase", "entry"} /\ ~(a.k = "data") /\ Sound(Apply(a, y)) /\ z = Apply(a, y)
      BY <1>6, <1>8, <1>10 DEF a
    <2> QED
      BY <1>4, <1>8, <2>1, CarefulOne
  <1>25. Careful(<<b>>, z, Hurts(f)) /\ After(<<b>>, z) = u
    <2>1. b.k \notin {"erase", "entry"} /\ ~(b.k = "data") /\ Sound(Apply(b, z)) /\ u = Apply(b, z)
      BY <1>6, <1>8, <1>16 DEF b
    <2> QED
      BY <1>8, <1>10, <2>1, CarefulOne
  <1>26. Careful(<<a>> \o <<b>>, y, Hurts(f)) /\ After(<<a>> \o <<b>>, y) = u
    BY <1>4, <1>24, <1>25, CarefulTwo
  <1> QED
    BY <1>7, <1>8, <1>23, <1>26

LEMMA DataStep ==
  ASSUME NEW f, NEW all, NEW ks, Writing(f, all, ks), NEW k \in 1..Len(all), NEW m \in k..Len(all),
         NEW y, Going(y, f, all, k-1, m)
  PROVE  Careful(<<Data(all[k])>>, y, Hurts(f)) /\ Going(After(<<Data(all[k])>>, y), f, all, k, m)
  <1> DEFINE c == all[k]
             w == Data(c)
             u == Apply(w, y)
  <1>1. all \in Seq(Clusters) /\ Len(all) \in Nat /\ k \in Nat /\ m \in Nat /\ m > 0
    <2>1. all \in Seq(Clusters)
      BY DEF Writing
    <2> QED
      BY <2>1
  <1>2. c \in Clusters /\ w \in Writes /\ w.k = "data"
    <2>1. c \in Clusters
      BY <1>1
    <2> QED
      BY <2>1, WriteTypes
  <1>3. /\ Sound(y) /\ y \in Disks /\ f.at \in InUse(y) /\ Entry(y, f.at).kind = "file"
        /\ Entry(y, f.at).cluster = all[1]
        /\ Len(Trail(y, all[1])) = m /\ \A j \in 1..m : Trail(y, all[1])[j] = all[j]
    BY <1>1 DEF Going, Sound
  <1>4. u = Apply(Data(c), y) /\ u = Apply(w, y)
    OBVIOUS
  <1> HIDE DEF c, w, u
  <1>5. /\ u \in Disks /\ u.fat = y.fat /\ u.slot = y.slot /\ u.open = y.open
        /\ u.written = y.written \cup {c}
    BY <1>2, <1>3, <1>4, ApplyData
  <1>6. InUse(u) = InUse(y) /\ \A p : Entry(u, p) = Entry(y, p)
    BY <1>5 DEF InUse, Entry
  <1>7. Alike(y, u)
    BY <1>3, <1>5, <1>6, UnmovedAlike
  <1>8. Sound(u) /\ Lost(u) = Lost(y) /\ Used(u) = Used(y)
    BY <1>5, <1>7 DEF Alike, Lost
  <1>9. \A b : Trail(u, b) = Trail(y, b)
    BY <1>5 DEF Trail
  <1>10. \A j \in 1..m : j <= k \/ j <= f.size => all[j] \in u.written
    <2> SUFFICES ASSUME NEW j \in 1..m, j <= k \/ j <= f.size PROVE all[j] \in u.written
      OBVIOUS
    <2>1. CASE j = k
      BY <1>5, <2>1 DEF c
    <2>2. CASE j # k
      <3>1. j <= k - 1 \/ j <= f.size
        BY <1>1, <2>2
      <3> QED
        BY <1>5, <3>1 DEF Going
    <2> QED
      BY <2>1, <2>2
  <1>11. ASSUME Hurts(f) = {} PROVE Opened(u) /\ Lost(u) \subseteq Lost(Disk)
    <2>1. Opened(y) /\ Lost(y) \subseteq Lost(Disk)
      BY <1>11 DEF Going
    <2>2. Opened(u)
      BY <1>3, <1>5, <1>7, <2>1, KeptOpened DEF Alike
    <2> QED
      BY <1>8, <2>1, <2>2
  <1>12. Going(u, f, all, k, m)
    <2>1. \A j \in m + 1..Len(all) : all[j] \notin Used(u)
      BY <1>8 DEF Going
    <2>2. m # 0
      BY <1>1
    <2> QED
      BY <1>1, <1>3, <1>6, <1>8, <1>9, <1>10, <1>11, <2>1, <2>2 DEF Going
  <1>13. Fine(Disk, y, Hurts(f))
    BY GoingFine
  <1>14. Careful(<<w>>, y, Hurts(f)) /\ After(<<w>>, y) = u
    <2>1. w.k \notin {"erase", "entry"} /\ Sound(Apply(w, y))
      BY <1>2, <1>4, <1>8
    <2> QED
      BY <1>2, <1>3, <1>4, <1>13, <2>1, CarefulOne
  <1> QED
    BY <1>12, <1>14 DEF w, c

\* How many clusters the file has after k rounds.
Reach(f, k) == IF k > Len(Chain(f.cluster)) THEN k ELSE Len(Chain(f.cluster))

LEMMA RoundStep ==
  ASSUME NEW f, NEW all, NEW ks, Writing(f, all, ks), NEW k \in 1..Len(all),
         NEW y, Going(y, f, all, k-1, Reach(f, k-1))
  PROVE  /\ Careful(Round(f, all, k, ks), y, Hurts(f))
         /\ Going(After(Round(f, all, k, ks), y), f, all, k, Reach(f, k))
  <1> DEFINE l == Len(Chain(f.cluster))
  <1>1. /\ l \in Nat /\ l <= Len(all) /\ Len(all) \in Nat /\ f.off \in Nat /\ f.size \in Nat /\ f.off <= f.size
        /\ f.size <= l /\ k \in Nat
    <2>1. all \in Seq(Clusters) /\ f \in Copies /\ l \in 0..Len(all) /\ f.off <= f.size /\ f.size <= l
      BY DEF Writing
    <2>2. Len(all) \in Nat /\ f.off \in Nat /\ f.size \in Nat
      BY <2>1 DEF Copies
    <2> HIDE DEF l
    <2> QED
      BY <2>1, <2>2
  <1>2. y \in Disks
    BY GoingFine
  <1>3. CASE k > l
    <2> DEFINE v == Link(f, all, k, ks)
               w == <<Data(all[k])>>
               z == After(v, y)
    <2>1. Reach(f, k-1) = k - 1 /\ Reach(f, k) = k
      BY <1>1, <1>3 DEF Reach
    <2>2. Careful(v, y, Hurts(f)) /\ Going(z, f, all, k-1, k)
      <3>1. CASE k = 1
        <4>1. Going(y, f, all, 0, 0) /\ 1 \in 1..Len(all) /\ 1 > l
          BY <1>1, <1>3, <2>1, <3>1
        <4>2. Careful(Link(f, all, 1, ks), y, Hurts(f)) /\ Going(After(Link(f, all, 1, ks), y), f, all, 0, 1)
          BY <4>1, LinkFirst
        <4> QED
          BY <3>1, <4>2
      <3>2. CASE k # 1
        <4>1. k \in 2..Len(all) /\ Going(y, f, all, k-1, k-1) /\ k > l
          BY <1>1, <1>3, <2>1, <3>2
        <4> QED
          BY <4>1, LinkNext
      <3> QED
        BY <3>1, <3>2
    <2>3. Round(f, all, k, ks) = v \o w
      <3>1. k > f.off
        BY <1>1, <1>3
      <3> QED
        BY <1>3, <3>1 DEF Round
    <2> HIDE DEF v
    <2>4. Careful(w, z, Hurts(f)) /\ Going(After(w, z), f, all, k, k)
      <3>1. k \in k..Len(all)
        BY <1>1
      <3> HIDE DEF z
      <3> QED
        BY <2>2, <3>1, DataStep
    <2> HIDE DEF w
    <2>5. Careful(v \o w, y, Hurts(f)) /\ After(v \o w, y) = After(w, z)
      BY <1>2, <2>2, <2>4, CarefulTwo
    <2> QED
      BY <2>1, <2>3, <2>4, <2>5
  <1>4. CASE ~(k > l)
    <2> DEFINE v == <<>>
               w == IF k > f.off THEN <<Data(all[k])>> ELSE <<>>
    <2>1. Reach(f, k-1) = l /\ Reach(f, k) = l /\ l \in k..Len(all)
      BY <1>1, <1>4 DEF Reach
    <2>2. Round(f, all, k, ks) = v \o w
      BY <1>4 DEF Round
    <2>3. Careful(v, y, Hurts(f)) /\ After(v, y) = y
      BY <1>2, CarefulNone
    <2>4. Careful(w, y, Hurts(f)) /\ Going(After(w, y), f, all, k, l)
      <3>1. CASE k > f.off
        <4>1. w = <<Data(all[k])>>
          BY <3>1
        <4> HIDE DEF w, l
        <4> QED
          BY <2>1, <4>1, DataStep
      <3>2. CASE ~(k > f.off)
        <4>1. Careful(<<>>, y, Hurts(f)) /\ After(<<>>, y) = y /\ w = <<>>
          BY <1>2, <3>2, CarefulNone
        <4>2. \A j \in 1..l : j <= k \/ j <= f.size => j <= k - 1 \/ j <= f.size
          BY <1>1, <3>2
        <4>3. Going(y, f, all, k, l)
          <5> HIDE DEF l
          <5> QED
            BY <2>1, <4>2 DEF Going
        <4> QED
          BY <4>1, <4>3
      <3> QED
        BY <3>1, <3>2
    <2> HIDE DEF v, w
    <2>5. Careful(v \o w, y, Hurts(f)) /\ After(v \o w, y) = After(w, y)
      BY <1>2, <2>3, <2>4, CarefulTwo
    <2> QED
      BY <2>1, <2>2, <2>4, <2>5
  <1> QED
    BY <1>3, <1>4

LEMMA RoundTyped ==
  ASSUME NEW f, NEW all, NEW ks, Writing(f, all, ks), NEW k \in 1..Len(all)
  PROVE  Round(f, all, k, ks) \in Seq(Writes)
  <1> DEFINE v == IF k > Len(Chain(f.cluster)) THEN Link(f, all, k, ks) ELSE <<>>
             w == IF k > f.off THEN <<Data(all[k])>> ELSE <<>>
  <1>1. all \in Seq(Clusters) /\ Len(all) \in Nat /\ f \in Copies /\ ks \in SUBSET Handles /\ f.at \in Places
    BY DEF Writing, Copies
  <1>2. all[k] \in Clusters /\ 1 \in 1..Len(all) /\ all[1] \in Clusters
    BY <1>1
  <1>3. SetFat(all[k], Eof) \in Writes /\ Data(all[k]) \in Writes
    BY <1>2, WriteTypes
  <1>4. Link(f, all, k, ks) \in Seq(Writes)
    <2> DEFINE g == [f EXCEPT !.cluster = all[1]]
               a == SetFat(all[k], Eof)
               b == IF k = 1 THEN Update(f.at, g, ks) ELSE SetFat(all[k-1], all[k])
    <2>1. g \in Copies
      BY <1>1, <1>2 DEF Copies
    <2> HIDE DEF g
    <2>2. Update(f.at, g, ks) \in Writes
      BY <1>1, <2>1, WriteTypes
    <2>3. ASSUME k # 1 PROVE SetFat(all[k-1], all[k]) \in Writes
      <3>1. k - 1 \in 1..Len(all)
        BY <1>1, <2>3
      <3>2. all[k-1] \in Clusters
        BY <1>1, <3>1
      <3> QED
        BY <1>2, <3>2, WriteTypes
    <2>4. a \in Writes /\ b \in Writes
      BY <1>3, <2>2, <2>3
    <2>5. Link(f, all, k, ks) = <<a, b>>
      BY DEF Link, g
    <2> HIDE DEF a, b
    <2> QED
      BY <2>4, <2>5
  <1>5. v \in Seq(Writes) /\ w \in Seq(Writes)
    BY <1>3, <1>4
  <1>6. Round(f, all, k, ks) = v \o w
    BY DEF Round
  <1> HIDE DEF v, w
  <1> QED
    BY <1>5, <1>6, OneAfter

LEMMA Start ==
  ASSUME Sound(Disk), Opened(Disk), NEW f \in Copies, Remembers(Disk, f), NEW ks \in SUBSET Handles,
         NEW all, all = Chain(f.cluster) \o FreeList
  PROVE  Writing(f, all, ks) /\ Going(Disk, f, all, 0, Reach(f, 0))
  <1> DEFINE v == Chain(f.cluster)
             w == FreeList
             c == f.cluster
  <1>1. Disk \in Disks /\ v = Trail(Disk, c) /\ w \in Seq(Clusters) /\ Distinct(w) /\ v \in Seq(Clusters)
    BY DiskIs, DiskFacts, FreeFacts DEF Sound
  <1>2. /\ f.at \in InUse(Disk) /\ Entry(Disk, f.at).kind = "file"
        /\ c # 0 => Entry(Disk, f.at).cluster = c
        /\ f.size <= Len(v) /\ f.off <= f.size
        /\ \A j \in 1..f.size : v[j] \in Disk.written
    BY <1>1 DEF Remembers, Full
  <1>3. c \in Clusters \cup {0} /\ f.size \in Nat /\ f.off \in Nat
    BY DEF Copies
  <1>4. Distinct(v) /\ Range(v) \subseteq Used(Disk)
    <2>1. CASE c = 0
      <3>1. v = <<>>
        BY <1>1, <2>1, DiskFacts
      <3>2. Range(<<>>) = {} /\ Distinct(<<>>)
        BY DEF Range, Distinct
      <3> QED
        BY <3>1, <3>2
    <2>2. CASE c # 0
      <3>1. c \in Heads(Disk)
        BY <1>2, <2>2, HeadFacts
      <3>2. Path(Disk.fat, v) /\ On(Disk, c) \subseteq Used(Disk)
        BY <1>1, <3>1, HeadFacts DEF Sound, Ending
      <3> QED
        BY <1>1, <3>2 DEF Path, On
    <2> QED
      BY <2>1, <2>2
  <1>5. Range(w) \cap Used(Disk) = {}
    BY FreeUnused
  <1>6. all = v \o w
    OBVIOUS
  <1> HIDE DEF v, w
  <1>7. /\ all \in Seq(Clusters) /\ Len(all) = Len(v) + Len(w) /\ Len(v) \in Nat /\ Len(w) \in Nat
        /\ \A k \in 1..Len(v) : all[k] = v[k]
        /\ \A k \in 1..Len(w) : all[Len(v) + k] = w[k]
    BY <1>1, <1>6, OneAfter
  <1>8. \A k \in 1..Len(v) : v[k] \in Range(v)
    BY <1>1 DEF Range
  <1>9. \A k \in 1..Len(w) : w[k] \in Range(w)
    BY <1>1 DEF Range
  <1>10. ASSUME NEW k \in Len(v) + 1..Len(all) PROVE k - Len(v) \in 1..Len(w) /\ all[k] = w[k - Len(v)]
    <2>1. k - Len(v) \in 1..Len(w) /\ Len(v) + (k - Len(v)) = k
      BY <1>7
    <2>2. all[Len(v) + (k - Len(v))] = w[k - Len(v)]
      BY <1>7, <2>1
    <2> QED
      BY <2>1, <2>2
  <1>11. Distinct(all)
    <2> SUFFICES ASSUME NEW j \in 1..Len(all), NEW k \in 1..Len(all), all[j] = all[k] PROVE j = k
      BY DEF Distinct
    <2>1. j \in 1..Len(v) \/ j \in Len(v) + 1..Len(all)
      BY <1>7
    <2>2. k \in 1..Len(v) \/ k \in Len(v) + 1..Len(all)
      BY <1>7
    <2>3. CASE j \in 1..Len(v) /\ k \in 1..Len(v)
      <3>1. v[j] = v[k]
        BY <1>7, <2>3
      <3> QED
        BY <1>4, <2>3, <3>1 DEF Distinct
    <2>4. CASE j \in Len(v) + 1..Len(all) /\ k \in Len(v) + 1..Len(all)
      <3>1. w[j - Len(v)] = w[k - Len(v)] /\ j - Len(v) \in 1..Len(w) /\ k - Len(v) \in 1..Len(w)
        BY <1>10, <2>4
      <3>2. j - Len(v) = k - Len(v)
        BY <1>1, <3>1 DEF Distinct
      <3> QED
        BY <1>7, <3>2
    <2>5. CASE j \in 1..Len(v) /\ k \in Len(v) + 1..Len(all)
      <3>1. all[j] \in Range(v) /\ all[k] \in Range(w)
        BY <1>7, <1>8, <1>9, <1>10, <2>5
      <3> QED
        BY <1>4, <1>5, <3>1
    <2>6. CASE k \in 1..Len(v) /\ j \in Len(v) + 1..Len(all)
      <3>1. all[k] \in Range(v) /\ all[j] \in Range(w)
        BY <1>7, <1>8, <1>9, <1>10, <2>6
      <3> QED
        BY <1>4, <1>5, <3>1
    <2> QED
      BY <2>1, <2>2, <2>3, <2>4, <2>5, <2>6
  <1>12. Writing(f, all, ks)
    <2>1. Len(v) \in 0..Len(all)
      BY <1>7
    <2> QED
      BY <1>2, <1>7, <1>11, <2>1 DEF Writing, v
  <1>13. Reach(f, 0) = Len(v)
    BY <1>7 DEF Reach, v
  <1>14. ASSUME Len(v) > 0
         PROVE  /\ Entry(Disk, f.at).cluster = all[1]
                /\ Len(Trail(Disk, all[1])) = Len(v) /\ \A j \in 1..Len(v) : Trail(Disk, all[1])[j] = all[j]
    <2>1. c # 0
      <3> SUFFICES ASSUME c = 0 PROVE FALSE
        OBVIOUS
      <3>1. v = <<>>
        BY <1>1, DiskFacts
      <3> QED
        BY <1>14, <3>1
    <2>2. v[1] = c /\ 1 \in 1..Len(v)
      <3>1. c \in Clusters
        BY <1>3, <2>1
      <3>2. v[1] = c
        BY <1>1, <3>1, DiskFacts
      <3>3. 1 \in 1..Len(v)
        BY <1>7, <1>14
      <3> QED
        BY <3>2, <3>3
    <2>3. all[1] = c
      BY <1>7, <2>2
    <2> QED
      BY <1>1, <1>2, <1>7, <2>1, <2>3
  <1>15. ASSUME Len(v) = 0, Hurts(f) = {} PROVE Entry(Disk, f.at).cluster = 0
    <2>1. c = 0
      <3> SUFFICES ASSUME c \in Clusters PROVE FALSE
        BY <1>3
      <3>1. v # <<>>
        BY <1>1, DiskFacts
      <3> QED
        BY <1>1, <1>15, <3>1
    <2> QED
      BY <1>15, <2>1, DiskIs DEF Hurts
  <1>16. \A j \in Len(v) + 1..Len(all) : all[j] \notin Used(Disk)
    BY <1>5, <1>9, <1>10
  <1>17. ASSUME NEW j \in 1..Len(v), j <= 0 \/ j <= f.size PROVE all[j] \in Disk.written
    <2>1. j \in 1..f.size
      BY <1>3, <1>7, <1>17
    <2> QED
      BY <1>2, <1>7, <2>1
  <1>18. Going(Disk, f, all, 0, Len(v))
    BY <1>2, <1>14, <1>15, <1>16, <1>17 DEF Going
  <1> QED
    BY <1>12, <1>13, <1>18

\* The rounds up to the cluster number end.
Rounds(f, all, end, ks) == FlattenSeq([k \in 1..end |-> Round(f, all, k, ks)])

LEMMA RoundsStep ==
  ASSUME Disk \in Disks, NEW f, NEW all, NEW ks, Writing(f, all, ks), Going(Disk, f, all, 0, Reach(f, 0)),
         NEW end \in 0..Len(all)
  PROVE  /\ Careful(Rounds(f, all, end, ks), Disk, Hurts(f))
         /\ Going(After(Rounds(f, all, end, ks), Disk), f, all, end, Reach(f, end))
  <1> DEFINE ss == [k \in 1..end |-> Round(f, all, k, ks)]
  <1>1. all \in Seq(Clusters) /\ Len(all) \in Nat
    BY DEF Writing
  <1>2. end \in Nat /\ 1..end \subseteq 1..Len(all)
    BY <1>1
  <1>3. ss \in Seq(Seq(Writes)) /\ Len(ss) = end /\ \A k \in 1..end : ss[k] = Round(f, all, k, ks)
    <2>1. \A k \in 1..end : Round(f, all, k, ks) \in Seq(Writes)
      BY <1>2, RoundTyped
    <2>2. ss \in [1..end -> Seq(Writes)]
      BY <2>1
    <2> QED
      BY <1>2, <2>2
  <1>4. Rounds(f, all, end, ks) = FlattenSeq(ss)
    BY DEF Rounds
  <1> HIDE DEF ss
  <1>5. PICK g : Flattens(g, ss, Writes)
    BY <1>3, Flattened
  <1>6. /\ g[0] = <<>> /\ FlattenSeq(ss) = g[end]
        /\ \A k \in 1..end : g[k] = g[k-1] \o Round(f, all, k, ks)
    BY <1>3, <1>5 DEF Flattens
  <1> DEFINE P == {k \in 0..end : /\ Careful(g[k], Disk, Hurts(f))
                                  /\ Going(After(g[k], Disk), f, all, k, Reach(f, k))}
  <1>7. 0 \in P
    <2>1. Careful(<<>>, Disk, Hurts(f)) /\ After(<<>>, Disk) = Disk
      BY CarefulNone
    <2> QED
      BY <1>2, <1>6, <2>1
  <1>8. ASSUME NEW k \in 1..end, k - 1 \in P PROVE k \in P
    <2> DEFINE v == g[k-1]
               w == Round(f, all, k, ks)
               y == After(v, Disk)
    <2>1. Careful(v, Disk, Hurts(f)) /\ Going(y, f, all, k-1, Reach(f, k-1)) /\ g[k] = v \o w
      BY <1>6, <1>8
    <2>2. k \in 1..Len(all) /\ k \in 0..end
      BY <1>2, <1>8
    <2> HIDE DEF v
    <2>3. Careful(w, y, Hurts(f)) /\ Going(After(w, y), f, all, k, Reach(f, k))
      <3> HIDE DEF y
      <3> QED
        BY <2>1, <2>2, RoundStep
    <2> HIDE DEF w
    <2>4. Careful(v \o w, Disk, Hurts(f)) /\ After(v \o w, Disk) = After(w, y)
      BY <2>1, <2>3, CarefulTwo
    <2> QED
      BY <2>1, <2>2, <2>3, <2>4
  <1> HIDE DEF P
  <1>9. \A k \in 0..end : k \in P
    BY <1>2, <1>7, <1>8, Induct
  <1>10. end \in P
    BY <1>2, <1>9
  <1> QED
    BY <1>4, <1>6, <1>10 DEF P

LEMMA FinalStep ==
  ASSUME NEW f, NEW all, NEW ks, Writing(f, all, ks), NEW end \in 1..Len(all), end <= MaxSize,
         NEW y, Going(y, f, all, end, Reach(f, end))
  PROVE  LET v == <<Update(f.at, Grown(f, all, end), ks)>>
         IN Careful(v, y, Hurts(f)) /\ Fine(Disk, After(v, y), Hurts(f))
  <1> DEFINE p == f.at
             g == Grown(f, all, end)
             w == Update(p, g, ks)
             u == Apply(w, y)
             m == Reach(f, end)
             h == all[1]
             v == <<w>>
  <1>1. /\ all \in Seq(Clusters) /\ Len(all) \in Nat /\ f \in Copies /\ ks \in SUBSET Handles
        /\ f.size \in Nat /\ f.size <= MaxSize /\ p \in Places /\ f.off \in Nat /\ f.off <= f.size
        /\ Len(Chain(f.cluster)) \in 0..Len(all) /\ f.size <= Len(Chain(f.cluster))
        /\ end \in Nat
    <2>1. all \in Seq(Clusters) /\ f \in Copies
      BY DEF Writing
    <2> QED
      BY <2>1 DEF Writing, Copies
  <1>2. m \in Nat /\ end <= m /\ f.size <= m /\ m > 0 /\ m # 0
    BY <1>1 DEF Reach
  <1>3. h \in Clusters /\ h # 0 /\ 1 \in 1..m
    <2>1. h \in Clusters
      BY <1>1
    <2> QED
      BY <1>2, <2>1, ClusterFacts
  <1>4. /\ g \in Copies /\ g.at = p /\ g.cluster = h /\ g.off = end
        /\ g.size = IF end > f.size THEN end ELSE f.size
    <2> DEFINE size == IF end > f.size THEN end ELSE f.size
    <2>1. end \in 0..MaxSize /\ size \in 0..MaxSize
      BY <1>1, FatAssumption
    <2>2. g = [f EXCEPT !.cluster = h, !.size = size, !.off = end]
      BY DEF Grown
    <2> HIDE DEF size, g, h
    <2>3. /\ g \in Copies /\ g.at = f.at /\ g.cluster = h /\ g.off = end /\ g.size = size
      BY <1>1, <1>3, <2>1, <2>2 DEF Copies
    <2> QED
      BY <2>3 DEF size
  <1>5. g.size \in Nat /\ g.off <= g.size /\ g.size <= m /\ \A j \in 1..g.size : j <= end \/ j <= f.size
    BY <1>1, <1>2, <1>4
  <1> HIDE DEF g, h, p, m
  <1>6. w \in Writes /\ w.k = "update" /\ w.k \notin {"erase", "entry"} /\ ~(w.k = "data")
    <2>1. w \in Writes /\ w.k = "update"
      BY <1>1, <1>4, WriteTypes
    <2> HIDE DEF w
    <2> QED
      BY <2>1
  <1>7. /\ Sound(y) /\ y \in Disks /\ p \in InUse(y) /\ Entry(y, p).kind = "file"
        /\ Entry(y, p).cluster = h
        /\ Len(Trail(y, h)) = m /\ \A j \in 1..m : Trail(y, h)[j] = all[j]
        /\ \A j \in 1..m : j <= end \/ j <= f.size => all[j] \in y.written
    BY <1>2 DEF Going, Sound, p, h, m
  <1>8. u = Apply(Update(p, g, ks), y)
    OBVIOUS
  <1> HIDE DEF w, u
  <1>9. /\ u \in Disks /\ u.fat = y.fat /\ u.written = y.written
        /\ \A q \in Places : Entry(u, q) = IF q = p THEN Updated(Entry(y, p), g) ELSE Entry(y, q)
        /\ \A k \in Handles : u.open[k] = IF k \in ks THEN g ELSE y.open[k]
    BY <1>1, <1>4, <1>7, <1>8, ApplyUpdate
  <1> DEFINE e == Updated(Entry(y, p), g)
  <1>10. e \in Entries /\ e.kind = "file" /\ e.cluster = h /\ e.size = g.size
    <2>1. Entry(y, p) \in Entries
      BY <1>7, DiskFacts
    <2> QED
      BY <1>4, <1>7, <2>1, UpdatedFacts
  <1>11. Entry(u, p) = e /\ \A q \in Places : q # p => Entry(u, q) = Entry(y, q)
    BY <1>1, <1>9
  <1> HIDE DEF e
  <1>12. InUse(u) = InUse(y)
    <2>1. \A q \in Places : Entry(u, q).kind = Entry(y, q).kind
      BY <1>7, <1>10, <1>11
    <2> QED
      BY <2>1 DEF InUse
  <1>13. \A j \in 1..g.size : Trail(y, h)[j] \in y.written
    BY <1>2, <1>5, <1>7
  <1>14. Full([y EXCEPT !.written = u.written], h, g.size)
    <2> DEFINE x == [y EXCEPT !.written = u.written]
    <2>1. x.fat = y.fat /\ x.written = y.written
      BY <1>7, <1>9 DEF Disks
    <2> HIDE DEF x
    <2>2. Trail(x, h) = Trail(y, h)
      BY <2>1 DEF Trail
    <2>3. Full(x, h, g.size)
      BY <1>5, <1>7, <1>13, <2>1, <2>2 DEF Full
    <2> QED
      BY <2>3 DEF x
  <1>15. /\ Sound(u) /\ Used(u) = Used(y) /\ \A q : Keeps(y, u, q)
    <2>1. \A q \in InUse(y) : /\ Entry(u, q).kind = Entry(y, q).kind
                              /\ Entry(u, q).cluster = Entry(y, q).cluster
      BY <1>7, <1>10, <1>11, DiskFacts
    <2>2. \A q \in InUse(y) : \/ Entry(u, q).size = Entry(y, q).size
                              \/ Full([y EXCEPT !.written = u.written], Entry(y, q).cluster, Entry(u, q).size)
      BY <1>7, <1>10, <1>11, <1>14, DiskFacts
    <2>3. \A d \in Used(y) : u.fat[d] = y.fat[d]
      BY <1>9
    <2>4. y.written \cap Used(y) \subseteq u.written
      BY <1>9
    <2> QED
      BY <1>7, <1>9, <1>12, <2>1, <2>2, <2>3, <2>4, Unmoved
  <1>16. Remembers(u, g)
    <2>1. Trail(u, h) = Trail(y, h)
      BY <1>9 DEF Trail
    <2>2. Full(u, h, g.size)
      BY <1>5, <1>7, <1>9, <1>13, <2>1 DEF Full
    <2> QED
      BY <1>4, <1>5, <1>7, <1>10, <1>11, <1>12, <2>2 DEF Remembers
  <1>17. ASSUME Hurts(f) = {} PROVE Opened(u) /\ Lost(u) \subseteq Lost(Disk)
    <2>1. Opened(y) /\ Lost(y) \subseteq Lost(Disk)
      BY <1>17 DEF Going
    <2>2. \A k \in Handles : u.open[k] = y.open[k] \/ Remembers(u, u.open[k])
      BY <1>9, <1>16
    <2>3. Opened(u)
      BY <1>7, <1>9, <1>15, <2>1, <2>2, KeptOpened
    <2>4. Lost(u) = Lost(y)
      BY <1>9, <1>15 DEF Lost
    <2> QED
      BY <2>1, <2>3, <2>4
  <1>18. Fine(Disk, u, Hurts(f))
    BY <1>15, <1>17 DEF Fine
  <1>19. Careful(<<w>>, y, Hurts(f)) /\ After(<<w>>, y) = u
    <2>1. Sound(Apply(w, y)) /\ u = Apply(w, y)
      BY <1>15 DEF u
    <2> QED
      BY <1>6, <1>7, <2>1, CarefulOne
  <1>20. Careful(v, y, Hurts(f)) /\ Fine(Disk, After(v, y), Hurts(f))
    BY <1>18, <1>19
  <1> QED
    BY <1>20 DEF w, p, g

\* The clusters that the file at q has or may get.
Zone(x, q) == On(x, Entry(x, q).cluster) \cup {c \in Clusters : x.fat[c] = Free}

\* y differs from x only in the clusters Z, in the entry at q and in what has data.
Inside(x, y, q, Z) ==
  /\ y \in Disks /\ x.written \subseteq y.written
  /\ \A c \in Clusters \ Z : y.fat[c] = x.fat[c]
  /\ \A c \in Z : y.fat[c] \in Z \cup {Free, Eof}
  /\ InUse(y) = InUse(x) /\ \A p \in InUse(x) : p = q \/ Entry(y, p) = Entry(x, p)
  /\ Entry(y, q) \in Entries /\ Entry(y, q).kind = "file" /\ Entry(y, q).cluster \in Z \cup {0}

LEMMA InsidePartly ==
  ASSUME NEW x, Sound(x), NEW q \in InUse(x), NEW Z, Z = Zone(x, q), NEW y, Inside(x, y, q, Z)
  PROVE  Partly(y, {q}, {})
  <1>1. x \in Disks /\ y \in Disks /\ Partly(x, {}, {})
    BY SoundPartly DEF Sound, Inside
  <1>2. Z \subseteq Clusters
    BY <1>1, DiskFacts DEF Zone
  <1>3. On(y, Entry(y, q).cluster) \subseteq Z
    <2> DEFINE c == Entry(y, q).cluster
               g == y.fat
    <2>1. g \in Tables /\ (c \in Z \/ c \notin Clusters)
      BY <1>1, ClusterFacts, DiskFacts DEF Inside
    <2>2. \A d \in Z \cap Clusters : g[d] \in Z \/ g[d] \notin Clusters
      BY ClusterFacts DEF Inside
    <2>3. On(y, c) = Range(Follow(g, c))
      BY DEF On, Trail
    <2> HIDE DEF c, g
    <2>4. Range(Follow(g, c)) \subseteq Z
      BY <2>1, <2>2, FollowInside
    <2> QED
      BY <2>3, <2>4 DEF c
  <1>4. ASSUME NEW c \in Heads(x), On(x, c) \cap On(x, Entry(x, q).cluster) = {}
        PROVE  /\ Trail(y, c) = Trail(x, c) /\ On(y, c) = On(x, c) /\ Path(y.fat, Trail(y, c))
               /\ On(y, c) \cap Z = {}
    <2>1. \A d \in On(x, c) : d \in Used(x) /\ x.fat[d] # Free /\ d \in Clusters
      BY <1>4, HeadFacts
    <2>2. On(x, c) \cap Z = {}
      BY <1>4, <2>1 DEF Zone
    <2>3. \A d \in On(x, c) : y.fat[d] = x.fat[d]
      BY <2>1, <2>2 DEF Inside
    <2> QED
      BY <1>1, <1>4, <2>2, <2>3, SameTrail
  <1>5. Root \in Heads(x) /\ On(x, Root) \cap On(x, Entry(x, q).cluster) = {}
    BY <1>1, HeadFacts DEF Partly
  <1>6. ASSUME NEW p \in InUse(x), p # q, Entry(x, p).cluster # 0
        PROVE  Entry(x, p).cluster \in Heads(x) /\ On(x, Entry(x, p).cluster) \cap On(x, Entry(x, q).cluster) = {}
    BY <1>1, <1>6, HeadFacts DEF Partly
  <1>7. ASSUME NEW p \in InUse(x), p # q
        PROVE  /\ Entry(y, p) = Entry(x, p)
               /\ Trail(y, Entry(x, p).cluster) = Trail(x, Entry(x, p).cluster)
               /\ On(y, Entry(x, p).cluster) = On(x, Entry(x, p).cluster)
               /\ Entry(x, p).cluster # 0 => Path(y.fat, Trail(y, Entry(x, p).cluster))
               /\ On(y, Entry(x, p).cluster) \cap Z = {}
    <2>1. Entry(y, p) = Entry(x, p)
      BY <1>7 DEF Inside
    <2>2. CASE Entry(x, p).cluster = 0
      BY <1>1, <2>1, <2>2, DiskFacts
    <2>3. CASE Entry(x, p).cluster # 0
      BY <1>4, <1>6, <1>7, <2>1, <2>3
    <2> QED
      BY <2>2, <2>3
  <1>8. /\ Path(y.fat, Trail(y, Root)) /\ On(y, Root) = On(x, Root) /\ On(y, Root) \cap Z = {}
    BY <1>4, <1>5
  <1>9. InUse(y) = InUse(x)
    BY DEF Inside
  <1>10. \A p \in InUse(y) : On(y, Entry(y, p).cluster) \cap On(y, Root) = {}
    BY <1>1, <1>3, <1>7, <1>8, <1>9 DEF Partly
  <1>11. ASSUME NEW p \in InUse(y), NEW r \in InUse(y), p # r
         PROVE  On(y, Entry(y, p).cluster) \cap On(y, Entry(y, r).cluster) = {}
    <2>1. CASE p = q
      BY <1>3, <1>7, <1>9, <1>11, <2>1
    <2>2. CASE r = q
      BY <1>3, <1>7, <1>9, <1>11, <2>2
    <2>3. CASE p # q /\ r # q
      BY <1>1, <1>7, <1>9, <1>11, <2>3 DEF Partly
    <2> QED
      BY <2>1, <2>2, <2>3
  <1>12. ASSUME NEW p \in InUse(y) \ {q}, Entry(y, p).kind = "file"
         PROVE  Full(y, Entry(y, p).cluster, Entry(y, p).size)
    <2>1. Full(x, Entry(x, p).cluster, Entry(x, p).size)
      BY <1>1, <1>7, <1>9, <1>12 DEF Partly
    <2> QED
      BY <1>7, <1>9, <1>12, <2>1 DEF Full, Inside
  <1>13. \A p \in InUse(y) \ {q} : Entry(y, p).cluster # 0 => Path(y.fat, Trail(y, Entry(y, p).cluster))
    BY <1>7, <1>9
  <1> QED
    BY <1>1, <1>8, <1>10, <1>11, <1>12, <1>13 DEF Partly

\* A write to the clusters Z, or to the entry at q.
Local(w, q, Z) ==
  \/ w = Nothing
  \/ \E c \in Z, v \in Z \cup {Eof} : w = SetFat(c, v)
  \/ \E c \in Z : w = Data(c)
  \/ \E g \in Copies, ks \in SUBSET Handles : g.cluster \in Z /\ w = Update(q, g, ks)

LEMMA InsideApply ==
  ASSUME NEW x \in Disks, NEW q \in InUse(x), NEW Z \in SUBSET Clusters, NEW y, Inside(x, y, q, Z),
         NEW w, Local(w, q, Z)
  PROVE  Inside(x, Apply(w, y), q, Z)
  <1> DEFINE u == Apply(w, y)
  <1>1. u = Apply(w, y) /\ y \in Disks /\ q \in Places
    BY DiskFacts DEF Inside
  <1> HIDE DEF u
  <1>2. CASE w = Nothing
    BY <1>1, <1>2, ApplyNothing
  <1>3. ASSUME NEW c \in Z, NEW v \in Z \cup {Eof}, w = SetFat(c, v) PROVE Inside(x, u, q, Z)
    <2>1. /\ u \in Disks /\ u.fat = [y.fat EXCEPT ![c] = v]
          /\ u.slot = y.slot /\ u.written = y.written
      <3>1. c \in Clusters /\ v \in Clusters \cup {Eof}
        OBVIOUS
      <3> QED
        BY <1>1, <1>3, <3>1, ApplyFat
    <2>2. InUse(u) = InUse(y) /\ \A p : Entry(u, p) = Entry(y, p)
      BY <2>1 DEF InUse, Entry
    <2>3. \A b \in Clusters : u.fat[b] = IF b = c THEN v ELSE y.fat[b]
      BY <1>1, <2>1 DEF Disks
    <2> QED
      BY <2>1, <2>2, <2>3 DEF Inside
  <1>4. ASSUME NEW c \in Z, w = Data(c) PROVE Inside(x, u, q, Z)
    <2>1. u \in Disks /\ u.fat = y.fat /\ u.slot = y.slot /\ u.written = y.written \cup {c}
      BY <1>1, <1>4, ApplyData
    <2>2. InUse(u) = InUse(y) /\ \A p : Entry(u, p) = Entry(y, p)
      BY <2>1 DEF InUse, Entry
    <2> QED
      BY <2>1, <2>2 DEF Inside
  <1>5. ASSUME NEW g \in Copies, NEW ks \in SUBSET Handles, g.cluster \in Z, w = Update(q, g, ks)
        PROVE  Inside(x, u, q, Z)
    <2> DEFINE e == Updated(Entry(y, q), g)
    <2>1. /\ u \in Disks /\ u.fat = y.fat /\ u.written = y.written
          /\ \A p \in Places : Entry(u, p) = IF p = q THEN e ELSE Entry(y, p)
      BY <1>1, <1>5, ApplyUpdate
    <2>2. e \in Entries /\ e.kind = "file" /\ e.cluster = g.cluster
      BY UpdatedFacts DEF Inside
    <2> HIDE DEF e
    <2>3. q \in InUse(y) /\ InUse(y) = InUse(x) /\ InUse(x) \subseteq Places
      BY DiskFacts DEF Inside
    <2>4. Entry(u, q) = e
      BY <1>1, <2>1
    <2>5. InUse(u) = InUse(y)
      BY <2>1, <2>2, <2>3 DEF InUse
    <2>6. \A p \in InUse(x) : p = q \/ Entry(u, p) = Entry(x, p)
      BY <2>1, <2>3 DEF Inside
    <2> QED
      BY <1>5, <2>1, <2>2, <2>3, <2>4, <2>5, <2>6 DEF Inside
  <1> QED
    BY <1>1, <1>2, <1>3, <1>4, <1>5 DEF Local

LEMMA LocalSlips ==
  ASSUME NEW x, Sound(x), NEW q \in InUse(x), Entry(x, q).kind = "file", NEW Z, Z = Zone(x, q),
         NEW plan \in Seq(Writes), \A i \in 1..Len(plan) : Local(plan[i], q, Z)
  PROVE  Slips("write", {q}, plan, x)
  <1>1. x \in Disks /\ Z \in SUBSET Clusters /\ Len(plan) \in Nat
    BY DiskFacts DEF Sound, Zone
  <1>2. Inside(x, x, q, Z)
    <2>1. Entry(x, q) \in Entries
      BY <1>1, DiskFacts
    <2>2. Entry(x, q).cluster \in Z \cup {0}
      <3>1. Entry(x, q).cluster \in Clusters \cup {0}
        BY <2>1 DEF Entries
      <3> QED
        BY <1>1, <3>1, DiskFacts DEF Zone
    <2>3. \A c \in Z : x.fat[c] \in Z \cup {Free, Eof}
      <3> SUFFICES ASSUME NEW c \in Z, x.fat[c] # Free PROVE x.fat[c] \in Z \cup {Eof}
        OBVIOUS
      <3>1. c \in On(x, Entry(x, q).cluster)
        BY DEF Zone
      <3>2. Entry(x, q).cluster # 0
        BY <1>1, <3>1, DiskFacts
      <3> QED
        BY <3>1, <3>2, HeadFacts DEF Zone
    <2> QED
      BY <1>1, <2>1, <2>2, <2>3 DEF Inside
  <1>3. ASSUME NEW u \in Seq(Writes), Len(u) = Len(plan), \A i \in 1..Len(plan) : Local(u[i], q, Z),
               NEW j \in 0..Len(plan)
        PROVE  Partly(States(u, x)[j], {q}, {})
    <2> DEFINE n == Len(plan)
               r == States(u, x)
               P == {k \in 0..n : Inside(x, r[k], q, Z)}
    <2>1. Runs(r, u, x)
      BY <1>1, <1>3, StatesRun
    <2> HIDE DEF r
    <2>2. 0 \in P
      BY <1>1, <1>2, <2>1 DEF Runs
    <2>3. ASSUME NEW k \in 1..n, k - 1 \in P PROVE k \in P
      <3>1. k \in 0..n /\ Inside(x, r[k-1], q, Z) /\ r[k] = Apply(u[k], r[k-1]) /\ Local(u[k], q, Z)
        BY <1>3, <2>1, <2>3 DEF Runs
      <3>2. Inside(x, r[k], q, Z)
        BY <1>1, <3>1, InsideApply
      <3> QED
        BY <3>1, <3>2
    <2>4. \A k \in 0..n : k \in P
      <3> HIDE DEF P, n
      <3>1. n \in Nat
        BY <1>1 DEF n
      <3> QED
        BY <2>2, <2>3, <3>1, Induct
    <2>5. Inside(x, r[j], q, Z)
      BY <1>3, <2>4
    <2> HIDE DEF P
    <2> QED
      BY <2>5, InsidePartly DEF r
  <1>4. ASSUME NEW k \in 1..Len(plan), NEW j \in k..Len(plan), Slip(plan, k, j)
        PROVE  Hurt("write", {q}, States(Without(plan, k), x)[j])
    <2> DEFINE u == Without(plan, k)
    <2>1. plan[k].k # "blank"
      <3>1. CASE plan[k] = Nothing
        BY <3>1 DEF Nothing
      <3>2. ASSUME NEW c \in Z, NEW v \in Z \cup {Eof}, plan[k] = SetFat(c, v) PROVE plan[k].k = "fat"
        BY <3>2 DEF SetFat
      <3>3. ASSUME NEW c \in Z, plan[k] = Data(c) PROVE plan[k].k = "data"
        BY <3>3 DEF Data
      <3>4. ASSUME NEW g \in Copies, NEW ks \in SUBSET Handles, plan[k] = Update(q, g, ks)
            PROVE  plan[k].k = "update"
        BY <3>4 DEF Update
      <3>5. Local(plan[k], q, Z)
        BY <1>4
      <3> QED
        BY <3>1, <3>2, <3>3, <3>4, <3>5 DEF Local
    <2>2. plan[k] \in Writes /\ plan[k].k \in {"fat", "update"}
      BY <1>4, <2>1 DEF Slip
    <2>3. /\ u \in Seq(Writes) /\ Len(u) = Len(plan) /\ u[k] = Nothing
          /\ \A i \in 1..Len(plan) : i # k => u[i] = plan[i]
      BY <2>2, MissedIs, WithoutFacts
    <2> HIDE DEF u
    <2>4. \A i \in 1..Len(plan) : Local(u[i], q, Z)
      BY <2>3 DEF Local
    <2>5. j \in 0..Len(plan)
      BY <1>1
    <2>6. Partly(States(u, x)[j], {q}, {})
      BY <1>3, <2>3, <2>4, <2>5
    <2> QED
      BY <2>6, HurtIs DEF u
  <1> QED
    BY <1>4 DEF Slips

\* All the writes of v are to the clusters Z or to the entry at q.
AllLocal(v, q, Z) == v \in Seq(Writes) /\ \A w \in Range(v) : Local(w, q, Z)

LEMMA LocalTwo ==
  ASSUME NEW q, NEW Z, NEW v, AllLocal(v, q, Z), NEW w, AllLocal(w, q, Z)
  PROVE  AllLocal(v \o w, q, Z)
  BY OneAfter DEF AllLocal

LEMMA LocalNone ==
  ASSUME NEW q, NEW Z
  PROVE  AllLocal(<<>>, q, Z)
  <1>1. Range(<<>>) = {}
    BY DEF Range
  <1> QED
    BY <1>1 DEF AllLocal

LEMMA LocalOne ==
  ASSUME NEW q, NEW Z, NEW w \in Writes, Local(w, q, Z)
  PROVE  AllLocal(<<w>>, q, Z)
  <1>1. Range(<<w>>) = {w}
    BY DEF Range
  <1> QED
    BY <1>1 DEF AllLocal

LEMMA FatLocal ==
  ASSUME NEW q, NEW Z, Z \subseteq Clusters, NEW c \in Z, NEW v \in Z \cup {Eof}
  PROVE  AllLocal(<<SetFat(c, v)>>, q, Z)
  <1>1. SetFat(c, v) \in Writes
    BY WriteTypes
  <1>2. Local(SetFat(c, v), q, Z)
    BY DEF Local
  <1> QED
    BY <1>1, <1>2, LocalOne

LEMMA DataLocal ==
  ASSUME NEW q, NEW Z, Z \subseteq Clusters, NEW c \in Z
  PROVE  AllLocal(<<Data(c)>>, q, Z)
  <1>1. Data(c) \in Writes
    BY WriteTypes
  <1>2. Local(Data(c), q, Z)
    BY DEF Local
  <1> QED
    BY <1>1, <1>2, LocalOne

LEMMA UpdateLocal ==
  ASSUME NEW q \in Places, NEW Z, NEW g \in Copies, g.cluster \in Z, NEW ks \in SUBSET Handles
  PROVE  AllLocal(<<Update(q, g, ks)>>, q, Z)
  <1>1. Update(q, g, ks) \in Writes
    BY WriteTypes
  <1>2. Local(Update(q, g, ks), q, Z)
    BY DEF Local
  <1> QED
    BY <1>1, <1>2, LocalOne

LEMMA RoundLocal ==
  ASSUME NEW f, NEW all, NEW ks, Writing(f, all, ks), NEW k \in 1..Len(all),
         NEW Z, Z \subseteq Clusters, \A j \in 1..Len(all) : all[j] \in Z
  PROVE  AllLocal(Round(f, all, k, ks), f.at, Z)
  <1> DEFINE v == IF k > Len(Chain(f.cluster)) THEN Link(f, all, k, ks) ELSE <<>>
             w == IF k > f.off THEN <<Data(all[k])>> ELSE <<>>
  <1>1. all \in Seq(Clusters) /\ Len(all) \in Nat /\ f \in Copies /\ ks \in SUBSET Handles /\ f.at \in Places
    BY DEF Writing, Copies
  <1>2. all[k] \in Z /\ 1 \in 1..Len(all) /\ all[1] \in Z /\ all[1] \in Clusters
    BY <1>1
  <1>3. AllLocal(Link(f, all, k, ks), f.at, Z)
    <2> DEFINE g == [f EXCEPT !.cluster = all[1]]
               a == SetFat(all[k], Eof)
               b == IF k = 1 THEN Update(f.at, g, ks) ELSE SetFat(all[k-1], all[k])
    <2>1. g \in Copies /\ g.cluster = all[1]
      BY <1>1, <1>2 DEF Copies
    <2>2. Link(f, all, k, ks) = <<a>> \o <<b>>
      BY DEF Link
    <2>3. AllLocal(<<a>>, f.at, Z)
      BY <1>2, FatLocal
    <2>4. CASE k = 1
      <3> HIDE DEF g
      <3>1. AllLocal(<<Update(f.at, g, ks)>>, f.at, Z)
        BY <1>1, <1>2, <2>1, UpdateLocal
      <3>2. b = Update(f.at, g, ks)
        BY <2>4
      <3> HIDE DEF a, b
      <3> QED
        BY <2>2, <2>3, <3>1, <3>2, LocalTwo
    <2>5. CASE k # 1
      <3>1. k - 1 \in 1..Len(all)
        BY <1>1, <2>5
      <3>2. all[k-1] \in Z
        BY <3>1
      <3>3. AllLocal(<<SetFat(all[k-1], all[k])>>, f.at, Z)
        BY <1>2, <3>2, FatLocal
      <3>4. b = SetFat(all[k-1], all[k])
        BY <2>5
      <3> HIDE DEF a, b
      <3> QED
        BY <2>2, <2>3, <3>3, <3>4, LocalTwo
    <2> QED
      BY <2>4, <2>5
  <1>4. AllLocal(<<Data(all[k])>>, f.at, Z)
    BY <1>2, DataLocal
  <1>5. AllLocal(v, f.at, Z) /\ AllLocal(w, f.at, Z)
    BY <1>3, <1>4, LocalNone
  <1>6. Round(f, all, k, ks) = v \o w
    BY DEF Round
  <1> HIDE DEF v, w
  <1> QED
    BY <1>5, <1>6, LocalTwo

LEMMA RoundsLocal ==
  ASSUME NEW f, NEW all, NEW ks, Writing(f, all, ks), NEW end \in 0..Len(all),
         NEW Z, Z \subseteq Clusters, \A j \in 1..Len(all) : all[j] \in Z
  PROVE  AllLocal(Rounds(f, all, end, ks), f.at, Z)
  <1> DEFINE ss == [k \in 1..end |-> Round(f, all, k, ks)]
  <1>1. end \in Nat /\ 1..end \subseteq 1..Len(all)
    <2>1. Len(all) \in Nat
      BY DEF Writing
    <2> QED
      BY <2>1
  <1>2. \A k \in 1..end : AllLocal(Round(f, all, k, ks), f.at, Z)
    BY <1>1, RoundLocal
  <1>3. ss \in Seq(Seq(Writes)) /\ Len(ss) = end /\ \A k \in 1..end : ss[k] = Round(f, all, k, ks)
    <2>1. \A k \in 1..end : Round(f, all, k, ks) \in Seq(Writes)
      BY <1>2 DEF AllLocal
    <2>2. ss \in [1..end -> Seq(Writes)]
      BY <2>1
    <2> QED
      BY <1>1, <2>2
  <1>4. Rounds(f, all, end, ks) = FlattenSeq(ss)
    BY DEF Rounds
  <1> HIDE DEF ss
  <1>5. FlattenSeq(ss) \in Seq(Writes) /\ Range(FlattenSeq(ss)) = UNION {Range(ss[k]) : k \in 1..end}
    BY <1>3, FlattenRange
  <1>6. \A k \in 1..end : \A w \in Range(ss[k]) : Local(w, f.at, Z)
    BY <1>2, <1>3 DEF AllLocal
  <1> QED
    BY <1>4, <1>5, <1>6 DEF AllLocal

LEMMA GrownFacts ==
  ASSUME NEW f, NEW all, NEW ks, Writing(f, all, ks), NEW end \in 1..Len(all), end <= MaxSize
  PROVE  Grown(f, all, end) \in Copies /\ Grown(f, all, end).cluster = all[1] /\ 1 \in 1..Len(all)
  <1> DEFINE size == IF end > f.size THEN end ELSE f.size
             h == all[1]
             g == Grown(f, all, end)
  <1>1. all \in Seq(Clusters) /\ Len(all) \in Nat /\ f \in Copies /\ f.size \in 0..MaxSize
    BY DEF Writing, Copies
  <1>2. h \in Clusters /\ 1 \in 1..Len(all)
    BY <1>1
  <1>3. end \in 0..MaxSize /\ size \in 0..MaxSize
    BY <1>1, FatAssumption
  <1>4. g = [f EXCEPT !.cluster = h, !.size = size, !.off = end]
    BY DEF Grown
  <1> HIDE DEF size, g, h
  <1>5. g \in Copies /\ g.cluster = h
    BY <1>1, <1>2, <1>3, <1>4 DEF Copies
  <1> QED
    BY <1>2, <1>5 DEF g, h

LEMMA WriteLocal ==
  ASSUME Sound(Disk), Opened(Disk), NEW f \in Copies, Remembers(Disk, f), NEW ks \in SUBSET Handles,
         NEW len \in 1..MaxSize, f.off + len <= MaxSize
  PROVE  AllLocal(WritePlan(f, len, ks), f.at, Zone(Disk, f.at))
  <1> DEFINE c == f.cluster
             Z == Zone(Disk, f.at)
             all == Chain(c) \o FreeList
             end == IF f.off + len <= Len(all) THEN f.off + len ELSE Len(all)
             v == Rounds(f, all, end, ks)
             w == IF end > f.off THEN <<Update(f.at, Grown(f, all, end), ks)>> ELSE <<>>
  <1>1. Disk \in Disks /\ Chain(c) = Trail(Disk, c) /\ Chain(c) \in Seq(Clusters) /\ f.at \in Places
    BY DiskIs, DiskFacts DEF Sound, Copies
  <1>2. Z \subseteq Clusters
    BY <1>1, DiskFacts DEF Zone
  <1>3. Range(Chain(c)) \subseteq Z
    <2>1. CASE c = 0
      <3>1. Chain(c) = <<>> /\ Range(<<>>) = {}
        BY <1>1, <2>1, DiskFacts DEF Range
      <3> QED
        BY <3>1
    <2>2. CASE c # 0
      BY <1>1, <2>2 DEF Remembers, On, Zone
    <2> QED
      BY <2>1, <2>2
  <1>4. FreeList \in Seq(Clusters) /\ Range(FreeList) \subseteq Z
    BY <1>1, FreeFacts, DiskIs DEF Zone
  <1>5. all \in Seq(Clusters) /\ Range(all) \subseteq Z
    BY <1>1, <1>3, <1>4, OneAfter
  <1>6. Writing(f, all, ks)
    BY Start
  <1>7. WritePlan(f, len, ks) = v \o w
    BY DEF WritePlan, Rounds
  <1> HIDE DEF all, Z
  <1>8. Len(all) \in Nat /\ f.off \in Nat /\ len \in Nat /\ \A j \in 1..Len(all) : all[j] \in Z
    BY <1>5, FatAssumption DEF Copies, Range
  <1>9. end \in 0..Len(all) /\ end <= MaxSize /\ (end > f.off => end \in 1..Len(all))
    BY <1>8, FatAssumption
  <1> HIDE DEF end
  <1>10. AllLocal(v, f.at, Z)
    BY <1>2, <1>6, <1>8, <1>9, RoundsLocal
  <1>11. AllLocal(w, f.at, Z)
    <2> DEFINE g == Grown(f, all, end)
    <2>1. CASE end > f.off
      <3>1. g \in Copies /\ g.cluster \in Z
        BY <1>6, <1>8, <1>9, <2>1, GrownFacts
      <3>2. w = <<Update(f.at, g, ks)>>
        BY <2>1
      <3> HIDE DEF g, w
      <3> QED
        BY <1>1, <3>1, <3>2, UpdateLocal
    <2>2. CASE ~(end > f.off)
      BY <2>2, LocalNone
    <2> QED
      BY <2>1, <2>2
  <1> HIDE DEF v, w
  <1> QED
    BY <1>7, <1>10, <1>11, LocalTwo DEF Z

LEMMA WriteSlips ==
  ASSUME Sound(Disk), Opened(Disk), NEW f \in Copies, Remembers(Disk, f), NEW ks \in SUBSET Handles,
         NEW len \in 1..MaxSize, f.off + len <= MaxSize
  PROVE  {f.at} \in SUBSET Places /\ Slips("write", {f.at}, WritePlan(f, len, ks), Disk)
  <1> DEFINE plan == WritePlan(f, len, ks)
             Z == Zone(Disk, f.at)
  <1>1. AllLocal(plan, f.at, Z)
    BY WriteLocal
  <1>2. Z = Zone(Disk, f.at) /\ f.at \in InUse(Disk) /\ Entry(Disk, f.at).kind = "file" /\ f.at \in Places
    BY DEF Remembers, Copies
  <1> HIDE DEF plan, Z
  <1>3. plan \in Seq(Writes) /\ \A i \in 1..Len(plan) : Local(plan[i], f.at, Z)
    BY <1>1 DEF AllLocal, Range
  <1>4. Slips("write", {f.at}, plan, Disk)
    BY <1>2, <1>3, LocalSlips
  <1> QED
    BY <1>2, <1>4 DEF plan

LEMMA WriteStep ==
  ASSUME IInv, Ready, NEW f \in Copies, Remembers(Disk, f), NEW ks \in SUBSET Handles,
         NEW len \in 1..MaxSize, f.off + len <= MaxSize,
         Perform("write", {f.at}, WritePlan(f, len, ks), Hurts(f))
  PROVE  IInv'
  <1> DEFINE all == Chain(f.cluster) \o FreeList
             end == IF f.off + len <= Len(all) THEN f.off + len ELSE Len(all)
             v == Rounds(f, all, end, ks)
             w == IF end > f.off THEN <<Update(f.at, Grown(f, all, end), ks)>> ELSE <<>>
             plan == WritePlan(f, len, ks)
             z == After(v, Disk)
  <1>1. Sound(Disk) /\ Opened(Disk) /\ Disk \in Disks
    BY DEF IInv
  <1>2. Writing(f, all, ks) /\ Going(Disk, f, all, 0, Reach(f, 0))
    BY <1>1, Start
  <1>3. plan = v \o w
    BY DEF WritePlan, Rounds
  <1> HIDE DEF all
  <1>4. Len(all) \in Nat /\ f.off \in Nat /\ len \in Nat
    <2>1. all \in Seq(Clusters)
      BY <1>2 DEF Writing
    <2> QED
      BY <2>1, FatAssumption DEF Copies
  <1>5. end \in 0..Len(all) /\ end <= MaxSize /\ (end > f.off => end \in 1..Len(all))
    BY <1>4, FatAssumption
  <1> HIDE DEF end, plan
  <1>6. Careful(v, Disk, Hurts(f)) /\ Going(z, f, all, end, Reach(f, end))
    BY <1>1, <1>2, <1>5, RoundsStep
  <1> HIDE DEF v
  <1>7. Careful(w, z, Hurts(f)) /\ Fine(Disk, After(w, z), Hurts(f))
    <2> HIDE DEF z
    <2>1. CASE end > f.off
      <3>1. w = <<Update(f.at, Grown(f, all, end), ks)>> /\ end \in 1..Len(all)
        BY <1>5, <2>1
      <3> HIDE DEF w
      <3> QED
        BY <1>2, <1>5, <1>6, <3>1, FinalStep
    <2>2. CASE ~(end > f.off)
      <3>1. Fine(Disk, z, Hurts(f)) /\ z \in Disks
        BY <1>6, GoingFine
      <3> QED
        BY <2>2, <3>1, CarefulNone
    <2> QED
      BY <2>1, <2>2
  <1> HIDE DEF w
  <1>8. Careful(plan, Disk, Hurts(f)) /\ Fine(Disk, After(plan, Disk), Hurts(f))
    BY <1>1, <1>3, <1>6, <1>7, CarefulTwo
  <1> DEFINE s == States(plan, Disk)
  <1>9. s = States(plan, Disk)
    OBVIOUS
  <1> HIDE DEF s
  <1>10. /\ plan \in Seq(Writes)
         /\ \A k \in 1..Len(plan) : /\ Sound(s[k]) /\ plan[k].k \notin {"erase", "entry"}
                                    /\ plan[k].k = "data" => Fine(Disk, s[k-1], Hurts(f))
         /\ Fine(Disk, s[Len(plan)], Hurts(f))
    BY <1>8, <1>9 DEF Careful, After
  <1>11. \A k \in 1..Len(plan) : Undone("write", plan[k], s[k-1]) = s[k-1]
    BY DEF Undone
  <1>12. Hurts(f) \in {{}, {"split"}}
    BY DEF Hurts
  <1>13. Perform("write", {f.at}, plan, Hurts(f))
    BY DEF plan
  <1>14. \A k \in 1..Len(plan) : plan[k].k \in {"data", "entry"}
                                   => Fine(Disk, Undone("write", plan[k], s[k-1]), Hurts(f))
    BY <1>10, <1>11
  <1>15. \A k \in 1..Len(plan) : Sound(s[k]) /\ plan[k].k # "erase"
    BY <1>10
  <1>16. "write" \in {"create", "mkdir", "write"}
    OBVIOUS
  <1>17. {f.at} \in SUBSET Places /\ Slips("write", {f.at}, plan, Disk)
    BY <1>1, WriteSlips DEF plan
  <1> QED
    <2> DEFINE hurts == Hurts(f)
    <2>1. /\ hurts \in {{}, {"split"}} /\ Perform("write", {f.at}, plan, hurts)
          /\ Fine(Disk, s[Len(plan)], hurts)
          /\ \A k \in 1..Len(plan) : plan[k].k \in {"data", "entry"}
                                      => Fine(Disk, Undone("write", plan[k], s[k-1]), hurts)
      BY <1>10, <1>12, <1>13, <1>14
    <2> HIDE DEF hurts
    <2>2. plan \in Seq(Writes)
      BY <1>10
    <2> QED
      BY <1>9, <1>15, <1>16, <1>17, <2>1, <2>2, SafeStep

LEMMA ShellWriteStep ==
  ASSUME IInv, Ready, NEW p \in Live, NEW len \in 1..MaxSize, ShellWrite(p, len)
  PROVE  IInv'
  <1> DEFINE f == Copy(p, At(p).cluster, At(p).size)
  <1>1. /\ Sound(Disk) /\ Disk \in Disks /\ p \in InUse(Disk) /\ p \in Places
        /\ At(p) = Entry(Disk, p) /\ At(p) \in Entries
    BY LiveFacts, DiskFacts, DiskIs DEF IInv
  <1>2. At(p).kind = "file" /\ Perform("write", {p}, WritePlan(f, len, {}), {})
    BY DEF ShellWrite
  <1>3. f \in Copies /\ f.at = p /\ f.cluster = At(p).cluster /\ f.size = At(p).size /\ f.off = 0
    BY <1>1, FatAssumption DEF Copies, Entries, Copy
  <1> HIDE DEF f
  <1>4. Remembers(Disk, f)
    <2>1. Full(Disk, Entry(Disk, p).cluster, Entry(Disk, p).size)
      BY <1>1, <1>2 DEF Sound, Filled
    <2>2. 0 <= At(p).size
      BY <1>1 DEF Entries
    <2> QED
      BY <1>1, <1>2, <1>3, <2>1, <2>2 DEF Remembers
  <1>5. Hurts(f) = {}
    BY <1>3 DEF Hurts
  <1>6. f.off + len <= MaxSize /\ {} \in SUBSET Handles
    BY <1>3, FatAssumption
  <1>7. Perform("write", {f.at}, WritePlan(f, len, {}), Hurts(f))
    BY <1>2, <1>3, <1>5
  <1> QED
    BY <1>1, <1>3, <1>4, <1>6, <1>7, WriteStep

LEMMA WriteFdStep ==
  ASSUME IInv, Ready, NEW h \in Handles, NEW len \in 1..MaxSize, WriteFd(h, len)
  PROVE  IInv'
  <1> DEFINE f == open[h]
  <1>1. /\ f # Closed /\ f.off + len <= MaxSize
        /\ Perform("write", {f.at}, WritePlan(f, len, {h}), Hurts(f))
    BY DEF WriteFd
  <1>2. open \in [Handles -> Copies \cup {Closed}] /\ Opened(Disk)
    BY OpenIs DEF IInv
  <1>3. f \in Copies /\ Remembers(Disk, f)
    BY <1>1, <1>2, DiskIs DEF Opened
  <1> HIDE DEF f
  <1> QED
    BY <1>1, <1>3, WriteStep

-----------------------------------------------------------------------------
(* The invariant, and what follows from it                                  *)

LEMMA NextStep ==
  ASSUME IInv, [Next]_vars
  PROVE  IInv'
  <1>1. CASE UNCHANGED vars
    <2>1. Disk' = Disk /\ UNCHANGED <<cut, harm>>
      BY <1>1 DEF Disk, vars
    <2>2. Unfinished' = Unfinished /\ BeingMoved' = BeingMoved /\ Ready' = Ready
      BY <2>1 DEF Unfinished, BeingMoved, Ready
    <2> QED
      BY <2>1, <2>2 DEF IInv
  <1>2. CASE Next
    <2>1. Ready
      BY <1>2 DEF Next
    <2>2. Named \subseteq Live
      BY DEF Named
    <2>3. ASSUME NEW d \in Dirs, NEW n \in Names,
                 \/ Create(d, n, {})
                 \/ \E h \in Handles : open[h] = Closed /\ Create(d, n, {h})
                 \/ \E p \in Named : Rename(p, d, n)
                 \/ d = Root /\ Mkdir(n)
          PROVE  IInv'
      <3>1. CASE Create(d, n, {})
        <4>1. {} \in SUBSET Handles
          OBVIOUS
        <4> QED
          BY <2>1, <3>1, <4>1, CreateStep
      <3>2. ASSUME NEW h \in Handles, Create(d, n, {h}) PROVE IInv'
        <4>1. {h} \in SUBSET Handles
          OBVIOUS
        <4> QED
          BY <2>1, <3>2, <4>1, CreateStep
      <3>3. ASSUME NEW p \in Named, Rename(p, d, n) PROVE IInv'
        <4>1. p \in Live
          BY <2>2
        <4> QED
          BY <2>1, <3>3, <4>1, RenameStep
      <3>4. CASE Mkdir(n)
        BY <2>1, <3>4, MkdirStep
      <3> QED
        BY <2>3, <3>1, <3>2, <3>3, <3>4
    <2>4. ASSUME NEW p \in Named,
                 \/ \E len \in 1..MaxSize : ShellWrite(p, len)
                 \/ Unlink(p)
                 \/ RemoveAll(p)
                 \/ \E h \in Handles : Open(h, p)
          PROVE  IInv'
      <3>1. p \in Live
        BY <2>2
      <3> QED
        BY <2>1, <2>4, <3>1, ShellWriteStep, UnlinkStep, RemoveAllStep, OpenStep
    <2>5. ASSUME NEW h \in Handles, Close(h) \/ ReadFd(h) \/ \E len \in 1..MaxSize : WriteFd(h, len)
          PROVE  IInv'
      BY <2>1, <2>5, CloseStep, ReadStep, WriteFdStep
    <2>6. CASE Restart
      BY <2>1, <2>6, RestartStep
    <2> QED
      BY <1>2, <2>3, <2>4, <2>5, <2>6 DEF Next
  <1> QED
    BY <1>1, <1>2

\* At every moment the disk is sound, unless an operation that erases or moves entries was cut
\* short, a write failed unnoticed or a file was given a second chain; it is then damaged only
\* where IInv says (code: the writes of fat32.cpp, in their order).
THEOREM InvariantHolds == Spec => []IInv
  BY InitStep, NextStep, PTL DEF Spec

LEMMA PathEnded ==
  ASSUME Disk \in Disks, NEW c, c # 0 => Path(Disk.fat, Trail(Disk, c))
  PROVE  Ended(c)
  <1> SUFFICES ASSUME c # 0
               PROVE  /\ c \in Clusters /\ fat[Last(Chain(c))] = Eof
                      /\ \A x \in Range(Chain(c)) : fat[x] # Free
    BY DEF Ended
  <1> DEFINE t == Chain(c)
  <1>1. /\ t \in Seq(Clusters) /\ t # <<>> /\ fat[t[Len(t)]] = Eof
        /\ \A k \in 1..Len(t) - 1 : fat[t[k]] = t[k+1]
    BY DiskIs DEF Path
  <1>2. c \in Clusters
    BY <1>1, DiskFacts, DiskIs, FollowFacts DEF Trail
  <1> HIDE DEF t
  <1>3. Len(t) \in Nat /\ DOMAIN t = 1..Len(t) /\ Last(t) = t[Len(t)]
    BY <1>1 DEF Last
  <1>4. ASSUME NEW k \in 1..Len(t) PROVE fat[t[k]] # Free
    <2>1. CASE k = Len(t)
      BY <1>1, <2>1, ClusterFacts
    <2>2. CASE k # Len(t)
      <3>1. k \in 1..Len(t) - 1 /\ k + 1 \in 1..Len(t)
        <4> DEFINE n == Len(t)
        <4>1. n \in Nat /\ k \in 1..n /\ k # n
          BY <1>3, <2>2
        <4> HIDE DEF n
        <4>2. k \in 1..n - 1 /\ k + 1 \in 1..n
          BY <4>1
        <4> QED
          BY <4>2 DEF n
      <3>2. t[k+1] \in Clusters
        BY <1>1, <3>1
      <3> QED
        BY <1>1, <3>1, <3>2, ClusterFacts
    <2> QED
      BY <2>1, <2>2
  <1>5. \A x \in Range(t) : fat[x] # Free
    BY <1>3, <1>4 DEF Range
  <1> QED
    BY <1>1, <1>2, <1>3, <1>5 DEF t

\* The variables of the model stay within the values that they are for (code: fat_set and
\* write_dir_entry of fat32.cpp, the copies in vfs_disk.cpp).
THEOREM TypeCorrect == Spec => []TypeOK
  <1>1. ASSUME IInv PROVE TypeOK
    <2>1. Disk \in Disks
      BY <1>1 DEF IInv
    <2>2. /\ fat \in [Clusters -> Clusters \cup {Free, Eof}]
          /\ slot \in [Clusters -> [1..SlotsPer -> Entries \cup {Unused, Dot, Leftover}]]
          /\ written \subseteq Clusters
      BY <2>1, DiskIs DEF Disks, Cell
    <2>3. \A h \in Handles : open[h] = Closed \/ open[h] \in Copies
      BY <2>1, OpenIs
    <2> QED
      BY <1>1, <2>2, <2>3 DEF IInv, TypeOK, Copies
  <1> QED
    BY <1>1, InvariantHolds, PTL

\* At every moment, wherever the power failed or a write did whose result the code tests, each
\* chain ends, no two chains meet and no chain has a free cluster, but for the entries that an
\* unlink or rmdir was erasing and the two of a rename (code: the order of the writes in
\* fat32.cpp:460-751).  After a write that failed unnoticed the chain of the one entry that the
\* operation was about may be broken, but meets no other.
THEOREM ChainsStaySound == Spec => []ChainsSound
  <1>1. ASSUME IInv PROVE ChainsSound
    <2> DEFINE E == Unfinished
               M == BeingMoved
               x == Disk
    <2>1. x \in Disks /\ Partly(x, E, M)
      BY <1>1 DEF IInv
    <2>2. Live \subseteq InUse(x) /\ \A p \in Live : At(p) = Entry(x, p)
      BY <2>1, LiveFacts, DiskIs
    <2>3. \A p \in Live : Chained(p) = On(x, Entry(x, p).cluster)
      BY <2>2, DiskIs DEF Chained, On
    <2>4. Range(Chain(Root)) = On(x, Root)
      BY DiskIs DEF On
    <2>5. Ended(Root)
      BY <2>1, PathEnded DEF Partly
    <2>6. \A p \in Live \ E : Ended(At(p).cluster)
      <3> SUFFICES ASSUME NEW p \in Live \ E PROVE Ended(At(p).cluster)
        OBVIOUS
      <3> DEFINE c == At(p).cluster
      <3>1. c # 0 => Path(x.fat, Trail(x, c))
        BY <2>1, <2>2 DEF Partly
      <3> HIDE DEF c
      <3>2. Ended(c)
        BY <2>1, <3>1, PathEnded
      <3> QED
        BY <3>2 DEF c
    <2> HIDE DEF E, M, x
    <2>7. \A p \in Live : Chained(p) \cap Range(Chain(Root)) = {}
      BY <2>1, <2>2, <2>3, <2>4 DEF Partly
    <2>8. \A p, q \in Live : \/ p = q \/ {p, q} \subseteq M
                             \/ Chained(p) \cap Chained(q) = {}
      BY <2>1, <2>2, <2>3 DEF Partly
    <2> QED
      BY <2>5, <2>6, <2>7, <2>8 DEF ChainsSound, E, M
  <1> QED
    BY <1>1, InvariantHolds, PTL

\* A file's chain is as long as its size says and has nothing of a file deleted earlier, after a
\* power failure too, unless a write to this file failed unnoticed (code: fat32_write enters the
\* size last, fat32.cpp:465-529).
THEOREM DataIsOwn == Spec => []OwnData
  <1>1. ASSUME IInv PROVE OwnData
    <2> SUFFICES ASSUME NEW p \in Live \ Unfinished, At(p).kind = "file"
                 PROVE  /\ At(p).size <= Len(Chain(At(p).cluster))
                        /\ \A k \in 1..At(p).size : Chain(At(p).cluster)[k] \in written
      BY DEF OwnData
    <2>1. Disk \in Disks /\ Partly(Disk, Unfinished, BeingMoved)
      BY <1>1 DEF IInv
    <2>2. p \in InUse(Disk) \ Unfinished /\ At(p) = Entry(Disk, p)
      BY <2>1, LiveFacts, DiskIs
    <2>3. Full(Disk, Entry(Disk, p).cluster, Entry(Disk, p).size)
      BY <2>1, <2>2 DEF Partly
    <2> QED
      BY <2>2, <2>3, DiskIs DEF Full
  <1> QED
    BY <1>1, InvariantHolds, PTL

\* Unless the power fails or a write fails unnoticed, no cluster is taken and in no chain, also
\* when a write fails and the code notices; and a rename that is cut short leaves the file one of
\* its entries (code: fat32.cpp:641-687, 738-747).
THEOREM NothingGetsLost == Spec => []NothingLost
  <1>1. ASSUME IInv PROVE NothingLost
    <2> DEFINE x == Disk
               mine == Range(Chain(Root)) \cup UNION {Chained(p) : p \in Live}
    <2>1. x \in Disks /\ cut.on \subseteq Places
      BY <1>1 DEF IInv
    <2>2. \A p \in InUse(x) : Chained(p) = On(x, Entry(x, p).cluster)
      BY DiskIs DEF Chained, On
    <2>3. Range(Chain(Root)) = On(x, Root)
      BY DiskIs DEF On
    <2>4. ASSUME harm = {} PROVE {c \in Clusters : fat[c] # Free} = mine
      <3>1. Sound(x) /\ Lost(x) = {}
        BY <1>1, <2>4 DEF IInv, Ready
      <3>2. Live = InUse(x)
        BY <2>1, <3>1, LiveFacts
      <3>3. {c \in Clusters : fat[c] # Free} = Used(x)
        BY <3>1, HeadFacts, DiskIs DEF Lost
      <3>4. \A c \in Used(x) : c \in mine
        <4> SUFFICES ASSUME NEW c \in Used(x) PROVE c \in mine
          OBVIOUS
        <4>1. PICK d \in Heads(x) : c \in On(x, d)
          BY DEF Used
        <4>2. CASE d = Root
          BY <2>3, <4>1, <4>2
        <4>3. CASE d # Root
          <5>1. PICK p \in InUse(x) : Entry(x, p).cluster = d
            BY <4>3 DEF Heads
          <5> QED
            BY <2>2, <3>2, <4>1, <5>1
        <4> QED
          BY <4>2, <4>3
      <3>5. \A c \in mine : c \in Used(x)
        <4> SUFFICES ASSUME NEW c \in mine PROVE c \in Used(x)
          OBVIOUS
        <4>1. CASE c \in Range(Chain(Root))
          BY <2>3, <3>1, <4>1, HeadFacts
        <4>2. ASSUME NEW p \in Live, c \in Chained(p) PROVE c \in Used(x)
          <5>1. p \in InUse(x) /\ c \in On(x, Entry(x, p).cluster)
            BY <2>2, <3>2, <4>2
          <5>2. Entry(x, p).cluster # 0
            BY <2>1, <5>1, DiskFacts
          <5> QED
            BY <3>1, <5>1, <5>2, HeadFacts
        <4> QED
          BY <4>1, <4>2
      <3> HIDE DEF mine, x
      <3> QED
        BY <3>3, <3>4, <3>5
    <2>5. ASSUME "rename" \in harm PROVE cut.on \cap Live # {}
      <3>1. PICK p \in cut.on : Reached(x, p)
        BY <1>1, <2>5 DEF IInv
      <3>2. p \in InUse(x)
        BY <3>1 DEF Reached
      <3>3. p \in Live
        BY <2>1, <3>1, <3>2, LiveFacts
      <3> QED
        BY <3>1, <3>3
    <2> QED
      BY <2>4, <2>5 DEF NothingLost
  <1> QED
    BY <1>1, InvariantHolds, PTL
================================================================================
