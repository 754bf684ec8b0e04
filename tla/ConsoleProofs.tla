----------------------------- MODULE ConsoleProofs -----------------------------
(***************************************************************************)
(* Proofs about module Console, for any keys, sizes and order of the pipes. *)
(*                                                                         *)
(* The interrupt's side: what is due is exactly the difference between the *)
(* state that a device told last and the one that the handler took last,   *)
(* and there is none while the device may tell another.  The typing side:  *)
(* a report types its characters one after the other, which is a fold, and *)
(* each of them keeps the line and the history as they should be.          *)
(***************************************************************************)
EXTENDS Console, SequenceTheorems, FiniteSetTheorems, WellFoundedInduction, TLAPS

-----------------------------------------------------------------------------
(* The line editor                                                          *)

Chars == [key : Keys, upper : BOOLEAN]
Lines == Seq(Chars)

\* The history h after the lines that were entered last, with the slot that stays empty, or 0.
Gap(h, lines, gap) ==
  /\ gap # 0 => Len(lines) = HistMax
  /\ \A j \in 1..Len(lines) :
       h[j] = IF j < gap THEN lines[j + 1] ELSE IF j = gap THEN <<>> ELSE lines[j]

Kept(h, lines) ==
  /\ Len(lines) <= HistMax
  /\ \E gap \in 0..HistMax - 1 : Gap(h, lines, gap)
  /\ \A j \in 1..HistMax : j > Len(lines) => h[j] = <<>>

Editors == [line : Lines, pos : Nat, history : [1..HistMax -> Lines], count : Nat,
            entered : Seq(Lines)]

Edited(e) ==
  /\ e.count = Len(e.entered) /\ Kept(e.history, e.entered)
  /\ Len(e.line) < InputMax /\ e.pos = Len(e.line)

\* What the constants are.
LEMMA Consts ==
  /\ HistMax \in Nat /\ HistMax > 1 /\ InputMax \in Nat /\ InputMax > 0
  /\ BufSize \in Nat /\ BufSize > 0 /\ Left \notin Keys /\ Left # Rollover
  BY ConsoleAssumption DEF Left, Keys, Rollover

\* The last lines after one more.
Latest(lines, line) ==
  LET all == Append(lines, line) IN IF Len(all) > HistMax THEN Tail(all) ELSE all

LEMMA StoredLine ==
  ASSUME NEW h \in [1..HistMax -> Lines], NEW lines \in Seq(Lines), Kept(h, lines), NEW line \in Lines
  PROVE  /\ Stored(h, Len(lines), line) \in [1..HistMax -> Lines]
         /\ Latest(lines, line) \in Seq(Lines)
         /\ Kept(Stored(h, Len(lines), line), Latest(lines, line))
         /\ Len(Latest(lines, line)) = IF Len(lines) < HistMax THEN Len(lines) + 1 ELSE Len(lines)
  <1>0. PICK n, d, all, new : /\ n = Len(lines) /\ d = Stored(h, n, line) /\ all = Append(lines, line)
                              /\ new = IF Len(all) > HistMax THEN Tail(all) ELSE all
                              /\ new = Latest(lines, line)
    BY DEF Latest
  <1> SUFFICES /\ d \in [1..HistMax -> Lines] /\ new \in Seq(Lines) /\ Kept(d, new)
               /\ Len(new) = IF n < HistMax THEN n + 1 ELSE n
    BY <1>0
  <1> DEFINE L == Lines
  <1> HIDE DEF L
  <1>1. HistMax \in Nat /\ HistMax > 1 /\ n \in Nat /\ n <= HistMax
    BY Consts, <1>0, LenProperties DEF Kept
  <1>2. PICK gap \in 0..HistMax - 1 :
          /\ gap # 0 => n = HistMax
          /\ \A j \in 1..n :
               h[j] = IF j < gap THEN lines[j + 1] ELSE IF j = gap THEN <<>> ELSE lines[j]
    BY <1>0 DEF Kept, Gap
  <1>3. \A j \in 1..HistMax : j > n => h[j] = <<>>
    BY <1>0 DEF Kept
  <1>4. /\ all \in Seq(L) /\ Len(all) = n + 1 /\ all[n + 1] = line
        /\ \A j \in 1..n : all[j] = lines[j]
    BY <1>0, AppendProperties DEF L
  <1>5. d = [j \in 1..HistMax |->
               IF j = (IF n < HistMax THEN n + 1 ELSE HistMax) THEN line
               ELSE IF (IF n < HistMax THEN n + 1 ELSE HistMax) = HistMax /\ j < HistMax
                    THEN h[j + 1] ELSE h[j]]
    BY <1>0 DEF Stored
  <1>6. d \in [1..HistMax -> Lines]
    BY <1>1, <1>5
  <1>7. CASE n + 1 < HistMax
    <2>1. new = all /\ gap = 0 /\ Len(new) = n + 1
      BY <1>0, <1>1, <1>2, <1>4, <1>7
    <2>2. \A j \in 1..HistMax : d[j] = IF j = n + 1 THEN line ELSE h[j]
      BY <1>1, <1>5, <1>7
    <2>3. \A j \in 1..n + 1 : d[j] = all[j]
      BY <1>1, <1>2, <1>4, <1>7, <2>1, <2>2
    <2>4. \A j \in 1..HistMax : j > n + 1 => d[j] = <<>>
      BY <1>1, <1>3, <2>2
    <2>5. Kept(d, new)
      <3>1. 0 \in 0..HistMax - 1 /\ n + 1 <= HistMax
        BY <1>1, <1>7
      <3>2. \A j \in 1..n + 1 : d[j] = IF j < 0 THEN new[j + 1] ELSE IF j = 0 THEN <<>> ELSE new[j]
        BY <1>1, <2>1, <2>3
      <3>3. Gap(d, new, 0)
        BY <2>1, <3>2 DEF Gap
      <3> QED
        BY <2>1, <2>4, <3>1, <3>3 DEF Kept
    <2> QED
      BY <1>1, <1>4, <1>6, <1>7, <2>1, <2>5 DEF L
  <1>8. CASE n + 1 = HistMax
    <2>1. new = all /\ gap = 0 /\ Len(new) = HistMax
      BY <1>0, <1>1, <1>2, <1>4, <1>8
    <2>2. \A j \in 1..HistMax : d[j] = IF j = HistMax THEN line ELSE h[j + 1]
      BY <1>1, <1>5, <1>8
    <2>3. ASSUME NEW j \in 1..HistMax
          PROVE  d[j] = IF j < n THEN all[j + 1] ELSE IF j = n THEN <<>> ELSE all[j]
      <3>1. CASE j < n
        <4>1. j + 1 \in 1..n /\ j # HistMax
          BY <1>1, <1>8, <3>1
        <4> QED
          BY <1>2, <1>4, <2>1, <2>2, <3>1, <4>1
      <3>2. CASE j = n
        BY <1>1, <1>3, <1>8, <2>2, <3>2
      <3>3. CASE j = n + 1
        BY <1>1, <1>4, <1>8, <2>2, <3>3
      <3> QED
        BY <1>1, <1>8, <3>1, <3>2, <3>3
    <2>4. n \in 0..HistMax - 1 /\ n # 0
      BY <1>1, <1>8
    <2>5. Kept(d, new)
      <3>1. \A j \in 1..HistMax :
              d[j] = IF j < n THEN new[j + 1] ELSE IF j = n THEN <<>> ELSE new[j]
        BY <2>1, <2>3
      <3>2. HistMax <= HistMax /\ \A j \in 1..HistMax : j > HistMax => d[j] = <<>>
        BY <1>1
      <3>3. Gap(d, new, n)
        BY <2>1, <3>1 DEF Gap
      <3> QED
        BY <2>1, <2>4, <3>2, <3>3 DEF Kept
    <2> QED
      BY <1>1, <1>4, <1>6, <1>8, <2>1, <2>5 DEF L
  <1>9. CASE n = HistMax
    <2>1. all # <<>> /\ new = Tail(all)
      BY <1>0, <1>1, <1>4, <1>9
    <2>2. new \in Seq(L) /\ Len(new) = n /\ \A j \in 1..n : new[j] = all[j + 1]
      BY <1>1, <1>4, <2>1, HeadTailProperties
    <2>3. \A j \in 1..n : d[j] = IF j = n THEN line ELSE h[j + 1]
      BY <1>1, <1>5, <1>9
    <2> DEFINE g == IF gap = 0 THEN 0 ELSE gap - 1
    <2>4. ASSUME NEW j \in 1..n
          PROVE  d[j] = IF j < g THEN new[j + 1] ELSE IF j = g THEN <<>> ELSE new[j]
      <3>1. CASE j = n
        <4>1. d[j] = line /\ new[j] = line
          BY <1>1, <1>4, <2>2, <2>3, <3>1
        <4>2. g < j
          BY <1>1, <1>9, <3>1
        <4>3. g \in Int /\ j \in Int
          BY <1>1
        <4> HIDE DEF g
        <4>4. ~(j < g) /\ ~(j = g)
          BY <4>2, <4>3
        <4> QED
          BY <4>1, <4>4
      <3>2. CASE j # n
        <4>1. j + 1 \in 1..n /\ new[j] = lines[j + 1] /\ d[j] = h[j + 1]
          BY <1>1, <1>4, <2>2, <2>3, <3>2
        <4>2. h[j + 1] = IF j + 1 < gap THEN lines[j + 1 + 1] ELSE IF j + 1 = gap THEN <<>> ELSE lines[j + 1]
          BY <1>2, <4>1
        <4>3. CASE j < g
          <5>1. j + 1 < gap /\ j + 2 \in 1..n
            BY <1>1, <1>9, <4>1, <4>3
          <5>2. new[j + 1] = lines[j + 1 + 1]
            BY <1>1, <1>4, <2>2, <4>1, <5>1
          <5> QED
            BY <4>1, <4>2, <4>3, <5>1, <5>2
        <4>4. CASE j = g
          BY <4>1, <4>2, <4>4
        <4>5. CASE j > g
          BY <4>1, <4>2, <4>5
        <4>6. g \in Int /\ j \in Int
          BY <1>1
        <4> HIDE DEF g
        <4>7. j < g \/ j = g \/ j > g
          BY <4>6
        <4> QED
          BY <4>3, <4>4, <4>5, <4>7, Zenon
      <3> QED
        BY <3>1, <3>2
    <2>5. g \in 0..HistMax - 1
      BY <1>1
    <2>6. \A j \in 1..HistMax : ~(j > n)
      BY <1>1, <1>9
    <2> HIDE DEF g
    <2>7. Kept(d, new)
      <3>1. n <= HistMax /\ \A j \in 1..HistMax : j > n => d[j] = <<>>
        BY <1>1, <2>6
      <3>2. Gap(d, new, g)
        BY <1>9, <2>2, <2>4 DEF Gap
      <3> QED
        BY <2>2, <2>5, <3>1, <3>2 DEF Kept
    <2> QED
      BY <1>1, <1>6, <1>9, <2>2, <2>7 DEF L
  <1> QED
    BY <1>1, <1>7, <1>8, <1>9

\* A character at the end of the line, and the last one taken away.
LEMMA OneCharacter ==
  ASSUME NEW L, NEW c \in L PROVE <<c>> \in Seq(L) /\ Len(<<c>>) = 1
  OBVIOUS

LEMMA Inserting == ASSUME NEW s, NEW n, n = Len(s), NEW c
  PROVE  InsertAt(s, n + 1, c) = SubSeq(s, 1, n + 1 - 1) \o <<c>> \o SubSeq(s, n + 1, n)
  BY DEF InsertAt

LEMMA Longer ==
  ASSUME NEW L, NEW s \in Seq(L), NEW c \in L
  PROVE  InsertAt(s, Len(s) + 1, c) \in Seq(L) /\ Len(InsertAt(s, Len(s) + 1, c)) = Len(s) + 1
  <1>0. PICK n : n = Len(s)
    OBVIOUS
  <1>1. n \in Nat /\ \A i \in 1..n : s[i] \in L
    BY <1>0, LenProperties
  <1>2. n + 1 - 1 = n
    BY <1>1
  <1>3. SubSeq(s, 1, n) = s
    BY <1>0, SubSeqFull
  <1>4. SubSeq(s, n + 1, n) = <<>>
    BY <1>1, SubSeqEmpty
  <1>5. PICK one : one = <<c>>
    OBVIOUS
  <1>6. one \in Seq(L) /\ Len(one) = 1
    BY <1>5, OneCharacter
  <1>7. s \o one \in Seq(L) /\ Len(s \o one) = n + 1
    <2>1. s \o one \in Seq(L) /\ Len(s \o one) = Len(s) + Len(one)
      BY <1>6, ConcatProperties
    <2> QED
      BY <1>0, <1>1, <1>6, <2>1
  <1>8. (s \o one) \o <<>> = s \o one
    BY <1>7, ConcatEmptySeq
  <1>9. InsertAt(s, n + 1, c) = (s \o one) \o <<>>
    <2>1. InsertAt(s, n + 1, c) = SubSeq(s, 1, n + 1 - 1) \o <<c>> \o SubSeq(s, n + 1, n)
      BY <1>0, Inserting
    <2>2. InsertAt(s, n + 1, c) = SubSeq(s, 1, n) \o one \o SubSeq(s, n + 1, n)
      BY <1>2, <1>5, <2>1, Zenon
    <2> QED
      BY <1>3, <1>4, <2>2, Zenon
  <1> QED
    BY <1>0, <1>7, <1>8, <1>9

LEMMA Shorter ==
  ASSUME NEW L, NEW s \in Seq(L), Len(s) > 0
  PROVE  RemoveAt(s, Len(s)) \in Seq(L) /\ Len(RemoveAt(s, Len(s))) = Len(s) - 1
  <1> DEFINE n == Len(s)
             a == SubSeq(s, 1, n - 1)
             b == SubSeq(s, n + 1, n)
  <1>1. n \in Nat /\ n > 0 /\ \A i \in 1..n : s[i] \in L
    BY LenProperties
  <1>2. n - 1 \in Int /\ 1 \in Int /\ \A i \in 1..n - 1 : s[i] \in L
    BY <1>1
  <1>3. a \in Seq(L) /\ Len(a) = IF 1 <= n - 1 THEN n - 1 - 1 + 1 ELSE 0
    BY <1>2, SubSeqProperties
  <1>4. b = <<>>
    BY <1>1, SubSeqEmpty
  <1>5. RemoveAt(s, n) = a \o b
    BY DEF RemoveAt
  <1> HIDE DEF a, b, n
  <1>6. Len(a) = n - 1
    BY <1>1, <1>3
  <1>7. a \o b = a
    BY <1>3, <1>4, ConcatEmptySeq
  <1> QED
    BY <1>3, <1>5, <1>6, <1>7 DEF n

LEMMA EditorFields ==
  ASSUME NEW e \in Editors
  PROVE  /\ e.line \in Lines /\ e.pos \in Nat /\ e.history \in [1..HistMax -> Lines]
         /\ e.count \in Nat /\ e.entered \in Seq(Lines)
  BY DEF Editors

\* A line and a place in it; and a history with the lines that it is of.
WithLine(e, l, p) == [e EXCEPT !.line = l, !.pos = p]

WithHistory(e, h, n, t) == [e EXCEPT !.history = h, !.count = n, !.entered = t]

LEMMA EditorLine ==
  ASSUME NEW e \in Editors, NEW l \in Lines, NEW p \in Nat, NEW d, d = WithLine(e, l, p)
  PROVE  /\ d \in Editors /\ d.line = l /\ d.pos = p
         /\ d.history = e.history /\ d.count = e.count /\ d.entered = e.entered
  <1> DEFINE L == Lines
             S == Seq(Lines)
  <1> HIDE DEF L, S
  <1>1. e \in [line : L, pos : Nat, history : [1..HistMax -> L], count : Nat, entered : S] /\ l \in L
    BY DEF Editors, L, S
  <1>2. /\ d \in [line : L, pos : Nat, history : [1..HistMax -> L], count : Nat, entered : S]
        /\ d.line = l /\ d.pos = p
        /\ d.history = e.history /\ d.count = e.count /\ d.entered = e.entered
    BY <1>1 DEF WithLine
  <1> QED
    BY <1>2 DEF Editors, L, S

LEMMA EditorHistory ==
  ASSUME NEW e \in Editors, NEW h \in [1..HistMax -> Lines], NEW n \in Nat, NEW t \in Seq(Lines),
         NEW d, d = WithHistory(e, h, n, t)
  PROVE  /\ d \in Editors /\ d.line = e.line /\ d.pos = e.pos
         /\ d.history = h /\ d.count = n /\ d.entered = t
  <1> DEFINE L == Lines
             S == Seq(Lines)
             H == [1..HistMax -> Lines]
  <1> HIDE DEF L, S, H
  <1>1. /\ e \in [line : L, pos : Nat, history : H, count : Nat, entered : S]
        /\ h \in H /\ t \in S
    BY DEF Editors, L, S, H
  <1>2. /\ d \in [line : L, pos : Nat, history : H, count : Nat, entered : S]
        /\ d.line = e.line /\ d.pos = e.pos
        /\ d.history = h /\ d.count = n /\ d.entered = t
    BY <1>1 DEF WithHistory
  <1> QED
    BY <1>2 DEF Editors, L, S, H

LEMMA EmptyLine == <<>> \in Lines /\ Len(<<>>) = 0
  BY EmptySeq DEF Lines

\* Every key that the keyboard has keeps the line and the history as they should be.
LEMMA EnteredLine ==
  ASSUME NEW e \in Editors, Edited(e) PROVE Entered(e) \in Editors /\ Edited(Entered(e))
  <1> DEFINE n == e.count
             new == Latest(e.entered, e.line)
             h == Stored(e.history, n, e.line)
             c == IF n < HistMax THEN n + 1 ELSE n
             kept == IF e.line = <<>> THEN e ELSE WithHistory(e, h, c, new)
  <1>1. Entered(e) = WithLine(kept, <<>>, 0)
    BY DEF Entered, WithLine, WithHistory, Latest
  <1>2. /\ h \in [1..HistMax -> Lines] /\ new \in Seq(Lines) /\ Kept(h, new)
        /\ Len(new) = c
    BY EditorFields, StoredLine DEF Edited
  <1>3. c \in Nat
    BY EditorFields
  <1> HIDE DEF h, c, new
  <1>4. kept \in Editors /\ kept.count = Len(kept.entered) /\ Kept(kept.history, kept.entered)
    <2>1. CASE e.line = <<>>
      BY <2>1 DEF Edited
    <2>2. CASE e.line # <<>>
      BY <1>2, <1>3, <2>2, EditorHistory
    <2> QED
      BY <2>1, <2>2
  <1> HIDE DEF kept
  <1>5. PICK d : d = Entered(e)
    OBVIOUS
  <1>6. /\ d \in Editors /\ d.line = <<>> /\ d.pos = 0
        /\ d.history = kept.history /\ d.count = kept.count /\ d.entered = kept.entered
    BY <1>1, <1>4, <1>5, EditorLine, EmptyLine
  <1>7. Edited(d)
    BY <1>4, <1>6, EmptyLine, Consts DEF Edited
  <1> QED
    BY <1>5, <1>6, <1>7

LEMMA EditedLine ==
  ASSUME NEW e \in Editors, Edited(e), NEW l \in Lines, Len(l) < InputMax,
         NEW d, d = WithLine(e, l, Len(l))
  PROVE  d \in Editors /\ Edited(d)
  <1>1. Len(l) \in Nat
    BY LenProperties DEF Lines
  <1>2. /\ d \in Editors /\ d.line = l /\ d.pos = Len(l)
        /\ d.history = e.history /\ d.count = e.count /\ d.entered = e.entered
    BY <1>1, EditorLine
  <1> QED
    BY <1>2 DEF Edited

LEMMA KeyTyped ==
  ASSUME NEW e \in Editors, Edited(e), NEW k \in Keys, NEW u \in BOOLEAN
  PROVE  OnKey(e, k, u) \in Editors /\ Edited(OnKey(e, k, u))
  <1>1. PICK c \in Chars : c = [key |-> k, upper |-> u]
    BY DEF Chars
  <1>2. /\ e.line \in Lines /\ e.pos = Len(e.line) /\ Len(e.line) \in Nat
        /\ Len(e.line) < InputMax
    BY EditorFields, LenProperties DEF Edited, Lines
  <1>3. Inserted(e, c) \in Editors /\ Edited(Inserted(e, c))
    <2>1. CASE Len(e.line) < InputMax - 1
      <3>1. PICK l : l = InsertAt(e.line, e.pos + 1, c)
        OBVIOUS
      <3>2. l \in Lines /\ Len(l) = Len(e.line) + 1
        <4>1. e.line \in Seq(Chars)
          BY <1>2 DEF Lines
        <4>2. /\ InsertAt(e.line, Len(e.line) + 1, c) \in Seq(Chars)
              /\ Len(InsertAt(e.line, Len(e.line) + 1, c)) = Len(e.line) + 1
          BY <1>1, <4>1, Longer
        <4> QED
          BY <1>2, <3>1, <4>2 DEF Lines
      <3>3. Inserted(e, c) = WithLine(e, l, Len(l))
        BY <1>2, <2>1, <3>1, <3>2 DEF Inserted, WithLine
      <3>4. Len(l) < InputMax
        BY <1>2, <2>1, <3>2, Consts
      <3> QED
        BY <3>2, <3>3, <3>4, EditedLine
    <2>2. CASE ~(Len(e.line) < InputMax - 1)
      BY <2>2 DEF Inserted
    <2> QED
      BY <2>1, <2>2
  <1>4. Erased(e) \in Editors /\ Edited(Erased(e))
    <2>1. CASE e.pos > 0
      <3>1. PICK l : l = RemoveAt(e.line, e.pos)
        OBVIOUS
      <3>2. l \in Lines /\ Len(l) = Len(e.line) - 1
        BY <1>2, <2>1, <3>1, Shorter DEF Lines
      <3>3. Erased(e) = WithLine(e, l, Len(l))
        BY <1>2, <2>1, <3>1, <3>2 DEF Erased, WithLine
      <3>4. Len(l) < InputMax
        BY <1>2, <2>1, <3>2, Consts
      <3> QED
        BY <3>2, <3>3, <3>4, EditedLine
    <2>2. CASE ~(e.pos > 0)
      BY <2>2 DEF Erased
    <2> QED
      BY <2>1, <2>2
  <1> QED
    BY <1>1, <1>3, <1>4, EnteredLine DEF OnKey

-----------------------------------------------------------------------------
(* The characters of a report, one after the other                          *)

\* What the ring and the line are, whatever has been typed.
Sound == {t \in [ring : 0..BufSize - 1, editor : Editors] : Edited(t.editor)}

LEMMA TypedSound ==
  ASSUME NEW t \in Sound, NEW k \in Keys, NEW u \in BOOLEAN
  PROVE  Typed(t, k, u) \in Sound
  <1>1. t.ring \in 0..BufSize - 1 /\ t.editor \in Editors /\ Edited(t.editor)
    BY DEF Sound
  <1>2. Pushed(t.ring) \in 0..BufSize - 1
    BY <1>1, Consts DEF Pushed
  <1>3. OnKey(t.editor, k, u) \in Editors /\ Edited(OnKey(t.editor, k, u))
    BY <1>1, KeyTyped
  <1> QED
    BY <1>2, <1>3 DEF Typed, Sound

LEMMA LeastNumber ==
  ASSUME NEW U, U \subseteq Nat, U # {}
  PROVE  \E u \in U : \A v \in U : u <= v
  <1>1. PICK u \in U : \A v \in U : ~(<<v, u>> \in OpToRel(<, Nat))
    BY NatLessThanWellFounded, WFMin
  <1>2. \A v \in U : ~(v < u)
    BY <1>1 DEF OpToRel
  <1> QED
    BY <1>2

\* The greatest number of a set, and what is left without it.
LEMMA MaxIs ==
  ASSUME NEW n \in Nat, NEW t \in SUBSET (1..n), t # {}
  PROVE  /\ Max(t) \in 1..n /\ Max(t) \in t
         /\ t \ {Max(t)} \in SUBSET (1..Max(t) - 1)
         /\ n \in t => Max(t) = n
  <1> DEFINE U == {n - x : x \in t}
  <1>1. U \subseteq Nat /\ U # {}
    <2>1. \A x \in t : n - x \in Nat
      OBVIOUS
    <2>2. PICK x : x \in t
      OBVIOUS
    <2>3. n - x \in U
      BY <2>2
    <2> QED
      BY <2>1, <2>3
  <1>2. PICK u \in U : \A v \in U : u <= v
    BY <1>1, LeastNumber
  <1>3. PICK x \in t : u = n - x
    OBVIOUS
  <1>4. \A y \in t : x >= y
    <2> SUFFICES ASSUME NEW y \in t PROVE x >= y
      OBVIOUS
    <2>1. n - x <= n - y
      BY <1>2, <1>3
    <2>2. n \in Int /\ x \in Int /\ y \in Int
      OBVIOUS
    <2> HIDE DEF U
    <2> QED
      BY <2>1, <2>2
  <1>5. Max(t) \in t /\ \A y \in t : Max(t) >= y
    BY <1>4 DEF Max
  <1> HIDE DEF U
  <1>6. Max(t) \in 1..n
    BY <1>5
  <1>7. \A y \in t : y \in 1..n /\ (y # Max(t) => y \in 1..Max(t) - 1)
    BY <1>5, <1>6
  <1>8. t \ {Max(t)} \in SUBSET (1..Max(t) - 1)
    BY <1>7
  <1>9. n \in t => Max(t) = n
    BY <1>5, <1>6
  <1> QED
    BY <1>5, <1>6, <1>8, <1>9

\* f folds the first n keys of s from b on.
Folds(f, b, s, u, n) ==
  f = [t \in SUBSET (1..n) |->
         IF t = {} THEN b ELSE Typed(f[t \ {Max(t)}], s[Max(t)], u)]

LEMMA FoldExists ==
  ASSUME NEW b, NEW s, NEW u, NEW n \in Nat
  PROVE  \E f : Folds(f, b, s, u, n)
  <1> DEFINE U == {m \in 0..n : ~\E f : Folds(f, b, s, u, m)}
  <1> SUFFICES ASSUME U # {} PROVE FALSE
    OBVIOUS
  <1>1. U \subseteq Nat
    OBVIOUS
  <1>2. PICK m \in U : \A v \in U : m <= v
    BY <1>1, LeastNumber
  <1>3. m \in Nat /\ m <= n /\ ~\E f : Folds(f, b, s, u, m)
    OBVIOUS
  <1>4. m # 0
    <2>1. \A t \in SUBSET (1..0) : t = {}
      OBVIOUS
    <2> DEFINE f == [t \in SUBSET (1..0) |-> b]
    <2>2. Folds(f, b, s, u, 0)
      BY <2>1 DEF Folds
    <2> QED
      BY <1>3, <2>2
  <1>5. m - 1 \in Nat /\ m - 1 \in 0..n /\ m - 1 \notin U
    BY <1>2, <1>3, <1>4
  <1>6. PICK g : Folds(g, b, s, u, m - 1)
    BY <1>5
  <1> HIDE DEF U
  <1> DEFINE f == [t \in SUBSET (1..m) |-> IF m \in t THEN Typed(g[t \ {m}], s[m], u) ELSE g[t]]
  <1>7. \A t \in SUBSET (1..m) : m \notin t => t \in SUBSET (1..m - 1)
    BY <1>3
  <1>8. \A t \in SUBSET (1..m) : m \notin t => f[t] = g[t]
    OBVIOUS
  <1>9. ASSUME NEW t \in SUBSET (1..m), t # {}
        PROVE  f[t] = Typed(f[t \ {Max(t)}], s[Max(t)], u)
    <2>1. CASE m \in t
      <3>1. Max(t) = m
        BY <1>3, <1>9, <2>1, MaxIs
      <3>2. t \ {m} \in SUBSET (1..m) /\ m \notin t \ {m}
        OBVIOUS
      <3>3. f[t \ {m}] = g[t \ {m}]
        BY <1>8, <3>2
      <3>4. f[t] = Typed(g[t \ {m}], s[m], u)
        BY <2>1
      <3> QED
        BY <3>1, <3>3, <3>4
    <2>2. CASE m \notin t
      <3>1. t \in SUBSET (1..m - 1)
        BY <1>7, <2>2
      <3>2. g[t] = Typed(g[t \ {Max(t)}], s[Max(t)], u)
        BY <1>6, <1>9, <3>1 DEF Folds
      <3>3. t \ {Max(t)} \in SUBSET (1..m) /\ m \notin t \ {Max(t)}
        BY <2>2
      <3> QED
        BY <1>8, <2>2, <3>2, <3>3
    <2> QED
      BY <2>1, <2>2
  <1>10. f[{}] = b
    <2>1. g[{}] = b
      BY <1>6 DEF Folds
    <2> QED
      BY <2>1
  <1>11. f = [t \in SUBSET (1..m) |-> f[t]]
    OBVIOUS
  <1> HIDE DEF f
  <1>12. Folds(f, b, s, u, m)
    BY <1>9, <1>10, <1>11 DEF Folds
  <1> QED
    BY <1>3, <1>12

LEMMA FoldSound ==
  ASSUME NEW n \in Nat, NEW s \in [1..n -> Keys], NEW b \in Sound, NEW u \in BOOLEAN,
         NEW f, Folds(f, b, s, u, n)
  PROVE  f[1..n] \in Sound
  <1> DEFINE U == {m \in 0..n : \E t \in SUBSET (1..m) : f[t] \notin Sound}
  <1>1. U = {}
    <2> SUFFICES ASSUME U # {} PROVE FALSE
      OBVIOUS
    <2>1. U \subseteq Nat
      OBVIOUS
    <2>2. PICK m \in U : \A v \in U : m <= v
      BY <2>1, LeastNumber
    <2>3. m \in 0..n
      OBVIOUS
    <2>4. PICK t \in SUBSET (1..m) : f[t] \notin Sound
      OBVIOUS
    <2>5. t \in SUBSET (1..n)
      BY <2>3
    <2>6. t # {}
      BY <2>4, <2>5 DEF Folds
    <2> DEFINE x == Max(t)
    <2>7. x \in 1..m /\ t \ {x} \in SUBSET (1..x - 1)
      BY <2>3, <2>6, MaxIs
    <2>8. f[t] = Typed(f[t \ {x}], s[x], u)
      BY <2>5, <2>6 DEF Folds
    <2> HIDE DEF x
    <2>9. x - 1 \in 0..n /\ x - 1 < m /\ x \in 1..n
      BY <2>3, <2>7
    <2>10. x - 1 \notin U
      BY <2>2, <2>3, <2>9
    <2>11. f[t \ {x}] \in Sound
      BY <2>7, <2>9, <2>10
    <2>12. s[x] \in Keys
      BY <2>9
    <2> QED
      BY <2>4, <2>8, <2>11, <2>12, TypedSound
  <1>2. n \in 0..n /\ 1..n \in SUBSET (1..n)
    OBVIOUS
  <1> QED
    BY <1>1, <1>2

\* All the characters of a report.
LEMMA KeysTyped ==
  ASSUME NEW n \in Nat, NEW s \in [1..n -> Keys], NEW b \in Sound, NEW u \in BOOLEAN
  PROVE  FoldLeft(LAMBDA t, k : Typed(t, k, u), b, s) \in Sound
  <1> DEFINE f == CHOOSE f : Folds(f, b, s, u, n)
  <1>1. Folds(f, b, s, u, n)
    BY FoldExists
  <1>2. DOMAIN s = 1..n
    OBVIOUS
  <1>3. FoldLeft(LAMBDA t, k : Typed(t, k, u), b, s) = f[1..n]
    BY <1>2 DEF FoldLeft, MapThenFoldSet, Folds
  <1> QED
    BY <1>1, <1>3, FoldSound

-----------------------------------------------------------------------------
(* The interrupt's handler                                                  *)

LEMMA PipesAre ==
  /\ DOMAIN Pipes = 1..2 /\ Len(Pipes) = 2
  /\ Keyboard \in 1..2 /\ Tablet \in 1..2 /\ Keyboard # Tablet
  /\ \A i \in 1..2 : i = Keyboard \/ i = Tablet
  <1> DEFINE P == Pipes
  <1>1. P \in {<<"tablet", "keyboard">>, <<"keyboard", "tablet">>}
    BY OneOfEach
  <1>2. Keyboard = CHOOSE i \in DOMAIN P : P[i] = "keyboard"
    BY DEF Keyboard
  <1>3. Tablet = CHOOSE i \in DOMAIN P : P[i] = "tablet"
    BY DEF Tablet
  <1> HIDE DEF P
  <1>4. /\ DOMAIN P = 1..2 /\ Len(P) = 2
        /\ \/ P[1] = "tablet" /\ P[2] = "keyboard"
           \/ P[1] = "keyboard" /\ P[2] = "tablet"
    BY <1>1
  <1>5. Keyboard \in DOMAIN P /\ P[Keyboard] = "keyboard"
    BY <1>2, <1>4
  <1>6. Tablet \in DOMAIN P /\ P[Tablet] = "tablet"
    BY <1>3, <1>4
  <1>7. \A i \in 1..2 : i = 1 \/ i = 2
    OBVIOUS
  <1>8. DOMAIN Pipes = 1..2 /\ Len(Pipes) = 2
    BY <1>4 DEF P
  <1> QED
    BY <1>4, <1>5, <1>6, <1>7, <1>8

Bits     == {"int", "error"}
KeySets  == SUBSET (Keys \cup {Rollover})
Handlers == [pc : {"idle", "clear", "scan"}, seen : SUBSET Bits, at : 0..2]

Types ==
  /\ td \in [1..2 -> {"active", "done", "stalled"}]
  /\ report \in [keys : KeySets, shift : BOOLEAN]
  /\ touch \in BOOLEAN /\ mouse \in BOOLEAN /\ caps \in BOOLEAN
  /\ sts \in SUBSET Bits
  /\ handler \in Handlers
  /\ prev \in KeySets
  /\ [ring |-> ring, editor |-> editor] \in Sound

\* Where the handler is, and that it looks at the pipes because one of them has ended.
Position ==
  /\ handler.pc = "idle" => handler.seen = {}
  /\ handler.pc = "scan" => handler.at \in 1..2 /\ "int" \in handler.seen

\* No pipe that has ended is forgotten.
Looked == \A i \in 1..2 : td[i] # "active" => Awaited(i)

Running == Types /\ Position /\ Looked

\* What the device told last and what the handler took last are one while a transfer is under
\* way; what is due is their difference.
Told ==
  /\ td[Keyboard] # "stalled"
  /\ td[Keyboard] = "active" => prev = report.keys
  /\ td[Tablet] # "done" => mouse = touch
  /\ due = [k \in Keys \cup {Left} |->
              IF k = Left THEN IF touch /\ ~mouse THEN 1 ELSE 0
              ELSE IF k \in report.keys \ prev THEN 1 ELSE 0]

IInv == Running /\ Told

LEMMA IdleIs == Idle \in Handlers /\ Idle.pc = "idle" /\ Idle.seen = {}
  BY DEF Idle, Handlers

LEMMA InitInv == Init => IInv
  <1> SUFFICES ASSUME Init PROVE IInv
    OBVIOUS
  <1>1. /\ td = [i \in DOMAIN Pipes |-> "active"]
        /\ report = [keys |-> {}, shift |-> FALSE] /\ touch = FALSE /\ sts = {} /\ handler = Idle
        /\ mouse = FALSE /\ prev = {} /\ caps = FALSE /\ ring = 0
        /\ editor = [line |-> <<>>, pos |-> 0, history |-> [i \in 1..HistMax |-> <<>>], count |-> 0,
                     entered |-> <<>>]
        /\ due = [k \in Keys \cup {Left} |-> 0]
    BY DEF Init
  <1>2. td = [i \in 1..2 |-> "active"]
    BY <1>1, PipesAre
  <1>3. editor \in Editors /\ Edited(editor)
    <2> DEFINE h == [i \in 1..HistMax |-> <<>>]
    <2>1. h \in [1..HistMax -> Lines] /\ <<>> \in Seq(Lines) /\ <<>> \in Lines
      BY EmptyLine, EmptySeq
    <2>2. Gap(h, <<>>, 0) /\ 0 \in 0..HistMax - 1 /\ 0 <= HistMax
      BY Consts, EmptyLine DEF Gap
    <2>3. Kept(h, <<>>)
      BY <2>2, EmptyLine DEF Kept
    <2>4. /\ editor.line = <<>> /\ editor.pos = 0 /\ editor.history = h /\ editor.count = 0
          /\ editor.entered = <<>>
      BY <1>1
    <2>5. editor \in Editors
      BY <1>1, <2>1 DEF Editors
    <2> HIDE DEF h
    <2> QED
      BY <2>3, <2>4, <2>5, EmptyLine, Consts DEF Edited
  <1>4. [ring |-> ring, editor |-> editor] \in Sound
    BY <1>1, <1>3, Consts DEF Sound
  <1>5. Types
    BY <1>1, <1>2, <1>4, IdleIs DEF Types, KeySets
  <1>6. Position /\ Looked
    BY <1>1, <1>2, IdleIs DEF Position, Looked
  <1>7. Told
    BY <1>1, <1>2, PipesAre, Consts DEF Told
  <1> QED
    BY <1>5, <1>6, <1>7 DEF IInv, Running

\* A transfer ends, and raises what the handler will come for.
LEMMA EndsStep ==
  ASSUME Running, NEW i \in 1..2, NEW how \in {"done", "stalled"}, NEW bits \in SUBSET Bits,
         "int" \in bits, Ends(i, how, bits)
  PROVE  /\ td' \in [1..2 -> {"active", "done", "stalled"}] /\ sts' \in SUBSET Bits
         /\ td[i] = "active" /\ td'[i] = how /\ \A j \in 1..2 : j # i => td'[j] = td[j]
         /\ handler' = handler /\ Position' /\ Looked'
  <1>1. td[i] = "active" /\ td' = [td EXCEPT ![i] = how] /\ sts' = sts \cup bits /\ handler' = handler
    BY DEF Ends
  <1>2. "int" \in sts'
    BY <1>1
  <1> QED
    BY <1>1, <1>2 DEF Running, Types, Position, Looked, Awaited

LEMMA ReportIs ==
  ASSUME NEW r \in Reports PROVE r \in [keys : KeySets, shift : BOOLEAN]
  BY ConsoleAssumption DEF Reports, Report, KeySets

LEMMA TellsStep ==
  ASSUME NEW r \in Reports, Tells(r)
  PROVE  (Running => Running') /\ (IInv => IInv')
  <1>1. /\ Ends(Keyboard, "done", {"int"}) /\ report' = r
        /\ due' = [k \in DOMAIN due |-> IF k \in r.keys \ report.keys THEN due[k] + 1 ELSE due[k]]
        /\ UNCHANGED <<tabletVars, prev, caps, ring, editor>>
    BY DEF Tells
  <1>2. {"int"} \in SUBSET Bits
    BY DEF Bits
  <1>3. r \in [keys : KeySets, shift : BOOLEAN]
    BY ReportIs
  <1>4. ASSUME Running
        PROVE  /\ Running' /\ td[Keyboard] = "active" /\ td'[Keyboard] = "done"
               /\ td'[Tablet] = td[Tablet]
    <2>1. /\ td' \in [1..2 -> {"active", "done", "stalled"}] /\ sts' \in SUBSET Bits
          /\ td[Keyboard] = "active" /\ td'[Keyboard] = "done" /\ td'[Tablet] = td[Tablet]
          /\ handler' = handler /\ Position' /\ Looked'
      BY <1>1, <1>2, <1>4, EndsStep, PipesAre
    <2>2. Types'
      BY <1>1, <1>3, <1>4, <2>1 DEF Running, Types, tabletVars
    <2> QED
      BY <2>1, <2>2 DEF Running
  <1>5. ASSUME IInv PROVE Told'
    <2>1. Running /\ Told
      BY <1>5 DEF IInv
    <2>2. prev = report.keys /\ td'[Keyboard] = "done" /\ td'[Tablet] = td[Tablet]
      BY <1>4, <2>1 DEF Told
    <2>3. Left \notin r.keys
      BY <1>3, Consts DEF KeySets
    <2>4. due' = [k \in Keys \cup {Left} |->
                    IF k = Left THEN IF touch /\ ~mouse THEN 1 ELSE 0
                    ELSE IF k \in r.keys \ prev THEN 1 ELSE 0]
      BY <1>1, <2>1, <2>2, <2>3 DEF Told
    <2> QED
      BY <1>1, <2>1, <2>2, <2>4 DEF Told, tabletVars
  <1> QED
    BY <1>4, <1>5 DEF IInv

LEMMA MovesStep ==
  ASSUME NEW left \in BOOLEAN, Moves(left)
  PROVE  (Running => Running') /\ (IInv => IInv')
  <1>1. /\ Ends(Tablet, "done", {"int"}) /\ touch' = left
        /\ due' = [due EXCEPT ![Left] = IF left /\ ~touch THEN due[Left] + 1 ELSE due[Left]]
        /\ UNCHANGED <<mouse, keyboardVars>>
    BY DEF Moves
  <1>2. {"int"} \in SUBSET Bits
    BY DEF Bits
  <1>3. ASSUME Running
        PROVE  /\ Running' /\ td[Tablet] = "active" /\ td'[Tablet] = "done"
               /\ td'[Keyboard] = td[Keyboard]
    <2>1. /\ td' \in [1..2 -> {"active", "done", "stalled"}] /\ sts' \in SUBSET Bits
          /\ td[Tablet] = "active" /\ td'[Tablet] = "done" /\ td'[Keyboard] = td[Keyboard]
          /\ handler' = handler /\ Position' /\ Looked'
      BY <1>1, <1>2, <1>3, EndsStep, PipesAre
    <2>2. Types'
      BY <1>1, <1>3, <2>1 DEF Running, Types, keyboardVars
    <2> QED
      BY <2>1, <2>2 DEF Running
  <1>4. ASSUME IInv PROVE Told'
    <2>1. Running /\ Told
      BY <1>4 DEF IInv
    <2>2. td[Tablet] = "active" /\ td'[Tablet] = "done" /\ td'[Keyboard] = td[Keyboard]
      BY <1>3, <2>1
    <2>3. mouse = touch
      BY <2>1, <2>2 DEF Told
    <2>4. due' = [k \in Keys \cup {Left} |->
                    IF k = Left THEN IF left /\ ~mouse THEN 1 ELSE 0
                    ELSE IF k \in report.keys \ prev THEN 1 ELSE 0]
      <3>1. due[Left] = 0
        BY <2>1, <2>3 DEF Told
      <3>2. due' = [due EXCEPT ![Left] = IF left /\ ~mouse THEN 1 ELSE 0]
        BY <1>1, <2>3, <3>1
      <3> QED
        BY <2>1, <3>2 DEF Told
    <2> QED
      BY <1>1, <2>1, <2>2, <2>4 DEF Told, keyboardVars
  <1> QED
    BY <1>3, <1>4 DEF IInv

LEMMA FailsStep ==
  ASSUME Fails PROVE (Running => Running') /\ (IInv => IInv')
  <1>1. /\ Ends(Tablet, "stalled", {"int", "error"})
        /\ UNCHANGED <<tabletVars, keyboardVars, due>>
    BY DEF Fails
  <1>2. {"int", "error"} \in SUBSET Bits
    BY DEF Bits
  <1>3. ASSUME Running
        PROVE  /\ Running' /\ td[Tablet] = "active" /\ td'[Tablet] = "stalled"
               /\ td'[Keyboard] = td[Keyboard]
    <2>1. /\ td' \in [1..2 -> {"active", "done", "stalled"}] /\ sts' \in SUBSET Bits
          /\ td[Tablet] = "active" /\ td'[Tablet] = "stalled" /\ td'[Keyboard] = td[Keyboard]
          /\ handler' = handler /\ Position' /\ Looked'
      BY <1>1, <1>2, <1>3, EndsStep, PipesAre
    <2>2. Types'
      BY <1>1, <1>3, <2>1 DEF Running, Types, tabletVars, keyboardVars
    <2> QED
      BY <2>1, <2>2 DEF Running
  <1>4. ASSUME IInv PROVE Told'
    BY <1>1, <1>3, <1>4 DEF IInv, Told, tabletVars, keyboardVars
  <1> QED
    BY <1>3, <1>4 DEF IInv

LEMMA ReadStatusStep ==
  ASSUME ReadStatus PROVE (Running => Running') /\ (IInv => IInv')
  <1>1. /\ handler = Idle /\ handler' = [pc |-> "clear", seen |-> sts, at |-> 0]
        /\ UNCHANGED <<td, sts, tabletVars, keyboardVars, due>>
    BY DEF ReadStatus
  <1>2. ASSUME Running PROVE Running'
    <2>1. sts \in SUBSET Bits
      BY <1>2 DEF Running, Types
    <2>2. handler' \in Handlers /\ handler'.pc = "clear" /\ handler'.seen = sts
      BY <1>1, <2>1 DEF Handlers
    <2>3. Types'
      BY <1>1, <1>2, <2>2 DEF Running, Types, tabletVars, keyboardVars
    <2>4. Position' /\ Looked'
      BY <1>1, <1>2, <2>2, IdleIs DEF Running, Position, Looked, Awaited
    <2> QED
      BY <2>3, <2>4 DEF Running
  <1>3. ASSUME IInv PROVE Told'
    BY <1>1, <1>3 DEF IInv, Told, tabletVars, keyboardVars
  <1> QED
    BY <1>2, <1>3 DEF IInv

LEMMA ClearStatusStep ==
  ASSUME ClearStatus PROVE (Running => Running') /\ (IInv => IInv')
  <1>1. /\ handler.pc = "clear" /\ sts' = sts \ handler.seen
        /\ handler' = IF "int" \in handler.seen THEN [handler EXCEPT !.pc = "scan", !.at = 1] ELSE Idle
        /\ UNCHANGED <<td, tabletVars, keyboardVars, due>>
    BY DEF ClearStatus
  <1>2. ASSUME Running PROVE Running'
    <2>1. /\ handler \in Handlers /\ sts \in SUBSET Bits
          /\ \A i \in 1..2 : td[i] # "active" => "int" \in sts \/ "int" \in handler.seen
      BY <1>1, <1>2 DEF Running, Types, Looked, Awaited
    <2>2. CASE "int" \in handler.seen
      <3>1. /\ handler' \in Handlers /\ handler'.pc = "scan" /\ handler'.at = 1
            /\ "int" \in handler'.seen
        <4>1. handler' = [handler EXCEPT !.pc = "scan", !.at = 1]
          BY <1>1, <2>2
        <4>2. 1 \in 0..2 /\ "scan" \in {"idle", "clear", "scan"}
          OBVIOUS
        <4> QED
          BY <2>1, <2>2, <4>1, <4>2 DEF Handlers
      <3>2. Types'
        BY <1>1, <1>2, <3>1 DEF Running, Types, tabletVars, keyboardVars
      <3>3. Position' /\ Looked'
        BY <1>1, <3>1 DEF Position, Looked, Awaited
      <3> QED
        BY <3>2, <3>3 DEF Running
    <2>3. CASE "int" \notin handler.seen
      <3>1. handler' \in Handlers /\ handler'.pc = "idle" /\ handler'.seen = {}
        BY <1>1, <2>3, IdleIs
      <3>2. Types'
        BY <1>1, <1>2, <3>1 DEF Running, Types, tabletVars, keyboardVars
      <3>3. Position'
        BY <3>1 DEF Position
      <3>4. Looked'
        BY <1>1, <2>1, <2>3 DEF Looked, Awaited
      <3> QED
        BY <3>2, <3>3, <3>4 DEF Running
    <2> QED
      BY <2>2, <2>3
  <1>3. ASSUME IInv PROVE Told'
    BY <1>1, <1>3 DEF IInv, Told, tabletVars, keyboardVars
  <1> QED
    BY <1>2, <1>3 DEF IInv

\* What on_keyboard does with the report that it is given.
LEMMA KeyboardTypes ==
  ASSUME Types, OnKeyboard(report)
  PROVE  /\ caps' \in BOOLEAN /\ prev' = report.keys
         /\ [ring |-> ring', editor |-> editor'] \in Sound
         /\ due' = [k \in DOMAIN due |-> IF k \in (report.keys \ prev) \cap Keys THEN due[k] - 1 ELSE due[k]]
  <1> DEFINE new == Pressed(report.keys)
             lock == IF Caps \in new THEN ~caps ELSE caps
             u == report.shift \/ lock
             S == new \ {Caps}
             b == [ring |-> ring, editor |-> editor]
  <1>1. PICK order \in SetToSeqs(S) :
          /\ caps' = lock
          /\ ring' = FoldLeft(LAMBDA t, k : Typed(t, k, u), b, order).ring
          /\ editor' = FoldLeft(LAMBDA t, k : Typed(t, k, u), b, order).editor
          /\ prev' = report.keys
          /\ due' = [k \in DOMAIN due |-> IF k \in new THEN due[k] - 1 ELSE due[k]]
    BY DEF OnKeyboard
  <1>2. u \in BOOLEAN /\ lock \in BOOLEAN
    BY DEF Types
  <1>3. S \subseteq Keys /\ new = (report.keys \ prev) \cap Keys
    BY DEF Pressed
  <1>4. IsFiniteSet(S)
    <2>1. IsFiniteSet(Letters)
      BY ConsoleAssumption
    <2>2. IsFiniteSet({Caps, Return, Back})
      <3>1. IsFiniteSet({Caps})
        BY FS_Singleton
      <3>2. IsFiniteSet({Caps} \cup {Return})
        BY <3>1, FS_AddElement
      <3>3. IsFiniteSet(({Caps} \cup {Return}) \cup {Back})
        BY <3>2, FS_AddElement
      <3>4. {Caps, Return, Back} = ({Caps} \cup {Return}) \cup {Back}
        OBVIOUS
      <3> QED
        BY <3>3, <3>4
    <2>3. IsFiniteSet(Keys)
      BY <2>1, <2>2, FS_Union DEF Keys
    <2> QED
      BY <1>3, <2>3, FS_Subset
  <1>5. PICK n \in Nat : n = Cardinality(S)
    BY <1>4, FS_CardinalityType
  <1>6. order \in [1..n -> Keys]
    <2>1. order \in [1..n -> S]
      BY <1>1, <1>5 DEF SetToSeqs
    <2> QED
      BY <1>3, <2>1
  <1>7. b \in Sound
    BY DEF Types
  <1> HIDE DEF u, b, S, new, lock
  <1>8. FoldLeft(LAMBDA t, k : Typed(t, k, u), b, order) \in Sound
    BY <1>2, <1>6, <1>7, KeysTyped
  <1>9. [ring |-> ring', editor |-> editor'] \in Sound
    <2>1. PICK x \in Sound : x = FoldLeft(LAMBDA t, k : Typed(t, k, u), b, order)
      BY <1>8
    <2>2. ring' = x.ring /\ editor' = x.editor
      BY <1>1, <2>1
    <2>3. x.ring \in 0..BufSize - 1 /\ x.editor \in Editors /\ Edited(x.editor)
      BY DEF Sound
    <2> QED
      BY <2>2, <2>3 DEF Sound
  <1> QED
    BY <1>1, <1>2, <1>3, <1>9

\* The handler goes on after pipe i, which has been begun anew if it had ended.
LEMMA ScanMoves ==
  ASSUME Running, Scan, NEW i, i = handler.at
  PROVE  /\ i \in 1..2
         /\ td' \in [1..2 -> {"active", "done", "stalled"}]
         /\ td'[i] = "active" /\ \A j \in 1..2 : j # i => td'[j] = td[j]
         /\ handler' \in Handlers /\ Position' /\ Looked'
         /\ UNCHANGED <<sts, report, touch>>
  <1>1. /\ handler.pc = "scan"
        /\ handler' = IF i < Len(Pipes) THEN [handler EXCEPT !.at = i + 1] ELSE Idle
        /\ td' = IF td[i] = "active" THEN td ELSE [td EXCEPT ![i] = "active"]
        /\ UNCHANGED <<sts, report, touch>>
    BY DEF Scan, Rearmed
  <1>2. /\ i \in 1..2 /\ handler \in Handlers /\ "int" \in handler.seen
        /\ td \in [1..2 -> {"active", "done", "stalled"}]
    BY <1>1 DEF Running, Types, Position
  <1>3. /\ td' \in [1..2 -> {"active", "done", "stalled"}]
        /\ td'[i] = "active" /\ \A j \in 1..2 : j # i => td'[j] = td[j]
    BY <1>1, <1>2
  <1>4. \A j \in 1..2 : td[j] # "active" => "int" \in sts \/ j >= i
    BY <1>1 DEF Running, Looked, Awaited
  <1>5. CASE i = 1
    <2>1. handler' = [handler EXCEPT !.at = 2]
      BY <1>1, <1>5, PipesAre
    <2>2. handler' \in Handlers /\ handler'.pc = "scan" /\ handler'.at = 2 /\ "int" \in handler'.seen
      BY <1>1, <1>2, <2>1 DEF Handlers
    <2>3. Position'
      BY <2>2 DEF Position
    <2>4. \A j \in 1..2 : td'[j] # "active" => j >= 2
      BY <1>3, <1>5
    <2>5. Looked'
      BY <2>2, <2>4 DEF Looked, Awaited
    <2> QED
      BY <1>1, <1>2, <1>3, <2>2, <2>3, <2>5
  <1>6. CASE i = 2
    <2>1. handler' = Idle
      BY <1>1, <1>6, PipesAre
    <2>2. handler' \in Handlers /\ Position'
      BY <2>1, IdleIs DEF Position
    <2>3. \A j \in 1..2 : td'[j] # "active" => "int" \in sts
      BY <1>3, <1>4, <1>6
    <2>4. Looked'
      BY <1>1, <2>3 DEF Looked, Awaited
    <2> QED
      BY <1>1, <1>2, <1>3, <2>2, <2>4
  <1> QED
    BY <1>2, <1>5, <1>6

LEMMA ScanRuns == ASSUME Running, Scan PROVE Running'
  <1>1. PICK i : i = handler.at
    OBVIOUS
  <1>2. /\ td' \in [1..2 -> {"active", "done", "stalled"}]
        /\ handler' \in Handlers /\ Position' /\ Looked'
        /\ UNCHANGED <<sts, report, touch>>
    BY <1>1, ScanMoves
  <1>3. Types
    BY DEF Running
  <1>4. CASE OnKeyboard(report) /\ UNCHANGED mouse
    <2>1. caps' \in BOOLEAN /\ prev' \in KeySets /\ [ring |-> ring', editor |-> editor'] \in Sound
      BY <1>3, <1>4, KeyboardTypes DEF Types
    <2>2. Types'
      BY <1>2, <1>3, <1>4, <2>1 DEF Types
    <2> QED
      BY <1>2, <2>2 DEF Running
  <1>5. CASE OnTablet(touch) /\ UNCHANGED <<prev, caps, ring, editor>>
    <2>1. Types'
      BY <1>2, <1>3, <1>5 DEF Types, OnTablet
    <2> QED
      BY <1>2, <2>1 DEF Running
  <1>6. CASE UNCHANGED <<mouse, prev, caps, ring, editor, due>>
    <2>1. Types'
      BY <1>2, <1>3, <1>6 DEF Types
    <2> QED
      BY <1>2, <2>1 DEF Running
  <1> QED
    BY <1>4, <1>5, <1>6 DEF Scan

\* A pipe that has ended is handed on once, unless it failed.
LEMMA ScanTells ==
  ASSUME Received >= ReportSize, IInv, Scan PROVE Told'
  <1>1. PICK i : i = handler.at
    OBVIOUS
  <1>2. Running /\ Told /\ Types
    BY DEF IInv, Running
  <1>3. /\ i \in 1..2
        /\ td' \in [1..2 -> {"active", "done", "stalled"}]
        /\ td'[i] = "active" /\ \A j \in 1..2 : j # i => td'[j] = td[j]
        /\ UNCHANGED <<sts, report, touch>>
    BY <1>1, <1>2, ScanMoves
  <1>4. td \in [1..2 -> {"active", "done", "stalled"}]
    BY <1>2 DEF Types
  <1>5. CASE td[i] = "done" /\ i = Keyboard /\ OnKeyboard(report) /\ UNCHANGED mouse
    <2>1. /\ prev' = report.keys
          /\ due' = [k \in DOMAIN due |-> IF k \in (report.keys \ prev) \cap Keys THEN due[k] - 1 ELSE due[k]]
      BY <1>2, <1>5, KeyboardTypes
    <2>2. due' = [k \in Keys \cup {Left} |->
                    IF k = Left THEN IF touch /\ ~mouse THEN 1 ELSE 0 ELSE 0]
      BY <1>2, <2>1, Consts DEF Told
    <2>3. due' = [k \in Keys \cup {Left} |->
                    IF k = Left THEN IF touch /\ ~mouse THEN 1 ELSE 0
                    ELSE IF k \in report.keys \ prev' THEN 1 ELSE 0]
      BY <2>1, <2>2
    <2>4. td'[Keyboard] = "active" /\ td'[Tablet] = td[Tablet]
      BY <1>3, <1>5, PipesAre
    <2> QED
      BY <1>2, <1>3, <1>5, <2>1, <2>3, <2>4 DEF Told
  <1>6. CASE td[i] = "done" /\ i = Tablet /\ OnTablet(touch) /\ UNCHANGED <<prev, caps, ring, editor>>
    <2>1. mouse' = touch /\ due' = [due EXCEPT ![Left] = IF touch /\ ~mouse THEN due[Left] - 1 ELSE due[Left]]
      BY <1>6 DEF OnTablet
    <2>2. due[Left] = IF touch /\ ~mouse THEN 1 ELSE 0
      BY <1>2 DEF Told
    <2>3. due' = [due EXCEPT ![Left] = 0]
      <3>1. touch \in BOOLEAN /\ mouse \in BOOLEAN
        BY <1>2 DEF Types
      <3>2. CASE touch /\ ~mouse
        BY <2>1, <2>2, <3>2
      <3>3. CASE ~(touch /\ ~mouse)
        BY <2>1, <2>2, <3>3
      <3> QED
        BY <3>2, <3>3
    <2>4. due' = [k \in Keys \cup {Left} |->
                    IF k = Left THEN IF touch /\ ~mouse' THEN 1 ELSE 0
                    ELSE IF k \in report.keys \ prev THEN 1 ELSE 0]
      BY <1>2, <2>1, <2>3 DEF Told
    <2>5. td'[Tablet] = "active" /\ td'[Keyboard] = td[Keyboard]
      BY <1>3, <1>6, PipesAre
    <2> QED
      BY <1>2, <1>3, <1>6, <2>1, <2>4, <2>5 DEF Told
  <1>7. CASE td[i] # "done" /\ UNCHANGED <<mouse, prev, caps, ring, editor, due>>
    <2>1. CASE i = Keyboard
      <3>1. td[Keyboard] = "active" /\ td'[Keyboard] = "active" /\ td'[Tablet] = td[Tablet]
        BY <1>2, <1>3, <1>4, <1>7, <2>1, PipesAre DEF Told
      <3> QED
        BY <1>2, <1>3, <1>7, <3>1 DEF Told
    <2>2. CASE i = Tablet
      <3>1. td[Tablet] # "done" /\ td'[Tablet] = "active" /\ td'[Keyboard] = td[Keyboard]
        BY <1>3, <1>7, <2>2, PipesAre
      <3> QED
        BY <1>2, <1>3, <1>7, <3>1 DEF Told
    <2> QED
      BY <1>3, <2>1, <2>2, PipesAre
  <1>8. Received \in Int /\ ReportSize \in Int
    BY ConsoleAssumption DEF Received
  <1>9. \/ td[i] = "done" /\ i = Keyboard /\ OnKeyboard(report) /\ UNCHANGED mouse
        \/ td[i] = "done" /\ i = Tablet /\ OnTablet(touch) /\ UNCHANGED <<prev, caps, ring, editor>>
        \/ td[i] # "done" /\ UNCHANGED <<mouse, prev, caps, ring, editor, due>>
    BY <1>1, <1>8 DEF Scan
  <1> QED
    BY <1>5, <1>6, <1>7, <1>9

\* Whatever the reports are long, nothing that has ended is forgotten, and what is typed is sound.
LEMMA RunningStep == ASSUME Running, [Next]_vars PROVE Running'
  <1>1. ASSUME NEW r \in Reports, Tells(r) PROVE Running'
    BY <1>1, TellsStep
  <1>2. ASSUME NEW left \in BOOLEAN, Moves(left) PROVE Running'
    BY <1>2, MovesStep
  <1>3. CASE Fails \/ ReadStatus \/ ClearStatus
    BY <1>3, FailsStep, ReadStatusStep, ClearStatusStep
  <1>4. CASE Scan
    BY <1>4, ScanRuns
  <1>5. CASE UNCHANGED vars
    BY <1>5 DEF vars, tabletVars, keyboardVars, Running, Types, Position, Looked, Awaited
  <1> QED
    BY <1>1, <1>2, <1>3, <1>4, <1>5 DEF Next

LEMMA StepInv == ASSUME Received >= ReportSize, IInv, [Next]_vars PROVE IInv'
  <1>1. ASSUME NEW r \in Reports, Tells(r) PROVE IInv'
    BY <1>1, TellsStep
  <1>2. ASSUME NEW left \in BOOLEAN, Moves(left) PROVE IInv'
    BY <1>2, MovesStep
  <1>3. CASE Fails \/ ReadStatus \/ ClearStatus
    BY <1>3, FailsStep, ReadStatusStep, ClearStatusStep
  <1>4. CASE Scan
    BY <1>4, ScanRuns, ScanTells DEF IInv
  <1>5. CASE UNCHANGED vars
    <2>1. Told'
      BY <1>5 DEF vars, tabletVars, keyboardVars, IInv, Told
    <2> QED
      BY <1>5, <2>1, RunningStep DEF IInv
  <1> QED
    BY <1>1, <1>2, <1>3, <1>4, <1>5 DEF Next

LEMMA TypesIn == Running => TypeOK
  <1> SUFFICES ASSUME Running PROVE TypeOK
    OBVIOUS
  <1>1. ring \in 0..BufSize - 1
    BY DEF Running, Types, Sound
  <1> QED
    BY <1>1, PipesAre DEF Running, Types, TypeOK, Handlers, Bits, KeySets

LEMMA RecentIn == Running => RecentLines
  <1> SUFFICES ASSUME Running PROVE RecentLines
    OBVIOUS
  <1>1. Edited(editor)
    BY DEF Running, Types, Sound
  <1>2. PICK gap \in 0..HistMax - 1 : Gap(editor.history, editor.entered, gap)
    BY <1>1 DEF Edited, Kept
  <1> QED
    BY <1>1, <1>2 DEF RecentLines, Edited, Gap

LEMMA TypedIn == IInv => TypedOnce
  <1> SUFFICES ASSUME IInv PROVE TypedOnce
    OBVIOUS
  <1>1. TypeOK
    BY TypesIn DEF IInv
  <1>2. \A i \in DOMAIN Pipes : td[i] # "active" => Awaited(i)
    BY PipesAre DEF IInv, Running, Looked
  <1>3. td[Keyboard] = "active" => \A k \in Keys : due[k] = 0
    BY Consts DEF IInv, Told
  <1>4. td[Tablet] # "done" => due[Left] = 0
    BY DEF IInv, Running, Types, Told
  <1> QED
    BY <1>1, <1>2, <1>3, <1>4 DEF TypedOnce

\* The history holds the last lines and the line fits its buffer, for any keys and sizes, in
\* whatever order reports, transfers that fail and interrupts come (code: terminal.cpp:249-299,
\* keyboard.cpp:68-107).
THEOREM HistoryKept == Spec => []RecentLines
  <1>1. Init => Running
    BY InitInv DEF IInv
  <1>2. Running /\ [Next]_vars => Running'
    BY RunningStep
  <1>3. Running => RecentLines
    BY RecentIn
  <1> QED
    BY <1>1, <1>2, <1>3, PTL DEF Spec

\* No transfer that ends is left lying, and each press is typed or clicks once, however reports
\* and interrupts fall together; if the keyboard's pipe asks for a whole report, which it does
\* for an endpoint of more than 8 bytes (code: uhci.cpp:310-315, :328-354, keyboard.cpp:68-107,
\* mouse.cpp:29-45).
THEOREM PressesTypedOnce == Received >= ReportSize => (Spec => []TypedOnce)
  <1> SUFFICES ASSUME Received >= ReportSize PROVE Spec => []TypedOnce
    OBVIOUS
  <1>1. Init => IInv
    BY InitInv
  <1>2. IInv /\ [Next]_vars => IInv'
    BY StepInv
  <1>3. IInv => TypedOnce
    BY TypedIn
  <1> QED
    BY <1>1, <1>2, <1>3, PTL DEF Spec
================================================================================
