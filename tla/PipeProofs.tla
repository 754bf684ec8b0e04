------------------------------- MODULE PipeProofs -------------------------------
(***************************************************************************)
(* Proofs about module Pipe, for any writers and readers, any size of the  *)
(* buffer and any lengths.                                                 *)
(*                                                                         *)
(* The tests before cli are stale when the copies run: a writer may find   *)
(* less room than it saw, and a reader nothing at all.  IInv says what is  *)
(* left of them: a writer at its copy has bytes to write, and a reader     *)
(* that is about to leave has seen the pipe closed, or somebody else has   *)
(* taken what it saw and is still there to read on.                        *)
(***************************************************************************)
EXTENDS Pipe, FiniteSetTheorems, FunctionTheorems, WellFoundedInduction, TLAPS

-----------------------------------------------------------------------------
(* The ring                                                                 *)

\* The remainder of what is less than twice the divisor.
LEMMA Remainder ==
  ASSUME NEW n \in Nat \ {0}, NEW x \in 0 .. 2 * n - 1
  PROVE  x % n = IF x < n THEN x ELSE x - n
  <1> DEFINE q == x \div n
             r == x % n
  <1>1. q \in Nat /\ r \in 0 .. n - 1 /\ x = n * q + r
    OBVIOUS
  <1> HIDE DEF q, r
  <1>2. q = 0 \/ q = 1
    <2>1. q >= 2 => n * q >= n * 2
      BY <1>1
    <2> QED
      BY <1>1, <2>1
  <1> QED
    BY <1>1, <1>2 DEF r

LEMMA WrapOnce ==
  ASSUME NEW x \in 0 .. 2 * PIPE_BUF_SIZE - 1
  PROVE  /\ Wrap(x) \in Places
         /\ Wrap(x) = IF x < PIPE_BUF_SIZE THEN x ELSE x - PIPE_BUF_SIZE
  <1>1. PIPE_BUF_SIZE \in Nat \ {0}
    BY PipeAssumption
  <1>2. x % PIPE_BUF_SIZE = IF x < PIPE_BUF_SIZE THEN x ELSE x - PIPE_BUF_SIZE
    BY <1>1, Remainder
  <1>3. Wrap(x) = IF x < PIPE_BUF_SIZE THEN x ELSE x - PIPE_BUF_SIZE
    BY <1>2, Zenon DEF Wrap
  <1> QED
    BY <1>1, <1>3 DEF Places

LEMMA WrapIs ==
  ASSUME NEW p \in Places, NEW k \in 0 .. PIPE_BUF_SIZE
  PROVE  /\ Wrap(p + k) \in Places
         /\ Wrap(p + k) = IF p + k < PIPE_BUF_SIZE THEN p + k ELSE p + k - PIPE_BUF_SIZE
  <1>1. p + k \in 0 .. 2 * PIPE_BUF_SIZE - 1
    BY PipeAssumption DEF Places
  <1>2. p \in Int /\ k \in Int /\ PIPE_BUF_SIZE \in Int
    BY PipeAssumption DEF Places
  <1> QED
    BY <1>1, <1>2, WrapOnce

LEMMA BeyondIs ==
  ASSUME NEW i \in Places, NEW p \in Places
  PROVE  /\ Beyond(i, p) \in Places
         /\ Beyond(i, p) = IF p <= i THEN i - p ELSE i - p + PIPE_BUF_SIZE
  <1>1. i - p + PIPE_BUF_SIZE \in 0 .. 2 * PIPE_BUF_SIZE - 1
    BY PipeAssumption DEF Places
  <1>4. p \in Int /\ i \in Int /\ PIPE_BUF_SIZE \in Int
    BY PipeAssumption DEF Places
  <1>2. Beyond(i, p) = Wrap(i - p + PIPE_BUF_SIZE)
    BY DEF Beyond, Wrap
  <1>3. /\ Wrap(i - p + PIPE_BUF_SIZE) \in Places
        /\ Wrap(i - p + PIPE_BUF_SIZE) = IF i - p + PIPE_BUF_SIZE < PIPE_BUF_SIZE
              THEN i - p + PIPE_BUF_SIZE ELSE i - p + PIPE_BUF_SIZE - PIPE_BUF_SIZE
    BY <1>1, <1>4, WrapOnce
  <1> QED
    BY <1>2, <1>3, PipeAssumption DEF Places

\* Going on from a place that has been reached.
LEMMA WrapWrap ==
  ASSUME NEW p \in Places, NEW n \in Nat, NEW k \in Nat, n + k <= PIPE_BUF_SIZE
  PROVE  Wrap(Wrap(p + n) + k) = Wrap(p + (n + k))
  <1>1. n \in 0 .. PIPE_BUF_SIZE /\ k \in 0 .. PIPE_BUF_SIZE /\ n + k \in 0 .. PIPE_BUF_SIZE
    BY PipeAssumption
  <1>2. Wrap(p + n) \in Places
    BY <1>1, WrapIs
  <1>3. Wrap(Wrap(p + n) + k) = IF Wrap(p + n) + k < PIPE_BUF_SIZE THEN Wrap(p + n) + k
                                ELSE Wrap(p + n) + k - PIPE_BUF_SIZE
    BY <1>1, <1>2, WrapIs
  <1>4. Wrap(p + n) = IF p + n < PIPE_BUF_SIZE THEN p + n ELSE p + n - PIPE_BUF_SIZE
    BY <1>1, WrapIs
  <1>5. Wrap(p + (n + k)) = IF p + (n + k) < PIPE_BUF_SIZE THEN p + (n + k)
                            ELSE p + (n + k) - PIPE_BUF_SIZE
    BY <1>1, WrapIs
  <1> QED
    BY <1>1, <1>3, <1>4, <1>5, PipeAssumption DEF Places

\* Where a copy of n bytes that begins behind c bytes puts them, and where it does not.
LEMMA CopyPlaces ==
  ASSUME NEW p \in Places, NEW c \in Nat, NEW k \in Nat, NEW n \in Nat,
         c + n <= PIPE_BUF_SIZE, k < c + n
  PROVE  IF k < c THEN ~(Beyond(Wrap(p + k), Wrap(p + c)) < n)
         ELSE Beyond(Wrap(p + k), Wrap(p + c)) = k - c
  <1> DEFINE i == Wrap(p + k)
             q == Wrap(p + c)
  <1>1. k \in 0 .. PIPE_BUF_SIZE /\ c \in 0 .. PIPE_BUF_SIZE /\ k < PIPE_BUF_SIZE
    BY PipeAssumption
  <1>2. /\ i \in Places /\ i = IF p + k < PIPE_BUF_SIZE THEN p + k ELSE p + k - PIPE_BUF_SIZE
        /\ q \in Places /\ q = IF p + c < PIPE_BUF_SIZE THEN p + c ELSE p + c - PIPE_BUF_SIZE
    BY <1>1, WrapIs
  <1> HIDE DEF i, q
  <1>3. Beyond(i, q) = IF q <= i THEN i - q ELSE i - q + PIPE_BUF_SIZE
    BY <1>2, BeyondIs
  <1>4. IF k < c THEN ~(Beyond(i, q) < n) ELSE Beyond(i, q) = k - c
    BY <1>1, <1>2, <1>3, PipeAssumption DEF Places
  <1> QED
    BY <1>4 DEF i, q

-----------------------------------------------------------------------------
(* Counting                                                                 *)

LEMMA LeastNumber ==
  ASSUME NEW U, U \subseteq Nat, U # {}
  PROVE  \E u \in U : \A v \in U : u <= v
  <1>1. PICK u \in U : \A v \in U : ~(<<v, u>> \in OpToRel(<, Nat))
    BY NatLessThanWellFounded, WFMin
  <1>2. \A v \in U : ~(v < u)
    BY <1>1 DEF OpToRel
  <1> QED
    BY <1>2

\* A set of numbers behind a that leaves none out is as large as it goes far.
LEMMA Prefix ==
  ASSUME NEW a \in Nat, NEW b \in Nat, a <= b, NEW T, T \subseteq a + 1 .. b,
         \A t \in T, s \in a + 1 .. b : s < t => s \in T
  PROVE  /\ IsFiniteSet(T) /\ Cardinality(T) \in Nat /\ a + Cardinality(T) <= b
         /\ T = a + 1 .. a + Cardinality(T)
  <1> DEFINE U == (a + 1 .. b + 1) \ T
  <1>1. U \subseteq Nat /\ b + 1 \in U
    OBVIOUS
  <1>2. PICK u \in U : \A v \in U : u <= v
    BY <1>1, LeastNumber
  <1>3. T = a + 1 .. u - 1
    <2>1. ASSUME NEW t \in T PROVE t \in a + 1 .. u - 1
      <3>1. ~(u < t)
        BY <1>2
      <3> QED
        BY <1>2, <3>1
    <2>2. ASSUME NEW t \in a + 1 .. u - 1 PROVE t \in T
      BY <1>2
    <2> QED
      BY <2>1, <2>2
  <1>4. u \in a + 1 .. b + 1
    BY <1>2
  <1>5. IsFiniteSet(T) /\ Cardinality(T) = u - 1 - a
    <2>1. /\ IsFiniteSet(a + 1 .. u - 1)
          /\ Cardinality(a + 1 .. u - 1) = IF a + 1 > u - 1 THEN 0 ELSE u - 1 - (a + 1) + 1
      BY <1>4, FS_Interval
    <2> QED
      BY <1>3, <1>4, <2>1
  <1> QED
    BY <1>3, <1>4, <1>5

\* As many places as the numbers that one finds there.
LEMMA Numbered ==
  ASSUME NEW S, NEW T, IsFiniteSet(T), NEW f \in [S -> T],
         \A x, y \in S : f[x] = f[y] => x = y, \A t \in T : \E x \in S : f[x] = t
  PROVE  IsFiniteSet(S) /\ Cardinality(S) = Cardinality(T)
  <1>1. f \in Bijection(S, T)
    BY Fun_IsBij
  <1>2. ExistsBijection(T, S)
    BY <1>1, Fun_ExistsBij, Fun_ExistsBijSymmetric
  <1> QED
    BY <1>2, FS_Bijection

-----------------------------------------------------------------------------
(* The invariant                                                            *)

\* The places between read_pos and write_pos are the count ones in use.
Positions == write_pos = Wrap(read_pos + count)

Idle == ~used => \A t \in Threads : pc[t] = "gone"

\* A writer waits for room and copies only while it has bytes of its call to write, and leaves
\* when it has written all.
Writing ==
  \A w \in Writers :
    /\ pc[w] \in {"room", "copy"} => 0 < left[w] /\ left[w] <= todo[w]
    /\ pc[w] \in {"room", "copy", "out", "gone"}
    /\ used /\ pc[w] = "gone" => todo[w] = 0

\* A reader asks for at least one byte.
Reading == \A r \in Readers : pc[r] \in {"wait", "closed", "test", "take"} => len[r] > 0

Closing == write_closed => \A w \in Writers : pc[w] = "gone"

\* A reader that leaves unless it finds a byte now.
Leaving(r) == pc[r] = "gone" \/ (r \in waits /\ pc[r] \in {"test", "take"})

\* Nobody is left to read on only when the pipe is closed.
LastReader == used /\ count = 0 /\ (\A r \in Readers : Leaving(r)) => write_closed

Emptied == used /\ (\A r \in Readers : pc[r] = "gone") => count = 0

\* No more of w has been read than it has written.
Tally == used => \A w \in Writers : got[w] <= Total - todo[w]

IInv ==
  /\ TypeOK /\ Stream
  /\ Positions /\ Idle /\ Writing /\ Reading /\ Closing /\ LastReader /\ Emptied /\ Tally

Labels == {"out", "room", "copy", "wait", "closed", "test", "take", "gone"}

LEMMA GotoFacts ==
  ASSUME TypeOK, NEW t \in Threads, NEW l \in Labels, Goto(t, l)
  PROVE  /\ pc' \in [Threads -> Labels] /\ pc'[t] = l
         /\ \A s \in Threads : s # t => pc'[s] = pc[s]
  BY DEF TypeOK, Goto, Labels

\* A step that moves no byte, creates no pipe and closes none.
LEMMA NothingMoved ==
  ASSUME IInv, UNCHANGED <<used, buf, read_pos, write_pos, count, todo, got>>
  PROVE  Stream' /\ Positions' /\ Tally'
  <1>1. \A k : Nth(k)' = Nth(k)
    BY DEF Nth
  <1> QED
    BY <1>1 DEF IInv, Stream, Positions, Tally, Held, Bytes

LEMMA InitInv == Init => IInv
  <1> SUFFICES ASSUME Init PROVE IInv
    OBVIOUS
  <1>1. TypeOK
    <2>1. pc \in [Threads -> Labels]
      BY DEF Init, Labels
    <2>2. /\ todo \in [Writers -> 0 .. Total] /\ got \in [Writers -> 0 .. Total]
          /\ left \in [Writers -> 0 .. Total]
      BY PipeAssumption DEF Init
    <2>3. lives \in 0 .. Lives
      BY PipeAssumption DEF Init
    <2>4. 0 \in Places /\ 0 \in 0 .. PIPE_BUF_SIZE
      BY PipeAssumption DEF Places
    <2>5. buf \in [Places -> Bytes \cup {NoByte}] /\ len \in [Readers -> Nat]
      BY DEF Init
    <2> QED
      BY <2>1, <2>2, <2>3, <2>4, <2>5 DEF Init, TypeOK, Labels
  <1>2. Wrap(0 + 0) = 0
    <2>1. 0 \in Places /\ 0 \in 0 .. PIPE_BUF_SIZE /\ PIPE_BUF_SIZE > 0
      BY PipeAssumption DEF Places
    <2> QED
      BY <2>1, WrapIs
  <1>3. Writing /\ Reading /\ Idle
    BY PipeAssumption DEF Init, Writing, Reading, Idle, Threads
  <1> QED
    BY <1>1, <1>2, <1>3 DEF Init, IInv, Stream, Positions, Closing, LastReader, Emptied, Tally

LEMMA CreateStep == ASSUME IInv, Create PROVE IInv'
  <1>0. \A w \in Writers : w \in Threads
    BY DEF Threads
  <1>1. TypeOK'
    <2>1. pc' \in [Threads -> Labels]
      BY DEF Create, Labels
    <2>2. todo' \in [Writers -> 0 .. Total] /\ got' \in [Writers -> 0 .. Total]
      BY PipeAssumption DEF Create
    <2>3. lives' \in 0 .. Lives
      BY PipeAssumption DEF IInv, TypeOK, Create
    <2>4. 0 \in Places /\ 0 \in 0 .. PIPE_BUF_SIZE
      BY PipeAssumption DEF Places
    <2> QED
      BY <2>1, <2>2, <2>3, <2>4 DEF IInv, TypeOK, Create, Labels
  <1>2. Positions'
    <2>1. 0 \in Places /\ 0 \in 0 .. PIPE_BUF_SIZE /\ PIPE_BUF_SIZE > 0
      BY PipeAssumption DEF Places
    <2>2. Wrap(0 + 0) = 0
      BY <2>1, WrapIs
    <2> QED
      BY <2>2 DEF Create, Positions
  <1>3. Stream'
    BY PipeAssumption DEF Create, Stream, Held
  <1>4. Idle' /\ Closing'
    BY DEF Create, Idle, Closing
  <1>5. Writing' /\ Reading'
    BY PipeAssumption DEF Create, Writing, Reading, Threads
  <1>6. LastReader' /\ Emptied'
    <2>1. PICK r \in Readers : TRUE
      BY PipeAssumption
    <2>2. r \in Threads
      BY DEF Threads
    <2> QED
      BY <2>1, <2>2 DEF Create, LastReader, Emptied, Leaving
  <1>7. Tally'
    BY PipeAssumption DEF Create, Tally
  <1> QED
    BY <1>1, <1>2, <1>3, <1>4, <1>5, <1>6, <1>7 DEF IInv

LEMMA DestroyStep == ASSUME IInv, Destroy PROVE IInv'
  <1>1. TypeOK'
    BY DEF IInv, TypeOK, Destroy, threadVars, tallies
  <1>2. Stream' /\ Tally' /\ LastReader' /\ Emptied' /\ Positions'
    BY DEF IInv, Destroy, Stream, Tally, LastReader, Emptied, Positions
  <1>3. Idle' /\ Writing' /\ Reading' /\ Closing'
    BY DEF IInv, Destroy, Idle, Writing, Reading, Closing, threadVars, tallies
  <1> QED
    BY <1>1, <1>2, <1>3 DEF IInv

LEMMA CloseWriteStep == ASSUME IInv, NEW w \in Writers, CloseWrite(w) PROVE IInv'
  <1>0. w \in Threads /\ w \notin Readers
    BY PipeAssumption DEF Threads
  <1>1. /\ pc' \in [Threads -> Labels] /\ pc'[w] = "gone"
        /\ \A s \in Threads : s # w => pc'[s] = pc[s]
    BY <1>0, GotoFacts DEF CloseWrite, IInv, Labels
  <1>2. TypeOK'
    BY <1>1 DEF IInv, TypeOK, CloseWrite, Labels, tallies
  <1>3. Stream' /\ Positions' /\ Tally'
    BY NothingMoved DEF CloseWrite, tallies
  <1>4. Idle'
    BY <1>0, <1>1 DEF IInv, Idle, CloseWrite
  <1>5. Writing'
    BY <1>1 DEF IInv, Writing, CloseWrite, Threads, tallies
  <1>6. Reading' /\ Emptied'
    BY <1>0, <1>1 DEF IInv, Reading, Emptied, CloseWrite, Threads
  <1>7. Closing'
    BY <1>1 DEF CloseWrite, Closing, Threads
  <1>8. LastReader'
    <2>1. ~write_closed
      BY DEF IInv, Closing, CloseWrite
    <2>2. \A r \in Readers : Leaving(r)' <=> Leaving(r)
      BY <1>0, <1>1 DEF Leaving, CloseWrite, Threads
    <2> QED
      BY <2>1, <2>2 DEF IInv, LastReader, CloseWrite
  <1> QED
    BY <1>2, <1>3, <1>4, <1>5, <1>6, <1>7, <1>8 DEF IInv

LEMMA WriteCallStep == ASSUME IInv, NEW w \in Writers, WriteCall(w) PROVE IInv'
  <1>0. w \in Threads /\ w \notin Readers /\ todo[w] \in Nat /\ todo[w] <= Total
    BY PipeAssumption DEF Threads, IInv, TypeOK
  <1>1. /\ pc' \in [Threads -> Labels] /\ pc'[w] = "room"
        /\ \A s \in Threads : s # w => pc'[s] = pc[s]
    BY <1>0, GotoFacts DEF WriteCall, IInv, Labels
  <1>2. PICK n \in 1 .. todo[w] : left' = [left EXCEPT ![w] = n]
    BY DEF WriteCall
  <1>3. left' \in [Writers -> 0 .. Total] /\ left'[w] = n /\ \A v \in Writers \ {w} : left'[v] = left[v]
    <2>1. n \in 0 .. Total
      BY <1>0, PipeAssumption
    <2> QED
      BY <1>2, <2>1 DEF IInv, TypeOK
  <1>4. TypeOK'
    BY <1>1, <1>3 DEF IInv, TypeOK, WriteCall, Labels, pipeVars, tallies
  <1>5. Stream' /\ Positions' /\ Tally'
    BY NothingMoved DEF WriteCall, pipeVars, tallies
  <1>6. Idle'
    BY DEF Idle, WriteCall, pipeVars
  <1>7. Writing'
    BY <1>0, <1>1, <1>2, <1>3 DEF IInv, Writing, WriteCall, Threads, pipeVars, tallies
  <1>8. Reading' /\ Emptied'
    BY <1>0, <1>1 DEF IInv, Reading, Emptied, WriteCall, Threads, pipeVars
  <1>9. Closing'
    BY DEF IInv, WriteCall, Closing, pipeVars
  <1>10. LastReader'
    <2>1. \A r \in Readers : Leaving(r)' <=> Leaving(r)
      BY <1>0, <1>1 DEF Leaving, WriteCall, Threads
    <2> QED
      BY <2>1 DEF IInv, LastReader, WriteCall, pipeVars
  <1> QED
    BY <1>4, <1>5, <1>6, <1>7, <1>8, <1>9, <1>10 DEF IInv

LEMMA FindRoomStep == ASSUME IInv, NEW w \in Writers, FindRoom(w) PROVE IInv'
  <1>0. w \in Threads /\ w \notin Readers
    BY PipeAssumption DEF Threads
  <1>1. /\ pc' \in [Threads -> Labels] /\ pc'[w] = "copy"
        /\ \A s \in Threads : s # w => pc'[s] = pc[s]
    BY <1>0, GotoFacts DEF FindRoom, IInv, Labels
  <1>2. TypeOK'
    BY <1>1 DEF IInv, TypeOK, FindRoom, Labels, pipeVars, tallies
  <1>3. Stream' /\ Positions' /\ Tally'
    BY NothingMoved DEF FindRoom, pipeVars, tallies
  <1>4. Idle'
    BY <1>0 DEF IInv, Idle, FindRoom, pipeVars
  <1>5. Writing'
    BY <1>0, <1>1 DEF IInv, Writing, FindRoom, Threads, pipeVars, tallies
  <1>6. Reading' /\ Emptied'
    BY <1>0, <1>1 DEF IInv, Reading, Emptied, FindRoom, Threads, pipeVars
  <1>7. Closing'
    BY DEF IInv, FindRoom, Closing, pipeVars
  <1>8. LastReader'
    <2>1. \A r \in Readers : Leaving(r)' <=> Leaving(r)
      BY <1>0, <1>1 DEF Leaving, FindRoom, Threads
    <2> QED
      BY <2>1 DEF IInv, LastReader, FindRoom, pipeVars
  <1> QED
    BY <1>2, <1>3, <1>4, <1>5, <1>6, <1>7, <1>8 DEF IInv

\* A step of reader r that takes nothing: it goes on where the tests have led it, and when it
\* begins to leave, the pipe is closed or holds a byte.
LEMMA ReaderMoves ==
  ASSUME IInv, NEW r \in Readers, NEW l \in Labels \ {"room", "copy"}, Goto(r, l), used,
         UNCHANGED <<pipeVars, left, tallies>>,
         len' \in [Readers -> Nat], \A q \in Readers \ {r} : len'[q] = len[q],
         l \in {"wait", "closed", "test", "take"} => len'[r] > 0,
         waits' \subseteq Readers, \A q \in Readers \ {r} : q \in waits' <=> q \in waits,
         Leaving(r)' => Leaving(r) \/ write_closed \/ count # 0,
         l = "gone" => count = 0
  PROVE  IInv'
  <1>0. r \in Threads /\ r \notin Writers
    BY PipeAssumption DEF Threads
  <1>1. /\ pc' \in [Threads -> Labels] /\ pc'[r] = l
        /\ \A s \in Threads : s # r => pc'[s] = pc[s]
    BY <1>0, GotoFacts DEF IInv
  <1>2. TypeOK'
    BY <1>1 DEF IInv, TypeOK, Labels, pipeVars, tallies
  <1>3. Stream' /\ Positions' /\ Tally'
    BY NothingMoved DEF pipeVars, tallies
  <1>4. Idle'
    BY DEF Idle, pipeVars
  <1>5. Writing'
    BY <1>0, <1>1 DEF IInv, Writing, Threads, pipeVars, tallies
  <1>6. Reading'
    BY <1>0, <1>1 DEF IInv, Reading, Threads
  <1>7. Closing'
    BY <1>0, <1>1 DEF IInv, Closing, Threads, pipeVars
  <1>8. LastReader'
    <2>1. \A q \in Readers \ {r} : Leaving(q)' <=> Leaving(q)
      BY <1>0, <1>1 DEF Leaving, Threads
    <2> QED
      BY <2>1 DEF IInv, LastReader, pipeVars
  <1>9. Emptied'
    BY <1>0, <1>1 DEF IInv, Emptied, Threads, pipeVars
  <1> QED
    BY <1>2, <1>3, <1>4, <1>5, <1>6, <1>7, <1>8, <1>9 DEF IInv

LEMMA ReadCallStep == ASSUME IInv, NEW r \in Readers, ReadCall(r) PROVE IInv'
  <1>1. r \in Threads
    BY DEF Threads
  <1>2. PICK n \in ReadLens : len' = [len EXCEPT ![r] = n]
    BY DEF ReadCall
  <1>3. n \in Nat /\ n > 0
    BY PipeAssumption
  <1>4. /\ len' \in [Readers -> Nat] /\ len'[r] > 0
        /\ \A q \in Readers \ {r} : len'[q] = len[q]
    BY <1>2, <1>3 DEF IInv, TypeOK
  <1>5. CASE Goto(r, "wait") /\ waits' = waits \cup {r}
    <2>1. ~Leaving(r)'
      BY <1>1, <1>5, GotoFacts DEF Leaving, IInv, Labels
    <2> QED
      BY <1>4, <1>5, <2>1, ReaderMoves DEF ReadCall, IInv, TypeOK, Labels
  <1>6. CASE Goto(r, "test") /\ waits' = waits \ {r}
    <2>1. ~Leaving(r)'
      BY <1>1, <1>6, GotoFacts DEF Leaving, IInv, Labels
    <2> QED
      BY <1>4, <1>6, <2>1, ReaderMoves DEF ReadCall, IInv, TypeOK, Labels
  <1> QED
    BY <1>5, <1>6 DEF ReadCall

\* A reader whose call is under way uses a pipe that exists.
LEMMA InCall ==
  ASSUME IInv, NEW r \in Readers, pc[r] \in {"wait", "closed", "test", "take"}
  PROVE  used /\ r \in Threads /\ len[r] \in Nat /\ len[r] > 0
  BY DEF IInv, Idle, Reading, Threads, TypeOK

LEMMA WaitCountStep == ASSUME IInv, NEW r \in Readers, WaitCount(r) PROVE IInv'
  <1>1. used /\ r \in Threads /\ len[r] > 0
    BY InCall DEF WaitCount
  <1> DEFINE l == IF count = 0 THEN "closed" ELSE "test"
  <1>2. l \in Labels \ {"room", "copy"} /\ Goto(r, l)
    BY DEF WaitCount, Labels
  <1>3. Leaving(r)' => count # 0
    BY <1>1, <1>2, GotoFacts DEF Leaving, IInv
  <1> QED
    BY <1>1, <1>2, <1>3, ReaderMoves DEF WaitCount, IInv, TypeOK

LEMMA WaitClosedStep == ASSUME IInv, NEW r \in Readers, WaitClosed(r) PROVE IInv'
  <1>1. used /\ r \in Threads /\ len[r] > 0
    BY InCall DEF WaitClosed
  <1> DEFINE l == IF write_closed THEN "test" ELSE "wait"
  <1>2. l \in Labels \ {"room", "copy"} /\ Goto(r, l)
    BY DEF WaitClosed, Labels
  <1>3. Leaving(r)' => write_closed
    BY <1>1, <1>2, GotoFacts DEF Leaving, IInv
  <1> QED
    BY <1>1, <1>2, <1>3, ReaderMoves DEF WaitClosed, IInv, TypeOK

LEMMA TestCountStep == ASSUME IInv, NEW r \in Readers, TestCount(r) PROVE IInv'
  <1>1. used /\ r \in Threads /\ len[r] > 0
    BY InCall DEF TestCount
  <1> DEFINE l == IF count = 0 THEN IF r \in waits THEN "gone" ELSE "out" ELSE "take"
  <1>2. l \in Labels \ {"room", "copy"} /\ Goto(r, l)
    BY DEF TestCount, After, Labels
  <1>3. Leaving(r)' => Leaving(r)
    BY <1>1, <1>2, GotoFacts DEF Leaving, IInv, TestCount
  <1> QED
    BY <1>1, <1>2, <1>3, ReaderMoves DEF TestCount, IInv, TypeOK

-----------------------------------------------------------------------------
(* The copies                                                               *)

\* The places of Held are places of the ring.
LEMMA HeldFacts ==
  ASSUME IInv
  PROVE  /\ count \in Nat /\ count <= PIPE_BUF_SIZE /\ read_pos \in Places /\ write_pos \in Places
         /\ PIPE_BUF_SIZE \in Nat /\ Total \in Nat
         /\ \A w \in Writers : todo[w] \in 0 .. Total /\ left[w] \in 0 .. Total /\ got[w] \in 0 .. Total
  BY PipeAssumption DEF IInv, TypeOK

\* The chunk is within the room there is, and is not empty unless the pipe is full.
LEMMA ChunkFacts ==
  ASSUME IInv, NEW w \in Writers, pc[w] = "copy", NEW n, n = Chunk(w)
  PROVE  /\ n \in Nat /\ n <= left[w] /\ n <= todo[w] /\ count + n <= PIPE_BUF_SIZE
         /\ count + n > 0 /\ left[w] \in Nat /\ todo[w] \in 0 .. Total
  <1>1. /\ 0 < left[w] /\ left[w] <= todo[w]
    BY DEF IInv, Writing
  <1>2. count \in Nat /\ count <= PIPE_BUF_SIZE /\ left[w] \in 0 .. Total /\ todo[w] \in 0 .. Total
        /\ PIPE_BUF_SIZE \in Nat \ {0} /\ Total \in Nat
    BY HeldFacts, PipeAssumption
  <1> QED
    BY <1>1, <1>2 DEF Chunk, Least

LEMMA CopyInStream ==
  ASSUME IInv, NEW w \in Writers, CopyIn(w)
  PROVE  Stream' /\ Positions' /\ Tally' /\ buf' \in [Places -> Bytes \cup {NoByte}]
  <1> DEFINE n == Chunk(w)
             m0 == Total - todo[w]
  <1>1. /\ pc[w] = "copy"
        /\ buf' = [i \in Places |-> IF Beyond(i, write_pos) < n
                                    THEN NextByte(w, Beyond(i, write_pos))
                                    ELSE buf[i]]
        /\ write_pos' = Wrap(write_pos + n) /\ count' = count + n
        /\ todo' = [todo EXCEPT ![w] = @ - n]
        /\ used' = used /\ read_pos' = read_pos /\ got' = got
    BY DEF CopyIn
  <1>2. /\ n \in Nat /\ n <= left[w] /\ n <= todo[w] /\ count + n <= PIPE_BUF_SIZE
        /\ count + n > 0 /\ left[w] \in Nat /\ todo[w] \in 0 .. Total
    BY <1>1, ChunkFacts
  <1>3. /\ count \in Nat /\ count <= PIPE_BUF_SIZE /\ read_pos \in Places /\ write_pos \in Places
        /\ write_pos = Wrap(read_pos + count) /\ Total \in Nat /\ PIPE_BUF_SIZE \in Nat
        /\ \A v \in Writers : todo[v] \in 0 .. Total /\ got[v] \in 0 .. Total
    BY HeldFacts DEF IInv, Positions
  <1>u. used /\ got[w] <= m0
    BY <1>1 DEF IInv, Idle, Tally, Threads
  <1> HIDE DEF n
  <1>4. /\ todo'[w] = todo[w] - n /\ \A v \in Writers : v # w => todo'[v] = todo[v]
    BY <1>1 DEF IInv, TypeOK
  <1>5. \A i \in Places : Beyond(i, write_pos) \in Nat
    BY <1>3, BeyondIs, PipeAssumption DEF Places
  <1>6. \A j \in Nat : j < n => NextByte(w, j) = <<w, m0 + j + 1>> /\ m0 + j + 1 \in 1 .. Total
    BY <1>2, <1>3 DEF NextByte
  <1>7. buf' \in [Places -> Bytes \cup {NoByte}]
    <2> SUFFICES ASSUME NEW i \in Places, Beyond(i, write_pos) < n
                 PROVE  NextByte(w, Beyond(i, write_pos)) \in Bytes
      BY <1>1 DEF IInv, TypeOK
    <2> QED
      BY <1>5, <1>6 DEF Bytes
  <1>8. ASSUME NEW k \in Nat, k < count + n
        PROVE  Nth(k)' = IF k < count THEN Nth(k) ELSE <<w, m0 + (k - count) + 1>>
    <2> DEFINE i == Wrap(read_pos + k)
    <2>1. i \in Places
      BY <1>2, <1>3, <1>8, WrapIs
    <2>2. Nth(k)' = IF Beyond(i, write_pos) < n THEN NextByte(w, Beyond(i, write_pos)) ELSE buf[i]
      BY <1>1, <2>1 DEF Nth
    <2>3. IF k < count THEN ~(Beyond(i, write_pos) < n) ELSE Beyond(i, write_pos) = k - count
      BY <1>2, <1>3, <1>8, CopyPlaces
    <2>4. Nth(k) = buf[i]
      BY DEF Nth
    <2> HIDE DEF i
    <2>5. CASE k < count
      BY <2>2, <2>3, <2>4, <2>5
    <2>6. CASE ~(k < count)
      <3>1. k - count \in Nat /\ k - count < n
        BY <1>2, <1>3, <1>8, <2>6
      <3> QED
        BY <1>6, <2>2, <2>3, <2>6, <3>1
    <2> QED
      BY <2>5, <2>6
  <1>9. Stream'
    <2>0. /\ \A k \in Held : Nth(k) \in Bytes
          /\ \A v \in Writers, m \in 1 .. Total :
               (\E k \in Held : Nth(k) = <<v, m>>) <=> got[v] < m /\ m <= Total - todo[v]
          /\ \A j, k \in Held : j < k /\ Nth(j)[1] = Nth(k)[1] => Nth(j)[2] < Nth(k)[2]
      BY <1>u DEF IInv, Stream
    <2>1. \A k : k \in Held <=> k \in Nat /\ k < count
      BY <1>3 DEF Held
    <2>2. \A k : k \in Held' <=> k \in Nat /\ k < count + n
      BY <1>1, <1>2, <1>3 DEF Held
    <2>a. \A k \in Held : k \in Held' /\ Nth(k)' = Nth(k)
      BY <1>2, <1>3, <1>8, <2>1, <2>2
    <2>b. \A k \in Held' : k \in Held \/ (/\ k \in Nat /\ count <= k /\ k < count + n
                                          /\ Nth(k)' = <<w, m0 + (k - count) + 1>>)
      BY <1>2, <1>3, <1>8, <2>1, <2>2
    <2>3. \A k \in Held' : Nth(k)' \in Bytes
      <3> SUFFICES ASSUME NEW k \in Held', k \notin Held PROVE Nth(k)' \in Bytes
        BY <2>0, <2>a
      <3>1. k - count \in Nat /\ k - count < n
        BY <1>2, <1>3, <2>b
      <3> QED
        BY <1>6, <2>b, <3>1 DEF Bytes
    <2>4. ASSUME NEW v \in Writers, NEW m \in 1 .. Total
          PROVE  (\E k \in Held' : Nth(k)' = <<v, m>>) <=> got[v] < m /\ m <= Total - todo'[v]
      <3>1. CASE v # w
        BY <1>4, <2>0, <2>a, <2>b, <3>1
      <3>2. CASE v = w
        <4>1. ASSUME NEW k \in Held', Nth(k)' = <<w, m>> PROVE got[w] < m /\ m <= m0 + n
          <5>1. CASE k \in Held
            BY <1>2, <1>3, <2>0, <2>a, <4>1, <5>1
          <5>2. CASE k \notin Held
            <6>1. m = m0 + (k - count) + 1
              BY <2>b, <4>1, <5>2
            <6> QED
              BY <1>u, <1>2, <1>3, <2>b, <5>2, <6>1
          <5> QED
            BY <5>1, <5>2
        <4>2. ASSUME got[w] < m, m <= m0 + n PROVE \E k \in Held' : Nth(k)' = <<w, m>>
          <5>1. CASE m <= m0
            BY <2>0, <2>a, <4>2, <5>1
          <5>2. CASE ~(m <= m0)
            <6>1. PICK k \in Nat : count <= k /\ k < count + n /\ m0 + (k - count) + 1 = m
              <7>1. m0 \in Int /\ m \in Int /\ count \in Int /\ n \in Int /\ m > m0 /\ m <= m0 + n
                BY <1>2, <1>3, <4>2, <5>2
              <7> HIDE DEF m0
              <7>2. count + (m - m0 - 1) \in Nat /\ count <= count + (m - m0 - 1)
                BY <1>3, <7>1
              <7> QED
                BY <7>1, <7>2
            <6>2. ~(k < count)
              BY <1>3, <6>1
            <6> QED
              BY <1>8, <2>2, <6>1, <6>2
          <5> QED
            BY <5>1, <5>2
        <4>3. Total - todo'[w] = m0 + n
          BY <1>2, <1>3, <1>4
        <4> QED
          BY <3>2, <4>1, <4>2, <4>3
      <3> QED
        BY <3>1, <3>2
    <2>5. ASSUME NEW j \in Held', NEW k \in Held', j < k, Nth(j)'[1] = Nth(k)'[1]
          PROVE  Nth(j)'[2] < Nth(k)'[2]
      <3>1. CASE k \in Held
        <4>1. j \in Held
          BY <1>3, <2>1, <2>2, <2>5, <3>1
        <4> QED
          BY <2>0, <2>5, <2>a, <3>1, <4>1
      <3>2. CASE k \notin Held /\ j \in Held
        <4>1. Nth(k)' = <<w, m0 + (k - count) + 1>> /\ k - count \in Nat
          BY <1>3, <2>b, <3>2
        <4>2. Nth(j) \in Bytes /\ Nth(j)[1] = w /\ Nth(j)' = Nth(j)
          BY <2>0, <2>a, <2>5, <3>2, <4>1
        <4>3. Nth(j) = <<w, Nth(j)[2]>> /\ Nth(j)[2] \in 1 .. Total
          BY <4>2 DEF Bytes
        <4>4. Nth(j)[2] <= m0
          BY <2>0, <3>2, <4>3
        <4> QED
          BY <1>2, <1>3, <4>1, <4>2, <4>3, <4>4
      <3>3. CASE k \notin Held /\ j \notin Held
        <4>1. /\ Nth(j)' = <<w, m0 + (j - count) + 1>> /\ Nth(k)' = <<w, m0 + (k - count) + 1>>
              /\ j \in Nat /\ k \in Nat
          BY <2>b, <3>3
        <4> QED
          BY <1>2, <1>3, <2>5, <4>1
      <3> QED
        BY <3>1, <3>2, <3>3
    <2> QED
      BY <1>1, <2>3, <2>4, <2>5 DEF Stream, Bytes
  <1>10. Positions'
    <2>1. Wrap(Wrap(read_pos + count) + n) = Wrap(read_pos + (count + n))
      BY <1>2, <1>3, WrapWrap
    <2> QED
      BY <1>1, <1>3, <2>1 DEF Positions
  <1>11. Tally'
    <2>1. \A v \in Writers : got[v] <= Total - todo[v]
      BY <1>u DEF IInv, Tally
    <2> QED
      BY <1>1, <1>2, <1>3, <1>4, <2>1 DEF Tally
  <1> QED
    BY <1>7, <1>9, <1>10, <1>11

LEMMA CopyInStep == ASSUME IInv, NEW w \in Writers, CopyIn(w) PROVE IInv'
  <1> DEFINE n == Chunk(w)
             l == IF n = left[w] THEN "out" ELSE "room"
  <1>0. w \in Threads /\ w \notin Readers /\ pc[w] = "copy"
    BY PipeAssumption DEF Threads, CopyIn
  <1>1. /\ n \in Nat /\ n <= left[w] /\ n <= todo[w] /\ count + n <= PIPE_BUF_SIZE
        /\ count + n > 0 /\ left[w] \in Nat /\ todo[w] \in 0 .. Total
    BY <1>0, ChunkFacts
  <1>2. /\ used' = used /\ read_pos' = read_pos /\ write_closed' = write_closed /\ len' = len
        /\ waits' = waits /\ got' = got /\ lives' = lives
        /\ count' = count + n /\ write_pos' = Wrap(write_pos + n)
        /\ left' = [left EXCEPT ![w] = @ - n] /\ todo' = [todo EXCEPT ![w] = @ - n]
        /\ Goto(w, l)
    BY DEF CopyIn
  <1>3. /\ count \in Nat /\ count <= PIPE_BUF_SIZE /\ write_pos \in Places /\ Total \in Nat
        /\ PIPE_BUF_SIZE \in Nat /\ left[w] \in 0 .. Total
    BY HeldFacts
  <1>4. /\ pc' \in [Threads -> Labels] /\ pc'[w] = l
        /\ \A s \in Threads : s # w => pc'[s] = pc[s]
    <2>1. l \in Labels
      BY DEF Labels
    <2> HIDE DEF l
    <2> QED
      BY <1>0, <1>2, <2>1, GotoFacts DEF IInv
  <1> HIDE DEF n
  <1>5. /\ left' \in [Writers -> 0 .. Total] /\ left'[w] = left[w] - n
        /\ todo' \in [Writers -> 0 .. Total] /\ todo'[w] = todo[w] - n
        /\ \A v \in Writers : v # w => left'[v] = left[v] /\ todo'[v] = todo[v]
    <2>1. left[w] - n \in 0 .. Total /\ todo[w] - n \in 0 .. Total
      BY <1>1, <1>3
    <2> QED
      BY <1>2, <2>1 DEF IInv, TypeOK
  <1>6. /\ Stream' /\ Positions' /\ Tally' /\ buf' \in [Places -> Bytes \cup {NoByte}]
    BY CopyInStream
  <1>7. TypeOK'
    <2>1. write_pos' \in Places
      BY <1>1, <1>2, <1>3, WrapIs
    <2>2. count' \in 0 .. PIPE_BUF_SIZE
      BY <1>1, <1>2, <1>3
    <2> QED
      BY <1>2, <1>4, <1>5, <1>6, <2>1, <2>2 DEF IInv, TypeOK, Labels
  <1>8. Idle'
    BY <1>0, <1>2 DEF IInv, Idle
  <1>9. Writing'
    <2> SUFFICES ASSUME NEW v \in Writers
                 PROVE  /\ pc'[v] \in {"room", "copy"} => 0 < left'[v] /\ left'[v] <= todo'[v]
                        /\ pc'[v] \in {"room", "copy", "out", "gone"}
                        /\ used' /\ pc'[v] = "gone" => todo'[v] = 0
      BY DEF Writing
    <2>1. CASE v = w
      <3>1. left[w] <= todo[w]
        BY <1>0 DEF IInv, Writing
      <3> QED
        BY <1>1, <1>3, <1>4, <1>5, <2>1, <3>1
    <2>2. CASE v # w
      BY <1>2, <1>4, <1>5, <2>2 DEF IInv, Writing, Threads
    <2> QED
      BY <2>1, <2>2
  <1>10. Reading'
    BY <1>0, <1>2, <1>4 DEF IInv, Reading, Threads
  <1>11. ~write_closed
    BY <1>0 DEF IInv, Closing
  <1>12. Closing'
    BY <1>2, <1>11 DEF Closing
  <1>13. LastReader'
    BY <1>1, <1>2 DEF LastReader
  <1>14. Emptied'
    <2> SUFFICES ASSUME used, \A r \in Readers : pc'[r] = "gone" PROVE FALSE
      BY <1>2 DEF Emptied
    <2>1. \A r \in Readers : pc[r] = "gone"
      BY <1>0, <1>4 DEF Threads
    <2>2. count = 0
      BY <2>1 DEF IInv, Emptied
    <2>3. write_closed
      BY <2>1, <2>2 DEF IInv, LastReader, Leaving
    <2> QED
      BY <1>11, <2>3
  <1> QED
    BY <1>6, <1>7, <1>8, <1>9, <1>10, <1>12, <1>13, <1>14 DEF IInv

\* The bytes of w among the next n are the next ones of w, and as many as the copy counts.
LEMMA NextOfWriter ==
  ASSUME IInv, used, NEW n \in Nat, n <= count, NEW w \in Writers, NEW c, c = Cardinality(OfWriter(w, n))
  PROVE  /\ c \in Nat /\ got[w] + c <= Total - todo[w]
         /\ \A m \in 1 .. Total :
              (\E k \in 0 .. n - 1 : Nth(k) = <<w, m>>) <=> got[w] < m /\ m <= got[w] + c
  <1> DEFINE S == OfWriter(w, n)
             T == {Nth(k)[2] : k \in S}
             f == [k \in S |-> Nth(k)[2]]
             a == got[w]
             b == Total - todo[w]
  <1>0. /\ count \in Nat /\ Total \in Nat /\ a \in Nat /\ b \in Nat /\ b <= Total /\ a <= b
    <2>1. /\ count \in Nat /\ Total \in Nat /\ got[w] \in 0 .. Total /\ todo[w] \in 0 .. Total
      BY HeldFacts
    <2>2. got[w] <= Total - todo[w]
      BY DEF IInv, Tally
    <2> QED
      BY <2>1, <2>2
  <1>1. /\ \A k \in Held : Nth(k) \in Bytes
        /\ \A m \in 1 .. Total : (\E k \in Held : Nth(k) = <<w, m>>) <=> a < m /\ m <= b
        /\ \A j, k \in Held : j < k /\ Nth(j)[1] = Nth(k)[1] => Nth(j)[2] < Nth(k)[2]
    BY DEF IInv, Stream
  <1>2. \A k : k \in Held <=> k \in Nat /\ k < count
    BY <1>0 DEF Held
  <1>3. \A k : k \in S <=> k \in Nat /\ k < n /\ Nth(k)[1] = w
    BY DEF OfWriter
  <1>4. ASSUME NEW k \in S
        PROVE  k \in Held /\ Nth(k) = <<w, Nth(k)[2]>> /\ Nth(k)[2] \in a + 1 .. b
    <2>1. k \in Held /\ Nth(k) \in Bytes /\ Nth(k)[1] = w
      BY <1>0, <1>1, <1>2, <1>3
    <2>2. Nth(k) = <<w, Nth(k)[2]>> /\ Nth(k)[2] \in 1 .. Total
      BY <2>1 DEF Bytes
    <2>3. a < Nth(k)[2] /\ Nth(k)[2] <= b
      BY <1>1, <2>1, <2>2
    <2> QED
      BY <1>0, <2>1, <2>2, <2>3
  <1> HIDE DEF S, a, b
  <1>5. T \subseteq a + 1 .. b
    BY <1>4
  <1>6. ASSUME NEW t \in T, NEW s \in a + 1 .. b, s < t PROVE s \in T
    <2>1. PICK k \in S : t = Nth(k)[2]
      OBVIOUS
    <2>2. PICK j \in Held : Nth(j) = <<w, s>>
      BY <1>0, <1>1
    <2>3. Nth(j)[1] = w /\ Nth(j)[2] = s /\ Nth(k)[1] = w /\ k \in Held /\ k \in Nat /\ j \in Nat
          /\ k < n /\ t \in Nat /\ s \in Nat
      BY <1>0, <1>2, <1>3, <1>4, <2>1, <2>2
    <2>4. ~(k < j)
      BY <1>1, <1>6, <2>1, <2>2, <2>3
    <2>5. j \in S
      BY <1>3, <2>3, <2>4
    <2> QED
      BY <2>3, <2>5
  <1>7. /\ IsFiniteSet(T) /\ Cardinality(T) \in Nat /\ a + Cardinality(T) <= b
        /\ T = a + 1 .. a + Cardinality(T)
    <2> HIDE DEF T
    <2> QED
      BY <1>0, <1>5, <1>6, Prefix
  <1>8. Cardinality(S) = Cardinality(T)
    <2>1. f \in [S -> T]
      OBVIOUS
    <2>2. ASSUME NEW j \in S, NEW k \in S, f[j] = f[k] PROVE j = k
      <3>1. Nth(j)[2] = Nth(k)[2] /\ Nth(j)[1] = Nth(k)[1] /\ j \in Held /\ k \in Held
        BY <1>3, <1>4, <2>2
      <3>2. j \in Nat /\ k \in Nat /\ Nth(j)[2] \in a + 1 .. b
        BY <1>3, <1>4
      <3>3. ~(j < k) /\ ~(k < j)
        BY <1>0, <1>1, <3>1, <3>2
      <3> QED
        BY <3>2, <3>3
    <2>3. \A t \in T : \E k \in S : f[k] = t
      OBVIOUS
    <2> HIDE DEF T, f
    <2> QED
      BY <1>7, <2>1, <2>2, <2>3, Numbered
  <1>9. ASSUME NEW m \in 1 .. Total
        PROVE  (\E k \in 0 .. n - 1 : Nth(k) = <<w, m>>) <=> m \in T
    <2>1. ASSUME NEW k \in 0 .. n - 1, Nth(k) = <<w, m>> PROVE m \in T
      <3>1. k \in S /\ Nth(k)[2] = m
        BY <1>3, <2>1
      <3> QED
        BY <3>1
    <2>2. ASSUME m \in T PROVE \E k \in 0 .. n - 1 : Nth(k) = <<w, m>>
      <3>1. PICK k \in S : m = Nth(k)[2]
        BY <2>2
      <3>2. k \in 0 .. n - 1 /\ Nth(k) = <<w, m>>
        BY <1>3, <1>4, <3>1
      <3> QED
        BY <3>2
    <2> QED
      BY <2>1, <2>2
  <1> HIDE DEF T
  <1>10. c = Cardinality(T)
    BY <1>8 DEF S
  <1>11. \A m \in 1 .. Total : m \in T <=> a < m /\ m <= a + c
    BY <1>0, <1>7, <1>10
  <1> QED
    BY <1>7, <1>9, <1>10, <1>11 DEF a, b

LEMMA CopyOutStream ==
  ASSUME IInv, NEW r \in Readers, CopyOut(r), used, NEW n \in Nat, n = Avail(r), n <= count
  PROVE  Stream' /\ Positions' /\ Tally' /\ got' \in [Writers -> 0 .. Total]
  <1>1. /\ read_pos' = Wrap(read_pos + n) /\ count' = count - n
        /\ got' = [w \in Writers |-> got[w] + Cardinality(OfWriter(w, n))]
        /\ used' = used /\ buf' = buf /\ write_pos' = write_pos /\ todo' = todo
    BY DEF CopyOut
  <1>2. /\ count \in Nat /\ count <= PIPE_BUF_SIZE /\ read_pos \in Places /\ Total \in Nat
        /\ write_pos = Wrap(read_pos + count) /\ PIPE_BUF_SIZE \in Nat
        /\ \A v \in Writers : todo[v] \in 0 .. Total /\ got[v] \in 0 .. Total
    BY HeldFacts DEF IInv, Positions
  <1>3. ASSUME NEW k \in Nat, n + k < count PROVE Nth(k)' = Nth(n + k)
    <2>1. Wrap(Wrap(read_pos + n) + k) = Wrap(read_pos + (n + k))
      BY <1>2, <1>3, WrapWrap
    <2> QED
      BY <1>1, <2>1 DEF Nth
  <1>4. ASSUME NEW w \in Writers
        PROVE  /\ got'[w] \in Nat /\ got[w] <= got'[w] /\ got'[w] <= Total - todo[w]
               /\ \A m \in 1 .. Total :
                    (\E k \in 0 .. n - 1 : Nth(k) = <<w, m>>) <=> got[w] < m /\ m <= got'[w]
    <2>1. got'[w] = got[w] + Cardinality(OfWriter(w, n))
      BY <1>1
    <2> DEFINE c == Cardinality(OfWriter(w, n))
    <2>2. /\ c \in Nat /\ got[w] + c <= Total - todo[w]
          /\ \A m \in 1 .. Total :
               (\E k \in 0 .. n - 1 : Nth(k) = <<w, m>>) <=> got[w] < m /\ m <= got[w] + c
      BY NextOfWriter
    <2> HIDE DEF c
    <2>3. got'[w] = got[w] + c
      BY <2>1 DEF c
    <2> QED
      BY <1>2, <2>2, <2>3
  <1>5. Stream'
    <2>0. /\ \A k \in Held : Nth(k) \in Bytes
          /\ \A v \in Writers, m \in 1 .. Total :
               (\E k \in Held : Nth(k) = <<v, m>>) <=> got[v] < m /\ m <= Total - todo[v]
          /\ \A j, k \in Held : j < k /\ Nth(j)[1] = Nth(k)[1] => Nth(j)[2] < Nth(k)[2]
      BY DEF IInv, Stream
    <2>1. \A k : k \in Held <=> k \in Nat /\ k < count
      BY <1>2 DEF Held
    <2>2. \A k : k \in Held' <=> k \in Nat /\ n + k < count
      BY <1>1, <1>2 DEF Held
    <2>a. \A k \in Held' : n + k \in Held /\ Nth(k)' = Nth(n + k)
      BY <1>2, <1>3, <2>1, <2>2
    <2>3. \A k \in Held' : Nth(k)' \in Bytes
      BY <2>0, <2>a
    <2>4. ASSUME NEW v \in Writers, NEW m \in 1 .. Total
          PROVE  (\E k \in Held' : Nth(k)' = <<v, m>>) <=> got'[v] < m /\ m <= Total - todo'[v]
      <3>1. ASSUME NEW k \in Held', Nth(k)' = <<v, m>> PROVE got'[v] < m /\ m <= Total - todo[v]
        <4>1. n + k \in Held /\ Nth(n + k) = <<v, m>>
          BY <2>a, <3>1
        <4>2. got[v] < m /\ m <= Total - todo[v]
          BY <2>0, <4>1
        <4>3. ~(m <= got'[v])
          <5> SUFFICES ASSUME m <= got'[v] PROVE FALSE
            OBVIOUS
          <5>1. PICK j \in 0 .. n - 1 : Nth(j) = <<v, m>>
            BY <1>4, <4>2
          <5>2. j \in Held /\ j < n + k
            BY <1>2, <2>1, <2>2
          <5>3. Nth(j)[2] < Nth(n + k)[2] /\ Nth(j)[2] = m /\ Nth(n + k)[2] = m
            <6>1. Nth(j)[1] = v /\ Nth(n + k)[1] = v /\ Nth(j)[2] = m /\ Nth(n + k)[2] = m
              BY <4>1, <5>1
            <6> QED
              BY <2>0, <4>1, <5>2, <6>1
          <5> QED
            BY <5>3
        <4> QED
          BY <1>4, <4>2, <4>3
      <3>2. ASSUME got'[v] < m, m <= Total - todo[v] PROVE \E k \in Held' : Nth(k)' = <<v, m>>
        <4>1. got[v] < m
          BY <1>2, <1>4, <3>2
        <4>2. PICK j \in Held : Nth(j) = <<v, m>>
          BY <2>0, <3>2, <4>1
        <4>3. j \in Nat /\ j < count
          BY <2>1
        <4>4. ~(j < n)
          <5>1. j < n => j \in 0 .. n - 1
            BY <4>3
          <5>2. ~(m <= got'[v])
            BY <1>4, <3>2
          <5> QED
            BY <1>4, <4>2, <5>1, <5>2
        <4>5. PICK k \in Nat : j = n + k
          <5>1. j - n \in Nat /\ j = n + (j - n)
            BY <4>3, <4>4
          <5> QED
            BY <5>1
        <4>6. k \in Held'
          BY <2>2, <4>3, <4>5
        <4> QED
          BY <2>a, <4>2, <4>5, <4>6
      <3> QED
        BY <1>1, <3>1, <3>2
    <2>5. ASSUME NEW j \in Held', NEW k \in Held', j < k, Nth(j)'[1] = Nth(k)'[1]
          PROVE  Nth(j)'[2] < Nth(k)'[2]
      <3>1. n + j < n + k
        BY <2>2, <2>5
      <3> QED
        BY <2>0, <2>a, <2>5, <3>1
    <2> QED
      BY <2>3, <2>4, <2>5 DEF Stream, Bytes
  <1>6. Positions'
    <2>1. n + (count - n) = count /\ count - n \in Nat
      BY <1>2
    <2>2. Wrap(Wrap(read_pos + n) + (count - n)) = Wrap(read_pos + (n + (count - n)))
      BY <1>2, <2>1, WrapWrap
    <2> QED
      BY <1>1, <1>2, <2>1, <2>2 DEF Positions
  <1>7. Tally'
    BY <1>1, <1>4 DEF Tally
  <1>8. got' \in [Writers -> 0 .. Total]
    <2>1. \A w \in Writers : got'[w] \in 0 .. Total
      BY <1>2, <1>4
    <2> QED
      BY <1>1, <2>1
  <1> QED
    BY <1>5, <1>6, <1>7, <1>8

LEMMA CopyOutStep == ASSUME IInv, NEW r \in Readers, CopyOut(r) PROVE IInv'
  <1> DEFINE n == Avail(r)
             l == IF n = 0 /\ r \in waits THEN "gone" ELSE "out"
  <1>1. used /\ r \in Threads /\ len[r] \in Nat /\ len[r] > 0 /\ pc[r] = "take" /\ r \notin Writers
    BY InCall, PipeAssumption DEF CopyOut
  <1>2. /\ count \in Nat /\ count <= PIPE_BUF_SIZE /\ read_pos \in Places /\ PIPE_BUF_SIZE \in Nat
    BY HeldFacts
  <1>3. n \in Nat /\ n <= count /\ (n = 0 => count = 0)
    BY <1>1, <1>2 DEF Avail, Least
  <1>4. /\ used' = used /\ buf' = buf /\ write_pos' = write_pos /\ write_closed' = write_closed
        /\ left' = left /\ len' = len /\ waits' = waits /\ todo' = todo /\ lives' = lives
        /\ read_pos' = Wrap(read_pos + n) /\ count' = count - n /\ Goto(r, l)
    BY DEF CopyOut, After
  <1>5. /\ pc' \in [Threads -> Labels] /\ pc'[r] = l
        /\ \A s \in Threads : s # r => pc'[s] = pc[s]
    <2>1. l \in Labels
      BY DEF Labels
    <2> HIDE DEF l
    <2> QED
      BY <1>1, <1>4, <2>1, GotoFacts DEF IInv
  <1>6. Stream' /\ Positions' /\ Tally' /\ got' \in [Writers -> 0 .. Total]
    BY <1>1, <1>3, CopyOutStream
  <1> HIDE DEF n
  <1>7. TypeOK'
    <2>1. read_pos' \in Places /\ count' \in 0 .. PIPE_BUF_SIZE
      BY <1>2, <1>3, <1>4, WrapIs
    <2> QED
      BY <1>4, <1>5, <1>6, <2>1 DEF IInv, TypeOK, Labels
  <1>8. Idle' /\ Closing'
    BY <1>1, <1>4, <1>5 DEF IInv, Idle, Closing, Threads
  <1>9. Writing'
    BY <1>1, <1>4, <1>5 DEF IInv, Writing, Threads
  <1>10. Reading'
    BY <1>4, <1>5 DEF IInv, Reading, Threads
  <1>11. LastReader'
    <2> SUFFICES ASSUME count' = 0, \A q \in Readers : Leaving(q)' PROVE write_closed
      BY <1>4 DEF LastReader
    <2>1. l = "gone" /\ n = 0 /\ r \in waits
      BY <1>5 DEF Leaving
    <2>2. \A q \in Readers : Leaving(q)
      BY <1>1, <1>4, <1>5, <2>1 DEF Leaving, Threads
    <2> QED
      BY <1>1, <1>3, <2>1, <2>2 DEF IInv, LastReader
  <1>12. Emptied'
    <2> SUFFICES ASSUME \A q \in Readers : pc'[q] = "gone" PROVE count' = 0
      BY DEF Emptied
    <2>1. n = 0
      BY <1>5
    <2> QED
      BY <1>3, <1>4, <2>1
  <1> QED
    BY <1>6, <1>7, <1>8, <1>9, <1>10, <1>11, <1>12 DEF IInv

LEMMA Steps == IInv /\ [Next]_vars => IInv'
  <1> SUFFICES ASSUME IInv, [Next]_vars PROVE IInv'
    OBVIOUS
  <1>1. CASE UNCHANGED vars
    <2>1. Stream' /\ Positions' /\ Tally'
      BY <1>1, NothingMoved DEF vars, pipeVars, tallies
    <2>2. TypeOK'
      BY <1>1 DEF IInv, TypeOK, vars, pipeVars, threadVars, tallies
    <2>3. Idle' /\ Writing' /\ Reading' /\ Closing' /\ LastReader' /\ Emptied'
      BY <1>1 DEF IInv, Idle, Writing, Reading, Closing, LastReader, Emptied, Leaving, vars,
                  pipeVars, threadVars, tallies
    <2> QED
      BY <2>1, <2>2, <2>3 DEF IInv
  <1>2. CASE Create \/ Destroy
    BY <1>2, CreateStep, DestroyStep
  <1>3. ASSUME NEW w \in Writers, Write(w) PROVE IInv'
    BY <1>3, WriteCallStep, FindRoomStep, CopyInStep, CloseWriteStep DEF Write
  <1>4. ASSUME NEW r \in Readers, Read(r) PROVE IInv'
    BY <1>4, ReadCallStep, WaitCountStep, WaitClosedStep, TestCountStep, CopyOutStep DEF Read
  <1> QED
    BY <1>1, <1>2, <1>3, <1>4 DEF Next, Finished

-----------------------------------------------------------------------------
(* What follows for the pipe                                                *)

LEMMA Invariance == Spec => []IInv
  BY InitInv, Steps, PTL DEF Spec

\* Every variable keeps its type, and count never exceeds the buffer, although the test for room
\* is made before cli (code: pipe.cpp:50-57), for any writers, readers and lengths.
THEOREM TypeCorrect == Spec => []TypeOK
  <1>1. IInv => TypeOK
    BY DEF IInv
  <1> QED
    BY <1>1, Invariance, PTL

\* The bytes of each writer come out once each and in their order, however writers and readers
\* interleave (code: pipe.cpp:49-66, :79-86).
THEOREM StreamInOrder == Spec => []Stream
  <1>1. IInv => Stream
    BY DEF IInv
  <1> QED
    BY <1>1, Invariance, PTL

\* When the last reader has left, everything that was written has been read, although a read may
\* return 0 before the end (code: pipe.cpp:74-77).
THEOREM LastReaderEmptiesPipe == Spec => []NothingLeftBehind
  <1>1. IInv => NothingLeftBehind
    <2> SUFFICES ASSUME IInv, used, \A r \in Readers : pc[r] = "gone"
                 PROVE  write_closed /\ count = 0 /\ \A w \in Writers : todo[w] = 0 /\ got[w] = Total
      BY DEF NothingLeftBehind
    <2>1. count = 0
      BY DEF IInv, Emptied
    <2>2. write_closed
      BY <2>1 DEF IInv, LastReader, Leaving
    <2>3. ASSUME NEW w \in Writers PROVE todo[w] = 0 /\ got[w] = Total
      <3>1. todo[w] = 0
        BY <2>2 DEF IInv, Closing, Writing
      <3>2. got[w] \in 0 .. Total /\ Total \in Nat
        BY HeldFacts
      <3>3. \A m \in 1 .. Total : ~(got[w] < m /\ m <= Total - todo[w])
        <4>1. Held = {}
          BY <2>1 DEF Held
        <4> QED
          BY <4>1 DEF IInv, Stream
      <3>4. got[w] < Total => Total \in 1 .. Total /\ Total <= Total - todo[w]
        BY <3>1, <3>2
      <3> QED
        BY <3>1, <3>2, <3>3, <3>4
    <2> QED
      BY <2>1, <2>2, <2>3
  <1> QED
    BY <1>1, Invariance, PTL
================================================================================
