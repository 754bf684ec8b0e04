---------------------------------- MODULE Pipe ----------------------------------
(***************************************************************************)
(* A pipe of kernel/pipe.cpp, between writers and readers that use it as   *)
(* pipes are used: each writer writes its bytes in calls of any length and *)
(* the last one closes the pipe for writing; each reader reads, waiting or *)
(* polling, until a read that waits returns 0; then the pipe is destroyed, *)
(* and its slot is created anew.  (The kernel initialises its pipes but    *)
(* no code of this commit uses one.)                                       *)
(*                                                                         *)
(* The copies are made between cli and sti, so each is one step; the tests *)
(* before them are not, and each of those is a step of its own.            *)
(***************************************************************************)
EXTENDS Integers, FiniteSets

CONSTANTS
  Writers,        \* threads that write
  Readers,        \* threads that read
  NoByte,         \* the content of a place never written
  PIPE_BUF_SIZE,  \* bytes a pipe holds
  Total,          \* bytes each writer writes to one pipe
  ReadLens,       \* the lengths readers ask for
  Lives           \* bound: how often the slot is created

ASSUME PipeAssumption ==
  /\ PIPE_BUF_SIZE \in Nat \ {0}
  /\ Total \in Nat \ {0}
  /\ ReadLens \subseteq Nat \ {0}
  /\ Lives \in Nat \ {0}
  /\ Writers \cap Readers = {} /\ Readers # {}

VARIABLES
  used,          \* p.used
  buf,           \* p.buf; a byte is <<w, k>>, the k-th of writer w
  read_pos,      \* p.read_pos
  write_pos,     \* p.write_pos
  count,         \* p.count
  write_closed,  \* p.write_closed
  pc,            \* pc[t]: what thread t does next
  left,          \* left[w]: len - written in the pipe_write of w
  len,           \* len[r]: the len of the pipe_read of r
  waits,         \* the readers whose call is pipe_read, not pipe_read_nb
  todo,          \* todo[w]: bytes w has not yet put into the pipe
  got,           \* got[w]: bytes of w that readers have taken out
  lives          \* how often the slot has been created

pipeVars   == <<used, buf, read_pos, write_pos, count, write_closed>>
threadVars == <<pc, left, len, waits>>
tallies    == <<todo, got, lives>>
vars       == <<pipeVars, threadVars, tallies>>

Threads == Writers \cup Readers
Places  == 0 .. PIPE_BUF_SIZE - 1
Bytes   == Writers \X (1 .. Total)

\* A position modulo PIPE_BUF_SIZE, and how far place i is beyond position p.
Wrap(i) == i % PIPE_BUF_SIZE
Beyond(i, p) == (i - p + PIPE_BUF_SIZE) % PIPE_BUF_SIZE

Least(a, b) == IF a < b THEN a ELSE b

\* Thread t goes on at l.
Goto(t, l) == pc' = [pc EXCEPT ![t] = l]

-----------------------------------------------------------------------------
(* pipe_create, pipe_close_write and pipe_destroy, as the threads call them *)

\* pipe_create; what the buffer held before stays in it.
Create ==
  /\ ~used /\ lives < Lives
  /\ used' = TRUE
  /\ read_pos' = 0 /\ write_pos' = 0 /\ count' = 0
  /\ write_closed' = FALSE
  /\ pc' = [t \in Threads |-> "out"]
  /\ todo' = [w \in Writers |-> Total]
  /\ got' = [w \in Writers |-> 0]
  /\ lives' = lives + 1
  /\ UNCHANGED <<buf, left, len, waits>>

\* Faulty variants, here and below, stand before the definition they break.
CloseForgotten(w) ==
  /\ pc[w] = "out" /\ todo[w] = 0
  /\ Goto(w, "gone")
  /\ UNCHANGED <<pipeVars, left, len, waits, tallies>>

\* A writer that is done leaves; the last one calls pipe_close_write.
CloseWrite(w) ==
  /\ pc[w] = "out" /\ todo[w] = 0
  /\ Goto(w, "gone")
  /\ write_closed' = \A v \in Writers \ {w} : pc[v] = "gone"
  /\ UNCHANGED <<used, buf, read_pos, write_pos, count, left, len, waits, tallies>>

\* pipe_destroy, when everybody has left.
Destroy ==
  /\ used
  /\ \A t \in Threads : pc[t] = "gone"
  /\ used' = FALSE
  /\ UNCHANGED <<buf, read_pos, write_pos, count, write_closed, threadVars, tallies>>

-----------------------------------------------------------------------------
(* pipe_write                                                               *)

WriteCall(w) ==
  /\ pc[w] = "out" /\ used
  /\ \E n \in 1 .. todo[w] : left' = [left EXCEPT ![w] = n]
  /\ Goto(w, "room")
  /\ UNCHANGED <<pipeVars, len, waits, tallies>>

\* The wait for room, which yields as long as the pipe is full.
FindRoom(w) ==
  /\ pc[w] = "room"
  /\ count < PIPE_BUF_SIZE
  /\ Goto(w, "copy")
  /\ UNCHANGED <<pipeVars, left, len, waits, tallies>>

RoomAsked(w) == left[w]

\* The chunk: other writers may have filled the pipe since FindRoom.
Chunk(w) == Least(left[w], PIPE_BUF_SIZE - count)

FirstByte(w, i) == <<w, i + 1>>

\* buf[written + i], in a call that begins after the bytes w wrote before.
NextByte(w, i) == <<w, Total - todo[w] + i + 1>>

\* The section between cli and sti.
CopyIn(w) ==
  LET n == Chunk(w)
  IN  /\ pc[w] = "copy"
      /\ buf' = [i \in Places |-> IF Beyond(i, write_pos) < n
                                  THEN NextByte(w, Beyond(i, write_pos))
                                  ELSE buf[i]]
      /\ write_pos' = Wrap(write_pos + n)
      /\ count' = count + n
      /\ left' = [left EXCEPT ![w] = @ - n]
      /\ todo' = [todo EXCEPT ![w] = @ - n]
      /\ Goto(w, IF n = left[w] THEN "out" ELSE "room")
      /\ UNCHANGED <<used, read_pos, write_closed, len, waits, got, lives>>

-----------------------------------------------------------------------------
(* pipe_read and pipe_read_nb                                               *)

\* pipe_read begins with its wait, pipe_read_nb with the test after it.
ReadCall(r) ==
  /\ pc[r] = "out" /\ used
  /\ \E n \in ReadLens : len' = [len EXCEPT ![r] = n]
  /\ \/ Goto(r, "wait") /\ waits' = waits \cup {r}
     \/ Goto(r, "test") /\ waits' = waits \ {r}
  /\ UNCHANGED <<pipeVars, left, tallies>>

\* The wait reads p.count,
WaitCount(r) ==
  /\ pc[r] = "wait"
  /\ Goto(r, IF count = 0 THEN "closed" ELSE "test")
  /\ UNCHANGED <<pipeVars, left, len, waits, tallies>>

ClosedMeansEnd(r) ==
  /\ pc[r] = "closed"
  /\ Goto(r, IF write_closed THEN "gone" ELSE "wait")
  /\ UNCHANGED <<pipeVars, left, len, waits, tallies>>

\* then p.write_closed, and yields if that is not set either.
WaitClosed(r) ==
  /\ pc[r] = "closed"
  /\ Goto(r, IF write_closed THEN "test" ELSE "wait")
  /\ UNCHANGED <<pipeVars, left, len, waits, tallies>>

\* What a reader does after its call has returned n.
After(r, n) == Goto(r, IF n = 0 /\ r \in waits THEN "gone" ELSE "out")

\* The test p.count == 0, after which the call returns 0.
TestCount(r) ==
  /\ pc[r] = "test"
  /\ IF count = 0 THEN After(r, 0) ELSE Goto(r, "take")
  /\ UNCHANGED <<pipeVars, left, len, waits, tallies>>

\* The byte that is read after k others, and those of w among the next n.
Nth(k) == buf[Wrap(read_pos + k)]
OfWriter(w, n) == {k \in 0 .. n - 1 : Nth(k)[1] = w}

\* avail, which may be 0 when another reader came first.
Avail(r) == Least(count, len[r])

\* The section between cli and sti.
CopyOut(r) ==
  LET n == Avail(r)
  IN  /\ pc[r] = "take"
      /\ read_pos' = Wrap(read_pos + n)
      /\ count' = count - n
      /\ got' = [w \in Writers |-> got[w] + Cardinality(OfWriter(w, n))]
      /\ After(r, n)
      /\ UNCHANGED <<used, buf, write_pos, write_closed, left, len, waits, todo, lives>>

-----------------------------------------------------------------------------
\* pipe_init_all.
Init ==
  /\ used = FALSE
  /\ buf = [i \in Places |-> NoByte]
  /\ read_pos = 0 /\ write_pos = 0 /\ count = 0
  /\ write_closed = FALSE
  /\ pc = [t \in Threads |-> "gone"]
  /\ left = [w \in Writers |-> 0]
  /\ len = [r \in Readers |-> 0]
  /\ waits = {}
  /\ todo = [w \in Writers |-> 0]
  /\ got = [w \in Writers |-> 0]
  /\ lives = 0

Write(w) == WriteCall(w) \/ FindRoom(w) \/ CopyIn(w) \/ CloseWrite(w)
Read(r)  == ReadCall(r) \/ WaitCount(r) \/ WaitClosed(r) \/ TestCount(r) \/ CopyOut(r)

\* The slot has been used as often as the bound allows.
Finished == ~used /\ lives = Lives /\ UNCHANGED vars

Next ==
  \/ Create \/ Destroy
  \/ \E w \in Writers : Write(w)
  \/ \E r \in Readers : Read(r)
  \/ Finished

Spec == Init /\ [][Next]_vars

\* A thread that can go on gets the CPU again (ReadyRuns of module Scheduler),
\* and a reader does not poll for ever without waiting once.
FairSpec ==
  /\ Spec
  /\ WF_vars(Create) /\ WF_vars(Destroy)
  /\ \A w \in Writers : WF_vars(Write(w))
  /\ \A r \in Readers :
       /\ WF_vars(Read(r))
       /\ SF_vars(ReadCall(r) /\ pc'[r] = "wait")

-----------------------------------------------------------------------------
(* Properties                                                               *)

\* Every variable has its type; p.count never exceeds the buffer.
TypeOK ==
  /\ used \in BOOLEAN /\ write_closed \in BOOLEAN
  /\ buf \in [Places -> Bytes \cup {NoByte}]
  /\ read_pos \in Places /\ write_pos \in Places
  /\ count \in 0 .. PIPE_BUF_SIZE
  /\ pc \in [Threads -> {"out", "room", "copy", "wait", "closed", "test", "take", "gone"}]
  /\ left \in [Writers -> 0 .. Total]
  /\ len \in [Readers -> Nat]
  /\ waits \subseteq Readers
  /\ todo \in [Writers -> 0 .. Total]
  /\ got \in [Writers -> 0 .. Total]
  /\ lives \in 0 .. Lives

Held == 0 .. count - 1

\* Whatever the interleaving of writers and readers, the bytes of each writer
\* come out once each and in their order: the pipe holds exactly those from the
\* last that was read to the last that was written, the earlier ones before the
\* later ones.
Stream ==
  used =>
    /\ \A k \in Held : Nth(k) \in Bytes
    /\ \A w \in Writers, m \in 1 .. Total :
         (\E k \in Held : Nth(k) = <<w, m>>) <=> got[w] < m /\ m <= Total - todo[w]
    /\ \A j, k \in Held : j < k /\ Nth(j)[1] = Nth(k)[1] => Nth(j)[2] < Nth(k)[2]

\* A pipe_read that finds the pipe empty and then closed may have missed bytes
\* written in between, and one that another reader has overtaken returns 0
\* before the end; but the last reader never leaves a byte behind.
NothingLeftBehind ==
  used /\ (\A r \in Readers : pc[r] = "gone") =>
    /\ write_closed
    /\ count = 0
    /\ \A w \in Writers : todo[w] = 0 /\ got[w] = Total

\* No writer and reader wait for each other: each time the slot is created, all
\* that is written is read and everybody leaves.
AllDelivered ==
  \A n \in 1 .. Lives :
    (lives = n) ~> (\A t \in Threads : pc[t] = "gone") /\ \A w \in Writers : got[w] = Total
===============================================================================
