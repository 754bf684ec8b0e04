------------------------------ MODULE AccessProofs ------------------------------
(***************************************************************************)
(* Proofs about the two modules in which a step is one access to shared    *)
(* memory: Mutex, for any set of threads and number of rounds, and         *)
(* NetQueue, for every set of packets and MODULUS.                         *)
(*                                                                         *)
(* Mutual exclusion is not inductive: it needs that whoever is past the    *)
(* xchg keeps locked set (HoldersLock), and, for the early return of       *)
(* mutex_lock, that the owner field names nobody but a thread inside       *)
(* (OwnerHolds, HolderOwns).                                               *)
(*                                                                         *)
(* The invariant QueueInv says what each side of the queue may rely on     *)
(* while it works: the slot at head is the handler's until it moves head,  *)
(* the slot at tail is net_poll's until it moves tail, and every slot in   *)
(* between holds one packet.  From it follow that no packet is torn, and   *)
(* that the queue implements PacketFifo.                                   *)
(***************************************************************************)
EXTENDS Mutex, NetQueue, SequenceTheorems, TLAPS

-----------------------------------------------------------------------------
(* The mutex                                                                *)

\* p has won the xchg and has not yet cleared m->locked.
Holds(p) ==
  pc[p] \in {"own", "in", "store", "leave", "unlock"} \/ p \in nested

HoldersLock == \A p \in Threads : Holds(p) => locked

OneHolder == \A p, q \in Threads : Holds(p) /\ Holds(q) => p = q

HolderOwns == \A p \in Threads : Critical(p) => owner = p

OwnerHolds == \A p \in Threads : owner = p => Critical(p)

NestedReads == \A p \in nested : pc[p] = "whose"

\* Whoever is not done has a round to finish.
TodoLeft == \A p \in Threads : pc[p] # "done" => todo[p] > 0

MutexInv ==
  MutexTypeOK /\ HoldersLock /\ OneHolder /\ HolderOwns /\ OwnerHolds /\ NestedReads
    /\ NoLostUpdate /\ TodoLeft

-----------------------------------------------------------------------------
\* The initial state satisfies the invariant.
LEMMA MutexInitInv == MutexInit => MutexInv
  <1> SUFFICES ASSUME MutexInit PROVE MutexInv
    OBVIOUS
  <1>0. Rounds \in 0 .. Rounds
    BY MutexAssumption
  <1>1. MutexTypeOK
    BY <1>0 DEF MutexInit, MutexTypeOK, Labels
  <1>2. TodoLeft /\ nested = {}
    BY MutexAssumption DEF MutexInit, TodoLeft
  <1>3. \A p \in Threads : ~Holds(p) /\ ~Critical(p) /\ owner # p /\ pc[p] # "store"
    BY MutexAssumption DEF MutexInit, Holds, Critical
  <1> QED
    BY <1>1, <1>2, <1>3
    DEF MutexInv, HoldersLock, OneHolder, HolderOwns, OwnerHolds, NestedReads, NoLostUpdate

\* Every step of a thread preserves it.
LEMMA MutexStepInv == ASSUME MutexInv, NEW p \in Threads, Step(p) PROVE MutexInv'
  <1> USE DEF MutexInv, HoldersLock, OneHolder, HolderOwns, OwnerHolds, NestedReads,
              NoLostUpdate, TodoLeft, Holds, Critical, Goto
  <1>1. MutexTypeOK'
    <2> USE DEF MutexTypeOK, Labels
    <2>1. CASE ReadLocked(p) \/ ReadOwner(p) \/ TryLock(p) \/ SetOwner(p)
      BY <2>1 DEF ReadLocked, ReadOwner, TryLock, SetOwner
    <2>2. CASE LoadCounter(p) \/ StoreCounter(p) \/ ClearOwner(p)
      BY <2>2 DEF LoadCounter, StoreCounter, ClearOwner
    <2>3. CASE Unlock(p)
      <3>1. todo[p] \in 0 .. Rounds /\ todo[p] > 0
        BY <2>3 DEF Unlock
      <3>2. todo[p] - 1 \in 0 .. Rounds
        BY <3>1, MutexAssumption
      <3> QED
        BY <2>3, <3>2 DEF Unlock
    <2> QED
      BY <2>1, <2>2, <2>3 DEF Step
  <1>2. CASE ReadLocked(p)
    BY <1>1, <1>2 DEF ReadLocked, MutexTypeOK
  <1>3. CASE ReadOwner(p)
    BY <1>1, <1>3 DEF ReadOwner, MutexTypeOK
  <1>4. CASE TryLock(p)
    BY <1>1, <1>4 DEF TryLock, MutexTypeOK
  <1>5. CASE SetOwner(p)
    BY <1>1, <1>5 DEF SetOwner, MutexTypeOK
  <1>6. CASE LoadCounter(p)
    BY <1>1, <1>6 DEF LoadCounter, MutexTypeOK
  <1>7. CASE StoreCounter(p)
    BY <1>1, <1>7 DEF StoreCounter, MutexTypeOK
  <1>8. CASE ClearOwner(p)
    BY <1>1, <1>8, MutexAssumption DEF ClearOwner, MutexTypeOK
  <1>9. CASE Unlock(p)
    BY <1>1, <1>9, MutexAssumption DEF Unlock, MutexTypeOK
  <1> QED
    BY <1>2, <1>3, <1>4, <1>5, <1>6, <1>7, <1>8, <1>9 DEF Step

\* The invariant holds in every state the threads reach.
LEMMA MutexInvariant == MutexSpec => []MutexInv
  <1>1. MutexInv /\ [MutexNext]_mutexVars => MutexInv'
    <2>1. ASSUME MutexInv, UNCHANGED mutexVars PROVE MutexInv'
      BY <2>1
      DEF mutexVars, MutexInv, MutexTypeOK, HoldersLock, OneHolder, HolderOwns, OwnerHolds, NestedReads,
          NoLostUpdate, TodoLeft, Holds, Critical
    <2> QED
      BY <2>1, MutexStepInv DEF MutexNext, Finished
  <1> QED
    BY MutexInitInv, <1>1, PTL DEF MutexSpec

\* Every variable keeps its type.
THEOREM MutexTypeCorrect == MutexSpec => []MutexTypeOK
  <1>1. MutexInv => MutexTypeOK
    BY DEF MutexInv
  <1> QED
    BY MutexInvariant, <1>1, PTL

\* At most one thread is between mutex_lock and mutex_unlock (mutex.cpp), for
\* any number of threads, and although mutex_lock trusts the owner field.
THEOREM MutualExclusionCorrect == MutexSpec => []MutualExclusion
  <1>1. MutexInv => MutualExclusion
    BY DEF MutexInv, OneHolder, Holds, MutualExclusion, Critical
  <1> QED
    BY MutexInvariant, <1>1, PTL

\* A thread that calls mutex_lock on a mutex it holds returns at once.
THEOREM HolderNeverWaitsCorrect == MutexSpec => []HolderNeverWaits
  <1>1. MutexInv => HolderNeverWaits
    BY DEF MutexInv, NestedReads, HolderNeverWaits
  <1> QED
    BY MutexInvariant, <1>1, PTL

\* The increment that the mutex of kernel.cpp protects loses no update.
THEOREM NoLostUpdateCorrect == MutexSpec => []NoLostUpdate
  <1>1. MutexInv => NoLostUpdate
    BY DEF MutexInv
  <1> QED
    BY MutexInvariant, <1>1, PTL

-----------------------------------------------------------------------------
(* The queue                                                                *)

\* Slot i lies between tail and head.
Live(i) == IF tail <= head THEN tail <= i /\ i < head ELSE tail <= i \/ i < head

\* The handler has a packet to queue, and found room for it.
Writing ==
  ipc # "idle" => incoming \in Packets /\ incoming \notin Unfit /\ ~Full

\* What the handler has written so far.
Written ==
  /\ ipc \in {"len", "publish"} => slots[head].data = incoming
  /\ ipc = "publish" => slots[head].len = incoming

\* What net_poll has read so far.
Reading ==
  /\ ppc # "idle" => head # tail
  /\ ppc \in {"data", "release"} => out.len = slots[tail].len
  /\ ppc = "release" => out.data = slots[tail].data

\* Every queued packet is whole.
LiveWhole ==
  \A i \in Index :
    Live(i) => slots[i].data \in Packets /\ slots[i].len = slots[i].data

QueueInv == TypeOK /\ Writing /\ Written /\ Reading /\ LiveWhole /\ WholePackets

-----------------------------------------------------------------------------
\* The index after i is an index, and is not i.
LEMMA SuccFacts ==
  ASSUME NEW i \in Index PROVE Succ(i) \in Index /\ Succ(i) # i
  BY NetQueueAssumption DEF Succ, Index

\* netq_init makes the invariant true.
LEMMA QueueInitInv == Init => QueueInv
  <1> SUFFICES ASSUME Init PROVE QueueInv
    OBVIOUS
  <1>1. TypeOK
    BY NetQueueAssumption DEF Init, TypeOK, Index, Slot, Empty
  <1>2. \A i \in Index : ~Live(i)
    BY DEF Init, Live, Index
  <1> QED
    BY <1>1, <1>2 DEF Init, QueueInv, Writing, Written, Reading, LiveWhole, WholePackets, Empty

\* Every step keeps the types.
LEMMA TypeStep == ASSUME TypeOK, Writing, Next PROVE TypeOK'
  <1> USE DEF TypeOK, Slot
  <1>1. CASE \E p \in Packets : Refuse(p) \/ Admit(p)
    BY <1>1 DEF Refuse, Admit, deqVars
  <1>2. CASE WriteData
    BY <1>2 DEF WriteData, deqVars
  <1>3. CASE WriteLen
    BY <1>3 DEF WriteLen, deqVars
  <1>4. CASE Publish
    BY <1>4, SuccFacts DEF Publish, deqVars
  <1>5. CASE FindPacket
    BY <1>5 DEF FindPacket, enqVars
  <1>6. CASE ReadLen \/ ReadData
    BY <1>6 DEF ReadLen, ReadData, enqVars
  <1>7. CASE Release
    BY <1>7, SuccFacts DEF Release, enqVars
  <1> QED
    BY <1>1, <1>2, <1>3, <1>4, <1>5, <1>6, <1>7 DEF Next, Enqueue, Dequeue

\* The live slots after head has moved on are the old ones and the old head.
LEMMA PublishLive ==
  ASSUME TypeOK, ~Full, head' = Succ(head), tail' = tail, NEW i \in Index, Live(i)'
  PROVE  Live(i) \/ i = head
  BY NetQueueAssumption DEF TypeOK, Index, Succ, Full, Live

\* The live slots after tail has moved on were live before.
LEMMA ReleaseLive ==
  ASSUME TypeOK, head # tail, tail' = Succ(tail), head' = head, NEW i \in Index, Live(i)'
  PROVE  Live(i)
  BY NetQueueAssumption DEF TypeOK, Index, Succ, Live

\* The oldest packet's slot is live, the handler's slot is not.
LEMMA EndsLive == ASSUME TypeOK PROVE (head # tail => Live(tail)) /\ ~Live(head)
  BY DEF TypeOK, Index, Live

\* Every step preserves the invariant.
LEMMA QueueStepInv == ASSUME QueueInv, Next PROVE QueueInv'
  <1> USE DEF QueueInv
  <1>1. TypeOK'
    BY TypeStep
  <1> USE <1>1
  <1>2. CASE \E p \in Packets : Refuse(p) \/ Admit(p)
    BY <1>2
    DEF Refuse, Admit, deqVars, Writing, Written, Reading, LiveWhole, WholePackets, Live, Full
  <1>3. CASE WriteData
    <2>1. \A i \in Index : i # head => slots'[i] = slots[i]
      BY <1>3 DEF WriteData, TypeOK
    <2>2. slots'[head].data = incoming
      BY <1>3 DEF WriteData, TypeOK, Slot
    <2>3. Reading'
      BY <1>3, <2>1 DEF WriteData, deqVars, Reading, TypeOK
    <2>4. LiveWhole'
      BY <1>3, <2>1, EndsLive DEF WriteData, deqVars, LiveWhole, Live
    <2> QED
      BY <1>3, <2>2, <2>3, <2>4
      DEF WriteData, deqVars, Writing, Written, WholePackets, Full
  <1>4. CASE WriteLen
    <2>1. \A i \in Index : i # head => slots'[i] = slots[i]
      BY <1>4 DEF WriteLen, TypeOK
    <2>2. slots'[head].len = incoming /\ slots'[head].data = slots[head].data
      BY <1>4 DEF WriteLen, TypeOK, Slot
    <2>3. Reading'
      BY <1>4, <2>1 DEF WriteLen, deqVars, Reading, TypeOK
    <2>4. LiveWhole'
      BY <1>4, <2>1, EndsLive DEF WriteLen, deqVars, LiveWhole, Live
    <2> QED
      BY <1>4, <2>2, <2>3, <2>4
      DEF WriteLen, deqVars, Writing, Written, WholePackets, Full
  <1>5. CASE Publish
    <2>1. head' = Succ(head) /\ tail' = tail /\ slots' = slots
      BY <1>5 DEF Publish, deqVars
    <2>2. ~Full /\ incoming \in Packets
      BY <1>5 DEF Publish, Writing
    <2>3. LiveWhole'
      BY <1>5, <2>1, <2>2, PublishLive DEF Publish, LiveWhole, Written
    <2>4. Reading'
      BY <1>5, <2>1, <2>2 DEF Publish, deqVars, Reading, Full
    <2> QED
      BY <1>5, <2>3, <2>4 DEF Publish, deqVars, Writing, Written, WholePackets
  <1>6. CASE FindPacket
    BY <1>6
    DEF FindPacket, enqVars, Writing, Written, Reading, LiveWhole, WholePackets, Live, Full
  <1>7. CASE ReadLen
    <2>1. out'.len = slots[tail].len
      BY <1>7 DEF ReadLen, TypeOK, Slot
    <2> QED
      BY <1>7, <2>1
      DEF ReadLen, enqVars, Writing, Written, Reading, LiveWhole, WholePackets, Live, Full
  <1>8. CASE ReadData
    <2>1. out'.data = slots[tail].data /\ out'.len = out.len
      BY <1>8 DEF ReadData, TypeOK, Slot
    <2> QED
      BY <1>8, <2>1
      DEF ReadData, enqVars, Writing, Written, Reading, LiveWhole, WholePackets, Live, Full
  <1>9. CASE Release
    <2>1. head' = head /\ tail' = Succ(tail) /\ slots' = slots /\ head # tail
      BY <1>9 DEF Release, enqVars, Reading
    <2>2. LiveWhole'
      BY <2>1, ReleaseLive DEF LiveWhole
    <2>3. ~Full => ~Full'
      BY <2>1, NetQueueAssumption DEF Full, Succ, TypeOK, Index
    <2>4. WholePackets'
      BY <1>9, <2>1, EndsLive DEF Release, Reading, WholePackets, LiveWhole, TypeOK
    <2> QED
      BY <1>9, <2>2, <2>3, <2>4 DEF Release, enqVars, Writing, Written, Reading
  <1> QED
    BY <1>2, <1>3, <1>4, <1>5, <1>6, <1>7, <1>8, <1>9 DEF Next, Enqueue, Dequeue

\* Nothing the invariant speaks of changes in a step that changes nothing.
LEMMA QueueStutterInv == ASSUME QueueInv, UNCHANGED vars PROVE QueueInv'
  BY DEF QueueInv, vars, enqVars, deqVars, TypeOK, Writing, Written, Reading, LiveWhole,
         WholePackets, Live, Full

\* The invariant holds in every state that can be reached.
LEMMA QueueInvariant == Spec => []QueueInv
  <1>1. QueueInv /\ [Next]_vars => QueueInv'
    BY QueueStepInv, QueueStutterInv
  <1> QED
    BY QueueInitInv, <1>1, PTL DEF Spec

-----------------------------------------------------------------------------
\* Every variable keeps its type; the indices stay inside the slots.
THEOREM QueueTypeCorrect == Spec => []TypeOK
  <1>1. QueueInv => TypeOK
    BY DEF QueueInv
  <1> QED
    BY QueueInvariant, <1>1, PTL

\* Without a lock, netq_enqueue never writes the slot netq_dequeue is copying,
\* wherever the interrupt cuts net_poll.
THEOREM NeverSameSlotCorrect == Spec => []NeverSameSlot
  <1>1. QueueInv => NeverSameSlot
    BY DEF QueueInv, Reading, NeverSameSlot
  <1> QED
    BY QueueInvariant, <1>1, PTL

\* netq_dequeue returns whole packets.
THEOREM WholePacketsCorrect == Spec => []WholePackets
  <1>1. QueueInv => WholePackets
    BY DEF QueueInv
  <1> QED
    BY QueueInvariant, <1>1, PTL

-----------------------------------------------------------------------------
(* The queue implements PacketFifo                                          *)

\* Count is in range; it tells an empty queue and a full one apart.
LEMMA CountFacts ==
  ASSUME TypeOK
  PROVE  /\ Count \in 0 .. MODULUS - 1
         /\ Count = 0 <=> head = tail
         /\ Count = MODULUS - 1 <=> Full
  BY NetQueueAssumption DEF TypeOK, Index, Count, Full, Succ

\* The slots of the queue are live, and the one at head is where the next goes.
LEMMA AtFacts ==
  ASSUME TypeOK
  PROVE  /\ \A k \in 0 .. Count - 1 : At(k) \in Index /\ At(k) # head /\ Live(At(k))
         /\ At(0) = tail
         /\ At(Count) = head
  BY NetQueueAssumption DEF TypeOK, Index, Count, At, Live

\* The packets in the queue are a sequence as long as Count.
LEMMA ContentsFacts ==
  ASSUME QueueInv
  PROVE  /\ Contents \in Seq(Packets)
         /\ Len(Contents) = Count
         /\ \A k \in 1 .. Count : Contents[k] = slots[At(k - 1)].data
  <1>1. Count \in Nat
    BY CountFacts DEF QueueInv
  <1>2. \A k \in 1 .. Count : slots[At(k - 1)].data \in Packets
    <2> SUFFICES ASSUME NEW k \in 1 .. Count PROVE slots[At(k - 1)].data \in Packets
      OBVIOUS
    <2>1. k - 1 \in 0 .. Count - 1
      BY <1>1
    <2> QED
      BY <2>1, AtFacts DEF QueueInv, LiveWhole
  <1> QED
    BY <1>1, <1>2 DEF Contents

\* A step that moves neither index and writes no live slot is no step of the
\* queue's contents.
LEMMA SameContents ==
  ASSUME QueueInv, head' = head, tail' = tail,
         \A i \in Index : i # head => slots'[i].data = slots[i].data
  PROVE  Contents' = Contents
  <1>1. Count' = Count /\ Count \in Nat
    BY CountFacts DEF Count, QueueInv
  <1>2. \A k \in 1 .. Count : slots'[At(k - 1)].data = slots[At(k - 1)].data
    <2> SUFFICES ASSUME NEW k \in 1 .. Count
                 PROVE  slots'[At(k - 1)].data = slots[At(k - 1)].data
      OBVIOUS
    <2>1. k - 1 \in 0 .. Count - 1
      BY <1>1
    <2> QED
      BY <2>1, AtFacts DEF QueueInv
  <1>3. \A k \in 1 .. Count : At(k - 1)' = At(k - 1)
    BY DEF At
  <1> QED
    BY <1>1, <1>2, <1>3 DEF Contents

\* Publish appends the packet that the handler has written.
LEMMA PublishAppends ==
  ASSUME QueueInv, Publish PROVE Contents' = Append(Contents, incoming)
  <1>1. head' = Succ(head) /\ tail' = tail /\ slots' = slots /\ ~Full
    BY DEF Publish, deqVars, QueueInv, Writing
  <1>2. Count' = Count + 1 /\ Count \in Nat
    BY <1>1, CountFacts, NetQueueAssumption DEF QueueInv, TypeOK, Index, Count, Full, Succ
  <1>3. \A k \in Nat : At(k)' = At(k)
    BY <1>1 DEF At
  <1>4. slots[At(Count)].data = incoming
    BY AtFacts DEF QueueInv, Publish, Written
  <1>5. Contents' = [k \in 1 .. Count + 1 |-> slots[At(k - 1)].data]
    BY <1>1, <1>2, <1>3 DEF Contents
  <1> DEFINE app == Append(Contents, incoming)
  <1>6. incoming \in Packets
    BY DEF QueueInv, Writing, Publish
  <1>7. /\ app \in Seq(Packets) /\ Len(app) = Count + 1
        /\ \A k \in 1 .. Count : app[k] = Contents[k]
        /\ app[Count + 1] = incoming
    BY <1>6, ContentsFacts, AppendProperties
  <1>8. \A k \in 1 .. Count + 1 : slots[At(k - 1)].data = app[k]
    BY <1>2, <1>4, <1>7, ContentsFacts
  <1> HIDE DEF app
  <1>9. app = [k \in 1 .. Count + 1 |-> app[k]]
    BY <1>2, <1>7
  <1>10. Contents' = app
    BY <1>5, <1>8, <1>9
  <1> QED
    BY <1>10 DEF app

\* Release takes the oldest packet out.
LEMMA ReleaseTakes ==
  ASSUME QueueInv, Release
  PROVE  Contents # <<>> /\ Contents' = Tail(Contents) /\ Head(Contents) = out.data
  <1>1. tail' = Succ(tail) /\ head' = head /\ slots' = slots /\ head # tail
    BY DEF Release, enqVars, QueueInv, Reading
  <1>2. Count' = Count - 1 /\ Count \in Nat /\ Count > 0
    BY <1>1, CountFacts, NetQueueAssumption DEF QueueInv, TypeOK, Index, Count, Succ
  <1>3. \A k \in 0 .. Count - 2 : At(k)' = At(k + 1)
    BY <1>1, <1>2, CountFacts, NetQueueAssumption DEF QueueInv, TypeOK, Index, At, Succ
  <1>4. Contents' = [k \in 1 .. Count - 1 |-> slots[At(k)].data]
    <2>1. \A k \in 1 .. Count - 1 : At(k - 1)' = At(k)
      BY <1>2, <1>3
    <2> QED
      BY <1>1, <1>2, <2>1 DEF Contents
  <1>5. Head(Contents) = out.data
    BY <1>2, ContentsFacts, AtFacts DEF QueueInv, Reading, Release
  <1>6. Contents # <<>>
    BY <1>2, ContentsFacts
  <1> DEFINE rest == Tail(Contents)
  <1>7. /\ rest \in Seq(Packets) /\ Len(rest) = Count - 1
        /\ \A k \in 1 .. Count - 1 : rest[k] = Contents[k + 1]
    BY <1>6, ContentsFacts, HeadTailProperties
  <1>8. \A k \in 1 .. Count - 1 : slots[At(k)].data = rest[k]
    BY <1>2, <1>7, ContentsFacts
  <1> HIDE DEF rest
  <1>9. rest = [k \in 1 .. Count - 1 |-> rest[k]]
    BY <1>2, <1>7
  <1>10. Contents' = rest
    BY <1>4, <1>8, <1>9
  <1> QED
    BY <1>5, <1>6, <1>10 DEF rest

\* The queue of net_queue.cpp is a first-in first-out queue of MODULUS - 1
\* packets (30 of its 32 slots) that refuses a packet only when it must.
THEOREM QueueIsFifo == Spec => IsFifo
  <1>1. Init => Fifo!Init
    BY NetQueueAssumption
    DEF Init, Fifo!Init, Contents, Count, Empty
  <1>2. ASSUME QueueInv, [Next]_vars PROVE [Fifo!Next]_(Fifo!vars)
    <2> USE <1>2 DEF QueueInv
    <2>1. CASE \E p \in Packets : Refuse(p)
      <3>1. PICK p \in Packets : Refuse(p)
        BY <2>1
      <3>2. Contents' = Contents /\ got' = got
        BY <3>1, SameContents DEF Refuse, deqVars
      <3>3. p \in Unfit \/ Len(Contents) = MODULUS - 1
        BY <3>1, ContentsFacts, CountFacts DEF Refuse
      <3> QED
        BY <3>1, <3>2, <3>3 DEF Refuse, Fifo!Next, Fifo!Refuse
    <2>2. CASE \E p \in Packets : Admit(p)
      BY <2>2, SameContents DEF Admit, deqVars, Fifo!vars
    <2>3. CASE WriteData
      <3>1. \A i \in Index : i # head => slots'[i].data = slots[i].data
        BY <2>3 DEF WriteData, TypeOK
      <3> QED
        BY <2>3, <3>1, SameContents DEF WriteData, deqVars, Fifo!vars
    <2>4. CASE WriteLen
      <3>1. \A i \in Index : i # head => slots'[i].data = slots[i].data
        BY <2>4 DEF WriteLen, TypeOK
      <3> QED
        BY <2>4, <3>1, SameContents DEF WriteLen, deqVars, Fifo!vars
    <2>5. CASE Publish
      <3>1. incoming \in Packets /\ incoming \notin Unfit /\ Len(Contents) < MODULUS - 1
        BY <2>5, ContentsFacts, CountFacts, NetQueueAssumption DEF Publish, Writing
      <3> QED
        BY <2>5, <3>1, PublishAppends DEF Publish, deqVars, Fifo!Next, Fifo!Take
    <2>6. CASE FindPacket \/ ReadLen \/ ReadData
      BY <2>6, SameContents DEF FindPacket, ReadLen, ReadData, enqVars, Fifo!vars
    <2>7. CASE Release
      BY <2>7, ReleaseTakes DEF Release, enqVars, Fifo!Next, Fifo!HandOut
    <2>8. CASE UNCHANGED vars
      BY <2>8, SameContents DEF vars, enqVars, deqVars, Fifo!vars
    <2> QED
      BY <2>1, <2>2, <2>3, <2>4, <2>5, <2>6, <2>7, <2>8 DEF Next, Enqueue, Dequeue
  <1> QED
    BY QueueInvariant, <1>1, <1>2, PTL DEF Spec, IsFifo, Fifo!Spec
=================================================================================
