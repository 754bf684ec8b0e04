-------------------------------- MODULE NetQueue --------------------------------
(***************************************************************************)
(* The queue of kernel/net_queue.cpp between net_receive, which the        *)
(* interrupt handler of the network card calls for every frame, and the    *)
(* loop of net_poll.  There is no lock: each side reads both indices and   *)
(* writes its own.                                                         *)
(*                                                                         *)
(* A step is one access to shared memory, where copying the data of a      *)
(* packet, which the other side may see half done, counts as one.  Steps   *)
(* of the two sides interleave freely: net_poll may be cut anywhere by the *)
(* interrupt, and nothing in the queue relies on the handler being atomic. *)
(***************************************************************************)
EXTENDS Integers, Sequences

CONSTANTS
  Packets,   \* the frames the card delivers
  Unfit,     \* those of length 0 or above NET_QUEUE_PKT_MAX
  NoPacket,  \* the content of a slot never written
  MODULUS,   \* NET_QUEUE_DEPTH - 1, by which both indices wrap
  Polled     \* whether anything calls net_poll; at this commit nothing does

ASSUME NetQueueAssumption ==
  /\ Unfit \subseteq Packets
  /\ NoPacket \notin Packets
  /\ MODULUS \in Nat /\ MODULUS > 1
  /\ Polled \in BOOLEAN

VARIABLES
  slots,     \* slots[i]: the data and the len of q->slots[i], each named by its packet
  head,      \* q->head, written by netq_enqueue
  tail,      \* q->tail, written by netq_dequeue
  ipc,       \* the access netq_enqueue makes next
  incoming,  \* the packet netq_enqueue is queueing
  verdict,   \* what netq_enqueue returned last
  ppc,       \* the access netq_dequeue makes next
  out,       \* what netq_dequeue has copied to *out
  got        \* *out when netq_dequeue returned last

enqVars == <<head, ipc, incoming, verdict>>
deqVars == <<tail, ppc, out, got>>
vars    == <<slots, enqVars, deqVars>>

Index == 0 .. MODULUS - 1
Slot  == [data : Packets \cup {NoPacket}, len : Packets \cup {NoPacket}]
Empty == [data |-> NoPacket, len |-> NoPacket]

\* Faulty variants, here and below, stand before the definition they break.
SuccPastEnd(i) == i + 1

\* (i + 1) % (NET_QUEUE_DEPTH - 1).
Succ(i) == IF i = MODULUS - 1 THEN 0 ELSE i + 1

-----------------------------------------------------------------------------
(* netq_enqueue                                                             *)

NeverFull == FALSE

\* The slot after head is the one netq_dequeue will read first.
Full == Succ(head) = tail

\* It returns false, and net_receive drops the frame.
Refuse(p) ==
  /\ ipc = "idle"
  /\ p \in Unfit \/ Full
  /\ verdict' = "refused"
  /\ UNCHANGED <<slots, head, ipc, incoming, deqVars>>

Admit(p) ==
  /\ ipc = "idle"
  /\ p \notin Unfit /\ ~Full
  /\ incoming' = p
  /\ ipc' = "data"
  /\ UNCHANGED <<slots, head, verdict, deqVars>>

WriteData ==
  /\ ipc = "data"
  /\ slots' = [slots EXCEPT ![head].data = incoming]
  /\ ipc' = "len"
  /\ UNCHANGED <<head, incoming, verdict, deqVars>>

WriteLen ==
  /\ ipc = "len"
  /\ slots' = [slots EXCEPT ![head].len = incoming]
  /\ ipc' = "publish"
  /\ UNCHANGED <<head, incoming, verdict, deqVars>>

\* q->head = next, and netq_enqueue returns true.
Publish ==
  /\ ipc = "publish"
  /\ head' = Succ(head)
  /\ ipc' = "idle"
  /\ verdict' = "taken"
  /\ UNCHANGED <<slots, incoming, deqVars>>

-----------------------------------------------------------------------------
(* netq_dequeue, called by net_poll until it returns false                  *)

FindPacket ==
  /\ Polled
  /\ ppc = "idle"
  /\ head # tail
  /\ ppc' = "len"
  /\ UNCHANGED <<slots, enqVars, tail, out, got>>

ReadLen ==
  /\ ppc = "len"
  /\ out' = [out EXCEPT !.len = slots[tail].len]
  /\ ppc' = "data"
  /\ UNCHANGED <<slots, enqVars, tail, got>>

ReadData ==
  /\ ppc = "data"
  /\ out' = [out EXCEPT !.data = slots[tail].data]
  /\ ppc' = "release"
  /\ UNCHANGED <<slots, enqVars, tail, got>>

ReleaseAll ==
  /\ ppc = "release"
  /\ tail' = head
  /\ ppc' = "idle"
  /\ got' = out
  /\ UNCHANGED <<slots, enqVars, out>>

\* q->tail moves on, and netq_dequeue returns true.
Release ==
  /\ ppc = "release"
  /\ tail' = Succ(tail)
  /\ ppc' = "idle"
  /\ got' = out
  /\ UNCHANGED <<slots, enqVars, out>>

-----------------------------------------------------------------------------
\* netq_init.
Init ==
  /\ slots = [i \in Index |-> Empty]
  /\ head = 0
  /\ tail = 0
  /\ ipc = "idle"
  /\ incoming = NoPacket
  /\ verdict = "none"
  /\ ppc = "idle"
  /\ out = Empty
  /\ got = Empty

Enqueue == WriteData \/ WriteLen \/ Publish
Dequeue == FindPacket \/ ReadLen \/ ReadData \/ Release

Next == (\E p \in Packets : Refuse(p) \/ Admit(p)) \/ Enqueue \/ Dequeue

Spec == Init /\ [][Next]_vars

\* Straight-line code goes on, and net_poll, if anything calls it, is called
\* again and again.  The card need not deliver anything.
FairSpec == Spec /\ WF_vars(Enqueue) /\ WF_vars(Dequeue)

-----------------------------------------------------------------------------
(* Properties                                                               *)

\* Every variable has its type.
TypeOK ==
  /\ slots \in [Index -> Slot]
  /\ head \in Index
  /\ tail \in Index
  /\ ipc \in {"idle", "data", "len", "publish"}
  /\ incoming \in Packets \cup {NoPacket}
  /\ verdict \in {"none", "taken", "refused"}
  /\ ppc \in {"idle", "len", "data", "release"}
  /\ out \in Slot
  /\ got \in Slot

\* The handler never writes the slot that net_poll is copying, although neither
\* takes a lock: the handler may decide on a tail that is out of date, but a
\* stale tail only makes the queue look fuller than it is.
NeverSameSlot == ipc \in {"data", "len"} /\ ppc # "idle" => head # tail

\* What netq_dequeue returns is one packet, its length with its data.
WholePackets == got.len = got.data

\* The indices from tail up to head, head excluded.
Count == IF tail <= head THEN head - tail ELSE head - tail + MODULUS
At(k) == IF tail + k < MODULUS THEN tail + k ELSE tail + k - MODULUS

\* The packets between tail and head, oldest first.
Contents == [k \in 1 .. Count |-> slots[At(k - 1)].data]

\* The queue keeps the promise of PacketFifo, for MODULUS - 1 packets.
Fifo == INSTANCE PacketFifo WITH
          queue <- Contents, got <- got.data, Capacity <- MODULUS - 1

IsFifo == Fifo!Spec

\* shell_net.cpp:98, when ping is done: "ICMP replies processed via net_poll".
RepliesProcessed == \A i \in Index : (tail = i /\ head # i) ~> tail # i
===============================================================================
