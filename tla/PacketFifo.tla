------------------------------- MODULE PacketFifo -------------------------------
(***************************************************************************)
(* What a packet queue between an interrupt handler and the code that      *)
(* polls it promises: packets come out whole, once, in the order in which  *)
(* they were taken in, and one is turned away only if it does not fit a    *)
(* slot or the queue is full.                                              *)
(***************************************************************************)
EXTENDS Naturals, Sequences

CONSTANTS
  Packets,   \* the packets that may arrive
  Unfit,     \* those of them that are empty or too long for a slot
  Capacity,  \* how many packets the queue holds
  NoPacket

VARIABLES
  queue,     \* the packets taken in and not yet handed out
  verdict,   \* what the last packet that arrived was told
  got        \* the packet handed out last

vars == <<queue, verdict, got>>

Init ==
  /\ queue = <<>>
  /\ verdict = "none"
  /\ got = NoPacket

\* The packet is queued.
Take(p) ==
  /\ p \notin Unfit
  /\ Len(queue) < Capacity
  /\ queue' = Append(queue, p)
  /\ verdict' = "taken"
  /\ UNCHANGED got

\* The packet is dropped.
Refuse(p) ==
  /\ p \in Unfit \/ Len(queue) = Capacity
  /\ verdict' = "refused"
  /\ UNCHANGED <<queue, got>>

\* The oldest packet is handed out.
HandOut ==
  /\ queue # <<>>
  /\ queue' = Tail(queue)
  /\ got' = Head(queue)
  /\ UNCHANGED verdict

Next == HandOut \/ \E p \in Packets : Take(p) \/ Refuse(p)

Spec == Init /\ [][Next]_vars
===============================================================================
