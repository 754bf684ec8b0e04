----------------------------------- MODULE Tcp -----------------------------------
(***************************************************************************)
(* One connection of kernel/tcp.cpp: the socket, the application that      *)
(* calls tcp_connect, tcp_send, tcp_recv and tcp_close, the segments that  *)
(* net_poll passes to tcp_receive, tcp_tick, and a peer that obeys the     *)
(* protocol.  The network loses, duplicates and reorders: what was sent    *)
(* once may arrive any number of times, late, or never.  What the peer may *)
(* have sent follows from what it has received (FromPeer).                 *)
(*                                                                         *)
(* A unit of data is a piece of at most TCP_MSS bytes; a SYN has sequence  *)
(* number 0 and unit i number i, as neither side's initial number matters  *)
(* to a comparison modulo 2^32 of numbers less than 2^31 apart.  Deadlines *)
(* are not modelled: what waits for one may find it passed at any time.    *)
(*                                                                         *)
(* At this commit nothing calls net_poll (module NetQueue): this module is *)
(* what the code does once something does.                                 *)
(***************************************************************************)
EXTENDS Integers, Sequences

CONSTANTS
  AppUnits,      \* units the application has to send
  PeerUnits,     \* units the peer has to send
  RecvBuf,       \* TCP_RECV_BUF, in units
  TCP_MAX_RETX,  \* retransmissions before the connection is dropped
  MaxRcv,        \* bound: FINs answered in TIME_WAIT count rcv_nxt up to it
  AllocFails     \* whether kmalloc may fail in tcp_send_raw

ASSUME TcpAssumption ==
  /\ AppUnits \in Nat /\ PeerUnits \in Nat
  /\ RecvBuf \in Nat \ {0}
  /\ TCP_MAX_RETX \in Nat
  /\ MaxRcv \in Nat /\ MaxRcv > PeerUnits + 1
  /\ AllocFails \in BOOLEAN

VARIABLES
  s,        \* the TcpSocket
  app,      \* where the application is
  given,    \* units the application has passed to tcp_send_raw
  recvd,    \* the units ever put into recv_buf, by their place in the peer's stream
  taken,    \* how many of them tcp_recv has taken out
  toPeer,   \* the segments sent to the peer
  peer,     \* the peer; see PeerType
  rolled    \* history: a retransmission failed for want of memory, which leaves
            \* snd_nxt at the number that was to be sent again

appVars == <<app, given, taken>>
vars    == <<s, appVars, recvd, toPeer, peer, rolled>>

TcpStates ==
  {"CLOSED", "SYN_SENT", "ESTABLISHED", "FIN_WAIT_1", "FIN_WAIT_2", "LAST_ACK", "TIME_WAIT"}

NoUnit == 0

\* What alloc_sock leaves in a socket that is then set to state st.
Fresh(st) ==
  [used |-> st # "CLOSED", state |-> st, snd_nxt |-> 0, snd_una |-> 0, rcv_nxt |-> 0,
   retx_seq |-> 0, retx_flags |-> {}, retx_unit |-> NoUnit, retx_count |-> 0,
   armed |-> FALSE]

\* free_sock.
Freed(k) == [k EXCEPT !.used = FALSE, !.state = "CLOSED"]

-----------------------------------------------------------------------------
(* tcp_send_raw                                                             *)

\* Whether kmalloc and the card let a segment go out.
Outcomes == IF AllocFails THEN BOOLEAN ELSE {TRUE}

\* The segment tcp_send_raw makes.  Its acknowledgment number is left out, as
\* the peer may send anything again, and so is the number of a bare ACK or RST.
Segment(k, flags, unit) == [flags |-> flags, seq |-> k.snd_nxt, unit |-> unit]
Bare(flag) == [flags |-> {flag}, seq |-> 0, unit |-> NoUnit]

\* The sequence numbers a segment takes up.
Advance(flags, unit) ==
  (IF unit = NoUnit THEN 0 ELSE 1) + (IF flags \cap {"SYN", "FIN"} = {} THEN 0 ELSE 1)

\* Faulty variants, here and below, stand before the definition they break.
SentUnarmed(k, flags, unit, save) ==
  [k EXCEPT !.retx_seq = IF save THEN k.snd_nxt ELSE @,
            !.retx_flags = IF save THEN flags ELSE @,
            !.retx_unit = IF save THEN unit ELSE @,
            !.snd_nxt = @ + Advance(flags, unit)]

\* The socket after it: the segment is kept for retransmission if save is set.
Sent(k, flags, unit, save) ==
  LET kept == save /\ Advance(flags, unit) > 0
  IN  [k EXCEPT !.retx_seq = IF kept THEN k.snd_nxt ELSE @,
                !.retx_flags = IF kept THEN flags ELSE @,
                !.retx_unit = IF kept THEN unit ELSE @,
                !.retx_count = IF kept THEN 0 ELSE @,
                !.armed = kept \/ @,
                !.snd_nxt = @ + Advance(flags, unit)]

\* tcp_send_raw from socket k leaves the socket as s' and returns ok.
SendRaw(k, flags, unit, save, ok) ==
  /\ s' = IF ok THEN Sent(k, flags, unit, save) ELSE k
  /\ toPeer' = IF ok THEN toPeer \cup {Segment(k, flags, unit)} ELSE toPeer

\* The socket becomes k, and a bare ACK or RST goes out.
SendBare(k, flag) ==
  /\ s' = k
  /\ \E ok \in Outcomes : toPeer' = IF ok THEN toPeer \cup {Bare(flag)} ELSE toPeer

-----------------------------------------------------------------------------
(* The application                                                          *)

\* tcp_connect up to its wait.
Connect ==
  /\ app = "start"
  /\ \E ok \in Outcomes :
       /\ IF ok THEN SendRaw(Fresh("SYN_SENT"), {"SYN"}, NoUnit, TRUE, ok)
                ELSE s' = Freed(s) /\ UNCHANGED toPeer
       /\ app' = IF ok THEN "connecting" ELSE "end"
  /\ UNCHANGED <<given, taken, recvd, peer, rolled>>

\* Its wait ends: the connection stands, is gone, or the deadline has passed.
ConnectReturn ==
  /\ app = "connecting"
  /\ \/ s.state = "ESTABLISHED" /\ app' = "open" /\ UNCHANGED s
     \/ s.state # "ESTABLISHED" /\ app' = "end" /\ s' = Freed(s)
  /\ UNCHANGED <<given, taken, recvd, toPeer, peer, rolled>>

\* tcp_send begins only on an established connection; once it has begun it does
\* not look at the state again.
SendChunk ==
  /\ \/ app = "open" /\ s.used /\ s.state = "ESTABLISHED"
     \/ app = "sending"
  /\ given < AppUnits
  /\ \E ok \in Outcomes :
       /\ SendRaw(s, {"ACK"}, given + 1, TRUE, ok)
       /\ app' = IF ok THEN "acking" ELSE "open"
       /\ given' = IF ok THEN given + 1 ELSE given
  /\ UNCHANGED <<taken, recvd, peer, rolled>>

\* The wait for an ACK ends, with it, by its deadline or because the socket is
\* gone: the next chunk of this call is due, or the call returns.
SendWaitEnds ==
  /\ app = "acking"
  /\ \/ given < AppUnits /\ app' = "sending"
     \/ app' = "open"
  /\ UNCHANGED <<s, given, taken, recvd, toPeer, peer, rolled>>

\* tcp_recv.
Recv ==
  /\ app = "open" /\ s.used
  /\ \E n \in 1 .. Len(recvd) - taken : taken' = taken + n
  /\ UNCHANGED <<s, app, given, recvd, toPeer, peer, rolled>>

\* tcp_close, up to its wait if it has one.
Close ==
  /\ app = "open"
  /\ IF s.used /\ s.state = "ESTABLISHED"
     THEN /\ \E ok \in Outcomes :
               SendRaw([s EXCEPT !.state = "FIN_WAIT_1"], {"FIN", "ACK"}, NoUnit, TRUE, ok)
          /\ app' = "closing"
     ELSE /\ s' = IF s.used /\ s.state # "TIME_WAIT" THEN Freed(s) ELSE s
          /\ app' = "end"
          /\ UNCHANGED toPeer
  /\ UNCHANGED <<given, taken, recvd, peer, rolled>>

\* Its wait ends, by its deadline at the latest.
CloseReturn ==
  /\ app = "closing"
  /\ app' = "end"
  /\ s' = IF s.state # "TIME_WAIT" THEN Freed(s) ELSE s
  /\ UNCHANGED <<given, taken, recvd, toPeer, peer, rolled>>

-----------------------------------------------------------------------------
(* tcp_tick                                                                 *)

\* The deadline of TIME_WAIT has passed.
TimeWaitOver ==
  /\ s.used /\ s.state = "TIME_WAIT"
  /\ s' = Freed(s)
  /\ UNCHANGED <<appVars, recvd, toPeer, peer, rolled>>

\* The deadline of a retransmission has passed with nothing unacknowledged.
Disarm ==
  /\ s.used /\ s.state # "TIME_WAIT" /\ s.armed
  /\ s.snd_nxt <= s.snd_una
  /\ s' = [s EXCEPT !.armed = FALSE]
  /\ UNCHANGED <<appVars, recvd, toPeer, peer, rolled>>

GiveUpNever(k) == [k EXCEPT !.retx_count = 0]

\* The retransmission limit is reached.
GiveUp(k) == Freed(k)

NotRewound(k) == k

\* do_retransmit goes back to the number of the segment kept.
Rewound(k) == [k EXCEPT !.snd_nxt = k.retx_seq]

\* do_retransmit: the one segment kept is sent again, under its number.
Retransmit ==
  LET k == [s EXCEPT !.retx_count = @ + 1]
  IN  /\ s.used /\ s.state # "TIME_WAIT" /\ s.armed
      /\ s.snd_nxt > s.snd_una
      /\ s.retx_unit # NoUnit \/ s.retx_flags \cap {"SYN", "FIN"} # {}
      /\ IF k.retx_count > TCP_MAX_RETX
         THEN s' = GiveUp(k) /\ UNCHANGED <<toPeer, rolled>>
         ELSE \E ok \in Outcomes :
                /\ SendRaw(Rewound(k), k.retx_flags, k.retx_unit, FALSE, ok)
                /\ rolled' = (rolled \/ ~ok)
      /\ UNCHANGED <<appVars, recvd, peer>>

-----------------------------------------------------------------------------
(* The peer and the network, external to the code                           *)

PeerType ==
  [up : BOOLEAN,           \* it has not been reset and has not reset
   open : BOOLEAN,         \* our ACK has completed its side of the handshake
   next : Nat,             \* the number it expects next
   got : Seq(Nat),         \* the units it has received in order
   ended : BOOLEAN]        \* it has received our FIN

\* The peer's SYN; a piece of its stream, with its FIN at the end or without,
\* or a bare ACK (n = 0).
SynAck(a) == [flags |-> {"SYN", "ACK"}, seq |-> 0, n |-> 0, ack |-> a]
Pieces(a) ==
  {[flags |-> {"ACK"}, seq |-> i, n |-> n, ack |-> a] :
     i \in 1 .. PeerUnits + 1, n \in 0 .. 2}
Ends(a) ==
  {[flags |-> {"ACK", "FIN"}, seq |-> PeerUnits + 1 - n, n |-> n, ack |-> a] :
     n \in 0 .. 1}

\* Every segment the peer may have sent so far.
FromPeer ==
  (IF peer.next > 0 THEN {SynAck(1)} ELSE {})
    \cup (IF peer.open
          THEN UNION {{m \in Pieces(a) \cup Ends(a) :
                         m.seq > 0 /\ m.seq + m.n <= PeerUnits + 1} : a \in 1 .. peer.next}
          ELSE {})
    \cup (IF peer.up THEN {} ELSE {[flags |-> {"RST"}, seq |-> 0, n |-> 0, ack |-> 0]})

\* The peer receives m, and ignores what it does not expect.
PeerReceives(m) ==
  /\ peer.up
  /\ peer' =
       CASE "RST" \in m.flags -> [peer EXCEPT !.up = FALSE]
         [] "SYN" \in m.flags /\ peer.next = 0 -> [peer EXCEPT !.next = 1]
         [] m.unit # NoUnit /\ m.seq = peer.next /\ ~peer.ended ->
              [peer EXCEPT !.next = @ + 1, !.got = Append(@, m.unit), !.open = TRUE]
         [] "FIN" \in m.flags /\ m.seq = peer.next /\ ~peer.ended ->
              [peer EXCEPT !.next = @ + 1, !.ended = TRUE, !.open = TRUE]
         [] OTHER -> [peer EXCEPT !.open = @ \/ ("ACK" \in m.flags /\ peer.next > 0)]
  /\ UNCHANGED <<s, appVars, recvd, toPeer, rolled>>

PeerResets ==
  /\ peer.up /\ peer.next > 0
  /\ peer' = [peer EXCEPT !.up = FALSE]
  /\ UNCHANGED <<s, appVars, recvd, toPeer, rolled>>

-----------------------------------------------------------------------------
(* tcp_receive                                                              *)

\* No socket has the segment's ports: answered with RST, unless it is one.
RcvUnknown(m) ==
  /\ ~s.used /\ "RST" \notin m.flags
  /\ SendBare(s, "RST")
  /\ UNCHANGED <<appVars, recvd, peer, rolled>>

RcvRst(m) ==
  /\ s.used /\ "RST" \in m.flags
  /\ s' = Freed(s)
  /\ UNCHANGED <<appVars, recvd, toPeer, peer, rolled>>

\* The socket after the acknowledgment in m, whatever the state.
Acked(m) ==
  IF "ACK" \in m.flags /\ m.ack > s.snd_una /\ s.snd_nxt >= m.ack
  THEN IF m.ack = s.snd_nxt
       THEN [s EXCEPT !.snd_una = m.ack, !.armed = FALSE, !.retx_unit = NoUnit,
                      !.retx_count = 0]
       ELSE [s EXCEPT !.snd_una = m.ack]
  ELSE s

\* m comes for the socket in state st, and is no RST.
Comes(m, st) == s.used /\ s.state = st /\ "RST" \notin m.flags

RcvSynSent(m) ==
  /\ Comes(m, "SYN_SENT")
  /\ CASE {"SYN", "ACK"} \subseteq m.flags /\ m.ack # s.snd_nxt ->
            SendBare(Freed(Acked(m)), "RST")
       [] {"SYN", "ACK"} \subseteq m.flags /\ m.ack = s.snd_nxt ->
            SendBare([Acked(m) EXCEPT !.rcv_nxt = m.seq + 1, !.snd_una = m.ack,
                                      !.state = "ESTABLISHED", !.armed = FALSE], "ACK")
       [] OTHER -> s' = Acked(m) /\ UNCHANGED toPeer
  /\ UNCHANGED <<appVars, recvd, peer, rolled>>

ExpectsAny(m) == m.n > 0

\* The data of m begins where the socket's stream ends.
Expected(m) == m.n > 0 /\ m.seq = s.rcv_nxt

RoomUnbounded(m) == m.n

\* How many of its units recv_buf takes.
Stored(m) ==
  LET space == RecvBuf - (Len(recvd) - taken)
  IN  IF Expected(m) THEN IF m.n < space THEN m.n ELSE space ELSE 0

CountedAll(m) == IF Expected(m) THEN m.n ELSE 0

\* How far rcv_nxt moves: past what was stored, not past what had no room.
Counted(m) == Stored(m)

\* recv_buf takes them.
Store(m) == recvd' = recvd \o [i \in 1 .. Stored(m) |-> m.seq + i - 1]

RcvData(m) ==
  LET k == [Acked(m) EXCEPT !.rcv_nxt = @ + Counted(m)]
  IN  /\ Comes(m, "ESTABLISHED") /\ "FIN" \notin m.flags
      /\ Store(m)
      /\ IF Expected(m) THEN SendBare(k, "ACK") ELSE s' = k /\ UNCHANGED toPeer
      /\ UNCHANGED <<appVars, peer, rolled>>

\* A FIN is taken as it comes, also when what precedes it has not arrived; our
\* own FIN is sent at once.
RcvFin(m) ==
  LET k == [Acked(m) EXCEPT !.rcv_nxt = @ + Counted(m) + 1, !.state = "LAST_ACK"]
  IN  /\ Comes(m, "ESTABLISHED") /\ "FIN" \in m.flags
      /\ Store(m)
      /\ \E ack, ok \in Outcomes :
           /\ s' = IF ok THEN Sent(k, {"FIN", "ACK"}, NoUnit, TRUE) ELSE k
           /\ toPeer' = toPeer \cup (IF ack THEN {Bare("ACK")} ELSE {})
                               \cup (IF ok THEN {Segment(k, {"FIN", "ACK"}, NoUnit)} ELSE {})
      /\ UNCHANGED <<appVars, peer, rolled>>

\* A FIN in one of the states FIN_WAIT, socket k being the rest of the change.
FinishWait(m, k) ==
  IF "FIN" \in m.flags
  THEN SendBare([k EXCEPT !.rcv_nxt = @ + 1, !.state = "TIME_WAIT"], "ACK")
  ELSE s' = k /\ UNCHANGED toPeer

\* Any ACK counts as that of our FIN; data is ignored.
RcvFinWait1(m) ==
  /\ Comes(m, "FIN_WAIT_1")
  /\ FinishWait(m, IF "ACK" \in m.flags THEN [Acked(m) EXCEPT !.state = "FIN_WAIT_2"]
                                        ELSE Acked(m))
  /\ UNCHANGED <<appVars, recvd, peer, rolled>>

RcvFinWait2(m) ==
  /\ Comes(m, "FIN_WAIT_2")
  /\ Store(m)
  /\ FinishWait(m, [Acked(m) EXCEPT !.rcv_nxt = @ + Counted(m)])
  /\ UNCHANGED <<appVars, peer, rolled>>

\* Any ACK ends the connection.
RcvLastAck(m) ==
  /\ Comes(m, "LAST_ACK")
  /\ s' = IF "ACK" \in m.flags THEN Freed(Acked(m)) ELSE Acked(m)
  /\ UNCHANGED <<appVars, recvd, toPeer, peer, rolled>>

RcvTimeWait(m) ==
  /\ Comes(m, "TIME_WAIT")
  /\ IF "FIN" \in m.flags
     THEN s.rcv_nxt < MaxRcv /\ SendBare([Acked(m) EXCEPT !.rcv_nxt = @ + 1], "ACK")
     ELSE s' = Acked(m) /\ UNCHANGED toPeer
  /\ UNCHANGED <<appVars, recvd, peer, rolled>>

Receive(m) ==
  \/ RcvUnknown(m) \/ RcvRst(m) \/ RcvSynSent(m) \/ RcvData(m) \/ RcvFin(m)
  \/ RcvFinWait1(m) \/ RcvFinWait2(m) \/ RcvLastAck(m) \/ RcvTimeWait(m)

-----------------------------------------------------------------------------
\* tcp_init.
Init ==
  /\ s = Fresh("CLOSED")
  /\ app = "start" /\ given = 0 /\ taken = 0
  /\ recvd = <<>>
  /\ toPeer = {}
  /\ peer = [up |-> TRUE, open |-> FALSE, next |-> 0, got |-> <<>>, ended |-> FALSE]
  /\ rolled = FALSE

App ==
  Connect \/ ConnectReturn \/ SendChunk \/ SendWaitEnds \/ Recv \/ Close \/ CloseReturn
Tick == TimeWaitOver \/ Disarm \/ Retransmit

Next ==
  \/ App \/ Tick
  \/ \E m \in FromPeer : Receive(m)
  \/ \E m \in toPeer : PeerReceives(m)
  \/ PeerResets

Spec == Init /\ [][Next]_vars

\* Every wait of the application has a deadline, and tcp_tick is called again
\* and again, by the net_poll that brought the segments.  Of the network and the
\* peer nothing is assumed, except that FINs do not put off the end of TIME_WAIT
\* for ever, one before each deadline.
FairSpec ==
  /\ Spec
  /\ WF_vars(ConnectReturn) /\ WF_vars(SendWaitEnds) /\ WF_vars(CloseReturn)
  /\ WF_vars(Tick)

-----------------------------------------------------------------------------
(* Properties                                                               *)

Numbers == 0 .. AppUnits + 2

\* Every variable has its type.
TypeOK ==
  /\ s \in [used : BOOLEAN, state : TcpStates, snd_nxt : Numbers, snd_una : Numbers,
            rcv_nxt : 0 .. MaxRcv, retx_seq : Numbers,
            retx_flags : SUBSET {"SYN", "ACK", "FIN"}, retx_unit : 0 .. AppUnits,
            retx_count : 0 .. TCP_MAX_RETX + 1, armed : BOOLEAN]
  /\ app \in {"start", "connecting", "open", "sending", "acking", "closing", "end"}
  /\ given \in 0 .. AppUnits /\ taken \in 0 .. Len(recvd)
  /\ recvd \in Seq(1 .. PeerUnits) /\ Len(recvd) - taken <= RecvBuf
  /\ toPeer \subseteq [flags : SUBSET {"SYN", "ACK", "FIN", "RST"}, seq : Numbers,
                       unit : 0 .. AppUnits]
  /\ peer \in PeerType
  /\ rolled \in BOOLEAN

\* What tcp_recv returns is the peer's stream from its start, without a gap or
\* a repetition, whatever the network does and however full recv_buf has been.
InOrder == \A i \in 1 .. Len(recvd) : recvd[i] = i

\* The peer receives what was passed to tcp_send, in order, as far as it gets;
\* unless a retransmission failed, after which new data takes old numbers.
PeerInOrder == rolled \/ \A i \in 1 .. Len(peer.got) : peer.got[i] = i

\* As long as the connection stands the socket acknowledges what it received
\* and no more.
AcksReceived == s.state = "ESTABLISHED" => s.rcv_nxt = Len(recvd) + 1

\* Whatever is sent and not acknowledged has its timer running, or the
\* connection would wait for an ACK that nobody will send again; unless a
\* retransmission has failed for want of memory, which leaves snd_nxt behind
\* (tcp.cpp:190), so that what is outstanding can no longer be told.
UnackedHasTimer ==
  s.used /\ s.state # "TIME_WAIT" /\ s.snd_una < s.snd_nxt => s.armed \/ rolled

\* A slot of the socket table is freed once the application has done with its
\* socket, whatever failed before.  It is freed without the application, by an
\* ACK or the limit of retransmissions, once the peer has ended the connection,
\* but not if our FIN could not be sent then (tcp.cpp:305): nothing is
\* outstanding, no timer is armed, and the slot stays taken until tcp_close.
\* Nor is it if a retransmission failed, which may end the timer as well.
SlotFreed ==
  /\ app = "end" ~> ~s.used
  /\ (s.state = "LAST_ACK" /\ s.armed) ~> (~s.used \/ rolled)
===============================================================================
