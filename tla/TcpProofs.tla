------------------------------- MODULE TcpProofs -------------------------------
(***************************************************************************)
(* Proofs about module Tcp, for any number of units, any receive buffer,   *)
(* any retransmission limit, and with or without a failing kmalloc.        *)
(*                                                                         *)
(* The invariant has three parts.  Bounds says how far the send numbers    *)
(* can have come: one for the SYN, one for each unit and one for a FIN.    *)
(* Receiving ties rcv_nxt to what recv_buf has taken, state by state.      *)
(* Sending ties the numbers of the segments that were ever sent to what    *)
(* the peer has of them; it holds as long as no retransmission has failed  *)
(* for want of memory (rolled), after which new data takes old numbers.    *)
(***************************************************************************)
EXTENDS Tcp, SequenceTheorems, TLAPS

-----------------------------------------------------------------------------
(* The send numbers                                                         *)

Kept(k) == Advance(k.retx_flags, k.retx_unit)

\* The numbers that SYN, data and FIN have used at most: a FIN is sent only on leaving
\* ESTABLISHED.
Reached == given + 1 + IF s.state \in {"SYN_SENT", "ESTABLISHED"} THEN 0 ELSE 1

Bounds ==
  /\ s.snd_nxt <= Reached
  /\ s.retx_seq + Kept(s) <= Reached
  /\ s.used => s.retx_count <= TCP_MAX_RETX
  /\ s.used <=> s.state # "CLOSED"
  /\ app = "start" => s.state = "CLOSED" /\ s.snd_nxt = 0

-----------------------------------------------------------------------------
(* The receiving side                                                       *)

Receiving ==
  /\ s.state \in {"ESTABLISHED", "FIN_WAIT_1", "FIN_WAIT_2"} => s.rcv_nxt = Len(recvd) + 1
  /\ app = "start" \/ s.state = "SYN_SENT" => recvd = <<>>
  /\ s.state = "LAST_ACK" => s.rcv_nxt <= PeerUnits + 2

-----------------------------------------------------------------------------
(* The sending side                                                         *)

Timed == s.used /\ s.snd_una < s.snd_nxt => s.armed \/ rolled

Fins == {m \in toPeer : "FIN" \in m.flags}
Data == {m \in toPeer : m.unit # NoUnit}

\* The next number follows all that were used.
Numbered ==
  \/ /\ s.snd_nxt = 0 /\ given = 0 /\ s.state = "CLOSED" /\ app \in {"start", "end"}
     /\ Fins = {} /\ Data = {}
  \/ s.snd_nxt = given + 1 + IF Fins = {} THEN 0 ELSE 1

\* The segment kept is the last that was sent, as long as something is unacknowledged.
KeptSent ==
  s.snd_una < s.snd_nxt =>
    /\ s.retx_seq + Kept(s) = s.snd_nxt
    /\ [flags |-> s.retx_flags, seq |-> s.retx_seq, unit |-> s.retx_unit] \in toPeer

\* Units have their own numbers, but for those that were sent after the FIN.
DataNumbered ==
  \A m \in Data : \/ m.seq = m.unit
                  \/ \E f \in Fins : f.seq < m.seq

OneFin ==
  /\ \A f, g \in Fins : f.seq = g.seq
  /\ \A f \in Fins, m \in Data : f.seq # m.seq
  /\ s.state \in {"SYN_SENT", "ESTABLISHED"} \/ app = "start" => Fins = {}

\* No segment is beyond the next number, and the peer is not beyond them.
AllBelow ==
  /\ \A m \in toPeer : m.seq + Advance(m.flags, m.unit) <= s.snd_nxt
  /\ \A m \in Fins \cup Data : m.seq > 0
  /\ peer.next <= s.snd_nxt

PeerCounts ==
  /\ ~peer.ended => /\ Len(peer.got) = IF peer.next = 0 THEN 0 ELSE peer.next - 1
                    /\ \A f \in Fins : peer.next <= f.seq
  /\ \A i \in 1 .. Len(peer.got) : peer.got[i] = i

Sending ==
  rolled \/ /\ Numbered /\ KeptSent /\ DataNumbered /\ OneFin /\ AllBelow /\ PeerCounts

IInv == TypeOK /\ Bounds /\ Receiving /\ InOrder /\ Timed /\ Sending

-----------------------------------------------------------------------------
(* Lemmas about the operators                                               *)

SocketType ==
  [used : BOOLEAN, state : TcpStates, snd_nxt : Numbers, snd_una : Numbers,
   rcv_nxt : 0 .. MaxRcv, retx_seq : Numbers,
   retx_flags : SUBSET {"SYN", "ACK", "FIN"}, retx_unit : 0 .. AppUnits,
   retx_count : 0 .. TCP_MAX_RETX + 1, armed : BOOLEAN]

SegmentType ==
  [flags : SUBSET {"SYN", "ACK", "FIN", "RST"}, seq : Numbers, unit : 0 .. AppUnits]

\* What the peer may have sent: data only after its SYN and within its stream.
LEMMA PeerSegments ==
  ASSUME TypeOK, NEW m \in FromPeer
  PROVE  /\ m.seq \in Nat /\ m.n \in 0 .. 2 /\ m.ack \in Nat
         /\ m.n > 0 => m.seq > 0
         /\ m.seq + m.n <= PeerUnits + 1
         /\ "SYN" \in m.flags => m.seq = 0 /\ m.n = 0
  <1>1. peer.next \in Nat
    BY DEF TypeOK, PeerType
  <1>2. CASE m = SynAck(1)
    BY <1>2, TcpAssumption DEF SynAck
  <1>3. CASE m = [flags |-> {"RST"}, seq |-> 0, n |-> 0, ack |-> 0]
    BY <1>3, TcpAssumption
  <1>4. ASSUME NEW a \in 1 .. peer.next, m \in Pieces(a), m.seq > 0, m.seq + m.n <= PeerUnits + 1
        PROVE  /\ m.seq \in Nat /\ m.n \in 0 .. 2 /\ m.ack \in Nat /\ "SYN" \notin m.flags
    BY <1>1, <1>4, TcpAssumption DEF Pieces
  <1>5. ASSUME NEW a \in 1 .. peer.next, m \in Ends(a), m.seq > 0, m.seq + m.n <= PeerUnits + 1
        PROVE  /\ m.seq \in Nat /\ m.n \in 0 .. 2 /\ m.ack \in Nat /\ "SYN" \notin m.flags
    BY <1>1, <1>5, TcpAssumption DEF Ends
  <1> QED
    BY <1>2, <1>3, <1>4, <1>5 DEF FromPeer

\* The numbers a segment takes up.
LEMMA AdvanceType ==
  ASSUME NEW flags, NEW unit
  PROVE  /\ Advance(flags, unit) \in 0 .. 2
         /\ Advance({}, NoUnit) = 0
         /\ Advance({"SYN"}, NoUnit) = 1
         /\ Advance({"FIN", "ACK"}, NoUnit) = 1
         /\ Advance({"ACK"}, NoUnit) = 0 /\ Advance({"RST"}, NoUnit) = 0
         /\ unit # NoUnit => Advance({"ACK"}, unit) = 1
         /\ Advance(flags, NoUnit) <= Advance(flags, unit)
  BY DEF Advance, NoUnit

\* An acknowledgment leaves what is kept, or takes the unit out when nothing is left to be
\* acknowledged.
LEMMA AckedFields ==
  ASSUME TypeOK, NEW m \in FromPeer
  PROVE  /\ Acked(m) \in SocketType
         /\ Acked(m).used = s.used /\ Acked(m).state = s.state
         /\ Acked(m).snd_nxt = s.snd_nxt /\ Acked(m).rcv_nxt = s.rcv_nxt
         /\ Acked(m).retx_seq = s.retx_seq /\ Acked(m).retx_flags = s.retx_flags
         /\ Acked(m).retx_unit \in {s.retx_unit, NoUnit}
         /\ Acked(m).retx_count \in {s.retx_count, 0}
         /\ Acked(m).snd_una < s.snd_nxt =>
              /\ s.snd_una < s.snd_nxt
              /\ Acked(m).armed = s.armed /\ Acked(m).retx_unit = s.retx_unit
  <1>1. m.ack \in Nat
    BY PeerSegments
  <1>2. s \in SocketType
    BY DEF TypeOK, SocketType
  <1>3. CASE "ACK" \in m.flags /\ m.ack > s.snd_una /\ s.snd_nxt >= m.ack /\ m.ack = s.snd_nxt
    <2>1. Acked(m) = [s EXCEPT !.snd_una = m.ack, !.armed = FALSE, !.retx_unit = NoUnit,
                      !.retx_count = 0]
      BY <1>3 DEF Acked
    <2>2. /\ m.ack \in Numbers /\ 0 \in 0 .. AppUnits /\ 0 \in 0 .. TCP_MAX_RETX + 1
          /\ s.snd_nxt \in Int
      BY <1>2, <1>3, TcpAssumption DEF SocketType, Numbers
    <2>3. Acked(m) \in SocketType
      BY <2>1, <2>2, <1>2 DEF SocketType, NoUnit
    <2>4. Acked(m).snd_una = s.snd_nxt
      BY <2>1, <1>2, <1>3 DEF SocketType
    <2>5. /\ Acked(m).used = s.used /\ Acked(m).state = s.state
          /\ Acked(m).snd_nxt = s.snd_nxt /\ Acked(m).rcv_nxt = s.rcv_nxt
          /\ Acked(m).retx_seq = s.retx_seq /\ Acked(m).retx_flags = s.retx_flags
          /\ Acked(m).retx_unit = NoUnit /\ Acked(m).retx_count = 0
      BY <2>1, <1>2 DEF SocketType
    <2> QED
      BY <2>2, <2>3, <2>4, <2>5
  <1>4. CASE "ACK" \in m.flags /\ m.ack > s.snd_una /\ s.snd_nxt >= m.ack /\ m.ack # s.snd_nxt
    <2>1. Acked(m) = [s EXCEPT !.snd_una = m.ack]
      BY <1>4 DEF Acked
    <2> QED
      BY <2>1, <1>1, <1>2, <1>4, TcpAssumption DEF SocketType, NoUnit, Numbers
  <1>5. CASE ~("ACK" \in m.flags /\ m.ack > s.snd_una /\ s.snd_nxt >= m.ack)
    BY <1>5, <1>2 DEF Acked
  <1> QED
    BY <1>3, <1>4, <1>5

\* A sequence 1, 2, ... that is continued with the numbers that follow.
LEMMA Continued ==
  ASSUME NEW N \in Nat, NEW q \in Seq(1 .. N), \A i \in 1 .. Len(q) : q[i] = i,
         NEW k \in Nat, NEW more \in [1 .. k -> 1 .. N],
         \A i \in 1 .. k : more[i] = Len(q) + i
  PROVE  /\ q \o more \in Seq(1 .. N)
         /\ Len(q \o more) = Len(q) + k
         /\ Len(q) + k <= N
         /\ \A i \in 1 .. Len(q) + k : (q \o more)[i] = i
  <1>1. more \in Seq(1 .. N) /\ Len(more) = k
    OBVIOUS
  <1>2. q \o more \in Seq(1 .. N) /\ Len(q \o more) = Len(q) + k
    BY <1>1, ConcatProperties
  <1>3. ASSUME NEW i \in 1 .. Len(q) + k
        PROVE  (q \o more)[i] = i
    <2>1. (q \o more)[i] = IF i <= Len(q) THEN q[i] ELSE more[i - Len(q)]
      BY <1>1, ConcatProperties
    <2>2. CASE i <= Len(q)
      BY <2>1, <2>2
    <2>3. CASE ~(i <= Len(q))
      <3>1. i - Len(q) \in 1 .. k
        BY <2>3
      <3> QED
        BY <2>1, <2>3, <3>1
    <2> QED
      BY <2>2, <2>3
  <1>4. Len(q) + k <= N
    <2>1. CASE Len(q) + k = 0
      BY <2>1
    <2>2. CASE Len(q) + k > 0
      <3>1. Len(q) + k \in 1 .. Len(q \o more) /\ Len(q) + k \in 1 .. Len(q) + k
        BY <1>2, <2>2
      <3>2. (q \o more)[Len(q) + k] = Len(q) + k
        BY <1>3, <3>1
      <3>3. (q \o more)[Len(q) + k] \in 1 .. N
        BY <1>2, <3>1, ElementOfSeq
      <3> QED
        BY <3>2, <3>3
    <2> QED
      BY <2>1, <2>2
  <1> QED
    BY <1>2, <1>3, <1>4

\* What recv_buf takes continues the peer's stream, and fits.
LEMMA StoreInOrder ==
  ASSUME TypeOK, InOrder, NEW m \in FromPeer, Store(m), s.rcv_nxt = Len(recvd) + 1
  PROVE  /\ recvd' \in Seq(1 .. PeerUnits)
         /\ Len(recvd') = Len(recvd) + Stored(m) /\ Stored(m) \in 0 .. 2
         /\ Len(recvd') - taken <= RecvBuf
         /\ Len(recvd') <= PeerUnits
         /\ \A i \in 1 .. Len(recvd') : recvd'[i] = i
  <1> DEFINE more == [i \in 1 .. Stored(m) |-> m.seq + i - 1]
  <1>1. /\ recvd \in Seq(1 .. PeerUnits) /\ Len(recvd) \in Nat /\ taken \in 0 .. Len(recvd)
        /\ Len(recvd) - taken <= RecvBuf /\ \A i \in 1 .. Len(recvd) : recvd[i] = i
    BY LenProperties DEF TypeOK, InOrder
  <1>2. /\ m.seq \in Nat /\ m.n \in 0 .. 2 /\ m.seq + m.n <= PeerUnits + 1
    BY PeerSegments
  <1>3. /\ Stored(m) \in 0 .. m.n
        /\ Len(recvd) + Stored(m) - taken <= RecvBuf
        /\ Stored(m) > 0 => m.seq = Len(recvd) + 1
    BY <1>1, <1>2, TcpAssumption DEF Stored, Expected
  <1>4. ASSUME NEW i \in 1 .. Stored(m)
        PROVE  m.seq + i - 1 = Len(recvd) + i /\ m.seq + i - 1 \in 1 .. PeerUnits
    <2>1. i \in Int /\ 1 <= i /\ i <= Stored(m) /\ Stored(m) \in Int /\ Stored(m) <= m.n
      BY <1>2, <1>3
    <2>2. m.seq = Len(recvd) + 1
      BY <2>1, <1>3
    <2> QED
      BY <2>1, <2>2, <1>1, <1>2, TcpAssumption
  <1>5. Stored(m) \in Nat /\ PeerUnits \in Nat
    BY <1>2, <1>3, TcpAssumption
  <1>6. more \in [1 .. Stored(m) -> 1 .. PeerUnits] /\ \A i \in 1 .. Stored(m) : more[i] = Len(recvd) + i
    BY <1>4
  <1>7. recvd' = recvd \o more
    BY DEF Store
  <1> HIDE DEF more
  <1>8. /\ recvd \o more \in Seq(1 .. PeerUnits)
        /\ Len(recvd \o more) = Len(recvd) + Stored(m)
        /\ Len(recvd) + Stored(m) <= PeerUnits
        /\ \A i \in 1 .. Len(recvd) + Stored(m) : (recvd \o more)[i] = i
    BY <1>1, <1>5, <1>6, Continued
  <1>9. Stored(m) \in 0 .. 2 /\ Len(recvd') = Len(recvd) + Stored(m)
    BY <1>2, <1>3, <1>7, <1>8
  <1>10. Len(recvd') - taken <= RecvBuf /\ Len(recvd') <= PeerUnits
    BY <1>1, <1>3, <1>5, <1>8, <1>9, TcpAssumption
  <1>11. recvd' \in Seq(1 .. PeerUnits) /\ \A i \in 1 .. Len(recvd') : recvd'[i] = i
    BY <1>7, <1>8
  <1> QED
    BY <1>9, <1>10, <1>11

\* A step that sends nothing but a bare ACK or RST and takes back nothing of what is kept.
LEMMA QuietSending ==
  ASSUME TypeOK, Sending, NEW f \in {"ACK", "RST"},
         toPeer' = toPeer \/ toPeer' = toPeer \cup {Bare(f)},
         s'.snd_nxt = s.snd_nxt,
         s'.snd_una < s'.snd_nxt =>
           /\ s.snd_una < s.snd_nxt
           /\ s'.retx_seq = s.retx_seq /\ s'.retx_flags = s.retx_flags
           /\ s'.retx_unit = s.retx_unit,
         s'.state \in {"SYN_SENT", "ESTABLISHED"} => s.state \in {"SYN_SENT", "ESTABLISHED"},
         s.state = "CLOSED" /\ app \in {"start", "end"} =>
           s'.state = "CLOSED" /\ app' \in {"start", "end"},
         app' = "start" => app = "start",
         UNCHANGED <<given, peer>>, rolled' = rolled
  PROVE  Sending'
  <1>1. /\ Bare(f).seq = 0 /\ Bare(f).unit = NoUnit /\ "FIN" \notin Bare(f).flags
        /\ Advance(Bare(f).flags, Bare(f).unit) = 0
    BY AdvanceType DEF Bare
  <1>2. Fins' = Fins /\ Data' = Data /\ toPeer \subseteq toPeer'
    BY <1>1 DEF Fins, Data
  <1>3. CASE rolled
    BY <1>3 DEF Sending
  <1>4. CASE ~rolled
    <2>0. /\ Numbered /\ KeptSent /\ DataNumbered /\ OneFin /\ AllBelow /\ PeerCounts
          /\ s.snd_nxt \in Nat
      BY <1>4 DEF Sending, TypeOK, Numbers
    <2>1. Numbered'
      BY <2>0, <1>2 DEF Numbered
    <2>2. KeptSent'
      BY <2>0, <1>2 DEF KeptSent, Kept
    <2>3. DataNumbered' /\ OneFin'
      BY <2>0, <1>2 DEF DataNumbered, OneFin
    <2>4. AllBelow'
      BY <2>0, <1>1, <1>2 DEF AllBelow
    <2>5. PeerCounts'
      BY <2>0, <1>2 DEF PeerCounts
    <2> QED
      BY <2>1, <2>2, <2>3, <2>4, <2>5 DEF Sending
  <1> QED
    BY <1>3, <1>4

\* The socket after a segment that is kept.
LEMMA SentFields ==
  ASSUME NEW k \in SocketType, NEW flags \in SUBSET {"SYN", "ACK", "FIN"},
         NEW unit \in 0 .. AppUnits, Advance(flags, unit) = 1, k.snd_nxt + 1 <= AppUnits + 2
  PROVE  /\ Sent(k, flags, unit, TRUE) =
              [k EXCEPT !.retx_seq = k.snd_nxt, !.retx_flags = flags, !.retx_unit = unit,
                        !.retx_count = 0, !.armed = TRUE, !.snd_nxt = k.snd_nxt + 1]
         /\ Sent(k, flags, unit, TRUE) \in SocketType
  <1>1. Sent(k, flags, unit, TRUE) =
          [k EXCEPT !.retx_seq = k.snd_nxt, !.retx_flags = flags, !.retx_unit = unit,
                    !.retx_count = 0, !.armed = TRUE, !.snd_nxt = k.snd_nxt + 1]
    <2>1. (TRUE /\ Advance(flags, unit) > 0) = TRUE
      OBVIOUS
    <2> QED
      BY <2>1 DEF Sent
  <1>2. k.snd_nxt + 1 \in Numbers /\ 0 \in 0 .. TCP_MAX_RETX + 1
    BY TcpAssumption DEF SocketType, Numbers
  <1>3. Sent(k, flags, unit, TRUE) \in SocketType
    BY <1>1, <1>2 DEF SocketType
  <1> QED
    BY <1>1, <1>3

\* What a new segment that takes a number does to Sending: the SYN, ...
LEMMA SynSending ==
  ASSUME TypeOK, Bounds, Sending, app = "start",
         s'.snd_nxt = 1, s'.retx_seq = 0, s'.retx_flags = {"SYN"}, s'.retx_unit = NoUnit,
         s'.state = "SYN_SENT",
         toPeer' = toPeer \cup {[flags |-> {"SYN"}, seq |-> 0, unit |-> NoUnit]},
         UNCHANGED <<given, peer, rolled>>
  PROVE  Sending'
  <1> SUFFICES ASSUME ~rolled PROVE Sending'
    BY DEF Sending
  <1>0. /\ Numbered /\ KeptSent /\ DataNumbered /\ OneFin /\ AllBelow /\ PeerCounts
        /\ s.snd_nxt = 0 /\ given \in Nat
    BY DEF Sending, TypeOK, Bounds
  <1>1. Fins = {} /\ Data = {} /\ given = 0
    BY <1>0 DEF Numbered
  <1>2. Fins' = {} /\ Data' = {}
    BY <1>1 DEF Fins, Data, NoUnit
  <1>3. Numbered'
    BY <1>1, <1>2 DEF Numbered
  <1>4. KeptSent'
    BY AdvanceType DEF KeptSent, Kept
  <1>5. DataNumbered' /\ OneFin'
    BY <1>2 DEF DataNumbered, OneFin
  <1>6. AllBelow'
    <2>1. ASSUME NEW m \in toPeer'
          PROVE  m.seq + Advance(m.flags, m.unit) <= 1
      <3>1. CASE m \in toPeer
        BY <1>0, <3>1, AdvanceType DEF AllBelow, TypeOK, Numbers
      <3>2. CASE m = [flags |-> {"SYN"}, seq |-> 0, unit |-> NoUnit]
        BY <3>2, AdvanceType
      <3> QED
        BY <3>1, <3>2
    <2> QED
      BY <1>0, <1>2, <2>1 DEF AllBelow, TypeOK, PeerType
  <1>7. PeerCounts'
    BY <1>0, <1>2 DEF PeerCounts
  <1> QED
    BY <1>3, <1>4, <1>5, <1>6, <1>7 DEF Sending

\* ... a unit ...
LEMMA UnitSending ==
  ASSUME TypeOK, Sending, app \notin {"start", "end"}, given < AppUnits,
         s'.snd_nxt = s.snd_nxt + 1, s'.retx_seq = s.snd_nxt, s'.retx_flags = {"ACK"},
         s'.retx_unit = given + 1, s'.state = s.state,
         toPeer' = toPeer \cup {[flags |-> {"ACK"}, seq |-> s.snd_nxt, unit |-> given + 1]},
         given' = given + 1, app' = "acking", UNCHANGED <<peer, rolled>>
  PROVE  Sending'
  <1> SUFFICES ASSUME ~rolled PROVE Sending'
    BY DEF Sending
  <1> DEFINE seg == [flags |-> {"ACK"}, seq |-> s.snd_nxt, unit |-> given + 1]
  <1>0. /\ Numbered /\ KeptSent /\ DataNumbered /\ OneFin /\ AllBelow /\ PeerCounts
        /\ s.snd_nxt \in Nat /\ given \in Nat /\ peer.next \in Nat
        /\ \A m \in toPeer : m.seq \in Nat
    BY DEF Sending, TypeOK, Numbers, PeerType
  <1>1. s.snd_nxt = given + 1 + (IF Fins = {} THEN 0 ELSE 1) /\ s.snd_nxt > 0
    BY <1>0 DEF Numbered
  <1>2. Fins' = Fins /\ Data' = Data \cup {seg}
    BY <1>0 DEF Fins, Data, NoUnit
  <1>3. Advance(seg.flags, seg.unit) = 1
    BY <1>0, AdvanceType DEF NoUnit
  <1>4. ASSUME NEW f \in Fins
        PROVE  f.seq < s.snd_nxt
    <2>1. Advance(f.flags, f.unit) >= 1 /\ Advance(f.flags, f.unit) \in 0 .. 2
      BY DEF Fins, Advance
    <2>2. f \in toPeer
      BY DEF Fins
    <2> QED
      BY <1>0, <2>1, <2>2 DEF AllBelow
  <1>5. Numbered'
    BY <1>0, <1>1, <1>2 DEF Numbered
  <1>6. KeptSent'
    BY <1>3 DEF KeptSent, Kept
  <1>7. DataNumbered'
    <2>1. CASE Fins = {}
      BY <1>0, <1>1, <1>2, <2>1 DEF DataNumbered
    <2>2. CASE Fins # {}
      BY <1>0, <1>2, <1>4, <2>2 DEF DataNumbered
    <2> QED
      BY <2>1, <2>2
  <1>8. OneFin'
    BY <1>0, <1>2, <1>4 DEF OneFin
  <1>9. AllBelow'
    <2>1. ASSUME NEW m \in toPeer'
          PROVE  m.seq + Advance(m.flags, m.unit) <= s.snd_nxt + 1
      <3>1. CASE m \in toPeer
        BY <1>0, <3>1, AdvanceType DEF AllBelow
      <3>2. CASE m = seg
        BY <1>0, <1>3, <3>2
      <3> QED
        BY <3>1, <3>2
    <2> QED
      BY <1>0, <1>1, <1>2, <2>1 DEF AllBelow
  <1>10. PeerCounts'
    BY <1>0, <1>2 DEF PeerCounts
  <1> QED
    BY <1>5, <1>6, <1>7, <1>8, <1>9, <1>10 DEF Sending

\* ... and the FIN.
LEMMA FinSending ==
  ASSUME TypeOK, Sending, s.state = "ESTABLISHED", NEW B \in SUBSET {Bare("ACK")},
         s'.snd_nxt = s.snd_nxt + 1, s'.retx_seq = s.snd_nxt, s'.retx_flags = {"FIN", "ACK"},
         s'.retx_unit = NoUnit, s'.state \in {"FIN_WAIT_1", "LAST_ACK"},
         toPeer' = toPeer \cup B
                     \cup {[flags |-> {"FIN", "ACK"}, seq |-> s.snd_nxt, unit |-> NoUnit]},
         UNCHANGED <<given, peer, rolled>>, app' # "start"
  PROVE  Sending'
  <1> SUFFICES ASSUME ~rolled PROVE Sending'
    BY DEF Sending
  <1> DEFINE seg == [flags |-> {"FIN", "ACK"}, seq |-> s.snd_nxt, unit |-> NoUnit]
  <1>0. /\ Numbered /\ KeptSent /\ DataNumbered /\ OneFin /\ AllBelow /\ PeerCounts
        /\ s.snd_nxt \in Nat /\ given \in Nat /\ peer.next \in Nat
        /\ \A m \in toPeer : m.seq \in Nat
    BY DEF Sending, TypeOK, Numbers, PeerType
  <1>1. s.snd_nxt = given + 1 /\ s.snd_nxt > 0 /\ Fins = {}
    BY <1>0 DEF Numbered, OneFin
  <1>2. /\ Bare("ACK").unit = NoUnit /\ "FIN" \notin Bare("ACK").flags /\ Bare("ACK").seq = 0
        /\ Advance(Bare("ACK").flags, Bare("ACK").unit) = 0
    BY AdvanceType DEF Bare
  <1>3. Fins' = {seg} /\ Data' = Data
    BY <1>1, <1>2 DEF Fins, Data
  <1>4. Advance(seg.flags, seg.unit) = 1
    BY AdvanceType
  <1>5. ASSUME NEW m \in Data
        PROVE  m.seq < s.snd_nxt
    <2>1. Advance(m.flags, m.unit) >= 1 /\ Advance(m.flags, m.unit) \in 0 .. 2
      BY DEF Data, Advance
    <2>2. m \in toPeer
      BY DEF Data
    <2> QED
      BY <1>0, <2>1, <2>2 DEF AllBelow
  <1>6. Numbered'
    BY <1>0, <1>1, <1>3 DEF Numbered
  <1>7. KeptSent'
    BY <1>4 DEF KeptSent, Kept
  <1>8. DataNumbered'
    BY <1>0, <1>1, <1>3 DEF DataNumbered
  <1>9. OneFin'
    <2>1. \A m \in Data : m.seq # s.snd_nxt
      BY <1>0, <1>5
    <2> QED
      BY <1>3, <2>1 DEF OneFin
  <1>10. AllBelow'
    <2>1. ASSUME NEW m \in toPeer'
          PROVE  m.seq + Advance(m.flags, m.unit) <= s.snd_nxt + 1
      <3>1. CASE m \in toPeer
        BY <1>0, <3>1, AdvanceType DEF AllBelow
      <3>2. CASE m = Bare("ACK")
        BY <1>0, <1>2, <3>2
      <3>3. CASE m = seg
        BY <1>0, <1>4, <3>3
      <3> QED
        BY <3>1, <3>2, <3>3
    <2> QED
      BY <1>0, <1>1, <1>3, <2>1 DEF AllBelow
  <1>11. PeerCounts'
    BY <1>0, <1>1, <1>3 DEF PeerCounts, AllBelow
  <1> QED
    BY <1>6, <1>7, <1>8, <1>9, <1>10, <1>11 DEF Sending

-----------------------------------------------------------------------------
(* The invariant                                                            *)

\* What alloc_sock leaves.
LEMMA FreshType ==
  ASSUME NEW st \in TcpStates
  PROVE  /\ Fresh(st) \in SocketType /\ (Fresh(st).used <=> st # "CLOSED") /\ Fresh(st).state = st
         /\ Fresh(st).snd_nxt = 0 /\ Fresh(st).snd_una = 0 /\ Fresh(st).rcv_nxt = 0
         /\ Fresh(st).retx_seq = 0 /\ Fresh(st).retx_flags = {} /\ Fresh(st).retx_unit = NoUnit
         /\ Fresh(st).retx_count = 0
  <1>1. /\ 0 \in Numbers /\ 0 \in 0 .. MaxRcv /\ 0 \in 0 .. AppUnits
        /\ 0 \in 0 .. TCP_MAX_RETX + 1
    BY TcpAssumption DEF Numbers
  <1>2. (st # "CLOSED") \in BOOLEAN /\ {} \in SUBSET {"SYN", "ACK", "FIN"}
    OBVIOUS
  <1> DEFINE u == st # "CLOSED"
  <1>3. Fresh(st) =
          [used |-> u, state |-> st, snd_nxt |-> 0, snd_una |-> 0, rcv_nxt |-> 0,
           retx_seq |-> 0, retx_flags |-> {}, retx_unit |-> 0, retx_count |-> 0,
           armed |-> FALSE]
    BY DEF Fresh, NoUnit
  <1>4. u \in BOOLEAN
    BY <1>2
  <1>5. u = (st # "CLOSED")
    OBVIOUS
  <1> HIDE DEF u
  <1>6. Fresh(st) \in SocketType
    BY <1>1, <1>2, <1>3, <1>4 DEF SocketType
  <1>7. Fresh(st).used = u /\ Fresh(st).state = st
    BY <1>3
  <1>8. /\ Fresh(st).snd_nxt = 0 /\ Fresh(st).snd_una = 0 /\ Fresh(st).rcv_nxt = 0
        /\ Fresh(st).retx_seq = 0 /\ Fresh(st).retx_flags = {} /\ Fresh(st).retx_unit = NoUnit
        /\ Fresh(st).retx_count = 0
    BY <1>3 DEF NoUnit
  <1>9. Fresh(st).used <=> st # "CLOSED"
    BY <1>5, <1>7
  <1> QED
    BY <1>6, <1>7, <1>8, <1>9

\* No SYN, no unit and nothing received: what tcp_init leaves satisfies it.
LEMMA InitInv == Init => IInv
  <1> SUFFICES ASSUME Init PROVE IInv
    OBVIOUS
  <1>1. /\ 0 \in Numbers /\ 0 \in 0 .. MaxRcv /\ 0 \in 0 .. AppUnits
        /\ 0 \in 0 .. TCP_MAX_RETX + 1
    BY TcpAssumption DEF Numbers
  <1>2. recvd \in Seq(1 .. PeerUnits) /\ Len(recvd) = 0
    BY DEF Init
  <1>c. "CLOSED" \in TcpStates
    BY DEF TcpStates
  <1>s. /\ s \in SocketType /\ ~s.used /\ s.state = "CLOSED" /\ s.snd_nxt = 0
        /\ s.snd_una = 0 /\ s.retx_seq = 0 /\ s.retx_flags = {} /\ s.retx_unit = NoUnit
        /\ s.retx_count = 0
    BY <1>c, FreshType DEF Init
  <1>p. peer \in PeerType
    <2>1. <<>> \in Seq(Nat)
      OBVIOUS
    <2> QED
      BY <2>1 DEF Init, PeerType
  <1>3. TypeOK
    <2>1. /\ app \in {"start", "connecting", "open", "sending", "acking", "closing", "end"}
          /\ given \in 0 .. AppUnits /\ taken \in 0 .. Len(recvd)
          /\ Len(recvd) - taken <= RecvBuf /\ rolled \in BOOLEAN
      <3>1. app = "start" /\ given = 0 /\ taken = 0 /\ rolled = FALSE
        BY DEF Init
      <3>2. 0 \in 0 .. Len(recvd) /\ Len(recvd) - 0 <= RecvBuf
        BY <1>2, TcpAssumption
      <3> QED
        BY <1>1, <3>1, <3>2
    <2>2. toPeer \subseteq SegmentType
      BY DEF Init
    <2> QED
      BY <1>2, <1>s, <1>p, <2>1, <2>2 DEF TypeOK, SocketType, SegmentType
  <1>4. Fins = {} /\ Data = {}
    BY DEF Init, Fins, Data
  <1>5. Bounds
    BY <1>s, AdvanceType, TcpAssumption DEF Init, Bounds, Kept, Reached
  <1>6. Receiving /\ InOrder /\ Timed
    BY <1>s, <1>2, TcpAssumption DEF Init, Receiving, InOrder, Timed
  <1>7. Sending
    BY <1>s, <1>2, <1>4
    DEF Init, Sending, Numbered, KeptSent, DataNumbered, OneFin, AllBelow, PeerCounts
  <1> QED
    BY <1>3, <1>5, <1>6, <1>7 DEF IInv

\* tcp_connect sends the SYN or gives the socket back.
LEMMA ConnectInv == ASSUME IInv, Connect PROVE IInv'
  <1>0. /\ s \in SocketType /\ given \in 0 .. AppUnits /\ s.state = "CLOSED" /\ s.snd_nxt = 0
        /\ recvd = <<>> /\ app = "start"
    BY DEF IInv, TypeOK, SocketType, Connect, Bounds, Receiving
  <1>1. CASE s' = Freed(s) /\ UNCHANGED toPeer /\ app' = "end"
    <2>1. /\ s' \in SocketType /\ s'.used = FALSE /\ s'.state = "CLOSED"
          /\ s'.snd_nxt = s.snd_nxt /\ s'.snd_una = s.snd_una /\ s'.retx_seq = s.retx_seq
          /\ s'.retx_flags = s.retx_flags /\ s'.retx_unit = s.retx_unit
      BY <1>0, <1>1 DEF Freed, SocketType, TcpStates
    <2>2. TypeOK'
      BY <1>1, <2>1 DEF IInv, TypeOK, SocketType, Connect
    <2>3. Bounds'
      BY <1>0, <1>1, <2>1 DEF IInv, Bounds, Reached, Kept, Connect
    <2>4. Receiving' /\ InOrder' /\ Timed'
      BY <1>0, <1>1, <2>1 DEF IInv, Receiving, InOrder, Timed, Connect
    <2>5. Sending'
      BY <1>0, <1>1, <2>1, QuietSending DEF IInv, Connect
    <2> QED
      BY <2>2, <2>3, <2>4, <2>5 DEF IInv
  <1>2. CASE SendRaw(Fresh("SYN_SENT"), {"SYN"}, NoUnit, TRUE, TRUE) /\ app' = "connecting"
    <2> DEFINE k == Fresh("SYN_SENT")
    <2>1. /\ k \in SocketType /\ k.snd_nxt = 0 /\ k.used /\ k.state = "SYN_SENT"
          /\ k.snd_nxt + 1 <= AppUnits + 2
          /\ NoUnit \in 0 .. AppUnits /\ {"SYN"} \in SUBSET {"SYN", "ACK", "FIN"}
      <3>1. "SYN_SENT" \in TcpStates
        BY DEF TcpStates
      <3>2. {"SYN"} \in SUBSET {"SYN", "ACK", "FIN"} /\ NoUnit \in 0 .. AppUnits
        BY TcpAssumption DEF NoUnit
      <3> QED
        BY <3>1, <3>2, FreshType, TcpAssumption
    <2>2. Advance({"SYN"}, NoUnit) = 1 /\ 0 + 1 <= AppUnits + 2
      BY AdvanceType, TcpAssumption
    <2>3. s' = Sent(k, {"SYN"}, NoUnit, TRUE)
      BY <1>2 DEF SendRaw
    <2>4. toPeer' = toPeer \cup {[flags |-> {"SYN"}, seq |-> 0, unit |-> NoUnit]}
      BY <1>2, <2>1 DEF SendRaw, Segment
    <2> HIDE DEF k
    <2>5. /\ s' \in SocketType /\ s'.used /\ s'.state = "SYN_SENT" /\ s'.snd_nxt = 1
          /\ s'.retx_seq = 0 /\ s'.retx_flags = {"SYN"} /\ s'.retx_unit = NoUnit
          /\ s'.retx_count = 0 /\ s'.armed
      <3> DEFINE flags == {"SYN"}
                 sent == Sent(k, flags, NoUnit, TRUE)
      <3>1. /\ flags \in SUBSET {"SYN", "ACK", "FIN"} /\ Advance(flags, NoUnit) = 1
            /\ s' = sent
        BY <2>1, <2>2, <2>3
      <3> HIDE DEF flags
      <3>2. /\ sent = [k EXCEPT !.retx_seq = k.snd_nxt, !.retx_flags = flags,
                               !.retx_unit = NoUnit, !.retx_count = 0, !.armed = TRUE,
                               !.snd_nxt = k.snd_nxt + 1]
            /\ sent \in SocketType
        BY <2>1, <3>1, SentFields
      <3> HIDE DEF sent
      <3> QED
        BY <2>1, <3>1, <3>2 DEF SocketType, flags
    <2>6. TypeOK'
      BY <1>0, <1>2, <2>1, <2>4, <2>5, TcpAssumption DEF IInv, TypeOK, SocketType, Connect, Numbers
    <2>7. Bounds'
      BY <1>0, <1>2, <2>2, <2>5, TcpAssumption DEF IInv, Bounds, Reached, Kept, Connect
    <2>8. Receiving' /\ InOrder' /\ Timed'
      BY <1>0, <1>2, <2>5 DEF IInv, Receiving, InOrder, Timed, Connect
    <2>9. Sending'
      BY <1>0, <1>2, <2>4, <2>5, SynSending DEF IInv, Connect
    <2> QED
      BY <2>6, <2>7, <2>8, <2>9 DEF IInv
  <1> QED
    BY <1>1, <1>2 DEF Connect, Outcomes

\* A step that leaves the numbers and what is kept, or drops what is kept when it is
\* acknowledged: what it does to the parts of the invariant that speak of them.
LEMMA QuietInv ==
  ASSUME IInv, s' \in SocketType, NEW f \in {"ACK", "RST"},
         toPeer' = toPeer \/ toPeer' = toPeer \cup {Bare(f)},
         s'.snd_nxt = s.snd_nxt, s'.retx_seq = s.retx_seq, s'.retx_flags = s.retx_flags,
         s'.retx_unit \in {s.retx_unit, NoUnit},
         s'.retx_count \in {s.retx_count, 0} \/ ~s'.used,
         s'.snd_una < s'.snd_nxt =>
           s.snd_una < s.snd_nxt /\ s'.retx_unit = s.retx_unit /\ (s'.used => s'.armed = s.armed),
         s'.state \in {"SYN_SENT", "ESTABLISHED"} => s.state \in {"SYN_SENT", "ESTABLISHED"},
         s'.used <=> s'.state # "CLOSED", s'.used => s.used,
         app' = "start" => app = "start",
         app \in {"start", "end"} => app' \in {"start", "end"},
         UNCHANGED <<given, peer, rolled>>
  PROVE  /\ Bounds' /\ Timed' /\ Sending'
         /\ toPeer' \subseteq SegmentType
  <1>0. /\ s \in SocketType /\ given \in 0 .. AppUnits
    BY DEF IInv, TypeOK, SocketType
  <1>1. s.snd_nxt \in Nat /\ s.retx_seq \in Nat /\ s'.retx_seq \in Nat /\ s.retx_count \in Nat
    BY <1>0 DEF SocketType, Numbers
  <1>2. Kept(s') <= Kept(s) /\ Kept(s) \in 0 .. 2 /\ Kept(s') \in 0 .. 2
    BY AdvanceType DEF Kept
  <1>3. Reached <= Reached' /\ Reached \in Nat /\ Reached' \in Nat
    BY <1>0 DEF Reached
  <1>4. Bounds'
    BY <1>1, <1>2, <1>3, TcpAssumption DEF IInv, Bounds, Kept
  <1>5. Timed'
    BY DEF IInv, Timed
  <1>6. s.state = "CLOSED" /\ app \in {"start", "end"} =>
          s'.state = "CLOSED" /\ app' \in {"start", "end"}
    BY DEF IInv, Bounds
  <1>7. Sending'
    BY <1>6, QuietSending DEF IInv
  <1>8. Bare(f) \in SegmentType
    BY TcpAssumption DEF Bare, Numbers, NoUnit, SegmentType
  <1> QED
    BY <1>4, <1>5, <1>7, <1>8 DEF IInv, TypeOK, SegmentType

Places == {"connecting", "open", "sending", "acking", "closing", "end"}

\* The rest of such a step, when it leaves what was received: all that is left to show is
\* what the new state of the socket asks of rcv_nxt.
LEMMA StillInv ==
  ASSUME IInv, Bounds', Timed', Sending', s' \in SocketType,
         toPeer' \subseteq SegmentType,
         app' \in Places \/ app' = app, given' \in 0 .. AppUnits, peer' \in PeerType, rolled' \in BOOLEAN,
         UNCHANGED <<taken, recvd>>,
         s'.state \in {"ESTABLISHED", "FIN_WAIT_1", "FIN_WAIT_2"} => s'.rcv_nxt = Len(recvd) + 1,
         s'.state = "SYN_SENT" => recvd = <<>>,
         s'.state = "LAST_ACK" => s'.rcv_nxt <= PeerUnits + 2
  PROVE  IInv'
  <1>1. TypeOK'
    BY DEF IInv, TypeOK, SocketType, SegmentType, Places
  <1>2. Receiving' /\ InOrder'
    BY DEF IInv, Receiving, InOrder, Places
  <1> QED
    BY <1>1, <1>2 DEF IInv

\* A step that frees the socket.
LEMMA FreeInv ==
  ASSUME IInv, NEW k \in SocketType, s' = Freed(k), NEW f \in {"ACK", "RST"},
         toPeer' = toPeer \/ toPeer' = toPeer \cup {Bare(f)},
         k.snd_nxt = s.snd_nxt, k.retx_seq = s.retx_seq, k.retx_flags = s.retx_flags,
         k.retx_unit \in {s.retx_unit, NoUnit},
         k.snd_una < k.snd_nxt => s.snd_una < s.snd_nxt /\ k.retx_unit = s.retx_unit,
         app' \in Places \/ app' = app, app \in {"start", "end"} => app' \in {"start", "end"},
         UNCHANGED <<given, taken, recvd, peer, rolled>>
  PROVE  IInv'
  <1>1. /\ s' \in SocketType /\ s'.state = "CLOSED" /\ ~s'.used
        /\ s'.snd_nxt = k.snd_nxt /\ s'.snd_una = k.snd_una /\ s'.retx_seq = k.retx_seq
        /\ s'.retx_flags = k.retx_flags /\ s'.retx_unit = k.retx_unit
    BY DEF Freed, SocketType, TcpStates
  <1>2. /\ Bounds' /\ Timed' /\ Sending'
        /\ toPeer' \subseteq SegmentType
    BY <1>1, QuietInv DEF Places
  <1>3. given' \in 0 .. AppUnits /\ peer' \in PeerType /\ rolled' \in BOOLEAN
    BY DEF IInv, TypeOK
  <1> QED
    BY <1>1, <1>2, <1>3, StillInv

-----------------------------------------------------------------------------
(* The application's steps and the timer's keep the invariant               *)

\* tcp_connect returns with a connection that stands, or frees the socket.
LEMMA ConnectReturnInv == ASSUME IInv, ConnectReturn PROVE IInv'
  <1>0. s \in SocketType
    BY DEF IInv, TypeOK, SocketType
  <1>1. CASE app' = "open" /\ UNCHANGED s
    <2>1. /\ Bounds' /\ Timed' /\ Sending'
          /\ toPeer' \subseteq SegmentType
      BY <1>0, <1>1, QuietInv DEF ConnectReturn, IInv, Bounds
    <2> QED
      BY <1>0, <1>1, <2>1, StillInv DEF ConnectReturn, IInv, TypeOK, Receiving, Places
  <1>2. CASE app' = "end" /\ s' = Freed(s)
    BY <1>0, <1>2, FreeInv DEF ConnectReturn, Places
  <1> QED
    BY <1>1, <1>2 DEF ConnectReturn

\* A chunk goes out under the next number, and is kept.
LEMMA SendChunkInv == ASSUME IInv, SendChunk PROVE IInv'
  <1>0. /\ s \in SocketType /\ given \in 0 .. AppUnits /\ given < AppUnits
        /\ app \in {"open", "sending"} /\ peer \in PeerType /\ rolled \in BOOLEAN
        /\ UNCHANGED <<taken, recvd, peer, rolled>>
    BY DEF IInv, TypeOK, SocketType, SendChunk
  <1>1. CASE s' = s /\ toPeer' = toPeer /\ app' = "open" /\ given' = given
    <2>1. /\ Bounds' /\ Timed' /\ Sending'
          /\ toPeer' \subseteq SegmentType
      BY <1>0, <1>1, QuietInv DEF IInv, Bounds
    <2> QED
      BY <1>0, <1>1, <2>1, StillInv DEF IInv, Receiving, Places
  <1>2. CASE /\ SendRaw(s, {"ACK"}, given + 1, TRUE, TRUE)
             /\ app' = "acking" /\ given' = given + 1
    <2> DEFINE flags == {"ACK"}
               unit == given + 1
    <2>1. /\ Reached \in Nat /\ s.snd_nxt \in Nat /\ s.snd_nxt <= Reached
          /\ Reached <= AppUnits + 1 /\ s.snd_nxt + 1 <= AppUnits + 2
      BY <1>0, TcpAssumption DEF IInv, Bounds, Reached, SocketType, Numbers
    <2>2. /\ unit \in 0 .. AppUnits /\ Advance(flags, unit) = 1
          /\ flags \in SUBSET {"SYN", "ACK", "FIN"}
      <3>1. unit \in 0 .. AppUnits /\ unit # NoUnit
        BY <1>0, TcpAssumption DEF NoUnit
      <3>2. Advance(flags, unit) = 1
        BY <3>1, AdvanceType
      <3> QED
        BY <3>1, <3>2
    <2>3. /\ s' = Sent(s, flags, unit, TRUE)
          /\ toPeer' = toPeer \cup {[flags |-> flags, seq |-> s.snd_nxt, unit |-> unit]}
          /\ given' = unit
      BY <1>2 DEF SendRaw, Segment
    <2> HIDE DEF flags, unit
    <2>4. /\ s' = [s EXCEPT !.retx_seq = s.snd_nxt, !.retx_flags = flags, !.retx_unit = unit,
                            !.retx_count = 0, !.armed = TRUE, !.snd_nxt = s.snd_nxt + 1]
          /\ s' \in SocketType
      BY <1>0, <2>1, <2>2, <2>3, SentFields
    <2>5. /\ s'.snd_nxt = s.snd_nxt + 1 /\ s'.retx_seq = s.snd_nxt /\ s'.retx_flags = flags
          /\ s'.retx_unit = unit /\ s'.state = s.state /\ s'.used = s.used /\ s'.armed
          /\ s'.rcv_nxt = s.rcv_nxt /\ s'.retx_count = 0
      BY <1>0, <2>4 DEF SocketType
    <2>6. Bounds'
      <3>1. Reached' = Reached + 1
        <4>1. given' = given + 1
          BY <2>3 DEF unit
        <4>2. given \in Int /\ s'.state = s.state
          BY <1>0, <2>5, TcpAssumption
        <4> QED
          BY <4>1, <4>2 DEF Reached
      <3>2. Kept(s') = 1
        BY <2>2, <2>5 DEF Kept
      <3> QED
        BY <1>2, <2>1, <2>5, <3>1, <3>2, TcpAssumption DEF IInv, Bounds, Kept
    <2>7. Timed'
      BY <2>5 DEF Timed
    <2>8. Sending'
      BY <1>0, <1>2, <2>3, <2>5, UnitSending DEF IInv, flags, unit
    <2>9. toPeer' \subseteq SegmentType
      <3>1. s.snd_nxt \in Numbers /\ flags \in SUBSET {"SYN", "ACK", "FIN", "RST"}
        BY <1>0, <2>2 DEF SocketType
      <3> QED
        <4>1. [flags |-> flags, seq |-> s.snd_nxt, unit |-> unit] \in SegmentType
          BY <2>2, <3>1 DEF SegmentType
        <4>2. toPeer \subseteq SegmentType
          BY DEF IInv, TypeOK, SegmentType
        <4> QED
          BY <2>3, <4>1, <4>2
    <2> QED
      BY <1>0, <1>2, <2>2, <2>3, <2>4, <2>5, <2>6, <2>7, <2>8, <2>9, StillInv
      DEF IInv, Receiving, Places
  <1> QED
    BY <1>1, <1>2 DEF SendChunk, Outcomes, SendRaw

\* The wait for an acknowledgment ends; tcp_recv takes something out.
LEMMA SendWaitEndsInv == ASSUME IInv, SendWaitEnds PROVE IInv'
  <1>0. s \in SocketType
    BY DEF IInv, TypeOK, SocketType
  <1>1. Bounds' /\ Timed' /\ Sending' /\ toPeer' \subseteq SegmentType
    BY <1>0, QuietInv DEF SendWaitEnds, IInv, Bounds
  <1> QED
    BY <1>0, <1>1, StillInv DEF SendWaitEnds, IInv, TypeOK, Receiving, Places

LEMMA RecvInv == ASSUME IInv, Recv PROVE IInv'
  <1>0. /\ s \in SocketType /\ app = "open" /\ UNCHANGED <<s, app, given, recvd, toPeer, peer, rolled>>
        /\ taken' \in 0 .. Len(recvd) /\ Len(recvd) - taken' <= RecvBuf
    <2>1. taken \in 0 .. Len(recvd) /\ Len(recvd) \in Nat /\ Len(recvd) - taken <= RecvBuf
      BY LenProperties DEF IInv, TypeOK
    <2>2. PICK n \in 1 .. Len(recvd) - taken : taken' = taken + n
      BY DEF Recv
    <2> QED
      BY <2>1, <2>2, TcpAssumption DEF Recv, IInv, TypeOK, SocketType
  <1>1. Bounds' /\ Timed' /\ Sending' /\ toPeer' \subseteq SegmentType
    BY <1>0, QuietInv DEF IInv, Bounds
  <1>2. TypeOK'
    BY <1>0 DEF IInv, TypeOK
  <1>3. Receiving' /\ InOrder'
    BY <1>0 DEF IInv, Receiving, InOrder
  <1> QED
    BY <1>1, <1>2, <1>3 DEF IInv

\* Our FIN goes out and is kept: tcp_close on a connection that stands, or the answer to the
\* peer's FIN.
FinOut(k) ==
  /\ s' = Sent(k, {"FIN", "ACK"}, NoUnit, TRUE)
  /\ \E B \in SUBSET {Bare("ACK")} :
       toPeer' = toPeer \cup B \cup {Segment(k, {"FIN", "ACK"}, NoUnit)}

LEMMA FinInv ==
  ASSUME IInv, s.state = "ESTABLISHED", NEW k \in SocketType, k.snd_nxt = s.snd_nxt, k.used,
         k.state \in {"FIN_WAIT_1", "LAST_ACK"}, FinOut(k),
         UNCHANGED <<given, peer, rolled>>, app' \in Places
  PROVE  /\ Bounds' /\ Timed' /\ Sending' /\ toPeer' \subseteq SegmentType
         /\ s' \in SocketType /\ s'.state = k.state /\ s'.rcv_nxt = k.rcv_nxt
  <1> DEFINE flags == {"FIN", "ACK"}
  <1>0. /\ s \in SocketType /\ given \in 0 .. AppUnits /\ s.snd_nxt <= given + 1
        /\ s.snd_nxt \in Nat /\ s.snd_nxt \in Numbers
    BY DEF IInv, TypeOK, SocketType, Bounds, Reached, Numbers
  <1>1. /\ k.snd_nxt + 1 <= AppUnits + 2 /\ Advance(flags, NoUnit) = 1
        /\ flags \in SUBSET {"SYN", "ACK", "FIN"} /\ NoUnit \in 0 .. AppUnits
    BY <1>0, AdvanceType, TcpAssumption DEF NoUnit
  <1>2. /\ s' = Sent(k, flags, NoUnit, TRUE)
        /\ \E B \in SUBSET {Bare("ACK")} :
             toPeer' = toPeer \cup B
                         \cup {[flags |-> flags, seq |-> s.snd_nxt, unit |-> NoUnit]}
    BY DEF Segment, FinOut
  <1>3. flags = {"FIN", "ACK"} /\ flags \in SUBSET {"SYN", "ACK", "FIN", "RST"}
    OBVIOUS
  <1> HIDE DEF flags
  <1>4. /\ s' = [k EXCEPT !.retx_seq = k.snd_nxt, !.retx_flags = flags, !.retx_unit = NoUnit,
                          !.retx_count = 0, !.armed = TRUE, !.snd_nxt = k.snd_nxt + 1]
        /\ s' \in SocketType
    <2>1. k \in SocketType
      OBVIOUS
    <2>2. s' = Sent(k, flags, NoUnit, TRUE)
      BY <1>2
    <2>3. /\ Sent(k, flags, NoUnit, TRUE) =
               [k EXCEPT !.retx_seq = k.snd_nxt, !.retx_flags = flags, !.retx_unit = NoUnit,
                         !.retx_count = 0, !.armed = TRUE, !.snd_nxt = k.snd_nxt + 1]
          /\ Sent(k, flags, NoUnit, TRUE) \in SocketType
      BY <2>1, <1>1, SentFields, Zenon
    <2> QED
      BY <2>2, <2>3, Zenon
  <1>5. /\ s'.snd_nxt = s.snd_nxt + 1 /\ s'.retx_seq = s.snd_nxt /\ s'.retx_flags = flags
        /\ s'.retx_unit = NoUnit /\ s'.state = k.state /\ s'.used /\ s'.armed
        /\ s'.rcv_nxt = k.rcv_nxt /\ s'.retx_count = 0
    <2>1. /\ s'.snd_nxt = k.snd_nxt + 1 /\ s'.retx_seq = k.snd_nxt /\ s'.retx_flags = flags
          /\ s'.retx_unit = NoUnit /\ s'.state = k.state /\ s'.used = k.used /\ s'.armed = TRUE
          /\ s'.rcv_nxt = k.rcv_nxt /\ s'.retx_count = 0
      BY <1>4 DEF SocketType
    <2> QED
      BY <2>1
  <1>6. Bounds'
    <2>1. Reached' = given + 2
      <3>1. s'.state \notin {"SYN_SENT", "ESTABLISHED"} /\ given' = given /\ given \in Int
        BY <1>0, <1>5, TcpAssumption
      <3> QED
        BY <3>1 DEF Reached
    <2>2. Kept(s') = 1
      BY <1>1, <1>5 DEF Kept
    <2> QED
      <3>1. s'.snd_nxt <= Reached' /\ s'.retx_seq + Kept(s') <= Reached'
        BY <1>0, <1>5, <2>1, <2>2, TcpAssumption
      <3>2. s'.retx_count <= TCP_MAX_RETX /\ s'.used /\ s'.state # "CLOSED"
        BY <1>5, TcpAssumption
      <3>3. app' # "start"
        BY DEF Places
      <3> QED
        BY <3>1, <3>2, <3>3 DEF Bounds, Kept
  <1>7. Timed'
    BY <1>5 DEF Timed
  <1>8. Sending'
    BY <1>2, <1>3, <1>5, FinSending DEF IInv, Places
  <1>9. toPeer' \subseteq SegmentType
    <2>1. [flags |-> flags, seq |-> s.snd_nxt, unit |-> NoUnit] \in SegmentType
      BY <1>0, <1>1, <1>3 DEF SegmentType
    <2>2. toPeer \subseteq SegmentType /\ Bare("ACK") \in SegmentType
      BY TcpAssumption DEF IInv, TypeOK, SegmentType, Bare, Numbers, NoUnit
    <2> QED
      BY <1>2, <2>1, <2>2
  <1> QED
    BY <1>4, <1>5, <1>6, <1>7, <1>8, <1>9

\* tcp_close sends the FIN, frees the socket, or leaves it to TIME_WAIT.
LEMMA CloseInv == ASSUME IInv, Close PROVE IInv'
  <1>0. /\ s \in SocketType /\ app = "open" /\ given \in 0 .. AppUnits /\ peer \in PeerType
        /\ rolled \in BOOLEAN /\ UNCHANGED <<given, taken, recvd, peer, rolled>>
    BY DEF IInv, TypeOK, SocketType, Close
  <1>1. CASE s.used /\ s.state = "ESTABLISHED"
    <2> DEFINE k == [s EXCEPT !.state = "FIN_WAIT_1"]
    <2>1. /\ k \in SocketType /\ k.snd_nxt = s.snd_nxt /\ k.used /\ k.state = "FIN_WAIT_1"
          /\ k.rcv_nxt = s.rcv_nxt /\ k.snd_una = s.snd_una /\ k.armed = s.armed
          /\ k.retx_seq = s.retx_seq /\ k.retx_flags = s.retx_flags /\ k.retx_unit = s.retx_unit
          /\ k.retx_count = s.retx_count
      BY <1>0, <1>1 DEF SocketType, TcpStates
    <2>2. /\ app' = "closing"
          /\ \/ s' = k /\ toPeer' = toPeer
             \/ /\ s' = Sent(k, {"FIN", "ACK"}, NoUnit, TRUE)
                /\ toPeer' = toPeer \cup {Segment(k, {"FIN", "ACK"}, NoUnit)}
      BY <1>0, <1>1 DEF Close, SendRaw
    <2>3. s.rcv_nxt = Len(recvd) + 1
      BY <1>1 DEF IInv, Receiving
    <2> HIDE DEF k
    <2>4. CASE s' = k /\ toPeer' = toPeer
      <3>1. Bounds' /\ Timed' /\ Sending' /\ toPeer' \subseteq SegmentType
        BY <1>0, <1>1, <2>1, <2>2, <2>4, QuietInv DEF IInv, Bounds
      <3> QED
        BY <1>0, <2>1, <2>2, <2>3, <2>4, <3>1, StillInv DEF Places
    <2>5. CASE /\ s' = Sent(k, {"FIN", "ACK"}, NoUnit, TRUE)
               /\ toPeer' = toPeer \cup {Segment(k, {"FIN", "ACK"}, NoUnit)}
      <3>1. FinOut(k) /\ app' \in Places
        <4>1. toPeer' = toPeer \cup {} \cup {Segment(k, {"FIN", "ACK"}, NoUnit)}
          BY <2>5
        <4>2. {} \in SUBSET {Bare("ACK")}
          OBVIOUS
        <4> QED
          BY <2>2, <2>5, <4>1, <4>2, Zenon DEF FinOut, Places
      <3>2. /\ Bounds' /\ Timed' /\ Sending' /\ toPeer' \subseteq SegmentType
            /\ s' \in SocketType /\ s'.state = k.state /\ s'.rcv_nxt = k.rcv_nxt
        BY <1>0, <1>1, <2>1, <2>5, <3>1, FinInv
      <3> QED
        BY <1>0, <2>1, <2>2, <2>3, <3>2, StillInv DEF Places
    <2> QED
      BY <2>2, <2>4, <2>5
  <1>2. CASE app' = "end" /\ UNCHANGED toPeer /\ s' = Freed(s)
    BY <1>0, <1>2, FreeInv DEF Places
  <1>3. CASE app' = "end" /\ UNCHANGED toPeer /\ s' = s
    <2>1. Bounds' /\ Timed' /\ Sending' /\ toPeer' \subseteq SegmentType
      BY <1>0, <1>3, QuietInv DEF IInv, Bounds
    <2> QED
      BY <1>0, <1>3, <2>1, StillInv DEF IInv, Receiving, Places
  <1> QED
    BY <1>1, <1>2, <1>3 DEF Close

\* tcp_close returns.
LEMMA CloseReturnInv == ASSUME IInv, CloseReturn PROVE IInv'
  <1>0. s \in SocketType
    BY DEF IInv, TypeOK, SocketType
  <1>1. CASE s' = Freed(s)
    BY <1>0, <1>1, FreeInv DEF CloseReturn, Places
  <1>2. CASE s' = s
    <2>1. Bounds' /\ Timed' /\ Sending' /\ toPeer' \subseteq SegmentType
      BY <1>0, <1>2, QuietInv DEF CloseReturn, IInv, Bounds
    <2> QED
      BY <1>0, <1>2, <2>1, StillInv DEF CloseReturn, IInv, TypeOK, Receiving, Places
  <1> QED
    BY <1>1, <1>2 DEF CloseReturn

\* TIME_WAIT is over.
LEMMA TimeWaitOverInv == ASSUME IInv, TimeWaitOver PROVE IInv'
  <1>0. s \in SocketType /\ s.used
    BY DEF IInv, TypeOK, SocketType, TimeWaitOver
  <1> QED
    BY <1>0, FreeInv DEF TimeWaitOver, appVars

\* A timer with nothing left to acknowledge is stopped.
LEMMA DisarmInv == ASSUME IInv, Disarm PROVE IInv'
  <1>0. /\ s \in SocketType /\ s.used /\ s.snd_nxt <= s.snd_una /\ s.snd_nxt \in Int
        /\ s.snd_una \in Int /\ s' = [s EXCEPT !.armed = FALSE]
    BY DEF IInv, TypeOK, SocketType, Disarm, Numbers
  <1>2. /\ s' \in SocketType /\ s'.used = s.used /\ s'.state = s.state /\ s'.snd_nxt = s.snd_nxt
        /\ s'.snd_una = s.snd_una /\ s'.retx_seq = s.retx_seq /\ s'.retx_flags = s.retx_flags
        /\ s'.retx_unit = s.retx_unit /\ s'.retx_count = s.retx_count /\ s'.rcv_nxt = s.rcv_nxt
        /\ ~(s'.snd_una < s'.snd_nxt)
    <2>1. s \in SocketType /\ s' = [s EXCEPT !.armed = FALSE]
      BY <1>0
    <2>2. /\ s' \in SocketType /\ s'.used = s.used /\ s'.state = s.state
          /\ s'.snd_nxt = s.snd_nxt /\ s'.snd_una = s.snd_una /\ s'.retx_seq = s.retx_seq
          /\ s'.retx_flags = s.retx_flags /\ s'.retx_unit = s.retx_unit
          /\ s'.retx_count = s.retx_count /\ s'.rcv_nxt = s.rcv_nxt
      BY <2>1 DEF SocketType
    <2>3. ~(s.snd_una < s.snd_nxt)
      BY <1>0
    <2> QED
      BY <2>2, <2>3
  <1>3. UNCHANGED <<app, given, taken, recvd, toPeer, peer, rolled>>
    BY DEF Disarm, appVars
  <1>4. Bounds' /\ Timed' /\ Sending' /\ toPeer' \subseteq SegmentType
    BY <1>0, <1>2, <1>3, QuietInv DEF IInv, Bounds
  <1> QED
    BY <1>2, <1>3, <1>4, StillInv DEF IInv, TypeOK, Receiving

\* The segment kept goes out again, and its number is the last that was used; or it cannot,
\* and what comes next will take its number.
LEMMA RetransmitInv == ASSUME IInv, Retransmit PROVE IInv'
  <1> DEFINE k == [s EXCEPT !.retx_count = @ + 1]
  <1>0. /\ s \in SocketType /\ s.used /\ s.armed /\ s.snd_una < s.snd_nxt /\ s.snd_nxt \in Nat
        /\ s.snd_una \in Nat /\ s.retx_count \in Nat /\ s.retx_count <= TCP_MAX_RETX
        /\ s.retx_seq \in Nat /\ s.retx_flags \in SUBSET {"SYN", "ACK", "FIN"}
        /\ s.retx_unit \in 0 .. AppUnits
    BY DEF IInv, TypeOK, SocketType, Retransmit, Numbers, Bounds
  <1>2. UNCHANGED <<app, given, taken, recvd, peer>>
    BY DEF Retransmit, appVars
  <1>3. /\ k \in SocketType /\ k.used = s.used /\ k.state = s.state /\ k.snd_nxt = s.snd_nxt
        /\ k.snd_una = s.snd_una /\ k.retx_seq = s.retx_seq /\ k.retx_flags = s.retx_flags
        /\ k.retx_unit = s.retx_unit /\ k.rcv_nxt = s.rcv_nxt /\ k.armed = s.armed
        /\ k.retx_count = s.retx_count + 1
    <2>1. s \in SocketType /\ s.retx_count + 1 \in 0 .. TCP_MAX_RETX + 1
      BY <1>0, TcpAssumption
    <2> QED
      BY <2>1 DEF SocketType
  <1>4. \/ k.retx_count > TCP_MAX_RETX /\ s' = Freed(k) /\ UNCHANGED <<toPeer, rolled>>
        \/ /\ ~(k.retx_count > TCP_MAX_RETX)
           /\ \E ok \in Outcomes :
                /\ SendRaw(Rewound(k), k.retx_flags, k.retx_unit, FALSE, ok)
                /\ rolled' = (rolled \/ ~ok)
    BY DEF Retransmit, GiveUp
  <1> HIDE DEF k
  <1>5. CASE s' = Freed(k) /\ UNCHANGED <<toPeer, rolled>>
    BY <1>2, <1>3, <1>5, FreeInv
  <1>6. Kept(s) \in 0 .. 2 /\ Reached \in Nat /\ Reached <= AppUnits + 2 /\ s.retx_seq + Kept(s) <= Reached
    BY AdvanceType, TcpAssumption DEF IInv, TypeOK, Kept, Reached, Bounds
  <1>7. CASE /\ k.retx_count <= TCP_MAX_RETX
             /\ s' = Sent(Rewound(k), k.retx_flags, k.retx_unit, FALSE)
             /\ toPeer' = toPeer \cup {Segment(Rewound(k), k.retx_flags, k.retx_unit)}
             /\ rolled' = rolled
    <2> DEFINE n == s.retx_seq + Kept(s)
    <2>1. n \in Numbers /\ n \in Nat /\ n <= Reached
      BY <1>0, <1>6, TcpAssumption DEF Numbers
    <2>2. s' = [k EXCEPT !.snd_nxt = n]
      <3>1. Rewound(k) = [k EXCEPT !.snd_nxt = k.retx_seq]
        BY DEF Rewound
      <3>2. Sent(Rewound(k), k.retx_flags, k.retx_unit, FALSE) =
              [Rewound(k) EXCEPT !.snd_nxt = @ + Kept(k)]
        BY <1>3, <3>1 DEF Sent, Kept, SocketType
      <3>3. Kept(k) = Kept(s)
        BY <1>3 DEF Kept
      <3> QED
        BY <1>3, <1>7, <3>1, <3>2, <3>3 DEF SocketType
    <2> HIDE DEF n
    <2>3. /\ s' \in SocketType /\ s'.used = k.used /\ s'.state = k.state /\ s'.snd_nxt = n
          /\ s'.snd_una = k.snd_una /\ s'.retx_seq = k.retx_seq /\ s'.retx_flags = k.retx_flags
          /\ s'.retx_unit = k.retx_unit /\ s'.rcv_nxt = k.rcv_nxt /\ s'.armed = k.armed
          /\ s'.retx_count = k.retx_count
      BY <1>3, <2>1, <2>2 DEF SocketType
    <2>4. toPeer' = toPeer \cup {[flags |-> s.retx_flags, seq |-> s.retx_seq, unit |-> s.retx_unit]}
      <3>1. Rewound(k).snd_nxt = k.retx_seq
        BY <1>3 DEF Rewound, SocketType
      <3> QED
        BY <1>3, <1>7, <3>1 DEF Segment
    <2>5. Bounds'
      <3>1. Reached' = Reached /\ Kept(s') = Kept(s)
        BY <1>2, <1>3, <2>3 DEF Reached, Kept
      <3> QED
        BY <1>0, <1>2, <1>3, <1>6, <1>7, <2>1, <2>3, <3>1 DEF IInv, Bounds, Kept
    <2>6. Timed'
      BY <1>0, <1>3, <2>3 DEF Timed
    <2>7. Sending'
      <3>1. CASE rolled
        BY <1>7, <3>1 DEF Sending
      <3>2. CASE ~rolled
        <4>1. n = s.snd_nxt /\ toPeer' = toPeer
          BY <1>0, <2>4, <3>2 DEF IInv, Sending, KeptSent, n
        <4> QED
          BY <1>2, <1>3, <1>7, <2>3, <4>1, QuietSending DEF IInv, Bounds
      <3> QED
        BY <3>1, <3>2
    <2>8. toPeer' \subseteq SegmentType
      <3>1. [flags |-> s.retx_flags, seq |-> s.retx_seq, unit |-> s.retx_unit] \in SegmentType
        BY <1>0 DEF SocketType, SegmentType
      <3> QED
        BY <2>4, <3>1 DEF IInv, TypeOK, SegmentType
    <2> QED
      BY <1>2, <1>3, <1>7, <2>3, <2>5, <2>6, <2>7, <2>8, StillInv DEF IInv, TypeOK, Receiving
  <1>8. CASE /\ k.retx_count <= TCP_MAX_RETX
             /\ s' = Rewound(k) /\ toPeer' = toPeer /\ rolled' = TRUE
    <2>1. /\ s' \in SocketType /\ s'.used = k.used /\ s'.state = k.state
          /\ s'.snd_nxt = k.retx_seq /\ s'.retx_seq = k.retx_seq /\ s'.retx_flags = k.retx_flags
          /\ s'.retx_unit = k.retx_unit /\ s'.rcv_nxt = k.rcv_nxt /\ s'.retx_count = k.retx_count
      BY <1>3, <1>8 DEF Rewound, SocketType
    <2>2. Bounds'
      <3>1. Reached' = Reached /\ Kept(s') = Kept(s)
        BY <1>2, <1>3, <2>1 DEF Reached, Kept
      <3>2. s'.snd_nxt <= Reached
        BY <1>0, <1>3, <1>6, <2>1
      <3> QED
        BY <1>0, <1>2, <1>3, <1>6, <1>8, <2>1, <3>1, <3>2 DEF IInv, Bounds, Kept
    <2>3. Timed' /\ Sending'
      BY <1>8 DEF Timed, Sending
    <2>4. toPeer' \subseteq SegmentType
      BY <1>8 DEF IInv, TypeOK, SegmentType
    <2> QED
      BY <1>2, <1>3, <1>8, <2>1, <2>2, <2>3, <2>4, StillInv DEF IInv, TypeOK, Receiving
  <1>9. CASE /\ ~(k.retx_count > TCP_MAX_RETX)
             /\ \E ok \in Outcomes :
                  /\ SendRaw(Rewound(k), k.retx_flags, k.retx_unit, FALSE, ok)
                  /\ rolled' = (rolled \/ ~ok)
    <2>1. PICK ok \in BOOLEAN : /\ SendRaw(Rewound(k), k.retx_flags, k.retx_unit, FALSE, ok)
                                /\ rolled' = (rolled \/ ~ok)
      BY <1>9 DEF Outcomes
    <2>0. k.retx_count <= TCP_MAX_RETX
      BY <1>0, <1>3, <1>9, TcpAssumption
    <2>2. CASE ok
      <3>1. rolled' = rolled
        BY <2>1, <2>2 DEF IInv, TypeOK
      <3> QED
        BY <1>7, <2>0, <2>1, <2>2, <3>1 DEF SendRaw
    <2>3. CASE ~ok
      <3>1. rolled' = TRUE
        BY <2>1, <2>3
      <3> QED
        BY <1>8, <2>0, <2>1, <2>3, <3>1 DEF SendRaw
    <2> QED
      BY <2>2, <2>3
  <1> QED
    BY <1>4, <1>5, <1>9

-----------------------------------------------------------------------------
(* The segments that tcp_receive is given keep the invariant                *)

LEMMA BareOut ==
  ASSUME NEW k, NEW f, SendBare(k, f)
  PROVE  s' = k /\ (toPeer' = toPeer \/ toPeer' = toPeer \cup {Bare(f)})
  BY DEF SendBare, Outcomes

\* The units received are within the peer's stream.
LEMMA ReceivedWithin ==
  ASSUME TypeOK, InOrder
  PROVE  Len(recvd) \in Nat /\ Len(recvd) <= PeerUnits
  <1>1. recvd \in Seq(1 .. PeerUnits) /\ Len(recvd) \in Nat
    BY LenProperties DEF TypeOK
  <1>2. CASE Len(recvd) = 0
    BY <1>1, <1>2, TcpAssumption
  <1>3. CASE Len(recvd) > 0
    <2>1. Len(recvd) \in 1 .. Len(recvd)
      BY <1>1, <1>3
    <2>2. recvd[Len(recvd)] \in 1 .. PeerUnits /\ recvd[Len(recvd)] = Len(recvd)
      BY <1>1, <2>1, ElementOfSeq DEF InOrder
    <2> QED
      BY <1>1, <2>2
  <1> QED
    BY <1>1, <1>2, <1>3

\* rcv_nxt stays within its bound.
LEMMA StoredFits ==
  ASSUME IInv, NEW m \in FromPeer, s.rcv_nxt = Len(recvd) + 1, Store(m)
  PROVE  /\ s.rcv_nxt + Stored(m) \in 0 .. MaxRcv /\ s.rcv_nxt + Stored(m) + 1 \in 0 .. MaxRcv
         /\ s.rcv_nxt + 1 \in 0 .. MaxRcv
  <1>1. /\ Len(recvd') = Len(recvd) + Stored(m) /\ Stored(m) \in 0 .. 2
        /\ Len(recvd') <= PeerUnits
    BY StoreInOrder DEF IInv
  <1>2. Len(recvd) \in Nat
    BY ReceivedWithin DEF IInv
  <1> QED
    BY <1>1, <1>2, TcpAssumption

\* A step that may store data, for the part of the invariant that speaks of what was received.
LEMMA StoredInv ==
  ASSUME IInv, NEW m \in FromPeer, Store(m), s.used, s.rcv_nxt = Len(recvd) + 1,
         s.state # "SYN_SENT",
         Bounds', Timed', Sending', s' \in SocketType, toPeer' \subseteq SegmentType,
         UNCHANGED <<app, given, taken, peer, rolled>>,
         \/ s'.state \in {"ESTABLISHED", "FIN_WAIT_2"} /\ s'.rcv_nxt = s.rcv_nxt + Stored(m)
         \/ s'.state \in {"LAST_ACK", "TIME_WAIT"} /\ s'.rcv_nxt = s.rcv_nxt + Stored(m) + 1
  PROVE  IInv'
  <1>1. /\ recvd' \in Seq(1 .. PeerUnits)
        /\ Len(recvd') = Len(recvd) + Stored(m) /\ Stored(m) \in 0 .. 2
        /\ Len(recvd') - taken <= RecvBuf /\ Len(recvd') <= PeerUnits
        /\ \A i \in 1 .. Len(recvd') : recvd'[i] = i
    BY StoreInOrder DEF IInv
  <1>2. Len(recvd) \in Nat /\ taken \in 0 .. Len(recvd) /\ app # "start"
    BY ReceivedWithin DEF IInv, TypeOK, Bounds
  <1>3. taken \in 0 .. Len(recvd')
    BY <1>1, <1>2
  <1>4. TypeOK'
    BY <1>1, <1>3 DEF IInv, TypeOK, SocketType, SegmentType
  <1>5. InOrder'
    BY <1>1 DEF InOrder
  <1>6. Receiving'
    BY <1>1, <1>2, TcpAssumption DEF Receiving
  <1> QED
    BY <1>4, <1>5, <1>6 DEF IInv

\* A segment for no socket is answered with RST; an RST frees the socket.
LEMMA RcvUnknownInv == ASSUME IInv, NEW m \in FromPeer, RcvUnknown(m) PROVE IInv'
  <1>0. s \in SocketType
    BY DEF IInv, TypeOK, SocketType
  <1>1. s' = s /\ (toPeer' = toPeer \/ toPeer' = toPeer \cup {Bare("RST")})
    BY BareOut DEF RcvUnknown
  <1>2. Bounds' /\ Timed' /\ Sending' /\ toPeer' \subseteq SegmentType
    BY <1>0, <1>1, QuietInv DEF RcvUnknown, IInv, Bounds, appVars
  <1> QED
    BY <1>0, <1>1, <1>2, StillInv DEF RcvUnknown, IInv, TypeOK, Receiving, appVars

LEMMA RcvRstInv == ASSUME IInv, NEW m \in FromPeer, RcvRst(m) PROVE IInv'
  <1>0. s \in SocketType
    BY DEF IInv, TypeOK, SocketType
  <1> QED
    BY <1>0, FreeInv DEF RcvRst, appVars

\* The answer to our SYN: the connection stands, with the peer's number for its first unit
\* expected; or the acknowledgment is not of our SYN, and the socket is freed.
LEMMA RcvSynSentInv == ASSUME IInv, NEW m \in FromPeer, RcvSynSent(m) PROVE IInv'
  <1> DEFINE k == Acked(m)
  <1>0. /\ s \in SocketType /\ s.used /\ s.state = "SYN_SENT" /\ recvd = <<>>
        /\ UNCHANGED <<app, given, taken, recvd, peer, rolled>>
        /\ given \in 0 .. AppUnits /\ peer \in PeerType /\ rolled \in BOOLEAN
    BY DEF IInv, TypeOK, SocketType, RcvSynSent, Comes, Receiving, appVars
  <1>1. /\ k \in SocketType /\ k.used = s.used /\ k.state = s.state
        /\ k.snd_nxt = s.snd_nxt /\ k.rcv_nxt = s.rcv_nxt
        /\ k.retx_seq = s.retx_seq /\ k.retx_flags = s.retx_flags
        /\ k.retx_unit \in {s.retx_unit, NoUnit} /\ k.retx_count \in {s.retx_count, 0}
        /\ k.snd_una < s.snd_nxt =>
             /\ s.snd_una < s.snd_nxt /\ k.armed = s.armed /\ k.retx_unit = s.retx_unit
    BY AckedFields DEF IInv
  <1>2. \/ SendBare(Freed(k), "RST")
        \/ /\ {"SYN", "ACK"} \subseteq m.flags /\ m.ack = s.snd_nxt
           /\ SendBare([k EXCEPT !.rcv_nxt = m.seq + 1, !.snd_una = m.ack,
                                 !.state = "ESTABLISHED", !.armed = FALSE], "ACK")
        \/ s' = k /\ UNCHANGED toPeer
    BY DEF RcvSynSent
  <1> HIDE DEF k
  <1>3. CASE SendBare(Freed(k), "RST")
    <2>1. s' = Freed(k) /\ (toPeer' = toPeer \/ toPeer' = toPeer \cup {Bare("RST")})
      BY <1>3, BareOut
    <2> QED
      BY <1>0, <1>1, <2>1, FreeInv
  <1>4. CASE /\ {"SYN", "ACK"} \subseteq m.flags /\ m.ack = s.snd_nxt
             /\ SendBare([k EXCEPT !.rcv_nxt = m.seq + 1, !.snd_una = m.ack,
                                   !.state = "ESTABLISHED", !.armed = FALSE], "ACK")
    <2>1. /\ s' = [k EXCEPT !.rcv_nxt = m.seq + 1, !.snd_una = m.ack,
                            !.state = "ESTABLISHED", !.armed = FALSE]
          /\ (toPeer' = toPeer \/ toPeer' = toPeer \cup {Bare("ACK")})
      BY <1>4, BareOut
    <2>2. m.seq = 0 /\ 1 \in 0 .. MaxRcv /\ m.ack \in Numbers
      <3>1. "SYN" \in m.flags
        BY <1>4
      <3> QED
        BY <3>1, <1>0, <1>4, PeerSegments, TcpAssumption DEF IInv, SocketType
    <2>3. s' = [k EXCEPT !.rcv_nxt = 1, !.snd_una = s.snd_nxt, !.state = "ESTABLISHED",
                         !.armed = FALSE]
      BY <1>4, <2>1, <2>2
    <2>4. /\ s' \in SocketType /\ s'.used = k.used /\ s'.state = "ESTABLISHED"
          /\ s'.snd_nxt = k.snd_nxt /\ s'.snd_una = s.snd_nxt /\ s'.rcv_nxt = 1
          /\ s'.retx_seq = k.retx_seq /\ s'.retx_flags = k.retx_flags
          /\ s'.retx_unit = k.retx_unit /\ s'.retx_count = k.retx_count
      BY <1>1, <1>4, <2>2, <2>3 DEF SocketType, TcpStates
    <2>5. ~(s'.snd_una < s'.snd_nxt)
      BY <1>0, <1>1, <2>4 DEF SocketType, Numbers
    <2>6. Bounds' /\ Timed' /\ Sending' /\ toPeer' \subseteq SegmentType
      BY <1>0, <1>1, <2>1, <2>4, <2>5, QuietInv
    <2>7. s'.rcv_nxt = Len(recvd) + 1
      BY <1>0, <2>4
    <2> QED
      BY <1>0, <2>4, <2>6, <2>7, StillInv
  <1>5. CASE s' = k /\ UNCHANGED toPeer
    <2>1. Bounds' /\ Timed' /\ Sending' /\ toPeer' \subseteq SegmentType
      BY <1>0, <1>1, <1>5, QuietInv
    <2> QED
      BY <1>0, <1>1, <1>5, <2>1, StillInv
  <1> QED
    BY <1>2, <1>3, <1>4, <1>5

\* Data moves rcv_nxt by what recv_buf took of it.
LEMMA RcvDataInv == ASSUME IInv, NEW m \in FromPeer, RcvData(m) PROVE IInv'
  <1> DEFINE a == Acked(m)
             k == [a EXCEPT !.rcv_nxt = @ + Counted(m)]
  <1>0. /\ s \in SocketType /\ s.used /\ s.state = "ESTABLISHED" /\ Store(m)
        /\ UNCHANGED <<app, given, taken, peer, rolled>> /\ s.rcv_nxt = Len(recvd) + 1
    BY DEF IInv, TypeOK, SocketType, RcvData, Comes, Receiving, appVars
  <1>1. /\ a \in SocketType /\ a.used = s.used /\ a.state = s.state
        /\ a.snd_nxt = s.snd_nxt /\ a.rcv_nxt = s.rcv_nxt
        /\ a.retx_seq = s.retx_seq /\ a.retx_flags = s.retx_flags
        /\ a.retx_unit \in {s.retx_unit, NoUnit} /\ a.retx_count \in {s.retx_count, 0}
        /\ a.snd_una < s.snd_nxt =>
             /\ s.snd_una < s.snd_nxt /\ a.armed = s.armed /\ a.retx_unit = s.retx_unit
    BY AckedFields DEF IInv
  <1>2. s' = k /\ (toPeer' = toPeer \/ toPeer' = toPeer \cup {Bare("ACK")})
    BY BareOut DEF RcvData
  <1>3. s.rcv_nxt + Stored(m) \in 0 .. MaxRcv
    BY <1>0, StoredFits DEF IInv
  <1> HIDE DEF a
  <1>4. s' = [a EXCEPT !.rcv_nxt = s.rcv_nxt + Stored(m)]
    BY <1>1, <1>2 DEF Counted
  <1>5. /\ s' \in SocketType /\ s'.used = a.used /\ s'.state = a.state
        /\ s'.snd_nxt = a.snd_nxt /\ s'.snd_una = a.snd_una /\ s'.armed = a.armed
        /\ s'.rcv_nxt = s.rcv_nxt + Stored(m)
        /\ s'.retx_seq = a.retx_seq /\ s'.retx_flags = a.retx_flags
        /\ s'.retx_unit = a.retx_unit /\ s'.retx_count = a.retx_count
    BY <1>1, <1>3, <1>4 DEF SocketType
  <1>6. s'.used <=> s'.state # "CLOSED"
    BY <1>0, <1>1, <1>5
  <1>7. Bounds' /\ Timed' /\ Sending' /\ toPeer' \subseteq SegmentType
    BY <1>0, <1>1, <1>2, <1>5, <1>6, QuietInv
  <1> QED
    BY <1>0, <1>1, <1>5, <1>7, StoredInv

\* A FIN moves it one further, and is answered with ours.
LEMMA RcvFinInv == ASSUME IInv, NEW m \in FromPeer, RcvFin(m) PROVE IInv'
  <1> DEFINE a == Acked(m)
             k == [a EXCEPT !.rcv_nxt = @ + Counted(m) + 1, !.state = "LAST_ACK"]
  <1>0. /\ s \in SocketType /\ s.used /\ s.state = "ESTABLISHED" /\ Store(m)
        /\ UNCHANGED <<app, given, taken, peer, rolled>> /\ s.rcv_nxt = Len(recvd) + 1
    BY DEF IInv, TypeOK, SocketType, RcvFin, Comes, Receiving, appVars
  <1>1. /\ a \in SocketType /\ a.used = s.used /\ a.state = s.state
        /\ a.snd_nxt = s.snd_nxt /\ a.rcv_nxt = s.rcv_nxt
        /\ a.retx_seq = s.retx_seq /\ a.retx_flags = s.retx_flags
        /\ a.retx_unit \in {s.retx_unit, NoUnit} /\ a.retx_count \in {s.retx_count, 0}
        /\ a.snd_una < s.snd_nxt =>
             /\ s.snd_una < s.snd_nxt /\ a.armed = s.armed /\ a.retx_unit = s.retx_unit
    BY AckedFields DEF IInv
  <1>2. \/ s' = k /\ (toPeer' = toPeer \/ toPeer' = toPeer \cup {Bare("ACK")})
        \/ FinOut(k)
    BY DEF RcvFin, FinOut
  <1>3. s.rcv_nxt + Stored(m) + 1 \in 0 .. MaxRcv
    BY <1>0, StoredFits DEF IInv
  <1>4. k = [a EXCEPT !.rcv_nxt = s.rcv_nxt + Stored(m) + 1, !.state = "LAST_ACK"]
    BY <1>1 DEF Counted
  <1> HIDE DEF a, k
  <1>5. /\ k \in SocketType /\ k.used = a.used /\ k.state = "LAST_ACK"
        /\ k.snd_nxt = a.snd_nxt /\ k.snd_una = a.snd_una /\ k.armed = a.armed
        /\ k.rcv_nxt = s.rcv_nxt + Stored(m) + 1
        /\ k.retx_seq = a.retx_seq /\ k.retx_flags = a.retx_flags
        /\ k.retx_unit = a.retx_unit /\ k.retx_count = a.retx_count
    BY <1>1, <1>3, <1>4 DEF SocketType, TcpStates
  <1>6. k.used /\ app # "start"
    BY <1>0, <1>1, <1>5 DEF IInv, Bounds
  <1>7. /\ Bounds' /\ Timed' /\ Sending' /\ toPeer' \subseteq SegmentType
        /\ s' \in SocketType /\ s'.state = "LAST_ACK" /\ s'.rcv_nxt = s.rcv_nxt + Stored(m) + 1
    <2>1. CASE s' = k /\ (toPeer' = toPeer \/ toPeer' = toPeer \cup {Bare("ACK")})
      <3>1. Bounds' /\ Timed' /\ Sending' /\ toPeer' \subseteq SegmentType
        BY <1>0, <1>1, <1>5, <1>6, <2>1, QuietInv
      <3> QED
        BY <1>5, <2>1, <3>1
    <2>2. CASE FinOut(k)
      <3>1. app' \in Places
        BY <1>0, <1>6 DEF IInv, TypeOK, Places
      <3> QED
        BY <1>0, <1>1, <1>5, <1>6, <2>2, <3>1, FinInv
    <2> QED
      BY <1>2, <2>1, <2>2
  <1> QED
    BY <1>0, <1>7, StoredInv

\* A FIN ends either state of waiting for it.
LEMMA FinishWaitFields ==
  ASSUME NEW m, NEW k \in SocketType, FinishWait(m, k), k.rcv_nxt + 1 \in 0 .. MaxRcv
  PROVE  /\ s' \in SocketType /\ s'.used = k.used /\ s'.snd_nxt = k.snd_nxt
         /\ s'.snd_una = k.snd_una /\ s'.armed = k.armed
         /\ s'.retx_seq = k.retx_seq /\ s'.retx_flags = k.retx_flags
         /\ s'.retx_unit = k.retx_unit /\ s'.retx_count = k.retx_count
         /\ \/ s'.state = k.state /\ s'.rcv_nxt = k.rcv_nxt
            \/ s'.state = "TIME_WAIT" /\ s'.rcv_nxt = k.rcv_nxt + 1
         /\ (toPeer' = toPeer \/ toPeer' = toPeer \cup {Bare("ACK")})
  <1>1. CASE "FIN" \in m.flags
    <2>1. /\ s' = [k EXCEPT !.rcv_nxt = k.rcv_nxt + 1, !.state = "TIME_WAIT"]
          /\ (toPeer' = toPeer \/ toPeer' = toPeer \cup {Bare("ACK")})
      BY <1>1, BareOut DEF FinishWait
    <2> QED
      BY <2>1 DEF SocketType, TcpStates
  <1>2. CASE "FIN" \notin m.flags
    BY <1>2 DEF FinishWait
  <1> QED
    BY <1>1, <1>2

\* In FIN_WAIT_1 data is ignored, ...
LEMMA RcvFinWait1Inv == ASSUME IInv, NEW m \in FromPeer, RcvFinWait1(m) PROVE IInv'
  <1> DEFINE a == Acked(m)
             k == IF "ACK" \in m.flags THEN [a EXCEPT !.state = "FIN_WAIT_2"] ELSE a
  <1>0. /\ s \in SocketType /\ s.used /\ s.state = "FIN_WAIT_1"
        /\ UNCHANGED <<app, given, taken, recvd, peer, rolled>> /\ s.rcv_nxt = Len(recvd) + 1
        /\ given \in 0 .. AppUnits /\ peer \in PeerType /\ rolled \in BOOLEAN
    BY DEF IInv, TypeOK, SocketType, RcvFinWait1, Comes, Receiving, appVars
  <1>1. /\ a \in SocketType /\ a.used = s.used /\ a.state = s.state
        /\ a.snd_nxt = s.snd_nxt /\ a.rcv_nxt = s.rcv_nxt
        /\ a.retx_seq = s.retx_seq /\ a.retx_flags = s.retx_flags
        /\ a.retx_unit \in {s.retx_unit, NoUnit} /\ a.retx_count \in {s.retx_count, 0}
        /\ a.snd_una < s.snd_nxt =>
             /\ s.snd_una < s.snd_nxt /\ a.armed = s.armed /\ a.retx_unit = s.retx_unit
    BY AckedFields DEF IInv
  <1>2. FinishWait(m, k)
    BY DEF RcvFinWait1
  <1> HIDE DEF a
  <1>3. /\ k \in SocketType /\ k.used = a.used /\ k.state \in {"FIN_WAIT_1", "FIN_WAIT_2"}
        /\ k.snd_nxt = a.snd_nxt /\ k.snd_una = a.snd_una /\ k.armed = a.armed
        /\ k.rcv_nxt = a.rcv_nxt
        /\ k.retx_seq = a.retx_seq /\ k.retx_flags = a.retx_flags
        /\ k.retx_unit = a.retx_unit /\ k.retx_count = a.retx_count
    <2>1. CASE "ACK" \in m.flags
      BY <1>0, <1>1, <2>1 DEF SocketType, TcpStates
    <2>2. CASE "ACK" \notin m.flags
      BY <1>0, <1>1, <2>2
    <2> QED
      BY <2>1, <2>2
  <1> HIDE DEF k
  <1>4. k.rcv_nxt + 1 \in 0 .. MaxRcv
    BY <1>0, <1>1, <1>3, ReceivedWithin, TcpAssumption DEF IInv
  <1>5. /\ s' \in SocketType /\ s'.used = k.used /\ s'.snd_nxt = k.snd_nxt
        /\ s'.snd_una = k.snd_una /\ s'.armed = k.armed
        /\ s'.retx_seq = k.retx_seq /\ s'.retx_flags = k.retx_flags
        /\ s'.retx_unit = k.retx_unit /\ s'.retx_count = k.retx_count
        /\ \/ s'.state = k.state /\ s'.rcv_nxt = k.rcv_nxt
           \/ s'.state = "TIME_WAIT"
        /\ (toPeer' = toPeer \/ toPeer' = toPeer \cup {Bare("ACK")})
    BY <1>2, <1>3, <1>4, FinishWaitFields
  <1>6. Bounds' /\ Timed' /\ Sending' /\ toPeer' \subseteq SegmentType
    BY <1>0, <1>1, <1>3, <1>5, QuietInv
  <1> QED
    BY <1>0, <1>1, <1>3, <1>5, <1>6, StillInv

\* ... in FIN_WAIT_2 it is stored as before.
LEMMA RcvFinWait2Inv == ASSUME IInv, NEW m \in FromPeer, RcvFinWait2(m) PROVE IInv'
  <1> DEFINE a == Acked(m)
             k == [a EXCEPT !.rcv_nxt = @ + Counted(m)]
  <1>0. /\ s \in SocketType /\ s.used /\ s.state = "FIN_WAIT_2" /\ Store(m)
        /\ UNCHANGED <<app, given, taken, peer, rolled>> /\ s.rcv_nxt = Len(recvd) + 1
    BY DEF IInv, TypeOK, SocketType, RcvFinWait2, Comes, Receiving, appVars
  <1>1. /\ a \in SocketType /\ a.used = s.used /\ a.state = s.state
        /\ a.snd_nxt = s.snd_nxt /\ a.rcv_nxt = s.rcv_nxt
        /\ a.retx_seq = s.retx_seq /\ a.retx_flags = s.retx_flags
        /\ a.retx_unit \in {s.retx_unit, NoUnit} /\ a.retx_count \in {s.retx_count, 0}
        /\ a.snd_una < s.snd_nxt =>
             /\ s.snd_una < s.snd_nxt /\ a.armed = s.armed /\ a.retx_unit = s.retx_unit
    BY AckedFields DEF IInv
  <1>2. FinishWait(m, k)
    BY DEF RcvFinWait2
  <1>3. /\ s.rcv_nxt + Stored(m) \in 0 .. MaxRcv /\ s.rcv_nxt + Stored(m) + 1 \in 0 .. MaxRcv
    BY <1>0, StoredFits DEF IInv
  <1>4. k = [a EXCEPT !.rcv_nxt = s.rcv_nxt + Stored(m)]
    BY <1>1 DEF Counted
  <1> HIDE DEF a, k
  <1>5. /\ k \in SocketType /\ k.used = a.used /\ k.state = a.state
        /\ k.snd_nxt = a.snd_nxt /\ k.snd_una = a.snd_una /\ k.armed = a.armed
        /\ k.rcv_nxt = s.rcv_nxt + Stored(m)
        /\ k.retx_seq = a.retx_seq /\ k.retx_flags = a.retx_flags
        /\ k.retx_unit = a.retx_unit /\ k.retx_count = a.retx_count
    BY <1>1, <1>3, <1>4 DEF SocketType
  <1>6. /\ s' \in SocketType /\ s'.used = k.used /\ s'.snd_nxt = k.snd_nxt
        /\ s'.snd_una = k.snd_una /\ s'.armed = k.armed
        /\ s'.retx_seq = k.retx_seq /\ s'.retx_flags = k.retx_flags
        /\ s'.retx_unit = k.retx_unit /\ s'.retx_count = k.retx_count
        /\ \/ s'.state = k.state /\ s'.rcv_nxt = k.rcv_nxt
           \/ s'.state = "TIME_WAIT" /\ s'.rcv_nxt = k.rcv_nxt + 1
        /\ (toPeer' = toPeer \/ toPeer' = toPeer \cup {Bare("ACK")})
    BY <1>2, <1>3, <1>5, FinishWaitFields
  <1>7. Bounds' /\ Timed' /\ Sending' /\ toPeer' \subseteq SegmentType
    BY <1>0, <1>1, <1>5, <1>6, QuietInv
  <1> QED
    BY <1>0, <1>1, <1>5, <1>6, <1>7, StoredInv

\* Any acknowledgment ends LAST_ACK.
LEMMA RcvLastAckInv == ASSUME IInv, NEW m \in FromPeer, RcvLastAck(m) PROVE IInv'
  <1> DEFINE a == Acked(m)
  <1>0. /\ s \in SocketType /\ s.used /\ s.state = "LAST_ACK"
        /\ UNCHANGED <<app, given, taken, recvd, toPeer, peer, rolled>>
        /\ given \in 0 .. AppUnits /\ peer \in PeerType /\ rolled \in BOOLEAN
        /\ s.rcv_nxt <= PeerUnits + 2
    BY DEF IInv, TypeOK, SocketType, RcvLastAck, Comes, Receiving, appVars
  <1>1. /\ a \in SocketType /\ a.used = s.used /\ a.state = s.state
        /\ a.snd_nxt = s.snd_nxt /\ a.rcv_nxt = s.rcv_nxt
        /\ a.retx_seq = s.retx_seq /\ a.retx_flags = s.retx_flags
        /\ a.retx_unit \in {s.retx_unit, NoUnit} /\ a.retx_count \in {s.retx_count, 0}
        /\ a.snd_una < s.snd_nxt =>
             /\ s.snd_una < s.snd_nxt /\ a.armed = s.armed /\ a.retx_unit = s.retx_unit
    BY AckedFields DEF IInv
  <1>2. s' = Freed(a) \/ s' = a
    BY DEF RcvLastAck
  <1> HIDE DEF a
  <1>3. CASE s' = Freed(a)
    BY <1>0, <1>1, <1>3, FreeInv
  <1>4. CASE s' = a
    <2>1. Bounds' /\ Timed' /\ Sending' /\ toPeer' \subseteq SegmentType
      BY <1>0, <1>1, <1>4, QuietInv
    <2> QED
      BY <1>0, <1>1, <1>4, <2>1, StillInv
  <1> QED
    BY <1>2, <1>3, <1>4

\* In TIME_WAIT every FIN is answered once more, and moves rcv_nxt.
LEMMA RcvTimeWaitInv == ASSUME IInv, NEW m \in FromPeer, RcvTimeWait(m) PROVE IInv'
  <1> DEFINE a == Acked(m)
  <1>0. /\ s \in SocketType /\ s.used /\ s.state = "TIME_WAIT"
        /\ UNCHANGED <<app, given, taken, recvd, peer, rolled>>
        /\ given \in 0 .. AppUnits /\ peer \in PeerType /\ rolled \in BOOLEAN
    BY DEF IInv, TypeOK, SocketType, RcvTimeWait, Comes, Receiving, appVars
  <1>1. /\ a \in SocketType /\ a.used = s.used /\ a.state = s.state
        /\ a.snd_nxt = s.snd_nxt /\ a.rcv_nxt = s.rcv_nxt
        /\ a.retx_seq = s.retx_seq /\ a.retx_flags = s.retx_flags
        /\ a.retx_unit \in {s.retx_unit, NoUnit} /\ a.retx_count \in {s.retx_count, 0}
        /\ a.snd_una < s.snd_nxt =>
             /\ s.snd_una < s.snd_nxt /\ a.armed = s.armed /\ a.retx_unit = s.retx_unit
    BY AckedFields DEF IInv
  <1>2. \/ s.rcv_nxt < MaxRcv /\ SendBare([a EXCEPT !.rcv_nxt = @ + 1], "ACK")
        \/ s' = a /\ UNCHANGED toPeer
    BY DEF RcvTimeWait
  <1> HIDE DEF a
  <1>3. /\ s' \in SocketType /\ s'.used = a.used /\ s'.state = a.state
        /\ s'.snd_nxt = a.snd_nxt /\ s'.snd_una = a.snd_una /\ s'.armed = a.armed
        /\ s'.retx_seq = a.retx_seq /\ s'.retx_flags = a.retx_flags
        /\ s'.retx_unit = a.retx_unit /\ s'.retx_count = a.retx_count
        /\ (toPeer' = toPeer \/ toPeer' = toPeer \cup {Bare("ACK")})
    <2>1. CASE s' = a /\ UNCHANGED toPeer
      BY <1>1, <2>1
    <2>2. CASE s.rcv_nxt < MaxRcv /\ SendBare([a EXCEPT !.rcv_nxt = @ + 1], "ACK")
      <3>1. /\ s' = [a EXCEPT !.rcv_nxt = s.rcv_nxt + 1]
            /\ (toPeer' = toPeer \/ toPeer' = toPeer \cup {Bare("ACK")})
        BY <1>1, <2>2, BareOut
      <3>2. s.rcv_nxt + 1 \in 0 .. MaxRcv
        BY <1>0, <2>2, TcpAssumption DEF SocketType
      <3> QED
        BY <1>1, <3>1, <3>2 DEF SocketType
    <2> QED
      BY <1>2, <2>1, <2>2
  <1>4. Bounds' /\ Timed' /\ Sending' /\ toPeer' \subseteq SegmentType
    BY <1>0, <1>1, <1>3, QuietInv
  <1> QED
    BY <1>0, <1>1, <1>3, <1>4, StillInv

-----------------------------------------------------------------------------
(* The peer's steps keep the invariant                                      *)

\* A reset says nothing about what was received before it.
LEMMA PeerResetsInv == ASSUME IInv, PeerResets PROVE IInv'
  <1>1. peer' \in PeerType /\ peer'.next = peer.next /\ peer'.got = peer.got /\ peer'.ended = peer.ended
    BY DEF IInv, TypeOK, PeerType, PeerResets
  <1>2. UNCHANGED <<s, app, given, taken, recvd, toPeer, rolled>>
    BY DEF PeerResets, appVars
  <1>3. TypeOK' /\ Bounds' /\ Receiving' /\ InOrder' /\ Timed'
    BY <1>1, <1>2 DEF IInv, TypeOK, Bounds, Reached, Kept, Receiving, InOrder, Timed
  <1>4. Sending'
    BY <1>1, <1>2 DEF IInv, Sending, Numbered, KeptSent, Kept, DataNumbered, OneFin, AllBelow,
                      PeerCounts, Fins, Data
  <1> QED
    BY <1>3, <1>4 DEF IInv

\* The peer takes the segment it expects: the next unit has the next number, as nothing
\* that was sent after the FIN comes before it.
LEMMA PeerReceivesInv == ASSUME IInv, NEW m \in toPeer, PeerReceives(m) PROVE IInv'
  <1> DEFINE syn == "SYN" \in m.flags /\ peer.next = 0
             unit == m.unit # NoUnit /\ m.seq = peer.next /\ ~peer.ended
             fin == "FIN" \in m.flags /\ m.seq = peer.next /\ ~peer.ended
  <1>0. /\ peer \in PeerType /\ s.snd_nxt \in Nat /\ m.seq \in Nat /\ m.unit \in Nat
        /\ peer.next \in Nat /\ peer.got \in Seq(Nat) /\ Len(peer.got) \in Nat
        /\ UNCHANGED <<s, app, given, taken, recvd, toPeer, rolled>>
        /\ Advance(m.flags, m.unit) \in 0 .. 2
    BY AdvanceType, LenProperties
    DEF IInv, TypeOK, PeerType, Numbers, PeerReceives, appVars
  <1>1. CASE /\ peer' \in PeerType /\ peer'.next = peer.next /\ peer'.got = peer.got
             /\ peer'.ended = peer.ended
    BY <1>0, <1>1 DEF IInv, TypeOK, Bounds, Reached, Kept, Receiving, InOrder, Timed, Sending,
                      Numbered, KeptSent, DataNumbered, OneFin, AllBelow, PeerCounts, Fins, Data
  <1>2. ASSUME peer' \in PeerType, ~rolled => peer'.next <= s.snd_nxt /\ PeerCounts'
        PROVE  IInv'
    <2>1. TypeOK' /\ Bounds' /\ Receiving' /\ InOrder' /\ Timed'
      BY <1>0, <1>2 DEF IInv, TypeOK, Bounds, Reached, Kept, Receiving, InOrder, Timed
    <2>2. Sending'
      BY <1>0, <1>2 DEF IInv, Sending, Numbered, KeptSent, Kept, DataNumbered, OneFin, AllBelow,
                        Fins, Data
    <2> QED
      BY <2>1, <2>2 DEF IInv
  <1>3. ~rolled => /\ DataNumbered /\ OneFin /\ AllBelow /\ PeerCounts /\ Fins' = Fins
                   /\ m.seq + Advance(m.flags, m.unit) <= s.snd_nxt
    BY <1>0 DEF IInv, Sending, AllBelow, Fins
  <1>4. CASE syn /\ peer' = [peer EXCEPT !.next = 1]
    <2>1. /\ peer' \in PeerType /\ peer'.next = 1 /\ peer'.got = peer.got
          /\ peer'.ended = peer.ended
      BY <1>0, <1>4 DEF PeerType
    <2>2. Advance(m.flags, m.unit) >= 1
      BY <1>4 DEF Advance
    <2>3. ASSUME ~rolled PROVE peer'.next <= s.snd_nxt /\ PeerCounts'
      <3>1. peer'.next <= s.snd_nxt
        BY <1>0, <1>3, <2>1, <2>2, <2>3
      <3>2. \A f \in Fins : 1 <= f.seq
        BY <1>3, <2>3 DEF AllBelow, Fins, IInv, TypeOK, Numbers
      <3> QED
        BY <1>3, <1>4, <2>1, <2>3, <3>1, <3>2 DEF PeerCounts
    <2> QED
      BY <1>2, <2>1, <2>3
  <1>5. CASE unit /\ peer' = [peer EXCEPT !.next = @ + 1, !.got = Append(@, m.unit), !.open = TRUE]
    <2>1. /\ peer' \in PeerType /\ peer'.next = peer.next + 1
          /\ peer'.got = Append(peer.got, m.unit) /\ peer'.ended = peer.ended
      <3>1. Append(peer.got, m.unit) \in Seq(Nat) /\ peer.next + 1 \in Nat
        BY <1>0, AppendProperties
      <3> QED
        BY <1>0, <1>5, <3>1 DEF PeerType
    <2>2. Advance(m.flags, m.unit) >= 1
      BY <1>5 DEF Advance
    <2>3. ASSUME ~rolled PROVE peer'.next <= s.snd_nxt /\ PeerCounts'
      <3>1. peer'.next <= s.snd_nxt
        BY <1>0, <1>3, <1>5, <2>1, <2>2, <2>3
      <3>2. m \in Data /\ m.seq > 0
        BY <1>3, <1>5, <2>3 DEF Data, AllBelow
      <3>3. /\ Len(peer.got) = peer.next - 1 /\ \A f \in Fins : peer.next <= f.seq
            /\ \A i \in 1 .. Len(peer.got) : peer.got[i] = i
        BY <1>0, <1>3, <1>5, <2>3, <3>2 DEF PeerCounts
      <3>4. m.unit = peer.next
        <4>1. \A f \in Fins : ~(f.seq < m.seq)
          BY <1>0, <1>5, <3>3 DEF Fins, IInv, TypeOK, Numbers
        <4> QED
          BY <1>3, <1>5, <2>3, <3>2, <4>1 DEF DataNumbered
      <3>5. \A f \in Fins : peer.next + 1 <= f.seq
        <4>1. \A f \in Fins : f.seq # peer.next /\ f.seq \in Nat
          BY <1>3, <1>5, <2>3, <3>2 DEF OneFin, Fins, IInv, TypeOK, Numbers
        <4> QED
          BY <1>0, <3>3, <4>1
      <3>6. /\ Len(peer'.got) = Len(peer.got) + 1
            /\ \A i \in 1 .. Len(peer.got) + 1 :
                 peer'.got[i] = IF i <= Len(peer.got) THEN peer.got[i] ELSE m.unit
        BY <1>0, <2>1, AppendProperties
      <3>7. \A i \in 1 .. Len(peer'.got) : peer'.got[i] = i
        <4>1. Len(peer.got) + 1 = m.unit
          BY <1>0, <3>3, <3>4
        <4>2. ASSUME NEW i \in 1 .. Len(peer.got) + 1
              PROVE  peer'.got[i] = i
          <5>1. CASE i \in 1 .. Len(peer.got)
            <6>1. i <= Len(peer.got) /\ peer.got[i] = i
              BY <3>3, <5>1
            <6> QED
              BY <3>6, <6>1
          <5>2. CASE i = Len(peer.got) + 1
            BY <1>0, <3>6, <4>1, <5>2
          <5> QED
            BY <1>0, <5>1, <5>2
        <4> QED
          BY <3>6, <4>2
      <3>8. Len(peer'.got) = peer'.next - 1 /\ peer'.next # 0
        BY <1>0, <2>1, <3>3, <3>6
      <3> QED
        BY <1>3, <2>1, <2>3, <3>1, <3>5, <3>7, <3>8 DEF PeerCounts
    <2> QED
      BY <1>2, <2>1, <2>3
  <1>6. CASE fin /\ peer' = [peer EXCEPT !.next = @ + 1, !.ended = TRUE, !.open = TRUE]
    <2>1. /\ peer' \in PeerType /\ peer'.next = peer.next + 1 /\ peer'.got = peer.got
          /\ peer'.ended = TRUE
      <3>1. peer.next + 1 \in Nat
        BY <1>0
      <3>2. peer' = [peer EXCEPT !.next = peer.next + 1, !.ended = TRUE, !.open = TRUE]
        BY <1>6
      <3> QED
        BY <1>0, <3>1, <3>2 DEF PeerType
    <2>2. Advance(m.flags, m.unit) >= 1
      BY <1>6 DEF Advance
    <2>3. ASSUME ~rolled PROVE peer'.next <= s.snd_nxt /\ PeerCounts'
      BY <1>0, <1>3, <1>6, <2>1, <2>2, <2>3 DEF PeerCounts
    <2> QED
      BY <1>2, <2>1, <2>3
  <1>7. \/ peer' = [peer EXCEPT !.up = FALSE]
        \/ syn /\ peer' = [peer EXCEPT !.next = 1]
        \/ unit /\ peer' = [peer EXCEPT !.next = @ + 1, !.got = Append(@, m.unit), !.open = TRUE]
        \/ fin /\ peer' = [peer EXCEPT !.next = @ + 1, !.ended = TRUE, !.open = TRUE]
        \/ peer' = [peer EXCEPT !.open = @ \/ ("ACK" \in m.flags /\ peer.next > 0)]
    BY DEF PeerReceives
  <1>8. CASE peer' = [peer EXCEPT !.up = FALSE]
    BY <1>0, <1>1, <1>8 DEF PeerType
  <1>9. CASE peer' = [peer EXCEPT !.open = @ \/ ("ACK" \in m.flags /\ peer.next > 0)]
    <2> DEFINE o == peer.open \/ ("ACK" \in m.flags /\ peer.next > 0)
    <2>1. o \in BOOLEAN
      OBVIOUS
    <2>2. peer' = [peer EXCEPT !.open = o]
      BY <1>9
    <2> HIDE DEF o
    <2> QED
      BY <1>0, <1>1, <2>1, <2>2 DEF PeerType
  <1> QED
    BY <1>4, <1>5, <1>6, <1>7, <1>8, <1>9

-----------------------------------------------------------------------------
(* The theorems                                                             *)

LEMMA NextInv == IInv /\ [Next]_vars => IInv'
  <1> SUFFICES ASSUME IInv, [Next]_vars PROVE IInv'
    OBVIOUS
  <1>1. CASE App
    BY <1>1, ConnectInv, ConnectReturnInv, SendChunkInv, SendWaitEndsInv, RecvInv, CloseInv,
       CloseReturnInv DEF App
  <1>2. CASE Tick
    BY <1>2, TimeWaitOverInv, DisarmInv, RetransmitInv DEF Tick
  <1>3. ASSUME NEW m \in FromPeer, Receive(m)
        PROVE  IInv'
    BY <1>3, RcvUnknownInv, RcvRstInv, RcvSynSentInv, RcvDataInv, RcvFinInv, RcvFinWait1Inv,
       RcvFinWait2Inv, RcvLastAckInv, RcvTimeWaitInv DEF Receive
  <1>4. ASSUME NEW m \in toPeer, PeerReceives(m)
        PROVE  IInv'
    BY <1>4, PeerReceivesInv
  <1>5. CASE PeerResets
    BY <1>5, PeerResetsInv
  <1>6. CASE UNCHANGED vars
    <2>1. UNCHANGED <<s, app, given, taken, recvd, toPeer, peer, rolled>>
      BY <1>6 DEF vars, appVars
    <2> QED
      BY <2>1 DEF IInv, TypeOK, Bounds, Reached, Kept, Receiving, InOrder, Timed, Sending,
                  Numbered, KeptSent, DataNumbered, OneFin, AllBelow, PeerCounts, Fins, Data
  <1> QED
    BY <1>1, <1>2, <1>3, <1>4, <1>5, <1>6 DEF Next

LEMMA Invariance == Spec => []IInv
  BY InitInv, NextInv, PTL DEF Spec

\* Every variable has its type: no send number leaves its bound, and recv_buf is never over
\* its size.
THEOREM TypeCorrect == Spec => []TypeOK
  BY Invariance, PTL DEF IInv

\* What tcp_recv returns is the peer's stream from its start, without a gap or a repetition,
\* for any size of recv_buf and whatever the network does.
THEOREM StreamReceivedInOrder == Spec => []InOrder
  BY Invariance, PTL DEF IInv

\* As long as the connection stands, rcv_nxt is what was stored and no more: a segment that
\* had no room in recv_buf is not acknowledged.
THEOREM StoredIsAcknowledged == Spec => []AcksReceived
  <1>1. IInv => AcksReceived
    BY DEF IInv, Receiving, AcksReceived
  <1> QED
    BY <1>1, Invariance, PTL

\* Whatever is sent and not acknowledged has its retransmission timer running, unless a
\* retransmission has failed (code: tcp_send_raw and the ACKs of tcp_receive).
THEOREM TimerRuns == Spec => []UnackedHasTimer
  <1>1. IInv => UnackedHasTimer
    BY DEF IInv, Timed, UnackedHasTimer
  <1> QED
    BY <1>1, Invariance, PTL

\* The peer receives what tcp_send was given, in order, unless a retransmission has failed
\* for want of memory.
THEOREM StreamSentInOrder == Spec => []PeerInOrder
  <1>1. IInv => PeerInOrder
    BY DEF IInv, Sending, PeerCounts, PeerInOrder
  <1> QED
    BY <1>1, Invariance, PTL
================================================================================
