------------------------------ MODULE UdpDnsProofs ------------------------------
(***************************************************************************)
(* Proofs about module UdpDns, for any names, ports, hosts and caches.     *)
(*                                                                         *)
(* The three parts of the invariant rest on different variables: the ARP   *)
(* cache names a host once, with the address that it has last announced;   *)
(* while a name is being resolved the cache has no entry for it, and the   *)
(* id that is waited for was last used to ask for it; and the listener is  *)
(* open exactly while udplisten runs, with all that has come numbered and  *)
(* its ring holding only what came since it last went to wait.             *)
(***************************************************************************)
EXTENDS UdpDns, SequenceTheorems, WellFoundedInduction, TLAPS

-----------------------------------------------------------------------------
(* Types                                                                    *)

Commands == [kind : {None, "nslookup", "udplisten"}, name : Names \cup {None},
             pc : {"idle", "loop", "hlt", "recv", "away"}, deadline : Int, pause : Int,
             attempt : 0..Retries]

Resolvers == [waiting : BOOLEAN, id : 0..(IdMod - 1),
              resp : [name : Names \cup {None}, ok : BOOLEAN]]

Entries == [name : Names \cup {None}, ip : Names \cup {None}, deadline : 0..(Period - 1 + Ttl)]

Listeners == [used : BOOLEAN, port : Ports \cup {None}, ring : Seq(Nat), came : Seq(Nat),
              shown : Seq(Nat), dropped : SUBSET Nat, waited : Nat]

Types ==
  /\ handler \in [Ports -> {None, "dns", "listener"}]
  /\ listener \in Listeners
  /\ dns \in Resolvers /\ nextId \in 0..(IdMod - 1)
  /\ asked \in [0..(IdMod - 1) -> Names \cup {None}]
  /\ cache \in [1..CacheSize -> Entries]
  /\ cmd \in Commands /\ uptime \in 0..(Period - 1)

\* What the constants are.
LEMMA Consts ==
  /\ IdMod \in Nat /\ IdMod > 0 /\ Retries \in Nat /\ Retries > 0 /\ Timeout \in Nat /\ Timeout > 0
  /\ Ttl \in Nat /\ CacheSize \in Nat /\ CacheSize > 0 /\ ArpSize \in Nat /\ ArpSize > 0
  /\ Listen \in Nat /\ Pause \in Nat /\ Depth \in Nat /\ DnsPort \in Ports
  /\ Period \in Nat /\ Period > 1
  /\ None \notin Names /\ None \notin Hosts
  BY UdpDnsAssumption DEF None, Hosts

-----------------------------------------------------------------------------
(* Choosing the first of several slots                                      *)

LEMMA LeastNumber ==
  ASSUME NEW U, U \subseteq Nat, U # {}
  PROVE  \E u \in U : \A v \in U : u <= v
  <1>1. PICK u \in U : \A v \in U : ~(<<v, u>> \in OpToRel(<, Nat))
    BY NatLessThanWellFounded, WFMin
  <1>2. \A v \in U : ~(v < u)
    BY <1>1 DEF OpToRel
  <1> QED
    BY <1>2

LEMMA FirstIn ==
  ASSUME NEW U, U \subseteq Nat, U # {}
  PROVE  First(U) \in U
  BY LeastNumber DEF First

-----------------------------------------------------------------------------
(* The ARP cache                                                            *)

\* Each host has one slot at most, with the MAC address that the host has last announced.
ArpSound ==
  /\ arp = [i \in 1..ArpSize |-> arp[i]] /\ mac = [h \in Hosts |-> mac[h]]
  /\ \A i \in 1..ArpSize :
       /\ arp[i].host \in Hosts \cup {None}
       /\ arp[i].host \in Hosts => arp[i].mac = mac[arp[i].host]
  /\ \A i, j \in 1..ArpSize : arp[i].host \in Hosts /\ arp[i].host = arp[j].host => i = j

LEMMA SlotsAre ==
  ASSUME NEW h PROVE SlotsOf(h) \subseteq 1..ArpSize /\ SlotsOf(h) \subseteq Nat
  BY DEF SlotsOf

LEMMA ArpInit == Init => ArpSound
  <1> SUFFICES ASSUME Init PROVE ArpSound
    OBVIOUS
  <1>1. /\ arp = [i \in 1..ArpSize |-> IF i <= Len(Preset) THEN Preset[i] ELSE Slot(None, None)]
        /\ mac = [h \in Hosts |-> IF SlotsOf(h) # {} THEN Lookup(h) ELSE CHOOSE m \in Macs[h] : TRUE]
    BY DEF Init
  <1>2. \A i \in 1..ArpSize : /\ i <= Len(Preset) => arp[i] = Preset[i] /\ i \in 1..Len(Preset)
                              /\ ~(i <= Len(Preset)) => arp[i].host = None
    BY <1>1, UdpDnsAssumption DEF Slot
  <1>3. \A i \in 1..ArpSize : arp[i].host \in Hosts \cup {None}
    BY <1>2, UdpDnsAssumption DEF Hosts
  <1>4. ASSUME NEW i \in 1..ArpSize, NEW j \in 1..ArpSize, arp[i].host \in Hosts, arp[i].host = arp[j].host
        PROVE  i = j
    BY <1>2, <1>4, Consts, UdpDnsAssumption
  <1>5. ASSUME NEW i \in 1..ArpSize, arp[i].host \in Hosts PROVE arp[i].mac = mac[arp[i].host]
    <2> DEFINE h == arp[i].host
    <2>1. i \in SlotsOf(h)
      BY DEF SlotsOf
    <2>2. First(SlotsOf(h)) \in SlotsOf(h)
      BY <2>1, SlotsAre, FirstIn
    <2>3. First(SlotsOf(h)) = i
      BY <1>4, <1>5, <2>2 DEF SlotsOf
    <2>4. mac[h] = Lookup(h)
      BY <1>1, <1>5, <2>1
    <2> QED
      BY <2>1, <2>3, <2>4 DEF Lookup
  <1>6. arp = [i \in 1..ArpSize |-> arp[i]] /\ mac = [h \in Hosts |-> mac[h]]
    BY <1>1
  <1> QED
    BY <1>3, <1>4, <1>5, <1>6 DEF ArpSound

LEMMA ArpStep ==
  ASSUME ArpSound, NEW host \in Hosts, NEW m, HandleArp(host, m) PROVE ArpSound'
  <1> DEFINE s == ArpSlot(host)
  <1>1. arp' = [arp EXCEPT ![s] = Slot(host, m)] /\ mac' = [mac EXCEPT ![host] = m]
    BY DEF HandleArp
  <1>2. s \in 1..ArpSize /\ \A i \in 1..ArpSize : arp[i].host = host => i = s
    <2>1. CASE SlotsOf(host) # {}
      <3>1. s = First(SlotsOf(host)) /\ First(SlotsOf(host)) \in SlotsOf(host)
        BY <2>1, SlotsAre, FirstIn DEF ArpSlot
      <3> QED
        BY <3>1 DEF SlotsOf, ArpSound
    <2>2. CASE SlotsOf(host) = {}
      <3>1. \A i \in 1..ArpSize : arp[i].host # host
        BY <2>2 DEF SlotsOf
      <3>2. s \in 1..ArpSize
        <4>1. CASE SlotsOf(None) # {}
          BY <2>2, <4>1, SlotsAre, FirstIn DEF ArpSlot
        <4>2. CASE SlotsOf(None) = {}
          BY <2>2, <4>2, Consts DEF ArpSlot
        <4> QED
          BY <4>1, <4>2
      <3> QED
        BY <3>1, <3>2
    <2> QED
      BY <2>1, <2>2
  <1> HIDE DEF s
  <1>3. /\ arp' = [i \in 1..ArpSize |-> IF i = s THEN Slot(host, m) ELSE arp[i]]
        /\ mac' = [h \in Hosts |-> IF h = host THEN m ELSE mac[h]]
    BY <1>1 DEF ArpSound
  <1>4. \A i \in 1..ArpSize : /\ i = s => arp'[i].host = host /\ arp'[i].mac = m
                              /\ i # s => arp'[i] = arp[i] /\ arp[i].host # host
    BY <1>2, <1>3 DEF Slot
  <1>5. \A i \in 1..ArpSize : /\ arp'[i].host \in Hosts \cup {None}
                              /\ arp'[i].host \in Hosts => arp'[i].mac = mac'[arp'[i].host]
    BY <1>3, <1>4 DEF ArpSound
  <1>6. \A i, j \in 1..ArpSize : arp'[i].host \in Hosts /\ arp'[i].host = arp'[j].host => i = j
    BY <1>4 DEF ArpSound
  <1> QED
    BY <1>3, <1>5, <1>6 DEF ArpSound

\* What is sent to a host goes where it can be found, or to everybody.
LEMMA LookupSound == ArpSound => \A h \in Hosts : Lookup(h) \in {mac[h], Broadcast}
  <1> SUFFICES ASSUME ArpSound, NEW h \in Hosts, SlotsOf(h) # {} PROVE Lookup(h) = mac[h]
    BY DEF Lookup
  <1>1. First(SlotsOf(h)) \in SlotsOf(h)
    BY SlotsAre, FirstIn
  <1> QED
    BY <1>1 DEF Lookup, SlotsOf, ArpSound

-----------------------------------------------------------------------------
(* The command                                                              *)

\* A step in the waiting loops, which changes where the command is and its times.
LEMMA CommandMoves ==
  ASSUME NEW c \in Commands, NEW l \in {"idle", "loop", "hlt", "recv", "away"}, NEW d,
         d = [c EXCEPT !.pc = l]
  PROVE  d \in Commands /\ d.kind = c.kind /\ d.name = c.name /\ d.attempt = c.attempt
  BY DEF Commands

\* A step that sets the deadline of udpl_recv_wait as well.
LEMMA CommandTimed ==
  ASSUME NEW c \in Commands, NEW l \in {"idle", "loop", "hlt", "recv", "away"}, NEW y \in Int, NEW d,
         d = [c EXCEPT !.pc = l, !.pause = y]
  PROVE  d \in Commands /\ d.kind = c.kind /\ d.name = c.name
  BY DEF Commands

LEMMA CommandIs ==
  ASSUME NEW kind \in {None, "nslookup", "udplisten"}, NEW name \in Names \cup {None},
         NEW pc \in {"idle", "loop", "hlt", "recv", "away"}, NEW deadline \in Int, NEW pause \in Int,
         NEW attempt \in 0..Retries, NEW d, d = Command(kind, name, pc, deadline, pause, attempt)
  PROVE  d \in Commands /\ d.kind = kind /\ d.name = name
  BY DEF Commands, Command

LEMMA IdleIs == Idle \in Commands /\ Idle.kind = None /\ Idle.name = None
  <1>1. 0 \in 0..Retries
    BY Consts
  <1> QED
    BY <1>1, CommandIs DEF Idle

-----------------------------------------------------------------------------
(* The listener                                                             *)

\* The n-th datagram that comes has the number n; what was printed and what is in the ring
\* follow each other in order and are all that came but what found the ring full.
Numbered(got, came, dropped) ==
  /\ \A i \in 1..Len(came) : came[i] = i
  /\ \A i \in 1..Len(got) : got[i] \in 1..Len(came)
  /\ \A i, j \in 1..Len(got) : i < j => got[i] < got[j]
  /\ \A n \in 1..Len(came) : n \in dropped \/ \E i \in 1..Len(got) : got[i] = n

\* What is in the ring came after udplisten last went to wait.
Fresh(l) == l.waited <= Len(l.came) /\ \A i \in 1..Len(l.ring) : l.ring[i] > l.waited

Ordered(l) == Numbered(l.shown \o l.ring, l.came, l.dropped) /\ Fresh(l)

\* A port has the listener's callback as long as udplisten runs.
Open ==
  /\ listener.used <=> cmd.kind = "udplisten"
  /\ \A p \in Ports : handler[p] = "listener" <=> listener.used /\ listener.port = p

LEMMA FreshListener ==
  ASSUME NEW u \in BOOLEAN, NEW p \in Ports \cup {None}, NEW l, l = Listener(u, p)
  PROVE  l \in Listeners /\ Ordered(l) /\ l.used = u /\ l.port = p
  <1>1. /\ l.used = u /\ l.port = p /\ l.ring = <<>> /\ l.came = <<>> /\ l.shown = <<>>
        /\ l.dropped = {} /\ l.waited = 0
    BY DEF Listener
  <1>2. <<>> \in Seq(Nat) /\ <<>> \o <<>> = <<>> /\ Len(<<>>) = 0
    BY EmptySeq, ConcatEmptySeq
  <1>3. Ordered(l)
    BY <1>1, <1>2 DEF Ordered, Numbered, Fresh
  <1>4. l \in Listeners
    BY <1>2 DEF Listener, Listeners
  <1> QED
    BY <1>1, <1>3, <1>4

LEMMA ListenerFields ==
  ASSUME NEW l \in Listeners
  PROVE  /\ l.used \in BOOLEAN /\ l.port \in Ports \cup {None}
         /\ l.ring \in Seq(Nat) /\ l.came \in Seq(Nat) /\ l.shown \in Seq(Nat)
         /\ l.dropped \subseteq Nat /\ l.waited \in Nat
  BY DEF Listeners

LEMMA Associative ==
  ASSUME NEW s \in Seq(Nat), NEW t \in Seq(Nat), NEW u \in Seq(Nat)
  PROVE  (s \o t) \o u = s \o (t \o u)
  <1>1. \A S : \A s1, s2, s3 \in Seq(S) : (s1 \o s2) \o s3 = s1 \o (s2 \o s3)
    BY ConcatAssociative
  <1> DEFINE N == Nat
  <1> HIDE DEF N
  <1>2. \A s1, s2, s3 \in Seq(N) : (s1 \o s2) \o s3 = s1 \o (s2 \o s3)
    BY <1>1
  <1> QED
    BY <1>2 DEF N

\* One more datagram, which the ring takes or not.
LEMMA OneMore ==
  ASSUME NEW got \in Seq(Nat), NEW came \in Seq(Nat), NEW dropped,
         Numbered(got, came, dropped), NEW n, n = Len(came) + 1
  PROVE  /\ Append(came, n) \in Seq(Nat)
         /\ Numbered(got, Append(came, n), dropped \cup {n})
         /\ Numbered(Append(got, n), Append(came, n), dropped)
  <1> DEFINE cs == Append(came, n)
             gs == Append(got, n)
  <1>1. n \in Nat /\ Len(came) \in Nat /\ Len(got) \in Nat
    BY LenProperties
  <1>2. /\ cs \in Seq(Nat) /\ Len(cs) = n /\ cs[n] = n /\ \A i \in 1..Len(came) : cs[i] = came[i]
    BY <1>1, AppendProperties
  <1>3. /\ Len(gs) = Len(got) + 1 /\ gs[Len(got) + 1] = n
        /\ \A i \in 1..Len(got) : gs[i] = got[i]
    BY <1>1, AppendProperties
  <1> HIDE DEF cs, gs
  <1>5. \A i \in 1..Len(cs) : cs[i] = i
    <2>1. \A i \in 1..Len(came) : came[i] = i
      BY DEF Numbered
    <2> SUFFICES ASSUME NEW i \in 1..n PROVE cs[i] = i
      BY <1>2
    <2>2. i = n \/ i \in 1..Len(came)
      BY <1>1
    <2> QED
      BY <1>2, <2>1, <2>2
  <1> DEFINE G == Len(got)
             N == Len(came)
  <1> HIDE DEF G, N
  <1>6. \A i \in 1..G : got[i] \in 1..N
    BY DEF Numbered, G, N
  <1>6a. G \in Nat /\ N \in Nat /\ n = N + 1 /\ Len(cs) = n /\ Len(gs) = G + 1
    BY <1>1, <1>2, <1>3 DEF G, N
  <1>6b. gs[G + 1] = n /\ \A i \in 1..G : gs[i] = got[i]
    BY <1>3 DEF G
  <1>6c. \A i \in 1..G : got[i] \in 1..n
    BY <1>6, <1>6a
  <1>7. \A i \in 1..G + 1 : gs[i] \in 1..n
    BY <1>6a, <1>6b, <1>6c
  <1>8. \A i, j \in 1..G + 1 : i < j => gs[i] < gs[j]
    <2>1. \A i, j \in 1..G : i < j => got[i] < got[j]
      BY DEF Numbered, G
    <2>2. \A i \in 1..G : gs[i] \in 1..N
      BY <1>6, <1>6b
    <2>3. \A i, j \in 1..G : i < j => gs[i] < gs[j]
      BY <1>6b, <2>1
    <2> SUFFICES ASSUME NEW i \in 1..G + 1, NEW j \in 1..G + 1, i < j PROVE gs[i] < gs[j]
      OBVIOUS
    <2>4. CASE j = G + 1
      <3>1. i \in 1..G
        BY <1>6a, <2>4
      <3>2. gs[i] \in 1..N
        BY <2>2, <3>1
      <3> QED
        BY <1>6a, <1>6b, <2>4, <3>2
    <2>5. CASE j # G + 1
      <3>1. i \in 1..G /\ j \in 1..G
        BY <1>6a, <2>5
      <3> QED
        BY <2>3, <3>1
    <2> QED
      BY <2>4, <2>5
  <1>8a. /\ \A k \in 1..n : k = n \/ k \in 1..N
         /\ \A k \in 1..N : k \in dropped \/ \E i \in 1..G : got[i] = k
         /\ \A i \in 1..G : i \in 1..G + 1 /\ gs[i] = got[i]
         /\ G + 1 \in 1..G + 1
    BY <1>6a, <1>6b DEF Numbered, G, N
  <1>9. Numbered(got, cs, dropped \cup {n})
    <2>1. \A k \in 1..n : k \in dropped \cup {n} \/ \E i \in 1..G : got[i] = k
      BY <1>8a
    <2> QED
      BY <1>5, <1>6a, <1>6c, <2>1 DEF Numbered, G
  <1>10. Numbered(gs, cs, dropped)
    <2>1. \A k \in 1..n : k \in dropped \/ \E i \in 1..G + 1 : gs[i] = k
      BY <1>6b, <1>8a
    <2> QED
      BY <1>5, <1>6a, <1>7, <1>8, <2>1 DEF Numbered
  <1> QED
    BY <1>2, <1>9, <1>10 DEF cs, gs

LEMMA PushedListener ==
  ASSUME NEW l \in Listeners, Ordered(l), NEW d, d = Pushed(l)
  PROVE  d \in Listeners /\ Ordered(d) /\ d.used = l.used /\ d.port = l.port
  <1> DEFINE n == Len(l.came) + 1
             full == Len(l.ring) = Depth - 1
             got == l.shown \o l.ring
  <1>1. d = [l EXCEPT !.came = Append(l.came, n),
                      !.dropped = IF full THEN l.dropped \cup {n} ELSE l.dropped,
                      !.ring = IF full THEN l.ring ELSE Append(l.ring, n)]
    BY DEF Pushed
  <1>2. /\ l.ring \in Seq(Nat) /\ l.came \in Seq(Nat) /\ l.shown \in Seq(Nat)
        /\ l.dropped \subseteq Nat /\ l.waited \in Nat /\ got \in Seq(Nat)
    BY ListenerFields, ConcatProperties
  <1>3. n \in Nat
    BY <1>2, LenProperties
  <1>4. /\ d.came = Append(l.came, n) /\ d.waited = l.waited
        /\ d.dropped = (IF full THEN l.dropped \cup {n} ELSE l.dropped)
        /\ d.ring = (IF full THEN l.ring ELSE Append(l.ring, n))
        /\ d.shown = l.shown /\ d.used = l.used /\ d.port = l.port
    BY <1>1 DEF Listeners
  <1>5. d \in Listeners
    <2>1. Append(l.came, n) \in Seq(Nat) /\ Append(l.ring, n) \in Seq(Nat)
      BY <1>2, <1>3, AppendProperties
    <2>2. (IF full THEN l.dropped \cup {n} ELSE l.dropped) \in SUBSET Nat
      BY <1>2, <1>3
    <2> HIDE DEF full, n
    <2> QED
      BY <1>1, <2>1, <2>2 DEF Listeners
  <1>6. /\ Numbered(got, Append(l.came, n), l.dropped \cup {n})
        /\ Numbered(Append(got, n), Append(l.came, n), l.dropped)
    <2> HIDE DEF got
    <2>1. Numbered(got, l.came, l.dropped)
      BY DEF Ordered, got
    <2> QED
      BY <1>2, <2>1, OneMore
  <1>7. l.shown \o Append(l.ring, n) = Append(got, n)
    <2>1. Append(l.ring, n) = l.ring \o <<n>> /\ Append(got, n) = got \o <<n>>
      BY <1>2, <1>3, AppendIsConcat
    <2>2. <<n>> \in Seq(Nat)
      BY <1>3
    <2> DEFINE one == <<n>>
    <2> HIDE DEF one
    <2>3. (l.shown \o l.ring) \o one = l.shown \o (l.ring \o one)
      BY <1>2, <2>2, Associative DEF one
    <2> QED
      BY <2>1, <2>3 DEF one
  <1>7a. Fresh(d)
    <2>1. /\ Len(l.came) \in Nat /\ Len(l.ring) \in Nat /\ n > l.waited
          /\ Len(Append(l.came, n)) = n /\ Len(Append(l.ring, n)) = Len(l.ring) + 1
      BY <1>2, <1>3, LenProperties, AppendProperties DEF Ordered, Fresh
    <2>2. \A i \in 1..Len(l.ring) + 1 :
            \/ Append(l.ring, n)[i] = n
            \/ i \in 1..Len(l.ring) /\ Append(l.ring, n)[i] = l.ring[i]
      <3>1. /\ Append(l.ring, n)[Len(l.ring) + 1] = n
            /\ \A i \in 1..Len(l.ring) : Append(l.ring, n)[i] = l.ring[i]
        BY <1>2, <1>3, AppendProperties
      <3>2. \A i \in 1..Len(l.ring) + 1 : i = Len(l.ring) + 1 \/ i \in 1..Len(l.ring)
        BY <2>1
      <3> QED
        BY <3>1, <3>2
    <2>3. \A i \in 1..Len(l.ring) : l.ring[i] > l.waited
      BY DEF Ordered, Fresh
    <2>4. \A i \in 1..Len(l.ring) + 1 : Append(l.ring, n)[i] > l.waited
      BY <2>1, <2>2, <2>3
    <2>5. d.waited <= Len(d.came)
      BY <1>2, <1>3, <1>4, <2>1
    <2> HIDE DEF n
    <2> QED
      BY <1>4, <2>1, <2>3, <2>4, <2>5 DEF Fresh
  <1> HIDE DEF got, n
  <1>8. CASE full
    <2>1. d.shown \o d.ring = got /\ d.dropped = l.dropped \cup {n}
      BY <1>2, <1>4, <1>8 DEF got
    <2> QED
      BY <1>4, <1>5, <1>6, <1>7a, <2>1 DEF Ordered
  <1>9. CASE ~full
    <2>1. d.shown \o d.ring = Append(got, n) /\ d.dropped = l.dropped
      BY <1>2, <1>4, <1>7, <1>9
    <2> QED
      BY <1>4, <1>5, <1>6, <1>7a, <2>1 DEF Ordered
  <1> QED
    BY <1>8, <1>9

LEMMA PoppedListener ==
  ASSUME NEW l \in Listeners, Ordered(l), l.ring # <<>>, NEW d, d = Popped(l)
  PROVE  d \in Listeners /\ Ordered(d) /\ d.used = l.used /\ d.port = l.port
  <1>1. d = [l EXCEPT !.ring = Tail(l.ring), !.shown = Append(l.shown, Head(l.ring))]
    BY DEF Popped
  <1>2. /\ l.ring \in Seq(Nat) /\ l.came \in Seq(Nat) /\ l.shown \in Seq(Nat) /\ l.waited \in Nat
    BY ListenerFields
  <1>3. /\ d.ring = Tail(l.ring) /\ d.shown = Append(l.shown, Head(l.ring))
        /\ d.came = l.came /\ d.dropped = l.dropped /\ d.waited = l.waited
        /\ d.used = l.used /\ d.port = l.port
    BY <1>1 DEF Listeners
  <1>4. /\ Head(l.ring) \in Nat /\ Tail(l.ring) \in Seq(Nat) /\ <<Head(l.ring)>> \o Tail(l.ring) = l.ring
        /\ <<Head(l.ring)>> \in Seq(Nat)
    <2>1. Head(l.ring) \in Nat /\ Tail(l.ring) \in Seq(Nat)
      BY <1>2, HeadTailProperties
    <2>2. <<Head(l.ring)>> \o Tail(l.ring) = l.ring
      BY <1>2
    <2> QED
      BY <2>1, <2>2
  <1>5. Append(l.shown, Head(l.ring)) \in Seq(Nat)
    BY <1>2, <1>4, AppendProperties
  <1>6. Append(l.shown, Head(l.ring)) \o Tail(l.ring) = l.shown \o l.ring
    <2>1. Append(l.shown, Head(l.ring)) = l.shown \o <<Head(l.ring)>>
      BY <1>2, <1>4, AppendIsConcat
    <2>2. (l.shown \o <<Head(l.ring)>>) \o Tail(l.ring) = l.shown \o (<<Head(l.ring)>> \o Tail(l.ring))
      BY <1>2, <1>4, Associative
    <2> QED
      BY <1>4, <2>1, <2>2
  <1>7. d \in Listeners
    BY <1>1, <1>4, <1>5 DEF Listeners
  <1>8. Fresh(d)
    <2>1. /\ Len(l.ring) \in Nat /\ Len(Tail(l.ring)) = Len(l.ring) - 1
          /\ \A i \in 1..Len(Tail(l.ring)) : Tail(l.ring)[i] = l.ring[i + 1]
      BY <1>2, LenProperties, HeadTailProperties
    <2>2. \A i \in 1..Len(Tail(l.ring)) : i + 1 \in 1..Len(l.ring)
      BY <2>1
    <2> QED
      BY <1>3, <2>1, <2>2 DEF Ordered, Fresh
  <1> QED
    BY <1>3, <1>6, <1>7, <1>8 DEF Ordered

\* It goes to wait once the ring is empty: then all that had room has been printed.
LEMMA WaitingListener ==
  ASSUME NEW l \in Listeners, Ordered(l), l.ring = <<>>, NEW d, d = Waiting(l)
  PROVE  d \in Listeners /\ Ordered(d) /\ d.used = l.used /\ d.port = l.port
  <1>1. Len(l.came) \in Nat /\ l.came \in Seq(Nat)
    BY ListenerFields, LenProperties
  <1>2. /\ d \in Listeners /\ d.used = l.used /\ d.port = l.port /\ d.ring = l.ring
        /\ d.shown = l.shown /\ d.came = l.came /\ d.dropped = l.dropped /\ d.waited = Len(l.came)
    BY <1>1 DEF Waiting, Listeners
  <1>3. Fresh(d)
    BY <1>1, <1>2 DEF Fresh
  <1> QED
    BY <1>2, <1>3 DEF Ordered

-----------------------------------------------------------------------------
(* The resolver                                                             *)

\* While an answer is awaited, the id asked for is that of the command's name; one that has
\* been taken is for that name.
Awaiting ==
  /\ dns.waiting => cmd.kind = "nslookup" /\ asked[dns.id] = cmd.name
  /\ cmd.kind = "nslookup" => cmd.name \in Names
  /\ cmd.kind = "nslookup" /\ ~dns.waiting => dns.resp.name = cmd.name

\* The cache holds a name once, with the name's address, and never that which is being resolved.
Cached(c) ==
  /\ \A i \in 1..CacheSize : c[i].ip = c[i].name /\ (c[i].name = None => c[i] = Invalid)
  /\ \A i, j \in 1..CacheSize : c[i].name = c[j].name => i = j \/ c[i] = Invalid

Absent(c, name) == \A i \in 1..CacheSize : c[i].name # name

Resolving == Cached(cache) /\ (cmd.kind = "nslookup" => Absent(cache, cmd.name))

LEMMA InvalidIs == Invalid \in Entries /\ Invalid.name = None /\ Invalid.ip = None
  <1>1. 0 \in 0..(Period - 1 + Ttl)
    BY Consts
  <1> QED
    BY <1>1 DEF Invalid, Entry, Entries

\* What cache_lookup makes invalid leaves nothing of a name that it has not found.
LEMMA ScannedCache ==
  ASSUME uptime \in 0..(Period - 1), NEW c \in [1..CacheSize -> Entries], Cached(c), NEW name \in Names,
         NEW d, d = Scanned(c, name)
  PROVE  /\ d \in [1..CacheSize -> Entries] /\ Cached(d)
         /\ Hits(c, name) = {} => Absent(d, name)
  <1>1. /\ d = [i \in 1..CacheSize |-> d[i]]
        /\ \A i \in 1..CacheSize : d[i] = c[i] \/ d[i] = Invalid
    BY DEF Scanned
  <1>2. d \in [1..CacheSize -> Entries]
    BY <1>1, InvalidIs
  <1>3. Cached(d)
    BY <1>1, InvalidIs DEF Cached
  <1>4. ASSUME Hits(c, name) = {}, NEW i \in 1..CacheSize PROVE d[i].name # name
    <2>1. d[i] = IF uptime >= c[i].deadline THEN Invalid ELSE c[i]
      BY <1>4 DEF Scanned
    <2>2. c[i].deadline \in Int /\ uptime \in Int
      BY Consts DEF Entries
    <2>3. c[i].name = name => ~(uptime < c[i].deadline)
      BY <1>4 DEF Hits
    <2> QED
      BY <2>1, <2>2, <2>3, InvalidIs, Consts
  <1> QED
    BY <1>2, <1>3, <1>4 DEF Absent

LEMMA StoreSlotIs ==
  ASSUME NEW c \in [1..CacheSize -> Entries] PROVE StoreSlot(c) \in 1..CacheSize
  <1> DEFINE free == {i \in 1..CacheSize : c[i].name = None}
             oldest == {i \in 1..CacheSize : \A j \in 1..CacheSize : c[i].deadline <= c[j].deadline}
             of == IF free # {} THEN free ELSE oldest
             deadlines == {c[i].deadline : i \in 1..CacheSize}
  <1>1. \A i \in 1..CacheSize : c[i].deadline \in Nat
    BY Consts DEF Entries
  <1>2. deadlines \subseteq Nat /\ deadlines # {}
    <2>1. 1 \in 1..CacheSize
      BY Consts
    <2> QED
      BY <1>1, <2>1
  <1>3. PICK x \in deadlines : \A y \in deadlines : x <= y
    BY <1>2, LeastNumber
  <1>4. PICK i \in 1..CacheSize : x = c[i].deadline
    OBVIOUS
  <1>5. \A j \in 1..CacheSize : c[i].deadline <= c[j].deadline
    BY <1>3, <1>4
  <1>6. of \subseteq 1..CacheSize /\ of # {}
    BY <1>5
  <1>7. of \subseteq Nat
    BY <1>6
  <1> HIDE DEF of
  <1>8. \E u \in of : \A v \in of : u <= v
    BY <1>6, <1>7, LeastNumber
  <1>9. StoreSlot(c) = CHOOSE u \in of : \A v \in of : u <= v
    BY DEF StoreSlot, of
  <1> QED
    BY <1>6, <1>8, <1>9

\* What is stored for a name that the cache has not got.
LEMMA StoredCache ==
  ASSUME uptime \in 0..(Period - 1), NEW c \in [1..CacheSize -> Entries], Cached(c), NEW name \in Names,
         Absent(c, name), NEW d, d = [c EXCEPT ![StoreSlot(c)] = Entry(name, name, uptime + Ttl)]
  PROVE  d \in [1..CacheSize -> Entries] /\ Cached(d)
  <1> DEFINE s == StoreSlot(c)
             e == Entry(name, name, uptime + Ttl)
  <1>1. s \in 1..CacheSize
    BY StoreSlotIs
  <1>2. e \in Entries /\ e.name = name /\ e.ip = name
    <2>1. uptime + Ttl \in 0..(Period - 1 + Ttl)
      BY Consts
    <2> QED
      BY <2>1 DEF Entry, Entries
  <1> HIDE DEF s, e
  <1>3. d = [i \in 1..CacheSize |-> IF i = s THEN e ELSE c[i]]
    BY DEF s, e
  <1>4. d \in [1..CacheSize -> Entries]
    BY <1>1, <1>2, <1>3
  <1>5. name # None
    BY Consts
  <1>6. d[s] = e /\ \A i \in 1..CacheSize : i # s => d[i] = c[i] /\ d[i].name # name
    BY <1>1, <1>3 DEF Absent
  <1>7. \A i \in 1..CacheSize : d[i].ip = d[i].name /\ (d[i].name = None => d[i] = Invalid)
    BY <1>2, <1>5, <1>6 DEF Cached
  <1>8. \A i, j \in 1..CacheSize : d[i].name = d[j].name => i = j \/ d[i] = Invalid
    BY <1>2, <1>6 DEF Cached
  <1> QED
    BY <1>4, <1>7, <1>8 DEF Cached

-----------------------------------------------------------------------------
(* The inductive invariant                                                  *)

IInv ==
  /\ Types
  /\ ArpSound
  /\ Ordered(listener) /\ Open
  /\ Awaiting
  /\ Resolving

\* What a step does not touch.
LEMMA ArpKept == ArpSound /\ UNCHANGED arpVars => ArpSound'
  BY DEF ArpSound, arpVars, Hosts

LEMMA UdpKept ==
  ASSUME Ordered(listener), Open, UNCHANGED udpVars, cmd'.kind = cmd.kind
  PROVE  Ordered(listener)' /\ Open'
  BY DEF Ordered, Numbered, Fresh, Open, udpVars

LEMMA DnsKept ==
  ASSUME Awaiting, Resolving, UNCHANGED dnsVars,
         cmd'.kind = cmd.kind, cmd'.name = cmd.name
  PROVE  Awaiting' /\ Resolving'
  BY DEF Awaiting, Resolving, Cached, Absent, dnsVars

\* A step that only moves the command, between its loop and a hlt or within its loop.
LEMMA Moved ==
  ASSUME IInv, cmd' \in Commands, cmd'.kind = cmd.kind, cmd'.name = cmd.name,
         UNCHANGED <<udpVars, dnsVars, arpVars>>, uptime' \in 0..(Period - 1)
  PROVE  IInv'
  <1>1. Types'
    BY DEF IInv, Types, udpVars, dnsVars
  <1>2. ArpSound' /\ Ordered(listener)' /\ Open' /\ Awaiting' /\ Resolving'
    BY ArpKept, UdpKept, DnsKept DEF IInv
  <1> QED
    BY <1>1, <1>2 DEF IInv

LEMMA ArpHandled ==
  ASSUME IInv, NEW host \in Hosts, NEW m, HandleArp(host, m) PROVE IInv'
  <1>1. UNCHANGED <<udpVars, dnsVars, cmd, uptime>>
    BY DEF HandleArp
  <1>2. ArpSound'
    BY ArpStep DEF IInv
  <1>3. Ordered(listener)' /\ Open' /\ Awaiting' /\ Resolving'
    BY <1>1, UdpKept, DnsKept DEF IInv
  <1>4. Types'
    BY <1>1 DEF IInv, Types, udpVars, dnsVars
  <1> QED
    BY <1>2, <1>3, <1>4 DEF IInv

LEMMA UdpHandled ==
  ASSUME IInv, NEW port \in Ports, HandleUdp(port) PROVE IInv'
  <1>1. listener' = Pushed(listener) /\ UNCHANGED <<handler, dnsVars, arpVars, cmd, uptime>>
    BY DEF HandleUdp
  <1>2. listener \in Listeners /\ Ordered(listener)
    BY DEF IInv, Types
  <1>3. PICK d : d = listener'
    OBVIOUS
  <1>4. d \in Listeners /\ Ordered(d) /\ d.used = listener.used /\ d.port = listener.port
    BY <1>1, <1>2, <1>3, PushedListener
  <1>5. Ordered(listener)'
    BY <1>3, <1>4 DEF Ordered, Numbered, Fresh
  <1>6. Open'
    BY <1>1, <1>3, <1>4 DEF IInv, Open
  <1>7. ArpSound' /\ Awaiting' /\ Resolving'
    BY <1>1, ArpKept, DnsKept DEF IInv
  <1>8. Types'
    BY <1>1, <1>3, <1>4 DEF IInv, Types, dnsVars
  <1> QED
    BY <1>5, <1>6, <1>7, <1>8 DEF IInv

LEMMA AnswerHandled ==
  ASSUME IInv, NEW server \in BOOLEAN, NEW qr \in BOOLEAN, NEW id \in 0..(IdMod - 1),
         NEW name \in Names, NEW ok \in BOOLEAN, HandleAnswer(server, qr, id, name, ok)
  PROVE  IInv'
  <1>1. /\ server /\ dns.waiting /\ id = dns.id /\ asked[id] = name
        /\ dns' = [dns EXCEPT !.waiting = FALSE, !.resp = Response(name, ok)]
        /\ UNCHANGED <<udpVars, nextId, asked, cache, arpVars, cmd, uptime>>
    BY DEF HandleAnswer, Accepts
  <1>2. dns \in Resolvers
    BY DEF IInv, Types
  <1>3. dns' \in Resolvers /\ dns'.waiting = FALSE /\ dns'.resp.name = name
    BY <1>1, <1>2 DEF Resolvers, Response
  <1>4. Awaiting'
    BY <1>1, <1>3 DEF IInv, Awaiting
  <1>5. Resolving'
    BY <1>1 DEF IInv, Resolving, Cached, Absent
  <1>6. ArpSound' /\ Ordered(listener)' /\ Open'
    BY <1>1, ArpKept, UdpKept DEF IInv
  <1>7. Types'
    BY <1>1, <1>3 DEF IInv, Types, udpVars
  <1> QED
    BY <1>4, <1>5, <1>6, <1>7 DEF IInv

\* Between commands nothing is waited for, and no port has the listener's callback.
LEMMA WhenIdle ==
  ASSUME IInv, cmd = Idle
  PROVE  ~dns.waiting /\ ~listener.used /\ \A p \in Ports : handler[p] # "listener"
  <1>1. cmd.kind = None /\ None # "nslookup" /\ None # "udplisten"
    BY IdleIs DEF None
  <1> QED
    BY <1>1 DEF IInv, Awaiting, Open

LEMMA CachedStep ==
  ASSUME IInv, NEW name \in Names, ResolveCached(name) PROVE IInv'
  <1>1. /\ cmd = Idle /\ cache' = Scanned(cache, name)
        /\ UNCHANGED <<udpVars, dns, nextId, asked, arpVars, cmd, uptime>>
    BY DEF ResolveCached
  <1>2. PICK d : d = cache'
    OBVIOUS
  <1>3. d \in [1..CacheSize -> Entries] /\ Cached(d)
    BY <1>1, <1>2, ScannedCache DEF IInv, Types, Resolving
  <1>4. cmd.kind # "nslookup"
    BY <1>1, IdleIs DEF None
  <1>5. Resolving'
    BY <1>1, <1>2, <1>3, <1>4 DEF Resolving, Cached
  <1>6. Awaiting'
    BY <1>1 DEF IInv, Awaiting
  <1>7. ArpSound' /\ Ordered(listener)' /\ Open'
    BY <1>1, ArpKept, UdpKept DEF IInv
  <1>8. Types'
    BY <1>1, <1>2, <1>3 DEF IInv, Types, udpVars
  <1> QED
    BY <1>5, <1>6, <1>7, <1>8 DEF IInv

\* What a query leaves: it is waited for, and it was last asked for this name.
LEMMA Sent ==
  ASSUME Types, NEW name \in Names, NEW id \in 0..(IdMod - 1), NEW n \in 0..Retries,
         Send(name, id, n)
  PROVE  /\ dns' \in Resolvers /\ cmd' \in Commands
         /\ asked' \in [0..(IdMod - 1) -> Names \cup {None}]
         /\ cmd'.kind = "nslookup" /\ cmd'.name = name
         /\ Awaiting'
  <1>1. /\ dns' = [waiting |-> TRUE, id |-> id, resp |-> NoResponse]
        /\ asked' = [asked EXCEPT ![id] = name]
        /\ cmd' = Command("nslookup", name, "loop", uptime + Timeout, 0, n)
    BY DEF Send
  <1>2. dns' \in Resolvers /\ dns'.waiting = TRUE /\ dns'.id = id
    BY <1>1 DEF Resolvers, NoResponse, Response
  <1>3. asked' \in [0..(IdMod - 1) -> Names \cup {None}] /\ asked'[id] = name
    BY <1>1 DEF Types
  <1>4. PICK c : c = cmd'
    OBVIOUS
  <1>5. uptime + Timeout \in Int /\ 0 \in Int
    BY Consts DEF Types
  <1>6. c \in Commands /\ c.kind = "nslookup" /\ c.name = name
    BY <1>1, <1>4, <1>5, CommandIs
  <1> QED
    BY <1>2, <1>3, <1>4, <1>6 DEF Awaiting

LEMMA ResolveStep ==
  ASSUME IInv, NEW name \in Names, Resolve(name) PROVE IInv'
  <1>1. /\ cmd = Idle /\ Hits(cache, name) = {} /\ cache' = Scanned(cache, name)
        /\ handler' = [handler EXCEPT ![DnsPort] = "dns"]
        /\ nextId' = (nextId + 1) % IdMod
        /\ Send(name, nextId, 1)
        /\ UNCHANGED <<listener, arpVars, uptime>>
    BY DEF Resolve, Register
  <1>2. PICK d : d = cache'
    OBVIOUS
  <1>3. d \in [1..CacheSize -> Entries] /\ Cached(d) /\ Absent(d, name)
    BY <1>1, <1>2, ScannedCache DEF IInv, Types, Resolving
  <1>4. nextId \in 0..(IdMod - 1) /\ nextId' \in 0..(IdMod - 1)
    BY <1>1, Consts DEF IInv, Types
  <1>5. 1 \in 0..Retries
    BY Consts
  <1>6. /\ dns' \in Resolvers /\ cmd' \in Commands
        /\ asked' \in [0..(IdMod - 1) -> Names \cup {None}]
        /\ cmd'.kind = "nslookup" /\ cmd'.name = name
        /\ Awaiting'
    BY <1>1, <1>4, <1>5, Sent DEF IInv
  <1>7. Resolving'
    BY <1>2, <1>3, <1>6 DEF Resolving, Cached, Absent
  <1>8. ~listener.used /\ \A p \in Ports : handler[p] # "listener"
    BY <1>1, WhenIdle
  <1>9. /\ handler' \in [Ports -> {None, "dns", "listener"}]
        /\ \A p \in Ports : handler'[p] # "listener"
    BY <1>1, <1>8 DEF IInv, Types
  <1>10. Open'
    BY <1>1, <1>6, <1>8, <1>9 DEF Open
  <1>11. ArpSound' /\ Ordered(listener)'
    BY <1>1, ArpKept DEF IInv, Ordered, Numbered, Fresh
  <1>12. Types'
    BY <1>1, <1>2, <1>3, <1>4, <1>6, <1>9 DEF IInv, Types
  <1> QED
    BY <1>6, <1>7, <1>10, <1>11, <1>12 DEF IInv

LEMMA WaitsStep ==
  ASSUME IInv, ResolveWaits PROVE IInv'
  <1>1. cmd' = [cmd EXCEPT !.pc = "hlt"] /\ UNCHANGED <<udpVars, dnsVars, arpVars, uptime>>
    BY DEF ResolveWaits
  <1>2. PICK c : c = cmd'
    OBVIOUS
  <1>3. c \in Commands /\ c.kind = cmd.kind /\ c.name = cmd.name
    BY <1>1, <1>2, CommandMoves DEF IInv, Types
  <1>4. uptime' \in 0..(Period - 1)
    BY <1>1 DEF IInv, Types
  <1> QED
    BY <1>1, <1>2, <1>3, <1>4, Moved

LEMMA RetriesStep ==
  ASSUME IInv, ResolveRetries PROVE IInv'
  <1>1. /\ cmd.kind = "nslookup" /\ cmd.attempt < Retries
        /\ Send(cmd.name, dns.id, cmd.attempt + 1)
        /\ UNCHANGED <<udpVars, nextId, cache, arpVars, uptime>>
    BY DEF ResolveRetries
  <1>2. cmd.attempt \in 0..Retries /\ dns.id \in 0..(IdMod - 1) /\ cmd.name \in Names
    BY <1>1 DEF IInv, Types, Commands, Resolvers, Awaiting
  <1>3. PICK n : n = cmd.attempt + 1
    OBVIOUS
  <1>4. n \in 0..Retries
    BY <1>1, <1>2, <1>3, Consts
  <1>5. /\ dns' \in Resolvers /\ cmd' \in Commands
        /\ asked' \in [0..(IdMod - 1) -> Names \cup {None}]
        /\ cmd'.kind = "nslookup" /\ cmd'.name = cmd.name
        /\ Awaiting'
    BY <1>1, <1>2, <1>3, <1>4, Sent DEF IInv
  <1>6. Resolving'
    BY <1>1, <1>5 DEF IInv, Resolving, Cached, Absent
  <1>7. ArpSound' /\ Ordered(listener)' /\ Open'
    BY <1>1, <1>5, ArpKept, UdpKept DEF IInv
  <1>8. Types'
    BY <1>1, <1>5 DEF IInv, Types, udpVars
  <1> QED
    BY <1>5, <1>6, <1>7, <1>8 DEF IInv

LEMMA EndsStep ==
  ASSUME IInv, ResolveEnds PROVE IInv'
  <1>1. /\ cmd.kind = "nslookup"
        /\ cache' = IF ~dns.waiting /\ dns.resp.ok
                    THEN [cache EXCEPT ![StoreSlot(cache)] = Entry(cmd.name, dns.resp.name, uptime + Ttl)]
                    ELSE cache
        /\ dns' = [dns EXCEPT !.waiting = FALSE, !.resp = NoResponse]
        /\ cmd' = Idle
        /\ UNCHANGED <<udpVars, nextId, asked, arpVars, uptime>>
    BY DEF ResolveEnds, Done
  <1>2. PICK d : d = cache'
    OBVIOUS
  <1>3. cache \in [1..CacheSize -> Entries] /\ Cached(cache) /\ cmd.name \in Names /\ Absent(cache, cmd.name)
        /\ uptime \in 0..(Period - 1)
    BY <1>1 DEF IInv, Types, Awaiting, Resolving
  <1>4. d \in [1..CacheSize -> Entries] /\ Cached(d)
    <2>1. CASE ~dns.waiting /\ dns.resp.ok
      <3>1. dns.resp.name = cmd.name
        BY <1>1, <2>1 DEF IInv, Awaiting
      <3>2. d = [cache EXCEPT ![StoreSlot(cache)] = Entry(cmd.name, cmd.name, uptime + Ttl)]
        BY <1>1, <1>2, <2>1, <3>1
      <3> QED
        BY <1>3, <3>2, StoredCache
    <2>2. CASE ~(~dns.waiting /\ dns.resp.ok)
      BY <1>1, <1>2, <1>3, <2>2
    <2> QED
      BY <2>1, <2>2
  <1>5. dns' \in Resolvers /\ ~dns'.waiting
    BY <1>1 DEF IInv, Types, Resolvers, NoResponse, Response
  <1>6. cmd' \in Commands /\ cmd'.kind = None /\ None # "nslookup" /\ None # "udplisten"
    BY <1>1, IdleIs DEF None
  <1>7. Awaiting' /\ Resolving'
    BY <1>2, <1>4, <1>5, <1>6 DEF Awaiting, Resolving, Cached
  <1>8. ~listener.used
    BY <1>1 DEF IInv, Open
  <1>9. Open'
    BY <1>1, <1>6, <1>8 DEF IInv, Open, udpVars
  <1>10. ArpSound' /\ Ordered(listener)'
    BY <1>1, ArpKept DEF IInv, Ordered, Numbered, Fresh, udpVars
  <1>11. Types'
    BY <1>1, <1>2, <1>4, <1>5, <1>6 DEF IInv, Types, udpVars
  <1> QED
    BY <1>7, <1>9, <1>10, <1>11 DEF IInv

LEMMA ListenStartsStep ==
  ASSUME IInv, NEW port \in Ports, ListenStarts(port) PROVE IInv'
  <1>1. /\ cmd = Idle /\ listener' = Listener(TRUE, port)
        /\ handler' = [handler EXCEPT ![port] = "listener"]
        /\ cmd' = Command("udplisten", None, "loop", uptime + Listen, 0, 0)
        /\ UNCHANGED <<dnsVars, arpVars, uptime>>
    BY DEF ListenStarts, Register
  <1>2. PICK l : l = listener'
    OBVIOUS
  <1>3. l \in Listeners /\ Ordered(l) /\ l.used = TRUE /\ l.port = port
    BY <1>1, <1>2, FreshListener
  <1>4. PICK c : c = cmd'
    OBVIOUS
  <1>5. uptime + Listen \in Int /\ 0 \in Int /\ 0 \in 0..Retries
    BY Consts DEF IInv, Types
  <1>6. c \in Commands /\ c.kind = "udplisten"
    BY <1>1, <1>4, <1>5, CommandIs
  <1>7. /\ ~dns.waiting /\ \A p \in Ports : handler[p] # "listener"
    BY <1>1, WhenIdle
  <1>8. /\ handler' \in [Ports -> {None, "dns", "listener"}]
        /\ \A p \in Ports : handler'[p] = "listener" <=> p = port
    BY <1>1, <1>7 DEF IInv, Types
  <1>9. Open'
    BY <1>2, <1>3, <1>4, <1>6, <1>8 DEF Open
  <1>10. Ordered(listener)'
    <2>1. Ordered(l)
      BY <1>3
    <2> QED
      BY <1>2, <2>1 DEF Ordered, Numbered, Fresh
  <1>11. Awaiting' /\ Resolving'
    BY <1>1, <1>4, <1>6, <1>7 DEF IInv, Awaiting, Resolving, Cached, dnsVars
  <1>12. ArpSound'
    BY <1>1, ArpKept DEF IInv
  <1>13. Types'
    BY <1>1, <1>2, <1>3, <1>4, <1>6, <1>8 DEF IInv, Types, dnsVars
  <1> QED
    BY <1>9, <1>10, <1>11, <1>12, <1>13 DEF IInv

LEMMA ListenTurnStep ==
  ASSUME IInv, ListenTurn PROVE IInv'
  <1>1. /\ cmd' = [cmd EXCEPT !.pc = "recv", !.pause = uptime + Pause]
        /\ UNCHANGED <<udpVars, dnsVars, arpVars, uptime>>
    BY DEF ListenTurn
  <1>2. PICK c : c = cmd'
    OBVIOUS
  <1>3. cmd \in Commands /\ uptime + Pause \in Int /\ uptime \in 0..(Period - 1)
    BY Consts DEF IInv, Types
  <1>4. c \in Commands /\ c.kind = cmd.kind /\ c.name = cmd.name
    <2>1. PICK y \in Int : y = uptime + Pause
      BY <1>3
    <2>2. c = [cmd EXCEPT !.pc = "recv", !.pause = y]
      BY <1>1, <1>2, <2>1
    <2> QED
      BY <1>3, <2>1, <2>2 DEF Commands
  <1> QED
    BY <1>1, <1>2, <1>3, <1>4, Moved

LEMMA RecvWaitStep ==
  ASSUME IInv, RecvWait PROVE IInv'
  <1>1. /\ cmd' = [cmd EXCEPT !.pc = "loop", !.pause = 0] \/ cmd' = [cmd EXCEPT !.pc = "hlt"]
        /\ \/ UNCHANGED listener
           \/ listener.ring = <<>> /\ listener' = Waiting(listener)
           \/ listener.ring # <<>> /\ listener' = Popped(listener)
        /\ UNCHANGED <<handler, dnsVars, arpVars, uptime>>
    BY DEF RecvWait, Returned
  <1>2. cmd' \in Commands /\ cmd'.kind = cmd.kind /\ cmd'.name = cmd.name
    <2>1. PICK c : c = cmd'
      OBVIOUS
    <2>2. cmd \in Commands /\ 0 \in Int
      BY DEF IInv, Types
    <2> QED
      BY <1>1, <2>1, <2>2 DEF Commands
  <1>3. PICK l : l = listener'
    OBVIOUS
  <1>4. l \in Listeners /\ Ordered(l) /\ l.used = listener.used /\ l.port = listener.port
    <2>1. listener \in Listeners /\ Ordered(listener)
      BY DEF IInv, Types
    <2> QED
      BY <1>1, <1>3, <2>1, PoppedListener, WaitingListener
  <1>5. Ordered(listener)'
    BY <1>3, <1>4 DEF Ordered, Numbered, Fresh
  <1>6. Open'
    BY <1>1, <1>2, <1>3, <1>4 DEF IInv, Open
  <1>7. ArpSound' /\ Awaiting' /\ Resolving'
    BY <1>1, <1>2, ArpKept, DnsKept DEF IInv
  <1>8. Types'
    BY <1>1, <1>2, <1>3, <1>4 DEF IInv, Types, dnsVars
  <1> QED
    BY <1>5, <1>6, <1>7, <1>8 DEF IInv

LEMMA ListenEndsStep ==
  ASSUME IInv, ListenEnds PROVE IInv'
  <1>1. /\ cmd.kind = "udplisten"
        /\ handler' = [handler EXCEPT ![listener.port] = None]
        /\ listener' = Listener(FALSE, None)
        /\ cmd' = Idle
        /\ UNCHANGED <<dnsVars, arpVars, uptime>>
    BY DEF ListenEnds, Register
  <1>2. PICK l : l = listener'
    OBVIOUS
  <1>3. l \in Listeners /\ Ordered(l) /\ l.used = FALSE
    BY <1>1, <1>2, FreshListener
  <1>4. cmd' \in Commands /\ cmd'.kind = None /\ None # "nslookup" /\ None # "udplisten"
    BY <1>1, IdleIs DEF None
  <1>5. ~dns.waiting
    BY <1>1 DEF IInv, Awaiting
  <1>6. \A p \in Ports : handler[p] = "listener" => listener.port = p
    BY DEF IInv, Open
  <1>7. /\ handler' \in [Ports -> {None, "dns", "listener"}]
        /\ \A p \in Ports : handler'[p] # "listener"
    BY <1>1, <1>4, <1>6 DEF IInv, Types, None
  <1>8. Open'
    BY <1>2, <1>3, <1>4, <1>7 DEF Open
  <1>9. Ordered(listener)'
    <2>1. Ordered(l)
      BY <1>3
    <2> QED
      BY <1>2, <2>1 DEF Ordered, Numbered, Fresh
  <1>10. Awaiting' /\ Resolving'
    BY <1>1, <1>4, <1>5 DEF IInv, Awaiting, Resolving, Cached, dnsVars
  <1>11. ArpSound'
    BY <1>1, ArpKept DEF IInv
  <1>12. Types'
    BY <1>1, <1>2, <1>3, <1>4, <1>7 DEF IInv, Types, dnsVars
  <1> QED
    BY <1>8, <1>9, <1>10, <1>11, <1>12 DEF IInv

\* The hlt is over, or another process has the processor, and some time may have passed.
LEMMA WokenStep ==
  ASSUME IInv, UNCHANGED <<udpVars, dnsVars, arpVars>>, uptime' \in 0..(Period - 1),
         cmd' = cmd \/ cmd' = Resumed(cmd) \/ cmd' = [cmd EXCEPT !.pc = "away"]
  PROVE  IInv'
  <1>1. PICK c : c = cmd'
    OBVIOUS
  <1>2. cmd \in Commands
    BY DEF IInv, Types
  <1>3. c = cmd \/ \E l \in {"idle", "loop", "hlt", "recv", "away"} : c = [cmd EXCEPT !.pc = l]
    BY <1>1 DEF Resumed
  <1>4. c \in Commands /\ c.kind = cmd.kind /\ c.name = cmd.name
    BY <1>2, <1>3, CommandMoves
  <1> QED
    BY <1>1, <1>4, Moved

LEMMA WakeStep ==
  ASSUME IInv, Wake \/ Back PROVE IInv'
  <1>1. UNCHANGED <<udpVars, dnsVars, arpVars, uptime>> /\ cmd' = Resumed(cmd)
    BY DEF Wake, Back
  <1>2. uptime' \in 0..(Period - 1)
    BY <1>1 DEF IInv, Types
  <1> QED
    BY <1>1, <1>2, WokenStep

LEMMA TickStep ==
  ASSUME IInv, Tick PROVE IInv'
  <1>1. /\ UNCHANGED <<udpVars, dnsVars, arpVars>>
        /\ cmd' = cmd \/ cmd' = Resumed(cmd) \/ cmd' = [cmd EXCEPT !.pc = "away"]
    BY DEF Tick
  <1>2. uptime' \in 0..(Period - 1)
    <2>1. uptime \in Nat /\ Period \in Nat /\ Period > 0 /\ 0 \in 0..(Period - 1)
      BY Consts DEF IInv, Types
    <2>2. (uptime + 1) % Period \in 0..(Period - 1)
      BY <2>1
    <2>3. uptime' = (uptime + 1) % Period \/ uptime' = 0
      BY DEF Tick, NextUptime
    <2> QED
      BY <2>1, <2>2, <2>3
  <1> QED
    BY <1>1, <1>2, WokenStep

LEMMA InitInv == Init => IInv
  <1> SUFFICES ASSUME Init PROVE IInv
    OBVIOUS
  <1>1. /\ handler = [p \in Ports |-> None] /\ listener = Listener(FALSE, None)
        /\ dns = [waiting |-> FALSE, id |-> 0, resp |-> NoResponse] /\ nextId = 0
        /\ asked = [i \in 0..(IdMod - 1) |-> None]
        /\ cache = [i \in 1..CacheSize |-> Invalid] /\ cmd = Idle /\ uptime = 0
    BY DEF Init
  <1>2. listener \in Listeners /\ Ordered(listener) /\ ~listener.used
    BY <1>1, FreshListener
  <1>3. cmd \in Commands /\ cmd.kind = None /\ None # "nslookup" /\ None # "udplisten" /\ None # "listener"
    BY <1>1, IdleIs DEF None
  <1>4. 0 \in 0..(IdMod - 1)
    BY Consts
  <1>5. dns \in Resolvers /\ ~dns.waiting
    BY <1>1, <1>4 DEF Resolvers, NoResponse, Response
  <1>6. cache \in [1..CacheSize -> Entries] /\ Cached(cache)
    BY <1>1, InvalidIs DEF Cached
  <1>6a. uptime \in 0..(Period - 1)
    BY <1>1, Consts
  <1>7. Types
    BY <1>1, <1>2, <1>3, <1>4, <1>5, <1>6, <1>6a DEF Types
  <1>8. Open /\ Awaiting /\ Resolving
    BY <1>1, <1>2, <1>3, <1>5, <1>6 DEF Open, Awaiting, Resolving
  <1> QED
    BY <1>2, <1>7, <1>8, ArpInit DEF IInv

LEMMA StepInv ==
  ASSUME IInv, [Next]_vars PROVE IInv'
  <1>1. ASSUME NEW name \in Names, ResolveCached(name) \/ Resolve(name) PROVE IInv'
    BY <1>1, CachedStep, ResolveStep
  <1>2. ASSUME NEW port \in Ports, ListenStarts(port) \/ HandleUdp(port) PROVE IInv'
    BY <1>2, ListenStartsStep, UdpHandled
  <1>3. ASSUME NEW server \in BOOLEAN, NEW qr \in BOOLEAN, NEW ok \in BOOLEAN,
               NEW id \in 0..(IdMod - 1), NEW name \in Names, HandleAnswer(server, qr, id, name, ok)
        PROVE  IInv'
    BY <1>3, AnswerHandled
  <1>4. ASSUME NEW host \in Hosts, NEW m \in Macs[host], HandleArp(host, m) PROVE IInv'
    BY <1>4, ArpHandled
  <1>5. CASE Steps
    BY <1>5, WaitsStep, RetriesStep, EndsStep, ListenTurnStep, RecvWaitStep, ListenEndsStep
       DEF Steps
  <1>6. CASE Wake \/ Tick \/ Back
    BY <1>6, WakeStep, TickStep
  <1>7. CASE UNCHANGED vars
    <2>1. UNCHANGED <<udpVars, dnsVars, arpVars>> /\ UNCHANGED cmd /\ UNCHANGED uptime
      BY <1>7 DEF vars
    <2>2. cmd \in Commands /\ uptime \in 0..(Period - 1)
      BY DEF IInv, Types
    <2>3. /\ cmd' \in Commands /\ cmd'.kind = cmd.kind /\ cmd'.name = cmd.name
          /\ uptime' \in 0..(Period - 1)
      BY <2>1, <2>2
    <2> QED
      BY <2>1, <2>3, Moved
  <1> QED
    BY <1>1, <1>2, <1>3, <1>4, <1>5, <1>6, <1>7 DEF Next

\* The invariant holds of every state that the program reaches.
THEOREM Invariance == Spec => []IInv
  <1>1. Init => IInv
    BY InitInv
  <1>2. IInv /\ [Next]_vars => IInv'
    BY StepInv
  <1> QED
    BY <1>1, <1>2, PTL DEF Spec

-----------------------------------------------------------------------------
(* What the resolver and the listener promise                               *)

LEMMA AnswersIn == IInv => Answers
  <1> SUFFICES ASSUME IInv PROVE Answers
    OBVIOUS
  <1>1. TypeOK
    BY DEF IInv, Types, ArpSound, TypeOK, Resolvers, Entries, Commands
  <1>2. /\ cmd.kind = "nslookup" /\ ~dns.waiting => dns.resp.name = cmd.name
        /\ dns.waiting => cmd.kind = "nslookup"
    BY DEF IInv, Awaiting
  <1>3. CachedOnce /\ \A i \in 1..CacheSize : cache[i].ip = cache[i].name
    BY DEF IInv, Resolving, Cached, CachedOnce
  <1> QED
    BY <1>1, <1>2, <1>3, LookupSound DEF IInv, Answers

LEMMA HeardIn == IInv => Heard
  <1> SUFFICES ASSUME IInv PROVE Heard
    OBVIOUS
  <1> DEFINE shown == listener.shown
             ring == listener.ring
             came == listener.came
             got == shown \o ring
  <1>1. /\ shown \in Seq(Nat) /\ ring \in Seq(Nat) /\ came \in Seq(Nat)
        /\ Numbered(got, came, listener.dropped)
        /\ \A i \in 1..Len(ring) : ring[i] > listener.waited
    BY DEF IInv, Types, Listeners, Ordered, Fresh
  <1>2. /\ DOMAIN shown = 1..Len(shown) /\ DOMAIN came = 1..Len(came)
        /\ Len(shown) \in Nat /\ Len(ring) \in Nat /\ Len(came) \in Nat
        /\ Len(got) = Len(shown) + Len(ring)
        /\ \A i \in 1..Len(got) : got[i] = IF i <= Len(shown) THEN shown[i] ELSE ring[i - Len(shown)]
    BY <1>1, LenProperties, ConcatProperties
  <1> HIDE DEF shown, ring, came, got
  <1>3. /\ \A i \in 1..Len(shown) : i \in 1..Len(got) /\ got[i] = shown[i]
        /\ \A i \in 1..Len(got) : i \in 1..Len(shown) \/ (i - Len(shown) \in 1..Len(ring) /\ got[i] = ring[i - Len(shown)])
    BY <1>2
  <1>4. \A i, j \in 1..Len(shown) : i < j => shown[i] < shown[j]
    <2>1. \A i, j \in 1..Len(got) : i < j => got[i] < got[j]
      BY <1>1 DEF Numbered
    <2> QED
      BY <1>3, <2>1
  <1>5. Range(shown) \subseteq Range(came)
    <2> SUFFICES ASSUME NEW i \in DOMAIN shown PROVE shown[i] \in Range(came)
      BY DEF Range
    <2>1. shown[i] \in DOMAIN came /\ came[shown[i]] = shown[i]
      BY <1>1, <1>2, <1>3 DEF Numbered
    <2> QED
      BY <2>1 DEF Range
  <1>6. ASSUME NEW n \in Range(came), n \notin Range(shown)
        PROVE  n \in listener.dropped \/ n > listener.waited
    <2>1. PICK k \in DOMAIN came : came[k] = n
      BY DEF Range
    <2>2. n \in 1..Len(came)
      BY <1>1, <1>2, <2>1 DEF Numbered
    <2>3. CASE n \notin listener.dropped
      <3>1. PICK i \in 1..Len(got) : got[i] = n
        BY <1>1, <2>2, <2>3 DEF Numbered
      <3>2. i \notin 1..Len(shown)
        BY <1>2, <1>3, <1>6, <3>1 DEF Range
      <3> QED
        BY <1>1, <1>3, <3>1, <3>2
    <2> QED
      BY <2>3
  <1>7. \A p \in Ports : handler[p] = "listener" <=> listener.used /\ listener.port = p
    BY DEF IInv, Open
  <1> QED
    BY <1>4, <1>5, <1>6, <1>7 DEF Heard, shown, came

\* No answer from elsewhere, to an earlier query or to one that was given up is ever taken for a
\* name or kept for it, no name is in the cache twice, and what is sent to a host goes to the MAC
\* address that it has last announced or to everyone, whatever arrives, for any number of names,
\* hosts, ids and slots (code: dns.cpp:39-71, :145-162, :261-287; net.cpp:56-81).
THEOREM AnswersAreRight == Spec => []Answers
  BY Invariance, AnswersIn, PTL

\* What udplisten prints came to its port, in order and nothing twice; what it misses found the
\* ring full, or came in its last wait; and it leaves no callback behind, for any number of
\* ports, any ring and any times, wraps of the clock and other processes included (code:
\* udp_listen.cpp:18-87, shell_net.cpp:339-367, net.cpp:210-227).
THEOREM HeardInOrder == Spec => []Heard
  BY Invariance, HeardIn, PTL
================================================================================
