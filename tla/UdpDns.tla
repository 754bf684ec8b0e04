------------------------------- MODULE UdpDns -------------------------------
(***************************************************************************)
(* UDP in src/kernel/net.cpp with its two users: the resolver (dns.cpp)    *)
(* and the listener (udp_listen.cpp), under the shell's commands nslookup, *)
(* wgetd (which resolves in the same way) and udplisten (shell_net.cpp).   *)
(*                                                                         *)
(* One command runs at a time, inside the keyboard's interrupt, with       *)
(* interrupts off but for the hlt of its waiting loop.  There and between  *)
(* commands time passes and net_poll hands over what has arrived, as it    *)
(* would if an interrupt called it (at this commit nothing does: NetQueue).*)
(* The network delivers any datagram to any port, and answers to queries   *)
(* late, repeatedly or never; an answer is forgotten when its id is used   *)
(* again.  The free slot of the ring is NetQueue's matter, a ring is a     *)
(* sequence here.  A command uses one listener and resolves through one    *)
(* port, so that the tables of four listeners and eight handlers never     *)
(* fill up; kmalloc succeeds.                                              *)
(*                                                                         *)
(* The tick that ends a hlt may also switch to another process             *)
(* (scheduler_tick), for as long as that one keeps the processor; no other *)
(* command starts meanwhile, since the interrupt that this one runs in is  *)
(* still in service.  Instants are those of pit_uptime_ms, which starts    *)
(* again from 0 when pit_tick_count * 1000 passes 2^32.                    *)
(***************************************************************************)
EXTENDS Integers, Sequences, Functions

CONSTANTS
  Names,      \* host names; the address of a host is written as its name
  Ports,      \* ports that datagrams come to
  DnsPort,    \* DNS_PORT
  IdMod,      \* query ids are counted modulo this (2^16)
  Retries,    \* DNS_MAX_RETRIES
  Timeout,    \* DNS_TIMEOUT_MS
  Ttl,        \* for which cache_store keeps an address (60 s)
  CacheSize,  \* DNS_CACHE_SIZE
  Depth,      \* UDPL_BUF_DEPTH
  Period,     \* the instants that pit_uptime_ms tells apart: 4294968
  Listen,     \* for how long udplisten listens ...
  Pause,      \* ... and how long one udpl_recv_wait of it waits (500 ms)
  Macs,       \* hosts of the local network, with the MAC addresses that each may have ...
  Preset,     \* ... and those that net_init stores, with theirs
  ArpSize,    \* ARP_CACHE_SIZE
  MaxCame     \* bound: datagrams that come to a listener

ASSUME UdpDnsAssumption ==
  /\ {IdMod, Retries, Timeout, Ttl, CacheSize, Depth, Pause, ArpSize} \subseteq Nat \ {0}
  /\ {Listen, MaxCame} \subseteq Nat /\ Period \in Nat /\ Period > 1
  /\ DnsPort \in Ports
  /\ "none" \notin Names \cup DOMAIN Macs
  /\ Len(Preset) \in 0..ArpSize
  /\ \A i \in 1..Len(Preset) : Preset[i].host \in DOMAIN Macs
  /\ \A i, j \in 1..Len(Preset) : Preset[i].host = Preset[j].host => i = j

VARIABLES
  handler,   \* s_udp_handlers: whose callback each port has
  listener,  \* the UdpListener of the command, with what has come to it
  dns,       \* s_waiting, s_wait_id, s_resp_buf
  nextId,    \* s_next_id
  asked,     \* the queries that the server may still answer: a name by id
  cache,     \* s_cache
  arp,       \* s_arp_cache: a host, or none, and its MAC address in each slot
  mac,       \* the MAC address that each host has, the one it has last announced if it has
  cmd,       \* the command that runs: where it is and its deadlines
  uptime     \* pit_uptime_ms()

udpVars == <<handler, listener>>
dnsVars == <<dns, nextId, asked, cache>>
arpVars == <<arp, mac>>
vars    == <<udpVars, dnsVars, arpVars, cmd, uptime>>
----------------------------------------------------------------------------
None == "none"

Response(name, ok) == [name |-> name, ok |-> ok]
NoResponse         == Response(None, FALSE)   \* s_resp_len = 0

\* deadline is ttl_deadline_ms.
Entry(name, ip, deadline) == [name |-> name, ip |-> ip, deadline |-> deadline]
Invalid               == Entry(None, None, 0)

\* used, port, slots[tail .. head - 1]; then all that came to the port, numbered, what was
\* printed of it, what found the ring full, and how much had come when it last went to wait.
Listener(used, port) ==
  [used |-> used, port |-> port, ring |-> <<>>, came |-> <<>>, shown |-> <<>>,
   dropped |-> {}, waited |-> 0]

\* deadline is that of an attempt or of udplisten, pause that of udpl_recv_wait.
Command(kind, name, pc, deadline, pause, attempt) ==
  [kind |-> kind, name |-> name, pc |-> pc, deadline |-> deadline, pause |-> pause,
   attempt |-> attempt]
Idle == Command(None, None, "idle", 0, 0, 0)

\* Faulty variants, here and below, stand before the definition they break.
RegisterKept(h, port, cb) == IF cb = None THEN h ELSE [h EXCEPT ![port] = cb]

\* net_udp_register: a port has one callback; the null callback frees the port.
Register(h, port, cb) == [h EXCEPT ![port] = cb]
----------------------------------------------------------------------------
\* The ARP cache.
Hosts     == DOMAIN Macs
Broadcast == "broadcast"

Slot(host, m)  == [host |-> host, mac |-> m]
SlotsOf(host)  == {i \in 1..ArpSize : arp[i].host = host}
First(slots)   == CHOOSE i \in slots : \A j \in slots : i <= j

\* arp_cache_store: the host's own slot, the first empty one, or else the first of all.
ArpSlot(host) ==
  IF SlotsOf(host) # {} THEN First(SlotsOf(host))
  ELSE IF SlotsOf(None) # {} THEN First(SlotsOf(None))
  ELSE 1

\* net_arp_lookup, and what net_udp_send takes when it finds nothing.
Lookup(host) == IF SlotsOf(host) # {} THEN arp[First(SlotsOf(host))].mac ELSE Broadcast

NotInHlt == cmd.pc \in {"idle", "away"}

\* Interrupts are on: between commands, in the hlt of a waiting loop, and in other processes.
Interruptible == cmd.pc \in {"idle", "hlt", "away"}

\* handle_arp, of a request or a reply: the sender is stored.
HandleArp(host, m) ==
  /\ Interruptible
  /\ arp' = [arp EXCEPT ![ArpSlot(host)] = Slot(host, m)]
  /\ mac' = [mac EXCEPT ![host] = m]
  /\ UNCHANGED <<udpVars, dnsVars, cmd, uptime>>
----------------------------------------------------------------------------
\* The listener's side of handle_udp: make_callback.
Pushed(l) ==
  LET n    == Len(l.came) + 1
      full == Len(l.ring) = Depth - 1
  IN [l EXCEPT !.came = Append(@, n),
               !.dropped = IF full THEN @ \cup {n} ELSE @,
               !.ring = IF full THEN @ ELSE Append(@, n)]

AcceptsAny(server, qr, id) == dns.waiting

\* The resolver's: dns_udp_callback.
Accepts(server, qr, id) == server /\ qr /\ dns.waiting /\ id = dns.id

\* handle_udp of a datagram that is not an answer to any query, whatever it looks like.
HandleUdp(port) ==
  /\ Interruptible
  /\ handler[port] = "listener" /\ listener.used
  /\ Len(listener.came) < MaxCame
  /\ listener' = Pushed(listener)
  /\ UNCHANGED <<handler, dnsVars, arpVars, cmd, uptime>>

\* handle_udp of what passes for an answer: from the server or not, to any query or not.
HandleAnswer(server, qr, id, name, ok) ==
  /\ Interruptible
  /\ handler[DnsPort] = "dns" /\ Accepts(server, qr, id)
  /\ server => asked[id] = name
  /\ dns' = [dns EXCEPT !.waiting = FALSE, !.resp = Response(name, ok)]
  /\ UNCHANGED <<udpVars, nextId, asked, cache, arpVars, cmd, uptime>>
----------------------------------------------------------------------------
\* cache_lookup: what has expired before the entry that it finds becomes invalid.
Hits(c, name) == {i \in 1..CacheSize : c[i].name = name /\ uptime < c[i].deadline}
Scanned(c, name) ==
  LET hits == Hits(c, name)
  IN [i \in 1..CacheSize |->
        IF uptime >= c[i].deadline /\ \A j \in hits : i < j THEN Invalid ELSE c[i]]

\* cache_store: the first invalid entry, or the one that expires first.
StoreSlot(c) ==
  LET free == {i \in 1..CacheSize : c[i].name = None}
      of   == IF free # {} THEN free
              ELSE {i \in 1..CacheSize : \A j \in 1..CacheSize : c[i].deadline <= c[j].deadline}
  IN CHOOSE i \in of : \A j \in of : i <= j

\* The query of an attempt; the server gets it and may answer it from now on.
Send(name, id, attempt) ==
  /\ dns' = [waiting |-> TRUE, id |-> id, resp |-> NoResponse]
  /\ asked' = [asked EXCEPT ![id] = name]
  /\ cmd' = Command("nslookup", name, "loop", uptime + Timeout, 0, attempt)

\* dns_resolve of a name: what the cache has, ...
ResolveCached(name) ==
  /\ cmd = Idle /\ Hits(cache, name) # {}
  /\ cache' = Scanned(cache, name)
  /\ UNCHANGED <<udpVars, dns, nextId, asked, arpVars, cmd, uptime>>

\* ... or else it takes the port, if it has not got it, and asks.
Resolve(name) ==
  /\ cmd = Idle /\ Hits(cache, name) = {}
  /\ cache' = Scanned(cache, name)
  /\ handler' = Register(handler, DnsPort, "dns")
  /\ nextId' = (nextId + 1) % IdMod
  /\ Send(name, nextId, 1)
  /\ UNCHANGED <<listener, arpVars, uptime>>

\* Its waiting loop: answered or timed out, or else it waits for an interrupt.
ResolveWaits ==
  /\ cmd.kind = "nslookup" /\ cmd.pc = "loop"
  /\ uptime < cmd.deadline /\ dns.waiting
  /\ cmd' = [cmd EXCEPT !.pc = "hlt"]
  /\ UNCHANGED <<udpVars, dnsVars, arpVars, uptime>>

\* Timed out: the next attempt, with the same id.
ResolveRetries ==
  /\ cmd.kind = "nslookup" /\ cmd.pc = "loop"
  /\ uptime >= cmd.deadline /\ dns.waiting /\ cmd.attempt < Retries
  /\ Send(cmd.name, dns.id, cmd.attempt + 1)
  /\ UNCHANGED <<udpVars, nextId, cache, arpVars, uptime>>

\* s_waiting = false: from now on no answer is wanted.  The next attempt clears the response
\* that is left before anything reads it; here it goes at once.
Done(d) == [d EXCEPT !.waiting = FALSE, !.resp = NoResponse]

ResolveEnds ==
  /\ cmd.kind = "nslookup" /\ cmd.pc = "loop"
  /\ ~dns.waiting \/ (uptime >= cmd.deadline /\ cmd.attempt = Retries)
  /\ cache' = IF ~dns.waiting /\ dns.resp.ok
              THEN [cache EXCEPT ![StoreSlot(cache)] = Entry(cmd.name, dns.resp.name, uptime + Ttl)]
              ELSE cache
  /\ dns' = Done(dns)
  /\ cmd' = Idle
  /\ UNCHANGED <<udpVars, nextId, asked, arpVars, uptime>>
----------------------------------------------------------------------------
\* udpl_recv, when there is something in the ring.
Popped(l) == [l EXCEPT !.ring = Tail(@), !.shown = Append(@, Head(l.ring))]

Waiting(l) == [l EXCEPT !.waited = Len(l.came)]

\* Back in the loop of udplisten; the other loop's deadline is gone.
Returned(c) == [c EXCEPT !.pc = "loop", !.pause = 0]

\* cmd_udplisten: udpl_open, ...
ListenStarts(port) ==
  /\ cmd = Idle
  /\ listener' = Listener(TRUE, port)
  /\ handler' = Register(handler, port, "listener")
  /\ cmd' = Command("udplisten", None, "loop", uptime + Listen, 0, 0)
  /\ UNCHANGED <<dnsVars, arpVars, uptime>>

\* ... its own loop, each turn of which calls udpl_recv_wait ...
ListenTurn ==
  /\ cmd.kind = "udplisten" /\ cmd.pc = "loop" /\ uptime < cmd.deadline
  /\ cmd' = [cmd EXCEPT !.pc = "recv", !.pause = uptime + Pause]
  /\ UNCHANGED <<udpVars, dnsVars, arpVars, uptime>>

\* ... which returns nothing, or a datagram, which is printed, or else waits for an
\* interrupt, ...
RecvWait ==
  /\ cmd.kind = "udplisten" /\ cmd.pc = "recv"
  /\ IF uptime >= cmd.pause
     THEN cmd' = Returned(cmd) /\ UNCHANGED listener
     ELSE IF listener.ring = <<>>
     THEN cmd' = [cmd EXCEPT !.pc = "hlt"] /\ listener' = Waiting(listener)
     ELSE cmd' = Returned(cmd) /\ listener' = Popped(listener)
  /\ UNCHANGED <<handler, dnsVars, arpVars, uptime>>

\* ... and udpl_close, whatever the ring still holds.
ListenEnds ==
  /\ cmd.kind = "udplisten" /\ cmd.pc = "loop" /\ uptime >= cmd.deadline
  /\ handler' = Register(handler, listener.port, None)
  /\ listener' = Listener(FALSE, None)
  /\ cmd' = Idle
  /\ UNCHANGED <<dnsVars, arpVars, uptime>>
----------------------------------------------------------------------------
\* The hlt of either loop returns.
Resumed(c) == [c EXCEPT !.pc = IF c.kind = "nslookup" THEN "loop" ELSE "recv"]

\* An interrupt that is not the timer's ends it, ...
Wake ==
  /\ cmd.pc = "hlt"
  /\ cmd' = Resumed(cmd)
  /\ UNCHANGED <<udpVars, dnsVars, arpVars, uptime>>

\* pit_uptime_ms after one more tick.  2^32 is no multiple of 1000, so that of the times
\* that it comes round some have an instant less than the others.
NextUptime == {(uptime + 1) % Period} \cup (IF uptime = Period - 2 THEN {0} ELSE {})

\* ... and a tick does, unless scheduler_tick switches to another process, ...
Tick ==
  /\ Interruptible
  /\ uptime' \in NextUptime
  /\ IF cmd.pc = "hlt" THEN cmd' \in {Resumed(cmd), [cmd EXCEPT !.pc = "away"]}
     ELSE UNCHANGED cmd
  /\ UNCHANGED <<udpVars, dnsVars, arpVars>>

\* ... which gives the processor back, or does not.
Back ==
  /\ cmd.pc = "away"
  /\ cmd' = Resumed(cmd)
  /\ UNCHANGED <<udpVars, dnsVars, arpVars, uptime>>
----------------------------------------------------------------------------
Init ==
  /\ handler = [p \in Ports |-> None]
  /\ listener = Listener(FALSE, None)
  /\ dns = [waiting |-> FALSE, id |-> 0, resp |-> NoResponse]
  /\ nextId = 0
  /\ asked = [i \in 0..(IdMod - 1) |-> None]
  /\ cache = [i \in 1..CacheSize |-> Invalid]
  /\ arp = [i \in 1..ArpSize |-> IF i <= Len(Preset) THEN Preset[i] ELSE Slot(None, None)]
  /\ mac = [h \in Hosts |-> IF SlotsOf(h) # {} THEN Lookup(h) ELSE CHOOSE m \in Macs[h] : TRUE]
  /\ cmd = Idle
  /\ uptime = 0

Steps ==
  \/ ResolveWaits \/ ResolveRetries \/ ResolveEnds
  \/ ListenTurn \/ RecvWait \/ ListenEnds

Next ==
  \/ \E name \in Names : ResolveCached(name) \/ Resolve(name)
  \/ \E port \in Ports : ListenStarts(port) \/ HandleUdp(port)
  \/ \E server, qr, ok \in BOOLEAN, id \in 0..(IdMod - 1), name \in Names :
       HandleAnswer(server, qr, id, name, ok)
  \/ \E host \in Hosts : \E m \in Macs[host] : HandleArp(host, m)
  \/ Steps \/ Wake \/ Tick \/ Back

Spec == Init /\ [][Next]_vars

\* The processor goes on with a command while interrupts are off.  A timer's interrupt that is
\* pending is taken at some hlt, as no interrupt in service outranks it.  Nothing is assumed
\* of the processes that a tick switches to.
FairSpec == Spec /\ WF_vars(Steps) /\ SF_vars(cmd.pc # "away" /\ Tick)
----------------------------------------------------------------------------
TypeOK ==
  /\ handler \in [Ports -> {None, "dns", "listener"}]
  /\ dns.id \in 0..(IdMod - 1) /\ nextId \in 0..(IdMod - 1)
  /\ asked \in [0..(IdMod - 1) -> Names \cup {None}]
  /\ \A i \in 1..CacheSize : /\ cache[i].name \in Names \cup {None}
                             /\ cache[i].deadline \in 0..(Period - 1 + Ttl)
  /\ \A i \in 1..ArpSize : arp[i].host \in Hosts \cup {None}
  /\ cmd.kind \in {None, "nslookup", "udplisten"} /\ cmd.attempt \in 0..Retries
  /\ uptime \in 0..(Period - 1)

CachedOnce ==
  \A i, j \in 1..CacheSize : cache[i].name = cache[j].name => i = j \/ cache[i] = Invalid

\* What nslookup takes for the answer, and what the cache keeps for a name, is what the server
\* said of that name: no answer from elsewhere, to an earlier query or to one that was given up
\* is ever taken for it; and of no name are there two addresses in the cache, though time passes
\* between looking in it and storing (code: dns.cpp:39-71, :145-162, :261-287).  And what is
\* sent to a host goes to the MAC address that it has last announced, or to everyone, never to a
\* stale one, though entries are evicted (code: net.cpp:56-81).
Answers ==
  /\ TypeOK
  /\ cmd.kind = "nslookup" /\ ~dns.waiting => dns.resp.name = cmd.name
  /\ dns.waiting => cmd.kind = "nslookup"
  /\ CachedOnce /\ \A i \in 1..CacheSize : cache[i].ip = cache[i].name
  /\ \A h \in Hosts : Lookup(h) \in {mac[h], Broadcast}

\* udplisten prints what came to its port while it listened, in order and nothing twice.  It
\* misses a datagram only if that found the ring full, or if it came during the last wait: all
\* that came before and had room is printed by the time it waits again, but what comes in the
\* wait in which the deadline passes is thrown away with the ring.  No port keeps a callback to
\* a listener that is closed (code: udp_listen.cpp:18-87, shell_net.cpp:339-367,
\* net.cpp:210-227).
Heard ==
  /\ \A i, j \in 1..Len(listener.shown) : i < j => listener.shown[i] < listener.shown[j]
  /\ Range(listener.shown) \subseteq Range(listener.came)
  /\ \A n \in Range(listener.came) \ Range(listener.shown) :
       n \in listener.dropped \/ n > listener.waited
  /\ \A p \in Ports : handler[p] = "listener" <=> listener.used /\ listener.port = p

\* A deadline that pit_uptime_ms does not reach before it starts again from 0.
Beyond(deadline) == deadline >= Period - 1

\* Whatever arrives or does not, a command comes to its end, so that the keyboard's interrupt
\* returns (code: the loops at dns.cpp:261-281, udp_listen.cpp:76-79, shell_net.cpp:342-365).
\* Not so if a process keeps the processor for ever, if the deadline lies beyond the wrap of
\* pit_uptime_ms (pit.cpp:35), or if other processes run as it wraps.
CommandEnds ==
  []<>(cmd.pc # "away") =>
    (cmd # Idle ~> \/ cmd = Idle
                   \/ Beyond(cmd.deadline) \/ Beyond(cmd.pause)
                   \/ cmd.pc = "away" /\ uptime = 0)
=============================================================================
