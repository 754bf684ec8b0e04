------------------------------ MODULE MCUdpDns ------------------------------
(* UdpDns on a network of three hosts, the server with two MAC addresses.  *)
EXTENDS UdpDns

MacsDef   == [gateway |-> {"m"}, server |-> {"m", "n"}, other |-> {"o"}]
PresetDef == <<Slot("gateway", "m"), Slot("server", "m")>>

\* What ARP packets, answers and datagrams change is read by nothing that the others change,
\* so that a run need not mix them: it has states in which one of the three has come, and
\* those in which another command follows on the same port, but not their product.
Unmixed ==
  LET arpCame == \E i \in 1..ArpSize : arp[i] # Preset[i]
      dnsCame == \E i \in DOMAIN asked : asked[i] # None
      udpCame == listener.came # <<>>
  IN /\ arpCame => ~dnsCame /\ ~udpCame
     /\ dnsCame => ~udpCame /\ (listener.used => listener.port = DnsPort)
=============================================================================
