--------------------------- MODULE PacketSniffer ---------------------------
(***************************************************************************)
(* The protocol summary, the port-scan detector and the capture filter of  *)
(* app/forensics/packet_sniffer.py, as functions of a capture: a sequence  *)
(* of packets with the layer scapy found, the addresses, the destination   *)
(* port, the TCP flags and the content, which is an HTTP request, a DNS    *)
(* query or a TLS ClientHello with the name in it, or nothing of these.    *)
(* Packets of IPv6 have no IP layer for scapy, but may have content.       *)
(***************************************************************************)
EXTENDS Integers, Sequences, FiniteSets, Filtering

CONSTANT PORT_SCAN_DISTINCT_PORT_THRESHOLD

ASSUME PacketSnifferAssumption == PORT_SCAN_DISTINCT_PORT_THRESHOLD \in Nat \ {0}

NoName == ""

\* The names in the packets of one content, in the order captured.
NamesOf(capture, packets) ==
    LET found == Filter(capture, packets)
    IN  [i \in DOMAIN found |-> found[i].name]

\* A ClientHello without a server name is left out; requests and queries are not.
AnalyzePcap(capture) ==
    LET of(content) == {p \in ToSet(capture) : p.content = content}
    IN  [http_requests |-> NamesOf(capture, of("http")),
         dns_queries |-> NamesOf(capture, of("dns")),
         tls_sni_hostnames |-> NamesOf(capture, {p \in of("tls") : p.name # NoName})]

\* IPv4, with whatever above it.
HasIP(packet) == packet.layer \in {"tcp", "udp", "ip"}

\* A bug: the answer to a connection attempt counts as one.
BugAnyAttempt(packet) == packet.layer = "tcp" /\ "SYN" \in packet.flags

\* A connection attempt, not an answer to one.
IsProbe(packet) ==
    /\ packet.layer = "tcp"
    /\ "SYN" \in packet.flags
    /\ "ACK" \notin packet.flags

\* The ports a source probed, whatever the host; it keeps no host.
PortsBySource(capture, source) ==
    {capture[i].dport : i \in {j \in DOMAIN capture :
                                   IsProbe(capture[j]) /\ capture[j].src = source}}

Sources(capture) == {capture[i].src : i \in DOMAIN capture}

DetectPortScans(capture) ==
    LET scanners ==
            {s \in Sources(capture) :
                Cardinality(PortsBySource(capture, s)) >= PORT_SCAN_DISTINCT_PORT_THRESHOLD}
    IN  [s \in scanners |-> PortsBySource(capture, s)]

\* A bug: the packets that reach the given sources are kept, not those that leave them.
BugOneWay(capture, sources) ==
    Filter(capture, {p \in ToSet(capture) : HasIP(p) /\ p.dst \in sources})

\* The packets that the given sources sent, in the order captured.
SaveSuspiciousFlows(capture, sources) ==
    Filter(capture, {p \in ToSet(capture) : HasIP(p) /\ p.src \in sources})

-----------------------------------------------------------------------------

\* The capture handed on for a deeper look.
Evidence(capture) == SaveSuspiciousFlows(capture, DOMAIN DetectPortScans(capture))

(* The filtered capture is evidence of what was detected: the detector     *)
(* finds the same sources and the same ports in it, filtering it again     *)
(* changes nothing, an address that probed nothing has no packet in it,    *)
(* and the rest of the capture is another's, so that no request, query or  *)
(* hello is lost between the two ("instead of the entire original          *)
(* capture", save_suspicious_flows).                                       *)
IsEvidence(capture) ==
    /\ DetectPortScans(Evidence(capture)) = DetectPortScans(capture)
    /\ Evidence(Evidence(capture)) = Evidence(capture)
    /\ \A i \in DOMAIN Evidence(capture) :
          \E j, k \in DOMAIN capture :
             /\ capture[j].src = Evidence(capture)[i].src /\ IsProbe(capture[j])
             /\ capture[k] = Evidence(capture)[i]
    /\ LET scanners == DOMAIN DetectPortScans(capture)
           rest == Filter(capture, {p \in ToSet(capture) : ~HasIP(p) \/ p.src \notin scanners})
           count(c) == LET summary == AnalyzePcap(c)
                       IN  [kind \in DOMAIN summary |-> Len(summary[kind])]
       IN  \A kind \in DOMAIN AnalyzePcap(capture) :
              count(capture)[kind] = count(Evidence(capture))[kind] + count(rest)[kind]

=============================================================================
