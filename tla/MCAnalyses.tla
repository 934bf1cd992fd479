----------------------------- MODULE MCAnalyses -----------------------------
(***************************************************************************)
(* The project's analyses for TLC, over every small input: the access log  *)
(* grows as the application writes it; any other input piece by piece.  A  *)
(* behaviour grows one of them, and each analysis is applied to whatever   *)
(* its input has become.                                                   *)
(***************************************************************************)
EXTENDS AccessLog, LogAnalyzer, PacketSniffer, CaesarCipher,
        PiiRedaction, StringExtractor, SecurityScan, PrivateReport

CONSTANTS
    Ports,     \* destination ports
    MaxLength  \* bound on the length of each input

VARIABLES
    job,   \* the analysis whose input grows
    input  \* a capture, a text, the nodes of a file and so on

vars == <<logVars, job, input>>

Requests ==
    { [ip |-> "a", status |-> 401, agent |-> "browser", traversal |-> FALSE],
      [ip |-> "a", status |-> 200, agent |-> "sqlmap", traversal |-> TRUE],
      [ip |-> "b", status |-> 401, agent |-> "", traversal |-> FALSE] }

Lengths ==
    [capture |-> 4, text |-> 4, description |-> 5, binary |-> 7, source |-> 3, users |-> 5]

\* A packet of no content, and one with.
Packet(layer, src, dst, dport, flags) ==
    [layer |-> layer, src |-> src, dst |-> dst, dport |-> dport, flags |-> flags,
     content |-> "none", name |-> NoName]
Carrying(packet, content, name) == [packet EXCEPT !.content = content, !.name = name]

\* Probes of two hosts, answers to them, and what is no TCP or no IPv4.
Packets ==
    {Packet("tcp", src, "c", port, {"SYN"}) : src \in {"a", "b"}, port \in Ports}
    \cup {Packet("tcp", "c", "a", port, {"SYN", "ACK"}) : port \in Ports}
    \cup {Packet("ip", "a", "c", 0, {}),
          Carrying(Packet("udp", "a", "c", 53, {}), "dns", "name"),
          Carrying(Packet("ipv6", "a", "c", 53, {}), "dns", "name"),
          Carrying(Packet("tcp", "a", "c", 80, {"ACK"}), "http", "host"),
          Carrying(Packet("tcp", "b", "c", 443, {"ACK"}), "tls", NoName),
          Carrying(Packet("tcp", "b", "c", 443, {"ACK"}), "tls", "host")}

Frequencies == (0 :> 60) @@ (1 :> 25) @@ (2 :> 15)

\* What a file may hold below an older node or at its top.
Nodes(parents) ==
    {[class |-> "Call", func |-> func, keywords |-> keywords, parent |-> p] :
        func \in {<<"eval">>, <<"hashlib", "md5">>, <<"f">>},
        keywords \in {<<>>, <<"x=1", "debug=True">>, <<"debug=True", "debug=True">>}, p \in parents}
    \cup {[class |-> "Assign", targets |-> targets, value |-> value, parent |-> p] :
             targets \in {<<"x">>, <<"password", "x", "secret">>},
             value \in {"literal", "placeholder"}, p \in parents}
    \cup {[class |-> "ExceptHandler", type |-> type, parent |-> p] : type \in {"None", "E"}, p \in parents}
    \cup {[class |-> "other", parent |-> p] : p \in parents}

\* A description grows by characters, domains and numbers.
Words ==
    {<<c>> : c \in {"d", "x", "-", " ", "@", "."}}
    \cup {<<"@", "x", ".", "x", "x">>, <<"d", "-", "d", "d">>}

Text(words) == FlattenSeq(words)

\* What an input may continue with.  A text: of the alphabet, beyond it, or no letter.
Pieces ==
    CASE job = "capture" -> Packets
      [] job = "text" -> NoLetter .. (2 * AlphabetSize)
      [] job = "description" -> Words
      [] job = "binary" -> {"nul", "space", "u", "k"}
      [] job = "source" -> Nodes(0 .. Len(input))
      [] job = "users" -> [role : {"user", "admin"}, length : {4, 5, 9}]

Init ==
    /\ InitLog
    /\ job \in {"log"} \cup DOMAIN MaxLength
    /\ input = <<>>

Grow ==
    /\ job # "log" /\ Len(input) < MaxLength[job]
    /\ \E piece \in Pieces : input' = Append(input, piece)
    /\ UNCHANGED <<logVars, job>>

Logs ==
    /\ job = "log" /\ NextLog
    /\ UNCHANGED <<job, input>>

Next == Logs \/ Grow

Spec == Init /\ [][Next]_vars

-----------------------------------------------------------------------------

(* The analyzer reports an address for brute force exactly when some       *)
(* BRUTE_FORCE_THRESHOLD of its 401s that reached the log lie within the   *)
(* window, in whatever order they were logged and although the clock was   *)
(* set back, and for a traffic spike likewise: sorting and looking at      *)
(* consecutive times misses no group and invents none (log_analyzer.py,    *)
(* detect_brute_force and detect_traffic_spikes).                          *)
BurstsReported ==
    LET entries == LoadLogEntries
        findings == Analyze(entries)
    IN  /\ ReportsBursts(FailedLogins(entries), findings, "brute_force",
                         BruteForceThreshold, BruteForceWindow)
        /\ ReportsBursts(entries, findings, "traffic_spike",
                         TrafficSpikeThreshold, TrafficSpikeWindow)

\* See IsEvidence, PacketSniffer.
ScanEvidenceKept == job = "capture" => IsEvidence(input)

\* See CracksText, CaesarCipher.
CaesarCracked == job = "text" => CracksText(input)

\* See MasksAll, PiiRedaction.
PiiMasked == job = "description" => MasksAll(Text(input))

\* See FindsIndicators, StringExtractor.
IndicatorsFound == job = "binary" => FindsIndicators(input)

\* See ReportsEveryNode, SecurityScan.
ScanComplete == job = "source" => ReportsEveryNode(input)

\* See SinglesOut, PrivateReport.
SmallGroupsCounted == job = "users" => SinglesOut(input)

=============================================================================
