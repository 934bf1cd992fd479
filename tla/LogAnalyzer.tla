---------------------------- MODULE LogAnalyzer ----------------------------
(***************************************************************************)
(* The detectors of app/analysis/log_analyzer.py, as functions of the      *)
(* entries read from the access log, and what a burst of requests is.      *)
(* Findings of one kind are a set here: the analyzer makes at most one of  *)
(* each kind for an address.                                               *)
(***************************************************************************)
EXTENDS Integers, Sequences, FiniteSets, SequencesExt, Filtering

CONSTANTS
    BruteForceThreshold, BruteForceWindow,
    TrafficSpikeThreshold, TrafficSpikeWindow

ASSUME LogAnalyzerAssumption ==
    /\ BruteForceThreshold \in Nat \ {0} /\ BruteForceWindow \in Nat
    /\ TrafficSpikeThreshold \in Nat \ {0} /\ TrafficSpikeWindow \in Nat

\* The severity each detector gives its findings.
Severity ==
    [brute_force |-> "HIGH", suspicious_user_agent |-> "MEDIUM",
     directory_traversal |-> "CRITICAL", traffic_spike |-> "LOW"]

Finding(type, ip, count) ==
    [finding_type |-> type, severity |-> Severity[type], source_ip |-> ip, evidence_count |-> count]

Addresses(entries) == {entries[i].request.ip : i \in DOMAIN entries}

\* The entries of one address.
Of(entries, ip) == Filter(entries, {e \in ToSet(entries) : e.request.ip = ip})

\* A time put where it belongs among sorted ones.
Inserted(times, t) ==
    LET place == CHOOSE k \in 0 .. Len(times) :
                    /\ \A i \in 1 .. k : times[i] <= t
                    /\ \A i \in (k + 1) .. Len(times) : t <= times[i]
    IN  InsertAt(times, place + 1, t)

\* The times of some entries, sorted.
Timestamps(entries) ==
    FoldLeft(LAMBDA times, e : Inserted(times, e.timestamp), <<>>, entries)

\* A bug: the window reaches one request too far.
BugOffByOne(times, threshold, window) ==
    \E i \in 1 .. (Len(times) - threshold) : times[i + threshold] - times[i] <= window

\* The first and the last of threshold consecutive times are at most a window apart.
Bursts(times, threshold, window) ==
    \E i \in 1 .. (Len(times) - threshold + 1) :
        times[i + threshold - 1] - times[i] <= window

\* The entries each detector looks at.
FailedLogins(entries) == Filter(entries, {e \in ToSet(entries) : e.request.status = 401})
SuspiciousAgents(entries) == Filter(entries, {e \in ToSet(entries) : e.request.agent # "browser"})
Traversals(entries) == Filter(entries, {e \in ToSet(entries) : e.request.traversal})

DetectBursts(type, entries, threshold, window) ==
    {Finding(type, ip, Len(Of(entries, ip))) :
        ip \in {a \in Addresses(entries) : Bursts(Timestamps(Of(entries, a)), threshold, window)}}

DetectBruteForce(entries) ==
    DetectBursts("brute_force", FailedLogins(entries), BruteForceThreshold, BruteForceWindow)

DetectTrafficSpikes(entries) ==
    DetectBursts("traffic_spike", entries, TrafficSpikeThreshold, TrafficSpikeWindow)

\* One finding for an address with such a request, however many it sent.
DetectEach(type, entries) ==
    {Finding(type, ip, Len(Of(entries, ip))) : ip \in Addresses(entries)}

DetectSuspiciousUserAgents(entries) ==
    DetectEach("suspicious_user_agent", SuspiciousAgents(entries))

DetectDirectoryTraversal(entries) ==
    DetectEach("directory_traversal", Traversals(entries))

Analyze(entries) ==
    DetectBruteForce(entries) \cup DetectSuspiciousUserAgents(entries)
        \cup DetectDirectoryTraversal(entries) \cup DetectTrafficSpikes(entries)

-----------------------------------------------------------------------------

\* Some threshold of an address's requests, in whatever order they are logged,
\* lie within a window.
HasBurst(entries, ip, threshold, window) ==
    LET sent == {i \in DOMAIN entries : entries[i].request.ip = ip}
    IN  \E S \in SUBSET sent :
            /\ Cardinality(S) >= threshold
            /\ \A i, j \in S : entries[i].timestamp - entries[j].timestamp <= window

\* An address is reported for a burst exactly when it made one, and once.
ReportsBursts(entries, findings, type, threshold, window) ==
    LET reported(ip) == {f \in findings : f.finding_type = type /\ f.source_ip = ip}
    IN  /\ \A f \in findings : f.finding_type = type => f.source_ip \in Addresses(entries)
        /\ \A ip \in Addresses(entries) :
               IF HasBurst(entries, ip, threshold, window)
               THEN Cardinality(reported(ip)) = 1
               ELSE reported(ip) = {}

=============================================================================
