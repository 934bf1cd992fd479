----------------------------- MODULE ThreatFeed -----------------------------
(***************************************************************************)
(* What the honeypot promises to those who read its tables: a log that     *)
(* only grows, a feed that at every moment holds exactly the attacks of    *)
(* the log, and alerts for strong attacks of the feed, one for each.       *)
(***************************************************************************)
CONSTANTS
    Event,      \* captured requests
    Attack(_),  \* is the event an attack?
    Strong(_)   \* is it one to alert about?

VARIABLES
    logs,    \* table honeypot_logs
    intel,   \* table threat_intel
    alerts   \* events an alert was raised for

vars == <<logs, intel, alerts>>

Init == logs = {} /\ intel = {} /\ alerts = {}

\* An event is recorded, in both tables at once if it is an attack.
Record(e) ==
    /\ e \notin logs
    /\ logs' = logs \cup {e}
    /\ intel' = IF Attack(e) THEN intel \cup {e} ELSE intel
    /\ UNCHANGED alerts

\* An alert follows what is in the feed.
Raise(e) ==
    /\ e \in intel \ alerts
    /\ Strong(e)
    /\ alerts' = alerts \cup {e}
    /\ UNCHANGED <<logs, intel>>

Next == \E e \in Event : Record(e) \/ Raise(e)

Spec == Init /\ [][Next]_vars

=============================================================================
