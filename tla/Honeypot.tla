------------------------------ MODULE Honeypot ------------------------------
(***************************************************************************)
(* The honeypot (app/honeypot/): every request is classified, captured in  *)
(* memory, written to honeypot_logs and, if it is an attack, to            *)
(* threat_intel, alerted about if it is a strong one, and answered as an   *)
(* admin panel would.  Requests are handled by concurrent threads; the     *)
(* database file is shared with the application, whose transactions lock   *)
(* it; the webhook may not be configured, or the post to it may fail; the  *)
(* process may die between any two steps.                                  *)
(***************************************************************************)
EXTENDS Integers, Sequences, FiniteSets

CONSTANTS
    Thread,       \* requests handled at the same time
    Category,     \* attack categories in the order of _PATTERN_GROUPS
    Payload,      \* how many patterns of each category a request matches
    MaxRequests,  \* bound on the requests
    MaxCrashes    \* bound on the crashes

ASSUME HoneypotAssumption ==
    /\ Category \in Seq(STRING)
    /\ Thread \cap {"free", "application"} = {}
    /\ Payload \subseteq [DOMAIN Category -> Nat]
    /\ MaxRequests \in Nat
    /\ MaxCrashes \in Nat

VARIABLES
    received,  \* requests received so far
    captured,  \* captured_events
    logs,      \* table honeypot_logs
    intel,     \* table threat_intel
    webhook,   \* is HONEYPOT_WEBHOOK_URL set?
    alerts,    \* events that were posted to the webhook
    failed,    \* those among them whose post failed, as the log says
    lock,      \* who holds the write lock of the database file
    pc,        \* the next step of each thread
    event,     \* the event it records
    reply,     \* the status of its last answer
    crashes    \* crashes so far

tables == <<logs, intel>>
threads == <<pc, event, reply>>
posts == <<webhook, alerts, failed>>
vars == <<received, captured, tables, posts, lock, threads, crashes>>

Step == {"idle", "capture", "insert", "commit", "alert", "answer"}
Event == [id : 1..MaxRequests, payload : Payload]
NoEvent == [id |-> 0]
Free == "free"
Application == "application"

-----------------------------------------------------------------------------
(* classify_request; confidence is counted in percent *)

\* 0.5 and 0.25 for each distinct pattern, capped at 1.
Confidence(matched) ==
    IF matched = 0 THEN 0 ELSE IF matched > 1 THEN 100 ELSE 50 + 25 * matched

\* The category with the highest confidence, the first of equals; 0 is NONE.
AttackType(payload) ==
    LET matching == {c \in DOMAIN Category : payload[c] > 0}
    IN  IF matching = {} THEN 0
        ELSE CHOOSE c \in matching :
               \A d \in matching :
                  \/ Confidence(payload[c]) > Confidence(payload[d])
                  \/ Confidence(payload[c]) = Confidence(payload[d]) /\ c <= d

Attack(e) == AttackType(e.payload) # 0

CONFIDENCE_ALERT_THRESHOLD == 80

\* maybe_alert lets it through.
Strong(e) ==
    Attack(e) /\ Confidence(e.payload[AttackType(e.payload)]) >= CONFIDENCE_ALERT_THRESHOLD

-----------------------------------------------------------------------------

Init ==
    /\ received = 0
    /\ captured = {}
    /\ logs = {} /\ intel = {}
    /\ webhook \in BOOLEAN
    /\ alerts = {} /\ failed = {}
    /\ lock = Free
    /\ pc = [t \in Thread |-> "idle"]
    /\ event = [t \in Thread |-> NoEvent]
    /\ reply = [t \in Thread |-> 0]
    /\ crashes = 0

Goto(t, step) == pc' = [pc EXCEPT ![t] = step]

\* A request of any kind arrives on any path and is classified.
CatchAll(t, payload) ==
    /\ pc[t] = "idle"
    /\ received < MaxRequests
    /\ received' = received + 1
    /\ event' = [event EXCEPT ![t] = [id |-> received + 1, payload |-> payload]]
    /\ reply' = [reply EXCEPT ![t] = 0]
    /\ Goto(t, "capture")
    /\ UNCHANGED <<captured, tables, posts, lock, crashes>>

\* captured_events.append
Capture(t) ==
    /\ pc[t] = "capture"
    /\ captured' = captured \cup {event[t]}
    /\ Goto(t, "insert")
    /\ UNCHANGED <<received, tables, posts, lock, event, reply, crashes>>

\* The request ends with this status.
Answer(t, status) ==
    /\ Goto(t, "idle")
    /\ event' = [event EXCEPT ![t] = NoEvent]
    /\ reply' = [reply EXCEPT ![t] = status]

\* Two bugs: the log row is committed on its own; a locked database is
\* waited for without a limit.
BugCommitTwice(t) ==
    /\ pc[t] = "insert"
    /\ lock = Free
    /\ lock' = t
    /\ logs' = logs \cup {event[t]}
    /\ Goto(t, "commit")
    /\ UNCHANGED <<received, captured, intel, posts, event, reply, crashes>>
BugNoBusyTimeout(t) ==
    /\ pc[t] = "insert"
    /\ lock = Free
    /\ lock' = t
    /\ Goto(t, "commit")
    /\ UNCHANGED <<received, captured, tables, posts, event, reply, crashes>>

\* persist_event's first INSERT takes the write lock, or finds the database
\* locked until its timeout and raises.
Insert(t) ==
    /\ pc[t] = "insert"
    /\ \/ /\ lock = Free
          /\ lock' = t
          /\ Goto(t, "commit")
          /\ UNCHANGED <<event, reply>>
       \/ /\ lock # Free
          /\ Answer(t, 500)
          /\ UNCHANGED lock
    /\ UNCHANGED <<received, captured, tables, posts, crashes>>

\* The rows of the event become visible together, or the commit raises (a
\* reader keeps the file locked, the disk is full) and is rolled back.
Commit(t) ==
    /\ pc[t] = "commit"
    /\ lock' = Free
    /\ \/ /\ logs' = logs \cup {event[t]}
          /\ intel' = IF Attack(event[t]) THEN intel \cup {event[t]} ELSE intel
          /\ Goto(t, IF Attack(event[t]) THEN "alert" ELSE "answer")
          /\ UNCHANGED <<event, reply>>
       \/ /\ Answer(t, 500)
          /\ UNCHANGED tables
    /\ UNCHANGED <<received, captured, posts, crashes>>

\* A bug: an exception of the webhook reaches the route.
BugWebhookRaises(t) ==
    /\ pc[t] = "alert"
    /\ \/ /\ ~(webhook /\ Strong(event[t]))
          /\ UNCHANGED <<alerts, failed>>
          /\ Goto(t, "answer") /\ UNCHANGED <<event, reply>>
       \/ /\ webhook /\ Strong(event[t])
          /\ alerts' = alerts \cup {event[t]}
          /\ \/ UNCHANGED failed /\ Goto(t, "answer") /\ UNCHANGED <<event, reply>>
             \/ failed' = failed \cup {event[t]} /\ Answer(t, 500)
    /\ UNCHANGED <<received, captured, tables, webhook, lock, crashes>>

\* maybe_alert: a weak event, or no webhook, and nothing is sent.  Otherwise
\* the event is posted once; that the post fails is logged and swallowed.
MaybeAlert(t) ==
    /\ pc[t] = "alert"
    /\ \/ /\ ~(webhook /\ Strong(event[t]))
          /\ UNCHANGED <<alerts, failed>>
       \/ /\ webhook /\ Strong(event[t])
          /\ alerts' = alerts \cup {event[t]}
          /\ failed' \in {failed, failed \cup {event[t]}}
    /\ Goto(t, "answer")
    /\ UNCHANGED <<received, captured, tables, webhook, lock, event, reply, crashes>>

\* The boring answer of an admin panel.
Deny(t) ==
    /\ pc[t] = "answer"
    /\ Answer(t, 401)
    /\ UNCHANGED <<received, captured, tables, posts, lock, crashes>>

-----------------------------------------------------------------------------
(* The environment *)

\* The application begins and ends a transaction on the same file.
ApplicationLocks ==
    /\ lock = Free
    /\ lock' = Application
    /\ UNCHANGED <<received, captured, tables, posts, threads, crashes>>

ApplicationUnlocks ==
    /\ lock = Application
    /\ lock' = Free
    /\ UNCHANGED <<received, captured, tables, posts, threads, crashes>>

\* The process dies and is started again, perhaps with another environment:
\* memory and open transactions are lost.
Restart ==
    /\ crashes < MaxCrashes
    /\ crashes' = crashes + 1
    /\ captured' = {}
    /\ lock' = IF lock \in Thread THEN Free ELSE lock
    /\ pc' = [t \in Thread |-> "idle"]
    /\ event' = [t \in Thread |-> NoEvent]
    /\ reply' = [t \in Thread |-> 0]
    /\ webhook' \in BOOLEAN
    /\ UNCHANGED <<received, tables, alerts, failed>>

Serve(t) == Capture(t) \/ Insert(t) \/ Commit(t) \/ MaybeAlert(t) \/ Deny(t)

Next ==
    \/ \E t \in Thread, payload \in Payload : CatchAll(t, payload)
    \/ \E t \in Thread : Serve(t)
    \/ ApplicationLocks \/ ApplicationUnlocks
    \/ Restart

Spec == Init /\ [][Next]_vars

\* Every thread of the server gets on; the SQLite timeout and the 5 seconds of
\* requests.post bound its waits.
FairSpec == Spec /\ \A t \in Thread : WF_vars(Serve(t))

-----------------------------------------------------------------------------

TypeOK ==
    /\ received \in 0..MaxRequests
    /\ captured \subseteq Event
    /\ logs \subseteq Event
    /\ intel \subseteq Event
    /\ webhook \in BOOLEAN
    /\ alerts \subseteq Event
    /\ failed \subseteq alerts
    /\ lock \in Thread \cup {Free, Application}
    /\ pc \in [Thread -> Step]
    /\ event \in [Thread -> Event \cup {NoEvent}]
    /\ reply \in [Thread -> {0, 401, 500}]
    /\ crashes \in 0..MaxCrashes
    /\ \A t \in Thread : pc[t] = "commit" <=> lock = t

(* Whoever reads the tables sees an atomic feed: log row and threat row    *)
(* appear together or not at all, wherever a thread is interrupted, and no *)
(* alert goes out for something the tables do not show, or goes out twice. *)
Feed == INSTANCE ThreatFeed WITH
    Event <- Event, Attack <- Attack, Strong <- Strong,
    logs <- logs, intel <- intel, alerts <- alerts

ImplementsFeed == Feed!Spec

(* The answer tells what was kept, although "a broken or unreachable       *)
(* webhook endpoint can never crash request handling" (alerting.py): the   *)
(* panel's answer goes to requests that are in captured_events and ("not   *)
(* instead of it", server.py) in the tables, and that were posted to the   *)
(* webhook, whether it took them or not, exactly if there is one and they  *)
(* match two patterns of a category; an error goes to those the tables do  *)
(* not show.                                                               *)
AnswersTrue ==
    [][\A t \in Thread :
          /\ reply'[t] = 401 /\ reply[t] # 401 =>
                /\ event[t] \in logs \cap captured
                /\ event[t] \in alerts <=>
                      webhook /\ \E c \in DOMAIN Category : event[t].payload[c] >= 2
          /\ reply'[t] = 500 /\ reply[t] # 500 => event[t] \notin logs]_vars

(* Every request is answered, whatever the database and the webhook do.    *)
EveryRequestAnswered ==
    \A t \in Thread : pc[t] # "idle" ~> pc[t] = "idle"

=============================================================================
