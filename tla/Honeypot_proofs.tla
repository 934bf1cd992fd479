--------------------------- MODULE Honeypot_proofs ---------------------------
(***************************************************************************)
(* The honeypot implements the threat feed, and its answers are true.  An  *)
(* event is stored and alerted about once because it has a number of its   *)
(* own; the invariant says how far the event of each thread has come.      *)
(***************************************************************************)
EXTENDS Honeypot, FiniteSetTheorems, TLAPS

Tables ==
    /\ \A e \in logs : e.id <= received
    /\ alerts \subseteq intel /\ intel \subseteq logs

OwnNumbers ==
    \A t, u \in Thread :
        t # u /\ pc[t] # "idle" /\ pc[u] # "idle" => event[t].id # event[u].id

\* How far the event of thread t has come.
Come(t) ==
    /\ pc[t] # "idle" => event[t] \in Event /\ event[t].id <= received
    /\ pc[t] \in {"capture", "insert", "commit"} => event[t] \notin logs
    /\ pc[t] \in {"insert", "commit", "alert", "answer"} => event[t] \in captured
    /\ pc[t] \in {"alert", "answer"} => event[t] \in logs
    /\ pc[t] = "alert" => event[t] \in intel \ alerts
    /\ pc[t] = "answer" => (event[t] \in alerts <=> webhook /\ Strong(event[t]))

IInv == TypeOK /\ Tables /\ OwnNumbers /\ \A t \in Thread : Come(t)

-----------------------------------------------------------------------------

LEMMA StrongIsAttack == \A e : Strong(e) => Attack(e)
BY DEF Strong

LEMMA InitIInv == Init => IInv
BY HoneypotAssumption DEF Init, IInv, TypeOK, Tables, OwnNumbers, Come, Step, Free, Application

LEMMA CatchAllIInv ==
    ASSUME IInv, NEW t \in Thread, NEW payload \in Payload, CatchAll(t, payload)
    PROVE  IInv'
<1>. DEFINE e == [id |-> received + 1, payload |-> payload]
<1>. USE HoneypotAssumption DEF IInv, CatchAll, Goto
<1>1. e \in Event /\ received' = received + 1 /\ received \in Nat
  BY DEF TypeOK, Event
<1>2. /\ pc' = [pc EXCEPT ![t] = "capture"] /\ event' = [event EXCEPT ![t] = e]
      /\ UNCHANGED <<captured, logs, intel, alerts, failed, webhook, lock>>
  BY DEF tables, posts
<1>3. TypeOK'
  BY <1>1, <1>2 DEF TypeOK, Step, tables
<1>4. Tables'
  BY <1>1, <1>2 DEF TypeOK, Tables, Event
<1>5. OwnNumbers'
  BY <1>1, <1>2 DEF TypeOK, OwnNumbers, Come, Event
<1>6. ASSUME NEW u \in Thread PROVE Come(u)'
  BY <1>1, <1>2 DEF TypeOK, Tables, Come, Event
<1>. QED BY <1>3, <1>4, <1>5, <1>6

LEMMA CaptureIInv == ASSUME IInv, NEW t \in Thread, Capture(t) PROVE IInv'
<1>. USE DEF IInv, Capture, Goto
<1>1. TypeOK'
  BY DEF TypeOK, Come, Step, tables, posts
<1>2. Tables' /\ OwnNumbers'
  BY DEF TypeOK, Tables, OwnNumbers, tables, posts
<1>3. ASSUME NEW u \in Thread PROVE Come(u)'
  BY DEF TypeOK, Come, tables, posts
<1>. QED BY <1>1, <1>2, <1>3

\* A thread that answers is through with its event.
LEMMA AnswerIInv ==
    ASSUME IInv, NEW t \in Thread, NEW status \in {401, 500}, Answer(t, status),
           UNCHANGED <<received, captured, tables, posts, crashes>>,
           \/ pc[t] # "commit" /\ UNCHANGED lock
           \/ pc[t] = "commit" /\ lock' = Free
    PROVE  IInv'
<1>. USE HoneypotAssumption DEF IInv, Answer, Goto
<1>1. TypeOK'
  BY DEF TypeOK, Step, tables, posts, Free, Application
<1>2. Tables' /\ OwnNumbers'
  BY DEF TypeOK, Tables, OwnNumbers, tables, posts
<1>3. ASSUME NEW u \in Thread PROVE Come(u)'
  BY DEF TypeOK, Come, tables, posts
<1>. QED BY <1>1, <1>2, <1>3

LEMMA InsertIInv == ASSUME IInv, NEW t \in Thread, Insert(t) PROVE IInv'
<1>1. CASE lock = Free
  <2>. USE <1>1, HoneypotAssumption DEF IInv, Insert, Goto
  <2>1. TypeOK'
    <3>1. /\ pc' = [pc EXCEPT ![t] = "commit"] /\ pc[t] = "insert" /\ lock' = t
          /\ \A u \in Thread : pc[u] # "commit"
          /\ UNCHANGED <<received, captured, logs, intel, webhook, alerts, failed>>
          /\ UNCHANGED <<event, reply, crashes>>
      BY DEF TypeOK, tables, posts, Free
    <3>2. pc' \in [Thread -> Step] /\ \A u \in Thread : pc'[u] = "commit" <=> lock' = u
      BY <3>1 DEF TypeOK, Step
    <3>. QED BY <3>1, <3>2 DEF TypeOK
  <2>2. Tables' /\ OwnNumbers'
    BY DEF TypeOK, Tables, OwnNumbers, tables, posts
  <2>3. ASSUME NEW u \in Thread PROVE Come(u)'
    BY DEF TypeOK, Come, tables, posts
  <2>. QED BY <2>1, <2>2, <2>3
<1>2. CASE lock # Free
  BY <1>2, AnswerIInv DEF Insert
<1>. QED BY <1>1, <1>2

LEMMA CommitIInv == ASSUME IInv, NEW t \in Thread, Commit(t) PROVE IInv'
<1>1. CASE Answer(t, 500) /\ UNCHANGED tables
  BY <1>1, AnswerIInv DEF Commit
<1>2. CASE /\ logs' = logs \cup {event[t]}
           /\ intel' = IF Attack(event[t]) THEN intel \cup {event[t]} ELSE intel
           /\ Goto(t, IF Attack(event[t]) THEN "alert" ELSE "answer")
           /\ UNCHANGED <<event, reply>>
  <2>. USE <1>2, HoneypotAssumption DEF IInv, Commit, Goto, posts
  <2>1. event[t] \in Event /\ event[t].id <= received /\ event[t] \notin logs
    BY DEF Come
  <2>2. TypeOK'
    BY <2>1 DEF TypeOK, Step, Free, Application
  <2>3. Tables' /\ OwnNumbers'
    BY <2>1 DEF TypeOK, Tables, OwnNumbers
  <2>4. ASSUME NEW u \in Thread PROVE Come(u)'
    <3>1. CASE u = t
      BY <2>1, <3>1, StrongIsAttack DEF TypeOK, Tables, Come
    <3>2. CASE u # t
      <4>1. pc'[u] = pc[u] /\ event'[u] = event[u]
        BY <3>2 DEF TypeOK
      <4>2. pc[u] # "idle" => event[u] # event[t]
        BY <3>2 DEF OwnNumbers
      <4>. QED BY <4>1, <4>2 DEF Come
    <3>. QED BY <3>1, <3>2
  <2>. QED BY <2>2, <2>3, <2>4
<1>. QED BY <1>1, <1>2 DEF Commit

LEMMA MaybeAlertIInv == ASSUME IInv, NEW t \in Thread, MaybeAlert(t) PROVE IInv'
<1>. USE DEF IInv, MaybeAlert, Goto
<1>1. event[t] \in Event /\ event[t] \in intel \ alerts /\ event[t] \in logs /\ pc[t] = "alert"
  BY DEF Come
<1>2. TypeOK'
  BY <1>1 DEF TypeOK, Step, tables, posts
<1>3. Tables' /\ OwnNumbers'
  BY <1>1 DEF TypeOK, Tables, OwnNumbers, tables, posts
<1>4. ASSUME NEW u \in Thread PROVE Come(u)'
  <2>1. CASE u = t
    BY <1>1, <2>1 DEF TypeOK, Come, tables, posts
  <2>2. CASE u # t
    <3>1. pc'[u] = pc[u] /\ event'[u] = event[u] /\ UNCHANGED <<logs, intel, captured, received, webhook>>
      BY <2>2 DEF TypeOK, tables, posts
    <3>2. pc[u] # "idle" => event[u] # event[t]
      BY <1>1, <2>2 DEF OwnNumbers
    <3>. QED BY <3>1, <3>2 DEF Come
  <2>. QED BY <2>1, <2>2
<1>. QED BY <1>2, <1>3, <1>4

LEMMA RestartIInv == ASSUME IInv, Restart PROVE IInv'
BY HoneypotAssumption
   DEF IInv, Restart, TypeOK, Tables, OwnNumbers, Come, Step, Free, Application, tables, posts

LEMMA NextIInv == IInv /\ [Next]_vars => IInv'
<1>. SUFFICES ASSUME IInv, [Next]_vars PROVE IInv'
  OBVIOUS
<1>1. ASSUME NEW t \in Thread, NEW payload \in Payload, CatchAll(t, payload) PROVE IInv'
  BY <1>1, CatchAllIInv
<1>2. ASSUME NEW t \in Thread, Serve(t) PROVE IInv'
  <2>1. CASE Capture(t)
    BY <2>1, CaptureIInv
  <2>2. CASE Insert(t)
    BY <2>2, InsertIInv
  <2>3. CASE Commit(t)
    BY <2>3, CommitIInv
  <2>4. CASE MaybeAlert(t)
    BY <2>4, MaybeAlertIInv
  <2>5. CASE Deny(t)
    BY <2>5, AnswerIInv DEF Deny
  <2>. QED BY <1>2, <2>1, <2>2, <2>3, <2>4, <2>5 DEF Serve
<1>3. CASE ApplicationLocks \/ ApplicationUnlocks
  BY <1>3, HoneypotAssumption
     DEF ApplicationLocks, ApplicationUnlocks, IInv, TypeOK, Tables, OwnNumbers, Come,
         tables, posts, threads, Free, Application
<1>4. CASE Restart
  BY <1>4, RestartIInv
<1>5. CASE UNCHANGED vars
  BY <1>5 DEF vars, tables, posts, threads, IInv, TypeOK, Tables, OwnNumbers, Come
<1>. QED BY <1>1, <1>2, <1>3, <1>4, <1>5 DEF Next

-----------------------------------------------------------------------------
(* What the classifier finds *)

\* A set of numbers has a least one: of the intervals up to its numbers, one
\* contains no other.
LEMMA LeastNumber ==
    ASSUME NEW S, S \subseteq Nat, S # {}
    PROVE  \E x \in S : \A y \in S : x <= y
<1>. DEFINE intervals == {0 .. c : c \in S}
<1>1. intervals \subseteq FiniteSubsetsOf(Nat) /\ intervals # {}
  <2>1. \A c \in Nat : IsFiniteSet(0 .. c) /\ 0 .. c \subseteq Nat
    BY FS_Interval
  <2>. QED BY <2>1 DEF FiniteSubsetsOf
<1>2. PICK i \in intervals : \A j \in intervals : <<j, i>> \notin StrictSubsetOrdering(Nat)
  <2>. HIDE DEF intervals
  <2>. QED BY <1>1, FS_StrictSubsetOrderingWellFounded, WFMin
<1>3. PICK x \in S : i = 0 .. x
  BY <1>2
<1>4. ASSUME NEW y \in S, y < x PROVE FALSE
  <2>1. 0 .. y \subseteq 0 .. x /\ x \in 0 .. x /\ x \notin 0 .. y
    BY <1>4
  <2>2. 0 .. y # 0 .. x
    BY <2>1
  <2>3. <<0 .. y, 0 .. x>> \in StrictSubsetOrdering(Nat)
    BY <2>1, <2>2 DEF StrictSubsetOrdering
  <2>. QED BY <1>2, <1>3, <2>3
<1>. QED BY <1>4

\* There is a category with the highest confidence, and a first one of those.
LEMMA AttackTypeIsBest ==
    ASSUME NEW payload \in [DOMAIN Category -> Nat],
           NEW d \in DOMAIN Category, payload[d] > 0
    PROVE  LET c == AttackType(payload)
           IN  /\ c \in DOMAIN Category /\ payload[c] > 0
               /\ Confidence(payload[c]) >= Confidence(payload[d])
<1>. DEFINE matching == {c \in DOMAIN Category : payload[c] > 0}
            double == {c \in matching : payload[c] > 1}
            best == IF double # {} THEN double ELSE matching
            Wins(c) == \A e \in matching :
                          \/ Confidence(payload[c]) > Confidence(payload[e])
                          \/ Confidence(payload[c]) = Confidence(payload[e]) /\ c <= e
<1>1. matching \subseteq Nat /\ d \in matching
  BY HoneypotAssumption
<1>2. PICK first \in best : \A c \in best : first <= c
  <2>1. best \subseteq Nat /\ best # {}
    BY <1>1
  <2>. HIDE DEF best
  <2>. QED BY <2>1, LeastNumber
<1>3. \A c \in matching :
         /\ payload[c] \in Nat \ {0}
         /\ Confidence(payload[c]) = IF c \in double THEN 100 ELSE 75
  BY DEF Confidence
<1>4. first \in matching /\ Wins(first)
  <2>1. first \in matching
    BY <1>2
  <2>. HIDE DEF matching
  <2>2. ASSUME NEW c \in matching
        PROVE  \/ Confidence(payload[first]) > Confidence(payload[c])
               \/ Confidence(payload[first]) = Confidence(payload[c]) /\ first <= c
    <3>1. CASE c \in best
      BY <1>2, <1>3, <2>1, <2>2, <3>1
    <3>2. CASE c \notin best
      BY <1>2, <1>3, <2>1, <2>2, <3>2
    <3>. QED BY <3>1, <3>2
  <2>. QED BY <2>1, <2>2
<1>5. AttackType(payload) = CHOOSE c \in matching : Wins(c)
  BY <1>1 DEF AttackType
<1>. HIDE DEF matching, double, best
<1>6. AttackType(payload) \in matching /\ Wins(AttackType(payload))
  <2>. HIDE DEF Wins
  <2>. QED BY <1>4, <1>5
<1>7. Confidence(payload[AttackType(payload)]) >= Confidence(payload[d])
  <2>1. /\ Confidence(payload[AttackType(payload)]) \in {75, 100}
        /\ Confidence(payload[d]) \in {75, 100}
    BY <1>1, <1>3, <1>6
  <2>2. \/ Confidence(payload[AttackType(payload)]) > Confidence(payload[d])
        \/ Confidence(payload[AttackType(payload)]) = Confidence(payload[d])
    BY <1>1, <1>6
  <2>. HIDE DEF Wins
  <2>. QED BY <2>1, <2>2
<1>. QED BY <1>6, <1>7 DEF matching

\* What is alerted about are the double matches.
LEMMA StrongIsDouble ==
    ASSUME NEW e \in Event
    PROVE  Strong(e) <=> \E c \in DOMAIN Category : e.payload[c] >= 2
<1>. DEFINE payload == e.payload
            type == AttackType(payload)
<1>1. payload \in [DOMAIN Category -> Nat]
  BY HoneypotAssumption DEF Event
<1>2. ASSUME NEW c \in DOMAIN Category, payload[c] >= 2
      PROVE  Strong(e)
  <2>1. type \in DOMAIN Category /\ payload[type] > 0
        /\ Confidence(payload[type]) >= Confidence(payload[c])
    BY <1>1, <1>2, AttackTypeIsBest
  <2>2. Confidence(payload[c]) = 100
    BY <1>1, <1>2 DEF Confidence
  <2>3. payload[type] \in Nat /\ type # 0
    BY <1>1, <2>1, HoneypotAssumption
  <2>4. Confidence(payload[type]) \in Int
    BY <2>3 DEF Confidence
  <2>5. Confidence(payload[type]) >= 80
    BY <2>1, <2>2, <2>4
  <2>. QED BY <2>3, <2>5 DEF Strong, Attack, CONFIDENCE_ALERT_THRESHOLD
<1>3. ASSUME Strong(e)
      PROVE  \E c \in DOMAIN Category : payload[c] >= 2
  <2>1. type # 0 /\ Confidence(payload[type]) >= 80
    BY <1>3 DEF Strong, Attack, CONFIDENCE_ALERT_THRESHOLD
  <2>2. PICK d \in DOMAIN Category : payload[d] > 0
    BY <2>1 DEF AttackType
  <2>3. type \in DOMAIN Category /\ payload[type] \in Nat
    BY <1>1, <2>2, AttackTypeIsBest
  <2>4. payload[type] > 1
    BY <2>1, <2>3 DEF Confidence
  <2>. QED BY <2>3, <2>4
<1>. QED BY <1>2, <1>3

-----------------------------------------------------------------------------

(* Every variable of the honeypot keeps its type, and the write lock is    *)
(* held by a thread exactly while it commits.                              *)
THEOREM HoneypotTyping == Spec => []TypeOK
<1>1. IInv => TypeOK
  BY DEF IInv
<1>. QED BY <1>1, InitIInv, NextIInv, PTL DEF Spec

(* For all threads, categories and requests: log row and threat row become *)
(* visible together or not at all, and an alert is posted once, for what   *)
(* the feed already shows, whoever is interrupted or restarted when.       *)
THEOREM HoneypotImplementsFeed == Spec => ImplementsFeed
<1>1. Init => Feed!Init
  BY DEF Init, Feed!Init
<1>2. IInv /\ [Next]_vars => [Feed!Next]_(Feed!vars)
  <2>. SUFFICES ASSUME IInv, [Next]_vars PROVE [Feed!Next]_(Feed!vars)
    OBVIOUS
  <2>1. ASSUME NEW t \in Thread, Commit(t) PROVE [Feed!Next]_(Feed!vars)
    <3>1. CASE UNCHANGED tables
      BY <2>1, <3>1 DEF Commit, tables, posts, Feed!vars
    <3>2. CASE /\ logs' = logs \cup {event[t]}
               /\ intel' = IF Attack(event[t]) THEN intel \cup {event[t]} ELSE intel
      <4>1. event[t] \in Event /\ event[t] \notin logs
        BY <2>1 DEF Commit, IInv, Come
      <4>. QED BY <2>1, <3>2, <4>1 DEF Commit, posts, Feed!Next, Feed!Record
    <3>. QED BY <2>1, <3>1, <3>2 DEF Commit
  <2>2. ASSUME NEW t \in Thread, MaybeAlert(t) PROVE [Feed!Next]_(Feed!vars)
    <3>1. event[t] \in Event /\ event[t] \in intel \ alerts
      BY <2>2 DEF MaybeAlert, IInv, Come
    <3>. QED BY <2>2, <3>1 DEF MaybeAlert, tables, Feed!Next, Feed!Raise, Feed!vars
  <2>3. ASSUME UNCHANGED tables, UNCHANGED alerts PROVE [Feed!Next]_(Feed!vars)
    BY <2>3 DEF tables, Feed!vars
  <2>. QED BY <2>1, <2>2, <2>3
       DEF Next, CatchAll, Serve, Capture, Insert, Deny, ApplicationLocks, ApplicationUnlocks,
           Restart, vars, posts
<1>. QED BY <1>1, <1>2, InitIInv, NextIInv, PTL DEF Spec, ImplementsFeed, Feed!Spec

(* For all threads, categories and requests: the panel's answer goes to    *)
(* requests that are in memory and in the tables and were posted to the    *)
(* webhook exactly if there is one and two patterns of one category        *)
(* matched, and an error only to those the tables do not show.             *)
THEOREM HoneypotAnswersTrue == Spec => AnswersTrue
<1>. DEFINE True(t) ==
              /\ reply'[t] = 401 /\ reply[t] # 401 =>
                    /\ event[t] \in logs \cap captured
                    /\ event[t] \in alerts <=>
                          webhook /\ \E c \in DOMAIN Category : event[t].payload[c] >= 2
              /\ reply'[t] = 500 /\ reply[t] # 500 => event[t] \notin logs
<1>1. IInv /\ [Next]_vars => [\A t \in Thread : True(t)]_vars
  <2>. SUFFICES ASSUME IInv, Next, NEW u \in Thread PROVE True(u)
    OBVIOUS
  <2>1. reply \in [Thread -> {0, 401, 500}]
    BY DEF IInv, TypeOK
  <2>2. ASSUME NEW t \in Thread, Answer(t, 500), event[t] \notin logs PROVE True(u)
    BY <2>1, <2>2 DEF Answer
  <2>3. ASSUME NEW t \in Thread, Deny(t) PROVE True(u)
    <3>1. /\ event[t] \in Event /\ event[t] \in logs \cap captured
          /\ event[t] \in alerts <=> webhook /\ Strong(event[t])
      BY <2>3 DEF Deny, IInv, Come
    <3>2. event[t] \in alerts <=>
            webhook /\ \E c \in DOMAIN Category : event[t].payload[c] >= 2
      BY <3>1, StrongIsDouble
    <3>. QED BY <2>1, <2>3, <3>1, <3>2 DEF Deny, Answer
  <2>4. ASSUME reply' = reply PROVE True(u)
    BY <2>4
  <2>5. ASSUME NEW t \in Thread, reply' = [reply EXCEPT ![t] = 0] PROVE True(u)
    BY <2>1, <2>5
  <2>6. ASSUME NEW t \in Thread, Insert(t) PROVE True(u)
    <3>1. event[t] \notin logs
      BY <2>6 DEF Insert, IInv, Come
    <3>. QED BY <2>2, <2>4, <2>6, <3>1 DEF Insert
  <2>7. ASSUME NEW t \in Thread, Commit(t) PROVE True(u)
    <3>1. event[t] \notin logs
      BY <2>7 DEF Commit, IInv, Come
    <3>. QED BY <2>2, <2>4, <2>7, <3>1 DEF Commit
  <2>8. ASSUME NEW t \in Thread, NEW payload \in Payload, CatchAll(t, payload) PROVE True(u)
    BY <2>5, <2>8 DEF CatchAll
  <2>9. CASE Restart
    BY <2>9 DEF Restart
  <2>10. ASSUME NEW t \in Thread, Capture(t) \/ MaybeAlert(t) PROVE True(u)
    BY <2>4, <2>10 DEF Capture, MaybeAlert
  <2>11. CASE ApplicationLocks \/ ApplicationUnlocks
    BY <2>4, <2>11 DEF ApplicationLocks, ApplicationUnlocks, threads
  <2>. QED BY <2>3, <2>6, <2>7, <2>8, <2>9, <2>10, <2>11 DEF Next, Serve
<1>. QED BY <1>1, InitIInv, NextIInv, PTL DEF Spec, AnswersTrue

=============================================================================
