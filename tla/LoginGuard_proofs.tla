-------------------------- MODULE LoginGuard_proofs --------------------------
(***************************************************************************)
(* What LoginGuard guarantees for every number of addresses and threads    *)
(* and all settings of the limiters: its types, that its window is the one *)
(* of SlidingWindow, the coherence of the penalties, the checks that slots *)
(* pay for and the audit rows that answers follow.                         *)
(***************************************************************************)
EXTENDS LoginGuard, FiniteSetTheorems, TLAPS

-----------------------------------------------------------------------------
(* Helpers *)

\* A block lasts a whole number of seconds, at most MaxBlock of them.
LEMMA BlockIsBounded ==
    ASSUME NEW v \in Nat
    PROVE  BlockSeconds(v) \in Int /\ BlockSeconds(v) <= MaxBlock
  BY LoginGuardAssumption DEF BlockSeconds

\* What a step that takes thread t from one place to the next does to pc.
LEMMA Moves ==
    ASSUME TypeOK, NEW t \in Thread, NEW step, NEW next \in Step, At(t, step, next)
    PROVE  /\ pc[t] = step /\ pc'[t] = next
           /\ \A u \in Thread \ {t} : pc'[u] = pc[u]
           /\ pc' \in [Thread -> Step]
  BY DEF TypeOK, At

\* What the drop loop takes and what an admission adds are times.
LEMMA DequeTypes ==
    ASSUME NEW w \in Seq(Int), NEW x \in Int
    PROVE  /\ Append(w, x) \in Seq(Int)
           /\ w # <<>> => Tail(w) \in Seq(Int)
  OBVIOUS

-----------------------------------------------------------------------------
(* Types *)

\* Every variable of the login endpoint keeps its type (rate_limiter.py's
\* dictionaries and the locals of routes.py's login).
THEOREM LoginGuardTyping == Spec => []TypeOK
  <1>1. Init => TypeOK
    BY DEF Init, TypeOK, Step, Reply
  <1>2. TypeOK /\ [Next]_vars => TypeOK'
    <2> SUFFICES ASSUME TypeOK, [Next]_vars
                 PROVE  TypeOK'
      OBVIOUS
    <2> USE DEF TypeOK, limits, history, thread, At, Hold, Happens, Answer,
                Step, Sifting, Recording
    <2>1. ASSUME NEW t \in Thread, NEW i \in IP, Arrive(t, i)
          PROVE  TypeOK'
      BY <2>1 DEF Arrive, Reply
    <2>2. ASSUME NEW t \in Thread, ReadBlock(t)
          PROVE  TypeOK'
      BY <2>2 DEF ReadBlock
    <2>3. ASSUME NEW t \in Thread, CheckBackoff(t)
          PROVE  TypeOK'
      <3>1. pc' \in [Thread -> Step] /\ event' \in [Thread -> Event \cup {"none"}]
        BY <2>3 DEF CheckBackoff, Event
      <3> QED
        BY <2>3, <3>1 DEF CheckBackoff
    <2>4. ASSUME NEW t \in Thread, ReadClock(t) \/ Count(t) \/ Refuse(t)
          PROVE  TypeOK'
      <3>1. pc' \in [Thread -> Step] /\ held' \in [Thread -> Int]
        <4>1. CASE ReadClock(t)
          BY <4>1 DEF ReadClock
        <4>2. CASE Count(t)
          BY <4>2 DEF Count
        <4>3. CASE Refuse(t)
          BY <4>3 DEF Refuse
        <4> QED
          BY <2>4, <4>1, <4>2, <4>3
      <3>2. UNCHANGED <<now, limits, client, event, row, reply, history>>
        BY <2>4 DEF ReadClock, Count, Refuse
      <3> QED
        BY <3>1, <3>2
    <2>5. ASSUME NEW t \in Thread, DropOne(t)
          PROVE  TypeOK'
      <3>1. Tail(requests[client[t]]) \in Seq(Int)
        BY <2>5, DequeTypes DEF DropOne, Aged
      <3> QED
        BY <2>5, <3>1 DEF DropOne
    <2>6. ASSUME NEW t \in Thread, Admit(t)
          PROVE  TypeOK'
      <3>1. /\ Append(requests[client[t]], held[t]) \in Seq(Int)
            /\ Append(admitted[client[t]], held[t]) \in Seq(Int)
        BY DequeTypes
      <3>2. requests' \in [IP -> Seq(Int)] /\ admitted' \in [IP -> Seq(Int)]
        BY <2>6, <3>1 DEF Admit
      <3> QED
        BY <2>6, <3>2 DEF Admit
    <2>7. ASSUME NEW t \in Thread, AddViolation(t)
          PROVE  TypeOK'
      BY <2>7 DEF AddViolation
    <2>8. ASSUME NEW t \in Thread, LengthenBlock(t)
          PROVE  TypeOK'
      BY <2>8, BlockIsBounded DEF LengthenBlock
    <2>9. ASSUME NEW t \in Thread, StampBlock(t)
          PROVE  TypeOK'
      BY <2>9 DEF StampBlock
    <2>10. ASSUME NEW t \in Thread, StoreBlock(t)
           PROVE  TypeOK'
      BY <2>10 DEF StoreBlock, Event
    <2>11. ASSUME NEW t \in Thread, LimiterRaises(t)
           PROVE  TypeOK'
      <3>1. pc' \in [Thread -> Step] /\ reply' \in [Thread -> Reply]
        BY <2>11 DEF LimiterRaises, Reply
      <3> QED
        BY <2>11, <3>1 DEF LimiterRaises
    <2>12. ASSUME NEW t \in Thread, VerifyCredentials(t)
           PROVE  TypeOK'
      <3>1. pc' \in [Thread -> Step] /\ event' \in [Thread -> Event \cup {"none"}]
        BY <2>12 DEF VerifyCredentials, Event
      <3> QED
        BY <2>12, <3>1 DEF VerifyCredentials
    <2>13. ASSUME NEW t \in Thread, PopViolations(t)
           PROVE  TypeOK'
      <3>1. crossed' \in [IP -> BOOLEAN]
        BY <2>13, Zenon DEF PopViolations
      <3> QED
        BY <2>13, <3>1 DEF PopViolations
    <2>14. ASSUME NEW t \in Thread, PopBlock(t)
           PROVE  TypeOK'
      <3>1. crossed' \in [IP -> BOOLEAN]
        BY <2>14, Zenon DEF PopBlock
      <3> QED
        BY <2>14, <3>1 DEF PopBlock, Event
    <2>15. ASSUME NEW t \in Thread, LogEvent(t)
           PROVE  TypeOK'
      <3>1. pc' \in [Thread -> Step]
        <4>1. At(t, "log", "issue") \/ At(t, "log", "idle")
          BY <2>15 DEF LogEvent
        <4> QED
          BY <4>1
      <3>2. reply' \in [Thread -> Reply] /\ held' \in [Thread -> Int]
        <4>1. CASE UNCHANGED <<reply, held>>
          BY <4>1
        <4>2. CASE Answer(t, ReplyTo(event[t]))
          BY <4>2 DEF Reply, ReplyTo
        <4> QED
          BY <2>15, <4>1, <4>2 DEF LogEvent
      <3>3. event' \in [Thread -> Event \cup {"none"}] /\ row' \in [Thread -> Event \cup {"none"}]
        BY <2>15 DEF LogEvent
      <3> QED
        BY <2>15, <3>1, <3>2, <3>3 DEF LogEvent
    <2>16. ASSUME NEW t \in Thread, DatabaseFails(t)
           PROVE  TypeOK'
      BY <2>16 DEF DatabaseFails, Reply
    <2>17. ASSUME NEW t \in Thread, IssueTokens(t)
           PROVE  TypeOK'
      BY <2>17 DEF IssueTokens, Reply, ReplyTo
    <2>18. CASE Tick
      BY <2>18 DEF Tick
    <2>19. CASE UNCHANGED vars
      BY <2>19 DEF vars
    <2> QED
      BY <2>1, <2>2, <2>3, <2>4, <2>5, <2>6, <2>7, <2>8, <2>9, <2>10, <2>11, <2>12,
         <2>13, <2>14, <2>15, <2>16, <2>17, <2>18, <2>19
      DEF Next, Serve, IsBlocked, Check, RecordViolation, Reset
  <1> QED
    BY <1>1, <1>2, PTL DEF Spec

-----------------------------------------------------------------------------
(* The window *)

\* What Sliding has for pc and for seen.
SiftPc == [t \in Thread |-> IF Sifts(t) THEN pc[t] ELSE "idle"]
SiftSeen == [t \in Thread |-> IF Sifts(t) THEN held[t] ELSE 0]

\* A step of one thread changes them for this thread only.
LEMMA SiftFrame ==
    ASSUME TypeOK, NEW t \in Thread, UNCHANGED client,
           \A u \in Thread \ {t} : pc'[u] = pc[u] /\ held'[u] = held[u]
    PROVE  /\ SiftPc' = [SiftPc EXCEPT ![t] = IF Sifts(t)' THEN pc'[t] ELSE "idle"]
           /\ SiftSeen' = [SiftSeen EXCEPT ![t] = IF Sifts(t)' THEN held'[t] ELSE 0]
  BY DEF SiftPc, SiftSeen, Sifts

\* A step outside of check leaves them as they are, and so does one of another
\* address.
LEMMA SiftAside ==
    ASSUME TypeOK, NEW t \in Thread, ~Sifts(t), ~Sifts(t)', UNCHANGED <<now, requests, admitted>>,
           \A u \in Thread \ {t} : pc'[u] = pc[u] /\ held'[u] = held[u] /\ client'[u] = client[u]
    PROVE  UNCHANGED Sliding!vars
  <1>1. ASSUME NEW u \in Thread
        PROVE  /\ (IF Sifts(u) THEN pc[u] ELSE "idle")' = IF Sifts(u) THEN pc[u] ELSE "idle"
               /\ (IF Sifts(u) THEN held[u] ELSE 0)' = IF Sifts(u) THEN held[u] ELSE 0
    BY DEF Sifts
  <1> QED
    BY <1>1 DEF Sliding!vars

\* The steps of check itself.
LEMMA SiftingSteps ==
    ASSUME TypeOK, NEW t \in Thread, client[t] = Watched, Check(t)
    PROVE  Sliding!Check(t)
  <1> USE DEF At, Hold, TypeOK, Sifting
  <1>0. ASSUME UNCHANGED client, \A u \in Thread \ {t} : pc'[u] = pc[u] /\ held'[u] = held[u]
        PROVE  /\ SiftPc' = [SiftPc EXCEPT ![t] = IF pc'[t] \in Sifting THEN pc'[t] ELSE "idle"]
               /\ SiftSeen' = [SiftSeen EXCEPT ![t] = IF pc'[t] \in Sifting THEN held'[t] ELSE 0]
               /\ SiftPc[t] = IF pc[t] \in Sifting THEN pc[t] ELSE "idle"
               /\ SiftSeen[t] = IF pc[t] \in Sifting THEN held[t] ELSE 0
    <2>1. Sifts(t)' = (pc'[t] \in Sifting) /\ Sifts(t) = (pc[t] \in Sifting)
      BY <1>0 DEF Sifts
    <2> QED
      BY <1>0, <2>1, SiftFrame DEF SiftPc, SiftSeen
  <1>1. CASE ReadClock(t)
    <2>1. /\ SiftPc[t] = "idle" /\ SiftPc' = [SiftPc EXCEPT ![t] = "drop"]
          /\ SiftSeen' = [SiftSeen EXCEPT ![t] = now]
          /\ UNCHANGED <<now, requests[Watched], admitted[Watched]>>
      BY <1>1, <1>0 DEF ReadClock, limits, history
    <2> QED
      BY <2>1 DEF Sliding!Check, Sliding!ReadClock, Sliding!At, SiftPc, SiftSeen
  <1>2. CASE DropOne(t)
    <2>1. /\ SiftPc[t] = "drop" /\ SiftPc' = [SiftPc EXCEPT ![t] = "drop"]
          /\ SiftSeen[t] = held[t] /\ SiftSeen' = [SiftSeen EXCEPT ![t] = held[t]]
          /\ requests[Watched] # <<>> /\ Head(requests[Watched]) <= held[t] - Window
          /\ requests'[Watched] = Tail(requests[Watched])
          /\ UNCHANGED <<now, admitted[Watched]>>
      BY <1>2, <1>0, LoginGuardAssumption DEF DropOne, Aged, history
    <2>2. SiftSeen' = SiftSeen
      BY <2>1 DEF SiftSeen
    <2> QED
      BY <2>1, <2>2 DEF Sliding!Check, Sliding!DropOne, Sliding!Aged, Sliding!At, SiftPc, SiftSeen
  <1>3. CASE Count(t)
    <2> DEFINE next == IF Len(requests[Watched]) >= MaxRequests THEN "refuse" ELSE "append"
    <2>1. /\ SiftPc[t] = "drop" /\ SiftPc' = [SiftPc EXCEPT ![t] = next]
          /\ SiftSeen[t] = held[t] /\ SiftSeen' = [SiftSeen EXCEPT ![t] = held[t]]
          /\ ~(requests[Watched] # <<>> /\ Head(requests[Watched]) <= held[t] - Window)
          /\ UNCHANGED <<now, requests[Watched], admitted[Watched]>>
      BY <1>3, <1>0 DEF Count, Aged, limits, history
    <2>2. SiftSeen' = SiftSeen
      BY <2>1 DEF SiftSeen
    <2> QED
      BY <2>1, <2>2 DEF Sliding!Check, Sliding!Count, Sliding!Aged, Sliding!At, SiftPc, SiftSeen
  <1>4. CASE Refuse(t)
    <2>1. /\ SiftPc[t] = "refuse" /\ SiftPc' = [SiftPc EXCEPT ![t] = "idle"]
          /\ SiftSeen' = [SiftSeen EXCEPT ![t] = 0]
          /\ UNCHANGED <<now, requests[Watched], admitted[Watched]>>
      BY <1>4, <1>0 DEF Refuse, limits, history
    <2> QED
      BY <2>1 DEF Sliding!Check, Sliding!Refuse, Sliding!At, SiftPc, SiftSeen
  <1>5. CASE Admit(t)
    <2>1. /\ SiftPc[t] = "append" /\ SiftPc' = [SiftPc EXCEPT ![t] = "idle"]
          /\ SiftSeen[t] = held[t] /\ SiftSeen' = [SiftSeen EXCEPT ![t] = 0]
          /\ requests'[Watched] = Append(requests[Watched], held[t])
          /\ admitted'[Watched] = Append(admitted[Watched], held[t])
          /\ now' = now
      BY <1>5, <1>0, LoginGuardAssumption DEF Admit
    <2> QED
      BY <2>1 DEF Sliding!Check, Sliding!Admit, Sliding!At, SiftPc, SiftSeen
  <1> QED
    BY <1>1, <1>2, <1>3, <1>4, <1>5 DEF Check

\* The steps of check for another address.
LEMMA SiftingElsewhere ==
    ASSUME TypeOK, NEW t \in Thread, client[t] # Watched, Check(t)
    PROVE  UNCHANGED Sliding!vars
  <1>1. /\ UNCHANGED <<now, client>>
        /\ \A u \in Thread \ {t} : pc'[u] = pc[u] /\ held'[u] = held[u]
    BY DEF Check, ReadClock, DropOne, Count, Refuse, Admit, At, Hold, TypeOK
  <1>2. requests'[Watched] = requests[Watched] /\ admitted'[Watched] = admitted[Watched]
    BY LoginGuardAssumption
    DEF Check, ReadClock, DropOne, Count, Refuse, Admit, limits, history, TypeOK
  <1>3. ASSUME NEW u \in Thread
        PROVE  /\ (IF Sifts(u) THEN pc[u] ELSE "idle")' = IF Sifts(u) THEN pc[u] ELSE "idle"
               /\ (IF Sifts(u) THEN held[u] ELSE 0)' = IF Sifts(u) THEN held[u] ELSE 0
    BY <1>1 DEF Sifts
  <1> QED
    BY <1>1, <1>2, <1>3 DEF Sliding!vars

LEMMA WindowStep == TypeOK /\ [Next]_vars => [Sliding!Next]_(Sliding!vars)
  <1> SUFFICES ASSUME TypeOK, [Next]_vars
               PROVE  [Sliding!Next]_(Sliding!vars)
    OBVIOUS
  <1>1. ASSUME NEW t \in Thread, Check(t)
        PROVE  [Sliding!Next]_(Sliding!vars)
    BY <1>1, SiftingSteps, SiftingElsewhere DEF Sliding!Next
  <1>2. ASSUME NEW t \in Thread, NEW i \in IP, Arrive(t, i)
        PROVE  UNCHANGED Sliding!vars
    <2>1. /\ ~Sifts(t) /\ ~Sifts(t)' /\ UNCHANGED <<now, requests, admitted>>
          /\ \A u \in Thread \ {t} : pc'[u] = pc[u] /\ held'[u] = held[u] /\ client'[u] = client[u]
      BY <1>2 DEF Arrive, At, TypeOK, Sifts, Sifting, limits, history
    <2> QED
      BY <2>1, SiftAside
  <1>3. ASSUME NEW t \in Thread, IsBlocked(t) \/ RecordViolation(t) \/ Reset(t)
        PROVE  UNCHANGED Sliding!vars
    <2>1. ~Sifts(t) /\ ~Sifts(t)'
      BY <1>3 DEF IsBlocked, ReadBlock, CheckBackoff, RecordViolation, AddViolation, LengthenBlock,
                  StampBlock, StoreBlock, Reset, PopViolations, PopBlock, At, TypeOK, Sifts, Sifting
    <2>2. UNCHANGED <<now, requests, admitted, client>>
      BY <1>3 DEF IsBlocked, ReadBlock, CheckBackoff, RecordViolation, AddViolation, LengthenBlock,
                  StampBlock, StoreBlock, Reset, PopViolations, PopBlock, limits, history
    <2>3. \A u \in Thread \ {t} : pc'[u] = pc[u] /\ held'[u] = held[u]
      BY <1>3 DEF IsBlocked, ReadBlock, CheckBackoff, RecordViolation, AddViolation, LengthenBlock,
                  StampBlock, StoreBlock, Reset, PopViolations, PopBlock, At, Hold, TypeOK
    <2> QED
      BY <2>1, <2>2, <2>3, SiftAside
  <1>4. ASSUME NEW t \in Thread,
               VerifyCredentials(t) \/ LogEvent(t) \/ DatabaseFails(t) \/ IssueTokens(t)
        PROVE  UNCHANGED Sliding!vars
    <2>1. ~Sifts(t) /\ ~Sifts(t)'
      BY <1>4 DEF VerifyCredentials, LogEvent, DatabaseFails, IssueTokens, At, TypeOK, Sifts, Sifting
    <2>2. UNCHANGED <<now, requests, admitted, client>>
      BY <1>4 DEF VerifyCredentials, LogEvent, DatabaseFails, IssueTokens, limits, history
    <2>3. \A u \in Thread \ {t} : pc'[u] = pc[u] /\ held'[u] = held[u]
      BY <1>4 DEF VerifyCredentials, LogEvent, DatabaseFails, IssueTokens, At, Answer, TypeOK
    <2> QED
      BY <2>1, <2>2, <2>3, SiftAside
  <1>5. ASSUME NEW t \in Thread, LimiterRaises(t)
        PROVE  [Sliding!Next]_(Sliding!vars)
    <2>1. /\ UNCHANGED <<now, requests, admitted, client>>
          /\ \A u \in Thread \ {t} : pc'[u] = pc[u] /\ held'[u] = held[u]
          /\ ~Sifts(t)'
      BY <1>5 DEF LimiterRaises, Answer, At, limits, history, TypeOK, Sifts, Sifting
    <2>2. CASE ~Sifts(t)
      BY <2>1, <2>2, SiftAside
    <2>3. CASE Sifts(t)
      <3>1. pc[t] = "refuse"
        BY <1>5, <2>3 DEF LimiterRaises, At, Sifts, Sifting
      <3>2. /\ SiftPc[t] = "refuse" /\ SiftPc' = [SiftPc EXCEPT ![t] = "idle"]
            /\ SiftSeen' = [SiftSeen EXCEPT ![t] = 0]
        BY <2>1, <2>3, <3>1, SiftFrame DEF SiftPc
      <3>3. Sliding!Refuse(t)
        BY <2>1, <3>2 DEF Sliding!Refuse, Sliding!At, SiftPc, SiftSeen
      <3> QED
        BY <3>3 DEF Sliding!Next, Sliding!Check
    <2> QED
      BY <2>2, <2>3
  <1>6. CASE Tick
    BY <1>6 DEF Tick, Sliding!Next, Sliding!Tick, limits, thread, history, Sifts
  <1>7. CASE UNCHANGED vars
    BY <1>7 DEF vars, limits, thread, history, Sliding!vars, Sifts
  <1> QED
    BY <1>1, <1>2, <1>3, <1>4, <1>5, <1>6, <1>7 DEF Next, Serve

\* The deque of an address is a window that threads share (SlidingWindow),
\* whatever the login's other steps do (SlidingWindowLimiter.check).
THEOREM LoginWindowIsSliding == Spec => WindowIsSliding
  <1>1. Init => Sliding!Init
    BY LoginGuardAssumption DEF Init, Sliding!Init, Sifts, Sifting
  <1> QED
    BY <1>1, WindowStep, LoginGuardTyping, PTL DEF Spec, Sliding!Spec, WindowIsSliding

-----------------------------------------------------------------------------
(* The penalties *)

\* A thread that records a violation will set a block that the violations are
\* worth, unless a reset has overlapped it; none sets a longer one than MaxBlock.
Sound(t) ==
    LET i == client[t]
    IN  /\ pc[t] = "lengthen" => crossed[i] \/ violations[i] > 0
        /\ pc[t] = "stamp" => held[t] <= MaxBlock /\ (crossed[i] \/ Worth(held[t], i))
        /\ pc[t] = "block" => held[t] <= now + MaxBlock /\ (crossed[i] \/ Worth(held[t] - now, i))

Popping(i) == \E t \in Thread : client[t] = i /\ pc[t] = "unblock"

Coherent(i) ==
    /\ blockedUntil[i] <= now + MaxBlock
    /\ crossed[i] \/ Popping(i) \/ blockedUntil[i] = 0 \/ Worth(blockedUntil[i] - now, i)

PenaltyInv ==
    /\ \A t \in Thread : Sound(t)
    /\ \A i \in IP : Coherent(i)

\* What a block is worth, a shorter one is, and with more violations too.
LEMMA WorthMore ==
    ASSUME NEW i \in IP, violations[i] \in Nat, violations'[i] \in Nat, violations'[i] >= violations[i],
           NEW s \in Int, NEW r \in Int, r <= s, Worth(s, i)
    PROVE  \E v \in 1..violations'[i] : r <= BlockSeconds(v)
  <1>1. PICK v \in 1..violations[i] : s <= BlockSeconds(v)
    BY DEF Worth
  <1>2. v \in 1..violations'[i] /\ BlockSeconds(v) \in Int
    BY <1>1, BlockIsBounded
  <1> QED
    BY <1>1, <1>2

\* A thread whose own step this is not stays sound: time passes, violations are
\* added, or the step has marked the address as crossed.
LEMMA SoundLater ==
    ASSUME TypeOK, TypeOK', NEW t \in Thread, Sound(t), now' >= now,
           pc'[t] = pc[t], held'[t] = held[t], client'[t] = client[t],
           pc[t] \in Recording =>
              \/ crossed'[client[t]]
              \/ /\ violations'[client[t]] >= violations[client[t]]
                 /\ ~crossed[client[t]]
    PROVE  Sound(t)'
  <1> DEFINE i == client[t]
  <1>1. /\ i \in IP /\ held[t] \in Int /\ now \in Nat /\ now' \in Nat
        /\ violations[i] \in Nat /\ violations'[i] \in Nat
    BY DEF TypeOK
  <1>2. CASE pc[t] \notin Recording
    BY <1>2 DEF Sound, Recording
  <1>3. CASE pc[t] = "lengthen"
    BY <1>1, <1>3 DEF Sound, Recording
  <1>4. CASE pc[t] = "stamp"
    <2>1. CASE crossed'[i]
      BY <1>4, <2>1 DEF Sound
    <2>2. CASE ~crossed[i] /\ violations'[i] >= violations[i]
      <3>1. Worth(held[t], i)
        BY <1>4, <2>2 DEF Sound
      <3>2. \E v \in 1..violations'[i] : held[t] <= BlockSeconds(v)
        BY <1>1, <2>2, <3>1, WorthMore
      <3> QED
        BY <1>4, <3>2 DEF Sound, Worth
    <2> QED
      BY <1>4, <2>1, <2>2 DEF Recording
  <1>5. CASE pc[t] = "block"
    <2>0. held[t] <= now' + MaxBlock
      BY <1>1, <1>5, LoginGuardAssumption DEF Sound
    <2>1. CASE crossed'[i]
      BY <1>5, <2>0, <2>1 DEF Sound
    <2>2. CASE ~crossed[i] /\ violations'[i] >= violations[i]
      <3>1. Worth(held[t] - now, i)
        BY <1>5, <2>2 DEF Sound
      <3>2. /\ held[t] - now \in Int /\ held[t] - now' \in Int
            /\ held[t] - now' <= held[t] - now
        BY <1>1
      <3>3. \E v \in 1..violations'[i] : held[t] - now' <= BlockSeconds(v)
        BY <1>1, <2>2, <3>1, <3>2, WorthMore
      <3> QED
        BY <1>5, <2>0, <3>3 DEF Sound, Worth
    <2> QED
      BY <1>5, <2>1, <2>2 DEF Recording
  <1> QED
    BY <1>2, <1>3, <1>4, <1>5 DEF Recording

\* So does an address whose block stays.
LEMMA CoherentLater ==
    ASSUME TypeOK, TypeOK', NEW i \in IP, Coherent(i), now' >= now,
           blockedUntil'[i] = blockedUntil[i],
           \/ crossed'[i] \/ Popping(i)'
           \/ /\ violations'[i] >= violations[i]
              /\ ~crossed[i] /\ ~Popping(i)
    PROVE  Coherent(i)'
  <1>1. /\ blockedUntil[i] \in Int /\ now \in Nat /\ now' \in Nat
        /\ violations[i] \in Nat /\ violations'[i] \in Nat
    BY DEF TypeOK
  <1>2. blockedUntil'[i] <= now' + MaxBlock
    BY <1>1, LoginGuardAssumption DEF Coherent
  <1>3. ASSUME violations'[i] >= violations[i], Worth(blockedUntil[i] - now, i)
        PROVE  \E v \in 1..violations'[i] : blockedUntil[i] - now' <= BlockSeconds(v)
    <2>1. /\ blockedUntil[i] - now \in Int /\ blockedUntil[i] - now' \in Int
          /\ blockedUntil[i] - now' <= blockedUntil[i] - now
      BY <1>1
    <2> QED
      BY <1>1, <1>3, <2>1, WorthMore
  <1> QED
    BY <1>2, <1>3 DEF Coherent, Worth

\* A step that touches no penalty keeps the invariant, whoever makes it, if its
\* thread neither records nor pops before and after.
LEMMA PenaltyAside ==
    ASSUME TypeOK, TypeOK', PenaltyInv, UNCHANGED <<violations, blockedUntil, crossed>>, now' >= now,
           NEW t \in Thread,
           {pc[t], pc'[t]} \cap (Recording \cup {"unblock"}) = {},
           \A u \in Thread \ {t} : pc'[u] = pc[u] /\ held'[u] = held[u] /\ client'[u] = client[u]
    PROVE  PenaltyInv'
  <1>0. ASSUME NEW i \in IP
        PROVE  violations'[i] >= violations[i] /\ crossed'[i] = crossed[i] /\ crossed[i] \in BOOLEAN
    BY DEF TypeOK
  <1>1. ASSUME NEW u \in Thread \ {t} PROVE Sound(u)'
    <2>1. client[u] \in IP /\ Sound(u)
      BY DEF PenaltyInv, TypeOK
    <2> QED
      BY <1>0, <2>1, SoundLater
  <1>2. Sound(t)'
    BY DEF Sound, Recording
  <1>3. ASSUME NEW i \in IP PROVE Coherent(i)'
    <2>1. Popping(i)' <=> Popping(i)
      BY DEF Popping
    <2>2. CASE crossed'[i] \/ Popping(i)'
      BY <2>2, CoherentLater DEF PenaltyInv
    <2>3. CASE ~crossed'[i] /\ ~Popping(i)'
      BY <1>0, <2>1, <2>3, CoherentLater DEF PenaltyInv
    <2> QED
      BY <2>2, <2>3
  <1> QED
    BY <1>1, <1>2, <1>3 DEF PenaltyInv

LEMMA PenaltyStep == TypeOK /\ TypeOK' /\ PenaltyInv /\ [Next]_vars => PenaltyInv'
  <1> SUFFICES ASSUME TypeOK, TypeOK', PenaltyInv, [Next]_vars
               PROVE  PenaltyInv'
    OBVIOUS
  <1>0. ASSUME NEW i \in IP
        PROVE  crossed[i] \in BOOLEAN /\ violations[i] \in Nat /\ Coherent(i)
    BY DEF PenaltyInv, TypeOK
  <1>1. ASSUME NEW t \in Thread, NEW i \in IP, Arrive(t, i)
        PROVE  PenaltyInv'
    <2>1. /\ {pc[t], pc'[t]} \cap (Recording \cup {"unblock"}) = {}
          /\ \A u \in Thread \ {t} : pc'[u] = pc[u] /\ held'[u] = held[u] /\ client'[u] = client[u]
      BY <1>1 DEF Arrive, At, TypeOK, Recording
    <2>2. UNCHANGED <<violations, blockedUntil, crossed, now>>
      BY <1>1 DEF Arrive, limits, history
    <2>3. now' >= now
      BY <2>2 DEF TypeOK
    <2> QED
      BY <2>1, <2>2, <2>3, PenaltyAside
  <1>2. ASSUME NEW t \in Thread,
               \/ IsBlocked(t) \/ Check(t) \/ VerifyCredentials(t)
               \/ LogEvent(t) \/ DatabaseFails(t) \/ IssueTokens(t)
        PROVE  PenaltyInv'
    <2>1. {pc[t], pc'[t]} \cap (Recording \cup {"unblock"}) = {}
      BY <1>2 DEF IsBlocked, ReadBlock, CheckBackoff, Check, ReadClock, DropOne, Count, Refuse, Admit,
                  VerifyCredentials, LogEvent, DatabaseFails, IssueTokens, At, TypeOK, Recording
    <2>2. \A u \in Thread \ {t} : pc'[u] = pc[u] /\ held'[u] = held[u] /\ client'[u] = client[u]
      BY <1>2 DEF IsBlocked, ReadBlock, CheckBackoff, Check, ReadClock, DropOne, Count, Refuse, Admit,
                  VerifyCredentials, LogEvent, DatabaseFails, IssueTokens, At, Hold, Answer, TypeOK
    <2>3. UNCHANGED <<violations, blockedUntil, crossed, now>>
      BY <1>2 DEF IsBlocked, ReadBlock, CheckBackoff, Check, ReadClock, DropOne, Count, Refuse, Admit,
                  VerifyCredentials, LogEvent, DatabaseFails, IssueTokens, limits, history
    <2>4. now' >= now
      BY <2>3 DEF TypeOK
    <2> QED
      BY <2>1, <2>2, <2>3, <2>4, PenaltyAside
  <1>3. ASSUME NEW t \in Thread, LimiterRaises(t)
        PROVE  PenaltyInv'
    <2>1. /\ pc'[t] = "idle" /\ pc[t] # "unblock"
          /\ UNCHANGED <<violations, blockedUntil, crossed, now, client>>
          /\ \A u \in Thread \ {t} : pc'[u] = pc[u] /\ held'[u] = held[u]
      BY <1>3 DEF LimiterRaises, At, Answer, limits, history, TypeOK
    <2>2. ASSUME NEW u \in Thread PROVE Sound(u)'
      <3>1. CASE u = t
        BY <2>1, <3>1 DEF Sound
      <3>2. CASE u # t
        <4>1. client[u] \in IP /\ Sound(u) /\ now' >= now
          BY <2>1 DEF PenaltyInv, TypeOK
        <4> QED
          BY <1>0, <2>1, <3>2, <4>1, SoundLater
      <3> QED
        BY <3>1, <3>2
    <2>3. ASSUME NEW i \in IP PROVE Coherent(i)'
      BY <1>0, <2>1 DEF Coherent, Popping, Worth
    <2> QED
      BY <2>2, <2>3 DEF PenaltyInv
  <1>4. ASSUME NEW t \in Thread, AddViolation(t)
        PROVE  PenaltyInv'
    <2>1. /\ pc[t] = "penalty" /\ pc'[t] = "lengthen"
          /\ UNCHANGED <<blockedUntil, crossed, now, client, held>>
          /\ \A u \in Thread \ {t} : pc'[u] = pc[u]
      BY <1>4 DEF AddViolation, At, history, TypeOK
    <2>2. ASSUME NEW i \in IP
          PROVE  violations'[i] >= violations[i] /\ (i = client[t] => violations'[i] > 0)
      <3>1. violations' = [violations EXCEPT ![client[t]] = IF @ > MaxExponent THEN @ ELSE @ + 1]
        BY <1>4 DEF AddViolation
      <3>2. violations \in [IP -> Nat] /\ client[t] \in IP /\ MaxExponent \in Nat
        BY LoginGuardAssumption DEF TypeOK
      <3>3. /\ i # client[t] => violations'[i] = violations[i]
            /\ violations'[client[t]] =
                  IF violations[client[t]] > MaxExponent THEN violations[client[t]]
                  ELSE violations[client[t]] + 1
        BY <3>1, <3>2
      <3> QED
        BY <3>2, <3>3
    <2>3. ASSUME NEW u \in Thread PROVE Sound(u)'
      <3>0. client[u] \in IP /\ Sound(u) /\ now' >= now
        BY <2>1 DEF PenaltyInv, TypeOK
      <3>1. CASE u = t
        BY <2>1, <2>2, <3>0, <3>1 DEF Sound
      <3>2. CASE u # t
        BY <1>0, <2>1, <2>2, <3>0, <3>2, SoundLater
      <3> QED
        BY <3>1, <3>2
    <2>4. ASSUME NEW i \in IP PROVE Coherent(i)'
      <3>1. now' >= now /\ (Popping(i)' <=> Popping(i))
        BY <2>1 DEF Popping, TypeOK
      <3>2. CASE crossed'[i] \/ Popping(i)'
        BY <1>0, <2>1, <3>1, <3>2, CoherentLater
      <3>3. CASE ~crossed'[i] /\ ~Popping(i)'
        BY <1>0, <2>1, <2>2, <3>1, <3>3, CoherentLater
      <3> QED
        BY <3>2, <3>3
    <2> QED
      BY <2>3, <2>4 DEF PenaltyInv
  <1>5. ASSUME NEW t \in Thread, LengthenBlock(t) \/ StampBlock(t)
        PROVE  PenaltyInv'
    <2>1. /\ UNCHANGED <<violations, blockedUntil, crossed, now, client>>
          /\ \A u \in Thread \ {t} : pc'[u] = pc[u] /\ held'[u] = held[u]
          /\ pc[t] # "unblock" /\ pc'[t] # "unblock"
      BY <1>5 DEF LengthenBlock, StampBlock, At, Hold, limits, history, TypeOK
    <2>2. Sound(t)'
      <3>0. client[t] \in IP /\ Sound(t) /\ now \in Nat /\ held[t] \in Int
        BY DEF PenaltyInv, TypeOK
      <3>1. CASE LengthenBlock(t)
        <4> DEFINE v == violations[client[t]]
        <4>1. pc[t] = "lengthen" /\ pc'[t] = "stamp" /\ held'[t] = BlockSeconds(v)
          BY <3>1 DEF LengthenBlock, At, Hold, TypeOK
        <4>2. v \in Nat /\ BlockSeconds(v) \in Int /\ BlockSeconds(v) <= MaxBlock
          BY <1>0, <3>0, BlockIsBounded
        <4>3. crossed[client[t]] \/ v \in 1..v
          BY <3>0, <4>1, <4>2 DEF Sound
        <4> QED
          BY <2>1, <4>1, <4>2, <4>3 DEF Sound, Worth
      <3>2. CASE StampBlock(t)
        <4>1. pc[t] = "stamp" /\ pc'[t] = "block" /\ held'[t] = now + held[t]
          BY <3>2 DEF StampBlock, At, Hold, TypeOK
        <4>2. held'[t] - now' = held[t] /\ (held[t] <= MaxBlock => held'[t] <= now' + MaxBlock)
          BY <2>1, <3>0, <4>1, LoginGuardAssumption
        <4> QED
          BY <2>1, <3>0, <4>1, <4>2 DEF Sound, Worth
      <3> QED
        BY <1>5, <3>1, <3>2
    <2>3. ASSUME NEW u \in Thread \ {t} PROVE Sound(u)'
      <3>1. client[u] \in IP /\ Sound(u) /\ now' >= now
        BY <2>1 DEF PenaltyInv, TypeOK
      <3> QED
        BY <1>0, <2>1, <3>1, SoundLater
    <2>4. ASSUME NEW i \in IP PROVE Coherent(i)'
      BY <1>0, <2>1 DEF Coherent, Popping, Worth
    <2> QED
      BY <2>2, <2>3, <2>4 DEF PenaltyInv
  <1>6. ASSUME NEW t \in Thread, StoreBlock(t)
        PROVE  PenaltyInv'
    <2>1. /\ UNCHANGED <<violations, crossed, now, client>>
          /\ \A u \in Thread \ {t} : pc'[u] = pc[u] /\ held'[u] = held[u]
          /\ pc[t] = "block" /\ pc'[t] = "log"
          /\ blockedUntil'[client[t]] = held[t]
          /\ \A i \in IP \ {client[t]} : blockedUntil'[i] = blockedUntil[i]
      BY <1>6 DEF StoreBlock, At, Hold, history, TypeOK
    <2>2. ASSUME NEW u \in Thread PROVE Sound(u)'
      <3>1. CASE u = t
        BY <2>1, <3>1 DEF Sound
      <3>2. CASE u # t
        <4>1. client[u] \in IP /\ Sound(u) /\ now' >= now
          BY <2>1 DEF PenaltyInv, TypeOK
        <4> QED
          BY <1>0, <2>1, <3>2, <4>1, SoundLater
      <3> QED
        BY <3>1, <3>2
    <2>3. ASSUME NEW i \in IP PROVE Coherent(i)'
      <3>1. CASE i = client[t]
        <4>1. Sound(t)
          BY DEF PenaltyInv
        <4> QED
          BY <2>1, <3>1, <4>1 DEF Sound, Coherent, Worth
      <3>2. CASE i # client[t]
        BY <1>0, <2>1, <3>2 DEF Coherent, Popping, Worth
      <3> QED
        BY <3>1, <3>2
    <2> QED
      BY <2>2, <2>3 DEF PenaltyInv
  <1>7. ASSUME NEW t \in Thread, PopViolations(t)
        PROVE  PenaltyInv'
    <2>1. /\ UNCHANGED <<blockedUntil, now, client, held>>
          /\ \A u \in Thread \ {t} : pc'[u] = pc[u]
          /\ pc[t] = "reset" /\ pc'[t] = "unblock"
      BY <1>7 DEF PopViolations, At, TypeOK
    <2>2. /\ crossed' = [crossed EXCEPT ![client[t]] = @ \/ \E u \in Thread : Records(u, client[t])]
          /\ \A i \in IP \ {client[t]} : violations'[i] = violations[i]
      BY <1>7 DEF PopViolations, TypeOK
    <2>3. \A u \in Thread : pc[u] \in Recording /\ client[u] = client[t] => crossed'[client[u]]
      <3>1. client[t] \in IP /\ crossed \in [IP -> BOOLEAN]
        BY DEF TypeOK
      <3> QED
        BY <2>2, <3>1, Zenon DEF Records
    <2>4. \A i \in IP \ {client[t]} : crossed'[i] = crossed[i]
      <3>1. crossed \in [IP -> BOOLEAN]
        BY DEF TypeOK
      <3> QED
        BY <2>2, <3>1, Zenon
    <2>5. ASSUME NEW u \in Thread PROVE Sound(u)'
      <3>0. client[u] \in IP /\ Sound(u) /\ now' >= now
        BY <2>1 DEF PenaltyInv, TypeOK
      <3>1. CASE u = t
        BY <2>1, <3>1 DEF Sound
      <3>2. CASE u # t
        BY <1>0, <2>1, <2>2, <2>3, <2>4, <3>0, <3>2, SoundLater
      <3> QED
        BY <3>1, <3>2
    <2>6. ASSUME NEW i \in IP PROVE Coherent(i)'
      <3>1. CASE i = client[t]
        <4>1. Popping(i)'
          BY <2>1, <3>1 DEF Popping
        <4> QED
          BY <1>0, <2>1, <4>1 DEF Coherent
      <3>2. CASE i # client[t]
        <4>1. Popping(i)' <=> Popping(i)
          BY <2>1, <3>2 DEF Popping
        <4> QED
          BY <1>0, <2>1, <2>2, <2>4, <3>2, <4>1 DEF Coherent, Worth
      <3> QED
        BY <3>1, <3>2
    <2> QED
      BY <2>5, <2>6 DEF PenaltyInv
  <1>8. ASSUME NEW t \in Thread, PopBlock(t)
        PROVE  PenaltyInv'
    <2>1. /\ UNCHANGED <<violations, now, client, held>>
          /\ \A u \in Thread \ {t} : pc'[u] = pc[u]
          /\ pc[t] = "unblock" /\ pc'[t] = "log"
          /\ blockedUntil'[client[t]] = 0
          /\ \A i \in IP \ {client[t]} : blockedUntil'[i] = blockedUntil[i]
      BY <1>8 DEF PopBlock, At, TypeOK
    <2>2. crossed' = [crossed EXCEPT ![client[t]] = @ /\ \E u \in Thread : Records(u, client[t])]
      BY <1>8 DEF PopBlock
    <2>3. /\ \A u \in Thread : pc[u] \in Recording => crossed'[client[u]] = crossed[client[u]]
          /\ \A i \in IP \ {client[t]} : crossed'[i] = crossed[i]
      <3>1. (\A u \in Thread : client[u] \in IP) /\ crossed \in [IP -> BOOLEAN]
        BY DEF TypeOK
      <3> QED
        BY <2>2, <3>1 DEF Records
    <2>4. ASSUME NEW u \in Thread PROVE Sound(u)'
      <3>0. client[u] \in IP /\ Sound(u) /\ now' >= now
        BY <2>1 DEF PenaltyInv, TypeOK
      <3>1. CASE u = t
        BY <2>1, <3>1 DEF Sound
      <3>2. CASE u # t
        BY <1>0, <2>1, <2>3, <3>0, <3>2, SoundLater
      <3> QED
        BY <3>1, <3>2
    <2>5. ASSUME NEW i \in IP PROVE Coherent(i)'
      <3>1. CASE i = client[t]
        BY <2>1, <3>1, LoginGuardAssumption DEF Coherent, TypeOK
      <3>2. CASE i # client[t]
        <4>1. Popping(i)' <=> Popping(i)
          BY <2>1, <3>2 DEF Popping
        <4> QED
          BY <1>0, <2>1, <2>3, <3>2, <4>1 DEF Coherent, Worth
      <3> QED
        BY <3>1, <3>2
    <2> QED
      BY <2>4, <2>5 DEF PenaltyInv
  <1>9. CASE Tick
    <2>1. UNCHANGED <<violations, blockedUntil, crossed, pc, held, client>> /\ now' >= now
      BY <1>9 DEF Tick, limits, thread, history, TypeOK
    <2>2. ASSUME NEW u \in Thread PROVE Sound(u)'
      <3>1. client[u] \in IP /\ Sound(u)
        BY DEF PenaltyInv, TypeOK
      <3> QED
        BY <1>0, <2>1, <3>1, SoundLater
    <2>3. ASSUME NEW i \in IP PROVE Coherent(i)'
      <3>1. Popping(i)' <=> Popping(i)
        BY <2>1 DEF Popping
      <3>2. CASE crossed'[i] \/ Popping(i)'
        BY <1>0, <2>1, <3>2, CoherentLater
      <3>3. CASE ~crossed'[i] /\ ~Popping(i)'
        BY <1>0, <2>1, <3>1, <3>3, CoherentLater
      <3> QED
        BY <3>2, <3>3
    <2> QED
      BY <2>2, <2>3 DEF PenaltyInv
  <1>10. CASE UNCHANGED vars
    BY <1>10 DEF vars, limits, thread, history, PenaltyInv, Sound, Coherent, Popping, Worth
  <1> QED
    BY <1>1, <1>2, <1>3, <1>4, <1>5, <1>6, <1>7, <1>8, <1>9, <1>10
    DEF Next, Serve, RecordViolation, Reset

\* The two dictionaries of ExponentialBackoffTracker agree but for a reset that
\* overlaps the recording of a violation, and no address is blocked for longer
\* than MaxBlock, whoever else uses the tracker.
THEOREM LoginPenaltyCoherent == Spec => []PenaltyCoherent
  <1>1. Init => PenaltyInv
    <2> SUFFICES ASSUME Init PROVE PenaltyInv
      OBVIOUS
    <2>1. \A t \in Thread : Sound(t)
      BY DEF Init, Sound
    <2>2. \A i \in IP : Coherent(i)
      BY LoginGuardAssumption DEF Init, Coherent
    <2> QED
      BY <2>1, <2>2 DEF PenaltyInv
  <1>2. TypeOK /\ PenaltyInv => PenaltyCoherent
    BY DEF PenaltyInv, Coherent, Popping, PenaltyCoherent, TypeOK
  <1> QED
    BY <1>1, <1>2, PenaltyStep, LoginGuardTyping, PTL DEF Spec

\* While an address serves a penalty that none of its requests is past, no
\* step of anyone changes its limits or gets one past the gate (login).
THEOREM LoginPenaltyFreezes == Spec => PenaltyFreezesClient
  <1>1. TypeOK /\ [Next]_vars =>
          \A i \in IP : Quiet(i) =>
              /\ UNCHANGED <<requests[i], violations[i], blockedUntil[i]>>
              /\ now' < blockedUntil[i] => Quiet(i)'
    <2> SUFFICES ASSUME TypeOK, [Next]_vars, NEW i \in IP, Quiet(i)
                 PROVE  /\ UNCHANGED <<requests[i], violations[i], blockedUntil[i]>>
                        /\ now' < blockedUntil[i] => Quiet(i)'
      OBVIOUS
    <2> DEFINE Before(t) == \/ pc[t] \in {"idle", "gate", "log", "issue"}
                            \/ pc[t] = "compare" /\ held[t] >= blockedUntil[i]
    <2>0. /\ now < blockedUntil[i]
          /\ \A t \in Thread : client[t] = i => Before(t)
      BY DEF Quiet
    \* A step of another address.
    <2>1. ASSUME NEW t \in Thread, client[t] # i, UNCHANGED <<now, client>>,
                 \A j \in IP \ {client[t]} :
                    UNCHANGED <<requests[j], violations[j], blockedUntil[j]>>,
                 \A u \in Thread \ {t} : pc'[u] = pc[u] /\ held'[u] = held[u]
          PROVE  /\ UNCHANGED <<requests[i], violations[i], blockedUntil[i]>>
                 /\ now' < blockedUntil[i] => Quiet(i)'
      BY <2>0, <2>1 DEF Quiet
    \* A step that leaves the limits.
    <2>2. ASSUME UNCHANGED limits, \A t \in Thread : client'[t] = i => Before(t)'
          PROVE  /\ UNCHANGED <<requests[i], violations[i], blockedUntil[i]>>
                 /\ now' < blockedUntil[i] => Quiet(i)'
      BY <2>2 DEF Quiet, limits
    <2>3. ASSUME NEW t \in Thread, NEW j \in IP, Arrive(t, j)
          PROVE  /\ UNCHANGED <<requests[i], violations[i], blockedUntil[i]>>
                 /\ now' < blockedUntil[i] => Quiet(i)'
      <3>1. /\ UNCHANGED limits /\ pc'[t] = "gate"
            /\ \A u \in Thread \ {t} : pc'[u] = pc[u] /\ held'[u] = held[u] /\ client'[u] = client[u]
        BY <2>3 DEF Arrive, At, TypeOK
      <3> QED
        BY <2>0, <2>2, <3>1 DEF limits
    <2>4. ASSUME NEW t \in Thread, IsBlocked(t) \/ Check(t) \/ RecordViolation(t) \/ Reset(t),
                 client[t] # i
          PROVE  /\ UNCHANGED <<requests[i], violations[i], blockedUntil[i]>>
                 /\ now' < blockedUntil[i] => Quiet(i)'
      <3>1. UNCHANGED <<now, client>>
        BY <2>4
        DEF IsBlocked, ReadBlock, CheckBackoff, Check, ReadClock, DropOne, Count, Refuse, Admit,
            RecordViolation, AddViolation, LengthenBlock, StampBlock, StoreBlock, Reset,
            PopViolations, PopBlock
      <3>2. \A u \in Thread \ {t} : pc'[u] = pc[u] /\ held'[u] = held[u]
        <4> USE DEF At, Hold, TypeOK
        <4>1. CASE IsBlocked(t)
          BY <4>1 DEF IsBlocked, ReadBlock, CheckBackoff
        <4>2. CASE Check(t)
          BY <4>2 DEF Check, ReadClock, DropOne, Count, Refuse, Admit
        <4>3. CASE RecordViolation(t)
          BY <4>3 DEF RecordViolation, AddViolation, LengthenBlock, StampBlock, StoreBlock
        <4>4. CASE Reset(t)
          BY <4>4 DEF Reset, PopViolations, PopBlock
        <4> QED
          BY <2>4, <4>1, <4>2, <4>3, <4>4
      <3>3. \A j \in IP \ {client[t]} : UNCHANGED <<requests[j], violations[j], blockedUntil[j]>>
        <4> USE DEF TypeOK, limits
        <4>1. CASE IsBlocked(t)
          BY <4>1 DEF IsBlocked, ReadBlock, CheckBackoff
        <4>2. CASE Check(t)
          BY <4>2 DEF Check, ReadClock, DropOne, Count, Refuse, Admit
        <4>3. CASE RecordViolation(t)
          BY <4>3 DEF RecordViolation, AddViolation, LengthenBlock, StampBlock, StoreBlock
        <4>4. CASE Reset(t)
          BY <4>4 DEF Reset, PopViolations, PopBlock
        <4> QED
          BY <2>4, <4>1, <4>2, <4>3, <4>4
      <3> QED
        BY <2>1, <2>4, <3>1, <3>2, <3>3
    \* A step of a request that is not past the gate.
    <2>5. ASSUME NEW t \in Thread, IsBlocked(t) \/ Check(t) \/ RecordViolation(t) \/ Reset(t),
                 client[t] = i
          PROVE  /\ UNCHANGED <<requests[i], violations[i], blockedUntil[i]>>
                 /\ now' < blockedUntil[i] => Quiet(i)'
      <3>1. Before(t) /\ now \in Nat /\ blockedUntil[i] \in Int /\ held[t] \in Int
        BY <2>0, <2>5 DEF TypeOK
      <3>2. ~Check(t) /\ ~RecordViolation(t) /\ ~Reset(t)
        BY <3>1 DEF Check, ReadClock, DropOne, Count, Refuse, Admit, RecordViolation, AddViolation,
                    LengthenBlock, StampBlock, StoreBlock, Reset, PopViolations, PopBlock, At
      <3>3. /\ UNCHANGED <<limits, client>>
            /\ \A u \in Thread \ {t} : pc'[u] = pc[u] /\ held'[u] = held[u]
        BY <2>5, <3>2 DEF IsBlocked, ReadBlock, CheckBackoff, At, Hold, TypeOK
      <3>4. CASE ReadBlock(t)
        <4>1. pc'[t] = "compare" /\ held'[t] = blockedUntil[i]
          BY <2>5, <3>4 DEF ReadBlock, At, Hold, TypeOK
        <4>2. Before(t)'
          BY <3>1, <3>3, <4>1 DEF limits
        <4> QED
          BY <2>0, <2>2, <3>3, <4>2 DEF limits
      <3>5. CASE CheckBackoff(t)
        <4>1. pc[t] = "compare" /\ now < held[t]
          BY <2>0, <3>1, <3>5 DEF CheckBackoff, At
        <4>2. pc'[t] = "log"
          BY <3>1, <3>5, <4>1 DEF CheckBackoff, At, TypeOK
        <4> QED
          BY <2>0, <2>2, <3>3, <4>2 DEF limits
      <3> QED
        BY <2>5, <3>2, <3>4, <3>5 DEF IsBlocked
    <2>6. ASSUME NEW t \in Thread, VerifyCredentials(t) \/ LimiterRaises(t)
          PROVE  /\ UNCHANGED <<requests[i], violations[i], blockedUntil[i]>>
                 /\ now' < blockedUntil[i] => Quiet(i)'
      <3>1. client[t] # i
        BY <2>0, <2>6 DEF VerifyCredentials, LimiterRaises, At
      <3>2. UNCHANGED <<now, client, limits>>
        BY <2>6 DEF VerifyCredentials, LimiterRaises
      <3>3. \A u \in Thread \ {t} : pc'[u] = pc[u] /\ held'[u] = held[u]
        BY <2>6 DEF VerifyCredentials, LimiterRaises, At, Answer, TypeOK
      <3> QED
        BY <2>1, <3>1, <3>2, <3>3 DEF limits
    <2>7. ASSUME NEW t \in Thread, LogEvent(t) \/ DatabaseFails(t) \/ IssueTokens(t)
          PROVE  /\ UNCHANGED <<requests[i], violations[i], blockedUntil[i]>>
                 /\ now' < blockedUntil[i] => Quiet(i)'
      <3>1. UNCHANGED <<limits, client>> /\ pc'[t] \in {"idle", "issue"}
        BY <2>7 DEF LogEvent, DatabaseFails, IssueTokens, At, TypeOK
      <3>2. \A u \in Thread \ {t} : pc'[u] = pc[u] /\ held'[u] = held[u]
        BY <2>7 DEF LogEvent, DatabaseFails, IssueTokens, At, Answer, TypeOK
      <3> QED
        BY <2>0, <2>2, <3>1, <3>2 DEF limits
    <2>8. CASE Tick
      BY <2>0, <2>2, <2>8 DEF Tick, limits, thread
    <2>9. CASE UNCHANGED vars
      BY <2>0, <2>2, <2>9 DEF vars, limits, thread
    <2> QED
      BY <2>3, <2>4, <2>5, <2>6, <2>7, <2>8, <2>9 DEF Next, Serve
  <1> QED
    BY <1>1, LoginGuardTyping, PTL DEF Spec, PenaltyFreezesClient

-----------------------------------------------------------------------------
(* The slots *)

\* The threads that are about to check credentials for address i.
Verifying(i) == {t \in Thread : client[t] = i /\ pc[t] = "verify"}

\* They are finitely many; one more or one less changes their number by one.
LEMMA VerifyingCount ==
    ASSUME NEW S \in SUBSET Thread, NEW t \in Thread
    PROVE  /\ IsFiniteSet(S) /\ Cardinality(S) \in Nat
           /\ t \notin S => Cardinality(S \cup {t}) = Cardinality(S) + 1
           /\ t \in S => Cardinality(S \ {t}) = Cardinality(S) - 1
  <1>1. IsFiniteSet(S)
    BY LoginGuardAssumption, FS_Subset
  <1> QED
    BY <1>1, FS_CardinalityType, FS_AddElement, FS_RemoveElement

\* Every credential check has a slot of the window of its own, whatever the
\* handlers of other threads do between the two (routes.py, login).
THEOREM LoginChecksArePaidFor == Spec => []ChecksArePaidFor
  <1>1. Init => ChecksArePaidFor
    <2> SUFFICES ASSUME Init, NEW i \in IP
                 PROVE  checked[i] + Cardinality(Verifying(i)) <= Len(admitted[i])
      BY DEF ChecksArePaidFor, Verifying
    <2>1. Verifying(i) = {}
      BY DEF Init, Verifying
    <2>2. checked[i] = 0 /\ admitted[i] = <<>>
      BY DEF Init
    <2> QED
      BY <2>1, <2>2, FS_EmptySet
  <1>2. TypeOK /\ ChecksArePaidFor /\ [Next]_vars => ChecksArePaidFor'
    <2> SUFFICES ASSUME TypeOK, ChecksArePaidFor, [Next]_vars, NEW i \in IP
                 PROVE  checked'[i] + Cardinality(Verifying(i)') <= Len(admitted'[i])
      BY DEF ChecksArePaidFor, Verifying
    <2> DEFINE n == Cardinality(Verifying(i))
    <2>0. checked[i] + n <= Len(admitted[i])
      BY DEF ChecksArePaidFor, Verifying
    <2>a. /\ Verifying(i) \in SUBSET Thread
          /\ checked[i] \in Nat /\ admitted[i] \in Seq(Int) /\ Len(admitted[i]) \in Nat
      BY DEF Verifying, TypeOK
    <2>b. n \in Nat
      BY <2>a, LoginGuardAssumption, FS_Subset, FS_CardinalityType
    <2>1. ASSUME UNCHANGED <<admitted, checked>>, Verifying(i)' = Verifying(i)
          PROVE  checked'[i] + Cardinality(Verifying(i)') <= Len(admitted'[i])
      BY <2>0, <2>1
    <2>2. ASSUME NEW t \in Thread, NEW j \in IP, Arrive(t, j)
          PROVE  checked'[i] + Cardinality(Verifying(i)') <= Len(admitted'[i])
      BY <2>1, <2>2 DEF Arrive, At, history, Verifying, TypeOK
    \* A step from and to a place that is not the check of the credentials.
    <2>3. ASSUME NEW t \in Thread, UNCHANGED <<admitted, checked, client>>,
                 pc[t] # "verify", pc'[t] # "verify", \A u \in Thread \ {t} : pc'[u] = pc[u]
          PROVE  checked'[i] + Cardinality(Verifying(i)') <= Len(admitted'[i])
      <3>1. Verifying(i)' = Verifying(i)
        BY <2>3 DEF Verifying
      <3> QED
        BY <2>1, <2>3, <3>1
    <2>4. ASSUME NEW t \in Thread, IsBlocked(t) \/ RecordViolation(t) \/ Reset(t)
          PROVE  checked'[i] + Cardinality(Verifying(i)') <= Len(admitted'[i])
      <3>1. UNCHANGED <<admitted, checked, client>>
        BY <2>4 DEF IsBlocked, ReadBlock, CheckBackoff, RecordViolation, AddViolation, LengthenBlock,
                    StampBlock, StoreBlock, Reset, PopViolations, PopBlock, history
      <3>2. pc[t] # "verify" /\ pc'[t] # "verify" /\ \A u \in Thread \ {t} : pc'[u] = pc[u]
        BY <2>4 DEF IsBlocked, ReadBlock, CheckBackoff, RecordViolation, AddViolation, LengthenBlock,
                    StampBlock, StoreBlock, Reset, PopViolations, PopBlock, At, TypeOK
      <3> QED
        BY <2>3, <3>1, <3>2
    <2>5. ASSUME NEW t \in Thread, LimiterRaises(t) \/ LogEvent(t) \/ IssueTokens(t)
          PROVE  checked'[i] + Cardinality(Verifying(i)') <= Len(admitted'[i])
      <3>1. UNCHANGED <<admitted, checked, client>>
        BY <2>5 DEF LimiterRaises, LogEvent, IssueTokens, history
      <3>2. pc[t] # "verify" /\ pc'[t] # "verify" /\ \A u \in Thread \ {t} : pc'[u] = pc[u]
        BY <2>5 DEF LimiterRaises, LogEvent, IssueTokens, At, TypeOK
      <3> QED
        BY <2>3, <3>1, <3>2
    <2>6. ASSUME NEW t \in Thread, ReadClock(t) \/ DropOne(t) \/ Count(t) \/ Refuse(t)
          PROVE  checked'[i] + Cardinality(Verifying(i)') <= Len(admitted'[i])
      <3>1. UNCHANGED <<admitted, checked, client>>
        BY <2>6 DEF ReadClock, DropOne, Count, Refuse, history
      <3>2. pc[t] # "verify" /\ pc'[t] # "verify" /\ \A u \in Thread \ {t} : pc'[u] = pc[u]
        BY <2>6 DEF ReadClock, DropOne, Count, Refuse, At, TypeOK
      <3> QED
        BY <2>3, <3>1, <3>2
    <2>7. ASSUME NEW t \in Thread, Admit(t)
          PROVE  checked'[i] + Cardinality(Verifying(i)') <= Len(admitted'[i])
      <3>1. /\ pc[t] = "append" /\ pc'[t] = "verify" /\ UNCHANGED <<client, checked>>
            /\ \A u \in Thread \ {t} : pc'[u] = pc[u]
            /\ admitted' = [admitted EXCEPT ![client[t]] = Append(@, held[t])]
        BY <2>7 DEF Admit, At, TypeOK
      <3>2. CASE client[t] = i
        <4>1. Verifying(i)' = Verifying(i) \cup {t} /\ t \notin Verifying(i)
          BY <3>1, <3>2 DEF Verifying
        <4>2. Cardinality(Verifying(i)') = n + 1
          BY <2>a, <4>1, VerifyingCount
        <4>3. admitted'[i] = Append(admitted[i], held[t]) /\ held[t] \in Int
          BY <3>1, <3>2 DEF TypeOK
        <4>4. Len(admitted'[i]) = Len(admitted[i]) + 1
          BY <2>a, <4>3
        <4> QED
          BY <2>0, <2>a, <2>b, <3>1, <4>2, <4>4
      <3>3. CASE client[t] # i
        <4>1. Verifying(i)' = Verifying(i) /\ admitted'[i] = admitted[i]
          BY <3>1, <3>3 DEF Verifying, TypeOK
        <4> QED
          BY <2>0, <3>1, <4>1
      <3> QED
        BY <3>2, <3>3
    <2>8. ASSUME NEW t \in Thread, VerifyCredentials(t)
          PROVE  checked'[i] + Cardinality(Verifying(i)') <= Len(admitted'[i])
      <3>1. /\ pc[t] = "verify" /\ UNCHANGED <<client, admitted>> /\ pc'[t] # "verify"
            /\ \A u \in Thread \ {t} : pc'[u] = pc[u]
            /\ checked' = [checked EXCEPT ![client[t]] = @ + 1]
        BY <2>8 DEF VerifyCredentials, At, TypeOK
      <3>2. CASE client[t] = i
        <4>1. Verifying(i)' = Verifying(i) \ {t} /\ t \in Verifying(i)
          BY <3>1, <3>2 DEF Verifying
        <4>2. Cardinality(Verifying(i)') = n - 1
          BY <2>a, <4>1, VerifyingCount
        <4>3. checked'[i] = checked[i] + 1
          BY <3>1, <3>2 DEF TypeOK
        <4> QED
          BY <2>0, <2>a, <2>b, <3>1, <4>2, <4>3
      <3>3. CASE client[t] # i
        <4>1. Verifying(i)' = Verifying(i) /\ checked'[i] = checked[i]
          BY <3>1, <3>3 DEF Verifying, TypeOK
        <4> QED
          BY <2>0, <3>1, <4>1
      <3> QED
        BY <3>2, <3>3
    <2>9. ASSUME NEW t \in Thread, DatabaseFails(t)
          PROVE  checked'[i] + Cardinality(Verifying(i)') <= Len(admitted'[i])
      <3>1. /\ pc'[t] = "idle" /\ UNCHANGED <<client, admitted, checked>>
            /\ \A u \in Thread \ {t} : pc'[u] = pc[u]
        BY <2>9 DEF DatabaseFails, At, history, TypeOK
      <3>2. CASE t \in Verifying(i)
        <4>1. Verifying(i)' = Verifying(i) \ {t}
          BY <3>1, <3>2 DEF Verifying
        <4>2. Cardinality(Verifying(i)') = n - 1
          BY <2>a, <3>2, <4>1, VerifyingCount
        <4> QED
          BY <2>0, <2>a, <2>b, <3>1, <4>2
      <3>3. CASE t \notin Verifying(i)
        <4>1. Verifying(i)' = Verifying(i)
          BY <3>1, <3>3 DEF Verifying
        <4> QED
          BY <2>1, <3>1, <4>1
      <3> QED
        BY <3>2, <3>3
    <2>10. CASE Tick \/ UNCHANGED vars
      BY <2>1, <2>10 DEF Tick, vars, history, thread, Verifying
    <2> QED
      BY <2>2, <2>4, <2>5, <2>6, <2>7, <2>8, <2>9, <2>10 DEF Next, Serve, Check
  <1> QED
    BY <1>1, <1>2, LoginGuardTyping, PTL DEF Spec

-----------------------------------------------------------------------------
(* The audit *)

\* A request that is being served has no answer yet, and one that is about to
\* get its tokens has written its row.
AuditInv ==
    /\ AnsweredAfterAudit
    /\ \A t \in Thread :
          /\ pc[t] # "idle" => reply[t] = "none"
          /\ pc[t] = "log" => event[t] \in Event
          /\ pc[t] = "issue" => event[t] = "login_success"

\* No login is answered with tokens, 401 or 429 before the row that says so is
\* committed, wherever the database fails (routes.py, _log_event).
THEOREM LoginAnsweredAfterAudit == Spec => []AnsweredAfterAudit
  <1>1. Init => AuditInv
    BY DEF Init, AuditInv, AnsweredAfterAudit
  <1>2. TypeOK /\ AuditInv /\ [Next]_vars => AuditInv'
    <2> SUFFICES ASSUME TypeOK, AuditInv, [Next]_vars
                 PROVE  AuditInv'
      OBVIOUS
    <2> USE DEF AuditInv, AnsweredAfterAudit
    \* A thread on its way to an answer that does not issue tokens next.
    <2>0. ASSUME NEW t \in Thread, pc[t] # "idle", pc'[t] \notin {"idle", "issue"},
                 pc'[t] = "log" => event'[t] \in Event, UNCHANGED <<reply, row>>,
                 \A u \in Thread \ {t} : pc'[u] = pc[u] /\ event'[u] = event[u]
          PROVE  AuditInv'
      BY <2>0
    <2>1. ASSUME NEW t \in Thread, NEW i \in IP, Arrive(t, i)
          PROVE  AuditInv'
      BY <2>1 DEF Arrive, At, TypeOK
    <2>2. ASSUME NEW t \in Thread, IsBlocked(t) \/ VerifyCredentials(t) \/ Check(t)
          PROVE  AuditInv'
      <3>1. /\ pc[t] # "idle" /\ pc'[t] \notin {"idle", "issue"}
            /\ \A u \in Thread \ {t} : pc'[u] = pc[u]
        BY <2>2 DEF IsBlocked, ReadBlock, CheckBackoff, VerifyCredentials, Check, ReadClock, DropOne,
                    Count, Refuse, Admit, At, TypeOK
      <3>2. /\ UNCHANGED <<reply, row>>
            /\ \A u \in Thread \ {t} : event'[u] = event[u]
        BY <2>2 DEF IsBlocked, ReadBlock, CheckBackoff, VerifyCredentials, Check, ReadClock, DropOne,
                    Count, Refuse, Admit, Happens, TypeOK
      <3>3. pc'[t] = "log" => event'[t] \in Event
        BY <2>2 DEF IsBlocked, ReadBlock, CheckBackoff, VerifyCredentials, Check, ReadClock, DropOne,
                    Count, Refuse, Admit, Happens, At, Event, TypeOK
      <3> QED
        BY <2>0, <3>1, <3>2, <3>3
    <2>3. ASSUME NEW t \in Thread, RecordViolation(t) \/ Reset(t)
          PROVE  AuditInv'
      <3>1. /\ pc[t] # "idle" /\ pc'[t] \notin {"idle", "issue"}
            /\ \A u \in Thread \ {t} : pc'[u] = pc[u]
        BY <2>3 DEF RecordViolation, AddViolation, LengthenBlock, StampBlock, StoreBlock, Reset,
                    PopViolations, PopBlock, At, TypeOK
      <3>2. /\ UNCHANGED <<reply, row>>
            /\ \A u \in Thread \ {t} : event'[u] = event[u]
        BY <2>3 DEF RecordViolation, AddViolation, LengthenBlock, StampBlock, StoreBlock, Reset,
                    PopViolations, PopBlock, Happens, TypeOK
      <3>3. pc'[t] = "log" => event'[t] \in Event
        BY <2>3 DEF RecordViolation, AddViolation, LengthenBlock, StampBlock, StoreBlock, Reset,
                    PopViolations, PopBlock, Happens, At, Event, TypeOK
      <3> QED
        BY <2>0, <3>1, <3>2, <3>3
    <2>4. ASSUME NEW t \in Thread, LogEvent(t)
          PROVE  AuditInv'
      <3>1. pc[t] = "log" /\ event[t] \in Event /\ reply[t] = "none"
        BY <2>4 DEF LogEvent, At
      <3>2. CASE event[t] = "login_success"
        BY <2>4, <3>1, <3>2 DEF LogEvent, At, TypeOK
      <3>3. CASE event[t] # "login_success"
        <4>1. /\ pc'[t] = "idle" /\ row'[t] = event[t] /\ reply'[t] = ReplyTo(event[t])
              /\ \A u \in Thread \ {t} : /\ pc'[u] = pc[u] /\ row'[u] = row[u]
                                          /\ reply'[u] = reply[u] /\ event'[u] = event[u]
          BY <2>4, <3>3 DEF LogEvent, At, Answer, TypeOK
        <4>2. event[t] # "none"
          BY <3>1 DEF Event
        <4> QED
          BY <4>1, <4>2
      <3> QED
        BY <3>2, <3>3
    <2>5. ASSUME NEW t \in Thread, DatabaseFails(t) \/ LimiterRaises(t)
          PROVE  AuditInv'
      <3>1. /\ pc'[t] = "idle" /\ reply'[t] = "500" /\ row' = row
            /\ \A u \in Thread \ {t} : pc'[u] = pc[u] /\ reply'[u] = reply[u] /\ event'[u] = event[u]
        BY <2>5 DEF DatabaseFails, LimiterRaises, At, Answer, TypeOK
      <3> QED
        BY <3>1
    <2>6. ASSUME NEW t \in Thread, IssueTokens(t)
          PROVE  AuditInv'
      <3>1. /\ pc[t] = "issue" /\ pc'[t] = "idle" /\ reply'[t] = ReplyTo(event[t]) /\ row' = row
            /\ \A u \in Thread \ {t} : pc'[u] = pc[u] /\ reply'[u] = reply[u] /\ event'[u] = event[u]
        BY <2>6 DEF IssueTokens, At, Answer, TypeOK
      <3>2. event[t] = "login_success" /\ row[t] = "login_success"
        BY <3>1
      <3> QED
        BY <3>1, <3>2
    <2>7. CASE Tick \/ UNCHANGED vars
      BY <2>7 DEF Tick, vars, thread
    <2> QED
      BY <2>1, <2>2, <2>3, <2>4, <2>5, <2>6, <2>7 DEF Next, Serve
  <1> QED
    BY <1>1, <1>2, LoginGuardTyping, PTL DEF Spec, AuditInv

=============================================================================
