----------------------------- MODULE LoginGuard -----------------------------
(***************************************************************************)
(* The login endpoint of app/auth/routes.py together with the two limiters *)
(* that guard it (app/security/rate_limiter.py).  FastAPI runs the         *)
(* synchronous handler on a pool of threads, so several requests of one    *)
(* address are in flight at once.  Nothing of the limiters is locked: a    *)
(* thread gives way to the others after every call it makes, also to the   *)
(* clock, to popleft or to len, and after every statement that touches a   *)
(* dictionary the threads share.                                           *)
(***************************************************************************)
EXTENDS Integers, Sequences, FiniteSets

CONSTANTS
    IP,           \* client addresses
    Thread,       \* worker threads that run the handler
    MaxRequests,  \* max_requests of login_limiter
    Window,       \* its window_seconds
    BackoffBase,  \* base_seconds of login_backoff
    MaxBlock,     \* its max_seconds
    MaxExponent,  \* the last power of two that is a float: 1023
    MaxNow,       \* bound on the clock
    Watched       \* the address whose deque is compared with SlidingWindow: any

ASSUME LoginGuardAssumption ==
    /\ IsFiniteSet(Thread)
    /\ MaxRequests \in Nat /\ Window \in Nat
    /\ BackoffBase \in Nat \ {0} /\ MaxBlock \in Nat \ {0}
    /\ MaxExponent \in Nat
    /\ MaxNow \in Nat
    /\ Watched \in IP

VARIABLES
    now,           \* time.monotonic()
    requests,      \* login_limiter._requests: per address, the deque of times
    violations,    \* login_backoff._violations; an absent key counts 0
    blockedUntil,  \* login_backoff._blocked_until; an absent key is 0
    pc,            \* the step each thread takes next
    client,        \* the address of the request a thread serves
    held,          \* the time or span a limiter's method keeps between two steps
    event,         \* the audit event of the request a thread serves
    row,           \* the audit event committed for a thread's request
    reply,         \* the answer to a thread's last request
    admitted,      \* history: the times of all requests let through, per address
    checked,       \* history: how many credentials were checked, per address
    crossed        \* history: whose reset overlapped the recording of a violation

limits == <<requests, violations, blockedUntil>>
thread == <<pc, client, held, event, row, reply>>
history == <<admitted, checked, crossed>>
vars == <<now, limits, thread, history>>

Event == {"login_blocked", "login_rate_limited", "login_failed", "login_success"}
Reply == {"none", "200", "401", "429", "500"}

\* The steps within SlidingWindowLimiter.check, record_violation and reset.
Sifting == {"drop", "refuse", "append"}
Recording == {"lengthen", "stamp", "block"}
Step == {"idle", "gate", "compare", "window", "penalty", "verify", "reset",
         "unblock", "log", "issue"} \cup Sifting \cup Recording

\* The status a handler answers with once its audit row is written.
ReplyTo(e) ==
    IF e = "login_success" THEN "200"
    ELSE IF e = "login_failed" THEN "401" ELSE "429"

\* How long the block lasts after the v-th violation.
BlockSeconds(v) ==
    LET doubled == BackoffBase * 2^v
    IN  IF doubled < MaxBlock THEN doubled ELSE MaxBlock

Init ==
    /\ now = 0
    /\ requests = [i \in IP |-> <<>>]
    /\ violations = [i \in IP |-> 0]
    /\ blockedUntil = [i \in IP |-> 0]
    /\ pc = [t \in Thread |-> "idle"]
    /\ client \in [Thread -> IP]
    /\ held = [t \in Thread |-> 0]
    /\ event = [t \in Thread |-> "none"]
    /\ row = [t \in Thread |-> "none"]
    /\ reply = [t \in Thread |-> "none"]
    /\ admitted = requests
    /\ checked = violations
    /\ crossed = [i \in IP |-> FALSE]

At(t, step, next) == pc[t] = step /\ pc' = [pc EXCEPT ![t] = next]

Hold(t, time) == held' = [held EXCEPT ![t] = time]

Happens(t, e) == event' = [event EXCEPT ![t] = e]

\* The handler ends with this answer, and its locals with it.
Answer(t, status) ==
    /\ reply' = [reply EXCEPT ![t] = status]
    /\ held' = [held EXCEPT ![t] = 0]
    /\ event' = [event EXCEPT ![t] = "none"]

\* Thread t is in the middle of record_violation(i).
Records(t, i) == client[t] = i /\ pc[t] \in Recording

\* The oldest entry has left the window that thread t looks at.
Aged(t) ==
    LET window == requests[client[t]]
    IN  window # <<>> /\ Head(window) <= held[t] - Window

-----------------------------------------------------------------------------
(* Slips of a maintainer that the properties must notice: each stands in   *)
(* for the action of the same purpose in a mutated model.                  *)

\* The gate is left open.
BugPassGate(t) ==
    /\ At(t, "compare", "window")
    /\ Hold(t, 0)
    /\ UNCHANGED <<now, limits, client, event, row, reply, history>>

\* The handler waits for the block to end instead of answering 429.
BugWaitOutBlock(t) == now >= held[t] /\ BugPassGate(t)

\* A timestamp leaves the window a tick early.
BugDropsEarly(t) ==
    LET i == client[t]
    IN  /\ At(t, "drop", "drop")
        /\ requests[i] # <<>> /\ Head(requests[i]) <= held[t] - Window + 1
        /\ requests' = [requests EXCEPT ![i] = Tail(@)]
        /\ UNCHANGED <<now, violations, blockedUntil, client, held, event, row, reply, history>>

\* A wrong password is asked for again within the same request.
BugAskAgain(t) ==
    /\ At(t, "verify", "verify")
    /\ checked' = [checked EXCEPT ![client[t]] = @ + 1]
    /\ UNCHANGED <<now, limits, client, held, event, row, reply, admitted, crossed>>

\* A success pays off one violation, also one that was never recorded.
BugPayOffOne(t) ==
    /\ At(t, "reset", "unblock")
    /\ violations' = [violations EXCEPT ![client[t]] = @ - 1]
    /\ UNCHANGED <<now, requests, blockedUntil, client, held, event, row, reply, history>>

\* A success leaves the block.
BugLeavesBlock(t) ==
    /\ At(t, "unblock", "log")
    /\ Happens(t, "login_success")
    /\ UNCHANGED <<now, limits, client, held, row, reply, history>>

\* Auditing is best effort: the answer goes out although the row is lost.
BugAuditBestEffort(t) ==
    /\ At(t, "log", "idle")
    /\ Answer(t, ReplyTo(event[t]))
    /\ UNCHANGED <<now, limits, client, row, history>>

-----------------------------------------------------------------------------

\* A thread takes up a new request.
Arrive(t, i) ==
    /\ At(t, "idle", "gate")
    /\ client' = [client EXCEPT ![t] = i]
    /\ row' = [row EXCEPT ![t] = "none"]
    /\ reply' = [reply EXCEPT ![t] = "none"]
    /\ UNCHANGED <<now, limits, held, event, history>>

-----------------------------------------------------------------------------
(* login_backoff.is_blocked(ip) *)

ReadBlock(t) ==
    /\ At(t, "gate", "compare")
    /\ Hold(t, blockedUntil[client[t]])
    /\ UNCHANGED <<now, limits, client, event, row, reply, history>>

\* The clock is read after the block was.
CheckBackoff(t) ==
    /\ \/ /\ now < held[t]
          /\ At(t, "compare", "log")
          /\ Happens(t, "login_blocked")
       \/ /\ now >= held[t]
          /\ At(t, "compare", "window")
          /\ UNCHANGED event
    /\ Hold(t, 0)
    /\ UNCHANGED <<now, limits, client, row, reply, history>>

-----------------------------------------------------------------------------
(* login_limiter.check(ip) *)

ReadClock(t) ==
    /\ At(t, "window", "drop")
    /\ Hold(t, now)
    /\ UNCHANGED <<now, limits, client, event, row, reply, history>>

DropOne(t) ==
    /\ At(t, "drop", "drop")
    /\ Aged(t)
    /\ requests' = [requests EXCEPT ![client[t]] = Tail(@)]
    /\ UNCHANGED <<now, violations, blockedUntil, client, held, event, row, reply, history>>

\* The loop ends and the length is taken.
Count(t) ==
    /\ At(t, "drop", IF Len(requests[client[t]]) >= MaxRequests THEN "refuse" ELSE "append")
    /\ ~Aged(t)
    /\ UNCHANGED <<now, limits, client, held, event, row, reply, history>>

\* retry_after is made from window[0].
Refuse(t) ==
    /\ At(t, "refuse", "penalty")
    /\ requests[client[t]] # <<>>
    /\ Hold(t, 0)
    /\ UNCHANGED <<now, limits, client, event, row, reply, history>>

Admit(t) ==
    LET i == client[t]
    IN  /\ At(t, "append", "verify")
        /\ requests' = [requests EXCEPT ![i] = Append(@, held[t])]
        /\ admitted' = [admitted EXCEPT ![i] = Append(@, held[t])]
        /\ Hold(t, 0)
        /\ UNCHANGED <<now, violations, blockedUntil, client, event, row, reply, checked, crossed>>

-----------------------------------------------------------------------------
(* login_backoff.record_violation(ip) *)

\* Beyond MaxExponent all counts do the same, and one stands for them.
AddViolation(t) ==
    /\ At(t, "penalty", "lengthen")
    /\ violations' = [violations EXCEPT ![client[t]] = IF @ > MaxExponent THEN @ ELSE @ + 1]
    /\ UNCHANGED <<now, requests, blockedUntil, client, held, event, row, reply, history>>

\* The violations are read again: another thread's reset may have popped them.
LengthenBlock(t) ==
    LET v == violations[client[t]]
    IN  /\ At(t, "lengthen", "stamp")
        /\ v <= MaxExponent
        /\ Hold(t, BlockSeconds(v))
        /\ UNCHANGED <<now, limits, client, event, row, reply, history>>

StampBlock(t) ==
    /\ At(t, "stamp", "block")
    /\ Hold(t, now + held[t])
    /\ UNCHANGED <<now, limits, client, event, row, reply, history>>

StoreBlock(t) ==
    /\ At(t, "block", "log")
    /\ blockedUntil' = [blockedUntil EXCEPT ![client[t]] = held[t]]
    /\ Happens(t, "login_rate_limited")
    /\ Hold(t, 0)
    /\ UNCHANGED <<now, requests, violations, client, row, reply, history>>

\* window[0] of a deque that another thread has emptied since it was counted
\* is an IndexError, and a power of two beyond the floats an OverflowError: the
\* request dies with a 500, its violation, if it had one, is kept and no block set.
LimiterRaises(t) ==
    /\ \/ At(t, "refuse", "idle") /\ requests[client[t]] = <<>>
       \/ At(t, "lengthen", "idle") /\ violations[client[t]] > MaxExponent
    /\ Answer(t, "500")
    /\ UNCHANGED <<now, limits, client, row, history>>

-----------------------------------------------------------------------------
(* The credentials; login_backoff.reset(ip); the audit row; the tokens *)

\* The user is looked up and the password verified; it is right or wrong.
VerifyCredentials(t) ==
    /\ \/ /\ At(t, "verify", "log")
          /\ Happens(t, "login_failed")
       \/ /\ At(t, "verify", "reset")
          /\ UNCHANGED event
    /\ checked' = [checked EXCEPT ![client[t]] = @ + 1]
    /\ UNCHANGED <<now, limits, client, held, row, reply, admitted, crossed>>

PopViolations(t) ==
    LET i == client[t]
    IN  /\ At(t, "reset", "unblock")
        /\ violations' = [violations EXCEPT ![i] = 0]
        /\ crossed' = [crossed EXCEPT ![i] = @ \/ \E u \in Thread : Records(u, i)]
        /\ UNCHANGED <<now, requests, blockedUntil, client, held, event, row, reply, admitted, checked>>

PopBlock(t) ==
    LET i == client[t]
    IN  /\ At(t, "unblock", "log")
        /\ blockedUntil' = [blockedUntil EXCEPT ![i] = 0]
        /\ Happens(t, "login_success")
        /\ crossed' = [crossed EXCEPT ![i] = @ /\ \E u \in Thread : Records(u, i)]
        /\ UNCHANGED <<now, requests, violations, client, held, row, reply, admitted, checked>>

\* _log_event: the audit row is committed; every answer but 200 follows it.
LogEvent(t) ==
    /\ \/ /\ event[t] = "login_success"
          /\ At(t, "log", "issue")
          /\ UNCHANGED <<reply, held, event>>
       \/ /\ event[t] # "login_success"
          /\ At(t, "log", "idle")
          /\ Answer(t, ReplyTo(event[t]))
    /\ row' = [row EXCEPT ![t] = event[t]]
    /\ UNCHANGED <<now, limits, client, history>>

\* The database raises (the file is locked by the honeypot's process, say), on
\* the query, on the commit or when the commit's expired user is read again:
\* the request dies with a 500, and nothing it did to the limiters is undone.
DatabaseFails(t) ==
    /\ \E step \in {"verify", "log", "issue"} : At(t, step, "idle")
    /\ Answer(t, "500")
    /\ UNCHANGED <<now, limits, client, row, history>>

\* create_token_pair, and the 200 that carries the tokens.
IssueTokens(t) ==
    /\ At(t, "issue", "idle")
    /\ Answer(t, ReplyTo(event[t]))
    /\ UNCHANGED <<now, limits, client, row, history>>

Tick ==
    /\ now < MaxNow
    /\ now' = now + 1
    /\ UNCHANGED <<limits, thread, history>>

IsBlocked(t) == ReadBlock(t) \/ CheckBackoff(t)
Check(t) == ReadClock(t) \/ DropOne(t) \/ Count(t) \/ Refuse(t) \/ Admit(t)
RecordViolation(t) ==
    AddViolation(t) \/ LengthenBlock(t) \/ StampBlock(t) \/ StoreBlock(t)
Reset(t) == PopViolations(t) \/ PopBlock(t)

Serve(t) ==
    \/ IsBlocked(t)
    \/ Check(t)
    \/ RecordViolation(t)
    \/ LimiterRaises(t)
    \/ VerifyCredentials(t)
    \/ Reset(t)
    \/ LogEvent(t)
    \/ DatabaseFails(t)
    \/ IssueTokens(t)

Next ==
    \/ \E t \in Thread, i \in IP : Arrive(t, i)
    \/ \E t \in Thread : Serve(t)
    \/ Tick

Spec == Init /\ [][Next]_vars

\* The thread pool runs every handler it has started to its end.
FairSpec == Spec /\ \A t \in Thread : WF_vars(Serve(t))

-----------------------------------------------------------------------------

TypeOK ==
    /\ now \in Nat
    /\ requests \in [IP -> Seq(Int)]
    /\ violations \in [IP -> Nat]
    /\ blockedUntil \in [IP -> Int]
    /\ pc \in [Thread -> Step]
    /\ client \in [Thread -> IP]
    /\ held \in [Thread -> Int]
    /\ event \in [Thread -> Event \cup {"none"}]
    /\ row \in [Thread -> Event \cup {"none"}]
    /\ reply \in [Thread -> Reply]
    /\ admitted \in [IP -> Seq(Int)]
    /\ checked \in [IP -> Nat]
    /\ crossed \in [IP -> BOOLEAN]

\* Thread t is within login_limiter.check(Watched).
Sifts(t) == client[t] = Watched /\ pc[t] \in Sifting

Sliding == INSTANCE SlidingWindow WITH
    window <- requests[Watched],
    admitted <- admitted[Watched],
    pc <- [t \in Thread |-> IF Sifts(t) THEN pc[t] ELSE "idle"],
    seen <- [t \in Thread |-> IF Sifts(t) THEN held[t] ELSE 0]

(* The login's limiter implements the limiter of SlidingWindow: whatever   *)
(* blocks, resets, failing commits and other addresses do in between, the  *)
(* deque of an address changes by the steps of check alone, each on what   *)
(* its thread has seen, so that the bounds of that module hold for logins. *)
WindowIsSliding == Sliding!Spec

\* The violations of address i are worth a block of so many seconds.
Worth(seconds, i) == \E v \in 1..violations[i] : seconds <= BlockSeconds(v)

(* No block reaches further than MaxBlock; and an address that no thread   *)
(* is popping carries no block without violations, and none longer than    *)
(* its violations justify, unless a reset overlapped the recording of a    *)
(* violation: then the tracker's two dictionaries may disagree until the   *)
(* next reset that overlaps none.                                          *)
PenaltyCoherent ==
    \A i \in IP :
        /\ blockedUntil[i] <= now + MaxBlock
        /\ ~crossed[i] /\ (\A t \in Thread : client[t] = i => pc[t] # "unblock") =>
              blockedUntil[i] = 0 \/ Worth(blockedUntil[i] - now, i)

(* Every credential check was paid for with a slot of the window, one      *)
(* each: the checks made and those about to be made never outnumber the    *)
(* requests the limiter let through.  No interleaving lets a request reach *)
(* verify_password on another one's slot, or without any.                  *)
ChecksArePaidFor ==
    \A i \in IP :
        checked[i] + Cardinality({t \in Thread : client[t] = i /\ pc[t] = "verify"})
            <= Len(admitted[i])

(* No answer overtakes its audit row: a login that was answered with       *)
(* tokens, with 401 or with 429 has the matching row committed, and one    *)
(* that is about to get tokens has its login_success row.                  *)
AnsweredAfterAudit ==
    \A t \in Thread :
        /\ reply[t] \in {"200", "401", "429"} =>
              row[t] # "none" /\ reply[t] = ReplyTo(row[t])
        /\ pc[t] = "issue" => row[t] = "login_success"

\* An address serves a penalty and none of its requests is past the gate, or
\* about to pass it on what it read before the penalty.
Quiet(i) ==
    /\ now < blockedUntil[i]
    /\ \A t \in Thread : client[t] = i =>
          \/ pc[t] \in {"idle", "gate", "log", "issue"}
          \/ pc[t] = "compare" /\ held[t] >= blockedUntil[i]

(* A penalty freezes its address: from the moment the requests that were   *)
(* past the gate are gone, no slot is consumed, no violation added, the    *)
(* block neither grows nor shrinks and nothing gets past the gate again    *)
(* before the block has run out.  Attempts made while blocked are free.    *)
PenaltyFreezesClient ==
    [][\A i \in IP : Quiet(i) =>
          /\ UNCHANGED <<requests[i], violations[i], blockedUntil[i]>>
          /\ now' < blockedUntil[i] => Quiet(i)']_vars

(* Whatever the limiters and the database do, a handler that was started   *)
(* gives its client an answer.                                             *)
EveryLoginAnswered ==
    \A t \in Thread : pc[t] = "gate" ~> (pc[t] = "idle" /\ reply[t] # "none")

=============================================================================
