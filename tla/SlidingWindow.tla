---------------------------- MODULE SlidingWindow ----------------------------
(***************************************************************************)
(* SlidingWindowLimiter.check (app/security/rate_limiter.py) between       *)
(* threads, for one key.  Nothing is locked: a call gives way where        *)
(* CPython 3.12 switches threads, after each call it makes, to the clock,  *)
(* to popleft, to len.  LoginGuard makes these calls and implements this.  *)
(***************************************************************************)
EXTENDS Integers, Sequences, FiniteSets

CONSTANTS
    Thread,
    MaxRequests,  \* max_requests
    Window,       \* window_seconds, in ticks
    MaxNow        \* bound on the clock

VARIABLES
    now,
    window,   \* _requests[key]
    pc,       \* the next step of each thread
    seen,     \* its now; 0 outside of the call
    admitted  \* the nows of the calls that were allowed, as they were appended

vars == <<now, window, pc, seen, admitted>>

Init ==
    /\ now = 0
    /\ window = <<>>
    /\ pc = [t \in Thread |-> "idle"]
    /\ seen = [t \in Thread |-> 0]
    /\ admitted = <<>>

At(t, step, next) == pc[t] = step /\ pc' = [pc EXCEPT ![t] = next]

\* The oldest entry has left the window that thread t looks at.
Aged(t) == window # <<>> /\ Head(window) <= seen[t] - Window

ReadClock(t) ==
    /\ At(t, "idle", "drop")
    /\ seen' = [seen EXCEPT ![t] = now]
    /\ UNCHANGED <<now, window, admitted>>

DropOne(t) ==
    /\ At(t, "drop", "drop")
    /\ Aged(t)
    /\ window' = Tail(window)
    /\ UNCHANGED <<now, seen, admitted>>

\* A bug: the bound is one off.
BugOneMore(t) ==
    /\ At(t, "drop", IF Len(window) > MaxRequests THEN "refuse" ELSE "append")
    /\ ~Aged(t)
    /\ UNCHANGED <<now, window, seen, admitted>>

\* The loop ends and the length is taken.
Count(t) ==
    /\ At(t, "drop", IF Len(window) >= MaxRequests THEN "refuse" ELSE "append")
    /\ ~Aged(t)
    /\ UNCHANGED <<now, window, seen, admitted>>

\* retry_after is made from window[0].  That other threads have emptied the
\* window meanwhile is an IndexError, and ends the call as well.
Refuse(t) ==
    /\ At(t, "refuse", "idle")
    /\ seen' = [seen EXCEPT ![t] = 0]
    /\ UNCHANGED <<now, window, admitted>>

Admit(t) ==
    /\ At(t, "append", "idle")
    /\ window' = Append(window, seen[t])
    /\ admitted' = Append(admitted, seen[t])
    /\ seen' = [seen EXCEPT ![t] = 0]
    /\ UNCHANGED now

Tick ==
    /\ now < MaxNow
    /\ now' = now + 1
    /\ UNCHANGED <<window, pc, seen, admitted>>

Check(t) == ReadClock(t) \/ DropOne(t) \/ Count(t) \/ Refuse(t) \/ Admit(t)

Next == (\E t \in Thread : Check(t)) \/ Tick

Spec == Init /\ [][Next]_vars

-----------------------------------------------------------------------------

Since(at) == {i \in DOMAIN admitted : admitted[i] > at}

(* "At most N requests in the last T seconds" (module docstring) holds     *)
(* between threads but for two requests per further thread, one that       *)
(* counted before another appended and one whose time was a window old     *)
(* when it counted; and a request is refused only if its window is full    *)
(* but for one request per further thread, whose late append keeps newer   *)
(* times in front of its own.                                              *)
OffByThreadsOnly ==
    LET others == Cardinality(Thread) - 1
    IN  /\ \A at \in 0 .. now :
              Cardinality(Since(at - Window) \ Since(at)) <= MaxRequests + 2 * others
        /\ \A t \in Thread :
              pc[t] = "refuse" => Cardinality(Since(seen[t] - Window)) >= MaxRequests - others

=============================================================================
