------------------------------ MODULE Allowance ------------------------------
(***************************************************************************)
(* What a limiter with a refillable allowance promises its callers, with   *)
(* no bucket in sight: over every stretch of time a key is granted at most *)
(* what it could have saved up plus what came in meanwhile, nothing that   *)
(* fits is refused, and a refusal names the first moment that fits.        *)
(***************************************************************************)
EXTENDS Integers, Sequences

CONSTANTS Key,
          One,       \* the units of a token
          Capacity,  \* units a key can save up
          Rate,      \* units that come in with a tick
          MaxNow     \* bound on the clock

VARIABLES now,
          grants,  \* when each key has been granted a request
          answer   \* the result of the last check

vars == <<now, grants, answer>>

\* No grants of times cost more than was saved up and came in between them.
Within(times) ==
    \A i, j \in DOMAIN times :
        i <= j => (j - i + 1) * One <= Capacity + Rate * (times[j] - times[i])

Fits(k, t) == Within(Append(grants[k], t))

NoAnswer == [allowed |-> TRUE, retryAt |-> 0]

Init ==
    /\ now = 0
    /\ grants = [k \in Key |-> <<>>]
    /\ answer = NoAnswer

Grant(k) ==
    /\ Fits(k, now)
    /\ grants' = [grants EXCEPT ![k] = Append(@, now)]
    /\ answer' = [allowed |-> TRUE, retryAt |-> now]
    /\ UNCHANGED now

Refuse(k) ==
    /\ \E retryAt \in (now + 1) .. (now + One) :
          /\ Fits(k, retryAt)
          /\ \A t \in now .. (retryAt - 1) : ~Fits(k, t)
          /\ answer' = [allowed |-> FALSE, retryAt |-> retryAt]
    /\ UNCHANGED <<now, grants>>

Tick ==
    /\ now < MaxNow
    /\ now' = now + 1
    /\ UNCHANGED <<grants, answer>>

Next == (\E k \in Key : Grant(k) \/ Refuse(k)) \/ Tick

Spec == Init /\ [][Next]_vars

=============================================================================
