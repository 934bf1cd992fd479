----------------------------- MODULE TokenBucket -----------------------------
(***************************************************************************)
(* TokenBucketLimiter (app/security/rate_limiter.py): per key the tokens   *)
(* that are left and the time they were counted.  Tokens are fractions in  *)
(* the code, and units here: One units make a token.  A call of check is a *)
(* step; no route shares a bucket between threads.                         *)
(***************************************************************************)
EXTENDS Integers, Sequences

CONSTANTS Key,
          One,       \* the units of a token
          Capacity,  \* capacity, in units
          Rate,      \* refill_rate, in units per tick
          MaxNow     \* bound on the clock

ASSUME TokenBucketAssumption ==
    /\ One \in Nat \ {0}
    /\ Capacity \in Nat /\ One <= Capacity
    /\ Rate \in Nat \ {0}
    /\ MaxNow \in Nat

VARIABLES now,
          buckets,  \* _buckets; a key that has none counts as full
          grants,   \* when each key has been granted a request
          answer    \* the result of the last check

vars == <<now, buckets, grants, answer>>

Init ==
    /\ now = 0
    /\ buckets = [k \in Key |-> [tokens |-> Capacity, last |-> 0]]
    /\ grants = [k \in Key |-> <<>>]
    /\ answer = [allowed |-> TRUE, retryAt |-> 0]

\* A bug: what came in while the bucket was full is kept.
BugOverflow(bucket) == bucket.tokens + (now - bucket.last) * Rate

\* What the bucket holds now: it refills up to its capacity.
Refilled(bucket) ==
    LET sum == bucket.tokens + (now - bucket.last) * Rate
    IN  IF sum < Capacity THEN sum ELSE Capacity

Grant(k) ==
    /\ Refilled(buckets[k]) >= One
    /\ buckets' = [buckets EXCEPT ![k] = [tokens |-> Refilled(@) - One, last |-> now]]
    /\ grants' = [grants EXCEPT ![k] = Append(@, now)]
    /\ answer' = [allowed |-> TRUE, retryAt |-> now]

\* retry_after is the deficit divided by the rate, here in whole ticks.
Refuse(k) ==
    LET deficit == One - Refilled(buckets[k])
    IN  /\ deficit > 0
        /\ buckets' = [buckets EXCEPT ![k] = [tokens |-> Refilled(@), last |-> now]]
        /\ \E ticks \in 1 .. One :
              /\ (ticks - 1) * Rate < deficit /\ deficit <= ticks * Rate
              /\ answer' = [allowed |-> FALSE, retryAt |-> now + ticks]
        /\ UNCHANGED grants

Check(k) == (Grant(k) \/ Refuse(k)) /\ UNCHANGED now

Tick ==
    /\ now < MaxNow
    /\ now' = now + 1
    /\ UNCHANGED <<buckets, grants, answer>>

Next == (\E k \in Key : Check(k)) \/ Tick

Spec == Init /\ [][Next]_vars

-----------------------------------------------------------------------------

(* The bucket keeps the allowance: from one number and one time per key it *)
(* grants what the whole history of grants allows, refuses nothing else,   *)
(* and the retry time it gives is the first at which a request is granted  *)
(* ("a refillable allowance that smooths bursts", module docstring).       *)
Promise == INSTANCE Allowance WITH
    Key <- Key, One <- One, Capacity <- Capacity, Rate <- Rate, MaxNow <- MaxNow,
    now <- now, grants <- grants, answer <- answer

KeepsAllowance == Promise!Spec

=============================================================================
