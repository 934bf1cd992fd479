--------------------------- MODULE Workers_proofs ---------------------------
(***************************************************************************)
(* Proofs about the components that MCWorkers runs one of: what is proved  *)
(* of a component holds for every number of keys, threads, callers, users  *)
(* and requests, for every payload and every safe prime, and of the run.   *)
(***************************************************************************)
EXTENDS MCWorkers, FiniteSetTheorems, SequenceTheorems, WellFoundedInduction, TLAPS

-----------------------------------------------------------------------------
(* The token bucket implements the allowance.  A bucket keeps one number   *)
(* and one time; the allowance is a condition on all pairs of grants.  The *)
(* invariant that joins them says that the number is the least of what the *)
(* allowance has left since any one of the grants, or the capacity.        *)

\* What comes in over a number of ticks, and what a number of grants costs;
\* the laws of the two are all that is used of the products.
Income(ticks) == Rate * ticks
Cost(n) == n * One

\* What the allowance since grant i of times has left at time t.
LeftSince(times, i, t) ==
    Capacity + Income(t - times[i]) - Cost(Len(times) - i + 1)

\* What a bucket holds at time t.
Left(bucket, t) ==
    LET sum == bucket.tokens + Income(t - bucket.last)
    IN  IF sum < Capacity THEN sum ELSE Capacity

Bucket == [tokens : 0 .. Capacity, last : Nat]

Exact(bucket, times) ==
    /\ \A i \in DOMAIN times : bucket.tokens <= LeftSince(times, i, bucket.last)
    /\ \/ bucket.tokens = Capacity
       \/ \E i \in DOMAIN times : bucket.tokens = LeftSince(times, i, bucket.last)

BucketTyped ==
    /\ now \in Nat
    /\ buckets \in [Key -> Bucket]
    /\ grants \in [Key -> Seq(Nat)]

BucketInv ==
    /\ BucketTyped
    /\ \A k \in Key :
          /\ buckets[k].last <= now
          /\ Promise!Within(grants[k])
          /\ Exact(buckets[k], grants[k])

-----------------------------------------------------------------------------
(* Arithmetic *)

LEMMA BucketConstants == One \in Nat /\ Capacity \in Nat /\ Rate \in Nat /\ One <= Capacity
BY TokenBucketAssumption

LEMMA IncomeType == \A a \in Int : Income(a) \in Int
BY BucketConstants DEF Income

LEMMA IncomeNat == \A a \in Nat : Income(a) \in Nat
BY BucketConstants DEF Income

LEMMA IncomeAdds == \A a, b \in Int : Income(a + b) = Income(a) + Income(b)
BY BucketConstants DEF Income

LEMMA CostType == \A n \in Int : Cost(n) \in Int
BY BucketConstants DEF Cost

LEMMA CostAdds == \A n \in Int : Cost(n + 1) = Cost(n) + One
BY BucketConstants DEF Cost

LEMMA ZeroAndOne == Income(0) = 0 /\ Cost(1) = One
BY BucketConstants DEF Income, Cost

LEMMA EntryType ==
    ASSUME NEW times \in Seq(Nat), NEW i \in DOMAIN times
    PROVE  times[i] \in Nat /\ i \in Nat /\ Len(times) \in Nat /\ i <= Len(times)
OBVIOUS

LEMMA LeftSinceType ==
    ASSUME NEW times \in Seq(Nat), NEW i \in DOMAIN times, NEW t \in Int
    PROVE  LeftSince(times, i, t) \in Int
<1>1. t - times[i] \in Int /\ Len(times) - i + 1 \in Int
  BY EntryType
<1>2. Income(t - times[i]) \in Int /\ Cost(Len(times) - i + 1) \in Int
  BY <1>1, IncomeType, CostType
<1>. QED BY <1>2, BucketConstants DEF LeftSince

LEMMA LeftSinceLater ==
    ASSUME NEW times \in Seq(Nat), NEW i \in DOMAIN times, NEW t \in Int, NEW u \in Int
    PROVE  LeftSince(times, i, u) = LeftSince(times, i, t) + Income(u - t)
<1>1. /\ t - times[i] \in Int /\ u - t \in Int /\ Len(times) - i + 1 \in Int
      /\ u - times[i] = (t - times[i]) + (u - t)
  BY EntryType
<1>2. Income(u - times[i]) = Income(t - times[i]) + Income(u - t)
  BY <1>1, IncomeAdds
<1>3. /\ Income(t - times[i]) \in Int /\ Income(u - t) \in Int
      /\ Cost(Len(times) - i + 1) \in Int
  BY <1>1, IncomeType, CostType
<1>. QED BY <1>2, <1>3, BucketConstants DEF LeftSince

\* A further grant costs a token of what is left since each of the others.
LEMMA LeftSinceAppend ==
    ASSUME NEW times \in Seq(Nat), NEW t \in Nat
    PROVE  /\ \A i \in DOMAIN times :
                 LeftSince(Append(times, t), i, t) = LeftSince(times, i, t) - One
           /\ LeftSince(Append(times, t), Len(times) + 1, t) = Capacity - One
<1>. DEFINE more == Append(times, t)
<1>1. Len(more) = Len(times) + 1 /\ Len(times) \in Nat
  OBVIOUS
<1>2. ASSUME NEW i \in DOMAIN times
      PROVE  LeftSince(more, i, t) = LeftSince(times, i, t) - One
  <2>1. /\ more[i] = times[i] /\ t - times[i] \in Int /\ Len(times) - i + 1 \in Int
        /\ Len(more) - i + 1 = (Len(times) - i + 1) + 1
    <3>1. more[i] = times[i]
      OBVIOUS
    <3>. QED BY <1>1, <3>1, EntryType
  <2>. HIDE DEF more
  <2>2. Cost(Len(more) - i + 1) = Cost(Len(times) - i + 1) + One
    BY <2>1, CostAdds
  <2>3. Income(t - times[i]) \in Int /\ Cost(Len(times) - i + 1) \in Int
    BY <2>1, IncomeType, CostType
  <2>. QED BY <2>1, <2>2, <2>3, BucketConstants DEF LeftSince
<1>3. LeftSince(more, Len(times) + 1, t) = Capacity - One
  <2>1. t - more[Len(times) + 1] = 0 /\ Len(more) - (Len(times) + 1) + 1 = 1
    OBVIOUS
  <2>. HIDE DEF more
  <2>. QED BY <2>1, ZeroAndOne, BucketConstants DEF LeftSince
<1>. QED BY <1>2, <1>3

-----------------------------------------------------------------------------
(* One bucket and the history of its grants *)

LEMMA LeftType ==
    ASSUME NEW b \in Bucket, NEW t \in Int, b.last <= t
    PROVE  Left(b, t) \in 0 .. Capacity
<1>1. t - b.last \in Nat /\ b.tokens \in 0 .. Capacity
  BY DEF Bucket
<1>2. Income(t - b.last) \in Nat
  BY <1>1, IncomeNat
<1>. QED BY <1>1, <1>2, BucketConstants DEF Left

\* An exact bucket stays exact when it is counted again.
LEMMA RefillExact ==
    ASSUME NEW b \in Bucket, NEW times \in Seq(Nat), Exact(b, times),
           NEW t \in Int, b.last <= t
    PROVE  /\ \A i \in DOMAIN times : Left(b, t) <= LeftSince(times, i, t)
           /\ \/ Left(b, t) = Capacity
              \/ \E i \in DOMAIN times : Left(b, t) = LeftSince(times, i, t)
<1>. DEFINE income == Income(t - b.last)
<1>1. b.last \in Int /\ b.tokens \in 0 .. Capacity /\ income \in Nat
  <2>1. t - b.last \in Nat /\ b.last \in Int /\ b.tokens \in 0 .. Capacity
    BY DEF Bucket
  <2>. QED BY <2>1, IncomeNat
<1>2. \A i \in DOMAIN times :
         /\ LeftSince(times, i, b.last) \in Int
         /\ LeftSince(times, i, t) = LeftSince(times, i, b.last) + income
  BY <1>1, LeftSinceType, LeftSinceLater
<1>3. Left(b, t) = IF b.tokens + income < Capacity THEN b.tokens + income ELSE Capacity
  BY DEF Left
<1>. HIDE DEF income
<1>. QED BY <1>1, <1>2, <1>3, BucketConstants DEF Exact

\* The last of the grants meets the allowance if it does so with each before it.
LEMMA WithinAppend ==
    ASSUME NEW times \in Seq(Nat), Promise!Within(times), NEW t \in Nat
    PROVE  Promise!Within(Append(times, t))
              <=> \A i \in DOMAIN times : One <= LeftSince(times, i, t)
<1>. DEFINE more == Append(times, t)
            n == Len(times)
            Pair(s, i, j) == Cost(j - i + 1) <= Capacity + Income(s[j] - s[i])
<1>1. /\ n \in Nat /\ DOMAIN times = 1 .. n /\ DOMAIN more = 1 .. n + 1
      /\ more[n + 1] = t /\ \A i \in 1 .. n : more[i] = times[i] /\ times[i] \in Nat
  OBVIOUS
<1>2. \A s : Promise!Within(s) <=> \A i, j \in DOMAIN s : i <= j => Pair(s, i, j)
  BY DEF Promise!Within, Cost, Income
<1>. HIDE DEF more
<1>3. ASSUME NEW i \in 1 .. n, NEW j \in 1 .. n, i <= j
      PROVE  Pair(more, i, j)
  <2>1. Pair(times, i, j)
    BY <1>1, <1>2, <1>3
  <2>. QED BY <1>1, <2>1
<1>4. ASSUME NEW i \in 1 .. n
      PROVE  Pair(more, i, n + 1) <=> One <= LeftSince(times, i, t)
  <2>1. /\ n - i + 1 \in Int /\ n + 1 - i + 1 = (n - i + 1) + 1
        /\ t - times[i] \in Int /\ more[n + 1] - more[i] = t - times[i]
    BY <1>1
  <2>2. Cost(n + 1 - i + 1) = Cost(n - i + 1) + One
    BY <2>1, CostAdds
  <2>3. Cost(n - i + 1) \in Int /\ Income(t - times[i]) \in Int
    BY <2>1, CostType, IncomeType
  <2>4. LeftSince(times, i, t) = Capacity + Income(t - times[i]) - Cost(n - i + 1)
    BY DEF LeftSince
  <2>. QED BY <2>1, <2>2, <2>3, <2>4, BucketConstants
<1>5. Pair(more, n + 1, n + 1)
  <2>1. n + 1 - (n + 1) + 1 = 1 /\ more[n + 1] - more[n + 1] = 0
    BY <1>1
  <2>. QED BY <2>1, ZeroAndOne, BucketConstants
<1>. HIDE DEF n, Pair
<1>6. Promise!Within(more) <=> \A i \in 1 .. n : Pair(more, i, n + 1)
  <2>1. ASSUME Promise!Within(more), NEW i \in 1 .. n
        PROVE  Pair(more, i, n + 1)
    <3>1. i \in DOMAIN more /\ n + 1 \in DOMAIN more /\ i <= n + 1
      BY <1>1
    <3>. QED BY <1>2, <2>1, <3>1
  <2>2. ASSUME \A i \in 1 .. n : Pair(more, i, n + 1),
               NEW i \in 1 .. n + 1, NEW j \in 1 .. n + 1, i <= j
        PROVE  Pair(more, i, j)
    <3>1. \/ i \in 1 .. n /\ j \in 1 .. n
          \/ i \in 1 .. n /\ j = n + 1
          \/ i = n + 1 /\ j = n + 1
      BY <1>1, <2>2
    <3>. QED BY <1>3, <1>5, <2>2, <3>1
  <2>. QED BY <1>1, <1>2, <2>1, <2>2
<1>. QED BY <1>1, <1>4, <1>6 DEF more

\* A request fits the allowance exactly when the bucket holds a token for it.
LEMMA FitsIffTokenLeft ==
    ASSUME NEW b \in Bucket, NEW times \in Seq(Nat), Exact(b, times),
           Promise!Within(times), NEW t \in Nat, b.last <= t
    PROVE  Promise!Within(Append(times, t)) <=> One <= Left(b, t)
<1>1. Left(b, t) \in Int
  BY LeftType
<1>2. \A i \in DOMAIN times : LeftSince(times, i, t) \in Int
  BY LeftSinceType
<1>3. /\ \A i \in DOMAIN times : Left(b, t) <= LeftSince(times, i, t)
      /\ \/ Left(b, t) = Capacity
         \/ \E i \in DOMAIN times : Left(b, t) = LeftSince(times, i, t)
  BY RefillExact
<1>. QED BY <1>1, <1>2, <1>3, BucketConstants, WithinAppend

\* A grant takes its token from the bucket and from what the allowance has left.
LEMMA GrantKeeps ==
    ASSUME NEW b \in Bucket, NEW times \in Seq(Nat), Exact(b, times),
           Promise!Within(times), NEW t \in Nat, b.last <= t, One <= Left(b, t)
    PROVE  LET taken == [tokens |-> Left(b, t) - One, last |-> t]
           IN  /\ taken \in Bucket
               /\ Exact(taken, Append(times, t))
               /\ Promise!Within(Append(times, t))
<1>. DEFINE taken == [tokens |-> Left(b, t) - One, last |-> t]
            more == Append(times, t)
            n == Len(times)
<1>1. Left(b, t) \in 0 .. Capacity
  BY LeftType
<1>2. taken \in Bucket
  BY <1>1, BucketConstants DEF Bucket
<1>3. Promise!Within(more)
  BY FitsIffTokenLeft
<1>4. /\ n \in Nat /\ DOMAIN times = 1 .. n /\ DOMAIN more = 1 .. n + 1
      /\ taken.tokens = Left(b, t) - One /\ taken.last = t
  OBVIOUS
<1>5. /\ \A i \in 1 .. n : /\ LeftSince(times, i, t) \in Int
                           /\ LeftSince(more, i, t) = LeftSince(times, i, t) - One
      /\ LeftSince(more, n + 1, t) = Capacity - One
  BY <1>4, LeftSinceType, LeftSinceAppend
<1>6. /\ \A i \in 1 .. n : Left(b, t) <= LeftSince(times, i, t)
      /\ \/ Left(b, t) = Capacity
         \/ \E i \in 1 .. n : Left(b, t) = LeftSince(times, i, t)
  BY <1>4, RefillExact
<1>. HIDE DEF taken, more, n
<1>7. \A i \in 1 .. n + 1 : taken.tokens <= LeftSince(more, i, t)
  <2>. SUFFICES ASSUME NEW i \in 1 .. n + 1
                PROVE  taken.tokens <= LeftSince(more, i, t)
    OBVIOUS
  <2>1. CASE i \in 1 .. n
    BY <1>1, <1>4, <1>5, <1>6, <2>1, BucketConstants
  <2>2. CASE i = n + 1
    BY <1>1, <1>4, <1>5, <2>2, BucketConstants
  <2>. QED BY <1>4, <2>1, <2>2
<1>8. \E i \in 1 .. n + 1 : taken.tokens = LeftSince(more, i, t)
  <2>1. CASE Left(b, t) = Capacity
    BY <1>4, <1>5, <2>1, n + 1 \in 1 .. n + 1
  <2>2. CASE \E i \in 1 .. n : Left(b, t) = LeftSince(times, i, t)
    BY <1>4, <1>5, <2>2
  <2>. QED BY <1>6, <2>1, <2>2
<1>9. Exact(taken, more)
  BY <1>4, <1>7, <1>8 DEF Exact
<1>. QED BY <1>2, <1>3, <1>9 DEF taken, more

\* A refusal leaves the bucket with what it was found to hold.
LEMMA RefusalKeeps ==
    ASSUME NEW b \in Bucket, NEW times \in Seq(Nat), Exact(b, times),
           NEW t \in Nat, b.last <= t
    PROVE  LET counted == [tokens |-> Left(b, t), last |-> t]
           IN  counted \in Bucket /\ Exact(counted, times)
<1>1. Left(b, t) \in 0 .. Capacity
  BY LeftType
<1>2. /\ \A i \in DOMAIN times : Left(b, t) <= LeftSince(times, i, t)
      /\ \/ Left(b, t) = Capacity
         \/ \E i \in DOMAIN times : Left(b, t) = LeftSince(times, i, t)
  BY RefillExact
<1>. QED BY <1>1, <1>2 DEF Bucket, Exact

\* The first tick at which a bucket without a token holds one again.
LEMMA FirstTokenAt ==
    ASSUME NEW b \in Bucket, NEW t \in Nat, b.last <= t, Left(b, t) < One,
           NEW ticks \in Nat \ {0},
           Income(ticks - 1) < One - Left(b, t), One - Left(b, t) <= Income(ticks)
    PROVE  /\ One <= Left(b, t + ticks)
           /\ \A u \in t .. ((t + ticks) - 1) : Left(b, u) < One
<1>. DEFINE sum == b.tokens + Income(t - b.last)
<1>1. t - b.last \in Nat /\ b.last \in Nat /\ b.tokens \in 0 .. Capacity
  BY DEF Bucket
<1>2. Income(t - b.last) \in Nat /\ sum \in Nat
  BY <1>1, IncomeNat, BucketConstants
<1>3. Left(b, t) = sum /\ sum < Capacity
  BY <1>2, BucketConstants DEF Left
<1>4. ASSUME NEW d \in Nat
      PROVE  /\ Income(d) \in Nat
             /\ Left(b, t + d) = IF sum + Income(d) < Capacity THEN sum + Income(d) ELSE Capacity
  <2>1. t + d - b.last = (t - b.last) + d /\ Income(d) \in Nat
    BY <1>1, IncomeNat
  <2>2. Income((t - b.last) + d) = Income(t - b.last) + Income(d)
    BY <1>1, d \in Int, t - b.last \in Int, IncomeAdds
  <2>. QED BY <1>1, <1>2, <2>1, <2>2, BucketConstants DEF Left
<1>. HIDE DEF sum
<1>5. One <= Left(b, t + ticks)
  BY <1>2, <1>3, <1>4, BucketConstants
<1>6. ASSUME NEW u \in t .. ((t + ticks) - 1)
      PROVE  Left(b, u) < One
  <2>1. /\ u - t \in Nat /\ ticks - 1 - (u - t) \in Nat /\ t + (u - t) = u
        /\ (u - t) + (ticks - 1 - (u - t)) = ticks - 1
    OBVIOUS
  <2>2. Income(ticks - 1) = Income(u - t) + Income(ticks - 1 - (u - t))
    BY <2>1, IncomeAdds
  <2>3. Income(u - t) \in Nat /\ Income(ticks - 1 - (u - t)) \in Nat
    BY <2>1, IncomeNat
  <2>4. sum + Income(u - t) < One
    BY <1>2, <1>3, <2>2, <2>3, BucketConstants
  <2>5. Left(b, u) = IF sum + Income(u - t) < Capacity THEN sum + Income(u - t) ELSE Capacity
    BY <1>4, <2>1
  <2>. QED BY <1>2, <2>3, <2>4, <2>5, BucketConstants
<1>. QED BY <1>5, <1>6

-----------------------------------------------------------------------------
(* The steps *)

LEMMA BucketStarts == Init => BucketInv
<1>. SUFFICES ASSUME Init PROVE BucketInv
  OBVIOUS
<1>1. BucketTyped
  BY BucketConstants DEF Init, BucketTyped, Bucket
<1>2. ASSUME NEW k \in Key
      PROVE  /\ buckets[k].last <= now
             /\ Promise!Within(grants[k])
             /\ Exact(buckets[k], grants[k])
  <2>1. buckets[k].last = 0 /\ buckets[k].tokens = Capacity /\ grants[k] = << >> /\ now = 0
    BY DEF Init
  <2>. QED BY <2>1 DEF Exact, Promise!Within
<1>. QED BY <1>1, <1>2 DEF BucketInv

\* What the invariant says of one key.
LEMMA OfBucket ==
    ASSUME BucketInv, NEW k \in Key
    PROVE  /\ now \in Nat
           /\ buckets[k] \in Bucket /\ buckets[k].last <= now
           /\ grants[k] \in Seq(Nat)
           /\ Promise!Within(grants[k])
           /\ Exact(buckets[k], grants[k])
BY DEF BucketInv, BucketTyped

LEMMA RefilledIsLeft ==
    ASSUME BucketInv, NEW k \in Key
    PROVE  Refilled(buckets[k]) = Left(buckets[k], now)
<1>1. now - buckets[k].last \in Int
  BY OfBucket DEF Bucket
<1>2. (now - buckets[k].last) * Rate = Income(now - buckets[k].last)
  BY <1>1, BucketConstants DEF Income
<1>. QED BY <1>2 DEF Refilled, Left

LEMMA GrantKeepsInv == ASSUME BucketInv, NEW k \in Key, Grant(k), UNCHANGED now PROVE BucketInv'
<1>1. One <= Left(buckets[k], now)
  <2>1. Left(buckets[k], now) \in Int
    BY OfBucket, LeftType
  <2>. QED BY <2>1, RefilledIsLeft, BucketConstants DEF Grant
<1>2. /\ buckets' = [buckets EXCEPT ![k] = [tokens |-> Left(@, now) - One, last |-> now]]
      /\ grants' = [grants EXCEPT ![k] = Append(@, now)]
      /\ now' = now
  BY RefilledIsLeft DEF Grant
<1>3. /\ [tokens |-> Left(buckets[k], now) - One, last |-> now] \in Bucket
      /\ Exact([tokens |-> Left(buckets[k], now) - One, last |-> now], Append(grants[k], now))
      /\ Promise!Within(Append(grants[k], now))
  BY <1>1, OfBucket, GrantKeeps
<1>4. BucketTyped'
  BY <1>2, <1>3 DEF BucketInv, BucketTyped
<1>5. ASSUME NEW l \in Key
      PROVE  /\ buckets'[l].last <= now
             /\ Promise!Within(grants'[l])
             /\ Exact(buckets'[l], grants'[l])
  <2>1. CASE l = k
    <3>1. /\ buckets'[l] = [tokens |-> Left(buckets[k], now) - One, last |-> now]
          /\ grants'[l] = Append(grants[k], now)
      BY <1>2, <2>1 DEF BucketInv, BucketTyped
    <3>2. buckets'[l].last <= now
      BY <3>1 DEF BucketInv, BucketTyped
    <3>. QED BY <1>3, <3>1, <3>2
  <2>2. CASE l # k
    <3>1. buckets'[l] = buckets[l] /\ grants'[l] = grants[l]
      BY <1>2, <2>2 DEF BucketInv, BucketTyped
    <3>. QED BY <3>1, OfBucket
  <2>. QED BY <2>1, <2>2
<1>. QED BY <1>2, <1>4, <1>5 DEF BucketInv, Promise!Within, Exact, LeftSince

LEMMA RefusalKeepsInv == ASSUME BucketInv, NEW k \in Key, Refuse(k), UNCHANGED now PROVE BucketInv'
<1>1. /\ buckets' = [buckets EXCEPT ![k] = [tokens |-> Left(@, now), last |-> now]]
      /\ grants' = grants
      /\ now' = now
  BY RefilledIsLeft DEF Refuse
<1>2. /\ [tokens |-> Left(buckets[k], now), last |-> now] \in Bucket
      /\ Exact([tokens |-> Left(buckets[k], now), last |-> now], grants[k])
  BY OfBucket, RefusalKeeps
<1>3. BucketTyped'
  BY <1>1, <1>2 DEF BucketInv, BucketTyped
<1>4. ASSUME NEW l \in Key
      PROVE  /\ buckets'[l].last <= now
             /\ Promise!Within(grants[l])
             /\ Exact(buckets'[l], grants[l])
  <2>1. CASE l = k
    <3>1. buckets'[l] = [tokens |-> Left(buckets[k], now), last |-> now]
      BY <1>1, <2>1 DEF BucketInv, BucketTyped
    <3>2. buckets'[l].last <= now
      BY <3>1 DEF BucketInv, BucketTyped
    <3>. QED BY <1>2, <2>1, <3>1, <3>2, OfBucket
  <2>2. CASE l # k
    <3>1. buckets'[l] = buckets[l]
      BY <1>1, <2>2 DEF BucketInv, BucketTyped
    <3>. QED BY <3>1, OfBucket
  <2>. QED BY <2>1, <2>2
<1>. QED BY <1>1, <1>3, <1>4 DEF BucketInv, Promise!Within, Exact, LeftSince

LEMMA BucketStep == BucketInv /\ [Next]_vars => BucketInv'
<1>. SUFFICES ASSUME BucketInv, [Next]_vars PROVE BucketInv'
  OBVIOUS
<1>1. ASSUME NEW k \in Key, Check(k) PROVE BucketInv'
  BY <1>1, GrantKeepsInv, RefusalKeepsInv DEF Check
<1>2. CASE Tick
  BY <1>2 DEF Tick, BucketInv, BucketTyped, Promise!Within, Exact, LeftSince, Bucket
<1>3. CASE UNCHANGED vars
  BY <1>3 DEF vars, BucketInv, BucketTyped, Promise!Within, Exact, LeftSince
<1>. QED BY <1>1, <1>2, <1>3 DEF Next

\* Every step of the bucket is one of the allowance.
LEMMA NextPromised == BucketInv /\ [Next]_vars => [Promise!Next]_(Promise!vars)
<1>. SUFFICES ASSUME BucketInv, [Next]_vars PROVE [Promise!Next]_(Promise!vars)
  OBVIOUS
<1>1. ASSUME NEW k \in Key, Grant(k), UNCHANGED now
      PROVE  Promise!Grant(k)
  <2>1. Promise!Within(Append(grants[k], now))
    <3>1. Left(buckets[k], now) \in Int
      BY OfBucket, LeftType
    <3>2. One <= Left(buckets[k], now)
      BY <1>1, <3>1, RefilledIsLeft, BucketConstants DEF Grant
    <3>. QED BY <3>2, OfBucket, FitsIffTokenLeft
  <2>. QED BY <1>1, <2>1 DEF Grant, Promise!Grant, Promise!Fits
<1>2. ASSUME NEW k \in Key, Refuse(k), UNCHANGED now
      PROVE  Promise!Refuse(k)
  <2>. DEFINE left == Left(buckets[k], now)
  <2>1. left \in Int
    BY OfBucket, LeftType
  <2>2. PICK ticks \in 1 .. One :
             /\ (ticks - 1) * Rate < One - left /\ One - left <= ticks * Rate
             /\ answer' = [allowed |-> FALSE, retryAt |-> now + ticks]
    BY <1>2, RefilledIsLeft DEF Refuse
  <2>3. left < One
    BY <1>2, <2>1, RefilledIsLeft, BucketConstants DEF Refuse
  <2>4. Income(ticks - 1) < One - left /\ One - left <= Income(ticks)
    BY <2>2, BucketConstants DEF Income
  <2>5. ticks \in Nat \ {0} /\ now \in Nat
    BY <2>2, OfBucket, BucketConstants
  <2>6. /\ One <= Left(buckets[k], now + ticks)
        /\ \A u \in now .. ((now + ticks) - 1) : Left(buckets[k], u) < One
    BY <2>3, <2>4, <2>5, OfBucket, FirstTokenAt
  <2>7. ASSUME NEW u \in Nat, now <= u
        PROVE  /\ Promise!Fits(k, u) <=> One <= Left(buckets[k], u)
               /\ Left(buckets[k], u) \in Int
    <3>1. buckets[k].last <= u
      BY <2>7, OfBucket DEF Bucket
    <3>. QED BY <3>1, OfBucket, FitsIffTokenLeft, LeftType DEF Promise!Fits
  <2>8. Promise!Fits(k, now + ticks)
    BY <2>5, <2>6, <2>7
  <2>9. \A u \in now .. ((now + ticks) - 1) : ~Promise!Fits(k, u)
    BY <2>5, <2>6, <2>7, BucketConstants
  <2>10. now + ticks \in (now + 1) .. (now + One)
    BY <2>2, <2>5, BucketConstants
  <2>11. UNCHANGED <<now, grants>>
    BY <1>2 DEF Refuse
  <2>. HIDE DEF left
  <2>. QED BY <2>2, <2>8, <2>9, <2>10, <2>11 DEF Promise!Refuse
<1>3. CASE Tick
  BY <1>3 DEF Tick, Promise!Next, Promise!Tick
<1>4. CASE UNCHANGED vars
  BY <1>4 DEF vars, Promise!vars
<1>. QED BY <1>1, <1>2, <1>3, <1>4 DEF Next, Check, Promise!Next

LEMMA BucketExact == Spec => []BucketInv
<1>1. Init => BucketInv
  BY BucketStarts
<1>2. BucketInv /\ [Next]_vars => BucketInv'
  BY BucketStep
<1>. QED BY <1>1, <1>2, PTL DEF Spec

LEMMA BucketKeepsAllowance == Spec => KeepsAllowance
<1>1. Init => Promise!Init
  BY DEF Init, Promise!Init, Promise!NoAnswer
<1>2. BucketInv /\ [Next]_vars => [Promise!Next]_(Promise!vars)
  BY NextPromised
<1>. QED BY <1>1, <1>2, BucketExact, PTL DEF Spec, KeepsAllowance, Promise!Spec

-----------------------------------------------------------------------------
(* The sliding window between threads.  An entry may be appended late, by a *)
(* thread that read the clock before others did.                           *)

Others == Cardinality(Thread) - 1

\* How many of the admitted are in the window no more; the rest of them is the window.
Dropped == Len(admitted) - Len(window)

\* The admitted of the window that ends at a time, and the threads that may
\* still append to it.
InWindow(at) == {i \in DOMAIN admitted : at - Window < admitted[i] /\ admitted[i] <= at}
Coming(at, steps) == {t \in Thread : pc[t] \in steps /\ at - Window < seen[t] /\ seen[t] <= at}

\* Who was appended after i although it had read the clock before, and who may
\* still be.
Overtaken(i) == {j \in DOMAIN admitted : i < j /\ admitted[j] < admitted[i]}
Behind(i) == {t \in Thread : pc[t] \in {"drop", "append"} /\ seen[t] < admitted[i]}

WindowTyped ==
    /\ clock \in Nat
    /\ window \in Seq(Nat) /\ admitted \in Seq(Nat)
    /\ pc \in [Thread -> {"idle", "drop", "append", "refuse"}]
    /\ seen \in [Thread -> Nat]

Suffix ==
    /\ Len(window) <= Len(admitted)
    /\ \A j \in DOMAIN window : window[j] = admitted[Dropped + j]

Past ==
    /\ \A i \in DOMAIN admitted : admitted[i] <= clock
    /\ \A t \in Thread : seen[t] <= clock

\* Each further thread comes at most once too late for an admitted call.
Late ==
    \A i \in DOMAIN admitted : Cardinality(Overtaken(i)) + Cardinality(Behind(i)) <= Others

\* A window of which nothing was dropped can only be overfilled by threads
\* that have counted; when something was, no thread starts any more that looks
\* at this window, and those that have started are all but the one that dropped.
Bounded ==
    \A at \in Nat :
        \/ /\ \A i \in InWindow(at) : Dropped < i
           /\ Cardinality(InWindow(at)) + Cardinality(Coming(at, {"append"})) <= MaxRequests + Others
        \/ /\ at < clock
           /\ Cardinality(InWindow(at)) + Cardinality(Coming(at, {"drop", "append"}))
                 <= MaxRequests + Others + Others

\* The admitted that a thread which refuses looks at.
Recent(t) == {i \in DOMAIN admitted : seen[t] - Window < admitted[i]}

Refused ==
    \A t \in Thread : pc[t] = "refuse" => MaxRequests - Others <= Cardinality(Recent(t))

WindowInv == WindowTyped /\ Suffix /\ Past /\ Late /\ Bounded /\ Refused

-----------------------------------------------------------------------------

LEMMA Sizes ==
    /\ MaxRequests \in Nat /\ Window \in Nat
    /\ IsFiniteSet(Thread) /\ Cardinality(Thread) \in Nat /\ Others \in Nat
  <1>1. MaxRequests \in Nat /\ Window \in Nat /\ IsFiniteSet(Thread) /\ Thread # {}
    BY SlidingWindowAssumption
  <1>2. Cardinality(Thread) \in Nat /\ Cardinality(Thread) # 0
    BY <1>1, FS_CardinalityType, FS_EmptySet
  <1> QED
    BY <1>1, <1>2 DEF Others

LEMMA AdmittedDomain ==
    ASSUME WindowTyped
    PROVE  /\ DOMAIN admitted = 1 .. Len(admitted) /\ Len(admitted) \in Nat
           /\ DOMAIN window = 1 .. Len(window) /\ Len(window) \in Nat
           /\ IsFiniteSet(DOMAIN admitted)
           /\ \A i \in DOMAIN admitted : admitted[i] \in Nat
           /\ \A j \in DOMAIN window : window[j] \in Nat
  <1>1. /\ DOMAIN admitted = 1 .. Len(admitted) /\ Len(admitted) \in Nat
        /\ DOMAIN window = 1 .. Len(window) /\ Len(window) \in Nat
        /\ \A i \in DOMAIN admitted : admitted[i] \in Nat
        /\ \A j \in DOMAIN window : window[j] \in Nat
    BY DEF WindowTyped
  <1>2. IsFiniteSet(1 .. Len(admitted))
    BY <1>1, FS_Interval
  <1> QED
    BY <1>1, <1>2

\* A set of admitted calls or of threads is finite, and no larger than one that
\* contains it.
LEMMA Counted ==
    ASSUME NEW S, IsFiniteSet(S)
    PROVE  /\ Cardinality(S) \in Nat
           /\ \A T \in SUBSET S : /\ IsFiniteSet(T) /\ Cardinality(T) \in Nat
                                  /\ Cardinality(T) <= Cardinality(S)
  BY FS_CardinalityType, FS_Subset

LEMMA UnionAtMost ==
    ASSUME NEW S, NEW T, IsFiniteSet(S), IsFiniteSet(T)
    PROVE  /\ IsFiniteSet(S \cup T) /\ Cardinality(S \cup T) \in Nat
           /\ Cardinality(S \cup T) <= Cardinality(S) + Cardinality(T)
  <1>1. /\ Cardinality(S) \in Nat /\ Cardinality(T) \in Nat /\ Cardinality(S \cap T) \in Nat
        /\ IsFiniteSet(S \cup T)
        /\ Cardinality(S \cup T) = Cardinality(S) + Cardinality(T) - Cardinality(S \cap T)
    BY FS_Union, FS_Intersection, FS_CardinalityType
  <1>2. \A a, b, c \in Nat : a + b - c <= a + b
    OBVIOUS
  <1> QED
    BY <1>1, <1>2, FS_CardinalityType

LEMMA IntervalSize ==
    ASSUME NEW a \in Nat, NEW b \in Nat, a <= b
    PROVE  IsFiniteSet(a + 1 .. b) /\ Cardinality(a + 1 .. b) = b - a
  <1>1. a + 1 \in Int /\ b \in Int
    OBVIOUS
  <1>2. /\ IsFiniteSet(a + 1 .. b)
        /\ Cardinality(a + 1 .. b) = IF a + 1 > b THEN 0 ELSE b - (a + 1) + 1
    BY <1>1, FS_Interval
  <1>3. (IF a + 1 > b THEN 0 ELSE b - (a + 1) + 1) = b - a
    OBVIOUS
  <1> QED
    BY <1>2, <1>3

LEMMA ThreadsCounted ==
    ASSUME NEW S, S \subseteq Thread
    PROVE  /\ IsFiniteSet(S) /\ Cardinality(S) \in Nat
           /\ Cardinality(S) <= Others + 1
           /\ \A t \in Thread \ S : Cardinality(S) <= Others
  <1>1. IsFiniteSet(S) /\ Cardinality(S) \in Nat /\ Cardinality(S) <= Cardinality(Thread)
    BY Sizes, Counted
  <1>2. Cardinality(S) <= Others + 1
    BY <1>1, Sizes DEF Others
  <1>3. ASSUME NEW t \in Thread \ S PROVE Cardinality(S) <= Others
    <2>1. IsFiniteSet(Thread \ {t}) /\ Cardinality(Thread \ {t}) = Cardinality(Thread) - 1
      BY Sizes, FS_RemoveElement
    <2>2. S \in SUBSET (Thread \ {t})
      BY <1>3
    <2>3. Cardinality(S) <= Cardinality(Thread \ {t})
      BY <2>1, <2>2, Counted
    <2> QED
      BY <2>1, <2>3 DEF Others
  <1> QED
    BY <1>1, <1>2, <1>3

\* The sets that the invariant counts.
LEMMA AllCounted ==
    ASSUME WindowTyped
    PROVE  /\ \A at : IsFiniteSet(InWindow(at)) /\ Cardinality(InWindow(at)) \in Nat
           /\ \A i : IsFiniteSet(Overtaken(i)) /\ Cardinality(Overtaken(i)) \in Nat
           /\ \A t : IsFiniteSet(Recent(t)) /\ Cardinality(Recent(t)) \in Nat
           /\ \A at, steps : IsFiniteSet(Coming(at, steps)) /\ Cardinality(Coming(at, steps)) \in Nat
           /\ \A i : IsFiniteSet(Behind(i)) /\ Cardinality(Behind(i)) \in Nat
  <1>1. IsFiniteSet(DOMAIN admitted)
    BY AdmittedDomain
  <1>2. ASSUME NEW S, S \subseteq DOMAIN admitted
        PROVE  IsFiniteSet(S) /\ Cardinality(S) \in Nat
    BY <1>1, <1>2, Counted
  <1>3. \A at : IsFiniteSet(InWindow(at)) /\ Cardinality(InWindow(at)) \in Nat
    BY <1>2 DEF InWindow
  <1>4. \A i : IsFiniteSet(Overtaken(i)) /\ Cardinality(Overtaken(i)) \in Nat
    BY <1>2 DEF Overtaken
  <1>5. \A t : IsFiniteSet(Recent(t)) /\ Cardinality(Recent(t)) \in Nat
    BY <1>2 DEF Recent
  <1>6. \A at, steps : IsFiniteSet(Coming(at, steps)) /\ Cardinality(Coming(at, steps)) \in Nat
    BY ThreadsCounted DEF Coming
  <1>7. \A i : IsFiniteSet(Behind(i)) /\ Cardinality(Behind(i)) \in Nat
    BY ThreadsCounted DEF Behind
  <1> QED
    BY <1>3, <1>4, <1>5, <1>6, <1>7

LEMMA WindowStarts == Sliding!Init => WindowInv
  <1> SUFFICES ASSUME Sliding!Init PROVE WindowInv
    OBVIOUS
  <1>1. /\ clock = 0 /\ window = << >> /\ admitted = << >>
        /\ pc = [t \in Thread |-> "idle"] /\ seen = [t \in Thread |-> 0]
    BY DEF Sliding!Init
  <1>2. WindowTyped
    BY <1>1, EmptySeq DEF WindowTyped
  <1>3. DOMAIN admitted = {} /\ DOMAIN window = {} /\ Len(admitted) = 0 /\ Len(window) = 0
    BY <1>1
  <1>4. Suffix /\ Past /\ Late /\ Refused
    BY <1>1, <1>3 DEF Suffix, Past, Late, Refused
  <1>5. Bounded
    <2> SUFFICES ASSUME NEW at \in Nat
                 PROVE  /\ \A i \in InWindow(at) : Dropped < i
                        /\ Cardinality(InWindow(at)) + Cardinality(Coming(at, {"append"})) <= MaxRequests + Others
      BY DEF Bounded
    <2>1. InWindow(at) = {} /\ Coming(at, {"append"}) = {}
      BY <1>1, <1>3 DEF InWindow, Coming
    <2> QED
      BY <2>1, FS_EmptySet, Sizes
  <1> QED
    BY <1>2, <1>4, <1>5 DEF WindowInv

LEMMA ReadClockKeeps ==
    ASSUME WindowInv, NEW t \in Thread, Sliding!ReadClock(t)
    PROVE  WindowInv'
  <1> USE DEF WindowInv
  <1>1. /\ pc[t] = "idle" /\ pc' = [pc EXCEPT ![t] = "drop"]
        /\ seen' = [seen EXCEPT ![t] = clock]
        /\ UNCHANGED <<clock, window, admitted>>
    BY DEF Sliding!ReadClock, Sliding!At
  <1>2. /\ WindowTyped' /\ pc'[t] = "drop" /\ seen'[t] = clock
        /\ \A s \in Thread \ {t} : pc'[s] = pc[s] /\ seen'[s] = seen[s]
    BY <1>1 DEF WindowTyped
  <1>3. clock \in Nat /\ \A i \in DOMAIN admitted : admitted[i] \in Nat /\ admitted[i] <= clock
    BY AdmittedDomain DEF Past, WindowTyped
  <1>4. Suffix' /\ Past'
    BY <1>1, <1>2, <1>3 DEF Suffix, Past, Dropped
  <1>5. \A i \in DOMAIN admitted : Overtaken(i)' = Overtaken(i)
    BY <1>1 DEF Overtaken
  <1>6. ASSUME NEW i \in DOMAIN admitted PROVE Behind(i)' = Behind(i)
    <2>1. ~(seen'[t] < admitted'[i])
      BY <1>1, <1>2, <1>3
    <2> QED
      BY <1>1, <1>2, <2>1 DEF Behind
  <1>7. Late'
    BY <1>1, <1>5, <1>6 DEF Late
  <1>8. ASSUME NEW at \in Nat
        PROVE  /\ InWindow(at)' = InWindow(at) /\ Dropped' = Dropped
               /\ Coming(at, {"append"})' = Coming(at, {"append"})
               /\ at < clock => Coming(at, {"drop", "append"})' = Coming(at, {"drop", "append"})
    <2>1. InWindow(at)' = InWindow(at) /\ Dropped' = Dropped
      BY <1>1 DEF InWindow, Dropped
    <2>2. Coming(at, {"append"})' = Coming(at, {"append"})
      BY <1>1, <1>2 DEF Coming
    <2>3. ASSUME at < clock PROVE Coming(at, {"drop", "append"})' = Coming(at, {"drop", "append"})
      <3>1. ~(seen'[t] <= at)
        BY <1>2, <1>3, <2>3
      <3> QED
        BY <1>1, <1>2, <3>1 DEF Coming
    <2> QED
      BY <2>1, <2>2, <2>3
  <1>9. Bounded'
    BY <1>1, <1>8 DEF Bounded
  <1>10. Refused'
    BY <1>1, <1>2 DEF Refused, Recent
  <1> QED
    BY <1>2, <1>4, <1>7, <1>9, <1>10

LEMMA DropOneKeeps ==
    ASSUME WindowInv, NEW t \in Thread, Sliding!DropOne(t)
    PROVE  WindowInv'
  <1> USE DEF WindowInv
  <1>1. /\ pc[t] = "drop" /\ window # << >> /\ Head(window) <= seen[t] - Window
        /\ window' = Tail(window)
        /\ UNCHANGED <<clock, seen, admitted>>
    BY DEF Sliding!DropOne, Sliding!At, Sliding!Aged
  <1>2. pc' = pc
    BY <1>1 DEF Sliding!DropOne, Sliding!At, WindowTyped
  <1>3. /\ Len(window) \in Nat \ {0} /\ Len(window') = Len(window) - 1
        /\ DOMAIN window' = 1 .. Len(window) - 1
        /\ \A j \in 1 .. Len(window) - 1 : window'[j] = window[j + 1]
        /\ Head(window) = window[1] /\ window' \in Seq(Nat)
    BY <1>1 DEF WindowTyped
  <1>4. WindowTyped'
    BY <1>1, <1>2, <1>3 DEF WindowTyped
  <1>5. Dropped' = Dropped + 1 /\ Dropped \in Nat /\ Len(admitted) \in Nat /\ Dropped + 1 \in DOMAIN admitted
    BY <1>1, <1>3, AdmittedDomain DEF Suffix, Dropped
  <1>6. /\ Suffix'
        /\ admitted[Dropped + 1] <= seen[t] - Window
    <2>1. \A j \in DOMAIN window : window[j] = admitted[Dropped + j] /\ Len(window) <= Len(admitted)
      BY DEF Suffix
    <2>2. 1 \in DOMAIN window
      BY <1>3, AdmittedDomain
    <2>3. admitted[Dropped + 1] <= seen[t] - Window
      BY <1>1, <1>3, <2>1, <2>2
    <2>4. ASSUME NEW j \in 1 .. Len(window) - 1 PROVE window'[j] = admitted[Dropped + 1 + j]
      <3>1. j + 1 \in DOMAIN window /\ Dropped + (j + 1) = Dropped + 1 + j
        BY <1>3, <1>5, AdmittedDomain
      <3> QED
        BY <1>3, <2>1, <3>1
    <2>5. Len(window') <= Len(admitted')
      BY <1>1, <1>3, <1>5 DEF Suffix
    <2> QED
      BY <1>1, <1>3, <1>5, <2>3, <2>4, <2>5 DEF Suffix
  <1>7. Past' /\ Late' /\ Refused'
    BY <1>1, <1>2 DEF Past, Late, Refused, Overtaken, Behind, Recent
  <1>8. ASSUME NEW at \in Nat
        PROVE  /\ InWindow(at)' = InWindow(at)
               /\ \A steps : Coming(at, steps)' = Coming(at, steps)
    BY <1>1, <1>2 DEF InWindow, Coming
  <1>9. ASSUME NEW at \in Nat, Dropped + 1 \in InWindow(at),
               \A i \in InWindow(at) : Dropped < i,
               Cardinality(InWindow(at)) + Cardinality(Coming(at, {"append"})) <= MaxRequests + Others
        PROVE  /\ at < clock
               /\ Cardinality(InWindow(at)) + Cardinality(Coming(at, {"drop", "append"}))
                     <= MaxRequests + Others + Others
    <2>1. seen[t] \in Nat /\ clock \in Nat /\ seen[t] <= clock /\ admitted[Dropped + 1] \in Nat
      BY <1>5, AdmittedDomain DEF WindowTyped, Past
    <2>2. at - Window < admitted[Dropped + 1]
      BY <1>9 DEF InWindow
    <2>3. at < seen[t]
      BY <1>6, <2>1, <2>2, Sizes
    <2>4. t \in Thread \ Coming(at, {"drop"})
      BY <2>1, <2>3 DEF Coming
    <2>5. Coming(at, {"drop"}) \subseteq Thread
      BY DEF Coming
    <2>6. Cardinality(Coming(at, {"drop"})) <= Others
      BY <2>4, <2>5, ThreadsCounted
    <2>7. Coming(at, {"drop", "append"}) = Coming(at, {"drop"}) \cup Coming(at, {"append"})
      BY DEF Coming
    <2>8. /\ IsFiniteSet(Coming(at, {"drop"})) /\ IsFiniteSet(Coming(at, {"append"}))
          /\ Cardinality(Coming(at, {"drop"})) \in Nat /\ Cardinality(Coming(at, {"append"})) \in Nat
          /\ Cardinality(InWindow(at)) \in Nat
      BY AllCounted
    <2>9. Cardinality(Coming(at, {"drop", "append"}))
              <= Cardinality(Coming(at, {"drop"})) + Cardinality(Coming(at, {"append"}))
      BY <2>7, <2>8, UnionAtMost
    <2>10. Cardinality(Coming(at, {"drop", "append"})) \in Nat
      BY AllCounted
    <2> QED
      BY <1>9, <2>1, <2>3, <2>6, <2>8, <2>9, <2>10, Sizes
  <1>10. Bounded'
    <2> SUFFICES ASSUME NEW at \in Nat
                 PROVE  \/ /\ \A i \in InWindow(at) : Dropped + 1 < i
                           /\ Cardinality(InWindow(at)) + Cardinality(Coming(at, {"append"})) <= MaxRequests + Others
                        \/ /\ at < clock
                           /\ Cardinality(InWindow(at)) + Cardinality(Coming(at, {"drop", "append"}))
                                 <= MaxRequests + Others + Others
      BY <1>1, <1>5, <1>8 DEF Bounded
    <2>1. CASE /\ \A i \in InWindow(at) : Dropped < i
               /\ Cardinality(InWindow(at)) + Cardinality(Coming(at, {"append"})) <= MaxRequests + Others
      <3>1. CASE Dropped + 1 \in InWindow(at)
        BY <1>9, <2>1, <3>1
      <3>2. CASE Dropped + 1 \notin InWindow(at)
        <4>1. InWindow(at) \subseteq Nat
          BY AdmittedDomain DEF InWindow
        <4>2. \A i \in InWindow(at) : Dropped + 1 < i
          BY <1>5, <2>1, <3>2, <4>1
        <4> QED
          BY <2>1, <4>2
      <3> QED
        BY <3>1, <3>2
    <2> QED
      BY <2>1 DEF Bounded
  <1> QED
    BY <1>4, <1>6, <1>7, <1>10

LEMMA CountKeeps ==
    ASSUME WindowInv, NEW t \in Thread, Sliding!Count(t)
    PROVE  WindowInv'
  <1> USE DEF WindowInv
  <1>1. /\ pc[t] = "drop" /\ UNCHANGED <<clock, window, seen, admitted>>
        /\ pc' = [pc EXCEPT ![t] = IF Len(window) >= MaxRequests THEN "refuse" ELSE "append"]
        /\ ~(window # << >> /\ Head(window) <= seen[t] - Window)
    BY DEF Sliding!Count, Sliding!At, Sliding!Aged
  <1>2. /\ WindowTyped' /\ \A s \in Thread \ {t} : pc'[s] = pc[s]
        /\ pc'[t] = IF Len(window) >= MaxRequests THEN "refuse" ELSE "append"
    BY <1>1 DEF WindowTyped
  <1>3. Suffix' /\ Past'
    BY <1>1 DEF Suffix, Past, Dropped
  <1>4. /\ Len(window) \in Nat /\ Len(admitted) \in Nat /\ Dropped \in Nat
        /\ Dropped = Len(admitted) - Len(window)
        /\ DOMAIN admitted = 1 .. Len(admitted)
    BY AdmittedDomain DEF Suffix, Dropped
  <1>5. Late'
    <2> SUFFICES ASSUME NEW i \in DOMAIN admitted
                 PROVE  Cardinality(Overtaken(i)') + Cardinality(Behind(i)') <= Others
      BY <1>1 DEF Late
    <2>1. Overtaken(i)' = Overtaken(i) /\ Behind(i)' \subseteq Behind(i)
      BY <1>1, <1>2 DEF Overtaken, Behind
    <2>2. /\ Cardinality(Behind(i)') \in Nat /\ Cardinality(Behind(i)') <= Cardinality(Behind(i))
          /\ Cardinality(Behind(i)) \in Nat /\ Cardinality(Overtaken(i)) \in Nat
      BY <2>1, AllCounted, Counted
    <2>3. Cardinality(Overtaken(i)) + Cardinality(Behind(i)) <= Others
      BY DEF Late
    <2> QED
      BY <2>1, <2>2, <2>3, Sizes
  <1>6. Bounded'
    <2> SUFFICES ASSUME NEW at \in Nat
                 PROVE  \/ /\ \A i \in InWindow(at) : Dropped < i
                           /\ Cardinality(InWindow(at)) + Cardinality(Coming(at, {"append"})') <= MaxRequests + Others
                        \/ /\ at < clock
                           /\ Cardinality(InWindow(at)) + Cardinality(Coming(at, {"drop", "append"})')
                                 <= MaxRequests + Others + Others
      BY <1>1 DEF Bounded, InWindow, Dropped
    <2>1. Cardinality(InWindow(at)) \in Nat
      BY AllCounted
    <2>2. CASE /\ \A i \in InWindow(at) : Dropped < i
               /\ Cardinality(InWindow(at)) + Cardinality(Coming(at, {"append"})) <= MaxRequests + Others
      <3>1. CASE Len(window) >= MaxRequests
        <4>1. Coming(at, {"append"})' = Coming(at, {"append"})
          BY <1>1, <1>2, <3>1 DEF Coming
        <4> QED
          BY <2>2, <4>1
      <3>2. CASE Len(window) < MaxRequests
        <4>1. InWindow(at) \subseteq Dropped + 1 .. Len(admitted)
          BY <1>4, <2>2 DEF InWindow
        <4>2. /\ IsFiniteSet(Dropped + 1 .. Len(admitted))
              /\ Cardinality(Dropped + 1 .. Len(admitted)) = Len(window)
          <5>1. Dropped <= Len(admitted) /\ Len(admitted) - Dropped = Len(window)
            BY <1>4
          <5> QED
            BY <1>4, <5>1, IntervalSize
        <4>3. Cardinality(InWindow(at)) <= Len(window)
          BY <4>1, <4>2, Counted
        <4>4. /\ Cardinality(Coming(at, {"append"})') \in Nat
              /\ Cardinality(Coming(at, {"append"})') <= Others + 1
          <5>1. Coming(at, {"append"})' \subseteq Thread
            BY DEF Coming
          <5> QED
            BY <5>1, ThreadsCounted
        <4> QED
          BY <1>4, <2>1, <2>2, <3>2, <4>3, <4>4, Sizes
      <3> QED
        BY <1>4, <3>1, <3>2, Sizes
    <2>3. CASE /\ at < clock
               /\ Cardinality(InWindow(at)) + Cardinality(Coming(at, {"drop", "append"}))
                     <= MaxRequests + Others + Others
      <3>1. Coming(at, {"drop", "append"})' \subseteq Coming(at, {"drop", "append"})
        BY <1>1, <1>2 DEF Coming
      <3>2. /\ Cardinality(Coming(at, {"drop", "append"})') <= Cardinality(Coming(at, {"drop", "append"}))
            /\ Cardinality(Coming(at, {"drop", "append"})') \in Nat
            /\ Cardinality(Coming(at, {"drop", "append"})) \in Nat
        BY <3>1, AllCounted, Counted
      <3> QED
        BY <2>1, <2>3, <3>2, Sizes
    <2> QED
      BY <2>2, <2>3 DEF Bounded
  <1>7. Refused'
    <2> SUFFICES ASSUME NEW s \in Thread, pc'[s] = "refuse"
                 PROVE  MaxRequests - Others <= Cardinality(Recent(s))
      BY <1>1 DEF Refused, Recent
    <2>1. CASE s # t
      BY <1>2, <2>1 DEF Refused
    <2>2. CASE s = t /\ window = << >>
      <3>1. Len(window) = 0 /\ Len(window) >= MaxRequests
        BY <1>2, <2>2
      <3>2. Cardinality(Recent(s)) \in Nat
        BY AllCounted
      <3> QED
        BY <3>1, <3>2, Sizes
    <2>3. CASE s = t /\ window # << >>
      <3> DEFINE h == Dropped + 1
      <3>1. Len(window) >= MaxRequests
        BY <1>2, <2>3
      <3>2. Len(window) >= 1 /\ h \in DOMAIN admitted /\ Head(window) = admitted[h]
        <4>1. Len(window) # 0
          BY <2>3 DEF WindowTyped
        <4>2. Len(window) >= 1 /\ 1 \in DOMAIN window /\ Head(window) = window[1]
          BY <1>4, <4>1, AdmittedDomain
        <4> QED
          BY <1>4, <4>2 DEF Suffix
      <3>3. seen[t] \in Nat /\ admitted[h] \in Nat /\ seen[t] - Window < admitted[h]
        BY <1>1, <2>3, <3>2, AdmittedDomain, Sizes DEF WindowTyped
      <3>4. h .. Len(admitted) \subseteq Recent(t) \cup Overtaken(h)
        <4> SUFFICES ASSUME NEW i \in h .. Len(admitted)
                     PROVE  \/ seen[t] - Window < admitted[i]
                            \/ h < i /\ admitted[i] < admitted[h]
          BY <1>4 DEF Recent, Overtaken
        <4>1. i \in DOMAIN admitted /\ admitted[i] \in Nat /\ (i = h \/ h < i)
          BY <1>4, AdmittedDomain
        <4> QED
          BY <3>3, <4>1, Sizes
      <3>5. Cardinality(h .. Len(admitted)) = Len(window)
        <4>1. Dropped <= Len(admitted) /\ Len(admitted) - Dropped = Len(window)
          BY <1>4
        <4> QED
          BY <1>4, <4>1, IntervalSize
      <3> HIDE DEF h
      <3>6. /\ IsFiniteSet(Recent(t)) /\ Cardinality(Recent(t)) \in Nat
            /\ IsFiniteSet(Overtaken(h)) /\ Cardinality(Overtaken(h)) \in Nat
            /\ Cardinality(Behind(h)) \in Nat
        BY AllCounted
      <3>7. /\ IsFiniteSet(Recent(t) \cup Overtaken(h))
            /\ Cardinality(Recent(t) \cup Overtaken(h)) \in Nat
            /\ Cardinality(Recent(t) \cup Overtaken(h)) <= Cardinality(Recent(t)) + Cardinality(Overtaken(h))
        BY <3>6, UnionAtMost
      <3>8. Cardinality(h .. Len(admitted)) <= Cardinality(Recent(t) \cup Overtaken(h))
        BY <3>4, <3>7, Counted
      <3>9. Cardinality(Overtaken(h)) + Cardinality(Behind(h)) <= Others
        BY <3>2 DEF Late
      <3> QED
        BY <1>4, <2>3, <3>1, <3>5, <3>6, <3>7, <3>8, <3>9, Sizes
    <2> QED
      BY <2>1, <2>2, <2>3
  <1> QED
    BY <1>2, <1>3, <1>5, <1>6, <1>7

LEMMA RefuseKeeps ==
    ASSUME WindowInv, NEW t \in Thread, Sliding!Refuse(t)
    PROVE  WindowInv'
  <1> USE DEF WindowInv
  <1>1. /\ pc[t] = "refuse" /\ pc' = [pc EXCEPT ![t] = "idle"]
        /\ seen' = [seen EXCEPT ![t] = 0]
        /\ UNCHANGED <<clock, window, admitted>>
    BY DEF Sliding!Refuse, Sliding!At
  <1>2. /\ WindowTyped' /\ pc'[t] = "idle"
        /\ seen'[t] = 0 /\ clock \in Nat
        /\ \A s \in Thread \ {t} : pc'[s] = pc[s] /\ seen'[s] = seen[s]
    BY <1>1 DEF WindowTyped
  <1>3. Suffix' /\ Past' /\ Refused'
    <2>1. Suffix'
      BY <1>1 DEF Suffix, Dropped
    <2>2. (\A s \in Thread : seen[s] <= clock)'
      BY <1>1, <1>2 DEF Past
    <2>3. Past'
      BY <1>1, <2>2 DEF Past
    <2>4. Refused'
      BY <1>1, <1>2 DEF Refused, Recent
    <2> QED
      BY <2>1, <2>3, <2>4
  <1>4. \A i : Behind(i)' = Behind(i) /\ Overtaken(i)' = Overtaken(i)
    BY <1>1, <1>2 DEF Behind, Overtaken
  <1>5. \A at : /\ Coming(at, {"append"})' = Coming(at, {"append"})
                /\ Coming(at, {"drop", "append"})' = Coming(at, {"drop", "append"})
                /\ InWindow(at)' = InWindow(at)
    BY <1>1, <1>2 DEF Coming, InWindow
  <1>6. Late'
    BY <1>1, <1>4 DEF Late
  <1>7. Bounded'
    BY <1>1, <1>5 DEF Bounded, Dropped
  <1> QED
    BY <1>2, <1>3, <1>6, <1>7

LEMMA AdmitKeeps ==
    ASSUME WindowInv, NEW t \in Thread, Sliding!Admit(t)
    PROVE  WindowInv'
  <1> USE DEF WindowInv
  <1>0. PICK n : n = Len(admitted) + 1
    OBVIOUS
  <1>1. /\ pc[t] = "append" /\ pc' = [pc EXCEPT ![t] = "idle"]
        /\ window' = Append(window, seen[t])
        /\ admitted' = Append(admitted, seen[t])
        /\ seen' = [seen EXCEPT ![t] = 0] /\ clock' = clock
    BY DEF Sliding!Admit, Sliding!At
  <1>2. /\ seen[t] \in Nat /\ pc'[t] = "idle" /\ clock \in Nat
        /\ \A s \in Thread \ {t} : pc'[s] = pc[s] /\ seen'[s] = seen[s]
    BY <1>1 DEF WindowTyped
  <1>3. /\ WindowTyped'
        /\ n \in Nat /\ n \notin DOMAIN admitted /\ DOMAIN admitted' = DOMAIN admitted \cup {n}
        /\ Len(admitted') = n /\ admitted'[n] = seen[t]
        /\ \A i \in DOMAIN admitted : admitted'[i] = admitted[i] /\ i < n
    BY <1>0, <1>1, <1>2 DEF WindowTyped
  <1>4. /\ Len(window') = Len(window) + 1 /\ window'[Len(window) + 1] = seen[t]
        /\ Len(window) \in Nat
        /\ DOMAIN window' = DOMAIN window \cup {Len(window) + 1}
        /\ \A j \in DOMAIN window : window'[j] = window[j]
    BY <1>1, <1>2 DEF WindowTyped
  <1>5. Dropped' = Dropped /\ Dropped \in Nat /\ Dropped < n /\ Dropped + (Len(window) + 1) = n
    BY <1>0, <1>3, <1>4, AdmittedDomain DEF Suffix, Dropped
  <1>6. Suffix'
    <2>1. \A j \in DOMAIN window : Dropped + j \in DOMAIN admitted
      BY AdmittedDomain DEF Suffix, Dropped
    <2>2. \A j \in DOMAIN window' : window'[j] = admitted'[Dropped + j]
      BY <1>3, <1>4, <1>5, <2>1 DEF Suffix
    <2>3. Len(window') <= Len(admitted')
      BY <1>3, <1>4, AdmittedDomain DEF Suffix
    <2> QED
      BY <1>5, <2>2, <2>3 DEF Suffix
  <1>7. Past'
    <2>1. \A s \in Thread : seen'[s] = seen[s] \/ seen'[s] = 0
      BY <1>1, <1>2 DEF WindowTyped
    <2>2. (\A s \in Thread : seen[s] <= clock)'
      BY <1>1, <1>2, <2>1 DEF Past
    <2>3. (\A i \in DOMAIN admitted : admitted[i] <= clock)'
      BY <1>1, <1>2, <1>3 DEF Past
    <2> QED
      BY <2>2, <2>3 DEF Past
  <1>8. \A i \in DOMAIN admitted : admitted[i] \in Nat
    BY AdmittedDomain
  <1>9. Late'
    <2>1. ASSUME NEW i \in DOMAIN admitted, seen[t] < admitted[i]
          PROVE  Cardinality(Overtaken(i)') + Cardinality(Behind(i)') <= Others
      <3>1. Overtaken(i)' = Overtaken(i) \cup {n} /\ n \notin Overtaken(i)
        BY <1>3, <2>1 DEF Overtaken
      <3>2. Behind(i)' = Behind(i) \ {t} /\ t \in Behind(i)
        BY <1>1, <1>2, <1>3, <2>1 DEF Behind
      <3>3. /\ IsFiniteSet(Overtaken(i)) /\ IsFiniteSet(Behind(i))
            /\ Cardinality(Overtaken(i)) \in Nat /\ Cardinality(Behind(i)) \in Nat
        BY AllCounted
      <3>4. Cardinality(Overtaken(i)') = Cardinality(Overtaken(i)) + 1
        BY <3>1, <3>3, FS_AddElement
      <3>5. Cardinality(Behind(i)') = Cardinality(Behind(i)) - 1
        BY <3>2, <3>3, FS_RemoveElement
      <3> QED
        BY <2>1, <3>3, <3>4, <3>5, Sizes DEF Late
    <2>2. ASSUME NEW i \in DOMAIN admitted, ~(seen[t] < admitted[i])
          PROVE  Cardinality(Overtaken(i)') + Cardinality(Behind(i)') <= Others
      <3>1. Overtaken(i)' = Overtaken(i)
        BY <1>3, <2>2 DEF Overtaken
      <3>2. Behind(i)' = Behind(i)
        BY <1>1, <1>2, <1>3, <2>2 DEF Behind
      <3> QED
        BY <3>1, <3>2, <2>2 DEF Late
    <2>3. Cardinality(Overtaken(n)') + Cardinality(Behind(n)') <= Others
      <3>1. Overtaken(n)' = {}
        BY <1>3 DEF Overtaken
      <3>2. Behind(n)' \subseteq Thread /\ t \in Thread \ Behind(n)'
        BY <1>2 DEF Behind
      <3>3. Cardinality(Behind(n)') <= Others /\ Cardinality(Behind(n)') \in Nat
        BY <3>2, ThreadsCounted
      <3> QED
        BY <3>1, <3>3, FS_EmptySet, Sizes
    <2>4. \A i \in DOMAIN admitted' : Cardinality(Overtaken(i)') + Cardinality(Behind(i)') <= Others
      BY <1>3, <2>1, <2>2, <2>3
    <2> QED
      BY <2>4 DEF Late
  <1>10. Bounded'
    <2>1. ASSUME NEW at \in Nat, ~(at - Window < seen[t] /\ seen[t] <= at)
          PROVE  /\ InWindow(at)' = InWindow(at)
                 /\ Coming(at, {"append"})' = Coming(at, {"append"})
                 /\ Coming(at, {"drop", "append"})' = Coming(at, {"drop", "append"})
      BY <1>1, <1>2, <1>3, <2>1 DEF InWindow, Coming
    <2>2. ASSUME NEW at \in Nat, at - Window < seen[t], seen[t] <= at
          PROVE  /\ InWindow(at)' = InWindow(at) \cup {n}
                 /\ Cardinality(InWindow(at)') = Cardinality(InWindow(at)) + 1
                 /\ Cardinality(Coming(at, {"append"})') = Cardinality(Coming(at, {"append"})) - 1
                 /\ Cardinality(Coming(at, {"drop", "append"})')
                       = Cardinality(Coming(at, {"drop", "append"})) - 1
      <3>1. InWindow(at)' = InWindow(at) \cup {n} /\ n \notin InWindow(at)
        BY <1>3, <2>2 DEF InWindow
      <3>2. ASSUME NEW steps, "append" \in steps, "idle" \notin steps
            PROVE  Coming(at, steps)' = Coming(at, steps) \ {t} /\ t \in Coming(at, steps)
        BY <1>1, <1>2, <2>2, <3>2 DEF Coming
      <3>3. /\ IsFiniteSet(InWindow(at))
            /\ \A steps : IsFiniteSet(Coming(at, steps))
        BY AllCounted
      <3>4. Cardinality(InWindow(at)') = Cardinality(InWindow(at)) + 1
        BY <3>1, <3>3, FS_AddElement
      <3>5. ASSUME NEW steps, "append" \in steps, "idle" \notin steps
            PROVE  Cardinality(Coming(at, steps)') = Cardinality(Coming(at, steps)) - 1
        BY <3>2, <3>3, <3>5, FS_RemoveElement
      <3> QED
        BY <3>1, <3>4, <3>5
    <2>3. \A at : /\ Cardinality(InWindow(at)) \in Nat
                  /\ \A steps : Cardinality(Coming(at, steps)) \in Nat
      BY AllCounted
    <2> SUFFICES ASSUME NEW at \in Nat
                 PROVE  \/ /\ \A i \in InWindow(at)' : Dropped < i
                           /\ Cardinality(InWindow(at)') + Cardinality(Coming(at, {"append"})') <= MaxRequests + Others
                        \/ /\ at < clock
                           /\ Cardinality(InWindow(at)') + Cardinality(Coming(at, {"drop", "append"})')
                                 <= MaxRequests + Others + Others
      BY <1>1, <1>5 DEF Bounded
    <2>4. CASE ~(at - Window < seen[t] /\ seen[t] <= at)
      BY <2>1, <2>4 DEF Bounded
    <2>5. CASE at - Window < seen[t] /\ seen[t] <= at
      <3>1. (\A i \in InWindow(at) : Dropped < i) => \A i \in InWindow(at)' : Dropped < i
        BY <1>5, <2>2, <2>5
      <3>2. Cardinality(InWindow(at)') + Cardinality(Coming(at, {"append"})')
              = Cardinality(InWindow(at)) + Cardinality(Coming(at, {"append"}))
        BY <2>2, <2>3, <2>5
      <3>3. Cardinality(InWindow(at)') + Cardinality(Coming(at, {"drop", "append"})')
              = Cardinality(InWindow(at)) + Cardinality(Coming(at, {"drop", "append"}))
        BY <2>2, <2>3, <2>5
      <3> QED
        BY <3>1, <3>2, <3>3 DEF Bounded
    <2> QED
      BY <2>4, <2>5
  <1>11. Refused'
    <2> SUFFICES ASSUME NEW s \in Thread, pc'[s] = "refuse"
                 PROVE  MaxRequests - Others <= Cardinality(Recent(s)')
      BY DEF Refused
    <2>1. pc[s] = "refuse"
      BY <1>1, <1>2
    <2>2. Recent(s) \subseteq Recent(s)'
      BY <1>1, <1>3 DEF Recent
    <2>3. IsFiniteSet(DOMAIN admitted') /\ Recent(s)' \subseteq DOMAIN admitted'
      <3>1. IsFiniteSet(DOMAIN admitted)
        BY AdmittedDomain
      <3>2. IsFiniteSet(DOMAIN admitted \cup {n})
        BY <3>1, FS_AddElement
      <3> QED
        BY <1>3, <3>2 DEF Recent
    <2>4. /\ Cardinality(Recent(s)') \in Nat /\ Cardinality(Recent(s)) \in Nat
          /\ Cardinality(Recent(s)) <= Cardinality(Recent(s)')
      BY <2>2, <2>3, AllCounted, Counted
    <2>5. MaxRequests - Others <= Cardinality(Recent(s))
      BY <2>1 DEF Refused
    <2> QED
      BY <2>4, <2>5, Sizes
  <1> QED
    BY <1>3, <1>6, <1>7, <1>9, <1>10, <1>11

LEMMA TickKeeps ==
    ASSUME WindowInv, Sliding!Tick
    PROVE  WindowInv'
  <1> USE DEF WindowInv
  <1>1. clock' = clock + 1 /\ UNCHANGED <<window, pc, seen, admitted>> /\ clock \in Nat
    BY DEF Sliding!Tick, WindowTyped
  <1>2. WindowTyped' /\ Suffix' /\ Late' /\ Refused'
    BY <1>1 DEF WindowTyped, Suffix, Late, Refused, Dropped, Overtaken, Behind, Recent
  <1>3. Past'
    BY <1>1, AdmittedDomain DEF Past, WindowTyped
  <1>4. Bounded'
    <2>1. \A at \in Nat : at < clock => at < clock'
      BY <1>1
    <2>2. Dropped' = Dropped
      BY <1>1 DEF Dropped
    <2>3. \A at : /\ InWindow(at)' = InWindow(at)
                  /\ \A steps : Coming(at, steps)' = Coming(at, steps)
      BY <1>1 DEF InWindow, Coming
    <2> QED
      BY <2>1, <2>2, <2>3 DEF Bounded
  <1> QED
    BY <1>2, <1>3, <1>4

LEMMA WindowStep == WindowInv /\ [Sliding!Next]_(Sliding!vars) => WindowInv'
  <1> SUFFICES ASSUME WindowInv, [Sliding!Next]_(Sliding!vars) PROVE WindowInv'
    OBVIOUS
  <1>1. CASE UNCHANGED Sliding!vars
    BY <1>1 DEF Sliding!vars, WindowInv, WindowTyped, Suffix, Past, Late, Bounded, Refused, Dropped,
                InWindow, Coming, Overtaken, Behind, Recent
  <1>2. ASSUME NEW t \in Thread, Sliding!Check(t) PROVE WindowInv'
    BY <1>2, ReadClockKeeps, DropOneKeeps, CountKeeps, RefuseKeeps, AdmitKeeps DEF Sliding!Check
  <1> QED
    BY <1>1, <1>2, TickKeeps DEF Sliding!Next

LEMMA SlidingCardinality == \A S : Sliding!Cardinality(S) = Cardinality(S)
  BY DEF Sliding!Cardinality, Cardinality, Sliding!IsFiniteSet, IsFiniteSet

LEMMA WindowHolds == WindowInv => OffByThreadsOnly
  <1> SUFFICES ASSUME WindowInv PROVE OffByThreadsOnly
    OBVIOUS
  <1> USE DEF WindowInv
  <1>1. clock \in Nat /\ \A i \in DOMAIN admitted : admitted[i] \in Nat
    BY AdmittedDomain DEF WindowTyped
  <1>2. ASSUME NEW at \in 0 .. clock
        PROVE  Cardinality(Sliding!Since(at - Window) \ Sliding!Since(at)) <= MaxRequests + 2 * Others
    <2>1. Sliding!Since(at - Window) \ Sliding!Since(at) = InWindow(at)
      BY <1>1, Sizes DEF Sliding!Since, InWindow
    <2>2. /\ Cardinality(InWindow(at)) \in Nat
          /\ Cardinality(Coming(at, {"append"})) \in Nat
          /\ Cardinality(Coming(at, {"drop", "append"})) \in Nat
      BY AllCounted
    <2>3. \/ Cardinality(InWindow(at)) + Cardinality(Coming(at, {"append"})) <= MaxRequests + Others
          \/ Cardinality(InWindow(at)) + Cardinality(Coming(at, {"drop", "append"}))
                 <= MaxRequests + Others + Others
      BY <1>1 DEF Bounded
    <2> QED
      BY <2>1, <2>2, <2>3, Sizes
  <1>3. ASSUME NEW t \in Thread, pc[t] = "refuse"
        PROVE  Cardinality(Sliding!Since(seen[t] - Window)) >= MaxRequests - Others
    <2>1. Sliding!Since(seen[t] - Window) = Recent(t)
      BY <1>1, Sizes DEF Sliding!Since, Recent, WindowTyped
    <2>2. Cardinality(Recent(t)) \in Nat
      BY AllCounted
    <2> QED
      BY <1>3, <2>1, <2>2, Sizes DEF Refused
  <1> QED
    BY <1>2, <1>3, SlidingCardinality DEF OffByThreadsOnly, Sliding!OffByThreadsOnly, Others

-----------------------------------------------------------------------------
(* The registration, for every set of requests and payloads *)

RegisterSteps == {"idle", "look", "hash", "insert", "refresh", "201", "409", "422", "500"}

\* Every variable keeps its type, as far as the proof needs it.
RowsTyped ==
    /\ payload \in [Request -> Payload \cup {Register!None}]
    /\ handler \in [Request -> RegisterSteps]
    /\ DOMAIN looked = Request
    /\ faulted \subseteq Request

\* What a request knows of the users: it has seen users that are still there, and
\* holds none of them before its insert.
Knows(r) ==
    /\ looked[r] \subseteq users
    /\ handler[r] \in {"idle", "look", "hash", "insert", "409", "422"} => Register!Own(r) = {}
    /\ handler[r] \in {"hash", "insert"} => \A u \in looked[r] : ~Register!Conflicts(u, payload[r])
    /\ handler[r] \in {"refresh", "201"} => Register!Own(r) # {}

\* What a row says of the request that made it, and that no two rows conflict.
RowsOwn ==
    /\ \A u \in users :
          /\ u.username = payload[u.by].username.text
          /\ u.email = payload[u.by].email.text
          /\ u.hash = Register!HashPassword(payload[u.by].password)
    /\ \A u, v \in users : u # v => u.username # v.username /\ u.email # v.email

\* What the refusals and failures say.
RefusedFor(r) ==
    /\ handler[r] = "409" => \E u \in looked[r] : Register!Conflicts(u, payload[r])
    /\ handler[r] = "422" => Register!Errors(payload[r]) # {}
    /\ handler[r] = "500" =>
          \/ r \in faulted
          \/ Register!TooLong(payload[r].password)
          \/ Register!Own(r) = {} /\ \E u \in users \ looked[r] : Register!Conflicts(u, payload[r])

RegistrationInv == RowsTyped /\ RowsOwn /\ \A r \in Request : Knows(r) /\ RefusedFor(r)

-----------------------------------------------------------------------------

LEMMA RegistrationStarts == Register!Init => RegistrationInv
  BY DEF Register!Init, RegistrationInv, RowsTyped, RegisterSteps, Knows, RefusedFor, RowsOwn, Register!Own

\* A step that leaves the users alone keeps what concerns them.
LEMMA SameRows ==
    ASSUME UNCHANGED <<users, payload>>, RowsOwn
    PROVE  RowsOwn' /\ \A r \in Request : Register!Own(r)' = Register!Own(r)
  BY DEF RowsOwn, Register!Own

LEMMA RegistrationStep == RegistrationInv /\ [Register!Next]_(Register!vars) => RegistrationInv'
<1> SUFFICES ASSUME RegistrationInv, [Register!Next]_(Register!vars)
             PROVE  RegistrationInv'
  OBVIOUS
<1> USE DEF RowsTyped, Register!At, Register!Go
<1>1. ASSUME NEW r \in Request, NEW p \in Payload, Register!Post(r, p)
      PROVE  RegistrationInv'
  <2>1. RowsTyped'
    BY <1>1 DEF RegistrationInv, Register!Post, RegisterSteps
  <2>2. \A u \in users : u.by # r
    BY <1>1 DEF RegistrationInv, Register!Post, Knows, Register!Own
  <2>3. RowsOwn'
    BY <1>1, <2>2 DEF RegistrationInv, Register!Post, RowsOwn
  <2>4. ASSUME NEW s \in Request
        PROVE  Knows(s)' /\ RefusedFor(s)'
    <3>1. CASE s = r
      BY <1>1, <3>1 DEF RegistrationInv, Register!Post, Knows, RefusedFor, Register!Own
    <3>2. CASE s # r
      BY <1>1, <3>2 DEF RegistrationInv, Register!Post, Knows, RefusedFor, Register!Own
    <3> QED BY <3>1, <3>2
  <2> QED BY <2>1, <2>3, <2>4 DEF RegistrationInv
<1>2. ASSUME NEW r \in Request, Register!LookUp(r)
      PROVE  RegistrationInv'
  <2>1. RowsTyped'
    BY <1>2 DEF RegistrationInv, Register!LookUp, RegisterSteps
  <2>2. RowsOwn' /\ \A s \in Request : Register!Own(s)' = Register!Own(s)
    BY <1>2, SameRows DEF RegistrationInv, Register!LookUp
  <2>3. ASSUME NEW s \in Request
        PROVE  Knows(s)' /\ RefusedFor(s)'
    <3>1. CASE s = r
      BY <1>2, <2>2, <3>1 DEF RegistrationInv, Register!LookUp, Knows, RefusedFor
    <3>2. CASE s # r
      BY <1>2, <2>2, <3>2 DEF RegistrationInv, Register!LookUp, Knows, RefusedFor
    <3> QED BY <3>1, <3>2
  <2> QED BY <2>1, <2>2, <2>3 DEF RegistrationInv
<1>3. ASSUME NEW r \in Request, Register!Hash(r)
      PROVE  RegistrationInv'
  <2>1. RowsTyped'
    BY <1>3 DEF RegistrationInv, Register!Hash, RegisterSteps
  <2>2. RowsOwn' /\ \A s \in Request : Register!Own(s)' = Register!Own(s)
    BY <1>3, SameRows DEF RegistrationInv, Register!Hash
  <2>3. ASSUME NEW s \in Request
        PROVE  Knows(s)' /\ RefusedFor(s)'
    BY <1>3, <2>2 DEF RegistrationInv, Register!Hash, Knows, RefusedFor
  <2> QED BY <2>1, <2>2, <2>3 DEF RegistrationInv
<1>4. ASSUME NEW r \in Request, Register!Insert(r)
      PROVE  RegistrationInv'
  <2> DEFINE p == payload[r]
             row == [username |-> p.username.text, email |-> p.email.text,
                     hash |-> Register!HashPassword(p.password), by |-> r]
  <2>0. Register!Own(r) = {}
    BY <1>4 DEF RegistrationInv, Register!Insert, Knows
  <2>1. RowsTyped'
    BY <1>4 DEF RegistrationInv, Register!Insert, RegisterSteps
  <2>2. CASE \E u \in users : Register!Conflicts(u, p)
    <3>1. handler' = [handler EXCEPT ![r] = "500"] /\ UNCHANGED <<users, payload, looked, faulted>>
      BY <1>4, <2>2 DEF Register!Insert
    <3>2. RowsOwn' /\ \A s \in Request : Register!Own(s)' = Register!Own(s)
      BY <3>1, SameRows DEF RegistrationInv
    <3>3. PICK u \in users : Register!Conflicts(u, p)
      BY <2>2
    <3>4. u \notin looked[r]
      BY <1>4, <3>3 DEF RegistrationInv, Register!Insert, Knows
    <3>5. ASSUME NEW s \in Request
          PROVE  Knows(s)' /\ RefusedFor(s)'
      <4>1. CASE s = r
        <5>1. Register!Conflicts(u, payload[r])'
          BY <3>1, <3>3 DEF Register!Conflicts
        <5>2. RefusedFor(r)'
          BY <2>0, <3>1, <3>2, <3>4, <5>1 DEF RegistrationInv, RefusedFor
        <5>3. Knows(r)'
          BY <3>1, <3>2 DEF RegistrationInv, Knows
        <5> QED BY <4>1, <5>2, <5>3
      <4>2. CASE s # r
        BY <3>1, <3>2, <4>2 DEF RegistrationInv, Knows, RefusedFor, Register!Conflicts
      <4> QED BY <4>1, <4>2
    <3> QED BY <2>1, <3>2, <3>5 DEF RegistrationInv
  <2>3. CASE ~\E u \in users : Register!Conflicts(u, p)
    <3>1. /\ users' = users \cup {row}
          /\ handler' = [handler EXCEPT ![r] = "refresh"]
          /\ UNCHANGED <<payload, looked, faulted>>
      BY <1>4, <2>3 DEF Register!Insert
    <3>2. RowsOwn'
      BY <2>3, <3>1 DEF RegistrationInv, RowsOwn, Register!Conflicts, Register!HashPassword, Register!TooLong
    <3>3. \A s \in Request : s # r => Register!Own(s)' = Register!Own(s)
      BY <3>1 DEF Register!Own
    <3>4. Register!Own(r)' # {}
      <4>1. row \in users' /\ row.by = r
        BY <3>1
      <4> QED BY <4>1 DEF Register!Own
    <3>5. ASSUME NEW s \in Request
          PROVE  Knows(s)' /\ RefusedFor(s)'
      <4>1. CASE s = r
        BY <3>1, <3>4, <4>1 DEF RegistrationInv, Knows, RefusedFor
      <4>2. CASE s # r
        BY <3>1, <3>3, <4>2 DEF RegistrationInv, Knows, RefusedFor, Register!Conflicts, Register!Errors, Register!TooLong
      <4> QED BY <4>1, <4>2
    <3> QED BY <2>1, <3>2, <3>5 DEF RegistrationInv
  <2> QED BY <2>2, <2>3
<1>5. ASSUME NEW r \in Request, Register!Refresh(r) \/ Register!Fault(r)
      PROVE  RegistrationInv'
  <2>1. RowsTyped'
    BY <1>5 DEF RegistrationInv, Register!Refresh, Register!Fault, RegisterSteps
  <2>2. RowsOwn' /\ \A s \in Request : Register!Own(s)' = Register!Own(s)
    BY <1>5, SameRows DEF RegistrationInv, Register!Refresh, Register!Fault
  <2>3. ASSUME NEW s \in Request
        PROVE  Knows(s)' /\ RefusedFor(s)'
    BY <1>5, <2>2 DEF RegistrationInv, Register!Refresh, Register!Fault, Knows, RefusedFor
  <2> QED BY <2>1, <2>2, <2>3 DEF RegistrationInv
<1>6. CASE UNCHANGED Register!vars
  BY <1>6 DEF RegistrationInv, Register!vars, RowsOwn, Knows, RefusedFor, Register!Own, Register!Conflicts
<1> QED
  BY <1>1, <1>2, <1>3, <1>4, <1>5, <1>6 DEF Register!Next, Register!Serve

\* The invariant says what the answers claim.
LEMMA RegistrationTells == RegistrationInv => OutcomeTold
<1> SUFFICES ASSUME RegistrationInv, NEW r \in Request
             PROVE  LET p == payload[r]
                        takenBy(others) == \E u \in others : Register!Conflicts(u, p) /\ u.by # r
                    IN  /\ Register!At(r, "201") =>
                             \E u \in Register!Own(r) :
                                /\ u.username = p.username.text /\ u.email = p.email.text
                                /\ Register!VerifyPassword(p.password, u.hash)
                                /\ \A v \in users \ {u} : ~Register!Conflicts(v, p)
                        /\ Register!At(r, "409") => Register!Own(r) = {} /\ takenBy(looked[r])
                        /\ Register!At(r, "422") => Register!Own(r) = {} /\ Register!Errors(p) # {}
                        /\ Register!At(r, "500") =>
                             \/ r \in faulted
                             \/ Register!TooLong(p.password)
                             \/ Register!Own(r) = {} /\ takenBy(users \ looked[r])
  BY DEF OutcomeTold, Register!OutcomeTold
<1> USE DEF Register!At
<1>1. ASSUME handler[r] = "201"
      PROVE  \E u \in Register!Own(r) :
                /\ u.username = payload[r].username.text /\ u.email = payload[r].email.text
                /\ Register!VerifyPassword(payload[r].password, u.hash)
                /\ \A v \in users \ {u} : ~Register!Conflicts(v, payload[r])
  <2>1. PICK u \in Register!Own(r) : TRUE
    BY <1>1 DEF RegistrationInv, Knows
  <2> QED BY <2>1 DEF RegistrationInv, RowsOwn, Register!Own, Register!VerifyPassword, Register!Conflicts
<1>2. handler[r] = "409" => Register!Own(r) = {} /\ \E u \in looked[r] : Register!Conflicts(u, payload[r]) /\ u.by # r
  BY DEF RegistrationInv, Knows, RefusedFor, Register!Own
<1>3. handler[r] = "422" => Register!Own(r) = {} /\ Register!Errors(payload[r]) # {}
  BY DEF RegistrationInv, Knows, RefusedFor
<1>4. handler[r] = "500" =>
         \/ r \in faulted
         \/ Register!TooLong(payload[r].password)
         \/ Register!Own(r) = {} /\ \E u \in users \ looked[r] : Register!Conflicts(u, payload[r]) /\ u.by # r
  BY DEF RegistrationInv, RefusedFor, Register!Own
<1> QED BY <1>1, <1>2, <1>3, <1>4

LEMMA RegistrationKeeps == Register!Spec => []RegistrationInv
  BY RegistrationStarts, RegistrationStep, PTL DEF Register!Spec

-----------------------------------------------------------------------------
(* Remainders *)

LEMMA LeastOf ==
    ASSUME NEW S \in SUBSET Nat, S # {}
    PROVE  \E m \in S : \A k \in S : m <= k
  <1> DEFINE R == {r \in Nat \X Nat : r[1] < r[2]}
  <1>1. IsWellFoundedOn(R, Nat)
    BY NatLessThanWellFounded DEF OpToRel
  <1> HIDE DEF R
  <1>2. PICK m \in S : \A k \in S : <<k, m>> \notin R
    BY <1>1, WFMin
  <1>3. \A k \in S : ~(k < m)
    BY <1>2 DEF R
  <1> QED
    BY <1>3

LEMMA AllNaturals ==
    ASSUME NEW S, 0 \in S, \A n \in Nat : n \in S => n + 1 \in S
    PROVE  \A n \in Nat : n \in S
  <1> DEFINE T == Nat \ S
  <1>1. SUFFICES ASSUME T # {} PROVE FALSE
    OBVIOUS
  <1>2. PICK m \in T : \A k \in T : m <= k
    BY <1>1, LeastOf
  <1>3. m # 0 /\ m - 1 \in Nat /\ m - 1 \notin T
    BY <1>2
  <1> QED
    BY <1>2, <1>3

LEMMA DivMod ==
    ASSUME NEW a \in Int, NEW p \in Nat \ {0}
    PROVE  a = p * (a \div p) + (a % p) /\ a % p \in 0 .. p - 1 /\ a \div p \in Int
  OBVIOUS

LEMMA ModOf ==
    ASSUME NEW p \in Nat \ {0}, NEW k \in Int, NEW r \in 0 .. p - 1
    PROVE  (p * k + r) % p = r
  OBVIOUS

\* Numbers that differ by a multiple leave the same remainder.
LEMMA ModSame ==
    ASSUME NEW p \in Nat \ {0}, NEW k \in Int, NEW a \in Int
    PROVE  (p * k + a) % p = a % p
  <1>1. PICK j \in Int, r \in 0 .. p - 1 : a = p * j + r /\ r = a % p
    BY DivMod
  <1>2. p * k + a = p * (k + j) + r /\ k + j \in Int
    BY <1>1
  <1> QED
    BY <1>1, <1>2, ModOf

\* The remainder of a product is that of the remainder's product.
LEMMA ModTimes ==
    ASSUME NEW p \in Nat \ {0}, NEW a \in Int, NEW b \in Int
    PROVE  /\ ((a % p) * b) % p = (a * b) % p
           /\ (b * (a % p)) % p = (b * a) % p
  <1>1. PICK j \in Int, r \in 0 .. p - 1 : a = p * j + r /\ r = a % p
    BY DivMod
  <1>2. j * b \in Int /\ r * b \in Int /\ a * b = p * (j * b) + r * b
    BY <1>1
  <1>3. (a * b) % p = (r * b) % p
    BY <1>2, ModSame
  <1>4. b * a = a * b /\ b * r = r * b
    BY <1>1
  <1> QED
    BY <1>1, <1>3, <1>4

-----------------------------------------------------------------------------
(* What pow(b, e, p) computes *)

IsPower(f, b, e, p) == f = [n \in 0 .. e |-> IF n = 0 THEN 1 ELSE (f[n - 1] * b) % p]

LEMMA PowerExists ==
    ASSUME NEW b \in Nat, NEW p \in Nat \ {0, 1}
    PROVE  \A e \in Nat : \E f : IsPower(f, b, e, p)
  <1> DEFINE S == {e \in Nat : \E f : IsPower(f, b, e, p)}
  <1>1. 0 \in S
    <2>1. IsPower([n \in 0 .. 0 |-> 1], b, 0, p)
      BY DEF IsPower
    <2> QED
      BY <2>1
  <1>2. ASSUME NEW e \in Nat, e \in S PROVE e + 1 \in S
    <2>1. PICK f : IsPower(f, b, e, p)
      BY <1>2
    <2> DEFINE h == [n \in 0 .. e + 1 |-> IF n = e + 1 THEN (f[e] * b) % p ELSE f[n]]
    <2>2. IsPower(h, b, e + 1, p)
      <3>1. \A n \in 0 .. e : f[n] = IF n = 0 THEN 1 ELSE (f[n - 1] * b) % p
        BY <2>1 DEF IsPower
      <3>2. ASSUME NEW n \in 0 .. e + 1
            PROVE  h[n] = IF n = 0 THEN 1 ELSE (h[n - 1] * b) % p
        <4>1. n # 0 => n - 1 \in 0 .. e /\ h[n - 1] = f[n - 1]
          OBVIOUS
        <4>2. CASE n = e + 1
          BY <4>1, <4>2, n # 0, n - 1 = e
        <4>3. CASE n # e + 1
          <5>1. n \in 0 .. e /\ h[n] = f[n]
            BY <4>3
          <5> QED
            BY <3>1, <4>1, <5>1
        <4> QED
          BY <4>2, <4>3
      <3>3. h = [n \in 0 .. e + 1 |-> h[n]]
        OBVIOUS
      <3> HIDE DEF h
      <3> QED
        BY <3>2, <3>3 DEF IsPower
    <2> QED
      BY <2>2
  <1> HIDE DEF S
  <1>3. \A e \in Nat : e \in S
    BY <1>1, <1>2, AllNaturals
  <1> QED
    BY <1>3 DEF S

LEMMA PowerUnique ==
    ASSUME NEW b \in Nat, NEW p \in Nat \ {0, 1}, NEW e \in Nat, NEW d \in Nat,
           NEW f, IsPower(f, b, e, p), NEW h, IsPower(h, b, d, p)
    PROVE  \A n \in Nat : n <= e /\ n <= d => f[n] = h[n]
  <1> DEFINE S == {n \in Nat : (n <= e /\ n <= d) => f[n] = h[n]}
  <1>0. /\ \A n \in 0 .. e : f[n] = IF n = 0 THEN 1 ELSE (f[n - 1] * b) % p
        /\ \A n \in 0 .. d : h[n] = IF n = 0 THEN 1 ELSE (h[n - 1] * b) % p
    BY DEF IsPower
  <1>1. 0 \in S
    BY <1>0
  <1>2. ASSUME NEW n \in Nat, n \in S PROVE n + 1 \in S
    BY <1>0, <1>2, n + 1 # 0, n + 1 - 1 = n
  <1> HIDE DEF S
  <1>3. \A n \in Nat : n \in S
    BY <1>1, <1>2, AllNaturals
  <1> QED
    BY <1>3 DEF S

\* Pow is what pow computes: each power from the one below.
LEMMA PowStep ==
    ASSUME NEW b \in Nat, NEW p \in Nat \ {0, 1}
    PROVE  /\ Proving!Pow(b, 0, p) = 1
           /\ \A e \in Nat : Proving!Pow(b, e + 1, p) = (Proving!Pow(b, e, p) * b) % p
  <1>1. ASSUME NEW e \in Nat
        PROVE  \E f : IsPower(f, b, e, p) /\ Proving!Pow(b, e, p) = f[e]
    <2>1. Proving!Pow(b, e, p) = (CHOOSE f : IsPower(f, b, e, p))[e]
      BY DEF Proving!Pow, IsPower
    <2>2. IsPower((CHOOSE f : IsPower(f, b, e, p)), b, e, p)
      BY PowerExists
    <2> QED
      BY <2>1, <2>2
  <1>2. Proving!Pow(b, 0, p) = 1
    <2>1. PICK f : IsPower(f, b, 0, p) /\ Proving!Pow(b, 0, p) = f[0]
      BY <1>1
    <2>2. f[0] = 1
      BY <2>1 DEF IsPower
    <2> QED
      BY <2>1, <2>2
  <1>3. ASSUME NEW e \in Nat
        PROVE  Proving!Pow(b, e + 1, p) = (Proving!Pow(b, e, p) * b) % p
    <2>1. PICK f : IsPower(f, b, e, p) /\ Proving!Pow(b, e, p) = f[e]
      BY <1>1
    <2>2. e + 1 \in Nat
      OBVIOUS
    <2>3. PICK h : IsPower(h, b, e + 1, p) /\ Proving!Pow(b, e + 1, p) = h[e + 1]
      BY <1>1, <2>2
    <2>4. h[e + 1] = (h[e] * b) % p
      BY <2>3, e + 1 \in 0 .. e + 1, e + 1 - 1 = e, e + 1 # 0 DEF IsPower
    <2>5. f[e] = h[e]
      BY <2>1, <2>2, <2>3, PowerUnique
    <2> QED
      BY <2>1, <2>3, <2>4, <2>5
  <1> QED
    BY <1>2, <1>3

LEMMA PowType ==
    ASSUME NEW b \in Nat, NEW p \in Nat \ {0, 1}
    PROVE  \A e \in Nat : Proving!Pow(b, e, p) \in 0 .. p - 1
  <1> DEFINE S == {e \in Nat : Proving!Pow(b, e, p) \in 0 .. p - 1}
  <1>1. 0 \in S
    <2>1. Proving!Pow(b, 0, p) = 1
      BY PowStep
    <2>2. 1 \in 0 .. p - 1
      OBVIOUS
    <2> QED
      BY <2>1, <2>2
  <1>2. ASSUME NEW e \in Nat, e \in S PROVE e + 1 \in S
    <2>1. Proving!Pow(b, e + 1, p) = (Proving!Pow(b, e, p) * b) % p
      BY PowStep
    <2>2. Proving!Pow(b, e, p) * b \in Int
      BY <1>2
    <2>3. (Proving!Pow(b, e, p) * b) % p \in 0 .. p - 1
      BY <2>2, DivMod
    <2> QED
      BY <2>1, <2>3
  <1> HIDE DEF S
  <1>3. \A e \in Nat : e \in S
    BY <1>1, <1>2, AllNaturals
  <1> QED
    BY <1>3 DEF S

LEMMA PowOfOne ==
    ASSUME NEW p \in Nat \ {0, 1}
    PROVE  \A e \in Nat : Proving!Pow(1, e, p) = 1
  <1> DEFINE S == {e \in Nat : Proving!Pow(1, e, p) = 1}
  <1>1. 0 \in S
    BY PowStep
  <1>2. ASSUME NEW e \in Nat, e \in S PROVE e + 1 \in S
    <2>1. Proving!Pow(1, e + 1, p) = (1 * 1) % p
      BY <1>2, PowStep, 1 \in Nat
    <2>2. (1 * 1) % p = 1
      OBVIOUS
    <2> QED
      BY <2>1, <2>2
  <1> HIDE DEF S
  <1>3. \A e \in Nat : e \in S
    BY <1>1, <1>2, AllNaturals
  <1> QED
    BY <1>3 DEF S

LEMMA PowAdds ==
    ASSUME NEW b \in Nat, NEW p \in Nat \ {0, 1}, NEW m \in Nat
    PROVE  \A n \in Nat :
              Proving!Pow(b, m + n, p) = (Proving!Pow(b, m, p) * Proving!Pow(b, n, p)) % p
  <1> DEFINE P(e) == Proving!Pow(b, e, p)
             S == {n \in Nat : P(m + n) = (P(m) * P(n)) % p}
  <1>0. /\ \A e \in Nat : P(e) \in 0 .. p - 1
        /\ P(0) = 1 /\ \A e \in Nat : P(e + 1) = (P(e) * b) % p
    BY PowType, PowStep
  <1> HIDE DEF P
  <1>1. 0 \in S
    <2>1. m + 0 = m /\ P(m) \in 0 .. p - 1 /\ P(m) * 1 = P(m)
      BY <1>0
    <2>2. P(m) % p = P(m)
      BY <2>1
    <2> QED
      BY <1>0, <2>1, <2>2
  <1>2. ASSUME NEW n \in Nat, n \in S PROVE n + 1 \in S
    <2>1. P(m + (n + 1)) = (P(m + n) * b) % p
      BY <1>0, m + n \in Nat, m + (n + 1) = (m + n) + 1
    <2>2. P(m) \in Int /\ P(n) \in Int /\ P(m) * P(n) \in Int /\ P(n) * b \in Int
      BY <1>0
    <2>3. (P(m + n) * b) % p = ((P(m) * P(n)) * b) % p
      BY <1>2, <2>2, ModTimes
    <2>4. (P(m) * P(n + 1)) % p = (P(m) * (P(n) * b)) % p
      BY <1>0, <2>2, ModTimes
    <2>5. (P(m) * P(n)) * b = P(m) * (P(n) * b)
      BY <2>2
    <2> QED
      BY <2>1, <2>3, <2>4, <2>5
  <1> HIDE DEF S
  <1>3. \A n \in Nat : n \in S
    BY <1>1, <1>2, AllNaturals
  <1> QED
    BY <1>3 DEF S, P

LEMMA PowOfPow ==
    ASSUME NEW b \in Nat, NEW p \in Nat \ {0, 1}, NEW m \in Nat
    PROVE  \A n \in Nat : Proving!Pow(Proving!Pow(b, m, p), n, p) = Proving!Pow(b, m * n, p)
  <1> DEFINE y == Proving!Pow(b, m, p)
             S == {n \in Nat : Proving!Pow(y, n, p) = Proving!Pow(b, m * n, p)}
  <1>0. y \in Nat
    BY PowType
  <1> HIDE DEF y
  <1>1. 0 \in S
    BY <1>0, PowStep, m * 0 = 0
  <1>2. ASSUME NEW n \in Nat, n \in S PROVE n + 1 \in S
    <2>1. Proving!Pow(y, n + 1, p) = (Proving!Pow(y, n, p) * y) % p
      BY <1>0, PowStep
    <2>2. m * (n + 1) = m * n + m /\ m * n \in Nat
      OBVIOUS
    <2>3. Proving!Pow(b, m * n + m, p) = (Proving!Pow(b, m * n, p) * Proving!Pow(b, m, p)) % p
      BY <2>2, PowAdds
    <2> QED
      BY <1>2, <2>1, <2>2, <2>3 DEF y
  <1> HIDE DEF S
  <1>3. \A n \in Nat : n \in S
    BY <1>1, <1>2, AllNaturals
  <1> QED
    BY <1>3 DEF S, y

\* Positive numbers among which every remainder is one of them or none are the
\* multiples of the least.
LEMMA MultiplesOfLeast ==
    ASSUME NEW S \in SUBSET (Nat \ {0}), S # {},
           \A a, m \in S : a % m = 0 \/ a % m \in S
    PROVE  \E m \in S : \A a \in S : a % m = 0
  <1>1. PICK m \in S : \A k \in S : m <= k
    BY LeastOf
  <1>2. ASSUME NEW a \in S PROVE a % m = 0
    <2>1. a % m \in 0 .. m - 1
      BY DivMod
    <2> QED
      BY <1>1, <2>1
  <1> QED
    BY <1>2

\* g generates a group of the prime order q.
Generates(p, q, g) ==
    /\ p \in Nat \ {0, 1} /\ q \in Nat \ {0, 1} /\ g \in Nat
    /\ \A d \in 2 .. q - 1 : q % d # 0
    /\ Proving!Pow(g, q, p) = 1 /\ g % p # 1

\* What a generator of a group of prime order has: two of its powers are the
\* same exactly if their exponents are the same modulo the order.
LEMMA PowersApart ==
    ASSUME NEW p, NEW q, NEW g, Generates(p, q, g)
    PROVE  \A a, b \in Nat :
              Proving!Pow(g, a, p) = Proving!Pow(g, b, p) <=> a % q = b % q
  <1> USE DEF Generates
  <1> DEFINE P(e) == Proving!Pow(g, e, p)
             H == {n \in Nat \ {0} : P(n) = 1}
  <1>0. /\ \A e \in Nat : P(e) \in 0 .. p - 1
        /\ P(0) = 1 /\ P(q) = 1
        /\ \A m, n \in Nat : P(m + n) = (P(m) * P(n)) % p
        /\ \A m, n \in Nat : P(m) = 1 => P(m * n) = 1
    <2>1. \A e \in Nat : P(e) \in 0 .. p - 1
      BY PowType
    <2>2. P(0) = 1
      BY PowStep
    <2>3. \A m, n \in Nat : P(m + n) = (P(m) * P(n)) % p
      BY PowAdds
    <2>4. ASSUME NEW m \in Nat, NEW n \in Nat, P(m) = 1 PROVE P(m * n) = 1
      <3>1. Proving!Pow(P(m), n, p) = P(m * n)
        BY PowOfPow
      <3>2. Proving!Pow(1, n, p) = 1
        BY PowOfOne
      <3> QED
        BY <2>4, <3>1, <3>2
    <2> QED
      BY <2>1, <2>2, <2>3, <2>4
  <1>1. P(1) # 1
    <2>1. P(0 + 1) = (P(0) * g) % p
      BY PowStep
    <2> QED
      BY <1>0, <2>1, 0 + 1 = 1, 1 * g = g
  <1> HIDE DEF P
  <1>2. ASSUME NEW m \in Nat, P(m) = 1, NEW k \in Nat, NEW r \in Nat
        PROVE  P(m * k + r) = P(r)
    <2>1. m * k \in Nat
      OBVIOUS
    <2>4. P(m * k) = 1
      BY <1>0, <1>2
    <2>2. P(m * k + r) = (1 * P(r)) % p
      BY <1>0, <2>1, <2>4
    <2>3. P(r) \in 0 .. p - 1
      BY <1>0
    <2> QED
      BY <2>2, <2>3
  <1>3. ASSUME NEW a \in Nat, NEW m \in Nat \ {0}, P(m) = 1
        PROVE  P(a) = P(a % m) /\ a % m \in Nat
    <2>1. a = m * (a \div m) + (a % m) /\ a % m \in Nat /\ a \div m \in Nat
      OBVIOUS
    <2>2. \A k, r \in Nat : P(m * k + r) = P(r)
      BY <1>2, <1>3
    <2>3. P(m * (a \div m) + (a % m)) = P(a % m)
      BY <2>1, <2>2, Zenon
    <2> QED
      BY <2>1, <2>3, Zenon
  <1>4. ASSUME NEW a \in Nat, P(a) = 1 PROVE a % q = 0
    <2>1. H # {} /\ q \in H
      BY <1>0
    <2>2. ASSUME NEW c \in H, NEW m \in H PROVE c % m = 0 \/ c % m \in H
      <3>1. P(c) = P(c % m) /\ c % m \in Nat
        BY <1>3
      <3> QED
        BY <3>1
    <2>3. PICK m \in H : \A c \in H : c % m = 0
      <3> HIDE DEF H
      <3>1. H \in SUBSET (Nat \ {0})
        BY DEF H
      <3> QED
        BY <2>1, <2>2, <3>1, MultiplesOfLeast
    <2>4. m # 1
      BY <1>1
    <2>5. ~(q < m)
      <3>1. q < m => q % m = q
        OBVIOUS
      <3> QED
        BY <2>1, <2>3, <3>1
    <2>6. m = q
      BY <2>1, <2>3, <2>4, <2>5
    <2>7. CASE a = 0
      BY <2>7
    <2>8. CASE a # 0
      BY <1>4, <2>3, <2>6, <2>8
    <2> QED
      BY <2>7, <2>8
  <1>5. ASSUME NEW a \in Nat, NEW b \in Nat, P(a) = P(b) PROVE a % q = b % q
    <2>1. PICK j \in Nat : b + j = q * b
      <3>1. (q - 1) * b \in Nat /\ b + (q - 1) * b = q * b
        OBVIOUS
      <3> QED
        BY <3>1
    <2>2. P(b + j) = 1
      BY <1>0, <2>1
    <2>3. P(a + j) = (P(a) * P(j)) % p /\ P(b + j) = (P(b) * P(j)) % p
      BY <1>0
    <2>4. a + j \in Nat /\ P(a + j) = 1
      BY <1>5, <2>2, <2>3
    <2>5. (a + j) % q = 0
      BY <1>4, <2>4
    <2>6. PICK k \in Int : a + j = q * k
      <3>1. a + j = q * ((a + j) \div q) + ((a + j) % q) /\ (a + j) \div q \in Int
        BY <2>4, DivMod
      <3>2. q * ((a + j) \div q) \in Int
        BY <3>1
      <3>3. a + j = q * ((a + j) \div q)
        BY <2>5, <3>1, <3>2
      <3> QED
        BY <3>1, <3>3
    <2>7. PICK i \in Int : a = q * i + b
      <3>1. q * (k - b) = q * k - q * b /\ q * k \in Int /\ q * b \in Int
        OBVIOUS
      <3>2. a = q * (k - b) + b /\ k - b \in Int
        BY <2>1, <2>6, <3>1
      <3> QED
        BY <3>2
    <2>8. (q * i + b) % q = b % q
      <3>1. q \in Nat \ {0} /\ b \in Int
        OBVIOUS
      <3> QED
        BY <3>1, ModSame
    <2> QED
      BY <2>7, <2>8
  <1>6. ASSUME NEW a \in Nat, NEW b \in Nat, a % q = b % q PROVE P(a) = P(b)
    BY <1>0, <1>3, <1>6
  <1> QED
    BY <1>5, <1>6 DEF P

-----------------------------------------------------------------------------
(* The groups that are generated *)

Group(p) == Proving!GroupParameters(p)

\* What a verifier computes from the response of a prover.

LEMMA GroupOf ==
    ASSUME NEW p \in SafePrime
    PROVE  LET G == Group(p)
           IN  /\ G.p = p /\ p \in Nat \ {0, 1} /\ G.q \in Nat \ {0, 1} /\ G.g \in Nat
               /\ Generates(p, G.q, G.g)
  <1> DEFINE G == Group(p)
  <1>1. /\ G.p = p /\ G.q = (p - 1) \div 2 /\ G.g = Proving!Pow(2, 2, p)
        /\ p \in Nat /\ p > 4
        /\ \A d \in 2 .. G.q - 1 : G.q % d # 0
        /\ Proving!Pow(G.g, G.q, p) = 1
    BY GroupAssumption DEF Group, Proving!GroupParameters
  <1>2. G.q \in Nat \ {0, 1}
    BY <1>1
  <1>3. G.g = 4 % p
    <2>1. /\ Proving!Pow(2, 0, p) = 1
          /\ Proving!Pow(2, 0 + 1, p) = (Proving!Pow(2, 0, p) * 2) % p
          /\ Proving!Pow(2, 1 + 1, p) = (Proving!Pow(2, 1, p) * 2) % p
      BY <1>1, PowStep
    <2>2. (1 * 2) % p = 2 /\ (2 * 2) % p = 4 % p
      BY <1>1
    <2> QED
      BY <1>1, <2>1, <2>2, 0 + 1 = 1, 1 + 1 = 2
  <1>4. 4 % p \in Nat /\ 4 % p # 1 /\ (4 % p) % p # 1
    BY <1>1
  <1> QED
    BY <1>1, <1>2, <1>3, <1>4 DEF Generates

\* A response is checked by comparing the exponent that it was made with to the
\* one that the registered value stands for.
ComparesExponents(p, q, g, r, x, c, z, d) ==
    Proving!Pow(g, (r + c * x) % q, p)
       = (Proving!Pow(g, r, p) * Proving!Pow(Proving!Pow(g, z, p), d, p)) % p
    <=> (r + c * x) % q = (r + d * z) % q

LEMMA ResponseChecks ==
    ASSUME NEW p, NEW q, NEW g, Generates(p, q, g),
           NEW r \in Nat, NEW x \in Nat, NEW c \in Nat, NEW z \in Nat, NEW d \in Nat
    PROVE  ComparesExponents(p, q, g, r, x, c, z, d)
  <1> DEFINE P(e) == Proving!Pow(g, e, p)
  <1>0. p \in Nat \ {0, 1} /\ q \in Nat \ {0, 1} /\ g \in Nat
    BY DEF Generates
  <1>1. PICK a \in Nat : a = r + c * x
    <2>1. c * x \in Nat
      OBVIOUS
    <2> QED
      BY <2>1
  <1>2. PICK b \in Nat : b = d * z /\ b = z * d
    <2>1. d * z \in Nat /\ d * z = z * d
      OBVIOUS
    <2> QED
      BY <2>1
  <1>3. (P(r) * Proving!Pow(P(z), d, p)) % p = P(r + b)
    <2>1. \A m, n \in Nat : Proving!Pow(P(m), n, p) = P(m * n)
      BY <1>0, PowOfPow
    <2>2. \A m, n \in Nat : P(m + n) = (P(m) * P(n)) % p
      BY <1>0, PowAdds
    <2>3. Proving!Pow(P(z), d, p) = P(b)
      BY <1>2, <2>1
    <2> QED
      BY <2>2, <2>3
  <1>4. \A m, n \in Nat : P(m) = P(n) <=> m % q = n % q
    BY PowersApart
  <1>5. PICK s \in Nat : s = a % q /\ s < q
    <2>1. q \in Nat \ {0} /\ a \in Int
      BY <1>0
    <2>2. a % q \in 0 .. q - 1
      BY <2>1, DivMod
    <2> QED
      BY <1>0, <2>2
  <1> HIDE DEF P
  <1>6. P(s) = P(r + b) <=> s = (r + b) % q
    <2>1. PICK n \in Nat : n = r + b
      OBVIOUS
    <2>2. s % q = s
      BY <1>0, <1>5
    <2>3. P(s) = P(n) <=> s % q = n % q
      BY <1>4
    <2> QED
      BY <2>1, <2>2, <2>3
  <1> QED
    BY <1>1, <1>2, <1>3, <1>5, <1>6 DEF P, ComparesExponents

LEMMA ChallengeType ==
    ASSUME NEW p \in SafePrime, NEW x \in Secret, NEW r \in Random
    PROVE  Challenge(x, r, Group(p)) \in Nat
  <1> DEFINE G == Group(p)
  <1>1. G.p = p /\ p \in Nat \ {0, 1} /\ G.q \in Nat \ {0, 1} /\ G.g \in Nat
    BY GroupOf
  <1> HIDE DEF G
  <1>2. x \in Nat /\ r \in Nat
    BY HashAssumption
  <1>3. /\ Proving!Pow(G.g, x, G.p) \in Nat
        /\ Proving!Pow(G.g, r, G.p) \in Nat
    <2>1. \A e \in Nat : Proving!Pow(G.g, e, p) \in 0 .. p - 1
      BY <1>1, PowType
    <2> QED
      BY <1>1, <1>2, <2>1
  <1>4. \A y, t \in Nat : Proving!FiatShamirChallenge(G, y, t) \in Nat
    <2>1. PICK m \in Nat \ {0} : m = G.q - 1
      BY <1>1
    <2>2. ASSUME NEW y \in Nat, NEW t \in Nat
          PROVE  (3 * G.g + 5 * y + 7 * t) % m \in Nat
      <3>1. PICK n \in Nat : n = 3 * G.g + 5 * y + 7 * t
        BY <1>1
      <3>2. n % m \in 0 .. m - 1
        BY DivMod
      <3> QED
        BY <3>1, <3>2
    <2> QED
      BY <2>1, <2>2 DEF Proving!FiatShamirChallenge
  <1> QED
    BY <1>3, <1>4 DEF Challenge, Proving!Public, G

LEMMA VerifyCompares ==
    ASSUME NEW p \in SafePrime, NEW x \in Secret, NEW z \in Secret, NEW r \in Random
    PROVE  LET G == Group(p)
           IN  Proving!Verify(Proving!Public(z, G), Proving!Prove(x, r, G), G)
                 <=> (r + Challenge(x, r, G) * x) % G.q = (r + Challenge(z, r, G) * z) % G.q
  <1> DEFINE G == Group(p)
             c == Challenge(x, r, G)
             d == Challenge(z, r, G)
  <1>1. /\ G.p = p /\ p \in Nat \ {0, 1}
        /\ Generates(p, G.q, G.g)
    BY GroupOf
  <1>2. x \in Nat /\ z \in Nat /\ r \in Nat /\ c \in Nat /\ d \in Nat
    BY HashAssumption, ChallengeType
  <1> HIDE DEF G
  <1>3. /\ Proving!Prove(x, r, G) = [t |-> Proving!Pow(G.g, r, p), s |-> (r + c * x) % G.q]
        /\ Proving!Public(z, G) = Proving!Pow(G.g, z, p)
        /\ Proving!FiatShamirChallenge(G, Proving!Pow(G.g, z, p), Proving!Pow(G.g, r, p)) = d
    BY <1>1 DEF Proving!Prove, Proving!CreateResponse, Proving!Public, Challenge
  <1> HIDE DEF c, d
  <1>4. Proving!Verify(Proving!Public(z, G), Proving!Prove(x, r, G), G)
          <=> Proving!Pow(G.g, (r + c * x) % G.q, p)
                = (Proving!Pow(G.g, r, p) * Proving!Pow(Proving!Pow(G.g, z, p), d, p)) % p
    BY <1>1, <1>3 DEF Proving!Verify
  <1>5. Proving!Pow(G.g, (r + c * x) % G.q, p)
          = (Proving!Pow(G.g, r, p) * Proving!Pow(Proving!Pow(G.g, z, p), d, p)) % p
        <=> (r + c * x) % G.q = (r + d * z) % G.q
    <2>1. ComparesExponents(p, G.q, G.g, r, x, c, z, d)
      BY <1>1, <1>2, ResponseChecks
    <2> QED
      BY <2>1 DEF ComparesExponents
  <1> QED
    BY <1>4, <1>5 DEF G, c, d

\* A proof is accepted exactly if it was made of the registered secret.
LEMMA VerifyTells ==
    ASSUME NEW p \in SafePrime, NEW x \in Secret, NEW z \in Secret, NEW r \in Random
    PROVE  Proving!Verify(Proving!Public(z, Group(p)), Proving!Prove(x, r, Group(p)), Group(p))
              <=> x = z
  <1>1. x # z => (r + Challenge(x, r, Group(p)) * x) % Group(p).q
                    # (r + Challenge(z, r, Group(p)) * z) % Group(p).q
    BY HashAssumption DEF Group
  <1> QED
    BY <1>1, VerifyCompares

-----------------------------------------------------------------------------
(* The calls of the zero-knowledge login, their clients and their handlers *)

LoginSteps ==
    {"idle", "look", "read", "open", "write", "use", "find", "200", "401", "404", "500", "killed"}

IsGroup(G) == \E p \in SafePrime : G = Group(p)

\* A value in the registry, or found there, comes from a secret and a group, and
\* so does a proof that was sent.
Enrolled(row) ==
    \E G, z : IsGroup(G) /\ z \in Secret
              /\ row = [y |-> Proving!Public(z, G), x |-> z, group |-> G]

Made(pf) ==
    \E G, x, r : IsGroup(G) /\ x \in Secret /\ r \in Random
                 /\ pf = [sent |-> Proving!Prove(x, r, G), x |-> x, group |-> G]

StoresKept ==
    /\ file \in {Proving!None, Proving!Empty} \/ IsGroup(file)
    /\ DOMAIN registered = Identifier
    /\ \A i \in Identifier : registered[i] = Proving!None \/ Enrolled(registered[i])

CallsTyped ==
    /\ prover \in [Call -> LoginSteps]
    /\ DOMAIN call = Call /\ DOMAIN params = Call /\ DOMAIN proof = Call

\* Whoever read a file or goes on has a group, and a file that was there stays.
HasGroup(c) ==
    /\ prover[c] = "read" => file # Proving!None
    /\ prover[c] \in {"open", "write", "use"} => IsGroup(params[c])

Asked(c) ==
    prover[c] # "idle" =>
        /\ {"op", "id", "found"} \subseteq DOMAIN call[c]
        /\ call[c].id \in Identifier
        /\ call[c].op # "replay" => "x" \in DOMAIN call[c] /\ call[c].x \in Secret
        /\ call[c].found = Proving!None \/ Enrolled(call[c].found)

\* A proof is one that was made, whoever sends it; its handler goes on only with
\* a value it has found, and answers as the check of the proof says.
Proved(c) ==
    proof[c] # Proving!None =>
        /\ prover[c] # "idle" /\ call[c].op # "enrol" /\ Made(proof[c])
        /\ prover[c] \in {"look", "read", "open", "write", "use", "200", "401"} =>
              Enrolled(call[c].found)
        /\ prover[c] \in {"200", "401"} =>
              /\ IsGroup(params[c])
              /\ prover[c] = "200" <=> Proving!Verify(call[c].found.y, proof[c].sent, params[c])

OfCall(c) == HasGroup(c) /\ Asked(c) /\ Proved(c)

\* Without a race the group of whatever there is, is the one in the file.
SameGroup(c) ==
    /\ prover[c] = "write" => file = Proving!Empty
    /\ prover[c] = "use" => params[c] = file
    /\ proof[c] # Proving!None =>
          /\ proof[c].group = file
          /\ prover[c] \in {"200", "401"} => params[c] = file
    /\ prover[c] # "idle" /\ call[c].found # Proving!None => call[c].found.group = file

SameEnrolled == \A i \in Identifier : registered[i] # Proving!None => registered[i].group = file

OneWriter == \A c, d \in Call : prover[c] = "write" /\ prover[d] = "write" => c = d

OneFile == SameEnrolled /\ OneWriter /\ \A c \in Call : SameGroup(c)

Basics == StoresKept /\ CallsTyped /\ \A c \in Call : OfCall(c)

KnowledgeInv == Basics /\ (~raced => OneFile)

LEMMA ThreeKinds ==
    /\ Proving!None # Proving!Empty
    /\ \A G : IsGroup(G) => G # Proving!None /\ G # Proving!Empty
  <1>1. /\ DOMAIN Proving!None = {"none"} /\ DOMAIN Proving!Empty = {"empty"}
        /\ \A p : DOMAIN Group(p) = {"p", "q", "g"}
    BY DEF Proving!None, Proving!Empty, Group, Proving!GroupParameters
  <1>2. /\ "none" # "empty"
        /\ {"p", "q", "g"} # {"none"} /\ {"p", "q", "g"} # {"empty"}
    OBVIOUS
  <1> QED
    BY <1>1, <1>2 DEF IsGroup

LEMMA RowsHaveGroups ==
    /\ \A row : Enrolled(row) => IsGroup(row.group) /\ row # Proving!None
    /\ \A pf : Made(pf) => IsGroup(pf.group) /\ pf # Proving!None
  <1>1. \A G, y, x : /\ [y |-> y, x |-> x, group |-> G].group = G
                     /\ [y |-> y, x |-> x, group |-> G] # Proving!None
                     /\ [sent |-> y, x |-> x, group |-> G].group = G
                     /\ [sent |-> y, x |-> x, group |-> G] # Proving!None
    <2> SUFFICES ASSUME NEW G, NEW y, NEW x
                 PROVE  /\ [y |-> y, x |-> x, group |-> G] # Proving!None
                        /\ [sent |-> y, x |-> x, group |-> G] # Proving!None
      OBVIOUS
    <2>1. /\ DOMAIN [y |-> y, x |-> x, group |-> G] = {"y", "x", "group"}
          /\ DOMAIN [sent |-> y, x |-> x, group |-> G] = {"sent", "x", "group"}
          /\ DOMAIN Proving!None = {"none"}
      BY DEF Proving!None
    <2> QED
      BY <2>1
  <1> QED
    BY <1>1 DEF Enrolled, Made

LEMMA KnowledgeStarts == Proving!Init => KnowledgeInv
  <1> SUFFICES ASSUME Proving!Init PROVE KnowledgeInv
    OBVIOUS
  <1> USE DEF Proving!Init
  <1>1. StoresKept /\ CallsTyped /\ SameEnrolled /\ OneWriter
    BY DEF StoresKept, CallsTyped, LoginSteps, SameEnrolled, OneWriter
  <1>2. ASSUME NEW c \in Call PROVE OfCall(c) /\ SameGroup(c)
    BY DEF OfCall, HasGroup, Asked, Proved, SameGroup
  <1> QED
    BY <1>1, <1>2 DEF KnowledgeInv, Basics, OneFile

\* As long as no group is in the file, nothing has come of one.
LEMMA NothingYet ==
    ASSUME KnowledgeInv, ~raced, ~IsGroup(file)
    PROVE  /\ \A i \in Identifier : registered[i] = Proving!None
           /\ \A c \in Call : /\ proof[c] = Proving!None /\ prover[c] # "use"
                              /\ prover[c] # "idle" => call[c].found = Proving!None
  <1> USE DEF KnowledgeInv, Basics, OneFile
  <1>1. \A i \in Identifier : registered[i] = Proving!None
    BY RowsHaveGroups DEF StoresKept, SameEnrolled
  <1>2. ASSUME NEW c \in Call
        PROVE  /\ proof[c] = Proving!None /\ prover[c] # "use"
               /\ prover[c] # "idle" => call[c].found = Proving!None
    BY RowsHaveGroups DEF OfCall, HasGroup, Asked, Proved, SameGroup
  <1> QED
    BY <1>1, <1>2

\* A call that takes no step keeps what holds of it.
LEMMA OtherCall ==
    ASSUME NEW c \in Call, OfCall(c), file # Proving!None => file' # Proving!None,
           prover'[c] = prover[c], call'[c] = call[c], params'[c] = params[c], proof'[c] = proof[c]
    PROVE  OfCall(c)'
  BY DEF OfCall, HasGroup, Asked, Proved

LEMMA OtherSame ==
    ASSUME NEW c \in Call, SameGroup(c), file' = file,
           prover'[c] = prover[c], call'[c] = call[c], params'[c] = params[c], proof'[c] = proof[c]
    PROVE  SameGroup(c)'
  BY DEF SameGroup

Alone(c) ==
    \A d \in Call \ {c} : /\ prover'[d] = prover[d] /\ call'[d] = call[d]
                          /\ params'[d] = params[d] /\ proof'[d] = proof[d]

LEMMA CallStep ==
    ASSUME KnowledgeInv, NEW c \in Call, Alone(c),
           StoresKept', CallsTyped', OfCall(c)', UNCHANGED <<file, raced>>,
           ~raced => SameEnrolled' /\ prover'[c] # "write" /\ SameGroup(c)'
    PROVE  KnowledgeInv'
  <1>1. \A d \in Call : OfCall(d)'
    BY OtherCall DEF KnowledgeInv, Basics, Alone
  <1>2. ASSUME ~raced PROVE OneFile'
    <2>1. \A d \in Call : SameGroup(d)'
      BY <1>2, OtherSame DEF KnowledgeInv, OneFile, Alone
    <2>2. OneWriter'
      BY <1>2 DEF KnowledgeInv, OneFile, OneWriter, Alone
    <2> QED
      BY <1>2, <2>1, <2>2 DEF OneFile
  <1> QED
    BY <1>1, <1>2 DEF KnowledgeInv, Basics

LEMMA LookKeeps ==
    ASSUME KnowledgeInv, NEW c \in Call, Proving!Look(c)
    PROVE  KnowledgeInv'
  <1> USE DEF Proving!At, Proving!Go
  <1>1. /\ prover[c] = "look" /\ UNCHANGED <<file, registered, raced, call, proof, crashes>>
        /\ \/ /\ file # Proving!None
              /\ prover' = [prover EXCEPT ![c] = "read"] /\ params' = params
           \/ \E p \in SafePrime : /\ params' = [params EXCEPT ![c] = Proving!GroupParameters(p)]
                                   /\ prover' = [prover EXCEPT ![c] = "open"]
    BY DEF Proving!Look
  <1>2. CallsTyped /\ StoresKept /\ OfCall(c) /\ (~raced => SameEnrolled /\ SameGroup(c))
    BY DEF KnowledgeInv, Basics, OneFile
  <1>3. CallsTyped' /\ StoresKept' /\ (~raced => SameEnrolled')
    BY <1>1, <1>2 DEF CallsTyped, LoginSteps, StoresKept, SameEnrolled
  <1>4. /\ \/ prover'[c] = "read" /\ file # Proving!None
           \/ prover'[c] = "open" /\ IsGroup(params'[c])
        /\ Alone(c)
    BY <1>1, <1>2 DEF CallsTyped, Alone, IsGroup, Group
  <1>5. OfCall(c)'
    BY <1>1, <1>2, <1>4 DEF OfCall, HasGroup, Asked, Proved
  <1>6. ~raced => SameGroup(c)'
    BY <1>1, <1>2, <1>4 DEF SameGroup
  <1> QED
    BY <1>1, <1>3, <1>4, <1>5, <1>6, CallStep

LEMMA ReadKeeps ==
    ASSUME KnowledgeInv, NEW c \in Call, Proving!Read(c)
    PROVE  KnowledgeInv'
  <1> USE DEF Proving!At, Proving!Go
  <1>1. /\ prover[c] = "read" /\ UNCHANGED <<file, registered, raced, call, proof, crashes>>
        /\ \/ prover' = [prover EXCEPT ![c] = "500"] /\ params' = params
           \/ /\ file # Proving!Empty
              /\ prover' = [prover EXCEPT ![c] = "use"] /\ params' = [params EXCEPT ![c] = file]
    BY DEF Proving!Read
  <1>2. CallsTyped /\ StoresKept /\ OfCall(c) /\ (~raced => SameEnrolled /\ SameGroup(c))
    BY DEF KnowledgeInv, Basics, OneFile
  <1>3. CallsTyped' /\ StoresKept' /\ (~raced => SameEnrolled')
    BY <1>1, <1>2 DEF CallsTyped, LoginSteps, StoresKept, SameEnrolled
  <1>4. /\ \/ prover'[c] = "500"
           \/ prover'[c] = "use" /\ file # Proving!Empty /\ params'[c] = file
        /\ Alone(c)
    BY <1>1, <1>2 DEF CallsTyped, Alone
  <1>5. file # Proving!Empty => IsGroup(file)
    BY <1>1, <1>2 DEF OfCall, HasGroup, StoresKept
  <1>6. OfCall(c)'
    BY <1>1, <1>2, <1>4, <1>5 DEF OfCall, HasGroup, Asked, Proved
  <1>7. ~raced => SameGroup(c)'
    BY <1>1, <1>2, <1>4 DEF SameGroup
  <1> QED
    BY <1>1, <1>3, <1>4, <1>6, <1>7, CallStep

LEMMA OpenWriteBasics ==
    ASSUME KnowledgeInv, NEW c \in Call, Proving!Open(c) \/ Proving!Write(c)
    PROVE  Basics' /\ Alone(c)
  <1> USE DEF Proving!At, Proving!Go
  <1>1. /\ prover[c] \in {"open", "write"} /\ UNCHANGED <<registered, call, params, proof, crashes>>
        /\ \/ file' = Proving!Empty /\ prover' = [prover EXCEPT ![c] = "write"]
           \/ file' = params[c] /\ prover' = [prover EXCEPT ![c] = "use"]
    BY DEF Proving!Open, Proving!Write
  <1>2. StoresKept /\ CallsTyped /\ OfCall(c)
    BY DEF KnowledgeInv, Basics
  <1>3. IsGroup(params[c])
    BY <1>1, <1>2 DEF OfCall, HasGroup
  <1>4. StoresKept' /\ CallsTyped' /\ file' # Proving!None
    BY <1>1, <1>2, <1>3, ThreeKinds DEF StoresKept, CallsTyped, LoginSteps
  <1>5. prover'[c] \in {"write", "use"} /\ Alone(c)
    BY <1>1, <1>2 DEF CallsTyped, Alone
  <1>6. OfCall(c)'
    BY <1>1, <1>2, <1>3, <1>5 DEF OfCall, HasGroup, Asked, Proved
  <1>7. \A d \in Call : OfCall(d)'
    BY <1>4, <1>5, <1>6, OtherCall DEF KnowledgeInv, Basics, Alone
  <1> QED
    BY <1>4, <1>5, <1>7 DEF Basics

LEMMA OpenKeeps ==
    ASSUME KnowledgeInv, NEW c \in Call, Proving!Open(c)
    PROVE  KnowledgeInv'
  <1> SUFFICES ASSUME ~raced' PROVE OneFile'
    BY OpenWriteBasics DEF KnowledgeInv
  <1>1. /\ ~raced /\ file = Proving!None /\ file' = Proving!Empty
        /\ UNCHANGED <<registered, call, params, proof>>
        /\ prover[c] = "open" /\ prover' = [prover EXCEPT ![c] = "write"]
    BY DEF Proving!Open, Proving!At, Proving!Go
  <1>2. CallsTyped /\ OneFile
    BY <1>1 DEF KnowledgeInv, Basics
  <1>3. prover'[c] = "write" /\ \A d \in Call \ {c} : prover'[d] = prover[d]
    BY <1>1, <1>2 DEF CallsTyped
  <1>4. \A d \in Call : prover[d] # "write"
    BY <1>1, <1>2, ThreeKinds DEF OneFile, SameGroup
  <1>5. ~IsGroup(file)
    BY <1>1, ThreeKinds
  <1>6. /\ \A i \in Identifier : registered[i] = Proving!None
        /\ \A d \in Call : /\ proof[d] = Proving!None /\ prover[d] # "use"
                           /\ prover[d] # "idle" => call[d].found = Proving!None
    BY <1>1, <1>5, NothingYet
  <1>7. OneWriter' /\ SameEnrolled'
    BY <1>1, <1>3, <1>4, <1>6 DEF OneWriter, SameEnrolled
  <1>8. ASSUME NEW d \in Call PROVE SameGroup(d)'
    <2>1. /\ prover'[d] # "use" /\ proof'[d] = Proving!None
          /\ prover'[d] # "idle" => call'[d].found = Proving!None
      BY <1>1, <1>3, <1>6
    <2> QED
      BY <1>1, <2>1 DEF SameGroup
  <1> QED
    BY <1>7, <1>8 DEF OneFile

LEMMA WriteKeeps ==
    ASSUME KnowledgeInv, NEW c \in Call, Proving!Write(c)
    PROVE  KnowledgeInv'
  <1> SUFFICES ASSUME ~raced' PROVE OneFile'
    BY OpenWriteBasics DEF KnowledgeInv
  <1>1. /\ ~raced /\ file' = params[c]
        /\ UNCHANGED <<registered, call, params, proof>>
        /\ prover[c] = "write" /\ prover' = [prover EXCEPT ![c] = "use"]
    BY DEF Proving!Write, Proving!At, Proving!Go
  <1>2. CallsTyped /\ OneFile
    BY <1>1 DEF KnowledgeInv, Basics
  <1>3. prover'[c] = "use" /\ \A d \in Call \ {c} : prover'[d] = prover[d]
    BY <1>1, <1>2 DEF CallsTyped
  <1>4. \A d \in Call \ {c} : prover[d] # "write"
    BY <1>1, <1>2 DEF OneFile, OneWriter
  <1>5. file = Proving!Empty
    BY <1>1, <1>2 DEF OneFile, SameGroup
  <1>6. ~IsGroup(file)
    BY <1>5, ThreeKinds
  <1>7. /\ \A i \in Identifier : registered[i] = Proving!None
        /\ \A d \in Call : /\ proof[d] = Proving!None /\ prover[d] # "use"
                           /\ prover[d] # "idle" => call[d].found = Proving!None
    BY <1>1, <1>6, NothingYet
  <1>8. OneWriter' /\ SameEnrolled'
    BY <1>1, <1>3, <1>4, <1>7 DEF OneWriter, SameEnrolled
  <1>9. ASSUME NEW d \in Call PROVE SameGroup(d)'
    <2>1. /\ prover'[d] # "write" /\ proof'[d] = Proving!None
          /\ prover'[d] = "use" => d = c
          /\ prover'[d] # "idle" => call'[d].found = Proving!None
      BY <1>1, <1>3, <1>4, <1>7
    <2> QED
      BY <1>1, <2>1 DEF SameGroup
  <1> QED
    BY <1>8, <1>9 DEF OneFile

LEMMA StartKeeps ==
    ASSUME KnowledgeInv, NEW c \in Call, NEW op, NEW i \in Identifier, NEW x \in Secret,
           Proving!Start(c, op, i, x)
    PROVE  KnowledgeInv'
  <1> USE DEF Proving!At, Proving!Go
  <1> DEFINE asked == [op |-> op, id |-> i, x |-> x, found |-> Proving!None]
  <1>1. /\ prover[c] = "idle" /\ UNCHANGED <<file, registered, raced, params, proof, crashes>>
        /\ call' = [call EXCEPT ![c] = asked]
        /\ prover' = [prover EXCEPT ![c] = "look"]
    BY DEF Proving!Start
  <1>2. CallsTyped /\ StoresKept /\ OfCall(c) /\ (~raced => SameEnrolled /\ SameGroup(c))
    BY DEF KnowledgeInv, Basics, OneFile
  <1>3. CallsTyped' /\ StoresKept' /\ (~raced => SameEnrolled')
    BY <1>1, <1>2 DEF CallsTyped, LoginSteps, StoresKept, SameEnrolled
  <1>4. prover'[c] = "look" /\ call'[c] = asked /\ Alone(c)
    BY <1>1, <1>2 DEF CallsTyped, Alone
  <1>5. proof[c] = Proving!None
    BY <1>1, <1>2 DEF OfCall, Proved
  <1>6. /\ {"op", "id", "found"} \subseteq DOMAIN asked /\ "x" \in DOMAIN asked
        /\ asked.id = i /\ asked.x = x /\ asked.found = Proving!None
    OBVIOUS
  <1> HIDE DEF asked
  <1>7. OfCall(c)'
    BY <1>1, <1>4, <1>5, <1>6 DEF OfCall, HasGroup, Asked, Proved
  <1>8. ~raced => SameGroup(c)'
    BY <1>1, <1>4, <1>5, <1>6 DEF SameGroup
  <1> QED
    BY <1>1, <1>3, <1>4, <1>7, <1>8, CallStep

LEMMA EnrolKeeps ==
    ASSUME KnowledgeInv, NEW c \in Call, Proving!Enrol(c)
    PROVE  KnowledgeInv'
  <1> USE DEF Proving!At, Proving!Go
  <1> DEFINE row == [y |-> Proving!Public(call[c].x, params[c]), x |-> call[c].x, group |-> params[c]]
  <1>1. /\ prover[c] = "use" /\ call[c].op = "enrol"
        /\ registered' = [registered EXCEPT ![call[c].id] = row]
        /\ prover' = [prover EXCEPT ![c] = "200"]
        /\ UNCHANGED <<file, raced, call, params, proof, crashes>>
    BY DEF Proving!Enrol
  <1>2. CallsTyped /\ StoresKept /\ OfCall(c) /\ (~raced => SameEnrolled /\ SameGroup(c))
    BY DEF KnowledgeInv, Basics, OneFile
  <1>3. IsGroup(params[c]) /\ call[c].x \in Secret /\ call[c].id \in Identifier
    BY <1>1, <1>2 DEF OfCall, HasGroup, Asked
  <1>4. Enrolled(row) /\ row.group = params[c]
    BY <1>3 DEF Enrolled
  <1> HIDE DEF row
  <1>5. /\ DOMAIN registered' = Identifier
        /\ \A i \in Identifier : registered'[i] = registered[i] \/ registered'[i] = row
    BY <1>1, <1>2 DEF StoresKept
  <1>6. StoresKept' /\ CallsTyped'
    BY <1>1, <1>2, <1>4, <1>5 DEF StoresKept, CallsTyped, LoginSteps
  <1>7. ~raced => SameEnrolled'
    BY <1>1, <1>2, <1>4, <1>5 DEF SameEnrolled, SameGroup
  <1>8. prover'[c] = "200" /\ Alone(c)
    BY <1>1, <1>2 DEF CallsTyped, Alone
  <1>9. proof[c] = Proving!None
    BY <1>1, <1>2 DEF OfCall, Proved
  <1>10. OfCall(c)'
    BY <1>1, <1>2, <1>8, <1>9 DEF OfCall, HasGroup, Asked, Proved
  <1>11. ~raced => SameGroup(c)'
    BY <1>1, <1>2, <1>8, <1>9 DEF SameGroup
  <1> QED
    BY <1>1, <1>6, <1>7, <1>8, <1>10, <1>11, CallStep

LEMMA SendKeeps ==
    ASSUME KnowledgeInv, NEW c \in Call, Proving!Send(c)
    PROVE  KnowledgeInv'
  <1> USE DEF Proving!At, Proving!Go
  <1>1. /\ prover[c] = "use" /\ call[c].op = "prove"
        /\ prover' = [prover EXCEPT ![c] = "find"]
        /\ UNCHANGED <<file, registered, raced, call, params, crashes>>
    BY DEF Proving!Send
  <1>2. CallsTyped /\ StoresKept /\ OfCall(c) /\ (~raced => SameEnrolled /\ SameGroup(c))
    BY DEF KnowledgeInv, Basics, OneFile
  <1>3. IsGroup(params[c]) /\ call[c].x \in Secret
    BY <1>1, <1>2 DEF OfCall, HasGroup, Asked
  <1>4. PICK r \in Random :
           proof' = [proof EXCEPT ![c] = [sent |-> Proving!Prove(call[c].x, r, params[c]),
                                          x |-> call[c].x, group |-> params[c]]]
    BY DEF Proving!Send
  <1> DEFINE pf == [sent |-> Proving!Prove(call[c].x, r, params[c]),
                    x |-> call[c].x, group |-> params[c]]
  <1>5. Made(pf) /\ pf.group = params[c]
    BY <1>3 DEF Made
  <1>6. proof' = [proof EXCEPT ![c] = pf]
    BY <1>4
  <1> HIDE DEF pf
  <1>7. CallsTyped' /\ StoresKept' /\ (~raced => SameEnrolled')
    BY <1>1, <1>2, <1>6 DEF CallsTyped, LoginSteps, StoresKept, SameEnrolled
  <1>8. prover'[c] = "find" /\ proof'[c] = pf /\ Alone(c)
    BY <1>1, <1>2, <1>6 DEF CallsTyped, Alone
  <1>9. OfCall(c)'
    BY <1>1, <1>2, <1>5, <1>8 DEF OfCall, HasGroup, Asked, Proved
  <1>10. ~raced => SameGroup(c)'
    BY <1>1, <1>2, <1>5, <1>8 DEF SameGroup
  <1> QED
    BY <1>1, <1>7, <1>8, <1>9, <1>10, CallStep

LEMMA ReplayKeeps ==
    ASSUME KnowledgeInv, NEW c \in Call, NEW i \in Identifier, NEW d \in Call, Proving!Replay(c, i, d)
    PROVE  KnowledgeInv'
  <1> USE DEF Proving!At, Proving!Go
  <1> DEFINE asked == [op |-> "replay", id |-> i, found |-> Proving!None]
  <1>1. /\ prover[c] = "idle" /\ proof[d] # Proving!None
        /\ call' = [call EXCEPT ![c] = asked]
        /\ proof' = [proof EXCEPT ![c] = proof[d]]
        /\ prover' = [prover EXCEPT ![c] = "find"]
        /\ UNCHANGED <<file, registered, raced, params, crashes>>
    BY DEF Proving!Replay
  <1>2. /\ CallsTyped /\ StoresKept /\ OfCall(c) /\ OfCall(d)
        /\ ~raced => SameEnrolled /\ SameGroup(d)
    BY DEF KnowledgeInv, Basics, OneFile
  <1>3. /\ {"op", "id", "found"} \subseteq DOMAIN asked
        /\ asked.op = "replay" /\ asked.id = i /\ asked.found = Proving!None
    OBVIOUS
  <1> HIDE DEF asked
  <1>4. CallsTyped' /\ StoresKept' /\ (~raced => SameEnrolled')
    BY <1>1, <1>2 DEF CallsTyped, LoginSteps, StoresKept, SameEnrolled
  <1>5. prover'[c] = "find" /\ call'[c] = asked /\ proof'[c] = proof[d] /\ Alone(c)
    BY <1>1, <1>2 DEF CallsTyped, Alone
  <1>6. Made(proof[d]) /\ (~raced => proof[d].group = file)
    BY <1>1, <1>2 DEF OfCall, Proved, SameGroup
  <1>7. OfCall(c)'
    BY <1>3, <1>5, <1>6 DEF OfCall, HasGroup, Asked, Proved
  <1>8. ~raced => SameGroup(c)'
    BY <1>1, <1>3, <1>5, <1>6 DEF SameGroup
  <1> QED
    BY <1>1, <1>4, <1>5, <1>7, <1>8, CallStep

LEMMA FindKeeps ==
    ASSUME KnowledgeInv, NEW c \in Call, Proving!Find(c)
    PROVE  KnowledgeInv'
  <1> USE DEF Proving!At, Proving!Go
  <1> DEFINE row == registered[call[c].id]
  <1>1. /\ prover[c] = "find"
        /\ call' = [call EXCEPT ![c].found = row]
        /\ prover' = [prover EXCEPT ![c] = IF row = Proving!None THEN "404" ELSE "look"]
        /\ UNCHANGED <<file, registered, raced, params, proof, crashes>>
    BY DEF Proving!Find
  <1>2. CallsTyped /\ StoresKept /\ OfCall(c) /\ (~raced => SameEnrolled /\ SameGroup(c))
    BY DEF KnowledgeInv, Basics, OneFile
  <1>3. /\ {"op", "id", "found"} \subseteq DOMAIN call[c]
        /\ call[c].id \in Identifier
        /\ call[c].op # "replay" => "x" \in DOMAIN call[c] /\ call[c].x \in Secret
    BY <1>1, <1>2 DEF OfCall, Asked
  <1>4. /\ row = Proving!None \/ Enrolled(row)
        /\ ~raced /\ row # Proving!None => row.group = file
    BY <1>2, <1>3 DEF StoresKept, SameEnrolled
  <1> HIDE DEF row
  <1>5. CallsTyped' /\ StoresKept' /\ (~raced => SameEnrolled')
    BY <1>1, <1>2 DEF CallsTyped, LoginSteps, StoresKept, SameEnrolled
  <1>6. /\ call'[c] = [call[c] EXCEPT !.found = row]
        /\ prover'[c] = IF row = Proving!None THEN "404" ELSE "look"
        /\ Alone(c)
    BY <1>1, <1>2 DEF CallsTyped, Alone
  <1>7. /\ DOMAIN call'[c] = DOMAIN call[c]
        /\ call'[c].op = call[c].op /\ call'[c].id = call[c].id
        /\ call[c].op # "replay" => call'[c].x = call[c].x
        /\ call'[c].found = row
    BY <1>3, <1>6
  <1>8. HasGroup(c)' /\ Asked(c)'
    BY <1>1, <1>3, <1>4, <1>6, <1>7 DEF HasGroup, Asked
  <1>9. Proved(c)'
    BY <1>1, <1>2, <1>4, <1>6, <1>7 DEF OfCall, Proved
  <1>10. ~raced => SameGroup(c)'
    BY <1>1, <1>2, <1>4, <1>6, <1>7 DEF SameGroup
  <1> QED
    BY <1>1, <1>5, <1>6, <1>8, <1>9, <1>10, CallStep DEF OfCall

LEMMA JudgeKeeps ==
    ASSUME KnowledgeInv, NEW c \in Call, Proving!Judge(c)
    PROVE  KnowledgeInv'
  <1> USE DEF Proving!At, Proving!Go
  <1> DEFINE accepted == Proving!Verify(call[c].found.y, proof[c].sent, params[c])
  <1>1. /\ prover[c] = "use" /\ proof[c] # Proving!None
        /\ prover' = [prover EXCEPT ![c] = IF accepted THEN "200" ELSE "401"]
        /\ UNCHANGED <<file, registered, raced, call, params, proof, crashes>>
    BY DEF Proving!Judge
  <1>2. CallsTyped /\ StoresKept /\ OfCall(c) /\ (~raced => SameEnrolled /\ SameGroup(c))
    BY DEF KnowledgeInv, Basics, OneFile
  <1>3. \/ prover'[c] = "200" /\ accepted
        \/ prover'[c] = "401" /\ ~accepted
    BY <1>1, <1>2 DEF CallsTyped
  <1>4. IsGroup(params[c]) /\ Enrolled(call[c].found)
    BY <1>1, <1>2 DEF OfCall, HasGroup, Proved
  <1>5. Alone(c)
    BY <1>1, <1>2 DEF CallsTyped, Alone
  <1>6. prover'[c] \in {"200", "401"} /\ (prover'[c] = "200" <=> accepted)
    BY <1>3
  <1>7. accepted' <=> accepted
    BY <1>1
  <1> HIDE DEF accepted
  <1>8. CallsTyped' /\ StoresKept' /\ (~raced => SameEnrolled')
    BY <1>1, <1>2 DEF CallsTyped, LoginSteps, StoresKept, SameEnrolled
  <1>9. OfCall(c)'
    <2>1. HasGroup(c)' /\ Asked(c)'
      BY <1>1, <1>2, <1>6 DEF OfCall, HasGroup, Asked
    <2>2. prover'[c] = "200" <=> accepted'
      BY <1>6, <1>7
    <2>3. prover'[c] # "idle" /\ call'[c].op # "enrol" /\ Made(proof'[c]) /\ IsGroup(params'[c])
      BY <1>1, <1>2, <1>4, <1>6 DEF OfCall, Proved
    <2>4. Enrolled(call'[c].found)
      BY <1>1, <1>4
    <2>5. Proved(c)'
      BY <2>2, <2>3, <2>4 DEF Proved, accepted
    <2> QED
      BY <2>1, <2>5 DEF OfCall
  <1>10. ~raced => SameGroup(c)'
    BY <1>1, <1>2, <1>6 DEF SameGroup
  <1> QED
    BY <1>1, <1>5, <1>6, <1>8, <1>9, <1>10, CallStep

\* A call that is cut short only loses its next step.
LEMMA EndedCall ==
    ASSUME NEW c \in Call, prover[c] # "idle", prover'[c] = "killed",
           UNCHANGED <<file, call, params, proof>>
    PROVE  (OfCall(c) => OfCall(c)') /\ (SameGroup(c) => SameGroup(c)')
  <1>1. OfCall(c) => OfCall(c)'
    BY DEF OfCall, HasGroup, Asked, Proved
  <1>2. SameGroup(c) => SameGroup(c)'
    BY DEF SameGroup
  <1> QED
    BY <1>1, <1>2

LEMMA KillKeeps ==
    ASSUME KnowledgeInv, NEW c \in Call, Proving!Kill(c)
    PROVE  KnowledgeInv'
  <1> USE DEF Proving!At, Proving!Go
  <1>1. /\ c \in Proving!Working /\ prover' = [prover EXCEPT ![c] = "killed"]
        /\ UNCHANGED <<file, registered, raced, call, params, proof>>
    BY DEF Proving!Kill
  <1>2. CallsTyped /\ StoresKept /\ OfCall(c) /\ (~raced => SameEnrolled /\ SameGroup(c))
    BY DEF KnowledgeInv, Basics, OneFile
  <1>3. CallsTyped' /\ StoresKept' /\ (~raced => SameEnrolled')
    BY <1>1, <1>2 DEF CallsTyped, LoginSteps, StoresKept, SameEnrolled
  <1>4. prover'[c] = "killed" /\ prover[c] # "idle" /\ Alone(c)
    BY <1>1, <1>2 DEF CallsTyped, Proving!Working, Alone
  <1>5. OfCall(c)' /\ (~raced => SameGroup(c)')
    BY <1>1, <1>2, <1>4, EndedCall
  <1> QED
    BY <1>1, <1>3, <1>4, <1>5, CallStep

LEMMA RestartKeeps ==
    ASSUME KnowledgeInv, Proving!Restart
    PROVE  KnowledgeInv'
  <1>1. /\ registered' = [i \in Identifier |-> Proving!None]
        /\ prover' = [c \in Call |-> IF c \in Proving!Working /\ proof[c] # Proving!None
                                      THEN "killed" ELSE prover[c]]
        /\ UNCHANGED <<file, raced, call, params, proof>>
    BY DEF Proving!Restart
  <1>2. StoresKept' /\ CallsTyped' /\ SameEnrolled'
    BY <1>1 DEF KnowledgeInv, Basics, StoresKept, CallsTyped, LoginSteps, SameEnrolled
  <1>3. ASSUME NEW c \in Call PROVE OfCall(c)' /\ (~raced => SameGroup(c)')
    <2>1. \/ prover'[c] = prover[c]
          \/ prover'[c] = "killed" /\ prover[c] # "idle"
      BY <1>1 DEF Proving!Working
    <2>2. OfCall(c) /\ (~raced => SameGroup(c))
      BY DEF KnowledgeInv, Basics, OneFile
    <2> QED
      BY <1>1, <2>1, <2>2, EndedCall, OtherCall, OtherSame
  <1>4. ~raced => OneWriter'
    <2>1. \A c \in Call : prover'[c] = "write" => prover[c] = "write"
      BY <1>1
    <2> QED
      BY <2>1 DEF KnowledgeInv, OneFile, OneWriter
  <1> QED
    BY <1>1, <1>2, <1>3, <1>4 DEF KnowledgeInv, Basics, OneFile

LEMMA KnowledgeStep == KnowledgeInv /\ [Proving!Next]_(Proving!vars) => KnowledgeInv'
  <1> SUFFICES ASSUME KnowledgeInv, [Proving!Next]_(Proving!vars) PROVE KnowledgeInv'
    OBVIOUS
  <1>1. CASE UNCHANGED Proving!vars
    <2>1. UNCHANGED <<file, registered, raced, prover, call, params, proof>>
      BY <1>1 DEF Proving!vars
    <2>2. StoresKept' /\ CallsTyped' /\ (~raced => SameEnrolled' /\ OneWriter')
      BY <2>1 DEF KnowledgeInv, Basics, OneFile, StoresKept, CallsTyped, SameEnrolled, OneWriter
    <2>3. \A c \in Call : OfCall(c)' /\ (~raced => SameGroup(c)')
      BY <2>1, OtherCall, OtherSame DEF KnowledgeInv, Basics, OneFile
    <2> QED
      BY <2>1, <2>2, <2>3 DEF KnowledgeInv, Basics, OneFile
  <1>2. ASSUME NEW c \in Call, Proving!Work(c) PROVE KnowledgeInv'
    BY <1>2, LookKeeps, ReadKeeps, OpenKeeps, WriteKeeps, EnrolKeeps, SendKeeps, FindKeeps, JudgeKeeps
       DEF Proving!Work
  <1> QED
    BY <1>1, <1>2, StartKeeps, ReplayKeeps, KillKeeps, RestartKeeps DEF Proving!Next

LEMMA KnowledgeHolds == KnowledgeInv => KnowledgeIsVerified
  <1> SUFFICES ASSUME KnowledgeInv, NEW c \in Call,
                      proof[c] # Proving!None, prover[c] \in {"200", "401"}
               PROVE  /\ ~raced => Proving!OneGroup(c)
                      /\ Proving!OneGroup(c) =>
                            (prover[c] = "200" <=> call[c].found.x = proof[c].x)
    BY DEF KnowledgeIsVerified, Proving!KnowledgeIsVerified
  <1>1. /\ Made(proof[c]) /\ Enrolled(call[c].found)
        /\ prover[c] = "200" <=> Proving!Verify(call[c].found.y, proof[c].sent, params[c])
    BY DEF KnowledgeInv, Basics, OfCall, Proved
  <1>2. ~raced => Proving!OneGroup(c)
    <2>1. call[c].found # Proving!None /\ prover[c] # "idle"
      BY <1>1, RowsHaveGroups
    <2> QED
      BY <2>1 DEF KnowledgeInv, OneFile, SameGroup, Proving!OneGroup
  <1>3. ASSUME Proving!OneGroup(c)
        PROVE  prover[c] = "200" <=> call[c].found.x = proof[c].x
    <2>1. PICK G, x, r : /\ IsGroup(G) /\ x \in Secret /\ r \in Random
                         /\ proof[c] = [sent |-> Proving!Prove(x, r, G), x |-> x, group |-> G]
      BY <1>1 DEF Made
    <2>2. PICK H, z : /\ IsGroup(H) /\ z \in Secret
                      /\ call[c].found = [y |-> Proving!Public(z, H), x |-> z, group |-> H]
      BY <1>1 DEF Enrolled
    <2>3. /\ proof[c].sent = Proving!Prove(x, r, G) /\ proof[c].x = x /\ proof[c].group = G
          /\ call[c].found.y = Proving!Public(z, H) /\ call[c].found.x = z
          /\ call[c].found.group = H
      BY <2>1, <2>2
    <2>4. H = G /\ params[c] = G
      BY <1>3, <2>3 DEF Proving!OneGroup
    <2>5. PICK p \in SafePrime : G = Group(p)
      BY <2>1 DEF IsGroup
    <2>6. Proving!Verify(Proving!Public(z, G), Proving!Prove(x, r, G), G) <=> x = z
      BY <2>1, <2>2, <2>5, VerifyTells
    <2> QED
      BY <1>1, <2>3, <2>4, <2>6
  <1> QED
    BY <1>2, <1>3

LEMMA KnowledgeKeeps == Proving!Spec => []KnowledgeInv
  BY KnowledgeStarts, KnowledgeStep, PTL DEF Proving!Spec

-----------------------------------------------------------------------------
(* A behaviour of the run is one of each component, of which all but one    *)
(* stutter.                                                                *)

LEMMA EachRuns == WorkersSpec => Spec /\ Sliding!Spec /\ Register!Spec /\ Proving!Spec
  <1>1. WorkersInit => Init /\ Sliding!Init /\ Register!Init /\ Proving!Init
    BY DEF WorkersInit
  <1>2. [RunBucket \/ RunWindow \/ RunRegistration \/ RunLogin]_<<job, vars, windowVars, registrationVars, loginVars>>
        => /\ [Next]_vars
           /\ [Sliding!Next]_(Sliding!vars)
           /\ [Register!Next]_(Register!vars)
           /\ [Proving!Next]_(Proving!vars)
    BY DEF RunBucket, RunWindow, RunRegistration, RunLogin, windowVars, registrationVars, loginVars,
           Sliding!vars, Register!vars, Proving!vars
  <1> QED
    BY <1>1, <1>2, PTL DEF WorkersSpec, Spec, Sliding!Spec, Register!Spec, Proving!Spec

(* For every set of keys, capacity and rate: the bucket's number is the    *)
(* least that the allowance has left since any of the grants, so it never  *)
(* forgets a grant that still counts nor counts one that no longer does.   *)
THEOREM TokenBucketExact == WorkersSpec => []BucketInv
  BY EachRuns, BucketExact, PTL

(* For every set of keys, capacity and rate, TokenBucketLimiter grants and *)
(* refuses as the allowance does, and its retry_after is the exact one.    *)
THEOREM TokenBucketKeepsAllowance == WorkersSpec => KeepsAllowance
  BY EachRuns, BucketKeepsAllowance, PTL

(* Whatever the number of threads that the limiter answers at once, a      *)
(* window holds at most two calls per further thread more than are         *)
(* allowed, and a call is refused only when all but one per further thread *)
(* of the allowed ones are in its window: the deque of                     *)
(* SlidingWindowLimiter.check without a lock.                              *)
THEOREM WindowOffByThreadsOnly == WorkersSpec => []OffByThreadsOnly
  <1>1. Sliding!Spec => []WindowInv
    BY WindowStarts, WindowStep, PTL DEF Sliding!Spec
  <1> QED
    BY <1>1, EachRuns, WindowHolds, PTL

(* What a registration is answered is what happened, however many          *)
(* requests race for a name or an address, wherever the database fails and *)
(* whatever they carry, a password of few characters and of more bytes     *)
(* than bcrypt takes included (routes.py, register; hashing.py).           *)
THEOREM RegistrationOutcomeTold == WorkersSpec => []OutcomeTold
  BY EachRuns, RegistrationKeeps, RegistrationTells, PTL

(* Whatever groups OpenSSL comes up with, whoever enrols, whichever client *)
(* is killed, whenever the application restarts and however often a proof  *)
(* is sent again: in one group a proof is accepted exactly if it was made  *)
(* of the secret that its handler found registered, and the group is one   *)
(* unless two calls both opened the missing file (schnorr.py, zkp/routes). *)
THEOREM LoginKnowledgeIsVerified == WorkersSpec => []KnowledgeIsVerified
  BY EachRuns, KnowledgeKeeps, KnowledgeHolds, PTL

=============================================================================
