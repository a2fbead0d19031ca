-------------------------- MODULE RateLimiterProofs --------------------------
(***************************************************************************)
(* The window bound of the token bucket, for every number of threads and   *)
(* keys, every rate and every burst.                                       *)
(*                                                                         *)
(* WindowBound is not inductive: it says nothing of the tokens left.  The  *)
(* strengthening adds, per key, the balance of the bucket (Balance), that  *)
(* the level at the present time is not negative (LevelNeverNegative),     *)
(* that no clock reading in use is older than the window (InFlight), and   *)
(* that the thread in the critical section still knows truthfully whether  *)
(* its key has a bucket (Exclusive).                                       *)
(*                                                                         *)
(* The second half is about refusals: how early one can be, and when none  *)
(* is early.                                                               *)
(***************************************************************************)
EXTENDS RateLimiter, TLAPS

\* What was allowed in the window plus what is left is at most the burst plus
\* what was refilled since the window opened.  A bucket last refilled before
\* the window opened has not been used in it.
BalanceOf(k) ==
  /\ buckets[k] = NoBucket => admitted[k] = 0
  /\ (buckets[k] # NoBucket /\ buckets[k].last_refill < windowStart)
       => admitted[k] = 0
  /\ (buckets[k] # NoBucket /\ windowStart <= buckets[k].last_refill)
       => Cost * admitted[k] + buckets[k].tokens
            <= Capacity + RatePerMinute * (buckets[k].last_refill - windowStart)

Balance == \A k \in Keys : BalanceOf(k)

InFlight == \A t \in Threads : pc[t] # "idle" => windowStart <= now[t]

Exclusive ==
  \A t \in Threads : pc[t] = "locked" =>
    /\ lock = t
    /\ found[t] <=> buckets[key[t]] # NoBucket

IInv == TypeOK /\ Balance /\ LevelNeverNegative /\ InFlight /\ Exclusive
-----------------------------------------------------------------------------
\* What the clock adds up is additive and monotone in the time passed.
LEMMA Accrual ==
  ASSUME NEW a \in Int, NEW b \in Int, NEW c \in Int
  PROVE  /\ RatePerMinute * (b - a) \in Int
         /\ RatePerMinute * (c - a)
              = RatePerMinute * (c - b) + RatePerMinute * (b - a)
         /\ a <= b => RatePerMinute * (b - a) >= 0
<1>1. RatePerMinute \in Nat
  BY RateAssumption
<1>2. RatePerMinute * (b - a) \in Int
  BY <1>1
<1>3. RatePerMinute * (c - a) = RatePerMinute * (c - b) + RatePerMinute * (b - a)
  BY <1>1
<1>4. a <= b => RatePerMinute * (b - a) >= 0
  BY <1>1
<1>5. QED
  BY <1>2, <1>3, <1>4

\* Refilled (lines 33-35) caps the bucket at the burst and stamps it with the
\* reading used; below the cap it adds exactly what accrued, be it negative.
LEMMA RefilledFacts ==
  ASSUME NEW b \in Bucket, NEW n \in Int
  PROVE  LET r == Refilled(b, n)
             level == b.tokens + RatePerMinute * (n - b.last_refill)
         IN /\ r \in Bucket
            /\ r.last_refill = n
            /\ r.tokens <= Capacity
            /\ r.tokens <= level
            /\ r.tokens = level \/ r.tokens = Capacity
<1>1. Capacity \in Nat
  BY RateAssumption DEF Capacity
<1>2. /\ b.tokens \in Int
      /\ b.last_refill \in Int
  BY DEF Bucket
<1> DEFINE acc == RatePerMinute * (n - b.last_refill)
<1>3. acc \in Int
  BY <1>2, Accrual
<1> HIDE DEF acc
<1>4. Refilled(b, n) =
        [tokens |-> IF b.tokens + acc <= Capacity THEN b.tokens + acc ELSE Capacity,
         last_refill |-> n]
  BY DEF Refilled, acc
<1>5. QED
  BY <1>1, <1>2, <1>3, <1>4 DEF Bucket, acc

\* What holds of the refilled bucket of a thread in the critical section: it
\* is in balance with the calls allowed so far and its level is not negative.
LEMMA UpdateFacts ==
  ASSUME IInv, NEW t \in Threads, pc[t] = "locked"
  PROVE  LET k == key[t]
             r == Refilled(Current(t), now[t])
         IN /\ k \in Keys
            /\ now[t] \in Int /\ windowStart <= now[t] /\ now[t] <= clock
            /\ 0 <= now[t]
            /\ clock \in Int /\ windowStart \in Int
            /\ r \in Bucket
            /\ r.last_refill = now[t]
            /\ r.tokens <= Capacity
            /\ Cost * admitted[k] + r.tokens
                 <= Capacity + RatePerMinute * (now[t] - windowStart)
            /\ r.tokens + RatePerMinute * (clock - now[t]) >= 0
<1> DEFINE k == key[t]
           c == Current(t)
           n == now[t]
           r == Refilled(c, n)
<1>1. /\ k \in Keys
      /\ n \in Int /\ n <= clock /\ 0 <= n
      /\ clock \in Int /\ windowStart \in Int
      /\ admitted[k] \in Nat
  BY ClockAssumption DEF IInv, TypeOK
<1>2. windowStart <= n
  BY DEF IInv, InFlight
<1>3. Capacity \in Nat
  BY RateAssumption DEF Capacity
<1>4. found[t] <=> buckets[k] # NoBucket
  BY DEF IInv, Exclusive
<1>5. CASE ~found[t]
  <2>1. c = [tokens |-> Capacity, last_refill |-> n]
    BY <1>5 DEF Current
  <2>2. c \in Bucket /\ c.tokens = Capacity /\ c.last_refill = n
    BY <2>1, <1>3, <1>1 DEF Bucket
  <2>3. admitted[k] = 0
    BY <1>5, <1>4, <1>1 DEF IInv, Balance, BalanceOf
  <2>4. /\ RatePerMinute * (n - windowStart) \in Nat
        /\ RatePerMinute * (clock - n) \in Nat
        /\ RatePerMinute * (n - n) = 0
    <3>1. n - windowStart \in Nat /\ clock - n \in Nat /\ n - n = 0
      BY <1>1, <1>2
    <3>2. \A d \in Nat : RatePerMinute * d \in Nat
      BY RateAssumption
    <3>3. RatePerMinute * 0 = 0
      BY RateAssumption
    <3>4. QED
      BY <3>1, <3>2, <3>3
  <2>5. /\ r \in Bucket /\ r.last_refill = n /\ r.tokens <= Capacity
        /\ r.tokens = c.tokens + RatePerMinute * (n - c.last_refill) \/ r.tokens = Capacity
    BY <2>2, <1>1, RefilledFacts
  <2>6. r.tokens \in Int /\ r.tokens >= 0
    BY <2>5, <2>4, <2>2, <1>3 DEF Bucket
  <2>7. Cost * admitted[k] = 0
    BY <2>3 DEF Cost
  <2>8. QED
    BY <1>1, <1>2, <1>3, <2>4, <2>5, <2>6, <2>7
<1>6. CASE found[t]
  <2>1. c = buckets[k] /\ buckets[k] # NoBucket
    BY <1>6, <1>4 DEF Current
  <2>2. c \in Bucket /\ c.tokens \in Int /\ c.last_refill \in Int
    BY <2>1, <1>1 DEF IInv, TypeOK, Bucket
  <2>3. c.tokens + RatePerMinute * (clock - c.last_refill) >= 0
    BY <2>1, <1>1 DEF IInv, LevelNeverNegative
  <2>4. /\ r \in Bucket /\ r.last_refill = n /\ r.tokens <= Capacity
        /\ r.tokens <= c.tokens + RatePerMinute * (n - c.last_refill)
        /\ r.tokens = c.tokens + RatePerMinute * (n - c.last_refill) \/ r.tokens = Capacity
    BY <2>2, <1>1, RefilledFacts
  <2>5. r.tokens \in Int
    BY <2>4 DEF Bucket
  <2>6. r.tokens + RatePerMinute * (clock - n) >= 0
    <3>1. /\ RatePerMinute * (clock - c.last_refill)
               = RatePerMinute * (clock - n) + RatePerMinute * (n - c.last_refill)
          /\ RatePerMinute * (clock - n) \in Int
          /\ RatePerMinute * (n - c.last_refill) \in Int
          /\ RatePerMinute * (clock - n) >= 0
      BY <1>1, <2>2, Accrual
    <3>2. QED
      BY <3>1, <2>3, <2>4, <2>5, <2>2, <1>3
  <2>7. Cost * admitted[k] + r.tokens
          <= Capacity + RatePerMinute * (n - windowStart)
    <3>0. RatePerMinute * (n - windowStart) >= 0 /\ RatePerMinute * (n - windowStart) \in Int
      BY <1>1, <1>2, Accrual
    <3>1. CASE c.last_refill < windowStart
      <4>1. admitted[k] = 0
        BY <3>1, <2>1, <1>1 DEF IInv, Balance, BalanceOf
      <4>2. Cost * admitted[k] = 0
        BY <4>1 DEF Cost
      <4>3. QED
        BY <4>2, <3>0, <2>4, <2>5, <1>3
    <3>2. CASE windowStart <= c.last_refill
      <4>1. Cost * admitted[k] + c.tokens
              <= Capacity + RatePerMinute * (c.last_refill - windowStart)
        BY <3>2, <2>1, <1>1 DEF IInv, Balance, BalanceOf
      <4>2. /\ RatePerMinute * (n - windowStart)
                 = RatePerMinute * (n - c.last_refill)
                     + RatePerMinute * (c.last_refill - windowStart)
            /\ RatePerMinute * (n - c.last_refill) \in Int
            /\ RatePerMinute * (c.last_refill - windowStart) \in Int
        BY <1>1, <2>2, Accrual
      <4>3. Cost * admitted[k] \in Int
        BY <1>1 DEF Cost
      <4>4. QED
        BY <4>1, <4>2, <4>3, <3>0, <2>4, <2>5, <2>2, <1>3
    <3>3. QED
      BY <3>1, <3>2, <1>1, <2>2
  <2>8. QED
    BY <1>1, <1>2, <2>4, <2>6, <2>7
<1>7. QED
  BY <1>5, <1>6

\* The strengthened invariant holds initially.
LEMMA InitIInv == Init => IInv
<1> SUFFICES ASSUME Init PROVE IInv
  OBVIOUS
<1>1. TypeOK
  BY RateAssumption, ClockAssumption DEF Init, TypeOK, Bucket
<1>2. Balance
  BY DEF Init, Balance, BalanceOf
<1>3. LevelNeverNegative
  BY DEF Init, LevelNeverNegative
<1>4. InFlight
  BY DEF Init, InFlight
<1>5. Exclusive
  BY DEF Init, Exclusive
<1>6. QED
  BY <1>1, <1>2, <1>3, <1>4, <1>5 DEF IInv

\* Time passing keeps the invariant: levels only rise.
LEMMA TickIInv == IInv /\ Tick => IInv'
<1> SUFFICES ASSUME IInv, Tick PROVE IInv'
  OBVIOUS
<1>1. /\ clock \in Int /\ clock' = clock + 1 /\ clock' \in 0 .. MaxClock
      /\ UNCHANGED <<buckets, lock, pc, key, now, found, admitted, windowStart>>
  BY ClockAssumption DEF IInv, TypeOK, Tick
<1>2. TypeOK'
  BY <1>1 DEF IInv, TypeOK, Bucket
<1>3. Balance'
  BY <1>1 DEF IInv, Balance, BalanceOf
<1>4. LevelNeverNegative'
  <2> SUFFICES ASSUME NEW k \in Keys, buckets[k] # NoBucket
               PROVE  buckets[k].tokens
                        + RatePerMinute * (clock' - buckets[k].last_refill) >= 0
    BY <1>1 DEF LevelNeverNegative
  <2> DEFINE b == buckets[k]
  <2>1. b.tokens \in Int /\ b.last_refill \in Int
    BY DEF IInv, TypeOK, Bucket
  <2>2. b.tokens + RatePerMinute * (clock - b.last_refill) >= 0
    BY DEF IInv, LevelNeverNegative
  <2>3. /\ RatePerMinute * (clock' - b.last_refill)
             = RatePerMinute * (clock' - clock) + RatePerMinute * (clock - b.last_refill)
        /\ RatePerMinute * (clock' - clock) >= 0
        /\ RatePerMinute * (clock' - clock) \in Int
        /\ RatePerMinute * (clock - b.last_refill) \in Int
    <3>1. clock' \in Int /\ clock <= clock'
      BY <1>1
    <3>2. QED
      BY <3>1, <2>1, <1>1, Accrual
  <2>4. QED
    BY <2>1, <2>2, <2>3
<1>5. InFlight' /\ Exclusive'
  BY <1>1 DEF IInv, InFlight, Exclusive
<1>6. QED
  BY <1>2, <1>3, <1>4, <1>5 DEF IInv

\* A call begins with a reading of the present, which no open window excludes.
LEMMA CallIInv ==
  ASSUME IInv, NEW t \in Threads, NEW k \in Keys, CallAllow(t, k)
  PROVE  IInv'
<1>1. UNCHANGED <<clock, buckets, lock, found, admitted, windowStart>>
  BY DEF CallAllow
<1>2. TypeOK'
  BY <1>1, ClockAssumption DEF IInv, TypeOK, CallAllow, Bucket
<1>3. Balance' /\ LevelNeverNegative'
  BY <1>1 DEF IInv, Balance, BalanceOf, LevelNeverNegative
<1>4. InFlight'
  BY <1>1, ClockAssumption DEF IInv, TypeOK, InFlight, CallAllow
<1>5. Exclusive'
  BY <1>1 DEF IInv, TypeOK, Exclusive, CallAllow
<1>6. QED
  BY <1>2, <1>3, <1>4, <1>5 DEF IInv

\* Taking the lock: nobody else is in the critical section.
LEMMA AcquireIInv ==
  ASSUME IInv, NEW t \in Threads, Acquire(t)
  PROVE  IInv'
<1>1. UNCHANGED <<clock, buckets, key, now, admitted, windowStart>>
  BY DEF Acquire
<1>2. TypeOK'
  BY <1>1 DEF IInv, TypeOK, Acquire, Bucket
<1>3. Balance' /\ LevelNeverNegative'
  BY <1>1 DEF IInv, Balance, BalanceOf, LevelNeverNegative
<1>4. InFlight'
  BY <1>1 DEF IInv, TypeOK, InFlight, Acquire
<1>5. Exclusive'
  BY <1>1, ThreadAssumption DEF IInv, TypeOK, Exclusive, Acquire
<1>6. QED
  BY <1>2, <1>3, <1>4, <1>5 DEF IInv

\* Leaving the critical section with bucket b stored and a calls allowed keeps
\* the invariant when b is in balance with a and its level is not negative.
LEMMA ReturnIInv ==
  ASSUME IInv, NEW t \in Threads, pc[t] = "locked",
         NEW b \in Bucket, NEW a \in Nat,
         b.last_refill = now[t],
         b.tokens <= Capacity,
         Cost * a + b.tokens
           <= Capacity + RatePerMinute * (now[t] - windowStart),
         b.tokens + RatePerMinute * (clock - now[t]) >= 0,
         buckets' = [buckets EXCEPT ![key[t]] = b],
         admitted' = [admitted EXCEPT ![key[t]] = a],
         Return(t),
         UNCHANGED <<clock, key, now, found, windowStart>>
  PROVE  IInv'
<1>1. /\ key[t] \in Keys
      /\ windowStart <= now[t] /\ now[t] <= clock /\ now[t] \in 0 .. clock
      /\ b # NoBucket
      /\ clock \in Int /\ windowStart \in Int
  BY BucketAssumption, ClockAssumption DEF IInv, TypeOK, InFlight, Bucket
<1>2. TypeOK'
  BY <1>1 DEF IInv, TypeOK, Return, Bucket
<1>3. Balance'
  <2> SUFFICES ASSUME NEW k \in Keys PROVE BalanceOf(k)'
    BY DEF Balance
  <2>1. CASE k = key[t]
    <3>1. buckets'[k] = b /\ admitted'[k] = a
      BY <2>1, <1>1 DEF IInv, TypeOK
    <3>2. QED
      BY <3>1, <1>1 DEF BalanceOf
  <2>2. CASE k # key[t]
    <3>1. buckets'[k] = buckets[k] /\ admitted'[k] = admitted[k]
      BY <2>2 DEF IInv, TypeOK
    <3>2. QED
      BY <3>1 DEF IInv, Balance, BalanceOf
  <2>3. QED
    BY <2>1, <2>2
<1>4. LevelNeverNegative'
  <2> SUFFICES ASSUME NEW k \in Keys, buckets'[k] # NoBucket
               PROVE  buckets'[k].tokens
                        + RatePerMinute * (clock' - buckets'[k].last_refill) >= 0
    BY DEF LevelNeverNegative
  <2>1. CASE k = key[t]
    <3>1. buckets'[k] = b
      BY <2>1 DEF IInv, TypeOK
    <3>2. QED
      BY <3>1
  <2>2. CASE k # key[t]
    <3>1. buckets'[k] = buckets[k]
      BY <2>2 DEF IInv, TypeOK
    <3>2. QED
      BY <3>1 DEF IInv, LevelNeverNegative
  <2>3. QED
    BY <2>1, <2>2
<1>5. InFlight'
  BY DEF IInv, TypeOK, InFlight, Return
<1>6. Exclusive'
  <2>1. \A u \in Threads : pc'[u] # "locked"
    BY DEF IInv, TypeOK, Exclusive, Return
  <2>2. QED
    BY <2>1 DEF Exclusive
<1>7. QED
  BY <1>2, <1>3, <1>4, <1>5, <1>6 DEF IInv

\* A refused call stores the refilled bucket.
LEMMA DenyIInv ==
  ASSUME IInv, NEW t \in Threads, Deny(t)
  PROVE  IInv'
<1> DEFINE k == key[t]
           r == Refilled(Current(t), now[t])
<1>1. pc[t] = "locked"
  BY DEF Deny
<1>2. admitted[k] \in Nat /\ admitted = [admitted EXCEPT ![k] = admitted[k]]
  BY DEF IInv, TypeOK
<1>3. /\ r \in Bucket /\ r.last_refill = now[t] /\ r.tokens <= Capacity
      /\ Cost * admitted[k] + r.tokens
           <= Capacity + RatePerMinute * (now[t] - windowStart)
      /\ r.tokens + RatePerMinute * (clock - now[t]) >= 0
  BY <1>1, UpdateFacts
<1>4. /\ buckets' = [buckets EXCEPT ![k] = r]
      /\ admitted' = [admitted EXCEPT ![k] = admitted[k]]
      /\ Return(t)
      /\ UNCHANGED <<clock, key, now, found, windowStart>>
  BY <1>2 DEF Deny
<1> HIDE DEF r
<1>5. QED
  BY <1>1, <1>2, <1>3, <1>4, ReturnIInv

\* An allowed call spends one token of the refilled bucket, which has one.
LEMMA GrantIInv ==
  ASSUME IInv, NEW t \in Threads, Grant(t)
  PROVE  IInv'
<1> DEFINE k == key[t]
           r == Refilled(Current(t), now[t])
           b == [tokens |-> r.tokens - Cost, last_refill |-> r.last_refill]
           a == admitted[k] + 1
<1>1. pc[t] = "locked"
  BY DEF Grant
<1>2. admitted[k] \in Nat
  BY DEF IInv, TypeOK
<1>3. /\ r \in Bucket /\ r.last_refill = now[t] /\ r.tokens <= Capacity
      /\ Cost * admitted[k] + r.tokens
           <= Capacity + RatePerMinute * (now[t] - windowStart)
      /\ now[t] \in Int /\ now[t] <= clock /\ clock \in Int /\ windowStart \in Int
  BY <1>1, UpdateFacts
<1>4. /\ r.tokens >= Cost
      /\ buckets' = [buckets EXCEPT ![k] = b]
      /\ admitted' = [admitted EXCEPT ![k] = a]
      /\ Return(t)
      /\ UNCHANGED <<clock, key, now, found, windowStart>>
  BY DEF Grant, Grants
<1> HIDE DEF r
<1>5. /\ b \in Bucket /\ b.last_refill = now[t] /\ b.tokens = r.tokens - Cost
      /\ r.tokens \in Int /\ b.tokens \in Int
  BY <1>3 DEF Bucket, Cost
<1>6. /\ RatePerMinute * (clock - now[t]) >= 0
      /\ RatePerMinute * (clock - now[t]) \in Int
      /\ RatePerMinute * (now[t] - windowStart) \in Int
  BY <1>3, Accrual
<1>7. Capacity \in Nat
  BY RateAssumption DEF Capacity
<1>8. a \in Nat /\ Cost * a + b.tokens = Cost * admitted[k] + r.tokens
  BY <1>2, <1>5 DEF Cost
<1> HIDE DEF a, b
<1>9. /\ b.tokens <= Capacity
      /\ Cost * a + b.tokens <= Capacity + RatePerMinute * (now[t] - windowStart)
      /\ b.tokens + RatePerMinute * (clock - now[t]) >= 0
  BY <1>3, <1>4, <1>5, <1>6, <1>7, <1>8 DEF Cost
<1>10. QED
  BY <1>1, <1>4, <1>5, <1>8, <1>9, ReturnIInv

\* A fresh window starts with nothing counted.
LEMMA WindowIInv == IInv /\ OpenWindow => IInv'
<1> SUFFICES ASSUME IInv, OpenWindow PROVE IInv'
  OBVIOUS
<1>1. PICK w \in 1 .. MaxClock :
        /\ windowStart < w /\ w <= clock
        /\ \A t \in Threads : pc[t] # "idle" => w <= now[t]
        /\ windowStart' = w
        /\ admitted' = [k \in Keys |-> 0]
        /\ UNCHANGED <<clock, buckets, lock, pc, key, now, found>>
  BY DEF OpenWindow
<1>2. TypeOK'
  BY <1>1, ClockAssumption DEF IInv, TypeOK, Bucket
<1>3. Balance'
  <2> SUFFICES ASSUME NEW k \in Keys PROVE BalanceOf(k)'
    BY DEF Balance
  <2>1. admitted'[k] = 0 /\ buckets'[k] = buckets[k] /\ windowStart' = w
    BY <1>1
  <2>2. CASE buckets[k] = NoBucket
    BY <2>1, <2>2 DEF BalanceOf
  <2>3. CASE buckets[k] # NoBucket
    <3> DEFINE b == buckets[k]
    <3>1. /\ b.tokens \in Int /\ b.tokens <= Capacity
          /\ b.last_refill \in Int /\ w \in Int
      BY <2>3, <1>1, ClockAssumption DEF IInv, TypeOK, Bucket
    <3>2. w <= b.last_refill => RatePerMinute * (b.last_refill - w) >= 0
      BY <3>1, Accrual
    <3>3. RatePerMinute * (b.last_refill - w) \in Int
      BY <3>1, Accrual
    <3>4. Cost * 0 = 0 /\ Capacity \in Nat
      BY RateAssumption DEF Cost, Capacity
    <3>5. QED
      BY <2>1, <2>3, <3>1, <3>2, <3>3, <3>4 DEF BalanceOf
  <2>4. QED
    BY <2>2, <2>3
<1>4. LevelNeverNegative' /\ InFlight' /\ Exclusive'
  BY <1>1 DEF IInv, LevelNeverNegative, InFlight, Exclusive
<1>5. QED
  BY <1>2, <1>3, <1>4 DEF IInv

\* Every step of the limiter keeps the strengthened invariant.
LEMMA NextIInv == IInv /\ [Next]_vars => IInv'
<1> SUFFICES ASSUME IInv, [Next]_vars PROVE IInv'
  OBVIOUS
<1>1. CASE Tick
  BY <1>1, TickIInv
<1>2. CASE OpenWindow
  BY <1>2, WindowIInv
<1>3. ASSUME NEW t \in Threads, NEW k \in Keys, CallAllow(t, k) PROVE IInv'
  BY <1>3, CallIInv
<1>4. ASSUME NEW t \in Threads, Acquire(t) PROVE IInv'
  BY <1>4, AcquireIInv
<1>5. ASSUME NEW t \in Threads, Deny(t) PROVE IInv'
  BY <1>5, DenyIInv
<1>6. ASSUME NEW t \in Threads, Grant(t) PROVE IInv'
  BY <1>6, GrantIInv
<1>7. CASE UNCHANGED vars
  BY <1>7 DEF vars, IInv, TypeOK, Balance, BalanceOf, LevelNeverNegative,
              InFlight, Exclusive
<1>8. QED
  BY <1>1, <1>2, <1>3, <1>4, <1>5, <1>6, <1>7 DEF Next

\* The strengthened invariant implies the window bound: what is left in the
\* bucket is at least minus what the clock has still to put back.
LEMMA IInvWindowBound == IInv => WindowBound
<1> SUFFICES ASSUME IInv, NEW k \in Keys
             PROVE  Cost * admitted[k]
                      <= Capacity + RatePerMinute * (clock - windowStart)
  BY DEF WindowBound
<1>1. /\ clock \in Int /\ windowStart \in Int /\ windowStart <= clock
      /\ admitted[k] \in Nat /\ Capacity \in Nat
  BY RateAssumption, ClockAssumption DEF IInv, TypeOK, Capacity
<1>2. /\ RatePerMinute * (clock - windowStart) >= 0
      /\ RatePerMinute * (clock - windowStart) \in Int
  BY <1>1, Accrual
<1>3. CASE admitted[k] = 0
  <2>1. Cost * admitted[k] = 0
    BY <1>3 DEF Cost
  <2>2. QED
    BY <2>1, <1>1, <1>2
<1>4. CASE admitted[k] # 0
  <2> DEFINE b == buckets[k]
  <2>1. /\ b # NoBucket
        /\ b.tokens \in Int /\ b.last_refill \in Int
        /\ windowStart <= b.last_refill
    BY <1>1, <1>4 DEF IInv, TypeOK, Bucket, Balance, BalanceOf
  <2>2. Cost * admitted[k] + b.tokens
          <= Capacity + RatePerMinute * (b.last_refill - windowStart)
    BY <2>1 DEF IInv, Balance, BalanceOf
  <2>3. b.tokens + RatePerMinute * (clock - b.last_refill) >= 0
    BY <2>1 DEF IInv, LevelNeverNegative
  <2>4. /\ RatePerMinute * (clock - windowStart)
             = RatePerMinute * (clock - b.last_refill)
                 + RatePerMinute * (b.last_refill - windowStart)
        /\ RatePerMinute * (clock - b.last_refill) \in Int
        /\ RatePerMinute * (b.last_refill - windowStart) \in Int
    BY <1>1, <2>1, Accrual
  <2>5. Cost * admitted[k] \in Int
    BY <1>1 DEF Cost
  <2>6. QED
    BY <1>1, <2>1, <2>2, <2>3, <2>4, <2>5
<1>5. QED
  BY <1>3, <1>4

\* Types and ranges of the limiter's state (RateLimiter and its callers).
THEOREM LimiterTypeOK == Spec => []TypeOK
<1>1. IInv => TypeOK
  BY DEF IInv
<1>2. QED
  BY <1>1, InitIInv, NextIInv, PTL DEF Spec

\* RateLimiter.allow keeps the rate: in any window a subject is allowed at most
\* the burst plus what the rate yields over the window, however the threads
\* are delayed between reading the clock and taking the lock.
THEOREM LimiterWindowBound == Spec => []WindowBound
<1>1. QED
  BY InitIInv, NextIInv, IInvWindowBound, PTL DEF Spec

\* The overdraft a late thread leaves in a bucket is never more than the clock
\* has already earned back.
THEOREM LimiterLevelNeverNegative == Spec => []LevelNeverNegative
<1>1. IInv => LevelNeverNegative
  BY DEF IInv
<1>2. QED
  BY <1>1, InitIInv, NextIInv, PTL DEF Spec
-----------------------------------------------------------------------------
(* Refusals.  RefusedOnlyAfterBurst fails when a thread is late; how early *)
(* can a subject be refused?                                               *)

\* Until the first observer's window opens, what was allowed, what is left and
\* what the clock has still to put back make up at least the burst.
SpentOf(k) ==
  /\ buckets[k] = NoBucket => admitted[k] = 0
  /\ buckets[k] # NoBucket =>
       Cost * admitted[k] + buckets[k].tokens
         + RatePerMinute * (clock - buckets[k].last_refill) >= Capacity

SpentInv == windowStart = 0 => \A k \in Keys : SpentOf(k)

\* The same for the refilled bucket of the thread in the critical section.
LEMMA RefilledSpent ==
  ASSUME IInv, SpentInv, windowStart = 0, NEW t \in Threads, pc[t] = "locked"
  PROVE  LET k == key[t]
             r == Refilled(Current(t), now[t])
         IN Cost * admitted[k] + r.tokens + RatePerMinute * (clock - now[t]) >= Capacity
<1> DEFINE k == key[t]
           c == Current(t)
           n == now[t]
           r == Refilled(c, n)
<1> SUFFICES Cost * admitted[k] + r.tokens + RatePerMinute * (clock - n) >= Capacity
  OBVIOUS
<1>1. /\ k \in Keys /\ n \in Int /\ n <= clock /\ clock \in Int /\ r \in Bucket
      /\ admitted[k] \in Nat /\ Capacity \in Nat
  BY UpdateFacts, RateAssumption DEF IInv, TypeOK, Capacity
<1>2. found[t] <=> buckets[k] # NoBucket
  BY DEF IInv, Exclusive
<1>3. r.tokens \in Int /\ Cost * admitted[k] \in Nat
  BY <1>1 DEF Bucket, Cost
<1>4. RatePerMinute * (clock - n) \in Int /\ RatePerMinute * (clock - n) >= 0
  BY <1>1, Accrual
<1>5. CASE r.tokens = Capacity
  <2> HIDE DEF r, n, k
  <2> QED
    BY <1>1, <1>3, <1>4, <1>5
<1>6. CASE ~found[t]
  <2>1. c = [tokens |-> Capacity, last_refill |-> n] /\ c \in Bucket
    BY <1>1, <1>6 DEF Current, Bucket
  <2>2. RatePerMinute * (n - n) = 0
    BY <1>1, RateAssumption
  <2>3. \/ r.tokens = c.tokens + RatePerMinute * (n - c.last_refill)
        \/ r.tokens = Capacity
    BY <2>1, <1>1, RefilledFacts
  <2>4. c.tokens = Capacity /\ c.last_refill = n
    BY <2>1
  <2>5. r.tokens = Capacity
    BY <1>1, <2>2, <2>3, <2>4
  <2> QED
    BY <1>5, <2>5
<1>7. CASE found[t] /\ r.tokens # Capacity
  <2>1. c = buckets[k] /\ buckets[k] # NoBucket
    BY <1>7, <1>2 DEF Current
  <2>2. c \in Bucket /\ c.tokens \in Int /\ c.last_refill \in Int
    BY <2>1, <1>1 DEF IInv, TypeOK, Bucket
  <2>3. r.tokens = c.tokens + RatePerMinute * (n - c.last_refill)
    BY <2>2, <1>1, <1>7, RefilledFacts
  <2>4. Cost * admitted[k] + c.tokens + RatePerMinute * (clock - c.last_refill) >= Capacity
    BY <2>1, <1>1 DEF SpentInv, SpentOf
  <2>5. /\ RatePerMinute * (clock - c.last_refill)
             = RatePerMinute * (clock - n) + RatePerMinute * (n - c.last_refill)
        /\ RatePerMinute * (n - c.last_refill) \in Int
    BY <1>1, <2>2, Accrual
  <2> HIDE DEF r, c, n, k
  <2> QED
    BY <1>1, <1>3, <1>4, <2>2, <2>3, <2>4, <2>5
<1> QED
  BY <1>5, <1>6, <1>7

\* The buckets and counts of the keys a returning call does not touch stay.
LEMMA ReturnSpent ==
  ASSUME IInv, SpentInv, windowStart = 0, NEW t \in Threads, pc[t] = "locked",
         NEW b, NEW a,
         buckets' = [buckets EXCEPT ![key[t]] = b],
         admitted' = [admitted EXCEPT ![key[t]] = a],
         clock' = clock, b # NoBucket,
         Cost * a + b.tokens + RatePerMinute * (clock - b.last_refill) >= Capacity
  PROVE  \A k \in Keys : SpentOf(k)'
<1> SUFFICES ASSUME NEW k \in Keys PROVE SpentOf(k)'
  OBVIOUS
<1>1. CASE k = key[t]
  <2>1. buckets'[k] = b /\ admitted'[k] = a
    BY <1>1 DEF IInv, TypeOK
  <2> QED
    BY <2>1 DEF SpentOf
<1>2. CASE k # key[t]
  <2>1. buckets'[k] = buckets[k] /\ admitted'[k] = admitted[k]
    BY <1>2 DEF IInv, TypeOK
  <2> QED
    BY <2>1 DEF SpentInv, SpentOf
<1> QED
  BY <1>1, <1>2

\* Every step keeps the sum at the burst or above: a call moves one token from the
\* bucket to the count, the clock adds, and a cap only ever leaves a full bucket.
LEMMA SpentStep == IInv /\ SpentInv /\ [Next]_vars => SpentInv'
<1> SUFFICES ASSUME IInv, SpentInv, [Next]_vars, windowStart' = 0
             PROVE  \A k \in Keys : SpentOf(k)'
  BY DEF SpentInv
<1>1. CASE Tick
  <2>1. /\ clock' = clock + 1 /\ windowStart = 0 /\ clock \in Int
        /\ UNCHANGED <<buckets, admitted>>
    BY <1>1, ClockAssumption DEF Tick, IInv, TypeOK
  <2> SUFFICES ASSUME NEW k \in Keys PROVE SpentOf(k)'
    OBVIOUS
  <2> DEFINE b == buckets[k]
             later == clock'
  <2>2. CASE b = NoBucket
    BY <2>1, <2>2 DEF SpentInv, SpentOf
  <2>3. CASE b # NoBucket
    <3>1. /\ b.tokens \in Int /\ b.last_refill \in Int /\ admitted[k] \in Nat
          /\ later \in Int /\ clock <= later
      BY <2>1, <2>3 DEF IInv, TypeOK, Bucket
    <3>2. Cost * admitted[k] \in Int /\ Capacity \in Int
      BY <3>1, RateAssumption DEF Cost, Capacity
    <3>3. Cost * admitted[k] + b.tokens + RatePerMinute * (clock - b.last_refill) >= Capacity
      BY <2>1, <2>3 DEF SpentInv, SpentOf
    <3> HIDE DEF later, b
    <3>4. /\ RatePerMinute * (later - b.last_refill)
               = RatePerMinute * (later - clock) + RatePerMinute * (clock - b.last_refill)
          /\ RatePerMinute * (later - clock) >= 0
          /\ RatePerMinute * (later - clock) \in Int
          /\ RatePerMinute * (clock - b.last_refill) \in Int
      BY <2>1, <3>1, Accrual
    <3>5. Cost * admitted[k] + b.tokens + RatePerMinute * (later - b.last_refill) >= Capacity
      BY <3>1, <3>2, <3>3, <3>4
    <3> QED
      BY <2>1, <2>3, <3>5 DEF SpentOf, b, later
  <2> QED
    BY <2>2, <2>3
<1>2. CASE OpenWindow
  BY <1>2 DEF OpenWindow
<1>3. CASE UNCHANGED <<clock, buckets, admitted, windowStart>>
  BY <1>3 DEF SpentInv, SpentOf
<1>4. ASSUME NEW t \in Threads, Deny(t) PROVE \A k \in Keys : SpentOf(k)'
  <2> DEFINE r == Refilled(Current(t), now[t])
             a == admitted[key[t]]
  <2>1. /\ pc[t] = "locked" /\ windowStart = 0 /\ clock' = clock
        /\ buckets' = [buckets EXCEPT ![key[t]] = r] /\ admitted' = admitted
    BY <1>4 DEF Deny
  <2>2. r \in Bucket /\ r.last_refill = now[t]
    BY <2>1, UpdateFacts
  <2>3. Cost * a + r.tokens + RatePerMinute * (clock - now[t]) >= Capacity
    BY <2>1, RefilledSpent
  <2>4. admitted' = [admitted EXCEPT ![key[t]] = a] /\ r # NoBucket
    BY <2>1, <2>2, BucketAssumption DEF IInv, TypeOK, Bucket
  <2> HIDE DEF r, a
  <2> QED
    BY <2>1, <2>2, <2>3, <2>4, ReturnSpent
<1>5. ASSUME NEW t \in Threads, Grant(t) PROVE \A k \in Keys : SpentOf(k)'
  <2> DEFINE r == Refilled(Current(t), now[t])
             b == [tokens |-> r.tokens - Cost, last_refill |-> r.last_refill]
             a == admitted[key[t]] + 1
  <2>1. /\ pc[t] = "locked" /\ windowStart = 0 /\ clock' = clock
        /\ buckets' = [buckets EXCEPT ![key[t]] = b]
        /\ admitted' = [admitted EXCEPT ![key[t]] = a]
    BY <1>5 DEF Grant, IInv, TypeOK
  <2>2. /\ r \in Bucket /\ r.last_refill = now[t]
        /\ now[t] \in Int /\ clock \in Int /\ admitted[key[t]] \in Nat
    BY <2>1, UpdateFacts DEF IInv, TypeOK
  <2>3. Cost * admitted[key[t]] + r.tokens + RatePerMinute * (clock - now[t]) >= Capacity
    BY <2>1, RefilledSpent
  <2> HIDE DEF r
  <2>4. /\ b.tokens = r.tokens - Cost /\ b.last_refill = now[t]
        /\ r.tokens \in Int /\ b \in Bucket
    BY <2>2 DEF Bucket, Cost
  <2>5. b # NoBucket
    BY <2>4, BucketAssumption DEF Bucket
  <2>6. Cost * a + b.tokens = Cost * admitted[key[t]] + r.tokens
    BY <2>2, <2>4 DEF Cost
  <2> HIDE DEF a, b
  <2>7. Cost * a + b.tokens + RatePerMinute * (clock - b.last_refill) >= Capacity
    BY <2>3, <2>4, <2>6
  <2> QED
    BY <2>1, <2>5, <2>7, ReturnSpent
<1>6. ASSUME NEW t \in Threads, Acquire(t) \/ \E k \in Keys : CallAllow(t, k)
      PROVE  UNCHANGED <<clock, buckets, admitted, windowStart>>
  BY <1>6 DEF Acquire, CallAllow
<1>7. UNCHANGED vars => UNCHANGED <<clock, buckets, admitted, windowStart>>
  BY DEF vars
<1> QED
  BY <1>1, <1>2, <1>3, <1>4, <1>5, <1>6, <1>7 DEF Next

\* How early allow() can refuse: a subject that has been refused had, since the
\* limiter was made, used its burst but for less than one call plus what the rate
\* yields over the time its thread waited for the lock with an old clock reading.
RefusedEarlyBound ==
  [][\A t \in Threads : (Deny(t) /\ windowStart = 0) =>
       Cost * (admitted[key[t]] + 1) + RatePerMinute * (clock - now[t]) > Capacity]_vars

\* No refusal is premature by more than the refill over the age of the reading.
THEOREM LimiterRefusedEarlyBound == Spec => RefusedEarlyBound
<1>1. Init => SpentInv
  BY DEF Init, SpentInv, SpentOf
<1>2. ASSUME IInv, SpentInv, NEW t \in Threads, Deny(t), windowStart = 0
      PROVE  Cost * (admitted[key[t]] + 1) + RatePerMinute * (clock - now[t]) > Capacity
  <2> DEFINE r == Refilled(Current(t), now[t])
             acc == RatePerMinute * (clock - now[t])
  <2>1. pc[t] = "locked" /\ ~(r.tokens >= Cost)
    BY <1>2 DEF Deny, Grants
  <2>2. /\ r \in Bucket /\ now[t] \in Int /\ clock \in Int /\ admitted[key[t]] \in Nat
        /\ Capacity \in Nat
    BY <1>2, <2>1, UpdateFacts, RateAssumption DEF IInv, TypeOK, Capacity
  <2>3. r.tokens \in Int /\ acc \in Int
    BY <2>2, Accrual DEF Bucket
  <2>4. Cost * admitted[key[t]] + r.tokens + acc >= Capacity
    BY <1>2, <2>1, RefilledSpent
  <2>5. Cost * (admitted[key[t]] + 1) = Cost * admitted[key[t]] + Cost
    BY <2>2 DEF Cost
  <2> HIDE DEF r, acc
  <2>6. Cost * (admitted[key[t]] + 1) + acc > Capacity
    BY <2>1, <2>2, <2>3, <2>4, <2>5 DEF Cost
  <2> QED
    BY <2>6 DEF acc
<1>3. IInv /\ SpentInv /\ [Next]_vars =>
        [\A t \in Threads : (Deny(t) /\ windowStart = 0) =>
           Cost * (admitted[key[t]] + 1) + RatePerMinute * (clock - now[t]) > Capacity]_vars
  BY <1>2
<1> QED
  BY <1>1, <1>3, InitIInv, NextIInv, SpentStep, PTL DEF Spec, RefusedEarlyBound

\* Threads take the lock in the order in which they read the clock: no bucket has
\* been refilled at a later time than the one the thread in the section has read.
InOrder ==
  \A t \in Threads : (pc[t] = "locked" /\ found[t]) =>
    buckets[key[t]].last_refill <= now[t]

\* As long as elapsed is never negative, no token is lost but to an allowed call.
KeptOf(k) ==
  /\ buckets[k] = NoBucket => admitted[k] = 0
  /\ buckets[k] # NoBucket => Cost * admitted[k] + buckets[k].tokens >= Capacity

KeptInv == windowStart = 0 => \A k \in Keys : KeptOf(k)

\* A refill in order adds tokens, or leaves the bucket full.
LEMMA RefilledKept ==
  ASSUME IInv, KeptInv, InOrder, windowStart = 0, NEW t \in Threads, pc[t] = "locked"
  PROVE  Cost * admitted[key[t]] + Refilled(Current(t), now[t]).tokens >= Capacity
<1> DEFINE k == key[t]
           c == Current(t)
           n == now[t]
           r == Refilled(c, n)
<1>1. /\ k \in Keys /\ n \in Int /\ r \in Bucket /\ admitted[k] \in Nat /\ Capacity \in Nat
  BY UpdateFacts, RateAssumption DEF IInv, TypeOK, Capacity
<1>2. found[t] <=> buckets[k] # NoBucket
  BY DEF IInv, Exclusive
<1>3. r.tokens \in Int /\ Cost * admitted[k] \in Nat
  BY <1>1 DEF Bucket, Cost
<1>4. CASE r.tokens = Capacity
  <2> HIDE DEF r, k
  <2> QED
    BY <1>1, <1>3, <1>4 DEF r, k, c, n
<1>5. CASE ~found[t]
  <2>1. c = [tokens |-> Capacity, last_refill |-> n] /\ c \in Bucket
    BY <1>1, <1>5 DEF Current, Bucket
  <2>2. RatePerMinute * (n - n) = 0
    BY <1>1, RateAssumption
  <2>3. \/ r.tokens = c.tokens + RatePerMinute * (n - c.last_refill)
        \/ r.tokens = Capacity
    BY <2>1, <1>1, RefilledFacts
  <2>4. c.tokens = Capacity /\ c.last_refill = n
    BY <2>1
  <2>5. r.tokens = Capacity
    BY <1>1, <2>2, <2>3, <2>4
  <2> QED
    BY <1>4, <2>5
<1>6. CASE found[t] /\ r.tokens # Capacity
  <2>1. c = buckets[k] /\ buckets[k] # NoBucket /\ c.last_refill <= n
    BY <1>6, <1>2 DEF Current, InOrder
  <2>2. c \in Bucket /\ c.tokens \in Int /\ c.last_refill \in Int
    BY <2>1, <1>1 DEF IInv, TypeOK, Bucket
  <2>3. r.tokens = c.tokens + RatePerMinute * (n - c.last_refill)
    BY <2>2, <1>1, <1>6, RefilledFacts
  <2>4. Cost * admitted[k] + c.tokens >= Capacity
    BY <2>1, <1>1 DEF KeptInv, KeptOf
  <2>5. RatePerMinute * (n - c.last_refill) >= 0 /\ RatePerMinute * (n - c.last_refill) \in Int
    BY <1>1, <2>1, <2>2, Accrual
  <2>6. Cost * admitted[k] + r.tokens >= Capacity
    <3> HIDE DEF r, c, n, k
    <3> QED
      BY <1>1, <1>3, <2>2, <2>3, <2>4, <2>5
  <2> QED
    BY <2>6
<1> QED
  BY <1>4, <1>5, <1>6

\* Every step taken in order keeps the tokens.
LEMMA KeptStep == IInv /\ KeptInv /\ InOrder /\ [Next]_vars => KeptInv'
<1> SUFFICES ASSUME IInv, KeptInv, InOrder, [Next]_vars, windowStart' = 0, NEW k \in Keys
             PROVE  KeptOf(k)'
  BY DEF KeptInv
<1>1. CASE OpenWindow
  BY <1>1 DEF OpenWindow
<1>2. CASE UNCHANGED <<buckets, admitted, windowStart>>
  BY <1>2 DEF KeptInv, KeptOf
<1>3. ASSUME NEW t \in Threads, Deny(t) PROVE KeptOf(k)'
  <2> DEFINE r == Refilled(Current(t), now[t])
  <2>1. /\ pc[t] = "locked" /\ windowStart = 0
        /\ buckets' = [buckets EXCEPT ![key[t]] = r] /\ admitted' = admitted
    BY <1>3 DEF Deny
  <2>2. Cost * admitted[key[t]] + r.tokens >= Capacity
    BY <2>1, RefilledKept
  <2>3. r # NoBucket
    BY <2>1, UpdateFacts, BucketAssumption DEF Bucket
  <2> HIDE DEF r
  <2>4. CASE k = key[t]
    BY <2>1, <2>2, <2>3, <2>4 DEF KeptOf, IInv, TypeOK
  <2>5. CASE k # key[t]
    BY <2>1, <2>5 DEF KeptInv, KeptOf, IInv, TypeOK
  <2> QED
    BY <2>4, <2>5
<1>4. ASSUME NEW t \in Threads, Grant(t) PROVE KeptOf(k)'
  <2> DEFINE r == Refilled(Current(t), now[t])
             b == [tokens |-> r.tokens - Cost, last_refill |-> r.last_refill]
             a == admitted[key[t]] + 1
  <2>1. /\ pc[t] = "locked" /\ windowStart = 0
        /\ buckets' = [buckets EXCEPT ![key[t]] = b]
        /\ admitted' = [admitted EXCEPT ![key[t]] = a]
    BY <1>4 DEF Grant, IInv, TypeOK
  <2>2. Cost * admitted[key[t]] + r.tokens >= Capacity
    BY <2>1, RefilledKept
  <2>3. r \in Bucket /\ admitted[key[t]] \in Nat
    BY <2>1, UpdateFacts DEF IInv, TypeOK
  <2> HIDE DEF r
  <2>4. b.tokens = r.tokens - Cost /\ r.tokens \in Int /\ b \in Bucket
    BY <2>3 DEF Bucket, Cost
  <2>5. Cost * a + b.tokens >= Capacity
    BY <2>2, <2>3, <2>4 DEF Cost
  <2>6. b # NoBucket
    BY <2>4, BucketAssumption DEF Bucket
  <2> HIDE DEF a, b
  <2>7. CASE k = key[t]
    BY <2>1, <2>5, <2>6, <2>7 DEF KeptOf, IInv, TypeOK
  <2>8. CASE k # key[t]
    BY <2>1, <2>8 DEF KeptInv, KeptOf, IInv, TypeOK
  <2> QED
    BY <2>7, <2>8
<1>5. ASSUME Tick \/ \E t \in Threads : Acquire(t) \/ \E q \in Keys : CallAllow(t, q)
      PROVE  UNCHANGED <<buckets, admitted, windowStart>>
  BY <1>5 DEF Tick, Acquire, CallAllow
<1>6. UNCHANGED vars => UNCHANGED <<buckets, admitted, windowStart>>
  BY DEF vars
<1> QED
  BY <1>1, <1>2, <1>3, <1>4, <1>5, <1>6 DEF Next

\* "burst 60" is kept as long as the threads take the lock in the order in which
\* they read the clock, however long each of them waits for it.
THEOREM InOrderRefusedOnlyAfterBurst == Spec /\ []InOrder => RefusedOnlyAfterBurst
<1>1. Init => KeptInv
  BY DEF Init, KeptInv, KeptOf
<1>2. ASSUME IInv, KeptInv, InOrder, NEW t \in Threads, Deny(t), windowStart = 0
      PROVE  admitted[key[t]] >= Burst
  <2> DEFINE r == Refilled(Current(t), now[t])
  <2>1. pc[t] = "locked" /\ ~(r.tokens >= Cost)
    BY <1>2 DEF Deny, Grants
  <2>2. r \in Bucket /\ admitted[key[t]] \in Nat
    BY <1>2, <2>1, UpdateFacts DEF IInv, TypeOK
  <2>3. Cost * admitted[key[t]] + r.tokens >= Capacity
    BY <1>2, <2>1, RefilledKept
  <2>4. r.tokens \in Int
    BY <2>2 DEF Bucket
  <2> HIDE DEF r
  <2> QED
    BY <2>1, <2>2, <2>3, <2>4, RateAssumption DEF Cost, Capacity
<1>3. IInv /\ KeptInv /\ InOrder /\ [Next]_vars =>
        [\A t \in Threads : (Deny(t) /\ windowStart = 0) => admitted[key[t]] >= Burst]_vars
  BY <1>2
<1> QED
  BY <1>1, <1>3, InitIInv, NextIInv, KeptStep, PTL DEF Spec, RefusedOnlyAfterBurst

\* With one thread no reading in use is older than a refill.
Ordered ==
  \A t \in Threads, k \in Keys :
    (pc[t] # "idle" /\ buckets[k] # NoBucket) => buckets[k].last_refill <= now[t]

\* A thread that is alone is always in order: it has used its last reading before
\* it takes the next.
LEMMA OrderedStep ==
  ASSUME \A t, u \in Threads : t = u
  PROVE  IInv /\ Ordered /\ [Next]_vars => Ordered'
<1> SUFFICES ASSUME IInv, Ordered, [Next]_vars PROVE Ordered'
  OBVIOUS
<1>1. ASSUME NEW t \in Threads, NEW k \in Keys, CallAllow(t, k) PROVE Ordered'
  <2>1. now'[t] = clock /\ buckets' = buckets
    BY <1>1 DEF CallAllow, IInv, TypeOK
  <2>2. \A q \in Keys : buckets[q] # NoBucket => buckets[q].last_refill <= clock
    BY ClockAssumption DEF IInv, TypeOK
  <2> QED
    BY <2>1, <2>2 DEF Ordered
<1>2. ASSUME NEW t \in Threads, Acquire(t) PROVE Ordered'
  <2>1. pc[t] # "idle" /\ UNCHANGED <<buckets, now>>
    BY <1>2 DEF Acquire
  <2>2. \A q \in Keys : buckets[q] # NoBucket => buckets[q].last_refill <= now[t]
    BY <2>1 DEF Ordered
  <2> QED
    BY <2>1, <2>2 DEF Ordered
<1>3. ASSUME NEW t \in Threads, Deny(t) \/ Grant(t) PROVE Ordered'
  <2>1. pc'[t] = "idle"
    BY <1>3 DEF Deny, Grant, Return, IInv, TypeOK
  <2> QED
    BY <2>1 DEF Ordered
<1>4. CASE UNCHANGED <<buckets, pc, now>>
  BY <1>4 DEF Ordered
<1>5. Tick \/ OpenWindow \/ UNCHANGED vars => UNCHANGED <<buckets, pc, now>>
  BY DEF Tick, OpenWindow, vars
<1> QED
  BY <1>1, <1>2, <1>3, <1>4, <1>5 DEF Next

\* A limiter that a single thread uses keeps "burst 60": the run that violates the
\* promise needs its two threads.
THEOREM SoleThreadRefusedOnlyAfterBurst ==
  ASSUME \A t, u \in Threads : t = u
  PROVE  Spec => RefusedOnlyAfterBurst
<1>1. Init => Ordered
  BY DEF Init, Ordered
<1>2. IInv /\ Ordered => InOrder
  BY DEF IInv, TypeOK, Exclusive, Ordered, InOrder
<1>3. IInv /\ Ordered /\ [Next]_vars => Ordered'
  BY OrderedStep
<1>4. Spec => []InOrder
  BY <1>1, <1>2, <1>3, InitIInv, NextIInv, PTL DEF Spec
<1> QED
  BY <1>4, InOrderRefusedOnlyAfterBurst, PTL
=============================================================================
