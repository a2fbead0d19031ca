----------------------------- MODULE RateLimiter -----------------------------
(***************************************************************************)
(* The per-subject token bucket of security/ratelimit.py, called from the  *)
(* worker threads that run MQSentinelServer.dispatch.                      *)
(*                                                                         *)
(* allow() reads the monotonic clock BEFORE it takes the lock, so threads  *)
(* may enter the critical section in another order than they read the      *)
(* clock: elapsed can be negative and last_refill can move backwards.      *)
(*                                                                         *)
(* Tokens are counted in sixtieths, so that a refill of                    *)
(* rate_per_minute / 60 tokens per second is the integer RatePerMinute per *)
(* second and one call costs 60.  The clock advances in whole seconds.     *)
(***************************************************************************)
EXTENDS Integers

CONSTANTS
  Threads,        \* worker threads that call allow()
  Keys,           \* subjects
  RatePerMinute,  \* RateLimiter.rate_per_minute
  Burst,          \* RateLimiter.burst
  MaxClock,       \* bound: the clock stops here
  NoThread,       \* nobody holds the lock
  NoBucket        \* _buckets has no entry for the key

ASSUME RateAssumption == RatePerMinute \in Nat /\ Burst \in Nat
ASSUME ClockAssumption == MaxClock \in Nat
ASSUME ThreadAssumption == NoThread \notin Threads
ASSUME BucketAssumption ==
  NoBucket \notin [tokens : Int, last_refill : Int]

VARIABLES
  clock,     \* time.monotonic()
  buckets,   \* RateLimiter._buckets
  lock,      \* RateLimiter._lock
  pc,        \* where each thread is in allow()
  key,       \* allow's parameter
  now,       \* allow's local: the clock reading of line 26
  found,     \* allow's local: did _buckets.get(key) find a bucket
  admitted,     \* auxiliary: calls allowed per key since the window opened
  windowStart   \* auxiliary: start of the window calls are counted in

vars == <<clock, buckets, lock, pc, key, now, found, admitted, windowStart>>

Cost == 60
Capacity == 60 * Burst

Bucket == [tokens : Int, last_refill : Int]
-----------------------------------------------------------------------------
Init ==
  /\ clock = 0
  /\ buckets = [k \in Keys |-> NoBucket]
  /\ lock = NoThread
  /\ pc = [t \in Threads |-> "idle"]
  /\ key \in [Threads -> Keys]
  /\ now = [t \in Threads |-> 0]
  /\ found = [t \in Threads |-> FALSE]
  /\ admitted = [k \in Keys |-> 0]
  /\ windowStart = 0

Tick ==
  /\ clock < MaxClock
  /\ clock' = clock + 1
  /\ UNCHANGED <<buckets, lock, pc, key, now, found, admitted, windowStart>>

\* now = time.monotonic(), outside the lock.
CallAllow(t, k) ==
  /\ pc[t] = "idle"
  /\ pc' = [pc EXCEPT ![t] = "waiting"]
  /\ key' = [key EXCEPT ![t] = k]
  /\ now' = [now EXCEPT ![t] = clock]
  /\ UNCHANGED <<clock, buckets, lock, found, admitted, windowStart>>

\* A mutation of Acquire: the bucket is looked up without the lock.
AcquireUnlocked(t) ==
  /\ pc[t] = "waiting"
  /\ lock' = t
  /\ found' = [found EXCEPT ![t] = buckets[key[t]] # NoBucket]
  /\ pc' = [pc EXCEPT ![t] = "locked"]
  /\ UNCHANGED <<clock, buckets, key, now, admitted, windowStart>>

\* with self._lock: bucket = self._buckets.get(key)
Acquire(t) ==
  /\ pc[t] = "waiting"
  /\ lock = NoThread
  /\ lock' = t
  /\ found' = [found EXCEPT ![t] = buckets[key[t]] # NoBucket]
  /\ pc' = [pc EXCEPT ![t] = "locked"]
  /\ UNCHANGED <<clock, buckets, key, now, admitted, windowStart>>

\* The bucket the thread works on: the one it found, or a new full one.
Current(t) ==
  IF found[t]
    THEN buckets[key[t]]
    ELSE [tokens |-> Capacity, last_refill |-> now[t]]

\* A mutation of Refilled: unused time accrues past the burst.
RefilledUncapped(b, n) ==
  [tokens |-> b.tokens + RatePerMinute * (n - b.last_refill), last_refill |-> n]

\* elapsed may be negative; last_refill becomes now either way.
Refilled(b, n) ==
  LET level == b.tokens + RatePerMinute * (n - b.last_refill)
  IN [tokens |-> IF level <= Capacity THEN level ELSE Capacity,
      last_refill |-> n]

\* A mutation of Grants: one token too many may be taken.
GrantsOnCredit(b) == b.tokens >= 0

Grants(b) == b.tokens >= Cost

Return(t) ==
  /\ lock' = NoThread
  /\ pc' = [pc EXCEPT ![t] = "idle"]

\* A mutation of Deny: the early return keeps the lock.
DenyLocked(t) ==
  LET b == Refilled(Current(t), now[t]) IN
  /\ pc[t] = "locked"
  /\ ~Grants(b)
  /\ buckets' = [buckets EXCEPT ![key[t]] = b]
  /\ pc' = [pc EXCEPT ![t] = "idle"]
  /\ UNCHANGED <<clock, lock, key, now, found, admitted, windowStart>>

Deny(t) ==
  LET b == Refilled(Current(t), now[t]) IN
  /\ pc[t] = "locked"
  /\ ~Grants(b)
  /\ buckets' = [buckets EXCEPT ![key[t]] = b]
  /\ Return(t)
  /\ UNCHANGED <<clock, key, now, found, admitted, windowStart>>

Grant(t) ==
  LET b == Refilled(Current(t), now[t]) IN
  /\ pc[t] = "locked"
  /\ Grants(b)
  /\ buckets' = [buckets EXCEPT ![key[t]] =
                   [tokens |-> b.tokens - Cost, last_refill |-> b.last_refill]]
  /\ admitted' = [admitted EXCEPT ![key[t]] = @ + 1]
  /\ Return(t)
  /\ UNCHANGED <<clock, key, now, found, windowStart>>

\* Auxiliary: an observer starts counting afresh.  The window opens no later
\* than any clock reading that is still to be used.
OpenWindow ==
  \E w \in 1 .. MaxClock :
    /\ windowStart < w
    /\ w <= clock
    /\ \A t \in Threads : pc[t] # "idle" => w <= now[t]
    /\ windowStart' = w
    /\ admitted' = [k \in Keys |-> 0]
    /\ UNCHANGED <<clock, buckets, lock, pc, key, now, found>>

Next ==
  \/ Tick
  \/ OpenWindow
  \/ \E t \in Threads :
       \/ \E k \in Keys : CallAllow(t, k)
       \/ Acquire(t)
       \/ Deny(t)
       \/ Grant(t)

Spec == Init /\ [][Next]_vars

\* Line 28 waits for the lock, whose holders all leave: a thread that keeps
\* finding it free in the end gets it, and a thread that holds it runs on.
FairSpec ==
  /\ Spec
  /\ \A t \in Threads :
       SF_vars(Acquire(t)) /\ WF_vars(Deny(t)) /\ WF_vars(Grant(t))
-----------------------------------------------------------------------------
\* Types and ranges of the limiter's state: a bucket never holds more than the
\* burst and was never refilled in the future.
TypeOK ==
  /\ clock \in 0 .. MaxClock
  /\ buckets \in [Keys -> Bucket \cup {NoBucket}]
  /\ \A k \in Keys : buckets[k] # NoBucket =>
       /\ buckets[k].tokens <= Capacity
       /\ buckets[k].last_refill \in 0 .. clock
  /\ lock \in Threads \cup {NoThread}
  /\ pc \in [Threads -> {"idle", "waiting", "locked"}]
  /\ key \in [Threads -> Keys]
  /\ now \in [Threads -> 0 .. MaxClock]
  /\ \A t \in Threads : now[t] <= clock
  /\ found \in [Threads -> BOOLEAN]
  /\ admitted \in [Keys -> Nat]
  /\ windowStart \in 0 .. clock

\* The promise of a token bucket, kept although threads use stale clock
\* readings: in any window of time a key is allowed at most
\* burst + rate * length calls, where a window reaches back to the oldest
\* clock reading in use when it opened.
WindowBound ==
  \A k \in Keys :
    Cost * admitted[k] <= Capacity + RatePerMinute * (clock - windowStart)

\* A late thread may push the stored token count below zero, but what it takes
\* out is what the clock puts back: the level at the present time is never
\* negative, so the overdraft is repaid by the refill and no time is lost.
LevelNeverNegative ==
  \A k \in Keys : buckets[k] # NoBucket =>
    buckets[k].tokens + RatePerMinute * (clock - buckets[k].last_refill) >= 0

\* A call is refused only to a key that has been allowed its whole burst.
\* This is what "burst 60" of the class docstring says.
RefusedOnlyAfterBurst ==
  [][\A t \in Threads :
       (Deny(t) /\ windowStart = 0) => admitted[key[t]] >= Burst]_vars

\* Every call of allow() returns: the lock is given back on both returns.
EveryCallReturns ==
  \A t \in Threads : pc[t] = "waiting" ~> pc[t] = "idle"
=============================================================================
