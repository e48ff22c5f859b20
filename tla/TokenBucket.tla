---------------------------- MODULE TokenBucket ----------------------------
(***************************************************************************)
(* The token bucket of the HTTP rate limiter for one key: the script       *)
(* TOKEN_BUCKET_SCRIPT of src/scripts/lua-scripts.ts, called by            *)
(* src/algorithms/token-bucket.ts with a cost of 1.                        *)
(*                                                                         *)
(* A script runs to completion in Redis, so a check is one action.  It is  *)
(* handed the caller's Date.now(), which may lag behind Redis's clock.     *)
(*                                                                         *)
(* The balance is fractional: it is counted in units of 1/Unit request,    *)
(* small enough for a tick to accrue a whole number of them, Rate.         *)
(***************************************************************************)
EXTENDS Integers, FiniteSets

CONSTANTS
  Limit,      \* requests per window
  Window,     \* ticks in the window
  Unit,       \* units of the balance that make one request
  Rate,       \* refillRate, limit / windowSeconds, in units per tick
  MaxLag,     \* bound on how far a caller's clock reading lags
  MaxRewind,  \* model bound on the ticks the refill clock is moved back in all
  MaxClock    \* model bound on the clock

ASSUME BucketAssumption ==
  /\ Limit \in Nat \ {0}
  /\ Window \in Nat \ {0}
  /\ Unit \in Nat \ {0}
  /\ Rate \in Nat \ {0} /\ Rate * Window = Limit * Unit
  /\ MaxLag \in Nat /\ MaxRewind \in Nat /\ MaxClock \in Nat

VARIABLES
  now,      \* the present, as Redis's clock tells it
  bucket,   \* keys :tokens and :timestamp [bal, ts, exp]; always SET together
  rewound,  \* history: ticks by which :timestamp was moved back
  hits      \* history: <<time, serial>> of the checks that passed lately

vars == <<now, bucket, rewound, hits>>

Capacity == Limit * Unit
Cost     == Unit
Horizon  == 2 * Window

Larger(a, b)  == IF a >= b THEN a ELSE b
Smaller(a, b) == IF a <= b THEN a ELSE b
CeilDiv(a, b) == (a + b - 1) \div b

NoBucket == [bal |-> 0, ts |-> 0, exp |-> -1]
Exists   == bucket.exp >= 0

\* ttl: Math.ceil(limit / refillRate) + 1, the window and one tick.
Ttl == Window + 1

\* Faulty variants: accrues beyond the capacity; accrues whole requests only,
\* forgetting the fraction.
RefillUncapped(t) ==
  IF Exists THEN bucket.bal + Larger(0, t - bucket.ts) * Rate ELSE Capacity

RefillWhole(t) ==
  IF Exists
  THEN Smaller(bucket.bal + ((Larger(0, t - bucket.ts) * Rate) \div Unit) * Unit, Capacity)
  ELSE Capacity

\* The balance as of t; a missing key reads as a full bucket.
Refill(t) ==
  IF Exists THEN Smaller(bucket.bal + Larger(0, t - bucket.ts) * Rate, Capacity)
            ELSE Capacity

\* retry_after_ms of a rejected check that found the balance bal.
FloorRetryAfter(bal) == (Cost - bal) \div Rate    \* faulty variant
RetryAfter(bal) == CeilDiv(Cost - bal, Rate)

Rewind(t) == Larger(0, (IF Exists THEN bucket.ts ELSE now) - t)

\* Clock readings a check that reaches Redis now may carry.
Readings == {t \in Larger(0, now - MaxLag) .. now : rewound + Rewind(t) <= MaxRewind}

\* Faulty variant: a rejected check leaves the refill clock where it was.
StoreOnPass(t, bal, passed) ==
  bucket' = [bal |-> bal, ts |-> IF passed \/ ~Exists THEN t ELSE bucket.ts, exp |-> now + Ttl]

\* Both outcomes write balance and clock back.
Store(t, bal, passed) == bucket' = [bal |-> bal, ts |-> t, exp |-> now + Ttl]

\* The two outcomes of the script for a reading t.
Passes(t) == Refill(t) >= Cost /\ Store(t, Refill(t) - Cost, TRUE)
Turns(t)  == Refill(t) < Cost /\ Store(t, Refill(t), FALSE)

Allow ==
  \E t \in Readings :
    /\ Passes(t)
    /\ rewound' = rewound + Rewind(t)
    /\ hits' = hits \cup {<<now, Cardinality({h \in hits : h[1] = now})>>}
    /\ UNCHANGED now

Reject ==
  \E t \in Readings :
    /\ Turns(t)
    /\ rewound' = rewound + Rewind(t)
    /\ UNCHANGED <<now, hits>>

Check == Allow \/ Reject

\* reset(): DEL of both keys.
Reset ==
  /\ bucket' = NoBucket
  /\ hits' = {}
  /\ UNCHANGED <<now, rewound>>

\* Redis drops keys past their deadline.
Expire == bucket' = IF bucket.exp < now' THEN NoBucket ELSE bucket

Tick ==
  /\ now < MaxClock
  /\ now' = now + 1
  /\ Expire
  /\ hits' = {h \in hits : h[1] > now' - Horizon}
  /\ UNCHANGED rewound

Init == now = 0 /\ bucket = NoBucket /\ rewound = 0 /\ hits = {}

Next == Check \/ Reset \/ Tick

Spec == Init /\ [][Next]_vars

-----------------------------------------------------------------------------
(* Properties *)

\* The stored balance never leaves 0 .. Capacity and the clock is no later
\* than the present.
TypeOK ==
  /\ now \in 0 .. MaxClock
  /\ bucket \in [bal : 0 .. Capacity, ts : 0 .. now, exp : -1 .. now + Ttl]
  /\ rewound \in 0 .. MaxRewind
  /\ hits \subseteq (0 .. now) \X Nat

\* "Admits bursts up to limit and then settles to limit / windowSeconds per
\* second": in any d ticks at most a burst plus the accrual of d - 1 ticks
\* passes, whatever is rejected or expires in between.  Readings that lag let
\* the bucket be filled late, and move its clock back: together they cost at
\* most the accrual of one lag and of the ticks moved back.
Contract == INSTANCE ArrivalCurve WITH
              Quota <- [d \in 1 .. Horizon |->
                          Limit + (Limit * (d - 1 + MaxLag + MaxRewind)) \div Window]

BurstThenRate == Contract!Spec

\* The bucket that is refilled lazily by its callers, keeps its fraction in
\* Redis and is forgotten with its key is the one that rises with every tick:
\* no fraction is lost, the key's lifetime covers a refill from empty to full,
\* and nothing is accrued twice but the lag of a caller's clock (nothing at all
\* with exact clocks).
Eager == INSTANCE Meter WITH Slack <- Rate * MaxLag, level <- Refill(now)

LazyRefillIsEager == Eager!Spec

\* A rejected caller that waits exactly the advertised retry-after, with no
\* competing check, passes; one tick earlier it would not.
RetryAfterExact ==
  LET bal == Refill(now)
      at(d) == Smaller(bal + d * Rate, Capacity)
  IN  bal < Cost => at(RetryAfter(bal)) >= Cost /\ at(RetryAfter(bal) - 1) < Cost
=============================================================================
