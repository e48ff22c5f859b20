------------------------- MODULE TokenBucketProofs -------------------------
(***************************************************************************)
(* The lazily refilled bucket of TokenBucket implements the eager one of   *)
(* Meter and keeps its arrival curve, and the advertised retry-after is    *)
(* exact, for every limit, window and clock lag.                           *)
(***************************************************************************)
EXTENDS TokenBucket, FiniteSetTheorems, TLAPS

\* The balance bal, written with the refill clock ts, as of t.
Accrued(bal, ts, t) == Smaller(bal + Larger(0, t - ts) * Rate, Capacity)

\* What a stored bucket looks like: a balance within the capacity, a refill
\* clock that is not ahead of the present, a lifetime that covers a refill.
BucketInv ==
  /\ now \in Nat
  /\ bucket \in [bal : 0 .. Capacity, ts : Nat, exp : Int]
  /\ bucket.ts <= now
  /\ Exists => bucket.exp >= bucket.ts + Ttl

-----------------------------------------------------------------------------
(* Arithmetic *)

\* The derived constants are positive naturals.
LEMMA BucketConstants ==
  /\ Rate \in Nat /\ Rate > 0 /\ Window \in Nat /\ Window > 0 /\ MaxLag \in Nat
  /\ Rate * Window = Capacity
  /\ Capacity \in Nat /\ Cost \in Nat /\ Cost > 0 /\ Cost <= Capacity
  /\ Ttl \in Nat /\ Ttl > Window
  /\ Rate * MaxLag \in Nat
<1>1. /\ Rate \in Nat /\ Rate > 0 /\ Window \in Nat /\ Window > 0 /\ MaxLag \in Nat
      /\ Limit \in Nat /\ Limit > 0 /\ Unit \in Nat /\ Unit > 0
      /\ Rate * Window = Limit * Unit
  BY BucketAssumption
<1>2. Limit * Unit \in Nat /\ Rate * MaxLag \in Nat
  BY <1>1
<1>3. Unit <= Limit * Unit
  BY <1>1
<1> QED
  BY <1>1, <1>2, <1>3 DEF Capacity, Cost, Ttl

\* Accrual is monotone in time and additive.
LEMMA Accrual ==
  ASSUME NEW a \in Nat, NEW b \in Nat
  PROVE  /\ a * Rate \in Nat
         /\ a <= b => a * Rate <= b * Rate
         /\ (a + b) * Rate = a * Rate + b * Rate
         /\ a >= Window => a * Rate >= Capacity
         /\ a <= MaxLag => a * Rate <= Rate * MaxLag
<1>1. Rate \in Nat /\ Window \in Nat /\ MaxLag \in Nat
  BY BucketConstants
<1>2. \A x, y \in Nat : x <= y => x * Rate <= y * Rate
  BY <1>1
<1>3. Capacity = Window * Rate /\ Rate * MaxLag = MaxLag * Rate
  BY <1>1, BucketConstants
<1> QED
  BY <1>1, <1>2, <1>3

\* Refill reads the stored balance as Accrued does.
LEMMA RefillIsAccrued ==
  ASSUME NEW t
  PROVE  /\ Exists => Refill(t) = Accrued(bucket.bal, bucket.ts, t)
         /\ ~Exists => Refill(t) = Capacity
BY DEF Refill, Accrued

\* A balance accrued up to t stays within 0 .. Capacity; reading it later never
\* shows less, nor more than the accrual in between.
LEMMA AccruedFacts ==
  ASSUME NEW bal \in 0 .. Capacity, NEW ts \in Nat, NEW t \in Nat, NEW u \in Nat, t <= u
  PROVE  /\ Accrued(bal, ts, t) \in 0 .. Capacity
         /\ Accrued(bal, ts, t) <= Accrued(bal, ts, u)
         /\ Accrued(bal, ts, u) <= Accrued(bal, ts, t) + (u - t) * Rate
         /\ bal <= Accrued(bal, ts, t)
<1> DEFINE p == Larger(0, t - ts)
           q == Larger(0, u - ts)
           d == u - t
<1>1. p \in Nat /\ q \in Nat /\ d \in Nat /\ p + d \in Nat /\ p <= q /\ q <= p + d
  BY DEF Larger
<1> HIDE DEF p, q, d
<1>2. /\ p * Rate \in Nat /\ q * Rate \in Nat /\ d * Rate \in Nat
      /\ p * Rate <= q * Rate
      /\ q * Rate <= p * Rate + d * Rate
  <2>1. p * Rate \in Nat /\ p * Rate <= q * Rate
    BY <1>1, Accrual
  <2>2. q * Rate \in Nat /\ q * Rate <= (p + d) * Rate
    BY <1>1, Accrual
  <2>3. (p + d) * Rate = p * Rate + d * Rate /\ d * Rate \in Nat
    BY <1>1, Accrual
  <2> QED
    BY <2>1, <2>2, <2>3
<1> DEFINE P == p * Rate
           Q == q * Rate
           D == d * Rate
<1>3. P \in Nat /\ Q \in Nat /\ D \in Nat /\ P <= Q /\ Q <= P + D
  BY <1>2
<1>4. Accrued(bal, ts, t) = Smaller(bal + P, Capacity) /\ Accrued(bal, ts, u) = Smaller(bal + Q, Capacity)
  BY DEF Accrued, p, q, P, Q
<1> HIDE DEF P, Q, D
<1>5. Capacity \in Nat
  BY BucketConstants
<1>6. /\ Smaller(bal + P, Capacity) \in 0 .. Capacity
      /\ Smaller(bal + P, Capacity) <= Smaller(bal + Q, Capacity)
      /\ Smaller(bal + Q, Capacity) <= Smaller(bal + P, Capacity) + D
      /\ bal <= Smaller(bal + P, Capacity)
  BY <1>3, <1>5 DEF Smaller
<1> QED
  BY <1>4, <1>6 DEF D, d

\* The same of the bucket: what a caller with the reading t finds, compared with
\* what is there now.
LEMMA RefillFacts ==
  ASSUME BucketInv, NEW t \in Readings
  PROVE  /\ t \in Nat /\ t <= now /\ now - t <= MaxLag
         /\ Refill(t) \in 0 .. Capacity /\ Refill(now) \in 0 .. Capacity
         /\ Refill(t) <= Refill(now)
         /\ Refill(now) <= Refill(t) + (now - t) * Rate
<1>1. t \in Nat /\ t <= now /\ now - t <= MaxLag
  BY BucketConstants DEF Readings, Larger, BucketInv
<1>2. now \in Nat /\ bucket.bal \in 0 .. Capacity /\ bucket.ts \in Nat /\ Capacity \in Nat
  BY BucketConstants DEF BucketInv
<1>3. now - t \in Nat /\ (now - t) * Rate \in Nat
  BY <1>1, <1>2, Accrual
<1> DEFINE A == Accrued(bucket.bal, bucket.ts, t)
           B == Accrued(bucket.bal, bucket.ts, now)
           D == (now - t) * Rate
<1>4. CASE Exists
  <2>1. A \in 0 .. Capacity /\ A <= B /\ B <= A + D
    BY <1>1, <1>2, AccruedFacts
  <2>2. B \in 0 .. Capacity
    <3>1. now <= now
      BY <1>2
    <3> QED
      BY <1>2, <3>1, AccruedFacts
  <2>3. Refill(t) = A /\ Refill(now) = B
    BY <1>4, RefillIsAccrued
  <2> QED
    BY <1>1, <2>1, <2>2, <2>3
<1>5. CASE ~Exists
  <2>1. Refill(t) = Capacity /\ Refill(now) = Capacity
    BY <1>5, RefillIsAccrued
  <2>2. D \in Nat
    BY <1>3
  <2> HIDE DEF D
  <2>3. Capacity \in 0 .. Capacity /\ Capacity <= Capacity + D
    BY <1>2, <2>2
  <2> QED
    BY <1>1, <2>1, <2>3 DEF D
<1> QED
  BY <1>1, <1>4, <1>5

\* What is there after a check that carried t and left the balance bal behind.
LEMMA AfterStore ==
  ASSUME BucketInv, NEW t \in Readings, NEW bal \in 0 .. Capacity, NEW passed \in BOOLEAN,
         Store(t, bal, passed), now' = now
  PROVE  /\ BucketInv'
         /\ Refill(now)' = Smaller(bal + (now - t) * Rate, Capacity)
<1>1. t \in Nat /\ t <= now /\ now \in Nat /\ now - t \in Nat
  BY RefillFacts DEF BucketInv
<1>2. bucket' = [bal |-> bal, ts |-> t, exp |-> now + Ttl] /\ Ttl \in Nat /\ Capacity \in Nat
  BY BucketConstants DEF Store
<1>3. Exists' /\ bucket'.bal = bal /\ bucket'.ts = t /\ bucket'.exp = now + Ttl
  BY <1>1, <1>2 DEF Exists
<1>4. BucketInv'
  BY <1>1, <1>2, <1>3 DEF BucketInv
<1>5. Refill(now)' = Smaller(bal + Larger(0, now - t) * Rate, Capacity)
  BY <1>3 DEF Refill
<1>6. Larger(0, now - t) = now - t
  BY <1>1 DEF Larger
<1> QED
  BY <1>4, <1>5, <1>6

-----------------------------------------------------------------------------
(* Steps *)

\* A check that passes is one that the meter lets pass.
LEMMA AllowMapped == BucketInv /\ Allow => BucketInv' /\ Eager!Pass
<1> SUFFICES ASSUME BucketInv, Allow
             PROVE  BucketInv' /\ Eager!Pass
  OBVIOUS
<1>1. PICK t \in Readings : Refill(t) >= Cost /\ Store(t, Refill(t) - Cost, TRUE)
  BY DEF Allow, Passes
<1>2. now' = now /\ now \in Nat
  BY DEF Allow, BucketInv
<1> DEFINE r == Refill(t)
           v == Refill(now)
           D == (now - t) * Rate
<1>3. /\ t \in Nat /\ t <= now /\ now - t \in Nat /\ now - t <= MaxLag
      /\ r \in 0 .. Capacity /\ v \in 0 .. Capacity /\ r <= v /\ v <= r + D
  BY <1>2, RefillFacts
<1>4. D \in Nat /\ D <= Rate * MaxLag
  BY <1>3, Accrual
<1>5. Capacity \in Nat /\ Cost \in Nat /\ Rate * MaxLag \in Nat
  BY BucketConstants
<1>6. r - Cost \in 0 .. Capacity
  BY <1>1, <1>3, <1>5
<1>7. BucketInv' /\ v' = Smaller(r - Cost + D, Capacity)
  BY <1>1, <1>2, <1>6, AfterStore
<1> DEFINE w == v'
           S == Rate * MaxLag
<1>8. w = Smaller(r - Cost + D, Capacity)
  BY <1>7
<1>9. S \in Nat /\ D <= S /\ r >= Cost
  BY <1>1, <1>4, <1>5
<1> HIDE DEF r, v, D, w, S
<1>10. /\ v >= Cost
       /\ w \in (v - Cost) .. (v - Cost + S)
       /\ w <= Capacity
  BY <1>3, <1>4, <1>5, <1>8, <1>9 DEF Smaller
<1> QED
  BY <1>2, <1>7, <1>10 DEF Eager!Pass, Eager!After, v, w, S

\* A check that is turned away is one that the meter may turn away.
LEMMA RejectMapped == BucketInv /\ Reject => BucketInv' /\ Eager!Turn
<1> SUFFICES ASSUME BucketInv, Reject
             PROVE  BucketInv' /\ Eager!Turn
  OBVIOUS
<1>1. PICK t \in Readings : Refill(t) < Cost /\ Store(t, Refill(t), FALSE)
  BY DEF Reject, Turns
<1>2. now' = now /\ now \in Nat
  BY DEF Reject, BucketInv
<1> DEFINE r == Refill(t)
           v == Refill(now)
           D == (now - t) * Rate
<1>3. /\ t \in Nat /\ t <= now /\ now - t \in Nat /\ now - t <= MaxLag
      /\ r \in 0 .. Capacity /\ v \in 0 .. Capacity /\ r <= v /\ v <= r + D
  BY <1>2, RefillFacts
<1>4. D \in Nat /\ D <= Rate * MaxLag
  BY <1>3, Accrual
<1>5. Capacity \in Nat /\ Cost \in Nat /\ Rate * MaxLag \in Nat
  BY BucketConstants
<1>6. BucketInv' /\ v' = Smaller(r + D, Capacity)
  BY <1>1, <1>2, <1>3, AfterStore
<1> DEFINE w == v'
           S == Rate * MaxLag
<1>7. w = Smaller(r + D, Capacity)
  BY <1>6
<1>8. S \in Nat /\ D <= S /\ r < Cost
  BY <1>1, <1>4, <1>5
<1> HIDE DEF r, v, D, w, S
<1>9. v < Cost + S /\ w \in v .. (v + S) /\ w <= Capacity
  BY <1>3, <1>4, <1>5, <1>7, <1>8 DEF Smaller
<1> QED
  BY <1>2, <1>6, <1>9 DEF Eager!Turn, Eager!After, v, w, S

\* A reset fills the meter.
LEMMA ResetMapped == BucketInv /\ Reset => BucketInv' /\ Eager!Reset
<1> SUFFICES ASSUME BucketInv, Reset
             PROVE  BucketInv' /\ Eager!Reset
  OBVIOUS
<1>1. now' = now /\ now \in Nat /\ bucket' = [bal |-> 0, ts |-> 0, exp |-> -1]
  BY DEF Reset, NoBucket, BucketInv
<1>2. ~Exists' /\ Refill(now)' = Capacity
  BY <1>1 DEF Exists, Refill
<1>3. 0 \in 0 .. Capacity
  BY BucketConstants
<1> QED
  BY <1>1, <1>2, <1>3 DEF BucketInv, Eager!Reset

\* A tick raises the meter by the rate, whether or not the key expires with it.
LEMMA TickMapped == BucketInv /\ Tick => BucketInv' /\ Eager!Tick
<1> SUFFICES ASSUME BucketInv, Tick
             PROVE  BucketInv' /\ Eager!Tick
  OBVIOUS
<1>1. now \in Nat /\ now' = now + 1 /\ bucket' = IF bucket.exp < now' THEN NoBucket ELSE bucket
  BY DEF Tick, Expire, BucketInv
<1>2. /\ Capacity \in Nat /\ Rate \in Nat /\ Rate > 0 /\ Window \in Nat
      /\ Ttl \in Nat /\ Ttl > Window
  BY BucketConstants
<1>3. bucket.bal \in 0 .. Capacity /\ bucket.ts \in Nat /\ bucket.exp \in Int /\ bucket.ts <= now
  BY DEF BucketInv
<1> DEFINE v == Refill(now)
           w == v'
           e == now - bucket.ts
<1>4. CASE ~Exists
  <2>1. bucket' = NoBucket
    BY <1>1, <1>3, <1>4 DEF Exists
  <2>2. ~Exists'
    BY <2>1 DEF Exists, NoBucket
  <2>3. v = Capacity /\ w = Capacity
    BY <1>4, <2>2 DEF Refill
  <2>4. BucketInv'
    BY <1>1, <1>2, <2>1, <2>2 DEF BucketInv, NoBucket
  <2> HIDE DEF v, w
  <2>5. w = IF v + Rate <= Capacity THEN v + Rate ELSE Capacity
    BY <1>2, <2>3
  <2> QED
    BY <1>1, <2>4, <2>5 DEF Eager!Tick, v, w
<1>5. CASE Exists
  <2>1. e \in Nat /\ e + 1 \in Nat /\ now + 1 - bucket.ts = e + 1
    BY <1>1, <1>3
  <2>2. Larger(0, now - bucket.ts) = e /\ Larger(0, now + 1 - bucket.ts) = e + 1
    BY <2>1 DEF Larger
  <2>3. v = Smaller(bucket.bal + e * Rate, Capacity)
    BY <1>5, <2>2 DEF Refill
  <2> DEFINE E == e * Rate
  <2> HIDE DEF e
  <2>4. E \in Nat /\ (e + 1) * Rate = E + Rate
    <3>1. 1 \in Nat /\ 1 * Rate = Rate
      BY <1>2
    <3>2. e * Rate \in Nat /\ (e + 1) * Rate = e * Rate + 1 * Rate
      BY <2>1, <3>1, Accrual
    <3> QED
      BY <3>1, <3>2 DEF E
  <2>5. CASE bucket.exp < now'
    <3>1. bucket' = NoBucket
      BY <1>1, <2>5
    <3>2. ~Exists'
      BY <3>1 DEF Exists, NoBucket
    <3>3. w = Capacity
      BY <3>2 DEF Refill
    <3>4. e >= Window
      BY <1>1, <1>2, <1>3, <1>5, <2>5 DEF BucketInv, e
    <3>5. E >= Capacity
      BY <2>1, <3>4, Accrual
    <3>6. BucketInv'
      BY <1>1, <1>2, <3>1, <3>2 DEF BucketInv, NoBucket
    <3> HIDE DEF v, w, E
    <3>7. v = Capacity
      BY <1>2, <1>3, <2>3, <2>4, <3>5 DEF Smaller, E
    <3>8. w = IF v + Rate <= Capacity THEN v + Rate ELSE Capacity
      BY <1>2, <3>3, <3>7
    <3> QED
      BY <1>1, <3>6, <3>8 DEF Eager!Tick, v, w
  <2>6. CASE ~(bucket.exp < now')
    <3>1. bucket' = bucket /\ Exists'
      BY <1>1, <1>5, <2>6 DEF Exists
    <3>2. w = Smaller(bucket.bal + (e + 1) * Rate, Capacity)
      <4>1. w = Smaller(bucket'.bal + Larger(0, now' - bucket'.ts) * Rate, Capacity)
        BY <3>1 DEF Refill
      <4>2. now' = now + 1 /\ bucket'.ts = bucket.ts /\ bucket'.bal = bucket.bal
        BY <1>1, <3>1
      <4>3. Larger(0, now' - bucket'.ts) = e + 1
        BY <1>1, <1>3, <2>1, <4>2 DEF Larger, e
      <4> QED
        BY <4>1, <4>2, <4>3
    <3>3. BucketInv'
      BY <1>1, <1>3, <1>5, <3>1 DEF BucketInv
    <3> HIDE DEF v, w, E
    <3>4. v = Smaller(bucket.bal + E, Capacity) /\ w = Smaller(bucket.bal + (E + Rate), Capacity)
      BY <2>3, <2>4, <3>2 DEF E
    <3>5. w = IF v + Rate <= Capacity THEN v + Rate ELSE Capacity
      BY <1>2, <1>3, <2>4, <3>4 DEF Smaller
    <3> QED
      BY <1>1, <3>3, <3>5 DEF Eager!Tick, v, w
  <2> QED
    BY <2>5, <2>6
<1> QED
  BY <1>4, <1>5

\* The bucket starts full.
LEMMA InitMapped == Init => BucketInv /\ Eager!Init
<1> SUFFICES ASSUME Init
             PROVE  BucketInv /\ Eager!Init
  OBVIOUS
<1>1. now = 0 /\ bucket = [bal |-> 0, ts |-> 0, exp |-> -1]
  BY DEF Init, NoBucket
<1>2. ~Exists /\ 0 \in 0 .. Capacity
  BY <1>1, BucketConstants DEF Exists
<1> QED
  BY <1>1, <1>2 DEF BucketInv, Eager!Init, Refill

\* Every step of the bucket is a step of the meter or leaves it alone.
LEMMA StepMapped ==
  BucketInv /\ [Next]_vars => BucketInv' /\ [Eager!Next]_<<now, Refill(now)>>
<1> SUFFICES ASSUME BucketInv, [Next]_vars
             PROVE  BucketInv' /\ [Eager!Next]_<<now, Refill(now)>>
  OBVIOUS
<1>1. CASE Allow
  BY <1>1, AllowMapped DEF Eager!Next
<1>2. CASE Reject
  BY <1>2, RejectMapped DEF Eager!Next
<1>3. CASE Reset
  BY <1>3, ResetMapped DEF Eager!Next
<1>4. CASE Tick
  BY <1>4, TickMapped DEF Eager!Next
<1>5. CASE UNCHANGED vars
  <2>1. now' = now /\ bucket' = bucket
    BY <1>5 DEF vars
  <2>2. Exists' = Exists /\ Refill(now)' = Refill(now)
    BY <2>1 DEF Exists, Refill
  <2> QED
    BY <2>1, <2>2 DEF BucketInv
<1> QED
  BY <1>1, <1>2, <1>3, <1>4, <1>5 DEF Next, Check

\* The lazily refilled, expiring bucket of lua-scripts.ts implements the eager
\* meter, up to the lag of the callers' clocks and exactly when there is none:
\* no check passes that the meter would not let pass.
THEOREM BucketImplementsMeter == Spec => LazyRefillIsEager
<1>1. Init => BucketInv /\ Eager!Init
  BY InitMapped
<1>2. BucketInv /\ [Next]_vars => BucketInv' /\ [Eager!Next]_<<now, Refill(now)>>
  BY StepMapped
<1> QED
  BY <1>1, <1>2, PTL DEF Spec, LazyRefillIsEager, Eager!Spec

-----------------------------------------------------------------------------
(* Rounding *)

\* The quotient of naturals is the largest whole number of divisors that fits.
LEMMA Quotient ==
  ASSUME NEW a \in Nat, NEW b \in Nat, b > 0
  PROVE  /\ a \div b \in Nat
         /\ (a \div b) * b <= a
         /\ a < (a \div b) * b + b
OBVIOUS

\* CeilDiv is the smallest whole number of divisors that covers a.
LEMMA Ceiling ==
  ASSUME NEW a \in Nat, NEW b \in Nat, a > 0, b > 0
  PROVE  /\ CeilDiv(a, b) \in Nat /\ CeilDiv(a, b) > 0
         /\ CeilDiv(a, b) * b \in Nat /\ CeilDiv(a, b) * b >= a
         /\ (CeilDiv(a, b) - 1) * b \in Nat /\ (CeilDiv(a, b) - 1) * b < a
<1> DEFINE c == a + b - 1
           q == c \div b
<1>1. c \in Nat /\ q \in Nat /\ q * b <= c /\ c < q * b + b
  <2>1. c \in Nat
    OBVIOUS
  <2> HIDE DEF c
  <2> QED
    BY <2>1, Quotient
<1>2. CeilDiv(a, b) = q
  BY DEF CeilDiv
<1>3. q * b \in Nat /\ q * b <= a + b - 1 /\ a + b - 1 < q * b + b
  <2>1. q * b <= a + b - 1 /\ a + b - 1 < q * b + b
    BY <1>1
  <2> HIDE DEF q
  <2> QED
    BY <1>1, <2>1
<1> HIDE DEF c, q
<1>4. q > 0
  <2>1. 0 * b = 0
    OBVIOUS
  <2> QED
    BY <1>1, <1>3, <2>1
<1>5. (q - 1) * b = q * b - b
  BY <1>1
<1> DEFINE m == q * b
<1>6. m \in Nat /\ m <= a + b - 1 /\ a + b - 1 < m + b
  BY <1>3
<1> HIDE DEF m
<1>7. m >= a /\ m - b < a
  BY <1>6
<1>8. (q - 1) * b \in Nat
  BY <1>1, <1>4
<1> QED
  BY <1>1, <1>2, <1>4, <1>5, <1>6, <1>7, <1>8 DEF m

-----------------------------------------------------------------------------
(* Retry-after *)

\* A caller that finds bal and waits for what RetryAfter says finds enough, and
\* one tick earlier it finds too little.
LEMMA WaitIsExact ==
  ASSUME NEW bal \in 0 .. Capacity, bal < Cost
  PROVE  /\ Smaller(bal + RetryAfter(bal) * Rate, Capacity) >= Cost
         /\ Smaller(bal + (RetryAfter(bal) - 1) * Rate, Capacity) < Cost
<1> DEFINE gap == Cost - bal
           W   == RetryAfter(bal) * Rate
           V   == (RetryAfter(bal) - 1) * Rate
<1>1. Capacity \in Nat /\ Cost \in Nat /\ Cost <= Capacity /\ Rate \in Nat /\ Rate > 0
  BY BucketConstants
<1>2. gap \in Nat /\ gap > 0
  BY <1>1
<1>3. W \in Nat /\ W >= gap /\ V \in Nat /\ V < gap
  <2>1. RetryAfter(bal) = CeilDiv(gap, Rate)
    BY DEF RetryAfter
  <2> HIDE DEF gap
  <2> QED
    BY <1>1, <1>2, <2>1, Ceiling
<1> HIDE DEF W, V
<1>4. Smaller(bal + W, Capacity) >= Cost /\ Smaller(bal + V, Capacity) < Cost
  BY <1>1, <1>3 DEF Smaller
<1> QED
  BY <1>4 DEF W, V

\* lua-scripts.ts: a rejected caller that waits exactly the retry-after of the
\* reply passes, and would not have passed one tick earlier.
THEOREM BucketRetryAfterExact == Spec => []RetryAfterExact
<1>1. BucketInv => RetryAfterExact
  <2> SUFFICES ASSUME BucketInv, Refill(now) < Cost
               PROVE  /\ Smaller(Refill(now) + RetryAfter(Refill(now)) * Rate, Capacity) >= Cost
                      /\ Smaller(Refill(now) + (RetryAfter(Refill(now)) - 1) * Rate, Capacity) < Cost
    BY DEF RetryAfterExact
  <2>1. Refill(now) \in 0 .. Capacity
    <3>1. /\ bucket.bal \in 0 .. Capacity /\ bucket.ts \in Nat /\ now \in Nat /\ now <= now
          /\ Capacity \in 0 .. Capacity
      BY BucketConstants DEF BucketInv
    <3> QED
      BY <3>1, AccruedFacts, RefillIsAccrued
  <2> QED
    BY <2>1, WaitIsExact
<1>2. Init => BucketInv
  BY InitMapped
<1>3. BucketInv /\ [Next]_vars => BucketInv'
  BY StepMapped
<1> QED
  BY <1>1, <1>2, <1>3, PTL DEF Spec

-----------------------------------------------------------------------------
(* The arrival curve *)

\* The requests that passed after x, and the time up to which the balance of a
\* key, missing or not, has been settled.
Passed(x) == {h \in hits : h[1] > x}
Stamp == IF Exists THEN bucket.ts ELSE now

\* Requests are numbered within their tick; nothing outlives its bound.
HitsInv ==
  /\ now <= MaxClock
  /\ bucket.exp >= -1 /\ bucket.exp <= now + Ttl
  /\ rewound \in 0 .. MaxRewind
  /\ IsFiniteSet(hits) /\ hits \subseteq (0 .. now) \X Nat
  /\ \A h \in hits : h[2] < Cardinality({g \in hits : g[1] = h[1]})

\* What the requests after x have cost, with what is left, is a burst and what
\* accrued since: up to the settled time, and twice what was moved back.
Paid ==
  \A x \in Int : Passed(x) # {} =>
    Cardinality(Passed(x)) * Unit + Refill(Stamp)
      <= Capacity + (Stamp + rewound - x - 1 + MaxLag) * Rate

BurstInv == BucketInv /\ HitsInv /\ Paid

\* Accrual over a difference of times.
LEMMA Slope ==
  ASSUME NEW a \in Int, NEW b \in Int
  PROVE  /\ a * Rate \in Int
         /\ a <= b => a * Rate <= b * Rate
         /\ (a + b) * Rate = a * Rate + b * Rate
         /\ a >= 0 => a * Rate >= 0
<1>1. Rate \in Nat
  BY BucketConstants
<1>2. \A x, y \in Int : x <= y => x * Rate <= y * Rate
  BY <1>1
<1> QED
  BY <1>1, <1>2

\* The abstract promise counts as the bucket does.
LEMMA SameCount == \A S : Contract!Cardinality(S) = Cardinality(S)
BY DEF Contract!Cardinality, Cardinality

LEMMA HitConstants ==
  /\ Limit \in Nat /\ Unit \in Nat /\ Unit > 0 /\ MaxLag \in Nat /\ MaxRewind \in Nat
  /\ MaxClock \in Nat /\ Window \in Nat /\ Window > 0
  /\ Horizon \in Nat /\ Capacity = Limit * Unit /\ Rate * Window = Limit * Unit /\ Cost = Unit
BY BucketAssumption DEF Horizon, Capacity, Cost

\* Any selection of the requests is finite, and no larger than a larger one.
LEMMA PassedFinite ==
  ASSUME HitsInv, NEW x
  PROVE  IsFiniteSet(Passed(x)) /\ Cardinality(Passed(x)) \in Nat
<1>1. Passed(x) \in SUBSET hits /\ IsFiniteSet(hits)
  BY DEF Passed, HitsInv
<1> QED
  BY <1>1, FS_Subset, FS_CardinalityType

\* One more request raises every count it belongs to by one.
LEMMA HitsAfterPass ==
  ASSUME BucketInv, HitsInv, now' = now,
         hits' = hits \cup {<<now, Cardinality({h \in hits : h[1] = now})>>}
  PROVE  /\ IsFiniteSet(hits') /\ hits' \subseteq (0 .. now) \X Nat
         /\ \A h \in hits' : h[2] < Cardinality({g \in hits' : g[1] = h[1]})
         /\ \E h \in hits' \ hits : h[1] = now /\ hits' = hits \cup {h}
         /\ \A x \in Int : x < now =>
              Cardinality({h \in hits' : h[1] > x}) = Cardinality(Passed(x)) + 1
         /\ \A x \in Int : ~(x < now) => {h \in hits' : h[1] > x} = {}
<1> DEFINE today == {h \in hits : h[1] = now}
           new   == <<now, Cardinality(today)>>
<1>1. /\ now \in Nat /\ IsFiniteSet(hits) /\ hits \subseteq (0 .. now) \X Nat
      /\ \A h \in hits : h[2] < Cardinality({g \in hits : g[1] = h[1]})
      /\ \A h \in hits : h[1] \in Nat /\ h[1] <= now /\ h[2] \in Nat
  BY DEF BucketInv, HitsInv
<1>2. today \in SUBSET hits
  OBVIOUS
<1>3. IsFiniteSet(today) /\ Cardinality(today) \in Nat
  BY <1>1, <1>2, FS_Subset, FS_CardinalityType
<1>4. hits' = hits \cup {new} /\ new[1] = now /\ new[2] = Cardinality(today)
  OBVIOUS
<1>5. new \notin hits
  <2> SUFFICES ASSUME new \in hits PROVE FALSE
    OBVIOUS
  <2>1. new[2] < Cardinality({g \in hits : g[1] = new[1]})
    BY <1>1
  <2> QED
    BY <1>3, <1>4, <2>1
<1>6. IsFiniteSet(hits')
  <2>1. IsFiniteSet(hits) /\ hits' = hits \cup {new}
    BY <1>1, <1>4
  <2> HIDE DEF new
  <2> QED
    BY <2>1, FS_AddElement, Zenon
<1>7. hits' \subseteq (0 .. now) \X Nat
  BY <1>1, <1>3, <1>4
<1>8. ASSUME NEW h \in hits' PROVE h[2] < Cardinality({g \in hits' : g[1] = h[1]})
  <2>1. CASE h[1] = now
    <3>1. {g \in hits' : g[1] = h[1]} = today \cup {new}
      BY <1>4, <2>1
    <3>2. Cardinality(today \cup {new}) = Cardinality(today) + 1
      BY <1>2, <1>3, <1>5, FS_AddElement
    <3>3. h[2] \in Nat /\ h[2] <= Cardinality(today)
      <4>1. CASE h = new
        BY <1>3, <1>4, <4>1
      <4>2. CASE h # new
        BY <1>1, <1>3, <1>4, <1>8, <2>1, <4>2
      <4> QED
        BY <4>1, <4>2
    <3> HIDE DEF today, new
    <3>4. h[2] < Cardinality(today \cup {new})
      BY <1>3, <3>2, <3>3
    <3> QED
      BY <3>1, <3>4, Zenon
  <2>2. CASE h[1] # now
    <3>1. h \in hits /\ {g \in hits' : g[1] = h[1]} = {g \in hits : g[1] = h[1]}
      BY <1>4, <1>8, <2>2
    <3> QED
      BY <1>1, <3>1
  <2> QED
    BY <2>1, <2>2
<1>9. ASSUME NEW x \in Int, x < now
      PROVE  Cardinality({h \in hits' : h[1] > x}) = Cardinality(Passed(x)) + 1
  <2>1. {h \in hits' : h[1] > x} = Passed(x) \cup {new}
    BY <1>4, <1>9 DEF Passed
  <2>2. new \notin Passed(x)
    BY <1>5 DEF Passed
  <2>3. Cardinality(Passed(x) \cup {new}) = Cardinality(Passed(x)) + 1
    BY <2>2, PassedFinite, FS_AddElement
  <2> QED
    BY <2>1, <2>3, Zenon
<1>10. ASSUME NEW x \in Int, ~(x < now) PROVE {h \in hits' : h[1] > x} = {}
  BY <1>1, <1>4, <1>10
<1>11. \E h \in hits' \ hits : h[1] = now /\ hits' = hits \cup {h}
  <2> HIDE DEF new
  <2> QED
    BY <1>4, <1>5
<1> HIDE DEF new, today
<1> QED
  BY <1>6, <1>7, <1>8, <1>9, <1>10, <1>11, Zenon

\* Settling the balance for the reading t pays for what it accrues, even where
\* the reading moves the refill clock back.
LEMMA Settled ==
  ASSUME BucketInv, HitsInv, NEW t \in Readings
  PROVE  /\ t + Rewind(t) \in Int /\ t + Rewind(t) >= Stamp
         /\ Refill(t) \in 0 .. Capacity /\ Refill(Stamp) \in 0 .. Capacity
         /\ Refill(t) <= Refill(Stamp) + (t + Rewind(t) - Stamp) * Rate
         /\ Rewind(t) \in Nat
<1>1. t \in Nat /\ t <= now /\ now \in Nat /\ bucket.ts \in Nat /\ bucket.bal \in 0 .. Capacity
  BY RefillFacts DEF BucketInv
<1>2. Refill(t) \in 0 .. Capacity /\ Capacity \in Nat
  BY RefillFacts, BucketConstants
<1>3. CASE Exists
  <2> DEFINE g == Larger(0, t - bucket.ts)
             A == g * Rate
  <2>1. Stamp = bucket.ts /\ Rewind(t) = Larger(0, bucket.ts - t)
    BY <1>3 DEF Stamp, Rewind
  <2>2. /\ g \in Nat /\ t + Rewind(t) - Stamp = g /\ Rewind(t) \in Nat
        /\ t + Rewind(t) \in Int /\ t + Rewind(t) >= Stamp
    BY <1>1, <2>1 DEF Larger
  <2>3. Refill(t) = Smaller(bucket.bal + A, Capacity)
    BY <1>3 DEF Refill
  <2>4. Refill(Stamp) = bucket.bal
    <3>1. Larger(0, bucket.ts - bucket.ts) = 0 /\ 0 * Rate = 0
      BY <1>1, BucketConstants DEF Larger
    <3>2. Refill(Stamp) = Smaller(bucket.bal + 0, Capacity)
      BY <1>3, <2>1, <3>1 DEF Refill
    <3> QED
      BY <1>1, <1>2, <3>2 DEF Smaller
  <2>5. A \in Nat
    BY <2>2, Accrual
  <2> HIDE DEF A, g
  <2>6. Refill(t) <= bucket.bal + A
    BY <1>1, <1>2, <2>3, <2>5 DEF Smaller
  <2> QED
    BY <1>1, <1>2, <2>2, <2>4, <2>6 DEF A
<1>4. CASE ~Exists
  <2>1. Stamp = now /\ Rewind(t) = now - t /\ Refill(t) = Capacity /\ Refill(Stamp) = Capacity
    BY <1>1, <1>4 DEF Stamp, Rewind, Refill, Larger
  <2>2. t + Rewind(t) = now /\ t + Rewind(t) - Stamp = 0 /\ 0 * Rate = 0
    BY <1>1, <2>1, BucketConstants
  <2> QED
    BY <1>1, <1>2, <2>1, <2>2
<1> QED
  BY <1>3, <1>4

\* After a check the key exists, its balance is settled up to the reading, and
\* the bounds hold.
LEMMA StampAfter ==
  ASSUME BucketInv, HitsInv, NEW t \in Readings, NEW bal \in 0 .. Capacity, NEW passed \in BOOLEAN,
         Store(t, bal, passed), now' = now, rewound' = rewound + Rewind(t)
  PROVE  /\ BucketInv' /\ Stamp' = t /\ Refill(Stamp)' = bal
         /\ bucket'.exp >= -1 /\ bucket'.exp <= now' + Ttl
         /\ now' <= MaxClock /\ rewound' \in 0 .. MaxRewind
<1>1. /\ t \in Nat /\ t <= now /\ now \in Nat /\ now <= MaxClock /\ Ttl \in Nat /\ Capacity \in Nat
      /\ rewound \in Nat /\ Rewind(t) \in Nat /\ MaxRewind \in Nat
      /\ bucket' = [bal |-> bal, ts |-> t, exp |-> now + Ttl]
  BY RefillFacts, Settled, BucketConstants, HitConstants DEF BucketInv, HitsInv, Store
<1>2. Exists' /\ bucket'.bal = bal /\ bucket'.ts = t /\ bucket'.exp = now + Ttl
  BY <1>1 DEF Exists
<1>3. Stamp' = t
  BY <1>2 DEF Stamp
<1>4. Refill(Stamp)' = bal
  <2>1. Larger(0, t - t) = 0 /\ 0 * Rate = 0
    BY <1>1, BucketConstants DEF Larger
  <2>2. Refill(Stamp)' = Smaller(bal + 0, Capacity)
    BY <1>2, <1>3, <2>1 DEF Refill
  <2> QED
    BY <1>1, <2>2 DEF Smaller
<1>5. rewound + Rewind(t) \in 0 .. MaxRewind
  BY <1>1 DEF Readings
<1> QED
  BY <1>1, <1>2, <1>3, <1>4, <1>5, AfterStore

\* What is paid stays paid when what is left grows by no more than d ticks
\* accrue.
LEMMA PaidLater ==
  ASSUME NEW n \in Nat, NEW b \in Int, NEW c \in Int, NEW e \in Int, NEW d \in Int,
         n * Unit + b <= Capacity + e * Rate, c <= b + d * Rate
  PROVE  n * Unit + c <= Capacity + (e + d) * Rate
<1> DEFINE N == n * Unit
           E == e * Rate
           D == d * Rate
<1>1. N \in Int /\ Capacity \in Int /\ E \in Int /\ D \in Int /\ (e + d) * Rate = E + D
  BY Slope, HitConstants, BucketConstants
<1>2. N + b <= Capacity + E /\ c <= b + D
  OBVIOUS
<1> HIDE DEF N, E, D
<1>3. N + c <= Capacity + (E + D)
  BY <1>1, <1>2
<1> QED
  BY <1>1, <1>3 DEF N

\* A check that passes is paid for.
LEMMA AllowPaid ==
  ASSUME BurstInv, Allow
  PROVE  BurstInv' /\ rewound' \in 0 .. MaxRewind /\ (\E t \in 0 .. now : Stamp' = t)
<1>1. PICK t \in Readings :
        /\ Refill(t) >= Cost /\ Store(t, Refill(t) - Cost, TRUE)
        /\ rewound' = rewound + Rewind(t)
        /\ hits' = hits \cup {<<now, Cardinality({h \in hits : h[1] = now})>>}
        /\ now' = now
  BY DEF Allow, Passes
<1>2. BucketInv /\ HitsInv /\ Paid
  BY DEF BurstInv
<1>3. /\ t \in Nat /\ t <= now /\ now \in Nat /\ now - t <= MaxLag /\ MaxLag \in Nat
      /\ Capacity \in Nat /\ Cost \in Nat /\ Cost = Unit /\ Cost > 0 /\ rewound \in Nat
      /\ Refill(t) \in 0 .. Capacity
  BY <1>2, RefillFacts, BucketConstants, HitConstants DEF BucketInv, HitsInv
<1>4. Refill(t) - Cost \in 0 .. Capacity
  BY <1>1, <1>3
<1>5. /\ BucketInv' /\ Stamp' = t /\ Refill(Stamp)' = Refill(t) - Cost
      /\ bucket'.exp >= -1 /\ bucket'.exp <= now' + Ttl
      /\ now' <= MaxClock /\ rewound' \in 0 .. MaxRewind
  BY <1>1, <1>2, <1>4, StampAfter
<1>6. /\ IsFiniteSet(hits') /\ hits' \subseteq (0 .. now) \X Nat
      /\ \A h \in hits' : h[2] < Cardinality({g \in hits' : g[1] = h[1]})
      /\ \A x \in Int : x < now => Cardinality({h \in hits' : h[1] > x}) = Cardinality(Passed(x)) + 1
      /\ \A x \in Int : ~(x < now) => {h \in hits' : h[1] > x} = {}
  BY <1>1, <1>2, HitsAfterPass
<1>7. HitsInv'
  BY <1>1, <1>5, <1>6 DEF HitsInv
<1>8. /\ t + Rewind(t) \in Int /\ t + Rewind(t) >= Stamp /\ Rewind(t) \in Nat
      /\ Refill(Stamp) \in 0 .. Capacity
      /\ Refill(t) <= Refill(Stamp) + (t + Rewind(t) - Stamp) * Rate
  BY <1>2, Settled
<1>9. Stamp \in Int
  BY <1>2 DEF Stamp, BucketInv
<1>10. ASSUME NEW x \in Int, {h \in hits' : h[1] > x} # {}
       PROVE  Cardinality({h \in hits' : h[1] > x}) * Unit + (Refill(t) - Cost)
                <= Capacity + (t + rewound' - x - 1 + MaxLag) * Rate
  <2> DEFINE n == Cardinality(Passed(x))
             e == Stamp + rewound - x - 1 + MaxLag
             d == t + Rewind(t) - Stamp
             r == Refill(t)
             b == Refill(Stamp)
             f == t + rewound' - x - 1 + MaxLag
  <2>1. x < now /\ Cardinality({h \in hits' : h[1] > x}) = n + 1 /\ n \in Nat
    BY <1>2, <1>6, <1>10, PassedFinite
  <2>2. e \in Int /\ d \in Int /\ f = e + d /\ f \in Int
    BY <1>1, <1>3, <1>8, <1>9
  <2>3. n * Unit + r <= Capacity + f * Rate
    <3>1. CASE Passed(x) # {}
      <4>1. n * Unit + b <= Capacity + e * Rate
        BY <1>2, <3>1 DEF Paid
      <4>2. r <= b + d * Rate /\ r \in Int /\ b \in Int
        BY <1>3, <1>8
      <4> HIDE DEF n, e, d, r, b, f
      <4> QED
        BY <2>1, <2>2, <4>1, <4>2, PaidLater
    <3>2. CASE Passed(x) = {}
      <4>1. n = 0
        BY <3>2, FS_EmptySet
      <4>2. f >= 0
        BY <1>1, <1>3, <1>8, <2>1
      <4> HIDE DEF f
      <4>3. f * Rate \in Int /\ f * Rate >= 0
        BY <2>2, <4>2, Slope
      <4>4. 0 * Unit = 0
        BY HitConstants
      <4> QED
        BY <1>3, <4>1, <4>3, <4>4
    <3> QED
      BY <3>1, <3>2
  <2> HIDE DEF n, f, r
  <2>4. (n + 1) * Unit = n * Unit + Unit /\ n * Unit \in Int /\ f * Rate \in Int
    BY <2>1, <2>2, HitConstants, Slope
  <2>5. (n + 1) * Unit + (r - Cost) <= Capacity + f * Rate
    BY <1>3, <2>3, <2>4 DEF r
  <2> QED
    BY <2>1, <2>5 DEF f, r
<1>11. Paid'
  BY <1>5, <1>10 DEF Paid, Passed
<1> QED
  BY <1>2, <1>3, <1>5, <1>7, <1>11 DEF BurstInv

\* A check that is turned away settles the balance and nothing else.
LEMMA RejectPaid ==
  ASSUME BurstInv, Reject
  PROVE  BurstInv' /\ UNCHANGED <<now, hits>>
<1>1. PICK t \in Readings :
        /\ Store(t, Refill(t), FALSE) /\ rewound' = rewound + Rewind(t)
        /\ hits' = hits /\ now' = now
  BY DEF Reject, Turns
<1>2. BucketInv /\ HitsInv /\ Paid
  BY DEF BurstInv
<1>3. t \in Nat /\ MaxLag \in Nat /\ rewound \in Nat /\ Refill(t) \in 0 .. Capacity
  BY <1>2, RefillFacts, HitConstants DEF HitsInv
<1>4. /\ BucketInv' /\ Stamp' = t /\ Refill(Stamp)' = Refill(t)
      /\ bucket'.exp >= -1 /\ bucket'.exp <= now' + Ttl
      /\ now' <= MaxClock /\ rewound' \in 0 .. MaxRewind
  BY <1>1, <1>2, <1>3, StampAfter
<1>5. HitsInv'
  BY <1>1, <1>2, <1>4 DEF HitsInv
<1>6. /\ t + Rewind(t) \in Int /\ Rewind(t) \in Nat /\ Refill(Stamp) \in 0 .. Capacity
      /\ Refill(t) <= Refill(Stamp) + (t + Rewind(t) - Stamp) * Rate
  BY <1>2, Settled
<1>7. Stamp \in Int
  BY <1>2 DEF Stamp, BucketInv
<1>8. ASSUME NEW x \in Int, Passed(x) # {}
      PROVE  Cardinality(Passed(x)) * Unit + Refill(t)
               <= Capacity + (t + rewound' - x - 1 + MaxLag) * Rate
  <2> DEFINE n == Cardinality(Passed(x))
             e == Stamp + rewound - x - 1 + MaxLag
             d == t + Rewind(t) - Stamp
             r == Refill(t)
             b == Refill(Stamp)
             f == t + rewound' - x - 1 + MaxLag
  <2>1. n \in Nat /\ e \in Int /\ d \in Int /\ f = e + d
    BY <1>1, <1>2, <1>3, <1>6, <1>7, PassedFinite
  <2>2. n * Unit + b <= Capacity + e * Rate
    BY <1>2, <1>8 DEF Paid
  <2>3. r <= b + d * Rate /\ r \in Int /\ b \in Int
    BY <1>3, <1>6
  <2> HIDE DEF n, e, d, r, b, f
  <2>4. n * Unit + r <= Capacity + f * Rate
    BY <2>1, <2>2, <2>3, PaidLater
  <2> QED
    BY <2>4 DEF n, r, f
<1>9. \A x \in Int : Passed(x)' = Passed(x)
  BY <1>1 DEF Passed
<1>10. Paid'
  BY <1>4, <1>8, <1>9 DEF Paid
<1> QED
  BY <1>1, <1>4, <1>5, <1>10 DEF BurstInv

\* Time settles the balance of a key that is gone: its lifetime covered a refill
\* from empty.
LEMMA StampTick ==
  ASSUME BucketInv, Tick
  PROVE  \E d \in Nat : /\ Stamp' = Stamp + d
                         /\ Refill(Stamp)' \in Int /\ Refill(Stamp) \in Int
                         /\ Refill(Stamp)' <= Refill(Stamp) + d * Rate
<1>1. /\ now \in Nat /\ now' = now + 1 /\ bucket' = IF bucket.exp < now' THEN NoBucket ELSE bucket
      /\ bucket.bal \in 0 .. Capacity /\ bucket.ts \in Nat /\ bucket.exp \in Int /\ bucket.ts <= now
  BY DEF Tick, Expire, BucketInv
<1>2. /\ Capacity \in Nat /\ Rate \in Nat /\ Window \in Nat /\ Ttl \in Nat /\ Ttl > Window
      /\ 0 * Rate = 0 /\ 1 * Rate = Rate
  BY BucketConstants
<1>3. Exists => Stamp = bucket.ts /\ Refill(Stamp) = bucket.bal
  <2>1. Exists => Stamp = bucket.ts /\ Refill(Stamp) = Smaller(bucket.bal + Larger(0, bucket.ts - bucket.ts) * Rate, Capacity)
    BY DEF Stamp, Refill
  <2>2. Larger(0, bucket.ts - bucket.ts) * Rate = 0
    BY <1>1, <1>2 DEF Larger
  <2>3. Smaller(bucket.bal + 0, Capacity) = bucket.bal
    BY <1>1, <1>2 DEF Smaller
  <2> QED
    BY <2>1, <2>2, <2>3
<1>4. CASE ~Exists
  <2>1. bucket' = NoBucket
    BY <1>1, <1>4 DEF Exists
  <2>2. ~Exists'
    BY <2>1 DEF Exists, NoBucket
  <2>3. Stamp = now /\ Refill(Stamp) = Capacity /\ Stamp' = now' /\ Refill(Stamp)' = Capacity
    BY <1>4, <2>2 DEF Stamp, Refill
  <2> QED
    BY <1>1, <1>2, <2>3
<1>5. CASE Exists /\ bucket.exp < now'
  <2> DEFINE d == now + 1 - bucket.ts
             A == d * Rate
  <2>1. ~Exists'
    BY <1>1, <1>5 DEF Exists, NoBucket
  <2>2. Stamp' = now + 1 /\ Refill(Stamp)' = Capacity
    BY <1>1, <2>1 DEF Stamp, Refill
  <2>3. d \in Nat /\ d >= Window /\ now + 1 = bucket.ts + d
    BY <1>1, <1>2, <1>5 DEF BucketInv
  <2> HIDE DEF d
  <2>4. A \in Nat /\ A >= Capacity
    BY <2>3, Accrual
  <2> HIDE DEF A
  <2>5. Capacity <= bucket.bal + A
    BY <1>1, <1>2, <2>4
  <2>6. Stamp' = Stamp + d /\ Refill(Stamp)' <= Refill(Stamp) + A
    BY <1>3, <1>5, <2>2, <2>3, <2>5
  <2>7. Refill(Stamp)' \in Int /\ Refill(Stamp) \in Int
    BY <1>1, <1>2, <1>3, <1>5, <2>2
  <2> QED
    BY <2>3, <2>6, <2>7 DEF A
<1>6. CASE Exists /\ ~(bucket.exp < now')
  <2>1. bucket' = bucket /\ Exists'
    BY <1>1, <1>6 DEF Exists
  <2>2. Stamp' = bucket.ts
    BY <2>1 DEF Stamp
  <2>3. Refill(Stamp)' = Smaller(bucket.bal + Larger(0, bucket.ts - bucket.ts) * Rate, Capacity)
    BY <2>1, <2>2 DEF Refill
  <2>4. Larger(0, bucket.ts - bucket.ts) * Rate = 0
    BY <1>1, <1>2 DEF Larger
  <2>5. Smaller(bucket.bal + 0, Capacity) = bucket.bal
    BY <1>1, <1>2 DEF Smaller
  <2>6. Stamp' = Stamp + 0 /\ Refill(Stamp)' = bucket.bal /\ Refill(Stamp) = bucket.bal
    BY <1>1, <1>3, <1>6, <2>2, <2>3, <2>4, <2>5
  <2>7. Refill(Stamp)' <= Refill(Stamp) + 0 * Rate
    BY <1>1, <1>2, <2>6
  <2> QED
    BY <1>1, <2>6, <2>7
<1> QED
  BY <1>4, <1>5, <1>6

\* A tick forgets requests, and what is left of them stays paid.
LEMMA TickPaid ==
  ASSUME BurstInv, Tick
  PROVE  BurstInv' /\ Contract!Tick
<1>1. BucketInv /\ HitsInv /\ Paid
  BY DEF BurstInv
<1>2. /\ now \in Nat /\ now < MaxClock /\ now' = now + 1 /\ MaxClock \in Nat /\ Ttl \in Nat
      /\ hits' = {h \in hits : h[1] > now' - Horizon} /\ rewound' = rewound /\ rewound \in Nat
      /\ bucket' = IF bucket.exp < now' THEN NoBucket ELSE bucket
      /\ bucket.exp \in Int /\ bucket.exp >= -1 /\ bucket.exp <= now + Ttl
      /\ MaxLag \in Nat
  BY <1>1, HitConstants, BucketConstants DEF Tick, Expire, BucketInv, HitsInv
<1>3. hits' \in SUBSET hits /\ IsFiniteSet(hits)
  BY <1>1, <1>2 DEF HitsInv
<1>4. BucketInv'
  BY <1>1, TickMapped
<1>5. HitsInv'
  <2>1. IsFiniteSet(hits')
    BY <1>3, FS_Subset
  <2>2. now' <= MaxClock /\ bucket'.exp >= -1 /\ bucket'.exp <= now' + Ttl
    BY <1>2 DEF NoBucket
  <2>3. hits' \subseteq (0 .. now') \X Nat
    BY <1>1, <1>2, <1>3 DEF HitsInv
  <2>4. ASSUME NEW h \in hits' PROVE h[2] < Cardinality({g \in hits' : g[1] = h[1]})
    <3>1. {g \in hits' : g[1] = h[1]} = {g \in hits : g[1] = h[1]}
      BY <1>2, <2>4
    <3>2. h[2] < Cardinality({g \in hits : g[1] = h[1]})
      BY <1>1, <1>3, <2>4 DEF HitsInv
    <3> QED
      BY <3>1, <3>2
  <2> QED
    BY <1>1, <1>2, <2>1, <2>2, <2>3, <2>4 DEF HitsInv
<1>6. PICK d \in Nat : /\ Stamp' = Stamp + d
                       /\ Refill(Stamp)' \in Int /\ Refill(Stamp) \in Int
                       /\ Refill(Stamp)' <= Refill(Stamp) + d * Rate
  BY <1>1, StampTick
<1>7. Stamp \in Int
  BY <1>1 DEF Stamp, BucketInv
<1>8. ASSUME NEW x \in Int, {h \in hits' : h[1] > x} # {}
      PROVE  Cardinality({h \in hits' : h[1] > x}) * Unit + Refill(Stamp)'
               <= Capacity + (Stamp' + rewound' - x - 1 + MaxLag) * Rate
  <2> DEFINE P == {h \in hits' : h[1] > x}
             m == Cardinality(P)
             n == Cardinality(Passed(x))
             e == Stamp + rewound - x - 1 + MaxLag
             f == Stamp' + rewound' - x - 1 + MaxLag
             b == Refill(Stamp)
             c == Refill(Stamp)'
  <2>1. P \in SUBSET Passed(x) /\ Passed(x) # {}
    BY <1>3, <1>8 DEF Passed
  <2>2. e \in Int /\ f = e + d
    BY <1>2, <1>6, <1>7
  <2>3. n * Unit + b <= Capacity + e * Rate
    BY <1>1, <2>1 DEF Paid
  <2> HIDE DEF P
  <2>4. IsFiniteSet(P) /\ m <= n /\ n \in Nat
    BY <1>1, <2>1, PassedFinite, FS_Subset
  <2>5. m \in Nat
    BY <2>4, FS_CardinalityType
  <2>6. c <= b + d * Rate /\ b \in Int /\ c \in Int
    BY <1>6
  <2> HIDE DEF m, n, e, f, b, c
  <2>7. n * Unit + c <= Capacity + f * Rate
    BY <2>2, <2>3, <2>4, <2>6, PaidLater
  <2>8. m * Unit <= n * Unit /\ m * Unit \in Int /\ n * Unit \in Int
    BY <2>4, <2>5, HitConstants
  <2>9. f * Rate \in Int /\ Capacity \in Int
    BY <2>2, Slope, BucketConstants
  <2>10. m * Unit + c <= Capacity + f * Rate
    <3> DEFINE M == m * Unit
               N == n * Unit
               F == f * Rate
    <3>1. M \in Int /\ N \in Int /\ F \in Int /\ M <= N /\ N + c <= Capacity + F
      BY <2>7, <2>8, <2>9
    <3> HIDE DEF M, N, F
    <3>2. M + c <= Capacity + F
      BY <2>6, <2>9, <3>1
    <3> QED
      BY <3>2 DEF M, F
  <2> QED
    BY <2>10 DEF m, P, c, f
<1>9. Paid'
  BY <1>8 DEF Paid, Passed
<1>10. Contract!Tick
  BY <1>2 DEF Contract!Tick, Contract!Since
<1> QED
  BY <1>4, <1>5, <1>9, <1>10 DEF BurstInv

\* What a burst and the accrual of k ticks pay for, in requests.
LEMMA PaidRequests ==
  ASSUME NEW n \in Nat, NEW k \in Nat, n * Unit <= Capacity + k * Rate
  PROVE  n <= Limit + (Limit * k) \div Window
<1>1. /\ Limit \in Nat /\ Unit \in Nat /\ Unit > 0 /\ Window \in Nat /\ Window > 0 /\ Rate \in Nat
      /\ Capacity = Limit * Unit /\ Rate * Window = Limit * Unit
  BY HitConstants, BucketConstants
<1> DEFINE a == Limit * k
           q == a \div Window
           m == n - Limit
<1>2. a \in Nat
  BY <1>1
<1>3. q \in Nat /\ a < q * Window + Window
  <2> HIDE DEF a
  <2> QED
    BY <1>1, <1>2, Quotient
<1>4. CASE n <= Limit
  <2> HIDE DEF q
  <2>1. n <= Limit + q
    BY <1>1, <1>3, <1>4
  <2> QED
    BY <2>1 DEF q
<1>5. CASE n > Limit
  <2>1. m \in Nat /\ n = m + Limit
    BY <1>1, <1>5
  <2> HIDE DEF m
  <2>2. n * Unit = m * Unit + Limit * Unit
    BY <1>1, <2>1
  <2>3. m * Unit \in Nat /\ Limit * Unit \in Nat /\ k * Rate \in Nat
    BY <1>1, <2>1
  <2>4. m * Unit <= k * Rate
    <3> DEFINE M == m * Unit
               L == Limit * Unit
               K == k * Rate
    <3>1. M \in Nat /\ L \in Nat /\ K \in Nat /\ M + L <= L + K
      BY <1>1, <2>2, <2>3
    <3> HIDE DEF M, L, K
    <3>2. M <= K
      BY <3>1
    <3> QED
      BY <3>2 DEF M, K
  <2>5. (m * Unit) * Window <= (k * Rate) * Window
    <3> DEFINE M == m * Unit
               K == k * Rate
    <3>1. M \in Nat /\ K \in Nat /\ M <= K
      BY <2>3, <2>4
    <3> HIDE DEF M, K
    <3>2. M * Window <= K * Window
      BY <1>1, <3>1
    <3> QED
      BY <3>2 DEF M, K
  <2>6. (k * Rate) * Window = k * (Rate * Window) /\ k * (Limit * Unit) = a * Unit
    BY <1>1
  <2>7. (m * Unit) * Window = (m * Window) * Unit
    BY <1>1, <2>1
  <2>8. (m * Window) * Unit <= a * Unit
    BY <1>1, <2>5, <2>6, <2>7
  <2>9. m * Window \in Nat
    BY <1>1, <2>1
  <2> DEFINE W == m * Window
  <2> HIDE DEF a
  <2>10. W <= a
    <3> HIDE DEF W
    <3>1. W \in Nat /\ W * Unit <= a * Unit
      BY <2>8, <2>9 DEF W
    <3> QED
      BY <1>1, <1>2, <3>1
  <2>11. m <= q
    <3> HIDE DEF q
    <3>1. m * Window < q * Window + Window
      <4>1. W \in Nat /\ q * Window \in Nat
        BY <1>1, <1>3, <2>9
      <4> DEFINE Q == q * Window
      <4> HIDE DEF W, Q
      <4>2. W < Q + Window
        BY <1>1, <1>2, <1>3, <2>10, <4>1 DEF Q
      <4> QED
        BY <4>2 DEF W, Q
    <3>2. m * Window < (q + 1) * Window
      BY <1>1, <1>3, <3>1
    <3>3. ~(m >= q + 1)
      BY <1>1, <1>3, <2>1, <3>2
    <3> QED
      BY <1>3, <2>1, <3>3
  <2> HIDE DEF q
  <2>12. n <= Limit + q
    BY <1>1, <1>3, <2>1, <2>11
  <2> QED
    BY <2>12 DEF q, a
<1> QED
  BY <1>1, <1>4, <1>5

\* What has been paid for is within the quota of every interval.
WithinBurst ==
  \A d \in 1 .. Horizon :
    Cardinality(Passed(now - d)) <= Limit + (Limit * (d - 1 + MaxLag + MaxRewind)) \div Window

LEMMA PaidIsWithin == BurstInv /\ Stamp <= now => WithinBurst
<1> SUFFICES ASSUME BurstInv, Stamp <= now, NEW d \in 1 .. Horizon
             PROVE  Cardinality(Passed(now - d))
                      <= Limit + (Limit * (d - 1 + MaxLag + MaxRewind)) \div Window
  BY DEF WithinBurst
<1> DEFINE P == Passed(now - d)
           n == Cardinality(P)
           k == d - 1 + MaxLag + MaxRewind
           e == Stamp + rewound - (now - d) - 1 + MaxLag
           b == Refill(Stamp)
<1>1. /\ now \in Nat /\ Stamp \in Int /\ rewound \in Nat /\ rewound <= MaxRewind /\ d \in Nat /\ d >= 1
      /\ MaxLag \in Nat /\ MaxRewind \in Nat /\ Limit \in Nat /\ Window \in Nat /\ Window > 0
      /\ Capacity \in Nat /\ Unit \in Nat
  BY HitConstants, BucketConstants DEF BurstInv, BucketInv, HitsInv, Stamp
<1>2. n \in Nat /\ now - d \in Int
  BY <1>1, PassedFinite DEF BurstInv
<1>3. k \in Nat /\ e \in Int /\ e <= k
  BY <1>1
<1>4. b \in Int /\ b >= 0
  <2>1. /\ bucket.bal \in 0 .. Capacity /\ bucket.ts \in Nat /\ Stamp \in Nat /\ Stamp <= Stamp
        /\ Capacity \in 0 .. Capacity
    BY <1>1 DEF BurstInv, BucketInv, Stamp
  <2>2. Refill(Stamp) \in 0 .. Capacity
    BY <2>1, AccruedFacts, RefillIsAccrued
  <2> QED
    BY <2>2
<1>5. n * Unit <= Capacity + k * Rate
  <2>1. n * Unit \in Int /\ k * Rate \in Int /\ e * Rate \in Int /\ e * Rate <= k * Rate /\ k * Rate >= 0
    <3> HIDE DEF n, e, k
    <3>1. n * Unit \in Int
      BY <1>1, <1>2
    <3>2. e * Rate \in Int /\ e * Rate <= k * Rate
      <4>1. \A x, y \in Int : x * Rate \in Int /\ (x <= y => x * Rate <= y * Rate)
        BY Slope
      <4> QED
        BY <1>3, <4>1
    <3>3. k * Rate \in Nat
      BY <1>3, BucketConstants
    <3> DEFINE N == n * Unit
               K == k * Rate
    <3> HIDE DEF N, K
    <3>4. K >= 0 /\ K \in Int
      BY <3>3 DEF K
    <3> QED
      BY <3>1, <3>2, <3>4 DEF K
  <2>2. CASE P # {}
    <3>1. n * Unit + b <= Capacity + e * Rate
      BY <1>2, <2>2 DEF BurstInv, Paid
    <3> DEFINE N == n * Unit
               K == k * Rate
               E == e * Rate
    <3>2. N \in Int /\ K \in Int /\ E \in Int /\ E <= K /\ N + b <= Capacity + E
      BY <2>1, <3>1
    <3> HIDE DEF N, K, E, b
    <3>3. N <= Capacity + K
      BY <1>1, <1>4, <3>2
    <3> QED
      BY <3>3 DEF N, K
  <2>3. CASE P = {}
    <3>1. n = 0 /\ 0 * Unit = 0
      BY <1>1, <2>3, FS_EmptySet
    <3> HIDE DEF n, k
    <3> QED
      BY <1>1, <2>1, <3>1
  <2> QED
    BY <2>2, <2>3
<1> HIDE DEF n, k
<1>6. n <= Limit + (Limit * k) \div Window
  BY <1>2, <1>3, <1>5, PaidRequests
<1> QED
  BY <1>6 DEF n, k

LEMMA PaidIsWithinNext == (BurstInv /\ Stamp <= now => WithinBurst)'
BY PaidIsWithin, PTL

\* A check that passes is one that the promise allows.
LEMMA AllowWithin ==
  ASSUME BurstInv, Allow
  PROVE  BurstInv' /\ Contract!Pass
<1>1. BurstInv' /\ Stamp' \in Int /\ Stamp' <= now /\ now' = now
  BY AllowPaid DEF Allow, BurstInv, BucketInv
<1>2. ASSUME NEW d \in 1 .. Horizon
      PROVE  Cardinality({h \in hits' : h[1] > now - d})
               <= Limit + (Limit * (d - 1 + MaxLag + MaxRewind)) \div Window
  <2>1. (Stamp <= now)'
    BY <1>1
  <2>2. WithinBurst'
    BY <1>1, <2>1, PaidIsWithinNext
  <2>3. Cardinality({h \in hits' : h[1] > now' - d})
          <= Limit + (Limit * (d - 1 + MaxLag + MaxRewind)) \div Window
    BY <2>2 DEF WithinBurst, Passed
  <2> QED
    BY <1>1, <2>3
<1>3. Contract!WithinQuota(hits')
  BY <1>2, SameCount DEF Contract!WithinQuota, Contract!Since
<1>4. \E h \in hits' \ hits : h[1] = now /\ hits' = hits \cup {h}
  <2>1. /\ BucketInv /\ HitsInv /\ now' = now
        /\ hits' = hits \cup {<<now, Cardinality({h \in hits : h[1] = now})>>}
    BY DEF Allow, BurstInv
  <2> QED
    BY <2>1, HitsAfterPass
<1> QED
  BY <1>1, <1>3, <1>4, Zenon DEF Contract!Pass

\* A reset starts over.
LEMMA ResetPaid ==
  ASSUME BurstInv, Reset
  PROVE  BurstInv' /\ Contract!Reset
<1>1. BucketInv /\ HitsInv /\ now \in Nat
  BY DEF BurstInv, BucketInv
<1>2. now' = now /\ rewound' = rewound /\ hits' = {} /\ bucket' = [bal |-> 0, ts |-> 0, exp |-> -1]
  BY DEF Reset, NoBucket
<1>3. BucketInv'
  BY <1>1, ResetMapped
<1>4. -1 <= now + Ttl
  BY <1>1, BucketConstants
<1>5. HitsInv'
  BY <1>1, <1>2, <1>4, FS_EmptySet DEF HitsInv
<1>6. Paid'
  BY <1>2 DEF Paid, Passed
<1> QED
  BY <1>2, <1>3, <1>5, <1>6 DEF BurstInv, Contract!Reset

LEMMA InitPaid == Init => BurstInv /\ Contract!Init
<1> SUFFICES ASSUME Init PROVE BurstInv /\ Contract!Init
  OBVIOUS
<1>1. now = 0 /\ rewound = 0 /\ hits = {} /\ bucket = [bal |-> 0, ts |-> 0, exp |-> -1]
  BY DEF Init, NoBucket
<1>2. BucketInv
  BY InitMapped
<1>3. -1 <= 0 + Ttl /\ 0 <= MaxClock /\ 0 \in 0 .. MaxRewind
  BY BucketConstants, HitConstants
<1>4. HitsInv
  BY <1>1, <1>3, FS_EmptySet DEF HitsInv
<1>5. Paid
  BY <1>1 DEF Paid, Passed
<1> QED
  BY <1>1, <1>2, <1>4, <1>5 DEF BurstInv, Contract!Init

LEMMA BurstStep ==
  BurstInv /\ [Next]_vars => BurstInv' /\ [Contract!Next]_<<now, hits>>
<1> SUFFICES ASSUME BurstInv, [Next]_vars
             PROVE  BurstInv' /\ [Contract!Next]_<<now, hits>>
  OBVIOUS
<1>1. CASE Allow
  BY <1>1, AllowWithin DEF Contract!Next
<1>2. CASE Reject
  BY <1>2, RejectPaid
<1>3. CASE Reset
  BY <1>3, ResetPaid DEF Contract!Next
<1>4. CASE Tick
  BY <1>4, TickPaid DEF Contract!Next
<1>5. CASE UNCHANGED vars
  <2>1. now' = now /\ bucket' = bucket /\ rewound' = rewound /\ hits' = hits
    BY <1>5 DEF vars
  <2>2. BucketInv' /\ HitsInv'
    BY <2>1 DEF BurstInv, BucketInv, HitsInv, Exists
  <2>3. Stamp' = Stamp /\ Refill(Stamp)' = Refill(Stamp) /\ \A x : Passed(x)' = Passed(x)
    BY <2>1 DEF Stamp, Refill, Exists, Passed
  <2>4. Paid'
    BY <2>1, <2>3 DEF BurstInv, Paid
  <2> QED
    BY <2>1, <2>2, <2>4 DEF BurstInv
<1> QED
  BY <1>1, <1>2, <1>3, <1>4, <1>5 DEF Next, Check

\* lua-scripts.ts: "admits bursts up to limit and then settles to limit /
\* windowSeconds per second": no interval sees more pass than a burst and what
\* accrues in it, but for the lag of the callers' clocks.
THEOREM BucketKeepsArrivalCurve == Spec => BurstThenRate
<1> QED
  BY InitPaid, BurstStep, PTL DEF Spec, BurstThenRate, Contract!Spec

\* lua-scripts.ts: the stored balance stays within the bucket, the refill clock
\* is never ahead, and the key's deadline is a lifetime away at most.
THEOREM BucketTypeCorrect == Spec => []TypeOK
<1>1. BurstInv => TypeOK
  <2> SUFFICES ASSUME BurstInv PROVE TypeOK
    OBVIOUS
  <2>1. now \in 0 .. MaxClock
    BY HitConstants DEF BurstInv, BucketInv, HitsInv
  <2>2. bucket.bal \in 0 .. Capacity /\ bucket.ts \in 0 .. now /\ bucket.exp \in -1 .. now + Ttl
    BY BucketConstants DEF BurstInv, BucketInv, HitsInv
  <2>3. bucket = [bal |-> bucket.bal, ts |-> bucket.ts, exp |-> bucket.exp]
    BY DEF BurstInv, BucketInv
  <2>4. bucket \in [bal : 0 .. Capacity, ts : 0 .. now, exp : -1 .. now + Ttl]
    BY <2>2, <2>3
  <2> QED
    BY <2>1, <2>4 DEF BurstInv, HitsInv, TypeOK
<1> QED
  BY <1>1, InitPaid, BurstStep, PTL DEF Spec
=============================================================================
