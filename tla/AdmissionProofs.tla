-------------------------- MODULE AdmissionProofs --------------------------
(***************************************************************************)
(* Theorems about Admission that hold for every value of its constants:    *)
(* its types, the token ledger, occupancy, retried commits, the request    *)
(* budget, the eager ledger it implements, key lifetimes and Retry-After.  *)
(***************************************************************************)
EXTENDS RequestBudget, FiniteSetTheorems, TLAPS

-----------------------------------------------------------------------------
(* The unit-by-unit sum *)

\* The limits are natural numbers.
LEMMA LimitType == TpmLimit \in Nat \ {0} /\ RpmLimit \in Nat \ {0}
BY RateAssumption DEF TpmLimit, RpmLimit

\* The set a sum counts is finite, so the sum is a natural number.
LEMMA TokensFinite ==
  ASSUME NEW f, NEW S, IsFiniteSet(S)
  PROVE  /\ IsFiniteSet({p \in S \X (1 .. TpmLimit) : p[2] <= f[p[1]]})
         /\ Tokens(f, S) \in Nat
<1> DEFINE U == S \X (1 .. TpmLimit)
           P == {p \in U : p[2] <= f[p[1]]}
<1>1. IsFiniteSet(1 .. TpmLimit)
  BY LimitType, FS_Interval
<1>2. IsFiniteSet(U)
  BY <1>1, FS_Product
<1>3. P \in SUBSET U
  OBVIOUS
<1>4. IsFiniteSet(P)
  BY <1>2, <1>3, FS_Subset
<1>5. Cardinality(P) \in Nat
  BY <1>4, FS_CardinalityType
<1> QED
  BY <1>4, <1>5 DEF Tokens

\* Nothing holds nothing.
LEMMA TokensEmpty ==
  ASSUME NEW f
  PROVE  Tokens(f, {}) = 0
<1>1. {p \in {} \X (1 .. TpmLimit) : p[2] <= f[p[1]]} = {}
  OBVIOUS
<1> QED
  BY <1>1, FS_EmptySet DEF Tokens

\* The sum over two disjoint sets is the sum of the sums.
LEMMA TokensSplit ==
  ASSUME NEW f, NEW A, NEW B, IsFiniteSet(A), IsFiniteSet(B), A \cap B = {}
  PROVE  Tokens(f, A \cup B) = Tokens(f, A) + Tokens(f, B)
<1> DEFINE P(S) == {p \in S \X (1 .. TpmLimit) : p[2] <= f[p[1]]}
<1>1. IsFiniteSet(P(A)) /\ IsFiniteSet(P(B))
  BY TokensFinite
<1>2. P(A \cup B) = P(A) \cup P(B)
  OBVIOUS
<1>3. P(A) \cap P(B) = {}
  OBVIOUS
<1>4. Cardinality(P(A) \cup P(B))
        = Cardinality(P(A)) + Cardinality(P(B)) - Cardinality(P(A) \cap P(B))
  BY <1>1, FS_Union
<1>5. Cardinality(P(A) \cap P(B)) = 0
  BY <1>3, FS_EmptySet
<1>6. Cardinality(P(A)) \in Nat /\ Cardinality(P(B)) \in Nat
  BY <1>1, FS_CardinalityType
<1> HIDE DEF P
<1>7. Cardinality(P(A \cup B)) = Cardinality(P(A)) + Cardinality(P(B))
  BY <1>2, <1>4, <1>5, <1>6
<1> QED
  BY <1>7 DEF Tokens, P

\* The sum over one reservation is what it holds.
LEMMA TokensSingle ==
  ASSUME NEW f, NEW r, f[r] \in 0 .. TpmLimit
  PROVE  Tokens(f, {r}) = f[r]
<1>1. {p \in {r} \X (1 .. TpmLimit) : p[2] <= f[p[1]]} = {r} \X (1 .. f[r])
  BY LimitType
<1>2. IsFiniteSet({r}) /\ Cardinality({r}) = 1
  BY FS_Singleton
<1>3. IsFiniteSet(1 .. f[r]) /\ Cardinality(1 .. f[r]) = f[r]
  BY FS_Interval
<1>4. Cardinality({r} \X (1 .. f[r])) = Cardinality({r}) * Cardinality(1 .. f[r])
  BY <1>2, <1>3, FS_Product, Zenon
<1>5. Cardinality({r}) * Cardinality(1 .. f[r]) = 1 * f[r]
  BY <1>2, <1>3, Zenon
<1>6. 1 * f[r] = f[r]
  BY LimitType
<1> QED
  BY <1>1, <1>4, <1>5, <1>6, Zenon DEF Tokens

\* Only the holds in S matter.
LEMMA TokensSame ==
  ASSUME NEW f, NEW g, NEW S, \A r \in S : f[r] = g[r]
  PROVE  Tokens(f, S) = Tokens(g, S)
<1>1. {p \in S \X (1 .. TpmLimit) : p[2] <= f[p[1]]}
        = {p \in S \X (1 .. TpmLimit) : p[2] <= g[p[1]]}
  OBVIOUS
<1> QED
  BY <1>1 DEF Tokens

-----------------------------------------------------------------------------
(* What the scripts compute *)

\* A refilled balance is a number that never exceeds the capacity, and gains at
\* most the accrual since the last write.
LEMMA RefillFacts ==
  ASSUME NEW b \in Budget, NEW capacity \in Nat, NEW rate \in Nat, NEW t \in Nat
  PROVE  /\ Refill(b, capacity, rate, t) \in Int
         /\ Refill(b, capacity, rate, t) <= capacity
         /\ Exists(b) => Refill(b, capacity, rate, t) <= b.bal + Larger(0, t - b.ts) * rate
         /\ ~Exists(b) => Refill(b, capacity, rate, t) = capacity
<1> DEFINE gain == Larger(0, t - b.ts) * rate
<1>1. Larger(0, t - b.ts) \in Nat
  BY DEF Larger, Budget
<1>2. gain \in Int
  BY <1>1
<1>3. b.bal \in Int
  BY DEF Budget
<1> HIDE DEF gain
<1>4. Refill(b, capacity, rate, t) = IF Exists(b) THEN Smaller(b.bal + gain, capacity) ELSE capacity
  BY DEF Refill, gain
<1>5. /\ Refill(b, capacity, rate, t) \in Int
      /\ Refill(b, capacity, rate, t) <= capacity
      /\ Exists(b) => Refill(b, capacity, rate, t) <= b.bal + gain
      /\ ~Exists(b) => Refill(b, capacity, rate, t) = capacity
  BY <1>2, <1>3, <1>4 DEF Smaller
<1> QED
  BY <1>5 DEF gain

\* An admitted request passed every check of the cascade.
LEMMA DecisionAdmit ==
  ASSUME NEW bal, NEW reqs, NEW inflight, NEW n, NEW slo,
         Decision(bal, reqs, inflight, n, slo) = "admit"
  PROVE  /\ ~(n > TpmLimit)
         /\ ~(reqs < RpmUnit)
         /\ ~(bal < n)
         /\ ~(inflight >= MaxConcurrency + MaxQueueDepth)
BY DEF Decision

\* The keys' time to live is positive and exceeds the lease, and is at least
\* the two minutes a full refill needs twice over.
LEMMA TtlFacts ==
  ASSUME NEW lease \in LeaseLengths
  PROVE  /\ lease \in Nat
         /\ Ttl(lease) \in Nat
         /\ Ttl(lease) >= lease
         /\ Ttl(lease) >= 2 * Window
BY PolicyAssumption, RateAssumption DEF Ttl, Larger

\* A caller's clock reading is a time no later than the present.
LEMMA ReadingFacts ==
  ASSUME now \in Nat, NEW t \in Readings
  PROVE  t \in Nat /\ t <= now
BY BoundAssumption DEF Readings, Larger

\* Moving a refill clock back takes a natural number of ticks.
LEMMA RewindFacts ==
  ASSUME now \in Nat, NEW b \in Budget, NEW t \in Nat
  PROVE  /\ Rewind(b, t) \in Nat
         /\ Rewind(b, t) >= (IF Exists(b) THEN b.ts ELSE now) - t
BY DEF Rewind, Larger, Budget

\* A moving average of naturals is a natural.
LEMMA EwmaType ==
  ASSUME NEW prev \in Nat, NEW sample \in Nat
  PROVE  Ewma(prev, sample) \in Nat
<1>1. (sample + 4 * prev) \in Nat
  OBVIOUS
<1>2. \A x \in Nat : x \div 5 \in Nat
  OBVIOUS
<1> QED
  BY <1>1, <1>2 DEF Ewma

\* What a sweep removes was leased.
LEMMA ReclaimFacts ==
  ASSUME TypeOK, NEW t, NEW E \in ReclaimSets(t)
  PROVE  /\ E \subseteq DOMAIN leases
         /\ IsFiniteSet(E)
         /\ Cardinality(E) \in Nat
<1>1. E \subseteq DOMAIN leases
  BY DEF ReclaimSets, ExpiredAt
<1>2. E \in SUBSET Rids
  BY <1>1 DEF TypeOK
<1>3. IsFiniteSet(E)
  BY <1>2, RidsAssumption, FS_Subset
<1> QED
  BY <1>1, <1>3, FS_CardinalityType

-----------------------------------------------------------------------------
(* Type correctness *)

\* The balance an admission works with is a number within the limit.
LEMMA AdmissionBalance ==
  ASSUME TypeOK, NEW t \in Nat, NEW E \in SUBSET Rids
  PROVE  /\ TpmAfterReclaim(t, E) \in Int
         /\ TpmAfterReclaim(t, E) <= TpmLimit
         /\ TpmAfterReclaim(t, E)
              <= Refill(tpm, TpmLimit, TpmRate, t) + Tokens(res, E)
         /\ Tokens(res, E) \in Nat
<1>1. Refill(tpm, TpmLimit, TpmRate, t) \in Int
  BY RefillFacts, LimitType, RateAssumption DEF TypeOK
<1>2. IsFiniteSet(E)
  BY RidsAssumption, FS_Subset
<1>3. Tokens(res, E) \in Nat
  BY <1>2, TokensFinite
<1> QED
  BY <1>1, <1>3, LimitType DEF TpmAfterReclaim, Smaller

\* Both outcomes of a reserve call leave well-typed state behind.
LEMMA PersistType ==
  ASSUME TypeOK, NEW t \in Nat, NEW lease \in LeaseLengths,
         NEW bal \in Int, NEW reqs \in Int, NEW newLeases, NEW newRes,
         NEW E, Cardinality(E) \in Nat,
         DOMAIN newLeases \subseteq Rids, newLeases \in [DOMAIN newLeases -> Nat],
         DOMAIN newRes \subseteq Rids, newRes \in [DOMAIN newRes -> 0 .. TpmLimit],
         issued' \in SUBSET Rids, admits' \in Nat,
         Persist(t, lease, bal, reqs, newLeases, newRes, E)
  PROVE  TypeOK'
<1> now \in Nat
  BY DEF TypeOK
<1>1. Ttl(lease) \in Nat
  BY TtlFacts
<1>2. tpm' \in Budget /\ rpm' \in Budget /\ holdsExp' \in Int
  BY <1>1 DEF Persist, Budget
<1>3. Rewind(tpm, t) \in Nat /\ Rewind(rpm, t) \in Nat
  BY RewindFacts DEF TypeOK
<1>4. rewound' \in Nat /\ rpmRewound' \in Nat /\ reclaims' \in Nat
  <2>1. rewound \in Nat /\ rpmRewound \in Nat /\ reclaims \in Nat
    BY DEF TypeOK
  <2>2. /\ rewound' = rewound + Rewind(tpm, t)
        /\ rpmRewound' = rpmRewound + Rewind(rpm, t)
        /\ reclaims' = reclaims + Cardinality(E)
    BY DEF Persist
  <2> QED
    BY <1>3, <2>1, <2>2
<1>5. /\ DOMAIN leases' \subseteq Rids /\ leases' \in [DOMAIN leases' -> Nat]
      /\ DOMAIN res' \subseteq Rids /\ res' \in [DOMAIN res' -> 0 .. TpmLimit]
  BY DEF Persist
<1> QED
  BY <1>2, <1>4, <1>5 DEF Persist, TypeOK

\* Removing entries from, and adding one to, a partial function on Rids.
LEMMA MapType ==
  ASSUME NEW T, NEW f, DOMAIN f \subseteq Rids, f \in [DOMAIN f -> T], NEW S
  PROVE  /\ DOMAIN Without(f, S) = DOMAIN f \ S
         /\ DOMAIN Without(f, S) \subseteq Rids
         /\ Without(f, S) \in [DOMAIN Without(f, S) -> T]
         /\ \A r \in DOMAIN f \ S : Without(f, S)[r] = f[r]
         /\ \A r \in Rids, v \in T :
              /\ DOMAIN With(f, r, v) = DOMAIN f \cup {r}
              /\ DOMAIN With(f, r, v) \subseteq Rids
              /\ With(f, r, v) \in [DOMAIN With(f, r, v) -> T]
              /\ With(f, r, v)[r] = v
              /\ \A x \in DOMAIN f \ {r} : With(f, r, v)[x] = f[x]
BY DEF Without, With

\* An admission keeps every variable's shape: a hold is within the budget because
\* the cascade turns away what is not.
LEMMA AdmitType ==
  ASSUME TypeOK, NEW r \in Rids, NEW t \in Readings, NEW n \in Nat, NEW slo,
         NEW lease \in LeaseLengths, NEW E \in ReclaimSets(t),
         Admit(r, t, n, slo, lease, E)
  PROVE  TypeOK'
<1> DEFINE bal  == TpmAfterReclaim(t, E)
           reqs == Refill(rpm, RpmLimit, RpmRate, t)
           kept == Without(leases, E)
           left == Without(res, E)
<1>1. t \in Nat /\ n \in Nat /\ lease \in Nat /\ E \in SUBSET Rids /\ Cardinality(E) \in Nat
  BY ReadingFacts, InputAssumption, TtlFacts, ReclaimFacts DEF TypeOK
<1>2. bal \in Int
  BY <1>1, AdmissionBalance
<1>3. reqs \in Int
  BY <1>1, RefillFacts, LimitType, RateAssumption DEF TypeOK
<1>4. n \in 0 .. TpmLimit
  BY <1>1, DecisionAdmit, LimitType DEF Admit
<1>5. /\ DOMAIN kept \subseteq Rids /\ kept \in [DOMAIN kept -> Nat]
      /\ DOMAIN left \subseteq Rids /\ left \in [DOMAIN left -> 0 .. TpmLimit]
  BY MapType DEF TypeOK
<1>6. t + lease \in Nat
  BY <1>1
<1> HIDE DEF kept, left
<1>7. /\ DOMAIN With(kept, r, t + lease) \subseteq Rids
      /\ With(kept, r, t + lease) \in [DOMAIN With(kept, r, t + lease) -> Nat]
  BY <1>5, <1>6, MapType
<1>8. /\ DOMAIN With(left, r, n) \subseteq Rids
      /\ With(left, r, n) \in [DOMAIN With(left, r, n) -> 0 .. TpmLimit]
  BY <1>4, <1>5, MapType
<1>9. issued' \in SUBSET Rids /\ admits' \in Nat
  BY DEF Admit, TypeOK
<1> HIDE DEF bal, reqs
<1>10. bal - n \in Int /\ reqs - RpmUnit \in Int
  BY <1>1, <1>2, <1>3, RateAssumption
<1>11. Persist(t, lease, bal - n, reqs - RpmUnit, With(kept, r, t + lease), With(left, r, n), E)
  BY DEF Admit, bal, reqs, kept, left
<1> QED
  BY <1>1, <1>7, <1>8, <1>9, <1>10, <1>11, PersistType

\* So does a shed request, which still sweeps and refills.
LEMMA ShedType ==
  ASSUME TypeOK, NEW t \in Readings, NEW n \in Nat, NEW slo,
         NEW lease \in LeaseLengths, NEW E \in ReclaimSets(t),
         Shed(t, n, slo, lease, E)
  PROVE  TypeOK'
<1> DEFINE bal  == TpmAfterReclaim(t, E)
           reqs == Refill(rpm, RpmLimit, RpmRate, t)
           kept == Without(leases, E)
           left == Without(res, E)
<1>1. t \in Nat /\ E \in SUBSET Rids /\ Cardinality(E) \in Nat
  BY ReadingFacts, ReclaimFacts DEF TypeOK
<1>2. bal \in Int
  BY <1>1, AdmissionBalance
<1>3. reqs \in Int
  BY <1>1, RefillFacts, LimitType, RateAssumption DEF TypeOK
<1>4. /\ DOMAIN kept \subseteq Rids /\ kept \in [DOMAIN kept -> Nat]
      /\ DOMAIN left \subseteq Rids /\ left \in [DOMAIN left -> 0 .. TpmLimit]
  BY MapType DEF TypeOK
<1>5. issued' \in SUBSET Rids /\ admits' \in Nat
  BY DEF Shed, TypeOK
<1>6. Persist(t, lease, bal, reqs, kept, left, E)
  BY DEF Shed
<1> HIDE DEF bal, reqs, kept, left
<1> QED
  BY <1>1, <1>2, <1>3, <1>4, <1>5, <1>6, PersistType

\* The statistics a commit writes are natural numbers again.
LEMMA StatsType ==
  ASSUME TypeOK, NEW service \in Nat, NEW output \in Nat, NEW ttl \in Nat
  PROVE  StatsAfter(service, output, ttl) \in [svc : Nat, out : Nat, peak : Nat, exp : Int]
<1>1. stats.svc \in Nat /\ stats.out \in Nat /\ stats.peak \in Nat /\ now \in Nat
  BY DEF TypeOK
<1>2. Ewma(stats.svc, service) \in Nat /\ Ewma(stats.out, output) \in Nat
  BY <1>1, EwmaType
<1> QED
  BY <1>1, <1>2 DEF StatsAfter, NoStats, Larger

\* A commit keeps every variable's shape, whether or not its hold is still there.
LEMMA SettleType ==
  ASSUME TypeOK, NEW r \in Rids, NEW t \in Readings, NEW prompt \in Nat, NEW output \in Nat,
         NEW service \in Nat, NEW lease \in LeaseLengths,
         Settle(r, t, prompt, output, service, lease)
  PROVE  TypeOK'
<1>1. t \in Nat /\ now \in Nat /\ Ttl(lease) \in Nat
  BY ReadingFacts, TtlFacts DEF TypeOK
<1>2. /\ DOMAIN leases' \subseteq Rids /\ leases' \in [DOMAIN leases' -> Nat]
      /\ DOMAIN res' \subseteq Rids /\ res' \in [DOMAIN res' -> 0 .. TpmLimit]
  BY MapType DEF Settle, LeasesWithout, TypeOK
<1>3. holdsExp' \in Int
  BY DEF Settle, TypeOK
<1>4. Refund(r, prompt + output) \in Int
  BY LimitType DEF Refund, TypeOK
<1>5. Refill(tpm, TpmLimit, TpmRate, t) \in Int
  BY <1>1, RefillFacts, LimitType, RateAssumption DEF TypeOK
<1>6. tpm' \in Budget
  BY <1>1, <1>4, <1>5, LimitType DEF Settle, CurrentBalance, Budget, Smaller
<1>7. now + IdempotencyTtl \in Nat
  BY <1>1, PolicyAssumption
<1>8. DOMAIN settled' \subseteq Rids /\ settled' \in [DOMAIN settled' -> Nat]
  <2>1. DOMAIN settled \subseteq Rids /\ settled \in [DOMAIN settled -> Nat]
    BY DEF TypeOK
  <2>2. settled' = With(settled, r, now + IdempotencyTtl)
    BY DEF Settle
  <2>3. /\ DOMAIN With(settled, r, now + IdempotencyTtl) \subseteq Rids
        /\ With(settled, r, now + IdempotencyTtl)
             \in [DOMAIN With(settled, r, now + IdempotencyTtl) -> Nat]
    BY <1>7, <2>1, MapType
  <2> QED
    BY <2>2, <2>3, Zenon
<1>9. stats' \in [svc : Nat, out : Nat, peak : Nat, exp : Int]
  BY <1>1, StatsType DEF Settle
<1>10. Rewind(tpm, t) \in Nat
  BY <1>1, RewindFacts DEF TypeOK
<1>11. /\ settles' \in Nat /\ lates' \in Nat /\ charged' \in Nat /\ rewound' \in Nat
       /\ charges' \in [Rids -> Nat] /\ settledAt' \in [Rids -> Nat]
  <2>1. /\ settles \in Nat /\ lates \in Nat /\ charged \in Nat /\ rewound \in Nat
        /\ charges \in [Rids -> Nat] /\ settledAt \in [Rids -> Nat]
    BY DEF TypeOK
  <2>2. /\ settles' = settles + 1 /\ lates' = lates + (IF Late(r) THEN 1 ELSE 0)
        /\ charged' = charged + (prompt + output) /\ rewound' = rewound + Rewind(tpm, t)
        /\ charges' = [charges EXCEPT ![r] = @ + 1]
        /\ settledAt' = [settledAt EXCEPT ![r] = IF charges[r] = 0 THEN now ELSE @]
    BY DEF Settle
  <2> QED
    BY <1>1, <1>10, <2>1, <2>2
<1>12. UNCHANGED <<now, rpm, issued, admits, reclaims, rpmRewound, forgiven, dropped>>
  BY DEF Settle
<1> QED
  BY <1>2, <1>3, <1>6, <1>8, <1>9, <1>11, <1>12 DEF TypeOK

\* The passing of time, and the keys it expires, keep every variable's shape.
LEMMA TickType ==
  ASSUME TypeOK, Tick
  PROVE  TypeOK'
<1>1. now \in Nat /\ now' \in Nat /\ now' = now + 1
  BY DEF Tick, TypeOK
<1>2. tpm' \in Budget /\ rpm' \in Budget /\ holdsExp' \in Int
  BY DEF Tick, TypeOK, NoBudget, Budget
<1>3. /\ DOMAIN leases' \subseteq Rids /\ leases' \in [DOMAIN leases' -> Nat]
      /\ DOMAIN res' \subseteq Rids /\ res' \in [DOMAIN res' -> 0 .. TpmLimit]
  BY DEF Tick, TypeOK, Nothing
<1>4. DOMAIN settled' \subseteq Rids /\ settled' \in [DOMAIN settled' -> Nat]
  BY MapType DEF Tick, TypeOK
<1>5. stats' \in [svc : Nat, out : Nat, peak : Nat, exp : Int]
  BY DEF Tick, TypeOK, NoStats
<1>6. /\ Refill(tpm, TpmLimit, TpmRate, now + 1) \in Int
      /\ Refill(tpm, TpmLimit, TpmRate, now + 1) <= TpmLimit
  BY <1>1, RefillFacts, LimitType, RateAssumption DEF TypeOK
<1>7. forgiven' \in Nat
  BY <1>6, LimitType DEF Tick, TypeOK
<1>8. IsFiniteSet(DOMAIN leases)
  BY RidsAssumption, FS_Subset DEF TypeOK
<1>9. Cardinality(DOMAIN leases) \in Nat
  BY <1>8, FS_CardinalityType
<1>10. dropped' \in Nat
  BY <1>9 DEF Tick, TypeOK
<1>11. UNCHANGED <<issued, outcomes, charges, settledAt, charged, rewound, rpmRewound>>
  BY DEF Tick
<1> QED
  BY <1>1, <1>2, <1>3, <1>4, <1>5, <1>7, <1>10, <1>11 DEF TypeOK, outcomes

\* An empty Redis has the right shape.
LEMMA InitType == Init => TypeOK
BY DEF Init, TypeOK, NoBudget, NoStats, Budget, Nothing

\* Every step of every call, and the passing of time, keeps the state well typed.
LEMMA NextType == TypeOK /\ [Next]_vars => TypeOK'
<1> SUFFICES ASSUME TypeOK, [Next]_vars
             PROVE  TypeOK'
  OBVIOUS
<1>1. CASE Reserve
  BY <1>1, AdmitType, ShedType, InputAssumption DEF Reserve
<1>2. CASE Commit
  <2>1. \A a \in Actuals : a[1] \in Nat /\ a[2] \in Nat
    BY InputAssumption
  <2>2. \A r \in Rids : Replay(r) => TypeOK'
    BY DEF Replay, TypeOK, vars, redisVars, outcomes, history
  <2> QED
    BY <1>2, <2>1, <2>2, SettleType, InputAssumption DEF Commit
<1>3. CASE Release
  BY <1>3, SettleType DEF Release
<1>4. CASE Tick
  BY <1>4, TickType
<1>5. CASE UNCHANGED vars
  BY <1>5 DEF TypeOK, vars, redisVars, outcomes, history
<1> QED
  BY <1>1, <1>2, <1>3, <1>4, <1>5 DEF Next

\* Type correctness: balances stay numbers, holds stay within the limit, the
\* ledger's maps range over issued ids, whatever calls interleave.
THEOREM TypeCorrect == Spec => []TypeOK
BY InitType, NextType, PTL DEF Spec

-----------------------------------------------------------------------------
(* The token ledger *)

\* Refill clocks never run ahead of the present.
ClocksBehind ==
  /\ Exists(tpm) => tpm.ts <= now
  /\ Exists(rpm) => rpm.ts <= now

\* Conservation as of the last write: the form that every script preserves.
TokenLedger ==
  IF Exists(tpm)
  THEN tpm.bal + Held + charged <= TpmLimit + TpmRate * (tpm.ts + rewound) + forgiven
  ELSE Held + charged <= TpmRate * (now + rewound) + forgiven

LedgerInv == TypeOK /\ LedgerConsistent /\ ClocksBehind /\ TokenLedger

\* What is held is a natural number; taking a set of holds out, or putting a
\* fresh one in, changes it by exactly their tokens.
LEMMA HeldFacts ==
  ASSUME TypeOK
  PROVE  /\ IsFiniteSet(DOMAIN res)
         /\ Held \in Nat
         /\ \A E \in SUBSET DOMAIN res :
              /\ Tokens(res, E) \in Nat
              /\ Tokens(Without(res, E), DOMAIN Without(res, E)) \in Nat
              /\ Held = Tokens(Without(res, E), DOMAIN Without(res, E)) + Tokens(res, E)
<1>1. IsFiniteSet(DOMAIN res)
  BY RidsAssumption, FS_Subset DEF TypeOK
<1>2. Held \in Nat
  BY <1>1, TokensFinite DEF Held
<1>3. ASSUME NEW E \in SUBSET DOMAIN res
      PROVE  /\ Tokens(res, E) \in Nat
             /\ Tokens(Without(res, E), DOMAIN Without(res, E)) \in Nat
             /\ Held = Tokens(Without(res, E), DOMAIN Without(res, E)) + Tokens(res, E)
  <2> DEFINE R == DOMAIN res \ E
  <2>1. IsFiniteSet(E) /\ IsFiniteSet(R)
    BY <1>1, FS_Subset
  <2>2. DOMAIN Without(res, E) = R /\ \A x \in R : Without(res, E)[x] = res[x]
    BY DEF Without
  <2>3. R \cap E = {} /\ R \cup E = DOMAIN res
    OBVIOUS
  <2> HIDE DEF R
  <2>4. Tokens(res, E) \in Nat /\ Tokens(Without(res, E), R) \in Nat
    BY <2>1, TokensFinite
  <2>5. Tokens(Without(res, E), R) = Tokens(res, R)
    BY <2>2, TokensSame
  <2>6. Tokens(res, R \cup E) = Tokens(res, R) + Tokens(res, E)
    BY <2>1, <2>3, TokensSplit
  <2> QED
    BY <2>2, <2>3, <2>4, <2>5, <2>6 DEF Held
<1> QED
  BY <1>1, <1>2, <1>3

\* A new hold of n tokens raises the sum of the holds by n.
LEMMA HeldAdd ==
  ASSUME NEW f, NEW r \in Rids, NEW n \in 0 .. TpmLimit,
         DOMAIN f \subseteq Rids, f \in [DOMAIN f -> 0 .. TpmLimit], r \notin DOMAIN f
  PROVE  Tokens(With(f, r, n), DOMAIN With(f, r, n)) = Tokens(f, DOMAIN f) + n
<1> DEFINE g == With(f, r, n)
<1>1. IsFiniteSet(DOMAIN f)
  BY RidsAssumption, FS_Subset
<1>2. /\ DOMAIN g = DOMAIN f \cup {r} /\ g[r] = n
      /\ \A x \in DOMAIN f : g[x] = f[x]
  BY DEF With
<1> HIDE DEF g
<1>3. IsFiniteSet({r})
  BY FS_Singleton
<1>4. Tokens(g, DOMAIN f \cup {r}) = Tokens(g, DOMAIN f) + Tokens(g, {r})
  BY <1>1, <1>3, TokensSplit
<1>5. Tokens(g, {r}) = n
  BY <1>2, TokensSingle
<1>6. Tokens(g, DOMAIN f) = Tokens(f, DOMAIN f)
  BY <1>2, TokensSame
<1>7. Tokens(g, DOMAIN g) = Tokens(f, DOMAIN f) + n
  BY <1>2, <1>4, <1>5, <1>6
<1> QED
  BY <1>7 DEF g

\* What was spent from a budget is covered, as of its last write.
Covered(b, cap, rate, spent, rw) ==
  IF Exists(b) THEN b.bal + spent <= cap + rate * (b.ts + rw)
               ELSE spent <= rate * (now + rw)

\* The heart of the argument, for either budget: if what was spent was covered
\* at the last write, a balance refilled up to t is covered too, once the ticks
\* by which writing it at t moves the refill clock back are counted.
LEMMA CoveredRefill ==
  ASSUME NEW b \in Budget, NEW cap \in Nat, NEW rate \in Nat, NEW spent \in Int, NEW rw \in Nat,
         NEW t \in Nat, now \in Nat, t <= now,
         Covered(b, cap, rate, spent, rw)
  PROVE  Refill(b, cap, rate, t) + spent <= cap + rate * (t + (rw + Rewind(b, t)))
<1> DEFINE B == Refill(b, cap, rate, t)
           W == Rewind(b, t)
<1>1. b.bal \in Int /\ b.ts \in Nat
  BY DEF Budget
<1>2. B \in Int
  BY RefillFacts
<1>3. CASE Exists(b)
  <2> DEFINE gain == Larger(0, t - b.ts)
  <2>1. B <= b.bal + gain * rate
    BY <1>3, RefillFacts
  <2>2. gain \in Nat /\ W \in Nat /\ t + W = b.ts + gain
    BY <1>1, <1>3 DEF Rewind, Larger
  <2> HIDE DEF gain, B, W
  <2>3. t + (rw + W) = (b.ts + rw) + gain
    BY <1>1, <2>2
  <2>4. rate * ((b.ts + rw) + gain) = rate * (b.ts + rw) + gain * rate
    BY <1>1, <2>2
  <2> DEFINE X == rate * (b.ts + rw)
             Y == gain * rate
  <2>5. X \in Int /\ Y \in Int
    BY <1>1, <2>2
  <2>6. b.bal + spent <= cap + X
    BY <1>3 DEF Covered
  <2> HIDE DEF X, Y
  <2>7. B + spent <= cap + (X + Y)
    BY <1>1, <1>2, <2>1, <2>5, <2>6 DEF Y
  <2> QED
    BY <2>3, <2>4, <2>7 DEF X, Y, B, W
<1>4. CASE ~Exists(b)
  <2>1. B = cap
    BY <1>4, RefillFacts
  <2>2. t + (rw + W) = now + rw
    BY <1>4 DEF Rewind, Larger
  <2> DEFINE X == rate * (now + rw)
  <2>3. X \in Int /\ spent <= X
    BY <1>4 DEF Covered
  <2> HIDE DEF B, W, X
  <2>4. B + spent <= cap + X
    BY <2>1, <2>3
  <2> QED
    BY <2>2, <2>4 DEF X, B, W
<1> QED
  BY <1>3, <1>4

\* The ledger inequality at the time t a call carries: what the refill reads at t,
\* with holds and charges, is paid for by the accrual up to t and the ticks rewound.
LEMMA RefillCovered ==
  ASSUME TypeOK, TokenLedger, NEW t \in Nat, t <= now
  PROVE  Refill(tpm, TpmLimit, TpmRate, t) + Held + charged
           <= TpmLimit + TpmRate * (t + (rewound + Rewind(tpm, t))) + forgiven
<1> DEFINE spent == Held + charged - forgiven
<1>1. /\ now \in Nat /\ tpm \in Budget /\ tpm.bal \in Int /\ tpm.ts \in Nat
      /\ charged \in Nat /\ rewound \in Nat /\ forgiven \in Nat
  BY DEF TypeOK, Budget
<1>2. Held \in Nat /\ TpmLimit \in Nat /\ TpmRate \in Nat
  BY HeldFacts, LimitType, RateAssumption
<1>3. spent \in Int
  BY <1>1, <1>2
<1>4. \A u \in Int, v \in Int : u + Held + charged <= v + forgiven <=> u + spent <= v
  BY <1>1, <1>2
<1>5. /\ TpmRate * (tpm.ts + rewound) \in Int /\ TpmRate * (now + rewound) \in Int
      /\ TpmLimit + TpmRate * (tpm.ts + rewound) \in Int
  BY <1>1, <1>2
<1>6. Covered(tpm, TpmLimit, TpmRate, spent, rewound)
  <2>1. CASE Exists(tpm)
    BY <1>1, <1>4, <1>5, <2>1 DEF TokenLedger, Covered
  <2>2. CASE ~Exists(tpm)
    <3>1. Held + charged <= TpmRate * (now + rewound) + forgiven
      BY <2>2 DEF TokenLedger
    <3> QED
      BY <1>1, <1>2, <1>5, <2>2, <3>1 DEF Covered
  <2> QED
    BY <2>1, <2>2
<1> HIDE DEF spent
<1>7. Refill(tpm, TpmLimit, TpmRate, t) + spent
        <= TpmLimit + TpmRate * (t + (rewound + Rewind(tpm, t)))
  BY <1>1, <1>2, <1>3, <1>6, CoveredRefill
<1>8. Refill(tpm, TpmLimit, TpmRate, t) \in Int /\ Rewind(tpm, t) \in Nat
  BY <1>1, <1>2, RefillFacts, RewindFacts
<1>9. TpmLimit + TpmRate * (t + (rewound + Rewind(tpm, t))) \in Int
  BY <1>1, <1>2, <1>8
<1> QED
  BY <1>4, <1>7, <1>8, <1>9

\* A reserve call keeps the ledger covered when the balance it writes and the
\* holds it leaves are within what it read.
LEMMA PersistLedger ==
  ASSUME LedgerInv, TypeOK', NEW t \in Readings, NEW lease \in LeaseLengths,
         NEW bal \in Int, NEW reqs, NEW newLeases, NEW newRes, NEW E,
         Persist(t, lease, bal, reqs, newLeases, newRes, E),
         bal + Tokens(newRes, DOMAIN newRes)
           <= Refill(tpm, TpmLimit, TpmRate, t) + Held
  PROVE  ClocksBehind' /\ TokenLedger'
<1>1. t \in Nat /\ t <= now /\ now \in Nat /\ Ttl(lease) \in Nat
  BY ReadingFacts, TtlFacts DEF LedgerInv, TypeOK
<1>2. /\ now' = now /\ res' = newRes /\ charged' = charged /\ forgiven' = forgiven
      /\ tpm' = [bal |-> bal, ts |-> t, exp |-> now + Ttl(lease)]
      /\ rpm' = [bal |-> reqs, ts |-> t, exp |-> now + Ttl(lease)]
      /\ rewound' = rewound + Rewind(tpm, t)
  BY DEF Persist
<1>3. Exists(tpm') /\ tpm'.ts = t /\ tpm'.bal = bal /\ rpm'.ts = t
  BY <1>1, <1>2 DEF Exists
<1>4. ClocksBehind'
  BY <1>1, <1>2, <1>3 DEF ClocksBehind
<1> DEFINE B == Refill(tpm, TpmLimit, TpmRate, t)
           H == Tokens(newRes, DOMAIN newRes)
           X == TpmLimit + TpmRate * (t + (rewound + Rewind(tpm, t))) + forgiven
<1>5. B + Held + charged <= X
  BY <1>1, RefillCovered DEF LedgerInv
<1>6. Held' = H
  BY <1>2 DEF Held
<1>7. H \in Nat
  <2>1. DOMAIN newRes \in SUBSET Rids
    BY <1>2 DEF TypeOK
  <2>2. IsFiniteSet(DOMAIN newRes)
    BY <2>1, RidsAssumption, FS_Subset
  <2> QED
    BY <2>2, TokensFinite
<1>8. B \in Int /\ Held \in Nat /\ charged \in Nat
  BY <1>1, RefillFacts, HeldFacts, LimitType, RateAssumption DEF LedgerInv, TypeOK
<1>9. X \in Int
  <2>1. rewound \in Nat /\ forgiven \in Nat
    BY DEF LedgerInv, TypeOK
  <2>2. Rewind(tpm, t) \in Nat
    BY <1>1, RewindFacts DEF LedgerInv, TypeOK
  <2> QED
    BY <1>1, <2>1, <2>2, LimitType, RateAssumption
<1> HIDE DEF B, H, X
<1>10. bal + H + charged <= X
  <2>1. bal + H <= B + Held
    BY DEF B, H
  <2> QED
    BY <1>5, <1>7, <1>8, <1>9, <2>1
<1>11. TokenLedger'
  BY <1>2, <1>3, <1>6, <1>10 DEF TokenLedger, X
<1> QED
  BY <1>4, <1>11

\* An admission turns balance into a hold, token for token, and reclaims at
\* most what the swept holds were worth.
LEMMA AdmitLedger ==
  ASSUME LedgerInv, NEW r \in Rids \ issued, NEW t \in Readings, NEW n \in Reserves, NEW slo,
         NEW lease \in LeaseLengths, NEW E \in ReclaimSets(t),
         Admit(r, t, n, slo, lease, E)
  PROVE  LedgerInv'
<1> DEFINE bal  == TpmAfterReclaim(t, E)
           reqs == Refill(rpm, RpmLimit, RpmRate, t)
           kept == Without(leases, E)
           left == Without(res, E)
<1>1. TypeOK'
  BY AdmitType, InputAssumption DEF LedgerInv
<1>2. t \in Nat /\ n \in Nat /\ E \in SUBSET Rids /\ E \subseteq DOMAIN res /\ now \in Nat
  BY ReadingFacts, InputAssumption, ReclaimFacts DEF LedgerInv, LedgerConsistent, TypeOK
<1>3. /\ bal \in Int /\ Tokens(res, E) \in Nat
      /\ bal <= Refill(tpm, TpmLimit, TpmRate, t) + Tokens(res, E)
  BY <1>2, AdmissionBalance DEF LedgerInv
<1>4. n \in 0 .. TpmLimit
  BY <1>2, DecisionAdmit, LimitType DEF Admit
<1>5. Persist(t, lease, bal - n, reqs - RpmUnit, With(kept, r, t + lease), With(left, r, n), E)
  BY DEF Admit
<1>6. DOMAIN left \subseteq Rids /\ left \in [DOMAIN left -> 0 .. TpmLimit] /\ r \notin DOMAIN left
  <2>1. DOMAIN left \subseteq Rids /\ left \in [DOMAIN left -> 0 .. TpmLimit]
    BY MapType DEF LedgerInv, TypeOK
  <2>2. r \notin DOMAIN left
    BY DEF Without, LedgerInv, LedgerConsistent
  <2> QED
    BY <2>1, <2>2
<1>7. /\ Tokens(left, DOMAIN left) \in Nat
      /\ Held = Tokens(left, DOMAIN left) + Tokens(res, E)
  BY <1>2, HeldFacts DEF LedgerInv
<1> HIDE DEF left
<1>8. Tokens(With(left, r, n), DOMAIN With(left, r, n)) = Tokens(left, DOMAIN left) + n
  BY <1>4, <1>6, HeldAdd
<1>9. Refill(tpm, TpmLimit, TpmRate, t) \in Int
  BY <1>2, RefillFacts, LimitType, RateAssumption DEF LedgerInv, TypeOK
<1> HIDE DEF bal, reqs, kept
<1>10. bal - n \in Int
  BY <1>2, <1>3
<1>11. (bal - n) + Tokens(With(left, r, n), DOMAIN With(left, r, n))
         <= Refill(tpm, TpmLimit, TpmRate, t) + Held
  BY <1>2, <1>3, <1>7, <1>8, <1>9
<1>12. ClocksBehind' /\ TokenLedger'
  BY <1>1, <1>5, <1>10, <1>11, PersistLedger
<1>13. LedgerConsistent'
  <2>1. /\ leases' = With(kept, r, t + lease) /\ res' = With(left, r, n)
        /\ settled' = settled /\ now' = now
        /\ holdsExp' = IF DOMAIN leases' = {} THEN -1 ELSE now + Ttl(lease)
    BY <1>5 DEF Persist
  <2>2. issued' = issued \cup {r}
    BY DEF Admit
  <2>3. DOMAIN leases' = (DOMAIN leases \ E) \cup {r} /\ DOMAIN res' = (DOMAIN res \ E) \cup {r}
    BY <2>1 DEF kept, left, Without, With
  <2>4. Ttl(lease) \in Nat
    BY TtlFacts
  <2>5. DOMAIN leases = DOMAIN res /\ DOMAIN leases \cap DOMAIN settled = {}
        /\ DOMAIN leases \cup DOMAIN settled \subseteq issued
    BY DEF LedgerInv, LedgerConsistent
  <2>6. holdsExp' >= now'
    BY <1>2, <2>1, <2>3, <2>4
  <2>7. DOMAIN leases' # {} /\ DOMAIN leases' = DOMAIN res'
    BY <2>3, <2>5
  <2>8. DOMAIN leases' \cap DOMAIN settled' = {}
    BY <2>1, <2>3, <2>5
  <2>9. DOMAIN leases' \cup DOMAIN settled' \subseteq issued'
    BY <2>1, <2>2, <2>3, <2>5
  <2> QED
    BY <2>6, <2>7, <2>8, <2>9 DEF LedgerConsistent
<1> QED
  BY <1>1, <1>12, <1>13 DEF LedgerInv

\* A call that is turned away still refills and reclaims, and only that.
LEMMA ShedLedger ==
  ASSUME LedgerInv, NEW t \in Readings, NEW n \in Reserves, NEW slo,
         NEW lease \in LeaseLengths, NEW E \in ReclaimSets(t),
         Shed(t, n, slo, lease, E)
  PROVE  LedgerInv'
<1> DEFINE bal  == TpmAfterReclaim(t, E)
           reqs == Refill(rpm, RpmLimit, RpmRate, t)
           kept == Without(leases, E)
           left == Without(res, E)
<1>1. TypeOK'
  BY ShedType, InputAssumption DEF LedgerInv
<1>2. t \in Nat /\ E \in SUBSET Rids /\ E \subseteq DOMAIN res /\ now \in Nat
  BY ReadingFacts, ReclaimFacts DEF LedgerInv, LedgerConsistent, TypeOK
<1>3. /\ bal \in Int /\ Tokens(res, E) \in Nat
      /\ bal <= Refill(tpm, TpmLimit, TpmRate, t) + Tokens(res, E)
  BY <1>2, AdmissionBalance DEF LedgerInv
<1>4. Persist(t, lease, bal, reqs, kept, left, E)
  BY DEF Shed
<1>5. /\ Tokens(left, DOMAIN left) \in Nat
      /\ Held = Tokens(left, DOMAIN left) + Tokens(res, E)
  BY <1>2, HeldFacts DEF LedgerInv
<1>6. Refill(tpm, TpmLimit, TpmRate, t) \in Int
  BY <1>2, RefillFacts, LimitType, RateAssumption DEF LedgerInv, TypeOK
<1> HIDE DEF bal, reqs, kept, left
<1>7. bal + Tokens(left, DOMAIN left) <= Refill(tpm, TpmLimit, TpmRate, t) + Held
  BY <1>3, <1>5, <1>6
<1>8. ClocksBehind' /\ TokenLedger'
  BY <1>1, <1>3, <1>4, <1>7, PersistLedger
<1>9. LedgerConsistent'
  <2>1. /\ leases' = kept /\ res' = left /\ settled' = settled /\ now' = now
        /\ holdsExp' = IF DOMAIN leases' = {} THEN -1 ELSE now + Ttl(lease)
    BY <1>4 DEF Persist
  <2>2. issued' = issued
    BY DEF Shed
  <2>3. DOMAIN leases' = DOMAIN leases \ E /\ DOMAIN res' = DOMAIN res \ E
    BY <2>1 DEF kept, left, Without
  <2>4. Ttl(lease) \in Nat
    BY TtlFacts
  <2>5. DOMAIN leases = DOMAIN res /\ DOMAIN leases \cap DOMAIN settled = {}
        /\ DOMAIN leases \cup DOMAIN settled \subseteq issued
    BY DEF LedgerInv, LedgerConsistent
  <2>6. (holdsExp' >= now') <=> (DOMAIN leases' # {})
    <3>1. CASE DOMAIN leases' = {}
      <4>1. holdsExp' = -1 /\ now' \in Nat
        BY <1>2, <2>1, <3>1
      <4>2. ~(holdsExp' >= now')
        BY <4>1
      <4> QED
        BY <3>1, <4>2
    <3>2. CASE DOMAIN leases' # {}
      <4>1. holdsExp' = now + Ttl(lease) /\ now' = now
        BY <2>1, <3>2
      <4>2. holdsExp' >= now'
        BY <1>2, <2>4, <4>1
      <4> QED
        BY <3>2, <4>2
    <3> QED
      BY <3>1, <3>2
  <2>7. /\ DOMAIN leases' = DOMAIN res'
        /\ DOMAIN leases' \cap DOMAIN settled' = {}
        /\ DOMAIN leases' \cup DOMAIN settled' \subseteq issued'
    BY <2>1, <2>2, <2>3, <2>5
  <2> QED
    BY <2>6, <2>7 DEF LedgerConsistent
<1> QED
  BY <1>1, <1>8, <1>9 DEF LedgerInv

\* A commit returns the hold, if it is still there, and charges the usage, in
\* one step; if the hold was reclaimed it only charges.
LEMMA SettleLedger ==
  ASSUME LedgerInv, NEW r \in issued, NEW t \in Readings, NEW prompt \in Nat, NEW output \in Nat,
         NEW service \in Nat, NEW lease \in LeaseLengths,
         Settle(r, t, prompt, output, service, lease)
  PROVE  LedgerInv'
<1> DEFINE actual == prompt + output
           held   == IF r \in DOMAIN res THEN res[r] ELSE 0
           left   == Without(res, {r})
           B      == Refill(tpm, TpmLimit, TpmRate, t)
           X      == TpmLimit + TpmRate * (t + (rewound + Rewind(tpm, t))) + forgiven
<1>1. TypeOK /\ r \in Rids
  BY DEF LedgerInv, TypeOK
<1>2. TypeOK'
  BY <1>1, SettleType
<1>3. t \in Nat /\ t <= now /\ now \in Nat /\ Ttl(lease) \in Nat
  BY <1>1, ReadingFacts, TtlFacts DEF TypeOK
<1>4. /\ now' = now /\ rpm' = rpm /\ issued' = issued /\ forgiven' = forgiven
      /\ res' = left
      /\ tpm' = [bal |-> Smaller(B + (held - actual), TpmLimit), ts |-> t, exp |-> now + Ttl(lease)]
      /\ charged' = charged + actual
      /\ rewound' = rewound + Rewind(tpm, t)
      /\ settled' = With(settled, r, now + IdempotencyTtl)
      /\ holdsExp' = IF DOMAIN leases' = {} THEN -1 ELSE holdsExp
  BY DEF Settle, CurrentBalance, Refund
<1>5. Exists(tpm') /\ tpm'.ts = t /\ tpm'.bal = Smaller(B + (held - actual), TpmLimit)
  BY <1>3, <1>4 DEF Exists
<1>6. ClocksBehind'
  BY <1>3, <1>4, <1>5 DEF LedgerInv, ClocksBehind
<1>7. held \in Nat /\ Held = Tokens(left, DOMAIN left) + held /\ Tokens(left, DOMAIN left) \in Nat
  <2>1. CASE r \in DOMAIN res
    <3>1. {r} \in SUBSET DOMAIN res /\ res[r] \in 0 .. TpmLimit
      BY <1>1, <2>1 DEF TypeOK
    <3>2. Tokens(res, {r}) = res[r]
      BY <3>1, TokensSingle
    <3>3. res[r] \in Nat
      BY <3>1, LimitType
    <3> QED
      BY <1>1, <2>1, <3>1, <3>2, <3>3, HeldFacts
  <2>2. CASE r \notin DOMAIN res
    <3>1. DOMAIN left = DOMAIN res /\ \A x \in DOMAIN res : left[x] = res[x]
      BY <2>2 DEF Without
    <3>2. Tokens(left, DOMAIN left) = Tokens(res, DOMAIN res)
      BY <3>1, TokensSame
    <3> QED
      BY <1>1, <2>2, <3>2, HeldFacts DEF Held
  <2> QED
    BY <2>1, <2>2
<1>8. Held' = Tokens(left, DOMAIN left)
  BY <1>4 DEF Held
<1>9. B + Held + charged <= X
  BY <1>3, RefillCovered DEF LedgerInv
<1>10. B \in Int /\ charged \in Nat /\ actual \in Nat
  <2>1. tpm \in Budget /\ charged \in Nat
    BY <1>1 DEF TypeOK
  <2>2. B \in Int
    BY <1>3, <2>1, RefillFacts, LimitType, RateAssumption
  <2> QED
    BY <2>1, <2>2
<1>11. X \in Int
  <2>1. rewound \in Nat /\ forgiven \in Nat
    BY <1>1 DEF TypeOK
  <2>2. Rewind(tpm, t) \in Nat
    BY <1>1, <1>3, RewindFacts DEF TypeOK
  <2> QED
    BY <1>3, <2>1, <2>2, LimitType, RateAssumption
<1> HIDE DEF actual, held, B, X
<1>12. tpm'.bal <= B + (held - actual) /\ tpm'.bal \in Int
  BY <1>5, <1>7, <1>10, LimitType DEF Smaller
<1>13. tpm'.bal + Tokens(left, DOMAIN left) + charged' <= X
  <2> DEFINE b == tpm'.bal
             T == Tokens(left, DOMAIN left)
  <2>1. b <= B + (held - actual) /\ b \in Int /\ T \in Nat /\ held \in Nat /\ Held = T + held
    BY <1>7, <1>12
  <2>2. charged' = charged + actual
    BY <1>4
  <2> HIDE DEF b, T
  <2>3. b + T + charged' <= X
    BY <1>9, <1>10, <1>11, <2>1, <2>2
  <2> QED
    BY <2>3 DEF b, T
<1>14. TokenLedger'
  BY <1>4, <1>5, <1>8, <1>13 DEF TokenLedger, X
<1>15. LedgerConsistent'
  <2>1. DOMAIN leases = DOMAIN res /\ DOMAIN leases \cap DOMAIN settled = {}
        /\ DOMAIN leases \cup DOMAIN settled \subseteq issued
        /\ (holdsExp >= now <=> DOMAIN leases # {})
    BY DEF LedgerInv, LedgerConsistent
  <2>2. /\ DOMAIN leases' = DOMAIN leases \ {r} /\ DOMAIN res' = DOMAIN res \ {r}
        /\ DOMAIN settled' = DOMAIN settled \cup {r}
    BY <1>4, <2>1 DEF Settle, LeasesWithout, Without, With
  <2>3. /\ DOMAIN leases' = DOMAIN res'
        /\ DOMAIN leases' \cap DOMAIN settled' = {}
        /\ DOMAIN leases' \cup DOMAIN settled' \subseteq issued'
    BY <1>4, <2>1, <2>2
  <2>4. CASE DOMAIN leases \subseteq {r}
    <3>1. holdsExp' = -1 /\ DOMAIN leases' = {} /\ now' \in Nat
      BY <1>3, <1>4, <2>2, <2>4
    <3>2. ~(holdsExp' >= now')
      BY <3>1
    <3> QED
      BY <2>3, <3>1, <3>2 DEF LedgerConsistent
  <2>5. CASE ~(DOMAIN leases \subseteq {r})
    <3>1. holdsExp' = holdsExp /\ DOMAIN leases' # {} /\ DOMAIN leases # {} /\ now' = now
      BY <1>4, <2>2, <2>5
    <3>2. holdsExp' >= now'
      BY <2>1, <3>1
    <3> QED
      BY <2>3, <3>1, <3>2 DEF LedgerConsistent
  <2> QED
    BY <2>4, <2>5
<1> QED
  BY <1>2, <1>6, <1>14, <1>15 DEF LedgerInv

\* When time passes, a lapsed budget key reads as full: what that gives away
\* beyond the accrual is what `forgiven' records.  Lapsed holds only vanish.
LEMMA TickLedger ==
  ASSUME LedgerInv, Tick
  PROVE  LedgerInv'
<1> DEFINE n == now + 1
           tpmGone   == Exists(tpm) /\ tpm.exp < n
           holdsGone == holdsExp >= 0 /\ holdsExp < n
           B == Refill(tpm, TpmLimit, TpmRate, n)
<1>1. TypeOK /\ TypeOK'
  BY TickType DEF LedgerInv
<1>2. /\ now \in Nat /\ n \in Nat /\ tpm \in Budget /\ tpm.ts \in Nat /\ tpm.bal \in Int
      /\ charged \in Nat /\ rewound \in Nat /\ forgiven \in Nat /\ holdsExp \in Int
      /\ Held \in Nat /\ TpmRate \in Nat /\ TpmLimit \in Nat
  BY <1>1, HeldFacts, LimitType, RateAssumption DEF TypeOK, Budget
<1>3. /\ now' = n
      /\ tpm' = IF tpmGone THEN NoBudget ELSE tpm
      /\ rpm' = IF rpm.exp < n THEN NoBudget ELSE rpm
      /\ leases' = IF holdsGone THEN Nothing ELSE leases
      /\ res' = IF holdsGone THEN Nothing ELSE res
      /\ holdsExp' = IF holdsGone THEN -1 ELSE holdsExp
      /\ settled' = Without(settled, {r \in DOMAIN settled : settled[r] < n})
      /\ forgiven' = forgiven + (IF tpmGone THEN TpmLimit - B ELSE 0)
      /\ charged' = charged /\ rewound' = rewound /\ issued' = issued
  BY DEF Tick
<1>4. ~Exists(NoBudget)
  BY DEF Exists, NoBudget
<1>5. ClocksBehind'
  <2>1. ClocksBehind /\ tpm.ts \in Nat /\ rpm.ts \in Nat
    BY <1>1 DEF LedgerInv, TypeOK, Budget
  <2>2. Exists(tpm') => tpm' = tpm
    BY <1>3, <1>4
  <2>3. Exists(rpm') => rpm' = rpm
    BY <1>3, <1>4
  <2> QED
    BY <1>2, <1>3, <2>1, <2>2, <2>3 DEF ClocksBehind
<1>6. Held' <= Held /\ Held' \in Nat
  <2>1. CASE holdsGone
    <3>1. res' = Nothing /\ DOMAIN Nothing = {}
      BY <1>3, <2>1 DEF Nothing
    <3>2. Held' = 0
      BY <3>1, TokensEmpty DEF Held
    <3> QED
      BY <1>2, <3>2
  <2>2. CASE ~holdsGone
    BY <1>2, <1>3, <2>2 DEF Held
  <2> QED
    BY <2>1, <2>2
<1>7. TokenLedger'
  <2>1. TokenLedger
    BY DEF LedgerInv
  <2>2. CASE tpmGone
    <3>1. Rewind(tpm, n) = 0
      BY <1>2, <2>2 DEF Rewind, Larger, LedgerInv, ClocksBehind
    <3> DEFINE gain == Larger(0, n - tpm.ts)
    <3>2. gain \in Nat /\ tpm.ts + gain = n
      BY <1>2, <2>2 DEF Larger, LedgerInv, ClocksBehind
    <3>3. B \in Int /\ B <= tpm.bal + gain * TpmRate
      BY <1>2, <2>2, RefillFacts
    <3>4. tpm.bal + Held + charged <= TpmLimit + TpmRate * (tpm.ts + rewound) + forgiven
      BY <2>1, <2>2 DEF TokenLedger
    <3> HIDE DEF gain, B
    <3>5. TpmRate * ((tpm.ts + rewound) + gain) = TpmRate * (tpm.ts + rewound) + gain * TpmRate
      BY <1>2, <3>2
    <3>6. (tpm.ts + rewound) + gain = n + rewound
      BY <1>2, <3>2
    <3> DEFINE X == TpmRate * (tpm.ts + rewound)
               Y == gain * TpmRate
               Z == TpmRate * (n + rewound)
    <3>7. X \in Int /\ Y \in Int /\ Z \in Int /\ Z = X + Y
      BY <1>2, <3>2, <3>5, <3>6
    <3>8. tpm.bal + Held + charged <= TpmLimit + X + forgiven /\ B <= tpm.bal + Y
      BY <3>3, <3>4
    <3> HIDE DEF X, Y, Z
    <3>9. forgiven' = forgiven + (TpmLimit - B)
      BY <1>3, <2>2 DEF B
    <3>10. Held' + charged <= Z + forgiven'
      <4>1. /\ Held \in Nat /\ charged \in Nat /\ forgiven \in Nat /\ TpmLimit \in Nat
            /\ tpm.bal \in Int
        BY <1>2
      <4>2. B + Held + charged <= TpmLimit + Z + forgiven
        BY <3>3, <3>7, <3>8, <4>1
      <4>3. Z \in Int /\ B \in Int
        BY <3>3, <3>7
      <4>4. \A h \in Nat : h <= Held => h + charged <= Z + (forgiven + (TpmLimit - B))
        BY <4>1, <4>2, <4>3
      <4> QED
        BY <1>6, <3>9, <4>4
    <3>11. ~Exists(tpm')
      BY <1>3, <1>4, <2>2
    <3> QED
      BY <1>3, <3>10, <3>11 DEF TokenLedger, Z
  <2>3. CASE ~tpmGone
    <3>1. tpm' = tpm /\ forgiven' = forgiven
      BY <1>2, <1>3, <2>3
    <3>2. CASE Exists(tpm)
      <4> DEFINE X == TpmRate * (tpm.ts + rewound)
      <4>1. tpm.bal + Held + charged <= TpmLimit + X + forgiven
        BY <2>1, <3>2 DEF TokenLedger
      <4>2. X \in Int
        BY <1>2
      <4> HIDE DEF X
      <4>3. tpm.bal + Held' + charged <= TpmLimit + X + forgiven
        BY <1>2, <1>6, <4>1, <4>2
      <4> QED
        BY <1>3, <3>1, <3>2, <4>3 DEF TokenLedger, X
    <3>3. CASE ~Exists(tpm)
      <4> DEFINE X == TpmRate * (now + rewound)
                 Z == TpmRate * (n + rewound)
      <4>1. Held + charged <= X + forgiven
        BY <2>1, <3>3 DEF TokenLedger
      <4>2. X \in Int /\ Z \in Int /\ X <= Z
        BY <1>2
      <4> HIDE DEF X, Z
      <4>3. Held \in Nat /\ charged \in Nat /\ forgiven \in Nat /\ TpmRate \in Nat
        BY <1>2
      <4>4. \A h \in Nat : h <= Held => h + charged <= Z + forgiven
        BY <4>1, <4>2, <4>3
      <4>5. Held' + charged <= Z + forgiven
        BY <1>6, <4>4
      <4> QED
        BY <1>3, <3>1, <3>3, <4>5 DEF TokenLedger, Z
    <3> QED
      BY <3>2, <3>3
  <2> QED
    BY <2>2, <2>3
<1>8. LedgerConsistent'
  <2>1. DOMAIN leases = DOMAIN res /\ DOMAIN leases \cap DOMAIN settled = {}
        /\ DOMAIN leases \cup DOMAIN settled \subseteq issued
        /\ (holdsExp >= now <=> DOMAIN leases # {})
    BY DEF LedgerInv, LedgerConsistent
  <2>2. DOMAIN settled' \subseteq DOMAIN settled
    BY <1>3 DEF Without
  <2>3. CASE holdsGone
    <3>1. DOMAIN leases' = {} /\ DOMAIN res' = {} /\ holdsExp' = -1
      BY <1>3, <2>3 DEF Nothing
    <3>2. ~(holdsExp' >= now')
      BY <1>2, <1>3, <3>1
    <3> QED
      BY <1>3, <2>1, <2>2, <3>1, <3>2 DEF LedgerConsistent
  <2>4. CASE ~holdsGone
    <3>1. leases' = leases /\ res' = res /\ holdsExp' = holdsExp
      BY <1>3, <2>4
    <3>2. holdsExp' >= now' <=> holdsExp >= now
      BY <1>2, <1>3, <2>4, <3>1
    <3> QED
      BY <1>3, <2>1, <2>2, <3>1, <3>2 DEF LedgerConsistent
  <2> QED
    BY <2>3, <2>4
<1> QED
  BY <1>1, <1>5, <1>7, <1>8 DEF LedgerInv

\* An empty Redis satisfies the ledger invariant.
LEMMA InitLedger == Init => LedgerInv
<1> SUFFICES ASSUME Init PROVE LedgerInv
  OBVIOUS
<1>1. TypeOK
  BY InitType
<1>2. /\ ~Exists(tpm) /\ ~Exists(rpm) /\ DOMAIN res = {} /\ DOMAIN leases = {}
      /\ DOMAIN settled = {} /\ holdsExp = -1 /\ now = 0
      /\ charged = 0 /\ rewound = 0 /\ forgiven = 0
  BY DEF Init, NoBudget, Exists, Nothing
<1>3. Held = 0
  BY <1>2, TokensEmpty DEF Held
<1>4. TokenLedger
  <2>1. TpmRate * (0 + 0) = 0
    BY RateAssumption
  <2>2. Held + charged <= TpmRate * (now + rewound) + forgiven
    BY <1>2, <1>3, <2>1
  <2> QED
    BY <1>2, <2>2 DEF TokenLedger
<1>5. LedgerConsistent
  BY <1>2 DEF LedgerConsistent
<1> QED
  BY <1>1, <1>2, <1>4, <1>5 DEF LedgerInv, ClocksBehind

\* A step that changes nothing keeps the ledger.
LEMMA StutterLedger == LedgerInv /\ UNCHANGED vars => LedgerInv'
<1> SUFFICES ASSUME LedgerInv, UNCHANGED vars PROVE LedgerInv'
  OBVIOUS
<1>1. TypeOK'
  BY NextType DEF LedgerInv
<1>2. UNCHANGED <<now, tpm, rpm, leases, res, holdsExp, settled, issued, charged, rewound, forgiven>>
  BY DEF vars, redisVars, history
<1> QED
  BY <1>1, <1>2 DEF LedgerInv, LedgerConsistent, ClocksBehind, TokenLedger, Exists, Held

\* Every step of the specification preserves the ledger invariant.
LEMMA NextLedger == LedgerInv /\ [Next]_vars => LedgerInv'
<1> SUFFICES ASSUME LedgerInv, [Next]_vars
             PROVE  LedgerInv'
  OBVIOUS
<1>1. CASE Reserve
  BY <1>1, AdmitLedger, ShedLedger DEF Reserve
<1>2. CASE Commit
  <2>1. \A a \in Actuals : a[1] \in Nat /\ a[2] \in Nat
    BY InputAssumption
  <2>2. \A r \in Rids : Replay(r) => LedgerInv'
    BY StutterLedger DEF Replay
  <2> QED
    BY <1>2, <2>1, <2>2, SettleLedger, InputAssumption DEF Commit, MayCall
<1>3. CASE Release
  BY <1>3, SettleLedger DEF Release, MayCall
<1>4. CASE Tick
  BY <1>4, TickLedger
<1>5. CASE UNCHANGED vars
  BY <1>5, StutterLedger
<1> QED
  BY <1>1, <1>2, <1>3, <1>4, <1>5 DEF Next

\* The ledger invariant holds in every reachable state.
LEMMA LedgerInvariant == Spec => []LedgerInv
BY InitLedger, NextLedger, PTL DEF Spec

\* The lease set and the reservation hash never disagree, and no settled
\* reservation still holds tokens, under any interleaving of calls, lost
\* clients, retries and key expiries.
THEOREM LedgerIsConsistent == Spec => []LedgerConsistent
<1>1. LedgerInv => LedgerConsistent
  BY DEF LedgerInv
<1> QED
  BY <1>1, LedgerInvariant, PTL

\* No tokens out of nowhere, for any number of reservations, any limit, lease,
\* sweep batch, lag and retry behaviour.
THEOREM TokensConserved == Spec => []Conservation
<1>1. LedgerInv => Conservation
  <2> SUFFICES ASSUME LedgerInv PROVE Conservation
    OBVIOUS
  <2>1. now \in Nat /\ rewound \in Nat
    BY DEF LedgerInv, TypeOK
  <2>2. Rewind(tpm, now) = 0
    BY <2>1 DEF Rewind, Larger, LedgerInv, ClocksBehind, TypeOK, Budget
  <2>3. Refill(tpm, TpmLimit, TpmRate, now) + Held + charged
          <= TpmLimit + TpmRate * (now + (rewound + Rewind(tpm, now))) + forgiven
    BY <2>1, RefillCovered DEF LedgerInv
  <2>4. rewound + Rewind(tpm, now) = rewound
    BY <2>1, <2>2
  <2> QED
    BY <2>3, <2>4 DEF Conservation
<1> QED
  BY <1>1, LedgerInvariant, PTL

-----------------------------------------------------------------------------
(* In-flight accounting and its bound *)

\* Occupancy is a natural number.
LEMMA InflightType ==
  ASSUME TypeOK
  PROVE  IsFiniteSet(DOMAIN leases) /\ Inflight \in Nat
<1>1. IsFiniteSet(DOMAIN leases)
  BY RidsAssumption, FS_Subset DEF TypeOK
<1> QED
  BY <1>1, FS_CardinalityType DEF Inflight

\* A sweep takes exactly its own leases out.
LEMMA SweepCount ==
  ASSUME TypeOK, NEW E, E \subseteq DOMAIN leases
  PROVE  /\ IsFiniteSet(DOMAIN leases \ E)
         /\ Cardinality(DOMAIN leases \ E) \in Nat
         /\ Cardinality(E) \in Nat
         /\ Inflight = Cardinality(DOMAIN leases \ E) + Cardinality(E)
<1>1. IsFiniteSet(DOMAIN leases) /\ IsFiniteSet(E)
  BY InflightType, FS_Subset
<1>2. /\ IsFiniteSet(DOMAIN leases \ E)
      /\ Cardinality(DOMAIN leases \ E)
           = Cardinality(DOMAIN leases) - Cardinality(DOMAIN leases \cap E)
  BY <1>1, FS_Difference
<1>3. DOMAIN leases \cap E = E
  OBVIOUS
<1>4. Cardinality(DOMAIN leases) \in Nat /\ Cardinality(E) \in Nat
      /\ Cardinality(DOMAIN leases \ E) \in Nat
  BY <1>1, <1>2, FS_CardinalityType
<1>5. Cardinality(DOMAIN leases \ E) = Cardinality(DOMAIN leases) - Cardinality(E)
  BY <1>2, <1>3
<1>6. Inflight = Cardinality(DOMAIN leases \ E) + Cardinality(E)
  BY <1>4, <1>5 DEF Inflight
<1> QED
  BY <1>2, <1>4, <1>6

FlowInv == EveryHoldLeavesOnce /\ InflightBounded

\* An admission sweeps E, adds one hold and counts one admission: the flow equation
\* and the occupancy bound survive.
LEMMA AdmitFlow ==
  ASSUME LedgerInv, FlowInv, NEW r \in Rids \ issued, NEW t \in Readings, NEW n, NEW slo,
         NEW lease, NEW E \in ReclaimSets(t),
         Admit(r, t, n, slo, lease, E)
  PROVE  FlowInv'
<1> DEFINE K == DOMAIN leases \ E
<1>1. TypeOK /\ E \subseteq DOMAIN leases
  BY ReclaimFacts DEF LedgerInv
<1>2. DOMAIN Without(leases, E) = K /\ DOMAIN leases' = K \cup {r}
  BY DEF Admit, Persist, Without, With
<1>3. /\ reclaims' = reclaims + Cardinality(E) /\ admits' = admits + 1
      /\ settles' = settles /\ lates' = lates /\ dropped' = dropped
  BY DEF Admit, Persist
<1>4. r \notin K
  BY DEF LedgerInv, LedgerConsistent
<1>5. /\ IsFiniteSet(K) /\ Cardinality(K) \in Nat /\ Cardinality(E) \in Nat
      /\ Inflight = Cardinality(K) + Cardinality(E)
  BY <1>1, SweepCount
<1>6. ~(Cardinality(K) >= MaxConcurrency + MaxQueueDepth)
  BY <1>2, DecisionAdmit DEF Admit
<1> HIDE DEF K
<1>7. Inflight' = Cardinality(K) + 1
  BY <1>2, <1>4, <1>5, FS_AddElement DEF Inflight
<1>8. InflightBounded'
  BY <1>5, <1>6, <1>7, PolicyAssumption DEF InflightBounded
<1>9. /\ admits \in Nat /\ settles \in Nat /\ lates \in Nat /\ reclaims \in Nat /\ dropped \in Nat
  BY <1>1 DEF TypeOK
<1>10. admits + lates = settles + reclaims + dropped + Inflight
  BY DEF FlowInv, EveryHoldLeavesOnce
<1>11. EveryHoldLeavesOnce'
  BY <1>3, <1>5, <1>7, <1>9, <1>10 DEF EveryHoldLeavesOnce
<1> QED
  BY <1>8, <1>11 DEF FlowInv

\* A shed request only sweeps: each lease it removes is counted as a reclaim.
LEMMA ShedFlow ==
  ASSUME LedgerInv, FlowInv, NEW t \in Readings, NEW n, NEW slo,
         NEW lease, NEW E \in ReclaimSets(t),
         Shed(t, n, slo, lease, E)
  PROVE  FlowInv'
<1> DEFINE K == DOMAIN leases \ E
<1>1. TypeOK /\ E \subseteq DOMAIN leases
  BY ReclaimFacts DEF LedgerInv
<1>2. DOMAIN leases' = K
  BY DEF Shed, Persist, Without
<1>3. /\ reclaims' = reclaims + Cardinality(E) /\ admits' = admits
      /\ settles' = settles /\ lates' = lates /\ dropped' = dropped
  BY DEF Shed, Persist
<1>4. /\ Cardinality(K) \in Nat /\ Cardinality(E) \in Nat
      /\ Inflight = Cardinality(K) + Cardinality(E)
  BY <1>1, SweepCount
<1> HIDE DEF K
<1>5. Inflight' = Cardinality(K)
  BY <1>2 DEF Inflight
<1>6. InflightBounded'
  BY <1>4, <1>5, PolicyAssumption DEF FlowInv, InflightBounded
<1>7. /\ admits \in Nat /\ settles \in Nat /\ lates \in Nat /\ reclaims \in Nat /\ dropped \in Nat
  BY <1>1 DEF TypeOK
<1>8. EveryHoldLeavesOnce'
  BY <1>3, <1>4, <1>5, <1>7 DEF FlowInv, EveryHoldLeavesOnce
<1> QED
  BY <1>6, <1>8 DEF FlowInv

\* A commit counts one settlement, and one late commit exactly when no hold leaves.
LEMMA SettleFlow ==
  ASSUME LedgerInv, FlowInv, NEW r, NEW t, NEW prompt, NEW output, NEW service, NEW lease,
         Settle(r, t, prompt, output, service, lease)
  PROVE  FlowInv'
<1> DEFINE K == DOMAIN leases \ {r}
<1>1. TypeOK /\ DOMAIN leases = DOMAIN res
  BY DEF LedgerInv, LedgerConsistent
<1>2. DOMAIN leases' = K
  BY <1>1 DEF Settle, LeasesWithout, Without
<1>3. /\ reclaims' = reclaims /\ admits' = admits /\ dropped' = dropped
      /\ settles' = settles + 1
      /\ lates' = lates + (IF r \in DOMAIN leases THEN 0 ELSE 1)
  BY <1>1 DEF Settle, Late
<1>4. /\ Cardinality(K) \in Nat /\ Inflight \in Nat
      /\ Inflight = Cardinality(K) + (IF r \in DOMAIN leases THEN 1 ELSE 0)
  <2>1. IsFiniteSet(DOMAIN leases) /\ Inflight \in Nat
    BY <1>1, InflightType
  <2>2. IsFiniteSet(K) /\ Cardinality(K) = IF r \in DOMAIN leases
                                           THEN Cardinality(DOMAIN leases) - 1
                                           ELSE Cardinality(DOMAIN leases)
    BY <2>1, FS_RemoveElement
  <2>3. Cardinality(K) \in Nat
    BY <2>2, FS_CardinalityType
  <2> QED
    BY <2>1, <2>2, <2>3 DEF Inflight
<1> HIDE DEF K
<1>5. Inflight' = Cardinality(K)
  BY <1>2 DEF Inflight
<1>6. InflightBounded'
  BY <1>4, <1>5, PolicyAssumption DEF FlowInv, InflightBounded
<1>7. /\ admits \in Nat /\ settles \in Nat /\ lates \in Nat /\ reclaims \in Nat /\ dropped \in Nat
  BY <1>1 DEF TypeOK
<1>8. EveryHoldLeavesOnce'
  BY <1>3, <1>4, <1>5, <1>7 DEF FlowInv, EveryHoldLeavesOnce
<1> QED
  BY <1>6, <1>8 DEF FlowInv

\* Holds that expire with their key are counted as dropped.
LEMMA TickFlow ==
  ASSUME LedgerInv, FlowInv, Tick
  PROVE  FlowInv'
<1> DEFINE gone == holdsExp >= 0 /\ holdsExp < now + 1
<1>1. /\ TypeOK /\ Inflight \in Nat
  BY InflightType DEF LedgerInv
<1>2. /\ leases' = IF gone THEN Nothing ELSE leases
      /\ dropped' = dropped + (IF gone THEN Inflight ELSE 0)
      /\ UNCHANGED <<admits, settles, lates, reclaims>>
  BY DEF Tick, Inflight, outcomes
<1>3. Inflight' = IF gone THEN 0 ELSE Inflight
  <2>1. CASE gone
    BY <1>2, <2>1, FS_EmptySet DEF Inflight, Nothing
  <2>2. CASE ~gone
    BY <1>2, <2>2 DEF Inflight
  <2> QED
    BY <2>1, <2>2
<1>4. /\ admits \in Nat /\ settles \in Nat /\ lates \in Nat /\ reclaims \in Nat /\ dropped \in Nat
  BY <1>1 DEF TypeOK
<1> HIDE DEF gone
<1>5. EveryHoldLeavesOnce'
  BY <1>1, <1>2, <1>3, <1>4 DEF FlowInv, EveryHoldLeavesOnce
<1>6. InflightBounded'
  BY <1>1, <1>3, PolicyAssumption DEF FlowInv, InflightBounded
<1> QED
  BY <1>5, <1>6 DEF FlowInv

\* The flow invariant holds in every reachable state.
LEMMA FlowInvariant == Spec => []FlowInv
<1>1. Init => FlowInv
  <2> SUFFICES ASSUME Init PROVE FlowInv
    OBVIOUS
  <2>1. Inflight = 0
    BY FS_EmptySet DEF Init, Inflight, Nothing
  <2> QED
    BY <2>1, PolicyAssumption DEF Init, FlowInv, EveryHoldLeavesOnce, InflightBounded
<1>2. LedgerInv /\ FlowInv /\ [Next]_vars => FlowInv'
  <2> SUFFICES ASSUME LedgerInv, FlowInv, [Next]_vars
               PROVE  FlowInv'
    OBVIOUS
  <2>1. CASE Reserve
    BY <2>1, AdmitFlow, ShedFlow DEF Reserve
  <2>2. UNCHANGED vars => FlowInv'
    BY DEF vars, redisVars, outcomes, history, FlowInv, EveryHoldLeavesOnce, InflightBounded,
           Inflight
  <2>3. CASE Commit
    BY <2>2, <2>3, SettleFlow DEF Commit, Replay
  <2>4. CASE Release
    BY <2>4, SettleFlow DEF Release
  <2>5. CASE Tick
    BY <2>5, TickFlow
  <2> QED
    BY <2>1, <2>2, <2>3, <2>4, <2>5 DEF Next
<1> QED
  BY <1>1, <1>2, LedgerInvariant, PTL DEF Spec

\* Every hold leaves the ledger exactly once: by its own commit, by a sweep or
\* with its expired key.  A late commit never returns it a second time.
THEOREM HoldsLeaveOnce == Spec => []EveryHoldLeavesOnce
<1>1. FlowInv => EveryHoldLeavesOnce
  BY DEF FlowInv
<1> QED
  BY <1>1, FlowInvariant, PTL

\* Occupancy never exceeds the slots plus the queue, for any number of callers.
THEOREM OccupancyBounded == Spec => []InflightBounded
<1>1. FlowInv => InflightBounded
  BY DEF FlowInv
<1> QED
  BY <1>1, FlowInvariant, PTL

-----------------------------------------------------------------------------
(* Retried commits *)

\* A charged reservation is remembered for IdempotencyTtl after its first charge.
MarkerInv ==
  \A r \in Rids : charges[r] > 0 =>
    /\ settledAt[r] <= now
    /\ \/ settledAt[r] + IdempotencyTtl < now
       \/ r \in DOMAIN settled /\ settledAt[r] + IdempotencyTtl <= settled[r]

RetryInv == MarkerInv /\ ChargedOnce

\* A commit past the marker is the first of its reservation if retries stop before
\* the marker expires.
LEMMA SettleRetry ==
  ASSUME TypeOK, RetryInv, NEW r \in Rids, MayCall(r),
         NEW t, NEW prompt, NEW output, NEW service, NEW lease,
         Settle(r, t, prompt, output, service, lease)
  PROVE  RetryInv'
<1>1. /\ now \in Nat /\ charges \in [Rids -> Nat] /\ settledAt \in [Rids -> Nat]
      /\ DOMAIN settled \subseteq Rids
  BY DEF TypeOK
<1>2. /\ r \notin DOMAIN settled /\ now' = now
      /\ settled' = With(settled, r, now + IdempotencyTtl)
      /\ charges' = [charges EXCEPT ![r] = @ + 1]
      /\ settledAt' = [settledAt EXCEPT ![r] = IF charges[r] = 0 THEN now ELSE @]
  BY DEF Settle, AlreadySettled
<1>3. ASSUME NEW x \in Rids, charges'[x] > 0
      PROVE  /\ settledAt'[x] <= now
             /\ \/ settledAt'[x] + IdempotencyTtl < now
                \/ x \in DOMAIN settled' /\ settledAt'[x] + IdempotencyTtl <= settled'[x]
  <2>1. CASE x = r
    <3>1. r \in DOMAIN settled' /\ settled'[r] = now + IdempotencyTtl
      BY <1>2 DEF With
    <3>2. settledAt'[r] \in Nat /\ settledAt'[r] <= now
      BY <1>1, <1>2 DEF RetryInv, MarkerInv
    <3> QED
      BY <1>1, <2>1, <3>1, <3>2, PolicyAssumption
  <2>2. CASE x # r
    <3>1. charges[x] > 0 /\ settledAt'[x] = settledAt[x]
      BY <1>1, <1>2, <1>3, <2>2
    <3>2. x \in DOMAIN settled => x \in DOMAIN settled' /\ settled'[x] = settled[x]
      BY <1>2, <2>2 DEF With
    <3> QED
      BY <3>1, <3>2 DEF RetryInv, MarkerInv
  <2> QED
    BY <2>1, <2>2
<1>4. ChargedOnce'
  <2> SUFFICES ASSUME RetryHorizon <= IdempotencyTtl, NEW x \in Rids
               PROVE  charges'[x] <= 1
    BY DEF ChargedOnce
  <2>1. charges[x] <= 1
    BY DEF RetryInv, ChargedOnce
  <2>2. CASE x # r
    BY <1>1, <1>2, <2>1, <2>2
  <2>3. CASE x = r
    <3>1. charges[r] = 0
      <4>1. SUFFICES ASSUME charges[r] > 0 PROVE FALSE
        BY <1>1
      <4>2. now <= settledAt[r] + RetryHorizon
        BY <4>1 DEF MayCall
      <4>3. settledAt[r] + IdempotencyTtl < now
        BY <1>2, <4>1 DEF RetryInv, MarkerInv
      <4>4. settledAt[r] \in Nat
        BY <1>1
      <4> QED
        BY <1>1, <4>2, <4>3, <4>4, PolicyAssumption, InputAssumption
    <3> QED
      BY <1>1, <1>2, <2>3, <3>1
  <2> QED
    BY <2>2, <2>3
<1> QED
  BY <1>2, <1>3, <1>4 DEF RetryInv, MarkerInv

\* A marker that expires does so after the last retry of its reservation.
LEMMA TickRetry ==
  ASSUME TypeOK, RetryInv, Tick
  PROVE  RetryInv'
<1>1. /\ now \in Nat /\ charges \in [Rids -> Nat] /\ settledAt \in [Rids -> Nat]
      /\ DOMAIN settled \subseteq Rids /\ settled \in [DOMAIN settled -> Nat]
  BY DEF TypeOK
<1>2. /\ now' = now + 1 /\ charges' = charges /\ settledAt' = settledAt
      /\ settled' = Without(settled, {r \in DOMAIN settled : settled[r] < now + 1})
  BY DEF Tick
<1>3. ASSUME NEW x \in Rids, charges'[x] > 0
      PROVE  /\ settledAt'[x] <= now'
             /\ \/ settledAt'[x] + IdempotencyTtl < now'
                \/ x \in DOMAIN settled' /\ settledAt'[x] + IdempotencyTtl <= settled'[x]
  <2>1. settledAt[x] \in Nat /\ IdempotencyTtl \in Nat
    BY <1>1, PolicyAssumption
  <2>2. /\ settledAt[x] <= now
        /\ \/ settledAt[x] + IdempotencyTtl < now
           \/ x \in DOMAIN settled /\ settledAt[x] + IdempotencyTtl <= settled[x]
    BY <1>2, <1>3 DEF RetryInv, MarkerInv
  <2>3. CASE settledAt[x] + IdempotencyTtl < now
    BY <1>1, <1>2, <2>1, <2>2, <2>3
  <2>4. CASE x \in DOMAIN settled /\ settledAt[x] + IdempotencyTtl <= settled[x]
    <3>1. settled[x] \in Nat
      BY <1>1, <2>4
    <3>2. CASE settled[x] < now + 1
      BY <1>1, <1>2, <2>1, <2>2, <2>4, <3>1, <3>2
    <3>3. CASE ~(settled[x] < now + 1)
      <4>1. x \in DOMAIN settled' /\ settled'[x] = settled[x]
        BY <1>2, <2>4, <3>3 DEF Without
      <4> QED
        BY <1>1, <1>2, <2>1, <2>2, <2>4, <4>1
    <3> QED
      BY <3>2, <3>3
  <2> QED
    BY <2>2, <2>3, <2>4
<1>4. ChargedOnce'
  BY <1>2 DEF RetryInv, ChargedOnce
<1> QED
  BY <1>3, <1>4 DEF RetryInv, MarkerInv

\* The retry invariant holds in every reachable state.
LEMMA RetryInvariant == Spec => []RetryInv
<1>1. Init => RetryInv
  BY DEF Init, RetryInv, MarkerInv, ChargedOnce
<1>2. TypeOK /\ RetryInv /\ [Next]_vars => RetryInv'
  <2> SUFFICES ASSUME TypeOK, RetryInv, [Next]_vars
               PROVE  RetryInv'
    OBVIOUS
  <2>1. UNCHANGED <<now, settled, charges, settledAt>> => RetryInv'
    BY DEF RetryInv, MarkerInv, ChargedOnce
  <2>2. CASE Reserve
    <3>1. UNCHANGED <<now, settled, charges, settledAt>>
      BY <2>2 DEF Reserve, Admit, Shed, Persist
    <3> QED
      BY <2>1, <3>1
  <2>3. UNCHANGED vars => RetryInv'
    BY <2>1 DEF vars, redisVars, history
  <2>4. CASE Commit
    BY <2>3, <2>4, SettleRetry DEF Commit, Replay
  <2>5. CASE Release
    BY <2>5, SettleRetry DEF Release
  <2>6. CASE Tick
    BY <2>6, TickRetry
  <2> QED
    BY <2>2, <2>3, <2>4, <2>5, <2>6 DEF Next
<1> QED
  BY <1>1, <1>2, TypeCorrect, PTL DEF Spec

\* One completion, one charge: however often and from however many places a
\* commit or release is retried, as long as the client gives up within the
\* idempotency TTL.
THEOREM CompletionChargedOnce == Spec => []ChargedOnce
<1>1. RetryInv => ChargedOnce
  BY DEF RetryInv
<1> QED
  BY <1>1, RetryInvariant, PTL

-----------------------------------------------------------------------------
(* The request budget *)

\* Admitted from x on, in units of the request budget.
Spent(x) == Cardinality(AdmittedSince(x)) * RpmUnit

\* What was spent from x on is covered by the budget b at time n: by its level as
\* of its last write, which came no earlier than the first of these requests, or
\* by the accrual since x if its key has lapsed.
Paid(spent, b, x, n, back) ==
  IF Exists(b)
  THEN /\ spent = 0 \/ b.ts >= x - MaxLag
       /\ spent + b.bal <= RpmLimit + RpmRate * (Larger(0, b.ts - (x - MaxLag)) + back)
  ELSE spent <= RpmRate * ((n + (MaxLag + back)) - x)

\* The request budget stays between empty and full, and its keys outlive a full
\* refill.
RequestLevel(b, n) ==
  Exists(b) => /\ b.bal >= 0 /\ b.bal <= RpmLimit
               /\ b.ts <= n
               /\ b.ts + Window <= b.exp

RequestInv ==
  /\ IsFiniteSet(issued)
  /\ admittedAt \in [issued -> 0 .. now]
  /\ RequestLevel(rpm, now)
  /\ \A x \in 0 .. now : Paid(Spent(x), rpm, x, now, rpmRewound)

\* The types the request-budget proofs use.
LEMMA RequestTypes ==
  ASSUME TypeOK
  PROVE  /\ now \in Nat /\ rpm \in Budget /\ rpm.bal \in Int /\ rpm.ts \in Nat /\ rpm.exp \in Int
         /\ rpmRewound \in Nat
         /\ RpmLimit \in Nat /\ RpmRate \in Nat /\ RpmUnit \in Nat /\ Window \in Nat /\ MaxLag \in Nat
BY LimitType, RateAssumption, BoundAssumption DEF TypeOK, Budget

\* What was spent is a natural number.
LEMMA SpentType ==
  ASSUME TypeOK, IsFiniteSet(issued), NEW x
  PROVE  IsFiniteSet(AdmittedSince(x)) /\ Spent(x) \in Nat
<1>1. AdmittedSince(x) \subseteq issued
  BY DEF AdmittedSince
<1>2. IsFiniteSet(AdmittedSince(x))
  BY <1>1, FS_Subset
<1>3. Cardinality(AdmittedSince(x)) \in Nat
  BY <1>2, FS_CardinalityType
<1> QED
  BY <1>2, <1>3, RequestTypes DEF Spent

\* A budget that is not negative does not become so by refilling.
LEMMA RefillNotNegative ==
  ASSUME NEW b \in Budget, NEW cap \in Nat, NEW rate \in Nat, NEW t \in Nat,
         Exists(b) => b.bal >= 0
  PROVE  Refill(b, cap, rate, t) >= 0
<1> DEFINE gain == Larger(0, t - b.ts) * rate
<1>1. Larger(0, t - b.ts) \in Nat
  BY DEF Larger, Budget
<1>2. gain \in Nat /\ b.bal \in Int
  BY <1>1 DEF Budget
<1> HIDE DEF gain
<1>3. Refill(b, cap, rate, t) = IF Exists(b) THEN Smaller(b.bal + gain, cap) ELSE cap
  BY DEF Refill, gain
<1> QED
  BY <1>2, <1>3 DEF Smaller

\* Refilling up to t what was written at ts earns no more than t and what the
\* clock is moved back allow, if y is before t, and before ts unless nothing was
\* spent.
LEMMA RefillPays ==
  ASSUME NEW limit \in Nat, NEW rate \in Nat, NEW ts \in Nat, NEW t \in Nat, NEW y \in Int,
         NEW back \in Nat, NEW bal \in Int, NEW spent \in Nat,
         y <= t, spent = 0 \/ ts >= y,
         spent + bal <= limit + rate * (Larger(0, ts - y) + back)
  PROVE  spent + Smaller(bal + Larger(0, t - ts) * rate, limit)
           <= limit + rate * (Larger(0, t - y) + (back + Larger(0, ts - t)))
<1> DEFINE old  == Larger(0, ts - y) + back
           gain == Larger(0, t - ts)
           new  == Larger(0, t - y) + (back + Larger(0, ts - t))
<1>1. old \in Nat /\ gain \in Nat /\ new \in Nat
  BY DEF Larger
<1>2. /\ rate * old \in Int /\ rate * new \in Int /\ gain * rate \in Int
      /\ rate * new >= 0
  BY <1>1
<1>3. CASE spent = 0
  <2> HIDE DEF old, gain, new
  <2>1. Smaller(bal + gain * rate, limit) <= limit /\ Smaller(bal + gain * rate, limit) \in Int
    BY <1>2 DEF Smaller
  <2>2. spent + Smaller(bal + gain * rate, limit) <= limit + rate * new
    BY <1>2, <1>3, <2>1
  <2> QED
    BY <2>2 DEF gain, new
<1>4. CASE ts >= y
  <2>1. old + gain <= new
    BY <1>4 DEF Larger
  <2> HIDE DEF old, gain, new
  <2>2. rate * (old + gain) <= rate * new
    <3>1. \A a, b \in Nat : a <= b => rate * a <= rate * b
      OBVIOUS
    <3> QED
      BY <1>1, <2>1, <3>1
  <2>3. rate * (old + gain) = rate * old + gain * rate
    BY <1>1
  <2>4. spent + bal <= limit + rate * old
    BY DEF old
  <2> DEFINE A == rate * old
             B == rate * new
             G == gain * rate
  <2>5. A + G <= B /\ spent + bal <= limit + A /\ A \in Int /\ B \in Int /\ G \in Int
    BY <1>2, <2>2, <2>3, <2>4
  <2> HIDE DEF A, B, G
  <2>6. spent + Smaller(bal + G, limit) <= limit + B
    BY <2>5 DEF Smaller
  <2> QED
    BY <2>6 DEF G, B, gain, new
<1> QED
  BY <1>3, <1>4

\* A reserve call that finds its clock reading t within the lag writes a level
\* that covers what was spent before and the `more' it takes.
LEMMA WriteIsPaid ==
  ASSUME TypeOK, RequestLevel(rpm, now), NEW t \in Readings, NEW x \in 0 .. now, NEW spent \in Nat,
         Paid(spent, rpm, x, now, rpmRewound),
         NEW reqs \in Int, NEW more \in Nat, reqs + more = Refill(rpm, RpmLimit, RpmRate, t),
         NEW b, b.ts = t, b.bal = reqs, Exists(b)
  PROVE  Paid(spent + more, b, x, now, rpmRewound + Rewind(rpm, t))
<1> DEFINE y == x - MaxLag
<1>1. t \in Nat /\ t <= now /\ now - MaxLag <= t
  BY RequestTypes DEF Readings, Larger
<1>2. y \in Int /\ y <= t /\ y <= now /\ x \in Nat
  BY <1>1, RequestTypes
<1>3. reqs <= RpmLimit
  <2>1. Refill(rpm, RpmLimit, RpmRate, t) \in Int /\ Refill(rpm, RpmLimit, RpmRate, t) <= RpmLimit
    BY <1>1, RequestTypes, RefillFacts
  <2> QED
    BY <2>1, RequestTypes
<1>4. (spent + more) + reqs <= RpmLimit + RpmRate * (Larger(0, t - y) + (rpmRewound + Rewind(rpm, t)))
  <2>1. CASE Exists(rpm)
    <3>1. Rewind(rpm, t) = Larger(0, rpm.ts - t)
      BY <2>1 DEF Rewind
    <3>2. /\ spent = 0 \/ rpm.ts >= y
          /\ spent + rpm.bal <= RpmLimit + RpmRate * (Larger(0, rpm.ts - y) + rpmRewound)
      BY <2>1 DEF Paid
    <3>3. reqs + more = Smaller(rpm.bal + Larger(0, t - rpm.ts) * RpmRate, RpmLimit)
      BY <2>1 DEF Refill
    <3> HIDE DEF y
    <3>4. spent + Smaller(rpm.bal + Larger(0, t - rpm.ts) * RpmRate, RpmLimit)
            <= RpmLimit + RpmRate * (Larger(0, t - y) + (rpmRewound + Larger(0, rpm.ts - t)))
      BY <1>1, <1>2, <3>2, RequestTypes, RefillPays
    <3>5. (spent + more) + reqs = spent + (reqs + more)
      OBVIOUS
    <3> QED
      BY <3>1, <3>3, <3>4, <3>5
  <2>2. CASE ~Exists(rpm)
    <3> DEFINE m == (now + (MaxLag + rpmRewound)) - x
               n == Larger(0, t - y) + (rpmRewound + Rewind(rpm, t))
    <3>1. Rewind(rpm, t) = now - t
      BY <1>1, <2>2, RequestTypes DEF Rewind, Larger
    <3>2. m = n
      BY <1>1, <1>2, <3>1, RequestTypes DEF Larger
    <3>3. spent <= RpmRate * m
      BY <2>2 DEF Paid
    <3>4. reqs + more = RpmLimit
      BY <2>2 DEF Refill
    <3>5. m \in Int /\ RpmRate * m \in Int
      BY <1>2, RequestTypes
    <3> HIDE DEF m, n, y
    <3>6. (spent + more) + reqs = spent + (reqs + more)
      OBVIOUS
    <3> DEFINE P == RpmRate * m
    <3>7. spent <= P /\ P \in Int /\ P = RpmRate * n
      BY <3>2, <3>3, <3>5
    <3> HIDE DEF P
    <3>8. (spent + more) + reqs <= RpmLimit + P
      BY <3>4, <3>6, <3>7, RequestTypes
    <3> QED
      BY <3>7, <3>8 DEF n
  <2> QED
    BY <2>1, <2>2
<1>5. b.ts >= x - MaxLag
  BY <1>2
<1> QED
  BY <1>4, <1>5 DEF Paid

\* A reserve call that writes the balance reqs after taking `more' units.
LEMMA PersistRequests ==
  ASSUME TypeOK, RequestInv, NEW t \in Readings, NEW lease \in LeaseLengths,
         NEW bal, NEW reqs \in Int, NEW newLeases, NEW newRes, NEW E,
         Persist(t, lease, bal, reqs, newLeases, newRes, E),
         NEW more \in Nat, reqs >= 0, reqs + more = Refill(rpm, RpmLimit, RpmRate, t),
         IsFiniteSet(issued'), admittedAt' \in [issued' -> 0 .. now],
         \A x \in 0 .. now : Spent(x)' = Spent(x) + more
  PROVE  RequestInv'
<1>1. t \in Nat /\ t <= now /\ Ttl(lease) \in Nat /\ Ttl(lease) >= 2 * Window
  BY RequestTypes, ReadingFacts, TtlFacts
<1>2. /\ rpm' = [bal |-> reqs, ts |-> t, exp |-> now + Ttl(lease)]
      /\ rpmRewound' = rpmRewound + Rewind(rpm, t) /\ now' = now
  BY DEF Persist
<1>3. /\ rpm'.bal = reqs /\ rpm'.ts = t /\ rpm'.exp = now + Ttl(lease)
  BY <1>2
<1>4. Exists(rpm')
  BY <1>1, <1>3, RequestTypes DEF Exists
<1>5. reqs <= RpmLimit
  <2>1. Refill(rpm, RpmLimit, RpmRate, t) \in Int /\ Refill(rpm, RpmLimit, RpmRate, t) <= RpmLimit
    BY <1>1, RequestTypes, RefillFacts
  <2> QED
    BY <2>1, RequestTypes
<1>6. RequestLevel(rpm', now')
  <2>1. t + Window <= now + Ttl(lease)
    BY <1>1, RequestTypes
  <2> QED
    BY <1>1, <1>2, <1>3, <1>5, <2>1 DEF RequestLevel
<1>7. ASSUME NEW x \in 0 .. now'
      PROVE  Paid(Spent(x)', rpm', x, now', rpmRewound')
  <2>1. x \in 0 .. now
    BY <1>2
  <2>2. Paid(Spent(x), rpm, x, now, rpmRewound) /\ Spent(x) \in Nat /\ RequestLevel(rpm, now)
    BY <2>1, SpentType DEF RequestInv
  <2>3. Paid(Spent(x) + more, rpm', x, now, rpmRewound + Rewind(rpm, t))
    BY <1>3, <1>4, <2>1, <2>2, WriteIsPaid
  <2> QED
    BY <1>2, <2>1, <2>3
<1> QED
  BY <1>2, <1>6, <1>7 DEF RequestInv

\* Nothing is admitted: nothing is spent.
LEMMA NoneAdmitted ==
  ASSUME RequestInv, TimedNext, issued' = issued
  PROVE  admittedAt' = admittedAt /\ \A x : Spent(x)' = Spent(x)
<1>1. admittedAt' = [r \in issued |-> admittedAt[r]]
  BY DEF TimedNext
<1>2. admittedAt' = admittedAt
  BY <1>1 DEF RequestInv
<1> QED
  BY <1>2 DEF Spent, AdmittedSince

\* An admission pays RpmUnit from the request budget for the request it counts.
LEMMA AdmitRequests ==
  ASSUME TypeOK, RequestInv, TimedNext, NEW r \in Rids \ issued, NEW t \in Readings, NEW n,
         NEW slo, NEW lease \in LeaseLengths, NEW E, Admit(r, t, n, slo, lease, E)
  PROVE  RequestInv'
<1> DEFINE R == Refill(rpm, RpmLimit, RpmRate, t)
           bal == TpmAfterReclaim(t, E)
           kept == Without(leases, E)
<1>1. t \in Nat
  BY RequestTypes, ReadingFacts
<1>2. R \in Int
  BY <1>1, RequestTypes, RefillFacts
<1>3. ~(R < RpmUnit)
  BY DecisionAdmit DEF Admit
<1>4. Persist(t, lease, bal - n, R - RpmUnit, With(kept, r, t + lease), With(Without(res, E), r, n), E)
  BY DEF Admit
<1>5. issued' = issued \cup {r} /\ now \in Nat
  BY RequestTypes DEF Admit
<1>6. admittedAt' = [q \in issued \cup {r} |-> IF q \in issued THEN admittedAt[q] ELSE now]
  BY <1>5 DEF TimedNext
<1>7. IsFiniteSet(issued') /\ admittedAt' \in [issued' -> 0 .. now]
  BY <1>5, <1>6, FS_AddElement DEF RequestInv
<1>8. ASSUME NEW x \in 0 .. now
      PROVE  Spent(x)' = Spent(x) + RpmUnit
  <2> DEFINE S == AdmittedSince(x)
  <2>1. AdmittedSince(x)' = S \cup {r}
    BY <1>5, <1>6 DEF AdmittedSince
  <2>2. r \notin S /\ IsFiniteSet(S)
    BY SpentType DEF AdmittedSince, RequestInv
  <2> HIDE DEF S
  <2>3. Cardinality(S \cup {r}) = Cardinality(S) + 1 /\ Cardinality(S) \in Nat
    BY <2>2, FS_AddElement, FS_CardinalityType
  <2>4. (Cardinality(S) + 1) * RpmUnit = Cardinality(S) * RpmUnit + RpmUnit
    BY <2>3, RequestTypes
  <2> QED
    BY <2>1, <2>3, <2>4 DEF Spent, S
<1> HIDE DEF R, bal, kept
<1>9. R - RpmUnit \in Int /\ R - RpmUnit >= 0 /\ (R - RpmUnit) + RpmUnit = R
  BY <1>2, <1>3, RequestTypes
<1>10. (R - RpmUnit) + RpmUnit = Refill(rpm, RpmLimit, RpmRate, t)
  BY <1>9 DEF R
<1> QED
  BY <1>4, <1>7, <1>8, <1>9, <1>10, RequestTypes, PersistRequests

\* A shed request pays nothing and moves only the refill clock.
LEMMA ShedRequests ==
  ASSUME TypeOK, RequestInv, TimedNext, NEW t \in Readings, NEW n, NEW slo,
         NEW lease \in LeaseLengths, NEW E, Shed(t, n, slo, lease, E)
  PROVE  RequestInv'
<1> DEFINE R == Refill(rpm, RpmLimit, RpmRate, t)
           bal == TpmAfterReclaim(t, E)
<1>1. t \in Nat
  BY RequestTypes, ReadingFacts
<1>2. R \in Int /\ R >= 0
  BY <1>1, RequestTypes, RefillFacts, RefillNotNegative DEF RequestInv, RequestLevel
<1>3. Persist(t, lease, bal, R, Without(leases, E), Without(res, E), E)
  BY DEF Shed
<1>4. issued' = issued
  BY DEF Shed
<1>5. admittedAt' = admittedAt /\ \A x : Spent(x)' = Spent(x)
  BY <1>4, NoneAdmitted
<1>6. \A x \in 0 .. now : Spent(x)' = Spent(x) + 0
  BY <1>5, SpentType DEF RequestInv
<1>7. IsFiniteSet(issued') /\ admittedAt' \in [issued' -> 0 .. now]
  BY <1>4, <1>5 DEF RequestInv
<1> HIDE DEF bal
<1>8. R + 0 = Refill(rpm, RpmLimit, RpmRate, t)
  BY <1>2
<1> HIDE DEF R
<1> QED
  BY <1>2, <1>3, <1>6, <1>7, <1>8, PersistRequests

\* A key that lapses by n was due to be full again, so what was spent from x on
\* has accrued since; what had no key keeps accruing.
LEMMA LapseIsPaid ==
  ASSUME TypeOK, RequestLevel(rpm, now), NEW x \in 0 .. now, NEW spent \in Nat,
         Paid(spent, rpm, x, now, rpmRewound), Exists(rpm) => rpm.exp < now + 1
  PROVE  spent <= RpmRate * (((now + 1) + (MaxLag + rpmRewound)) - x)
<1> DEFINE y == x - MaxLag
           new == ((now + 1) + (MaxLag + rpmRewound)) - x
<1>1. x \in Nat /\ y \in Int /\ y <= now /\ new \in Nat
  BY RequestTypes
<1>2. \A a, b \in Nat : a <= b => RpmRate * a <= RpmRate * b /\ RpmRate * a \in Nat
  BY RequestTypes
<1>3. RpmRate * new \in Nat
  BY <1>1, <1>2
<1>4. CASE ~Exists(rpm)
  <2> DEFINE old == (now + (MaxLag + rpmRewound)) - x
  <2>1. old \in Nat /\ old <= new
    BY <1>1, RequestTypes
  <2>2. spent <= RpmRate * old
    BY <1>4 DEF Paid
  <2> HIDE DEF old, new
  <2>3. RpmRate * old <= RpmRate * new /\ RpmRate * old \in Nat
    BY <1>1, <1>2, <2>1
  <2>4. spent <= RpmRate * new
    BY <1>3, <2>2, <2>3
  <2> QED
    BY <2>4 DEF new
<1>5. CASE Exists(rpm)
  <2>1. spent = 0 \/ rpm.ts >= y
    BY <1>5 DEF Paid
  <2>2. CASE spent = 0
    <3> HIDE DEF new
    <3>1. spent <= RpmRate * new
      BY <1>3, <2>2
    <3> QED
      BY <3>1 DEF new
  <2>3. CASE rpm.ts >= y
    <3> DEFINE old == Larger(0, rpm.ts - y) + rpmRewound
    <3>1. spent + rpm.bal <= RpmLimit + RpmRate * old /\ rpm.bal >= 0
      BY <1>5 DEF Paid, RequestLevel
    <3>2. old \in Nat /\ Window + old <= new
      BY <1>1, <1>5, <2>3, RequestTypes DEF Larger, RequestLevel
    <3>3. RpmLimit = RpmRate * Window
      BY DEF RpmLimit
    <3> HIDE DEF old, new
    <3>4. RpmRate * (Window + old) = RpmRate * Window + RpmRate * old
      BY <3>2, RequestTypes
    <3>5. RpmRate * (Window + old) <= RpmRate * new
      BY <1>1, <1>2, <3>2, RequestTypes
    <3> DEFINE A == RpmRate * old
               B == RpmRate * new
    <3>6. A \in Int /\ B \in Int /\ RpmLimit + A <= B /\ spent + rpm.bal <= RpmLimit + A
      BY <1>2, <1>3, <3>1, <3>2, <3>3, <3>4, <3>5
    <3> HIDE DEF A, B
    <3>7. spent <= B
      BY <3>1, <3>6, RequestTypes
    <3> QED
      BY <3>7 DEF B, new
  <2> QED
    BY <2>1, <2>2, <2>3
<1> QED
  BY <1>4, <1>5

\* A tick: keys lapse, and a new moment begins from which nothing is spent yet.
LEMMA TickRequests ==
  ASSUME TypeOK, RequestInv, TimedNext, Tick
  PROVE  RequestInv'
<1>1. /\ now' = now + 1 /\ rpmRewound' = rpmRewound /\ issued' = issued
      /\ rpm' = IF rpm.exp < now + 1 THEN NoBudget ELSE rpm
  BY DEF Tick, outcomes
<1>2. admittedAt' = admittedAt /\ \A x : Spent(x)' = Spent(x)
  BY <1>1, NoneAdmitted
<1>3. now \in Nat /\ MaxLag \in Nat /\ rpmRewound \in Nat /\ RpmRate \in Nat /\ RpmLimit \in Nat
  BY RequestTypes
<1>4. admittedAt' \in [issued' -> 0 .. now']
  BY <1>1, <1>2, <1>3 DEF RequestInv
<1>5. Spent(now + 1) = 0
  <2>1. AdmittedSince(now + 1) = {}
    BY <1>3 DEF AdmittedSince, RequestInv
  <2>2. Cardinality(AdmittedSince(now + 1)) = 0
    BY <2>1, FS_EmptySet
  <2> QED
    BY <2>2, RequestTypes DEF Spent
<1>6. CASE rpm.exp < now + 1
  <2>1. ~Exists(rpm') /\ rpm' = NoBudget
    BY <1>1, <1>6 DEF NoBudget, Exists
  <2>2. ASSUME NEW x \in 0 .. now'
        PROVE  Paid(Spent(x)', rpm', x, now', rpmRewound')
    <3> DEFINE m == ((now + 1) + (MaxLag + rpmRewound)) - x
    <3>1. x \in 0 .. now \/ x = now + 1
      BY <1>1, <1>3
    <3>2. CASE x \in 0 .. now
      <4>1. Paid(Spent(x), rpm, x, now, rpmRewound) /\ Spent(x) \in Nat /\ RequestLevel(rpm, now)
        BY <3>2, SpentType DEF RequestInv
      <4>2. Spent(x) <= RpmRate * m
        BY <1>6, <3>2, <4>1, LapseIsPaid
      <4> HIDE DEF m
      <4>3. Spent(x)' <= RpmRate * m
        BY <1>2, <4>2
      <4> QED
        BY <1>1, <2>1, <4>3 DEF Paid, m
    <3>3. CASE x = now + 1
      <4>1. m \in Nat /\ RpmRate * m \in Nat
        BY <1>3, <3>3
      <4> HIDE DEF m
      <4>2. Spent(x)' = 0
        BY <1>2, <1>5, <3>3
      <4>3. Spent(x)' <= RpmRate * m
        BY <4>1, <4>2
      <4> QED
        BY <1>1, <2>1, <4>3 DEF Paid, m
    <3> QED
      BY <3>1, <3>2, <3>3
  <2> QED
    BY <1>1, <1>4, <2>1, <2>2 DEF RequestInv, RequestLevel
<1>7. CASE ~(rpm.exp < now + 1)
  <2>1. rpm' = rpm /\ Exists(rpm)
    BY <1>1, <1>3, <1>7, RequestTypes DEF Exists
  <2>2. RequestLevel(rpm', now')
    <3>1. rpm.ts <= now + 1
      BY <1>3, <2>1, RequestTypes DEF RequestInv, RequestLevel
    <3> QED
      BY <1>1, <2>1, <3>1 DEF RequestInv, RequestLevel
  <2>3. ASSUME NEW x \in 0 .. now'
        PROVE  Paid(Spent(x)', rpm', x, now', rpmRewound')
    <3>1. x \in 0 .. now \/ x = now + 1
      BY <1>1, <1>3
    <3>2. CASE x \in 0 .. now
      <4>1. Paid(Spent(x), rpm, x, now, rpmRewound)
        BY <3>2 DEF RequestInv
      <4> QED
        BY <1>1, <1>2, <2>1, <4>1 DEF Paid
    <3>3. CASE x = now + 1
      <4> DEFINE m == Larger(0, rpm.ts - (x - MaxLag)) + rpmRewound
      <4>1. m \in Nat /\ RpmRate * m \in Nat
        BY <1>3, <3>3, RequestTypes DEF Larger
      <4> HIDE DEF m
      <4>2. Spent(x)' = 0
        BY <1>2, <1>5, <3>3
      <4>3. rpm.bal <= RpmLimit /\ rpm.bal \in Int
        BY <2>1, RequestTypes DEF RequestInv, RequestLevel
      <4>4. 0 + rpm.bal <= RpmLimit + RpmRate * m
        BY <1>3, <4>1, <4>3
      <4> QED
        BY <1>1, <2>1, <4>2, <4>4 DEF Paid, m
    <3> QED
      BY <3>1, <3>2, <3>3
  <2> QED
    BY <1>1, <1>4, <2>2, <2>3 DEF RequestInv
<1> QED
  BY <1>6, <1>7

\* The history takes nothing from the behaviours of Admission.
LEMMA TimedImpliesSpec == TimedSpec => Spec
<1>1. TimedInit => Init
  BY DEF TimedInit
<1>2. [TimedNext]_timedVars => [Next]_vars
  BY DEF TimedNext, timedVars
<1> QED
  BY <1>1, <1>2, PTL DEF TimedSpec, Spec

\* The request-budget invariant holds in every reachable state.
LEMMA RequestInvariant == TimedSpec => []RequestInv
<1>1. TimedInit => RequestInv
  <2> SUFFICES ASSUME TimedInit PROVE RequestInv
    OBVIOUS
  <2>1. ~Exists(rpm) /\ now = 0 /\ rpmRewound = 0 /\ issued = {} /\ admittedAt = Nothing
    BY DEF TimedInit, Init, NoBudget, Exists
  <2>2. \A x : AdmittedSince(x) = {}
    BY <2>1 DEF AdmittedSince
  <2>3. \A x : Spent(x) = 0
    BY <2>2, FS_EmptySet, RateAssumption DEF Spent
  <2>4. ASSUME NEW x \in 0 .. now PROVE Paid(Spent(x), rpm, x, now, rpmRewound)
    <3> DEFINE m == (0 + (MaxLag + 0)) - x
    <3>1. m \in Nat /\ RpmRate * m \in Nat
      BY <2>1, RateAssumption, BoundAssumption
    <3> HIDE DEF m
    <3>2. 0 <= RpmRate * m
      BY <3>1
    <3> QED
      BY <2>1, <2>3, <3>2 DEF Paid, m
  <2> QED
    BY <2>1, <2>4, FS_EmptySet DEF RequestInv, RequestLevel, Nothing
<1>2. TypeOK /\ RequestInv /\ [TimedNext]_timedVars => RequestInv'
  <2> SUFFICES ASSUME TypeOK, RequestInv, [TimedNext]_timedVars
               PROVE  RequestInv'
    OBVIOUS
  <2>1. UNCHANGED <<now, rpm, rpmRewound, issued, admittedAt>> => RequestInv'
    BY DEF RequestInv, RequestLevel, Paid, Spent, AdmittedSince, Exists
  <2>2. CASE TimedNext /\ Reserve
    BY <2>2, AdmitRequests, ShedRequests DEF Reserve
  <2>3. CASE TimedNext /\ (Commit \/ Release)
    <3>1. \A r, t, p, o, s, l : Settle(r, t, p, o, s, l) => UNCHANGED <<now, rpm, rpmRewound, issued>>
      BY DEF Settle
    <3>2. \A r : Replay(r) => UNCHANGED <<now, rpm, rpmRewound, issued>>
      BY DEF Replay, vars, redisVars, outcomes, history
    <3>3. UNCHANGED <<now, rpm, rpmRewound, issued>>
      BY <2>3, <3>1, <3>2 DEF Commit, Release
    <3>4. admittedAt' = admittedAt
      BY <2>3, <3>3, NoneAdmitted
    <3> QED
      BY <2>1, <3>3, <3>4
  <2>4. CASE TimedNext /\ Tick
    BY <2>4, TickRequests
  <2>5. CASE UNCHANGED timedVars
    BY <2>1, <2>5 DEF timedVars, vars, redisVars, outcomes, history
  <2> QED
    BY <2>2, <2>3, <2>4, <2>5 DEF TimedNext, Next
<1>3. TimedSpec => []TypeOK
  BY TimedImpliesSpec, TypeCorrect, PTL
<1> QED
  BY <1>1, <1>2, <1>3, PTL DEF TimedSpec

\* ADMIT_SCRIPT's request budget: from any moment on the admissions stay within
\* one burst plus the accrual since, for any lag of the clocks, whatever the
\* token side, the sweeps and the key expiries do.
THEOREM RequestRateHolds == TimedSpec => []RequestRate
<1>1. TypeOK /\ RequestInv => RequestRate
  <2> SUFFICES ASSUME TypeOK, RequestInv, NEW x \in 0 .. now
               PROVE  Spent(x) <= RpmLimit + RpmRate * ((now + (MaxLag + rpmRewound)) - x)
    BY DEF RequestRate, Spent
  <2> DEFINE m == (now + (MaxLag + rpmRewound)) - x
  <2>1. m \in Nat /\ RpmRate * m \in Nat /\ x \in Nat
    BY RequestTypes
  <2>2. Paid(Spent(x), rpm, x, now, rpmRewound) /\ Spent(x) \in Nat
    BY SpentType DEF RequestInv
  <2>3. CASE Exists(rpm)
    <3> DEFINE old == Larger(0, rpm.ts - (x - MaxLag)) + rpmRewound
    <3>1. old \in Nat /\ old <= m
      BY <2>1, <2>3, RequestTypes DEF RequestInv, RequestLevel, Larger
    <3>2. Spent(x) + rpm.bal <= RpmLimit + RpmRate * old /\ rpm.bal >= 0
      BY <2>2, <2>3 DEF Paid, RequestInv, RequestLevel
    <3> HIDE DEF old, m
    <3>3. RpmRate * old <= RpmRate * m /\ RpmRate * old \in Nat
      <4>1. \A a, b \in Nat : a <= b => RpmRate * a <= RpmRate * b /\ RpmRate * a \in Nat
        BY RequestTypes
      <4> QED
        BY <2>1, <3>1, <4>1
    <3>4. Spent(x) <= RpmLimit + RpmRate * m
      BY <2>1, <2>2, <3>2, <3>3, RequestTypes
    <3> QED
      BY <3>4 DEF m
  <2>4. CASE ~Exists(rpm)
    <3>1. Spent(x) <= RpmRate * m
      BY <2>2, <2>4 DEF Paid
    <3> HIDE DEF m
    <3>2. Spent(x) <= RpmLimit + RpmRate * m
      BY <2>1, <2>2, <3>1, RequestTypes
    <3> QED
      BY <3>2 DEF m
  <2> QED
    BY <2>3, <2>4
<1>2. TimedSpec => []TypeOK
  BY TimedImpliesSpec, TypeCorrect, PTL
<1> QED
  BY <1>1, <1>2, RequestInvariant, PTL

-----------------------------------------------------------------------------
(* Keys, leases and the eager ledger *)

OneLease == \E lease \in LeaseLengths : LeaseLengths = {lease}

Uniform == MaxLag = 0 /\ OneLease

\* What EagerLedger's variables stand for.
Level   == Refill(tpm, TpmLimit, TpmRate, now)
Touched == IF Exists(tpm) THEN tpm.ts ELSE -1
Holds   == [r \in DOMAIN res |-> [n |-> res[r], until |-> leases[r]]]

\* The budget key lives for one lifetime from its last write, the collections
\* at least as long as the leases they hold, which start in the past.
LifeInv ==
  /\ Exists(tpm) => tpm.exp = tpm.ts + ShortestTtl
  /\ \A r \in DOMAIN leases : leases[r] <= holdsExp
  /\ \A r \in DOMAIN leases, lease \in LeaseLengths : leases[r] <= now + lease

-----------------------------------------------------------------------------
\* Every call names the same lease, and so the same lifetime.
LEMMA OneLifetime ==
  ASSUME Uniform, NEW lease \in LeaseLengths
  PROVE  Ttl(lease) = ShortestTtl /\ lease > 0 /\ Ttl(lease) >= lease /\ Ttl(lease) \in Nat
<1>1. LeaseLengths = {lease}
  BY DEF Uniform, OneLease
<1>2. {Ttl(l) : l \in LeaseLengths} = {Ttl(lease)}
  BY <1>1
<1>3. Ttl(lease) \in Nat /\ Ttl(lease) >= lease /\ lease > 0
  BY TtlFacts, PolicyAssumption
<1>4. \A l \in LeaseLengths : Ttl(lease) <= Ttl(l)
  BY <1>1, <1>3
<1>5. ShortestTtl \in {Ttl(l) : l \in LeaseLengths}
  BY <1>2, <1>4 DEF ShortestTtl
<1> QED
  BY <1>2, <1>3, <1>5

\* Every call reads the present.
LEMMA ExactReading ==
  ASSUME Uniform, now \in Nat, NEW t \in Readings
  PROVE  t = now
BY DEF Uniform, Readings, Larger

\* The abstract sum is the sum over the reservation hash.
LEMMA SumIsTokens ==
  ASSUME NEW S \in SUBSET DOMAIN res
  PROVE  Eager!Sum(S) = Tokens(res, S)
<1>1. {p \in S \X (1 .. TpmLimit) : p[2] <= Holds[p[1]].n}
        = {p \in S \X (1 .. TpmLimit) : p[2] <= res[p[1]]}
  BY DEF Holds
<1>2. ASSUME NEW T PROVE Eager!Cardinality(T) = Cardinality(T)
  BY DEF Eager!Cardinality, Cardinality
<1> QED
  BY <1>1, <1>2 DEF Eager!Sum, Tokens, Holds

\* What has expired, in either reading.
LEMMA ExpiredIsExpired ==
  ASSUME LedgerConsistent
  PROVE  Eager!Expired = ExpiredAt(now)
BY DEF Eager!Expired, ExpiredAt, LedgerConsistent

\* A balance just written is the level as of now.
LEMMA JustWritten ==
  ASSUME TypeOK, NEW x \in Int, x <= TpmLimit, NEW e \in Nat,
         tpm' = [bal |-> x, ts |-> now, exp |-> e], now' = now
  PROVE  Level' = x /\ Touched' = now
<1>1. now \in Nat /\ TpmRate \in Nat /\ TpmLimit \in Nat
  BY LimitType, RateAssumption DEF TypeOK
<1>2. Exists(tpm)' /\ tpm'.bal = x /\ tpm'.ts = now
  BY DEF Exists
<1>3. Larger(0, now' - tpm'.ts) * TpmRate = 0
  <2>1. Larger(0, now' - tpm'.ts) = 0
    BY <1>1, <1>2 DEF Larger
  <2> QED
    BY <1>1, <2>1
<1> QED
  BY <1>1, <1>2, <1>3 DEF Level, Touched, Refill, Smaller

\* The level is a number within the capacity.
LEMMA LevelType ==
  ASSUME TypeOK
  PROVE  Level \in Int /\ Level <= TpmLimit
BY RefillFacts, LimitType, RateAssumption DEF TypeOK, Level

-----------------------------------------------------------------------------
(* Each script is a step of the abstract ledger *)

\* What both outcomes of a reserve call write.
LEMMA PersistMapped ==
  ASSUME Uniform, LedgerInv, LifeInv,
         NEW lease \in LeaseLengths, NEW x \in Int, x <= TpmLimit, NEW reqs, NEW L, NEW R, NEW E,
         Persist(now, lease, x, reqs, L, R, E),
         L \in [DOMAIN L -> Nat], \A r \in DOMAIN L : L[r] <= now + lease
  PROVE  LifeInv' /\ Level' = x /\ Touched' = now /\ UNCHANGED <<now, charged>>
<1>1. now \in Nat /\ TypeOK
  BY DEF LedgerInv, TypeOK
<1>2. /\ Ttl(lease) = ShortestTtl /\ Ttl(lease) >= lease /\ Ttl(lease) \in Nat
      /\ lease \in Nat
  BY OneLifetime, TtlFacts
<1>3. /\ tpm' = [bal |-> x, ts |-> now, exp |-> now + Ttl(lease)]
      /\ leases' = L /\ now' = now /\ charged' = charged
      /\ DOMAIN L # {} => holdsExp' = now + Ttl(lease)
  BY DEF Persist
<1>4. now + Ttl(lease) \in Nat
  BY <1>1, <1>2
<1>5. Level' = x /\ Touched' = now
  BY <1>1, <1>3, <1>4, JustWritten
<1>6. \A r \in DOMAIN leases' : leases'[r] <= holdsExp'
  BY <1>1, <1>2, <1>3
<1>7. \A r \in DOMAIN leases', l \in LeaseLengths : leases'[r] <= now' + l
  BY <1>3 DEF Uniform, OneLease
<1> QED
  BY <1>2, <1>3, <1>5, <1>6, <1>7 DEF LifeInv

\* The balance a call works with is the level plus the expired holds it returns.
LEMMA SweptLevel ==
  ASSUME LedgerInv, NEW E \in ReclaimSets(now)
  PROVE  /\ E \in SUBSET Eager!Expired /\ E \subseteq DOMAIN res /\ E \in SUBSET Rids
         /\ TpmAfterReclaim(now, E) = Eager!Capped(Level + Eager!Sum(E))
         /\ TpmAfterReclaim(now, E) \in Int /\ TpmAfterReclaim(now, E) <= TpmLimit
<1>1. TypeOK /\ LedgerConsistent /\ now \in Nat
  BY DEF LedgerInv, TypeOK
<1>2. E \in SUBSET ExpiredAt(now) /\ E \subseteq DOMAIN leases /\ E \in SUBSET Rids
  BY <1>1, ReclaimFacts DEF ReclaimSets, TypeOK
<1>3. E \in SUBSET Eager!Expired
  BY <1>1, <1>2, ExpiredIsExpired
<1>4. E \subseteq DOMAIN res
  BY <1>1, <1>2 DEF LedgerConsistent
<1>5. Eager!Sum(E) = Tokens(res, E)
  BY <1>4, SumIsTokens
<1>6. TpmAfterReclaim(now, E) = Eager!Capped(Level + Eager!Sum(E))
  BY <1>5 DEF TpmAfterReclaim, Eager!Capped, Smaller, Level
<1> QED
  BY <1>1, <1>2, <1>3, <1>4, <1>6, AdmissionBalance

\* An admission.
LEMMA AdmitMapped ==
  ASSUME Uniform, LedgerInv, LifeInv,
         NEW r \in Rids \ issued, NEW t \in Readings, NEW n \in Reserves, NEW slo \in Slos,
         NEW lease \in LeaseLengths, NEW E \in ReclaimSets(t),
         Admit(r, t, n, slo, lease, E)
  PROVE  LifeInv' /\ Eager!Next
<1> DEFINE bal  == TpmAfterReclaim(t, E)
           reqs == Refill(rpm, RpmLimit, RpmRate, t)
           kept == Without(leases, E)
           L    == With(kept, r, t + lease)
           R    == With(Without(res, E), r, n)
<1>1. TypeOK /\ now \in Nat /\ n \in Nat /\ lease \in Nat /\ lease > 0
  BY InputAssumption, OneLifetime, TtlFacts DEF LedgerInv, TypeOK
<1>2. t = now
  BY <1>1, ExactReading
<1>3. /\ E \in SUBSET Eager!Expired /\ E \subseteq DOMAIN res
      /\ bal = Eager!Capped(Level + Eager!Sum(E)) /\ bal \in Int /\ bal <= TpmLimit
  BY <1>2, SweptLevel
<1>4. n <= bal
  BY <1>1, <1>3, DecisionAdmit DEF Admit
<1>5. kept \in [DOMAIN leases \ E -> Nat] /\ \A q \in DOMAIN kept : kept[q] = leases[q]
  BY <1>1 DEF Without, TypeOK
<1>6. DOMAIN leases = DOMAIN res /\ r \notin DOMAIN leases
  BY DEF LedgerInv, LedgerConsistent
<1>7. /\ DOMAIN L = (DOMAIN res \ E) \cup {r} /\ DOMAIN R = (DOMAIN res \ E) \cup {r}
      /\ \A q \in DOMAIN L : L[q] = (IF q = r THEN now + lease ELSE leases[q])
      /\ \A q \in DOMAIN R : R[q] = (IF q = r THEN n ELSE res[q])
      /\ L \in [DOMAIN L -> Nat]
  BY <1>1, <1>2, <1>5, <1>6 DEF With, Without
<1>8. Persist(now, lease, bal - n, reqs - RpmUnit, L, R, E)
  BY <1>2 DEF Admit
<1>9. leases' = L /\ res' = R
  BY <1>8 DEF Persist
<1> HIDE DEF bal, reqs, kept, L, R
<1>10. \A q \in DOMAIN L : L[q] <= now + lease
  BY <1>1, <1>3, <1>6, <1>7 DEF LifeInv
<1>11. bal - n \in Int /\ bal - n <= TpmLimit
  BY <1>1, <1>3, LimitType
<1>12. LifeInv' /\ Level' = bal - n /\ Touched' = now /\ UNCHANGED <<now, charged>>
  BY <1>7, <1>8, <1>10, <1>11, PersistMapped
<1>13. Holds' = [q \in (DOMAIN Holds \ E) \cup {r} |->
                   IF q = r THEN [n |-> n, until |-> now + lease] ELSE Holds[q]]
  <2>1. DOMAIN Holds = DOMAIN res
    BY DEF Holds
  <2>2. Holds' = [q \in DOMAIN R |-> [n |-> R[q], until |-> L[q]]]
    BY <1>9 DEF Holds
  <2>3. ASSUME NEW q \in DOMAIN R
        PROVE  [n |-> R[q], until |-> L[q]]
                 = IF q = r THEN [n |-> n, until |-> now + lease] ELSE Holds[q]
    BY <1>7, <2>3 DEF Holds
  <2> QED
    BY <1>7, <2>1, <2>2, <2>3
<1>14. now + lease > now
  BY <1>1
<1>15. Eager!Admit(r, n, now + lease, E)
  BY <1>3, <1>4, <1>12, <1>13, <1>14 DEF Eager!Admit, Level, Touched, Holds
<1>16. r \in Rids \ DOMAIN Holds
  BY <1>6 DEF Holds
<1> QED
  BY <1>3, <1>12, <1>15, <1>16 DEF Eager!Next, Holds

\* A request turned away.
LEMMA ShedMapped ==
  ASSUME Uniform, LedgerInv, LifeInv,
         NEW t \in Readings, NEW n \in Reserves, NEW slo \in Slos,
         NEW lease \in LeaseLengths, NEW E \in ReclaimSets(t),
         Shed(t, n, slo, lease, E)
  PROVE  LifeInv' /\ Eager!Next
<1> DEFINE bal  == TpmAfterReclaim(t, E)
           reqs == Refill(rpm, RpmLimit, RpmRate, t)
           L    == Without(leases, E)
           R    == Without(res, E)
<1>1. TypeOK /\ now \in Nat
  BY DEF LedgerInv, TypeOK
<1>2. t = now
  BY <1>1, ExactReading
<1>3. /\ E \in SUBSET Eager!Expired
      /\ bal = Eager!Capped(Level + Eager!Sum(E)) /\ bal \in Int /\ bal <= TpmLimit
  BY <1>2, SweptLevel
<1>4. /\ DOMAIN L = DOMAIN res \ E /\ DOMAIN R = DOMAIN res \ E
      /\ \A q \in DOMAIN L : L[q] = leases[q] /\ q \in DOMAIN leases
      /\ \A q \in DOMAIN R : R[q] = res[q]
      /\ L \in [DOMAIN L -> Nat]
  BY <1>1 DEF Without, TypeOK, LedgerInv, LedgerConsistent
<1>5. Persist(now, lease, bal, reqs, L, R, E)
  BY <1>2 DEF Shed
<1>6. leases' = L /\ res' = R
  BY <1>5 DEF Persist
<1> HIDE DEF bal, reqs, L, R
<1>7. \A q \in DOMAIN L : L[q] <= now + lease
  BY <1>4 DEF LifeInv
<1>8. LifeInv' /\ Level' = bal /\ Touched' = now /\ UNCHANGED <<now, charged>>
  BY <1>3, <1>4, <1>5, <1>7, PersistMapped
<1>9. Holds' = [q \in DOMAIN Holds \ E |-> Holds[q]]
  BY <1>4, <1>6 DEF Holds
<1>10. Eager!Turn(E)
  BY <1>3, <1>8, <1>9 DEF Eager!Turn, Eager!Without, Level, Touched, Holds
<1> QED
  BY <1>3, <1>8, <1>10 DEF Eager!Next

\* A commit or a release.
LEMMA SettleMapped ==
  ASSUME Uniform, LedgerInv, LifeInv,
         NEW r \in Rids, NEW t \in Readings, NEW prompt \in Nat, NEW output \in Nat, NEW service,
         NEW lease \in LeaseLengths,
         prompt + output \in Reserves \cup {a[1] + a[2] : a \in Actuals} \cup {0},
         Settle(r, t, prompt, output, service, lease)
  PROVE  LifeInv' /\ Eager!Next
<1> DEFINE actual == prompt + output
           held   == IF r \in DOMAIN Holds THEN Holds[r].n ELSE 0
           x      == Smaller(Level + Refund(r, actual), TpmLimit)
<1>1. TypeOK /\ LedgerConsistent /\ now \in Nat
  BY DEF LedgerInv, TypeOK
<1>2. t = now
  BY <1>1, ExactReading
<1>3. /\ tpm' = [bal |-> x, ts |-> now, exp |-> now + Ttl(lease)]
      /\ now' = now /\ charged' = charged + actual
      /\ leases' = LeasesWithout(r) /\ res' = Without(res, {r})
      /\ holdsExp' = IF DOMAIN leases' = {} THEN -1 ELSE holdsExp
  BY <1>2 DEF Settle, CurrentBalance, Level
<1>4. Level \in Int /\ TpmLimit \in Nat
  BY <1>1, LevelType, LimitType
<1>5. Refund(r, actual) = held - actual /\ held \in Int
  BY <1>1, LimitType DEF Refund, Holds, TypeOK
<1>6. x = Eager!Capped(Level + held - actual) /\ x \in Int /\ x <= TpmLimit
  <2>1. Level + (held - actual) = Level + held - actual /\ Level + (held - actual) \in Int
    BY <1>4, <1>5
  <2> QED
    BY <1>4, <1>5, <2>1 DEF Smaller, Eager!Capped
<1>7. Ttl(lease) \in Nat /\ Ttl(lease) = ShortestTtl /\ now + Ttl(lease) \in Nat
  BY <1>1, OneLifetime
<1> HIDE DEF x, held
<1>8. Level' = x /\ Touched' = now
  BY <1>1, <1>3, <1>6, <1>7, JustWritten
<1>9. /\ DOMAIN leases' \subseteq DOMAIN leases
      /\ \A q \in DOMAIN leases' : leases'[q] = leases[q]
      /\ DOMAIN res' = DOMAIN res \ {r} /\ \A q \in DOMAIN res' : res'[q] = res[q]
      /\ DOMAIN leases' = DOMAIN res'
  BY <1>1, <1>3 DEF LeasesWithout, Without, LedgerConsistent
<1>10. LifeInv'
  BY <1>3, <1>7, <1>9 DEF LifeInv
<1>11. Holds' = [q \in DOMAIN Holds \ {r} |-> Holds[q]]
  BY <1>9 DEF Holds
<1>12. Eager!Settle(r, actual)
  BY <1>3, <1>6, <1>8, <1>11 DEF Eager!Settle, Eager!Without, Level, Touched, Holds, held
<1> QED
  BY <1>10, <1>12 DEF Eager!Next

\* A tick, whichever keys it takes: the level rises, or is forgotten when it
\* was left alone for a lifetime; the holds stay, or go once all have expired.
LEMMA TickMapped ==
  ASSUME Uniform, LedgerInv, LifeInv, Tick
  PROVE  LifeInv' /\ Eager!Next
<1> DEFINE tpmGone   == Exists(tpm) /\ tpm.exp < now + 1
           holdsGone == holdsExp >= 0 /\ holdsExp < now + 1
<1>1. /\ TypeOK /\ LedgerConsistent /\ now \in Nat /\ now' = now + 1
      /\ tpm \in Budget /\ TpmLimit \in Nat /\ TpmRate \in Nat
      /\ Exists(tpm) => tpm.ts <= now
  BY LimitType, RateAssumption DEF LedgerInv, ClocksBehind, TypeOK, Tick
<1>2. /\ tpm' = IF tpmGone THEN NoBudget ELSE tpm
      /\ leases' = IF holdsGone THEN Nothing ELSE leases
      /\ res' = IF holdsGone THEN Nothing ELSE res
      /\ holdsExp' = IF holdsGone THEN -1 ELSE holdsExp
      /\ charged' = charged
  BY DEF Tick
<1>3. ASSUME NEW r \in DOMAIN leases PROVE leases[r] \in Nat
  BY <1>1 DEF TypeOK
<1>4. Eager!HoldsPass
  <2>1. CASE ~holdsGone
    BY <1>2, <2>1 DEF Eager!HoldsPass
  <2>2. CASE holdsGone
    <3>1. \A r \in DOMAIN leases : leases[r] <= now
      BY <1>1, <1>3, <2>2 DEF LifeInv, TypeOK
    <3>2. Eager!Expired = DOMAIN res
      BY <1>1, <3>1, ExpiredIsExpired DEF ExpiredAt, LedgerConsistent
    <3>3. DOMAIN Holds = DOMAIN res /\ DOMAIN res' = {}
      BY <1>2, <2>2 DEF Holds, Nothing
    <3>4. Holds' = [r \in DOMAIN Holds \ DOMAIN res |-> Holds[r]]
      BY <3>3 DEF Holds
    <3> QED
      BY <3>2, <3>3, <3>4 DEF Eager!HoldsPass, Eager!Without, Holds
  <2> QED
    BY <2>1, <2>2
<1>5. LifeInv'
  <2>1. Exists(tpm)' => tpm'.exp = tpm'.ts + ShortestTtl
    BY <1>2 DEF LifeInv, Exists, NoBudget
  <2>2. \A r \in DOMAIN leases' : r \in DOMAIN leases /\ leases'[r] = leases[r] /\ holdsExp' = holdsExp
    BY <1>2 DEF Nothing
  <2>3. ASSUME NEW r \in DOMAIN leases', NEW lease \in LeaseLengths
        PROVE  leases'[r] <= now' + lease
    <3>1. leases[r] <= now + lease /\ leases[r] \in Nat /\ lease \in Nat
      BY <1>3, <2>2, <2>3, TtlFacts DEF LifeInv
    <3> QED
      BY <1>1, <2>2, <3>1
  <2> QED
    BY <2>1, <2>2, <2>3 DEF LifeInv
<1>6. CASE tpmGone
  <2>1. Level' = TpmLimit /\ Touched' = -1
    BY <1>2, <1>6 DEF Level, Touched, Refill, Exists, NoBudget
  <2>2. tpm.exp = tpm.ts + ShortestTtl /\ Touched = tpm.ts
    BY <1>6 DEF LifeInv, Touched
  <2>3. now' > Touched + ShortestTtl
    BY <1>1, <1>6, <2>2 DEF Budget
  <2>4. Eager!Forget
    BY <1>1, <1>2, <1>4, <2>1, <2>3 DEF Eager!Forget, Level, Touched
  <2> QED
    BY <1>5, <2>4 DEF Eager!Next
<1>7. CASE ~tpmGone
  <2>1. tpm' = tpm
    BY <1>2, <1>7
  <2>2. Touched' = Touched
    BY <2>1 DEF Touched
  <2>3. Level' = Eager!Capped(Level + TpmRate)
    <3>1. CASE ~Exists(tpm)
      <4>1. Level = TpmLimit /\ Level' = TpmLimit
        BY <2>1, <3>1 DEF Level, Refill
      <4> QED
        BY <1>1, <4>1 DEF Eager!Capped
    <3>2. CASE Exists(tpm)
      <4> DEFINE gain == (now - tpm.ts) * TpmRate
      <4>1. /\ now - tpm.ts \in Nat /\ now' - tpm.ts = (now - tpm.ts) + 1
            /\ Larger(0, now - tpm.ts) = now - tpm.ts
            /\ Larger(0, now' - tpm.ts) = (now - tpm.ts) + 1
        BY <1>1, <3>2 DEF Budget, Larger
      <4>2. ((now - tpm.ts) + 1) * TpmRate = gain + TpmRate /\ gain \in Nat
        BY <1>1, <4>1
      <4>3. tpm.bal \in Int
        BY <1>1 DEF Budget
      <4>4. Level = Smaller(tpm.bal + gain, TpmLimit)
        BY <3>2, <4>1 DEF Level, Refill
      <4>5. Level' = Smaller(tpm.bal + (gain + TpmRate), TpmLimit)
        BY <2>1, <3>2, <4>1, <4>2 DEF Level, Refill
      <4> HIDE DEF gain
      <4> QED
        BY <1>1, <4>2, <4>3, <4>4, <4>5 DEF Smaller, Eager!Capped
    <3> QED
      BY <3>1, <3>2
  <2>4. Eager!Tick
    BY <1>1, <1>2, <1>4, <2>2, <2>3 DEF Eager!Tick, Level, Touched
  <2> QED
    BY <1>5, <2>4 DEF Eager!Next
<1> QED
  BY <1>6, <1>7

-----------------------------------------------------------------------------
Mapped == <<now, Level, Touched, Holds, charged>>

\* The ledger starts full and empty-handed.
LEMMA InitMapped == Init => LifeInv /\ Eager!Init
<1> SUFFICES ASSUME Init PROVE LifeInv /\ Eager!Init
  OBVIOUS
<1>1. ~Exists(tpm) /\ DOMAIN leases = {} /\ DOMAIN res = {}
  BY DEF Init, Exists, NoBudget, Nothing
<1>2. LifeInv
  BY <1>1 DEF LifeInv
<1>3. Holds = [r \in {} |-> 0]
  BY <1>1 DEF Holds
<1>4. Level = TpmLimit /\ Touched = -1
  BY <1>1 DEF Level, Touched, Refill
<1> QED
  BY <1>2, <1>3, <1>4 DEF Init, Eager!Init, Level, Touched, Holds

\* Every step of the scripts is a step of the abstract ledger or leaves it alone.
LEMMA StepMapped ==
  ASSUME Uniform
  PROVE  LedgerInv /\ LifeInv /\ [Next]_vars => LifeInv' /\ [Eager!Next]_Mapped
<1> SUFFICES ASSUME LedgerInv, LifeInv, [Next]_vars
             PROVE  LifeInv' /\ [Eager!Next]_Mapped
  OBVIOUS
<1>1. CASE UNCHANGED vars
  <2>1. UNCHANGED <<now, tpm, leases, res, holdsExp, charged>>
    BY <1>1 DEF vars, redisVars, history
  <2>2. LifeInv'
    BY <2>1 DEF LifeInv, Exists
  <2>3. Level' = Level /\ Touched' = Touched /\ Holds' = Holds
    BY <2>1 DEF Level, Touched, Holds
  <2> QED
    BY <2>1, <2>2, <2>3 DEF Mapped
<1>2. CASE Reserve
  BY <1>2, AdmitMapped, ShedMapped DEF Reserve
<1>3. CASE Commit
  <2>1. PICK r \in Rids :
          \/ Replay(r)
          \/ \E t \in Readings, a \in Actuals, service \in Services, lease \in LeaseLengths :
               Settle(r, t, a[1], a[2], service, lease)
    BY <1>3 DEF Commit
  <2>2. CASE Replay(r)
    BY <1>1, <2>2 DEF Replay
  <2>3. ASSUME NEW t \in Readings, NEW a \in Actuals, NEW service \in Services,
               NEW lease \in LeaseLengths, Settle(r, t, a[1], a[2], service, lease)
        PROVE  LifeInv' /\ Eager!Next
    <3>1. a[1] \in Nat /\ a[2] \in Nat
      BY InputAssumption
    <3>2. a[1] + a[2] \in Reserves \cup {b[1] + b[2] : b \in Actuals} \cup {0}
      OBVIOUS
    <3> QED
      BY <2>3, <3>1, <3>2, SettleMapped
  <2> QED
    BY <2>1, <2>2, <2>3
<1>4. CASE Release
  <2>1. PICK r \in Rids, t \in Readings, lease \in LeaseLengths : Settle(r, t, 0, 0, 0, lease)
    BY <1>4 DEF Release
  <2>2. 0 + 0 \in Reserves \cup {a[1] + a[2] : a \in Actuals} \cup {0}
    OBVIOUS
  <2> QED
    BY <2>1, <2>2, SettleMapped
<1>5. CASE Tick
  BY <1>5, TickMapped
<1> QED
  BY <1>1, <1>2, <1>3, <1>4, <1>5 DEF Next

\* admission-scripts.ts: with exact clocks and one lease length the lazily
\* refilled budget under expiring keys is the ledger its comments describe, for
\* every limit, lease length, batch and set of requests.
THEOREM AdmissionImplementsLedger ==
  ASSUME Uniform
  PROVE  Spec => LedgerIsEager
<1>1. Init => LifeInv /\ Eager!Init
  BY InitMapped
<1>2. LedgerInv /\ LifeInv /\ [Next]_vars => LifeInv' /\ [Eager!Next]_Mapped
  BY StepMapped
<1> QED
  BY <1>1, <1>2, LedgerInvariant, PTL DEF Spec, LedgerIsEager, Eager!Spec, Mapped, Level, Touched, Holds

-----------------------------------------------------------------------------
(* Lifetimes, whatever the leases and the lag of the clocks *)

\* A hold placed at `placed' under the lease `long', whose collections were last
\* renewed under `some' lease and the budget key under an`other', neither before
\* that: what is left of their lives follows.
Renewed(until, placed, long, some, other, holds, key) ==
  /\ until <= placed + long
  /\ placed + Ttl(some) <= holds
  /\ placed + Ttl(other) <= key

\* Every hold in flight was placed at some past time, and its keys live for a
\* lifetime from then on at least, but the budget key may have lapsed since.
KeyInv ==
  \A r \in DOMAIN leases :
    \E placed \in 0 .. now, long \in LeaseLengths, some \in LeaseLengths, other \in LeaseLengths :
      Renewed(leases[r], placed, long, some, other, holdsExp, Larger(now, tpm.exp))

\* What both outcomes of a reserve call write.
LEMMA PersistKeys ==
  ASSUME TypeOK, NEW lease \in LeaseLengths, NEW t, NEW x, NEW reqs,
         NEW L, NEW R, NEW E, Persist(t, lease, x, reqs, L, R, E),
         \A r \in DOMAIN L : \E placed \in 0 .. now, long \in LeaseLengths : L[r] <= placed + long
  PROVE  KeyInv'
<1>1. now \in Nat /\ Ttl(lease) \in Nat
  BY TtlFacts DEF TypeOK
<1>2. /\ tpm'.exp = now + Ttl(lease) /\ leases' = L /\ now' = now
      /\ holdsExp' = IF DOMAIN L = {} THEN -1 ELSE now + Ttl(lease)
  BY DEF Persist
<1>3. ASSUME NEW r \in DOMAIN leases'
      PROVE  \E placed \in 0 .. now', long \in LeaseLengths, some \in LeaseLengths, other \in LeaseLengths :
               Renewed(leases'[r], placed, long, some, other, holdsExp', Larger(now', tpm'.exp))
  <2>1. PICK placed \in 0 .. now, long \in LeaseLengths : L[r] <= placed + long
    BY <1>2
  <2>2. holdsExp' = now + Ttl(lease) /\ Larger(now', tpm'.exp) = now + Ttl(lease)
    BY <1>1, <1>2 DEF Larger
  <2>3. placed + Ttl(lease) <= now + Ttl(lease)
    BY <1>1
  <2>4. Renewed(leases'[r], placed, long, lease, lease, holdsExp', Larger(now', tpm'.exp))
    BY <1>2, <2>1, <2>2, <2>3 DEF Renewed
  <2> QED
    BY <1>2, <2>4
<1> QED
  BY <1>3 DEF KeyInv

\* A reserve call: the holds it keeps were placed before, its own is placed now,
\* its lease counted from a clock reading that is no later.
LEMMA ReserveKeys == LedgerInv /\ KeyInv /\ Reserve => KeyInv'
<1> SUFFICES ASSUME LedgerInv, KeyInv,
                    NEW t \in Readings, NEW n \in Reserves, NEW slo \in Slos,
                    NEW lease \in LeaseLengths, NEW E \in ReclaimSets(t),
                    \/ \E r \in Rids \ issued : Admit(r, t, n, slo, lease, E)
                    \/ Shed(t, n, slo, lease, E)
             PROVE  KeyInv'
  BY DEF Reserve
<1> DEFINE kept == Without(leases, E)
<1>1. TypeOK /\ now \in Nat /\ t \in Nat /\ t <= now /\ lease \in Nat
  BY ReadingFacts, TtlFacts DEF LedgerInv, TypeOK
<1>2. \A r \in DOMAIN kept : r \in DOMAIN leases /\ kept[r] = leases[r]
  BY DEF Without
<1>3. \A r \in DOMAIN kept : \E placed \in 0 .. now, long \in LeaseLengths : kept[r] <= placed + long
  BY <1>2 DEF KeyInv, Renewed
<1>4. ASSUME NEW r \in Rids \ issued, Admit(r, t, n, slo, lease, E) PROVE KeyInv'
  <2> DEFINE L == With(kept, r, t + lease)
  <2>1. /\ DOMAIN L = DOMAIN kept \cup {r}
        /\ \A q \in DOMAIN L : L[q] = (IF q = r THEN t + lease ELSE kept[q])
    BY DEF With
  <2>2. \E x, reqs, R : Persist(t, lease, x, reqs, L, R, E)
    BY <1>4 DEF Admit
  <2>3. now \in 0 .. now /\ t + lease <= now + lease
    BY <1>1
  <2> HIDE DEF kept, L
  <2>4. \A q \in DOMAIN L : \E placed \in 0 .. now, long \in LeaseLengths : L[q] <= placed + long
    BY <1>3, <2>1, <2>3
  <2> QED
    BY <1>1, <2>2, <2>4, PersistKeys
<1>5. CASE Shed(t, n, slo, lease, E)
  <2>1. \E x, reqs, R : Persist(t, lease, x, reqs, kept, R, E)
    BY <1>5 DEF Shed
  <2> HIDE DEF kept
  <2> QED
    BY <1>1, <1>3, <2>1, PersistKeys
<1> QED
  BY <1>4, <1>5

\* A settlement renews the budget key, by its own lease, and takes a hold away.
LEMMA SettleKeys ==
  ASSUME LedgerInv, KeyInv,
         NEW r, NEW t, NEW prompt, NEW output, NEW service, NEW lease \in LeaseLengths,
         Settle(r, t, prompt, output, service, lease)
  PROVE  KeyInv'
<1>1. /\ tpm'.exp = now + Ttl(lease) /\ now' = now
      /\ leases' = LeasesWithout(r)
      /\ holdsExp' = IF DOMAIN leases' = {} THEN -1 ELSE holdsExp
  BY DEF Settle
<1>2. \A q \in DOMAIN leases' : q \in DOMAIN leases /\ leases'[q] = leases[q]
  BY <1>1 DEF LeasesWithout, Without
<1>3. now \in Nat /\ Ttl(lease) \in Nat
  BY TtlFacts DEF LedgerInv, TypeOK
<1>4. ASSUME NEW q \in DOMAIN leases'
      PROVE  \E placed \in 0 .. now', long \in LeaseLengths, some \in LeaseLengths, other \in LeaseLengths :
               Renewed(leases'[q], placed, long, some, other, holdsExp', Larger(now', tpm'.exp))
  <2>1. PICK placed \in 0 .. now, long \in LeaseLengths, some \in LeaseLengths, other \in LeaseLengths :
          Renewed(leases[q], placed, long, some, other, holdsExp, Larger(now, tpm.exp))
    BY <1>2 DEF KeyInv
  <2>2. holdsExp' = holdsExp /\ Larger(now', tpm'.exp) = now + Ttl(lease)
    BY <1>1, <1>3 DEF Larger
  <2>3. placed + Ttl(lease) <= now + Ttl(lease)
    BY <1>3
  <2>4. Renewed(leases'[q], placed, long, some, lease, holdsExp', Larger(now', tpm'.exp))
    BY <1>2, <2>1, <2>2, <2>3 DEF Renewed
  <2> QED
    BY <1>1, <2>4
<1> QED
  BY <1>4 DEF KeyInv

\* A tick takes the collections with their holds, and the budget key not before
\* its time.
LEMMA TickKeys == LedgerInv /\ KeyInv /\ Tick => KeyInv'
<1> SUFFICES ASSUME LedgerInv, KeyInv, Tick PROVE KeyInv'
  OBVIOUS
<1> DEFINE tpmGone   == Exists(tpm) /\ tpm.exp < now + 1
           holdsGone == holdsExp >= 0 /\ holdsExp < now + 1
<1>1. now \in Nat /\ now' = now + 1 /\ tpm.exp \in Int
  BY DEF LedgerInv, TypeOK, Budget, Tick
<1>2. /\ tpm' = IF tpmGone THEN NoBudget ELSE tpm
      /\ leases' = IF holdsGone THEN Nothing ELSE leases
      /\ holdsExp' = IF holdsGone THEN -1 ELSE holdsExp
  BY DEF Tick
<1>3. ASSUME NEW r \in DOMAIN leases'
      PROVE  r \in DOMAIN leases /\ leases'[r] = leases[r] /\ holdsExp' = holdsExp
  BY <1>2 DEF Nothing
<1>4. tpm'.exp = (IF tpmGone THEN -1 ELSE tpm.exp)
  BY <1>2 DEF NoBudget
<1>5. Larger(now, tpm.exp) <= Larger(now', tpm'.exp) /\ Larger(now', tpm'.exp) \in Int
  BY <1>1, <1>4 DEF Larger
<1>6. ASSUME NEW r \in DOMAIN leases'
      PROVE  \E placed \in 0 .. now', long \in LeaseLengths, some \in LeaseLengths, other \in LeaseLengths :
               Renewed(leases'[r], placed, long, some, other, holdsExp', Larger(now', tpm'.exp))
  <2>1. PICK placed \in 0 .. now, long \in LeaseLengths, some \in LeaseLengths, other \in LeaseLengths :
          Renewed(leases[r], placed, long, some, other, holdsExp, Larger(now, tpm.exp))
    BY <1>3 DEF KeyInv
  <2>2. placed \in 0 .. now' /\ placed \in Nat /\ Ttl(other) \in Nat
    BY <1>1, TtlFacts
  <2> DEFINE a == Larger(now, tpm.exp)
             b == Larger(now', tpm'.exp)
  <2>3. a \in Int /\ b \in Int /\ a <= b
    BY <1>1, <1>5 DEF Larger
  <2>4. placed + Ttl(other) <= a
    BY <2>1 DEF Renewed
  <2> HIDE DEF a, b
  <2>5. placed + Ttl(other) <= b
    BY <2>2, <2>3, <2>4
  <2>6. Renewed(leases'[r], placed, long, some, other, holdsExp', b)
    BY <1>3, <2>1, <2>5 DEF Renewed
  <2> QED
    BY <2>2, <2>6 DEF b
<1> QED
  BY <1>6 DEF KeyInv

\* The lifetimes a hold can count on, whichever leases the replicas hold.
LEMMA KeyInvariant == Spec => [](TypeOK /\ KeyInv)
<1>1. Init => KeyInv
  BY DEF Init, Nothing, KeyInv
<1>2. LedgerInv /\ KeyInv /\ [Next]_vars => KeyInv'
  <2> SUFFICES ASSUME LedgerInv, KeyInv, [Next]_vars PROVE KeyInv'
    OBVIOUS
  <2>1. CASE UNCHANGED vars
    BY <2>1 DEF vars, redisVars, KeyInv
  <2>2. CASE Reserve
    BY <2>2, ReserveKeys
  <2>3. CASE Commit \/ Release
    BY <2>1, <2>3, SettleKeys DEF Commit, Release, Replay
  <2>4. CASE Tick
    BY <2>4, TickKeys
  <2> QED
    BY <2>1, <2>2, <2>3, <2>4 DEF Next
<1> QED
  BY <1>1, <1>2, LedgerInvariant, TypeCorrect, PTL DEF Spec

\* ttlSeconds of one lease against another.
LEMMA TtlCovers ==
  ASSUME NEW l \in LeaseLengths
  PROVE  l \in Nat /\ Ttl(l) \in Nat /\ 2 * l + Window <= Ttl(l)
BY PolicyAssumption, RateAssumption DEF Ttl, Larger

\* admission.service.ts: "budget keys must outlive the longest lease".  Whichever
\* leases the replicas hold, however much their clocks lag and whoever settles,
\* sheds or retries in between, the keys of a hold fall short of its lease by no
\* more than some lease exceeds twice another and a minute.
THEOREM KeysOutliveLeases == Spec => []BudgetOutlivesLeases
<1>1. TypeOK /\ KeyInv => BudgetOutlivesLeases
  <2> SUFFICES ASSUME TypeOK, KeyInv, NEW r \in DOMAIN leases
               PROVE  \E long \in LeaseLengths, other \in LeaseLengths :
                        leases[r] <= Larger(now, Smaller(holdsExp, tpm.exp)) + Uncovered(long, other)
    BY DEF BudgetOutlivesLeases
  <2>1. PICK placed \in 0 .. now, long \in LeaseLengths, some \in LeaseLengths, other \in LeaseLengths :
          Renewed(leases[r], placed, long, some, other, holdsExp, Larger(now, tpm.exp))
    BY DEF KeyInv
  <2>2. /\ leases[r] \in Nat /\ now \in Nat /\ placed \in Nat /\ holdsExp \in Int /\ tpm.exp \in Int
        /\ Window \in Nat
    BY RateAssumption DEF TypeOK, Budget
  <2>3. /\ long \in Nat /\ some \in Nat /\ other \in Nat
        /\ placed + (2 * some + Window) <= holdsExp
        /\ placed + (2 * other + Window) <= Larger(now, tpm.exp)
        /\ leases[r] <= placed + long
    BY <2>1, <2>2, TtlCovers DEF Renewed, Larger
  <2>4. \/ leases[r] <= Larger(now, Smaller(holdsExp, tpm.exp)) + Uncovered(long, some)
        \/ leases[r] <= Larger(now, Smaller(holdsExp, tpm.exp)) + Uncovered(long, other)
    <3> DEFINE a == leases[r]
    <3>1. a \in Nat /\ a <= placed + long
      BY <2>2, <2>3
    <3> HIDE DEF a
    <3>2. \/ a <= Larger(now, Smaller(holdsExp, tpm.exp)) + Uncovered(long, some)
          \/ a <= Larger(now, Smaller(holdsExp, tpm.exp)) + Uncovered(long, other)
      BY <2>2, <2>3, <3>1 DEF Larger, Smaller, Uncovered
    <3> QED
      BY <3>2 DEF a
  <2> QED
    BY <2>4
<1> QED
  BY <1>1, KeyInvariant, PTL

\* The case the comment has in mind: if no lease exceeds twice another and a
\* minute, the keys do outlive every lease.
THEOREM CoveredLeasesKept ==
  ASSUME \A long, other \in LeaseLengths : long <= 2 * other + Window
  PROVE  Spec => [](\A r \in DOMAIN leases : leases[r] <= Larger(now, Smaller(holdsExp, tpm.exp)))
<1>1. TypeOK /\ BudgetOutlivesLeases
        => \A r \in DOMAIN leases : leases[r] <= Larger(now, Smaller(holdsExp, tpm.exp))
  <2> SUFFICES ASSUME TypeOK, BudgetOutlivesLeases, NEW r \in DOMAIN leases
               PROVE  leases[r] <= Larger(now, Smaller(holdsExp, tpm.exp))
    OBVIOUS
  <2>1. PICK long \in LeaseLengths, other \in LeaseLengths :
          leases[r] <= Larger(now, Smaller(holdsExp, tpm.exp)) + Uncovered(long, other)
    BY DEF BudgetOutlivesLeases
  <2>2. Uncovered(long, other) = 0
    BY PolicyAssumption, RateAssumption DEF Uncovered, Larger
  <2>3. Larger(now, Smaller(holdsExp, tpm.exp)) \in Int
    BY DEF TypeOK, Budget, Larger, Smaller
  <2> QED
    BY <2>1, <2>2, <2>3
<1> QED
  BY <1>1, TypeCorrect, KeysOutliveLeases, PTL

-----------------------------------------------------------------------------
(* Retry-after *)

\* Division with remainder.
LEMMA Quotient ==
  ASSUME NEW a \in Nat, NEW b \in Nat, b > 0
  PROVE  /\ a \div b \in Nat
         /\ (a \div b) * b <= a
         /\ a < (a \div b) * b + b
OBVIOUS

\* CeilDiv is the smallest whole number of divisors that covers a.
LEMMA Ceiling ==
  ASSUME NEW a \in Nat, NEW b \in Nat, a > 0, b > 0
  PROVE  /\ CeilDiv(a, b) \in Nat /\ CeilDiv(a, b) > 0
         /\ CeilDiv(a, b) * b \in Nat /\ CeilDiv(a, b) * b >= a
         /\ (CeilDiv(a, b) - 1) * b \in Nat /\ (CeilDiv(a, b) - 1) * b < a
<1> DEFINE c == a + b - 1
           q == c \div b
<1>1. c \in Nat /\ q \in Nat /\ q * b <= c /\ c < q * b + b
  <2>1. c \in Nat
    OBVIOUS
  <2> HIDE DEF c
  <2> QED
    BY <2>1, Quotient
<1>2. CeilDiv(a, b) = q
  BY DEF CeilDiv
<1>3. q * b \in Nat /\ q * b <= a + b - 1 /\ a + b - 1 < q * b + b
  <2>1. q * b <= a + b - 1 /\ a + b - 1 < q * b + b
    BY <1>1
  <2> HIDE DEF q
  <2> QED
    BY <1>1, <2>1
<1> HIDE DEF c, q
<1>4. q > 0
  <2>1. 0 * b = 0
    OBVIOUS
  <2> QED
    BY <1>1, <1>3, <2>1
<1>5. (q - 1) * b = q * b - b
  BY <1>1
<1> DEFINE m == q * b
<1>6. m \in Nat /\ m <= a + b - 1 /\ a + b - 1 < m + b
  BY <1>3
<1> HIDE DEF m
<1>7. m >= a /\ m - b < a
  BY <1>6
<1>8. (q - 1) * b \in Nat
  BY <1>1, <1>4
<1> QED
  BY <1>1, <1>2, <1>4, <1>5, <1>6, <1>7, <1>8 DEF m

\* Either budget, found at bal, refills to what is needed in exactly the number
\* of ticks a Retry-After names.
LEMMA WaitIsExact ==
  ASSUME NEW bal \in Int, NEW cap \in Nat, NEW rate \in Nat, rate > 0,
         NEW need \in Nat, need <= cap, bal < need, now \in Nat,
         NEW wait, wait = CeilDiv(need - bal, rate)
  PROVE  /\ Refill([bal |-> bal, ts |-> now, exp |-> now + wait], cap, rate, now + wait) >= need
         /\ Refill([bal |-> bal, ts |-> now, exp |-> now + (wait - 1)], cap, rate, now + (wait - 1)) < need
<1> DEFINE gap == need - bal
           W   == wait * rate
           V   == (wait - 1) * rate
<1>1. gap \in Nat /\ gap > 0
  OBVIOUS
<1>2. wait \in Nat /\ wait > 0 /\ W \in Nat /\ W >= gap /\ V \in Nat /\ V < gap
  <2>1. wait = CeilDiv(gap, rate)
    OBVIOUS
  <2> HIDE DEF gap
  <2> QED
    BY <1>1, <2>1, Ceiling
<1>3. ASSUME NEW d \in Nat
      PROVE  Refill([bal |-> bal, ts |-> now, exp |-> now + d], cap, rate, now + d)
               = Smaller(bal + d * rate, cap)
  <2>1. now + d >= 0 /\ Larger(0, now + d - now) = d
    BY DEF Larger
  <2> QED
    BY <2>1 DEF Refill, Exists
<1>4. Smaller(bal + W, cap) >= need /\ Smaller(bal + V, cap) < need
  <2> HIDE DEF W, V
  <2> QED
    BY <1>2 DEF Smaller, gap
<1>5. wait - 1 \in Nat
  BY <1>2
<1> QED
  BY <1>2, <1>3, <1>4, <1>5

\* retry_after_ms of admission-scripts.ts: whoever is shed for lack of tokens or
\* of requests, waits as told and meets no competing call finds enough, and one
\* tick earlier too little; for any rates, any debt and any backlog.
THEOREM AdmissionRetryAfterExact == Spec => []RetryAfterExact
<1>1. TypeOK => RetryAfterExact
  <2> SUFFICES ASSUME TypeOK, NEW n \in Reserves
               PROVE  LET bal  == Refill(tpm, TpmLimit, TpmRate, now)
                          reqs == Refill(rpm, RpmLimit, RpmRate, now)
                          why  == Decision(bal, reqs, Inflight, n, 0)
                          wait == RetryAfter(why, bal, reqs, n)
                          tpmAt(d) == Refill([bal |-> bal, ts |-> now, exp |-> now + d],
                                             TpmLimit, TpmRate, now + d)
                          rpmAt(d) == Refill([bal |-> reqs, ts |-> now, exp |-> now + d],
                                             RpmLimit, RpmRate, now + d)
                      IN  /\ why = "tpm_exhausted" => tpmAt(wait) >= n /\ tpmAt(wait - 1) < n
                          /\ why = "rpm_exhausted" => rpmAt(wait) >= RpmUnit /\ rpmAt(wait - 1) < RpmUnit
    BY DEF RetryAfterExact
  <2> DEFINE bal  == Refill(tpm, TpmLimit, TpmRate, now)
             reqs == Refill(rpm, RpmLimit, RpmRate, now)
             why  == Decision(bal, reqs, Inflight, n, 0)
             wait == RetryAfter(why, bal, reqs, n)
  <2>1. bal \in Int /\ reqs \in Int /\ n \in Nat /\ now \in Nat
    BY RefillFacts, LimitType, RateAssumption, InputAssumption DEF TypeOK
  <2>2. /\ why = "tpm_exhausted" => ~(n > TpmLimit) /\ bal < n
        /\ why = "rpm_exhausted" => reqs < RpmUnit
    BY DEF Decision
  <2>3. /\ why = "tpm_exhausted" => wait = CeilDiv(n - bal, TpmRate)
        /\ why = "rpm_exhausted" => wait = CeilDiv(RpmUnit - reqs, RpmRate)
    BY DEF RetryAfter
  <2> HIDE DEF bal, reqs, why, wait
  <2>4. why = "tpm_exhausted" =>
          /\ Refill([bal |-> bal, ts |-> now, exp |-> now + wait], TpmLimit, TpmRate, now + wait) >= n
          /\ Refill([bal |-> bal, ts |-> now, exp |-> now + (wait - 1)],
                    TpmLimit, TpmRate, now + (wait - 1)) < n
    BY <2>1, <2>2, <2>3, WaitIsExact, LimitType, RateAssumption
  <2>5. why = "rpm_exhausted" =>
          /\ Refill([bal |-> reqs, ts |-> now, exp |-> now + wait], RpmLimit, RpmRate, now + wait) >= RpmUnit
          /\ Refill([bal |-> reqs, ts |-> now, exp |-> now + (wait - 1)],
                    RpmLimit, RpmRate, now + (wait - 1)) < RpmUnit
    BY <2>1, <2>2, <2>3, WaitIsExact, LimitType, RateAssumption, RequestAssumption
  <2> QED
    BY <2>4, <2>5 DEF bal, reqs, why, wait
<1> QED
  BY <1>1, TypeCorrect, PTL

-----------------------------------------------------------------------------
(* The effective rate *)

\* admission-scripts.ts: "the effective rate does not depend on how often
\* requests are admitted".  It is so whenever callers read exact clocks, until
\* a debt disappears with its key: the two leaks of Conservation are the only ones.
THEOREM ExactClocksKeepTheRate ==
  ASSUME MaxLag = 0
  PROVE  Spec => [](forgiven = 0 => EffectiveRate)
<1> DEFINE NoRewind == rewound = 0
<1>1. Init => NoRewind
  BY DEF Init
<1>2. LedgerInv /\ NoRewind /\ [Next]_vars => NoRewind'
  <2> SUFFICES ASSUME LedgerInv, NoRewind, [Next]_vars PROVE NoRewind'
    OBVIOUS
  <2>1. ASSUME NEW t \in Readings PROVE Rewind(tpm, t) = 0
    <3>1. now \in Nat /\ tpm \in Budget
      BY DEF LedgerInv, TypeOK
    <3>2. t = now
      BY <3>1 DEF Readings, Larger
    <3> QED
      BY <3>1, <3>2 DEF Rewind, Larger, LedgerInv, ClocksBehind, Budget
  <2>2. CASE Reserve
    BY <2>1, <2>2 DEF Reserve, Admit, Shed, Persist
  <2>3. CASE Commit
    BY <2>1, <2>3 DEF Commit, Replay, Settle, vars, history
  <2>4. CASE Release
    BY <2>1, <2>4 DEF Release, Settle
  <2>5. CASE Tick
    BY <2>5 DEF Tick
  <2>6. CASE UNCHANGED vars
    BY <2>6 DEF vars, history
  <2> QED
    BY <2>2, <2>3, <2>4, <2>5, <2>6 DEF Next
<1>3. Conservation /\ NoRewind /\ TypeOK => (forgiven = 0 => EffectiveRate)
  <2> SUFFICES ASSUME Conservation, rewound = 0, TypeOK, forgiven = 0 PROVE EffectiveRate
    OBVIOUS
  <2>1. now \in Nat /\ now + rewound = now
    BY DEF TypeOK
  <2>2. TpmLimit + TpmRate * now \in Int
    BY <2>1, LimitType, RateAssumption
  <2>3. TpmLimit + TpmRate * now + forgiven = TpmLimit + TpmRate * now
    BY <2>2
  <2> QED
    BY <2>1, <2>3 DEF Conservation, EffectiveRate
<1>4. Spec => []NoRewind
  BY <1>1, <1>2, LedgerInvariant, PTL DEF Spec
<1> QED
  BY <1>3, <1>4, TokensConserved, TypeCorrect, PTL
=============================================================================
