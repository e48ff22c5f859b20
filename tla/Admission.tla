----------------------------- MODULE Admission -----------------------------
(***************************************************************************)
(* Reserve / commit accounting of the LLM admission service for ONE        *)
(* (tenant, model) pair, as the Lua scripts of src/llm/admission-scripts.ts*)
(* keep it in Redis and src/llm/admission.service.ts calls them.           *)
(*                                                                         *)
(* Redis runs a script to completion, so each script is one action.  What  *)
(* the gateway replicas do not share is the clock: a script is handed the  *)
(* caller's Date.now(), read before the network hop, so its `t' may lag    *)
(* behind the present by up to MaxLag.  Key expiry follows Redis's clock.  *)
(*                                                                         *)
(* Units.  Time is in ticks, Window ticks to the minute.  Token amounts    *)
(* are in units small enough for a tick's refill (limit/60 per second) to  *)
(* be a whole number: TpmLimit = TpmRate * Window.  RpmUnit of the RPM     *)
(* budget's units make one request.                                        *)
(***************************************************************************)
EXTENDS Integers, FiniteSets

CONSTANTS
  Rids,            \* reservation ids: randomUUID(), never issued twice
  Window,          \* ticks in the minute over which a full budget refills
  TpmRate,         \* tokensPerMinute / 60, per tick
  RpmRate,         \* requestsPerMinute / 60, per tick
  RpmUnit,         \* units of the RPM budget that one request costs
  LeaseLengths,    \* leaseSeconds of the policies replicas may hold at a time
  MaxConcurrency,  \* policy.maxConcurrency
  MaxQueueDepth,   \* policy.maxQueueDepth
  ReclaimBatch,    \* RECLAIM_BATCH
  IdempotencyTtl,  \* IDEMPOTENCY_TTL_SECONDS
  DefaultService,  \* COLD_START_SERVICE_MS
  Reserves,        \* token estimates a reserve call may carry
  Slos,            \* sloTtftMs a reserve call may carry, 0 for none
  Actuals,         \* <<promptTokens, outputTokens>> a commit may report
  Services,        \* serviceMs a commit may report, 0 for unknown
  RetryHorizon,    \* how long after a settlement its client may still retry
  MaxLag,          \* bound on how far a caller's clock reading lags
  MaxRewind,       \* model bound on the ticks a refill clock is moved back in all
  MaxClock         \* model bound on the clock

TpmLimit == TpmRate * Window
RpmLimit == RpmRate * Window

ASSUME RidsAssumption == IsFiniteSet(Rids)
ASSUME RateAssumption ==
  /\ Window \in Nat \ {0}
  /\ TpmRate \in Nat \ {0}
  /\ RpmRate \in Nat \ {0}
  /\ RpmUnit \in Nat \ {0}
\* requestsPerMinute is at least 1 (admission.routes.ts, policySchema): a full
\* budget is worth a request.
ASSUME RequestAssumption == RpmUnit <= RpmLimit
ASSUME PolicyAssumption ==
  /\ LeaseLengths \subseteq Nat \ {0}
  /\ MaxConcurrency \in Nat \ {0}
  /\ MaxQueueDepth \in Nat
  /\ ReclaimBatch \in Nat \ {0}
  /\ IdempotencyTtl \in Nat \ {0}
  /\ DefaultService \in Nat \ {0}
ASSUME InputAssumption ==
  /\ Reserves \subseteq Nat
  /\ Slos \subseteq Nat
  /\ Actuals \subseteq Nat \X Nat
  /\ Services \subseteq Nat
  /\ RetryHorizon \in Nat
ASSUME BoundAssumption == MaxLag \in Nat /\ MaxRewind \in Nat /\ MaxClock \in Nat

VARIABLES
  now,        \* the present, as Redis's clock tells it
  tpm,        \* keys :tpm and :tpm:ts  [bal, ts, exp]; always SET together
  rpm,        \* keys :rpm and :rpm:ts  [bal, ts, exp]
  leases,     \* zset :leases, rid -> lease deadline
  res,        \* hash :res, rid -> tokens held
  holdsExp,   \* deadline of :leases and :res, EXPIREd together
  settled,    \* keys :settled:<rid>, rid -> key deadline
  stats       \* hash :stats [svc, out, peak, exp], 0 where a field is absent

VARIABLES     \* history: what the scripts did, whether or not their replies arrived
  admits,     \* reservations admitted
  settles,    \* reservations settled
  lates,      \* those of them whose hold was gone (status 2)
  reclaims    \* leases swept

VARIABLES     \* history, read by no action's guard but RetryHorizon's
  issued,     \* ids handed to clients
  charges,    \* rid -> times its usage was charged
  settledAt,  \* rid -> when it was first charged
  charged,    \* tokens charged by all commits
  rewound,    \* ticks by which tpm:ts was moved back
  rpmRewound, \* ticks by which rpm:ts was moved back
  forgiven,   \* tokens of debt that disappeared with an expired tpm key
  dropped     \* holds that disappeared with an expired :leases key

redisVars   == <<tpm, rpm, leases, res, holdsExp, settled, stats>>
outcomes    == <<admits, settles, lates, reclaims>>
history     == <<issued, charges, settledAt, charged, rewound, rpmRewound, forgiven, dropped>>
vars        == <<now, redisVars, outcomes, history>>

-----------------------------------------------------------------------------
(* Helpers *)

Larger(a, b)  == IF a >= b THEN a ELSE b
Smaller(a, b) == IF a <= b THEN a ELSE b
FloorDiv(a, b) == a \div b    \* faulty variant of CeilDiv
CeilDiv(a, b) == (a + b - 1) \div b

Without(f, S)  == [x \in DOMAIN f \ S |-> f[x]]
With(f, x, v)  == [y \in DOMAIN f \cup {x} |-> IF y = x THEN v ELSE f[y]]
Nothing        == [x \in {} |-> 0]

\* The sum of f[r] over r \in S, counted unit by unit: a hold is at most TpmLimit.
Tokens(f, S) == Cardinality({p \in S \X (1 .. TpmLimit) : p[2] <= f[p[1]]})

\* A budget whose keys do not exist, and the empty statistics hash.
NoBudget == [bal |-> 0, ts |-> 0, exp |-> -1]
NoStats  == [svc |-> 0, out |-> 0, peak |-> 0, exp |-> -1]
Exists(key) == key.exp >= 0

\* Faulty variant: one lease and a minute, enough for the caller's own lease only.
TtlOneLease(lease) == Larger(2 * Window, lease + Window)

\* ttlSeconds: Math.max(120, leaseSeconds * 2 + 60).
Ttl(lease) == Larger(2 * Window, 2 * lease + Window)

-----------------------------------------------------------------------------
(* What the scripts compute *)

\* Faulty variant: accrues up to Redis's time, though ts is the caller's t.
RefillToNow(b, capacity, rate, t) ==
  IF Exists(b) THEN Smaller(b.bal + Larger(0, now - b.ts) * rate, capacity)
               ELSE capacity

\* refill / current_balance: a missing key reads as a full budget.
Refill(b, capacity, rate, t) ==
  IF Exists(b) THEN Smaller(b.bal + Larger(0, t - b.ts) * rate, capacity)
               ELSE capacity

ExpiredAt(t) == {r \in DOMAIN leases : leases[r] <= t}

\* Faulty variant: sweeps only once the queue is full.
ReclaimSetsWhenFull(t) ==
  IF Cardinality(DOMAIN leases) < MaxConcurrency + MaxQueueDepth THEN {{}}
  ELSE {E \in SUBSET ExpiredAt(t) :
          Cardinality(E) = Smaller(ReclaimBatch, Cardinality(ExpiredAt(t)))}

\* ZRANGEBYSCORE -inf t LIMIT 0 batch: the first expired leases by deadline.
\* Ties go by member, which is a random UUID.
ReclaimSets(t) ==
  {E \in SUBSET ExpiredAt(t) :
     /\ Cardinality(E) = Smaller(ReclaimBatch, Cardinality(ExpiredAt(t)))
     /\ \A a \in E, b \in ExpiredAt(t) \ E : leases[a] <= leases[b]}

\* Faulty variant: the sweep removes the holds and returns nothing.
TpmAfterSweep(t, E) == Refill(tpm, TpmLimit, TpmRate, t)

\* The balance an admission works with: refilled, plus the holds reclaimed.
TpmAfterReclaim(t, E) ==
  Smaller(Refill(tpm, TpmLimit, TpmRate, t) + Tokens(res, E), TpmLimit)

AvgService == IF stats.svc = 0 THEN DefaultService ELSE stats.svc

PredictedWait(inflight) ==
  IF inflight >= MaxConcurrency
  THEN CeilDiv((inflight + 1 - MaxConcurrency) * AvgService, MaxConcurrency)
  ELSE 0

\* Faulty variants: any balance above zero is enough; a request is let through
\* on an empty request budget; the queue has one place too many.
DecisionAnyBalance(bal, reqs, inflight, n, slo) ==
  IF reqs < RpmUnit THEN "rpm_exhausted"
  ELSE IF bal <= 0 THEN "tpm_exhausted"
  ELSE IF inflight >= MaxConcurrency + MaxQueueDepth THEN "queue_full"
  ELSE "admit"

DecisionEmptyRpm(bal, reqs, inflight, n, slo) ==
  IF n > TpmLimit THEN "unsatisfiable"
  ELSE IF reqs < 0 THEN "rpm_exhausted"
  ELSE IF bal < n THEN "tpm_exhausted"
  ELSE IF inflight >= MaxConcurrency + MaxQueueDepth THEN "queue_full"
  ELSE "admit"

DecisionLongQueue(bal, reqs, inflight, n, slo) ==
  IF n > TpmLimit THEN "unsatisfiable"
  ELSE IF reqs < RpmUnit THEN "rpm_exhausted"
  ELSE IF bal < n THEN "tpm_exhausted"
  ELSE IF inflight > MaxConcurrency + MaxQueueDepth THEN "queue_full"
  ELSE "admit"

\* The cascade of ADMIT_SCRIPT, in its order.
Decision(bal, reqs, inflight, n, slo) ==
  IF n > TpmLimit THEN "unsatisfiable"
  ELSE IF reqs < RpmUnit THEN "rpm_exhausted"
  ELSE IF bal < n THEN "tpm_exhausted"
  ELSE IF inflight >= MaxConcurrency + MaxQueueDepth THEN "queue_full"
  ELSE IF slo > 0 /\ PredictedWait(inflight) > slo THEN "slo_infeasible"
  ELSE "admit"

\* retry_after_ms, in ticks.
RetryAfter(reason, bal, reqs, n) ==
  CASE reason = "rpm_exhausted" -> CeilDiv(RpmUnit - reqs, RpmRate)
    [] reason = "tpm_exhausted" -> CeilDiv(n - bal, TpmRate)
    [] reason \in {"queue_full", "slo_infeasible"} -> AvgService
    [] OTHER -> 0

\* Faulty variant: the weights add up to more than one.
EwmaHeavy(prev, sample) == IF prev = 0 THEN sample ELSE (sample + 5 * prev) \div 5

\* alpha = 0.2 in fixed point: a fifth of the sample, the rest from before.
Ewma(prev, sample) == IF prev = 0 THEN sample ELSE (sample + 4 * prev) \div 5

StatsAfter(service, output, ttl) ==
  LET s == [svc  |-> IF service > 0 THEN Ewma(stats.svc, service) ELSE stats.svc,
            out  |-> IF output > 0 THEN Ewma(stats.out, output) ELSE stats.out,
            peak |-> Larger(stats.peak, output),
            exp  |-> now + ttl]
  IN  IF s.svc = 0 /\ s.out = 0 THEN NoStats ELSE s

-----------------------------------------------------------------------------
Init ==
  /\ now = 0
  /\ tpm = NoBudget /\ rpm = NoBudget
  /\ leases = Nothing /\ res = Nothing /\ holdsExp = -1
  /\ settled = Nothing
  /\ stats = NoStats
  /\ admits = 0 /\ settles = 0 /\ lates = 0 /\ reclaims = 0
  /\ issued = {}
  /\ charges = [r \in Rids |-> 0]
  /\ settledAt = [r \in Rids |-> 0]
  /\ charged = 0 /\ rewound = 0 /\ rpmRewound = 0 /\ forgiven = 0 /\ dropped = 0

\* How far a write at t moves a budget's refill clock back.  A missing key is
\* full as of now.
Rewind(b, t) == Larger(0, (IF Exists(b) THEN b.ts ELSE now) - t)

\* Clock readings a call that reaches Redis now may carry.
Readings ==
  {t \in Larger(0, now - MaxLag) .. now :
     /\ rewound + Rewind(tpm, t) <= MaxRewind
     /\ rpmRewound + Rewind(rpm, t) <= MaxRewind}

\* What both outcomes of ADMIT_SCRIPT persist: reclaimed leases E are gone,
\* balances and refill clocks are written, every key gets a fresh TTL.
Persist(t, lease, bal, reqs, newLeases, newRes, E) ==
  /\ tpm' = [bal |-> bal, ts |-> t, exp |-> now + Ttl(lease)]
  /\ rpm' = [bal |-> reqs, ts |-> t, exp |-> now + Ttl(lease)]
  /\ leases' = newLeases
  /\ res' = newRes
  /\ holdsExp' = IF DOMAIN newLeases = {} THEN -1 ELSE now + Ttl(lease)
  /\ reclaims' = reclaims + Cardinality(E)
  /\ rewound' = rewound + Rewind(tpm, t)
  /\ rpmRewound' = rpmRewound + Rewind(rpm, t)
  /\ UNCHANGED <<now, settled, stats, settles, lates, charges, settledAt,
                 charged, forgiven, dropped>>

\* A reserve call that is admitted under the fresh id r, asking for n tokens.
Admit(r, t, n, slo, lease, E) ==
  LET bal  == TpmAfterReclaim(t, E)
      reqs == Refill(rpm, RpmLimit, RpmRate, t)
      kept == Without(leases, E)
  IN  /\ Decision(bal, reqs, Cardinality(DOMAIN kept), n, slo) = "admit"
      /\ Persist(t, lease, bal - n, reqs - RpmUnit,
                 With(kept, r, t + lease), With(Without(res, E), r, n), E)
      /\ admits' = admits + 1
      /\ issued' = issued \cup {r}

\* A reserve call that is turned away.  Its id is never told to anyone.
Shed(t, n, slo, lease, E) ==
  LET bal  == TpmAfterReclaim(t, E)
      reqs == Refill(rpm, RpmLimit, RpmRate, t)
      kept == Without(leases, E)
  IN  /\ Decision(bal, reqs, Cardinality(DOMAIN kept), n, slo) # "admit"
      /\ Persist(t, lease, bal, reqs, kept, Without(res, E), E)
      /\ UNCHANGED <<admits, issued>>

\* Faulty variant: a commit whose hold was reclaimed costs nothing.
RefundLateFree(r, actual) == IF r \in DOMAIN res THEN res[r] - actual ELSE 0

\* held - actual.  A hold that is gone was reclaimed: held is 0 and the usage
\* is charged all the same.
Refund(r, actual) == (IF r \in DOMAIN res THEN res[r] ELSE 0) - actual

\* Faulty variants: replays are not recognised; HDEL without ZREM; lateness
\* judged by the deadline instead of by the missing hold.
NeverSettled(r) == FALSE
StillLeased(r)  == leases
PastDeadline(r) == r \notin DOMAIN leases \/ leases[r] <= now

\* A replay finds the settled marker; the hold leaves both collections; a
\* commit is late (status 2) when its hold is gone.
AlreadySettled(r) == r \in DOMAIN settled
LeasesWithout(r)  == IF r \in DOMAIN res THEN Without(leases, {r}) ELSE leases
Late(r)           == r \notin DOMAIN res

\* Faulty variant: the time since the balance was last written earns nothing.
StaleBalance(t) == IF Exists(tpm) THEN tpm.bal ELSE TpmLimit

\* current_balance() of COMMIT_SCRIPT.
CurrentBalance(t) == Refill(tpm, TpmLimit, TpmRate, t)

\* commit past the settled marker.
Settle(r, t, prompt, output, service, lease) ==
  LET actual == prompt + output
      bal    == CurrentBalance(t)
  IN  /\ ~AlreadySettled(r)
      /\ leases' = LeasesWithout(r)
      /\ res' = Without(res, {r})
      /\ holdsExp' = IF DOMAIN leases' = {} THEN -1 ELSE holdsExp
      /\ tpm' = [bal |-> Smaller(bal + Refund(r, actual), TpmLimit),
                 ts  |-> t,
                 exp |-> now + Ttl(lease)]
      /\ settled' = With(settled, r, now + IdempotencyTtl)
      /\ stats' = StatsAfter(service, output, Ttl(lease))
      /\ settles' = settles + 1
      /\ lates' = lates + (IF Late(r) THEN 1 ELSE 0)
      /\ charges' = [charges EXCEPT ![r] = @ + 1]
      /\ settledAt' = [settledAt EXCEPT ![r] = IF charges[r] = 0 THEN now ELSE @]
      /\ charged' = charged + actual
      /\ rewound' = rewound + Rewind(tpm, t)
      /\ UNCHANGED <<now, rpm, issued, admits, reclaims, rpmRewound, forgiven, dropped>>

\* commit of a reservation whose marker is still there: status 3, no write.
Replay(r) ==
  /\ AlreadySettled(r)
  /\ UNCHANGED vars

\* A client may commit or release an id it was given, and repeat the call
\* after a timeout, but gives up RetryHorizon after the first settlement.
MayCall(r) == r \in issued /\ (charges[r] > 0 => now <= settledAt[r] + RetryHorizon)

Reserve ==
  \E t \in Readings, n \in Reserves, slo \in Slos, lease \in LeaseLengths :
    \E E \in ReclaimSets(t) :
      \/ \E r \in Rids \ issued : Admit(r, t, n, slo, lease, E)
      \/ Shed(t, n, slo, lease, E)

Commit ==
  \E r \in Rids :
    /\ MayCall(r)
    /\ \/ Replay(r)
       \/ \E t \in Readings, a \in Actuals, service \in Services, lease \in LeaseLengths :
            Settle(r, t, a[1], a[2], service, lease)

\* release is a commit of nothing.
Release ==
  \E r \in Rids :
    /\ MayCall(r)
    /\ \E t \in Readings, lease \in LeaseLengths : Settle(r, t, 0, 0, 0, lease)

\* The clock advances and Redis drops the keys whose deadline has passed.
Tick ==
  LET n == now + 1
      tpmGone   == Exists(tpm) /\ tpm.exp < n
      holdsGone == holdsExp >= 0 /\ holdsExp < n
  IN  /\ now < MaxClock
      /\ now' = n
      /\ tpm' = IF tpmGone THEN NoBudget ELSE tpm
      /\ rpm' = IF rpm.exp < n THEN NoBudget ELSE rpm
      /\ leases' = IF holdsGone THEN Nothing ELSE leases
      /\ res' = IF holdsGone THEN Nothing ELSE res
      /\ holdsExp' = IF holdsGone THEN -1 ELSE holdsExp
      /\ settled' = Without(settled, {r \in DOMAIN settled : settled[r] < n})
      /\ stats' = IF stats.exp < n THEN NoStats ELSE stats
      /\ forgiven' = forgiven + (IF tpmGone
                                 THEN TpmLimit - Refill(tpm, TpmLimit, TpmRate, n)
                                 ELSE 0)
      /\ dropped' = dropped + (IF holdsGone THEN Cardinality(DOMAIN leases) ELSE 0)
      /\ UNCHANGED <<issued, outcomes, charges, settledAt, charged, rewound, rpmRewound>>

Next == Reserve \/ Commit \/ Release \/ Tick

Spec == Init /\ [][Next]_vars

-----------------------------------------------------------------------------
(* Properties *)

Held == Tokens(res, DOMAIN res)
Inflight == Cardinality(DOMAIN leases)

Budget == [bal : Int, ts : Nat, exp : Int]

\* Every variable keeps the shape the scripts write.
TypeOK ==
  /\ now \in Nat
  /\ tpm \in Budget /\ rpm \in Budget
  /\ DOMAIN leases \subseteq Rids /\ leases \in [DOMAIN leases -> Nat]
  /\ DOMAIN res \subseteq Rids /\ res \in [DOMAIN res -> 0 .. TpmLimit]
  /\ holdsExp \in Int
  /\ DOMAIN settled \subseteq Rids /\ settled \in [DOMAIN settled -> Nat]
  /\ stats \in [svc : Nat, out : Nat, peak : Nat, exp : Int]
  /\ issued \in SUBSET Rids
  /\ admits \in Nat /\ settles \in Nat /\ lates \in Nat /\ reclaims \in Nat
  /\ charges \in [Rids -> Nat] /\ settledAt \in [Rids -> Nat]
  /\ charged \in Nat /\ rewound \in Nat /\ rpmRewound \in Nat
  /\ forgiven \in Nat /\ dropped \in Nat

\* The lease zset and the reservation hash name the same reservations, all of
\* them issued, none of them settled and remembered: no hold can be returned
\* by a sweep and again by its commit (admission-scripts.ts, file comment).
LedgerConsistent ==
  /\ DOMAIN leases = DOMAIN res
  /\ DOMAIN leases \cap DOMAIN settled = {}
  /\ DOMAIN leases \cup DOMAIN settled \subseteq issued
  /\ (holdsExp >= now) <=> (DOMAIN leases # {})

\* Tokens are never created: balance, holds and everything ever charged stay
\* within one full budget plus the accrual of the time that passed, plus what
\* the two known leaks (a refill clock moved back, a debt forgotten with its
\* key) account for.  A refund applied twice, a reclaimed hold that is also
\* committed or a refill counted twice breaks it.
Conservation ==
  Refill(tpm, TpmLimit, TpmRate, now) + Held + charged
    <= TpmLimit + TpmRate * (now + rewound) + forgiven

\* A completion is charged once however often its commit is retried, as long
\* as the retries stop before the settled marker expires.
ChargedOnce == RetryHorizon <= IdempotencyTtl => \A r \in Rids : charges[r] <= 1

\* Every hold leaves once: each reservation the scripts admitted is in flight,
\* was settled in time, swept, or dropped with its key, and a commit is judged
\* late exactly when its hold had left before.  (This is about what the scripts
\* did.  The service bumps its counters when a reply arrives, and not at all for
\* status 3, so that after a lost reply they fall behind.)
EveryHoldLeavesOnce == admits + lates = settles + reclaims + dropped + Inflight

\* Occupancy never exceeds the slots plus the queue, under any interleaving of
\* replicas.
InflightBounded == Inflight <= MaxConcurrency + MaxQueueDepth

\* By how much a lease exceeds what a call under another gives the keys to live.
Uncovered(long, other) == Larger(0, long - (2 * other + Window))

\* "Budget keys must outlive the longest lease" (admission.service.ts), as far as
\* the code keeps it.  A call sets the keys' lifetime by the lease of its own
\* policy, so a replica with a shorter lease takes away what a longer one
\* needs.  While a hold exists its keys and the budget's live until its lease
\* ends, or fall short of that by no more than some lease exceeds twice another
\* and a minute; nothing else a call does adds to it.
BudgetOutlivesLeases ==
  \A r \in DOMAIN leases : \E long, other \in LeaseLengths :
    leases[r] <= Larger(now, Smaller(holdsExp, tpm.exp)) + Uncovered(long, other)

\* A request shed for lack of budget that waits exactly the advertised
\* Retry-After, with no competing call, finds that budget sufficient; one tick
\* earlier it would not.
RetryAfterExact ==
  \A n \in Reserves :
    LET bal  == Refill(tpm, TpmLimit, TpmRate, now)
        reqs == Refill(rpm, RpmLimit, RpmRate, now)
        why  == Decision(bal, reqs, Inflight, n, 0)
        wait == RetryAfter(why, bal, reqs, n)
        tpmAt(d) == Refill([bal |-> bal, ts |-> now, exp |-> now + d], TpmLimit, TpmRate, now + d)
        rpmAt(d) == Refill([bal |-> reqs, ts |-> now, exp |-> now + d], RpmLimit, RpmRate, now + d)
    IN  /\ why = "tpm_exhausted" => tpmAt(wait) >= n /\ tpmAt(wait - 1) < n
        /\ why = "rpm_exhausted" => rpmAt(wait) >= RpmUnit /\ rpmAt(wait - 1) < RpmUnit

\* "The tenant refills out of the hole before being admitted again": when a
\* request is admitted, all that was charged or is held fits in a full budget
\* plus the accrual so far.
AdmittedOutOfTheHole ==
  [][admits' > admits => charged' + Held' <= TpmLimit + TpmRate * now]_vars

\* "the clock advances whatever the decision turns out to be, so the effective
\* rate does not depend on how often requests are admitted": over any prefix,
\* balance, holds and charges stay within a full budget plus the accrual of
\* real time, with no allowance for a refill clock moved back.
EffectiveRate ==
  Refill(tpm, TpmLimit, TpmRate, now) + Held + charged <= TpmLimit + TpmRate * now

\* The shortest lifetime a call may give the budget keys.
ShortestTtl == CHOOSE d \in {Ttl(l) : l \in LeaseLengths} : \A l \in LeaseLengths : d <= Ttl(l)

\* With exact clocks and one lease length, the budget that is refilled by
\* whichever script comes next and kept under keys with a lifetime is the one
\* that rises with every tick: no accrual is lost or counted twice between
\* reserve and commit, what is held is what was taken, and keys take with them
\* only expired holds and a level nobody touched for a lifetime.
Eager == INSTANCE EagerLedger WITH
           Capacity <- TpmLimit,
           Rate     <- TpmRate,
           Amounts  <- Reserves \cup {a[1] + a[2] : a \in Actuals} \cup {0},
           Lives    <- LeaseLengths,
           Life     <- ShortestTtl,
           level    <- Refill(tpm, TpmLimit, TpmRate, now),
           touched  <- IF Exists(tpm) THEN tpm.ts ELSE -1,
           holds    <- [r \in DOMAIN res |-> [n |-> res[r], until |-> leases[r]]]

LedgerIsEager == Eager!Spec

-----------------------------------------------------------------------------
\* Clients keep asking: reserve calls with the present time keep arriving.
LiveSpec == Spec /\ WF_vars(Reserve)

\* A lease whose owner never came back is reclaimed by the admission traffic
\* alone, with no background sweeper, whatever the backlog.
ExpiredLeaseReclaimed ==
  \A r \in Rids : (r \in DOMAIN leases /\ leases[r] <= now) ~> (r \notin DOMAIN leases)
=============================================================================
