# A verification project for the rate limiter service

The repository is a rate-limiting gateway in TypeScript. Every decision is taken
by a Lua script inside Redis, so that several gateway replicas can share one
limit; Postgres holds the rules and policies; Prometheus counters report what
happened. This directory holds TLA+ modules that model its core logic, TLC
configurations that check them on small instances, and TLAPS proofs of the
results that matter most for every value of the constants.

    tlc -workers 2 -config MCAdmission_ledger.cfg MCAdmission     # one run
    tlapm AdmissionProofs.tla                                      # one proof module

`PROJECT.json` lists the components, the runs, the source lines every definition
models, the hazards the properties are aimed at, and the theorems.

## 1. The system

| Component | State it keeps | Operations | Where |
|---|---|---|---|
| LLM admission | per (tenant, model) in Redis: token and request budgets, leases, holds, settled markers, statistics; process-local counters | `reserve`, `commit`, `release`; a sweep of expired leases inside every `reserve` | `src/llm/admission-scripts.ts`, `admission.service.ts`, `routes/admission.routes.ts` |
| Admission policies | per replica: policy set, per-pair map, `loadedAt`, the load in flight; the table in Postgres | `resolve`, `invalidate`; create, update, delete | `src/llm/policy.resolver.ts`, `policy.repository.ts`, `routes/admission.routes.ts` |
| Rules | per replica: `rulesCache`, `cacheLastUpdated`; the table in Postgres | `findMatchingRule`, `invalidateCache`; create, update, delete, enable, disable | `src/services/rule-engine.service.ts`, `repositories/rule.repository.ts`, `routes/rules.routes.ts` |
| Token bucket | per key in Redis: balance, refill clock | `check`, `reset` | `src/scripts/lua-scripts.ts`, `algorithms/token-bucket.ts` |
| Sliding window log | per key in Redis: a sorted set; per process a sequence number | `check`, `reset` | `src/scripts/lua-scripts.ts`, `algorithms/sliding-window.ts` |
| Fixed window | per key and window in Redis: a counter | `check`, `reset` | `src/scripts/lua-scripts.ts`, `algorithms/fixed-window.ts` |
| Connections and process | per replica: the Redis client's connection and retries, `isConnected` of both services; the script cache in Redis | connect, lose, reconnect, give up; `EVALSHA` with a fall-back to `EVAL`; failure modes; boot, drain, forced exit | `src/services/redis.service.ts`, `postgres.service.ts`, `algorithms/script-runner.ts`, `middleware/degraded-mode.ts`, `index.ts` |
| Limiter service | none; config defaults | resolves the limit of a check field by field, dispatches to an algorithm; names the window of a reset | `src/services/rate-limiter.service.ts`, `algorithms/index.ts`, `routes/rate-limit.routes.ts` |
| Estimator | none | `estimateReservation` | `src/llm/estimator.ts` |
| Everything else | none that outlives a request | authentication, validation, logging, metrics exposition, configuration, migration | `src/middleware`, `src/routes`, `src/config`, `src/database` |

**How they interact.** A `POST /llm/reserve` resolves a policy (cache, possibly a
load from Postgres), reads the statistics for its estimate, and runs the admission
script; `/commit` and `/release` resolve the policy again and run the commit
script. A rate-limit check looks up a rule unless it states limits of its own, and
runs one of the three limiter scripts. All scripts go through the script runner on
one shared Redis connection. A control-plane write goes to Postgres and then
invalidates the cache of the replica that took it, and of no other.

**What is hard.** Redis runs a script atomically, so within a script nothing races;
the difficulties are around it:

* the caller passes its own `Date.now()`, so scripts arrive out of clock order;
* keys expire by Redis's clock while balances are computed by the callers';
* the client library sends a script again when the connection breaks before its reply,
  with the clock reading and the estimate it was first given;
* checks of one key run under limits and windows that differ from call to call;
* clients retry commits, commit after their lease was reclaimed, or never commit;
* replicas hold different versions of a policy, and caches are filled across awaits
  during which writes and invalidations happen;
* servers go away between any two steps, Redis with or without its script cache.

## 2. Modules

| Module | Models | Extends / instances |
|---|---|---|
| `Admission` | reserve / commit / release of one (tenant, model) pair | instances `EagerLedger` |
| `RequestBudget` | when each admission was made: the request budget over time | extends `Admission` |
| `EagerLedger` | abstract: a level that rises with every tick, and holds with a deadline | |
| `ReserveCall` | the reserve call around the admission script: estimate, id, resent script, reply | extends `Admission` |
| `PolicyCache` | policy resolver, table and write handlers of one replica | |
| `RuleMatching` | the stored row, which rows match a request, which one is picked | |
| `RuleEngine` | rule cache, table and write handlers of one replica | extends `RuleMatching` |
| `TokenBucket` | the token bucket of one key under one limit | instances `ArrivalCurve`, `Meter` |
| `SlidingWindow` | the log of one key under one limit, written by several processes | instances `ArrivalCurve` |
| `FixedWindow` | what a check, a reset and time do to the counters of one key | instances `ArrivalCurve` |
| `Limiter` | one key checked under limits that change from call to call | extends `RuleMatching`; instances the three algorithms once per limit |
| `ArrivalCurve` | abstract: at most `Quota[d]` requests pass in any `d` ticks | |
| `Meter` | abstract: a level that rises with every tick and pays for what passes | |
| `Gateway` | one replica's connections, failure modes, life cycle | |
| `MC*` | instances for TLC | extend the module they are named after |
| `AdmissionProofs` | theorems about `Admission`, among them that it implements `EagerLedger` | extends `RequestBudget` |
| `ReserveCallProofs` | theorems about `ReserveCall` | extends it and `AdmissionProofs` |
| `TokenBucketProofs` | `TokenBucket` implements `Meter` and its arrival curve | extends it |
| `SlidingWindowProofs` | `SlidingWindow` implements `ArrivalCurve` | extends it |
| `LimiterProofs` | theorems about `Limiter`: every algorithm under limits that change | extends it |
| `PolicyCacheProofs`, `RuleEngineProofs`, `GatewayProofs` | theorems about the module they are named after | extend it |

A comment `Faulty variant` marks an operator that no specification uses: it is the
definition after it with a plausible bug. `PROJECT.json` names, for every property
of every passing run, a variant under which that property fails; this shows that
the property depends on the code it is about.

### Admission

One action per script, since Redis runs a script to completion: `Reserve` (either
`Admit` or `Shed`), `Commit` (`Settle`, or `Replay` when the settled marker is
found), `Release` (a settlement of nothing). `Tick` advances Redis's clock and drops
the keys whose deadline has passed. The sweep, the refill, the decision cascade, the
write-back and the `EXPIRE`s are all part of `Reserve`, as in the script.

* Time is in ticks, `Window` of them to the minute. Amounts are in units that make a
  tick's refill a whole number, so that no rounding hides in the model; `RpmUnit`
  units make one request, which gives the request budget its fractions.
* A call carries a reading `t` of its caller's clock, up to `MaxLag` behind the
  present. The script writes it back as the refill clock, also when it is earlier
  than the stored one: `Rewind` measures by how much.
* A missing key reads as a full budget (`NoBudget`, `Refill`).
* The service passes the TTL of the policy it resolved: `lease` is chosen per call
  from `LeaseLengths`, so replicas may hold different policies.
* Token estimates, SLOs and reported usage are inputs from small sets. A client may
  settle an id it was given any number of times until `RetryHorizon` after its first
  settlement.
* `admits`, `settles`, `lates`, `reclaims`, `charges`, `charged`, `rewound`,
  `rpmRewound`, `forgiven`, `dropped` are history: they record what the properties
  compare. The first four say what the scripts did; the service's Prometheus counters
  are something else, see section 6.

`RequestBudget` adds one more history variable, `admittedAt`, to every step of
`Admission` and constrains none of them.

`EagerLedger` says the same as the service's comments do, without clocks in the
state of a key and without lifetimes: `LedgerIsEager` maps the level to the refilled
balance and a hold to the pair of collection entries that stand for it.

### ReserveCall

`reserve()` is cut where it awaits: the statistics are read (`Begin`, which computes
the estimate), id and clock reading are taken (`Send`), the script runs (`Execute`),
the reply arrives (`Answer`). A connection that breaks with the reply on its way
(`Break`) puts the call back before `Execute`, with the same arguments. A call may
fail at any point (`Abandon`); its caller then never learns its id, so `Settlement`
(any commit or release of `Admission`) is about ids that were told. The
estimate is computed by `Estimate`, a translation of `estimator.ts`.

### PolicyCache and RuleEngine

An action is the code between two awaits. A query is sent, evaluated by the database
against the version of the table it then has, and answered; writes and invalidations
fit in between. A write through this replica and the `invalidate()` that follows it
are two actions, because the handler awaits the write. In `PolicyCache` concurrent
callers share one load (`loading`), and whoever waited is answered in the step that
completes it. In `RuleEngine` every miss sends a query of its own and stores its
answer, stamped with the time it was sent. `PolicyCache` abstracts the table to a
version number; `RuleEngine` keeps the rows, which its write handlers edit.
`RuleMatching` abstracts a pattern to the set of values it matches.

### TokenBucket, SlidingWindow, FixedWindow, Limiter

One action per script call and outcome, plus `Reset` and `Tick`. The callers' clocks
lag as in `Admission`. The set `hits` is history: when each recent request passed.
The bucket's balance is counted in units of `1/Unit` request, fine enough for a tick
to accrue a whole number of them (`Rate`), which makes the fraction that the script
keeps in Redis exact. A member of the log is
`<<time, pid, sequence>>`, as in the code; whether two processes may share a pid is
the constant `Pid`.

`Limiter` runs the scripts' outcomes, `Passes` and `Turns` of those modules, on one key
whose checks carry different limits: `ResolveLimit` merges what the caller states, the
rule it matches and the defaults, field by field, and the check goes to the algorithm
the merged limit names. All limits share the key's bucket and log, and counters
of equal index. `Reset` names a window or leaves it to the defaults, which matters to
the counters alone. Clocks are exact here. `used`, `since` and `passed` are history:
the limit of the last check, since when it has been the only one, and what passed since.

### Gateway

A request that has its limit or policy at hand runs its script (`script`), and if Redis
has lost the script, runs it again with its body (`reload`). One that does not queries
Postgres first (`lookup`), unless `getPool()` throws at once because the flag is down:
then a check fails and a policy is the last known one. A request is enforced, answered
by a failure mode, ends in an error, or is lost with the process. `IsStateUnavailable`
is the classification of `degraded-mode.ts`; that its pattern knows every message of a
dead Redis connection is assumed (`ScriptErrors`).

The Redis client's socket is up, broken (the close event is still to come), lost (a
retry timer runs) or ended (`retryStrategy` returned null). The Postgres pool is whole,
or an outage has left a broken socket in it (`pool = "stale"`). Such a socket outlives
the outage: it is found by a query, which rejects although Postgres is back, or by the
pool's `error` event, which clears the flag. Servers go away and come back at any time.

## 3. Runs

Every run finishes in under three minutes on two workers.

| Run | Instance | Shows |
|---|---|---|
| `admission_ledger` | 3 reservations, lag 1, 4 ticks, leases 1 and 4 | types; lease set and hash agree (`LedgerConsistent`); tokens are conserved up to two named leaks (`Conservation`); a completion is charged once (`ChargedOnce`); each hold leaves once (`EveryHoldLeavesOnce`); occupancy is bounded (`InflightBounded`); keys outlive leases up to what leases differ by (`BudgetOutlivesLeases`) |
| `admission_rates` | `RequestBudget`: 2 reservations, exact clocks, 10 ticks, lease 3, a request budget of 6 units that refills 3 a tick while a request costs 5, SLOs | the lazily refilled keys implement the eager ledger (`LedgerIsEager`); the token rate holds (`EffectiveRate`), the request rate from every moment on (`RequestRate`); retry-after is exact (`RetryAfterExact`); expired leases are reclaimed (`ExpiredLeaseReclaimed`) |
| `reserve_call` | 2 calls, 2 ids, adaptive estimates, 1 break, lag 1, lease 2, 8 ticks, retries past the marker | an admitted caller keeps the hold it was told of (`LeaseHonoured`); no tokens are lost (`NothingLost`); holds lie between what the prompt needs and what outputs project to (`HoldsCalibrated`) |
| `policy_cache` | 2 callers, 2 pairs, up to 2 writes | no pair is served from a set that is gone (`OneSetAtATime`); `BoundedStaleness`; `UnracedWritesShow`; `CallersAnswered`; `EventuallyCurrent` |
| `token_bucket` | limit 2, window 3, lag 2, 9 ticks | implements the meter (`LazyRefillIsEager`) and the arrival curve (`BurstThenRate`); `RetryAfterExact` |
| `sliding_window` | limit 2, window 3, lag 1, 2 processes | implements its arrival curve (`ExactWindow`); `RetryAfterExact` |
| `limiter` | 3 algorithms, up to 2 rules of any dimension, 3 kinds of callers, 16 contexts, resets of 2 windows, 7 ticks | a limit keeps its promise from when it is the only one in use (`PromiseKept`); nobody is turned away for what other limits left (`RejectionsDeserved`) |
| `rule_cache` | 2 lookups, 1 rule, 2 writes | `BoundedStaleness`, `UnracedWritesShow`, `EventuallyCurrent` |
| `gateway` | 2 requests of any kind, 2 Redis outages, 1 Postgres outage, 1 retry | failure modes answer only for what was unreachable (`DegradedExplained`); guarded requests never end in an error (`GuardedNeverErrors`), the others only for a server they needed or what its outage left (`ErrorsExplained`); `RequestsAnswered`; `ReconnectsOrGaveUp` |
| `admission_debt` | violated | a debt is forgotten with its key |
| `policy_write` | violated | a load that a write overtook brings the old set back |
| `sliding_pids` | violated | two containers with one pid write the same member |

**Bounds, and why they are enough.** `MaxClock` exceeds the lifetime of every key a
run sets where the run is about expiry (`admission_rates`: TTL 8 of 10 ticks;
`admission_ledger`: TTL 3 under the shorter lease, of 4 ticks; `reserve_call`: TTL 7 of
8, so that statistics are gone when an estimate computed from them is used;
`token_bucket`: 4 of 9; `limiter`: seven ticks are three windows of two and two of
three, after which a limit's promise has come into force and been kept for a window).
`limiter` starts at 24, as a real clock is far from 0: counters of different windows
then have different indices. `MCLimiter` assumes `WindowsApart`, the hypothesis of two
theorems, so that TLC confirms it of the instance. `MaxRewind` caps how far clocks are
moved back in all, `MaxBreaks` how often replies are lost. Two reservations suffice for
the interleavings of two owners and a sweep, three for two in flight and one that is
turned away with `MaxConcurrency = MaxQueueDepth = 1`. In `admission_rates` two requests
cost 10 units, a full budget is 6 and a tick accrues 3, so that any two admissions less
than two ticks apart break `RequestRate`, early or late, before or after a key has
expired. `Reserves` includes an amount above the limit (unsatisfiable) and amounts that
exhaust it exactly. Two reserve calls let one act on statistics the other's commit
changes, and one break makes a script run twice with everything in between. An average
is blended before a hold is computed from it when a commit is retried after its marker
expired (`RetryHorizon` 2 over `IdempotencyTtl` 1), with outputs 1 and 5 in any order:
an average need not be the last output nor the longest. `reserve_call` has the adaptive
mode only, since the other never reads statistics, and `MaxRewind = 0`: a lagging script
runs unless it would move the refill clock back, which could only add tokens. Its
theorems have neither limit. Two callers are what a race on a cache needs, two writes
what it needs to be overtaken twice. Two Redis outages let a client lose a connection
that it regained; one Postgres outage leaves what later requests find. `MaxQuery` is the
assumption under which staleness is bounded at all. Reservation ids and calls are
interchangeable; symmetry is used in `admission_ledger` and `reserve_call`, which check
no liveness. `TypeOK` of `PolicyCache`, `RuleEngine` and `SlidingWindow` is proved
instead of run.

**Deadlock** is checked in every run.

**Fairness.**

* `Admission`: reserve calls keep coming (`WF(Reserve)`). The only claim made under it
  is that traffic alone reclaims leases; nothing is assumed of commits or of time.
* `PolicyCache`: callers keep calling, time passes, handlers resume after an await,
  every query ends. `SF(ReadTable)` and `SF(LoadOk)` say that the database is not
  unreachable for every query ever sent; `CallersAnswered` is about failing loads too.
* `RuleEngine`: time passes, handlers resume, every query ends, well or badly.
* `Gateway`: promises settle, timers fire, the process boots, the 30 s backstop and
  the orchestrator do their part. Servers may stay away for ever.

## 4. What the runs found

Three runs are expected to be violated; `findings` quotes the lines they refute.

* `admission_debt`: the balance is stored with a TTL of `max(120, 2 * lease + 60)`
  seconds. A commit that overruns its hold by more than refills in that time leaves a
  debt that disappears with the key, so the tenant does not "refill out of the hole
  before being admitted again". `Conservation` carries the term `forgiven` for it.
* `policy_write`: `invalidate()` does not touch a load in flight. The load completes
  with what it read before the write and counts as fresh for 30 s, on the replica
  that took the write. `UnracedWritesShow` is what does hold.
* `sliding_pids`: in containers every replica has the same pid and its own sequence
  starting at 0, so members are not "unique across replicas" and two requests can
  count as one. `ExactWindow` holds when pids differ.

The allowances in the other properties mark further places where the code does less
than a comment says. Each can be seen by taking the allowance away:

* A call with a lagging clock moves the refill clock back
  (`admission-scripts.ts:121, 227`, `lua-scripts.ts:65`) and the interval accrues
  again. `Conservation`, `RequestRate` and `BurstThenRate` allow for `rewound`;
  `EffectiveRate` has no allowance and fails with `MaxLag = 1`.
* "Budget keys must outlive the longest lease" (`admission.service.ts:66`), but a call
  under a policy with a shorter lease shortens the keys of a longer lease that still
  runs: with leases `long` and `other` in use, by as much as `long` exceeds
  `2 * other + 60` seconds. `BudgetOutlivesLeases` allows for that much (`Uncovered`)
  and fails in `admission_ledger` without it. Leases from 5 s to 3600 s are legal.
* "Admissions minus settlements minus reclaims is work in flight"
  (`metrics.service.ts:145`) is too small by one for each late commit, which counts as
  settled although it was counted as reclaimed (`admission.service.ts:214`), and too
  large by one for each hold that vanished with its key: `EveryHoldLeavesOnce` adds
  `lates` and `dropped`. That is so if every reply arrives. The counters are bumped on
  replies: a reserve call that fails for want of a reply is never counted as admitted,
  though its lease will be counted as reclaimed, nor is a commit whose retry is answered
  with status 3 counted as settled.
* `RuleEngine.UnracedWritesShow` excludes caches filled by a query that an
  invalidation overtook (`rule-engine.service.ts:171`), as in the policy cache.
* An empty list of rules does not count as cached (`rule-engine.service.ts:161`; the
  first conjunct of `Hit`), so a deployment without rules queries Postgres each time.
* A rule created with priority 0, which the schema allows (`rules.routes.ts:28`), is
  stored with 100 (`rule.repository.ts:66`, `StoredPriority`). Meant to come last, it
  comes before every rule below 100, and "the highest-priority matching stored rule"
  (`API.md:235`) is not the one operators asked for. `update` stores 0 as 0.
* A caller whose clock lags into the previous window restarts its counter after it
  expired (`lua-scripts.ts:137`): the fixed window keeps its promise in `PromiseKept`
  because `Limiter` has exact clocks.
* Counters are named by the index of a window and not by its length
  (`fixed-window.ts:27`). Windows of one key that are long and differ little, such as two
  of about a day that differ by seconds, have equal or neighbouring indices, and a reset
  of one deletes the counter of the other: `PromiseKept` fails with `Start = 2`.
* Limits that alternate on one key share its bucket and log. `PromiseKept` starts when
  the limit became the only one in use, `RejectionsDeserved` a window later.
* A reset that does not name the window of the checks deletes other counters
  (`fixed-window.ts:62`) and leaves the limit exhausted: in `RejectionsDeserved` it does
  not count as a reset (`clean` in `Restart`).
* A resent admission takes its tokens a second time and holds them once:
  `NothingLost` has the term `twice` for it. If the second run is shed, by its own
  first hold for instance, the caller is told that it was turned away, and the hold
  stays until its lease expires: `LeaseHonoured` is about callers who were told.
* A rule lookup that Postgres refuses is taken for lost limiter state
  (`degraded-mode.ts:15`) and the check fails open while Redis is fine: the second
  disjunct of `DegradedExplained`. A lookup that fails otherwise ends in a 500: the
  reason why `GuardedNeverErrors` is not about checks that need a lookup.
* After `maxRetries` attempts the Redis client has ended for good
  (`redis.service.ts:31`): the disjunct `link = "ended"` of `ReconnectsOrGaveUp`.
* The pool's error event clears `isConnected` (`postgres.service.ts:35`) and only
  `connect()`, called at boot, sets it. Checks that need a lookup end in a 500 from then
  on, with both servers up: the disjunct `noPool` of `ErrorsExplained`. A socket broken
  in an outage can do the same to a query, or clear the flag, after Postgres is back:
  `noPg` covers requests that arrive while the pool is `"stale"`. "A Postgres outage is
  degraded rather than down" (`health.routes.ts:19`) is true of reservations, whose
  policies are served from the last known set, and not of checks that need a rule.

## 5. What is proved

For all values of the constants that satisfy the named assumptions of the modules:
`RidsAssumption`, `RateAssumption`, `PolicyAssumption`, `InputAssumption`,
`BoundAssumption` and `RequestAssumption` in `Admission`; `CallAssumption` in
`ReserveCall`; `BucketAssumption`, `WindowAssumption`, `LimiterAssumption`,
`CacheAssumption`, `RuleAssumption`, `GatewayAssumption` in the modules they suggest.
They ask for finitely many reservation ids, positive rates, limits and leases, natural
inputs and bounds, a request budget of at least one request, a window longer than the
lag, and of `Limiter` that rules, defaults and callers give what the schemas let pass.
No relation between leases, limits, lags and clock bounds is assumed but what the last
column says.

| Theorem | States | Further assumption |
|---|---|---|
| `TypeCorrect` | `[]TypeOK`; in particular a hold never exceeds the budget | |
| `LedgerIsConsistent` | `[]LedgerConsistent` | |
| `TokensConserved` | `[]Conservation` | |
| `HoldsLeaveOnce` | `[]EveryHoldLeavesOnce` | |
| `OccupancyBounded` | `[]InflightBounded` | |
| `CompletionChargedOnce` | `[]ChargedOnce` | |
| `RequestRateHolds` | `TimedSpec => []RequestRate`: from any moment on, for any lag | |
| `AdmissionRetryAfterExact` | `[]RetryAfterExact` | |
| `ExactClocksKeepTheRate` | `[](forgiven = 0 => EffectiveRate)` | exact clocks |
| `AdmissionImplementsLedger` | `LedgerIsEager`: a refinement | `Uniform`: exact clocks, one lease length |
| `KeysOutliveLeases` | `[]BudgetOutlivesLeases` | |
| `CoveredLeasesKept` | no key that a lease needs expires before it | no lease exceeds twice any other and `Window` |
| `CallHoldsCalibrated`, `CallsLoseNothing` | `[]HoldsCalibrated`, `[]NothingLost` | |
| `CallLeasesHonoured` | `[]LeaseHonoured` | `LeasesCovered`: no lease outlasts the keys any policy sets |
| `BucketImplementsMeter`, `BucketKeepsArrivalCurve` | `LazyRefillIsEager`, `BurstThenRate`: refinements | |
| `BucketTypeCorrect`, `BucketRetryAfterExact` | `[]TypeOK`, `[]RetryAfterExact` | |
| `LogKeepsItsPromise` | `ExactWindow`: a refinement | `UniquePids`: no two processes share a pid |
| `LogTypeCorrect`, `LogRetryAfterExact` | `[]TypeOK`, `[]RetryAfterExact` | |
| `LimiterTypeCorrect` | `[]TypeOK` | |
| `EachLimitKept`, `EachRejectionDeserved` | `[]PromiseKept`, `[]RejectionsDeserved` | `WindowsApart`: long windows differ by seconds |
| `SharedStateKeepsPromises` | the same of bucket and log | |
| `StalenessBounded`, `UnracedWritesAreServed`, `PairsServedFromOneSet`, `CacheTypeCorrect` | the safety properties of `PolicyCache` | |
| `RulesStalenessBounded`, `UnracedRuleWritesServed`, `EngineTypeCorrect` | the safety properties of `RuleEngine` | |
| `FailureModesAreExplained`, `GuardedRequestsNeverError`, `ErrorsAreExplained`, `GatewayTypeCorrect` | the safety properties of `Gateway` | |

The further assumptions are needed, and section 4 says how the properties fail without
`UniquePids`, exact clocks or `WindowsApart`. `Uniform` and `LeasesCovered` exclude a
lease that runs on after a call under another policy let its keys expire.
`LeasesCovered` is weaker, as it lets leases differ as long as the longest is at most
twice the shortest and a minute.
`WindowsApart` asks `2 * v * w <= (w - v) * Start` of any two window lengths `v < w`:
with `Start` the seconds since the epoch, some 1.7e9, it holds of all windows up to eight
hours, and of any the schemas let pass, up to a day, that differ by nine seconds or more.

**The ledger.** `Conservation` speaks of the balance as of now, and is not inductive:
a call refills to its own reading, then writes balance and reading back. `LedgerInv`
adds `ClocksBehind` (no refill clock is ahead of the present) and `TokenLedger`, the
same inequality as of the last write: stored balance, holds and charges are covered by
a full budget plus the accrual up to the stored clock and the ticks it was moved back.
`CoveredRefill` shows that a refill up to any `t` keeps it covered once `Rewind` is
counted. `LedgerConsistent` is needed with it: a reclaimed or settled hold is returned
once because it leaves both collections at once. `Tokens`, the sum of holds, counts
units, so that it splits over disjoint sets by cardinality (`TokensSplit`) and needs no
induction.

**Retry-after.** No invariant but the types is needed: `Ceiling` says that the ceiling
of a quotient is the least factor that suffices, and `WaitIsExact` carries it to a
refill from any balance, negative ones included. In the sliding window the reply is the
age of the oldest member, which exists because a log without room has `Limit` members.

**The flow.** `FlowInv` is `EveryHoldLeavesOnce` and `InflightBounded`, inductive
relative to `LedgerInv`.

**Retries.** `MarkerInv` says that a charged reservation has a marker that lives for
the TTL from its settlement; with `RetryHorizon <= IdempotencyTtl` no retry can find it
gone.

**The request budget.** Of `RequestInv`, `Paid` says for every `x` that what was spent
from `x` on, together with the balance, is within a full budget and the accrual since
`x`; `RequestLevel` that the key does not expire before the budget is full again, so
that a lapse gives nothing away.

**The reserve call.** `BaseInv` says that an id belongs to one call, that a script
which runs again does so with the arguments it had, and that a hold under an id is the
one its call asked for. `CalibratedInv` adds that the stored average is within the
longest output ever reported (`EwmaBound`: a moving average stays within its samples),
and that the estimates of calls under way fit too; an estimate stays good however stale,
because the longest output only grows. `LostInv` is about what a lapse of the
collections takes with it: a debt is at most what was charged, and it is paid off by
the time the holds lapse, so the balance that then reads as full is not below what is
owed. `HonourInv` says the collections outlive every lease in them, whichever policy
the last call was made under (this is where `LeasesCovered` is used), and that what a
finished script decided is still there when its reply is read.

**The bucket.** `BucketInv` says that a stored balance is within the capacity, that
its clock is not ahead, and that the key lives past a refill from empty. With it every
check, reset and tick (with or without expiry) maps to a step of `Meter`. A lagging
call may add at most `Limit * MaxLag` to the level (`Slack`); with exact clocks the
bucket is the meter. For the arrival curve the invariant is a family, one inequality for
each instant `x` in reach: what passed after `x` and what is left in the bucket are a
burst, the accrual since, and the allowance for lag and clocks moved back.

**The eager ledger.** `LifeInv` says that the token budget's key lives exactly one
lifetime from its last write, and that collections outlive the leases in them. A tick
that drops the budget's key is then a tick in which the abstract level is forgotten too,
and one that drops the collections finds only expired holds in them.

**Lives of keys and leases.** Without exact clocks and a common lease, `KeyInv` says of
every hold in flight that it was placed at some past time, under some lease, and that
the collections and the budget key have each been renewed since, under leases of their
own. `KeysOutliveLeases` bounds by `Uncovered` how much of a lease two such renewals can
leave without a key; `CoveredLeasesKept` is the case in which that is nothing.

**The log.** `LogInv` counts: for every `x` within the promise's reach, at least as many
members have a score after `x - MaxLag` as requests passed after `x` (`Counted`). A
passing check adds one to both sides, because its member and its serial are new
(`Fresh`; this is where pids matter); trimming removes nothing within reach; the key
outlives what it counts (`Remembered`). The quota follows because the log never holds
more than `Limit`.

**Limits that change.** `LimiterInv` relates what the algorithms share to the history of
the limit in use, for limits that come and go. Of the bucket, `Balanced` says that for
every instant `x` the balance and what passed after `x` are at most a burst and the
accrual since (`Upper`: the promise), and if the limit was the only one in use since
`x`, at least that accrual, up to a full bucket (`Lower`: rejections are deserved). A
balance that other limits left, capped by the capacity, satisfies both for the empty history
(`StartBalance`), so a change of limits starts them over. Of the log, `Explains` says
that what passed after `x` is at most the members after `x`, and equals them from the
time the limit came into use: members of other limits age out in a window. Of the
counters, `Tallied` says the same of the present window, and `Live` that each belongs to
a known window length and lives until its window ends. `Owner` shows, from
`WindowsApart`, that a counter with the index of the present window of one length is of
no other length. The bucket's and the log's parts do not need it (`SharedInv`). `TypeInv`
bounds the three states by the largest limit and the longest window that may apply;
there is one because rules, wishes and divisors of the unit are finitely many.

**The caches.** `CacheInv` and `EngineInv` extend the properties from the cache to the
queries in flight: what a query has read was current no longer ago than the query took,
and contains what was announced before it unless an announcement overtook it.
`OneSetAtATime` is inductive by itself.

**The gateway.** `RequestInv` records what a request must have met at each stage
(`Saw`) and what its outcome needs (`Explained`). A check in flight while Postgres is
away or the pool holds a broken socket has met just that; no other variable is
constrained.

**Only model-checked.** The liveness properties `ExpiredLeaseReclaimed`,
`CallersAnswered`, `EventuallyCurrent`, `RequestsAnswered`, `ReconnectsOrGaveUp`, since
fairness is out of the prover's reach; and that no debt is forgotten in the instance of
`admission_rates`, which makes `EffectiveRate` hold there without the condition of its
theorem. Every invariant and every refinement that a run checks is stated by a theorem.

## 6. Not modelled

* Which policy a (tenant, model) pair matches: `PolicyCache` is about versions only.
* Resent scripts other than the admission script. To the keys, a resent
  commit is a retry of the same commit, which `Admission` has; to its caller it is not,
  which is answered with status 3. A resent check counts a request twice.
* The Prometheus counters. They are bumped on replies, not by the scripts; `outcomes` in
  `Admission` is a history of what the scripts did.
* Lagging clocks together with limits that change; the algorithms' own modules have the
  former, `Limiter` the latter.
* Cluster mode of the Redis client: slots, redirections, partial outages.
* Read-only operations: `getStats`, `/stats`, the admission snapshot, the liveness and
  readiness endpoints.
* Authentication, validation, logging, error bodies, metrics exposition, migration,
  configuration: I/O or stateless. Pattern compilation is string processing, the cache
  of compiled patterns a memo of a pure function.
* The benchmark harness and the tests.

## 7. Plan

1. `PolicyCache` composed with `Admission`: leases, limits and modes chosen by what
   replicas have cached, in place of the free choice of `lease`.
2. Resent checks in `Limiter`, tied to `Gateway`'s connection.
3. Policy matching with its tie-breaks.
4. Proofs: the arrival curve of `Limiter`'s algorithms for callers whose clocks lag; a
   bound on the tokens a forgotten debt can be worth, from a bound on overruns.
