------------------------------ MODULE Limiter ------------------------------
(***************************************************************************)
(* The HTTP rate limiter for one key (src/services/rate-limiter.service.ts,*)
(* src/routes/rate-limit.routes.ts, src/algorithms/index.ts): a check      *)
(* resolves the limit that applies, field by field, and runs the script of *)
(* its algorithm.                                                          *)
(*                                                                         *)
(* One key may be checked under several limits: callers differ in what     *)
(* they state and in the rule they match.  All checks of an algorithm      *)
(* share the key's bucket, log or counters, whatever limit made them.      *)
(* Clocks are exact here; the algorithms' own modules let them lag.        *)
(***************************************************************************)
EXTENDS RuleMatching, FiniteSets

CONSTANTS
  Tables,     \* what operators may have created: id -> [dim, asked, enabled, gives]
  Contexts,   \* what a check may be about [identifier, ip, endpoint, metadata]
  Overrides,  \* what a check may state itself [algorithm, limit, window], each or None
  Defaults,   \* config.defaults, such a record
  Resets,     \* windows a reset may name, None among them
  Unit,       \* units of the bucket's balance that make one request
  Start,      \* the time of the first check
  MaxClock    \* model bound on the clock

Algorithms == {"token_bucket", "sliding_window", "fixed_window"}

Positive    == Nat \ {0}
WholeWindow == {w \in Positive : Unit % w = 0}   \* a tick accrues whole units

\* What the schemas let a rule, or the configuration, give.
LimitRecords == [algorithm : Algorithms, limit : Positive, window : WholeWindow]

ASSUME LimiterAssumption ==
  /\ Unit \in Positive /\ Start \in Positive /\ MaxClock \in Nat /\ Start <= MaxClock
  /\ None \notin LimitRecords
  /\ Defaults \in LimitRecords
  /\ Resets \subseteq WholeWindow \cup {None}
  /\ Contexts # {} /\ Overrides # {} /\ IsFiniteSet(Overrides)
  /\ Overrides \subseteq [algorithm : Algorithms \cup {None}, limit : Positive \cup {None},
                          window : WholeWindow \cup {None}]
  /\ \A wishes \in Tables :
       /\ IsFiniteSet(DOMAIN wishes)
       /\ \A i \in DOMAIN wishes : wishes[i].gives \in LimitRecords

VARIABLES
  table,     \* the rules table
  now,
  bucket,    \* the three states of the key in Redis, as their modules explain
  log, logExp,
  counters

VARIABLES    \* history, for each algorithm
  used,      \* the limit of its last check, None before the first
  since,     \* when that became the only one in use; 0: its state was clean then
  passed     \* <<time, serial>> of the checks that passed since

vars == <<table, now, bucket, log, logExp, counters, used, since, passed>>

Windows    == {Defaults.window} \cup {w \in Resets : w # None}
                \cup {table[i].gives.window : i \in DOMAIN table}
                \cup {o.window : o \in {p \in Overrides : p.window # None}}

\* Those some table may give, and what two theorems ask of them: the time since
\* the epoch is long enough that counters of two windows never go by the same
\* index at once, nor by neighbouring ones.
KnownWindows == {Defaults.window} \cup {w \in Resets : w # None}
                  \cup {o.window : o \in {p \in Overrides : p.window # None}}
                  \cup UNION {{wishes[i].gives.window : i \in DOMAIN wishes} : wishes \in Tables}
WindowsApart == \A v, w \in KnownWindows : v < w => 2 * v * w <= (w - v) * Start

LastWindow == CHOOSE w \in Windows : \A v \in Windows : v <= w

-----------------------------------------------------------------------------
(* The algorithms, for a check under the limit l *)

Bucket(l) == INSTANCE TokenBucket WITH
  Limit <- l.limit, Window <- l.window, Rate <- (l.limit * Unit) \div l.window,
  MaxLag <- 0, MaxRewind <- 0, rewound <- 0, hits <- passed.token_bucket

\* One process; its sequence numbers need only tell apart checks of one tick.
Log(l) == INSTANCE SlidingWindow WITH
  Limit <- l.limit, Window <- l.window, MaxLag <- 0,
  Replicas <- {1}, Pid <- <<1>>, MaxCalls <- 0, hits <- passed.sliding_window,
  sequence <- <<Cardinality({m \in log : m[1] = now})>>

Counter(l) == INSTANCE FixedWindow WITH
  Limit <- l.limit, Window <- l.window, hits <- passed.fixed_window

-----------------------------------------------------------------------------
(* Which limit applies *)

\* The rows `create' made of the operators' wishes.
Created(wishes) ==
  [i \in DOMAIN wishes |->
     Row(wishes[i].dim, StoredPriority(wishes[i].asked), wishes[i].enabled, wishes[i].gives)]

Or(stated, fallback) == IF stated # None THEN stated ELSE fallback

\* Stated fields win one by one.
Merged(over, base) ==
  [algorithm |-> Or(over.algorithm, base.algorithm),
   limit     |-> Or(over.limit, base.limit),
   window    |-> Or(over.window, base.window)]

\* resolveLimit: a caller that states everything needs no rule.
ResolveLimit(over, ctx) ==
  IF \A f \in DOMAIN over : over[f] # None THEN {over}
  ELSE IF Picks(table, ctx) = {} THEN {Merged(over, Defaults)}
  ELSE {Merged(over, table[i].gives) : i \in Picks(table, ctx)}

EffectiveLimits == UNION {ResolveLimit(over, ctx) : over \in Overrides, ctx \in Contexts}

-----------------------------------------------------------------------------
(* Steps *)

Init ==
  /\ \E wishes \in Tables : table = Created(wishes)
  /\ now = Start
  /\ bucket = [bal |-> 0, ts |-> 0, exp |-> -1]
  /\ log = {} /\ logExp = -1
  /\ counters = [i \in {} |-> 0]
  /\ used = [a \in Algorithms |-> None]
  /\ since = [a \in Algorithms |-> 0]
  /\ passed = [a \in Algorithms |-> {}]

\* History of a check under l: a change of limits starts it over.
Account(l, ok) ==
  LET a    == l.algorithm
      same == used[a] \in {None, l}
      H    == IF same THEN passed[a] ELSE {}
  IN  /\ used' = [used EXCEPT ![a] = l]
      /\ since' = [since EXCEPT ![a] = IF same THEN @ ELSE now]
      /\ passed' = [passed EXCEPT ![a] =
                      IF ok THEN H \cup {<<now, Cardinality({h \in H : h[1] = now})>>} ELSE H]

CheckBucket(l) ==
  /\ l.algorithm = "token_bucket"
  /\ \/ Bucket(l)!Passes(now) /\ Account(l, TRUE)
     \/ Bucket(l)!Turns(now) /\ Account(l, FALSE)
  /\ UNCHANGED <<table, now, log, logExp, counters>>

CheckLog(l) ==
  /\ l.algorithm = "sliding_window"
  /\ \/ Log(l)!Passes(1, now) /\ Account(l, TRUE)
     \/ Log(l)!Turns(now) /\ Account(l, FALSE)
  /\ UNCHANGED <<table, now, bucket, counters>>

CheckCounter(l) ==
  /\ l.algorithm = "fixed_window"
  /\ \/ Counter(l)!Passes(now) /\ Account(l, TRUE)
     \/ Counter(l)!Turns(now) /\ Account(l, FALSE)
  /\ UNCHANGED <<table, now, bucket, log, logExp>>

\* check(): POST /check-rate-limit.
Check == \E l \in EffectiveLimits : CheckBucket(l) \/ CheckLog(l) \/ CheckCounter(l)

\* History of a reset: it counts if the limit in use is clean after it.
Restart(a, clean) ==
  /\ since' = IF clean THEN [since EXCEPT ![a] = 0] ELSE since
  /\ passed' = IF clean THEN [passed EXCEPT ![a] = {}] ELSE passed
  /\ UNCHANGED used

\* Only the fixed window asks which window the reset is about; `named' is what
\* the caller said, by which its history goes.
ResetBucket(l) ==
  /\ bucket' = Bucket(l)!NoBucket
  /\ Restart("token_bucket", TRUE)
  /\ UNCHANGED <<table, now, log, logExp, counters>>

ResetLog(l) ==
  /\ Log(l)!Delete
  /\ Restart("sliding_window", TRUE)
  /\ UNCHANGED <<table, now, bucket, counters>>

ResetCounter(l, named) ==
  /\ Counter(l)!Delete(now)
  /\ Restart("fixed_window",
             used.fixed_window # None /\ used.fixed_window.window = Or(named, Defaults.window))
  /\ UNCHANGED <<table, now, bucket, log, logExp>>

\* Faulty variant: the reset is for the configured window, whatever it names.
DefaultWindow(w) == Defaults.window

\* windowSeconds = config.defaults.windowSeconds.
ResetWindow(w) == Or(w, Defaults.window)

\* reset(): POST /reset.
Reset ==
  \E w \in Resets :
    LET l == [Defaults EXCEPT !.window = ResetWindow(w)]
    IN  ResetBucket(l) \/ ResetLog(l) \/ ResetCounter(l, w)

\* History: the window of the limit in use.
Span(a) == IF used[a] = None THEN 1 ELSE used[a].window

\* History older than the promise of the limit in use is forgotten.
Tick ==
  /\ now < MaxClock
  /\ now' = now + 1
  /\ Bucket(Defaults)!Expire /\ Log(Defaults)!Expire /\ Counter(Defaults)!Expire
  /\ since' = [a \in Algorithms |-> IF since[a] <= now' - Span(a) THEN 0 ELSE since[a]]
  /\ passed' = [a \in Algorithms |-> {h \in passed[a] : h[1] > now' - 2 * Span(a)}]
  /\ UNCHANGED <<table, used>>

Next == Check \/ Reset \/ Tick

Spec == Init /\ [][Next]_vars

-----------------------------------------------------------------------------
(* Properties *)

\* The limit in use, if there is one yet.
InUse(a) == {used[a]} \ {None}

\* Would a check of the algorithm under the limit l be turned away now?
Exhausted(a, l) ==
  CASE a = "token_bucket"   -> Bucket(l)!Refill(now) < Unit
    [] a = "sliding_window" -> ~Log(l)!Room(now)
    [] a = "fixed_window"   -> ~Counter(l)!Room(now)

\* The state of the key has the shape its algorithms give it, under whichever
\* limits: the balance, the log and each counter stay within the largest of
\* them, and no key outlives the longest window by more than a tick.
TypeOK ==
  LET largest == CHOOSE n \in {l.limit : l \in EffectiveLimits} :
                   \A l \in EffectiveLimits : l.limit <= n
  IN  /\ now \in Start .. MaxClock
      /\ bucket \in [bal : 0 .. largest * Unit, ts : 0 .. now, exp : -1 .. now + LastWindow + 1]
      /\ \A m \in log : m[1] \in Start .. now
      /\ Cardinality(log) <= largest /\ logExp \in -1 .. now + LastWindow
      /\ \A i \in DOMAIN counters :
           counters[i] \in [n : 1 .. largest, exp : now .. now + LastWindow]
      /\ \A a \in Algorithms : since[a] \in 0 .. now /\ passed[a] \subseteq (Start .. now) \X Nat

\* From the moment a limit is the only one in use, what passes keeps that
\* limit's promise, whatever balance, log or counters other limits left.
PromiseKept ==
  \A a \in Algorithms : \A l \in InUse(a) :
    CASE a = "token_bucket"   -> Bucket(l)!Contract!WithinQuota(passed[a])
      [] a = "sliding_window" -> Log(l)!Contract!WithinQuota(passed[a])
      [] a = "fixed_window"   -> Counter(l)!Contract!WithinQuota(passed[a])

\* A caller is turned away only for requests that passed under its own limit in
\* the last window, once that limit has been the only one in use for a window
\* or since a reset "which window size it configured": what other limits left
\* is paid off by then.
RejectionsDeserved ==
  \A a \in Algorithms : \A l \in InUse(a) :
    Exhausted(a, l) /\ since[a] <= now - l.window =>
      Cardinality({h \in passed[a] : h[1] > now - l.window}) >= l.limit
=============================================================================
