---------------------------- MODULE PolicyCache ----------------------------
(***************************************************************************)
(* The policy cache of one gateway replica (src/llm/policy.resolver.ts), the*)
(* policy table it is filled from (src/llm/policy.repository.ts) and the    *)
(* control-plane handlers that write the table (src/routes/                *)
(* admission.routes.ts).                                                   *)
(*                                                                         *)
(* The table is abstracted to a version number: every write makes a new    *)
(* version, and a policy set or a resolved policy is the version it was    *)
(* computed from.  JavaScript runs to the next await, so an action is the  *)
(* code between two awaits: a query is sent, the database answers it from  *)
(* the version it then has, the answer is applied.  Continuations of one   *)
(* settled promise run before anything else, so the callers waiting on a   *)
(* load are answered in the step that completes it.                        *)
(*                                                                         *)
(* Time enters only as the age of the cache, in ticks.                     *)
(***************************************************************************)
EXTENDS Integers

CONSTANTS
  Callers,    \* concurrent resolve() calls
  Pairs,      \* (tenant, model) pairs they ask for
  Ttl,        \* ttlMs, in ticks
  MaxQuery,   \* bound on the ticks a query takes
  MaxWrites   \* model bound on policy writes

ASSUME CacheAssumption == Ttl \in Nat \ {0} /\ MaxQuery \in Nat /\ MaxWrites \in Nat

VARIABLES
  db,        \* version of the policy table
  writing,   \* versions this replica has written but not yet invalidated for
  policies,  \* version of this.policies; 0 is the empty set of a cold start
  resolved,  \* this.resolved: pair -> version, a partial function
  age,       \* Date.now() - this.loadedAt, up to Stale
  loading,   \* this.loading: the query in flight, or NoLoad: what it read, the
             \* ticks it took and those since the table moved past what it read
  waiting    \* callers awaiting the load -> the pair they ask for

VARIABLES    \* history
  acked,     \* latest version this replica's invalidate() has announced
  ok,        \* did the last load succeed
  raced,     \* did invalidate() run while a load was in flight, none since
  lag        \* ticks since the table moved past this.policies, up to LagCap

cache == <<policies, resolved, age, loading>>
vars  == <<db, writing, cache, waiting, acked, ok, raced, lag>>

Stale  == Ttl + 1
LagCap == Ttl + MaxQuery + 1
NoLoad == [phase |-> "none", version |-> 0, took |-> 0, late |-> 0]
Nobody == [c \in {} |-> 0]

Smaller(a, b) == IF a <= b THEN a ELSE b

-----------------------------------------------------------------------------
Init ==
  /\ db \in 0 .. 1
  /\ writing = {}
  /\ policies = 0 /\ resolved = Nobody /\ age = Stale /\ loading = NoLoad
  /\ waiting = Nobody
  /\ acked = 0
  /\ ok = FALSE /\ raced = FALSE /\ lag = 0

\* Faulty variant: a set that was loaded successfully never goes stale.
FreshForever == ok \/ age < Ttl

\* ensureLoaded's first test.
Fresh == age < Ttl

\* The per-pair map after a lookup: a hit leaves it alone, a miss matches the
\* pair against the policy set and remembers the result, default included.
Remember(r, p, v) == [q \in DOMAIN r \cup {p} |-> IF q \in DOMAIN r THEN r[q] ELSE v]

\* Faulty variant: a hit renews the entry's lifetime.
ResolveFreshTouching(c, p) ==
  /\ Fresh
  /\ resolved' = Remember(resolved, p, policies)
  /\ age' = 0
  /\ UNCHANGED <<db, writing, policies, loading, waiting, acked, ok, raced, lag>>

\* resolve() with a fresh policy set: caller c is answered at once.
ResolveFresh(c, p) ==
  /\ Fresh
  /\ resolved' = Remember(resolved, p, policies)
  /\ UNCHANGED <<db, writing, policies, age, loading, waiting, acked, ok, raced, lag>>

\* resolve() with a stale one: joins the load in flight, or starts it.
ResolveStale(c, p) ==
  /\ ~Fresh
  /\ waiting' = [d \in DOMAIN waiting \cup {c} |-> IF d = c THEN p ELSE waiting[d]]
  /\ IF loading = NoLoad
     THEN loading' = [NoLoad EXCEPT !.phase = "sent"] /\ raced' = FALSE
     ELSE UNCHANGED <<loading, raced>>
  /\ UNCHANGED <<db, writing, policies, resolved, age, acked, ok, lag>>

Resolve == \E c \in Callers \ DOMAIN waiting, p \in Pairs : ResolveFresh(c, p) \/ ResolveStale(c, p)

\* findEnabledByPriority is evaluated by the database.
ReadTable ==
  /\ loading.phase = "sent"
  /\ loading' = [loading EXCEPT !.phase = "read", !.version = db]
  /\ UNCHANGED <<db, writing, policies, resolved, age, waiting, acked, ok, raced, lag>>

\* Faulty variants: the per-pair map survives a successful load; those who
\* waited are not told when the query failed.
KeepResolved(v)    == resolved
StillWaiting(good) == IF good THEN Nobody ELSE waiting

\* The per-pair map is cleared by either outcome, then filled by the callers
\* that waited.  finally: loading = null.  Either outcome resolves the promise
\* all of them await.
ClearedAndFilled(v) == [p \in {waiting[c] : c \in DOMAIN waiting} |-> v]
Finished(good) == NoLoad
StillUnanswered(good) == Nobody

\* Either outcome of a load: the set v is served as of now to all who waited.
Complete(v, good) ==
  /\ policies' = v
  /\ resolved' = ClearedAndFilled(v)
  /\ age' = 0
  /\ loading' = Finished(good)
  /\ waiting' = StillUnanswered(good)
  /\ ok' = good
  /\ UNCHANGED <<db, writing, acked, raced>>

\* The query's rows arrive.
LoadOk ==
  /\ loading.phase = "read"
  /\ Complete(loading.version, TRUE)
  /\ lag' = loading.late

\* The query fails: the old set is served as if it had just been loaded.
LoadFail ==
  /\ loading # NoLoad
  /\ Complete(policies, FALSE)
  /\ UNCHANGED lag

\* A policy is created, updated or deleted.  Through this replica, the handler
\* resumes after the await with invalidate(); through another, this replica
\* hears nothing.
Write(local) ==
  /\ db < MaxWrites
  /\ db' = db + 1
  /\ writing' = IF local THEN writing \cup {db'} ELSE writing
  /\ UNCHANGED <<cache, waiting, acked, ok, raced, lag>>

WriteHere  == Write(TRUE)
WriteThere == Write(FALSE)

\* Faulty variant: invalidate() forgets the per-pair map only.
AgeKept == age

\* invalidate(): loadedAt = 0.
AgeAfterInvalidate == Stale

Invalidate ==
  \E v \in writing :
    /\ writing' = writing \ {v}
    /\ age' = AgeAfterInvalidate
    /\ resolved' = Nobody
    /\ acked' = IF v > acked THEN v ELSE acked
    /\ raced' = (raced \/ loading # NoLoad)
    /\ UNCHANGED <<db, policies, loading, waiting, ok, lag>>

\* A tick passes.  Queries take at most MaxQuery of them.
Tick ==
  /\ loading # NoLoad => loading.took < MaxQuery
  /\ age' = Smaller(age + 1, Stale)
  /\ lag' = IF policies = db THEN 0 ELSE Smaller(lag + 1, LagCap)
  /\ loading' = IF loading = NoLoad THEN NoLoad
                ELSE [loading EXCEPT
                        !.took = @ + 1,
                        !.late = IF loading.phase = "read" /\ loading.version # db THEN @ + 1 ELSE @]
  /\ UNCHANGED <<db, writing, policies, resolved, waiting, acked, ok, raced>>

Next ==
  \/ Resolve \/ ReadTable \/ LoadOk \/ LoadFail
  \/ WriteHere \/ WriteThere \/ Invalidate \/ Tick

Spec == Init /\ [][Next]_vars

-----------------------------------------------------------------------------
(* Properties *)

\* Every variable keeps its shape; ages and lags stay within their caps.
TypeOK ==
  /\ db \in 0 .. MaxWrites + 1 /\ policies \in 0 .. db /\ acked \in 0 .. db
  /\ writing \subseteq 1 .. db
  /\ DOMAIN resolved \subseteq Pairs /\ \A p \in DOMAIN resolved : resolved[p] \in 0 .. db
  /\ age \in 0 .. Stale
  /\ loading \in [phase : {"none", "sent", "read"}, version : 0 .. db,
                  took : 0 .. MaxQuery, late : 0 .. MaxQuery]
  /\ DOMAIN waiting \subseteq Callers /\ \A c \in DOMAIN waiting : waiting[c] \in Pairs
  /\ ok \in BOOLEAN /\ raced \in BOOLEAN /\ lag \in 0 .. LagCap

\* No pair is served from a policy set other than the one the replica holds:
\* the per-pair map never survives the set it was computed from.
OneSetAtATime == \A p \in DOMAIN resolved : resolved[p] = policies

\* While the cache counts as fresh and its last load succeeded, the set it
\* serves was the table's no longer ago than its age plus one query.
BoundedStaleness == Fresh /\ ok => lag <= age + MaxQuery

\* A write through this replica that no load raced takes effect at once: a
\* fresh, successfully loaded set is at least as new as every write this
\* replica has invalidated for.
UnracedWritesShow == Fresh /\ ok /\ ~raced => policies >= acked

\* "Writes invalidate the policy cache immediately, so the staleness window
\* applies to propagation between replicas, not to the replica that took the
\* write": what the replica serves as fresh, the database having answered, is
\* at least as new as every write it has invalidated for.
WritesTakeEffectHere == Fresh /\ ok => policies >= acked

-----------------------------------------------------------------------------
\* Calls keep coming, time passes, handlers resume after their await, and the
\* database is not unreachable for every query ever sent.
Fairness ==
  /\ WF_vars(Resolve) /\ WF_vars(Tick) /\ WF_vars(Invalidate)
  /\ WF_vars(LoadOk \/ LoadFail) /\ SF_vars(ReadTable) /\ SF_vars(LoadOk)

LiveSpec == Spec /\ Fairness

\* Every call is answered, whether its load succeeds or fails.
CallersAnswered == \A c \in Callers : (c \in DOMAIN waiting) ~> (c \notin DOMAIN waiting)

\* Once the table stops changing the replica comes to serve its last version
\* and keeps doing so, whatever raced, failed or was written elsewhere.
EventuallyCurrent == <>[](policies = db)
=============================================================================
