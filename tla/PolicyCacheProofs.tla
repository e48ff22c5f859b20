------------------------- MODULE PolicyCacheProofs -------------------------
(***************************************************************************)
(* Theorems about PolicyCache that hold for any callers, pairs, lifetimes, *)
(* query times and numbers of writes.                                      *)
(***************************************************************************)
EXTENDS PolicyCache, TLAPS

\* A query that has read the table was late for no longer than it took, and
\* read every write announced, unless an announcement overtook it.
QueryInv ==
  /\ loading.late <= loading.took
  /\ loading.phase = "read" /\ ~raced => loading.version >= acked

\* What `loading' may be when the table is at version d.
Query(d) == [phase : {"none", "sent", "read"}, version : 0 .. d,
             took : 0 .. MaxQuery, late : 0 .. MaxQuery]

CacheInv == TypeOK /\ QueryInv /\ BoundedStaleness /\ UnracedWritesShow

\* The constants are naturals, and no load has no age.
LEMMA Constants ==
  /\ Ttl \in Nat /\ Ttl > 0 /\ MaxQuery \in Nat /\ MaxWrites \in Nat
  /\ Stale \in Nat /\ Stale > Ttl /\ LagCap \in Nat /\ LagCap = Ttl + MaxQuery + 1
  /\ NoLoad.phase = "none" /\ NoLoad.took = 0 /\ NoLoad.late = 0 /\ NoLoad.version = 0
BY CacheAssumption DEF Stale, LagCap, NoLoad

\* A cold start satisfies the invariant.
LEMMA InitCache == Init => CacheInv
<1> SUFFICES ASSUME Init PROVE CacheInv
  OBVIOUS
<1>1. loading \in Query(db)
  BY Constants DEF Init, NoLoad, Query
<1>2. DOMAIN resolved = {} /\ DOMAIN waiting = {}
  BY DEF Init, Nobody
<1>3. TypeOK
  <2>1. db \in 0 .. 1 /\ policies = 0 /\ acked = 0 /\ age = Stale /\ lag = 0
    BY DEF Init
  <2>2. db \in 0 .. MaxWrites + 1 /\ policies \in 0 .. db /\ acked \in 0 .. db
        /\ age \in 0 .. Stale /\ lag \in 0 .. LagCap
    BY <2>1, Constants
  <2> QED
    BY <1>1, <1>2, <2>2 DEF Init, TypeOK, Query
<1>4. QueryInv /\ BoundedStaleness /\ UnracedWritesShow
  BY Constants DEF Init, QueryInv, BoundedStaleness, UnracedWritesShow, Fresh
<1> QED
  BY <1>3, <1>4 DEF CacheInv

\* The variables keep their types.
LEMMA TypeStep == CacheInv /\ [Next]_vars => TypeOK'
<1> SUFFICES ASSUME CacheInv, [Next]_vars PROVE TypeOK'
  OBVIOUS
<1> USE Constants
<1>1. TypeOK /\ QueryInv
  BY DEF CacheInv
<1>2. ASSUME NEW c \in Callers, NEW p \in Pairs, ResolveFresh(c, p) PROVE TypeOK'
  BY <1>1, <1>2 DEF ResolveFresh, Remember, TypeOK
<1>3. ASSUME NEW c \in Callers, NEW p \in Pairs, ResolveStale(c, p) PROVE TypeOK'
  <2>1. loading' \in Query(db)
    BY <1>1, <1>3 DEF ResolveStale, NoLoad, TypeOK, Query
  <2> QED
    BY <1>1, <1>3, <2>1 DEF ResolveStale, TypeOK, Query
<1>4. CASE ReadTable
  <2>1. loading \in Query(db) /\ db \in 0 .. db
    BY <1>1 DEF TypeOK, Query
  <2>2. loading' \in Query(db)
    BY <1>4, <2>1 DEF ReadTable, Query
  <2> QED
    BY <1>1, <1>4, <2>2 DEF ReadTable, TypeOK, Query
<1>5. ASSUME NEW v \in 0 .. db, NEW good \in BOOLEAN, Complete(v, good), lag' \in 0 .. LagCap
      PROVE  TypeOK'
  <2>1. loading' \in Query(db)
    BY <1>1, <1>5 DEF Complete, Finished, NoLoad, TypeOK, Query
  <2>2. DOMAIN resolved' \subseteq Pairs /\ \A p \in DOMAIN resolved' : resolved'[p] \in 0 .. db
    BY <1>1, <1>5 DEF Complete, ClearedAndFilled, TypeOK
  <2>3. DOMAIN waiting' = {}
    BY <1>5 DEF Complete, StillUnanswered, Nobody
  <2>4. /\ policies' \in 0 .. db /\ age' \in 0 .. Stale /\ ok' \in BOOLEAN
        /\ UNCHANGED <<db, writing, acked, raced>>
    BY <1>5 DEF Complete
  <2>5. loading' \in [phase : {"none", "sent", "read"}, version : 0 .. db,
                     took : 0 .. MaxQuery, late : 0 .. MaxQuery]
    BY <2>1 DEF Query
  <2> QED
    BY <1>1, <1>5, <2>2, <2>3, <2>4, <2>5 DEF TypeOK
<1>6. CASE LoadOk
  <2>1. loading.version \in 0 .. db /\ loading.late \in 0 .. LagCap
    BY <1>1 DEF TypeOK
  <2> QED
    BY <1>5, <1>6, <2>1 DEF LoadOk
<1>7. CASE LoadFail
  BY <1>1, <1>5, <1>7 DEF LoadFail, TypeOK
<1>8. ASSUME NEW local \in BOOLEAN, Write(local) PROVE TypeOK'
  BY <1>1, <1>8 DEF Write, cache, TypeOK
<1>9. CASE Invalidate
  BY <1>1, <1>9 DEF Invalidate, AgeAfterInvalidate, Nobody, TypeOK
<1>10. CASE Tick
  <2>1. loading' \in Query(db)
    <3>1. CASE loading = NoLoad
      BY <1>1, <1>10, <3>1 DEF Tick, TypeOK, NoLoad, Query
    <3>2. CASE loading # NoLoad
      <4>1. /\ loading \in Query(db)
            /\ loading.took + 1 \in 0 .. MaxQuery
            /\ loading.late \in 0 .. MaxQuery /\ loading.late + 1 \in 0 .. MaxQuery
        BY <1>1, <1>10, <3>2 DEF Tick, TypeOK, QueryInv, Query
      <4> QED
        BY <1>10, <3>2, <4>1 DEF Tick, Query
    <3> QED
      BY <3>1, <3>2
  <2> QED
    BY <1>1, <1>10, <2>1 DEF Tick, Smaller, TypeOK, Query
<1>11. CASE UNCHANGED vars
  BY <1>1, <1>11 DEF vars, cache, TypeOK
<1> QED
  BY <1>2, <1>3, <1>4, <1>6, <1>7, <1>8, <1>9, <1>10, <1>11
     DEF Next, Resolve, WriteHere, WriteThere

\* So do the facts about the query in flight and what it leaves in the cache.
LEMMA AgeStep ==
  CacheInv /\ [Next]_vars => (QueryInv /\ BoundedStaleness /\ UnracedWritesShow)'
<1> SUFFICES ASSUME CacheInv, [Next]_vars
             PROVE  (QueryInv /\ BoundedStaleness /\ UnracedWritesShow)'
  OBVIOUS
<1> USE Constants DEF QueryInv, BoundedStaleness, UnracedWritesShow, Fresh
<1>1. CacheInv /\ TypeOK
  BY DEF CacheInv
<1>2. ASSUME NEW c \in Callers, NEW p \in Pairs, ResolveFresh(c, p)
      PROVE  (QueryInv /\ BoundedStaleness /\ UnracedWritesShow)'
  BY <1>1, <1>2 DEF ResolveFresh, CacheInv
<1>3. ASSUME NEW c \in Callers, NEW p \in Pairs, ResolveStale(c, p)
      PROVE  (QueryInv /\ BoundedStaleness /\ UnracedWritesShow)'
  BY <1>1, <1>3 DEF ResolveStale, CacheInv, NoLoad
<1>4. CASE ReadTable
  BY <1>1, <1>4 DEF ReadTable, CacheInv, TypeOK
<1>5. CASE LoadOk
  BY <1>1, <1>5 DEF LoadOk, Complete, Finished, CacheInv, TypeOK
<1>6. CASE LoadFail
  BY <1>1, <1>6 DEF LoadFail, Complete, Finished, CacheInv, TypeOK
<1>7. ASSUME NEW local \in BOOLEAN, Write(local)
      PROVE  (QueryInv /\ BoundedStaleness /\ UnracedWritesShow)'
  BY <1>1, <1>7 DEF Write, cache, CacheInv
<1>8. CASE Invalidate
  <2>1. age' = Stale /\ loading' = loading /\ (raced \/ loading # NoLoad => raced')
    BY <1>8 DEF Invalidate, AgeAfterInvalidate
  <2>2. ~Fresh'
    BY <2>1
  <2>3. loading.phase = "read" => raced'
    BY <2>1
  <2> QED
    BY <1>1, <2>1, <2>2, <2>3 DEF CacheInv
<1>9. CASE Tick
  <2>1. QueryInv'
    <3>1. CASE loading = NoLoad
      BY <1>1, <1>9, <3>1 DEF Tick, CacheInv, TypeOK, NoLoad
    <3>2. CASE loading # NoLoad
      BY <1>1, <1>9, <3>2 DEF Tick, CacheInv, TypeOK
    <3> QED
      BY <3>1, <3>2
  <2>2. BoundedStaleness' /\ UnracedWritesShow'
    BY <1>1, <1>9 DEF Tick, Smaller, CacheInv, TypeOK
  <2> QED
    BY <2>1, <2>2
<1>10. CASE UNCHANGED vars
  BY <1>1, <1>10 DEF vars, cache, CacheInv
<1> QED
  BY <1>2, <1>3, <1>4, <1>5, <1>6, <1>7, <1>8, <1>9, <1>10
     DEF Next, Resolve, WriteHere, WriteThere

\* Together: the invariant holds in every reachable state.
LEMMA CacheInvariant == Spec => []CacheInv
<1>1. CacheInv /\ [Next]_vars => CacheInv'
  BY TypeStep, AgeStep DEF CacheInv
<1> QED
  BY InitCache, <1>1, PTL DEF Spec

-----------------------------------------------------------------------------
\* policy.resolver.ts: what is fresh and well loaded was the table's no longer
\* ago than its age plus one query, for any number of callers and any TTL.
THEOREM StalenessBounded == Spec => []BoundedStaleness
<1>1. CacheInv => BoundedStaleness
  BY DEF CacheInv
<1> QED
  BY CacheInvariant, <1>1, PTL

\* policy.resolver.ts: a write through this replica that no load raced takes
\* effect at once.
THEOREM UnracedWritesAreServed == Spec => []UnracedWritesShow
<1>1. CacheInv => UnracedWritesShow
  BY DEF CacheInv
<1> QED
  BY CacheInvariant, <1>1, PTL

\* policy.resolver.ts: no pair is served from a set other than the one held.
\* Every step that replaces the set replaces the per-pair map in the same step.
THEOREM PairsServedFromOneSet == Spec => []OneSetAtATime
<1>1. Init => OneSetAtATime
  BY DEF Init, OneSetAtATime, Nobody
<1>2. OneSetAtATime /\ [Next]_vars => OneSetAtATime'
  <2> SUFFICES ASSUME OneSetAtATime, [Next]_vars PROVE OneSetAtATime'
    OBVIOUS
  <2> USE DEF OneSetAtATime
  <2>1. ASSUME NEW c \in Callers, NEW p \in Pairs, ResolveFresh(c, p) PROVE OneSetAtATime'
    BY <2>1 DEF ResolveFresh, Remember
  <2>2. ASSUME NEW c \in Callers, NEW p \in Pairs, ResolveStale(c, p) PROVE OneSetAtATime'
    BY <2>2 DEF ResolveStale
  <2>3. CASE LoadOk \/ LoadFail
    BY <2>3 DEF LoadOk, LoadFail, Complete, ClearedAndFilled
  <2>4. CASE Invalidate
    BY <2>4 DEF Invalidate, Nobody
  <2>5. CASE ReadTable \/ WriteHere \/ WriteThere \/ Tick \/ UNCHANGED vars
    BY <2>5 DEF ReadTable, WriteHere, WriteThere, Write, Tick, vars, cache
  <2> QED
    BY <2>1, <2>2, <2>3, <2>4, <2>5 DEF Next, Resolve
<1> QED
  BY <1>1, <1>2, PTL DEF Spec

\* Every variable keeps its shape: the cache never holds a version of the table
\* that was not written, and no query is in flight longer than MaxQuery.
THEOREM CacheTypeCorrect == Spec => []TypeOK
<1>1. CacheInv => TypeOK
  BY DEF CacheInv
<1> QED
  BY CacheInvariant, <1>1, PTL
=============================================================================
