-------------------------- MODULE RuleEngineProofs --------------------------
(***************************************************************************)
(* Theorems about RuleEngine that hold for any rules, lookups, lifetimes,  *)
(* query times and numbers of writes.                                      *)
(***************************************************************************)
EXTENDS RuleEngine, SequenceTheorems, TLAPS

Query == [phase : {"sent", "read"}, version : 0 .. Current,
          age : 0 .. MaxQuery, raced : BOOLEAN]

\* Whatever the tables are made of, they form a sequence.
Versions == (\E S : tables \in Seq(S)) /\ Current > 0

\* What was read as version v, a ticks ago or less.
AsOf(v, a) == v < Current => past[v] <= a

\* A query in flight, and what it leaves in the cache, was current no longer
\* ago than its age, and is no older than what was announced before it.
FetchInv ==
  \A c \in DOMAIN fetching : fetching[c].phase = "read" =>
    /\ fetching[c].version > 0
    /\ AsOf(fetching[c].version, fetching[c].age)
    /\ ~fetching[c].raced => fetching[c].version >= acked

CacheInv ==
  cache.version > 0 =>
    /\ AsOf(cache.version, cache.age)
    /\ ~cache.raced => cache.version >= acked

EngineInv == Versions /\ TypeOK /\ FetchInv /\ CacheInv

-----------------------------------------------------------------------------
LEMMA Constants ==
  /\ Ttl \in Nat /\ Ttl > 0 /\ MaxQuery \in Nat /\ MaxWrites \in Nat
  /\ AgeCap \in Nat /\ MaxQuery < AgeCap
BY RuleAssumption DEF AgeCap

\* A write adds one version.
LEMMA OneMoreVersion ==
  ASSUME Versions, NEW t, tables' = Append(tables, t)
  PROVE  Versions' /\ Current' = Current + 1 /\ Current \in Nat
<1>1. PICK S : tables \in Seq(S)
  BY DEF Versions
<1>2. tables \in Seq(S \cup {t}) /\ t \in S \cup {t}
  BY <1>1, SeqDef
<1>3. Append(tables, t) \in Seq(S \cup {t}) /\ Len(Append(tables, t)) = Len(tables) + 1
  BY <1>2, AppendProperties
<1>4. Len(tables) \in Nat
  BY <1>1, LenProperties
<1> QED
  BY <1>3, <1>4 DEF Versions, Current

\* The latest version is a positive number.
LEMMA CurrentType == Versions => Current \in Nat /\ Current > 0
BY LenProperties DEF Versions, Current

\* An engine that just started satisfies the invariant.
LEMMA InitEngine == Init => EngineInv
<1> SUFFICES ASSUME Init PROVE EngineInv
  OBVIOUS
<1>1. tables = <<Nothing>> /\ tables \in Seq({Nothing}) /\ Current = 1
  BY DEF Init, Current
<1>2. DOMAIN fetching = {}
  BY DEF Init, Nothing
<1>3. cache = [version |-> 0, age |-> AgeCap, raced |-> FALSE]
  BY DEF Init, Empty
<1>4. past \in [1 .. Current - 1 -> 0 .. AgeCap]
  BY <1>1 DEF Init
<1>5. TypeOK
  BY <1>1, <1>2, <1>3, <1>4, Constants DEF Init, TypeOK, Empty
<1>6. Versions
  <2>1. \E S : tables \in Seq(S)
    BY <1>1
  <2> QED
    BY <1>1, <2>1 DEF Versions
<1>7. FetchInv
  BY <1>2 DEF FetchInv
<1>8. CacheInv
  BY <1>3 DEF CacheInv
<1> QED
  BY <1>5, <1>6, <1>7, <1>8 DEF EngineInv

-----------------------------------------------------------------------------
(* One lemma for each kind of step *)

\* A lookup.
LEMMA LookupStep == EngineInv /\ Lookup => EngineInv'
<1> SUFFICES ASSUME EngineInv, NEW c \in Callers, LookupHit(c) \/ LookupMiss(c)
             PROVE  EngineInv'
  BY DEF Lookup
<1>1. CASE LookupHit(c)
  BY <1>1 DEF LookupHit, vars, EngineInv, Versions, TypeOK, FetchInv, CacheInv, AsOf, Current, Empty, AgeCap
<1>2. CASE LookupMiss(c)
  <2> DEFINE sent == [phase |-> "sent", version |-> 0, age |-> 0, raced |-> FALSE]
  <2>1. sent \in Query
    BY Constants, CurrentType DEF Query, EngineInv
  <2>2. /\ DOMAIN fetching' = DOMAIN fetching \cup {c}
        /\ \A d \in DOMAIN fetching' :
             fetching'[d] = sent \/ (d \in DOMAIN fetching /\ fetching'[d] = fetching[d])
    BY <1>2 DEF LookupMiss
  <2>3. UNCHANGED <<tables, writing, cache, past, acked>>
    BY <1>2 DEF LookupMiss
  <2>4. TypeOK'
    BY <2>1, <2>2, <2>3 DEF EngineInv, TypeOK, Query, Current, Empty
  <2>5. FetchInv'
    BY <2>2, <2>3 DEF EngineInv, FetchInv, AsOf, Current
  <2> QED
    BY <2>3, <2>4, <2>5 DEF EngineInv, Versions, CacheInv, AsOf, Current
<1> QED
  BY <1>1, <1>2

\* The database evaluates a query, or its answer arrives, or it fails.
LEMMA FetchStep == ASSUME NEW c \in Callers PROVE EngineInv /\ Fetch(c) => EngineInv'
<1> SUFFICES ASSUME EngineInv, Fetch(c) PROVE EngineInv'
  OBVIOUS
<1>1. c \in DOMAIN fetching /\ fetching[c] \in Query
  BY DEF Fetch, EngineInv, TypeOK, Query
<1>2. acked <= Current /\ Current \in Nat /\ Current > 0
  BY CurrentType DEF EngineInv, TypeOK
<1>3. CASE ReadTable(c)
  <2> DEFINE read == [fetching[c] EXCEPT !.phase = "read", !.version = Current]
  <2>1. read \in Query /\ read.version = Current
    <3>1. Current \in 0 .. Current
      BY <1>2
    <3> QED
      BY <1>1, <3>1 DEF Query
  <2>2. /\ DOMAIN fetching' = DOMAIN fetching
        /\ fetching'[c] = read
        /\ \A d \in DOMAIN fetching : d # c => fetching'[d] = fetching[d]
    BY <1>1, <1>3 DEF ReadTable
  <2>3. UNCHANGED <<tables, writing, cache, past, acked>>
    BY <1>3 DEF ReadTable
  <2> HIDE DEF read
  <2>4. TypeOK'
    BY <1>1, <2>1, <2>2, <2>3 DEF EngineInv, TypeOK, Query, Current, Empty
  <2>5. FetchInv'
    BY <1>2, <2>1, <2>2, <2>3 DEF EngineInv, FetchInv, AsOf, Current
  <2> QED
    BY <2>3, <2>4, <2>5 DEF EngineInv, Versions, CacheInv, AsOf, Current
<1>4. CASE FetchOk(c) \/ FetchFail(c)
  <2>1. /\ DOMAIN fetching' = DOMAIN fetching \ {c}
        /\ \A d \in DOMAIN fetching' : fetching'[d] = fetching[d]
    BY <1>4 DEF FetchOk, FetchFail, Done
  <2>2. UNCHANGED <<tables, writing, past, acked>>
    BY <1>4 DEF FetchOk, FetchFail
  <2>3. /\ cache' \in [version : 0 .. Current, age : 0 .. AgeCap, raced : BOOLEAN]
        /\ cache'.version = 0 => cache' = Empty
        /\ CacheInv'
    <3>1. CASE FetchFail(c)
      BY <2>2, <3>1 DEF FetchFail, EngineInv, TypeOK, CacheInv, AsOf, Current
    <3>2. CASE FetchOk(c)
      <4>1. /\ cache' = [version |-> fetching[c].version, age |-> fetching[c].age,
                         raced |-> fetching[c].raced]
            /\ fetching[c].phase = "read"
        BY <3>2 DEF FetchOk, Loaded
      <4>2. fetching[c].age \in 0 .. AgeCap
        BY <1>1, Constants DEF Query
      <4> QED
        BY <1>1, <2>2, <4>1, <4>2 DEF EngineInv, FetchInv, CacheInv, AsOf, Current, Query
    <3> QED
      BY <1>4, <3>1, <3>2
  <2>4. TypeOK'
    BY <2>1, <2>2, <2>3 DEF EngineInv, TypeOK, Current, Empty
  <2>5. FetchInv'
    BY <2>1, <2>2 DEF EngineInv, FetchInv, AsOf, Current
  <2> QED
    BY <2>2, <2>3, <2>4, <2>5 DEF EngineInv, Versions, Current
<1> QED
  BY <1>3, <1>4 DEF Fetch

\* A write, through whichever replica.
LEMMA WriteStep == ASSUME NEW local \in BOOLEAN PROVE EngineInv /\ Write(local) => EngineInv'
<1> SUFFICES ASSUME EngineInv, Write(local) PROVE EngineInv'
  OBVIOUS
<1>1. PICK t : tables' = Append(tables, t)
  BY DEF Write
<1>2. Versions' /\ Current' = Current + 1 /\ Current \in Nat /\ Current > 0
  BY <1>1, OneMoreVersion DEF EngineInv, Versions
<1>3. past' \in [1 .. Current -> 0 .. AgeCap] /\ past'[Current] = 0
      /\ \A v \in 1 .. Current - 1 : past'[v] = past[v]
  <2>1. past \in [1 .. Current - 1 -> 0 .. AgeCap]
    BY DEF EngineInv, TypeOK
  <2>2. past \in Seq(0 .. AgeCap) /\ Len(past) = Current - 1
    <3>1. Current - 1 \in Nat
      BY <1>2
    <3>2. past \in Seq(0 .. AgeCap)
      BY <2>1, <3>1, SeqDef
    <3>3. Len(past) \in Nat /\ DOMAIN past = 1 .. Len(past) /\ DOMAIN past = 1 .. Current - 1
      BY <2>1, <3>2, LenProperties
    <3>4. Len(past) = Current - 1
      BY <3>1, <3>3
    <3> QED
      BY <3>2, <3>4
  <2>3. past' = Append(past, 0) /\ 0 \in 0 .. AgeCap
    BY Constants DEF Write
  <2>4. /\ past' \in Seq(0 .. AgeCap) /\ Len(past') = Current /\ past'[Current] = 0
        /\ \A v \in 1 .. Current - 1 : past'[v] = past[v]
    BY <1>2, <2>2, <2>3, AppendProperties
  <2> QED
    BY <2>4, LenProperties
<1>4. UNCHANGED <<cache, fetching, acked>> /\ writing' \subseteq writing \cup {Current + 1}
  BY DEF Write
<1>5. TypeOK'
  BY <1>2, <1>3, <1>4 DEF EngineInv, TypeOK, Empty
<1>6. ASSUME NEW v \in 1 .. Current, NEW a \in Nat, AsOf(v, a)
      PROVE  v < Current' => past'[v] <= a
  BY <1>2, <1>3, <1>6 DEF AsOf
<1>7. FetchInv'
  <2> SUFFICES ASSUME NEW c \in DOMAIN fetching, fetching[c].phase = "read"
               PROVE  /\ fetching[c].version > 0
                      /\ fetching[c].version < Current' => past'[fetching[c].version] <= fetching[c].age
                      /\ ~fetching[c].raced => fetching[c].version >= acked
    BY <1>4 DEF FetchInv, AsOf
  <2>1. fetching[c].version \in 1 .. Current /\ fetching[c].age \in Nat
    BY DEF EngineInv, TypeOK, FetchInv
  <2> QED
    BY <1>6, <2>1 DEF EngineInv, FetchInv
<1>8. CacheInv'
  <2> SUFFICES ASSUME cache.version > 0
               PROVE  /\ cache.version < Current' => past'[cache.version] <= cache.age
                      /\ ~cache.raced => cache.version >= acked
    BY <1>4 DEF CacheInv, AsOf
  <2>1. cache.version \in 1 .. Current /\ cache.age \in Nat
    BY DEF EngineInv, TypeOK
  <2> QED
    BY <1>6, <2>1 DEF EngineInv, CacheInv
<1> QED
  BY <1>2, <1>5, <1>7, <1>8 DEF EngineInv

\* An invalidation marks every query in flight.
LEMMA InvalidateStep ==
  ASSUME EngineInv, NEW v \in 1 .. Current, InvalidateFor(v), writing' \subseteq writing
  PROVE  EngineInv'
<1>1. UNCHANGED <<tables, past>> /\ cache' = Empty /\ acked' = IF v > acked THEN v ELSE acked
  BY DEF InvalidateFor, Forgotten
<1>2. /\ DOMAIN fetching' = DOMAIN fetching
      /\ \A c \in DOMAIN fetching : fetching'[c] = [fetching[c] EXCEPT !.raced = TRUE]
  BY DEF InvalidateFor
<1>3. \A c \in DOMAIN fetching :
        /\ fetching'[c] \in Query /\ fetching'[c].raced
        /\ fetching'[c].phase = fetching[c].phase
        /\ fetching'[c].version = fetching[c].version /\ fetching'[c].age = fetching[c].age
  <2>1. \A c \in DOMAIN fetching : fetching[c] \in Query
    BY DEF EngineInv, TypeOK, Query
  <2> SUFFICES ASSUME NEW c \in DOMAIN fetching
               PROVE  /\ fetching'[c] \in Query /\ fetching'[c].raced
                      /\ fetching'[c].phase = fetching[c].phase
                      /\ fetching'[c].version = fetching[c].version
                      /\ fetching'[c].age = fetching[c].age
    OBVIOUS
  <2>2. fetching[c] \in Query /\ fetching'[c] = [fetching[c] EXCEPT !.raced = TRUE]
    BY <1>2, <2>1
  <2> QED
    BY <2>2 DEF Query
<1>4. acked' \in 1 .. Current
  BY <1>1 DEF EngineInv, TypeOK
<1>5. TypeOK'
  BY <1>1, <1>2, <1>3, <1>4, Constants DEF EngineInv, TypeOK, Query, Current, Empty, Versions
<1>6. FetchInv'
  BY <1>1, <1>2, <1>3 DEF EngineInv, FetchInv, AsOf, Current
<1> QED
  BY <1>1, <1>5, <1>6 DEF EngineInv, Versions, CacheInv, Empty, Current

\* A tick ages queries, cache and superseded versions alike.
LEMMA TickStep == EngineInv /\ Tick => EngineInv'
<1> SUFFICES ASSUME EngineInv, Tick PROVE EngineInv'
  OBVIOUS
<1> USE Constants
<1>1. UNCHANGED <<tables, writing, acked>> /\ Current \in Int
  BY LenProperties DEF Tick, EngineInv, Versions, Current
<1>2. /\ past \in [1 .. Current - 1 -> 0 .. AgeCap]
      /\ past' \in [1 .. Current - 1 -> 0 .. AgeCap]
      /\ \A v \in 1 .. Current - 1 : past'[v] = Smaller(past[v] + 1, AgeCap)
  BY DEF Tick, EngineInv, TypeOK, Smaller
<1>3. /\ cache \in [version : 0 .. Current, age : 0 .. AgeCap, raced : BOOLEAN]
      /\ cache' = [cache EXCEPT !.age = Smaller(cache.age + 1, AgeCap)]
  BY DEF Tick, EngineInv, TypeOK
<1>4. /\ cache'.version = cache.version /\ cache'.raced = cache.raced
      /\ cache'.age = Smaller(cache.age + 1, AgeCap)
      /\ cache' \in [version : 0 .. Current, age : 0 .. AgeCap, raced : BOOLEAN]
  BY <1>3 DEF Smaller
<1>5. cache.version = 0 => cache' = Empty
  <2> SUFFICES ASSUME cache.version = 0 PROVE cache' = Empty
    OBVIOUS
  <2>1. cache = Empty
    BY DEF EngineInv, TypeOK
  <2>2. cache.age = AgeCap /\ Smaller(AgeCap + 1, AgeCap) = AgeCap
    BY <2>1 DEF Empty, Smaller
  <2> QED
    BY <1>3, <2>1, <2>2 DEF Empty
<1>6. /\ DOMAIN fetching' = DOMAIN fetching
      /\ \A c \in DOMAIN fetching :
           /\ fetching[c] \in Query
           /\ fetching'[c] = [fetching[c] EXCEPT !.age = fetching[c].age + 1]
           /\ fetching[c].age < MaxQuery
  BY DEF Tick, EngineInv, TypeOK, Query
<1>7. \A c \in DOMAIN fetching :
        /\ fetching'[c] \in Query
        /\ fetching'[c].phase = fetching[c].phase /\ fetching'[c].raced = fetching[c].raced
        /\ fetching'[c].version = fetching[c].version
        /\ fetching'[c].age = fetching[c].age + 1
  BY <1>6 DEF Query
<1>8. TypeOK'
  BY <1>1, <1>2, <1>4, <1>5, <1>6, <1>7 DEF EngineInv, TypeOK, Query, Current, Empty
<1>9. ASSUME NEW v \in 1 .. Current, NEW a \in Nat, AsOf(v, a), v < Current
      PROVE  past'[v] <= a + 1 /\ past'[v] <= Smaller(a + 1, AgeCap)
  <2>1. v \in 1 .. Current - 1
    BY <1>1, <1>9
  <2> QED
    BY <1>2, <1>9, <2>1 DEF AsOf, Smaller
<1>10. FetchInv'
  <2> SUFFICES ASSUME NEW c \in DOMAIN fetching, fetching[c].phase = "read"
               PROVE  /\ fetching[c].version > 0
                      /\ fetching[c].version < Current =>
                           past'[fetching[c].version] <= fetching[c].age + 1
                      /\ ~fetching[c].raced => fetching[c].version >= acked
    BY <1>1, <1>6, <1>7 DEF FetchInv, AsOf, Current
  <2>1. fetching[c].version \in 1 .. Current /\ fetching[c].age \in Nat
    BY <1>1, <1>6 DEF EngineInv, FetchInv, Query
  <2> QED
    BY <1>9, <2>1 DEF EngineInv, FetchInv
<1>11. CacheInv'
  <2> SUFFICES ASSUME cache.version > 0
               PROVE  /\ cache.version < Current =>
                           past'[cache.version] <= Smaller(cache.age + 1, AgeCap)
                      /\ ~cache.raced => cache.version >= acked
    BY <1>1, <1>4 DEF CacheInv, AsOf, Current
  <2>1. cache.version \in 1 .. Current /\ cache.age \in Nat
    BY <1>1, <1>3
  <2> QED
    BY <1>9, <2>1 DEF EngineInv, CacheInv
<1> QED
  BY <1>1, <1>8, <1>10, <1>11 DEF EngineInv, Versions, Current

\* Together: the invariant holds in every reachable state.
LEMMA EngineInvariant == Spec => []EngineInv
<1>1. ASSUME EngineInv, UNCHANGED vars PROVE EngineInv'
  BY <1>1 DEF vars, EngineInv, Versions, TypeOK, FetchInv, CacheInv, AsOf, Current, Empty, AgeCap
<1>2. ASSUME EngineInv, Invalidate PROVE EngineInv'
  <2>1. PICK v \in writing : InvalidateFor(v) /\ writing' = writing \ {v}
    BY <1>2 DEF Invalidate
  <2>2. v \in 1 .. Current
    BY <1>2 DEF EngineInv, TypeOK
  <2> QED
    BY <1>2, <2>1, <2>2, InvalidateStep
<1>3. ASSUME EngineInv, InvalidateByHand PROVE EngineInv'
  <2>1. acked \in 1 .. Current /\ InvalidateFor(acked) /\ writing' = writing
    BY <1>3 DEF InvalidateByHand, EngineInv, TypeOK
  <2> QED
    BY <1>3, <2>1, InvalidateStep
<1>4. EngineInv /\ [Next]_vars => EngineInv'
  BY <1>1, <1>2, <1>3, LookupStep, FetchStep, WriteStep, TickStep
     DEF Next, WriteHere, WriteThere
<1> QED
  BY InitEngine, <1>4, PTL DEF Spec

-----------------------------------------------------------------------------
\* rule-engine.service.ts: a hit serves rules that were the table's no longer
\* ago than the cache's age, in whatever order concurrent queries are answered.
THEOREM RulesStalenessBounded == Spec => []BoundedStaleness
<1>1. EngineInv => BoundedStaleness
  <2> SUFFICES ASSUME EngineInv, Hit, cache.version < Current
               PROVE  past[cache.version] <= cache.age
    BY DEF BoundedStaleness
  <2>1. cache.version \in 0 .. Current /\ cache.version # 0
    BY DEF Hit, Enabled, EngineInv, TypeOK
  <2> QED
    BY <2>1 DEF EngineInv, CacheInv, AsOf
<1> QED
  BY EngineInvariant, <1>1, PTL

\* rule-engine.service.ts: a cache filled by a query that no invalidation
\* overtook serves every write this replica has invalidated for.
THEOREM UnracedRuleWritesServed == Spec => []UnracedWritesShow
<1>1. EngineInv => UnracedWritesShow
  <2> SUFFICES ASSUME EngineInv, Hit, ~cache.raced
               PROVE  cache.version >= acked
    BY DEF UnracedWritesShow
  <2>1. cache.version \in 0 .. Current /\ cache.version # 0
    BY DEF Hit, Enabled, EngineInv, TypeOK
  <2> QED
    BY <2>1 DEF EngineInv, CacheInv
<1> QED
  BY EngineInvariant, <1>1, PTL

\* What the cache and a query in flight hold is a version of the table that was
\* written, and a cache without rules has no load time.
THEOREM EngineTypeCorrect == Spec => []TypeOK
<1>1. EngineInv => TypeOK
  BY DEF EngineInv
<1> QED
  BY EngineInvariant, <1>1, PTL
=============================================================================
