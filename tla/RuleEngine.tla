----------------------------- MODULE RuleEngine -----------------------------
(***************************************************************************)
(* The rule cache of one replica (src/services/rule-engine.service.ts), the*)
(* rules table (src/repositories/rule.repository.ts) and the control-plane *)
(* handlers that write it (src/routes/rules.routes.ts).                    *)
(*                                                                         *)
(* Unlike the policy cache there is no single flight: every lookup that    *)
(* misses sends its own query and stores its own answer, stamped with the  *)
(* time it started.  An action is the code between two awaits.             *)
(*                                                                         *)
(* `tables' keeps every version of the table; what the cache or a query    *)
(* holds is the number of a version.  Time enters as ages, in ticks.       *)
(***************************************************************************)
EXTENDS RuleMatching, Sequences, FiniteSets

CONSTANTS
  Callers,          \* concurrent lookups
  Ids,              \* rule ids
  Dims,             \* dimensions a rule may have [type, pattern]
  Priorities,       \* priorities a request may ask for
  Limits,           \* what a rule may give [algorithm, limit, window]
  Ttl,              \* CACHE_TTL, in ticks
  MaxQuery,         \* bound on the ticks a query takes
  MaxWrites         \* model bound on writes to the table

ASSUME RuleAssumption ==
  Ttl \in Nat \ {0} /\ MaxQuery \in Nat /\ MaxWrites \in Nat /\ Priorities \subseteq Nat

VARIABLES
  tables,    \* versions of the table, each a table of RuleMatching
  writing,   \* versions this replica has written but not yet invalidated for
  cache,     \* rulesCache and cacheLastUpdated: [version, age, raced]
  fetching   \* lookup -> its query in flight [phase, version, age, raced]

VARIABLES    \* history
  past,      \* past[v]: ticks since version v was superseded, up to AgeCap
  acked      \* latest version this replica's invalidateCache() has announced

vars == <<tables, writing, cache, fetching, past, acked>>

AgeCap  == Ttl + MaxQuery
Current == Len(tables)
Smaller(a, b) == IF a <= b THEN a ELSE b

\* invalidateCache(): no rules, loaded at time 0.
Empty == [version |-> 0, age |-> AgeCap, raced |-> FALSE]
Nothing == [c \in {} |-> 0]

\* The rules a query of version v returns.
Enabled(v) == IF v = 0 THEN {} ELSE EnabledIn(tables[v])

-----------------------------------------------------------------------------
(* The cache *)

Init ==
  /\ tables = <<Nothing>>
  /\ writing = {} /\ cache = Empty /\ fetching = Nothing
  /\ past = <<>> /\ acked = 1

\* Faulty variant: loaded rules are kept until they are invalidated.
HitForever == Enabled(cache.version) # {}

\* getEnabledRules' test: an empty list does not count as cached.
Hit == Enabled(cache.version) # {} /\ cache.age < Ttl

\* findMatchingRule with a valid cache: answered at once, nothing changes.
LookupHit(c) == Hit /\ UNCHANGED vars

\* ... and without one: `now' is taken, the query is sent.
LookupMiss(c) ==
  /\ ~Hit
  /\ fetching' = [d \in DOMAIN fetching \cup {c} |->
                    IF d = c THEN [phase |-> "sent", version |-> 0, age |-> 0, raced |-> FALSE]
                             ELSE fetching[d]]
  /\ UNCHANGED <<tables, writing, cache, past, acked>>

Lookup == \E c \in Callers \ DOMAIN fetching : LookupHit(c) \/ LookupMiss(c)

\* The database evaluates c's query.
ReadTable(c) ==
  /\ fetching[c].phase = "sent"
  /\ fetching' = [fetching EXCEPT ![c].phase = "read", ![c].version = Current]
  /\ UNCHANGED <<tables, writing, cache, past, acked>>

\* Faulty variant: stamped when the rows arrive.
StampOnArrival(f) == [version |-> f.version, age |-> 0, raced |-> f.raced]

\* rulesCache = rules; cacheLastUpdated = now, as taken before the query.
Loaded(f) == [version |-> f.version, age |-> f.age, raced |-> f.raced]
Done(c)   == [d \in DOMAIN fetching \ {c} |-> fetching[d]]

\* The rows arrive; c is answered from them.
FetchOk(c) ==
  /\ fetching[c].phase = "read"
  /\ cache' = Loaded(fetching[c])
  /\ fetching' = Done(c)
  /\ UNCHANGED <<tables, writing, past, acked>>

\* The query fails and c's check with it; the cache is left as it was.
FetchFail(c) ==
  /\ fetching' = Done(c)
  /\ UNCHANGED <<tables, writing, cache, past, acked>>

-----------------------------------------------------------------------------
(* The control plane *)

Put(i, row) == [j \in DOMAIN tables[Current] \cup {i} |-> IF j = i THEN row ELSE tables[Current][j]]

\* The tables one request can make of the current one.  An unknown id is a 404
\* and no write.  An update sets any fields, the priority as it is given.
Created ==
  {Put(i, Row(dim, StoredPriority(p), e, g)) :
     i \in Ids \ DOMAIN tables[Current], dim \in Dims, p \in Priorities, e \in BOOLEAN, g \in Limits}

Updated ==
  UNION {{Put(i, Row(dim, p, e, g)) :
            dim \in Dims, p \in Priorities, e \in BOOLEAN, g \in Limits}
         \cup {Put(i, [tables[Current][i] EXCEPT !.dim = dim, !.gives = g]) :
                 dim \in Dims, g \in Limits} :
           i \in DOMAIN tables[Current]}

Deleted ==
  {[j \in DOMAIN tables[Current] \ {i} |-> tables[Current][j]] : i \in DOMAIN tables[Current]}

\* enable and disable.
Switched ==
  {Put(i, [tables[Current][i] EXCEPT !.enabled = e]) : i \in DOMAIN tables[Current], e \in BOOLEAN}

NextTables == Created \cup Updated \cup Deleted \cup Switched

\* Through this replica the handler resumes with invalidateCache(); of a write
\* through another, this replica hears nothing.
Write(local) ==
  /\ Current <= MaxWrites
  /\ \E t \in NextTables : tables' = Append(tables, t)
  /\ past' = Append(past, 0)
  /\ writing' = IF local THEN writing \cup {Current + 1} ELSE writing
  /\ UNCHANGED <<cache, fetching, acked>>

WriteHere  == Write(TRUE)
WriteThere == Write(FALSE)

\* Faulty variant: nothing is forgotten.
Retained == [cache EXCEPT !.raced = FALSE]

Forgotten == Empty

\* invalidateCache().  Queries in flight are not told.
InvalidateFor(v) ==
  /\ cache' = Forgotten
  /\ fetching' = [c \in DOMAIN fetching |-> [fetching[c] EXCEPT !.raced = TRUE]]
  /\ acked' = IF v > acked THEN v ELSE acked
  /\ UNCHANGED <<tables, past>>

Invalidate == \E v \in writing : InvalidateFor(v) /\ writing' = writing \ {v}

\* POST /rules/cache/invalidate.
InvalidateByHand == InvalidateFor(acked) /\ UNCHANGED writing

-----------------------------------------------------------------------------
\* A tick passes.  Queries take at most MaxQuery of them.
Tick ==
  /\ \A c \in DOMAIN fetching : fetching[c].age < MaxQuery
  /\ cache' = [cache EXCEPT !.age = Smaller(@ + 1, AgeCap)]
  /\ fetching' = [c \in DOMAIN fetching |-> [fetching[c] EXCEPT !.age = @ + 1]]
  /\ past' = [v \in DOMAIN past |-> Smaller(past[v] + 1, AgeCap)]
  /\ UNCHANGED <<tables, writing, acked>>

Fetch(c) == c \in DOMAIN fetching /\ (ReadTable(c) \/ FetchOk(c) \/ FetchFail(c))

Next ==
  \/ Lookup \/ \E c \in Callers : Fetch(c)
  \/ WriteHere \/ WriteThere \/ Invalidate \/ InvalidateByHand
  \/ Tick

Spec == Init /\ [][Next]_vars

-----------------------------------------------------------------------------
(* Properties *)

\* What the cache and a query in flight hold is a version of the table; a cache
\* without rules has no load time either.
TypeOK ==
  /\ writing \subseteq 2 .. Current /\ acked \in 1 .. Current
  /\ cache \in [version : 0 .. Current, age : 0 .. AgeCap, raced : BOOLEAN]
  /\ cache.version = 0 => cache = Empty
  /\ DOMAIN fetching \subseteq Callers
  /\ \A c \in DOMAIN fetching :
       fetching[c] \in [phase : {"sent", "read"}, version : 0 .. Current,
                        age : 0 .. MaxQuery, raced : BOOLEAN]
  /\ past \in [1 .. Current - 1 -> 0 .. AgeCap]

\* A cache hit serves rules that were the table's no longer ago than the
\* cache's age, hence less than CACHE_TTL ago, in whatever order concurrent
\* queries are answered.
BoundedStaleness == Hit /\ cache.version < Current => past[cache.version] <= cache.age

\* A cache filled by a query that no invalidation overtook serves every write
\* this replica has invalidated for.
UnracedWritesShow == Hit /\ ~cache.raced => cache.version >= acked

-----------------------------------------------------------------------------
\* Time passes, handlers resume after their await, every query ends.
Fairness == WF_vars(Tick) /\ WF_vars(Invalidate) /\ \A c \in Callers : WF_vars(Fetch(c))

LiveSpec == Spec /\ Fairness

\* Once the table stops changing, hits come to serve its last version only,
\* whatever raced, failed or was written elsewhere.
EventuallyCurrent == <>[](Hit => cache.version = Current)
=============================================================================
