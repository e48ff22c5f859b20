--------------------------- MODULE GatewayProofs ---------------------------
(***************************************************************************)
(* Theorems about Gateway, for any requests, failure modes, retries and    *)
(* outages: how requests end, and what client and process go through.      *)
(***************************************************************************)
EXTENDS Gateway, TLAPS

Request == [surface : Surfaces \cup {"none"}, stage : Stages \cup {"idle", "done"},
            outcome : {"none", "enforced", "fail_open", "fail_closed", "error", "lost"},
            noRedis : BOOLEAN, noPg : BOOLEAN, noPool : BOOLEAN]

\* A request under way remembers what it cannot reach.
Saw(q) == q.stage \in Stages =>
  /\ ~Reachable => q.noRedis
  /\ q.surface = "check" /\ (~pgUp \/ pool = "stale") => q.noPg

\* The three properties, of one request.
Explained(q) ==
  /\ q.outcome \in {"fail_open", "fail_closed"} =>
       q.noRedis \/ (q.surface = "check" /\ q.noPg)
  /\ q.surface \in {"own", "reserve"} => q.outcome # "error"
  /\ q.outcome = "error" =>
       \/ q.surface = "commit" /\ q.noRedis
       \/ q.surface = "check" /\ (q.noPg \/ q.noPool)

RequestInv ==
  /\ req \in [Requests -> Request]
  /\ \A r \in Requests : Saw(req[r]) /\ Explained(req[r])

-----------------------------------------------------------------------------
\* A failure mode is one of two answers, and the surfaces are four.
LEMMA Modes ==
  /\ \A s : Mode(s) \in {"fail_open", "fail_closed"}
  /\ Surfaces \subseteq {"check", "own", "reserve", "commit"}
BY GatewayAssumption DEF Mode

\* Nothing is under way at first.
LEMMA InitRequests == Init => RequestInv
BY DEF Init, RequestInv, Request, Idle, Saw, Explained, Stages

\* A request under way that ends with an answer that is explained keeps the
\* invariant.
LEMMA Ending ==
  ASSUME RequestInv, NEW r \in Requests, req[r].stage \in Stages,
         NEW o \in {"enforced", "fail_open", "fail_closed", "error"},
         Ends(r, o),
         Explained([req[r] EXCEPT !.outcome = o]),
         Reachable' = Reachable, pgUp' = pgUp, pool' \in {pool, "whole"}
  PROVE  RequestInv'
<1>1. req' = [req EXCEPT ![r] = [req[r] EXCEPT !.stage = "done", !.outcome = o]]
  BY DEF Ends, RequestInv
<1>2. req' \in [Requests -> Request]
  <2>1. [req[r] EXCEPT !.stage = "done", !.outcome = o] \in Request
    BY DEF RequestInv, Request
  <2> QED
    BY <1>1, <2>1 DEF RequestInv
<1>3. ASSUME NEW q \in Requests PROVE Saw(req[q])' /\ Explained(req[q])'
  <2>1. CASE q = r
    <3>1. req[r] \in Request
      BY DEF RequestInv
    <3>2. /\ req'[q].stage = "done" /\ req'[q].outcome = o
          /\ req'[q].surface = req[r].surface /\ req'[q].noRedis = req[r].noRedis
          /\ req'[q].noPg = req[r].noPg /\ req'[q].noPool = req[r].noPool
      BY <1>1, <2>1, <3>1 DEF RequestInv, Request
    <3>3. LET p == [req[r] EXCEPT !.outcome = o]
          IN  /\ p.outcome = o /\ p.surface = req[r].surface /\ p.noRedis = req[r].noRedis
              /\ p.noPg = req[r].noPg /\ p.noPool = req[r].noPool
      BY <3>1 DEF Request
    <3> QED
      BY <3>2, <3>3 DEF Saw, Explained, Stages
  <2>2. CASE q # r
    <3>1. req'[q] = req[q]
      BY <1>1, <2>2 DEF RequestInv
    <3> QED
      BY <3>1 DEF RequestInv, Saw, Explained
  <2> QED
    BY <2>1, <2>2
<1> QED
  BY <1>2, <1>3 DEF RequestInv

\* One that goes on to another stage keeps it as well.
LEMMA Going ==
  ASSUME RequestInv, NEW r \in Requests, req[r].stage \in Stages,
         NEW s \in Stages, Goes(r, s),
         Reachable' = Reachable, pgUp' = pgUp, pool' \in {pool, "whole"}
  PROVE  RequestInv'
<1>1. req' \in [Requests -> Request]
  BY DEF Goes, RequestInv, Request
<1>2. ASSUME NEW q \in Requests PROVE Saw(req[q])' /\ Explained(req[q])'
  BY <1>2 DEF Goes, RequestInv, Request, Saw, Explained
<1> QED
  BY <1>1, <1>2 DEF RequestInv

\* What a rejected call of a request under way may lead to.
LEMMA Rejecting ==
  ASSUME RequestInv, NEW r \in Requests, req[r].stage \in Stages,
         NEW error, Rejects(r, error),
         IsStateUnavailable(error) /\ Guarded(req[r].surface) =>
           req[r].noRedis \/ (req[r].surface = "check" /\ req[r].noPg),
         ~IsStateUnavailable(error) =>
           req[r].surface = "check" /\ (req[r].noPg \/ req[r].noPool),
         IsStateUnavailable(error) /\ ~Guarded(req[r].surface) => req[r].noRedis,
         Reachable' = Reachable, pgUp' = pgUp, pool' \in {pool, "whole"}
  PROVE  RequestInv'
<1> DEFINE o == IF Guarded(req[r].surface) /\ IsStateUnavailable(error)
                THEN Mode(req[r].surface) ELSE "error"
<1>1. o \in {"fail_open", "fail_closed", "error"} /\ Ends(r, o)
  BY Modes DEF Rejects, Reply
<1>2. /\ o # "error" => Guarded(req[r].surface) /\ IsStateUnavailable(error)
      /\ o = "error" => ~Guarded(req[r].surface) \/ ~IsStateUnavailable(error)
  BY Modes
<1> HIDE DEF o
<1>3. Explained([req[r] EXCEPT !.outcome = o])
  <2>1. req[r] \in Request
    BY DEF RequestInv
  <2>2. LET p == [req[r] EXCEPT !.outcome = o]
        IN  /\ p.outcome = o /\ p.surface = req[r].surface /\ p.noRedis = req[r].noRedis
            /\ p.noPg = req[r].noPg /\ p.noPool = req[r].noPool
    BY <2>1 DEF Request
  <2> QED
    BY <1>1, <1>2, <2>2 DEF Explained, Guarded
<1> QED
  BY <1>1, <1>3, Ending

-----------------------------------------------------------------------------
\* The steps of a request keep the invariant.
LEMMA ServeStep == RequestInv /\ Serve => RequestInv'
<1> SUFFICES ASSUME RequestInv, NEW r \in Requests,
                    Arrive(r) \/ LookupDone(r) \/ LookupFail(r) \/ RunScript(r) \/ ScriptFail(r)
             PROVE  RequestInv'
  BY DEF Serve
<1> DEFINE Same == Reachable' = Reachable /\ pgUp' = pgUp /\ pool' \in {pool, "whole"}
<1>1. CASE Arrive(r)
  <2>1. Same
    BY <1>1 DEF Arrive, servers, client, pg, Reachable
  <2>2. PICK s \in Surfaces :
          \/ req' = [req EXCEPT ![r] = Arrived(s, "script", "none")]
          \/ req' = [req EXCEPT ![r] = Arrived(s, "lookup", "none")]
          \/ /\ s = "check" /\ ~pgConnected
             /\ req' = [req EXCEPT ![r] = Arrived(s, "done", Reply(s, "not initialized"))]
    BY <1>1 DEF Arrive
  <2>3. Reply(s, "not initialized") = "error"
    BY DEF Reply, IsStateUnavailable
  <2>4. PICK stage \in Stages \cup {"done"}, outcome \in {"none", "error"} :
          /\ req' = [req EXCEPT ![r] = Arrived(s, stage, outcome)]
          /\ outcome = "error" => s = "check" /\ ~pgConnected
    BY <2>2, <2>3 DEF Stages
  <2>5. Arrived(s, stage, outcome) \in Request
    BY DEF Arrived, Request
  <2>6. req' \in [Requests -> Request] /\ req'[r] = Arrived(s, stage, outcome)
    BY <2>4, <2>5 DEF RequestInv
  <2>7. ASSUME NEW q \in Requests PROVE Saw(req[q])' /\ Explained(req[q])'
    <3>1. CASE q = r
      <4>1. /\ req'[q].outcome = outcome /\ req'[q].surface = s
            /\ req'[q].noRedis = ~Reachable
            /\ req'[q].noPg = (s = "check" /\ (~pgUp \/ pool = "stale"))
            /\ req'[q].noPool = (s = "check" /\ ~pgConnected)
        BY <2>6, <3>1 DEF Arrived
      <4>2. Saw(req[q])'
        BY <2>1, <4>1 DEF Saw
      <4>3. Explained(req[q])'
        BY <2>4, <4>1 DEF Explained
      <4> QED
        BY <4>2, <4>3
    <3>2. CASE q # r
      <4>1. req'[q] = req[q]
        BY <2>4, <3>2 DEF RequestInv
      <4> QED
        BY <2>1, <4>1 DEF RequestInv, Saw, Explained
    <3> QED
      BY <3>1, <3>2
  <2> QED
    BY <2>6, <2>7 DEF RequestInv
<1>2. CASE LookupDone(r)
  <2>1. Same
    BY <1>2 DEF LookupDone, servers, client, pg, Reachable
  <2> QED
    BY <1>2, <2>1, Going DEF LookupDone, Stages
<1>3. CASE LookupFail(r)
  <2>1. Same
    BY <1>3 DEF LookupFail, servers, client, Reachable
  <2>2. req[r].stage \in Stages
    BY <1>3 DEF LookupFail, Stages
  <2>3. CASE req[r].surface = "check"
    <3>1. PICK error \in QueryErrors : Rejects(r, error)
      BY <1>3, <2>3 DEF LookupFail
    <3>2. ~pgUp \/ pool = "stale"
      BY <3>1 DEF QueryErrors
    <3>3. req[r].noPg
      BY <2>2, <2>3, <3>2 DEF RequestInv, Saw
    <3> QED
      BY <2>1, <2>2, <2>3, <3>1, <3>3, Rejecting DEF Guarded
  <2>4. CASE req[r].surface # "check"
    BY <1>3, <2>1, <2>2, <2>4, Going DEF LookupFail, Stages
  <2> QED
    BY <2>3, <2>4
<1>4. CASE RunScript(r)
  <2>1. Same
    BY <1>4 DEF RunScript, client, pg, Reachable
  <2>2. req[r].stage \in Stages
    BY <1>4 DEF RunScript, Stages
  <2>3. CASE Ends(r, "enforced")
    <3>1. Explained([req[r] EXCEPT !.outcome = "enforced"])
      BY DEF Explained, RequestInv, Request
    <3> QED
      BY <2>1, <2>2, <2>3, <3>1, Ending
  <2>4. CASE Goes(r, "reload")
    BY <2>1, <2>2, <2>4, Going DEF Stages
  <2> QED
    BY <1>4, <2>3, <2>4 DEF RunScript, OnNoScript
<1>5. CASE ScriptFail(r)
  <2>1. Same
    BY <1>5 DEF ScriptFail, servers, client, pg, Reachable
  <2>2. PICK error \in ScriptErrors(r) : Rejects(r, error)
    BY <1>5 DEF ScriptFail
  <2>3. req[r].stage \in Stages
    BY <1>5 DEF ScriptFail, Stages
  <2>4. IsStateUnavailable(error) /\ ~Reachable
    BY <2>2 DEF ScriptErrors, IsStateUnavailable, Reachable
  <2>5. req[r].noRedis
    BY <2>3, <2>4 DEF RequestInv, Saw
  <2> QED
    BY <2>1, <2>2, <2>3, <2>4, <2>5, Rejecting
<1> QED
  BY <1>1, <1>2, <1>3, <1>4, <1>5

\* What a request that is told of an outage, or lost, keeps.
LEMMA Told ==
  ASSUME RequestInv, NEW r \in Requests
  PROVE  /\ [req[r] EXCEPT !.noRedis = TRUE] \in Request
         /\ Explained([req[r] EXCEPT !.noRedis = TRUE])
         /\ [req[r] EXCEPT !.noPg = TRUE] \in Request
         /\ Explained([req[r] EXCEPT !.noPg = TRUE])
         /\ [req[r] EXCEPT !.stage = "done", !.outcome = "lost"] \in Request
         /\ Explained([req[r] EXCEPT !.stage = "done", !.outcome = "lost"])
BY DEF RequestInv, Request, Explained

\* Outages, reconnections and the life of the process keep the invariant.
LEMMA EventStep == RequestInv /\ Next /\ ~Serve => RequestInv'
<1> SUFFICES ASSUME RequestInv, Next, ~Serve PROVE RequestInv'
  OBVIOUS
<1>1. CASE RedisStops
  <2>1. /\ req' = [r \in Requests |-> IF r \in InFlight THEN [req[r] EXCEPT !.noRedis = TRUE] ELSE req[r]]
        /\ pgUp' = pgUp /\ pool' = pool
    BY <1>1 DEF RedisStops, SawNoRedis, pg
  <2>2. req' \in [Requests -> Request]
    BY <2>1, Told DEF RequestInv
  <2>3. ASSUME NEW q \in Requests PROVE Saw(req[q])' /\ Explained(req[q])'
    <3>1. CASE q \in InFlight
      <4>1. req'[q] = [req[q] EXCEPT !.noRedis = TRUE] /\ req[q] \in Request
        BY <2>1, <3>1 DEF RequestInv
      <4>2. /\ req'[q].noRedis /\ req'[q].noPg = req[q].noPg /\ req'[q].noPool = req[q].noPool
            /\ req'[q].stage = req[q].stage /\ req'[q].surface = req[q].surface
        BY <4>1 DEF Request
      <4>3. Saw(req[q])'
        BY <2>1, <4>2 DEF RequestInv, Saw
      <4>4. Explained(req[q])'
        BY <4>1, Told DEF Explained
      <4> QED
        BY <4>3, <4>4
    <3>2. CASE q \notin InFlight
      BY <2>1, <3>2 DEF RequestInv, Saw, Explained, InFlight
    <3> QED
      BY <3>1, <3>2
  <2> QED
    BY <2>2, <2>3 DEF RequestInv
<1>2. CASE PgStops
  <2>1. /\ req' = [r \in Requests |-> IF r \in InFlight /\ req[r].surface = "check"
                                      THEN [req[r] EXCEPT !.noPg = TRUE] ELSE req[r]]
        /\ Reachable' = Reachable
    BY <1>2 DEF PgStops, SawNoPg, client, Reachable
  <2>2. req' \in [Requests -> Request]
    BY <2>1, Told DEF RequestInv
  <2>3. ASSUME NEW q \in Requests PROVE Saw(req[q])' /\ Explained(req[q])'
    <3>1. CASE q \in InFlight /\ req[q].surface = "check"
      <4>1. req'[q] = [req[q] EXCEPT !.noPg = TRUE] /\ req[q] \in Request
        BY <2>1, <3>1 DEF RequestInv
      <4>2. /\ req'[q].noPg /\ req'[q].noRedis = req[q].noRedis
            /\ req'[q].stage = req[q].stage
        BY <4>1 DEF Request
      <4>3. Saw(req[q])'
        BY <2>1, <4>2 DEF RequestInv, Saw
      <4>4. Explained(req[q])'
        BY <4>1, Told DEF Explained
      <4> QED
        BY <4>3, <4>4
    <3>2. CASE q \notin InFlight \/ req[q].surface # "check"
      BY <2>1, <3>2 DEF RequestInv, Saw, Explained, InFlight
    <3> QED
      BY <3>1, <3>2
  <2> QED
    BY <2>2, <2>3 DEF RequestInv
<1>3. CASE Gone
  <2>1. req' = [r \in Requests |-> IF r \in InFlight
                                   THEN [req[r] EXCEPT !.stage = "done", !.outcome = "lost"]
                                   ELSE req[r]]
    BY <1>3 DEF Gone
  <2>2. req' \in [Requests -> Request]
    BY <2>1, Told DEF RequestInv
  <2>3. ASSUME NEW q \in Requests PROVE Saw(req[q])' /\ Explained(req[q])'
    <3>1. CASE q \in InFlight
      <4>1. req'[q] = [req[q] EXCEPT !.stage = "done", !.outcome = "lost"] /\ req[q] \in Request
        BY <2>1, <3>1 DEF RequestInv
      <4>2. req'[q].stage \notin Stages
        BY <4>1 DEF Request, Stages
      <4>3. Explained(req[q])'
        BY <4>1, Told DEF Explained
      <4> QED
        BY <4>2, <4>3 DEF Saw
    <3>2. CASE q \notin InFlight
      BY <2>1, <3>2 DEF RequestInv, Saw, Explained, InFlight
    <3> QED
      BY <3>1, <3>2
  <2> QED
    BY <2>2, <2>3 DEF RequestInv
<1>4. ASSUME req' = req, Reachable => Reachable', pgUp => pgUp',
             pool' = "stale" => pool = "stale"
      PROVE  RequestInv'
  BY <1>4 DEF RequestInv, Saw, Explained
<1>5. CASE RedisReturns \/ LinkClosed \/ Reconnect
  BY <1>4, <1>5 DEF RedisReturns, LinkClosed, Reconnect, Closed, client, servers, pg, Reachable
<1>6. CASE PgReturns \/ PoolError
  BY <1>4, <1>6 DEF PgReturns, PoolError, client, servers, pg, Reachable
<1>7. CASE Boot \/ Shutdown \/ Restart
  BY <1>4, <1>7 DEF Boot, Shutdown, Restart, client, servers, pg, Reachable
<1> QED
  BY <1>1, <1>2, <1>3, <1>5, <1>6, <1>7 DEF Next, Drained, ForcedExit

\* Together: the invariant holds in every reachable state.
LEMMA RequestInvariant == Spec => []RequestInv
<1>1. RequestInv /\ UNCHANGED vars => RequestInv'
  BY DEF vars, servers, client, pg, RequestInv, Saw, Explained, Reachable
<1>2. RequestInv /\ [Next]_vars => RequestInv'
  BY <1>1, ServeStep, EventStep
<1> QED
  BY InitRequests, <1>2, PTL DEF Spec

-----------------------------------------------------------------------------
\* degraded-mode.ts: a failure mode answers only for a server that the request
\* needed and that could not be reached while it was under way.
THEOREM FailureModesAreExplained == Spec => []DegradedExplained
<1>1. RequestInv => DegradedExplained
  BY DEF RequestInv, Explained, DegradedExplained, Degraded
<1> QED
  BY RequestInvariant, <1>1, PTL

\* degraded-mode.ts, script-runner.ts: reservations and checks that state their
\* own limits never end in an error.
THEOREM GuardedRequestsNeverError == Spec => []GuardedNeverErrors
<1>1. RequestInv => GuardedNeverErrors
  BY DEF RequestInv, Explained, GuardedNeverErrors
<1> QED
  BY RequestInvariant, <1>1, PTL

\* script-runner.ts, postgres.service.ts: every error has an outage behind it,
\* one that is under way or what it left: a broken socket or the cleared flag.
THEOREM ErrorsAreExplained == Spec => []ErrorsExplained
<1>1. RequestInv => ErrorsExplained
  BY DEF RequestInv, Explained, ErrorsExplained
<1> QED
  BY RequestInvariant, <1>1, PTL

-----------------------------------------------------------------------------
(* The client and the process *)

\* A connection that is up, or was until just now, has no failed attempt behind
\* it; one that still retries has an attempt left.
ClientInv ==
  /\ link \in {"none", "up", "broken", "lost", "ended"} /\ attempts \in Nat
  /\ link \in {"none", "up", "broken"} => attempts = 0
  /\ link = "lost" => attempts <= MaxRetries
  /\ attempts <= MaxRetries + 1

ProcessInv ==
  /\ phase \in {"booting", "serving", "closing", "exited"}
  /\ redisUp \in BOOLEAN /\ pgUp \in BOOLEAN /\ scripts \in BOOLEAN
  /\ redisConnected \in BOOLEAN /\ pgConnected \in BOOLEAN
  /\ pool \in {"none", "whole", "stale"}

OutageInv == outages \in [redis : 0 .. MaxOutages.redis, pg : 0 .. MaxOutages.pg]

\* A failed attempt is counted, and the last one ends the client.
LEMMA ClosedStep == ClientInv /\ link \in {"broken", "lost"} /\ Closed => ClientInv'
<1> SUFFICES ASSUME ClientInv, link \in {"broken", "lost"}, Closed PROVE ClientInv'
  OBVIOUS
<1>1. attempts' = attempts + 1 /\ link' = IF attempts + 1 > MaxRetries THEN "ended" ELSE "lost"
  BY DEF Closed, NextLink
<1>2. attempts \in Nat /\ attempts <= MaxRetries /\ MaxRetries \in Nat
  BY GatewayAssumption DEF ClientInv
<1> QED
  BY <1>1, <1>2 DEF ClientInv

LEMMA ClientStep == ClientInv /\ [Next]_vars => ClientInv'
<1> SUFFICES ASSUME ClientInv, [Next]_vars PROVE ClientInv'
  OBVIOUS
<1>1. ASSUME UNCHANGED client PROVE ClientInv'
  BY <1>1 DEF client, ClientInv
<1>2. ASSUME link' \in {"none", "up"}, attempts' = 0 PROVE ClientInv'
  BY <1>2, GatewayAssumption DEF ClientInv
<1>3. CASE Serve
  BY <1>1, <1>3 DEF Serve, Arrive, LookupDone, LookupFail, RunScript, ScriptFail
<1>4. CASE RedisStops
  BY <1>4 DEF RedisStops, ClientInv
<1>5. CASE LinkClosed
  BY <1>5, ClosedStep DEF LinkClosed
<1>6. CASE Reconnect
  BY <1>2, <1>6, ClosedStep DEF Reconnect
<1>7. CASE RedisReturns \/ PgStops \/ PgReturns \/ PoolError \/ Shutdown \/ Restart
  BY <1>1, <1>7 DEF RedisReturns, PgStops, PgReturns, PoolError, Shutdown, Restart
<1>8. CASE Boot
  BY <1>1, <1>2, <1>8 DEF Boot
<1>9. CASE Drained \/ ForcedExit
  BY <1>2, <1>9 DEF Drained, ForcedExit, Gone
<1>10. CASE UNCHANGED vars
  BY <1>1, <1>10 DEF vars
<1> QED
  BY <1>3, <1>4, <1>5, <1>6, <1>7, <1>8, <1>9, <1>10 DEF Next

LEMMA ProcessStep == ProcessInv /\ [Next]_vars => ProcessInv'
<1> SUFFICES ASSUME ProcessInv, [Next]_vars PROVE ProcessInv'
  OBVIOUS
<1>1. CASE Serve
  BY <1>1 DEF ProcessInv, servers, client, pg, Serve, Arrive, LookupDone, LookupFail, RunScript, ScriptFail
<1>2. CASE RedisStops \/ RedisReturns \/ PgStops \/ PgReturns \/ PoolError
  BY <1>2 DEF ProcessInv, servers, client, pg, RedisStops, RedisReturns, PgStops, PgReturns, PoolError
<1>3. CASE LinkClosed \/ Reconnect
  BY <1>3 DEF ProcessInv, servers, pg, LinkClosed, Reconnect, Closed, FlagOnConnect
<1>4. CASE Boot \/ Shutdown \/ Restart
  BY <1>4 DEF ProcessInv, servers, client, pg, Boot, Shutdown, Restart
<1>5. CASE Drained \/ ForcedExit
  BY <1>5 DEF ProcessInv, servers, Drained, ForcedExit, Gone
<1>6. CASE UNCHANGED vars
  BY <1>6 DEF ProcessInv, vars, servers, client, pg
<1> QED
  BY <1>1, <1>2, <1>3, <1>4, <1>5, <1>6 DEF Next

LEMMA OutageStep == OutageInv /\ [Next]_vars => OutageInv'
<1> SUFFICES ASSUME OutageInv, [Next]_vars PROVE OutageInv'
  OBVIOUS
<1>1. /\ outages \in [redis : 0 .. MaxOutages.redis, pg : 0 .. MaxOutages.pg]
      /\ MaxOutages.redis \in Nat /\ MaxOutages.pg \in Nat
  BY GatewayAssumption DEF OutageInv
<1>2. CASE RedisStops
  <2>1. outages.redis < MaxOutages.redis /\ outages' = [outages EXCEPT !.redis = @ + 1]
    BY <1>2 DEF RedisStops
  <2>2. outages.redis + 1 \in 0 .. MaxOutages.redis
    BY <1>1, <2>1
  <2> QED
    BY <1>1, <2>1, <2>2 DEF OutageInv
<1>3. CASE PgStops
  <2>1. outages.pg < MaxOutages.pg /\ outages' = [outages EXCEPT !.pg = @ + 1]
    BY <1>3 DEF PgStops
  <2>2. outages.pg + 1 \in 0 .. MaxOutages.pg
    BY <1>1, <2>1
  <2> QED
    BY <1>1, <2>1, <2>2 DEF OutageInv
<1>4. CASE ~RedisStops /\ ~PgStops
  <2>1. outages' = outages
    BY <1>4 DEF Next, vars, servers, Serve, Arrive, LookupDone, LookupFail, RunScript, ScriptFail,
                RedisReturns, LinkClosed, Reconnect, PgReturns, PoolError, Boot, Shutdown,
                Drained, ForcedExit, Gone, Restart
  <2> QED
    BY <2>1 DEF OutageInv
<1> QED
  BY <1>2, <1>3, <1>4

\* redis.service.ts, index.ts: connections, process and requests keep their
\* shape, and a client that still retries has retries left.
THEOREM GatewayTypeCorrect == Spec => []TypeOK
<1>1. Init => ClientInv /\ ProcessInv /\ OutageInv
  <2> SUFFICES ASSUME Init PROVE ClientInv /\ ProcessInv /\ OutageInv
    OBVIOUS
  <2>1. OutageInv
    BY GatewayAssumption DEF Init, OutageInv
  <2>2. ClientInv
    BY GatewayAssumption DEF Init, ClientInv
  <2>3. ProcessInv
    BY DEF Init, ProcessInv
  <2> QED
    BY <2>1, <2>2, <2>3
<1>2. RequestInv /\ ClientInv /\ ProcessInv /\ OutageInv => TypeOK
  <2> SUFFICES ASSUME RequestInv, ClientInv, ProcessInv, OutageInv PROVE TypeOK
    OBVIOUS
  <2>1. attempts \in 0 .. MaxRetries + 1
    BY GatewayAssumption DEF ClientInv
  <2>2. \A r \in Requests : req[r] \in Request
    BY DEF RequestInv
  <2>3. \A r \in Requests :
          /\ req[r].surface \in Surfaces \cup {"none"}
          /\ req[r].stage \in Stages \cup {"idle", "done"}
          /\ req[r].outcome \in {"none", "enforced", "fail_open", "fail_closed", "error", "lost"}
    BY <2>2 DEF Request
  <2> QED
    BY <2>1, <2>3 DEF ClientInv, ProcessInv, OutageInv, TypeOK
<1> QED
  BY <1>1, <1>2, RequestInvariant, ClientStep, ProcessStep, OutageStep, PTL DEF Spec
=============================================================================
