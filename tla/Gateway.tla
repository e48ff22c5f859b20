------------------------------ MODULE Gateway ------------------------------
(***************************************************************************)
(* One replica, its connections to Redis (src/services/redis.service.ts)   *)
(* and Postgres (src/services/postgres.service.ts), and how a request ends *)
(* when one of them goes away while it is under way: the script runner     *)
(* (src/algorithms/script-runner.ts), the failure modes (src/middleware/   *)
(* degraded-mode.ts), boot and shutdown (src/index.ts).                    *)
(*                                                                         *)
(* What a lookup or a script decides is the other modules' subject; here a *)
(* request is enforced, answered by a failure mode, an error, or lost with *)
(* the process.  An action is the code between two awaits, or an event of  *)
(* the client libraries.                                                   *)
(***************************************************************************)
EXTENDS Integers

CONSTANTS
  Requests,     \* requests that may be under way at a time
  Surfaces,     \* which of "check", "own", "reserve", "commit" are called
  FailureMode,  \* config.failure: [rateLimit, admission]
  MaxRetries,   \* config.redis.maxRetries
  MaxOutages    \* model bound on the outages of each server [redis, pg]

ASSUME GatewayAssumption ==
  /\ Surfaces \subseteq {"check", "own", "reserve", "commit"}
  /\ FailureMode \in [{"rateLimit", "admission"} -> {"fail_open", "fail_closed"}]
  /\ MaxRetries \in Nat /\ MaxOutages \in [redis : Nat, pg : Nat]

VARIABLES
  phase,           \* "booting", "serving", "closing" or "exited"
  redisUp, pgUp,   \* can the replica reach the servers
  outages,         \* how often each went away
  scripts,         \* does Redis have the scripts cached
  link,            \* the client's socket: "none", "up", "broken", "lost" or "ended"
  attempts,        \* reconnection attempts since it was last up
  redisConnected,  \* redisService.isConnected
  pgConnected,     \* postgresService.isConnected
  pool,            \* its pool: "none", "whole", or "stale", with a broken socket in it
  req              \* request -> [surface, stage, outcome, noRedis, noPg, noPool]

servers == <<redisUp, pgUp, outages, scripts>>
client  == <<link, attempts, redisConnected>>
pg      == <<pgConnected, pool>>
vars    == <<phase, servers, client, pg, req>>

-----------------------------------------------------------------------------
(* Requests *)

\* History: a request remembers whether Redis could not be reached at some time
\* while it was under way; a check that may look up its limit, whether Postgres was
\* away or had left a broken socket in the pool, and whether it found the Postgres
\* flag cleared on arrival.
Idle == [surface |-> "none", stage |-> "idle", outcome |-> "none",
         noRedis |-> FALSE, noPg |-> FALSE, noPool |-> FALSE]

Stages == {"lookup", "script", "reload"}
InFlight == {r \in Requests : req[r].stage \in Stages}

Reachable == redisUp /\ redisConnected /\ link = "up"

\* What an outage does to the requests under way.
SawNoRedis == [r \in Requests |-> IF r \in InFlight THEN [req[r] EXCEPT !.noRedis = TRUE] ELSE req[r]]
SawNoPg    == [r \in Requests |-> IF r \in InFlight /\ req[r].surface = "check"
                                 THEN [req[r] EXCEPT !.noPg = TRUE] ELSE req[r]]

Ends(r, outcome) == req' = [req EXCEPT ![r].stage = "done", ![r].outcome = outcome]
Goes(r, stage)   == req' = [req EXCEPT ![r].stage = stage]

\* guardState wraps the check and /reserve, not /commit and /release.
Guarded(surface) == surface # "commit"

Mode(surface) == IF surface = "reserve" THEN FailureMode["admission"] ELSE FailureMode["rateLimit"]

\* Faulty variants: only the typed error is recognised; any error is.
TypedOnly(error) == error = "RedisConnectionError"
AnyError(error)  == TRUE

\* isStateUnavailable: the typed error, and any message with ECONNREFUSED,
\* ETIMEDOUT, "Connection is closed" and the like.
IsStateUnavailable(error) == error \in {"RedisConnectionError", "unreachable"}

\* A handler rejects with an error: the failure mode answers, or next(error).
Reply(surface, error) ==
  IF Guarded(surface) /\ IsStateUnavailable(error) THEN Mode(surface) ELSE "error"

Rejects(r, error) == Ends(r, Reply(req[r].surface, error))

Arrived(s, stage, outcome) ==
  [surface |-> s, stage |-> stage, outcome |-> outcome, noRedis |-> ~Reachable,
   noPg |-> s = "check" /\ (~pgUp \/ pool = "stale"), noPool |-> s = "check" /\ ~pgConnected]

\* A request comes as far as its first await.  With a limit of its own or a
\* cached one it is on to its script; otherwise it queries Postgres, unless
\* getPool() throws: policies then are the last known ones, a check fails.
Arrive(r) ==
  /\ phase = "serving" /\ r \notin InFlight
  /\ \E s \in Surfaces :
       \/ req' = [req EXCEPT ![r] = Arrived(s, "script", "none")]
       \/ /\ s # "own" /\ pgConnected
          /\ req' = [req EXCEPT ![r] = Arrived(s, "lookup", "none")]
       \/ /\ s = "check" /\ ~pgConnected
          /\ req' = [req EXCEPT ![r] = Arrived(s, "done", Reply(s, "not initialized"))]
  /\ UNCHANGED <<phase, servers, client, pg>>

\* Postgres answers.
LookupDone(r) ==
  /\ req[r].stage = "lookup" /\ pgUp
  /\ Goes(r, "script")
  /\ UNCHANGED <<phase, servers, client, pg>>

\* What a query that was sent may reject with: without a server a new connection
\* is refused; one broken by an outage terminates, also when a query is the first
\* to notice, after the server is back.
QueryErrors == IF ~pgUp \/ pool = "stale" THEN {"unreachable", "terminated"} ELSE {}

\* The rule engine passes a failed query on, the policy resolver serves the last
\* known set.  The pool drops a client that failed.
LookupFail(r) ==
  /\ req[r].stage = "lookup"
  /\ \E error \in QueryErrors :
       IF req[r].surface = "check" THEN Rejects(r, error) ELSE Goes(r, "script")
  /\ pool' \in {pool, "whole"}
  /\ UNCHANGED <<phase, servers, client, pgConnected>>

\* Faulty variant: a NOSCRIPT reply is passed on like any other error.
Propagates(r) == Rejects(r, "NOSCRIPT")

OnNoScript(r) == Goes(r, "reload")

\* EVALSHA, and EVAL with the body when Redis answers NOSCRIPT.
RunScript(r) ==
  /\ Reachable
  /\ \/ req[r].stage = "script" /\ scripts  /\ Ends(r, "enforced") /\ UNCHANGED scripts
     \/ req[r].stage = "script" /\ ~scripts /\ OnNoScript(r) /\ UNCHANGED scripts
     \/ req[r].stage = "reload" /\ Ends(r, "enforced") /\ scripts' = TRUE
  /\ UNCHANGED <<phase, redisUp, pgUp, outages, client, pg>>

\* Faulty variant: a rejected EVAL, after a NOSCRIPT, is never noticed.
FirstCallErrors(r) ==
  IF req[r].stage = "reload" THEN {}
  ELSE (IF ~redisConnected THEN {"RedisConnectionError"} ELSE {})
       \cup (IF link # "up" \/ ~redisUp THEN {"unreachable"} ELSE {})

\* getClient() throws while the flag is down; a command sent on a dead socket
\* is rejected by the client.  That CONNECTION_FAILURE knows each message the
\* client library has for this is assumed.
ScriptErrors(r) ==
  (IF ~redisConnected /\ req[r].stage = "script" THEN {"RedisConnectionError"} ELSE {})
  \cup (IF link # "up" \/ ~redisUp THEN {"unreachable"} ELSE {})

ScriptFail(r) ==
  /\ req[r].stage \in {"script", "reload"}
  /\ \E error \in ScriptErrors(r) : Rejects(r, error)
  /\ UNCHANGED <<phase, servers, client, pg>>

-----------------------------------------------------------------------------
(* Connections *)

RedisStops ==
  /\ redisUp /\ outages.redis < MaxOutages.redis
  /\ redisUp' = FALSE
  /\ outages' = [outages EXCEPT !.redis = @ + 1]
  /\ scripts' \in {scripts, FALSE}
  /\ link' = IF link = "up" THEN "broken" ELSE link
  /\ req' = SawNoRedis
  /\ UNCHANGED <<phase, pgUp, attempts, redisConnected, pg>>

RedisReturns ==
  /\ ~redisUp /\ redisUp' = TRUE
  /\ UNCHANGED <<phase, pgUp, outages, scripts, client, pg, req>>

\* Faulty variant: the client never gives up.
RetryForever(n) == "lost"

\* retryStrategy: null, the end, once maxRetries attempts have failed.
NextLink(n) == IF n > MaxRetries THEN "ended" ELSE "lost"

\* The events `error' and `close'.
Closed ==
  /\ attempts' = attempts + 1
  /\ link' = NextLink(attempts + 1)
  /\ redisConnected' = FALSE

LinkClosed ==
  /\ link = "broken" /\ Closed
  /\ UNCHANGED <<phase, servers, pg, req>>

\* Faulty variant: the event `connect' leaves the flag alone.
FlagKept == redisConnected

FlagOnConnect == TRUE

\* The retry timer fires.
Reconnect ==
  /\ link = "lost"
  /\ \/ /\ redisUp
        /\ link' = "up" /\ attempts' = 0 /\ redisConnected' = FlagOnConnect
     \/ ~redisUp /\ Closed
  /\ UNCHANGED <<phase, servers, pg, req>>

\* The pool's open sockets break.
PgStops ==
  /\ pgUp /\ outages.pg < MaxOutages.pg
  /\ pgUp' = FALSE
  /\ outages' = [outages EXCEPT !.pg = @ + 1]
  /\ pool' = IF pool = "none" THEN "none" ELSE "stale"
  /\ req' = SawNoPg
  /\ UNCHANGED <<phase, redisUp, scripts, client, pgConnected>>

PgReturns ==
  /\ ~pgUp /\ pgUp' = TRUE
  /\ UNCHANGED <<phase, redisUp, outages, scripts, client, pg, req>>

\* The pool's `error' event: an idle client notices that its socket is broken,
\* perhaps after Postgres is back, and is dropped.  Nothing sets the flag again.
PoolError ==
  /\ pool = "stale"
  /\ pool' \in {"stale", "whole"}
  /\ pgConnected' = FALSE
  /\ UNCHANGED <<phase, servers, client, req>>

-----------------------------------------------------------------------------
(* The process *)

\* bootstrap: connect to both, load the scripts, listen; or exit(1).
Boot ==
  /\ phase = "booting"
  /\ IF redisUp /\ pgUp
     THEN /\ phase' = "serving" /\ scripts' = TRUE
          /\ link' = "up" /\ attempts' = 0 /\ redisConnected' = TRUE
          /\ pool' = "whole" /\ pgConnected' = TRUE
     ELSE phase' = "exited" /\ UNCHANGED <<scripts, client, pg>>
  /\ UNCHANGED <<redisUp, pgUp, outages, req>>

\* SIGTERM or SIGINT: server.close() stops accepting.
Shutdown ==
  /\ phase = "serving" /\ phase' = "closing"
  /\ UNCHANGED <<servers, client, pg, req>>

\* The process is gone, with whatever was under way.
Gone ==
  /\ phase' = "exited"
  /\ link' = "none" /\ attempts' = 0 /\ redisConnected' = FALSE
  /\ pool' = "none" /\ pgConnected' = FALSE
  /\ req' = [r \in Requests |-> IF r \in InFlight
                                THEN [req[r] EXCEPT !.stage = "done", !.outcome = "lost"]
                                ELSE req[r]]
  /\ UNCHANGED servers

\* Nothing is under way: the close callback disconnects both clients and exits.
Drained == phase = "closing" /\ InFlight = {} /\ Gone

\* The 30 s backstop.
ForcedExit == phase = "closing" /\ Gone

\* The orchestrator starts the container again.
Restart ==
  /\ phase = "exited" /\ phase' = "booting"
  /\ UNCHANGED <<servers, client, pg, req>>

-----------------------------------------------------------------------------
Init ==
  /\ phase = "booting" /\ redisUp = TRUE /\ pgUp = TRUE
  /\ outages = [redis |-> 0, pg |-> 0] /\ scripts = FALSE
  /\ link = "none" /\ attempts = 0 /\ redisConnected = FALSE
  /\ pool = "none" /\ pgConnected = FALSE
  /\ req = [r \in Requests |-> Idle]

Serve == \E r \in Requests :
  Arrive(r) \/ LookupDone(r) \/ LookupFail(r) \/ RunScript(r) \/ ScriptFail(r)

Next ==
  \/ Serve
  \/ RedisStops \/ RedisReturns \/ LinkClosed \/ Reconnect
  \/ PgStops \/ PgReturns \/ PoolError
  \/ Boot \/ Shutdown \/ Drained \/ ForcedExit \/ Restart

Spec == Init /\ [][Next]_vars

-----------------------------------------------------------------------------
(* Properties *)

\* Every variable keeps its shape, and a client that still retries has retries
\* left.
TypeOK ==
  /\ phase \in {"booting", "serving", "closing", "exited"}
  /\ redisUp \in BOOLEAN /\ pgUp \in BOOLEAN /\ scripts \in BOOLEAN
  /\ outages \in [redis : 0 .. MaxOutages.redis, pg : 0 .. MaxOutages.pg]
  /\ link \in {"none", "up", "broken", "lost", "ended"}
  /\ attempts \in 0 .. MaxRetries + 1 /\ (link = "lost" => attempts <= MaxRetries)
  /\ redisConnected \in BOOLEAN /\ pgConnected \in BOOLEAN
  /\ pool \in {"none", "whole", "stale"}
  /\ \A r \in Requests :
       /\ req[r].surface \in Surfaces \cup {"none"}
       /\ req[r].stage \in Stages \cup {"idle", "done"}
       /\ req[r].outcome \in {"none", "enforced", "fail_open", "fail_closed", "error", "lost"}

Degraded(r) == req[r].outcome \in {"fail_open", "fail_closed"}

\* A request is answered by a failure mode only if, while it was under way, a
\* server it needed could not be reached, and never for another error.  A Redis
\* that is up behind a link that is still lost, or has ended, is one that cannot
\* be reached.
DegradedExplained ==
  \A r \in Requests : Degraded(r) =>
    req[r].noRedis \/ (req[r].surface = "check" /\ req[r].noPg)

\* A reservation, or a check that states its own limits, always ends with a
\* verdict or the configured failure mode, at whatever point of the connection's
\* life it is caught: "both shapes have to be recognised".
GuardedNeverErrors ==
  \A r \in Requests : req[r].surface \in {"own", "reserve"} => req[r].outcome # "error"

\* A request ends in an error only if a commit lost Redis, or a check that looks
\* up its limit lost Postgres, met what an outage left in the pool, or arrived
\* after the pool's error event, which leaves the flag down for good: a Redis that
\* merely forgot its scripts is never the caller's problem, nor is a Postgres
\* that a request does not need.
ErrorsExplained ==
  \A r \in Requests : req[r].outcome = "error" =>
    \/ req[r].surface = "commit" /\ req[r].noRedis
    \/ req[r].surface = "check" /\ (req[r].noPg \/ req[r].noPool)

-----------------------------------------------------------------------------
\* Promises settle, timers fire, the process boots and a closing one exits.
\* Servers may stay away for ever.
Fairness ==
  /\ \A r \in Requests :
       WF_vars(LookupDone(r) \/ LookupFail(r)) /\ WF_vars(RunScript(r) \/ ScriptFail(r))
  /\ WF_vars(LinkClosed) /\ WF_vars(Reconnect)
  /\ WF_vars(Boot) /\ WF_vars(ForcedExit) /\ WF_vars(Restart)

LiveSpec == Spec /\ Fairness

\* No request hangs, whatever goes away while it is under way.
RequestsAnswered == \A r \in Requests : (r \in InFlight) ~> (r \notin InFlight)

\* Once Redis stays reachable a serving replica is connected for good, unless
\* its client has used up its retries.
ReconnectsOrGaveUp ==
  <>[]redisUp => <>[](phase = "serving" => Reachable \/ link = "ended")
=============================================================================
