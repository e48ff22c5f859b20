--------------------------- MODULE SlidingWindow ---------------------------
(***************************************************************************)
(* The sliding window log of the HTTP rate limiter for one key:            *)
(* SLIDING_WINDOW_SCRIPT of src/scripts/lua-scripts.ts, called by          *)
(* src/algorithms/sliding-window.ts.                                       *)
(*                                                                         *)
(* The sorted set holds one member per admitted request.  Its score is the *)
(* caller's Date.now(), which is also the first part of the member, so the *)
(* set of members <<time, pid, sequence>> is the whole state of the key.   *)
(***************************************************************************)
EXTENDS Integers, FiniteSets

CONSTANTS
  Replicas,   \* gateway processes
  Pid,        \* process.pid of each
  Limit,      \* requests per window
  Window,     \* ticks in the window
  MaxLag,     \* bound on how far a caller's clock reading lags
  MaxCalls,   \* model bound on the checks of a replica
  MaxClock    \* model bound on the clock

ASSUME WindowAssumption ==
  /\ IsFiniteSet(Replicas)
  /\ DOMAIN Pid = Replicas
  /\ Limit \in Nat \ {0}
  /\ MaxLag \in Nat /\ MaxCalls \in Nat /\ MaxClock \in Nat
  /\ Window \in Nat /\ Window > MaxLag

VARIABLES
  now,       \* the present, as Redis's clock tells it
  log,       \* members of the sorted set
  logExp,    \* deadline of the key, -1 when it does not exist
  sequence,  \* the process-local counter of each replica
  hits       \* history: <<time, serial>> of the checks that passed lately

vars == <<now, log, logExp, sequence, hits>>

Larger(a, b) == IF a >= b THEN a ELSE b

\* Clock readings a check that reaches Redis now may carry.
Readings == Larger(0, now - MaxLag) .. now

\* Faulty variant: the member carries the clock and the process only.
MemberUnnumbered(r, t) == <<t, Pid[r], 0>>

Member(r, t) == <<t, Pid[r], sequence[r]>>

\* What ZREMRANGEBYSCORE 0 (t - window) leaves.
Kept(t) == {m \in log : m[1] > t - Window}

Oldest(L) == CHOOSE s \in {m[1] : m \in L} : \A m \in L : s <= m[1]

\* Faulty variant: a full window, whatever the log says.
RetryAfterWindow(t) == Window

\* retry_after_ms: until the oldest request in the window ages out.
RetryAfter(t) == IF Kept(t) = {} THEN Window ELSE Larger(0, Oldest(Kept(t)) + Window - t)

Room(t) == Cardinality(Kept(t)) < Limit

\* Either outcome renews the key's lifetime.
Renew == logExp' = now + Window

\* The two outcomes of the script for a check of replica r with the reading t.
Passes(r, t) == Room(t) /\ log' = Kept(t) \cup {Member(r, t)} /\ Renew
Turns(t)     == ~Room(t) /\ log' = Kept(t) /\ Renew

Allow(r, t) ==
  /\ Passes(r, t)
  /\ hits' = hits \cup {<<now, Cardinality({h \in hits : h[1] = now})>>}

Reject(t) == Turns(t) /\ UNCHANGED hits

Check(r) ==
  /\ sequence[r] < MaxCalls
  /\ \E t \in Readings : Allow(r, t) \/ Reject(t)
  /\ sequence' = [sequence EXCEPT ![r] = @ + 1]
  /\ UNCHANGED now

\* DEL of the key.
Delete == log' = {} /\ logExp' = -1

\* reset().
Reset == Delete /\ hits' = {} /\ UNCHANGED <<now, sequence>>

\* Redis drops the key past its deadline.
Expire == IF logExp < now' THEN Delete ELSE UNCHANGED <<log, logExp>>

Tick ==
  /\ now < MaxClock
  /\ now' = now + 1
  /\ Expire
  /\ hits' = {h \in hits : h[1] > now' - Window}
  /\ UNCHANGED sequence

Init ==
  /\ now = 0
  /\ log = {} /\ logExp = -1
  /\ sequence = [r \in Replicas |-> 0]
  /\ hits = {}

Next == (\E r \in Replicas : Check(r)) \/ Reset \/ Tick

Spec == Init /\ [][Next]_vars

-----------------------------------------------------------------------------
(* Properties *)

\* The log never holds more than Limit members, all from the past, and lives
\* no longer than a window.
TypeOK ==
  /\ now \in 0 .. MaxClock
  /\ log \subseteq (0 .. now) \X {Pid[r] : r \in Replicas} \X (0 .. MaxCalls)
  /\ Cardinality(log) <= Limit
  /\ logExp \in -1 .. now + Window
  /\ sequence \in [Replicas -> 0 .. MaxCalls]
  /\ hits \subseteq (0 .. now) \X Nat

\* "Exact ... no boundary burst": no interval of a window's length, less the
\* lag of the callers' clocks, sees more than Limit requests pass, whichever
\* replicas they pass through and whatever is rejected in between.
Contract == INSTANCE ArrivalCurve WITH
              Horizon <- Window,
              Quota   <- [d \in 1 .. Window - MaxLag |-> Limit]

ExactWindow == Contract!Spec

\* Members "unique across replicas" keep that promise; as a state predicate.
WithinLimit == Contract!WithinQuota(hits)

\* A rejected caller that waits exactly the advertised retry-after, with no
\* competing check, passes; one tick earlier it would not.
RetryAfterExact ==
  ~Room(now) => Room(now + RetryAfter(now)) /\ ~Room(now + RetryAfter(now) - 1)
=============================================================================
