---------------------------- MODULE FixedWindow ----------------------------
(***************************************************************************)
(* The fixed window counter of the HTTP rate limiter for one key:          *)
(* FIXED_WINDOW_SCRIPT of src/scripts/lua-scripts.ts, called by            *)
(* src/algorithms/fixed-window.ts.  What a check, a reset and the passing  *)
(* of time do to the counters; Limiter makes them steps of a system.       *)
(*                                                                         *)
(* A counter is named by the index of the window its caller's clock is in, *)
(* but it expires by Redis's clock, after the rest of the caller's window. *)
(***************************************************************************)
EXTENDS Integers, FiniteSets

CONSTANTS
  Limit,      \* requests per window
  Window      \* ticks in the window

VARIABLES
  now,       \* the present, as Redis's clock tells it
  counters,  \* window index -> [n, exp], the keys that exist
  hits       \* history: <<time, serial>> of the checks that passed lately

Horizon == 2 * Window

WindowIndex(t) == t \div Window

Count(i) == IF i \in DOMAIN counters THEN counters[i].n ELSE 0

\* ttl_ms: the rest of the window t is in.
Ttl(t) == (WindowIndex(t) + 1) * Window - t

\* The counter of t's window is set to n with a fresh lifetime.
Store(t, n) ==
  counters' = [i \in DOMAIN counters \cup {WindowIndex(t)} |->
                 IF i = WindowIndex(t) THEN [n |-> n, exp |-> now + Ttl(t)] ELSE counters[i]]

\* Faulty variant: a counter is ignored at the boundary of its window.
RoomAtBoundary(t) == Count(WindowIndex(t)) < Limit \/ t % Window = 0

Room(t) == Count(WindowIndex(t)) < Limit

\* The two outcomes of the script for a reading t.
Passes(t) == Room(t) /\ Store(t, Count(WindowIndex(t)) + 1)

Turns(t) ==
  /\ ~Room(t)
  /\ counters' = [i \in DOMAIN counters |->
                    IF i = WindowIndex(t) THEN [counters[i] EXCEPT !.exp = now + Ttl(t)]
                                          ELSE counters[i]]

Without(gone) == counters' = [i \in DOMAIN counters \ gone |-> counters[i]]

\* reset(): DEL of the counters of the current and the previous window.
Delete(t) == Without({WindowIndex(t), WindowIndex(t) - 1})

\* Redis drops keys past their deadline.
Expire == Without({i \in DOMAIN counters : counters[i].exp < now'})

\* "Permits up to 2x the limit across a window boundary": d consecutive ticks
\* that touch k windows see at most k times Limit requests pass.
Contract == INSTANCE ArrivalCurve WITH
              Quota <- [d \in 1 .. Horizon |-> Limit * ((d - 2 + Window) \div Window + 1)]
=============================================================================
