---------------------------- MODULE ArrivalCurve ----------------------------
(***************************************************************************)
(* What a rate limiter promises for one key: in any d consecutive ticks it *)
(* lets at most Quota[d] requests pass.  How it decides, and which requests*)
(* it turns away, is left open.                                            *)
(*                                                                         *)
(* `hits' holds one <<time, serial>> per request that passed in the last   *)
(* Horizon ticks.                                                          *)
(***************************************************************************)
EXTENDS Integers, FiniteSets

CONSTANTS
  Horizon,   \* the longest interval the promise is about
  Quota      \* Quota[d]: how many may pass in d consecutive ticks

VARIABLES now, hits

Since(H, t) == {h \in H : h[1] > t}

WithinQuota(H) == \A d \in DOMAIN Quota : Cardinality(Since(H, now - d)) <= Quota[d]

Init == now = 0 /\ hits = {}

\* One request passes, now.
Pass ==
  /\ \E h \in hits' \ hits : h[1] = now /\ hits' = hits \cup {h}
  /\ WithinQuota(hits')
  /\ now' = now

\* The limiter is reset: the promise starts over.
Reset == hits' = {} /\ now' = now

Tick == now' = now + 1 /\ hits' = Since(hits, now' - Horizon)

Next == Pass \/ Reset \/ Tick

Spec == Init /\ [][Next]_<<now, hits>>
=============================================================================
