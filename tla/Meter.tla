------------------------------- MODULE Meter -------------------------------
(***************************************************************************)
(* A token bucket as it is explained: a level that rises with every tick,  *)
(* up to Capacity, falls by Cost with every request that passes, and never *)
(* lets one pass that it cannot pay for.                                   *)
(***************************************************************************)
EXTENDS Integers

CONSTANTS
  Capacity,
  Rate,
  Cost,
  Slack      \* what a caller whose clock lags may add to the level with a call

VARIABLES now, level

Init == now = 0 /\ level = Capacity

\* The level a call leaves behind, v but for the slack.
After(v) == {x \in v .. v + Slack : x <= Capacity}

Pass == level >= Cost /\ level' \in After(level - Cost) /\ now' = now

\* A request is turned away.
Turn == level < Cost + Slack /\ level' \in After(level) /\ now' = now

Reset == level' = Capacity /\ now' = now

Tick ==
  /\ now' = now + 1
  /\ level' = IF level + Rate <= Capacity THEN level + Rate ELSE Capacity

Next == Pass \/ Turn \/ Reset \/ Tick

Spec == Init /\ [][Next]_<<now, level>>
=============================================================================
