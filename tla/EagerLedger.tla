---------------------------- MODULE EagerLedger ----------------------------
(***************************************************************************)
(* The token budget of the LLM admission service as its comments explain   *)
(* it: a level that rises with every tick, and holds with a deadline.  An  *)
(* admission moves tokens from the level into a hold, a settlement returns *)
(* what the hold did not need, an expired hold is returned by whoever is   *)
(* admitted or turned away next.                                           *)
(*                                                                         *)
(* What is kept under keys with a lifetime is forgotten in two cases only: *)
(* a level nobody touched for Life ticks, and holds that have all expired. *)
(***************************************************************************)
EXTENDS Integers, FiniteSets

CONSTANTS
  Capacity,
  Rate,
  Rids,      \* ids of holds
  Amounts,   \* what a hold may take or a completion may cost
  Lives,     \* how long a hold may last
  Life       \* how long an untouched level is remembered

VARIABLES
  now,
  level,     \* below zero after an overrun
  touched,   \* when the level was last written, -1 if it is full and forgotten
  holds,     \* id -> [n, until]
  charged    \* tokens charged so far

Capped(x) == IF x <= Capacity THEN x ELSE Capacity

Sum(S) == Cardinality({p \in S \X (1 .. Capacity) : p[2] <= holds[p[1]].n})

Expired == {r \in DOMAIN holds : holds[r].until <= now}

Init == now = 0 /\ level = Capacity /\ touched = -1 /\ holds = [r \in {} |-> 0] /\ charged = 0

Without(S) == [r \in DOMAIN holds \ S |-> holds[r]]

\* The expired holds S are returned, and n tokens go into a hold of r.
Admit(r, n, until, S) ==
  /\ until > now /\ n <= Capped(level + Sum(S))
  /\ holds' = [q \in (DOMAIN holds \ S) \cup {r} |->
                 IF q = r THEN [n |-> n, until |-> until] ELSE holds[q]]
  /\ level' = Capped(level + Sum(S)) - n
  /\ touched' = now
  /\ UNCHANGED <<now, charged>>

\* A request is turned away.
Turn(S) ==
  /\ holds' = Without(S)
  /\ level' = Capped(level + Sum(S))
  /\ touched' = now
  /\ UNCHANGED <<now, charged>>

\* A completion, or nothing, is charged against r's hold: what it did not need
\* is returned, what it overran is owed.  A hold returned before is not there.
Settle(r, actual) ==
  /\ holds' = Without({r})
  /\ level' = Capped(level + (IF r \in DOMAIN holds THEN holds[r].n ELSE 0) - actual)
  /\ charged' = charged + actual
  /\ touched' = now /\ now' = now

HoldsPass == holds' = holds \/ (DOMAIN holds = Expired /\ holds' = Without(Expired))

Tick ==
  /\ now' = now + 1 /\ HoldsPass
  /\ level' = Capped(level + Rate)
  /\ UNCHANGED <<touched, charged>>

Forget ==
  /\ now' = now + 1 /\ HoldsPass
  /\ now' > touched + Life
  /\ level' = Capacity /\ touched' = -1
  /\ UNCHANGED charged

Next ==
  \/ \E S \in SUBSET Expired :
       \/ Turn(S)
       \/ \E r \in Rids \ DOMAIN holds, n \in Amounts, life \in Lives : Admit(r, n, now + life, S)
  \/ \E r \in Rids, n \in Amounts : Settle(r, n)
  \/ Tick \/ Forget

Spec == Init /\ [][Next]_<<now, level, touched, holds, charged>>
=============================================================================
