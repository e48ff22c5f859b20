--------------------------- MODULE RequestBudget ---------------------------
(***************************************************************************)
(* The request budget of the LLM admission service over time: Admission    *)
(* with the moment of each admission kept as history.                      *)
(***************************************************************************)
EXTENDS Admission

VARIABLE
  admittedAt   \* history: id -> when it was admitted

timedVars == <<vars, admittedAt>>

TimedInit == Init /\ admittedAt = Nothing

\* An id that is new now was admitted now.
TimedNext ==
  /\ Next
  /\ admittedAt' = [r \in issued' |-> IF r \in issued THEN admittedAt[r] ELSE now]

TimedSpec == TimedInit /\ [][TimedNext]_timedVars

\* Clients keep asking: reserve calls with the present time keep arriving.
TimedLiveSpec == TimedSpec /\ WF_vars(Reserve)

-----------------------------------------------------------------------------
AdmittedSince(x) == {r \in issued : admittedAt[r] >= x}

\* From any moment on, the request budget admits no more than a full budget plus
\* the accrual since, whatever is shed, refilled or expires in between: the key
\* TTL never gives a request back, since the budget is full again before its
\* key can expire.  Lagging clocks cost what they lag and what the refill clock
\* is moved back.
RequestRate ==
  \A x \in 0 .. now :
    Cardinality(AdmittedSince(x)) * RpmUnit
      <= RpmLimit + RpmRate * ((now + (MaxLag + rpmRewound)) - x)
=============================================================================
