---------------------------- MODULE ReserveCall ----------------------------
(***************************************************************************)
(* A reserve call as the gateway makes it: reserve() of                    *)
(* src/llm/admission.service.ts with src/llm/estimator.ts around the       *)
(* admission script that Admission models as one action.                   *)
(*                                                                         *)
(* The statistics are read in a round trip of their own; reservation id    *)
(* and clock reading are taken before the script is sent, and the Redis    *)
(* client sends the script again, with the same arguments, when the        *)
(* connection breaks before its reply.  A script may so run with outdated  *)
(* arguments, several times, or unknown to the client.                     *)
(***************************************************************************)
EXTENDS Admission

CONSTANTS
  Calls,          \* concurrent reserve calls
  Asks,           \* <<promptTokens, maxOutputTokens>> a call may carry
  Modes,          \* policy.reservationMode of the policies replicas may hold
  FactorPercent,  \* policy.reservationSafetyFactor, in hundredths
  MaxBreaks       \* model bound on the connection breaks that cost a reply

ASSUME CallAssumption ==
  Asks \subseteq Nat \X Nat /\ FactorPercent \in Nat /\ MaxBreaks \in Nat

VARIABLES
  calls      \* call -> [phase, ask, n, basis, rid, t, lease, ok] while it runs

VARIABLES    \* history
  used,      \* ids taken by reserve calls
  told,      \* id -> [n, until]: what an admitted caller was told
  asked,     \* id -> [ask, basis] of the call that took it
  longest,   \* the longest output any commit has reported
  twice,     \* tokens taken by a script that ran again while its hold existed
  breaks     \* connection breaks so far

callVars == <<calls, used, told, asked, longest, twice, breaks>>
allVars  == <<vars, callVars>>

-----------------------------------------------------------------------------
(* The estimator *)

\* Faulty variant: the projection is not held below the caller's ceiling.
EstimateUncapped(mode, prompt, max, observed) ==
  IF mode = "worst_case" THEN [n |-> prompt + max, basis |-> "worst_case"]
  ELSE IF observed = 0 THEN [n |-> prompt + max, basis |-> "cold_start"]
  ELSE [n |-> prompt + Larger(CeilDiv(observed * FactorPercent, 100), 1), basis |-> "observed"]

\* estimateReservation.
Estimate(mode, prompt, max, observed) ==
  IF mode = "worst_case" THEN [n |-> prompt + max, basis |-> "worst_case"]
  ELSE IF observed = 0 THEN [n |-> prompt + max, basis |-> "cold_start"]
  ELSE [n     |-> prompt + Smaller(max, Larger(CeilDiv(observed * FactorPercent, 100), 1)),
        basis |-> "observed"]

-----------------------------------------------------------------------------
(* The call *)

InPhase(c, phase) == c \in DOMAIN calls /\ calls[c].phase = phase

\* Redis evaluates the HGET of observedOutputTokens.
Begin(c) ==
  /\ c \notin DOMAIN calls
  /\ \E ask \in Asks, mode \in Modes, lease \in LeaseLengths :
       LET e == Estimate(mode, ask[1], ask[2], stats.out)
       IN  calls' = With(calls, c, [phase |-> "estimated", ask |-> ask, n |-> e.n,
                                    basis |-> e.basis, rid |-> 0, t |-> 0,
                                    lease |-> lease, ok |-> FALSE])
  /\ UNCHANGED <<vars, used, told, asked, longest, twice, breaks>>

\* randomUUID(), Date.now(); the script is on its way.
Send(c) ==
  /\ InPhase(c, "estimated")
  /\ \E r \in Rids \ used :
       /\ calls' = [calls EXCEPT ![c].phase = "sent", ![c].rid = r, ![c].t = now]
       /\ used' = used \cup {r}
       /\ asked' = With(asked, r, [ask |-> calls[c].ask, basis |-> calls[c].basis])
  /\ UNCHANGED <<vars, told, longest, twice, breaks>>

\* Redis runs the script, for the first time or again.  (`admits' counts
\* runs.)
Execute(c) ==
  LET k == calls[c]
  IN  /\ InPhase(c, "sent")
      /\ k.t \in Readings
      /\ \E E \in ReclaimSets(k.t), slo \in Slos :
           \/ /\ Admit(k.rid, k.t, k.n, slo, k.lease, E)
              /\ twice' = twice + (IF k.rid \in DOMAIN res \ E THEN k.n ELSE 0)
              /\ calls' = [calls EXCEPT ![c].phase = "done", ![c].ok = TRUE]
           \/ /\ Shed(k.t, k.n, slo, k.lease, E)
              /\ twice' = twice
              /\ calls' = [calls EXCEPT ![c].phase = "done", ![c].ok = FALSE]
      /\ UNCHANGED <<used, told, asked, longest, breaks>>

\* Faulty variant: the caller is told the lease runs from now.
LeaseFromNow(k) == now + k.lease

\* leaseExpiresAt.
LeaseUntil(k) == k.t + k.lease

\* The reply arrives; an admitted caller learns its id.
Answer(c) ==
  /\ InPhase(c, "done")
  /\ told' = IF calls[c].ok
             THEN With(told, calls[c].rid, [n |-> calls[c].n, until |-> LeaseUntil(calls[c])])
             ELSE told
  /\ calls' = Without(calls, {c})
  /\ UNCHANGED <<vars, used, asked, longest, twice, breaks>>

\* The connection breaks with replies on their way: their scripts are sent
\* again once it is back.
Break ==
  LET lost == {c \in DOMAIN calls : calls[c].phase = "done"}
  IN  /\ breaks < MaxBreaks /\ lost # {}
      /\ breaks' = breaks + 1
      /\ calls' = [c \in DOMAIN calls |->
                     IF c \in lost THEN [calls[c] EXCEPT !.phase = "sent"] ELSE calls[c]]
      /\ UNCHANGED <<vars, used, told, asked, longest, twice>>

\* maxRetriesPerRequest, the client ended, or the process dies: the call fails,
\* and its caller never learns the id, whatever the script did.
Abandon(c) ==
  /\ c \in DOMAIN calls
  /\ calls' = Without(calls, {c})
  /\ UNCHANGED <<vars, used, told, asked, longest, twice, breaks>>

Call(c) == Begin(c) \/ Send(c) \/ Execute(c) \/ Answer(c) \/ Abandon(c)

-----------------------------------------------------------------------------
\* Commits and releases name an id their caller was told.
Settlement ==
  \E r \in DOMAIN told :
    /\ MayCall(r)
    /\ \/ Replay(r) /\ UNCHANGED longest
       \/ \E t \in Readings, a \in Actuals, service \in Services, lease \in LeaseLengths :
            /\ Settle(r, t, a[1], a[2], service, lease)
            /\ longest' = Larger(longest, a[2])
       \/ \E t \in Readings, lease \in LeaseLengths :
            Settle(r, t, 0, 0, 0, lease) /\ UNCHANGED longest
    /\ UNCHANGED <<calls, used, told, asked, twice, breaks>>

TimePasses == Tick /\ UNCHANGED callVars

CallInit ==
  /\ Init
  /\ calls = Nothing /\ used = {} /\ told = Nothing /\ asked = Nothing
  /\ longest = 0 /\ twice = 0 /\ breaks = 0

CallNext == (\E c \in Calls : Call(c)) \/ Break \/ Settlement \/ TimePasses

CallSpec == CallInit /\ [][CallNext]_allVars

-----------------------------------------------------------------------------
(* Properties *)

\* A caller told that it is admitted keeps exactly the hold it was told of
\* until the lease it was told of ends or it settles, whatever is swept,
\* resent or abandoned meanwhile.
LeaseHonoured ==
  \A r \in DOMAIN told :
    charges[r] = 0 /\ now < told[r].until =>
      r \in DOMAIN leases /\ res[r] = told[r].n /\ leases[r] = told[r].until

\* The tenant loses no tokens: what it has, holds and was charged for is a full
\* budget at least.  Only a script that ran again takes its tokens twice and
\* holds them once.
NothingLost ==
  Refill(tpm, TpmLimit, TpmRate, now) + Held + charged + twice >= TpmLimit

\* "Never above the caller's declared ceiling ... and never below it when the
\* ceiling is already small": a hold covers the prompt and at least a token of
\* output; however old the average it was computed from, an adaptive hold
\* exceeds neither the ceiling nor what the longest output ever reported
\* projects to.
HoldsCalibrated ==
  \A r \in DOMAIN res :
    LET prompt == asked[r].ask[1]
        max    == asked[r].ask[2]
    IN  /\ res[r] \in prompt + Smaller(max, 1) .. prompt + max
        /\ asked[r].basis # "observed" => res[r] = prompt + max
        /\ asked[r].basis = "observed" =>
             res[r] <= prompt + Larger(CeilDiv(longest * FactorPercent, 100), 1)
=============================================================================
