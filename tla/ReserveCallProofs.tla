-------------------------- MODULE ReserveCallProofs --------------------------
(***************************************************************************)
(* Theorems about ReserveCall that hold for every value of its constants:  *)
(* what a caller was told stays true, no tokens are lost to resent scripts *)
(* and every hold is calibrated, whatever is interleaved, resent or given  *)
(* up.                                                                     *)
(***************************************************************************)
EXTENDS ReserveCall, AdmissionProofs

-----------------------------------------------------------------------------
(* Shapes *)

Bases == {"worst_case", "cold_start", "observed"}

CallRecord ==
  [phase : {"estimated", "sent", "done"}, ask : Asks, n : Nat, basis : Bases,
   rid : Rids \cup {0}, t : Nat, lease : LeaseLengths, ok : BOOLEAN]

CallsTyped ==
  /\ calls \in [DOMAIN calls -> CallRecord]
  /\ used \in SUBSET Rids
  /\ DOMAIN told \subseteq used
  /\ told \in [DOMAIN told -> [n : Nat, until : Nat]]
  /\ asked \in [used -> [ask : Asks, basis : Bases]]
  /\ longest \in Nat /\ twice \in Nat

\* A call whose script may still run, or has run and not been answered.
InFlight(c) == c \in DOMAIN calls /\ calls[c].phase \in {"sent", "done"}

\* Its id is known to no client, and stands for what the call asked for.
Own(c) ==
  /\ calls[c].rid \in used \ DOMAIN told
  /\ calls[c].t <= now
  /\ asked[calls[c].rid] = [ask |-> calls[c].ask, basis |-> calls[c].basis]
  /\ calls[c].rid \in DOMAIN res => res[calls[c].rid] = calls[c].n

\* No two calls share an id; every lease and every hold belongs to an id that
\* some call took.
IdsInv ==
  /\ DOMAIN leases = DOMAIN res /\ DOMAIN res \subseteq used
  /\ \A c \in DOMAIN calls : InFlight(c) => Own(c)
  /\ \A c, d \in DOMAIN calls : InFlight(c) /\ InFlight(d) /\ calls[c].rid = calls[d].rid => c = d

BaseInv == TypeOK /\ CallsTyped /\ IdsInv

-----------------------------------------------------------------------------
(* The estimator *)

\* CeilDiv of a natural number is a natural number, and monotone.
LEMMA CeilDivFacts ==
  ASSUME NEW a \in Nat, NEW b \in Nat, a <= b
  PROVE  /\ CeilDiv(a, 100) \in Nat
         /\ CeilDiv(a, 100) <= CeilDiv(b, 100)
BY DEF CeilDiv

\* A hold fits its call when it covers the prompt and at least a token of
\* output, stays within the ceiling, is the ceiling unless an average was used
\* and does not exceed what `out' projects to when it was.
Fits(n, ask, basis, out) ==
  /\ n \in ask[1] + Smaller(ask[2], 1) .. ask[1] + ask[2]
  /\ basis # "observed" => n = ask[1] + ask[2]
  /\ basis = "observed" => n <= ask[1] + Larger(CeilDiv(out * FactorPercent, 100), 1)

\* The projection grows with the output it is made from.
LEMMA Projection ==
  ASSUME NEW a \in Nat, NEW b \in Nat, a <= b
  PROVE  /\ CeilDiv(a * FactorPercent, 100) \in Nat
         /\ CeilDiv(a * FactorPercent, 100) <= CeilDiv(b * FactorPercent, 100)
<1>1. a * FactorPercent \in Nat /\ b * FactorPercent \in Nat
  BY CallAssumption
<1>2. a * FactorPercent <= b * FactorPercent
  BY CallAssumption
<1> QED
  BY <1>1, <1>2, CeilDivFacts

\* So what fits keeps fitting when a longer output is reported.
LEMMA FitsLonger ==
  ASSUME NEW n \in Nat, NEW ask \in Nat \X Nat, NEW basis, NEW a \in Nat, NEW b \in Nat, a <= b,
         Fits(n, ask, basis, a)
  PROVE  Fits(n, ask, basis, b)
<1>1. /\ CeilDiv(a * FactorPercent, 100) \in Nat /\ CeilDiv(b * FactorPercent, 100) \in Nat
      /\ CeilDiv(a * FactorPercent, 100) <= CeilDiv(b * FactorPercent, 100)
  BY Projection
<1> QED
  BY <1>1 DEF Fits, Larger

\* An estimate fits the call it is made for, for the average it is made from
\* and hence for any longer output.
LEMMA EstimateFits ==
  ASSUME NEW ask \in Nat \X Nat, NEW mode, NEW observed \in Nat
  PROVE  LET e == Estimate(mode, ask[1], ask[2], observed)
         IN  e.n \in Nat /\ e.basis \in Bases /\ Fits(e.n, ask, e.basis, observed)
<1> DEFINE e == Estimate(mode, ask[1], ask[2], observed)
           p == CeilDiv(observed * FactorPercent, 100)
<1>1. p \in Nat /\ ask[1] \in Nat /\ ask[2] \in Nat
  BY Projection
<1>2. CASE mode = "worst_case" \/ observed = 0
  <2>1. e.n = ask[1] + ask[2] /\ e.basis \in Bases /\ e.basis # "observed"
    BY <1>2 DEF Estimate, Bases
  <2> QED
    BY <1>1, <2>1 DEF Fits, Smaller
<1>3. CASE ~(mode = "worst_case" \/ observed = 0)
  <2>1. e.n = ask[1] + Smaller(ask[2], Larger(p, 1)) /\ e.basis = "observed"
    BY <1>3 DEF Estimate
  <2> HIDE DEF e
  <2>2. /\ e.n \in Nat /\ e.basis \in Bases
        /\ e.n \in ask[1] + Smaller(ask[2], 1) .. ask[1] + ask[2]
        /\ e.n <= ask[1] + Larger(p, 1)
    <3> HIDE DEF p
    <3> QED
      BY <1>1, <2>1 DEF Smaller, Larger, Bases
  <2>3. Fits(e.n, ask, e.basis, observed)
    BY <2>1, <2>2 DEF Fits
  <2> QED
    BY <2>2, <2>3 DEF e
<1> QED
  BY <1>2, <1>3

-----------------------------------------------------------------------------
(* The steps *)

\* A commit or release of an id its caller was told, past the settled marker.
SettleStep(r, t, prompt, output, service, lease) ==
  /\ MayCall(r)
  /\ Settle(r, t, prompt, output, service, lease)
  /\ longest' = Larger(longest, output)
  /\ UNCHANGED <<calls, used, told, asked, twice, breaks>>

\* Every settlement repeats one that is remembered, or charges a usage, which is
\* none for a release.
LEMMA SettlementCases ==
  ASSUME CallsTyped, Settlement
  PROVE  \/ UNCHANGED allVars
         \/ \E r \in DOMAIN told, t \in Readings, prompt \in Nat, output \in Nat,
               service \in Nat, lease \in LeaseLengths :
              SettleStep(r, t, prompt, output, service, lease)
<1>1. PICK r \in DOMAIN told :
        /\ MayCall(r)
        /\ \/ Replay(r) /\ UNCHANGED longest
           \/ \E t \in Readings, a \in Actuals, service \in Services, lease \in LeaseLengths :
                /\ Settle(r, t, a[1], a[2], service, lease)
                /\ longest' = Larger(longest, a[2])
           \/ \E t \in Readings, lease \in LeaseLengths :
                Settle(r, t, 0, 0, 0, lease) /\ UNCHANGED longest
        /\ UNCHANGED <<calls, used, told, asked, twice, breaks>>
  BY DEF Settlement
<1>2. CASE Replay(r) /\ UNCHANGED longest
  BY <1>1, <1>2 DEF Replay, allVars, callVars
<1>3. ASSUME NEW t \in Readings, NEW a \in Actuals, NEW service \in Services,
             NEW lease \in LeaseLengths,
             Settle(r, t, a[1], a[2], service, lease), longest' = Larger(longest, a[2])
      PROVE  \E x \in DOMAIN told, u \in Readings, prompt \in Nat, output \in Nat,
                svc \in Nat, l \in LeaseLengths : SettleStep(x, u, prompt, output, svc, l)
  <2>1. a[1] \in Nat /\ a[2] \in Nat /\ service \in Nat
    BY InputAssumption
  <2>2. SettleStep(r, t, a[1], a[2], service, lease)
    BY <1>1, <1>3 DEF SettleStep
  <2> QED
    BY <2>1, <2>2, Zenon
<1>4. ASSUME NEW t \in Readings, NEW lease \in LeaseLengths,
             Settle(r, t, 0, 0, 0, lease), UNCHANGED longest
      PROVE  \E x \in DOMAIN told, u \in Readings, prompt \in Nat, output \in Nat,
                svc \in Nat, l \in LeaseLengths : SettleStep(x, u, prompt, output, svc, l)
  <2>1. Larger(longest, 0) = longest
    BY DEF CallsTyped, Larger
  <2>2. longest' = Larger(longest, 0)
    BY <1>4, <2>1, Zenon
  <2>3. SettleStep(r, t, 0, 0, 0, lease)
    BY <1>1, <1>4, <2>2, Zenon DEF SettleStep
  <2>4. 0 \in Nat
    OBVIOUS
  <2> QED
    BY <2>3, <2>4, Zenon
<1> QED
  BY <1>1, <1>2, <1>3, <1>4

\* The fields of a call that is about to be sent.
LEMMA SentCall ==
  ASSUME CallsTyped, NEW c, InPhase(c, "estimated"), NEW r,
         calls' = [calls EXCEPT ![c].phase = "sent", ![c].rid = r, ![c].t = now]
  PROVE  /\ DOMAIN calls' = DOMAIN calls /\ c \in DOMAIN calls
         /\ calls' = [d \in DOMAIN calls |-> calls'[d]]
         /\ \A d \in DOMAIN calls \ {c} : calls'[d] = calls[d]
         /\ calls'[c] = [calls[c] EXCEPT !.phase = "sent", !.rid = r, !.t = now]
<1> calls \in [DOMAIN calls -> CallRecord] /\ c \in DOMAIN calls
  BY DEF CallsTyped, InPhase
<1> QED
  OBVIOUS

\* The fields of a call whose script has run.
LEMMA RunCall ==
  ASSUME CallsTyped, NEW c, InPhase(c, "sent"), NEW ok,
         calls' = [calls EXCEPT ![c].phase = "done", ![c].ok = ok]
  PROVE  /\ DOMAIN calls' = DOMAIN calls /\ c \in DOMAIN calls
         /\ calls' = [d \in DOMAIN calls |-> calls'[d]]
         /\ \A d \in DOMAIN calls \ {c} : calls'[d] = calls[d]
         /\ calls'[c] = [calls[c] EXCEPT !.phase = "done", !.ok = ok]
<1> calls \in [DOMAIN calls -> CallRecord] /\ c \in DOMAIN calls
  BY DEF CallsTyped, InPhase
<1> QED
  OBVIOUS

\* After a break, every call is where it was, or sent again unchanged.
LEMMA BrokenCall ==
  ASSUME CallsTyped, Break
  PROVE  /\ DOMAIN calls' = DOMAIN calls
         /\ \A c \in DOMAIN calls :
              \/ calls'[c] = calls[c] /\ calls[c].phase # "done"
              \/ calls'[c] = [calls[c] EXCEPT !.phase = "sent"] /\ calls[c].phase = "done"
         /\ UNCHANGED <<vars, used, told, asked, longest, twice>>
BY DEF CallsTyped, Break

\* The two outcomes of a script that runs, for the first time or again.
RunAdmit(c, E, slo) ==
  LET k == calls[c]
  IN  /\ InPhase(c, "sent") /\ k.t \in Readings /\ E \in ReclaimSets(k.t)
      /\ Admit(k.rid, k.t, k.n, slo, k.lease, E)
      /\ twice' = twice + (IF k.rid \in DOMAIN res \ E THEN k.n ELSE 0)
      /\ calls' = [calls EXCEPT ![c].phase = "done", ![c].ok = TRUE]
      /\ UNCHANGED <<used, told, asked, longest, breaks>>

RunShed(c, E, slo) ==
  LET k == calls[c]
  IN  /\ InPhase(c, "sent") /\ k.t \in Readings /\ E \in ReclaimSets(k.t)
      /\ Shed(k.t, k.n, slo, k.lease, E)
      /\ twice' = twice
      /\ calls' = [calls EXCEPT ![c].phase = "done", ![c].ok = FALSE]
      /\ UNCHANGED <<used, told, asked, longest, breaks>>

LEMMA ExecuteCases ==
  ASSUME NEW c, Execute(c)
  PROVE  \E E, slo : RunAdmit(c, E, slo) \/ RunShed(c, E, slo)
BY Zenon DEF Execute, RunAdmit, RunShed

\* The arguments a script is sent with.
LEMMA Arguments ==
  ASSUME BaseInv, NEW c, InPhase(c, "sent")
  PROVE  /\ c \in DOMAIN calls /\ InFlight(c) /\ Own(c) /\ calls[c] \in CallRecord
         /\ calls[c].rid \in Rids /\ calls[c].rid \in used /\ calls[c].rid \notin DOMAIN told
         /\ calls[c].t \in Nat /\ calls[c].t <= now /\ now \in Nat
         /\ calls[c].n \in Nat /\ calls[c].lease \in LeaseLengths
<1>1. c \in DOMAIN calls /\ InFlight(c) /\ Own(c)
  BY DEF InPhase, InFlight, BaseInv, IdsInv
<1>2. calls[c] \in CallRecord
  BY <1>1 DEF BaseInv, CallsTyped
<1>3. calls[c].rid \in used \ DOMAIN told /\ used \in SUBSET Rids
  BY <1>1 DEF BaseInv, CallsTyped, Own
<1>4. calls[c].t \in Nat /\ calls[c].n \in Nat /\ calls[c].lease \in LeaseLengths
  BY <1>2 DEF CallRecord
<1>5. calls[c].t <= now /\ now \in Nat
  BY <1>1 DEF Own, BaseInv, TypeOK
<1> QED
  BY <1>1, <1>2, <1>3, <1>4, <1>5

\* An admission replaces the swept leases and holds by the call's own.
LEMMA AdmitEffect ==
  ASSUME BaseInv, NEW c, NEW E, NEW slo, RunAdmit(c, E, slo)
  PROVE  LET k == calls[c]
         IN  /\ TypeOK'
             /\ now' = now /\ stats' = stats /\ charges' = charges /\ charged' = charged
             /\ E \subseteq DOMAIN res /\ \A x \in E : leases[x] <= k.t
             /\ DOMAIN leases' = (DOMAIN leases \ E) \cup {k.rid}
             /\ DOMAIN res' = (DOMAIN res \ E) \cup {k.rid}
             /\ leases'[k.rid] = k.t + k.lease /\ res'[k.rid] = k.n
             /\ \A x \in DOMAIN res \ E : x # k.rid => leases'[x] = leases[x]
             /\ \A x \in DOMAIN res \ E : x # k.rid => res'[x] = res[x]
             /\ holdsExp' = now + Ttl(k.lease)
<1> DEFINE k == calls[c]
<1>1. /\ k.t \in Readings /\ E \in ReclaimSets(k.t)
      /\ Admit(k.rid, k.t, k.n, slo, k.lease, E)
  BY DEF RunAdmit
<1>2. /\ k.rid \in Rids /\ k.n \in Nat /\ k.lease \in LeaseLengths
  BY Arguments DEF RunAdmit
<1>3. TypeOK /\ DOMAIN leases = DOMAIN res
  BY DEF BaseInv, IdsInv
<1> HIDE DEF k
<1>4. TypeOK'
  BY <1>1, <1>2, <1>3, AdmitType
<1>5. E \subseteq DOMAIN res /\ \A x \in E : leases[x] <= k.t
  BY <1>1, <1>3 DEF ReclaimSets, ExpiredAt
<1>6. /\ leases' = With(Without(leases, E), k.rid, k.t + k.lease)
      /\ res' = With(Without(res, E), k.rid, k.n)
      /\ holdsExp' = IF DOMAIN leases' = {} THEN -1 ELSE now + Ttl(k.lease)
      /\ UNCHANGED <<now, stats, charges, charged>>
  BY <1>1 DEF Admit, Persist
<1>7. /\ DOMAIN leases' = (DOMAIN leases \ E) \cup {k.rid}
      /\ DOMAIN res' = (DOMAIN res \ E) \cup {k.rid}
      /\ leases'[k.rid] = k.t + k.lease /\ res'[k.rid] = k.n
      /\ \A x \in DOMAIN res \ E : x # k.rid => leases'[x] = leases[x] /\ res'[x] = res[x]
  BY <1>3, <1>6 DEF With, Without
<1>8. holdsExp' = now + Ttl(k.lease)
  BY <1>6, <1>7
<1> QED
  BY <1>4, <1>5, <1>6, <1>7, <1>8 DEF k

\* A call that is turned away only sweeps.
LEMMA ShedEffect ==
  ASSUME BaseInv, NEW c, NEW E, NEW slo, RunShed(c, E, slo)
  PROVE  LET k == calls[c]
         IN  /\ TypeOK'
             /\ now' = now /\ stats' = stats /\ charges' = charges /\ charged' = charged
             /\ E \subseteq DOMAIN res /\ \A x \in E : leases[x] <= k.t
             /\ DOMAIN leases' = DOMAIN leases \ E
             /\ DOMAIN res' = DOMAIN res \ E
             /\ \A x \in DOMAIN res \ E : leases'[x] = leases[x]
             /\ \A x \in DOMAIN res \ E : res'[x] = res[x]
             /\ holdsExp' = IF DOMAIN leases' = {} THEN -1 ELSE now + Ttl(k.lease)
<1> DEFINE k == calls[c]
<1>1. /\ k.t \in Readings /\ E \in ReclaimSets(k.t)
      /\ Shed(k.t, k.n, slo, k.lease, E)
  BY DEF RunShed
<1>2. k.n \in Nat /\ k.lease \in LeaseLengths
  BY Arguments DEF RunShed
<1>3. TypeOK /\ DOMAIN leases = DOMAIN res
  BY DEF BaseInv, IdsInv
<1> HIDE DEF k
<1>4. TypeOK'
  BY <1>1, <1>2, <1>3, ShedType
<1>5. E \subseteq DOMAIN res /\ \A x \in E : leases[x] <= k.t
  BY <1>1, <1>3 DEF ReclaimSets, ExpiredAt
<1>6. /\ leases' = Without(leases, E) /\ res' = Without(res, E)
      /\ holdsExp' = IF DOMAIN leases' = {} THEN -1 ELSE now + Ttl(k.lease)
      /\ UNCHANGED <<now, stats, charges, charged>>
  BY <1>1 DEF Shed, Persist
<1>7. /\ DOMAIN leases' = DOMAIN leases \ E /\ DOMAIN res' = DOMAIN res \ E
      /\ \A x \in DOMAIN res \ E : leases'[x] = leases[x] /\ res'[x] = res[x]
  BY <1>3, <1>6 DEF Without
<1> QED
  BY <1>4, <1>5, <1>6, <1>7 DEF k

\* A settlement takes out the hold of an id that no running call carries.
LEMMA SettleEffect ==
  ASSUME BaseInv, NEW r \in DOMAIN told, NEW t \in Readings, NEW prompt \in Nat,
         NEW output \in Nat, NEW service \in Nat, NEW lease \in LeaseLengths,
         SettleStep(r, t, prompt, output, service, lease)
  PROVE  /\ TypeOK' /\ r \in Rids
         /\ now' = now
         /\ charges' = [charges EXCEPT ![r] = @ + 1]
         /\ stats' = StatsAfter(service, output, Ttl(lease))
         /\ DOMAIN leases' = DOMAIN leases \ {r} /\ DOMAIN res' = DOMAIN res \ {r}
         /\ \A x \in DOMAIN res \ {r} : leases'[x] = leases[x]
         /\ \A x \in DOMAIN res \ {r} : res'[x] = res[x]
         /\ holdsExp' = IF DOMAIN leases' = {} THEN -1 ELSE holdsExp
<1>1. r \in Rids /\ TypeOK /\ DOMAIN leases = DOMAIN res
  BY DEF BaseInv, CallsTyped, IdsInv
<1>2. Settle(r, t, prompt, output, service, lease)
  BY DEF SettleStep
<1>3. TypeOK'
  BY <1>1, <1>2, SettleType
<1>4. /\ now' = now
      /\ charges' = [charges EXCEPT ![r] = @ + 1]
      /\ stats' = StatsAfter(service, output, Ttl(lease))
      /\ leases' = LeasesWithout(r) /\ res' = Without(res, {r})
      /\ holdsExp' = IF DOMAIN leases' = {} THEN -1 ELSE holdsExp
  BY <1>2 DEF Settle
<1>5. /\ DOMAIN leases' = DOMAIN leases \ {r} /\ DOMAIN res' = DOMAIN res \ {r}
      /\ \A x \in DOMAIN res \ {r} : leases'[x] = leases[x] /\ res'[x] = res[x]
  BY <1>1, <1>4 DEF LeasesWithout, Without
<1> QED
  BY <1>1, <1>3, <1>4, <1>5

\* Time only lets all holds lapse together.
LEMMA TickEffect ==
  ASSUME BaseInv, TimePasses
  PROVE  /\ TypeOK' /\ now' = now + 1 /\ now \in Nat
         /\ UNCHANGED callVars /\ UNCHANGED <<charges, charged>>
         /\ \/ UNCHANGED <<leases, res, holdsExp>> /\ ~(holdsExp >= 0 /\ holdsExp < now + 1)
            \/ /\ DOMAIN leases' = {} /\ DOMAIN res' = {} /\ holdsExp' = -1
               /\ holdsExp >= 0 /\ holdsExp < now + 1
         /\ stats' = stats \/ stats' = NoStats
<1>1. TypeOK' /\ now \in Nat
  BY TickType DEF BaseInv, TimePasses, TypeOK
<1> QED
  BY <1>1 DEF TimePasses, Tick, Nothing

-----------------------------------------------------------------------------
(* Ids belong to one call *)

\* Statistics are read into a call that has no id yet.
LEMMA BeginBase ==
  ASSUME BaseInv, NEW c, Begin(c)
  PROVE  /\ BaseInv'
         /\ DOMAIN calls' = DOMAIN calls \cup {c} /\ c \notin DOMAIN calls
         /\ \A d \in DOMAIN calls : calls'[d] = calls[d]
         /\ calls'[c].phase = "estimated"
         /\ calls'[c].ask \in Nat \X Nat /\ calls'[c].n \in Nat
         /\ Fits(calls'[c].n, calls'[c].ask, calls'[c].basis, stats.out)
         /\ UNCHANGED <<vars, used, told, asked, longest, twice>>
<1>1. PICK ask \in Asks, mode \in Modes, lease \in LeaseLengths :
        LET e == Estimate(mode, ask[1], ask[2], stats.out)
        IN  calls' = With(calls, c, [phase |-> "estimated", ask |-> ask, n |-> e.n,
                                     basis |-> e.basis, rid |-> 0, t |-> 0,
                                     lease |-> lease, ok |-> FALSE])
  BY Zenon DEF Begin
<1> DEFINE e == Estimate(mode, ask[1], ask[2], stats.out)
           k == [phase |-> "estimated", ask |-> ask, n |-> e.n, basis |-> e.basis,
                 rid |-> 0, t |-> 0, lease |-> lease, ok |-> FALSE]
<1>2. ask \in Nat \X Nat /\ stats.out \in Nat
  BY CallAssumption DEF BaseInv, TypeOK
<1>3. e.n \in Nat /\ e.basis \in Bases /\ Fits(e.n, ask, e.basis, stats.out)
  BY <1>2, EstimateFits
<1> HIDE DEF e
<1>4. k \in CallRecord /\ k.phase = "estimated" /\ k.ask = ask /\ k.n = e.n /\ k.basis = e.basis
  BY <1>3 DEF CallRecord
<1>5. calls' = With(calls, c, k) /\ c \notin DOMAIN calls
  BY <1>1 DEF Begin, e
<1> HIDE DEF k
<1>6. /\ DOMAIN calls' = DOMAIN calls \cup {c}
      /\ \A d \in DOMAIN calls : calls'[d] = calls[d]
      /\ calls'[c] = k
  BY <1>5 DEF With
<1>7. calls' \in [DOMAIN calls' -> CallRecord]
  <2>1. calls \in [DOMAIN calls -> CallRecord]
    BY DEF BaseInv, CallsTyped
  <2> QED
    BY <1>4, <1>5, <2>1 DEF With
<1>8. UNCHANGED <<vars, used, told, asked, longest, twice>>
  BY DEF Begin
<1>9. TypeOK'
  BY <1>8, NextType DEF BaseInv
<1>10. CallsTyped'
  BY <1>7, <1>8 DEF BaseInv, CallsTyped
<1>11. IdsInv'
  <2>1. UNCHANGED <<now, leases, res, used, told, asked>>
    BY <1>8 DEF vars, redisVars
  <2>2. \A d \in DOMAIN calls' :
          InFlight(d)' => d \in DOMAIN calls /\ InFlight(d) /\ calls'[d] = calls[d]
    BY <1>4, <1>6 DEF InFlight
  <2>3. \A d \in DOMAIN calls : calls'[d] = calls[d] /\ Own(d) => Own(d)'
    BY <2>1 DEF Own
  <2> QED
    BY <2>1, <2>2, <2>3 DEF IdsInv, BaseInv
<1> QED
  BY <1>2, <1>3, <1>4, <1>5, <1>6, <1>8, <1>9, <1>10, <1>11 DEF BaseInv

\* A call that is sent takes an id nobody took before, and the present time.
LEMMA SendBase ==
  ASSUME BaseInv, NEW c, Send(c)
  PROVE  /\ BaseInv'
         /\ DOMAIN calls' = DOMAIN calls /\ c \in DOMAIN calls
         /\ \A d \in DOMAIN calls \ {c} : calls'[d] = calls[d]
         /\ calls'[c].phase = "sent" /\ calls'[c].n = calls[c].n
         /\ calls'[c].ask = calls[c].ask /\ calls'[c].basis = calls[c].basis
         /\ \A r \in used : asked'[r] = asked[r]
         /\ UNCHANGED <<vars, told, longest, twice>>
<1>1. PICK r \in Rids \ used :
        /\ calls' = [calls EXCEPT ![c].phase = "sent", ![c].rid = r, ![c].t = now]
        /\ used' = used \cup {r}
        /\ asked' = With(asked, r, [ask |-> calls[c].ask, basis |-> calls[c].basis])
  BY DEF Send
<1>2. /\ DOMAIN calls' = DOMAIN calls /\ c \in DOMAIN calls
      /\ calls' = [d \in DOMAIN calls |-> calls'[d]]
      /\ \A d \in DOMAIN calls \ {c} : calls'[d] = calls[d]
      /\ calls'[c] = [calls[c] EXCEPT !.phase = "sent", !.rid = r, !.t = now]
  BY <1>1, SentCall DEF BaseInv, Send
<1>3. calls \in [DOMAIN calls -> CallRecord] /\ calls[c] \in CallRecord /\ now \in Nat
  BY <1>2 DEF BaseInv, CallsTyped, TypeOK
<1>4. /\ calls'[c] \in CallRecord
      /\ calls'[c].phase = "sent" /\ calls'[c].n = calls[c].n
      /\ calls'[c].ask = calls[c].ask /\ calls'[c].basis = calls[c].basis
      /\ calls'[c].rid = r /\ calls'[c].t = now
  BY <1>2, <1>3 DEF CallRecord
<1>5. calls' \in [DOMAIN calls' -> CallRecord]
  <2>1. \A d \in DOMAIN calls' : calls'[d] \in CallRecord
    BY <1>2, <1>3, <1>4, Zenon
  <2>2. [d \in DOMAIN calls |-> calls'[d]] \in [DOMAIN calls -> CallRecord]
    BY <1>2, <2>1
  <2> QED
    BY <1>2, <2>2, Zenon
<1>6. UNCHANGED <<vars, told, longest, twice>>
  BY DEF Send
<1>7. TypeOK'
  BY <1>6, NextType DEF BaseInv
<1>8. /\ DOMAIN asked' = used \cup {r} /\ asked' \in [used' -> [ask : Asks, basis : Bases]]
      /\ asked'[r] = [ask |-> calls[c].ask, basis |-> calls[c].basis]
      /\ \A x \in used : asked'[x] = asked[x]
  <2>1. asked \in [used -> [ask : Asks, basis : Bases]]
    BY DEF BaseInv, CallsTyped
  <2>2. [ask |-> calls[c].ask, basis |-> calls[c].basis] \in [ask : Asks, basis : Bases]
    BY <1>3 DEF CallRecord
  <2> QED
    BY <1>1, <2>1, <2>2 DEF With
<1>9. CallsTyped'
  <2>1. used' \in SUBSET Rids /\ DOMAIN told' \subseteq used'
    BY <1>1, <1>6 DEF BaseInv, CallsTyped
  <2> QED
    BY <1>5, <1>6, <1>8, <2>1 DEF BaseInv, CallsTyped
<1>10. IdsInv'
  <2>1. /\ UNCHANGED <<now, leases, res, told>> /\ used' = used \cup {r} /\ r \notin used
        /\ DOMAIN leases = DOMAIN res /\ DOMAIN res \subseteq used /\ DOMAIN told \subseteq used
    BY <1>1, <1>6 DEF vars, redisVars, BaseInv, IdsInv, CallsTyped
  <2>2. ASSUME NEW d \in DOMAIN calls \ {c}, InFlight(d)'
        PROVE  InFlight(d) /\ Own(d) /\ Own(d)'
    <3>1. InFlight(d) /\ Own(d)
      BY <1>2, <2>2 DEF InFlight, BaseInv, IdsInv
    <3>2. calls[d].rid \in used
      BY <3>1 DEF Own
    <3> QED
      BY <1>2, <1>8, <2>1, <3>1, <3>2 DEF Own
  <2>3. Own(c)'
    BY <1>3, <1>4, <1>8, <2>1 DEF Own
  <2>4. \A d \in DOMAIN calls' : InFlight(d)' => Own(d)'
    BY <1>2, <2>2, <2>3
  <2>5. \A d \in DOMAIN calls \ {c} : InFlight(d)' => InFlight(d) /\ calls'[d].rid \in used /\ calls'[d].rid = calls[d].rid
    BY <1>2, <2>2 DEF Own
  <2>6. ASSUME NEW d \in DOMAIN calls, NEW f \in DOMAIN calls,
               InFlight(d)', InFlight(f)', calls'[d].rid = calls'[f].rid
        PROVE  d = f
    <3>1. CASE d = c /\ f # c
      <4>1. calls'[d].rid = r /\ calls'[f].rid \in used
        BY <1>4, <2>5, <2>6, <3>1
      <4> QED
        BY <2>1, <2>6, <4>1
    <3>2. CASE d # c /\ f = c
      <4>1. calls'[f].rid = r /\ calls'[d].rid \in used
        BY <1>4, <2>5, <2>6, <3>2
      <4> QED
        BY <2>1, <2>6, <4>1
    <3>3. CASE d # c /\ f # c
      <4>1. InFlight(d) /\ InFlight(f) /\ calls[d].rid = calls[f].rid
        BY <2>5, <2>6, <3>3
      <4> QED
        BY <4>1, Zenon DEF BaseInv, IdsInv
    <3> QED
      BY <3>1, <3>2, <3>3
  <2> QED
    BY <1>2, <2>1, <2>4, <2>6 DEF IdsInv
<1> QED
  BY <1>2, <1>4, <1>6, <1>7, <1>8, <1>9, <1>10 DEF BaseInv

\* Calls are answered or given up; their ids are theirs for good.
LEMMA EndBase ==
  ASSUME BaseInv, NEW c, Answer(c) \/ Abandon(c)
  PROVE  /\ BaseInv'
         /\ DOMAIN calls' = DOMAIN calls \ {c}
         /\ \A d \in DOMAIN calls' : calls'[d] = calls[d]
         /\ UNCHANGED <<vars, used, asked, longest, twice>>
         /\ DOMAIN told \subseteq DOMAIN told' /\ \A r \in DOMAIN told : told'[r] = told[r]
         /\ \A r \in DOMAIN told' \ DOMAIN told :
              /\ c \in DOMAIN calls /\ calls[c].phase = "done" /\ calls[c].ok
              /\ r = calls[c].rid /\ told'[r].n = calls[c].n
              /\ told'[r].until = LeaseUntil(calls[c])
<1>1. /\ c \in DOMAIN calls /\ calls' = Without(calls, {c})
      /\ UNCHANGED <<vars, used, asked, longest, twice>>
  BY DEF Answer, Abandon, InPhase
<1>2. /\ DOMAIN calls' = DOMAIN calls \ {c}
      /\ \A d \in DOMAIN calls' : calls'[d] = calls[d]
  BY <1>1 DEF Without
<1>3. calls \in [DOMAIN calls -> CallRecord]
  BY DEF BaseInv, CallsTyped
<1>4. calls' \in [DOMAIN calls' -> CallRecord]
  BY <1>1, <1>3 DEF Without
<1>5. TypeOK'
  BY <1>1, NextType DEF BaseInv
<1>6. told' = told \/ (InPhase(c, "done") /\ calls[c].ok
                       /\ told' = With(told, calls[c].rid, [n |-> calls[c].n, until |-> LeaseUntil(calls[c])]))
  BY DEF Answer, Abandon
<1>7. /\ DOMAIN told' \subseteq used /\ told' \in [DOMAIN told' -> [n : Nat, until : Nat]]
      /\ DOMAIN told \subseteq DOMAIN told' /\ \A r \in DOMAIN told : told'[r] = told[r]
      /\ \A r \in DOMAIN told' \ DOMAIN told :
           /\ c \in DOMAIN calls /\ calls[c].phase = "done" /\ calls[c].ok
           /\ r = calls[c].rid /\ told'[r].n = calls[c].n
           /\ told'[r].until = LeaseUntil(calls[c])
  <2>1. DOMAIN told \subseteq used /\ told \in [DOMAIN told -> [n : Nat, until : Nat]]
    BY DEF BaseInv, CallsTyped
  <2>2. CASE told' = told
    <3>1. DOMAIN told' \subseteq used /\ told' \in [DOMAIN told' -> [n : Nat, until : Nat]]
      BY <2>1, <2>2, Zenon
    <3>2. DOMAIN told' = DOMAIN told
      BY <2>2, Zenon
    <3>3. DOMAIN told \subseteq DOMAIN told' /\ \A r \in DOMAIN told : told'[r] = told[r]
      BY <2>2, <3>2, Zenon
    <3>4. DOMAIN told' \ DOMAIN told = {}
      BY <3>2
    <3> QED
      BY <3>1, <3>3, <3>4
  <2>3. CASE InPhase(c, "done") /\ calls[c].ok
             /\ told' = With(told, calls[c].rid, [n |-> calls[c].n, until |-> LeaseUntil(calls[c])])
    <3> DEFINE v == [n |-> calls[c].n, until |-> LeaseUntil(calls[c])]
    <3>1. calls[c] \in CallRecord /\ calls[c].phase = "done" /\ calls[c].ok
      BY <1>1, <1>3, <2>3 DEF InPhase
    <3>2. calls[c].rid \in used /\ calls[c].rid \notin DOMAIN told
      BY <1>1, <3>1 DEF BaseInv, IdsInv, InFlight, Own
    <3>3. v \in [n : Nat, until : Nat] /\ v.n = calls[c].n /\ v.until = LeaseUntil(calls[c])
      <4>1. calls[c].n \in Nat /\ calls[c].t \in Nat /\ calls[c].lease \in Nat
        BY <3>1, PolicyAssumption DEF CallRecord
      <4>2. LeaseUntil(calls[c]) \in Nat
        BY <4>1 DEF LeaseUntil
      <4> QED
        BY <4>1, <4>2
    <3> HIDE DEF v
    <3>4. told' = With(told, calls[c].rid, v)
      BY <2>3 DEF v
    <3>5. /\ DOMAIN told' = DOMAIN told \cup {calls[c].rid} /\ told'[calls[c].rid] = v
          /\ \A r \in DOMAIN told : told'[r] = told[r]
          /\ told' \in [DOMAIN told' -> [n : Nat, until : Nat]]
      BY <2>1, <3>2, <3>3, <3>4 DEF With
    <3> QED
      BY <1>1, <2>1, <3>1, <3>2, <3>3, <3>5
  <2> QED
    BY <1>6, <2>2, <2>3
<1>8. CallsTyped'
  BY <1>1, <1>4, <1>7 DEF BaseInv, CallsTyped
<1>9. IdsInv'
  <2>1. UNCHANGED <<now, leases, res, used, asked>>
    BY <1>1 DEF vars, redisVars
  <2>2. ASSUME NEW d \in DOMAIN calls', InFlight(d)'
        PROVE  d \in DOMAIN calls /\ InFlight(d) /\ calls'[d] = calls[d] /\ Own(d)'
    <3>1. d \in DOMAIN calls /\ d # c /\ InFlight(d) /\ calls'[d] = calls[d] /\ Own(d)
      BY <1>2, <2>2 DEF InFlight, BaseInv, IdsInv
    <3>2. calls[d].rid \notin DOMAIN told'
      <4>1. calls[d].rid \notin DOMAIN told
        BY <3>1 DEF Own
      <4>2. calls[d].rid \in DOMAIN told' =>
              calls[d].rid = calls[c].rid /\ c \in DOMAIN calls /\ InFlight(c)
        BY <1>7, <4>1 DEF InFlight
      <4> QED
        BY <3>1, <4>2 DEF BaseInv, IdsInv
    <3> QED
      BY <2>1, <3>1, <3>2 DEF Own
  <2> QED
    BY <2>1, <2>2 DEF BaseInv, IdsInv
<1> QED
  BY <1>1, <1>2, <1>5, <1>7, <1>8, <1>9 DEF BaseInv

\* A break leaves every script with its arguments.
LEMMA BreakBase ==
  ASSUME BaseInv, Break
  PROVE  BaseInv'
<1>1. /\ DOMAIN calls' = DOMAIN calls
      /\ \A c \in DOMAIN calls :
           \/ calls'[c] = calls[c] /\ calls[c].phase # "done"
           \/ calls'[c] = [calls[c] EXCEPT !.phase = "sent"] /\ calls[c].phase = "done"
      /\ UNCHANGED <<vars, used, told, asked, longest, twice>>
  BY BrokenCall DEF BaseInv
<1>2. \A c \in DOMAIN calls : calls[c] \in CallRecord
  BY DEF BaseInv, CallsTyped
<1>3. ASSUME NEW c \in DOMAIN calls
      PROVE  /\ calls'[c] \in CallRecord
             /\ calls'[c].n = calls[c].n /\ calls'[c].rid = calls[c].rid /\ calls'[c].t = calls[c].t
             /\ calls'[c].ask = calls[c].ask /\ calls'[c].basis = calls[c].basis
             /\ InFlight(c)' => InFlight(c)
  BY <1>1, <1>2 DEF CallRecord, InFlight
<1>4. calls' \in [DOMAIN calls' -> CallRecord]
  <2>1. calls' = [c \in DOMAIN calls |-> calls'[c]]
    BY DEF Break
  <2>2. [c \in DOMAIN calls |-> calls'[c]] \in [DOMAIN calls -> CallRecord]
    BY <1>3
  <2> QED
    BY <1>1, <2>1, <2>2, Zenon
<1>5. TypeOK'
  BY <1>1, NextType DEF BaseInv
<1>6. CallsTyped'
  BY <1>1, <1>4 DEF BaseInv, CallsTyped
<1>7. IdsInv'
  <2>1. UNCHANGED <<now, leases, res, used, told, asked>>
    BY <1>1 DEF vars, redisVars
  <2>2. \A c \in DOMAIN calls : Own(c) => Own(c)'
    BY <1>3, <2>1 DEF Own
  <2> QED
    BY <1>1, <1>3, <2>1, <2>2 DEF BaseInv, IdsInv
<1> QED
  BY <1>5, <1>6, <1>7 DEF BaseInv

\* The call whose script ran keeps its arguments; all others are untouched.
LEMMA RunBase ==
  ASSUME BaseInv, NEW c, NEW E, NEW slo, NEW ok \in BOOLEAN,
         IF ok THEN RunAdmit(c, E, slo) ELSE RunShed(c, E, slo)
  PROVE  /\ BaseInv'
         /\ DOMAIN calls' = DOMAIN calls /\ c \in DOMAIN calls
         /\ \A d \in DOMAIN calls \ {c} : calls'[d] = calls[d]
         /\ calls'[c] = [calls[c] EXCEPT !.phase = "done", !.ok = ok]
         /\ calls[c] \in CallRecord
         /\ UNCHANGED <<used, told, asked, longest>>
<1> DEFINE k == calls[c]
<1>1. /\ InPhase(c, "sent")
      /\ calls' = [calls EXCEPT ![c].phase = "done", ![c].ok = ok]
      /\ UNCHANGED <<used, told, asked, longest>>
  BY DEF RunAdmit, RunShed
<1>2. /\ DOMAIN calls' = DOMAIN calls /\ c \in DOMAIN calls
      /\ calls' = [d \in DOMAIN calls |-> calls'[d]]
      /\ \A d \in DOMAIN calls \ {c} : calls'[d] = calls[d]
      /\ calls'[c] = [calls[c] EXCEPT !.phase = "done", !.ok = ok]
  BY <1>1, RunCall DEF BaseInv
<1>3. /\ c \in DOMAIN calls /\ InFlight(c) /\ Own(c) /\ calls[c] \in CallRecord
      /\ k.rid \in used
  BY <1>1, Arguments
<1>4. /\ calls'[c] \in CallRecord
      /\ calls'[c].n = k.n /\ calls'[c].rid = k.rid /\ calls'[c].t = k.t
      /\ calls'[c].ask = k.ask /\ calls'[c].basis = k.basis
  BY <1>2, <1>3 DEF CallRecord
<1>5. calls' \in [DOMAIN calls' -> CallRecord]
  <2>1. \A d \in DOMAIN calls : calls'[d] \in CallRecord
    BY <1>2, <1>4 DEF BaseInv, CallsTyped
  <2>2. [d \in DOMAIN calls |-> calls'[d]] \in [DOMAIN calls -> CallRecord]
    BY <2>1
  <2> QED
    BY <1>2, <2>2, Zenon
<1>6. /\ TypeOK' /\ now' = now /\ E \subseteq DOMAIN res
      /\ DOMAIN leases' = (DOMAIN leases \ E) \cup (IF ok THEN {k.rid} ELSE {})
      /\ DOMAIN res' = (DOMAIN res \ E) \cup (IF ok THEN {k.rid} ELSE {})
      /\ ok => res'[k.rid] = k.n
      /\ \A x \in DOMAIN res \ E : x # k.rid => res'[x] = res[x]
      /\ ~ok => \A x \in DOMAIN res \ E : res'[x] = res[x]
  <2>1. CASE ok
    <3>1. RunAdmit(c, E, slo)
      BY <2>1
    <3>2. /\ TypeOK' /\ now' = now /\ E \subseteq DOMAIN res
          /\ DOMAIN leases' = (DOMAIN leases \ E) \cup {k.rid}
          /\ DOMAIN res' = (DOMAIN res \ E) \cup {k.rid}
          /\ res'[k.rid] = k.n
          /\ \A x \in DOMAIN res \ E : x # k.rid => res'[x] = res[x]
      BY <3>1, AdmitEffect, Zenon
    <3>3. (IF ok THEN {k.rid} ELSE {}) = {k.rid}
      BY <2>1
    <3> QED
      BY <2>1, <3>2, <3>3, Zenon
  <2>2. CASE ~ok
    <3>1. RunShed(c, E, slo)
      BY <2>2
    <3>2. /\ TypeOK' /\ now' = now /\ E \subseteq DOMAIN res
          /\ DOMAIN leases' = DOMAIN leases \ E /\ DOMAIN res' = DOMAIN res \ E
          /\ \A x \in DOMAIN res \ E : res'[x] = res[x]
      BY <3>1, ShedEffect, Zenon
    <3>3. /\ (IF ok THEN {k.rid} ELSE {}) = {}
          /\ \A S : S \cup {} = S
      BY <2>2
    <3> QED
      BY <2>2, <3>2, <3>3, Zenon
  <2> QED
    BY <2>1, <2>2
<1>7. twice' \in Nat
  <2>1. twice \in Nat /\ k.n \in Nat
    BY <1>3 DEF CallRecord, BaseInv, CallsTyped
  <2> QED
    BY <2>1 DEF RunAdmit, RunShed
<1>8. CallsTyped'
  BY <1>1, <1>5, <1>7 DEF BaseInv, CallsTyped
<1>9. IdsInv'
  <2>1. DOMAIN leases = DOMAIN res /\ DOMAIN res \subseteq used
    BY DEF BaseInv, IdsInv
  <2>2. DOMAIN leases' = DOMAIN res' /\ DOMAIN res' \subseteq used'
    BY <1>1, <1>3, <1>6, <2>1
  <2>3. Own(c)'
    BY <1>1, <1>3, <1>4, <1>6 DEF Own
  <2>4. ASSUME NEW d \in DOMAIN calls \ {c}, InFlight(d)'
        PROVE  InFlight(d) /\ calls'[d] = calls[d] /\ Own(d)'
    <3>1. InFlight(d) /\ calls'[d] = calls[d] /\ Own(d)
      BY <1>2, <2>4 DEF InFlight, BaseInv, IdsInv
    <3>2. calls[d].rid # k.rid
      BY <1>3, <3>1 DEF BaseInv, IdsInv
    <3>3. calls[d].rid \in DOMAIN res' =>
            calls[d].rid \in DOMAIN res /\ res'[calls[d].rid] = res[calls[d].rid]
      BY <1>6, <3>2
    <3> QED
      BY <1>1, <1>6, <3>1, <3>3 DEF Own
  <2>5. \A d \in DOMAIN calls' : InFlight(d)' => Own(d)'
    BY <1>2, <2>3, <2>4
  <2>6. \A d \in DOMAIN calls : InFlight(d)' => InFlight(d) /\ calls'[d].rid = calls[d].rid
    BY <1>3, <1>4, <2>4
  <2>7. ASSUME NEW d \in DOMAIN calls, NEW f \in DOMAIN calls,
               InFlight(d)', InFlight(f)', calls'[d].rid = calls'[f].rid
        PROVE  d = f
    BY <2>6, <2>7 DEF BaseInv, IdsInv
  <2> QED
    BY <1>2, <2>2, <2>5, <2>7 DEF IdsInv
<1> QED
  BY <1>1, <1>2, <1>3, <1>6, <1>8, <1>9 DEF BaseInv

\* A settlement names an id that no running call carries.
LEMMA SettleBase ==
  ASSUME BaseInv, NEW r \in DOMAIN told, NEW t \in Readings, NEW prompt \in Nat,
         NEW output \in Nat, NEW service \in Nat, NEW lease \in LeaseLengths,
         SettleStep(r, t, prompt, output, service, lease)
  PROVE  BaseInv'
<1>1. /\ TypeOK' /\ now' = now
      /\ DOMAIN leases' = DOMAIN leases \ {r} /\ DOMAIN res' = DOMAIN res \ {r}
      /\ \A x \in DOMAIN res \ {r} : res'[x] = res[x]
  BY SettleEffect
<1>2. UNCHANGED <<calls, used, told, asked, twice>> /\ longest' \in Nat
  BY DEF SettleStep, BaseInv, CallsTyped, Larger
<1>3. CallsTyped'
  BY <1>2 DEF BaseInv, CallsTyped
<1>4. \A c \in DOMAIN calls : Own(c) => Own(c)'
  BY <1>1, <1>2 DEF Own
<1>5. \A c \in DOMAIN calls : InFlight(c)' <=> InFlight(c)
  BY <1>2 DEF InFlight
<1>6. IdsInv'
  BY <1>1, <1>2, <1>4, <1>5 DEF BaseInv, IdsInv
<1> QED
  BY <1>1, <1>3, <1>6 DEF BaseInv

\* The passing of time takes holds away and gives none.
LEMMA TickBase ==
  ASSUME BaseInv, TimePasses
  PROVE  BaseInv'
<1>1. /\ TypeOK' /\ now' = now + 1 /\ now \in Nat
      /\ UNCHANGED callVars
      /\ (leases' = leases /\ res' = res) \/ (DOMAIN leases' = {} /\ DOMAIN res' = {})
  BY TickEffect
<1>2. UNCHANGED <<calls, used, told, asked, twice, longest>>
  BY <1>1 DEF callVars
<1>3. CallsTyped'
  BY <1>2 DEF BaseInv, CallsTyped
<1>4. ASSUME NEW c \in DOMAIN calls, Own(c) PROVE Own(c)'
  <2>1. calls[c].t \in Nat
    BY DEF BaseInv, CallsTyped, CallRecord
  <2>2. calls[c].t <= now
    BY <1>4 DEF Own
  <2>3. calls[c].t <= now'
    BY <1>1, <2>1, <2>2
  <2> QED
    BY <1>1, <1>2, <1>4, <2>3 DEF Own
<1>5. \A c \in DOMAIN calls : InFlight(c)' <=> InFlight(c)
  BY <1>2 DEF InFlight
<1>6. IdsInv'
  BY <1>1, <1>2, <1>4, <1>5 DEF BaseInv, IdsInv
<1> QED
  BY <1>1, <1>3, <1>6 DEF BaseInv

\* A step that changes nothing.
LEMMA StutterBase == BaseInv /\ UNCHANGED allVars => BaseInv'
<1> SUFFICES ASSUME BaseInv, UNCHANGED allVars PROVE BaseInv'
  OBVIOUS
<1>1. TypeOK'
  BY NextType DEF BaseInv, allVars
<1>2. UNCHANGED <<now, leases, res, calls, used, told, asked, longest, twice>>
  BY DEF allVars, callVars, vars, redisVars
<1> QED
  BY <1>1, <1>2 DEF BaseInv, CallsTyped, IdsInv, InFlight, Own

\* The ways in which a step can go.
LEMMA StepCases ==
  ASSUME CallsTyped, [CallNext]_allVars
  PROVE  \/ \E c : Begin(c)
         \/ \E c : Send(c)
         \/ \E c, E, slo : RunAdmit(c, E, slo)
         \/ \E c, E, slo : RunShed(c, E, slo)
         \/ \E c : Answer(c) \/ Abandon(c)
         \/ Break
         \/ \E r \in DOMAIN told, t \in Readings, prompt \in Nat, output \in Nat,
               service \in Nat, lease \in LeaseLengths :
              SettleStep(r, t, prompt, output, service, lease)
         \/ TimePasses
         \/ UNCHANGED allVars
<1>1. CASE \E c \in Calls : Call(c)
  <2>1. PICK c \in Calls : Call(c)
    BY <1>1
  <2>2. CASE Execute(c)
    <3>1. \E E, slo : RunAdmit(c, E, slo) \/ RunShed(c, E, slo)
      BY <2>2, ExecuteCases
    <3> QED
      BY <3>1, Zenon
  <2> QED
    BY <2>1, <2>2, Zenon DEF Call
<1>2. CASE Break
  BY <1>2, Zenon
<1>3. CASE Settlement
  BY <1>3, SettlementCases, Zenon
<1>4. CASE TimePasses
  BY <1>4, Zenon
<1>5. CASE UNCHANGED allVars
  BY <1>5, Zenon
<1> QED
  BY <1>1, <1>2, <1>3, <1>4, <1>5, Zenon DEF CallNext

LEMMA InitBase == CallInit => BaseInv
BY InitType DEF CallInit, Init, BaseInv, CallsTyped, IdsInv, Nothing

LEMMA NextBase == BaseInv /\ [CallNext]_allVars => BaseInv'
<1> SUFFICES ASSUME BaseInv, [CallNext]_allVars PROVE BaseInv'
  OBVIOUS
<1>1. ASSUME NEW c, Begin(c) PROVE BaseInv'
  BY <1>1, BeginBase
<1>2. ASSUME NEW c, Send(c) PROVE BaseInv'
  BY <1>2, SendBase
<1>3. ASSUME NEW c, NEW E, NEW slo, RunAdmit(c, E, slo) PROVE BaseInv'
  <2>1. TRUE \in BOOLEAN /\ (IF TRUE THEN RunAdmit(c, E, slo) ELSE RunShed(c, E, slo))
    BY <1>3
  <2> QED
    BY <2>1, RunBase
<1>4. ASSUME NEW c, NEW E, NEW slo, RunShed(c, E, slo) PROVE BaseInv'
  <2>1. FALSE \in BOOLEAN /\ (IF FALSE THEN RunAdmit(c, E, slo) ELSE RunShed(c, E, slo))
    BY <1>4
  <2> QED
    BY <2>1, RunBase
<1>5. ASSUME NEW c, Answer(c) \/ Abandon(c) PROVE BaseInv'
  BY <1>5, EndBase
<1>6. ASSUME NEW r \in DOMAIN told, NEW t \in Readings, NEW prompt \in Nat, NEW output \in Nat,
             NEW service \in Nat, NEW lease \in LeaseLengths,
             SettleStep(r, t, prompt, output, service, lease)
      PROVE  BaseInv'
  BY <1>6, SettleBase
<1>7. CallsTyped
  BY DEF BaseInv
<1> QED
  BY <1>1, <1>2, <1>3, <1>4, <1>5, <1>6, <1>7, StepCases, BreakBase, TickBase, StutterBase, Zenon

\* The admission state keeps its types, and ids and holds their owners, however
\* many scripts are resent or abandoned.
LEMMA BaseInvariant == CallSpec => []BaseInv
BY InitBase, NextBase, PTL DEF CallSpec

-----------------------------------------------------------------------------
(* Calibrated holds *)

\* The average is of outputs no longer than the longest; every call and every
\* hold fits what was asked.
CalibratedInv ==
  /\ stats.out <= longest
  /\ \A c \in DOMAIN calls : Fits(calls[c].n, calls[c].ask, calls[c].basis, longest)
  /\ \A r \in DOMAIN res : Fits(res[r], asked[r].ask, asked[r].basis, longest)

\* A moving average stays within the longest of its samples.
LEMMA EwmaBound ==
  ASSUME NEW prev \in Nat, NEW sample \in Nat, NEW top \in Nat, prev <= top, sample <= top
  PROVE  Ewma(prev, sample) <= top
<1>1. \A s, p \in Nat : s <= top /\ p <= top => (s + 4 * p) \div 5 <= top
  OBVIOUS
<1> QED
  BY <1>1 DEF Ewma

LEMMA StatsBound ==
  ASSUME TypeOK, NEW service \in Nat, NEW output \in Nat, NEW ttl \in Nat, longest \in Nat,
         stats.out <= longest
  PROVE  StatsAfter(service, output, ttl).out <= Larger(longest, output)
<1> DEFINE top == Larger(longest, output)
<1>1. top \in Nat /\ longest <= top /\ output <= top
  BY DEF Larger
<1>2. stats.out \in Nat /\ stats.out <= top
  BY <1>1 DEF TypeOK
<1> HIDE DEF top
<1>3. Ewma(stats.out, output) <= top
  BY <1>1, <1>2, EwmaBound
<1>4. StatsAfter(service, output, ttl).out \in {0, stats.out, Ewma(stats.out, output)}
  BY DEF StatsAfter, NoStats
<1> QED
  BY <1>1, <1>2, <1>3, <1>4 DEF top

\* Types of what has to fit.
LEMMA FitTypes ==
  ASSUME BaseInv
  PROVE  /\ \A c \in DOMAIN calls : calls[c].n \in Nat /\ calls[c].ask \in Nat \X Nat
         /\ \A r \in DOMAIN res : res[r] \in Nat /\ r \in used /\ asked[r].ask \in Nat \X Nat
         /\ longest \in Nat /\ stats.out \in Nat
<1>1. \A c \in DOMAIN calls : calls[c] \in CallRecord
  BY DEF BaseInv, CallsTyped
<1>2. \A c \in DOMAIN calls : calls[c].n \in Nat /\ calls[c].ask \in Nat \X Nat
  BY <1>1, CallAssumption DEF CallRecord
<1>3. \A r \in DOMAIN res : r \in used /\ asked[r] \in [ask : Asks, basis : Bases]
  BY DEF BaseInv, IdsInv, CallsTyped
<1>4. \A r \in DOMAIN res : res[r] \in Nat
  BY LimitType DEF BaseInv, TypeOK
<1>5. longest \in Nat /\ stats.out \in Nat
  BY DEF BaseInv, CallsTyped, TypeOK
<1> QED
  BY <1>2, <1>3, <1>4, <1>5, CallAssumption

LEMMA NextCalibrated == BaseInv /\ CalibratedInv /\ [CallNext]_allVars => CalibratedInv'
<1> SUFFICES ASSUME BaseInv, CalibratedInv, [CallNext]_allVars PROVE CalibratedInv'
  OBVIOUS
<1>1. ASSUME NEW c, Begin(c) PROVE CalibratedInv'
  <2>1. /\ DOMAIN calls' = DOMAIN calls \cup {c} /\ c \notin DOMAIN calls
        /\ \A d \in DOMAIN calls : calls'[d] = calls[d]
        /\ calls'[c].ask \in Nat \X Nat /\ calls'[c].n \in Nat
        /\ Fits(calls'[c].n, calls'[c].ask, calls'[c].basis, stats.out)
        /\ UNCHANGED <<vars, used, told, asked, longest, twice>>
    BY <1>1, BeginBase
  <2>2. longest \in Nat /\ stats.out \in Nat /\ stats.out <= longest
    BY FitTypes DEF CalibratedInv
  <2>3. Fits(calls'[c].n, calls'[c].ask, calls'[c].basis, longest)
    BY <2>1, <2>2, FitsLonger
  <2>4. UNCHANGED <<stats, res, asked, longest>>
    BY <2>1 DEF vars, redisVars
  <2> QED
    BY <2>1, <2>3, <2>4 DEF CalibratedInv
<1>2. ASSUME NEW c, Send(c) PROVE CalibratedInv'
  <2>1. /\ DOMAIN calls' = DOMAIN calls /\ c \in DOMAIN calls
        /\ \A d \in DOMAIN calls \ {c} : calls'[d] = calls[d]
        /\ calls'[c].n = calls[c].n
        /\ calls'[c].ask = calls[c].ask /\ calls'[c].basis = calls[c].basis
        /\ \A r \in used : asked'[r] = asked[r]
        /\ UNCHANGED <<vars, told, longest, twice>>
    BY <1>2, SendBase
  <2>2. UNCHANGED <<stats, res, longest>>
    BY <2>1 DEF vars, redisVars
  <2>3. \A d \in DOMAIN calls' : Fits(calls'[d].n, calls'[d].ask, calls'[d].basis, longest)
    BY <2>1 DEF CalibratedInv
  <2>4. \A r \in DOMAIN res : asked'[r] = asked[r]
    BY <2>1, FitTypes
  <2> QED
    BY <2>2, <2>3, <2>4 DEF CalibratedInv
<1>3. ASSUME NEW c, NEW E, NEW slo, NEW ok \in BOOLEAN,
             IF ok THEN RunAdmit(c, E, slo) ELSE RunShed(c, E, slo)
      PROVE  CalibratedInv'
  <2>1. /\ DOMAIN calls' = DOMAIN calls /\ c \in DOMAIN calls
        /\ \A d \in DOMAIN calls \ {c} : calls'[d] = calls[d]
        /\ calls'[c] = [calls[c] EXCEPT !.phase = "done", !.ok = ok]
        /\ calls[c] \in CallRecord
        /\ UNCHANGED <<used, told, asked, longest>>
    BY <1>3, RunBase
  <2>2. \A d \in DOMAIN calls' : Fits(calls'[d].n, calls'[d].ask, calls'[d].basis, longest)
    <3>1. calls'[c].n = calls[c].n /\ calls'[c].ask = calls[c].ask /\ calls'[c].basis = calls[c].basis
      BY <2>1 DEF CallRecord
    <3> QED
      BY <2>1, <3>1 DEF CalibratedInv
  <2>3. Fits(calls[c].n, asked[calls[c].rid].ask, asked[calls[c].rid].basis, longest)
    <3>1. Own(c)
      BY <1>3, Arguments DEF RunAdmit, RunShed
    <3> QED
      BY <2>1, <3>1 DEF Own, CalibratedInv
  <2>4. /\ stats' = stats
        /\ \A r \in DOMAIN res' : \/ r \in DOMAIN res /\ res'[r] = res[r]
                                  \/ r = calls[c].rid /\ res'[r] = calls[c].n
    <3>1. CASE ok
      <4>1. RunAdmit(c, E, slo)
        BY <1>3, <3>1
      <4>2. /\ stats' = stats
            /\ DOMAIN res' = (DOMAIN res \ E) \cup {calls[c].rid}
            /\ res'[calls[c].rid] = calls[c].n
            /\ \A x \in DOMAIN res \ E : x # calls[c].rid => res'[x] = res[x]
        BY <4>1, AdmitEffect, Zenon
      <4> QED
        BY <4>2
    <3>2. CASE ~ok
      <4>1. RunShed(c, E, slo)
        BY <1>3, <3>2
      <4>2. /\ stats' = stats /\ DOMAIN res' = DOMAIN res \ E
            /\ \A x \in DOMAIN res \ E : res'[x] = res[x]
        BY <4>1, ShedEffect, Zenon
      <4> QED
        BY <4>2
    <3> QED
      BY <3>1, <3>2
  <2>5. \A r \in DOMAIN res' : Fits(res'[r], asked[r].ask, asked[r].basis, longest)
    BY <2>3, <2>4 DEF CalibratedInv
  <2> QED
    BY <2>1, <2>2, <2>4, <2>5 DEF CalibratedInv
<1>4. ASSUME NEW c, Answer(c) \/ Abandon(c) PROVE CalibratedInv'
  <2>1. /\ DOMAIN calls' = DOMAIN calls \ {c}
        /\ \A d \in DOMAIN calls' : calls'[d] = calls[d]
        /\ UNCHANGED <<vars, used, asked, longest, twice>>
    BY <1>4, EndBase
  <2>2. UNCHANGED <<stats, res, asked, longest>>
    BY <2>1 DEF vars, redisVars
  <2> QED
    BY <2>1, <2>2 DEF CalibratedInv
<1>5. CASE Break
  <2>1. /\ DOMAIN calls' = DOMAIN calls
        /\ \A c \in DOMAIN calls :
             \/ calls'[c] = calls[c] /\ calls[c].phase # "done"
             \/ calls'[c] = [calls[c] EXCEPT !.phase = "sent"] /\ calls[c].phase = "done"
        /\ UNCHANGED <<vars, used, told, asked, longest, twice>>
    BY <1>5, BrokenCall DEF BaseInv
  <2>2. \A c \in DOMAIN calls : calls[c] \in CallRecord
    BY DEF BaseInv, CallsTyped
  <2>3. \A c \in DOMAIN calls : /\ calls'[c].n = calls[c].n /\ calls'[c].ask = calls[c].ask
                                /\ calls'[c].basis = calls[c].basis
    BY <2>1, <2>2 DEF CallRecord
  <2>4. UNCHANGED <<stats, res, asked, longest>>
    BY <2>1 DEF vars, redisVars
  <2> QED
    BY <2>1, <2>3, <2>4 DEF CalibratedInv
<1>6. ASSUME NEW r \in DOMAIN told, NEW t \in Readings, NEW prompt \in Nat, NEW output \in Nat,
             NEW service \in Nat, NEW lease \in LeaseLengths,
             SettleStep(r, t, prompt, output, service, lease)
      PROVE  CalibratedInv'
  <2>1. stats' = StatsAfter(service, output, Ttl(lease))
    BY <1>6 DEF SettleStep, Settle
  <2>2. UNCHANGED <<calls, asked>> /\ longest' = Larger(longest, output)
    BY <1>6 DEF SettleStep
  <2>3. stats'.out <= longest'
    BY <2>1, <2>2, StatsBound, FitTypes, TtlFacts DEF BaseInv, CalibratedInv
  <2>4. longest' \in Nat /\ longest <= longest' /\ longest \in Nat
    BY <2>2, FitTypes DEF Larger
  <2>5. DOMAIN res' = DOMAIN res \ {r} /\ \A x \in DOMAIN res \ {r} : res'[x] = res[x]
    BY <1>6, SettleEffect
  <2>6. \A c \in DOMAIN calls : Fits(calls[c].n, calls[c].ask, calls[c].basis, longest')
    BY <2>4, FitTypes, FitsLonger DEF CalibratedInv
  <2>7. \A x \in DOMAIN res : Fits(res[x], asked[x].ask, asked[x].basis, longest')
    BY <2>4, FitTypes, FitsLonger DEF CalibratedInv
  <2> QED
    BY <2>2, <2>3, <2>6, <2>7, <2>5 DEF CalibratedInv
<1>7. CASE TimePasses
  <2>1. /\ UNCHANGED <<calls, asked, longest>>
        /\ res' = res \/ DOMAIN res' = {}
        /\ stats' = stats \/ stats' = NoStats
    BY <1>7, TickEffect DEF callVars
  <2>2. stats'.out <= longest
    BY <2>1, FitTypes DEF CalibratedInv, NoStats
  <2> QED
    BY <2>1, <2>2 DEF CalibratedInv
<1>8. CASE UNCHANGED allVars
  BY <1>8 DEF CalibratedInv, allVars, callVars, vars, redisVars
<1>9. ASSUME NEW c, NEW E, NEW slo, RunAdmit(c, E, slo) PROVE CalibratedInv'
  <2>1. TRUE \in BOOLEAN /\ (IF TRUE THEN RunAdmit(c, E, slo) ELSE RunShed(c, E, slo))
    BY <1>9
  <2> QED
    BY <2>1, <1>3
<1>10. ASSUME NEW c, NEW E, NEW slo, RunShed(c, E, slo) PROVE CalibratedInv'
  <2>1. FALSE \in BOOLEAN /\ (IF FALSE THEN RunAdmit(c, E, slo) ELSE RunShed(c, E, slo))
    BY <1>10
  <2> QED
    BY <2>1, <1>3
<1>11. CallsTyped
  BY DEF BaseInv
<1> QED
  BY <1>1, <1>2, <1>4, <1>5, <1>6, <1>7, <1>8, <1>9, <1>10, <1>11, StepCases, Zenon

\* estimator.ts: "Never above the caller's declared ceiling ... and never below
\* it when the ceiling is already small".  A hold computed from an average read
\* before any number of other steps still fits what its own call asked for.
THEOREM CallHoldsCalibrated == CallSpec => []HoldsCalibrated
<1>1. CallInit => CalibratedInv
  BY DEF CallInit, Init, CalibratedInv, Nothing, NoStats
<1>2. BaseInv /\ CalibratedInv => HoldsCalibrated
  BY DEF CalibratedInv, HoldsCalibrated, Fits
<1> QED
  BY <1>1, <1>2, NextCalibrated, BaseInvariant, PTL DEF CallSpec

-----------------------------------------------------------------------------
(* No tokens are lost *)

\* What a budget reads as grows with time, by the accrual at most; by all of it,
\* up to the capacity, once its clock is not ahead.
LEMMA RefillLater ==
  ASSUME NEW b \in Budget, NEW cap \in Nat, NEW rate \in Nat,
         NEW t \in Nat, NEW u \in Nat, t <= u
  PROVE  /\ Refill(b, cap, rate, t) \in Int /\ Refill(b, cap, rate, u) \in Int
         /\ (u - t) * rate \in Nat
         /\ Refill(b, cap, rate, u) <= Refill(b, cap, rate, t) + (u - t) * rate
         /\ (Exists(b) => b.ts <= t) =>
              Refill(b, cap, rate, u) >= Smaller(Refill(b, cap, rate, t) + (u - t) * rate, cap)
<1> DEFINE p == Larger(0, t - b.ts)
           q == Larger(0, u - b.ts)
           g == (u - t) * rate
           P == p * rate
           Q == q * rate
<1>1. b.bal \in Int /\ b.ts \in Nat
  BY DEF Budget
<1>2. p \in Nat /\ q \in Nat /\ u - t \in Nat /\ q <= p + (u - t) /\ p <= q
      /\ (b.ts <= t => q = p + (u - t))
  BY <1>1 DEF Larger
<1>3. P \in Nat /\ Q \in Nat /\ g \in Nat /\ Q <= P + g /\ P <= Q
      /\ (b.ts <= t => Q = P + g)
  <2> HIDE DEF p, q
  <2>1. \A x, y, z \in Nat : x <= y + z => x * rate <= y * rate + z * rate
    OBVIOUS
  <2>2. \A x, y \in Nat : x <= y => x * rate <= y * rate
    OBVIOUS
  <2>3. \A x, y, z \in Nat : x = y + z => x * rate = y * rate + z * rate
    OBVIOUS
  <2> DEFINE d == u - t
  <2>4. d \in Nat /\ q <= p + d /\ (b.ts <= t => q = p + d)
    BY <1>2
  <2> HIDE DEF d
  <2>5. /\ p * rate \in Nat /\ q * rate \in Nat /\ d * rate \in Nat
        /\ q * rate <= p * rate + d * rate /\ p * rate <= q * rate
        /\ (b.ts <= t => q * rate = p * rate + d * rate)
    BY <1>2, <2>1, <2>2, <2>3, <2>4
  <2> QED
    BY <2>5 DEF d
<1>4. /\ Refill(b, cap, rate, t) = IF Exists(b) THEN Smaller(b.bal + P, cap) ELSE cap
      /\ Refill(b, cap, rate, u) = IF Exists(b) THEN Smaller(b.bal + Q, cap) ELSE cap
  BY DEF Refill
<1> HIDE DEF p, q, g, P, Q
<1>5. CASE Exists(b)
  <2> DEFINE A == Refill(b, cap, rate, t)
             B == Refill(b, cap, rate, u)
  <2>1. A = Smaller(b.bal + P, cap) /\ B = Smaller(b.bal + Q, cap)
    BY <1>4, <1>5
  <2> HIDE DEF A, B
  <2>2. A \in Int /\ B \in Int /\ B <= A + g /\ (b.ts <= t => B >= Smaller(A + g, cap))
    BY <1>1, <1>3, <2>1 DEF Smaller
  <2> QED
    BY <1>3, <1>5, <2>2 DEF A, B, g
<1>6. CASE ~Exists(b)
  <2> DEFINE A == Refill(b, cap, rate, t)
             B == Refill(b, cap, rate, u)
  <2>1. A = cap /\ B = cap
    BY <1>4, <1>6
  <2> HIDE DEF A, B
  <2>2. A \in Int /\ B \in Int /\ B <= A + g /\ B >= Smaller(A + g, cap)
    BY <1>3, <2>1 DEF Smaller
  <2> QED
    BY <1>3, <2>2 DEF A, B, g
<1> QED
  BY <1>5, <1>6

\* A balance written at a reading t, whatever the lag, is worth at the present
\* what the level was, changed by what the script changed it by.
LEMMA WrittenLevel ==
  ASSUME TypeOK, NEW t \in Nat, t <= now, NEW x \in Int, NEW y \in Nat, NEW e \in Nat,
         tpm' = [bal |-> Smaller(Refill(tpm, TpmLimit, TpmRate, t) + x, TpmLimit) - y,
                 ts |-> t, exp |-> e],
         now' = now
  PROVE  /\ Level \in Int /\ Level <= TpmLimit /\ Level' \in Int
         /\ Level' >= Smaller(Level + x, TpmLimit) - y
         /\ Level' >= tpm'.bal
<1> DEFINE A == Refill(tpm, TpmLimit, TpmRate, t)
           g == (now - t) * TpmRate
           bal == Smaller(A + x, TpmLimit) - y
<1>1. now \in Nat /\ tpm \in Budget /\ TpmLimit \in Nat /\ TpmRate \in Nat
  BY LimitType, RateAssumption DEF TypeOK
<1>2. A \in Int /\ Level \in Int /\ Level <= TpmLimit /\ g \in Nat /\ Level <= A + g
  BY <1>1, RefillLater, LevelType DEF Level
<1>3. tpm'.bal = bal /\ Level' = Smaller(bal + g, TpmLimit)
  <2>1. Exists(tpm)' /\ tpm'.bal = bal /\ tpm'.ts = t
    BY DEF Exists
  <2>2. Larger(0, now' - tpm'.ts) = now - t
    BY <1>1, <2>1 DEF Larger
  <2>3. Level' = Smaller(tpm'.bal + Larger(0, now' - tpm'.ts) * TpmRate, TpmLimit)
    BY <2>1 DEF Level, Refill
  <2> HIDE DEF bal
  <2> QED
    BY <2>1, <2>2, <2>3
<1> HIDE DEF A, g
<1>4. bal \in Int /\ bal <= TpmLimit /\ bal = Smaller(A + x, TpmLimit) - y
  BY <1>1, <1>2 DEF Smaller
<1> HIDE DEF bal
<1> DEFINE L == Level'
           M == Level
<1>5. L = Smaller(bal + g, TpmLimit) /\ M \in Int /\ M <= TpmLimit /\ M <= A + g
  BY <1>2, <1>3
<1> HIDE DEF L, M
<1>6. L \in Int /\ L >= Smaller(M + x, TpmLimit) - y /\ L >= bal
  BY <1>1, <1>2, <1>4, <1>5 DEF Smaller
<1> QED
  BY <1>2, <1>3, <1>6 DEF L, M

\* Taking the holds in E out and putting the call's own in, anew or again.
LEMMA HeldAfterAdmit ==
  ASSUME TypeOK, NEW E \in SUBSET DOMAIN res, NEW r \in Rids, NEW n \in 0 .. TpmLimit,
         r \in DOMAIN res => res[r] = n,
         res' = With(Without(res, E), r, n)
  PROVE  Held' + Tokens(res, E) + (IF r \in DOMAIN res \ E THEN n ELSE 0) = Held + n
<1>1. DOMAIN res \subseteq Rids /\ res \in [DOMAIN res -> 0 .. TpmLimit] /\ n \in Nat
  BY LimitType DEF TypeOK
<1>2. CASE r \notin DOMAIN res \ E
  <2> DEFINE left == Without(res, E)
  <2>1. /\ DOMAIN left \subseteq Rids /\ left \in [DOMAIN left -> 0 .. TpmLimit]
        /\ r \notin DOMAIN left
    BY <1>1, <1>2 DEF Without
  <2>2. /\ Tokens(left, DOMAIN left) \in Nat /\ Tokens(res, E) \in Nat
        /\ Held = Tokens(left, DOMAIN left) + Tokens(res, E)
    BY HeldFacts
  <2>3. res' = With(left, r, n)
    OBVIOUS
  <2> HIDE DEF left
  <2>4. Tokens(With(left, r, n), DOMAIN With(left, r, n)) = Tokens(left, DOMAIN left) + n
    BY <2>1, HeldAdd
  <2>5. Held' = Tokens(left, DOMAIN left) + n
    BY <2>3, <2>4 DEF Held
  <2> QED
    BY <1>1, <1>2, <2>2, <2>5
<1>3. CASE r \in DOMAIN res \ E
  <2> DEFINE F == E \cup {r}
             left == Without(res, F)
  <2>1. /\ DOMAIN left \subseteq Rids /\ left \in [DOMAIN left -> 0 .. TpmLimit]
        /\ r \notin DOMAIN left
    BY <1>1 DEF Without
  <2>2. F \in SUBSET DOMAIN res
    BY <1>3
  <2>3. /\ Tokens(left, DOMAIN left) \in Nat /\ Tokens(res, F) \in Nat
        /\ Held = Tokens(left, DOMAIN left) + Tokens(res, F)
    BY <2>2, HeldFacts
  <2>4. Tokens(res, F) = Tokens(res, E) + n /\ Tokens(res, E) \in Nat
    <3>1. IsFiniteSet(E) /\ IsFiniteSet({r}) /\ E \cap {r} = {}
      BY <1>3, HeldFacts, FS_Subset, FS_Singleton
    <3>2. Tokens(res, {r}) = n
      BY <1>3, TokensSingle
    <3> QED
      BY <3>1, <3>2, TokensSplit, TokensFinite
  <2>5. With(Without(res, E), r, n) = With(left, r, n)
    BY <1>3 DEF With, Without
  <2> HIDE DEF left, F
  <2>6. Tokens(With(left, r, n), DOMAIN With(left, r, n)) = Tokens(left, DOMAIN left) + n
    BY <2>1, HeldAdd
  <2>7. Held' = Tokens(left, DOMAIN left) + n
    BY <2>5, <2>6 DEF Held
  <2> QED
    BY <1>1, <1>3, <2>3, <2>4, <2>7
<1> QED
  BY <1>2, <1>3

\* A debt is no larger than what was charged, and is paid off before the
\* collections of holds can lapse.
LostInv ==
  /\ Exists(tpm) => tpm.ts <= now
  /\ Level + charged >= 0
  /\ NothingLost
  /\ holdsExp >= 0 =>
       Level + charged + twice + Larger(0, holdsExp + 1 - now) * TpmRate >= TpmLimit

\* The numbers the argument is about.
LEMMA LostTypes ==
  ASSUME BaseInv
  PROVE  /\ now \in Nat /\ tpm \in Budget /\ holdsExp \in Int
         /\ TpmLimit \in Nat /\ TpmRate \in Nat /\ Window \in Nat
         /\ Level \in Int /\ Level <= TpmLimit /\ Held \in Nat /\ charged \in Nat /\ twice \in Nat
BY LimitType, RateAssumption, LevelType, HeldFacts DEF BaseInv, CallsTyped, TypeOK

\* Collections that were just given their lifetime outlive any debt: a budget
\* refills from nothing within the minute, and keys live for two at least.
LEMMA FreshLifetime ==
  ASSUME BaseInv', NEW lease \in LeaseLengths,
         now \in Nat, now' = now, holdsExp' = now + Ttl(lease) \/ holdsExp' = -1,
         (Level + charged >= 0)'
  PROVE  (holdsExp >= 0 =>
            Level + charged + twice + Larger(0, holdsExp + 1 - now) * TpmRate >= TpmLimit)'
<1> SUFFICES ASSUME holdsExp' >= 0
             PROVE  Level' + charged' + twice' + Larger(0, holdsExp' + 1 - now') * TpmRate >= TpmLimit
  OBVIOUS
<1> DEFINE d == Larger(0, holdsExp' + 1 - now')
<1>1. /\ Ttl(lease) \in Nat /\ Ttl(lease) >= 2 * Window /\ Window \in Nat
      /\ TpmRate \in Nat
  BY TtlFacts, RateAssumption
<1>2. d \in Nat /\ d >= Window
  BY <1>1 DEF Larger
<1> HIDE DEF d
<1>3. d * TpmRate \in Nat /\ d * TpmRate >= TpmRate * Window
  <2>1. \A x, y \in Nat : x >= y => x * TpmRate >= TpmRate * y
    BY <1>1
  <2> QED
    BY <1>1, <1>2, <2>1
<1>4. d * TpmRate >= TpmLimit /\ TpmLimit \in Nat
  BY <1>3, LimitType DEF TpmLimit
<1>5. Level' \in Int /\ charged' \in Nat /\ twice' \in Nat /\ Level' + charged' >= 0
  <2>1. (Level \in Int /\ charged \in Nat /\ twice \in Nat)'
    <3>1. TypeOK' /\ CallsTyped'
      BY DEF BaseInv
    <3>2. (Level \in Int)'
      <4>1. tpm' \in Budget /\ now' \in Nat
        BY <3>1 DEF TypeOK
      <4> QED
        BY <4>1, RefillFacts, LimitType, RateAssumption DEF Level
    <3> QED
      BY <3>1, <3>2 DEF TypeOK, CallsTyped
  <2> QED
    BY <2>1
<1> DEFINE g == d * TpmRate
<1>6. g \in Nat /\ g >= TpmLimit
  BY <1>3, <1>4
<1> DEFINE L == Level'
           C == charged'
           W == twice'
<1>7. L \in Int /\ C \in Nat /\ W \in Nat /\ L + C >= 0
  BY <1>5
<1> HIDE DEF g, L, C, W
<1>8. L + C + W + g >= TpmLimit
  BY <1>4, <1>6, <1>7
<1> QED
  BY <1>8 DEF g, d, L, C, W

\* An admission moves tokens from the balance to a hold; if the hold was there
\* already they are counted as taken twice.
LEMMA AdmitLost ==
  ASSUME BaseInv, BaseInv', LostInv, NEW c, NEW E, NEW slo, RunAdmit(c, E, slo)
  PROVE  LostInv'
<1> DEFINE t == calls[c].t
           n == calls[c].n
           r == calls[c].rid
           lease == calls[c].lease
           T == Tokens(res, E)
           d == IF r \in DOMAIN res \ E THEN n ELSE 0
<1>1. /\ Own(c) /\ r \in Rids /\ t \in Nat /\ t <= now /\ now \in Nat
      /\ n \in Nat /\ lease \in LeaseLengths
  BY Arguments DEF RunAdmit
<1>2. Admit(r, t, n, slo, lease, E) /\ E \in ReclaimSets(t) /\ twice' = twice + d
  BY DEF RunAdmit
<1>3. /\ ~(n > TpmLimit) /\ ~(TpmAfterReclaim(t, E) < n)
      /\ tpm' = [bal |-> TpmAfterReclaim(t, E) - n, ts |-> t, exp |-> now + Ttl(lease)]
      /\ now' = now /\ charged' = charged
      /\ res' = With(Without(res, E), r, n)
      /\ holdsExp' = now + Ttl(lease) \/ holdsExp' = -1
  BY <1>2, DecisionAdmit DEF Admit, Persist
<1>4. E \in SUBSET DOMAIN res
  BY <1>2, ReclaimFacts DEF BaseInv, IdsInv
<1>5. r \in DOMAIN res => res[r] = n
  BY <1>1 DEF Own
<1> HIDE DEF t, n, r, lease
<1>6. /\ TypeOK /\ TpmLimit \in Nat /\ n \in 0 .. TpmLimit /\ Level \in Int /\ Level <= TpmLimit
      /\ Held \in Nat /\ charged \in Nat /\ twice \in Nat
  BY <1>1, <1>3, LostTypes DEF BaseInv
<1>7. Held' + T + d = Held + n /\ Held' \in Nat /\ T \in Nat /\ d \in Nat
  <2>1. Held' + T + d = Held + n
    BY <1>1, <1>3, <1>4, <1>5, <1>6, HeldAfterAdmit
  <2>2. T \in Nat
    BY <1>4, <1>6, HeldFacts
  <2>3. Held' \in Nat
    <3>1. IsFiniteSet(DOMAIN res')
      BY RidsAssumption, FS_Subset DEF BaseInv, TypeOK
    <3> QED
      BY <3>1, TokensFinite DEF Held
  <2> QED
    BY <1>1, <2>1, <2>2, <2>3
<1>8. Ttl(lease) \in Nat /\ now + Ttl(lease) \in Nat
  BY <1>1, TtlFacts
<1>9. tpm' = [bal |-> Smaller(Refill(tpm, TpmLimit, TpmRate, t) + T, TpmLimit) - n,
              ts |-> t, exp |-> now + Ttl(lease)]
  BY <1>3 DEF TpmAfterReclaim
<1>10. n <= Held'
  <2>1. r \in DOMAIN res' /\ res'[r] = n
    BY <1>3 DEF With
  <2>2. IsFiniteSet(DOMAIN res') /\ IsFiniteSet(DOMAIN res' \ {r}) /\ IsFiniteSet({r})
    BY RidsAssumption, FS_Subset, FS_Singleton DEF BaseInv, TypeOK
  <2> DEFINE S == DOMAIN res' \ {r}
  <2>3. {r} \cap S = {} /\ {r} \cup S = DOMAIN res'
    BY <2>1
  <2> HIDE DEF S
  <2>4. Tokens(res', {r}) = n
    BY <1>6, <2>1, TokensSingle
  <2>5. Tokens(res', S) \in Nat
    BY <2>2, TokensFinite DEF S
  <2>6. Tokens(res', {r} \cup S) = Tokens(res', {r}) + Tokens(res', S)
    BY <2>2, <2>3, TokensSplit DEF S
  <2> QED
    BY <1>1, <2>3, <2>4, <2>5, <2>6 DEF Held
<1> HIDE DEF T, d
<1>11. /\ Level' \in Int
       /\ Level' >= Smaller(Level + T, TpmLimit) - n
       /\ Level' >= tpm'.bal
  <2>1. TypeOK /\ t \in Nat /\ t <= now /\ T \in Int /\ n \in Nat /\ now' = now
    BY <1>1, <1>3, <1>6, <1>7
  <2> QED
    BY <1>8, <1>9, <2>1, WrittenLevel
<1>12. tpm'.bal >= 0
  <2>1. TpmAfterReclaim(t, E) \in Int
    BY <1>1, <1>4, <1>6, AdmissionBalance DEF TypeOK
  <2> QED
    BY <1>1, <1>3, <2>1
<1>13. (Level + charged >= 0)'
  <2>1. tpm'.bal \in Int
    BY DEF BaseInv, TypeOK, Budget
  <2> DEFINE L == Level'
             b == tpm'.bal
  <2>2. L \in Int /\ b \in Int /\ b >= 0 /\ L >= b
    BY <1>11, <1>12, <2>1
  <2> HIDE DEF L, b
  <2>3. L + charged >= 0
    BY <1>6, <2>2
  <2> QED
    BY <1>3, <2>3 DEF L
<1>14. NothingLost'
  <2> DEFINE L == Level'
             M == Level
             H == Held'
  <2>1. M + Held + charged + twice >= TpmLimit
    BY DEF LostInv, NothingLost, Level
  <2>2. L \in Int /\ M \in Int /\ H \in Nat /\ T \in Nat /\ d \in Nat
    BY <1>6, <1>7, <1>11
  <2>3. L >= Smaller(M + T, TpmLimit) - n /\ H + T + d = Held + n /\ n <= H
    BY <1>7, <1>10, <1>11
  <2> HIDE DEF L, M, H
  <2>4. L + H + charged + (twice + d) >= TpmLimit
    BY <1>1, <1>6, <2>1, <2>2, <2>3 DEF Smaller
  <2> QED
    BY <1>2, <1>3, <2>4 DEF NothingLost, Level, L, H
<1>15. (Exists(tpm) => tpm.ts <= now)'
  BY <1>1, <1>3
<1>16. (holdsExp >= 0 =>
          Level + charged + twice + Larger(0, holdsExp + 1 - now) * TpmRate >= TpmLimit)'
  BY <1>1, <1>3, <1>13, FreshLifetime
<1> QED
  BY <1>13, <1>14, <1>15, <1>16 DEF LostInv

\* A call that is turned away moves swept holds to the balance.
LEMMA ShedLost ==
  ASSUME BaseInv, BaseInv', LostInv, NEW c, NEW E, NEW slo, RunShed(c, E, slo)
  PROVE  LostInv'
<1> DEFINE t == calls[c].t
           n == calls[c].n
           lease == calls[c].lease
           T == Tokens(res, E)
<1>1. t \in Nat /\ t <= now /\ now \in Nat /\ lease \in LeaseLengths
  BY Arguments DEF RunShed
<1>2. Shed(t, n, slo, lease, E) /\ E \in ReclaimSets(t) /\ twice' = twice
  BY DEF RunShed
<1>3. /\ tpm' = [bal |-> TpmAfterReclaim(t, E), ts |-> t, exp |-> now + Ttl(lease)]
      /\ now' = now /\ charged' = charged
      /\ res' = Without(res, E)
      /\ holdsExp' = now + Ttl(lease) \/ holdsExp' = -1
  BY <1>2 DEF Shed, Persist
<1>4. E \in SUBSET DOMAIN res
  BY <1>2, ReclaimFacts DEF BaseInv, IdsInv
<1> HIDE DEF t, n, lease
<1>5. /\ TypeOK /\ TpmLimit \in Nat /\ Level \in Int /\ Level <= TpmLimit
      /\ Held \in Nat /\ charged \in Nat /\ twice \in Nat
  BY LostTypes DEF BaseInv
<1>6. Held = Held' + T /\ Held' \in Nat /\ T \in Nat
  BY <1>3, <1>4, <1>5, HeldFacts DEF Held
<1>7. Ttl(lease) \in Nat /\ now + Ttl(lease) \in Nat
  BY <1>1, TtlFacts
<1>8. TpmAfterReclaim(t, E) \in Int /\ TpmAfterReclaim(t, E) = TpmAfterReclaim(t, E) - 0
  BY <1>1, <1>4, <1>5, AdmissionBalance DEF TypeOK
<1>9. tpm' = [bal |-> Smaller(Refill(tpm, TpmLimit, TpmRate, t) + T, TpmLimit) - 0,
              ts |-> t, exp |-> now + Ttl(lease)]
  BY <1>3, <1>8 DEF TpmAfterReclaim
<1> HIDE DEF T
<1>10. /\ Level' \in Int
       /\ Level' >= Smaller(Level + T, TpmLimit) - 0
  BY <1>1, <1>3, <1>5, <1>6, <1>7, <1>9, WrittenLevel
<1>11. (Level + charged >= 0)' /\ NothingLost'
  <2> DEFINE L == Level'
             M == Level
             H == Held'
  <2>1. M + Held + charged + twice >= TpmLimit /\ M + charged >= 0
    BY DEF LostInv, NothingLost, Level
  <2>2. L \in Int /\ M \in Int /\ H \in Nat /\ T \in Nat
    BY <1>5, <1>6, <1>10
  <2>3. L >= Smaller(M + T, TpmLimit) - 0 /\ Held = H + T
    BY <1>6, <1>10
  <2> HIDE DEF L, M, H
  <2>4. L + H + charged + twice >= TpmLimit /\ L + charged >= 0
    BY <1>5, <2>1, <2>2, <2>3 DEF Smaller
  <2> QED
    BY <1>2, <1>3, <2>4 DEF NothingLost, Level, L, H
<1>12. (Exists(tpm) => tpm.ts <= now)'
  BY <1>1, <1>3
<1>13. (holdsExp >= 0 =>
          Level + charged + twice + Larger(0, holdsExp + 1 - now) * TpmRate >= TpmLimit)'
  BY <1>1, <1>3, <1>11, FreshLifetime
<1> QED
  BY <1>11, <1>12, <1>13 DEF LostInv

\* A commit charges the balance for the usage and gives the hold back to it.
LEMMA SettleLost ==
  ASSUME BaseInv, BaseInv', LostInv, NEW r \in DOMAIN told, NEW t \in Readings,
         NEW prompt \in Nat, NEW output \in Nat, NEW service \in Nat, NEW lease \in LeaseLengths,
         SettleStep(r, t, prompt, output, service, lease)
  PROVE  LostInv'
<1> DEFINE actual == prompt + output
           held   == IF r \in DOMAIN res THEN res[r] ELSE 0
           g      == Larger(0, holdsExp + 1 - now) * TpmRate
<1>1. t \in Nat /\ t <= now /\ now \in Nat /\ r \in Rids /\ actual \in Nat
  BY ReadingFacts DEF BaseInv, CallsTyped, TypeOK
<1>2. /\ TypeOK /\ TpmLimit \in Nat /\ Level \in Int /\ Level <= TpmLimit
      /\ Held \in Nat /\ charged \in Nat /\ twice \in Nat
      /\ holdsExp \in Int /\ TpmRate \in Nat
  BY LostTypes DEF BaseInv
<1>3. /\ now' = now /\ twice' = twice
      /\ res' = Without(res, {r})
      /\ tpm' = [bal |-> Smaller(Refill(tpm, TpmLimit, TpmRate, t) + (held - actual), TpmLimit),
                 ts |-> t, exp |-> now + Ttl(lease)]
      /\ charged' = charged + actual
      /\ holdsExp' = -1 \/ holdsExp' = holdsExp
  BY DEF SettleStep, Settle, CurrentBalance, Refund
<1>4. held \in Nat /\ Held = Held' + held /\ Held' \in Nat
  <2>1. CASE r \in DOMAIN res
    <3>1. {r} \in SUBSET DOMAIN res /\ res[r] \in 0 .. TpmLimit
      BY <1>2, <2>1 DEF TypeOK
    <3>2. Tokens(res, {r}) = res[r] /\ res[r] \in Nat
      BY <1>2, <3>1, TokensSingle
    <3> QED
      BY <1>2, <1>3, <2>1, <3>1, <3>2, HeldFacts DEF Held
  <2>2. CASE r \notin DOMAIN res
    <3>1. DOMAIN res' = DOMAIN res /\ \A x \in DOMAIN res : res'[x] = res[x]
      BY <1>3, <2>2 DEF Without
    <3>2. Tokens(res', DOMAIN res) = Tokens(res, DOMAIN res)
      BY <3>1, TokensSame
    <3> QED
      BY <1>2, <2>2, <3>1, <3>2 DEF Held
  <2> QED
    BY <2>1, <2>2
<1>5. g \in Nat
  BY <1>1, <1>2 DEF Larger
<1>6. now + Ttl(lease) \in Nat
  BY <1>1, TtlFacts
<1> HIDE DEF actual, held, g
<1> DEFINE x == held - actual
<1>7. x \in Int /\ 0 \in Nat
  BY <1>1, <1>4
<1>8. tpm' = [bal |-> Smaller(Refill(tpm, TpmLimit, TpmRate, t) + x, TpmLimit) - 0,
              ts |-> t, exp |-> now + Ttl(lease)]
  <2>1. Refill(tpm, TpmLimit, TpmRate, t) \in Int
    BY <1>1, <1>2, RefillFacts, RateAssumption DEF TypeOK
  <2> HIDE DEF x
  <2>2. \A y \in Int : Smaller(y + x, TpmLimit) - 0 = Smaller(y + x, TpmLimit)
    BY <1>2, <1>7 DEF Smaller
  <2> QED
    BY <1>3, <2>1, <2>2 DEF x
<1> HIDE DEF x
<1>9. Level' \in Int /\ Level' >= Smaller(Level + x, TpmLimit) - 0
  BY <1>1, <1>2, <1>3, <1>6, <1>7, <1>8, WrittenLevel
<1> DEFINE L == Level'
           M == Level
           H == Held'
<1>10. /\ M + Held + charged + twice >= TpmLimit /\ M + charged >= 0
       /\ holdsExp >= 0 => M + charged + twice + g >= TpmLimit
  BY DEF LostInv, NothingLost, Level, g
<1>11. /\ L \in Int /\ M \in Int /\ M <= TpmLimit /\ H \in Nat
       /\ L >= Smaller(M + x, TpmLimit) - 0 /\ Held = H + held /\ held \in Nat
  BY <1>2, <1>4, <1>9
<1> HIDE DEF L, M, H
<1>12. /\ L + H + (charged + actual) + twice >= TpmLimit
       /\ L + (charged + actual) >= 0
       /\ holdsExp >= 0 => L + (charged + actual) + twice + g >= TpmLimit
  <2>1. L >= TpmLimit \/ L >= M + held - actual
    BY <1>1, <1>2, <1>11 DEF Smaller, x
  <2> QED
    BY <1>1, <1>2, <1>5, <1>10, <1>11, <2>1
<1>13. NothingLost' /\ (Level + charged >= 0)'
  BY <1>3, <1>12 DEF NothingLost, Level, L, H
<1>14. (Exists(tpm) => tpm.ts <= now)'
  BY <1>1, <1>3
<1>15. (holdsExp >= 0 =>
          Level + charged + twice + Larger(0, holdsExp + 1 - now) * TpmRate >= TpmLimit)'
  <2>1. CASE holdsExp' = -1
    BY <2>1
  <2>2. CASE holdsExp' = holdsExp
    BY <1>3, <1>12, <2>2 DEF L, g
  <2> QED
    BY <1>3, <2>1, <2>2
<1> QED
  BY <1>13, <1>14, <1>15 DEF LostInv

\* With each tick a debt shrinks by the rate; by the time the collections of
\* holds lapse, none is left.
LEMMA TickLost ==
  ASSUME BaseInv, LostInv, TimePasses
  PROVE  LostInv'
<1>1. /\ now \in Nat /\ tpm \in Budget /\ holdsExp \in Int
      /\ TpmLimit \in Nat /\ TpmRate \in Nat /\ Level \in Int /\ Level <= TpmLimit
      /\ Held \in Nat /\ charged \in Nat /\ twice \in Nat
  BY LostTypes
<1>2. /\ now' = now + 1 /\ twice' = twice /\ charged' = charged
      /\ tpm' = tpm \/ tpm' = NoBudget
  BY DEF TimePasses, Tick, callVars
<1>3. \/ /\ res' = res /\ holdsExp' = holdsExp /\ ~(holdsExp >= 0 /\ holdsExp < now + 1)
      \/ /\ DOMAIN res' = {} /\ holdsExp' = -1 /\ holdsExp >= 0 /\ holdsExp < now + 1
  BY TickEffect, Zenon
<1>4. Level' \in Int /\ Level' >= Smaller(Level + TpmRate, TpmLimit)
  <2>1. CASE tpm' = tpm
    <3> DEFINE u == now + 1
    <3>1. u \in Nat /\ now <= u /\ (u - now) * TpmRate = TpmRate
      BY <1>1
    <3>2. Exists(tpm) => tpm.ts <= now
      BY DEF LostInv
    <3>3. Level' = Refill(tpm, TpmLimit, TpmRate, u)
      BY <1>2, <2>1 DEF Level
    <3> HIDE DEF u
    <3>4. /\ Refill(tpm, TpmLimit, TpmRate, u) \in Int
          /\ Refill(tpm, TpmLimit, TpmRate, u)
               >= Smaller(Refill(tpm, TpmLimit, TpmRate, now) + TpmRate, TpmLimit)
      BY <1>1, <3>1, <3>2, RefillLater
    <3> QED
      BY <3>3, <3>4 DEF Level
  <2>2. CASE tpm' = NoBudget
    <3>1. Level' = TpmLimit
      BY <2>2 DEF Level, Refill, Exists, NoBudget
    <3> QED
      BY <1>1, <3>1 DEF Smaller
  <2> QED
    BY <1>2, <2>1, <2>2
<1> DEFINE L == Level'
           M == Level
           p == Larger(0, holdsExp + 1 - now)
           q == Larger(0, holdsExp + 1 - (now + 1))
           P == p * TpmRate
           Q == q * TpmRate
<1>5. L \in Int /\ L >= Smaller(M + TpmRate, TpmLimit) /\ M \in Int /\ M <= TpmLimit
  BY <1>1, <1>4
<1>6. /\ M + Held + charged + twice >= TpmLimit /\ M + charged >= 0
      /\ holdsExp >= 0 => M + charged + twice + P >= TpmLimit
  BY DEF LostInv, NothingLost, Level
<1>7. /\ P \in Nat /\ Q \in Nat /\ P <= Q + TpmRate
      /\ holdsExp < now + 1 => P <= TpmRate
  <2>1. p \in Nat /\ q \in Nat /\ p <= q + 1 /\ (holdsExp < now + 1 => p <= 0 + 1)
    BY <1>1 DEF Larger
  <2> HIDE DEF p, q
  <2>2. \A x, y \in Nat : x <= y + 1 => x * TpmRate <= y * TpmRate + TpmRate
    BY <1>1
  <2>3. 0 * TpmRate + TpmRate = TpmRate
    BY <1>1
  <2>4. P \in Nat /\ Q \in Nat
    BY <1>1, <2>1
  <2>5. P <= Q + TpmRate
    BY <2>1, <2>2
  <2>6. holdsExp < now + 1 => P <= 0 * TpmRate + TpmRate
    BY <2>1, <2>2
  <2> QED
    BY <2>3, <2>4, <2>5, <2>6
<1> HIDE DEF L, M, p, q, P, Q
<1>8. /\ L + Held + charged + twice >= TpmLimit
      /\ L + charged >= 0
      /\ holdsExp >= 0 => L + charged + twice + Q >= TpmLimit
      /\ holdsExp >= 0 /\ holdsExp < now + 1 => L + charged + twice >= TpmLimit
  <2>1. L >= TpmLimit \/ L >= M + TpmRate
    BY <1>1, <1>5 DEF Smaller
  <2> QED
    BY <1>1, <1>5, <1>6, <1>7, <2>1
<1>9. (Level + charged >= 0)'
  BY <1>2, <1>8 DEF L
<1>10. NothingLost'
  <2>1. CASE res' = res
    <3>1. Held' = Held
      BY <2>1 DEF Held
    <3> QED
      BY <1>2, <1>8, <3>1 DEF NothingLost, Level, L
  <2>2. CASE DOMAIN res' = {} /\ holdsExp >= 0 /\ holdsExp < now + 1
    <3>1. Held' = 0
      BY <2>2, TokensEmpty DEF Held
    <3>2. L + 0 + charged + twice >= TpmLimit
      BY <1>1, <1>5, <1>8, <2>2
    <3> QED
      BY <1>2, <3>1, <3>2 DEF NothingLost, Level, L
  <2> QED
    BY <1>3, <2>1, <2>2
<1>11. (holdsExp >= 0 =>
          Level + charged + twice + Larger(0, holdsExp + 1 - now) * TpmRate >= TpmLimit)'
  <2>1. CASE holdsExp' = -1
    BY <2>1
  <2>2. CASE holdsExp' = holdsExp
    BY <1>2, <1>8, <2>2 DEF L, q, Q
  <2> QED
    BY <1>3, <2>1, <2>2
<1>12. (Exists(tpm) => tpm.ts <= now)'
  <2>1. CASE tpm' = tpm
    BY <1>1, <1>2, <2>1 DEF LostInv, Budget
  <2>2. CASE tpm' = NoBudget
    BY <2>2 DEF Exists, NoBudget
  <2> QED
    BY <1>2, <2>1, <2>2
<1> QED
  BY <1>9, <1>10, <1>11, <1>12 DEF LostInv

\* What the admission state says, no client-side step changes.
LEMMA QuietLost ==
  ASSUME LostInv, UNCHANGED vars, twice' = twice
  PROVE  LostInv'
<1>1. UNCHANGED <<now, tpm, res, holdsExp, charged, twice>>
  BY DEF vars, redisVars, history
<1> QED
  BY <1>1 DEF LostInv, NothingLost, Level, Held, Exists

LEMMA NextLost == BaseInv /\ BaseInv' /\ LostInv /\ [CallNext]_allVars => LostInv'
<1> SUFFICES ASSUME BaseInv, BaseInv', LostInv, [CallNext]_allVars PROVE LostInv'
  OBVIOUS
<1>1. ASSUME NEW c, Begin(c) PROVE LostInv'
  BY <1>1, QuietLost DEF Begin
<1>2. ASSUME NEW c, Send(c) PROVE LostInv'
  BY <1>2, QuietLost DEF Send
<1>3. ASSUME NEW c, Answer(c) \/ Abandon(c) PROVE LostInv'
  BY <1>3, QuietLost DEF Answer, Abandon
<1>4. CASE Break
  BY <1>4, QuietLost DEF Break
<1>5. CASE UNCHANGED allVars
  BY <1>5, QuietLost DEF allVars, callVars
<1>6. ASSUME NEW r \in DOMAIN told, NEW t \in Readings, NEW prompt \in Nat, NEW output \in Nat,
             NEW service \in Nat, NEW lease \in LeaseLengths,
             SettleStep(r, t, prompt, output, service, lease)
      PROVE  LostInv'
  BY <1>6, SettleLost
<1>7. ASSUME NEW c, NEW E, NEW slo, RunAdmit(c, E, slo) PROVE LostInv'
  BY <1>7, AdmitLost
<1>8. ASSUME NEW c, NEW E, NEW slo, RunShed(c, E, slo) PROVE LostInv'
  BY <1>8, ShedLost
<1>9. CallsTyped
  BY DEF BaseInv
<1> QED
  BY <1>1, <1>2, <1>3, <1>4, <1>5, <1>6, <1>7, <1>8, <1>9, StepCases, TickLost, Zenon

\* The tenant's tokens are all accounted for: a budget's worth is on the balance,
\* held, charged for or taken twice, however readings lag, scripts are resent
\* or abandoned, holds lapse with their key and debts with theirs.
THEOREM CallsLoseNothing == CallSpec => []NothingLost
<1>1. CallInit => LostInv
  <2> SUFFICES ASSUME CallInit PROVE LostInv
    OBVIOUS
  <2>1. /\ ~Exists(tpm) /\ DOMAIN res = {} /\ holdsExp = -1 /\ charged = 0 /\ twice = 0
    BY DEF CallInit, Init, NoBudget, Exists, Nothing
  <2>2. Held = 0 /\ Level = TpmLimit /\ TpmLimit \in Nat
    BY <2>1, TokensEmpty, LimitType DEF Held, Level, Refill
  <2> QED
    BY <2>1, <2>2 DEF LostInv, NothingLost, Level
<1>2. LostInv => NothingLost
  BY DEF LostInv
<1> QED
  BY <1>1, <1>2, NextLost, BaseInvariant, PTL DEF CallSpec

-----------------------------------------------------------------------------
(* What a caller was told *)

\* No lease is longer than the life any policy's calls give the collections: so
\* it is with one lease length, and with any two of which the longer is at most
\* twice the shorter and a minute.
LeasesCovered == \A l, m \in LeaseLengths : l <= Ttl(m)

\* Until a lease ends or is settled, the hold is there, to the token.
Honoured(r, n, until) ==
  charges[r] = 0 /\ now < until => r \in DOMAIN leases /\ res[r] = n /\ leases[r] = until

\* The collections outlive their leases; and what a client was told is honoured,
\* as is what a reply on its way will tell it.
HonourInv ==
  /\ \A r \in DOMAIN leases : leases[r] <= holdsExp
  /\ \A r \in DOMAIN leases, m \in LeaseLengths : leases[r] <= now + Ttl(m)
  /\ \A r \in DOMAIN told : Honoured(r, told[r].n, told[r].until)
  /\ \A c \in DOMAIN calls : calls[c].phase = "done" /\ calls[c].ok =>
       Honoured(calls[c].rid, calls[c].n, LeaseUntil(calls[c]))

\* Types of what the argument compares.
LEMMA HonourTypes ==
  ASSUME BaseInv
  PROVE  /\ now \in Nat /\ holdsExp \in Int
         /\ DOMAIN leases = DOMAIN res
         /\ \A r \in DOMAIN leases : leases[r] \in Nat
         /\ \A m \in LeaseLengths : Ttl(m) \in Nat
         /\ \A r \in DOMAIN told : r \in Rids /\ told[r].until \in Nat /\ told[r].n \in Nat
         /\ \A c \in DOMAIN calls : LeaseUntil(calls[c]) \in Nat
         /\ \A c \in DOMAIN calls : InFlight(c) =>
              calls[c].rid \in Rids /\ calls[c].rid \notin DOMAIN told
<1>1. now \in Nat /\ holdsExp \in Int /\ \A r \in DOMAIN leases : leases[r] \in Nat
  BY DEF BaseInv, TypeOK
<1>2. \A m \in LeaseLengths : Ttl(m) \in Nat
  BY TtlFacts
<1>3. \A r \in DOMAIN told : r \in Rids /\ told[r].until \in Nat /\ told[r].n \in Nat
  BY DEF BaseInv, CallsTyped
<1>4. \A c \in DOMAIN calls : LeaseUntil(calls[c]) \in Nat
  <2>1. \A c \in DOMAIN calls : calls[c].t \in Nat /\ calls[c].lease \in Nat
    BY PolicyAssumption DEF BaseInv, CallsTyped, CallRecord
  <2> QED
    BY <2>1 DEF LeaseUntil
<1>5. \A c \in DOMAIN calls : InFlight(c) => calls[c].rid \in Rids /\ calls[c].rid \notin DOMAIN told
  BY DEF BaseInv, IdsInv, Own, CallsTyped
<1> QED
  BY <1>1, <1>2, <1>3, <1>4, <1>5 DEF BaseInv, IdsInv

\* A promise stays honoured by a step that leaves a running lease alone.
LEMMA HonouredKept ==
  ASSUME NEW r, NEW n, NEW until \in Nat, Honoured(r, n, until),
         now \in Nat, now' \in Nat, now' >= now,
         charges'[r] = 0 => charges[r] = 0,
         r \in DOMAIN leases /\ now' < leases[r] =>
           r \in DOMAIN leases' /\ leases'[r] = leases[r] /\ res'[r] = res[r]
  PROVE  charges'[r] = 0 /\ now' < until =>
           r \in DOMAIN leases' /\ res'[r] = n /\ leases'[r] = until
<1> SUFFICES ASSUME charges'[r] = 0, now' < until
             PROVE  r \in DOMAIN leases' /\ res'[r] = n /\ leases'[r] = until
  OBVIOUS
<1>1. now < until
  OBVIOUS
<1>2. r \in DOMAIN leases /\ res[r] = n /\ leases[r] = until
  BY <1>1 DEF Honoured
<1> QED
  BY <1>2

\* Scripts leave every lease that still runs alone, but for their own.
LEMMA RunHonours ==
  ASSUME LeasesCovered, BaseInv, HonourInv, NEW c, NEW E, NEW slo, NEW ok \in BOOLEAN,
         IF ok THEN RunAdmit(c, E, slo) ELSE RunShed(c, E, slo)
  PROVE  HonourInv'
<1> DEFINE k   == calls[c]
           own == IF ok THEN {k.rid} ELSE {}
<1>1. /\ DOMAIN calls' = DOMAIN calls /\ c \in DOMAIN calls
      /\ \A d \in DOMAIN calls \ {c} : calls'[d] = calls[d]
      /\ calls'[c] = [calls[c] EXCEPT !.phase = "done", !.ok = ok]
      /\ calls[c] \in CallRecord
      /\ UNCHANGED <<used, told, asked, longest>>
  BY RunBase
<1>2. /\ k.rid \in Rids /\ k.rid \notin DOMAIN told /\ InFlight(c)
      /\ k.t \in Nat /\ k.t <= now /\ now \in Nat /\ k.lease \in LeaseLengths
  BY Arguments DEF RunAdmit, RunShed
<1>3. /\ calls'[c].rid = k.rid /\ calls'[c].n = k.n /\ calls'[c].ok = ok
      /\ LeaseUntil(calls'[c]) = LeaseUntil(k)
  BY <1>1 DEF CallRecord, LeaseUntil
<1>4. /\ now' = now /\ charges' = charges
      /\ \A x \in E : leases[x] <= k.t
      /\ \A x \in DOMAIN leases' : \/ x \in DOMAIN leases /\ leases'[x] = leases[x]
                                   \/ leases'[x] = LeaseUntil(k)
      /\ \A x \in DOMAIN leases \ E :
           x # k.rid => x \in DOMAIN leases' /\ leases'[x] = leases[x] /\ res'[x] = res[x]
      /\ \A x \in own : x \in DOMAIN leases' /\ leases'[x] = LeaseUntil(k) /\ res'[x] = k.n
      /\ DOMAIN leases' = {} \/ holdsExp' = now + Ttl(k.lease)
  <2>1. DOMAIN leases = DOMAIN res
    BY HonourTypes
  <2>2. CASE ok
    <3>1. RunAdmit(c, E, slo)
      BY <2>2
    <3>2. /\ now' = now /\ charges' = charges
          /\ \A x \in E : leases[x] <= k.t
          /\ DOMAIN leases' = (DOMAIN leases \ E) \cup {k.rid}
          /\ leases'[k.rid] = k.t + k.lease /\ res'[k.rid] = k.n
          /\ \A x \in DOMAIN res \ E : x # k.rid => leases'[x] = leases[x]
          /\ \A x \in DOMAIN res \ E : x # k.rid => res'[x] = res[x]
          /\ holdsExp' = now + Ttl(k.lease)
      BY <3>1, AdmitEffect, Zenon
    <3>3. own = {k.rid}
      BY <2>2
    <3> HIDE DEF k, own
    <3> QED
      BY <2>1, <3>2, <3>3 DEF LeaseUntil
  <2>3. CASE ~ok
    <3>1. RunShed(c, E, slo)
      BY <2>3
    <3>2. /\ now' = now /\ charges' = charges
          /\ \A x \in E : leases[x] <= k.t
          /\ DOMAIN leases' = DOMAIN leases \ E
          /\ \A x \in DOMAIN res \ E : leases'[x] = leases[x]
          /\ \A x \in DOMAIN res \ E : res'[x] = res[x]
          /\ holdsExp' = IF DOMAIN leases' = {} THEN -1 ELSE now + Ttl(k.lease)
      BY <3>1, ShedEffect, Zenon
    <3>3. own = {}
      BY <2>3
    <3> HIDE DEF k, own
    <3> QED
      BY <2>1, <3>2, <3>3
  <2> QED
    BY <2>2, <2>3
<1>5. \A r \in DOMAIN leases : leases[r] \in Nat
  BY HonourTypes
<1>6. LeaseUntil(k) \in Nat /\ \A m \in LeaseLengths : LeaseUntil(k) <= now + Ttl(m)
  <2>1. LeaseUntil(k) = k.t + k.lease /\ k.lease \in Nat
    BY <1>2, PolicyAssumption DEF LeaseUntil
  <2>2. \A m \in LeaseLengths : k.lease <= Ttl(m) /\ Ttl(m) \in Nat
    BY <1>2, HonourTypes DEF LeasesCovered
  <2> HIDE DEF k
  <2> QED
    BY <1>2, <2>1, <2>2
<1>7. k.rid \in own <=> ok
  OBVIOUS
<1> HIDE DEF k, own
<1>8. \A x \in DOMAIN leases', m \in LeaseLengths : leases'[x] <= now + Ttl(m)
  BY <1>4, <1>6 DEF HonourInv
<1>9. \A x \in DOMAIN leases' : leases'[x] <= holdsExp'
  BY <1>2, <1>4, <1>8
<1>10. ASSUME NEW r, r # k.rid, NEW n, NEW until \in Nat, Honoured(r, n, until)
       PROVE  charges'[r] = 0 /\ now' < until =>
                r \in DOMAIN leases' /\ res'[r] = n /\ leases'[r] = until
  <2>1. r \in DOMAIN leases /\ now < leases[r] => r \notin E
    BY <1>2, <1>4, <1>5
  <2>2. r \in DOMAIN leases /\ now' < leases[r] =>
          r \in DOMAIN leases' /\ leases'[r] = leases[r] /\ res'[r] = res[r]
    BY <1>4, <1>10, <2>1
  <2>3. now' \in Nat /\ now' >= now /\ (charges'[r] = 0 => charges[r] = 0)
    BY <1>2, <1>4
  <2> QED
    BY <1>2, <1>10, <2>2, <2>3, HonouredKept
<1>11. \A r \in DOMAIN told :
         charges'[r] = 0 /\ now' < told[r].until =>
           r \in DOMAIN leases' /\ res'[r] = told[r].n /\ leases'[r] = told[r].until
  <2>1. \A r \in DOMAIN told : r # k.rid /\ told[r].until \in Nat
    BY <1>2, HonourTypes
  <2>2. \A r \in DOMAIN told : Honoured(r, told[r].n, told[r].until)
    BY DEF HonourInv
  <2> TAKE r \in DOMAIN told
  <2>3. r # k.rid /\ told[r].until \in Nat /\ Honoured(r, told[r].n, told[r].until)
    BY <2>1, <2>2
  <2> QED
    BY <1>10, <2>3
<1>12. ASSUME NEW d \in DOMAIN calls, calls'[d].phase = "done", calls'[d].ok,
              charges'[calls'[d].rid] = 0, now' < LeaseUntil(calls'[d])
       PROVE  /\ calls'[d].rid \in DOMAIN leases'
              /\ res'[calls'[d].rid] = calls'[d].n
              /\ leases'[calls'[d].rid] = LeaseUntil(calls'[d])
  <2>1. CASE d = c
    <3>1. ok
      BY <1>3, <1>12, <2>1
    <3> QED
      BY <1>3, <1>4, <1>7, <2>1, <3>1
  <2>2. CASE d # c
    <3>1. calls'[d] = calls[d] /\ calls[d].phase = "done" /\ calls[d].ok
      BY <1>1, <1>12, <2>2
    <3>2. InFlight(d) /\ calls[d].rid # k.rid
      BY <1>1, <1>2, <2>2, <3>1 DEF InFlight, BaseInv, IdsInv, k
    <3>3. LeaseUntil(calls[d]) \in Nat
      BY HonourTypes
    <3>4. Honoured(calls[d].rid, calls[d].n, LeaseUntil(calls[d]))
      BY <3>1 DEF HonourInv
    <3>5. charges'[calls[d].rid] = 0 /\ now' < LeaseUntil(calls[d]) =>
            /\ calls[d].rid \in DOMAIN leases' /\ res'[calls[d].rid] = calls[d].n
            /\ leases'[calls[d].rid] = LeaseUntil(calls[d])
      BY <1>10, <3>2, <3>3, <3>4
    <3> QED
      BY <1>12, <3>1, <3>5, Zenon
  <2> QED
    BY <2>1, <2>2
<1> QED
  <2>1. \A r \in DOMAIN told' :
          charges'[r] = 0 /\ now' < told'[r].until =>
            r \in DOMAIN leases' /\ res'[r] = told'[r].n /\ leases'[r] = told'[r].until
    <3>1. told' = told
      BY <1>1
    <3> QED
      BY <1>11, <3>1, Zenon
  <2> QED
    BY <1>1, <1>4, <1>8, <1>9, <1>12, <2>1 DEF HonourInv, Honoured

\* Steps of the clients and of the network leave every promise alone; an answer
\* only passes one on.
LEMMA QuietHonours ==
  ASSUME HonourInv, UNCHANGED vars,
         \A d \in DOMAIN calls' :
           calls'[d].phase = "done" => d \in DOMAIN calls /\ calls'[d] = calls[d],
         \A r \in DOMAIN told' :
           \/ r \in DOMAIN told /\ told'[r] = told[r]
           \/ \E c \in DOMAIN calls :
                /\ calls[c].phase = "done" /\ calls[c].ok /\ r = calls[c].rid
                /\ told'[r].n = calls[c].n /\ told'[r].until = LeaseUntil(calls[c])
  PROVE  HonourInv'
<1>1. /\ now' = now /\ charges' = charges /\ leases' = leases /\ res' = res
      /\ holdsExp' = holdsExp
  BY DEF vars, redisVars, history
<1>2. \A r \in DOMAIN told' : Honoured(r, told'[r].n, told'[r].until)
  <2> TAKE r \in DOMAIN told'
  <2>1. CASE r \in DOMAIN told /\ told'[r] = told[r]
    BY <2>1 DEF HonourInv
  <2>2. ASSUME NEW c \in DOMAIN calls, calls[c].phase = "done", calls[c].ok, r = calls[c].rid,
               told'[r].n = calls[c].n, told'[r].until = LeaseUntil(calls[c])
        PROVE  Honoured(r, told'[r].n, told'[r].until)
    <3>1. Honoured(calls[c].rid, calls[c].n, LeaseUntil(calls[c]))
      BY <2>2 DEF HonourInv
    <3> QED
      BY <2>2, <3>1, Zenon
  <2> QED
    BY <2>1, <2>2
<1>3. \A d \in DOMAIN calls' : calls'[d].phase = "done" /\ calls'[d].ok =>
        Honoured(calls'[d].rid, calls'[d].n, LeaseUntil(calls'[d]))
  <2> SUFFICES ASSUME NEW d \in DOMAIN calls', calls'[d].phase = "done", calls'[d].ok
               PROVE  Honoured(calls'[d].rid, calls'[d].n, LeaseUntil(calls'[d]))
    BY Zenon
  <2>1. d \in DOMAIN calls /\ calls'[d] = calls[d]
    OBVIOUS
  <2>2. Honoured(calls[d].rid, calls[d].n, LeaseUntil(calls[d]))
    BY <2>1, Zenon DEF HonourInv
  <2> QED
    BY <2>1, <2>2, Zenon
<1>4. \A r \in DOMAIN leases' : leases'[r] <= holdsExp'
  BY <1>1 DEF HonourInv
<1>5. \A r \in DOMAIN leases', m \in LeaseLengths : leases'[r] <= now' + Ttl(m)
  BY <1>1 DEF HonourInv
<1> QED
  BY <1>1, <1>2, <1>3, <1>4, <1>5, Zenon DEF HonourInv, Honoured

\* Nothing a client or the network does breaks a promise.
LEMMA ClientHonours ==
  ASSUME BaseInv, HonourInv,
         \/ \E c : Begin(c) \/ Send(c) \/ Answer(c) \/ Abandon(c)
         \/ Break \/ UNCHANGED allVars
  PROVE  HonourInv'
<1>1. ASSUME NEW c, Begin(c) PROVE HonourInv'
  <2>1. /\ DOMAIN calls' = DOMAIN calls \cup {c}
        /\ \A d \in DOMAIN calls : calls'[d] = calls[d]
        /\ calls'[c].phase = "estimated"
        /\ UNCHANGED vars /\ told' = told
    BY <1>1, BeginBase
  <2>2. \A d \in DOMAIN calls' :
          calls'[d].phase = "done" => d \in DOMAIN calls /\ calls'[d] = calls[d]
    BY <2>1
  <2>3. \A r \in DOMAIN told' : r \in DOMAIN told /\ told'[r] = told[r]
    BY <2>1
  <2> QED
    BY <2>1, <2>2, <2>3, QuietHonours, Zenon
<1>2. ASSUME NEW c, Send(c) PROVE HonourInv'
  <2>1. /\ DOMAIN calls' = DOMAIN calls
        /\ \A d \in DOMAIN calls \ {c} : calls'[d] = calls[d]
        /\ calls'[c].phase = "sent"
        /\ UNCHANGED vars /\ told' = told
    BY <1>2, SendBase
  <2>2. \A d \in DOMAIN calls' :
          calls'[d].phase = "done" => d \in DOMAIN calls /\ calls'[d] = calls[d]
    BY <2>1
  <2>3. \A r \in DOMAIN told' : r \in DOMAIN told /\ told'[r] = told[r]
    BY <2>1
  <2> QED
    BY <2>1, <2>2, <2>3, QuietHonours, Zenon
<1>3. ASSUME NEW c, Answer(c) \/ Abandon(c) PROVE HonourInv'
  <2>1. /\ DOMAIN calls' = DOMAIN calls \ {c}
        /\ \A d \in DOMAIN calls' : calls'[d] = calls[d]
        /\ UNCHANGED vars
        /\ \A r \in DOMAIN told : told'[r] = told[r]
        /\ \A r \in DOMAIN told' \ DOMAIN told :
             /\ c \in DOMAIN calls /\ calls[c].phase = "done" /\ calls[c].ok
             /\ r = calls[c].rid /\ told'[r].n = calls[c].n
             /\ told'[r].until = LeaseUntil(calls[c])
    BY <1>3, EndBase
  <2>2. \A d \in DOMAIN calls' :
          calls'[d].phase = "done" => d \in DOMAIN calls /\ calls'[d] = calls[d]
    BY <2>1
  <2>3. \A r \in DOMAIN told' :
          \/ r \in DOMAIN told /\ told'[r] = told[r]
          \/ \E d \in DOMAIN calls :
               /\ calls[d].phase = "done" /\ calls[d].ok /\ r = calls[d].rid
               /\ told'[r].n = calls[d].n /\ told'[r].until = LeaseUntil(calls[d])
    BY <2>1, Zenon
  <2> QED
    BY <2>1, <2>2, <2>3, QuietHonours, Zenon
<1>4. CASE Break
  <2>1. /\ \A d \in DOMAIN calls' :
             calls'[d].phase = "done" => d \in DOMAIN calls /\ calls'[d] = calls[d]
        /\ UNCHANGED vars /\ told' = told
    <3>1. calls \in [DOMAIN calls -> CallRecord] /\ CallsTyped
      BY DEF BaseInv, CallsTyped
    <3>2. /\ DOMAIN calls' = DOMAIN calls
          /\ \A d \in DOMAIN calls :
               \/ calls'[d] = calls[d] /\ calls[d].phase # "done"
               \/ calls'[d] = [calls[d] EXCEPT !.phase = "sent"] /\ calls[d].phase = "done"
          /\ UNCHANGED vars /\ told' = told
      BY <1>4, <3>1, BrokenCall
    <3>3. \A k \in CallRecord : [k EXCEPT !.phase = "sent"].phase # "done"
      BY DEF CallRecord
    <3>4. \A d \in DOMAIN calls : calls[d] \in CallRecord
      BY <3>1
    <3> QED
      BY <3>2, <3>3, <3>4, Zenon
  <2>2. \A r \in DOMAIN told' : r \in DOMAIN told /\ told'[r] = told[r]
    BY <2>1
  <2> QED
    BY <2>1, <2>2, QuietHonours, Zenon
<1>5. CASE UNCHANGED allVars
  <2>1. UNCHANGED vars /\ told' = told /\ calls' = calls
    BY <1>5 DEF allVars, callVars
  <2>2. /\ \A r \in DOMAIN told' : r \in DOMAIN told /\ told'[r] = told[r]
        /\ \A d \in DOMAIN calls' : d \in DOMAIN calls /\ calls'[d] = calls[d]
    BY <2>1
  <2> QED
    BY <2>1, <2>2, QuietHonours, Zenon
<1> QED
  BY <1>1, <1>2, <1>3, <1>4, <1>5, Zenon

\* A settlement ends its own promise and no other.
LEMMA SettleHonours ==
  ASSUME BaseInv, HonourInv, NEW r \in DOMAIN told, NEW t \in Readings, NEW prompt \in Nat,
         NEW output \in Nat, NEW service \in Nat, NEW lease \in LeaseLengths,
         SettleStep(r, t, prompt, output, service, lease)
  PROVE  HonourInv'
<1>1. /\ now' = now /\ r \in Rids
      /\ charges' = [charges EXCEPT ![r] = @ + 1]
      /\ DOMAIN leases' = DOMAIN leases \ {r}
      /\ \A x \in DOMAIN leases \ {r} : leases'[x] = leases[x]
      /\ \A x \in DOMAIN leases \ {r} : res'[x] = res[x]
      /\ holdsExp' = IF DOMAIN leases' = {} THEN -1 ELSE holdsExp
  <2>1. DOMAIN leases = DOMAIN res
    BY HonourTypes
  <2> QED
    BY <2>1, SettleEffect, Zenon
<1>2. UNCHANGED <<calls, told>>
  BY DEF SettleStep
<1>3. /\ now \in Nat /\ \A x \in DOMAIN told : told[x].until \in Nat
      /\ \A d \in DOMAIN calls : LeaseUntil(calls[d]) \in Nat
      /\ \A d \in DOMAIN calls : InFlight(d) =>
           calls[d].rid \in Rids /\ calls[d].rid \notin DOMAIN told
  BY HonourTypes
<1>4. charges \in [Rids -> Nat] /\ charges'[r] # 0 /\ \A x \in Rids \ {r} : charges'[x] = charges[x]
  <2>1. charges \in [Rids -> Nat]
    BY DEF BaseInv, TypeOK
  <2> QED
    BY <1>1, <2>1
<1>5. ASSUME NEW x \in Rids, NEW n, NEW until \in Nat, Honoured(x, n, until)
      PROVE  charges'[x] = 0 /\ now' < until =>
               x \in DOMAIN leases' /\ res'[x] = n /\ leases'[x] = until
  <2>1. CASE x = r
    BY <1>4, <2>1
  <2>2. CASE x # r
    <3>1. x \in DOMAIN leases => x \in DOMAIN leases' /\ leases'[x] = leases[x] /\ res'[x] = res[x]
      BY <1>1, <2>2
    <3>2. charges'[x] = 0 => charges[x] = 0
      BY <1>4, <2>2
    <3>3. now' \in Nat /\ now' >= now
      BY <1>1, <1>3
    <3> QED
      BY <1>3, <1>5, <3>1, <3>2, <3>3, HonouredKept
  <2> QED
    BY <2>1, <2>2
<1>6. \A x \in DOMAIN told' :
        charges'[x] = 0 /\ now' < told'[x].until =>
          x \in DOMAIN leases' /\ res'[x] = told'[x].n /\ leases'[x] = told'[x].until
  <2>1. \A x \in DOMAIN told : x \in Rids /\ Honoured(x, told[x].n, told[x].until)
    BY HonourTypes DEF HonourInv
  <2>2. \A x \in DOMAIN told :
          charges'[x] = 0 /\ now' < told[x].until =>
            x \in DOMAIN leases' /\ res'[x] = told[x].n /\ leases'[x] = told[x].until
    BY <1>3, <1>5, <2>1, Zenon
  <2>3. told' = told
    BY <1>2
  <2> QED
    BY <2>2, <2>3, Zenon
<1>7. \A d \in DOMAIN calls' :
        calls'[d].phase = "done" /\ calls'[d].ok =>
          (charges'[calls'[d].rid] = 0 /\ now' < LeaseUntil(calls'[d]) =>
             /\ calls'[d].rid \in DOMAIN leases' /\ res'[calls'[d].rid] = calls'[d].n
             /\ leases'[calls'[d].rid] = LeaseUntil(calls'[d]))
  <2>1. \A d \in DOMAIN calls : calls[d].phase = "done" /\ calls[d].ok =>
          /\ calls[d].rid \in Rids
          /\ Honoured(calls[d].rid, calls[d].n, LeaseUntil(calls[d]))
    BY <1>3 DEF HonourInv, InFlight
  <2>2. \A d \in DOMAIN calls : calls[d].phase = "done" /\ calls[d].ok =>
          (charges'[calls[d].rid] = 0 /\ now' < LeaseUntil(calls[d]) =>
             /\ calls[d].rid \in DOMAIN leases' /\ res'[calls[d].rid] = calls[d].n
             /\ leases'[calls[d].rid] = LeaseUntil(calls[d]))
    BY <1>3, <1>5, <2>1, Zenon
  <2>3. calls' = calls
    BY <1>2
  <2> QED
    BY <2>2, <2>3, Zenon
<1>8. \A x \in DOMAIN leases' : leases'[x] <= holdsExp'
  BY <1>1 DEF HonourInv
<1>9. \A x \in DOMAIN leases', m \in LeaseLengths : leases'[x] <= now' + Ttl(m)
  BY <1>1 DEF HonourInv
<1> QED
  BY <1>6, <1>7, <1>8, <1>9, Zenon DEF HonourInv, Honoured

\* The holds lapse only when no lease runs any more.
LEMMA TickHonours ==
  ASSUME BaseInv, HonourInv, TimePasses
  PROVE  HonourInv'
<1>1. /\ now' = now + 1 /\ now \in Nat /\ charges' = charges /\ calls' = calls /\ told' = told
      /\ \/ UNCHANGED <<leases, res, holdsExp>>
         \/ DOMAIN leases' = {} /\ holdsExp' = -1 /\ holdsExp < now + 1
  BY TickEffect DEF callVars
<1>2. /\ holdsExp \in Int
      /\ \A x \in DOMAIN leases : leases[x] \in Nat /\ leases[x] <= holdsExp
      /\ \A m \in LeaseLengths : Ttl(m) \in Nat
      /\ \A x \in DOMAIN told : told[x].until \in Nat
      /\ \A d \in DOMAIN calls : LeaseUntil(calls[d]) \in Nat
  BY HonourTypes DEF HonourInv
<1>3. ASSUME NEW x, NEW n, NEW until \in Nat, Honoured(x, n, until)
      PROVE  charges'[x] = 0 /\ now' < until =>
               x \in DOMAIN leases' /\ res'[x] = n /\ leases'[x] = until
  <2>1. x \in DOMAIN leases /\ now' < leases[x] =>
          x \in DOMAIN leases' /\ leases'[x] = leases[x] /\ res'[x] = res[x]
    BY <1>1, <1>2
  <2>2. now' \in Nat /\ now' >= now /\ (charges'[x] = 0 => charges[x] = 0)
    BY <1>1
  <2> QED
    BY <1>1, <1>3, <2>1, <2>2, HonouredKept
<1>4. \A x \in DOMAIN told' :
        charges'[x] = 0 /\ now' < told'[x].until =>
          x \in DOMAIN leases' /\ res'[x] = told'[x].n /\ leases'[x] = told'[x].until
  <2>1. \A x \in DOMAIN told :
          charges'[x] = 0 /\ now' < told[x].until =>
            x \in DOMAIN leases' /\ res'[x] = told[x].n /\ leases'[x] = told[x].until
    BY <1>2, <1>3, Zenon DEF HonourInv
  <2>2. told' = told
    BY <1>1
  <2> QED
    BY <2>1, <2>2, Zenon
<1>5. \A d \in DOMAIN calls' :
        calls'[d].phase = "done" /\ calls'[d].ok =>
          (charges'[calls'[d].rid] = 0 /\ now' < LeaseUntil(calls'[d]) =>
             /\ calls'[d].rid \in DOMAIN leases' /\ res'[calls'[d].rid] = calls'[d].n
             /\ leases'[calls'[d].rid] = LeaseUntil(calls'[d]))
  <2>1. \A d \in DOMAIN calls : calls[d].phase = "done" /\ calls[d].ok =>
          (charges'[calls[d].rid] = 0 /\ now' < LeaseUntil(calls[d]) =>
             /\ calls[d].rid \in DOMAIN leases' /\ res'[calls[d].rid] = calls[d].n
             /\ leases'[calls[d].rid] = LeaseUntil(calls[d]))
    BY <1>2, <1>3, Zenon DEF HonourInv
  <2>2. calls' = calls
    BY <1>1
  <2> QED
    BY <2>1, <2>2, Zenon
<1>6. \A x \in DOMAIN leases' : leases'[x] <= holdsExp'
  BY <1>1, <1>2
<1>7. \A x \in DOMAIN leases', m \in LeaseLengths : leases'[x] <= now' + Ttl(m)
  <2> SUFFICES ASSUME NEW x \in DOMAIN leases', NEW m \in LeaseLengths
               PROVE  leases'[x] <= now' + Ttl(m)
    OBVIOUS
  <2>1. x \in DOMAIN leases /\ leases'[x] = leases[x] /\ leases[x] \in Nat
    BY <1>1, <1>2
  <2>2. leases[x] <= now + Ttl(m) /\ Ttl(m) \in Nat
    BY <1>2, <2>1 DEF HonourInv
  <2>3. leases[x] <= (now + 1) + Ttl(m)
    BY <1>1, <2>1, <2>2
  <2> QED
    BY <1>1, <2>1, <2>3, Zenon
<1> QED
  BY <1>4, <1>5, <1>6, <1>7, Zenon DEF HonourInv, Honoured

LEMMA NextHonours ==
  ASSUME LeasesCovered, BaseInv, HonourInv, [CallNext]_allVars
  PROVE  HonourInv'
<1>1. ASSUME NEW c, Begin(c) \/ Send(c) \/ Answer(c) \/ Abandon(c) PROVE HonourInv'
  BY <1>1, ClientHonours, Zenon
<1>2. CASE Break \/ UNCHANGED allVars
  BY <1>2, ClientHonours, Zenon
<1>3. ASSUME NEW r \in DOMAIN told, NEW t \in Readings, NEW prompt \in Nat, NEW output \in Nat,
             NEW service \in Nat, NEW lease \in LeaseLengths,
             SettleStep(r, t, prompt, output, service, lease)
      PROVE  HonourInv'
  BY <1>3, SettleHonours
<1>4. ASSUME NEW c, NEW E, NEW slo, RunAdmit(c, E, slo) PROVE HonourInv'
  <2>1. TRUE \in BOOLEAN /\ IF TRUE THEN RunAdmit(c, E, slo) ELSE RunShed(c, E, slo)
    BY <1>4
  <2> QED
    BY <2>1, RunHonours, Zenon
<1>5. ASSUME NEW c, NEW E, NEW slo, RunShed(c, E, slo) PROVE HonourInv'
  <2>1. FALSE \in BOOLEAN /\ IF FALSE THEN RunAdmit(c, E, slo) ELSE RunShed(c, E, slo)
    BY <1>5
  <2> QED
    BY <2>1, RunHonours, Zenon
<1>6. CallsTyped
  BY DEF BaseInv
<1> QED
  BY <1>1, <1>2, <1>3, <1>4, <1>5, <1>6, StepCases, TickHonours, Zenon

\* Where no policy's lease outlives the life another one's calls give the
\* collections, a caller told that it is admitted keeps the hold it was told of
\* until its lease ends or it settles: no sweep, no lapse of the collections, no
\* resent script and no other call takes or changes it.
THEOREM CallLeasesHonoured ==
  ASSUME LeasesCovered
  PROVE  CallSpec => []LeaseHonoured
<1>1. CallInit => HonourInv
  BY DEF CallInit, Init, Nothing, HonourInv
<1>2. HonourInv => LeaseHonoured
  BY DEF HonourInv, LeaseHonoured, Honoured
<1>3. BaseInv /\ HonourInv /\ [CallNext]_allVars => HonourInv'
  BY NextHonours
<1> QED
  BY <1>1, <1>2, <1>3, BaseInvariant, PTL DEF CallSpec
=============================================================================
