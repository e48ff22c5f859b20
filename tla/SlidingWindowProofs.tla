------------------------ MODULE SlidingWindowProofs ------------------------
(***************************************************************************)
(* The log of SlidingWindow keeps its arrival curve, for every limit,      *)
(* window, lag and number of processes, if processes have pids of their    *)
(* own.                                                                    *)
(***************************************************************************)
EXTENDS SlidingWindow, FiniteSetTheorems, WellFoundedInduction, TLAPS

UniquePids == \A r, s \in Replicas : Pid[r] = Pid[s] => r = s

\* The requests that passed after x, and the members that count for them.
Passed(x) == {h \in hits : h[1] > x}
Logged(x) == {m \in log : m[1] > x - MaxLag}

\* A new member and a new hit differ from those there are: numbers in use are
\* below the next one.
Fresh ==
  /\ \A m \in log, r \in Replicas : m[2] = Pid[r] => m[3] < sequence[r]
  /\ \A h \in hits : h[2] < Cardinality({g \in hits : g[1] = h[1]})

\* The key outlives the requests it remembers.
Remembered == \A h \in hits : h[1] + Window <= logExp

\* Whatever passed within the promise's reach is still in the log.
Counted ==
  \A x \in Int : x >= now - (Window - MaxLag) =>
    Cardinality(Passed(x)) <= Cardinality(Logged(x))

LogInv == TypeOK /\ IsFiniteSet(log) /\ IsFiniteSet(hits) /\ Fresh /\ Remembered /\ Counted

-----------------------------------------------------------------------------
LEMMA Constants ==
  /\ Limit \in Nat /\ Limit > 0 /\ MaxLag \in Nat /\ MaxCalls \in Nat /\ MaxClock \in Nat
  /\ Window \in Nat /\ Window > MaxLag /\ Window - MaxLag \in Nat
BY WindowAssumption

\* The abstract promise counts as the log does.
LEMMA SameCount == \A S : Contract!Cardinality(S) = Cardinality(S)
BY DEF Contract!Cardinality, Cardinality

\* A caller's clock reading.
LEMMA ReadingFacts ==
  ASSUME now \in Nat, NEW t \in Readings
  PROVE  t \in Nat /\ t <= now /\ t >= now - MaxLag
BY Constants DEF Readings, Larger

\* What a trim at t leaves is finite, and holds everything within the promise's
\* reach.
LEMMA KeptFacts ==
  ASSUME LogInv, NEW t \in Readings
  PROVE  /\ Kept(t) \subseteq log /\ IsFiniteSet(Kept(t)) /\ Cardinality(Kept(t)) \in Nat
         /\ Cardinality(Kept(t)) <= Limit
         /\ \A x \in Int : x >= now - (Window - MaxLag) =>
              {m \in Kept(t) : m[1] > x - MaxLag} = Logged(x)
<1>1. Kept(t) \in SUBSET log /\ IsFiniteSet(log)
  BY DEF Kept, LogInv
<1>2. IsFiniteSet(Kept(t)) /\ Cardinality(Kept(t)) <= Cardinality(log)
  BY <1>1, FS_Subset
<1>3. Cardinality(Kept(t)) \in Nat /\ Cardinality(log) \in Nat /\ Cardinality(log) <= Limit
  BY <1>1, <1>2, FS_CardinalityType DEF LogInv, TypeOK
<1>4. now \in Nat /\ t \in Nat /\ t <= now
  BY ReadingFacts DEF LogInv, TypeOK
<1>5. ASSUME NEW x \in Int, x >= now - (Window - MaxLag)
      PROVE  {m \in Kept(t) : m[1] > x - MaxLag} = Logged(x)
  <2>1. \A m \in log : m[1] \in Int
    BY DEF LogInv, TypeOK
  <2>2. \A m \in log : m[1] > x - MaxLag => m[1] > t - Window
    BY <1>4, <1>5, <2>1, Constants
  <2> QED
    BY <2>2 DEF Kept, Logged
<1> QED
  BY <1>1, <1>2, <1>3, <1>5, Constants

\* Both kinds of sets are finite.
LEMMA CountsFinite ==
  ASSUME LogInv, NEW x \in Int
  PROVE  /\ IsFiniteSet(Passed(x)) /\ Cardinality(Passed(x)) \in Nat
         /\ IsFiniteSet(Logged(x)) /\ Cardinality(Logged(x)) \in Nat
<1>1. Passed(x) \in SUBSET hits /\ Logged(x) \in SUBSET log
  BY DEF Passed, Logged
<1>2. IsFiniteSet(hits) /\ IsFiniteSet(log)
  BY DEF LogInv
<1> QED
  BY <1>1, <1>2, FS_Subset, FS_CardinalityType

-----------------------------------------------------------------------------
\* A check that passes adds one member and one hit, and stays within the quota.
LEMMA AllowKeeps ==
  ASSUME UniquePids, LogInv, NEW r \in Replicas, NEW t \in Readings,
         sequence[r] < MaxCalls, Allow(r, t),
         sequence' = [sequence EXCEPT ![r] = @ + 1], now' = now
  PROVE  LogInv' /\ Contract!Pass
<1> USE Constants
<1> DEFINE today == {h \in hits : h[1] = now}
           new   == <<now, Cardinality(today)>>
           mem   == <<t, Pid[r], sequence[r]>>
<1>1. /\ now \in Nat /\ t \in Nat /\ t <= now /\ t >= now - MaxLag
      /\ TypeOK /\ Fresh /\ IsFiniteSet(log) /\ IsFiniteSet(hits)
  BY ReadingFacts DEF LogInv, TypeOK
<1>2. /\ log' = Kept(t) \cup {mem} /\ hits' = hits \cup {new} /\ logExp' = now + Window
      /\ Cardinality(Kept(t)) < Limit
  BY DEF Allow, Passes, Renew, Member, Room
<1>3. today \in SUBSET hits
  OBVIOUS
<1>4. IsFiniteSet(today) /\ Cardinality(today) \in Nat
  BY <1>1, <1>3, FS_Subset, FS_CardinalityType
<1>5. new \notin hits
  <2> SUFFICES ASSUME new \in hits PROVE FALSE
    OBVIOUS
  <2>1. new[1] = now /\ new[2] = Cardinality(today)
    OBVIOUS
  <2>2. new[2] < Cardinality({g \in hits : g[1] = new[1]})
    BY <1>1 DEF Fresh
  <2> QED
    BY <1>4, <2>1, <2>2
<1>6. mem \notin log
  <2> SUFFICES ASSUME mem \in log PROVE FALSE
    OBVIOUS
  <2>1. mem[2] = Pid[r] /\ mem[3] = sequence[r] /\ sequence[r] \in Int
    BY <1>1 DEF TypeOK
  <2> QED
    BY <1>1, <2>1 DEF Fresh
<1>7. /\ Kept(t) \subseteq log /\ IsFiniteSet(Kept(t)) /\ Cardinality(Kept(t)) \in Nat
      /\ \A x \in Int : x >= now - (Window - MaxLag) =>
           {m \in Kept(t) : m[1] > x - MaxLag} = Logged(x)
  BY KeptFacts
<1>8. mem \notin Kept(t)
  BY <1>6, <1>7
<1>9. IsFiniteSet(log') /\ Cardinality(log') = Cardinality(Kept(t)) + 1
  BY <1>2, <1>7, <1>8, FS_AddElement
<1>10. IsFiniteSet(hits')
  BY <1>1, <1>2, FS_AddElement
<1>11. TypeOK'
  <2>1. mem \in (0 .. now) \X {Pid[s] : s \in Replicas} \X (0 .. MaxCalls)
    BY <1>1 DEF TypeOK
  <2>2. log' \subseteq (0 .. now) \X {Pid[s] : s \in Replicas} \X (0 .. MaxCalls)
    BY <1>1, <1>2, <1>7, <2>1 DEF TypeOK
  <2>3. Cardinality(log') <= Limit
    BY <1>2, <1>7, <1>9
  <2>4. sequence' \in [Replicas -> 0 .. MaxCalls]
    BY <1>1 DEF TypeOK
  <2>5. hits' \subseteq (0 .. now) \X Nat
    BY <1>1, <1>2, <1>4 DEF TypeOK
  <2>6. logExp' \in -1 .. now + Window
    BY <1>1, <1>2
  <2> HIDE DEF new, mem
  <2> QED
    BY <1>1, <2>2, <2>3, <2>4, <2>5, <2>6 DEF TypeOK
<1>12. Fresh'
  <2>1. ASSUME NEW m \in log', NEW s \in Replicas, m[2] = Pid[s] PROVE m[3] < sequence'[s]
    <3>1. sequence \in [Replicas -> Nat]
      BY <1>1 DEF TypeOK
    <3>2. CASE m = mem
      <4>1. s = r
        BY <2>1, <3>2 DEF UniquePids
      <4> QED
        BY <3>1, <3>2, <4>1
    <3>3. CASE m # mem
      <4>1. m \in log /\ m[3] \in Int
        BY <1>1, <1>2, <1>7, <2>1, <3>3 DEF TypeOK
      <4>2. m[3] < sequence[s]
        BY <1>1, <2>1, <4>1 DEF Fresh
      <4> QED
        BY <3>1, <4>1, <4>2
    <3> QED
      BY <3>2, <3>3
  <2>2. ASSUME NEW h \in hits' PROVE h[2] < Cardinality({g \in hits' : g[1] = h[1]})
    <3>1. CASE h[1] = now
      <4>1. {g \in hits' : g[1] = h[1]} = today \cup {new}
        BY <1>2, <3>1
      <4>2. Cardinality(today \cup {new}) = Cardinality(today) + 1
        BY <1>3, <1>4, <1>5, FS_AddElement
      <4>3. h[2] <= Cardinality(today)
        <5>1. CASE h = new
          BY <1>4, <5>1
        <5>2. CASE h # new
          BY <1>1, <1>2, <1>4, <2>2, <3>1, <5>2 DEF Fresh, TypeOK
        <5> QED
          BY <5>1, <5>2
      <4>4. h[2] \in Nat
        BY <1>1, <1>2, <1>4, <2>2 DEF TypeOK
      <4>5. h[2] < Cardinality(today \cup {new})
        <5> HIDE DEF today, new
        <5> QED
          BY <1>4, <4>2, <4>3, <4>4
      <4> QED
        BY <4>1, <4>5, Zenon
    <3>2. CASE h[1] # now
      <4>1. h \in hits /\ {g \in hits' : g[1] = h[1]} = {g \in hits : g[1] = h[1]}
        BY <1>2, <2>2, <3>2
      <4> QED
        BY <1>1, <4>1 DEF Fresh
    <3> QED
      BY <3>1, <3>2
  <2> HIDE DEF new, mem
  <2> QED
    BY <2>1, <2>2 DEF Fresh
<1>13. Remembered'
  <2>1. \A h \in hits' : h[1] \in Nat /\ h[1] <= now
    BY <1>1, <1>2 DEF TypeOK
  <2> HIDE DEF new
  <2> QED
    BY <1>1, <1>2, <2>1 DEF Remembered
<1>14. ASSUME NEW x \in Int, x >= now - (Window - MaxLag)
       PROVE  Cardinality({h \in hits' : h[1] > x}) <= Cardinality({m \in log' : m[1] > x - MaxLag})
  <2> DEFINE P == {h \in hits' : h[1] > x}
             Q == {m \in log' : m[1] > x - MaxLag}
  <2>1. Cardinality(Passed(x)) <= Cardinality(Logged(x))
    BY <1>14 DEF LogInv, Counted
  <2>2. /\ IsFiniteSet(Passed(x)) /\ Cardinality(Passed(x)) \in Nat
        /\ IsFiniteSet(Logged(x)) /\ Cardinality(Logged(x)) \in Nat
    BY CountsFinite
  <2>3. {m \in Kept(t) : m[1] > x - MaxLag} = Logged(x)
    BY <1>7, <1>14
  <2>4. CASE now > x
    <3>1. P = Passed(x) \cup {new}
      BY <1>2, <2>4 DEF Passed
    <3>2. mem[1] > x - MaxLag
      BY <1>1, <2>4
    <3>3. Q = Logged(x) \cup {mem}
      BY <1>2, <2>3, <3>2
    <3>4. new \notin Passed(x) /\ mem \notin Logged(x)
      BY <1>5, <1>6 DEF Passed, Logged
    <3> HIDE DEF new, mem, P, Q
    <3>5. Cardinality(P) = Cardinality(Passed(x)) + 1
      BY <2>2, <3>1, <3>4, FS_AddElement
    <3>6. Cardinality(Q) = Cardinality(Logged(x)) + 1
      BY <2>2, <3>3, <3>4, FS_AddElement
    <3>7. Cardinality(P) <= Cardinality(Q)
      BY <2>1, <2>2, <3>5, <3>6
    <3> QED
      BY <3>7 DEF P, Q
  <2>5. CASE ~(now > x)
    <3>1. P = Passed(x)
      BY <1>2, <2>5 DEF Passed
    <3>2. Logged(x) \in SUBSET Q /\ Q \in SUBSET log'
      BY <1>2, <2>3
    <3> HIDE DEF P, Q
    <3>3. IsFiniteSet(Q) /\ Cardinality(Logged(x)) <= Cardinality(Q)
      BY <1>9, <3>2, FS_Subset
    <3>4. Cardinality(Q) \in Nat
      BY <3>3, FS_CardinalityType
    <3>5. Cardinality(P) <= Cardinality(Q)
      BY <2>1, <2>2, <3>1, <3>3, <3>4
    <3> QED
      BY <3>5 DEF P, Q
  <2> QED
    BY <2>4, <2>5
<1>15. LogInv'
  BY <1>9, <1>10, <1>11, <1>12, <1>13, <1>14 DEF LogInv, Counted, Passed, Logged
<1>16. Contract!WithinQuota(hits')
  <2> SUFFICES ASSUME NEW d \in 1 .. Window - MaxLag
               PROVE  Cardinality({h \in hits' : h[1] > now - d}) <= Limit
    BY SameCount DEF Contract!WithinQuota, Contract!Since
  <2> DEFINE P == {h \in hits' : h[1] > now - d}
             Q == {m \in log' : m[1] > now - d - MaxLag}
  <2>1. now - d \in Int /\ now - d >= now - (Window - MaxLag)
    BY <1>1
  <2>2. Cardinality(P) <= Cardinality(Q)
    BY <1>14, <2>1
  <2>3. P \in SUBSET hits' /\ Q \in SUBSET log'
    OBVIOUS
  <2> HIDE DEF P, Q
  <2>4. Cardinality(P) \in Nat
    BY <1>10, <2>3, FS_Subset, FS_CardinalityType
  <2>5. IsFiniteSet(Q) /\ Cardinality(Q) <= Cardinality(log')
    BY <1>9, <2>3, FS_Subset
  <2>6. Cardinality(Q) \in Nat /\ Cardinality(log') \in Nat
    BY <1>9, <2>5, FS_CardinalityType
  <2>7. Cardinality(log') <= Limit
    BY <1>2, <1>7, <1>9
  <2> QED
    BY <2>2, <2>4, <2>5, <2>6, <2>7 DEF P
<1>17. Contract!Pass
  <2>1. new \in hits' \ hits /\ new[1] = now /\ hits' = hits \cup {new}
    BY <1>2, <1>5
  <2> HIDE DEF new
  <2> QED
    BY <1>16, <2>1 DEF Contract!Pass
<1> QED
  BY <1>15, <1>17

\* Removing members and requests that count for nothing is harmless.
LEMMA CountedFrom ==
  ASSUME LogInv, hits' \subseteq hits,
         \A x \in Int : x >= now' - (Window - MaxLag) =>
           x >= now - (Window - MaxLag) /\ Logged(x) = {m \in log' : m[1] > x - MaxLag}
  PROVE  Counted'
<1>1. ASSUME NEW x \in Int, x >= now' - (Window - MaxLag)
      PROVE  Cardinality({h \in hits' : h[1] > x}) <= Cardinality({m \in log' : m[1] > x - MaxLag})
  <2> DEFINE P == {h \in hits' : h[1] > x}
  <2>1. Cardinality(Passed(x)) <= Cardinality(Logged(x)) /\ Logged(x) = {m \in log' : m[1] > x - MaxLag}
    BY <1>1 DEF LogInv, Counted
  <2>2. P \in SUBSET Passed(x)
    BY DEF Passed
  <2> HIDE DEF P
  <2>3. IsFiniteSet(P) /\ Cardinality(P) <= Cardinality(Passed(x))
    BY <2>2, CountsFinite, FS_Subset
  <2>4. Cardinality(P) \in Nat /\ Cardinality(Passed(x)) \in Nat /\ Cardinality(Logged(x)) \in Nat
    BY <2>3, CountsFinite, FS_CardinalityType
  <2>5. Cardinality(P) <= Cardinality(Logged(x))
    BY <2>1, <2>3, <2>4
  <2> QED
    BY <2>1, <2>5 DEF P
<1> QED
  BY <1>1 DEF Counted, Passed, Logged

\* A check that is turned away trims the log and forgets no request.
LEMMA RejectKeeps ==
  ASSUME LogInv, NEW r \in Replicas, NEW t \in Readings,
         sequence[r] < MaxCalls, Reject(t),
         sequence' = [sequence EXCEPT ![r] = @ + 1], now' = now
  PROVE  LogInv' /\ UNCHANGED <<now, hits>>
<1> USE Constants
<1>1. /\ now \in Nat /\ TypeOK /\ Fresh /\ IsFiniteSet(hits)
      /\ log' = Kept(t) /\ hits' = hits /\ logExp' = now + Window
  BY DEF LogInv, TypeOK, Reject, Turns, Renew
<1>2. /\ Kept(t) \subseteq log /\ IsFiniteSet(Kept(t)) /\ Cardinality(Kept(t)) <= Limit
      /\ \A x \in Int : x >= now - (Window - MaxLag) =>
           {m \in Kept(t) : m[1] > x - MaxLag} = Logged(x)
  BY KeptFacts
<1>3. TypeOK'
  <2>1. sequence' \in [Replicas -> 0 .. MaxCalls] /\ logExp' \in -1 .. now + Window
    BY <1>1 DEF TypeOK
  <2> QED
    BY <1>1, <1>2, <2>1 DEF TypeOK
<1>4. Fresh'
  <2>1. sequence \in [Replicas -> Nat] /\ \A m \in log : m[3] \in Int
    BY <1>1 DEF TypeOK
  <2>2. ASSUME NEW m \in log', NEW s \in Replicas, m[2] = Pid[s] PROVE m[3] < sequence'[s]
    <3>1. m[3] < sequence[s] /\ m[3] \in Int
      BY <1>1, <1>2, <2>1, <2>2 DEF Fresh
    <3> QED
      BY <2>1, <3>1
  <2> QED
    BY <1>1, <2>2 DEF Fresh
<1>5. Remembered'
  <2>1. \A h \in hits : h[1] \in Nat /\ h[1] <= now
    BY <1>1 DEF TypeOK
  <2> QED
    BY <1>1, <2>1 DEF Remembered
<1>6. Counted'
  BY <1>1, <1>2, CountedFrom
<1> QED
  BY <1>1, <1>2, <1>3, <1>4, <1>5, <1>6 DEF LogInv

\* With neither members nor requests there is nothing to keep.
Emptied == log = {} /\ hits = {} /\ logExp = -1

LEMMA EmptyKeeps ==
  ASSUME TypeOK, Emptied', NEW n \in 0 .. MaxClock, now' = n, sequence' = sequence
  PROVE  LogInv'
<1> USE Constants
<1>1. IsFiniteSet({}) /\ Cardinality({}) = 0
  BY FS_EmptySet
<1>2. TypeOK'
  <2>1. n + Window \in Nat /\ 0 <= Limit
    OBVIOUS
  <2>2. -1 \in -1 .. n + Window
    BY <2>1
  <2>3. logExp' \in -1 .. now' + Window /\ Cardinality(log') <= Limit
    BY <1>1, <2>1, <2>2 DEF Emptied
  <2>4. /\ log' \subseteq (0 .. now') \X {Pid[r] : r \in Replicas} \X (0 .. MaxCalls)
        /\ hits' \subseteq (0 .. now') \X Nat
    BY DEF Emptied
  <2> QED
    BY <2>1, <2>3, <2>4 DEF TypeOK
<1>3. Fresh' /\ Remembered'
  BY DEF Emptied, Fresh, Remembered
<1>4. Counted'
  <2>1. \A x \in Int : {h \in {} : h[1] > x} = {} /\ {m \in {} : m[1] > x - MaxLag} = {}
    OBVIOUS
  <2> QED
    BY <1>1, <2>1 DEF Emptied, Counted, Passed, Logged
<1> QED
  BY <1>1, <1>2, <1>3, <1>4 DEF Emptied, LogInv

\* The deletion of the key starts the promise over.
LEMMA ResetKeeps ==
  ASSUME LogInv, Reset
  PROVE  LogInv' /\ Contract!Reset
BY EmptyKeeps, Constants DEF Emptied, Reset, Delete, LogInv, TypeOK, Contract!Reset

\* Time takes requests out of the promise's reach, and with the key nothing
\* that is still within it.
LEMMA TickKeeps ==
  ASSUME LogInv, Tick
  PROVE  LogInv' /\ Contract!Tick
<1> USE Constants
<1>1. /\ now \in Nat /\ now' = now + 1 /\ now' \in 0 .. MaxClock /\ sequence' = sequence
      /\ TypeOK /\ Fresh /\ Remembered /\ IsFiniteSet(hits) /\ IsFiniteSet(log)
      /\ hits' = {h \in hits : h[1] > now' - Window}
  BY DEF LogInv, TypeOK, Tick
<1>2. \A h \in hits : h[1] \in Nat /\ h[1] + Window <= logExp /\ logExp \in Int
  BY <1>1 DEF TypeOK, Remembered
<1>3. hits' \in SUBSET hits
  BY <1>1
<1>4. IsFiniteSet(hits')
  BY <1>1, <1>3, FS_Subset
<1>5. Contract!Tick
  BY <1>1 DEF Contract!Tick, Contract!Since
<1>6. CASE logExp < now'
  <2>1. log' = {} /\ logExp' = -1
    BY <1>6 DEF Tick, Expire, Delete
  <2>2. hits' = {}
    BY <1>1, <1>2, <1>6
  <2> QED
    BY <1>1, <1>5, <2>1, <2>2, EmptyKeeps DEF Emptied, TypeOK
<1>7. CASE ~(logExp < now')
  <2>1. log' = log /\ logExp' = logExp
    BY <1>7 DEF Tick, Expire
  <2>2. TypeOK'
    BY <1>1, <1>3, <2>1 DEF TypeOK
  <2>3. Fresh'
    <3>1. ASSUME NEW h \in hits' PROVE h[2] < Cardinality({g \in hits' : g[1] = h[1]})
      <4>1. {g \in hits' : g[1] = h[1]} = {g \in hits : g[1] = h[1]}
        BY <1>1, <3>1
      <4> QED
        BY <1>1, <1>3, <3>1, <4>1 DEF Fresh
    <3> QED
      BY <1>1, <2>1, <3>1 DEF Fresh
  <2>4. Remembered'
    BY <1>3, <2>1, <1>1 DEF Remembered
  <2>5. Counted'
    BY <1>1, <1>3, <2>1, CountedFrom DEF Logged
  <2> QED
    BY <1>1, <1>4, <1>5, <2>1, <2>2, <2>3, <2>4, <2>5 DEF LogInv
<1> QED
  BY <1>6, <1>7

-----------------------------------------------------------------------------
LEMMA InitMapped == Init => LogInv /\ Contract!Init
<1> SUFFICES ASSUME Init
             PROVE  LogInv /\ Contract!Init
  OBVIOUS
<1> USE Constants
<1>1. IsFiniteSet({}) /\ Cardinality({}) = 0
  BY FS_EmptySet
<1>2. TypeOK
  BY <1>1 DEF Init, TypeOK
<1>3. Counted
  <2>1. \A x \in Int : {h \in {} : h[1] > x} = {} /\ {m \in {} : m[1] > x - MaxLag} = {}
    OBVIOUS
  <2> QED
    BY <1>1, <2>1 DEF Init, Counted, Passed, Logged
<1> QED
  BY <1>1, <1>2, <1>3 DEF Init, LogInv, Fresh, Remembered, Contract!Init

\* Every step of the log is a step of the promise or leaves it alone.
LEMMA StepMapped ==
  ASSUME UniquePids, LogInv, [Next]_vars
  PROVE  LogInv' /\ [Contract!Next]_<<now, hits>>
<1>1. CASE \E r \in Replicas : Check(r)
  <2>1. PICK r \in Replicas : Check(r)
    BY <1>1
  <2>2. PICK t \in Readings : Allow(r, t) \/ Reject(t)
    BY <2>1 DEF Check
  <2>3. /\ sequence[r] < MaxCalls /\ now' = now
        /\ sequence' = [sequence EXCEPT ![r] = @ + 1]
    BY <2>1 DEF Check
  <2>4. CASE Allow(r, t)
    BY <2>3, <2>4, AllowKeeps DEF Contract!Next
  <2>5. CASE Reject(t)
    BY <2>3, <2>5, RejectKeeps
  <2> QED
    BY <2>2, <2>4, <2>5
<1>2. CASE Reset
  BY <1>2, ResetKeeps DEF Contract!Next
<1>3. CASE Tick
  BY <1>3, TickKeeps DEF Contract!Next
<1>4. CASE UNCHANGED vars
  BY <1>4 DEF vars, LogInv, TypeOK, Fresh, Remembered, Counted, Passed, Logged
<1> QED
  BY <1>1, <1>2, <1>3, <1>4 DEF Next

\* Members that no two processes can produce alike keep the promise of
\* sliding-window.ts: no window sees more than Limit requests pass.
THEOREM LogKeepsItsPromise ==
  ASSUME UniquePids
  PROVE  Spec => ExactWindow
<1>1. Init => LogInv /\ Contract!Init
  BY InitMapped
<1>2. LogInv /\ [Next]_vars => LogInv' /\ [Contract!Next]_<<now, hits>>
  BY StepMapped
<1> QED
  BY <1>1, <1>2, PTL DEF Spec, ExactWindow, Contract!Spec

-----------------------------------------------------------------------------
(* What needs no pids: a collision only makes the set smaller. *)

LogShape == TypeOK /\ IsFiniteSet(log) /\ IsFiniteSet(hits)

\* A trimmed set is a part of the set, and a check adds at most one member.
LEMMA TrimKeepsShape ==
  ASSUME LogShape, NEW r \in Replicas, NEW t \in Readings, sequence[r] < MaxCalls,
         Allow(r, t) \/ Reject(t),
         sequence' = [sequence EXCEPT ![r] = @ + 1], now' = now
  PROVE  LogShape'
<1> USE Constants
<1> DEFINE mem   == <<t, Pid[r], sequence[r]>>
           today == {h \in hits : h[1] = now}
           new   == <<now, Cardinality(today)>>
<1>1. /\ now \in Nat /\ t \in Nat /\ t <= now /\ TypeOK
      /\ Kept(t) \in SUBSET log /\ IsFiniteSet(log) /\ today \in SUBSET hits /\ IsFiniteSet(hits)
  BY ReadingFacts DEF LogShape, TypeOK, Kept
<1>2. /\ IsFiniteSet(Kept(t)) /\ Cardinality(Kept(t)) <= Cardinality(log) /\ IsFiniteSet(today)
  BY <1>1, FS_Subset
<1>3. Cardinality(Kept(t)) \in Nat /\ Cardinality(log) \in Nat /\ Cardinality(today) \in Nat
  BY <1>1, <1>2, FS_CardinalityType
<1>4. Cardinality(Kept(t)) <= Limit
  BY <1>1, <1>2, <1>3 DEF TypeOK
<1>5. sequence' \in [Replicas -> 0 .. MaxCalls] /\ now' \in 0 .. MaxClock
  BY <1>1 DEF TypeOK
<1>6. CASE Allow(r, t)
  <2>1. log' = Kept(t) \cup {mem} /\ hits' = hits \cup {new} /\ logExp' = now + Window /\ Cardinality(Kept(t)) < Limit
    BY <1>6 DEF Allow, Passes, Renew, Member, Room
  <2>2. IsFiniteSet(log') /\ Cardinality(log') <= Limit
    <3>1. IsFiniteSet(Kept(t) \cup {mem})
          /\ (Cardinality(Kept(t) \cup {mem}) = Cardinality(Kept(t))
                \/ Cardinality(Kept(t) \cup {mem}) = Cardinality(Kept(t)) + 1)
      <4> HIDE DEF mem
      <4> QED
        BY <1>2, FS_AddElement
    <3> QED
      BY <1>3, <1>4, <2>1, <3>1
  <2>3. IsFiniteSet(hits')
    <3> HIDE DEF new
    <3> QED
      BY <1>1, <2>1, FS_AddElement
  <2>4. mem \in (0 .. now) \X {Pid[s] : s \in Replicas} \X (0 .. MaxCalls) /\ new \in (0 .. now) \X Nat
    BY <1>1, <1>3 DEF TypeOK
  <2>5. log' \subseteq (0 .. now) \X {Pid[s] : s \in Replicas} \X (0 .. MaxCalls) /\ hits' \subseteq (0 .. now) \X Nat
    <3> HIDE DEF mem, new
    <3> QED
      BY <1>1, <2>1, <2>4 DEF TypeOK
  <2>6. logExp' \in -1 .. now + Window
    BY <1>1, <2>1
  <2> HIDE DEF mem, new
  <2> QED
    BY <1>1, <1>5, <2>2, <2>3, <2>5, <2>6 DEF TypeOK, LogShape
<1>7. CASE Reject(t)
  <2>1. log' = Kept(t) /\ hits' = hits /\ logExp' \in -1 .. now + Window
    BY <1>1, <1>7 DEF Reject, Turns, Renew
  <2>2. log' \subseteq (0 .. now) \X {Pid[s] : s \in Replicas} \X (0 .. MaxCalls)
    BY <1>1, <2>1 DEF TypeOK
  <2> QED
    BY <1>1, <1>2, <1>4, <1>5, <2>1, <2>2 DEF TypeOK, LogShape
<1> QED
  BY <1>6, <1>7

LEMMA ShapeStep == LogShape /\ [Next]_vars => LogShape'
<1> SUFFICES ASSUME LogShape, [Next]_vars PROVE LogShape'
  OBVIOUS
<1> USE Constants
<1>1. CASE \E r \in Replicas : Check(r)
  BY <1>1, TrimKeepsShape DEF Check
<1>2. ASSUME Delete, now' \in 0 .. MaxClock, sequence' = sequence, hits' \in SUBSET hits,
             hits' \subseteq (0 .. now') \X Nat
      PROVE  LogShape'
  <2>1. log' = {} /\ logExp' = -1 /\ IsFiniteSet(hits')
    BY <1>2, FS_Subset DEF Delete, LogShape
  <2>2. IsFiniteSet(log') /\ Cardinality(log') <= Limit
    BY <2>1, FS_EmptySet
  <2>3. -1 \in -1 .. now' + Window
    <3> HIDE DEF Delete
    <3>1. ASSUME NEW n \in 0 .. MaxClock PROVE -1 \in -1 .. n + Window
      OBVIOUS
    <3> QED
      BY <1>2, <3>1
  <2> QED
    BY <1>2, <2>1, <2>2, <2>3 DEF LogShape, TypeOK
<1>3. CASE Reset
  BY <1>2, <1>3 DEF Reset, LogShape, TypeOK
<1>4. CASE Tick
  <2>1. /\ now \in Nat /\ now' = now + 1 /\ now' \in 0 .. MaxClock /\ sequence' = sequence
        /\ hits' \in SUBSET hits /\ hits' \subseteq (0 .. now') \X Nat
    BY <1>4 DEF Tick, LogShape, TypeOK
  <2>2. CASE Delete
    BY <1>2, <2>1, <2>2
  <2>3. CASE UNCHANGED <<log, logExp>>
    <3>1. log' = log /\ logExp' = logExp /\ IsFiniteSet(hits')
      BY <2>1, <2>3, FS_Subset DEF LogShape
    <3>2. /\ log \subseteq (0 .. now') \X {Pid[s] : s \in Replicas} \X (0 .. MaxCalls)
          /\ logExp \in -1 .. now' + Window
      BY <2>1 DEF LogShape, TypeOK
    <3> QED
      BY <2>1, <3>1, <3>2 DEF LogShape, TypeOK
  <2> QED
    BY <1>4, <2>2, <2>3 DEF Tick, Expire
<1>5. CASE UNCHANGED vars
  BY <1>5 DEF vars, LogShape, TypeOK
<1> QED
  BY <1>1, <1>3, <1>4, <1>5 DEF Next

LEMMA ShapeInvariant == Spec => []LogShape
<1>1. Init => LogShape
  BY InitMapped DEF LogInv, LogShape
<1> QED
  BY <1>1, ShapeStep, PTL DEF Spec

\* The set of lua-scripts.ts never holds more than Limit members, all from the
\* past, and its key lives no longer than a window, whatever the pids are.
THEOREM LogTypeCorrect == Spec => []TypeOK
<1>1. LogShape => TypeOK
  BY DEF LogShape
<1> QED
  BY <1>1, ShapeInvariant, PTL

-----------------------------------------------------------------------------
(* Retry-after *)

\* Every inhabited set of naturals has a least element.
LEMMA Least ==
  ASSUME NEW S, S \subseteq Nat, S # {}
  PROVE  \E s \in S : \A u \in S : s <= u
<1> DEFINE R == OpToRel(<, Nat)
<1>1. \E s \in S : \A u \in S : ~(<<u, s>> \in R)
  <2>1. IsWellFoundedOn(R, Nat)
    BY NatLessThanWellFounded
  <2> HIDE DEF R
  <2> QED
    BY <2>1, WFMin
<1>2. \A s, u \in Nat : ~(<<u, s>> \in R) => s <= u
  BY DEF OpToRel
<1> QED
  BY <1>1, <1>2

\* Oldest is the time of a member, and of none after another.
LEMMA OldestFacts ==
  ASSUME NEW L, L # {}, \A m \in L : m[1] \in Nat
  PROVE  /\ \E m \in L : m[1] = Oldest(L)
         /\ \A m \in L : Oldest(L) <= m[1]
         /\ Oldest(L) \in Nat
<1> DEFINE T == {m[1] : m \in L}
<1>1. \E s \in T : \A m \in L : s <= m[1]
  <2>1. T \subseteq Nat /\ T # {} /\ \A m \in L : m[1] \in T
    OBVIOUS
  <2> HIDE DEF T
  <2> QED
    BY <2>1, Least
<1>2. Oldest(L) \in T /\ \A m \in L : Oldest(L) <= m[1]
  BY <1>1 DEF Oldest
<1> QED
  BY <1>2

\* A full set loses its oldest member, and no other that matters, when the
\* retry-after has passed.
LEMMA FullUntilOldest ==
  ASSUME LogShape, ~Room(now)
  PROVE  /\ Kept(now) = log /\ log # {} /\ Cardinality(log) = Limit
         /\ RetryAfter(now) = Oldest(log) + Window - now
         /\ Oldest(log) \in Nat
<1> USE Constants
<1>1. now \in Nat /\ IsFiniteSet(log) /\ Cardinality(log) <= Limit /\ Kept(now) \in SUBSET log
      /\ \A m \in log : m[1] \in Nat /\ m[1] <= now
  BY DEF LogShape, TypeOK, Kept
<1>2. IsFiniteSet(Kept(now)) /\ Cardinality(Kept(now)) <= Cardinality(log)
      /\ (Cardinality(log) = Cardinality(Kept(now)) => log = Kept(now))
  BY <1>1, FS_Subset
<1>3. Cardinality(Kept(now)) \in Nat /\ Cardinality(log) \in Nat /\ Cardinality(Kept(now)) >= Limit
  BY <1>1, <1>2, FS_CardinalityType DEF Room
<1>4. Kept(now) = log /\ Cardinality(log) = Limit
  BY <1>1, <1>2, <1>3
<1>5. log # {}
  BY <1>4, FS_EmptySet
<1>6. PICK m \in log : m[1] = Oldest(log)
  BY <1>1, <1>5, OldestFacts
<1>7. Oldest(log) \in Nat /\ Oldest(log) > now - Window
  BY <1>1, <1>4, <1>6 DEF Kept
<1>8. Larger(0, Oldest(log) + Window - now) = Oldest(log) + Window - now
  BY <1>1, <1>7 DEF Larger
<1> QED
  BY <1>4, <1>5, <1>7, <1>8 DEF RetryAfter

\* sliding-window.ts: a rejected caller that waits exactly the retry-after of
\* the reply passes, and would not have passed one tick earlier.
THEOREM LogRetryAfterExact == Spec => []RetryAfterExact
<1>1. LogShape => RetryAfterExact
  <2> SUFFICES ASSUME LogShape, ~Room(now)
               PROVE  Room(now + RetryAfter(now)) /\ ~Room(now + RetryAfter(now) - 1)
    BY DEF RetryAfterExact
  <2> DEFINE o == Oldest(log)
             at == now + RetryAfter(now)
  <2>1. /\ log # {} /\ IsFiniteSet(log) /\ Cardinality(log) = Limit /\ now \in Nat
        /\ \A m \in log : m[1] \in Nat
    BY FullUntilOldest DEF LogShape, TypeOK
  <2>2. o \in Nat /\ at = o + Window /\ Limit \in Nat /\ Window \in Nat
    BY <2>1, FullUntilOldest, Constants
  <2>3. PICK m \in log : m[1] = o
    BY <2>1, OldestFacts
  <2>4. \A n \in log : o <= n[1]
    BY <2>1, OldestFacts
  <2> HIDE DEF o, at
  <2>5. Room(at)
    <3>1. Kept(at) \in SUBSET log /\ m \notin Kept(at)
      BY <2>2, <2>3 DEF Kept
    <3>2. IsFiniteSet(Kept(at)) /\ Cardinality(Kept(at)) <= Cardinality(log) /\ Cardinality(log) # Cardinality(Kept(at))
      BY <2>1, <2>3, <3>1, FS_Subset
    <3>3. Cardinality(Kept(at)) \in Nat
      BY <3>2, FS_CardinalityType
    <3> QED
      BY <2>1, <2>2, <3>2, <3>3 DEF Room
  <2>6. ~Room(at - 1)
    <3>1. Kept(at - 1) = log
      BY <2>1, <2>2, <2>4 DEF Kept
    <3> QED
      BY <2>1, <2>2, <3>1 DEF Room
  <2>7. at - 1 = now + RetryAfter(now) - 1
    <3>1. RetryAfter(now) \in Int
      BY <2>1, <2>2, FullUntilOldest DEF o
    <3> QED
      BY <2>1, <3>1 DEF at
  <2> QED
    BY <2>5, <2>6, <2>7 DEF at
<1> QED
  BY <1>1, ShapeInvariant, PTL
=============================================================================
