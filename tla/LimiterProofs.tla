--------------------------- MODULE LimiterProofs ---------------------------
(***************************************************************************)
(* Theorems about Limiter that hold for every value of its constants: each *)
(* algorithm keeps the promise of the limit in use, and turns nobody away  *)
(* without a reason, whatever other limits left in the state they share.   *)
(***************************************************************************)
EXTENDS Limiter, FiniteSetTheorems, WellFoundedInduction, TLAPS

-----------------------------------------------------------------------------
(* Which limit applies *)

\* The table does not change while checks run.
Stored == \E wishes \in Tables : table = Created(wishes)

LEMMA StoredInvariant == Spec => []Stored
<1>1. Init => Stored
  BY DEF Init, Stored
<1>2. [Next]_vars => UNCHANGED table
  BY DEF Next, vars, Check, CheckBucket, CheckLog, CheckCounter, Reset, ResetBucket, ResetLog,
         ResetCounter, Tick
<1>3. Stored /\ [Next]_vars => Stored'
  <2>1. Stored /\ UNCHANGED table => Stored'
    BY DEF Stored, Created
  <2> QED
    BY <1>2, <2>1
<1> QED
  BY <1>1, <1>3, PTL DEF Spec

\* Every limit a check may run under is a legal one, with a known window.
LEMMA LimitsLegal ==
  ASSUME Stored, NEW l \in EffectiveLimits
  PROVE  l \in LimitRecords /\ l.window \in Windows
<1>1. PICK over \in Overrides, ctx \in Contexts : l \in ResolveLimit(over, ctx)
  BY DEF EffectiveLimits
<1>2. over \in [algorithm : Algorithms \cup {None}, limit : Positive \cup {None},
                window : WholeWindow \cup {None}]
  BY LimiterAssumption
<1>3. \A i \in DOMAIN table : table[i].gives \in LimitRecords
  <2>1. PICK wishes \in Tables : table = Created(wishes)
    BY DEF Stored
  <2> QED
    BY <2>1, LimiterAssumption DEF Created, Row
<1>4. DOMAIN over = {"algorithm", "limit", "window"}
  BY <1>2
<1>5. over.window # None => over.window \in Windows
  BY DEF Windows
<1>6. Defaults.window \in Windows /\ \A i \in DOMAIN table : table[i].gives.window \in Windows
  BY DEF Windows
<1>7. ASSUME NEW base \in LimitRecords, base.window \in Windows
      PROVE  Merged(over, base) \in LimitRecords /\ Merged(over, base).window \in Windows
  BY <1>2, <1>5, <1>7 DEF Merged, Or, LimitRecords
<1>8. CASE \A f \in DOMAIN over : over[f] # None
  <2>1. l = over
    BY <1>1, <1>8 DEF ResolveLimit
  <2>2. over.algorithm # None /\ over.limit # None /\ over.window # None
    BY <1>4, <1>8
  <2> QED
    BY <1>2, <1>5, <2>1, <2>2 DEF LimitRecords
<1>9. CASE ~ \A f \in DOMAIN over : over[f] # None
  <2>1. \/ l = Merged(over, Defaults)
        \/ \E i \in Picks(table, ctx) : l = Merged(over, table[i].gives)
    BY <1>1, <1>9 DEF ResolveLimit
  <2>2. Picks(table, ctx) \subseteq DOMAIN table
    BY DEF Picks, Matches, EnabledIn
  <2> QED
    BY <1>3, <1>6, <1>7, <2>1, <2>2, LimiterAssumption
<1> QED
  BY <1>8, <1>9

-----------------------------------------------------------------------------
(* Histories *)

After(H, x)       == {h \in H : h[1] > x}
InWindow(H, w, i) == {h \in H : h[1] \div w = i}

\* Requests up to n, numbered within their tick.
History(H, n) ==
  /\ IsFiniteSet(H) /\ H \subseteq (Start .. n) \X Nat
  /\ \A h \in H : h[2] < Cardinality({g \in H : g[1] = h[1]})

Latest(H, n) == <<n, Cardinality({h \in H : h[1] = n})>>

LEMMA Times ==
  /\ Start \in Nat /\ Start > 0 /\ MaxClock \in Nat /\ Unit \in Nat /\ Unit > 0
BY LimiterAssumption DEF Positive

LEMMA Limits ==
  ASSUME NEW l \in LimitRecords
  PROVE  /\ l.limit \in Nat /\ l.limit > 0 /\ l.window \in Nat /\ l.window > 0
         /\ l.algorithm \in Algorithms /\ Unit % l.window = 0
BY DEF LimitRecords, Positive, WholeWindow

\* Any selection from a finite set is finite and no larger.
LEMMA Selection ==
  ASSUME NEW S, IsFiniteSet(S), NEW T \in SUBSET S
  PROVE  /\ IsFiniteSet(T) /\ Cardinality(T) \in Nat /\ Cardinality(S) \in Nat
         /\ Cardinality(T) <= Cardinality(S)
BY FS_Subset, FS_CardinalityType

\* One more element counts once.
LEMMA OneMore ==
  ASSUME NEW S, IsFiniteSet(S), NEW m, m \notin S
  PROVE  IsFiniteSet(S \cup {m}) /\ Cardinality(S \cup {m}) = Cardinality(S) + 1
BY FS_AddElement

\* A new request is not among those of its tick, and is numbered like them.
LEMMA HistoryGrows ==
  ASSUME NEW n \in Nat, n >= Start, NEW H, History(H, n)
  PROVE  Latest(H, n) \notin H /\ History(H \cup {Latest(H, n)}, n)
<1> DEFINE today == {h \in H : h[1] = n}
           c     == Cardinality(today)
           new   == <<n, c>>
           K     == H \cup {new}
<1>1. /\ IsFiniteSet(H) /\ H \subseteq (Start .. n) \X Nat
      /\ \A h \in H : h[2] < Cardinality({g \in H : g[1] = h[1]})
  BY DEF History
<1>2. IsFiniteSet(today) /\ c \in Nat
  BY <1>1, Selection
<1>3. new \notin H
  <2> SUFFICES ASSUME new \in H PROVE FALSE
    OBVIOUS
  <2>1. new[1] = n /\ new[2] = c
    OBVIOUS
  <2>2. new[2] < Cardinality({g \in H : g[1] = new[1]})
    BY <1>1
  <2> QED
    BY <1>2, <2>1, <2>2
<1>4. IsFiniteSet(K)
  <2> HIDE DEF new
  <2> QED
    BY <1>1, <1>3, OneMore
<1>5. K \subseteq (Start .. n) \X Nat
  BY <1>1, <1>2, Times
<1>6. ASSUME NEW h \in K PROVE h[2] < Cardinality({g \in K : g[1] = h[1]})
  <2>1. CASE h[1] = n
    <3>1. {g \in K : g[1] = h[1]} = today \cup {new}
      BY <2>1
    <3>2. new \notin today
      BY <1>3
    <3>3. Cardinality(today \cup {new}) = c + 1
      <4> HIDE DEF new, today
      <4> QED
        BY <1>2, <3>2, OneMore DEF c
    <3>4. h[2] \in Nat /\ h[2] <= c
      <4>1. CASE h = new
        BY <1>2, <4>1
      <4>2. CASE h # new
        <5>1. h \in H /\ {g \in H : g[1] = h[1]} = today
          BY <1>6, <2>1, <4>2
        <5> QED
          BY <1>1, <1>2, <5>1
      <4> QED
        BY <4>1, <4>2
    <3> HIDE DEF K, c, new, today
    <3>5. h[2] < c + 1
      BY <1>2, <3>4
    <3> QED
      BY <3>1, <3>3, <3>5, Zenon
  <2>2. CASE h[1] # n
    <3>1. h \in H /\ {g \in K : g[1] = h[1]} = {g \in H : g[1] = h[1]}
      BY <1>6, <2>2
    <3> QED
      BY <1>1, <3>1
  <2> QED
    BY <2>1, <2>2
<1>7. History(K, n)
  <2> HIDE DEF K
  <2> QED
    BY <1>4, <1>5, <1>6 DEF History
<1> QED
  BY <1>3, <1>7 DEF Latest

\* What is forgotten leaves whole ticks.
LEMMA HistoryShrinks ==
  ASSUME NEW n \in Nat, NEW H, History(H, n), NEW x \in Int, NEW k \in Nat, n <= k
  PROVE  History(After(H, x), k)
<1>1. /\ IsFiniteSet(H) /\ H \subseteq (Start .. n) \X Nat
      /\ \A h \in H : h[2] < Cardinality({g \in H : g[1] = h[1]})
  BY DEF History
<1>2. After(H, x) \in SUBSET H
  BY DEF After
<1>3. IsFiniteSet(After(H, x))
  BY <1>1, <1>2, Selection
<1>4. After(H, x) \subseteq (Start .. k) \X Nat
  <2>1. (Start .. n) \subseteq (Start .. k)
    BY Times
  <2> QED
    BY <1>1, <1>2, <2>1
<1>5. ASSUME NEW h \in After(H, x)
      PROVE  h[2] < Cardinality({g \in After(H, x) : g[1] = h[1]})
  <2>1. {g \in After(H, x) : g[1] = h[1]} = {g \in H : g[1] = h[1]}
    BY DEF After
  <2> QED
    BY <1>1, <1>2, <2>1
<1> QED
  BY <1>3, <1>4, <1>5 DEF History

LEMMA EmptyHistory == \A n : History({}, n)
BY FS_EmptySet DEF History

\* Counts of a history, and of one that has grown.
LEMMA Counts ==
  ASSUME NEW n \in Nat, n >= Start, NEW H, History(H, n)
  PROVE  LET K == H \cup {Latest(H, n)}
         IN  /\ \A x : IsFiniteSet(After(H, x)) /\ Cardinality(After(H, x)) \in Nat
             /\ \A x \in Int : Cardinality(After(K, x)) =
                  IF x < n THEN Cardinality(After(H, x)) + 1 ELSE Cardinality(After(H, x))
             /\ \A x \in Int : x >= n => After(H, x) = {}
<1> DEFINE new == Latest(H, n)
           K   == H \cup {new}
<1>1. IsFiniteSet(H) /\ new \notin H /\ new[1] = n /\ \A h \in H : h[1] \in Nat /\ h[1] <= n
  BY HistoryGrows, Times DEF History, Latest
<1> HIDE DEF new
<1>2. ASSUME NEW x
      PROVE  IsFiniteSet(After(H, x)) /\ Cardinality(After(H, x)) \in Nat
  <2>1. After(H, x) \in SUBSET H
    BY DEF After
  <2> QED
    BY <1>1, <2>1, Selection
<1>4. ASSUME NEW x \in Int
      PROVE  Cardinality(After(K, x)) =
               IF x < n THEN Cardinality(After(H, x)) + 1 ELSE Cardinality(After(H, x))
  <2>1. CASE x < n
    <3>1. After(K, x) = After(H, x) \cup {new} /\ new \notin After(H, x)
      BY <1>1, <2>1 DEF After
    <3> QED
      BY <1>2, <2>1, <3>1, OneMore
  <2>2. CASE ~(x < n)
    <3>1. After(K, x) = After(H, x)
      BY <1>1, <2>2 DEF After
    <3> QED
      BY <2>2, <3>1
  <2> QED
    BY <2>1, <2>2
<1>5. ASSUME NEW x \in Int, x >= n PROVE After(H, x) = {}
  BY <1>1, <1>5 DEF After
<1> QED
  BY <1>2, <1>4, <1>5 DEF new

LEMMA WindowCounts ==
  ASSUME NEW n \in Nat, n >= Start, NEW H, History(H, n), NEW w, NEW i
  PROVE  /\ IsFiniteSet(InWindow(H, w, i)) /\ Cardinality(InWindow(H, w, i)) \in Nat
         /\ n \div w = i => Cardinality(InWindow(H \cup {Latest(H, n)}, w, i)) =
                              Cardinality(InWindow(H, w, i)) + 1
         /\ n \div w # i => Cardinality(InWindow(H \cup {Latest(H, n)}, w, i)) =
                              Cardinality(InWindow(H, w, i))
<1> DEFINE new == Latest(H, n)
           K   == H \cup {new}
<1>1. IsFiniteSet(H) /\ new \notin H /\ new[1] = n
  BY HistoryGrows DEF History, Latest
<1> HIDE DEF new
<1>2. IsFiniteSet(InWindow(H, w, i)) /\ Cardinality(InWindow(H, w, i)) \in Nat
  <2>1. InWindow(H, w, i) \in SUBSET H
    BY DEF InWindow
  <2> QED
    BY <1>1, <2>1, Selection
<1>3. ASSUME n \div w = i
      PROVE  Cardinality(InWindow(K, w, i)) = Cardinality(InWindow(H, w, i)) + 1
  <2>1. InWindow(K, w, i) = InWindow(H, w, i) \cup {new} /\ new \notin InWindow(H, w, i)
    BY <1>1, <1>3, Zenon DEF InWindow
  <2> QED
    BY <1>2, <2>1, OneMore
<1>4. ASSUME n \div w # i
      PROVE  Cardinality(InWindow(K, w, i)) = Cardinality(InWindow(H, w, i))
  <2>1. InWindow(K, w, i) = InWindow(H, w, i)
    BY <1>1, <1>4, Zenon DEF InWindow
  <2> QED
    BY <2>1, Zenon
<1> QED
  BY <1>2, <1>3, <1>4, Zenon DEF new

-----------------------------------------------------------------------------
(* The balance of a bucket, in units *)

CapOf(l)  == l.limit * Unit
RateOf(l) == (l.limit * Unit) \div l.window

Lesser(a, b) == IF a <= b THEN a ELSE b

\* The quotient of naturals is the largest whole number of divisors that fits.
LEMMA Quotient ==
  ASSUME NEW a \in Nat, NEW b \in Nat, b > 0
  PROVE  /\ a \div b \in Nat
         /\ (a \div b) * b <= a
         /\ a < (a \div b) * b + b
OBVIOUS

\* A quotient is known by its product.
LEMMA QuotientIs ==
  ASSUME NEW a \in Nat, NEW b \in Nat, b > 0, NEW q \in Nat, q * b <= a, a < q * b + b
  PROVE  a \div b = q
<1> DEFINE p == a \div b
<1>1. p \in Nat /\ p * b <= a /\ a < p * b + b
  BY Quotient
<1> HIDE DEF p
<1>2. (p + 1) * b = p * b + b /\ (q + 1) * b = q * b + b
  BY <1>1
<1>3. p * b \in Nat /\ q * b \in Nat
  BY <1>1
<1>4. \A x, y \in Nat : x >= y => x * b >= y * b
  OBVIOUS
<1>5. ~(p >= q + 1)
  <2> SUFFICES ASSUME p >= q + 1 PROVE FALSE
    OBVIOUS
  <2>1. p * b >= (q + 1) * b
    BY <1>1, <1>4
  <2> DEFINE P == p * b
             Q == q * b
  <2>2. P \in Nat /\ Q \in Nat /\ P >= Q + b /\ P <= a /\ a < Q + b
    BY <1>1, <1>2, <1>3, <2>1
  <2> HIDE DEF P, Q
  <2> QED
    BY <2>2
<1>6. ~(q >= p + 1)
  <2> SUFFICES ASSUME q >= p + 1 PROVE FALSE
    OBVIOUS
  <2>1. q * b >= (p + 1) * b
    BY <1>1, <1>4
  <2> DEFINE P == p * b
             Q == q * b
  <2>2. P \in Nat /\ Q \in Nat /\ Q >= P + b /\ Q <= a /\ a < P + b
    BY <1>1, <1>2, <1>3, <2>1
  <2> HIDE DEF P, Q
  <2> QED
    BY <2>2
<1>7. p = q
  BY <1>1, <1>5, <1>6
<1> QED
  BY <1>7 DEF p

\* A window accrues exactly a capacity.
LEMMA Rates ==
  ASSUME NEW l \in LimitRecords
  PROVE  /\ CapOf(l) \in Nat /\ RateOf(l) \in Nat /\ RateOf(l) > 0 /\ Unit <= CapOf(l)
         /\ RateOf(l) * l.window = CapOf(l)
<1> DEFINE L == l.limit
           w == l.window
           u == Unit \div w
<1>1. L \in Nat /\ L > 0 /\ w \in Nat /\ w > 0 /\ Unit % w = 0 /\ Unit \in Nat /\ Unit > 0
  BY Limits, Times
<1> HIDE DEF L, w
<1>2. u \in Nat /\ Unit = u * w
  BY <1>1
<1> HIDE DEF u
<1>3. (L * u) * w = L * (u * w) /\ L * u \in Nat /\ L * Unit \in Nat
  BY <1>1, <1>2
<1>4. (L * u) * w = L * Unit
  BY <1>2, <1>3
<1> DEFINE q == L * u
           a == L * Unit
<1>5. q \in Nat /\ a \in Nat /\ q * w = a
  BY <1>3, <1>4
<1> HIDE DEF q, a
<1>6. a \div w = q
  <2>1. q * w <= a /\ a < q * w + w
    BY <1>1, <1>5
  <2> QED
    BY <1>1, <1>5, <2>1, QuotientIs
<1>7. Unit <= a
  BY <1>1 DEF a
<1>8. q > 0
  <2>1. 0 * w = 0
    BY <1>1
  <2> QED
    BY <1>1, <1>5, <1>7, <2>1
<1> QED
  BY <1>5, <1>6, <1>7, <1>8 DEF CapOf, RateOf, q, a, L, w

\* A linear law, for products of any two numbers and a positive one.
LEMMA Linear ==
  ASSUME NEW a \in Int, NEW b \in Int, NEW c \in Nat
  PROVE  /\ a * c \in Int /\ (a + b) * c = a * c + b * c
         /\ (a <= b => a * c <= b * c) /\ (a >= 0 => a * c >= 0)
<1>1. \A x, y \in Int : x <= y => x * c <= y * c
  OBVIOUS
<1> QED
  BY <1>1

\* What passed after x, with what is left, is a burst and the accrual since.
Upper(l, H, lv, n) ==
  \A x \in Int : x < n =>
    Cardinality(After(H, x)) * Unit + lv <= CapOf(l) + (n - x - 1) * RateOf(l)

\* What is left, with what passed after x, is at least the accrual since, up to
\* a full bucket; for x from s on, within a window.
Lower(l, H, lv, n, s) ==
  \A x \in Int : s <= x /\ x <= n /\ x >= n - l.window =>
    Lesser(CapOf(l), (n - x) * RateOf(l)) <= lv + Cardinality(After(H, x)) * Unit

\* A fresh history starts with what the bucket holds.
LEMMA StartBalance ==
  ASSUME NEW l \in LimitRecords, NEW lv \in 0 .. CapOf(l), NEW n \in Nat
  PROVE  Upper(l, {}, lv, n) /\ Lower(l, {}, lv, n, n)
<1>1. /\ CapOf(l) \in Nat /\ RateOf(l) \in Nat /\ Unit \in Nat
      /\ \A x : Cardinality(After({}, x)) = 0
      /\ 0 * Unit = 0 /\ 0 * RateOf(l) = 0
  <2>1. \A x : Cardinality(After({}, x)) = 0
    <3>1. \A x : After({}, x) = {}
      BY DEF After
    <3> QED
      BY <3>1, FS_EmptySet
  <2>2. CapOf(l) \in Nat /\ RateOf(l) \in Nat /\ Unit \in Nat
    BY Rates, Times
  <2>3. \A c \in Nat : 0 * c = 0
    OBVIOUS
  <2> QED
    BY <2>1, <2>2, <2>3
<1>2. ASSUME NEW x \in Int, x < n
      PROVE  Cardinality(After({}, x)) * Unit + lv <= CapOf(l) + (n - x - 1) * RateOf(l)
  <2> DEFINE P == (n - x - 1) * RateOf(l)
  <2>1. P \in Int /\ P >= 0
    <3>1. n - x - 1 \in Int /\ n - x - 1 >= 0
      BY <1>2
    <3> QED
      BY <1>1, <3>1, Linear
  <2> HIDE DEF P
  <2>2. 0 * Unit + lv <= CapOf(l) + P
    BY <1>1, <2>1
  <2> QED
    BY <1>1, <2>2, Zenon DEF P
<1>3. ASSUME NEW x \in Int, n <= x, x <= n
      PROVE  Lesser(CapOf(l), (n - x) * RateOf(l)) <= lv + Cardinality(After({}, x)) * Unit
  <2>1. n - x = 0
    BY <1>3
  <2>2. Lesser(CapOf(l), 0 * RateOf(l)) <= lv + 0 * Unit
    BY <1>1 DEF Lesser
  <2> QED
    BY <1>1, <2>1, <2>2, Zenon
<1> QED
  BY <1>2, <1>3 DEF Upper, Lower

\* A full bucket has nothing left to accrue.
LEMMA FullBalance ==
  ASSUME NEW l \in LimitRecords, NEW n \in Nat, NEW s
  PROVE  Lower(l, {}, CapOf(l), n, s)
<1>1. CapOf(l) \in Nat /\ RateOf(l) \in Nat /\ Unit \in Nat /\ 0 * Unit = 0
  BY Rates, Times
<1>2. \A x : Cardinality(After({}, x)) = 0
  <2>1. \A x : After({}, x) = {}
    BY DEF After
  <2> QED
    BY <2>1, FS_EmptySet
<1>3. \A x \in Int : (n - x) * RateOf(l) \in Int
  BY <1>1, Linear
<1>4. \A p \in Int : Lesser(CapOf(l), p) <= CapOf(l) + 0 * Unit
  BY <1>1 DEF Lesser
<1> QED
  BY <1>2, <1>3, <1>4 DEF Lower

\* A request that passes takes its cost.
LEMMA PassBalance ==
  ASSUME NEW l \in LimitRecords, NEW lv \in Unit .. CapOf(l), NEW n \in Nat, n >= Start,
         NEW H, History(H, n), NEW s,
         Upper(l, H, lv, n), Lower(l, H, lv, n, s)
  PROVE  LET K == H \cup {Latest(H, n)}
         IN  Upper(l, K, lv - Unit, n) /\ (s \in Nat => Lower(l, K, lv - Unit, n, s))
<1> DEFINE K == H \cup {Latest(H, n)}
<1>1. CapOf(l) \in Nat /\ RateOf(l) \in Nat /\ Unit \in Nat /\ lv \in Nat /\ lv >= Unit
  BY Rates, Times
<1>2. \A x \in Int :
        /\ Cardinality(After(H, x)) \in Nat
        /\ x < n => Cardinality(After(K, x)) = Cardinality(After(H, x)) + 1
        /\ x >= n => Cardinality(After(K, x)) = Cardinality(After(H, x))
  <2>1. \A x : Cardinality(After(H, x)) \in Nat
    BY Counts
  <2>2. \A x \in Int : Cardinality(After(K, x)) =
          IF x < n THEN Cardinality(After(H, x)) + 1 ELSE Cardinality(After(H, x))
    BY Counts
  <2> HIDE DEF K
  <2> QED
    BY <2>1, <2>2
<1> HIDE DEF K
<1>3. \A c \in Nat : c * Unit \in Nat /\ (c + 1) * Unit = c * Unit + Unit
  BY <1>1
<1>4. ASSUME NEW x \in Int, x < n
      PROVE  /\ Cardinality(After(K, x)) * Unit + (lv - Unit)
                  = Cardinality(After(H, x)) * Unit + lv
             /\ (lv - Unit) + Cardinality(After(K, x)) * Unit
                  = lv + Cardinality(After(H, x)) * Unit
  <2> DEFINE c == Cardinality(After(H, x))
             C == c * Unit
  <2>1. c \in Nat /\ Cardinality(After(K, x)) = c + 1
    BY <1>2, <1>4
  <2>2. C \in Nat /\ (c + 1) * Unit = C + Unit
    BY <1>3, <2>1
  <2> HIDE DEF c, C
  <2>3. (C + Unit) + (lv - Unit) = C + lv /\ (lv - Unit) + (C + Unit) = lv + C
    BY <1>1, <2>2
  <2> QED
    BY <2>1, <2>2, <2>3, Zenon DEF c, C
<1>5. Upper(l, K, lv - Unit, n)
  BY <1>4 DEF Upper
<1>6. ASSUME NEW x \in Int, s <= x, x <= n, x >= n - l.window, s \in Nat
      PROVE  Lesser(CapOf(l), (n - x) * RateOf(l)) <= (lv - Unit) + Cardinality(After(K, x)) * Unit
  <2>1. CASE x < n
    <3>1. Lesser(CapOf(l), (n - x) * RateOf(l)) <= lv + Cardinality(After(H, x)) * Unit
      BY <1>6 DEF Lower
    <3> QED
      BY <1>4, <2>1, <3>1, Zenon
  <2>2. CASE x = n
    <3>1. n - x = 0 /\ 0 * RateOf(l) = 0
      BY <1>1, <2>2
    <3> DEFINE C == Cardinality(After(K, x)) * Unit
    <3>2. C \in Nat
      BY <1>2, <1>3, <2>2
    <3> HIDE DEF C
    <3>3. Lesser(CapOf(l), 0) <= (lv - Unit) + C
      BY <1>1, <3>2 DEF Lesser
    <3> QED
      BY <3>1, <3>3 DEF C
  <2> QED
    BY <1>6, <2>1, <2>2
<1>7. s \in Nat => Lower(l, K, lv - Unit, n, s)
  BY <1>6 DEF Lower
<1> QED
  BY <1>5, <1>7 DEF K

\* A tick accrues, and brings nothing to pay for.
LEMMA TickBalance ==
  ASSUME NEW l \in LimitRecords, NEW lv \in 0 .. CapOf(l), NEW n \in Nat, n >= Start,
         NEW H, History(H, n), NEW s \in Nat,
         NEW z \in Nat, z = s \/ s <= n + 1 - l.window,
         Upper(l, H, lv, n), Lower(l, H, lv, n, s)
  PROVE  LET K  == After(H, n + 1 - 2 * l.window)
             lw == Lesser(lv + RateOf(l), CapOf(l))
         IN  Upper(l, K, lw, n + 1) /\ Lower(l, K, lw, n + 1, z)
<1> DEFINE R  == RateOf(l)
           C  == CapOf(l)
           W  == l.window
           K  == After(H, n + 1 - 2 * W)
           lw == Lesser(lv + R, C)
<1>1. /\ C \in Nat /\ R \in Nat /\ Unit \in Nat /\ lv \in Nat /\ lv <= C
      /\ W \in Nat /\ W > 0
  BY Rates, Times, Limits
<1>2. /\ IsFiniteSet(H) /\ K \in SUBSET H
      /\ \A x : Cardinality(After(H, x)) \in Nat
      /\ \A x \in Int : x >= n => After(H, x) = {}
  <2>1. IsFiniteSet(H) /\ K \in SUBSET H
    BY DEF History, After
  <2>2. \A x : Cardinality(After(H, x)) \in Nat
    BY Counts
  <2>3. \A x \in Int : x >= n => After(H, x) = {}
    BY Counts
  <2> QED
    BY <2>1, <2>2, <2>3
<1>3. \A x \in Int : x >= n + 1 - W => After(K, x) = After(H, x)
  <2>1. \A h \in H : h[1] \in Nat
    BY Times DEF History
  <2> QED
    BY <1>1, <2>1 DEF After
<1>4. \A x \in Int : /\ Cardinality(After(K, x)) \in Nat
                     /\ Cardinality(After(K, x)) <= Cardinality(After(H, x))
                     /\ x >= n => Cardinality(After(K, x)) = 0
  <2> TAKE x \in Int
  <2>1. After(K, x) \in SUBSET After(H, x) /\ IsFiniteSet(After(H, x))
    <3>1. IsFiniteSet(After(H, x))
      BY Counts
    <3> QED
      BY <1>2, <3>1 DEF After
  <2>2. x >= n => After(K, x) = {}
    BY <1>2, <2>1
  <2> QED
    BY <2>1, <2>2, Selection, FS_EmptySet
<1> HIDE DEF K, W
<1>5. /\ lw \in Nat /\ lw <= C /\ lw <= lv + R /\ (lw = C \/ lw = lv + R)
  BY <1>1 DEF Lesser
<1>6. \A a, b \in Nat : a <= b => a * Unit \in Nat /\ b * Unit \in Nat /\ a * Unit <= b * Unit
  BY <1>1, Linear
<1>7. \A a \in Int : a * R \in Int /\ (a + 1) * R = a * R + R /\ (a >= 0 => a * R >= 0)
  <2>1. \A a \in Int : (a + 1) * R = a * R + R
    BY <1>1
  <2> QED
    BY <1>1, <2>1, Linear
<1> HIDE DEF R, C, lw
<1>8. ASSUME NEW x \in Int, x < n + 1
      PROVE  Cardinality(After(K, x)) * Unit + lw <= C + (n + 1 - x - 1) * R
  <2> DEFINE P == (n - x - 1) * R
             A == Cardinality(After(H, x)) * Unit
             B == Cardinality(After(K, x)) * Unit
  <2>1. A \in Nat /\ B \in Nat /\ B <= A
    BY <1>2, <1>4, <1>6
  <2>2. n + 1 - x - 1 = (n - x - 1) + 1 /\ n - x - 1 \in Int
    OBVIOUS
  <2>3. P \in Int /\ (n + 1 - x - 1) * R = P + R
    <3>1. ((n - x - 1) + 1) * R = P + R
      BY <1>7, <2>2
    <3> QED
      BY <1>7, <2>2, <3>1, Zenon
  <2>4. CASE x < n
    <3>1. A + lv <= C + P
      BY <2>4 DEF Upper, C, R
    <3> HIDE DEF A, B, P
    <3>2. B + lw <= C + (P + R)
      BY <1>1, <1>5, <2>1, <2>3, <3>1
    <3> QED
      BY <2>3, <3>2, Zenon DEF B
  <2>5. CASE x = n
    <3>1. B = 0
      <4>1. Cardinality(After(K, x)) = 0
        BY <1>4, <2>5
      <4>2. 0 * Unit = 0
        BY <1>1
      <4> QED
        BY <4>1, <4>2, Zenon
    <3>2. P + R >= 0
      <4>1. n + 1 - x - 1 = 0
        BY <2>5
      <4>2. (n + 1 - x - 1) * R >= 0
        BY <1>7, <4>1
      <4> QED
        BY <2>3, <4>2
    <3> HIDE DEF B, P
    <3>3. B + lw <= C + (P + R)
      BY <1>1, <1>5, <2>3, <3>1, <3>2
    <3> QED
      BY <2>3, <3>3, Zenon DEF B
  <2> QED
    BY <1>8, <2>4, <2>5
<1>9. ASSUME NEW x \in Int, z <= x, x <= n + 1, x >= n + 1 - W
      PROVE  Lesser(C, (n + 1 - x) * R) <= lw + Cardinality(After(K, x)) * Unit
  <2> DEFINE P == (n - x) * R
             B == Cardinality(After(K, x)) * Unit
  <2>1. B \in Nat
    BY <1>4, <1>6
  <2>2. P \in Int /\ (n + 1 - x) * R = P + R
    <3>1. n + 1 - x = (n - x) + 1 /\ n - x \in Int
      OBVIOUS
    <3>2. P \in Int /\ ((n - x) + 1) * R = P + R
      BY <1>7, <3>1
    <3> QED
      BY <3>1, <3>2, Zenon
  <2>3. CASE x <= n
    <3>1. s <= x /\ x >= n - W
      BY <1>1, <1>9 DEF W
    <3>2. Lesser(C, P) <= lv + B
      <4>1. Lesser(C, P) <= lv + Cardinality(After(H, x)) * Unit
        BY <2>3, <3>1 DEF Lower, C, R, W
      <4> QED
        BY <1>3, <1>9, <4>1
    <3> HIDE DEF P, B
    <3>3. Lesser(C, P + R) <= lw + B
      BY <1>1, <1>5, <2>1, <2>2, <3>2 DEF Lesser
    <3> QED
      BY <2>2, <3>3, Zenon DEF B
  <2>4. CASE x = n + 1
    <3>1. n + 1 - x = 0 /\ 0 * R = 0
      BY <1>1, <2>4
    <3> HIDE DEF P, B
    <3>2. Lesser(C, 0) <= lw + B
      BY <1>1, <1>5, <2>1 DEF Lesser
    <3> QED
      BY <3>1, <3>2, Zenon DEF B
  <2> QED
    BY <1>9, <2>3, <2>4
<1>10. Upper(l, K, lw, n + 1)
  BY <1>8 DEF Upper, C, R
<1>11. Lower(l, K, lw, n + 1, z)
  <2>1. \A x \in Int : z <= x /\ x <= n + 1 /\ x >= (n + 1) - W =>
          Lesser(C, ((n + 1) - x) * R) <= lw + Cardinality(After(K, x)) * Unit
    <3>1. \A x \in Int : n + 1 - x = (n + 1) - x /\ n + 1 - W = (n + 1) - W
      BY <1>1 DEF W
    <3> QED
      BY <1>9, <3>1, Zenon
  <2> QED
    BY <2>1, Zenon DEF Lower, C, R, W
<1> QED
  BY <1>10, <1>11 DEF K, lw, C, R, W

\* What a burst and the accrual of k ticks pay for, in requests.
LEMMA PaidRequests ==
  ASSUME NEW l \in LimitRecords, NEW n \in Nat, NEW k \in Nat,
         n * Unit <= CapOf(l) + k * RateOf(l)
  PROVE  n <= l.limit + (l.limit * k) \div l.window
<1> DEFINE L == l.limit
           W == l.window
           R == RateOf(l)
           U == Unit
<1>1. L \in Nat /\ U \in Nat /\ U > 0 /\ W \in Nat /\ W > 0 /\ R \in Nat /\ R * W = L * U
  BY Limits, Rates, Times DEF CapOf
<1>2. n * U <= L * U + k * R
  BY DEF CapOf
<1> HIDE DEF L, W, R, U
<1> DEFINE a == L * k
           q == a \div W
           m == n - L
<1>3. a \in Nat
  BY <1>1
<1>4. q \in Nat /\ a < q * W + W
  <2> HIDE DEF a
  <2> QED
    BY <1>1, <1>3, Quotient
<1> HIDE DEF q
<1>5. CASE n <= L
  BY <1>1, <1>4, <1>5 DEF q, L, W
<1>6. CASE n > L
  <2>1. m \in Nat /\ n = m + L
    BY <1>1, <1>6
  <2> HIDE DEF m
  <2>2. n * U = m * U + L * U /\ m * U \in Nat /\ L * U \in Nat /\ k * R \in Nat
    BY <1>1, <2>1
  <2>3. m * U <= k * R
    <3> DEFINE M == m * U
               N == L * U
               K == k * R
    <3>1. M \in Nat /\ N \in Nat /\ K \in Nat /\ M + N <= N + K
      BY <1>2, <2>2
    <3> HIDE DEF M, N, K
    <3>2. M <= K
      BY <3>1
    <3> QED
      BY <3>2 DEF M, K
  <2>4. (m * U) * W <= (k * R) * W
    BY <1>1, <2>2, <2>3, Linear
  <2>5. (k * R) * W = k * (R * W) /\ k * (L * U) = a * U /\ (m * U) * W = (m * W) * U
    BY <1>1, <2>1
  <2>6. (m * W) * U <= a * U
    BY <1>1, <2>4, <2>5
  <2>7. m * W \in Nat
    BY <1>1, <2>1
  <2> DEFINE V == m * W
  <2> HIDE DEF a
  <2>8. V <= a
    <3>1. V \in Nat /\ V * U <= a * U
      BY <2>6, <2>7
    <3> HIDE DEF V
    <3> QED
      BY <1>1, <1>3, <3>1
  <2>9. m * W < (q + 1) * W
    <3> DEFINE Q == q * W
    <3>1. V \in Nat /\ Q \in Nat /\ a < Q + W /\ (q + 1) * W = Q + W
      BY <1>1, <1>4, <2>7
    <3> HIDE DEF V, Q
    <3>2. V < Q + W
      BY <1>1, <1>3, <2>8, <3>1
    <3> QED
      BY <3>1, <3>2 DEF V
  <2>10. ~(m >= q + 1)
    <3> SUFFICES ASSUME m >= q + 1 PROVE FALSE
      OBVIOUS
    <3>1. (q + 1) * W <= m * W /\ (q + 1) * W \in Int
      BY <1>1, <1>4, <2>1, Linear
    <3> QED
      BY <2>7, <2>9, <3>1
  <2>11. n <= L + q
    BY <1>1, <1>4, <2>1, <2>10
  <2> QED
    BY <2>11 DEF q, a, L, W
<1> QED
  BY <1>1, <1>5, <1>6

\* The balance keeps the promise of the bucket, to the request.
LEMMA UpperWithin ==
  ASSUME NEW l \in LimitRecords, NEW lv \in 0 .. CapOf(l), NEW n \in Nat, n >= Start,
         NEW H, History(H, n), Upper(l, H, lv, n), NEW d \in Nat, d >= 1
  PROVE  Cardinality(After(H, n - d)) <= l.limit + (l.limit * (d - 1)) \div l.window
<1> DEFINE c == Cardinality(After(H, n - d))
<1>1. n - d \in Int /\ n - d < n /\ n - (n - d) - 1 = d - 1 /\ d - 1 \in Nat
  OBVIOUS
<1>2. c \in Nat
  BY Counts
<1>3. c * Unit + lv <= CapOf(l) + (d - 1) * RateOf(l)
  <2>1. c * Unit + lv <= CapOf(l) + (n - (n - d) - 1) * RateOf(l)
    BY <1>1 DEF Upper
  <2> QED
    BY <1>1, <2>1, Zenon
<1> HIDE DEF c
<1>4. c * Unit <= CapOf(l) + (d - 1) * RateOf(l)
  <2> DEFINE A == c * Unit
             B == (d - 1) * RateOf(l)
  <2>1. A \in Nat /\ B \in Int /\ CapOf(l) \in Nat /\ lv \in Nat /\ A + lv <= CapOf(l) + B
    <3>1. (d - 1) * RateOf(l) \in Int
      BY <1>1, Rates, Linear
    <3>2. c * Unit \in Nat
      BY <1>2, Times
    <3> QED
      BY <1>3, <3>1, <3>2, Rates
  <2> HIDE DEF A, B
  <2>2. A <= CapOf(l) + B
    BY <2>1
  <2> QED
    BY <2>2 DEF A, B
<1> QED
  BY <1>1, <1>2, <1>4, PaidRequests DEF c

\* A balance that cannot pay has been spent within the window.
LEMMA LowerDeserved ==
  ASSUME NEW l \in LimitRecords, NEW lv \in 0 .. CapOf(l), lv < Unit, NEW n \in Nat, n >= Start,
         NEW H, History(H, n), NEW s \in Nat, s <= n - l.window, Lower(l, H, lv, n, s)
  PROVE  Cardinality(After(H, n - l.window)) >= l.limit
<1> DEFINE c == Cardinality(After(H, n - l.window))
           L == l.limit
<1>1. /\ l.window \in Nat /\ l.window > 0 /\ L \in Nat /\ Unit \in Nat /\ Unit > 0
      /\ RateOf(l) \in Nat /\ CapOf(l) \in Nat /\ CapOf(l) = L * Unit
      /\ n - (n - l.window) = l.window /\ n - l.window \in Int /\ n - l.window <= n
  BY Limits, Rates, Times DEF CapOf
<1>2. c \in Nat
  BY Counts
<1>3. l.window * RateOf(l) = CapOf(l)
  BY <1>1, Rates
<1>4. CapOf(l) <= lv + c * Unit
  <2>1. Lesser(CapOf(l), (n - (n - l.window)) * RateOf(l)) <= lv + c * Unit
    BY <1>1 DEF Lower
  <2>2. Lesser(CapOf(l), l.window * RateOf(l)) <= lv + c * Unit
    BY <1>1, <2>1, Zenon
  <2> QED
    BY <1>3, <2>2 DEF Lesser
<1> HIDE DEF c, L
<1>5. ~(c + 1 <= L)
  <2> SUFFICES ASSUME c + 1 <= L PROVE FALSE
    OBVIOUS
  <2>1. (c + 1) * Unit <= L * Unit /\ (c + 1) * Unit = c * Unit + Unit /\ c * Unit \in Nat
    <3>1. \A a, b \in Nat : a <= b => a * Unit <= b * Unit
      BY <1>1, Linear
    <3>2. (c + 1) * Unit = c * Unit + Unit /\ c * Unit \in Nat
      BY <1>1, <1>2
    <3> QED
      BY <1>1, <1>2, <3>1, <3>2
  <2> DEFINE A == c * Unit
             B == L * Unit
  <2>2. A \in Nat /\ B \in Nat /\ A + Unit <= B /\ B <= lv + A
    BY <1>1, <1>4, <2>1
  <2> HIDE DEF A, B
  <2> QED
    BY <1>1, <2>2
<1> QED
  BY <1>1, <1>2, <1>5 DEF c, L

-----------------------------------------------------------------------------
(* Limits in use *)

LegalLimits == {l \in LimitRecords : l.window \in Windows}

HistoryInv ==
  /\ now \in Start .. MaxClock
  /\ used \in [Algorithms -> LegalLimits \cup {None}]
  /\ since \in [Algorithms -> 0 .. now]
  /\ DOMAIN passed = Algorithms /\ passed = [a \in Algorithms |-> passed[a]]
  /\ \A a \in Algorithms : History(passed[a], now)
  /\ \A a \in Algorithms : used[a] = None => passed[a] = {} /\ since[a] = 0

\* The history a check under l goes on with, and since when.
Base(l)  == IF used[l.algorithm] \in {None, l} THEN passed[l.algorithm] ELSE {}
Begun(l) == IF used[l.algorithm] \in {None, l} THEN since[l.algorithm] ELSE now

\* A step leaves what is known of an algorithm alone.
Unaccounted(a) == used'[a] = used[a] /\ since'[a] = since[a] /\ passed'[a] = passed[a]

LEMMA NowFacts ==
  ASSUME HistoryInv
  PROVE  now \in Nat /\ now >= Start /\ now <= MaxClock
BY Times DEF HistoryInv

LEMMA BaseFacts ==
  ASSUME HistoryInv, NEW l \in LimitRecords
  PROVE  History(Base(l), now) /\ Begun(l) \in Nat /\ Begun(l) <= now
<1>1. l.algorithm \in Algorithms
  BY Limits
<1> QED
  BY <1>1, EmptyHistory, NowFacts DEF Base, Begun, HistoryInv

LEMMA AccountEffect ==
  ASSUME HistoryInv, NEW l \in LegalLimits, NEW ok \in BOOLEAN, Account(l, ok),
         UNCHANGED <<table, now>>
  PROVE  /\ HistoryInv'
         /\ used'[l.algorithm] = l /\ since'[l.algorithm] = Begun(l)
         /\ passed'[l.algorithm] =
              IF ok THEN Base(l) \cup {Latest(Base(l), now)} ELSE Base(l)
         /\ \A a \in Algorithms \ {l.algorithm} : Unaccounted(a)
<1> DEFINE a == l.algorithm
           K == IF ok THEN Base(l) \cup {Latest(Base(l), now)} ELSE Base(l)
<1>1. l \in LimitRecords /\ a \in Algorithms /\ l # None /\ now' = now
  BY Limits, LimiterAssumption DEF LegalLimits
<1>2. History(Base(l), now) /\ Begun(l) \in Nat /\ Begun(l) <= now
  BY <1>1, BaseFacts
<1>3. now \in Nat /\ now >= Start
  BY NowFacts
<1>4. History(K, now)
  BY <1>2, <1>3, HistoryGrows
<1>5. /\ used' = [used EXCEPT ![a] = l]
      /\ since' = [since EXCEPT ![a] = Begun(l)]
      /\ passed' = [passed EXCEPT ![a] = K]
  <2>1. since' = [since EXCEPT ![a] = Begun(l)]
    BY DEF Account, Begun
  <2>2. passed' = [passed EXCEPT ![a] = K]
    BY DEF Account, Base, Latest
  <2> QED
    BY <2>1, <2>2 DEF Account
<1> HIDE DEF a, K
<1>6. DOMAIN used = Algorithms /\ DOMAIN since = Algorithms /\ DOMAIN passed = Algorithms
  BY DEF HistoryInv
<1>7. /\ used'[a] = l /\ since'[a] = Begun(l) /\ passed'[a] = K
      /\ \A b \in Algorithms \ {a} : used'[b] = used[b] /\ since'[b] = since[b] /\ passed'[b] = passed[b]
      /\ DOMAIN passed' = Algorithms /\ passed' = [b \in Algorithms |-> passed'[b]]
  BY <1>1, <1>5, <1>6
<1>8. HistoryInv'
  <2>1. LegalLimits' = LegalLimits
    BY DEF LegalLimits, Windows
  <2>2. used' \in [Algorithms -> LegalLimits' \cup {None}]
    BY <1>1, <1>5, <2>1 DEF HistoryInv
  <2>3. since' \in [Algorithms -> 0 .. now']
    BY <1>1, <1>2, <1>3, <1>5 DEF HistoryInv
  <2>4. \A b \in Algorithms : History(passed'[b], now')
    BY <1>1, <1>4, <1>7 DEF HistoryInv
  <2>5. \A b \in Algorithms : used'[b] = None => passed'[b] = {} /\ since'[b] = 0
    BY <1>1, <1>7 DEF HistoryInv
  <2>6. now' \in Start .. MaxClock
    BY <1>1 DEF HistoryInv
  <2> QED
    BY <1>7, <2>2, <2>3, <2>4, <2>5, <2>6 DEF HistoryInv
<1> QED
  BY <1>7, <1>8 DEF a, K, Unaccounted

LEMMA RestartEffect ==
  ASSUME HistoryInv, NEW a \in Algorithms, NEW clean \in BOOLEAN, Restart(a, clean),
         UNCHANGED <<table, now>>
  PROVE  /\ HistoryInv' /\ used' = used
         /\ clean => since'[a] = 0 /\ passed'[a] = {}
         /\ ~clean => Unaccounted(a)
         /\ \A b \in Algorithms \ {a} : Unaccounted(b)
<1>1. /\ used' = used /\ now' = now
      /\ since' = IF clean THEN [since EXCEPT ![a] = 0] ELSE since
      /\ passed' = IF clean THEN [passed EXCEPT ![a] = {}] ELSE passed
  BY DEF Restart
<1>2. DOMAIN since = Algorithms /\ DOMAIN passed = Algorithms
  BY DEF HistoryInv
<1>3. /\ clean => since'[a] = 0 /\ passed'[a] = {}
      /\ ~clean => since'[a] = since[a] /\ passed'[a] = passed[a]
      /\ \A b \in Algorithms \ {a} : since'[b] = since[b] /\ passed'[b] = passed[b]
      /\ DOMAIN passed' = Algorithms /\ passed' = [b \in Algorithms |-> passed'[b]]
  <2>1. CASE clean
    BY <1>1, <1>2, <2>1
  <2>2. CASE ~clean
    BY <1>1, <1>2, <2>2 DEF HistoryInv
  <2> QED
    BY <2>1, <2>2
<1>4. HistoryInv'
  <2>1. LegalLimits' = LegalLimits
    BY DEF LegalLimits, Windows
  <2>2. used' \in [Algorithms -> LegalLimits' \cup {None}]
    BY <1>1, <2>1 DEF HistoryInv
  <2>3. since' \in [Algorithms -> 0 .. now']
    <3>1. 0 \in 0 .. now
      BY NowFacts
    <3> QED
      BY <1>1, <3>1 DEF HistoryInv
  <2>4. \A b \in Algorithms : History(passed'[b], now')
    BY <1>1, <1>3, EmptyHistory DEF HistoryInv
  <2>5. \A b \in Algorithms : used'[b] = None => passed'[b] = {} /\ since'[b] = 0
    BY <1>1, <1>3 DEF HistoryInv
  <2>6. now' \in Start .. MaxClock
    BY <1>1 DEF HistoryInv
  <2> QED
    BY <1>3, <2>2, <2>3, <2>4, <2>5, <2>6 DEF HistoryInv
<1> QED
  BY <1>1, <1>3, <1>4, Zenon DEF Unaccounted

\* The window a history is kept for, twice.
LEMMA Spans ==
  ASSUME HistoryInv, NEW a \in Algorithms
  PROVE  /\ Span(a) \in Nat /\ Span(a) > 0
         /\ used[a] # None => used[a] \in LimitRecords /\ Span(a) = used[a].window
<1>1. used[a] # None => used[a] \in LimitRecords
  BY DEF HistoryInv, LegalLimits
<1> QED
  BY <1>1, Limits DEF Span

LEMMA TickHistory ==
  ASSUME HistoryInv, Tick
  PROVE  /\ HistoryInv' /\ UNCHANGED <<table, used>> /\ now' = now + 1
         /\ \A a \in Algorithms :
              /\ since'[a] = since[a] \/ (since'[a] = 0 /\ since[a] <= now + 1 - Span(a))
              /\ passed'[a] = After(passed[a], now + 1 - 2 * Span(a))
<1>1. /\ now < MaxClock /\ now' = now + 1 /\ UNCHANGED <<table, used>>
      /\ since' = [a \in Algorithms |-> IF since[a] <= now' - Span(a) THEN 0 ELSE since[a]]
      /\ passed' = [a \in Algorithms |-> {h \in passed[a] : h[1] > now' - 2 * Span(a)}]
  BY DEF Tick
<1>2. now \in Nat /\ now >= Start /\ now + 1 \in Nat
  BY NowFacts
<1>3. \A a \in Algorithms :
        /\ since'[a] = since[a] \/ (since'[a] = 0 /\ since[a] <= now + 1 - Span(a))
        /\ passed'[a] = After(passed[a], now + 1 - 2 * Span(a))
  <2> TAKE a \in Algorithms
  <2>1. since'[a] = IF since[a] <= now' - Span(a) THEN 0 ELSE since[a]
    BY <1>1
  <2>2. passed'[a] = After(passed[a], now' - 2 * Span(a))
    BY <1>1 DEF After
  <2>3. now' = now + 1
    BY <1>1
  <2>4. since'[a] = since[a] \/ (since'[a] = 0 /\ since[a] <= now + 1 - Span(a))
    <3>1. since'[a] = IF since[a] <= (now + 1) - Span(a) THEN 0 ELSE since[a]
      BY <2>1, <2>3, Zenon
    <3>2. (now + 1) - Span(a) = now + 1 - Span(a)
      BY <1>2, Spans
    <3> QED
      BY <3>1, <3>2, Zenon
  <2>5. passed'[a] = After(passed[a], now + 1 - 2 * Span(a))
    <3>1. passed'[a] = After(passed[a], (now + 1) - 2 * Span(a))
      BY <2>2, <2>3, Zenon
    <3>2. (now + 1) - 2 * Span(a) = now + 1 - 2 * Span(a)
      BY <1>2, Spans
    <3> QED
      BY <3>1, <3>2, Zenon
  <2> QED
    BY <2>4, <2>5
<1>4. HistoryInv'
  <2>1. LegalLimits' = LegalLimits
    BY <1>1 DEF LegalLimits, Windows
  <2>2. used' \in [Algorithms -> LegalLimits' \cup {None}]
    BY <1>1, <2>1 DEF HistoryInv
  <2>3. since' \in [Algorithms -> 0 .. now']
    <3>1. \A a \in Algorithms : since[a] \in 0 .. now + 1 /\ 0 \in 0 .. now + 1
      BY <1>2 DEF HistoryInv
    <3>2. DOMAIN since' = Algorithms /\ since' = [a \in Algorithms |-> since'[a]]
      BY <1>1
    <3>3. \A a \in Algorithms : since'[a] \in 0 .. now + 1
      BY <1>3, <3>1
    <3> QED
      BY <1>1, <3>2, <3>3
  <2>4. \A a \in Algorithms : History(passed'[a], now')
    <3> TAKE a \in Algorithms
    <3>1. History(passed[a], now) /\ now + 1 - 2 * Span(a) \in Int /\ now <= now + 1
      BY <1>2, Spans DEF HistoryInv
    <3>2. History(After(passed[a], now + 1 - 2 * Span(a)), now + 1)
      BY <1>2, <3>1, HistoryShrinks
    <3> QED
      BY <1>1, <1>3, <3>2
  <2>5. \A a \in Algorithms : used'[a] = None => passed'[a] = {} /\ since'[a] = 0
    <3> SUFFICES ASSUME NEW a \in Algorithms, used'[a] = None
                 PROVE  passed'[a] = {} /\ since'[a] = 0
      OBVIOUS
    <3>1. passed[a] = {} /\ since[a] = 0
      BY <1>1 DEF HistoryInv
    <3> QED
      BY <1>3, <3>1 DEF After
  <2>6. now' \in Start .. MaxClock
    BY <1>1, <1>2, Times
  <2>7. DOMAIN passed' = Algorithms /\ passed' = [a \in Algorithms |-> passed'[a]]
    BY <1>1
  <2> QED
    BY <2>2, <2>3, <2>4, <2>5, <2>6, <2>7 DEF HistoryInv
<1> QED
  BY <1>1, <1>3, <1>4

-----------------------------------------------------------------------------
(* The token bucket *)

\* The balance of the bucket b as of n, for a check under l.
LevelOf(l, b, n) ==
  IF b.exp >= 0 THEN Lesser(b.bal + (n - b.ts) * RateOf(l), CapOf(l)) ELSE CapOf(l)

BucketRecord == [bal : Nat, ts : Nat, exp : Int]

\* The bucket, for the limit u in use and what passed under it: its key lives
\* until it is full again, and the balance is what the history leaves.
Balanced(u, b, H, n, s) ==
  /\ b \in BucketRecord /\ b.ts <= n
  /\ u = None => b.exp < 0
  /\ u # None =>
       /\ b.exp >= 0 => b.exp >= b.ts + u.window + 1
       /\ Upper(u, H, LevelOf(u, b, n), n)
       /\ Lower(u, H, LevelOf(u, b, n), n, s)

BalanceInv ==
  Balanced(used["token_bucket"], bucket, passed["token_bucket"], now, since["token_bucket"])

\* The script's steps, in these terms.
LEMMA BucketSteps ==
  ASSUME NEW l \in LimitRecords, now \in Nat, bucket \in BucketRecord, bucket.ts <= now
  PROVE  /\ Bucket(l)!Refill(now) = LevelOf(l, bucket, now)
         /\ LevelOf(l, bucket, now) \in 0 .. CapOf(l)
         /\ Bucket(l)!Passes(now) =>
              /\ LevelOf(l, bucket, now) >= Unit
              /\ bucket' = [bal |-> LevelOf(l, bucket, now) - Unit, ts |-> now,
                            exp |-> now + (l.window + 1)]
         /\ Bucket(l)!Turns(now) =>
              /\ LevelOf(l, bucket, now) < Unit
              /\ bucket' = [bal |-> LevelOf(l, bucket, now), ts |-> now,
                            exp |-> now + (l.window + 1)]
<1>1. Bucket(l)!Larger(0, now - bucket.ts) = now - bucket.ts
  BY DEF Bucket!Larger, BucketRecord
<1>2. Bucket(l)!Refill(now) = LevelOf(l, bucket, now)
  BY <1>1 DEF Bucket!Refill, Bucket!Exists, Bucket!Smaller, Bucket!Capacity, LevelOf, Lesser,
              RateOf, CapOf
<1>3. LevelOf(l, bucket, now) \in 0 .. CapOf(l)
  <2>1. now - bucket.ts \in Nat /\ bucket.bal \in Nat
    BY DEF BucketRecord
  <2> DEFINE P == (now - bucket.ts) * RateOf(l)
  <2>2. P \in Nat /\ CapOf(l) \in Nat
    BY <2>1, Rates
  <2> HIDE DEF P
  <2>3. Lesser(bucket.bal + P, CapOf(l)) \in 0 .. CapOf(l)
    BY <2>1, <2>2 DEF Lesser
  <2> QED
    BY <2>2, <2>3 DEF LevelOf, P
<1>4. Bucket(l)!Passes(now) =>
        /\ LevelOf(l, bucket, now) >= Unit
        /\ bucket' = [bal |-> LevelOf(l, bucket, now) - Unit, ts |-> now,
                      exp |-> now + (l.window + 1)]
  BY <1>2 DEF Bucket!Passes, Bucket!Store, Bucket!Cost, Bucket!Ttl
<1>5. Bucket(l)!Turns(now) =>
        /\ LevelOf(l, bucket, now) < Unit
        /\ bucket' = [bal |-> LevelOf(l, bucket, now), ts |-> now,
                      exp |-> now + (l.window + 1)]
  BY <1>2 DEF Bucket!Turns, Bucket!Store, Bucket!Cost, Bucket!Ttl
<1> QED
  BY <1>2, <1>3, <1>4, <1>5

\* A check writes back a balance that its history explains.
LEMMA StoreBalanced ==
  ASSUME NEW l \in LimitRecords, NEW lv \in 0 .. CapOf(l), NEW n \in Nat, NEW H, NEW s,
         Upper(l, H, lv, n), Lower(l, H, lv, n, s)
  PROVE  Balanced(l, [bal |-> lv, ts |-> n, exp |-> n + (l.window + 1)], H, n, s)
<1> DEFINE b == [bal |-> lv, ts |-> n, exp |-> n + (l.window + 1)]
<1>1. /\ b.bal = lv /\ b.ts = n /\ b.exp = n + (l.window + 1)
      /\ CapOf(l) \in Nat /\ RateOf(l) \in Nat /\ l.window \in Nat
      /\ l # None
  BY Rates, Limits, LimiterAssumption
<1>2. b \in BucketRecord
  BY <1>1 DEF BucketRecord
<1> HIDE DEF b
<1>3. LevelOf(l, b, n) = lv
  <2>1. n - b.ts = 0 /\ 0 * RateOf(l) = 0 /\ b.exp >= 0
    BY <1>1
  <2>2. Lesser(lv + 0, CapOf(l)) = lv
    BY <1>1 DEF Lesser
  <2>3. Lesser(b.bal + (n - b.ts) * RateOf(l), CapOf(l)) = lv
    BY <1>1, <2>1, <2>2, Zenon
  <2> QED
    BY <2>1, <2>3 DEF LevelOf
<1>4. b.exp >= b.ts + l.window + 1 /\ b.ts <= n
  BY <1>1
<1>5. Upper(l, H, LevelOf(l, b, n), n) /\ Lower(l, H, LevelOf(l, b, n), n, s)
  BY <1>3, Zenon
<1>6. Balanced(l, b, H, n, s)
  BY <1>1, <1>2, <1>4, <1>5, Zenon DEF Balanced
<1> QED
  BY <1>6 DEF b

\* Whatever limits left the balance, it explains the history of the next one.
LEMMA BaseBalanced ==
  ASSUME HistoryInv, BalanceInv, NEW l \in LimitRecords, l.algorithm = "token_bucket"
  PROVE  /\ Upper(l, Base(l), LevelOf(l, bucket, now), now)
         /\ Lower(l, Base(l), LevelOf(l, bucket, now), now, Begun(l))
<1> DEFINE u  == used["token_bucket"]
           lv == LevelOf(l, bucket, now)
<1>1. lv \in 0 .. CapOf(l) /\ now \in Nat
  BY BucketSteps, NowFacts DEF BalanceInv, Balanced
<1>2. Upper(l, {}, lv, now) /\ Lower(l, {}, lv, now, now)
  BY <1>1, StartBalance
<1>3. CASE u = None
  <2>1. Base(l) = {} /\ lv = CapOf(l)
    BY <1>3 DEF Base, HistoryInv, Algorithms, BalanceInv, Balanced, LevelOf, BucketRecord
  <2>2. Lower(l, {}, CapOf(l), now, Begun(l))
    BY <1>1, FullBalance
  <2> QED
    BY <1>2, <2>1, <2>2, Zenon
<1>4. CASE u = l /\ u # None
  BY <1>4 DEF Base, Begun, BalanceInv, Balanced
<1>5. CASE u \notin {None, l}
  <2>1. Base(l) = {} /\ Begun(l) = now
    BY <1>5 DEF Base, Begun
  <2> QED
    BY <1>2, <2>1, Zenon
<1> QED
  BY <1>3, <1>4, <1>5

LEMMA CheckBalances ==
  ASSUME HistoryInv, BalanceInv, NEW l \in LegalLimits, CheckBucket(l)
  PROVE  HistoryInv' /\ BalanceInv'
         /\ \A a \in Algorithms \ {"token_bucket"} : Unaccounted(a)
<1> DEFINE lv == LevelOf(l, bucket, now)
           H  == Base(l)
           K  == H \cup {Latest(H, now)}
<1>1. /\ l \in LimitRecords /\ l.algorithm = "token_bucket"
      /\ UNCHANGED <<table, now>>
  BY DEF LegalLimits, CheckBucket
<1>2. /\ now \in Nat /\ now >= Start
      /\ History(H, now) /\ Begun(l) \in Nat
  BY <1>1, NowFacts, BaseFacts
<1>3. Upper(l, H, lv, now) /\ Lower(l, H, lv, now, Begun(l))
  BY <1>1, BaseBalanced
<1>4. bucket \in BucketRecord /\ bucket.ts <= now /\ lv \in 0 .. CapOf(l)
  BY <1>1, <1>2, BucketSteps DEF BalanceInv, Balanced
<1>5. Unit \in Nat /\ CapOf(l) \in Nat
  BY <1>1, Rates, Times
<1>6. CASE Bucket(l)!Passes(now) /\ Account(l, TRUE)
  <2>1. /\ HistoryInv' /\ \A a \in Algorithms \ {"token_bucket"} : Unaccounted(a)
        /\ used'["token_bucket"] = l /\ since'["token_bucket"] = Begun(l)
        /\ passed'["token_bucket"] = K
    <3>1. TRUE \in BOOLEAN /\ Account(l, TRUE)
      BY <1>6
    <3>2. passed'["token_bucket"] = IF TRUE THEN K ELSE H
      BY <1>1, <3>1, AccountEffect, Zenon
    <3> QED
      BY <1>1, <3>1, <3>2, AccountEffect, Zenon
  <2>2. /\ lv >= Unit
        /\ bucket' = [bal |-> lv - Unit, ts |-> now, exp |-> now + (l.window + 1)]
    BY <1>1, <1>2, <1>4, <1>6, BucketSteps, Zenon
  <2>3. lv \in Unit .. CapOf(l) /\ lv - Unit \in 0 .. CapOf(l)
    <3> HIDE DEF lv
    <3> QED
      BY <1>4, <1>5, <2>2
  <2>4. Upper(l, K, lv - Unit, now) /\ Lower(l, K, lv - Unit, now, Begun(l))
    BY <1>1, <1>2, <1>3, <2>3, PassBalance
  <2>5. Balanced(l, [bal |-> lv - Unit, ts |-> now, exp |-> now + (l.window + 1)], K, now,
                 Begun(l))
    BY <1>1, <1>2, <2>3, <2>4, StoreBalanced, Zenon
  <2> QED
    BY <1>1, <2>1, <2>2, <2>5, Zenon DEF BalanceInv
<1>7. CASE Bucket(l)!Turns(now) /\ Account(l, FALSE)
  <2>1. /\ HistoryInv' /\ \A a \in Algorithms \ {"token_bucket"} : Unaccounted(a)
        /\ used'["token_bucket"] = l /\ since'["token_bucket"] = Begun(l)
        /\ passed'["token_bucket"] = H
    <3>1. FALSE \in BOOLEAN /\ Account(l, FALSE)
      BY <1>7
    <3>2. passed'["token_bucket"] = IF FALSE THEN K ELSE H
      BY <1>1, <3>1, AccountEffect, Zenon
    <3> QED
      BY <1>1, <3>1, <3>2, AccountEffect, Zenon
  <2>2. bucket' = [bal |-> lv, ts |-> now, exp |-> now + (l.window + 1)]
    BY <1>1, <1>2, <1>4, <1>7, BucketSteps, Zenon
  <2>3. Balanced(l, [bal |-> lv, ts |-> now, exp |-> now + (l.window + 1)], H, now, Begun(l))
    BY <1>1, <1>2, <1>3, <1>4, StoreBalanced, Zenon
  <2> QED
    BY <1>1, <2>1, <2>2, <2>3, Zenon DEF BalanceInv
<1> QED
  BY <1>6, <1>7 DEF CheckBucket

\* Deleting the keys makes the bucket full.
LEMMA ResetBalances ==
  ASSUME HistoryInv, BalanceInv, NEW l \in LimitRecords, ResetBucket(l)
  PROVE  HistoryInv' /\ BalanceInv'
         /\ \A a \in Algorithms \ {"token_bucket"} : Unaccounted(a)
<1> DEFINE u == used["token_bucket"]
           b == [bal |-> 0, ts |-> 0, exp |-> -1]
<1>1. /\ bucket' = b /\ UNCHANGED <<table, now>> /\ Restart("token_bucket", TRUE)
      /\ TRUE \in BOOLEAN /\ "token_bucket" \in Algorithms
  BY DEF ResetBucket, Bucket!NoBucket, Algorithms
<1>2. /\ HistoryInv' /\ used' = used
      /\ since'["token_bucket"] = 0 /\ passed'["token_bucket"] = {}
      /\ \A a \in Algorithms \ {"token_bucket"} : Unaccounted(a)
  BY <1>1, RestartEffect
<1>3. now \in Nat
  BY NowFacts
<1>4. Balanced(u, b, {}, now, 0)
  <2>1. b \in BucketRecord /\ b.ts <= now /\ b.exp < 0 /\ ~(b.exp >= 0)
    BY <1>3 DEF BucketRecord
  <2>2. ASSUME u # None
        PROVE  Upper(u, {}, LevelOf(u, b, now), now) /\ Lower(u, {}, LevelOf(u, b, now), now, 0)
    <3>1. u \in LimitRecords
      BY <1>1, <2>2, Spans
    <3>2. LevelOf(u, b, now) = CapOf(u) /\ CapOf(u) \in 0 .. CapOf(u)
      BY <2>1, <3>1, Rates DEF LevelOf
    <3>3. Upper(u, {}, CapOf(u), now) /\ Lower(u, {}, CapOf(u), now, 0)
      BY <1>3, <3>1, <3>2, StartBalance, FullBalance
    <3> QED
      BY <3>2, <3>3, Zenon
  <2> QED
    BY <2>1, <2>2, Zenon DEF Balanced
<1>5. Balanced(used'["token_bucket"], bucket', passed'["token_bucket"], now', since'["token_bucket"])
  BY <1>1, <1>2, <1>4, Zenon
<1> QED
  BY <1>2, <1>5 DEF BalanceInv

NoKeys == [bal |-> 0, ts |-> 0, exp |-> -1]

\* The balance rises by a tick's accrual, even where the key expires.
LEMMA LevelRises ==
  ASSUME NEW l \in LimitRecords, NEW n \in Nat, NEW b \in BucketRecord, b.ts <= n,
         b.exp >= 0 => b.exp >= b.ts + l.window + 1,
         NEW c, c = IF b.exp < n + 1 THEN NoKeys ELSE b
  PROVE  LevelOf(l, c, n + 1) = Lesser(LevelOf(l, b, n) + RateOf(l), CapOf(l))
<1> DEFINE R == RateOf(l)
           C == CapOf(l)
           P == (n - b.ts) * R
<1>1. /\ R \in Nat /\ C \in Nat /\ l.window \in Nat /\ b.bal \in Nat /\ b.ts \in Nat /\ b.exp \in Int
      /\ l.window * R = C
  BY Rates, Limits DEF BucketRecord
<1>2. P \in Nat /\ (n + 1 - b.ts) * R = P + R
  <2>1. n - b.ts \in Nat /\ n + 1 - b.ts = (n - b.ts) + 1
    BY <1>1
  <2>2. (n - b.ts) * R \in Int /\ (n - b.ts) * R >= 0
    BY <1>1, <2>1, Linear
  <2>3. \A k \in Nat : (k + 1) * R = k * R + R
    BY <1>1
  <2>4. ((n - b.ts) + 1) * R = P + R
    BY <2>1, <2>3
  <2> QED
    BY <2>1, <2>2, <2>4
<1> HIDE DEF R, C
<1>3. CASE b.exp < 0
  <2>1. c = NoKeys
    BY <1>1, <1>3
  <2>2. LevelOf(l, c, n + 1) = C /\ LevelOf(l, b, n) = C
    BY <1>3, <2>1, <1>1 DEF LevelOf, NoKeys, C
  <2>3. Lesser(C + R, C) = C
    BY <1>1 DEF Lesser
  <2> QED
    BY <2>2, <2>3 DEF R, C
<1>4. CASE b.exp >= 0 /\ b.exp < n + 1
  <2>1. c = NoKeys /\ LevelOf(l, c, n + 1) = C
    BY <1>4 DEF LevelOf, NoKeys, C
  <2>2. l.window <= n - b.ts
    BY <1>1, <1>4
  <2>3. P >= C
    <3>1. l.window * R <= (n - b.ts) * R
      <4>1. n - b.ts \in Int
        BY <1>1
      <4> QED
        BY <1>1, <2>2, <4>1, Linear
    <3> QED
      BY <1>1, <3>1
  <2> HIDE DEF P
  <2>4. Lesser(b.bal + P, C) = C /\ Lesser(C + R, C) = C
    <3>1. \A a \in Int : a >= C => Lesser(a, C) = C
      BY <1>1 DEF Lesser
    <3>2. b.bal + P \in Int /\ b.bal + P >= C /\ C + R \in Int /\ C + R >= C
      BY <1>1, <1>2, <2>3
    <3> QED
      BY <3>1, <3>2
  <2>5. LevelOf(l, b, n) = C
    BY <1>4, <2>4 DEF LevelOf, P, R, C
  <2> QED
    BY <2>1, <2>4, <2>5 DEF R, C
<1>5. CASE b.exp >= n + 1
  <2>1. c = b /\ b.exp >= 0
    BY <1>1, <1>5
  <2>2. LevelOf(l, b, n) = Lesser(b.bal + P, C)
    BY <2>1 DEF LevelOf, R, C
  <2>3. LevelOf(l, c, n + 1) = Lesser(b.bal + (P + R), C)
    <3>1. b.exp # -1 /\ b.exp >= 0
      BY <2>1
    <3>2. LevelOf(l, b, n + 1) = Lesser(b.bal + ((n + 1) - b.ts) * R, C)
      BY <3>1, Zenon DEF LevelOf, R, C
    <3>3. (n + 1) - b.ts = n + 1 - b.ts
      BY <1>1
    <3> QED
      BY <1>2, <2>1, <3>2, <3>3, Zenon
  <2> HIDE DEF P
  <2>4. Lesser(b.bal + (P + R), C) = Lesser(Lesser(b.bal + P, C) + R, C)
    BY <1>1, <1>2 DEF Lesser
  <2> QED
    BY <2>2, <2>3, <2>4 DEF R, C
<1> QED
  BY <1>1, <1>3, <1>4, <1>5

LEMMA TickBalances ==
  ASSUME HistoryInv, BalanceInv, Tick
  PROVE  BalanceInv'
<1> DEFINE u == used["token_bucket"]
           H == passed["token_bucket"]
           s == since["token_bucket"]
           z == since'["token_bucket"]
           c == IF bucket.exp < now + 1 THEN NoKeys ELSE bucket
<1>1. /\ UNCHANGED <<table, used>> /\ now' = now + 1 /\ "token_bucket" \in Algorithms
      /\ z = s \/ (z = 0 /\ s <= now + 1 - Span("token_bucket"))
      /\ passed'["token_bucket"] = After(H, now + 1 - 2 * Span("token_bucket"))
  BY TickHistory DEF Algorithms
<1>2. bucket' = c
  <2>1. Bucket(Defaults)!Expire /\ now' = now + 1
    BY DEF Tick
  <2> QED
    BY <2>1 DEF Bucket!Expire, Bucket!NoBucket, NoKeys
<1>3. /\ now \in Nat /\ now >= Start /\ History(H, now) /\ s \in Nat /\ z \in Nat
  BY <1>1, NowFacts DEF HistoryInv
<1>4. /\ bucket \in BucketRecord /\ bucket.ts <= now /\ (u = None => bucket.exp < 0)
  BY DEF BalanceInv, Balanced
<1>5. c \in BucketRecord /\ c.ts <= now + 1 /\ (bucket.exp < 0 => c.exp < 0)
      /\ (c.exp >= 0 => c = bucket)
  BY <1>3, <1>4 DEF BucketRecord, NoKeys
<1> HIDE DEF c
<1>6. ASSUME u # None
      PROVE  LET K == After(H, now + 1 - 2 * Span("token_bucket"))
             IN  /\ c.exp >= 0 => c.exp >= c.ts + u.window + 1
                 /\ Upper(u, K, LevelOf(u, c, now + 1), now + 1)
                 /\ Lower(u, K, LevelOf(u, c, now + 1), now + 1, z)
  <2> DEFINE lv == LevelOf(u, bucket, now)
             lw == Lesser(lv + RateOf(u), CapOf(u))
  <2>1. u \in LimitRecords /\ Span("token_bucket") = u.window
    BY <1>1, <1>6, Spans
  <2>2. /\ bucket.exp >= 0 => bucket.exp >= bucket.ts + u.window + 1
        /\ Upper(u, H, lv, now) /\ Lower(u, H, lv, now, s)
    BY <1>6 DEF BalanceInv, Balanced
  <2>3. lv \in 0 .. CapOf(u)
    BY <1>3, <1>4, <2>1, BucketSteps
  <2>4. LevelOf(u, c, now + 1) = lw
    BY <1>3, <1>4, <2>1, <2>2, LevelRises DEF c
  <2>5. z = s \/ s <= now + 1 - u.window
    BY <1>1, <2>1
  <2> HIDE DEF lv, z, s, H, u
  <2>6. LET K == After(H, now + 1 - 2 * u.window)
        IN  Upper(u, K, lw, now + 1) /\ Lower(u, K, lw, now + 1, z)
    BY <1>3, <2>1, <2>2, <2>3, <2>5, TickBalance
  <2> HIDE DEF lw
  <2>7. c.exp >= 0 => c.exp >= c.ts + u.window + 1
    BY <1>5, <2>2
  <2> QED
    BY <2>1, <2>4, <2>6, <2>7, Zenon
<1>7. Balanced(u, c, After(H, now + 1 - 2 * Span("token_bucket")), now + 1, z)
  <2>1. u = None => c.exp < 0
    BY <1>4, <1>5
  <2> QED
    BY <1>5, <1>6, <2>1, Zenon DEF Balanced
<1>8. used'["token_bucket"] = u
  BY <1>1
<1> HIDE DEF u, H, z
<1>9. Balanced(used'["token_bucket"], bucket', passed'["token_bucket"], now', since'["token_bucket"])
  BY <1>1, <1>2, <1>7, <1>8, Zenon DEF u, H, z
<1> QED
  BY <1>9 DEF BalanceInv

\* What the two invariants say of the bucket.
LEMMA BucketPromise ==
  ASSUME HistoryInv, BalanceInv, NEW l \in InUse("token_bucket")
  PROVE  /\ Bucket(l)!Contract!WithinQuota(passed["token_bucket"])
         /\ Bucket(l)!Refill(now) < Unit /\ since["token_bucket"] <= now - l.window =>
              Cardinality({h \in passed["token_bucket"] : h[1] > now - l.window}) >= l.limit
<1> DEFINE H  == passed["token_bucket"]
           s  == since["token_bucket"]
           lv == LevelOf(l, bucket, now)
<1>1. /\ l = used["token_bucket"] /\ l # None /\ l \in LimitRecords
  BY Spans DEF InUse, Algorithms
<1>2. /\ now \in Nat /\ now >= Start /\ History(H, now) /\ s \in Nat
  BY NowFacts DEF HistoryInv, Algorithms
<1>3. /\ bucket \in BucketRecord /\ bucket.ts <= now
      /\ Upper(l, H, lv, now) /\ Lower(l, H, lv, now, s)
  BY <1>1 DEF BalanceInv, Balanced
<1>4. Bucket(l)!Refill(now) = lv /\ lv \in 0 .. CapOf(l)
  BY <1>1, <1>2, <1>3, BucketSteps
<1> HIDE DEF H, s, lv
<1>5. Bucket(l)!Contract!WithinQuota(H)
  <2> SUFFICES ASSUME NEW d \in 1 .. 2 * l.window
               PROVE  Cardinality(After(H, now - d))
                        <= l.limit + (l.limit * (d - 1 + 0 + 0)) \div l.window
    BY DEF Bucket!Contract!WithinQuota, Bucket!Contract!Since, Bucket!Horizon, After,
           Bucket!Contract!Cardinality, Cardinality
  <2>1. d \in Nat /\ d >= 1 /\ d - 1 + 0 + 0 = d - 1
    BY <1>1, Limits
  <2> QED
    BY <1>1, <1>2, <1>3, <1>4, <2>1, UpperWithin
<1>6. ASSUME lv < Unit, s <= now - l.window
      PROVE  Cardinality(After(H, now - l.window)) >= l.limit
  BY <1>1, <1>2, <1>3, <1>4, <1>6, LowerDeserved
<1> QED
  BY <1>4, <1>5, <1>6 DEF H, s, After

-----------------------------------------------------------------------------
(* The sliding window log *)

\* Members up to n, numbered within their tick.
Members(L, n) ==
  /\ IsFiniteSet(L)
  /\ \A m \in L : /\ m[1] \in Nat /\ m[1] <= n
                  /\ m[3] \in Nat /\ m[3] < Cardinality({k \in L : k[1] = m[1]})

Newest(L, n) == <<n, 1, Cardinality({k \in L : k[1] = n})>>

\* Within the window of l the log has every request that passed under l, and
\* since s no other.
Explains(l, L, H, n, s) ==
  \A x \in Int : x >= n - l.window =>
    /\ Cardinality(After(H, x)) <= Cardinality(After(L, x))
    /\ Cardinality(After(H, x)) <= l.limit
    /\ s <= x => Cardinality(After(L, x)) <= Cardinality(After(H, x))

\* The log, for the limit u in use: its key outlives what passed.
Logged(u, L, e, H, n, s) ==
  /\ Members(L, n) /\ e \in Int
  /\ u = None => L = {}
  /\ u # None => /\ Explains(u, L, H, n, s)
                 /\ \A h \in H : h[1] > n - u.window => h[1] + u.window <= e

LogInv ==
  Logged(used["sliding_window"], log, logExp, passed["sliding_window"], now,
         since["sliding_window"])

\* What both kinds of entry have in common.
LEMMA Timely ==
  ASSUME NEW n \in Nat, NEW L, Members(L, n) \/ History(L, n)
  PROVE  /\ IsFiniteSet(L) /\ \A m \in L : m[1] \in Nat /\ m[1] <= n
         /\ \A y : IsFiniteSet(After(L, y)) /\ Cardinality(After(L, y)) \in Nat
<1>1. IsFiniteSet(L) /\ \A m \in L : m[1] \in Nat /\ m[1] <= n
  <2>1. CASE Members(L, n)
    BY <2>1 DEF Members
  <2>2. CASE History(L, n)
    <3>1. IsFiniteSet(L) /\ \A m \in L : m[1] \in Start .. n
      BY <2>2 DEF History
    <3> QED
      BY <3>1, Times
  <2> QED
    BY <2>1, <2>2
<1>2. \A y : After(L, y) \in SUBSET L
  BY DEF After
<1> QED
  BY <1>1, <1>2, Selection

LEMMA NothingLater ==
  ASSUME NEW n \in Nat, NEW L, \A m \in L : m[1] \in Nat /\ m[1] <= n, NEW y \in Int, y >= n
  PROVE  After(L, y) = {}
<1>1. \A t \in Nat : t <= n => ~(t > y)
  OBVIOUS
<1> QED
  BY <1>1 DEF After

LEMMA MembersKept ==
  ASSUME NEW n \in Nat, NEW k \in Nat, n <= k, NEW L, Members(L, n), NEW x
  PROVE  Members(After(L, x), k)
<1>1. /\ IsFiniteSet(L)
      /\ \A m \in L : /\ m[1] \in Nat /\ m[1] <= n
                      /\ m[3] \in Nat /\ m[3] < Cardinality({j \in L : j[1] = m[1]})
  BY DEF Members
<1>2. \A y : After(L, y) \in SUBSET L
  BY DEF After
<1>3. IsFiniteSet(After(L, x))
  BY <1>1, <1>2, Selection
<1>4. ASSUME NEW m \in After(L, x)
      PROVE  /\ m[1] \in Nat /\ m[1] <= k
             /\ m[3] \in Nat /\ m[3] < Cardinality({j \in After(L, x) : j[1] = m[1]})
  <2>1. {j \in After(L, x) : j[1] = m[1]} = {j \in L : j[1] = m[1]}
    BY DEF After
  <2> QED
    BY <1>1, <1>2, <2>1
<1> QED
  BY <1>3, <1>4 DEF Members

\* A new member is not in the log yet.
LEMMA MembersGrow ==
  ASSUME NEW n \in Nat, NEW L, Members(L, n), NEW x \in Int, x < n
  PROVE  /\ Members(After(L, x) \cup {Newest(L, n)}, n)
         /\ \A y \in Int : Cardinality(After(After(L, x) \cup {Newest(L, n)}, y)) =
              IF y < n THEN Cardinality(After(After(L, x), y)) + 1
                       ELSE Cardinality(After(After(L, x), y))
<1> DEFINE B     == After(L, x)
           today == {k \in L : k[1] = n}
           c     == Cardinality(today)
           new   == <<n, 1, c>>
           K     == B \cup {new}
<1>1. /\ IsFiniteSet(L)
      /\ \A m \in L : /\ m[1] \in Nat /\ m[1] <= n
                      /\ m[3] \in Nat /\ m[3] < Cardinality({j \in L : j[1] = m[1]})
  BY DEF Members
<1>2. IsFiniteSet(today) /\ c \in Nat /\ IsFiniteSet(B) /\ B \in SUBSET L
  <2>1. today \in SUBSET L /\ B \in SUBSET L
    BY DEF After
  <2> QED
    BY <1>1, <2>1, Selection
<1>3. new \notin L
  <2> SUFFICES ASSUME new \in L PROVE FALSE
    OBVIOUS
  <2>1. new[1] = n /\ new[3] = c
    OBVIOUS
  <2>2. new[3] < Cardinality({j \in L : j[1] = new[1]})
    BY <1>1
  <2> QED
    BY <1>2, <2>1, <2>2
<1>4. IsFiniteSet(K)
  <2> HIDE DEF new, B
  <2> QED
    BY <1>2, <1>3, OneMore
<1>5. ASSUME NEW m \in K
      PROVE  /\ m[1] \in Nat /\ m[1] <= n
             /\ m[3] \in Nat /\ m[3] < Cardinality({j \in K : j[1] = m[1]})
  <2>1. CASE m[1] = n
    <3>1. {j \in K : j[1] = m[1]} = today \cup {new}
      BY <2>1 DEF After
    <3>2. Cardinality(today \cup {new}) = c + 1
      <4>1. new \notin today
        BY <1>3
      <4> HIDE DEF new, today
      <4> QED
        BY <1>2, <4>1, OneMore DEF c
    <3>3. m[3] \in Nat /\ m[3] <= c
      <4>1. CASE m = new
        BY <1>2, <4>1
      <4>2. CASE m # new
        <5>1. m \in L /\ {j \in L : j[1] = m[1]} = today
          BY <1>2, <1>5, <2>1, <4>2
        <5> QED
          BY <1>1, <1>2, <5>1
      <4> QED
        BY <4>1, <4>2
    <3>4. m[3] < c + 1
      <4> HIDE DEF c
      <4> QED
        BY <1>2, <3>3
    <3>5. m[1] \in Nat /\ m[1] <= n
      BY <2>1
    <3> HIDE DEF K, c, new, today
    <3>6. m[3] < Cardinality({j \in K : j[1] = m[1]})
      BY <3>1, <3>2, <3>4, Zenon
    <3> QED
      BY <3>3, <3>5, <3>6
  <2>2. CASE m[1] # n
    <3>1. m \in B
      BY <1>5, <2>2
    <3>2. {j \in K : j[1] = m[1]} = {j \in L : j[1] = m[1]}
      BY <2>2, <3>1 DEF After
    <3> QED
      BY <1>1, <1>2, <3>1, <3>2
  <2> QED
    BY <2>1, <2>2
<1>6. ASSUME NEW y \in Int
      PROVE  Cardinality(After(K, y)) =
               IF y < n THEN Cardinality(After(B, y)) + 1 ELSE Cardinality(After(B, y))
  <2>1. IsFiniteSet(After(B, y)) /\ new \notin After(B, y) /\ new[1] = n
    <3>1. After(B, y) \in SUBSET L
      BY <1>2 DEF After
    <3> QED
      BY <1>1, <1>3, <3>1, Selection
  <2> HIDE DEF new, B
  <2>2. CASE y < n
    <3>1. After(K, y) = After(B, y) \cup {new}
      BY <2>1, <2>2 DEF After
    <3> QED
      BY <2>1, <2>2, <3>1, OneMore
  <2>3. CASE ~(y < n)
    <3>1. After(K, y) = After(B, y)
      BY <2>1, <2>3 DEF After
    <3> QED
      BY <2>3, <3>1
  <2> QED
    BY <2>2, <2>3
<1>7. Members(K, n)
  <2> HIDE DEF K
  <2> QED
    BY <1>4, <1>5 DEF Members
<1> QED
  BY <1>6, <1>7 DEF Newest

\* What the window keeps counts like the whole log.
LEMMA Trimmed ==
  ASSUME NEW L, NEW x \in Int, NEW y \in Int, y >= x, \A m \in L : m[1] \in Nat
  PROVE  After(After(L, x), y) = After(L, y)
BY DEF After

\* The log of other limits explains a history that starts now.
LEMMA StartLog ==
  ASSUME NEW l \in LimitRecords, NEW n \in Nat, NEW L, Members(L, n)
  PROVE  Explains(l, L, {}, n, n)
<1> SUFFICES ASSUME NEW x \in Int, x >= n - l.window
             PROVE  /\ Cardinality(After({}, x)) <= Cardinality(After(L, x))
                    /\ Cardinality(After({}, x)) <= l.limit
                    /\ n <= x => Cardinality(After(L, x)) <= Cardinality(After({}, x))
  BY DEF Explains
<1>1. Cardinality(After({}, x)) = 0
  BY FS_EmptySet DEF After
<1>2. Cardinality(After(L, x)) \in Nat /\ (x >= n => After(L, x) = {})
  <2>1. \A m \in L : m[1] \in Nat /\ m[1] <= n
    BY Timely
  <2> QED
    BY <2>1, Timely, NothingLater
<1>3. x >= n => Cardinality(After(L, x)) = 0
  BY <1>2, FS_EmptySet
<1> QED
  BY <1>1, <1>2, <1>3, Limits

\* A check leaves the members in its window.
LEMMA TurnLog ==
  ASSUME NEW l \in LimitRecords, NEW n \in Nat, NEW L, Members(L, n), NEW H, History(H, n),
         NEW s, Explains(l, L, H, n, s)
  PROVE  Logged(l, After(L, n - l.window), n + l.window, H, n, s)
<1> DEFINE w == l.window
           K == After(L, n - w)
<1>1. w \in Nat /\ w > 0 /\ n - w \in Int /\ l # None
  BY Limits, LimiterAssumption
<1>2. Members(K, n) /\ \A m \in L : m[1] \in Nat
  <2>1. n <= n
    OBVIOUS
  <2>2. Members(K, n)
    BY <2>1, MembersKept, Zenon
  <2>3. \A m \in L : m[1] \in Nat
    BY Timely
  <2> QED
    BY <2>2, <2>3
<1>3. \A x \in Int : x >= n - w => After(K, x) = After(L, x)
  BY <1>1, <1>2, Trimmed
<1>4. Explains(l, K, H, n, s)
  BY <1>3 DEF Explains
<1>5. \A h \in H : h[1] + w <= n + w
  BY <1>1, Times DEF History
<1> HIDE DEF K
<1>6. Logged(l, K, n + w, H, n, s)
  BY <1>1, <1>2, <1>4, <1>5 DEF Logged
<1> QED
  BY <1>6 DEF K

LEMMA PassLog ==
  ASSUME NEW l \in LimitRecords, NEW n \in Nat, n >= Start, NEW L, Members(L, n),
         NEW H, History(H, n), NEW s, Explains(l, L, H, n, s),
         Cardinality(After(L, n - l.window)) < l.limit
  PROVE  Logged(l, After(L, n - l.window) \cup {Newest(L, n)}, n + l.window,
                H \cup {Latest(H, n)}, n, s)
<1> DEFINE w == l.window
           B == After(L, n - w)
           K == B \cup {Newest(L, n)}
           G == H \cup {Latest(H, n)}
<1>1. w \in Nat /\ w > 0 /\ n - w \in Int /\ n - w < n /\ l # None /\ l.limit \in Nat
  BY Limits, LimiterAssumption
<1>2. /\ Members(K, n)
      /\ \A y \in Int : Cardinality(After(K, y)) =
           IF y < n THEN Cardinality(After(B, y)) + 1 ELSE Cardinality(After(B, y))
  <2>1. ASSUME NEW x \in Int, x < n
        PROVE  /\ Members(After(L, x) \cup {Newest(L, n)}, n)
               /\ \A y \in Int : Cardinality(After(After(L, x) \cup {Newest(L, n)}, y)) =
                    IF y < n THEN Cardinality(After(After(L, x), y)) + 1
                             ELSE Cardinality(After(After(L, x), y))
    BY <2>1, MembersGrow, ZenonT(60)
  <2> QED
    BY <1>1, <2>1, Zenon
<1>3. \A y \in Int : Cardinality(After(G, y)) =
        IF y < n THEN Cardinality(After(H, y)) + 1 ELSE Cardinality(After(H, y))
  BY Counts
<1>4. \A y : Cardinality(After(H, y)) \in Nat /\ Cardinality(After(L, y)) \in Nat
  <2>1. \A y : Cardinality(After(H, y)) \in Nat
    BY Timely
  <2>2. \A y : Cardinality(After(L, y)) \in Nat
    BY Timely
  <2> QED
    BY <2>1, <2>2
<1>5. \A y \in Int : y >= n - w => After(B, y) = After(L, y)
  <2>1. \A m \in L : m[1] \in Nat
    BY Timely
  <2> QED
    BY <1>1, <2>1, Trimmed
<1>6. ASSUME NEW y \in Int, y >= n - w
      PROVE  Cardinality(After(L, y)) <= Cardinality(After(L, n - w))
  <2>1. After(L, y) \in SUBSET After(L, n - w)
    <3>1. \A t \in Nat : t > y => t > n - w
      BY <1>1, <1>6
    <3>2. \A m \in L : m[1] \in Nat
      BY Timely
    <3> HIDE DEF w
    <3> QED
      BY <3>1, <3>2 DEF After
  <2>2. IsFiniteSet(After(L, n - w))
    BY Timely
  <2> QED
    BY <2>1, <2>2, Selection
<1>7. Explains(l, K, G, n, s)
  <2> SUFFICES ASSUME NEW x \in Int, x >= n - w
               PROVE  /\ Cardinality(After(G, x)) <= Cardinality(After(K, x))
                      /\ Cardinality(After(G, x)) <= l.limit
                      /\ s <= x => Cardinality(After(K, x)) <= Cardinality(After(G, x))
    BY DEF Explains
  <2> DEFINE a == Cardinality(After(H, x))
             b == Cardinality(After(L, x))
  <2>1. /\ Cardinality(After(G, x)) = IF x < n THEN a + 1 ELSE a
        /\ Cardinality(After(K, x)) = IF x < n THEN b + 1 ELSE b
    BY <1>2, <1>3, <1>5
  <2>2. a \in Nat /\ b \in Nat /\ a <= b /\ a <= l.limit /\ (s <= x => b <= a)
    BY <1>4 DEF Explains
  <2>3. b <= Cardinality(After(L, n - w))
    BY <1>6
  <2>4. b + 1 <= l.limit
    <3> HIDE DEF b
    <3> QED
      BY <1>1, <1>4, <2>2, <2>3
  <2> HIDE DEF a, b
  <2>5. \A p, q \in Int : /\ (p = IF x < n THEN a + 1 ELSE a) /\ (q = IF x < n THEN b + 1 ELSE b)
                          => p <= q /\ p <= l.limit /\ (s <= x => q <= p)
    BY <1>1, <2>2, <2>4
  <2>6. (IF x < n THEN a + 1 ELSE a) \in Int /\ (IF x < n THEN b + 1 ELSE b) \in Int
    BY <2>2
  <2> QED
    BY <2>1, <2>5, <2>6, Zenon
<1>8. \A h \in G : h[1] + w <= n + w
  <2>1. History(G, n)
    BY HistoryGrows
  <2>2. \A h \in G : h[1] \in Nat /\ h[1] <= n
    <3> HIDE DEF G
    <3> QED
      BY <2>1, Timely
  <2>3. \A t \in Nat : t <= n => t + w <= n + w
    BY <1>1
  <2> QED
    BY <2>2, <2>3
<1> HIDE DEF K, G
<1>9. Logged(l, K, n + w, G, n, s)
  BY <1>1, <1>2, <1>7, <1>8 DEF Logged
<1> QED
  BY <1>9 DEF K, G

\* Time passes: what the log loses, or all of it, no longer counts.
LEMMA TickLog ==
  ASSUME NEW l \in LimitRecords, NEW n \in Nat, n >= Start, NEW L, NEW e, NEW H, History(H, n),
         NEW s \in Nat, NEW z \in Nat, z = s \/ s <= n + 1 - l.window,
         Logged(l, L, e, H, n, s),
         NEW K, NEW f, IF e < n + 1 THEN K = {} /\ f = -1 ELSE K = L /\ f = e
  PROVE  Logged(l, K, f, After(H, n + 1 - 2 * l.window), n + 1, z)
<1> DEFINE w == l.window
           G == After(H, n + 1 - 2 * w)
<1>1. w \in Nat /\ w > 0 /\ l # None /\ e \in Int /\ n + 1 \in Nat
  BY Limits, LimiterAssumption DEF Logged
<1>2. /\ Members(L, n) /\ Explains(l, L, H, n, s)
      /\ \A h \in H : h[1] > n - w => h[1] + w <= e
  BY <1>1 DEF Logged
<1>3. \A h \in H : h[1] \in Nat
  BY Times DEF History
<1>4. G \subseteq H
  BY DEF After
<1>5. \A x \in Int : x >= (n + 1) - w => After(G, x) = After(H, x)
  <2>1. n + 1 - 2 * w \in Int /\ \A x \in Int : x >= (n + 1) - w => x >= n + 1 - 2 * w
    BY <1>1
  <2> QED
    BY <1>3, <2>1, Trimmed
<1>6. Members(K, n + 1) /\ f \in Int
  <2>1. Members({}, n + 1)
    BY FS_EmptySet DEF Members
  <2>2. Members(L, n + 1)
    <3>1. After(L, -1) = L
      <4>1. \A m \in L : m[1] \in Nat
        BY <1>2, Timely
      <4>2. \A t \in Nat : t > -1
        OBVIOUS
      <4> QED
        BY <4>1, <4>2 DEF After
    <3>2. -1 \in Int /\ n <= n + 1
      OBVIOUS
    <3>3. Members(After(L, -1), n + 1)
      BY <1>1, <1>2, <3>2, MembersKept
    <3> QED
      BY <3>1, <3>3
  <2> QED
    BY <1>1, <2>1, <2>2
<1> HIDE DEF w, G
<1>7. ASSUME NEW x \in Int, x >= (n + 1) - w
      PROVE  /\ Cardinality(After(G, x)) <= Cardinality(After(K, x))
             /\ Cardinality(After(G, x)) <= l.limit
             /\ z <= x => Cardinality(After(K, x)) <= Cardinality(After(G, x))
  <2>1. After(G, x) = After(H, x)
    BY <1>5, <1>7
  <2>2. CASE e < n + 1
    <3>1. \A t \in Nat : (t > n - w => t + w <= e) => ~(t > x)
      BY <1>1, <1>7, <2>2
    <3>2. \A h \in H : ~(h[1] > x)
      BY <1>2, <1>3, <3>1
    <3>3. After(H, x) = {} /\ After(K, x) = {}
      BY <2>2, <3>2 DEF After
    <3> QED
      BY <2>1, <3>3, FS_EmptySet, Limits
  <2>3. CASE ~(e < n + 1)
    <3>1. x >= n - w /\ (z <= x => s <= x)
      BY <1>1, <1>7 DEF w
    <3>2. K = L
      BY <2>3
    <3> QED
      BY <1>2, <2>1, <3>1, <3>2 DEF Explains, w
  <2> QED
    BY <2>2, <2>3
<1>8. Explains(l, K, G, n + 1, z)
  BY <1>7 DEF Explains, w
<1>9. \A h \in G : h[1] > (n + 1) - w => h[1] + w <= f
  <2>1. CASE e < n + 1
    <3>1. \A t \in Nat : (t > n - w => t + w <= e) => ~(t > (n + 1) - w)
      BY <1>1, <2>1
    <3> QED
      BY <1>2, <1>3, <1>4, <3>1
  <2>2. CASE ~(e < n + 1)
    <3>1. \A t \in Nat : t > (n + 1) - w => t > n - w
      BY <1>1
    <3> QED
      BY <1>2, <1>3, <1>4, <2>2, <3>1
  <2> QED
    BY <2>1, <2>2
<1>10. Logged(l, K, f, G, n + 1, z)
  BY <1>1, <1>6, <1>8, <1>9 DEF Logged, w
<1> QED
  BY <1>10 DEF G, w

\* The script's steps, in these terms.
LEMMA LogSteps ==
  ASSUME NEW l \in LimitRecords
  PROVE  /\ Log(l)!Room(now) <=> Cardinality(After(log, now - l.window)) < l.limit
         /\ Log(l)!Passes(1, now) =>
              /\ Cardinality(After(log, now - l.window)) < l.limit
              /\ log' = After(log, now - l.window) \cup {Newest(log, now)}
              /\ logExp' = now + l.window
         /\ Log(l)!Turns(now) =>
              log' = After(log, now - l.window) /\ logExp' = now + l.window
<1>1. Log(l)!Kept(now) = After(log, now - l.window)
  BY DEF Log!Kept, After
<1>2. Log(l)!Room(now) <=> Cardinality(After(log, now - l.window)) < l.limit
  BY <1>1 DEF Log!Room, Log!Cardinality, Cardinality
<1>3. Log(l)!Member(1, now) = Newest(log, now)
  BY DEF Log!Member, Newest
<1> QED
  BY <1>1, <1>2, <1>3 DEF Log!Passes, Log!Turns, Log!Renew

\* Whatever limits left in the log, it explains the history of the next one.
LEMMA BaseLogged ==
  ASSUME HistoryInv, LogInv, NEW l \in LimitRecords, l.algorithm = "sliding_window"
  PROVE  Members(log, now) /\ Explains(l, log, Base(l), now, Begun(l))
<1> DEFINE u == used["sliding_window"]
<1>1. Members(log, now) /\ now \in Nat /\ "sliding_window" \in Algorithms
  BY NowFacts DEF LogInv, Logged, Algorithms
<1>2. CASE u = None
  <2>1. Base(l) = {} /\ log = {}
    BY <1>1, <1>2 DEF Base, HistoryInv, LogInv, Logged
  <2>2. Explains(l, {}, {}, now, Begun(l))
    BY Limits, FS_EmptySet DEF Explains, After
  <2> QED
    BY <1>1, <2>1, <2>2, Zenon
<1>3. CASE u = l /\ u # None
  BY <1>1, <1>3 DEF Base, Begun, LogInv, Logged
<1>4. CASE u \notin {None, l}
  <2>1. Base(l) = {} /\ Begun(l) = now
    BY <1>4 DEF Base, Begun
  <2>2. Explains(l, log, {}, now, now)
    BY <1>1, StartLog
  <2> QED
    BY <1>1, <2>1, <2>2, Zenon
<1> QED
  BY <1>2, <1>3, <1>4

LEMMA CheckLogs ==
  ASSUME HistoryInv, LogInv, NEW l \in LegalLimits, CheckLog(l)
  PROVE  HistoryInv' /\ LogInv'
         /\ \A a \in Algorithms \ {"sliding_window"} : Unaccounted(a)
<1> DEFINE H == Base(l)
           K == H \cup {Latest(H, now)}
<1>1. /\ l \in LimitRecords /\ l.algorithm = "sliding_window"
      /\ UNCHANGED <<table, now>>
  BY DEF LegalLimits, CheckLog
<1>2. now \in Nat /\ now >= Start /\ History(H, now)
  BY <1>1, NowFacts, BaseFacts
<1>3. Members(log, now) /\ Explains(l, log, H, now, Begun(l))
  BY <1>1, BaseLogged
<1>4. CASE Log(l)!Passes(1, now) /\ Account(l, TRUE)
  <2>1. /\ HistoryInv' /\ \A a \in Algorithms \ {"sliding_window"} : Unaccounted(a)
        /\ used'["sliding_window"] = l /\ since'["sliding_window"] = Begun(l)
        /\ passed'["sliding_window"] = K
    <3>1. TRUE \in BOOLEAN /\ Account(l, TRUE)
      BY <1>4
    <3>2. passed'["sliding_window"] = IF TRUE THEN K ELSE H
      BY <1>1, <3>1, AccountEffect, Zenon
    <3> QED
      BY <1>1, <3>1, <3>2, AccountEffect, Zenon
  <2>2. /\ Cardinality(After(log, now - l.window)) < l.limit
        /\ log' = After(log, now - l.window) \cup {Newest(log, now)}
        /\ logExp' = now + l.window
    BY <1>1, <1>4, LogSteps, Zenon
  <2>3. Logged(l, After(log, now - l.window) \cup {Newest(log, now)}, now + l.window, K, now,
               Begun(l))
    BY <1>1, <1>2, <1>3, <2>2, PassLog
  <2> QED
    BY <1>1, <2>1, <2>2, <2>3, Zenon DEF LogInv
<1>5. CASE Log(l)!Turns(now) /\ Account(l, FALSE)
  <2>1. /\ HistoryInv' /\ \A a \in Algorithms \ {"sliding_window"} : Unaccounted(a)
        /\ used'["sliding_window"] = l /\ since'["sliding_window"] = Begun(l)
        /\ passed'["sliding_window"] = H
    <3>1. FALSE \in BOOLEAN /\ Account(l, FALSE)
      BY <1>5
    <3>2. passed'["sliding_window"] = IF FALSE THEN K ELSE H
      BY <1>1, <3>1, AccountEffect, Zenon
    <3> QED
      BY <1>1, <3>1, <3>2, AccountEffect, Zenon
  <2>2. log' = After(log, now - l.window) /\ logExp' = now + l.window
    BY <1>1, <1>5, LogSteps, Zenon
  <2>3. Logged(l, After(log, now - l.window), now + l.window, H, now, Begun(l))
    BY <1>1, <1>2, <1>3, TurnLog, Zenon
  <2> QED
    BY <1>1, <2>1, <2>2, <2>3, Zenon DEF LogInv
<1> QED
  BY <1>4, <1>5 DEF CheckLog

\* An empty log explains an empty history.
LEMMA ResetLogs ==
  ASSUME HistoryInv, LogInv, NEW l \in LimitRecords, ResetLog(l)
  PROVE  HistoryInv' /\ LogInv'
         /\ \A a \in Algorithms \ {"sliding_window"} : Unaccounted(a)
<1> DEFINE u == used["sliding_window"]
<1>1. /\ log' = {} /\ logExp' = -1 /\ UNCHANGED <<table, now>> /\ Restart("sliding_window", TRUE)
      /\ TRUE \in BOOLEAN /\ "sliding_window" \in Algorithms
  BY DEF ResetLog, Log!Delete, Algorithms
<1>2. /\ HistoryInv' /\ used' = used
      /\ since'["sliding_window"] = 0 /\ passed'["sliding_window"] = {}
      /\ \A a \in Algorithms \ {"sliding_window"} : Unaccounted(a)
  BY <1>1, RestartEffect
<1>3. now \in Nat
  BY NowFacts
<1>4. Logged(u, {}, -1, {}, now, 0)
  <2>1. Members({}, now) /\ -1 \in Int
    BY FS_EmptySet DEF Members
  <2>2. ASSUME u # None PROVE Explains(u, {}, {}, now, 0)
    <3>1. u \in LimitRecords
      BY <1>1, <2>2, Spans
    <3> QED
      BY <3>1, Limits, FS_EmptySet DEF Explains, After
  <2> QED
    BY <2>1, <2>2 DEF Logged
<1>5. Logged(used'["sliding_window"], log', logExp', passed'["sliding_window"], now',
             since'["sliding_window"])
  BY <1>1, <1>2, <1>4, Zenon
<1> QED
  BY <1>2, <1>5 DEF LogInv

LEMMA TickLogs ==
  ASSUME HistoryInv, LogInv, Tick
  PROVE  LogInv'
<1> DEFINE u == used["sliding_window"]
           H == passed["sliding_window"]
           s == since["sliding_window"]
           z == since'["sliding_window"]
           K == IF logExp < now + 1 THEN {} ELSE log
           f == IF logExp < now + 1 THEN -1 ELSE logExp
<1>1. /\ UNCHANGED <<table, used>> /\ now' = now + 1 /\ "sliding_window" \in Algorithms
      /\ z = s \/ (z = 0 /\ s <= now + 1 - Span("sliding_window"))
      /\ passed'["sliding_window"] = After(H, now + 1 - 2 * Span("sliding_window"))
  BY TickHistory DEF Algorithms
<1>2. log' = K /\ logExp' = f
  <2>1. Log(Defaults)!Expire /\ now' = now + 1
    BY DEF Tick
  <2> QED
    BY <2>1 DEF Log!Expire, Log!Delete
<1>3. /\ now \in Nat /\ now >= Start /\ History(H, now) /\ s \in Nat /\ z \in Nat
  BY <1>1, NowFacts DEF HistoryInv
<1>4. Logged(u, log, logExp, H, now, s)
  BY DEF LogInv
<1>5. Logged(u, K, f, After(H, now + 1 - 2 * Span("sliding_window")), now + 1, z)
  <2>1. CASE u # None
    <3>1. u \in LimitRecords /\ Span("sliding_window") = u.window
      BY <1>1, <2>1, Spans
    <3>2. z = s \/ s <= now + 1 - u.window
      BY <1>1, <3>1
    <3>3. IF logExp < now + 1 THEN K = {} /\ f = -1 ELSE K = log /\ f = logExp
      OBVIOUS
    <3> HIDE DEF u, H, s, z, K, f
    <3>4. Logged(u, K, f, After(H, now + 1 - 2 * u.window), now + 1, z)
      BY <1>3, <1>4, <3>1, <3>2, <3>3, TickLog
    <3> QED
      BY <3>1, <3>4, Zenon
  <2>2. CASE u = None
    <3>1. K = {} /\ f \in Int
      BY <1>4, <2>2 DEF Logged
    <3>2. Members({}, now + 1)
      BY FS_EmptySet DEF Members
    <3> HIDE DEF K, f, u
    <3> QED
      BY <2>2, <3>1, <3>2 DEF Logged
  <2> QED
    BY <2>1, <2>2
<1>6. used'["sliding_window"] = u
  BY <1>1
<1> HIDE DEF u, H, z, K, f
<1>7. Logged(used'["sliding_window"], log', logExp', passed'["sliding_window"], now',
             since'["sliding_window"])
  BY <1>1, <1>2, <1>5, <1>6, Zenon DEF z
<1> QED
  BY <1>7 DEF LogInv

\* What the two invariants say of the log.
LEMMA LogPromise ==
  ASSUME HistoryInv, LogInv, NEW l \in InUse("sliding_window")
  PROVE  /\ Log(l)!Contract!WithinQuota(passed["sliding_window"])
         /\ ~Log(l)!Room(now) /\ since["sliding_window"] <= now - l.window =>
              Cardinality({h \in passed["sliding_window"] : h[1] > now - l.window}) >= l.limit
<1> DEFINE H == passed["sliding_window"]
           s == since["sliding_window"]
           x == now - l.window
<1>1. /\ l = used["sliding_window"] /\ l # None /\ l \in LimitRecords
  BY Spans DEF InUse, Algorithms
<1>2. now \in Nat /\ History(H, now) /\ s \in Nat /\ l.window \in Nat /\ l.limit \in Nat
  BY <1>1, NowFacts, Limits DEF HistoryInv, Algorithms
<1>3. Explains(l, log, H, now, s) /\ Members(log, now)
  BY <1>1 DEF LogInv, Logged
<1>4. Log(l)!Contract!WithinQuota(H)
  <2> SUFFICES ASSUME NEW d \in 1 .. l.window - 0
               PROVE  Cardinality(After(H, now - d)) <= l.limit
    BY DEF Log!Contract!WithinQuota, Log!Contract!Since, After,
           Log!Contract!Cardinality, Cardinality
  <2>1. now - d \in Int /\ now - d >= now - l.window
    BY <1>2
  <2> QED
    BY <1>3, <2>1 DEF Explains
<1>5. ASSUME ~Log(l)!Room(now), s <= x
      PROVE  Cardinality(After(H, x)) >= l.limit
  <2>1. ~(Cardinality(After(log, x)) < l.limit)
    BY <1>1, <1>5, LogSteps
  <2>2. Cardinality(After(log, x)) <= Cardinality(After(H, x))
    BY <1>2, <1>3, <1>5 DEF Explains
  <2>3. Cardinality(After(log, x)) \in Nat /\ Cardinality(After(H, x)) \in Nat
    BY <1>2, <1>3, Timely
  <2> HIDE DEF H, x
  <2> QED
    BY <1>2, <2>1, <2>2, <2>3
<1> QED
  BY <1>4, <1>5 DEF After

-----------------------------------------------------------------------------
(* The fixed window counters *)

LEMMA KnownWindow ==
  ASSUME NEW w \in KnownWindows
  PROVE  w \in Nat /\ w > 0
<1>1. w \in WholeWindow
  <2>1. Defaults.window \in WholeWindow
    BY LimiterAssumption DEF LimitRecords
  <2>2. \A v \in Resets : v # None => v \in WholeWindow
    BY LimiterAssumption
  <2>3. \A wishes \in Tables : \A i \in DOMAIN wishes : wishes[i].gives.window \in WholeWindow
    BY LimiterAssumption DEF LimitRecords
  <2>4. \A o \in Overrides : o.window # None => o.window \in WholeWindow
    BY LimiterAssumption
  <2> QED
    BY <2>1, <2>2, <2>3, <2>4 DEF KnownWindows
<1> QED
  BY <1>1 DEF WholeWindow, Positive

\* Where n lies among the windows of length w.
LEMMA Place ==
  ASSUME NEW n \in Nat, NEW w \in Nat, w > 0
  PROVE  /\ n \div w \in Nat /\ (n \div w) * w \in Nat /\ (n \div w + 1) * w = (n \div w) * w + w
         /\ (n \div w) * w <= n /\ n < (n \div w) * w + w
<1> DEFINE q == n \div w
<1>1. q \in Nat /\ q * w <= n /\ n < q * w + w
  BY Quotient
<1> HIDE DEF q
<1>2. q * w \in Nat /\ (q + 1) * w = q * w + w
  BY <1>1
<1> QED
  BY <1>1, <1>2 DEF q

\* A time that is long beside two windows has indexes in them that lie apart.
LEMMA IndexesApart ==
  ASSUME NEW v \in Nat, NEW w \in Nat, 0 < v, v < w, NEW t \in Nat, 2 * v * w <= (w - v) * t
  PROVE  t \div v >= t \div w + 2
<1> DEFINE a == t \div w
           b == t \div v
<1>1. a \in Nat /\ a * w \in Nat /\ a * w <= t /\ t < a * w + w
  BY Place
<1>2. b \in Nat /\ b * v \in Nat /\ b * v <= t /\ t < b * v + v
  BY Place
<1> HIDE DEF a, b
<1>3. (a + 2) * v \in Nat
  BY <1>1
<1>4. (a + 2) * v <= t
  <2> SUFFICES ASSUME t + 1 <= (a + 2) * v PROVE FALSE
    BY <1>3
  <2>1. (a * w) * v <= t * v
    BY <1>1, Linear
  <2>2. (t + 1) * w <= ((a + 2) * v) * w
    BY <1>3, Linear
  <2>3. ((a + 2) * v) * w = (a * w) * v + 2 * v * w
    BY <1>1
  <2>4. (t + 1) * w = t * w + w
    OBVIOUS
  <2>5. t * w = t * v + (w - v) * t
    OBVIOUS
  <2> DEFINE P == (a * w) * v
             Q == t * v
             D == (w - v) * t
             E == 2 * v * w
             F == t * w
  <2>6. P \in Nat /\ Q \in Nat /\ D \in Int /\ E \in Nat /\ F \in Nat
    BY <1>1
  <2>7. P <= Q /\ E <= D /\ F + w <= P + E /\ F = Q + D
    <3>1. F + w <= P + E
      BY <2>2, <2>3, <2>4, Zenon
    <3> QED
      BY <2>1, <2>5, <3>1
  <2> HIDE DEF P, Q, D, E, F
  <2> QED
    BY <2>6, <2>7
<1>5. b >= a + 2
  <2> SUFFICES ASSUME b + 1 <= a + 2 PROVE FALSE
    BY <1>1, <1>2
  <2>1. (b + 1) * v <= (a + 2) * v
    BY <1>1, <1>2, Linear
  <2>2. (b + 1) * v = b * v + v /\ (a + 2) * v \in Nat
    BY <1>1, <1>2
  <2> DEFINE P == b * v
             Q == (a + 2) * v
  <2>3. P \in Nat /\ Q \in Nat /\ P + v <= Q /\ Q <= t /\ t < P + v
    BY <1>2, <1>4, <2>1, <2>2
  <2> HIDE DEF P, Q
  <2> QED
    BY <2>3
<1> QED
  BY <1>5 DEF a, b

\* So a counter that lives now and has the index of now in a window is of that
\* window.
LEMMA Owner ==
  ASSUME WindowsApart, NEW n \in Nat, n >= Start, NEW v \in KnownWindows, NEW w \in KnownWindows,
         \/ n \div w \in {n \div v, n \div v - 1}
         \/ (n \div w) * v <= n /\ n <= (n \div w + 1) * v
  PROVE  v = w
<1>1. v \in Nat /\ v > 0 /\ w \in Nat /\ w > 0
  BY KnownWindow
<1> DEFINE i == n \div w
<1>2. i \in Nat
  BY <1>1, Place
<1>3. i \in {n \div v, n \div v - 1}
  <2> SUFFICES ASSUME i * v <= n, n <= (i + 1) * v
               PROVE  i \in {n \div v, n \div v - 1}
    BY Zenon
  <2> HIDE DEF i
  <2>1. i * v \in Nat /\ (i + 1) * v = i * v + v /\ (i + 1) * v \in Nat
    BY <1>1, <1>2
  <2>2. CASE n < i * v + v
    <3>1. n \div v = i
      BY <1>1, <1>2, <2>2, QuotientIs
    <3> QED
      BY <3>1
  <2>3. CASE ~(n < i * v + v)
    <3>1. n < (i + 1) * v + v /\ (i + 1) * v <= n
      <4> DEFINE P == i * v
                 Q == (i + 1) * v
      <4>1. P \in Nat /\ Q \in Nat /\ Q = P + v /\ n <= Q /\ ~(n < P + v)
        BY <2>1, <2>3
      <4> HIDE DEF P, Q
      <4>2. n < Q + v /\ Q <= n
        BY <1>1, <4>1
      <4> QED
        BY <4>2 DEF Q
    <3>2. i + 1 \in Nat
      BY <1>2
    <3>3. n \div v = i + 1
      BY <1>1, <3>1, <3>2, QuotientIs
    <3> QED
      BY <1>2, <3>3
  <2> QED
    BY <2>2, <2>3
<1>4. ASSUME NEW x \in KnownWindows, NEW y \in KnownWindows, x < y
      PROVE  2 * x * y <= (y - x) * n
  <2>1. x \in Nat /\ y \in Nat /\ 0 < y - x /\ y - x \in Nat
    BY <1>4, KnownWindow
  <2>2. 2 * x * y <= (y - x) * Start
    BY <1>4 DEF WindowsApart
  <2>3. Start * (y - x) <= n * (y - x)
    BY <2>1, Times, Linear
  <2>4. Start * (y - x) = (y - x) * Start /\ n * (y - x) = (y - x) * n
    BY <2>1, Times
  <2> DEFINE P == (y - x) * Start
             Q == (y - x) * n
             E == 2 * x * y
  <2>5. P \in Nat /\ Q \in Nat /\ E \in Nat /\ E <= P /\ P <= Q
    <3>1. P <= Q
      BY <2>3, <2>4, Zenon
    <3>2. P \in Nat /\ Q \in Nat /\ E \in Nat
      BY <2>1, Times
    <3> QED
      BY <2>2, <3>1, <3>2
  <2> HIDE DEF P, Q, E
  <2>6. E <= Q
    BY <2>5
  <2> QED
    BY <2>6 DEF E, Q
<1>5. n \div v \in Nat
  BY <1>1, Place
<1>6. ~(v < w)
  <2>1. v < w => n \div v >= i + 2
    BY <1>1, <1>4, IndexesApart
  <2> HIDE DEF i
  <2> QED
    BY <1>2, <1>3, <1>5, <2>1
<1>7. ~(w < v)
  <2>1. w < v => i >= n \div v + 2
    BY <1>1, <1>4, IndexesApart
  <2> HIDE DEF i
  <2> QED
    BY <1>2, <1>3, <1>5, <2>1
<1> QED
  BY <1>1, <1>6, <1>7

CounterRecord == [n : Nat, exp : Nat]

CountOf(C, i) == IF i \in DOMAIN C THEN C[i].n ELSE 0

\* Every counter is of a known window that has begun, and is not past its deadline.
Live(C, n) ==
  \A j \in DOMAIN C :
    /\ j \in Nat /\ C[j] \in CounterRecord /\ n <= C[j].exp
    /\ \E v \in KnownWindows : C[j].exp = (j + 1) * v /\ j * v <= n

\* No window saw more than the limit l.  The counter of the present one has every
\* request that passed in it under l, and lives as long as the window; if the
\* window began after s, it has no other.
Tallied(l, C, H, n, s) ==
  /\ \A k : Cardinality(InWindow(H, l.window, k)) <= l.limit
  /\ \A i : i = n \div l.window =>
       /\ Cardinality(InWindow(H, l.window, i)) <= CountOf(C, i)
       /\ InWindow(H, l.window, i) # {} => i \in DOMAIN C /\ C[i].exp = (i + 1) * l.window
       /\ s < i * l.window => CountOf(C, i) <= Cardinality(InWindow(H, l.window, i))

Counted(u, C, H, n, s) ==
  /\ Live(C, n)
  /\ u = None => DOMAIN C = {}
  /\ u # None => Tallied(u, C, H, n, s)

CountInv ==
  Counted(used["fixed_window"], counters, passed["fixed_window"], now, since["fixed_window"])

\* D is C with the counter of i set.
Written(C, D, i, m, e) ==
  /\ DOMAIN D = DOMAIN C \cup {i}
  /\ \A j \in DOMAIN C \ {i} : D[j] = C[j]
  /\ D[i] \in CounterRecord /\ D[i].n = m /\ D[i].exp = e

Dropped(C, D, gone) == DOMAIN D = DOMAIN C \ gone /\ \A j \in DOMAIN D : D[j] = C[j]

\* An empty history needs no counters.
LEMMA StartTally ==
  ASSUME NEW l \in LimitRecords, NEW n \in Nat, NEW C, Live(C, n), NEW s,
         \/ s = n
         \/ n \div l.window \notin DOMAIN C
  PROVE  Tallied(l, C, {}, n, s)
<1>1. \A w, i : InWindow({}, w, i) = {} /\ Cardinality(InWindow({}, w, i)) = 0
  BY FS_EmptySet DEF InWindow
<1>2. \A k : Cardinality(InWindow({}, l.window, k)) <= l.limit
  BY <1>1, Limits
<1>3. ASSUME NEW i, i = n \div l.window
      PROVE  /\ 0 <= CountOf(C, i)
             /\ s < i * l.window => CountOf(C, i) <= 0
  <2>1. \A j \in DOMAIN C : C[j].n \in Nat
    BY DEF Live, CounterRecord
  <2>2. 0 <= CountOf(C, i)
    BY <2>1 DEF CountOf
  <2>3. CASE s = n
    <3>1. i * l.window <= n /\ i * l.window \in Nat
      BY <1>3, Limits, Place
    <3> HIDE <1>3
    <3>2. ~(s < i * l.window)
      <4> DEFINE P == i * l.window
      <4>1. P \in Nat /\ P <= n
        BY <3>1
      <4> HIDE DEF P
      <4>2. ~(s < P)
        BY <2>3, <4>1
      <4> QED
        BY <4>2 DEF P
    <3> QED
      BY <2>2, <3>2
  <2>4. CASE n \div l.window \notin DOMAIN C
    <3>1. CountOf(C, i) = 0
      BY <1>3, <2>4 DEF CountOf
    <3> QED
      BY <3>1
  <2> QED
    BY <2>2, <2>3, <2>4
<1> QED
  BY <1>1, <1>2, <1>3, Zenon DEF Tallied

\* A check writes a counter of its window.
LEMMA WriteLives ==
  ASSUME NEW l \in LimitRecords, l.window \in KnownWindows, NEW n \in Nat, NEW C, Live(C, n),
         NEW i, i = n \div l.window, NEW D, NEW m, Written(C, D, i, m, (i + 1) * l.window)
  PROVE  Live(D, n) /\ CountOf(D, i) = m
<1>1. i \in Nat /\ (i + 1) * l.window \in Nat /\ i * l.window <= n /\ n <= (i + 1) * l.window
  <2> DEFINE P == i * l.window
             Q == (i + 1) * l.window
  <2>1. i \in Nat /\ P \in Nat /\ Q = P + l.window /\ P <= n /\ n < P + l.window
        /\ l.window \in Nat
    BY Limits, Place
  <2> HIDE DEF P, Q
  <2>2. i \in Nat /\ Q \in Nat /\ P <= n /\ n <= Q
    BY <2>1
  <2> QED
    BY <2>2 DEF P, Q
<1>2. ASSUME NEW j \in DOMAIN D
      PROVE  /\ j \in Nat /\ D[j] \in CounterRecord /\ n <= D[j].exp
             /\ \E v \in KnownWindows : D[j].exp = (j + 1) * v /\ j * v <= n
  <2>1. CASE j = i
    <3>1. D[j] \in CounterRecord /\ D[j].exp = (j + 1) * l.window
      BY <2>1 DEF Written
    <3>2. n <= (j + 1) * l.window /\ j * l.window <= n /\ j \in Nat
      BY <1>1, <2>1
    <3> QED
      BY <3>1, <3>2, Zenon
  <2>2. CASE j # i
    <3>1. j \in DOMAIN C /\ D[j] = C[j]
      BY <1>2, <2>2, Zenon DEF Written
    <3>2. /\ j \in Nat /\ C[j] \in CounterRecord /\ n <= C[j].exp
          /\ \E v \in KnownWindows : C[j].exp = (j + 1) * v /\ j * v <= n
      BY <3>1, Zenon DEF Live
    <3> QED
      BY <3>1, <3>2, Zenon
  <2> QED
    BY <2>1, <2>2
<1>3. CountOf(D, i) = m
  BY DEF CountOf, Written
<1> QED
  BY <1>2, <1>3, Zenon DEF Live

LEMMA TurnTally ==
  ASSUME NEW l \in LimitRecords, NEW n \in Nat, NEW C, NEW H, NEW s, Tallied(l, C, H, n, s),
         NEW i, i = n \div l.window, NEW D, CountOf(D, i) = CountOf(C, i),
         i \in DOMAIN D /\ D[i].exp = (i + 1) * l.window
  PROVE  Tallied(l, D, H, n, s)
<1>1. /\ \A k : Cardinality(InWindow(H, l.window, k)) <= l.limit
      /\ Cardinality(InWindow(H, l.window, i)) <= CountOf(C, i)
      /\ s < i * l.window => CountOf(C, i) <= Cardinality(InWindow(H, l.window, i))
  BY Zenon DEF Tallied
<1>2. \A j : j = n \div l.window => j = i
  OBVIOUS
<1> QED
  BY <1>1, <1>2, Zenon DEF Tallied

LEMMA PassTally ==
  ASSUME NEW l \in LimitRecords, NEW n \in Nat, n >= Start, NEW C, NEW H, History(H, n), NEW s,
         Tallied(l, C, H, n, s),
         NEW i, i = n \div l.window, CountOf(C, i) \in Nat, CountOf(C, i) < l.limit,
         NEW D, CountOf(D, i) = CountOf(C, i) + 1,
         i \in DOMAIN D /\ D[i].exp = (i + 1) * l.window
  PROVE  Tallied(l, D, H \cup {Latest(H, n)}, n, s)
<1> DEFINE K == H \cup {Latest(H, n)}
           c == CountOf(C, i)
           P == i * l.window
<1>1. \A k : /\ Cardinality(InWindow(H, l.window, k)) \in Nat
             /\ Cardinality(InWindow(K, l.window, k)) =
                  IF i = k THEN Cardinality(InWindow(H, l.window, k)) + 1
                           ELSE Cardinality(InWindow(H, l.window, k))
  <2> TAKE k
  <2>1. /\ Cardinality(InWindow(H, l.window, k)) \in Nat
        /\ n \div l.window = k => Cardinality(InWindow(K, l.window, k)) =
                                     Cardinality(InWindow(H, l.window, k)) + 1
        /\ n \div l.window # k => Cardinality(InWindow(K, l.window, k)) =
                                     Cardinality(InWindow(H, l.window, k))
    BY WindowCounts
  <2>2. CASE i = k
    BY <2>1, <2>2, Zenon
  <2>3. CASE i # k
    BY <2>1, <2>3, Zenon
  <2> QED
    BY <2>2, <2>3, Zenon
<1>2. /\ \A k : Cardinality(InWindow(H, l.window, k)) <= l.limit
      /\ Cardinality(InWindow(H, l.window, i)) <= c
      /\ s < P => c <= Cardinality(InWindow(H, l.window, i))
  BY Zenon DEF Tallied
<1> DEFINE a == Cardinality(InWindow(H, l.window, i))
           b == Cardinality(InWindow(K, l.window, i))
<1>3. a \in Nat /\ b = a + 1 /\ a <= c /\ (s < P => c <= a)
  BY <1>1, <1>2
<1>4. \A k : k # i => Cardinality(InWindow(K, l.window, k)) <= l.limit
  <2>1. \A k : k # i => Cardinality(InWindow(K, l.window, k)) = Cardinality(InWindow(H, l.window, k))
    BY <1>1, Zenon
  <2> QED
    BY <1>2, <2>1, Zenon
<1> HIDE DEF a, b, c, P
<1>5. b <= c + 1 /\ (s < P => c + 1 <= b) /\ b <= l.limit
  BY <1>3, Limits DEF c
<1>6. \A k : Cardinality(InWindow(K, l.window, k)) <= l.limit
  BY <1>4, <1>5, Zenon DEF b
<1>7. /\ Cardinality(InWindow(K, l.window, i)) <= CountOf(D, i)
      /\ s < i * l.window => CountOf(D, i) <= Cardinality(InWindow(K, l.window, i))
  <2>1. CountOf(D, i) = c + 1
    BY DEF c
  <2> QED
    BY <1>5, <2>1, Zenon DEF b, P
<1>8. \A j : j = n \div l.window => j = i
  OBVIOUS
<1> HIDE DEF K
<1>9. Tallied(l, D, K, n, s)
  BY <1>6, <1>7, <1>8, Zenon DEF Tallied
<1> QED
  BY <1>9 DEF K

\* Counters of other windows are not missed.
LEMMA DropLives ==
  ASSUME NEW n, NEW C, Live(C, n), NEW gone, NEW D, Dropped(C, D, gone)
  PROVE  /\ Live(D, n)
         /\ \A i : i \in gone => i \notin DOMAIN D
         /\ \A i : i \notin gone => CountOf(D, i) = CountOf(C, i)
         /\ \A i : i \notin gone /\ i \in DOMAIN C => i \in DOMAIN D /\ D[i] = C[i]
<1>1. \A j \in DOMAIN D : j \in DOMAIN C /\ D[j] = C[j]
  BY DEF Dropped
<1>2. Live(D, n)
  BY <1>1, Zenon DEF Live
<1> QED
  BY <1>1, <1>2 DEF Dropped, CountOf

LEMMA DropTally ==
  ASSUME NEW l \in LimitRecords, NEW n \in Nat, NEW C, NEW H, NEW s, Tallied(l, C, H, n, s),
         Live(C, n), NEW gone, n \div l.window \notin gone, NEW D, Dropped(C, D, gone)
  PROVE  Tallied(l, D, H, n, s)
<1> DEFINE i == n \div l.window
<1>1. /\ CountOf(D, i) = CountOf(C, i)
      /\ i \in DOMAIN C => i \in DOMAIN D /\ D[i] = C[i]
  BY DropLives
<1> HIDE DEF i
<1>2. \A j : j = n \div l.window => j = i
  BY DEF i
<1>3. /\ \A k : Cardinality(InWindow(H, l.window, k)) <= l.limit
      /\ Cardinality(InWindow(H, l.window, i)) <= CountOf(C, i)
      /\ InWindow(H, l.window, i) # {} => i \in DOMAIN C /\ C[i].exp = (i + 1) * l.window
      /\ s < i * l.window => CountOf(C, i) <= Cardinality(InWindow(H, l.window, i))
  BY Zenon DEF Tallied, i
<1>4. InWindow(H, l.window, i) # {} => i \in DOMAIN D /\ D[i].exp = (i + 1) * l.window
  BY <1>1, <1>3, Zenon
<1>5. /\ Cardinality(InWindow(H, l.window, i)) <= CountOf(D, i)
      /\ s < i * l.window => CountOf(D, i) <= Cardinality(InWindow(H, l.window, i))
  BY <1>1, <1>3, Zenon
<1> QED
  BY <1>2, <1>3, <1>4, <1>5, Zenon DEF Tallied

\* Time passes: a window goes on, or the next one begins without a counter.
LEMMA TickTally ==
  ASSUME WindowsApart, NEW l \in LimitRecords, l.window \in KnownWindows,
         NEW n \in Nat, n >= Start, NEW C, Live(C, n), NEW H, History(H, n),
         NEW s \in Nat, NEW z \in Nat, z = s \/ (z = 0 /\ s <= n + 1 - l.window),
         Tallied(l, C, H, n, s),
         NEW D, Dropped(C, D, {j \in DOMAIN C : C[j].exp < n + 1})
  PROVE  Tallied(l, D, After(H, n + 1 - 2 * l.window), n + 1, z)
<1> DEFINE w == l.window
           G == After(H, n + 1 - 2 * w)
           i == n \div w
           P == i * w
           k == (n + 1) \div w
<1>1. /\ w \in Nat /\ w > 0 /\ l.limit \in Nat /\ i \in Nat /\ P \in Nat /\ P <= n /\ n < P + w
      /\ (i + 1) * w = P + w
  BY Limits, Place
<1>2. History(G, n + 1) /\ G \in SUBSET H
  <2>1. n + 1 - 2 * w \in Int /\ n + 1 \in Nat /\ n <= n + 1
    BY <1>1
  <2>2. History(After(H, n + 1 - 2 * w), n + 1)
    BY <2>1, HistoryShrinks, Zenon
  <2> QED
    BY <2>2 DEF After
<1>3. \A j : /\ IsFiniteSet(InWindow(H, w, j)) /\ Cardinality(InWindow(G, w, j)) \in Nat
             /\ Cardinality(InWindow(H, w, j)) \in Nat
             /\ Cardinality(InWindow(G, w, j)) <= Cardinality(InWindow(H, w, j))
  <2> SUFFICES ASSUME NEW j
               PROVE  /\ IsFiniteSet(InWindow(H, w, j)) /\ Cardinality(InWindow(G, w, j)) \in Nat
                      /\ Cardinality(InWindow(H, w, j)) \in Nat
                      /\ Cardinality(InWindow(G, w, j)) <= Cardinality(InWindow(H, w, j))
    BY Zenon
  <2>1. InWindow(H, w, j) \in SUBSET H /\ InWindow(G, w, j) \in SUBSET InWindow(H, w, j)
    BY <1>2 DEF InWindow
  <2>2. IsFiniteSet(H)
    BY DEF History
  <2>3. IsFiniteSet(InWindow(H, w, j))
    BY <2>1, <2>2, Selection
  <2> HIDE DEF G, w
  <2> QED
    BY <2>1, <2>3, Selection
<1>4. \A h \in H : h[1] \in Nat /\ h[1] <= n
  BY Timely
<1>5. /\ \A j : Cardinality(InWindow(H, w, j)) <= l.limit
      /\ Cardinality(InWindow(H, w, i)) <= CountOf(C, i)
      /\ InWindow(H, w, i) # {} => i \in DOMAIN C /\ C[i].exp = (i + 1) * w
      /\ s < P => CountOf(C, i) <= Cardinality(InWindow(H, w, i))
  BY Zenon DEF Tallied
<1>6. \A j : Cardinality(InWindow(G, w, j)) <= l.limit
  <2> HIDE DEF G, w
  <2> QED
    BY <1>1, <1>3, <1>5
<1>7. CASE n + 1 < P + w
  <2>1. k = i
    <3>1. i * w <= n + 1 /\ n + 1 < i * w + w /\ n + 1 \in Nat
      BY <1>1, <1>7
    <3> HIDE DEF i, w
    <3> QED
      BY <1>1, <3>1, QuotientIs DEF k
  <2>2. InWindow(G, w, i) = InWindow(H, w, i)
    <3>1. ASSUME NEW h \in InWindow(H, w, i) PROVE h \in InWindow(G, w, i)
      <4>1. h \in H /\ h[1] \in Nat /\ h[1] \div w = i
        BY <1>4 DEF InWindow
      <4>2. P <= h[1]
        BY <1>1, <4>1, Place
      <4> HIDE DEF P, w, i, G
      <4>3. h[1] > n + 1 - 2 * w
        BY <1>1, <1>7, <4>1, <4>2
      <4> QED
        BY <4>1, <4>3 DEF InWindow, G, After
    <3>2. InWindow(G, w, i) \subseteq InWindow(H, w, i)
      BY <1>2 DEF InWindow
    <3> QED
      BY <3>1, <3>2
  <2>3. z < P => s < P
    <3> HIDE DEF P, w, i
    <3> QED
      BY <1>1, <1>7 DEF w
  <2>4. i \in DOMAIN C => /\ C[i].n \in Nat
                          /\ i \in DOMAIN D => D[i] = C[i]
                          /\ i \notin DOMAIN D => C[i].exp < n + 1
    BY DEF Live, CounterRecord, Dropped
  <2>5. i \notin DOMAIN C => i \notin DOMAIN D
    BY DEF Dropped
  <2>6. InWindow(H, w, i) # {} => i \in DOMAIN D /\ D[i].exp = (i + 1) * w
    <3>1. ~((i + 1) * w < n + 1)
      <4> DEFINE Q == (i + 1) * w
      <4>1. Q = P + w
        BY <1>1
      <4> HIDE DEF Q, P, w, i
      <4>2. ~(Q < n + 1)
        BY <1>1, <1>7, <4>1
      <4> QED
        BY <4>2 DEF Q
    <3> QED
      BY <1>5, <2>4, <3>1, Zenon
  <2>7. Cardinality(InWindow(H, w, i)) <= CountOf(D, i)
    <3>1. CASE i \in DOMAIN D
      <4>1. i \in DOMAIN C
        BY <2>5, <3>1
      <4>2. CountOf(D, i) = CountOf(C, i)
        BY <2>4, <3>1, <4>1 DEF CountOf
      <4> QED
        BY <1>5, <4>2, Zenon
    <3>2. CASE i \notin DOMAIN D
      <4>1. InWindow(H, w, i) = {} /\ CountOf(D, i) = 0
        BY <2>6, <3>2 DEF CountOf
      <4>2. Cardinality(InWindow(H, w, i)) = 0
        BY <4>1, FS_EmptySet, Zenon
      <4> QED
        BY <4>1, <4>2
    <3> QED
      BY <3>1, <3>2
  <2>8. z < P => CountOf(D, i) <= Cardinality(InWindow(H, w, i))
    <3>1. CASE i \in DOMAIN D
      <4>1. i \in DOMAIN C
        BY <2>5, <3>1
      <4>2. CountOf(D, i) = CountOf(C, i)
        BY <2>4, <3>1, <4>1 DEF CountOf
      <4> QED
        BY <1>5, <2>3, <4>2, Zenon
    <3>2. CASE i \notin DOMAIN D
      <4>1. CountOf(D, i) = 0
        BY <3>2 DEF CountOf
      <4>2. Cardinality(InWindow(H, w, i)) \in Nat
        BY <1>3
      <4> HIDE DEF i, w, P
      <4> QED
        BY <4>1, <4>2
    <3> QED
      BY <3>1, <3>2
  <2>9. \A j : j = (n + 1) \div w => j = i
    BY <2>1
  <2>10. /\ Cardinality(InWindow(G, w, i)) <= CountOf(D, i)
         /\ InWindow(G, w, i) # {} => i \in DOMAIN D /\ D[i].exp = (i + 1) * w
         /\ z < i * w => CountOf(D, i) <= Cardinality(InWindow(G, w, i))
    BY <2>2, <2>6, <2>7, <2>8, Zenon
  <2> HIDE DEF G, i
  <2> QED
    BY <1>6, <2>9, <2>10, Zenon DEF Tallied, G
<1>8. CASE ~(n + 1 < P + w)
  <2>1. k = i + 1 /\ k * w = n + 1 /\ k \in Nat
    <3>1. (i + 1) * w = n + 1 /\ i + 1 \in Nat
      <4> DEFINE Q == (i + 1) * w
      <4>1. Q = P + w
        BY <1>1
      <4> HIDE DEF Q, P, w
      <4>2. Q = n + 1
        BY <1>1, <1>8, <4>1
      <4> QED
        BY <1>1, <4>2 DEF Q
    <3>2. (i + 1) * w <= n + 1 /\ n + 1 < (i + 1) * w + w
      BY <1>1, <3>1
    <3>3. n + 1 \in Nat
      OBVIOUS
    <3>4. k = i + 1
      BY <1>1, <3>1, <3>2, <3>3, QuotientIs
    <3> HIDE DEF k
    <3> QED
      BY <3>1, <3>4, Zenon
  <2>2. k \notin DOMAIN D
    <3> SUFFICES ASSUME k \in DOMAIN D PROVE FALSE
      OBVIOUS
    <3>1. k \in DOMAIN C /\ C[k].exp >= n + 1
      <4>1. k \in DOMAIN C /\ ~(C[k].exp < n + 1)
        BY DEF Dropped
      <4>2. C[k].exp \in Nat
        BY <4>1 DEF Live, CounterRecord
      <4> HIDE DEF k
      <4> QED
        BY <4>1, <4>2
    <3>2. PICK v \in KnownWindows : C[k].exp = (k + 1) * v /\ k * v <= n
      BY <3>1 DEF Live
    <3>3. v \in Nat /\ k * v \in Nat
      BY <2>1, <3>2, KnownWindow
    <3>4. k * v <= n + 1 /\ n + 1 <= (k + 1) * v
      <4> DEFINE Q == k * v
                 R == (k + 1) * v
      <4>1. Q \in Nat /\ Q <= n /\ R = C[k].exp
        BY <3>2, <3>3
      <4>2. R >= n + 1 /\ R \in Nat
        BY <3>1, <4>1 DEF Live, CounterRecord
      <4> HIDE DEF Q, R
      <4>3. Q <= n + 1 /\ n + 1 <= R
        BY <4>1, <4>2
      <4> QED
        BY <4>3 DEF Q, R
    <3>5. n + 1 \in Nat /\ n + 1 >= Start
      BY Times
    <3>6. v = w
      BY <3>4, <3>5, Owner
    <3> HIDE DEF k
    <3> QED
      BY <2>1, <3>2, <3>6
  <2>3. InWindow(G, w, k) = {}
    <3>1. ASSUME NEW h \in G PROVE ~(h[1] \div w = k)
      <4>1. h[1] \in Nat /\ h[1] <= n
        BY <1>2, <1>4
      <4>2. (h[1] \div w) * w <= h[1]
        BY <1>1, <4>1, Place
      <4>3. ASSUME h[1] \div w = k PROVE FALSE
        <5>1. k * w <= h[1]
          BY <4>2, <4>3, Zenon
        <5>2. n + 1 <= h[1]
          BY <2>1, <5>1, Zenon
        <5> HIDE DEF k, w
        <5> QED
          BY <4>1, <5>2
      <4> QED
        BY <4>3
    <3> HIDE DEF G
    <3> QED
      BY <3>1 DEF InWindow
  <2>4. CountOf(D, k) = 0 /\ Cardinality(InWindow(G, w, k)) = 0
    <3>1. Cardinality({}) = 0
      BY FS_EmptySet
    <3> QED
      BY <2>2, <2>3, <3>1, Zenon DEF CountOf
  <2>5. \A j : j = (n + 1) \div w => j = k
    OBVIOUS
  <2>6. /\ Cardinality(InWindow(G, w, k)) <= CountOf(D, k)
        /\ CountOf(D, k) <= Cardinality(InWindow(G, w, k))
    BY <2>4
  <2> HIDE DEF G, k
  <2> QED
    BY <1>6, <2>3, <2>5, <2>6, Zenon DEF Tallied, G
<1> QED
  BY <1>7, <1>8

\* The script's steps, in these terms.
LEMMA WriteSteps ==
  ASSUME NEW l \in LimitRecords, now \in Nat, NEW i, i = now \div l.window,
         \A j \in DOMAIN counters : counters[j] \in CounterRecord
  PROVE  /\ CountOf(counters, i) \in Nat
         /\ Counter(l)!Room(now) <=> CountOf(counters, i) < l.limit
         /\ Counter(l)!Passes(now) =>
              /\ CountOf(counters, i) < l.limit
              /\ Written(counters, counters', i, CountOf(counters, i) + 1, (i + 1) * l.window)
         /\ Counter(l)!Turns(now) =>
              Written(counters, counters', i, CountOf(counters, i), (i + 1) * l.window)
<1> DEFINE w == l.window
           c == CountOf(counters, i)
           e == (i + 1) * w
<1>1. i \in Nat /\ e \in Nat /\ now + (e - now) = e /\ l.limit \in Nat /\ l.limit > 0
  BY Limits, Place
<1>2. c \in Nat
  BY DEF CountOf, CounterRecord
<1>3. Counter(l)!WindowIndex(now) = i /\ Counter(l)!Count(i) = c /\ Counter(l)!Ttl(now) = e - now
  BY DEF Counter!WindowIndex, Counter!Count, Counter!Ttl, CountOf
<1>4. Counter(l)!Room(now) <=> c < l.limit
  BY <1>3, Zenon DEF Counter!Room
<1> HIDE DEF c, e, w
<1>5. ASSUME Counter(l)!Passes(now)
      PROVE  c < l.limit /\ Written(counters, counters', i, c + 1, e)
  <2>1. c < l.limit /\ Counter(l)!Store(now, c + 1)
    BY <1>3, <1>4, <1>5, Zenon DEF Counter!Passes
  <2>2. counters' = [j \in DOMAIN counters \cup {i} |->
                       IF j = i THEN [n |-> c + 1, exp |-> now + (e - now)] ELSE counters[j]]
    BY <1>3, <2>1, Zenon DEF Counter!Store
  <2>3. /\ DOMAIN counters' = DOMAIN counters \cup {i}
        /\ \A j \in DOMAIN counters \ {i} : counters'[j] = counters[j]
        /\ counters'[i] = [n |-> c + 1, exp |-> e]
    BY <1>1, <2>2
  <2>4. [n |-> c + 1, exp |-> e] \in CounterRecord
    BY <1>1, <1>2 DEF CounterRecord
  <2> QED
    BY <2>1, <2>3, <2>4 DEF Written
<1>6. ASSUME Counter(l)!Turns(now)
      PROVE  Written(counters, counters', i, c, e)
  <2>1. /\ ~(c < l.limit)
        /\ counters' = [j \in DOMAIN counters |->
                          IF j = i THEN [counters[j] EXCEPT !.exp = now + (e - now)]
                                   ELSE counters[j]]
    BY <1>3, <1>4, <1>6 DEF Counter!Turns
  <2>2. i \in DOMAIN counters /\ c = counters[i].n /\ counters[i] \in CounterRecord
    <3>1. i \in DOMAIN counters
      BY <1>1, <2>1 DEF c, CountOf
    <3> QED
      BY <3>1 DEF c, CountOf
  <2>3. [counters[i] EXCEPT !.exp = e] \in CounterRecord
        /\ [counters[i] EXCEPT !.exp = e].n = c /\ [counters[i] EXCEPT !.exp = e].exp = e
    BY <1>1, <2>2 DEF CounterRecord
  <2>4. /\ DOMAIN counters' = DOMAIN counters
        /\ \A j \in DOMAIN counters \ {i} : counters'[j] = counters[j]
        /\ counters'[i] = [counters[i] EXCEPT !.exp = e]
    BY <1>1, <2>1, <2>2
  <2> QED
    BY <2>2, <2>3, <2>4 DEF Written
<1> QED
  BY <1>2, <1>4, <1>5, <1>6 DEF c, e, w

LEMMA CounterSteps ==
  ASSUME NEW l \in LimitRecords, now \in Nat, Live(counters, now), NEW i, i = now \div l.window
  PROVE  /\ CountOf(counters, i) \in Nat
         /\ Counter(l)!Room(now) <=> CountOf(counters, i) < l.limit
         /\ Counter(l)!Passes(now) =>
              /\ CountOf(counters, i) < l.limit
              /\ Written(counters, counters', i, CountOf(counters, i) + 1, (i + 1) * l.window)
         /\ Counter(l)!Turns(now) =>
              Written(counters, counters', i, CountOf(counters, i), (i + 1) * l.window)
<1>1. \A j \in DOMAIN counters : counters[j] \in CounterRecord
  BY DEF Live
<1> QED
  BY <1>1, WriteSteps, Zenon

\* Whatever limits left in the counters, they cover the history of the next one.
LEMMA BaseCounted ==
  ASSUME HistoryInv, CountInv, NEW l \in LimitRecords, l.algorithm = "fixed_window"
  PROVE  Live(counters, now) /\ Tallied(l, counters, Base(l), now, Begun(l))
<1> DEFINE u == used["fixed_window"]
<1>1. Live(counters, now) /\ now \in Nat /\ "fixed_window" \in Algorithms
  BY NowFacts DEF CountInv, Counted, Algorithms
<1>2. CASE u = None
  <2>1. Base(l) = {} /\ now \div l.window \notin DOMAIN counters
    BY <1>1, <1>2 DEF Base, HistoryInv, CountInv, Counted
  <2>2. Tallied(l, counters, {}, now, Begun(l))
    BY <1>1, <2>1, StartTally
  <2> QED
    BY <1>1, <2>1, <2>2, Zenon
<1>3. CASE u = l /\ u # None
  BY <1>1, <1>3 DEF Base, Begun, CountInv, Counted
<1>4. CASE u \notin {None, l}
  <2>1. Base(l) = {} /\ Begun(l) = now
    BY <1>4 DEF Base, Begun
  <2>2. Tallied(l, counters, {}, now, now)
    BY <1>1, StartTally
  <2> QED
    BY <1>1, <2>1, <2>2, Zenon
<1> QED
  BY <1>2, <1>3, <1>4

LEMMA CheckCounts ==
  ASSUME HistoryInv, CountInv, NEW l \in LegalLimits, l.window \in KnownWindows, CheckCounter(l)
  PROVE  HistoryInv' /\ CountInv'
         /\ \A a \in Algorithms \ {"fixed_window"} : Unaccounted(a)
<1> DEFINE H == Base(l)
           K == H \cup {Latest(H, now)}
           i == now \div l.window
           c == CountOf(counters, i)
<1>1. /\ l \in LimitRecords /\ l # None /\ l.algorithm = "fixed_window"
      /\ UNCHANGED <<table, now>>
  BY LimiterAssumption DEF LegalLimits, CheckCounter
<1>2. now \in Nat /\ now >= Start /\ History(H, now)
  BY <1>1, NowFacts, BaseFacts
<1>3. Live(counters, now) /\ Tallied(l, counters, H, now, Begun(l))
  BY <1>1, BaseCounted
<1>4. ASSUME NEW D, NEW m, NEW G,
             Written(counters, D, i, m, (i + 1) * l.window),
             CountOf(D, i) = m /\ i \in DOMAIN D /\ D[i].exp = (i + 1) * l.window =>
               Tallied(l, D, G, now, Begun(l))
      PROVE  Counted(l, D, G, now, Begun(l))
  <2>1. Live(D, now) /\ CountOf(D, i) = m
    BY <1>1, <1>2, <1>3, <1>4, WriteLives
  <2>2. i \in DOMAIN D /\ D[i].exp = (i + 1) * l.window
    BY <1>4, Zenon DEF Written
  <2> HIDE DEF i
  <2> QED
    BY <1>1, <1>4, <2>1, <2>2, Zenon DEF Counted
<1>5. CASE Counter(l)!Passes(now) /\ Account(l, TRUE)
  <2>1. /\ HistoryInv' /\ \A a \in Algorithms \ {"fixed_window"} : Unaccounted(a)
        /\ used'["fixed_window"] = l /\ since'["fixed_window"] = Begun(l)
        /\ passed'["fixed_window"] = K
    <3>1. TRUE \in BOOLEAN /\ Account(l, TRUE)
      BY <1>5
    <3>2. passed'["fixed_window"] = IF TRUE THEN K ELSE H
      BY <1>1, <3>1, AccountEffect, Zenon
    <3> QED
      BY <1>1, <3>1, <3>2, AccountEffect, Zenon
  <2>2. /\ c \in Nat /\ c < l.limit
        /\ Written(counters, counters', i, c + 1, (i + 1) * l.window)
    BY <1>1, <1>2, <1>3, <1>5, CounterSteps
  <2>3. Counted(l, counters', K, now, Begun(l))
    <3>1. ASSUME NEW D, CountOf(D, i) = c + 1, i \in DOMAIN D /\ D[i].exp = (i + 1) * l.window
          PROVE  Tallied(l, D, K, now, Begun(l))
      BY <1>1, <1>2, <1>3, <2>2, <3>1, PassTally
    <3> HIDE DEF i, c, K, H
    <3> QED
      BY <1>4, <2>2, <3>1, Zenon
  <2> QED
    BY <1>1, <2>1, <2>3, Zenon DEF CountInv
<1>6. CASE Counter(l)!Turns(now) /\ Account(l, FALSE)
  <2>1. /\ HistoryInv' /\ \A a \in Algorithms \ {"fixed_window"} : Unaccounted(a)
        /\ used'["fixed_window"] = l /\ since'["fixed_window"] = Begun(l)
        /\ passed'["fixed_window"] = H
    <3>1. FALSE \in BOOLEAN /\ Account(l, FALSE)
      BY <1>6
    <3>2. passed'["fixed_window"] = IF FALSE THEN K ELSE H
      BY <1>1, <3>1, AccountEffect, Zenon
    <3> QED
      BY <1>1, <3>1, <3>2, AccountEffect, Zenon
  <2>2. Written(counters, counters', i, c, (i + 1) * l.window)
    BY <1>1, <1>2, <1>3, <1>6, CounterSteps
  <2>3. Counted(l, counters', H, now, Begun(l))
    <3>1. ASSUME NEW D, CountOf(D, i) = c, i \in DOMAIN D /\ D[i].exp = (i + 1) * l.window
          PROVE  Tallied(l, D, H, now, Begun(l))
      BY <1>1, <1>2, <1>3, <3>1, TurnTally
    <3> HIDE DEF i, c, H
    <3> QED
      BY <1>4, <2>2, <3>1, Zenon
  <2> QED
    BY <1>1, <2>1, <2>3, Zenon DEF CountInv
<1> QED
  BY <1>5, <1>6 DEF CheckCounter

\* A reset of the window in use leaves it no counter; any other one leaves its
\* counter alone.
LEMMA ResetCounts ==
  ASSUME WindowsApart, HistoryInv, CountInv,
         \A u \in LegalLimits : u.window \in KnownWindows,
         NEW named \in Resets, NEW l, l = [Defaults EXCEPT !.window = ResetWindow(named)],
         ResetCounter(l, named)
  PROVE  HistoryInv' /\ CountInv'
         /\ \A a \in Algorithms \ {"fixed_window"} : Unaccounted(a)
<1> DEFINE u == used["fixed_window"]
           H == passed["fixed_window"]
           s == since["fixed_window"]
           v == ResetWindow(named)
           clean == u # None /\ u.window = v
           gone  == {now \div v, now \div v - 1}
<1>1. v \in KnownWindows /\ v = Or(named, Defaults.window) /\ l.window = v
  <2>1. v \in KnownWindows /\ v = Or(named, Defaults.window)
    BY DEF ResetWindow, Or, KnownWindows
  <2>2. l.window = v
    BY LimiterAssumption DEF LimitRecords
  <2> QED
    BY <2>1, <2>2
<1>2. /\ Counter(l)!Delete(now) /\ UNCHANGED <<table, now>> /\ clean \in BOOLEAN
      /\ Restart("fixed_window", clean) /\ "fixed_window" \in Algorithms
  BY <1>1 DEF ResetCounter, Algorithms
<1>3. Dropped(counters, counters', gone)
  BY <1>1, <1>2 DEF Counter!Delete, Counter!Without, Counter!WindowIndex, Dropped
<1>4. /\ HistoryInv' /\ used' = used
      /\ clean => since'["fixed_window"] = 0 /\ passed'["fixed_window"] = {}
      /\ ~clean => since'["fixed_window"] = s /\ passed'["fixed_window"] = H
      /\ \A a \in Algorithms \ {"fixed_window"} : Unaccounted(a)
  <2> HIDE DEF clean
  <2> QED
    BY <1>2, RestartEffect DEF Unaccounted
<1>5. now \in Nat /\ now >= Start
  BY NowFacts
<1>6. Live(counters, now) /\ (u = None => DOMAIN counters = {})
      /\ (u # None => Tallied(u, counters, H, now, s))
  BY DEF CountInv, Counted
<1>7. Live(counters', now) /\ \A i \in gone : i \notin DOMAIN counters'
  BY <1>3, <1>6, DropLives
<1>8. u # None => u \in LimitRecords /\ u.window \in KnownWindows
  BY <1>2 DEF HistoryInv, LegalLimits
<1>9. CASE clean
  <2>1. u \in LimitRecords /\ u # None
    BY <1>8, <1>9
  <2>2. now \div u.window \notin DOMAIN counters'
    BY <1>7, <1>9
  <2>3. Tallied(u, counters', {}, now, 0)
    BY <1>5, <1>7, <2>1, <2>2, StartTally
  <2>4. Counted(u, counters', {}, now, 0)
    BY <1>7, <2>1, <2>3 DEF Counted
  <2>5. since'["fixed_window"] = 0 /\ passed'["fixed_window"] = {}
    BY <1>4, <1>9, Zenon
  <2> QED
    BY <1>2, <1>4, <2>4, <2>5, Zenon DEF CountInv
<1>10. CASE ~clean
  <2>1. ASSUME u # None PROVE Tallied(u, counters', H, now, s)
    <3>1. u.window # v
      BY <1>10, <2>1
    <3>2. now \div u.window \notin gone
      BY <1>1, <1>5, <1>8, <2>1, <3>1, Owner
    <3> HIDE DEF gone, u, H, s
    <3> QED
      BY <1>3, <1>5, <1>6, <1>8, <2>1, <3>2, DropTally
  <2>2. u = None => DOMAIN counters' = {}
    BY <1>3, <1>6 DEF Dropped
  <2>3. Counted(u, counters', H, now, s)
    BY <1>7, <2>1, <2>2, Zenon DEF Counted
  <2>4. since'["fixed_window"] = s /\ passed'["fixed_window"] = H
    BY <1>4, <1>10, Zenon
  <2> QED
    BY <1>2, <1>4, <2>3, <2>4, Zenon DEF CountInv
<1> QED
  BY <1>4, <1>9, <1>10, Zenon

LEMMA TickCounts ==
  ASSUME WindowsApart, HistoryInv, CountInv,
         \A u \in LegalLimits : u.window \in KnownWindows, Tick
  PROVE  CountInv'
<1> DEFINE u == used["fixed_window"]
           H == passed["fixed_window"]
           s == since["fixed_window"]
           z == since'["fixed_window"]
           D == counters'
           gone == {j \in DOMAIN counters : counters[j].exp < now + 1}
<1>1. /\ UNCHANGED <<table, used>> /\ now' = now + 1 /\ "fixed_window" \in Algorithms
      /\ z = s \/ (z = 0 /\ s <= now + 1 - Span("fixed_window"))
      /\ passed'["fixed_window"] = After(H, now + 1 - 2 * Span("fixed_window"))
  BY TickHistory DEF Algorithms
<1>2. Dropped(counters, D, gone)
  <2>1. Counter(Defaults)!Expire /\ now' = now + 1
    BY DEF Tick
  <2> QED
    BY <2>1 DEF Counter!Expire, Counter!Without, Dropped
<1>3. /\ now \in Nat /\ now >= Start /\ History(H, now) /\ s \in Nat /\ z \in Nat
  BY <1>1, NowFacts DEF HistoryInv
<1>4. Live(counters, now) /\ (u = None => DOMAIN counters = {})
      /\ (u # None => Tallied(u, counters, H, now, s))
  BY DEF CountInv, Counted
<1>5. u # None => u \in LimitRecords /\ u.window \in KnownWindows /\ Span("fixed_window") = u.window
  <2>1. u # None => u \in LegalLimits
    BY <1>1 DEF HistoryInv
  <2> QED
    BY <1>1, <2>1, Spans
<1> HIDE DEF u, H, s, z, D
<1>6. Live(D, now + 1)
  <2>1. Live(D, now)
    BY <1>2, <1>4, DropLives
  <2>2. ASSUME NEW j \in DOMAIN D
        PROVE  /\ j \in Nat /\ D[j] \in CounterRecord /\ now + 1 <= D[j].exp
               /\ \E v \in KnownWindows : D[j].exp = (j + 1) * v /\ j * v <= now + 1
    <3>1. /\ j \in Nat /\ D[j] \in CounterRecord
          /\ \E v \in KnownWindows : D[j].exp = (j + 1) * v /\ j * v <= now
      BY <2>1, <2>2, Zenon DEF Live
    <3>2. D[j] = counters[j] /\ j \in DOMAIN counters /\ ~(counters[j].exp < now + 1)
      BY <1>2, <2>2 DEF Dropped
    <3>3. D[j].exp \in Nat
      BY <3>1 DEF CounterRecord
    <3>4. now + 1 <= D[j].exp
      BY <1>3, <3>2, <3>3
    <3>5. PICK v \in KnownWindows : D[j].exp = (j + 1) * v /\ j * v <= now
      BY <3>1, Zenon
    <3>6. j * v <= now + 1
      <4> DEFINE P == j * v
      <4>1. P \in Nat /\ P <= now
        BY <3>1, <3>5, KnownWindow
      <4> HIDE DEF P
      <4>2. P <= now + 1
        BY <1>3, <4>1
      <4> QED
        BY <4>2 DEF P
    <3> QED
      BY <3>1, <3>4, <3>5, <3>6, Zenon
  <2> QED
    BY <2>2, Zenon DEF Live
<1>7. Counted(u, D, After(H, now + 1 - 2 * Span("fixed_window")), now + 1, z)
  <2>1. ASSUME u # None
        PROVE  Tallied(u, D, After(H, now + 1 - 2 * Span("fixed_window")), now + 1, z)
    <3>1. u \in LimitRecords /\ u.window \in KnownWindows /\ Span("fixed_window") = u.window
      BY <1>5, <2>1
    <3>2. z = s \/ (z = 0 /\ s <= now + 1 - u.window)
      BY <1>1, <3>1
    <3>3. Tallied(u, counters, H, now, s)
      BY <1>4, <2>1
    <3>4. Tallied(u, D, After(H, now + 1 - 2 * u.window), now + 1, z)
      BY <1>2, <1>3, <1>4, <3>1, <3>2, <3>3, TickTally
    <3> QED
      BY <3>1, <3>4, Zenon
  <2>2. u = None => DOMAIN D = {}
    BY <1>2, <1>4 DEF Dropped
  <2> QED
    BY <1>6, <2>1, <2>2, Zenon DEF Counted
<1>8. used'["fixed_window"] = u
  BY <1>1 DEF u
<1>9. Counted(used'["fixed_window"], counters', passed'["fixed_window"], now', since'["fixed_window"])
  BY <1>1, <1>7, <1>8, Zenon DEF z, D
<1> QED
  BY <1>9 DEF CountInv

\* The requests of a few windows are at most those of each, together.
LEMMA Together ==
  ASSUME NEW A, NEW B, IsFiniteSet(A), IsFiniteSet(B), NEW a \in Nat, NEW b \in Nat,
         Cardinality(A) <= a, Cardinality(B) <= b
  PROVE  IsFiniteSet(A \cup B) /\ Cardinality(A \cup B) <= a + b
<1>1. /\ IsFiniteSet(A \cup B)
      /\ Cardinality(A \cup B) = Cardinality(A) + Cardinality(B) - Cardinality(A \cap B)
  BY FS_Union
<1>2. IsFiniteSet(A \cap B) /\ Cardinality(A \cap B) \in Nat
  <2>1. A \cap B \in SUBSET A
    OBVIOUS
  <2> QED
    BY <2>1, Selection
<1>3. Cardinality(A) \in Nat /\ Cardinality(B) \in Nat
  BY FS_CardinalityType
<1> QED
  BY <1>1, <1>2, <1>3

\* d consecutive ticks, up to two windows of them, touch the windows the promise
\* allows for.
LEMMA Spanned ==
  ASSUME NEW n \in Nat, NEW w \in Nat, w > 0, NEW t \in Nat, t <= n, NEW d \in Nat, d > 0,
         t > n - d
  PROVE  /\ d <= 1 => t \div w = n \div w
         /\ d <= w + 1 => t \div w \in {n \div w, n \div w - 1}
         /\ d <= 2 * w => t \div w \in {n \div w, n \div w - 1, n \div w - 2}
<1> DEFINE i == n \div w
           q == t \div w
           P == i * w
           Q == q * w
<1>1. /\ i \in Nat /\ P \in Nat /\ P <= n /\ n < P + w
      /\ q \in Nat /\ Q \in Nat /\ Q <= t /\ t < Q + w
  BY Place
<1>2. d <= 1 => q = i
  <2>1. d <= 1 => t = n
    OBVIOUS
  <2> QED
    BY <2>1
<1>3. \A m \in Nat : q + m <= i => Q + m * w <= P
  <2> TAKE m \in Nat
  <2> HIDE DEF q, i
  <2>1. q + m <= i => (q + m) * w <= i * w
    BY <1>1, Linear
  <2>2. (q + m) * w = q * w + m * w
    BY <1>1, Linear
  <2> QED
    BY <2>1, <2>2, Zenon DEF P, Q
<1>4. q <= i
  <2> SUFFICES ASSUME i + 1 <= q PROVE FALSE
    BY <1>1
  <2>1. (i + 1) * w <= q * w /\ (i + 1) * w = i * w + w
    BY <1>1, Linear
  <2>2. P + w <= Q
    BY <2>1, Zenon
  <2> HIDE DEF P, Q, i, q
  <2> QED
    BY <1>1, <2>2
<1>5. (q + 2 <= i => Q + 2 * w <= P) /\ (q + 3 <= i => Q + 3 * w <= P)
  BY <1>3
<1> HIDE DEF P, Q, i, q
<1>6. d <= w + 1 => ~(q + 2 <= i)
  BY <1>1, <1>5
<1>7. d <= 2 * w => ~(q + 3 <= i)
  BY <1>1, <1>5
<1>8. d <= w + 1 => q \in {i, i - 1}
  BY <1>1, <1>4, <1>6
<1>9. d <= 2 * w => q \in {i, i - 1, i - 2}
  BY <1>1, <1>4, <1>7
<1> QED
  BY <1>2, <1>8, <1>9 DEF i, q

LEMMA WindowsWithin ==
  ASSUME NEW n \in Nat, n >= Start, NEW w \in Nat, w > 0, NEW H, History(H, n), NEW L \in Nat,
         \A k : Cardinality(InWindow(H, w, k)) <= L, NEW d \in 1 .. 2 * w
  PROVE  Cardinality(After(H, n - d)) <= L * ((d - 2 + w) \div w + 1)
<1> DEFINE i == n \div w
           A == InWindow(H, w, i)
           B == InWindow(H, w, i - 1)
           C == InWindow(H, w, i - 2)
           S == After(H, n - d)
           e == d - 2 + w
<1>1. d \in Nat /\ d > 0 /\ d <= 2 * w /\ e \in Nat
  OBVIOUS
<1>2. /\ IsFiniteSet(A) /\ Cardinality(A) <= L
      /\ IsFiniteSet(B) /\ Cardinality(B) <= L
      /\ IsFiniteSet(C) /\ Cardinality(C) <= L
  BY WindowCounts
<1>3. \A h \in H : h[1] \in Nat /\ h[1] <= n
  BY Timely
<1>4. \A h \in S : /\ h \in H
                   /\ d <= 1 => h[1] \div w = i
                   /\ d <= w + 1 => h[1] \div w \in {i, i - 1}
                   /\ h[1] \div w \in {i, i - 1, i - 2}
  <2> TAKE h \in S
  <2>1. h \in H /\ h[1] > n - d /\ h[1] \in Nat /\ h[1] <= n
    BY <1>3 DEF After
  <2> HIDE DEF S
  <2> QED
    BY <1>1, <2>1, Spanned
<1>5. /\ d <= 1 => S \in SUBSET A
      /\ d <= w + 1 => S \in SUBSET (A \cup B)
      /\ S \in SUBSET (A \cup (B \cup C))
  <2> HIDE DEF i, S
  <2> QED
    BY <1>4 DEF InWindow
<1>6. /\ IsFiniteSet(A \cup B) /\ Cardinality(A \cup B) <= L + L
      /\ IsFiniteSet(A \cup (B \cup C)) /\ Cardinality(A \cup (B \cup C)) <= L + (L + L)
  <2> HIDE DEF A, B, C
  <2>1. L + L \in Nat /\ IsFiniteSet(B \cup C) /\ Cardinality(B \cup C) <= L + L
    <3>1. IsFiniteSet(B \cup C) /\ Cardinality(B \cup C) <= L + L
      BY <1>2, Together
    <3> QED
      BY <3>1
  <2>2. IsFiniteSet(A \cup (B \cup C)) /\ Cardinality(A \cup (B \cup C)) <= L + (L + L)
    BY <1>2, <2>1, Together
  <2>3. IsFiniteSet(A \cup B) /\ Cardinality(A \cup B) <= L + L
    BY <1>2, Together
  <2> QED
    BY <2>2, <2>3
<1> HIDE DEF A, B, C, S, i, e
<1>7. CASE d <= 1
  <2>1. e \div w = 0
    <3>1. 0 * w <= e /\ e < 0 * w + w
      BY <1>1, <1>7 DEF e
    <3> QED
      BY <1>1, <3>1, QuotientIs
  <2>2. Cardinality(S) <= L
    BY <1>2, <1>5, <1>7, Selection
  <2>3. L * (0 + 1) = L
    OBVIOUS
  <2> QED
    BY <2>1, <2>2, <2>3, Zenon DEF e, S
<1>8. CASE d > 1 /\ d <= w + 1
  <2>1. e \div w = 1
    <3>1. 1 * w <= e /\ e < 1 * w + w
      BY <1>1, <1>8 DEF e
    <3> QED
      BY <1>1, <3>1, QuotientIs
  <2>2. Cardinality(S) <= L + L
    BY <1>5, <1>6, <1>8, Selection
  <2>3. L * (1 + 1) = L + L
    OBVIOUS
  <2> QED
    BY <2>1, <2>2, <2>3, Zenon DEF e, S
<1>9. CASE d > w + 1
  <2>1. e \div w = 2
    <3>1. 2 * w <= e /\ e < 2 * w + w
      BY <1>1, <1>9 DEF e
    <3> QED
      BY <1>1, <3>1, QuotientIs
  <2>2. Cardinality(S) <= L + (L + L)
    BY <1>5, <1>6, Selection
  <2>3. L * (2 + 1) = L + (L + L)
    OBVIOUS
  <2> QED
    BY <2>1, <2>2, <2>3, Zenon DEF e, S
<1> QED
  BY <1>1, <1>7, <1>8, <1>9

\* What the two invariants say of the counters.
LEMMA CountPromise ==
  ASSUME HistoryInv, CountInv, NEW l \in InUse("fixed_window")
  PROVE  /\ Counter(l)!Contract!WithinQuota(passed["fixed_window"])
         /\ ~Counter(l)!Room(now) /\ since["fixed_window"] <= now - l.window =>
              Cardinality({h \in passed["fixed_window"] : h[1] > now - l.window}) >= l.limit
<1> DEFINE H == passed["fixed_window"]
           s == since["fixed_window"]
           w == l.window
           i == now \div w
<1>1. /\ l = used["fixed_window"] /\ l # None /\ l \in LimitRecords
  BY Spans DEF InUse, Algorithms
<1>2. /\ now \in Nat /\ now >= Start /\ History(H, now) /\ s \in Nat
      /\ w \in Nat /\ w > 0 /\ l.limit \in Nat
  BY <1>1, NowFacts, Limits DEF HistoryInv, Algorithms
<1>3. Tallied(l, counters, H, now, s) /\ Live(counters, now)
  BY <1>1 DEF CountInv, Counted
<1>4. /\ \A k : Cardinality(InWindow(H, w, k)) <= l.limit
      /\ s < i * w => CountOf(counters, i) <= Cardinality(InWindow(H, w, i))
  BY <1>3, Zenon DEF Tallied
<1> HIDE DEF H, s
<1>5. Counter(l)!Contract!WithinQuota(H)
  <2> SUFFICES ASSUME NEW d \in 1 .. 2 * w
               PROVE  Cardinality(After(H, now - d)) <= l.limit * ((d - 2 + w) \div w + 1)
    BY DEF Counter!Contract!WithinQuota, Counter!Contract!Since, Counter!Horizon, After,
           Counter!Contract!Cardinality, Cardinality
  <2> HIDE DEF w
  <2> QED
    BY <1>2, <1>4, WindowsWithin
<1>6. ASSUME ~Counter(l)!Room(now), s <= now - w
      PROVE  Cardinality(After(H, now - w)) >= l.limit
  <2>1. CountOf(counters, i) \in Nat /\ ~(CountOf(counters, i) < l.limit)
    BY <1>1, <1>2, <1>3, <1>6, CounterSteps
  <2>2. i * w \in Nat /\ i * w <= now /\ now < i * w + w
    BY <1>2, Place
  <2>3. s < i * w
    <3> DEFINE P == i * w
    <3>1. P \in Nat /\ now < P + w
      BY <2>2
    <3> HIDE DEF P, w
    <3>2. s < P
      BY <1>2, <1>6, <3>1
    <3> QED
      BY <3>2 DEF P
  <2>4. InWindow(H, w, i) \in SUBSET After(H, now - w)
    <3> SUFFICES ASSUME NEW h \in InWindow(H, w, i) PROVE h \in After(H, now - w)
      OBVIOUS
    <3>1. h \in H /\ h[1] \div w = i
      BY DEF InWindow
    <3>2. h[1] \in Nat
      BY <1>2, <3>1, Timely
    <3>3. i * w <= h[1]
      BY <1>2, <3>1, <3>2, Place
    <3>4. h[1] > now - w
      <4> DEFINE P == i * w
      <4>1. P \in Nat /\ now < P + w /\ P <= h[1]
        BY <2>2, <3>3
      <4> HIDE DEF P, w
      <4> QED
        BY <1>2, <3>2, <4>1
    <3> QED
      BY <3>1, <3>4 DEF After
  <2>5. IsFiniteSet(After(H, now - w))
    BY <1>2, Timely
  <2>6. /\ Cardinality(InWindow(H, w, i)) \in Nat /\ Cardinality(After(H, now - w)) \in Nat
        /\ Cardinality(InWindow(H, w, i)) <= Cardinality(After(H, now - w))
    BY <2>4, <2>5, Selection
  <2>7. CountOf(counters, i) <= Cardinality(InWindow(H, w, i))
    BY <1>4, <2>3
  <2> HIDE DEF i, w
  <2> QED
    BY <1>2, <2>1, <2>6, <2>7
<1> QED
  BY <1>5, <1>6 DEF H, s, w, After

-----------------------------------------------------------------------------
(* The limiter *)

SharedInv == Stored /\ HistoryInv /\ BalanceInv /\ LogInv

LimiterInv == SharedInv /\ CountInv

LEMMA WindowsKnown ==
  ASSUME Stored
  PROVE  Windows \subseteq KnownWindows /\ \A u \in LegalLimits : u.window \in KnownWindows
<1>1. PICK wishes \in Tables : table = Created(wishes)
  BY DEF Stored
<1>2. DOMAIN table = DOMAIN wishes /\ \A i \in DOMAIN table : table[i].gives = wishes[i].gives
  BY <1>1 DEF Created, Row
<1>3. \A i \in DOMAIN table : table[i].gives.window \in KnownWindows
  BY <1>2 DEF KnownWindows
<1>4. Windows \subseteq KnownWindows
  BY <1>3 DEF Windows, KnownWindows
<1> QED
  BY <1>4 DEF LegalLimits

\* Steps that do not concern an algorithm leave its state explained.
LEMMA BalanceFrame ==
  ASSUME BalanceInv, bucket' = bucket, now' = now, Unaccounted("token_bucket")
  PROVE  BalanceInv'
BY Zenon DEF BalanceInv, Unaccounted

LEMMA LogFrame ==
  ASSUME LogInv, log' = log, logExp' = logExp, now' = now, Unaccounted("sliding_window")
  PROVE  LogInv'
BY Zenon DEF LogInv, Unaccounted

LEMMA CountFrame ==
  ASSUME CountInv, counters' = counters, now' = now, Unaccounted("fixed_window")
  PROVE  CountInv'
BY Zenon DEF CountInv, Unaccounted

\* What the algorithms' names are told apart by.
LEMMA Distinct ==
  /\ "token_bucket" \in Algorithms /\ "sliding_window" \in Algorithms
  /\ "fixed_window" \in Algorithms
  /\ "token_bucket" # "sliding_window" /\ "token_bucket" # "fixed_window"
  /\ "sliding_window" # "fixed_window"
BY DEF Algorithms

LEMMA InitInv == Init => LimiterInv
<1> SUFFICES ASSUME Init PROVE LimiterInv
  OBVIOUS
<1>1. /\ now = Start /\ bucket = [bal |-> 0, ts |-> 0, exp |-> -1]
      /\ log = {} /\ logExp = -1 /\ counters = [i \in {} |-> 0]
      /\ used = [a \in Algorithms |-> None] /\ since = [a \in Algorithms |-> 0]
      /\ passed = [a \in Algorithms |-> {}]
  BY DEF Init
<1>2. Stored
  BY DEF Init, Stored
<1>3. Start \in Nat /\ MaxClock \in Nat /\ Start <= MaxClock
  BY Times, LimiterAssumption
<1>4. HistoryInv
  <2>1. now \in Start .. MaxClock /\ 0 \in 0 .. now
    BY <1>1, <1>3
  <2>2. /\ used \in [Algorithms -> LegalLimits \cup {None}] /\ since \in [Algorithms -> 0 .. now]
        /\ DOMAIN passed = Algorithms /\ passed = [a \in Algorithms |-> passed[a]]
    BY <1>1, <2>1
  <2>3. \A a \in Algorithms : passed[a] = {} /\ since[a] = 0
    BY <1>1
  <2>4. \A a \in Algorithms : History(passed[a], now)
    BY <2>3, EmptyHistory, Zenon
  <2> QED
    BY <2>1, <2>2, <2>3, <2>4, Zenon DEF HistoryInv
<1>5. \A a \in Algorithms : used[a] = None
  BY <1>1
<1>6. BalanceInv
  <2>1. bucket \in BucketRecord /\ bucket.ts <= now /\ bucket.exp < 0
    BY <1>1, <1>3 DEF BucketRecord
  <2> QED
    BY <1>5, <2>1, Zenon DEF BalanceInv, Balanced, Algorithms
<1>7. LogInv
  <2>1. Members(log, now) /\ logExp \in Int
    BY <1>1, FS_EmptySet DEF Members
  <2> QED
    BY <1>1, <1>5, <2>1, Zenon DEF LogInv, Logged, Algorithms
<1>8. CountInv
  <2>1. DOMAIN counters = {}
    BY <1>1
  <2> QED
    BY <1>5, <2>1, Zenon DEF CountInv, Counted, Live, Algorithms
<1> QED
  BY <1>2, <1>4, <1>6, <1>7, <1>8 DEF LimiterInv, SharedInv

LEMMA CheckInv ==
  ASSUME SharedInv, Stored', NEW l \in EffectiveLimits, CheckBucket(l) \/ CheckLog(l) \/ CheckCounter(l)
  PROVE  SharedInv' /\ (CountInv => CountInv')
<1>1. l \in LegalLimits /\ l.window \in KnownWindows /\ l \in LimitRecords
  BY LimitsLegal, WindowsKnown DEF SharedInv, LegalLimits
<1>2. Stored /\ HistoryInv /\ BalanceInv /\ LogInv
  BY DEF SharedInv
<1>3. CASE CheckBucket(l)
  <2>1. log' = log /\ logExp' = logExp /\ counters' = counters /\ now' = now
    BY <1>3 DEF CheckBucket
  <2>2. HistoryInv' /\ BalanceInv' /\ \A a \in Algorithms \ {"token_bucket"} : Unaccounted(a)
    BY <1>1, <1>2, <1>3, CheckBalances
  <2>3. Unaccounted("sliding_window") /\ Unaccounted("fixed_window")
    BY <2>2, Distinct
  <2> QED
    BY <1>2, <2>1, <2>2, <2>3, LogFrame, CountFrame DEF SharedInv
<1>4. CASE CheckLog(l)
  <2>1. bucket' = bucket /\ counters' = counters /\ now' = now
    BY <1>4 DEF CheckLog
  <2>2. HistoryInv' /\ LogInv' /\ \A a \in Algorithms \ {"sliding_window"} : Unaccounted(a)
    BY <1>1, <1>2, <1>4, CheckLogs
  <2>3. Unaccounted("token_bucket") /\ Unaccounted("fixed_window")
    BY <2>2, Distinct
  <2> QED
    BY <1>2, <2>1, <2>2, <2>3, BalanceFrame, CountFrame DEF SharedInv
<1>5. CASE CheckCounter(l)
  <2>1. /\ bucket' = bucket /\ log' = log /\ logExp' = logExp /\ now' = now /\ UNCHANGED <<table, now>>
        /\ l.algorithm = "fixed_window"
    BY <1>5 DEF CheckCounter
  <2>2. \E ok \in BOOLEAN : Account(l, ok)
    BY <1>5 DEF CheckCounter
  <2>3. HistoryInv' /\ \A a \in Algorithms \ {"fixed_window"} : Unaccounted(a)
    BY <1>1, <1>2, <2>1, <2>2, AccountEffect
  <2>4. Unaccounted("token_bucket") /\ Unaccounted("sliding_window")
    BY <2>3, Distinct
  <2>5. CountInv => CountInv'
    BY <1>1, <1>2, <1>5, CheckCounts
  <2> QED
    BY <1>2, <2>1, <2>3, <2>4, <2>5, BalanceFrame, LogFrame DEF SharedInv
<1> QED
  BY <1>3, <1>4, <1>5

LEMMA ResetInv ==
  ASSUME SharedInv, Stored', Reset
  PROVE  SharedInv' /\ (WindowsApart /\ CountInv => CountInv')
<1>1. PICK w \in Resets :
        LET l == [Defaults EXCEPT !.window = ResetWindow(w)]
        IN  ResetBucket(l) \/ ResetLog(l) \/ ResetCounter(l, w)
  BY DEF Reset
<1> DEFINE l == [Defaults EXCEPT !.window = ResetWindow(w)]
<1>2. l \in LimitRecords
  <2>1. ResetWindow(w) \in WholeWindow
    BY LimiterAssumption DEF ResetWindow, Or, LimitRecords
  <2> QED
    BY <2>1, LimiterAssumption DEF LimitRecords
<1>3. ResetBucket(l) \/ ResetLog(l) \/ ResetCounter(l, w)
  BY <1>1
<1>4. Stored /\ HistoryInv /\ BalanceInv /\ LogInv
  BY DEF SharedInv
<1>5. CASE ResetBucket(l)
  <2>1. log' = log /\ logExp' = logExp /\ counters' = counters /\ now' = now
    BY <1>5 DEF ResetBucket
  <2>2. HistoryInv' /\ BalanceInv' /\ \A a \in Algorithms \ {"token_bucket"} : Unaccounted(a)
    BY <1>2, <1>4, <1>5, ResetBalances
  <2>3. Unaccounted("sliding_window") /\ Unaccounted("fixed_window")
    BY <2>2, Distinct
  <2> QED
    BY <1>4, <2>1, <2>2, <2>3, LogFrame, CountFrame DEF SharedInv
<1>6. CASE ResetLog(l)
  <2>1. bucket' = bucket /\ counters' = counters /\ now' = now
    BY <1>6 DEF ResetLog
  <2>2. HistoryInv' /\ LogInv' /\ \A a \in Algorithms \ {"sliding_window"} : Unaccounted(a)
    BY <1>2, <1>4, <1>6, ResetLogs
  <2>3. Unaccounted("token_bucket") /\ Unaccounted("fixed_window")
    BY <2>2, Distinct
  <2> QED
    BY <1>4, <2>1, <2>2, <2>3, BalanceFrame, CountFrame DEF SharedInv
<1>7. CASE ResetCounter(l, w)
  <2>1. /\ bucket' = bucket /\ log' = log /\ logExp' = logExp /\ now' = now
        /\ UNCHANGED <<table, now>>
    BY <1>7 DEF ResetCounter
  <2>2. \E clean \in BOOLEAN : Restart("fixed_window", clean)
    <3> DEFINE clean == used.fixed_window # None
                          /\ used.fixed_window.window = Or(w, Defaults.window)
    <3>1. Restart("fixed_window", clean) /\ clean \in BOOLEAN
      BY <1>7 DEF ResetCounter
    <3> QED
      BY <3>1
  <2>3. HistoryInv' /\ \A a \in Algorithms \ {"fixed_window"} : Unaccounted(a)
    BY <1>4, <2>1, <2>2, Distinct, RestartEffect
  <2>4. Unaccounted("token_bucket") /\ Unaccounted("sliding_window")
    BY <2>3, Distinct
  <2>5. WindowsApart /\ CountInv => CountInv'
    BY <1>4, <1>7, WindowsKnown, ResetCounts
  <2> QED
    BY <1>4, <2>1, <2>3, <2>4, <2>5, BalanceFrame, LogFrame DEF SharedInv
<1> QED
  BY <1>3, <1>5, <1>6, <1>7

LEMMA NextInv ==
  ASSUME SharedInv, [Next]_vars, Stored'
  PROVE  SharedInv' /\ (WindowsApart /\ CountInv => CountInv')
<1>1. CASE Check
  BY <1>1, CheckInv DEF Check
<1>2. CASE Reset
  BY <1>2, ResetInv
<1>3. CASE Tick
  <2>1. SharedInv'
    BY <1>3, TickHistory, TickBalances, TickLogs DEF SharedInv
  <2>2. WindowsApart /\ CountInv => CountInv'
    BY <1>3, WindowsKnown, TickCounts DEF SharedInv
  <2> QED
    BY <2>1, <2>2
<1>4. CASE UNCHANGED vars
  <2>1. /\ now' = now /\ table' = table /\ bucket' = bucket /\ log' = log /\ logExp' = logExp
        /\ counters' = counters /\ used' = used /\ since' = since /\ passed' = passed
    BY <1>4 DEF vars
  <2>2. HistoryInv'
    BY <2>1 DEF SharedInv, HistoryInv, LegalLimits, Windows
  <2>3. \A a \in Algorithms : Unaccounted(a)
    BY <2>1 DEF Unaccounted
  <2>4. /\ Unaccounted("token_bucket") /\ Unaccounted("sliding_window")
        /\ Unaccounted("fixed_window")
    BY <2>3, Distinct
  <2> QED
    BY <2>1, <2>2, <2>4, BalanceFrame, LogFrame, CountFrame DEF SharedInv
<1> QED
  BY <1>1, <1>2, <1>3, <1>4 DEF Next

LEMMA SharedInvariant == Spec => []SharedInv
<1>1. Init => SharedInv
  BY InitInv DEF LimiterInv
<1>2. SharedInv /\ [Next]_vars /\ Stored' => SharedInv'
  BY NextInv
<1> QED
  BY <1>1, <1>2, StoredInvariant, PTL DEF Spec

LEMMA LimiterInvariant ==
  ASSUME WindowsApart
  PROVE  Spec => []LimiterInv
<1>1. LimiterInv /\ [Next]_vars /\ Stored' => LimiterInv'
  BY NextInv DEF LimiterInv
<1> QED
  BY <1>1, InitInv, StoredInvariant, PTL DEF Spec

\* rate-limiter.service.ts: callers of one key may state different limits, or
\* match different rules, and share its bucket, log and counters.  Whatever
\* the others left there, from the moment one limit is the only one in use
\* what passes keeps that limit's promise.
THEOREM EachLimitKept ==
  ASSUME WindowsApart
  PROVE  Spec => []PromiseKept
<1>1. LimiterInv => PromiseKept
  <2> SUFFICES ASSUME LimiterInv, NEW a \in Algorithms, NEW l \in InUse(a)
               PROVE  CASE a = "token_bucket"   -> Bucket(l)!Contract!WithinQuota(passed[a])
                        [] a = "sliding_window" -> Log(l)!Contract!WithinQuota(passed[a])
                        [] a = "fixed_window"   -> Counter(l)!Contract!WithinQuota(passed[a])
    BY DEF PromiseKept
  <2>1. CASE a = "token_bucket"
    BY <2>1, BucketPromise DEF LimiterInv, SharedInv
  <2>2. CASE a = "sliding_window"
    BY <2>2, LogPromise DEF LimiterInv, SharedInv
  <2>3. CASE a = "fixed_window"
    BY <2>3, CountPromise DEF LimiterInv, SharedInv
  <2> QED
    BY <2>1, <2>2, <2>3 DEF Algorithms
<1> QED
  BY <1>1, LimiterInvariant, PTL

\* What other limits left in the key's state is paid off within a window: from
\* then on, and after a reset, a caller is turned away only for a full quota of
\* requests that passed under its own limit.
THEOREM EachRejectionDeserved ==
  ASSUME WindowsApart
  PROVE  Spec => []RejectionsDeserved
<1>1. LimiterInv => RejectionsDeserved
  <2> SUFFICES ASSUME LimiterInv, NEW a \in Algorithms, NEW l \in InUse(a),
                      Exhausted(a, l), since[a] <= now - l.window
               PROVE  Cardinality({h \in passed[a] : h[1] > now - l.window}) >= l.limit
    BY DEF RejectionsDeserved
  <2>1. CASE a = "token_bucket"
    BY <2>1, BucketPromise DEF LimiterInv, SharedInv, Exhausted
  <2>2. CASE a = "sliding_window"
    BY <2>2, LogPromise DEF LimiterInv, SharedInv, Exhausted
  <2>3. CASE a = "fixed_window"
    BY <2>3, CountPromise DEF LimiterInv, SharedInv, Exhausted
  <2> QED
    BY <2>1, <2>2, <2>3 DEF Algorithms
<1> QED
  BY <1>1, LimiterInvariant, PTL
\* PromiseKept and RejectionsDeserved, of the bucket and of the log alone.
BucketKept ==
  \A l \in InUse("token_bucket") :
    /\ Bucket(l)!Contract!WithinQuota(passed["token_bucket"])
    /\ Exhausted("token_bucket", l) /\ since["token_bucket"] <= now - l.window =>
         Cardinality({h \in passed["token_bucket"] : h[1] > now - l.window}) >= l.limit

LogKept ==
  \A l \in InUse("sliding_window") :
    /\ Log(l)!Contract!WithinQuota(passed["sliding_window"])
    /\ Exhausted("sliding_window", l) /\ since["sliding_window"] <= now - l.window =>
         Cardinality({h \in passed["sliding_window"] : h[1] > now - l.window}) >= l.limit

\* token-bucket.ts, sliding-window.ts: nothing but the key names the bucket and
\* the log, so the limits that share them keep their promises, and reject with
\* reason, whatever their windows.
THEOREM SharedStateKeepsPromises == Spec => [](BucketKept /\ LogKept)
<1>1. SharedInv => BucketKept
  BY BucketPromise DEF SharedInv, Exhausted, BucketKept
<1>2. SharedInv => LogKept
  BY LogPromise DEF SharedInv, Exhausted, LogKept
<1> QED
  BY <1>1, <1>2, SharedInvariant, PTL

-----------------------------------------------------------------------------
(* Types *)

\* Every inhabited set of naturals has a least element.
LEMMA LeastOf ==
  ASSUME NEW S, S \subseteq Nat, S # {}
  PROVE  \E s \in S : \A u \in S : s <= u
<1> DEFINE R == OpToRel(<, Nat)
<1>1. \E s \in S : \A u \in S : ~(<<u, s>> \in R)
  <2>1. IsWellFoundedOn(R, Nat)
    BY NatLessThanWellFounded
  <2> HIDE DEF R
  <2> QED
    BY <2>1, WFMin
<1>2. \A s, u \in Nat : ~(<<u, s>> \in R) => s <= u
  BY DEF OpToRel
<1> QED
  BY <1>1, <1>2

\* Of finitely many numbers one is the largest: the one that fewest lie above.
LEMMA LargestOf ==
  ASSUME NEW S \in SUBSET Nat, IsFiniteSet(S), S # {}
  PROVE  \E n \in S : \A m \in S : m <= n
<1> DEFINE Above(n) == {m \in S : m > n}
           T == {Cardinality(Above(n)) : n \in S}
<1>1. \A n : Above(n) \in SUBSET S
  OBVIOUS
<1>2. \A n : IsFiniteSet(Above(n)) /\ Cardinality(Above(n)) \in Nat
  <2> HIDE DEF Above
  <2> QED
    BY <1>1, Selection
<1>3. PICK c \in T : \A d \in T : c <= d
  <2>1. T \subseteq Nat /\ T # {}
    <3> HIDE DEF Above
    <3> QED
      BY <1>2
  <2> HIDE DEF T
  <2> QED
    BY <2>1, LeastOf
<1>4. PICK n \in S : c = Cardinality(Above(n))
  BY <1>3
<1>5. ASSUME NEW m \in S, ~(m <= n) PROVE FALSE
  <2>1. Above(m) \in SUBSET Above(n) /\ m \in Above(n) /\ m \notin Above(m)
    <3>1. m \in Nat /\ n \in Nat /\ m > n /\ S \subseteq Nat
      BY <1>5
    <3>2. \A k \in Nat : k > m => k > n
      BY <3>1
    <3>3. Above(m) \in SUBSET Above(n)
      BY <3>1, <3>2
    <3> QED
      BY <3>1, <3>3
  <2>2. c <= Cardinality(Above(m))
    BY <1>3
  <2> HIDE DEF Above, T
  <2>3. Cardinality(Above(m)) <= Cardinality(Above(n)) /\ Above(m) # Above(n)
    BY <1>2, <2>1, Selection
  <2>4. Cardinality(Above(m)) = Cardinality(Above(n))
    BY <1>2, <1>4, <2>2, <2>3
  <2> QED
    BY <1>2, <2>1, <2>3, <2>4, FS_Subset
<1> QED
  BY <1>5

\* What a function makes of finitely many arguments is finite.
LEMMA FiniteImage ==
  ASSUME NEW S, IsFiniteSet(S), NEW T, NEW f \in [S -> T], \A t \in T : \E x \in S : f[x] = t
  PROVE  IsFiniteSet(T)
<1>1. f \in Surjection(S, T)
  BY DEF Surjection
<1> QED
  BY <1>1, FS_Surjection

Largest == CHOOSE n \in {l.limit : l \in EffectiveLimits} : \A l \in EffectiveLimits : l.limit <= n

\* The limits that may apply now are finitely many numbers, and so are their windows.
LEMMA LimitsBounded ==
  ASSUME Stored
  PROVE  /\ Largest \in Nat /\ Largest > 0
         /\ \A l \in EffectiveLimits : l.limit <= Largest
<1> DEFINE S == {l.limit : l \in EffectiveLimits}
           A == {o.limit : o \in Overrides}
           B == {table[i].gives.limit : i \in DOMAIN table}
<1>1. IsFiniteSet(A \cup B \cup {Defaults.limit})
  <2>1. IsFiniteSet(A)
    <3> DEFINE f == [o \in Overrides |-> o.limit]
    <3>1. f \in [Overrides -> A] /\ \A n \in A : \E o \in Overrides : f[o] = n
      OBVIOUS
    <3> HIDE DEF f, A
    <3> QED
      BY <3>1, LimiterAssumption, FiniteImage
  <2>2. IsFiniteSet(B)
    <3>1. PICK wishes \in Tables : table = Created(wishes)
      BY DEF Stored
    <3>2. IsFiniteSet(DOMAIN table)
      BY <3>1, LimiterAssumption DEF Created
    <3> DEFINE f == [i \in DOMAIN table |-> table[i].gives.limit]
    <3>3. f \in [DOMAIN table -> B] /\ \A n \in B : \E i \in DOMAIN table : f[i] = n
      OBVIOUS
    <3> HIDE DEF f, B
    <3> QED
      BY <3>2, <3>3, FiniteImage
  <2> HIDE DEF A, B
  <2> QED
    BY <2>1, <2>2, FS_Union, FS_Singleton
<1>2. S \subseteq A \cup B \cup {Defaults.limit}
  <2> SUFFICES ASSUME NEW l \in EffectiveLimits PROVE l.limit \in A \cup B \cup {Defaults.limit}
    OBVIOUS
  <2>1. PICK over \in Overrides, ctx \in Contexts : l \in ResolveLimit(over, ctx)
    BY DEF EffectiveLimits
  <2>2. over.limit \in A
    OBVIOUS
  <2>3. \A base : Merged(over, base).limit \in {over.limit, base.limit}
    BY DEF Merged, Or
  <2>4. Picks(table, ctx) \subseteq DOMAIN table
    BY DEF Picks, Matches, EnabledIn
  <2>5. \A i \in Picks(table, ctx) : table[i].gives.limit \in B
    BY <2>4
  <2> HIDE DEF A, B
  <2>6. \/ l = over
        \/ l = Merged(over, Defaults)
        \/ \E i \in Picks(table, ctx) : l = Merged(over, table[i].gives)
    BY <2>1 DEF ResolveLimit
  <2>7. CASE l = over
    BY <2>2, <2>7
  <2>8. CASE l = Merged(over, Defaults)
    <3>1. l.limit \in {over.limit, Defaults.limit}
      BY <2>3, <2>8, Zenon
    <3> QED
      BY <2>2, <3>1
  <2>9. ASSUME NEW i \in Picks(table, ctx), l = Merged(over, table[i].gives)
        PROVE  l.limit \in A \cup B
    <3>1. l.limit \in {over.limit, table[i].gives.limit}
      BY <2>3, <2>9, Zenon
    <3> QED
      BY <2>2, <2>5, <3>1
  <2> QED
    BY <2>6, <2>7, <2>8, <2>9
<1>3. S # {}
  <2>1. PICK over \in Overrides, ctx \in Contexts : TRUE
    BY LimiterAssumption
  <2>2. ResolveLimit(over, ctx) # {}
    BY DEF ResolveLimit
  <2>3. EffectiveLimits # {}
    BY <2>2 DEF EffectiveLimits
  <2> QED
    BY <2>3
<1>4. S \in SUBSET Nat /\ \A n \in S : n > 0
  BY LimitsLegal, Limits
<1>5. IsFiniteSet(S)
  <2> HIDE DEF S, A, B
  <2> QED
    BY <1>1, <1>2, FS_Subset
<1>6. \E n \in S : \A m \in S : m <= n
  <2> HIDE DEF S
  <2> QED
    BY <1>3, <1>4, <1>5, LargestOf
<1>7. Largest \in S /\ \A l \in EffectiveLimits : l.limit <= Largest
  <2>1. \E n \in S : \A l \in EffectiveLimits : l.limit <= n
    BY <1>6
  <2> QED
    BY <2>1, Zenon DEF Largest
<1> QED
  BY <1>4, <1>7

LEMMA WindowsBounded ==
  ASSUME Stored
  PROVE  LastWindow \in Nat /\ \A w \in Windows : w <= LastWindow
<1>1. Windows \subseteq 1 .. Unit
  <2>1. \A w \in WholeWindow : w \in 1 .. Unit
    <3> SUFFICES ASSUME NEW w \in Nat, w > 0, Unit % w = 0, w > Unit PROVE FALSE
      BY Times DEF WholeWindow, Positive
    <3> QED
      BY Times
  <2>2. Windows \subseteq WholeWindow
    <3>1. Defaults.window \in WholeWindow
      BY LimiterAssumption DEF LimitRecords
    <3>2. \A v \in Resets : v # None => v \in WholeWindow
      BY LimiterAssumption
    <3>3. \A i \in DOMAIN table : table[i].gives.window \in WholeWindow
      <4>1. PICK wishes \in Tables : table = Created(wishes)
        BY DEF Stored
      <4> QED
        BY <4>1, LimiterAssumption DEF Created, Row, LimitRecords
    <3>4. \A o \in Overrides : o.window # None => o.window \in WholeWindow
      BY LimiterAssumption
    <3> QED
      BY <3>1, <3>2, <3>3, <3>4 DEF Windows
  <2> QED
    BY <2>1, <2>2
<1>2. Windows # {} /\ IsFiniteSet(Windows) /\ Windows \in SUBSET Nat
  <2>1. Windows # {}
    BY DEF Windows
  <2>2. IsFiniteSet(1 .. Unit)
    BY Times, FS_Interval
  <2>3. (1 .. Unit) \subseteq Nat
    BY Times
  <2>4. Windows \in SUBSET (1 .. Unit)
    BY <1>1
  <2>5. IsFiniteSet(Windows)
    BY <2>2, <2>4, Selection
  <2> QED
    BY <2>1, <2>3, <2>4, <2>5
<1>3. \E n \in Windows : \A m \in Windows : m <= n
  BY <1>2, LargestOf
<1> QED
  BY <1>2, <1>3 DEF LastWindow

\* The shapes of the three states at n, for limits up to L and windows up to W.
BucketShape(L, W, b, n) == b \in [bal : 0 .. L * Unit, ts : 0 .. n, exp : -1 .. (n + W) + 1]

LogShape(L, W, g, e, n) ==
  /\ IsFiniteSet(g) /\ \A m \in g : m[1] \in Start .. n
  /\ Cardinality(g) <= L /\ e \in -1 .. n + W

CountersShape(L, W, C, n) == \A i \in DOMAIN C : C[i] \in [n : 1 .. L, exp : n .. n + W]

ShapeInv ==
  /\ BucketShape(Largest, LastWindow, bucket, now)
  /\ LogShape(Largest, LastWindow, log, logExp, now)
  /\ CountersShape(Largest, LastWindow, counters, now)

TypeInv == Stored /\ HistoryInv /\ ShapeInv

LEMMA SameBounds ==
  ASSUME UNCHANGED table
  PROVE  Largest' = Largest /\ LastWindow' = LastWindow
<1>1. EffectiveLimits' = EffectiveLimits
  BY DEF EffectiveLimits, ResolveLimit, Picks, Matches, EnabledIn
<1>2. Windows' = Windows
  BY DEF Windows
<1> QED
  BY <1>1, <1>2, Zenon DEF Largest, LastWindow

\* A legal check leaves each state in its shape.
LEMMA CheckBucketShape ==
  ASSUME NEW l \in LimitRecords, NEW L \in Nat, NEW W \in Nat, l.limit <= L, l.window <= W,
         now \in Nat, BucketShape(L, W, bucket, now),
         Bucket(l)!Passes(now) \/ Bucket(l)!Turns(now)
  PROVE  BucketShape(L, W, bucket', now)
<1> DEFINE lv == LevelOf(l, bucket, now)
<1>1. bucket \in BucketRecord /\ bucket.ts <= now
  BY DEF BucketShape, BucketRecord
<1>2. lv \in 0 .. CapOf(l) /\ Unit \in Nat /\ CapOf(l) \in Nat
  BY <1>1, BucketSteps, Times, Rates
<1>3. L * Unit \in Nat /\ CapOf(l) <= L * Unit
  BY Limits, Times, Linear DEF CapOf
<1>4. \/ lv >= Unit /\ bucket' = [bal |-> lv - Unit, ts |-> now, exp |-> now + (l.window + 1)]
      \/ bucket' = [bal |-> lv, ts |-> now, exp |-> now + (l.window + 1)]
  BY <1>1, BucketSteps, Zenon
<1>5. now + (l.window + 1) \in -1 .. (now + W) + 1
  BY Limits
<1> DEFINE c == L * Unit
<1> HIDE DEF lv, c
<1>6. ASSUME NEW d \in 0 .. CapOf(l),
             bucket' = [bal |-> d, ts |-> now, exp |-> now + (l.window + 1)]
      PROVE  BucketShape(L, W, bucket', now)
  <2>1. d \in 0 .. c
    BY <1>2, <1>3, <1>6 DEF c
  <2>2. now \in 0 .. now
    OBVIOUS
  <2> QED
    BY <1>5, <1>6, <2>1, <2>2 DEF BucketShape, c
<1>7. lv >= Unit => lv - Unit \in 0 .. CapOf(l)
  BY <1>2
<1> QED
  BY <1>2, <1>4, <1>6, <1>7

LEMMA CheckLogShape ==
  ASSUME NEW l \in LimitRecords, NEW L \in Nat, NEW W \in Nat, l.limit <= L, l.window <= W,
         now \in Nat, now >= Start, LogShape(L, W, log, logExp, now),
         Log(l)!Passes(1, now) \/ Log(l)!Turns(now)
  PROVE  LogShape(L, W, log', logExp', now)
<1> DEFINE B == After(log, now - l.window)
           new == Newest(log, now)
<1>1. /\ IsFiniteSet(log) /\ \A m \in log : m[1] \in Start .. now
      /\ Cardinality(log) <= L
  BY DEF LogShape
<1>2. B \in SUBSET log
  BY DEF After
<1>3. IsFiniteSet(B) /\ Cardinality(B) \in Nat /\ Cardinality(B) <= L
  <2> HIDE DEF B
  <2> QED
    BY <1>1, <1>2, Selection
<1>4. now + l.window \in -1 .. now + W
  BY Limits
<1>5. new[1] \in Start .. now
  BY Times DEF Newest
<1> HIDE DEF B, new
<1>6. CASE Log(l)!Turns(now)
  <2>1. log' = B /\ logExp' = now + l.window
    BY <1>6, LogSteps DEF B
  <2> QED
    BY <1>1, <1>2, <1>3, <1>4, <2>1 DEF LogShape
<1>7. CASE Log(l)!Passes(1, now)
  <2>1. Cardinality(B) < l.limit /\ log' = B \cup {new} /\ logExp' = now + l.window
    BY <1>7, LogSteps DEF B, new
  <2>2. IsFiniteSet(B \cup {new}) /\ Cardinality(B \cup {new}) <= L
    <3>1. CASE new \in B
      <4>1. B \cup {new} = B
        BY <3>1
      <4> QED
        BY <1>3, <4>1
    <3>2. CASE new \notin B
      <4>1. IsFiniteSet(B \cup {new}) /\ Cardinality(B \cup {new}) = Cardinality(B) + 1
        BY <1>3, <3>2, OneMore
      <4> QED
        BY <1>3, <2>1, <4>1, Limits
    <3> QED
      BY <3>1, <3>2
  <2>3. \A m \in B \cup {new} : m[1] \in Start .. now
    BY <1>1, <1>2, <1>5
  <2> QED
    BY <1>4, <2>1, <2>2, <2>3 DEF LogShape
<1> QED
  BY <1>6, <1>7

LEMMA CheckCountersShape ==
  ASSUME NEW l \in LimitRecords, NEW L \in Nat, NEW W \in Nat, l.limit <= L, l.window <= W,
         now \in Nat, CountersShape(L, W, counters, now),
         Counter(l)!Passes(now) \/ Counter(l)!Turns(now)
  PROVE  CountersShape(L, W, counters', now)
<1> DEFINE i == now \div l.window
           c == CountOf(counters, i)
           e == (i + 1) * l.window
<1>1. \A j \in DOMAIN counters : counters[j] \in CounterRecord
  BY DEF CountersShape, CounterRecord
<1>2. c \in Nat /\ c <= L
  <2>1. \A j \in DOMAIN counters : counters[j].n \in Nat /\ counters[j].n <= L
    BY DEF CountersShape
  <2> QED
    BY <2>1 DEF CountOf
<1>3. e \in now .. now + W
  <2> DEFINE P == i * l.window
  <2>1. P \in Nat /\ e = P + l.window /\ P <= now /\ now < P + l.window
    BY Limits, Place
  <2> HIDE DEF P, e
  <2> QED
    BY <2>1, Limits
<1>4. \/ Counter(l)!Passes(now) /\ c < l.limit /\ Written(counters, counters', i, c + 1, e)
      \/ Counter(l)!Turns(now) /\ Written(counters, counters', i, c, e)
  BY <1>1, WriteSteps
<1>5. Counter(l)!Turns(now) => c >= 1
  <2>1. Counter(l)!Turns(now) => ~Counter(l)!Room(now)
    BY DEF Counter!Turns
  <2>2. Counter(l)!Room(now) <=> c < l.limit
    BY <1>1, WriteSteps
  <2> QED
    BY <1>2, <2>1, <2>2, Limits
<1> HIDE DEF i, c, e
<1>6. ASSUME NEW d \in 1 .. L, Written(counters, counters', i, d, e)
      PROVE  CountersShape(L, W, counters', now)
  <2>1. counters'[i] \in [n : 1 .. L, exp : now .. now + W]
    BY <1>3, <1>6 DEF Written, CounterRecord
  <2>2. \A j \in DOMAIN counters' : j = i \/ (j \in DOMAIN counters /\ counters'[j] = counters[j])
    BY <1>6 DEF Written
  <2> QED
    BY <2>1, <2>2 DEF CountersShape
<1> QED
  BY <1>2, <1>4, <1>5, <1>6, Limits

LEMMA InitTypes == Init => TypeInv
<1> SUFFICES ASSUME Init PROVE TypeInv
  OBVIOUS
<1>1. Stored /\ HistoryInv
  BY InitInv DEF LimiterInv, SharedInv
<1>2. now \in Nat /\ now >= Start /\ Largest \in Nat /\ LastWindow \in Nat
  BY <1>1, NowFacts, LimitsBounded, WindowsBounded
<1>3. /\ bucket = [bal |-> 0, ts |-> 0, exp |-> -1]
      /\ log = {} /\ logExp = -1 /\ DOMAIN counters = {}
  BY DEF Init
<1>4. BucketShape(Largest, LastWindow, bucket, now)
  <2>1. Largest * Unit \in Nat
    BY <1>2, Times
  <2> DEFINE c == Largest * Unit
  <2>2. 0 \in 0 .. c /\ 0 \in 0 .. now /\ -1 \in -1 .. (now + LastWindow) + 1
    BY <1>2, <2>1
  <2> QED
    BY <1>3, <2>2 DEF BucketShape
<1>5. LogShape(Largest, LastWindow, log, logExp, now)
  <2>1. -1 \in -1 .. now + LastWindow
    BY <1>2
  <2> QED
    BY <1>2, <1>3, <2>1, FS_EmptySet DEF LogShape
<1>6. CountersShape(Largest, LastWindow, counters, now)
  BY <1>3 DEF CountersShape
<1> QED
  BY <1>1, <1>4, <1>5, <1>6 DEF TypeInv, ShapeInv

LEMMA CheckTypes ==
  ASSUME TypeInv, Stored', NEW l \in EffectiveLimits,
         CheckBucket(l) \/ CheckLog(l) \/ CheckCounter(l)
  PROVE  TypeInv'
<1>1. /\ l \in LimitRecords /\ l \in LegalLimits
      /\ l.limit <= Largest /\ l.window <= LastWindow
      /\ Largest \in Nat /\ LastWindow \in Nat
  BY LimitsLegal, LimitsBounded, WindowsBounded DEF TypeInv, LegalLimits
<1>2. now \in Nat /\ now >= Start /\ HistoryInv
  BY NowFacts DEF TypeInv
<1>3. UNCHANGED <<table, now>>
  BY DEF CheckBucket, CheckLog, CheckCounter
<1>4. Largest' = Largest /\ LastWindow' = LastWindow
  BY <1>3, SameBounds
<1>5. HistoryInv'
  <2>1. \E ok \in BOOLEAN : Account(l, ok)
    BY DEF CheckBucket, CheckLog, CheckCounter
  <2> QED
    BY <1>1, <1>2, <1>3, <2>1, AccountEffect
<1>6. /\ BucketShape(Largest, LastWindow, bucket, now)
      /\ LogShape(Largest, LastWindow, log, logExp, now)
      /\ CountersShape(Largest, LastWindow, counters, now)
  BY DEF TypeInv, ShapeInv
<1>7. BucketShape(Largest, LastWindow, bucket', now)
  <2>1. CASE CheckBucket(l)
    <3>1. Bucket(l)!Passes(now) \/ Bucket(l)!Turns(now)
      BY <2>1 DEF CheckBucket
    <3> QED
      BY <1>1, <1>2, <1>6, <3>1, CheckBucketShape
  <2>2. CASE bucket' = bucket
    BY <1>6, <2>2
  <2> QED
    BY <2>1, <2>2 DEF CheckLog, CheckCounter
<1>8. LogShape(Largest, LastWindow, log', logExp', now)
  <2>1. CASE CheckLog(l)
    <3>1. Log(l)!Passes(1, now) \/ Log(l)!Turns(now)
      BY <2>1 DEF CheckLog
    <3> QED
      BY <1>1, <1>2, <1>6, <3>1, CheckLogShape
  <2>2. CASE log' = log /\ logExp' = logExp
    BY <1>6, <2>2
  <2> QED
    BY <2>1, <2>2 DEF CheckBucket, CheckCounter
<1>9. CountersShape(Largest, LastWindow, counters', now)
  <2>1. CASE CheckCounter(l)
    <3>1. Counter(l)!Passes(now) \/ Counter(l)!Turns(now)
      BY <2>1 DEF CheckCounter
    <3> QED
      BY <1>1, <1>2, <1>6, <3>1, CheckCountersShape
  <2>2. CASE counters' = counters
    BY <1>6, <2>2
  <2> QED
    BY <2>1, <2>2 DEF CheckBucket, CheckLog
<1> QED
  BY <1>3, <1>4, <1>5, <1>7, <1>8, <1>9, Zenon DEF TypeInv, ShapeInv

LEMMA ResetTypes ==
  ASSUME TypeInv, Stored', Reset
  PROVE  TypeInv'
<1>1. PICK w \in Resets :
        LET l == [Defaults EXCEPT !.window = ResetWindow(w)]
        IN  ResetBucket(l) \/ ResetLog(l) \/ ResetCounter(l, w)
  BY DEF Reset
<1> DEFINE l == [Defaults EXCEPT !.window = ResetWindow(w)]
<1>2. ResetBucket(l) \/ ResetLog(l) \/ ResetCounter(l, w)
  BY <1>1
<1> HIDE DEF l
<1>3. now \in Nat /\ now >= Start /\ HistoryInv /\ Largest \in Nat /\ LastWindow \in Nat
  BY NowFacts, LimitsBounded, WindowsBounded DEF TypeInv
<1>4. UNCHANGED <<table, now>>
  BY <1>2 DEF ResetBucket, ResetLog, ResetCounter
<1>5. Largest' = Largest /\ LastWindow' = LastWindow
  BY <1>4, SameBounds
<1>6. HistoryInv'
  <2>1. \E a \in Algorithms, clean \in BOOLEAN : Restart(a, clean)
    <3>1. CASE ResetBucket(l)
      BY <3>1 DEF ResetBucket, Algorithms
    <3>2. CASE ResetLog(l)
      BY <3>2 DEF ResetLog, Algorithms
    <3>3. CASE ResetCounter(l, w)
      <4> DEFINE clean == used.fixed_window # None
                            /\ used.fixed_window.window = Or(w, Defaults.window)
      <4>1. Restart("fixed_window", clean) /\ clean \in BOOLEAN
        BY <3>3 DEF ResetCounter
      <4> QED
        BY <4>1 DEF Algorithms
    <3> QED
      BY <1>2, <3>1, <3>2, <3>3
  <2> QED
    BY <1>3, <1>4, <2>1, RestartEffect
<1>7. /\ BucketShape(Largest, LastWindow, bucket, now)
      /\ LogShape(Largest, LastWindow, log, logExp, now)
      /\ CountersShape(Largest, LastWindow, counters, now)
  BY DEF TypeInv, ShapeInv
<1>8. BucketShape(Largest, LastWindow, bucket', now)
  <2>1. CASE ResetBucket(l)
    <3>1. bucket' = [bal |-> 0, ts |-> 0, exp |-> -1]
      BY <2>1 DEF ResetBucket, Bucket!NoBucket
    <3> DEFINE c == Largest * Unit
    <3>2. c \in Nat
      BY <1>3, Times
    <3> HIDE DEF c
    <3>3. 0 \in 0 .. c /\ 0 \in 0 .. now /\ -1 \in -1 .. (now + LastWindow) + 1
      BY <1>3, <3>2
    <3> QED
      BY <3>1, <3>3 DEF BucketShape, c
  <2>2. CASE bucket' = bucket
    BY <1>7, <2>2
  <2> QED
    BY <1>2, <2>1, <2>2 DEF ResetLog, ResetCounter
<1>9. LogShape(Largest, LastWindow, log', logExp', now)
  <2>1. CASE ResetLog(l)
    <3>1. log' = {} /\ logExp' = -1
      BY <2>1 DEF ResetLog, Log!Delete
    <3>2. -1 \in -1 .. now + LastWindow
      BY <1>3
    <3> QED
      BY <1>3, <3>1, <3>2, FS_EmptySet DEF LogShape
  <2>2. CASE log' = log /\ logExp' = logExp
    BY <1>7, <2>2
  <2> QED
    BY <1>2, <2>1, <2>2 DEF ResetBucket, ResetCounter
<1>10. CountersShape(Largest, LastWindow, counters', now)
  <2>1. CASE ResetCounter(l, w)
    <3>1. \E gone : Dropped(counters, counters', gone)
      BY <2>1 DEF ResetCounter, Counter!Delete, Counter!Without, Dropped
    <3> QED
      BY <1>7, <3>1 DEF CountersShape, Dropped
  <2>2. CASE counters' = counters
    BY <1>7, <2>2
  <2> QED
    BY <1>2, <2>1, <2>2 DEF ResetBucket, ResetLog
<1> QED
  BY <1>4, <1>5, <1>6, <1>8, <1>9, <1>10, Zenon DEF TypeInv, ShapeInv

LEMMA TickTypes ==
  ASSUME TypeInv, Stored', Tick
  PROVE  TypeInv'
<1>1. HistoryInv' /\ UNCHANGED <<table, used>> /\ now' = now + 1
  BY TickHistory DEF TypeInv
<1>2. now \in Nat /\ now >= Start /\ Largest \in Nat /\ LastWindow \in Nat
  BY NowFacts, LimitsBounded, WindowsBounded DEF TypeInv
<1>3. Largest' = Largest /\ LastWindow' = LastWindow
  BY <1>1, SameBounds
<1>4. /\ BucketShape(Largest, LastWindow, bucket, now)
      /\ LogShape(Largest, LastWindow, log, logExp, now)
      /\ CountersShape(Largest, LastWindow, counters, now)
  BY DEF TypeInv, ShapeInv
<1> DEFINE c == Largest * Unit
<1>5. c \in Nat
  BY <1>2, Times
<1> HIDE DEF c
<1>6. BucketShape(Largest, LastWindow, bucket', now + 1)
  <2>1. bucket' = [bal |-> 0, ts |-> 0, exp |-> -1] \/ bucket' = bucket
    <3>1. Bucket(Defaults)!Expire
      BY DEF Tick
    <3> QED
      BY <3>1 DEF Bucket!Expire, Bucket!NoBucket
  <2>2. /\ 0 \in 0 .. c /\ (0 .. now) \subseteq 0 .. now + 1 /\ 0 \in 0 .. now + 1
        /\ (-1 .. (now + LastWindow) + 1) \subseteq -1 .. ((now + 1) + LastWindow) + 1
        /\ -1 \in -1 .. ((now + 1) + LastWindow) + 1
    BY <1>2, <1>5
  <2>3. bucket \in [bal : 0 .. c, ts : 0 .. now, exp : -1 .. (now + LastWindow) + 1]
    BY <1>4 DEF BucketShape, c
  <2>4. bucket' \in [bal : 0 .. c, ts : 0 .. now + 1, exp : -1 .. ((now + 1) + LastWindow) + 1]
    BY <2>1, <2>2, <2>3
  <2> QED
    BY <2>4 DEF BucketShape, c
<1>7. LogShape(Largest, LastWindow, log', logExp', now + 1)
  <2>1. (log' = {} /\ logExp' = -1) \/ (log' = log /\ logExp' = logExp)
    <3>1. Log(Defaults)!Expire
      BY DEF Tick
    <3> QED
      BY <3>1 DEF Log!Expire, Log!Delete
  <2>2. /\ (Start .. now) \subseteq Start .. now + 1
        /\ (-1 .. now + LastWindow) \subseteq -1 .. (now + 1) + LastWindow
        /\ -1 \in -1 .. (now + 1) + LastWindow
    BY <1>2, Times
  <2>3. CASE log' = {} /\ logExp' = -1
    BY <1>2, <2>2, <2>3, FS_EmptySet DEF LogShape
  <2>4. CASE log' = log /\ logExp' = logExp
    BY <1>4, <2>2, <2>4 DEF LogShape
  <2> QED
    BY <2>1, <2>3, <2>4
<1>8. CountersShape(Largest, LastWindow, counters', now + 1)
  <2>1. \A j \in DOMAIN counters' :
          j \in DOMAIN counters /\ counters'[j] = counters[j] /\ ~(counters[j].exp < now + 1)
    <3>1. Counter(Defaults)!Expire
      BY DEF Tick
    <3> QED
      BY <1>1, <3>1 DEF Counter!Expire, Counter!Without
  <2>2. ASSUME NEW j \in DOMAIN counters'
        PROVE  counters'[j] \in [n : 1 .. Largest, exp : now + 1 .. (now + 1) + LastWindow]
    <3>1. counters[j] \in [n : 1 .. Largest, exp : now .. now + LastWindow]
      BY <1>4, <2>1, <2>2 DEF CountersShape
    <3>2. ~(counters[j].exp < now + 1)
      BY <2>1, <2>2
    <3>3. counters[j].exp \in now + 1 .. (now + 1) + LastWindow
      BY <1>2, <3>1, <3>2
    <3>4. counters[j] \in [n : 1 .. Largest, exp : now + 1 .. (now + 1) + LastWindow]
      BY <3>1, <3>3
    <3> QED
      BY <2>1, <2>2, <3>4
  <2> QED
    BY <2>2 DEF CountersShape
<1> QED
  BY <1>1, <1>3, <1>6, <1>7, <1>8, Zenon DEF TypeInv, ShapeInv

\* lua-scripts.ts: whichever limits the checks of one key carry, and whatever
\* their windows, balance, log and counters stay within the largest limit, and
\* no key outlives the longest window by more than a tick.
THEOREM LimiterTypeCorrect == Spec => []TypeOK
<1>1. TypeInv /\ [Next]_vars /\ Stored' => TypeInv'
  <2> SUFFICES ASSUME TypeInv, [Next]_vars, Stored' PROVE TypeInv'
    OBVIOUS
  <2>1. CASE Check
    BY <2>1, CheckTypes DEF Check
  <2>2. CASE Reset
    BY <2>2, ResetTypes
  <2>3. CASE Tick
    BY <2>3, TickTypes
  <2>4. CASE UNCHANGED vars
    <3>1. /\ now' = now /\ UNCHANGED table /\ bucket' = bucket /\ log' = log /\ logExp' = logExp
          /\ counters' = counters /\ used' = used /\ since' = since /\ passed' = passed
      BY <2>4 DEF vars
    <3>2. Largest' = Largest /\ LastWindow' = LastWindow
      BY <3>1, SameBounds
    <3>3. HistoryInv'
      BY <3>1 DEF TypeInv, HistoryInv, LegalLimits, Windows
    <3> QED
      BY <3>1, <3>2, <3>3, Zenon DEF TypeInv, ShapeInv
  <2> QED
    BY <2>1, <2>2, <2>3, <2>4 DEF Next
<1>2. TypeInv => TypeOK
  <2> SUFFICES ASSUME TypeInv PROVE TypeOK
    OBVIOUS
  <2>1. now \in Start .. MaxClock
    BY DEF TypeInv, HistoryInv
  <2>2. \A a \in Algorithms : since[a] \in 0 .. now /\ passed[a] \subseteq (Start .. now) \X Nat
    BY DEF TypeInv, HistoryInv, History
  <2>3. /\ bucket \in [bal : 0 .. Largest * Unit, ts : 0 .. now, exp : -1 .. (now + LastWindow) + 1]
        /\ \A m \in log : m[1] \in Start .. now
        /\ Cardinality(log) <= Largest /\ logExp \in -1 .. now + LastWindow
        /\ \A i \in DOMAIN counters :
             counters[i] \in [n : 1 .. Largest, exp : now .. now + LastWindow]
    BY DEF TypeInv, ShapeInv, BucketShape, LogShape, CountersShape
  <2> QED
    BY <2>1, <2>2, <2>3, Zenon DEF TypeOK, Largest
<1> QED
  BY <1>1, <1>2, InitTypes, StoredInvariant, PTL DEF Spec
=============================================================================
