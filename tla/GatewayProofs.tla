--------------------------- MODULE GatewayProofs ---------------------------
(***************************************************************************)
(* Proofs about Gateway: what a limits row promises holds whoever races    *)
(* for it, and an answered request is metered, for every set of users,     *)
(* requests and tables, every rate and every clock; and about GatewaySync: *)
(* a sync that ran alone leaves the plane with what it rendered, and two   *)
(* that overlap leave no marker that vouches for another file.             *)
(***************************************************************************)
EXTENDS Gateway, GatewaySync, FiniteSetTheorems, WellFoundedInduction, TLAPS

-----------------------------------------------------------------------------
(* Least and greatest.                                                     *)

LEMMA LeastNatural ==
  ASSUME NEW S, S \subseteq Nat, S # {}
  PROVE  \E x \in S : \A y \in S : x <= y
<1>1. PICK x \in S : \A y \in S : ~(<<y, x>> \in OpToRel(<, Nat))
  BY NatLessThanWellFounded, WFMin
<1>2. \A y \in S : ~(y < x)
  BY <1>1 DEF OpToRel
<1> QED BY <1>2

(* A nonempty set of naturals with a bound has a greatest member.          *)
LEMMA MaxOfBounded ==
  ASSUME NEW n \in Nat, NEW S \in SUBSET (0..n), S # {}
  PROVE  Max(S) \in S /\ \A y \in S : y <= Max(S)
<1> DEFINE B == {b \in Nat : \A y \in S : y <= b}
<1>1. n \in B
  OBVIOUS
<1>2. PICK m \in B : \A b \in B : m <= b
  <2> HIDE DEF B
  <2>1. B \subseteq Nat
    BY DEF B
  <2> QED BY <1>1, <2>1, LeastNatural
<1>3. m \in S
  <2>1. SUFFICES ASSUME m \notin S PROVE FALSE
    OBVIOUS
  <2>2. PICK y \in S : TRUE
    OBVIOUS
  <2>3. \A z \in S : z <= m /\ z # m /\ z \in Nat
    BY <1>2, <2>1
  <2>4. m > 0 /\ m - 1 \in Nat
    BY <1>2, <2>2, <2>3
  <2>5. m - 1 \in B
    BY <1>2, <2>3, <2>4
  <2> QED BY <1>2, <2>4, <2>5
<1>4. \E x \in S : \A y \in S : x >= y
  BY <1>2, <1>3
<1>5. Max(S) \in S /\ \A y \in S : Max(S) >= y
  BY <1>4 DEF Max
<1> QED BY <1>5

LEMMA MinOfTwo ==
  ASSUME NEW a \in Int, NEW b \in Int
  PROVE  Min({a, b}) \in {a, b} /\ Min({a, b}) <= a /\ Min({a, b}) <= b
<1>1. \E x \in {a, b} : \A y \in {a, b} : x =< y
  OBVIOUS
<1>2. Min({a, b}) \in {a, b} /\ \A y \in {a, b} : Min({a, b}) =< y
  BY <1>1 DEF Min
<1> QED BY <1>2

-----------------------------------------------------------------------------
(* Limits.                                                                 *)

Fields == {"rpm", "tpm", "daily", "concurrent"}

(* A ceiling that binds is one a row of the table sets.                    *)
LEMMA TightestIsRow ==
  ASSUME table \in Tables, NEW u \in Users, NEW f \in Fields
  PROVE  /\ Tightest(u, f) \in Limit
         /\ Tightest(u, f).value > 0 =>
              \E r \in table : r.subject = Tightest(u, f).subject /\ r[f] = Tightest(u, f).value
<1> DEFINE set == {r \in RowsFor(u) : r[f] > 0}
           r == CHOOSE x \in set : \A y \in set : x[f] <= y[f]
<1>0. \A x \in table : x.subject \in Subjects /\ x[f] \in 0..MaxCeiling
  BY GatewayAssumption DEF Fields
<1>1. CASE set = {}
  <2>1. Tightest(u, f) = NoLimit
    BY <1>1 DEF Tightest
  <2> QED BY <2>1 DEF NoLimit, Limit, Subjects
<1>2. CASE set # {}
  <2>1. Tightest(u, f) = [value |-> r[f], subject |-> r.subject]
    BY <1>2 DEF Tightest
  <2> DEFINE N == {x[f] : x \in set}
  <2>2. N \subseteq Nat /\ N # {}
    BY <1>0, <1>2, GatewayAssumption DEF RowsFor
  <2>3. \E n \in N : \A m \in N : n <= m
    <3> HIDE DEF N
    <3> QED BY <2>2, LeastNatural
  <2>4. \E x \in set : \A y \in set : x[f] <= y[f]
    BY <2>3
  <2>5. r \in set
    BY <2>4
  <2>6. r \in table
    BY <2>5 DEF RowsFor
  <2>7. r.subject \in Subjects /\ r[f] \in Nat
    BY <1>0, <2>6, GatewayAssumption
  <2> HIDE DEF r, set
  <2>8. Tightest(u, f).value = r[f] /\ Tightest(u, f).subject = r.subject
    BY <2>1
  <2>9. Tightest(u, f) \in Limit
    BY <2>1, <2>7 DEF Limit
  <2> QED BY <2>6, <2>8, <2>9
<1> QED BY <1>1, <1>2

(* The highest rate bounds every rate of the subject's.                    *)
LEMMA TopRateBounds ==
  ASSUME NEW t \in Tables, NEW r \in t
  PROVE  TopRate(r.subject) \in Nat /\ r.rpm <= TopRate(r.subject)
<1> DEFINE S == {q.rpm : q \in {p \in UNION Tables : p.subject = r.subject}}
<1>1. r.rpm \in S
  OBVIOUS
<1>2. S \in SUBSET (0..MaxCeiling) /\ MaxCeiling \in Nat
  BY GatewayAssumption
<1>3. TopRate(r.subject) = Max(S)
  BY DEF TopRate
<1> HIDE DEF S
<1>4. Max(S) \in S /\ \A y \in S : y <= Max(S)
  BY <1>1, <1>2, MaxOfBounded
<1>5. Max(S) \in 0..MaxCeiling
  BY <1>2, <1>4
<1>6. r.rpm <= Max(S)
  BY <1>1, <1>4, Zenon
<1>7. Max(S) \in Nat
  BY <1>2, <1>5
<1> QED BY <1>3, <1>6, <1>7, Zenon

-----------------------------------------------------------------------------
(* Types, as far as the limits need them.                                  *)

LimitTyped(l) ==
  /\ l.rpm \in Limit /\ l.concurrent \in Limit
  /\ l.rpm.value > 0 => TopRate(l.rpm.subject) \in Nat /\ l.rpm.value <= TopRate(l.rpm.subject)
  /\ l.concurrent.value <= MaxCeiling

Typed ==
  /\ pc \in [Requests -> Phases] /\ user \in [Requests -> Users]
  /\ DOMAIN lim = Requests /\ \A i \in Requests : LimitTyped(lim[i])
  /\ table \in Tables /\ clock \in Nat
  /\ inflight \in [Subjects -> Int] /\ rpm \in [Subjects -> [tokens : Int, last : Int]]

LEMMA LimitsTyped ==
  ASSUME table \in Tables, NEW u \in Users
  PROVE  LimitTyped(LimitsFor(u))
<1> DEFINE l == LimitsFor(u)
<1>1. l.rpm = Tightest(u, "rpm") /\ l.concurrent = Tightest(u, "concurrent")
  BY DEF LimitsFor
<1> HIDE DEF l
<1>2. "rpm" \in Fields /\ "concurrent" \in Fields
  BY DEF Fields
<1>3. /\ l.rpm \in Limit /\ l.concurrent \in Limit
      /\ l.rpm.value > 0 => \E r \in table : r.subject = l.rpm.subject /\ r.rpm = l.rpm.value
      /\ l.concurrent.value > 0 => \E r \in table : r.concurrent = l.concurrent.value
  BY <1>1, <1>2, TightestIsRow
<1>4. l.rpm.value > 0 => TopRate(l.rpm.subject) \in Nat /\ l.rpm.value <= TopRate(l.rpm.subject)
  BY <1>3, TopRateBounds
<1>5. l.concurrent.value <= MaxCeiling
  BY <1>3, GatewayAssumption DEF Limit
<1> QED BY <1>3, <1>4, <1>5 DEF LimitTyped, l

-----------------------------------------------------------------------------
(* The slots.                                                              *)

Past == {i \in Requests : pc[i] # "new"}
Taken(s) == Holding(s) \cup Leaked(s)

(* The counter is exact, and every group of requests that share a slot     *)
(* pool has a member whose ceiling covers the group: that a request which  *)
(* leaves may take the highest ceiling with it is why the invariant speaks *)
(* of every group and not of all that hold.                                *)
Covered(S) == S # {} => \E j \in S : Cardinality(S) <= lim[j].concurrent.value
SlotInv ==
  /\ IsFiniteSet(Past)
  /\ SlotsExact
  /\ \A s \in Subjects : \A S \in SUBSET Holding(s) : Covered(S)

LEMMA TakenIsPast ==
  ASSUME SlotInv, NEW s \in Subjects
  PROVE  /\ IsFiniteSet(Taken(s)) /\ IsFiniteSet(Holding(s))
         /\ Cardinality(Taken(s)) \in Nat /\ Cardinality(Holding(s)) \in Nat
         /\ Cardinality(Holding(s)) <= Cardinality(Taken(s))
<1>1. Taken(s) \in SUBSET Past /\ Holding(s) \in SUBSET Taken(s)
  BY DEF Taken, Holding, Leaked, Past, InProxy
<1>2. IsFiniteSet(Taken(s))
  BY <1>1, FS_Subset DEF SlotInv
<1>3. IsFiniteSet(Holding(s)) /\ Cardinality(Holding(s)) <= Cardinality(Taken(s))
  BY <1>1, <1>2, FS_Subset
<1> QED BY <1>2, <1>3, FS_CardinalityType

(* One more request has arrived, or none.                                  *)
LEMMA PastGrows ==
  ASSUME IsFiniteSet(Past), NEW i \in Requests, Past' \subseteq Past \cup {i}
  PROVE  IsFiniteSet(Past)'
<1>1. IsFiniteSet(Past \cup {i})
  BY FS_AddElement
<1>2. Past' \in SUBSET (Past \cup {i})
  OBVIOUS
<1> QED BY <1>1, <1>2, FS_Subset

LEMMA SlotsKept ==
  ASSUME SlotInv, NEW i \in Requests, inflight' = inflight, Past' \subseteq Past \cup {i},
         \A s \in Subjects : Taken(s)' = Taken(s) /\ Holding(s)' \subseteq Holding(s),
         \A j \in Past : lim'[j] = lim[j]
  PROVE  SlotInv'
<1>1. IsFiniteSet(Past)'
  BY PastGrows DEF SlotInv
<1>2. SlotsExact'
  BY DEF SlotInv, SlotsExact, Taken
<1>3. ASSUME NEW s \in Subjects, NEW S \in SUBSET Holding(s)', S # {}
      PROVE  \E j \in S : Cardinality(S) <= lim'[j].concurrent.value
  <2>1. S \in SUBSET Holding(s)
    BY <1>3
  <2>2. PICK j \in S : Cardinality(S) <= lim[j].concurrent.value
    BY <1>3, <2>1 DEF SlotInv, Covered
  <2>3. j \in Past
    BY <2>1 DEF Holding, Past, InProxy
  <2> QED BY <2>2, <2>3
<1> QED BY <1>1, <1>2, <1>3 DEF SlotInv, Covered

LEMMA AdmitSlots ==
  ASSUME Typed, SlotInv, NEW i \in Requests, Admit(i)
  PROVE  SlotInv' /\ inflight' \in [Subjects -> Int]
<1> DEFINE v == lim[i].concurrent.value
<1>0. /\ pc[i] = "admit" /\ UNCHANGED lim /\ pc' = [pc EXCEPT ![i] = "ready"]
      /\ ~OverConcurrent(lim[i])
      /\ inflight' = IF v > 0 THEN [inflight EXCEPT ![lim[i].concurrent.subject] = @ + 1]
                     ELSE inflight
  BY DEF Admit
<1>1. pc'[i] = "ready" /\ \A j \in Requests \ {i} : pc'[j] = pc[j]
  BY <1>0 DEF Typed
<1>2. Past' \subseteq Past \cup {i}
  BY <1>1 DEF Past
<1>3. PICK t \in Subjects : t = lim[i].concurrent.subject /\ v \in Nat
  BY DEF Typed, LimitTyped, Limit
<1>4. \A s \in Subjects :
        /\ i \notin Taken(s) /\ i \notin Holding(s)
        /\ Holding(s)' = IF v > 0 /\ s = t THEN Holding(s) \cup {i} ELSE Holding(s)
        /\ Leaked(s)' = Leaked(s)
  BY <1>0, <1>1, <1>3 DEF Taken, Holding, Leaked, InProxy, HasSlot
<1>5. CASE v = 0
  <2>1. inflight' = inflight /\ \A s \in Subjects : Taken(s)' = Taken(s) /\ Holding(s)' \subseteq Holding(s)
    BY <1>0, <1>4, <1>5 DEF Taken
  <2> QED BY <1>0, <1>2, <2>1, SlotsKept DEF Typed
<1>6. CASE v > 0
  <2>1. /\ inflight'[t] = inflight[t] + 1 /\ \A s \in Subjects \ {t} : inflight'[s] = inflight[s]
        /\ inflight' \in [Subjects -> Int]
    BY <1>0, <1>3, <1>6 DEF Typed
  <2>2. inflight[t] < v /\ inflight[t] = Cardinality(Taken(t))
    BY <1>0, <1>3, <1>6 DEF OverConcurrent, SlotInv, SlotsExact, Taken, Typed
  <2>3. IsFiniteSet(Taken(t)) /\ Cardinality(Taken(t)) \in Nat /\ IsFiniteSet(Holding(t))
        /\ Cardinality(Holding(t)) \in Nat /\ Cardinality(Holding(t)) <= Cardinality(Taken(t))
    BY TakenIsPast
  <2>4. Cardinality(Taken(t) \cup {i}) = Cardinality(Taken(t)) + 1
    BY <1>4, <2>3, FS_AddElement
  <2>5. Taken(t)' = Taken(t) \cup {i} /\ \A s \in Subjects \ {t} : Taken(s)' = Taken(s)
    BY <1>4, <1>6 DEF Taken
  <2>6. SlotsExact'
    <3>1. \A s \in Subjects : inflight'[s] = Cardinality(Taken(s)')
      BY <2>1, <2>2, <2>4, <2>5 DEF SlotInv, SlotsExact, Taken
    <3> QED BY <3>1 DEF SlotsExact, Taken
  <2>7. ASSUME NEW s \in Subjects, NEW S \in SUBSET Holding(s)', S # {}
        PROVE  \E j \in S : Cardinality(S) <= lim[j].concurrent.value
    <3>1. CASE i \notin S
      <4>1. S \in SUBSET Holding(s)
        BY <1>4, <2>7, <3>1
      <4> QED BY <2>7, <4>1 DEF SlotInv, Covered
    <3>2. CASE i \in S
      <4>1. S \in SUBSET (Holding(t) \cup {i})
        BY <1>4, <2>7, <3>2
      <4>2. IsFiniteSet(Holding(t) \cup {i}) /\ Cardinality(Holding(t) \cup {i}) = Cardinality(Holding(t)) + 1
        BY <1>4, <2>3, FS_AddElement
      <4>3. IsFiniteSet(S) /\ Cardinality(S) <= Cardinality(Holding(t) \cup {i})
        BY <4>1, <4>2, FS_Subset
      <4>4. Cardinality(S) \in Nat
        BY <4>3, FS_CardinalityType
      <4>5. Cardinality(S) <= v
        BY <1>3, <2>2, <2>3, <4>2, <4>3, <4>4
      <4> QED BY <3>2, <4>5
    <3> QED BY <3>1, <3>2
  <2>8. IsFiniteSet(Past)'
    BY <1>2, PastGrows DEF SlotInv
  <2> QED BY <1>0, <2>1, <2>6, <2>7, <2>8 DEF SlotInv, Covered
<1> QED BY <1>3, <1>5, <1>6

LEMMA ReleaseSlots ==
  ASSUME Typed, SlotInv, NEW i \in Requests, Release(i)
  PROVE  SlotInv' /\ inflight' \in [Subjects -> Int]
<1> DEFINE v == lim[i].concurrent.value
<1>0. /\ pc[i] = "release" /\ UNCHANGED lim /\ pc' = [pc EXCEPT ![i] = "done"]
      /\ inflight' = IF v > 0 THEN [inflight EXCEPT ![lim[i].concurrent.subject] = @ - 1]
                     ELSE inflight
  BY DEF Release
<1>1. pc'[i] = "done" /\ \A j \in Requests \ {i} : pc'[j] = pc[j]
  BY <1>0 DEF Typed
<1>2. Past' \subseteq Past \cup {i}
  BY <1>1 DEF Past
<1>3. PICK t \in Subjects : t = lim[i].concurrent.subject /\ v \in Nat
  BY DEF Typed, LimitTyped, Limit
<1>4. \A s \in Subjects :
        /\ i \in Taken(s) <=> v > 0 /\ s = t
        /\ Holding(s)' = Holding(s) \ {i}
        /\ Taken(s)' = Taken(s) \ {i}
  BY <1>0, <1>1, <1>3 DEF Taken, Holding, Leaked, InProxy, HasSlot
<1>5. CASE v = 0
  <2>1. inflight' = inflight /\ \A s \in Subjects : Taken(s)' = Taken(s) /\ Holding(s)' \subseteq Holding(s)
    <3>1. inflight' = inflight /\ \A s \in Subjects : i \notin Taken(s)
      BY <1>0, <1>4, <1>5
    <3>2. \A s \in Subjects : Taken(s)' = Taken(s) \ {i} /\ Holding(s)' = Holding(s) \ {i}
      BY <1>4
    <3> QED BY <3>1, <3>2
  <2> QED BY <1>0, <1>2, <2>1, SlotsKept DEF Typed
<1>6. CASE v > 0
  <2>1. /\ inflight'[t] = inflight[t] - 1 /\ \A s \in Subjects \ {t} : inflight'[s] = inflight[s]
        /\ inflight' \in [Subjects -> Int]
    BY <1>0, <1>3, <1>6 DEF Typed
  <2>2. inflight[t] = Cardinality(Taken(t)) /\ IsFiniteSet(Taken(t)) /\ i \in Taken(t)
    BY <1>4, <1>6, TakenIsPast DEF SlotInv, SlotsExact, Taken
  <2>3. Cardinality(Taken(t) \ {i}) = Cardinality(Taken(t)) - 1
    BY <2>2, FS_RemoveElement
  <2>4. \A s \in Subjects \ {t} : Taken(s)' = Taken(s)
    BY <1>4
  <2>5. SlotsExact'
    <3>1. \A s \in Subjects : inflight'[s] = Cardinality(Taken(s)')
      BY <1>4, <2>1, <2>2, <2>3, <2>4 DEF SlotInv, SlotsExact, Taken
    <3> QED BY <3>1 DEF SlotsExact, Taken
  <2>6. ASSUME NEW s \in Subjects, NEW S \in SUBSET Holding(s)', S # {}
        PROVE  \E j \in S : Cardinality(S) <= lim[j].concurrent.value
    <3>1. S \in SUBSET Holding(s)
      BY <1>4, <2>6
    <3> QED BY <2>6, <3>1 DEF SlotInv, Covered
  <2>7. IsFiniteSet(Past)'
    BY <1>2, PastGrows DEF SlotInv
  <2> QED BY <1>0, <2>1, <2>5, <2>6, <2>7 DEF SlotInv, Covered
<1> QED BY <1>3, <1>5, <1>6

(* What it comes to: no subject has more requests under way than the       *)
(* largest ceiling one of them was admitted under.                         *)
LEMMA CoveredIsCeiling == Typed /\ SlotInv => SlotCeiling
<1> SUFFICES ASSUME Typed, SlotInv, NEW s \in Subjects, Holding(s) # {}
             PROVE  Cardinality(Holding(s)) <= Max({lim[j].concurrent.value : j \in Holding(s)})
  BY DEF SlotCeiling
<1> DEFINE V == {lim[j].concurrent.value : j \in Holding(s)}
<1>1. PICK j \in Holding(s) : Cardinality(Holding(s)) <= lim[j].concurrent.value
  BY DEF SlotInv, Covered
<1>2. V \in SUBSET (0..MaxCeiling) /\ lim[j].concurrent.value \in V /\ MaxCeiling \in Nat
  BY GatewayAssumption DEF Typed, LimitTyped, Limit, Holding
<1>3. Cardinality(Holding(s)) \in Nat
  BY TakenIsPast
<1> HIDE DEF V
<1>4. Max(V) \in V /\ lim[j].concurrent.value <= Max(V)
  BY <1>2, MaxOfBounded
<1>5. Max(V) \in 0..MaxCeiling /\ lim[j].concurrent.value \in 0..MaxCeiling
  BY <1>2, <1>4
<1>6. Cardinality(Holding(s)) <= Max(V)
  BY <1>1, <1>2, <1>3, <1>4, <1>5
<1> QED BY <1>6 DEF V

-----------------------------------------------------------------------------
(* The request rate.                                                       *)

Since(s, x) == {c \in admitted : c.subject = s /\ x <= c.at}

(* What has been let through since an admission, and what the bucket still *)
(* holds, were in it or have run in since.                                 *)
Spent(a) ==
  Per * Cardinality(Since(a.subject, a.at)) + rpm[a.subject].tokens
    <= TopRate(a.subject) * (Per + rpm[a.subject].last - a.at)

AdmissionOK(c) ==
  /\ c.req \in Requests /\ c.subject \in Subjects /\ c.at \in Nat
  /\ c.at <= rpm[c.subject].last /\ pc[c.req] \notin {"new", "admit"}
  /\ TopRate(c.subject) \in Nat

BucketOK(s) ==
  /\ rpm[s].last <= clock /\ rpm[s].last >= -1
  /\ rpm[s].last # -1 => rpm[s].tokens >= 0

RateInv ==
  /\ IsFiniteSet(admitted)
  /\ \A c \in admitted : AdmissionOK(c)
  /\ \A s \in Subjects : BucketOK(s)
  /\ \A a \in admitted : Spent(a)
  /\ RpmBound

LEMMA RateKept ==
  ASSUME RateInv, Typed, UNCHANGED <<rpm, admitted>>, clock' \in Nat, clock' >= clock,
         \A i \in Requests : pc[i] \notin {"new", "admit"} => pc'[i] \notin {"new", "admit"}
  PROVE  RateInv'
<1>1. \A c \in admitted' : AdmissionOK(c)'
  BY DEF RateInv, AdmissionOK
<1>2. \A s \in Subjects : BucketOK(s)'
  BY DEF RateInv, BucketOK, Typed
<1>3. \A a \in admitted' : Spent(a)'
  BY DEF RateInv, Spent, Since
<1>4. RpmBound'
  BY DEF RateInv, RpmBound, Between
<1> QED BY <1>1, <1>2, <1>3, <1>4 DEF RateInv

LEMMA Products ==
  ASSUME NEW a \in Nat, NEW b \in Nat, a <= b, NEW d \in Nat
  PROVE  a * d <= b * d /\ a * d \in Nat /\ b * d \in Nat
BY SMT

(* The bucket a request looks at, refilled.                                *)
LEMMA Refilled ==
  ASSUME Typed, RateInv, NEW s \in Subjects, NEW v \in Nat, v > 0,
         TopRate(s) \in Nat, v <= TopRate(s)
  PROVE  \E k \in Nat :
           /\ Refill(rpm[s], v) = [tokens |-> k, last |-> clock]
           /\ k <= TopRate(s) * Per
           /\ \A a \in admitted : a.subject = s =>
                Per * Cardinality(Since(s, a.at)) + k <= TopRate(s) * (Per + clock - a.at)
<1>0. Per \in Nat /\ clock \in Nat /\ rpm[s].tokens \in Int /\ rpm[s].last \in Int
      /\ rpm[s].last <= clock /\ rpm[s].last >= -1
  BY GatewayAssumption DEF Typed, RateInv, BucketOK
<1>1. v * Per \in Nat /\ v * Per <= TopRate(s) * Per
  BY <1>0, Products
<1>2. CASE rpm[s].last = -1
  <2>1. Refill(rpm[s], v) = [tokens |-> v * Per, last |-> clock]
    BY <1>2 DEF Refill
  <2>2. \A a \in admitted : a.subject # s
    BY <1>2 DEF RateInv, AdmissionOK
  <2> QED BY <1>1, <2>1, <2>2
<1>3. CASE rpm[s].last # -1
  <2>0. PICK T \in Nat : T = rpm[s].tokens
    BY <1>0, <1>3 DEF RateInv, BucketOK
  <2>1. PICK e \in Nat : e = clock - rpm[s].last
    BY <1>0
  <2>2. v * e \in Nat /\ v * e <= TopRate(s) * e /\ TopRate(s) * e \in Nat
    BY Products
  <2>3. PICK k \in {v * Per, T + v * e} : k = Min({v * Per, T + v * e})
    <3>1. v * Per \in Int /\ T + v * e \in Int
      BY <1>1, <2>2
    <3> QED BY <3>1, MinOfTwo, Zenon
  <2>4. k \in Nat /\ k <= v * Per /\ k <= T + v * e
    BY <1>1, <2>2, <2>3, MinOfTwo
  <2>5. Refill(rpm[s], v) = [tokens |-> k, last |-> clock]
    BY <1>3, <2>0, <2>1, <2>3 DEF Refill
  <2>6. ASSUME NEW a \in admitted, a.subject = s
        PROVE  Per * Cardinality(Since(s, a.at)) + k <= TopRate(s) * (Per + clock - a.at)
    <3>1. Per * Cardinality(Since(s, a.at)) + T <= TopRate(s) * (Per + rpm[s].last - a.at)
      BY <2>0, <2>6 DEF RateInv, Spent
    <3>2. a.at \in Nat
      BY DEF RateInv, AdmissionOK
    <3>3. Since(s, a.at) \in SUBSET admitted
      BY DEF Since
    <3>4. Cardinality(Since(s, a.at)) \in Nat
      BY <3>3, FS_Subset, FS_CardinalityType DEF RateInv
    <3>5. TopRate(s) * (Per + clock - a.at) = TopRate(s) * (Per + rpm[s].last - a.at) + TopRate(s) * e
      BY <1>0, <2>1, <3>2
    <3>6. PICK p \in Nat : p = Per * Cardinality(Since(s, a.at))
      BY <1>0, <3>4
    <3>7. PICK w \in Int : w = TopRate(s) * (Per + rpm[s].last - a.at)
      BY <1>0, <3>2
    <3>8. PICK x \in Nat : x = TopRate(s) * e
      BY <2>2
    <3>9. PICK y \in Nat : y = v * e
      BY <2>2
    <3>10. p + T <= w /\ k <= T + y /\ y <= x
      BY <2>2, <2>4, <3>1, <3>6, <3>7, <3>8, <3>9
    <3>11. p + k <= w + x
      BY <2>4, <3>10
    <3> QED BY <3>5, <3>6, <3>7, <3>8, <3>11
  <2>7. k <= TopRate(s) * Per
    BY <1>0, <1>1, <2>4
  <2> QED BY <2>4, <2>5, <2>6, <2>7
<1> QED BY <1>2, <1>3

(* A refusal leaves the bucket refilled.                                   *)
LEMMA RateLooked ==
  ASSUME Typed, RateInv, NEW s \in Subjects, NEW v \in Nat, v > 0,
         TopRate(s) \in Nat, v <= TopRate(s),
         rpm' = [rpm EXCEPT ![s] = Refill(rpm[s], v)], UNCHANGED <<admitted, clock>>,
         \A i \in Requests : pc[i] \notin {"new", "admit"} => pc'[i] \notin {"new", "admit"}
  PROVE  RateInv' /\ rpm' \in [Subjects -> [tokens : Int, last : Int]]
<1>0. clock \in Nat /\ rpm \in [Subjects -> [tokens : Int, last : Int]]
  BY DEF Typed
<1>1. PICK k \in Nat :
        /\ Refill(rpm[s], v) = [tokens |-> k, last |-> clock]
        /\ \A a \in admitted : a.subject = s =>
             Per * Cardinality(Since(s, a.at)) + k <= TopRate(s) * (Per + clock - a.at)
  BY Refilled
<1>2. /\ rpm'[s].tokens = k /\ rpm'[s].last = clock /\ \A q \in Subjects \ {s} : rpm'[q] = rpm[q]
      /\ rpm' \in [Subjects -> [tokens : Int, last : Int]]
  BY <1>0, <1>1
<1>3. \A c \in admitted : AdmissionOK(c)'
  BY <1>0, <1>2 DEF RateInv, AdmissionOK, BucketOK
<1>4. \A q \in Subjects : BucketOK(q)'
  BY <1>0, <1>2 DEF RateInv, BucketOK
<1>5. ASSUME NEW a \in admitted PROVE Spent(a)'
  <2>1. a.subject \in Subjects
    BY DEF RateInv, AdmissionOK
  <2>2. CASE a.subject = s
    BY <1>1, <1>2, <2>2 DEF Spent, Since
  <2>3. CASE a.subject # s
    BY <1>2, <2>1, <2>3 DEF RateInv, Spent, Since
  <2> QED BY <2>2, <2>3
<1>6. RpmBound'
  BY DEF RateInv, RpmBound, Between
<1> QED BY <1>2, <1>3, <1>4, <1>5, <1>6 DEF RateInv

(* An admission takes one token of the refilled bucket.                    *)
LEMMA RateAdmitted ==
  ASSUME Typed, RateInv, NEW i \in Requests, NEW s \in Subjects, NEW v \in Nat, v > 0,
         TopRate(s) \in Nat, v <= TopRate(s),
         HasOne(Refill(rpm[s], v)), pc[i] = "admit", pc'[i] \notin {"new", "admit"},
         \A j \in Requests \ {i} : pc'[j] = pc[j],
         rpm' = [rpm EXCEPT ![s] = Take(Refill(rpm[s], v), 1)], UNCHANGED clock,
         admitted' = admitted \cup {[req |-> i, subject |-> s, at |-> clock]}
  PROVE  RateInv' /\ rpm' \in [Subjects -> [tokens : Int, last : Int]]
<1>0. /\ clock \in Nat /\ rpm \in [Subjects -> [tokens : Int, last : Int]]
      /\ Per \in Nat /\ Per > 0 /\ IsFiniteSet(admitted)
  BY GatewayAssumption DEF Typed, RateInv
<1>1. PICK k \in Nat :
        /\ Refill(rpm[s], v) = [tokens |-> k, last |-> clock]
        /\ k <= TopRate(s) * Per
        /\ \A a \in admitted : a.subject = s =>
             Per * Cardinality(Since(s, a.at)) + k <= TopRate(s) * (Per + clock - a.at)
  BY Refilled
<1>2. k >= Per /\ Take(Refill(rpm[s], v), 1) = [tokens |-> k - Per, last |-> clock]
  BY <1>0, <1>1 DEF HasOne, Take
<1>3. /\ rpm'[s].tokens = k - Per /\ rpm'[s].last = clock
      /\ \A q \in Subjects \ {s} : rpm'[q] = rpm[q]
      /\ rpm' \in [Subjects -> [tokens : Int, last : Int]]
  BY <1>0, <1>1, <1>2
<1>4. PICK n : n = [req |-> i, subject |-> s, at |-> clock]
  OBVIOUS
<1>5. n \notin admitted /\ n.req = i /\ n.subject = s /\ n.at = clock /\ admitted' = admitted \cup {n}
  BY <1>4 DEF RateInv, AdmissionOK
<1>6. IsFiniteSet(admitted')
  BY <1>0, <1>5, FS_AddElement
<1>7. \A c \in admitted' : AdmissionOK(c)'
  <2>1. \A c \in admitted : AdmissionOK(c)'
    BY <1>0, <1>3 DEF RateInv, AdmissionOK, BucketOK
  <2>2. AdmissionOK(n)'
    BY <1>0, <1>3, <1>5 DEF AdmissionOK
  <2> QED BY <1>5, <2>1, <2>2
<1>8. \A q \in Subjects : BucketOK(q)'
  BY <1>0, <1>2, <1>3 DEF RateInv, BucketOK
<1>9. \A c \in admitted : c.subject \in Subjects /\ c.at \in Nat /\ c.at <= clock
  BY <1>0 DEF RateInv, AdmissionOK, BucketOK, Typed
(* The admissions since an instant not after now: one more of this subject, *)
(* as many of any other.                                                   *)
<1>10. ASSUME NEW x \in Nat, x <= clock
       PROVE  Since(s, x)' = Since(s, x) \cup {n} /\ n \notin Since(s, x)
  BY <1>5, <1>10 DEF Since
<1>11. \A q \in Subjects \ {s} : \A x \in Nat : Since(q, x)' = Since(q, x)
  BY <1>5 DEF Since
<1>12. ASSUME NEW x \in Nat, x <= clock
       PROVE  /\ Cardinality(Since(s, x)) \in Nat
              /\ Cardinality(Since(s, x)') = Cardinality(Since(s, x)) + 1
  <2>1. Since(s, x) \in SUBSET admitted
    BY DEF Since
  <2>2. IsFiniteSet(Since(s, x))
    BY <1>0, <2>1, FS_Subset
  <2>3. Cardinality(Since(s, x) \cup {n}) = Cardinality(Since(s, x)) + 1
    BY <1>10, <1>12, <2>2, FS_AddElement
  <2>4. Since(s, x)' = Since(s, x) \cup {n}
    BY <1>10, <1>12
  <2> QED BY <2>2, <2>3, <2>4, FS_CardinalityType
(* In particular of the instants at which there was one before.            *)
<1>13. ASSUME NEW x \in Nat, x <= clock,
              Per * Cardinality(Since(s, x)) + k <= TopRate(s) * (Per + clock - x)
       PROVE  Per * Cardinality(Since(s, x)') + (k - Per) <= TopRate(s) * (Per + clock - x)
  <2>1. PICK m \in Nat : m = Cardinality(Since(s, x)) /\ Cardinality(Since(s, x)') = m + 1
    BY <1>12, <1>13
  <2>2. Per * (m + 1) = Per * m + Per
    BY <1>0
  <2> QED BY <1>0, <1>13, <2>1, <2>2
<1>14. Per * Cardinality(Since(s, clock)) + k <= TopRate(s) * (Per + clock - clock)
  <2>1. CASE \E a \in admitted : a.subject = s /\ a.at = clock
    BY <1>1, <2>1
  <2>2. CASE ~\E a \in admitted : a.subject = s /\ a.at = clock
    <3>1. Since(s, clock) = {}
      BY <1>0, <1>9, <2>2 DEF Since
    <3>2. Cardinality(Since(s, clock)) = 0
      BY <3>1, FS_EmptySet
    <3>3. Per * 0 = 0 /\ Per + clock - clock = Per
      BY <1>0
    <3> QED BY <1>1, <3>2, <3>3
  <2> QED BY <2>1, <2>2
<1>15. \A a \in admitted' : Spent(a)'
  <2>1. ASSUME NEW a \in admitted, a.subject = s PROVE Spent(a)'
    BY <1>1, <1>3, <1>9, <1>13, <2>1 DEF Spent
  <2>2. ASSUME NEW a \in admitted, a.subject # s PROVE Spent(a)'
    BY <1>3, <1>9, <1>11, <2>2 DEF RateInv, Spent
  <2>3. Spent(n)'
    BY <1>0, <1>3, <1>5, <1>13, <1>14 DEF Spent
  <2> QED BY <1>5, <2>1, <2>2, <2>3
<1>16. RpmBound'
  <2> SUFFICES ASSUME NEW a \in admitted', NEW b \in admitted', a.subject = b.subject, a.at <= b.at
               PROVE  Per * Cardinality(Between(a.subject, a.at, b.at)')
                        <= TopRate(a.subject) * (Per + b.at - a.at)
    BY DEF RpmBound
  <2>0. a.at \in Nat /\ b.at \in Nat /\ b.at <= clock /\ a.subject \in Subjects
    BY <1>0, <1>5, <1>9
  <2>1. CASE a.subject = s /\ b.at = clock
    <3>1. Between(s, a.at, clock)' = Since(s, a.at)'
      BY <1>0, <1>5, <1>9 DEF Between, Since
    <3>2. Per * Cardinality(Since(s, a.at)') + (k - Per) <= TopRate(s) * (Per + clock - a.at)
      BY <1>3, <1>15, <2>1 DEF Spent
    <3>3. PICK m \in Nat : m = Cardinality(Since(s, a.at)')
      BY <1>12, <2>0, <2>1
    <3>4. Per * m \in Nat /\ TopRate(s) * (Per + clock - a.at) \in Int
      BY <1>0, <2>0
    <3>5. Per * m <= TopRate(s) * (Per + clock - a.at)
      BY <1>0, <1>2, <3>2, <3>3, <3>4
    <3> QED BY <2>1, <3>1, <3>3, <3>5
  <2>2. CASE ~(a.subject = s /\ b.at = clock)
    <3>1. a \in admitted /\ b \in admitted
      BY <1>5, <2>0, <2>2
    <3>2. Between(a.subject, a.at, b.at)' = Between(a.subject, a.at, b.at)
      <4>1. ~(n.subject = a.subject /\ n.at <= b.at)
        BY <1>0, <1>5, <2>0, <2>2
      <4> QED BY <1>5, <4>1 DEF Between
    <3> QED BY <3>1, <3>2 DEF RateInv, RpmBound
  <2> QED BY <2>1, <2>2
<1> QED BY <1>3, <1>6, <1>7, <1>8, <1>15, <1>16 DEF RateInv

-----------------------------------------------------------------------------
(* Every step.                                                             *)

LimitInv == Typed /\ SlotInv /\ RateInv

(* A step of one request that touches neither slots nor buckets.           *)
LEMMA MovesOn ==
  ASSUME LimitInv, NEW i \in Requests, NEW x \in Phases \ {"new"}, pc' = [pc EXCEPT ![i] = x],
         \/ pc[i] \in InProxy /\ x \in InProxy \cup {"aborted"}
         \/ pc[i] \in {"new", "admit"} /\ x \in {"admit", "refused"},
         UNCHANGED <<user, lim, table, clock, inflight, rpm, admitted>>
  PROVE  LimitInv'
<1>0. Typed /\ SlotInv /\ RateInv
  BY DEF LimitInv
<1>1. pc'[i] = x /\ (\A j \in Requests \ {i} : pc'[j] = pc[j]) /\ pc' \in [Requests -> Phases]
  BY <1>0 DEF Typed
<1>2. Typed'
  BY <1>0, <1>1 DEF Typed, LimitTyped
<1>3. \A s \in Subjects : Taken(s)' = Taken(s) /\ Holding(s)' \subseteq Holding(s)
  BY <1>1 DEF Taken, Holding, Leaked, HasSlot, InProxy
<1>4. Past' \subseteq Past \cup {i}
  BY <1>1 DEF Past
<1>5. SlotInv'
  BY <1>0, <1>3, <1>4, SlotsKept
<1>6. \A j \in Requests : pc[j] \notin {"new", "admit"} => pc'[j] \notin {"new", "admit"}
  BY <1>1 DEF InProxy
<1>7. RateInv'
  BY <1>0, <1>6, RateKept DEF Typed
<1> QED BY <1>2, <1>5, <1>7 DEF LimitInv

LEMMA ArriveInv ==
  ASSUME LimitInv, NEW i \in Requests, Arrive(i)
  PROVE  LimitInv'
<1>0. Typed /\ SlotInv /\ RateInv
  BY DEF LimitInv
<1>1. /\ pc[i] = "new" /\ UNCHANGED <<user, table, clock, inflight, rpm, admitted>>
      /\ \/ pc' = [pc EXCEPT ![i] = "refused"] /\ lim' = lim
         \/ pc' = [pc EXCEPT ![i] = "admit"] /\ lim' = [lim EXCEPT ![i] = LimitsFor(user[i])]
  BY DEF Arrive
<1>2. CASE lim' = lim /\ pc' = [pc EXCEPT ![i] = "refused"]
  <2>1. "refused" \in Phases \ {"new"}
    BY DEF Phases
  <2> QED BY <1>1, <1>2, <2>1, MovesOn
<1>3. CASE pc' = [pc EXCEPT ![i] = "admit"] /\ lim' = [lim EXCEPT ![i] = LimitsFor(user[i])]
  <2>1. pc'[i] = "admit" /\ (\A j \in Requests \ {i} : pc'[j] = pc[j]) /\ pc' \in [Requests -> Phases]
    BY <1>0, <1>3 DEF Typed, Phases
  <2>2. /\ DOMAIN lim' = Requests /\ lim'[i] = LimitsFor(user[i])
        /\ \A j \in Requests \ {i} : lim'[j] = lim[j]
    BY <1>0, <1>3 DEF Typed
  <2>3. \A l : LimitTyped(l)' = LimitTyped(l)
    BY DEF LimitTyped
  <2>4. LimitTyped(LimitsFor(user[i]))
    BY <1>0, LimitsTyped DEF Typed
  <2>5. \A j \in Requests : LimitTyped(lim'[j])
    BY <1>0, <2>2, <2>4 DEF Typed
  <2>6. Typed'
    BY <1>0, <1>1, <2>1, <2>2, <2>5 DEF Typed, LimitTyped
  <2>7. \A s \in Subjects : Taken(s)' = Taken(s) /\ Holding(s)' \subseteq Holding(s)
    BY <1>1, <2>1, <2>2 DEF Taken, Holding, Leaked, HasSlot, InProxy
  <2>8. Past' \subseteq Past \cup {i} /\ \A j \in Past : lim'[j] = lim[j]
    BY <1>1, <2>1, <2>2 DEF Past
  <2>9. SlotInv'
    BY <1>0, <1>1, <2>7, <2>8, SlotsKept
  <2>10. \A j \in Requests : pc[j] \notin {"new", "admit"} => pc'[j] \notin {"new", "admit"}
    BY <1>1, <2>1
  <2>11. RateInv'
    BY <1>0, <1>1, <2>10, RateKept DEF Typed
  <2> QED BY <2>6, <2>9, <2>11 DEF LimitInv
<1> QED BY <1>1, <1>2, <1>3

LEMMA ThrottledInv ==
  ASSUME LimitInv, NEW i \in Requests, Throttled(i)
  PROVE  LimitInv'
<1>0. Typed /\ SlotInv /\ RateInv
  BY DEF LimitInv
<1>1. /\ pc[i] = "admit" /\ UNCHANGED <<user, lim, table, clock, inflight, admitted>>
      /\ pc' = [pc EXCEPT ![i] = "refused"]
      /\ rpm' = IF lim[i].rpm.value > 0 /\ ReachesRpm(lim[i])
                THEN [rpm EXCEPT ![lim[i].rpm.subject] = RpmNow(lim[i])] ELSE rpm
  BY DEF Throttled
<1>2. "refused" \in Phases \ {"new"}
  BY DEF Phases
<1>3. CASE rpm' = rpm
  BY <1>1, <1>2, <1>3, MovesOn
<1>4. CASE rpm' # rpm
  <2>1. PICK s \in Subjects, v \in Nat : s = lim[i].rpm.subject /\ v = lim[i].rpm.value
    BY <1>0 DEF Typed, LimitTyped, Limit
  <2>2. /\ v > 0 /\ TopRate(s) \in Nat /\ v <= TopRate(s)
        /\ rpm' = [rpm EXCEPT ![s] = Refill(rpm[s], v)]
    BY <1>0, <1>1, <1>4, <2>1 DEF Typed, LimitTyped, RpmNow
  <2>3. pc'[i] = "refused" /\ (\A j \in Requests \ {i} : pc'[j] = pc[j]) /\ pc' \in [Requests -> Phases]
    BY <1>0, <1>1, <1>2 DEF Typed
  <2>4. \A j \in Requests : pc[j] \notin {"new", "admit"} => pc'[j] \notin {"new", "admit"}
    BY <2>3
  <2>5. RateInv' /\ rpm' \in [Subjects -> [tokens : Int, last : Int]]
    BY <1>0, <1>1, <2>2, <2>4, RateLooked
  <2>6. Typed'
    BY <1>0, <1>1, <2>3, <2>5 DEF Typed, LimitTyped
  <2>7. \A s1 \in Subjects : Taken(s1)' = Taken(s1) /\ Holding(s1)' \subseteq Holding(s1)
    BY <1>1, <2>3 DEF Taken, Holding, Leaked, HasSlot, InProxy
  <2>8. Past' \subseteq Past \cup {i}
    BY <2>3 DEF Past
  <2>9. SlotInv'
    BY <1>0, <1>1, <2>7, <2>8, SlotsKept
  <2> QED BY <2>5, <2>6, <2>9 DEF LimitInv
<1> QED BY <1>3, <1>4

LEMMA AdmitInv ==
  ASSUME LimitInv, NEW i \in Requests, Admit(i)
  PROVE  LimitInv'
<1>0. Typed /\ SlotInv /\ RateInv
  BY DEF LimitInv
<1>1. /\ pc[i] = "admit" /\ UNCHANGED <<user, lim, table, clock>>
      /\ pc' = [pc EXCEPT ![i] = "ready"] /\ ~OverRpm(lim[i])
      /\ rpm' = IF lim[i].rpm.value > 0
                THEN [rpm EXCEPT ![lim[i].rpm.subject] = Take(RpmNow(lim[i]), 1)] ELSE rpm
      /\ admitted' = IF lim[i].rpm.value > 0
                     THEN admitted \cup {[req |-> i, subject |-> lim[i].rpm.subject, at |-> clock]}
                     ELSE admitted
  BY DEF Admit
<1>2. SlotInv' /\ inflight' \in [Subjects -> Int]
  BY <1>0, AdmitSlots
<1>3. pc'[i] = "ready" /\ (\A j \in Requests \ {i} : pc'[j] = pc[j]) /\ pc' \in [Requests -> Phases]
  BY <1>0, <1>1 DEF Typed, Phases
<1>4. RateInv' /\ rpm' \in [Subjects -> [tokens : Int, last : Int]]
  <2>1. PICK s \in Subjects, v \in Nat : s = lim[i].rpm.subject /\ v = lim[i].rpm.value
    BY <1>0 DEF Typed, LimitTyped, Limit
  <2>2. CASE v = 0
    <3>1. rpm' = rpm /\ admitted' = admitted
      BY <1>1, <2>1, <2>2
    <3>2. \A j \in Requests : pc[j] \notin {"new", "admit"} => pc'[j] \notin {"new", "admit"}
      BY <1>3
    <3>3. clock' = clock /\ lim' = lim /\ user' = user /\ table' = table
      BY <1>1
    <3>4. rpm' \in [Subjects -> [tokens : Int, last : Int]]
      BY <1>0, <3>1 DEF Typed
    <3>5. RateInv'
      BY <1>0, <3>1, <3>2, <3>3, RateKept DEF Typed
    <3> QED BY <3>4, <3>5
  <2>3. CASE v > 0
    <3>1. /\ TopRate(s) \in Nat /\ v <= TopRate(s) /\ HasOne(Refill(rpm[s], v))
          /\ rpm' = [rpm EXCEPT ![s] = Take(Refill(rpm[s], v), 1)]
          /\ admitted' = admitted \cup {[req |-> i, subject |-> s, at |-> clock]}
      BY <1>0, <1>1, <2>1, <2>3 DEF Typed, LimitTyped, RpmNow, OverRpm
    <3>2. pc'[i] \notin {"new", "admit"}
      BY <1>3
    <3> QED BY <1>0, <1>1, <1>3, <2>3, <3>1, <3>2, RateAdmitted
  <2> QED BY <2>2, <2>3
<1>5. Typed'
  BY <1>0, <1>1, <1>2, <1>3, <1>4 DEF Typed, LimitTyped
<1> QED BY <1>2, <1>4, <1>5 DEF LimitInv

LEMMA ReleaseInv ==
  ASSUME LimitInv, NEW i \in Requests, Release(i)
  PROVE  LimitInv'
<1>0. Typed /\ SlotInv /\ RateInv
  BY DEF LimitInv
<1>1. /\ pc[i] = "release" /\ UNCHANGED <<user, lim, table, clock, rpm, admitted>>
      /\ pc' = [pc EXCEPT ![i] = "done"]
  BY DEF Release
<1>2. SlotInv' /\ inflight' \in [Subjects -> Int]
  BY <1>0, ReleaseSlots
<1>3. pc'[i] = "done" /\ (\A j \in Requests \ {i} : pc'[j] = pc[j]) /\ pc' \in [Requests -> Phases]
  BY <1>0, <1>1 DEF Typed, Phases
<1>4. \A j \in Requests : pc[j] \notin {"new", "admit"} => pc'[j] \notin {"new", "admit"}
  BY <1>3
<1>5. RateInv'
  BY <1>0, <1>1, <1>4, RateKept DEF Typed
<1>6. Typed'
  BY <1>0, <1>1, <1>2, <1>3 DEF Typed, LimitTyped
<1> QED BY <1>2, <1>5, <1>6 DEF LimitInv

(* The table changes, time passes, a client goes, or nothing happens.      *)
LEMMA StillInv ==
  ASSUME LimitInv, UNCHANGED <<pc, user, lim, inflight, rpm, admitted>>,
         table' \in Tables, clock' \in Nat, clock' >= clock
  PROVE  LimitInv'
<1>0. Typed /\ SlotInv /\ RateInv
  BY DEF LimitInv
<1>1. Typed'
  BY <1>0 DEF Typed, LimitTyped
<1>2. Past' = Past /\ \A s : Holding(s)' = Holding(s) /\ Leaked(s)' = Leaked(s)
  BY DEF Past, Holding, Leaked, HasSlot
<1>3. SlotInv'
  BY <1>0, <1>2 DEF SlotInv, SlotsExact, Covered
<1>4. RateInv'
  BY <1>0, RateKept
<1> QED BY <1>1, <1>3, <1>4 DEF LimitInv

LEMMA LimitStep == LimitInv /\ [Next]_vars => LimitInv'
<1> SUFFICES ASSUME LimitInv, [Next]_vars PROVE LimitInv'
  OBVIOUS
<1>0. table \in Tables /\ clock \in Nat
  BY DEF LimitInv, Typed
<1>1. ASSUME NEW i \in Requests, Inject(i) PROVE LimitInv'
  <2>1. PICK x \in {"proxy", "aborted"} : pc' = [pc EXCEPT ![i] = x]
    BY <1>1 DEF Inject
  <2>2. x \in Phases \ {"new"} /\ x \in InProxy \cup {"aborted"} /\ pc[i] \in InProxy
    BY <1>1 DEF Inject, Phases, InProxy
  <2> QED BY <1>1, <2>1, <2>2, MovesOn DEF Inject
<1>2. ASSUME NEW i \in Requests, Respond(i) PROVE LimitInv'
  <2>1. "record" \in Phases \ {"new"} /\ "record" \in InProxy /\ pc[i] \in InProxy
    BY <1>2 DEF Respond, Phases, InProxy
  <2> QED BY <1>2, <2>1, MovesOn DEF Respond
<1>3. ASSUME NEW i \in Requests, CopyFails(i) \/ Record(i) PROVE LimitInv'
  <2>1. "release" \in Phases \ {"new"} /\ "release" \in InProxy /\ pc[i] \in InProxy
    BY <1>3 DEF CopyFails, Record, Phases, InProxy
  <2> QED BY <1>3, <2>1, MovesOn DEF CopyFails, Record
<1>4. ASSUME NEW i \in Requests, HangUp(i) PROVE LimitInv'
  BY <1>0, <1>4, StillInv DEF HangUp
<1>5. ASSUME NEW i \in Requests, Step(i) PROVE LimitInv'
  BY <1>1, <1>2, <1>3, <1>4, <1>5, ArriveInv, ThrottledInv, AdmitInv, ReleaseInv DEF Step
<1>6. CASE SetLimits \/ Tick \/ UNCHANGED vars
  BY <1>0, <1>6, StillInv DEF SetLimits, Tick, vars
<1> QED BY <1>5, <1>6 DEF Next

LEMMA LimitInit == Init => LimitInv
<1> SUFFICES ASSUME Init PROVE LimitInv
  OBVIOUS
<1>1. NoLimit \in Limit /\ NoLimit.value = 0
  BY DEF NoLimit, Limit, Subjects
<1>2. LimitTyped(NoLimits)
  BY <1>1, GatewayAssumption DEF LimitTyped, NoLimits
<1>3. Typed
  BY <1>2 DEF Init, Typed, Phases, Unused
<1>4. Past = {} /\ \A s : Holding(s) = {} /\ Leaked(s) = {}
  BY DEF Init, Past, Holding, Leaked, InProxy
<1>5. SlotInv
  BY <1>4, FS_EmptySet DEF Init, SlotInv, SlotsExact, Covered
<1>6. RateInv
  BY FS_EmptySet DEF Init, RateInv, BucketOK, Unused, RpmBound
<1> QED BY <1>3, <1>5, <1>6 DEF LimitInv

(* A limits row holds whoever races for it and while the table changes:    *)
(* the counter of its slots is exact, its concurrency ceiling is never     *)
(* exceeded, and neither is its request rate over any interval.            *)
THEOREM LimitsAlwaysHold == Spec => []LimitsHold
<1>1. LimitInv => LimitsHold
  BY CoveredIsCeiling DEF LimitInv, SlotInv, RateInv, LimitsHold
<1> QED BY <1>1, LimitInit, LimitStep, PTL DEF Spec

-----------------------------------------------------------------------------
(* Metering.                                                               *)

OkRow(i) == [req |-> i, user |-> user[i], tokens |-> cost[i], status |-> "ok"]

(* A request has its row once its response is recorded, and only then.     *)
MeterInv ==
  /\ pc \in [Requests -> Phases] /\ DOMAIN cost = Requests
  /\ \A i \in Requests :
       /\ \A r \in usage : r.req = i /\ r.status = "ok"
                             => r = OkRow(i) /\ pc[i] \in {"release", "done"}
       /\ pc[i] \in {"release", "done"} /\ i \notin gone => OkRow(i) \in usage

(* A step that writes no row and records no response.                      *)
LEMMA MeterKept ==
  ASSUME MeterInv, NEW i \in Requests, user' = user, gone \subseteq gone',
         usage \subseteq usage', \A r \in usage' \ usage : r.status # "ok",
         pc' \in [Requests -> Phases], DOMAIN cost' = Requests,
         \A j \in Requests \ {i} : pc'[j] = pc[j] /\ cost'[j] = cost[j],
         \/ pc[i] \in {"release", "done"} /\ pc'[i] \in {"release", "done"} /\ cost'[i] = cost[i]
         \/ pc[i] \notin {"release", "done"} /\ (pc'[i] \notin {"release", "done"} \/ i \in gone)
  PROVE  MeterInv'
<1>1. \A j \in Requests \ {i} : OkRow(j)' = OkRow(j)
  BY DEF OkRow
<1>2. pc[i] \in {"release", "done"} => OkRow(i)' = OkRow(i)
  BY DEF OkRow
<1>3. ASSUME NEW j \in Requests, NEW r \in usage', r.req = j, r.status = "ok"
      PROVE  r = OkRow(j)' /\ pc'[j] \in {"release", "done"}
  <2>1. r \in usage
    BY <1>3
  <2> QED BY <1>1, <1>2, <1>3, <2>1 DEF MeterInv
<1>4. ASSUME NEW j \in Requests, pc'[j] \in {"release", "done"}, j \notin gone'
      PROVE  OkRow(j)' \in usage'
  BY <1>1, <1>2, <1>4 DEF MeterInv
<1> QED BY <1>3, <1>4 DEF MeterInv

LEMMA MeterStep == MeterInv /\ [Next]_vars => MeterInv'
<1> SUFFICES ASSUME MeterInv, [Next]_vars PROVE MeterInv'
  OBVIOUS
<1>0. pc \in [Requests -> Phases] /\ DOMAIN cost = Requests
  BY DEF MeterInv
<1>1. ASSUME NEW i \in Requests,
             Arrive(i) \/ Throttled(i) \/ Admit(i) \/ Inject(i) \/ Respond(i) \/ HangUp(i)
             \/ CopyFails(i) \/ Release(i)
      PROVE  MeterInv'
  <2>1. user' = user /\ gone \subseteq gone'
    BY <1>1 DEF Arrive, Throttled, Admit, Inject, Respond, HangUp, CopyFails, Release
  <2>2. usage \subseteq usage' /\ \A r \in usage' \ usage : r.status # "ok"
    BY <1>1 DEF Arrive, Throttled, Admit, Inject, Respond, HangUp, CopyFails, Release
  <2>3. /\ pc' \in [Requests -> Phases] /\ \A j \in Requests \ {i} : pc'[j] = pc[j]
        /\ \/ pc[i] \in {"release", "done"} /\ pc'[i] \in {"release", "done"}
           \/ pc[i] \notin {"release", "done"} /\ (pc'[i] \notin {"release", "done"} \/ i \in gone)
    BY <1>0, <1>1 DEF Arrive, Throttled, Admit, Inject, Respond, HangUp, CopyFails, Release, Phases
  <2>4. /\ DOMAIN cost' = Requests /\ \A j \in Requests \ {i} : cost'[j] = cost[j]
        /\ pc[i] \in {"release", "done"} => cost'[i] = cost[i]
    BY <1>0, <1>1 DEF Arrive, Throttled, Admit, Inject, Respond, HangUp, CopyFails, Release
  <2> QED BY <2>1, <2>2, <2>3, <2>4, MeterKept
<1>2. ASSUME NEW i \in Requests, Record(i) PROVE MeterInv'
  <2>1. /\ pc[i] = "record" /\ UNCHANGED <<user, cost, gone>>
        /\ pc' = [pc EXCEPT ![i] = "release"]
        /\ usage' = usage \cup {OkRow(i)} \/ (i \in gone /\ usage' = usage)
    BY <1>2 DEF Record, OkRow
  <2>2. pc'[i] = "release" /\ (\A j \in Requests \ {i} : pc'[j] = pc[j]) /\ pc' \in [Requests -> Phases]
    BY <1>0, <2>1 DEF Phases
  <2>3. \A j \in Requests : OkRow(j)' = OkRow(j) /\ OkRow(j).req = j
    BY <2>1 DEF OkRow
  <2>4. ASSUME NEW j \in Requests, NEW r \in usage', r.req = j, r.status = "ok"
        PROVE  r = OkRow(j) /\ pc'[j] \in {"release", "done"}
    BY <2>1, <2>2, <2>3, <2>4 DEF MeterInv
  <2>5. ASSUME NEW j \in Requests, pc'[j] \in {"release", "done"}, j \notin gone
        PROVE  OkRow(j) \in usage'
    BY <2>1, <2>2, <2>5 DEF MeterInv
  <2> QED BY <1>0, <2>1, <2>2, <2>3, <2>4, <2>5 DEF MeterInv
<1>3. CASE SetLimits \/ Tick \/ UNCHANGED vars
  <2>1. UNCHANGED <<pc, user, cost, gone, usage>>
    BY <1>3 DEF SetLimits, Tick, vars
  <2> QED BY <2>1 DEF MeterInv, OkRow
<1> QED BY <1>1, <1>2, <1>3 DEF Next, Step

(* An answered request leaves exactly one usage row, and one whose client  *)
(* or data plane went away at most one.                                    *)
THEOREM AnsweredAreMetered == Spec => []AnsweredIsMetered
<1>1. Init => MeterInv
  BY DEF Init, MeterInv, Phases
<1>2. MeterInv => AnsweredIsMetered
  <2> SUFFICES ASSUME MeterInv, NEW i \in Requests
               PROVE  LET rows == {r \in usage : r.req = i /\ r.status = "ok"}
                      IN  /\ Cardinality(rows) <= 1
                          /\ pc[i] = "done" /\ i \notin gone => rows # {}
    BY DEF AnsweredIsMetered
  <2> DEFINE rows == {r \in usage : r.req = i /\ r.status = "ok"}
  <2>1. rows \subseteq {OkRow(i)}
    BY DEF MeterInv
  <2>2. Cardinality(rows) <= 1
    <3>1. rows = {} \/ rows = {OkRow(i)}
      BY <2>1
    <3>2. Cardinality(rows) = 0 \/ Cardinality(rows) = 1
      BY <3>1, FS_EmptySet, FS_Singleton, Zenon
    <3> QED BY <3>2
  <2>3. OkRow(i).req = i /\ OkRow(i).status = "ok"
    BY DEF OkRow
  <2>4. pc[i] = "done" /\ i \notin gone => OkRow(i) \in rows
    BY <2>3 DEF MeterInv
  <2> QED BY <2>2, <2>4
<1> QED BY <1>1, <1>2, MeterStep, PTL DEF Spec

-----------------------------------------------------------------------------
(* The synchronisation of the data plane.                                  *)

SyncSteps == {"idle", "ready", "look", "write", "fill", "decide", "mark"}
Confs == [Deployments -> Placements \cup {"disabled"}]
SyncRuns == [at : SyncSteps, conf : Confs, body : Bodies, changed : BOOLEAN]
SyncUses == [moves : Nat, faults : Nat, reboots : Nat, overlap : BOOLEAN]

SyncTyped ==
  /\ gconf \in Confs /\ gready \subseteq Deployments
  /\ gfile \in Bodies \cup {Torn}
  /\ gsync \in [Syncers -> SyncRuns] /\ gused \in SyncUses

(* A rendered file is neither cut short nor no marker.                     *)
LEMMA BodiesDiffer ==
  /\ \A b \in Bodies : b # Torn /\ b # NoMark
  /\ \A S \in SUBSET Deployments : Body(S) \in Bodies
<1>1. \A b \in Bodies : b.torn = FALSE /\ DOMAIN b = {"torn", "members"}
  BY DEF Bodies, Body
<1>2. Torn.torn = TRUE /\ DOMAIN NoMark = {"marked"}
  BY DEF Torn, NoMark
<1>3. \A S \in SUBSET Deployments : Body(S) \in Bodies
  BY DEF Bodies
<1> QED
  BY <1>1, <1>2, <1>3

(* The steps of a sync, and one not under way.                             *)
LEMMA SyncValues ==
  /\ {"idle", "ready", "look", "write", "fill", "decide", "mark"} \subseteq SyncSteps
  /\ NoSync \in SyncRuns /\ NoSync.at = "idle"
<1>1. {"idle", "ready", "look", "write", "fill", "decide", "mark"} \subseteq SyncSteps
  BY DEF SyncSteps
<1>2. Body({}) \in Bodies /\ [d \in Deployments |-> "disabled"] \in Confs /\ "idle" \in SyncSteps
  BY <1>1, BodiesDiffer DEF Confs
<1>3. NoSync \in SyncRuns /\ NoSync.at = "idle"
  BY <1>2 DEF NoSync, SyncRuns
<1> QED
  BY <1>1, <1>3

(* Before anything failed the plane runs with the file, and the marker     *)
(* says so or nothing; after a failure it at least does not say what is    *)
(* not so.                                                                 *)
Vouched(faults, file, mark, plane) ==
  IF faults = 0 THEN plane = file /\ mark \in {NoMark, file}
  ELSE file = mark /\ file # Torn => plane = file

(* What a sync under way, alone, has made of the file and the plane.       *)
UnderWay(r, faults, file, mark, plane) ==
  /\ r.at \in {"idle", "ready", "look"} => Vouched(faults, file, mark, plane)
  /\ r.at = "write" => Vouched(faults, file, mark, plane) /\ r.changed = (file # r.body)
  /\ r.at = "fill" => r.changed /\ file = Torn /\ (faults = 0 => mark # r.body)
  /\ r.at = "decide" =>
       /\ file = r.body /\ (~r.changed => Vouched(faults, file, mark, plane))
       /\ faults = 0 /\ r.changed => mark # r.body
  /\ r.at = "mark" => file = r.body /\ plane = r.body

(* While at most one thing failed and no two syncs overlapped.             *)
AloneInv ==
  gused.faults <= 1 /\ ~gused.overlap =>
    /\ \A s, t \in Syncers : gsync[s].at # "idle" /\ gsync[t].at # "idle" => s = t
    /\ \A s \in Syncers :
         gsync[s].at # "idle" => UnderWay(gsync[s], gused.faults, gfile, gmark, gplane)
    /\ (\A s \in Syncers : gsync[s].at = "idle") => Vouched(gused.faults, gfile, gmark, gplane)

SyncInv == SyncTyped /\ AloneInv

(* The data plane as `server install` leaves it.                           *)
LEMMA SyncStart == SyncInit => SyncInv
<1> SUFFICES ASSUME SyncInit PROVE SyncInv
  OBVIOUS
<1>1. gconf \in Confs
  BY GatewaySyncAssumption DEF SyncInit, Confs
<1>2. gused \in SyncUses /\ gused.faults = 0
  BY DEF SyncInit, SyncUses
<1>3. SyncTyped
  BY <1>1, <1>2, BodiesDiffer, SyncValues DEF SyncInit, SyncTyped
<1>4. AloneInv
  BY <1>2, SyncValues DEF SyncInit, AloneInv, Vouched
<1> QED
  BY <1>3, <1>4 DEF SyncInv

(* A run of one sync changes nothing of the others.                        *)
LEMMA RunIs ==
  ASSUME SyncTyped, NEW s \in Syncers, NEW r \in SyncRuns, Run(s, r)
  PROVE  /\ gsync' \in [Syncers -> SyncRuns] /\ gsync'[s] = r
         /\ \A t \in Syncers \ {s} : gsync'[t] = gsync[t]
BY DEF SyncTyped, Run

(* What a step of a sync that runs alone starts from.                      *)
LEMMA AloneIs ==
  ASSUME SyncInv, NEW s \in Syncers, gused.faults <= 1, ~gused.overlap,
         gsync[s].at # "idle" \/ \A t \in Syncers \ {s} : gsync[t].at = "idle"
  PROVE  /\ \A t \in Syncers \ {s} : gsync[t].at = "idle"
         /\ UnderWay(gsync[s], gused.faults, gfile, gmark, gplane)
<1>1. \A t \in Syncers \ {s} : gsync[t].at = "idle"
  BY DEF SyncInv, AloneInv
<1>2. CASE gsync[s].at # "idle"
  BY <1>1, <1>2 DEF SyncInv, AloneInv
<1>3. CASE gsync[s].at = "idle"
  BY <1>1, <1>3 DEF SyncInv, AloneInv, UnderWay
<1> QED
  BY <1>1, <1>2, <1>3

(* What a step of one sync must establish.                                 *)
LEMMA OneMoves ==
  ASSUME SyncInv, NEW s \in Syncers, NEW r \in SyncRuns, Run(s, r),
         gused'.overlap \/ gsync[s].at # "idle" \/ \A t \in Syncers \ {s} : gsync[t].at = "idle",
         gused.overlap => gused'.overlap, gused'.faults >= gused.faults,
         gused' \in SyncUses, gconf' \in Confs, gready' \subseteq Deployments,
         gfile' \in Bodies \cup {Torn},
         ASSUME gused'.faults <= 1, gused.faults <= 1,
                UnderWay(gsync[s], gused.faults, gfile, gmark, gplane)
         PROVE  IF r.at = "idle" THEN Vouched(gused'.faults, gfile', gmark', gplane')
                ELSE UnderWay(r, gused'.faults, gfile', gmark', gplane')
  PROVE  SyncInv'
<1>1. /\ gsync' \in [Syncers -> SyncRuns] /\ gsync'[s] = r
      /\ \A t \in Syncers \ {s} : gsync'[t] = gsync[t]
  BY RunIs DEF SyncInv
<1>2. SyncTyped'
  BY <1>1 DEF SyncTyped
<1>3. gused.faults \in Nat /\ gused'.faults \in Nat
  BY DEF SyncInv, SyncTyped, SyncUses
<1>4. ASSUME gused'.faults <= 1, ~gused'.overlap
      PROVE  /\ \A t \in Syncers \ {s} : gsync[t].at = "idle"
             /\ IF r.at = "idle" THEN Vouched(gused'.faults, gfile', gmark', gplane')
                ELSE UnderWay(r, gused'.faults, gfile', gmark', gplane')
  <2>1. gused.faults <= 1 /\ ~gused.overlap
    BY <1>3, <1>4
  <2>2. /\ \A t \in Syncers \ {s} : gsync[t].at = "idle"
        /\ UnderWay(gsync[s], gused.faults, gfile, gmark, gplane)
    BY <1>4, <2>1, AloneIs
  <2> QED
    BY <1>4, <2>1, <2>2
<1>6. AloneInv'
  BY <1>1, <1>4 DEF AloneInv
<1> QED
  BY <1>2, <1>6 DEF SyncInv

(* The snapshot, the ready deployments, and the look at the file.          *)
LEMMA ReadsStep ==
  ASSUME SyncInv, NEW s \in Syncers, ReadSnapshot(s) \/ readyDeployments(s) \/ LookAtFile(s)
  PROVE  SyncInv'
<1>1. /\ gsync[s] \in SyncRuns /\ gconf \in Confs /\ gready \subseteq Deployments
      /\ gfile \in Bodies \cup {Torn} /\ gused \in SyncUses
      /\ UNCHANGED <<gconf, gready, gfile, gmark, gplane>>
  BY DEF SyncInv, SyncTyped, ReadSnapshot, readyDeployments, LookAtFile
<1>2. CASE ReadSnapshot(s)
  <2> DEFINE r == [gsync[s] EXCEPT !.at = "ready", !.conf = gconf]
  <2>1. Run(s, r) /\ r \in SyncRuns /\ r.at = "ready" /\ gsync[s].at = "idle"
    BY <1>1, <1>2, SyncValues DEF ReadSnapshot, SyncRuns
  <2>2. /\ gused' \in SyncUses /\ gused'.faults = gused.faults /\ (gused.overlap => gused'.overlap)
        /\ gused'.overlap \/ \A t \in Syncers \ {s} : gsync[t].at = "idle"
    BY <1>1, <1>2 DEF ReadSnapshot, SyncUses
  <2>3. gused'.faults >= gused.faults
    BY <1>1, <2>2 DEF SyncUses
  <2> HIDE DEF r
  <2> QED
    BY <1>1, <2>1, <2>2, <2>3, OneMoves DEF UnderWay
<1>3. CASE readyDeployments(s)
  <2> DEFINE b == Body(routeModels(gsync[s].conf, gready))
             r == [gsync[s] EXCEPT !.at = "look", !.body = b]
  <2>1. b \in Bodies
    BY BodiesDiffer DEF routeModels
  <2> HIDE DEF b
  <2>2. Run(s, r) /\ r \in SyncRuns /\ r.at = "look" /\ gsync[s].at = "ready" /\ gused' = gused
    BY <1>1, <1>3, <2>1, SyncValues DEF readyDeployments, SyncRuns, b
  <2>3. gused'.faults >= gused.faults
    BY <1>1, <2>2 DEF SyncUses
  <2> HIDE DEF r
  <2> QED
    BY <1>1, <2>2, <2>3, OneMoves DEF UnderWay
<1>4. CASE LookAtFile(s)
  <2> DEFINE c == gfile # gsync[s].body
             r == [gsync[s] EXCEPT !.at = "write", !.changed = c]
  <2>1. c \in BOOLEAN
    OBVIOUS
  <2>2. Run(s, r) /\ gsync[s].at = "look" /\ gused' = gused
    BY <1>4 DEF LookAtFile
  <2> HIDE DEF c
  <2>3. r \in SyncRuns /\ r.at = "write" /\ r.changed = c /\ r.body = gsync[s].body
    BY <1>1, <2>1, SyncValues DEF SyncRuns
  <2>4. gused'.faults >= gused.faults
    BY <1>1, <2>2 DEF SyncUses
  <2>5. r.changed = (gfile # r.body)
    BY <2>3 DEF c
  <2> HIDE DEF r
  <2> QED
    BY <1>1, <2>2, <2>3, <2>4, <2>5, OneMoves DEF UnderWay
<1> QED
  BY <1>2, <1>3, <1>4

(* The two writes of the file.                                             *)
LEMMA WritesStep ==
  ASSUME SyncInv, NEW s \in Syncers, writePlaneConfig(s) \/ FillConfig(s)
  PROVE  SyncInv'
<1>1. /\ gsync[s] \in SyncRuns /\ gconf \in Confs /\ gready \subseteq Deployments
      /\ gfile \in Bodies \cup {Torn} /\ gused \in SyncUses
      /\ UNCHANGED <<gconf, gready, gmark, gplane, gused>>
  BY DEF SyncInv, SyncTyped, writePlaneConfig, FillConfig
<1>2. /\ gused'.faults >= gused.faults /\ gsync[s].body \in Bodies
      /\ gsync[s].body # Torn /\ gsync[s].at # "idle"
  BY <1>1, BodiesDiffer DEF SyncUses, SyncRuns, writePlaneConfig, FillConfig
<1>3. CASE writePlaneConfig(s) /\ gfile = gsync[s].body
  <2> DEFINE r == [gsync[s] EXCEPT !.at = "decide"]
  <2>1. Run(s, r) /\ gsync[s].at = "write" /\ gfile' = gfile
    BY <1>3 DEF writePlaneConfig
  <2>2. r \in SyncRuns /\ r.at = "decide" /\ r.changed = gsync[s].changed /\ r.body = gsync[s].body
    BY <1>1, SyncValues DEF SyncRuns
  <2> HIDE DEF r
  <2> QED
    BY <1>1, <1>2, <1>3, <2>1, <2>2, OneMoves DEF UnderWay
<1>4. CASE writePlaneConfig(s) /\ gfile # gsync[s].body
  <2> DEFINE r == [gsync[s] EXCEPT !.at = "fill"]
  <2>1. Run(s, r) /\ gsync[s].at = "write" /\ gfile' = Torn
    BY <1>4 DEF writePlaneConfig
  <2>2. r \in SyncRuns /\ r.at = "fill" /\ r.changed = gsync[s].changed /\ r.body = gsync[s].body
    BY <1>1, SyncValues DEF SyncRuns
  <2> HIDE DEF r
  <2>3. ASSUME UnderWay(gsync[s], gused.faults, gfile, gmark, gplane)
        PROVE  UnderWay(r, gused'.faults, gfile', gmark', gplane')
    <3>1. r.changed /\ (gused.faults = 0 => gmark \in {NoMark, gfile})
      BY <1>4, <2>1, <2>2, <2>3 DEF UnderWay, Vouched
    <3>2. gused.faults = 0 => gmark # r.body
      BY <1>2, <1>4, <2>2, <3>1, BodiesDiffer
    <3> QED
      BY <1>1, <2>1, <2>2, <3>1, <3>2 DEF UnderWay
  <2> QED
    BY <1>1, <1>2, <2>1, <2>2, <2>3, OneMoves
<1>5. CASE FillConfig(s)
  <2> DEFINE r == [gsync[s] EXCEPT !.at = "decide"]
  <2>1. Run(s, r) /\ gsync[s].at = "fill" /\ gfile' = gsync[s].body
    BY <1>5 DEF FillConfig
  <2>2. r \in SyncRuns /\ r.at = "decide" /\ r.changed = gsync[s].changed /\ r.body = gsync[s].body
    BY <1>1, SyncValues DEF SyncRuns
  <2> HIDE DEF r
  <2> QED
    BY <1>1, <1>2, <2>1, <2>2, OneMoves DEF UnderWay
<1> QED
  BY <1>3, <1>4, <1>5

(* Left alone, restarted, or a restart that fails; the marker; a death.    *)
LEMMA EndsStep ==
  ASSUME SyncInv, NEW s \in Syncers,
         SkipRestart(s) \/ RestartFails(s) \/ MarkApplied(s) \/ SyncDies(s)
  PROVE  SyncInv'
<1>1. /\ gsync[s] \in SyncRuns /\ gconf \in Confs /\ gready \subseteq Deployments
      /\ gfile \in Bodies \cup {Torn} /\ gused \in SyncUses
      /\ UNCHANGED <<gconf, gready, gfile, gplane>> /\ Run(s, NoSync) /\ gsync[s].at # "idle"
  BY DEF SyncInv, SyncTyped, SkipRestart, RestartFails, MarkApplied, SyncDies
<1>2. /\ gsync[s].body \in Bodies /\ gsync[s].body # Torn /\ gused.faults \in Nat
      /\ NoSync \in SyncRuns /\ NoSync.at = "idle"
  BY <1>1, BodiesDiffer, SyncValues DEF SyncRuns, SyncUses
<1>3. gused' = gused \/ gused' = [gused EXCEPT !.faults = @ + 1]
  BY DEF SkipRestart, RestartFails, MarkApplied, SyncDies, Use
<1>4. /\ gused' \in SyncUses /\ gused'.faults >= gused.faults /\ gused'.overlap = gused.overlap
      /\ gused' = gused \/ gused'.faults = gused.faults + 1
  BY <1>1, <1>2, <1>3 DEF SyncUses
<1>5. ASSUME gused'.faults <= 1, UnderWay(gsync[s], gused.faults, gfile, gmark, gplane)
      PROVE  Vouched(gused'.faults, gfile', gmark', gplane')
  <2>1. CASE SkipRestart(s)
    BY <1>1, <1>5, <2>1 DEF SkipRestart, NeedsRestart, UnderWay
  <2>2. CASE RestartFails(s) \/ SyncDies(s)
    <3>1. /\ gused'.faults = gused.faults + 1 /\ gmark' = gmark
      BY <1>1, <1>2, <1>3, <2>2 DEF RestartFails, SyncDies, Use, SyncUses
    <3>2. gused.faults = 0 /\ gused'.faults = 1
      BY <1>2, <1>5, <3>1
    <3>3. gfile = gmark /\ gfile # Torn => gplane = gfile
      BY <1>1, <1>5, <3>2 DEF UnderWay, Vouched, SyncRuns, SyncSteps
    <3> QED
      BY <1>1, <3>1, <3>2, <3>3 DEF Vouched
  <2>3. CASE MarkApplied(s)
    BY <1>1, <1>5, <2>3 DEF MarkApplied, UnderWay, Vouched
  <2> QED
    BY <2>1, <2>2, <2>3
<1> QED
  BY <1>1, <1>2, <1>4, <1>5, OneMoves

(* The restart: the plane runs with the file.                              *)
LEMMA RestartPlaneStep ==
  ASSUME SyncInv, NEW s \in Syncers, Restart(s)
  PROVE  SyncInv'
<1> DEFINE r == [gsync[s] EXCEPT !.at = "mark"]
<1>1. /\ gsync[s] \in SyncRuns /\ gconf \in Confs /\ gready \subseteq Deployments
      /\ gfile \in Bodies \cup {Torn} /\ gused \in SyncUses
      /\ UNCHANGED <<gconf, gready, gfile, gmark, gused>> /\ gplane' = gfile
      /\ Run(s, r) /\ gsync[s].at = "decide"
  BY DEF SyncInv, SyncTyped, Restart
<1>2. r \in SyncRuns /\ r.at = "mark" /\ r.body = gsync[s].body
  BY <1>1, SyncValues DEF SyncRuns
<1>3. gused'.faults >= gused.faults
  BY <1>1 DEF SyncUses
<1> HIDE DEF r
<1> QED
  BY <1>1, <1>2, <1>3, OneMoves DEF UnderWay

(* The unit, the boot, and the configuration and states that move on.      *)
LEMMA WorldStep ==
  ASSUME SyncInv,
         \/ PlaneComesUp \/ Reboot
         \/ \E d \in Deployments : ReadyMoves(d) \/ \E p \in Placements : ConfigMoves(d, p)
  PROVE  SyncInv'
<1>1. /\ gconf \in Confs /\ gready \subseteq Deployments /\ gused \in SyncUses
      /\ gfile \in Bodies \cup {Torn} /\ gsync \in [Syncers -> SyncRuns] /\ gused.faults \in Nat
  BY DEF SyncInv, SyncTyped, SyncUses
<1>2. CASE PlaneComesUp
  <2>1. /\ gplane = Torn /\ gfile # Torn /\ gplane' = gfile
        /\ UNCHANGED <<gconf, gready, gfile, gmark, gsync, gused>>
    BY <1>2 DEF PlaneComesUp
  <2>2. Vouched(gused.faults, gfile, gmark, gplane) => Vouched(gused.faults, gfile, gmark, gfile)
    BY <2>1 DEF Vouched
  <2>3. \A s \in Syncers : UnderWay(gsync[s], gused.faults, gfile, gmark, gplane)
           => UnderWay(gsync[s], gused.faults, gfile, gmark, gfile)
    BY <2>1, <2>2 DEF UnderWay
  <2> QED
    BY <2>1, <2>2, <2>3 DEF SyncInv, SyncTyped, AloneInv
<1>3. CASE Reboot
  <2>1. /\ gsync' \in [Syncers -> SyncRuns] /\ \A s \in Syncers : gsync'[s].at = "idle"
        /\ gmark' = NoMark /\ gplane' = gfile /\ UNCHANGED <<gconf, gready, gfile>>
    BY <1>3, SyncValues DEF Reboot
  <2>2. gused' \in SyncUses /\ gused'.faults = gused.faults
    BY <1>1, <1>3 DEF Reboot, Use, SyncUses
  <2> QED
    BY <1>1, <2>1, <2>2 DEF SyncInv, SyncTyped, AloneInv, Vouched
<1>4. ASSUME NEW d \in Deployments, ReadyMoves(d) \/ \E p \in Placements : ConfigMoves(d, p)
      PROVE  SyncInv'
  <2>1. UNCHANGED <<gfile, gmark, gplane, gsync>>
    BY <1>4 DEF ReadyMoves, ConfigMoves
  <2>2. /\ gused' \in SyncUses /\ gused'.faults = gused.faults /\ gused'.overlap = gused.overlap
    BY <1>1, <1>4 DEF ReadyMoves, ConfigMoves, Use, SyncUses
  <2>3. gconf' \in Confs /\ gready' \subseteq Deployments
    BY <1>1, <1>4 DEF ReadyMoves, ConfigMoves, Confs
  <2> QED
    BY <1>1, <2>1, <2>2, <2>3 DEF SyncInv, SyncTyped, AloneInv
<1> QED
  BY <1>2, <1>3, <1>4

(* Every step keeps it.                                                    *)
LEMMA SyncStays == SyncInv /\ [SyncNext]_syncVars => SyncInv'
<1> SUFFICES ASSUME SyncInv, [SyncNext]_syncVars PROVE SyncInv'
  OBVIOUS
<1>1. CASE UNCHANGED syncVars
  BY <1>1 DEF syncVars, SyncInv, SyncTyped, AloneInv
<1>2. ASSUME NEW s \in Syncers, SyncStep(s) \/ RestartFails(s) \/ SyncDies(s)
      PROVE  SyncInv'
  BY <1>2, ReadsStep, WritesStep, EndsStep, RestartPlaneStep DEF SyncStep
<1> QED
  BY <1>1, <1>2, WorldStep DEF SyncNext

(* A sync that ends without a fault leaves the plane with its file.        *)
LEMMA EndServes ==
  ASSUME SyncInv, SyncNext, NEW s \in Syncers,
         gsync[s].at \in {"decide", "mark"}, gsync'[s].at = "idle", gused' = gused,
         ~gused.overlap, gused.faults = 0, gsync[s].body = gfile
  PROVE  gplane' = gfile
<1>1. /\ gused \in SyncUses /\ gsync \in [Syncers -> SyncRuns]
      /\ gused.faults + 1 # gused.faults /\ gused.reboots + 1 # gused.reboots
      /\ gused.faults <= 1
  BY DEF SyncInv, SyncTyped, SyncUses
<1>2. UnderWay(gsync[s], gused.faults, gfile, gmark, gplane)
  BY <1>1, AloneIs
<1>3. ~Reboot /\ \A t \in Syncers : ~RestartFails(t) /\ ~SyncDies(t)
  BY <1>1 DEF Reboot, RestartFails, SyncDies, Use, SyncUses
<1>4. gsync' # gsync
  OBVIOUS
<1>5. PICK t \in Syncers : SyncStep(t)
  BY <1>3, <1>4 DEF SyncNext, PlaneComesUp, ReadyMoves, ConfigMoves
<1>6. PICK r : gsync' = [gsync EXCEPT ![t] = r]
  BY <1>5 DEF SyncStep, ReadSnapshot, readyDeployments, LookAtFile, writePlaneConfig,
              FillConfig, SkipRestart, Restart, MarkApplied, Run
<1>7. t = s
  BY <1>1, <1>6
<1>8. CASE gsync[s].at = "mark"
  <2>1. MarkApplied(s)
    BY <1>5, <1>7, <1>8 DEF SyncStep, ReadSnapshot, readyDeployments, LookAtFile,
       writePlaneConfig, FillConfig, SkipRestart, Restart
  <2> QED
    BY <1>2, <1>8, <2>1 DEF MarkApplied, UnderWay
<1>9. CASE gsync[s].at = "decide"
  <2>1. SkipRestart(s) \/ Restart(s)
    BY <1>5, <1>7, <1>9 DEF SyncStep, ReadSnapshot, readyDeployments, LookAtFile,
       writePlaneConfig, FillConfig, MarkApplied
  <2> QED
    BY <1>2, <1>9, <2>1 DEF SkipRestart, Restart, NeedsRestart, UnderWay, Vouched
<1> QED
  BY <1>8, <1>9

(* SyncInv is an invariant.                                                *)
LEMMA SyncInvAlways == SyncSpec => []SyncInv
BY SyncStart, SyncStays, PTL DEF SyncSpec

(* However many syncs there are: where none overlapped and none failed, a  *)
(* sync that ends with its configuration still the current one leaves the  *)
(* plane running with exactly the ready members, restarted or left alone   *)
(* on the word of the marker (gatewaySync, writePlaneConfig).              *)
THEOREM AloneSyncIsRight == SyncSpec => AloneSyncServes
<1> DEFINE A == \A s \in Syncers :
       (/\ gsync[s].at \in {"decide", "mark"} /\ gsync'[s].at = "idle"
        /\ gused' = gused
        /\ ~gused.overlap /\ gused.faults = 0
        /\ gsync[s].body = gfile
        /\ gsync[s].body = Body(routeModels(gconf, gready)))
       => gplane' = Body({d \in gready : gconf[d] = "served"})
<1>1. SyncInv /\ [SyncNext]_syncVars => [A]_syncVars
  <2> SUFFICES ASSUME SyncInv, SyncNext, NEW s \in Syncers,
                      gsync[s].at \in {"decide", "mark"}, gsync'[s].at = "idle", gused' = gused,
                      ~gused.overlap, gused.faults = 0, gsync[s].body = gfile,
                      gsync[s].body = Body(routeModels(gconf, gready))
               PROVE  gplane' = Body({d \in gready : gconf[d] = "served"})
    OBVIOUS
  <2>1. gplane' = Body(routeModels(gconf, gready))
    BY EndServes
  <2>2. routeModels(gconf, gready) = {d \in gready : gconf[d] = "served"}
    BY DEF routeModels, SyncInv, SyncTyped
  <2> QED
    BY <2>1, <2>2
<1> QED
  BY <1>1, SyncInvAlways, PTL DEF SyncSpec, AloneSyncServes

(* When at most one thing failed and no two syncs overlapped, a file the   *)
(* marker vouches for is what the plane runs with.                         *)
THEOREM MarkerIsHonestAlone ==
  SyncSpec => [](gused.faults <= 1 /\ ~gused.overlap => MarkerHonest)
<1>1. SyncInv => (gused.faults <= 1 /\ ~gused.overlap => MarkerHonest)
  BY DEF SyncInv, AloneInv, Vouched, MarkerHonest
<1> QED
  BY <1>1, SyncInvAlways, PTL

-----------------------------------------------------------------------------
(* Two syncs that overlap, while nothing fails.                            *)

NotYet(r) == r.at \in {"idle", "ready", "look"}

(* A sync that found the file right, and so may restart nothing.           *)
FoundRight(r, b) == r.at \in {"write", "fill", "decide"} /\ ~r.changed /\ r.body = b
WritesAgain(r, b) == r.at \in {"write", "fill"} /\ ~r.changed /\ r.body = b

(* What one sync, beside another, may not have left for the end.  First,   *)
(* that both end without a restart, the marker vouching for the file that  *)
(* is there or is written again.  Then, that the marker is about to vouch  *)
(* for it.  Last, that one restarts the plane with a file which the other  *)
(* then overwrites, trusting the marker.                                   *)
HalfHonest(file, mark, plane, r, o) ==
  \A b \in Bodies :
    /\ (/\ mark = b /\ (NotYet(r) \/ FoundRight(r, b)) /\ (NotYet(o) \/ FoundRight(o, b))
        /\ file = b \/ WritesAgain(r, b) \/ WritesAgain(o, b)) => plane = b
    /\ (/\ r.at = "mark" /\ r.body = b
        /\ \/ WritesAgain(o, b)
           \/ /\ file = b
              /\ NotYet(o) \/ o.at = "mark" \/ FoundRight(o, b)
                 \/ (o.at = "decide" /\ ~o.changed /\ mark = o.body)) => plane = b
    /\ ~(/\ r.at = "decide" /\ r.body = b /\ (r.changed \/ mark # b)
         /\ WritesAgain(o, b) /\ file # b)

Honest(file, mark, plane, r, o) ==
  HalfHonest(file, mark, plane, r, o) /\ HalfHonest(file, mark, plane, o, r)

AtMostTwo == \A s, t, u \in Syncers : s = t \/ t = u \/ s = u

TwoInv ==
  /\ gused.faults = 0 =>
       \A s, t \in Syncers : s # t => Honest(gfile, gmark, gplane, gsync[s], gsync[t])
  /\ (\A s, t \in Syncers : s = t) => ~gused.overlap

(* What a step may do to one of them beside another.                       *)
LEMMA HonestSteps ==
  ASSUME NEW file \in Bodies \cup {Torn}, NEW mark, NEW plane, NEW r \in SyncRuns, NEW o \in SyncRuns,
         Honest(file, mark, plane, r, o), NEW q \in SyncRuns
  PROVE  /\ NotYet(r) /\ NotYet(q) => Honest(file, mark, plane, q, o)
         /\ NotYet(r) /\ q.at = "write" /\ q.changed = (file # q.body)
              => Honest(file, mark, plane, q, o)
         /\ (r.at = "write" /\ file = r.body /\ q.at = "decide"
             /\ q.changed = r.changed /\ q.body = r.body) => Honest(file, mark, plane, q, o)
         /\ (r.at = "write" /\ file # r.body /\ q.at = "fill"
             /\ q.changed = r.changed /\ q.body = r.body) => Honest(Torn, mark, plane, q, o)
         /\ (r.at = "fill" /\ q.at = "decide" /\ q.changed = r.changed /\ q.body = r.body)
              => Honest(r.body, mark, plane, q, o)
         /\ (r.at = "decide" /\ ~r.changed /\ mark = r.body /\ q.at = "idle")
              => Honest(file, mark, plane, q, o)
         /\ (r.at = "decide" /\ (r.changed \/ mark # r.body) /\ q.at = "mark" /\ q.body = r.body)
              => Honest(file, mark, file, q, o)
         /\ (r.at = "mark" /\ q.at = "idle") => Honest(file, r.body, plane, q, o)
<1>1. /\ r.body \in Bodies /\ o.body \in Bodies /\ q.body \in Bodies
      /\ r.at \in SyncSteps /\ o.at \in SyncSteps
      /\ r.changed \in BOOLEAN /\ o.changed \in BOOLEAN /\ q.changed \in BOOLEAN
  BY DEF SyncRuns
<1>2. \A b \in Bodies : b # Torn
  BY BodiesDiffer
<1> USE DEF Honest, HalfHonest, NotYet, FoundRight, WritesAgain
<1>3. NotYet(r) /\ NotYet(q) => Honest(file, mark, plane, q, o)
  OBVIOUS
<1>4. ASSUME NotYet(r), q.at = "write", q.changed = (file # q.body)
      PROVE  Honest(file, mark, plane, q, o)
  <2>1. ~q.changed => q.body = file
    BY <1>4
  <2>2. HalfHonest(file, mark, plane, q, o)
    BY <1>1, <1>2, <1>4, <2>1
  <2>3. HalfHonest(file, mark, plane, o, q)
    BY <1>1, <1>2, <1>4, <2>1
  <2> QED BY <2>2, <2>3
<1>5. (r.at = "write" /\ file = r.body /\ q.at = "decide" /\ q.changed = r.changed /\ q.body = r.body)
        => Honest(file, mark, plane, q, o)
  BY <1>1, <1>2
<1>6. (r.at = "write" /\ file # r.body /\ q.at = "fill" /\ q.changed = r.changed /\ q.body = r.body)
        => Honest(Torn, mark, plane, q, o)
  BY <1>1, <1>2
<1>7. ASSUME r.at = "fill", q.at = "decide", q.changed = r.changed, q.body = r.body
      PROVE  Honest(r.body, mark, plane, q, o)
  <2>1. HalfHonest(r.body, mark, plane, q, o)
    BY <1>1, <1>2, <1>7
  <2>2. HalfHonest(r.body, mark, plane, o, q)
    BY <1>1, <1>2, <1>7
  <2> QED BY <2>1, <2>2
<1>8. (r.at = "decide" /\ ~r.changed /\ mark = r.body /\ q.at = "idle")
        => Honest(file, mark, plane, q, o)
  BY <1>1, <1>2
<1>9. ASSUME r.at = "decide", r.changed \/ mark # r.body, q.at = "mark", q.body = r.body
      PROVE  Honest(file, mark, file, q, o)
  <2>1. HalfHonest(file, mark, file, q, o)
    BY <1>1, <1>2, <1>9
  <2>2. HalfHonest(file, mark, file, o, q)
    BY <1>1, <1>2, <1>9
  <2> QED BY <2>1, <2>2
<1>10. (r.at = "mark" /\ q.at = "idle") => Honest(file, r.body, plane, q, o)
  BY <1>1, <1>2
<1> QED BY <1>3, <1>4, <1>5, <1>6, <1>7, <1>8, <1>9, <1>10

(* A plane that comes up, and a host that does.                            *)
LEMMA HonestStarts ==
  ASSUME NEW file \in Bodies \cup {Torn}, NEW mark, NEW plane, NEW r \in SyncRuns, NEW o \in SyncRuns
  PROVE  /\ Honest(file, mark, Torn, r, o) => Honest(file, mark, file, r, o)
         /\ NotYet(r) /\ NotYet(o) => Honest(file, NoMark, plane, r, o)
<1>1. \A b \in Bodies : b # Torn /\ b # NoMark
  BY BodiesDiffer
<1>2. Honest(file, mark, Torn, r, o) => Honest(file, mark, file, r, o)
  BY <1>1 DEF Honest, HalfHonest, NotYet, FoundRight, WritesAgain
<1>3. NotYet(r) /\ NotYet(o) => Honest(file, NoMark, plane, r, o)
  BY <1>1 DEF Honest, HalfHonest, NotYet, FoundRight, WritesAgain
<1> QED BY <1>2, <1>3

LEMMA TwoStart == SyncInit => TwoInv
<1> SUFFICES ASSUME SyncInit PROVE TwoInv
  OBVIOUS
<1>1. \A s \in Syncers : gsync[s] = NoSync
  BY DEF SyncInit
<1>2. gfile \in Bodies \cup {Torn} /\ gmark = NoMark /\ ~gused.overlap
  BY BodiesDiffer DEF SyncInit
<1>3. NoSync \in SyncRuns /\ NotYet(NoSync)
  BY SyncValues DEF NotYet
<1>4. Honest(gfile, gmark, gplane, NoSync, NoSync)
  BY <1>2, <1>3, HonestStarts
<1> QED BY <1>1, <1>2, <1>4 DEF TwoInv

(* Where one of at most two moves, the other is beside it.                 *)
LEMMA OneOfTwoMoves ==
  ASSUME AtMostTwo, SyncTyped, TwoInv, NEW s \in Syncers, NEW q \in SyncRuns, Run(s, q),
         gused'.faults = 0 => gused.faults = 0,
         gused'.overlap => gused.overlap \/ \E t \in Syncers : t # s,
         ASSUME NEW o \in SyncRuns, Honest(gfile, gmark, gplane, gsync[s], o)
         PROVE  Honest(gfile', gmark', gplane', q, o)
  PROVE  TwoInv'
<1>1. /\ gsync'[s] = q /\ \A t \in Syncers \ {s} : gsync'[t] = gsync[t]
      /\ \A t \in Syncers : gsync[t] \in SyncRuns
  BY RunIs DEF SyncTyped
<1>2. ASSUME gused.faults = 0, NEW t \in Syncers, t # s
      PROVE  Honest(gfile', gmark', gplane', gsync'[s], gsync'[t])
  <2>1. Honest(gfile, gmark, gplane, gsync[s], gsync[t])
    BY <1>2 DEF TwoInv
  <2>2. Honest(gfile', gmark', gplane', q, gsync[t])
    BY <1>1, <2>1
  <2> QED BY <1>1, <1>2, <2>2
<1>3. ASSUME gused'.faults = 0, NEW t \in Syncers, NEW u \in Syncers, t # u
      PROVE  Honest(gfile', gmark', gplane', gsync'[t], gsync'[u])
  <2>1. t = s \/ u = s
    BY <1>3 DEF AtMostTwo
  <2>2. CASE t = s
    BY <1>2, <1>3, <2>2
  <2>3. CASE u = s
    BY <1>2, <1>3, <2>3 DEF Honest
  <2> QED BY <2>1, <2>2, <2>3
<1> QED BY <1>3 DEF TwoInv

LEMMA TwoStays ==
  ASSUME AtMostTwo, SyncInv, TwoInv, [SyncNext]_syncVars
  PROVE  TwoInv'
<1>t. /\ SyncTyped /\ gfile \in Bodies \cup {Torn} /\ gused \in SyncUses
      /\ \A s \in Syncers : gsync[s] \in SyncRuns
  BY DEF SyncInv, SyncTyped
<1>1. CASE UNCHANGED <<gfile, gmark, gplane, gsync>> /\ gused'.faults = gused.faults
           /\ gused'.overlap = gused.overlap
  BY <1>1 DEF TwoInv
<1>2. ASSUME NEW s \in Syncers, SyncStep(s) PROVE TwoInv'
  <2> DEFINE x == gsync[s]
  <2>0. x \in SyncRuns /\ x.body \in Bodies /\ gconf \in Confs
    BY <1>t DEF SyncRuns, SyncTyped
  <2>1. CASE ReadSnapshot(s)
    <3> DEFINE q == [x EXCEPT !.at = "ready", !.conf = gconf]
    <3>1. q \in SyncRuns /\ q.at = "ready" /\ Run(s, q) /\ x.at = "idle"
      BY <2>0, <2>1, SyncValues DEF ReadSnapshot, SyncRuns
    <3>2. UNCHANGED <<gfile, gmark, gplane>>
      BY <2>1 DEF ReadSnapshot
    <3>3. /\ gused'.faults = gused.faults
          /\ gused'.overlap => gused.overlap \/ \E t \in Syncers : t # s
      BY <1>t, <2>1 DEF ReadSnapshot, SyncUses
    <3> HIDE DEF q
    <3>4. ASSUME NEW o \in SyncRuns, Honest(gfile, gmark, gplane, x, o)
          PROVE  Honest(gfile', gmark', gplane', q, o)
      BY <1>t, <2>0, <3>1, <3>2, <3>4, HonestSteps DEF NotYet
    <3> QED BY <1>t, <3>1, <3>3, <3>4, OneOfTwoMoves
  <2>2. CASE readyDeployments(s)
    <3> DEFINE b == Body(routeModels(x.conf, gready))
               q == [x EXCEPT !.at = "look", !.body = b]
    <3>0. b \in Bodies
      BY BodiesDiffer DEF routeModels
    <3>1. q \in SyncRuns /\ q.at = "look" /\ Run(s, q) /\ x.at = "ready"
      <4>1. Run(s, q) /\ x.at = "ready"
        BY <2>2 DEF readyDeployments
      <4> HIDE DEF b
      <4> QED BY <2>0, <3>0, <4>1, SyncValues DEF SyncRuns
    <3>2. UNCHANGED <<gfile, gmark, gplane, gused>>
      BY <2>2 DEF readyDeployments
    <3> HIDE DEF q
    <3>4. ASSUME NEW o \in SyncRuns, Honest(gfile, gmark, gplane, x, o)
          PROVE  Honest(gfile', gmark', gplane', q, o)
      BY <1>t, <2>0, <3>1, <3>2, <3>4, HonestSteps DEF NotYet
    <3> QED BY <1>t, <3>1, <3>2, <3>4, OneOfTwoMoves
  <2>3. CASE LookAtFile(s)
    <3> DEFINE c == gfile # x.body
               q == [x EXCEPT !.at = "write", !.changed = c]
    <3>0. c \in BOOLEAN
      OBVIOUS
    <3>1. q \in SyncRuns /\ q.at = "write" /\ q.changed = c /\ q.body = x.body /\ Run(s, q) /\ x.at = "look"
      <4>1. Run(s, q) /\ x.at = "look"
        BY <2>3 DEF LookAtFile
      <4> HIDE DEF c
      <4> QED BY <2>0, <3>0, <4>1, SyncValues DEF SyncRuns
    <3>2. UNCHANGED <<gfile, gmark, gplane, gused>> /\ q.changed = (gfile # q.body)
      BY <2>3, <3>1 DEF LookAtFile
    <3> HIDE DEF q
    <3>4. ASSUME NEW o \in SyncRuns, Honest(gfile, gmark, gplane, x, o)
          PROVE  Honest(gfile', gmark', gplane', q, o)
      BY <1>t, <2>0, <3>1, <3>2, <3>4, HonestSteps DEF NotYet
    <3> QED BY <1>t, <3>1, <3>2, <3>4, OneOfTwoMoves
  <2>4. CASE writePlaneConfig(s)
    <3> DEFINE step == IF gfile = x.body THEN "decide" ELSE "fill"
               q == [x EXCEPT !.at = step]
    <3>0. step \in SyncSteps
      BY SyncValues
    <3>1. /\ q \in SyncRuns /\ q.at = step /\ q.changed = x.changed /\ q.body = x.body
          /\ Run(s, q) /\ x.at = "write"
      <4>1. Run(s, q) /\ x.at = "write"
        BY <2>4 DEF writePlaneConfig
      <4> HIDE DEF step
      <4> QED BY <2>0, <3>0, <4>1 DEF SyncRuns
    <3>2. UNCHANGED <<gmark, gplane, gused>> /\ gfile' = IF gfile = x.body THEN gfile ELSE Torn
      BY <2>4 DEF writePlaneConfig
    <3> HIDE DEF q
    <3>4. ASSUME NEW o \in SyncRuns, Honest(gfile, gmark, gplane, x, o)
          PROVE  Honest(gfile', gmark', gplane', q, o)
      BY <1>t, <2>0, <3>1, <3>2, <3>4, HonestSteps
    <3> QED BY <1>t, <3>1, <3>2, <3>4, OneOfTwoMoves
  <2>5. CASE FillConfig(s)
    <3> DEFINE q == [x EXCEPT !.at = "decide"]
    <3>1. /\ q \in SyncRuns /\ q.at = "decide" /\ q.changed = x.changed /\ q.body = x.body
          /\ Run(s, q) /\ x.at = "fill"
      BY <2>0, <2>5, SyncValues DEF FillConfig, SyncRuns
    <3>2. UNCHANGED <<gmark, gplane, gused>> /\ gfile' = x.body
      BY <2>5 DEF FillConfig
    <3> HIDE DEF q
    <3>4. ASSUME NEW o \in SyncRuns, Honest(gfile, gmark, gplane, x, o)
          PROVE  Honest(gfile', gmark', gplane', q, o)
      BY <1>t, <2>0, <3>1, <3>2, <3>4, HonestSteps
    <3> QED BY <1>t, <3>1, <3>2, <3>4, OneOfTwoMoves
  <2>6. CASE SkipRestart(s)
    <3>1. Run(s, NoSync) /\ x.at = "decide" /\ ~x.changed /\ gmark = x.body
      BY <2>6 DEF SkipRestart, NeedsRestart
    <3>2. UNCHANGED <<gfile, gmark, gplane, gused>>
      BY <2>6 DEF SkipRestart
    <3>4. ASSUME NEW o \in SyncRuns, Honest(gfile, gmark, gplane, x, o)
          PROVE  Honest(gfile', gmark', gplane', NoSync, o)
      BY <1>t, <2>0, <3>1, <3>2, <3>4, HonestSteps, SyncValues
    <3> QED BY <1>t, <3>1, <3>2, <3>4, OneOfTwoMoves, SyncValues
  <2>7. CASE Restart(s)
    <3> DEFINE q == [x EXCEPT !.at = "mark"]
    <3>1. /\ q \in SyncRuns /\ q.at = "mark" /\ q.body = x.body /\ Run(s, q) /\ x.at = "decide"
          /\ x.changed \/ gmark # x.body
      BY <2>0, <2>7, SyncValues DEF Restart, NeedsRestart, SyncRuns
    <3>2. UNCHANGED <<gfile, gmark, gused>> /\ gplane' = gfile
      BY <2>7 DEF Restart
    <3> HIDE DEF q
    <3>4. ASSUME NEW o \in SyncRuns, Honest(gfile, gmark, gplane, x, o)
          PROVE  Honest(gfile', gmark', gplane', q, o)
      BY <1>t, <2>0, <3>1, <3>2, <3>4, HonestSteps
    <3> QED BY <1>t, <3>1, <3>2, <3>4, OneOfTwoMoves
  <2>8. CASE MarkApplied(s)
    <3>1. Run(s, NoSync) /\ x.at = "mark"
      BY <2>8 DEF MarkApplied
    <3>2. UNCHANGED <<gfile, gplane, gused>> /\ gmark' = x.body
      BY <2>8 DEF MarkApplied
    <3>4. ASSUME NEW o \in SyncRuns, Honest(gfile, gmark, gplane, x, o)
          PROVE  Honest(gfile', gmark', gplane', NoSync, o)
      BY <1>t, <2>0, <3>1, <3>2, <3>4, HonestSteps, SyncValues
    <3> QED BY <1>t, <3>1, <3>2, <3>4, OneOfTwoMoves, SyncValues
  <2> QED BY <1>2, <2>1, <2>2, <2>3, <2>4, <2>5, <2>6, <2>7, <2>8 DEF SyncStep
<1>3. ASSUME NEW s \in Syncers, RestartFails(s) \/ SyncDies(s) PROVE TwoInv'
  <2>1. gused'.faults # 0 /\ gused'.overlap = gused.overlap
    <3>1. gused' = [gused EXCEPT !.faults = @ + 1] /\ gused.faults \in Nat
      BY <1>t, <1>3 DEF RestartFails, SyncDies, Use, SyncUses
    <3>2. gused.faults + 1 # 0
      BY <3>1
    <3> QED BY <1>t, <3>1, <3>2 DEF SyncUses
  <2> QED BY <2>1 DEF TwoInv
<1>4. CASE PlaneComesUp
  <2>1. gplane = Torn /\ gplane' = gfile /\ UNCHANGED <<gfile, gmark, gsync, gused>>
    BY <1>4 DEF PlaneComesUp
  <2> QED BY <1>t, <2>1, HonestStarts DEF TwoInv
<1>5. CASE Reboot
  <2>1. /\ gfile' = gfile /\ gmark' = NoMark /\ \A s \in Syncers : gsync'[s] = NoSync
        /\ gused'.overlap = gused.overlap
    BY <1>t, <1>5 DEF Reboot, Use, SyncUses
  <2>2. Honest(gfile, NoMark, gplane', NoSync, NoSync)
    BY <1>t, SyncValues, HonestStarts DEF NotYet
  <2> QED BY <2>1, <2>2 DEF TwoInv
<1>6. ASSUME NEW d \in Deployments, ReadyMoves(d) \/ \E p \in Placements : ConfigMoves(d, p)
      PROVE  TwoInv'
  <2>1. UNCHANGED <<gfile, gmark, gplane, gsync>>
    BY <1>6 DEF ReadyMoves, ConfigMoves
  <2>2. gused'.faults = gused.faults /\ gused'.overlap = gused.overlap
    BY <1>t, <1>6 DEF ReadyMoves, ConfigMoves, Use, SyncUses
  <2> QED BY <1>1, <2>1, <2>2
<1>7. CASE UNCHANGED syncVars
  BY <1>1, <1>7 DEF syncVars
<1> QED BY <1>2, <1>3, <1>4, <1>5, <1>6, <1>7 DEF SyncNext

(* Where at most two syncs overlap, however they interleave, with whatever *)
(* moves and reboots between their steps: none is left behind that trusts  *)
(* the marker of a file the plane was not started with (gatewaySync reads  *)
(* the marker after writePlaneConfig, and writes it after the restart).    *)
THEOREM SyncIsRightForTwo ==
  ASSUME AtMostTwo
  PROVE  SyncSpec => SyncIsRight
<1>1. SyncInv /\ TwoInv => MarkerHonest
  <2> SUFFICES ASSUME SyncInv, TwoInv, \A s \in Syncers : gsync[s].at = "idle",
                      gfile = gmark, gfile # Torn, gused.faults = 0 \/ (gused.faults = 1 /\ ~gused.overlap)
               PROVE  gplane = gfile
    BY DEF MarkerHonest
  <2>1. CASE gused.faults <= 1 /\ ~gused.overlap
    BY <2>1 DEF SyncInv, AloneInv, Vouched
  <2>2. CASE gused.faults = 0 /\ gused.overlap
    <3>1. PICK s \in Syncers, t \in Syncers : s # t
      BY <2>2 DEF TwoInv
    <3>2. HalfHonest(gfile, gmark, gplane, gsync[s], gsync[t])
      BY <2>2, <3>1 DEF TwoInv, Honest
    <3>3. gfile \in Bodies /\ NotYet(gsync[s]) /\ NotYet(gsync[t])
      BY DEF SyncInv, SyncTyped, NotYet
    <3> QED BY <3>2, <3>3 DEF HalfHonest
  <2> QED BY <2>1, <2>2
<1>2. SyncInv /\ TwoInv /\ [SyncNext]_syncVars => TwoInv'
  BY TwoStays
<1>3. SyncSpec => []TwoInv
  BY <1>2, TwoStart, SyncInvAlways, PTL DEF SyncSpec
<1> QED BY <1>1, <1>3, SyncInvAlways, AloneSyncIsRight, PTL DEF SyncIsRight
=============================================================================
