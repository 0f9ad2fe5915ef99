----------------------- MODULE BackfillExecution_proofs -----------------------
(***************************************************************************)
(* The theorems of BackfillExecution, for any target and unit size, any    *)
(* finite number of invocations and any set of faults.                     *)
(***************************************************************************)
EXTENDS BackfillExecution, FiniteSetTheorems, TLAPS

Early == {"idle", "inspected", "rows_read", "snapshot", "authorized"}
AtUnit == {"ingesting", "landed", "validated"}
Final == {"finishing", "progress_checked", "rows_checked", "succeeded"}
Running == {"next"} \cup AtUnit \cup Final

\* How many of the selected units come before v.
Rank(i, v) == Cardinality({w \in Selected(i) : w < v})

Begun == {r \in Runs : status[r] # "none"}
Own(i) == {r \in {i} \X Units : status[r] # "none"}

\* A run asks for the window of its unit, the other call for one of its own.
RequestsFit ==
  /\ \A i \in Invocations, u \in Units :
       status[<<i, u>>] # "none" => request[<<i, u>>] = UnitRequest(u)
  /\ status[Recent] # "none" => request[Recent] \in RecentRequests

\* An invocation's counters and the audit rows of its own calls.
InStep(i) ==
  /\ pc[i] \in Early => done[i] = 0 /\ Own(i) = {}
  /\ pc[i] \in Running \cup (Early \ {"idle"}) => limit[i] \in 1..MaxUnits
  /\ pc[i] \in {"next"} \cup AtUnit => done[i] < limit[i]
  /\ pc[i] \in Final => done[i] = limit[i]
  /\ pc[i] \in AtUnit =>
       /\ unit[i] \in Selected(i) /\ Rank(i, unit[i]) = done[i]
       /\ status[RunOf(i)] = IF pc[i] = "ingesting" THEN "running" ELSE "success"
  /\ pc[i] \in Running =>
       /\ \A v \in Selected(i) : Rank(i, v) < done[i] => status[<<i, v>>] = "success"
       /\ Cardinality(Own(i)) = done[i] + IF pc[i] \in AtUnit THEN 1 ELSE 0

\* A run that counts as a success has landed; one that has landed is over.
LandedFits ==
  \A r \in Runs :
    /\ status[r] = "success" => r \in landed
    /\ r \in landed => status[r] \in {"success", "failed"}

IInv == TypeOK /\ RequestsFit /\ LandedFits /\ \A i \in Invocations : InStep(i)

\* What a step leaves of an invocation that did not take it.
Untouched(j) ==
  /\ pc'[j] = pc[j] /\ limit'[j] = limit[j] /\ before'[j] = before[j]
  /\ unit'[j] = unit[j] /\ done'[j] = done[j]
  /\ \A u \in Units : status'[<<j, u>>] = status[<<j, u>>]

\* What a step never takes back in the database.
Grows ==
  /\ \A r \in Runs :
       /\ status[r] # "none" => status'[r] # "none" /\ request'[r] = request[r]
       /\ status[r] = "success" => status'[r] \in {"success", "failed"}
       /\ status[r] = "failed" => status'[r] = "failed"
       /\ status[r] = "none" => status'[r] \in {"none", "running"}
  /\ Stored \subseteq Stored'
  /\ landed \subseteq landed'

-------------------------------------------------------------------------------
(* The plan. *)

LEMMA UnitsFinite == Units \subseteq Nat \ {0} /\ IsFiniteSet(Units)
<1>1. UnitCount \in Int
  BY TargetAssumption, MaxDesiredAssumption DEF UnitCount
<1> QED
  BY <1>1, FS_Interval DEF Units

LEMMA RunsFinite == IsFiniteSet(Runs) /\ Cardinality(Runs) \in Nat
<1>1. IsFiniteSet(Invocations \X Units)
  BY InvocationsAssumption, UnitsFinite, FS_Product
<1>2. IsFiniteSet({Recent})
  BY FS_Singleton
<1> QED
  BY <1>1, <1>2, FS_Union, FS_CardinalityType DEF Runs

\* The other call is no invocation's run.
LEMMA RecentApart == \A i \in Invocations, u \in Units : <<i, u>> # Recent
BY UnitsFinite DEF Recent

\* A unit ends within the target.
LEMMA UnitWithin ==
  ASSUME NEW u \in Units
  PROVE  /\ Plan[u].first \in Nat /\ Plan[u].first = TargetStart + (u - 1) * MaxDesired
         /\ Plan[u].last \in Hours
<1>1. u \in Nat \ {0} /\ MaxDesired \in Nat \ {0} /\ TargetStart \in Nat \ {0} /\ TargetEnd \in Nat
  BY UnitsFinite, TargetAssumption, MaxDesiredAssumption
<1> DEFINE k == (u - 1) * MaxDesired
<1>2. k \in Nat
  <2>1. k \in Int
    BY <1>1
  <2>2. k >= 0
    BY <1>1
  <2> QED
    BY <2>1, <2>2
<1>3. Plan[u].first = TargetStart + k /\ Plan[u].last = Smaller(TargetStart + k + MaxDesired - 1, TargetEnd)
  BY DEF Plan
<1> HIDE DEF k
<1>4. Plan[u].first \in Nat
  BY <1>1, <1>2, <1>3
<1>5. Plan[u].last \in Hours
  BY <1>1, <1>2, <1>3 DEF Smaller, Hours
<1> QED
  BY <1>3, <1>4, <1>5 DEF k

\* What \div leaves, with the product named.
LEMMA Division ==
  ASSUME NEW d \in Nat, NEW m \in Nat \ {0}
  PROVE  /\ d \div m \in Nat
         /\ (d \div m) * m <= d /\ d < (d \div m) * m + m
<1>1. d \div m \in Int /\ d % m \in 0..(m - 1) /\ d = m * (d \div m) + (d % m)
  OBVIOUS
<1> DEFINE q == d \div m
<1>2. q \in Int /\ (q < 0 => q * m <= -m)
  BY <1>1
<1> QED
  BY <1>1, <1>2

LEMMA UnitSpan ==
  ASSUME NEW u \in Units
  PROVE  /\ Plan[u].first <= Plan[u].last
         /\ Plan[u].last = IF u = UnitCount THEN TargetEnd ELSE Plan[u].first + MaxDesired - 1
         /\ Plan[u].last <= Plan[u].first + MaxDesired - 1
<1> DEFINE d == TargetEnd - TargetStart
           k == (u - 1) * MaxDesired
           q == d \div MaxDesired
<1>1. d \in Nat /\ MaxDesired \in Nat \ {0} /\ TargetStart \in Nat /\ TargetEnd \in Nat
  BY TargetAssumption, TargetOrdered, MaxDesiredAssumption
<1>2. q \in Nat /\ q * MaxDesired <= d /\ d < q * MaxDesired + MaxDesired
  BY <1>1, Division
<1>3. u \in Nat \ {0} /\ u <= q + 1 /\ UnitCount = q + 1
  BY <1>2, UnitsFinite DEF Units, UnitCount
<1>4. k \in Nat /\ k <= q * MaxDesired
  <2>1. (u - 1) * MaxDesired <= q * MaxDesired
    BY <1>1, <1>2, <1>3
  <2>2. u - 1 \in Nat
    BY <1>3
  <2>3. (u - 1) * MaxDesired \in Nat
    BY <1>1, <2>2
  <2> QED
    BY <2>1, <2>3
<1>5. u # UnitCount => k + MaxDesired <= q * MaxDesired
  <2> SUFFICES ASSUME u # UnitCount PROVE k + MaxDesired <= q * MaxDesired
    OBVIOUS
  <2>1. u <= q /\ u \in Int
    BY <1>2, <1>3
  <2>2. u * MaxDesired <= q * MaxDesired
    BY <1>1, <1>2, <2>1
  <2>3. k + MaxDesired = u * MaxDesired
    BY <1>1, <2>1
  <2> QED
    BY <2>2, <2>3
<1>6. u = UnitCount => k = q * MaxDesired
  BY <1>2, <1>3
<1>7. /\ Plan[u].first = TargetStart + k
      /\ Plan[u].last = Smaller(TargetStart + k + MaxDesired - 1, TargetEnd)
  BY DEF Plan
<1>8. q * MaxDesired \in Nat
  BY <1>1, <1>2
<1> HIDE DEF k, q
<1> QED
  BY <1>1, <1>2, <1>3, <1>4, <1>5, <1>6, <1>7, <1>8 DEF Smaller

\* The units of the plan cover every hour of the target, no hour twice and none outside
\* it, none is empty or asks for more hours than a request may, and each unit's request
\* begins in the last hour of the unit before it.
\* (plan_hourly_flow_backfill, its loop over coverage_start)
THEOREM UnitsTileTheTarget ==
  /\ \A h \in TargetStart..TargetEnd : \E u \in Units :
       h \in Desired(u) /\ \A v \in Units : h \in Desired(v) => v = u
  /\ \A u \in Units :
       /\ Desired(u) # {} /\ Desired(u) \subseteq TargetStart..TargetEnd
       /\ Plan[u].last - Plan[u].first < MaxDesired
  /\ \A u \in Units \ {1} : UnitRequest(u).first = UnitRequest(u - 1).last
<1> DEFINE d == TargetEnd - TargetStart
           q == d \div MaxDesired
<1>1. d \in Nat /\ MaxDesired \in Nat \ {0} /\ TargetStart \in Nat /\ TargetEnd \in Nat
  BY TargetAssumption, TargetOrdered, MaxDesiredAssumption
<1>2. q \in Nat /\ UnitCount = q + 1 /\ d < q * MaxDesired + MaxDesired
  BY <1>1, Division DEF UnitCount
<1>3. ASSUME NEW h \in TargetStart..TargetEnd, NEW u \in Units, NEW v \in Units,
             h \in Desired(u), h \in Desired(v), u < v
      PROVE  FALSE
  <2>1. /\ Plan[u].first = TargetStart + (u - 1) * MaxDesired
        /\ Plan[v].first = TargetStart + (v - 1) * MaxDesired
        /\ Plan[u].last <= Plan[u].first + MaxDesired - 1
    BY UnitSpan, UnitWithin
  <2>2. u \in Nat /\ v \in Nat /\ Plan[u].last \in Nat
    BY UnitsFinite, UnitWithin DEF Hours
  <2>3. u * MaxDesired <= (v - 1) * MaxDesired
    BY <1>1, <1>3, <2>2
  <2>4. (u - 1) * MaxDesired + MaxDesired = u * MaxDesired
    BY <1>1, <2>2
  <2>5. Plan[v].first <= h /\ h <= Plan[u].last
    BY <1>3 DEF Desired
  <2> DEFINE a == (u - 1) * MaxDesired
             b == u * MaxDesired
             c == (v - 1) * MaxDesired
  <2>6. a \in Int /\ b \in Int /\ c \in Int
    BY <1>1, <2>2
  <2> HIDE DEF a, b, c
  <2>7. Plan[u].last < TargetStart + b /\ TargetStart + b <= Plan[v].first
    BY <1>1, <2>1, <2>2, <2>3, <2>4, <2>6 DEF a, b, c
  <2> QED
    BY <1>1, <2>1, <2>2, <2>5, <2>6, <2>7 DEF c
<1>4. ASSUME NEW h \in TargetStart..TargetEnd
      PROVE  \E u \in Units : h \in Desired(u)
  <2> DEFINE e == h - TargetStart
             p == e \div MaxDesired
             u == p + 1
  <2>1. e \in Nat /\ e <= d /\ h \in Nat
    BY <1>1
  <2>2. p \in Nat /\ p * MaxDesired <= e /\ e < p * MaxDesired + MaxDesired
    BY <1>1, <2>1, Division
  <2>3. p <= q
    <3>1. p * MaxDesired < q * MaxDesired + MaxDesired
      BY <1>1, <1>2, <2>1, <2>2
    <3>2. q * MaxDesired + MaxDesired = (q + 1) * MaxDesired
      BY <1>1, <1>2
    <3>3. p >= q + 1 => p * MaxDesired >= (q + 1) * MaxDesired
      BY <1>1, <1>2, <2>2
    <3>4. p * MaxDesired \in Nat /\ (q + 1) * MaxDesired \in Nat
      BY <1>1, <1>2, <2>2
    <3> QED
      BY <1>1, <1>2, <2>2, <3>1, <3>2, <3>3, <3>4
  <2>4. u \in Units
    BY <1>2, <2>2, <2>3 DEF Units
  <2>5. /\ Plan[u].first = TargetStart + p * MaxDesired
        /\ Plan[u].last = Smaller(TargetStart + p * MaxDesired + MaxDesired - 1, TargetEnd)
    <3>1. u - 1 = p
      BY <2>2
    <3> QED
      BY <2>4, <3>1 DEF Plan
  <2>6. p * MaxDesired \in Nat
    BY <1>1, <2>2
  <2> HIDE DEF p, u
  <2>7. Plan[u].first <= h /\ h <= Plan[u].last /\ Plan[u].first \in Int /\ Plan[u].last \in Int
    BY <1>1, <2>1, <2>2, <2>5, <2>6 DEF Smaller
  <2> QED
    BY <2>1, <2>4, <2>7 DEF Desired
<1>5. ASSUME NEW h \in TargetStart..TargetEnd
      PROVE  \E u \in Units : h \in Desired(u) /\ \A v \in Units : h \in Desired(v) => v = u
  <2>1. PICK u \in Units : h \in Desired(u)
    BY <1>4
  <2>2. ASSUME NEW v \in Units, h \in Desired(v) PROVE v = u
    <3>1. u \in Nat /\ v \in Nat
      BY UnitsFinite
    <3>2. ~(u < v) /\ ~(v < u)
      BY <1>3, <2>1, <2>2
    <3> QED
      BY <3>1, <3>2
  <2> QED
    BY <2>1, <2>2
<1>6. ASSUME NEW u \in Units
      PROVE  /\ Desired(u) # {} /\ Desired(u) \subseteq TargetStart..TargetEnd
             /\ Plan[u].last - Plan[u].first < MaxDesired
  <2>1. Plan[u].first \in Nat /\ Plan[u].last \in Nat /\ Plan[u].last <= TargetEnd
    BY UnitWithin DEF Hours
  <2>2. TargetStart <= Plan[u].first
    <3>1. u - 1 \in Nat
      BY UnitsFinite
    <3>2. (u - 1) * MaxDesired \in Nat
      BY <1>1, <3>1
    <3> QED
      BY <1>1, <3>2, UnitWithin
  <2>3. Plan[u].first \in Desired(u)
    BY <2>1, UnitSpan DEF Desired
  <2> QED
    BY <1>1, <2>1, <2>2, <2>3, UnitSpan DEF Desired
<1>7. ASSUME NEW u \in Units \ {1} PROVE UnitRequest(u).first = UnitRequest(u - 1).last
  <2>1. u - 1 \in Units /\ u - 1 # UnitCount /\ u \in Nat
    BY <1>2, UnitsFinite DEF Units
  <2>2. Plan[u - 1].last = Plan[u - 1].first + MaxDesired - 1
    BY <2>1, UnitSpan
  <2>3. Plan[u - 1].first = TargetStart + (u - 1 - 1) * MaxDesired
    BY <2>1, UnitWithin
  <2>4. Plan[u].first = TargetStart + (u - 1) * MaxDesired
    BY UnitWithin
  <2>5. (u - 1 - 1) * MaxDesired + MaxDesired = (u - 1) * MaxDesired
    BY <1>1, <2>1
  <2>6. (u - 1 - 1) * MaxDesired \in Int /\ (u - 1) * MaxDesired \in Int
    BY <1>1, <2>1
  <2>7. Plan[u].first - 1 = Plan[u - 1].last
    BY <1>1, <2>2, <2>3, <2>4, <2>5, <2>6
  <2> QED
    BY <2>7 DEF UnitRequest
<1> QED
  BY <1>5, <1>6, <1>7

\* Different units ask for different windows.
LEMMA RequestsApart ==
  ASSUME NEW u \in Units, NEW v \in Units, UnitRequest(u) = UnitRequest(v)
  PROVE  u = v
<1>1. u \in Nat /\ v \in Nat /\ MaxDesired \in Nat \ {0} /\ TargetStart \in Nat
  BY UnitsFinite, TargetAssumption, MaxDesiredAssumption
<1>2. UnitRequest(u).first = UnitRequest(v).first
  OBVIOUS
<1>3. Plan[u].first = Plan[v].first
  BY <1>2, UnitWithin DEF UnitRequest
<1>4. (u - 1) * MaxDesired = (v - 1) * MaxDesired
  BY <1>1, <1>3, UnitWithin
<1>5. (u - v) * MaxDesired = 0
  BY <1>1, <1>4
<1> QED
  BY <1>1, <1>5

\* Every window asked for ends at an hour of the table.
LEMMA RequestTyped == \A q \in Requests : q.last \in Hours /\ q.stream = Stream
BY UnitWithin, RecentAssumption DEF Requests, UnitRequest, Stream

-------------------------------------------------------------------------------
(* Counting. *)

LEMMA SelectedUnits ==
  ASSUME NEW i \in Invocations
  PROVE  Selected(i) \subseteq Units /\ IsFiniteSet(Selected(i))
<1>1. Selected(i) \subseteq Units
  BY DEF Selected, FirstOf, Having
<1> QED
  BY <1>1, UnitsFinite, FS_Subset

\* A proper part has fewer elements.
LEMMA FewerInPart ==
  ASSUME NEW T, IsFiniteSet(T), NEW S \in SUBSET T, NEW x \in T, x \notin S
  PROVE  Cardinality(S) \in Nat /\ Cardinality(T) \in Nat /\ Cardinality(S) < Cardinality(T)
BY FS_Subset, FS_CardinalityType

\* Ranks are numbers and grow along the selected units.
LEMMA RanksGrow ==
  ASSUME NEW i \in Invocations, NEW v \in Selected(i), NEW u \in Units, v < u
  PROVE  Rank(i, v) \in Nat /\ Rank(i, u) \in Nat /\ Rank(i, v) < Rank(i, u)
<1> DEFINE below(x) == {w \in Selected(i) : w < x}
<1>0. Selected(i) \subseteq Nat /\ u \in Nat
  BY SelectedUnits, UnitsFinite
<1>1. below(v) \subseteq below(u) /\ v \in below(u) /\ v \notin below(v)
  BY <1>0
<1>2. IsFiniteSet(below(u))
  BY SelectedUnits, FS_Subset
<1> QED
  BY <1>1, <1>2, FewerInPart DEF Rank

LEMMA RankNat ==
  ASSUME NEW i \in Invocations, NEW u
  PROVE  Rank(i, u) \in Nat
<1>1. IsFiniteSet({w \in Selected(i) : w < u})
  BY SelectedUnits, FS_Subset
<1> QED
  BY <1>1, FS_CardinalityType DEF Rank

\* A selected unit has fewer than limit selected units before it.
LEMMA RankBelowLimit ==
  ASSUME TypeOK, NEW i \in Invocations, NEW u \in Selected(i)
  PROVE  Rank(i, u) < limit[i]
<1> DEFINE pending == Having(before[i].progress, "PENDING")
           upto == {v \in pending : v <= u}
           below == {w \in Selected(i) : w < u}
<1>1. pending \subseteq Units /\ u \in pending /\ Cardinality(upto) <= limit[i]
  BY DEF Selected, FirstOf, Having
<1>0. Selected(i) \subseteq Nat /\ Selected(i) \subseteq pending
  BY SelectedUnits, UnitsFinite DEF Selected, FirstOf
<1>2. below \subseteq upto /\ u \in upto /\ u \notin below
  BY <1>0, <1>1
<1>3. IsFiniteSet(upto)
  BY <1>1, UnitsFinite, FS_Subset
<1>4. limit[i] \in Int
  BY DEF TypeOK
<1>5. Cardinality(below) < Cardinality(upto) /\ Cardinality(below) \in Nat /\ Cardinality(upto) \in Nat
  BY <1>2, <1>3, FewerInPart
<1>6. Cardinality(below) < limit[i]
  BY <1>1, <1>4, <1>5
<1> QED
  BY <1>6 DEF Rank

LEMMA OwnFinite ==
  ASSUME NEW i \in Invocations
  PROVE  /\ IsFiniteSet(Own(i)) /\ IsFiniteSet(Begun)
         /\ Cardinality(Own(i)) \in Nat /\ Cardinality(Begun) \in 0..Cardinality(Runs)
         /\ Own(i) \subseteq Begun
<1>1. Own(i) \in SUBSET Runs /\ Begun \in SUBSET Runs /\ Own(i) \subseteq Begun
  BY DEF Own, Begun, Runs
<1> QED
  BY <1>1, RunsFinite, FS_Subset, FS_CardinalityType

-------------------------------------------------------------------------------
(* The database. *)

DbTyped ==
  /\ status \in [Runs -> {"none", "running", "success", "failed"}]
  /\ request \in [Runs -> Requests \cup {Absent}]
  /\ table \in [{Stream} -> [Hours -> [writer: Runs, complete: {TRUE}] \cup {Absent}]]
  /\ checkpoint \in [{Stream} -> Checkpoints]
  /\ landed \subseteq Runs

LEMMA BeginStep ==
  ASSUME TypeOK, LandedFits, NEW r \in Runs, Ingestion!Begin(r), landed' = landed
  PROVE  /\ DbTyped' /\ Grows /\ LandedFits'
         /\ status[r] = "none" /\ status' = [status EXCEPT ![r] = "running"]
         /\ \A x \in Runs \ {r} : request'[x] = request[x]
         /\ table' = table /\ checkpoint' = checkpoint
BY DEF TypeOK, LandedFits, DbTyped, Grows, Ingestion!Begin, Stored

LEMMA LandStep ==
  ASSUME TypeOK, LandedFits, NEW r \in Runs, request[r] \in Requests, CallLands(r)
  PROVE  /\ DbTyped' /\ Grows /\ LandedFits'
         /\ status[r] = "running" /\ status' = [status EXCEPT ![r] = "success"]
         /\ request' = request /\ landed' = landed \cup {r}
<1> DEFINE q == request[r]
<1>0. Ingestion!Land(r) /\ landed' = landed \cup {r}
  BY DEF CallLands
<1>1. /\ status[r] = "running" /\ status' = [status EXCEPT ![r] = "success"]
      /\ request' = request
  BY <1>0 DEF Ingestion!Land
<1>2. q.last \in Hours /\ q.stream = Stream
  BY RequestTyped
<1>3. PICK answered \in SUBSET {h \in Hours : h \in q.first..q.last} :
        table' = [table EXCEPT ![q.stream] = [h \in Hours |->
                   IF h \in answered THEN [writer |-> r, complete |-> TRUE] ELSE @[h]]]
  <2>1. PICK answered \in SUBSET {k \in Hours : [h \in Hours |-> h][k] \in q.first..q.last} :
          table' = [table EXCEPT ![q.stream] = [k \in Hours |->
                     IF k \in answered THEN [writer |-> r, complete |-> TRUE] ELSE @[k]]]
    BY <1>0 DEF Ingestion!Land
  <2>2. answered \in SUBSET {h \in Hours : h \in q.first..q.last}
    OBVIOUS
  <2> QED
    BY <2>1, <2>2
<1>4. /\ table' \in [{Stream} -> [Hours -> [writer: Runs, complete: {TRUE}] \cup {Absent}]]
      /\ Stored \subseteq Stored'
  <2>1. [writer |-> r, complete |-> TRUE] \in [writer: Runs, complete: {TRUE}]
    OBVIOUS
  <2>2. [writer |-> r, complete |-> TRUE] # Absent
    BY <2>1, AbsentAssumption
  <2>3. table'[Stream] = [h \in Hours |->
          IF h \in answered THEN [writer |-> r, complete |-> TRUE] ELSE table[Stream][h]]
    BY <1>2, <1>3 DEF TypeOK
  <2>4. table' \in [{Stream} -> [Hours -> [writer: Runs, complete: {TRUE}] \cup {Absent}]]
    <3>1. table'[Stream] \in [Hours -> [writer: Runs, complete: {TRUE}] \cup {Absent}]
      <4>1. table[Stream] \in [Hours -> [writer: Runs, complete: {TRUE}] \cup {Absent}]
        BY DEF TypeOK
      <4> DEFINE row == [writer |-> r, complete |-> TRUE]
                 Rows == [writer: Runs, complete: {TRUE}]
      <4> HIDE DEF row, Rows
      <4>2. row \in Rows
        BY <2>1 DEF row, Rows
      <4>3. table[Stream] \in [Hours -> Rows \cup {Absent}]
        BY <4>1 DEF Rows
      <4>4. table'[Stream] = [h \in Hours |-> IF h \in answered THEN row ELSE table[Stream][h]]
        BY <2>3 DEF row
      <4>5. table'[Stream] \in [Hours -> Rows \cup {Absent}]
        BY <4>2, <4>3, <4>4
      <4> QED
        BY <4>5 DEF Rows
    <3>2. table' = [s \in {Stream} |-> table'[Stream]]
      BY <1>2, <1>3 DEF TypeOK
    <3> QED
      BY <3>1, <3>2
  <2> QED
    BY <2>2, <2>3, <2>4 DEF Stored
<1>5. checkpoint' \in [{Stream} -> Checkpoints]
  <2>1. [timestamp |-> q.last, run |-> r] \in Checkpoints
    BY <1>2 DEF Checkpoints
  <2>2. checkpoint' = checkpoint
        \/ checkpoint' = [checkpoint EXCEPT ![Stream] = [timestamp |-> q.last, run |-> r]]
    BY <1>0, <1>2 DEF Ingestion!Land
  <2> QED
    BY <2>1, <2>2 DEF TypeOK
<1>6. Grows
  BY <1>0, <1>1, <1>4 DEF TypeOK, Grows
<1>7. landed' \subseteq Runs /\ LandedFits'
  BY <1>0, <1>1 DEF TypeOK, LandedFits
<1> QED
  BY <1>0, <1>1, <1>4, <1>5, <1>6, <1>7 DEF TypeOK, DbTyped

LEMMA FailStep ==
  ASSUME TypeOK, LandedFits, NEW r \in Runs, CallFails(r)
  PROVE  /\ DbTyped' /\ Grows /\ LandedFits'
         /\ status[r] # "none" /\ status' = [status EXCEPT ![r] = "failed"]
         /\ request' = request /\ landed' = landed
BY DEF TypeOK, LandedFits, DbTyped, Grows, CallFails, Ingestion!Fail, Stored

LEMMA NoStep ==
  ASSUME TypeOK, LandedFits, UNCHANGED db
  PROVE  DbTyped' /\ Grows /\ LandedFits'
BY DEF TypeOK, LandedFits, DbTyped, Grows, Stored, db

\* A run that has begun has asked for something.
LEMMA HasRequest ==
  ASSUME RequestsFit, NEW r \in Runs, status[r] # "none"
  PROVE  request[r] \in Requests
<1>1. CASE r = Recent
  BY <1>1 DEF RequestsFit, Requests
<1>2. CASE r # Recent
  <2>1. PICK i \in Invocations, u \in Units : r = <<i, u>>
    BY <1>2 DEF Runs
  <2> QED
    BY <2>1 DEF RequestsFit, Requests
<1> QED
  BY <1>1, <1>2

-------------------------------------------------------------------------------
(* One invocation takes a step; the others stay as they are. *)

LEMMA SameSelection ==
  ASSUME NEW i \in Invocations, limit'[i] = limit[i], before'[i] = before[i]
  PROVE  Selected(i)' = Selected(i) /\ \A v : Rank(i, v)' = Rank(i, v)
BY DEF Selected, Rank

LEMMA UntouchedKept ==
  ASSUME NEW j \in Invocations, Untouched(j), InStep(j)
  PROVE  InStep(j)'
<1>1. Selected(j)' = Selected(j) /\ \A v : Rank(j, v)' = Rank(j, v)
  BY SameSelection DEF Untouched
<1>2. Own(j)' = Own(j)
  BY DEF Untouched, Own
<1>3. RunOf(j)' = RunOf(j) /\ (unit[j] \in Units => status'[RunOf(j)] = status[RunOf(j)])
  BY DEF Untouched, RunOf
<1>4. \A v \in Selected(j) : v \in Units /\ status'[<<j, v>>] = status[<<j, v>>]
  BY SelectedUnits DEF Untouched
<1> QED
  BY <1>1, <1>2, <1>3, <1>4 DEF InStep, Untouched

LEMMA OthersUntouched ==
  ASSUME TypeOK, NEW i \in Invocations, NEW j \in Invocations, i # j,
         InspectProgress(i) \/ MainStep(i) \/ Crash(i)
  PROVE  Untouched(j)
<1>1. ASSUME NEW from, NEW to, Proceed(i, from, to)
      PROVE  pc'[j] = pc[j] /\ limit'[j] = limit[j] /\ before'[j] = before[j] /\ done'[j] = done[j]
  BY <1>1 DEF TypeOK, Proceed, Goto
<1>2. CASE InspectProgress(i)
  BY <1>2 DEF InspectProgress, TypeOK, Untouched, Goto, db
<1>3. CASE ReadRows(i)
  BY <1>3 DEF ReadRows, TypeOK, Untouched, Goto, db
<1>4. CASE ReadAudits(i)
  BY <1>4 DEF ReadAudits, TypeOK, Untouched, Goto, db
<1>5. CASE Refuse(i) \/ Authorize(i) \/ Reinspect(i) \/ ValidateUnit(i) \/ CheckFinalProgress(i)
           \/ CheckFinalRows(i) \/ CheckFinalAudits(i) \/ Crash(i)
  <2>1. UNCHANGED <<db, unit>> /\ \E from, to : Proceed(i, from, to)
    BY <1>5 DEF Refuse, Authorize, Reinspect, ValidateUnit, CheckFinalProgress, CheckFinalRows,
                CheckFinalAudits, Crash
  <2> QED
    BY <1>1, <2>1 DEF Untouched, db
<1>6. CASE StartUnit(i)
  <2>1. PICK u \in Units : unit' = [unit EXCEPT ![i] = u] /\ Ingestion!Begin(<<i, u>>)
    BY <1>6, SelectedUnits DEF StartUnit
  <2>2. status' = [status EXCEPT ![<<i, u>>] = "running"]
    BY <2>1 DEF Ingestion!Begin
  <2>3. \A v \in Units : status'[<<j, v>>] = status[<<j, v>>]
    BY <2>2 DEF TypeOK, Runs
  <2> QED
    BY <1>1, <1>6, <2>1, <2>3 DEF StartUnit, Untouched, TypeOK
<1>7. CASE UnitLands(i)
  <2>1. status' = [status EXCEPT ![RunOf(i)] = "success"]
    BY <1>7 DEF UnitLands, CallLands, Ingestion!Land
  <2>2. \A v \in Units : status'[<<j, v>>] = status[<<j, v>>]
    BY <2>1 DEF TypeOK, Runs, RunOf
  <2> QED
    BY <1>1, <1>7, <2>2 DEF UnitLands, Untouched
<1>8. CASE UnitFails(i) \/ UnitInterrupted(i)
  <2>1. status' = [status EXCEPT ![RunOf(i)] = "failed"] \/ status' = status
    BY <1>8 DEF UnitFails, UnitInterrupted, CallFails, Ingestion!Fail, db
  <2>2. \A v \in Units : status'[<<j, v>>] = status[<<j, v>>]
    BY <2>1 DEF TypeOK, Runs, RunOf
  <2> QED
    BY <1>1, <1>8, <2>2 DEF UnitFails, UnitInterrupted, Untouched
<1>9. CASE CheckProgress(i)
  <2>1. UNCHANGED <<db, unit>>
    BY <1>9 DEF CheckProgress
  <2>2. CASE \E from, to : Proceed(i, from, to)
    BY <1>1, <2>1, <2>2 DEF Untouched, db
  <2>3. CASE /\ \E from, to : Goto(i, from, to)
             /\ CountDone(i) /\ UNCHANGED <<limit, before>>
    BY <2>1, <2>3 DEF Untouched, db, Goto, CountDone, TypeOK
  <2> QED
    BY <1>9, <2>2, <2>3 DEF CheckProgress
<1> QED
  BY <1>2, <1>3, <1>4, <1>5, <1>6, <1>7, <1>8, <1>9 DEF MainStep

LEMMA OtherCallTouchesNone ==
  ASSUME TypeOK, BeginRecent \/ EndRecent, NEW j \in Invocations
  PROVE  Untouched(j)
<1>1. \E s \in {"running", "success", "failed"} : status' = [status EXCEPT ![Recent] = s]
  BY DEF BeginRecent, EndRecent, CallLands, CallFails, Ingestion!Begin, Ingestion!Land, Ingestion!Fail
<1>2. \A v \in Units : status'[<<j, v>>] = status[<<j, v>>]
  BY <1>1, RecentApart DEF TypeOK, Runs
<1> QED
  BY <1>2 DEF BeginRecent, EndRecent, Untouched

\* What every step does to the database.
LEMMA DatabaseStep ==
  ASSUME IInv, Next
  PROVE  DbTyped' /\ RequestsFit' /\ LandedFits' /\ Grows
<1> USE DEF IInv
<1>0. ASSUME UNCHANGED db
      PROVE  DbTyped' /\ RequestsFit' /\ LandedFits' /\ Grows
  BY <1>0, NoStep DEF RequestsFit, db
<1>1. CASE BeginRecent
  <2>1. Recent \in Runs /\ Ingestion!Begin(Recent) /\ landed' = landed
        /\ request'[Recent] \in RecentRequests
    BY <1>1 DEF BeginRecent, Runs
  <2>2. \A i \in Invocations, u \in Units :
          status'[<<i, u>>] = status[<<i, u>>] /\ request'[<<i, u>>] = request[<<i, u>>]
    <3>1. \A r \in Runs \ {Recent} : status'[r] = status[r] /\ request'[r] = request[r]
      BY <2>1, BeginStep DEF TypeOK
    <3>2. \A i \in Invocations, u \in Units : <<i, u>> \in Runs \ {Recent}
      BY RecentApart DEF Runs
    <3> QED
      BY <3>1, <3>2
  <2> QED
    BY <2>1, <2>2, BeginStep DEF RequestsFit
<1>2. CASE EndRecent
  <2>1. Recent \in Runs /\ status[Recent] # "none"
    BY <1>2, FailStep DEF EndRecent, CallLands, Runs, Ingestion!Land
  <2>2. request[Recent] \in Requests
    BY <2>1, HasRequest
  <2>3. DbTyped' /\ Grows /\ LandedFits' /\ request' = request
        /\ \A r \in Runs \ {Recent} : status'[r] = status[r]
    BY <1>2, <2>1, <2>2, LandStep, FailStep DEF EndRecent, TypeOK
  <2>4. \A i \in Invocations, u \in Units : status'[<<i, u>>] = status[<<i, u>>]
    BY <2>3, RecentApart DEF Runs
  <2> QED
    BY <2>1, <2>3, <2>4 DEF RequestsFit
<1>3. ASSUME NEW i \in Invocations, StartUnit(i)
      PROVE  DbTyped' /\ RequestsFit' /\ LandedFits' /\ Grows
  <2>1. PICK u \in Units : /\ Ingestion!Begin(<<i, u>>) /\ request'[<<i, u>>] = UnitRequest(u)
                           /\ landed' = landed
    BY <1>3, SelectedUnits DEF StartUnit
  <2>2. <<i, u>> \in Runs
    BY DEF Runs
  <2>3. \A r \in Runs \ {<<i, u>>} : status'[r] = status[r] /\ request'[r] = request[r]
    BY <2>1, <2>2, BeginStep DEF TypeOK
  <2>4. /\ Recent \in Runs /\ Recent # <<i, u>>
        /\ \A j \in Invocations, v \in Units : <<j, v>> \in Runs /\ (<<j, v>> = <<i, u>> => v = u)
    BY RecentApart DEF Runs
  <2>5. RequestsFit'
    BY <2>1, <2>3, <2>4 DEF RequestsFit
  <2> QED
    BY <2>1, <2>2, <2>5, BeginStep
<1>4. ASSUME NEW i \in Invocations, UnitLands(i) \/ UnitFails(i) \/ UnitInterrupted(i)
      PROVE  DbTyped' /\ RequestsFit' /\ LandedFits' /\ Grows
  <2>1. pc[i] \in {"ingesting", "landed"}
    BY <1>4 DEF UnitLands, UnitFails, UnitInterrupted, Proceed, Goto
  <2>2. RunOf(i) \in Runs /\ status[RunOf(i)] \in {"running", "success"}
    BY <2>1, SelectedUnits DEF InStep, AtUnit, RunOf, Runs
  <2>3. request[RunOf(i)] \in Requests
    BY <2>2, HasRequest
  <2>4. CASE UNCHANGED db
    BY <1>0, <2>4
  <2>5. CASE CallLands(RunOf(i)) \/ CallFails(RunOf(i))
    <3>1. DbTyped' /\ Grows /\ LandedFits' /\ request' = request
          /\ \A r \in Runs : status'[r] # "none" => status[r] # "none"
      BY <2>2, <2>3, <2>5, LandStep, FailStep DEF TypeOK
    <3>2. Recent \in Runs /\ \A j \in Invocations, v \in Units : <<j, v>> \in Runs
      BY DEF Runs
    <3> QED
      BY <3>1, <3>2 DEF RequestsFit
  <2> QED
    BY <1>4, <2>4, <2>5 DEF UnitLands, UnitFails, UnitInterrupted
<1>5. ASSUME NEW i \in Invocations,
             InspectProgress(i) \/ Crash(i) \/ ReadRows(i) \/ ReadAudits(i) \/ Refuse(i)
             \/ Authorize(i) \/ Reinspect(i) \/ ValidateUnit(i) \/ CheckProgress(i)
             \/ CheckFinalProgress(i) \/ CheckFinalRows(i) \/ CheckFinalAudits(i)
      PROVE  UNCHANGED db
  BY <1>5 DEF InspectProgress, Crash, ReadRows, ReadAudits, Refuse, Authorize, Reinspect, ValidateUnit,
              CheckProgress, CheckFinalProgress, CheckFinalRows, CheckFinalAudits, db
<1> QED
  BY <1>0, <1>1, <1>2, <1>3, <1>4, <1>5 DEF Next, MainStep

-------------------------------------------------------------------------------
(* The invocation's own step. *)

Snapshots ==
  [progress: [Units -> {"COMPLETE", "PENDING", "AMBIGUOUS"}], rows: SUBSET Hours,
   audits: 0..Cardinality(Runs), mark: Checkpoints]

MainTyped ==
  /\ pc \in [Invocations -> PCs]
  /\ limit \in [Invocations -> 0..MaxUnits]
  /\ before \in [Invocations -> Snapshots]
  /\ unit \in [Invocations -> Units \cup {0}]
  /\ done \in [Invocations -> 0..MaxUnits]

LEMMA TypeOKSplit == TypeOK <=> DbTyped /\ MainTyped
BY DEF TypeOK, DbTyped, MainTyped, Snapshots

LEMMA TypeOKSplitNext == DbTyped' /\ MainTyped' => TypeOK'
BY DEF TypeOK, DbTyped, MainTyped, Snapshots

LEMMA EmptySnapshot == NoSnapshot \in Snapshots
<1>1. 0 \in 0..Cardinality(Runs)
  BY RunsFinite
<1> QED
  BY <1>1 DEF NoSnapshot, Snapshots, Checkpoints

LEMMA ProgressTyped == PlanProgress(Audits) \in [Units -> {"COMPLETE", "PENDING", "AMBIGUOUS"}]
BY DEF PlanProgress, UnitProgress

\* Where main goes on, what it has read stays; where it ends without success, it goes.
LEMMA ProceedStep ==
  ASSUME TypeOK, NEW i \in Invocations, NEW from, NEW to \in PCs, Proceed(i, from, to),
         unit' \in [Invocations -> Units \cup {0}]
  PROVE  /\ MainTyped' /\ pc[i] = from /\ pc'[i] = to
         /\ to \notin Ended \ {"succeeded"} =>
              /\ limit' = limit /\ before' = before /\ done' = done
              /\ Selected(i)' = Selected(i) /\ \A v : Rank(i, v)' = Rank(i, v)
<1>1. MainTyped' /\ pc[i] = from /\ pc'[i] = to
  <2>1. 0 \in 0..MaxUnits
    BY MaxUnitsAssumption
  <2> QED
    BY <2>1, TypeOKSplit, EmptySnapshot DEF MainTyped, Proceed, Goto
<1>2. to \notin Ended \ {"succeeded"} => limit' = limit /\ before' = before /\ done' = done
  BY DEF Proceed
<1> QED
  BY <1>1, <1>2, SameSelection

\* An invocation that ended without success has nothing left to keep in step.
LEMMA EndedInStep ==
  ASSUME NEW i \in Invocations, pc'[i] \in Ended \ {"succeeded"}
  PROVE  InStep(i)'
BY DEF InStep, Ended, Early, Running, AtUnit, Final

\* A step that leaves the database alone and goes on.
LEMMA QuietStep ==
  ASSUME IInv, NEW i \in Invocations, NEW from, NEW to \in PCs, Proceed(i, from, to),
         UNCHANGED <<db, unit>>, to \notin Ended \ {"succeeded"}
  PROVE  /\ MainTyped' /\ pc[i] = from /\ pc'[i] = to
         /\ limit' = limit /\ done' = done /\ unit' = unit /\ status' = status
         /\ Selected(i)' = Selected(i) /\ \A v : Rank(i, v)' = Rank(i, v)
         /\ Own(i)' = Own(i) /\ RunOf(i)' = RunOf(i)
<1>1. unit' \in [Invocations -> Units \cup {0}]
  BY DEF IInv, TypeOK
<1> QED
  BY <1>1, ProceedStep DEF IInv, Own, RunOf, db

LEMMA OwnStep ==
  ASSUME IInv, NEW i \in Invocations, InspectProgress(i) \/ MainStep(i) \/ Crash(i)
  PROVE  MainTyped' /\ InStep(i)'
<1> USE DEF Early, AtUnit, Final, Running, PCs, Ended
<1>0. /\ TypeOK /\ MainTyped /\ InStep(i)
      /\ unit \in [Invocations -> Units \cup {0}] /\ done[i] \in Nat /\ limit[i] \in 0..MaxUnits
      /\ MaxUnits \in Nat
  BY TypeOKSplit, MaxUnitsAssumption DEF IInv, MainTyped
<1>a. ASSUME NEW from, NEW to \in PCs, Proceed(i, from, to), to \in Ended \ {"succeeded"},
             unit' = unit
      PROVE  MainTyped' /\ InStep(i)'
  <2>1. unit' \in [Invocations -> Units \cup {0}]
    BY <1>0, <1>a
  <2>2. MainTyped' /\ pc'[i] = to
    BY <1>0, <1>a, <2>1, ProceedStep
  <2> QED
    BY <1>a, <2>2, EndedInStep
<1>1. CASE InspectProgress(i)
  <2>1. /\ pc[i] = "idle" /\ pc'[i] = "inspected" /\ limit'[i] \in 1..MaxUnits
        /\ done' = done /\ status' = status
    BY <1>0, <1>1 DEF InspectProgress, Goto, Limits, MainTyped, db
  <2>2. Own(i)' = Own(i)
    BY <2>1 DEF Own
  <2>3. MainTyped'
    <3>1. [before[i] EXCEPT !.progress = PlanProgress(Audits)] \in Snapshots
      BY <1>0, ProgressTyped DEF MainTyped, Snapshots
    <3>2. before' = [before EXCEPT ![i] = [before[i] EXCEPT !.progress = PlanProgress(Audits)]]
      BY <1>1 DEF InspectProgress
    <3>3. before' \in [Invocations -> Snapshots]
      BY <1>0, <3>1, <3>2 DEF MainTyped
    <3>4. limit' \in [Invocations -> 0..MaxUnits]
      BY <1>0, <1>1 DEF InspectProgress, Limits, MainTyped
    <3>5. pc' \in [Invocations -> PCs]
      BY <1>0, <1>1 DEF InspectProgress, Goto, MainTyped
    <3> QED
      BY <1>0, <1>1, <3>3, <3>4, <3>5 DEF InspectProgress, MainTyped
  <2> QED
    BY <1>0, <2>1, <2>2, <2>3 DEF InStep
<1>2. CASE ReadRows(i)
  <2>1. pc[i] = "inspected" /\ pc'[i] = "rows_read" /\ limit' = limit /\ done' = done /\ status' = status
    BY <1>0, <1>2 DEF ReadRows, Goto, MainTyped, db
  <2>2. Own(i)' = Own(i)
    BY <2>1 DEF Own
  <2>3. MainTyped'
    <3>1. Stored \in SUBSET Hours
      BY DEF Stored
    <3> QED
      BY <1>0, <1>2, <3>1 DEF ReadRows, Goto, MainTyped, Snapshots
  <2> QED
    BY <1>0, <2>1, <2>2, <2>3 DEF InStep
<1>3. CASE ReadAudits(i)
  <2>1. pc[i] = "rows_read" /\ pc'[i] = "snapshot" /\ limit' = limit /\ done' = done /\ status' = status
    BY <1>0, <1>3 DEF ReadAudits, Goto, MainTyped, db
  <2>2. Own(i)' = Own(i)
    BY <2>1 DEF Own
  <2>3. MainTyped'
    <3>1. AuditCount \in 0..Cardinality(Runs) /\ Mark \in Checkpoints
      BY <1>0, OwnFinite DEF AuditCount, Begun, Mark, TypeOK
    <3>2. [before[i] EXCEPT !.audits = AuditCount, !.mark = Mark] \in Snapshots
      BY <1>0, <3>1 DEF MainTyped, Snapshots
    <3>3. before' = [before EXCEPT ![i] = [before[i] EXCEPT !.audits = AuditCount, !.mark = Mark]]
      BY <1>3 DEF ReadAudits
    <3>4. before' \in [Invocations -> Snapshots]
      BY <1>0, <3>2, <3>3 DEF MainTyped
    <3> QED
      BY <1>0, <1>3, <3>4 DEF ReadAudits, Goto, MainTyped
  <2> QED
    BY <1>0, <2>1, <2>2, <2>3 DEF InStep
<1>4. CASE Refuse(i)
  BY <1>4, <1>a DEF Refuse
<1>5. CASE Authorize(i)
  BY <1>0, <1>5, QuietStep DEF Authorize, InStep
<1>6. CASE Reinspect(i)
  <2>1. CASE Proceed(i, "authorized", "failed") /\ UNCHANGED <<db, unit>>
    BY <2>1, <1>a
  <2>2. CASE Proceed(i, "authorized", "next") /\ UNCHANGED <<db, unit>>
    <3>2. Cardinality(Own(i)) = 0
      BY <1>0, <2>2, FS_EmptySet DEF InStep, Proceed, Goto
    <3>3. /\ MainTyped' /\ pc[i] = "authorized" /\ pc'[i] = "next"
          /\ limit' = limit /\ done' = done /\ Own(i)' = Own(i)
          /\ Selected(i)' = Selected(i) /\ \A v : Rank(i, v)' = Rank(i, v)
      BY <2>2, QuietStep
    <3>4. done[i] = 0 /\ limit[i] \in 1..MaxUnits
      BY <1>0, <3>3 DEF InStep
    <3>5. \A v \in Selected(i) : ~(Rank(i, v) < 0)
      BY RankNat
    <3> QED
      BY <3>2, <3>3, <3>4, <3>5 DEF InStep
  <2> QED
    BY <1>6, <2>1, <2>2 DEF Reinspect
<1>7. CASE StartUnit(i)
  <2>1. PICK u \in Selected(i) :
          /\ Rank(i, u) = done[i] /\ unit' = [unit EXCEPT ![i] = u] /\ Ingestion!Begin(<<i, u>>)
          /\ landed' = landed
    BY <1>7 DEF StartUnit, Rank
  <2>2. u \in Units /\ <<i, u>> \in Runs
    BY SelectedUnits DEF Runs
  <2>3. unit' \in [Invocations -> Units \cup {0}] /\ unit'[i] = u
    BY <1>0, <2>1, <2>2
  <2>4. /\ MainTyped' /\ pc[i] = "next" /\ pc'[i] = "ingesting"
        /\ limit' = limit /\ done' = done
        /\ Selected(i)' = Selected(i) /\ \A v : Rank(i, v)' = Rank(i, v)
    BY <1>0, <1>7, <2>3, ProceedStep DEF StartUnit
  <2>5. /\ status[<<i, u>>] = "none" /\ status'[<<i, u>>] = "running"
        /\ \A r \in Runs \ {<<i, u>>} : status'[r] = status[r]
    <3>1. /\ status[<<i, u>>] = "none" /\ status' = [status EXCEPT ![<<i, u>>] = "running"]
      BY <1>0, <2>1, <2>2, BeginStep DEF IInv
    <3> QED
      BY <1>0, <2>2, <3>1 DEF TypeOK
  <2>6. RunOf(i)' = <<i, u>>
    BY <2>3 DEF RunOf
  <2>7. \A v \in Selected(i) : Rank(i, v) < done[i] => status'[<<i, v>>] = "success"
    <3>1. \A v \in Selected(i) : Rank(i, v) < done[i] => status[<<i, v>>] = "success" /\ <<i, v>> \in Runs
      BY <1>0, <2>4, SelectedUnits DEF InStep, Runs
    <3> QED
      BY <2>5, <3>1
  <2>8. Cardinality(Own(i)') = done[i] + 1
    <3>1. Own(i)' = Own(i) \cup {<<i, u>>} /\ <<i, u>> \notin Own(i)
      BY <2>2, <2>5 DEF Own, Runs
    <3>2. Cardinality(Own(i)) = done[i]
      BY <1>0, <2>4 DEF InStep
    <3> QED
      BY <3>1, <3>2, OwnFinite, FS_AddElement
  <2> QED
    BY <1>0, <2>1, <2>3, <2>4, <2>5, <2>6, <2>7, <2>8 DEF InStep
<1>8. CASE UnitLands(i)
  <2>1. /\ MainTyped' /\ pc[i] = "ingesting" /\ pc'[i] = "landed" /\ unit' = unit
        /\ limit' = limit /\ done' = done
        /\ Selected(i)' = Selected(i) /\ \A v : Rank(i, v)' = Rank(i, v)
    BY <1>0, <1>8, ProceedStep DEF UnitLands
  <2>2. RunOf(i) \in Runs /\ RunOf(i)' = RunOf(i) /\ status[RunOf(i)] = "running"
    BY <1>0, <2>1, SelectedUnits DEF InStep, RunOf, Runs
  <2>3. status' = [status EXCEPT ![RunOf(i)] = "success"]
    BY <1>8 DEF UnitLands, CallLands, Ingestion!Land
  <2>4. status'[RunOf(i)] = "success" /\ \A r \in Runs \ {RunOf(i)} : status'[r] = status[r]
    BY <1>0, <2>2, <2>3 DEF TypeOK
  <2>5. Own(i)' = Own(i)
    BY <2>2, <2>4 DEF Own, Runs
  <2>6. \A v \in Selected(i) : Rank(i, v) < done[i] => status'[<<i, v>>] = "success"
    <3>1. \A v \in Selected(i) : Rank(i, v) < done[i] => status[<<i, v>>] = "success" /\ <<i, v>> \in Runs
      BY <1>0, <2>1, SelectedUnits DEF InStep, Runs
    <3> QED
      BY <2>4, <3>1
  <2> QED
    BY <1>0, <2>1, <2>2, <2>4, <2>5, <2>6 DEF InStep
<1>9. CASE UnitFails(i) \/ UnitInterrupted(i)
  BY <1>9, <1>a DEF UnitFails, UnitInterrupted
<1>10. CASE ValidateUnit(i)
  <2>1. CASE Proceed(i, "landed", "gap") /\ UNCHANGED <<db, unit>>
    BY <2>1, <1>a
  <2>2. CASE Proceed(i, "landed", "validated") /\ UNCHANGED <<db, unit>>
    BY <1>0, <2>2, QuietStep DEF InStep
  <2> QED
    BY <1>10, <2>1, <2>2 DEF ValidateUnit
<1>11. CASE CheckProgress(i)
  <2>0. UNCHANGED <<db, unit>>
    BY <1>11 DEF CheckProgress
  <2>1. CASE Proceed(i, "validated", "failed")
    BY <2>0, <2>1, <1>a
  <2>2. CASE /\ Goto(i, "validated", IF done[i] + 1 < limit[i] THEN "next" ELSE "finishing")
             /\ CountDone(i) /\ UNCHANGED <<limit, before>>
    <3>1. /\ pc[i] = "validated" /\ pc'[i] = IF done[i] + 1 < limit[i] THEN "next" ELSE "finishing"
          /\ done'[i] = done[i] + 1 /\ done[i] < limit[i] /\ limit' = limit /\ before' = before
          /\ status' = status /\ unit' = unit
      BY <1>0, <2>0, <2>2 DEF Goto, CountDone, MainTyped, InStep, db
    <3>2. MainTyped'
      <4>1. done[i] + 1 \in 0..MaxUnits
        BY <1>0, <3>1
      <4> QED
        BY <1>0, <2>2, <3>1, <4>1 DEF Goto, CountDone, MainTyped
    <3>3. /\ Selected(i)' = Selected(i) /\ (\A v : Rank(i, v)' = Rank(i, v)) /\ Own(i)' = Own(i)
      BY <3>1, SameSelection DEF Own
    <3>4. ASSUME NEW v \in Selected(i), Rank(i, v) < done[i] + 1
          PROVE  status[<<i, v>>] = "success"
      <4>1. unit[i] \in Selected(i) /\ Rank(i, unit[i]) = done[i] /\ status[<<i, unit[i]>>] = "success"
        BY <1>0, <3>1 DEF InStep, RunOf
      <4>2. v \in Units /\ unit[i] \in Units /\ v \in Nat /\ unit[i] \in Nat
        BY <4>1, SelectedUnits, UnitsFinite
      <4>3. CASE v < unit[i]
        <5>1. Rank(i, v) < done[i]
          BY <4>1, <4>2, <4>3, RanksGrow
        <5> QED
          BY <1>0, <3>1, <5>1 DEF InStep
      <4>4. CASE unit[i] < v
        <5>1. done[i] < Rank(i, v) /\ Rank(i, v) \in Nat
          BY <4>1, <4>2, <4>4, RanksGrow
        <5> QED
          BY <1>0, <3>4, <5>1
      <4> QED
        BY <4>1, <4>2, <4>3, <4>4
    <3>5. Cardinality(Own(i)) = done[i] + 1
      BY <1>0, <3>1 DEF InStep
    <3> QED
      BY <1>0, <3>1, <3>2, <3>3, <3>4, <3>5 DEF InStep
  <2> QED
    BY <1>11, <2>1, <2>2 DEF CheckProgress
<1>12. CASE CheckFinalProgress(i)
  <2>1. CASE Proceed(i, "finishing", "failed") /\ UNCHANGED <<db, unit>>
    BY <2>1, <1>a
  <2>2. CASE Proceed(i, "finishing", "progress_checked") /\ UNCHANGED <<db, unit>>
    BY <1>0, <2>2, QuietStep DEF InStep
  <2> QED
    BY <1>12, <2>1, <2>2 DEF CheckFinalProgress
<1>13. CASE CheckFinalRows(i)
  <2>1. CASE Proceed(i, "progress_checked", "failed") /\ UNCHANGED <<db, unit>>
    BY <2>1, <1>a
  <2>2. CASE Proceed(i, "progress_checked", "rows_checked") /\ UNCHANGED <<db, unit>>
    BY <1>0, <2>2, QuietStep DEF InStep
  <2> QED
    BY <1>13, <2>1, <2>2 DEF CheckFinalRows
<1>14. CASE CheckFinalAudits(i)
  <2>1. CASE Proceed(i, "rows_checked", "failed") /\ UNCHANGED <<db, unit>>
    BY <2>1, <1>a
  <2>2. CASE Proceed(i, "rows_checked", "succeeded") /\ UNCHANGED <<db, unit>>
    BY <1>0, <2>2, QuietStep DEF InStep
  <2> QED
    BY <1>14, <2>1, <2>2 DEF CheckFinalAudits
<1>15. CASE Crash(i)
  <2>1. Proceed(i, pc[i], "crashed") /\ unit' = unit
    BY <1>15 DEF Crash
  <2> QED
    BY <2>1, <1>a
<1> QED
  BY <1>1, <1>2, <1>3, <1>4, <1>5, <1>6, <1>7, <1>8, <1>9, <1>10, <1>11, <1>12, <1>13, <1>14, <1>15
     DEF MainStep

-------------------------------------------------------------------------------
(* The invariant. *)

LEMMA InitHolds == Init => IInv
<1> SUFFICES ASSUME Init PROVE IInv
  OBVIOUS
<1> USE DEF Init, Ingestion!Init
<1>1. DbTyped
  BY DEF DbTyped, Checkpoints
<1>a. LandedFits
  BY DEF LandedFits
<1>2. MainTyped
  <2>1. 0 \in 0..MaxUnits
    BY MaxUnitsAssumption
  <2> QED
    BY <2>1, EmptySnapshot DEF MainTyped, PCs
<1>3. RequestsFit
  <2>1. \A i \in Invocations, u \in Units : <<i, u>> \in Runs
    BY DEF Runs
  <2>2. Recent \in Runs
    BY DEF Runs
  <2> QED
    BY <2>1, <2>2 DEF RequestsFit
<1>4. ASSUME NEW i \in Invocations
      PROVE  InStep(i)
  <2>1. Own(i) = {}
    BY DEF Own, Runs
  <2> QED
    BY <2>1 DEF InStep, Early, Running, AtUnit, Final
<1> QED
  BY <1>1, <1>a, <1>2, <1>3, <1>4, TypeOKSplit DEF IInv

LEMMA StepHolds == IInv /\ [Next]_vars => IInv'
<1> SUFFICES ASSUME IInv, [Next]_vars PROVE IInv'
  OBVIOUS
<1>1. CASE UNCHANGED vars
  <2>1. TypeOK' /\ RequestsFit' /\ LandedFits'
    BY <1>1 DEF IInv, TypeOK, RequestsFit, LandedFits, vars
  <2>2. \A i \in Invocations : Untouched(i)
    BY <1>1 DEF Untouched, vars
  <2> QED
    BY <2>1, <2>2, UntouchedKept DEF IInv
<1>2. CASE Next
  <2>1. DbTyped' /\ RequestsFit' /\ LandedFits'
    BY <1>2, DatabaseStep
  <2>2. CASE BeginRecent \/ EndRecent
    <3>1. \A i \in Invocations : InStep(i)'
      BY <2>2, OtherCallTouchesNone, UntouchedKept DEF IInv
    <3>2. MainTyped'
      BY <2>2, TypeOKSplit DEF IInv, BeginRecent, EndRecent, MainTyped, Snapshots
    <3> QED
      BY <2>1, <3>1, <3>2, TypeOKSplitNext DEF IInv
  <2>3. ASSUME NEW i \in Invocations, InspectProgress(i) \/ MainStep(i) \/ Crash(i)
        PROVE  IInv'
    <3>1. MainTyped' /\ InStep(i)'
      BY <2>3, OwnStep
    <3>2. \A j \in Invocations \ {i} : InStep(j)'
      BY <2>3, OthersUntouched, UntouchedKept DEF IInv
    <3> QED
      BY <2>1, <3>1, <3>2, TypeOKSplitNext DEF IInv
  <2> QED
    BY <1>2, <2>2, <2>3 DEF Next
<1> QED
  BY <1>1, <1>2

\* The counters of every invocation, the audit rows of its own calls and the types
\* stay in step, whatever runs beside it.  (run_one and main's bookkeeping)
THEOREM InvariantHolds == Spec => []IInv
BY InitHolds, StepHolds, PTL DEF Spec

\* Every variable keeps its type: no invocation calls for more units than the ceiling
\* allows, and every checkpoint is a run's own hour.  (backfill_execute.main)
THEOREM TypeCorrect == Spec => []TypeOK
<1>1. IInv => TypeOK
  BY DEF IInv
<1> QED
  BY <1>1, InvariantHolds, PTL

-------------------------------------------------------------------------------
(* Landings. *)

\* What a step does to the database is one call's doing.
LEMMA DatabaseKinds ==
  ASSUME IInv, Next
  PROVE  \/ UNCHANGED db
         \/ \E r \in Runs : \/ Ingestion!Begin(r) /\ landed' = landed
                            \/ CallLands(r) \/ CallFails(r)
<1> DEFINE OneCall == \E r \in Runs : \/ Ingestion!Begin(r) /\ landed' = landed
                                      \/ CallLands(r) \/ CallFails(r)
<1>1. CASE BeginRecent \/ EndRecent
  BY <1>1 DEF BeginRecent, EndRecent, Runs
<1>2. ASSUME NEW i \in Invocations, StartUnit(i)
      PROVE  OneCall
  <2>1. PICK u \in Units : Ingestion!Begin(<<i, u>>) /\ landed' = landed
    BY <1>2, SelectedUnits DEF StartUnit
  <2> QED
    BY <2>1 DEF Runs
<1>3. ASSUME NEW i \in Invocations, UnitLands(i) \/ UnitFails(i) \/ UnitInterrupted(i)
      PROVE  UNCHANGED db \/ OneCall
  <2>1. pc[i] \in {"ingesting", "landed"}
    BY <1>3 DEF UnitLands, UnitFails, UnitInterrupted, Proceed, Goto
  <2>2. RunOf(i) \in Runs
    BY <2>1, SelectedUnits DEF IInv, InStep, AtUnit, RunOf, Runs
  <2> QED
    BY <1>3, <2>2 DEF UnitLands, UnitFails, UnitInterrupted
<1>4. ASSUME NEW i \in Invocations,
             InspectProgress(i) \/ Crash(i) \/ ReadRows(i) \/ ReadAudits(i) \/ Refuse(i)
             \/ Authorize(i) \/ Reinspect(i) \/ ValidateUnit(i) \/ CheckProgress(i)
             \/ CheckFinalProgress(i) \/ CheckFinalRows(i) \/ CheckFinalAudits(i)
      PROVE  UNCHANGED db
  BY <1>4 DEF InspectProgress, Crash, ReadRows, ReadAudits, Refuse, Authorize, Reinspect, ValidateUnit,
              CheckProgress, CheckFinalProgress, CheckFinalRows, CheckFinalAudits, db
<1> QED
  BY <1>1, <1>2, <1>3, <1>4 DEF Next, MainStep

\* The call of an invocation for a unit lands when the invocation has come to that unit.
LEMMA LandsAtItsUnit ==
  ASSUME IInv, Next, NEW i \in Invocations, NEW u \in Units,
         <<i, u>> \notin landed, <<i, u>> \in landed'
  PROVE  UnitLands(i) /\ pc[i] = "ingesting" /\ unit[i] = u
<1>1. ~BeginRecent /\ ~EndRecent
  BY RecentApart DEF BeginRecent, EndRecent, CallLands, CallFails
<1>2. PICK k \in Invocations : InspectProgress(k) \/ MainStep(k) \/ Crash(k)
  BY <1>1 DEF Next
<1>3. UnitLands(k)
  BY <1>2 DEF InspectProgress, MainStep, Crash, ReadRows, ReadAudits, Refuse, Authorize, Reinspect,
       StartUnit, UnitFails, UnitInterrupted, ValidateUnit, CheckProgress, CheckFinalProgress,
       CheckFinalRows, CheckFinalAudits, CallFails, db
<1>4. <<i, u>> = <<k, unit[k]>>
  BY <1>3 DEF UnitLands, CallLands, RunOf
<1> QED
  BY <1>3, <1>4 DEF UnitLands, Proceed, Goto

\* It becomes a success then, and at no other time.
LEMMA SucceedsAtItsUnit ==
  ASSUME IInv, Next, NEW i \in Invocations, NEW u \in Units,
         status[<<i, u>>] # "success", status'[<<i, u>>] = "success"
  PROVE  UnitLands(i) /\ pc[i] = "ingesting" /\ unit[i] = u
<1> DEFINE r == <<i, u>>
<1>1. r \in Runs /\ Grows /\ LandedFits /\ LandedFits' /\ TypeOK
  BY DatabaseStep DEF IInv, Runs
<1>2. status[r] = "running"
  BY <1>1 DEF TypeOK, Grows
<1>3. r \notin landed /\ r \in landed'
  BY <1>1, <1>2 DEF LandedFits
<1> QED
  BY <1>3, LandsAtItsUnit

-------------------------------------------------------------------------------
(* Gaps. *)

\* Rows that were found stay.
RowsFound(i) == pc[i] \in {"rows_checked", "succeeded"} => SelectedHours(i) \subseteq Stored

LEMMA RowsStayFound ==
  ASSUME IInv, [Next]_vars, NEW j \in Invocations, RowsFound(j)
  PROVE  RowsFound(j)'
<1>1. CASE UNCHANGED vars
  BY <1>1 DEF RowsFound, SelectedHours, Selected, Stored, vars
<1>2. ASSUME Next, pc'[j] = pc[j], limit'[j] = limit[j], before'[j] = before[j]
      PROVE  RowsFound(j)'
  <2>1. SelectedHours(j)' = SelectedHours(j)
    BY <1>2, SameSelection DEF SelectedHours
  <2> QED
    BY <1>2, <2>1, DatabaseStep DEF RowsFound, Grows
<1>3. CASE BeginRecent \/ EndRecent
  BY <1>2, <1>3, OtherCallTouchesNone DEF Next, Untouched, IInv
<1>4. ASSUME NEW i \in Invocations \ {j}, InspectProgress(i) \/ MainStep(i) \/ Crash(i)
      PROVE  RowsFound(j)'
  BY <1>2, <1>4, OthersUntouched DEF Next, Untouched, IInv
<1>5. CASE InspectProgress(j) \/ MainStep(j) \/ Crash(j)
  <2>1. SUFFICES ASSUME pc'[j] \in {"rows_checked", "succeeded"}
                 PROVE  SelectedHours(j)' \subseteq Stored'
    BY DEF RowsFound
  <2>2. pc \in [Invocations -> PCs]
    BY DEF IInv, TypeOK
  <2>3. CheckFinalRows(j) \/ CheckFinalAudits(j)
    BY <1>5, <2>1, <2>2 DEF InspectProgress, MainStep, Crash, ReadRows, ReadAudits, Refuse, Authorize,
         Reinspect, StartUnit, UnitLands, UnitFails, UnitInterrupted, ValidateUnit, CheckProgress,
         CheckFinalProgress, Proceed, Goto
  <2>4. SelectedHours(j) \subseteq Stored
    BY <2>1, <2>2, <2>3 DEF CheckFinalRows, CheckFinalAudits, Proceed, Goto, RowsFound
  <2>5. limit' = limit /\ before' = before /\ UNCHANGED db
    BY <2>1, <2>2, <2>3 DEF CheckFinalRows, CheckFinalAudits, Proceed, Goto, Ended
  <2> QED
    BY <2>4, <2>5, SameSelection DEF SelectedHours, Stored, db
<1> QED
  BY <1>1, <1>3, <1>4, <1>5 DEF Next

\* A unit an invocation has landed with a gap is the one it is still at.
AtItsGap(i) ==
  \A u \in Units : status[<<i, u>>] = "success" /\ MissingOf(u) # {} =>
    unit[i] = u /\ pc[i] \in {"landed", "gap", "crashed"}

LEMMA StaysAtItsGap ==
  ASSUME IInv, [Next]_vars, NEW j \in Invocations, AtItsGap(j)
  PROVE  AtItsGap(j)'
<1>1. CASE UNCHANGED vars
  BY <1>1 DEF AtItsGap, MissingOf, Stored, vars
<1>2. ASSUME Next PROVE \A u \in Units : MissingOf(u)' \subseteq MissingOf(u)
  BY <1>2, DatabaseStep DEF MissingOf, Grows
<1>3. ASSUME Next, Untouched(j)
      PROVE  AtItsGap(j)'
  BY <1>2, <1>3 DEF AtItsGap, Untouched
<1>4. CASE BeginRecent \/ EndRecent
  BY <1>3, <1>4, OtherCallTouchesNone DEF Next, IInv
<1>5. ASSUME NEW i \in Invocations \ {j}, InspectProgress(i) \/ MainStep(i) \/ Crash(i)
      PROVE  AtItsGap(j)'
  BY <1>3, <1>5, OthersUntouched DEF Next, IInv
<1>6. CASE InspectProgress(j) \/ MainStep(j) \/ Crash(j)
  <2>0. Next /\ pc \in [Invocations -> PCs]
    BY <1>6 DEF Next, IInv, TypeOK
  <2>1. SUFFICES ASSUME NEW u \in Units, status'[<<j, u>>] = "success", MissingOf(u)' # {}
                 PROVE  unit'[j] = u /\ pc'[j] \in {"landed", "gap", "crashed"}
    BY DEF AtItsGap
  <2>2. CASE UnitLands(j) /\ unit[j] = u
    BY <2>0, <2>2 DEF UnitLands, Proceed, Goto
  <2>3. CASE ~(UnitLands(j) /\ unit[j] = u)
    <3>1. status[<<j, u>>] = "success" /\ MissingOf(u) # {}
      BY <1>2, <2>0, <2>1, <2>3, SucceedsAtItsUnit
    <3>2. unit[j] = u /\ pc[j] \in {"landed", "gap", "crashed"}
      BY <3>1 DEF AtItsGap
    <3>3. ValidateUnit(j) \/ UnitInterrupted(j) \/ Crash(j)
      BY <1>6, <3>2 DEF InspectProgress, MainStep, ReadRows, ReadAudits, Refuse, Authorize, Reinspect,
           StartUnit, UnitLands, UnitFails, CheckProgress, CheckFinalProgress, CheckFinalRows,
           CheckFinalAudits, Proceed, Goto
    <3>4. ~UnitInterrupted(j)
      <4>1. SUFFICES ASSUME UnitInterrupted(j) PROVE FALSE
        OBVIOUS
      <4>2. <<j, u>> \in Runs /\ status' = [status EXCEPT ![<<j, u>>] = "failed"]
        BY <3>2, <4>1 DEF UnitInterrupted, CallFails, Ingestion!Fail, RunOf, Runs
      <4> QED
        BY <2>1, <4>2 DEF IInv, TypeOK
    <3>5. CASE ValidateUnit(j)
      BY <2>0, <3>1, <3>2, <3>5 DEF ValidateUnit, Proceed, Goto
    <3>6. CASE Crash(j)
      BY <2>0, <3>2, <3>6 DEF Crash, Proceed, Goto
    <3> QED
      BY <3>3, <3>4, <3>5, <3>6
  <2> QED
    BY <2>2, <2>3
<1> QED
  BY <1>1, <1>4, <1>5, <1>6 DEF Next

\* No batch goes on past a unit of its own that the source left hours of out, and no
\* invocation succeeds over a gap in what it had selected, its own call's or another's.
\* (_validate_unit_readonly, the checks after the batch)
THEOREM GapsAlwaysStopTheBatch == Spec => []GapsStopTheBatch
<1> DEFINE Inv == IInv /\ \A i \in Invocations : RowsFound(i) /\ AtItsGap(i)
<1>1. Init => Inv
  <2>1. ASSUME Init, NEW i \in Invocations, NEW u \in Units
        PROVE  status[<<i, u>>] = "none"
    BY <2>1 DEF Init, Ingestion!Init, Runs
  <2> QED
    BY <2>1, InitHolds DEF Init, RowsFound, AtItsGap
<1>2. Inv /\ [Next]_vars => Inv'
  BY StepHolds, RowsStayFound, StaysAtItsGap
<1>3. Inv => GapsStopTheBatch
  BY DEF GapsStopTheBatch, AtItsGap, RowsFound, SelectedHours, MissingOf
<1> QED
  BY <1>1, <1>2, <1>3, PTL DEF Spec

-------------------------------------------------------------------------------
(* Double successes. *)

\* The statuses classify_unit_progress collects are those of the calls for the window.
LEMMA Statuses ==
  ASSUME NEW u \in Units, NEW x
  PROVE  x \in {a.status : a \in {b \in Audits : b.request = UnitRequest(u)}}
           <=> \E r \in Begun : request[r] = UnitRequest(u) /\ status[r] = x
<1> DEFINE exact == {b \in Audits : b.request = UnitRequest(u)}
           row(r) == [request |-> request[r], status |-> status[r]]
<1>1. ASSUME NEW r \in Begun, request[r] = UnitRequest(u)
      PROVE  row(r) \in exact /\ row(r).status = status[r]
  BY <1>1 DEF Audits, Begun
<1>2. ASSUME NEW b \in exact
      PROVE  \E r \in Begun : request[r] = UnitRequest(u) /\ status[r] = b.status
  BY <1>2 DEF Audits, Begun
<1>3. x \in {a.status : a \in exact} <=> \E a \in exact : a.status = x
  OBVIOUS
<1> HIDE DEF exact, row
<1>4. (\E a \in exact : a.status = x) <=> \E r \in Begun : request[r] = UnitRequest(u) /\ status[r] = x
  BY <1>1, <1>2
<1> QED
  BY <1>3, <1>4 DEF exact

\* No call for a pending unit is running or has landed.
LEMMA PendingMeans ==
  ASSUME TypeOK, NEW u \in Units, UnitProgress(u, Audits) = "PENDING",
         NEW r \in Runs, request[r] = UnitRequest(u)
  PROVE  status[r] \notin {"success", "running"}
<1> DEFINE exact == {a.status : a \in {b \in Audits : b.request = UnitRequest(u)}}
<1>1. "success" \notin exact /\ "running" \notin exact
  BY DEF UnitProgress
<1>2. status[r] # "none" => status[r] \in exact
  BY Statuses DEF Begun
<1> QED
  BY <1>1, <1>2

\* The calls of others for the units an invocation has selected, unless they failed.
Theirs(j) == {r \in (Invocations \ {j}) \X Selected(j) : status[r] \in {"running", "success"}}

\* The audit rows an invocation counted before its batch are neither its own nor those of
\* such calls: each of these came after its count.
Counted(j) ==
  pc[j] \in {"snapshot", "authorized"} \cup Running =>
    \E S \in SUBSET Begun :
      /\ Cardinality(S) = before[j].audits
      /\ S \cap Own(j) = {}
      /\ pc[j] \in Running => S \cap Theirs(j) = {}

LEMMA CountedKept ==
  ASSUME TypeOK, Grows, NEW j \in Invocations, Counted(j),
         limit'[j] = limit[j], before'[j] = before[j],
         pc'[j] \in Running => pc[j] \in Running,
         pc'[j] \in {"snapshot", "authorized"} => pc[j] \in {"snapshot", "authorized"} \cup Running
  PROVE  Counted(j)'
<1>1. SUFFICES ASSUME pc'[j] \in {"snapshot", "authorized"} \cup Running
               PROVE  \E S \in SUBSET Begun' :
                        /\ Cardinality(S) = before[j].audits
                        /\ S \cap Own(j)' = {}
                        /\ pc'[j] \in Running => S \cap Theirs(j)' = {}
  BY DEF Counted
<1>2. PICK S \in SUBSET Begun :
        /\ Cardinality(S) = before[j].audits
        /\ S \cap Own(j) = {}
        /\ pc[j] \in Running => S \cap Theirs(j) = {}
  BY <1>1 DEF Counted
<1>3. S \in SUBSET Begun'
  BY <1>2 DEF Begun, Grows
<1>4. S \cap Own(j)' = {}
  BY <1>2 DEF Begun, Own
<1>5. ASSUME pc'[j] \in Running
      PROVE  S \cap Theirs(j)' = {}
  <2>1. Selected(j)' = Selected(j)
    BY SameSelection
  <2>2. ASSUME NEW r \in S, r \in Theirs(j)'
        PROVE  r \in Theirs(j)
    <3>1. r \in Runs /\ status[r] \in {"running", "success", "failed"}
      BY <1>2 DEF Begun, TypeOK
    <3>2. status[r] # "failed"
      BY <2>2, <3>1 DEF Theirs, Grows
    <3> QED
      BY <2>1, <2>2, <3>1, <3>2 DEF Theirs
  <2> QED
    BY <1>2, <1>5, <2>2
<1> QED
  BY <1>2, <1>3, <1>4, <1>5

\* At the second look at the plan the selected units are pending: no call of another
\* invocation for one of them is running or has landed.
LEMMA NoneYet ==
  ASSUME IInv, NEW j \in Invocations, Reinspect(j), pc'[j] = "next"
  PROVE  Theirs(j) = {}
<1>1. FirstOf(Having(PlanProgress(Audits), "PENDING"), limit[j]) = Selected(j)
  BY DEF Reinspect, Proceed, Goto, IInv, TypeOK
<1>2. ASSUME NEW u \in Selected(j)
      PROVE  u \in Units /\ UnitProgress(u, Audits) = "PENDING"
  BY <1>1, SelectedUnits DEF FirstOf, Having, PlanProgress
<1>3. ASSUME NEW i \in Invocations, NEW u \in Selected(j), status[<<i, u>>] \in {"running", "success"}
      PROVE  FALSE
  <2>1. u \in Units /\ <<i, u>> \in Runs
    BY <1>2 DEF Runs
  <2>2. request[<<i, u>>] = UnitRequest(u)
    BY <1>3, <2>1 DEF IInv, RequestsFit
  <2> QED
    BY <1>2, <1>3, <2>1, <2>2, PendingMeans DEF IInv
<1> QED
  BY <1>3 DEF Theirs

LEMMA CountedStep ==
  ASSUME IInv, Next, NEW j \in Invocations, Counted(j)
  PROVE  Counted(j)'
<1>0. TypeOK /\ Grows /\ pc \in [Invocations -> PCs]
  BY DatabaseStep DEF IInv, TypeOK
<1>1. ASSUME Untouched(j)
      PROVE  Counted(j)'
  BY <1>0, <1>1, CountedKept DEF Untouched
<1>2. CASE ReadAudits(j)
  <2>1. pc[j] = "rows_read" /\ pc'[j] = "snapshot" /\ before'[j].audits = AuditCount /\ status' = status
    BY <1>0, <1>2 DEF ReadAudits, Goto, IInv, TypeOK, db
  <2>2. Own(j) = {}
    BY <2>1 DEF IInv, InStep, Early
  <2>3. Own(j)' = {} /\ Begun' = Begun
    BY <2>1, <2>2 DEF Own, Begun
  <2>4. Cardinality(Begun) = AuditCount
    BY DEF Begun, AuditCount
  <2> QED
    BY <2>1, <2>3, <2>4 DEF Counted, Running, AtUnit, Final
<1>3. CASE Reinspect(j)
  <2>1. CASE pc'[j] = "next"
    <3>1. /\ pc[j] = "authorized" /\ status' = status /\ before' = before
          /\ Selected(j)' = Selected(j)
      BY <1>0, <1>3, <2>1, SameSelection DEF Reinspect, Proceed, Goto, Ended, db
    <3>2. Begun' = Begun /\ Own(j)' = Own(j) /\ Theirs(j)' = {}
      BY <1>3, <2>1, <3>1, NoneYet DEF Begun, Own, Theirs
    <3>3. PICK S \in SUBSET Begun : Cardinality(S) = before[j].audits /\ S \cap Own(j) = {}
      BY <3>1 DEF Counted
    <3> QED
      BY <3>1, <3>2, <3>3 DEF Counted
  <2>2. CASE pc'[j] # "next"
    <3>1. pc'[j] = "failed"
      BY <1>0, <1>3, <2>2 DEF Reinspect, Proceed, Goto
    <3> QED
      BY <3>1 DEF Counted, Running, AtUnit, Final
  <2> QED
    BY <2>1, <2>2
<1>4. ASSUME NEW from, NEW to, Proceed(j, from, to),
             to \in Running => from \in Running,
             to \in {"snapshot", "authorized"} => from \in {"snapshot", "authorized"}
      PROVE  Counted(j)'
  <2>1. pc[j] = from /\ pc'[j] = to
    BY <1>0, <1>4 DEF Proceed, Goto
  <2>2. CASE to \in Ended \ {"succeeded"}
    BY <2>1, <2>2 DEF Counted, Running, AtUnit, Final, Ended
  <2>3. CASE to \notin Ended \ {"succeeded"}
    BY <1>0, <1>4, <2>1, <2>3, CountedKept DEF Proceed
  <2> QED
    BY <2>2, <2>3
<1>5. CASE CheckProgress(j)
  <2>1. CASE Proceed(j, "validated", "failed")
    BY <1>4, <2>1 DEF Running, AtUnit, Final
  <2>2. CASE \E to \in {"next", "finishing"} : Goto(j, "validated", to) /\ UNCHANGED <<limit, before>>
    BY <1>0, <2>2, CountedKept DEF Goto, Running, AtUnit, Final
  <2> QED
    BY <1>5, <2>1, <2>2 DEF CheckProgress
<1>6. CASE InspectProgress(j) \/ ReadRows(j)
  <2>1. pc'[j] \in {"inspected", "rows_read"}
    BY <1>0, <1>6 DEF InspectProgress, ReadRows, Goto
  <2> QED
    BY <2>1 DEF Counted, Running, AtUnit, Final
<1>7. CASE Refuse(j) \/ Authorize(j) \/ Crash(j)
  <2>1. \E from, to : Proceed(j, from, to) /\ to \notin Running
                       /\ (to = "authorized" => from = "snapshot") /\ to # "snapshot"
    BY <1>7 DEF Refuse, Authorize, Crash, Running, AtUnit, Final
  <2> QED
    BY <1>4, <2>1
<1>8. CASE StartUnit(j) \/ UnitLands(j) \/ UnitFails(j) \/ UnitInterrupted(j) \/ ValidateUnit(j)
           \/ CheckFinalProgress(j) \/ CheckFinalRows(j) \/ CheckFinalAudits(j)
  <2>1. \E from \in Running : \E to : Proceed(j, from, to) /\ to \notin {"snapshot", "authorized"}
    BY <1>8 DEF StartUnit, UnitLands, UnitFails, UnitInterrupted, ValidateUnit, CheckFinalProgress, CheckFinalRows,
                CheckFinalAudits, Running, AtUnit, Final
  <2> QED
    BY <1>4, <2>1
<1>9. CASE BeginRecent \/ EndRecent
  BY <1>0, <1>1, <1>9, OtherCallTouchesNone
<1>10. ASSUME NEW i \in Invocations \ {j}, InspectProgress(i) \/ MainStep(i) \/ Crash(i)
       PROVE  Counted(j)'
  BY <1>0, <1>1, <1>10, OthersUntouched
<1> QED
  BY <1>2, <1>3, <1>5, <1>6, <1>7, <1>8, <1>9, <1>10 DEF Next, MainStep

\* What an invocation that succeeded had selected has landed by its own calls.
LEMMA OwnLanded ==
  ASSUME IInv, NEW i \in Invocations, pc[i] \in Final, NEW u \in Selected(i)
  PROVE  status[<<i, u>>] = "success"
<1>1. Rank(i, u) < done[i]
  BY RankBelowLimit DEF IInv, InStep
<1> QED
  BY <1>1 DEF IInv, InStep, Running

\* The second of two that selected the same unit finds an audit row too many.
LEMMA OneTooMany ==
  ASSUME IInv, NEW i \in Invocations, NEW j \in Invocations, i # j, Counted(j),
         pc[i] = "succeeded", pc[j] = "rows_checked", AuditsAddUp(j)
  PROVE  Selected(i) \cap Selected(j) = {}
<1> SUFFICES ASSUME NEW u \in Selected(i), u \in Selected(j) PROVE FALSE
  OBVIOUS
<1> DEFINE r == <<i, u>>
<1>1. status[r] = "success" /\ r \in Runs
  BY OwnLanded, SelectedUnits DEF Final, Runs
<1>2. r \in Theirs(j) /\ r \in Begun /\ r \notin Own(j)
  BY <1>1 DEF Theirs, Begun, Own
<1>3. PICK S \in SUBSET Begun :
        Cardinality(S) = before[j].audits /\ S \cap Own(j) = {} /\ S \cap Theirs(j) = {}
  BY DEF Counted, Running, Final
<1>4. Cardinality(Own(j)) = done[j]
  BY DEF IInv, InStep, Running, Final, AtUnit
<1>5. IsFiniteSet(S) /\ Cardinality(S) \in Nat
  BY <1>3, OwnFinite, FS_Subset, FS_CardinalityType
<1>6. IsFiniteSet(S \cup Own(j)) /\ Cardinality(S \cup Own(j)) = before[j].audits + done[j]
  <2>1. S \cap Own(j) = {} /\ Cardinality({}) = 0
    BY <1>3, FS_EmptySet
  <2>2. Cardinality(S \cup Own(j)) = Cardinality(S) + Cardinality(Own(j)) - Cardinality(S \cap Own(j))
        /\ IsFiniteSet(S \cup Own(j))
    BY <1>5, OwnFinite, FS_Union
  <2>3. Cardinality(Own(j)) \in Nat /\ Cardinality(S \cap Own(j)) = 0
    BY <2>1, OwnFinite
  <2>4. Cardinality(S \cup Own(j)) = Cardinality(S) + Cardinality(Own(j))
    BY <1>5, <2>2, <2>3
  <2> QED
    BY <1>3, <1>4, <2>2, <2>4
<1>7. S \cup Own(j) \in SUBSET Begun /\ r \notin S \cup Own(j)
  BY <1>2, <1>3, OwnFinite
<1>8. Cardinality(S \cup Own(j)) < Cardinality(Begun)
  BY <1>2, <1>7, OwnFinite, FewerInPart
<1>9. Cardinality(Begun) = before[j].audits + done[j] /\ Cardinality(Begun) \in Int
  BY OwnFinite, RunsFinite DEF Begun, AuditCount, AuditsAddUp
<1> HIDE DEF r
<1> QED
  BY <1>6, <1>8, <1>9

DisjointInv == IInv /\ (\A j \in Invocations : Counted(j)) /\ SuccessesDisjoint

LEMMA DisjointStep == DisjointInv /\ [Next]_vars => DisjointInv'
<1> SUFFICES ASSUME DisjointInv, [Next]_vars PROVE DisjointInv'
  OBVIOUS
<1>1. IInv /\ IInv' /\ TypeOK /\ pc \in [Invocations -> PCs]
  BY StepHolds DEF DisjointInv, IInv, TypeOK
<1>2. CASE UNCHANGED vars
  <2>1. \A j \in Invocations : Counted(j)'
    BY <1>2 DEF DisjointInv, Counted, Begun, Own, Theirs, Selected, vars
  <2>2. SuccessesDisjoint'
    BY <1>2 DEF DisjointInv, SuccessesDisjoint, Selected, vars
  <2> QED
    BY <1>1, <2>1, <2>2 DEF DisjointInv
<1>3. CASE Next
  <2>1. \A j \in Invocations : Counted(j)'
    BY <1>1, <1>3, CountedStep DEF DisjointInv
  \* Whoever has succeeded was so before, or has just seen its audits add up.
  <2>2. ASSUME NEW j \in Invocations, pc'[j] = "succeeded"
        PROVE  /\ Selected(j)' = Selected(j)
               /\ \/ Untouched(j) /\ pc[j] = "succeeded"
                  \/ pc[j] = "rows_checked" /\ AuditsAddUp(j) /\ \A i \in Invocations \ {j} : Untouched(i)
    <3>1. CASE Untouched(j)
      BY <2>2, <3>1, SameSelection DEF Untouched
    <3>2. CASE InspectProgress(j) \/ MainStep(j) \/ Crash(j)
      <4>1. CheckFinalAudits(j) /\ Proceed(j, "rows_checked", "succeeded") /\ AuditsAddUp(j)
        BY <1>1, <2>2, <3>2 DEF InspectProgress, MainStep, Crash, ReadRows, ReadAudits, Refuse, Authorize,
             Reinspect, StartUnit, UnitLands, UnitFails, UnitInterrupted, ValidateUnit, CheckProgress, CheckFinalProgress,
             CheckFinalRows, CheckFinalAudits, Proceed, Goto
      <4>2. Selected(j)' = Selected(j) /\ pc[j] = "rows_checked"
        BY <4>1, SameSelection DEF Proceed, Goto, Ended
      <4> QED
        BY <1>1, <3>2, <4>1, <4>2, OthersUntouched
    <3>3. CASE BeginRecent \/ EndRecent
      BY <1>1, <3>1, <3>3, OtherCallTouchesNone
    <3>4. ASSUME NEW i \in Invocations \ {j}, InspectProgress(i) \/ MainStep(i) \/ Crash(i)
          PROVE  Untouched(j)
      BY <1>1, <3>4, OthersUntouched
    <3> QED
      BY <1>3, <3>1, <3>2, <3>3, <3>4 DEF Next
  <2>3. ASSUME NEW i \in Invocations, NEW j \in Invocations, i # j,
               pc'[i] = "succeeded", pc'[j] = "succeeded"
        PROVE  Selected(i)' \cap Selected(j)' = {}
    <3>1. Selected(i)' = Selected(i) /\ Selected(j)' = Selected(j)
      BY <2>2, <2>3
    <3>2. CASE pc[i] = "succeeded" /\ pc[j] = "succeeded"
      BY <2>3, <3>1, <3>2 DEF DisjointInv, SuccessesDisjoint
    <3>3. CASE pc[i] # "succeeded"
      <4>1. pc[i] = "rows_checked" /\ AuditsAddUp(i) /\ pc[j] = "succeeded"
        BY <2>2, <2>3, <3>3 DEF Untouched
      <4> QED
        BY <1>1, <2>3, <3>1, <4>1, OneTooMany DEF DisjointInv
    <3>4. CASE pc[j] # "succeeded"
      <4>1. pc[j] = "rows_checked" /\ AuditsAddUp(j) /\ pc[i] = "succeeded"
        BY <2>2, <2>3, <3>4 DEF Untouched
      <4> QED
        BY <1>1, <2>3, <3>1, <4>1, OneTooMany DEF DisjointInv
    <3> QED
      BY <3>2, <3>3, <3>4
  <2> QED
    BY <1>1, <2>1, <2>3 DEF DisjointInv, SuccessesDisjoint
<1> QED
  BY <1>2, <1>3

\* However many invocations run beside each other, no two of them succeed on the same
\* unit: counting the audit rows before and after the batch is enough, without a lock.
\* (capture_readonly_snapshot, the audit count after the batch)
THEOREM SuccessesAlwaysDisjoint == Spec => []SuccessesDisjoint
<1>1. Init => DisjointInv
  BY InitHolds DEF DisjointInv, Init, Counted, SuccessesDisjoint, Running, AtUnit, Final
<1>2. DisjointInv => SuccessesDisjoint
  BY DEF DisjointInv
<1> QED
  BY <1>1, <1>2, DisjointStep, PTL DEF Spec

-------------------------------------------------------------------------------
(* The order of completion. *)

LEMMA CompleteMeans ==
  ASSUME NEW u \in Units
  PROVE  Complete(u) <=> \E r \in Begun : request[r] = UnitRequest(u) /\ status[r] = "success"
BY Statuses DEF Complete, UnitProgress

LEMMA CompleteMeansNext ==
  ASSUME NEW u \in Units
  PROVE  Complete(u)' <=> \E r \in Begun' : request'[r] = UnitRequest(u) /\ status'[r] = "success"
<1> DEFINE exact == {b \in Audits' : b.request = UnitRequest(u)}
           row(r) == [request |-> request'[r], status |-> status'[r]]
<1>1. ASSUME NEW r \in Begun', request'[r] = UnitRequest(u)
      PROVE  row(r) \in exact /\ row(r).status = status'[r]
  BY <1>1 DEF Audits, Begun
<1>2. ASSUME NEW b \in exact
      PROVE  \E r \in Begun' : request'[r] = UnitRequest(u) /\ status'[r] = b.status
  BY <1>2 DEF Audits, Begun
<1>3. Complete(u)' <=> \E a \in exact : a.status = "success"
  BY DEF Complete, UnitProgress
<1> HIDE DEF exact, row
<1> QED
  BY <1>1, <1>2, <1>3

\* A call for the unit has landed.
Covered(u) == Complete(u) \/ LandedAsFailed(u)

LEMMA CoveredStays ==
  ASSUME TypeOK, Grows, LandedFits, NEW u \in Units, Covered(u)
  PROVE  Covered(u)'
<1>1. PICK r \in Runs : r \in landed /\ request[r] = UnitRequest(u) /\ status[r] \in {"success", "failed"}
  BY CompleteMeans DEF Covered, LandedAsFailed, LandedFits, Begun, TypeOK
<1>2. /\ r \in landed' /\ request'[r] = UnitRequest(u)
      /\ status'[r] \in {"success", "failed"}
  BY <1>1 DEF Grows
<1>3. CASE status'[r] = "success"
  BY <1>2, <1>3, CompleteMeansNext DEF Covered, Begun
<1>4. CASE status'[r] = "failed"
  BY <1>2, <1>4 DEF Covered, LandedAsFailed
<1> QED
  BY <1>2, <1>3, <1>4

\* Every unit that an invocation in its batch skips lies after its batch or has landed.
SkipsCovered(j) ==
  /\ pc[j] = "authorized" => Having(before[j].progress, "AMBIGUOUS") = {}
  /\ pc[j] \in Running =>
       \A u \in Units \ Selected(j), v \in Selected(j) : u < v => Covered(u)

\* The second look finds no unit ambiguous and the same ones first among the pending.
LEMMA SkippedAreComplete ==
  ASSUME IInv, NEW j \in Invocations, Reinspect(j), pc'[j] = "next",
         Having(before[j].progress, "AMBIGUOUS") = {},
         NEW u \in Units \ Selected(j), NEW v \in Selected(j), u < v
  PROVE  Complete(u)
<1> DEFINE again == PlanProgress(Audits)
           pending == Having(again, "PENDING")
           upto(x) == {w \in pending : w <= x}
<1>1. Counts(again) = Counts(before[j].progress) /\ FirstOf(pending, limit[j]) = Selected(j)
  BY DEF Reinspect, Proceed, Goto, IInv, TypeOK
<1>2. Having(again, "AMBIGUOUS") = {}
  <2>1. Cardinality(Having(again, "AMBIGUOUS")) = 0
    BY <1>1, FS_EmptySet DEF Counts
  <2>2. IsFiniteSet(Having(again, "AMBIGUOUS"))
    BY UnitsFinite, FS_Subset DEF Having
  <2> QED
    BY <2>1, <2>2, FS_EmptySet
<1>3. again[u] # "PENDING"
  <2>1. SUFFICES ASSUME u \in pending PROVE FALSE
    BY DEF Having
  <2>2. v \in pending /\ Cardinality(upto(v)) <= limit[j] /\ pending \subseteq Nat /\ limit[j] \in Int
    <3>1. v \in FirstOf(pending, limit[j])
      BY <1>1
    <3>2. pending \subseteq Nat
      BY UnitsFinite DEF Having
    <3>3. limit[j] \in Int
      BY DEF IInv, TypeOK
    <3> QED
      BY <3>1, <3>2, <3>3 DEF FirstOf
  <2>3. upto(u) \in SUBSET upto(v) /\ v \in Nat /\ u \in Nat
    BY <2>1, <2>2
  <2>4. IsFiniteSet(upto(v))
    BY UnitsFinite, FS_Subset DEF Having
  <2>5. Cardinality(upto(u)) <= Cardinality(upto(v))
        /\ Cardinality(upto(u)) \in Nat /\ Cardinality(upto(v)) \in Nat
    BY <2>3, <2>4, FS_Subset, FS_CardinalityType
  <2>6. Cardinality(upto(u)) <= limit[j]
    BY <2>2, <2>5
  <2>7. u \in FirstOf(pending, limit[j])
    BY <2>1, <2>6 DEF FirstOf
  <2> QED
    BY <1>1, <2>7
<1>4. again[u] = UnitProgress(u, Audits) /\ again[u] \in {"COMPLETE", "PENDING", "AMBIGUOUS"}
  BY ProgressTyped DEF PlanProgress
<1>5. again[u] # "AMBIGUOUS"
  BY <1>2 DEF Having
<1> HIDE DEF again
<1> QED
  BY <1>3, <1>4, <1>5 DEF Complete

LEMMA SkipsStep ==
  ASSUME IInv, Next, NEW j \in Invocations, SkipsCovered(j)
  PROVE  SkipsCovered(j)'
<1>0. TypeOK /\ LandedFits /\ Grows /\ pc \in [Invocations -> PCs]
  BY DatabaseStep DEF IInv, TypeOK
<1>1. ASSUME limit'[j] = limit[j], before'[j] = before[j],
             pc'[j] \in Running => pc[j] \in Running,
             pc'[j] = "authorized" => pc[j] = "authorized"
      PROVE  SkipsCovered(j)'
  <2>1. Selected(j)' = Selected(j)
    BY <1>1, SameSelection
  <2>2. pc'[j] = "authorized" => Having(before[j].progress, "AMBIGUOUS")' = {}
    BY <1>1 DEF SkipsCovered, Having
  <2>3. ASSUME pc'[j] \in Running, NEW u \in Units \ Selected(j), NEW v \in Selected(j), u < v
        PROVE  Covered(u)'
    BY <1>0, <1>1, <2>3, CoveredStays DEF SkipsCovered
  <2> QED
    BY <2>1, <2>2, <2>3 DEF SkipsCovered
<1>2. ASSUME pc'[j] \notin Running \cup {"authorized"}
      PROVE  SkipsCovered(j)'
  BY <1>2 DEF SkipsCovered
<1>3. ASSUME Untouched(j)
      PROVE  SkipsCovered(j)'
  BY <1>1, <1>3 DEF Untouched
<1>4. CASE InspectProgress(j) \/ ReadRows(j) \/ ReadAudits(j) \/ Refuse(j) \/ Crash(j)
  BY <1>0, <1>2, <1>4 DEF InspectProgress, ReadRows, ReadAudits, Refuse, Crash, Proceed, Goto,
                          Running, AtUnit, Final
<1>5. CASE Authorize(j)
  <2>1. /\ pc'[j] = "authorized" /\ before' = before
        /\ Having(before[j].progress, "AMBIGUOUS") = {}
    BY <1>0, <1>5 DEF Authorize, MayAuthorize, Proceed, Goto, Ended
  <2> QED
    BY <2>1 DEF SkipsCovered, Having, Running, AtUnit, Final
<1>6. CASE Reinspect(j)
  <2>1. pc[j] = "authorized" /\ pc'[j] \in {"next", "failed"}
    BY <1>0, <1>6 DEF Reinspect, Proceed, Goto
  <2>2. CASE pc'[j] = "failed"
    BY <1>2, <2>2 DEF Running, AtUnit, Final
  <2>3. CASE pc'[j] = "next"
    <3>1. limit' = limit /\ before' = before
      BY <1>0, <1>6, <2>3 DEF Reinspect, Proceed, Goto, Ended
    <3>2. Selected(j)' = Selected(j)
      BY <3>1, SameSelection
    <3>3. ASSUME NEW u \in Units \ Selected(j), NEW v \in Selected(j), u < v
          PROVE  Covered(u)'
      <4>1. Covered(u)
        BY <1>6, <2>1, <2>3, <3>3, SkippedAreComplete DEF SkipsCovered, Covered
      <4> QED
        BY <1>0, <4>1, CoveredStays
    <3> QED
      BY <2>3, <3>2, <3>3 DEF SkipsCovered
  <2> QED
    BY <2>1, <2>2, <2>3
<1>7. ASSUME NEW from \in Running, NEW to, Proceed(j, from, to), to # "authorized"
      PROVE  SkipsCovered(j)'
  <2>1. pc[j] = from /\ pc'[j] = to
    BY <1>0, <1>7 DEF Proceed, Goto
  <2>2. CASE to \in Ended \ {"succeeded"}
    BY <1>2, <2>1, <2>2 DEF Running, AtUnit, Final, Ended
  <2>3. CASE to \notin Ended \ {"succeeded"}
    BY <1>1, <1>7, <2>1, <2>3 DEF Proceed
  <2> QED
    BY <2>2, <2>3
<1>8. CASE StartUnit(j) \/ UnitLands(j) \/ UnitFails(j) \/ UnitInterrupted(j) \/ ValidateUnit(j)
           \/ CheckFinalProgress(j) \/ CheckFinalRows(j) \/ CheckFinalAudits(j)
  <2>1. \E from \in Running : \E to : Proceed(j, from, to) /\ to # "authorized"
    BY <1>8 DEF StartUnit, UnitLands, UnitFails, UnitInterrupted, ValidateUnit, CheckFinalProgress, CheckFinalRows,
                CheckFinalAudits, Running, AtUnit, Final
  <2> QED
    BY <1>7, <2>1
<1>9. CASE CheckProgress(j)
  <2>1. CASE Proceed(j, "validated", "failed")
    BY <1>7, <2>1 DEF Running, AtUnit
  <2>2. CASE \E to \in {"next", "finishing"} : Goto(j, "validated", to) /\ UNCHANGED <<limit, before>>
    BY <1>0, <1>1, <2>2 DEF Goto, Running, AtUnit, Final
  <2> QED
    BY <1>9, <2>1, <2>2 DEF CheckProgress
<1>10. CASE BeginRecent \/ EndRecent
  BY <1>0, <1>3, <1>10, OtherCallTouchesNone
<1>11. ASSUME NEW i \in Invocations \ {j}, InspectProgress(i) \/ MainStep(i) \/ Crash(i)
       PROVE  SkipsCovered(j)'
  BY <1>0, <1>3, <1>11, OthersUntouched
<1> QED
  BY <1>4, <1>5, <1>6, <1>8, <1>9, <1>10, <1>11 DEF Next, MainStep

\* When an invocation comes to a unit, every earlier unit has landed.
LEMMA EarlierCovered ==
  ASSUME IInv, NEW i \in Invocations, SkipsCovered(i), pc[i] = "ingesting",
         NEW v \in Units, v < unit[i]
  PROVE  Covered(v)
<1>1. unit[i] \in Selected(i) /\ Rank(i, unit[i]) = done[i]
  BY DEF IInv, InStep, AtUnit
<1>2. CASE v \notin Selected(i)
  BY <1>1, <1>2 DEF SkipsCovered, Running, AtUnit
<1>3. CASE v \in Selected(i)
  <2>1. Rank(i, v) < done[i]
    BY <1>1, <1>3, SelectedUnits, RanksGrow
  <2>2. status[<<i, v>>] = "success" /\ <<i, v>> \in Begun /\ request[<<i, v>>] = UnitRequest(v)
    BY <1>3, <2>1 DEF IInv, InStep, RequestsFit, Running, AtUnit, Begun, Runs
  <2> QED
    BY <2>2, CompleteMeans DEF Covered
<1> QED
  BY <1>2, <1>3

OrderInv == IInv /\ (\A i \in Invocations : SkipsCovered(i)) /\ LandedInOrder

LEMMA OrderStep == OrderInv /\ [Next]_vars => OrderInv'
<1> SUFFICES ASSUME OrderInv, [Next]_vars PROVE OrderInv'
  OBVIOUS
<1>1. IInv /\ IInv'
  BY StepHolds DEF OrderInv
<1>2. CASE UNCHANGED vars
  <2>1. \A u \in Units : Covered(u)' = Covered(u) /\ Complete(u)' = Complete(u)
                          /\ LandedAsFailed(u)' = LandedAsFailed(u)
    BY <1>2 DEF Covered, Complete, LandedAsFailed, Audits, vars
  <2> QED
    BY <1>1, <1>2, <2>1, SelectedUnits DEF OrderInv, SkipsCovered, LandedInOrder, Selected, vars
<1>3. CASE Next
  <2>1. \A i \in Invocations : SkipsCovered(i)'
    BY <1>1, <1>3, SkipsStep DEF OrderInv
  <2>2. ASSUME NEW i \in Invocations, NEW u \in Units, NEW v \in Units, v < u,
               <<i, u>> \in landed'
        PROVE  Covered(v)'
    <3>1. Covered(v)
      <4>1. CASE <<i, u>> \in landed
        BY <2>2, <4>1 DEF OrderInv, LandedInOrder, Covered
      <4>2. CASE <<i, u>> \notin landed
        BY <1>1, <1>3, <2>2, <4>2, LandsAtItsUnit, EarlierCovered DEF OrderInv
      <4> QED
        BY <4>1, <4>2
    <3> QED
      BY <1>1, <1>3, <3>1, DatabaseStep, CoveredStays DEF IInv
  <2> QED
    BY <1>1, <2>1, <2>2 DEF OrderInv, LandedInOrder, Covered
<1> QED
  BY <1>2, <1>3

LEMMA OrderHolds == Spec => []OrderInv
<1>1. Init => OrderInv
  BY InitHolds DEF OrderInv, Init, SkipsCovered, LandedInOrder, Running, AtUnit, Final
<1> QED
  BY <1>1, OrderStep, PTL DEF Spec

\* An invocation's call for a unit lands only once every earlier unit has landed,
\* whatever overlaps, fails or dies and whatever else lands on the stream.
\* (select_authorized_units, progress_again, main's order)
THEOREM InvocationsLandInOrder == Spec => []LandedInOrder
<1>1. OrderInv => LandedInOrder
  BY DEF OrderInv
<1> QED
  BY <1>1, OrderHolds, PTL

\* Without Ctrl-C, what has landed stays a success.
LandedSucceeds == \A r \in landed : status[r] = "success"

LEMMA LandedSucceedsStep ==
  ASSUME "interrupt" \notin Faults, IInv, LandedSucceeds, [Next]_vars
  PROVE  LandedSucceeds'
<1>0. TypeOK /\ LandedFits
  BY DEF IInv
<1>1. CASE UNCHANGED vars \/ UNCHANGED db
  BY <1>1 DEF LandedSucceeds, vars, db
<1>2. ASSUME NEW r \in Runs, Ingestion!Begin(r) /\ landed' = landed
      PROVE  LandedSucceeds'
  BY <1>0, <1>2 DEF TypeOK, LandedSucceeds, Ingestion!Begin
<1>3. ASSUME NEW r \in Runs, CallLands(r)
      PROVE  LandedSucceeds'
  BY <1>0, <1>3 DEF TypeOK, LandedSucceeds, CallLands, Ingestion!Land
<1>4. ASSUME NEW r \in Runs, CallFails(r)
      PROVE  LandedSucceeds'
  BY <1>0, <1>4 DEF TypeOK, LandedSucceeds, CallFails, Ingestion!Fail
<1> QED
  BY <1>1, <1>2, <1>3, <1>4, DatabaseKinds

\* The stream's other calls never ask for just the window of a unit.
OthersApart == \A u \in Units : UnitRequest(u) \notin RecentRequests

\* Where no other call asks for just a unit's window and nobody presses Ctrl-C in a call
\* that has committed, the complete units are the first ones of the plan.
\* (classify_plan_progress)
THEOREM PrefixAlwaysComplete ==
  ASSUME OthersApart, "interrupt" \notin Faults
  PROVE  Spec => []CompletePrefix
<1>1. Init => LandedSucceeds
  BY DEF Init, LandedSucceeds
<1>2. OrderInv /\ LandedSucceeds => CompletePrefix
  <2> SUFFICES ASSUME OrderInv, LandedSucceeds, NEW u \in Units, NEW v \in Units, v < u, Complete(u)
               PROVE  Complete(v)
    BY DEF CompletePrefix
  <2>1. PICK r \in Begun : request[r] = UnitRequest(u) /\ status[r] = "success"
    BY CompleteMeans
  <2>2. r \in Runs /\ r # Recent /\ RequestsFit /\ r \in landed
    BY <2>1 DEF OrderInv, IInv, RequestsFit, LandedFits, OthersApart, Begun
  <2>3. PICK i \in Invocations, w \in Units : r = <<i, w>>
    BY <2>2 DEF Runs
  <2>4. w = u
    BY <2>1, <2>2, <2>3, RequestsApart DEF RequestsFit
  <2>5. Complete(v) \/ LandedAsFailed(v)
    BY <2>2, <2>3, <2>4 DEF OrderInv, LandedInOrder
  <2> QED
    BY <2>5 DEF LandedAsFailed, LandedSucceeds
<1>3. OrderInv /\ LandedSucceeds /\ [Next]_vars => LandedSucceeds'
  BY LandedSucceedsStep DEF OrderInv
<1> QED
  BY <1>1, <1>2, <1>3, OrderHolds, PTL DEF Spec

-------------------------------------------------------------------------------
(* Termination, but for the fairness. *)

\* The steps a started invocation has before it at most: four for every unit still to
\* be ingested, and what its place takes.
Place(p) ==
  CASE p = "inspected" -> 12 [] p = "rows_read" -> 11 [] p = "snapshot" -> 10
    [] p = "authorized" -> 9 [] p = "next" -> 8 [] p = "ingesting" -> 7 [] p = "landed" -> 6
    [] p = "validated" -> 5 [] p = "finishing" -> 4 [] p = "progress_checked" -> 3
    [] p = "rows_checked" -> 2 [] OTHER -> 0

Left(i) ==
  IF pc[i] \in Ended \cup {"idle"} THEN 0 ELSE 4 * (limit[i] - done[i]) + Place(pc[i])

LEMMA LeftBounded ==
  ASSUME IInv, NEW i \in Invocations
  PROVE  /\ Left(i) \in 0..(4 * MaxUnits + 12)
         /\ pc[i] \notin Ended \cup {"idle"} =>
              /\ limit[i] - done[i] \in 0..MaxUnits
              /\ Left(i) = 4 * (limit[i] - done[i]) + Place(pc[i]) /\ Place(pc[i]) \in 2..12
<1>1. pc[i] \in PCs /\ limit[i] \in 0..MaxUnits /\ done[i] \in 0..MaxUnits /\ MaxUnits \in Nat
  BY MaxUnitsAssumption DEF IInv, TypeOK
<1>2. CASE pc[i] \in Ended \cup {"idle"}
  BY <1>1, <1>2 DEF Left
<1>3. CASE pc[i] \notin Ended \cup {"idle"}
  <2>1. limit[i] - done[i] \in 0..MaxUnits
    BY <1>1, <1>3 DEF IInv, InStep, PCs, Early, AtUnit, Final, Running
  <2>2. Place(pc[i]) \in 2..12
    BY <1>1, <1>3 DEF PCs, Place
  <2>3. Left(i) = 4 * (limit[i] - done[i]) + Place(pc[i])
    BY <1>3 DEF Left
  <2>4. \A n \in 0..MaxUnits, k \in 2..12 : 4 * n + k \in 0..(4 * MaxUnits + 12)
    BY <1>1
  <2> QED
    BY <2>1, <2>2, <2>3, <2>4
<1> QED
  BY <1>2, <1>3

LEMMA MainRunsDown ==
  ASSUME IInv, IInv', NEW i \in Invocations, MainStep(i) \/ Crash(i)
  PROVE  pc'[i] # pc[i] /\ pc[i] # "idle" /\ Left(i)' < Left(i)
<1> DEFINE spare == limit[i] - done[i]
           place == Place(pc[i])
           spareNext == (limit[i] - done[i])'
           placeNext == Place(pc'[i])
<1>1. pc \in [Invocations -> PCs] /\ done \in [Invocations -> 0..MaxUnits] /\ MaxUnits \in Nat
      /\ limit \in [Invocations -> 0..MaxUnits]
  BY MaxUnitsAssumption DEF IInv, TypeOK
<1>2. pc[i] \notin Ended \cup {"idle"}
  BY DEF MainStep, Crash, Proceed, Goto, Ended, ReadRows, ReadAudits, Refuse, Authorize, Reinspect,
         StartUnit, UnitLands, UnitFails, UnitInterrupted, ValidateUnit, CheckProgress, CheckFinalProgress,
         CheckFinalRows, CheckFinalAudits
<1> SUFFICES Left(i)' < Left(i) /\ pc'[i] # pc[i]
  BY <1>2
<1>3. spare \in 0..MaxUnits /\ Left(i) = 4 * spare + place /\ place \in 2..12
  BY <1>2, LeftBounded
<1>4. ASSUME pc'[i] \in Ended PROVE Left(i)' < Left(i) /\ pc'[i] # pc[i]
  <2>1. Left(i)' = 0
    BY <1>4 DEF Left
  <2> HIDE DEF spare, place
  <2>2. \A n \in 0..MaxUnits, k \in 2..12 : 0 < 4 * n + k
    BY <1>1
  <2> QED
    BY <1>2, <1>3, <1>4, <2>1, <2>2
<1>5. ASSUME pc'[i] \notin Ended \cup {"idle"}, limit' = limit, done' = done, placeNext < place
      PROVE  Left(i)' < Left(i) /\ pc'[i] # pc[i]
  <2>1. Left(i)' = 4 * spare + placeNext
    BY <1>5 DEF Left
  <2>2. placeNext \in 0..12
    BY DEF Place
  <2>3. pc'[i] # pc[i]
    BY <1>5, <1>3
  <2> HIDE DEF spare, place, placeNext
  <2> QED
    BY <1>1, <1>3, <1>5, <2>1, <2>2, <2>3
<1>6. ASSUME NEW from \in PCs, NEW to \in PCs, Goto(i, from, to) PROVE pc[i] = from /\ pc'[i] = to
  BY <1>1, <1>6 DEF Goto
<1>7. ASSUME NEW from \in PCs \ (Ended \cup {"idle"}), NEW to \in PCs \ {"idle"}, Proceed(i, from, to),
             to \notin Ended => Place(to) < Place(from)
      PROVE  Left(i)' < Left(i) /\ pc'[i] # pc[i]
  <2>1. pc[i] = from /\ pc'[i] = to
    BY <1>6, <1>7 DEF Proceed
  <2>2. CASE to \in Ended
    BY <1>4, <2>1, <2>2
  <2>3. CASE to \notin Ended
    <3>1. limit' = limit /\ done' = done
      BY <1>7, <2>3 DEF Proceed
    <3> QED
      BY <1>5, <1>7, <2>1, <2>3, <3>1
  <2> QED
    BY <2>2, <2>3
<1> USE DEF PCs, Ended, Place
<1>8. CASE ReadRows(i) \/ ReadAudits(i)
  <2>1. limit' = limit /\ done' = done
    BY <1>8 DEF ReadRows, ReadAudits
  <2>2. \/ pc[i] = "inspected" /\ pc'[i] = "rows_read"
        \/ pc[i] = "rows_read" /\ pc'[i] = "snapshot"
    BY <1>6, <1>8 DEF ReadRows, ReadAudits
  <2> QED
    BY <1>5, <2>1, <2>2
<1>9. CASE Refuse(i) \/ Authorize(i) \/ Reinspect(i)
  BY <1>7, <1>9 DEF Refuse, Authorize, Reinspect
<1>10. CASE StartUnit(i) \/ UnitLands(i) \/ UnitFails(i) \/ UnitInterrupted(i) \/ ValidateUnit(i)
  BY <1>7, <1>10 DEF StartUnit, UnitLands, UnitFails, UnitInterrupted, ValidateUnit
<1>11. CASE CheckProgress(i)
  <2>1. CASE Proceed(i, "validated", "failed")
    BY <1>7, <2>1
  <2>2. CASE ~Proceed(i, "validated", "failed")
    <3>1. /\ \/ Goto(i, "validated", "next")
             \/ Goto(i, "validated", "finishing")
          /\ CountDone(i) /\ limit' = limit
      BY <1>11, <2>2 DEF CheckProgress
    <3>2. pc[i] = "validated" /\ pc'[i] \in {"next", "finishing"}
      BY <1>6, <3>1
    <3>3. done'[i] = done[i] + 1 /\ limit'[i] = limit[i]
      BY <1>1, <3>1 DEF CountDone
    <3>4. Left(i)' = 4 * spareNext + placeNext /\ spareNext = spare - 1
      BY <1>1, <3>2, <3>3 DEF Left
    <3>5. place = 5 /\ placeNext \in {4, 8}
      BY <3>2
    <3> HIDE DEF spare, place, spareNext, placeNext
    <3>6. \A n \in 0..MaxUnits, k \in {4, 8} : 4 * (n - 1) + k < 4 * n + 5
      BY <1>1
    <3> QED
      BY <1>3, <3>2, <3>4, <3>5, <3>6
  <2> QED
    BY <2>1, <2>2
<1>12. CASE CheckFinalProgress(i) \/ CheckFinalRows(i) \/ CheckFinalAudits(i)
  BY <1>7, <1>12 DEF CheckFinalProgress, CheckFinalRows, CheckFinalAudits
<1>13. CASE Crash(i)
  <2>1. pc'[i] = "crashed"
    BY <1>1, <1>13 DEF Crash, Proceed, Goto
  <2> QED
    BY <1>4, <2>1
<1> HIDE DEF PCs, Ended, Place
<1> QED
  BY <1>8, <1>9, <1>10, <1>11, <1>12, <1>13 DEF MainStep

\* Whatever fails, dies or overlaps, an invocation takes at most 4 * MaxUnits + 12 steps:
\* each of its own leaves less of a number that nobody else's changes.  No unit is tried
\* again.  (execute_pending_units; run_one has no retry)
THEOREM InvocationsRunDown ==
  Spec => /\ [](\A i \in Invocations : Left(i) \in 0..(4 * MaxUnits + 12))
          /\ [][\A i \in Invocations : pc[i] # "idle" =>
                  \/ Left(i)' = Left(i) /\ pc'[i] = pc[i]
                  \/ Left(i)' < Left(i) /\ pc'[i] # pc[i]]_vars
<1>1. IInv => \A i \in Invocations : Left(i) \in 0..(4 * MaxUnits + 12)
  BY LeftBounded
<1>2. IInv /\ IInv' /\ [Next]_vars =>
        [\A i \in Invocations : pc[i] # "idle" =>
           \/ Left(i)' = Left(i) /\ pc'[i] = pc[i]
           \/ Left(i)' < Left(i) /\ pc'[i] # pc[i]]_vars
  <2> SUFFICES ASSUME IInv, IInv', Next, NEW j \in Invocations, pc[j] # "idle"
               PROVE  \/ Left(j)' = Left(j) /\ pc'[j] = pc[j]
                      \/ Left(j)' < Left(j) /\ pc'[j] # pc[j]
    OBVIOUS
  <2>1. ASSUME Untouched(j) PROVE Left(j)' = Left(j) /\ pc'[j] = pc[j]
    BY <2>1 DEF Untouched, Left, Place
  <2>2. CASE BeginRecent \/ EndRecent
    BY <2>1, <2>2, OtherCallTouchesNone DEF IInv
  <2>3. ASSUME NEW i \in Invocations, InspectProgress(i) \/ MainStep(i) \/ Crash(i)
        PROVE  \/ Left(j)' = Left(j) /\ pc'[j] = pc[j]
               \/ Left(j)' < Left(j) /\ pc'[j] # pc[j]
    <3>1. CASE i # j
      BY <2>1, <2>3, <3>1, OthersUntouched DEF IInv
    <3>2. CASE i = j
      <4>1. ~InspectProgress(i)
        BY <3>2 DEF InspectProgress, Goto
      <4> QED
        BY <2>3, <3>2, <4>1, MainRunsDown
    <3> QED
      BY <3>1, <3>2
  <2> QED
    BY <2>2, <2>3 DEF Next
<1> QED
  BY <1>1, <1>2, InvariantHolds, PTL DEF Spec

===============================================================================
