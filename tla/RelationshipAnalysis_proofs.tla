---------------------- MODULE RelationshipAnalysis_proofs ----------------------
(***************************************************************************)
(* What the pure operators of MarketHours and RelationshipAnalysis         *)
(* compute, for every value of their constants.                            *)
(***************************************************************************)
EXTENDS RelationshipAnalysis, TLAPS

\* Whatever rule wrote a sale's stored time, reading it back gives the time of its
\* block: the overlap is wide enough, and the spring change is undone.
\* (aggregate_market_production's CASE, reconstruct_non_overlap_timestamp)
THEOREM EventUtcExact == \A s \in Sales : EventUtc[s] = BlockTime(s)
<1> SUFFICES ASSUME NEW s \in Sales PROVE EventUtc[s] = s
  BY DEF BlockTime
<1>1. s \in Int /\ HourTicks \in Nat \ {0}
  BY SalesAssumption, HourTicksAssumption
<1>2. EventUtc[s] = IF StoredAt(s) < OverlapStart THEN StoredAt(s) - OldOffset
                    ELSE IF StoredAt(s) >= OverlapEnd THEN FromPacific(StoredAt(s))
                    ELSE s
  <2>1. ~(StoredAt(s) < OverlapStart /\ StoredAt(s) >= OverlapEnd)
    <3>1. StoredAt(s) \in Int
      BY <1>1, OffsetsAssumption, RulesAssumption DEF StoredAt, PacificOffset
    <3>2. OverlapEnd \in Int /\ OverlapStart \in Int /\ OverlapStart < OverlapEnd
      BY RulesAssumption, OffsetsAssumption DEF OverlapEnd, OverlapStart
    <3> QED
      BY <3>1, <3>2
  <2> QED
    BY <2>1 DEF EventUtc, BlockTime
<1>3. CASE s <= LastOld
  <2>1. StoredAt(s) = s + OldOffset
    BY <1>3 DEF StoredAt
  <2>2. s + OldOffset < OverlapEnd
    BY <1>1, <1>3, RulesAssumption, OffsetsAssumption DEF OverlapEnd
  <2>3. OverlapEnd \in Int /\ OverlapStart \in Int
    BY RulesAssumption, OffsetsAssumption DEF OverlapEnd, OverlapStart
  <2>4. ~(StoredAt(s) >= OverlapEnd) /\ StoredAt(s) - OldOffset = s
    BY <1>1, <2>1, <2>2, <2>3, OffsetsAssumption
  <2> QED
    BY <1>2, <2>4
<1>4. CASE ~(s <= LastOld)
  <2>1. PacificOffset(s) \in Int /\ PacificOffset(s) <= WinterOffset
    BY <1>1, OffsetsAssumption DEF PacificOffset
  <2>2. StoredAt(s) = s - PacificOffset(s)
    BY <1>4 DEF StoredAt
  <2>3. ~(s - PacificOffset(s) < OverlapStart)
    BY <1>1, <1>4, <2>1, RulesAssumption, OffsetsAssumption DEF OverlapStart
  <2>4. FromPacific(s - PacificOffset(s)) = s
    <3>1. CASE s >= SummerFrom
      BY <1>1, <3>1, RulesAssumption, OffsetsAssumption DEF FromPacific, PacificOffset
    <3>2. CASE ~(s >= SummerFrom)
      BY <1>1, <3>2, RulesAssumption, OffsetsAssumption DEF FromPacific, PacificOffset
    <3> QED
      BY <3>1, <3>2
  <2> QED
    BY <1>2, <2>2, <2>3, <2>4
<1> QED
  BY <1>3, <1>4

\* An instant of a canonical hour passes the query's range.
LEMMA HourInRange ==
  ASSUME NEW i \in Int, HourOf(i) \in Hours
  PROVE  InRange(i)
<1> DEFINE q == i \div HourTicks
<1>1. HourTicks \in Nat \ {0} /\ FirstHour \in Int /\ LastHour \in Int
  BY HourTicksAssumption, HoursAssumption
<1>2. q \in Int /\ q * HourTicks <= i /\ i < (q + 1) * HourTicks
  BY <1>1
<1>3. FirstHour <= q /\ q <= LastHour
  BY <1>1, <1>2 DEF HourOf, Hours
<1> HIDE DEF q
<1>4. FirstHour * HourTicks <= q * HourTicks
  BY <1>1, <1>2, <1>3
<1>5. (q + 1) * HourTicks <= (LastHour + 1) * HourTicks
  BY <1>1, <1>2, <1>3
<1> QED
  BY <1>1, <1>2, <1>4, <1>5 DEF InRange, FirstInstant, EndInstant

\* Of the sales that are there and were resolved, a market row holds its own only.
\* (aggregate_market_production, build_market_spine)
LEMMA MarketRowsExact ==
  ASSUME NEW present \in SUBSET Sales, NEW resolved,
         NEW m, m = MarketRows(Counted(present, resolved))
  PROVE  /\ m \in [Hours -> SUBSET Sales]
         /\ \A h \in Hours : \A s \in m[h] : HourOf(BlockTime(s)) = h
BY EventUtcExact DEF MarketRows, Counted

\* A sale of a canonical hour is counted in it, if it is there and, in the overlap,
\* resolved: the margins of the query are wide enough for either rule.
\* (aggregate_market_production)
LEMMA SaleCounted ==
  ASSUME NEW present \in SUBSET Sales, NEW resolved,
         NEW s \in present, HourOf(BlockTime(s)) \in Hours,
         InOverlap(StoredAt(s)) => s \in resolved
  PROVE  s \in MarketRows(Counted(present, resolved))[HourOf(BlockTime(s))]
<1>1. s \in Sales /\ s \in Int /\ EventUtc[s] = s /\ BlockTime(s) = s
  BY SalesAssumption, EventUtcExact DEF BlockTime
<1>2. InRange(s)
  BY <1>1, HourInRange
<1>3. FirstInstant \in Int /\ EndInstant \in Int /\ HourTicks \in Nat
  BY HourTicksAssumption, HoursAssumption DEF FirstInstant, EndInstant
<1>4. /\ StoredAt(s) >= FirstInstant - BroadMargin
      /\ StoredAt(s) < EndInstant + BroadMargin
  BY <1>1, <1>2, <1>3, RulesAssumption, OffsetsAssumption
  DEF InRange, StoredAt, PacificOffset
<1> QED
  BY <1>1, <1>2, <1>4 DEF Counted, MarketRows

\* Candidates are hours whose returns are numbers.
LEMMA CandidatesNumbered ==
  ASSUME NEW returns \in [Hours -> Int \cup {Absent}]
  PROVE  /\ Positive(returns) \subseteq Hours /\ Negative(returns) \subseteq Hours
         /\ \A i \in Positive(returns) \cup Negative(returns) : Size(returns[i]) \in Int
<1>1. \A i \in Valid(returns) : i \in Hours /\ returns[i] \in Int
  BY DEF Valid
<1>2. Positive(returns) \subseteq Valid(returns) /\ Negative(returns) \subseteq Valid(returns)
  BY DEF Positive, Negative
<1>3. \A x \in Int : Size(x) \in Int
  BY DEF Size
<1> QED
  BY <1>1, <1>2, <1>3

\* Declustering keeps candidates more than Gap apart, each the largest within Gap.
\* (decluster_candidates)
THEOREM DeclusteredApart ==
  ASSUME NEW candidates \in SUBSET Hours, NEW returns,
         \A i \in candidates : Size(returns[i]) \in Int,
         NEW i \in DeclusterCandidates(candidates, returns)
  PROVE  /\ i \in candidates
         /\ \A j \in DeclusterCandidates(candidates, returns) : j > i => j - i > Gap
         /\ \A j \in candidates :
              Size(j - i) <= Gap => Size(returns[j]) <= Size(returns[i])
<1> DEFINE openers == Openers(candidates)
           Together(a, b) == \A o \in openers : o <= a <=> o <= b
           Beats(a, b) == \/ Size(returns[a]) > Size(returns[b])
                          \/ Size(returns[a]) = Size(returns[b]) /\ a <= b
<1>1. candidates \subseteq Int /\ Gap \in Nat
  BY HoursAssumption, GapAssumption DEF Hours
<1>2. \A a : a \in DeclusterCandidates(candidates, returns) <=>
         /\ a \in candidates
         /\ \A b \in candidates : Together(a, b) => Beats(a, b)
  BY DEF DeclusterCandidates
<1>3. ASSUME NEW a \in candidates, NEW b \in candidates, a < b, ~Together(a, b)
      PROVE  b - a > Gap
  <2>1. PICK o \in openers : ~(o <= a <=> o <= b)
    BY <1>3
  <2>2. o \in candidates /\ o \in Int /\ a < o /\ o <= b
    BY <1>1, <1>3, <2>1 DEF Openers
  <2>3. o - a > Gap
    BY <2>1, <2>2 DEF Openers, Separate
  <2> QED
    BY <1>1, <2>2, <2>3
<1>4. i \in candidates
  BY <1>2
<1>5. ASSUME NEW j \in DeclusterCandidates(candidates, returns), j > i
      PROVE  j - i > Gap
  <2>1. j \in candidates /\ i < j
    BY <1>1, <1>2, <1>4, <1>5
  <2>2. ~Together(i, j)
    <3>1. SUFFICES ASSUME Together(i, j) PROVE FALSE
      OBVIOUS
    <3>2. Together(j, i)
      BY <3>1
    <3>3. Beats(i, j) /\ Beats(j, i)
      BY <1>2, <1>4, <2>1, <3>1, <3>2
    <3> QED
      BY <1>1, <1>4, <2>1, <3>3
  <2> QED
    BY <1>3, <1>4, <2>1, <2>2
<1>6. ASSUME NEW j \in candidates, Size(j - i) <= Gap
      PROVE  Size(returns[j]) <= Size(returns[i])
  <2>1. Together(i, j)
    <3>1. i \in Int /\ j \in Int
      BY <1>1, <1>4
    <3>2. CASE i < j
      BY <1>1, <1>3, <1>4, <1>6, <3>1, <3>2 DEF Size
    <3>3. CASE j < i
      <4>1. Together(j, i)
        BY <1>1, <1>3, <1>4, <1>6, <3>1, <3>3 DEF Size
      <4> QED
        BY <4>1
    <3>4. CASE i = j
      BY <3>4
    <3> QED
      BY <3>1, <3>2, <3>3, <3>4
  <2>2. Beats(i, j)
    BY <1>2, <1>4, <2>1
  <2> QED
    BY <1>4, <2>2
<1> QED
  BY <1>4, <1>5, <1>6

=============================================================================
