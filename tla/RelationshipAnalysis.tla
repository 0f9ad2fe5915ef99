------------------------- MODULE RelationshipAnalysis -------------------------
(***************************************************************************)
(* The price shocks the analysis selects from an aligned snapshot: hours   *)
(* whose return lies beyond a quantile, thinned out to one per cluster,    *)
(* and kept only if the hours they are compared with exist.                *)
(***************************************************************************)
EXTENDS MarketHours

CONSTANTS
  Gap,          \* gap_hours of decluster_candidates
  Pre, Post,    \* eligible_events: the baseline hour and the longest horizon
  Quantile      \* the thresholds are the 1/Quantile and the 1 - 1/Quantile quantile

ASSUME GapAssumption == Gap \in Nat /\ Pre \in Nat /\ Post \in Nat
ASSUME QuantileAssumption == Quantile \in Nat \ {0}

Valid(returns) == {i \in DOMAIN returns : returns[i] # Absent}

\* The k-th of the sorted returns, counted from 0.
Ordered(returns, k) ==
  LET v == Valid(returns) IN
  CHOOSE x \in {returns[i] : i \in v} :
    /\ Cardinality({i \in v : returns[i] < x}) <= k
    /\ k < Cardinality({i \in v : returns[i] <= x})

\* deterministic_quantile at part/Quantile, times Quantile to stay in the integers.
ScaledThreshold(returns, part) ==
  LET position == (Cardinality(Valid(returns)) - 1) * part
      lower == position \div Quantile
      beyond == position % Quantile
      low == Ordered(returns, lower)
  IN  IF beyond = 0 THEN Quantile * low
      ELSE Quantile * low + (Ordered(returns, lower + 1) - low) * beyond

Positive(returns) ==
  LET threshold == ScaledThreshold(returns, Quantile - 1)
  IN  {i \in Valid(returns) : Quantile * returns[i] >= threshold}

Negative(returns) ==
  LET threshold == ScaledThreshold(returns, 1)
  IN  {i \in Valid(returns) : Quantile * returns[i] <= threshold}

Size(change) == IF change < 0 THEN -change ELSE change

ApartFrom(earlier, i) == i - earlier >= Gap

\* A candidate opens a cluster when the one before it is more than Gap back.
Separate(earlier, i) == i - earlier > Gap

Openers(candidates) ==
  {i \in candidates : \A j \in candidates : j < i => Separate(j, i)}

\* decluster_candidates: the largest of each cluster, the earliest of several.
DeclusterCandidates(candidates, returns) ==
  LET openers == Openers(candidates)
      Together(i, j) == \A o \in openers : o <= i <=> o <= j
  IN  {i \in candidates : \A j \in candidates : Together(i, j) =>
         \/ Size(returns[i]) > Size(returns[j])
         \/ Size(returns[i]) = Size(returns[j]) /\ i <= j}

EligibleEvents(candidates) ==
  {i \in candidates : i - Pre >= FirstHour /\ i + Post <= LastHour}

\* build_event_summary: the hours of the two groups of events.
EventSummary(aligned) ==
  LET returns == [h \in Hours |-> aligned[h].return]
      Events(candidates) == EligibleEvents(DeclusterCandidates(candidates, returns))
  IN  [positive |-> Events(Positive(returns)), negative |-> Events(Negative(returns))]

===============================================================================
