---------------------------- MODULE AtomicSnapshot ----------------------------
(***************************************************************************)
(* What the two analytical tables promise to whoever reads them: they are  *)
(* empty, or hold one whole snapshot, and a snapshot replaces another in   *)
(* one step.  Every sale in it stands in the UTC hour of its block, and    *)
(* the aligned rows repeat the market rows beside the prices.              *)
(***************************************************************************)
EXTENDS MarketHours

CONSTANTS PriceSeries, Empty

VARIABLES market, aligned

vars == <<market, aligned>>

Init == market = Empty /\ aligned = Empty

\* A sale stands in no other hour than its own, and so in one at most.
IsSnapshot(m, a) ==
  /\ m \in [Hours -> SUBSET Sales]
  /\ \A h \in Hours : \A s \in m[h] : HourOf(BlockTime(s)) = h
  /\ LET prices == [h \in Hours |-> a[h].price] IN
       /\ prices \in PriceSeries /\ \A h \in Hours : prices[h] # Absent
       /\ a = AlignHourly(m, prices)

Replace == IsSnapshot(market', aligned')

Spec == Init /\ [][Replace]_vars

===============================================================================
