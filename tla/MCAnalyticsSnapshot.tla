------------------------- MODULE MCAnalyticsSnapshot -------------------------
(***************************************************************************)
(* An instance of AnalyticsSnapshot for TLC: eleven hours of two ticks.    *)
(* The rule for stored times changes inside hour 4, the overlap is hours   *)
(* 1 to 7, and Pacific time springs forward at hour 9.                     *)
(***************************************************************************)
EXTENDS AnalyticsSnapshot

\* The last of the old rule before the overlap, the first in it; the first of the new
\* rule; the first after the overlap; both sides of the spring change; the last tick
\* of the range and the first beyond it.
SettledSales == {1, 2, 9, 15, 17, 18, 21, 22}

\* One in the overlap, one after it.
AllSales == SettledSales \cup {14, 19}

OverlapSales == {2, 9}

Series(list) == [h \in Hours |-> list[h + 1]]

\* Shocks in clusters, of equal size and at the end of the range.
Shocks == Series(<<1, 2, 4, 2, 1, 2, 8, 8, 4, 8, 4>>)

\* Shocks exactly two hours apart, and a price of zero.
Sparse == Series(<<1, 2, 2, 4, 4, 0, 2, 2, 1, 1, 2>>)

NotYetComplete == [Shocks EXCEPT ![10] = Absent]

AllSeries == {Shocks, Sparse, NotYetComplete}

===============================================================================
