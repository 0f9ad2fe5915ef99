------------------------------ MODULE MarketHours ------------------------------
(***************************************************************************)
(* The UTC hour of a sale.  public.sales keeps naive wall-clock times: up  *)
(* to some instant a fixed OldOffset ahead of UTC, from then on Pacific    *)
(* time with its spring change.  Stored times that either rule could have  *)
(* written are resolved by the block that holds the sale.  Instants are    *)
(* UTC in ticks, hours are numbered; a sale is identified by its instant,  *)
(* and a market row by the set of the sales it sums up.                    *)
(***************************************************************************)
EXTENDS Integers, FiniteSets

CONSTANTS
  Sales,                  \* the instants of all sales there may be
  HourTicks,              \* ticks to the hour
  FirstHour, LastHour,    \* CANONICAL_START and CANONICAL_END
  OldOffset,              \* five hours in the code
  WinterOffset,           \* eight hours: Pacific standard time
  SummerFrom,             \* the instant of the spring change
  LastOld, FirstNew,      \* the last sale of the old rule, the first of the new
  BroadMargin,            \* a day: the slack of the query's own range
  Absent

ASSUME SalesAssumption == Sales \subseteq Int
ASSUME HourTicksAssumption == HourTicks \in Nat \ {0}
ASSUME HoursAssumption == FirstHour \in Int /\ LastHour \in Int /\ FirstHour <= LastHour
ASSUME RulesAssumption ==
  LastOld \in Int /\ FirstNew \in Int /\ SummerFrom \in Int /\ LastOld < FirstNew
ASSUME OffsetsAssumption ==
  /\ OldOffset \in Nat /\ WinterOffset \in Nat /\ BroadMargin \in Nat
  /\ HourTicks <= WinterOffset /\ WinterOffset <= BroadMargin /\ OldOffset <= BroadMargin
ASSUME AbsentAssumption == Absent \notin Int

\* utc_hour_spine
Hours == FirstHour..LastHour

HourOf(instant) == instant \div HourTicks

FirstInstant == FirstHour * HourTicks
EndInstant == (LastHour + 1) * HourTicks

\* What the indexer of the game wrote for a sale, and when its block was made.
PacificOffset(instant) ==
  IF instant >= SummerFrom THEN WinterOffset - HourTicks ELSE WinterOffset

StoredAt(sale) == IF sale <= LastOld THEN sale + OldOffset ELSE sale - PacificOffset(sale)

BlockTime(sale) == sale

\* OVERLAP_START and OVERLAP_END: no later rule, no earlier rule beyond these.
OverlapStart == LastOld - WinterOffset
OverlapEnd == FirstNew + OldOffset

InOverlap(stored) == stored >= OverlapStart /\ stored < OverlapEnd

StandardTimeOnly(stored) == stored + WinterOffset

\* AT TIME ZONE 'America/Los_Angeles'
FromPacific(stored) ==
  IF stored >= SummerFrom - WinterOffset + HourTicks THEN stored + WinterOffset - HourTicks
  ELSE stored + WinterOffset

EventUtc ==
  [sale \in Sales |-> LET stored == StoredAt(sale) IN
     CASE stored < OverlapStart -> stored - OldOffset
       [] stored >= OverlapEnd -> FromPacific(stored)
       [] OTHER -> BlockTime(sale)]

\* resolve_overlap_rows' offset classes: a row of neither rule stops the build.
OffsetKnown(sale) == StoredAt(sale) - BlockTime(sale) \in {OldOffset, -WinterOffset}

BeforeLastHour(instant) == instant >= FirstInstant /\ instant < EndInstant - HourTicks

InRange(instant) == instant >= FirstInstant /\ instant < EndInstant

\* The sales aggregate_market_production counts: of the overlap, the resolved only.
Counted(present, resolved) ==
  {s \in present :
     /\ StoredAt(s) >= FirstInstant - BroadMargin /\ StoredAt(s) < EndInstant + BroadMargin
     /\ InOverlap(StoredAt(s)) => s \in resolved
     /\ InRange(EventUtc[s])}

\* build_market_spine: a row for every hour, the empty ones too.
MarketRows(counted) == [h \in Hours |-> {s \in counted : HourOf(EventUtc[s]) = h}]

\* percent_change, in whole percent.
PercentChange(current, prior) ==
  IF current = Absent \/ prior = Absent \/ prior = 0 THEN Absent
  ELSE (100 * current) \div prior - 100

\* _lag_value: the spine has no gaps, so a lag of hours is a lag of rows.
LagValue(series, h, lag) == IF h - lag >= FirstHour THEN series[h - lag] ELSE Absent

CountDelta(market, h, lag) ==
  IF h - lag >= FirstHour THEN Cardinality(market[h]) - Cardinality(market[h - lag])
  ELSE Absent

\* align_hourly with the lag of one hour; those of six and 24 are computed alike.
AlignHourly(market, prices) ==
  [h \in Hours |-> [market |-> market[h],
                    price |-> prices[h],
                    return |-> PercentChange(prices[h], LagValue(prices, h, 1)),
                    delta |-> CountDelta(market, h, 1)]]

================================================================================
