-------------------------- MODULE AnalyticsSnapshot --------------------------
(***************************************************************************)
(* Concurrent runs of build_snapshot, statement by statement, beside the   *)
(* two sources they read and the analyst who reads what they write.  Each  *)
(* reads the prices, the overlap and the sales, then replaces the market   *)
(* and the aligned table in one transaction, reads both back, and does     *)
(* the same once more.  No lock keeps two runs apart; what does is         *)
(* PostgreSQL at READ COMMITTED: a DELETE sees the rows committed when it  *)
(* starts and waits for those another transaction is deleting, an INSERT   *)
(* waits for the other holder of its key and fails if the key is taken.    *)
(* Every replacement inserts all hours in order, so a table's rows are     *)
(* taken, deleted and inserted as one: whoever has the first has all.      *)
(***************************************************************************)
EXTENDS RelationshipAnalysis

CONSTANTS
  Builders,         \* the runs of build_snapshot
  Settled,          \* the sales in public.sales from the start; others may be added
  AcceptedOverlap,  \* the rows OVERLAP_ROWS and OVERLAP_DIGEST were taken from
  PriceSeries,      \* what nansen.flows may hold for the hours, Absent where nothing
  Faults,           \* what may go wrong, a subset of FaultKinds
  Empty             \* a table without rows

FaultKinds == {"error",        \* a statement, a read or an RPC call raises; the run is killed
               "lost_answer"}  \* the connection dies on a COMMIT that succeeded

ASSUME SettledAssumption == Settled \subseteq Sales
ASSUME AcceptedAssumption ==
  AcceptedOverlap = {s \in Settled : InOverlap(StoredAt(s))} /\ IsFiniteSet(AcceptedOverlap)
ASSUME PricesAssumption == PriceSeries \subseteq [Hours -> Nat \cup {Absent}]
ASSUME FaultsAssumption == Faults \subseteq FaultKinds

VARIABLES
  production,  \* the sales in public.sales
  prices,      \* price_usd of the hours in nansen.flows
  created,     \* whether migration 005 has been applied
  table,       \* the committed rows of each table: the replacement they are from
  pc,          \* where each run stands
  round,       \* which of its two replacements it is at
  source,      \* the prices it read
  mine,        \* the rows of both tables it computed
  view,        \* the rows the DELETE in progress saw
  deleted,     \* the tables whose rows its open transaction has deleted
  inserted,    \* those it has inserted into
  ratified,    \* the aligned rows behind EXPECTED_SNAPSHOT_DIGEST
  analysis     \* the events of the last analysis

sources == <<production, prices, created>>
transaction == <<view, deleted, inserted>>
readers == <<ratified, analysis>>
vars == <<sources, table, pc, round, source, mine, transaction, readers>>

Tables == {"market", "aligned"}
Replacements == [builder: Builders, round: 1..2]

ASSUME EmptyAssumption == Empty \notin Replacements

Reading == {"idle", "sourced", "resolved"}
Writing == {"delete_aligned", "deleting_aligned", "delete_market", "deleting_market",
            "insert_market", "insert_aligned", "commit"}
Checking == {"check_market", "check_aligned", "reread_source"}
Ended == {"reported", "failed"}
PCs == Reading \cup Writing \cup Checking \cup Ended

TypeOK ==
  /\ production \in SUBSET Sales
  /\ prices \in PriceSeries
  /\ created \in BOOLEAN
  /\ table \in [Tables -> Replacements \cup {Empty}]
  /\ pc \in [Builders -> PCs]
  /\ round \in [Builders -> 1..2]
  /\ source \in [Builders -> PriceSeries \cup {Absent}]
  /\ \A b \in Builders : mine[b] # Absent =>
       mine[b].market \in [Hours -> SUBSET Sales] /\ DOMAIN mine[b].aligned = Hours
  /\ view \in [Builders -> Replacements \cup {Empty}]
  /\ deleted \in [Builders -> SUBSET Tables] /\ inserted \in [Builders -> SUBSET Tables]

Init ==
  /\ production = Settled
  /\ prices \in PriceSeries
  /\ created \in BOOLEAN
  /\ table = [t \in Tables |-> Empty]
  /\ pc = [b \in Builders |-> "idle"]
  /\ round = [b \in Builders |-> 1]
  /\ source = [b \in Builders |-> Absent] /\ mine = [b \in Builders |-> Absent]
  /\ view = [b \in Builders |-> Empty]
  /\ deleted = [b \in Builders |-> {}] /\ inserted = [b \in Builders |-> {}]
  /\ ratified = Absent /\ analysis = Absent

-------------------------------------------------------------------------------
(* What a run computes, and what a reader of the tables sees. *)

Complete(series) == \A h \in Hours : series[h] # Absent

Content(t) == IF table[t] = Empty THEN Empty ELSE mine[table[t].builder][t]

Become(b, to) == pc' = [pc EXCEPT ![b] = to]

Goto(b, from, to) == pc[b] = from /\ Become(b, to)

SameHoursOnly(b, t) == table[t] # Empty

\* _assert_readback: the digest of the rows is that of the rows in memory.
ReadsBack(b, t) == Content(t) = mine[b][t]

-------------------------------------------------------------------------------
(* The two sources, the migration and the analyst. *)

\* Bound: the sources stand still once every run has read them: the
\* re-read only asks whether the hours are complete, and complete ones stay so.
SomeoneReads == \E b \in Builders : pc[b] \in Reading

AddSale ==
  /\ SomeoneReads
  /\ \E s \in Sales \ production : production' = production \cup {s}
  /\ UNCHANGED <<prices, created, table, pc, round, source, mine, transaction, readers>>

\* Ingestion adds hours and revises prices; a complete hour stays one.
IngestFlows ==
  /\ SomeoneReads
  /\ \E series \in PriceSeries \ {prices} :
       /\ \A h \in Hours : prices[h] # Absent => series[h] # Absent
       /\ prices' = series
  /\ UNCHANGED <<production, created, table, pc, round, source, mine, transaction, readers>>

\* apply_analytics_migration by hand: CREATE TABLE IF NOT EXISTS.
ApplyMigration ==
  /\ ~created /\ created' = TRUE
  /\ UNCHANGED <<production, prices, table, pc, round, source, mine, transaction, readers>>

\* The digest of a reported build is written into the analysis.
Ratify(b) ==
  /\ pc[b] = "reported" /\ ratified = Absent
  /\ ratified' = mine[b].aligned
  /\ UNCHANGED <<sources, table, pc, round, source, mine, transaction, analysis>>

\* run_readonly: one SELECT, then validate_snapshot refuses any other content.
Analyze ==
  /\ ratified # Absent /\ Content("aligned") = ratified
  /\ analysis' = EventSummary(ratified)
  /\ UNCHANGED <<sources, table, pc, round, source, mine, transaction, ratified>>

-------------------------------------------------------------------------------
(* A build reads its sources. *)

\* read_nansen_source refuses a range that is not complete.  Its count of the retained
\* daily rows, which nothing here writes, is one of the ways to fail in Fails.
ReadSource(b) ==
  /\ Goto(b, "idle", IF Complete(prices) THEN "sourced" ELSE "failed")
  /\ source' = [source EXCEPT ![b] = prices]
  /\ UNCHANGED <<sources, table, round, mine, transaction, readers>>

\* staging_writer_capability_preflight: the tables are there.
PreflightPasses == created

\* The preflight, load_overlap_rows and resolve_overlap_rows.
ResolveOverlap(b) ==
  LET rows == {s \in production : InOverlap(StoredAt(s))}
      accepted == /\ PreflightPasses
                  /\ Cardinality(rows) = Cardinality(AcceptedOverlap)
                  /\ \A s \in rows : OffsetKnown(s)
                  /\ rows = AcceptedOverlap
  IN  /\ Goto(b, "sourced", IF accepted THEN "resolved" ELSE "failed")
      /\ UNCHANGED <<sources, table, round, source, mine, transaction, readers>>

\* aggregate_market_production is a later statement; then all is computed in memory,
\* and apply_analytics_migration finds its tables.
AggregateMarket(b) ==
  LET market == MarketRows(Counted(production, AcceptedOverlap)) IN
  /\ Goto(b, "resolved", "delete_aligned")
  /\ mine' = [mine EXCEPT ![b] = [market |-> market, aligned |-> AlignHourly(market, source[b])]]
  /\ UNCHANGED <<sources, table, round, source, transaction, readers>>

-------------------------------------------------------------------------------
(* replace_analytics_snapshot. *)

\* Other processes that run build_snapshot.
Others(b) == Builders \ {b}

Holds(c, t) == t \in deleted[c] \cup inserted[c]

ReleaseNothing(b) == UNCHANGED <<view, deleted, inserted>>

\* The transaction is over, committed or rolled back.
EndTransaction(b) ==
  /\ view' = [view EXCEPT ![b] = Empty]
  /\ deleted' = [deleted EXCEPT ![b] = {}]
  /\ inserted' = [inserted EXCEPT ![b] = {}]

\* rollback and raise: the run has failed.
RollBack(b) ==
  /\ Become(b, "failed")
  /\ EndTransaction(b)
  /\ UNCHANGED <<sources, table, round, source, mine, readers>>

\* A DELETE takes its snapshot of the table ...
BeginDelete(b, t, from, to) ==
  /\ Goto(b, from, to)
  /\ view' = [view EXCEPT ![b] = table[t]]
  /\ UNCHANGED <<sources, table, round, source, mine, deleted, inserted, readers>>

DeleteWaits(b, c, t) == view[b] # Empty /\ view[b] = table[t] /\ t \in deleted[c]

\* ... and deletes of it what is still there.
EndDelete(b, t, from, to) ==
  /\ Goto(b, from, to)
  /\ \A c \in Others(b) : ~DeleteWaits(b, c, t)
  /\ deleted' = [deleted EXCEPT ![b] = IF view[b] # Empty /\ view[b] = table[t]
                                       THEN @ \cup {t} ELSE @]
  /\ view' = [view EXCEPT ![b] = Empty]
  /\ UNCHANGED <<sources, table, round, source, mine, inserted, readers>>

KeyTaken(b, t) == table[t] # Empty /\ t \notin deleted[b]

ShowRows(b, t) ==
  /\ table' = [table EXCEPT ![t] = [builder |-> b, round |-> round[b]]]
  /\ UNCHANGED <<inserted, view, deleted>>

StageRows(b, t) ==
  inserted' = [inserted EXCEPT ![b] = @ \cup {t}] /\ UNCHANGED <<table, view, deleted>>

InsertRows(b, t, from, to) ==
  /\ \A c \in Others(b) : ~Holds(c, t)
  /\ ~KeyTaken(b, t)
  /\ Goto(b, from, to)
  /\ StageRows(b, t)
  /\ UNCHANGED <<sources, round, source, mine, readers>>

UniqueViolation(b, t, from) ==
  /\ pc[b] = from
  /\ \A c \in Others(b) : ~Holds(c, t)
  /\ KeyTaken(b, t)
  /\ RollBack(b)

ServerCommits(b) ==
  table' = [t \in Tables |-> IF t \in inserted[b] THEN [builder |-> b, round |-> round[b]]
                             ELSE table[t]]

Commit(b) ==
  /\ Goto(b, "commit", "check_market")
  /\ ServerCommits(b)
  /\ EndTransaction(b)
  /\ UNCHANGED <<sources, round, source, mine, readers>>

\* The rows are in place, and the run raises all the same.
CommitAnswerLost(b) ==
  /\ "lost_answer" \in Faults
  /\ Goto(b, "commit", "failed")
  /\ ServerCommits(b)
  /\ EndTransaction(b)
  /\ UNCHANGED <<sources, round, source, mine, readers>>

\* b waits for c to end its transaction.
WaitsFor(b, c) ==
  /\ c # b
  /\ \/ pc[b] = "deleting_aligned" /\ DeleteWaits(b, c, "aligned")
     \/ pc[b] = "deleting_market" /\ DeleteWaits(b, c, "market")
     \/ pc[b] = "insert_market" /\ Holds(c, "market")
     \/ pc[b] = "insert_aligned" /\ Holds(c, "aligned")

\* The server aborts one of those that wait for each other in a circle.
DeadlockDetected(b) ==
  /\ \E circle \in SUBSET Builders :
       /\ b \in circle
       /\ \A c \in circle : \E d \in circle : WaitsFor(c, d)
       /\ \A c \in circle : \E d \in circle : WaitsFor(d, c)
  /\ RollBack(b)

-------------------------------------------------------------------------------
(* The read-backs and the end. *)

CheckMarket(b) ==
  /\ pc[b] = "check_market"
  /\ Become(b, IF ReadsBack(b, "market") THEN "check_aligned" ELSE "failed")
  /\ UNCHANGED <<sources, table, round, source, mine, transaction, readers>>

Again(b) == round' = [round EXCEPT ![b] = @ + 1]

ReplaceAgain(b) == round[b] = 1 /\ Again(b)

\* The same rows are written a second time to show that nothing changes.
CheckAligned(b) ==
  /\ pc[b] = "check_aligned"
  /\ \/ ~ReadsBack(b, "aligned") /\ Become(b, "failed") /\ UNCHANGED round
     \/ ReadsBack(b, "aligned") /\ ReplaceAgain(b) /\ Become(b, "delete_aligned")
     \/ ReadsBack(b, "aligned") /\ round[b] = 2 /\ Become(b, "reread_source") /\ UNCHANGED round
  /\ UNCHANGED <<sources, table, source, mine, transaction, readers>>

\* Only the identities of the hours are compared, and an hour once complete stays so.
RereadSource(b) ==
  /\ Goto(b, "reread_source", IF Complete(prices) THEN "reported" ELSE "failed")
  /\ UNCHANGED <<sources, table, round, source, mine, transaction, readers>>

Fails(b) ==
  /\ "error" \in Faults
  /\ pc[b] \notin Ended
  /\ RollBack(b)

Step(b) ==
  \/ ReadSource(b) \/ ResolveOverlap(b) \/ AggregateMarket(b)
  \/ BeginDelete(b, "aligned", "delete_aligned", "deleting_aligned")
  \/ EndDelete(b, "aligned", "deleting_aligned", "delete_market")
  \/ BeginDelete(b, "market", "delete_market", "deleting_market")
  \/ EndDelete(b, "market", "deleting_market", "insert_market")
  \/ InsertRows(b, "market", "insert_market", "insert_aligned")
  \/ UniqueViolation(b, "market", "insert_market")
  \/ InsertRows(b, "aligned", "insert_aligned", "commit")
  \/ UniqueViolation(b, "aligned", "insert_aligned")
  \/ Commit(b) \/ DeadlockDetected(b)
  \/ CheckMarket(b) \/ CheckAligned(b) \/ RereadSource(b)

Next ==
  \/ AddSale \/ IngestFlows \/ ApplyMigration \/ Analyze
  \/ \E b \in Builders : Step(b) \/ Fails(b) \/ CommitAnswerLost(b) \/ Ratify(b)

Spec == Init /\ [][Next]_vars

\* A run goes on as long as it can, and the server looks for circles.  Nothing is
\* assumed of the sources, of the analyst or of failures.
FairSpec == Spec /\ \A b \in Builders : WF_vars(Step(b))

-------------------------------------------------------------------------------
(* What must hold. *)

\* Both tables are empty or hold the same replacement, whatever runs interleave, fail
\* or lose their connection.  (replace_analytics_snapshot)
TablesAgree == table["market"] = table["aligned"]

\* Every sale that was there from the start and lies in the canonical range is
\* counted, in the hour of its block.  (aggregate_market_production)
SettledSalesCounted ==
  table["market"] # Empty =>
    \A s \in Settled : HourOf(BlockTime(s)) \in Hours =>
      s \in Content("market")[HourOf(BlockTime(s))]

\* A read-back of market rows and then of aligned rows, two statements, is enough to
\* know that both tables held the run's own rows at once.  (_assert_readback)
CheckedTablesStood ==
  [][\A b \in Builders : pc[b] = "check_aligned" /\ pc'[b] \in {"delete_aligned", "reread_source"}
       => \A t \in Tables : Content(t) = mine[b][t]]_pc

\* Two events of a group are more than Gap apart, none has a larger candidate within
\* Gap of it, and the hours it is compared with exist.  (build_event_summary)
EventsStandApart ==
  analysis # Absent =>
    LET returns == [h \in Hours |-> ratified[h].return] IN
    \A group \in {<<analysis.positive, Positive(returns)>>,
                  <<analysis.negative, Negative(returns)>>} :
      \A i \in group[1] :
        /\ i - Pre \in Hours /\ i + Post \in Hours
        /\ \A j \in group[1] : j > i => j - i > Gap
        /\ \A j \in group[2] : Size(j - i) <= Gap => Size(returns[j]) <= Size(returns[i])

\* The tables as their readers see them change as AtomicSnapshot says.
Atomic == INSTANCE AtomicSnapshot
            WITH market <- Content("market"), aligned <- Content("aligned")

ImplementsAtomicSnapshot == Atomic!Spec

\* Every run ends, although runs wait for each other, even in a circle.
EveryBuildEnds == \A b \in Builders : pc[b] # "idle" ~> pc[b] \in Ended

===============================================================================
