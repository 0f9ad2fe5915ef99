----------------------- MODULE AnalyticsSnapshot_proofs -----------------------
(***************************************************************************)
(* The theorems of AnalyticsSnapshot, for any number of builds, any sales  *)
(* and prices.  A table's rows are always what some build computed, and a  *)
(* build has inserted both tables when it commits; what it computed does   *)
(* not change once it writes, and is determined by its aligned rows.       *)
(***************************************************************************)
EXTENDS AnalyticsSnapshot, RelationshipAnalysis_proofs

\* Market rows that count no sale outside its hour and miss no settled one.
IsMarket(m) ==
  /\ m \in [Hours -> SUBSET Sales]
  /\ \A h \in Hours : \A s \in m[h] : HourOf(BlockTime(s)) = h
  /\ \A s \in Settled : HourOf(BlockTime(s)) \in Hours => s \in m[HourOf(BlockTime(s))]

\* What a build may have in memory when it starts to write.
Computed(x) ==
  \E m \in [Hours -> SUBSET Sales], p \in PriceSeries :
    /\ IsMarket(m) /\ Complete(p)
    /\ x = [market |-> m, aligned |-> AlignHourly(m, p)]

Past == Writing \cup Checking \cup {"reported"}

Types ==
  /\ production \in SUBSET Sales /\ Settled \subseteq production
  /\ prices \in PriceSeries
  /\ created \in BOOLEAN
  /\ table \in [Tables -> Replacements \cup {Empty}]
  /\ pc \in [Builders -> PCs]
  /\ round \in [Builders -> 1..2]
  /\ source \in [Builders -> PriceSeries \cup {Absent}]
  /\ view \in [Builders -> Replacements \cup {Empty}]
  /\ deleted \in [Builders -> SUBSET Tables]

\* What has been inserted is known from where the build stands.
Staged ==
  /\ inserted \in [Builders -> SUBSET Tables]
  /\ \A b \in Builders : pc[b] = "commit" => inserted[b] = Tables
  /\ \A b \in Builders : pc[b] = "insert_aligned" => inserted[b] = {"market"}
  /\ \A b \in Builders : pc[b] \notin {"commit", "insert_aligned"} => inserted[b] = {}

SourcesRead ==
  \A b \in Builders : pc[b] \in {"sourced", "resolved"} =>
    source[b] \in PriceSeries /\ Complete(source[b])

\* A build's rows do not change once it has left the reading phase.
RowsComputed ==
  /\ mine = [b \in Builders |-> mine[b]]
  /\ \A b \in Builders : mine[b] = Absent \/ Computed(mine[b])
  /\ \A b \in Builders : pc[b] \in Past => Computed(mine[b])

TablesFromBuilds ==
  \A t \in Tables : table[t] # Empty =>
    pc[table[t].builder] \notin Reading /\ Computed(mine[table[t].builder])

\* Nothing empties a table again.
CheckedNotEmpty == \A b \in Builders : pc[b] \in Checking => table["market"] # Empty

Ratified ==
  /\ ratified # Absent => \E x : Computed(x) /\ ratified = x.aligned
  /\ analysis # Absent => ratified # Absent /\ analysis = EventSummary(ratified)

IInv ==
  /\ Types /\ Staged /\ SourcesRead /\ RowsComputed
  /\ TablesAgree /\ TablesFromBuilds /\ CheckedNotEmpty /\ Ratified

\* The tables are empty and nothing is computed at first.
LEMMA InitIInv == Init => IInv
<1> SUFFICES ASSUME Init PROVE IInv
  OBVIOUS
<1>1. Types
  BY SettledAssumption DEF Init, Types, PCs, Reading
<1>2. Staged /\ SourcesRead
  BY DEF Init, Staged, SourcesRead
<1>3. RowsComputed
  BY DEF Init, RowsComputed, Past, Writing, Checking
<1>4. TablesAgree /\ TablesFromBuilds /\ CheckedNotEmpty /\ Ratified
  BY DEF Init, TablesAgree, TablesFromBuilds, CheckedNotEmpty, Checking, Ratified, Tables
<1> QED
  BY <1>1, <1>2, <1>3, <1>4 DEF IInv

\* The steps of the sources, the migration and the analyst.
LEMMA OutsideIInv ==
  ASSUME IInv, \/ AddSale \/ IngestFlows \/ ApplyMigration \/ Analyze
               \/ \E b \in Builders : Ratify(b)
  PROVE  IInv'
<1> USE DEF IInv
<1>1. UNCHANGED <<table, pc, round, source, mine, transaction>>
  BY DEF AddSale, IngestFlows, ApplyMigration, Analyze, Ratify
<1>2. Types'
  <2>1. production' \in SUBSET Sales /\ Settled \subseteq production'
    BY DEF Types, AddSale, IngestFlows, ApplyMigration, Analyze, Ratify, sources
  <2>2. prices' \in PriceSeries /\ created' \in BOOLEAN
    BY DEF Types, AddSale, IngestFlows, ApplyMigration, Analyze, Ratify, sources
  <2> QED
    BY <1>1, <2>1, <2>2 DEF Types, transaction
<1>3. Staged' /\ SourcesRead' /\ RowsComputed'
  BY <1>1 DEF Staged, SourcesRead, RowsComputed, Complete, transaction
<1>4. TablesAgree' /\ TablesFromBuilds' /\ CheckedNotEmpty'
  BY <1>1 DEF TablesAgree, TablesFromBuilds, CheckedNotEmpty
<1>5. Ratified'
  <2>1. CASE Analyze
    BY <2>1 DEF Analyze, Ratified
  <2>2. CASE \E b \in Builders : Ratify(b)
    <3>1. PICK b \in Builders : Ratify(b)
      BY <2>2
    <3>2. Computed(mine[b])
      BY <3>1 DEF Ratify, RowsComputed, Past
    <3>3. analysis = Absent
      BY <3>1 DEF Ratify, Ratified
    <3> QED
      BY <3>1, <3>2, <3>3 DEF Ratify, Ratified
  <2>3. CASE AddSale \/ IngestFlows \/ ApplyMigration
    BY <2>3 DEF AddSale, IngestFlows, ApplyMigration, Ratified, readers
  <2> QED
    BY <2>1, <2>2, <2>3
<1> QED
  BY <1>2, <1>3, <1>4, <1>5

\* A step of a build that computes and commits nothing leaves what the tables and the
\* readers hold as it was.
LEMMA MoveKeepsRows ==
  ASSUME IInv, NEW b \in Builders, NEW to, pc' = [pc EXCEPT ![b] = to],
         UNCHANGED <<table, mine, readers>>,
         to \in Reading => pc[b] \in Reading,
         to \in Past => pc[b] \in Past,
         to \in Checking => pc[b] \in Checking
  PROVE  RowsComputed' /\ TablesAgree' /\ TablesFromBuilds' /\ CheckedNotEmpty' /\ Ratified'
<1>1. pc \in [Builders -> PCs]
  BY DEF IInv, Types
<1>2. \A c \in Builders : /\ pc'[c] \in Reading => pc[c] \in Reading
                          /\ pc'[c] \in Past => pc[c] \in Past
                          /\ pc'[c] \in Checking => pc[c] \in Checking
  BY <1>1
<1>3. RowsComputed'
  BY <1>2 DEF IInv, RowsComputed
<1>4. TablesAgree' /\ CheckedNotEmpty' /\ Ratified'
  BY <1>2 DEF IInv, TablesAgree, CheckedNotEmpty, Ratified, readers
<1>5. TablesFromBuilds'
  <2>1. SUFFICES ASSUME NEW t \in Tables, table[t] # Empty
                 PROVE  pc'[table[t].builder] \notin Reading /\ Computed(mine[table[t].builder])
    BY DEF TablesFromBuilds
  <2>2. table[t].builder \in Builders
    BY <2>1 DEF IInv, Types, Replacements
  <2> QED
    BY <1>2, <2>1, <2>2 DEF IInv, TablesFromBuilds
<1> QED
  BY <1>3, <1>4, <1>5

\* The steps of a build that only read.
LEMMA ReadingIInv ==
  ASSUME IInv, NEW b \in Builders, ReadSource(b) \/ ResolveOverlap(b)
  PROVE  IInv'
<1> USE DEF IInv
<1>1. PICK to \in {"sourced", "resolved", "failed"} :
        /\ pc' = [pc EXCEPT ![b] = to] /\ pc[b] \in {"idle", "sourced"}
        /\ to = "resolved" => pc[b] = "sourced" /\ source' = source
        /\ to = "sourced" => source' = [source EXCEPT ![b] = prices] /\ Complete(prices)
        /\ source' \in {source, [source EXCEPT ![b] = prices]}
  BY DEF ReadSource, ResolveOverlap, Goto, Become
<1>2. UNCHANGED <<sources, table, round, mine, transaction, readers>>
  BY DEF ReadSource, ResolveOverlap
<1>3. RowsComputed' /\ TablesAgree' /\ TablesFromBuilds' /\ CheckedNotEmpty' /\ Ratified'
  BY <1>1, <1>2, MoveKeepsRows, Zenon DEF Reading, Past, Writing, Checking
<1>4. Types'
  BY <1>1, <1>2 DEF Types, sources, transaction, PCs, Reading, Ended
<1>5. Staged'
  BY <1>1, <1>2 DEF Types, Staged, transaction
<1>6. SourcesRead'
  BY <1>1 DEF Types, SourcesRead, Complete
<1> QED
  BY <1>3, <1>4, <1>5, <1>6

\* What is computed counts every settled sale, in its hour.
LEMMA AggregateIInv ==
  ASSUME IInv, NEW b \in Builders, AggregateMarket(b)
  PROVE  IInv'
<1> USE DEF IInv
<1> DEFINE market == MarketRows(Counted(production, AcceptedOverlap))
           rows == [market |-> market, aligned |-> AlignHourly(market, source[b])]
<1>1. /\ pc[b] = "resolved" /\ pc' = [pc EXCEPT ![b] = "delete_aligned"]
      /\ mine' = [mine EXCEPT ![b] = rows]
      /\ UNCHANGED <<sources, table, round, source, transaction, readers>>
  BY DEF AggregateMarket, Goto, Become
<1>2. Computed(rows)
  <2>1. production \in SUBSET Sales /\ Settled \subseteq production
    BY DEF Types
  <2>2. /\ market \in [Hours -> SUBSET Sales]
        /\ \A h \in Hours : \A s \in market[h] : HourOf(BlockTime(s)) = h
    BY <2>1, MarketRowsExact, Zenon
  <2>3. \A s \in Settled : HourOf(BlockTime(s)) \in Hours => s \in market[HourOf(BlockTime(s))]
    BY <2>1, AcceptedAssumption, SaleCounted
  <2>4. source[b] \in PriceSeries /\ Complete(source[b])
    BY <1>1 DEF SourcesRead
  <2> HIDE DEF market
  <2> QED
    BY <2>2, <2>3, <2>4 DEF Computed, IsMarket
<1> HIDE DEF rows
<1>3. pc \in [Builders -> PCs]
  BY DEF Types
<1>4. Types'
  BY <1>1 DEF Types, sources, transaction, PCs, Writing
<1>5. Staged' /\ SourcesRead' /\ TablesAgree' /\ CheckedNotEmpty' /\ Ratified'
  BY <1>1, <1>3 DEF Staged, SourcesRead, TablesAgree, CheckedNotEmpty, Ratified, Complete,
                    transaction, readers, Checking
<1>6. RowsComputed'
  BY <1>1, <1>2, <1>3 DEF RowsComputed
<1>7. TablesFromBuilds'
  <2>1. SUFFICES ASSUME NEW t \in Tables, table[t] # Empty
                 PROVE  /\ pc'[table[t].builder] \notin Reading
                        /\ Computed(mine'[table[t].builder])
    BY <1>1 DEF TablesFromBuilds
  <2>2. table[t].builder \in Builders
    BY <2>1 DEF Types, Replacements
  <2>3. table[t].builder # b
    BY <1>1, <2>1 DEF TablesFromBuilds, Reading
  <2> QED
    BY <1>1, <1>3, <2>1, <2>2, <2>3 DEF TablesFromBuilds, RowsComputed
<1> QED
  BY <1>4, <1>5, <1>6, <1>7

\* The statements of the transaction before its commit.
LEMMA WritingIInv ==
  ASSUME IInv, NEW b \in Builders,
         \/ BeginDelete(b, "aligned", "delete_aligned", "deleting_aligned")
         \/ EndDelete(b, "aligned", "deleting_aligned", "delete_market")
         \/ BeginDelete(b, "market", "delete_market", "deleting_market")
         \/ EndDelete(b, "market", "deleting_market", "insert_market")
         \/ InsertRows(b, "market", "insert_market", "insert_aligned")
         \/ InsertRows(b, "aligned", "insert_aligned", "commit")
  PROVE  IInv'
<1> USE DEF IInv
<1>1. UNCHANGED <<sources, table, round, source, mine, readers>>
  BY DEF BeginDelete, EndDelete, InsertRows, StageRows
<1>2. PICK to \in {"deleting_aligned", "delete_market", "deleting_market", "insert_market",
                   "insert_aligned", "commit"} :
        /\ pc' = [pc EXCEPT ![b] = to]
        /\ pc[b] \in Writing \ {"commit"}
        /\ to = "insert_aligned" => pc[b] = "insert_market" /\ inserted' = [inserted EXCEPT ![b] = @ \cup {"market"}]
        /\ to = "commit" => pc[b] = "insert_aligned" /\ inserted' = [inserted EXCEPT ![b] = @ \cup {"aligned"}]
        /\ to \notin {"insert_aligned", "commit"} => pc[b] # "insert_aligned" /\ inserted' = inserted
  BY DEF BeginDelete, EndDelete, InsertRows, StageRows, Goto, Become, Writing
<1>3. RowsComputed' /\ TablesAgree' /\ TablesFromBuilds' /\ CheckedNotEmpty' /\ Ratified'
  BY <1>1, <1>2, MoveKeepsRows, Zenon DEF Reading, Past, Writing, Checking
<1>4. Types'
  <2>1. pc' \in [Builders -> PCs]
    BY <1>2 DEF Types, PCs, Writing
  <2>2. view' \in [Builders -> Replacements \cup {Empty}]
    <3>1. view \in [Builders -> Replacements \cup {Empty}]
      BY DEF Types
    <3>2. PICK v \in Replacements \cup {Empty} : view' = view \/ view' = [view EXCEPT ![b] = v]
      BY <3>1 DEF Types, BeginDelete, EndDelete, InsertRows, StageRows, Tables
    <3> QED
      BY <3>1, <3>2, Zenon
  <2>3. deleted' \in [Builders -> SUBSET Tables]
    BY DEF Types, BeginDelete, EndDelete, InsertRows, StageRows, Tables
  <2> QED
    BY <1>1, <2>1, <2>2, <2>3 DEF Types, sources
<1>5. Staged'
  <2>1. pc \in [Builders -> PCs] /\ inserted \in [Builders -> SUBSET Tables]
    BY DEF Types, Staged
  <2>2. \A c \in Builders \ {b} : pc'[c] = pc[c] /\ inserted'[c] = inserted[c]
    BY <1>2, <2>1
  <2>3. CASE to = "insert_aligned"
    <3>1. inserted[b] = {} /\ inserted' = [inserted EXCEPT ![b] = {"market"}]
      BY <1>2, <2>3 DEF Staged
    <3> QED
      BY <1>2, <2>1, <2>2, <2>3, <3>1 DEF Staged, Tables
  <2>4. CASE to = "commit"
    <3>1. inserted' = [inserted EXCEPT ![b] = Tables]
      BY <1>2, <2>4 DEF Staged, Tables
    <3> QED
      BY <1>2, <2>1, <2>2, <2>4, <3>1 DEF Staged
  <2>5. CASE to \notin {"insert_aligned", "commit"}
    BY <1>2, <2>1, <2>2, <2>5 DEF Staged, Writing
  <2> QED
    BY <2>3, <2>4, <2>5
<1>6. SourcesRead'
  BY <1>1, <1>2 DEF Types, SourcesRead, Complete
<1> QED
  BY <1>3, <1>4, <1>5, <1>6

\* Every way a build fails before its commit took place.
LEMMA RollBackIInv ==
  ASSUME IInv, NEW b \in Builders, RollBack(b)
  PROVE  IInv'
<1> USE DEF IInv
<1>1. /\ pc' = [pc EXCEPT ![b] = "failed"]
      /\ UNCHANGED <<sources, table, round, source, mine, readers>>
  BY DEF RollBack, Become
<1>2. RowsComputed' /\ TablesAgree' /\ TablesFromBuilds' /\ CheckedNotEmpty' /\ Ratified'
  BY <1>1, MoveKeepsRows, Zenon DEF Reading, Past, Writing, Checking
<1>3. Types'
  BY <1>1 DEF Types, sources, PCs, Ended, RollBack, EndTransaction
<1>4. Staged'
  BY <1>1 DEF Types, Staged, RollBack, EndTransaction
<1>5. SourcesRead'
  BY <1>1 DEF Types, SourcesRead, Complete
<1> QED
  BY <1>2, <1>3, <1>4, <1>5

\* The server commits; the build may learn of it or not.
LEMMA CommitIInv ==
  ASSUME IInv, NEW b \in Builders, Commit(b) \/ CommitAnswerLost(b)
  PROVE  /\ IInv'
         /\ table' = [t \in Tables |-> [builder |-> b, round |-> round[b]]]
<1> USE DEF IInv
<1>1. PICK to \in {"check_market", "failed"} :
        /\ pc[b] = "commit" /\ pc' = [pc EXCEPT ![b] = to]
        /\ ServerCommits(b) /\ EndTransaction(b)
        /\ UNCHANGED <<sources, round, source, mine, readers>>
  BY DEF Commit, CommitAnswerLost, Goto, Become
<1> DEFINE new == [builder |-> b, round |-> round[b]]
<1>2. table' = [t \in Tables |-> new]
  BY <1>1 DEF ServerCommits, Staged
<1>3. new \in Replacements /\ new # Empty /\ new.builder = b
  <2>1. round[b] \in 1..2
    BY DEF Types
  <2>2. new \in Replacements
    BY <2>1, Zenon DEF Replacements
  <2> QED
    BY <2>2, EmptyAssumption
<1>4. pc \in [Builders -> PCs] /\ Computed(mine[b])
  BY <1>1 DEF Types, RowsComputed, Past, Writing
<1> HIDE DEF new
<1>5. Types'
  BY <1>1, <1>2, <1>3 DEF Types, sources, PCs, Ended, Checking, EndTransaction
<1>6. Staged' /\ SourcesRead'
  BY <1>1, <1>4 DEF Staged, SourcesRead, Complete, EndTransaction
<1>7. RowsComputed' /\ Ratified'
  BY <1>1, <1>4 DEF RowsComputed, Ratified, readers
<1>8. TablesAgree' /\ CheckedNotEmpty'
  BY <1>2, <1>3 DEF TablesAgree, CheckedNotEmpty, Tables
<1>9. TablesFromBuilds'
  BY <1>1, <1>2, <1>3, <1>4 DEF TablesFromBuilds, Reading
<1> QED
  BY <1>2, <1>5, <1>6, <1>7, <1>8, <1>9 DEF new

\* The read-backs, and the second look at the source.
LEMMA CheckingIInv ==
  ASSUME IInv, NEW b \in Builders, CheckMarket(b) \/ CheckAligned(b) \/ RereadSource(b)
  PROVE  IInv'
<1> USE DEF IInv
<1>1. UNCHANGED <<sources, table, source, mine, transaction, readers>>
  BY DEF CheckMarket, CheckAligned, RereadSource
<1>2. PICK to \in {"check_aligned", "delete_aligned", "reread_source", "reported", "failed"} :
        pc[b] \in Checking /\ pc' = [pc EXCEPT ![b] = to]
  BY DEF CheckMarket, CheckAligned, RereadSource, Goto, Become, Checking
<1>3. RowsComputed' /\ TablesAgree' /\ TablesFromBuilds' /\ CheckedNotEmpty' /\ Ratified'
  BY <1>1, <1>2, MoveKeepsRows, Zenon DEF Reading, Past, Writing, Checking
<1>4. Types'
  <2>1. round' \in [Builders -> 1..2]
    <3>1. \/ round' = round
          \/ round[b] = 1 /\ round' = [round EXCEPT ![b] = @ + 1]
      BY DEF CheckMarket, CheckAligned, RereadSource, ReplaceAgain, Again
    <3>2. round \in [Builders -> 1..2]
      BY DEF Types
    <3>3. round' = round \/ round' = [round EXCEPT ![b] = 2]
      BY <3>1, <3>2
    <3>4. 2 \in 1..2
      OBVIOUS
    <3> QED
      BY <3>2, <3>3, <3>4, Zenon
  <2>2. pc' \in [Builders -> PCs]
    BY <1>2 DEF Types, PCs, Writing, Checking, Ended
  <2> QED
    BY <1>1, <2>1, <2>2 DEF Types, sources, transaction
<1>5. Staged'
  BY <1>1, <1>2 DEF Types, Staged, transaction, Checking
<1>6. SourcesRead'
  BY <1>1, <1>2 DEF Types, SourcesRead, Complete
<1> QED
  BY <1>3, <1>4, <1>5, <1>6

\* Every step keeps the inductive invariant.
LEMMA NextIInv == IInv /\ [Next]_vars => IInv'
<1> SUFFICES ASSUME IInv, [Next]_vars PROVE IInv'
  OBVIOUS
<1>1. CASE AddSale \/ IngestFlows \/ ApplyMigration \/ Analyze
  BY <1>1, OutsideIInv
<1>2. ASSUME NEW b \in Builders, Step(b) \/ Fails(b) \/ CommitAnswerLost(b) \/ Ratify(b)
      PROVE  IInv'
  <2>1. CASE ReadSource(b) \/ ResolveOverlap(b)
    BY <2>1, ReadingIInv
  <2>2. CASE AggregateMarket(b)
    BY <2>2, AggregateIInv
  <2>3. CASE \/ BeginDelete(b, "aligned", "delete_aligned", "deleting_aligned")
             \/ EndDelete(b, "aligned", "deleting_aligned", "delete_market")
             \/ BeginDelete(b, "market", "delete_market", "deleting_market")
             \/ EndDelete(b, "market", "deleting_market", "insert_market")
             \/ InsertRows(b, "market", "insert_market", "insert_aligned")
             \/ InsertRows(b, "aligned", "insert_aligned", "commit")
    BY <2>3, WritingIInv
  <2>4. CASE \/ UniqueViolation(b, "market", "insert_market")
             \/ UniqueViolation(b, "aligned", "insert_aligned")
             \/ DeadlockDetected(b) \/ Fails(b)
    <3>1. RollBack(b)
      BY <2>4 DEF UniqueViolation, DeadlockDetected, Fails
    <3> QED
      BY <3>1, RollBackIInv
  <2>5. CASE Commit(b) \/ CommitAnswerLost(b)
    BY <2>5, CommitIInv
  <2>6. CASE CheckMarket(b) \/ CheckAligned(b) \/ RereadSource(b)
    BY <2>6, CheckingIInv
  <2>7. CASE Ratify(b)
    BY <2>7, OutsideIInv
  <2> QED
    BY <1>2, <2>1, <2>2, <2>3, <2>4, <2>5, <2>6, <2>7 DEF Step
<1>3. CASE UNCHANGED vars
  <2>1. /\ UNCHANGED <<production, prices, created, table, pc, round, source, mine>>
        /\ UNCHANGED <<view, deleted, inserted, ratified, analysis>>
    BY <1>3 DEF vars, sources, transaction, readers
  <2>2. Types' /\ Staged' /\ SourcesRead'
    BY <2>1 DEF IInv, Types, Staged, SourcesRead, Complete
  <2>3. RowsComputed' /\ TablesAgree' /\ TablesFromBuilds' /\ CheckedNotEmpty' /\ Ratified'
    BY <2>1 DEF IInv, RowsComputed, TablesAgree, TablesFromBuilds, CheckedNotEmpty, Ratified
  <2> QED
    BY <2>2, <2>3 DEF IInv
<1> QED
  BY <1>1, <1>2, <1>3 DEF Next

\* The inductive invariant holds: a build's rows come from the source as it read it, and
\* both tables from the same build.  (build_snapshot, replace_analytics_snapshot)
THEOREM InvariantHolds == Spec => []IInv
BY InitIInv, NextIInv, PTL DEF Spec

-------------------------------------------------------------------------------
(* The theorems. *)

\* The variables have their types.
THEOREM TypeCorrect == Spec => []TypeOK
<1>1. ASSUME IInv PROVE TypeOK
  <2>1. \A b \in Builders : mine[b] # Absent =>
          mine[b].market \in [Hours -> SUBSET Sales] /\ DOMAIN mine[b].aligned = Hours
    <3>1. SUFFICES ASSUME NEW b \in Builders, mine[b] # Absent
                   PROVE  /\ mine[b].market \in [Hours -> SUBSET Sales]
                          /\ DOMAIN mine[b].aligned = Hours
      OBVIOUS
    <3>2. PICK m \in [Hours -> SUBSET Sales], p \in PriceSeries :
            mine[b] = [market |-> m, aligned |-> AlignHourly(m, p)]
      BY <1>1, <3>1 DEF IInv, RowsComputed, Computed
    <3>3. DOMAIN AlignHourly(m, p) = Hours
      BY DEF AlignHourly
    <3> QED
      BY <3>2, <3>3
  <2> QED
    BY <1>1, <2>1 DEF IInv, Types, Staged, TypeOK
<1> QED
  BY InvariantHolds, <1>1, PTL

\* Both tables always show the same replacement, or nothing.
\* (replace_analytics_snapshot)
THEOREM TablesAlwaysAgree == Spec => []TablesAgree
<1>1. IInv => TablesAgree
  BY DEF IInv
<1> QED
  BY InvariantHolds, <1>1, PTL

\* No settled sale of the canonical range is missing from the market rows.
\* (aggregate_market_production)
THEOREM SettledSalesAlwaysCounted == Spec => []SettledSalesCounted
<1>1. ASSUME IInv PROVE SettledSalesCounted
  <2>1. SUFFICES ASSUME table["market"] # Empty
                 PROVE  \A s \in Settled : HourOf(BlockTime(s)) \in Hours =>
                          s \in mine[table["market"].builder].market[HourOf(BlockTime(s))]
    BY DEF SettledSalesCounted, Content
  <2>2. Computed(mine[table["market"].builder])
    BY <1>1, <2>1 DEF IInv, TablesFromBuilds, Tables
  <2>3. PICK m \in [Hours -> SUBSET Sales], p \in PriceSeries :
          /\ IsMarket(m)
          /\ mine[table["market"].builder] = [market |-> m, aligned |-> AlignHourly(m, p)]
    BY <2>2 DEF Computed
  <2> QED
    BY <2>3 DEF IsMarket
<1> QED
  BY InvariantHolds, <1>1, PTL

\* The aligned rows determine the market rows.
LEMMA AlignedDetermines ==
  ASSUME NEW x, NEW y, Computed(x), Computed(y), x.aligned = y.aligned
  PROVE  x.market = y.market
<1>1. PICK m \in [Hours -> SUBSET Sales], p \in PriceSeries :
        x = [market |-> m, aligned |-> AlignHourly(m, p)]
  BY DEF Computed
<1>2. PICK n \in [Hours -> SUBSET Sales], q \in PriceSeries :
        y = [market |-> n, aligned |-> AlignHourly(n, q)]
  BY DEF Computed
<1>3. AlignHourly(m, p) = AlignHourly(n, q)
  BY <1>1, <1>2
<1>4. \A h \in Hours : AlignHourly(m, p)[h].market = m[h] /\ AlignHourly(n, q)[h].market = n[h]
  BY DEF AlignHourly
<1>5. \A h \in Hours : m[h] = n[h]
  BY <1>3, <1>4
<1> QED
  BY <1>1, <1>2, <1>5

\* What two read-backs in a row have seen stood in both tables at once.
\* (_assert_readback)
THEOREM CheckedTablesAlwaysStood == Spec => CheckedTablesStood
<1>1. ASSUME IInv, [Next]_vars, NEW b \in Builders,
             pc[b] = "check_aligned", pc'[b] \in {"delete_aligned", "reread_source"}
      PROVE  \A t \in Tables : Content(t) = mine[b][t]
  <2>1. ReadsBack(b, "aligned")
    <3>1. pc'[b] # pc[b] /\ pc \in [Builders -> PCs]
      BY <1>1 DEF IInv, Types
    <3>2. PICK c \in Builders : Step(c) \/ Fails(c) \/ CommitAnswerLost(c)
      BY <1>1, <3>1 DEF Next, vars, AddSale, IngestFlows, ApplyMigration, Analyze, Ratify
    <3>3. PICK to : pc' = [pc EXCEPT ![c] = to]
      BY <3>2 DEF Step, Fails, CommitAnswerLost, ReadSource, ResolveOverlap, AggregateMarket,
           BeginDelete, EndDelete, InsertRows, UniqueViolation, Commit, DeadlockDetected,
           CheckMarket, CheckAligned, RereadSource, RollBack, Goto, Become
    <3>4. c = b
      BY <3>1, <3>3
    <3>5. ~RollBack(b)
      BY <1>1, <3>1 DEF RollBack, Become
    <3>6. CheckAligned(b)
      BY <1>1, <3>2, <3>4, <3>5 DEF Step, Fails, CommitAnswerLost, ReadSource, ResolveOverlap,
           AggregateMarket, BeginDelete, EndDelete, InsertRows, UniqueViolation, Commit,
           DeadlockDetected, CheckMarket, RereadSource, Goto
    <3> QED
      BY <1>1, <3>1, <3>6 DEF CheckAligned, Become
  <2>2. table["aligned"] # Empty /\ table["market"] = table["aligned"]
    BY <1>1 DEF IInv, TablesAgree, CheckedNotEmpty, Checking
  <2>3. mine[table["aligned"].builder].aligned = mine[b].aligned
    BY <2>1, <2>2 DEF ReadsBack, Content
  <2>4. Computed(mine[b]) /\ Computed(mine[table["aligned"].builder])
    BY <1>1, <2>2 DEF IInv, RowsComputed, TablesFromBuilds, Past, Checking, Tables
  <2>5. mine[table["aligned"].builder].market = mine[b].market
    BY <2>3, <2>4, AlignedDetermines
  <2> QED
    BY <2>2, <2>3, <2>5 DEF Content, Tables
<1>2. IInv /\ [Next]_vars =>
        [\A b \in Builders :
           pc[b] = "check_aligned" /\ pc'[b] \in {"delete_aligned", "reread_source"}
             => \A t \in Tables : Content(t) = mine[b][t]]_pc
  BY <1>1
<1> QED
  BY InvariantHolds, <1>2, PTL DEF Spec, CheckedTablesStood

\* The returns of aligned rows are numbers where they are known.
LEMMA ReturnsNumbered ==
  ASSUME NEW x, Computed(x)
  PROVE  [h \in Hours |-> x.aligned[h].return] \in [Hours -> Int \cup {Absent}]
<1>1. PICK m \in [Hours -> SUBSET Sales], p \in PriceSeries :
        Complete(p) /\ x = [market |-> m, aligned |-> AlignHourly(m, p)]
  BY DEF Computed
<1>2. \A h \in Hours : p[h] \in Nat
  BY <1>1, PricesAssumption DEF Complete
<1>3. \A h \in Hours : LagValue(p, h, 1) \in Nat \cup {Absent}
  BY <1>2, HoursAssumption DEF LagValue, Hours
<1>4. \A h \in Hours : PercentChange(p[h], LagValue(p, h, 1)) \in Int \cup {Absent}
  <2>1. ASSUME NEW c \in Nat, NEW d \in Nat, d # 0 PROVE (100 * c) \div d - 100 \in Int
    BY <2>1
  <2> QED
    BY <1>2, <1>3, <2>1 DEF PercentChange
<1>5. \A h \in Hours : x.aligned[h].return = PercentChange(p[h], LagValue(p, h, 1))
  BY <1>1 DEF AlignHourly
<1> QED
  BY <1>4, <1>5

\* The selected events are apart, the largest around, and comparable.
\* (build_event_summary)
THEOREM EventsAlwaysStandApart == Spec => []EventsStandApart
<1>1. ASSUME IInv PROVE EventsStandApart
  <2> DEFINE returns == [h \in Hours |-> ratified[h].return]
  <2>1. SUFFICES ASSUME analysis # Absent,
                        NEW group \in {<<analysis.positive, Positive(returns)>>,
                                       <<analysis.negative, Negative(returns)>>},
                        NEW i \in group[1]
                 PROVE  /\ i - Pre \in Hours /\ i + Post \in Hours
                        /\ \A j \in group[1] : j > i => j - i > Gap
                        /\ \A j \in group[2] :
                             Size(j - i) <= Gap => Size(returns[j]) <= Size(returns[i])
    BY DEF EventsStandApart
  <2>2. analysis = EventSummary(ratified) /\ ratified # Absent
    BY <1>1, <2>1 DEF IInv, Ratified
  <2>3. returns \in [Hours -> Int \cup {Absent}]
    BY <1>1, <2>2, ReturnsNumbered DEF IInv, Ratified
  <2> HIDE DEF returns
  <2>4. /\ analysis.positive = EligibleEvents(DeclusterCandidates(Positive(returns), returns))
        /\ analysis.negative = EligibleEvents(DeclusterCandidates(Negative(returns), returns))
    BY <2>2 DEF EventSummary, returns
  <2>5. PICK candidates \in {Positive(returns), Negative(returns)} :
          group[2] = candidates
          /\ group[1] = EligibleEvents(DeclusterCandidates(candidates, returns))
    BY <2>4
  <2>6. candidates \in SUBSET Hours /\ \A j \in candidates : Size(returns[j]) \in Int
    BY <2>3, CandidatesNumbered
  <2>7. /\ i \in DeclusterCandidates(candidates, returns)
        /\ i - Pre >= FirstHour /\ i + Post <= LastHour
        /\ \A j \in group[1] : j \in DeclusterCandidates(candidates, returns)
    BY <2>1, <2>5 DEF EligibleEvents
  <2>8. /\ i \in candidates
        /\ \A j \in DeclusterCandidates(candidates, returns) : j > i => j - i > Gap
        /\ \A j \in candidates : Size(j - i) <= Gap => Size(returns[j]) <= Size(returns[i])
    BY <2>6, <2>7, DeclusteredApart
  <2>9. i - Pre \in Hours /\ i + Post \in Hours
    BY <2>6, <2>7, <2>8, GapAssumption, HoursAssumption DEF Hours
  <2> QED
    BY <2>5, <2>7, <2>8, <2>9
<1> QED
  BY InvariantHolds, <1>1, PTL

\* The alignment of the abstract tables is that of the detailed ones.
LEMMA SameAlignment ==
  /\ Atomic!Hours = Hours
  /\ \A m, p : Atomic!AlignHourly(m, p) = AlignHourly(m, p)
  /\ \A i : Atomic!HourOf(i) = HourOf(i) /\ Atomic!BlockTime(i) = BlockTime(i)
<1>1. Atomic!Hours = Hours
  BY DEF Atomic!Hours, Hours
<1>2. \A m, p : Atomic!AlignHourly(m, p) = AlignHourly(m, p)
  <2>1. \A c, d : Atomic!PercentChange(c, d) = PercentChange(c, d)
    BY Zenon DEF Atomic!PercentChange, PercentChange
  <2>2. \A p, h : Atomic!LagValue(p, h, 1) = LagValue(p, h, 1)
    BY Zenon DEF Atomic!LagValue, LagValue
  <2>3. \A m, h : Atomic!CountDelta(m, h, 1) = CountDelta(m, h, 1)
    <3>1. \A S : Atomic!Cardinality(S) = Cardinality(S)
      BY Zenon DEF Atomic!Cardinality, Cardinality
    <3> QED
      BY <3>1 DEF Atomic!CountDelta, CountDelta
  <2> QED
    BY <1>1, <2>1, <2>2, <2>3, Zenon DEF Atomic!AlignHourly, AlignHourly
<1> QED
  BY <1>1, <1>2 DEF Atomic!HourOf, HourOf, Atomic!BlockTime, BlockTime

\* What a build has computed is a snapshot.
LEMMA ComputedIsSnapshot ==
  ASSUME NEW x, Computed(x)
  PROVE  Atomic!IsSnapshot(x.market, x.aligned)
<1>1. PICK m \in [Hours -> SUBSET Sales], p \in PriceSeries :
        /\ IsMarket(m) /\ Complete(p)
        /\ x = [market |-> m, aligned |-> AlignHourly(m, p)]
  BY DEF Computed
<1>2. [h \in Hours |-> x.aligned[h].price] = p
  <2>1. \A h \in Hours : x.aligned[h].price = p[h]
    BY <1>1 DEF AlignHourly
  <2>2. p = [h \in Hours |-> p[h]]
    BY PricesAssumption
  <2> QED
    BY <2>1, <2>2
<1> QED
  BY <1>1, <1>2, SameAlignment DEF Atomic!IsSnapshot, IsMarket, Complete

\* For their readers the tables change from one whole snapshot to another.
\* (replace_analytics_snapshot)
THEOREM SnapshotIsAtomic == Spec => ImplementsAtomicSnapshot
<1>1. Init => Atomic!Init
  BY DEF Init, Atomic!Init, Content, Tables
<1>2. IInv /\ [Next]_vars => [Atomic!Replace]_(Atomic!vars)
  <2> SUFFICES ASSUME IInv, [Next]_vars,
                      ~(Content("market")' = Content("market") /\ Content("aligned")' = Content("aligned"))
               PROVE  Atomic!IsSnapshot(Content("market")', Content("aligned")')
    BY DEF Atomic!Replace, Atomic!vars
  <2>1. CASE \E b \in Builders : Commit(b) \/ CommitAnswerLost(b)
    <3>1. PICK b \in Builders : Commit(b) \/ CommitAnswerLost(b)
      BY <2>1
    <3> DEFINE new == [builder |-> b, round |-> round[b]]
    <3>2. table' = [t \in Tables |-> new] /\ mine' = mine
      BY <3>1, CommitIInv DEF Commit, CommitAnswerLost
    <3>3. new \in Replacements /\ new # Empty /\ new.builder = b
      <4>1. round[b] \in 1..2
        BY DEF IInv, Types
      <4>2. new \in Replacements
        BY <4>1, Zenon DEF Replacements
      <4> QED
        BY <4>2, EmptyAssumption
    <3> HIDE DEF new
    <3>4. Content("market")' = mine[b].market /\ Content("aligned")' = mine[b].aligned
      BY <3>2, <3>3 DEF Content, Tables
    <3>5. Computed(mine[b])
      BY <3>1 DEF IInv, RowsComputed, Past, Writing, Commit, CommitAnswerLost, Goto
    <3> QED
      BY <3>4, <3>5, ComputedIsSnapshot
  <2>2. CASE ~\E b \in Builders : Commit(b) \/ CommitAnswerLost(b)
    <3>1. table' = table
      BY <2>2 DEF Next, Step, vars, AddSale, IngestFlows, ApplyMigration, Analyze, Ratify, Fails,
           ReadSource, ResolveOverlap, AggregateMarket, BeginDelete, EndDelete, InsertRows,
           StageRows, UniqueViolation, DeadlockDetected, CheckMarket, CheckAligned,
           RereadSource, RollBack
    <3>2. \A t \in Tables : table[t] # Empty => mine'[table[t].builder] = mine[table[t].builder]
      <4>1. CASE \E b \in Builders : AggregateMarket(b)
        <5>1. PICK b \in Builders : pc[b] = "resolved" /\ \E new : mine' = [mine EXCEPT ![b] = new]
          BY <4>1 DEF AggregateMarket, Goto
        <5>2. ASSUME NEW t \in Tables, table[t] # Empty PROVE table[t].builder # b
          BY <5>1, <5>2 DEF IInv, TablesFromBuilds, Reading
        <5>3. mine = [c \in Builders |-> mine[c]]
          BY DEF IInv, RowsComputed
        <5>4. ASSUME NEW t \in Tables, table[t] # Empty PROVE table[t].builder \in Builders
          BY <5>4 DEF IInv, Types, Replacements
        <5> QED
          BY <5>1, <5>2, <5>3, <5>4
      <4>2. CASE ~\E b \in Builders : AggregateMarket(b)
        <5>1. mine' = mine
          BY <2>2, <4>2 DEF Next, Step, vars, AddSale, IngestFlows, ApplyMigration, Analyze,
             Ratify, Fails, ReadSource, ResolveOverlap, BeginDelete, EndDelete, InsertRows,
             UniqueViolation, DeadlockDetected, CheckMarket, CheckAligned, RereadSource, RollBack
        <5> QED
          BY <5>1
      <4> QED
        BY <4>1, <4>2
    <3> QED
      BY <3>1, <3>2 DEF Content, Tables
  <2> QED
    BY <2>1, <2>2
<1> QED
  BY InvariantHolds, <1>1, <1>2, PTL DEF Spec, ImplementsAtomicSnapshot, Atomic!Spec

-------------------------------------------------------------------------------
(* Termination, but for the fairness. *)

\* The steps a build has before it at most: nine for a replacement still to come, and what
\* its place takes.
Place(p) ==
  CASE p = "idle" -> 13 [] p = "sourced" -> 12 [] p = "resolved" -> 11
    [] p = "delete_aligned" -> 10 [] p = "deleting_aligned" -> 9
    [] p = "delete_market" -> 8 [] p = "deleting_market" -> 7
    [] p = "insert_market" -> 6 [] p = "insert_aligned" -> 5 [] p = "commit" -> 4
    [] p = "check_market" -> 3 [] p = "check_aligned" -> 2 [] OTHER -> 1

Left(b) == IF pc[b] \in Ended THEN 0 ELSE 9 * (2 - round[b]) + Place(pc[b])

LEMMA BuildRunsDown ==
  ASSUME IInv, NEW b \in Builders, Step(b) \/ Fails(b) \/ CommitAnswerLost(b)
  PROVE  /\ Left(b)' < Left(b) /\ pc'[b] # pc[b]
         /\ \A c \in Builders \ {b} : pc'[c] = pc[c] /\ round'[c] = round[c]
<1>1. pc \in [Builders -> PCs] /\ round \in [Builders -> 1..2]
  BY DEF IInv, Types
<1>2. ASSUME NEW to, Become(b, to)
      PROVE  pc'[b] = to /\ \A c \in Builders \ {b} : pc'[c] = pc[c]
  BY <1>1, <1>2 DEF Become
<1>3. ASSUME NEW from, NEW to, Goto(b, from, to)
      PROVE  pc[b] = from /\ pc'[b] = to /\ \A c \in Builders \ {b} : pc'[c] = pc[c]
  BY <1>2, <1>3 DEF Goto
<1> DEFINE Onwards == \/ pc'[b] \in Ended
                      \/ pc'[b] \in PCs \ Ended /\ Place(pc'[b]) < Place(pc[b])
           Moves == /\ pc[b] \notin Ended /\ round' = round /\ Onwards
                    /\ \A c \in Builders \ {b} : pc'[c] = pc[c]
<1>4. ASSUME Moves
      PROVE  /\ Left(b)' < Left(b) /\ pc'[b] # pc[b]
             /\ \A c \in Builders \ {b} : pc'[c] = pc[c] /\ round'[c] = round[c]
  <2>1. Left(b) = 9 * (2 - round[b]) + Place(pc[b]) /\ round[b] \in 1..2 /\ Place(pc[b]) \in 1..13
    BY <1>1, <1>4 DEF Left, Place
  <2>2. CASE pc'[b] \in Ended
    <3>1. Left(b)' = 0
      BY <2>2 DEF Left
    <3> QED
      BY <1>4, <2>1, <2>2, <3>1
  <2>3. CASE pc'[b] \notin Ended
    <3>1. Left(b)' = 9 * (2 - round[b]) + Place(pc'[b]) /\ Place(pc'[b]) \in 1..13
          /\ Place(pc'[b]) < Place(pc[b])
      BY <1>4, <2>3 DEF Left, Place
    <3> QED
      BY <1>4, <2>1, <3>1
  <2> QED
    BY <2>2, <2>3
<1>5. CASE ReadSource(b) \/ ResolveOverlap(b) \/ AggregateMarket(b) \/ RereadSource(b)
  <2>1. /\ round' = round /\ \A c \in Builders \ {b} : pc'[c] = pc[c]
        /\ \/ pc[b] = "idle" /\ pc'[b] \in {"sourced", "failed"}
           \/ pc[b] = "sourced" /\ pc'[b] \in {"resolved", "failed"}
           \/ pc[b] = "resolved" /\ pc'[b] = "delete_aligned"
           \/ pc[b] = "reread_source" /\ pc'[b] \in {"reported", "failed"}
    BY <1>3, <1>5 DEF ReadSource, ResolveOverlap, AggregateMarket, RereadSource
  <2>2. Moves
    BY <2>1 DEF Place, PCs, Ended, Reading, Writing, Checking
  <2> HIDE DEF Moves
  <2> QED
    BY <1>4, <2>2
<1>6. CASE \/ BeginDelete(b, "aligned", "delete_aligned", "deleting_aligned")
           \/ EndDelete(b, "aligned", "deleting_aligned", "delete_market")
           \/ BeginDelete(b, "market", "delete_market", "deleting_market")
           \/ EndDelete(b, "market", "deleting_market", "insert_market")
           \/ InsertRows(b, "market", "insert_market", "insert_aligned")
           \/ InsertRows(b, "aligned", "insert_aligned", "commit")
           \/ Commit(b) \/ CommitAnswerLost(b) \/ CheckMarket(b)
  <2>1. /\ round' = round /\ \A c \in Builders \ {b} : pc'[c] = pc[c]
        /\ \/ pc[b] = "delete_aligned" /\ pc'[b] = "deleting_aligned"
           \/ pc[b] = "deleting_aligned" /\ pc'[b] = "delete_market"
           \/ pc[b] = "delete_market" /\ pc'[b] = "deleting_market"
           \/ pc[b] = "deleting_market" /\ pc'[b] = "insert_market"
           \/ pc[b] = "insert_market" /\ pc'[b] = "insert_aligned"
           \/ pc[b] = "insert_aligned" /\ pc'[b] = "commit"
           \/ pc[b] = "commit" /\ pc'[b] \in {"check_market", "failed"}
           \/ pc[b] = "check_market" /\ pc'[b] \in {"check_aligned", "failed"}
    BY <1>2, <1>3, <1>6 DEF BeginDelete, EndDelete, InsertRows, Commit, CommitAnswerLost, CheckMarket
  <2>2. Moves
    BY <2>1 DEF Place, PCs, Ended, Reading, Writing, Checking
  <2> HIDE DEF Moves
  <2> QED
    BY <1>4, <2>2
<1>7. CASE \/ UniqueViolation(b, "market", "insert_market")
           \/ UniqueViolation(b, "aligned", "insert_aligned")
           \/ DeadlockDetected(b) \/ Fails(b)
  <2>1. RollBack(b)
    BY <1>7 DEF UniqueViolation, DeadlockDetected, Fails
  <2>2. pc[b] \notin Ended
    BY <1>7 DEF UniqueViolation, DeadlockDetected, Fails, WaitsFor, Ended
  <2>3. Moves
    BY <1>2, <2>1, <2>2 DEF RollBack, Ended
  <2> HIDE DEF Moves
  <2> QED
    BY <1>4, <2>3
<1>8. CASE CheckAligned(b)
  <2>1. pc[b] = "check_aligned"
    BY <1>8 DEF CheckAligned
  <2>2. CASE round' = round
    <3>1. /\ pc'[b] \in {"failed", "reread_source"}
          /\ \A c \in Builders \ {b} : pc'[c] = pc[c]
      BY <1>1, <1>2, <1>8, <2>2 DEF CheckAligned, ReplaceAgain, Again
    <3>2. Moves
      BY <2>1, <2>2, <3>1 DEF Place, PCs, Ended, Reading, Writing, Checking
    <3> HIDE DEF Moves
    <3> QED
      BY <1>4, <3>2
  <2>3. CASE round' # round
    <3>1. /\ pc'[b] = "delete_aligned" /\ round[b] = 1 /\ round'[b] = 2
          /\ \A c \in Builders \ {b} : pc'[c] = pc[c] /\ round'[c] = round[c]
      BY <1>1, <1>2, <1>8, <2>3 DEF CheckAligned, ReplaceAgain, Again
    <3>2. Left(b) = 11 /\ Left(b)' = 10
      BY <2>1, <3>1 DEF Left, Place, Ended
    <3> QED
      BY <2>1, <3>1, <3>2
  <2> QED
    BY <2>2, <2>3
<1> QED
  BY <1>5, <1>6, <1>7, <1>8 DEF Step

\* Whatever fails, collides or is aborted in a circle of waits, a build takes at most
\* twenty-two steps: each of its own leaves less of a number that no other's changes.  A
\* replacement is repeated once, and nothing is tried again.  (build_snapshot,
\* replace_analytics_snapshot)
THEOREM BuildsRunDown ==
  Spec => /\ [](\A b \in Builders : Left(b) \in 0..22)
          /\ [][\A b \in Builders : \/ pc'[b] = pc[b] /\ Left(b)' = Left(b)
                                    \/ Left(b)' < Left(b)]_vars
<1>1. IInv => \A b \in Builders : Left(b) \in 0..22
  <2> SUFFICES ASSUME IInv, NEW b \in Builders PROVE Left(b) \in 0..22
    OBVIOUS
  <2>1. round[b] \in 1..2 /\ Place(pc[b]) \in 1..13
    BY DEF IInv, Types, Place
  <2> QED
    BY <2>1 DEF Left
<1>2. IInv /\ [Next]_vars =>
        [\A b \in Builders : \/ pc'[b] = pc[b] /\ Left(b)' = Left(b)
                             \/ Left(b)' < Left(b)]_vars
  <2> SUFFICES ASSUME IInv, Next, NEW c \in Builders
               PROVE  (pc'[c] = pc[c] /\ Left(c)' = Left(c)) \/ Left(c)' < Left(c)
    OBVIOUS
  <2>1. ASSUME pc'[c] = pc[c], round'[c] = round[c] PROVE Left(c)' = Left(c)
    BY <2>1 DEF Left, Place
  <2>2. CASE AddSale \/ IngestFlows \/ ApplyMigration \/ Analyze \/ \E b \in Builders : Ratify(b)
    BY <2>1, <2>2 DEF AddSale, IngestFlows, ApplyMigration, Analyze, Ratify
  <2>3. ASSUME NEW b \in Builders, Step(b) \/ Fails(b) \/ CommitAnswerLost(b)
        PROVE  (pc'[c] = pc[c] /\ Left(c)' = Left(c)) \/ Left(c)' < Left(c)
    BY <2>1, <2>3, BuildRunsDown
  <2> QED
    BY <2>2, <2>3 DEF Next
<1> QED
  BY <1>1, <1>2, InvariantHolds, PTL DEF Spec

===============================================================================
