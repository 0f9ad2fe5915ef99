-------------------------- MODULE IngestionLifecycle --------------------------
(***************************************************************************)
(* One ingestion call of NansenIngestionOrchestrator per element of Runs,  *)
(* each with a PostgresRepository of its own: an autocommit connection for *)
(* the audit row and a second connection for the data transaction.  The    *)
(* calls share nansen.ingestion_runs, nansen.flows (or dex_trades) and     *)
(* nansen.checkpoints, and PostgreSQL's row locks order their writes.      *)
(*                                                                         *)
(* One step is one statement sent to the database, one commit, one         *)
(* rollback or one source call; every other step of another call may fall  *)
(* between two of them.  The database runs at READ COMMITTED, psycopg's    *)
(* default: an upsert waits for the transaction that holds its row, then   *)
(* works on the row's committed version.                                   *)
(***************************************************************************)
EXTENDS Integers, Sequences

CONSTANTS
  Runs,      \* ingestion calls, each with its uuid4 run_id
  Streams,   \* checkpoint keys: (chain, endpoint, token address, flow label)
  Hours,     \* timestamps of records and of window ends
  Keys,      \* flow_key and trade_key: the keys records are upserted under
  TimeOf,    \* the timestamp a key covers; trades of one block share theirs
  Answers,   \* Answers[e]: the records the API may list for endpoint e, in any order
  MaxRecords, \* bound: the longest of them
  Requests,  \* the calls made: endpoint, stream and inclusive window
  Faults,    \* what the environment may do, a subset of FaultKinds
  Absent     \* no row, no checkpoint, no request

Endpoints == {"flows", "dex-trades", "token-information"}

\* "interrupt" is a Ctrl-C within the try, "interrupt outside" one before it begins or
\* in a handler.
FaultKinds == {"source", "statement", "data connection", "audit connection",
               "interrupt", "interrupt outside", "crash"}

Request == [endpoint: Endpoints, stream: Streams, first: Hours, last: Hours]

\* A normalized record; "complete" is NormalizedFlowRecord.is_complete.
Record == [key: Keys, complete: BOOLEAN]

\* A stored row: the run that wrote it last, and its completeness.
Row == [writer: Runs, complete: BOOLEAN]

\* A row of nansen.checkpoints: last_complete_timestamp, last_success_run_id.
Checkpoint == [timestamp: Hours, run: Runs]

ASSUME HoursAssumption == Hours \subseteq Int
ASSUME KeysAssumption == TimeOf \in [Keys -> Hours]
ASSUME MaxRecordsAssumption == MaxRecords \in Nat
\* Only flow records carry a completeness flag, and token-information has no history.
ASSUME AnswersAssumption ==
  \A e \in Endpoints : \A b \in Answers[e] :
    /\ b \in Seq(Record) /\ Len(b) <= MaxRecords
    /\ e = "dex-trades" => \A n \in DOMAIN b : b[n].complete
    /\ e = "token-information" => b = <<>>
ASSUME RequestsAssumption == Requests \subseteq Request
ASSUME FaultsAssumption == Faults \subseteq FaultKinds
ASSUME AbsentAssumption == Absent \notin Request \cup Row \cup Checkpoint

VARIABLES
  (* committed database state *)
  status,      \* ingestion_runs.status, "none" before the row exists
  table,       \* stored row of each stream and key
  checkpoint,  \* checkpoint row of each stream
  (* each call's own state *)
  pc,          \* where _ingest_historical stands
  request,     \* the call's arguments, also in its audit row
  batch,       \* the validated records of the source's answer, in its order
  dataActive,  \* PostgresRepository._data_transaction_active
  dataConn,    \* health of the data connection
  tx           \* the open transaction's uncommitted writes, as the server has them

vars == <<status, table, checkpoint, pc, request, batch, dataActive, dataConn, tx>>

callVars == <<request, batch>>
dbVars == <<status, table, checkpoint>>

Ended == {"returned", "raised", "crashed"}
InTransaction == {"storing", "checkpointing", "committing"}
PCs == {"idle", "fetching", "committed", "unwinding", "failing"} \cup InTransaction \cup Ended

\* stored: how many records were upserted; marked: the success update of the run's own
\* audit row; checkpoint: whether its upsert ran, and whether its WHERE let it write.
Transaction == [stored: Nat, marked: BOOLEAN, checkpoint: {"none", "kept", "advanced"}]

NoTransaction == [stored |-> 0, marked |-> FALSE, checkpoint |-> "none"]

TypeOK ==
  /\ status \in [Runs -> {"none", "running", "success", "failed"}]
  /\ table \in [Streams -> [Keys -> Row \cup {Absent}]]
  /\ checkpoint \in [Streams -> Checkpoint \cup {Absent}]
  /\ pc \in [Runs -> PCs]
  /\ request \in [Runs -> Request \cup {Absent}]
  /\ batch \in [Runs -> Seq(Record)]
  /\ dataActive \in [Runs -> BOOLEAN]
  /\ dataConn \in [Runs -> {"up", "lost"}]
  /\ tx \in [Runs -> Transaction]

-------------------------------------------------------------------------------
(* The rules the steps use. *)

IsHistorical(q) == q.endpoint # "token-information"

AnyOrder(b) == TRUE

\* order_by: ascending in time; what shares a timestamp comes in any order.
Ascending(b) == \A m, n \in DOMAIN b : m < n => TimeOf[b[m].key] <= TimeOf[b[n].key]

\* The API's answer, anywhere in time.
Responses(q) == {b \in Answers[q.endpoint] : Ascending(b)}

AcceptsIncompleteBatch(q, b) == \A n \in DOMAIN b : TimeOf[b[n].key] \in q.first..q.last

\* _validate_flows and _validate_trades.
AcceptsBatch(q, b) ==
  \A n \in DOMAIN b :
    /\ TimeOf[b[n].key] \in q.first..q.last
    /\ q.endpoint = "flows" => b[n].complete

\* FLOW_UPSERT_SQL: insert, or update unless that would downgrade a complete row.
UpsertRow(old, r, complete) ==
  IF old = Absent THEN [writer |-> r, complete |-> complete]
  ELSE IF old.complete /\ ~complete THEN old
  ELSE [writer |-> r, complete |-> old.complete \/ complete]

BackwardsCheckpointMayMove(cp, timestamp) == cp = Absent \/ timestamp <= cp.timestamp

\* CHECKPOINT_UPSERT_SQL: insert, or update WHERE EXCLUDED's timestamp is not older.
CheckpointMayMove(cp, timestamp) == cp = Absent \/ timestamp >= cp.timestamp

\* The keys r has upserted: their rows are locked until its transaction ends.
Held(r) == {batch[r][n].key : n \in 1..tx[r].stored}

SameStream(q, r) == request[q] # Absent /\ request[q].stream = request[r].stream

\* Row locks: an uncommitted upsert keeps every other call off the same row.
RowFree(r, k) == \A q \in Runs \ {r} : ~(SameStream(q, r) /\ k \in Held(q))

CheckpointUnlocked(r) == TRUE

CheckpointFree(r) == \A q \in Runs \ {r} : ~(SameStream(q, r) /\ tx[q].checkpoint # "none")

\* store_flows and store_dex_trades walk the records in the order of the answer.
ToStore(r) == tx[r].stored < Len(batch[r])

NextRecord(r) == batch[r][tx[r].stored + 1]

\* r's next statement waits for a row that q's transaction holds.
WaitsFor(r, q) ==
  /\ q # r /\ pc[r] \in InTransaction /\ dataConn[r] = "up" /\ SameStream(q, r)
  /\ \/ pc[r] = "storing" /\ ToStore(r) /\ NextRecord(r).key \in Held(q)
     \/ pc[r] = "checkpointing" /\ tx[q].checkpoint # "none"

Goto(r, from, to) == pc[r] = from /\ pc' = [pc EXCEPT ![r] = to]

\* The server forgets the open transaction of r: its writes are undone, its locks freed.
ServerAborts(r) == tx' = [tx EXCEPT ![r] = NoTransaction]

Init ==
  /\ status = [r \in Runs |-> "none"]
  /\ table = [s \in Streams |-> [k \in Keys |-> Absent]]
  /\ checkpoint = [s \in Streams |-> Absent]
  /\ pc = [r \in Runs |-> "idle"]
  /\ request = [r \in Runs |-> Absent]
  /\ batch = [r \in Runs |-> <<>>]
  /\ dataActive = [r \in Runs |-> FALSE]
  /\ dataConn = [r \in Runs |-> "up"]
  /\ tx = [r \in Runs |-> NoTransaction]

-------------------------------------------------------------------------------
(* The call's own steps. *)

\* begin_ingestion_run's INSERT is durable.
InsertsAudit(r) ==
  /\ \E q \in Requests : request' = [request EXCEPT ![r] = q]
  /\ status' = [status EXCEPT ![r] = "running"]

\* _start_run: the running audit row is durable before the source is called.
StartRun(r) ==
  /\ Goto(r, "idle", "fetching")
  /\ InsertsAudit(r)
  /\ UNCHANGED <<table, checkpoint, batch, dataActive, dataConn, tx>>

\* The INSERT raises, before the try: there is no row, or it is there and only the
\* answer to the INSERT was lost.
BeginRunFails(r) ==
  /\ "audit connection" \in Faults
  /\ Goto(r, "idle", "raised")
  /\ InsertsAudit(r) \/ UNCHANGED <<request, status>>
  /\ UNCHANGED <<table, checkpoint, batch, dataActive, dataConn, tx>>

\* The source's pages arrive, pass every validation, and BEGIN succeeds.
FetchAndBegin(r) ==
  /\ Goto(r, "fetching", "storing")
  /\ dataConn[r] = "up"
  /\ \E b \in Responses(request[r]) :
        AcceptsBatch(request[r], b) /\ batch' = [batch EXCEPT ![r] = b]
  /\ dataActive' = [dataActive EXCEPT ![r] = TRUE]
  /\ UNCHANGED <<dbVars, request, dataConn, tx>>

\* The pages arrive and a validation raises; no data transaction was opened.
RejectBatch(r) ==
  /\ Goto(r, "fetching", "unwinding")
  /\ \E b \in Responses(request[r]) : ~AcceptsBatch(request[r], b)
  /\ UNCHANGED <<dbVars, callVars, dataActive, dataConn, tx>>

\* The client raises: transport, status, budget, malformed page, page limit, Ctrl-C.
SourceFails(r) ==
  /\ Faults \cap {"source", "interrupt"} # {}
  /\ Goto(r, "fetching", "unwinding")
  /\ UNCHANGED <<dbVars, callVars, dataActive, dataConn, tx>>

StageAndShow(r) ==
  LET m == NextRecord(r) IN
  /\ tx' = [tx EXCEPT ![r].stored = @ + 1]
  /\ table' = [table EXCEPT ![request[r].stream][m.key] = UpsertRow(@, r, m.complete)]

\* The data connection does not autocommit: the row stays in the transaction.
StageRow(r) ==
  /\ tx' = [tx EXCEPT ![r].stored = @ + 1]
  /\ table' = table

\* One FLOW_UPSERT_SQL or DEX_TRADE_UPSERT_SQL of store_flows or store_dex_trades.
StoreRecord(r) ==
  /\ pc[r] = "storing" /\ dataConn[r] = "up"
  /\ ToStore(r) /\ RowFree(r, NextRecord(r).key)
  /\ StageRow(r)
  /\ UNCHANGED <<status, checkpoint, pc, callVars, dataActive, dataConn>>

\* complete_ingestion_run updates the audit row inside the data transaction; a
\* token-information call then commits, a historical one advances its checkpoint.
CompleteIngestionRun(r) ==
  /\ ~ToStore(r) /\ dataConn[r] = "up"
  /\ Goto(r, "storing", IF IsHistorical(request[r]) THEN "checkpointing" ELSE "committing")
  /\ tx' = [tx EXCEPT ![r].marked = TRUE]
  /\ UNCHANGED <<dbVars, callVars, dataActive, dataConn>>

\* advance_checkpoint: the eligibility SELECT sees this transaction's own success
\* mark; the upsert waits for the row and writes it unless that would be backwards.
AdvanceCheckpoint(r) ==
  /\ Goto(r, "checkpointing", "committing")
  /\ dataConn[r] = "up" /\ tx[r].marked
  /\ CheckpointFree(r)
  /\ LET moves == CheckpointMayMove(checkpoint[request[r].stream], request[r].last)
     IN  tx' = [tx EXCEPT ![r].checkpoint = IF moves THEN "advanced" ELSE "kept"]
  /\ UNCHANGED <<dbVars, callVars, dataActive, dataConn>>

MarkSuccessLater(r) == status' = status

MarkPartial(r) == status' = [status EXCEPT ![r] = "partial"]

\* INGESTION_RUN_SUCCESS_SQL ran in the data transaction and commits with it.
MarkSuccess(r) == status' = [status EXCEPT ![r] = IF tx[r].marked THEN "success" ELSE @]

IsComplete(r, k) == \E n \in DOMAIN batch[r] : batch[r][n] = [key |-> k, complete |-> TRUE]

\* The server makes every write of the transaction visible in one step.
ServerCommits(r) ==
  LET q == request[r] IN
  /\ MarkSuccess(r)
  /\ table' = [table EXCEPT ![q.stream] = [k \in Keys |->
        IF k \in Held(r) THEN UpsertRow(@[k], r, IsComplete(r, k)) ELSE @[k]]]
  /\ checkpoint' = IF tx[r].checkpoint = "advanced"
                   THEN [checkpoint EXCEPT ![q.stream] = [timestamp |-> q.last, run |-> r]]
                   ELSE checkpoint
  /\ tx' = [tx EXCEPT ![r] = NoTransaction]

CommitDataTransaction(r) ==
  /\ Goto(r, "committing", "committed")
  /\ dataConn[r] = "up"
  /\ ServerCommits(r)
  /\ UNCHANGED <<callVars, dataActive, dataConn>>

\* _data_transaction_active is cleared and the IngestionResult returned.
ReturnResult(r) ==
  /\ Goto(r, "committed", "returned")
  /\ dataActive' = [dataActive EXCEPT ![r] = FALSE]
  /\ UNCHANGED <<dbVars, callVars, dataConn, tx>>

-------------------------------------------------------------------------------
(* Exceptions and the two except BaseException handlers. *)

\* A statement, the mapping of a record or Ctrl-C raises while the transaction is
\* open.  An SQL error makes the server undo it at once, a Python error does not.
StatementFails(r) ==
  /\ Faults \cap {"statement", "interrupt"} # {}
  /\ pc[r] \in InTransaction /\ dataConn[r] = "up"
  /\ Goto(r, pc[r], "unwinding")
  /\ ServerAborts(r) \/ tx' = tx
  /\ UNCHANGED <<dbVars, callVars, dataActive, dataConn>>

\* Calls wait for one another in a circle: the server aborts the transaction of one.
DeadlockDetected(r) ==
  /\ \E circle \in SUBSET Runs :
       /\ r \in circle
       /\ \A p \in circle : \E q \in circle : WaitsFor(p, q)
       /\ \A p \in circle : \E q \in circle : WaitsFor(q, p)
  /\ Goto(r, pc[r], "unwinding")
  /\ ServerAborts(r)
  /\ UNCHANGED <<dbVars, callVars, dataActive, dataConn>>

\* A statement, BEGIN included, finds the data connection gone.
ConnectionError(r) ==
  /\ pc[r] \in InTransaction \cup {"fetching"} /\ dataConn[r] = "lost"
  /\ Goto(r, pc[r], "unwinding")
  /\ UNCHANGED <<dbVars, callVars, dataActive, dataConn, tx>>

\* The server commits and the connection dies before the answer arrives.
CommitAnswerLost(r) ==
  /\ "data connection" \in Faults
  /\ Goto(r, "committing", "unwinding")
  /\ dataConn[r] = "up" /\ dataConn' = [dataConn EXCEPT ![r] = "lost"]
  /\ ServerCommits(r)
  /\ UNCHANGED <<callVars, dataActive>>

\* Ctrl-C after the server's commit and before the return, still inside the try;
\* the flag may or may not be cleared by then.
InterruptAfterCommit(r) ==
  /\ "interrupt" \in Faults
  /\ Goto(r, "committed", "unwinding")
  /\ \E active \in {dataActive[r], FALSE} : dataActive' = [dataActive EXCEPT ![r] = active]
  /\ UNCHANGED <<dbVars, callVars, dataConn, tx>>

\* The flag is cleared and connection.rollback() is not called.
RollbackFlagOnly(r) ==
  /\ Goto(r, "unwinding", "failing")
  /\ dataActive' = [dataActive EXCEPT ![r] = FALSE]
  /\ UNCHANGED <<dbVars, callVars, dataConn, tx>>

\* rollback_data_transaction, called by the inner and again by the outer handler.
RollbackDataTransaction(r) ==
  /\ Goto(r, "unwinding", "failing")
  /\ ~(dataActive[r] /\ dataConn[r] = "lost")
  /\ ServerAborts(r)
  /\ dataActive' = [dataActive EXCEPT ![r] = FALSE]
  /\ UNCHANGED <<dbVars, callVars, dataConn>>

\* rollback() on a lost connection raises before the flag is cleared, so it raises
\* again in the outer handler and _fail is never reached.
RollbackRaises(r) ==
  /\ Goto(r, "unwinding", "raised")
  /\ dataActive[r] /\ dataConn[r] = "lost"
  /\ UNCHANGED <<dbVars, callVars, dataActive, dataConn, tx>>

\* fail_ingestion_run: INGESTION_RUN_FAILURE_SQL has no guard on the old status; it
\* waits for a data transaction that still holds the audit row.
FailIngestionRun(r) ==
  /\ Goto(r, "failing", "raised")
  /\ ~tx[r].marked
  /\ status' = [status EXCEPT ![r] = "failed"]
  /\ UNCHANGED <<table, checkpoint, callVars, dataActive, dataConn, tx>>

AuditUpdateFails(r) ==
  /\ "audit connection" \in Faults
  /\ Goto(r, "failing", "raised")
  /\ UNCHANGED <<dbVars, callVars, dataActive, dataConn, tx>>

\* Ctrl-C after the INSERT and before the try, or while a handler runs: nothing more is
\* audited, and staging_repository closes both connections.
InterruptOutsideTry(r) ==
  /\ "interrupt outside" \in Faults
  /\ pc[r] \in {"fetching", "unwinding", "failing"}
  /\ Goto(r, pc[r], "raised")
  /\ ServerAborts(r)
  /\ UNCHANGED <<dbVars, callVars, dataActive, dataConn>>

-------------------------------------------------------------------------------
(* The environment. *)

LoseDataConnection(r) ==
  /\ "data connection" \in Faults
  /\ pc[r] \notin Ended \cup {"idle"} /\ dataConn[r] = "up"
  /\ dataConn' = [dataConn EXCEPT ![r] = "lost"]
  /\ ServerAborts(r)
  /\ UNCHANGED <<dbVars, pc, callVars, dataActive>>

\* The process dies: no handler runs, and the server undoes what was not committed.
Crash(r) ==
  /\ "crash" \in Faults
  /\ pc[r] \notin Ended \cup {"idle"}
  /\ Goto(r, pc[r], "crashed")
  /\ ServerAborts(r)
  /\ UNCHANGED <<dbVars, callVars, dataActive, dataConn>>

-------------------------------------------------------------------------------
\* What the call does when the environment lets it.
OwnStep(r) ==
  \/ FetchAndBegin(r) \/ RejectBatch(r)
  \/ StoreRecord(r) \/ CompleteIngestionRun(r) \/ AdvanceCheckpoint(r)
  \/ CommitDataTransaction(r) \/ ReturnResult(r)
  \/ ConnectionError(r) \/ DeadlockDetected(r)
  \/ RollbackDataTransaction(r) \/ RollbackRaises(r) \/ FailIngestionRun(r)

CallStep(r) == OwnStep(r) \/ SourceFails(r) \/ StatementFails(r) \/ AuditUpdateFails(r)

\* Every call has ended, or none was made of it: the model stops here.
AllEnded == (\A r \in Runs : pc[r] \in Ended) /\ UNCHANGED vars

Next ==
  \/ \E r \in Runs :
       \/ StartRun(r) \/ BeginRunFails(r) \/ CallStep(r)
       \/ CommitAnswerLost(r) \/ InterruptAfterCommit(r) \/ InterruptOutsideTry(r)
       \/ LoseDataConnection(r) \/ Crash(r)
  \/ AllEnded

Spec == Init /\ [][Next]_vars

\* A process that is not blocked on a row lock goes on: its source calls time out,
\* its statements return or raise, and the server looks for circles.  No failure is
\* counted on.
FairSpec == Spec /\ \A r \in Runs : WF_vars(OwnStep(r))

-------------------------------------------------------------------------------
(* What must hold. *)

\* Every record of the call's answer has its row.
AllStored(r) ==
  \A n \in DOMAIN batch[r] : table[request[r].stream][batch[r][n].key] # Absent

\* A checkpoint never claims more than its run brought in: it names a historical run
\* of its own stream that is no longer running, carries that run's window end, and
\* every record of that run is stored.  (advance_checkpoint, CHECKPOINT_UPSERT_SQL)
CheckpointBacked ==
  \A s \in Streams : checkpoint[s] # Absent =>
    LET r == checkpoint[s].run  q == request[r] IN
    /\ q # Absent /\ q.stream = s /\ IsHistorical(q) /\ q.last = checkpoint[s].timestamp
    /\ status[r] \in {"success", "failed"}
    /\ AllStored(r)

\* A run audited as a success has all its records stored, and the checkpoint of its
\* stream has reached its window end, whichever calls ran beside it.
SuccessRecorded ==
  \A r \in Runs : status[r] = "success" =>
    LET q == request[r] IN
    /\ AllStored(r)
    /\ IsHistorical(q) => /\ checkpoint[q.stream] # Absent
                          /\ checkpoint[q.stream].timestamp >= q.last

\* A stored row was written by a run of its stream whose data transaction committed,
\* lies in that run's window and is complete: no batch is ever visible in part.
RowsFromCommittedRuns ==
  \A s \in Streams, k \in Keys : table[s][k] # Absent =>
    LET r == table[s][k].writer  q == request[r] IN
    /\ q # Absent /\ q.stream = s /\ TimeOf[k] \in q.first..q.last
    /\ status[r] \in {"success", "failed"}
    /\ AllStored(r)

\* Only complete flow records are ever stored (_validate_flows raises
\* IncompleteSourceWindow), so the history never holds an unfinished hour.
StoredRowsComplete ==
  \A s \in Streams, k \in Keys : table[s][k] # Absent => table[s][k].complete

\* r has stored a record of the very timestamp it is about to store another of.
HoldsTie(r) ==
  /\ pc[r] = "storing" /\ ToStore(r)
  /\ \E k \in Held(r) : TimeOf[k] = TimeOf[NextRecord(r).key]

\* Where calls wait for one another in a circle, records share a timestamp: one of them
\* has stored a record of the timestamp it waits at.  Whatever does not tie is locked in
\* ascending time, and the checkpoint last.  (order_by, store_flows, store_dex_trades)
CirclesTakeTies ==
  \A S \in SUBSET Runs : S # {} => \E r \in S : HoldsTie(r) \/ \A q \in S : ~WaitsFor(r, q)

\* last_complete_timestamp of a stream never goes back, and a checkpoint never
\* disappears, however the calls of the stream interleave.
CheckpointMonotone ==
  [][\A s \in Streams : checkpoint[s] # Absent =>
        /\ checkpoint'[s] # Absent
        /\ checkpoint'[s].timestamp >= checkpoint[s].timestamp]_vars

\* Every call that starts returns, raises or dies: no call waits forever for a row
\* lock, its own data transaction's lock on the audit row included.
EveryCallEnds == \A r \in Runs : pc[r] = "fetching" ~> pc[r] \in Ended

Atomic == INSTANCE AtomicIngestion

\* What a reader of the database sees of interleaved, failing and dying calls is what
\* whole landings, one call after another, would show.  (The two-connection design of
\* PostgresRepository.)
ImplementsAtomic == Atomic!Spec

\* docs/database.md: "referencing only a successful ingestion run".
CheckpointOwnerSucceeded ==
  \A s \in Streams : checkpoint[s] # Absent => status[checkpoint[s].run] = "success"

\* docs/database.md: "or the data transaction rolls back and the existing run is marked
\* failed/partial in a separate audit operation".
RaisedCallsAreAudited == \A r \in Runs : pc[r] = "raised" => status[r] # "running"

===============================================================================
