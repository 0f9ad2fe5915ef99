---------------------- MODULE IngestionLifecycle_proofs ----------------------
(***************************************************************************)
(* The theorems of IngestionLifecycle, for every set of calls, streams,    *)
(* keys and requests, answers of any length and every combination of       *)
(* faults.                                                                 *)
(***************************************************************************)
EXTENDS IngestionLifecycle, FiniteSetTheorems, SequenceTheorems, TLAPS

\* Two calls of one stream.
Rivals(r, q) == r # q /\ SameStream(r, q) /\ SameStream(q, r)

\* The keys of a call's answer.
Brought(r) == {batch[r][n].key : n \in DOMAIN batch[r]}

\* A call with an audit row has a request, a call without one has not started or raised
\* at once, and a run is running until its transaction commits or its failure is audited.
CallsAudited ==
  \A r \in Runs :
    /\ status[r] # "none" => request[r] \in Requests
    /\ status[r] = "none" => pc[r] \in {"idle", "raised"}
    /\ pc[r] = "idle" => status[r] = "none"
    /\ pc[r] \in {"idle", "fetching"} => batch[r] = <<>>
    /\ pc[r] \in InTransaction \cup {"fetching"} => status[r] = "running"

\* Only validated records reach the transaction, in the order of time.
BatchesAccepted ==
  \A r \in Runs :
    /\ Ascending(batch[r]) /\ Len(batch[r]) <= MaxRecords
    /\ \A n \in DOMAIN batch[r] :
         /\ batch[r][n].complete /\ request[r] # Absent
         /\ TimeOf[batch[r][n].key] \in request[r].first..request[r].last

\* What a transaction holds at each point of the call.
TransactionInOrder(r) ==
  /\ tx[r] # NoTransaction => pc[r] \in InTransaction \cup {"unwinding"}
  /\ dataConn[r] = "lost" => tx[r] = NoTransaction
  /\ tx[r].stored <= Len(batch[r])
  /\ tx[r].marked => pc[r] # "storing"
  /\ tx[r].checkpoint # "none" => pc[r] \in {"committing", "unwinding"} /\ IsHistorical(request[r])
  /\ pc[r] \in {"checkpointing", "committing"} /\ dataConn[r] = "up" =>
       tx[r].marked /\ ~ToStore(r)
  /\ pc[r] = "checkpointing" => IsHistorical(request[r])
  /\ pc[r] = "committing" /\ dataConn[r] = "up" /\ IsHistorical(request[r]) =>
       tx[r].checkpoint # "none"

TransactionsInOrder == \A r \in Runs : TransactionInOrder(r)

\* Two open transactions of one stream hold no row in common.
LocksExclusive ==
  \A r, q \in Runs : Rivals(r, q) =>
    /\ Held(r) \cap Held(q) = {}
    /\ tx[r].checkpoint = "none" \/ tx[q].checkpoint = "none"

\* The decision of the checkpoint upsert is still right when its transaction commits.
DecisionsCurrent ==
  \A r \in Runs : tx[r].checkpoint # "none" =>
    (tx[r].checkpoint = "advanced" <=>
       CheckpointMayMove(checkpoint[request[r].stream], request[r].last))

IInv ==
  /\ TypeOK /\ CallsAudited /\ BatchesAccepted /\ TransactionsInOrder
  /\ LocksExclusive /\ DecisionsCurrent
  /\ CheckpointBacked /\ SuccessRecorded /\ RowsFromCommittedRuns /\ StoredRowsComplete

-------------------------------------------------------------------------------
(* Types. *)

USE DEF Endpoints, FaultKinds, Request, Record, Row, Checkpoint, Transaction,
        NoTransaction, PCs, Ended, InTransaction

LEMMA InitType == Init => TypeOK
  BY DEF Init, TypeOK

\* An answer is a sequence of at most MaxRecords records, as its endpoint has them.
LEMMA AnswerIsSequence ==
  ASSUME NEW q \in Request, NEW b \in Responses(q)
  PROVE  /\ b \in Seq(Record) /\ Len(b) <= MaxRecords /\ Ascending(b)
         /\ q.endpoint = "dex-trades" => \A n \in DOMAIN b : b[n].complete
         /\ q.endpoint = "token-information" => b = <<>>
<1>1. q.endpoint \in Endpoints /\ b \in Answers[q.endpoint] /\ Ascending(b)
  BY DEF Responses
<1> QED BY <1>1, AnswersAssumption

\* A commit writes rows, a checkpoint and a status of the right types.
LEMMA CommitType ==
  ASSUME TypeOK, NEW r \in Runs, ServerCommits(r), request[r] \in Request
  PROVE  /\ status' \in [Runs -> {"none", "running", "success", "failed"}]
         /\ table' \in [Streams -> [Keys -> Row \cup {Absent}]]
         /\ checkpoint' \in [Streams -> Checkpoint \cup {Absent}]
         /\ tx' \in [Runs -> Transaction]
<1>1. status' \in [Runs -> {"none", "running", "success", "failed"}]
  BY DEF TypeOK, ServerCommits, MarkSuccess
<1>2. ASSUME NEW old \in Row \cup {Absent}, NEW c \in BOOLEAN
      PROVE  UpsertRow(old, r, c) \in Row
  BY AbsentAssumption DEF UpsertRow
<1>3. table' \in [Streams -> [Keys -> Row \cup {Absent}]]
  <2> DEFINE s == request[r].stream
             rows == [k \in Keys |-> IF k \in Held(r)
                        THEN UpsertRow(table[s][k], r, IsComplete(r, k)) ELSE table[s][k]]
  <2>1. \A k \in Keys : IsComplete(r, k) \in BOOLEAN
    BY DEF IsComplete
  <2>2. s \in Streams /\ table[s] \in [Keys -> Row \cup {Absent}]
    BY DEF TypeOK
  <2>3. rows \in [Keys -> Row \cup {Absent}]
    <3> HIDE DEF s
    <3> SUFFICES ASSUME NEW k \in Keys PROVE rows[k] \in Row \cup {Absent}
      BY Zenon
    <3>1. table[s][k] \in Row \cup {Absent} BY <2>2
    <3>2. UpsertRow(table[s][k], r, IsComplete(r, k)) \in Row BY <1>2, <2>1, <3>1
    <3> QED BY <3>1, <3>2
  <2>4. table' = [table EXCEPT ![s] = rows]
    BY DEF ServerCommits
  <2> HIDE DEF s, rows
  <2> QED BY <2>2, <2>3, <2>4 DEF TypeOK
<1>4. checkpoint' \in [Streams -> Checkpoint \cup {Absent}]
  BY DEF TypeOK, ServerCommits
<1>5. tx' \in [Runs -> Transaction]
  BY DEF TypeOK, ServerCommits
<1> QED BY <1>1, <1>3, <1>4, <1>5

\* request[r] is a request while r is between its start and its end, and once its audit
\* row is there.
LEMMA StartedHasRequest ==
  ASSUME CallsAudited, NEW r \in Runs, pc[r] \notin {"idle", "raised"} \/ status[r] # "none"
  PROVE  request[r] \in Request
  BY RequestsAssumption DEF CallsAudited

LEMMA TypeStep == TypeOK /\ CallsAudited /\ [Next]_vars => TypeOK'
<1> SUFFICES ASSUME TypeOK, CallsAudited, [Next]_vars PROVE TypeOK'
  OBVIOUS
<1> USE DEF TypeOK, Goto, dbVars, callVars, ServerAborts
<1>0. ASSUME NEW r \in Runs, InsertsAudit(r)
       PROVE  /\ request' \in [Runs -> Request \cup {Absent}]
              /\ status' \in [Runs -> {"none", "running", "success", "failed"}]
  <2>1. PICK q \in Requests : request' = [request EXCEPT ![r] = q]
    BY <1>0 DEF InsertsAudit
  <2>2. q \in Request /\ request \in [Runs -> Request \cup {Absent}]
    BY RequestsAssumption
  <2> HIDE DEF Request
  <2> QED BY <1>0, <2>1, <2>2 DEF InsertsAudit
<1>1. ASSUME NEW r \in Runs, StartRun(r) PROVE TypeOK'
  BY <1>1, <1>0 DEF StartRun
<1>1a. ASSUME NEW r \in Runs, BeginRunFails(r) PROVE TypeOK'
  <2>1. CASE InsertsAudit(r)
    BY <1>1a, <1>0, <2>1 DEF BeginRunFails
  <2>2. CASE UNCHANGED <<request, status>>
    BY <1>1a, <2>2 DEF BeginRunFails
  <2> QED BY <1>1a, <2>1, <2>2 DEF BeginRunFails
<1>2. ASSUME NEW r \in Runs, FetchAndBegin(r) PROVE TypeOK'
  <2>1. PICK b \in Responses(request[r]) : batch' = [batch EXCEPT ![r] = b]
    BY <1>2, Zenon DEF FetchAndBegin
  <2>2. b \in Seq(Record)
    <3>1. request[r] \in Request
      BY <1>2, StartedHasRequest DEF FetchAndBegin
    <3> HIDE DEF Request, Record
    <3> QED BY <2>1, <3>1, AnswerIsSequence
  <2>3. batch' \in [Runs -> Seq(Record)]
    BY <2>1, <2>2
  <2> QED BY <1>2, <2>3 DEF FetchAndBegin
<1>3. ASSUME NEW r \in Runs, RejectBatch(r) \/ SourceFails(r) PROVE TypeOK'
  BY <1>3 DEF RejectBatch, SourceFails
<1>4. ASSUME NEW r \in Runs, StoreRecord(r) PROVE TypeOK'
  <2>1. tx' = [tx EXCEPT ![r].stored = @ + 1]
    BY <1>4 DEF StoreRecord, StageRow
  <2>2. tx[r] \in Transaction /\ tx[r].stored + 1 \in Nat
    OBVIOUS
  <2>3. [tx[r] EXCEPT !.stored = @ + 1] \in Transaction
    BY <2>2, Zenon
  <2>4. tx' \in [Runs -> Transaction]
    BY <2>1, <2>3, Zenon
  <2> QED BY <1>4, <2>4 DEF StoreRecord, StageRow
<1>5. ASSUME NEW r \in Runs, CompleteIngestionRun(r) PROVE TypeOK'
  BY <1>5 DEF CompleteIngestionRun
<1>6. ASSUME NEW r \in Runs, AdvanceCheckpoint(r) PROVE TypeOK'
  <2>1. PICK c \in {"kept", "advanced"} : tx' = [tx EXCEPT ![r].checkpoint = c]
    BY <1>6, Zenon DEF AdvanceCheckpoint
  <2>2. tx' \in [Runs -> Transaction]
    BY <2>1
  <2> QED BY <1>6, <2>2 DEF AdvanceCheckpoint
<1>7. ASSUME NEW r \in Runs, CommitDataTransaction(r) PROVE TypeOK'
  <2>1. request[r] \in Request
    BY <1>7, StartedHasRequest DEF CommitDataTransaction
  <2> HIDE DEF ServerAborts
  <2> QED BY <1>7, <2>1, CommitType DEF CommitDataTransaction
<1>8. ASSUME NEW r \in Runs, CommitAnswerLost(r) PROVE TypeOK'
  <2>1. request[r] \in Request
    BY <1>8, StartedHasRequest DEF CommitAnswerLost
  <2> HIDE DEF ServerAborts
  <2> QED BY <1>8, <2>1, CommitType DEF CommitAnswerLost
<1>9. ASSUME NEW r \in Runs, ReturnResult(r) PROVE TypeOK'
  BY <1>9 DEF ReturnResult
<1>10. ASSUME NEW r \in Runs, StatementFails(r) PROVE TypeOK'
  <2>1. ServerAborts(r) \/ tx' = tx
    BY <1>10, Zenon DEF StatementFails
  <2>4. tx' \in [Runs -> Transaction]
    <3>1. CASE ServerAborts(r) BY <3>1
    <3>2. CASE tx' = tx BY <3>2
    <3> QED BY <2>1, <3>1, <3>2
  <2>2. pc' \in [Runs -> PCs]
    BY <1>10 DEF StatementFails
  <2>3. UNCHANGED <<dbVars, callVars, dataActive, dataConn>>
    BY <1>10 DEF StatementFails
  <2> QED BY <2>4, <2>2, <2>3
<1>11. ASSUME NEW r \in Runs, ConnectionError(r) \/ RollbackRaises(r) \/ AuditUpdateFails(r)
       PROVE  TypeOK'
  <2>1. \E p \in PCs : pc' = [pc EXCEPT ![r] = p]
    BY <1>11 DEF ConnectionError, RollbackRaises, AuditUpdateFails
  <2>2. UNCHANGED <<dbVars, callVars, dataActive, dataConn, tx>>
    BY <1>11 DEF ConnectionError, RollbackRaises, AuditUpdateFails
  <2>3. pc' \in [Runs -> PCs]
    BY <2>1
  <2> QED BY <2>2, <2>3
<1>12. ASSUME NEW r \in Runs, RollbackDataTransaction(r) PROVE TypeOK'
  <2>1. tx' \in [Runs -> Transaction]
    BY <1>12 DEF RollbackDataTransaction
  <2> QED BY <1>12, <2>1 DEF RollbackDataTransaction
<1>13. ASSUME NEW r \in Runs, FailIngestionRun(r) PROVE TypeOK'
  BY <1>13 DEF FailIngestionRun
<1>14. ASSUME NEW r \in Runs, InterruptAfterCommit(r) PROVE TypeOK'
  <2>1. dataActive' \in [Runs -> BOOLEAN]
    BY <1>14 DEF InterruptAfterCommit
  <2> QED BY <1>14, <2>1 DEF InterruptAfterCommit
<1>15. ASSUME NEW r \in Runs,
              LoseDataConnection(r) \/ Crash(r) \/ DeadlockDetected(r) \/ InterruptOutsideTry(r)
       PROVE  TypeOK'
  <2>4. ServerAborts(r)
    BY <1>15, Zenon DEF LoseDataConnection, Crash, DeadlockDetected, InterruptOutsideTry
  <2>1. tx' \in [Runs -> Transaction]
    BY <2>4
  <2>2. pc' \in [Runs -> PCs] /\ dataConn' \in [Runs -> {"up", "lost"}]
    BY <1>15 DEF LoseDataConnection, Crash, DeadlockDetected, InterruptOutsideTry
  <2>3. UNCHANGED <<dbVars, callVars, dataActive>>
    BY <1>15 DEF LoseDataConnection, Crash, DeadlockDetected, InterruptOutsideTry
  <2> QED BY <2>1, <2>2, <2>3
<1>16. CASE UNCHANGED vars
  BY <1>16 DEF vars
<1> QED
  BY <1>1, <1>2, <1>3, <1>4, <1>5, <1>6, <1>7, <1>8, <1>9, <1>10, <1>11, <1>12, <1>13,
     <1>14, <1>15, <1>16, <1>1a, Zenon DEF Next, CallStep, OwnStep, AllEnded

-------------------------------------------------------------------------------
(* The steps by what they touch. *)

\* A quiet step leaves the database and every call's arguments and records alone,
\* and at most takes a transaction's uncommitted writes away.
Quiet ==
  /\ UNCHANGED <<dbVars, callVars>>
  /\ \A q \in Runs : tx'[q] = tx[q] \/ tx'[q] = NoTransaction

\* A call's audit row appears.
Begins(r) ==
  /\ pc[r] = "idle" /\ InsertsAudit(r)
  /\ UNCHANGED <<table, checkpoint, batch, tx>>

Commit(r) ==
  /\ pc[r] = "committing" /\ dataConn[r] = "up"
  /\ ServerCommits(r)
  /\ UNCHANGED callVars

LEMMA StepKinds ==
  ASSUME TypeOK, [Next]_vars
  PROVE  \/ Quiet
         \/ \E r \in Runs : \/ Begins(r) \/ FetchAndBegin(r) \/ StoreRecord(r)
                            \/ CompleteIngestionRun(r) \/ AdvanceCheckpoint(r)
                            \/ Commit(r) \/ FailIngestionRun(r)
<1> USE DEF TypeOK, dbVars, callVars, ServerAborts, Quiet
<1>1. ASSUME NEW r \in Runs,
             \/ RejectBatch(r) \/ SourceFails(r) \/ ReturnResult(r) \/ ConnectionError(r)
             \/ RollbackRaises(r) \/ AuditUpdateFails(r) \/ InterruptAfterCommit(r)
      PROVE  Quiet
  BY <1>1 DEF RejectBatch, SourceFails, ReturnResult, ConnectionError, RollbackRaises,
              AuditUpdateFails, InterruptAfterCommit
<1>2. ASSUME NEW r \in Runs,
             \/ StatementFails(r) \/ RollbackDataTransaction(r) \/ LoseDataConnection(r)
             \/ Crash(r) \/ DeadlockDetected(r) \/ InterruptOutsideTry(r)
      PROVE  Quiet
  BY <1>2 DEF StatementFails, RollbackDataTransaction, LoseDataConnection, Crash,
              DeadlockDetected, InterruptOutsideTry
<1>5. ASSUME NEW r \in Runs, StartRun(r) \/ BeginRunFails(r)
      PROVE  Begins(r) \/ Quiet
  BY <1>5 DEF StartRun, BeginRunFails, Begins, Goto
<1>3. ASSUME NEW r \in Runs, CommitDataTransaction(r) \/ CommitAnswerLost(r)
      PROVE  Commit(r)
  BY <1>3 DEF CommitDataTransaction, CommitAnswerLost, Commit, Goto
<1>4. CASE UNCHANGED vars
  BY <1>4 DEF vars
<1> QED
  BY <1>1, <1>2, <1>3, <1>4, <1>5, Zenon DEF Next, CallStep, OwnStep, AllEnded

\* A call that starts has nothing uncommitted and no record.
LEMMA StartsClean ==
  ASSUME TypeOK, CallsAudited, TransactionsInOrder, NEW r \in Runs, pc[r] \in {"idle", "fetching"}
  PROVE  tx[r] = NoTransaction /\ batch[r] = <<>>
  BY DEF CallsAudited, TransactionsInOrder, TransactionInOrder

\* A call that keeps its records, or has stored none, holds no key it did not hold.
LEMMA HeldMonotone ==
  ASSUME NEW q \in Runs,
         tx'[q].stored = 0 \/ tx'[q] = NoTransaction
           \/ (tx'[q].stored = tx[q].stored /\ batch'[q] = batch[q])
  PROVE  Held(q)' \subseteq Held(q)
<1>1. CASE tx'[q].stored = tx[q].stored /\ batch'[q] = batch[q]
  BY <1>1 DEF Held
<1>2. CASE tx'[q].stored = 0
  BY <1>2 DEF Held
<1> QED BY <1>1, <1>2

\* An upsert takes the key of the next record, and nothing else.
LEMMA StoringHolds ==
  ASSUME TypeOK, NEW r \in Runs, tx' = [tx EXCEPT ![r].stored = @ + 1], batch' = batch
  PROVE  /\ Held(r)' = Held(r) \cup {NextRecord(r).key}
         /\ \A q \in Runs \ {r} : Held(q)' = Held(q)
<1>1. /\ tx[r].stored \in Nat /\ tx'[r].stored = tx[r].stored + 1
      /\ \A q \in Runs \ {r} : tx'[q] = tx[q]
  BY DEF TypeOK
<1>2. 1..(tx[r].stored + 1) = (1..tx[r].stored) \cup {tx[r].stored + 1}
  BY <1>1
<1> QED BY <1>1, <1>2 DEF Held, NextRecord

\* Whether a call's open transaction keeps other calls off anything.
Holds(r) == Held(r) # {} \/ tx[r].checkpoint # "none"

LEMMA LocksStep == IInv /\ [Next]_vars => LocksExclusive'
<1> SUFFICES ASSUME IInv, [Next]_vars PROVE LocksExclusive'
  OBVIOUS
<1> USE DEF IInv, dbVars, callVars
<1>0. TypeOK
  OBVIOUS
\* Where no rivals appear, no key is taken and no checkpoint row is locked, nothing
\* new is held in common.
<1>0a. ASSUME \A a, b \in Runs : Rivals(a, b)' /\ Holds(a)' /\ Holds(b)' => Rivals(a, b),
             \A q \in Runs : /\ Held(q)' \subseteq Held(q)
                             /\ tx'[q].checkpoint \in {"none", tx[q].checkpoint}
      PROVE  LocksExclusive'
  <2> SUFFICES ASSUME NEW a \in Runs, NEW b \in Runs, Rivals(a, b)'
               PROVE  /\ Held(a)' \cap Held(b)' = {}
                      /\ tx'[a].checkpoint = "none" \/ tx'[b].checkpoint = "none"
    BY DEF LocksExclusive
  <2>1. CASE Rivals(a, b)
    <3>1. /\ Held(a) \cap Held(b) = {}
          /\ tx[a].checkpoint = "none" \/ tx[b].checkpoint = "none"
      BY <2>1 DEF LocksExclusive
    <3> QED BY <1>0a, <3>1
  <2>2. CASE ~(Holds(a)' /\ Holds(b)')
    BY <2>2 DEF Holds
  <2> QED BY <1>0a, <2>1, <2>2
<1>1. CASE Quiet
  <2>1. \A a, b \in Runs : Rivals(a, b)' => Rivals(a, b)
    BY <1>1 DEF Quiet, Rivals, SameStream
  <2>2. \A q \in Runs : /\ Held(q)' \subseteq Held(q)
                        /\ tx'[q].checkpoint \in {"none", tx[q].checkpoint}
    BY <1>1, HeldMonotone DEF Quiet
  <2> QED BY <1>0a, <2>1, <2>2
<1>2. ASSUME NEW r \in Runs, Begins(r) \/ FetchAndBegin(r) PROVE LocksExclusive'
  <2>1. tx[r] = NoTransaction /\ tx' = tx
    BY <1>2, StartsClean DEF Begins, FetchAndBegin, Goto
  <2>2. \A q \in Runs \ {r} : request'[q] = request[q] /\ batch'[q] = batch[q]
    BY <1>2 DEF Begins, InsertsAudit, FetchAndBegin, TypeOK
  <2>3. \A q \in Runs : Held(q)' \subseteq Held(q)
    BY <2>1, <2>2, HeldMonotone
  <2>4. ~Holds(r)'
    BY <2>1 DEF Holds, Held
  <2>5. \A a, b \in Runs : Rivals(a, b)' /\ Holds(a)' /\ Holds(b)' => Rivals(a, b)
    BY <2>2, <2>4 DEF Rivals, SameStream
  <2> QED BY <1>0a, <2>1, <2>3, <2>5
<1>3. ASSUME NEW r \in Runs, FailIngestionRun(r) \/ CompleteIngestionRun(r) \/ Commit(r)
      PROVE  LocksExclusive'
  <2>1. UNCHANGED <<request, batch>>
    BY <1>3 DEF FailIngestionRun, CompleteIngestionRun, Commit
  <2>2. \A q \in Runs : \/ tx'[q].stored = tx[q].stored /\ tx'[q].checkpoint = tx[q].checkpoint
                        \/ tx'[q] = NoTransaction
    <3>1. CASE FailIngestionRun(r) BY <3>1 DEF FailIngestionRun
    <3>2. CASE CompleteIngestionRun(r)
      <4>1. tx' = [tx EXCEPT ![r].marked = TRUE] BY <3>2 DEF CompleteIngestionRun
      <4> HIDE DEF IInv
      <4> QED BY <1>0, <4>1 DEF TypeOK
    <3>3. CASE Commit(r)
      <4>1. tx' = [tx EXCEPT ![r] = NoTransaction] BY <3>3 DEF Commit, ServerCommits
      <4> HIDE DEF IInv
      <4> QED BY <1>0, <4>1 DEF TypeOK
    <3> QED BY <1>3, <3>1, <3>2, <3>3
  <2>3. \A q \in Runs : Held(q)' \subseteq Held(q)
    BY <2>1, <2>2, HeldMonotone
  <2>4. \A a, b \in Runs : Rivals(a, b)' => Rivals(a, b)
    BY <2>1 DEF Rivals, SameStream
  <2> QED BY <1>0a, <2>2, <2>3, <2>4
<1>4. ASSUME NEW r \in Runs, StoreRecord(r) PROVE LocksExclusive'
  <2>1. RowFree(r, NextRecord(r).key) /\ UNCHANGED <<request, batch>>
    BY <1>4 DEF StoreRecord
  <2>2. tx' = [tx EXCEPT ![r].stored = @ + 1]
    BY <1>4 DEF StoreRecord, StageRow
  <2>3. \A q \in Runs : tx'[q].checkpoint = tx[q].checkpoint
    BY <1>0, <2>2 DEF TypeOK
  <2>4. /\ Held(r)' = Held(r) \cup {NextRecord(r).key}
        /\ \A q \in Runs \ {r} : Held(q)' = Held(q)
    BY <1>0, <2>1, <2>2, StoringHolds
  <2>5. \A q \in Runs : Rivals(q, r) \/ Rivals(r, q) => NextRecord(r).key \notin Held(q)
    BY <2>1 DEF RowFree, Rivals
  <2> SUFFICES ASSUME NEW a \in Runs, NEW b \in Runs, Rivals(a, b)
               PROVE  /\ Held(a)' \cap Held(b)' = {}
                      /\ tx'[a].checkpoint = "none" \/ tx'[b].checkpoint = "none"
    BY <2>1 DEF LocksExclusive, Rivals, SameStream
  <2>6. /\ Held(a) \cap Held(b) = {} /\ a # b
        /\ tx[a].checkpoint = "none" \/ tx[b].checkpoint = "none"
    BY DEF LocksExclusive, Rivals
  <2> HIDE DEF IInv
  <2>7. CASE a = r
    BY <2>3, <2>4, <2>5, <2>6, <2>7
  <2>8. CASE b = r
    BY <2>3, <2>4, <2>5, <2>6, <2>8
  <2> QED BY <2>3, <2>4, <2>6, <2>7, <2>8
<1>6. ASSUME NEW r \in Runs, AdvanceCheckpoint(r) PROVE LocksExclusive'
  <2>1. CheckpointFree(r) /\ UNCHANGED <<request, batch>>
    BY <1>6 DEF AdvanceCheckpoint
  <2>2. PICK c \in {"kept", "advanced"} : tx' = [tx EXCEPT ![r].checkpoint = c]
    BY <1>6, Zenon DEF AdvanceCheckpoint
  <2>3. /\ \A q \in Runs : tx'[q].stored = tx[q].stored
        /\ \A q \in Runs \ {r} : tx'[q].checkpoint = tx[q].checkpoint
    BY <1>0, <2>2 DEF TypeOK
  <2>4. \A q \in Runs : Held(q)' \subseteq Held(q)
    BY <2>1, <2>3, HeldMonotone
  <2>5. \A q \in Runs : Rivals(q, r) \/ Rivals(r, q) => tx[q].checkpoint = "none"
    BY <2>1 DEF CheckpointFree, Rivals
  <2> SUFFICES ASSUME NEW a \in Runs, NEW b \in Runs, Rivals(a, b)
               PROVE  /\ Held(a)' \cap Held(b)' = {}
                      /\ tx'[a].checkpoint = "none" \/ tx'[b].checkpoint = "none"
    BY <2>1 DEF LocksExclusive, Rivals, SameStream
  <2>6. /\ Held(a) \cap Held(b) = {} /\ a # b
        /\ tx[a].checkpoint = "none" \/ tx[b].checkpoint = "none"
    BY DEF LocksExclusive, Rivals
  <2> HIDE DEF IInv
  <2> QED BY <2>3, <2>4, <2>5, <2>6
<1> QED BY <1>0, <1>1, <1>2, <1>3, <1>4, <1>6, StepKinds

\* A transaction with uncommitted writes belongs to a call that has a request.
LEMMA OpenHasRequest ==
  ASSUME TypeOK, CallsAudited, TransactionsInOrder, NEW r \in Runs, tx[r] # NoTransaction
  PROVE  request[r] \in Request
  BY StartedHasRequest DEF TransactionsInOrder, TransactionInOrder

LEMMA DecisionsStep == IInv /\ [Next]_vars => DecisionsCurrent'
<1> SUFFICES ASSUME IInv, [Next]_vars PROVE DecisionsCurrent'
  OBVIOUS
<1> USE DEF IInv, TypeOK, dbVars, callVars, DecisionsCurrent
<1>1. CASE Quiet
  <2> SUFFICES ASSUME NEW q \in Runs, tx'[q].checkpoint # "none"
               PROVE  tx'[q].checkpoint = "advanced" <=>
                        CheckpointMayMove(checkpoint[request[q].stream], request[q].last)
    BY <1>1 DEF Quiet
  <2>1. tx'[q] = tx[q]
    BY <1>1 DEF Quiet
  <2> QED BY <2>1
<1>2. ASSUME NEW r \in Runs, Begins(r) PROVE DecisionsCurrent'
  <2>1. tx[r] = NoTransaction
    BY <1>2, StartsClean DEF Begins
  <2>2. UNCHANGED <<tx, checkpoint>> /\ \A q \in Runs \ {r} : request'[q] = request[q]
    BY <1>2 DEF Begins, InsertsAudit
  <2>3. ASSUME NEW q \in Runs, tx'[q].checkpoint # "none"
        PROVE  tx'[q].checkpoint = "advanced" <=>
                 CheckpointMayMove(checkpoint'[request'[q].stream], request'[q].last)
    <3>1. q # r /\ tx'[q] = tx[q] /\ request'[q] = request[q] /\ checkpoint' = checkpoint
      BY <2>1, <2>2, <2>3
    <3> QED BY <2>3, <3>1
  <2> HIDE DEF IInv, TypeOK
  <2> QED BY <2>3 DEF CheckpointMayMove
<1>3. ASSUME NEW r \in Runs, FetchAndBegin(r) \/ FailIngestionRun(r) PROVE DecisionsCurrent'
  BY <1>3 DEF FetchAndBegin, FailIngestionRun
<1>4. ASSUME NEW r \in Runs, StoreRecord(r) \/ CompleteIngestionRun(r) PROVE DecisionsCurrent'
  <2>1. UNCHANGED <<checkpoint, request>>
    BY <1>4 DEF StoreRecord, CompleteIngestionRun
  <2>2. CASE StoreRecord(r)
    <3>1. \A q \in Runs : tx'[q].checkpoint = tx[q].checkpoint
      BY <2>2 DEF StoreRecord, StageRow
    <3> QED BY <2>1, <3>1
  <2>3. CASE CompleteIngestionRun(r)
    <3>1. \A q \in Runs : tx'[q].checkpoint = tx[q].checkpoint
      BY <2>3 DEF CompleteIngestionRun
    <3> QED BY <2>1, <3>1
  <2> QED BY <1>4, <2>2, <2>3
<1>5. ASSUME NEW r \in Runs, AdvanceCheckpoint(r) PROVE DecisionsCurrent'
  <2>1. UNCHANGED <<checkpoint, request>> /\ \A q \in Runs \ {r} : tx'[q] = tx[q]
    BY <1>5 DEF AdvanceCheckpoint
  <2>2. tx'[r].checkpoint =
          IF CheckpointMayMove(checkpoint[request[r].stream], request[r].last)
          THEN "advanced" ELSE "kept"
    BY <1>5 DEF AdvanceCheckpoint
  <2> QED BY <2>1, <2>2
<1>6. ASSUME NEW r \in Runs, Commit(r) PROVE DecisionsCurrent'
  <2> SUFFICES ASSUME NEW q \in Runs, tx'[q].checkpoint # "none"
               PROVE  tx'[q].checkpoint = "advanced" <=>
                        CheckpointMayMove(checkpoint'[request[q].stream], request[q].last)
    <3>1. UNCHANGED request BY <1>6 DEF Commit
    <3> QED BY <3>1 DEF CheckpointMayMove
  <2>1. q # r /\ tx'[q] = tx[q] /\ tx[q] # NoTransaction
    BY <1>6 DEF Commit, ServerCommits
  <2>2. request[q] \in Request /\ request[r] \in Request
    BY <1>6, <2>1, OpenHasRequest, StartedHasRequest DEF Commit
  <2>3. checkpoint'[request[q].stream] = checkpoint[request[q].stream]
    <3>1. CASE request[q].stream = request[r].stream
      <4>1. Rivals(q, r) BY <2>1, <2>2, <3>1, AbsentAssumption DEF Rivals, SameStream
      <4>2. tx[r].checkpoint = "none" BY <2>1, <4>1 DEF LocksExclusive
      <4> QED BY <1>6, <4>2 DEF Commit, ServerCommits
    <3>2. CASE request[q].stream # request[r].stream
      BY <1>6, <2>2, <3>2 DEF Commit, ServerCommits
    <3> QED BY <3>1, <3>2
  <2> QED BY <2>1, <2>3
<1> QED BY <1>1, <1>2, <1>3, <1>4, <1>5, <1>6, StepKinds

LEMMA BatchesStep == IInv /\ [Next]_vars => BatchesAccepted'
<1> SUFFICES ASSUME IInv, [Next]_vars PROVE BatchesAccepted'
  OBVIOUS
<1> USE DEF IInv, TypeOK, dbVars, callVars, BatchesAccepted
<1>1. ASSUME NEW r \in Runs, Begins(r) PROVE BatchesAccepted'
  <2>1. batch[r] = <<>>
    BY <1>1, StartsClean DEF Begins
  <2>2. UNCHANGED batch /\ \A q \in Runs \ {r} : request'[q] = request[q]
    BY <1>1 DEF Begins, InsertsAudit
  <2> QED BY <2>1, <2>2
<1>2. ASSUME NEW r \in Runs, FetchAndBegin(r) PROVE BatchesAccepted'
  <2>1. PICK b \in Responses(request[r]) :
          AcceptsBatch(request[r], b) /\ batch' = [batch EXCEPT ![r] = b]
    BY <1>2, Zenon DEF FetchAndBegin
  <2>2. request[r] \in Request /\ request[r] # Absent
    <3>1. pc[r] = "fetching" BY <1>2 DEF FetchAndBegin, Goto
    <3>2. CallsAudited OBVIOUS
    <3> HIDE DEF IInv, TypeOK, BatchesAccepted
    <3> QED BY <3>1, <3>2, StartedHasRequest, AbsentAssumption
  <2>3. /\ Ascending(b) /\ Len(b) <= MaxRecords
        /\ \A n \in DOMAIN b : /\ b[n].complete = TRUE
                               /\ TimeOf[b[n].key] \in request[r].first..request[r].last
    <3>1. /\ b \in Seq(Record) /\ Len(b) <= MaxRecords /\ Ascending(b)
          /\ request[r].endpoint = "dex-trades" => \A n \in DOMAIN b : b[n].complete
          /\ request[r].endpoint = "token-information" => b = <<>>
      <4> HIDE DEF Request, Record, IInv, TypeOK, BatchesAccepted
      <4> QED BY <2>1, <2>2, AnswerIsSequence
    <3>2. \A n \in DOMAIN b : b[n].complete \in BOOLEAN
      <4>1. \A n \in DOMAIN b : b[n] \in Record
        <5> HIDE DEF Record, IInv, TypeOK, BatchesAccepted
        <5> QED BY <3>1, ElementOfSeq, LenProperties
      <4> QED BY <4>1
    <3>3. request[r].endpoint = "token-information" => DOMAIN b = {}
      BY <3>1
    <3>4. request[r].endpoint \in {"flows", "dex-trades", "token-information"}
      BY <2>2
    <3>5. \A n \in DOMAIN b : b[n].complete = TRUE
      BY <2>1, <3>1, <3>2, <3>3, <3>4 DEF AcceptsBatch
    <3> QED BY <2>1, <3>1, <3>5 DEF AcceptsBatch
  <2>4. UNCHANGED request /\ batch'[r] = b /\ \A q \in Runs \ {r} : batch'[q] = batch[q]
    BY <1>2, <2>1 DEF FetchAndBegin
  <2>5. ASSUME NEW q \in Runs
        PROVE  /\ Ascending(batch'[q]) /\ Len(batch'[q]) <= MaxRecords
               /\ \A n \in DOMAIN batch'[q] :
                    /\ batch'[q][n].complete /\ request[q] # Absent
                    /\ TimeOf[batch'[q][n].key] \in request[q].first..request[q].last
    <3>1. CASE q = r BY <2>2, <2>3, <2>4, <3>1
    <3>2. CASE q # r BY <2>4, <3>2 DEF BatchesAccepted
    <3> QED BY <3>1, <3>2
  <2> HIDE DEF IInv, TypeOK, BatchesAccepted
  <2> QED BY <2>4, <2>5 DEF BatchesAccepted, Ascending
<1>3. CASE UNCHANGED <<batch, request>>
  BY <1>3
<1>4. ASSUME NEW r \in Runs, \/ StoreRecord(r) \/ CompleteIngestionRun(r)
                             \/ AdvanceCheckpoint(r) \/ Commit(r) \/ FailIngestionRun(r)
      PROVE  UNCHANGED <<batch, request>>
  BY <1>4 DEF StoreRecord, CompleteIngestionRun, AdvanceCheckpoint, Commit, FailIngestionRun
<1> QED BY <1>1, <1>2, <1>3, <1>4, StepKinds DEF Quiet

LEMMA CallsStep == IInv /\ [Next]_vars => CallsAudited'
<1> SUFFICES ASSUME IInv, [Next]_vars PROVE CallsAudited'
  OBVIOUS
<1> USE DEF IInv, TypeOK, dbVars, callVars, CallsAudited, Goto
<1>1. ASSUME NEW r \in Runs, StartRun(r) \/ BeginRunFails(r) PROVE CallsAudited'
  <2>1. /\ pc[r] = "idle" /\ pc'[r] \in {"fetching", "raised"} /\ batch' = batch
        /\ \A q \in Runs \ {r} : pc'[q] = pc[q] /\ status'[q] = status[q] /\ request'[q] = request[q]
    BY <1>1 DEF StartRun, BeginRunFails, InsertsAudit
  <2>2. \/ status'[r] = "running" /\ request'[r] \in Requests
        \/ pc'[r] = "raised" /\ status'[r] = status[r] /\ request'[r] = request[r]
    BY <1>1 DEF StartRun, BeginRunFails, InsertsAudit
  <2> QED BY <2>1, <2>2
<1>2. ASSUME NEW r \in Runs, FetchAndBegin(r) PROVE CallsAudited'
  BY <1>2 DEF FetchAndBegin
<1>3. ASSUME NEW r \in Runs, StoreRecord(r) PROVE CallsAudited'
  BY <1>3 DEF StoreRecord, StageRow
<1>4. ASSUME NEW r \in Runs, CompleteIngestionRun(r) PROVE CallsAudited'
  BY <1>4 DEF CompleteIngestionRun
<1>5. ASSUME NEW r \in Runs, AdvanceCheckpoint(r) PROVE CallsAudited'
  BY <1>5 DEF AdvanceCheckpoint
<1>6. ASSUME NEW r \in Runs, CommitDataTransaction(r) \/ CommitAnswerLost(r) PROVE CallsAudited'
  <2>1. \A q \in Runs \ {r} : status'[q] = status[q] /\ pc'[q] = pc[q]
    BY <1>6 DEF CommitDataTransaction, CommitAnswerLost, ServerCommits, MarkSuccess
  <2>2. /\ UNCHANGED <<request, batch>> /\ pc[r] = "committing"
        /\ pc'[r] \in {"committed", "unwinding"}
    BY <1>6 DEF CommitDataTransaction, CommitAnswerLost
  <2>3. status'[r] \in {status[r], "success"} /\ status[r] = "running"
    BY <1>6 DEF CommitDataTransaction, CommitAnswerLost, ServerCommits, MarkSuccess
  <2> QED BY <2>1, <2>2, <2>3
<1>7. ASSUME NEW r \in Runs, FailIngestionRun(r) PROVE CallsAudited'
  BY <1>7 DEF FailIngestionRun
\* Every other step takes one call out of the calls that are still running.
<1>8. ASSUME NEW r \in Runs,
             \/ RejectBatch(r) \/ SourceFails(r) \/ ReturnResult(r) \/ StatementFails(r)
             \/ ConnectionError(r) \/ RollbackDataTransaction(r) \/ RollbackRaises(r)
             \/ AuditUpdateFails(r) \/ InterruptAfterCommit(r) \/ LoseDataConnection(r)
             \/ Crash(r) \/ DeadlockDetected(r) \/ InterruptOutsideTry(r)
      PROVE  CallsAudited'
  <2>1. UNCHANGED <<status, request, batch>>
    BY <1>8 DEF RejectBatch, SourceFails, ReturnResult, StatementFails, ConnectionError,
      RollbackDataTransaction, RollbackRaises, AuditUpdateFails, InterruptAfterCommit,
      LoseDataConnection, Crash, DeadlockDetected, InterruptOutsideTry
  <2>2. \/ pc' = pc
        \/ /\ pc[r] \notin {"idle", "raised"}
           /\ \E p \in {"unwinding", "failing", "returned", "raised", "crashed"} :
                pc' = [pc EXCEPT ![r] = p]
    <3>1. ASSUME DeadlockDetected(r) PROVE pc[r] \in InTransaction
      BY <3>1 DEF DeadlockDetected, WaitsFor
    <3> QED
      BY <1>8, <3>1 DEF RejectBatch, SourceFails, ReturnResult, StatementFails, ConnectionError,
        RollbackDataTransaction, RollbackRaises, AuditUpdateFails, InterruptAfterCommit,
        LoseDataConnection, Crash, DeadlockDetected, InterruptOutsideTry
  <2>3. CASE pc' = pc
    BY <2>1, <2>3
  <2>4. ASSUME NEW p \in {"unwinding", "failing", "returned", "raised", "crashed"},
               pc[r] \notin {"idle", "raised"}, pc' = [pc EXCEPT ![r] = p]
        PROVE  CallsAudited'
    <3>1. status[r] # "none" /\ pc'[r] = p /\ \A q \in Runs \ {r} : pc'[q] = pc[q]
      BY <2>4
    <3> QED BY <2>1, <3>1
  <2> QED BY <2>2, <2>3, <2>4
<1>9. CASE UNCHANGED vars
  BY <1>9 DEF vars
<1> QED
  BY <1>1, <1>2, <1>3, <1>4, <1>5, <1>6, <1>7, <1>8, <1>9, Zenon
  DEF Next, CallStep, OwnStep, AllEnded

\* A call none of whose own state changed is still in order.
LEMMA OtherCallsInOrder ==
  ASSUME TransactionsInOrder, NEW q \in Runs,
         tx'[q] = tx[q], pc'[q] = pc[q], request'[q] = request[q], batch'[q] = batch[q],
         dataConn'[q] = dataConn[q]
  PROVE  TransactionInOrder(q)'
<1>1. TransactionInOrder(q)
  BY DEF TransactionsInOrder
<1>2. ToStore(q)' = ToStore(q)
  BY DEF ToStore
<1> QED BY <1>1, <1>2 DEF TransactionInOrder, IsHistorical

\* A call without uncommitted writes that is not between begin and commit is in order.
LEMMA NothingOpenInOrder ==
  ASSUME TypeOK', NEW q \in Runs, tx'[q] = NoTransaction,
         pc'[q] \notin {"checkpointing", "committing"}
  PROVE  TransactionInOrder(q)'
<1>1. Len(batch'[q]) \in Nat
  BY LenProperties DEF TypeOK
<1> QED BY <1>1 DEF TransactionInOrder

LEMMA TransactionsStep == IInv /\ [Next]_vars => TransactionsInOrder'
<1> SUFFICES ASSUME IInv, [Next]_vars PROVE TransactionsInOrder'
  OBVIOUS
<1>0. TypeOK'
  BY TypeStep DEF IInv
<1> USE DEF IInv, TypeOK, dbVars, callVars, Goto, ServerAborts
<1>1. ASSUME NEW r \in Runs,
             StartRun(r) \/ BeginRunFails(r) \/ FetchAndBegin(r) \/ RejectBatch(r) \/ SourceFails(r)
      PROVE  TransactionsInOrder'
  <2>1. tx[r] = NoTransaction
    BY <1>1, StartsClean DEF StartRun, BeginRunFails, FetchAndBegin, RejectBatch, SourceFails
  <2>2. /\ tx' = tx /\ dataConn' = dataConn
        /\ pc'[r] \in {"fetching", "storing", "unwinding", "raised"}
    BY <1>1 DEF StartRun, BeginRunFails, FetchAndBegin, RejectBatch, SourceFails
  <2>3. \A q \in Runs \ {r} : pc'[q] = pc[q] /\ request'[q] = request[q] /\ batch'[q] = batch[q]
    BY <1>1 DEF StartRun, BeginRunFails, InsertsAudit, FetchAndBegin, RejectBatch, SourceFails
  <2> HIDE DEF TypeOK
  <2> QED
    BY <1>0, <2>1, <2>2, <2>3, OtherCallsInOrder, NothingOpenInOrder DEF TransactionsInOrder
<1>2. ASSUME NEW r \in Runs, StoreRecord(r) PROVE TransactionsInOrder'
  <2>1. tx' = [tx EXCEPT ![r].stored = @ + 1] /\ tx[r].stored < Len(batch[r])
    BY <1>2 DEF StoreRecord, StageRow, ToStore
  <2>2. UNCHANGED <<pc, request, batch, dataConn>> /\ pc[r] = "storing" /\ dataConn[r] = "up"
    BY <1>2 DEF StoreRecord
  <2>3. TransactionInOrder(r)
    BY DEF TransactionsInOrder
  <2>6. tx'[r].stored <= Len(batch[r])
    <3>1. tx[r].stored \in Nat /\ tx'[r].stored = tx[r].stored + 1 /\ batch[r] \in Seq(Record)
      BY <2>1
    <3>2. Len(batch[r]) \in Nat
      BY <3>1, LenProperties
    <3> QED BY <2>1, <3>1, <3>2
  <2>7. tx'[r].marked = tx[r].marked /\ tx'[r].checkpoint = tx[r].checkpoint
    BY <2>1
  <2>8. tx[r].marked = FALSE /\ tx[r].checkpoint = "none"
    BY <2>2, <2>3 DEF TransactionInOrder
  <2>4. TransactionInOrder(r)'
    <3> HIDE DEF IInv, TypeOK
    <3> QED BY <2>2, <2>6, <2>7, <2>8 DEF TransactionInOrder
  <2>5. \A q \in Runs \ {r} : tx'[q] = tx[q]
    BY <2>1
  <2> QED BY <2>2, <2>4, <2>5, OtherCallsInOrder DEF TransactionsInOrder
<1>3. ASSUME NEW r \in Runs, CompleteIngestionRun(r) PROVE TransactionsInOrder'
  <2>1. TransactionInOrder(r)
    BY DEF TransactionsInOrder
  <2>2. /\ UNCHANGED <<request, batch, dataConn>>
        /\ pc[r] = "storing" /\ ~ToStore(r) /\ dataConn[r] = "up"
    BY <1>3 DEF CompleteIngestionRun
  <2>3. /\ tx' = [tx EXCEPT ![r].marked = TRUE]
        /\ pc' = [pc EXCEPT ![r] = IF IsHistorical(request[r]) THEN "checkpointing" ELSE "committing"]
    BY <1>3 DEF CompleteIngestionRun
  <2>4. ~ToStore(r)'
    BY <2>2, <2>3 DEF ToStore
  <2>5. TransactionInOrder(r)'
    BY <2>1, <2>2, <2>3, <2>4 DEF TransactionInOrder
  <2> QED BY <2>2, <2>3, <2>5, OtherCallsInOrder DEF TransactionsInOrder
<1>4. ASSUME NEW r \in Runs, AdvanceCheckpoint(r) PROVE TransactionsInOrder'
  <2>1. TransactionInOrder(r)
    BY DEF TransactionsInOrder
  <2>2. /\ UNCHANGED <<request, batch, dataConn>>
        /\ pc[r] = "checkpointing" /\ tx[r].marked /\ dataConn[r] = "up"
    BY <1>4 DEF AdvanceCheckpoint
  <2>3. PICK c \in {"kept", "advanced"} : tx' = [tx EXCEPT ![r].checkpoint = c]
    BY <1>4, Zenon DEF AdvanceCheckpoint
  <2>4. pc' = [pc EXCEPT ![r] = "committing"]
    BY <1>4 DEF AdvanceCheckpoint
  <2>5. ToStore(r)' = ToStore(r)
    BY <2>2, <2>3 DEF ToStore
  <2>6. TransactionInOrder(r)'
    BY <2>1, <2>2, <2>3, <2>4, <2>5 DEF TransactionInOrder
  <2> QED BY <2>2, <2>3, <2>4, <2>6, OtherCallsInOrder DEF TransactionsInOrder
<1>5. ASSUME NEW r \in Runs, CommitDataTransaction(r) \/ CommitAnswerLost(r)
      PROVE  TransactionsInOrder'
  <2>1. tx' = [tx EXCEPT ![r] = NoTransaction] /\ UNCHANGED <<request, batch>>
    BY <1>5 DEF CommitDataTransaction, CommitAnswerLost, ServerCommits
  <2>2. pc'[r] \in {"committed", "unwinding"}
    BY <1>5 DEF CommitDataTransaction, CommitAnswerLost
  <2>3. \A q \in Runs \ {r} : pc'[q] = pc[q] /\ dataConn'[q] = dataConn[q]
    BY <1>5 DEF CommitDataTransaction, CommitAnswerLost
  <2>4. tx'[r] = NoTransaction /\ \A q \in Runs \ {r} : tx'[q] = tx[q]
    BY <2>1
  <2>5. TransactionInOrder(r)'
    BY <1>0, <2>2, <2>4, NothingOpenInOrder
  <2>6. \A q \in Runs \ {r} : TransactionInOrder(q)'
    BY <2>1, <2>3, <2>4, OtherCallsInOrder
  <2> QED
    BY <2>5, <2>6 DEF TransactionsInOrder
\* The remaining steps of r leave it after its transaction, with or without writes
\* that wait for the rollback.
<1>6. ASSUME NEW r \in Runs, StatementFails(r) \/ ConnectionError(r) \/ DeadlockDetected(r)
      PROVE  TransactionsInOrder'
  <2>1. TransactionInOrder(r)
    BY DEF TransactionsInOrder
  <2>2. UNCHANGED <<request, batch, dataConn>> /\ pc' = [pc EXCEPT ![r] = "unwinding"]
    BY <1>6 DEF StatementFails, ConnectionError, DeadlockDetected
  <2>3. tx' = tx \/ tx' = [tx EXCEPT ![r] = NoTransaction]
    BY <1>6 DEF StatementFails, ConnectionError, DeadlockDetected
  <2>4. tx'[r] = tx[r] \/ tx'[r] = NoTransaction
    BY <2>3
  <2>5. TransactionInOrder(r)'
    <3>1. pc'[r] = "unwinding" BY <2>2
    <3>2. CASE tx'[r] = NoTransaction BY <1>0, <3>1, <3>2, NothingOpenInOrder
    <3>3. CASE tx'[r] = tx[r]
      BY <2>1, <2>2, <3>1, <3>3 DEF TransactionInOrder, IsHistorical
    <3> QED BY <2>4, <3>2, <3>3
  <2>6. \A q \in Runs \ {r} : tx'[q] = tx[q]
    BY <2>3
  <2> QED BY <2>2, <2>5, <2>6, OtherCallsInOrder DEF TransactionsInOrder
<1>7. ASSUME NEW r \in Runs, RollbackDataTransaction(r) \/ Crash(r) \/ InterruptOutsideTry(r)
      PROVE  TransactionsInOrder'
  <2>1. tx' = [tx EXCEPT ![r] = NoTransaction] /\ UNCHANGED <<request, batch, dataConn>>
    BY <1>7 DEF RollbackDataTransaction, Crash, InterruptOutsideTry
  <2>2. pc'[r] \in {"failing", "crashed", "raised"} /\ \A q \in Runs \ {r} : pc'[q] = pc[q]
    BY <1>7 DEF RollbackDataTransaction, Crash, InterruptOutsideTry
  <2> QED
    BY <1>0, <2>1, <2>2, OtherCallsInOrder, NothingOpenInOrder DEF TransactionsInOrder
<1>8. ASSUME NEW r \in Runs, LoseDataConnection(r) PROVE TransactionsInOrder'
  <2>1. /\ tx' = [tx EXCEPT ![r] = NoTransaction] /\ UNCHANGED <<request, batch, pc>>
        /\ dataConn' = [dataConn EXCEPT ![r] = "lost"]
    BY <1>8 DEF LoseDataConnection
  <2>2. TransactionInOrder(r)
    BY DEF TransactionsInOrder
  <2>4. Len(batch'[r]) \in Nat /\ tx'[r] = NoTransaction /\ dataConn'[r] = "lost"
    BY <2>1, LenProperties
  <2>3. TransactionInOrder(r)'
    <3> HIDE DEF IInv, TypeOK
    <3> QED BY <2>1, <2>2, <2>4 DEF TransactionInOrder, IsHistorical
  <2> QED BY <2>1, <2>3, OtherCallsInOrder DEF TransactionsInOrder
<1>9. ASSUME NEW r \in Runs,
             \/ ReturnResult(r) \/ RollbackRaises(r) \/ FailIngestionRun(r)
             \/ AuditUpdateFails(r) \/ InterruptAfterCommit(r)
      PROVE  TransactionsInOrder'
  <2>1. UNCHANGED <<request, batch, dataConn, tx>>
    BY <1>9 DEF ReturnResult, RollbackRaises, FailIngestionRun, AuditUpdateFails,
                InterruptAfterCommit
  <2>2. /\ pc[r] \in {"committed", "unwinding", "failing"}
        /\ \E p \in {"returned", "raised", "unwinding"} : pc' = [pc EXCEPT ![r] = p]
        /\ pc[r] = "unwinding" => dataConn[r] = "lost"
    BY <1>9 DEF ReturnResult, RollbackRaises, FailIngestionRun, AuditUpdateFails,
                InterruptAfterCommit
  <2>3. tx'[r] = NoTransaction
    BY <2>1, <2>2 DEF TransactionsInOrder, TransactionInOrder
  <2>4. TransactionInOrder(r)'
    BY <1>0, <2>2, <2>3, NothingOpenInOrder
  <2> QED BY <2>1, <2>2, <2>4, OtherCallsInOrder DEF TransactionsInOrder
<1>10. CASE UNCHANGED vars
  BY <1>10, OtherCallsInOrder DEF vars, TransactionsInOrder
<1> QED
  BY <1>1, <1>2, <1>3, <1>4, <1>5, <1>6, <1>7, <1>8, <1>9, <1>10, Zenon
  DEF Next, CallStep, OwnStep, AllEnded

-------------------------------------------------------------------------------
(* What is stored. *)

\* What a commit makes visible: its rows, complete and its own; its success; a
\* checkpoint that reaches its window end and never goes back.
OwnRow(r) == [writer |-> r, complete |-> TRUE]
OwnCheckpoint(r) == [timestamp |-> request[r].last, run |-> r]

RowsLand(r) ==
  /\ \A s \in Streams, k \in Keys :
       \/ table'[s][k] = table[s][k]
       \/ s = request[r].stream /\ k \in Brought(r) /\ table'[s][k] = OwnRow(r)
  /\ \A k \in Brought(r) : table'[request[r].stream][k] = OwnRow(r)

CheckpointLands(r) ==
  /\ \A s \in Streams :
       \/ checkpoint'[s] = checkpoint[s]
       \/ /\ s = request[r].stream /\ IsHistorical(request[r])
          /\ checkpoint[s] # Absent => request[r].last >= checkpoint[s].timestamp
          /\ checkpoint'[s] = OwnCheckpoint(r)
  /\ IsHistorical(request[r]) =>
       /\ checkpoint'[request[r].stream] # Absent
       /\ checkpoint'[request[r].stream].timestamp >= request[r].last

LEMMA BroughtKeys ==
  ASSUME TypeOK, NEW r \in Runs
  PROVE  Brought(r) \subseteq Keys
<1>1. batch[r] \in Seq(Record)
  BY DEF TypeOK
<1>2. \A n \in DOMAIN batch[r] : batch[r][n] \in Record
  <2> HIDE DEF Record
  <2> QED BY <1>1, ElementOfSeq, LenProperties
<1> QED BY <1>2 DEF Brought

\* When nothing is left to store, the keys held are those of the answer.
LEMMA HeldIsBrought ==
  ASSUME TypeOK, NEW r \in Runs, tx[r].stored <= Len(batch[r]), ~ToStore(r)
  PROVE  Held(r) = Brought(r)
<1>1. batch[r] \in Seq(Record) /\ tx[r].stored \in Nat
  BY DEF TypeOK
<1>2. Len(batch[r]) \in Nat /\ DOMAIN batch[r] = 1..Len(batch[r])
  BY <1>1, LenProperties
<1>3. tx[r].stored = Len(batch[r])
  BY <1>1, <1>2 DEF ToStore
<1> QED BY <1>2, <1>3 DEF Held, Brought

LEMMA CommitEffect ==
  ASSUME IInv, NEW r \in Runs, Commit(r)
  PROVE  /\ request[r] \in Request /\ request[r] # Absent /\ status[r] = "running"
         /\ status' = [status EXCEPT ![r] = "success"]
         /\ RowsLand(r) /\ CheckpointLands(r)
         /\ OwnRow(r) # Absent /\ OwnCheckpoint(r) # Absent
<1> DEFINE q == request[r]
<1> USE DEF IInv, TypeOK
<1>1. q \in Request /\ q # Absent /\ status[r] = "running"
  BY StartedHasRequest, AbsentAssumption DEF Commit, CallsAudited
<1>2. TransactionInOrder(r)
  BY DEF TransactionsInOrder
<1>3. tx[r].marked /\ Held(r) = Brought(r)
  <2>1. tx[r].marked /\ ~ToStore(r) /\ tx[r].stored <= Len(batch[r])
    BY <1>2 DEF Commit, TransactionInOrder
  <2>2. TypeOK
    OBVIOUS
  <2> HIDE DEF IInv, TypeOK
  <2> QED BY <2>1, <2>2, HeldIsBrought
<1>4. status' = [status EXCEPT ![r] = "success"]
  BY <1>3 DEF Commit, ServerCommits, MarkSuccess
<1>5. \A k \in Brought(r) : IsComplete(r, k)
  <2> SUFFICES ASSUME NEW k \in Brought(r) PROVE IsComplete(r, k)
    OBVIOUS
  <2>1. PICK n \in DOMAIN batch[r] : batch[r][n].key = k
    BY DEF Brought
  <2>2. batch[r][n] \in Record
    <3>1. batch[r] \in Seq(Record) OBVIOUS
    <3> HIDE DEF IInv, TypeOK, Record
    <3> QED BY <2>1, <3>1, ElementOfSeq, LenProperties
  <2>3. batch[r][n].complete = TRUE
    BY <2>1, <2>2 DEF BatchesAccepted
  <2>4. batch[r][n] = [key |-> k, complete |-> TRUE]
    BY <2>1, <2>2, <2>3
  <2> QED BY <2>4 DEF IsComplete
<1>6. ASSUME NEW k \in Keys, k \in Held(r)
      PROVE  table'[q.stream][k] = [writer |-> r, complete |-> TRUE]
  <2>1. IsComplete(r, k) = TRUE
    BY <1>3, <1>5, <1>6 DEF IsComplete
  <2>2. table'[q.stream][k] = UpsertRow(table[q.stream][k], r, IsComplete(r, k))
    BY <1>1, <1>6 DEF Commit, ServerCommits
  <2>3. table[q.stream][k] \in Row \cup {Absent}
    BY <1>1
  <2> QED BY <2>1, <2>2, <2>3 DEF UpsertRow
<1>7. ASSUME NEW s \in Streams, NEW k \in Keys, s # q.stream \/ k \notin Held(r)
      PROVE  table'[s][k] = table[s][k]
  BY <1>1, <1>7 DEF Commit, ServerCommits
<1>8. \A s \in Streams : \/ checkpoint'[s] = checkpoint[s]
                         \/ /\ s = q.stream /\ tx[r].checkpoint = "advanced"
                            /\ checkpoint'[s] = [timestamp |-> q.last, run |-> r]
  BY <1>1 DEF Commit, ServerCommits
<1>9. tx[r].checkpoint = "advanced" =>
        /\ IsHistorical(q)
        /\ checkpoint[q.stream] # Absent => q.last >= checkpoint[q.stream].timestamp
        /\ checkpoint'[q.stream] = [timestamp |-> q.last, run |-> r]
  BY <1>1, <1>2 DEF Commit, ServerCommits, TransactionInOrder, DecisionsCurrent,
                    CheckpointMayMove
<1>10. ASSUME IsHistorical(q)
       PROVE  checkpoint'[q.stream] # Absent /\ checkpoint'[q.stream].timestamp >= q.last
  <2>1. tx[r].checkpoint # "none"
    BY <1>2, <1>10 DEF Commit, TransactionInOrder
  <2>2. CASE tx[r].checkpoint = "advanced"
    <3>1. checkpoint'[q.stream] = [timestamp |-> q.last, run |-> r]
      BY <1>9, <2>2
    <3>2. [timestamp |-> q.last, run |-> r] \in Checkpoint
      BY <1>1
    <3>3. q.last \in Int
      BY <1>1, HoursAssumption
    <3> HIDE DEF q, IInv, TypeOK
    <3> QED BY <3>1, <3>2, <3>3, AbsentAssumption
  <2>3. CASE tx[r].checkpoint = "kept"
    <3>1. ~CheckpointMayMove(checkpoint[q.stream], q.last)
      BY <2>1, <2>3 DEF DecisionsCurrent
    <3>2. checkpoint'[q.stream] = checkpoint[q.stream]
      BY <2>3 DEF Commit, ServerCommits
    <3>3. checkpoint[q.stream] \in Checkpoint
      BY <1>1, <3>1 DEF CheckpointMayMove
    <3>4. q.last \in Int /\ checkpoint[q.stream].timestamp \in Int
      BY <1>1, <3>3, HoursAssumption
    <3> HIDE DEF q, IInv, TypeOK
    <3> QED BY <3>1, <3>2, <3>3, <3>4, AbsentAssumption DEF CheckpointMayMove
  <2> QED BY <2>1, <2>2, <2>3
<1>11. Brought(r) \subseteq Keys
  BY BroughtKeys
<1>12. ASSUME NEW s \in Streams, NEW k \in Keys
       PROVE  \/ table'[s][k] = table[s][k]
              \/ /\ s = q.stream /\ k \in Brought(r)
                 /\ table'[s][k] = [writer |-> r, complete |-> TRUE]
  <2>1. CASE s # q.stream \/ k \notin Held(r)
    BY <1>7, <2>1
  <2>2. CASE s = q.stream /\ k \in Held(r)
    BY <1>3, <1>6, <2>2
  <2> QED BY <2>1, <2>2
<1>13. \A k \in Brought(r) : table'[q.stream][k] = [writer |-> r, complete |-> TRUE]
  BY <1>3, <1>6, <1>11
<1>14. ASSUME NEW s \in Streams
       PROVE  \/ checkpoint'[s] = checkpoint[s]
              \/ /\ s = q.stream /\ IsHistorical(q)
                 /\ checkpoint[s] # Absent => q.last >= checkpoint[s].timestamp
                 /\ checkpoint'[s] = [timestamp |-> q.last, run |-> r]
  BY <1>8, <1>9
<1>15. OwnRow(r) # Absent /\ OwnCheckpoint(r) # Absent
  <2>1. OwnRow(r) \in Row /\ OwnCheckpoint(r) \in Checkpoint
    BY <1>1 DEF OwnRow, OwnCheckpoint
  <2> QED BY <2>1, AbsentAssumption
<1>16. RowsLand(r)
  BY <1>12, <1>13 DEF RowsLand, OwnRow
<1>17. CheckpointLands(r)
  BY <1>10, <1>14 DEF CheckpointLands, OwnCheckpoint
<1> HIDE DEF IInv, TypeOK
<1> QED BY <1>1, <1>4, <1>15, <1>16, <1>17

Stored == CheckpointBacked /\ SuccessRecorded /\ RowsFromCommittedRuns /\ StoredRowsComplete

\* A call whose run is not yet a success or a failure owns nothing that is stored.
LEMMA UncommittedOwnsNothing ==
  ASSUME IInv, NEW r \in Runs, status[r] \in {"none", "running"}
  PROVE  /\ \A s \in Streams : checkpoint[s] # Absent => checkpoint[s].run # r
         /\ \A s \in Streams, k \in Keys : table[s][k] # Absent => table[s][k].writer # r
  BY DEF IInv, CheckpointBacked, RowsFromCommittedRuns

\* The writers and owners a commit leaves are calls.
LEMMA CommitTyped ==
  ASSUME IInv, NEW r \in Runs, Commit(r)
  PROVE  /\ \A s \in Streams : checkpoint'[s] # Absent => checkpoint'[s].run \in Runs
         /\ \A s \in Streams, k \in Keys : table'[s][k] # Absent => table'[s][k].writer \in Runs
<1>1. TypeOK /\ CheckpointLands(r) /\ RowsLand(r)
  BY CommitEffect DEF IInv
<1>2. ASSUME NEW s \in Streams, checkpoint'[s] # Absent PROVE checkpoint'[s].run \in Runs
  <2>1. CASE checkpoint'[s] = checkpoint[s]
    BY <1>1, <1>2, <2>1 DEF TypeOK
  <2>2. CASE checkpoint'[s] = OwnCheckpoint(r)
    BY <2>2 DEF OwnCheckpoint
  <2> QED BY <1>1, <2>1, <2>2 DEF CheckpointLands
<1>3. ASSUME NEW s \in Streams, NEW k \in Keys, table'[s][k] # Absent
      PROVE  table'[s][k].writer \in Runs
  <2>1. CASE table'[s][k] = table[s][k]
    <3>1. table[s][k] \in Row \cup {Absent}
      BY <1>1 DEF TypeOK
    <3> QED BY <1>3, <2>1, <3>1
  <2>2. CASE table'[s][k] = OwnRow(r)
    BY <2>2 DEF OwnRow
  <2> QED BY <1>1, <2>1, <2>2 DEF RowsLand
<1> QED BY <1>2, <1>3

LEMMA StoredAfterCommit ==
  ASSUME IInv, NEW r \in Runs, Commit(r)
  PROVE  Stored'
<1>1. TypeOK /\ Stored /\ BatchesAccepted
  BY DEF IInv, Stored
<1>2. UNCHANGED <<request, batch>>
  BY DEF Commit, callVars
<1>3. /\ request[r] \in Request /\ request[r] # Absent /\ status[r] = "running"
      /\ status' = [status EXCEPT ![r] = "success"]
      /\ RowsLand(r) /\ CheckpointLands(r) /\ OwnRow(r) # Absent /\ OwnCheckpoint(r) # Absent
  BY CommitEffect
<1>4. \A o \in Runs : status'[o] = IF o = r THEN "success" ELSE status[o]
  BY <1>1, <1>3 DEF TypeOK
<1>5. \A s \in Streams, k \in Keys : table[s][k] # Absent => table'[s][k] # Absent
  BY <1>3 DEF RowsLand
<1>6. \A k \in Brought(r) : table'[request[r].stream][k] # Absent
  BY <1>3 DEF RowsLand
<1>7. ASSUME NEW q \in Runs, NEW s \in Streams, \A k \in Brought(q) : table[s][k] # Absent
      PROVE  \A k \in Brought(q) : table'[s][k] # Absent
  BY <1>1, <1>5, <1>7, BroughtKeys
<1>7a. \A q \in Runs : /\ AllStored(q) <=> \A k \in Brought(q) : table[request[q].stream][k] # Absent
                       /\ AllStored(q)' <=> \A k \in Brought(q) : table'[request[q].stream][k] # Absent
  BY <1>2 DEF AllStored, Brought
<1>8. CheckpointBacked'
  <2> SUFFICES ASSUME NEW s \in Streams, checkpoint'[s] # Absent,
                      NEW o, o = checkpoint'[s].run
               PROVE  /\ request[o] # Absent /\ request[o].stream = s
                      /\ IsHistorical(request[o]) /\ request[o].last = checkpoint'[s].timestamp
                      /\ status'[o] \in {"success", "failed"}
                      /\ \A k \in Brought(o) : table'[s][k] # Absent
    BY <1>2, <1>7a, CommitTyped DEF CheckpointBacked, IsHistorical, TypeOK
  <2>1. CASE checkpoint'[s] = checkpoint[s]
    <3>1. o \in Runs
      BY <1>1, <2>1 DEF TypeOK
    <3>2. /\ request[o] # Absent /\ request[o].stream = s
          /\ IsHistorical(request[o]) /\ request[o].last = checkpoint'[s].timestamp
          /\ status[o] \in {"success", "failed"}
          /\ \A k \in Brought(o) : table[s][k] # Absent
      BY <1>1, <1>7a, <2>1, <3>1 DEF Stored, CheckpointBacked
    <3> QED BY <1>4, <1>7, <3>1, <3>2
  <2>2. CASE /\ s = request[r].stream /\ IsHistorical(request[r])
             /\ checkpoint'[s] = OwnCheckpoint(r)
    <3>1. o = r /\ checkpoint'[s].timestamp = request[r].last
      BY <2>2 DEF OwnCheckpoint
    <3> QED BY <1>3, <1>4, <1>6, <2>2, <3>1
  <2> QED BY <1>3, <2>1, <2>2 DEF CheckpointLands
<1>9. SuccessRecorded'
  <2> SUFFICES ASSUME NEW o \in Runs, status'[o] = "success", NEW s, s = request[o].stream
               PROVE  /\ \A k \in Brought(o) : table'[s][k] # Absent
                      /\ IsHistorical(request[o]) =>
                           /\ checkpoint'[s] # Absent
                           /\ checkpoint'[s].timestamp >= request[o].last
    BY <1>2, <1>7a DEF SuccessRecorded, IsHistorical
  <2>1. CASE o = r
    BY <1>3, <1>6, <2>1 DEF CheckpointLands
  <2>2. CASE o # r
    <3>1. status[o] = "success"
      BY <1>4, <2>2
    <3>2. request[o] \in Request /\ s \in Streams
      BY <1>1, <3>1, RequestsAssumption DEF IInv, CallsAudited
    <3>3. \A k \in Brought(o) : table'[s][k] # Absent
      BY <1>1, <1>7, <1>7a, <3>1, <3>2 DEF Stored, SuccessRecorded
    <3>4. ASSUME IsHistorical(request[o])
          PROVE  checkpoint'[s] # Absent /\ checkpoint'[s].timestamp >= request[o].last
      <4>1. checkpoint[s] # Absent /\ checkpoint[s].timestamp >= request[o].last
        BY <1>1, <3>1, <3>4 DEF Stored, SuccessRecorded
      <4>2. CASE checkpoint'[s] = checkpoint[s]
        BY <4>1, <4>2
      <4>3. CASE checkpoint'[s] # checkpoint[s]
        <5>1. checkpoint'[s] = OwnCheckpoint(r) /\ request[r].last >= checkpoint[s].timestamp
          BY <1>3, <3>2, <4>1, <4>3 DEF CheckpointLands
        <5>2. request[r].last \in Int /\ request[o].last \in Int /\ checkpoint[s].timestamp \in Int
          BY <1>1, <1>3, <3>2, <4>1, HoursAssumption DEF TypeOK
        <5>3. checkpoint'[s].timestamp = request[r].last
          BY <5>1 DEF OwnCheckpoint
        <5> QED BY <1>3, <4>1, <5>1, <5>2, <5>3
      <4> QED BY <4>2, <4>3
    <3> QED BY <3>3, <3>4
  <2> QED BY <2>1, <2>2
<1>10. RowsFromCommittedRuns'
  <2> SUFFICES ASSUME NEW s \in Streams, NEW h \in Keys, table'[s][h] # Absent,
                      NEW o, o = table'[s][h].writer
               PROVE  /\ request[o] # Absent /\ request[o].stream = s
                      /\ TimeOf[h] \in request[o].first..request[o].last
                      /\ status'[o] \in {"success", "failed"}
                      /\ \A k \in Brought(o) : table'[s][k] # Absent
    BY <1>2, <1>7a, CommitTyped DEF RowsFromCommittedRuns, TypeOK
  <2>1. CASE table'[s][h] = table[s][h]
    <3>1. o \in Runs
      BY <1>1, <2>1 DEF TypeOK
    <3>2. /\ request[o] # Absent /\ request[o].stream = s
          /\ TimeOf[h] \in request[o].first..request[o].last
          /\ status[o] \in {"success", "failed"}
          /\ \A k \in Brought(o) : table[s][k] # Absent
      BY <1>1, <1>7a, <2>1, <3>1 DEF Stored, RowsFromCommittedRuns
    <3> QED BY <1>4, <1>7, <3>1, <3>2
  <2>2. CASE s = request[r].stream /\ h \in Brought(r) /\ table'[s][h] = OwnRow(r)
    <3>1. o = r
      BY <2>2 DEF OwnRow
    <3>2. TimeOf[h] \in request[r].first..request[r].last
      BY <1>1, <2>2 DEF BatchesAccepted, Brought
    <3> QED BY <1>3, <1>4, <1>6, <2>2, <3>1, <3>2
  <2> QED BY <1>3, <2>1, <2>2 DEF RowsLand
<1>11. StoredRowsComplete'
  BY <1>1, <1>3 DEF Stored, StoredRowsComplete, RowsLand, OwnRow
<1> QED BY <1>8, <1>9, <1>10, <1>11 DEF Stored

LEMMA StoredStep == IInv /\ [Next]_vars => Stored'
<1> SUFFICES ASSUME IInv, [Next]_vars PROVE Stored'
  OBVIOUS
<1> USE DEF IInv, TypeOK, dbVars, callVars
\* Of a step's changes only those to the database and the calls' records count.
<1>0. ASSUME UNCHANGED <<table, checkpoint, request, batch>>,
             \A q \in Runs : \/ status'[q] = status[q]
                             \/ status'[q] = "failed" /\ status[q] # "none"
      PROVE  Stored'
  <2>1. \A q : AllStored(q)' = AllStored(q)
    BY <1>0 DEF AllStored
  <2>2. \A s \in Streams : checkpoint[s] # Absent => checkpoint[s].run \in Runs
    OBVIOUS
  <2>3. \A s \in Streams, k \in Keys : table[s][k] # Absent => table[s][k].writer \in Runs
    <3> SUFFICES ASSUME NEW s \in Streams, NEW k \in Keys, table[s][k] # Absent
                 PROVE  table[s][k].writer \in Runs
      OBVIOUS
    <3>1. table[s][k] \in Row \cup {Absent}
      OBVIOUS
    <3> QED BY <3>1
  <2>4. Stored
    BY DEF Stored
  <2> HIDE DEF IInv, TypeOK
  <2>5. CheckpointBacked'
    BY <1>0, <2>1, <2>2, <2>4 DEF Stored, CheckpointBacked, IsHistorical
  <2>6. SuccessRecorded'
    BY <1>0, <2>1, <2>4 DEF Stored, SuccessRecorded, IsHistorical
  <2>7. RowsFromCommittedRuns'
    BY <1>0, <2>1, <2>3, <2>4 DEF Stored, RowsFromCommittedRuns
  <2> QED BY <1>0, <2>4, <2>5, <2>6, <2>7 DEF Stored, StoredRowsComplete
<1>1. CASE UNCHANGED <<dbVars, callVars>>
  <2>1. UNCHANGED <<table, checkpoint, request, batch>> /\ status' = status
    BY <1>1
  <2>2. \A q \in Runs : status'[q] = status[q]
    BY <2>1
  <2> HIDE DEF IInv, TypeOK
  <2> QED BY <1>0, <2>1, <2>2
<1>2. ASSUME NEW r \in Runs, Begins(r) \/ FetchAndBegin(r) PROVE Stored'
  <2>1. status[r] \in {"none", "running"} /\ status'[r] = "running"
    BY <1>2 DEF Begins, InsertsAudit, FetchAndBegin, Goto, CallsAudited
  <2>2. UNCHANGED <<table, checkpoint>>
    BY <1>2 DEF Begins, FetchAndBegin
  <2>3. \A q \in Runs \ {r} : /\ status'[q] = status[q] /\ request'[q] = request[q]
                              /\ batch'[q] = batch[q] /\ AllStored(q)' = AllStored(q)
    <3>1. \A q \in Runs \ {r} : /\ status'[q] = status[q] /\ request'[q] = request[q]
                                /\ batch'[q] = batch[q]
      BY <1>2 DEF Begins, InsertsAudit, FetchAndBegin
    <3> QED BY <2>2, <3>1 DEF AllStored
  <2>7. \A s \in Streams : checkpoint[s] # Absent => checkpoint[s].run \in Runs \ {r}
    BY <2>1, UncommittedOwnsNothing
  <2>4. CheckpointBacked'
    BY <2>2, <2>3, <2>7 DEF CheckpointBacked, IsHistorical
  <2>5. SuccessRecorded'
    BY <2>1, <2>2, <2>3 DEF SuccessRecorded, IsHistorical
  <2>6. RowsFromCommittedRuns'
    BY <2>1, <2>2, <2>3, UncommittedOwnsNothing DEF RowsFromCommittedRuns
  <2>8. StoredRowsComplete'
    BY <2>2 DEF StoredRowsComplete
  <2> QED BY <2>4, <2>5, <2>6, <2>8 DEF Stored
<1>3. ASSUME NEW r \in Runs, FailIngestionRun(r) PROVE Stored'
  <2>1. UNCHANGED <<table, checkpoint, request, batch>>
    BY <1>3 DEF FailIngestionRun
  <2>2. status' = [status EXCEPT ![r] = "failed"] /\ pc[r] = "failing"
    BY <1>3 DEF FailIngestionRun, Goto
  <2>3. status[r] # "none"
    BY <2>2 DEF CallsAudited
  <2>4. \A q \in Runs : \/ status'[q] = status[q]
                        \/ status'[q] = "failed" /\ status[q] # "none"
    BY <2>2, <2>3
  <2> HIDE DEF IInv, TypeOK
  <2> QED BY <1>0, <2>1, <2>4
<1>4. ASSUME NEW r \in Runs, StoreRecord(r) \/ CompleteIngestionRun(r) \/ AdvanceCheckpoint(r)
      PROVE  UNCHANGED <<dbVars, callVars>>
  BY <1>4 DEF StoreRecord, StageRow, CompleteIngestionRun, AdvanceCheckpoint
<1> QED BY <1>1, <1>2, <1>3, <1>4, StoredAfterCommit, StepKinds DEF Quiet

-------------------------------------------------------------------------------
(* The theorems. *)

LEMMA IInvInit == Init => IInv
<1> SUFFICES ASSUME Init PROVE IInv
  OBVIOUS
<1>1. TypeOK
  BY InitType
<1>1a. \A r \in Runs : Len(batch[r]) = 0 /\ DOMAIN batch[r] = {}
  <2>1. <<>> \in Seq({}) /\ Len(<<>>) = 0
    BY EmptySeq
  <2>2. DOMAIN <<>> = 1..0
    BY <2>1, LenProperties
  <2>3. 1..0 = {}
    OBVIOUS
  <2>4. \A r \in Runs : batch[r] = <<>>
    BY DEF Init
  <2> QED BY <2>1, <2>2, <2>3, <2>4, Zenon
<1>2. CallsAudited /\ BatchesAccepted /\ LocksExclusive /\ DecisionsCurrent
  <2>1. CallsAudited /\ LocksExclusive /\ DecisionsCurrent
    BY DEF Init, CallsAudited, LocksExclusive, Held, DecisionsCurrent
  <2>3. BatchesAccepted
    <3> SUFFICES ASSUME NEW r \in Runs
                 PROVE  /\ Ascending(batch[r]) /\ Len(batch[r]) <= MaxRecords
                        /\ \A n \in DOMAIN batch[r] :
                             /\ batch[r][n].complete /\ request[r] # Absent
                             /\ TimeOf[batch[r][n].key] \in request[r].first..request[r].last
      BY DEF BatchesAccepted
    <3>1. Len(batch[r]) <= MaxRecords
      BY <1>1a, MaxRecordsAssumption
    <3> QED BY <1>1a, <3>1, Zenon DEF Ascending
  <2> QED BY <2>1, <2>3
<1>3. TransactionsInOrder
  <2> SUFFICES ASSUME NEW r \in Runs PROVE TransactionInOrder(r)
    BY DEF TransactionsInOrder
  <2>1. tx[r] = NoTransaction /\ pc[r] = "idle" /\ dataConn[r] = "up"
    BY DEF Init
  <2>2. tx[r].stored <= Len(batch[r])
    BY <1>1a, <2>1
  <2> QED BY <2>1, <2>2 DEF TransactionInOrder
<1>5. CheckpointBacked /\ SuccessRecorded /\ RowsFromCommittedRuns /\ StoredRowsComplete
  BY DEF Init, CheckpointBacked, SuccessRecorded, RowsFromCommittedRuns, StoredRowsComplete
<1> QED BY <1>1, <1>2, <1>3, <1>5 DEF IInv

LEMMA IInvStep == IInv /\ [Next]_vars => IInv'
<1> SUFFICES ASSUME IInv, [Next]_vars PROVE IInv'
  OBVIOUS
<1>1. TypeOK'
  BY TypeStep DEF IInv
<1> QED
  BY <1>1, CallsStep, BatchesStep, TransactionsStep, LocksStep, DecisionsStep, StoredStep
  DEF IInv, Stored

\* The inductive invariant holds in every reachable state.
LEMMA Inductive == Spec => []IInv
  BY IInvInit, IInvStep, PTL DEF Spec

\* Every variable keeps its type.
THEOREM TypeCorrect == Spec => []TypeOK
  BY Inductive, PTL DEF IInv

\* A checkpoint names a finished run of its stream whose records are all stored.
THEOREM CheckpointsAreBacked == Spec => []CheckpointBacked
  BY Inductive, PTL DEF IInv

\* A successful run's records are stored and its window is behind the checkpoint.
THEOREM SuccessIsRecorded == Spec => []SuccessRecorded
  BY Inductive, PTL DEF IInv

\* No row of an unfinished or undone batch is ever visible.
THEOREM NoPartialBatch == Spec => []RowsFromCommittedRuns
  BY Inductive, PTL DEF IInv

\* No incomplete flow record is ever stored.
THEOREM OnlyCompleteRows == Spec => []StoredRowsComplete
  BY Inductive, PTL DEF IInv

\* Checkpoints only move forward.
THEOREM CheckpointsNeverGoBack == Spec => CheckpointMonotone
<1>1. ASSUME IInv, [Next]_vars
      PROVE  \A s \in Streams : checkpoint[s] # Absent =>
               checkpoint'[s] # Absent /\ checkpoint'[s].timestamp >= checkpoint[s].timestamp
  <2> SUFFICES ASSUME NEW s \in Streams, checkpoint[s] # Absent
               PROVE  checkpoint'[s] # Absent /\ checkpoint'[s].timestamp >= checkpoint[s].timestamp
    OBVIOUS
  <2>1. TypeOK
    BY <1>1 DEF IInv
  <2>2. checkpoint[s].timestamp \in Int
    BY <2>1, HoursAssumption DEF TypeOK
  <2>3. CASE UNCHANGED checkpoint
    BY <2>2, <2>3
  <2>4. ASSUME NEW r \in Runs, Commit(r)
        PROVE  checkpoint'[s] # Absent /\ checkpoint'[s].timestamp >= checkpoint[s].timestamp
    <3>1. CheckpointLands(r) /\ OwnCheckpoint(r) # Absent
      BY <1>1, <2>4, CommitEffect
    <3> QED BY <2>2, <3>1 DEF CheckpointLands, OwnCheckpoint
  <2>5. ASSUME NEW r \in Runs, \/ Begins(r) \/ FetchAndBegin(r) \/ StoreRecord(r)
                               \/ CompleteIngestionRun(r) \/ AdvanceCheckpoint(r)
                               \/ FailIngestionRun(r)
        PROVE  UNCHANGED checkpoint
    BY <2>5 DEF Begins, FetchAndBegin, StoreRecord, CompleteIngestionRun,
                AdvanceCheckpoint, FailIngestionRun, dbVars
  <2> QED BY <1>1, <2>1, <2>3, <2>4, <2>5, StepKinds DEF Quiet, dbVars
<1>2. IInv /\ [Next]_vars =>
        [\A s \in Streams : checkpoint[s] # Absent =>
            /\ checkpoint'[s] # Absent
            /\ checkpoint'[s].timestamp >= checkpoint[s].timestamp]_vars
  BY <1>1
<1> QED BY <1>2, Inductive, PTL DEF Spec, CheckpointMonotone

-------------------------------------------------------------------------------
(* Waiting. *)

\* Whoever waits for a call that waits too waits for the row of a record, and the call it
\* waits for is about to store a record that is no earlier.
LEMMA WaitsAscend ==
  ASSUME IInv, NEW r \in Runs, NEW q \in Runs, WaitsFor(r, q), pc[q] = "storing", ToStore(q)
  PROVE  /\ pc[r] = "storing" /\ ToStore(r) /\ NextRecord(r).key \in Held(q)
         /\ TimeOf[NextRecord(r).key] <= TimeOf[NextRecord(q).key]
<1>1. tx[q].checkpoint = "none"
  BY DEF IInv, TransactionsInOrder, TransactionInOrder
<1>2. pc[r] = "storing" /\ ToStore(r) /\ NextRecord(r).key \in Held(q)
  BY <1>1 DEF WaitsFor
<1>3. PICK n \in 1..tx[q].stored : NextRecord(r).key = batch[q][n].key
  BY <1>2 DEF Held
<1>4. tx[q].stored \in Nat /\ Len(batch[q]) \in Nat /\ DOMAIN batch[q] = 1..Len(batch[q])
  BY LenProperties DEF IInv, TypeOK
<1>5. n \in DOMAIN batch[q] /\ tx[q].stored + 1 \in DOMAIN batch[q] /\ n < tx[q].stored + 1
  BY <1>4 DEF ToStore
<1>6. TimeOf[batch[q][n].key] <= TimeOf[batch[q][tx[q].stored + 1].key]
  BY <1>5 DEF IInv, BatchesAccepted, Ascending
<1> QED BY <1>2, <1>3, <1>6 DEF NextRecord

\* A call that waits for one that waits is storing.
LEMMA CircleStores ==
  ASSUME IInv, NEW S \in SUBSET Runs, \A r \in S : \E q \in S : WaitsFor(r, q)
  PROVE  \A r \in S : pc[r] = "storing" /\ ToStore(r)
<1>1. \A r \in S : pc[r] \in {"storing", "checkpointing"} /\ tx[r].checkpoint = "none"
  <2>1. \A r \in S : pc[r] \in {"storing", "checkpointing"}
    BY DEF WaitsFor
  <2> QED BY <2>1 DEF IInv, TransactionsInOrder, TransactionInOrder
<1> QED BY <1>1 DEF WaitsFor

\* Of finitely many things with a number each, one has the greatest: a smallest set
\* without one would still lack one when an element is taken away.
LEMMA GreatestOfFinite ==
  ASSUME NEW S, IsFiniteSet(S), S # {}, NEW f \in [S -> Int]
  PROVE  \E x \in S : \A y \in S : f[y] <= f[x]
<1> DEFINE Without == {U \in SUBSET S : U # {} /\ ~\E x \in U : \A y \in U : f[y] <= f[x]}
<1>1. SUFFICES ASSUME S \in Without PROVE FALSE
  OBVIOUS
<1>2. /\ Without \subseteq FiniteSubsetsOf(S)
      /\ IsWellFoundedOn(StrictSubsetOrdering(S), FiniteSubsetsOf(S))
  BY FS_FiniteSubsetsOfFinite, FS_StrictSubsetOrderingWellFounded
<1>3. PICK U \in Without : \A V \in Without : <<V, U>> \notin StrictSubsetOrdering(S)
  <2> HIDE DEF Without
  <2> QED BY <1>1, <1>2, WFMin
<1>4. PICK x \in U : TRUE
  BY <1>3
<1>5. U \ {x} \notin Without
  <2>1. U \ {x} \in SUBSET S /\ U \in SUBSET S /\ U \ {x} \subseteq U /\ U \ {x} # U
    BY <1>3, <1>4
  <2>2. <<U \ {x}, U>> \in StrictSubsetOrdering(S)
    BY <2>1 DEF StrictSubsetOrdering
  <2> QED BY <1>3, <2>2
<1>6. CASE U \ {x} = {}
  <2>1. U = {x} /\ f[x] \in Int
    BY <1>3, <1>4, <1>6
  <2> QED BY <1>3, <2>1
<1>7. CASE U \ {x} # {}
  <2>1. PICK y \in U \ {x} : \A z \in U \ {x} : f[z] <= f[y]
    BY <1>3, <1>5, <1>7
  <2>2. f[x] \in Int /\ \A z \in U : f[z] \in Int
    BY <1>3, <1>4
  <2>3. CASE f[x] <= f[y]
    <3>1. \A z \in U : f[z] <= f[y]
      BY <2>1, <2>3
    <3> QED BY <1>3, <2>1, <3>1
  <2>4. CASE f[y] <= f[x]
    <3>1. \A z \in U : f[z] <= f[x]
      BY <1>4, <2>1, <2>2, <2>4
    <3> QED BY <1>3, <1>4, <3>1
  <2> QED BY <2>1, <2>2, <2>3, <2>4
<1> QED BY <1>6, <1>7

\* However many calls may be made, only finitely many have been made at any time.
Started == {r \in Runs : pc[r] # "idle"}

LEMMA StartedStep == TypeOK /\ IsFiniteSet(Started) /\ [Next]_vars => IsFiniteSet(Started')
<1> SUFFICES ASSUME TypeOK, IsFiniteSet(Started), [Next]_vars PROVE IsFiniteSet(Started')
  OBVIOUS
<1>1. ASSUME NEW r \in Runs, \A q \in Runs \ {r} : pc'[q] = pc[q]
      PROVE  IsFiniteSet(Started')
  <2>1. IsFiniteSet(Started \cup {r})
    BY FS_AddElement
  <2>2. Started' \in SUBSET (Started \cup {r})
    BY <1>1 DEF Started
  <2> QED BY <2>1, <2>2, FS_Subset
<1>2. CASE UNCHANGED vars \/ AllEnded
  BY <1>2 DEF Started, vars, AllEnded
<1>3. ASSUME NEW r \in Runs, StoreRecord(r) \/ LoseDataConnection(r)
      PROVE  IsFiniteSet(Started')
  BY <1>3 DEF StoreRecord, LoseDataConnection, Started
<1>4. ASSUME NEW r \in Runs, \E from, to : Goto(r, from, to)
      PROVE  IsFiniteSet(Started')
  BY <1>1, <1>4 DEF Goto, TypeOK
<1>5. ASSUME NEW r \in Runs,
             \/ StartRun(r) \/ BeginRunFails(r) \/ CallStep(r)
             \/ CommitAnswerLost(r) \/ InterruptAfterCommit(r) \/ InterruptOutsideTry(r)
             \/ LoseDataConnection(r) \/ Crash(r)
      PROVE  IsFiniteSet(Started')
  <2>1. StoreRecord(r) \/ LoseDataConnection(r) \/ \E from, to : Goto(r, from, to)
    BY <1>5 DEF StartRun, BeginRunFails, CallStep, OwnStep, DeadlockDetected, InterruptOutsideTry,
                FetchAndBegin, RejectBatch, CompleteIngestionRun, AdvanceCheckpoint,
                CommitDataTransaction, ReturnResult, ConnectionError,
                RollbackDataTransaction, RollbackRaises, FailIngestionRun, SourceFails,
                StatementFails, AuditUpdateFails, CommitAnswerLost, InterruptAfterCommit, Crash
  <2> QED BY <1>3, <1>4, <2>1
<1> QED BY <1>2, <1>5 DEF Next

\* Along a circle the awaited times do not fall, so the call that waits at the last of them
\* waits for one that waits at the very same time and has stored a record of it.
LEMMA CircleTies ==
  ASSUME IInv, IsFiniteSet(Started), NEW S \in SUBSET Runs, S # {},
         \A r \in S : \E q \in S : WaitsFor(r, q)
  PROVE  \E r \in S : HoldsTie(r)
<1> DEFINE awaited == [r \in S |-> TimeOf[NextRecord(r).key]]
<1>1. \A r \in S : pc[r] = "storing" /\ ToStore(r)
  BY CircleStores
<1>2. \A r, q \in S : WaitsFor(r, q) =>
        NextRecord(r).key \in Held(q) /\ awaited[r] <= awaited[q]
  BY <1>1, WaitsAscend
<1>3. IsFiniteSet(S)
  <2>1. S \in SUBSET Started
    BY <1>1 DEF Started
  <2> QED BY <2>1, FS_Subset
<1>4. \A r \in S : NextRecord(r).key \in Keys
  <2> SUFFICES ASSUME NEW r \in S PROVE NextRecord(r).key \in Keys
    OBVIOUS
  <2>1. batch[r] \in Seq(Record) /\ tx[r].stored \in Nat
    BY DEF IInv, TypeOK
  <2>2. Len(batch[r]) \in Nat
    BY <2>1, LenProperties
  <2>3. tx[r].stored + 1 \in 1..Len(batch[r])
    BY <1>1, <2>1, <2>2 DEF ToStore
  <2>4. NextRecord(r) \in Record
    <3> HIDE DEF Record
    <3> QED BY <2>1, <2>3, ElementOfSeq DEF NextRecord
  <2> QED BY <2>4
<1>5. awaited \in [S -> Int]
  BY <1>4, KeysAssumption, HoursAssumption
<1>6. PICK r \in S : \A q \in S : awaited[q] <= awaited[r]
  <2> HIDE DEF awaited
  <2> QED BY <1>3, <1>5, GreatestOfFinite
<1>7. PICK q \in S : WaitsFor(r, q)
  BY <1>6
<1>8. awaited[r] <= awaited[q] /\ awaited[q] <= awaited[r]
  BY <1>2, <1>6, <1>7
<1>9. awaited[q] = awaited[r]
  <2> HIDE DEF awaited
  <2> QED BY <1>5, <1>8
<1>10. NextRecord(r).key \in Held(q) /\ TimeOf[NextRecord(r).key] = TimeOf[NextRecord(q).key]
  BY <1>2, <1>7, <1>9
<1> QED BY <1>1, <1>10 DEF HoldsTie

\* Ingestion calls, of whatever streams, windows and answers, come to wait in a circle for
\* each other's rows and checkpoint only where records share a timestamp: one of them has
\* stored a record of the timestamp it waits at.  (order_by, store_flows, store_dex_trades,
\* advance_checkpoint)
THEOREM CirclesAlwaysTakeTies == Spec => []CirclesTakeTies
<1>1. Init => IsFiniteSet(Started)
  <2>1. ASSUME Init PROVE Started = {}
    BY <2>1 DEF Init, Started
  <2> QED BY <2>1, FS_EmptySet
<1>2. TypeOK /\ IsFiniteSet(Started) /\ [Next]_vars => IsFiniteSet(Started)'
  BY StartedStep
<1>3. IInv => TypeOK
  BY DEF IInv
<1>4. IInv /\ IsFiniteSet(Started) => CirclesTakeTies
  BY CircleTies DEF CirclesTakeTies
<1> QED BY <1>1, <1>2, <1>3, <1>4, Inductive, PTL DEF Spec

-------------------------------------------------------------------------------
(* What the audit promises of docs/database.md take. *)

\* A step of r, which leaves the other calls as they are.
StepOf(r) ==
  \/ StartRun(r) \/ BeginRunFails(r) \/ CallStep(r)
  \/ CommitAnswerLost(r) \/ InterruptAfterCommit(r) \/ InterruptOutsideTry(r)
  \/ LoseDataConnection(r) \/ Crash(r)

\* Only a call within its transaction is found in a circle.
LEMMA DeadlockInTransaction ==
  ASSUME NEW r \in Runs, DeadlockDetected(r)
  PROVE  pc[r] \in InTransaction /\ dataConn[r] = "up"
  BY DEF DeadlockDetected, WaitsFor

LEMMA OthersStay ==
  ASSUME TypeOK, NEW r \in Runs, StepOf(r), NEW q \in Runs \ {r}
  PROVE  /\ pc'[q] = pc[q] /\ status'[q] = status[q]
         /\ dataActive'[q] = dataActive[q] /\ dataConn'[q] = dataConn[q]
<1> USE DEF TypeOK, Goto, dbVars, callVars
<1>1. pc'[q] = pc[q]
  BY DEF StepOf, StartRun, BeginRunFails, InsertsAudit, CallStep, OwnStep, DeadlockDetected,
         InterruptOutsideTry, FetchAndBegin, RejectBatch, StoreRecord,
         CompleteIngestionRun, AdvanceCheckpoint, CommitDataTransaction, ReturnResult,
         ConnectionError, RollbackDataTransaction, RollbackRaises, FailIngestionRun, SourceFails,
         StatementFails, AuditUpdateFails, CommitAnswerLost, InterruptAfterCommit,
         LoseDataConnection, Crash
<1>2. status'[q] = status[q]
  BY DEF StepOf, StartRun, BeginRunFails, InsertsAudit, CallStep, OwnStep, DeadlockDetected,
         InterruptOutsideTry, FetchAndBegin, RejectBatch, StoreRecord,
         CompleteIngestionRun, AdvanceCheckpoint, CommitDataTransaction, ReturnResult,
         ConnectionError, RollbackDataTransaction, RollbackRaises, FailIngestionRun, SourceFails,
         StatementFails, AuditUpdateFails, CommitAnswerLost, InterruptAfterCommit,
         LoseDataConnection, Crash, ServerCommits, MarkSuccess
<1>3. dataActive'[q] = dataActive[q] /\ dataConn'[q] = dataConn[q]
  BY DEF StepOf, StartRun, BeginRunFails, InsertsAudit, CallStep, OwnStep, DeadlockDetected,
         InterruptOutsideTry, FetchAndBegin, RejectBatch, StoreRecord,
         CompleteIngestionRun, AdvanceCheckpoint, CommitDataTransaction, ReturnResult,
         ConnectionError, RollbackDataTransaction, RollbackRaises, FailIngestionRun, SourceFails,
         StatementFails, AuditUpdateFails, CommitAnswerLost, InterruptAfterCommit,
         LoseDataConnection, Crash
<1> QED BY <1>1, <1>2, <1>3

\* A call that unwinds after it has landed does not get to the failure audit, because its
\* rollback raises: the answer to its commit was lost with the connection.
LandedUnwinds(r) ==
  /\ pc[r] \in InTransaction => dataActive[r]
  /\ pc[r] \in {"unwinding", "failing"} /\ status[r] = "success" =>
       pc[r] = "unwinding" /\ dataActive[r] /\ dataConn[r] = "lost"

LEMMA LandedUnwindsStep ==
  ASSUME "interrupt" \notin Faults, IInv, NEW r \in Runs, LandedUnwinds(r), StepOf(r)
  PROVE  LandedUnwinds(r)'
<1> USE DEF IInv, TypeOK, Goto, dbVars, callVars
<1>1. CASE StartRun(r) \/ BeginRunFails(r) \/ ReturnResult(r) \/ RollbackRaises(r)
           \/ FailIngestionRun(r) \/ AuditUpdateFails(r) \/ InterruptOutsideTry(r) \/ Crash(r)
           \/ CommitDataTransaction(r)
  <2>1. pc'[r] \in {"fetching", "returned", "raised", "crashed", "committed"}
    BY <1>1 DEF StartRun, BeginRunFails, ReturnResult, RollbackRaises, FailIngestionRun,
                AuditUpdateFails, InterruptOutsideTry, Crash, CommitDataTransaction
  <2> QED BY <2>1 DEF LandedUnwinds
<1>2. CASE FetchAndBegin(r)
  BY <1>2 DEF FetchAndBegin, LandedUnwinds
<1>3. CASE StoreRecord(r) \/ CompleteIngestionRun(r) \/ AdvanceCheckpoint(r)
  <2>1. pc[r] \in InTransaction /\ pc'[r] \in InTransaction /\ dataActive' = dataActive
    BY <1>3 DEF StoreRecord, CompleteIngestionRun, AdvanceCheckpoint
  <2> QED BY <2>1 DEF LandedUnwinds
<1>4. CASE RejectBatch(r) \/ SourceFails(r) \/ StatementFails(r) \/ ConnectionError(r)
           \/ DeadlockDetected(r)
  <2>1. pc[r] \in InTransaction \cup {"fetching"} /\ pc'[r] = "unwinding" /\ status' = status
    BY <1>4, DeadlockInTransaction DEF RejectBatch, SourceFails, StatementFails, ConnectionError,
                                       DeadlockDetected
  <2>2. status'[r] = "running"
    BY <2>1 DEF CallsAudited
  <2> QED BY <2>1, <2>2 DEF LandedUnwinds
<1>5. CASE RollbackDataTransaction(r)
  <2>1. status[r] # "success" /\ status' = status /\ pc'[r] = "failing"
    BY <1>5 DEF RollbackDataTransaction, LandedUnwinds
  <2> QED BY <2>1 DEF LandedUnwinds
<1>6. CASE CommitAnswerLost(r)
  BY <1>6 DEF CommitAnswerLost, LandedUnwinds
<1>7. CASE InterruptAfterCommit(r)
  BY <1>7 DEF InterruptAfterCommit
<1>8. CASE LoseDataConnection(r)
  BY <1>8 DEF LoseDataConnection, LandedUnwinds
<1> QED BY <1>1, <1>2, <1>3, <1>4, <1>5, <1>6, <1>7, <1>8 DEF StepOf, CallStep, OwnStep

LEMMA OwnersStep ==
  ASSUME "interrupt" \notin Faults, IInv, \A r \in Runs : LandedUnwinds(r),
         CheckpointOwnerSucceeded, [Next]_vars
  PROVE  CheckpointOwnerSucceeded' /\ \A r \in Runs : LandedUnwinds(r)'
<1>1. \A r \in Runs : LandedUnwinds(r)'
  <2>1. CASE UNCHANGED vars \/ AllEnded
    BY <2>1 DEF LandedUnwinds, AllEnded, vars
  <2>2. ASSUME NEW r \in Runs, StepOf(r), NEW q \in Runs
        PROVE  LandedUnwinds(q)'
    <3>1. CASE q = r
      BY <2>2, <3>1, LandedUnwindsStep
    <3>2. CASE q # r
      BY <2>2, <3>2, OthersStay DEF LandedUnwinds, IInv
    <3> QED BY <3>1, <3>2
  <2> QED BY <2>1, <2>2 DEF Next, StepOf
<1>2. CheckpointOwnerSucceeded'
  <2> USE DEF CheckpointOwnerSucceeded, IInv, TypeOK, dbVars
  <2>1. CASE UNCHANGED dbVars
    BY <2>1
  <2>2. ASSUME NEW r \in Runs, Begins(r) PROVE CheckpointOwnerSucceeded'
    <3>1. status[r] = "none" /\ checkpoint' = checkpoint /\ status' = [status EXCEPT ![r] = "running"]
      BY <2>2 DEF Begins, InsertsAudit, CallsAudited
    <3> QED BY <3>1
  <2>3. ASSUME NEW r \in Runs, FailIngestionRun(r) PROVE CheckpointOwnerSucceeded'
    <3>1. status[r] # "success" /\ checkpoint' = checkpoint /\ status' = [status EXCEPT ![r] = "failed"]
      BY <2>3 DEF FailIngestionRun, Goto, LandedUnwinds
    <3> QED BY <3>1
  <2>4. ASSUME NEW r \in Runs, Commit(r) PROVE CheckpointOwnerSucceeded'
    <3>1. status' = [status EXCEPT ![r] = "success"]
      BY <2>4, CommitEffect
    <3>2. checkpoint' = checkpoint
          \/ checkpoint' = [checkpoint EXCEPT ![request[r].stream] =
                              [timestamp |-> request[r].last, run |-> r]]
      BY <2>4 DEF Commit, ServerCommits
    <3>3. ASSUME NEW s \in Streams, checkpoint'[s] # Absent
          PROVE  status'[checkpoint'[s].run] = "success"
      <4>1. CASE checkpoint'[s] = checkpoint[s]
        <5>1. checkpoint[s].run \in Runs /\ status[checkpoint[s].run] = "success"
          BY <3>3, <4>1
        <5> QED BY <3>1, <4>1, <5>1
      <4>2. CASE checkpoint'[s] # checkpoint[s]
        <5>1. checkpoint'[s].run = r
          BY <3>2, <4>2
        <5> QED BY <3>1, <5>1
      <4> QED BY <4>1, <4>2
    <3> QED BY <3>3
  <2>5. ASSUME NEW r \in Runs, FetchAndBegin(r) \/ StoreRecord(r) \/ CompleteIngestionRun(r)
                               \/ AdvanceCheckpoint(r)
        PROVE  UNCHANGED <<status, checkpoint>>
    BY <2>5 DEF FetchAndBegin, StoreRecord, CompleteIngestionRun, AdvanceCheckpoint
  <2>6. CASE UNCHANGED <<status, checkpoint>>
    BY <2>6
  <2> QED BY <2>1, <2>2, <2>3, <2>4, <2>5, <2>6, StepKinds DEF Quiet
<1> QED BY <1>1, <1>2

\* Unless a Ctrl-C may fall into a call, a checkpoint does name a run audited as a success
\* (docs/database.md), lost connections, lost commit answers and crashes included.
\* (fail_ingestion_run)
THEOREM OwnersSucceedUninterrupted ==
  ASSUME "interrupt" \notin Faults
  PROVE  Spec => []CheckpointOwnerSucceeded
<1> DEFINE Inv == CheckpointOwnerSucceeded /\ \A r \in Runs : LandedUnwinds(r)
<1>1. Init => Inv
  BY DEF Init, CheckpointOwnerSucceeded, LandedUnwinds
<1>2. IInv /\ Inv /\ [Next]_vars => Inv'
  BY OwnersStep
<1>3. Inv => CheckpointOwnerSucceeded
  OBVIOUS
<1> HIDE DEF Inv
<1> QED BY <1>1, <1>2, <1>3, Inductive, PTL DEF Spec

\* Where no connection can be lost and no Ctrl-C falls outside the try, a call that raises
\* has audited its failure.
RaisesAudited(r) == dataConn[r] = "up" /\ (pc[r] = "raised" => status[r] # "running")

LEMMA RaisesAuditedStep ==
  ASSUME Faults \cap {"data connection", "audit connection", "interrupt outside"} = {},
         IInv, NEW r \in Runs, RaisesAudited(r), StepOf(r)
  PROVE  RaisesAudited(r)'
<1> USE DEF IInv, TypeOK, Goto, dbVars, callVars
<1>1. CASE CommitAnswerLost(r) \/ LoseDataConnection(r) \/ AuditUpdateFails(r) \/ RollbackRaises(r)
           \/ BeginRunFails(r) \/ InterruptOutsideTry(r)
  BY <1>1 DEF CommitAnswerLost, LoseDataConnection, AuditUpdateFails, RollbackRaises, RaisesAudited,
              BeginRunFails, InterruptOutsideTry
<1>2. CASE FailIngestionRun(r)
  BY <1>2 DEF FailIngestionRun, RaisesAudited
<1>3. CASE StoreRecord(r)
  BY <1>3 DEF StoreRecord, RaisesAudited
<1>4. CASE StartRun(r) \/ FetchAndBegin(r) \/ RejectBatch(r) \/ CompleteIngestionRun(r)
           \/ AdvanceCheckpoint(r) \/ CommitDataTransaction(r) \/ ReturnResult(r)
           \/ ConnectionError(r) \/ RollbackDataTransaction(r) \/ SourceFails(r)
           \/ StatementFails(r) \/ DeadlockDetected(r) \/ InterruptAfterCommit(r) \/ Crash(r)
  <2>1. pc'[r] # "raised" /\ dataConn' = dataConn
    BY <1>4 DEF StartRun, FetchAndBegin, RejectBatch, CompleteIngestionRun, AdvanceCheckpoint,
                CommitDataTransaction, ReturnResult, ConnectionError, RollbackDataTransaction,
                SourceFails, StatementFails, DeadlockDetected, InterruptAfterCommit, Crash
  <2> QED BY <2>1 DEF RaisesAudited
<1> QED BY <1>1, <1>2, <1>3, <1>4 DEF StepOf, CallStep, OwnStep

\* Where the process keeps its two connections and no Ctrl-C falls between the audit INSERT
\* and the try or into a handler, a call that raises is audited as failed, or had landed
\* before: its row does not stay running, deadlocks and interrupts within the try included.
\* (_fail, rollback_data_transaction)
THEOREM RaisedAreAudited ==
  ASSUME Faults \cap {"data connection", "audit connection", "interrupt outside"} = {}
  PROVE  Spec => []RaisedCallsAreAudited
<1> DEFINE Inv == \A r \in Runs : RaisesAudited(r)
<1>1. Init => Inv
  BY DEF Init, RaisesAudited
<1>2. IInv /\ Inv /\ [Next]_vars => Inv'
  <2> SUFFICES ASSUME IInv, Inv, [Next]_vars PROVE Inv'
    OBVIOUS
  <2>1. CASE UNCHANGED vars \/ AllEnded
    BY <2>1 DEF RaisesAudited, AllEnded, vars
  <2>2. ASSUME NEW r \in Runs, StepOf(r), NEW q \in Runs
        PROVE  RaisesAudited(q)'
    <3>1. CASE q = r
      BY <2>2, <3>1, RaisesAuditedStep
    <3>2. CASE q # r
      BY <2>2, <3>2, OthersStay DEF RaisesAudited, IInv
    <3> QED BY <3>1, <3>2
  <2> QED BY <2>1, <2>2 DEF Next, StepOf
<1>3. Inv => RaisedCallsAreAudited
  BY DEF RaisesAudited, RaisedCallsAreAudited
<1> HIDE DEF Inv
<1> QED BY <1>1, <1>2, <1>3, Inductive, PTL DEF Spec

-------------------------------------------------------------------------------
(* Termination, but for the fairness. *)

Open(r) == pc[r] \notin Ended \cup {"idle"}

\* The records whose upsert is still to come.
Rest(r) == Len(batch[r]) - tx[r].stored

\* The steps an open call has before it at most: its upserts, what its place takes, and
\* the loss of its data connection.
Place(r) ==
  CASE pc[r] = "fetching" -> 10 + MaxRecords
    [] pc[r] = "storing" -> 7 + IF dataConn[r] = "up" THEN Rest(r) ELSE 0
    [] pc[r] = "checkpointing" -> 6 [] pc[r] = "committing" -> 5 [] pc[r] = "committed" -> 4
    [] pc[r] = "unwinding" -> 3 [] pc[r] = "failing" -> 2 [] OTHER -> 0

Left(r) == IF Open(r) THEN Place(r) + IF dataConn[r] = "up" THEN 1 ELSE 0 ELSE 0

LEMMA RestBounded ==
  ASSUME IInv, NEW r \in Runs
  PROVE  Rest(r) \in 0..MaxRecords /\ MaxRecords \in Nat
<1>1. tx[r].stored \in Nat /\ batch[r] \in Seq(Record)
  BY DEF IInv, TypeOK
<1>2. Len(batch[r]) \in Nat
  BY <1>1, LenProperties
<1>3. tx[r].stored <= Len(batch[r]) /\ Len(batch[r]) <= MaxRecords
  BY DEF IInv, TransactionsInOrder, TransactionInOrder, BatchesAccepted
<1> QED BY <1>1, <1>2, <1>3, MaxRecordsAssumption DEF Rest

LEMMA RestBoundedNext ==
  ASSUME IInv', NEW r \in Runs
  PROVE  Rest(r)' \in 0..MaxRecords /\ MaxRecords \in Nat
<1>1. tx'[r].stored \in Nat /\ batch'[r] \in Seq(Record)
  BY DEF IInv, TypeOK
<1>2. Len(batch'[r]) \in Nat
  BY <1>1, LenProperties
<1>3. tx'[r].stored <= Len(batch'[r]) /\ Len(batch'[r]) <= MaxRecords
  BY DEF IInv, TransactionsInOrder, TransactionInOrder, BatchesAccepted
<1> QED BY <1>1, <1>2, <1>3, MaxRecordsAssumption DEF Rest

LEMMA LeftBounded ==
  ASSUME IInv, NEW r \in Runs
  PROVE  /\ Left(r) \in 0..(MaxRecords + 11)
         /\ Open(r) => Left(r) >= 2 /\ Place(r) \in Nat
<1>0. Rest(r) \in 0..MaxRecords /\ MaxRecords \in Nat
  BY RestBounded
<1>1. CASE ~Open(r)
  <2>1. Left(r) = 0 BY <1>1 DEF Left
  <2> QED BY <1>0, <1>1, <2>1
<1>2. CASE Open(r)
  <2> DEFINE k == Rest(r)
             bit == IF dataConn[r] = "up" THEN 1 ELSE 0
  <2>1. k \in 0..MaxRecords
    BY <1>0
  <2>2. pc[r] \in PCs
    BY DEF IInv, TypeOK
  <2>3. bit \in 0..1 /\ Left(r) = Place(r) + bit
    BY <1>2 DEF Left
  <2> HIDE DEF k, bit
  <2>4. Place(r) \in {2, 3, 4, 5, 6, 7, 7 + k, 10 + MaxRecords}
    BY <1>2, <2>2 DEF Open, Place, k
  <2> QED BY <1>0, <1>2, <2>1, <2>3, <2>4
<1> QED BY <1>1, <1>2

LEMMA OthersWait ==
  ASSUME TypeOK, NEW r \in Runs, StepOf(r), NEW q \in Runs \ {r}
  PROVE  tx'[q] = tx[q] /\ request'[q] = request[q] /\ batch'[q] = batch[q]
<1> USE DEF TypeOK, Goto, dbVars, callVars
<1>1. tx'[q] = tx[q]
  BY DEF StepOf, StartRun, BeginRunFails, InsertsAudit, CallStep, OwnStep, DeadlockDetected,
         InterruptOutsideTry, FetchAndBegin, RejectBatch, StoreRecord, StageRow,
         CompleteIngestionRun, AdvanceCheckpoint, CommitDataTransaction, ReturnResult,
         ConnectionError, RollbackDataTransaction, RollbackRaises, FailIngestionRun, SourceFails,
         StatementFails, AuditUpdateFails, CommitAnswerLost, InterruptAfterCommit,
         LoseDataConnection, Crash, ServerCommits, ServerAborts
<1>2. request'[q] = request[q] /\ batch'[q] = batch[q]
  BY DEF StepOf, StartRun, BeginRunFails, InsertsAudit, CallStep, OwnStep, DeadlockDetected,
         InterruptOutsideTry, FetchAndBegin, RejectBatch, StoreRecord,
         CompleteIngestionRun, AdvanceCheckpoint, CommitDataTransaction, ReturnResult,
         ConnectionError, RollbackDataTransaction, RollbackRaises, FailIngestionRun, SourceFails,
         StatementFails, AuditUpdateFails, CommitAnswerLost, InterruptAfterCommit,
         LoseDataConnection, Crash
<1> QED BY <1>1, <1>2

\* An upsert leaves one record less to store.
LEMMA StoreRunsDown ==
  ASSUME IInv, IInv', NEW r \in Runs, StoreRecord(r)
  PROVE  Left(r)' < Left(r)
<1>1. tx' = [tx EXCEPT ![r].stored = @ + 1]
  BY DEF StoreRecord, StageRow
<1>2. /\ batch' = batch /\ pc' = pc /\ dataConn' = dataConn
      /\ pc[r] = "storing" /\ dataConn[r] = "up"
  BY DEF StoreRecord, callVars
<1>3. tx[r].stored \in Nat /\ tx'[r].stored = tx[r].stored + 1 /\ Len(batch[r]) \in Nat
  BY <1>1, LenProperties DEF IInv, TypeOK
<1>4. Rest(r)' = Rest(r) - 1 /\ Rest(r) \in Int
  BY <1>2, <1>3 DEF Rest
<1>5. Left(r) = 8 + Rest(r) /\ Left(r)' = 8 + Rest(r)'
  <2>1. Rest(r)' \in Int
    BY <1>4
  <2>2. Place(r) = 7 + Rest(r) /\ Place(r)' = 7 + Rest(r)'
    BY <1>2 DEF Place
  <2> QED BY <1>2, <1>4, <2>1, <2>2 DEF Left, Open
<1> QED BY <1>4, <1>5

LEMMA CallRunsDown ==
  ASSUME IInv, IInv', NEW r \in Runs, StepOf(r), pc[r] # "idle"
  PROVE  Left(r)' < Left(r)
<1> USE DEF Goto, dbVars, callVars
<1>0. TypeOK /\ TypeOK'
  BY DEF IInv
<1>1. ASSUME Open(r), pc'[r] \in Ended PROVE Left(r)' < Left(r)
  <2>1. Left(r)' = 0 BY <1>1 DEF Left, Open
  <2> QED BY <1>1, <2>1, LeftBounded
<1>2. CASE ReturnResult(r) \/ RollbackRaises(r) \/ FailIngestionRun(r) \/ AuditUpdateFails(r)
           \/ InterruptOutsideTry(r) \/ Crash(r)
  <2>1. Open(r) /\ pc'[r] \in Ended
    BY <1>0, <1>2 DEF ReturnResult, RollbackRaises, FailIngestionRun, AuditUpdateFails,
                      InterruptOutsideTry, Crash, Open, TypeOK
  <2> QED BY <1>1, <2>1
<1>3. CASE StoreRecord(r)
  BY <1>3, StoreRunsDown
<1>4. CASE FetchAndBegin(r)
  <2>1. pc[r] = "fetching" /\ pc'[r] = "storing" /\ dataConn' = dataConn /\ dataConn[r] = "up"
    BY <1>0, <1>4 DEF FetchAndBegin, TypeOK
  <2>2. Rest(r)' \in 0..MaxRecords /\ MaxRecords \in Nat
    BY RestBoundedNext
  <2>3. Place(r) = 10 + MaxRecords /\ Place(r)' = 7 + Rest(r)'
    BY <2>1 DEF Place
  <2>4. Left(r) = 11 + MaxRecords /\ Left(r)' = 8 + Rest(r)'
    BY <2>1, <2>2, <2>3 DEF Left, Open
  <2> QED BY <2>2, <2>4
<1>5. ASSUME pc[r] \in InTransaction \cup {"fetching", "committed"}, pc'[r] = "unwinding",
             dataConn'[r] = "up" => dataConn[r] = "up"
      PROVE  Left(r)' < Left(r)
  <2> DEFINE bit == IF dataConn[r] = "up" THEN 1 ELSE 0
             bitNext == IF dataConn'[r] = "up" THEN 1 ELSE 0
  <2>1. Rest(r) \in Nat /\ MaxRecords \in Nat
    BY RestBounded
  <2>2. bitNext \in 0..1 /\ bit \in 0..1 /\ bitNext <= bit
    BY <1>5
  <2>3. Left(r)' = 3 + bitNext
    BY <1>5 DEF Left, Open, Place
  <2>4. Left(r) = Place(r) + bit
    BY <1>5 DEF Left, Open
  <2> HIDE DEF bit, bitNext
  <2>5. Place(r) \in Nat /\ Place(r) >= 4
    BY <1>5, <2>1 DEF Place
  <2> QED BY <2>2, <2>3, <2>4, <2>5
<1>6. CASE RejectBatch(r) \/ SourceFails(r) \/ StatementFails(r) \/ ConnectionError(r)
           \/ DeadlockDetected(r) \/ CommitAnswerLost(r) \/ InterruptAfterCommit(r)
  <2>1. /\ pc[r] \in InTransaction \cup {"fetching", "committed"} /\ pc'[r] = "unwinding"
        /\ dataConn'[r] = "up" => dataConn[r] = "up"
    BY <1>0, <1>6, DeadlockInTransaction
    DEF RejectBatch, SourceFails, StatementFails, ConnectionError, DeadlockDetected,
        CommitAnswerLost, InterruptAfterCommit, TypeOK
  <2> QED BY <1>5, <2>1
<1>7. CASE CompleteIngestionRun(r)
  <2>1. /\ pc[r] = "storing" /\ pc'[r] \in {"checkpointing", "committing"}
        /\ dataConn' = dataConn /\ dataConn[r] = "up"
    BY <1>0, <1>7 DEF CompleteIngestionRun, TypeOK
  <2>2. Rest(r) \in Nat
    BY RestBounded
  <2>3. Place(r) = 7 + Rest(r) /\ Place(r)' \in {5, 6}
    BY <2>1 DEF Place
  <2>4. Left(r) = 8 + Rest(r) /\ Left(r)' \in {6, 7}
    BY <2>1, <2>2, <2>3 DEF Left, Open
  <2> QED BY <2>2, <2>4
<1>8. CASE AdvanceCheckpoint(r) \/ CommitDataTransaction(r) \/ RollbackDataTransaction(r)
  <2>1. /\ dataConn' = dataConn
        /\ \/ pc[r] = "checkpointing" /\ pc'[r] = "committing"
           \/ pc[r] = "committing" /\ pc'[r] = "committed"
           \/ pc[r] = "unwinding" /\ pc'[r] = "failing"
    BY <1>0, <1>8 DEF AdvanceCheckpoint, CommitDataTransaction, RollbackDataTransaction, TypeOK
  <2> QED BY <2>1 DEF Left, Open, Place
<1>9. CASE LoseDataConnection(r)
  <2>1. Open(r) /\ pc' = pc /\ dataConn[r] = "up" /\ dataConn'[r] = "lost"
    BY <1>0, <1>9 DEF LoseDataConnection, Open, TypeOK
  <2>2. Rest(r) \in Nat /\ MaxRecords \in Nat
    BY RestBounded
  <2>3. Place(r) \in Nat /\ Left(r) = Place(r) + 1
    BY <2>1, LeftBounded DEF Left
  <2>4. Left(r)' = Place(r)' + 0
    BY <2>1 DEF Left, Open
  <2>6. Place(r)' <= Place(r) /\ Place(r)' \in Nat
    BY <2>1, <2>2 DEF Place
  <2> QED BY <2>3, <2>4, <2>6
<1>10. ~StartRun(r) /\ ~BeginRunFails(r)
  BY DEF StartRun, BeginRunFails
<1> QED BY <1>2, <1>3, <1>4, <1>6, <1>7, <1>8, <1>9, <1>10 DEF StepOf, CallStep, OwnStep

\* Whatever fails, is lost or waits, a call that has started takes at most eleven steps
\* and one for every record the source may answer: each of its own steps leaves less of a
\* number that no other call's step changes.  Nothing is tried again inside a call.
\* (_ingest_historical)
THEOREM IngestionCallsRunDown ==
  Spec => /\ [](\A r \in Runs : Left(r) \in 0..(MaxRecords + 11))
          /\ [][\A r \in Runs : pc[r] # "idle" =>
                  \/ Left(r)' < Left(r)
                  \/ Left(r)' = Left(r)
                     /\ pc'[r] = pc[r] /\ tx'[r] = tx[r] /\ dataConn'[r] = dataConn[r]]_vars
<1>1. IInv => \A r \in Runs : Left(r) \in 0..(MaxRecords + 11)
  BY LeftBounded
<1>2. IInv /\ IInv' /\ [Next]_vars =>
        [\A r \in Runs : pc[r] # "idle" =>
           \/ Left(r)' < Left(r)
           \/ Left(r)' = Left(r)
              /\ pc'[r] = pc[r] /\ tx'[r] = tx[r] /\ dataConn'[r] = dataConn[r]]_vars
  <2> SUFFICES ASSUME IInv, IInv', Next, ~UNCHANGED vars, NEW q \in Runs, pc[q] # "idle"
               PROVE  \/ Left(q)' < Left(q)
                      \/ Left(q)' = Left(q)
                         /\ pc'[q] = pc[q] /\ tx'[q] = tx[q] /\ dataConn'[q] = dataConn[q]
    OBVIOUS
  <2>1. PICK r \in Runs : StepOf(r)
    BY DEF Next, StepOf, AllEnded
  <2>2. CASE q = r
    BY <2>1, <2>2, CallRunsDown
  <2>3. CASE q # r
    <3>1. /\ pc'[q] = pc[q] /\ tx'[q] = tx[q] /\ dataConn'[q] = dataConn[q]
          /\ batch'[q] = batch[q]
      BY <2>1, <2>3, OthersStay, OthersWait DEF IInv
    <3>2. Rest(q)' = Rest(q)
      BY <3>1 DEF Rest
    <3>3. Place(q)' = Place(q)
      BY <3>1, <3>2 DEF Place
    <3>4. Left(q)' = Left(q)
      BY <3>1, <3>3 DEF Left, Open
    <3> QED BY <3>1, <3>4
  <2> QED BY <2>2, <2>3
<1> QED BY <1>1, <1>2, Inductive, PTL DEF Spec

-------------------------------------------------------------------------------
(* Refinement. *)

\* A commit is the landing of everything the call brought.
LEMMA CommitLands ==
  ASSUME IInv, NEW r \in Runs, Commit(r)
  PROVE  Atomic!Land(r)
<1> DEFINE q == request[r]
           answered == Brought(r)
           rows == [k \in Keys |-> IF k \in answered THEN OwnRow(r) ELSE table[q.stream][k]]
<1>1. /\ q \in Request /\ status[r] = "running" /\ status' = [status EXCEPT ![r] = "success"]
      /\ RowsLand(r)
  BY CommitEffect
<1>2. answered \subseteq {k \in Keys : TimeOf[k] \in q.first..q.last}
  BY BroughtKeys DEF IInv, BatchesAccepted, Brought
<1>3. table' = [table EXCEPT ![q.stream] = rows]
  <2>1. /\ table \in [Streams -> [Keys -> Row \cup {Absent}]]
        /\ table' \in [Streams -> [Keys -> Row \cup {Absent}]]
    BY <1>1, CommitType DEF IInv, TypeOK, Commit
  <2>2. \A k \in Keys : table'[q.stream][k] = rows[k]
    BY <1>1, <1>2 DEF RowsLand
  <2>3. table'[q.stream] = rows
    BY <1>1, <2>1, <2>2
  <2>4. \A s \in Streams \ {q.stream} : \A k \in Keys : table'[s][k] = table[s][k]
    BY <1>1 DEF RowsLand
  <2>5. \A s \in Streams \ {q.stream} : table'[s] = table[s]
    BY <2>1, <2>4
  <2> HIDE DEF rows
  <2> QED BY <1>1, <2>1, <2>3, <2>5
<1>4. checkpoint' = IF q.endpoint # "token-information" /\ Atomic!Newer(checkpoint[q.stream], q.last)
                    THEN [checkpoint EXCEPT ![q.stream] = [timestamp |-> q.last, run |-> r]]
                    ELSE checkpoint
  <2>1. TransactionInOrder(r) /\ pc[r] = "committing" /\ dataConn[r] = "up"
    BY DEF IInv, TransactionsInOrder, Commit
  <2>2. tx[r].checkpoint # "none" <=> IsHistorical(q)
    BY <2>1 DEF TransactionInOrder
  <2>3. tx[r].checkpoint = "advanced" <=>
          IsHistorical(q) /\ CheckpointMayMove(checkpoint[q.stream], q.last)
    BY <2>2 DEF IInv, DecisionsCurrent
  <2> QED BY <2>3 DEF Commit, ServerCommits, IsHistorical, CheckpointMayMove, Atomic!Newer
<1>5. UNCHANGED request
  BY DEF Commit, callVars
<1> QED BY <1>1, <1>2, <1>3, <1>4, <1>5 DEF Atomic!Land, OwnRow

\* What readers of the database see of the calls is one whole landing after another:
\* every step is a begin, a landing or a failure of AtomicIngestion, or is not seen.
\* (The two-connection design of PostgresRepository.)
THEOREM IngestionIsAtomic == Spec => ImplementsAtomic
<1>1. Init => Atomic!Init
  BY DEF Init, Atomic!Init
<1>2. ASSUME IInv, [Next]_vars
      PROVE  [Atomic!Next]_(Atomic!vars)
  <2>1. CASE Quiet
    BY <2>1 DEF Quiet, dbVars, callVars, Atomic!vars
  <2>2. ASSUME NEW r \in Runs, Begins(r) PROVE Atomic!Begin(r)
    BY <1>2, <2>2 DEF Begins, InsertsAudit, IInv, CallsAudited, Atomic!Begin
  <2>3. ASSUME NEW r \in Runs,
               FetchAndBegin(r) \/ StoreRecord(r) \/ CompleteIngestionRun(r) \/ AdvanceCheckpoint(r)
        PROVE  UNCHANGED Atomic!vars
    <3>1. UNCHANGED <<status, request, checkpoint>>
      BY <2>3 DEF FetchAndBegin, StoreRecord, CompleteIngestionRun, AdvanceCheckpoint, dbVars, callVars
    <3>2. UNCHANGED table
      BY <2>3 DEF FetchAndBegin, StoreRecord, StageRow, CompleteIngestionRun, AdvanceCheckpoint, dbVars
    <3> QED BY <3>1, <3>2 DEF Atomic!vars
  <2>4. ASSUME NEW r \in Runs, Commit(r) PROVE Atomic!Land(r)
    BY <1>2, <2>4, CommitLands
  <2>5. ASSUME NEW r \in Runs, FailIngestionRun(r)
        PROVE  Atomic!Fail(r) \/ UNCHANGED Atomic!vars
    <3>1. /\ status' = [status EXCEPT ![r] = "failed"] /\ UNCHANGED <<request, table, checkpoint>>
          /\ pc[r] = "failing"
      BY <2>5 DEF FailIngestionRun, Goto, callVars
    <3>2. status \in [Runs -> {"none", "running", "success", "failed"}] /\ status[r] # "none"
      BY <1>2, <3>1 DEF IInv, TypeOK, CallsAudited
    <3>3. CASE status[r] = "failed"
      <4>1. status' = status BY <3>1, <3>2, <3>3
      <4> QED BY <3>1, <4>1 DEF Atomic!vars
    <3>4. CASE status[r] # "failed"
      BY <3>1, <3>2, <3>4 DEF Atomic!Fail
    <3> QED BY <3>3, <3>4
  <2>6. TypeOK
    BY <1>2 DEF IInv
  <2> QED BY <1>2, <2>1, <2>2, <2>3, <2>4, <2>5, <2>6, StepKinds DEF Atomic!Next
<1>3. IInv /\ [Next]_vars => [Atomic!Next]_(Atomic!vars)
  BY <1>2
<1> QED BY <1>1, <1>3, Inductive, PTL DEF Spec, ImplementsAtomic, Atomic!Spec

===============================================================================
