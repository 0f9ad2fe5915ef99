------------------------ MODULE FlowIdentityMigration ------------------------
(***************************************************************************)
(* apply_flow_identity_migration on nansen.flows beside the ingestion that *)
(* writes the same table.  Rows were keyed by the start of their bucket;   *)
(* the migration keys them by start and end and adds the constraint that   *)
(* a bucket has one row.  Ingestion already uses the new keys, before and  *)
(* after.  Chain, token and label are the same for all rows here.          *)
(***************************************************************************)
EXTENDS Integers, FiniteSets

CONSTANTS
  Migrations,  \* the runs of apply_flow_identity_migration
  Calls,       \* the ingestion transactions
  Buckets,     \* what Nansen may answer: records of a date and an end after it
  OldRows,     \* rows of the old key, some without an end or with a wrong one
  Faults,      \* what may go wrong, a subset of FaultKinds
  Absent       \* NULL

FaultKinds == {"error",        \* a statement raises, or the process is killed
               "lost_answer"}  \* the connection dies on a COMMIT that succeeded

\* A key stands for a SHA-256 of these fields, or for a temporary name.
Key(kind, date, end) == [kind |-> kind, date |-> date, end |-> end]

Row(key, date, end, writer) == [key |-> key, date |-> date, end |-> end, writer |-> writer]

Before == "before"

ASSUME BucketsAssumption ==
  Buckets \subseteq [date: Int, end: Int] /\ \A b \in Buckets : b.end > b.date
ASSUME OldRowsAssumption ==
  \A r \in OldRows : r.date \in Int /\ r.end \in Int \cup {Absent}
                     /\ r = Row(Key("start", r.date, Absent), r.date, r.end, Before)
ASSUME ActorsAssumption == Before \notin Calls /\ Absent \notin Int
ASSUME FaultsAssumption == Faults \subseteq FaultKinds

VARIABLES
  flows,        \* the committed rows
  constrained,  \* whether the constraints of 003 are there
  pc,           \* where each migration stands
  work,         \* the rows as its transaction has them
  altered,      \* whether that has added the constraints
  call,         \* where each ingestion transaction stands
  pending       \* the buckets it has upserted

migration == <<pc, work, altered>>
ingestion == <<call, pending>>
vars == <<flows, constrained, migration, ingestion>>

Locked == {"locked", "planned", "altered", "temporary", "renamed", "verified"}
Ended == {"done", "failed"}
PCs == {"idle", "waiting"} \cup Locked \cup Ended

Identity(r) == [date |-> r.date, end |-> r.end]

KeyOfStart(bucket) == Key("start", bucket.date, Absent)

\* flow_identity_key
NewKey(bucket) == Key("bucket", bucket.date, bucket.end)

\* A name that no row has; that of a start has no end, so different keys get different ones.
Temporary(key) == Key("temporary", key.date, key.end)

Starts == {r.date : r \in OldRows} \cup {b.date : b \in Buckets}
Ends == {r.end : r \in OldRows} \cup {b.end : b \in Buckets} \cup {Absent}

\* What other sessions can ever find in the table.
StoredRows == [key: [kind: {"start", "bucket"}, date: Starts, end: Ends],
               date: Starts, end: Ends, writer: Calls \cup {Before}]

TypeOK ==
  /\ flows \subseteq StoredRows
  /\ constrained \in BOOLEAN
  /\ pc \in [Migrations -> PCs]
  /\ \A m \in Migrations : work[m] # {} => pc[m] \in Locked
  /\ altered \in [Migrations -> BOOLEAN]
  /\ call \in [Calls -> {"open", "committed", "aborted"}]
  /\ pending \in [Calls -> SUBSET Buckets]

KeysDiffer(rows) == \A r, s \in rows : r # s => r.key # s.key

IdentitiesDiffer(rows) == \A r, s \in rows : r # s => Identity(r) # Identity(s)

\* A table of the old schema, or an empty one of the present schema.
Init ==
  /\ constrained \in BOOLEAN
  /\ flows \in {rows \in SUBSET OldRows : KeysDiffer(rows) /\ (constrained => rows = {})}
  /\ pc = [m \in Migrations |-> "idle"]
  /\ work = [m \in Migrations |-> {}]
  /\ altered = [m \in Migrations |-> FALSE]
  /\ call = [c \in Calls |-> "open"]
  /\ pending = [c \in Calls |-> {}]

-------------------------------------------------------------------------------
(* Ingestion: rows are upserted under their new keys in one transaction. *)

HoldsRows(c) == pending[c] # {}

\* Whoever comes later queues behind a migration that waits for the table or has it.
TableFree(c) == HoldsRows(c) \/ \A m \in Migrations : pc[m] \notin {"waiting"} \cup Locked

Upsert(c) ==
  /\ call[c] = "open" /\ TableFree(c)
  /\ \E b \in Buckets \ UNION {pending[d] : d \in Calls} :
       pending' = [pending EXCEPT ![c] = @ \cup {b}]
  /\ UNCHANGED <<flows, constrained, migration, call>>

\* ON CONFLICT (flow_key) DO UPDATE, or a row of its own.
Upserted(c) ==
  {r \in flows : \A b \in pending[c] : r.key # NewKey(b)}
    \cup {Row(NewKey(b), b.date, b.end, c) : b \in pending[c]}

EndCall(c, outcome) ==
  /\ call[c] = "open" /\ HoldsRows(c)
  /\ call' = [call EXCEPT ![c] = outcome]
  /\ pending' = [pending EXCEPT ![c] = {}]
  /\ UNCHANGED <<constrained, migration>>

CommitCall(c) == EndCall(c, "committed") /\ flows' = Upserted(c)

AbortCall(c) == EndCall(c, "aborted") /\ UNCHANGED flows

-------------------------------------------------------------------------------
(* The migration. *)

Goto(m, from, to) == pc[m] = from /\ pc' = [pc EXCEPT ![m] = to]

Forget(m) == work' = [work EXCEPT ![m] = {}] /\ altered' = [altered EXCEPT ![m] = FALSE]

PublishHalf(m) == flows' = work[m] /\ UNCHANGED constrained

\* The server drops what the transaction did.
Discard(m) == UNCHANGED <<flows, constrained>>

\* rollback and raise
RollBack(m) ==
  /\ pc' = [pc EXCEPT ![m] = "failed"]
  /\ Discard(m)
  /\ Forget(m)
  /\ UNCHANGED ingestion

RequestLock(m) ==
  /\ Goto(m, "idle", "waiting")
  /\ UNCHANGED <<flows, constrained, work, altered, ingestion>>

CanLock(m) ==
  /\ \A c \in Calls : ~HoldsRows(c)
  /\ \A n \in Migrations : pc[n] \notin Locked

\* LOCK TABLE ... IN ACCESS EXCLUSIVE MODE; what follows sees all that committed before.
LockTable(m) ==
  /\ Goto(m, "waiting", "locked")
  /\ CanLock(m)
  /\ work' = [work EXCEPT ![m] = flows]
  /\ UNCHANGED <<flows, constrained, altered, ingestion>>

WaitForever(m) == FALSE

\* lock_timeout
LockTimeout(m) == pc[m] = "waiting" /\ ~CanLock(m) /\ RollBack(m)

\* _check_preconditions
PreconditionsHold(rows) ==
  /\ \A r \in rows : r.end # Absent /\ r.end > r.date
  /\ IdentitiesDiffer(rows)

\* ... and then plan_flow_key_migration
Acceptable(rows) ==
  /\ PreconditionsHold(rows)
  /\ KeysDiffer(rows)
  /\ \A r, s \in rows : r # s => NewKey(r) # NewKey(s) /\ NewKey(r) # s.key

PlanKeys(m) ==
  /\ Goto(m, "locked", "planned")
  /\ Acceptable(work[m])
  /\ UNCHANGED <<flows, constrained, work, altered, ingestion>>

RefusePlan(m) == pc[m] = "locked" /\ ~Acceptable(work[m]) /\ RollBack(m)

AlterCommits(m) == altered' = [altered EXCEPT ![m] = TRUE] /\ constrained' = TRUE

\* DDL is part of the transaction.
Alter(m) == altered' = [altered EXCEPT ![m] = TRUE] /\ UNCHANGED constrained

\* 003_flow_bucket_identity.sql
AddConstraints(m) ==
  /\ Goto(m, "planned", "altered")
  /\ ~constrained
  /\ Alter(m)
  /\ UNCHANGED <<flows, work, ingestion>>

\* The constraints exist: the table was created with them, or 003 ran before.
ConstraintsExist(m) == pc[m] = "planned" /\ constrained /\ RollBack(m)

Rekeyed(r, key) == Row(key, r.date, r.end, r.writer)

\* The first loop of UPDATEs; behind the lock nobody sees a row in between.
RenameToTemporary(m) ==
  /\ Goto(m, "altered", "temporary")
  /\ work' = [work EXCEPT ![m] = {Rekeyed(r, Temporary(r.key)) : r \in @}]
  /\ UNCHANGED <<flows, constrained, altered, ingestion>>

\* The second loop.
RenameToNew(m) ==
  /\ Goto(m, "temporary", "renamed")
  /\ work' = [work EXCEPT ![m] = {Rekeyed(r, NewKey(r)) : r \in @}]
  /\ UNCHANGED <<flows, constrained, altered, ingestion>>

\* The count, the keys, the intervals and the identities are looked at once more.  A
\* mismatch would raise; that none occurs is part of EveryMigrationEnds.
Verify(m) ==
  /\ Goto(m, "renamed", "verified")
  /\ Cardinality(work[m]) = Cardinality(flows)
  /\ Acceptable(work[m]) /\ \A r \in work[m] : r.key = NewKey(r)
  /\ UNCHANGED <<flows, constrained, work, altered, ingestion>>

ServerCommits(m) == flows' = work[m] /\ constrained' = altered[m]

Commit(m) ==
  /\ Goto(m, "verified", "done")
  /\ ServerCommits(m)
  /\ Forget(m)
  /\ UNCHANGED ingestion

CommitAnswerLost(m) ==
  /\ "lost_answer" \in Faults
  /\ Goto(m, "verified", "failed")
  /\ ServerCommits(m)
  /\ Forget(m)
  /\ UNCHANGED ingestion

Fails(m) == "error" \in Faults /\ pc[m] \notin {"idle"} \cup Ended /\ RollBack(m)

Step(m) ==
  \/ LockTable(m) \/ LockTimeout(m) \/ PlanKeys(m) \/ RefusePlan(m)
  \/ AddConstraints(m) \/ ConstraintsExist(m)
  \/ RenameToTemporary(m) \/ RenameToNew(m) \/ Verify(m) \/ Commit(m)

Next ==
  \/ \E c \in Calls : Upsert(c) \/ CommitCall(c) \/ AbortCall(c)
  \/ \E m \in Migrations : RequestLock(m) \/ Step(m) \/ Fails(m) \/ CommitAnswerLost(m)

Spec == Init /\ [][Next]_vars

\* A migration goes on as long as it can.  An ingestion transaction may stay open.
FairSpec == Spec /\ \A m \in Migrations : WF_vars(Step(m))

-------------------------------------------------------------------------------
(* What must hold. *)

\* The keys that others see are those from before, or all of them new; with the
\* constraints a bucket has one row, under the key ingestion looks for, for good.
\* (apply_flow_identity_migration, FLOW_UPSERT_SQL)
AllKeysOrNone ==
  /\ KeysDiffer(flows)
  /\ constrained => /\ IdentitiesDiffer(flows)
                    /\ \A r \in flows : r.key = NewKey(r)
  /\ ~constrained => \A r \in flows : r.writer = Before => r.key = KeyOfStart(r)

\* No step takes a row away: each is still there, under its key or as the one row of
\* its bucket, with its dates, and its values unless an ingestion of the very same
\* bucket renewed them.  (apply_flow_identity_migration, FLOW_UPSERT_SQL)
NoRowLost ==
  [][\A r \in flows : \E s \in flows' :
       /\ Identity(s) = Identity(r)
       /\ s.key = r.key \/ IdentitiesDiffer(flows)
       /\ s.writer = r.writer \/ \E c \in Calls : s.writer = c /\ Identity(r) \in pending[c]]_flows

\* Every migration that was started ends, although ingestion may never let go of the
\* table.  (lock_timeout)
EveryMigrationEnds == \A m \in Migrations : pc[m] = "waiting" ~> pc[m] \in Ended

===============================================================================
