--------------------- MODULE FlowIdentityMigration_proofs ---------------------
(***************************************************************************)
(* The theorems of FlowIdentityMigration, for any rows, buckets, ingestion *)
(* transactions and runs of the migration.  Whoever has the lock is alone, *)
(* so what it works on is a re-keying of the committed rows as they are.   *)
(***************************************************************************)
EXTENDS FlowIdentityMigration, FiniteSetTheorems, TLAPS

\* The rows of a table under the keys of their buckets, or under temporary ones.
UnderNewKeys(rows) == {Row(NewKey(r), r.date, r.end, r.writer) : r \in rows}

UnderTemporaryKeys(rows) == {Row(Temporary(r.key), r.date, r.end, r.writer) : r \in rows}

Types ==
  /\ flows \subseteq StoredRows
  /\ constrained \in BOOLEAN
  /\ pc \in [Migrations -> PCs]
  /\ work = [m \in Migrations |-> work[m]]
  /\ altered \in [Migrations -> BOOLEAN]
  /\ call \in [Calls -> {"open", "committed", "aborted"}]
  /\ pending \in [Calls -> SUBSET Buckets]

\* One migration at a time has the table, and no ingestion has rows in it then.
LockExcludes ==
  /\ \A m, n \in Migrations : pc[m] \in Locked /\ pc[n] \in Locked => m = n
  /\ (\E m \in Migrations : pc[m] \in Locked) => \A c \in Calls : pending[c] = {}

Acceptably(m) == pc[m] \in Locked \ {"locked"} => Acceptable(flows)

WorkFollowsFlows ==
  \A m \in Migrations :
    /\ pc[m] \notin Locked => work[m] = {}
    /\ pc[m] \in {"locked", "planned", "altered"} => work[m] = flows
    /\ pc[m] = "temporary" => work[m] = UnderTemporaryKeys(flows)
    /\ pc[m] \in {"renamed", "verified"} => work[m] = UnderNewKeys(flows)
    /\ Acceptably(m)
    /\ pc[m] \in {"altered", "temporary", "renamed", "verified"} => altered[m]

\* A row's key is that of its start or of its bucket; ingestion writes only the latter.
KeysOfRows ==
  \A r \in flows :
    /\ r.key = NewKey(r) \/ r.key = KeyOfStart(r)
    /\ r.writer # Before => r.key = NewKey(r)

IInv == Types /\ LockExcludes /\ WorkFollowsFlows /\ KeysOfRows /\ AllKeysOrNone

-------------------------------------------------------------------------------
(* Keys, rows and tables. *)

\* Keys of different fields differ.
LEMMA KeyFields ==
  /\ \A k1, d1, e1, k2, d2, e2 :
       Key(k1, d1, e1) = Key(k2, d2, e2) => k1 = k2 /\ d1 = d2 /\ e1 = e2
  /\ \A x, y : NewKey(x) = NewKey(y) <=> x.date = y.date /\ x.end = y.end
  /\ \A x, y : NewKey(x) # KeyOfStart(y)
<1>1. \A k1, d1, e1, k2, d2, e2 :
        Key(k1, d1, e1) = Key(k2, d2, e2) => k1 = k2 /\ d1 = d2 /\ e1 = e2
  BY DEF Key
<1> QED
  BY <1>1 DEF NewKey, KeyOfStart

\* What a row and its keys are made of.
LEMMA RowFields ==
  \A k, d, e, w :
    /\ Row(k, d, e, w).key = k /\ Row(k, d, e, w).date = d
    /\ Row(k, d, e, w).end = e /\ Row(k, d, e, w).writer = w
    /\ NewKey(Row(k, d, e, w)) = Key("bucket", d, e)
    /\ KeyOfStart(Row(k, d, e, w)) = Key("start", d, Absent)
BY DEF Row, NewKey, KeyOfStart

\* An identity is a date and an end.
LEMMA IdentityFields ==
  \A r, s : Identity(r) = Identity(s) <=> r.date = s.date /\ r.end = s.end
BY DEF Identity

\* A stored row's bucket key is a stored key.
LEMMA StoredUnderNewKey ==
  ASSUME NEW d \in Starts, NEW e \in Ends, NEW w \in Calls \cup {Before}
  PROVE  Row(Key("bucket", d, e), d, e, w) \in StoredRows
BY Zenon DEF Row, Key, StoredRows

\* What the migration publishes is stored, keyed anew and has a row for each bucket.
LEMMA RekeyedTable ==
  ASSUME NEW rows \in SUBSET StoredRows, Acceptable(rows)
  PROVE  LET new == UnderNewKeys(rows) IN
         /\ new \subseteq StoredRows
         /\ KeysDiffer(new) /\ IdentitiesDiffer(new)
         /\ \A r \in new : r.key = NewKey(r)
         /\ \A r \in rows : \E s \in new : Identity(s) = Identity(r) /\ s.writer = r.writer
<1> DEFINE new == UnderNewKeys(rows)
           Moved(r) == Row(Key("bucket", r.date, r.end), r.date, r.end, r.writer)
<1>1. new = {Moved(r) : r \in rows}
  BY DEF UnderNewKeys, NewKey
<1>2. \A r \in rows : r.date \in Starts /\ r.end \in Ends /\ r.writer \in Calls \cup {Before}
  BY DEF StoredRows
<1>3. \A r \in rows : Moved(r) \in StoredRows
  BY <1>2, StoredUnderNewKey, Zenon
<1>4. \A r : /\ Moved(r).key = Key("bucket", r.date, r.end)
             /\ Moved(r).date = r.date /\ Moved(r).end = r.end /\ Moved(r).writer = r.writer
             /\ NewKey(Moved(r)) = Moved(r).key
  BY RowFields
<1>5. \A r \in rows, s \in rows : r # s => Identity(r) # Identity(s)
  BY DEF Acceptable, PreconditionsHold, IdentitiesDiffer
<1> HIDE DEF Moved
<1>6. \A x \in new, y \in new : x # y => x.date # y.date \/ x.end # y.end
  BY <1>1, <1>4, <1>5, IdentityFields
<1>7. KeysDiffer(new) /\ IdentitiesDiffer(new)
  <2>1. \A x \in new : x.key = NewKey(x)
    BY <1>1, <1>4
  <2>2. KeysDiffer(new)
    BY <1>6, <2>1, KeyFields DEF KeysDiffer
  <2> QED
    BY <1>6, <2>2, IdentityFields DEF IdentitiesDiffer
<1>8. \A r \in rows : \E s \in new : Identity(s) = Identity(r) /\ s.writer = r.writer
  BY <1>1, <1>4, IdentityFields
<1> QED
  BY <1>1, <1>3, <1>4, <1>7, <1>8

\* What an ingestion publishes.
LEMMA UpsertedTable ==
  ASSUME NEW c \in Calls, Types, KeysOfRows, AllKeysOrNone
  PROVE  LET new == Upserted(c) IN
         /\ new \subseteq StoredRows
         /\ KeysDiffer(new)
         /\ constrained => IdentitiesDiffer(new)
         /\ \A r \in new : \/ r \in flows
                           \/ r.writer = c /\ r.key = NewKey(r)
         /\ \A r \in flows : \E s \in new :
              /\ Identity(s) = Identity(r) /\ s.key = r.key
              /\ s.writer = r.writer \/ (s.writer = c /\ Identity(r) \in pending[c])
<1> DEFINE new == Upserted(c)
           Added(b) == Row(NewKey(b), b.date, b.end, c)
           kept == {r \in flows : \A b \in pending[c] : r.key # NewKey(b)}
<1>1. new = kept \cup {Added(b) : b \in pending[c]}
  BY DEF Upserted
<1>2. pending[c] \subseteq Buckets
  BY DEF Types
<1>3. \A b : /\ Added(b).key = NewKey(b) /\ Added(b).date = b.date /\ Added(b).end = b.end
             /\ Added(b).writer = c /\ NewKey(Added(b)) = NewKey(b)
  BY RowFields DEF NewKey
<1>4. \A b \in pending[c] : Added(b) \in StoredRows
  <2>1. \A b \in pending[c] : b.date \in Starts /\ b.end \in Ends
    BY <1>2 DEF Starts, Ends
  <2> QED
    BY <2>1, StoredUnderNewKey, Zenon DEF NewKey
<1>5. \A a, b \in pending[c] : NewKey(a) = NewKey(b) => Added(a) = Added(b)
  BY KeyFields
<1> HIDE DEF Added
<1>6. new \subseteq StoredRows
  BY <1>1, <1>4 DEF Types
<1>7. KeysDiffer(new)
  BY <1>1, <1>3, <1>5 DEF KeysDiffer, AllKeysOrNone
<1>8. constrained => IdentitiesDiffer(new)
  <2>1. SUFFICES ASSUME constrained, NEW x \in new, NEW y \in new, Identity(x) = Identity(y)
                 PROVE  x = y
    BY DEF IdentitiesDiffer
  <2>2. \A r \in new : r.key = NewKey(r)
    BY <1>1, <1>3, <2>1 DEF AllKeysOrNone
  <2>3. x.key = y.key
    BY <2>1, <2>2, IdentityFields, KeyFields
  <2> QED
    BY <1>7, <2>3 DEF KeysDiffer
<1>9. \A r \in new : r \in flows \/ (r.writer = c /\ r.key = NewKey(r))
  BY <1>1, <1>3
<1>10. ASSUME NEW r \in flows
       PROVE  \E s \in new : /\ Identity(s) = Identity(r) /\ s.key = r.key
                             /\ s.writer = r.writer \/ (s.writer = c /\ Identity(r) \in pending[c])
  <2>1. CASE r \in kept
    BY <1>1, <2>1
  <2>2. CASE r \notin kept
    <3>1. PICK b \in pending[c] : r.key = NewKey(b)
      BY <2>2
    <3>2. r.key = NewKey(r)
      BY <3>1, KeyFields DEF KeysOfRows
    <3>3. r.date = b.date /\ r.end = b.end
      BY <3>1, <3>2, KeyFields
    <3>4. Identity(r) = b
      BY <1>2, <3>3, BucketsAssumption DEF Identity
    <3> QED
      BY <1>1, <1>3, <3>1, <3>3, <3>4, IdentityFields
  <2> QED
    BY <2>1, <2>2
<1> QED
  BY <1>6, <1>7, <1>8, <1>9, <1>10

-------------------------------------------------------------------------------
(* The inductive invariant. *)

\* The rows of the start are keyed by their starts.
LEMMA InitIInv == Init => IInv
<1> SUFFICES ASSUME Init PROVE IInv
  OBVIOUS
<1>1. \A r \in flows : /\ r \in OldRows
                       /\ r = Row(Key("start", r.date, Absent), r.date, r.end, Before)
  BY OldRowsAssumption DEF Init
<1>2. \A r \in flows : r.key = KeyOfStart(r) /\ r.writer = Before
  BY <1>1, RowFields DEF KeyOfStart
<1>3. flows \subseteq StoredRows
  <2>1. \A r \in flows : r.date \in Starts /\ r.end \in Ends /\ Absent \in Ends
    BY <1>1 DEF Starts, Ends
  <2>2. \A d \in Starts, e \in Ends, a \in Ends : Row(Key("start", d, a), d, e, Before) \in StoredRows
    BY Zenon DEF Row, Key, StoredRows
  <2> QED
    BY <1>1, <2>1, <2>2
<1>4. Types
  BY <1>3 DEF Init, Types, PCs
<1>5. LockExcludes /\ WorkFollowsFlows
  BY DEF Init, LockExcludes, WorkFollowsFlows, Locked, Acceptably
<1>6. KeysOfRows
  BY <1>2 DEF KeysOfRows
<1>7. AllKeysOrNone
  BY <1>2 DEF Init, AllKeysOrNone, IdentitiesDiffer
<1> QED
  BY <1>4, <1>5, <1>6, <1>7 DEF IInv

\* An upsert touches no table that a migration has.
LEMMA UpsertIInv ==
  ASSUME IInv, NEW c \in Calls, Upsert(c)
  PROVE  IInv'
<1> USE DEF IInv
<1>1. /\ UNCHANGED <<flows, constrained, pc, work, altered, call>>
      /\ \E b \in Buckets : pending' = [pending EXCEPT ![c] = @ \cup {b}]
  BY DEF Upsert, migration
<1>2. Types'
  BY <1>1 DEF Types
<1>3. LockExcludes'
  <2>1. \A m \in Migrations : pc[m] \notin Locked
    BY DEF Upsert, TableFree, HoldsRows, LockExcludes
  <2> QED
    BY <1>1, <2>1 DEF LockExcludes
<1>4. WorkFollowsFlows' /\ KeysOfRows' /\ AllKeysOrNone'
  BY <1>1 DEF WorkFollowsFlows, KeysOfRows, AllKeysOrNone, Acceptably, UnderTemporaryKeys,
              UnderNewKeys, Acceptable, PreconditionsHold, KeysDiffer, IdentitiesDiffer
<1> QED
  BY <1>2, <1>3, <1>4

\* The end of an ingestion transaction.
LEMMA EndCallIInv ==
  ASSUME IInv, NEW c \in Calls, CommitCall(c) \/ AbortCall(c)
  PROVE  IInv'
<1> USE DEF IInv
<1>1. /\ UNCHANGED <<constrained, pc, work, altered>>
      /\ pending' = [pending EXCEPT ![c] = {}] /\ pending[c] # {}
      /\ call' \in [Calls -> {"open", "committed", "aborted"}]
  BY DEF CommitCall, AbortCall, EndCall, HoldsRows, migration, Types
<1>2. \A m \in Migrations : pc[m] \notin Locked
  BY <1>1 DEF LockExcludes
<1>3. flows' = flows \/ flows' = Upserted(c)
  BY DEF CommitCall, AbortCall
<1>4. /\ flows' \subseteq StoredRows
      /\ KeysDiffer(flows')
      /\ constrained => IdentitiesDiffer(flows')
      /\ \A r \in flows' : r \in flows \/ (r.writer = c /\ r.key = NewKey(r))
  <2>1. CASE flows' = flows
    BY <2>1 DEF Types, AllKeysOrNone
  <2>2. CASE flows' = Upserted(c)
    BY <2>2, UpsertedTable
  <2> QED
    BY <1>3, <2>1, <2>2
<1>5. Types'
  BY <1>1, <1>4 DEF Types
<1>6. LockExcludes'
  BY <1>1, <1>2 DEF LockExcludes
<1>7. WorkFollowsFlows'
  BY <1>1, <1>2 DEF WorkFollowsFlows, Acceptably, Locked
<1>8. KeysOfRows'
  BY <1>4 DEF KeysOfRows
<1>9. AllKeysOrNone'
  BY <1>1, <1>4, ActorsAssumption DEF AllKeysOrNone
<1> QED
  BY <1>5, <1>6, <1>7, <1>8, <1>9

\* The request for the lock and its grant.
LEMMA LockIInv ==
  ASSUME IInv, NEW m \in Migrations, RequestLock(m) \/ LockTable(m)
  PROVE  IInv'
<1> USE DEF IInv
<1>1. /\ UNCHANGED <<flows, constrained, altered, call, pending>>
      /\ \/ /\ pc[m] = "idle" /\ pc' = [pc EXCEPT ![m] = "waiting"]
            /\ work' = work
         \/ /\ pc[m] = "waiting" /\ pc' = [pc EXCEPT ![m] = "locked"]
            /\ CanLock(m) /\ work' = [work EXCEPT ![m] = flows]
  BY DEF RequestLock, LockTable, Goto, ingestion
<1>2. Types'
  BY <1>1 DEF Types, PCs, Locked
<1>3. LockExcludes'
  BY <1>1 DEF Types, LockExcludes, CanLock, HoldsRows, Locked
<1>4. WorkFollowsFlows'
  BY <1>1 DEF Types, WorkFollowsFlows, Acceptably, Locked
<1>5. KeysOfRows' /\ AllKeysOrNone'
  BY <1>1 DEF KeysOfRows, AllKeysOrNone
<1> QED
  BY <1>2, <1>3, <1>4, <1>5

\* The statements behind the lock, which nobody else sees.
LEMMA InsideIInv ==
  ASSUME IInv, NEW m \in Migrations,
         \/ PlanKeys(m) \/ AddConstraints(m)
         \/ RenameToTemporary(m) \/ RenameToNew(m) \/ Verify(m)
  PROVE  IInv'
<1> USE DEF IInv
<1>1. UNCHANGED <<flows, constrained, call, pending>>
  BY DEF PlanKeys, AddConstraints, Alter, RenameToTemporary, RenameToNew, Verify, ingestion
<1>2. PICK to \in {"planned", "altered", "temporary", "renamed", "verified"} :
        pc[m] \in Locked /\ pc' = [pc EXCEPT ![m] = to]
  BY DEF PlanKeys, AddConstraints, RenameToTemporary, RenameToNew, Verify, Goto, Locked
<1>3. /\ altered' \in {altered, [altered EXCEPT ![m] = TRUE]}
      /\ \E w : work' \in {work, [work EXCEPT ![m] = w]}
  BY DEF PlanKeys, AddConstraints, Alter, RenameToTemporary, RenameToNew, Verify
<1>4. Types'
  BY <1>1, <1>2, <1>3 DEF Types, PCs, Locked
<1>5. LockExcludes'
  BY <1>1, <1>2 DEF Types, LockExcludes, Locked
<1>6. KeysOfRows' /\ AllKeysOrNone'
  BY <1>1 DEF KeysOfRows, AllKeysOrNone
<1>7. WorkFollowsFlows'
  <2> DEFINE Follows(n) ==
        /\ pc[n] \notin Locked => work[n] = {}
        /\ pc[n] \in {"locked", "planned", "altered"} => work[n] = flows
        /\ pc[n] = "temporary" => work[n] = UnderTemporaryKeys(flows)
        /\ pc[n] \in {"renamed", "verified"} => work[n] = UnderNewKeys(flows)
        /\ Acceptably(n)
        /\ pc[n] \in {"altered", "temporary", "renamed", "verified"} => altered[n]
  <2>1. \A n \in Migrations : Follows(n)
    BY DEF WorkFollowsFlows
  <2>2. \A n \in Migrations \ {m} : Follows(n)'
    BY <1>1, <1>2, <1>3, <2>1 DEF Types, Acceptably
  <2> SUFFICES Follows(m)'
    BY <2>2 DEF WorkFollowsFlows
  <2>3. CASE PlanKeys(m)
    BY <1>1, <2>1, <2>3 DEF PlanKeys, Goto, Types, Acceptably, Locked
  <2>4. CASE AddConstraints(m)
    BY <1>1, <2>1, <2>4 DEF AddConstraints, Alter, Goto, Types, Acceptably, Locked
  <2>5. CASE RenameToTemporary(m)
    <3>1. {Rekeyed(r, Temporary(r.key)) : r \in flows} = UnderTemporaryKeys(flows)
      BY DEF Rekeyed, UnderTemporaryKeys
    <3>2. pc[m] = "altered" /\ work[m] = flows /\ Acceptable(flows) /\ altered[m]
      BY <2>1, <2>5 DEF RenameToTemporary, Goto, Acceptably, Locked
    <3>3. pc'[m] = "temporary" /\ work'[m] = UnderTemporaryKeys(flows) /\ altered' = altered
      BY <2>5, <3>1, <3>2 DEF RenameToTemporary, Goto, Types
    <3> QED
      BY <1>1, <3>2, <3>3 DEF Acceptably, Locked
  <2>6. CASE RenameToNew(m)
    <3>1. {Rekeyed(r, NewKey(r)) : r \in UnderTemporaryKeys(flows)} = UnderNewKeys(flows)
      <4>1. \A r : LET t == Row(Temporary(r.key), r.date, r.end, r.writer) IN
                   Row(NewKey(t), t.date, t.end, t.writer) = Row(NewKey(r), r.date, r.end, r.writer)
        BY RowFields DEF NewKey
      <4> QED
        BY <4>1 DEF Rekeyed, UnderTemporaryKeys, UnderNewKeys
    <3>2. pc[m] = "temporary" /\ work[m] = UnderTemporaryKeys(flows) /\ Acceptable(flows) /\ altered[m]
      BY <2>1, <2>6 DEF RenameToNew, Goto, Acceptably, Locked
    <3>3. pc'[m] = "renamed" /\ work'[m] = UnderNewKeys(flows) /\ altered' = altered
      BY <2>6, <3>1, <3>2 DEF RenameToNew, Goto, Types
    <3> QED
      BY <1>1, <3>2, <3>3 DEF Acceptably, Locked
  <2>7. CASE Verify(m)
    BY <1>1, <2>1, <2>7 DEF Verify, Goto, Types, Acceptably, Locked
  <2> QED
    BY <2>3, <2>4, <2>5, <2>6, <2>7
<1> QED
  BY <1>4, <1>5, <1>6, <1>7

\* Every way a migration fails before its commit took place.
LEMMA RollBackIInv ==
  ASSUME IInv, NEW m \in Migrations, RollBack(m)
  PROVE  IInv'
<1> USE DEF IInv
<1>1. /\ UNCHANGED <<flows, constrained, call, pending>>
      /\ pc' = [pc EXCEPT ![m] = "failed"]
      /\ work' = [work EXCEPT ![m] = {}] /\ altered' = [altered EXCEPT ![m] = FALSE]
  BY DEF RollBack, Discard, Forget, ingestion
<1>2. Types'
  BY <1>1 DEF Types, PCs, Ended
<1>3. LockExcludes'
  BY <1>1 DEF Types, LockExcludes, Locked
<1>4. WorkFollowsFlows'
  BY <1>1 DEF Types, WorkFollowsFlows, Acceptably, Locked
<1>5. KeysOfRows' /\ AllKeysOrNone'
  BY <1>1 DEF KeysOfRows, AllKeysOrNone
<1> QED
  BY <1>2, <1>3, <1>4, <1>5

\* The server commits; the migration may learn of it or not.
LEMMA CommitIInv ==
  ASSUME IInv, NEW m \in Migrations, Commit(m) \/ CommitAnswerLost(m)
  PROVE  IInv'
<1> USE DEF IInv
<1>1. /\ UNCHANGED <<call, pending>>
      /\ pc[m] = "verified"
      /\ \E to \in Ended : pc' = [pc EXCEPT ![m] = to]
      /\ flows' = work[m] /\ constrained' = altered[m]
      /\ work' = [work EXCEPT ![m] = {}] /\ altered' = [altered EXCEPT ![m] = FALSE]
  BY DEF Commit, CommitAnswerLost, Goto, ServerCommits, Forget, ingestion, Ended
<1>2. flows' = UnderNewKeys(flows) /\ constrained' /\ Acceptable(flows)
  BY <1>1 DEF WorkFollowsFlows, Acceptably, Locked
<1>3. /\ flows' \subseteq StoredRows
      /\ KeysDiffer(flows') /\ IdentitiesDiffer(flows')
      /\ \A r \in flows' : r.key = NewKey(r)
  BY <1>2, RekeyedTable DEF Types
<1>4. Types'
  BY <1>1, <1>3 DEF Types, PCs, Ended
<1>5. LockExcludes'
  BY <1>1 DEF Types, LockExcludes, Locked, Ended
<1>6. WorkFollowsFlows'
  <2>1. \A n \in Migrations \ {m} : pc'[n] = pc[n] /\ work'[n] = work[n] /\ pc[n] \notin Locked
    BY <1>1 DEF Types, LockExcludes, Locked
  <2>2. pc'[m] \notin Locked /\ work'[m] = {}
    BY <1>1 DEF Types, Locked, Ended
  <2> QED
    BY <2>1, <2>2 DEF WorkFollowsFlows, Acceptably, Locked
<1>7. KeysOfRows' /\ AllKeysOrNone'
  BY <1>2, <1>3 DEF KeysOfRows, AllKeysOrNone
<1> QED
  BY <1>4, <1>5, <1>6, <1>7

\* Every step keeps the inductive invariant.
LEMMA NextIInv == IInv /\ [Next]_vars => IInv'
<1> SUFFICES ASSUME IInv, [Next]_vars PROVE IInv'
  OBVIOUS
<1>1. ASSUME NEW c \in Calls, Upsert(c) \/ CommitCall(c) \/ AbortCall(c)
      PROVE  IInv'
  BY <1>1, UpsertIInv, EndCallIInv
<1>2. ASSUME NEW m \in Migrations, RequestLock(m) \/ Step(m) \/ Fails(m) \/ CommitAnswerLost(m)
      PROVE  IInv'
  <2>1. CASE LockTimeout(m) \/ RefusePlan(m) \/ ConstraintsExist(m) \/ Fails(m)
    BY <2>1, RollBackIInv DEF LockTimeout, RefusePlan, ConstraintsExist, Fails
  <2>2. CASE RequestLock(m) \/ LockTable(m)
    BY <2>2, LockIInv
  <2>3. CASE \/ PlanKeys(m) \/ AddConstraints(m)
             \/ RenameToTemporary(m) \/ RenameToNew(m) \/ Verify(m)
    BY <2>3, InsideIInv
  <2>4. CASE Commit(m) \/ CommitAnswerLost(m)
    BY <2>4, CommitIInv
  <2> QED
    BY <1>2, <2>1, <2>2, <2>3, <2>4 DEF Step
<1>3. CASE UNCHANGED vars
  BY <1>3 DEF vars, migration, ingestion, IInv, Types, LockExcludes, WorkFollowsFlows, KeysOfRows,
              AllKeysOrNone, Acceptably, Acceptable, PreconditionsHold, KeysDiffer, IdentitiesDiffer,
              UnderTemporaryKeys, UnderNewKeys
<1> QED
  BY <1>1, <1>2, <1>3 DEF Next

\* The inductive invariant holds: whoever has the lock is alone and works on a re-keying of
\* the committed rows.  (apply_flow_identity_migration)
THEOREM InvariantHolds == Spec => []IInv
<1> QED
  BY InitIInv, NextIInv, PTL DEF Spec

-------------------------------------------------------------------------------
(* What must hold. *)

\* Every variable has its type, and only who has the lock works on the rows.
\* (apply_flow_identity_migration)
THEOREM TypeCorrect == Spec => []TypeOK
<1>1. IInv => TypeOK
  BY DEF IInv, Types, WorkFollowsFlows, TypeOK
<1> QED
  BY <1>1, InvariantHolds, PTL

\* Other sessions see the keys from before or all of them new, and with the constraints a
\* bucket has one row.  (apply_flow_identity_migration, FLOW_UPSERT_SQL)
THEOREM KeysAllOrNone == Spec => []AllKeysOrNone
<1>1. IInv => AllKeysOrNone
  BY DEF IInv
<1> QED
  BY <1>1, InvariantHolds, PTL

\* A step keeps every row.
LEMMA StepKeepsRows ==
  ASSUME IInv, Next
  PROVE  \A r \in flows : \E s \in flows' :
           /\ Identity(s) = Identity(r)
           /\ s.key = r.key \/ IdentitiesDiffer(flows)
           /\ s.writer = r.writer \/ \E c \in Calls : s.writer = c /\ Identity(r) \in pending[c]
<1> USE DEF IInv
<1>1. ASSUME NEW c \in Calls, CommitCall(c)
      PROVE  \A r \in flows : \E s \in flows' :
               /\ Identity(s) = Identity(r) /\ s.key = r.key
               /\ s.writer = r.writer \/ (s.writer = c /\ Identity(r) \in pending[c])
  BY <1>1, UpsertedTable DEF CommitCall
<1>2. ASSUME NEW m \in Migrations, Commit(m) \/ CommitAnswerLost(m)
      PROVE  /\ IdentitiesDiffer(flows)
             /\ \A r \in flows : \E s \in flows' : Identity(s) = Identity(r) /\ s.writer = r.writer
  <2>1. flows' = UnderNewKeys(flows) /\ Acceptable(flows)
    BY <1>2 DEF Commit, CommitAnswerLost, Goto, ServerCommits, WorkFollowsFlows, Acceptably, Locked
  <2> QED
    BY <2>1, RekeyedTable DEF Types, Acceptable, PreconditionsHold
<1>3. \/ UNCHANGED flows
      \/ \E c \in Calls : CommitCall(c)
      \/ \E m \in Migrations : Commit(m) \/ CommitAnswerLost(m)
  BY DEF Next, Step, Upsert, AbortCall, RequestLock, LockTable, LockTimeout, PlanKeys, RefusePlan,
         AddConstraints, Alter, ConstraintsExist, RenameToTemporary, RenameToNew, Verify, Fails,
         RollBack, Discard
<1> QED
  BY <1>1, <1>2, <1>3

\* No step takes a row away, whether the migration commits, fails or loses its answer.
\* (apply_flow_identity_migration, FLOW_UPSERT_SQL)
THEOREM NoRowEverLost == Spec => NoRowLost
<1>1. IInv /\ [Next]_vars =>
        [\A r \in flows : \E s \in flows' :
           /\ Identity(s) = Identity(r)
           /\ s.key = r.key \/ IdentitiesDiffer(flows)
           /\ s.writer = r.writer \/ \E c \in Calls : s.writer = c /\ Identity(r) \in pending[c]]_flows
  BY StepKeepsRows DEF vars
<1> QED
  BY <1>1, InvariantHolds, PTL DEF Spec, NoRowLost

-------------------------------------------------------------------------------
(* The checks before the commit. *)

\* What verify looks for behind the renaming.
Verified(m) ==
  /\ Cardinality(work[m]) = Cardinality(flows)
  /\ Acceptable(work[m]) /\ \A r \in work[m] : r.key = NewKey(r)

\* As many rows under the new keys as under the old.
LEMMA RekeyedFinite ==
  ASSUME NEW rows, IsFiniteSet(rows)
  PROVE  /\ IsFiniteSet(UnderNewKeys(rows))
         /\ IdentitiesDiffer(rows) => Cardinality(UnderNewKeys(rows)) = Cardinality(rows)
<1> DEFINE new == UnderNewKeys(rows)
           Moved(r) == Row(NewKey(r), r.date, r.end, r.writer)
           f == [r \in rows |-> Moved(r)]
<1>1. new = {Moved(r) : r \in rows}
  BY DEF UnderNewKeys
<1>2. \A r : Moved(r).date = r.date /\ Moved(r).end = r.end
  BY RowFields
<1> HIDE DEF Moved
<1>3. f \in Surjection(rows, new)
  BY <1>1 DEF Surjection
<1>4. ASSUME IdentitiesDiffer(rows) PROVE f \in Injection(rows, new)
  <2>1. \A r, s \in rows : f[r] = f[s] => r = s
    BY <1>2, <1>4, IdentityFields DEF IdentitiesDiffer
  <2>2. f \in [rows -> new]
    BY <1>3 DEF Surjection
  <2> QED
    BY <2>1, <2>2 DEF Injection, IsInjective
<1> HIDE DEF f, new
<1> QED
  BY <1>3, <1>4, FS_Surjection DEF new

\* What an ingestion publishes is finite.
LEMMA UpsertedFinite ==
  ASSUME NEW c \in Calls, IsFiniteSet(flows), IsFiniteSet(pending[c])
  PROVE  IsFiniteSet(Upserted(c))
<1> DEFINE Added(b) == Row(NewKey(b), b.date, b.end, c)
           added == {Added(b) : b \in pending[c]}
           kept == {r \in flows : \A b \in pending[c] : r.key # NewKey(b)}
           f == [b \in pending[c] |-> Added(b)]
<1>1. f \in Surjection(pending[c], added)
  <2> HIDE DEF Added
  <2> QED
    BY DEF Surjection
<1>2. IsFiniteSet(kept)
  BY FS_Subset
<1>3. Upserted(c) = kept \cup added
  BY DEF Upserted
<1> HIDE DEF f, added, kept
<1>4. IsFiniteSet(added)
  BY <1>1, FS_Surjection
<1> QED
  BY <1>2, <1>3, <1>4, FS_Union

\* A finite table stays finite.
LEMMA FiniteTable ==
  ASSUME IsFiniteSet(OldRows), IsFiniteSet(Buckets)
  PROVE  Spec => []IsFiniteSet(flows)
<1>1. Init => IsFiniteSet(flows)
  BY FS_Subset DEF Init
<1>2. IInv /\ IsFiniteSet(flows) /\ [Next]_vars => IsFiniteSet(flows)'
  <2> SUFFICES ASSUME IInv, IsFiniteSet(flows), [Next]_vars PROVE IsFiniteSet(flows')
    OBVIOUS
  <2>1. ASSUME NEW c \in Calls, CommitCall(c) PROVE IsFiniteSet(flows')
    <3>1. IsFiniteSet(pending[c])
      BY FS_Subset DEF IInv, Types
    <3> QED
      BY <2>1, <3>1, UpsertedFinite DEF CommitCall
  <2>2. ASSUME NEW m \in Migrations, Commit(m) \/ CommitAnswerLost(m) PROVE IsFiniteSet(flows')
    <3>1. flows' = UnderNewKeys(flows)
      BY <2>2 DEF Commit, CommitAnswerLost, Goto, ServerCommits, IInv, WorkFollowsFlows
    <3> QED
      BY <3>1, RekeyedFinite
  <2>3. \/ UNCHANGED flows
        \/ \E c \in Calls : CommitCall(c)
        \/ \E m \in Migrations : Commit(m) \/ CommitAnswerLost(m)
    BY DEF Next, Step, Upsert, AbortCall, RequestLock, LockTable, LockTimeout, PlanKeys, RefusePlan,
           AddConstraints, Alter, ConstraintsExist, RenameToTemporary, RenameToNew, Verify, Fails,
           RollBack, Discard, vars
  <2> QED
    BY <2>1, <2>2, <2>3
<1> QED
  BY <1>1, <1>2, InvariantHolds, PTL DEF Spec

\* A plan that was accepted is carried out: what the migration looks at once more before
\* its commit is never amiss, whatever was in the table and however ingestion wrote to it
\* until the lock was taken.  (apply_flow_identity_migration, after the second loop)
THEOREM VerificationNeverFails ==
  ASSUME IsFiniteSet(OldRows), IsFiniteSet(Buckets)
  PROVE  Spec => [](\A m \in Migrations : pc[m] = "renamed" => Verified(m))
<1>1. IInv /\ IsFiniteSet(flows) => \A m \in Migrations : pc[m] = "renamed" => Verified(m)
  <2> SUFFICES ASSUME IInv, IsFiniteSet(flows), NEW m \in Migrations, pc[m] = "renamed"
               PROVE  Verified(m)
    OBVIOUS
  <2> DEFINE new == UnderNewKeys(flows)
  <2>1. work[m] = new /\ Acceptable(flows)
    BY DEF IInv, WorkFollowsFlows, Acceptably, Locked
  <2>2. /\ KeysDiffer(new) /\ IdentitiesDiffer(new) /\ \A r \in new : r.key = NewKey(r)
    BY <2>1, RekeyedTable DEF IInv, Types
  <2>3. \A r \in new : \E s \in flows : r.date = s.date /\ r.end = s.end
    BY RowFields DEF UnderNewKeys
  <2>4. \A r \in new : r.end # Absent /\ r.end > r.date
    BY <2>1, <2>3 DEF Acceptable, PreconditionsHold
  <2>5. \A r, s \in new : r # s => NewKey(r) # NewKey(s) /\ NewKey(r) # s.key
    BY <2>2 DEF KeysDiffer
  <2>6. Cardinality(new) = Cardinality(flows)
    BY <2>1, RekeyedFinite DEF Acceptable, PreconditionsHold
  <2> HIDE DEF new
  <2>7. Acceptable(new)
    BY <2>2, <2>4, <2>5 DEF Acceptable, PreconditionsHold
  <2> QED
    BY <2>1, <2>2, <2>6, <2>7 DEF Verified
<1> QED
  BY <1>1, InvariantHolds, FiniteTable, PTL

-------------------------------------------------------------------------------
(* Termination, but for the fairness. *)

\* The steps a migration that was started has before it at most.
Left(m) ==
  CASE pc[m] = "waiting" -> 7 [] pc[m] = "locked" -> 6 [] pc[m] = "planned" -> 5
    [] pc[m] = "altered" -> 4 [] pc[m] = "temporary" -> 3 [] pc[m] = "renamed" -> 2
    [] pc[m] = "verified" -> 1 [] OTHER -> 0

\* A migration that was started takes at most seven steps and none after its end: it tries
\* nothing again, not even the lock.  (apply_flow_identity_migration)
THEOREM MigrationsRunDown ==
  Spec => [][\A m \in Migrations : pc[m] # "idle" => \/ pc'[m] = pc[m] /\ work'[m] = work[m]
                                                     \/ Left(m)' < Left(m)]_vars
<1>1. IInv /\ [Next]_vars =>
        [\A m \in Migrations : pc[m] # "idle" => \/ pc'[m] = pc[m] /\ work'[m] = work[m]
                                                 \/ Left(m)' < Left(m)]_vars
  <2> SUFFICES ASSUME IInv, Next, NEW n \in Migrations, pc[n] # "idle"
               PROVE  (pc'[n] = pc[n] /\ work'[n] = work[n]) \/ Left(n)' < Left(n)
    OBVIOUS
  <2>1. CASE UNCHANGED migration
    BY <2>1 DEF migration
  <2>2. ASSUME NEW m \in Migrations, RequestLock(m) \/ Step(m) \/ Fails(m) \/ CommitAnswerLost(m)
        PROVE  (pc'[n] = pc[n] /\ work'[n] = work[n]) \/ Left(n)' < Left(n)
    <3>1. pc \in [Migrations -> PCs] /\ work = [k \in Migrations |-> work[k]]
      BY DEF IInv, Types
    <3>2. CASE m # n
      <4>1. pc'[n] = pc[n]
        BY <2>2, <3>1, <3>2 DEF RequestLock, Step, Fails, CommitAnswerLost, LockTable, LockTimeout,
           PlanKeys, RefusePlan, AddConstraints, ConstraintsExist, RenameToTemporary, RenameToNew,
           Verify, Commit, Goto, RollBack
      <4>2. work'[n] = work[n]
        BY <2>2, <3>1, <3>2 DEF RequestLock, Step, Fails, CommitAnswerLost, LockTable, LockTimeout,
           PlanKeys, RefusePlan, AddConstraints, ConstraintsExist, RenameToTemporary, RenameToNew,
           Verify, Commit, Forget, RollBack
      <4> QED
        BY <4>1, <4>2
    <3>3. CASE m = n
      <4>1. CASE Fails(m) \/ LockTimeout(m) \/ RefusePlan(m) \/ ConstraintsExist(m)
        <5>1. pc[m] \in {"waiting"} \cup Locked /\ pc'[m] = "failed"
          BY <3>1, <3>3, <4>1 DEF Fails, LockTimeout, RefusePlan, ConstraintsExist, RollBack, PCs,
                                  Locked, Ended
        <5> QED
          BY <3>3, <5>1 DEF Left, Locked
      <4>2. ASSUME NEW from, NEW to \in PCs, Goto(m, from, to) PROVE pc[m] = from /\ pc'[m] = to
        BY <3>1, <4>2 DEF Goto
      <4>3. ~RequestLock(m)
        BY <3>3 DEF RequestLock, Goto
      <4>4. CASE \/ LockTable(m) \/ PlanKeys(m) \/ AddConstraints(m) \/ RenameToTemporary(m)
                 \/ RenameToNew(m) \/ Verify(m) \/ Commit(m) \/ CommitAnswerLost(m)
        <5>1. \/ pc[m] = "waiting" /\ pc'[m] = "locked"
              \/ pc[m] = "locked" /\ pc'[m] = "planned"
              \/ pc[m] = "planned" /\ pc'[m] = "altered"
              \/ pc[m] = "altered" /\ pc'[m] = "temporary"
              \/ pc[m] = "temporary" /\ pc'[m] = "renamed"
              \/ pc[m] = "renamed" /\ pc'[m] = "verified"
              \/ pc[m] = "verified" /\ pc'[m] \in {"done", "failed"}
          BY <4>2, <4>4 DEF LockTable, PlanKeys, AddConstraints, RenameToTemporary, RenameToNew,
                            Verify, Commit, CommitAnswerLost, PCs, Locked, Ended
        <5> QED
          BY <3>3, <5>1 DEF Left
      <4> QED
        BY <2>2, <4>1, <4>3, <4>4 DEF Step
    <3> QED
      BY <3>2, <3>3
  <2> QED
    BY <2>1, <2>2 DEF Next, Upsert, CommitCall, AbortCall, EndCall, migration
<1> QED
  BY <1>1, InvariantHolds, PTL DEF Spec

===============================================================================
