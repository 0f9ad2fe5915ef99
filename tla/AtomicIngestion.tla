--------------------------- MODULE AtomicIngestion ---------------------------
(***************************************************************************)
(* What an ingestion call promises to whoever reads the database: its      *)
(* audit row appears as running, and then either everything it brought     *)
(* lands in one step (the success mark, every row, the checkpoint) or      *)
(* nothing does.  Readers see no transaction, no lock and no handler.      *)
(***************************************************************************)
EXTENDS Integers

CONSTANTS
  Runs, Streams, Requests, Absent,
  Keys,    \* the keys rows are stored under
  TimeOf   \* the timestamp of each key

VARIABLES status, request, table, checkpoint

vars == <<status, request, table, checkpoint>>

Init ==
  /\ status = [r \in Runs |-> "none"]
  /\ request = [r \in Runs |-> Absent]
  /\ table = [s \in Streams |-> [k \in Keys |-> Absent]]
  /\ checkpoint = [s \in Streams |-> Absent]

Begin(r) ==
  /\ status[r] = "none"
  /\ status' = [status EXCEPT ![r] = "running"]
  /\ \E q \in Requests : request' = [request EXCEPT ![r] = q]
  /\ UNCHANGED <<table, checkpoint>>

Newer(cp, timestamp) == cp = Absent \/ timestamp >= cp.timestamp

\* Any part of the window may be answered; what is answered lands complete.
Land(r) ==
  LET q == request[r] IN
  /\ status[r] = "running"
  /\ status' = [status EXCEPT ![r] = "success"]
  /\ \E answered \in SUBSET {k \in Keys : TimeOf[k] \in q.first..q.last} :
       table' = [table EXCEPT ![q.stream] = [k \in Keys |->
                   IF k \in answered THEN [writer |-> r, complete |-> TRUE] ELSE @[k]]]
  /\ checkpoint' = IF /\ q.endpoint # "token-information"
                      /\ Newer(checkpoint[q.stream], q.last)
                   THEN [checkpoint EXCEPT ![q.stream] = [timestamp |-> q.last, run |-> r]]
                   ELSE checkpoint
  /\ UNCHANGED request

\* The call failed and nothing landed.  A call interrupted after its commit is
\* marked failed too, although everything has landed.
Fail(r) ==
  /\ status[r] \in {"running", "success"}
  /\ status' = [status EXCEPT ![r] = "failed"]
  /\ UNCHANGED <<request, table, checkpoint>>

Next == \E r \in Runs : Begin(r) \/ Land(r) \/ Fail(r)

Spec == Init /\ [][Next]_vars

==============================================================================
