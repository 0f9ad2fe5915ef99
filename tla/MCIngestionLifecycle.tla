------------------------- MODULE MCIngestionLifecycle -------------------------
(***************************************************************************)
(* Instances of IngestionLifecycle for TLC: overlapping windows of one     *)
(* flow stream that end at different hours, a trade stream and a           *)
(* token-information call.                                                 *)
(***************************************************************************)
EXTENDS IngestionLifecycle

Hours2 == 1..2

Done(k) == [key |-> k, complete |-> TRUE]
Undone(k) == [key |-> k, complete |-> FALSE]

\* No record, one, or two of different keys in either order.
UpToTwo(K) == {<<>>} \cup {<<Done(k)>> : k \in K} \cup
              UNION {{<<Done(k), Done(j)>> : j \in K \ {k}} : k \in K}

\* The last hour of a flow answer may be unfinished.
Flows == {"first", "second"}

SmallAnswers ==
  [e \in Endpoints |->
     CASE e = "flows" -> UpToTwo(Flows) \cup {<<Undone("second")>>, <<Done("first"), Undone("second")>>}
       [] e = "dex-trades" -> UpToTwo(Keys)
       [] e = "token-information" -> {<<>>}]

KeyAnHour == [first |-> 1, second |-> 2]

\* Two trades of one block, and a later one.
KeysTied == [first |-> 1, tied |-> 1, second |-> 2]

Flow(first, last) ==
  [endpoint |-> "flows", stream |-> "whale", first |-> first, last |-> last]

TwoWindows == {Flow(1, 2), Flow(1, 1)}

Trades == {[endpoint |-> "dex-trades", stream |-> "swaps", first |-> 1, last |-> 2]}

AllEndpoints == TwoWindows \cup Trades \cup {
  [endpoint |-> "token-information", stream |-> "token", first |-> 1, last |-> 1]}

AllFaults == FaultKinds

Interrupts == {"interrupt"}

LostConnections == {"data connection"}

===============================================================================
