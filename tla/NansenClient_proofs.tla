------------------------- MODULE NansenClient_proofs --------------------------
(***************************************************************************)
(* The theorems of NansenClient, for every budget, number of retries, page *)
(* limit and number of calls.                                              *)
(***************************************************************************)
EXTENDS NansenClient, SequenceTheorems, TLAPS

Requesting == pc \in {"reserving", "posting"}
Running == Requesting \/ pc = "returned"

\* A request that is reserved and has not left yet.
InFlight == IF pc = "posting" THEN 1 ELSE 0

\* The budget was spent on every post, and on this call what lies between its two readings.
Counted ==
  /\ callsBefore <= attempted
  /\ posts + InFlight <= attempted
  /\ Running => attempted - callsBefore = sent + InFlight

\* The call has the pages 1..fetched, and knows of each the warnings that came with it.
PagesInOrder ==
  /\ Running => /\ records = [n \in 1..fetched |-> n]
                /\ metadata \in [1..fetched -> Warnings \ {"malformed"}]
                /\ seen = metadata
  /\ Requesting => page = fetched + 1 /\ page <= last /\ page <= MaxPages
  /\ pc = "returned" => fetched = last /\ Paginated

IInv ==
  /\ TypeOK /\ Counted /\ PagesInOrder
  /\ EveryPageOnce /\ AuditedCallsWereSent /\ OnlyApprovedWarningsSucceed /\ WarnedPagesNamed

USE BoundsAssumption

-------------------------------------------------------------------------------

LEMMA InitIInv == Init => IInv
<1> SUFFICES ASSUME Init PROVE IInv
  OBVIOUS
<1>1. TypeOK
  BY DEF Init, TypeOK, Rows
<1>2. Counted
  BY DEF Init, Counted, InFlight, Running, Requesting
<1> QED
  BY <1>1, <1>2 DEF Init, IInv, PagesInOrder, Running, Requesting, EveryPageOnce, Ended,
       AuditedCallsWereSent, OnlyApprovedWarningsSucceed, WarnedPagesNamed

\* Appending the next number to the first ones.
LEMMA OneMore ==
  ASSUME NEW k \in Nat, NEW S, NEW f \in [1..k -> S], NEW x \in S
  PROVE  /\ Append(f, x) \in [1..(k + 1) -> S]
         /\ \A n \in 1..k : Append(f, x)[n] = f[n]
         /\ Append(f, x)[k + 1] = x
<1>1. f \in Seq(S) /\ Len(f) = k
  OBVIOUS
<1>2. Append(f, x) \in Seq(S) /\ Len(Append(f, x)) = k + 1
  BY <1>1, AppendProperties
<1>3. Append(f, x) \in [1..(k + 1) -> S]
  BY <1>2, LenProperties
<1> QED BY <1>1, <1>3, AppendProperties

LEMMA Counting ==
  ASSUME NEW k \in Nat
  PROVE  Append([n \in 1..k |-> n], k + 1) = [n \in 1..(k + 1) |-> n]
<1> DEFINE f == [n \in 1..k |-> n]
           g == Append(f, k + 1)
<1>1. f \in Seq(Nat) /\ Len(f) = k /\ k + 1 \in Nat
  OBVIOUS
<1>2. \A n \in 1..k : f[n] = n
  OBVIOUS
<1> HIDE DEF f
<1>3. g \in Seq(Nat) /\ Len(g) = k + 1
  BY <1>1, AppendProperties
<1>4. (\A n \in 1..k : g[n] = f[n]) /\ g[k + 1] = k + 1
  BY <1>1, AppendProperties
<1> HIDE DEF g
<1>5. g \in [1..(k + 1) -> Nat]
  BY <1>3, LenProperties
<1>6. \A n \in 1..(k + 1) : n \in 1..k \/ n = k + 1
  OBVIOUS
<1>7. \A n \in 1..(k + 1) : g[n] = n
  BY <1>2, <1>4, <1>6
<1>8. g = [n \in 1..(k + 1) |-> n]
  BY <1>5, <1>7
<1> QED BY <1>8 DEF f, g

\* What the audit row may say of warnings, and which pages that names.
LEMMA Summaries ==
  ASSUME NEW k \in 1..MaxPages, NEW meta \in [1..k -> Warnings]
  PROVE  /\ Warned(meta) \subseteq 1..MaxPages
         /\ Sanitized(meta) \in SUBSET ((1..MaxPages) \X Category)
         /\ Summary(meta) \in SUBSET ((1..MaxPages) \X Category)
         /\ SummaryOrSanitized(meta) \in SUBSET ((1..MaxPages) \X Category)
         /\ Named(Sanitized(meta)) = Warned(meta)
         /\ Named(Summary(meta)) = Warned(meta)
         /\ Named(SummaryOrSanitized(meta)) = Warned(meta)
<1>1. Len(meta) = k
  OBVIOUS
<1>2. Warned(meta) \subseteq 1..MaxPages
  BY <1>1 DEF Warned
<1>3. \A w \in Warnings : Classify(w) \in Category
  BY DEF Classify, Category
<1>4. \A n \in Warned(meta) : meta[n] \in Warnings
  BY <1>1 DEF Warned
<1>5. Sanitized(meta) \in SUBSET ((1..MaxPages) \X Category)
  BY <1>2 DEF Sanitized, Category
<1>6. Summary(meta) \in SUBSET ((1..MaxPages) \X Category)
  BY <1>2, <1>3, <1>4 DEF Summary
<1>7. Named(Sanitized(meta)) = Warned(meta)
  <2>1. \A n \in Warned(meta) : <<n, "UNKNOWN">> \in Sanitized(meta) /\ <<n, "UNKNOWN">>[1] = n
    BY DEF Sanitized
  <2>2. \A w \in Sanitized(meta) : w[1] \in Warned(meta)
    BY DEF Sanitized
  <2> QED BY <2>1, <2>2, Zenon DEF Named
<1>8. Named(Summary(meta)) = Warned(meta)
  <2>1. \A n \in Warned(meta) :
          <<n, Classify(meta[n])>> \in Summary(meta) /\ <<n, Classify(meta[n])>>[1] = n
    BY DEF Summary
  <2>2. \A w \in Summary(meta) : w[1] \in Warned(meta)
    BY DEF Summary
  <2> QED BY <2>1, <2>2, Zenon DEF Named
<1> QED BY <1>2, <1>5, <1>6, <1>7, <1>8 DEF SummaryOrSanitized

-------------------------------------------------------------------------------
(* Steps. *)

\* The row of a call that ends is a row.
LEMMA RowType ==
  ASSUME attempted' - callsBefore \in 0..MaxCalls,
         NEW o \in {"success"} \cup Errors, NEW p \in 0..MaxPages, NEW n \in 0..MaxPages,
         NEW w \in {Null} \cup SUBSET ((1..MaxPages) \X Category), Ends(o, p, n, w)
  PROVE  row' \in Rows
<1>1. row' = [outcome |-> o, pages |-> p, calls |-> attempted' - callsBefore,
              received |-> n, warnings |-> w]
  BY DEF Ends, CallsOfThis
<1> QED BY <1>1, Zenon DEF Rows

\* What a call that is asking for a page has so far, and what one more page makes of it.
LEMMA Asking ==
  ASSUME IInv, Requesting
  PROVE  /\ fetched \in 0..(MaxPages - 1) /\ fetched + 1 \in 1..MaxPages /\ page = fetched + 1
         /\ \A w \in Warnings \ {"malformed"} :
              Append(metadata, w) \in [1..(fetched + 1) -> Warnings \ {"malformed"}]
         /\ Append(metadata, "malformed") \in [1..(fetched + 1) -> Warnings]
         /\ seen = metadata
         /\ Append(records, page) = [n \in 1..(fetched + 1) |-> n]
<1>1. fetched \in 0..(MaxPages - 1) /\ page = fetched + 1
  BY DEF IInv, PagesInOrder, TypeOK
<1>2. metadata \in [1..fetched -> Warnings \ {"malformed"}] /\ records = [n \in 1..fetched |-> n]
  BY DEF IInv, PagesInOrder, Running
<1>3. metadata \in [1..fetched -> Warnings]
  BY <1>2
<1>4. "malformed" \in Warnings
  BY DEF Warnings
<1>5. \A w \in Warnings \ {"malformed"} :
        Append(metadata, w) \in [1..(fetched + 1) -> Warnings \ {"malformed"}]
  <2> SUFFICES ASSUME NEW w \in Warnings \ {"malformed"}
               PROVE  Append(metadata, w) \in [1..(fetched + 1) -> Warnings \ {"malformed"}]
    OBVIOUS
  <2>1. fetched \in Nat
    BY <1>1
  <2> QED BY <1>2, <2>1, OneMore
<1>6. Append(metadata, "malformed") \in [1..(fetched + 1) -> Warnings]
  BY <1>1, <1>3, <1>4, OneMore
<1>7. Append(records, page) = [n \in 1..(fetched + 1) |-> n]
  BY <1>1, <1>2, Counting
<1> QED BY <1>1, <1>5, <1>6, <1>7 DEF IInv, PagesInOrder, Running

\* What a call whose pages were returned has.
LEMMA HasReturned ==
  ASSUME IInv, pc = "returned"
  PROVE  /\ fetched \in 1..MaxPages /\ fetched = last
         /\ metadata \in [1..fetched -> Warnings] /\ seen = metadata
         /\ records = [n \in 1..fetched |-> n] /\ Len(records) = fetched
<1>1. fetched \in 1..MaxPages /\ fetched = last
  BY DEF IInv, PagesInOrder, TypeOK
<1>2. metadata \in [1..fetched -> Warnings] /\ seen = metadata /\ records = [n \in 1..fetched |-> n]
  BY DEF IInv, PagesInOrder, Running
<1> QED BY <1>1, <1>2

LEMMA TypeStep == IInv /\ [Next]_vars => TypeOK'
<1> SUFFICES ASSUME IInv, [Next]_vars PROVE TypeOK'
  OBVIOUS
<1>t. TypeOK /\ Counted
  BY DEF IInv
<1>n. Null \in {Null} \cup SUBSET ((1..MaxPages) \X Category) /\ 0 \in 0..MaxPages
  OBVIOUS
<1>c. attempted - callsBefore \in 0..MaxCalls
  BY <1>t DEF TypeOK, Counted
<1>1. ASSUME StartCall PROVE TypeOK'
  BY <1>1, <1>t DEF StartCall, TypeOK
<1>2. ASSUME ReserveRequest PROVE TypeOK'
  BY <1>2, <1>t DEF ReserveRequest, HasBudget, TypeOK, pages, about
<1>3. ASSUME OutOfBudget PROVE TypeOK'
  <2>1. row' \in Rows
    BY <1>3, <1>c, <1>n, RowType DEF OutOfBudget, Raises, Errors, request
  <2> QED BY <1>3, <1>t, <2>1 DEF OutOfBudget, Raises, Ends, TypeOK, request, pages, about
<1>4. ASSUME Retry PROVE TypeOK'
  BY <1>4, <1>t DEF Retry, Post, RetriesLeft, TypeOK, pages, about
<1>5. ASSUME RequestFails PROVE TypeOK'
  <2>1. PICK error \in Errors : Raises(error)
    BY <1>5 DEF RequestFails, Errors
  <2>2. row' \in Rows
    BY <1>5, <1>c, <1>n, <2>1, RowType DEF RequestFails, Post, Raises, about
  <2> QED BY <1>5, <1>t, <2>1, <2>2 DEF RequestFails, Post, Raises, Ends, TypeOK, pages, about
<1>p. ASSUME NEW w, PageArrives(w)
      PROVE  /\ kind' \in Kinds /\ last' \in 1..(MaxPages + 1)
             /\ attempted' \in 0..MaxCalls /\ callsBefore' \in 0..MaxCalls
             /\ retry' \in 0..MaxRetries
             /\ calls' \in 0..Calls /\ posts' \in Nat /\ sent' \in Nat
  <2>1. UNCHANGED <<kind, last, attempted, callsBefore, calls>> /\ retry' = 0
    BY <1>p DEF PageArrives, Post, about
  <2>2. posts' = posts + 1 /\ sent' = sent + 1 /\ posts \in Nat /\ sent \in Nat
    BY <1>p, <1>t DEF PageArrives, Post, TypeOK
  <2>3. 0 \in 0..MaxRetries
    OBVIOUS
  <2> QED BY <1>t, <2>1, <2>2, <2>3 DEF TypeOK
<1>6. ASSUME MalformedWarnings PROVE TypeOK'
  <2>1. Requesting /\ attempted' = attempted /\ retry' = 0 /\ fetched' = fetched + 1
    BY <1>6 DEF MalformedWarnings, PageArrives, Post, Requesting
  <2>2. fetched' \in 0..MaxPages
    BY <2>1, Asking
  <2>3. Sanitized(Append(metadata, "malformed")) \in SUBSET ((1..MaxPages) \X Category)
    BY <2>1, Asking, Summaries
  <2>4. row' \in Rows
    BY <1>6, <1>c, <1>n, <2>1, <2>3, RowType DEF MalformedWarnings, Errors
  <2>5. seen' \in Seq(Warnings)
    BY <1>6, <1>t, AppendProperties DEF MalformedWarnings, PageArrives, TypeOK, Warnings
  <2>6. pc' = "ended" /\ PageArrives("malformed") /\ UNCHANGED <<page, records, metadata>>
    BY <1>6 DEF MalformedWarnings, Ends
  <2>7. /\ page' \in 1..(MaxPages + 1) /\ records' \in Seq(1..MaxPages)
        /\ metadata' \in Seq(Warnings \ {"malformed"})
    BY <1>t, <2>6 DEF TypeOK
  <2> QED BY <1>p, <2>2, <2>4, <2>5, <2>6, <2>7, Zenon DEF TypeOK
<1>7. ASSUME NEW w \in Warnings \ {"malformed"}, PageArrives(w), metadata' = Append(metadata, w)
      PROVE  /\ Requesting /\ fetched \in 0..(MaxPages - 1) /\ fetched' \in 0..MaxPages
             /\ metadata' \in [1..(fetched + 1) -> Warnings]
             /\ seen' \in Seq(Warnings) /\ metadata' \in Seq(Warnings \ {"malformed"})
  <2>1. Requesting /\ fetched' = fetched + 1 /\ seen' = Append(seen, w)
    BY <1>7 DEF PageArrives, Post, Requesting
  <2>2. w \in Warnings /\ fetched \in 0..(MaxPages - 1) /\ fetched + 1 \in 0..MaxPages
    BY <2>1, Asking
  <2>3. metadata' \in [1..(fetched + 1) -> Warnings \ {"malformed"}]
    BY <1>7, <2>1, Asking
  <2>4. metadata' \in [1..(fetched + 1) -> Warnings]
    BY <2>3
  <2>5. seen' \in Seq(Warnings) /\ metadata' \in Seq(Warnings \ {"malformed"})
    BY <1>7, <1>t, <2>1, <2>2, AppendProperties DEF TypeOK
  <2> QED BY <2>1, <2>2, <2>4, <2>5
<1>8. ASSUME NEW w \in Warnings \ {"malformed"}, BadPage(w) PROVE TypeOK'
  <2>1. PageArrives(w) /\ metadata' = Append(metadata, w) /\ attempted' = attempted /\ retry' = 0
    BY <1>8 DEF BadPage, PageArrives, Post
  <2>2. row' \in Rows
    BY <1>8, <1>c, <1>n, <2>1, RowType DEF BadPage, Raises, Errors
  <2>3. pc' = "ended" /\ UNCHANGED <<page, records>>
    BY <1>8 DEF BadPage, Raises, Ends
  <2>4. page' \in 1..(MaxPages + 1) /\ records' \in Seq(1..MaxPages)
    BY <1>t, <2>3 DEF TypeOK
  <2>5. /\ fetched' \in 0..MaxPages
        /\ seen' \in Seq(Warnings) /\ metadata' \in Seq(Warnings \ {"malformed"})
    BY <1>7, <2>1, Zenon
  <2> QED BY <1>p, <2>1, <2>2, <2>3, <2>4, <2>5, Zenon DEF TypeOK
<1>9. ASSUME NEW w \in Warnings \ {"malformed"}, GoodPage(w) PROVE TypeOK'
  <2>1. /\ PageArrives(w) /\ metadata' = Append(metadata, w) /\ records' = Append(records, page)
        /\ attempted' = attempted /\ retry' = 0 /\ fetched' = fetched + 1
    BY <1>9 DEF GoodPage, PageArrives, Post
  <2>2. page \in 1..MaxPages
    BY <1>7, <2>1 DEF IInv, PagesInOrder, TypeOK
  <2>3. page' \in 1..(MaxPages + 1)
    BY <1>9, <2>2 DEF GoodPage
  <2>4. records' \in Seq(1..MaxPages)
    BY <1>t, <2>1, <2>2, AppendProperties DEF TypeOK
  <2>5. fetched + 1 \in 0..MaxPages /\ Len(records') = fetched + 1
    BY <1>7, <2>1, Asking
  <2>6. SummaryOrSanitized(metadata') \in SUBSET ((1..MaxPages) \X Category)
    BY <1>7, <2>1, Asking, Summaries
  <2>7. row' \in Rows \cup {NoRow} /\ pc' \in {"reserving", "returned", "ended"}
    <3>1. CASE UNCHANGED row /\ pc' \in {"reserving", "returned"}
      BY <1>t, <3>1 DEF TypeOK
    <3>2. CASE Ends("PaginationLimitReached", fetched', Len(records'), SummaryOrSanitized(metadata'))
      <4>1. row' \in Rows
        BY <1>c, <2>1, <2>5, <2>6, <3>2, RowType DEF Errors
      <4> QED BY <4>1, <3>2 DEF Ends
    <3> QED BY <1>9, <3>1, <3>2 DEF GoodPage
  <2>8. /\ fetched' \in 0..MaxPages
        /\ seen' \in Seq(Warnings) /\ metadata' \in Seq(Warnings \ {"malformed"})
    BY <1>7, <2>1, Zenon
  <2> QED BY <1>p, <2>1, <2>3, <2>4, <2>7, <2>8, Zenon DEF TypeOK
<1>10. ASSUME NEW o \in {"success"} \cup Errors,
              NEW w \in {Null} \cup SUBSET ((1..MaxPages) \X Category), Returned(o, w)
       PROVE  TypeOK'
  <2>1. pc = "returned" /\ attempted' = attempted
    BY <1>10 DEF Returned, request
  <2>2. fetched \in 0..MaxPages /\ Len(records) \in 0..MaxPages
    BY <2>1, HasReturned
  <2>3. row' \in Rows
    BY <1>10, <1>c, <2>1, <2>2, RowType DEF Returned
  <2> QED BY <1>10, <1>t, <2>3 DEF Returned, Ends, TypeOK, request, pages, about
<1>11. ASSUME pc = "returned"
       PROVE  /\ Sanitized(metadata) \in SUBSET ((1..MaxPages) \X Category)
              /\ Summary(metadata) \in SUBSET ((1..MaxPages) \X Category)
              /\ Warned(metadata) \subseteq 1..MaxPages
  BY <1>11, HasReturned, Summaries
<1>12. ASSUME WarningRejected \/ InterruptReturned PROVE TypeOK'
  <2>1. PICK o \in {"SourceWarningError", "KeyboardInterrupt"} : Returned(o, Sanitized(metadata))
    BY <1>12, Zenon DEF WarningRejected, InterruptReturned
  <2>2. pc = "returned" /\ o \in Errors
    BY <2>1 DEF Returned, Errors
  <2> QED BY <1>10, <1>11, <2>1, <2>2, Zenon
<1>13. ASSUME StructureRejected PROVE TypeOK'
  <2>1. PICK n \in Warned(metadata) : Returned("SourceWarningError", {<<n, "UNKNOWN">>})
    BY <1>13 DEF StructureRejected
  <2>2. n \in 1..MaxPages
    BY <1>11, <2>1 DEF Returned
  <2>3. {<<n, "UNKNOWN">>} \in SUBSET ((1..MaxPages) \X Category)
    BY <2>2 DEF Category
  <2>4. "SourceWarningError" \in {"success"} \cup Errors
    BY DEF Errors
  <2> QED BY <1>10, <2>1, <2>3, <2>4, Zenon
<1>14. ASSUME RecordsRejected \/ Succeed PROVE TypeOK'
  <2>1. PICK o \in {"LaterFailure", "success"} : Returned(o, Summary(metadata))
    BY <1>14, Zenon DEF RecordsRejected, Succeed
  <2>2. pc = "returned" /\ o \in {"success"} \cup Errors
    BY <2>1 DEF Returned, Errors
  <2> QED BY <1>10, <1>11, <2>1, <2>2, Zenon
<1>15. ASSUME TokenInformation PROVE TypeOK'
  <2>1. PICK o \in {"success", "LaterFailure"} : \E w \in {Null, {}} : Ends(o, 1, 1, w)
    BY <1>15, Zenon DEF TokenInformation
  <2>w. PICK w \in {Null, {}} : Ends(o, 1, 1, w)
    BY <2>1
  <2>2. /\ UNCHANGED <<about, attempted, retry, page, fetched, records, metadata>>
        /\ posts' = posts + 1 /\ sent' = sent + 1
    BY <1>15 DEF TokenInformation, Post
  <2>3. 1 \in 0..MaxPages /\ o \in {"success"} \cup Errors
    BY <2>1 DEF Errors
  <2>4. attempted' - callsBefore \in 0..MaxCalls
    BY <1>c, <2>2
  <2>5. row' \in Rows
    <3>1. w \in {Null} \cup SUBSET ((1..MaxPages) \X Category)
      BY <2>w, Zenon
    <3> QED BY <2>w, <2>3, <2>4, <3>1, RowType, Zenon
  <2>6. seen' \in Seq(Warnings)
    <3>1. PICK v \in Warnings : seen' = Append(seen, v)
      BY <1>15, Zenon DEF TokenInformation
    <3> QED BY <1>t, <3>1, AppendProperties DEF TypeOK
  <2> QED BY <1>t, <2>w, <2>2, <2>5, <2>6 DEF Ends, TypeOK, about
<1>16. ASSUME InterruptRequest PROVE TypeOK'
  <2>1. row' \in Rows
    BY <1>16, <1>c, <1>n, RowType DEF InterruptRequest, Raises, Errors, about
  <2> QED BY <1>16, <1>t, <2>1 DEF InterruptRequest, Raises, Ends, TypeOK, pages, about
<1>17. CASE UNCHANGED vars
  BY <1>17, <1>t DEF vars, request, pages, about, TypeOK
<1> QED BY <1>1, <1>2, <1>3, <1>4, <1>5, <1>6, <1>8, <1>9, <1>12, <1>13, <1>14, <1>15, <1>16, <1>17
        DEF Next, Progress

\* The budget and the audit row: what was reserved is in flight or has left.
LEMMA CountedStep == IInv /\ [Next]_vars => Counted' /\ AuditedCallsWereSent'
<1> SUFFICES ASSUME IInv, [Next]_vars PROVE Counted' /\ AuditedCallsWereSent'
  OBVIOUS
<1>t. TypeOK /\ Counted /\ AuditedCallsWereSent
  BY DEF IInv
<1>n. /\ attempted \in Nat /\ callsBefore \in Nat /\ posts \in Nat /\ sent \in Nat
      /\ attempted + 1 \in Nat
  BY <1>t DEF TypeOK
<1>p. ASSUME Post, pc' # "posting"
      PROVE  Counted' /\ attempted' - callsBefore = sent'
  BY <1>p, <1>t, <1>n DEF Post, Counted, InFlight, Running, Requesting, about
<1>e. ASSUME NEW o, NEW k, NEW n, NEW w, Ends(o, k, n, w), attempted' - callsBefore = sent'
      PROVE  AuditedCallsWereSent'
  BY <1>e DEF Ends, CallsOfThis, AuditedCallsWereSent
<1>q. ASSUME Post, NEW o, NEW k, NEW n, NEW w, Ends(o, k, n, w)
      PROVE  Counted' /\ AuditedCallsWereSent'
  BY <1>q, <1>p, <1>e DEF Ends
<1>r. ASSUME NEW o, NEW w, Returned(o, w)
      PROVE  Counted' /\ AuditedCallsWereSent'
  <2>1. pc = "returned" /\ UNCHANGED <<attempted, callsBefore, posts, sent>> /\ pc' = "ended"
    BY <1>r DEF Returned, Ends, request, about
  <2>2. attempted' - callsBefore = sent'
    BY <1>t, <1>n, <2>1 DEF Counted, InFlight, Running
  <2>3. AuditedCallsWereSent'
    BY <1>r, <1>e, <2>2 DEF Returned
  <2>4. Counted'
    BY <1>t, <1>n, <2>1 DEF Counted, InFlight, Running, Requesting
  <2> QED BY <2>3, <2>4
<1>1. CASE StartCall
  BY <1>1, <1>t, <1>n DEF StartCall, Counted, InFlight, Running, Requesting, AuditedCallsWereSent
<1>2. CASE ReserveRequest
  BY <1>2, <1>t, <1>n
     DEF ReserveRequest, Counted, InFlight, Running, Requesting, AuditedCallsWereSent, about
<1>3. CASE OutOfBudget
  <2>1. pc = "reserving" /\ UNCHANGED <<attempted, callsBefore, posts, sent>> /\ pc' = "ended"
    BY <1>3 DEF OutOfBudget, Raises, Ends, request, about
  <2>2. attempted' - callsBefore = sent'
    BY <1>t, <1>n, <2>1 DEF Counted, InFlight, Running, Requesting
  <2>3. AuditedCallsWereSent'
    BY <1>3, <1>e, <2>2 DEF OutOfBudget, Raises
  <2>4. Counted'
    BY <1>t, <1>n, <2>1 DEF Counted, InFlight, Running, Requesting
  <2> QED BY <2>3, <2>4
<1>4. CASE Retry
  BY <1>4, <1>p DEF Retry, AuditedCallsWereSent
<1>5. CASE RequestFails
  BY <1>5, <1>q DEF RequestFails, Raises
<1>6. CASE MalformedWarnings
  BY <1>6, <1>q DEF MalformedWarnings, PageArrives
<1>8. ASSUME NEW w \in Warnings \ {"malformed"}, BadPage(w)
      PROVE  Counted' /\ AuditedCallsWereSent'
  BY <1>8, <1>q DEF BadPage, PageArrives, Raises
<1>9. ASSUME NEW w \in Warnings \ {"malformed"}, GoodPage(w)
      PROVE  Counted' /\ AuditedCallsWereSent'
  <2>1. Post /\ (pc' \in {"returned", "reserving"} \/ \E o, k, n, m : Ends(o, k, n, m))
    BY <1>9 DEF GoodPage, PageArrives
  <2>2. CASE pc' \in {"returned", "reserving"}
    BY <1>p, <2>1, <2>2 DEF AuditedCallsWereSent
  <2> QED BY <1>q, <2>1, <2>2
<1>10. CASE WarningRejected \/ InterruptReturned
  BY <1>10, <1>r DEF WarningRejected, InterruptReturned
<1>11. CASE StructureRejected
  BY <1>11, <1>r DEF StructureRejected
<1>12. CASE RecordsRejected \/ Succeed
  BY <1>12, <1>r DEF RecordsRejected, Succeed
<1>13. CASE TokenInformation
  BY <1>13, <1>q DEF TokenInformation
<1>14. CASE InterruptRequest
  <2>1. UNCHANGED <<attempted, callsBefore>> /\ pc' = "ended"
    BY <1>14 DEF InterruptRequest, Raises, Ends, about
  <2>2. row'.outcome = "KeyboardInterrupt" /\ row'.calls = attempted - callsBefore
    BY <1>14, <2>1 DEF InterruptRequest, Raises, Ends, CallsOfThis
  <2>3. CASE UNCHANGED <<posts, sent>>
    BY <1>14, <1>t, <1>n, <2>1, <2>2, <2>3
       DEF InterruptRequest, Counted, InFlight, Running, Requesting, AuditedCallsWereSent
  <2>4. CASE pc = "posting" /\ posts' = posts + 1 /\ sent' = sent + 1
    BY <1>t, <1>n, <2>1, <2>2, <2>4
       DEF Counted, InFlight, Running, Requesting, AuditedCallsWereSent
  <2> QED BY <1>14, <2>3, <2>4 DEF InterruptRequest
<1>15. CASE UNCHANGED vars
  BY <1>15, <1>t
     DEF vars, request, pages, about, Counted, InFlight, Running, Requesting, AuditedCallsWereSent
<1> QED BY <1>1, <1>2, <1>3, <1>4, <1>5, <1>6, <1>8, <1>9, <1>10, <1>11, <1>12, <1>13, <1>14, <1>15
        DEF Next, Progress

\* The pages: a retry asks for the same page, and only a page that arrived moves on.
LEMMA PagesStep == IInv /\ [Next]_vars => PagesInOrder'
<1> SUFFICES ASSUME IInv, [Next]_vars PROVE PagesInOrder'
  OBVIOUS
<1>t. TypeOK /\ PagesInOrder
  BY DEF IInv
<1>e. ASSUME pc' \in {"idle", "ended"} PROVE PagesInOrder'
  BY <1>e DEF PagesInOrder, Running, Requesting
<1>f. ASSUME NEW o, NEW k, NEW n, NEW w, Ends(o, k, n, w) PROVE PagesInOrder'
  BY <1>e, <1>f DEF Ends
<1>1. CASE StartCall
  <2>1. /\ pc' = "reserving" /\ page' = 1 /\ fetched' = 0 /\ last' \in 1..(MaxPages + 1)
        /\ records' = << >> /\ metadata' = << >> /\ seen' = << >>
    BY <1>1 DEF StartCall
  <2>2. << >> = [n \in 1..0 |-> n] /\ << >> \in [1..0 -> Warnings \ {"malformed"}]
    OBVIOUS
  <2>3. 1 <= last' /\ 1 <= MaxPages
    BY <2>1
  <2> QED BY <2>1, <2>2, <2>3 DEF PagesInOrder, Running, Requesting
<1>2. CASE ReserveRequest \/ Retry
  <2>1. Requesting /\ pc' \in {"reserving", "posting"} /\ UNCHANGED <<pages, about>>
    BY <1>2 DEF ReserveRequest, Retry, Post, Requesting
  <2> QED BY <1>t, <2>1 DEF PagesInOrder, Running, Requesting, pages, about
<1>3. CASE OutOfBudget \/ RequestFails \/ MalformedWarnings \/ TokenInformation \/ InterruptRequest
  BY <1>3, <1>f
     DEF OutOfBudget, RequestFails, MalformedWarnings, TokenInformation, InterruptRequest, Raises
<1>4. ASSUME NEW w \in Warnings \ {"malformed"}, BadPage(w) PROVE PagesInOrder'
  BY <1>4, <1>f DEF BadPage, Raises
<1>5. ASSUME NEW w \in Warnings \ {"malformed"}, GoodPage(w) PROVE PagesInOrder'
  <2>1. /\ Requesting /\ Paginated /\ kind' = kind /\ last' = last
        /\ metadata' = Append(metadata, w) /\ seen' = Append(seen, w)
        /\ records' = Append(records, page) /\ fetched' = fetched + 1
    BY <1>5 DEF GoodPage, PageArrives, Post, Requesting, Paginated, about
  <2>2. /\ records' = [n \in 1..fetched' |-> n]
        /\ metadata' \in [1..fetched' -> Warnings \ {"malformed"}]
        /\ seen' = metadata' /\ page = fetched + 1 /\ fetched \in 0..(MaxPages - 1)
    BY <2>1, Asking
  <2>3. page <= last /\ last \in Nat
    BY <1>t, <2>1 DEF PagesInOrder, TypeOK
  <2>4. CASE page = last /\ pc' = "returned"
    BY <2>1, <2>2, <2>4 DEF PagesInOrder, Running, Requesting, Paginated
  <2>5. CASE page # last /\ page' = page + 1 /\ fetched' < MaxPages /\ pc' = "reserving"
    <3>1. page' = fetched' + 1 /\ page' <= last' /\ page' <= MaxPages
      BY <2>1, <2>2, <2>3, <2>5
    <3> QED BY <2>1, <2>2, <2>5, <3>1 DEF PagesInOrder, Running, Requesting
  <2>6. CASE \E o, k, n, m : Ends(o, k, n, m)
    BY <1>f, <2>6
  <2> QED BY <1>5, <2>4, <2>5, <2>6 DEF GoodPage
<1>6. CASE WarningRejected \/ InterruptReturned \/ StructureRejected \/ RecordsRejected \/ Succeed
  BY <1>6, <1>f
     DEF WarningRejected, InterruptReturned, StructureRejected, RecordsRejected, Succeed, Returned
<1>7. CASE UNCHANGED vars
  BY <1>7, <1>t DEF vars, request, pages, about, PagesInOrder, Running, Requesting, Paginated
<1> QED BY <1>1, <1>2, <1>3, <1>4, <1>5, <1>6, <1>7 DEF Next, Progress

\* What a call that ends hands out: the pages, and the warnings that came with them.
LEMMA OutcomeStep ==
  IInv /\ [Next]_vars => EveryPageOnce' /\ OnlyApprovedWarningsSucceed' /\ WarnedPagesNamed'
<1> DEFINE Good == EveryPageOnce /\ OnlyApprovedWarningsSucceed /\ WarnedPagesNamed
<1> SUFFICES ASSUME IInv, [Next]_vars PROVE Good'
  OBVIOUS
<1>t. Good
  BY DEF IInv
<1>g. ASSUME pc' # "ended" PROVE Good'
  BY <1>g DEF EveryPageOnce, OnlyApprovedWarningsSucceed, WarnedPagesNamed, Ended
<1>e. ASSUME NEW o \in Errors, NEW k, NEW n, NEW w, Ends(o, k, n, w),
             \/ Named(w) = Warned(seen')
             \/ o = "SourceWarningError" /\ Named(w) = FirstWarned(seen')
             \/ w = Null /\ o \in MidCall
      PROVE  Good'
  <2>1. pc' = "ended" /\ row'.outcome = o /\ row'.warnings = w /\ o # "success"
    BY <1>e DEF Ends, Errors
  <2>2. EveryPageOnce' /\ OnlyApprovedWarningsSucceed'
    BY <2>1 DEF EveryPageOnce, OnlyApprovedWarningsSucceed, Ended
  <2>3. Warned(seen)' = Warned(seen') /\ FirstWarned(seen)' = FirstWarned(seen')
    BY DEF Warned, FirstWarned
  <2>4. Named(row.warnings)' = Named(w)
    BY <2>1 DEF Named
  <2>5. WarnedPagesNamed'
    BY <1>e, <2>1, <2>3, <2>4 DEF WarnedPagesNamed
  <2> QED BY <2>2, <2>5
<1>f. ASSUME NEW o \in MidCall, Raises(o) PROVE Good'
  <2>1. o \in Errors
    BY DEF MidCall
  <2> QED BY <1>e, <1>f, <2>1 DEF Raises
<1>r. ASSUME NEW o \in Errors, NEW w, Returned(o, w),
             \/ Named(w) = Warned(metadata)
             \/ o = "SourceWarningError" /\ Named(w) = FirstWarned(metadata)
      PROVE  Good'
  <2>1. seen' = metadata
    BY <1>r, HasReturned DEF Returned, pages
  <2> QED BY <1>e, <1>r, <2>1 DEF Returned
<1>s. ASSUME pc = "returned"
      PROVE  /\ Named(Sanitized(metadata)) = Warned(metadata)
             /\ Named(Summary(metadata)) = Warned(metadata)
             /\ Warned(metadata) \subseteq Int
  BY <1>s, HasReturned, Summaries
<1>1. CASE StartCall \/ ReserveRequest \/ Retry
  BY <1>1, <1>g DEF StartCall, ReserveRequest, Retry
<1>2. CASE OutOfBudget \/ RequestFails \/ InterruptRequest
  BY <1>2, <1>f DEF OutOfBudget, RequestFails, InterruptRequest, MidCall, Errors
<1>3. CASE MalformedWarnings
  <2>1. Requesting /\ seen' = Append(seen, "malformed")
    BY <1>3 DEF MalformedWarnings, PageArrives, Post, Requesting
  <2>2. /\ seen' = Append(metadata, "malformed") /\ fetched + 1 \in 1..MaxPages
        /\ Append(metadata, "malformed") \in [1..(fetched + 1) -> Warnings]
    BY <2>1, Asking
  <2>3. Named(Sanitized(Append(metadata, "malformed"))) = Warned(seen')
    BY <2>2, Summaries
  <2> QED BY <1>3, <1>e, <2>3 DEF MalformedWarnings, Errors
<1>4. ASSUME NEW w \in Warnings \ {"malformed"}, BadPage(w) PROVE Good'
  BY <1>4, <1>f DEF BadPage, MidCall, Errors
<1>5. ASSUME NEW w \in Warnings \ {"malformed"}, GoodPage(w) PROVE Good'
  <2>1. Requesting /\ seen' = Append(seen, w) /\ metadata' = Append(metadata, w)
    BY <1>5 DEF GoodPage, PageArrives, Post, Requesting
  <2>2. /\ seen' = metadata' /\ fetched + 1 \in 1..MaxPages
        /\ metadata' \in [1..(fetched + 1) -> Warnings]
    BY <2>1, Asking
  <2>3. Named(SummaryOrSanitized(metadata')) = Warned(seen')
    BY <2>2, Summaries
  <2>4. CASE pc' \in {"reserving", "returned"}
    BY <1>g, <2>4
  <2>5. CASE Ends("PaginationLimitReached", fetched', Len(records'), SummaryOrSanitized(metadata'))
    BY <1>e, <2>3, <2>5 DEF Errors
  <2> QED BY <1>5, <2>4, <2>5 DEF GoodPage
<1>6. CASE WarningRejected \/ InterruptReturned
  BY <1>6, <1>r, <1>s DEF WarningRejected, InterruptReturned, Returned, Errors
<1>7. CASE StructureRejected
  <2>1. PICK n \in Warned(metadata) :
          /\ \A m \in Warned(metadata) : n <= m
          /\ Returned("SourceWarningError", {<<n, "UNKNOWN">>})
    BY <1>7 DEF StructureRejected
  <2>2. Warned(metadata) \subseteq Int
    BY <1>s, <2>1 DEF Returned
  <2>3. FirstWarned(metadata) = {n}
    BY <2>1, <2>2 DEF FirstWarned
  <2>4. Named({<<n, "UNKNOWN">>}) = {n}
    BY DEF Named
  <2>5. "SourceWarningError" \in Errors
    BY DEF Errors
  <2> QED BY <1>r, <2>1, <2>3, <2>4, <2>5
<1>8. CASE RecordsRejected
  BY <1>8, <1>r, <1>s DEF RecordsRejected, Returned, Errors
<1>9. CASE Succeed
  <2>1. /\ pc = "returned" /\ Unapproved(metadata) = {} /\ pc' = "ended"
        /\ UNCHANGED <<kind, last, records, seen>> /\ row'.warnings = Summary(metadata)
    BY <1>9 DEF Succeed, Returned, Ends, pages, about
  <2>2. /\ records = [n \in 1..last |-> n] /\ seen = metadata
        /\ metadata \in [1..fetched -> Warnings] /\ fetched \in Nat
    BY <2>1, HasReturned
  <2>3. EveryPageOnce'
    BY <2>1, <2>2 DEF EveryPageOnce
  <2>4. \A n \in 1..Len(metadata) :
          metadata[n] = "none" \/ (metadata[n] = "fingerprinted" /\ kind = "smart_money flows")
    <3> SUFFICES ASSUME NEW n \in 1..Len(metadata), metadata[n] # "none"
                 PROVE  metadata[n] = "fingerprinted" /\ kind = "smart_money flows"
      OBVIOUS
    <3>1. Classify(metadata[n]) # "UNKNOWN"
      BY <2>1 DEF Unapproved, Warned
    <3> QED BY <3>1 DEF Classify
  <2>5. OnlyApprovedWarningsSucceed'
    <3>1. seen' = metadata /\ kind' = kind
      BY <2>1, <2>2
    <3> QED BY <2>4, <3>1 DEF OnlyApprovedWarningsSucceed
  <2>6. WarnedPagesNamed'
    <3>1. Named(row'.warnings) = Warned(seen')
      BY <1>s, <2>1, <2>2
    <3>2. Named(row.warnings)' = Named(row'.warnings) /\ Warned(seen)' = Warned(seen')
      BY DEF Named, Warned
    <3> QED BY <3>1, <3>2 DEF WarnedPagesNamed
  <2> QED BY <2>3, <2>5, <2>6
<1>10. CASE TokenInformation
  <2>1. kind' = "token information"
    BY <1>10 DEF TokenInformation, Post, about
  <2>2. EveryPageOnce' /\ OnlyApprovedWarningsSucceed'
    BY <2>1 DEF EveryPageOnce, OnlyApprovedWarningsSucceed, Paginated
  <2>3. WarnedPagesNamed'
    <3>1. CASE Ends("success", 1, 1, {})
      BY <2>1, <3>1 DEF Ends, WarnedPagesNamed, Paginated
    <3>2. CASE Ends("LaterFailure", 1, 1, Null)
      BY <2>1, <3>2 DEF Ends, WarnedPagesNamed, Paginated
    <3> QED BY <1>10, <3>1, <3>2 DEF TokenInformation
  <2> QED BY <2>2, <2>3
<1>11. CASE UNCHANGED vars
  BY <1>11, <1>t DEF vars, request, pages, about, EveryPageOnce, OnlyApprovedWarningsSucceed,
       WarnedPagesNamed, Named, Warned, FirstWarned, Ended, Paginated
<1> QED BY <1>1, <1>2, <1>3, <1>4, <1>5, <1>6, <1>7, <1>8, <1>9, <1>10, <1>11 DEF Next, Progress

-------------------------------------------------------------------------------

LEMMA Inductive == Spec => []IInv
<1>1. IInv /\ [Next]_vars => IInv'
  BY TypeStep, CountedStep, PagesStep, OutcomeStep DEF IInv
<1> QED BY InitIInv, <1>1, PTL DEF Spec

\* Every variable keeps its type, and a page is never tried more than
\* max_retries times again (client.py, request).
THEOREM TypeCorrect == Spec => []TypeOK
<1>1. IInv => TypeOK
  BY DEF IInv
<1> QED BY Inductive, <1>1, PTL

\* However many calls, pages and retries a client makes requests for, no more than
\* max_calls of them leave it (client.py, _reserve_request).
THEOREM BudgetHolds == Spec => []PostsWithinBudget
<1>1. IInv => PostsWithinBudget
  BY DEF IInv, TypeOK, Counted, InFlight, PostsWithinBudget
<1> QED BY Inductive, <1>1, PTL

\* The pages of a paginated call that succeeded are all there, in order, each
\* once (client.py, paginate_with_metadata).
THEOREM PagesComplete == Spec => []EveryPageOnce
<1>1. IInv => EveryPageOnce
  BY DEF IInv
<1> QED BY Inductive, <1>1, PTL

\* api_calls of the audit row is what the call sent, or one more where Ctrl-C fell
\* between the reservation and the post (ingestion.py, the finally of _ingest_historical).
THEOREM AuditTrue == Spec => []AuditedCallsWereSent
<1>1. IInv => AuditedCallsWereSent
  BY DEF IInv
<1> QED BY Inductive, <1>1, PTL

\* No call succeeds on a warning that was not approved for what it asked for
\* (source_warnings.py, summarize_page_warnings).
THEOREM WarningsApproved == Spec => []OnlyApprovedWarningsSucceed
<1>1. IInv => OnlyApprovedWarningsSucceed
  BY DEF IInv
<1> QED BY Inductive, <1>1, PTL

\* The audit row names the pages that were warned, and says nothing of them only for a
\* paginated call that ended before its pages were returned and for a failed
\* token-information call; a successful one says the empty list uninspected (ingestion.py,
\* the exception handlers of _ingest_historical; source_warnings.py,
\* sanitized_unknown_summaries; postgres.py, complete_ingestion_run).
THEOREM WarnedPagesAreNamed == Spec => []WarnedPagesNamed
<1>1. IInv => WarnedPagesNamed
  BY DEF IInv
<1> QED BY Inductive, <1>1, PTL

\* The evidence that docs/operations.md promises is there for every call whose pages were
\* all returned.
THEOREM ReturnedCallsKeepEvidence ==
  Spec => [](row.outcome \notin MidCall => WarnedRunsKeepEvidence)
<1>1. IInv => (row.outcome \notin MidCall => WarnedRunsKeepEvidence)
  <2> SUFFICES ASSUME IInv, row.outcome \notin MidCall, pc = "ended", Paginated,
                      row.warnings = Null, NEW k \in 1..Len(seen), seen[k] # "none"
               PROVE  FALSE
    BY DEF WarnedRunsKeepEvidence
  <2>1. k \in Warned(seen) /\ 0 \notin Warned(seen)
    BY DEF Warned
  <2>2. Named(Null) = {0}
    BY DEF Named, Null
  <2>3. 0 \notin FirstWarned(seen)
    BY <2>1 DEF FirstWarned
  <2> QED BY <2>1, <2>2, <2>3 DEF IInv, WarnedPagesNamed
<1> QED BY Inductive, <1>1, PTL

-------------------------------------------------------------------------------
(* Termination, but for the fairness. *)

\* What the budget leaves, three steps a request, and where the request stands.
Left == 3 * (MaxCalls - attempted) + (CASE pc = "posting" -> 3 [] pc = "reserving" -> 2
                                        [] pc = "returned" -> 1 [] OTHER -> 0)

\* Each step of a running call leaves less of a natural number: whatever the retries and
\* the page limit, a call makes at most 3 * MaxCalls + 2 steps.  What EveryCallEnds needs
\* besides is that a call which can go on does (client.py, request; timeouts).
THEOREM CallsRunDown == Spec => [](Left \in Nat) /\ [][Running => Left' < Left]_vars
<1> DEFINE place(p) == CASE p = "posting" -> 3 [] p = "reserving" -> 2
                         [] p = "returned" -> 1 [] OTHER -> 0
<1>1. IInv => Left \in Nat
  <2> SUFFICES ASSUME IInv PROVE Left \in Nat
    OBVIOUS
  <2>1. attempted \in 0..MaxCalls /\ MaxCalls \in Nat
    BY DEF IInv, TypeOK
  <2>2. place(pc) \in 0..3
    OBVIOUS
  <2>3. Left = 3 * (MaxCalls - attempted) + place(pc)
    BY DEF Left
  <2> HIDE DEF place
  <2>4. MaxCalls - attempted \in Nat
    BY <2>1
  <2>5. \A x \in Nat : \A y \in 0..3 : 3 * x + y \in Nat
    OBVIOUS
  <2> QED BY <2>2, <2>3, <2>4, <2>5
<1>2. IInv /\ IInv' /\ [Next]_vars => [Running => Left' < Left]_vars
  <2> SUFFICES ASSUME IInv, IInv', Next, Running PROVE Left' < Left
    OBVIOUS
  <2>1. attempted \in 0..MaxCalls /\ attempted' \in 0..MaxCalls /\ MaxCalls \in Nat
    BY DEF IInv, TypeOK
  <2>2. Left = 3 * (MaxCalls - attempted) + place(pc) /\ Left' = 3 * (MaxCalls - attempted') + place(pc')
    BY DEF Left
  <2>3. CASE ReserveRequest
    <3>1. pc = "reserving" /\ pc' = "posting" /\ attempted' = attempted + 1
      BY <2>3 DEF ReserveRequest
    <3> QED BY <2>1, <2>2, <3>1
  <2>4. ASSUME attempted' = attempted, pc = "posting", pc' # "posting" PROVE Left' < Left
    BY <2>1, <2>2, <2>4
  <2>5. ASSUME attempted' = attempted, pc \in {"reserving", "posting", "returned"}, pc' = "ended"
        PROVE  Left' < Left
    BY <2>1, <2>2, <2>5
  <2>6. CASE OutOfBudget
    BY <2>5, <2>6 DEF OutOfBudget, Raises, Ends, request
  <2>7. CASE Retry \/ RequestFails
    BY <2>4, <2>7 DEF Retry, RequestFails, Post, Raises, Ends
  <2>8. CASE MalformedWarnings
    BY <2>4, <2>8 DEF MalformedWarnings, PageArrives, Post, Ends
  <2>9. ASSUME NEW w, BadPage(w) \/ GoodPage(w) PROVE Left' < Left
    BY <2>4, <2>9 DEF BadPage, GoodPage, PageArrives, Post, Raises, Ends
  <2>10. CASE WarningRejected \/ StructureRejected \/ RecordsRejected \/ Succeed \/ InterruptReturned
    <3>1. \E o, w : Returned(o, w)
      BY <2>10 DEF WarningRejected, StructureRejected, RecordsRejected, Succeed, InterruptReturned
    <3> QED BY <2>5, <3>1 DEF Returned, Ends, request
  <2>11. CASE TokenInformation
    BY <2>4, <2>11 DEF TokenInformation, Post, Ends
  <2>12. CASE InterruptRequest
    BY <2>5, <2>12 DEF InterruptRequest, Raises, Ends
  <2>13. CASE StartCall
    BY <2>13 DEF StartCall, Running, Requesting
  <2> QED BY <2>3, <2>6, <2>7, <2>8, <2>9, <2>10, <2>11, <2>12, <2>13 DEF Next, Progress
<1> QED BY <1>1, <1>2, Inductive, PTL DEF Spec

===============================================================================
