----------------------------- MODULE NansenClient -----------------------------
(***************************************************************************)
(* One NansenClient and the calls an ingestion orchestrator makes with it, *)
(* one after another: the bounded retries of a page, the one request       *)
(* budget of all calls, pagination, and the audit row a call leaves.  The  *)
(* data transaction between the last page and the audit row is the subject *)
(* of IngestionLifecycle.  The source answers as it likes; a page's data   *)
(* is abstracted to its number.                                            *)
(***************************************************************************)
EXTENDS Integers, Sequences

CONSTANTS
  Calls,       \* how many calls are made with the client
  MaxCalls,    \* NansenConfig.max_calls
  MaxRetries,  \* NansenConfig.max_retries
  MaxPages     \* NansenConfig.max_pages

ASSUME BoundsAssumption ==
  /\ Calls \in Nat \ {0} /\ MaxCalls \in Nat \ {0} /\ MaxPages \in Nat \ {0}
  /\ MaxRetries \in Nat

VARIABLES
  pc,           \* where the current call stands
  kind,         \* what it asks for
  last,         \* the page the source marks as its last
  attempted,    \* requests_attempted of the client, never reset
  callsBefore,  \* calls_before of the call
  retry,        \* retry_number of the page
  page,         \* the page the payload asks for
  fetched,      \* pages_fetched
  records,      \* the data collected
  metadata,     \* page_metadata: the warnings of each page
  row,          \* what the audit row of the call says when it has ended
  calls,        \* history: calls started
  posts,        \* history: posts that left the client, ever
  sent,         \* history: posts of the call
  seen          \* history: the warnings of the pages of the call that arrived

request == <<attempted, retry, posts, sent>>
pages == <<page, fetched, records, metadata, seen>>
about == <<kind, last, callsBefore, calls>>
vars == <<pc, request, pages, about, row>>

\* Only smart_money flows have an approved warning.
Kinds == {"smart_money flows", "other records", "token information"}

\* A page's warnings: none, the fingerprinted text, another text, not a list of strings.
Warnings == {"none", "fingerprinted", "other", "malformed"}

Errors == {"RequestBudgetExceeded", "NansenTransportError", "NansenHTTPError", "ResponseDecodeError",
           "ResponseContractError", "PaginationLimitReached", "SourceWarningError", "LaterFailure", "KeyboardInterrupt"}

\* source_warnings: NULL, or the warned pages with the category of each.
Null == {<<0, "NULL">>}
Category == {"NON_EXCHANGE_BREAKDOWN_UNAVAILABLE", "UNKNOWN"}

\* There is no row while the call runs.
NoRow == [outcome |-> "running", pages |-> 0, calls |-> 0, received |-> 0, warnings |-> Null]
Rows == [outcome: {"success"} \cup Errors, pages: 0..MaxPages, calls: 0..MaxCalls,
         received: 0..MaxPages, warnings: {Null} \cup SUBSET ((1..MaxPages) \X Category)]

Init ==
  /\ pc = "idle" /\ kind \in Kinds /\ last = 1
  /\ attempted = 0 /\ callsBefore = 0 /\ retry = 0
  /\ page = 1 /\ fetched = 0 /\ records = << >> /\ metadata = << >>
  /\ row = NoRow
  /\ calls = 0 /\ posts = 0 /\ sent = 0 /\ seen = << >>

-------------------------------------------------------------------------------
(* The rules. *)

HasBudgetOffByOne == attempted <= MaxCalls

\* _reserve_request
HasBudget == attempted < MaxCalls

RetriesLeftOffByOne == retry <= MaxRetries

RetriesLeft == retry < MaxRetries

TextDecides(warning) ==
  IF warning = "fingerprinted" THEN "NON_EXCHANGE_BREAKDOWN_UNAVAILABLE" ELSE "UNKNOWN"

\* classify_warning: the approved text is approved for smart_money flows alone.
Classify(warning) ==
  IF warning = "fingerprinted" /\ kind = "smart_money flows"
  THEN "NON_EXCHANGE_BREAKDOWN_UNAVAILABLE" ELSE "UNKNOWN"

Warned(meta) == {n \in 1..Len(meta) : meta[n] # "none"}

Unapproved(meta) == {n \in Warned(meta) : Classify(meta[n]) = "UNKNOWN"}

\* summarize_page_warnings, for pages none of which it rejects.
Summary(meta) == {<<n, Classify(meta[n])>> : n \in Warned(meta)}

SanitizedApprovedOnly(meta) == {<<n, "UNKNOWN">> : n \in Warned(meta) \ Unapproved(meta)}

\* sanitized_unknown_summaries
Sanitized(meta) == {<<n, "UNKNOWN">> : n \in Warned(meta)}

SummaryOrSanitized(meta) == IF Unapproved(meta) = {} THEN Summary(meta) ELSE Sanitized(meta)

CallsEver == attempted'

\* requests_attempted - calls_before, as the row is written.
CallsOfThis == attempted' - callsBefore

Ends(outcome, fetchedPages, received, warnings) ==
  /\ pc' = "ended"
  /\ row' = [outcome |-> outcome, pages |-> fetchedPages, calls |-> CallsOfThis,
             received |-> received, warnings |-> warnings]

\* An error without page_metadata before the pages are returned.
Raises(error) == Ends(error, 0, 0, Null)

-------------------------------------------------------------------------------
(* request. *)

StartCall ==
  /\ pc \in {"idle", "ended"} /\ calls < Calls
  /\ pc' = "reserving" /\ kind' \in Kinds /\ last' \in 1..(MaxPages + 1)
  /\ callsBefore' = attempted /\ retry' = 0
  /\ page' = 1 /\ fetched' = 0 /\ records' = << >> /\ metadata' = << >>
  /\ row' = NoRow
  /\ calls' = calls + 1 /\ sent' = 0 /\ seen' = << >>
  /\ UNCHANGED <<attempted, posts>>

\* A retry spends the budget as a first try does.
ReserveRequest ==
  /\ pc = "reserving" /\ HasBudget
  /\ pc' = "posting" /\ attempted' = attempted + 1
  /\ UNCHANGED <<retry, posts, sent, pages, about, row>>

WaitForBudget == UNCHANGED vars

OutOfBudget ==
  /\ pc = "reserving" /\ ~HasBudget
  /\ UNCHANGED <<request, pages, about>>
  /\ Raises("RequestBudgetExceeded")

Post ==
  /\ pc = "posting"
  /\ posts' = posts + 1 /\ sent' = sent + 1
  /\ UNCHANGED <<attempted, about>>

RetryNextPage ==
  /\ Post /\ RetriesLeft
  /\ pc' = "reserving" /\ retry' = retry + 1 /\ page' = page + 1
  /\ UNCHANGED <<fetched, records, metadata, seen, row>>

\* A transport failure, or a status of RETRYABLE_STATUSES.
Retry ==
  /\ Post /\ RetriesLeft
  /\ pc' = "reserving" /\ retry' = retry + 1
  /\ UNCHANGED <<pages, row>>

\* The last try fails, another status is not a success, or the body is not a JSON object.
RequestFails ==
  /\ Post
  /\ \/ ~RetriesLeft /\ Raises("NansenTransportError")
     \/ \E error \in {"NansenHTTPError", "ResponseDecodeError"} : Raises(error)
  /\ UNCHANGED <<retry, pages>>

\* Ctrl-C before the post, while its answer is awaited, or in one of the sleeps.
InterruptRequest ==
  /\ pc \in {"reserving", "posting"}
  /\ \/ UNCHANGED <<posts, sent>>
     \/ pc = "posting" /\ posts' = posts + 1 /\ sent' = sent + 1
  /\ UNCHANGED <<attempted, retry, pages, about>>
  /\ Raises("KeyboardInterrupt")

-------------------------------------------------------------------------------
(* paginate_with_metadata. *)

PageArrives(warning) ==
  /\ Post /\ kind # "token information"
  /\ fetched' = fetched + 1 /\ seen' = Append(seen, warning)
  /\ retry' = 0

\* The error carries the pages so far and the malformed one, which always counts as warned.
MalformedWarnings ==
  /\ PageArrives("malformed")
  /\ Ends("ResponseContractError", 0, 0, Sanitized(Append(metadata, "malformed")))
  /\ UNCHANGED <<page, records, metadata>>

\* data is not a list, or pagination says nothing of the last page.
BadPage(warning) ==
  /\ PageArrives(warning)
  /\ metadata' = Append(metadata, warning)
  /\ Raises("ResponseContractError")
  /\ UNCHANGED <<page, records>>

GoodPage(warning) ==
  /\ PageArrives(warning)
  /\ metadata' = Append(metadata, warning)
  /\ records' = Append(records, page)
  /\ \/ /\ page = last
        /\ pc' = "returned" /\ UNCHANGED <<page, row>>
     \/ /\ page # last /\ page' = page + 1
        /\ IF fetched' < MaxPages
           THEN pc' = "reserving" /\ UNCHANGED row
           ELSE Ends("PaginationLimitReached", fetched', Len(records'), SummaryOrSanitized(metadata'))

-------------------------------------------------------------------------------
(* The rest of _ingest_historical, but for the data transaction. *)

Returned(outcome, warnings) ==
  /\ pc = "returned"
  /\ UNCHANGED <<request, pages, about>>
  /\ Ends(outcome, fetched, Len(records), warnings)

WarningRejected ==
  /\ Unapproved(metadata) # {}
  /\ Returned("SourceWarningError", Sanitized(metadata))

\* The approved warning, and a record with a breakdown all the same: the first page is blamed.
StructureRejected ==
  /\ Unapproved(metadata) = {} /\ kind = "smart_money flows"
  /\ \E n \in Warned(metadata) :
       /\ \A m \in Warned(metadata) : n <= m
       /\ Returned("SourceWarningError", {<<n, "UNKNOWN">>})

\* Ctrl-C before the warnings were summarised.
InterruptReturned == Returned("KeyboardInterrupt", Sanitized(metadata))

\* Normalization or a window check fails, or the data transaction does.
RecordsRejected ==
  /\ Unapproved(metadata) = {}
  /\ Returned("LaterFailure", Summary(metadata))

Succeed ==
  /\ Unapproved(metadata) = {}
  /\ Returned("success", Summary(metadata))

\* ingest_token_information: one request, whose warnings nobody reads.
\* complete_ingestion_run, given none, stores the empty list; _fail stores NULL.
TokenInformation ==
  /\ Post /\ kind = "token information"
  /\ \E warning \in Warnings : seen' = Append(seen, warning)
  /\ Ends("success", 1, 1, {}) \/ Ends("LaterFailure", 1, 1, Null)
  /\ UNCHANGED <<retry, page, fetched, records, metadata>>

-------------------------------------------------------------------------------

\* Some step of the call that is running.
Progress ==
  \/ ReserveRequest \/ OutOfBudget \/ Retry \/ RequestFails
  \/ MalformedWarnings
  \/ \E warning \in Warnings \ {"malformed"} : BadPage(warning) \/ GoodPage(warning)
  \/ WarningRejected \/ StructureRejected \/ RecordsRejected \/ Succeed
  \/ TokenInformation

Next == StartCall \/ Progress \/ InterruptRequest \/ InterruptReturned

Spec == Init /\ [][Next]_vars

\* Posts have a timeout and sleeps a bound, so a call does not stand still.
FairSpec == Spec /\ WF_vars(Progress)

-------------------------------------------------------------------------------
(* Properties. *)

\* Every variable keeps its type and its bound; a page is never tried more
\* than MaxRetries times again.
TypeOK ==
  /\ pc \in {"idle", "reserving", "posting", "returned", "ended"}
  /\ kind \in Kinds /\ last \in 1..(MaxPages + 1)
  /\ attempted \in 0..MaxCalls /\ callsBefore \in 0..MaxCalls
  /\ retry \in 0..MaxRetries
  /\ page \in 1..(MaxPages + 1) /\ fetched \in 0..MaxPages
  /\ records \in Seq(1..MaxPages) /\ metadata \in Seq(Warnings \ {"malformed"})
  /\ row \in Rows \cup {NoRow}
  /\ calls \in 0..Calls /\ posts \in Nat /\ sent \in Nat /\ seen \in Seq(Warnings)

\* The source never sees more posts than max_calls, however many calls, pages
\* and retries the client made them for.
PostsWithinBudget == posts <= MaxCalls

Paginated == kind # "token information"
Ended(outcome) == pc = "ended" /\ row.outcome = outcome

\* A paginated call that succeeds has collected every page of the source, in
\* order, each once, whatever retries lay between them.
EveryPageOnce ==
  Ended("success") /\ Paginated => records = [n \in 1..last |-> n]

\* api_calls of a call that has ended is what it sent, though the client's counter
\* is shared with the calls before it; only Ctrl-C between the reservation and the
\* post makes it one more, and nothing makes it less.
AuditedCallsWereSent ==
  pc = "ended" =>
    row.calls = sent \/ (row.outcome = "KeyboardInterrupt" /\ row.calls = sent + 1)

\* A call with a warning on any page succeeds only when it asked for
\* smart_money flows and every warning was the approved one.
OnlyApprovedWarningsSucceed ==
  Ended("success") /\ Paginated =>
    \A n \in 1..Len(seen) : seen[n] = "none" \/ (seen[n] = "fingerprinted" /\ kind = "smart_money flows")

\* The pages that a source_warnings value names.
Named(warnings) == {w[1] : w \in warnings}

FirstWarned(meta) == {n \in Warned(meta) : \A m \in Warned(meta) : n <= m}

\* How a paginated call may end before its pages are returned.
MidCall == Errors \ {"PaginationLimitReached", "SourceWarningError", "LaterFailure"}

\* source_warnings names exactly the pages that arrived with a warning, or the first of
\* them where a record contradicts the approved one.  NULL, which says nothing, is left
\* only by a paginated call that ended before its pages were returned, or by a failed
\* token-information call.  The empty list does not always mean a clean answer, whatever
\* docs/database.md:142 says of it: a token-information call that succeeds stores it
\* though nobody has read the warnings of its answer.
WarnedPagesNamed ==
  pc = "ended" =>
    \/ Named(row.warnings) = Warned(seen)
    \/ row.outcome = "SourceWarningError" /\ Named(row.warnings) = FirstWarned(seen)
    \/ row.warnings = Null /\ row.outcome # "success" /\ (Paginated => row.outcome \in MidCall)
    \/ row.warnings = {} /\ row.outcome = "success" /\ ~Paginated

\* Every call ends: the budget, the retries and the page limit leave no way
\* to go on for ever.
EveryCallEnds == pc = "reserving" ~> pc = "ended"

\* docs/operations.md says that source_warnings stays NULL only for legacy runs
\* and for runs that fail before any response: a paginated call one of whose
\* pages was warned would keep that evidence.
WarnedRunsKeepEvidence ==
  pc = "ended" /\ Paginated /\ (\E n \in 1..Len(seen) : seen[n] # "none") => row.warnings # Null

===============================================================================
