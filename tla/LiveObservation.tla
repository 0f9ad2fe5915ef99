--------------------------- MODULE LiveObservation ---------------------------
(***************************************************************************)
(* DemoService together with what it fetches: DemoLiveAdapter asks Nansen  *)
(* for the hours before the present one and reports on the latest of those *)
(* that are complete.  An observation is that hour; the state file and the *)
(* page carry it as they carry its stamp in DemoService.                   *)
(***************************************************************************)
EXTENDS DemoService

CONSTANTS
  Window,   \* how many hours a request asks for: twelve in the code
  History,  \* the hours that are complete when the service is first started
  NoHour    \* no observation

HourOf(at) == at \div Interval

ASSUME WindowAssumption == Window \in Nat \ {0}
ASSUME HistoryAssumption == History \subseteq {h \in Int : h < 0}
ASSUME NoHourAssumption == NoHour \notin Int

VARIABLES
  complete,  \* the hours that are complete at Nansen
  asked,     \* the present hour when a thread's request was made
  live,      \* the hour of _cached_live
  saved,     \* that of last_success in the state file
  page,      \* that of what a page read returned last
  withheld   \* history: an answer since then left out a complete hour asked for

observation == <<asked, live, saved, page, withheld>>
liveVars == <<vars, complete, observation>>

LiveInit ==
  /\ Init
  /\ complete = History
  /\ asked = [t \in Threads |-> 0]
  /\ live = NoHour /\ saved = NoHour /\ page = NoHour /\ withheld = FALSE

-------------------------------------------------------------------------------
(* fetch. *)

\* window_start to window_end: the present hour is never asked for.
Asked(t) == (asked[t] - Window)..(asked[t] - 1)

\* Nansen answers with any hours of the window, complete or not.  An answer without the
\* window's first hour withholds nothing: an observation is of a later one.
Withholds(t, hours) ==
  \E h \in Asked(t) \cap complete : h \notin hours /\ h # asked[t] - Window

AnyHour(hours) == hours

\* valid_complete
ValidComplete(hours) == hours \cap complete

\* The last two complete hours have to follow each other.
LatestOf(hours, latest) ==
  /\ latest \in ValidComplete(hours) /\ latest - 1 \in ValidComplete(hours)
  /\ \A h \in ValidComplete(hours) : h <= latest

Answered(t) == asked' = [asked EXCEPT ![t] = 0]

\* The adapter reads the clock of its own when the attempt is saved.
Ask(t) ==
  /\ SendRequest(t)
  /\ asked' = [asked EXCEPT ![t] = HourOf(clock)]
  /\ saved' = IF unsaved' THEN saved ELSE live
  /\ UNCHANGED <<complete, live, page, withheld>>

Observe(t) ==
  /\ FetchSucceeds(t)
  /\ \E hours \in SUBSET Asked(t) :
       LatestOf(hours, live') /\ withheld' = (withheld \/ Withholds(t, hours))
  /\ Answered(t)
  /\ UNCHANGED <<complete, saved, page>>

\* Any other answer is refused, as are foreign, duplicate or daily records and warnings.
Refuse(t) ==
  /\ FetchFails(t)
  /\ Answered(t)
  /\ UNCHANGED <<complete, live, saved, page, withheld>>

Save(t) ==
  /\ Finish(t)
  /\ saved' = IF unsaved' THEN saved ELSE live
  /\ UNCHANGED <<complete, asked, live, page, withheld>>

-------------------------------------------------------------------------------
(* What the other steps of the service do with an observation. *)

\* The observation comes back with its stamp, or is gone with it.
Load ==
  /\ Boot
  /\ \/ LoadState /\ live' = saved
     \/ LoadFails /\ live' = NoHour
  /\ UNCHANGED <<complete, asked, saved, page, withheld>>

Die ==
  /\ Crash
  /\ live' = NoHour /\ asked' = [t \in Threads |-> 0]
  /\ UNCHANGED <<complete, saved, page, withheld>>

ShowPage ==
  ReadLive /\ page' = live /\ withheld' = FALSE /\ UNCHANGED <<complete, asked, live, saved>>

\* An hour that is over becomes complete, in whatever order, and stays so.
CompleteHour ==
  /\ \E h \in 0..(HourOf(clock) - 1) : h \notin complete /\ complete' = complete \cup {h}
  /\ UNCHANGED <<vars, observation>>

Elsewhere ==
  /\ \/ Serve \/ SchedulerLoop \/ Tick
     \/ \E t \in Threads : \/ StartupRefresh(t) \/ OtherCall(t)
                           \/ Acquire(t) \/ Busy(t) \/ NotDue(t) \/ BeginAttempt(t)
  /\ UNCHANGED <<complete, observation>>

LiveNext ==
  \/ Load \/ Die \/ ShowPage \/ CompleteHour \/ Elsewhere
  \/ \E t \in Threads : Ask(t) \/ Observe(t) \/ Refuse(t) \/ Save(t)

LiveSpec == LiveInit /\ [][LiveNext]_liveVars

-------------------------------------------------------------------------------
(* What must hold. *)

\* A page that has shown an hour never shows an earlier one, or none, not after a restart
\* either, unless since then an answer left out a complete hour, or the process died with
\* its state unsaved or could not load it.  (fetch, refresh_if_due, live, _load_state)
ShownHourNeverGoesBack ==
  [][page # NoHour /\ ~withheld /\ "page" \notin lost
       => page' # NoHour /\ page' >= page]_page

===============================================================================
