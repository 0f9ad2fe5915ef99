----------------------------- MODULE DemoService ------------------------------
(***************************************************************************)
(* The hourly refresh of the Meridian demo service: the main thread's      *)
(* startup refresh, the scheduler thread, the page readers, and the state  *)
(* file that carries the last attempt and the last success over a restart. *)
(* Time is the UTC wall clock in ticks, Interval of them to the hour; it   *)
(* may move between any two steps.  last_error_code is left out: nothing   *)
(* reads it.                                                               *)
(***************************************************************************)
EXTENDS Integers

CONSTANTS
  Others,    \* further threads that call refresh_if_due on the same service
  Interval,  \* REFRESH_INTERVAL_SECONDS, in ticks
  Faults,    \* what may go wrong, a subset of FaultKinds
  MaxClock   \* bound: the clock stops here

FaultKinds == {"fetch",          \* the live fetch raises
               "disk",           \* _persist_state meets an OSError
               "load",           \* _load_state cannot read or parse the file at a start
               "crash",          \* the process dies with its state file up to date
               "crash_unsaved"}  \* the process dies after a write of the file failed

NoOne == "no_thread"

ASSUME IntervalAssumption == Interval \in Nat \ {0}
ASSUME MaxClockAssumption == MaxClock \in Nat
ASSUME OthersAssumption == Others \cap {"main", "scheduler", NoOne} = {}
ASSUME FaultsAssumption == Faults \subseteq FaultKinds

Threads == {"main", "scheduler"} \cup Others
Times == 0..MaxClock
Never == -1  \* None in the code: no attempt, no observation

VARIABLES
  clock,        \* the UTC wall clock
  pc,           \* where each thread of the process stands
  now,          \* the clock reading refresh_if_due took, per thread
  startup,      \* its startup argument, per thread
  refreshLock,  \* the holder of _refresh_lock
  cached,       \* fetched_at_utc of _cached_live
  attempt,      \* _last_attempt_utc
  wakeAt,       \* until when the scheduler waits
  file,         \* the state file: fetched_at_utc of last_success, last_attempt_utc
  unsaved,      \* whether the last write of the state file failed
  (* history *)
  called,       \* last_attempt_utc of the latest request that went to Nansen
  shown,        \* fetched_at_utc of what a page read returned last
  lost          \* what a death with its state unsaved or a failed load took, see Losses

vars == <<clock, pc, now, startup, refreshLock, cached, attempt, wakeAt, file,
          unsaved, called, shown, lost>>

memory == <<refreshLock, cached, attempt, wakeAt>>
disk == <<file, unsaved>>
seen == <<called, shown, lost>>

Saving == {"saving_attempt", "saving_result"}
Refreshing == {"entered", "locked", "fetching"} \cup Saving
PCs == {"down", "off", "idle", "starting", "binding", "serving", "planning", "waiting"}
       \cup Refreshing

Moment == Times \cup {Never}

\* The attempt of the latest request, until the next request; what the page showed last,
\* until it is read again; memory as the file has it, until the file is written.
Losses == {"request", "page", "file"}

TypeOK ==
  /\ clock \in Times
  /\ pc \in [Threads -> PCs]
  /\ now \in [Threads -> Times]
  /\ startup \in [Threads -> BOOLEAN]
  /\ refreshLock \in Threads \cup {NoOne}
  /\ cached \in Moment /\ attempt \in Moment
  /\ wakeAt \in 0..(MaxClock + Interval)
  /\ file \in [success: Moment, attempt: Moment]
  /\ unsaved \in BOOLEAN
  /\ called \in Moment /\ shown \in Moment /\ lost \subseteq Losses

Init ==
  /\ clock = 0
  /\ pc = [t \in Threads |-> "down"]
  /\ now = [t \in Threads |-> 0]
  /\ startup = [t \in Threads |-> FALSE]
  /\ refreshLock = NoOne
  /\ cached = Never /\ attempt = Never
  /\ wakeAt = 0
  /\ file = [success |-> Never, attempt |-> Never]
  /\ unsaved = FALSE
  /\ called = Never /\ shown = Never /\ lost = {}

-------------------------------------------------------------------------------
(* The rules. *)

Later(a, b) == IF a >= b THEN a ELSE b

\* _success_is_recent
SuccessIsRecent(at) == cached # Never /\ at - cached \in 0..Interval

DueAnyTime(t) ==
  (startup[t] => ~SuccessIsRecent(now[t])) /\ (~startup[t] => attempt # Never)

\* The three early returns of refresh_if_due.
Due(t) ==
  /\ startup[t] => ~SuccessIsRecent(now[t])
  /\ attempt # Never => now[t] - attempt >= Interval
  /\ ~startup[t] => attempt # Never

SlotAfterNext(at) == Later(at, attempt + Interval) + Interval

\* next_refresh_time: an hour after the last attempt; without one, the next slot.
NextRefreshTime(at) ==
  IF attempt = Never THEN at + Interval - (at % Interval)
  ELSE Later(at, attempt + Interval)

NeverLocked == FALSE

\* _state_lock: held from a change of the state until its write has ended.
StateLocked == \E t \in Threads : pc[t] \in Saving

Goto(t, from, to) == pc[t] = from /\ pc' = [pc EXCEPT ![t] = to]

\* refresh_if_due's locals are not read again.
Forget(t) == now' = [now EXCEPT ![t] = 0] /\ startup' = [startup EXCEPT ![t] = FALSE]

\* Where each thread goes on when refresh_if_due returns.
After(t) == IF t = "main" THEN "binding" ELSE IF t = "scheduler" THEN "planning" ELSE "idle"

WriteForgetsSuccess == file' = [success |-> Never, attempt |-> attempt]

\* os.replace puts the whole new state in place, or leaves the old.
WriteFile == file' = [success |-> cached, attempt |-> attempt]

\* _persist_state: an OSError is logged and forgotten.
PersistState ==
  \/ WriteFile /\ unsaved' = FALSE
  \/ "disk" \in Faults /\ unsaved' = TRUE /\ UNCHANGED file

\* A file that was written is memory's again.
Written == IF unsaved' THEN {} ELSE {"file"}

KeepRefreshLock(t) == refreshLock' = refreshLock

ReleaseRefreshLock(t) == refreshLock' = IF refreshLock = t THEN NoOne ELSE refreshLock

LoadSuccessOnly == cached' = file.success /\ attempt' = Never /\ lost' = lost \ {"file"}

\* _load_state: without an attempt, the last success stands in for it.
LoadState ==
  /\ cached' = file.success
  /\ attempt' = IF file.attempt = Never THEN file.success ELSE file.attempt
  /\ lost' = lost \ {"file"}

\* The file is there and cannot be read, is no JSON or no object: memory starts empty and
\* the file stays as it is.
LoadFails ==
  /\ "load" \in Faults
  /\ cached' = Never /\ attempt' = Never
  /\ lost' = Losses

-------------------------------------------------------------------------------
(* The process. *)

\* DemoService.__init__ and the start of serve.
Boot ==
  /\ \A t \in Threads : pc[t] = "down"
  /\ pc' = [t \in Threads |-> IF t = "main" THEN "starting"
                              ELSE IF t = "scheduler" THEN "off" ELSE "idle"]
  /\ LoadState \/ LoadFails
  /\ UNCHANGED <<clock, now, startup, refreshLock, wakeAt, disk, called, shown>>

\* The port is bound, start_scheduler starts its thread, serve_forever begins.
Serve ==
  /\ pc["main"] = "binding"
  /\ pc' = [pc EXCEPT !["main"] = "serving", !["scheduler"] = "starting"]
  /\ UNCHANGED <<clock, now, startup, memory, disk, seen>>

\* The process is killed, stopped or fails to bind: memory and locks are gone.
Crash ==
  /\ IF unsaved THEN "crash_unsaved" \in Faults ELSE "crash" \in Faults
  /\ pc["main"] # "down"
  /\ pc' = [t \in Threads |-> "down"]
  /\ now' = [t \in Threads |-> 0] /\ startup' = [t \in Threads |-> FALSE]
  /\ refreshLock' = NoOne /\ cached' = Never /\ attempt' = Never /\ wakeAt' = 0
  /\ lost' = IF unsaved THEN lost \cup {"request", "page"} ELSE lost
  /\ UNCHANGED <<clock, disk, called, shown>>

-------------------------------------------------------------------------------
(* refresh_if_due. *)

\* The clock is read before the lock is tried.
Enter(t, from, atStartup) ==
  /\ Goto(t, from, "entered")
  /\ now' = [now EXCEPT ![t] = clock]
  /\ startup' = [startup EXCEPT ![t] = atStartup]
  /\ UNCHANGED <<clock, memory, disk, seen>>

\* serve's refresh before the port is bound, and the scheduler's own.
StartupRefresh(t) == t \in {"main", "scheduler"} /\ Enter(t, "starting", TRUE)

\* A call of a further thread, at any time and any number of times.
OtherCall(t) == t \in Others /\ Enter(t, "idle", FALSE)

\* acquire(blocking=False)
Acquire(t) ==
  /\ refreshLock = NoOne /\ refreshLock' = t
  /\ Goto(t, "entered", "locked")
  /\ UNCHANGED <<clock, now, startup, cached, attempt, wakeAt, disk, seen>>

BusyReleases(t) ==
  /\ refreshLock # NoOne /\ refreshLock' = NoOne
  /\ Goto(t, "entered", After(t))
  /\ Forget(t)
  /\ UNCHANGED <<clock, cached, attempt, wakeAt, disk, seen>>

Busy(t) ==
  /\ refreshLock # NoOne
  /\ Goto(t, "entered", After(t))
  /\ Forget(t)
  /\ UNCHANGED <<clock, memory, disk, seen>>

NotDue(t) ==
  /\ Goto(t, "locked", After(t))
  /\ ~Due(t)
  /\ ReleaseRefreshLock(t)
  /\ Forget(t)
  /\ UNCHANGED <<clock, cached, attempt, wakeAt, disk, seen>>

\* The attempt is recorded before the request is made.
BeginAttempt(t) ==
  /\ Goto(t, "locked", "saving_attempt")
  /\ Due(t)
  /\ attempt' = now[t]
  /\ Forget(t)
  /\ UNCHANGED <<clock, refreshLock, cached, wakeAt, disk, seen>>

\* The attempt is saved, or not, and the request goes out.
SendRequest(t) ==
  /\ Goto(t, "saving_attempt", "fetching")
  /\ PersistState
  /\ called' = attempt /\ lost' = lost \ ({"request"} \cup Written)
  /\ UNCHANGED <<clock, now, startup, memory, shown>>

\* The observation is stamped with the clock and becomes the shared one.
FetchSucceeds(t) ==
  /\ Goto(t, "fetching", "saving_result")
  /\ cached' = clock
  /\ UNCHANGED <<clock, now, startup, refreshLock, attempt, wakeAt, disk, seen>>

\* No history, a failed request or a rejected answer: the last success stays.
FetchFails(t) ==
  /\ "fetch" \in Faults
  /\ Goto(t, "fetching", "saving_result")
  /\ UNCHANGED <<clock, now, startup, memory, disk, seen>>

\* The outcome is saved, or not, and refresh_if_due returns.
Finish(t) ==
  /\ Goto(t, "saving_result", After(t))
  /\ PersistState
  /\ ReleaseRefreshLock(t)
  /\ lost' = lost \ Written
  /\ UNCHANGED <<clock, now, startup, cached, attempt, wakeAt, called, shown>>

-------------------------------------------------------------------------------
(* The scheduler's loop, the readers and the clock. *)

PlanWake ==
  /\ ~StateLocked
  /\ Goto("scheduler", "planning", "waiting")
  /\ wakeAt' = NextRefreshTime(clock)
  /\ UNCHANGED <<clock, now, startup, refreshLock, cached, attempt, disk, seen>>

Wake == clock >= wakeAt /\ Enter("scheduler", "waiting", FALSE)

\* GET /api/live-gun: DemoService.live under the state lock.
ReadLive ==
  /\ pc["main"] = "serving" /\ ~StateLocked
  /\ shown' = cached /\ lost' = lost \ {"page"}
  /\ UNCHANGED <<clock, pc, now, startup, memory, disk, called>>

Tick ==
  /\ clock < MaxClock /\ clock' = clock + 1
  /\ UNCHANGED <<pc, now, startup, memory, disk, seen>>

ThreadStep(t) ==
  \/ StartupRefresh(t) \/ Acquire(t) \/ Busy(t) \/ NotDue(t) \/ BeginAttempt(t)
  \/ SendRequest(t) \/ FetchSucceeds(t) \/ FetchFails(t) \/ Finish(t)

SchedulerLoop == PlanWake \/ Wake

Next ==
  \/ Boot \/ Serve \/ SchedulerLoop \/ ReadLive \/ Tick \/ Crash
  \/ \E t \in Threads : ThreadStep(t) \/ OtherCall(t)

Spec == Init /\ [][Next]_vars

\* Runnable threads run and a fetch returns or times out.  Nothing is assumed of the
\* clock, of restarts or of the readers.
FairSpec ==
  /\ Spec
  /\ WF_vars(Serve) /\ WF_vars(SchedulerLoop)
  /\ \A t \in Threads : WF_vars(ThreadStep(t))

-------------------------------------------------------------------------------
(* What must hold. *)

\* Two requests are never made less than an hour apart, whichever threads call,
\* whatever fails and however often the process restarts, unless between the two it died
\* with its state unsaved or could not load it.  (refresh_if_due, _persist_state,
\* _load_state)
RequestsSpaced ==
  [][called' # called /\ called # Never /\ "request" \notin lost
       => called' >= called + Interval]_called

\* At most one request is in flight, and no call saves its outcome while another's
\* request runs, even one that takes longer than an hour.  (_refresh_lock)
SingleFlight ==
  \A t, u \in Threads :
    pc[t] \in {"fetching"} \cup Saving /\ pc[u] \in {"fetching"} \cup Saving => t = u

\* A page that has shown an observation never shows an older one, or none, unless since
\* then the process died with its state unsaved or could not load it: a reader sees a new
\* observation only once the state file has it.  (live, _persist_state, _load_state)
ShownNeverGoesBack ==
  [][shown # Never /\ "page" \notin lost => shown' # Never /\ shown' >= shown]_shown

\* The file never claims an observation or an attempt that memory has not, and holds
\* all of memory's when no change is being written and the last write did not fail; but
\* for a process that could not load the file, until it writes it.  (_load_state,
\* _persist_state)
FileFollowsMemory ==
  pc["main"] # "down" /\ "file" \notin lost =>
    /\ file.attempt <= attempt /\ file.success <= cached
    /\ ~unsaved /\ ~StateLocked => file = [success |-> cached, attempt |-> attempt]

\* Once the scheduler runs, an hour without an attempt is followed by one, unless
\* the process dies.  (start_scheduler, next_refresh_time)
DueRefreshHappens ==
  \A a \in Times :
    pc["main"] = "serving" /\ attempt = a /\ clock >= a + Interval
      ~> attempt # a \/ pc["main"] = "down"

\* docs/deployment.md: "no sooner than 60 minutes after the previous attempt".
NoSoonerThanAnHour ==
  [][called' # called /\ called # Never => called' - called >= Interval]_called

\* docs/deployment.md: "The hourly schedule stays at the UTC minute and second
\* established by that initial attempt".
SlotStaysPut ==
  [][pc["scheduler"] = "locked" /\ ~startup["scheduler"] /\ attempt' # attempt
       => (attempt' - attempt) % Interval = 0]_attempt

===============================================================================
