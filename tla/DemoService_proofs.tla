-------------------------- MODULE DemoService_proofs ---------------------------
(***************************************************************************)
(* The theorems of DemoService, for any threads, any interval, any clock   *)
(* bound and any faults, deaths with the state unsaved and failed loads    *)
(* included.                                                               *)
(***************************************************************************)
EXTENDS DemoService, TLAPS

Inside == {"locked", "fetching"} \cup Saving

\* Who is past the check of the lock holds it.
LockHeld == \A t \in Threads : pc[t] \in Inside => refreshLock = t

\* The threads of the process live and die together.
AllDown == pc["main"] = "down" => \A t \in Threads : pc[t] = "down"

\* The scheduler starts last.
SchedulerLast == pc["scheduler"] \notin {"down", "off"} => pc["main"] = "serving"

\* There is no observation without an attempt before it, nor one from the future.
AttemptFirst ==
  /\ cached # Never => attempt # Never
  /\ file.success # Never => file.attempt # Never
  /\ \A t \in Threads : pc[t] \in {"fetching"} \cup Saving => attempt # Never
  /\ cached <= clock /\ file.success <= clock

\* While a load that failed stands, memory has nothing that was written since.
NothingSince ==
  pc["main"] # "down" /\ "file" \in lost /\ ~unsaved =>
    cached = Never /\ \A t \in Threads : pc[t] \notin {"fetching", "saving_result"}

IInv ==
  /\ TypeOK /\ LockHeld /\ AllDown /\ SchedulerLast /\ AttemptFirst
  /\ FileFollowsMemory /\ NothingSince

-------------------------------------------------------------------------------
(* The inductive invariant. *)

\* The next slot lies at most an interval ahead.
LEMMA NextRefreshBound ==
  ASSUME TypeOK
  PROVE  NextRefreshTime(clock) \in 0..(MaxClock + Interval)
<1>1. clock \in Nat /\ clock <= MaxClock /\ attempt \in Int /\ attempt <= MaxClock
  BY MaxClockAssumption DEF TypeOK, Times, Moment, Never
<1>2. clock % Interval \in 0..(Interval - 1)
  BY <1>1, IntervalAssumption
<1>3. CASE attempt = Never
  BY <1>1, <1>2, <1>3, IntervalAssumption, MaxClockAssumption DEF NextRefreshTime
<1>4. CASE attempt # Never
  BY <1>1, <1>4, IntervalAssumption, MaxClockAssumption DEF NextRefreshTime, Later
<1> QED
  BY <1>3, <1>4

\* Nothing runs and nothing is saved at first.
LEMMA InitIInv == Init => IInv
<1> SUFFICES ASSUME Init PROVE IInv
  OBVIOUS
<1>1. TypeOK
  <2>1. 0 \in Times /\ Never \in Moment /\ 0 \in 0..(MaxClock + Interval)
    BY IntervalAssumption, MaxClockAssumption DEF Times, Moment
  <2>2. pc \in [Threads -> PCs] /\ now \in [Threads -> Times]
    BY <2>1 DEF Init, PCs
  <2>3. startup \in [Threads -> BOOLEAN]
    BY DEF Init
  <2> QED
    BY <2>1, <2>2, <2>3 DEF Init, TypeOK
<1>2. LockHeld /\ AllDown /\ SchedulerLast /\ FileFollowsMemory
  BY DEF Init, LockHeld, AllDown, SchedulerLast, FileFollowsMemory, Inside, Saving, Threads
<1>3. AttemptFirst /\ NothingSince
  BY DEF Init, AttemptFirst, NothingSince, Never, Saving
<1> QED
  BY <1>1, <1>2, <1>3 DEF IInv

\* The start and the end of the process.
LEMMA ProcessIInv ==
  ASSUME IInv, Boot \/ Crash
  PROVE  IInv'
<1> USE DEF IInv
<1>1. CASE Boot
  <2>1. pc' \in [Threads -> {"starting", "off", "idle"}] /\ UNCHANGED <<clock, now, startup, refreshLock, wakeAt, file, unsaved, called, shown>>
    BY <1>1 DEF Boot, disk
  <2>2. \/ /\ cached' = file.success /\ "file" \notin lost' /\ lost' \subseteq Losses
           /\ attempt' = IF file.attempt = Never THEN file.success ELSE file.attempt
        \/ cached' = Never /\ attempt' = Never /\ lost' = Losses
    BY <1>1 DEF Boot, LoadState, LoadFails, TypeOK
  <2>3. file.success \in Moment /\ file.attempt \in Moment /\ file = [success |-> file.success, attempt |-> file.attempt]
    BY DEF TypeOK
  <2>4. TypeOK'
    <3>1. Never \in Moment
      BY DEF Moment
    <3> QED BY <2>1, <2>2, <2>3, <3>1 DEF TypeOK, PCs
  <2>5. LockHeld' /\ AllDown'
    BY <2>1 DEF LockHeld, AllDown, Inside, Saving, Threads
  <2>9. SchedulerLast'
    BY <1>1 DEF Boot, SchedulerLast, Threads
  <2>6. attempt' = file.attempt \/ (cached' = Never /\ attempt' = Never /\ lost' = Losses)
    BY <2>2 DEF AttemptFirst
  <2>7. AttemptFirst'
    BY <2>1, <2>2, <2>6 DEF AttemptFirst, TypeOK, Times, Never, Saving
  <2>8. FileFollowsMemory'
    BY <2>1, <2>2, <2>3, <2>6 DEF FileFollowsMemory, Moment, Times, Never, Losses
  <2>10. NothingSince'
    BY <2>1, <2>2 DEF NothingSince
  <2> QED
    BY <2>4, <2>5, <2>7, <2>8, <2>9, <2>10
<1>2. CASE Crash
  <2>1. /\ pc' = [t \in Threads |-> "down"] /\ UNCHANGED <<clock, file, unsaved, called, shown>>
        /\ now' = [t \in Threads |-> 0] /\ startup' = [t \in Threads |-> FALSE]
        /\ refreshLock' = NoOne /\ cached' = Never /\ attempt' = Never /\ wakeAt' = 0
        /\ lost' \subseteq Losses
    BY <1>2 DEF Crash, disk, TypeOK, Losses
  <2>2. TypeOK'
    BY <2>1, IntervalAssumption, MaxClockAssumption DEF TypeOK, PCs, Times, Moment, Never
  <2>3. LockHeld' /\ AllDown' /\ SchedulerLast' /\ FileFollowsMemory' /\ NothingSince'
    BY <2>1 DEF LockHeld, AllDown, SchedulerLast, FileFollowsMemory, NothingSince, Inside, Saving, Threads
  <2>4. AttemptFirst'
    BY <2>1 DEF AttemptFirst, TypeOK, Times, Never, Saving
  <2> QED
    BY <2>2, <2>3, <2>4
<1> QED
  BY <1>1, <1>2

\* Steps that change neither what is remembered nor what is saved, nor anybody's right
\* to be past the lock.
LEMMA QuietIInv ==
  ASSUME IInv, NEW t \in Threads, NEW to \in PCs \ Inside,
         pc[t] \notin Saving \cup {"down", "off", "serving"}, to # "down",
         pc' = [pc EXCEPT ![t] = to],
         UNCHANGED <<clock, cached, attempt, file, unsaved, lost>>,
         refreshLock' = refreshLock \/ (pc[t] = "locked" /\ refreshLock' = NoOne),
         TypeOK'
  PROVE  IInv'
<1> USE DEF IInv
<1>1. LockHeld'
  BY DEF LockHeld, TypeOK, Inside
<1>2. AllDown' /\ SchedulerLast'
  BY DEF AllDown, SchedulerLast, TypeOK, Threads
<1>3. AttemptFirst'
  BY DEF AttemptFirst, TypeOK, Inside
<1>4. FileFollowsMemory'
  <2>1. StateLocked' = StateLocked
    BY DEF StateLocked, TypeOK, Inside
  <2>2. pc["main"] # "down"
    BY DEF AllDown
  <2> QED
    BY <2>1, <2>2 DEF FileFollowsMemory
<1>5. NothingSince'
  <2>1. pc["main"] # "down" /\ \A u \in Threads \ {t} : pc'[u] = pc[u]
    BY DEF AllDown, TypeOK
  <2>2. pc'[t] = to /\ to \notin {"fetching", "saving_result"}
    BY DEF TypeOK, Inside, Saving
  <2> QED
    BY <2>1, <2>2 DEF NothingSince
<1> QED
  BY <1>1, <1>2, <1>3, <1>4, <1>5

\* A call begins, finds the lock taken or finds that nothing is due; the scheduler plans.
LEMMA CallIInv ==
  ASSUME IInv, NEW t \in Threads,
         \/ StartupRefresh(t) \/ OtherCall(t) \/ (t = "scheduler" /\ Wake)
         \/ Busy(t) \/ NotDue(t) \/ (t = "scheduler" /\ PlanWake)
  PROVE  IInv'
<1> USE DEF IInv
<1>1. CASE StartupRefresh(t) \/ OtherCall(t) \/ (t = "scheduler" /\ Wake)
  <2>1. PICK from \in {"starting", "idle", "waiting"}, atStartup \in BOOLEAN : Enter(t, from, atStartup)
    BY <1>1 DEF StartupRefresh, OtherCall, Wake
  <2>2. TypeOK'
    BY <2>1 DEF Enter, Goto, memory, disk, seen, TypeOK, PCs, Refreshing
  <2>3. "entered" \in PCs \ Inside /\ pc[t] \notin Saving \cup {"down", "off", "serving"}
    BY <2>1 DEF Enter, Goto, PCs, Refreshing, Inside, Saving
  <2> QED
    BY <2>1, <2>2, <2>3, QuietIInv DEF Enter, Goto, memory, disk, seen
<1>2. CASE Busy(t) \/ NotDue(t)
  <2>1. After(t) \in PCs \ Inside /\ After(t) # "down"
    BY DEF After, PCs, Inside, Saving
  <2>2. refreshLock' = refreshLock \/ (pc[t] = "locked" /\ refreshLock' = NoOne)
    BY <1>2 DEF Busy, NotDue, Goto, ReleaseRefreshLock, memory
  <2>3. /\ pc' = [pc EXCEPT ![t] = After(t)] /\ pc[t] \in {"entered", "locked"}
        /\ Forget(t) /\ UNCHANGED <<clock, cached, attempt, wakeAt, file, unsaved, called, shown, lost>>
    BY <1>2 DEF Busy, NotDue, Goto, memory, disk, seen
  <2>4. TypeOK'
    BY <2>1, <2>2, <2>3, MaxClockAssumption DEF Forget, TypeOK, Times
  <2> QED
    BY <2>1, <2>2, <2>3, <2>4, QuietIInv DEF Saving
<1>3. CASE t = "scheduler" /\ PlanWake
  <2>1. TypeOK'
    BY <1>3, NextRefreshBound DEF PlanWake, Goto, disk, seen, TypeOK, PCs
  <2>2. "waiting" \in PCs \ Inside /\ pc[t] \notin Saving \cup {"down", "off", "serving"}
    BY <1>3 DEF PlanWake, Goto, PCs, Inside, Saving
  <2> QED
    BY <1>3, <2>1, <2>2, QuietIInv DEF PlanWake, Goto, disk, seen
<1> QED
  BY <1>1, <1>2, <1>3

\* The port is bound and the scheduler starts.
LEMMA ServeIInv ==
  ASSUME IInv, Serve
  PROVE  IInv'
<1> USE DEF IInv
<1>1. /\ pc' = [pc EXCEPT !["main"] = "serving", !["scheduler"] = "starting"]
      /\ UNCHANGED <<clock, now, startup, refreshLock, cached, attempt, wakeAt, file, unsaved, called, shown, lost>>
      /\ pc["main"] = "binding"
  BY DEF Serve, memory, disk, seen
<1>2. TypeOK'
  BY <1>1 DEF TypeOK, PCs
<1>3. LockHeld' /\ AllDown' /\ SchedulerLast' /\ AttemptFirst'
  BY <1>1 DEF LockHeld, AllDown, SchedulerLast, AttemptFirst, TypeOK, Inside, Saving, Threads
<1>4. FileFollowsMemory'
  <2>1. StateLocked' = StateLocked
    BY <1>1 DEF StateLocked, SchedulerLast, TypeOK, Saving, Threads
  <2> QED
    BY <1>1, <2>1 DEF FileFollowsMemory
<1>5. NothingSince'
  BY <1>1 DEF NothingSince, TypeOK
<1> QED
  BY <1>1, <1>2, <1>3, <1>4, <1>5

\* A call gets the lock.
LEMMA AcquireIInv ==
  ASSUME IInv, NEW t \in Threads, Acquire(t)
  PROVE  IInv'
<1> USE DEF IInv
<1>1. /\ refreshLock = NoOne /\ refreshLock' = t
      /\ pc[t] = "entered" /\ pc' = [pc EXCEPT ![t] = "locked"]
      /\ UNCHANGED <<clock, now, startup, cached, attempt, wakeAt, file, unsaved, called, shown, lost>>
  BY DEF Acquire, Goto, disk, seen
<1>2. TypeOK'
  BY <1>1 DEF TypeOK, PCs, Refreshing
<1>3. \A u \in Threads : pc[u] \notin Inside
  BY <1>1, OthersAssumption DEF LockHeld, Threads, NoOne
<1>4. LockHeld'
  BY <1>1, <1>3 DEF LockHeld, TypeOK, Inside, Saving
<1>5. AllDown' /\ SchedulerLast' /\ AttemptFirst'
  BY <1>1 DEF AllDown, SchedulerLast, AttemptFirst, TypeOK, Saving, Threads
<1>6. FileFollowsMemory'
  <2>1. StateLocked' = StateLocked
    BY <1>1 DEF StateLocked, TypeOK, Saving
  <2>2. pc["main"] # "down"
    BY <1>1 DEF AllDown
  <2> QED
    BY <1>1, <2>1, <2>2 DEF FileFollowsMemory
<1>7. NothingSince'
  BY <1>1 DEF NothingSince, AllDown, TypeOK
<1> QED
  BY <1>2, <1>4, <1>5, <1>6, <1>7

\* An attempt is recorded, and not yet saved.
LEMMA BeginAttemptIInv ==
  ASSUME IInv, NEW t \in Threads, BeginAttempt(t)
  PROVE  IInv'
<1> USE DEF IInv
<1>1. /\ pc[t] = "locked" /\ pc' = [pc EXCEPT ![t] = "saving_attempt"]
      /\ attempt' = now[t] /\ Due(t) /\ Forget(t)
      /\ UNCHANGED <<clock, refreshLock, cached, wakeAt, file, unsaved, called, shown, lost>>
  BY DEF BeginAttempt, Goto, disk, seen
<1>2. now[t] \in Times /\ now[t] # Never /\ 0 \in Times
  BY MaxClockAssumption DEF TypeOK, Times, Never
<1>3. attempt' # Never /\ attempt' >= attempt
  BY <1>1, <1>2, IntervalAssumption DEF Due, TypeOK, Times, Moment, Never
<1>4. TypeOK'
  <2>1. now' \in [Threads -> Times] /\ startup' \in [Threads -> BOOLEAN]
    BY <1>1, <1>2 DEF Forget, TypeOK
  <2>2. pc' \in [Threads -> PCs] /\ attempt' \in Moment
    BY <1>1, <1>2 DEF TypeOK, PCs, Refreshing, Saving, Moment
  <2> QED
    BY <1>1, <2>1, <2>2 DEF TypeOK
<1>5. LockHeld' /\ AllDown' /\ SchedulerLast'
  BY <1>1 DEF LockHeld, AllDown, SchedulerLast, TypeOK, Inside, Saving, Threads
<1>6. AttemptFirst'
  BY <1>1, <1>3 DEF AttemptFirst, TypeOK, Saving
<1>7. StateLocked'
  BY <1>1 DEF StateLocked, TypeOK, Saving
<1>8. FileFollowsMemory'
  <2>1. pc["main"] # "down"
    BY <1>1 DEF AllDown
  <2>2. file.attempt \in Int /\ attempt \in Int /\ attempt' \in Int
    BY <1>1, <1>2 DEF TypeOK, Times, Moment, Never
  <2> QED
    BY <1>1, <1>3, <1>7, <2>1, <2>2 DEF FileFollowsMemory
<1>9. NothingSince'
  BY <1>1 DEF NothingSince, AllDown, TypeOK
<1> QED
  BY <1>4, <1>5, <1>6, <1>8, <1>9

\* What PersistState leaves: the memory's values or the file as it was.
LEMMA PersistKeepsOrder ==
  ASSUME IInv, PersistState, pc["main"] # "down", attempt # Never
  PROVE  /\ file' \in [success: Moment, attempt: Moment] /\ unsaved' \in BOOLEAN
         /\ \/ file'.attempt <= attempt /\ file'.success <= cached
            \/ Written = {} /\ "file" \in lost
         /\ ~unsaved' => file' = [success |-> cached, attempt |-> attempt]
         /\ file'.success # Never => file'.attempt # Never
         /\ file'.success <= clock
<1>1. CASE WriteFile /\ unsaved' = FALSE
  <2>1. file' = [success |-> cached, attempt |-> attempt] /\ unsaved' = FALSE
    BY <1>1 DEF WriteFile
  <2>2. cached \in Moment /\ attempt \in Moment
    BY DEF IInv, TypeOK
  <2>3. file'.success = cached /\ file'.attempt = attempt
    BY <2>1
  <2>4. file' \in [success: Moment, attempt: Moment]
    BY <2>1, <2>2
  <2>5. file'.attempt <= attempt /\ file'.success <= cached
    BY <2>2, <2>3 DEF Moment, Times, Never
  <2>6. (file'.success # Never => file'.attempt # Never) /\ file'.success <= clock
    BY <2>3 DEF IInv, AttemptFirst
  <2> QED
    BY <2>1, <2>4, <2>5, <2>6
<1>2. CASE unsaved' = TRUE /\ UNCHANGED file
  BY <1>2 DEF IInv, TypeOK, AttemptFirst, FileFollowsMemory, Written
<1> QED
  BY <1>1, <1>2 DEF PersistState

\* The request goes out, and its outcome is saved.
LEMMA SaveIInv ==
  ASSUME IInv, NEW t \in Threads, SendRequest(t) \/ Finish(t)
  PROVE  IInv'
<1> USE DEF IInv
<1>1. /\ pc[t] \in Saving
      /\ UNCHANGED <<clock, now, startup, cached, attempt, wakeAt, shown>>
      /\ called' \in {called, attempt}
      /\ PersistState
      /\ lost' \in {lost \ Written, lost \ ({"request"} \cup Written)}
  BY DEF SendRequest, Finish, Goto, memory, Saving
<1>2. pc["main"] # "down" /\ attempt # Never
  BY <1>1 DEF AllDown, AttemptFirst, Saving
<1>3. \/ pc' = [pc EXCEPT ![t] = "fetching"] /\ refreshLock' = refreshLock
      \/ pc' = [pc EXCEPT ![t] = After(t)] /\ refreshLock' = NoOne
  BY <1>1 DEF SendRequest, Finish, Goto, memory, ReleaseRefreshLock, LockHeld, Inside
<1>4. After(t) \in PCs \ (Inside \cup {"down"}) /\ "fetching" \in PCs \ Saving
  BY DEF After, PCs, Refreshing, Inside, Saving
<1>5. TypeOK'
  BY <1>1, <1>2, <1>3, <1>4, PersistKeepsOrder DEF TypeOK
<1>6. \A u \in Threads : pc[u] \in Inside => u = t
  BY <1>1, OthersAssumption DEF LockHeld, Inside
<1>7. LockHeld'
  BY <1>3, <1>4, <1>6, <1>1 DEF LockHeld, TypeOK, Inside
<1>8. AllDown' /\ SchedulerLast'
  BY <1>1, <1>3, <1>4 DEF AllDown, SchedulerLast, TypeOK, Saving, Threads
<1>9. AttemptFirst'
  BY <1>1, <1>2, PersistKeepsOrder DEF AttemptFirst
<1>10. FileFollowsMemory'
  BY <1>1, <1>2, PersistKeepsOrder DEF FileFollowsMemory, Written
<1>11. NothingSince'
  BY <1>1 DEF NothingSince, PersistState, Written
<1> QED
  BY <1>5, <1>7, <1>8, <1>9, <1>10, <1>11

\* The fetch succeeds or fails, and its outcome is not yet saved.
LEMMA FetchIInv ==
  ASSUME IInv, NEW t \in Threads, FetchSucceeds(t) \/ FetchFails(t)
  PROVE  IInv'
<1> USE DEF IInv
<1>1. /\ pc[t] = "fetching" /\ pc' = [pc EXCEPT ![t] = "saving_result"]
      /\ UNCHANGED <<clock, now, startup, refreshLock, attempt, wakeAt, file, unsaved, called, shown, lost>>
      /\ cached' \in {cached, clock}
  BY DEF FetchSucceeds, FetchFails, Goto, memory, disk, seen
<1>2. cached' \in Moment /\ cached' >= cached /\ cached' <= clock
  BY <1>1 DEF AttemptFirst, TypeOK, Moment, Times, Never
<1>3. TypeOK'
  BY <1>1, <1>2 DEF TypeOK, PCs, Refreshing, Saving
<1>4. LockHeld' /\ AllDown' /\ SchedulerLast'
  BY <1>1 DEF LockHeld, AllDown, SchedulerLast, TypeOK, Inside, Saving, Threads
<1>5. AttemptFirst'
  BY <1>1, <1>2 DEF AttemptFirst, TypeOK, Saving
<1>6. FileFollowsMemory'
  <2>1. StateLocked'
    BY <1>1 DEF StateLocked, TypeOK, Saving
  <2>2. file.success \in Int /\ cached \in Int /\ cached' \in Int
    BY <1>2 DEF TypeOK, Moment, Times, Never
  <2>3. pc["main"] # "down"
    BY <1>1 DEF AllDown
  <2> QED
    BY <1>1, <1>2, <2>1, <2>2, <2>3 DEF FileFollowsMemory
<1>7. NothingSince'
  BY <1>1 DEF NothingSince, AllDown, TypeOK
<1> QED
  BY <1>3, <1>4, <1>5, <1>6, <1>7

\* Readers and the clock.
LEMMA OutsideIInv ==
  ASSUME IInv, ReadLive \/ Tick
  PROVE  IInv'
<1> USE DEF IInv
<1>1. /\ UNCHANGED <<pc, now, startup, refreshLock, cached, attempt, wakeAt, file, unsaved, called>>
      /\ clock' \in Times /\ clock' >= clock /\ shown' \in Moment
      /\ lost' \in {lost, lost \ {"page"}}
  BY MaxClockAssumption DEF ReadLive, Tick, memory, disk, seen, TypeOK, Times
<1>2. TypeOK' /\ LockHeld' /\ AllDown' /\ SchedulerLast' /\ FileFollowsMemory' /\ NothingSince'
  BY <1>1 DEF TypeOK, LockHeld, AllDown, SchedulerLast, FileFollowsMemory, NothingSince, StateLocked
<1>3. AttemptFirst'
  BY <1>1 DEF AttemptFirst, TypeOK, Times, Moment, Never
<1> QED
  BY <1>2, <1>3

\* Every step keeps the inductive invariant.
LEMMA NextIInv == IInv /\ [Next]_vars => IInv'
<1> SUFFICES ASSUME IInv, [Next]_vars PROVE IInv'
  OBVIOUS
<1>1. CASE Boot \/ Crash
  BY <1>1, ProcessIInv
<1>2. CASE Serve
  BY <1>2, ServeIInv
<1>3. CASE SchedulerLoop
  BY <1>3, CallIInv DEF SchedulerLoop, Threads
<1>4. CASE ReadLive \/ Tick
  BY <1>4, OutsideIInv
<1>5. ASSUME NEW t \in Threads, ThreadStep(t) \/ OtherCall(t)
      PROVE  IInv'
  BY <1>5, CallIInv, AcquireIInv, BeginAttemptIInv, SaveIInv, FetchIInv DEF ThreadStep
<1>6. CASE UNCHANGED vars
  BY <1>6 DEF vars, IInv, TypeOK, LockHeld, AllDown, SchedulerLast, AttemptFirst,
              FileFollowsMemory, NothingSince, StateLocked
<1> QED
  BY <1>1, <1>2, <1>3, <1>4, <1>5, <1>6 DEF Next

\* The inductive invariant holds: who refreshes holds the lock, and the state file is
\* never ahead of memory.  (refresh_if_due, _persist_state, _load_state)
THEOREM InvariantHolds == Spec => []IInv
BY InitIInv, NextIInv, PTL DEF Spec

-------------------------------------------------------------------------------
(* What must hold. *)

\* The variables have their types.  (DemoService)
THEOREM TypeCorrect == Spec => []TypeOK
<1>1. IInv => TypeOK
  BY DEF IInv
<1> QED
  BY <1>1, InvariantHolds, PTL

\* At most one request is in flight, however long it takes.  (_refresh_lock)
THEOREM AlwaysSingleFlight == Spec => []SingleFlight
<1>1. IInv => SingleFlight
  BY DEF IInv, LockHeld, SingleFlight, Inside
<1> QED
  BY <1>1, InvariantHolds, PTL

\* But for a process that could not load it, the state file is never ahead of memory, and
\* equal to it when nothing is being written and the last write did not fail.
\* (_persist_state, _load_state)
THEOREM FileAlwaysFollows == Spec => []FileFollowsMemory
<1>1. IInv => FileFollowsMemory
  BY DEF IInv
<1> QED
  BY <1>1, InvariantHolds, PTL

-------------------------------------------------------------------------------
(* What the service remembers, and what it loses. *)

\* It takes a write that fails and a death before the next one, or a failed load, to lose
\* anything.
THEOREM NothingLost ==
  ASSUME "disk" \notin Faults \/ "crash_unsaved" \notin Faults, "load" \notin Faults
  PROVE  Spec => [](lost = {})
<1> DEFINE Told == lost = {} /\ (unsaved => "disk" \in Faults)
<1>1. Init => Told
  BY DEF Init
<1>2. Told /\ [Next]_vars => Told'
  <2> SUFFICES ASSUME Told, [Next]_vars PROVE Told'
    OBVIOUS
  <2>1. unsaved' = unsaved \/ \E t \in Threads : PersistState
    BY DEF Next, vars, disk, Boot, Serve, SchedulerLoop, PlanWake, Wake, Enter, ReadLive, Tick, Crash,
           ThreadStep, StartupRefresh, OtherCall, Acquire, Busy, NotDue, BeginAttempt,
           SendRequest, FetchSucceeds, FetchFails, Finish
  <2>2. lost' \subseteq lost \/ LoadFails \/ (Crash /\ unsaved)
    BY DEF Next, vars, seen, Boot, LoadState, Serve, SchedulerLoop, PlanWake, Wake, Enter, ReadLive,
           Tick, Crash, ThreadStep, StartupRefresh, OtherCall, Acquire, Busy, NotDue, BeginAttempt,
           SendRequest, FetchSucceeds, FetchFails, Finish
  <2> QED
    BY <2>1, <2>2 DEF PersistState, LoadFails, Crash
<1>3. Told => lost = {}
  OBVIOUS
<1> HIDE DEF Told
<1> QED
  BY <1>1, <1>2, <1>3, PTL DEF Spec

\* What is not lost, memory or else the file knows: the latest request, and what pages have
\* shown.
Remembered ==
  /\ pc["main"] = "down" /\ unsaved => {"request", "page"} \subseteq lost
  /\ "request" \notin lost =>
       /\ ~unsaved => file.attempt = called
       /\ pc["main"] # "down" =>
            /\ (\A t \in Threads : pc[t] # "saving_attempt") => attempt = called
            /\ \A t \in Threads : pc[t] = "saving_attempt" /\ called # Never
                                    => attempt >= called + Interval
  /\ "page" \notin lost =>
       /\ ~unsaved => shown <= file.success
       /\ pc["main"] # "down" => shown <= cached

\* Every step keeps the memory of requests and pages.
LEMMA NextRemembered ==
  ASSUME IInv, IInv', Remembered, [Next]_vars
  PROVE  Remembered'
<1> USE DEF Remembered
<1>1. /\ attempt \in Int /\ called \in Int /\ cached \in Int /\ shown \in Int
      /\ file.attempt \in Int /\ file.success \in Int
  BY DEF IInv, TypeOK, Moment, Times, Never
<1>2. CASE Boot
  <2>1. pc["main"] = "down" /\ UNCHANGED <<file, unsaved, called, shown>>
    BY <1>2 DEF Boot, Threads, disk
  <2>2. pc'["main"] = "starting" /\ \A t \in Threads : pc'[t] # "saving_attempt"
    BY <1>2 DEF Boot, Threads
  <2>3. CASE LoadFails
    BY <2>1, <2>2, <2>3 DEF LoadFails, Losses
  <2>4. CASE LoadState
    <3>1. attempt' = file.attempt /\ cached' = file.success /\ lost' = lost \ {"file"}
      BY <2>4 DEF LoadState, IInv, AttemptFirst
    <3> QED
      BY <2>1, <2>2, <3>1
  <2> QED
    BY <1>2, <2>3, <2>4 DEF Boot
<1>3. CASE Crash
  <2>1. /\ pc'["main"] = "down" /\ UNCHANGED <<file, unsaved, called, shown>>
        /\ lost' = IF unsaved THEN lost \cup {"request", "page"} ELSE lost
    BY <1>3 DEF Crash, disk, Threads
  <2> QED
    BY <2>1
<1>4. CASE Serve
  <2>1. UNCHANGED <<cached, attempt, file, unsaved, called, shown, lost>> /\ pc["main"] # "down" /\ pc'["main"] # "down"
    BY <1>4 DEF Serve, memory, disk, seen, IInv, TypeOK, Threads
  <2>2. \A t \in Threads : pc'[t] = "saving_attempt" <=> pc[t] = "saving_attempt"
    BY <1>4 DEF Serve, IInv, TypeOK, SchedulerLast
  <2> QED
    BY <2>1, <2>2
<1>5. CASE ReadLive
  <2>1. ~StateLocked /\ pc["main"] # "down" /\ shown' = cached /\ lost' = lost \ {"page"}
        /\ UNCHANGED <<pc, cached, attempt, file, unsaved, called>>
    BY <1>5 DEF ReadLive, memory, disk
  <2>2. ~unsaved => file.success = cached \/ cached = Never
    BY <2>1 DEF IInv, FileFollowsMemory, NothingSince
  <2>3. file.success >= Never
    BY DEF IInv, TypeOK, Moment, Times, Never
  <2> QED
    BY <1>1, <2>1, <2>2, <2>3
<1>6. CASE Tick \/ UNCHANGED vars
  BY <1>6 DEF Tick, memory, disk, seen, vars
<1>7. ASSUME NEW t \in Threads, NEW from, NEW to, to # "down", from # "saving_attempt", from # "down",
             to # "saving_attempt", Goto(t, from, to),
             UNCHANGED <<attempt, file, unsaved, called, shown, lost>>, cached' >= cached, cached' \in Int
      PROVE  Remembered'
  <2>1. pc["main"] # "down" /\ pc'["main"] # "down"
    BY <1>7 DEF IInv, TypeOK, AllDown, Goto
  <2>2. \A u \in Threads : pc'[u] = "saving_attempt" <=> pc[u] = "saving_attempt"
    BY <1>7 DEF IInv, TypeOK, Goto
  <2> QED
    BY <1>1, <1>7, <2>1, <2>2
<1>8. ASSUME NEW t \in Threads, \/ StartupRefresh(t) \/ OtherCall(t) \/ (t = "scheduler" /\ SchedulerLoop)
                                \/ Acquire(t) \/ Busy(t) \/ NotDue(t) \/ FetchFails(t)
      PROVE  Remembered'
  <2>1. UNCHANGED <<cached, attempt, file, unsaved, called, shown, lost>>
    BY <1>8 DEF StartupRefresh, OtherCall, SchedulerLoop, Wake, PlanWake, Enter, Acquire, Busy,
                NotDue, FetchFails, memory, disk, seen
  <2>2. \E from \in {"starting", "idle", "waiting", "planning", "entered", "locked", "fetching"},
           to \in {"entered", "waiting", "locked", "saving_result", After(t)} : Goto(t, from, to)
    BY <1>8 DEF StartupRefresh, OtherCall, SchedulerLoop, Wake, PlanWake, Enter, Acquire, Busy,
                NotDue, FetchFails
  <2>3. After(t) \notin {"down", "saving_attempt"}
    BY DEF After
  <2> QED
    BY <1>1, <1>7, <2>1, <2>2, <2>3
<1>9. ASSUME NEW t \in Threads, FetchSucceeds(t)
      PROVE  Remembered'
  <2>1. cached' = clock /\ UNCHANGED <<attempt, file, unsaved, called, shown, lost>> /\ Goto(t, "fetching", "saving_result")
    BY <1>9 DEF FetchSucceeds, disk, seen
  <2>2. cached' >= cached /\ cached' \in Int
    BY <2>1 DEF IInv, AttemptFirst, TypeOK, Times
  <2> QED
    BY <1>7, <2>1, <2>2
<1>10. ASSUME NEW t \in Threads, BeginAttempt(t)
       PROVE  Remembered'
  <2>1. /\ pc[t] = "locked" /\ pc' = [pc EXCEPT ![t] = "saving_attempt"]
        /\ attempt' = now[t] /\ Due(t) /\ UNCHANGED <<cached, file, unsaved, called, shown, lost>>
    BY <1>10 DEF BeginAttempt, Goto, disk, seen
  <2>2. \A u \in Threads : pc[u] \in Inside => u = t
    BY <2>1, OthersAssumption DEF IInv, LockHeld, Inside
  <2>3. pc["main"] # "down" /\ ("request" \notin lost => attempt = called)
    BY <2>1, <2>2 DEF IInv, AllDown, Inside, Saving
  <2>4. "request" \notin lost /\ called # Never => attempt' >= called + Interval
    BY <2>1, <2>3, <1>1, IntervalAssumption DEF Due, IInv, TypeOK, Times
  <2>5. pc'[t] = "saving_attempt" /\ (pc'["main"] # "down")
    BY <2>1, <2>3 DEF IInv, TypeOK
  <2> QED
    BY <2>1, <2>3, <2>4, <2>5
<1>11. ASSUME NEW t \in Threads, SendRequest(t) \/ Finish(t)
       PROVE  Remembered'
  <2>1. /\ pc[t] \in Saving /\ PersistState /\ UNCHANGED <<cached, attempt, shown>>
        /\ \/ pc[t] = "saving_attempt" /\ called' = attempt
           \/ pc[t] = "saving_result" /\ called' = called /\ lost' = lost \ Written
        /\ "page" \notin lost' => "page" \notin lost
        /\ \E to \in {"fetching", After(t)} : pc' = [pc EXCEPT ![t] = to]
    BY <1>11 DEF SendRequest, Finish, Goto, memory, Saving, Written
  <2>2. After(t) \notin {"down", "saving_attempt"}
    BY DEF After
  <2>3. \A u \in Threads : pc[u] \in Inside => u = t
    BY <2>1, OthersAssumption DEF IInv, LockHeld, Inside
  <2>4. /\ pc["main"] # "down" /\ pc'["main"] # "down"
        /\ \A u \in Threads : pc'[u] # "saving_attempt"
    BY <2>1, <2>2, <2>3 DEF IInv, AllDown, TypeOK, Inside, Saving
  <2>5. "request" \notin lost' => called' = attempt
    BY <2>1, <2>3, <2>4 DEF Inside, Saving, Written
  <2>6. ~unsaved' => file'.attempt = attempt /\ file'.success = cached
    BY <2>1 DEF PersistState, WriteFile
  <2> QED
    BY <2>1, <2>4, <2>5, <2>6
<1> QED
  BY <1>2, <1>3, <1>4, <1>5, <1>6, <1>8, <1>9, <1>10, <1>11 DEF Next, ThreadStep, Threads

\* Both invariants hold together.
LEMMA RememberedHolds == Spec => [](IInv /\ Remembered)
<1>1. Init => Remembered
  BY DEF Init, Remembered, Never
<1>2. IInv /\ Remembered /\ [Next]_vars => (IInv /\ Remembered)'
  BY NextIInv, NextRemembered
<1> QED
  BY <1>1, <1>2, InitIInv, PTL DEF Spec

\* Requests are an interval apart, over any number of restarts, if between them no attempt
\* was lost with a death before it was saved or with a failed load.  (refresh_if_due,
\* _persist_state, _load_state)
THEOREM RequestsAlwaysSpaced == Spec => RequestsSpaced
<1>1. IInv /\ Remembered /\ [Next]_vars =>
        [called' # called /\ called # Never /\ "request" \notin lost
           => called' >= called + Interval]_called
  <2> SUFFICES ASSUME IInv, Remembered, [Next]_vars, called' # called, called # Never,
                      "request" \notin lost
               PROVE  called' >= called + Interval
    OBVIOUS
  <2>1. PICK t \in Threads : SendRequest(t)
    BY DEF Next, vars, Boot, Serve, SchedulerLoop, PlanWake, Wake, Enter, ReadLive, Tick, Crash,
           ThreadStep, StartupRefresh, OtherCall, Acquire, Busy, NotDue, BeginAttempt,
           FetchSucceeds, FetchFails, Finish, seen
  <2>2. pc[t] = "saving_attempt" /\ called' = attempt
    BY <2>1 DEF SendRequest, Goto
  <2>3. pc["main"] # "down"
    BY <2>2 DEF IInv, AllDown
  <2> QED
    BY <2>2, <2>3 DEF Remembered
<1> QED
  BY <1>1, RememberedHolds, PTL DEF Spec, RequestsSpaced

\* The promise of docs/deployment.md, "no sooner than 60 minutes after the previous
\* attempt", holds where no failed write and death come together and no load fails.
THEOREM AnHourApart ==
  ASSUME "disk" \notin Faults \/ "crash_unsaved" \notin Faults, "load" \notin Faults
  PROVE  Spec => NoSoonerThanAnHour
<1>1. IInv /\ IInv' /\ lost = {} /\
      [called' # called /\ called # Never /\ "request" \notin lost
         => called' >= called + Interval]_called =>
        [called' # called /\ called # Never => called' - called >= Interval]_called
  <2> SUFFICES ASSUME IInv, IInv', called' # called, called # Never, called' >= called + Interval
               PROVE  called' - called >= Interval
    OBVIOUS
  <2>1. called \in Moment /\ called' \in Moment
    BY DEF IInv, TypeOK
  <2>2. called \in Int /\ called' \in Int /\ Interval \in Int
    BY <2>1, IntervalAssumption DEF Moment, Times, Never
  <2>3. \A a, b, c \in Int : b >= a + c => b - a >= c
    OBVIOUS
  <2> QED
    BY <2>2, <2>3
<1> QED
  BY <1>1, RequestsAlwaysSpaced, NothingLost, InvariantHolds, PTL
     DEF RequestsSpaced, NoSoonerThanAnHour

\* What a page has shown never goes back, unless it was lost with a death before it was
\* saved or with a failed load.  (live, _persist_state, _load_state)
THEOREM ShownNeverBack == Spec => ShownNeverGoesBack
<1>1. IInv /\ Remembered /\ [Next]_vars =>
        [shown # Never /\ "page" \notin lost => shown' # Never /\ shown' >= shown]_shown
  <2> SUFFICES ASSUME IInv, Remembered, [Next]_vars, shown' # shown, shown # Never,
                      "page" \notin lost
               PROVE  shown' # Never /\ shown' >= shown
    OBVIOUS
  <2>1. ReadLive
    BY DEF Next, vars, Boot, Serve, SchedulerLoop, PlanWake, Wake, Enter, Tick, Crash,
           ThreadStep, StartupRefresh, OtherCall, Acquire, Busy, NotDue, BeginAttempt,
           SendRequest, FetchSucceeds, FetchFails, Finish, seen
  <2>2. shown' = cached /\ shown <= cached
    BY <2>1 DEF ReadLive, Remembered
  <2> QED
    BY <2>2 DEF IInv, TypeOK, Moment, Times, Never
<1> QED
  BY <1>1, RememberedHolds, PTL DEF Spec, ShownNeverGoesBack

===============================================================================
