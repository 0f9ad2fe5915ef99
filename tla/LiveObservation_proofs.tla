------------------------ MODULE LiveObservation_proofs ------------------------
(***************************************************************************)
(* The theorems of LiveObservation: the service behaves as DemoService     *)
(* says whatever Nansen answers, and what a page has shown goes back only  *)
(* after an answer that left hours out, a death with the state unsaved or  *)
(* a failed load.                                                          *)
(***************************************************************************)
EXTENDS LiveObservation, DemoService_proofs

\* Hours are over before they are complete.
CompleteIsOver == complete \subseteq Int /\ \A h \in complete : h < HourOf(clock)

\* An observation is of a complete hour.
Observed(hour) == hour # NoHour => hour \in complete

\* A request in flight asks for hours up to a present one that no observation has reached.
AskedLater ==
  /\ asked \in [Threads -> Int]
  /\ \A t \in Threads : pc[t] = "fetching" /\ live # NoHour => live < asked[t]

\* Nothing has come between the page and memory since it was read.
Undisturbed == "page" \notin lost /\ ~withheld

\* The page shows no more than memory has, and the file too if its last write succeeded.
ShownIsKept(hour) == page # NoHour => hour # NoHour /\ page <= hour

LInv ==
  /\ CompleteIsOver
  /\ Observed(live) /\ Observed(saved) /\ Observed(page)
  /\ AskedLater
  /\ withheld \in BOOLEAN
  /\ pc["main"] # "down" /\ Undisturbed => ShownIsKept(live)
  /\ pc["main"] = "down" /\ unsaved => "page" \in lost
  /\ ~unsaved /\ Undisturbed => ShownIsKept(saved)
  /\ pc["main"] # "down" /\ ~unsaved /\ "file" \in lost => live = NoHour
  /\ pc["main"] # "down" /\ ~unsaved /\ "file" \notin lost /\ ~StateLocked => saved = live

-------------------------------------------------------------------------------
(* The service below. *)

\* A step of the whole is a step of the service, or none.
LEMMA StepOfService == [LiveNext]_liveVars => [Next]_vars
BY DEF LiveNext, liveVars, Load, Die, ShowPage, CompleteHour, Elsewhere, Ask, Observe,
       Refuse, Save, Next, ThreadStep

\* Whatever Nansen answers, the service behaves as DemoService says, and all that is
\* proved of that holds here too.  (refresh_if_due, fetch)
THEOREM LiveImplementsService == LiveSpec => Spec
<1>1. LiveInit => Init
  BY DEF LiveInit
<1> QED
  BY <1>1, StepOfService, PTL DEF LiveSpec, Spec

-------------------------------------------------------------------------------
(* The hours. *)

\* The hour of the clock does not go back with the clock.
LEMMA HourMonotone ==
  ASSUME NEW a \in Nat, NEW b \in Nat, a <= b
  PROVE  /\ HourOf(a) \in Nat /\ HourOf(b) \in Nat
         /\ HourOf(a) <= HourOf(b)
<1> DEFINE p == a \div Interval
           q == b \div Interval
<1>1. /\ p \in Int /\ q \in Int
      /\ a = Interval * p + (a % Interval) /\ (a % Interval) \in 0..(Interval - 1)
      /\ b = Interval * q + (b % Interval) /\ (b % Interval) \in 0..(Interval - 1)
  BY IntervalAssumption
<1> HIDE DEF p, q
<1>2. Interval \in Nat /\ Interval > 0
  BY IntervalAssumption
<1>3. ASSUME NEW k \in Int, k <= -1
      PROVE  Interval * k <= -Interval
  BY <1>2, <1>3
<1>4. p >= 0
  <2> SUFFICES ASSUME p <= -1 PROVE FALSE
    BY <1>1
  <2> QED
    BY <1>1, <1>2, <1>3
<1>5. q >= 0
  <2> SUFFICES ASSUME q <= -1 PROVE FALSE
    BY <1>1
  <2> QED
    BY <1>1, <1>2, <1>3
<1>6. p <= q
  <2> SUFFICES ASSUME q - p <= -1 PROVE FALSE
    BY <1>1
  <2>1. Interval * (q - p) <= -Interval
    BY <1>1, <1>3
  <2>2. Interval * (q - p) = Interval * q - Interval * p
    BY <1>1, <1>2
  <2> QED
    BY <1>1, <1>2, <2>1, <2>2
<1> QED
  BY <1>1, <1>4, <1>5, <1>6 DEF HourOf, p, q

\* Every step keeps complete hours complete and over.
LEMMA CompleteKept ==
  ASSUME IInv, IInv', LInv, [LiveNext]_liveVars
  PROVE  CompleteIsOver' /\ complete \subseteq complete'
<1>1. clock \in Nat /\ clock' \in Nat
  BY DEF IInv, TypeOK, Times
<1>2. clock <= clock'
  <2>1. [Next]_vars
    BY StepOfService
  <2> QED
    BY <1>1, <2>1 DEF Next, vars, Boot, Serve, SchedulerLoop, PlanWake, Wake, Enter, ReadLive,
      Tick, Crash, ThreadStep, StartupRefresh, OtherCall, Acquire, Busy, NotDue, BeginAttempt,
      SendRequest, FetchSucceeds, FetchFails, Finish
<1>3. HourOf(clock) \in Int /\ HourOf(clock') \in Int /\ HourOf(clock) <= HourOf(clock')
  BY <1>1, <1>2, HourMonotone
<1>4. complete' \subseteq complete \cup {h \in Int : h < HourOf(clock)} /\ complete \subseteq complete'
  <2>1. CASE CompleteHour
    BY <2>1, <1>3 DEF CompleteHour
  <2>2. CASE ~CompleteHour
    BY <2>2 DEF LiveNext, liveVars, Load, Die, ShowPage, Elsewhere, Ask, Observe, Refuse, Save
  <2> QED
    BY <2>1, <2>2
<1>5. \A h \in complete' : h \in Int /\ h < HourOf(clock')
  BY <1>3, <1>4 DEF LInv, CompleteIsOver
<1> QED
  BY <1>4, <1>5 DEF CompleteIsOver

\* Nothing is observed at first.
LEMMA InitLInv == LiveInit => LInv
<1> SUFFICES ASSUME LiveInit PROVE LInv
  OBVIOUS
<1>1. clock = 0 /\ HourOf(clock) \in Nat
  BY HourMonotone DEF LiveInit, Init
<1>2. CompleteIsOver
  <2>1. \A h \in complete : h \in Int /\ h < 0
    BY HistoryAssumption DEF LiveInit
  <2> QED
    BY <1>1, <2>1 DEF CompleteIsOver
<1>3. /\ AskedLater /\ live = NoHour /\ saved = NoHour /\ page = NoHour /\ ~unsaved
      /\ withheld = FALSE
  BY DEF LiveInit, Init, AskedLater
<1> QED
  BY <1>2, <1>3 DEF LInv, Observed, ShownIsKept

-------------------------------------------------------------------------------
(* The steps. *)

\* Unless the answer leaves a complete hour out, a new observation is of a later hour than
\* the last, or of the same.
LEMMA ObservedLater ==
  ASSUME IInv, LInv, NEW t \in Threads, Observe(t)
  PROVE  /\ live' \in complete /\ live' < asked[t]
         /\ withheld' \in BOOLEAN /\ (~withheld' => ~withheld)
         /\ live # NoHour /\ ~withheld' => live <= live'
<1>1. PICK hours \in SUBSET Asked(t) :
        LatestOf(hours, live') /\ withheld' = (withheld \/ Withholds(t, hours))
  BY DEF Observe
<1>2. asked[t] \in Int /\ Window \in Nat
  BY WindowAssumption DEF LInv, AskedLater
<1>3. /\ live' \in complete /\ live' \in Asked(t) /\ live' - 1 \in Asked(t)
      /\ \A h \in hours \cap complete : h <= live'
  BY <1>1 DEF LatestOf, ValidComplete
<1>4. live' \in Int /\ live' < asked[t] /\ live' - 1 >= asked[t] - Window
  BY <1>2, <1>3 DEF Asked
<1>5. ASSUME live # NoHour, ~withheld' PROVE live <= live'
  <2>1. live \in complete /\ live \in Int /\ live < asked[t]
    BY <1>5 DEF LInv, Observed, CompleteIsOver, AskedLater, Observe, FetchSucceeds, Goto
  <2>2. CASE live <= asked[t] - Window
    BY <1>2, <1>4, <2>1, <2>2
  <2>3. CASE live > asked[t] - Window
    <3>1. live \in Asked(t)
      BY <1>2, <2>1, <2>3 DEF Asked
    <3>w. ~Withholds(t, hours)
      BY <1>1, <1>5, Zenon
    <3>h. live # asked[t] - Window
      BY <1>2, <2>1, <2>3
    <3>2. live \in hours
      BY <2>1, <3>1, <3>w, <3>h, Zenon DEF Withholds
    <3> QED
      BY <1>3, <2>1, <3>2
  <2> QED
    BY <1>2, <2>1, <2>2, <2>3
<1>6. withheld' \in BOOLEAN /\ (~withheld' => ~withheld)
  BY <1>1 DEF Withholds, LInv
<1> QED
  BY <1>3, <1>4, <1>5, <1>6

\* Steps of a thread outside the fetch and the writes leave who is where they are.
LEMMA ElsewhereQuiet ==
  ASSUME IInv, LInv, Elsewhere
  PROVE  /\ pc["main"] = "down" <=> pc'["main"] = "down"
         /\ ~StateLocked' => ~StateLocked
         /\ \A t \in Threads : pc'[t] = "fetching" <=> pc[t] = "fetching"
         /\ UNCHANGED <<unsaved, lost, complete, observation>>
<1> DEFINE Quiet == /\ pc["main"] = "down" <=> pc'["main"] = "down"
                    /\ \A t \in Threads : pc[t] \in Saving => pc'[t] \in Saving
                    /\ \A t \in Threads : pc'[t] = "fetching" <=> pc[t] = "fetching"
                    /\ unsaved' = unsaved /\ lost' = lost
<1>1. ASSUME Serve PROVE Quiet
  <2>1. /\ pc["main"] = "binding" /\ pc["scheduler"] \in {"down", "off"}
        /\ pc' = [pc EXCEPT !["main"] = "serving", !["scheduler"] = "starting"]
        /\ unsaved' = unsaved /\ lost' = lost /\ {"main", "scheduler"} \subseteq Threads
    BY <1>1 DEF Serve, IInv, SchedulerLast, disk, seen, Threads
  <2>2. /\ pc'["main"] = "serving" /\ pc'["scheduler"] = "starting"
        /\ \A u \in Threads \ {"main", "scheduler"} : pc'[u] = pc[u]
    BY <2>1 DEF IInv, TypeOK
  <2> QED
    BY <2>1, <2>2 DEF Saving
<1>2. ASSUME Tick PROVE Quiet
  BY <1>2 DEF Tick, disk, seen
<1>3. ASSUME NEW t \in Threads, NEW from, NEW to, Goto(t, from, to),
             from \notin {"down", "fetching"} \cup Saving,
             to \notin {"down", "fetching"}, unsaved' = unsaved, lost' = lost
      PROVE  Quiet
  <2>1. \A u \in Threads : u # t => pc'[u] = pc[u]
    BY <1>3 DEF Goto, IInv, TypeOK
  <2>2. pc[t] = from /\ pc'[t] = to
    BY <1>3 DEF Goto, IInv, TypeOK
  <2>3. "main" \in Threads
    BY DEF Threads
  <2> QED
    BY <1>3, <2>1, <2>2, <2>3
<1>4. ASSUME NEW t \in Threads,
             \/ StartupRefresh(t) \/ OtherCall(t) \/ (t = "scheduler" /\ SchedulerLoop)
             \/ Acquire(t) \/ Busy(t) \/ NotDue(t) \/ BeginAttempt(t)
      PROVE  Quiet
  <2>1. \E from \in {"starting", "idle", "waiting", "planning", "entered", "locked"},
           to \in {"entered", "waiting", "locked", "saving_attempt", After(t)} : Goto(t, from, to)
    BY <1>4 DEF StartupRefresh, OtherCall, SchedulerLoop, Wake, PlanWake, Enter, Acquire, Busy,
                NotDue, BeginAttempt
  <2>2. After(t) \notin {"down", "fetching"}
    BY DEF After
  <2>3. unsaved' = unsaved /\ lost' = lost
    BY <1>4 DEF StartupRefresh, OtherCall, SchedulerLoop, Wake, PlanWake, Enter, Acquire, Busy,
                NotDue, BeginAttempt, disk, seen
  <2> QED
    BY <1>3, <2>1, <2>2, <2>3 DEF Saving
<1>5. Quiet
  BY <1>1, <1>2, <1>4 DEF Elsewhere, Threads
<1> QED
  BY <1>5 DEF StateLocked, Elsewhere

\* Every step keeps the invariant.
LEMMA NextLInv ==
  ASSUME IInv, IInv', LInv, [LiveNext]_liveVars
  PROVE  LInv'
<1> USE DEF Undisturbed
<1>0. CompleteIsOver' /\ complete \subseteq complete'
  BY CompleteKept
<1>t. complete \subseteq Int /\ complete' \subseteq Int
  BY <1>0 DEF LInv, CompleteIsOver
<1>o. UNCHANGED live => Observed(live)'
  BY <1>0 DEF LInv, Observed
<1>s. UNCHANGED saved => Observed(saved)'
  BY <1>0 DEF LInv, Observed
<1>p. UNCHANGED page => Observed(page)'
  BY <1>0 DEF LInv, Observed
<1>m. "main" \in Threads
  BY DEF Threads
<1>1. CASE Load
  <2>1. /\ UNCHANGED <<complete, asked, saved, page, withheld, unsaved>>
        /\ pc["main"] = "down" /\ \A t \in Threads : pc'[t] \in {"starting", "off", "idle"}
        /\ \/ live' = saved /\ lost' = lost \ {"file"}
           \/ live' = NoHour /\ lost' = Losses
    BY <1>1 DEF Load, Boot, LoadState, LoadFails, Threads, disk
  <2>2. Undisturbed => ~unsaved /\ ShownIsKept(saved)
    BY <2>1 DEF LInv
  <2>3. pc'["main"] # "down" /\ \A t \in Threads : pc'[t] # "fetching"
    BY <2>1, <1>m
  <2> QED
    BY <1>0, <2>1, <2>2, <2>3 DEF LInv, Observed, ShownIsKept, AskedLater, Losses
<1>2. CASE Die
  <2>1. /\ live' = NoHour /\ asked' = [t \in Threads |-> 0]
        /\ UNCHANGED <<complete, saved, page, withheld, unsaved>>
        /\ lost' = IF unsaved THEN lost \cup {"request", "page"} ELSE lost
        /\ pc'["main"] = "down"
    BY <1>2, <1>m DEF Die, Crash, disk
  <2> QED
    BY <1>0, <2>1 DEF LInv, Observed, ShownIsKept, AskedLater
<1>3. CASE ShowPage
  <2>1. /\ page' = live /\ UNCHANGED <<complete, asked, live, saved, pc, unsaved>>
        /\ withheld' = FALSE /\ lost' = lost \ {"page"}
        /\ pc["main"] # "down" /\ ~StateLocked
    BY <1>3 DEF ShowPage, ReadLive, disk
  <2>2. live # NoHour => live \in Int
    BY <1>t DEF LInv, Observed
  <2>3. Observed(live)' /\ Observed(saved)' /\ Observed(page)' /\ AskedLater'
    BY <2>1 DEF LInv, Observed, AskedLater
  <2>4. ShownIsKept(live)' /\ StateLocked' = StateLocked
    BY <2>1, <2>2 DEF ShownIsKept, StateLocked
  <2>5. ~unsaved => ShownIsKept(saved)'
    <3>1. ~unsaved => live \in {saved, NoHour}
      BY <2>1 DEF LInv
    <3> QED
      BY <2>1, <2>2, <3>1 DEF ShownIsKept
  <2>6. ~unsaved /\ "file" \in lost => live = NoHour
    BY <2>1 DEF LInv
  <2>7. ~unsaved /\ "file" \notin lost => saved = live
    BY <2>1 DEF LInv
  <2> QED
    BY <1>0, <2>1, <2>3, <2>4, <2>5, <2>6, <2>7 DEF LInv
<1>4. CASE CompleteHour \/ UNCHANGED liveVars
  <2>1. UNCHANGED <<asked, live, saved, page, withheld, pc, unsaved, lost>>
    BY <1>4 DEF CompleteHour, vars, disk, observation, liveVars
  <2>2. Observed(live)' /\ Observed(saved)' /\ Observed(page)' /\ AskedLater'
    BY <1>o, <1>s, <1>p, <2>1 DEF LInv, AskedLater
  <2>3. /\ ShownIsKept(live)' <=> ShownIsKept(live)
        /\ ShownIsKept(saved)' <=> ShownIsKept(saved)
        /\ StateLocked' <=> StateLocked
    BY <2>1 DEF ShownIsKept, StateLocked
  <2> QED
    BY <1>0, <2>1, <2>2, <2>3 DEF LInv
<1>5. CASE Elsewhere
  <2>1. UNCHANGED <<asked, live, saved, page, withheld>>
    BY <1>5 DEF Elsewhere, observation
  <2> QED
    BY <1>0, <1>5, <1>o, <1>s, <1>p, <2>1, ElsewhereQuiet DEF LInv, ShownIsKept, AskedLater
<1>6. ASSUME NEW t \in Threads, Ask(t) \/ Save(t)
      PROVE  LInv'
  <2>1. /\ pc[t] \in Saving /\ saved' = IF unsaved' THEN saved ELSE live
        /\ UNCHANGED <<complete, live, page, withheld>>
        /\ unsaved' \in BOOLEAN
        /\ "page" \notin lost' => "page" \notin lost
        /\ ~unsaved' => "file" \notin lost'
    BY <1>6 DEF Ask, Save, SendRequest, Finish, Written, Goto, Saving, IInv, TypeOK
  <2>2. pc["main"] # "down" /\ pc'["main"] # "down"
    <3>1. After(t) # "down"
      BY DEF After
    <3>2. \E to \in {"fetching", After(t)} : pc' = [pc EXCEPT ![t] = to]
      BY <1>6 DEF Ask, Save, SendRequest, Finish, Goto
    <3> QED
      BY <2>1, <3>1, <3>2, <1>m DEF IInv, AllDown, TypeOK, Saving
  <2>3. AskedLater'
    <3>1. CASE Save(t)
      <4>1. After(t) # "fetching"
        BY DEF After
      <4>2. \A u \in Threads : pc'[u] = "fetching" => pc[u] = "fetching"
        BY <3>1, <4>1 DEF Save, Finish, Goto, IInv, TypeOK
      <4>3. asked' = asked /\ live' = live
        BY <3>1 DEF Save
      <4> QED
        BY <4>2, <4>3 DEF LInv, AskedLater
    <3>2. CASE Ask(t)
      <4>1. asked' = [asked EXCEPT ![t] = HourOf(clock)] /\ HourOf(clock) \in Int
        <5>1. clock \in Nat
          BY DEF IInv, TypeOK, Times
        <5> QED
          BY <3>2, <5>1, HourMonotone DEF Ask
      <4>2. \A u \in Threads : u # t => pc'[u] # "fetching"
        BY <3>2, <2>1, OthersAssumption
           DEF Ask, SendRequest, Goto, IInv, TypeOK, LockHeld, Inside
      <4>3. live # NoHour => live < HourOf(clock)
        BY DEF LInv, Observed, CompleteIsOver
      <4> QED
        BY <2>1, <4>1, <4>2, <4>3 DEF LInv, AskedLater
    <3> QED
      BY <1>6, <3>1, <3>2
  <2>4. Observed(saved)'
    BY <1>0, <2>1 DEF LInv, Observed
  <2> QED
    BY <1>0, <1>o, <1>p, <2>1, <2>2, <2>3, <2>4 DEF LInv, ShownIsKept
<1>7. ASSUME NEW t \in Threads, Observe(t) \/ Refuse(t)
      PROVE  LInv'
  <2>1. /\ pc[t] = "fetching" /\ pc' = [pc EXCEPT ![t] = "saving_result"]
        /\ asked' = [asked EXCEPT ![t] = 0]
        /\ UNCHANGED <<complete, saved, page, unsaved, lost>>
    BY <1>7 DEF Observe, Refuse, FetchSucceeds, FetchFails, Goto, Answered, disk, seen
  <2>2. pc["main"] # "down" /\ pc'["main"] # "down"
    BY <2>1, <1>m DEF IInv, AllDown, TypeOK
  <2>3. StateLocked'
    BY <2>1 DEF StateLocked, Saving, IInv, TypeOK
  <2>4. AskedLater'
    <3>1. \A u \in Threads : pc'[u] # "fetching"
      BY <2>1, OthersAssumption DEF IInv, TypeOK, LockHeld, Inside
    <3> QED
      BY <2>1, <3>1 DEF LInv, AskedLater
  <2>5. /\ Observed(live)'
        /\ withheld' \in BOOLEAN /\ (~withheld' => ~withheld)
        /\ live # NoHour /\ ~withheld' => live' # NoHour /\ live' \in Int /\ live <= live'
    <3>1. CASE Observe(t)
      <4>1. /\ live' \in complete /\ (live # NoHour /\ ~withheld' => live <= live')
            /\ withheld' \in BOOLEAN /\ (~withheld' => ~withheld)
        BY <3>1, ObservedLater
      <4> QED
        BY <1>0, <1>t, <4>1, NoHourAssumption DEF Observed
    <3>2. CASE Refuse(t)
      <4>1. live' = live /\ withheld' = withheld /\ withheld \in BOOLEAN
        BY <3>2 DEF Refuse, LInv
      <4>2. live # NoHour => live \in Int
        BY <1>t DEF LInv, Observed
      <4> QED
        BY <1>o, <4>1, <4>2
    <3> QED
      BY <1>7, <3>1, <3>2
  <2>6. Undisturbed' => ShownIsKept(live)'
    <3> SUFFICES ASSUME page # NoHour, Undisturbed' PROVE live' # NoHour /\ page <= live'
      BY <2>1 DEF ShownIsKept
    <3>1. live # NoHour /\ page <= live /\ page \in Int /\ live \in Int
      BY <2>1, <2>2, <2>5, <1>t DEF LInv, ShownIsKept, Observed
    <3> QED
      BY <3>1, <2>5
  <2>7. ~unsaved' => "file" \notin lost'
    BY <2>1, <2>2 DEF IInv, NothingSince
  <2> QED
    BY <1>0, <1>s, <1>p, <2>1, <2>2, <2>3, <2>4, <2>5, <2>6, <2>7 DEF LInv, ShownIsKept
<1> QED
  BY <1>1, <1>2, <1>3, <1>4, <1>5, <1>6, <1>7 DEF LiveNext

-------------------------------------------------------------------------------
(* What must hold. *)

\* What a page has shown never goes back to an earlier hour, unless since then an answer
\* left out a complete hour, or it was lost with a death before it was saved or with a
\* failed load.  (fetch, refresh_if_due, live, _load_state)
THEOREM ShownHourNeverBack == LiveSpec => ShownHourNeverGoesBack
<1>1. IInv /\ IInv' /\ LInv /\ [LiveNext]_liveVars => LInv'
  BY NextLInv
<1>2. IInv /\ LInv /\ [LiveNext]_liveVars =>
        [page # NoHour /\ ~withheld /\ "page" \notin lost => page' # NoHour /\ page' >= page]_page
  <2> SUFFICES ASSUME IInv, LInv, [LiveNext]_liveVars, page' # page, page # NoHour,
                      ~withheld, "page" \notin lost
               PROVE  page' # NoHour /\ page' >= page
    OBVIOUS
  <2>1. ShowPage
    BY DEF LiveNext, liveVars, observation, Load, Die, CompleteHour, Elsewhere, Ask, Observe,
           Refuse, Save
  <2>2. page' = live /\ live # NoHour /\ page <= live
    BY <2>1 DEF ShowPage, ReadLive, LInv, Undisturbed, ShownIsKept
  <2>3. page \in Int /\ live \in Int
    BY <2>2 DEF LInv, Observed, CompleteIsOver
  <2> QED
    BY <2>2, <2>3
<1> QED
  BY <1>1, <1>2, InitLInv, LiveImplementsService, InvariantHolds, PTL
     DEF LiveSpec, ShownHourNeverGoesBack

===============================================================================
