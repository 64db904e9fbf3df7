---------------------------- MODULE HealthProofs ----------------------------
(***************************************************************************)
(* Proofs about Health for every staleness limit, probe interval and       *)
(* longest duration of the worker's awaits, whatever Pi, the operator and  *)
(* the clock do.                                                           *)
(***************************************************************************)
EXTENDS Health, TLAPS

-----------------------------------------------------------------------------
(* The inductive invariant.                                                *)

\* TypeOK in parts: numbers and Booleans are for different provers.
NumberTypes ==
    /\ pc \in DOMAIN Longest
    /\ left \in 0..Longest[pc]
    /\ probeIn \in 0..Interval
    /\ beat \in 0..Cap
    /\ okAge \in 0..Cap

FlagTypes ==
    /\ piReady \in BOOLEAN
    /\ reported \in BOOLEAN
    /\ piUp \in BOOLEAN
    /\ row \in BOOLEAN
    /\ seen \in {"nothing", "ready", "unready", "error"}
    /\ pc = "reviewing" => piReady

\* How long the heartbeat may have been silent when the worker leaves a place:
\* each await of the iteration adds its longest time.
SilenceInv ==
    /\ pc = "reviewing" => beat + left <= MaxReview
    /\ pc = "flushing" => beat + left <= MaxReview + MaxFlush
    /\ pc \in {"sleeping", "top"} => beat + left <= MaxReview + MaxFlush + Pause
    /\ pc = "probing" => beat + left <= LoopTime

\* Until the next probe is due, a worker that calls Pi ready has probed it
\* within the interval.
ProbeInv ==
    pc \in {"top", "reviewing", "flushing", "sleeping"} /\ piReady /\ probeIn > 0
        => okAge + probeIn <= Interval

HealthInv ==
    /\ NumberTypes
    /\ FlagTypes
    /\ SilenceInv
    /\ ProbeInv
    /\ ReportIsRecent

-----------------------------------------------------------------------------
(* Operators.                                                              *)

\* An age grows by one second until it is past everything it is compared with.
LEMMA AgedIsBounded ==
    ASSUME NEW n \in Nat
    PROVE  /\ Aged(n) \in 0..Cap
           /\ Aged(n) <= n + 1
           /\ n < Cap => Aged(n) = n + 1
           /\ n >= Cap => Aged(n) = Cap
  <1>1. Cap \in Nat
    BY HealthAssumption DEF Cap, LoopTime
  <1>2. \E x \in {n + 1, Cap} : \A y \in {n + 1, Cap} : x <= y
    BY <1>1
  <1>3. Aged(n) \in {n + 1, Cap} /\ Aged(n) <= n + 1 /\ Aged(n) <= Cap
    BY <1>1, <1>2 DEF Aged, Min
  <1> QED
    BY <1>1, <1>3

\* A countdown stops at zero.
LEMMA CountdownStops ==
    ASSUME NEW n \in Nat
    PROVE  Max({n - 1, 0}) = IF n > 0 THEN n - 1 ELSE 0
  <1>1. \E x \in {n - 1, 0} : \A y \in {n - 1, 0} : x >= y
    OBVIOUS
  <1>2. Max({n - 1, 0}) \in {n - 1, 0} /\ Max({n - 1, 0}) >= n - 1 /\ Max({n - 1, 0}) >= 0
    BY <1>1 DEF Max
  <1> QED
    BY <1>2

\* The longest stays are numbers of seconds.
LEMMA LongestType ==
    /\ DOMAIN Longest = {"starting", "probing", "reviewing", "flushing", "sleeping", "top", "down"}
    /\ \A p \in DOMAIN Longest : Longest[p] \in Nat
    /\ Longest["starting"] = MaxProbe /\ Longest["probing"] = MaxProbe
    /\ Longest["reviewing"] = MaxReview /\ Longest["flushing"] = MaxFlush
    /\ Longest["sleeping"] = Pause /\ Longest["top"] = 0 /\ Longest["down"] = 0
  BY HealthAssumption DEF Longest

\* The bounds of the ages.
LEMMA BoundsType ==
    /\ Cap \in Nat /\ LoopTime \in Nat
    /\ Interval \in Nat \ {0} /\ Interval <= Cap
    /\ LoopTime = MaxReview + MaxFlush + Pause + MaxProbe
    /\ {Stale, MaxProbe, MaxReview, MaxFlush, Pause} \subseteq Nat
  BY HealthAssumption DEF Cap, LoopTime

\* Sums of a growing and a shrinking clock, and of two growing ones.
LEMMA ClockSums ==
    /\ \A a, b, c, d, n \in Nat : c <= b + 1 /\ a > 0 /\ d = a - 1 /\ b + a <= n => c + d <= n
    /\ \A a, b, c, d, n \in Nat :
        c <= a + 1 /\ a < n + b /\ (d = b + 1 \/ (d = b /\ c < n + b)) => c < n + d
  OBVIOUS

-----------------------------------------------------------------------------
(* The worker's steps.                                                     *)

\* A step that writes no heartbeat and does not begin or end a probe keeps what
\* is known of both; how long the silence may last is left to show.
LEMMA ReportFrame ==
    ASSUME HealthInv, UNCHANGED <<probeIn, piReady, rowVars, piUp, seen, okAge>>,
           \/ pc' \in {"down", "starting"}
           \/ pc \in {"top", "reviewing", "flushing", "sleeping"} /\ pc' # "reviewing"
    PROVE  FlagTypes' /\ ProbeInv' /\ ReportIsRecent'
  <1>1. FlagTypes'
    BY DEF HealthInv, FlagTypes, rowVars
  <1>2. ProbeInv' /\ ReportIsRecent'
    BY DEF HealthInv, ProbeInv, ReportIsRecent, rowVars
  <1> QED
    BY <1>1, <1>2

\* A heartbeat is written with what a probe just found, or what the last found.
LEMMA HeartbeatKeepsInv ==
    ASSUME HealthInv, NEW ready \in BOOLEAN,
           Heartbeat(ready), piReady' = ready,
           ready => okAge' < Interval /\ (probeIn' > 0 => okAge' + probeIn' <= Interval),
           probeIn' \in 0..Interval, okAge' \in 0..Cap,
           UNCHANGED <<piUp, seen>>,
           \/ AfterHeartbeat(ready)
           \/ Goto("top") /\ ready
           \/ Goto("down")
    PROVE  HealthInv'
  <1>1. /\ pc' \in {"reviewing", "flushing", "top", "down"}
        /\ pc' = "reviewing" => ready
        /\ left' = Longest[pc'] /\ row' = TRUE /\ beat' = 0 /\ reported' = ready
    BY DEF AfterHeartbeat, Goto, Heartbeat
  <1>2. NumberTypes'
    BY <1>1, LongestType, BoundsType DEF NumberTypes
  <1>3. FlagTypes'
    BY <1>1 DEF HealthInv, FlagTypes
  <1>4. SilenceInv'
    BY <1>1, LongestType, BoundsType DEF SilenceInv
  <1>5. ProbeInv'
    BY <1>1 DEF ProbeInv
  <1>6. ReportIsRecent'
    <2>1. ready => okAge' < Interval + 0
      BY HealthAssumption
    <2> QED
      BY <1>1, <2>1 DEF ReportIsRecent
  <1> QED
    BY <1>2, <1>3, <1>4, <1>5, <1>6 DEF HealthInv

\* Starting and exiting: nothing is known of the silence of a worker that is gone.
LEMMA StartExitKeepInv ==
    ASSUME HealthInv, Start \/ Exit
    PROVE  HealthInv'
  <1>1. /\ pc' \in {"down", "starting"} /\ left' = Longest[pc']
        /\ UNCHANGED <<probeIn, piReady, rowVars, piUp, seen, okAge>>
    BY DEF Start, Exit, Goto
  <1>2. NumberTypes'
    BY <1>1, LongestType DEF HealthInv, NumberTypes, rowVars
  <1>3. SilenceInv'
    BY <1>1 DEF SilenceInv
  <1> QED
    BY <1>1, <1>2, <1>3, ReportFrame DEF HealthInv

\* The startup probe.
LEMMA StartupProbeKeepsInv ==
    ASSUME HealthInv, StartupProbe
    PROVE  HealthInv'
  <1>1. piUp \in BOOLEAN
    BY DEF HealthInv, FlagTypes
  <1>2. /\ Heartbeat(piUp) /\ piReady' = piUp /\ probeIn' = 0
        /\ piUp => okAge' = 0
        /\ ~piUp => okAge' = okAge
        /\ UNCHANGED <<piUp, seen>>
        /\ (Goto("top") /\ piUp) \/ Goto("down")
    BY <1>1 DEF StartupProbe
  <1>3. okAge' \in 0..Cap /\ probeIn' \in 0..Interval
    BY <1>1, <1>2, BoundsType, HealthAssumption DEF HealthInv, NumberTypes
  <1>4. piUp => okAge' < Interval /\ (probeIn' > 0 => okAge' + probeIn' <= Interval)
    BY <1>2, HealthAssumption
  <1> QED
    BY <1>1, <1>2, <1>3, <1>4, HeartbeatKeepsInv

\* A probe in the loop begins.
LEMMA BeginProbeKeepsInv ==
    ASSUME HealthInv, BeginProbe
    PROVE  HealthInv'
  <1>1. /\ pc = "top" /\ pc' = "probing" /\ left' = Longest["probing"]
        /\ probeIn' = Interval
        /\ UNCHANGED <<piReady, rowVars, piUp, seen, okAge>>
    BY DEF BeginProbe, Goto
  <1>2. NumberTypes'
    BY <1>1, LongestType, HealthAssumption DEF HealthInv, NumberTypes, rowVars
  <1>3. FlagTypes'
    BY <1>1 DEF HealthInv, FlagTypes, rowVars
  <1>4. SilenceInv'
    BY <1>1, LongestType, BoundsType DEF HealthInv, NumberTypes, SilenceInv, rowVars
  <1>5. ProbeInv' /\ ReportIsRecent'
    BY <1>1 DEF HealthInv, ProbeInv, ReportIsRecent, rowVars
  <1> QED
    BY <1>2, <1>3, <1>4, <1>5 DEF HealthInv

\* It ends, and what it found is reported.
LEMMA EndProbeKeepsInv ==
    ASSUME HealthInv, EndProbe
    PROVE  HealthInv'
  <1>1. piUp \in BOOLEAN
    BY DEF HealthInv, FlagTypes
  <1>2. /\ Heartbeat(piUp) /\ piReady' = piUp /\ probeIn' = probeIn
        /\ piUp => okAge' = 0
        /\ ~piUp => okAge' = okAge
        /\ UNCHANGED <<piUp, seen>>
        /\ AfterHeartbeat(piUp)
    BY <1>1 DEF EndProbe, ProbeSucceeds
  <1>3. okAge' \in 0..Cap /\ probeIn' \in 0..Interval
    BY <1>1, <1>2, BoundsType, HealthAssumption DEF HealthInv, NumberTypes
  <1>4. piUp => okAge' < Interval /\ (probeIn' > 0 => okAge' + probeIn' <= Interval)
    BY <1>2, <1>3, HealthAssumption
  <1> QED
    BY <1>1, <1>2, <1>3, <1>4, HeartbeatKeepsInv

\* No probe is due, so the result that is repeated is younger than the interval.
LEMMA SkipProbeKeepsInv ==
    ASSUME HealthInv, SkipProbe
    PROVE  HealthInv'
  <1>1. piReady \in BOOLEAN
    BY DEF HealthInv, FlagTypes
  <1>2. /\ pc = "top" /\ probeIn > 0
        /\ Heartbeat(piReady) /\ piReady' = piReady /\ probeIn' = probeIn /\ okAge' = okAge
        /\ UNCHANGED <<piUp, seen>>
        /\ AfterHeartbeat(piReady)
    BY DEF SkipProbe, RepeatHeartbeat
  <1>3. okAge' \in 0..Cap /\ probeIn' \in 0..Interval
    BY <1>2 DEF HealthInv, NumberTypes
  <1>4. piReady => okAge' + probeIn' <= Interval
    BY <1>2 DEF HealthInv, ProbeInv
  <1>5. piReady => okAge' < Interval
    BY <1>2, <1>3, <1>4, BoundsType, HealthAssumption
  <1> QED
    BY <1>1, <1>2, <1>3, <1>4, <1>5, HeartbeatKeepsInv

\* The worker goes on to its next await, or to the top of its loop.
LEMMA LoopKeepsInv ==
    ASSUME HealthInv, EndReview \/ EndFlush \/ Wake
    PROVE  HealthInv'
  <1>1. /\ UNCHANGED <<probeIn, piReady, rowVars, piUp, seen, okAge>>
        /\ left' = Longest[pc']
        /\ \/ pc = "reviewing" /\ pc' = "flushing"
           \/ pc = "flushing" /\ pc' = "sleeping"
           \/ pc = "sleeping" /\ pc' = "top"
    BY DEF EndReview, EndFlush, Wake, Goto
  <1>2. NumberTypes'
    BY <1>1, LongestType DEF HealthInv, NumberTypes, rowVars
  <1>3. SilenceInv'
    <2>1. beat \in Nat /\ left \in Nat
      BY LongestType, BoundsType DEF HealthInv, NumberTypes
    <2> QED
      BY <1>1, <2>1, LongestType, BoundsType DEF HealthInv, SilenceInv, rowVars
  <1> QED
    BY <1>1, <1>2, <1>3, ReportFrame DEF HealthInv

-----------------------------------------------------------------------------
(* Everybody else.                                                         *)

\* The monitor and Pi leave the worker and its row alone.
LEMMA OthersKeepInv ==
    ASSUME HealthInv, Poll \/ TogglePi
    PROVE  HealthInv'
  <1>1. UNCHANGED <<workerVars, rowVars, okAge>>
    BY DEF Poll, TogglePi
  <1>a. seen' \in {"nothing", "ready", "unready", "error"} /\ piUp' \in BOOLEAN
    <2>1. CASE Poll
      BY <2>1 DEF Poll, Answer, HealthInv, FlagTypes
    <2>2. CASE TogglePi
      BY <2>2 DEF TogglePi, HealthInv, FlagTypes
    <2> QED
      BY <2>1, <2>2
  <1>2. FlagTypes'
    BY <1>1, <1>a DEF HealthInv, FlagTypes, workerVars, rowVars
  <1>3. NumberTypes' /\ SilenceInv' /\ ProbeInv' /\ ReportIsRecent'
    BY <1>1 DEF HealthInv, NumberTypes, SilenceInv, ProbeInv, ReportIsRecent, workerVars, rowVars
  <1> QED
    BY <1>2, <1>3 DEF HealthInv

\* A second passes: what is left of an await becomes silence.
LEMMA TickKeepsInv ==
    ASSUME HealthInv, Tick
    PROVE  HealthInv'
  <1>1. UNCHANGED <<pc, piReady, row, reported, piUp, seen>>
    BY DEF Tick
  <1>2. /\ left \in Nat /\ probeIn \in Nat /\ beat \in Nat /\ okAge \in Nat
        /\ beat <= Cap /\ okAge <= Cap /\ left <= Longest[pc] /\ probeIn <= Interval
    BY LongestType, BoundsType, HealthAssumption DEF HealthInv, NumberTypes
  <1>3. /\ left' = IF left > 0 THEN left - 1 ELSE 0
        /\ probeIn' = IF probeIn > 0 THEN probeIn - 1 ELSE 0
    BY <1>2, CountdownStops DEF Tick
  <1>4. /\ beat' \in 0..Cap /\ beat' <= beat + 1
        /\ beat < Cap => beat' = beat + 1
        /\ beat >= Cap => beat' = Cap
    BY <1>2, AgedIsBounded DEF Tick
  <1>5. okAge' \in 0..Cap /\ okAge' <= okAge + 1
    BY <1>2, AgedIsBounded DEF Tick
  <1>n. left' \in Nat /\ probeIn' \in Nat /\ beat' \in Nat /\ okAge' \in Nat
    BY <1>2, <1>3, <1>4, <1>5, BoundsType
  <1>6. NumberTypes'
    BY <1>1, <1>2, <1>3, <1>4, <1>5, LongestType, HealthAssumption DEF HealthInv, NumberTypes
  <1>7. FlagTypes'
    BY <1>1 DEF HealthInv, FlagTypes
  <1>8. SilenceInv'
    <2>1. CASE pc = "down"
      BY <1>1, <2>1 DEF SilenceInv
    <2>2. CASE pc # "down"
      <3>1. beat' + left' <= beat + left /\ beat + left \in Nat /\ beat' + left' \in Nat
        BY <1>2, <1>3, <1>4, <2>2, BoundsType DEF Tick
      <3>2. /\ pc = "reviewing" => beat' + left' <= MaxReview
            /\ pc = "flushing" => beat' + left' <= MaxReview + MaxFlush
            /\ pc \in {"sleeping", "top"} => beat' + left' <= MaxReview + MaxFlush + Pause
            /\ pc = "probing" => beat' + left' <= LoopTime
        BY <3>1, BoundsType DEF HealthInv, SilenceInv
      <3> QED
        BY <1>1, <3>2 DEF SilenceInv
    <2> QED
      BY <2>1, <2>2
  <1>9. ProbeInv'
    <2> SUFFICES ASSUME pc \in {"top", "reviewing", "flushing", "sleeping"}, piReady, probeIn' > 0
                 PROVE  okAge' + probeIn' <= Interval
      BY <1>1 DEF ProbeInv
    <2>1. probeIn > 0 /\ probeIn' = probeIn - 1
      BY <1>2, <1>3
    <2>2. okAge + probeIn <= Interval
      BY <2>1 DEF HealthInv, ProbeInv
    <2> QED
      BY <1>2, <1>5, <1>n, <2>1, <2>2, BoundsType, ClockSums
  <1>10. ReportIsRecent'
    <2>1. beat' = beat + 1 \/ (beat' = beat /\ okAge' < Interval + beat)
      BY <1>2, <1>4, <1>5, <1>n, BoundsType
    <2>2. okAge < Interval + beat => okAge' < Interval + beat'
      BY <1>2, <1>5, <1>n, <2>1, ClockSums, BoundsType
    <2> QED
      BY <1>1, <2>2 DEF HealthInv, ReportIsRecent
  <1> QED
    BY <1>6, <1>7, <1>8, <1>9, <1>10 DEF HealthInv

-----------------------------------------------------------------------------
(* The theorems.                                                           *)

\* Before the first start.
LEMMA InitHasInv == Init => HealthInv
  <1> SUFFICES ASSUME Init PROVE HealthInv
    OBVIOUS
  <1>1. NumberTypes
    BY LongestType, BoundsType, HealthAssumption DEF Init, NumberTypes
  <1>2. FlagTypes
    BY DEF Init, FlagTypes
  <1>3. SilenceInv /\ ProbeInv /\ ReportIsRecent
    BY DEF Init, SilenceInv, ProbeInv, ReportIsRecent
  <1> QED
    BY <1>1, <1>2, <1>3 DEF HealthInv

\* Every step.
LEMMA StepKeepsInv == HealthInv /\ [Next]_vars => HealthInv'
  <1> SUFFICES ASSUME HealthInv, [Next]_vars PROVE HealthInv'
    OBVIOUS
  <1>1. CASE UNCHANGED vars
    <2>1. FlagTypes'
      BY <1>1 DEF vars, workerVars, rowVars, HealthInv, FlagTypes
    <2>2. NumberTypes' /\ SilenceInv' /\ ProbeInv' /\ ReportIsRecent'
      BY <1>1 DEF vars, workerVars, rowVars, HealthInv, NumberTypes, SilenceInv, ProbeInv, ReportIsRecent
    <2> QED
      BY <2>1, <2>2 DEF HealthInv
  <1> QED
    BY <1>1, StartExitKeepInv, StartupProbeKeepsInv, BeginProbeKeepsInv, EndProbeKeepsInv,
       SkipProbeKeepsInv, LoopKeepsInv, OthersKeepInv, TickKeepsInv DEF Next, WorkerStep

\* The invariant holds throughout.
LEMMA InvHolds == Spec => []HealthInv
  BY InitHasInv, StepKeepsInv, PTL DEF Spec

\* The worker's clocks and the row are well typed, and only a worker that found
\* Pi ready reviews.
THEOREM HealthTypeCorrect == Spec => []TypeOK
  <1>1. HealthInv => TypeOK
    BY DEF HealthInv, NumberTypes, FlagTypes, TypeOK
  <1> QED
    BY <1>1, InvHolds, PTL

\* Between two heartbeats of a running worker lie at most a review, a flush, a
\* pause and a probe, whatever their longest times are.
THEOREM SilencesAreBounded == Spec => []SilenceIsBounded
  <1>1. HealthInv => SilenceIsBounded
    BY LongestType, BoundsType DEF HealthInv, NumberTypes, SilenceInv, SilenceIsBounded
  <1> QED
    BY <1>1, InvHolds, PTL

\* The row never calls Pi ready on the strength of a probe that ended an
\* interval or more before the heartbeat, whatever the settings and the order of
\* probes, failures, crashes and restarts.
THEOREM ReportsAreRecent == Spec => []ReportIsRecent
  <1>1. HealthInv => ReportIsRecent
    BY DEF HealthInv
  <1> QED
    BY <1>1, InvHolds, PTL
=============================================================================
