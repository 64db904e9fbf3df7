------------------------------- MODULE Health -------------------------------
(***************************************************************************)
(* What the worker reports about itself, and what a monitor that polls     *)
(* GET /readyz learns from it.                                             *)
(*                                                                         *)
(* The worker writes its heartbeat at the top of an iteration only; the    *)
(* probe, the review, the flush and the pause of the iteration are awaits, *)
(* each with the longest time it may take.  Clocks are distances to now.   *)
(* Whether an enabled Teams destination exists, which readyz asks last,    *)
(* makes no difference to its answers and is left out.                     *)
(***************************************************************************)
EXTENDS Integers, FiniteSetsExt

CONSTANTS
    Stale,          \* settings.worker_stale_seconds
    Interval,       \* settings.pi_probe_interval_seconds
    MaxProbe,       \* longest wait for a probe
    MaxReview,      \* longest wait for a review: evidence and Pi
    MaxFlush,       \* longest wait for a flush of the outbox
    Pause           \* settings.worker_poll_seconds

ASSUME HealthAssumption ==
    /\ {Stale, MaxProbe, MaxReview, MaxFlush, Pause} \subseteq Nat
    /\ Interval \in Nat \ {0}

VARIABLES
    pc,        \* where the worker is
    left,      \* what is left of the await it is in
    probeIn,   \* next_probe - now
    piReady,   \* the worker's own pi_ready
    row,       \* whether worker_health has the worker's row
    beat,      \* age of heartbeat_at; without a row, older than anything
    reported,  \* pi_ready of the row
    piUp,      \* environment: a probe would succeed
    seen,      \* the monitor's last answer
    okAge      \* history: age of the last probe that succeeded

workerVars == <<pc, left, probeIn, piReady>>
rowVars == <<row, beat, reported>>
vars == <<workerVars, rowVars, piUp, seen, okAge>>

\* The longest way from one heartbeat to the next.
LoopTime == MaxReview + MaxFlush + Pause + MaxProbe
\* Ages stop one past everything they are compared with.
Cap == LoopTime + Stale + Interval
Aged(n) == Min({n + 1, Cap})

Longest == [starting |-> MaxProbe, probing |-> MaxProbe, reviewing |-> MaxReview,
            flushing |-> MaxFlush, sleeping |-> Pause, top |-> 0, down |-> 0]

TypeOK ==
    /\ pc \in DOMAIN Longest
    /\ left \in 0..Longest[pc]
    /\ probeIn \in 0..Interval
    /\ {piReady, row, reported, piUp} \subseteq BOOLEAN
    /\ {beat, okAge} \subseteq 0..Cap
    /\ seen \in {"nothing", "ready", "unready", "error"}
    /\ pc = "reviewing" => piReady

Init ==
    /\ pc = "down"
    /\ left = 0
    /\ probeIn = 0
    /\ piReady = FALSE
    /\ row = FALSE
    /\ beat = Cap
    /\ reported = FALSE
    /\ piUp \in BOOLEAN
    /\ seen = "nothing"
    /\ okAge = Cap

-----------------------------------------------------------------------------
(* The worker.                                                             *)

\* The worker goes on to a place where it may stay for its longest time.
Goto(place) == pc' = place /\ left' = Longest[place]

\* heartbeat: creates the row or updates it; both timestamps are now, probe or
\* no probe.
Heartbeat(ready) == row' = TRUE /\ beat' = 0 /\ reported' = ready

Start ==
    /\ pc = "down"
    /\ Goto("starting")
    /\ UNCHANGED <<probeIn, piReady, rowVars, piUp, seen, okAge>>

\* The startup probe: without Pi the worker reports that and exits.
StartupProbe ==
    /\ pc = "starting"
    /\ Goto(IF piUp THEN "top" ELSE "down")
    /\ Heartbeat(piUp)
    /\ piReady' = piUp
    /\ probeIn' = 0
    /\ okAge' = IF piUp THEN 0 ELSE okAge
    /\ UNCHANGED <<piUp, seen>>

\* A probe is due; the next one is due Interval after the start of this one.
BeginProbe ==
    /\ pc = "top"
    /\ probeIn = 0
    /\ Goto("probing")
    /\ probeIn' = Interval
    /\ UNCHANGED <<piReady, rowVars, piUp, seen, okAge>>

\* Only a worker that found Pi ready reviews.
AfterHeartbeat(ready) == Goto(IF ready THEN "reviewing" ELSE "flushing")

\* Faulty variant: a worker that once found Pi ready stays ready.
ReadyForEver == piUp \/ piReady

\* What the probe finds: whether it raises.
ProbeSucceeds == piUp

EndProbe ==
    /\ pc = "probing"
    /\ piReady' = ProbeSucceeds
    /\ Heartbeat(ProbeSucceeds)
    /\ AfterHeartbeat(ProbeSucceeds)
    /\ okAge' = IF piUp THEN 0 ELSE okAge
    /\ UNCHANGED <<probeIn, piUp, seen>>

\* Faulty variant: only an iteration that probes writes a heartbeat.
Silence(ready) == UNCHANGED rowVars

\* The else branch: the heartbeat repeats what the last probe found.
RepeatHeartbeat(ready) == Heartbeat(ready)

\* No probe is due.
SkipProbe ==
    /\ pc = "top"
    /\ probeIn > 0
    /\ RepeatHeartbeat(piReady)
    /\ AfterHeartbeat(piReady)
    /\ UNCHANGED <<probeIn, piReady, piUp, seen, okAge>>

\* process_next_job returns, with or without a job.
EndReview ==
    /\ pc = "reviewing"
    /\ Goto("flushing")
    /\ UNCHANGED <<probeIn, piReady, rowVars, piUp, seen, okAge>>

\* flush_outbox returns; the purge after it does not await.
EndFlush ==
    /\ pc = "flushing"
    /\ Goto("sleeping")
    /\ UNCHANGED <<probeIn, piReady, rowVars, piUp, seen, okAge>>

\* The wait for the stop event times out.
Wake ==
    /\ pc = "sleeping"
    /\ left = 0
    /\ Goto("top")
    /\ UNCHANGED <<probeIn, piReady, rowVars, piUp, seen, okAge>>

\* The process ends: the stop event ends the pause, a crash ends anything.  The
\* row keeps what was last written.
Exit ==
    /\ pc # "down"
    /\ Goto("down")
    /\ UNCHANGED <<probeIn, piReady, rowVars, piUp, seen, okAge>>

-----------------------------------------------------------------------------
(* The API.                                                                *)

\* readiness and readyz.  Without a row the worker is not fresh: 503.  With one,
\* heartbeat_at comes back from SQLite without a time zone and is compared with
\* utcnow(), which has one: TypeError, for which the API has no handler: 500,
\* whatever the row says.
Answer == IF row THEN "error" ELSE "unready"

\* The monitor polls.
Poll ==
    /\ seen' = Answer
    /\ UNCHANGED <<workerVars, rowVars, piUp, okAge>>

-----------------------------------------------------------------------------
(* Environment.                                                            *)

TogglePi ==
    /\ piUp' = ~piUp
    /\ UNCHANGED <<workerVars, rowVars, seen, okAge>>

\* Time passes while the worker awaits or is down.
Tick ==
    /\ pc = "down" \/ left > 0
    /\ left' = Max({left - 1, 0})
    /\ probeIn' = Max({probeIn - 1, 0})
    /\ beat' = Aged(beat)
    /\ okAge' = Aged(okAge)
    /\ UNCHANGED <<pc, piReady, row, reported, piUp, seen>>

WorkerStep ==
    StartupProbe \/ BeginProbe \/ EndProbe \/ SkipProbe \/ EndReview \/ EndFlush \/ Wake

Next ==
    \/ Start
    \/ WorkerStep
    \/ Exit
    \/ Poll
    \/ TogglePi
    \/ Tick

\* The worker's awaits end, time passes, the monitor goes on polling.
Spec == Init /\ [][Next]_vars /\ WF_vars(WorkerStep) /\ WF_vars(Tick) /\ WF_vars(Poll)

-----------------------------------------------------------------------------
(* Properties.                                                             *)

\* A running worker is silent for at most one iteration: that is how long a busy
\* worker may look dead, and beyond it a stale heartbeat means a dead one.
SilenceIsBounded == pc \notin {"down", "starting"} => beat <= LoopTime

\* A row that says Pi is ready never outlives the probe it rests on by a probe
\* interval: heartbeats repeat an old result, but at the last heartbeat a probe
\* had succeeded less than an interval before, across restarts and failed probes.
ReportIsRecent == reported => okAge < Interval + beat

\* Trouble that lasts shows in the row, whatever was reported before: a worker
\* that is gone or fails at every start, a Pi that stays away although the worker
\* goes on writing heartbeats, or the one whenever not the other.
TroubleShows ==
    <>[](pc \in {"down", "starting"} \/ ~piUp) => <>[](~reported \/ beat > Stale)

\* "`GET /readyz` returns `503` until the worker heartbeat is fresh, Pi's exact
\* version/model/authentication probe succeeds" (docs/operations.md): when
\* heartbeats never go stale, a worker that runs on with Pi there is found ready.
\* The code never answers 200.
ReadyWhenHealthy ==
    <>[](pc \notin {"down", "starting"} /\ piUp) => <>(seen = "ready")
=============================================================================
