---------------------------- MODULE ReviewQueue ----------------------------
(***************************************************************************)
(* The durable review queue: the `jobs` table and the worker loop that     *)
(* claims, reviews, retries and completes its rows, restarts after a crash *)
(* and probes the Pi model process.                                        *)
(*                                                                         *)
(* Sessions run on SQLite through pysqlite, where a SELECT runs outside a  *)
(* transaction and only the following UPDATE opens one.  A claim therefore *)
(* takes two steps: SelectCandidate reads, Claim (or LoseClaim) writes,    *)
(* and another process may write in between.  Every other database method  *)
(* used here is a single write transaction, hence one step.                *)
(*                                                                         *)
(* Time is kept as the distance to the deadlines the code compares with    *)
(* the clock (available_at, claimed_at + 900 s, next_probe), so that the   *)
(* state stays finite while the worker polls forever.                      *)
(*                                                                         *)
(* The documented deployment has one worker; the module takes any number,  *)
(* because an overlapping deployment runs two for a while and the claim is *)
(* written to be safe then.                                                *)
(***************************************************************************)
EXTENDS Backoff, FiniteSets

CONSTANTS
    Workers,        \* worker processes
    MaxJobs,        \* bound: jobs ever submitted
    MaxAttempts,    \* settings.job_max_attempts
    AbandonAfter,   \* recover_abandoned_jobs(older_than_seconds)
    ProbeInterval,  \* settings.pi_probe_interval_seconds
    MaxRestarts,    \* bound: crashes and stops of workers
    MaxOutages      \* bound: times the Pi process becomes unavailable

ASSUME QueueAssumption ==
    /\ IsFiniteSet(Workers)
    /\ MaxJobs \in Nat
    /\ MaxAttempts \in Nat \ {0}
    /\ AbandonAfter \in Nat
    /\ ProbeInterval \in Nat \ {0}
    /\ MaxRestarts \in Nat
    /\ MaxOutages \in Nat

VARIABLES
    \* the jobs table
    status,       \* JobStatus, or "absent" before the row is inserted
    attempts,
    wait,         \* available_at - now, 0 once the job is due
    claimAge,     \* now - claimed_at while running, stops just past AbandonAfter
    error,        \* what error_json holds
    decisions,    \* rows of the decisions table for the job
    \* a worker's program counter and locals
    pc,
    held,         \* the job selected or claimed, 0 for none
    heldAttempts, \* the attempts field of the worker's own copy of that job
    piReady,
    probeIn,      \* next_probe - now, 0 once the probe is due
    \* environment and history
    piUp,         \* whether Pi answers
    recoveries,   \* history: times recover_abandoned_jobs requeued the job
    restarts,     \* history: crashes and stops so far
    outages       \* history: outages so far

jobVars == <<status, attempts, wait, claimAge, error, decisions, recoveries>>
workerVars == <<pc, held, heldAttempts, piReady, probeIn>>
envVars == <<piUp, restarts, outages>>
vars == <<jobVars, workerVars, envVars>>

\* Jobs are numbered in the order of created_at.
Jobs == 1..MaxJobs

ClaimableStates == {"pending", "retry"}
SettledStates == {"succeeded", "failed"}
Statuses == {"absent", "running"} \union ClaimableStates \union SettledStates
Errors == {"none", "unavailable", "rejected"}
Labels == {"down", "top", "claim", "selected", "review", "flush"}

JobTypes ==
    /\ status \in [Jobs -> Statuses]
    /\ attempts \in [Jobs -> Nat]
    /\ wait \in [Jobs -> Nat]
    /\ claimAge \in [Jobs -> 0..(AbandonAfter + 1)]
    /\ error \in [Jobs -> Errors]
    /\ decisions \in [Jobs -> Nat]
    /\ recoveries \in [Jobs -> Nat]

WorkerTypes ==
    /\ pc \in [Workers -> Labels]
    /\ held \in [Workers -> Jobs \union {0}]
    /\ heldAttempts \in [Workers -> Nat]
    /\ piReady \in [Workers -> BOOLEAN]
    /\ probeIn \in [Workers -> 0..ProbeInterval]

EnvTypes ==
    /\ piUp \in BOOLEAN
    /\ restarts \in 0..MaxRestarts
    /\ outages \in 0..MaxOutages

\* A worker past the SELECT of claim_job holds a job.
HoldsAJob == \A w \in Workers : pc[w] \in {"selected", "review"} => held[w] \in Jobs

TypeOK == JobTypes /\ WorkerTypes /\ EnvTypes /\ HoldsAJob

Init ==
    /\ status = [j \in Jobs |-> "absent"]
    /\ attempts = [j \in Jobs |-> 0]
    /\ wait = [j \in Jobs |-> 0]
    /\ claimAge = [j \in Jobs |-> 0]
    /\ error = [j \in Jobs |-> "none"]
    /\ decisions = [j \in Jobs |-> 0]
    /\ recoveries = [j \in Jobs |-> 0]
    /\ pc = [w \in Workers |-> "down"]
    /\ held = [w \in Workers |-> 0]
    /\ heldAttempts = [w \in Workers |-> 0]
    /\ piReady = [w \in Workers |-> FALSE]
    /\ probeIn = [w \in Workers |-> 0]
    /\ piUp = TRUE
    /\ restarts = 0
    /\ outages = 0

-----------------------------------------------------------------------------
(* The API process inserts rows.                                           *)

\* create_job inserts a pending row that is due at once.
Submit(j) ==
    /\ status[j] = "absent"
    /\ \A i \in Jobs : i < j => status[i] # "absent"
    /\ status' = [status EXCEPT ![j] = "pending"]
    /\ UNCHANGED <<attempts, wait, claimAge, error, decisions, recoveries,
                   workerVars, envVars>>

-----------------------------------------------------------------------------
(* Starting a worker.                                                      *)

\* Faulty variants: the status filter is missing; the comparison is reversed.
AbandonedInAnyState(j) == status[j] # "absent" /\ claimAge[j] > AbandonAfter
AbandonedTooEarly(j) == status[j] = "running" /\ claimAge[j] < AbandonAfter

\* recover_abandoned_jobs: claimed_at lies before the cutoff.
Abandoned(j) == status[j] = "running" /\ claimAge[j] > AbandonAfter

\* run_worker up to its loop.  A failed startup probe raises and leaves the
\* worker down, so only a start with Pi up is a step.  One UPDATE requeues
\* every abandoned job; it looks at neither attempts nor max_attempts.
StartWorker(w) ==
    /\ pc[w] = "down"
    /\ piUp
    /\ status' = [j \in Jobs |-> IF Abandoned(j) THEN "retry" ELSE status[j]]
    /\ wait' = [j \in Jobs |-> IF Abandoned(j) THEN 0 ELSE wait[j]]
    /\ recoveries' = [j \in Jobs |->
                        IF Abandoned(j) THEN recoveries[j] + 1 ELSE recoveries[j]]
    /\ pc' = [pc EXCEPT ![w] = "top"]
    /\ piReady' = [piReady EXCEPT ![w] = TRUE]
    /\ probeIn' = [probeIn EXCEPT ![w] = 0]
    /\ UNCHANGED <<attempts, claimAge, error, decisions, held, heldAttempts, envVars>>

-----------------------------------------------------------------------------
(* One iteration of the worker loop.                                       *)

\* Faulty variant: pi_ready is not set again after an outage.
ProbeOkForgotten(w) ==
    /\ pc[w] = "top"
    /\ probeIn[w] = 0
    /\ piUp
    /\ probeIn' = [probeIn EXCEPT ![w] = ProbeInterval]
    /\ pc' = [pc EXCEPT ![w] = IF piReady[w] THEN "claim" ELSE "flush"]
    /\ UNCHANGED <<jobVars, held, heldAttempts, piReady, envVars>>

\* The periodic probe succeeds: reviews may run.
ProbeOk(w) ==
    /\ pc[w] = "top"
    /\ probeIn[w] = 0
    /\ piUp
    /\ piReady' = [piReady EXCEPT ![w] = TRUE]
    /\ probeIn' = [probeIn EXCEPT ![w] = ProbeInterval]
    /\ pc' = [pc EXCEPT ![w] = "claim"]
    /\ UNCHANGED <<jobVars, held, heldAttempts, envVars>>

\* The periodic probe fails: no job is claimed until a later probe succeeds.
ProbeFails(w) ==
    /\ pc[w] = "top"
    /\ probeIn[w] = 0
    /\ ~piUp
    /\ piReady' = [piReady EXCEPT ![w] = FALSE]
    /\ probeIn' = [probeIn EXCEPT ![w] = ProbeInterval]
    /\ pc' = [pc EXCEPT ![w] = "flush"]
    /\ UNCHANGED <<jobVars, held, heldAttempts, envVars>>

\* No probe is due: the last probe's answer decides.
SkipProbe(w) ==
    /\ pc[w] = "top"
    /\ probeIn[w] > 0
    /\ pc' = [pc EXCEPT ![w] = IF piReady[w] THEN "claim" ELSE "flush"]
    /\ UNCHANGED <<jobVars, held, heldAttempts, piReady, probeIn, envVars>>

\* Faulty variant: available_at is not compared.
DueAtOnce == {j \in Jobs : status[j] \in ClaimableStates}

\* The rows the SELECT of claim_job may return.
DueJobs == {j \in Jobs : status[j] \in ClaimableStates /\ wait[j] = 0}

\* claim_job, first statement: nothing is due.
NothingDue(w) ==
    /\ pc[w] = "claim"
    /\ DueJobs = {}
    /\ pc' = [pc EXCEPT ![w] = "flush"]
    /\ UNCHANGED <<jobVars, held, heldAttempts, piReady, probeIn, envVars>>

\* claim_job, first statement: the due row with the smallest created_at is
\* copied into the session.
SelectCandidate(w) ==
    /\ pc[w] = "claim"
    /\ \E j \in DueJobs :
        /\ \A i \in DueJobs : j <= i
        /\ held' = [held EXCEPT ![w] = j]
        /\ heldAttempts' = [heldAttempts EXCEPT ![w] = attempts[j]]
    /\ pc' = [pc EXCEPT ![w] = "selected"]
    /\ UNCHANGED <<jobVars, piReady, probeIn, envVars>>

\* Faulty variant: the UPDATE of claim_job names the row by id only.
ClaimableUnchecked(j) == status[j] # "absent"

\* The WHERE clause of the claiming UPDATE looks at the status again, but not
\* at available_at.
StillClaimable(j) == status[j] \in ClaimableStates

\* claim_job, second statement: one row changed.  The session's own copy is
\* incremented from the value the SELECT read.
Claim(w) ==
    /\ pc[w] = "selected"
    /\ StillClaimable(held[w])
    /\ status' = [status EXCEPT ![held[w]] = "running"]
    /\ attempts' = [attempts EXCEPT ![held[w]] = @ + 1]
    /\ claimAge' = [claimAge EXCEPT ![held[w]] = 0]
    /\ heldAttempts' = [heldAttempts EXCEPT ![w] = @ + 1]
    /\ pc' = [pc EXCEPT ![w] = "review"]
    /\ UNCHANGED <<wait, error, decisions, recoveries, held, piReady, probeIn, envVars>>

\* Faulty variant: process_next_job does not look whether claim_job returned a
\* job, and reviews None.
ReviewNone(w) ==
    /\ pc[w] = "selected"
    /\ ~StillClaimable(held[w])
    /\ held' = [held EXCEPT ![w] = 0]
    /\ heldAttempts' = [heldAttempts EXCEPT ![w] = 0]
    /\ pc' = [pc EXCEPT ![w] = "review"]
    /\ UNCHANGED <<jobVars, piReady, probeIn, envVars>>

\* claim_job, second statement: no row changed, process_next_job returns.
LoseClaim(w) ==
    /\ pc[w] = "selected"
    /\ ~StillClaimable(held[w])
    /\ held' = [held EXCEPT ![w] = 0]
    /\ heldAttempts' = [heldAttempts EXCEPT ![w] = 0]
    /\ pc' = [pc EXCEPT ![w] = "flush"]
    /\ UNCHANGED <<jobVars, piReady, probeIn, envVars>>

\* Faulty variant: an error after the commit sends a decided job to retry_job.
CompleteThenRetry(w) ==
    /\ pc[w] = "review"
    /\ piUp
    /\ status' = [status EXCEPT ![held[w]] = "retry"]
    /\ decisions' = [decisions EXCEPT ![held[w]] = @ + 1]
    /\ held' = [held EXCEPT ![w] = 0]
    /\ heldAttempts' = [heldAttempts EXCEPT ![w] = 0]
    /\ pc' = [pc EXCEPT ![w] = "flush"]
    /\ UNCHANGED <<attempts, wait, claimAge, error, recoveries, piReady, probeIn, envVars>>

\* complete_job: evidence, decision, finding and the new status commit in one
\* transaction.  Its UPDATE names the row by id only.
CompleteJob(w) ==
    /\ pc[w] = "review"
    /\ piUp
    /\ status' = [status EXCEPT ![held[w]] = "succeeded"]
    /\ error' = [error EXCEPT ![held[w]] = "none"]
    /\ decisions' = [decisions EXCEPT ![held[w]] = @ + 1]
    /\ held' = [held EXCEPT ![w] = 0]
    /\ heldAttempts' = [heldAttempts EXCEPT ![w] = 0]
    /\ pc' = [pc EXCEPT ![w] = "flush"]
    /\ UNCHANGED <<attempts, wait, claimAge, recoveries, piReady, probeIn, envVars>>

\* Faulty variants: the limit is off by one, either way.
ExhaustedEarly(n) == n + 1 >= MaxAttempts
ExhaustedLate(n) == n > MaxAttempts

\* retry_job compares the worker's own copy of attempts with max_attempts.
Exhausted(n) == n >= MaxAttempts

\* The handler of process_next_job: retry_job, again by id only.  "unavailable"
\* is PiUnavailable; "rejected" stands for every other caught error (missing
\* evidence, a reply that fails validation, evidence ids Pi made up).
RetryJob(w, e) ==
    /\ pc[w] = "review"
    /\ e = "unavailable" => ~piUp
    /\ status' = [status EXCEPT ![held[w]] =
                    IF Exhausted(heldAttempts[w]) THEN "failed" ELSE "retry"]
    /\ error' = [error EXCEPT ![held[w]] = e]
    /\ wait' = [wait EXCEPT ![held[w]] = RetryDelay(heldAttempts[w])]
    /\ held' = [held EXCEPT ![w] = 0]
    /\ heldAttempts' = [heldAttempts EXCEPT ![w] = 0]
    /\ pc' = [pc EXCEPT ![w] = "flush"]
    /\ UNCHANGED <<attempts, claimAge, decisions, recoveries, piReady, probeIn, envVars>>

\* The rest of the iteration works on other tables: flush_outbox, purge and
\* the sleep until the next poll.
EndIteration(w) ==
    /\ pc[w] = "flush"
    /\ pc' = [pc EXCEPT ![w] = "top"]
    /\ UNCHANGED <<jobVars, held, heldAttempts, piReady, probeIn, envVars>>

-----------------------------------------------------------------------------
(* Stops, crashes, Pi and the clock.                                       *)

\* The locals of a process that is gone.
Forget(w) ==
    /\ pc' = [pc EXCEPT ![w] = "down"]
    /\ held' = [held EXCEPT ![w] = 0]
    /\ heldAttempts' = [heldAttempts EXCEPT ![w] = 0]
    /\ piReady' = [piReady EXCEPT ![w] = FALSE]
    /\ probeIn' = [probeIn EXCEPT ![w] = 0]
    /\ restarts' = restarts + 1

\* SIGTERM or SIGINT set the stop event, which only the loop's condition reads.
StopWorker(w) ==
    /\ pc[w] = "top"
    /\ restarts < MaxRestarts
    /\ Forget(w)
    /\ UNCHANGED <<jobVars, piUp, outages>>

\* The process dies: killed, or by an exception process_next_job does not
\* catch (an HTTP transport error from Splunk, a broken pipe to Pi, a locked
\* database).
Crash(w) ==
    /\ pc[w] # "down"
    /\ restarts < MaxRestarts
    /\ Forget(w)
    /\ UNCHANGED <<jobVars, piUp, outages>>

PiGoesDown ==
    /\ piUp
    /\ outages < MaxOutages
    /\ piUp' = FALSE
    /\ outages' = outages + 1
    /\ UNCHANGED <<jobVars, workerVars, restarts>>

PiComesUp ==
    /\ ~piUp
    /\ piUp' = TRUE
    /\ UNCHANGED <<jobVars, workerVars, restarts, outages>>

Ageing(j) == status[j] = "running" /\ claimAge[j] <= AbandonAfter

CountDown(n) == IF n > 0 THEN n - 1 ELSE 0

\* A second passes.  The two statements of one claim_job share the `now` read
\* before them; that the UPDATE does not wait for a lock in between is assumed.
Tick ==
    /\ \A w \in Workers : pc[w] # "selected"
    /\ \/ \E j \in Jobs : wait[j] > 0 \/ Ageing(j)
       \/ \E w \in Workers : probeIn[w] > 0
    /\ wait' = [j \in Jobs |-> CountDown(wait[j])]
    /\ claimAge' = [j \in Jobs |-> IF Ageing(j) THEN claimAge[j] + 1 ELSE claimAge[j]]
    /\ probeIn' = [w \in Workers |-> CountDown(probeIn[w])]
    /\ UNCHANGED <<status, attempts, error, decisions, recoveries,
                   pc, held, heldAttempts, piReady, envVars>>

-----------------------------------------------------------------------------

\* What a running worker does by itself.
WorkerStep(w) ==
    \/ ProbeOk(w)
    \/ ProbeFails(w)
    \/ SkipProbe(w)
    \/ NothingDue(w)
    \/ SelectCandidate(w)
    \/ Claim(w)
    \/ LoseClaim(w)
    \/ CompleteJob(w)
    \/ \E e \in Errors \ {"none"} : RetryJob(w, e)
    \/ EndIteration(w)

Next ==
    \/ \E j \in Jobs : Submit(j)
    \/ \E w \in Workers :
        \/ StartWorker(w)
        \/ WorkerStep(w)
        \/ StopWorker(w)
        \/ Crash(w)
    \/ PiGoesDown
    \/ PiComesUp
    \/ Tick

Spec == Init /\ [][Next]_vars

\* The loop always goes on (a review ends by its own timeout), the container
\* is restarted when it exits (restart: unless-stopped), the clock advances
\* and an outage ends.  Crashes, stops, outages and submissions are not fair.
Fairness ==
    /\ \A w \in Workers : WF_vars(WorkerStep(w)) /\ WF_vars(StartWorker(w))
    /\ WF_vars(Tick)
    /\ WF_vars(PiComesUp)

FairSpec == Spec /\ Fairness

-----------------------------------------------------------------------------
(* Properties.                                                             *)

\* The workers that hold a claim on j and have not reported yet.
Holders(j) == {w \in Workers : pc[w] = "review" /\ held[w] = j}

Ticket(b) == IF b THEN 1 ELSE 0

\* The claim in claim_job is atomic although it reads before it writes: for
\* any number of workers, a job is in the hands of at most one of them, and of
\* none while it is queued or settled, unless recover_abandoned_jobs took
\* it from a worker that was still alive.  Each recovery adds one at most.
ClaimTokens ==
    \A j \in Jobs :
        Cardinality(Holders(j)) + Ticket(status[j] # "running") <= 1 + recoveries[j]

Undecided(j) == status[j] \in ClaimableStates \union {"absent"}

\* A job is decided at most once more than it was recovered.  Claims in
\* progress and the row still to be claimed are counted with the decisions,
\* because each of them can still become one.
DecisionTokens ==
    \A j \in Jobs :
        decisions[j] + Cardinality(Holders(j)) + Ticket(Undecided(j)) <= 1 + recoveries[j]

\* A job is only marked failed after max_attempts claims, although retry_job
\* compares a copy of the row that other workers may have changed since.
FailedIsExhausted ==
    \A j \in Jobs : status[j] = "failed" => attempts[j] >= MaxAttempts

\* The claiming UPDATE does not look at available_at again.  A worker about to
\* claim a job whose backoff runs has been overtaken since its SELECT: another
\* one claimed and postponed the job in between, or had its claim recovered and
\* still reported.
EarlyClaimIsARace ==
    \A w \in Workers :
        pc[w] = "selected" /\ StillClaimable(held[w]) /\ wait[held[w]] > 0 =>
            heldAttempts[w] < attempts[held[w]] \/ recoveries[held[w]] > 0

\* complete_job and retry_job write by id alone, yet the status of a settled
\* job never changes again: without a recovery no worker still holds it.
SettledIsFinal ==
    [][\A j \in Jobs :
            status[j] \in SettledStates /\ recoveries[j] = 0 => status'[j] = status[j]]_vars

\* The queue as its clients see it.
PhaseOf(s) ==
    CASE s = "absent" -> "none"
      [] s \in ClaimableStates -> "queued"
      [] s = "running" -> "working"
      [] s = "succeeded" -> "decided"
      [] s = "failed" -> "dead"

Phase == [j \in Jobs |-> PhaseOf(status[j])]

Promise == INSTANCE ReviewPromise
            WITH phase <- Phase, tries <- attempts, lost <- recoveries

\* With one worker, as deployed, every step of the queue is a step of the
\* promise: one try at a time, settled for good whatever was recovered, given
\* up only when exhausted.
KeepsPromise == Promise!Spec

\* With one worker a job is claimed at most max_attempts times, plus once for
\* each time its worker vanished: recovery ignores max_attempts, so it is the
\* only way past the limit.
AttemptsWithinBudget ==
    \A j \in Jobs : attempts[j] <= MaxAttempts + recoveries[j]

\* Every submitted job is settled in the end, decided or failed.
EveryJobSettles ==
    \A j \in Jobs : status[j] # "absent" ~> status[j] \in SettledStates

\* The same as long as no worker stops or crashes: retries run out or succeed,
\* and reviews go on by themselves when Pi comes back.
UninterruptedJobsSettle ==
    \A j \in Jobs : status[j] # "absent" ~> status[j] \in SettledStates \/ restarts > 0

\* Restart recovery: a job whose claim is past the cutoff while every worker is
\* down is put back in the queue by the next start.
StaleClaimRecovered ==
    \A j \in Jobs :
        (/\ status[j] = "running"
         /\ claimAge[j] > AbandonAfter
         /\ \A w \in Workers : pc[w] = "down") ~> status[j] # "running"

\* "Pi unavailability pauses reviews" (docs/architecture.md): no job is given
\* up because Pi was unavailable.
OutagePausesReviews ==
    \A j \in Jobs : status[j] = "failed" => error[j] # "unavailable"
=============================================================================
