----------------------------- MODULE Retention -----------------------------
(***************************************************************************)
(* How long the tables keep their rows: the purge at the end of a worker's *)
(* iteration, the writes that start or restart a row's retention period,   *)
(* and the foreign keys that delete evidence, decisions and findings along *)
(* with a job.                                                             *)
(*                                                                         *)
(* Row n of the evidence, audit and outbox tables belongs to job n, and    *)
(* so does its decision; installations stand alone.  A day has Hours ticks. *)
(* The stored timestamps ('2026-01-31 09:30:00...') and the bound ones     *)
(* ('2026-01-31T09:30:00...+00:00') are compared as text and differ first  *)
(* in the separator when their dates are equal, so that only the dates     *)
(* count: ages are counted in midnights since the timestamp of a row, and  *)
(* stop where every comparison is decided.                                 *)
(***************************************************************************)
EXTENDS Integers, FiniteSets

CONSTANTS
    MaxRows,      \* bound: jobs
    MaxTeams,     \* bound: installations
    Keys,         \* finding keys
    JobDays, EvidenceDays, AuditDays, TeamsDays,  \* settings.*_retention_days
    Hours,        \* ticks of a day, 86_400 seconds
    MaxWork,      \* longest way from the top of an iteration to its purge
    MaxRest,      \* longest pause between two iterations
    MaxRestarts   \* bound: restarts of the worker

ASSUME RetentionAssumption ==
    /\ {JobDays, EvidenceDays, AuditDays, TeamsDays} \subseteq Nat \ {0}
    /\ {MaxRows, MaxTeams, MaxWork, MaxRest, MaxRestarts} \subseteq Nat
    /\ MaxTeams <= MaxRows
    /\ "none" \notin Keys

\* Two iterations fit into a day.
ASSUME IterationsAreShort ==
    Hours \in Nat \ {0} /\ 2 * MaxWork + MaxRest <= Hours

VARIABLES
    rows,      \* for each table, the rows it holds
    closed,    \* those of them whose status the purge accepts
    age,       \* midnights since the timestamp the purge compares
    key,       \* the finding key of each decided job, "none" for the others
    finding,   \* for each key, the job whose decision the row names, 0: no row
    settled,   \* history: the rank in which each job was settled, 0 before
    settledAt, \* history: the time of day of completed_at
    hour,      \* the time of day
    pc,        \* where the worker is
    left,      \* how long it may stay there
    purgeIn,   \* next_purge - now
    due,       \* whether this iteration purges
    warm,      \* history: the first iteration since the start is over
    restarts   \* history: restarts so far

jobVars == <<key, finding, settled, settledAt>>
loopVars == <<pc, left, purgeIn, due, warm, restarts>>
vars == <<rows, closed, age, jobVars, hour, loopVars>>

Ids == 1..MaxRows
Teams == 1..MaxTeams

\* The tables the purge names, each with its retention period.  Settled
\* deliveries are kept as long as audit events.
Retain ==
    [jobs |-> JobDays, evidence |-> EvidenceDays, audit |-> AuditDays,
     installations |-> TeamsDays, outbox |-> AuditDays]

Tables == DOMAIN Retain
\* One past everything an age is compared with.
Oldest(t) == Retain[t] + 2
Longest == [down |-> 0, working |-> MaxWork, resting |-> MaxRest]

TypeOK ==
    /\ rows \in [Tables -> SUBSET Ids]
    /\ closed \in [Tables -> SUBSET Ids]
    /\ \A t \in Tables : closed[t] \subseteq rows[t]
    /\ age \in [Tables -> [Ids -> Nat]]
    /\ \A t \in Tables, n \in Ids : age[t][n] <= Oldest(t)
    /\ key \in [Ids -> Keys \union {"none"}]
    /\ finding \in [Keys -> Ids \union {0}]
    /\ settled \in [Ids -> 0..MaxRows]
    /\ settledAt \in [Ids -> 0..Hours - 1]
    /\ hour \in 0..Hours - 1
    /\ pc \in DOMAIN Longest
    /\ left \in 0..Longest[pc]
    /\ purgeIn \in -Hours..Hours
    /\ due \in BOOLEAN
    /\ warm \in BOOLEAN
    /\ restarts \in 0..MaxRestarts

Init ==
    /\ rows = [t \in Tables |-> {}]
    /\ closed = [t \in Tables |-> {}]
    /\ age = [t \in Tables |-> [n \in Ids |-> 0]]
    /\ key = [n \in Ids |-> "none"]
    /\ finding = [k \in Keys |-> 0]
    /\ settled = [n \in Ids |-> 0]
    /\ settledAt = [n \in Ids |-> 0]
    /\ hour = 0
    /\ pc = "down"
    /\ left = 0
    /\ purgeIn = 0
    /\ due = FALSE
    /\ warm = FALSE
    /\ restarts = 0

-----------------------------------------------------------------------------
(* The writes that matter to the purge.                                    *)

\* How many jobs were settled so far.
SettledSoFar == Cardinality({n \in Ids : settled[n] > 0})

\* create_job and the audit event of the new job.
Submit(n) ==
    /\ n \notin rows.jobs
    /\ settled[n] = 0
    /\ \A m \in Ids : m < n => m \in rows.jobs \/ settled[m] > 0
    /\ rows' = [rows EXCEPT !.jobs = @ \union {n}, !.audit = @ \union {n}]
    /\ closed' = [closed EXCEPT !.audit = @ \union {n}]
    /\ age' = [age EXCEPT !.audit[n] = 0]
    /\ UNCHANGED <<jobVars, hour, loopVars>>

Open(n) == n \in rows.jobs \ closed.jobs

\* Faulty variant: a finding keeps naming its first decision.
FirstDecision(k, n) == IF finding[k] = 0 THEN n ELSE finding[k]

\* complete_job makes an existing finding name the new decision.
NewestDecision(k, n) == n

\* Job n is settled now.
Settle(n) ==
    /\ settled' = [settled EXCEPT ![n] = SettledSoFar + 1]
    /\ settledAt' = [settledAt EXCEPT ![n] = hour]

\* complete_job, and the outbox row that follows in a commit of its own: there
\* is none without a destination or when the worker ends between the commits.
Complete(n, k) ==
    /\ pc = "working"
    /\ Open(n)
    /\ \E queued \in SUBSET {n} :
        rows' = [rows EXCEPT !.evidence = @ \union {n}, !.outbox = @ \union queued]
    /\ closed' = [closed EXCEPT !.jobs = @ \union {n}, !.evidence = @ \union {n}]
    /\ age' = [age EXCEPT !.jobs[n] = 0, !.evidence[n] = 0]
    /\ key' = [key EXCEPT ![n] = k]
    /\ finding' = [finding EXCEPT ![k] = NewestDecision(k, n)]
    /\ Settle(n)
    /\ UNCHANGED <<hour, loopVars>>

\* retry_job gives the job up.
Fail(n) ==
    /\ pc = "working"
    /\ Open(n)
    /\ closed' = [closed EXCEPT !.jobs = @ \union {n}]
    /\ age' = [age EXCEPT !.jobs[n] = 0]
    /\ Settle(n)
    /\ UNCHANGED <<rows, key, finding, hour, loopVars>>

\* delivery_succeeded or the last delivery_failed.
SettleDelivery(n) ==
    /\ pc = "working"
    /\ n \in rows.outbox \ closed.outbox
    /\ closed' = [closed EXCEPT !.outbox = @ \union {n}]
    /\ age' = [age EXCEPT !.outbox[n] = 0]
    /\ UNCHANGED <<rows, jobVars, hour, loopVars>>

\* upsert_installation: a new row, or an old one that is active again.
Install(n) ==
    /\ rows' = [rows EXCEPT !.installations = @ \union {n}]
    /\ closed' = [closed EXCEPT !.installations = @ \ {n}]
    /\ age' = [age EXCEPT !.installations[n] = 0]
    /\ UNCHANGED <<jobVars, hour, loopVars>>

\* deactivate_installation also refreshes last_seen_at.
Deactivate(n) ==
    /\ n \in rows.installations
    /\ closed' = [closed EXCEPT !.installations = @ \union {n}]
    /\ age' = [age EXCEPT !.installations[n] = 0]
    /\ UNCHANGED <<rows, jobVars, hour, loopVars>>

-----------------------------------------------------------------------------
(* The worker's loop and its purge.                                        *)

\* Faulty variant: the first purge comes a day after the start.
FirstPurgeTomorrow == Hours

\* next_purge before the loop: whatever happened before, a purge is due.
FirstPurge == 0

\* The worker starts and is about to enter its loop.
Start ==
    /\ pc = "down"
    /\ pc' = "resting"
    /\ left' = 0
    /\ purgeIn' = FirstPurge
    /\ UNCHANGED <<rows, closed, age, jobVars, hour, due, warm, restarts>>

\* The top of an iteration reads the clock: the purge at its end is decided and
\* the next one counted from here.
Top ==
    /\ pc = "resting"
    /\ pc' = "working"
    /\ left' = MaxWork
    /\ due' = (purgeIn <= 0)
    /\ purgeIn' = IF purgeIn <= 0 THEN Hours ELSE purgeIn
    /\ UNCHANGED <<rows, closed, age, jobVars, hour, warm, restarts>>

\* The iteration is over but for its pause.
EndIteration ==
    /\ pc = "working"
    /\ pc' = "resting"
    /\ left' = MaxRest
    /\ due' = FALSE
    /\ warm' = TRUE
    /\ UNCHANGED <<hour, purgeIn, restarts>>

SkipPurge ==
    /\ ~due
    /\ EndIteration
    /\ UNCHANGED <<rows, closed, age, jobVars>>

\* The WHERE clause of the DELETE for table t: the date of a row's timestamp is
\* the date of the cutoff or earlier.
Overdue(t) == {n \in closed[t] : age[t][n] >= Retain[t]}

\* What goes with it: evidence.job_id is ON DELETE CASCADE.
Deleted(t) == Overdue(t) \union (IF t = "evidence" THEN Overdue("jobs") ELSE {})

\* Database.purge, one transaction.  Decisions cascade from their job and
\* findings from the decision they name.
Purge ==
    /\ due
    /\ EndIteration
    /\ rows' = [t \in Tables |-> rows[t] \ Deleted(t)]
    /\ closed' = [t \in Tables |-> closed[t] \ Deleted(t)]
    /\ age' = [t \in Tables |-> [n \in Ids |-> IF n \in Deleted(t) THEN 0 ELSE age[t][n]]]
    /\ key' = [n \in Ids |-> IF n \in Deleted("jobs") THEN "none" ELSE key[n]]
    /\ finding' = [k \in Keys |-> IF finding[k] \in Deleted("jobs") THEN 0 ELSE finding[k]]
    /\ UNCHANGED <<settled, settledAt>>

\* The worker exits, anywhere, and stays away as long as it takes; its
\* variables are gone.
Stop ==
    /\ pc # "down"
    /\ restarts < MaxRestarts
    /\ pc' = "down"
    /\ left' = 0
    /\ purgeIn' = 0
    /\ due' = FALSE
    /\ warm' = FALSE
    /\ restarts' = restarts + 1
    /\ UNCHANGED <<rows, closed, age, jobVars, hour>>

\* Every row with a timestamp is a date older.
Midnight ==
    age' = [t \in Tables |-> [n \in Ids |->
                IF n \in closed[t] /\ age[t][n] < Oldest(t) THEN age[t][n] + 1 ELSE age[t][n]]]

\* Time passes while the worker is away, awaits or pauses.
Tick ==
    /\ pc = "down" \/ left > 0
    /\ left' = IF pc = "down" THEN 0 ELSE left - 1
    /\ purgeIn' = IF pc = "down" THEN purgeIn ELSE purgeIn - 1
    /\ hour' = IF hour + 1 = Hours THEN 0 ELSE hour + 1
    /\ IF hour + 1 = Hours THEN Midnight ELSE UNCHANGED age
    /\ UNCHANGED <<rows, closed, jobVars, pc, due, warm, restarts>>

Next ==
    \/ \E n \in Ids :
        \/ Submit(n)
        \/ \E k \in Keys : Complete(n, k)
        \/ Fail(n)
        \/ SettleDelivery(n)
    \/ \E n \in Teams : Install(n) \/ Deactivate(n)
    \/ Start
    \/ Top
    \/ SkipPurge
    \/ Purge
    \/ Stop
    \/ Tick

Spec == Init /\ [][Next]_vars

-----------------------------------------------------------------------------
(* Properties.                                                             *)

\* Once a start's first iteration is over, nothing whose status lets it go is
\* two dates past its retention period, however long the worker was away, at
\* whatever time of day it purges and although its schedule drifts by an
\* iteration a day.  (One date past it is possible: the purge comes at 23:59, at
\* 00:01 on the next day but one, and so on.)
NothingOverRetained ==
    warm => \A t \in Tables : \A n \in closed[t] : age[t][n] <= Retain[t] + 1

\* The newest of the decisions the database still holds for a key.
IsNewest(n, k) ==
    /\ key[n] = k
    /\ \A m \in Ids : key[m] = k => settled[m] <= settled[n]

\* Purging an old occurrence never takes the finding of a newer one along: a
\* finding exists exactly while a decision with its key does, and names
\* the newest, although its row is deleted with the decision it names.
FindingNamesNewest ==
    \A k \in Keys :
        IF \E n \in Ids : key[n] = k
        THEN finding[k] # 0 /\ IsNewest(finding[k], k)
        ELSE finding[k] = 0

\* "Separate audit, evidence, job, and installation retention controls"
\* (docs/threat-model.md): evidence stays until the date its own period ends,
\* which the cascade from the jobs table does not respect.
EvidenceKept ==
    [][\A n \in rows.evidence \ rows'.evidence : age.evidence[n] >= EvidenceDays]_vars

\* SPRINTER_JOB_RETENTION_DAYS=90 (.env.example): a settled job is kept for that
\* many days, which the comparison of dates cuts short by up to a day.
JobsKeptInFull ==
    [][\A n \in rows.jobs \ rows'.jobs :
        Hours * age.jobs[n] + hour - settledAt[n] >= Hours * JobDays]_vars
=============================================================================
