# A TLA+ model of Sprinter

Sprinter reviews the results of security runs: an API accepts review jobs, a
worker collects evidence, asks the Pi model process for a decision, stores it,
and delivers a card to the enabled Teams destinations. Both processes share one
SQLite database. This directory models the parts of it whose correctness depends
on the order of steps of several actors, on crashes and on time, checks them with
TLC and proves the central results for every value of the constants with TLAPS.

Paths below are relative to the repository; the modules name the functions they
model, `PROJECT.json` gives the lines.

## 1. Inventory

| Component | State | Operations | Hard about it | What makes it correct |
| --- | --- | --- | --- | --- |
| Review queue and worker loop (`db.py`, `engine.py`, `worker.py`) | `jobs` rows (status, attempts, available_at, claimed_at), decisions; the worker's copy of a job, `pi_ready`, `next_probe` | `create_job`, `claim_job`, `retry_job`, `complete_job`, `recover_abandoned_jobs`, `run_worker`, `process_next_job` | a claim that reads before it writes, writes by id alone, stale copies, crashes, outages, restarts | one claim at a time, one decision, failure only after the last attempt, settled for good, backoff cut short only in a race, every job settles |
| Delivery outbox, Teams installations (`db.py`, `engine.py`, `teams/gateway.py`, `api.py`) | `delivery_outbox`, `teams_installations` | `enqueue`, `pending_deliveries`, `delivery_succeeded`, `delivery_failed`, `upsert_installation`, `deactivate_installation`, `set_installation_enabled`, `flush_outbox`, `_enqueue_notifications` | sends that arrive without an answer, crashes before the commit, destinations changing under a send, batches | at least once, duplicates only where an arrival went unrecorded, bounded attempts, consent before a send, no destination holds up another |
| Submission (`api.py`, `engine.py`, `db.py`) | `jobs.idempotency_key` and the compared content, audit events | `create_review_job`, `submit_review`, `create_job` | races for one key, purge, crash before the audit event | one job per key, a replay has the content it was sent with |
| Pi gateway (`pi_gateway.py`) | child process, pipes, timers | `version`, `probe`, `review`, `_rpc_prompt` | an arbitrary child behind pipes, timeouts, termination | calls return in time, leave no child, decide only on an accepted, complete answer |
| Retention (`db.py`, `worker.py`, `models.py`) | timestamps and foreign keys of all tables | `purge` | cascades, timestamps compared as texts, a schedule that drifts and restarts, worker absent for days | nothing kept too long, nothing deleted too early, findings stay right |
| Worker health (`db.py`, `api.py`, `worker.py`) | `worker_health` row, `pi_ready`, `next_probe` | `heartbeat`, `readiness`, `readyz` | no heartbeat during a review, heartbeats that repeat an old probe, timestamps that lose their time zone in the database | silence of a live worker is bounded, a report does not outlive the last good probe by much, a dead worker and an outage show, a healthy worker is found ready |
| Authentication and rate limit (`auth.py`, `config.py`) | per process and key a deque of timestamps | `authenticate`, `check`, `require_scope` | window boundary, several processes, restarts | at most `limit` requests in a window per process, nobody refused early |
| Backup and restore (`backup.py`, `restore.py`, `db.py`) | database, temporary file, copies, checksums | `backup_database`, `restore_database`, start of a service | kills between file operations, stale checksums, decayed copies | never part of a database in place, restores only what was backed up, data in place survives |
| Evidence, redaction, finding keys (`engine.py`, `integrations/splunk.py`, `db.py`) | job summary, evidence rows, decision, finding key | `redact`, `fetch_evidence`, `_normalise_evidence`, `review_prompt`, `finding_key`, `complete_job` | nested values, defaults that depend on position, two ways in | no secret leaves, a recurrence keeps its finding, hosts are told apart |
| Integrations, cards, configuration, logging, scripts | none of their own | pure functions, HTTP calls | input edges | not modelled |

How they interact: the API authenticates and counts a request, inserts jobs and
changes installations; the worker writes its heartbeat, probes Pi, claims jobs, calls the gateway inside the review, commits the decision, inserts
outbox rows, flushes the outbox and purges once a day; a monitor polls `readyz`;
operators run the backup and restore tools on the files. The only shared state of
the processes is the database. Inside a process everything runs on one event loop, so the steps
of a model are a process's commits and awaits.

## 2. Modules

| Module | Models | Notes |
| --- | --- | --- |
| `Backoff` | the two backoff formulas | powers of two as a table, compared with `2^n` by the MC modules |
| `ReviewPromise` | what the queue promises | abstract: phases, tries, losses |
| `ReviewQueue` | jobs table and worker loop | any number of workers |
| `OutboxPromise` | what the outbox promises for an item | abstract: phases, tries, arrivals |
| `Delivery` | installations, fan-out, outbox flush | one active worker, as documented |
| `Submission` | `create_job` and its audit event | any number of API processes |
| `FrontDoor` | token, rate limit and scope in front of `Submission` | extends `Submission`: the composition of guard and handler |
| `PiGateway` | a call to Pi and its child | the child is an arbitrary environment |
| `Retention` | the worker's loop around the purge, cascades, retention periods | hours as time unit, dates as what is compared |
| `Health` | heartbeats, probes, `readyz`, a polling monitor | seconds as time unit, each await with its longest time |
| `BackupRestore` | the two tools, the files, the start of a service | one step per file operation |
| `Evidence` | the data of a review from submission to finding key | a JSON value is a function from paths to nodes, so that nothing is recursive |
| `MC*` | the instances for TLC | symmetry sets, token records, rows, comparison of the power table |
| `ReviewQueueProofs`, `DeliveryProofs`, `FrontDoorProofs`, `PiGatewayProofs`, `RetentionProofs`, `HealthProofs`, `BackupRestoreProofs`, `EvidenceProofs` | theorems about the module in their name; `FrontDoorProofs` also about `Submission` | checked by TLAPS |

Definitions commented "Faulty variant" are plausible bugs of the definition that
follows them; they take no part in a specification and exist to show that each
property can fail.

### ReviewQueue

Each database method is one step, except `claim_job`: pysqlite opens a
transaction at the first write, so its SELECT (`SelectCandidate`) and its UPDATE
(`Claim`, `LoseClaim`) are two. The worker's program counter follows
`run_worker`: `top` (probe or not), `claim`, `selected`, `review`, `flush`.
`heldAttempts` is the worker's own copy of `attempts`. Time is the distance to
the deadlines that the code compares with the clock: `wait` (available_at),
`claimAge` (claimed_at, stops one past the cutoff), `probeIn` (next_probe). A
review ends in `CompleteJob`, in `RetryJob` with the kind of error, or in a
`Crash`, which also stands for exceptions that `process_next_job` does not catch
(an HTTP transport error, a broken pipe to Pi, a locked database). A worker whose
startup probe fails exits; that attempt changes nothing and is not a step. No time
passes between the SELECT and the UPDATE of a claim: it is assumed that the UPDATE does
not wait for a lock for a second. Other workers may take any number of steps in between.

### Delivery

`Install`, `Remove`, `Enable` and `Disable` are the API's writes and interleave
with every step of the worker. A completed review is fanned out row by row
(`Enqueue`), then `BeginFlush` reads a batch and the copies of its attempt
counters; for each item the destination is looked up (`StartSend` or `Refuse`),
the send ends (`SendOk`, `SendFails`, or `AnswerLost`: arrived, yet an exception),
and the result is committed. `received`, `unacked`, `consent` and `owed` are
history variables the properties speak about. `Phase` is an item as `OutboxPromise`
sees it: it has arrived while the worker is about to record it, and is queued again
when a crash intervenes. `Sinks` stands for the Splunk audit
channel; it gets one item per review (the event `review_job.succeeded`), the other
audit events are not modelled.

### Submission

The statements of `create_job` are separate steps per API process; the content is
compared after redaction and after the row limit is capped (`ContentOf`). After an
`IntegrityError` the row is read again (`Reselect`) and nothing is compared.

### FrontDoor

`require_scope` awaits nothing that suspends it, so a request is authenticated
(`Matching`, `Principal`: the last matching record counts), counted (`Check`) and
checked for its scope (`Permits`) in one step; `PostJob` then is `Receive` of
`Submission`, and the handler's steps follow interleaved with those of other
processes. `events` is each process's dictionary of deques, a timestamp being its
age; `Replace` is a restart, busy or not, that loses it. `recent` and `resets`
record per process what the properties compare with, restarts or not: what a
process let through and when it was replaced, within the window. (Over all
processes the quota is the sum of theirs.) scrypt is equality of
secrets. A request that ends with 429 or 403 writes an audit event only, which is
left out.

### Health

`pc` follows the awaits of `run_worker`: startup probe, probe, review, flush,
pause. `left` is how much longer the current one may take, so an await ends at any
time within its bound. `beat` is the age of `heartbeat_at` and `reported` the row's
`pi_ready`; `probeIn` is `next_probe`. A startup probe that fails reports and
exits. `Exit` is a stop or a crash anywhere. `okAge` is history: the age of the
last good probe. `Answer` is what `readyz` answers: 503 while there is no row, and an
error (500) as soon as there is one, since `heartbeat_at` comes back from SQLite without
a time zone and `readiness` compares it with a time that has one. What the row says and
whether a Teams destination is enabled make no difference to that; the passing run is
about the row itself, which is all that an operator can rely on.

### BackupRestore

A file is its kind (absent, empty, foreign, v1), the version of the data in it and
whether it is whole. A checksum file holds the file it was computed from, since
equal digests are taken to mean equal files. `backup.at` and `restore.at` follow
the statements; between any two the tool may be killed, services may start, write
and stop, and an operator may remove a backup (with or without its checksum), lose
one to decay, or replace the volume. `Connect` creates a missing source database as
an empty file, as sqlite3 does. Assumed, because `docs/operations.md` asks for it:
services are stopped and the backup is left alone while a restore runs. Assumed beyond
that: one restore and one backup run at a time. Neither tool takes a lock; two backups
to one path that both pass `exists()` (`backup.py:13`) are outside the model. The rename
is atomic; power loss is not modelled.

### Evidence

A JSON value is the function from its paths to the nodes there: a path is the sequence
of names and places passed on the way, a node is a text, the braces of a dictionary
or the brackets of a list. `Dict` and `List` build values, `Get` and `Items` take them
apart. What `redact` does by recursion is then said at once: a path is kept unless it
goes on below a sensitive name, and it holds the mark if it ends in one. That this is
the recursion of the code is proved (`RedactsDictionaries`, `RedactsLists`,
`RedactsTexts`). `Submit` stores the redacted
summary and the capped row limit, `FetchSupplied`/`FetchSplunk`/`FetchNothing` are
the branches of `fetch_evidence`, `Accept`/`Reject` the check of the cited
identifiers and `complete_job`, whose evidence rows no longer hold those
identifiers (`Stored`). A finding key is the material that is hashed. Only what the
key and the redaction tell apart is kept of a row: texts are not cut to length and
the search is not built.

What the rows must be like for the properties to hold is stated by assumptions, which
TLC evaluates on the rows of the run. `RowsAssumption`: they are such functions.
`SecretsAssumption`: a secret stands in or below a sensitive field only and is none of
the texts the code writes itself. `StableAssumption`: what identifies a
finding is a text or a list of texts and not volatile, and neither `host` nor `payload`
is configured as sensitive; `docs/seer-stix.md:115` asks a runner to keep such fields
separate from timestamps. The title of a Splunk row is taken, unredacted, from one of
three fields; `SecretsStayOut` speaks of everything else, `TitlesAreRedacted` of titles.

### PiGateway

The coroutine's awaits are the steps. `timer` is what is left of the timeout it
waits under, `elapsed` what the call has waited under timeouts. The child may read
or close its stdin, write any kind of line, ignore SIGTERM, or exit whenever it
likes. `drain()` is outside the timeout and outside the `finally` block, and so it
is here. How a call ends is what `ReviewQueue` sees of it: a decision
(`CompleteJob`, or `RetryJob` when the decision cites unknown evidence),
"unavailable" (`RetryJob` with that error), "protocol" and "value" (`RetryJob`,
"rejected"), "attribute" and "os" (`Crash`).

### Retention

Row n of the evidence, audit and outbox tables belongs to job n. `Deleted` adds to a
DELETE what its foreign keys take along: evidence goes with its job.

The loop of the worker is `Top` (reads the clock, decides whether this iteration
purges, sets `next_purge` from there), work of up to `MaxWork` in which reviews and
deliveries settle, `Purge` or `SkipPurge`, and a rest of up to `MaxRest`; so the period
of the purge is a day and up to an iteration. `Stop` and `Start` may come anywhere and
any time apart; a start purges in its first iteration (`FirstPurge`).

Retention periods are compared as texts. The ORM stores `2026-01-31 09:30:00.000000`;
the purge binds its cutoffs in `text()` statements, which the registered adapter
(`db.py:34`) writes as `2026-01-31T09:30:00...+00:00`. On equal dates the space sorts
before the `T`, so only the dates count: the age of a row is the number of midnights
since its timestamp, and it is overdue from the date of its cutoff on (`Overdue`).
`hour` and `settledAt` are the times of day, for `JobsKeptInFull`.

## 3. Runs

| Run | Bounds | Shows |
| --- | --- | --- |
| `one_worker` | 1 worker, 2 jobs, 2 attempts, 2 restarts, 1 outage | `KeepsPromise` (refinement of `ReviewPromise`), `AttemptsWithinBudget`, `UninterruptedJobsSettle`, `StaleClaimRecovered` |
| `two_workers` | 2 workers, 1 job, same | `TypeOK`, `ClaimTokens`, `DecisionTokens`, `FailedIsExhausted`, `EarlyClaimIsARace`, `SettledIsFinal` |
| `stranded_claim` | 1 worker, 1 job, 1 restart | violation of `EveryJobSettles` |
| `outage_burns_attempts` | 1 worker, 1 job, 1 outage, probe every 9 s | violation of `OutagePausesReviews` |
| `delivery` | 1 review, 1 flaky and 1 healthy destination, 1 sink, 2 tries, batch of 2, 1 crash | `ArrivalsAccounted`, `RetryBudget`, `KeepsOutboxPromise` (refinement of `OutboxPromise`), `ConsentBeforeSend`, `EveryItemSettles`, `HealthyTargetServed`, `UninterruptedFanOut` |
| `submission_race` | 2 processes, 1 key, 3 limits (2 contents), 3 requests, 1 purge, 1 crash; quota of 2 in a window of 1 s, 1 restart | `RetriesShareTheJob`, `UnauditedExplained`, `QuotaHolds`, `RefusalIsEarned` |
| `pi_calls` | timeouts 1, 2 (probe 1) and 1, limit of 3 lines, up to 4 written, answer of 2 parts, pipe of 1 | `TypeOK`, `NoOrphanedChild`, `DecisionIsGrounded`, `WaitIsBounded`, `CallReturns` |
| `retention_purge` | 2 jobs, 1 finding key, 1 installation, evidence 2 days, other periods 1 day; a day of 3 hours, work and rest of up to 1 hour, 1 restart | `NothingOverRetained`, `FindingNamesNewest` |
| `readiness` | stale after 2 s, probe every 4 s; probe 2 s, review 3 s, flush 1 s, pause 1 s; any number of exits, starts and outages | `SilenceIsBounded`, `ReportIsRecent`, `TroubleShows` |
| `never_ready` | awaits so short that a heartbeat of a running worker is never stale | violation of `ReadyWhenHealthy` |
| `backup_restore` | 2 backup paths, 3 writes, 4 faults | `DatabaseIsWhole`, `RestoredWasBackedUp`, `FinishedBackupsKept`, `DataSurvives` |
| `review_data` | 2 jobs, up to 2 of 6 kinds of rows each, row limit 1 or capped at 2, 2 selector types | `SecretsStayOut`, `RecurrenceIsRecognised`, `EntitiesAreToldApart` |

Where a run lists no `TypeOK`, the module's type invariant is kept out of the run in
favour of properties that relate several steps; it is proved instead (section 5). For
`Evidence` it is a part of `EvidenceInv`.

Properties named `Uninterrupted...` are the documented statement with the case taken
out in which the code does not meet it, a restart or a crash (`stranded_claim` and
`FanOutLost.cfg` refute the full statements).

Why the bounds are enough: two attempts are the fewest with a retry that is not
the last; two restarts are the fewest with which a recovered job can be lost
again; with two workers one recovery suffices for a worker that lost its claim to
write over its successor's; a batch of two for three items forces a second batch; the output limit
of three lines is one less than the child writes, so the limit is hit exactly and
passed. `AbandonAfter` is 1 or 2 instead of 900 and is reached by waiting, not by
construction. The actual backoff delays (2, 4, ... seconds) are used unscaled.
A quota of two with two processes and one restart lets the limiter be full, partly
evicted and forgotten; a window of one second has an inside, a boundary and an
outside. In `readiness` a review outlasts the staleness limit, as with the defaults
(180 s against 120 s), so a live worker does look dead. A day of three hours is the
shortest in which two iterations fit (`IterationsAreShort`), so the purge drifts through
midnight within a few days, and the bound of `NothingOverRetained` is reached: with
`Retain[t]` in place of `Retain[t] + 1` the run fails. The drift assumes that an
iteration ends within half a day; `drain()` (section 2, `PiGateway`) has no timeout, and a
worker that hangs there purges nothing. Four faults suffice for a
killed backup, a removed copy whose checksum stays, a decayed copy and a killed
restore in one behaviour. Two rows are the fewest with which order and the row
limit matter. The numbers of submissions, of writes and faults, and of jobs
reviewed are bounded, after which an idle system has no step left; in the runs of those
three modules (`FrontDoor`, `BackupRestore`, `Evidence`) deadlock is not checked.

Fairness: the worker's loop goes on (every await has a timeout, except `drain()`,
see `PiGateway`), the container is restarted when it exits (`restart:
unless-stopped` in `compose.yaml`), the clock advances, an outage ends. In `Health` the awaits end within their
longest times, the clock advances and the monitor goes on polling; restarts,
exits and outages are free. For
`PiGateway` the event loop serves the coroutine, the clock advances and the child
reads its stdin. Nothing is assumed of crashes, stops, submissions, administrators,
Teams, or of what a child writes. `HealthyTargetServed` assumes that sends to a
destination outside `Flaky` succeed.

## 4. Findings

| Run | Statement in the docs | What the code does |
| --- | --- | --- |
| `stranded_claim` | `docs/threat-model.md:21`, restart recovery against lost work | recovery runs only at startup and spares claims younger than 900 s; a quick restart leaves the job running until a later one |
| `outage_burns_attempts` | `docs/architecture.md:31`, "Pi unavailability pauses reviews." | an outage between two probes costs attempts and can fail a job in half a minute |
| `never_ready` | `docs/operations.md:17`, `503` until the worker is fresh, Pi answers and Teams is set up; `docs/setup.md:93` waits for a success | once a heartbeat is stored `readiness` raises `TypeError` (`db.py:451`) and `readyz` answers 500, never 200; the tests ask only before the first heartbeat |

Further disagreements, each with an instance on which TLC refutes what the docs say
(`tlc -config <file> <module>`). They are no runs of `PROJECT.json`, which lists the
three that weigh most:

| Instance | Property | Statement in the docs | What the code does |
| --- | --- | --- | --- |
| `FanOutLost.cfg`, `MCDelivery` | `FanOutComplete` | `docs/architecture.md:29`, every enabled destination gets its outbox item | the rows are inserted after the decision's commit; a crash in between loses them |
| `ReplayRace.cfg`, `MCFrontDoor` | `ReplayIsFaithful` | `docs/seer-stix.md:158`, a reused key with other content gets `409` | the loser of an insert race is answered 202 with the winner's job, unchecked (`db.py:181`) |
| `EvidenceCascade.cfg`, `MCRetention` | `EvidenceKept` | `docs/threat-model.md:24`, "Separate audit, evidence, job, and installation retention controls" | evidence goes with its job (`models.py:62`), after 90 days instead of 180 by default |
| `JobsCutShort.cfg`, `MCRetention` | `JobsKeptInFull` | `.env.example:13`, `SPRINTER_JOB_RETENTION_DAYS=90` | stored and bound timestamps are texts of different formats (`db.py:34`), so rows go up to a day early |
| `TitleLeaks.cfg`, `MCEvidence` | `TitlesAreRedacted` | `docs/architecture.md:22`, "Sprinter redacts configured keys" | the title of a Splunk row is taken before redaction (`engine.py:121`) |

Met while modelling, without an instance of their own:

- A busy worker would look dead: with the defaults a review may take twice 180 s and a
  heartbeat counts as fresh for 120 s (`SilenceIsBounded` bounds the silence by the loop,
  not by the staleness limit).
- The evidence rows do not keep the identifiers a decision cites (`db.py:259`); they
  can be resolved by position only (`Stored`).
- A backup of a missing database leaves an empty database file behind
  (`backup.py:16`), which a restore then refuses to replace.
- `bound_text` (`schemas.py:70`) runs after the length check, so a rationale of blank
  texts is accepted and stored empty.

## 5. Proofs

Every safety property of the passing runs is proved for every value of the constants. The
constants are restricted only by the assumptions
their modules name (`QueueAssumption`, `DeliveryAssumption`, ...), which say that
limits and durations are numbers, that the processes or workers are finitely many
where they are counted, that a destination is no audit sink, that the marker for
"no finding key" is no key, and what rows are like (`Evidence`, section 2). The bounds on histories (crashes, requests, restarts)
may be any number.

| Module | Theorem | Property |
| --- | --- | --- |
| `ReviewQueueProofs` | `TypeCorrect` | `TypeOK` |
| | `ClaimsAreExclusive` | `ClaimTokens` |
| | `DecisionsAreBounded` | `DecisionTokens` |
| | `FailureIsExhaustion` | `FailedIsExhausted` |
| | `EarlyClaimsAreRaces` | `EarlyClaimIsARace` |
| | `SettledForGood` | `SettledIsFinal` (action) |
| one worker | `QueueKeepsPromise` | `KeepsPromise` (refinement of `ReviewPromise`) |
| one worker | `AttemptsAreBudgeted` | `AttemptsWithinBudget` |
| `DeliveryProofs` | `DeliveryTypeCorrect` | `TypeOK` |
| | `ArrivalsAreAccounted` | `ArrivalsAccounted` |
| | `RetriesAreBudgeted` | `RetryBudget` |
| | `ConsentComesFirst` | `ConsentBeforeSend` (action) |
| | `OutboxKeepsPromise` | `KeepsOutboxPromise` (refinement of `OutboxPromise`) |
| `FrontDoorProofs` | `DoorTypeCorrect` | `DoorTypeOK` |
| | `QuotaIsHeld` | `QuotaHolds` |
| | `RefusalsAreEarned` | `RefusalIsEarned` |
| | `DoorImplementsSubmission` | `DoorSpec => Spec` (refinement of `Submission`) |
| | `RetriesShareOneJob` | `RetriesShareTheJob` |
| | `UnauditedAreExplained` | `UnauditedExplained` |
| `PiGatewayProofs` | `GatewayTypeCorrect` | `TypeOK` |
| | `ChildrenAreReaped` | `NoOrphanedChild` |
| | `DecisionsAreGrounded` | `DecisionIsGrounded` |
| | `WaitsAreBounded` | `WaitIsBounded` |
| `RetentionProofs` | `RetentionTypeCorrect` | `TypeOK` |
| | `NothingOutlivesItsPeriod` | `NothingOverRetained` |
| | `FindingsNameTheNewest` | `FindingNamesNewest` |
| `HealthProofs` | `HealthTypeCorrect` | `TypeOK` |
| | `SilencesAreBounded` | `SilenceIsBounded` |
| | `ReportsAreRecent` | `ReportIsRecent` |
| `BackupRestoreProofs` | `FilesTypeCorrect` | `TypeOK` |
| | `DatabaseStaysWhole` | `DatabaseIsWhole` |
| | `RestoresAreBackups` | `RestoredWasBackedUp` |
| | `BackupsAreKept` | `FinishedBackupsKept` |
| | `DataIsNotReplaced` | `DataSurvives` (action) |
| `EvidenceProofs` | `SecretsAreKeptOut` | `SecretsStayOut` |
| | `RecurrencesAreRecognised` | `RecurrenceIsRecognised` |
| | `HostsAreToldApart` | `EntitiesAreToldApart` |
| | `RedactsDictionaries`, `RedactsLists`, `RedactsTexts` | `Redact` satisfies the recursion of `redact` |

The arguments. `ReviewQueueProofs` builds its invariants on one another; each other
module states one inductive invariant (`FrontDoorProofs` two), a conjunction of named
parts, shows that every action preserves it (one lemma per action or group of
actions alike), and reads the theorems off it. TLC confirmed these invariants on
instances of the size of the runs.

**Queue.** `ClaimTokens` and `DecisionTokens` are not about a single state of
one worker: a claim taken away by recovery still lives in its old holder. Count
tokens: a job's holders, plus one while its row can be claimed or is settled. No
step but a recovery adds a token (`NoMinting`), and a recovery adds one and counts
itself, so tokens minus recoveries never rise above their initial one. The
decisions are counted along in the second balance. `SettledIsFinal` follows: a
settled row without recoveries holds the only token, so nobody is left to write by
id. `FailedIsExhausted` needs that a worker's copy of `attempts` is never ahead of
the row (`CopyNotAhead`): rows only grow. `EarlyClaimIsARace` rests on both: without a
recovery a worker that has selected a job and still sees its own count of attempts is
alone with a row that nobody held since, so nobody can have postponed it
(`OvertakenInv`). With one worker the copy is exact (`CopyIsExact`) unless the worker is
down, which gives the refinement of `ReviewPromise` and the attempt budget (`BudgetInv`).

**Delivery** (`DeliveryInv`). The balance of arrivals is inductive once the worker's
place is tied to the tables: the item in hand is the oldest of a batch, and there is
only one oldest (`RanksOrder`); the rows of the batch still wait and its copied counts
are current (`BatchIsCurrent`); what a fan-out has yet to insert has no row
(`FanOutIsFresh`, `RowsAreBorn`).
`ConsentBeforeSend` holds because the flag and the history of consent are the same
set (`ConsentIsTheFlag`). The refinement of `OutboxPromise` needs the same facts: since
the item in hand is one, a send, its record and a crash each move one item; since the
copied count is current, `delivery_failed` adds one to what the row says.

**Limiter** (`LimiterInv`). Count from the newest request backwards. What a process
has not evicted is the newest part of what it let through within the window; that
alone gives `RefusalIsEarned`. Of the rest, each further batch of `Limit` requests
lies behind one restart more (`Explained`), so a restart leaves the window no
earlier than the requests it made the process forget. That is why a restart costs
one quota and not more, and it is inductive under the clock, which a bound on the
lengths is not.

**Submission** (`SubmissionInv`). Rows that are answered and no longer in the table
are counted against purges (`GoneWerePurged`), jobs that nobody will audit against
crashes (`LostCrashed`): racing, replaying and auditing only take from these sets.
The unique constraint (`KeysAreUnique`) adds one row per key. Since every step of
`FrontDoor` is a step of `Submission` or leaves it alone
(`DoorImplementsSubmission`), all of it holds behind the door.

**Pi gateway** (`GatewayInv`). The place in the coroutine determines which prompt it
is at (`RoundsInv`), where no child can be left (`ChildInv`), that a text is passed on
only after an acknowledgement (`AnswerInv`), and that the time waited plus what is
left of the running timer fits the prompts sent so far (`TimeInv`).

**Retention** (`RetentionInv`). A finding is deleted with the decision it names. That
no newer decision is left then is a fact about time: who was settled later is not
older (`AgeInv`), the finding names the one settled last, so everything of its key
is overdue when it is, and one transaction takes it all (`NewestGoesLast`).
`NothingOverRetained` is about the schedule: `next_purge` lies at most an iteration in
the past when an iteration begins (`ScheduleInv`), so less than two days pass between
purges, and a row that is a date overdue has seen one midnight since the last one, a row
two dates overdue two (`DateInv`), each with a day in between. It needs that two
iterations fit into a day (`IterationsAreShort`) and nothing of how long the worker
was away, since the first iteration purges.

**Health** (`HealthInv`). The age of the heartbeat plus what the current await may
still take is within one iteration (`SilenceInv`); a row that reports Pi ready was
written within a probe interval of a good probe (`ProbeInv`).

**Backup and restore** (`FilesInv`). Every digest is that of a file whose backup was
finished (`DigestInv`), so a restore past its check works with such a file
(`RestoreInv`); a backup has its path for itself (`BackupInv`), so it leaves the
finished ones as they are (`SoundInv`); and while a restore runs nothing is in the
database's place but at most the empty file a backup's connection makes (`PlaceInv`).

**Evidence** (`EvidenceInv`). Whatever is stored or shown is what the rows of the
history become: `Collected` of rows that a run had, redacted, wrapped and numbered
(`CollectedInv`, `StoredInv`), or the redacted summary, as it was stored, in which the
list of the runner is found again as the list of its redacted rows (`JobInv`,
`SuppliedFacts`). The rest is about single values. Redaction of a value in which
every secret is guarded by a sensitive name leaves none (`RedactRemoves`); only the title
of a Splunk row is not redacted, and nothing is claimed of it. Values
are guarded if their parts are (`GuardedParts`), so wrapping keeps them so. Rows that
differ in volatile fields only agree on everything a key is made of (`LastingSame`), and
redaction and wrapping respect that (`RedactKin`, `SplunkKin`, `KinIdentity`). A plain
field that is not sensitive passes both redactions unchanged (`PlainFieldStays`), so a
host is in the key (`HostIsKept`).

Only model-checked: the liveness properties (`UninterruptedJobsSettle`,
`StaleClaimRecovered`, `EveryItemSettles`, `HealthyTargetServed`,
`UninterruptedFanOut`, `CallReturns`, `TroubleShows`), since fairness and
ENABLED are outside the prover's reach. Induction over data was avoided in `Evidence` by
the form of its values: that a value satisfying the recursion of `redact` is the only
one would need it, and is not claimed.

## 6. Not modelled

- Integrations: queries built and guarded as strings, one HTTP call each, no state.
  Of Splunk, `Evidence` models the rows that come back; failures appear as errors
  and crashes in `ReviewQueue` and `Delivery`.
- The tool routes, the body limit and request validation of the HTTP application,
  which concern one request and keep nothing; validation of Teams activities and the
  tenant list, in front of `Install` and `Remove`.
- Cards, configuration, logging and scripts: formatting and start-up checks.
- Audit events other than those of submissions and completed reviews: append-only
  rows nobody reads, purged like the others (`Retention`).
- scrypt, SHA-256 and JSON text, abstracted to equality of what they are applied to;
  power loss and file modes.

## 7. Plan

A composition of queue and delivery: a job from submission to card, refining an
abstract "submitted, decided, announced", from `ReviewPromise` and `OutboxPromise`.
