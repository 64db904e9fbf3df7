----------------------------- MODULE Submission -----------------------------
(***************************************************************************)
(* POST /api/v1/review-jobs: create_job and the audit event that follows   *)
(* it, served by any number of API processes.  Inside one process the      *)
(* handler never awaits once it has started, so a process serves one       *)
(* submission at a time; between the statements of one process another     *)
(* process, or the worker's retention purge, may write.                    *)
(*                                                                         *)
(* A row is a job's identity, its idempotency key and the content that     *)
(* create_job compares: everything the caller sent, after redaction and    *)
(* after the row limit was capped by the configuration.                    *)
(***************************************************************************)
EXTENDS Integers, FiniteSets

CONSTANTS
    Processes,      \* API processes
    Keys,           \* idempotency keys
    Bodies,         \* redacted selector, source and summary
    Limits,         \* requested row limits
    PromptMaxRows,  \* settings.prompt_max_rows
    MaxRequests,    \* bound: submissions ever received
    MaxPurges,      \* bound: job rows ever purged
    MaxCrashes      \* bound: crashes of API processes

ASSUME SubmissionAssumption ==
    /\ IsFiniteSet(Processes)
    /\ Limits \subseteq Nat
    /\ PromptMaxRows \in Nat
    /\ MaxRequests \in Nat
    /\ MaxPurges \in Nat
    /\ MaxCrashes \in Nat

VARIABLES
    jobs,      \* rows of the jobs table
    audits,    \* identities of the jobs with a creation or replay audit event
    lastId,    \* identities given out so far
    pc, request, answer,   \* per process: the submission being served
    accepted,  \* history: accepted submissions with the job answered
    created,   \* history: identities answered with created = true
    requests, purges, crashes   \* history: how often each happened

vars == <<jobs, audits, lastId, pc, request, answer, accepted, created,
          requests, purges, crashes>>
counters == <<requests, purges, crashes>>

Least(a, b) == IF a <= b THEN a ELSE b

Submissions == [key : Keys, body : Bodies, limit : Limits]
Contents == [body : Bodies, row_limit : Nat]
Rows == [id : Nat, key : Keys, content : Contents]
NoRequest == <<>>

\* submit_review caps the row limit before the content is stored or compared.
ContentOf(s) == [body |-> s.body, row_limit |-> Least(s.limit, PromptMaxRows)]

\* create_job has returned.
Decided(p) == pc[p] = "audit"

TypeOK ==
    /\ jobs \subseteq Rows
    /\ audits \subseteq Nat
    /\ lastId \in Nat
    /\ pc \in [Processes -> {"idle", "select", "insert", "reselect", "audit"}]
    /\ request \in [Processes -> Submissions \union {NoRequest}]
    /\ answer \in [Processes -> Rows \union {NoRequest}]
    /\ \A p \in Processes :
        /\ pc[p] # "idle" => request[p] \in Submissions
        /\ Decided(p) => answer[p] \in Rows
    /\ accepted \subseteq [submission : Submissions, row : Rows]
    /\ created \subseteq Nat
    /\ requests \in 0..MaxRequests
    /\ purges \in 0..MaxPurges
    /\ crashes \in 0..MaxCrashes

Init ==
    /\ jobs = {}
    /\ audits = {}
    /\ lastId = 0
    /\ pc = [p \in Processes |-> "idle"]
    /\ request = [p \in Processes |-> NoRequest]
    /\ answer = [p \in Processes |-> NoRequest]
    /\ accepted = {}
    /\ created = {}
    /\ requests = 0
    /\ purges = 0
    /\ crashes = 0

Goto(p, label) == pc' = [pc EXCEPT ![p] = label]

\* The row with the request's key, as SELECT ... WHERE idempotency_key finds it.
Existing(p) == {j \in jobs : j.key = request[p].key}

\* The process is free again.
Finish(p) ==
    /\ Goto(p, "idle")
    /\ request' = [request EXCEPT ![p] = NoRequest]
    /\ answer' = [answer EXCEPT ![p] = NoRequest]

-----------------------------------------------------------------------------

\* A validated and authorised submission reaches the handler.
Receive(p, s) ==
    /\ pc[p] = "idle"
    /\ requests < MaxRequests
    /\ requests' = requests + 1
    /\ request' = [request EXCEPT ![p] = s]
    /\ Goto(p, "select")
    /\ UNCHANGED <<jobs, audits, lastId, answer, accepted, created, purges, crashes>>

\* create_job finds no row with the key.
SelectNothing(p) ==
    /\ pc[p] = "select"
    /\ Existing(p) = {}
    /\ Goto(p, "insert")
    /\ UNCHANGED <<jobs, audits, lastId, request, answer, accepted, created, counters>>

\* The five stored columns equal what the request would store.
SameContent(p, j) == j.content = ContentOf(request[p])

\* create_job finds the row and its content agrees: a replay.
SelectReplay(p) ==
    /\ pc[p] = "select"
    /\ \E j \in Existing(p) :
        /\ SameContent(p, j)
        /\ answer' = [answer EXCEPT ![p] = j]
    /\ Goto(p, "audit")
    /\ UNCHANGED <<jobs, audits, lastId, request, accepted, created, counters>>

\* create_job raises IdempotencyConflict, answered with 409 and no audit event.
SelectConflict(p) ==
    /\ pc[p] = "select"
    /\ \E j \in Existing(p) : ~SameContent(p, j)
    /\ Finish(p)
    /\ UNCHANGED <<jobs, audits, lastId, accepted, created, counters>>

NewRow(p) == [id |-> lastId + 1, key |-> request[p].key, content |-> ContentOf(request[p])]

\* Faulty variant: the column has no unique constraint.
KeyUnchecked(p) == pc[p] = "insert"

\* The unique constraint of jobs.idempotency_key lets the row in.
KeyIsFree(p) == Existing(p) = {}

\* The INSERT commits: the job is queued before anything is audited.
Insert(p) ==
    /\ pc[p] = "insert"
    /\ KeyIsFree(p)
    /\ jobs' = jobs \union {NewRow(p)}
    /\ lastId' = lastId + 1
    /\ answer' = [answer EXCEPT ![p] = NewRow(p)]
    /\ created' = created \union {lastId + 1}
    /\ Goto(p, "audit")
    /\ UNCHANGED <<audits, request, accepted, counters>>

\* The unique constraint raises IntegrityError: another process was faster.
InsertRejected(p) ==
    /\ pc[p] = "insert"
    /\ ~KeyIsFree(p)
    /\ Goto(p, "reselect")
    /\ UNCHANGED <<jobs, audits, lastId, request, answer, accepted, created, counters>>

\* After the rollback the row is read again and returned as it is: nothing
\* compares its content with the request.
Reselect(p) ==
    /\ pc[p] = "reselect"
    /\ \E j \in Existing(p) : answer' = [answer EXCEPT ![p] = j]
    /\ Goto(p, "audit")
    /\ UNCHANGED <<jobs, audits, lastId, request, accepted, created, counters>>

\* The row was purged in between: the IntegrityError is raised again.
ReselectNothing(p) ==
    /\ pc[p] = "reselect"
    /\ Existing(p) = {}
    /\ Finish(p)
    /\ UNCHANGED <<jobs, audits, lastId, accepted, created, counters>>

Acceptance(p) == [submission |-> request[p], row |-> answer[p]]

\* Faulty variant: the event is forgotten.
Unaudited(p) == audits

\* review_job.created or review_job.replayed
Audited(p) == audits \union {answer[p].id}

\* The audit event is committed, then 202 is sent.
AuditAndAnswer(p) ==
    /\ Decided(p)
    /\ audits' = Audited(p)
    /\ accepted' = accepted \union {Acceptance(p)}
    /\ Finish(p)
    /\ UNCHANGED <<jobs, lastId, created, counters>>

\* The process dies with the submission it served.
Crash(p) ==
    /\ pc[p] # "idle"
    /\ crashes < MaxCrashes
    /\ crashes' = crashes + 1
    /\ Finish(p)
    /\ UNCHANGED <<jobs, audits, lastId, accepted, created, requests, purges>>

\* The worker's purge deletes a job settled before the retention period, and
\* with it the memory of its idempotency key.
Purge(j) ==
    /\ purges < MaxPurges
    /\ purges' = purges + 1
    /\ jobs' = jobs \ {j}
    /\ UNCHANGED <<audits, lastId, pc, request, answer, accepted, created,
                   requests, crashes>>

\* A process goes on with the submission it has received.
Serve(p) ==
    \/ SelectNothing(p) \/ SelectReplay(p) \/ SelectConflict(p)
    \/ Insert(p) \/ InsertRejected(p) \/ Reselect(p) \/ ReselectNothing(p)
    \/ AuditAndAnswer(p)

Next ==
    \/ \E p \in Processes :
        \/ \E s \in Submissions : Receive(p, s)
        \/ Serve(p)
        \/ Crash(p)
    \/ \E j \in jobs : Purge(j)

Spec == Init /\ [][Next]_vars

-----------------------------------------------------------------------------
(* Properties.                                                             *)

\* However many processes race for a key, and although each looks before it
\* inserts, a retry does not start a second review: the jobs answered for one
\* key differ only if a purge removed one of them in between.
RetriesShareTheJob ==
    \A k \in Keys :
        Cardinality({a.row : a \in {b \in accepted : b.submission.key = k}}) <= 1 + purges

\* The job is committed before its audit event; a job stays without one only
\* while it is being answered or because its process crashed in between.
UnauditedExplained ==
    Cardinality(created \ audits)
        <= crashes + Cardinality({p \in Processes : Decided(p)})

\* "Reusing that key with different content returns `409`" (docs/seer-stix.md): an
\* accepted submission is answered with a job of its own content, whatever was
\* purged, retried or submitted meanwhile.  A submission that loses the insert
\* race is not.
ReplayIsFaithful ==
    \A a \in accepted : a.row.content = ContentOf(a.submission)
=============================================================================
