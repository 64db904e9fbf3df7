------------------------------ MODULE Delivery ------------------------------
(***************************************************************************)
(* From a completed review to the cards in Teams: the installations table  *)
(* that Teams lifecycle events and administrators write through the API,   *)
(* the fan-out of a decision into the delivery outbox, and the worker's    *)
(* flush of that outbox, with crashes anywhere.                            *)
(*                                                                         *)
(* API handlers run to completion on the event loop and each is one        *)
(* committed write, so they are single steps; they interleave with every   *)
(* step of the worker, in particular with a send in flight.  The worker's  *)
(* steps are its commits and its awaits.  One worker is active, as         *)
(* documented: an outbox row has no "sending" state and two workers would  *)
(* send the same row twice.                                                *)
(***************************************************************************)
EXTENDS Backoff, FiniteSets

CONSTANTS
    Reviews,       \* reviews that may complete
    Destinations,  \* Teams conversations
    Sinks,         \* other channels: the Splunk audit sink, if configured
    Flaky,         \* targets whose sends may fail
    MaxTries,      \* Outbox.max_attempts
    BatchLimit,    \* limit of pending_deliveries
    MaxCrashes     \* bound: crashes of the worker

ASSUME DeliveryAssumption ==
    /\ Destinations \intersect Sinks = {}
    /\ Flaky \subseteq Destinations \union Sinks
    /\ MaxTries \in Nat \ {0}
    /\ BatchLimit \in Nat \ {0}
    /\ MaxCrashes \in Nat

VARIABLES
    \* the teams_installations table
    known,     \* conversations that have a row
    active,    \* rows with active = true
    enabled,   \* rows with enabled = true
    \* the delivery_outbox table
    born,      \* rank of created_at, 0 for a row not inserted
    row,       \* its status
    tries,     \* its attempts
    wait,      \* available_at - now, 0 once it is due
    \* the worker
    pc,
    review,    \* the decision being fanned out
    targets,   \* its targets still to be enqueued
    batch,     \* rows read by pending_deliveries and not handled yet
    copy,      \* the attempts those rows had when they were read
    \* environment and history
    done,      \* reviews that completed
    received,  \* times each item reached its target
    unacked,   \* history: arrivals the worker never recorded as a success
    consent,   \* history: destinations an administrator enabled, and neither
               \* an administrator nor a removal has withdrawn since
    owed,      \* history: items whose destination was enabled at completion and
               \* has been neither disabled nor removed since
    crashes    \* history: crashes so far

installVars == <<known, active, enabled, consent>>
outboxVars == <<born, row, tries, wait>>
workerVars == <<pc, review, targets, batch, copy>>
historyVars == <<done, received, unacked, owed, crashes>>
vars == <<installVars, outboxVars, workerVars, historyVars>>

Targets == Destinations \union Sinks
Items == Reviews \X Targets
TargetOf(i) == i[2]

NoReview == <<>>
WaitingRows == {"pending", "retry"}

TypeOK ==
    /\ known \subseteq Destinations
    /\ active \subseteq known
    /\ enabled \subseteq known
    /\ consent \subseteq known
    /\ born \in [Items -> Nat]
    /\ row \in [Items -> WaitingRows \union {"absent", "sent", "failed"}]
    /\ tries \in [Items -> Nat]
    /\ wait \in [Items -> Nat]
    /\ pc \in {"down", "job", "completed", "fanout", "flush", "batch", "sending", "accepted"}
    /\ review \in Reviews \union {NoReview}
    /\ targets \subseteq Targets
    /\ batch \subseteq Items
    /\ copy \in [Items -> Nat]
    /\ done \subseteq Reviews
    /\ received \in [Items -> Nat]
    /\ unacked \in [Items -> Nat]
    /\ owed \subseteq Items
    /\ crashes \in 0..MaxCrashes

Init ==
    /\ known = {}
    /\ active = {}
    /\ enabled = {}
    /\ consent = {}
    /\ born = [i \in Items |-> 0]
    /\ row = [i \in Items |-> "absent"]
    /\ tries = [i \in Items |-> 0]
    /\ wait = [i \in Items |-> 0]
    /\ pc = "down"
    /\ review = NoReview
    /\ targets = {}
    /\ batch = {}
    /\ copy = [i \in Items |-> 0]
    /\ done = {}
    /\ received = [i \in Items |-> 0]
    /\ unacked = [i \in Items |-> 0]
    /\ owed = {}
    /\ crashes = 0

-----------------------------------------------------------------------------
(* The API: Teams lifecycle events and administration.                     *)

\* A destination that is withdrawn is owed nothing any more.
Settle(d) == {i \in owed : TargetOf(i) # d}

\* upsert_installation, for an installation or a conversation update: a new
\* row is disabled, an old one becomes active and keeps its enabled flag.
Install(d) ==
    /\ known' = known \union {d}
    /\ active' = active \union {d}
    /\ UNCHANGED <<enabled, consent, outboxVars, workerVars, historyVars>>

\* Faulty variant: deactivation leaves the flag as it is.
FlagKept(d) == enabled

\* deactivate_installation clears the flag too.
FlagCleared(d) == enabled \ {d}

\* deactivate_installation, for a removal.
Remove(d) ==
    /\ d \in known
    /\ active' = active \ {d}
    /\ enabled' = FlagCleared(d)
    /\ consent' = consent \ {d}
    /\ owed' = Settle(d)
    /\ UNCHANGED <<known, outboxVars, workerVars, done, received, unacked, crashes>>

\* An unknown or inactive row is refused.
MayEnable(d) == d \in active

\* set_installation_enabled(id, True)
Enable(d) ==
    /\ MayEnable(d)
    /\ enabled' = enabled \union {d}
    /\ consent' = consent \union {d}
    /\ UNCHANGED <<known, active, outboxVars, workerVars, historyVars>>

\* set_installation_enabled(id, False)
Disable(d) ==
    /\ d \in known
    /\ enabled' = enabled \ {d}
    /\ consent' = consent \ {d}
    /\ owed' = Settle(d)
    /\ UNCHANGED <<known, active, outboxVars, workerVars, done, received, unacked, crashes>>

-----------------------------------------------------------------------------
(* Completion and fan-out.                                                 *)

\* complete_job commits; nothing about notifications is in that transaction.
Complete(r) ==
    /\ pc = "job"
    /\ r \notin done
    /\ done' = done \union {r}
    /\ owed' = owed \union ({r} \X (enabled \intersect active))
    /\ review' = r
    /\ pc' = "completed"
    /\ UNCHANGED <<installVars, outboxVars, targets, batch, copy, received, unacked, crashes>>

\* No job was processed in this iteration.
NoJob ==
    /\ pc = "job"
    /\ pc' = "flush"
    /\ UNCHANGED <<installVars, outboxVars, review, targets, batch, copy, historyVars>>

\* _enqueue_notifications reads the enabled installations; the audit event of
\* the completed job adds the audit sink.
BeginFanOut ==
    /\ pc = "completed"
    /\ targets' = (enabled \intersect active) \union Sinks
    /\ pc' = "fanout"
    /\ UNCHANGED <<installVars, outboxVars, review, batch, copy, historyVars>>

Rank == Cardinality({i \in Items : born[i] > 0}) + 1

\* One enqueue, committed by itself: first the destinations, then the sinks.
Enqueue(t) ==
    /\ pc = "fanout"
    /\ t \in targets
    /\ t \in Sinks => targets \subseteq Sinks
    /\ born' = [born EXCEPT ![<<review, t>>] = Rank]
    /\ row' = [row EXCEPT ![<<review, t>>] = "pending"]
    /\ targets' = targets \ {t}
    /\ UNCHANGED <<installVars, tries, wait, pc, review, batch, copy, historyVars>>

\* Faulty variant: the fan-out ends although targets are left.
SomeAreLeft == targets \subseteq Targets

\* Every target has its row.
NoneIsLeft == targets = {}

EndFanOut ==
    /\ pc = "fanout"
    /\ NoneIsLeft
    /\ review' = NoReview
    /\ targets' = {}
    /\ pc' = "flush"
    /\ UNCHANGED <<installVars, outboxVars, batch, copy, historyVars>>

-----------------------------------------------------------------------------
(* Flushing the outbox.                                                    *)

\* Faulty variant: rows already sent are selected again.
DueIncludingSent(i) == row[i] \in WaitingRows \union {"sent"} /\ wait[i] = 0

\* The WHERE clause of pending_deliveries.
Due(i) == row[i] \in WaitingRows /\ wait[i] = 0

\* order_by(Outbox.created_at).limit(limit)
IsOldestDue(S) ==
    /\ S \subseteq {i \in Items : Due(i)}
    /\ Cardinality(S) <= BatchLimit
    /\ \A i \in Items \ S : Due(i) =>
        /\ Cardinality(S) = BatchLimit
        /\ \A k \in S : born[k] < born[i]

\* pending_deliveries: the rows are read once, then handled one by one.
BeginFlush ==
    /\ pc = "flush"
    /\ \E S \in SUBSET Items :
        /\ IsOldestDue(S)
        /\ batch' = S
        /\ copy' = [i \in Items |-> IF i \in S THEN tries[i] ELSE 0]
    /\ pc' = "batch"
    /\ UNCHANGED <<installVars, outboxVars, review, targets, historyVars>>

\* The item the loop over the batch is at.
Current(i) == i \in batch /\ \A k \in batch : born[i] <= born[k]

\* A destination is looked up again right before the send; the audit sink
\* needs no lookup.
Deliverable(t) == t \in Sinks \/ t \in (active \intersect enabled)

\* Faulty variant: the attempt is not counted.
Uncounted(i) == copy[i]

\* item.attempts + 1, from the copy read by pending_deliveries.
Attempts(i) == copy[i] + 1

\* Faulty variant: the last attempt is not recognised.
GivesUpLate(i) == Attempts(i) > MaxTries

GivesUp(i) == Attempts(i) >= MaxTries

\* Faulty variant: the handler encloses the loop and fails the whole batch.
BatchFailure(i) ==
    /\ row' = [k \in Items |-> IF k \in batch THEN "failed" ELSE row[k]]
    /\ tries' = [k \in Items |-> IF k \in batch THEN Attempts(k) ELSE tries[k]]
    /\ wait' = wait

\* delivery_failed
DeliveryFailed(i) ==
    /\ row' = [row EXCEPT ![i] = IF GivesUp(i) THEN "failed" ELSE "retry"]
    /\ tries' = [tries EXCEPT ![i] = Attempts(i)]
    /\ wait' = [wait EXCEPT ![i] = DeliveryDelay(Attempts(i))]

\* The lookup finds the destination active and enabled: the send begins.
StartSend ==
    /\ pc = "batch"
    /\ \E i \in batch : Current(i) /\ Deliverable(TargetOf(i))
    /\ pc' = "sending"
    /\ UNCHANGED <<installVars, outboxVars, review, targets, batch, copy, historyVars>>

\* "Teams destination is inactive": the item fails without a send.
Refuse(i) ==
    /\ pc = "batch"
    /\ Current(i)
    /\ ~Deliverable(TargetOf(i))
    /\ DeliveryFailed(i)
    /\ batch' = batch \ {i}
    /\ UNCHANGED <<installVars, born, pc, review, targets, copy, historyVars>>

\* send_card returns: the card arrived.
SendOk(i) ==
    /\ pc = "sending"
    /\ Current(i)
    /\ received' = [received EXCEPT ![i] = @ + 1]
    /\ pc' = "accepted"
    /\ UNCHANGED <<installVars, outboxVars, review, targets, batch, copy,
                   done, unacked, owed, crashes>>

\* send_card raises before the card arrived.
SendFails(i) ==
    /\ pc = "sending"
    /\ Current(i)
    /\ TargetOf(i) \in Flaky
    /\ DeliveryFailed(i)
    /\ batch' = batch \ {i}
    /\ pc' = "batch"
    /\ UNCHANGED <<installVars, born, review, targets, copy, historyVars>>

\* The card arrived, and yet send_card or the delivery_succeeded after it raises:
\* the answer was lost, or the database was locked.
AnswerLost(i) ==
    /\ pc = "sending"
    /\ Current(i)
    /\ TargetOf(i) \in Flaky
    /\ received' = [received EXCEPT ![i] = @ + 1]
    /\ unacked' = [unacked EXCEPT ![i] = @ + 1]
    /\ DeliveryFailed(i)
    /\ batch' = batch \ {i}
    /\ pc' = "batch"
    /\ UNCHANGED <<installVars, born, review, targets, copy, done, owed, crashes>>

\* delivery_succeeded increments the row's own attempts.
RecordSuccess(i) ==
    /\ pc = "accepted"
    /\ Current(i)
    /\ row' = [row EXCEPT ![i] = "sent"]
    /\ tries' = [tries EXCEPT ![i] = @ + 1]
    /\ batch' = batch \ {i}
    /\ pc' = "batch"
    /\ UNCHANGED <<installVars, born, wait, review, targets, copy, historyVars>>

\* The batch is empty: the next iteration begins.
EndFlush ==
    /\ pc = "batch"
    /\ batch = {}
    /\ copy' = [i \in Items |-> 0]
    /\ pc' = "job"
    /\ UNCHANGED <<installVars, outboxVars, review, targets, batch, historyVars>>

-----------------------------------------------------------------------------
(* Crashes, restarts and the clock.                                        *)

\* The process dies; a card accepted but not recorded stays unrecorded.
Crash ==
    /\ pc # "down"
    /\ crashes < MaxCrashes
    /\ crashes' = crashes + 1
    /\ unacked' = [i \in Items |->
                    IF pc = "accepted" /\ Current(i) THEN unacked[i] + 1 ELSE unacked[i]]
    /\ pc' = "down"
    /\ review' = NoReview
    /\ targets' = {}
    /\ batch' = {}
    /\ copy' = [i \in Items |-> 0]
    /\ UNCHANGED <<installVars, outboxVars, done, received, owed>>

Restart ==
    /\ pc = "down"
    /\ pc' = "job"
    /\ UNCHANGED <<installVars, outboxVars, review, targets, batch, copy, historyVars>>

Tick ==
    /\ \E i \in Items : wait[i] > 0
    /\ wait' = [i \in Items |-> IF wait[i] > 0 THEN wait[i] - 1 ELSE 0]
    /\ UNCHANGED <<installVars, born, row, tries, workerVars, historyVars>>

-----------------------------------------------------------------------------

WorkerStep ==
    \/ \E r \in Reviews : Complete(r)
    \/ NoJob
    \/ BeginFanOut
    \/ \E t \in Targets : Enqueue(t)
    \/ EndFanOut
    \/ BeginFlush
    \/ StartSend
    \/ \E i \in Items :
        \/ Refuse(i)
        \/ SendOk(i)
        \/ SendFails(i)
        \/ AnswerLost(i)
        \/ RecordSuccess(i)
    \/ EndFlush

ApiStep == \E d \in Destinations : Install(d) \/ Remove(d) \/ Enable(d) \/ Disable(d)

Next == ApiStep \/ WorkerStep \/ Crash \/ Restart \/ Tick

Spec == Init /\ [][Next]_vars

\* The worker's loop goes on, it is restarted when it exits, and time passes.
FairSpec == Spec /\ WF_vars(WorkerStep) /\ WF_vars(Restart) /\ WF_vars(Tick)

-----------------------------------------------------------------------------
(* Properties.                                                             *)

\* Every arrival of an item is accounted for: it is the one its row calls sent,
\* or the one the worker is about to record, or it went unrecorded through a lost
\* answer or a crash.  So nothing is called sent that did not arrive, and a target
\* sees an item again only after an arrival went unrecorded.
ArrivalsAccounted ==
    \A i \in Items :
        received[i] = unacked[i]
            + IF row[i] = "sent" \/ (pc = "accepted" /\ Current(i)) THEN 1 ELSE 0

\* Failed attempts are counted right although the count is written from a copy:
\* a row fails exactly at the limit, and a crash costs no attempt.
RetryBudget ==
    \A i \in Items :
        /\ row[i] \in WaitingRows => tries[i] < MaxTries
        /\ row[i] = "sent" => tries[i] \in 1..MaxTries
        /\ row[i] = "failed" => tries[i] = MaxTries

\* An item as its destination and the auditor see it.
PhaseOf(i) ==
    CASE pc = "accepted" /\ Current(i) -> "arrived"
      [] row[i] = "absent" -> "none"
      [] row[i] = "sent" -> "delivered"
      [] row[i] = "failed" -> "dead"
      [] OTHER -> "queued"

Phase == [i \in Items |-> PhaseOf(i)]

Promise == INSTANCE OutboxPromise WITH phase <- Phase, arrivals <- received

\* Every step of API, worker, clock and crash is a step of the promise or none of
\* its business: one item at a time, each try counted once although the count is
\* written from a copy, and an item settled stays settled.
KeepsOutboxPromise == Promise!Spec

\* "New destinations disabled until an administrator enables them": a send
\* begins only to a destination an administrator enabled after it was last
\* removed; removing and installing again does not inherit the permission.
ConsentBeforeSend ==
    [][pc # "sending" /\ pc' = "sending" =>
        \A i \in batch : Current(i) /\ TargetOf(i) \in Destinations => TargetOf(i) \in consent]_vars

\* Every queued item ends as sent or failed, although the worker may crash.
EveryItemSettles ==
    \A i \in Items : row[i] \in WaitingRows ~> row[i] \in {"sent", "failed"}

\* "One destination failure does not erase or mark another destination's
\* delivery as failed": an item for a healthy target is sent, whatever the
\* others do, unless its destination is disabled or removed meanwhile.
HealthyTargetServed ==
    \A i \in Items :
        row[i] \in WaitingRows /\ TargetOf(i) \notin Flaky
            ~> row[i] = "sent" \/ ~Deliverable(TargetOf(i))

\* "Each enabled Teams destination receives its own outbox item": a
\* destination enabled when a review completes gets an outbox row for it, unless
\* it is disabled or removed meanwhile.
FanOutComplete ==
    \A i \in Items : i \in owed ~> born[i] > 0 \/ i \notin owed

\* The same as long as the worker does not crash.
UninterruptedFanOut ==
    \A i \in Items : i \in owed ~> born[i] > 0 \/ i \notin owed \/ crashes > 0
=============================================================================
