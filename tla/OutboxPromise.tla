--------------------------- MODULE OutboxPromise ---------------------------
(***************************************************************************)
(* What the delivery outbox promises for every item, with no word of       *)
(* batches, copies, clocks or crashes: an item is queued once, each try    *)
(* counts once, it is delivered only when an arrival is confirmed, it is   *)
(* given up at the MaxTries-th failure, and both are for good.  A target   *)
(* may see an item again, but only after an arrival nobody confirmed.      *)
(***************************************************************************)
EXTENDS Integers

CONSTANTS Items, MaxTries

VARIABLES
    phase,     \* where each item is
    tries,     \* tries counted so far
    arrivals   \* times it reached its target

vars == <<phase, tries, arrivals>>

Init ==
    /\ phase = [i \in Items |-> "none"]
    /\ tries = [i \in Items |-> 0]
    /\ arrivals = [i \in Items |-> 0]

\* The item is to be delivered.
Queue(i) ==
    /\ phase[i] = "none"
    /\ phase' = [phase EXCEPT ![i] = "queued"]
    /\ UNCHANGED <<tries, arrivals>>

Reaches(i) == arrivals' = [arrivals EXCEPT ![i] = @ + 1]

\* It reaches its target, and is known to have.
Arrive(i) ==
    /\ phase[i] = "queued"
    /\ phase' = [phase EXCEPT ![i] = "arrived"]
    /\ Reaches(i)
    /\ UNCHANGED tries

\* The arrival is confirmed.
Confirm(i) ==
    /\ phase[i] = "arrived"
    /\ phase' = [phase EXCEPT ![i] = "delivered"]
    /\ tries' = [tries EXCEPT ![i] = @ + 1]
    /\ UNCHANGED arrivals

\* The arrival is forgotten, at no cost.
Forget(i) ==
    /\ phase[i] = "arrived"
    /\ phase' = [phase EXCEPT ![i] = "queued"]
    /\ UNCHANGED <<tries, arrivals>>

\* A try fails, even if the item may have reached its target: the last one
\* gives the item up.
Fail(i) ==
    /\ phase[i] = "queued"
    /\ tries' = [tries EXCEPT ![i] = @ + 1]
    /\ phase' = IF tries[i] + 1 = MaxTries THEN [phase EXCEPT ![i] = "dead"] ELSE phase
    /\ Reaches(i) \/ UNCHANGED arrivals

Next == \E i \in Items : Queue(i) \/ Arrive(i) \/ Confirm(i) \/ Forget(i) \/ Fail(i)

Spec == Init /\ [][Next]_vars
=============================================================================
