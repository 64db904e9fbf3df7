--------------------------- MODULE ReviewPromise ---------------------------
(***************************************************************************)
(* What the review queue promises to whoever submits a job, with no word   *)
(* of workers, sessions, clocks or Pi: an accepted job is worked on by     *)
(* one try at a time, is decided at most once, and is given up only after  *)
(* MaxAttempts tries.  A try whose worker vanished may be declared lost;   *)
(* each loss pays for one try more.                                        *)
(***************************************************************************)
EXTENDS Integers

CONSTANTS Jobs, MaxAttempts

VARIABLES
    phase,   \* where each job is
    tries,   \* tries begun so far
    lost     \* tries declared lost so far

vars == <<phase, tries, lost>>

Phases == {"none", "queued", "working", "decided", "dead"}

Init ==
    /\ phase = [j \in Jobs |-> "none"]
    /\ tries = [j \in Jobs |-> 0]
    /\ lost = [j \in Jobs |-> 0]

\* The job is accepted.
Accept(j) ==
    /\ phase[j] = "none"
    /\ phase' = [phase EXCEPT ![j] = "queued"]
    /\ UNCHANGED <<tries, lost>>

\* A try begins.
Begin(j) ==
    /\ phase[j] = "queued"
    /\ phase' = [phase EXCEPT ![j] = "working"]
    /\ tries' = [tries EXCEPT ![j] = @ + 1]
    /\ UNCHANGED lost

\* The try in progress decides the job, for good.
Decide(j) ==
    /\ phase[j] = "working"
    /\ phase' = [phase EXCEPT ![j] = "decided"]
    /\ UNCHANGED <<tries, lost>>

\* The try in progress failed and tries are left.
Postpone(j) ==
    /\ phase[j] = "working"
    /\ tries[j] < MaxAttempts
    /\ phase' = [phase EXCEPT ![j] = "queued"]
    /\ UNCHANGED <<tries, lost>>

\* The try in progress failed and none is left.
GiveUp(j) ==
    /\ phase[j] = "working"
    /\ tries[j] >= MaxAttempts
    /\ phase' = [phase EXCEPT ![j] = "dead"]
    /\ UNCHANGED <<tries, lost>>

\* The tries in progress on the jobs of S are declared lost together.
Requeue(S) ==
    /\ \A j \in S : phase[j] = "working"
    /\ phase' = [j \in Jobs |-> IF j \in S THEN "queued" ELSE phase[j]]
    /\ lost' = [j \in Jobs |-> IF j \in S THEN lost[j] + 1 ELSE lost[j]]
    /\ UNCHANGED tries

Next ==
    \/ \E j \in Jobs :
        \/ Accept(j)
        \/ Begin(j)
        \/ Decide(j)
        \/ Postpone(j)
        \/ GiveUp(j)
    \/ \E S \in SUBSET Jobs : Requeue(S)

Spec == Init /\ [][Next]_vars
=============================================================================
