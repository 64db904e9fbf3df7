------------------------- MODULE ReviewQueueProofs -------------------------
(***************************************************************************)
(* Proofs about ReviewQueue for every set of workers, every number of jobs *)
(* and every limit.  The inductive invariant counts, for each job, the     *)
(* "tokens" it owns: the queued row, the claims in progress and the        *)
(* decisions.  A step moves a token or destroys it; only recovery mints.   *)
(***************************************************************************)
EXTENDS ReviewQueue, TLAPS, FiniteSetTheorems

\* A backoff is a number of seconds, so available_at never lies in the past
\* of the retry that set it.
LEMMA RetryDelayType ==
    ASSUME NEW a \in Nat
    PROVE  RetryDelay(a) \in Nat
  <1>1. Least(a, 9) \in 0..9
    BY DEF Least
  <1>2. \A n \in 0..9 : PowerOfTwo(n) \in Nat
    BY DEF PowerOfTwo, PowerTable
  <1>3. PowerOfTwo(Least(a, 9)) \in Nat
    BY <1>1, <1>2
  <1> QED
    BY <1>3 DEF RetryDelay, Least

-----------------------------------------------------------------------------
(* Type correctness, one part of TypeOK at a time.                         *)

\* Every step writes well-typed rows.
LEMMA JobTypesStep ==
    ASSUME TypeOK, [Next]_vars
    PROVE  JobTypes'
  <1> USE DEF TypeOK, JobTypes, jobVars, HoldsAJob, WorkerTypes
  <1>1. ASSUME NEW j \in Jobs, Submit(j)
        PROVE  JobTypes'
    BY <1>1 DEF Submit, Statuses, ClaimableStates
  <1>2. ASSUME NEW w \in Workers, StartWorker(w)
        PROVE  JobTypes'
    <2>1. status' \in [Jobs -> Statuses]
      BY <1>2 DEF StartWorker, Abandoned, Statuses, ClaimableStates, SettledStates
    <2>2. wait' \in [Jobs -> Nat]
      BY <1>2 DEF StartWorker, Abandoned
    <2>3. recoveries' \in [Jobs -> Nat]
      BY <1>2 DEF StartWorker, Abandoned
    <2> QED
      BY <1>2, <2>1, <2>2, <2>3 DEF StartWorker
  <1>3. ASSUME NEW w \in Workers, ProbeOk(w)
        PROVE  JobTypes'
    BY <1>3 DEF ProbeOk
  <1>4. ASSUME NEW w \in Workers, ProbeFails(w)
        PROVE  JobTypes'
    BY <1>4 DEF ProbeFails
  <1>5. ASSUME NEW w \in Workers, SkipProbe(w)
        PROVE  JobTypes'
    BY <1>5 DEF SkipProbe
  <1>6. ASSUME NEW w \in Workers, NothingDue(w)
        PROVE  JobTypes'
    BY <1>6 DEF NothingDue
  <1>7. ASSUME NEW w \in Workers, SelectCandidate(w)
        PROVE  JobTypes'
    BY <1>7 DEF SelectCandidate, DueJobs
  <1>8. ASSUME NEW w \in Workers, Claim(w)
        PROVE  JobTypes'
    <2>1. status' \in [Jobs -> Statuses]
      BY <1>8 DEF Claim, Statuses, ClaimableStates, SettledStates
    <2>2. attempts' \in [Jobs -> Nat]
      BY <1>8 DEF Claim
    <2>3. claimAge' \in [Jobs -> 0..(AbandonAfter + 1)]
      BY <1>8, QueueAssumption DEF Claim
    <2> QED
      BY <1>8, <2>1, <2>2, <2>3 DEF Claim
  <1>9. ASSUME NEW w \in Workers, LoseClaim(w)
        PROVE  JobTypes'
    BY <1>9 DEF LoseClaim
  <1>10. ASSUME NEW w \in Workers, CompleteJob(w)
        PROVE  JobTypes'
    <2>1. status' \in [Jobs -> Statuses]
      BY <1>10 DEF CompleteJob, Statuses, ClaimableStates, SettledStates
    <2>2. error' \in [Jobs -> Errors]
      BY <1>10 DEF CompleteJob, Errors
    <2>3. decisions' \in [Jobs -> Nat]
      BY <1>10 DEF CompleteJob
    <2> QED
      BY <1>10, <2>1, <2>2, <2>3 DEF CompleteJob
  <1>11. ASSUME NEW w \in Workers, NEW e \in Errors \ {"none"}, RetryJob(w, e)
        PROVE  JobTypes'
    <2>1. RetryDelay(heldAttempts[w]) \in Nat
      BY <1>11, RetryDelayType DEF RetryJob
    <2>2. status' \in [Jobs -> Statuses]
      BY <1>11 DEF RetryJob, Statuses, ClaimableStates, SettledStates
    <2>3. error' \in [Jobs -> Errors]
      BY <1>11 DEF RetryJob, Errors
    <2>4. wait' \in [Jobs -> Nat]
      BY <1>11, <2>1 DEF RetryJob
    <2> QED
      BY <1>11, <2>1, <2>2, <2>3, <2>4 DEF RetryJob
  <1>12. ASSUME NEW w \in Workers, EndIteration(w)
        PROVE  JobTypes'
    BY <1>12 DEF EndIteration
  <1>13. ASSUME NEW w \in Workers, StopWorker(w) \/ Crash(w)
        PROVE  JobTypes'
    BY <1>13 DEF StopWorker, Crash, Forget
  <1>14. CASE PiGoesDown \/ PiComesUp
    BY <1>14 DEF PiGoesDown, PiComesUp
  <1>15. CASE Tick
    <2>1. wait' \in [Jobs -> Nat]
      BY <1>15 DEF Tick, Ageing, CountDown
    <2>2. claimAge' \in [Jobs -> 0..(AbandonAfter + 1)]
      BY <1>15, QueueAssumption DEF Tick, Ageing, CountDown
    <2> QED
      BY <1>15, <2>1, <2>2 DEF Tick
  <1>16. CASE UNCHANGED vars
    BY <1>16 DEF vars
  <1> QED
    BY <1>1, <1>2, <1>3, <1>4, <1>5, <1>6, <1>7, <1>8, <1>9, <1>10, <1>11, <1>12, <1>13, <1>14, <1>15, <1>16
    DEF Next, WorkerStep

\* Every step leaves the workers' locals well typed.
LEMMA WorkerTypesStep ==
    ASSUME TypeOK, [Next]_vars
    PROVE  WorkerTypes'
  <1> USE DEF TypeOK, WorkerTypes, workerVars, Labels, JobTypes
  <1>1. ASSUME NEW j \in Jobs, Submit(j)
        PROVE  WorkerTypes'
    BY <1>1 DEF Submit, Statuses, ClaimableStates
  <1>2. ASSUME NEW w \in Workers, StartWorker(w)
        PROVE  WorkerTypes'
    BY <1>2, QueueAssumption DEF StartWorker, Abandoned
  <1>3. ASSUME NEW w \in Workers, ProbeOk(w)
        PROVE  WorkerTypes'
    BY <1>3, QueueAssumption DEF ProbeOk
  <1>4. ASSUME NEW w \in Workers, ProbeFails(w)
        PROVE  WorkerTypes'
    BY <1>4, QueueAssumption DEF ProbeFails
  <1>5. ASSUME NEW w \in Workers, SkipProbe(w)
        PROVE  WorkerTypes'
    BY <1>5 DEF SkipProbe
  <1>6. ASSUME NEW w \in Workers, NothingDue(w)
        PROVE  WorkerTypes'
    BY <1>6 DEF NothingDue
  <1>7. ASSUME NEW w \in Workers, SelectCandidate(w)
        PROVE  WorkerTypes'
    <2>1. pc' \in [Workers -> Labels]
      BY <1>7 DEF SelectCandidate, DueJobs
    <2>2. held' \in [Workers -> Jobs \union {0}]
      BY <1>7 DEF SelectCandidate, DueJobs
    <2>3. heldAttempts' \in [Workers -> Nat]
      BY <1>7 DEF SelectCandidate, DueJobs
    <2> QED
      BY <1>7, <2>1, <2>2, <2>3 DEF SelectCandidate
  <1>8. ASSUME NEW w \in Workers, Claim(w)
        PROVE  WorkerTypes'
    <2>1. pc' \in [Workers -> Labels]
      BY <1>8 DEF Claim
    <2>2. heldAttempts' \in [Workers -> Nat]
      BY <1>8 DEF Claim
    <2> QED
      BY <1>8, <2>1, <2>2 DEF Claim
  <1>9. ASSUME NEW w \in Workers, LoseClaim(w)
        PROVE  WorkerTypes'
    BY <1>9 DEF LoseClaim
  <1>10. ASSUME NEW w \in Workers, CompleteJob(w)
        PROVE  WorkerTypes'
    BY <1>10 DEF CompleteJob
  <1>11. ASSUME NEW w \in Workers, NEW e \in Errors \ {"none"}, RetryJob(w, e)
        PROVE  WorkerTypes'
    BY <1>11 DEF RetryJob
  <1>12. ASSUME NEW w \in Workers, EndIteration(w)
        PROVE  WorkerTypes'
    BY <1>12 DEF EndIteration
  <1>13. ASSUME NEW w \in Workers, StopWorker(w) \/ Crash(w)
        PROVE  WorkerTypes'
    <2>1. pc' \in [Workers -> Labels]
      BY <1>13 DEF StopWorker, Crash, Forget
    <2>2. held' \in [Workers -> Jobs \union {0}]
      BY <1>13 DEF StopWorker, Crash, Forget
    <2>3. heldAttempts' \in [Workers -> Nat]
      BY <1>13 DEF StopWorker, Crash, Forget
    <2>4. piReady' \in [Workers -> BOOLEAN]
      BY <1>13 DEF StopWorker, Crash, Forget
    <2>5. probeIn' \in [Workers -> 0..ProbeInterval]
      BY <1>13, QueueAssumption DEF StopWorker, Crash, Forget
    <2> QED
      BY <1>13, <2>1, <2>2, <2>3, <2>4, <2>5 DEF StopWorker, Crash, Forget
  <1>14. CASE PiGoesDown \/ PiComesUp
    BY <1>14 DEF PiGoesDown, PiComesUp
  <1>15. CASE Tick
    BY <1>15, QueueAssumption DEF Tick, Ageing, CountDown
  <1>16. CASE UNCHANGED vars
    BY <1>16 DEF vars
  <1> QED
    BY <1>1, <1>2, <1>3, <1>4, <1>5, <1>6, <1>7, <1>8, <1>9, <1>10, <1>11, <1>12, <1>13, <1>14, <1>15, <1>16
    DEF Next, WorkerStep

\* The environment's counters stay within their bounds.
LEMMA EnvTypesStep ==
    ASSUME TypeOK, [Next]_vars
    PROVE  EnvTypes'
  <1> USE DEF TypeOK, EnvTypes, envVars
  <1>1. ASSUME NEW j \in Jobs, Submit(j)
        PROVE  EnvTypes'
    BY <1>1 DEF Submit, Statuses, ClaimableStates
  <1>2. ASSUME NEW w \in Workers, StartWorker(w)
        PROVE  EnvTypes'
    BY <1>2 DEF StartWorker, Abandoned
  <1>3. ASSUME NEW w \in Workers, ProbeOk(w)
        PROVE  EnvTypes'
    BY <1>3 DEF ProbeOk
  <1>4. ASSUME NEW w \in Workers, ProbeFails(w)
        PROVE  EnvTypes'
    BY <1>4 DEF ProbeFails
  <1>5. ASSUME NEW w \in Workers, SkipProbe(w)
        PROVE  EnvTypes'
    BY <1>5 DEF SkipProbe
  <1>6. ASSUME NEW w \in Workers, NothingDue(w)
        PROVE  EnvTypes'
    BY <1>6 DEF NothingDue
  <1>7. ASSUME NEW w \in Workers, SelectCandidate(w)
        PROVE  EnvTypes'
    BY <1>7 DEF SelectCandidate, DueJobs
  <1>8. ASSUME NEW w \in Workers, Claim(w)
        PROVE  EnvTypes'
    BY <1>8 DEF Claim
  <1>9. ASSUME NEW w \in Workers, LoseClaim(w)
        PROVE  EnvTypes'
    BY <1>9 DEF LoseClaim
  <1>10. ASSUME NEW w \in Workers, CompleteJob(w)
        PROVE  EnvTypes'
    BY <1>10 DEF CompleteJob
  <1>11. ASSUME NEW w \in Workers, NEW e \in Errors \ {"none"}, RetryJob(w, e)
        PROVE  EnvTypes'
    BY <1>11 DEF RetryJob
  <1>12. ASSUME NEW w \in Workers, EndIteration(w)
        PROVE  EnvTypes'
    BY <1>12 DEF EndIteration
  <1>13. ASSUME NEW w \in Workers, StopWorker(w) \/ Crash(w)
        PROVE  EnvTypes'
    BY <1>13, QueueAssumption DEF StopWorker, Crash, Forget
  <1>14. CASE PiGoesDown \/ PiComesUp
    <2>1. piUp' \in BOOLEAN
      BY <1>14 DEF PiGoesDown, PiComesUp
    <2>2. restarts' \in 0..MaxRestarts
      BY <1>14, QueueAssumption DEF PiGoesDown, PiComesUp
    <2>3. outages' \in 0..MaxOutages
      BY <1>14, QueueAssumption DEF PiGoesDown, PiComesUp
    <2> QED
      BY <1>14, <2>1, <2>2, <2>3 DEF PiGoesDown, PiComesUp
  <1>15. CASE Tick
    BY <1>15 DEF Tick, Ageing, CountDown
  <1>16. CASE UNCHANGED vars
    BY <1>16 DEF vars
  <1> QED
    BY <1>1, <1>2, <1>3, <1>4, <1>5, <1>6, <1>7, <1>8, <1>9, <1>10, <1>11, <1>12, <1>13, <1>14, <1>15, <1>16
    DEF Next, WorkerStep

\* A worker that reviews holds the job it selected.
LEMMA HoldsAJobStep ==
    ASSUME TypeOK, [Next]_vars
    PROVE  HoldsAJob'
  <1> USE DEF TypeOK, HoldsAJob, WorkerTypes, workerVars, jobVars
  <1>1. ASSUME NEW j \in Jobs, Submit(j)
        PROVE  HoldsAJob'
    BY <1>1 DEF Submit, Statuses, ClaimableStates
  <1>2. ASSUME NEW w \in Workers, StartWorker(w)
        PROVE  HoldsAJob'
    BY <1>2 DEF StartWorker, Abandoned
  <1>3. ASSUME NEW w \in Workers, ProbeOk(w)
        PROVE  HoldsAJob'
    BY <1>3 DEF ProbeOk
  <1>4. ASSUME NEW w \in Workers, ProbeFails(w)
        PROVE  HoldsAJob'
    BY <1>4 DEF ProbeFails
  <1>5. ASSUME NEW w \in Workers, SkipProbe(w)
        PROVE  HoldsAJob'
    BY <1>5 DEF SkipProbe
  <1>6. ASSUME NEW w \in Workers, NothingDue(w)
        PROVE  HoldsAJob'
    BY <1>6 DEF NothingDue
  <1>7. ASSUME NEW w \in Workers, SelectCandidate(w)
        PROVE  HoldsAJob'
    BY <1>7 DEF SelectCandidate, DueJobs
  <1>8. ASSUME NEW w \in Workers, Claim(w)
        PROVE  HoldsAJob'
    BY <1>8 DEF Claim
  <1>9. ASSUME NEW w \in Workers, LoseClaim(w)
        PROVE  HoldsAJob'
    BY <1>9 DEF LoseClaim
  <1>10. ASSUME NEW w \in Workers, CompleteJob(w)
        PROVE  HoldsAJob'
    BY <1>10 DEF CompleteJob
  <1>11. ASSUME NEW w \in Workers, NEW e \in Errors \ {"none"}, RetryJob(w, e)
        PROVE  HoldsAJob'
    BY <1>11 DEF RetryJob
  <1>12. ASSUME NEW w \in Workers, EndIteration(w)
        PROVE  HoldsAJob'
    BY <1>12 DEF EndIteration
  <1>13. ASSUME NEW w \in Workers, StopWorker(w) \/ Crash(w)
        PROVE  HoldsAJob'
    BY <1>13 DEF StopWorker, Crash, Forget
  <1>14. CASE PiGoesDown \/ PiComesUp
    BY <1>14 DEF PiGoesDown, PiComesUp
  <1>15. CASE Tick
    BY <1>15 DEF Tick, Ageing, CountDown
  <1>16. CASE UNCHANGED vars
    BY <1>16 DEF vars
  <1> QED
    BY <1>1, <1>2, <1>3, <1>4, <1>5, <1>6, <1>7, <1>8, <1>9, <1>10, <1>11, <1>12, <1>13, <1>14, <1>15, <1>16
    DEF Next, WorkerStep

\* The empty table and the stopped workers are well typed.
LEMMA InitType ==
    ASSUME Init
    PROVE  TypeOK
  BY QueueAssumption
  DEF Init, TypeOK, JobTypes, WorkerTypes, EnvTypes, HoldsAJob,
      Jobs, Statuses, ClaimableStates, SettledStates, Errors, Labels

\* Every reachable state of the queue is well typed; in particular a worker
\* past its SELECT always holds a job.
THEOREM TypeCorrect == Spec => []TypeOK
  <1>1. Init => TypeOK
    BY InitType
  <1>2. TypeOK /\ [Next]_vars => TypeOK'
    BY JobTypesStep, WorkerTypesStep, EnvTypesStep, HoldsAJobStep DEF TypeOK
  <1> QED
    BY <1>1, <1>2, PTL DEF Spec
-----------------------------------------------------------------------------
(* Counting the workers that hold a job.                                   *)

\* Finitely many workers hold a job, before and after a step.
LEMMA HoldersFinite ==
    ASSUME NEW j \in Jobs
    PROVE  /\ IsFiniteSet(Holders(j)) /\ Cardinality(Holders(j)) \in Nat
           /\ Cardinality(Holders(j)') \in Nat
  <1>1. Holders(j) \subseteq Workers /\ Holders(j)' \subseteq Workers
    BY DEF Holders
  <1> QED
    BY <1>1, QueueAssumption, FS_Subset, FS_CardinalityType

\* A step of w that does not leave it reviewing takes away w's claim, if any.
LEMMA Release ==
    ASSUME TypeOK, NEW w \in Workers, NEW j \in Jobs,
           pc'[w] # "review",
           \A v \in Workers \ {w} : pc'[v] = pc[v] /\ held'[v] = held[v]
    PROVE  Cardinality(Holders(j)') =
             IF pc[w] = "review" /\ held[w] = j
             THEN Cardinality(Holders(j)) - 1 ELSE Cardinality(Holders(j))
  <1>1. Holders(j)' = Holders(j) \ {w}
    BY DEF Holders
  <1>2. w \in Holders(j) <=> pc[w] = "review" /\ held[w] = j
    BY DEF Holders
  <1> QED
    BY <1>1, <1>2, HoldersFinite, FS_RemoveElement

\* A claim adds one holder to the claimed job and to no other.
LEMMA Take ==
    ASSUME TypeOK, NEW w \in Workers, NEW j \in Jobs, Claim(w)
    PROVE  Cardinality(Holders(j)') =
             IF held[w] = j
             THEN Cardinality(Holders(j)) + 1 ELSE Cardinality(Holders(j))
  <1>1. w \notin Holders(j)
    BY DEF Holders, Claim
  <1>2. CASE held[w] = j
    <2>1. Holders(j)' = Holders(j) \union {w}
      BY <1>2 DEF Holders, Claim, TypeOK, WorkerTypes
    <2> QED
      BY <1>1, <1>2, <2>1, HoldersFinite, FS_AddElement
  <1>3. CASE held[w] # j
    <2>1. Holders(j)' = Holders(j)
      BY <1>3 DEF Holders, Claim, TypeOK, WorkerTypes
    <2> QED
      BY <1>3, <2>1
  <1> QED
    BY <1>2, <1>3

-----------------------------------------------------------------------------
(* The token invariant.                                                    *)

\* The worker's copy of the job it holds never runs ahead of the row.
CopyNotAhead ==
    \A w \in Workers :
        pc[w] \in {"selected", "review"} => heldAttempts[w] <= attempts[held[w]]

TokenInv == ClaimTokens /\ DecisionTokens

\* The tokens of a job that its recoveries have not paid for.
ClaimBalance(j) ==
    Cardinality(Holders(j)) + Ticket(status[j] # "running") - recoveries[j]
DecisionBalance(j) ==
    decisions[j] + Cardinality(Holders(j)) + Ticket(Undecided(j)) - recoveries[j]

\* A step that changes neither pc nor held has the same holders.
LEMMA SameHolders ==
    ASSUME NEW j \in Jobs, UNCHANGED <<pc, held>>
    PROVE  Holders(j)' = Holders(j)
  BY DEF Holders

\* The token invariant is an upper bound on the balances.
LEMMA TokensAreBalances ==
    ASSUME TypeOK
    PROVE  TokenInv <=> \A j \in Jobs : ClaimBalance(j) <= 1 /\ DecisionBalance(j) <= 1
  <1>1. ASSUME NEW j \in Jobs
        PROVE  /\ recoveries[j] \in Nat /\ decisions[j] \in Nat
               /\ Cardinality(Holders(j)) \in Nat
               /\ Ticket(status[j] # "running") \in Nat /\ Ticket(Undecided(j)) \in Nat
    BY HoldersFinite DEF TypeOK, JobTypes, Ticket
  <1> QED
    BY <1>1 DEF TokenInv, ClaimTokens, DecisionTokens, ClaimBalance, DecisionBalance

\* The numbers a balance is made of, before and after a step.
LEMMA BalanceTypes ==
    ASSUME TypeOK, TypeOK', NEW j \in Jobs
    PROVE  /\ recoveries[j] \in Nat /\ decisions[j] \in Nat
           /\ recoveries'[j] \in Nat /\ decisions'[j] \in Nat
           /\ Cardinality(Holders(j)) \in Nat /\ Cardinality(Holders(j)') \in Nat
           /\ Ticket(status[j] # "running") \in {0, 1} /\ Ticket(Undecided(j)) \in {0, 1}
           /\ Ticket(status'[j] # "running") \in {0, 1} /\ Ticket(Undecided(j)') \in {0, 1}
  BY HoldersFinite DEF TypeOK, JobTypes, Ticket

\* No step raises a balance: this is where the guards of the UPDATEs matter.
LEMMA NoMinting ==
    ASSUME TypeOK, TypeOK', [Next]_vars, NEW j \in Jobs
    PROVE  /\ ClaimBalance(j)' <= ClaimBalance(j)
           /\ DecisionBalance(j)' <= DecisionBalance(j)
  <1> DEFINE Goal == /\ ClaimBalance(j)' <= ClaimBalance(j)
                     /\ DecisionBalance(j)' <= DecisionBalance(j)
  <1> USE BalanceTypes
  <1>1. ASSUME Holders(j)' = Holders(j), recoveries'[j] = recoveries[j],
               decisions'[j] = decisions[j],
               status'[j] = status[j] \/ (status[j] = "absent" /\ status'[j] = "pending")
        PROVE  Goal
    <2>1. Ticket(status'[j] # "running") = Ticket(status[j] # "running")
      BY <1>1 DEF Ticket
    <2>2. Ticket(Undecided(j)') = Ticket(Undecided(j))
      BY <1>1 DEF Ticket, Undecided, ClaimableStates
    <2> QED
      BY <1>1, <2>1, <2>2 DEF ClaimBalance, DecisionBalance
  <1>2. ASSUME NEW w \in Workers, UNCHANGED jobVars, pc'[w] # "review",
               \A v \in Workers \ {w} : pc'[v] = pc[v] /\ held'[v] = held[v]
        PROVE  Goal
    <2>1. Cardinality(Holders(j)') <= Cardinality(Holders(j))
      BY <1>2, Release
    <2>2. /\ Ticket(status'[j] # "running") = Ticket(status[j] # "running")
          /\ Ticket(Undecided(j)') = Ticket(Undecided(j))
      BY <1>2 DEF jobVars, Undecided
    <2> QED
      BY <1>2, <2>1, <2>2 DEF ClaimBalance, DecisionBalance, jobVars
  <1>3. ASSUME NEW i \in Jobs, Submit(i)
        PROVE  Goal
    BY <1>1, <1>3, SameHolders DEF Submit, workerVars, TypeOK, JobTypes
  <1>4. ASSUME NEW w \in Workers, StartWorker(w)
        PROVE  Goal
    <2>1. Holders(j)' = Holders(j)
      BY <1>4 DEF Holders, StartWorker, TypeOK, WorkerTypes
    <2>2. CASE ~Abandoned(j)
      BY <1>1, <1>4, <2>1, <2>2 DEF StartWorker, TypeOK, JobTypes
    <2>3. CASE Abandoned(j)
      BY <1>4, <2>1, <2>3 DEF StartWorker, ClaimBalance, DecisionBalance
    <2> QED
      BY <2>2, <2>3
  <1>5. ASSUME NEW w \in Workers,
               \/ ProbeOk(w) \/ ProbeFails(w) \/ SkipProbe(w) \/ NothingDue(w)
               \/ SelectCandidate(w) \/ LoseClaim(w) \/ EndIteration(w)
        PROVE  Goal
    BY <1>2, <1>5 DEF ProbeOk, ProbeFails, SkipProbe, NothingDue, SelectCandidate,
                      LoseClaim, EndIteration, TypeOK, WorkerTypes
  <1>6. ASSUME NEW w \in Workers, StopWorker(w) \/ Crash(w)
        PROVE  Goal
    BY <1>2, <1>6 DEF StopWorker, Crash, Forget, TypeOK, WorkerTypes
  <1>7. ASSUME NEW w \in Workers, Claim(w)
        PROVE  Goal
    <2>1. recoveries'[j] = recoveries[j] /\ decisions'[j] = decisions[j]
      BY <1>7 DEF Claim
    <2>2. CASE held[w] # j
      <3>1. Cardinality(Holders(j)') = Cardinality(Holders(j))
        BY <1>7, <2>2, Take
      <3>2. status'[j] = status[j]
        BY <1>7, <2>2 DEF Claim, TypeOK, JobTypes
      <3> QED
        BY <2>1, <3>1, <3>2 DEF ClaimBalance, DecisionBalance, Undecided
    <2>3. CASE held[w] = j
      <3>1. Cardinality(Holders(j)') = Cardinality(Holders(j)) + 1
        BY <1>7, <2>3, Take
      <3>2. Ticket(status'[j] # "running") = 0 /\ Ticket(Undecided(j)') = 0
        BY <1>7, <2>3 DEF Claim, TypeOK, JobTypes, Ticket, Undecided, ClaimableStates
      <3>3. Ticket(status[j] # "running") = 1 /\ Ticket(Undecided(j)) = 1
        BY <1>7, <2>3 DEF Claim, StillClaimable, Ticket, Undecided, ClaimableStates
      <3> QED
        BY <2>1, <3>1, <3>2, <3>3 DEF ClaimBalance, DecisionBalance
    <2> QED
      BY <2>2, <2>3
  <1>8. ASSUME NEW w \in Workers, NEW e \in Errors \ {"none"}, CompleteJob(w) \/ RetryJob(w, e)
        PROVE  Goal
    <2>1. Cardinality(Holders(j)') =
            IF held[w] = j THEN Cardinality(Holders(j)) - 1 ELSE Cardinality(Holders(j))
      <3>1. /\ pc[w] = "review" /\ pc'[w] # "review"
            /\ \A v \in Workers \ {w} : pc'[v] = pc[v] /\ held'[v] = held[v]
        BY <1>8 DEF CompleteJob, RetryJob, TypeOK, WorkerTypes
      <3> QED
        BY <3>1, Release
    <2>2. recoveries'[j] = recoveries[j]
      BY <1>8 DEF CompleteJob, RetryJob
    <2>3. CASE held[w] # j
      <3>1. status'[j] = status[j] /\ decisions'[j] = decisions[j]
        BY <1>8, <2>3 DEF CompleteJob, RetryJob, TypeOK, JobTypes
      <3> QED
        BY <2>1, <2>2, <2>3, <3>1 DEF ClaimBalance, DecisionBalance, Undecided
    <2>4. CASE held[w] = j
      <3>1. decisions'[j] + Ticket(Undecided(j)') <= decisions[j] + 1
        <4>1. CASE CompleteJob(w)
          <5>1. decisions'[j] = decisions[j] + 1
            BY <2>4, <4>1 DEF CompleteJob, TypeOK, JobTypes
          <5>2. Ticket(Undecided(j)') = 0
            BY <2>4, <4>1 DEF CompleteJob, TypeOK, JobTypes, Ticket, Undecided, ClaimableStates
          <5> QED
            BY <5>1, <5>2
        <4>2. CASE RetryJob(w, e)
          BY <2>4, <4>2 DEF RetryJob
        <4> QED
          BY <1>8, <4>1, <4>2
      <3> QED
        BY <2>1, <2>2, <2>4, <3>1 DEF ClaimBalance, DecisionBalance
    <2> QED
      BY <2>3, <2>4
  <1>9. CASE PiGoesDown \/ PiComesUp
    BY <1>1, <1>9, SameHolders DEF PiGoesDown, PiComesUp, jobVars, workerVars
  <1>10. CASE Tick
    BY <1>1, <1>10, SameHolders DEF Tick
  <1>11. CASE UNCHANGED vars
    BY <1>1, <1>11, SameHolders DEF vars, jobVars, workerVars
  <1>12. Errors \ {"none"} # {}
    BY DEF Errors
  <1> QED
    BY <1>3, <1>4, <1>5, <1>6, <1>7, <1>8, <1>9, <1>10, <1>11, <1>12 DEF Next, WorkerStep

\* Initially each job owns the one token of the row it may become.
LEMMA InitTokens ==
    ASSUME Init
    PROVE  TokenInv
  <1> SUFFICES ASSUME NEW j \in Jobs
               PROVE  ClaimBalance(j) <= 1 /\ DecisionBalance(j) <= 1
    BY TokensAreBalances, InitType
  <1>1. Cardinality(Holders(j)) = 0
    <2>1. Holders(j) = {}
      BY DEF Init, Holders
    <2> QED
      BY <2>1, FS_EmptySet
  <1> QED
    BY <1>1 DEF Init, ClaimBalance, DecisionBalance, Ticket

\* The token invariant is preserved, because no step raises a balance.
LEMMA TokenStep ==
    ASSUME TypeOK, TypeOK', TokenInv, [Next]_vars
    PROVE  TokenInv'
  <1>1. \A j \in Jobs : ClaimBalance(j) <= 1 /\ DecisionBalance(j) <= 1
    BY TokensAreBalances
  <1>2. ASSUME NEW j \in Jobs
        PROVE  ClaimBalance(j)' <= 1 /\ DecisionBalance(j)' <= 1
    <2>1. /\ ClaimBalance(j) \in Int /\ DecisionBalance(j) \in Int
          /\ ClaimBalance(j)' \in Int /\ DecisionBalance(j)' \in Int
      BY BalanceTypes DEF ClaimBalance, DecisionBalance
    <2> QED
      BY <1>1, <2>1, NoMinting
  <1>3. (TokenInv <=> \A j \in Jobs : ClaimBalance(j) <= 1 /\ DecisionBalance(j) <= 1)'
    BY TokensAreBalances, PTL
  <1> QED
    BY <1>2, <1>3

\* At most one worker holds a job per recovery-and-one, and none while it is
\* queued or settled without a recovery: claim_job's guarded UPDATE is enough,
\* for any number of workers.
THEOREM ClaimsAreExclusive == Spec => []ClaimTokens
  <1>1. Init => TokenInv
    BY InitTokens
  <1>2. TypeOK /\ TypeOK' /\ TokenInv /\ [Next]_vars => TokenInv'
    BY TokenStep
  <1>3. TokenInv => ClaimTokens
    BY DEF TokenInv
  <1> QED
    BY <1>1, <1>2, <1>3, TypeCorrect, PTL DEF Spec

\* A job is decided at most once, and once more per recovery: complete_job
\* writes by id alone, but only a claim leads to it.
THEOREM DecisionsAreBounded == Spec => []DecisionTokens
  <1>1. Init => TokenInv
    BY InitTokens
  <1>2. TypeOK /\ TypeOK' /\ TokenInv /\ [Next]_vars => TokenInv'
    BY TokenStep
  <1>3. TokenInv => DecisionTokens
    BY DEF TokenInv
  <1> QED
    BY <1>1, <1>2, <1>3, TypeCorrect, PTL DEF Spec

-----------------------------------------------------------------------------
(* Failing and settling.                                                   *)

AttemptsInv == CopyNotAhead /\ FailedIsExhausted

\* Attempts of a row never decrease, and a worker's copy is only incremented
\* together with the row.
LEMMA AttemptsStep ==
    ASSUME TypeOK, AttemptsInv, [Next]_vars
    PROVE  AttemptsInv'
  <1> USE DEF TypeOK, AttemptsInv
  <1>1. ASSUME UNCHANGED <<status, attempts>>, NEW w \in Workers,
               pc'[w] \notin {"selected", "review"},
               \A v \in Workers \ {w} : /\ pc'[v] = pc[v] /\ held'[v] = held[v]
                                        /\ heldAttempts'[v] = heldAttempts[v]
        PROVE  AttemptsInv'
    BY <1>1 DEF CopyNotAhead, FailedIsExhausted
  <1>2. ASSUME UNCHANGED <<attempts, pc, held, heldAttempts>>,
               \A j \in Jobs : status'[j] = "failed" => status[j] = "failed"
        PROVE  AttemptsInv'
    BY <1>2 DEF CopyNotAhead, FailedIsExhausted
  <1>3. ASSUME NEW j \in Jobs, Submit(j)
        PROVE  AttemptsInv'
    BY <1>2, <1>3 DEF Submit, workerVars, JobTypes
  <1>4. ASSUME NEW w \in Workers, StartWorker(w)
        PROVE  AttemptsInv'
    <2>1. CopyNotAhead'
      BY <1>4 DEF StartWorker, CopyNotAhead, WorkerTypes
    <2>2. FailedIsExhausted'
      BY <1>4 DEF StartWorker, FailedIsExhausted
    <2> QED
      BY <2>1, <2>2
  <1>5. ASSUME NEW w \in Workers,
               \/ ProbeOk(w) \/ ProbeFails(w) \/ SkipProbe(w) \/ NothingDue(w)
               \/ LoseClaim(w) \/ EndIteration(w)
        PROVE  AttemptsInv'
    BY <1>1, <1>5 DEF ProbeOk, ProbeFails, SkipProbe, NothingDue, LoseClaim,
                      EndIteration, WorkerTypes, jobVars
  <1>6. ASSUME NEW w \in Workers, SelectCandidate(w)
        PROVE  AttemptsInv'
    <2>1. CopyNotAhead'
      BY <1>6 DEF SelectCandidate, DueJobs, CopyNotAhead, WorkerTypes, JobTypes, jobVars
    <2>2. FailedIsExhausted'
      BY <1>6 DEF SelectCandidate, FailedIsExhausted, jobVars
    <2> QED
      BY <2>1, <2>2
  <1>7. ASSUME NEW w \in Workers, Claim(w)
        PROVE  AttemptsInv'
    <2>1. \A j \in Jobs : attempts[j] <= attempts'[j]
      BY <1>7 DEF Claim, JobTypes
    <2>2. CopyNotAhead'
      <3> SUFFICES ASSUME NEW v \in Workers, pc'[v] \in {"selected", "review"}
                   PROVE  heldAttempts'[v] <= attempts'[held[v]]
        BY <1>7 DEF CopyNotAhead, Claim
      <3>1. CASE v = w
        BY <1>7, <3>1 DEF Claim, CopyNotAhead, WorkerTypes, JobTypes, HoldsAJob
      <3>2. CASE v # w
        <4>1. pc[v] \in {"selected", "review"} /\ heldAttempts'[v] = heldAttempts[v]
          BY <1>7, <3>2 DEF Claim, WorkerTypes
        <4>2. heldAttempts[v] <= attempts[held[v]] /\ held[v] \in Jobs
          BY <4>1 DEF CopyNotAhead, HoldsAJob
        <4> QED
          BY <1>7, <2>1, <4>1, <4>2 DEF Claim, WorkerTypes, JobTypes
      <3> QED
        BY <3>1, <3>2
    <2>3. FailedIsExhausted'
      BY <1>7, <2>1, QueueAssumption DEF Claim, FailedIsExhausted, JobTypes
    <2> QED
      BY <2>2, <2>3
  <1>8. ASSUME NEW w \in Workers, CompleteJob(w)
        PROVE  AttemptsInv'
    <2>1. CopyNotAhead'
      BY <1>8 DEF CompleteJob, CopyNotAhead, WorkerTypes
    <2>2. FailedIsExhausted'
      BY <1>8 DEF CompleteJob, FailedIsExhausted, JobTypes
    <2> QED
      BY <2>1, <2>2
  <1>9. ASSUME NEW w \in Workers, NEW e \in Errors \ {"none"}, RetryJob(w, e)
        PROVE  AttemptsInv'
    <2>1. CopyNotAhead'
      BY <1>9 DEF RetryJob, CopyNotAhead, WorkerTypes
    <2>2. FailedIsExhausted'
      <3>1. heldAttempts[w] <= attempts[held[w]] /\ held[w] \in Jobs
        BY <1>9 DEF RetryJob, CopyNotAhead, HoldsAJob
      <3>2. Exhausted(heldAttempts[w]) => attempts[held[w]] >= MaxAttempts
        BY <3>1, QueueAssumption DEF Exhausted, JobTypes, WorkerTypes
      <3> QED
        BY <1>9, <3>1, <3>2 DEF RetryJob, FailedIsExhausted, JobTypes
    <2> QED
      BY <2>1, <2>2
  <1>10. ASSUME NEW w \in Workers, StopWorker(w) \/ Crash(w)
         PROVE  AttemptsInv'
    BY <1>1, <1>10 DEF StopWorker, Crash, Forget, WorkerTypes, jobVars
  <1>11. CASE PiGoesDown \/ PiComesUp
    BY <1>2, <1>11 DEF PiGoesDown, PiComesUp, jobVars, workerVars
  <1>12. CASE Tick
    BY <1>2, <1>12 DEF Tick
  <1>13. CASE UNCHANGED vars
    BY <1>2, <1>13 DEF vars, jobVars, workerVars
  <1> QED
    BY <1>3, <1>4, <1>5, <1>6, <1>7, <1>8, <1>9, <1>10, <1>11, <1>12, <1>13
    DEF Next, WorkerStep

\* retry_job marks a job failed only after max_attempts claims of it, however
\* stale the copy it compares.
THEOREM FailureIsExhaustion == Spec => []FailedIsExhausted
  <1>1. Init => AttemptsInv
    BY DEF Init, AttemptsInv, CopyNotAhead, FailedIsExhausted
  <1>2. TypeOK /\ AttemptsInv /\ [Next]_vars => AttemptsInv'
    BY AttemptsStep
  <1>3. AttemptsInv => FailedIsExhausted
    BY DEF AttemptsInv
  <1> QED
    BY <1>1, <1>2, <1>3, TypeCorrect, PTL DEF Spec

\* Without a recovery no write by id reaches a settled job: its status stays.
THEOREM SettledForGood == Spec => SettledIsFinal
  <1>1. ASSUME TypeOK, ClaimTokens, [Next]_vars, NEW j \in Jobs,
               status[j] \in SettledStates, recoveries[j] = 0
        PROVE  status'[j] = status[j]
    <2>1. Cardinality(Holders(j)) = 0
      <3>1. Ticket(status[j] # "running") = 1
        BY <1>1 DEF SettledStates, Ticket
      <3>2. Cardinality(Holders(j)) + 1 <= 1 + 0
        BY <1>1, <3>1 DEF ClaimTokens
      <3> QED
        BY <3>2, HoldersFinite
    <2>2. Holders(j) = {}
      BY <2>1, HoldersFinite, FS_EmptySet
    <2>3. \A w \in Workers : pc[w] = "review" => held[w] # j
      BY <2>2 DEF Holders
    <2>4. ASSUME NEW w \in Workers, WorkerStep(w)
          PROVE  status'[j] = status[j]
      BY <1>1, <2>3, <2>4
      DEF WorkerStep, ProbeOk, ProbeFails, SkipProbe, NothingDue, SelectCandidate, Claim,
          StillClaimable, LoseClaim, CompleteJob, RetryJob, EndIteration, jobVars,
          TypeOK, JobTypes, SettledStates, ClaimableStates
    <2>5. ASSUME NEW w \in Workers, StartWorker(w) \/ StopWorker(w) \/ Crash(w)
          PROVE  status'[j] = status[j]
      BY <1>1, <2>5 DEF StartWorker, Abandoned, StopWorker, Crash, jobVars, SettledStates
    <2>6. ASSUME NEW i \in Jobs, Submit(i)
          PROVE  status'[j] = status[j]
      BY <1>1, <2>6 DEF Submit, TypeOK, JobTypes, SettledStates
    <2>7. CASE PiGoesDown \/ PiComesUp \/ Tick \/ UNCHANGED vars
      BY <2>7 DEF PiGoesDown, PiComesUp, Tick, vars, jobVars
    <2> QED
      BY <1>1, <2>4, <2>5, <2>6, <2>7 DEF Next
  <1>2. TypeOK /\ ClaimTokens /\ [Next]_vars =>
          [\A j \in Jobs :
             status[j] \in SettledStates /\ recoveries[j] = 0 => status'[j] = status[j]]_vars
    BY <1>1
  <1> QED
    BY <1>2, TypeCorrect, ClaimsAreExclusive, PTL DEF Spec, SettledIsFinal

-----------------------------------------------------------------------------
(* Claims before their time.                                               *)

\* Without a recovery, a selected job that is no longer due was claimed since
\* the SELECT, and every claim is counted.
OvertakenInv ==
    \A w \in Workers :
        pc[w] = "selected" /\ recoveries[held[w]] = 0
            /\ (status[held[w]] \notin ClaimableStates \/ wait[held[w]] > 0)
        => heldAttempts[w] < attempts[held[w]]

\* Without a recovery a job in a worker's hands is running.
LEMMA HeldIsRunning ==
    ASSUME TypeOK, ClaimTokens, NEW w \in Workers, pc[w] = "review", recoveries[held[w]] = 0
    PROVE  status[held[w]] = "running"
  <1>1. held[w] \in Jobs
    BY DEF TypeOK, HoldsAJob
  <1>2. w \in Holders(held[w])
    BY DEF Holders
  <1>3. Cardinality(Holders(held[w])) # 0 /\ Cardinality(Holders(held[w])) \in Nat
    BY <1>1, <1>2, HoldersFinite, FS_EmptySet
  <1>4. Cardinality(Holders(held[w])) + Ticket(status[held[w]] # "running") <= 1 + 0
    BY <1>1 DEF ClaimTokens
  <1>5. status[held[w]] # "running" => Ticket(status[held[w]] # "running") = 1
    BY DEF Ticket
  <1> QED
    BY <1>3, <1>4, <1>5

\* A worker that reports on a job postpones or settles it only after its own
\* claim, which everyone who selected the job before it has missed.
LEMMA OvertakenStep ==
    ASSUME TypeOK, TypeOK', ClaimTokens, AttemptsInv, OvertakenInv, [Next]_vars
    PROVE  OvertakenInv'
  <1> SUFFICES ASSUME NEW v \in Workers, pc'[v] = "selected", recoveries'[held'[v]] = 0,
                      status'[held'[v]] \notin ClaimableStates \/ wait'[held'[v]] > 0
               PROVE  heldAttempts'[v] < attempts'[held'[v]]
    BY DEF OvertakenInv
  <1>t. held'[v] \in Jobs
    BY DEF TypeOK, HoldsAJob
  <1>1. ASSUME UNCHANGED <<pc, held, heldAttempts, attempts, recoveries>>,
               status'[held[v]] \in ClaimableStates \/ status'[held[v]] = status[held[v]],
               wait'[held[v]] > 0 => wait[held[v]] > 0 \/ status[held[v]] \notin ClaimableStates
        PROVE  heldAttempts'[v] < attempts'[held'[v]]
    BY <1>1 DEF OvertakenInv
  <1>2. ASSUME UNCHANGED jobVars,
               pc'[v] = pc[v], held'[v] = held[v], heldAttempts'[v] = heldAttempts[v]
        PROVE  heldAttempts'[v] < attempts'[held'[v]]
    BY <1>2 DEF OvertakenInv, jobVars
  <1>3. ASSUME NEW j \in Jobs, Submit(j)
        PROVE  heldAttempts'[v] < attempts'[held'[v]]
    BY <1>1, <1>3, <1>t DEF Submit, workerVars, TypeOK, JobTypes, ClaimableStates
  <1>4. ASSUME NEW w \in Workers, StartWorker(w)
        PROVE  heldAttempts'[v] < attempts'[held'[v]]
    <2>1. v # w /\ pc[v] = "selected" /\ UNCHANGED <<held, heldAttempts, attempts>>
      BY <1>4 DEF StartWorker, TypeOK, WorkerTypes
    <2>2. held[v] \in Jobs /\ recoveries[held[v]] \in Nat
      BY <1>t, <2>1 DEF TypeOK, JobTypes
    <2>3. ~Abandoned(held[v])
      BY <1>4, <2>1, <2>2 DEF StartWorker
    <2> QED
      BY <1>4, <2>1, <2>2, <2>3 DEF StartWorker, OvertakenInv
  <1>5. ASSUME NEW w \in Workers,
               \/ ProbeOk(w) \/ ProbeFails(w) \/ SkipProbe(w) \/ NothingDue(w)
               \/ LoseClaim(w) \/ EndIteration(w)
        PROVE  heldAttempts'[v] < attempts'[held'[v]]
    <2>1. v # w /\ UNCHANGED jobVars
      BY <1>5 DEF ProbeOk, ProbeFails, SkipProbe, NothingDue, LoseClaim, EndIteration,
                  TypeOK, WorkerTypes
    <2> QED
      BY <1>2, <1>5, <2>1 DEF ProbeOk, ProbeFails, SkipProbe, NothingDue, LoseClaim,
                              EndIteration, TypeOK, WorkerTypes
  <1>6. ASSUME NEW w \in Workers, SelectCandidate(w)
        PROVE  heldAttempts'[v] < attempts'[held'[v]]
    <2>1. CASE v = w
      BY <1>6, <2>1 DEF SelectCandidate, DueJobs, TypeOK, WorkerTypes, jobVars
    <2>2. CASE v # w
      BY <1>2, <1>6, <2>2 DEF SelectCandidate, TypeOK, WorkerTypes
    <2> QED
      BY <2>1, <2>2
  <1>7. ASSUME NEW w \in Workers, Claim(w)
        PROVE  heldAttempts'[v] < attempts'[held'[v]]
    <2>1. v # w /\ pc[v] = "selected" /\ held'[v] = held[v] /\ heldAttempts'[v] = heldAttempts[v]
          /\ held[v] \in Jobs /\ held[w] \in Jobs
      BY <1>7, <1>t DEF Claim, TypeOK, WorkerTypes, HoldsAJob
    <2>2. heldAttempts[v] <= attempts[held[v]] /\ heldAttempts[v] \in Nat /\ attempts[held[v]] \in Nat
      BY <2>1 DEF AttemptsInv, CopyNotAhead, TypeOK, WorkerTypes, JobTypes
    <2>3. CASE held[v] = held[w]
      <3>1. attempts'[held[v]] = attempts[held[v]] + 1
        BY <1>7, <2>1, <2>3 DEF Claim, TypeOK, JobTypes
      <3> QED
        BY <2>1, <2>2, <3>1
    <2>4. CASE held[v] # held[w]
      <3>1. /\ status'[held[v]] = status[held[v]] /\ wait' = wait /\ recoveries' = recoveries
            /\ attempts'[held[v]] = attempts[held[v]]
        BY <1>7, <2>1, <2>4 DEF Claim, TypeOK, JobTypes
      <3> QED
        BY <2>1, <3>1 DEF OvertakenInv
    <2> QED
      BY <2>3, <2>4
  <1>8. ASSUME NEW w \in Workers, CompleteJob(w) \/ \E e \in Errors \ {"none"} : RetryJob(w, e)
        PROVE  heldAttempts'[v] < attempts'[held'[v]]
    <2>1. /\ pc[w] = "review" /\ held[w] \in Jobs /\ v # w /\ pc[v] = "selected"
          /\ held'[v] = held[v] /\ heldAttempts'[v] = heldAttempts[v]
          /\ UNCHANGED <<attempts, recoveries>>
      BY <1>8 DEF CompleteJob, RetryJob, TypeOK, WorkerTypes, HoldsAJob
    <2>2. CASE held[v] = held[w]
      <3>1. status[held[v]] = "running"
        BY <2>1, <2>2, HeldIsRunning
      <3> QED
        BY <2>1, <3>1 DEF OvertakenInv, ClaimableStates
    <2>3. CASE held[v] # held[w]
      <3>1. status'[held[v]] = status[held[v]] /\ wait'[held[v]] = wait[held[v]]
        BY <1>8, <2>1, <2>3, <1>t DEF CompleteJob, RetryJob, TypeOK, JobTypes
      <3> QED
        BY <2>1, <3>1 DEF OvertakenInv
    <2> QED
      BY <2>2, <2>3
  <1>10. ASSUME NEW w \in Workers, StopWorker(w) \/ Crash(w)
         PROVE  heldAttempts'[v] < attempts'[held'[v]]
    <2>1. v # w /\ UNCHANGED jobVars
      BY <1>10 DEF StopWorker, Crash, Forget, TypeOK, WorkerTypes
    <2> QED
      BY <1>2, <1>10, <2>1 DEF StopWorker, Crash, Forget, TypeOK, WorkerTypes
  <1>11. CASE PiGoesDown \/ PiComesUp
    BY <1>2, <1>11 DEF PiGoesDown, PiComesUp, workerVars
  <1>12. CASE Tick
    BY <1>12 DEF Tick
  <1>13. CASE UNCHANGED vars
    BY <1>2, <1>13 DEF vars, workerVars
  <1> QED
    BY <1>3, <1>4, <1>5, <1>6, <1>7, <1>8, <1>10, <1>11, <1>12, <1>13
    DEF Next, WorkerStep

\* For any number of workers, claim_job cuts a backoff short only in a race that
\* took another claim of the job between its two statements, or after a recovery.
THEOREM EarlyClaimsAreRaces == Spec => []EarlyClaimIsARace
  <1>1. Init => OvertakenInv /\ AttemptsInv
    BY DEF Init, OvertakenInv, AttemptsInv, CopyNotAhead, FailedIsExhausted
  <1>2. TypeOK /\ AttemptsInv /\ [Next]_vars => AttemptsInv'
    BY AttemptsStep
  <1>3. TypeOK /\ TypeOK' /\ ClaimTokens /\ AttemptsInv /\ OvertakenInv /\ [Next]_vars => OvertakenInv'
    BY OvertakenStep
  <1>4. TypeOK /\ OvertakenInv => EarlyClaimIsARace
    <2> SUFFICES ASSUME TypeOK, OvertakenInv, NEW w \in Workers, pc[w] = "selected",
                        wait[held[w]] > 0, ~(recoveries[held[w]] > 0)
                 PROVE  heldAttempts[w] < attempts[held[w]]
      BY DEF EarlyClaimIsARace
    <2>1. recoveries[held[w]] = 0
      BY DEF TypeOK, HoldsAJob, JobTypes
    <2> QED
      BY <2>1 DEF OvertakenInv
  <1> QED
    BY <1>1, <1>2, <1>3, <1>4, TypeCorrect, ClaimsAreExclusive, PTL DEF Spec

-----------------------------------------------------------------------------
(* One worker, as deployed: the queue implements ReviewPromise.            *)

OneWorker == \A v, w \in Workers : v = w

\* What the only worker knows about the job it holds is true of the row.
CopyIsExact ==
    \A w \in Workers :
        /\ pc[w] = "selected" => /\ status[held[w]] \in ClaimableStates
                                 /\ wait[held[w]] = 0
                                 /\ heldAttempts[w] = attempts[held[w]]
        /\ pc[w] = "review" => /\ status[held[w]] = "running"
                               /\ heldAttempts[w] = attempts[held[w]]

\* Nobody else writes the rows the only worker has read, except new ones.
LEMMA CopyStep ==
    ASSUME OneWorker, TypeOK, CopyIsExact, [Next]_vars
    PROVE  CopyIsExact'
  <1> USE DEF OneWorker, TypeOK
  <1>1. ASSUME NEW w \in Workers, pc'[w] \notin {"selected", "review"}
        PROVE  CopyIsExact'
    BY <1>1 DEF CopyIsExact
  <1>2. ASSUME NEW j \in Jobs, Submit(j)
        PROVE  CopyIsExact'
    BY <1>2 DEF Submit, CopyIsExact, workerVars, JobTypes, HoldsAJob, ClaimableStates
  <1>3. ASSUME NEW w \in Workers,
               \/ StartWorker(w) \/ ProbeOk(w) \/ ProbeFails(w) \/ SkipProbe(w)
               \/ NothingDue(w) \/ LoseClaim(w) \/ EndIteration(w) \/ CompleteJob(w)
               \/ StopWorker(w) \/ Crash(w)
        PROVE  CopyIsExact'
    <2>1. pc'[w] \notin {"selected", "review"}
      BY <1>3 DEF StartWorker, ProbeOk, ProbeFails, SkipProbe, NothingDue, LoseClaim,
                  EndIteration, CompleteJob, StopWorker, Crash, Forget, WorkerTypes
    <2> QED
      BY <1>1, <2>1
  <1>4. ASSUME NEW w \in Workers, NEW e \in Errors \ {"none"}, RetryJob(w, e)
        PROVE  CopyIsExact'
    <2>1. pc'[w] \notin {"selected", "review"}
      BY <1>4 DEF RetryJob, WorkerTypes
    <2> QED
      BY <1>1, <2>1
  <1>5. ASSUME NEW w \in Workers, SelectCandidate(w)
        PROVE  CopyIsExact'
    BY <1>5 DEF SelectCandidate, DueJobs, CopyIsExact, WorkerTypes, JobTypes, jobVars
  <1>6. ASSUME NEW w \in Workers, Claim(w)
        PROVE  CopyIsExact'
    BY <1>6 DEF Claim, CopyIsExact, WorkerTypes, JobTypes, HoldsAJob
  <1>7. CASE PiGoesDown \/ PiComesUp \/ UNCHANGED vars
    BY <1>7 DEF PiGoesDown, PiComesUp, vars, jobVars, workerVars, CopyIsExact
  <1>8. CASE Tick
    BY <1>8 DEF Tick, CopyIsExact
  <1> QED
    BY <1>2, <1>3, <1>4, <1>5, <1>6, <1>7, <1>8 DEF Next, WorkerStep

\* With one worker its copy of a job is exact whenever it holds one.
LEMMA CopyInvariant ==
    ASSUME OneWorker
    PROVE  Spec => []CopyIsExact
  <1>1. Init => CopyIsExact
    BY DEF Init, CopyIsExact
  <1>2. TypeOK /\ CopyIsExact /\ [Next]_vars => CopyIsExact'
    BY CopyStep
  <1> QED
    BY <1>1, <1>2, TypeCorrect, PTL DEF Spec

\* The refinement mapping, status by status.
LEMMA PhaseValues ==
    /\ PhaseOf("absent") = "none"
    /\ \A s \in ClaimableStates : PhaseOf(s) = "queued"
    /\ PhaseOf("running") = "working"
    /\ PhaseOf("succeeded") = "decided"
    /\ PhaseOf("failed") = "dead"
  BY DEF PhaseOf, ClaimableStates

\* Writing one row changes one job's phase.
LEMMA PhaseUpdate ==
    ASSUME TypeOK, NEW j \in Jobs, NEW s \in Statuses, NEW ph,
           status' = [status EXCEPT ![j] = s], PhaseOf(s) = ph
    PROVE  Phase' = [Phase EXCEPT ![j] = ph]
  BY DEF Phase, TypeOK, JobTypes

\* Every step of the one-worker queue is a step of the promise, or changes
\* nothing the promise speaks of.
LEMMA PromiseStep ==
    ASSUME TypeOK, CopyIsExact, [Next]_vars
    PROVE  [Promise!Next]_(Promise!vars)
  <1> USE PhaseValues
  <1>1. \A j \in Jobs : Phase[j] = PhaseOf(status[j])
    BY DEF Phase
  <1>2. /\ "retry" \in ClaimableStates /\ "pending" \in ClaimableStates
        /\ {"retry", "pending", "running", "succeeded", "failed"} \subseteq Statuses
    BY DEF ClaimableStates, SettledStates, Statuses
  <1>3. ASSUME UNCHANGED <<status, attempts, recoveries>>
        PROVE  UNCHANGED Promise!vars
    BY <1>3 DEF Promise!vars, Phase
  <1>4. ASSUME NEW j \in Jobs, Submit(j)
        PROVE  Promise!Accept(j)
    <2>1. Phase' = [Phase EXCEPT ![j] = "queued"]
      <3>1. status' = [status EXCEPT ![j] = "pending"]
        BY <1>4 DEF Submit
      <3> QED
        BY <1>2, <3>1, PhaseUpdate
    <2> QED
      BY <1>1, <1>4, <2>1 DEF Submit, Promise!Accept
  <1>5. ASSUME NEW w \in Workers, StartWorker(w)
        PROVE  \E S \in SUBSET Jobs : Promise!Requeue(S)
    <2> DEFINE S == {j \in Jobs : Abandoned(j)}
    <2>1. \A j \in S : Phase[j] = "working"
      BY <1>1 DEF Abandoned
    <2>2. Phase' = [j \in Jobs |-> IF j \in S THEN "queued" ELSE Phase[j]]
      BY <1>1, <1>2, <1>5 DEF StartWorker, Phase
    <2>3. Promise!Requeue(S)
      BY <1>5, <2>1, <2>2 DEF StartWorker, Promise!Requeue
    <2> QED
      BY <2>3
  <1>6. ASSUME NEW w \in Workers, Claim(w)
        PROVE  \E j \in Jobs : Promise!Begin(j)
    <2>1. held[w] \in Jobs
      BY <1>6 DEF Claim, TypeOK, HoldsAJob
    <2>2. Phase[held[w]] = "queued"
      BY <1>1, <1>6, <2>1 DEF Claim, StillClaimable
    <2>3. Phase' = [Phase EXCEPT ![held[w]] = "working"]
      <3>1. status' = [status EXCEPT ![held[w]] = "running"]
        BY <1>6 DEF Claim
      <3> QED
        BY <1>2, <2>1, <3>1, PhaseUpdate
    <2> QED
      BY <1>6, <2>1, <2>2, <2>3 DEF Claim, Promise!Begin
  <1>7. ASSUME NEW w \in Workers, CompleteJob(w)
        PROVE  \E j \in Jobs : Promise!Decide(j)
    <2>1. held[w] \in Jobs /\ status[held[w]] = "running"
      BY <1>7 DEF CompleteJob, CopyIsExact, TypeOK, HoldsAJob
    <2>2. Phase' = [Phase EXCEPT ![held[w]] = "decided"]
      <3>1. status' = [status EXCEPT ![held[w]] = "succeeded"]
        BY <1>7 DEF CompleteJob
      <3> QED
        BY <1>2, <2>1, <3>1, PhaseUpdate
    <2> QED
      BY <1>1, <1>7, <2>1, <2>2 DEF CompleteJob, Promise!Decide
  <1>8. ASSUME NEW w \in Workers, NEW e \in Errors \ {"none"}, RetryJob(w, e)
        PROVE  \E j \in Jobs : Promise!Postpone(j) \/ Promise!GiveUp(j)
    <2>1. /\ held[w] \in Jobs /\ status[held[w]] = "running"
          /\ heldAttempts[w] = attempts[held[w]] /\ attempts[held[w]] \in Nat
      BY <1>8 DEF RetryJob, CopyIsExact, TypeOK, HoldsAJob, JobTypes
    <2>2. CASE Exhausted(heldAttempts[w])
      <3>1. Phase' = [Phase EXCEPT ![held[w]] = "dead"]
        <4>1. status' = [status EXCEPT ![held[w]] = "failed"]
          BY <1>8, <2>2 DEF RetryJob
        <4> QED
          BY <1>2, <2>1, <4>1, PhaseUpdate
      <3> QED
        BY <1>1, <1>8, <2>1, <2>2, <3>1 DEF RetryJob, Exhausted, Promise!GiveUp
    <2>3. CASE ~Exhausted(heldAttempts[w])
      <3>1. attempts[held[w]] < MaxAttempts
        BY <2>1, <2>3, QueueAssumption DEF Exhausted
      <3>2. Phase' = [Phase EXCEPT ![held[w]] = "queued"]
        <4>1. status' = [status EXCEPT ![held[w]] = "retry"]
          BY <1>8, <2>3 DEF RetryJob
        <4> QED
          BY <1>2, <2>1, <4>1, PhaseUpdate
      <3> QED
        BY <1>1, <1>8, <2>1, <3>1, <3>2 DEF RetryJob, Promise!Postpone
    <2> QED
      BY <2>2, <2>3
  <1>9. ASSUME NEW w \in Workers,
               \/ ProbeOk(w) \/ ProbeFails(w) \/ SkipProbe(w) \/ NothingDue(w)
               \/ SelectCandidate(w) \/ LoseClaim(w) \/ EndIteration(w)
               \/ StopWorker(w) \/ Crash(w)
        PROVE  UNCHANGED Promise!vars
    BY <1>3, <1>9 DEF ProbeOk, ProbeFails, SkipProbe, NothingDue, SelectCandidate, LoseClaim,
                      EndIteration, StopWorker, Crash, jobVars
  <1>10. CASE PiGoesDown \/ PiComesUp \/ Tick \/ UNCHANGED vars
    BY <1>3, <1>10 DEF PiGoesDown, PiComesUp, Tick, vars, jobVars
  <1> QED
    BY <1>4, <1>5, <1>6, <1>7, <1>8, <1>9, <1>10 DEF Next, WorkerStep, Promise!Next

\* The queue with one worker implements ReviewPromise: one try at a time, a
\* settled job stays settled whatever crashed or was recovered, and a job is
\* given up only after max_attempts tries.
THEOREM QueueKeepsPromise ==
    ASSUME OneWorker
    PROVE  Spec => KeepsPromise
  <1>1. Init => Promise!Init
    BY PhaseValues DEF Init, Promise!Init, Phase
  <1>2. TypeOK /\ CopyIsExact /\ [Next]_vars => [Promise!Next]_(Promise!vars)
    BY PromiseStep
  <1> QED
    BY <1>1, <1>2, TypeCorrect, CopyInvariant, PTL DEF Spec, KeepsPromise, Promise!Spec

\* A job that can still be claimed has a try left.
BudgetInv ==
    \A j \in Jobs :
        /\ attempts[j] <= MaxAttempts + recoveries[j]
        /\ Undecided(j) => attempts[j] < MaxAttempts + recoveries[j]

\* With one worker only a recovery lets a job be claimed more than max_attempts
\* times, and each recovery only once more.
THEOREM AttemptsAreBudgeted ==
    ASSUME OneWorker
    PROVE  Spec => []AttemptsWithinBudget
  <1>1. Init => BudgetInv
    BY QueueAssumption DEF Init, BudgetInv, Undecided
  <1>2. ASSUME TypeOK, TypeOK', CopyIsExact, BudgetInv, [Next]_vars
        PROVE  BudgetInv'
    <2> SUFFICES ASSUME NEW j \in Jobs
                 PROVE  /\ attempts'[j] <= MaxAttempts + recoveries'[j]
                        /\ Undecided(j)' => attempts'[j] < MaxAttempts + recoveries'[j]
      BY DEF BudgetInv
    <2> DEFINE Goal == /\ attempts'[j] <= MaxAttempts + recoveries'[j]
                       /\ Undecided(j)' => attempts'[j] < MaxAttempts + recoveries'[j]
    <2>1. /\ attempts[j] <= MaxAttempts + recoveries[j]
          /\ Undecided(j) => attempts[j] < MaxAttempts + recoveries[j]
          /\ attempts[j] \in Nat /\ recoveries[j] \in Nat /\ MaxAttempts \in Nat
      BY <1>2, QueueAssumption DEF BudgetInv, TypeOK, JobTypes
    <2>2. ASSUME attempts'[j] = attempts[j], recoveries'[j] = recoveries[j],
                 Undecided(j)' => Undecided(j)
          PROVE  Goal
      BY <2>1, <2>2
    <2>3. ASSUME NEW i \in Jobs, Submit(i)
          PROVE  Goal
      BY <1>2, <2>2, <2>3 DEF Submit, Undecided, TypeOK, JobTypes
    <2>4. ASSUME NEW w \in Workers, StartWorker(w)
          PROVE  Goal
      <3>1. CASE Abandoned(j)
        BY <2>1, <2>4, <3>1 DEF StartWorker
      <3>2. CASE ~Abandoned(j)
        BY <2>2, <2>4, <3>2 DEF StartWorker, Undecided
      <3> QED
        BY <3>1, <3>2
    <2>5. ASSUME NEW w \in Workers, Claim(w)
          PROVE  Goal
      <3>1. CASE held[w] = j
        <4>1. attempts'[j] = attempts[j] + 1 /\ recoveries'[j] = recoveries[j]
          BY <1>2, <2>5, <3>1 DEF Claim, TypeOK, JobTypes
        <4>2. status'[j] = "running" /\ status[j] \in ClaimableStates
          BY <1>2, <2>5, <3>1 DEF Claim, StillClaimable, TypeOK, JobTypes
        <4> QED
          BY <2>1, <4>1, <4>2 DEF Undecided, ClaimableStates
      <3>2. CASE held[w] # j
        BY <1>2, <2>2, <2>5, <3>2 DEF Claim, Undecided, TypeOK, JobTypes
      <3> QED
        BY <3>1, <3>2
    <2>6. ASSUME NEW w \in Workers, CompleteJob(w)
          PROVE  Goal
      BY <1>2, <2>2, <2>6 DEF CompleteJob, Undecided, ClaimableStates, TypeOK, JobTypes
    <2>7. ASSUME NEW w \in Workers, NEW e \in Errors \ {"none"}, RetryJob(w, e)
          PROVE  Goal
      <3>1. CASE held[w] # j \/ Exhausted(heldAttempts[w])
        BY <1>2, <2>2, <2>7, <3>1
        DEF RetryJob, Undecided, ClaimableStates, TypeOK, JobTypes
      <3>2. CASE held[w] = j /\ ~Exhausted(heldAttempts[w])
        <4>1. attempts[j] < MaxAttempts
          BY <1>2, <2>1, <2>7, <3>2 DEF RetryJob, CopyIsExact, Exhausted
        <4> QED
          BY <2>1, <2>7, <4>1 DEF RetryJob
      <3> QED
        BY <3>1, <3>2
    <2>8. ASSUME NEW w \in Workers,
                 \/ ProbeOk(w) \/ ProbeFails(w) \/ SkipProbe(w) \/ NothingDue(w)
                 \/ SelectCandidate(w) \/ LoseClaim(w) \/ EndIteration(w)
                 \/ StopWorker(w) \/ Crash(w)
          PROVE  Goal
      BY <2>2, <2>8 DEF ProbeOk, ProbeFails, SkipProbe, NothingDue, SelectCandidate, LoseClaim,
                        EndIteration, StopWorker, Crash, jobVars, Undecided
    <2>9. CASE PiGoesDown \/ PiComesUp \/ Tick \/ UNCHANGED vars
      BY <2>2, <2>9 DEF PiGoesDown, PiComesUp, Tick, vars, jobVars, Undecided
    <2> QED
      BY <1>2, <2>3, <2>4, <2>5, <2>6, <2>7, <2>8, <2>9 DEF Next, WorkerStep
  <1>3. BudgetInv => AttemptsWithinBudget
    BY DEF BudgetInv, AttemptsWithinBudget
  <1> QED
    BY <1>1, <1>2, <1>3, TypeCorrect, CopyInvariant, PTL DEF Spec
=============================================================================
