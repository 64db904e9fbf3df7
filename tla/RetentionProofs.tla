-------------------------- MODULE RetentionProofs --------------------------
(***************************************************************************)
(* Proofs about Retention for every number of rows, set of finding keys,   *)
(* retention periods, length of a day and of the worker's iterations.      *)
(*                                                                         *)
(* Nothing is kept two dates too long because the time from one purge to   *)
(* the next, bounded through next_purge, is too short for three midnights. *)
(*                                                                         *)
(* A finding goes with the decision it names.  That no newer decision is   *)
(* left then is a fact about time: the newest was settled last, so that    *)
(* nothing of its key is younger than it, and one purge takes them all.    *)
(***************************************************************************)
EXTENDS Retention, TLAPS, FiniteSetTheorems

-----------------------------------------------------------------------------
(* The inductive invariant.                                                *)

\* TypeOK in parts: numbers and Booleans are for different provers.
TableTypes ==
    /\ rows \in [Tables -> SUBSET Ids]
    /\ closed \in [Tables -> SUBSET Ids]
    /\ \A t \in Tables : closed[t] \subseteq rows[t]
    /\ age \in [Tables -> [Ids -> Nat]]
    /\ \A t \in Tables, n \in Ids : age[t][n] <= Oldest(t)

FindingTypes ==
    /\ key \in [Ids -> Keys \union {"none"}]
    /\ finding \in [Keys -> Ids \union {0}]
    /\ settled \in [Ids -> 0..MaxRows]
    /\ settledAt \in [Ids -> 0..Hours - 1]

LoopTypes ==
    /\ hour \in 0..Hours - 1
    /\ pc \in DOMAIN Longest
    /\ left \in 0..Longest[pc]
    /\ purgeIn \in -Hours..Hours
    /\ restarts \in 0..MaxRestarts

FlagTypes ==
    /\ due \in BOOLEAN
    /\ warm \in BOOLEAN
    /\ pc = "down" => ~due /\ ~warm
    /\ pc = "resting" => ~due

\* How far next_purge may lie in the past: an iteration that does not purge
\* began before it; one that does set it anew.  The first one does.
ScheduleInv ==
    /\ pc = "resting" /\ warm => purgeIn > left - MaxWork - MaxRest
    /\ pc = "resting" /\ ~warm => purgeIn = 0 /\ left = 0
    /\ pc = "working" /\ ~due => warm /\ purgeIn > left - MaxWork
    /\ pc = "working" /\ due => purgeIn = Hours - MaxWork + left

\* At least the time since the last purge.
Elapsed == IF due THEN 2 * Hours - left ELSE Hours - purgeIn

\* No date passed without its midnight: a row that is overdue became so since
\* the last purge.
DateInv(t, n) ==
    /\ age[t][n] >= Retain[t] => Elapsed > hour
    /\ age[t][n] > Retain[t] => Elapsed > hour + Hours
    /\ age[t][n] <= Retain[t] + 1

SweptInv == warm => \A t \in Tables : \A n \in closed[t] : DateInv(t, n)

Settled == {n \in Ids : settled[n] > 0}

\* Jobs are settled one after the other, each once, and only then decided.
RankInv ==
    /\ \A n \in Ids : settled[n] <= Cardinality(Settled)
    /\ \A n \in rows.jobs \ closed.jobs : settled[n] = 0 /\ key[n] = "none"
    /\ \A n \in Ids : key[n] # "none" => n \in closed.jobs

\* Who was settled later is not older.
AgeInv ==
    \A m, n \in closed.jobs : settled[m] <= settled[n] => age.jobs[n] <= age.jobs[m]

RetentionInv ==
    /\ TableTypes
    /\ FindingTypes
    /\ LoopTypes
    /\ FlagTypes
    /\ ScheduleInv
    /\ RankInv
    /\ AgeInv
    /\ SweptInv
    /\ FindingNamesNewest

-----------------------------------------------------------------------------
(* Operators.                                                              *)

\* The tables and their periods.
LEMMA Periods ==
    /\ Tables = {"jobs", "evidence", "audit", "installations", "outbox"}
    /\ \A t \in Tables : Retain[t] \in Nat \ {0} /\ Oldest(t) = Retain[t] + 2 /\ Oldest(t) \in Nat
    /\ Retain["jobs"] = JobDays /\ Retain["evidence"] = EvidenceDays
  <1>1. Tables = {"jobs", "evidence", "audit", "installations", "outbox"}
    BY DEF Tables, Retain
  <1>2. /\ Retain["jobs"] = JobDays /\ Retain["evidence"] = EvidenceDays /\ Retain["audit"] = AuditDays
        /\ Retain["installations"] = TeamsDays /\ Retain["outbox"] = AuditDays
    BY DEF Retain
  <1> QED
    BY <1>1, <1>2, RetentionAssumption DEF Oldest

\* The times of the loop.
LEMMA Times ==
    /\ Hours \in Nat \ {0} /\ MaxWork \in Nat /\ MaxRest \in Nat /\ MaxRestarts \in Nat
    /\ 2 * MaxWork + MaxRest <= Hours
    /\ DOMAIN Longest = {"down", "working", "resting"}
    /\ Longest["down"] = 0 /\ Longest["working"] = MaxWork /\ Longest["resting"] = MaxRest
  BY RetentionAssumption, IterationsAreShort DEF Longest

\* The ids are finitely many, so ranks are numbers, and an unsettled job leaves
\* room for one rank more.
LEMMA RoomForARank ==
    ASSUME FindingTypes
    PROVE  /\ Cardinality(Settled) \in Nat /\ SettledSoFar = Cardinality(Settled)
           /\ \A n \in Ids \ Settled : Cardinality(Settled) + 1 <= MaxRows
           /\ IsFiniteSet(Settled)
  <1>0. MaxRows \in Nat
    BY RetentionAssumption
  <1>1. IsFiniteSet(Ids) /\ Cardinality(Ids) = MaxRows
    BY <1>0, FS_Interval DEF Ids
  <1>2. IsFiniteSet(Settled) /\ Cardinality(Settled) \in Nat
    BY <1>1, FS_Subset, FS_CardinalityType DEF Settled
  <1>3. ASSUME NEW n \in Ids \ Settled
        PROVE  Cardinality(Settled) + 1 <= MaxRows
    <2>1. Settled \union {n} \subseteq Ids
      BY DEF Settled
    <2>2. IsFiniteSet(Settled \union {n}) /\ Cardinality(Settled \union {n}) = Cardinality(Settled) + 1
      BY <1>2, <1>3, FS_AddElement
    <2>3. Cardinality(Settled \union {n}) <= Cardinality(Ids)
      BY <1>1, <2>1, FS_Subset
    <2> QED
      BY <1>1, <2>2, <2>3
  <1> QED
    BY <1>2, <1>3 DEF SettledSoFar, Settled

\* What is known of the ranks after a job took the next one.
LEMMA NextRank ==
    ASSUME RetentionInv, NEW n \in Ids, Open(n),
           settled' = [settled EXCEPT ![n] = SettledSoFar + 1]
    PROVE  /\ settled' \in [Ids -> 0..MaxRows]
           /\ settled'[n] \in Nat
           /\ \A m \in Ids : m # n => settled'[m] = settled[m] /\ settled[m] < settled'[n]
           /\ \A m \in Ids : settled'[m] <= Cardinality(Settled')
  <1>1. settled[n] = 0 /\ n \in Ids \ Settled
    BY DEF RetentionInv, TableTypes, RankInv, Open, Settled
  <1>2. Cardinality(Settled) \in Nat /\ SettledSoFar = Cardinality(Settled) /\ IsFiniteSet(Settled)
    BY RoomForARank DEF RetentionInv
  <1>3. SettledSoFar + 1 \in 0..MaxRows /\ SettledSoFar + 1 > 0
    BY <1>1, <1>2, RoomForARank, RetentionAssumption DEF RetentionInv
  <1>4. settled' \in [Ids -> 0..MaxRows]
    BY <1>3 DEF RetentionInv, FindingTypes
  <1>5. settled'[n] = SettledSoFar + 1 /\ \A m \in Ids : m # n => settled'[m] = settled[m]
    BY DEF RetentionInv, FindingTypes
  <1>6. \A m \in Ids : settled[m] <= SettledSoFar /\ settled[m] \in Nat
    BY <1>2, RetentionAssumption DEF RetentionInv, RankInv, FindingTypes
  <1>7. Settled' = Settled \union {n}
    BY <1>1, <1>3, <1>5 DEF Settled
  <1>8. Cardinality(Settled') = SettledSoFar + 1
    BY <1>1, <1>2, <1>7, FS_AddElement
  <1> QED
    BY <1>2, <1>4, <1>5, <1>6, <1>8

-----------------------------------------------------------------------------
(* Parts that a step leaves alone.                                         *)

\* The decisions and findings.
LEMMA FindingsFrame ==
    ASSUME RetentionInv, UNCHANGED jobVars
    PROVE  /\ FindingTypes' /\ FindingNamesNewest'
           /\ Settled' = Settled
  BY DEF jobVars, RetentionInv, FindingTypes, FindingNamesNewest, IsNewest, Settled

\* The ranks, when no job opens, closes or is deleted.
LEMMA RanksFrame ==
    ASSUME RetentionInv, UNCHANGED <<key, settled>>, rows'.jobs = rows.jobs,
           closed'.jobs = closed.jobs
    PROVE  RankInv'
  <1>1. Settled' = Settled
    BY DEF Settled
  <1>2. Cardinality(Settled') = Cardinality(Settled)
    BY <1>1
  <1> QED
    BY <1>2 DEF RetentionInv, RankInv

\* The ages of the settled jobs.
LEMMA AgesFrame ==
    ASSUME RetentionInv, UNCHANGED settled, closed'.jobs = closed.jobs, age'.jobs = age.jobs
    PROVE  AgeInv'
  BY DEF RetentionInv, AgeInv

\* The worker's loop.
LEMMA LoopFrame ==
    ASSUME RetentionInv, UNCHANGED <<hour, loopVars>>
    PROVE  LoopTypes' /\ FlagTypes' /\ ScheduleInv'
  <1>1. LoopTypes' /\ ScheduleInv'
    BY DEF RetentionInv, LoopTypes, ScheduleInv, loopVars
  <1>2. FlagTypes'
    BY DEF RetentionInv, FlagTypes, loopVars
  <1> QED
    BY <1>1, <1>2

\* What is known of the dates survives a step that closes only rows whose period
\* starts with it.
LEMMA FreshRowsAreKept ==
    ASSUME RetentionInv, UNCHANGED <<hour, loopVars>>,
           \A t \in Tables : \A n \in closed'[t] :
               (n \in closed[t] /\ age'[t][n] = age[t][n]) \/ age'[t][n] = 0
    PROVE  SweptInv'
  <1> SUFFICES ASSUME warm, NEW t \in Tables, NEW n \in closed'[t]
               PROVE  DateInv(t, n)'
    BY DEF SweptInv, loopVars
  <1>1. CASE n \in closed[t] /\ age'[t][n] = age[t][n]
    BY <1>1 DEF RetentionInv, SweptInv, DateInv, Elapsed, loopVars
  <1>2. CASE age'[t][n] = 0
    BY <1>2, Periods DEF DateInv
  <1> QED
    BY <1>1, <1>2

-----------------------------------------------------------------------------
(* The writes.                                                             *)

\* Initially nothing is stored.
LEMMA InitInv == Init => RetentionInv
  <1> SUFFICES ASSUME Init PROVE RetentionInv
    OBVIOUS
  <1>1. TableTypes
    BY Periods DEF Init, TableTypes
  <1>2. FindingTypes
    BY RetentionAssumption, Times DEF Init, FindingTypes
  <1>a. FlagTypes
    BY DEF Init, FlagTypes
  <1>b. LoopTypes
    BY Times DEF Init, LoopTypes
  <1>3. LoopTypes /\ FlagTypes /\ ScheduleInv
    BY <1>a, <1>b DEF Init, ScheduleInv
  <1>4. RankInv
    <2>1. Cardinality(Settled) \in Nat
      BY <1>2, RoomForARank
    <2>2. rows["jobs"] = {} /\ \A n \in Ids : settled[n] = 0 /\ key[n] = "none"
      BY Periods DEF Init
    <2> QED
      BY <2>1, <2>2 DEF RankInv
  <1>5. \A t \in Tables : closed[t] = {}
    BY DEF Init
  <1>6. AgeInv /\ SweptInv
    BY <1>5, Periods DEF AgeInv, SweptInv
  <1>7. FindingNamesNewest
    BY RetentionAssumption DEF Init, FindingNamesNewest
  <1> QED
    BY <1>1, <1>2, <1>3, <1>4, <1>6, <1>7 DEF RetentionInv

\* A job of which nothing is stored was never decided.
LEMMA SubmitKeeps ==
    ASSUME RetentionInv, NEW n \in Ids, Submit(n)
    PROVE  RetentionInv'
  <1>1. TableTypes'
    <2>1. age' \in [Tables -> [Ids -> Nat]] /\ \A t \in Tables, m \in Ids : age'[t][m] <= Oldest(t)
      BY Periods DEF RetentionInv, TableTypes, Submit
    <2>a. /\ rows' = [rows EXCEPT !["jobs"] = rows["jobs"] \union {n}, !["audit"] = rows["audit"] \union {n}]
          /\ closed' = [closed EXCEPT !["audit"] = closed["audit"] \union {n}]
      BY DEF Submit
    <2>b. rows["jobs"] \union {n} \in SUBSET Ids /\ rows["audit"] \union {n} \in SUBSET Ids
          /\ closed["audit"] \union {n} \in SUBSET Ids
      BY Periods DEF RetentionInv, TableTypes
    <2>2. rows' \in [Tables -> SUBSET Ids] /\ closed' \in [Tables -> SUBSET Ids]
      BY <2>a, <2>b DEF RetentionInv, TableTypes
    <2>3. ASSUME NEW t \in Tables PROVE closed'[t] \subseteq rows'[t]
      BY Periods DEF RetentionInv, TableTypes, Submit
    <2> QED
      BY <2>1, <2>2, <2>3 DEF TableTypes
  <1>2. FindingTypes' /\ FindingNamesNewest' /\ Settled' = Settled
    BY FindingsFrame DEF Submit
  <1>3. LoopTypes' /\ FlagTypes' /\ ScheduleInv'
    BY LoopFrame DEF Submit
  <1>4. /\ rows'.jobs = rows.jobs \union {n} /\ closed'.jobs = closed.jobs
        /\ age'.jobs = age.jobs
    BY Periods DEF RetentionInv, TableTypes, Submit
  <1>5. RankInv'
    <2>1. n \notin closed.jobs
      BY Periods DEF RetentionInv, TableTypes, Submit
    <2>2. settled[n] = 0 /\ key[n] = "none"
      BY <2>1 DEF RetentionInv, RankInv, Submit
    <2>3. Cardinality(Settled') = Cardinality(Settled)
      BY <1>2
    <2> QED
      BY <1>4, <2>2, <2>3 DEF RetentionInv, RankInv, Submit, jobVars
  <1>6. AgeInv'
    BY <1>4, AgesFrame DEF Submit, jobVars
  <1>7. SweptInv'
    <2>1. \A t \in Tables : \A m \in closed'[t] :
              (m \in closed[t] /\ age'[t][m] = age[t][m]) \/ age'[t][m] = 0
      BY Periods DEF RetentionInv, TableTypes, Submit
    <2> QED
      BY <2>1, FreshRowsAreKept DEF Submit
  <1> QED
    BY <1>1, <1>2, <1>3, <1>5, <1>6, <1>7 DEF RetentionInv

\* The writes that settle no job.
LEMMA OtherWritesKeep ==
    ASSUME RetentionInv, NEW n \in Ids, SettleDelivery(n) \/ Install(n) \/ Deactivate(n)
    PROVE  RetentionInv'
  <1>0. UNCHANGED <<jobVars, hour, loopVars>>
    BY DEF SettleDelivery, Install, Deactivate
  <1>1. TableTypes'
    BY Periods DEF RetentionInv, TableTypes, SettleDelivery, Install, Deactivate
  <1>2. FindingTypes' /\ FindingNamesNewest'
    BY <1>0, FindingsFrame
  <1>3. LoopTypes' /\ FlagTypes' /\ ScheduleInv'
    BY <1>0, LoopFrame
  <1>4. rows'.jobs = rows.jobs /\ closed'.jobs = closed.jobs /\ age'.jobs = age.jobs
    BY Periods DEF RetentionInv, TableTypes, SettleDelivery, Install, Deactivate
  <1>5. RankInv' /\ AgeInv'
    BY <1>0, <1>4, RanksFrame, AgesFrame DEF jobVars
  <1>6. \A t \in Tables : \A m \in closed'[t] :
            (m \in closed[t] /\ age'[t][m] = age[t][m]) \/ age'[t][m] = 0
    BY Periods DEF RetentionInv, TableTypes, SettleDelivery, Install, Deactivate
  <1>7. SweptInv'
    BY <1>0, <1>6, FreshRowsAreKept
  <1> QED
    BY <1>1, <1>2, <1>3, <1>5, <1>7 DEF RetentionInv

\* A job settled now is the youngest.
LEMMA SettlingKeepsAges ==
    ASSUME RetentionInv, NEW n \in Ids, Open(n),
           settled' = [settled EXCEPT ![n] = SettledSoFar + 1],
           closed'.jobs = closed.jobs \union {n},
           age'.jobs = [age.jobs EXCEPT ![n] = 0]
    PROVE  AgeInv'
  <1>1. /\ settled'[n] \in Nat
        /\ \A m \in Ids : m # n => settled'[m] = settled[m] /\ settled[m] < settled'[n]
    BY NextRank
  <1>2. closed.jobs \subseteq Ids /\ n \notin closed.jobs
    BY Periods DEF RetentionInv, TableTypes, Open
  <1>3. age.jobs \in [Ids -> Nat] /\ settled \in [Ids -> 0..MaxRows]
    BY Periods DEF RetentionInv, TableTypes, FindingTypes
  <1>4. age'.jobs[n] = 0 /\ \A m \in Ids : m # n => age'.jobs[m] = age.jobs[m]
    BY <1>3
  <1>5. \A i \in Ids : age.jobs[i] \in Nat /\ settled[i] \in Nat
    BY <1>3, Periods, RetentionAssumption
  <1> SUFFICES ASSUME NEW l \in closed.jobs \union {n}, NEW m \in closed.jobs \union {n},
                      settled'[l] <= settled'[m]
               PROVE  age'.jobs[m] <= age'.jobs[l]
    BY DEF AgeInv
  <1>6. CASE m = n
    BY <1>2, <1>4, <1>5, <1>6
  <1>7. CASE m # n /\ l = n
    BY <1>1, <1>2, <1>5, <1>7
  <1>8. CASE m # n /\ l # n
    BY <1>1, <1>2, <1>4, <1>8 DEF RetentionInv, AgeInv
  <1> QED
    BY <1>6, <1>7, <1>8

\* The decision of a job just settled is the newest of its key.
LEMMA CompleteKeeps ==
    ASSUME RetentionInv, NEW n \in Ids, NEW k \in Keys, Complete(n, k)
    PROVE  RetentionInv'
  <1>0. Open(n) /\ settled' = [settled EXCEPT ![n] = SettledSoFar + 1]
    BY DEF Complete, Settle
  <1>a. /\ settled' \in [Ids -> 0..MaxRows]
        /\ settled'[n] \in Nat
        /\ \A m \in Ids : m # n => settled'[m] = settled[m] /\ settled[m] < settled'[n]
        /\ \A m \in Ids : settled'[m] <= Cardinality(Settled')
    BY <1>0, NextRank
  <1>1. TableTypes'
    <2>a. age' = [age EXCEPT !["jobs"] = [@ EXCEPT ![n] = 0], !["evidence"] = [@ EXCEPT ![n] = 0]]
      BY DEF Complete
    <2>1. age' \in [Tables -> [Ids -> Nat]] /\ \A t \in Tables, m \in Ids : age'[t][m] <= Oldest(t)
      BY <2>a, Periods DEF RetentionInv, TableTypes
    <2>q. PICK queued \in SUBSET {n} :
              rows' = [rows EXCEPT !.evidence = @ \union {n}, !.outbox = @ \union queued]
      BY DEF Complete
    <2>r. rows' \in [Tables -> SUBSET Ids]
      <3>1. /\ rows["evidence"] \union {n} \in SUBSET Ids
            /\ rows["outbox"] \union queued \in SUBSET Ids
        BY Periods DEF RetentionInv, TableTypes
      <3> QED
        BY <2>q, <3>1 DEF RetentionInv, TableTypes
    <2>c. /\ closed' = [closed EXCEPT !["jobs"] = closed["jobs"] \union {n},
                                     !["evidence"] = closed["evidence"] \union {n}]
          /\ closed["jobs"] \union {n} \in SUBSET Ids /\ closed["evidence"] \union {n} \in SUBSET Ids
      BY Periods DEF RetentionInv, TableTypes, Complete
    <2>2. rows' \in [Tables -> SUBSET Ids] /\ closed' \in [Tables -> SUBSET Ids]
      BY <2>r, <2>c DEF RetentionInv, TableTypes
    <2>3. ASSUME NEW t \in Tables PROVE closed'[t] \subseteq rows'[t]
      BY <2>q, Periods DEF RetentionInv, TableTypes, Complete, Open
    <2> QED
      BY <2>1, <2>2, <2>3 DEF TableTypes
  <1>s. settledAt' \in [Ids -> 0..Hours - 1]
    BY DEF RetentionInv, FindingTypes, LoopTypes, Complete, Settle
  <1>2. FindingTypes'
    BY <1>a, <1>s DEF RetentionInv, FindingTypes, Complete, NewestDecision
  <1>3. LoopTypes' /\ FlagTypes' /\ ScheduleInv'
    BY LoopFrame DEF Complete
  <1>4. /\ rows'.jobs = rows.jobs /\ closed'.jobs = closed.jobs \union {n}
        /\ age'.jobs = [age.jobs EXCEPT ![n] = 0]
    BY Periods DEF RetentionInv, TableTypes, Complete
  <1>5. key[n] = "none" /\ key'[n] = k /\ \A m \in Ids : m # n => key'[m] = key[m]
    BY DEF RetentionInv, FindingTypes, RankInv, Complete, Open
  <1>6. RankInv'
    <2>1. rows.jobs \subseteq Ids
      BY Periods DEF RetentionInv, TableTypes
    <2> QED
      BY <1>a, <1>4, <1>5, <2>1 DEF RetentionInv, RankInv
  <1>7. AgeInv'
    BY <1>0, <1>4, SettlingKeepsAges
  <1>8. SweptInv'
    <2>1. ASSUME NEW t \in Tables, NEW m \in closed'[t]
          PROVE  (m \in closed[t] /\ age'[t][m] = age[t][m]) \/ age'[t][m] = 0
      <3>1. CASE t = "jobs"
        BY <1>4, <2>1, <3>1, Periods DEF RetentionInv, TableTypes
      <3>2. CASE t = "evidence"
        BY <2>1, <3>2, Periods DEF RetentionInv, TableTypes, Complete
      <3>3. CASE t \in Tables \ {"jobs", "evidence"}
        BY <2>1, <3>3, Periods DEF RetentionInv, TableTypes, Complete
      <3> QED
        BY <2>1, <3>1, <3>2, <3>3, Periods
    <2> QED
      BY <2>1, FreshRowsAreKept DEF Complete
  <1>9. FindingNamesNewest'
    <2> SUFFICES ASSUME NEW h \in Keys
                 PROVE  IF \E m \in Ids : key'[m] = h
                        THEN /\ finding'[h] # 0 /\ key'[finding'[h]] = h
                             /\ \A m \in Ids : key'[m] = h => settled'[m] <= settled'[finding'[h]]
                        ELSE finding'[h] = 0
      BY DEF FindingNamesNewest, IsNewest
    <2>1. CASE h = k
      <3>1. finding'[h] = n /\ n # 0
        BY <2>1, RetentionAssumption DEF RetentionInv, FindingTypes, Complete, NewestDecision, Ids
      <3>2. \A m \in Ids : settled'[m] <= settled'[n]
        BY <1>a, RetentionAssumption DEF RetentionInv, FindingTypes
      <3> QED
        BY <1>5, <2>1, <3>1, <3>2
    <2>2. CASE h # k
      <3>1. finding'[h] = finding[h]
        BY <2>2 DEF RetentionInv, FindingTypes, Complete
      <3>2. \A m \in Ids : key'[m] = h <=> key[m] = h /\ m # n
        BY <1>5, <2>2, RetentionAssumption
      <3>3. \A m \in Ids : key[m] = h => m # n
        BY <1>5, RetentionAssumption
      <3>4. finding[h] \in Ids \union {0}
        BY DEF RetentionInv, FindingTypes
      <3>5. IF \E m \in Ids : key[m] = h
            THEN /\ finding[h] # 0 /\ key[finding[h]] = h
                 /\ \A m \in Ids : key[m] = h => settled[m] <= settled[finding[h]]
            ELSE finding[h] = 0
        BY DEF RetentionInv, FindingNamesNewest, IsNewest
      <3> QED
        BY <1>a, <3>1, <3>2, <3>3, <3>4, <3>5
    <2> QED
      BY <2>1, <2>2
  <1> QED
    BY <1>1, <1>2, <1>3, <1>6, <1>7, <1>8, <1>9 DEF RetentionInv

\* A job given up is settled without a decision.
LEMMA FailKeeps ==
    ASSUME RetentionInv, NEW n \in Ids, Fail(n)
    PROVE  RetentionInv'
  <1>0. Open(n) /\ settled' = [settled EXCEPT ![n] = SettledSoFar + 1]
    BY DEF Fail, Settle
  <1>a. /\ settled' \in [Ids -> 0..MaxRows]
        /\ settled'[n] \in Nat
        /\ \A m \in Ids : m # n => settled'[m] = settled[m] /\ settled[m] < settled'[n]
        /\ \A m \in Ids : settled'[m] <= Cardinality(Settled')
    BY <1>0, NextRank
  <1>1. TableTypes'
    BY Periods DEF RetentionInv, TableTypes, Fail, Open
  <1>s. settledAt' \in [Ids -> 0..Hours - 1]
    BY DEF RetentionInv, FindingTypes, LoopTypes, Fail, Settle
  <1>2. FindingTypes'
    BY <1>a, <1>s DEF RetentionInv, FindingTypes, Fail
  <1>3. LoopTypes' /\ FlagTypes' /\ ScheduleInv'
    BY LoopFrame DEF Fail
  <1>4. /\ rows'.jobs = rows.jobs /\ closed'.jobs = closed.jobs \union {n}
        /\ age'.jobs = [age.jobs EXCEPT ![n] = 0]
    BY Periods DEF RetentionInv, TableTypes, Fail
  <1>5. key[n] = "none" /\ key' = key /\ finding' = finding
    BY DEF RetentionInv, RankInv, Fail, Open
  <1>6. RankInv'
    <2>1. rows.jobs \subseteq Ids
      BY Periods DEF RetentionInv, TableTypes
    <2> QED
      BY <1>a, <1>4, <1>5, <2>1 DEF RetentionInv, RankInv
  <1>7. AgeInv'
    BY <1>0, <1>4, SettlingKeepsAges
  <1>8. SweptInv'
    <2>1. \A t \in Tables : \A m \in closed'[t] :
              (m \in closed[t] /\ age'[t][m] = age[t][m]) \/ age'[t][m] = 0
      BY Periods DEF RetentionInv, TableTypes, Fail
    <2> QED
      BY <2>1, FreshRowsAreKept DEF Fail
  <1>9. FindingNamesNewest'
    <2>1. \A h \in Keys : finding[h] \in Ids \union {0}
      BY DEF RetentionInv, FindingTypes
    <2>2. \A h \in Keys, m \in Ids : key[m] = h => settled'[m] = settled[m]
      BY <1>a, <1>5, RetentionAssumption
    <2> QED
      BY <1>5, <2>1, <2>2 DEF RetentionInv, FindingNamesNewest, IsNewest
  <1> QED
    BY <1>1, <1>2, <1>3, <1>6, <1>7, <1>8, <1>9 DEF RetentionInv

-----------------------------------------------------------------------------
(* Time and the purge.                                                     *)

\* The schedule and the time since the last purge when time passes.
LEMMA TickKeepsSchedule ==
    ASSUME RetentionInv, Tick
    PROVE  /\ LoopTypes' /\ FlagTypes' /\ ScheduleInv'
           /\ warm => Elapsed \in 0..2 * Hours - 1 /\ Elapsed' = Elapsed + 1
  <1>0. UNCHANGED <<pc, due, warm, restarts>>
    BY DEF Tick
  <1>1. /\ hour \in 0..Hours - 1 /\ pc \in {"down", "working", "resting"}
        /\ left \in 0..Longest[pc] /\ purgeIn \in -Hours..Hours
        /\ Longest[pc] \in Nat
    BY Times DEF RetentionInv, LoopTypes
  <1>2. FlagTypes'
    BY <1>0 DEF RetentionInv, FlagTypes
  <1>3. CASE pc = "down"
    <2>1. left' = 0 /\ purgeIn' = purgeIn /\ ~warm
      BY <1>3 DEF Tick, RetentionInv, FlagTypes
    <2>2. hour' \in 0..Hours - 1
      BY <1>1, Times DEF Tick
    <2>3. LoopTypes'
      BY <1>0, <1>1, <1>3, <2>1, <2>2, Times DEF RetentionInv, LoopTypes
    <2>4. ScheduleInv'
      BY <1>0, <1>3 DEF ScheduleInv
    <2> QED
      BY <1>2, <2>1, <2>3, <2>4
  <1>4. CASE pc # "down"
    <2>1. left > 0 /\ left' = left - 1 /\ purgeIn' = purgeIn - 1
      BY <1>4 DEF Tick
    <2>2. hour' \in 0..Hours - 1
      BY <1>1, Times DEF Tick
    <2>3. pc = "working" \/ (pc = "resting" /\ ~due)
      BY <1>1, <1>4 DEF RetentionInv, FlagTypes
    <2>w. pc = "resting" => warm
      <3> SUFFICES ASSUME pc = "resting", ~warm PROVE FALSE
        OBVIOUS
      <3> QED
        BY <2>1 DEF RetentionInv, ScheduleInv
    <2>4. purgeIn > -Hours
      <3>1. CASE pc = "working" /\ due
        BY <1>1, <3>1, Times DEF RetentionInv, ScheduleInv
      <3>2. CASE pc = "working" /\ ~due
        BY <1>1, <2>1, <3>2, Times DEF RetentionInv, ScheduleInv
      <3>3. CASE pc = "resting"
        BY <1>1, <2>1, <2>w, <3>3, Times DEF RetentionInv, ScheduleInv
      <3> QED
        BY <2>3, <3>1, <3>2, <3>3
    <2>5. LoopTypes'
      <3>1. left' \in 0..Longest[pc'] /\ purgeIn' \in -Hours..Hours
        BY <1>0, <1>1, <2>1, <2>4, Times
      <3> QED
        BY <1>0, <2>2, <3>1 DEF RetentionInv, LoopTypes
    <2>6. ScheduleInv'
      BY <1>0, <1>1, <2>1, <2>w, Times DEF RetentionInv, ScheduleInv
    <2>7. warm => Elapsed \in 0..2 * Hours - 1 /\ Elapsed' = Elapsed + 1
      <3>1. CASE due
        <4>1. pc = "working"
          BY <2>3, <3>1
        <4> QED
          BY <1>0, <1>1, <2>1, <3>1, <4>1, Times DEF Elapsed
      <3>2. CASE ~due
        BY <1>0, <1>1, <2>1, <2>4, <3>2, Times DEF Elapsed
      <3> QED
        BY <3>1, <3>2
    <2> QED
      BY <1>2, <2>5, <2>6, <2>7
  <1> QED
    BY <1>3, <1>4

\* One step of an age and of the time of day.
LEMMA MidnightArithmetic ==
    ASSUME NEW a \in Nat, NEW r \in Nat, NEW e \in Int, NEW h \in Nat, NEW d \in Nat \ {0},
           h < d, 0 <= e, e < 2 * d,
           a >= r => e > h, a > r => e > h + d, a <= r + 1
    PROVE  /\ h + 1 = d => /\ a + 1 >= r => e + 1 > 0
                           /\ a + 1 > r => e + 1 > d
                           /\ a + 1 <= r + 1
           /\ /\ a >= r => e + 1 > h + 1
              /\ a > r => e + 1 > h + 1 + d
  OBVIOUS

\* Time passes; at midnight all rows age alike, up to an age at which all are
\* overdue.
LEMMA TickKeeps ==
    ASSUME RetentionInv, Tick
    PROVE  RetentionInv'
  <1>0. UNCHANGED <<rows, closed, jobVars, pc, due, warm, restarts>>
    BY DEF Tick
  <1>1. \A t \in Tables, n \in Ids : age[t][n] \in Nat /\ age[t][n] <= Oldest(t)
    BY DEF RetentionInv, TableTypes
  <1>h. hour \in 0..Hours - 1
    BY DEF RetentionInv, LoopTypes
  <1>a. CASE hour + 1 = Hours
    <2>0. /\ hour' = 0
          /\ \A t \in Tables, n \in Ids :
                age'[t][n] = IF n \in closed[t] /\ age[t][n] < Oldest(t) THEN age[t][n] + 1 ELSE age[t][n]
      BY <1>a DEF Tick, Midnight
    <2>2. TableTypes'
      <3>1. age' \in [Tables -> [Ids -> Nat]]
        BY <1>1, <1>a DEF Tick, Midnight
      <3>2. \A t \in Tables, n \in Ids : age'[t][n] <= Oldest(t)
        BY <1>1, <2>0, Periods
      <3> QED
        BY <1>0, <3>1, <3>2 DEF RetentionInv, TableTypes, Oldest
    <2>6. AgeInv'
      <3> SUFFICES ASSUME NEW m \in closed.jobs, NEW n \in closed.jobs, settled[m] <= settled[n]
                   PROVE  age'.jobs[n] <= age'.jobs[m]
        BY <1>0 DEF AgeInv, jobVars
      <3>1. age.jobs[n] <= age.jobs[m]
        BY DEF RetentionInv, AgeInv
      <3>2. m \in Ids /\ n \in Ids
        BY Periods DEF RetentionInv, TableTypes
      <3>3. /\ age'.jobs[m] = IF age.jobs[m] < Oldest("jobs") THEN age.jobs[m] + 1 ELSE age.jobs[m]
            /\ age'.jobs[n] = IF age.jobs[n] < Oldest("jobs") THEN age.jobs[n] + 1 ELSE age.jobs[n]
        BY <2>0, <3>2, Periods
      <3>4. age.jobs[m] \in Nat /\ age.jobs[n] \in Nat /\ Oldest("jobs") \in Nat
            /\ age.jobs[m] <= Oldest("jobs") /\ age.jobs[n] <= Oldest("jobs")
        BY <1>1, <3>2, Periods
      <3> QED
        BY <3>1, <3>3, <3>4
    <2>7. SweptInv'
      <3> SUFFICES ASSUME warm, NEW t \in Tables, NEW n \in closed[t]
                   PROVE  DateInv(t, n)'
        BY <1>0 DEF SweptInv
      <3>1. n \in Ids
        BY DEF RetentionInv, TableTypes
      <3>2. DateInv(t, n)
        BY DEF RetentionInv, SweptInv
      <3>3. Elapsed \in 0..2 * Hours - 1 /\ Elapsed' = Elapsed + 1
        BY TickKeepsSchedule
      <3>4. age'[t][n] = age[t][n] + 1
        BY <1>1, <2>0, <3>1, <3>2, Periods DEF DateInv
      <3>5. age[t][n] \in Nat /\ Retain[t] \in Nat /\ hour \in Nat /\ Hours \in Nat \ {0}
            /\ Elapsed \in Int /\ hour < Hours /\ 0 <= Elapsed /\ Elapsed < 2 * Hours
        BY <1>1, <1>h, <3>1, <3>3, Periods, Times
      <3>6. /\ age[t][n] + 1 >= Retain[t] => Elapsed + 1 > 0
            /\ age[t][n] + 1 > Retain[t] => Elapsed + 1 > Hours
            /\ age[t][n] + 1 <= Retain[t] + 1
        BY <1>a, <3>2, <3>5, MidnightArithmetic DEF DateInv
      <3> QED
        BY <2>0, <3>3, <3>4, <3>5, <3>6 DEF DateInv
    <2> QED
      BY <1>0, <2>2, <2>6, <2>7, TickKeepsSchedule, FindingsFrame, RanksFrame DEF RetentionInv, jobVars
  <1>b. CASE hour + 1 # Hours
    <2>0. hour' = hour + 1 /\ age' = age
      BY <1>b DEF Tick
    <2>2. TableTypes'
      BY <1>0, <2>0 DEF RetentionInv, TableTypes, Oldest
    <2>6. AgeInv'
      BY <1>0, <2>0, AgesFrame DEF jobVars
    <2>7. SweptInv'
      <3> SUFFICES ASSUME warm, NEW t \in Tables, NEW n \in closed[t]
                   PROVE  DateInv(t, n)'
        BY <1>0 DEF SweptInv
      <3>1. n \in Ids
        BY DEF RetentionInv, TableTypes
      <3>2. DateInv(t, n)
        BY DEF RetentionInv, SweptInv
      <3>3. Elapsed \in 0..2 * Hours - 1 /\ Elapsed' = Elapsed + 1
        BY TickKeepsSchedule
      <3>5. age[t][n] \in Nat /\ Retain[t] \in Nat /\ hour \in Nat /\ Hours \in Nat \ {0}
            /\ Elapsed \in Int /\ hour < Hours /\ 0 <= Elapsed /\ Elapsed < 2 * Hours
        BY <1>1, <1>h, <3>1, <3>3, Periods, Times
      <3>6. /\ age[t][n] >= Retain[t] => Elapsed + 1 > hour + 1
            /\ age[t][n] > Retain[t] => Elapsed + 1 > hour + 1 + Hours
        BY <3>2, <3>5, MidnightArithmetic DEF DateInv
      <3> QED
        BY <2>0, <3>2, <3>3, <3>6 DEF DateInv
    <2> QED
      BY <1>0, <2>2, <2>6, <2>7, TickKeepsSchedule, FindingsFrame, RanksFrame DEF RetentionInv, jobVars
  <1> QED
    BY <1>a, <1>b

\* When the newest decision of a key goes, so do the others.
LEMMA NewestGoesLast ==
    ASSUME RetentionInv, NEW k \in Keys, finding[k] \in Deleted("jobs"),
           NEW m \in Ids, key[m] = k
    PROVE  m \in Deleted("jobs")
  <1> DEFINE f == finding[k]
  <1>1. f \in closed.jobs /\ age.jobs[f] >= JobDays
    BY Periods DEF Deleted, Overdue
  <1>2. settled[m] <= settled[f]
    BY DEF RetentionInv, FindingNamesNewest, IsNewest
  <1>3. m \in closed.jobs
    BY RetentionAssumption DEF RetentionInv, RankInv
  <1>4. age.jobs[f] <= age.jobs[m]
    BY <1>1, <1>2, <1>3 DEF RetentionInv, AgeInv
  <1>5. closed.jobs \subseteq Ids
    BY Periods DEF RetentionInv, TableTypes
  <1>6. age.jobs[m] \in Nat /\ age.jobs[f] \in Nat
    BY <1>1, <1>5, Periods DEF RetentionInv, TableTypes
  <1>7. age.jobs[m] >= JobDays
    BY <1>1, <1>4, <1>6, RetentionAssumption
  <1> QED
    BY <1>3, <1>7, Periods DEF Deleted, Overdue

\* The iteration is over, with or without its purge.
LEMMA EndIterationKeeps ==
    ASSUME RetentionInv, EndIteration
    PROVE  LoopTypes' /\ FlagTypes' /\ ScheduleInv'
  <1>1. /\ pc = "working" /\ pc' = "resting" /\ left' = MaxRest
        /\ UNCHANGED <<hour, purgeIn, restarts>>
    BY DEF EndIteration
  <1>2. left \in 0..MaxWork /\ purgeIn \in -Hours..Hours
    BY <1>1, Times DEF RetentionInv, LoopTypes
  <1>3. LoopTypes'
    BY <1>1, Times DEF RetentionInv, LoopTypes
  <1>4. FlagTypes'
    BY <1>1 DEF EndIteration, FlagTypes
  <1>5. purgeIn > 0 - MaxWork
    BY <1>1, <1>2, Times DEF RetentionInv, ScheduleInv
  <1>6. ScheduleInv'
    <2>1. warm' /\ purgeIn' > left' - MaxWork - MaxRest
      BY <1>1, <1>2, <1>5, Times DEF EndIteration
    <2> QED
      BY <1>1, <2>1 DEF ScheduleInv
  <1> QED
    BY <1>3, <1>4, <1>6

\* One transaction deletes what is overdue and nothing a finding needs.
LEMMA PurgeKeeps ==
    ASSUME RetentionInv, Purge
    PROVE  RetentionInv'
  <1>0. UNCHANGED <<settled, settledAt>>
    BY DEF Purge
  <1>1. /\ \A t \in Tables : rows'[t] = rows[t] \ Deleted(t) /\ closed'[t] = closed[t] \ Deleted(t)
        /\ \A t \in Tables, n \in Ids : n \notin Deleted(t) => age'[t][n] = age[t][n]
    BY DEF Purge
  <1>a. closed.jobs \subseteq Ids /\ closed.jobs \subseteq rows.jobs /\ rows.jobs \subseteq Ids
    BY Periods DEF RetentionInv, TableTypes
  <1>2. TableTypes'
    <2>1. age' \in [Tables -> [Ids -> Nat]] /\ \A t \in Tables, m \in Ids : age'[t][m] <= Oldest(t)
      BY Periods DEF RetentionInv, TableTypes, Purge
    <2>2. rows' \in [Tables -> SUBSET Ids] /\ closed' \in [Tables -> SUBSET Ids]
      BY DEF RetentionInv, TableTypes, Purge
    <2>3. ASSUME NEW t \in Tables PROVE closed'[t] \subseteq rows'[t]
      BY <1>1 DEF RetentionInv, TableTypes
    <2> QED
      BY <2>1, <2>2, <2>3 DEF TableTypes
  <1>3. FindingTypes'
    BY DEF RetentionInv, FindingTypes, Purge
  <1>4. LoopTypes' /\ FlagTypes' /\ ScheduleInv'
    BY EndIterationKeeps DEF Purge
  <1>5. \A n \in Ids : key'[n] = IF n \in Deleted("jobs") THEN "none" ELSE key[n]
    BY DEF Purge
  <1>6. RankInv'
    <2>1. Settled' = Settled
      BY <1>0 DEF Settled
    <2>2. Cardinality(Settled') = Cardinality(Settled)
      BY <2>1
    <2>3. Deleted("jobs") \subseteq closed.jobs
      BY DEF Deleted, Overdue
    <2>4. /\ rows'.jobs = rows.jobs \ Deleted("jobs")
          /\ closed'.jobs = closed.jobs \ Deleted("jobs")
      BY <1>1, Periods
    <2> QED
      BY <1>0, <1>a, <1>5, <2>2, <2>3, <2>4 DEF RetentionInv, RankInv
  <1>7. AgeInv'
    BY <1>0, <1>1, <1>a, Periods DEF RetentionInv, AgeInv
  <1>8. SweptInv'
    <2> SUFFICES ASSUME NEW t \in Tables, NEW n \in closed'[t]
                 PROVE  DateInv(t, n)'
      BY DEF SweptInv
    <2>1. n \in closed[t] /\ n \notin Deleted(t) /\ n \in Ids
      BY <1>1 DEF RetentionInv, TableTypes
    <2>2. ~(age[t][n] >= Retain[t])
      BY <2>1 DEF Deleted, Overdue
    <2>3. age[t][n] \in Nat /\ Retain[t] \in Nat
      BY <2>1, Periods DEF RetentionInv, TableTypes
    <2>4. age'[t][n] = age[t][n]
      BY <1>1, <2>1
    <2> QED
      BY <2>2, <2>3, <2>4 DEF DateInv
  <1>9. FindingNamesNewest'
    <2> SUFFICES ASSUME NEW k \in Keys
                 PROVE  IF \E m \in Ids : key'[m] = k
                        THEN /\ finding'[k] # 0 /\ key'[finding'[k]] = k
                             /\ \A m \in Ids : key'[m] = k => settled'[m] <= settled'[finding'[k]]
                        ELSE finding'[k] = 0
      BY DEF FindingNamesNewest, IsNewest
    <2>1. finding'[k] = IF finding[k] \in Deleted("jobs") THEN 0 ELSE finding[k]
      BY DEF Purge
    <2>2. \A m \in Ids : key'[m] = k <=> key[m] = k /\ m \notin Deleted("jobs")
      BY <1>5, RetentionAssumption
    <2>3. CASE finding[k] \in Deleted("jobs")
      BY <2>1, <2>2, <2>3, NewestGoesLast
    <2>4. CASE finding[k] \notin Deleted("jobs")
      <3>1. finding[k] \in Ids \union {0}
        BY DEF RetentionInv, FindingTypes
      <3>2. IF \E m \in Ids : key[m] = k
            THEN /\ finding[k] # 0 /\ key[finding[k]] = k
                 /\ \A m \in Ids : key[m] = k => settled[m] <= settled[finding[k]]
            ELSE finding[k] = 0
        BY DEF RetentionInv, FindingNamesNewest, IsNewest
      <3> QED
        BY <1>0, <2>1, <2>2, <2>4, <3>1, <3>2
    <2> QED
      BY <2>3, <2>4
  <1> QED
    BY <1>2, <1>3, <1>4, <1>6, <1>7, <1>8, <1>9 DEF RetentionInv

\* The worker's own steps: nothing is deleted, and the dates stay known.
LEMMA LoopStepsKeep ==
    ASSUME RetentionInv, UNCHANGED <<rows, closed, age, jobVars>>,
           LoopTypes', FlagTypes', ScheduleInv', SweptInv'
    PROVE  RetentionInv'
  <1>1. TableTypes' /\ FindingTypes' /\ FindingNamesNewest' /\ AgeInv'
    BY FindingsFrame, AgesFrame DEF RetentionInv, TableTypes, Oldest, jobVars
  <1>2. RankInv'
    BY RanksFrame DEF jobVars
  <1> QED
    BY <1>1, <1>2 DEF RetentionInv

\* The worker exits, and starts with a purge due.
LEMMA StopStartKeep ==
    ASSUME RetentionInv, Stop \/ Start
    PROVE  RetentionInv'
  <1>0. UNCHANGED <<rows, closed, age, jobVars, hour>>
    BY DEF Stop, Start
  <1>1. left' = 0 /\ purgeIn' = 0 /\ pc' \in {"down", "resting"}
    BY DEF Stop, Start, FirstPurge
  <1>2. FlagTypes' /\ ~warm'
    <2>1. CASE Stop
      BY <2>1 DEF Stop, FlagTypes
    <2>2. CASE Start
      BY <2>2 DEF Start, RetentionInv, FlagTypes
    <2> QED
      BY <2>1, <2>2
  <1>3. restarts' \in 0..MaxRestarts
    BY Times DEF RetentionInv, LoopTypes, Stop, Start
  <1>4. LoopTypes'
    BY <1>0, <1>1, <1>3, Times DEF RetentionInv, LoopTypes
  <1>5. ScheduleInv' /\ SweptInv'
    BY <1>1, <1>2 DEF ScheduleInv, SweptInv
  <1> QED
    BY <1>0, <1>2, <1>4, <1>5, LoopStepsKeep

\* An iteration begins: when it will purge, no more than a day and an iteration
\* have passed since the last purge.
LEMMA TopKeeps ==
    ASSUME RetentionInv, Top
    PROVE  RetentionInv'
  <1>0. UNCHANGED <<rows, closed, age, jobVars, hour, warm, restarts>> /\ pc' = "working" /\ left' = MaxWork
    BY DEF Top
  <1>1. /\ pc = "resting" /\ left \in 0..MaxRest /\ purgeIn \in -Hours..Hours /\ hour \in 0..Hours - 1
    BY Times DEF Top, RetentionInv, LoopTypes
  <1>2. ~due /\ warm \in BOOLEAN
    BY <1>1 DEF RetentionInv, FlagTypes
  <1>3. CASE purgeIn <= 0
    <2>1. due' /\ purgeIn' = Hours
      BY <1>3 DEF Top
    <2>2. LoopTypes'
      BY <1>0, <2>1, Times DEF RetentionInv, LoopTypes
    <2>3. FlagTypes'
      BY <1>0, <1>2, <2>1, <1>3 DEF Top, FlagTypes
    <2>4. ScheduleInv'
      BY <1>0, <2>1, Times DEF ScheduleInv
    <2>5. warm => Elapsed' \in Int /\ Elapsed \in Int /\ Elapsed' >= Elapsed
      <3> SUFFICES ASSUME warm PROVE Elapsed' \in Int /\ Elapsed \in Int /\ Elapsed' >= Elapsed
        OBVIOUS
      <3>1. purgeIn > left - MaxWork - MaxRest
        BY <1>1 DEF RetentionInv, ScheduleInv
      <3>2. Elapsed = Hours - purgeIn
        BY <1>2 DEF Elapsed
      <3>3. Elapsed' = 2 * Hours - MaxWork
        BY <1>0, <2>1 DEF Elapsed
      <3> QED
        BY <1>1, <3>1, <3>2, <3>3, Times
    <2>6. SweptInv'
      <3> SUFFICES ASSUME warm, NEW t \in Tables, NEW n \in closed[t]
                   PROVE  DateInv(t, n)'
        BY <1>0 DEF SweptInv
      <3>1. DateInv(t, n)
        BY DEF RetentionInv, SweptInv
      <3> QED
        BY <1>0, <1>1, <2>5, <3>1, Times DEF DateInv
    <2> QED
      BY <1>0, <2>2, <2>3, <2>4, <2>6, LoopStepsKeep
  <1>4. CASE purgeIn > 0
    <2>0. ~(purgeIn <= 0)
      BY <1>1, <1>4
    <2>1. ~due' /\ purgeIn' = purgeIn
      BY <2>0 DEF Top
    <2>2. LoopTypes'
      BY <1>0, <1>1, <2>1, Times DEF RetentionInv, LoopTypes
    <2>3. FlagTypes'
      <3>1. (purgeIn <= 0) \in BOOLEAN
        BY <1>1
      <3> QED
        BY <1>0, <1>2, <2>1, <3>1 DEF Top, FlagTypes
    <2>4. ScheduleInv'
      BY <1>0, <1>1, <1>2, <1>4, <2>1, Times DEF RetentionInv, ScheduleInv
    <2>6. SweptInv'
      <3>1. Elapsed' = Elapsed
        BY <1>2, <2>1 DEF Elapsed
      <3> QED
        BY <1>0, <3>1 DEF RetentionInv, SweptInv, DateInv
    <2> QED
      BY <1>0, <2>2, <2>3, <2>4, <2>6, LoopStepsKeep
  <1> QED
    BY <1>1, <1>3, <1>4

\* An iteration ends without a purge.
LEMMA SkipPurgeKeeps ==
    ASSUME RetentionInv, SkipPurge
    PROVE  RetentionInv'
  <1>1. LoopTypes' /\ FlagTypes' /\ ScheduleInv'
    BY EndIterationKeeps DEF SkipPurge
  <1>2. warm /\ Elapsed' = Elapsed /\ hour' = hour
    BY DEF RetentionInv, ScheduleInv, SkipPurge, EndIteration, Elapsed
  <1>3. SweptInv'
    BY <1>2 DEF RetentionInv, SweptInv, DateInv, SkipPurge
  <1> QED
    BY <1>1, <1>3, LoopStepsKeep DEF SkipPurge

-----------------------------------------------------------------------------
(* The results.                                                            *)

\* Every step preserves the invariant.
LEMMA StepKeepsInv ==
    ASSUME RetentionInv, [Next]_vars
    PROVE  RetentionInv'
  <1>1. ASSUME NEW n \in Ids, Submit(n) PROVE RetentionInv'
    BY <1>1, SubmitKeeps
  <1>2. ASSUME NEW n \in Ids, NEW k \in Keys, Complete(n, k) PROVE RetentionInv'
    BY <1>2, CompleteKeeps
  <1>3. ASSUME NEW n \in Ids, Fail(n) PROVE RetentionInv'
    BY <1>3, FailKeeps
  <1>4. ASSUME NEW n \in Ids, SettleDelivery(n) PROVE RetentionInv'
    BY <1>4, OtherWritesKeep
  <1>t. ASSUME NEW n \in Teams, Install(n) \/ Deactivate(n) PROVE RetentionInv'
    <2>1. n \in Ids
      BY RetentionAssumption DEF Teams, Ids
    <2> QED
      BY <1>t, <2>1, OtherWritesKeep
  <1>5. CASE Purge
    BY <1>5, PurgeKeeps
  <1>6. CASE Tick
    BY <1>6, TickKeeps
  <1>9. CASE Top \/ SkipPurge
    BY <1>9, TopKeeps, SkipPurgeKeeps
  <1>7. CASE Stop \/ Start
    BY <1>7, StopStartKeep
  <1>8. CASE UNCHANGED vars
    <2>1. UNCHANGED <<rows, closed, age, jobVars, hour, loopVars>>
      BY <1>8 DEF vars
    <2>2. SweptInv'
      BY <2>1 DEF RetentionInv, SweptInv, DateInv, Elapsed, loopVars
    <2> QED
      BY <2>1, <2>2, LoopFrame, LoopStepsKeep
  <1> QED
    BY <1>1, <1>2, <1>3, <1>4, <1>t, <1>5, <1>6, <1>7, <1>8, <1>9 DEF Next

\* The invariant holds in every reachable state.
LEMMA InvHolds == Spec => []RetentionInv
  BY InitInv, StepKeepsInv, PTL DEF Spec

\* Every variable keeps its type, whatever the periods and however long the
\* worker stays away.
THEOREM RetentionTypeCorrect == Spec => []TypeOK
  <1>1. RetentionInv => TypeOK
    BY DEF RetentionInv, TableTypes, FindingTypes, LoopTypes, FlagTypes, TypeOK
  <1> QED
    BY <1>1, InvHolds, PTL

\* Once a start's first iteration is over, no row that Database.purge may delete
\* is two dates past its table's retention period: the start purges although
\* next_purge of the last process is lost, and the drift of the schedule never
\* adds up to a day.
THEOREM NothingOutlivesItsPeriod == Spec => []NothingOverRetained
  <1>1. RetentionInv => NothingOverRetained
    BY DEF RetentionInv, SweptInv, DateInv, NothingOverRetained
  <1> QED
    BY <1>1, InvHolds, PTL

\* The cascade from a purged decision to the finding that names it (db.py) never
\* loses the finding of a newer decision.
THEOREM FindingsNameTheNewest == Spec => []FindingNamesNewest
  <1>1. RetentionInv => FindingNamesNewest
    BY DEF RetentionInv
  <1> QED
    BY <1>1, InvHolds, PTL
=============================================================================
