-------------------------- MODULE FrontDoorProofs --------------------------
(***************************************************************************)
(* Proofs about FrontDoor, and about Submission behind it, for every set   *)
(* of processes, keys and contents, every limit and every window.          *)
(*                                                                         *)
(* Submission counts rows that are no longer to be seen: the answered jobs *)
(* that are gone from the table, each for a purge, and the jobs nobody     *)
(* will audit any more, each for a crash.  FrontDoor is about sequences of *)
(* ages: what a process still remembers is the newest part of what it let  *)
(* through, and what it forgot lies behind its restarts.                   *)
(***************************************************************************)
EXTENDS FrontDoor, TLAPS, FiniteSetTheorems, SequenceTheorems, WellFoundedInduction

-----------------------------------------------------------------------------
(* The inductive invariant of the submissions.                             *)

\* The unique constraint.
KeysAreUnique == \A i, j \in jobs : i.key = j.key => i = j

\* What create_job returned for the request.
AnswersFit ==
    \A p \in Processes : Decided(p) => answer[p].key = request[p].key

AcceptancesFit == \A a \in accepted : a.row.key = a.submission.key

\* The rows that were, or are being, answered for a key, and those of them that
\* the table no longer holds.
Answered(k) == {a.row : a \in {b \in accepted : b.submission.key = k}}
Answering(k) == {answer[p] : p \in {q \in Processes : Decided(q) /\ request[q].key = k}}
Gone(k) == (Answered(k) \union Answering(k)) \ jobs

GoneWerePurged ==
    \A k \in Keys : IsFiniteSet(Gone(k)) /\ Cardinality(Gone(k)) <= purges

\* The jobs without an audit event that no process is about to audit.
Auditing == {answer[p].id : p \in {q \in Processes : Decided(q)}}
Lost == (created \ audits) \ Auditing

LostCrashed == IsFiniteSet(Lost) /\ Cardinality(Lost) <= crashes

SubmissionInv ==
    /\ TypeOK
    /\ KeysAreUnique
    /\ AnswersFit
    /\ AcceptancesFit
    /\ GoneWerePurged
    /\ LostCrashed

-----------------------------------------------------------------------------
(* The inductive invariant of the limiter.                                 *)

\* The d-th newest element of a history, and the order histories are in.
At(s, d) == s[Len(s) + 1 - d]
Sorted(s) == \A i, j \in DOMAIN s : i < j => s[i] >= s[j]

\* What a process remembers of a key (e), what it let through (r) and its
\* restarts (z), all within the window.  It remembers the newest; of the others
\* every batch of Limit lies behind one restart more.
Explained(e, r, z) ==
    /\ e \in Seq(0..Window + 1) /\ Sorted(e)
    /\ r \in Seq(0..Window) /\ Sorted(r)
    /\ z \in Seq(0..Window) /\ Sorted(z)
    /\ Len(Evicted(e)) <= Limit
    /\ \A d \in 1..Len(Evicted(e)) : d <= Len(r) /\ At(r, d) = At(e, d)
    /\ \A m \in 0..Len(z), d \in 1..Len(r) :
          d > Len(Evicted(e)) + Limit * m => m + 1 <= Len(z) /\ At(z, m + 1) <= At(r, d)

LimiterInv ==
    /\ events \in [Processes -> [DoorKeys -> Seq(0..Window + 1)]]
    /\ recent \in [Processes -> [DoorKeys -> Seq(0..Window)]]
    /\ resets \in [Processes -> Seq(0..Window)]
    /\ \A p \in Processes : Sorted(resets[p])
    /\ \A p \in Processes, k \in DoorKeys : Explained(events[p][k], recent[p][k], resets[p])

-----------------------------------------------------------------------------
(* Sequences of ages.                                                      *)

\* The newest part of a sequence, from the first of a set of positions.
Newest(s, K) == SubSeq(s, Min(K \union {Len(s) + 1}), Len(s))

\* The newest part of s, from the first age that is at most w.
Young(s, w) == Newest(s, {i \in DOMAIN s : s[i] <= w})

\* A set of natural numbers has a least element: the shortest of the intervals
\* up to one of them.
LEMMA MinIsLeast ==
    ASSUME NEW S \in SUBSET Nat, S # {}
    PROVE  Min(S) \in S /\ \A y \in S : Min(S) <= y
  <1> DEFINE F == {1..i : i \in S}
             R == StrictSubsetOrdering(Nat)
  <1>1. F \subseteq FiniteSubsetsOf(Nat) /\ F # {}
    <2>1. ASSUME NEW i \in S PROVE 1..i \in SUBSET Nat /\ IsFiniteSet(1..i)
      BY FS_Interval
    <2>2. \A i \in S : 1..i \in FiniteSubsetsOf(Nat)
      BY <2>1 DEF FiniteSubsetsOf
    <2> QED
      BY <2>2
  <1>2. IsWellFoundedOn(R, FiniteSubsetsOf(Nat))
    BY FS_StrictSubsetOrderingWellFounded
  <1> HIDE DEF F, R
  <1>3. PICK T \in F : \A V \in F : ~ (<<V, T>> \in R)
    BY <1>1, <1>2, WFMin
  <1>4. PICK x \in S : T = 1..x
    BY DEF F
  <1>5. ASSUME NEW y \in S, y < x
        PROVE  FALSE
    <2>1. 1..y \in F /\ ~ (<<1..y, T>> \in R)
      BY <1>3 DEF F
    <2>2. 1..y \subseteq T /\ x \in T /\ x \notin 1..y /\ T \subseteq Nat
      BY <1>4, <1>5
    <2>3. 1..y \in SUBSET Nat /\ T \in SUBSET Nat /\ 1..y # T
      BY <2>2
    <2>4. <<1..y, T>> \in R
      BY <2>2, <2>3, Zenon DEF R, StrictSubsetOrdering
    <2> QED
      BY <2>1, <2>4
  <1>6. \A y \in S : x <= y
    BY <1>5
  <1> QED
    BY <1>6 DEF Min

\* Every chosen position is in the newest part, and it starts with one.
LEMMA NewestPart ==
    ASSUME NEW S, NEW s \in Seq(S), NEW K \in SUBSET DOMAIN s, NEW t, t = Newest(s, K)
    PROVE  /\ t \in Seq(S)
           /\ Len(t) <= Len(s)
           /\ \A d \in 1..Len(t) : At(t, d) = At(s, d)
           /\ \A i \in K : Len(s) + 1 - i <= Len(t)
           /\ Len(t) > 0 => Len(s) + 1 - Len(t) \in K
  <1> DEFINE first == Min(K \union {Len(s) + 1})
  <1>1. Len(s) \in Nat /\ DOMAIN s = 1..Len(s)
    OBVIOUS
  <1>2. first \in K \union {Len(s) + 1} /\ \A i \in K : first <= i
    <2> DEFINE T == K \union {Len(s) + 1}
    <2>1. T \in SUBSET Nat /\ T # {}
      BY <1>1
    <2> HIDE DEF T
    <2>2. Min(T) \in T /\ \A i \in T : Min(T) <= i
      BY <2>1, MinIsLeast
    <2> QED
      BY <2>2 DEF T
  <1>3. first \in 1..Len(s) + 1
    BY <1>1, <1>2
  <1>4. t = SubSeq(s, first, Len(s))
    BY DEF Newest
  <1> HIDE DEF first
  <1>5. /\ t \in Seq(S) /\ Len(t) = Len(s) - first + 1
        /\ \A i \in 1..Len(t) : t[i] = s[first + i - 1]
    BY <1>1, <1>3, <1>4, SubSeqProperties
  <1>6. \A d \in 1..Len(t) : At(t, d) = At(s, d)
    BY <1>1, <1>3, <1>5 DEF At
  <1> QED
    BY <1>1, <1>2, <1>3, <1>5, <1>6

\* Of a sorted sequence of ages the newest part is exactly what is young enough.
LEMMA NewestAreYoung ==
    ASSUME NEW S \in SUBSET Nat, NEW s \in Seq(S), NEW t, NEW w \in Nat, Sorted(s),
           t = Young(s, w)
    PROVE  /\ t \in Seq(S) /\ Sorted(t)
           /\ \A d \in 1..Len(t) : At(t, d) <= w
           /\ \A d \in 1..Len(s) : At(s, d) <= w => d <= Len(t)
           /\ Len(t) <= Len(s) /\ \A d \in 1..Len(t) : At(t, d) = At(s, d)
           /\ t \in Seq(0..w)
  <1> DEFINE K == {i \in DOMAIN s : s[i] <= w}
  <1>1. /\ t \in Seq(S)
        /\ Len(t) <= Len(s)
        /\ \A d \in 1..Len(t) : At(t, d) = At(s, d)
        /\ \A i \in K : Len(s) + 1 - i <= Len(t)
        /\ Len(t) > 0 => Len(s) + 1 - Len(t) \in K
    BY NewestPart DEF Young
  <1>2. Len(s) \in Nat /\ DOMAIN s = 1..Len(s) /\ \A i \in 1..Len(s) : s[i] \in Nat
    <2>1. Len(s) \in Nat /\ DOMAIN s = 1..Len(s)
      OBVIOUS
    <2>2. \A i \in 1..Len(s) : s[i] \in S
      BY <2>1, ElementOfSeq
    <2> QED
      BY <2>1, <2>2
  <1>3. Len(t) \in Nat /\ DOMAIN t = 1..Len(t)
    BY <1>1
  <1>4. ASSUME NEW d \in 1..Len(s), At(s, d) <= w PROVE d <= Len(t)
    <2>1. Len(s) + 1 - d \in K
      BY <1>2, <1>4 DEF At
    <2> QED
      BY <1>1, <1>2, <1>3, <2>1
  <1>5. ASSUME NEW d \in 1..Len(t) PROVE At(s, d) <= w
    <2>1. Len(s) + 1 - Len(t) \in 1..Len(s) /\ s[Len(s) + 1 - Len(t)] <= w
      BY <1>1, <1>3
    <2>2. Len(s) + 1 - d \in 1..Len(s) /\ Len(s) + 1 - Len(t) <= Len(s) + 1 - d
      BY <1>1, <1>2, <1>3
    <2>3. ASSUME NEW i \in 1..Len(s), NEW j \in 1..Len(s), i <= j PROVE s[j] <= s[i]
      <3>1. s[i] \in Nat /\ s[j] \in Nat /\ (i < j => s[i] >= s[j])
        BY <1>2, Zenon DEF Sorted
      <3> QED
        BY <2>3, <3>1
    <2>4. s[Len(s) + 1 - d] <= s[Len(s) + 1 - Len(t)]
      BY <2>1, <2>2, <2>3
    <2> QED
      BY <1>2, <2>1, <2>2, <2>4 DEF At
  <1>6. \A i \in 1..Len(t) : t[i] = s[Len(s) - Len(t) + i] /\ t[i] <= w /\ t[i] \in Nat
    <2> SUFFICES ASSUME NEW i \in 1..Len(t)
                 PROVE  t[i] = s[Len(s) - Len(t) + i] /\ t[i] <= w /\ t[i] \in Nat
      OBVIOUS
    <2>1. Len(t) + 1 - i \in 1..Len(t)
      BY <1>3
    <2>2. At(t, Len(t) + 1 - i) = At(s, Len(t) + 1 - i) /\ At(s, Len(t) + 1 - i) <= w
      BY <1>1, <1>5, <2>1
    <2>3. /\ Len(t) + 1 - (Len(t) + 1 - i) = i
          /\ Len(s) + 1 - (Len(t) + 1 - i) = Len(s) - Len(t) + i
          /\ Len(s) - Len(t) + i \in 1..Len(s)
      BY <1>1, <1>2, <1>3
    <2> QED
      BY <1>2, <2>2, <2>3 DEF At
  <1>7. Sorted(t)
    <2> SUFFICES ASSUME NEW i \in 1..Len(t), NEW j \in 1..Len(t), i < j PROVE t[i] >= t[j]
      BY <1>3 DEF Sorted
    <2>1. /\ Len(s) - Len(t) + i \in 1..Len(s) /\ Len(s) - Len(t) + j \in 1..Len(s)
          /\ Len(s) - Len(t) + i < Len(s) - Len(t) + j
      BY <1>1, <1>2, <1>3
    <2> QED
      BY <1>2, <1>6, <2>1 DEF Sorted
  <1>8. t \in Seq(0..w)
    <2>1. t = [i \in 1..Len(t) |-> t[i]]
      BY <1>1
    <2>2. \A i \in 1..Len(t) : t[i] \in 0..w
      BY <1>6
    <2> QED
      BY <1>3, <2>1, <2>2, IsASeq
  <1> QED
    BY <1>1, <1>4, <1>5, <1>7, <1>8

\* Evicted keeps exactly the ages within the window.
LEMMA EvictedPart ==
    ASSUME NEW e \in Seq(0..Window + 1), Sorted(e)
    PROVE  /\ Evicted(e) \in Seq(0..Window + 1) /\ Sorted(Evicted(e))
           /\ \A d \in 1..Len(Evicted(e)) : At(Evicted(e), d) <= Window
           /\ \A d \in 1..Len(e) : At(e, d) <= Window => d <= Len(Evicted(e))
           /\ Len(Evicted(e)) <= Len(e)
           /\ \A d \in 1..Len(Evicted(e)) : At(Evicted(e), d) = At(e, d)
  <1>1. 0..Window + 1 \in SUBSET Nat /\ Window \in Nat
    BY DoorAssumption
  <1>2. \A i \in DOMAIN e : e[i] \in Int
    BY <1>1, ElementOfSeq
  <1>3. {i \in DOMAIN e : ~TooOld(e[i])} = {i \in DOMAIN e : e[i] <= Window}
    BY <1>1, <1>2 DEF TooOld
  <1>4. Evicted(e) = Young(e, Window)
    BY <1>3 DEF Evicted, Newest, Young
  <1> DEFINE S == 0..Window + 1
             t == Evicted(e)
  <1>5. S \in SUBSET Nat /\ e \in Seq(S) /\ t = Young(e, Window)
    BY <1>1, <1>4
  <1> HIDE DEF S, t
  <1>6. /\ t \in Seq(S) /\ Sorted(t)
        /\ \A d \in 1..Len(t) : At(t, d) <= Window
        /\ \A d \in 1..Len(e) : At(e, d) <= Window => d <= Len(t)
        /\ Len(t) <= Len(e) /\ \A d \in 1..Len(t) : At(t, d) = At(e, d)
    BY <1>1, <1>5, NewestAreYoung
  <1> QED
    BY <1>6, Zenon DEF S, t

\* So does WithinWindow, of a history that has grown older.
LEMMA WithinPart ==
    ASSUME NEW s \in Seq(0..Window + 1), Sorted(s)
    PROVE  /\ WithinWindow(s) \in Seq(0..Window) /\ Sorted(WithinWindow(s))
           /\ \A d \in 1..Len(WithinWindow(s)) : At(WithinWindow(s), d) <= Window
           /\ \A d \in 1..Len(s) : At(s, d) <= Window => d <= Len(WithinWindow(s))
           /\ Len(WithinWindow(s)) <= Len(s)
           /\ \A d \in 1..Len(WithinWindow(s)) : At(WithinWindow(s), d) = At(s, d)
  <1>1. 0..Window + 1 \in SUBSET Nat /\ Window \in Nat
    BY DoorAssumption
  <1>2. WithinWindow(s) = Young(s, Window)
    BY DEF WithinWindow, Newest, Young
  <1> DEFINE S == 0..Window + 1
             t == WithinWindow(s)
  <1>3. S \in SUBSET Nat /\ s \in Seq(S) /\ t = Young(s, Window)
    BY <1>1, <1>2
  <1> HIDE DEF S, t
  <1>4. /\ t \in Seq(0..Window) /\ Sorted(t)
        /\ \A d \in 1..Len(t) : At(t, d) <= Window
        /\ \A d \in 1..Len(s) : At(s, d) <= Window => d <= Len(t)
        /\ Len(t) <= Len(s) /\ \A d \in 1..Len(t) : At(t, d) = At(s, d)
    BY <1>1, <1>3, NewestAreYoung
  <1> QED
    BY <1>4, Zenon DEF t

\* A new event is the newest and the others keep their order.
LEMMA AppendPart ==
    ASSUME NEW w \in Nat, NEW s \in Seq(0..w), Sorted(s)
    PROVE  /\ Append(s, 0) \in Seq(0..w) /\ Sorted(Append(s, 0))
           /\ Len(Append(s, 0)) = Len(s) + 1
           /\ At(Append(s, 0), 1) = 0
           /\ \A d \in 1..Len(s) : At(Append(s, 0), d + 1) = At(s, d)
  <1> DEFINE t == Append(s, 0)
  <1>1. Len(s) \in Nat /\ DOMAIN s = 1..Len(s) /\ 0 \in 0..w
    OBVIOUS
  <1>2. /\ t \in Seq(0..w) /\ Len(t) = Len(s) + 1 /\ DOMAIN t = 1..Len(s) + 1
        /\ \A i \in 1..Len(s) : t[i] = s[i]
        /\ t[Len(s) + 1] = 0
    BY <1>1, AppendProperties
  <1>3. \A i \in 1..Len(s) : s[i] \in 0..w
    BY <1>1, ElementOfSeq
  <1> HIDE DEF t
  <1>4. Sorted(t)
    <2> SUFFICES ASSUME NEW i \in 1..Len(s) + 1, NEW j \in 1..Len(s) + 1, i < j
                 PROVE  t[i] >= t[j]
      BY <1>2 DEF Sorted
    <2>1. i \in 1..Len(s) /\ t[i] = s[i] /\ s[i] \in Nat
      BY <1>1, <1>2, <1>3
    <2>2. CASE j = Len(s) + 1
      BY <1>2, <2>1, <2>2
    <2>3. CASE j # Len(s) + 1
      <3>a. j \in 1..Len(s)
        BY <1>1, <2>3
      <3>1. j \in 1..Len(s) /\ t[j] = s[j]
        BY <1>2, <3>a
      <3> QED
        BY <1>1, <2>1, <3>1 DEF Sorted
    <2> QED
      BY <2>2, <2>3
  <1>5. At(t, 1) = 0
    BY <1>1, <1>2 DEF At
  <1>6. ASSUME NEW d \in 1..Len(s) PROVE At(t, d + 1) = At(s, d)
    <2>1. Len(t) + 1 - (d + 1) = Len(s) + 1 - d /\ Len(s) + 1 - d \in 1..Len(s)
      BY <1>1, <1>2
    <2> QED
      BY <1>2, <2>1 DEF At
  <1> QED
    BY <1>2, <1>4, <1>5, <1>6 DEF t

\* Time moves every age by one, as far as the window's end.
LEMMA OlderPart ==
    ASSUME NEW w \in Nat, w <= Window + 1, NEW s \in Seq(0..w), Sorted(s)
    PROVE  /\ Older(s) \in Seq(0..Window + 1) /\ Sorted(Older(s))
           /\ Len(Older(s)) = Len(s)
           /\ \A d \in 1..Len(s) : At(s, d) \in 0..w /\ At(Older(s), d) = Least(At(s, d) + 1, Window + 1)
  <1> DEFINE t == Older(s)
  <1>1. Len(s) \in Nat /\ DOMAIN s = 1..Len(s) /\ Window \in Nat
    BY DoorAssumption
  <1>2. \A i \in 1..Len(s) : s[i] \in 0..w
    BY <1>1, ElementOfSeq
  <1>3. t = [i \in 1..Len(s) |-> Least(s[i] + 1, Window + 1)]
    BY <1>1 DEF Older
  <1>4. \A i \in 1..Len(s) : Least(s[i] + 1, Window + 1) \in 0..Window + 1
    BY <1>1, <1>2 DEF Least
  <1>5. t \in Seq(0..Window + 1) /\ Len(t) = Len(s) /\ DOMAIN t = 1..Len(s)
    <2>1. t \in [1..Len(s) -> 0..Window + 1]
      BY <1>3, <1>4
    <2> QED
      BY <1>1, <2>1, SeqDef
  <1> HIDE DEF t
  <1>6. Sorted(t)
    <2> SUFFICES ASSUME NEW i \in 1..Len(s), NEW j \in 1..Len(s), i < j PROVE t[i] >= t[j]
      BY <1>5 DEF Sorted
    <2>1. s[i] >= s[j]
      BY <1>1 DEF Sorted
    <2>2. s[i] \in Nat /\ s[j] \in Nat
      BY <1>2
    <2> QED
      BY <1>1, <1>3, <2>1, <2>2 DEF Least
  <1>7. ASSUME NEW d \in 1..Len(s)
        PROVE  At(s, d) \in 0..w /\ At(t, d) = Least(At(s, d) + 1, Window + 1)
    <2>1. Len(s) + 1 - d \in 1..Len(s)
      BY <1>1
    <2> QED
      BY <1>2, <1>3, <1>5, <2>1 DEF At
  <1> QED
    BY <1>5, <1>6, <1>7 DEF t

-----------------------------------------------------------------------------
(* What happens to one key at one process.                                 *)

\* What a process remembers is no more than what it did not evict.
LEMMA RefusedStaysExplained ==
    ASSUME NEW e, NEW r, NEW z, Explained(e, r, z)
    PROVE  Explained(Evicted(e), r, z)
  <1> DEFINE t == Evicted(e)
             u == Evicted(t)
  <1>1. /\ t \in Seq(0..Window + 1) /\ Sorted(t)
        /\ \A d \in 1..Len(t) : At(t, d) <= Window
        /\ \A d \in 1..Len(t) : At(t, d) = At(e, d)
    BY EvictedPart DEF Explained
  <1> HIDE DEF t
  <1>2. /\ \A d \in 1..Len(t) : At(t, d) <= Window => d <= Len(u)
        /\ Len(u) <= Len(t) /\ u \in Seq(0..Window + 1)
    BY <1>1, EvictedPart
  <1>3. Len(t) \in Nat /\ Len(u) \in Nat
    BY <1>1, <1>2
  <1> HIDE DEF u
  <1>4. Len(t) <= Len(u)
    BY <1>1, <1>2, <1>3
  <1>5. Len(u) = Len(t)
    BY <1>2, <1>3, <1>4
  <1> QED
    BY <1>1, <1>5 DEF Explained, t, u

\* A request with room becomes the newest on both sides.
LEMMA PassedStaysExplained ==
    ASSUME NEW e, NEW r, NEW z, Explained(e, r, z), Len(Evicted(e)) < Limit
    PROVE  Explained(Append(Evicted(e), 0), Append(r, 0), z)
  <1> DEFINE t == Evicted(e)
             f == Append(t, 0)
             q == Append(r, 0)
             u == Evicted(f)
  <1>0. Window \in Nat /\ Limit \in Nat
    BY DoorAssumption
  <1>1. /\ t \in Seq(0..Window + 1) /\ Sorted(t)
        /\ \A d \in 1..Len(t) : At(t, d) <= Window
        /\ \A d \in 1..Len(t) : At(t, d) = At(e, d)
    BY EvictedPart DEF Explained
  <1>2. /\ r \in Seq(0..Window) /\ Sorted(r)
        /\ z \in Seq(0..Window) /\ Sorted(z)
        /\ Len(t) < Limit
        /\ \A d \in 1..Len(t) : d <= Len(r) /\ At(r, d) = At(e, d)
        /\ \A m \in 0..Len(z), d \in 1..Len(r) :
              d > Len(t) + Limit * m => m + 1 <= Len(z) /\ At(z, m + 1) <= At(r, d)
    BY DEF Explained
  <1> HIDE DEF t
  <1>3. /\ f \in Seq(0..Window + 1) /\ Sorted(f) /\ Len(f) = Len(t) + 1
        /\ At(f, 1) = 0 /\ \A d \in 1..Len(t) : At(f, d + 1) = At(t, d)
    BY <1>0, <1>1, AppendPart
  <1>4. /\ q \in Seq(0..Window) /\ Sorted(q) /\ Len(q) = Len(r) + 1
        /\ At(q, 1) = 0 /\ \A d \in 1..Len(r) : At(q, d + 1) = At(r, d)
    BY <1>0, <1>2, AppendPart
  <1> HIDE DEF f, q
  <1>5. /\ \A d \in 1..Len(f) : At(f, d) <= Window => d <= Len(u)
        /\ Len(u) <= Len(f) /\ u \in Seq(0..Window + 1)
    BY <1>3, EvictedPart
  <1>6. Len(t) \in Nat /\ Len(u) \in Nat /\ Len(r) \in Nat /\ Len(z) \in Nat
    BY <1>1, <1>2, <1>5
  <1> HIDE DEF u
  <1>7. At(f, Len(f)) <= Window
    <2>1. CASE Len(t) = 0
      BY <1>0, <1>3, <2>1
    <2>2. CASE Len(t) # 0
      BY <1>1, <1>3, <1>6, <2>2
    <2> QED
      BY <2>1, <2>2
  <1>8. Len(u) = Len(t) + 1
    BY <1>3, <1>5, <1>6, <1>7
  <1>9. ASSUME NEW d \in 1..Len(u) PROVE d <= Len(q) /\ At(q, d) = At(f, d)
    <2>1. CASE d = 1
      BY <1>3, <1>4, <1>6, <2>1
    <2>2. CASE d # 1
      <3>1. d - 1 \in 1..Len(t) /\ (d - 1) + 1 = d
        BY <1>6, <1>8, <2>2
      <3>2. d - 1 \in 1..Len(r) /\ At(r, d - 1) = At(t, d - 1)
        BY <1>1, <1>2, <1>6, <3>1
      <3> QED
        BY <1>3, <1>4, <1>6, <3>1, <3>2
    <2> QED
      BY <2>1, <2>2
  <1>10. ASSUME NEW m \in 0..Len(z), NEW d \in 1..Len(q), d > Len(u) + Limit * m
         PROVE  m + 1 <= Len(z) /\ At(z, m + 1) <= At(q, d)
    <2>1. Limit * m \in Nat
      BY <1>0, <1>6
    <2>2. d - 1 \in 1..Len(r) /\ (d - 1) + 1 = d /\ d - 1 > Len(t) + Limit * m
      BY <1>4, <1>6, <1>8, <1>10, <2>1
    <2> QED
      BY <1>2, <1>4, <2>2
  <1>11. Len(u) <= Limit
    BY <1>0, <1>2, <1>6, <1>8
  <1> QED
    BY <1>2, <1>3, <1>4, <1>9, <1>10, <1>11 DEF Explained, u, f, q, t

\* A restart forgets at most Limit requests and lies in front of all of them.
LEMMA ReplacedStaysExplained ==
    ASSUME NEW e, NEW r, NEW z, Explained(e, r, z)
    PROVE  Explained(<<>>, r, Append(z, 0))
  <1> DEFINE g == <<>>
             y == Append(z, 0)
             n == Len(Evicted(e))
  <1>0. Window \in Nat /\ Limit \in Nat
    BY DoorAssumption
  <1>1. /\ r \in Seq(0..Window) /\ Sorted(r)
        /\ z \in Seq(0..Window) /\ Sorted(z)
        /\ n <= Limit
        /\ \A m \in 0..Len(z), d \in 1..Len(r) :
              d > n + Limit * m => m + 1 <= Len(z) /\ At(z, m + 1) <= At(r, d)
    BY DEF Explained
  <1>2. n \in Nat
    <2>1. Evicted(e) \in Seq(0..Window + 1)
      BY EvictedPart DEF Explained
    <2> QED
      BY <2>1
  <1> HIDE DEF n
  <1>3. g \in Seq(0..Window + 1) /\ Sorted(g) /\ Len(g) = 0
    BY DEF Sorted
  <1> HIDE DEF g
  <1>4. Len(Evicted(g)) = 0
    <2>1. Evicted(g) \in Seq(0..Window + 1) /\ Len(Evicted(g)) <= Len(g)
      BY <1>3, EvictedPart
    <2> QED
      BY <1>3, <2>1
  <1>5. /\ y \in Seq(0..Window) /\ Sorted(y) /\ Len(y) = Len(z) + 1
        /\ At(y, 1) = 0 /\ \A d \in 1..Len(z) : At(y, d + 1) = At(z, d)
    BY <1>0, <1>1, AppendPart
  <1> HIDE DEF y
  <1>6. Len(z) \in Nat /\ Len(r) \in Nat /\ \A d \in 1..Len(r) : At(r, d) \in Nat
    <2>1. Len(r) \in Nat /\ DOMAIN r = 1..Len(r) /\ Len(z) \in Nat
      BY <1>1
    <2>2. \A i \in 1..Len(r) : r[i] \in Nat
      BY <1>0, <1>1, <2>1, ElementOfSeq
    <2> QED
      BY <2>1, <2>2 DEF At
  <1>7. ASSUME NEW m \in 0..Len(y), NEW d \in 1..Len(r), d > Len(Evicted(g)) + Limit * m
        PROVE  m + 1 <= Len(y) /\ At(y, m + 1) <= At(r, d)
    <2>1. CASE m = 0
      BY <1>5, <1>6, <2>1
    <2>2. CASE m # 0
      <3>1. m - 1 \in 0..Len(z) /\ (m - 1) + 1 = m
        BY <1>5, <1>6, <2>2
      <3>2. \A l, i \in Nat : l * (i + 1) = l * i + l /\ l * i \in Nat
        OBVIOUS
      <3>3. Limit * m = Limit * (m - 1) + Limit /\ Limit * (m - 1) \in Nat
        BY <1>0, <1>6, <3>1, <3>2
      <3>4. d > n + Limit * (m - 1)
        BY <1>0, <1>1, <1>2, <1>4, <1>7, <3>3
      <3>5. m <= Len(z) /\ At(z, m) <= At(r, d)
        BY <1>1, <3>1, <3>4
      <3> QED
        BY <1>5, <1>6, <2>2, <3>5
    <2> QED
      BY <2>1, <2>2
  <1> QED
    BY <1>0, <1>1, <1>3, <1>4, <1>5, <1>7 DEF Explained, g, y

\* Time takes the same requests from both sides, and a restart leaves the window
\* after the requests it lies in front of.
LEMMA AgedStaysExplained ==
    ASSUME NEW e, NEW r, NEW z, Explained(e, r, z)
    PROVE  Explained(Older(e), WithinWindow(Older(r)), WithinWindow(Older(z)))
  <1> DEFINE f == Older(e)
             q == WithinWindow(Older(r))
             y == WithinWindow(Older(z))
             n == Len(Evicted(e))
             l == Len(Evicted(f))
  <1>0. Window \in Nat /\ Limit \in Nat
    BY DoorAssumption
  <1>1. /\ e \in Seq(0..Window + 1) /\ Sorted(e)
        /\ r \in Seq(0..Window) /\ Sorted(r)
        /\ z \in Seq(0..Window) /\ Sorted(z)
        /\ n <= Limit
        /\ \A d \in 1..n : d <= Len(r) /\ At(r, d) = At(e, d)
        /\ \A m \in 0..Len(z), d \in 1..Len(r) :
              d > n + Limit * m => m + 1 <= Len(z) /\ At(z, m + 1) <= At(r, d)
    BY DEF Explained
  <1>2. /\ Evicted(e) \in Seq(0..Window + 1) /\ n <= Len(e)
        /\ \A d \in 1..Len(e) : At(e, d) <= Window => d <= n
    BY <1>1, EvictedPart
  <1>3. /\ f \in Seq(0..Window + 1) /\ Sorted(f) /\ Len(f) = Len(e)
        /\ \A d \in 1..Len(e) : At(e, d) \in 0..Window + 1 /\ At(f, d) = Least(At(e, d) + 1, Window + 1)
    BY <1>0, <1>1, OlderPart
  <1>4. /\ Evicted(f) \in Seq(0..Window + 1) /\ l <= Len(f)
        /\ \A d \in 1..Len(f) : At(f, d) <= Window => d <= l
        /\ \A d \in 1..l : At(Evicted(f), d) <= Window
        /\ \A d \in 1..l : At(Evicted(f), d) = At(f, d)
    BY <1>3, EvictedPart
  <1>5. /\ q \in Seq(0..Window) /\ Sorted(q) /\ Len(q) <= Len(r)
        /\ \A d \in 1..Len(r) : At(r, d) \in Nat /\ (At(r, d) + 1 <= Window => d <= Len(q))
        /\ \A d \in 1..Len(q) : At(q, d) = At(r, d) + 1 /\ At(q, d) <= Window
    <2>1. /\ Older(r) \in Seq(0..Window + 1) /\ Sorted(Older(r)) /\ Len(Older(r)) = Len(r)
          /\ \A d \in 1..Len(r) : At(r, d) \in 0..Window /\ At(Older(r), d) = Least(At(r, d) + 1, Window + 1)
      BY <1>0, <1>1, OlderPart
    <2>2. /\ q \in Seq(0..Window) /\ Sorted(q)
          /\ \A d \in 1..Len(q) : At(q, d) <= Window
          /\ \A d \in 1..Len(Older(r)) : At(Older(r), d) <= Window => d <= Len(q)
          /\ Len(q) <= Len(Older(r))
          /\ \A d \in 1..Len(q) : At(q, d) = At(Older(r), d)
      BY <2>1, WithinPart
    <2>3. Len(r) \in Nat /\ Len(q) \in Nat
      BY <1>1, <2>2
    <2>4. \A d \in 1..Len(r) : At(r, d) \in Nat /\ At(Older(r), d) = At(r, d) + 1
      BY <1>0, <2>1 DEF Least
    <2> HIDE DEF q
    <2> QED
      BY <2>1, <2>2, <2>3, <2>4
  <1>6. /\ y \in Seq(0..Window) /\ Sorted(y) /\ Len(y) <= Len(z)
        /\ \A d \in 1..Len(z) : At(z, d) \in Nat /\ (At(z, d) + 1 <= Window => d <= Len(y))
        /\ \A d \in 1..Len(y) : At(y, d) = At(z, d) + 1
    <2>1. /\ Older(z) \in Seq(0..Window + 1) /\ Sorted(Older(z)) /\ Len(Older(z)) = Len(z)
          /\ \A d \in 1..Len(z) : At(z, d) \in 0..Window /\ At(Older(z), d) = Least(At(z, d) + 1, Window + 1)
      BY <1>0, <1>1, OlderPart
    <2>2. /\ y \in Seq(0..Window) /\ Sorted(y)
          /\ \A d \in 1..Len(Older(z)) : At(Older(z), d) <= Window => d <= Len(y)
          /\ Len(y) <= Len(Older(z))
          /\ \A d \in 1..Len(y) : At(y, d) = At(Older(z), d)
      BY <2>1, WithinPart
    <2>3. Len(z) \in Nat /\ Len(y) \in Nat
      BY <1>1, <2>2
    <2>4. \A d \in 1..Len(z) : At(z, d) \in Nat /\ At(Older(z), d) = At(z, d) + 1
      BY <1>0, <2>1 DEF Least
    <2> HIDE DEF y
    <2> QED
      BY <2>1, <2>2, <2>3, <2>4
  <1>7. /\ Len(e) \in Nat /\ n \in Nat /\ l \in Nat /\ Len(r) \in Nat /\ Len(q) \in Nat
        /\ Len(z) \in Nat /\ Len(y) \in Nat
    BY <1>1, <1>2, <1>4, <1>5, <1>6
  <1> HIDE DEF f, q, y, n, l
  <1>8. ASSUME NEW d \in 1..l
        PROVE  d \in 1..n /\ d <= Len(q) /\ At(q, d) = At(f, d)
    <2>1. d \in 1..Len(e) /\ At(f, d) <= Window
      BY <1>3, <1>4, <1>7
    <2>2. At(e, d) \in Nat /\ At(f, d) = At(e, d) + 1 /\ At(e, d) + 1 <= Window
      BY <1>0, <1>3, <2>1 DEF Least
    <2>3. d <= n
      BY <1>0, <1>2, <2>1, <2>2
    <2>4. d \in 1..Len(r) /\ At(r, d) = At(e, d)
      BY <1>1, <1>7, <2>3
    <2> QED
      BY <1>5, <1>7, <2>2, <2>3, <2>4
  <1>9. l <= n
    BY <1>7, <1>8
  <1>10. ASSUME NEW m \in 0..Len(y), NEW d \in 1..Len(q), d > l + Limit * m
         PROVE  m + 1 <= Len(y) /\ At(y, m + 1) <= At(q, d)
    <2>1. Limit * m \in Nat /\ m \in 0..Len(z) /\ d \in 1..Len(r)
      BY <1>0, <1>5, <1>6, <1>7
    <2>2. At(q, d) = At(r, d) + 1 /\ At(r, d) + 1 <= Window /\ At(r, d) \in Nat
      BY <1>5, <2>1
    <2>3. l = n
      <3>1. SUFFICES ASSUME l < n PROVE FALSE
        BY <1>7, <1>9
      <3>2. l + 1 \in 1..n /\ l + 1 \in 1..Len(e) /\ l + 1 <= d
        BY <1>2, <1>7, <1>10, <2>1, <3>1
      <3>3. l + 1 \in 1..Len(q)
        BY <1>7, <3>2
      <3>4. At(r, l + 1) = At(e, l + 1)
        BY <1>1, <3>2
      <3>5. At(r, l + 1) + 1 <= Window /\ At(r, l + 1) \in Nat
        BY <1>5, <1>7, <3>3
      <3>6. At(f, l + 1) <= Window
        BY <1>0, <1>3, <3>2, <3>4, <3>5 DEF Least
      <3> QED
        BY <1>3, <1>4, <1>7, <3>2, <3>6
    <2>4. m + 1 <= Len(z) /\ At(z, m + 1) <= At(r, d)
      BY <1>1, <1>10, <2>1, <2>3
    <2>5. m + 1 \in 1..Len(z)
      BY <1>7, <2>4
    <2>6. At(z, m + 1) \in Nat /\ At(z, m + 1) + 1 <= Window
      BY <1>0, <1>6, <2>2, <2>4, <2>5
    <2>7. m + 1 \in 1..Len(y)
      BY <1>6, <1>7, <2>5, <2>6
    <2> QED
      BY <1>6, <1>7, <2>2, <2>4, <2>6, <2>7
  <1>11. l <= Limit
    BY <1>0, <1>1, <1>7, <1>9
  <1> QED
    BY <1>3, <1>5, <1>6, <1>8, <1>10, <1>11 DEF Explained, f, q, y, l

-----------------------------------------------------------------------------
(* The limiter.                                                            *)

\* Initially nothing was let through and nothing restarted.
LEMMA LimiterInit == DoorInit => LimiterInv
  <1> SUFFICES ASSUME DoorInit PROVE LimiterInv
    OBVIOUS
  <1>0. Window \in Nat /\ Limit \in Nat
    BY DoorAssumption
  <1> DEFINE g == <<>>
  <1>1. g \in Seq(0..Window + 1) /\ g \in Seq(0..Window) /\ Sorted(g) /\ Len(g) = 0
    BY DEF Sorted
  <1>2. /\ events = [p \in Processes |-> [k \in DoorKeys |-> g]]
        /\ recent = [p \in Processes |-> [k \in DoorKeys |-> g]]
        /\ resets = [p \in Processes |-> g]
    BY DEF DoorInit, Forgotten
  <1> HIDE DEF g
  <1>3. Len(Evicted(g)) = 0
    <2>1. Evicted(g) \in Seq(0..Window + 1) /\ Len(Evicted(g)) <= Len(g)
      BY <1>1, EvictedPart
    <2> QED
      BY <1>1, <2>1
  <1>4. Explained(g, g, g)
    BY <1>0, <1>1, <1>3 DEF Explained
  <1> QED
    BY <1>1, <1>2, <1>4 DEF LimiterInv

\* check changes the memory of one key at one process.
LEMMA CheckKeeps ==
    ASSUME LimiterInv, NEW p \in Processes, NEW k, Check(p, k)
    PROVE  LimiterInv'
  <1>1. CASE k \notin DoorKeys
    <2>1. events' = events /\ recent' = recent /\ resets' = resets
      BY <1>1 DEF LimiterInv, Check
    <2> QED
      BY <2>1 DEF LimiterInv
  <1>2. CASE k \in DoorKeys
    <2> DEFINE e == events[p][k]
               r == recent[p][k]
    <2>1. Explained(e, r, resets[p])
      BY <1>2 DEF LimiterInv
    <2>2. Evicted(e) \in Seq(0..Window + 1)
      BY <2>1, EvictedPart DEF Explained
    <2>3. /\ events'[p][k] = IF HasRoom(p, k) THEN Append(Evicted(e), 0) ELSE Evicted(e)
          /\ recent'[p][k] = IF HasRoom(p, k) THEN Append(r, 0) ELSE r
      <3>1. Evicted(e) \o <<0>> = Append(Evicted(e), 0) /\ Evicted(e) \o <<>> = Evicted(e)
        BY <2>2
      <3>2. events'[p][k] = Remembers(p, k)
        BY <1>2 DEF LimiterInv, Check
      <3>3. recent'[p][k] = IF HasRoom(p, k) THEN Append(r, 0) ELSE r
        BY <1>2 DEF LimiterInv, Check
      <3> QED
        BY <3>1, <3>2, <3>3 DEF Remembers
    <2>4. resets' = resets
      BY DEF Check
    <2>5. Explained(events'[p][k], recent'[p][k], resets[p])
      <3>1. CASE HasRoom(p, k)
        BY <2>1, <2>3, <3>1, PassedStaysExplained DEF HasRoom
      <3>2. CASE ~HasRoom(p, k)
        BY <2>1, <2>3, <3>2, RefusedStaysExplained
      <3> QED
        BY <3>1, <3>2
    <2>6. events'[p][k] \in Seq(0..Window + 1) /\ recent'[p][k] \in Seq(0..Window)
      BY <2>5 DEF Explained
    <2>7. \A q \in Processes, h \in DoorKeys :
              <<q, h>> # <<p, k>> => events'[q][h] = events[q][h] /\ recent'[q][h] = recent[q][h]
      BY DEF LimiterInv, Check
    <2>8. events' \in [Processes -> [DoorKeys -> Seq(0..Window + 1)]]
      <3>1. events' = [events EXCEPT ![p] = [events[p] EXCEPT ![k] = Remembers(p, k)]]
        BY DEF Check
      <3>2. Remembers(p, k) \in Seq(0..Window + 1)
        BY <1>2, <2>6, <3>1 DEF LimiterInv
      <3> QED
        BY <3>1, <3>2 DEF LimiterInv
    <2>9. recent' \in [Processes -> [DoorKeys -> Seq(0..Window)]]
      <3>1. CASE HasRoom(p, k)
        <4>1. recent' = [recent EXCEPT ![p] = [recent[p] EXCEPT ![k] = Append(r, 0)]]
          BY <3>1 DEF Check
        <4>2. Append(r, 0) \in Seq(0..Window)
          BY <2>3, <2>6, <3>1
        <4> QED
          BY <4>1, <4>2 DEF LimiterInv
      <3>2. CASE ~HasRoom(p, k)
        BY <3>2 DEF LimiterInv, Check
      <3> QED
        BY <3>1, <3>2
    <2>10. \A q \in Processes, h \in DoorKeys : Explained(events'[q][h], recent'[q][h], resets'[q])
      BY <2>4, <2>5, <2>7 DEF LimiterInv
    <2> QED
      BY <2>4, <2>8, <2>9, <2>10 DEF LimiterInv
  <1> QED
    BY <1>1, <1>2

\* A replaced process has forgotten every key.
LEMMA ReplaceKeeps ==
    ASSUME LimiterInv, NEW p \in Processes, Replace(p)
    PROVE  LimiterInv'
  <1>0. Window \in Nat
    BY DoorAssumption
  <1>1. /\ events' = [events EXCEPT ![p] = Forgotten]
        /\ resets' = [resets EXCEPT ![p] = Append(resets[p], 0)]
        /\ recent' = recent
    BY DEF Replace
  <1>2. Append(resets[p], 0) \in Seq(0..Window) /\ Sorted(Append(resets[p], 0))
    BY <1>0, AppendPart DEF LimiterInv
  <1>3. Forgotten \in [DoorKeys -> Seq(0..Window + 1)]
    BY DEF Forgotten
  <1>4. /\ events' \in [Processes -> [DoorKeys -> Seq(0..Window + 1)]]
        /\ resets' \in [Processes -> Seq(0..Window)]
        /\ \A q \in Processes : Sorted(resets'[q])
    BY <1>1, <1>2, <1>3 DEF LimiterInv
  <1>5. ASSUME NEW q \in Processes, NEW k \in DoorKeys
        PROVE  Explained(events'[q][k], recent'[q][k], resets'[q])
    <2>1. Explained(events[q][k], recent[q][k], resets[q])
      BY DEF LimiterInv
    <2>2. CASE q = p
      <3>1. events'[q][k] = <<>> /\ resets'[q] = Append(resets[q], 0)
        BY <1>1, <2>2 DEF LimiterInv, Forgotten
      <3> QED
        BY <1>1, <2>1, <3>1, ReplacedStaysExplained
    <2>3. CASE q # p
      <3>1. events'[q] = events[q] /\ resets'[q] = resets[q]
        BY <1>1, <2>3 DEF LimiterInv
      <3> QED
        BY <1>1, <2>1, <3>1
    <2> QED
      BY <2>2, <2>3
  <1> QED
    BY <1>1, <1>4, <1>5 DEF LimiterInv

\* A second passes for every process and key.
LEMMA TickKeeps ==
    ASSUME LimiterInv, Tick
    PROVE  LimiterInv'
  <1>0. Window \in Nat
    BY DoorAssumption
  <1>1. ASSUME NEW p \in Processes, NEW k \in DoorKeys
        PROVE  Explained(events'[p][k], recent'[p][k], resets'[p])
    <2>1. Explained(events[p][k], recent[p][k], resets[p])
      BY DEF LimiterInv
    <2>2. /\ events'[p][k] = Older(events[p][k])
          /\ recent'[p][k] = WithinWindow(Older(recent[p][k]))
          /\ resets'[p] = WithinWindow(Older(resets[p]))
      BY DEF Tick
    <2> QED
      BY <2>1, <2>2, AgedStaysExplained
  <1>2. /\ events' = [p \in Processes |-> [k \in DoorKeys |-> events'[p][k]]]
        /\ recent' = [p \in Processes |-> [k \in DoorKeys |-> recent'[p][k]]]
    BY DEF Tick
  <1>3. /\ events' \in [Processes -> [DoorKeys -> Seq(0..Window + 1)]]
        /\ recent' \in [Processes -> [DoorKeys -> Seq(0..Window)]]
    BY <1>1, <1>2 DEF Explained
  <1>4. ASSUME NEW p \in Processes PROVE resets'[p] \in Seq(0..Window) /\ Sorted(resets'[p])
    <2>1. resets[p] \in Seq(0..Window) /\ Sorted(resets[p])
      BY DEF LimiterInv
    <2>2. Older(resets[p]) \in Seq(0..Window + 1) /\ Sorted(Older(resets[p]))
      BY <1>0, <2>1, OlderPart
    <2>3. resets'[p] = WithinWindow(Older(resets[p]))
      BY DEF Tick
    <2> QED
      BY <2>2, <2>3, WithinPart
  <1>5. resets' \in [Processes -> Seq(0..Window)]
    BY <1>4 DEF Tick
  <1> QED
    BY <1>1, <1>3, <1>4, <1>5 DEF LimiterInv

\* Every step preserves the invariant.
LEMMA LimiterStep ==
    ASSUME LimiterInv, [DoorNext]_<<vars, doorVars>>
    PROVE  LimiterInv'
  <1>1. ASSUME UNCHANGED doorVars PROVE LimiterInv'
    BY <1>1 DEF LimiterInv, doorVars
  <1>2. ASSUME NEW p \in Processes, NEW secret, NEW client, Count(p, secret, client)
        PROVE  LimiterInv'
    BY <1>2, CheckKeeps DEF Count
  <1>3. ASSUME NEW p \in Processes, NEW secret,
               Unauthorized(p, secret)
        PROVE  LimiterInv'
    BY <1>1, <1>3 DEF Unauthorized
  <1>4. ASSUME NEW p \in Processes, NEW secret, NEW client,
               GetJob(p, secret, client) \/ \E s \in Submissions : PostJob(p, secret, client, s)
        PROVE  LimiterInv'
    BY <1>2, <1>4 DEF GetJob, PostJob
  <1>5. ASSUME NEW p \in Processes, Replace(p) PROVE LimiterInv'
    BY <1>5, ReplaceKeeps
  <1>6. CASE Handle
    BY <1>1, <1>6 DEF Handle
  <1>7. CASE Tick
    BY <1>7, TickKeeps
  <1>8. CASE UNCHANGED <<vars, doorVars>>
    BY <1>1, <1>8
  <1> QED
    BY <1>3, <1>4, <1>5, <1>6, <1>7, <1>8 DEF DoorNext

\* The invariant holds in every reachable state.
LEMMA LimiterHolds == DoorSpec => []LimiterInv
  BY LimiterInit, LimiterStep, PTL DEF DoorSpec

\* The sliding window of each process (SlidingWindowRateLimiter.check) lets a key
\* through at most Limit times in any closed window, and that often again for
\* each restart in it, which is all that losing the deque can cost.
THEOREM QuotaIsHeld == DoorSpec => []QuotaHolds
  <1>1. LimiterInv => QuotaHolds
    <2> SUFFICES ASSUME LimiterInv, NEW p \in Processes, NEW k \in DoorKeys,
                        Len(recent[p][k]) > Limit * (1 + Len(resets[p]))
                 PROVE  FALSE
      <3>1. \A p \in Processes, k \in DoorKeys : LimiterInv => Len(recent[p][k]) \in Nat /\ Len(resets[p]) \in Nat
        BY DEF LimiterInv
      <3>2. \A l, m \in Nat : l * (1 + m) \in Nat
        OBVIOUS
      <3> QED
        BY <3>1, <3>2, DoorAssumption DEF QuotaHolds
    <2> DEFINE e == events[p][k]
               r == recent[p][k]
               z == resets[p]
               n == Len(Evicted(e))
    <2>1. Explained(e, r, z)
      BY DEF LimiterInv
    <2>2. Evicted(e) \in Seq(0..Window + 1)
      BY <2>1, EvictedPart DEF Explained
    <2>3. n \in Nat /\ n <= Limit /\ Len(r) \in Nat /\ Len(z) \in Nat
      BY <2>1, <2>2 DEF Explained
    <2>4. \A m \in 0..Len(z), d \in 1..Len(r) : d > n + Limit * m => m + 1 <= Len(z)
      BY <2>1 DEF Explained
    <2> HIDE DEF n, r, z
    <2>5. \A l, m \in Nat : l * (1 + m) = l * m + l /\ l * m \in Nat
      OBVIOUS
    <2>6. Limit * (1 + Len(z)) = Limit * Len(z) + Limit /\ Limit * Len(z) \in Nat /\ Limit \in Nat
      BY <2>3, <2>5, DoorAssumption
    <2>7. Len(r) > n + Limit * Len(z) /\ Len(r) \in 1..Len(r)
      BY <2>3, <2>6 DEF r, z
    <2>8. Len(z) + 1 <= Len(z)
      BY <2>3, <2>4, <2>7
    <2> QED
      BY <2>3, <2>8
  <1> QED
    BY <1>1, LimiterHolds, PTL

\* A process answers 429 only for a key it let through Limit times within the
\* window: refused requests, other keys and evictions never count.
THEOREM RefusalsAreEarned == DoorSpec => []RefusalIsEarned
  <1>1. LimiterInv => RefusalIsEarned
    <2> SUFFICES ASSUME LimiterInv, NEW p \in Processes, NEW k \in DoorKeys, ~HasRoom(p, k)
                 PROVE  Len(recent[p][k]) >= Limit
      BY DEF RefusalIsEarned
    <2> DEFINE n == Len(Evicted(events[p][k]))
    <2>1. Explained(events[p][k], recent[p][k], resets[p])
      BY DEF LimiterInv
    <2>2. Evicted(events[p][k]) \in Seq(0..Window + 1)
      BY <2>1, EvictedPart DEF Explained
    <2>3. /\ n \in Nat /\ Len(recent[p][k]) \in Nat
          /\ \A d \in 1..n : d <= Len(recent[p][k])
      BY <2>1, <2>2 DEF Explained
    <2>4. n >= Limit /\ Limit \in Nat \ {0}
      BY <2>3, DoorAssumption DEF HasRoom
    <2> HIDE DEF n
    <2>5. n <= Len(recent[p][k])
      BY <2>3, <2>4
    <2> QED
      BY <2>3, <2>4, <2>5
  <1> QED
    BY <1>1, LimiterHolds, PTL

-----------------------------------------------------------------------------
(* The submissions behind the door.                                        *)

\* Whatever the guard does, the handler only sees what Submission lets it do.
LEMMA DoorStepsAreSteps ==
    ASSUME [DoorNext]_<<vars, doorVars>>
    PROVE  [Next]_vars
  <1>1. ASSUME NEW p \in Processes, NEW secret,
               \/ Unauthorized(p, secret)
               \/ \E client \in Clients :
                     GetJob(p, secret, client) \/ \E s \in Submissions : PostJob(p, secret, client, s)
        PROVE  [Next]_vars
    BY <1>1 DEF Unauthorized, GetJob, PostJob, Next
  <1>2. ASSUME NEW p \in Processes, Replace(p) PROVE [Next]_vars
    BY <1>2 DEF Replace, Next
  <1>3. CASE Handle
    BY <1>3 DEF Handle, Next
  <1>4. CASE Tick \/ UNCHANGED <<vars, doorVars>>
    BY <1>4 DEF Tick
  <1> QED
    BY <1>1, <1>2, <1>3, <1>4 DEF DoorNext

\* The route with its guard implements the submission handler: authentication,
\* rate limiting and restarts add no behaviour to create_job.
THEOREM DoorImplementsSubmission == DoorSpec => Spec
  <1>1. DoorInit => Init
    BY DEF DoorInit
  <1> QED
    BY <1>1, DoorStepsAreSteps, PTL DEF DoorSpec, Spec

\* Content that was capped is content.
LEMMA ContentType ==
    ASSUME NEW s \in Submissions
    PROVE  ContentOf(s) \in Contents /\ s.key \in Keys
  BY SubmissionAssumption DEF Submissions, Contents, ContentOf, Least

\* Every step keeps the types.
LEMMA TypesStep ==
    ASSUME TypeOK, [Next]_vars
    PROVE  TypeOK'
  <1>1. ASSUME NEW p \in Processes, NEW s \in Submissions, Receive(p, s) PROVE TypeOK'
    BY <1>1, SubmissionAssumption DEF TypeOK, Receive, Goto, Decided
  <1>2. ASSUME NEW p \in Processes, SelectNothing(p) \/ InsertRejected(p) PROVE TypeOK'
    BY <1>2 DEF TypeOK, SelectNothing, InsertRejected, Goto, Decided, counters
  <1>3. ASSUME NEW p \in Processes, SelectReplay(p) \/ Reselect(p) PROVE TypeOK'
    BY <1>3 DEF TypeOK, SelectReplay, Reselect, Existing, Goto, Decided, counters
  <1>4. ASSUME NEW p \in Processes, SelectConflict(p) \/ ReselectNothing(p) PROVE TypeOK'
    BY <1>4 DEF TypeOK, SelectConflict, ReselectNothing, Finish, Goto, Decided, counters
  <1>5. ASSUME NEW p \in Processes, Insert(p) PROVE TypeOK'
    <2>1. NewRow(p) \in Rows /\ lastId + 1 \in Nat
      BY <1>5, ContentType DEF TypeOK, Insert, NewRow, Rows
    <2> QED
      BY <1>5, <2>1 DEF TypeOK, Insert, Goto, Decided, counters
  <1>6. ASSUME NEW p \in Processes, AuditAndAnswer(p) PROVE TypeOK'
    <2>1. Acceptance(p) \in [submission : Submissions, row : Rows]
      BY <1>6 DEF TypeOK, AuditAndAnswer, Acceptance, Decided
    <2>2. answer[p].id \in Nat
      BY <1>6 DEF TypeOK, AuditAndAnswer, Rows
    <2> QED
      BY <1>6, <2>1, <2>2 DEF TypeOK, AuditAndAnswer, Audited, Finish, Goto, Decided, counters
  <1>7. ASSUME NEW p \in Processes, Crash(p) PROVE TypeOK'
    BY <1>7, SubmissionAssumption DEF TypeOK, Crash, Finish, Goto, Decided
  <1>8. ASSUME NEW j \in jobs, Purge(j) PROVE TypeOK'
    BY <1>8, SubmissionAssumption DEF TypeOK, Purge, Decided
  <1>9. CASE UNCHANGED vars
    BY <1>9 DEF TypeOK, vars, Decided
  <1> QED
    BY <1>1, <1>2, <1>3, <1>4, <1>5, <1>6, <1>7, <1>8, <1>9 DEF Next, Serve

\* The gone rows are no more than before when the step answers only with rows
\* that the table holds.
LEMMA GoneFrame ==
    ASSUME SubmissionInv, TypeOK', purges' = purges, jobs \subseteq jobs',
           \A k \in Keys : Answered(k)' \union Answering(k)' \subseteq
                               Answered(k) \union Answering(k) \union jobs'
    PROVE  GoneWerePurged'
  <1> SUFFICES ASSUME NEW k \in Keys
               PROVE  IsFiniteSet(Gone(k)') /\ Cardinality(Gone(k)') <= purges
    BY DEF GoneWerePurged
  <1>1. Gone(k)' \subseteq Gone(k)
    BY DEF Gone
  <1>2. IsFiniteSet(Gone(k)) /\ Cardinality(Gone(k)) <= purges
    BY DEF SubmissionInv, GoneWerePurged
  <1>3. IsFiniteSet(Gone(k)') /\ Cardinality(Gone(k)') <= Cardinality(Gone(k))
    BY <1>1, <1>2, FS_Subset
  <1>4. Cardinality(Gone(k)') \in Nat /\ Cardinality(Gone(k)) \in Nat /\ purges \in Nat
    BY <1>2, <1>3, FS_CardinalityType, SubmissionAssumption DEF SubmissionInv, TypeOK
  <1> QED
    BY <1>2, <1>3, <1>4

\* The lost jobs are no more than before when the step loses none.
LEMMA LostFrame ==
    ASSUME SubmissionInv, crashes' = crashes, Lost' \subseteq Lost
    PROVE  LostCrashed'
  <1>1. IsFiniteSet(Lost) /\ Cardinality(Lost) <= crashes
    BY DEF SubmissionInv, LostCrashed
  <1>2. IsFiniteSet(Lost') /\ Cardinality(Lost') <= Cardinality(Lost)
    BY <1>1, FS_Subset
  <1>3. Cardinality(Lost') \in Nat /\ Cardinality(Lost) \in Nat /\ crashes \in Nat
    BY <1>1, <1>2, FS_CardinalityType, SubmissionAssumption DEF SubmissionInv, TypeOK
  <1>4. Cardinality(Lost') <= crashes
    BY <1>1, <1>2, <1>3
  <1> QED
    BY <1>2, <1>4 DEF LostCrashed

\* A step of a process that has, and gets, no answer yet.
LEMMA UndecidedKeeps ==
    ASSUME SubmissionInv, TypeOK', NEW p \in Processes, ~Decided(p), ~Decided(p)',
           \A q \in Processes \ {p} :
               pc'[q] = pc[q] /\ request'[q] = request[q] /\ answer'[q] = answer[q],
           UNCHANGED <<jobs, audits, accepted, created, purges, crashes>>
    PROVE  SubmissionInv'
  <1>1. \A q \in Processes : Decided(q)' <=> Decided(q)
    BY DEF Decided
  <1>2. \A q \in Processes : Decided(q) => q # p
    OBVIOUS
  <1>3. \A k \in Keys : Answering(k)' = Answering(k) /\ Answered(k)' = Answered(k)
    BY <1>1, <1>2 DEF Answering, Answered
  <1>4. Auditing' = Auditing
    BY <1>1, <1>2 DEF Auditing
  <1>5. GoneWerePurged'
    BY <1>3, GoneFrame
  <1>6. LostCrashed'
    BY <1>4, LostFrame DEF Lost
  <1>7. AnswersFit'
    BY <1>1, <1>2 DEF SubmissionInv, AnswersFit, Decided
  <1>8. KeysAreUnique' /\ AcceptancesFit'
    BY DEF SubmissionInv, KeysAreUnique, AcceptancesFit
  <1> QED
    BY <1>5, <1>6, <1>7, <1>8 DEF SubmissionInv

\* A process is answered with a row of its key.
LEMMA AnsweredKeeps ==
    ASSUME SubmissionInv, TypeOK', NEW p \in Processes, ~Decided(p),
           NEW j \in jobs, j.key = request[p].key,
           pc' = [pc EXCEPT ![p] = "audit"],
           answer' = [answer EXCEPT ![p] = j],
           UNCHANGED <<jobs, audits, request, accepted, created, purges, crashes>>
    PROVE  SubmissionInv'
  <1>0. pc \in [Processes -> {"idle", "select", "insert", "reselect", "audit"}] /\ p \in DOMAIN answer
    BY DEF SubmissionInv, TypeOK
  <1>1. \A q \in Processes : q # p => pc'[q] = pc[q] /\ answer'[q] = answer[q]
    BY <1>0 DEF SubmissionInv, TypeOK
  <1>2. answer'[p] = j /\ Decided(p)'
    BY <1>0 DEF SubmissionInv, TypeOK, Decided
  <1>3. \A q \in Processes : Decided(q) => q # p /\ Decided(q)'
    BY <1>1 DEF Decided
  <1>4. \A q \in Processes : q # p /\ Decided(q)' => Decided(q)
    BY <1>1 DEF Decided
  <1>5. GoneWerePurged'
    <2>1. ASSUME NEW k \in Keys
          PROVE  Answered(k)' = Answered(k) /\ Answering(k)' \subseteq Answering(k) \union jobs
      BY <1>1, <1>2, <1>4 DEF Answering, Answered
    <2> QED
      BY <2>1, GoneFrame
  <1>6. LostCrashed'
    <2>1. Auditing \subseteq Auditing'
      BY <1>1, <1>3 DEF Auditing
    <2> QED
      BY <2>1, LostFrame DEF Lost
  <1>7. AnswersFit'
    <2> SUFFICES ASSUME NEW q \in Processes
                 PROVE  Decided(q)' => answer'[q].key = request[q].key
      BY DEF AnswersFit
    <2>1. CASE q = p
      BY <1>0, <1>2, <2>1
    <2>2. CASE q # p
      BY <1>1, <1>4, <2>2 DEF SubmissionInv, AnswersFit
    <2> QED
      BY <2>1, <2>2
  <1>8. KeysAreUnique' /\ AcceptancesFit'
    BY DEF SubmissionInv, KeysAreUnique, AcceptancesFit
  <1> QED
    BY <1>5, <1>6, <1>7, <1>8 DEF SubmissionInv

\* The row inserted is answered, and its process will audit it.
LEMMA InsertKeeps ==
    ASSUME SubmissionInv, TypeOK', NEW p \in Processes, Insert(p)
    PROVE  SubmissionInv'
  <1>0. /\ pc \in [Processes -> {"idle", "select", "insert", "reselect", "audit"}]
        /\ p \in DOMAIN answer /\ ~Decided(p)
    BY DEF SubmissionInv, TypeOK, Insert, Decided
  <1>1. \A q \in Processes : q # p => pc'[q] = pc[q] /\ answer'[q] = answer[q]
    BY <1>0 DEF SubmissionInv, TypeOK, Insert, Goto
  <1>2. answer'[p] = NewRow(p) /\ pc'[p] = "audit" /\ Decided(p)' /\ jobs' = jobs \union {NewRow(p)}
    BY <1>0 DEF SubmissionInv, TypeOK, Insert, Goto, Decided
  <1>3. \A q \in Processes : Decided(q) => q # p /\ Decided(q)'
    BY <1>0, <1>1 DEF Decided
  <1>4. \A q \in Processes : q # p /\ Decided(q)' => Decided(q)
    BY <1>1 DEF Decided
  <1>a. UNCHANGED <<audits, request, accepted, purges, crashes>> /\ created' = created \union {lastId + 1}
    BY DEF Insert, counters
  <1>b. NewRow(p).key = request[p].key /\ NewRow(p).id = lastId + 1
    BY DEF NewRow
  <1>5. GoneWerePurged'
    <2>1. ASSUME NEW k \in Keys
          PROVE  Answered(k)' = Answered(k) /\ Answering(k)' \subseteq Answering(k) \union jobs'
      BY <1>a, <1>1, <1>2, <1>4 DEF Answering, Answered
    <2> QED
      BY <1>a, <1>2, <2>1, GoneFrame
  <1>6. LostCrashed'
    <2>1. Auditing \subseteq Auditing'
      BY <1>1, <1>3 DEF Auditing
    <2>2. lastId + 1 \in Auditing'
      BY <1>2, <1>b DEF Auditing
    <2> QED
      BY <1>a, <2>1, <2>2, LostFrame DEF Lost
  <1>7. AnswersFit'
    <2> SUFFICES ASSUME NEW q \in Processes
                 PROVE  Decided(q)' => answer'[q].key = request[q].key
      BY <1>a DEF AnswersFit
    <2>1. CASE q = p
      BY <1>2, <1>b, <2>1
    <2>2. CASE q # p
      BY <1>1, <1>4, <2>2 DEF SubmissionInv, AnswersFit
    <2> QED
      BY <2>1, <2>2
  <1>8. KeysAreUnique'
    <2>1. \A i \in jobs : i.key # NewRow(p).key
      BY <1>b DEF Insert, KeyIsFree, Existing
    <2> QED
      BY <1>2, <2>1 DEF SubmissionInv, KeysAreUnique
  <1>9. AcceptancesFit'
    BY <1>a DEF SubmissionInv, AcceptancesFit
  <1> QED
    BY <1>5, <1>6, <1>7, <1>8, <1>9 DEF SubmissionInv

\* What a process that finishes leaves behind for the others.
LEMMA FinishFrame ==
    ASSUME SubmissionInv, NEW p \in Processes, Finish(p)
    PROVE  /\ \A q \in Processes :
                  q # p => pc'[q] = pc[q] /\ answer'[q] = answer[q] /\ request'[q] = request[q]
           /\ pc'[p] = "idle" /\ ~Decided(p)'
           /\ \A q \in Processes : Decided(q)' <=> Decided(q) /\ q # p
           /\ \A k \in Keys : Answering(k)' \subseteq Answering(k)
           /\ Decided(p) => Auditing \subseteq Auditing' \union {answer[p].id}
           /\ ~Decided(p) => Auditing' = Auditing
           /\ AnswersFit'
  <1>1. \A q \in Processes :
            q # p => pc'[q] = pc[q] /\ answer'[q] = answer[q] /\ request'[q] = request[q]
    BY DEF SubmissionInv, TypeOK, Finish, Goto
  <1>2. pc'[p] = "idle" /\ ~Decided(p)'
    BY DEF SubmissionInv, TypeOK, Finish, Goto, Decided
  <1>3. \A q \in Processes : Decided(q)' <=> Decided(q) /\ q # p
    BY <1>1, <1>2 DEF Decided
  <1>4. \A k \in Keys : Answering(k)' \subseteq Answering(k)
    BY <1>1, <1>3 DEF Answering
  <1>5. /\ Decided(p) => Auditing \subseteq Auditing' \union {answer[p].id}
        /\ ~Decided(p) => Auditing' = Auditing
    BY <1>1, <1>3 DEF Auditing
  <1>6. AnswersFit'
    BY <1>1, <1>2, <1>3 DEF SubmissionInv, AnswersFit
  <1> QED
    BY <1>1, <1>2, <1>3, <1>4, <1>5, <1>6

\* The event is written for the row that was answered.
LEMMA AuditKeeps ==
    ASSUME SubmissionInv, TypeOK', NEW p \in Processes, AuditAndAnswer(p)
    PROVE  SubmissionInv'
  <1>0. Finish(p) /\ Decided(p)
    BY DEF AuditAndAnswer
  <1>1. UNCHANGED <<jobs, created, purges, crashes>>
    BY DEF AuditAndAnswer, counters
  <1>2. Acceptance(p).submission = request[p] /\ Acceptance(p).row = answer[p]
    BY DEF Acceptance
  <1>3. answer[p].key = request[p].key
    BY <1>0 DEF SubmissionInv, AnswersFit
  <1>4. accepted' = accepted \union {Acceptance(p)} /\ audits' = audits \union {answer[p].id}
    BY DEF AuditAndAnswer, Audited
  <1>5. GoneWerePurged'
    <2>1. ASSUME NEW k \in Keys
          PROVE  Answered(k)' \union Answering(k)' \subseteq Answered(k) \union Answering(k)
      <3>1. Answered(k)' \subseteq Answered(k) \union Answering(k)
        BY <1>0, <1>2, <1>4 DEF Answered, Answering
      <3> QED
        BY <1>0, <3>1, FinishFrame
    <2> QED
      BY <1>1, <2>1, GoneFrame
  <1>6. LostCrashed'
    <2>1. Auditing \subseteq Auditing' \union {answer[p].id}
      BY <1>0, FinishFrame
    <2> QED
      BY <1>1, <1>4, <2>1, LostFrame DEF Lost
  <1>7. AcceptancesFit'
    BY <1>2, <1>3, <1>4 DEF SubmissionInv, AcceptancesFit
  <1>8. KeysAreUnique' /\ AnswersFit'
    BY <1>0, <1>1, FinishFrame DEF SubmissionInv, KeysAreUnique
  <1> QED
    BY <1>5, <1>6, <1>7, <1>8 DEF SubmissionInv

\* A crash loses at most the event of the row its process had answered.
LEMMA CrashKeeps ==
    ASSUME SubmissionInv, TypeOK', NEW p \in Processes, Crash(p)
    PROVE  SubmissionInv'
  <1>0. Finish(p)
    BY DEF Crash
  <1>1. UNCHANGED <<jobs, audits, accepted, created, purges>> /\ crashes' = crashes + 1
    BY DEF Crash
  <1>2. GoneWerePurged'
    <2>1. ASSUME NEW k \in Keys
          PROVE  Answered(k)' = Answered(k) /\ Answering(k)' \subseteq Answering(k)
      BY <1>0, <1>1, FinishFrame DEF Answered
    <2> QED
      BY <1>1, <2>1, GoneFrame
  <1>3. LostCrashed'
    <2> DEFINE L == Lost \union {answer[p].id}
    <2>1. Lost' \subseteq L
      BY <1>0, <1>1, FinishFrame DEF Lost
    <2>2. IsFiniteSet(Lost) /\ Cardinality(Lost) <= crashes
      BY DEF SubmissionInv, LostCrashed
    <2>3. IsFiniteSet(L) /\ (Cardinality(L) = Cardinality(Lost) \/ Cardinality(L) = Cardinality(Lost) + 1)
      BY <2>2, FS_AddElement
    <2>4. IsFiniteSet(Lost') /\ Cardinality(Lost') <= Cardinality(L)
      BY <2>1, <2>3, FS_Subset
    <2>5. /\ Cardinality(Lost) \in Nat /\ Cardinality(Lost') \in Nat /\ Cardinality(L) \in Nat
          /\ crashes \in Nat
      BY <2>2, <2>3, <2>4, FS_CardinalityType, SubmissionAssumption DEF SubmissionInv, TypeOK
    <2> HIDE DEF L
    <2>6. Cardinality(Lost') <= crashes + 1
      BY <2>2, <2>3, <2>4, <2>5
    <2> QED
      BY <1>1, <2>4, <2>6 DEF LostCrashed
  <1>4. KeysAreUnique' /\ AnswersFit' /\ AcceptancesFit'
    BY <1>0, <1>1, FinishFrame DEF SubmissionInv, KeysAreUnique, AcceptancesFit
  <1> QED
    BY <1>2, <1>3, <1>4 DEF SubmissionInv

\* A purge makes at most one answered row go.
LEMMA PurgeKeeps ==
    ASSUME SubmissionInv, TypeOK', NEW j \in jobs, Purge(j)
    PROVE  SubmissionInv'
  <1>1. /\ UNCHANGED <<audits, pc, request, answer, accepted, created, crashes>>
        /\ jobs' = jobs \ {j} /\ purges' = purges + 1
    BY DEF Purge
  <1>2. GoneWerePurged'
    <2> SUFFICES ASSUME NEW k \in Keys
                 PROVE  IsFiniteSet(Gone(k)') /\ Cardinality(Gone(k)') <= purges'
      BY DEF GoneWerePurged
    <2> DEFINE G == Gone(k) \union {j}
    <2>1. Gone(k)' \subseteq G
      BY <1>1 DEF Gone, Answered, Answering, Decided
    <2>2. IsFiniteSet(Gone(k)) /\ Cardinality(Gone(k)) <= purges
      BY DEF SubmissionInv, GoneWerePurged
    <2>3. IsFiniteSet(G) /\ (Cardinality(G) = Cardinality(Gone(k)) \/ Cardinality(G) = Cardinality(Gone(k)) + 1)
      BY <2>2, FS_AddElement
    <2>4. IsFiniteSet(Gone(k)') /\ Cardinality(Gone(k)') <= Cardinality(G)
      BY <2>1, <2>3, FS_Subset
    <2>5. /\ Cardinality(Gone(k)) \in Nat /\ Cardinality(Gone(k)') \in Nat /\ Cardinality(G) \in Nat
          /\ purges \in Nat
      BY <2>2, <2>3, <2>4, FS_CardinalityType, SubmissionAssumption DEF SubmissionInv, TypeOK
    <2> HIDE DEF G
    <2>6. Cardinality(Gone(k)') <= purges + 1
      BY <2>2, <2>3, <2>4, <2>5
    <2> QED
      BY <1>1, <2>4, <2>6
  <1>3. LostCrashed'
    BY <1>1, LostFrame DEF Lost, Auditing, Decided
  <1>4. KeysAreUnique' /\ AnswersFit' /\ AcceptancesFit'
    BY <1>1 DEF SubmissionInv, KeysAreUnique, AnswersFit, AcceptancesFit, Decided
  <1> QED
    BY <1>2, <1>3, <1>4 DEF SubmissionInv

\* Initially there is nothing to explain.
LEMMA SubmissionInit == Init => SubmissionInv
  <1> SUFFICES ASSUME Init PROVE SubmissionInv
    OBVIOUS
  <1>1. TypeOK
    BY SubmissionAssumption DEF Init, TypeOK, Decided
  <1>2. /\ KeysAreUnique /\ AnswersFit /\ AcceptancesFit
    BY DEF Init, KeysAreUnique, AnswersFit, AcceptancesFit, Decided
  <1>3. Lost = {} /\ \A k \in Keys : Gone(k) = {}
    BY DEF Init, Lost, Gone, Answered, Answering, Decided
  <1>4. IsFiniteSet({}) /\ Cardinality({}) = 0
    BY FS_EmptySet
  <1>5. purges = 0 /\ crashes = 0
    BY DEF Init
  <1>6. GoneWerePurged /\ LostCrashed
    BY <1>3, <1>4, <1>5 DEF GoneWerePurged, LostCrashed
  <1> QED
    BY <1>1, <1>2, <1>6 DEF SubmissionInv

\* Every step preserves the invariant.
LEMMA SubmissionStep ==
    ASSUME SubmissionInv, [Next]_vars
    PROVE  SubmissionInv'
  <1>0. TypeOK'
    BY TypesStep DEF SubmissionInv
  <1>1. ASSUME NEW p \in Processes, NEW s \in Submissions, Receive(p, s) PROVE SubmissionInv'
    <2>1. /\ \A q \in Processes \ {p} :
                 pc'[q] = pc[q] /\ request'[q] = request[q] /\ answer'[q] = answer[q]
          /\ ~Decided(p) /\ ~Decided(p)'
          /\ UNCHANGED <<jobs, audits, accepted, created, purges, crashes>>
      BY <1>1 DEF SubmissionInv, TypeOK, Receive, Goto, Decided
    <2> QED
      BY <1>0, <2>1, UndecidedKeeps
  <1>2. ASSUME NEW p \in Processes, SelectNothing(p) \/ InsertRejected(p) PROVE SubmissionInv'
    <2>1. /\ \A q \in Processes \ {p} :
                 pc'[q] = pc[q] /\ request'[q] = request[q] /\ answer'[q] = answer[q]
          /\ ~Decided(p) /\ ~Decided(p)'
          /\ UNCHANGED <<jobs, audits, accepted, created, purges, crashes>>
      BY <1>2 DEF SubmissionInv, TypeOK, SelectNothing, InsertRejected, Goto, Decided, counters
    <2> QED
      BY <1>0, <2>1, UndecidedKeeps
  <1>3. ASSUME NEW p \in Processes, SelectConflict(p) \/ ReselectNothing(p) PROVE SubmissionInv'
    <2>1. /\ Finish(p) /\ ~Decided(p)
          /\ UNCHANGED <<jobs, audits, accepted, created, purges, crashes>>
      BY <1>3 DEF SelectConflict, ReselectNothing, Decided, counters
    <2> QED
      BY <1>0, <2>1, FinishFrame, UndecidedKeeps
  <1>4. ASSUME NEW p \in Processes, SelectReplay(p) PROVE SubmissionInv'
    <2>1. PICK j \in Existing(p) : SameContent(p, j) /\ answer' = [answer EXCEPT ![p] = j]
      BY <1>4 DEF SelectReplay
    <2>2. j \in jobs /\ j.key = request[p].key
      BY <2>1 DEF Existing
    <2>3. /\ pc' = [pc EXCEPT ![p] = "audit"] /\ ~Decided(p)
          /\ UNCHANGED <<jobs, audits, request, accepted, created, purges, crashes>>
      BY <1>4 DEF SelectReplay, Goto, Decided, counters
    <2> QED
      BY <1>0, <2>1, <2>2, <2>3, AnsweredKeeps
  <1>5. ASSUME NEW p \in Processes, Reselect(p) PROVE SubmissionInv'
    <2>1. PICK j \in Existing(p) : answer' = [answer EXCEPT ![p] = j]
      BY <1>5 DEF Reselect
    <2>2. j \in jobs /\ j.key = request[p].key
      BY <2>1 DEF Existing
    <2>3. /\ pc' = [pc EXCEPT ![p] = "audit"] /\ ~Decided(p)
          /\ UNCHANGED <<jobs, audits, request, accepted, created, purges, crashes>>
      BY <1>5 DEF Reselect, Goto, Decided, counters
    <2> QED
      BY <1>0, <2>1, <2>2, <2>3, AnsweredKeeps
  <1>6. ASSUME NEW p \in Processes, Insert(p) PROVE SubmissionInv'
    BY <1>0, <1>6, InsertKeeps
  <1>7. ASSUME NEW p \in Processes, AuditAndAnswer(p) PROVE SubmissionInv'
    BY <1>0, <1>7, AuditKeeps
  <1>8. ASSUME NEW p \in Processes, Crash(p) PROVE SubmissionInv'
    BY <1>0, <1>8, CrashKeeps
  <1>9. ASSUME NEW j \in jobs, Purge(j) PROVE SubmissionInv'
    BY <1>0, <1>9, PurgeKeeps
  <1>10. CASE UNCHANGED vars
    <2>1. UNCHANGED <<jobs, audits, pc, request, answer, accepted, created, purges, crashes>>
      BY <1>10 DEF vars
    <2>2. Lost' = Lost /\ \A k \in Keys : Gone(k)' = Gone(k)
      BY <2>1 DEF Lost, Auditing, Gone, Answered, Answering, Decided
    <2>3. GoneWerePurged' /\ LostCrashed'
      BY <2>1, <2>2 DEF SubmissionInv, GoneWerePurged, LostCrashed
    <2>4. KeysAreUnique' /\ AnswersFit' /\ AcceptancesFit'
      BY <2>1 DEF SubmissionInv, KeysAreUnique, AnswersFit, AcceptancesFit, Decided
    <2> QED
      BY <1>0, <2>3, <2>4 DEF SubmissionInv
  <1> QED
    BY <1>1, <1>2, <1>3, <1>4, <1>5, <1>6, <1>7, <1>8, <1>9, <1>10 DEF Next, Serve

\* The invariant holds in every reachable state, of Submission and so behind
\* the door.
LEMMA SubmissionHolds == DoorSpec => []SubmissionInv
  <1>1. Spec => []SubmissionInv
    BY SubmissionInit, SubmissionStep, PTL DEF Spec
  <1> QED
    BY <1>1, DoorImplementsSubmission, PTL

\* Every variable keeps its type, the limiter's included, and what a process
\* remembers stays in the order in which check evicts it.
THEOREM DoorTypeCorrect == DoorSpec => []DoorTypeOK
  <1>1. SubmissionInv /\ LimiterInv => DoorTypeOK
    BY DEF SubmissionInv, LimiterInv, Explained, Sorted, DoorTypeOK
  <1> QED
    BY <1>1, SubmissionHolds, LimiterHolds, PTL

\* Retries with one idempotency key, through any number of processes racing in
\* create_job, are answered with different jobs only as often as purges removed
\* one.
THEOREM RetriesShareOneJob == DoorSpec => []RetriesShareTheJob
  <1>1. SubmissionInv => RetriesShareTheJob
    <2> SUFFICES ASSUME SubmissionInv, NEW k \in Keys
                 PROVE  Cardinality(Answered(k)) <= 1 + purges
      BY DEF RetriesShareTheJob, Answered
    <2> DEFINE J == Answered(k) \ Gone(k)
    <2>1. IsFiniteSet(Gone(k)) /\ Cardinality(Gone(k)) <= purges
      BY DEF SubmissionInv, GoneWerePurged
    <2>2. \A i, j \in J : i = j
      <3>1. \A i \in J : i \in jobs /\ i.key = k
        BY DEF Answered, Gone, SubmissionInv, AcceptancesFit
      <3> QED
        BY <3>1 DEF SubmissionInv, KeysAreUnique
    <2>3. PICK x : J \subseteq {x}
      BY <2>2
    <2> DEFINE B == Gone(k) \union {x}
    <2>4. Answered(k) \subseteq B
      BY <2>3
    <2>5. IsFiniteSet(B) /\ (Cardinality(B) = Cardinality(Gone(k)) \/ Cardinality(B) = Cardinality(Gone(k)) + 1)
      BY <2>1, FS_AddElement
    <2>6. IsFiniteSet(Answered(k)) /\ Cardinality(Answered(k)) <= Cardinality(B)
      BY <2>4, <2>5, FS_Subset
    <2>7. /\ Cardinality(Gone(k)) \in Nat /\ Cardinality(B) \in Nat /\ Cardinality(Answered(k)) \in Nat
          /\ purges \in Nat
      BY <2>1, <2>5, <2>6, FS_CardinalityType, SubmissionAssumption DEF SubmissionInv, TypeOK
    <2> HIDE DEF B
    <2> QED
      BY <2>1, <2>5, <2>6, <2>7
  <1> QED
    BY <1>1, SubmissionHolds, PTL

\* A job is without its audit event only while a process is about to write it or
\* because one crashed between the commit of create_job and that of the event.
THEOREM UnauditedAreExplained == DoorSpec => []UnauditedExplained
  <1>1. SubmissionInv => UnauditedExplained
    <2> SUFFICES ASSUME SubmissionInv
                 PROVE  Cardinality(created \ audits)
                            <= crashes + Cardinality({p \in Processes : Decided(p)})
      BY DEF UnauditedExplained
    <2> DEFINE P == {p \in Processes : Decided(p)}
               f == [p \in P |-> answer[p].id]
    <2>1. IsFiniteSet(P)
      BY FS_Subset, SubmissionAssumption
    <2>2. f \in Surjection(P, Auditing)
      BY DEF Surjection, Auditing
    <2> HIDE DEF f
    <2>3. IsFiniteSet(Auditing) /\ Cardinality(Auditing) <= Cardinality(P)
      BY <2>1, <2>2, FS_Surjection
    <2>4. IsFiniteSet(Lost) /\ Cardinality(Lost) <= crashes
      BY DEF SubmissionInv, LostCrashed
    <2> DEFINE U == Lost \union Auditing
    <2>5. /\ IsFiniteSet(U) /\ IsFiniteSet(Lost \cap Auditing)
          /\ Cardinality(U) = Cardinality(Lost) + Cardinality(Auditing) - Cardinality(Lost \cap Auditing)
      BY <2>3, <2>4, FS_Union, FS_Intersection
    <2>6. created \ audits \subseteq U
      BY DEF Lost
    <2>7. IsFiniteSet(created \ audits) /\ Cardinality(created \ audits) <= Cardinality(U)
      BY <2>5, <2>6, FS_Subset
    <2>8. /\ Cardinality(P) \in Nat /\ Cardinality(Auditing) \in Nat /\ Cardinality(Lost) \in Nat
          /\ Cardinality(U) \in Nat /\ Cardinality(Lost \cap Auditing) \in Nat
          /\ Cardinality(created \ audits) \in Nat /\ crashes \in Nat
      BY <2>1, <2>3, <2>4, <2>5, <2>7, FS_CardinalityType, SubmissionAssumption
         DEF SubmissionInv, TypeOK
    <2> HIDE DEF U
    <2>9. Cardinality(created \ audits) <= crashes + Cardinality(P)
      BY <2>3, <2>4, <2>5, <2>7, <2>8
    <2> QED
      BY <2>9
  <1> QED
    BY <1>1, SubmissionHolds, PTL
=============================================================================
