-------------------------- MODULE PiGatewayProofs --------------------------
(***************************************************************************)
(* Proofs about PiGateway for every timeout, output limit, pipe size and   *)
(* length of an answer, whatever the child does.                           *)
(*                                                                         *)
(* Each property follows the coroutine from label to label: what is known  *)
(* of the child, of the acknowledgement and of the time spent when it gets *)
(* to each of them.                                                        *)
(***************************************************************************)
EXTENDS PiGateway, TLAPS

-----------------------------------------------------------------------------
(* The inductive invariant.                                                *)

\* The labels of a prompt that was sent.
Prompting == {"drain", "read", "stderr", "finally", "terminating", "parse"}

\* TypeOK in parts: numbers and Booleans are for different provers.
CoroutineTypes ==
    /\ pc \in Labels
    /\ kind \in Kinds
    /\ round \in 0..2
    /\ lines \in 0..MaxOutput
    /\ parts \in 0..lines
    /\ pending \in Exceptions \union {"text"}
    /\ result \in Exceptions \union {"none", "ok", "decision"}
    /\ timer \in Nat
    /\ elapsed \in Nat

ChildTypes ==
    /\ child \in {"none", "running", "exited"}
    /\ stdin \in {"unread", "read", "closed"}
    /\ pipe \in Seq(Lines)
    /\ Len(pipe) <= PipeSlots
    /\ written \in 0..MaxLines

\* Which prompt of the call the coroutine is at.
RoundsInv ==
    /\ pc = "version" => round = 0
    /\ pc = "spawn" => round \in {0, 1}
    /\ pc \in Prompting => round \in {1, 2}
    /\ kind = "probe" => round \in {0, 1}
    /\ pc = "spawn" /\ kind = "probe" => round = 0

\* Where the coroutine no longer looks after a child, there is none.
ChildInv ==
    /\ pc \in {"spawn", "parse"} => child = "exited"
    /\ NoOrphanedChild

\* A text is passed on by the finally block only after an acknowledgement.
AnswerInv ==
    /\ pc # "idle" => result = "none"
    /\ pc \in {"finally", "terminating"} /\ pending = "text" => accepted
    /\ pc = "parse" => accepted
    /\ DecisionIsGrounded

\* What r prompts may cost.
Share(r) == r * (Timeout + Grace)

\* The time spent so far, with what is left of the timeout the coroutine waits
\* under, fits the prompts sent so far.
TimeInv ==
    /\ pc = "version" => elapsed + timer <= VersionTimeout
    /\ pc = "drain" => elapsed <= VersionTimeout + Share(round - 1)
    /\ pc \in {"read", "stderr"} => elapsed + timer <= VersionTimeout + Share(round - 1) + Timeout
    /\ pc = "finally" => elapsed <= VersionTimeout + Share(round - 1) + Timeout
    /\ pc = "terminating" => elapsed + timer <= VersionTimeout + Share(round)
    /\ elapsed <= VersionTimeout + Share(round)

GatewayInv ==
    /\ TypeOK
    /\ RoundsInv
    /\ ChildInv
    /\ AnswerInv
    /\ TimeInv

-----------------------------------------------------------------------------
(* Operators.                                                              *)

\* Every prompt more costs at most its timeout and the grace period.
LEMMA ShareGrows ==
    /\ Share(0) = 0
    /\ \A r \in 0..1 : Share(r) \in Nat /\ Share(r + 1) = Share(r) + Timeout + Grace
    /\ Share(2) \in Nat
  <1>1. Timeout + Grace \in Nat
    BY GatewayAssumption
  <1>2. /\ 0 * (Timeout + Grace) = 0
        /\ 1 * (Timeout + Grace) = Timeout + Grace
        /\ 2 * (Timeout + Grace) = Timeout + Grace + Timeout + Grace
    BY GatewayAssumption
  <1> QED
    BY <1>1, <1>2, GatewayAssumption DEF Share

\* The shares of the prompts sent so far and of those before the last.
LEMMA RoundShares ==
    ASSUME GatewayInv
    PROVE  /\ Share(round) \in Nat
           /\ round # 2 => /\ Share(round + 1) \in Nat
                           /\ Share(round + 1) = Share(round) + Timeout + Grace
                           /\ Share(round + 1 - 1) = Share(round)
           /\ round # 0 => Share(round - 1) \in Nat /\ Share(round) = Share(round - 1) + Timeout + Grace
  <1>1. round \in {0, 1, 2}
    BY DEF GatewayInv, TypeOK
  <1>2. Share(0) \in Nat /\ Share(1) \in Nat /\ Share(1) = Share(0) + Timeout + Grace
    BY ShareGrows
  <1>3. Share(2) \in Nat /\ Share(2) = Share(1) + Timeout + Grace
    BY ShareGrows
  <1>4. CASE round = 0
    BY <1>2, <1>4
  <1>5. CASE round = 1
    BY <1>2, <1>3, <1>5
  <1>6. CASE round = 2
    BY <1>2, <1>3, <1>6
  <1> QED
    BY <1>1, <1>4, <1>5, <1>6

\* A fresh pipe is a pipe.
LEMMA EmptyPipe == <<>> \in Seq(Lines) /\ Len(<<>>) = 0
  OBVIOUS

-----------------------------------------------------------------------------
(* Steps.                                                                  *)

\* A call begins with a fresh version process and no time spent.
LEMMA CallKeepsInv ==
    ASSUME GatewayInv, NEW k \in Kinds, Call(k)
    PROVE  GatewayInv'
  <1> USE DEF Call, Fork
  <1>1. TypeOK'
    <2>1. CoroutineTypes'
      BY GatewayAssumption DEF GatewayInv, TypeOK, CoroutineTypes, Labels, Exceptions
    <2>2. accepted' \in BOOLEAN
      BY DEF Call
    <2>3. ChildTypes'
      BY EmptyPipe, GatewayAssumption DEF ChildTypes
    <2> QED
      BY <2>1, <2>2, <2>3 DEF TypeOK, CoroutineTypes, ChildTypes
  <1>2. RoundsInv'
    BY DEF RoundsInv, Prompting
  <1>3. ChildInv' /\ AnswerInv'
    BY DEF ChildInv, AnswerInv, NoOrphanedChild, DecisionIsGrounded
  <1>4. TimeInv'
    BY ShareGrows, GatewayAssumption DEF TimeInv
  <1> QED
    BY <1>1, <1>2, <1>3, <1>4 DEF GatewayInv

\* The version check ends the call, or goes on without a child.
LEMMA VersionKeepsInv ==
    ASSUME GatewayInv,
           VersionMatches \/ (\E e \in Exceptions : VersionRejected(e)) \/ VersionTimesOut
    PROVE  GatewayInv'
  <1> USE DEF VersionMatches, VersionRejected, VersionTimesOut, Killed, Return, callVars, loopVars
  <1>1. TypeOK'
    BY DEF GatewayInv, TypeOK, Labels, Exceptions
  <1>2. RoundsInv'
    BY DEF GatewayInv, RoundsInv, Prompting
  <1>3. ChildInv' /\ AnswerInv'
    BY DEF GatewayInv, ChildInv, AnswerInv, NoOrphanedChild, DecisionIsGrounded, Exceptions
  <1>4. TimeInv'
    BY DEF GatewayInv, TimeInv
  <1> QED
    BY <1>1, <1>2, <1>3, <1>4 DEF GatewayInv

\* A prompt is sent, or cannot be.
LEMMA PromptKeepsInv ==
    ASSUME GatewayInv, Spawn \/ SpawnFails \/ Drained \/ DrainBroken
    PROVE  GatewayInv'
  <1> USE DEF Spawn, SpawnFails, Drained, DrainBroken, Fork, Return, callVars, loopVars, childVars
  <1>1. TypeOK'
    <2>1. CoroutineTypes'
      BY GatewayAssumption DEF GatewayInv, TypeOK, CoroutineTypes, RoundsInv, Labels, Exceptions
    <2>2. accepted' \in BOOLEAN
      BY DEF GatewayInv, TypeOK
    <2>3. ChildTypes'
      <3>1. CASE Spawn
        BY <3>1, EmptyPipe, GatewayAssumption DEF ChildTypes
      <3>2. CASE UNCHANGED childVars
        BY <3>2 DEF GatewayInv, TypeOK, ChildTypes
      <3> QED
        BY <3>1, <3>2
    <2> QED
      BY <2>1, <2>2, <2>3 DEF TypeOK, CoroutineTypes, ChildTypes
  <1>2. RoundsInv'
    BY DEF GatewayInv, RoundsInv, Prompting
  <1>3. ChildInv' /\ AnswerInv'
    BY DEF GatewayInv, ChildInv, AnswerInv, NoOrphanedChild, DecisionIsGrounded
  <1>4. TimeInv'
    <2>1. CASE Spawn
      <3>1. /\ round \in {0, 1} /\ round' = round + 1 /\ pc' = "drain" /\ elapsed' = elapsed
            /\ elapsed \in Nat /\ elapsed <= VersionTimeout + Share(round)
        BY <2>1 DEF GatewayInv, TypeOK, RoundsInv, TimeInv
      <3>2. /\ Share(round) \in Nat
            /\ Share(round' - 1) = Share(round)
            /\ Share(round') = Share(round) + Timeout + Grace
        BY <3>1, RoundShares
      <3> QED
        BY <3>1, <3>2, GatewayAssumption DEF TimeInv
    <2>2. CASE Drained
      <3>1. /\ round \in {1, 2} /\ round' = round /\ pc' = "read" /\ elapsed' = elapsed
            /\ timer' \in Nat /\ timer' <= Timeout
            /\ elapsed \in Nat /\ elapsed <= VersionTimeout + Share(round - 1)
        BY <2>2, GatewayAssumption DEF GatewayInv, TypeOK, RoundsInv, Prompting, TimeInv, callVars
      <3>2. Share(round - 1) \in Nat /\ Share(round) = Share(round - 1) + Timeout + Grace
        BY <3>1, RoundShares
      <3> QED
        BY <3>1, <3>2, GatewayAssumption DEF TimeInv
    <2>3. CASE SpawnFails \/ DrainBroken
      BY <2>3 DEF GatewayInv, TimeInv
    <2> QED
      BY <2>1, <2>2, <2>3
  <1> QED
    BY <1>1, <1>2, <1>3, <1>4 DEF GatewayInv

\* Reading: a line is counted, ends the loop or raises.
LEMMA ReadKeepsInv ==
    ASSUME GatewayInv,
           \/ ReadOversize \/ ReadSettled \/ ReadEnd \/ StderrEnd \/ TimesOut
           \/ \E l \in Lines : ReadTooMuch(l) \/ ReadFailure(l) \/ ReadOn(l)
    PROVE  GatewayInv'
  <1> DEFINE Reads ==
           \/ ReadOversize \/ ReadSettled \/ ReadEnd \/ StderrEnd \/ TimesOut
           \/ \E l \in Lines : ReadTooMuch(l) \/ ReadFailure(l) \/ ReadOn(l)
  <1>0. Reads
    OBVIOUS
  <1>a. /\ pc \in {"read", "stderr"}
        /\ pc' \in {"read", "stderr", "finally"}
        /\ UNCHANGED <<kind, round, elapsed, result, child, stdin, written>>
        /\ pipe' = pipe \/ (pipe # <<>> /\ pipe' = Tail(pipe))
        /\ timer' = timer
    BY DEF ReadOversize, ReadSettled, ReadEnd, StderrEnd, TimesOut, ReadTooMuch, ReadFailure, ReadOn,
           NextLine, Raise, LeaveLoop, TimerGoesOn, callVars, childVars
  <1>b. /\ \/ UNCHANGED <<lines, parts>>
           \/ lines + 1 <= MaxOutput /\ lines' = lines + 1 /\ parts' \in {parts, parts + 1}
        /\ accepted' \in {accepted, TRUE}
    BY DEF ReadOversize, ReadSettled, ReadEnd, StderrEnd, TimesOut, ReadTooMuch, ReadFailure, ReadOn,
           WithinLimit, loopVars, GatewayInv, TypeOK
  <1>c. /\ pending' \in Exceptions \union {pending}
        /\ pc' = "finally" => pending' # "text" \/ (accepted' /\ pending' = pending)
    BY DEF ReadOversize, ReadSettled, ReadEnd, StderrEnd, TimesOut, ReadTooMuch, ReadFailure, ReadOn,
           NextLine, Raise, LeaveLoop, Failure, Exceptions, loopVars
  <1> HIDE DEF Reads
  <1>d. pipe' \in Seq(Lines) /\ Len(pipe') <= PipeSlots
    BY <1>a, GatewayAssumption DEF GatewayInv, TypeOK
  <1>1. TypeOK'
    <2>1. CoroutineTypes'
      BY <1>a, <1>b, <1>c DEF GatewayInv, TypeOK, CoroutineTypes, Labels, Exceptions
    <2>2. accepted' \in BOOLEAN
      BY <1>b DEF GatewayInv, TypeOK
    <2>3. ChildTypes'
      BY <1>a, <1>d DEF GatewayInv, TypeOK, ChildTypes
    <2> QED
      BY <2>1, <2>2, <2>3 DEF TypeOK, CoroutineTypes, ChildTypes
  <1>2. RoundsInv'
    BY <1>a DEF GatewayInv, RoundsInv, Prompting
  <1>3. ChildInv' /\ AnswerInv'
    BY <1>a, <1>c DEF GatewayInv, ChildInv, AnswerInv, NoOrphanedChild, DecisionIsGrounded
  <1>4. TimeInv'
    <2>1. /\ round \in {1, 2} /\ elapsed \in Nat /\ timer \in Nat
          /\ elapsed + timer <= VersionTimeout + Share(round - 1) + Timeout
      BY <1>a DEF GatewayInv, TypeOK, RoundsInv, Prompting, TimeInv
    <2>2. Share(round - 1) \in Nat /\ Share(round) = Share(round - 1) + Timeout + Grace
      BY <2>1, RoundShares
    <2> QED
      BY <1>a, <2>1, <2>2, GatewayAssumption DEF TimeInv
  <1> QED
    BY <1>1, <1>2, <1>3, <1>4 DEF GatewayInv

\* The finally block waits for the child to go, and then passes on the text of
\* an acknowledged prompt or an exception.
LEMMA FinallyKeepsInv ==
    ASSUME GatewayInv, Terminate \/ Kill \/ Reaped
    PROVE  GatewayInv'
  <1> USE DEF Terminate, Kill, Reaped, Killed, Return, callVars, loopVars, childVars
  <1>1. TypeOK'
    BY GatewayAssumption DEF GatewayInv, TypeOK, Labels, Exceptions
  <1>2. RoundsInv'
    BY DEF GatewayInv, RoundsInv, Prompting
  <1>3. ChildInv' /\ AnswerInv'
    BY DEF GatewayInv, TypeOK, ChildInv, AnswerInv, NoOrphanedChild, DecisionIsGrounded, Exceptions
  <1>4. TimeInv'
    <2>1. /\ pc \in {"finally", "terminating"} /\ round \in {1, 2}
          /\ UNCHANGED <<round, elapsed>>
          /\ elapsed \in Nat /\ timer \in Nat
      BY DEF GatewayInv, TypeOK, RoundsInv, Prompting
    <2>2. CASE Terminate
      <3>1. elapsed <= VersionTimeout + Share(round - 1) + Timeout
        BY <2>2 DEF GatewayInv, TimeInv
      <3> QED
        BY <2>1, <2>2, <3>1, RoundShares, GatewayAssumption DEF GatewayInv, TimeInv
    <2>3. CASE Kill \/ Reaped
      BY <2>1, <2>3 DEF GatewayInv, TimeInv
    <2> QED
      BY <2>2, <2>3
  <1> QED
    BY <1>1, <1>2, <1>3, <1>4 DEF GatewayInv

\* Parsing: a whole answer is a decision, another one is corrected once.
LEMMA ParseKeepsInv ==
    ASSUME GatewayInv, ParseOk \/ AskCorrection \/ ParseFails
    PROVE  GatewayInv'
  <1> USE DEF ParseOk, AskCorrection, ParseFails, Return, callVars, loopVars, childVars
  <1>1. TypeOK'
    BY DEF GatewayInv, TypeOK, Labels, Exceptions
  <1>2. RoundsInv'
    BY DEF GatewayInv, RoundsInv, Prompting
  <1>3. ChildInv' /\ AnswerInv'
    BY DEF GatewayInv, ChildInv, AnswerInv, RoundsInv, Prompting, NoOrphanedChild, DecisionIsGrounded
  <1>4. TimeInv'
    BY DEF GatewayInv, TimeInv
  <1> QED
    BY <1>1, <1>2, <1>3, <1>4 DEF GatewayInv

\* Whatever the child does, it does not come back to life.
LEMMA ChildKeepsInv ==
    ASSUME GatewayInv, ChildStep
    PROVE  GatewayInv'
  <1> USE DEF ChildReads, ChildClosesStdin, ChildWrites, ChildExits, ChildStep, Alive, callVars, loopVars
  <1>1. /\ UNCHANGED <<pc, callVars, loopVars, pending, result, timer>>
        /\ child' \in {child, "exited"}
    OBVIOUS
  <1>2. /\ stdin' \in {"unread", "read", "closed"}
        /\ pipe' \in Seq(Lines) /\ Len(pipe') <= PipeSlots
        /\ written' \in 0..MaxLines
    <2>1. ASSUME NEW l \in Lines, ChildWrites(l)
          PROVE  /\ pipe' \in Seq(Lines) /\ Len(pipe') <= PipeSlots
                 /\ written' \in 0..MaxLines
      BY <2>1, GatewayAssumption DEF GatewayInv, TypeOK
    <2> QED
      BY <2>1 DEF GatewayInv, TypeOK
  <1>3. TypeOK'
    BY <1>1, <1>2 DEF GatewayInv, TypeOK
  <1>4. RoundsInv'
    BY <1>1 DEF GatewayInv, RoundsInv
  <1>5. ChildInv' /\ AnswerInv'
    BY <1>1 DEF GatewayInv, ChildInv, AnswerInv, NoOrphanedChild, DecisionIsGrounded
  <1>6. TimeInv'
    BY <1>1 DEF GatewayInv, TimeInv
  <1> QED
    BY <1>3, <1>4, <1>5, <1>6 DEF GatewayInv

\* A second passes from what is left to what is spent.
LEMMA TickKeepsInv ==
    ASSUME GatewayInv, Tick
    PROVE  GatewayInv'
  <1> USE DEF Tick, loopVars, childVars
  <1>1. TypeOK'
    BY DEF GatewayInv, TypeOK
  <1>2. RoundsInv'
    BY DEF GatewayInv, RoundsInv
  <1>3. ChildInv' /\ AnswerInv'
    BY DEF GatewayInv, ChildInv, AnswerInv, NoOrphanedChild, DecisionIsGrounded
  <1>4. TimeInv'
    <2>1. /\ UNCHANGED <<pc, round>> /\ timer' = timer - 1 /\ elapsed' = elapsed + 1
          /\ elapsed \in Nat /\ timer \in Nat /\ timer > 0
      BY DEF GatewayInv, TypeOK
    <2>2. CASE pc = "version"
      <3>1. elapsed + timer <= VersionTimeout /\ round = 0 /\ Share(0) = 0
        BY <2>2, ShareGrows DEF GatewayInv, RoundsInv, TimeInv
      <3> QED
        BY <2>1, <2>2, <3>1, GatewayAssumption DEF TimeInv
    <2>3. CASE pc \in {"read", "stderr"}
      <3>1. elapsed + timer <= VersionTimeout + Share(round - 1) + Timeout /\ round \in {1, 2}
        BY <2>3 DEF GatewayInv, RoundsInv, Prompting, TimeInv
      <3>2. Share(round - 1) \in Nat /\ Share(round) = Share(round - 1) + Timeout + Grace
        BY <3>1, RoundShares
      <3> QED
        BY <2>1, <2>3, <3>1, <3>2, GatewayAssumption DEF TimeInv
    <2>4. CASE pc = "terminating"
      <3>1. elapsed + timer <= VersionTimeout + Share(round) /\ Share(round) \in Nat
        BY <2>4, RoundShares DEF GatewayInv, TimeInv
      <3> QED
        BY <2>1, <2>4, <3>1, GatewayAssumption DEF TimeInv
    <2> QED
      BY <2>2, <2>3, <2>4
  <1> QED
    BY <1>1, <1>2, <1>3, <1>4 DEF GatewayInv

-----------------------------------------------------------------------------
(* The theorems.                                                           *)

\* Before the first call.
LEMMA InitHasInv == Init => GatewayInv
  <1> SUFFICES ASSUME Init PROVE GatewayInv
    OBVIOUS
  <1>1. TypeOK
    <2>1. CoroutineTypes
      BY GatewayAssumption DEF Init, CoroutineTypes, Labels, Kinds, Exceptions
    <2>2. accepted \in BOOLEAN
      BY DEF Init
    <2>3. ChildTypes
      BY EmptyPipe, GatewayAssumption DEF Init, ChildTypes
    <2> QED
      BY <2>1, <2>2, <2>3 DEF TypeOK, CoroutineTypes, ChildTypes
  <1>2. RoundsInv /\ ChildInv /\ AnswerInv
    BY DEF Init, RoundsInv, ChildInv, AnswerInv, Prompting, NoOrphanedChild, DecisionIsGrounded
  <1>3. TimeInv
    BY ShareGrows, GatewayAssumption DEF Init, TimeInv
  <1> QED
    BY <1>1, <1>2, <1>3 DEF GatewayInv

\* Every step of the coroutine, the child and the clock.
LEMMA StepKeepsInv == GatewayInv /\ [Next]_vars => GatewayInv'
  <1> SUFFICES ASSUME GatewayInv, [Next]_vars PROVE GatewayInv'
    OBVIOUS
  <1>1. ASSUME NEW k \in Kinds, Call(k)
        PROVE  GatewayInv'
    BY <1>1, CallKeepsInv
  <1>2. CASE VersionMatches \/ (\E e \in Exceptions : VersionRejected(e)) \/ VersionTimesOut
    BY <1>2, VersionKeepsInv
  <1>3. CASE Spawn \/ SpawnFails \/ Drained \/ DrainBroken
    BY <1>3, PromptKeepsInv
  <1>4. CASE \/ ReadOversize \/ ReadSettled \/ ReadEnd \/ StderrEnd \/ TimesOut
             \/ \E l \in Lines : ReadTooMuch(l) \/ ReadFailure(l) \/ ReadOn(l)
    BY <1>4, ReadKeepsInv
  <1>5. CASE Terminate \/ Kill \/ Reaped
    BY <1>5, FinallyKeepsInv
  <1>6. CASE ParseOk \/ AskCorrection \/ ParseFails
    BY <1>6, ParseKeepsInv
  <1>7. CASE ChildStep
    BY <1>7, ChildKeepsInv
  <1>8. CASE Tick
    BY <1>8, TickKeepsInv
  <1>9. CASE UNCHANGED vars
    BY <1>9 DEF vars, callVars, loopVars, childVars, GatewayInv, TypeOK, RoundsInv, ChildInv, AnswerInv,
                TimeInv, NoOrphanedChild, DecisionIsGrounded
  <1> QED
    BY <1>1, <1>2, <1>3, <1>4, <1>5, <1>6, <1>7, <1>8, <1>9 DEF Next, GatewayStep

\* The invariant holds throughout.
LEMMA InvHolds == Spec => []GatewayInv
  BY InitHasInv, StepKeepsInv, PTL DEF Spec

\* The coroutine's locals and the pipes are well typed: the output limit is
\* never passed and a call sends two prompts at most.
THEOREM GatewayTypeCorrect == Spec => []TypeOK
  <1>1. GatewayInv => TypeOK
    BY DEF GatewayInv
  <1> QED
    BY <1>1, InvHolds, PTL

\* No call returns while its child runs, unless drain() raised.
THEOREM ChildrenAreReaped == Spec => []NoOrphanedChild
  <1>1. GatewayInv => NoOrphanedChild
    BY DEF GatewayInv, ChildInv
  <1> QED
    BY <1>1, InvHolds, PTL

\* A decision comes from an acknowledged prompt and a whole answer.
THEOREM DecisionsAreGrounded == Spec => []DecisionIsGrounded
  <1>1. GatewayInv => DecisionIsGrounded
    BY DEF GatewayInv, AnswerInv
  <1> QED
    BY <1>1, InvHolds, PTL

\* A call waits under its timeouts for as long as they add up to, and no longer.
THEOREM WaitsAreBounded == Spec => []WaitIsBounded
  <1>1. GatewayInv => WaitIsBounded
    BY DEF GatewayInv, TimeInv, WaitIsBounded, Share
  <1> QED
    BY <1>1, InvHolds, PTL
=============================================================================
