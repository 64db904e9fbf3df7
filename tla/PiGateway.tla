----------------------------- MODULE PiGateway -----------------------------
(***************************************************************************)
(* One call of PiGateway.probe or PiGateway.review: the version check, a   *)
(* prompt to a Pi child process over its pipes, the parsing of the answer  *)
(* and, for a review, one prompt more to correct it.                       *)
(*                                                                         *)
(* The child is an environment that may answer, stall, write anything,     *)
(* close its stdin, ignore SIGTERM or exit at any moment.  The gateway's   *)
(* steps are the awaits of the coroutine; timer is what is left of the     *)
(* timeout it waits under.  A byte of the output limit is a line here.     *)
(***************************************************************************)
EXTENDS Integers, Sequences

CONSTANTS
    VersionTimeout,  \* the 15 s of version()
    Timeout,         \* pi_timeout_seconds
    ProbeTimeout,    \* min(45, pi_timeout_seconds)
    Grace,           \* the 5 s between terminate and kill
    MaxOutput,       \* pi_max_output_bytes, in lines
    Parts,           \* text deltas a whole answer is made of
    PipeSlots,       \* lines the stdout pipe holds
    MaxLines         \* bound: lines a child writes

ASSUME GatewayAssumption ==
    /\ VersionTimeout \in Nat
    /\ Timeout \in Nat
    /\ ProbeTimeout \in 0..Timeout
    /\ Grace \in Nat
    /\ MaxOutput \in Nat
    /\ Parts \in Nat \ {0}
    /\ PipeSlots \in Nat \ {0}
    /\ MaxLines \in Nat

VARIABLES
    \* the coroutine
    pc, kind,
    round,      \* prompts sent in this call
    lines,      \* output_bytes
    accepted,   \* Pi acknowledged the prompt
    parts,      \* text deltas collected in output
    pending,    \* what the finally block passes on: "text" or an exception
    result,     \* how the last call ended
    timer,
    elapsed,    \* history: time the call spent waiting under a timeout
    \* the child process
    child,      \* "none", "running" or "exited"
    stdin,      \* "unread", "read" or "closed"
    pipe,       \* its stdout
    written     \* lines it wrote

callVars == <<kind, round, elapsed>>
loopVars == <<lines, accepted, parts>>
childVars == <<child, stdin, pipe, written>>
vars == <<pc, callVars, loopVars, pending, result, timer, childVars>>

\* A big prompt does not fit in the pipe, so drain() has to wait for the child.
\* Probes and corrections are small.
Kinds == {"probe", "review", "big review"}
BigPrompt == kind = "big review" /\ round = 1

\* Lines of Pi, by what the read loop does with them: "garbage" is text but not
\* JSON, "binary" is not UTF-8, "scalar" is JSON but not an object, "oversize"
\* passes the limit of readline.
Lines == {"accept", "reject", "part", "settled", "other", "garbage", "binary", "scalar", "oversize"}

\* "unavailable" and "protocol" are PiError, which process_next_job catches
\* like "value" (ValueError); "attribute" and "os" pass it and end the worker.
Exceptions == {"unavailable", "protocol", "value", "attribute", "os"}
Labels == {"idle", "version", "spawn", "drain", "read", "stderr", "finally",
           "terminating", "parse"}

TypeOK ==
    /\ pc \in Labels
    /\ kind \in Kinds
    /\ round \in 0..2
    /\ lines \in 0..MaxOutput
    /\ accepted \in BOOLEAN
    /\ parts \in 0..lines
    /\ pending \in Exceptions \union {"text"}
    /\ result \in Exceptions \union {"none", "ok", "decision"}
    /\ timer \in Nat
    /\ elapsed \in Nat
    /\ child \in {"none", "running", "exited"}
    /\ stdin \in {"unread", "read", "closed"}
    /\ pipe \in Seq(Lines)
    /\ Len(pipe) <= PipeSlots
    /\ written \in 0..MaxLines

Init ==
    /\ pc = "idle"
    /\ kind = "probe"
    /\ round = 0
    /\ lines = 0
    /\ accepted = FALSE
    /\ parts = 0
    /\ pending = "text"
    /\ result = "none"
    /\ timer = 0
    /\ elapsed = 0
    /\ child = "none"
    /\ stdin = "unread"
    /\ pipe = <<>>
    /\ written = 0

\* The call ends; the locals of the last prompt stay for the properties.
Return(r) ==
    /\ result' = r
    /\ pc' = "idle"

\* A new process with empty pipes.
Fork ==
    /\ child' = "running"
    /\ stdin' = "unread"
    /\ pipe' = <<>>
    /\ written' = 0

-----------------------------------------------------------------------------
(* version()                                                               *)

Call(k) ==
    /\ pc = "idle"
    /\ pc' = "version"
    /\ kind' = k
    /\ round' = 0
    /\ elapsed' = 0
    /\ result' = "none"
    /\ timer' = VersionTimeout
    /\ lines' = 0
    /\ accepted' = FALSE
    /\ parts' = 0
    /\ pending' = "text"
    /\ Fork

\* The version process exits with the expected version.
VersionMatches ==
    /\ pc = "version"
    /\ child' = "exited"
    /\ pc' = "spawn"
    /\ UNCHANGED <<callVars, loopVars, pending, result, timer, stdin, pipe, written>>

\* It exits with an error or another version (unavailable), or prints none.
VersionRejected(e) ==
    /\ pc = "version"
    /\ e \in {"unavailable", "protocol"}
    /\ child' = "exited"
    /\ Return(e)
    /\ UNCHANGED <<callVars, loopVars, pending, timer, stdin, pipe, written>>

\* Faulty variant: the process is not killed, or sent a SIGTERM it ignores.
LeftAlone == child' = child

\* kill, and wait
Killed == child' = "exited"

\* 15 seconds passed: kill, wait, PiUnavailable.
VersionTimesOut ==
    /\ pc = "version"
    /\ timer = 0
    /\ Killed
    /\ Return("unavailable")
    /\ UNCHANGED <<callVars, loopVars, pending, timer, stdin, pipe, written>>

-----------------------------------------------------------------------------
(* _rpc_prompt()                                                           *)

\* create_subprocess_exec and the write of the request.
Spawn ==
    /\ pc = "spawn"
    /\ round' = round + 1
    /\ lines' = 0
    /\ accepted' = FALSE
    /\ parts' = 0
    /\ pending' = "text"
    /\ pc' = "drain"
    /\ Fork
    /\ UNCHANGED <<kind, elapsed, result, timer>>

\* OSError becomes PiUnavailable.
SpawnFails ==
    /\ pc = "spawn"
    /\ Return("unavailable")
    /\ UNCHANGED <<callVars, loopVars, pending, timer, childVars>>

\* drain() returns.  It runs before the timeout begins, and waits without one.
Drained ==
    /\ pc = "drain"
    /\ BigPrompt => stdin = "read"
    /\ timer' = IF kind = "probe" THEN ProbeTimeout ELSE Timeout
    /\ pc' = "read"
    /\ UNCHANGED <<callVars, loopVars, pending, result, childVars>>

\* drain() raises: nobody reads stdin any more.  The finally block does not
\* enclose it, so the child is left as it is.
DrainBroken ==
    /\ pc = "drain"
    /\ stdin = "closed" \/ child = "exited"
    /\ Return("os")
    /\ UNCHANGED <<callVars, loopVars, pending, timer, childVars>>

Raise(e) ==
    /\ pending' = e
    /\ pc' = "finally"

\* readline() delivers a line.
NextLine(l) ==
    /\ pc = "read"
    /\ pipe # <<>>
    /\ l = Head(pipe)
    /\ pipe' = Tail(pipe)
    /\ UNCHANGED <<callVars, result, child, stdin, written>>

\* Faulty variant: the limit is compared before the line is counted.
WithinLimitBefore == lines <= MaxOutput

WithinLimit == lines + 1 <= MaxOutput

\* A line that is too long for readline, counted or not.
ReadOversize ==
    /\ NextLine("oversize")
    /\ Raise("value")
    /\ UNCHANGED <<loopVars, timer>>

\* The output limit is checked before the line is parsed.
ReadTooMuch(l) ==
    /\ l # "oversize"
    /\ NextLine(l)
    /\ ~WithinLimit
    /\ Raise("protocol")
    /\ UNCHANGED <<loopVars, timer>>

\* Lines that end the loop with an exception: the prompt was rejected, the
\* line is no JSON, it cannot be decoded (UnicodeDecodeError is a ValueError but no
\* JSONDecodeError), or .get is called on something that is no object.
Failure ==
    [reject |-> "unavailable", garbage |-> "protocol", binary |-> "value", scalar |-> "attribute"]

ReadFailure(l) ==
    /\ l \in DOMAIN Failure
    /\ NextLine(l)
    /\ WithinLimit
    /\ lines' = lines + 1
    /\ Raise(Failure[l])
    /\ UNCHANGED <<accepted, parts, timer>>

\* Faulty variant: the timeout is started again for every line.
TimerAfresh == timer' = Timeout

\* asyncio.timeout encloses the whole loop.
TimerGoesOn == timer' = timer

\* Lines after which the loop goes on.
ReadOn(l) ==
    /\ l \in {"accept", "part", "other"}
    /\ NextLine(l)
    /\ WithinLimit
    /\ lines' = lines + 1
    /\ accepted' = (accepted \/ l = "accept")
    /\ parts' = IF l = "part" THEN parts + 1 ELSE parts
    /\ TimerGoesOn
    /\ UNCHANGED <<pc, pending>>

\* Faulty variant: nobody asks whether the prompt was accepted.
LeaveLoopAnyway == pc' = "finally"

\* After the loop: without an acknowledgement stderr is read to its end.
LeaveLoop == pc' = IF accepted THEN "finally" ELSE "stderr"

ReadSettled ==
    /\ NextLine("settled")
    /\ WithinLimit
    /\ lines' = lines + 1
    /\ LeaveLoop
    /\ UNCHANGED <<accepted, parts, pending, timer>>

\* readline() returns nothing: the child closed stdout by exiting.
ReadEnd ==
    /\ pc = "read"
    /\ pipe = <<>>
    /\ child = "exited"
    /\ LeaveLoop
    /\ UNCHANGED <<callVars, loopVars, pending, result, timer, childVars>>

\* stderr is at its end: "Pi exited before accepting the prompt".
StderrEnd ==
    /\ pc = "stderr"
    /\ child = "exited"
    /\ Raise("unavailable")
    /\ UNCHANGED <<callVars, loopVars, result, timer, childVars>>

\* asyncio.timeout expires: "Pi request timed out".
TimesOut ==
    /\ pc \in {"read", "stderr"}
    /\ timer = 0
    /\ Raise("unavailable")
    /\ UNCHANGED <<callVars, loopVars, result, timer, childVars>>

\* The finally block: SIGTERM, which the child may ignore.
Terminate ==
    /\ pc = "finally"
    /\ child = "running"
    /\ timer' = Grace
    /\ pc' = "terminating"
    /\ UNCHANGED <<callVars, loopVars, pending, result, childVars>>

\* The grace period is over: SIGKILL and wait.
Kill ==
    /\ pc = "terminating"
    /\ timer = 0
    /\ child = "running"
    /\ Killed
    /\ UNCHANGED <<pc, callVars, loopVars, pending, result, timer, stdin, pipe, written>>

\* The child is gone: the exception goes on, or the text, unless it is empty.
Reaped ==
    /\ pc \in {"finally", "terminating"}
    /\ child = "exited"
    /\ \/ pending # "text" /\ Return(pending)
       \/ pending = "text" /\ parts = 0 /\ Return("protocol")
       \/ pending = "text" /\ parts > 0 /\ pc' = "parse" /\ UNCHANGED result
    /\ UNCHANGED <<callVars, loopVars, pending, timer, childVars>>

-----------------------------------------------------------------------------
(* probe() and review(): _extract_json and model_validate.                 *)

\* The text is a JSON object of the right form: no proper prefix of it is.
ParseOk ==
    /\ pc = "parse"
    /\ parts = Parts
    /\ Return(IF kind = "probe" THEN "ok" ELSE "decision")
    /\ UNCHANGED <<callVars, loopVars, pending, timer, childVars>>

\* A review's first answer is not: its correction is requested.
AskCorrection ==
    /\ pc = "parse"
    /\ kind # "probe"
    /\ round = 1
    /\ pc' = "spawn"
    /\ UNCHANGED <<callVars, loopVars, pending, result, timer, childVars>>

\* A probe's answer or the correction is not.
ParseFails ==
    /\ pc = "parse"
    /\ kind = "probe" \/ round = 2
    /\ Return(IF kind = "probe" THEN "unavailable" ELSE "protocol")
    /\ UNCHANGED <<callVars, loopVars, pending, timer, childVars>>

-----------------------------------------------------------------------------
(* The child and the clock.                                                *)

Alive == child = "running" /\ pc # "version"

ChildReads ==
    /\ Alive
    /\ stdin = "unread"
    /\ stdin' = "read"
    /\ UNCHANGED <<pc, callVars, loopVars, pending, result, timer, child, pipe, written>>

ChildClosesStdin ==
    /\ Alive
    /\ stdin # "closed"
    /\ stdin' = "closed"
    /\ UNCHANGED <<pc, callVars, loopVars, pending, result, timer, child, pipe, written>>

ChildWrites(l) ==
    /\ Alive
    /\ Len(pipe) < PipeSlots
    /\ written < MaxLines
    /\ pipe' = Append(pipe, l)
    /\ written' = written + 1
    /\ UNCHANGED <<pc, callVars, loopVars, pending, result, timer, child, stdin>>

ChildExits ==
    /\ Alive
    /\ child' = "exited"
    /\ UNCHANGED <<pc, callVars, loopVars, pending, result, timer, stdin, pipe, written>>

\* A second passes for a coroutine that waits under a timeout.
Tick ==
    /\ pc \in {"version", "read", "stderr", "terminating"}
    /\ timer > 0
    /\ timer' = timer - 1
    /\ elapsed' = elapsed + 1
    /\ UNCHANGED <<pc, kind, round, loopVars, pending, result, childVars>>

-----------------------------------------------------------------------------

GatewayStep ==
    \/ VersionMatches
    \/ \E e \in Exceptions : VersionRejected(e)
    \/ VersionTimesOut
    \/ Spawn
    \/ SpawnFails
    \/ Drained
    \/ DrainBroken
    \/ ReadOversize
    \/ \E l \in Lines : ReadTooMuch(l) \/ ReadFailure(l) \/ ReadOn(l)
    \/ ReadSettled
    \/ ReadEnd
    \/ StderrEnd
    \/ TimesOut
    \/ Terminate
    \/ Kill
    \/ Reaped
    \/ ParseOk
    \/ AskCorrection
    \/ ParseFails

ChildStep ==
    \/ ChildReads
    \/ ChildClosesStdin
    \/ \E l \in Lines : ChildWrites(l)
    \/ ChildExits

Next == (\E k \in Kinds : Call(k)) \/ GatewayStep \/ ChildStep \/ Tick

Spec == Init /\ [][Next]_vars

\* The event loop serves the coroutine and the clock advances.  Of the child
\* nothing is assumed but that it reads its stdin or exits: drain() waits for
\* that without a timeout.
FairSpec ==
    /\ Spec
    /\ WF_vars(GatewayStep)
    /\ WF_vars(Tick)
    /\ WF_vars(ChildReads)

-----------------------------------------------------------------------------
(* Properties.                                                             *)

\* However a call ends, its child is gone: killed by the version timeout or
\* terminated and reaped by the finally block, even when it ignores SIGTERM.
\* The one exception is a drain() that raises before that block is entered.
NoOrphanedChild == pc = "idle" /\ child = "running" => result = "os"

\* A decision, like a passed probe, comes from one prompt that Pi acknowledged
\* and answered in full, however its output was cut, mixed or delayed; a
\* review has asked for one correction at most.
DecisionIsGrounded ==
    result \in {"ok", "decision"} =>
        /\ accepted
        /\ parts = Parts
        /\ round \in (IF kind = "probe" THEN {1} ELSE {1, 2})

\* A call waits no longer than its timeouts add up to, however slowly the
\* child writes: timeouts cover a prompt, not a line, and a child that
\* survives SIGTERM costs only the grace period.
WaitIsBounded == elapsed <= VersionTimeout + round * (Timeout + Grace)

\* Every call returns, also with a child that stalls, ignores SIGTERM or never
\* stops writing, provided it reads its stdin.
CallReturns == pc # "idle" ~> pc = "idle"
=============================================================================
