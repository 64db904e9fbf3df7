------------------------------ MODULE Backoff ------------------------------
(***************************************************************************)
(* The exponential backoff shared by the review queue and the delivery     *)
(* outbox.  Both compute  min(cap, 2 ** min(attempts, limit))  seconds; no *)
(* attempt counter passes the table's end because the exponent is limited  *)
(* first.  The powers are tabulated so that a proof can type them without  *)
(* an induction; MCReviewQueue compares the table with 2^n.                *)
(***************************************************************************)
EXTENDS Integers

Least(a, b) == IF a <= b THEN a ELSE b

PowerTable == <<1, 2, 4, 8, 16, 32, 64, 128, 256, 512, 1024>>

\* 2 ** n for the exponents the code can reach.
PowerOfTwo(n) == PowerTable[n + 1]

\* Container.process_next_job: delay = min(900, 2 ** min(job.attempts, 9)).
RetryDelay(attempts) == Least(900, PowerOfTwo(Least(attempts, 9)))

\* Database.delivery_failed: delay = min(3600, 2 ** min(attempts, 10)).
DeliveryDelay(attempts) == Least(3600, PowerOfTwo(Least(attempts, 10)))
=============================================================================
