--------------------------- MODULE MCReviewQueue ---------------------------
(***************************************************************************)
(* Model-checking instances of ReviewQueue.  The configurations choose     *)
(* how many workers, crashes and outages there are; see the README.        *)
(***************************************************************************)
EXTENDS ReviewQueue, TLC

\* The tabulated powers are the powers the code computes.
ASSUME PowersAreRight == \A n \in 0..10 : PowerOfTwo(n) = 2^n

\* Workers are interchangeable; used where no liveness is checked.
WorkerSymmetry == Permutations(Workers)
=============================================================================
