----------------------------- MODULE MCDelivery -----------------------------
(***************************************************************************)
(* Model-checking instances of Delivery; the configurations choose the     *)
(* reviews, the destinations and which of them are flaky.                  *)
(***************************************************************************)
EXTENDS Delivery, TLC

\* The tabulated powers are the powers the code computes.
ASSUME PowersAreRight == \A n \in 0..10 : PowerOfTwo(n) = 2^n
=============================================================================
