-------------------------- MODULE MCPaymentOrder --------------------------
(* Instances of PaymentOrder for TLC. *)
EXTENDS PaymentOrder, TLC

\* Workers are interchangeable.
WorkerSymmetry == Permutations(Workers)
=============================================================================
