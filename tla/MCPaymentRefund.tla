-------------------------- MODULE MCPaymentRefund --------------------------
(* Instances of PaymentRefund for TLC. *)
EXTENDS PaymentRefund, TLC

\* Workers are interchangeable.
WorkerSymmetry == Permutations(Workers)
=============================================================================
