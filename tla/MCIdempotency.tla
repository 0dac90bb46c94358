--------------------------- MODULE MCIdempotency ---------------------------
(* Instances of Idempotency for TLC. *)
EXTENDS Idempotency, TLC

CONSTANTS r1, r2, r3, pay, other

\* r1 and r2 repeat one write; r3 reuses the key for another payload.
MCFingerprintOf == (r1 :> pay) @@ (r2 :> pay) @@ (r3 :> other)
=============================================================================
