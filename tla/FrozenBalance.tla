--------------------------- MODULE FrozenBalance ---------------------------
(***************************************************************************)
(* The balance hold of one batch image job                                 *)
(* (backend/internal/repository/usage_billing_repo.go and                  *)
(* frozen_balance_release.go): reserve, capture, release and the timed     *)
(* refund of an old hold.  Each of them is one transaction that takes the  *)
(* batch's advisory lock first, so each is one operator on the account;    *)
(* what serialises them is the lock, what orders them are the claims they  *)
(* leave in usage_billing_dedup.                                           *)
(***************************************************************************)
EXTENDS Integers

CONSTANTS
  Hold,          \* hold_amount of the job
  Cost,          \* the actual cost of a job that succeeds
  OtherFrozen    \* frozen_balance that other jobs of the user hold

ASSUME AmountsAssumption ==
  /\ Hold \in Nat \ {0} /\ Cost \in Nat /\ OtherFrozen \in Nat
  /\ Cost <= Hold

\* The request ids of the job that usage_billing_dedup may hold.
Claims == {"hold", "capture", "release"}

\* users.balance and frozen_balance, the job's claims, whether
\* balance_hold_releases has the job's marker, and what it was charged.
AccountType ==
  [balance : Int, frozen : Int, charged : Nat, claims : SUBSET Claims, expired : BOOLEAN]

NewAccount(b) ==
  [balance |-> b, frozen |-> OtherFrozen, charged |-> 0, claims |-> {}, expired |-> FALSE]

\* The job's hold is still part of frozen_balance.
Outstanding(a) ==
  /\ "hold" \in a.claims
  /\ "capture" \notin a.claims /\ "release" \notin a.claims
  /\ ~a.expired

-----------------------------------------------------------------------------
\* Each operation has a guard, which is false when the call returns an error,
\* and the account it leaves.

CanReserve(a) ==
  /\ {"capture", "release"} \cap a.claims = {}
  /\ ~a.expired
  /\ "hold" \in a.claims \/ a.balance >= Hold

Reserve(a) ==
  IF "hold" \in a.claims THEN a
  ELSE [a EXCEPT !.balance = @ - Hold, !.frozen = @ + Hold, !.claims = @ \cup {"hold"}]

CanCapture(a) ==
  /\ "release" \notin a.claims
  /\ "hold" \in a.claims
  /\ "capture" \in a.claims \/ a.expired \/ a.frozen >= Hold

\* A hold that was refunded by time is not taken again: the cost is deducted
\* from the balance, whatever is left of it (captureExpiredBatchImageBalance).
Capture(a) ==
  IF "capture" \in a.claims THEN a
  ELSE [a EXCEPT !.balance = @ + (IF a.expired THEN 0 ELSE Hold) - Cost,
                 !.frozen  = @ - (IF a.expired THEN 0 ELSE Hold),
                 !.charged = @ + Cost,
                 !.claims  = @ \cup {"capture"}]

CanRelease(a) ==
  \/ "capture" \in a.claims \/ "release" \in a.claims
  \/ a.expired \/ "hold" \notin a.claims
  \/ a.frozen >= Hold

\* Mutant: the hold is returned although it was never reserved.
ReleaseUnheld(a) ==
  IF a.claims \cap {"capture", "release"} # {} THEN a
  ELSE [a EXCEPT !.balance = @ + (IF a.expired THEN 0 ELSE Hold),
                 !.frozen  = @ - (IF a.expired THEN 0 ELSE Hold),
                 !.claims  = @ \cup {"release"}]

\* The release of a captured hold does nothing; that of an expired hold, or of
\* one that was never reserved, only leaves the claim.
Release(a) ==
  IF a.claims \cap {"capture", "release"} # {} THEN a
  ELSE [a EXCEPT !.balance = @ + (IF Outstanding(a) THEN Hold ELSE 0),
                 !.frozen  = @ - (IF Outstanding(a) THEN Hold ELSE 0),
                 !.claims  = @ \cup {"release"}]

\* releaseExpiredBatchHold: the timed refund of an old hold leaves a marker
\* instead of a claim.
CanExpire(a) == Outstanding(a) /\ a.frozen >= Hold

Expire(a) ==
  [a EXCEPT !.balance = @ + Hold, !.frozen = @ - Hold, !.expired = TRUE]

=============================================================================
