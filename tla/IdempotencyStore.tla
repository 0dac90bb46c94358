------------------------- MODULE IdempotencyStore -------------------------
(***************************************************************************)
(* The repository over the table idempotency_records                       *)
(* (backend/internal/repository/idempotency_repo.go).  Its statements      *)
(* select one row, by the unique pair (scope, idempotency_key_hash) or by  *)
(* id, so rows of different keys never meet and the module is about one    *)
(* key: a row, or AbsentRow.  Each operator is one SQL statement, atomic   *)
(* in the database.                                                        *)
(***************************************************************************)
EXTENDS Integers

CONSTANT NoValue      \* a fingerprint or a response body that is not there

\* locked_until IS NULL.  Every reader treats NULL as a time already past.
NullTime == 0

AbsentRow == [id |-> 0, fingerprint |-> NoValue, status |-> "absent",
              lockedUntil |-> NullTime, expiresAt |-> NullTime, body |-> NoValue]

Statuses == {"processing", "succeeded", "failed_retryable"}

\* The rows the table can hold.
RowType(Fingerprints, Bodies) ==
  [id : Nat, fingerprint : Fingerprints \cup {NoValue},
   status : Statuses \cup {"absent"}, lockedUntil : Nat, expiresAt : Nat,
   body : Bodies \cup {NoValue}]

\* INSERT ... ON CONFLICT DO NOTHING: the row, when the key has none.
NewRow(id, fingerprint, lockedUntil, expiresAt) ==
  [id |-> id, fingerprint |-> fingerprint, status |-> "processing",
   lockedUntil |-> lockedUntil, expiresAt |-> expiresAt, body |-> NoValue]

\* TryReclaim's WHERE clause: the status the caller read, and no lock beyond
\* the caller's own idea of the time.  Neither expires_at nor the fingerprint
\* is looked at.
Reclaimable(row, id, fromStatus, now) ==
  /\ row.id = id
  /\ row.status = fromStatus
  /\ row.lockedUntil <= now

\* Mutant: the old expiry is kept.
ReclaimedNotExtended(row, lockedUntil, expiresAt) ==
  [row EXCEPT !.status = "processing", !.lockedUntil = lockedUntil]

\* TryReclaim's SET clause: the fingerprint and the old response stay.
Reclaimed(row, lockedUntil, expiresAt) ==
  [row EXCEPT !.status = "processing", !.lockedUntil = lockedUntil,
              !.expiresAt = expiresAt]

\* ExtendProcessingLock's WHERE and SET clauses.
Extendable(row, id, fingerprint) ==
  /\ row.id = id
  /\ row.status = "processing"
  /\ row.fingerprint = fingerprint

Extended(row, lockedUntil, expiresAt) ==
  [row EXCEPT !.lockedUntil = lockedUntil, !.expiresAt = expiresAt]

\* Mutant: the lock is blanked instead of set to NULL.
MarkedSucceededBlankLock(row, id, body, expiresAt) ==
  IF row.id = id
  THEN [row EXCEPT !.status = "succeeded", !.body = body,
                   !.lockedUntil = NoValue, !.expiresAt = expiresAt]
  ELSE row

\* MarkSucceeded and MarkFailedRetryable: by id alone, whoever holds the row.
MarkedSucceeded(row, id, body, expiresAt) ==
  IF row.id = id
  THEN [row EXCEPT !.status = "succeeded", !.body = body,
                   !.lockedUntil = NullTime, !.expiresAt = expiresAt]
  ELSE row

MarkedFailedRetryable(row, id, lockedUntil, expiresAt) ==
  IF row.id = id
  THEN [row EXCEPT !.status = "failed_retryable",
                   !.lockedUntil = lockedUntil, !.expiresAt = expiresAt]
  ELSE row

\* Mutant: unfinished records are kept.
ExpiredFinished(row, now) ==
  row.id # 0 /\ row.expiresAt <= now /\ row.status # "processing"

\* DeleteExpired's victims.
Expired(row, now) == row.id # 0 /\ row.expiresAt <= now
=============================================================================
