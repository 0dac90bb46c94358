---------------------------- MODULE TokenRefresh ----------------------------
(***************************************************************************)
(* The refresh of one Grok OAuth account                                   *)
(* (backend/internal/service/oauth_refresh_api.go,                         *)
(* token_refresh_service.go, grok_token_provider.go and the conditional    *)
(* updates of repository/account_repo.go).  The provider rotates refresh   *)
(* tokens: one that was presented is spent.  The background workers of     *)
(* several instances and the admins' connection tests refresh the account  *)
(* under a mutex per instance and a lock in Redis, while administrators    *)
(* edit or re-authorize it.                                                *)
(*                                                                         *)
(* A credential document is identified by its refresh token, a number; the *)
(* access token and its expiry go with it.  Left out: the cached access    *)
(* token, the scheduler snapshot, and the gates and the breaker that only  *)
(* delay or skip a worker's attempt.                                       *)
(***************************************************************************)
EXTENDS Integers, FiniteSets

CONSTANTS
  Workers,         \* background refreshes (refreshWithRetryWithRateGate)
  Tests,           \* connection tests (GetAccessTokenForManualTest), one each
  Instances, InstanceOf,
  Nobody, Abandoned,
  MaxRetries,
  MaxAgings,       \* bound on access tokens that come near their expiry
  MaxEdits,        \* bound on administrators' updates
  MaxFaults        \* bound on failed calls, late answers and crashes

Callers == Workers \cup Tests

ASSUME CallersAssumption ==
  /\ Workers \cap Tests = {} /\ Nobody \notin Callers /\ Abandoned \notin Callers
  /\ InstanceOf \in [Callers -> Instances]

ASSUME BoundsAssumption ==
  MaxRetries \in Nat \ {0} /\ MaxAgings \in Nat /\ MaxEdits \in Nat /\ MaxFaults \in Nat

VARIABLES
  creds,      \* the row: its credentials,
  active,     \*   status = 'active' and schedulable,
  cooldown,   \*   temp_unschedulable_until is ahead
  old,        \* credentials whose access token is within the refresh window
  live,       \* refresh tokens the provider accepts
  next,       \* the next token the provider issues
  lock,       \* who set the lock in Redis (its value does not tell), if it is set
  local,      \* who holds each instance's mutex
  pc, then,   \* where each caller is, and where it goes once it has released
  locked,     \* callers that will delete the lock
  acct,       \* the credentials of the account refreshWithRetry works on
  snap,       \* the credentials RefreshIfNeeded read
  fresh,      \* the credentials the provider returned
  attempt,
  late,       \* callers whose provider call outlasted their attempt
  edit,       \* the administrator's update under way
  edits,
  restored,   \* history: an edit wrote back credentials that had been replaced
  rightful,   \* history: see Persist and EditWrite
  disturbed,  \* history: a lock call failed, or a provider call was late
  faults

row   == <<creds, active, cooldown>>
world == <<old, live, next>>
locks == <<lock, local, locked>>
task  == <<then, acct, snap, fresh, attempt>>
admin == <<edit, edits, restored>>
vars  == <<row, world, locks, pc, task, late, admin, rightful, disturbed, faults>>

NoToken == 0
NoEdit  == [kind |-> "none", creds |-> NoToken, active |-> FALSE]

Init ==
  /\ creds = 1 /\ active = TRUE /\ cooldown = FALSE
  /\ old = {} /\ live = {1} /\ next = 2
  /\ lock = Nobody
  /\ local = [i \in Instances |-> Nobody]
  /\ locked = {}
  /\ pc = [c \in Callers |-> "idle"]
  /\ then = [c \in Callers |-> "idle"]
  /\ acct = [c \in Callers |-> NoToken]
  /\ snap = [c \in Callers |-> NoToken]
  /\ fresh = [c \in Callers |-> NoToken]
  /\ attempt = [c \in Callers |-> 1]
  /\ late = {}
  /\ edit = NoEdit /\ edits = 0 /\ restored = FALSE
  /\ rightful = {1}
  /\ disturbed = FALSE
  /\ faults = 0

Goto(c, l) == pc' = [pc EXCEPT ![c] = l]
Fault == faults < MaxFaults /\ faults' = faults + 1

\* RefreshIfNeeded returns: the deferred releases run, then the caller goes on.
Return(c, l) ==
  /\ Goto(c, "release")
  /\ then' = [then EXCEPT ![c] = l]

\* The caller is done with the account; a worker comes back next cycle.
Finish(c) ==
  /\ Goto(c, IF c \in Workers THEN "idle" ELSE "over")
  /\ acct' = [acct EXCEPT ![c] = NoToken]
  /\ snap' = [snap EXCEPT ![c] = NoToken]
  /\ fresh' = [fresh EXCEPT ![c] = NoToken]
  /\ attempt' = [attempt EXCEPT ![c] = 1]
  /\ then' = [then EXCEPT ![c] = "idle"]

-----------------------------------------------------------------------------
\* RefreshIfNeeded

\* A cycle's candidate page, or a test, finds the access token near its end.
Begin(c) ==
  /\ pc[c] = "idle"
  /\ creds \in old
  /\ c \in Workers => active /\ ~cooldown
  /\ Goto(c, "local")
  /\ acct' = [acct EXCEPT ![c] = creds]
  /\ UNCHANGED <<row, world, locks, then, snap, fresh, attempt, late, admin, rightful,
                 disturbed, faults>>

LocalLock(c) ==
  /\ pc[c] = "local"
  /\ local[InstanceOf[c]] = Nobody
  /\ local' = [local EXCEPT ![InstanceOf[c]] = c]
  /\ Goto(c, "lock")
  /\ UNCHANGED <<row, world, lock, locked, task, late, admin, rightful, disturbed, faults>>

\* The wait for the mutex is cut off by the attempt's deadline.
LocalTimeout(c) ==
  /\ pc[c] = "local"
  /\ local[InstanceOf[c]] # Nobody
  /\ Fault
  /\ Goto(c, "failed")
  /\ UNCHANGED <<row, world, locks, task, late, admin, rightful, disturbed>>

\* SETNX with the lease.  Held: somebody else refreshes.  An error lets the
\* refresh go on without the lock, whether or not it was set.
AcquireRefreshLock(c) ==
  /\ pc[c] = "lock"
  /\ \/ /\ lock = Nobody
        /\ lock' = c /\ locked' = locked \cup {c}
        /\ Goto(c, "read")
        /\ UNCHANGED <<then, disturbed, faults>>
     \/ /\ lock # Nobody
        /\ Return(c, "idle")
        /\ UNCHANGED <<lock, locked, disturbed, faults>>
     \/ /\ Fault
        /\ disturbed' = TRUE
        /\ lock' \in {lock, IF lock = Nobody THEN c ELSE lock}
        /\ Goto(c, "read")
        /\ UNCHANGED <<locked, then>>
  /\ UNCHANGED <<row, world, local, acct, snap, fresh, attempt, late, admin, rightful>>

\* The account is read again under the lock; it may be inactive, or refreshed.
\* When it cannot be read the worker gives up for this cycle.
ReadAccount(c) ==
  /\ pc[c] = "read"
  /\ \/ /\ active /\ creds \in old
        /\ snap' = [snap EXCEPT ![c] = creds]
        /\ Goto(c, "call")
        /\ UNCHANGED <<then, faults>>
     \/ /\ ~active \/ creds \notin old
        /\ Return(c, "idle")
        /\ UNCHANGED <<snap, faults>>
     \/ Fault /\ Return(c, "idle") /\ UNCHANGED snap
  /\ UNCHANGED <<row, world, locks, acct, fresh, attempt, late, admin, rightful, disturbed>>

\* The provider takes the refresh token and issues the next one.
Rotate(c) ==
  /\ snap[c] \in live
  /\ live' = (live \ {snap[c]}) \cup {next}
  /\ next' = next + 1
  /\ rightful' = IF snap[c] \in rightful THEN rightful \cup {next} ELSE rightful
  /\ UNCHANGED old

\* executor.Refresh.  What comes back after the deadline is dropped, and so is
\* an answer lost on the way; a test does not retry, and a failure of the
\* provider as a whole ends the worker's cycle.
Refresh(c) ==
  /\ pc[c] = "call"
  /\ late' = late \ {c}
  /\ \/ /\ c \notin late
        /\ \/ /\ Rotate(c)
              /\ fresh' = [fresh EXCEPT ![c] = next]
              /\ Goto(c, "persist")
           \/ /\ snap[c] \notin live
              /\ Goto(c, "invalid")
              /\ UNCHANGED <<world, rightful, fresh>>
        /\ UNCHANGED <<then, acct, faults>>
     \/ /\ c \in late
        /\ \/ Rotate(c)
           \/ snap[c] \notin live /\ UNCHANGED <<world, rightful>>
        /\ Return(c, "failed")
        /\ UNCHANGED <<acct, fresh, faults>>
     \/ /\ c \notin late
        /\ Fault
        /\ Rotate(c) \/ UNCHANGED <<world, rightful>>
        /\ \/ Return(c, "failed") /\ acct' = [acct EXCEPT ![c] = snap[c]]
           \/ Return(c, "failed") /\ UNCHANGED acct
           \/ Return(c, "idle") /\ UNCHANGED acct
        /\ UNCHANGED fresh
  /\ UNCHANGED <<row, locks, snap, attempt, admin, disturbed>>

\* The provider call ignores its cancellation and runs past the deadline.
Overrun(c) ==
  /\ pc[c] = "call" /\ c \notin late
  /\ Fault
  /\ late' = late \cup {c}
  /\ disturbed' = TRUE
  /\ UNCHANGED <<row, world, locks, pc, task, admin, rightful>>

\* tryRecoverFromRefreshRace after invalid_grant: another refresh token in the
\* row means that somebody else refreshed.
Recover(c) ==
  /\ pc[c] = "invalid"
  /\ \/ creds # snap[c] /\ Return(c, "idle") /\ UNCHANGED <<acct, faults>>
     \/ /\ \/ creds = snap[c] /\ UNCHANGED faults
           \/ Fault
        /\ Return(c, "reject")
        /\ acct' = [acct EXCEPT ![c] = snap[c]]
  /\ UNCHANGED <<row, world, locks, snap, fresh, attempt, late, admin, rightful, disturbed>>

\* Mutant: the conditional updates do not compare.
AnyCredentials(expected) == TRUE

\* The condition of the conditional updates: the row still holds the
\* credentials that were used.  The code compares the whole document and the
\* proxy, so that an edit of another key makes an update miss as well; that
\* miss has the outcome of an update that fails before it took effect, and is
\* counted as such a fault.
Unchanged(expected) == creds = expected

\* UpdateGrokOAuthCredentialsIfUnchanged.  When it fails the worker gives up
\* for this cycle, whether or not it took effect.  (rightful holds the
\* credentials that may stand in the row: the last authorization and what was
\* rotated from it, without those that were replaced.)
Persist(c) ==
  /\ pc[c] = "persist"
  /\ \/ /\ Unchanged(snap[c])
        /\ creds' = fresh[c]
        /\ rightful' = rightful \ {snap[c]}
        /\ Return(c, "done")
        /\ UNCHANGED faults
     \/ /\ ~Unchanged(snap[c])
        /\ Return(c, "idle")
        /\ UNCHANGED <<creds, rightful, faults>>
     \/ /\ Fault
        /\ \/ Unchanged(snap[c]) /\ creds' = fresh[c] /\ rightful' = rightful \ {snap[c]}
           \/ UNCHANGED <<creds, rightful>>
        /\ Return(c, "idle")
  /\ UNCHANGED <<active, cooldown, world, locks, acct, snap, fresh, attempt, late, admin,
                 disturbed>>

\* A lock whose owner has gone on without deleting it.
AbandonedBy(callers) == IF lock \in callers THEN Abandoned ELSE lock

\* Mutant: the release is deferred before the outcome is known.
DeletesAnyLock(c) == TRUE

\* The lock is deleted by a caller that acquired it, though not compared.
DeletesLock(c) == c \in locked

\* The deferred releases: DEL, then the mutex.
Release(c) ==
  /\ pc[c] = "release"
  /\ \/ lock' = (IF DeletesLock(c) THEN Nobody ELSE AbandonedBy({c})) /\ UNCHANGED faults
     \/ DeletesLock(c) /\ Fault /\ lock' = AbandonedBy({c})
  /\ locked' = locked \ {c}
  /\ local' = [local EXCEPT ![InstanceOf[c]] = Nobody]
  /\ IF then[c] = "idle"
     THEN Finish(c)
     ELSE /\ Goto(c, then[c])
          /\ then' = [then EXCEPT ![c] = "idle"]
          /\ snap' = [snap EXCEPT ![c] = NoToken]
          /\ fresh' = [fresh EXCEPT ![c] = NoToken]
          /\ UNCHANGED <<acct, attempt>>
  /\ UNCHANGED <<row, world, late, admin, rightful, disturbed>>

-----------------------------------------------------------------------------
\* refreshWithRetryWithRateGate, after RefreshIfNeeded has returned

\* postRefreshActions: a cooldown seen in the durable row is cleared.
PostRefresh(c) ==
  /\ pc[c] = "done"
  /\ cooldown' \in IF c \in Workers THEN {cooldown, FALSE} ELSE {cooldown}
  /\ Finish(c)
  /\ UNCHANGED <<creds, active, world, locks, late, admin, rightful, disturbed, faults>>

\* Mutant: the status is written as for the other platforms.
StillActive(c) == active

\* The account is active with the credentials that failed.
StillFailing(c) == active /\ Unchanged(acct[c])

\* A non-retryable error: SetGrokOAuthRefreshErrorIfCredentialsUnchanged.
SetRefreshError(c) ==
  /\ pc[c] = "reject"
  /\ \/ c \in Workers /\ StillFailing(c) /\ active' = FALSE /\ UNCHANGED faults
     \/ (c \in Tests \/ ~StillFailing(c)) /\ UNCHANGED <<active, faults>>
     \/ c \in Workers /\ Fault /\ UNCHANGED active
  /\ Finish(c)
  /\ UNCHANGED <<creds, cooldown, world, locks, late, admin, rightful, disturbed>>

\* Mutant: one attempt too many.
AttemptLeftOrNone(c) == attempt[c] <= MaxRetries

AttemptLeft(c) == attempt[c] < MaxRetries

\* A retryable error: another attempt after a pause, or at last a cooldown
\* (SetGrokOAuthRefreshTempUnschedulableIfCredentialsUnchanged).
AttemptFailed(c) ==
  /\ pc[c] = "failed"
  /\ \/ /\ c \in Workers /\ AttemptLeft(c)
        /\ attempt' = [attempt EXCEPT ![c] = attempt[c] + 1]
        /\ Goto(c, "local")
        /\ UNCHANGED <<cooldown, then, acct, snap, fresh, faults>>
     \/ /\ c \in Workers /\ ~AttemptLeft(c)
        /\ \/ StillFailing(c) /\ cooldown' = TRUE /\ UNCHANGED faults
           \/ ~StillFailing(c) /\ UNCHANGED <<cooldown, faults>>
           \/ Fault /\ UNCHANGED cooldown
        /\ Finish(c)
     \/ c \in Tests /\ Finish(c) /\ UNCHANGED <<cooldown, faults>>
  /\ UNCHANGED <<creds, active, world, locks, late, admin, rightful, disturbed>>

Step(c) ==
  \/ LocalLock(c) \/ AcquireRefreshLock(c) \/ ReadAccount(c) \/ Refresh(c) \/ Recover(c)
  \/ Persist(c) \/ Release(c) \/ PostRefresh(c) \/ SetRefreshError(c) \/ AttemptFailed(c)

-----------------------------------------------------------------------------
\* Administrators

\* UpdateAccount reads the account; the update changes a setting, or brings the
\* credentials of a new authorization.
EditRead ==
  /\ edit = NoEdit /\ edits < MaxEdits
  /\ edits' = edits + 1
  /\ \E k \in {"setting", "authorization"} :
       edit' = [kind |-> k, creds |-> creds, active |-> active]
  /\ UNCHANGED <<row, world, locks, pc, task, late, restored, rightful, disturbed, faults>>

\* The whole account is written back, with the credentials that were read
\* unless the update brings some (MergePreservingSensitiveCreds).
EditWrite ==
  /\ edit.kind \in {"setting", "authorization"}
  /\ active' = edit.active
  /\ \/ /\ edit.kind = "setting"
        /\ creds' = edit.creds
        /\ restored' = (restored \/ creds # edit.creds)
        /\ edit' = NoEdit
        /\ UNCHANGED <<world, rightful>>
     \/ /\ edit.kind = "authorization"
        /\ creds' = next
        /\ next' = next + 1
        /\ live' \in {live \cup {next}, (live \ {creds}) \cup {next}}
        /\ rightful' = {next}
        /\ edit' = [edit EXCEPT !.kind = "clear"]
        /\ UNCHANGED <<old, restored>>
  /\ UNCHANGED <<cooldown, locks, pc, task, late, edits, disturbed, faults>>

\* ClearAccountError follows an authorization.
ClearAccountError ==
  /\ edit.kind = "clear"
  /\ active' = TRUE /\ cooldown' = FALSE
  /\ edit' = NoEdit
  /\ UNCHANGED <<creds, world, locks, pc, task, late, edits, restored, rightful, disturbed, faults>>

-----------------------------------------------------------------------------
\* Time and crashes

\* The access token comes near its expiry.
Age ==
  /\ creds \notin old /\ Cardinality(old) < MaxAgings
  /\ old' = old \cup {creds}
  /\ UNCHANGED <<row, live, next, locks, pc, task, late, admin, rightful, disturbed, faults>>

CooldownEnds ==
  /\ cooldown
  /\ cooldown' = FALSE
  /\ UNCHANGED <<creds, active, world, locks, pc, task, late, admin, rightful, disturbed,
                 faults>>

\* Mutant: the lock has no lease.
LapsesNever == FALSE

\* The lease outlasts an attempt (attemptTimeout is clamped below it, a test's
\* budget is 8 s of 60 s), so it ends only when its owner is gone or late.
Lapses == lock = Abandoned \/ lock \in late

LockExpires ==
  /\ Lapses
  /\ lock' = Nobody
  /\ UNCHANGED <<row, world, local, locked, pc, task, late, admin, rightful, disturbed, faults>>

Crash(i) ==
  LET dead == {c \in Callers : InstanceOf[c] = i}
      Cleared(f, v) == [c \in Callers |-> IF c \in dead THEN v ELSE f[c]]
  IN  /\ Fault
      /\ \E c \in dead : pc[c] \notin {"idle", "over"}
      /\ pc' = Cleared(pc, "idle") /\ then' = Cleared(then, "idle")
      /\ acct' = Cleared(acct, NoToken) /\ snap' = Cleared(snap, NoToken)
      /\ fresh' = Cleared(fresh, NoToken) /\ attempt' = Cleared(attempt, 1)
      /\ local' = [local EXCEPT ![i] = Nobody]
      /\ locked' = locked \ dead /\ late' = late \ dead
      /\ lock' = AbandonedBy(dead)
      /\ UNCHANGED <<row, world, admin, rightful, disturbed>>

Next ==
  \/ \E c \in Callers : Begin(c) \/ Step(c) \/ LocalTimeout(c) \/ Overrun(c)
  \/ EditRead \/ EditWrite \/ ClearAccountError
  \/ Age \/ CooldownEnds \/ LockExpires
  \/ \E i \in Instances : Crash(i)

\* Cycles come round, callers go on, leases and cooldowns end.
Fairness ==
  /\ \A c \in Callers : WF_vars(Step(c))
  /\ \A w \in Workers : WF_vars(Begin(w))
  /\ WF_vars(LockExpires) /\ WF_vars(CooldownEnds)
  /\ WF_vars(EditWrite) /\ WF_vars(ClearAccountError)

Spec == Init /\ [][Next]_vars /\ Fairness

-----------------------------------------------------------------------------
\* Properties

Places == {"idle", "local", "lock", "read", "call", "persist", "invalid", "release", "done",
           "reject", "failed", "over"}

\* The variables hold values of their types; a worker makes at most MaxRetries
\* attempts.
TypeOK ==
  /\ creds \in 1..(next - 1) /\ active \in BOOLEAN /\ cooldown \in BOOLEAN
  /\ old \subseteq 1..(next - 1) /\ live \subseteq 1..(next - 1) /\ next \in Nat
  /\ lock \in Callers \cup {Nobody, Abandoned} /\ locked \subseteq Callers
  /\ local \in [Instances -> Callers \cup {Nobody}]
  /\ pc \in [Callers -> Places] /\ then \in [Callers -> Places]
  /\ acct \in [Callers -> 0..(next - 1)] /\ snap \in [Callers -> 0..(next - 1)]
  /\ fresh \in [Callers -> 0..(next - 1)] /\ attempt \in [Callers -> 1..MaxRetries]
  /\ late \subseteq Callers /\ rightful \subseteq 1..(next - 1)
  /\ edit.kind \in {"none", "setting", "authorization", "clear"}
  /\ edits \in 0..MaxEdits /\ restored \in BOOLEAN /\ disturbed \in BOOLEAN /\ faults \in 0..MaxFaults

\* Two callers never use the account's refresh token at the same time, although
\* the lock is deleted without a look at who set it and outlives a crash: one
\* of them would be told invalid_grant.  It takes a failed lock call or a
\* provider call that outlasts the lease.
OneRefreshAtATime ==
  ~disturbed =>
    \A c, d \in Callers :
      {pc[c], pc[d]} \subseteq {"read", "call", "persist", "invalid"} => c = d

\* The account is put into error only for credentials the provider has really
\* stopped accepting: neither a concurrent refresh nor a new authorization is
\* mistaken for a revoked account (unless the lock failed, see above).
QuarantineIsDeserved ==
  (~active /\ edit.kind # "clear" /\ ~disturbed) => creds \notin live

\* The row holds the last authorization or what was rotated from it, and never
\* again what was replaced: an edit of some setting, which brings no credentials,
\* does not bring a spent token back either.
SupersededStayGone == creds \in rightful

\* As far as refreshes go it holds, whatever becomes of the lock: a refresh that
\* was under way when the account was authorized anew does not undo that, and
\* of two refreshes with one token only one is stored.
RefreshKeepsAuthorization == ~restored => creds \in rightful

\* An account whose access token runs out is refreshed or put into error; a
\* lock left behind by a crash, failed calls and cooldowns only delay it.
ExpiringIsSettled == (creds \in old) ~> (creds \notin old \/ ~active)
=============================================================================
