---------------------------- MODULE Idempotency ----------------------------
(***************************************************************************)
(* IdempotencyCoordinator.Execute                                          *)
(* (backend/internal/service/idempotency.go): HTTP requests that carry the *)
(* same idempotency key in the same scope.  A request claims the key's row *)
(* by inserting it or by reclaiming it, runs the business operation, and   *)
(* stores the outcome; a request that finds the row replays the stored     *)
(* response or is refused.  Each statement on the table is one step, so    *)
(* requests interleave between any two of them, and between the step that  *)
(* reads the clock and the statements that use the time it read.           *)
(*                                                                         *)
(* Time is counted in units; the service's defaults are 24 h for TTL, 30 s *)
(* for ProcessingTimeout and 5 s for FailedRetryBackoff.                   *)
(***************************************************************************)
EXTENDS IdempotencyStore, FiniteSets

CONSTANTS
  Requests,            \* the requests that present the key
  FingerprintOf,       \* the payload fingerprint of each request
  LongResponses,       \* requests whose response is stored truncated
  TTL, ProcessingTimeout, FailedRetryBackoff,
  MaxClaim,            \* a request claims the row within this time of its start
  MaxLife,             \* a request ends within this time of its start
  MaxTime,             \* bound on the clock
  MaxFaults            \* bound on crashes and failed statements

Fingerprints == {FingerprintOf[r] : r \in Requests}

ASSUME RequestsAssumption == NoValue \notin Requests

\* Durations.  The code bounds neither a claim nor an execution: the last two
\* conjuncts are what it silently relies on (30 s and 24 h by default).
ASSUME TimeAssumption ==
  /\ TTL \in Nat /\ ProcessingTimeout \in Nat /\ FailedRetryBackoff \in Nat
  /\ MaxClaim \in Nat /\ MaxLife \in Nat /\ MaxTime \in Nat /\ MaxFaults \in Nat
  /\ MaxClaim < ProcessingTimeout
  /\ MaxLife < TTL

VARIABLES
  clock,     \* the time, starting at 1 so that NullTime is past
  row,       \* the key's row of idempotency_records
  nextId,    \* the table's id sequence
  pc,        \* where each request is
  started,   \* the request's "now", read once at the start of Execute
  seen,      \* id and status of the row it read last
  rid,       \* record.ID once it owns the row
  out,       \* how it ended
  reply,     \* the request whose response it replayed
  ran,       \* requests whose business operation took effect
  until,     \* see Begin
  faults

vars == <<clock, row, nextId, pc, started, seen, rid, out, reply, ran, until, faults>>

Claiming == {"create", "get", "reclaimExpired", "getLatest", "reclaimFailed"}
Owning   == {"exec", "markOk", "markFail"}
Outcomes == {"none", "replayed", "conflict", "unavailable", "ok", "failed", "crashed"}

\* Requests that are inside Execute, and those that run the operation or store
\* its outcome.
Active == {r \in Requests : pc[r] \in Claiming \cup Owning}
Owners == {r \in Requests : pc[r] \in Owning}

LockedUntil(r) == started[r] + ProcessingTimeout
ExpiresAt(r)   == started[r] + TTL

Init ==
  /\ clock = 1
  /\ row = AbsentRow
  /\ nextId = 1
  /\ pc = [r \in Requests |-> "idle"]
  /\ started = [r \in Requests |-> 0]
  /\ seen = [r \in Requests |-> [id |-> 0, status |-> "absent"]]
  /\ rid = [r \in Requests |-> 0]
  /\ out = [r \in Requests |-> "none"]
  /\ reply = [r \in Requests |-> NoValue]
  /\ ran = {}
  /\ until = [r \in Requests |-> 0]
  /\ faults = 0

-----------------------------------------------------------------------------
\* Steps of one request

Goto(r, p) == pc' = [pc EXCEPT ![r] = p]

End(r, o) ==
  /\ Goto(r, "done")
  /\ out' = [out EXCEPT ![r] = o]

Own(r, id) ==
  /\ Goto(r, "exec")
  /\ rid' = [rid EXCEPT ![r] = id]

\* Execute starts and reads the clock.  until[r] is a history variable: when
\* no other request is at work on the key and its row holds a result, or the
\* claim of a dead owner, the time before which r must not run the operation.
Begin(r) ==
  /\ pc[r] = "idle"
  /\ Goto(r, "create")
  /\ started' = [started EXCEPT ![r] = clock]
  /\ until' = [until EXCEPT ![r] =
       IF row.status \in {"succeeded", "processing"} /\ Active = {}
       THEN row.expiresAt ELSE 0]
  /\ UNCHANGED <<clock, row, nextId, seen, rid, out, reply, ran, faults>>

\* CreateProcessing: the request owns the row it inserted, or goes on to read it.
CreateProcessing(r) ==
  /\ pc[r] = "create"
  /\ \/ /\ row.id = 0
        /\ row' = NewRow(nextId, FingerprintOf[r], LockedUntil(r), ExpiresAt(r))
        /\ nextId' = nextId + 1
        /\ Own(r, nextId)
     \/ /\ row.id # 0
        /\ Goto(r, "get")
        /\ UNCHANGED <<row, nextId, rid>>
  /\ UNCHANGED <<clock, started, seen, out, reply, ran, until, faults>>

\* Mutant: a claim whose lock has lapsed is taken for abandoned.
BusyWhileLocked(r) == row.lockedUntil > started[r]

\* Another request is at work on the key, for all the row tells, or its failure
\* is too recent: a claim counts whether or not its lock has lapsed.
Busy(r) ==
  \/ row.status = "processing"
  \/ row.status = "failed_retryable" /\ row.lockedUntil > started[r]

\* The switch over the status of the row just read.
Decide(r) ==
  \/ /\ row.status = "succeeded"
     /\ End(r, IF row.body \in LongResponses THEN "unavailable" ELSE "replayed")
     /\ reply' = [reply EXCEPT ![r] =
                    IF row.body \in LongResponses THEN NoValue ELSE row.body]
     /\ UNCHANGED seen
  \/ /\ row.status # "succeeded" /\ Busy(r)
     /\ End(r, "conflict")
     /\ UNCHANGED <<reply, seen>>
  \/ /\ row.status # "succeeded" /\ ~Busy(r)
     /\ Goto(r, "reclaimFailed")
     /\ seen' = [seen EXCEPT ![r] = [id |-> row.id, status |-> row.status]]
     /\ UNCHANGED <<reply, out>>

\* Mutant: the payload is not compared.
AnyPayload(r) == TRUE

\* The row was written for the payload of this request.
SamePayload(r) == row.fingerprint = FingerprintOf[r]

\* The row is gone, or was written for another payload.
Refuse(r) ==
  /\ \/ row.id = 0 /\ End(r, "unavailable")
     \/ row.id # 0 /\ ~SamePayload(r) /\ End(r, "conflict")
  /\ UNCHANGED <<reply, seen>>

\* Mutant: the processing lock is taken for the expiry.
UnlockedFor(r) == row.lockedUntil <= started[r]

\* The row is past its TTL.
ExpiredFor(r) == row.expiresAt <= started[r]

GetExisting(r) ==
  /\ pc[r] = "get"
  /\ \/ Refuse(r)
     \/ /\ row.id # 0 /\ SamePayload(r)
        /\ \/ /\ ExpiredFor(r)
              /\ Goto(r, "reclaimExpired")
              /\ seen' = [seen EXCEPT ![r] = [id |-> row.id, status |-> row.status]]
              /\ UNCHANGED <<reply, out>>
           \/ ~ExpiredFor(r) /\ Decide(r)
  /\ UNCHANGED <<clock, row, nextId, started, rid, ran, until, faults>>

\* The second read, after an expired row could not be reclaimed: the status
\* decides, expired or not.
GetLatest(r) ==
  /\ pc[r] = "getLatest"
  /\ \/ Refuse(r)
     \/ row.id # 0 /\ SamePayload(r) /\ Decide(r)
  /\ UNCHANGED <<clock, row, nextId, started, rid, ran, until, faults>>

\* TryReclaim with the status that was read; on a lost race an expired row is
\* read again and a failed one is refused.
TryReclaim(r) ==
  /\ pc[r] \in {"reclaimExpired", "reclaimFailed"}
  /\ \/ /\ Reclaimable(row, seen[r].id, seen[r].status, started[r])
        /\ row' = Reclaimed(row, LockedUntil(r), ExpiresAt(r))
        /\ Own(r, seen[r].id)
        /\ UNCHANGED out
     \/ /\ ~Reclaimable(row, seen[r].id, seen[r].status, started[r])
        /\ \/ pc[r] = "reclaimExpired" /\ Goto(r, "getLatest") /\ UNCHANGED out
           \/ pc[r] = "reclaimFailed" /\ End(r, "conflict")
        /\ UNCHANGED <<row, rid>>
  /\ UNCHANGED <<clock, nextId, started, seen, reply, ran, until, faults>>

\* The business operation returns: with an effect, or with an error and none.
ExecuteReturns(r) ==
  /\ pc[r] = "exec"
  /\ \/ Goto(r, "markOk") /\ ran' = ran \cup {r}
     \/ Goto(r, "markFail") /\ UNCHANGED ran
  /\ UNCHANGED <<clock, row, nextId, started, seen, rid, out, reply, until, faults>>

MarkSucceeded(r) ==
  /\ pc[r] = "markOk"
  /\ row' = MarkedSucceeded(row, rid[r], r, ExpiresAt(r))
  /\ End(r, "ok")
  /\ UNCHANGED <<clock, nextId, started, seen, rid, reply, ran, until, faults>>

\* The backoff counts from the time of the failure, the expiry from the start.
MarkFailedRetryable(r) ==
  /\ pc[r] = "markFail"
  /\ row' = MarkedFailedRetryable(row, rid[r], clock + FailedRetryBackoff, ExpiresAt(r))
  /\ End(r, "failed")
  /\ UNCHANGED <<clock, nextId, started, seen, rid, reply, ran, until, faults>>

\* A statement fails: the store is unavailable (a failed MarkFailedRetryable
\* is only logged), and whatever was claimed stays "processing".
StoreFails(r) ==
  /\ faults < MaxFaults
  /\ pc[r] \in (Claiming \cup Owning) \ {"exec"}
  /\ End(r, IF pc[r] = "markFail" THEN "failed" ELSE "unavailable")
  /\ faults' = faults + 1
  /\ UNCHANGED <<clock, row, nextId, started, seen, rid, reply, ran, until>>

\* The process dies.  A crash inside the operation may have had its effect.
Crash(r) ==
  /\ faults < MaxFaults
  /\ pc[r] \in Claiming \cup Owning
  /\ End(r, "crashed")
  /\ \/ pc[r] = "exec" /\ ran' = ran \cup {r}
     \/ UNCHANGED ran
  /\ faults' = faults + 1
  /\ UNCHANGED <<clock, row, nextId, started, seen, rid, reply, until>>

\* IdempotencyCleanupService.cleanupOnce.
DeleteExpired ==
  /\ Expired(row, clock)
  /\ row' = AbsentRow
  /\ UNCHANGED <<clock, nextId, pc, started, seen, rid, out, reply, ran, until, faults>>

\* Time passes, but no request outlives its bounds.
Tick ==
  /\ clock < MaxTime
  /\ \A r \in Active : clock < started[r] + MaxLife
  /\ \A r \in Active : pc[r] \in Claiming => clock < started[r] + MaxClaim
  /\ clock' = clock + 1
  /\ UNCHANGED <<row, nextId, pc, started, seen, rid, out, reply, ran, until, faults>>

Step(r) ==
  \/ CreateProcessing(r) \/ GetExisting(r) \/ GetLatest(r) \/ TryReclaim(r)
  \/ ExecuteReturns(r) \/ MarkSucceeded(r) \/ MarkFailedRetryable(r)

Next ==
  \/ \E r \in Requests : Begin(r) \/ Step(r) \/ StoreFails(r) \/ Crash(r)
  \/ DeleteExpired
  \/ Tick

\* A request takes its next step, the clock runs and the cleanup loop comes
\* round; nothing makes a client send a request.
Fairness ==
  /\ \A r \in Requests : WF_vars(Step(r))
  /\ WF_vars(Tick)
  /\ WF_vars(DeleteExpired)

Spec == Init /\ [][Next]_vars /\ Fairness

-----------------------------------------------------------------------------
\* Properties

\* The variables hold values of their types (the Go types of Execute's locals
\* and the columns of idempotency_records).
TypeOK ==
  /\ clock \in Nat \ {0} /\ nextId \in Nat \ {0} /\ faults \in Nat
  /\ row \in RowType(Fingerprints, Requests)
  /\ pc \in [Requests -> Claiming \cup Owning \cup {"idle", "done"}]
  /\ started \in [Requests -> Nat]
  /\ seen \in [Requests -> [id : Nat, status : Statuses \cup {"absent"}]]
  /\ rid \in [Requests -> Nat]
  /\ out \in [Requests -> Outcomes]
  /\ reply \in [Requests -> Requests \cup {NoValue}]
  /\ ran \subseteq Requests
  /\ until \in [Requests -> Nat]

\* The business operation of a key is never run by two requests at once,
\* whatever insertions, reclaims, deletions and retries interleave.  Nothing in
\* MarkSucceeded or MarkFailedRetryable checks who owns the row: this is what
\* keeps a late request from overwriting another one's outcome.
OneExecution == \A r, q \in Owners : r = q

\* While a request runs the operation, the row it claimed is there, in
\* "processing", with the expiry that request gave it: neither the cleanup nor
\* a reclaim has taken it away, so the outcome it stores is found by retries.
OwnerHoldsRow ==
  \A r \in Owners :
    /\ row.id = rid[r]
    /\ row.status = "processing"
    /\ row.expiresAt = ExpiresAt(r)

\* A replayed response is the response of a request with the same payload that
\* had its effect: a key reused with another payload never gets its result.
ReplayIsGenuine ==
  \A r \in Requests : reply[r] # NoValue =>
    /\ reply[r] \in ran
    /\ FingerprintOf[reply[r]] = FingerprintOf[r]
    /\ reply[r] # r

\* A request that arrives while nobody works on the key does not run the
\* operation again before the result it found, or the claim of an owner that
\* died, expires.  (With others at work it may: TryReclaim does not look at
\* expires_at, so a request that read an expired success can reclaim the fresh
\* one another request stored since.)
NoRerunBeforeExpiry ==
  \A r \in Owners : clock >= until[r]

\* A claim whose owner crashed, or could not store its outcome, is released:
\* the row goes away or another request runs the operation.
AbandonedKeyIsFreed ==
  (row.status = "processing" /\ Owners = {} /\ row.expiresAt <= MaxTime)
    ~> (row.id = 0 \/ Owners # {})
=============================================================================
