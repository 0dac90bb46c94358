------------------------ MODULE SystemOperationLock ------------------------
(***************************************************************************)
(* SystemOperationLockService                                              *)
(* (backend/internal/service/system_operation_lock_service.go): the global *)
(* lock that admin/system_handler.go takes around update, rollback and     *)
(* restart.  The lock is one row of idempotency_records whose fingerprint  *)
(* is the operation id; Acquire inserts or reclaims the row, a goroutine   *)
(* extends its locked_until every RenewInterval, Release marks it          *)
(* succeeded or failed.                                                    *)
(*                                                                         *)
(* The defaults are 30 s for Lease, Lease / 3 for RenewInterval and 1 h    *)
(* for TTL; an operation downloads a release and may run for minutes.      *)
(***************************************************************************)
EXTENDS IdempotencyStore, FiniteSets

CONSTANTS
  Operations,          \* operations, each with an operation id of its own
  Lease, RenewInterval, TTL,
  MaxOp,               \* an operation runs at most this long
  MaxTime,             \* bound on the clock
  MaxFaults            \* bound on crashes and failed renewals

VARIABLES
  clock, row, nextId,  \* as in Idempotency
  pc,                  \* where each operation is
  started,             \* the "now" Acquire read
  seen,                \* id and status of the row it read
  rid,                 \* lock.recordID
  renewing,            \* operations whose renewLoop goroutine runs
  tickedAt,            \* when that goroutine last tried to renew
  faults

vars == <<clock, row, nextId, pc, started, seen, rid, renewing, tickedAt, faults>>

Acquiring == {"create", "get", "reclaim"}

\* Operations that hold the lock as far as they know.
Running == {o \in Operations : pc[o] = "run"}

Init ==
  /\ clock = 1 /\ row = AbsentRow /\ nextId = 1
  /\ pc = [o \in Operations |-> "idle"]
  /\ started = [o \in Operations |-> 0]
  /\ seen = [o \in Operations |-> [id |-> 0, status |-> "absent"]]
  /\ rid = [o \in Operations |-> 0]
  /\ renewing = {}
  /\ tickedAt = [o \in Operations |-> 0]
  /\ faults = 0

Goto(o, p) == pc' = [pc EXCEPT ![o] = p]

\* Acquire succeeds: the lock is built and its renewLoop started.
Hold(o, id) ==
  /\ Goto(o, "run")
  /\ rid' = [rid EXCEPT ![o] = id]
  /\ renewing' = renewing \cup {o}
  /\ tickedAt' = [tickedAt EXCEPT ![o] = clock]

Begin(o) ==
  /\ pc[o] = "idle"
  /\ Goto(o, "create")
  /\ started' = [started EXCEPT ![o] = clock]
  /\ UNCHANGED <<clock, row, nextId, seen, rid, renewing, tickedAt, faults>>

CreateProcessing(o) ==
  /\ pc[o] = "create"
  /\ \/ /\ row.id = 0
        /\ row' = NewRow(nextId, o, started[o] + Lease, started[o] + TTL)
        /\ nextId' = nextId + 1
        /\ Hold(o, nextId)
     \/ /\ row.id # 0
        /\ Goto(o, "get")
        /\ UNCHANGED <<row, nextId, rid, renewing, tickedAt>>
  /\ UNCHANGED <<clock, started, seen, faults>>

Busy(o) == row.status = "processing" /\ row.lockedUntil > started[o]

\* GetByScopeAndKeyHash: busy, gone, or worth a reclaim.
GetExisting(o) ==
  /\ pc[o] = "get"
  /\ \/ (row.id = 0 \/ Busy(o)) /\ Goto(o, "done") /\ UNCHANGED seen
     \/ /\ row.id # 0 /\ ~Busy(o)
        /\ Goto(o, "reclaim")
        /\ seen' = [seen EXCEPT ![o] = [id |-> row.id, status |-> row.status]]
  /\ UNCHANGED <<clock, row, nextId, started, rid, renewing, tickedAt, faults>>

TryReclaim(o) ==
  /\ pc[o] = "reclaim"
  /\ \/ /\ Reclaimable(row, seen[o].id, seen[o].status, started[o])
        /\ row' = Reclaimed(row, started[o] + Lease, started[o] + TTL)
        /\ Hold(o, seen[o].id)
     \/ /\ ~Reclaimable(row, seen[o].id, seen[o].status, started[o])
        /\ Goto(o, "done")
        /\ UNCHANGED <<row, rid, renewing, tickedAt>>
  /\ UNCHANGED <<clock, nextId, started, seen, faults>>

\* A tick of renewLoop.  The loop ends when the row is no longer this
\* operation's; the operation itself goes on.
Renew(o) ==
  /\ o \in renewing
  /\ clock = tickedAt[o] + RenewInterval
  /\ tickedAt' = [tickedAt EXCEPT ![o] = clock]
  /\ \/ /\ Extendable(row, rid[o], o)
        /\ row' = Extended(row, clock + Lease, clock + TTL)
        /\ UNCHANGED renewing
     \/ /\ ~Extendable(row, rid[o], o)
        /\ renewing' = renewing \ {o}
        /\ UNCHANGED row
  /\ UNCHANGED <<clock, nextId, pc, started, seen, rid, faults>>

\* The statement fails; the loop tries again at the next tick.
RenewFails(o) ==
  /\ faults < MaxFaults
  /\ o \in renewing
  /\ clock = tickedAt[o] + RenewInterval
  /\ tickedAt' = [tickedAt EXCEPT ![o] = clock]
  /\ faults' = faults + 1
  /\ UNCHANGED <<clock, row, nextId, pc, started, seen, rid, renewing>>

\* The operation returns and its deferred Release marks the row by id.
Release(o) ==
  /\ pc[o] = "run"
  /\ \/ row' = MarkedSucceeded(row, rid[o], o, clock + TTL)
     \/ row' = MarkedFailedRetryable(row, rid[o], clock, clock + TTL)
  /\ renewing' = renewing \ {o}
  /\ Goto(o, "done")
  /\ UNCHANGED <<clock, nextId, started, seen, rid, tickedAt, faults>>

\* The process dies with the operation: neither renewed nor released.
Crash(o) ==
  /\ faults < MaxFaults
  /\ pc[o] = "run"
  /\ Goto(o, "done")
  /\ renewing' = renewing \ {o}
  /\ faults' = faults + 1
  /\ UNCHANGED <<clock, row, nextId, started, seen, rid, tickedAt>>

DeleteExpired ==
  /\ Expired(row, clock)
  /\ row' = AbsentRow
  /\ UNCHANGED <<clock, nextId, pc, started, seen, rid, renewing, tickedAt, faults>>

\* Time passes: Acquire takes no time worth counting, a renewal is never late,
\* and no operation outruns MaxOp.
Tick ==
  /\ clock < MaxTime
  /\ \A o \in Operations : pc[o] \notin Acquiring
  /\ \A o \in renewing : clock < tickedAt[o] + RenewInterval
  /\ \A o \in Running : clock < started[o] + MaxOp
  /\ clock' = clock + 1
  /\ UNCHANGED <<row, nextId, pc, started, seen, rid, renewing, tickedAt, faults>>

Next ==
  \/ \E o \in Operations :
       \/ Begin(o) \/ CreateProcessing(o) \/ GetExisting(o) \/ TryReclaim(o)
       \/ Renew(o) \/ RenewFails(o) \/ Release(o) \/ Crash(o)
  \/ DeleteExpired
  \/ Tick

Spec == Init /\ [][Next]_vars

-----------------------------------------------------------------------------
\* Properties

\* One system operation runs at a time: what the lock is for.
OneSystemOperation == \A o, p \in Running : o = p
=============================================================================
