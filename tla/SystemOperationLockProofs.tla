---------------------- MODULE SystemOperationLockProofs ----------------------
(***************************************************************************)
(* When the lock around system operations does hold: as long as an         *)
(* operation is shorter than the lease Acquire gives it, so that it never  *)
(* depends on a renewal.  (The run of SystemOperationLock shows that       *)
(* renewals do not carry a longer operation.)                              *)
(***************************************************************************)
EXTENDS SystemOperationLock, TLAPS

\* An operation ends within the lease and the TTL of its row; durations are
\* numbers.
ShortOperations ==
  /\ Lease \in Nat /\ TTL \in Nat /\ RenewInterval \in Nat /\ MaxOp \in Nat
  /\ MaxOp < Lease /\ MaxOp < TTL

-----------------------------------------------------------------------------
(* Types. *)

Rows == RowType(Operations, Operations)

Places == Acquiring \cup {"idle", "run", "done"}

\* The locals of Acquire and of the lock, and the row.
TypeInv ==
  /\ clock \in Nat /\ nextId \in Nat \ {0} /\ row \in Rows
  /\ pc \in [Operations -> Places] /\ started \in [Operations -> Nat]
  /\ rid \in [Operations -> Nat] /\ renewing \subseteq Operations
  /\ seen \in [Operations -> [id : Nat, status : Statuses \cup {"absent"}]]

\* The rows the statements write.
LEMMA RowsWritten ==
  ASSUME NEW x \in Rows, NEW i \in Nat, NEW o \in Operations, NEW l \in Nat, NEW e \in Nat
  PROVE  /\ NewRow(i, o, l, e) \in Rows /\ Reclaimed(x, l, e) \in Rows /\ Extended(x, l, e) \in Rows
         /\ MarkedSucceeded(x, i, o, e) \in Rows /\ MarkedFailedRetryable(x, i, l, e) \in Rows
         /\ AbsentRow \in Rows
  BY DEF Rows, RowType, NewRow, Reclaimed, Extended, MarkedSucceeded, MarkedFailedRetryable, AbsentRow,
     Statuses, NullTime

\* Acquire that succeeds keeps the types.
LEMMA HoldType ==
  ASSUME TypeInv, NEW o \in Operations, NEW i \in Nat, Hold(o, i)
  PROVE  /\ pc' \in [Operations -> Places] /\ rid' \in [Operations -> Nat]
         /\ renewing' \subseteq Operations
  BY DEF TypeInv, Hold, Goto, Places

\* Every step keeps the types.
LEMMA TypeStep ==
  ASSUME ShortOperations, TypeInv, [Next]_vars PROVE TypeInv'
  <1>0. row.id \in Nat /\ row.status \in Statuses \cup {"absent"} /\ row \in Rows
    BY DEF TypeInv, Rows, RowType
  <1>1. ASSUME NEW o \in Operations, Begin(o) PROVE TypeInv'
    BY <1>1 DEF Begin, Goto, TypeInv, Places, Acquiring
  <1>2. ASSUME NEW o \in Operations PROVE started[o] + Lease \in Nat /\ started[o] + TTL \in Nat
    BY DEF TypeInv, ShortOperations
  <1>3. ASSUME NEW o \in Operations, CreateProcessing(o) PROVE TypeInv'
    <2>1. CASE row.id = 0
      <3>1. row' \in Rows /\ nextId' \in Nat \ {0}
        <4>1. NewRow(nextId, o, started[o] + Lease, started[o] + TTL) \in Rows
          BY <1>0, <1>2, RowsWritten DEF TypeInv
        <4> QED
          BY <1>3, <2>1, <4>1 DEF CreateProcessing, TypeInv
      <3> QED
        BY <1>3, <2>1, <3>1, HoldType DEF CreateProcessing, TypeInv
    <2>2. CASE row.id # 0
      BY <1>3, <2>2 DEF CreateProcessing, Goto, TypeInv, Places, Acquiring
    <2> QED
      BY <2>1, <2>2
  <1>4. ASSUME NEW o \in Operations, GetExisting(o) PROVE TypeInv'
    BY <1>0, <1>4 DEF GetExisting, Goto, TypeInv, Places, Acquiring
  <1>5. ASSUME NEW o \in Operations, TryReclaim(o) PROVE TypeInv'
    <2>1. row' \in Rows
      <3>1. Reclaimed(row, started[o] + Lease, started[o] + TTL) \in Rows
        BY <1>0, <1>2, <1>5, RowsWritten
      <3> QED
        BY <1>0, <1>5, <3>1 DEF TryReclaim
    <2>2. /\ pc' \in [Operations -> Places] /\ rid' \in [Operations -> Nat]
          /\ renewing' \subseteq Operations
      BY <1>5, HoldType DEF TryReclaim, Goto, TypeInv, Places
    <2>3. UNCHANGED <<clock, nextId, started, seen>>
      BY <1>5 DEF TryReclaim
    <2> QED
      BY <2>1, <2>2, <2>3 DEF TypeInv
  <1>6. ASSUME NEW o \in Operations, Renew(o) PROVE TypeInv'
    <2>0. clock + Lease \in Nat /\ clock + TTL \in Nat
      BY DEF TypeInv, ShortOperations
    <2>1. Extended(row, clock + Lease, clock + TTL) \in Rows
      BY <1>0, <2>0, RowsWritten
    <2> QED
      BY <1>6, <2>1 DEF Renew, TypeInv
  <1>7. ASSUME NEW o \in Operations, Release(o) PROVE TypeInv'
    <2>1. clock \in Nat /\ clock + TTL \in Nat /\ rid[o] \in Nat
      BY DEF TypeInv, ShortOperations
    <2>2. row' \in Rows
      BY <1>0, <1>7, <2>1, RowsWritten DEF Release
    <2> QED
      BY <1>7, <2>2 DEF Release, Goto, TypeInv, Places
  <1>8. ASSUME NEW o \in Operations, RenewFails(o) \/ Crash(o) PROVE TypeInv'
    BY <1>8 DEF RenewFails, Crash, Goto, TypeInv, Places
  <1>9. CASE DeleteExpired
    <2>1. AbsentRow \in Rows
      BY DEF Rows, RowType, AbsentRow, NullTime
    <2> QED
      BY <1>9, <2>1 DEF DeleteExpired, TypeInv
  <1>10. CASE Tick \/ UNCHANGED vars
    BY <1>10 DEF Tick, vars, TypeInv
  <1> QED
    BY <1>1, <1>3, <1>4, <1>5, <1>6, <1>7, <1>8, <1>9, <1>10 DEF Next

-----------------------------------------------------------------------------
(* The lock. *)

\* Acquire takes no time, so its "now" is the time; only running operations renew.
StartInv ==
  /\ \A o \in Operations : started[o] <= clock /\ (pc[o] \in Acquiring => started[o] = clock)
  /\ \A o \in Operations : pc[o] = "reclaim" => seen[o].id # 0
  /\ renewing \subseteq Running

\* The row of a running operation is locked for as long as the operation may run.
HoldInv ==
  \A o \in Running :
    /\ row.id = rid[o] /\ rid[o] # 0 /\ row.status = "processing"
    /\ row.lockedUntil >= started[o] + Lease /\ row.expiresAt >= started[o] + TTL
    /\ clock <= started[o] + MaxOp

LockInv == OneSystemOperation /\ StartInv /\ HoldInv

\* Every step keeps the lock's invariant: nobody reclaims a row whose lock is
\* ahead, and the lock of a running operation always is.
LEMMA LockStep ==
  ASSUME ShortOperations, TypeInv, LockInv, [Next]_vars PROVE LockInv'
  <1>0. /\ OneSystemOperation /\ StartInv /\ HoldInv /\ clock \in Nat /\ row \in Rows
        /\ row.lockedUntil \in Nat /\ row.expiresAt \in Nat /\ Running \subseteq Operations
        /\ \A o \in Operations : started[o] \in Nat /\ started[o] + Lease \in Nat
                                 /\ started[o] + TTL \in Nat
    BY DEF LockInv, TypeInv, Rows, RowType, Running, ShortOperations
  <1>a. ASSUME NEW o \in Running PROVE clock < row.lockedUntil /\ clock < row.expiresAt
    <2>1. /\ row.lockedUntil >= started[o] + Lease /\ row.expiresAt >= started[o] + TTL
          /\ clock <= started[o] + MaxOp /\ started[o] \in Nat
      BY <1>0, <1>a DEF HoldInv
    <2> QED
      BY <1>0, <2>1 DEF ShortOperations
  <1>b. ASSUME NEW o \in Operations, NEW l, Goto(o, l)
        PROVE  pc'[o] = l /\ \A p \in Operations \ {o} : pc'[p] = pc[p]
    BY <1>b DEF Goto, TypeInv
  <1>1. ASSUME NEW o \in Operations, NEW l \in {"create", "get", "reclaim", "done"}, Goto(o, l),
               l = "done" \/ (pc[o] \notin {"run"} /\ started'[o] = clock),
               l = "reclaim" => seen'[o].id # 0,
               started'[o] \in {started[o], clock}, renewing' = renewing \ {o},
               \A p \in Operations \ {o} : started'[p] = started[p] /\ seen'[p] = seen[p],
               UNCHANGED <<row, clock, rid>>
        PROVE  LockInv'
    <2>1. pc'[o] = l /\ \A p \in Operations \ {o} : pc'[p] = pc[p]
      BY <1>1, <1>b
    <2>2. Running' = Running \ {o}
      BY <2>1 DEF Running
    <2>3. OneSystemOperation' /\ HoldInv'
      BY <1>0, <1>1, <2>2 DEF OneSystemOperation, HoldInv
    <2>4. StartInv'
      BY <1>0, <1>1, <2>1, <2>2 DEF StartInv, Acquiring
    <2> QED
      BY <2>3, <2>4 DEF LockInv
  <1>2. ASSUME NEW o \in Operations, pc[o] \in Acquiring, NEW i \in Nat, i # 0, Hold(o, i), Running = {},
               row'.id = i, row'.status = "processing", row'.lockedUntil = started[o] + Lease,
               row'.expiresAt = started[o] + TTL, UNCHANGED <<clock, started, seen>>
        PROVE  LockInv'
    <2>1. pc'[o] = "run" /\ \A p \in Operations \ {o} : pc'[p] = pc[p]
      BY <1>2, <1>b DEF Hold
    <2>2. Running' = {o} /\ rid'[o] = i
      BY <1>0, <1>2, <2>1 DEF Running, Hold, TypeInv
    <2>3. started[o] = clock /\ clock <= started[o] + MaxOp
      BY <1>0, <1>2 DEF StartInv, ShortOperations
    <2>4. OneSystemOperation' /\ HoldInv'
      BY <1>0, <1>2, <2>2, <2>3 DEF OneSystemOperation, HoldInv
    <2>5. StartInv'
      BY <1>0, <1>2, <2>1, <2>2 DEF StartInv, Acquiring, Hold
    <2> QED
      BY <2>4, <2>5 DEF LockInv
  <1>3. ASSUME NEW o \in Operations, Begin(o) PROVE LockInv'
    <2>1. started'[o] = clock /\ \A p \in Operations \ {o} : started'[p] = started[p]
      BY <1>3 DEF Begin, TypeInv
    <2>2. o \notin renewing
      BY <1>0, <1>3 DEF Begin, StartInv, Running
    <2> QED
      BY <1>1, <1>3, <2>1, <2>2 DEF Begin
  <1>4. ASSUME NEW o \in Operations, CreateProcessing(o) PROVE LockInv'
    <2>0. started[o] = clock /\ o \notin renewing
      BY <1>0, <1>4 DEF CreateProcessing, StartInv, Acquiring, Running
    <2>1. CASE row.id # 0
      BY <1>1, <1>4, <2>0, <2>1 DEF CreateProcessing
    <2>2. CASE row.id = 0
      <3>1. Running = {}
        BY <1>0, <2>2 DEF HoldInv
      <3>2. PICK l \in Nat, e \in Nat : l = started[o] + Lease /\ e = started[o] + TTL
        BY <1>0
      <3>3. row' = NewRow(nextId, o, l, e) /\ nextId \in Nat /\ nextId # 0
        BY <1>4, <2>2, <3>2 DEF CreateProcessing, TypeInv
      <3>4. /\ row'.id = nextId /\ row'.status = "processing"
            /\ row'.lockedUntil = l /\ row'.expiresAt = e
        BY <3>3 DEF NewRow
      <3> QED
        BY <1>2, <1>4, <2>2, <3>1, <3>2, <3>3, <3>4 DEF CreateProcessing, Acquiring
    <2> QED
      BY <2>1, <2>2
  <1>5. ASSUME NEW o \in Operations, GetExisting(o) PROVE LockInv'
    <2>0. started[o] = clock /\ o \notin renewing
      BY <1>0, <1>5 DEF GetExisting, StartInv, Acquiring, Running
    <2>1. CASE Goto(o, "done") /\ UNCHANGED seen
      BY <1>1, <1>5, <2>0, <2>1 DEF GetExisting
    <2>2. CASE /\ row.id # 0 /\ Goto(o, "reclaim")
               /\ seen' = [seen EXCEPT ![o] = [id |-> row.id, status |-> row.status]]
      <3>1. seen'[o].id # 0 /\ \A p \in Operations \ {o} : seen'[p] = seen[p]
        BY <2>2 DEF TypeInv
      <3> QED
        BY <1>1, <1>5, <2>0, <2>2, <3>1 DEF GetExisting
    <2> QED
      BY <1>5, <2>1, <2>2 DEF GetExisting
  <1>6. ASSUME NEW o \in Operations, TryReclaim(o) PROVE LockInv'
    <2>0. started[o] = clock /\ o \notin renewing /\ seen[o].id # 0 /\ seen[o].id \in Nat
      BY <1>0, <1>6 DEF TryReclaim, StartInv, Acquiring, Running, TypeInv
    <2>1. CASE ~Reclaimable(row, seen[o].id, seen[o].status, started[o])
      BY <1>1, <1>6, <2>0, <2>1 DEF TryReclaim
    <2>2. CASE Reclaimable(row, seen[o].id, seen[o].status, started[o])
      <3>1. Running = {}
        BY <1>0, <1>a, <2>0, <2>2 DEF Reclaimable
      <3>2. PICK l \in Nat, e \in Nat : l = started[o] + Lease /\ e = started[o] + TTL
        BY <1>0
      <3>3. row' = Reclaimed(row, l, e) /\ row.id = seen[o].id
        BY <1>6, <2>2, <3>2 DEF TryReclaim, Reclaimable
      <3>4. /\ row'.id = seen[o].id /\ row'.status = "processing"
            /\ row'.lockedUntil = l /\ row'.expiresAt = e
        BY <1>0, <3>3 DEF Reclaimed, Rows, RowType
      <3> QED
        BY <1>2, <1>6, <2>0, <2>2, <3>1, <3>2, <3>4 DEF TryReclaim, Acquiring
    <2> QED
      BY <2>1, <2>2
  <1>7. ASSUME NEW o \in Operations, Renew(o) PROVE LockInv'
    <2>0. UNCHANGED <<clock, pc, started, seen, rid>> /\ renewing' \subseteq renewing
      BY <1>7 DEF Renew
    <2>1. Running' = Running
      BY <2>0 DEF Running
    <2>2. CASE UNCHANGED row
      BY <1>0, <2>0, <2>1, <2>2 DEF LockInv, OneSystemOperation, StartInv, HoldInv
    <2>3. CASE row' = Extended(row, clock + Lease, clock + TTL)
      <3>1. PICK l \in Nat, e \in Nat : l = clock + Lease /\ e = clock + TTL
        BY <1>0 DEF ShortOperations
      <3>2. row' = Extended(row, l, e)
        BY <2>3, <3>1
      <3>3. row'.id = row.id /\ row'.status = row.status /\ row'.lockedUntil = l /\ row'.expiresAt = e
        BY <1>0, <3>2 DEF Extended, Rows, RowType
      <3>4. \A p \in Operations : l >= started[p] + Lease /\ e >= started[p] + TTL
        BY <1>0, <3>1 DEF StartInv, ShortOperations
      <3>5. HoldInv'
        BY <1>0, <2>0, <2>1, <3>3, <3>4 DEF HoldInv
      <3> QED
        BY <1>0, <2>0, <2>1, <3>5 DEF LockInv, OneSystemOperation, StartInv
    <2> QED
      BY <1>7, <2>2, <2>3 DEF Renew
  <1>8. ASSUME NEW o \in Operations, RenewFails(o) PROVE LockInv'
    BY <1>8 DEF RenewFails, LockInv, OneSystemOperation, StartInv, HoldInv, Running
  <1>9. ASSUME NEW o \in Operations, Crash(o) PROVE LockInv'
    BY <1>1, <1>9 DEF Crash
  <1>10. ASSUME NEW o \in Operations, Release(o) PROVE LockInv'
    <2>1. pc'[o] = "done" /\ \A p \in Operations \ {o} : pc'[p] = pc[p]
      BY <1>10, <1>b DEF Release
    <2>2. Running' = {}
      BY <1>0, <1>10, <2>1 DEF Release, Running, OneSystemOperation
    <2>3. UNCHANGED <<clock, started, seen>> /\ renewing' = {}
      BY <1>0, <1>10 DEF Release, StartInv, OneSystemOperation, Running
    <2> QED
      BY <1>0, <2>1, <2>2, <2>3 DEF LockInv, OneSystemOperation, StartInv, HoldInv, Acquiring
  <1>11. CASE DeleteExpired
    <2>1. Running = {}
      BY <1>0, <1>11, <1>a DEF DeleteExpired, Expired
    <2>2. UNCHANGED <<clock, pc, started, seen, renewing>>
      BY <1>11 DEF DeleteExpired
    <2> QED
      BY <1>0, <2>1, <2>2 DEF LockInv, OneSystemOperation, StartInv, HoldInv, Running
  <1>12. CASE Tick
    <2>1. /\ clock' = clock + 1 /\ UNCHANGED <<row, pc, started, seen, rid, renewing>>
          /\ \A o \in Operations : pc[o] \notin Acquiring
          /\ \A o \in Running : clock < started[o] + MaxOp
      BY <1>12 DEF Tick
    <2>2. Running' = Running
      BY <2>1 DEF Running
    <2>3. StartInv'
      BY <1>0, <2>1, <2>2 DEF StartInv
    <2>4. HoldInv'
      <3>1. \A o \in Running : clock + 1 <= started[o] + MaxOp
        BY <1>0, <2>1 DEF ShortOperations
      <3> QED
        BY <1>0, <2>1, <2>2, <3>1 DEF HoldInv
    <2> QED
      BY <1>0, <2>2, <2>3, <2>4 DEF LockInv, OneSystemOperation
  <1>13. CASE UNCHANGED vars
    BY <1>13 DEF vars, LockInv, OneSystemOperation, StartInv, HoldInv, Running
  <1> QED
    BY <1>3, <1>4, <1>5, <1>6, <1>7, <1>8, <1>9, <1>10, <1>11, <1>12, <1>13 DEF Next

\* Operations that end within the lease run one at a time, through crashes,
\* failed renewals and deleted rows: what the lock promises fails only for an
\* operation that outlives the lease it was given.
THEOREM ShortOperationsSafe == ASSUME ShortOperations PROVE Spec => []OneSystemOperation
  <1>1. Init => TypeInv /\ LockInv
    <2> SUFFICES ASSUME Init PROVE TypeInv /\ LockInv
      OBVIOUS
    <2>1. AbsentRow \in Rows
      BY DEF Rows, RowType, AbsentRow, NullTime
    <2>2. TypeInv
      BY <2>1 DEF Init, TypeInv, Places
    <2>3. LockInv
      BY DEF Init, LockInv, OneSystemOperation, StartInv, HoldInv, Running, Acquiring
    <2> QED
      BY <2>2, <2>3
  <1>2. TypeInv /\ LockInv /\ [Next]_vars => (TypeInv /\ LockInv)'
    BY TypeStep, LockStep
  <1>3. LockInv => OneSystemOperation
    BY DEF LockInv
  <1> QED
    BY <1>1, <1>2, <1>3, PTL DEF Spec
=============================================================================
