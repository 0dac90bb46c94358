-------------------------- MODULE IdempotencyProofs --------------------------
(***************************************************************************)
(* Proofs about Idempotency, for every set of requests and payloads and    *)
(* for all durations that satisfy TimeAssumption: a claim takes less than  *)
(* ProcessingTimeout and an execution less than TTL.                       *)
(***************************************************************************)
EXTENDS Idempotency, TLAPS

-----------------------------------------------------------------------------
(* The statements on the row. *)

Rows == RowType(Fingerprints, Requests)

\* An inserted row is a row.
LEMMA NewRowFields ==
  ASSUME NEW id \in Nat, NEW f \in Fingerprints, NEW l \in Nat, NEW e \in Nat
  PROVE  /\ NewRow(id, f, l, e) \in Rows
         /\ NewRow(id, f, l, e).id = id /\ NewRow(id, f, l, e).fingerprint = f
         /\ NewRow(id, f, l, e).status = "processing"
         /\ NewRow(id, f, l, e).lockedUntil = l /\ NewRow(id, f, l, e).expiresAt = e
  BY DEF Rows, RowType, NewRow, Statuses

\* A reclaim sets status, lock and expiry.
LEMMA ReclaimedFields ==
  ASSUME NEW x \in Rows, NEW l \in Nat, NEW e \in Nat
  PROVE  LET y == Reclaimed(x, l, e) IN
         /\ y \in Rows /\ y.id = x.id /\ y.fingerprint = x.fingerprint
         /\ y.status = "processing" /\ y.lockedUntil = l /\ y.expiresAt = e
  BY DEF Rows, RowType, Reclaimed, Statuses

\* Storing a result sets status and response of the row with the id.
LEMMA SucceededFields ==
  ASSUME NEW x \in Rows, NEW b \in Requests, NEW e \in Nat
  PROVE  LET y == MarkedSucceeded(x, x.id, b, e) IN
         /\ y \in Rows /\ y.id = x.id /\ y.fingerprint = x.fingerprint
         /\ y.status = "succeeded" /\ y.body = b
  BY DEF Rows, RowType, MarkedSucceeded, Statuses, NullTime

\* Storing a failure sets status and lock of the row with the id.
LEMMA FailedFields ==
  ASSUME NEW x \in Rows, NEW l \in Nat, NEW e \in Nat
  PROVE  LET y == MarkedFailedRetryable(x, x.id, l, e) IN
         /\ y \in Rows /\ y.id = x.id /\ y.fingerprint = x.fingerprint
         /\ y.status = "failed_retryable"
  BY DEF Rows, RowType, MarkedFailedRetryable, Statuses

\* Whatever the id, storing an outcome leaves a row.
LEMMA MarkedType ==
  ASSUME NEW x \in Rows, NEW id, NEW b \in Requests, NEW l \in Nat, NEW e \in Nat
  PROVE  MarkedSucceeded(x, id, b, e) \in Rows /\ MarkedFailedRetryable(x, id, l, e) \in Rows
  BY DEF Rows, RowType, MarkedSucceeded, MarkedFailedRetryable, Statuses, NullTime

\* The absent row is a row.
LEMMA AbsentType == AbsentRow \in Rows
  BY DEF Rows, RowType, AbsentRow, NullTime

-----------------------------------------------------------------------------
(* Types. *)

\* The key starts without a row.
LEMMA TypeInit == Init => TypeOK
  BY AbsentType DEF Init, TypeOK, Rows, Outcomes

\* Ending a request keeps its outcome and place typed.
LEMMA EndType ==
  ASSUME TypeOK, NEW r \in Requests, NEW o \in Outcomes, End(r, o)
  PROVE  /\ pc' \in [Requests -> Claiming \cup Owning \cup {"idle", "done"}]
         /\ out' \in [Requests -> Outcomes]
  BY DEF TypeOK, End, Goto

\* Going on to another place.
LEMMA GotoType ==
  ASSUME TypeOK, NEW r \in Requests, NEW p \in Claiming \cup Owning, Goto(r, p)
  PROVE  pc' \in [Requests -> Claiming \cup Owning \cup {"idle", "done"}]
  BY DEF TypeOK, Goto

\* The switch over the status keeps the types of what it sets.
LEMMA DecideType ==
  ASSUME TypeOK, NEW r \in Requests, Decide(r)
  PROVE  /\ pc' \in [Requests -> Claiming \cup Owning \cup {"idle", "done"}]
         /\ out' \in [Requests -> Outcomes]
         /\ reply' \in [Requests -> Requests \cup {NoValue}]
         /\ seen' \in [Requests -> [id : Nat, status : Statuses \cup {"absent"}]]
  <1>0. row.id \in Nat /\ row.status \in Statuses \cup {"absent"} /\ row.body \in Requests \cup {NoValue}
    BY DEF TypeOK, RowType
  <1>1. CASE row.status = "succeeded"
    BY <1>0, <1>1, EndType DEF Decide, TypeOK, Outcomes
  <1>2. CASE row.status # "succeeded" /\ Busy(r)
    BY <1>2, EndType DEF Decide, TypeOK, Outcomes
  <1>3. CASE row.status # "succeeded" /\ ~Busy(r)
    BY <1>0, <1>3, GotoType DEF Decide, TypeOK, Claiming
  <1> QED
    BY <1>1, <1>2, <1>3

\* Every step keeps the types.
LEMMA TypeStep == TypeOK /\ [Next]_vars => TypeOK'
  <1> SUFFICES ASSUME TypeOK, [Next]_vars PROVE TypeOK'
    OBVIOUS
  <1>0. row \in Rows /\ clock \in Nat /\ nextId \in Nat
    BY DEF TypeOK, Rows
  <1>1. ASSUME NEW r \in Requests, Begin(r) PROVE TypeOK'
    <2>1. row.expiresAt \in Nat
      BY <1>0 DEF Rows, RowType
    <2> QED
      BY <1>0, <1>1, <2>1, GotoType DEF Begin, TypeOK, Claiming
  <1>2. ASSUME NEW r \in Requests, Step(r) PROVE TypeOK'
    <2>0. LockedUntil(r) \in Nat /\ ExpiresAt(r) \in Nat /\ FingerprintOf[r] \in Fingerprints
      BY TimeAssumption DEF TypeOK, LockedUntil, ExpiresAt, Fingerprints
    <2>1. CASE CreateProcessing(r)
      <3>0. NewRow(nextId, FingerprintOf[r], LockedUntil(r), ExpiresAt(r)) \in Rows
        BY <1>0, <2>0, NewRowFields
      <3>1. row' \in Rows /\ nextId' \in Nat \ {0}
        BY <1>0, <2>1, <3>0 DEF CreateProcessing, TypeOK
      <3>2. /\ pc' \in [Requests -> Claiming \cup Owning \cup {"idle", "done"}]
            /\ rid' \in [Requests -> Nat]
        BY <1>0, <2>1, GotoType DEF CreateProcessing, Own, TypeOK, Claiming, Owning
      <3> QED
        BY <2>1, <3>1, <3>2 DEF CreateProcessing, TypeOK, Rows
    <2>2. CASE GetExisting(r)
      <3>1. CASE Refuse(r)
        BY <2>2, <3>1, EndType DEF GetExisting, Refuse, TypeOK, Outcomes
      <3>2. CASE Decide(r)
        BY <2>2, <3>2, DecideType DEF GetExisting, TypeOK
      <3>3. CASE /\ Goto(r, "reclaimExpired") /\ UNCHANGED <<reply, out>>
                 /\ seen' = [seen EXCEPT ![r] = [id |-> row.id, status |-> row.status]]
        <4>1. row.id \in Nat /\ row.status \in Statuses \cup {"absent"}
          BY <1>0 DEF Rows, RowType
        <4>2. seen' \in [Requests -> [id : Nat, status : Statuses \cup {"absent"}]]
          BY <3>3, <4>1 DEF TypeOK
        <4> QED
          BY <2>2, <3>3, <4>2, GotoType DEF GetExisting, TypeOK, Claiming
      <3> QED
        BY <2>2, <3>1, <3>2, <3>3 DEF GetExisting
    <2>3. CASE GetLatest(r)
      BY <2>3, EndType, DecideType DEF GetLatest, Refuse, TypeOK, Outcomes
    <2>4. CASE TryReclaim(r)
      <3>0. Reclaimed(row, LockedUntil(r), ExpiresAt(r)) \in Rows
        BY <1>0, <2>0, ReclaimedFields
      <3>1. row' \in Rows
        BY <1>0, <2>4, <3>0 DEF TryReclaim
      <3>2. /\ pc' \in [Requests -> Claiming \cup Owning \cup {"idle", "done"}]
            /\ rid' \in [Requests -> Nat] /\ out' \in [Requests -> Outcomes]
        BY <2>4, GotoType, EndType DEF TryReclaim, Own, TypeOK, Claiming, Owning, Outcomes
      <3> QED
        BY <2>4, <3>1, <3>2 DEF TryReclaim, TypeOK, Rows
    <2>5. CASE ExecuteReturns(r)
      BY <2>5, GotoType DEF ExecuteReturns, TypeOK, Owning
    <2>6. CASE MarkSucceeded(r)
      <3>1. row' \in Rows
        BY <1>0, <2>0, <2>6, MarkedType DEF MarkSucceeded
      <3> QED
        BY <2>6, <3>1, EndType DEF MarkSucceeded, TypeOK, Outcomes, Rows
    <2>7. CASE MarkFailedRetryable(r)
      <3>1. clock + FailedRetryBackoff \in Nat
        BY <1>0, TimeAssumption
      <3>2. row' \in Rows
        BY <1>0, <2>0, <2>7, <3>1, MarkedType DEF MarkFailedRetryable
      <3> QED
        BY <2>7, <3>2, EndType DEF MarkFailedRetryable, TypeOK, Outcomes, Rows
    <2> QED
      BY <1>2, <2>1, <2>2, <2>3, <2>4, <2>5, <2>6, <2>7 DEF Step
  <1>3. ASSUME NEW r \in Requests, StoreFails(r) \/ Crash(r) PROVE TypeOK'
    BY <1>3, EndType DEF StoreFails, Crash, TypeOK, Outcomes
  <1>4. CASE DeleteExpired
    BY <1>4, AbsentType DEF DeleteExpired, TypeOK, Rows
  <1>5. CASE Tick
    BY <1>5 DEF Tick, TypeOK
  <1>6. CASE UNCHANGED vars
    BY <1>6 DEF vars, TypeOK
  <1> QED
    BY <1>1, <1>2, <1>3, <1>4, <1>5, <1>6 DEF Next

\* The locals of Execute and the columns of the row keep their types; times and
\* ids are never negative.
THEOREM TypeCorrect == Spec => []TypeOK
  BY TypeInit, TypeStep, PTL DEF Spec

-----------------------------------------------------------------------------
(* The inductive invariant. *)

\* The requests about to reclaim the row they read.
Reclaiming == {"reclaimExpired", "reclaimFailed"}

\* A request's "now" is past, but not by more than its bounds.
TimeInv ==
  \A r \in Active :
    /\ started[r] <= clock /\ clock <= started[r] + MaxLife
    /\ pc[r] \in Claiming => clock <= started[r] + MaxClaim

\* Ids come from the sequence: a row that is inserted has an id nobody has seen.
IdInv ==
  /\ row.id < nextId
  /\ row.id = 0 <=> row.status = "absent"
  /\ \A r \in Requests : seen[r].id < nextId
  /\ \A r \in Owners : rid[r] # 0

\* An owner's row is as OwnerHoldsRow says, locked from the owner's start, and of
\* its payload.
OwnerInv ==
  /\ OneExecution /\ OwnerHoldsRow
  /\ \A r \in Owners : row.lockedUntil = LockedUntil(r) /\ SamePayload(r)

\* What a request read before it tries to reclaim the row: the row's payload is
\* its own, a failed row is not in process, and a row in process which has an
\* owner is locked beyond the request's "now".
ReclaimInv ==
  \A r \in Requests : pc[r] \in Reclaiming =>
    /\ seen[r].id # 0
    /\ seen[r].id = row.id => SamePayload(r)
    /\ pc[r] = "reclaimFailed" => seen[r].status = "failed_retryable"
    /\ \A q \in Owners : seen[r].status = "processing" /\ seen[r].id = rid[q] =>
         started[r] < LockedUntil(q)

\* A stored result is that of a request that has ended after its effect, with
\* the payload of the row.
ResultInv ==
  /\ row.status = "succeeded" =>
       /\ row.body \in ran /\ pc[row.body] = "done"
       /\ FingerprintOf[row.body] = row.fingerprint
  /\ \A r \in Requests : pc[r] = "markOk" => r \in ran

\* Until the result or the dead claim that a lone request found expires, the row
\* stays as it was found and nobody gets past reading it.
FreshInv ==
  \A r \in Requests : pc[r] \in Claiming /\ clock < until[r] =>
    /\ row.expiresAt = until[r] /\ row.status \in {"succeeded", "processing"}
    /\ \A q \in Requests : pc[q] \notin Reclaiming \cup Owning \cup {"getLatest"}

IInv == TimeInv /\ IdInv /\ OwnerInv /\ ReclaimInv /\ ResultInv /\ FreshInv

\* A key without row and requests satisfies the invariant.
LEMMA InvInit == Init => IInv
  BY DEF Init, IInv, TimeInv, IdInv, OwnerInv, ReclaimInv, ResultInv, FreshInv, OneExecution,
     OwnerHoldsRow, Active, Owners, Claiming, Owning, Reclaiming, AbsentRow

\* The fields of the row have their types.
LEMMA RowFields ==
  ASSUME TypeOK
  PROVE  /\ row.id \in Nat /\ row.lockedUntil \in Nat /\ row.expiresAt \in Nat
         /\ row.status \in Statuses \cup {"absent"} /\ row \in Rows
         /\ row.body \in Requests \cup {NoValue}
  BY DEF TypeOK, Rows, RowType

\* A request moves itself only.
LEMMA Frame ==
  ASSUME TypeOK, NEW r \in Requests, NEW p, Goto(r, p)
  PROVE  pc'[r] = p /\ \A q \in Requests \ {r} : pc'[q] = pc[q]
  BY DEF TypeOK, Goto

\* No row is past its expiry while a request runs the operation.
LEMMA OwnerAlive ==
  ASSUME TypeOK, IInv, NEW q \in Owners
  PROVE  clock < row.expiresAt /\ started[q] \in Nat /\ q \in Requests
  BY TimeAssumption
     DEF TypeOK, IInv, TimeInv, OwnerInv, OwnerHoldsRow, ExpiresAt, Owners, Active

\* A request that ends without touching the row leaves the invariant as it is.
LEMMA EndQuiet ==
  ASSUME TypeOK, IInv, NEW r \in Requests, Goto(r, "done"), pc[r] \in Claiming \cup Owning,
         UNCHANGED <<clock, row, nextId, started, seen, rid, until>>, ran \subseteq ran'
  PROVE  IInv'
  <1>1. pc'[r] = "done" /\ \A q \in Requests \ {r} : pc'[q] = pc[q]
    BY Frame
  <1>2. Active' \subseteq Active /\ Owners' \subseteq Owners
    BY <1>1 DEF Active, Owners, Claiming, Owning
  <1>3. TimeInv'
    BY <1>1, <1>2 DEF IInv, TimeInv, Claiming, Active
  <1>4. IdInv'
    BY <1>2 DEF IInv, IdInv
  <1>5. OwnerInv'
    BY <1>2 DEF IInv, OwnerInv, OneExecution, OwnerHoldsRow, LockedUntil, ExpiresAt, SamePayload
  <1>6. ReclaimInv'
    BY <1>1, <1>2 DEF IInv, ReclaimInv, Reclaiming, SamePayload, LockedUntil
  <1>7. ResultInv'
    <2>1. row.status = "succeeded" => row.body \in Requests
      BY DEF TypeOK, IInv, ResultInv
    <2> QED
      BY <1>1, <2>1 DEF IInv, ResultInv
  <1>8. FreshInv'
    BY <1>1 DEF IInv, FreshInv, Claiming, Owning, Reclaiming
  <1> QED
    BY <1>3, <1>4, <1>5, <1>6, <1>7, <1>8 DEF IInv

\* A request that goes on to a place where it has not read anything to reclaim.
LEMMA GoOn ==
  ASSUME TypeOK, IInv, NEW r \in Requests, NEW p \in {"get", "getLatest"}, Goto(r, p),
         pc[r] \in Claiming, p = "getLatest" => pc[r] = "reclaimExpired",
         UNCHANGED <<clock, row, nextId, started, seen, rid, until, ran>>
  PROVE  IInv'
  <1>1. pc'[r] = p /\ \A q \in Requests \ {r} : pc'[q] = pc[q]
    BY Frame
  <1>2. Active' = Active /\ Owners' = Owners
    BY <1>1 DEF Active, Owners, Claiming, Owning
  <1>3. TimeInv'
    BY <1>1, <1>2 DEF IInv, TimeInv, Claiming, Active
  <1>4. IdInv'
    BY <1>2 DEF IInv, IdInv
  <1>5. OwnerInv'
    BY <1>2 DEF IInv, OwnerInv, OneExecution, OwnerHoldsRow, LockedUntil, ExpiresAt, SamePayload
  <1>6. ReclaimInv'
    BY <1>1, <1>2 DEF IInv, ReclaimInv, Reclaiming, SamePayload, LockedUntil
  <1>7. ResultInv'
    <2>1. row.status = "succeeded" => row.body \in Requests
      BY DEF TypeOK, IInv, ResultInv
    <2> QED
      BY <1>1, <2>1 DEF IInv, ResultInv, Claiming
  <1>8. FreshInv'
    BY <1>1 DEF IInv, FreshInv, Claiming, Owning, Reclaiming
  <1> QED
    BY <1>3, <1>4, <1>5, <1>6, <1>7, <1>8 DEF IInv

\* A request that has read a row it may reclaim: the row has expired, or failed
\* and its backoff is over.
LEMMA GoReclaim ==
  ASSUME TypeOK, IInv, NEW r \in Requests, NEW p \in Reclaiming, Goto(r, p),
         pc[r] \in {"get", "getLatest"}, row.id # 0, SamePayload(r),
         seen' = [seen EXCEPT ![r] = [id |-> row.id, status |-> row.status]],
         \/ p = "reclaimExpired" /\ ExpiredFor(r)
         \/ p = "reclaimFailed" /\ row.status = "failed_retryable",
         pc[r] = "getLatest" => p = "reclaimFailed",
         UNCHANGED <<clock, row, nextId, started, rid, until, ran>>
  PROVE  IInv'
  <1>1. pc'[r] = p /\ \A q \in Requests \ {r} : pc'[q] = pc[q]
    BY Frame
  <1>2. Active' = Active /\ Owners' = Owners
    BY <1>1 DEF Active, Owners, Claiming, Owning, Reclaiming
  <1>0. /\ seen'[r].id = row.id /\ seen'[r].status = row.status
        /\ \A q \in Requests \ {r} : seen'[q] = seen[q]
    BY DEF TypeOK
  <1>3. TimeInv'
    BY <1>1, <1>2 DEF IInv, TimeInv, Claiming, Active
  <1>4. IdInv'
    BY <1>0, <1>2 DEF IInv, IdInv
  <1>5. OwnerInv'
    BY <1>2 DEF IInv, OwnerInv, OneExecution, OwnerHoldsRow, LockedUntil, ExpiresAt, SamePayload
  <1>a. started[r] <= clock /\ started[r] \in Nat /\ clock \in Nat
    BY DEF IInv, TimeInv, Active, Claiming, TypeOK
  <1>6. ReclaimInv'
    <2>1. row.status = "processing" => Owners = {}
      <3>1. ASSUME row.status = "processing", NEW q \in Owners PROVE FALSE
        <4>1. row.expiresAt <= started[r]
          BY <3>1 DEF ExpiredFor
        <4> QED
          BY <1>a, <4>1, OwnerAlive, RowFields
      <3> QED
        BY <3>1
    <2> QED
      BY <1>0, <1>1, <1>2, <2>1 DEF IInv, ReclaimInv, Reclaiming, SamePayload, LockedUntil
  <1>7. ResultInv'
    <2>1. row.status = "succeeded" => row.body \in Requests
      BY DEF TypeOK, IInv, ResultInv
    <2> QED
      BY <1>1, <2>1 DEF IInv, ResultInv, Reclaiming
  <1>8. FreshInv'
    <2>1. ASSUME NEW q \in Requests, pc[q] \in Claiming, clock < until[q] PROVE FALSE
      <3>1. row.expiresAt = until[q] /\ row.status \in {"succeeded", "processing"}
        BY <2>1 DEF IInv, FreshInv
      <3>2. row.expiresAt <= started[r]
        BY <3>1 DEF ExpiredFor
      <3> QED
        BY <1>a, <2>1, <3>1, <3>2, RowFields
    <2> QED
      BY <1>1, <2>1 DEF FreshInv, Claiming, Owning, Reclaiming
  <1> QED
    BY <1>3, <1>4, <1>5, <1>6, <1>7, <1>8 DEF IInv

\* A request that comes to own the row, of its payload and with its times, when
\* nobody else owns it and what it waits for has expired.
LEMMA Claim ==
  ASSUME TypeOK, IInv, NEW r \in Requests, pc[r] \in Claiming, NEW id \in Nat, Own(r, id),
         Owners = {}, \A q \in Requests : pc[q] \in Claiming => clock >= until[q],
         id # 0, row'.id = id, row'.status = "processing",
         row'.lockedUntil = LockedUntil(r), row'.expiresAt = ExpiresAt(r),
         row'.fingerprint = FingerprintOf[r],
         id < nextId', nextId <= nextId', nextId' \in Nat,
         (row'.fingerprint = row.fingerprint /\ id = row.id) \/ id >= nextId,
         UNCHANGED <<clock, started, seen, until, ran>>
  PROVE  IInv'
  <1>1. pc'[r] = "exec" /\ \A q \in Requests \ {r} : pc'[q] = pc[q]
    BY Frame DEF Own
  <1>2. Active' = Active /\ Owners' = {r} /\ rid'[r] = id
    BY <1>1 DEF Active, Owners, Claiming, Owning, Own, TypeOK
  <1>3. TimeInv'
    BY <1>1, <1>2 DEF IInv, TimeInv, Claiming, Active
  <1>4. IdInv'
    <2>1. \A q \in Requests : seen[q].id \in Nat
      BY DEF TypeOK
    <2>2. nextId \in Nat
      BY DEF TypeOK
    <2> QED
      BY <1>2, <2>1, <2>2 DEF IInv, IdInv
  <1>5. OwnerInv'
    BY <1>2 DEF OwnerInv, OneExecution, OwnerHoldsRow, LockedUntil, ExpiresAt, SamePayload
  <1>6. ReclaimInv'
    <2>1. ASSUME NEW q \in Requests, pc[q] \in Reclaiming PROVE started[q] < LockedUntil(r)
      <3>1. /\ started[q] <= clock /\ clock <= started[r] + MaxClaim
            /\ started[q] \in Nat /\ started[r] \in Nat /\ clock \in Nat
        BY <2>1 DEF IInv, TimeInv, Active, Claiming, Reclaiming, TypeOK
      <3> QED
        BY <3>1, TimeAssumption DEF LockedUntil
    <2>2. \A q \in Requests : seen[q].id < nextId /\ seen[q].id \in Nat
      BY DEF IInv, IdInv, TypeOK
    <2>3. \A q \in Requests : seen[q].id = id => id = row.id /\ row'.fingerprint = row.fingerprint
      BY <2>2 DEF TypeOK
    <2>4. \A q \in Requests : pc'[q] \in Reclaiming => pc[q] \in Reclaiming /\ pc'[q] = pc[q]
      BY <1>1 DEF Reclaiming
    <2> QED
      BY <1>2, <2>1, <2>3, <2>4 DEF IInv, ReclaimInv, SamePayload, LockedUntil
  <1>7. ResultInv'
    BY <1>1 DEF IInv, ResultInv
  <1>8. FreshInv'
    <2>1. \A q \in Requests : clock \in Nat /\ until[q] \in Nat
      BY DEF TypeOK
    <2> QED
      BY <1>1, <2>1 DEF FreshInv, Claiming
  <1> QED
    BY <1>3, <1>4, <1>5, <1>6, <1>7, <1>8 DEF IInv

\* An owner that stores its outcome in its row and ends.
LEMMA Store ==
  ASSUME TypeOK, IInv, NEW r \in Owners, Goto(r, "done"),
         row'.id = row.id, row'.fingerprint = row.fingerprint,
         \/ row'.status = "succeeded" /\ row'.body = r /\ r \in ran
         \/ row'.status = "failed_retryable",
         UNCHANGED <<clock, nextId, started, seen, rid, until, ran>>
  PROVE  IInv'
  <1>0. r \in Requests /\ row.status = "processing" /\ row.id # 0 /\ SamePayload(r)
    BY DEF Owners, IInv, OwnerInv, OwnerHoldsRow, IdInv
  <1>1. pc'[r] = "done" /\ \A q \in Requests \ {r} : pc'[q] = pc[q]
    BY <1>0, Frame
  <1>2. Active' \subseteq Active /\ Owners' = {}
    BY <1>0, <1>1 DEF Active, Owners, Claiming, Owning, IInv, OwnerInv, OneExecution
  <1>3. TimeInv'
    BY <1>1, <1>2 DEF IInv, TimeInv, Claiming, Active
  <1>4. IdInv'
    BY <1>0, <1>2 DEF IInv, IdInv
  <1>5. OwnerInv'
    BY <1>2 DEF OwnerInv, OneExecution, OwnerHoldsRow
  <1>6. ReclaimInv'
    BY <1>1, <1>2 DEF IInv, ReclaimInv, Reclaiming, SamePayload
  <1>7. ResultInv'
    BY <1>0, <1>1 DEF IInv, ResultInv, SamePayload
  <1>8. FreshInv'
    <2>1. ASSUME NEW q \in Requests, pc[q] \in Claiming, clock < until[q] PROVE FALSE
      BY <2>1 DEF IInv, FreshInv, Owners
    <2> QED
      BY <1>1, <2>1 DEF FreshInv, Claiming
  <1> QED
    BY <1>3, <1>4, <1>5, <1>6, <1>7, <1>8 DEF IInv

\* The switch over the status ends the request, or lets it reclaim a failure.
LEMMA DecideStep ==
  ASSUME TypeOK, IInv, NEW r \in Requests, pc[r] \in {"get", "getLatest"}, row.id # 0,
         SamePayload(r), Decide(r), UNCHANGED <<clock, row, nextId, started, rid, ran, until>>
  PROVE  IInv'
  <1>1. CASE Goto(r, "done") /\ UNCHANGED seen
    BY <1>1, EndQuiet DEF Claiming
  <1>2. CASE /\ row.status # "succeeded" /\ ~Busy(r) /\ Goto(r, "reclaimFailed")
             /\ seen' = [seen EXCEPT ![r] = [id |-> row.id, status |-> row.status]]
    <2>1. row.status = "failed_retryable"
      BY <1>2, RowFields DEF Busy, Statuses, IInv, IdInv
    <2> QED
      BY <1>2, <2>1, GoReclaim DEF Reclaiming
  <1> QED
    BY <1>1, <1>2 DEF Decide, End

\* Every step of a request, the cleanup and the clock keeps the invariant.
LEMMA InvStep == TypeOK /\ IInv /\ [Next]_vars => IInv'
  <1> SUFFICES ASSUME TypeOK, IInv, [Next]_vars PROVE IInv'
    OBVIOUS
  <1>0. clock \in Nat /\ clock > 0 /\ nextId \in Nat /\ nextId > 0
    BY DEF TypeOK
  <1>1. ASSUME NEW r \in Requests, Begin(r) PROVE IInv'
    <2>1. pc'[r] = "create" /\ \A q \in Requests \ {r} : pc'[q] = pc[q]
      BY <1>1, Frame DEF Begin
    <2>2. Active' = Active \cup {r} /\ Owners' = Owners /\ r \notin Active
      BY <1>1, <2>1 DEF Begin, Active, Owners, Claiming, Owning
    <2>3. started'[r] = clock /\ \A q \in Requests \ {r} : started'[q] = started[q]
      BY <1>1 DEF Begin, TypeOK
    <2>4. TimeInv'
      BY <1>0, <1>1, <2>1, <2>2, <2>3, TimeAssumption DEF Begin, IInv, TimeInv, Claiming, Active
    <2>5. IdInv'
      BY <1>1, <2>2 DEF Begin, IInv, IdInv
    <2>6. OwnerInv'
      <3>1. \A q \in Owners : started'[q] = started[q]
        BY <2>2, <2>3 DEF Owners, Active
      <3> QED
        BY <1>1, <2>2, <3>1
           DEF Begin, IInv, OwnerInv, OneExecution, OwnerHoldsRow, LockedUntil, ExpiresAt, SamePayload
    <2>7. ReclaimInv'
      <3>1. \A q \in Owners : started'[q] = started[q]
        BY <2>2, <2>3 DEF Owners, Active
      <3> QED
        BY <1>1, <2>1, <2>2, <2>3, <3>1
           DEF Begin, IInv, ReclaimInv, Reclaiming, SamePayload, LockedUntil
    <2>8. ResultInv'
      <3>1. row.status = "succeeded" => row.body \in Requests
        BY DEF TypeOK, IInv, ResultInv
      <3> QED
        BY <1>1, <2>1, <3>1 DEF Begin, IInv, ResultInv
    <2>9. FreshInv'
      <3>1. /\ \A q \in Requests \ {r} : until'[q] = until[q]
            /\ \/ until'[r] = 0
               \/ /\ row.status \in {"succeeded", "processing"} /\ Active = {}
                  /\ until'[r] = row.expiresAt
        BY <1>1 DEF Begin, TypeOK
      <3>2. \A q \in Requests : Active = {} => pc[q] \notin Claiming \cup Owning
        BY DEF Active
      <3>3. CASE until'[r] = 0
        BY <1>0, <1>1, <2>1, <3>1, <3>3 DEF Begin, IInv, FreshInv, Claiming, Owning, Reclaiming
      <3>4. CASE /\ row.status \in {"succeeded", "processing"} /\ Active = {}
                 /\ until'[r] = row.expiresAt
        BY <1>1, <2>1, <3>1, <3>2, <3>4 DEF Begin, FreshInv, Claiming, Owning, Reclaiming
      <3> QED
        BY <3>1, <3>3, <3>4
    <2> QED
      BY <2>4, <2>5, <2>6, <2>7, <2>8, <2>9 DEF IInv
  <1>2. ASSUME NEW r \in Requests, Step(r) PROVE IInv'
    <2>0. LockedUntil(r) \in Nat /\ ExpiresAt(r) \in Nat /\ FingerprintOf[r] \in Fingerprints
      BY TimeAssumption DEF TypeOK, LockedUntil, ExpiresAt, Fingerprints
    <2>1. CASE CreateProcessing(r)
      <3>1. CASE row.id # 0
        BY <2>1, <3>1, GoOn DEF CreateProcessing, Claiming
      <3>2. CASE row.id = 0
        <4>1. /\ row' = NewRow(nextId, FingerprintOf[r], LockedUntil(r), ExpiresAt(r))
              /\ nextId' = nextId + 1 /\ Own(r, nextId) /\ pc[r] \in Claiming
              /\ UNCHANGED <<clock, started, seen, until, ran>>
          BY <2>1, <3>2 DEF CreateProcessing, Claiming
        <4>2. /\ row'.id = nextId /\ row'.fingerprint = FingerprintOf[r]
              /\ row'.status = "processing"
              /\ row'.lockedUntil = LockedUntil(r) /\ row'.expiresAt = ExpiresAt(r)
          BY <1>0, <2>0, <4>1, NewRowFields
        <4>3. Owners = {}
          BY <3>2 DEF IInv, IdInv, OwnerInv, OwnerHoldsRow
        <4>4. \A q \in Requests : pc[q] \in Claiming => clock >= until[q]
          <5>1. row.status = "absent"
            BY <3>2 DEF IInv, IdInv
          <5>2. \A q \in Requests : until[q] \in Nat
            BY DEF TypeOK
          <5> QED
            BY <1>0, <5>1, <5>2 DEF IInv, FreshInv
        <4> QED
          BY <1>0, <4>1, <4>2, <4>3, <4>4, Claim
      <3> QED
        BY <3>1, <3>2
    <2>2. CASE GetExisting(r)
      <3>1. CASE Refuse(r)
        BY <2>2, <3>1, EndQuiet DEF GetExisting, Refuse, End, Claiming
      <3>2. CASE row.id # 0 /\ SamePayload(r) /\ Decide(r)
        BY <2>2, <3>2, DecideStep DEF GetExisting
      <3>3. CASE /\ row.id # 0 /\ SamePayload(r) /\ ExpiredFor(r) /\ Goto(r, "reclaimExpired")
                 /\ seen' = [seen EXCEPT ![r] = [id |-> row.id, status |-> row.status]]
        BY <2>2, <3>3, GoReclaim DEF GetExisting, Reclaiming
      <3> QED
        BY <2>2, <3>1, <3>2, <3>3 DEF GetExisting
    <2>3. CASE GetLatest(r)
      <3>1. CASE Refuse(r)
        BY <2>3, <3>1, EndQuiet DEF GetLatest, Refuse, End, Claiming
      <3>2. CASE row.id # 0 /\ SamePayload(r) /\ Decide(r)
        BY <2>3, <3>2, DecideStep DEF GetLatest
      <3> QED
        BY <2>3, <3>1, <3>2 DEF GetLatest
    <2>4. CASE TryReclaim(r)
      <3>1. CASE ~Reclaimable(row, seen[r].id, seen[r].status, started[r])
        <4>1. CASE Goto(r, "getLatest") /\ pc[r] = "reclaimExpired"
          BY <2>4, <3>1, <4>1, GoOn DEF TryReclaim, Claiming
        <4>2. CASE End(r, "conflict")
          BY <2>4, <3>1, <4>2, EndQuiet DEF TryReclaim, End, Claiming
        <4> QED
          BY <2>4, <3>1, <4>1, <4>2 DEF TryReclaim
      <3>2. CASE Reclaimable(row, seen[r].id, seen[r].status, started[r])
        <4>1. /\ row' = Reclaimed(row, LockedUntil(r), ExpiresAt(r)) /\ Own(r, row.id)
              /\ pc[r] \in Claiming /\ pc[r] \in Reclaiming
              /\ UNCHANGED <<clock, nextId, started, seen, until, ran>>
          BY <2>4, <3>2 DEF TryReclaim, Claiming, Reclaiming, Reclaimable
        <4>2. seen[r].id = row.id /\ seen[r].status = row.status /\ row.lockedUntil <= started[r]
          BY <3>2 DEF Reclaimable
        <4>3. /\ row'.id = row.id /\ row'.fingerprint = row.fingerprint
              /\ row'.status = "processing"
              /\ row'.lockedUntil = LockedUntil(r) /\ row'.expiresAt = ExpiresAt(r)
          <5>1. row \in Rows
            BY RowFields
          <5>2. PICK l \in Nat, e \in Nat : l = LockedUntil(r) /\ e = ExpiresAt(r)
            BY <2>0
          <5>3. row' = Reclaimed(row, l, e)
            BY <4>1, <5>2
          <5> QED
            BY <5>1, <5>2, <5>3 DEF Reclaimed, Rows, RowType
        <4>4. row.id # 0 /\ SamePayload(r) /\ row.id < nextId
          BY <4>1, <4>2 DEF IInv, ReclaimInv, IdInv
        <4>5. Owners = {}
          <5>1. ASSUME NEW q \in Owners PROVE FALSE
            <6>1. /\ row.status = "processing" /\ row.id = rid[q]
                  /\ row.lockedUntil = LockedUntil(q)
              BY <5>1 DEF IInv, OwnerInv, OwnerHoldsRow
            <6>2. started[r] < LockedUntil(q)
              BY <4>1, <4>2, <5>1, <6>1 DEF IInv, ReclaimInv
            <6>3. started[r] \in Nat /\ row.lockedUntil \in Nat
              BY RowFields DEF TypeOK
            <6> QED
              BY <4>2, <6>1, <6>2, <6>3
          <5> QED
            BY <5>1
        <4>6. \A q \in Requests : pc[q] \in Claiming => clock >= until[q]
          <5>1. \A q \in Requests : until[q] \in Nat
            BY DEF TypeOK
          <5> QED
            BY <1>0, <4>1, <5>1 DEF IInv, FreshInv
        <4> QED
          BY <1>0, <4>1, <4>3, <4>4, <4>5, <4>6, Claim, RowFields DEF SamePayload
      <3> QED
        BY <3>1, <3>2
    <2>5. CASE ExecuteReturns(r)
      <3>1. PICK p \in {"markOk", "markFail"} :
              /\ pc[r] = "exec" /\ Goto(r, p) /\ (p = "markOk" => r \in ran')
              /\ ran \subseteq ran' /\ UNCHANGED <<clock, row, nextId, started, seen, rid, until>>
        BY <2>5 DEF ExecuteReturns
      <3>2. pc'[r] = p /\ \A q \in Requests \ {r} : pc'[q] = pc[q]
        BY <3>1, Frame
      <3>3. Active' = Active /\ Owners' = Owners
        BY <3>1, <3>2 DEF Active, Owners, Claiming, Owning
      <3>4. TimeInv' /\ IdInv'
        <4>1. TimeInv'
          BY <3>1, <3>2, <3>3 DEF IInv, TimeInv, Active, Claiming
        <4>2. IdInv'
          BY <3>1, <3>3 DEF IInv, IdInv
        <4> QED
          BY <4>1, <4>2
      <3>5. OwnerInv'
        BY <3>1, <3>3
           DEF IInv, OwnerInv, OneExecution, OwnerHoldsRow, LockedUntil, ExpiresAt, SamePayload
      <3>6. ReclaimInv'
        BY <3>1, <3>2, <3>3 DEF IInv, ReclaimInv, Reclaiming, SamePayload, LockedUntil
      <3>7. ResultInv'
        <4>1. row.status = "succeeded" => row.body \in Requests
          BY DEF TypeOK, IInv, ResultInv
        <4> QED
          BY <3>1, <3>2, <4>1 DEF IInv, ResultInv
      <3>8. FreshInv'
        BY <3>1, <3>2 DEF IInv, FreshInv, Claiming, Owning, Reclaiming
      <3> QED
        BY <3>4, <3>5, <3>6, <3>7, <3>8 DEF IInv
    <2>6. CASE MarkSucceeded(r)
      <3>1. r \in Owners /\ row.id = rid[r] /\ r \in ran
        BY <2>6 DEF MarkSucceeded, Owners, Owning, IInv, OwnerInv, OwnerHoldsRow, ResultInv
      <3>2. row' = MarkedSucceeded(row, row.id, r, ExpiresAt(r))
        BY <2>6, <3>1 DEF MarkSucceeded
      <3>3. /\ row'.id = row.id /\ row'.fingerprint = row.fingerprint
            /\ row'.status = "succeeded" /\ row'.body = r
        <4>1. row \in Rows
          BY RowFields
        <4> DEFINE x == MarkedSucceeded(row, row.id, r, ExpiresAt(r))
        <4>2. /\ x.id = row.id /\ x.fingerprint = row.fingerprint
              /\ x.status = "succeeded" /\ x.body = r
          BY <2>0, <4>1, SucceededFields
        <4> QED
          BY <3>2, <4>2
      <3> QED
        BY <2>6, <3>1, <3>3, Store DEF MarkSucceeded, End
    <2>7. CASE MarkFailedRetryable(r)
      <3>1. r \in Owners /\ row.id = rid[r]
        BY <2>7 DEF MarkFailedRetryable, Owners, Owning, IInv, OwnerInv, OwnerHoldsRow
      <3>2. /\ row' = MarkedFailedRetryable(row, row.id, clock + FailedRetryBackoff, ExpiresAt(r))
            /\ clock + FailedRetryBackoff \in Nat
        BY <1>0, <2>7, <3>1, TimeAssumption DEF MarkFailedRetryable
      <3>3. /\ row'.id = row.id /\ row'.fingerprint = row.fingerprint
            /\ row'.status = "failed_retryable"
        BY <2>0, <3>2, FailedFields, RowFields
      <3> QED
        BY <2>7, <3>1, <3>3, Store DEF MarkFailedRetryable, End
    <2> QED
      BY <1>2, <2>1, <2>2, <2>3, <2>4, <2>5, <2>6, <2>7 DEF Step
  <1>3. ASSUME NEW r \in Requests, StoreFails(r) \/ Crash(r) PROVE IInv'
    BY <1>3, EndQuiet DEF StoreFails, Crash, End
  <1>4. CASE DeleteExpired
    <2>1. row.id # 0 /\ row.expiresAt <= clock /\ row' = AbsentRow
          /\ UNCHANGED <<clock, nextId, pc, started, seen, rid, ran, until>>
      BY <1>4 DEF DeleteExpired, Expired
    <2>2. Owners = {} /\ Owners' = {} /\ Active' = Active
      <3>1. Owners = {}
        BY <1>0, <2>1, OwnerAlive, RowFields
      <3> QED
        BY <2>1, <3>1 DEF Owners, Active
    <2>3. row'.id = 0 /\ row'.status = "absent"
      BY <2>1 DEF AbsentRow
    <2>4. TimeInv' /\ IdInv' /\ OwnerInv'
      BY <1>0, <2>1, <2>2, <2>3
         DEF IInv, TimeInv, IdInv, OwnerInv, OneExecution, OwnerHoldsRow
    <2>5. ReclaimInv' /\ ResultInv'
      BY <2>1, <2>2, <2>3 DEF IInv, ReclaimInv, ResultInv
    <2>6. FreshInv'
      BY <1>0, <2>1, RowFields DEF IInv, FreshInv
    <2> QED
      BY <2>4, <2>5, <2>6 DEF IInv
  <1>5. CASE Tick
    <2>1. clock' = clock + 1 /\ UNCHANGED <<row, nextId, pc, started, seen, rid, ran, until>>
      BY <1>5 DEF Tick
    <2>2. Owners' = Owners /\ Active' = Active
      BY <2>1 DEF Owners, Active
    <2>3. TimeInv'
      <3>1. \A r \in Active : /\ started[r] \in Nat /\ clock < started[r] + MaxLife
                              /\ pc[r] \in Claiming => clock < started[r] + MaxClaim
        BY <1>5 DEF Tick, TypeOK, Active
      <3> QED
        BY <1>0, <2>1, <2>2, <3>1, TimeAssumption DEF IInv, TimeInv
    <2>4. IdInv' /\ ResultInv'
      BY <2>1, <2>2 DEF IInv, IdInv, ResultInv
    <2>5. OwnerInv' /\ ReclaimInv'
      BY <2>1, <2>2 DEF IInv, OwnerInv, ReclaimInv, OneExecution, OwnerHoldsRow, LockedUntil,
         ExpiresAt, SamePayload
    <2>6. FreshInv'
      <3>1. \A r \in Requests : until[r] \in Nat /\ (clock + 1 < until[r] => clock < until[r])
        BY <1>0 DEF TypeOK
      <3> QED
        BY <2>1, <3>1 DEF IInv, FreshInv
    <2> QED
      BY <2>3, <2>4, <2>5, <2>6 DEF IInv
  <1>6. CASE UNCHANGED vars
    BY <1>6 DEF vars, IInv, TimeInv, IdInv, OwnerInv, ReclaimInv, ResultInv, FreshInv,
       OneExecution, OwnerHoldsRow, Active, Owners, LockedUntil, ExpiresAt, SamePayload
  <1> QED
    BY <1>1, <1>2, <1>3, <1>4, <1>5, <1>6 DEF Next

\* The invariant holds in every reachable state.
LEMMA Invariance == Spec => [](TypeOK /\ IInv)
  BY InvInit, InvStep, TypeCorrect, PTL DEF Spec

\* The operation of a key is never run by two requests at once, although no
\* statement that stores an outcome checks who owns the row.
THEOREM ExecutionSafe == Spec => []OneExecution
  BY Invariance, PTL DEF IInv, OwnerInv

\* The row of a running request is neither deleted, reclaimed nor altered.
THEOREM OwnerSafe == Spec => []OwnerHoldsRow
  BY Invariance, PTL DEF IInv, OwnerInv

-----------------------------------------------------------------------------
(* Replies and reruns. *)

\* A reply is set from a stored result only, and effects are not undone.
LEMMA ReplayStep ==
  ASSUME TypeOK, IInv, ReplayIsGenuine, [Next]_vars PROVE ReplayIsGenuine'
  <1>1. CASE UNCHANGED reply /\ ran \subseteq ran'
    BY <1>1 DEF ReplayIsGenuine
  <1>2. ASSUME NEW r \in Requests, GetExisting(r) \/ GetLatest(r) PROVE ReplayIsGenuine'
    <2>1. CASE UNCHANGED reply
      BY <1>1, <1>2, <2>1 DEF GetExisting, GetLatest
    <2>2. CASE /\ row.status = "succeeded" /\ SamePayload(r)
               /\ reply' = [reply EXCEPT ![r] =
                              IF row.body \in LongResponses THEN NoValue ELSE row.body]
      <3>1. UNCHANGED ran /\ pc[r] # "done"
        BY <1>2 DEF GetExisting, GetLatest
      <3>2. row.body \in ran /\ FingerprintOf[row.body] = FingerprintOf[r] /\ row.body # r
        BY <2>2, <3>1 DEF IInv, ResultInv, SamePayload
      <3>3. reply'[r] \in {NoValue, row.body} /\ \A q \in Requests \ {r} : reply'[q] = reply[q]
        BY <2>2 DEF TypeOK
      <3> QED
        BY <3>1, <3>2, <3>3 DEF ReplayIsGenuine
    <2> QED
      BY <1>2, <2>1, <2>2 DEF GetExisting, GetLatest, Refuse, Decide
  <1> QED
    BY <1>1, <1>2
       DEF Next, Step, Begin, CreateProcessing, TryReclaim, ExecuteReturns, MarkSucceeded,
           MarkFailedRetryable, StoreFails, Crash, DeleteExpired, Tick, vars

\* A replayed response is that of another request with the same payload which
\* had its effect: the row is never rewritten for another payload.
THEOREM ReplaySafe == Spec => []ReplayIsGenuine
  <1>1. Init => ReplayIsGenuine
    BY DEF Init, ReplayIsGenuine
  <1>2. TypeOK /\ IInv /\ ReplayIsGenuine /\ [Next]_vars => ReplayIsGenuine'
    BY ReplayStep
  <1> QED
    BY <1>1, <1>2, Invariance, PTL DEF Spec

\* A request becomes an owner only after what it found has expired: FreshInv
\* says that until then the row is there and nobody tries to reclaim it.
LEMMA NoRerunStep ==
  ASSUME TypeOK, IInv, NoRerunBeforeExpiry, [Next]_vars PROVE NoRerunBeforeExpiry'
  <1>0. clock \in Nat /\ clock' \in Nat /\ clock <= clock'
    <2>1. clock \in Nat
      BY DEF TypeOK
    <2>2. clock' = clock \/ clock' = clock + 1
      BY DEF Next, Step, Begin, CreateProcessing, GetExisting, GetLatest, TryReclaim,
         ExecuteReturns, MarkSucceeded, MarkFailedRetryable, StoreFails, Crash, DeleteExpired,
         Tick, vars
    <2> QED
      BY <2>1, <2>2
  <1>t. \A r \in Requests : until[r] \in Nat
    BY DEF TypeOK
  <1>1. CASE Owners' \subseteq Owners /\ \A r \in Owners : until'[r] = until[r]
    <2>1. \A r \in Owners : r \in Requests /\ clock >= until[r]
      BY DEF Owners, NoRerunBeforeExpiry
    <2> QED
      BY <1>0, <1>1, <1>t, <2>1 DEF NoRerunBeforeExpiry
  <1>2. ASSUME NEW r \in Requests, NEW p, Goto(r, p), p \notin Owning \/ pc[r] \in Owning,
               UNCHANGED until
        PROVE  NoRerunBeforeExpiry'
    <2>1. pc'[r] = p /\ \A q \in Requests \ {r} : pc'[q] = pc[q]
      BY <1>2, Frame
    <2> QED
      BY <1>1, <1>2, <2>1 DEF Owners
  <1>3. ASSUME NEW r \in Requests, Goto(r, "exec"), clock >= until[r], UNCHANGED <<clock, until>>
        PROVE  NoRerunBeforeExpiry'
    <2>1. pc'[r] = "exec" /\ \A q \in Requests \ {r} : pc'[q] = pc[q]
      BY <1>3, Frame
    <2> QED
      BY <1>3, <2>1 DEF Owners, NoRerunBeforeExpiry
  <1>4. ASSUME NEW r \in Requests, Begin(r) PROVE NoRerunBeforeExpiry'
    <2>1. pc'[r] = "create" /\ \A q \in Requests \ {r} : pc'[q] = pc[q]
      BY <1>4, Frame DEF Begin
    <2>2. \A q \in Requests \ {r} : until'[q] = until[q]
      BY <1>4 DEF Begin, TypeOK
    <2>3. pc[r] = "idle"
      BY <1>4 DEF Begin
    <2> QED
      BY <1>1, <2>1, <2>2, <2>3 DEF Owners, Owning
  <1>5. ASSUME NEW r \in Requests, CreateProcessing(r) PROVE NoRerunBeforeExpiry'
    <2>1. CASE row.id # 0
      BY <1>2, <1>5, <2>1 DEF CreateProcessing, Owning
    <2>2. CASE row.id = 0
      <3>1. clock >= until[r]
        BY <1>0, <1>5, <1>t, <2>2 DEF CreateProcessing, IInv, IdInv, FreshInv, Claiming
      <3> QED
        BY <1>3, <1>5, <2>2, <3>1 DEF CreateProcessing, Own
    <2> QED
      BY <2>1, <2>2
  <1>6. ASSUME NEW r \in Requests, TryReclaim(r) PROVE NoRerunBeforeExpiry'
    <2>1. CASE Goto(r, "getLatest") \/ Goto(r, "done")
      BY <1>2, <1>6, <2>1 DEF TryReclaim, Owning
    <2>2. CASE Goto(r, "exec")
      <3>1. clock >= until[r]
        BY <1>0, <1>6, <1>t DEF TryReclaim, IInv, FreshInv, Claiming, Reclaiming
      <3> QED
        BY <1>3, <1>6, <2>2, <3>1 DEF TryReclaim
    <2> QED
      BY <1>6, <2>1, <2>2 DEF TryReclaim, Own, End
  <1>7. ASSUME NEW r \in Requests, GetExisting(r) \/ GetLatest(r) PROVE NoRerunBeforeExpiry'
    <2>1. \E p \in {"done", "reclaimExpired", "reclaimFailed"} : Goto(r, p)
      BY <1>7 DEF GetExisting, GetLatest, Refuse, Decide, End
    <2> QED
      BY <1>2, <1>7, <2>1 DEF GetExisting, GetLatest, Owning
  <1>8. ASSUME NEW r \in Requests,
               ExecuteReturns(r) \/ MarkSucceeded(r) \/ MarkFailedRetryable(r)
        PROVE  NoRerunBeforeExpiry'
    BY <1>2, <1>8 DEF ExecuteReturns, MarkSucceeded, MarkFailedRetryable, End, Owning
  <1>9. ASSUME NEW r \in Requests, StoreFails(r) \/ Crash(r) PROVE NoRerunBeforeExpiry'
    BY <1>2, <1>9 DEF StoreFails, Crash, End, Owning
  <1>10. CASE DeleteExpired \/ Tick \/ UNCHANGED vars
    BY <1>1, <1>10 DEF DeleteExpired, Tick, vars, Owners
  <1> QED
    BY <1>4, <1>5, <1>6, <1>7, <1>8, <1>9, <1>10 DEF Next, Step

\* A request that finds a result, or the claim of a dead owner, with nobody else
\* at work on the key does not run the operation before that row expires.
THEOREM NoRerunSafe == Spec => []NoRerunBeforeExpiry
  <1>1. Init => NoRerunBeforeExpiry
    BY DEF Init, NoRerunBeforeExpiry, Owners, Owning
  <1>2. TypeOK /\ IInv /\ NoRerunBeforeExpiry /\ [Next]_vars => NoRerunBeforeExpiry'
    BY NoRerunStep
  <1> QED
    BY <1>1, <1>2, Invariance, PTL DEF Spec
=============================================================================
