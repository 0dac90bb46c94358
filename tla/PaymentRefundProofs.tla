------------------------ MODULE PaymentRefundProofs ------------------------
(***************************************************************************)
(* Proofs about PaymentRefund, for every set of orders and workers, every  *)
(* order amount and every bound on attempts and faults.                    *)
(***************************************************************************)
EXTENDS PaymentRefund, TLAPS

\* What is available of n is between nothing and n, and n if the balance has it.
LEMMA AvailableBounds ==
  ASSUME bal \in Int, NEW n \in Nat
  PROVE  Available(n) \in 0..n
  BY DEF Available, Least

\* A write of a legal status keeps the two variables it touches typed.
LEMMA SetStatusType ==
  ASSUME TypeOK, NEW o \in Orders, NEW s \in Statuses, SetStatus(o, s)
  PROVE  status' \in [Orders -> Statuses] /\ version' \in [Workers -> BOOLEAN]
  BY DEF TypeOK, SetStatus

\* A handler that returns leaves its plan well typed.
LEMMA ReturnType ==
  ASSUME TypeOK, NEW w \in Workers, Return(w)
  PROVE  /\ pc' \in [Workers -> PCs] /\ ord' \in [Workers -> Orders]
         /\ from' \in [Workers -> Statuses] /\ amt' \in [Workers -> 0..Amount]
         /\ force' \in [Workers -> BOOLEAN] /\ toDeduct' \in [Workers -> 0..Amount]
  BY RefundAssumption DEF TypeOK, Return, PCs, Statuses, Refundable

\* A failed write keeps the types.
LEMMA WriteFailsType ==
  ASSUME TypeOK, NEW w \in Workers, WriteFails(w)
  PROVE  TypeOK'
  BY ReturnType, RefundAssumption DEF WriteFails, Fault, orderVars, userVars, gwVars, TypeOK

\* The refund workflow starts well typed.
LEMMA TypeInit == Init => TypeOK
  BY RefundAssumption DEF Init, TypeOK, Statuses, Refundable, PCs

\* Every step of a worker, the gateway and the user keeps the types.
LEMMA TypeStep == TypeOK /\ [Next]_vars => TypeOK'
  <1> SUFFICES ASSUME TypeOK, [Next]_vars PROVE TypeOK'
    OBVIOUS
  <1> USE RefundAssumption DEF orderVars, userVars, gwVars, planVars, bounds
  <1> DEFINE Tagged == {"COMPLETED", "REFUND_REQUESTED", "REFUND_FAILED", "REFUNDED",
                        "PARTIALLY_REFUNDED", "REFUNDING", "REFUND_PENDING"}
  <1>s. Tagged \subseteq Statuses
    BY DEF Statuses, Refundable, Refunded
  <1>1. ASSUME NEW w \in Workers, Step(w) PROVE TypeOK'
    <2>0. ord[w] \in Orders
      BY DEF TypeOK
    <2>1. CASE SubmitRequest(w) /\ ~WriteFails(w)
      <3>1. status' \in [Orders -> Statuses] /\ version' \in [Workers -> BOOLEAN]
        BY <2>0, <2>1, <1>s, SetStatusType DEF SubmitRequest, TypeOK
      <3>2. refAmt' \in [Orders -> 0..Amount]
        BY <2>1 DEF SubmitRequest, TypeOK
      <3> QED
        BY <2>1, <3>1, <3>2, ReturnType DEF SubmitRequest, TypeOK
    <2>2. CASE CheckRollback(w)
      BY <2>2, ReturnType DEF CheckRollback, Goto, TypeOK, PCs
    <2>3. CASE ClaimRefund(w) /\ ~WriteFails(w)
      <3>1. status' \in [Orders -> Statuses] /\ version' \in [Workers -> BOOLEAN]
        BY <2>0, <2>3, <1>s, SetStatusType DEF ClaimRefund, TypeOK
      <3>2. CASE Goto(w, "recheck") /\ UNCHANGED planVars
        BY <2>3, <3>1, <3>2 DEF ClaimRefund, Goto, TypeOK, PCs, Claimed
      <3>3. CASE Return(w)
        BY <2>3, <3>1, <3>3, ReturnType DEF ClaimRefund, TypeOK
      <3> QED
        BY <2>3, <3>2, <3>3 DEF ClaimRefund
    <2>4. CASE RecheckRollback(w) /\ ~WriteFails(w)
      <3>1. status' \in [Orders -> Statuses] /\ version' \in [Workers -> BOOLEAN]
        BY <2>0, <2>4, <1>s, SetStatusType DEF RecheckRollback, TypeOK
      <3>2. faults' \in 0..MaxFaults
        BY <2>4 DEF RecheckRollback, Fault, TypeOK
      <3>3. CASE Goto(w, "deduct") /\ UNCHANGED planVars
        BY <2>4, <3>1, <3>2, <3>3 DEF RecheckRollback, Goto, TypeOK, PCs, Claimed
      <3>4. CASE Return(w)
        BY <2>4, <3>1, <3>2, <3>4, ReturnType DEF RecheckRollback, TypeOK
      <3> QED
        BY <2>4, <3>3, <3>4 DEF RecheckRollback
    <2>5. CASE DeductBalance(w)
      <3>1. toDeduct[w] \in 0..Amount /\ Available(toDeduct[w]) \in 0..Amount
        BY AvailableBounds DEF TypeOK
      <3>2. bal' \in Int /\ taken' \in [Orders -> Int]
        BY <2>0, <2>5, <3>1 DEF DeductBalance, Deduct, TypeOK
      <3>3. toDeduct' \in [Workers -> 0..Amount]
        BY <2>5, <3>1 DEF DeductBalance, TypeOK
      <3>4. faults' \in 0..MaxFaults
        BY <2>5 DEF DeductBalance, Fault, TypeOK
      <3>5. pc' \in [Workers -> PCs] /\ ord' \in [Workers -> Orders]
        BY <2>5 DEF DeductBalance, Goto, TypeOK, PCs, Claimed
      <3> QED
        BY <2>5, <3>2, <3>3, <3>4, <3>5 DEF DeductBalance, TypeOK
    <2>6. CASE GwRefund(w)
      BY <2>0, <2>6 DEF GwRefund, PaidBack, Goto, TypeOK, PCs, Claimed
    <2>7. CASE RollbackRefund(w)
      <3>1. bal' \in Int /\ taken' \in [Orders -> Int]
        BY <2>0, <2>7 DEF RollbackRefund, UpdateBalance, TypeOK
      <3>2. blocked' \in [Orders -> BOOLEAN]
        BY <2>0, <2>7 DEF RollbackRefund, TypeOK
      <3>3. faults' \in 0..MaxFaults
        BY <2>7 DEF RollbackRefund, Fault, TypeOK
      <3>4. pc' \in [Workers -> PCs] /\ ord' \in [Workers -> Orders]
        BY <2>7 DEF RollbackRefund, Goto, TypeOK, PCs, Claimed
      <3> QED
        BY <2>7, <3>1, <3>2, <3>3, <3>4 DEF RollbackRefund, TypeOK
    <2>8. CASE RestoreStatus(w) /\ ~WriteFails(w)
      <3>1. status' \in [Orders -> Statuses] /\ version' \in [Workers -> BOOLEAN]
        BY <2>0, <2>8, <1>s, SetStatusType DEF RestoreStatus
      <3> QED
        BY <2>8, <3>1, ReturnType DEF RestoreStatus, TypeOK
    <2>9. CASE MarkRefundFailed(w) /\ ~WriteFails(w)
      <3>1. status' \in [Orders -> Statuses] /\ version' \in [Workers -> BOOLEAN]
        BY <2>0, <2>9, <1>s, SetStatusType DEF MarkRefundFailed
      <3> QED
        BY <2>9, <3>1, ReturnType DEF MarkRefundFailed, TypeOK
    <2>10. CASE MarkRefundOk(w) /\ ~WriteFails(w)
      <3>1. status' \in [Orders -> Statuses] /\ version' \in [Workers -> BOOLEAN]
        BY <2>0, <2>10, <1>s, SetStatusType DEF MarkRefundOk, RefundedStatus
      <3>2. refAmt' \in [Orders -> 0..Amount]
        BY <2>10 DEF MarkRefundOk, TypeOK
      <3> QED
        BY <2>10, <3>1, <3>2, ReturnType DEF MarkRefundOk, TypeOK
    <2>11. CASE MarkRefundPending(w) /\ ~WriteFails(w)
      <3>1. status' \in [Orders -> Statuses] /\ version' \in [Workers -> BOOLEAN]
        BY <2>0, <2>11, <1>s, SetStatusType DEF MarkRefundPending
      <3>2. refAmt' \in [Orders -> 0..Amount] /\ held' \in [Orders -> 0..Amount]
        BY <2>11 DEF MarkRefundPending, TypeOK
      <3> QED
        BY <2>11, <3>1, <3>2, ReturnType DEF MarkRefundPending, TypeOK
    <2>12. CASE LatestRefundPendingDetail(w)
      BY <2>0, <2>12 DEF LatestRefundPendingDetail, Goto, TypeOK, PCs
    <2>13. CASE QueryRefund(w)
      BY <2>13, ReturnType DEF QueryRefund, Goto, TypeOK, PCs
    <2>14. CASE FinalizePendingRefundSuccess(w) /\ ~WriteFails(w)
      <3>1. status' \in [Orders -> Statuses] /\ version' \in [Workers -> BOOLEAN]
        BY <2>0, <2>14, <1>s, SetStatusType
           DEF FinalizePendingRefundSuccess, RefundedStatus, TypeOK
      <3>2. refAmt' \in [Orders -> 0..Amount]
        BY <2>14 DEF FinalizePendingRefundSuccess, TypeOK
      <3> QED
        BY <2>14, <3>1, <3>2, ReturnType DEF FinalizePendingRefundSuccess, TypeOK
    <2>15. CASE FinalizeRefundFailed(w) /\ ~WriteFails(w)
      <3>1. status' \in [Orders -> Statuses] /\ version' \in [Workers -> BOOLEAN]
        BY <2>0, <2>15, <1>s, SetStatusType DEF FinalizeRefundFailed, TypeOK
      <3>2. bal' \in Int /\ taken' \in [Orders -> Int]
        BY <2>0, <2>15 DEF FinalizeRefundFailed, UpdateBalance, TypeOK
      <3> QED
        BY <2>15, <3>1, <3>2, ReturnType DEF FinalizeRefundFailed, TypeOK
    <2>16. CASE WriteFails(w)
      BY <2>16, WriteFailsType
    <2> QED
      BY <1>1, <2>1, <2>2, <2>3, <2>4, <2>5, <2>6, <2>7, <2>8, <2>9, <2>10, <2>11,
         <2>12, <2>13, <2>14, <2>15, <2>16 DEF Step
  <1>2. ASSUME NEW w \in Workers, Crash(w) PROVE TypeOK'
    BY <1>2, ReturnType DEF Crash, Fault, TypeOK
  <1>3. ASSUME NEW w \in Workers, NEW o \in Orders, Call(w, o) PROVE TypeOK'
    <2>1. CASE RequestRefund(w, o)
      BY <2>1 DEF RequestRefund, TypeOK, PCs
    <2>2. CASE PrepareRefund(w, o)
      <3>1. PICK a \in 1..Amount, f \in BOOLEAN, deduct \in BOOLEAN :
              /\ amt' = [amt EXCEPT ![w] = a]
              /\ force' = [force EXCEPT ![w] = f]
              /\ toDeduct' = [toDeduct EXCEPT ![w] = IF deduct THEN Available(a) ELSE 0]
        BY <2>2 DEF PrepareRefund
      <3>2. Available(a) \in 0..Amount
        BY AvailableBounds DEF TypeOK
      <3>3. /\ amt' \in [Workers -> 0..Amount] /\ force' \in [Workers -> BOOLEAN]
            /\ toDeduct' \in [Workers -> 0..Amount]
        BY <3>1, <3>2 DEF TypeOK
      <3> QED
        BY <2>2, <3>3 DEF PrepareRefund, TypeOK, PCs
    <2>3. CASE QueryAndFinalizeRefund(w, o)
      BY <2>3, <1>s DEF QueryAndFinalizeRefund, TypeOK, PCs
    <2> QED
      BY <1>3, <2>1, <2>2, <2>3 DEF Call
  <1>4. ASSUME NEW o \in Orders, GatewaySettles(o) PROVE TypeOK'
    BY <1>4 DEF GatewaySettles, PaidBack, TypeOK
  <1>5. CASE Spend
    BY <1>5 DEF Spend, TypeOK
  <1>6. CASE UNCHANGED vars
    BY <1>6 DEF vars, TypeOK
  <1> QED
    BY <1>1, <1>2, <1>3, <1>4, <1>5, <1>6 DEF Next

\* Every variable keeps its type: no plan deducts a negative amount or more than
\* the order, however the balance changes between plan and deduction.
THEOREM TypeCorrect == Spec => []TypeOK
  BY TypeInit, TypeStep, PTL DEF Spec

-----------------------------------------------------------------------------
(* One owner. *)

\* A write that is not the claim's leaves the ownership as it is, provided that
\* the worker that writes owns the order or found it not REFUNDING.
LEMMA OwnerWrite ==
  ASSUME TypeOK, OneRefundOwner, NEW w \in Workers, NEW s,
         SetStatus(ord[w], s), pc' = [pc EXCEPT ![w] = "idle"], UNCHANGED ord,
         pc[w] \in Claimed \/ status[ord[w]] # "REFUNDING"
  PROVE  OneRefundOwner'
  BY DEF TypeOK, OneRefundOwner, SetStatus, Claimed

\* No step gives an order a second owner or takes it out of REFUNDING under its
\* owner.
LEMMA OwnerStep == TypeOK /\ OneRefundOwner /\ [Next]_vars => OneRefundOwner'
  <1> SUFFICES ASSUME TypeOK, OneRefundOwner, [Next]_vars PROVE OneRefundOwner'
    OBVIOUS
  <1> USE DEF orderVars, userVars, gwVars, planVars, bounds, At
  <1>0. ASSUME NEW w \in Workers, pc' = [pc EXCEPT ![w] = "idle"], UNCHANGED <<status, ord>>
        PROVE  OneRefundOwner'
    BY <1>0 DEF OneRefundOwner, TypeOK, Claimed
  <1>1. ASSUME NEW w \in Workers, Step(w) PROVE OneRefundOwner'
    <2>1. CASE SubmitRequest(w) /\ ~WriteFails(w)
      BY <2>1, <1>0, OwnerWrite DEF SubmitRequest, Return
    <2>2. CASE CheckRollback(w)
      BY <2>2, <1>0 DEF CheckRollback, Return, Goto, OneRefundOwner, TypeOK, Claimed
    <2>3. CASE ClaimRefund(w) /\ ~WriteFails(w)
      BY <2>3, <1>0 DEF ClaimRefund, Return, Goto, SetStatus, OneRefundOwner, TypeOK,
         Claimed, Refundable
    <2>4. CASE RecheckRollback(w) /\ ~WriteFails(w)
      <3>1. CASE Goto(w, "deduct") /\ UNCHANGED status
        BY <2>4, <3>1 DEF RecheckRollback, Goto, OneRefundOwner, TypeOK, Claimed
      <3>2. CASE SetStatus(ord[w], "REFUND_FAILED") /\ Return(w)
        BY <2>4, <3>2, OwnerWrite DEF RecheckRollback, Return, Claimed
      <3> QED
        BY <2>4, <3>1, <3>2 DEF RecheckRollback
    <2>5. CASE DeductBalance(w)
      BY <2>5 DEF DeductBalance, Goto, OneRefundOwner, TypeOK, Claimed
    <2>6. CASE GwRefund(w)
      BY <2>6 DEF GwRefund, Goto, OneRefundOwner, TypeOK, Claimed
    <2>7. CASE RollbackRefund(w)
      BY <2>7 DEF RollbackRefund, Goto, OneRefundOwner, TypeOK, Claimed
    <2>8. CASE /\ RestoreStatus(w) \/ MarkRefundFailed(w) \/ MarkRefundOk(w) \/ MarkRefundPending(w)
               /\ ~WriteFails(w)
      BY <2>8, OwnerWrite
         DEF RestoreStatus, MarkRefundFailed, MarkRefundOk, MarkRefundPending, Return, Claimed
    <2>9. CASE LatestRefundPendingDetail(w)
      BY <2>9 DEF LatestRefundPendingDetail, Goto, OneRefundOwner, TypeOK, Claimed
    <2>10. CASE QueryRefund(w)
      BY <2>10, <1>0 DEF QueryRefund, Return, Goto, OneRefundOwner, TypeOK, Claimed
    <2>11. CASE FinalizePendingRefundSuccess(w) /\ ~WriteFails(w)
      BY <2>11, <1>0, OwnerWrite DEF FinalizePendingRefundSuccess, SameAttempt, Return
    <2>12. CASE FinalizeRefundFailed(w) /\ ~WriteFails(w)
      BY <2>12, <1>0, OwnerWrite DEF FinalizeRefundFailed, SameAttempt, Return
    <2>13. CASE WriteFails(w)
      BY <1>0, <2>13 DEF WriteFails, Return
    <2> QED
      BY <1>1, <2>1, <2>2, <2>3, <2>4, <2>5, <2>6, <2>7, <2>8, <2>9, <2>10, <2>11,
         <2>12, <2>13 DEF Step
  <1>2. ASSUME NEW w \in Workers, Crash(w) PROVE OneRefundOwner'
    BY <1>0, <1>2 DEF Crash, Return
  <1>3. ASSUME NEW w \in Workers, NEW o \in Orders, Call(w, o) PROVE OneRefundOwner'
    BY <1>3 DEF Call, RequestRefund, PrepareRefund, QueryAndFinalizeRefund,
       OneRefundOwner, TypeOK, Claimed
  <1>4. ASSUME NEW o \in Orders, GatewaySettles(o) PROVE OneRefundOwner'
    BY <1>4 DEF GatewaySettles, OneRefundOwner
  <1>5. CASE Spend
    BY <1>5 DEF Spend, OneRefundOwner
  <1>6. CASE UNCHANGED vars
    BY <1>6 DEF vars, OneRefundOwner
  <1> QED
    BY <1>1, <1>2, <1>3, <1>4, <1>5, <1>6 DEF Next

\* Whatever administrators do at once, an order in REFUNDING belongs to the one
\* attempt that claimed it, so that the unconditional writes of its outcome hit
\* no other attempt.
THEOREM OneOwner == Spec => []OneRefundOwner
  <1>1. Init => OneRefundOwner
    BY DEF Init, OneRefundOwner, Claimed
  <1> QED
    BY <1>1, TypeCorrect, OwnerStep, PTL DEF Spec

-----------------------------------------------------------------------------
(* Attempts that were cut off. *)

\* The credit and the payments of an order, which only its owner and, for a
\* refund it has accepted, the gateway change.
Untouched(o) == status'[o] = status[o] /\ taken'[o] = taken[o] /\ back'[o] = back[o]

\* Nobody becomes the owner of the order.
NoNewOwner(o) ==
    \A w \in Workers : pc'[w] \in Claimed /\ ord'[w] = o => pc[w] \in Claimed /\ ord[w] = o

\* A worker that does not own an order in REFUNDING neither touches nor claims it.
LEMMA OutsiderStep ==
  ASSUME TypeOK, NEW w \in Workers, Step(w), NEW o \in Orders, Orphaned(o)
  PROVE  Untouched(o) /\ NoNewOwner(o)
  <1> USE DEF orderVars, userVars, gwVars, planVars, bounds, At, Untouched, NoNewOwner
  <1>0. status[o] = "REFUNDING" /\ ord[w] \in Orders /\ (pc[w] \in Claimed => ord[w] # o)
    BY DEF Orphaned, TypeOK
  <1>r. ASSUME Return(w) PROVE NoNewOwner(o)
    BY <1>r DEF Return, TypeOK, Claimed
  <1>w. CASE WriteFails(w)
    BY <1>r, <1>w DEF WriteFails
  <1>1. CASE SubmitRequest(w) /\ ~WriteFails(w)
    BY <1>0, <1>1, <1>r DEF SubmitRequest, SetStatus, TypeOK
  <1>2. CASE CheckRollback(w)
    BY <1>2, <1>r DEF CheckRollback, Goto, TypeOK, Claimed
  <1>3. CASE ClaimRefund(w) /\ ~WriteFails(w)
    BY <1>0, <1>3, <1>r DEF ClaimRefund, SetStatus, Goto, TypeOK, Refundable
  <1>4. CASE RecheckRollback(w) /\ ~WriteFails(w)
    BY <1>0, <1>4, <1>r DEF RecheckRollback, SetStatus, Goto, TypeOK, Claimed
  <1>5. CASE DeductBalance(w)
    BY <1>0, <1>5 DEF DeductBalance, Deduct, Goto, TypeOK, Claimed
  <1>6. CASE GwRefund(w)
    BY <1>0, <1>6 DEF GwRefund, PaidBack, Goto, TypeOK, Claimed
  <1>7. CASE RollbackRefund(w)
    BY <1>0, <1>7 DEF RollbackRefund, UpdateBalance, Goto, TypeOK, Claimed
  <1>8. CASE /\ RestoreStatus(w) \/ MarkRefundFailed(w) \/ MarkRefundOk(w) \/ MarkRefundPending(w)
             /\ ~WriteFails(w)
    BY <1>0, <1>8, <1>r DEF RestoreStatus, MarkRefundFailed, MarkRefundOk, MarkRefundPending,
       SetStatus, TypeOK, Claimed
  <1>9. CASE LatestRefundPendingDetail(w) \/ QueryRefund(w)
    BY <1>9, <1>r DEF LatestRefundPendingDetail, QueryRefund, Goto, TypeOK, Claimed
  <1>10. CASE FinalizePendingRefundSuccess(w) /\ ~WriteFails(w)
    BY <1>0, <1>10, <1>r DEF FinalizePendingRefundSuccess, SameAttempt, SetStatus, TypeOK
  <1>11. CASE FinalizeRefundFailed(w) /\ ~WriteFails(w)
    BY <1>0, <1>11, <1>r
       DEF FinalizeRefundFailed, SameAttempt, SetStatus, UpdateBalance, TypeOK
  <1> QED
    BY <1>w, <1>1, <1>2, <1>3, <1>4, <1>5, <1>6, <1>7, <1>8, <1>9, <1>10, <1>11 DEF Step

\* An order whose attempt was cut off, by a crash or by a failed write of its
\* outcome, is never claimed, reported or paid for again, whatever plans,
\* queries and requests for it are under way.
THEOREM OrphansFrozen == Spec => OrphanedRefundIsFrozen
  <1> DEFINE Frozen(o) == /\ Orphaned(o)' /\ taken'[o] = taken[o]
                          /\ gw[o] # "open" => back'[o] = back[o]
  <1>1. ASSUME NEW o \in Orders, Orphaned(o), Untouched(o), NoNewOwner(o) PROVE Frozen(o)
    BY <1>1 DEF Orphaned, Untouched, NoNewOwner
  <1>2. ASSUME TypeOK, [Next]_vars, NEW o \in Orders, Orphaned(o) PROVE Frozen(o)
    <2> USE DEF orderVars, userVars, gwVars, planVars, bounds
    <2>1. ASSUME NEW w \in Workers, Step(w) PROVE Frozen(o)
      BY <1>1, <1>2, <2>1, OutsiderStep
    <2>2. ASSUME NEW w \in Workers, Crash(w) PROVE Frozen(o)
      BY <1>1, <1>2, <2>2 DEF Crash, Return, TypeOK, Claimed, Untouched, NoNewOwner
    <2>3. ASSUME NEW w \in Workers, NEW q \in Orders, Call(w, q) PROVE Frozen(o)
      BY <1>1, <1>2, <2>3 DEF Call, RequestRefund, PrepareRefund, QueryAndFinalizeRefund,
         TypeOK, Claimed, Untouched, NoNewOwner
    <2>4. ASSUME NEW q \in Orders, GatewaySettles(q) PROVE Frozen(o)
      BY <1>2, <2>4 DEF GatewaySettles, PaidBack, Orphaned, TypeOK
    <2>5. CASE Spend \/ UNCHANGED vars
      BY <1>1, <1>2, <2>5 DEF Spend, vars, Untouched, NoNewOwner
    <2> QED
      BY <1>2, <2>1, <2>2, <2>3, <2>4, <2>5 DEF Next
  <1>3. TypeOK /\ [Next]_vars =>
          [\A o \in Orders : Orphaned(o) => Frozen(o)]_vars
    BY <1>2
  <1> QED
    BY <1>3, TypeCorrect, PTL DEF Spec, OrphanedRefundIsFrozen

-----------------------------------------------------------------------------
(* The inductive invariant about money. *)

\* The gateway's count agrees with the state of its refund.
BooksInv ==
    \A o \in Orders : /\ gw[o] = "refunded" => back[o] = 1
                      /\ gw[o] # "refunded" => back[o] = 0

\* Nothing was paid back, and all credit is back or every attempt is blocked.
Undone(o) == gw[o] = "none" /\ (taken[o] = 0 \/ blocked[o])

UndoneInv == \A o \in Orders : status[o] \in Refundable => Undone(o)

PendingInv ==
    \A o \in Orders : status[o] = "REFUND_PENDING" => taken[o] = held[o] /\ held[o] <= refAmt[o]

SettledInv ==
    \A o \in Orders : status[o] \in Refunded =>
        /\ gw[o] = "refunded"
        /\ taken[o] <= refAmt[o]
        /\ status[o] = "REFUNDED" <=> refAmt[o] = Amount

\* A plan never deducts more than it refunds.
PlanInv ==
    \A w \in Workers : pc[w] \in Claimed \cup {"check", "claim"} => toDeduct[w] <= amt[w]

\* What the owner of an order knows about its money, step by step.
AttemptInv ==
    \A w \in Workers : LET o == ord[w] IN
        /\ pc[w] \in {"recheck", "refundFailed"} => Undone(o)
        /\ pc[w] \in {"deduct", "restore"} => gw[o] = "none" /\ taken[o] = 0
        /\ pc[w] \in {"gateway", "rollback"} => gw[o] = "none" /\ taken[o] = toDeduct[w]
        /\ pc[w] = "ok" => gw[o] = "refunded" /\ taken[o] = toDeduct[w]
        /\ pc[w] = "pending" => taken[o] = toDeduct[w]

\* What a late finalization read is still true while its version is current.
FinalInv ==
    \A w \in Workers : version[w] => LET o == ord[w] IN
        /\ status[o] = "REFUND_PENDING"
        /\ pc[w] \in {"marker", "query", "finalOk", "finalFail"} => amt[w] = refAmt[o]
        /\ pc[w] \in {"query", "finalOk", "finalFail"} => toDeduct[w] = held[o]
        /\ pc[w] = "finalOk" => gw[o] = "refunded"
        /\ pc[w] = "finalFail" => gw[o] = "none"

MoneyInv ==
    /\ BooksInv /\ UndoneInv /\ PendingInv /\ SettledInv
    /\ PlanInv /\ AttemptInv /\ FinalInv

\* The marker of a failed restoration is written.
NoLostMarker == "marker" \notin FaultKinds

\* A fresh, completed order satisfies the money invariant.
LEMMA MoneyInit == Init => MoneyInv
  BY DEF Init, MoneyInv, BooksInv, UndoneInv, Undone, PendingInv, SettledInv, PlanInv,
     AttemptInv, FinalInv, Refundable, Refunded, Claimed

\* A handler that returns without having changed order, balance or gateway
\* leaves nothing behind that the invariant speaks of.
LEMMA MoneyReturn ==
  ASSUME TypeOK, MoneyInv, NEW w \in Workers, Return(w),
         UNCHANGED <<orderVars, userVars, gwVars, version>>
  PROVE  MoneyInv'
  BY DEF TypeOK, orderVars, userVars, gwVars, Return, MoneyInv, BooksInv, UndoneInv, Undone,
     PendingInv, SettledInv, PlanInv, AttemptInv, FinalInv, Claimed

\* The write of an order's outcome disturbs no other plan, attempt or query.
LEMMA OutcomeWritten ==
  ASSUME TypeOK, MoneyInv, NEW w \in Workers, NEW s, SetStatus(ord[w], s), Return(w),
         UNCHANGED <<blocked, taken, gw, back>>,
         \A o \in Orders \ {ord[w]} : refAmt'[o] = refAmt[o] /\ held'[o] = held[o]
  PROVE  PlanInv' /\ AttemptInv' /\ FinalInv'
  <1> USE DEF TypeOK, MoneyInv, PlanInv, AttemptInv, FinalInv, Undone
  <1>1. \A v \in Workers \ {w} : /\ pc'[v] = pc[v] /\ amt'[v] = amt[v]
                                 /\ toDeduct'[v] = toDeduct[v] /\ ord'[v] = ord[v]
    BY DEF Return
  <1>2. pc'[w] = "idle" /\ UNCHANGED ord
    BY DEF Return
  <1>3. PlanInv'
    BY <1>1, <1>2 DEF Claimed
  <1>4. AttemptInv'
    BY <1>1, <1>2
  <1>5. FinalInv'
    <2>1. \A v \in Workers : version'[v] => version[v] /\ ord[v] # ord[w] /\ v # w
      BY DEF SetStatus
    <2>2. \A o \in Orders \ {ord[w]} : status'[o] = status[o]
      BY DEF SetStatus
    <2> QED
      BY <1>1, <1>2, <2>1, <2>2
  <1> QED
    BY <1>3, <1>4, <1>5

\* Every step of a worker, the gateway and the user keeps the money invariant.
LEMMA MoneyStep ==
  ASSUME NoLostMarker
  PROVE  TypeOK /\ OneRefundOwner /\ MoneyInv /\ [Next]_vars => MoneyInv'
  <1> SUFFICES ASSUME TypeOK, OneRefundOwner, MoneyInv, [Next]_vars PROVE MoneyInv'
    OBVIOUS
  <1> USE RefundAssumption
      DEF orderVars, userVars, gwVars, planVars, bounds, At, TypeOK, MoneyInv, BooksInv,
      UndoneInv, Undone, PendingInv, SettledInv, PlanInv, AttemptInv, FinalInv, Claimed,
      Refundable, Refunded
  <1>1. ASSUME NEW w \in Workers, Step(w) PROVE MoneyInv'
    <2>1. CASE SubmitRequest(w) /\ ~WriteFails(w)
      BY <2>1 DEF SubmitRequest, SetStatus, Return, OneRefundOwner
    <2>2. CASE CheckRollback(w)
      BY <2>2, MoneyReturn DEF CheckRollback, Goto
    <2>3. CASE ClaimRefund(w) /\ ~WriteFails(w)
      BY <2>3, MoneyReturn DEF ClaimRefund, SetStatus, Goto, OneRefundOwner
    <2>4. CASE RecheckRollback(w) /\ ~WriteFails(w)
      BY <2>4 DEF RecheckRollback, SetStatus, Goto, Return, OneRefundOwner
    <2>5. CASE DeductBalance(w)
      BY <2>5, AvailableBounds DEF DeductBalance, Deduct, Goto, OneRefundOwner
    <2>6. CASE GwRefund(w)
      BY <2>6 DEF GwRefund, PaidBack, Goto, OneRefundOwner
    <2>7. CASE RollbackRefund(w)
      BY <2>7 DEF RollbackRefund, UpdateBalance, Goto, Fault, NoLostMarker, OneRefundOwner
    <2>8. CASE RestoreStatus(w) /\ ~WriteFails(w)
      BY <2>8 DEF RestoreStatus, SetStatus, Return, OneRefundOwner
    <2>9. CASE MarkRefundFailed(w) /\ ~WriteFails(w)
      BY <2>9 DEF MarkRefundFailed, SetStatus, Return, OneRefundOwner
    <2>10. CASE MarkRefundOk(w) /\ ~WriteFails(w)
      <3>1. /\ ord[w] \in Orders /\ status[ord[w]] = "REFUNDING" /\ gw[ord[w]] = "refunded"
            /\ toDeduct[w] <= amt[w] /\ taken[ord[w]] = toDeduct[w]
        BY <2>10 DEF MarkRefundOk, OneRefundOwner
      <3>2. /\ SetStatus(ord[w], RefundedStatus(amt[w])) /\ Return(w)
            /\ refAmt' = [refAmt EXCEPT ![ord[w]] = amt[w]]
            /\ UNCHANGED <<held, blocked, taken, gw, back>>
        BY <2>10 DEF MarkRefundOk
      <3>3. BooksInv' /\ UndoneInv' /\ PendingInv'
        BY <3>1, <3>2 DEF SetStatus, RefundedStatus
      <3>4. SettledInv'
        BY <3>1, <3>2 DEF SetStatus, RefundedStatus
      <3>5. PlanInv' /\ AttemptInv' /\ FinalInv'
        BY <3>1, <3>2, OutcomeWritten
      <3> QED
        BY <3>3, <3>4, <3>5 DEF MoneyInv
    <2>11. CASE MarkRefundPending(w) /\ ~WriteFails(w)
      <3>1. /\ ord[w] \in Orders /\ status[ord[w]] = "REFUNDING"
            /\ toDeduct[w] <= amt[w] /\ taken[ord[w]] = toDeduct[w]
        BY <2>11 DEF MarkRefundPending, OneRefundOwner
      <3>2. /\ SetStatus(ord[w], "REFUND_PENDING") /\ Return(w)
            /\ refAmt' = [refAmt EXCEPT ![ord[w]] = amt[w]]
            /\ held' = [held EXCEPT ![ord[w]] = toDeduct[w]]
            /\ UNCHANGED <<blocked, taken, gw, back>>
        BY <2>11 DEF MarkRefundPending
      <3>3. BooksInv' /\ UndoneInv' /\ SettledInv'
        BY <3>1, <3>2 DEF SetStatus
      <3>4. PendingInv'
        BY <3>1, <3>2 DEF SetStatus
      <3>5. PlanInv' /\ AttemptInv' /\ FinalInv'
        BY <3>1, <3>2, OutcomeWritten
      <3> QED
        BY <3>3, <3>4, <3>5 DEF MoneyInv
    <2>12. CASE LatestRefundPendingDetail(w)
      BY <2>12 DEF LatestRefundPendingDetail, Goto
    <2>13. CASE QueryRefund(w)
      BY <2>13, MoneyReturn DEF QueryRefund, Goto
    <2>14. CASE FinalizePendingRefundSuccess(w) /\ ~WriteFails(w)
      <3>1. CASE SameAttempt(w)
        <4>1. /\ status[ord[w]] = "REFUND_PENDING" /\ gw[ord[w]] = "refunded"
              /\ amt[w] = refAmt[ord[w]] /\ ord[w] \in Orders
          BY <2>14, <3>1 DEF FinalizePendingRefundSuccess, SameAttempt
        <4>2. /\ SetStatus(ord[w], RefundedStatus(amt[w])) /\ Return(w)
              /\ UNCHANGED <<refAmt, held, blocked, taken, gw, back>>
          BY <2>14, <3>1, <4>1 DEF FinalizePendingRefundSuccess
        <4>3. BooksInv' /\ UndoneInv' /\ PendingInv'
          BY <4>1, <4>2 DEF SetStatus, RefundedStatus
        <4>4. SettledInv'
          BY <4>1, <4>2 DEF SetStatus, RefundedStatus
        <4>5. PlanInv' /\ AttemptInv' /\ FinalInv'
          BY <4>1, <4>2, OutcomeWritten
        <4> QED
          BY <4>3, <4>4, <4>5 DEF MoneyInv
      <3>2. CASE ~SameAttempt(w)
        BY <2>14, <3>2, MoneyReturn DEF FinalizePendingRefundSuccess
      <3> QED
        BY <3>1, <3>2
    <2>15. CASE FinalizeRefundFailed(w) /\ ~WriteFails(w)
      <3>1. CASE SameAttempt(w)
        <4>1. /\ status[ord[w]] = "REFUND_PENDING" /\ gw[ord[w]] = "none"
              /\ taken[ord[w]] = toDeduct[w] /\ ord[w] \in Orders
          BY <2>15, <3>1 DEF FinalizeRefundFailed, SameAttempt
        <4>2. /\ SetStatus(ord[w], "REFUND_FAILED") /\ Return(w)
              /\ UNCHANGED <<refAmt, held, blocked, gw, back>>
              /\ taken' = [taken EXCEPT ![ord[w]] = @ - toDeduct[w]]
          BY <2>15, <3>1, <4>1 DEF FinalizeRefundFailed, UpdateBalance
        <4>3. taken' = [taken EXCEPT ![ord[w]] = 0]
          <5>1. taken[ord[w]] - toDeduct[w] = 0
            BY <4>1
          <5> QED
            BY <4>2, <5>1
        <4>4. BooksInv' /\ UndoneInv' /\ PendingInv' /\ SettledInv'
          BY <4>1, <4>2, <4>3 DEF SetStatus
        <4>5. PlanInv'
          BY <4>2 DEF Return
        <4>6. AttemptInv'
          <5>1. \A v \in Workers : pc'[v] \in Claimed =>
                  /\ pc'[v] = pc[v] /\ ord'[v] = ord[v] /\ ord[v] # ord[w] /\ ord[v] \in Orders
                  /\ toDeduct'[v] = toDeduct[v]
            BY <4>1, <4>2 DEF Return, OneRefundOwner
          <5>2. \A o \in Orders \ {ord[w]} :
                  /\ taken'[o] = taken[o] /\ gw'[o] = gw[o] /\ blocked'[o] = blocked[o]
            BY <4>1, <4>2, <4>3
          <5> QED
            BY <5>1, <5>2
        <4>7. FinalInv'
          <5>1. \A v \in Workers : version'[v] => version[v] /\ ord[v] # ord[w] /\ v # w
            BY <4>2 DEF SetStatus
          <5>2. \A v \in Workers \ {w} : /\ pc'[v] = pc[v] /\ amt'[v] = amt[v]
                                         /\ toDeduct'[v] = toDeduct[v] /\ ord'[v] = ord[v]
            BY <4>2 DEF Return
          <5>3. \A o \in Orders \ {ord[w]} : status'[o] = status[o]
            BY <4>1, <4>2 DEF SetStatus
          <5> QED
            BY <4>2, <5>1, <5>2, <5>3
        <4> QED
          BY <4>4, <4>5, <4>6, <4>7 DEF MoneyInv
      <3>2. CASE ~SameAttempt(w)
        BY <2>15, <3>2, MoneyReturn DEF FinalizeRefundFailed
      <3> QED
        BY <3>1, <3>2
    <2>16. CASE WriteFails(w)
      BY <2>16, MoneyReturn DEF WriteFails
    <2> QED
      BY <1>1, <2>1, <2>2, <2>3, <2>4, <2>5, <2>6, <2>7, <2>8, <2>9, <2>10, <2>11,
         <2>12, <2>13, <2>14, <2>15, <2>16 DEF Step
  <1>2. ASSUME NEW w \in Workers, Crash(w) PROVE MoneyInv'
    BY <1>2, MoneyReturn DEF Crash
  <1>3. ASSUME NEW w \in Workers, NEW o \in Orders, Call(w, o) PROVE MoneyInv'
    <2>1. CASE RequestRefund(w, o)
      BY <2>1 DEF RequestRefund
    <2>2. CASE PrepareRefund(w, o)
      BY <2>2, AvailableBounds DEF PrepareRefund
    <2>3. CASE QueryAndFinalizeRefund(w, o)
      BY <2>3 DEF QueryAndFinalizeRefund
    <2> QED
      BY <1>3, <2>1, <2>2, <2>3 DEF Call
  <1>4. ASSUME NEW o \in Orders, GatewaySettles(o) PROVE MoneyInv'
    BY <1>4 DEF GatewaySettles, PaidBack
  <1>5. CASE Spend
    BY <1>5 DEF Spend
  <1>6. CASE UNCHANGED vars
    BY <1>6 DEF vars
  <1> QED
    BY <1>1, <1>2, <1>3, <1>4, <1>5, <1>6 DEF Next

\* Types, ownership and money hold together in every reachable state, when
\* markers are not lost.
LEMMA MoneyInvariance ==
  ASSUME NoLostMarker PROVE Spec => [](TypeOK /\ OneRefundOwner /\ MoneyInv)
  BY MoneyInit, MoneyStep, TypeCorrect, OneOwner, PTL DEF Spec

\* An order that may be refunded again was not paid back by an earlier attempt,
\* and that attempt's credit is back with the user, or its marker blocks the
\* order: crashes, rejected and undecided gateway refunds included.
THEOREM UndoneSafe == ASSUME NoLostMarker PROVE Spec => []AbortedRefundIsUndone
  <1>1. TypeOK /\ MoneyInv => AbortedRefundIsUndone
    BY DEF TypeOK, MoneyInv, BooksInv, UndoneInv, Undone, AbortedRefundIsUndone
  <1> QED
    BY <1>1, MoneyInvariance, PTL

\* The audit row of an undecided refund is the deduction of the attempt that is
\* undecided, so that its finalization gives back or keeps what was taken.
THEOREM PendingSafe == ASSUME NoLostMarker PROVE Spec => []PendingHoldsDeduction
  <1>1. MoneyInv => PendingHoldsDeduction
    BY DEF MoneyInv, PendingInv, PendingHoldsDeduction
  <1> QED
    BY <1>1, MoneyInvariance, PTL

\* An order reported as refunded was paid back exactly once, the user paid no
\* more credit than the recorded amount, and full and partial are told apart.
THEOREM SettledSafe == ASSUME NoLostMarker PROVE Spec => []SettledRefundIsPaid
  <1>1. TypeOK /\ MoneyInv => SettledRefundIsPaid
    BY DEF TypeOK, MoneyInv, BooksInv, SettledInv, SettledRefundIsPaid
  <1> QED
    BY <1>1, MoneyInvariance, PTL

-----------------------------------------------------------------------------
(* Refinement of RefundLedger. *)

\* A step that touches neither the user's credit for an order nor the gateway's
\* payments is not seen by the ledger.
LEMMA AccountStutter == UNCHANGED <<taken, back>> => UNCHANGED RefundAccount!account
  BY DEF RefundAccount!account

\* The credit of an order that is untouched is taken at most once, in an amount
\* the order covers.
LEMMA AccountTake ==
  ASSUME TypeOK, NEW o \in Orders, NEW n \in 0..Amount, Deduct(o, n), UNCHANGED back,
         back[o] = 0, taken[o] = 0
  PROVE  [RefundAccount!Next]_(RefundAccount!account)
  <1>1. taken' = [taken EXCEPT ![o] = n]
    <2>1. taken[o] + n = n
      OBVIOUS
    <2> QED
      BY <2>1 DEF Deduct
  <1>2. CASE n = 0
    BY <1>1, <1>2, AccountStutter DEF TypeOK
  <1>3. CASE n \in 1..Amount
    <2>1. RefundAccount!Take(o)
      BY <1>1, <1>3 DEF RefundAccount!Take
    <2> QED
      BY <2>1 DEF RefundAccount!Next
  <1> QED
    BY <1>2, <1>3, RefundAssumption

\* Giving back exactly what was taken from an order that is not paid back.
LEMMA AccountGiveBack ==
  ASSUME TypeOK, NEW o \in Orders, NEW n \in 0..Amount, UpdateBalance(o, n), UNCHANGED back,
         back[o] = 0, taken[o] = n
  PROVE  [RefundAccount!Next]_(RefundAccount!account)
  <1>1. taken' = [taken EXCEPT ![o] = 0]
    <2>1. taken[o] - n = 0
      OBVIOUS
    <2> QED
      BY <2>1 DEF UpdateBalance
  <1>2. CASE n = 0
    BY <1>1, <1>2, AccountStutter DEF TypeOK
  <1>3. CASE n > 0
    <2>1. RefundAccount!GiveBack(o)
      BY <1>1, <1>3 DEF RefundAccount!GiveBack
    <2> QED
      BY <2>1 DEF RefundAccount!Next
  <1> QED
    BY <1>2, <1>3

\* The gateway's first and only payment back.
LEMMA AccountPayBack ==
  ASSUME TypeOK, NEW o \in Orders, PaidBack(o), UNCHANGED taken, back[o] = 0
  PROVE  [RefundAccount!Next]_(RefundAccount!account)
  <1>1. RefundAccount!PayBack(o)
    BY DEF PaidBack, RefundAccount!PayBack, TypeOK
  <1> QED
    BY <1>1 DEF RefundAccount!Next

\* Every step of the refund workflow is a step of the ledger or a stutter.
LEMMA AccountStep ==
  TypeOK /\ MoneyInv /\ [Next]_vars => [RefundAccount!Next]_(RefundAccount!account)
  <1> SUFFICES ASSUME TypeOK, MoneyInv, [Next]_vars
               PROVE  [RefundAccount!Next]_(RefundAccount!account)
    OBVIOUS
  <1> USE DEF orderVars, userVars, gwVars, planVars, bounds, At
  <1>1. ASSUME NEW w \in Workers, Step(w)
        PROVE  [RefundAccount!Next]_(RefundAccount!account)
    <2>0. ord[w] \in Orders /\ toDeduct[w] \in 0..Amount /\ Available(toDeduct[w]) \in 0..Amount
      BY AvailableBounds, RefundAssumption DEF TypeOK
    <2>1. CASE DeductBalance(w)
      <3>1. back[ord[w]] = 0 /\ taken[ord[w]] = 0 /\ UNCHANGED back
        BY <2>0, <2>1 DEF DeductBalance, MoneyInv, AttemptInv, BooksInv
      <3> QED
        BY <2>0, <2>1, <3>1, AccountTake, AccountStutter DEF DeductBalance
    <2>2. CASE GwRefund(w)
      <3>1. back[ord[w]] = 0 /\ UNCHANGED taken
        BY <2>0, <2>2 DEF GwRefund, MoneyInv, AttemptInv, BooksInv
      <3> QED
        BY <2>0, <2>2, <3>1, AccountPayBack, AccountStutter DEF GwRefund
    <2>3. CASE RollbackRefund(w)
      <3>1. back[ord[w]] = 0 /\ taken[ord[w]] = toDeduct[w] /\ UNCHANGED back
        BY <2>0, <2>3 DEF RollbackRefund, MoneyInv, AttemptInv, BooksInv
      <3> QED
        BY <2>0, <2>3, <3>1, AccountGiveBack, AccountStutter DEF RollbackRefund
    <2>4. CASE FinalizeRefundFailed(w) /\ ~WriteFails(w)
      <3>1. CASE SameAttempt(w)
        <4>1. back[ord[w]] = 0 /\ taken[ord[w]] = toDeduct[w] /\ UNCHANGED back
          BY <2>0, <2>4, <3>1
             DEF FinalizeRefundFailed, SameAttempt, MoneyInv, FinalInv, PendingInv, BooksInv
        <4> QED
          BY <2>0, <2>4, <3>1, <4>1, AccountGiveBack DEF FinalizeRefundFailed
      <3> QED
        BY <2>4, <3>1, AccountStutter DEF FinalizeRefundFailed
    <2>5. CASE UNCHANGED <<taken, back>>
      BY <2>5, AccountStutter
    <2> QED
      BY <1>1, <2>1, <2>2, <2>3, <2>4, <2>5
         DEF Step, SubmitRequest, CheckRollback, ClaimRefund, RecheckRollback, RestoreStatus,
             MarkRefundFailed, MarkRefundOk, MarkRefundPending, LatestRefundPendingDetail,
             QueryRefund, FinalizePendingRefundSuccess, WriteFails
  <1>2. ASSUME NEW o \in Orders, GatewaySettles(o)
        PROVE  [RefundAccount!Next]_(RefundAccount!account)
    <2>1. back[o] = 0 /\ UNCHANGED taken
      BY <1>2 DEF GatewaySettles, MoneyInv, BooksInv
    <2> QED
      BY <1>2, <2>1, AccountPayBack, AccountStutter DEF GatewaySettles
  <1>3. CASE UNCHANGED <<taken, back>>
    BY <1>3, AccountStutter
  <1> QED
    BY <1>1, <1>2, <1>3
       DEF Next, Call, Crash, RequestRefund, PrepareRefund, QueryAndFinalizeRefund, Spend, vars

\* The refund workflow implements RefundLedger: credit is taken once, given back
\* only before the gateway paid, and the gateway pays back at most once.
THEOREM RefundRefinement == ASSUME NoLostMarker PROVE Spec => ImplementsRefundLedger
  <1>1. Init => RefundAccount!Init
    BY DEF Init, RefundAccount!Init
  <1> QED
    BY <1>1, MoneyInvariance, AccountStep, PTL
       DEF Spec, ImplementsRefundLedger, RefundAccount!Spec
=============================================================================
