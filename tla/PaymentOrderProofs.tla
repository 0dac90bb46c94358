------------------------- MODULE PaymentOrderProofs -------------------------
(***************************************************************************)
(* Proofs about PaymentOrder, for every set of orders and workers and      *)
(* every bound on the faults.                                              *)
(***************************************************************************)
EXTENDS PaymentOrder, TLAPS

\* The state before any order exists, every worker idle, is well typed.
LEMMA TypeInit == Init => TypeOK
  BY ConstantsAssumption
     DEF Init, TypeOK, Statuses, GatewayStates, CodeStates, PCs, Kinds

\* A write of a legal status keeps the three variables it touches typed.
LEMMA SetStatusType ==
  ASSUME TypeOK, NEW o \in Orders, NEW s \in Statuses, SetStatus(o, s)
  PROVE  /\ status' \in [Orders -> Statuses]
         /\ old' \in [Orders -> BOOLEAN]
         /\ lease' \in [Workers -> BOOLEAN]
  BY DEF TypeOK, SetStatus, Touch

\* No handler, fault or environment step leaves the typed states.
LEMMA TypeStep == TypeOK /\ [Next]_vars => TypeOK'
  <1> SUFFICES ASSUME TypeOK, [Next]_vars PROVE TypeOK'
    OBVIOUS
  <1> USE ConstantsAssumption
  <1> USE DEF TypeOK, Benefits, Outside, PCs, Kinds, FulfillPCs
  <1>1. ASSUME NEW w \in Workers, Step(w) PROVE TypeOK'
    <2>1. CASE InvokeProvider(w)
      BY <2>1 DEF InvokeProvider, Goto, At
    <2>2a. CASE SavePaymentDetails(w)
      BY <2>2a DEF SavePaymentDetails, Return, Touch, At, GatewayStates
    <2>2b. CASE CreateOrderFails(w)
      BY <2>2b DEF CreateOrderFails, Return, Touch, SetStatus, At, Statuses
    <2>2. CASE ToPaid(w)
      <3>1. CASE Return(w, FALSE) /\ UNCHANGED <<status, old, lease, paidAt>>
        BY <2>2, <3>1 DEF ToPaid, Return
      <3>2. CASE SetStatus(ord[w], "PAID") /\ Goto(w, "acquire") /\ UNCHANGED notify
                 /\ paidAt' = [paidAt EXCEPT ![ord[w]] = TRUE]
        BY <2>2, <3>2 DEF ToPaid, Goto, Touch, SetStatus, Statuses
      <3>3. CASE Goto(w, "already") /\ UNCHANGED <<status, old, lease, paidAt, notify>>
        BY <2>2, <3>3 DEF ToPaid, Goto
      <3> QED
        BY <2>2, <3>1, <3>2, <3>3 DEF ToPaid
    <2>3. CASE AlreadyProcessed(w)
      BY <2>3 DEF AlreadyProcessed, Goto, Return, At
    <2>4. CASE AcquireLease(w)
      BY <2>4 DEF AcquireLease, Goto, Return, Touch, SetStatus, At, Statuses
    <2>5. CASE ReloadLease(w)
      BY <2>5 DEF ReloadLease, Goto, Return, At
    <2>6. CASE LookupCode(w)
      BY <2>6 DEF LookupCode, Goto, At
    <2>7. CASE CreateCode(w)
      BY <2>7 DEF CreateCode, Goto, At, CodeStates
    <2>8. CASE LockCode(w)
      BY <2>8 DEF LockCode, Goto, At
    <2>9. CASE RedeemCode(w)
      BY <2>9 DEF RedeemCode, Grant, Fault, Goto, At, CodeStates
    <2>10. CASE AssignSubscription(w)
      BY <2>10 DEF AssignSubscription, Grant, Fault, Goto, At, CodeStates
    <2>11. CASE ApplyAffiliateRebate(w)
      BY <2>11 DEF ApplyAffiliateRebate, Goto, At
    <2>12. CASE MarkCompleted(w)
      <3>1. CASE SetStatus(ord[w], "COMPLETED") /\ Return(w, TRUE)
        <4>1. "COMPLETED" \in Statuses
          BY DEF Statuses, Fulfilled
        <4>2. /\ status' \in [Orders -> Statuses] /\ old' \in [Orders -> BOOLEAN]
              /\ lease' \in [Workers -> BOOLEAN]
          BY <3>1, <4>1, SetStatusType
        <4> QED
          BY <2>12, <3>1, <4>2 DEF MarkCompleted, Return
      <3>2. CASE Return(w, TRUE) /\ DropLease(w) /\ UNCHANGED <<status, old>>
        BY <2>12, <3>2 DEF MarkCompleted, Return, DropLease
      <3>3. CASE Goto(w, "fail") /\ UNCHANGED <<status, old, lease, notify>>
        BY <2>12, <3>3 DEF MarkCompleted, Goto
      <3> QED
        BY <2>12, <3>1, <3>2, <3>3 DEF MarkCompleted
    <2>13. CASE MarkFailed(w)
      BY <2>13 DEF MarkFailed, Return, Touch, SetStatus, DropLease, At, Statuses
    <2>14. CASE QueryOrder(w)
      BY <2>14 DEF QueryOrder, Goto, Return, At
    <2>15. CASE ClosePayment(w)
      BY <2>15 DEF ClosePayment, Goto, At, GatewayStates
    <2>16. CASE CancelCore(w)
      <3>1. CASE /\ status[ord[w]] = "PENDING"
                 /\ SetStatus(ord[w], IF kind[w] = "expire" THEN "EXPIRED" ELSE "CANCELLED")
        BY <2>16, <3>1, SetStatusType DEF CancelCore, Return, Statuses
      <3>2. CASE UNCHANGED <<status, old, lease>>
        BY <2>16, <3>2 DEF CancelCore, Return
      <3> QED
        BY <2>16, <3>1, <3>2 DEF CancelCore
    <2> QED
      BY <1>1, <2>1, <2>2a, <2>2b, <2>2, <2>3, <2>4, <2>5, <2>6, <2>7, <2>8, <2>9, <2>10,
         <2>11, <2>12, <2>13, <2>14, <2>15, <2>16 DEF Step
  <1>2. ASSUME NEW w \in Workers, StepFault(w) PROVE TypeOK'
    <2>1. CASE InvokeProviderFails(w)
      BY <2>1 DEF InvokeProviderFails, Fault, Goto
    <2>2. CASE QueryOrderFails(w)
      BY <2>2 DEF QueryOrderFails, Fault, Goto, Return, At
    <2>3. CASE FulfillmentStepFails(w)
      BY <2>3 DEF FulfillmentStepFails, Fault, Goto
    <2>4. CASE Crash(w)
      BY <2>4 DEF Crash, Fault, Return, DropLease
    <2>5. CASE SwallowedReadError(w)
      BY <2>5 DEF SwallowedReadError, Fault, Return
    <2> QED
      BY <1>2, <2>1, <2>2, <2>3, <2>4, <2>5 DEF StepFault
  <1>3. ASSUME NEW w \in Workers, NEW o \in Orders, Call(w, o) PROVE TypeOK'
    <2>1. CASE CreateOrder(w, o)
      BY <2>1 DEF CreateOrder, Start, SetStatus, Touch, Statuses
    <2>2. CASE HandlePaymentNotification(w, o)
      BY <2>2 DEF HandlePaymentNotification, Start
    <2>3. CASE RetryFulfillment(w, o)
      BY <2>3 DEF RetryFulfillment, Start
    <2>4. CASE CancelOrder(w, o)
      BY <2>4 DEF CancelOrder, Start
    <2>5. CASE ExpireTimedOutOrder(w, o)
      BY <2>5 DEF ExpireTimedOutOrder, Start
    <2>6. CASE VerifyOrder(w, o)
      BY <2>6 DEF VerifyOrder, Start
    <2> QED
      BY <1>3, <2>1, <2>2, <2>3, <2>4, <2>5, <2>6 DEF Call
  <1>4. ASSUME NEW o \in Orders, Environment(o) PROVE TypeOK'
    <2>1. CASE Pay(o)
      BY <2>1 DEF Pay, GatewayStates
    <2>2. CASE Age(o) \/ FallDue(o)
      BY <2>2 DEF Age, FallDue
    <2>3. CASE Refund(o)
      <3>1. PICK s \in Fulfilled : SetStatus(o, s)
        BY <2>3 DEF Refund, Fulfilled, RefundStatuses
      <3>2. s \in Statuses
        BY DEF Statuses
      <3> QED
        BY <2>3, <3>1, <3>2, SetStatusType DEF Refund
    <2>4. CASE AdminDeleteCode(o)
      BY <2>4 DEF AdminDeleteCode, Fault, CodeStates
    <2>5. CASE AdminExpireCode(o)
      BY <2>5 DEF AdminExpireCode, Fault, CodeStates
    <2>6. CASE AdminBatchUpdateCode(o)
      BY <2>6 DEF AdminBatchUpdateCode, Fault, CodeStates
    <2> QED
      BY <1>4, <2>1, <2>2, <2>3, <2>4, <2>5, <2>6 DEF Environment
  <1>5. CASE UNCHANGED vars
    BY <1>5 DEF vars
  <1> QED
    BY <1>1, <1>2, <1>3, <1>4, <1>5 DEF Next

\* Every variable keeps its type under the handlers, the faults and the
\* environment.
THEOREM TypeCorrect == Spec => []TypeOK
  BY TypeInit, TypeStep, PTL DEF Spec

-----------------------------------------------------------------------------
(* The inductive invariant. *)

\* Steps of CreateOrder after the row exists.
CreatePCs == {"invoke", "save", "createFail"}
\* Steps reached only after the gateway confirmed the exact payment.
ConfirmedPCs == {"already", "acquire", "reload"} \cup FulfillPCs
\* Steps reached only once the order has left the unpaid statuses.
LeftPCs == {"acquire", "reload"} \cup FulfillPCs
UnpaidStatuses == {"NONE", "PENDING", "EXPIRED", "CANCELLED"}

\* A used code, or an assignment marker, means that the benefit was granted.
UsedInv == \A o \in Orders : code[o] = "used" => credited[o] > 0

\* Whatever rests on a payment rests on an exact one.
PaidInv ==
    /\ \A w \in Workers : pc[w] \in ConfirmedPCs => gateway[ord[w]] = "paid"
    /\ \A o \in Orders : paidAt[o] \/ credited[o] > 0 => gateway[o] = "paid"

\* The customer cannot pay before CreateOrder returned, and one worker creates.
CreateInv ==
    /\ \A w \in Workers : pc[w] \in CreatePCs =>
          /\ gateway[ord[w]] \in {"none", "closed"}
          /\ status[ord[w]] \notin {"NONE", "FAILED"}
    /\ \A o \in Orders : status[o] = "NONE" => gateway[o] \in {"none", "closed"}
    /\ \A w, v \in Workers :
          pc[w] \in CreatePCs /\ pc[v] \in CreatePCs /\ ord[w] = ord[v] => w = v

\* Paid-up statuses have paid_at; FAILED lacks it only if nobody can pay.
StatusInv ==
    /\ \A o \in Orders : status[o] \notin UnpaidStatuses \cup {"FAILED"} => paidAt[o]
    /\ \A o \in Orders : status[o] = "FAILED" =>
          paidAt[o] \/ gateway[o] \in {"none", "closed"}

\* Fulfillment runs, and benefits exist, only outside the unpaid statuses.
LeftInv ==
    /\ \A w \in Workers : pc[w] \in LeftPCs => status[ord[w]] \notin UnpaidStatuses
    /\ \A o \in Orders : credited[o] > 0 => status[o] \notin UnpaidStatuses

\* The rebate comes after the benefit, completion after both.
OrderInv ==
    /\ \A o \in Orders : rebate[o] <= credited[o]
    /\ \A w \in Workers : pc[w] \in {"rebate", "complete"} => credited[ord[w]] > 0
    /\ \A w \in Workers : pc[w] = "complete" => rebate[ord[w]] > 0
    /\ \A o \in Orders : status[o] \in Fulfilled => credited[o] > 0 /\ rebate[o] > 0

\* Subscription orders use the assignment marker, never a redeem code.
MarkerInv ==
    /\ \A o \in subscriptions : code[o] \in {"absent", "used"}
    /\ \A w \in Workers : pc[w] = "assign" => ord[w] \in subscriptions
    /\ \A w \in Workers : pc[w] \in {"lookup", "create"} => ord[w] \notin subscriptions

IInv == UsedInv /\ PaidInv /\ CreateInv /\ StatusInv /\ LeftInv /\ OrderInv /\ MarkerInv

\* The state before any order exists satisfies the inductive invariant.
LEMMA InvInit == Init => IInv
  BY ConstantsAssumption DEF Init, IInv, UsedInv, PaidInv, CreateInv, StatusInv, LeftInv, OrderInv,
     MarkerInv, CreatePCs, ConfirmedPCs, LeftPCs, FulfillPCs, UnpaidStatuses, Fulfilled, RefundStatuses

\* Every step of a handler, every crash between two of its writes and every
\* administrator's work on redeem codes keeps the inductive invariant.
LEMMA InvStep == TypeOK /\ IInv /\ [Next]_vars => IInv'
  <1> SUFFICES ASSUME TypeOK, IInv, [Next]_vars PROVE IInv'
    OBVIOUS
  <1> USE ConstantsAssumption
  <1> USE DEF TypeOK, Benefits, Outside, IInv, UsedInv, PaidInv, CreateInv, StatusInv,
      LeftInv, OrderInv, MarkerInv, CreatePCs, ConfirmedPCs, LeftPCs, FulfillPCs, UnpaidStatuses,
      Fulfilled, RefundStatuses
  <1>1. ASSUME NEW w \in Workers, Step(w) PROVE IInv'
    <2>1. CASE InvokeProvider(w)
      BY <2>1 DEF InvokeProvider, Goto, At
    <2>2. CASE SavePaymentDetails(w)
      BY <2>2 DEF SavePaymentDetails, Return, Touch, At
    <2>3. CASE CreateOrderFails(w)
      BY <2>3 DEF CreateOrderFails, SetStatus, Return, Touch, At
    <2>4. CASE ToPaid(w)
      <3>1. CASE Return(w, FALSE) /\ UNCHANGED <<status, old, lease, paidAt>>
        BY <2>4, <3>1 DEF ToPaid, Return
      <3>2. CASE /\ gateway[ord[w]] = "paid" /\ Payable(ord[w])
                 /\ SetStatus(ord[w], "PAID") /\ Goto(w, "acquire")
                 /\ paidAt' = [paidAt EXCEPT ![ord[w]] = TRUE]
        <4>1. UsedInv'
          BY <2>4, <3>2 DEF ToPaid, Payable, SetStatus, Goto
        <4>2. PaidInv'
          BY <2>4, <3>2 DEF ToPaid, Payable, SetStatus, Goto
        <4>3. CreateInv'
          BY <2>4, <3>2 DEF ToPaid, Payable, SetStatus, Goto
        <4>4. StatusInv'
          BY <2>4, <3>2 DEF ToPaid, Payable, SetStatus, Goto
        <4>5. LeftInv'
          BY <2>4, <3>2 DEF ToPaid, Payable, SetStatus, Goto
        <4>6. OrderInv'
          BY <2>4, <3>2 DEF ToPaid, Payable, SetStatus, Goto
        <4>7. MarkerInv'
          BY <2>4, <3>2 DEF ToPaid, Payable, SetStatus, Goto
        <4> QED
          BY <4>1, <4>2, <4>3, <4>4, <4>5, <4>6, <4>7
      <3>3. CASE gateway[ord[w]] = "paid" /\ Goto(w, "already")
                 /\ UNCHANGED <<status, old, lease, paidAt, notify>>
        BY <2>4, <3>3 DEF ToPaid, Goto
      <3> QED
        BY <2>4, <3>1, <3>2, <3>3 DEF ToPaid
    <2>5. CASE AlreadyProcessed(w)
      BY <2>5 DEF AlreadyProcessed, Goto, Return, At
    <2>6. CASE AcquireLease(w)
      <3>1. CASE Leasable(ord[w]) /\ SetStatus(ord[w], "RECHARGING") /\ Goto(w, "reload")
        <4>1. UsedInv'
          BY <2>6, <3>1 DEF AcquireLease, Leasable, SetStatus, Goto, At
        <4>2. PaidInv'
          BY <2>6, <3>1 DEF AcquireLease, Leasable, SetStatus, Goto, At
        <4>3. CreateInv'
          BY <2>6, <3>1 DEF AcquireLease, Leasable, SetStatus, Goto, At
        <4>4. StatusInv'
          BY <2>6, <3>1 DEF AcquireLease, Leasable, SetStatus, Goto, At
        <4>5. LeftInv'
          BY <2>6, <3>1 DEF AcquireLease, Leasable, SetStatus, Goto, At
        <4>6. OrderInv'
          BY <2>6, <3>1 DEF AcquireLease, Leasable, SetStatus, Goto, At
        <4>7. MarkerInv'
          BY <2>6, <3>1 DEF AcquireLease, Leasable, SetStatus, Goto, At
        <4> QED
          BY <4>1, <4>2, <4>3, <4>4, <4>5, <4>6, <4>7
      <3>2. CASE Return(w, status[ord[w]] = "COMPLETED") /\ UNCHANGED <<status, old, lease>>
        BY <2>6, <3>2 DEF AcquireLease, Return
      <3> QED
        BY <2>6, <3>1, <3>2 DEF AcquireLease
    <2>7. CASE ReloadLease(w)
      BY <2>7 DEF ReloadLease, Goto, Return, At
    <2>8. CASE LookupCode(w)
      BY <2>8 DEF LookupCode, Goto, At
    <2>9. CASE CreateCode(w)
      <3>1. CASE code[ord[w]] = "absent" /\ Goto(w, "redeem")
                 /\ code' = [code EXCEPT ![ord[w]] = "unused"]
        <4>1. UsedInv'
          BY <2>9, <3>1 DEF CreateCode, Goto, At
        <4>2. PaidInv'
          BY <2>9, <3>1 DEF CreateCode, Goto, At
        <4>3. CreateInv'
          BY <2>9, <3>1 DEF CreateCode, Goto, At
        <4>4. StatusInv'
          BY <2>9, <3>1 DEF CreateCode, Goto, At
        <4>5. LeftInv'
          BY <2>9, <3>1 DEF CreateCode, Goto, At
        <4>6. OrderInv'
          BY <2>9, <3>1 DEF CreateCode, Goto, At
        <4>7. MarkerInv'
          BY <2>9, <3>1 DEF CreateCode, Goto, At
        <4> QED
          BY <4>1, <4>2, <4>3, <4>4, <4>5, <4>6, <4>7
      <3>2. CASE Goto(w, "fail") /\ UNCHANGED code
        BY <2>9, <3>2 DEF CreateCode, Goto, At
      <3> QED
        BY <2>9, <3>1, <3>2 DEF CreateCode
    <2>10. CASE LockCode(w)
      BY <2>10 DEF LockCode, Goto, At
    <2>11. CASE RedeemCode(w)
      <3>1. CASE code[ord[w]] = "unused" /\ Grant(w, ord[w])
        <4>1. UsedInv'
          BY <2>11, <3>1 DEF RedeemCode, Grant, Goto, At
        <4>2. PaidInv'
          BY <2>11, <3>1 DEF RedeemCode, Grant, Goto, At
        <4>3. CreateInv'
          BY <2>11, <3>1 DEF RedeemCode, Grant, Goto, At
        <4>4. StatusInv'
          BY <2>11, <3>1 DEF RedeemCode, Grant, Goto, At
        <4>5. LeftInv'
          BY <2>11, <3>1 DEF RedeemCode, Grant, Goto, At
        <4>6. OrderInv'
          BY <2>11, <3>1 DEF RedeemCode, Grant, Goto, At
        <4>7. MarkerInv'
          BY <2>11, <3>1 DEF RedeemCode, Grant, Goto, At
        <4> QED
          BY <4>1, <4>2, <4>3, <4>4, <4>5, <4>6, <4>7
      <3>2. CASE Goto(w, "fail") /\ UNCHANGED <<code, credited, faults>>
        BY <2>11, <3>2 DEF RedeemCode, Goto, At
      <3> QED
        BY <2>11, <3>1, <3>2 DEF RedeemCode
    <2>12. CASE AssignSubscription(w)
      <3>1. CASE code[ord[w]] = "absent" /\ Grant(w, ord[w])
        <4>1. UsedInv'
          BY <2>12, <3>1 DEF AssignSubscription, Grant, Goto, At
        <4>2. PaidInv'
          BY <2>12, <3>1 DEF AssignSubscription, Grant, Goto, At
        <4>3. CreateInv'
          BY <2>12, <3>1 DEF AssignSubscription, Grant, Goto, At
        <4>4. StatusInv'
          BY <2>12, <3>1 DEF AssignSubscription, Grant, Goto, At
        <4>5. LeftInv'
          BY <2>12, <3>1 DEF AssignSubscription, Grant, Goto, At
        <4>6. OrderInv'
          BY <2>12, <3>1 DEF AssignSubscription, Grant, Goto, At
        <4>7. MarkerInv'
          BY <2>12, <3>1 DEF AssignSubscription, Grant, Goto, At
        <4> QED
          BY <4>1, <4>2, <4>3, <4>4, <4>5, <4>6, <4>7
      <3>2. CASE /\ code[ord[w]] # "absent"
                 /\ Goto(w, "rebate") /\ UNCHANGED <<code, credited, faults>>
        BY <2>12, <3>2 DEF AssignSubscription, Goto, At
      <3> QED
        BY <2>12, <3>1, <3>2 DEF AssignSubscription
    <2>13. CASE ApplyAffiliateRebate(w)
      BY <2>13 DEF ApplyAffiliateRebate, Goto, At
    <2>14. CASE MarkCompleted(w)
      <3>1. UsedInv'
        BY <2>14 DEF MarkCompleted, LeaseHeld, SetStatus, Goto, Return, Touch, DropLease, At
      <3>2. PaidInv'
        BY <2>14 DEF MarkCompleted, LeaseHeld, SetStatus, Goto, Return, Touch, DropLease, At
      <3>3. CreateInv'
        BY <2>14 DEF MarkCompleted, LeaseHeld, SetStatus, Goto, Return, Touch, DropLease, At
      <3>4. StatusInv'
        BY <2>14 DEF MarkCompleted, LeaseHeld, SetStatus, Goto, Return, Touch, DropLease, At
      <3>5. LeftInv'
        BY <2>14 DEF MarkCompleted, LeaseHeld, SetStatus, Goto, Return, Touch, DropLease, At
      <3>6. OrderInv'
        BY <2>14 DEF MarkCompleted, LeaseHeld, SetStatus, Goto, Return, Touch, DropLease, At
      <3>7. MarkerInv'
        BY <2>14 DEF MarkCompleted, LeaseHeld, SetStatus, Goto, Return, Touch, DropLease, At
      <3> QED
        BY <3>1, <3>2, <3>3, <3>4, <3>5, <3>6, <3>7
    <2>15. CASE MarkFailed(w)
      <3>1. UsedInv'
        BY <2>15 DEF MarkFailed, LeaseHeld, SetStatus, Return, Touch, DropLease, At
      <3>2. PaidInv'
        BY <2>15 DEF MarkFailed, LeaseHeld, SetStatus, Return, Touch, DropLease, At
      <3>3. CreateInv'
        BY <2>15 DEF MarkFailed, LeaseHeld, SetStatus, Return, Touch, DropLease, At
      <3>4. StatusInv'
        BY <2>15 DEF MarkFailed, LeaseHeld, SetStatus, Return, Touch, DropLease, At
      <3>5. LeftInv'
        BY <2>15 DEF MarkFailed, LeaseHeld, SetStatus, Return, Touch, DropLease, At
      <3>6. OrderInv'
        BY <2>15 DEF MarkFailed, LeaseHeld, SetStatus, Return, Touch, DropLease, At
      <3>7. MarkerInv'
        BY <2>15 DEF MarkFailed, LeaseHeld, SetStatus, Return, Touch, DropLease, At
      <3> QED
        BY <3>1, <3>2, <3>3, <3>4, <3>5, <3>6, <3>7
    <2>16. CASE QueryOrder(w)
      BY <2>16 DEF QueryOrder, Goto, Return, At
    <2>17. CASE ClosePayment(w)
      <3>1. UsedInv'
        BY <2>17 DEF ClosePayment, Goto, At
      <3>2. PaidInv'
        BY <2>17 DEF ClosePayment, Goto, At
      <3>3. CreateInv'
        BY <2>17 DEF ClosePayment, Goto, At
      <3>4. StatusInv'
        BY <2>17 DEF ClosePayment, Goto, At
      <3>5. LeftInv'
        BY <2>17 DEF ClosePayment, Goto, At
      <3>6. OrderInv'
        BY <2>17 DEF ClosePayment, Goto, At
      <3>7. MarkerInv'
        BY <2>17 DEF ClosePayment, Goto, At
      <3> QED
        BY <3>1, <3>2, <3>3, <3>4, <3>5, <3>6, <3>7
    <2>18. CASE CancelCore(w)
      <3>1. UsedInv'
        BY <2>18 DEF CancelCore, SetStatus, Return, Touch, At
      <3>2. PaidInv'
        BY <2>18 DEF CancelCore, SetStatus, Return, Touch, At
      <3>3. CreateInv'
        BY <2>18 DEF CancelCore, SetStatus, Return, Touch, At
      <3>4. StatusInv'
        BY <2>18 DEF CancelCore, SetStatus, Return, Touch, At
      <3>5. LeftInv'
        BY <2>18 DEF CancelCore, SetStatus, Return, Touch, At
      <3>6. OrderInv'
        BY <2>18 DEF CancelCore, SetStatus, Return, Touch, At
      <3>7. MarkerInv'
        BY <2>18 DEF CancelCore, SetStatus, Return, Touch, At
      <3> QED
        BY <3>1, <3>2, <3>3, <3>4, <3>5, <3>6, <3>7
    <2> QED
      BY <1>1, <2>1, <2>2, <2>3, <2>4, <2>5, <2>6, <2>7, <2>8, <2>9, <2>10, <2>11, <2>12, <2>13, <2>14, <2>15, <2>16, <2>17, <2>18 DEF Step
  <1>2. ASSUME NEW w \in Workers, StepFault(w) PROVE IInv'
    <2>1. CASE InvokeProviderFails(w)
      BY <2>1 DEF InvokeProviderFails, Fault, Goto
    <2>2. CASE QueryOrderFails(w)
      BY <2>2 DEF QueryOrderFails, Fault, Goto, Return, At
    <2>3. CASE FulfillmentStepFails(w)
      BY <2>3 DEF FulfillmentStepFails, Fault, Goto
    <2>4. CASE Crash(w)
      BY <2>4 DEF Crash, Fault, Return, DropLease
    <2>5. CASE SwallowedReadError(w)
      BY <2>5 DEF SwallowedReadError, Fault, Return
    <2> QED
      BY <1>2, <2>1, <2>2, <2>3, <2>4, <2>5 DEF StepFault
  <1>3. ASSUME NEW w \in Workers, NEW o \in Orders, Call(w, o) PROVE IInv'
    <2>1. CASE CreateOrder(w, o)
      BY <2>1 DEF CreateOrder, Start, SetStatus, Touch
    <2>2. CASE HandlePaymentNotification(w, o)
      BY <2>2 DEF HandlePaymentNotification, Start
    <2>3. CASE RetryFulfillment(w, o)
      BY <2>3 DEF RetryFulfillment, Start
    <2>4. CASE CancelOrder(w, o)
      BY <2>4 DEF CancelOrder, Start
    <2>5. CASE ExpireTimedOutOrder(w, o)
      BY <2>5 DEF ExpireTimedOutOrder, Start
    <2>6. CASE VerifyOrder(w, o)
      BY <2>6 DEF VerifyOrder, Start
    <2> QED
      BY <1>3, <2>1, <2>2, <2>3, <2>4, <2>5, <2>6 DEF Call
  <1>4. ASSUME NEW o \in Orders, Environment(o) PROVE IInv'
    <2>1. CASE Pay(o)
      BY <2>1 DEF Pay
    <2>2. CASE Age(o)
      BY <2>2 DEF Age
    <2>3. CASE FallDue(o)
      BY <2>3 DEF FallDue
    <2>4. CASE Refund(o)
      BY <2>4 DEF Refund, SetStatus, Touch, Fulfilled, RefundStatuses
    <2>5. CASE AdminDeleteCode(o)
      BY <2>5 DEF AdminDeleteCode, Fault
    <2>6. CASE AdminExpireCode(o)
      BY <2>6 DEF AdminExpireCode, Fault
    <2>7. CASE AdminBatchUpdateCode(o)
      BY <2>7 DEF AdminBatchUpdateCode, Fault
    <2> QED
      BY <1>4, <2>1, <2>2, <2>3, <2>4, <2>5, <2>6, <2>7 DEF Environment
  <1>5. CASE UNCHANGED vars
    BY <1>5 DEF vars
  <1> QED
    BY <1>1, <1>2, <1>3, <1>4, <1>5 DEF Next

\* The typed inductive invariant holds throughout every behaviour; the safety
\* theorems below are its consequences.
LEMMA Invariance == Spec => [](TypeOK /\ IInv)
  BY TypeInit, TypeStep, InvInit, InvStep, PTL DEF Spec

-----------------------------------------------------------------------------
(* What follows from it. *)

\* A benefit is granted only for an order the gateway was paid exactly.
THEOREM CreditPaid == Spec => []CreditedOnlyIfPaid
  <1>1. IInv => CreditedOnlyIfPaid
    BY DEF IInv, PaidInv, CreditedOnlyIfPaid
  <1> QED
    BY <1>1, Invariance, PTL

\* The rebate never outruns the benefit.
THEOREM RebateSafe == Spec => []RebateFollowsCredit
  <1>1. IInv => RebateFollowsCredit
    BY DEF IInv, OrderInv, RebateFollowsCredit
  <1> QED
    BY <1>1, Invariance, PTL

\* COMPLETED means credited, rebated and paid.
THEOREM CompletedSafe == Spec => []CompletedIsCredited
  <1>1. IInv => CompletedIsCredited
    BY DEF IInv, OrderInv, StatusInv, UnpaidStatuses, Fulfilled, RefundStatuses,
       CompletedIsCredited
  <1> QED
    BY <1>1, Invariance, PTL

\* Cancelled and expired orders were never credited.
THEOREM AbandonedSafe == Spec => []AbandonedIsUncredited
  <1>1. TypeOK /\ IInv => AbandonedIsUncredited
    BY DEF TypeOK, IInv, LeftInv, UnpaidStatuses, AbandonedIsUncredited
  <1> QED
    BY <1>1, Invariance, PTL

\* No step takes an order out of COMPLETED or the refund workflow.
THEOREM FulfilledStays == Spec => FulfilledIsFinal
  <1> DEFINE Stays == \A o \in Orders : status[o] \in Fulfilled => status'[o] \in Fulfilled
  <1>1. TypeOK /\ IInv /\ [Next]_vars => [Stays]_vars
    <2> SUFFICES ASSUME TypeOK, IInv, Next PROVE Stays
      OBVIOUS
    <2> USE DEF TypeOK, Fulfilled, RefundStatuses, SetStatus
    <2>1. ASSUME NEW w \in Workers, Step(w) PROVE Stays
      <3>1. CASE CreateOrderFails(w)
        <4>1. status[ord[w]] \notin Fulfilled
          BY <3>1 DEF CreateOrderFails, At, IInv, CreateInv, StatusInv, PaidInv,
             CreatePCs, UnpaidStatuses
        <4> QED
          BY <3>1, <4>1 DEF CreateOrderFails
      <3>2. CASE ToPaid(w)
        BY <3>2 DEF ToPaid, Payable
      <3>3. CASE AcquireLease(w)
        BY <3>3 DEF AcquireLease, Leasable
      <3>4. CASE MarkCompleted(w) \/ MarkFailed(w)
        BY <3>4 DEF MarkCompleted, MarkFailed, LeaseHeld
      <3>5. CASE CancelCore(w)
        BY <3>5 DEF CancelCore
      <3>6. CASE UNCHANGED status
        BY <3>6
      <3> QED
        BY <2>1, <3>1, <3>2, <3>3, <3>4, <3>5, <3>6
           DEF Step, InvokeProvider, SavePaymentDetails, AlreadyProcessed, ReloadLease,
               LookupCode, CreateCode, LockCode, RedeemCode, AssignSubscription,
               ApplyAffiliateRebate, QueryOrder, ClosePayment
    <2>2. ASSUME NEW w \in Workers, StepFault(w) PROVE Stays
      BY <2>2 DEF StepFault, InvokeProviderFails, QueryOrderFails,
         FulfillmentStepFails, Crash, SwallowedReadError
    <2>3. ASSUME NEW w \in Workers, NEW o \in Orders, Call(w, o) PROVE Stays
      BY <2>3 DEF Call, CreateOrder, HandlePaymentNotification, RetryFulfillment,
         CancelOrder, ExpireTimedOutOrder, VerifyOrder
    <2>4. ASSUME NEW o \in Orders, Environment(o) PROVE Stays
      BY <2>4 DEF Environment, Pay, Age, FallDue, Refund, AdminDeleteCode,
         AdminExpireCode, AdminBatchUpdateCode
    <2> QED
      BY <2>1, <2>2, <2>3, <2>4 DEF Next
  <1> QED
    BY <1>1, Invariance, PTL DEF Spec, FulfilledIsFinal

-----------------------------------------------------------------------------
(* Granted once: the codes and markers nobody tampers with. *)

\* Administrators leave redeem codes alone.
NoCodeAdmin == FaultKinds \cap {"delete", "edit"} = {}

\* Orders whose code or marker only fulfillment writes: no administrator's
\* operation reaches the assignment marker of a subscription order.
Guarded == IF NoCodeAdmin THEN Orders ELSE subscriptions

\* The benefit was granted exactly if the code, or the assignment marker, says so.
CodeInv == \A o \in Guarded : credited[o] = IF code[o] = "used" THEN 1 ELSE 0

\* The type of an order never changes.
LEMMA TypesFixed == [Next]_vars => UNCHANGED subscriptions
  <1> USE DEF Outside
  <1>1. ASSUME NEW w \in Workers, Step(w) \/ StepFault(w) PROVE UNCHANGED subscriptions
    BY <1>1 DEF Step, InvokeProvider, SavePaymentDetails, CreateOrderFails, ToPaid,
       AlreadyProcessed, AcquireLease, ReloadLease, LookupCode, CreateCode, LockCode,
       RedeemCode, AssignSubscription, ApplyAffiliateRebate, MarkCompleted, MarkFailed,
       QueryOrder, ClosePayment, CancelCore, StepFault, InvokeProviderFails,
       QueryOrderFails, FulfillmentStepFails, Crash, SwallowedReadError
  <1>2. ASSUME NEW w \in Workers, NEW o \in Orders, Call(w, o) PROVE UNCHANGED subscriptions
    BY <1>2 DEF Call, CreateOrder, HandlePaymentNotification, RetryFulfillment,
       CancelOrder, ExpireTimedOutOrder, VerifyOrder
  <1>3. ASSUME NEW o \in Orders, Environment(o) PROVE UNCHANGED subscriptions
    BY <1>3 DEF Environment, Pay, Age, FallDue, Refund, AdminDeleteCode, AdminExpireCode,
       AdminBatchUpdateCode
  <1> QED
    BY <1>1, <1>2, <1>3 DEF Next, vars

\* A code goes from unused to used, and a marker from absent to used, in the
\* transaction that grants the benefit; nothing else touches used ones.
LEMMA CodeStep == TypeOK /\ CodeInv /\ [Next]_vars => CodeInv'
  <1> SUFFICES ASSUME TypeOK, CodeInv, [Next]_vars PROVE CodeInv'
    OBVIOUS
  <1>0. /\ Guarded \subseteq Orders /\ (NoCodeAdmin \/ Guarded = subscriptions)
        /\ Guarded' = Guarded
    BY TypesFixed DEF Guarded, TypeOK
  <1> USE <1>0 DEF TypeOK, CodeInv, Benefits
  <1>1. ASSUME NEW w \in Workers, Step(w) PROVE CodeInv'
    <2>1. CASE CreateCode(w)
      BY <2>1 DEF CreateCode
    <2>2. CASE RedeemCode(w)
      BY <2>2 DEF RedeemCode, Grant
    <2>3. CASE AssignSubscription(w)
      BY <2>3 DEF AssignSubscription, Grant
    <2>4. CASE UNCHANGED <<code, credited>>
      BY <2>4
    <2> QED
      BY <1>1, <2>1, <2>2, <2>3, <2>4
         DEF Step, InvokeProvider, SavePaymentDetails, CreateOrderFails, ToPaid,
             AlreadyProcessed, AcquireLease, ReloadLease, LookupCode, LockCode,
             ApplyAffiliateRebate, MarkCompleted, MarkFailed, QueryOrder, ClosePayment, CancelCore
  <1>2. ASSUME NEW w \in Workers, StepFault(w) PROVE CodeInv'
    BY <1>2 DEF StepFault, InvokeProviderFails, QueryOrderFails,
       FulfillmentStepFails, Crash, SwallowedReadError
  <1>3. ASSUME NEW w \in Workers, NEW o \in Orders, Call(w, o) PROVE CodeInv'
    BY <1>3 DEF Call, CreateOrder, HandlePaymentNotification, RetryFulfillment,
       CancelOrder, ExpireTimedOutOrder, VerifyOrder
  <1>4. ASSUME NEW o \in Orders, Environment(o) PROVE CodeInv'
    <2>1. CASE UNCHANGED <<code, credited>>
      BY <2>1
    <2>2. CASE AdminDeleteCode(o)
      BY <2>2 DEF AdminDeleteCode, Fault, NoCodeAdmin
    <2>3. CASE AdminExpireCode(o)
      BY <2>3 DEF AdminExpireCode, Fault, NoCodeAdmin
    <2>4. CASE AdminBatchUpdateCode(o)
      BY <2>4 DEF AdminBatchUpdateCode, Fault, NoCodeAdmin
    <2> QED
      BY <1>4, <2>1, <2>2, <2>3, <2>4 DEF Environment, Pay, Age, FallDue, Refund
  <1>5. CASE UNCHANGED vars
    BY <1>5 DEF vars
  <1> QED
    BY <1>1, <1>2, <1>3, <1>4, <1>5 DEF Next

\* Both invariants hold throughout.
LEMMA CodeInvariance == Spec => [](TypeOK /\ IInv /\ CodeInv)
  <1>1. Init => CodeInv
    <2> SUFFICES ASSUME Init, NEW o \in Guarded
                 PROVE  credited[o] = IF code[o] = "used" THEN 1 ELSE 0
      BY DEF CodeInv
    <2>1. credited[o] = 0 /\ code[o] = "absent"
      BY DEF Init, Guarded
    <2> QED
      BY <2>1
  <1>2. TypeOK /\ IInv /\ CodeInv /\ [Next]_vars => (TypeOK /\ IInv /\ CodeInv)'
    BY TypeStep, InvStep, CodeStep
  <1> QED
    BY <1>1, <1>2, TypeInit, InvInit, PTL DEF Spec

\* One code, one benefit.
LEMMA OnceEach == ASSUME CodeInv, NEW o \in Guarded PROVE credited[o] <= 1
  <1>1. CASE code[o] = "used"
    <2>1. credited[o] = 1
      BY <1>1 DEF CodeInv
    <2> QED
      BY <2>1
  <1>2. CASE code[o] # "used"
    <2>1. credited[o] = 0
      BY <1>2 DEF CodeInv
    <2> QED
      BY <2>1
  <1> QED
    BY <1>1, <1>2

\* While administrators leave redeem codes alone, no interleaving of webhooks,
\* verifications, retries, lease take-overs and crashes grants an order's
\* benefit twice.
THEOREM CreditOnce == ASSUME NoCodeAdmin PROVE Spec => []CreditedAtMostOnce
  <1>1. CodeInv => CreditedAtMostOnce
    <2> SUFFICES ASSUME CodeInv, NEW o \in Orders
                 PROVE  credited[o] <= 1
      BY DEF CreditedAtMostOnce
    <2>1. o \in Guarded
      BY DEF Guarded
    <2> QED
      BY <2>1, OnceEach
  <1> QED
    BY <1>1, CodeInvariance, PTL

\* A subscription order's benefit is granted at most once whatever is done to
\* redeem codes: its assignment marker is an audit row nobody deletes.
THEOREM SubscriptionOnce == Spec => [](\A o \in subscriptions : credited[o] <= 1)
  <1>1. TypeOK /\ CodeInv => \A o \in subscriptions : credited[o] <= 1
    <2> SUFFICES ASSUME TypeOK, CodeInv, NEW o \in subscriptions
                 PROVE  credited[o] <= 1
      OBVIOUS
    <2>1. o \in Guarded
      BY DEF Guarded, TypeOK
    <2> QED
      BY <2>1, OnceEach
  <1> QED
    BY <1>1, CodeInvariance, PTL

-----------------------------------------------------------------------------
(* PaymentOrder implements PaymentLedger. *)

\* An action that leaves payment, benefit and rebate alone is a stutter.
LEMMA LedgerStutter == UNCHANGED <<gateway, credited, rebate>> => UNCHANGED Ledger!ledger
  BY DEF Ledger!ledger

\* Every step of the order workflow is a step of the ledger or a stutter.
LEMMA LedgerStep ==
  ASSUME NoCodeAdmin
  PROVE  TypeOK /\ IInv /\ CodeInv /\ [Next]_vars => [Ledger!Next]_(Ledger!ledger)
  <1> SUFFICES ASSUME TypeOK, IInv, CodeInv, [Next]_vars PROVE [Ledger!Next]_(Ledger!ledger)
    OBVIOUS
  <1>0. \A o \in Orders : credited[o] = IF code[o] = "used" THEN 1 ELSE 0
    BY DEF CodeInv, Guarded
  <1> DEFINE paid == {o \in Orders : gateway[o] = "paid"}
  <1> USE DEF TypeOK, Benefits, Outside
  <1>1. ASSUME NEW w \in Workers, Grant(w, ord[w]), pc[w] \in ConfirmedPCs,
               code[ord[w]] # "used", UNCHANGED <<gateway, rebate>>
        PROVE  Ledger!Next
    <2>1. ord[w] \in paid /\ credited[ord[w]] = 0
      BY <1>0, <1>1 DEF IInv, PaidInv
    <2>2. credited' = [credited EXCEPT ![ord[w]] = 1]
      BY <1>1, <2>1 DEF Grant
    <2>3. UNCHANGED <<paid, rebate>>
      BY <1>1
    <2>4. Ledger!Grant(ord[w])
      BY <2>1, <2>2, <2>3 DEF Ledger!Grant
    <2> QED
      BY <2>4 DEF Ledger!Next
  <1>2. ASSUME NEW w \in Workers, Step(w) PROVE [Ledger!Next]_(Ledger!ledger)
    <2>1. CASE RedeemCode(w)
      <3>1. CASE code[ord[w]] = "unused" /\ Grant(w, ord[w])
        BY <2>1, <3>1, <1>1 DEF RedeemCode, At, ConfirmedPCs, FulfillPCs
      <3> QED
        BY <2>1, <3>1, LedgerStutter DEF RedeemCode
    <2>2. CASE AssignSubscription(w)
      <3>1. CASE code[ord[w]] = "absent" /\ Grant(w, ord[w])
        BY <2>2, <3>1, <1>1 DEF AssignSubscription, At, ConfirmedPCs, FulfillPCs
      <3> QED
        BY <2>2, <3>1, LedgerStutter DEF AssignSubscription
    <2>3. CASE ApplyAffiliateRebate(w)
      <3>1. CASE rebate[ord[w]] = 0
        <4>1. credited[ord[w]] = 1
          BY <1>0, <2>3 DEF ApplyAffiliateRebate, At, IInv, OrderInv
        <4>2. UNCHANGED <<paid, credited>>
          BY <2>3 DEF ApplyAffiliateRebate
        <4>3. rebate' = [rebate EXCEPT ![ord[w]] = 1]
          BY <2>3, <3>1 DEF ApplyAffiliateRebate
        <4>4. Ledger!Rebate(ord[w])
          BY <3>1, <4>1, <4>2, <4>3 DEF Ledger!Rebate
        <4> QED
          BY <4>4 DEF Ledger!Next
      <3>2. CASE rebate[ord[w]] # 0
        BY <2>3, <3>2, LedgerStutter DEF ApplyAffiliateRebate
      <3> QED
        BY <3>1, <3>2
    <2>4. CASE SavePaymentDetails(w)
      <3>1. UNCHANGED <<paid, credited, rebate>>
        BY <2>4 DEF SavePaymentDetails, GatewayStates
      <3> QED
        BY <3>1 DEF Ledger!ledger
    <2>5. CASE ClosePayment(w)
      <3>1. UNCHANGED <<paid, credited, rebate>>
        BY <2>5 DEF ClosePayment, GatewayStates
      <3> QED
        BY <3>1 DEF Ledger!ledger
    <2>6. CASE UNCHANGED <<gateway, credited, rebate>>
      BY <2>6, LedgerStutter
    <2> QED
      BY <1>2, <2>1, <2>2, <2>3, <2>4, <2>5, <2>6
         DEF Step, InvokeProvider, CreateOrderFails, ToPaid, AlreadyProcessed,
             AcquireLease, ReloadLease, LookupCode, CreateCode, LockCode,
             MarkCompleted, MarkFailed, QueryOrder, CancelCore
  <1>3. ASSUME NEW w \in Workers, StepFault(w) PROVE [Ledger!Next]_(Ledger!ledger)
    BY <1>3, LedgerStutter DEF StepFault, InvokeProviderFails, QueryOrderFails,
       FulfillmentStepFails, Crash, SwallowedReadError
  <1>4. ASSUME NEW w \in Workers, NEW o \in Orders, Call(w, o)
        PROVE  [Ledger!Next]_(Ledger!ledger)
    BY <1>4, LedgerStutter DEF Call, CreateOrder, HandlePaymentNotification,
       RetryFulfillment, CancelOrder, ExpireTimedOutOrder, VerifyOrder
  <1>5. ASSUME NEW o \in Orders, Environment(o) PROVE [Ledger!Next]_(Ledger!ledger)
    <2>1. CASE Pay(o)
      <3>1. o \notin paid /\ UNCHANGED <<credited, rebate>>
        BY <2>1 DEF Pay
      <3>2. CASE gateway' = [gateway EXCEPT ![o] = "paid"]
        <4>1. paid' = paid \cup {o}
          BY <3>2
        <4>2. Ledger!Pay(o)
          BY <3>1, <4>1 DEF Ledger!Pay
        <4> QED
          BY <4>2 DEF Ledger!Next
      <3>3. CASE gateway' = [gateway EXCEPT ![o] = "mispaid"]
        <4>1. UNCHANGED paid
          BY <3>1, <3>3
        <4> QED
          BY <3>1, <4>1 DEF Ledger!ledger
      <3> QED
        BY <2>1, <3>2, <3>3 DEF Pay
    <2>2. CASE UNCHANGED <<gateway, credited, rebate>>
      BY <2>2, LedgerStutter
    <2> QED
      BY <1>5, <2>1, <2>2 DEF Environment, Age, FallDue, Refund, AdminDeleteCode,
         AdminExpireCode, AdminBatchUpdateCode
  <1>6. CASE UNCHANGED vars
    BY <1>6, LedgerStutter DEF vars
  <1> QED
    BY <1>2, <1>3, <1>4, <1>5, <1>6 DEF Next

\* The order workflow implements PaymentLedger.
THEOREM LedgerRefinement == ASSUME NoCodeAdmin PROVE Spec => ImplementsLedger
  <1>1. Init => Ledger!Init
    BY DEF Init, Ledger!Init
  <1> QED
    BY <1>1, CodeInvariance, LedgerStep, PTL DEF Spec, ImplementsLedger, Ledger!Spec
=============================================================================
