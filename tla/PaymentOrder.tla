---------------------------- MODULE PaymentOrder ----------------------------
(***************************************************************************)
(* The life of a payment order: CreateOrder, the gateway's webhook, user   *)
(* and admin cancellation, the expiry sweep, active verification, and      *)
(* fulfillment (crediting the balance through a redeem code, or assigning  *)
(* a subscription) up to COMPLETED, with crashes, failed database calls    *)
(* and failed gateway calls.                                               *)
(*                                                                         *)
(* Every handler runs as a job of one worker (a goroutine); one action is  *)
(* one database statement or transaction, or one gateway call, so the      *)
(* handlers of several workers interleave where the code lets them.        *)
(*                                                                         *)
(* updated_at of an order is read for two things only: equality with the   *)
(* version a fulfillment lease was taken at, and whether it is five        *)
(* minutes old (paymentGraceMinutes and paymentFulfillmentLeaseDuration    *)
(* are both five minutes).  It is abstracted to exactly these:             *)
(*   lease[w]  "the lease version worker w holds is the current            *)
(*             updated_at of its order";                                   *)
(*   old[o]    "updated_at of o is at least five minutes ago".             *)
(* ent sets updated_at on every update of a row (UpdateDefault), so each   *)
(* write of an order makes it young and invalidates every lease on it.     *)
(***************************************************************************)
EXTENDS Naturals

CONSTANTS Orders,        \* rows of payment_orders
          Workers,       \* goroutines that serve requests, webhooks, sweeps
          FaultKinds,    \* which disturbances of AllFaultKinds may happen
          MaxFaults      \* bound on the number of disturbances

\* "delete", "edit": an administrator deletes a redeem code, or edits its status.
AllFaultKinds == {"crash", "step", "query", "provider", "swallow", "delete", "edit"}

ASSUME ConstantsAssumption ==
    /\ Orders # {}
    /\ FaultKinds \subseteq AllFaultKinds
    /\ MaxFaults \in Nat

VARIABLES status,    \* payment_orders.status ("NONE": no row yet)
          subscriptions, \* the orders whose order_type is subscription; the others
                         \* credit the balance
          old,       \* updated_at is at least five minutes ago
          due,       \* expires_at has passed
          paidAt,    \* paid_at is set
          gateway,   \* the payment at the provider (external)
          notify,    \* the provider has an unacknowledged success webhook
          code,      \* the order's redeem code, or its SUBSCRIPTION_ASSIGNED marker
          credited,  \* how often the user got the order's benefit
          rebate,    \* how often the inviter got the order's rebate
          late,      \* audit log PAYMENT_AFTER_EXPIRY was written
          pc,        \* the step each worker is at
          ord,       \* the order its job is, or was last, about
          kind,      \* the handler it runs
          lease,     \* the worker's lease version is still updated_at
          faults     \* faults so far

vars == <<status, subscriptions, old, due, paidAt, gateway, notify, code, credited, rebate,
          late, pc, ord, kind, lease, faults>>

\* "REFUNDING" stands for every refund status that may still return to
\* COMPLETED, "REFUNDED" for the final ones; PaymentRefund tells them apart.
RefundStatuses == {"REFUNDING", "REFUNDED"}
Fulfilled == {"COMPLETED"} \cup RefundStatuses
Statuses == {"NONE", "PENDING", "PAID", "RECHARGING", "EXPIRED", "CANCELLED",
             "FAILED"} \cup Fulfilled
GatewayStates == {"none", "open", "closed", "paid", "mispaid"}
CodeStates == {"absent", "unused", "used", "disabled"}
FulfillPCs == {"lookup", "create", "redeem", "use", "assign", "rebate", "complete", "fail"}
PCs == {"idle", "invoke", "save", "createFail", "query", "close", "cancel",
        "toPaid", "already", "acquire", "reload"} \cup FulfillPCs
Kinds == {"none", "create", "webhook", "retry", "cancel", "expire", "reconcile"}

TypeOK ==
    /\ status \in [Orders -> Statuses]
    /\ subscriptions \subseteq Orders
    /\ old \in [Orders -> BOOLEAN]
    /\ due \in [Orders -> BOOLEAN]
    /\ paidAt \in [Orders -> BOOLEAN]
    /\ gateway \in [Orders -> GatewayStates]
    /\ notify \in [Orders -> BOOLEAN]
    /\ code \in [Orders -> CodeStates]
    /\ credited \in [Orders -> Nat]
    /\ rebate \in [Orders -> Nat]
    /\ late \in [Orders -> BOOLEAN]
    /\ pc \in [Workers -> PCs]
    /\ ord \in [Workers -> Orders]
    /\ kind \in [Workers -> Kinds]
    /\ lease \in [Workers -> BOOLEAN]
    /\ faults \in 0..MaxFaults

Init ==
    /\ status = [o \in Orders |-> "NONE"]
    /\ subscriptions \in SUBSET Orders
    /\ old = [o \in Orders |-> FALSE]
    /\ due = [o \in Orders |-> FALSE]
    /\ paidAt = [o \in Orders |-> FALSE]
    /\ gateway = [o \in Orders |-> "none"]
    /\ notify = [o \in Orders |-> FALSE]
    /\ code = [o \in Orders |-> "absent"]
    /\ credited = [o \in Orders |-> 0]
    /\ rebate = [o \in Orders |-> 0]
    /\ late = [o \in Orders |-> FALSE]
    /\ pc = [w \in Workers |-> "idle"]
    /\ ord \in [Workers -> Orders]
    /\ kind = [w \in Workers |-> "none"]
    /\ lease = [w \in Workers |-> FALSE]
    /\ faults = 0

-----------------------------------------------------------------------------
(* The pieces actions are made of. *)

\* Worker w, idle, starts a job of kind k on order o at step p.
Start(w, o, k, p) ==
    /\ pc[w] = "idle"
    /\ pc' = [pc EXCEPT ![w] = p]
    /\ ord' = [ord EXCEPT ![w] = o]
    /\ kind' = [kind EXCEPT ![w] = k]

At(w, p) == pc[w] = p

Goto(w, p) == pc' = [pc EXCEPT ![w] = p] /\ UNCHANGED <<ord, kind>>

\* The handler returns.  A webhook that returns without an error is answered
\* with success and the provider stops sending it; any other outcome leaves
\* it to be sent again.
Return(w, ok) ==
    /\ pc' = [pc EXCEPT ![w] = "idle"]
    /\ kind' = [kind EXCEPT ![w] = "none"]
    /\ UNCHANGED ord
    /\ notify' = IF ok /\ kind[w] = "webhook"
                 THEN [notify EXCEPT ![ord[w]] = FALSE]
                 ELSE notify

\* The handler's lease goes with it.
DropLease(w) == lease' = [lease EXCEPT ![w] = FALSE]

\* Any UPDATE of order o sets updated_at to now.
Touch(o) ==
    /\ old' = [old EXCEPT ![o] = FALSE]
    /\ lease' = [w \in Workers |-> lease[w] /\ ord[w] # o]

\* UPDATE ... SET status = s.
SetStatus(o, s) ==
    /\ status' = [status EXCEPT ![o] = s]
    /\ Touch(o)

\* A fault of kind k, within the bound.
Fault(k) ==
    /\ k \in FaultKinds
    /\ faults < MaxFaults
    /\ faults' = faults + 1

\* The order as the benefit tables and the audit log see it, and what the
\* gateway, time and the customer's choice of a product make of it.
Benefits == <<code, credited, rebate, late>>
Outside  == <<gateway, due, subscriptions>>

-----------------------------------------------------------------------------
(* CreateOrder: the row, the gateway call, the gateway's reply saved. *)

CreateOrder(w, o) ==
    /\ status[o] = "NONE"
    /\ Start(w, o, "create", "invoke")
    /\ SetStatus(o, "PENDING")
    /\ UNCHANGED <<paidAt, notify, faults, Benefits, Outside>>

InvokeProvider(w) ==
    /\ At(w, "invoke")
    /\ Goto(w, "save")
    /\ UNCHANGED <<status, old, lease, paidAt, notify, faults, Benefits, Outside>>

\* The reply is saved and returned to the customer, who can pay from here on.
SavePaymentDetails(w) ==
    LET o == ord[w] IN
    /\ At(w, "save")
    /\ Touch(o)
    /\ gateway' = [gateway EXCEPT ![o] = IF @ = "none" THEN "open" ELSE @]
    /\ Return(w, TRUE)
    /\ UNCHANGED <<status, paidAt, faults, due, subscriptions, Benefits>>

\* Building the provider, the gateway call or the save fails.
InvokeProviderFails(w) ==
    /\ pc[w] \in {"invoke", "save"}
    /\ Fault("provider")
    /\ Goto(w, "createFail")
    /\ UNCHANGED <<status, old, lease, paidAt, notify, Benefits, Outside>>

\* FAILED is written whatever the status has become meanwhile.
CreateOrderFails(w) ==
    /\ At(w, "createFail")
    /\ SetStatus(ord[w], "FAILED")
    /\ Return(w, FALSE)
    /\ UNCHANGED <<paidAt, faults, Benefits, Outside>>

-----------------------------------------------------------------------------
(* The gateway and the clock (external). *)

\* The customer pays, the exact amount or another one; the gateway starts to
\* send the success notification.
Pay(o) ==
    /\ gateway[o] = "open"
    /\ \E g \in {"paid", "mispaid"} : gateway' = [gateway EXCEPT ![o] = g]
    /\ notify' = [notify EXCEPT ![o] = TRUE]
    /\ UNCHANGED <<status, old, due, subscriptions, paidAt, pc, ord, kind, lease, faults, Benefits>>

\* Five minutes pass without a write to the order; it matters only where
\* updated_at is compared with the clock.
Age(o) ==
    /\ ~old[o]
    /\ status[o] \in {"EXPIRED", "RECHARGING"}
    /\ old' = [old EXCEPT ![o] = TRUE]
    /\ UNCHANGED <<status, paidAt, notify, pc, ord, kind, lease, faults, Benefits, Outside>>

\* expires_at passes; it is looked at only while the order is PENDING.
FallDue(o) ==
    /\ ~due[o]
    /\ status[o] = "PENDING"
    /\ due' = [due EXCEPT ![o] = TRUE]
    /\ UNCHANGED <<status, old, paidAt, gateway, subscriptions, notify, pc, ord, kind, lease,
                   faults, Benefits>>

-----------------------------------------------------------------------------
(* From a successful payment to PAID. *)

\* One delivery of the webhook; several may be in flight at once.
HandlePaymentNotification(w, o) ==
    /\ notify[o]
    /\ Start(w, o, "webhook", "toPaid")
    /\ UNCHANGED <<status, old, lease, paidAt, notify, faults, Benefits, Outside>>

\* Mutant of Payable: the UPDATE names no status.
PayableAnyStatus(o) == TRUE

\* Orders a confirmed payment still moves to PAID.
Payable(o) ==
    \/ status[o] \in {"PENDING", "CANCELLED"}
    \/ status[o] = "EXPIRED" /\ ~old[o]

\* Mutant of ToPaid: the paid amount is not compared with the order's.
ToPaidAnyAmount(w) ==
    LET o == ord[w] IN
    /\ At(w, "toPaid")
    /\ Payable(o)
    /\ SetStatus(o, "PAID")
    /\ paidAt' = [paidAt EXCEPT ![o] = TRUE]
    /\ Goto(w, "acquire")
    /\ UNCHANGED <<notify, faults, Benefits, Outside>>

\* confirmPayment refuses another amount than the order's; toPaid is one
\* conditional UPDATE.
ToPaid(w) ==
    LET o == ord[w] IN
    /\ At(w, "toPaid")
    /\ \/ /\ gateway[o] # "paid"
          /\ Return(w, FALSE)
          /\ UNCHANGED <<status, old, lease, paidAt>>
       \/ /\ gateway[o] = "paid"
          /\ Payable(o)
          /\ SetStatus(o, "PAID")
          /\ paidAt' = [paidAt EXCEPT ![o] = TRUE]
          /\ Goto(w, "acquire")
          /\ UNCHANGED notify
       \/ /\ gateway[o] = "paid"
          /\ ~Payable(o)
          /\ Goto(w, "already")
          /\ UNCHANGED <<status, old, lease, paidAt, notify>>
    /\ UNCHANGED <<faults, Benefits, Outside>>

AlreadyProcessed(w) ==
    LET o == ord[w] IN
    /\ At(w, "already")
    /\ \/ /\ status[o] \in {"FAILED", "PAID", "RECHARGING"}
          /\ Goto(w, "acquire")
          /\ UNCHANGED <<notify, late>>
       \/ /\ status[o] \notin {"FAILED", "PAID", "RECHARGING"}
          /\ Return(w, TRUE)
          /\ late' = [late EXCEPT ![o] = @ \/ status[o] = "EXPIRED"]
    /\ UNCHANGED <<status, old, lease, paidAt, faults, code, credited, rebate, Outside>>

-----------------------------------------------------------------------------
(* Fulfillment: lease, benefit, rebate, COMPLETED. *)

\* Mutant of Leasable: a lease is never taken over.
LeasableNoTakeover(o) == status[o] \in {"PAID", "FAILED"}

\* Orders a fulfillment lease can be taken on: paid or failed ones, and those
\* whose lease is five minutes old.
Leasable(o) ==
    \/ status[o] \in {"PAID", "FAILED"}
    \/ status[o] = "RECHARGING" /\ old[o]

\* executeFulfillment up to the conditional UPDATE of
\* acquirePaymentFulfillmentLease.  An order that is COMPLETED by now is fine;
\* every other status is an error.
AcquireLease(w) ==
    LET o == ord[w] IN
    /\ At(w, "acquire")
    /\ \/ /\ Leasable(o)
          /\ SetStatus(o, "RECHARGING")
          /\ Goto(w, "reload")
          /\ UNCHANGED notify
       \/ /\ ~Leasable(o)
          /\ Return(w, status[o] = "COMPLETED")
          /\ UNCHANGED <<status, old, lease>>
    /\ UNCHANGED <<paidAt, faults, Benefits, Outside>>

\* The lease version is the updated_at read back, whoever wrote it last.
ReloadLease(w) ==
    LET o == ord[w] IN
    /\ At(w, "reload")
    /\ \/ /\ status[o] = "RECHARGING"
          /\ lease' = [lease EXCEPT ![w] = TRUE]
          /\ Goto(w, IF o \in subscriptions THEN "assign" ELSE "lookup")
          /\ UNCHANGED notify
       \/ /\ status[o] # "RECHARGING"
          /\ Return(w, FALSE)
          /\ UNCHANGED lease
    /\ UNCHANGED <<status, old, paidAt, faults, Benefits, Outside>>

\* Mutant of LookupCode: a code that exists counts as redeemed.
LookupCodeExisting(w) ==
    /\ At(w, "lookup")
    /\ Goto(w, IF code[ord[w]] = "absent" THEN "create" ELSE "rebate")
    /\ UNCHANGED <<status, old, lease, paidAt, notify, faults, Benefits, Outside>>

\* doBalance looks the order's redeem code up and resolves what is left to do.
LookupCode(w) ==
    /\ At(w, "lookup")
    /\ Goto(w, CASE code[ord[w]] = "absent" -> "create"
                 [] code[ord[w]] = "used"   -> "rebate"
                 [] OTHER                     -> "redeem")
    /\ UNCHANGED <<status, old, lease, paidAt, notify, faults, Benefits, Outside>>

\* The code column is unique: a second insert fails.
CreateCode(w) ==
    LET o == ord[w] IN
    /\ At(w, "create")
    /\ \/ /\ code[o] = "absent"
          /\ code' = [code EXCEPT ![o] = "unused"]
          /\ Goto(w, "redeem")
       \/ /\ code[o] # "absent"
          /\ Goto(w, "fail")
          /\ UNCHANGED code
    /\ UNCHANGED <<status, old, lease, paidAt, notify, faults, credited, rebate, late, Outside>>

\* The benefit is granted in the transaction that marks the code used.  The
\* reload after the commit may still fail (step fault), which doBalance
\* reports as a failed redemption.
Grant(w, o) ==
    /\ code' = [code EXCEPT ![o] = "used"]
    /\ credited' = [credited EXCEPT ![o] = @ + 1]
    /\ \/ Goto(w, "rebate") /\ UNCHANGED faults
       \/ Goto(w, "fail") /\ Fault("step")

\* redeem takes the code's Redis lock.  It fails only while another worker holds
\* it, and may succeed even then: the lock expires after ten seconds and an
\* error of Redis counts as success.
LockCode(w) ==
    /\ At(w, "redeem")
    /\ \/ Goto(w, "use")
       \/ /\ \E v \in Workers \ {w} : At(v, "use") /\ ord[v] = ord[w]
          /\ Goto(w, "fail")
    /\ UNCHANGED <<status, old, lease, paidAt, notify, faults, Benefits, Outside>>

\* Mutant of RedeemCode: the UPDATE does not say WHERE status = unused.
RedeemCodeUnguarded(w) ==
    /\ At(w, "use")
    /\ Grant(w, ord[w])
    /\ UNCHANGED <<status, old, lease, paidAt, notify, rebate, late, Outside>>

\* UPDATE ... SET status = used WHERE status = unused, and the balance.
RedeemCode(w) ==
    LET o == ord[w] IN
    /\ At(w, "use")
    /\ \/ code[o] = "unused" /\ Grant(w, o)
       \/ /\ code[o] # "unused"
          /\ Goto(w, "fail")
          /\ UNCHANGED <<code, credited, faults>>
    /\ UNCHANGED <<status, old, lease, paidAt, notify, rebate, late, Outside>>

\* Mutant of AssignSubscription: the assignment audit is not looked at.
AssignSubscriptionUnaudited(w) ==
    /\ At(w, "assign")
    /\ Grant(w, ord[w])
    /\ UNCHANGED <<status, old, lease, paidAt, notify, rebate, late, Outside>>

\* ensurePaymentSubscriptionAssigned: one transaction that assigns the days
\* and inserts the unique SUBSCRIPTION_ASSIGNED audit row.
AssignSubscription(w) ==
    LET o == ord[w] IN
    /\ At(w, "assign")
    /\ \/ code[o] = "absent" /\ Grant(w, o)
       \/ /\ code[o] # "absent"
          /\ Goto(w, "rebate")
          /\ UNCHANGED <<code, credited, faults>>
    /\ UNCHANGED <<status, old, lease, paidAt, notify, rebate, late, Outside>>

\* Mutant of ApplyAffiliateRebate: the claim is not checked.
ApplyAffiliateRebateUnclaimed(w) ==
    /\ At(w, "rebate")
    /\ rebate' = [rebate EXCEPT ![ord[w]] = @ + 1]
    /\ Goto(w, "complete")
    /\ UNCHANGED <<status, old, lease, paidAt, notify, faults, code, credited, late, Outside>>

\* The rebate is accrued in the transaction that claims the unique
\* AFFILIATE_REBATE_APPLIED audit row; a claimed one is skipped.
ApplyAffiliateRebate(w) ==
    LET o == ord[w] IN
    /\ At(w, "rebate")
    /\ rebate' = [rebate EXCEPT ![o] = IF @ = 0 THEN 1 ELSE @]
    /\ Goto(w, "complete")
    /\ UNCHANGED <<status, old, lease, paidAt, notify, faults, code, credited, late, Outside>>

\* What the lease lets its holder still write.
LeaseHeld(w) == status[ord[w]] = "RECHARGING" /\ lease[w]

MarkCompleted(w) ==
    LET o == ord[w] IN
    /\ At(w, "complete")
    /\ \/ /\ LeaseHeld(w)
          /\ SetStatus(o, "COMPLETED")
          /\ Return(w, TRUE)
       \/ /\ ~LeaseHeld(w)
          /\ status[o] = "COMPLETED"
          /\ Return(w, TRUE)
          /\ DropLease(w)
          /\ UNCHANGED <<status, old>>
       \/ /\ ~LeaseHeld(w)
          /\ status[o] # "COMPLETED"
          /\ Goto(w, "fail")
          /\ UNCHANGED <<status, old, lease, notify>>
    /\ UNCHANGED <<paidAt, faults, Benefits, Outside>>

MarkFailed(w) ==
    /\ At(w, "fail")
    /\ \/ LeaseHeld(w) /\ SetStatus(ord[w], "FAILED")
       \/ ~LeaseHeld(w) /\ DropLease(w) /\ UNCHANGED <<status, old>>
    /\ Return(w, FALSE)
    /\ UNCHANGED <<paidAt, faults, Benefits, Outside>>

\* Mutant of RetryFulfillment: paid_at is not required.
RetryFulfillmentUnpaid(w, o) ==
    /\ status[o] \in {"FAILED", "PAID", "RECHARGING"}
    /\ Start(w, o, "retry", "acquire")
    /\ UNCHANGED <<status, old, lease, paidAt, notify, faults, Benefits, Outside>>

RetryFulfillment(w, o) ==
    /\ paidAt[o]
    /\ status[o] \in {"FAILED", "PAID", "RECHARGING"}
    /\ Start(w, o, "retry", "acquire")
    /\ UNCHANGED <<status, old, lease, paidAt, notify, faults, Benefits, Outside>>

-----------------------------------------------------------------------------
(* Cancellation, expiry and active verification: all ask the gateway first. *)

CancelOrder(w, o) ==
    /\ status[o] = "PENDING"
    /\ Start(w, o, "cancel", "query")
    /\ UNCHANGED <<status, old, lease, paidAt, notify, faults, Benefits, Outside>>

\* Mutant of ExpireTimedOutOrder: the comparison with expires_at is reversed.
ExpireUntimelyOrder(w, o) ==
    /\ status[o] = "PENDING"
    /\ ~due[o]
    /\ Start(w, o, "expire", "query")
    /\ UNCHANGED <<status, old, lease, paidAt, notify, faults, Benefits, Outside>>

ExpireTimedOutOrder(w, o) ==
    /\ status[o] = "PENDING"
    /\ due[o]
    /\ Start(w, o, "expire", "query")
    /\ UNCHANGED <<status, old, lease, paidAt, notify, faults, Benefits, Outside>>

\* Verification by the user; the reconcile sweep starts the same query for a
\* subset of these orders.
VerifyOrder(w, o) ==
    /\ status[o] \in {"PENDING", "EXPIRED"}
    /\ Start(w, o, "reconcile", "query")
    /\ UNCHANGED <<status, old, lease, paidAt, notify, faults, Benefits, Outside>>

\* A paid order is handed to HandlePaymentNotification, whose errors are
\* logged; only an unpaid one goes on to be cancelled.
QueryOrder(w) ==
    /\ At(w, "query")
    /\ \/ /\ gateway[ord[w]] \in {"paid", "mispaid"}
          /\ Goto(w, "toPaid")
          /\ UNCHANGED notify
       \/ /\ gateway[ord[w]] \notin {"paid", "mispaid"}
          /\ kind[w] # "reconcile"
          /\ Goto(w, "close")
          /\ UNCHANGED notify
       \/ /\ gateway[ord[w]] \notin {"paid", "mispaid"}
          /\ kind[w] = "reconcile"
          /\ Return(w, TRUE)
    /\ UNCHANGED <<status, old, lease, paidAt, faults, Benefits, Outside>>

\* The gateway lookup or the query fails: as good as unpaid.
QueryOrderFails(w) ==
    /\ At(w, "query")
    /\ Fault("query")
    /\ \/ kind[w] # "reconcile" /\ Goto(w, "cancel") /\ UNCHANGED notify
       \/ kind[w] = "reconcile" /\ Return(w, TRUE)
    /\ UNCHANGED <<status, old, lease, paidAt, Benefits, Outside>>

\* CancelPayment: not every gateway has it and its error is ignored.
ClosePayment(w) ==
    LET o == ord[w] IN
    /\ At(w, "close")
    /\ \/ gateway[o] \in {"none", "open"} /\ gateway' = [gateway EXCEPT ![o] = "closed"]
       \/ UNCHANGED gateway
    /\ Goto(w, "cancel")
    /\ UNCHANGED <<status, old, due, subscriptions, lease, paidAt, notify, faults, Benefits>>

\* Mutant of CancelCore: the UPDATE does not say WHERE status = PENDING.
CancelCoreUnguarded(w) ==
    /\ At(w, "cancel")
    /\ SetStatus(ord[w], IF kind[w] = "expire" THEN "EXPIRED" ELSE "CANCELLED")
    /\ Return(w, TRUE)
    /\ UNCHANGED <<paidAt, faults, Benefits, Outside>>

\* Mutant of CancelCore: the operation is written where the status belongs.
CancelCoreWritesKind(w) ==
    /\ At(w, "cancel")
    /\ status[ord[w]] = "PENDING"
    /\ SetStatus(ord[w], kind[w])
    /\ Return(w, TRUE)
    /\ UNCHANGED <<paidAt, faults, Benefits, Outside>>

CancelCore(w) ==
    LET o == ord[w] IN
    /\ At(w, "cancel")
    /\ \/ /\ status[o] = "PENDING"
          /\ SetStatus(o, IF kind[w] = "expire" THEN "EXPIRED" ELSE "CANCELLED")
       \/ /\ status[o] # "PENDING"
          /\ UNCHANGED <<status, old, lease>>
    /\ Return(w, TRUE)
    /\ UNCHANGED <<paidAt, faults, Benefits, Outside>>

-----------------------------------------------------------------------------
(* Faults, admin work on redeem codes, refunds. *)

\* A call inside doBalance or doSub fails: the redeem rate limit, a lost
\* database connection, an inactive group.
FulfillmentStepFails(w) ==
    /\ pc[w] \in FulfillPCs \ {"fail"}
    /\ Fault("step")
    /\ Goto(w, "fail")
    /\ UNCHANGED <<status, old, lease, paidAt, notify, Benefits, Outside>>

\* The process dies, or the request's context ends and every later call fails.
Crash(w) ==
    /\ pc[w] # "idle"
    /\ Fault("crash")
    /\ Return(w, FALSE)
    /\ DropLease(w)
    /\ UNCHANGED <<status, old, paidAt, Benefits, Outside>>

\* confirmPayment and alreadyProcessed return nil when their read of the order
\* fails, so the webhook is acknowledged.
SwallowedReadError(w) ==
    /\ pc[w] \in {"toPaid", "already"}
    /\ Fault("swallow")
    /\ Return(w, TRUE)
    /\ UNCHANGED <<status, old, lease, paidAt, Benefits, Outside>>

\* DeleteRedeemCode and BatchDeleteRedeemCodes do not look at the status.
AdminDeleteCode(o) ==
    /\ Fault("delete")
    /\ o \notin subscriptions
    /\ code[o] # "absent"
    /\ code' = [code EXCEPT ![o] = "absent"]
    /\ UNCHANGED <<status, old, lease, paidAt, notify, pc, ord, kind, credited, rebate, late, Outside>>

\* ExpireRedeemCode does not look at the status either.
AdminExpireCode(o) ==
    /\ Fault("edit")
    /\ o \notin subscriptions
    /\ code[o] # "absent"
    /\ code' = [code EXCEPT ![o] = "disabled"]
    /\ UNCHANGED <<status, old, lease, paidAt, notify, pc, ord, kind, credited, rebate, late, Outside>>

\* BatchUpdate sets a code that is not used to unused or disabled.
AdminBatchUpdateCode(o) ==
    /\ Fault("edit")
    /\ o \notin subscriptions
    /\ code[o] \in {"unused", "disabled"}
    /\ \E c \in {"unused", "disabled"} : code' = [code EXCEPT ![o] = c]
    /\ UNCHANGED <<status, old, lease, paidAt, notify, pc, ord, kind, credited, rebate, late, Outside>>

\* The refund workflow (PaymentRefund) moves a fulfilled order among its own
\* statuses.
Refund(o) ==
    /\ \/ status[o] = "COMPLETED" /\ SetStatus(o, "REFUNDING")
       \/ /\ status[o] = "REFUNDING"
          /\ \E s \in {"COMPLETED", "REFUNDED"} : SetStatus(o, s)
    /\ UNCHANGED <<paidAt, notify, pc, ord, kind, faults, Benefits, Outside>>

-----------------------------------------------------------------------------
\* The next step of a running handler.
Step(w) ==
    \/ InvokeProvider(w) \/ SavePaymentDetails(w) \/ CreateOrderFails(w)
    \/ ToPaid(w) \/ AlreadyProcessed(w) \/ AcquireLease(w) \/ ReloadLease(w)
    \/ LookupCode(w) \/ CreateCode(w) \/ LockCode(w) \/ RedeemCode(w)
    \/ AssignSubscription(w) \/ ApplyAffiliateRebate(w) \/ MarkCompleted(w) \/ MarkFailed(w)
    \/ QueryOrder(w) \/ ClosePayment(w) \/ CancelCore(w)

StepFault(w) ==
    \/ InvokeProviderFails(w) \/ QueryOrderFails(w) \/ FulfillmentStepFails(w)
    \/ Crash(w) \/ SwallowedReadError(w)

Call(w, o) ==
    \/ CreateOrder(w, o) \/ HandlePaymentNotification(w, o)
    \/ RetryFulfillment(w, o) \/ CancelOrder(w, o)
    \/ ExpireTimedOutOrder(w, o) \/ VerifyOrder(w, o)

Environment(o) ==
    \/ Pay(o) \/ Age(o) \/ FallDue(o) \/ Refund(o)
    \/ AdminDeleteCode(o) \/ AdminExpireCode(o) \/ AdminBatchUpdateCode(o)

Next ==
    \/ \E w \in Workers : Step(w) \/ StepFault(w)
    \/ \E w \in Workers, o \in Orders : Call(w, o)
    \/ \E o \in Orders : Environment(o)

Spec == Init /\ [][Next]_vars

\* Handlers run to their end, the provider repeats a webhook until it is
\* acknowledged, the sweep runs every minute, and time passes.
Fairness ==
    /\ \A w \in Workers : WF_vars(Step(w))
    /\ \A o \in Orders :
        /\ SF_vars(\E w \in Workers : HandlePaymentNotification(w, o))
        /\ SF_vars(\E w \in Workers : ExpireTimedOutOrder(w, o))
        /\ WF_vars(Age(o))
        /\ WF_vars(FallDue(o))

FairSpec == Spec /\ Fairness

-----------------------------------------------------------------------------
(* Safety. *)

\* However webhooks, verifications, admin retries and lease take-overs overlap,
\* and wherever they crash, an order's benefit is granted at most once.
CreditedAtMostOnce == \A o \in Orders : credited[o] <= 1

\* The benefit is granted only for an order the gateway was paid the exact
\* amount of, whichever handler confirmed it and whatever status it was in.
CreditedOnlyIfPaid == \A o \in Orders : credited[o] > 0 => gateway[o] = "paid"

\* The inviter's rebate is never accrued twice and never before the benefit,
\* also when fulfillment is retried after the rebate step.
RebateFollowsCredit == \A o \in Orders : rebate[o] <= credited[o]

\* An order reported COMPLETED, and every order in the refund workflow, has its
\* benefit and its rebate granted and its payment time recorded.
CompletedIsCredited ==
    \A o \in Orders : status[o] \in Fulfilled =>
        credited[o] > 0 /\ rebate[o] > 0 /\ paidAt[o]

\* Cancellation and expiry never end on an order whose benefit was granted,
\* although they read the status, ask the gateway and write in separate steps.
AbandonedIsUncredited ==
    \A o \in Orders : status[o] \in {"PENDING", "EXPIRED", "CANCELLED"} => credited[o] = 0

\* No late handler takes an order out of COMPLETED or the refund workflow: not
\* a repeated webhook, a stale lease holder, a cancellation or CreateOrder.
FulfilledIsFinal ==
    [][\A o \in Orders : status[o] \in Fulfilled => status'[o] \in Fulfilled]_vars

-----------------------------------------------------------------------------
(* The promise. *)

Ledger == INSTANCE PaymentLedger WITH
    paid    <- {o \in Orders : gateway[o] = "paid"},
    granted <- credited,
    rebated <- rebate

\* The order workflow implements PaymentLedger: payment, benefit and rebate
\* happen once each and in this order, whatever the handlers do.
ImplementsLedger == Ledger!Spec

-----------------------------------------------------------------------------
(* Liveness. *)

\* An order paid in full is credited in the end, or the payment is on record
\* as having come after the expiry grace period.
PaidIsSettled ==
    \A o \in Orders : gateway[o] = "paid" ~> credited[o] > 0 \/ late[o]

\* No order stays PENDING for ever, except one paid with a wrong amount.
PendingIsResolved ==
    \A o \in Orders : status[o] = "PENDING" ~> status[o] # "PENDING" \/ gateway[o] = "mispaid"
=============================================================================
