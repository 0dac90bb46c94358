---------------------------- MODULE PaymentRefund ----------------------------
(***************************************************************************)
(* The refund of a completed balance order: the user's request, the        *)
(* admin's PrepareRefund and ExecuteRefund (claim, deduction, gateway      *)
(* refund, outcome) and QueryAndFinalizeRefund for outcomes the gateway    *)
(* had not decided, with concurrent admins, concurrent spending, crashes   *)
(* and failed restorations.                                                *)
(*                                                                         *)
(* One action is one database statement or transaction, or one gateway     *)
(* call.  updated_at is compared for equality only: version[w] says that   *)
(* the updated_at worker w read is still the order's.  Amounts are counted *)
(* in units of credit.                                                     *)
(***************************************************************************)
EXTENDS Integers

CONSTANTS Orders,       \* completed balance orders of one user
          Workers,      \* goroutines that serve users and admins
          Amount,       \* the amount of every order
          MaxBalance,   \* bound on the user's first balance
          MaxAttempts,  \* bound on the number of refund attempts
          FaultKinds,   \* which disturbances of AllFaultKinds may happen
          MaxFaults     \* bound on the number of disturbances

\* "step": a check or a deduction fails; "write": a write of the order fails;
\* "rollback": the deduction cannot be given back; "marker": nor can the
\* REFUND_ROLLBACK_FAILED audit row be written.
AllFaultKinds == {"crash", "step", "write", "rollback", "marker"}

ASSUME RefundAssumption ==
    /\ Amount \in Nat \ {0}
    /\ MaxBalance \in Nat
    /\ MaxAttempts \in Nat
    /\ FaultKinds \subseteq AllFaultKinds
    /\ MaxFaults \in Nat

VARIABLES status,      \* payment_orders.status
          refAmt,      \* payment_orders.refund_amount
          held,        \* balanceDeducted in the REFUND_PENDING audit row
          blocked,     \* the REFUND_ROLLBACK_FAILED audit row exists
          bal,         \* users.balance
          taken,       \* credit taken for an order and not given back
          gw,          \* the refund at the gateway (external)
          back,        \* how often the gateway returned the payment (external)
          pc,          \* the step each worker is at
          ord,         \* the order its job is, or was last, about
          from,        \* the status in its snapshot of the order
          amt,         \* its plan's RefundAmount
          force,       \* its plan's Force
          toDeduct,    \* its plan's BalanceToDeduct
          version,     \* the updated_at it read is still the order's
          attempts,    \* refund attempts so far
          faults       \* faults so far

orderVars == <<status, refAmt, held, blocked>>
userVars  == <<bal, taken>>
gwVars    == <<gw, back>>
planVars  == <<from, amt, force, toDeduct>>
bounds    == <<attempts, faults>>
vars == <<orderVars, userVars, gwVars, pc, ord, planVars, version, bounds>>

Refundable == {"COMPLETED", "REFUND_REQUESTED", "REFUND_FAILED"}
Refunded   == {"REFUNDED", "PARTIALLY_REFUNDED"}
Statuses   == Refundable \cup Refunded \cup {"REFUNDING", "REFUND_PENDING"}
\* Between ExecuteRefund's claim and the write that ends the attempt.
Claimed == {"recheck", "deduct", "gateway", "rollback", "restore", "refundFailed",
            "ok", "pending"}
PCs == Claimed \cup {"idle", "request", "check", "claim", "marker", "query",
                     "finalOk", "finalFail"}

TypeOK ==
    /\ status \in [Orders -> Statuses]
    /\ refAmt \in [Orders -> 0..Amount]
    /\ held \in [Orders -> 0..Amount]
    /\ blocked \in [Orders -> BOOLEAN]
    /\ bal \in Int
    /\ taken \in [Orders -> Int]
    /\ gw \in [Orders -> {"none", "open", "refunded"}]
    /\ back \in [Orders -> Nat]
    /\ pc \in [Workers -> PCs]
    /\ ord \in [Workers -> Orders]
    /\ from \in [Workers -> Statuses]
    /\ amt \in [Workers -> 0..Amount]
    /\ force \in [Workers -> BOOLEAN]
    /\ toDeduct \in [Workers -> 0..Amount]
    /\ version \in [Workers -> BOOLEAN]
    /\ attempts \in 0..MaxAttempts
    /\ faults \in 0..MaxFaults

\* The user may have spent any part of the credit.
Init ==
    /\ status = [o \in Orders |-> "COMPLETED"]
    /\ refAmt = [o \in Orders |-> 0]
    /\ held = [o \in Orders |-> 0]
    /\ blocked = [o \in Orders |-> FALSE]
    /\ bal \in 0..MaxBalance
    /\ taken = [o \in Orders |-> 0]
    /\ gw = [o \in Orders |-> "none"]
    /\ back = [o \in Orders |-> 0]
    /\ pc = [w \in Workers |-> "idle"]
    /\ ord \in [Workers -> Orders]
    /\ from = [w \in Workers |-> "COMPLETED"]
    /\ amt = [w \in Workers |-> 0]
    /\ force = [w \in Workers |-> FALSE]
    /\ toDeduct = [w \in Workers |-> 0]
    /\ version = [w \in Workers |-> FALSE]
    /\ attempts = 0
    /\ faults = 0

-----------------------------------------------------------------------------
(* The pieces actions are made of. *)

At(w, p) == pc[w] = p
Goto(w, p) == pc' = [pc EXCEPT ![w] = p] /\ UNCHANGED ord

\* The handler returns and forgets its plan.
Return(w) ==
    /\ pc' = [pc EXCEPT ![w] = "idle"]
    /\ from' = [from EXCEPT ![w] = "COMPLETED"]
    /\ amt' = [amt EXCEPT ![w] = 0]
    /\ force' = [force EXCEPT ![w] = FALSE]
    /\ toDeduct' = [toDeduct EXCEPT ![w] = 0]
    /\ UNCHANGED ord

\* UPDATE ... SET status = s; updated_at moves with every write of the row.
SetStatus(o, s) ==
    /\ status' = [status EXCEPT ![o] = s]
    /\ version' = [w \in Workers |-> version[w] /\ ord[w] # o]

Fault(k) ==
    /\ k \in FaultKinds
    /\ faults < MaxFaults
    /\ faults' = faults + 1

\* The UPDATE, or the transaction around it, fails.  The handler returns the
\* error, or ignores it and returns, and leaves the order as it is.
WriteFails(w) ==
    /\ Fault("write")
    /\ Return(w)
    /\ UNCHANGED <<orderVars, userVars, gwVars, version, attempts>>

Least(a, b) == IF a <= b THEN a ELSE b
\* Mutant of Available: a negative balance is not clamped.
AvailableUnclamped(n) == Least(n, bal)

\* math.Max(0, math.Min(n, balance)), and what DeductAvailableBalance takes.
Available(n) == IF bal <= 0 THEN 0 ELSE Least(n, bal)

Deduct(o, n) ==
    /\ bal' = bal - n
    /\ taken' = [taken EXCEPT ![o] = @ + n]

\* UpdateBalance also adds a positive amount to total_recharged, which no
\* handler of this module reads.
UpdateBalance(o, n) ==
    /\ bal' = bal + n
    /\ taken' = [taken EXCEPT ![o] = @ - n]

-----------------------------------------------------------------------------
(* The user: asking for a refund, spending credit. *)

\* The status and the balance are read first,
RequestRefund(w, o) ==
    /\ At(w, "idle")
    /\ status[o] = "COMPLETED"
    /\ bal >= Amount
    /\ pc' = [pc EXCEPT ![w] = "request"]
    /\ ord' = [ord EXCEPT ![w] = o]
    /\ version' = [version EXCEPT ![w] = FALSE]
    /\ UNCHANGED <<orderVars, userVars, gwVars, planVars, bounds>>

\* the status is set by a conditional UPDATE.
SubmitRequest(w) ==
    LET o == ord[w] IN
    /\ At(w, "request")
    /\ \/ /\ status[o] = "COMPLETED"
          /\ SetStatus(o, "REFUND_REQUESTED")
          /\ refAmt' = [refAmt EXCEPT ![o] = Amount]
          /\ Return(w)
          /\ UNCHANGED faults
       \/ /\ status[o] # "COMPLETED"
          /\ Return(w)
          /\ UNCHANGED <<status, version, refAmt, faults>>
       \/ WriteFails(w)
    /\ UNCHANGED <<held, blocked, userVars, gwVars, attempts>>

\* Usage billing takes what requests cost, overdrawing at most once (external
\* to refunds).
Spend ==
    /\ bal > 0
    /\ \E n \in 1..2 : bal' = bal - n
    /\ UNCHANGED <<orderVars, taken, gwVars, pc, ord, planVars, version, bounds>>

-----------------------------------------------------------------------------
(* The admin: PrepareRefund and ExecuteRefund. *)

\* The plan: how much, whether to force, and what to deduct as far as the
\* balance read here goes.  Without force a short balance refuses the plan.
PrepareRefund(w, o) ==
    /\ At(w, "idle")
    /\ attempts < MaxAttempts
    /\ status[o] \in Refundable
    /\ ~blocked[o]
    /\ \E a \in 1..Amount, f \in BOOLEAN, deduct \in BOOLEAN :
        /\ deduct /\ ~f => bal >= a
        /\ amt' = [amt EXCEPT ![w] = a]
        /\ force' = [force EXCEPT ![w] = f]
        /\ toDeduct' = [toDeduct EXCEPT ![w] = IF deduct THEN Available(a) ELSE 0]
    /\ pc' = [pc EXCEPT ![w] = "check"]
    /\ ord' = [ord EXCEPT ![w] = o]
    /\ from' = [from EXCEPT ![w] = status[o]]
    /\ version' = [version EXCEPT ![w] = FALSE]
    /\ attempts' = attempts + 1
    /\ UNCHANGED <<orderVars, userVars, gwVars, faults>>

CheckRollback(w) ==
    /\ At(w, "check")
    /\ \/ ~blocked[ord[w]] /\ Goto(w, "claim") /\ UNCHANGED planVars
       \/ blocked[ord[w]] /\ Return(w)
    /\ UNCHANGED <<orderVars, userVars, gwVars, version, bounds>>

\* Mutant of ClaimRefund: the UPDATE names no status.
ClaimRefundUnguarded(w) ==
    /\ At(w, "claim")
    /\ SetStatus(ord[w], "REFUNDING")
    /\ Goto(w, "recheck")
    /\ UNCHANGED <<refAmt, held, blocked, userVars, gwVars, planVars, bounds>>

ClaimRefund(w) ==
    LET o == ord[w] IN
    /\ At(w, "claim")
    /\ \/ /\ status[o] \in Refundable
          /\ SetStatus(o, "REFUNDING")
          /\ Goto(w, "recheck")
          /\ UNCHANGED <<planVars, faults>>
       \/ /\ status[o] \notin Refundable
          /\ Return(w)
          /\ UNCHANGED <<status, version, faults>>
       \/ WriteFails(w)
    /\ UNCHANGED <<refAmt, held, blocked, userVars, gwVars, attempts>>

\* Another attempt's restoration may have failed since CheckRollback.  An
\* error of this read (step fault) ends the attempt the same way.
RecheckRollback(w) ==
    LET o == ord[w] IN
    /\ At(w, "recheck")
    /\ \/ /\ ~blocked[o]
          /\ Goto(w, "deduct")
          /\ UNCHANGED <<status, version, planVars, faults>>
       \/ /\ \/ blocked[o] /\ UNCHANGED faults
             \/ Fault("step")
          /\ SetStatus(o, "REFUND_FAILED")
          /\ Return(w)
       \/ blocked[o] /\ WriteFails(w)
    /\ UNCHANGED <<refAmt, held, blocked, userVars, gwVars, attempts>>

\* Forced: whatever is available now.  Otherwise all or nothing, and nothing
\* (or a failed statement) puts the snapshot's status back.
DeductBalance(w) ==
    LET o == ord[w] IN
    /\ At(w, "deduct")
    /\ \/ /\ toDeduct[w] = 0
          /\ Goto(w, "gateway")
          /\ UNCHANGED <<userVars, planVars, faults>>
       \/ /\ toDeduct[w] > 0
          /\ force[w]
          /\ Deduct(o, Available(toDeduct[w]))
          /\ toDeduct' = [toDeduct EXCEPT ![w] = Available(@)]
          /\ Goto(w, "gateway")
          /\ UNCHANGED <<from, amt, force, faults>>
       \/ /\ toDeduct[w] > 0
          /\ ~force[w]
          /\ bal >= toDeduct[w]
          /\ Deduct(o, toDeduct[w])
          /\ Goto(w, "gateway")
          /\ UNCHANGED <<planVars, faults>>
       \/ /\ toDeduct[w] > 0
          /\ \/ ~force[w] /\ bal < toDeduct[w] /\ UNCHANGED faults
             \/ Fault("step")
          /\ Goto(w, "restore")
          /\ UNCHANGED <<userVars, planVars>>
    /\ UNCHANGED <<orderVars, gwVars, version, attempts>>

\* The gateway's books: the payment goes back to the customer.
PaidBack(o) ==
    /\ gw' = [gw EXCEPT ![o] = "refunded"]
    /\ back' = [back EXCEPT ![o] = @ + 1]

\* Mutant of GwRefund: a lost reply counts as a rejection.
GwRefundLostIsFailed(w) ==
    LET o == ord[w] IN
    /\ At(w, "gateway")
    /\ \/ Goto(w, "rollback") /\ (PaidBack(o) \/ UNCHANGED gwVars)
       \/ Goto(w, "ok") /\ PaidBack(o)
       \/ Goto(w, "pending") /\ gw' = [gw EXCEPT ![o] = "open"] /\ UNCHANGED back
    /\ UNCHANGED <<orderVars, userVars, planVars, version, bounds>>

\* Only an explicit rejection (or never having called) is a failure; a lost or
\* malformed reply is pending, whatever the gateway did.
GwRefund(w) ==
    LET o == ord[w] IN
    /\ At(w, "gateway")
    /\ \/ Goto(w, "rollback") /\ UNCHANGED gwVars
       \/ Goto(w, "ok") /\ PaidBack(o)
       \/ /\ Goto(w, "pending")
          /\ \/ gw' = [gw EXCEPT ![o] = "open"] /\ UNCHANGED back
             \/ PaidBack(o)
             \/ UNCHANGED gwVars
    /\ UNCHANGED <<orderVars, userVars, planVars, version, bounds>>

\* The gateway decides a refund it had accepted (external).
GatewaySettles(o) ==
    /\ gw[o] = "open"
    /\ \/ PaidBack(o)
       \/ gw' = [gw EXCEPT ![o] = "none"] /\ UNCHANGED back
    /\ UNCHANGED <<orderVars, userVars, pc, ord, planVars, version, bounds>>

\* handleGwFail: give the deduction back; if that fails leave a marker that
\* blocks further attempts (writeAuditLog only logs its own failure).
RollbackRefund(w) ==
    LET o == ord[w] IN
    /\ At(w, "rollback")
    /\ \/ /\ UpdateBalance(o, toDeduct[w])
          /\ Goto(w, "restore")
          /\ UNCHANGED <<blocked, faults>>
       \/ /\ toDeduct[w] > 0
          /\ \/ Fault("rollback") /\ blocked' = [blocked EXCEPT ![o] = TRUE]
             \/ Fault("marker") /\ UNCHANGED blocked
          /\ Goto(w, "refundFailed")
          /\ UNCHANGED userVars
    /\ UNCHANGED <<status, refAmt, held, gwVars, planVars, version, attempts>>

\* restoreStatus ignores the error of its write.
RestoreStatus(w) ==
    /\ At(w, "restore")
    /\ \/ /\ SetStatus(ord[w], IF from[w] = "REFUND_REQUESTED" THEN "REFUND_REQUESTED" ELSE "COMPLETED")
          /\ Return(w)
          /\ UNCHANGED faults
       \/ WriteFails(w)
    /\ UNCHANGED <<refAmt, held, blocked, userVars, gwVars, attempts>>

\* So does handleGwFail.
MarkRefundFailed(w) ==
    /\ At(w, "refundFailed")
    /\ \/ SetStatus(ord[w], "REFUND_FAILED") /\ Return(w) /\ UNCHANGED faults
       \/ WriteFails(w)
    /\ UNCHANGED <<refAmt, held, blocked, userVars, gwVars, attempts>>

RefundedStatus(a) == IF a < Amount THEN "PARTIALLY_REFUNDED" ELSE "REFUNDED"

MarkRefundOk(w) ==
    LET o == ord[w] IN
    /\ At(w, "ok")
    /\ \/ /\ SetStatus(o, RefundedStatus(amt[w]))
          /\ refAmt' = [refAmt EXCEPT ![o] = amt[w]]
          /\ Return(w)
          /\ UNCHANGED faults
       \/ WriteFails(w)
    /\ UNCHANGED <<held, blocked, userVars, gwVars, attempts>>

\* Mutant of MarkRefundPending: the audit row of an earlier attempt stays.
MarkRefundPendingOldMarker(w) ==
    LET o == ord[w] IN
    /\ At(w, "pending")
    /\ SetStatus(o, "REFUND_PENDING")
    /\ refAmt' = [refAmt EXCEPT ![o] = amt[w]]
    /\ held' = [held EXCEPT ![o] = IF @ > 0 THEN @ ELSE toDeduct[w]]
    /\ Return(w)
    /\ UNCHANGED <<blocked, userVars, gwVars, bounds>>

\* The deduction stays and is recorded with the order in one transaction.
MarkRefundPending(w) ==
    LET o == ord[w] IN
    /\ At(w, "pending")
    /\ \/ /\ SetStatus(o, "REFUND_PENDING")
          /\ refAmt' = [refAmt EXCEPT ![o] = amt[w]]
          /\ held' = [held EXCEPT ![o] = toDeduct[w]]
          /\ Return(w)
          /\ UNCHANGED faults
       \/ WriteFails(w)
    /\ UNCHANGED <<blocked, userVars, gwVars, attempts>>

-----------------------------------------------------------------------------
(* The admin: QueryAndFinalizeRefund. *)

QueryAndFinalizeRefund(w, o) ==
    /\ At(w, "idle")
    /\ status[o] = "REFUND_PENDING"
    /\ pc' = [pc EXCEPT ![w] = "marker"]
    /\ ord' = [ord EXCEPT ![w] = o]
    /\ from' = [from EXCEPT ![w] = "REFUND_PENDING"]
    /\ amt' = [amt EXCEPT ![w] = refAmt[o]]
    /\ version' = [version EXCEPT ![w] = TRUE]
    /\ UNCHANGED <<orderVars, userVars, gwVars, force, toDeduct, bounds>>

LatestRefundPendingDetail(w) ==
    /\ At(w, "marker")
    /\ toDeduct' = [toDeduct EXCEPT ![w] = held[ord[w]]]
    /\ Goto(w, "query")
    /\ UNCHANGED <<orderVars, userVars, gwVars, from, amt, force, version, bounds>>

\* Mutant of QueryRefund: "pending" is taken for success.
QueryRefundOptimistic(w) ==
    /\ At(w, "query")
    /\ \/ gw[ord[w]] # "none" /\ Goto(w, "finalOk") /\ UNCHANGED planVars
       \/ gw[ord[w]] = "none" /\ Goto(w, "finalFail") /\ UNCHANGED planVars
       \/ Return(w)
    /\ UNCHANGED <<orderVars, userVars, gwVars, version, bounds>>

\* An error, an unknown status or "pending" leaves the order as it is.
QueryRefund(w) ==
    LET o == ord[w] IN
    /\ At(w, "query")
    /\ \/ gw[o] = "refunded" /\ Goto(w, "finalOk") /\ UNCHANGED planVars
       \/ gw[o] = "none" /\ Goto(w, "finalFail") /\ UNCHANGED planVars
       \/ Return(w)
    /\ UNCHANGED <<orderVars, userVars, gwVars, version, bounds>>

\* Mutant of SameAttempt: the version is not compared.
AnyAttempt(w) == status[ord[w]] = "REFUND_PENDING"

\* lockPendingRefundVersion: the order is the one that was read.
SameAttempt(w) == status[ord[w]] = "REFUND_PENDING" /\ version[w]

\* The held deduction becomes final.
FinalizePendingRefundSuccess(w) ==
    LET o == ord[w] IN
    /\ At(w, "finalOk")
    /\ \/ /\ SameAttempt(w)
          /\ SetStatus(o, RefundedStatus(amt[w]))
          /\ refAmt' = [refAmt EXCEPT ![o] = amt[w]]
          /\ Return(w)
          /\ UNCHANGED faults
       \/ /\ ~SameAttempt(w)
          /\ Return(w)
          /\ UNCHANGED <<status, version, refAmt, faults>>
       \/ WriteFails(w)
    /\ UNCHANGED <<held, blocked, userVars, gwVars, attempts>>

\* The held deduction is given back with the status change.
FinalizeRefundFailed(w) ==
    LET o == ord[w] IN
    /\ At(w, "finalFail")
    /\ \/ /\ SameAttempt(w)
          /\ SetStatus(o, "REFUND_FAILED")
          /\ UpdateBalance(o, toDeduct[w])
          /\ Return(w)
          /\ UNCHANGED faults
       \/ /\ ~SameAttempt(w)
          /\ Return(w)
          /\ UNCHANGED <<status, version, userVars, faults>>
       \/ WriteFails(w)
    /\ UNCHANGED <<refAmt, held, blocked, gwVars, attempts>>

\* The process dies; nothing resumes an order left REFUNDING.
Crash(w) ==
    /\ ~At(w, "idle")
    /\ Fault("crash")
    /\ Return(w)
    /\ UNCHANGED <<orderVars, userVars, gwVars, version, attempts>>

-----------------------------------------------------------------------------
Step(w) ==
    \/ SubmitRequest(w) \/ CheckRollback(w) \/ ClaimRefund(w) \/ RecheckRollback(w)
    \/ DeductBalance(w) \/ GwRefund(w) \/ RollbackRefund(w) \/ RestoreStatus(w)
    \/ MarkRefundFailed(w) \/ MarkRefundOk(w) \/ MarkRefundPending(w)
    \/ LatestRefundPendingDetail(w) \/ QueryRefund(w)
    \/ FinalizePendingRefundSuccess(w) \/ FinalizeRefundFailed(w)

Call(w, o) == RequestRefund(w, o) \/ PrepareRefund(w, o) \/ QueryAndFinalizeRefund(w, o)

Next ==
    \/ \E w \in Workers : Step(w) \/ Crash(w)
    \/ \E w \in Workers, o \in Orders : Call(w, o)
    \/ \E o \in Orders : GatewaySettles(o)
    \/ Spend

Spec == Init /\ [][Next]_vars

-----------------------------------------------------------------------------
(* Safety. *)

\* The writes that end an attempt name no expected status.  They are safe
\* because an order is REFUNDING for as long as its one owner works on it.
OneRefundOwner ==
    \A w \in Workers : pc[w] \in Claimed =>
        /\ status[ord[w]] = "REFUNDING"
        /\ \A v \in Workers \ {w} : pc[v] \in Claimed => ord[v] # ord[w]

\* An order that can be refunded (again) has not been paid back, and its user
\* has all credit back unless the failed restoration blocks every attempt.
AbortedRefundIsUndone ==
    \A o \in Orders : status[o] \in Refundable =>
        /\ gw[o] = "none" /\ back[o] = 0
        /\ taken[o] = 0 \/ blocked[o]

\* The audit row of an undecided refund tells exactly what is held, also when
\* it replaces the row of an earlier attempt.
PendingHoldsDeduction ==
    \A o \in Orders : status[o] = "REFUND_PENDING" => taken[o] = held[o]

\* An order reported as refunded has been paid back, once, and cost the user
\* no more credit than its refund amount.
SettledRefundIsPaid ==
    \A o \in Orders : status[o] \in Refunded =>
        /\ back[o] = 1
        /\ taken[o] <= refAmt[o]
        /\ (status[o] = "REFUNDED") = (refAmt[o] = Amount)

RefundAccount == INSTANCE RefundLedger

\* Whatever admins, gateway and user do, credit is taken once, given back only
\* before the gateway paid, and the gateway pays at most once.
ImplementsRefundLedger == RefundAccount!Spec

-----------------------------------------------------------------------------
(* Attempts that were cut off. *)

\* The order was claimed and its attempt has ended without a result: a crash,
\* or the write of the outcome failed.
Orphaned(o) ==
    status[o] = "REFUNDING" /\ \A w \in Workers : ~(pc[w] \in Claimed /\ ord[w] = o)

\* Since nobody knows how far the attempt came, nobody may act on the order any
\* more: it is not claimed or reported again, the user's credit is neither
\* taken nor given back, and the gateway pays back only what it had already
\* accepted, although other administrators hold plans for and queries of it.
OrphanedRefundIsFrozen ==
    [][\A o \in Orders : Orphaned(o) =>
        /\ Orphaned(o)' /\ taken'[o] = taken[o]
        /\ gw[o] # "open" => back'[o] = back[o]]_vars
=============================================================================
