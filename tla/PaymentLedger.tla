--------------------------- MODULE PaymentLedger ---------------------------
(***************************************************************************)
(* What the payment service promises about money, and nothing else: an     *)
(* order is paid, then its benefit is granted, then the inviter's rebate   *)
(* is accrued; each happens at most once and in this order.  The handlers, *)
(* retries and failures of PaymentOrder implement these three steps.       *)
(***************************************************************************)
CONSTANT Orders

VARIABLES paid,     \* orders the gateway was paid for
          granted,  \* how often each order's benefit was granted
          rebated   \* how often each order's rebate was accrued

ledger == <<paid, granted, rebated>>

Init ==
    /\ paid = {}
    /\ granted = [o \in Orders |-> 0]
    /\ rebated = [o \in Orders |-> 0]

Pay(o) ==
    /\ o \notin paid
    /\ paid' = paid \cup {o}
    /\ UNCHANGED <<granted, rebated>>

Grant(o) ==
    /\ o \in paid
    /\ granted[o] = 0
    /\ granted' = [granted EXCEPT ![o] = 1]
    /\ UNCHANGED <<paid, rebated>>

Rebate(o) ==
    /\ granted[o] = 1
    /\ rebated[o] = 0
    /\ rebated' = [rebated EXCEPT ![o] = 1]
    /\ UNCHANGED <<paid, granted>>

Next == \E o \in Orders : Pay(o) \/ Grant(o) \/ Rebate(o)

Spec == Init /\ [][Next]_ledger
=============================================================================
