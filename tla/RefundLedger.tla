---------------------------- MODULE RefundLedger ----------------------------
(***************************************************************************)
(* What the refund workflow promises about money: credit is taken from the *)
(* user before the gateway returns the payment; it may be given back only  *)
(* while the gateway has returned nothing; the gateway returns the payment *)
(* at most once and nothing is taken or given back afterwards.             *)
(***************************************************************************)
EXTENDS Naturals

CONSTANTS Orders, Amount

VARIABLES taken,  \* credit currently taken from the user for an order
          back    \* how often the gateway returned the order's payment

account == <<taken, back>>

Init ==
    /\ taken = [o \in Orders |-> 0]
    /\ back = [o \in Orders |-> 0]

Take(o) ==
    /\ back[o] = 0
    /\ taken[o] = 0
    /\ \E n \in 1..Amount : taken' = [taken EXCEPT ![o] = n]
    /\ UNCHANGED back

GiveBack(o) ==
    /\ back[o] = 0
    /\ taken[o] > 0
    /\ taken' = [taken EXCEPT ![o] = 0]
    /\ UNCHANGED back

PayBack(o) ==
    /\ back[o] = 0
    /\ back' = [back EXCEPT ![o] = 1]
    /\ UNCHANGED taken

Next == \E o \in Orders : Take(o) \/ GiveBack(o) \/ PayBack(o)

Spec == Init /\ [][Next]_account
=============================================================================
