------------------------- MODULE MCConcurrencySlots -------------------------
(* The slots of one account on a small instance. *)
EXTENDS ConcurrencySlots

CONSTANTS r1, r2, r3, s1, p1, p2

OneInstance == [h \in {r1, r2, r3, s1} |-> p1]

\* Two instances of the service share the account.
TwoInstances == [h \in {r1, r2} |-> IF h = r1 THEN p1 ELSE p2]

=============================================================================
