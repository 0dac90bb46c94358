--------------------------- MODULE MCTokenRefresh ---------------------------
(* Two instances that refresh one account, and a connection test on the first. *)
EXTENDS TokenRefresh

CONSTANTS w1, w2, t1, i1, i2

MCInstanceOf == [c \in {w1, w2, t1} |-> IF c = w2 THEN i2 ELSE i1]
=============================================================================
