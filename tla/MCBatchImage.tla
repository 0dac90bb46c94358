---------------------------- MODULE MCBatchImage ----------------------------
(* One batch image job on a small instance. *)
EXTENDS BatchImage

CONSTANTS w1, w2
=============================================================================
