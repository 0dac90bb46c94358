----------------------- MODULE MCSystemOperationLock -----------------------
(* Instances of SystemOperationLock for TLC. *)
EXTENDS SystemOperationLock

CONSTANTS o1, o2, o3
=============================================================================
