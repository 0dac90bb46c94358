-------------------------- MODULE BatchImageQueue --------------------------
(***************************************************************************)
(* The Redis structures that carry one batch image job                     *)
(* (backend/internal/repository/batch_image_queue.go): how many times its  *)
(* id is in the ready list, whether it is in the delayed and in the active *)
(* sorted sets, and whether its inflight key exists.  Every method is one  *)
(* script or one MULTI, so each is one operator on the record.             *)
(***************************************************************************)
EXTENDS Naturals

QueueType == [ready : Nat, delayed : BOOLEAN, active : BOOLEAN, inflight : BOOLEAN]

EmptyQueue == [ready |-> 0, delayed |-> FALSE, active |-> FALSE, inflight |-> FALSE]

\* The job's id is somewhere a worker or a mover will find it.
Queued(q) == q.ready > 0 \/ q.delayed \/ q.active

\* An id whose inflight key exists is not pushed again.
Enqueue(q) ==
  IF q.inflight THEN q ELSE [q EXCEPT !.inflight = TRUE, !.ready = @ + 1]

ReserveReady(q) == [q EXCEPT !.ready = @ - 1, !.active = TRUE]

RequeueAfter(q) == [q EXCEPT !.active = FALSE, !.delayed = TRUE]

\* Mutant: the inflight key is left to its seven days.
AckKeepsInflight(q) == [q EXCEPT !.active = FALSE, !.delayed = FALSE]

Ack(q) == [q EXCEPT !.active = FALSE, !.delayed = FALSE, !.inflight = FALSE]

MoveDueDelayedToReady(q) == [q EXCEPT !.delayed = FALSE, !.ready = @ + 1]

RecoverStaleActive(q) == [q EXCEPT !.active = FALSE, !.ready = @ + 1]

=============================================================================
