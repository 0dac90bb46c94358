-------------------------- MODULE BatchImageProofs --------------------------
(***************************************************************************)
(* Proofs about BatchImage, for every finite set of workers, every hold,   *)
(* cost and balance and every bound on retries and failed calls.           *)
(***************************************************************************)
EXTENDS BatchImage, FiniteSetTheorems, TLAPS

-----------------------------------------------------------------------------
(* The operations on the account. *)

\* The account adds up to t: FrozenIsOutstandingHold, of any account.
Balanced(a, t) ==
  /\ Outstanding(a) => a.frozen = OtherFrozen + Hold
  /\ ~Outstanding(a) => a.frozen = OtherFrozen
  /\ a.balance + a.frozen + a.charged = t

\* The fields of an account have their types.
LEMMA AccountFields ==
  ASSUME NEW a \in AccountType
  PROVE  /\ a.balance \in Int /\ a.frozen \in Int /\ a.charged \in Nat
         /\ a.claims \in SUBSET Claims /\ a.expired \in BOOLEAN
  BY DEF AccountType

\* Reserving adds the hold claim and keeps the account balanced.
LEMMA ReserveAccount ==
  ASSUME NEW a \in AccountType, NEW t, Balanced(a, t), CanReserve(a)
  PROVE  /\ Reserve(a) \in AccountType /\ Balanced(Reserve(a), t)
         /\ Reserve(a).claims = a.claims \cup {"hold"}
         /\ Reserve(a).charged = a.charged
  <1>1. CASE "hold" \in a.claims
    BY <1>1, AccountFields DEF Reserve
  <1>2. CASE "hold" \notin a.claims
    <2> DEFINE r == [a EXCEPT !.balance = @ - Hold, !.frozen = @ + Hold,
                              !.claims = @ \cup {"hold"}]
    <2>1. Reserve(a) = r
      BY <1>2 DEF Reserve
    <2>2. r \in AccountType
      <3>1. /\ a.balance - Hold \in Int /\ a.frozen + Hold \in Int
            /\ a.claims \cup {"hold"} \in SUBSET Claims
        BY AccountFields, AmountsAssumption DEF Claims
      <3> QED
        BY <3>1 DEF AccountType
    <2>3. /\ r.balance = a.balance - Hold /\ r.frozen = a.frozen + Hold
          /\ r.claims = a.claims \cup {"hold"} /\ r.charged = a.charged
          /\ r.expired = a.expired
      BY DEF AccountType
    <2>4. ~Outstanding(a) /\ Outstanding(r)
      BY <1>2, <2>3 DEF Outstanding, CanReserve
    <2>5. Balanced(r, t)
      BY <2>3, <2>4, AccountFields, AmountsAssumption DEF Balanced
    <2> QED
      BY <2>1, <2>2, <2>3, <2>5
  <1> QED
    BY <1>1, <1>2

\* Capturing adds the capture claim and the cost, both once.
LEMMA CaptureAccount ==
  ASSUME NEW a \in AccountType, NEW t, Balanced(a, t), CanCapture(a)
  PROVE  /\ Capture(a) \in AccountType /\ Balanced(Capture(a), t)
         /\ Capture(a).claims = a.claims \cup {"capture"}
         /\ "capture" \in a.claims => Capture(a).charged = a.charged
         /\ "capture" \notin a.claims => Capture(a).charged = a.charged + Cost
  <1>1. CASE "capture" \in a.claims
    BY <1>1, AccountFields DEF Capture
  <1>2. CASE "capture" \notin a.claims
    <2> DEFINE h == IF a.expired THEN 0 ELSE Hold
               c == Capture(a)
    <2>0. h \in Nat /\ (a.expired => h = 0) /\ (~a.expired => h = Hold)
      BY AmountsAssumption
    <2>1. c = [a EXCEPT !.balance = @ + h - Cost, !.frozen = @ - h,
                        !.charged = @ + Cost, !.claims = @ \cup {"capture"}]
      BY <1>2 DEF Capture
    <2> HIDE DEF h, c
    <2>2. c \in AccountType
      <3>1. /\ a.balance + h - Cost \in Int /\ a.frozen - h \in Int
            /\ a.charged + Cost \in Nat /\ a.claims \cup {"capture"} \in SUBSET Claims
        BY <2>0, AccountFields, AmountsAssumption DEF Claims
      <3> QED
        BY <2>1, <3>1 DEF AccountType
    <2>3. /\ c.balance = a.balance + h - Cost /\ c.frozen = a.frozen - h
          /\ c.claims = a.claims \cup {"capture"} /\ c.charged = a.charged + Cost
          /\ c.expired = a.expired
      BY <2>1 DEF AccountType
    <2>4. ~Outstanding(c) /\ (Outstanding(a) <=> ~a.expired)
      BY <1>2, <2>3 DEF Outstanding, CanCapture
    <2>5. Balanced(c, t)
      BY <2>0, <2>3, <2>4, AccountFields, AmountsAssumption DEF Balanced
    <2> QED
      BY <1>2, <2>2, <2>3, <2>5 DEF c
  <1> QED
    BY <1>1, <1>2

\* Releasing adds the release claim unless the hold was captured.
LEMMA ReleaseAccount ==
  ASSUME NEW a \in AccountType, NEW t, Balanced(a, t)
  PROVE  /\ Release(a) \in AccountType /\ Balanced(Release(a), t)
         /\ "capture" \in a.claims => Release(a).claims = a.claims
         /\ "capture" \notin a.claims => Release(a).claims = a.claims \cup {"release"}
         /\ Release(a).charged = a.charged
  <1>1. CASE a.claims \cap {"capture", "release"} # {}
    BY <1>1, AccountFields DEF Release
  <1>2. CASE a.claims \cap {"capture", "release"} = {}
    <2> DEFINE h == IF Outstanding(a) THEN Hold ELSE 0
               r == Release(a)
    <2>0. h \in Nat /\ (Outstanding(a) => h = Hold) /\ (~Outstanding(a) => h = 0)
      BY AmountsAssumption
    <2>1. r = [a EXCEPT !.balance = @ + h, !.frozen = @ - h, !.claims = @ \cup {"release"}]
      BY <1>2 DEF Release
    <2> HIDE DEF h, r
    <2>2. r \in AccountType
      <3>1. /\ a.balance + h \in Int /\ a.frozen - h \in Int
            /\ a.claims \cup {"release"} \in SUBSET Claims
        BY <2>0, AccountFields, AmountsAssumption DEF Claims
      <3> QED
        BY <2>1, <3>1 DEF AccountType
    <2>3. /\ r.balance = a.balance + h /\ r.frozen = a.frozen - h
          /\ r.claims = a.claims \cup {"release"} /\ r.charged = a.charged
          /\ r.expired = a.expired
      BY <2>1 DEF AccountType
    <2>4. ~Outstanding(r)
      BY <2>3 DEF Outstanding
    <2>5. Balanced(r, t)
      BY <2>0, <2>3, <2>4, AccountFields, AmountsAssumption DEF Balanced
    <2> QED
      BY <1>2, <2>2, <2>3, <2>5 DEF r
  <1> QED
    BY <1>1, <1>2

\* The timed refund leaves the claims alone.
LEMMA ExpireAccount ==
  ASSUME NEW a \in AccountType, NEW t, Balanced(a, t), CanExpire(a)
  PROVE  /\ Expire(a) \in AccountType /\ Balanced(Expire(a), t)
         /\ Expire(a).claims = a.claims /\ Expire(a).charged = a.charged
  <1> DEFINE e == Expire(a)
  <1>1. e \in AccountType
    <2>1. a.balance + Hold \in Int /\ a.frozen - Hold \in Int
      BY AccountFields, AmountsAssumption
    <2> QED
      BY <2>1 DEF AccountType, Expire
  <1>2. /\ e.balance = a.balance + Hold /\ e.frozen = a.frozen - Hold
        /\ e.claims = a.claims /\ e.charged = a.charged /\ e.expired
    BY DEF AccountType, Expire
  <1>3. Balanced(e, t)
    BY <1>2, AccountFields, AmountsAssumption DEF Balanced, CanExpire, Outstanding
  <1> QED
    BY <1>1, <1>2, <1>3

\* FrozenIsOutstandingHold says that the account is balanced.
LEMMA BalancedIsFrozen ==
  ASSUME acct \in AccountType
  PROVE  FrozenIsOutstandingHold <=> Balanced(acct, total)
  BY AccountFields, AmountsAssumption DEF FrozenIsOutstandingHold, Balanced

-----------------------------------------------------------------------------
(* What a step may do to the account and to the queue. *)

\* The account is changed by the operations of FrozenBalance only, each under
\* its guard.
LEMMA AccountMoves ==
  [Next]_vars =>
    /\ UNCHANGED total
    /\ \/ UNCHANGED acct
       \/ CanReserve(acct) /\ acct' = Reserve(acct)
       \/ CanCapture(acct) /\ acct' = Capture(acct)
       \/ acct' = Release(acct)
       \/ CanExpire(acct) /\ acct' = Expire(acct)
  <1> SUFFICES ASSUME [Next]_vars
               PROVE  /\ UNCHANGED total
                      /\ \/ UNCHANGED acct
                         \/ CanReserve(acct) /\ acct' = Reserve(acct)
                         \/ CanCapture(acct) /\ acct' = Capture(acct)
                         \/ acct' = Release(acct)
                         \/ CanExpire(acct) /\ acct' = Expire(acct)
    OBVIOUS
  <1> USE DEF history
  <1>1. CASE Submit
    BY <1>1 DEF Submit, CreateBatchImageJob, SubmitReserve, CreatePendingItems, SubmitUpload,
       ProviderSubmit, SubmitLink, AbortOrphan, SubmitEnqueue, SubmitRelease,
       RecordSubmitFailure, TouchSubmitting, SubmitAt, Billing, ReleaseHold
  <1>2. CASE Client
    BY <1>2 DEF Client, SubmitAgain, CancelRead, CancelAtProvider, CancelEnqueue,
       CancelTransition, CancelRelease, ClientAt, Billing, ReleaseHold
  <1>3. CASE Recovery
    BY <1>3 DEF Recovery, ListStaleUnsubmitted, FailStaleUnsubmitted, RecoveryRelease,
       RecoveryEnqueue, RecoveryAt, Billing, ReleaseHold
  <1>4. ASSUME NEW w \in Workers, Worker(w)
        PROVE  /\ UNCHANGED total
               /\ \/ UNCHANGED acct
                  \/ CanCapture(acct) /\ acct' = Capture(acct)
                  \/ acct' = Release(acct)
    BY <1>4 DEF Worker, QueueReserve, TryAcquireJobLock, Process, QueueReturn, Unlock,
       PipelineRead, ProcessRead, ProviderGet, ProcessTransition, Index, ReleaseTerminalHold,
       Settle, SettleCapture, RecordSettlementFailure, ExhaustedRelease, ExhaustedFail,
       MarkSettled, Recheck, ProcessAt, Billing, ReleaseHold
  <1>5. CASE Environment
    BY <1>5 DEF Environment, MoveDueDelayed, RecoverActive, LockExpires, GoStale, ExpireHold,
       ProviderEnds, CleanupOutput, Crash, Pause
  <1>6. CASE UNCHANGED vars
    BY <1>6 DEF vars
  <1> QED
    BY <1>1, <1>2, <1>3, <1>4, <1>5, <1>6 DEF Next

\* The queue is changed by the scripts of BatchImageQueue only.
LEMMA QueueMoves ==
  [Next]_vars =>
    \/ UNCHANGED queue \/ queue' = Enqueue(queue)
    \/ queue.ready > 0 /\ queue' = ReserveReady(queue)
    \/ queue' = RequeueAfter(queue) \/ queue' = Ack(queue)
    \/ queue' = MoveDueDelayedToReady(queue) \/ queue' = RecoverStaleActive(queue)
  <1> SUFFICES ASSUME [Next]_vars
               PROVE  \/ UNCHANGED queue \/ queue' = Enqueue(queue)
                      \/ queue.ready > 0 /\ queue' = ReserveReady(queue)
                      \/ queue' = RequeueAfter(queue) \/ queue' = Ack(queue)
                      \/ queue' = MoveDueDelayedToReady(queue)
                      \/ queue' = RecoverStaleActive(queue)
    OBVIOUS
  <1>1. CASE Submit
    BY <1>1 DEF Submit, CreateBatchImageJob, SubmitReserve, CreatePendingItems, SubmitUpload,
       ProviderSubmit, SubmitLink, AbortOrphan, SubmitEnqueue, SubmitRelease,
       RecordSubmitFailure, TouchSubmitting, TryEnqueue
  <1>2. CASE Client
    BY <1>2 DEF Client, SubmitAgain, CancelRead, CancelAtProvider, CancelEnqueue,
       CancelTransition, CancelRelease, TryEnqueue
  <1>3. CASE Recovery
    BY <1>3 DEF Recovery, ListStaleUnsubmitted, FailStaleUnsubmitted, RecoveryRelease,
       RecoveryEnqueue, TryEnqueue
  <1>4. ASSUME NEW w \in Workers, Worker(w)
        PROVE  \/ UNCHANGED queue
               \/ queue.ready > 0 /\ queue' = ReserveReady(queue)
               \/ queue' = RequeueAfter(queue) \/ queue' = Ack(queue)
    BY <1>4 DEF Worker, QueueReserve, TryAcquireJobLock, Process, QueueReturn, Unlock,
       PipelineRead, ProcessRead, ProviderGet, ProcessTransition, Index, ReleaseTerminalHold,
       Settle, SettleCapture, RecordSettlementFailure, ExhaustedRelease, ExhaustedFail,
       MarkSettled, Recheck, ProcessAt
  <1>5. CASE Environment
    BY <1>5 DEF Environment, MoveDueDelayed, RecoverActive, LockExpires, GoStale, ExpireHold,
       ProviderEnds, CleanupOutput, Crash, Pause
  <1>6. CASE UNCHANGED vars
    BY <1>6 DEF vars
  <1> QED
    BY <1>1, <1>2, <1>3, <1>4, <1>5, <1>6 DEF Next

\* Every operation keeps the account balanced.
LEMMA AccountStep ==
  ASSUME acct \in AccountType, Balanced(acct, total), [Next]_vars
  PROVE  acct' \in AccountType /\ Balanced(acct, total)'
  <1>1. \/ UNCHANGED <<acct, total>>
        \/ acct' \in AccountType /\ Balanced(acct', total)
    BY AccountMoves, ReserveAccount, CaptureAccount, ReleaseAccount, ExpireAccount
  <1>2. UNCHANGED total
    BY AccountMoves
  <1>3. Balanced(acct', total) => Balanced(acct, total)'
    BY <1>2 DEF Balanced, Outstanding
  <1>4. UNCHANGED <<acct, total>> => Balanced(acct, total)'
    BY DEF Balanced, Outstanding
  <1> QED
    BY <1>1, <1>3, <1>4

\* The scripts keep the record of the queue typed, and an id with an inflight
\* key in one of the structures.
LEMMA QueueStep ==
  ASSUME queue \in QueueType, InflightJobIsQueued, [Next]_vars
  PROVE  queue' \in QueueType /\ InflightJobIsQueued'
  <1>0. queue.ready \in Nat /\ queue.ready + 1 \in Nat /\ queue.ready + 1 > 0
    BY DEF QueueType
  <1>a. queue.ready > 0 => queue.ready - 1 \in Nat
    BY <1>0
  <1>1. CASE UNCHANGED queue
    BY <1>1 DEF InflightJobIsQueued, Queued
  <1>2. CASE queue' = Enqueue(queue)
    BY <1>0, <1>2 DEF Enqueue, QueueType, InflightJobIsQueued, Queued
  <1>3. CASE queue.ready > 0 /\ queue' = ReserveReady(queue)
    BY <1>a, <1>3 DEF ReserveReady, QueueType, InflightJobIsQueued, Queued
  <1>4. CASE queue' = RequeueAfter(queue)
    BY <1>0, <1>4 DEF RequeueAfter, QueueType, InflightJobIsQueued, Queued
  <1>5. CASE queue' = Ack(queue)
    BY <1>0, <1>5 DEF Ack, QueueType, InflightJobIsQueued, Queued
  <1>6. CASE queue' = MoveDueDelayedToReady(queue)
    BY <1>0, <1>6 DEF MoveDueDelayedToReady, QueueType, InflightJobIsQueued, Queued
  <1>7. CASE queue' = RecoverStaleActive(queue)
    BY <1>0, <1>7 DEF RecoverStaleActive, QueueType, InflightJobIsQueued, Queued
  <1> QED
    BY <1>1, <1>2, <1>3, <1>4, <1>5, <1>6, <1>7, QueueMoves

-----------------------------------------------------------------------------
(* Types. *)

JobType == [status : Statuses, named : BOOLEAN, retries : Nat, stale : BOOLEAN]

\* The row changes by a write of its status, the request's link, the sweeper's
\* clock or one more retry.
LEMMA JobMoves ==
  [Next]_vars =>
    \/ UNCHANGED job
    \/ \E s \in Statuses : SetStatus(s)
    \/ job' = [job EXCEPT !.status = "submitted", !.named = TRUE, !.stale = FALSE]
    \/ \E b \in BOOLEAN : job' = [job EXCEPT !.stale = b]
    \/ job' = [job EXCEPT !.retries = @ + 1]
  <1> SUFFICES ASSUME [Next]_vars
               PROVE  \/ UNCHANGED job
                      \/ \E s \in Statuses : SetStatus(s)
                      \/ job' = [job EXCEPT !.status = "submitted", !.named = TRUE, !.stale = FALSE]
                      \/ \E b \in BOOLEAN : job' = [job EXCEPT !.stale = b]
                      \/ job' = [job EXCEPT !.retries = @ + 1]
    OBVIOUS
  <1>0. {"created", "uploading", "running", "indexing", "settling", "completed", "failed",
         "cancelled", "output_deleted"} \subseteq Statuses
    BY DEF Statuses, Unsubmitted, Terminal
  <1>1. CASE Submit
    BY <1>0, <1>1 DEF Submit, CreateBatchImageJob, SubmitReserve, CreatePendingItems,
       SubmitUpload, ProviderSubmit, SubmitLink, AbortOrphan, SubmitEnqueue, SubmitRelease,
       RecordSubmitFailure, TouchSubmitting, Transition
  <1>2. CASE Client
    BY <1>0, <1>2 DEF Client, SubmitAgain, CancelRead, CancelAtProvider, CancelEnqueue,
       CancelTransition, CancelRelease, Transition
  <1>3. CASE Recovery
    BY <1>0, <1>3 DEF Recovery, ListStaleUnsubmitted, FailStaleUnsubmitted, RecoveryRelease,
       RecoveryEnqueue
  <1>4. ASSUME NEW w \in Workers, Worker(w)
        PROVE  \/ UNCHANGED job
               \/ \E s \in Statuses : SetStatus(s)
               \/ job' = [job EXCEPT !.retries = @ + 1]
    <2>1. CASE ProcessTransition(w)
      BY <1>0, <2>1 DEF ProcessTransition, Transition
    <2>2. CASE ExhaustedFail(w) \/ MarkSettled(w)
      BY <1>0, <2>2 DEF ExhaustedFail, MarkSettled, Transition
    <2>3. CASE ExhaustedRelease(w) \/ RecordSettlementFailure(w)
      BY <2>3 DEF ExhaustedRelease, RecordSettlementFailure, ReleaseHold, Billing
    <2> QED
      BY <1>4, <2>1, <2>2, <2>3 DEF Worker, QueueReserve, TryAcquireJobLock, Process,
         QueueReturn, Unlock, PipelineRead, ProcessRead, ProviderGet, Index,
         ReleaseTerminalHold, Settle, SettleCapture, Recheck
  <1>5. CASE Environment
    BY <1>0, <1>5 DEF Environment, MoveDueDelayed, RecoverActive, LockExpires, GoStale,
       ExpireHold, ProviderEnds, CleanupOutput, Crash, Pause
  <1>6. CASE UNCHANGED vars
    BY <1>6 DEF vars
  <1> QED
    BY <1>1, <1>2, <1>3, <1>4, <1>5, <1>6 DEF Next

\* Every write keeps the row typed.
LEMMA JobTypeStep ==
  ASSUME job \in JobType, [Next]_vars
  PROVE  job' \in JobType
  <1>1. job.retries + 1 \in Nat
    BY DEF JobType
  <1>2. ASSUME NEW s \in Statuses, SetStatus(s) PROVE job' \in JobType
    BY <1>2 DEF SetStatus, JobType
  <1>3. "submitted" \in Statuses
    BY DEF Statuses
  <1> QED
    BY <1>1, <1>2, <1>3, JobMoves DEF JobType

\* The locks, the provider, the processes and the count of failed calls.
ControlType ==
  /\ lock \in Workers \cup {"free", "dead"}
  /\ provider \in Outcomes \cup {"none", "active"}
  /\ DOMAIN pc = Processes
  /\ paused \subseteq Busy
  /\ stalled \in BOOLEAN
  /\ faults \in 0..MaxFaults

\* A step that moves no worker, or one worker to a place that is not idle, and
\* pauses nobody.
LEMMA GotoType ==
  ASSUME ControlType, NEW p \in Processes, NEW l, Goto(p, l), UNCHANGED paused,
         p \in Workers => l # "idle"
  PROVE  DOMAIN pc' = Processes /\ paused' \subseteq Busy'
  BY DEF ControlType, Goto, Busy

\* At most one call fails in a step.
LEMMA FaultMoves == [Next]_vars => Fault \/ NoFault
  <1> SUFFICES ASSUME [Next]_vars PROVE Fault \/ NoFault
    OBVIOUS
  <1> USE DEF NoFault, Transition, Billing, ReleaseHold, TryEnqueue
  <1>1. CASE Submit
    BY <1>1 DEF Submit, CreateBatchImageJob, SubmitReserve, CreatePendingItems, SubmitUpload,
       ProviderSubmit, SubmitLink, AbortOrphan, SubmitEnqueue, SubmitRelease,
       RecordSubmitFailure, TouchSubmitting
  <1>2. CASE Client
    BY <1>2 DEF Client, SubmitAgain, CancelRead, CancelAtProvider, CancelEnqueue,
       CancelTransition, CancelRelease
  <1>3. CASE Recovery
    BY <1>3 DEF Recovery, ListStaleUnsubmitted, FailStaleUnsubmitted, RecoveryRelease,
       RecoveryEnqueue
  <1>4. ASSUME NEW w \in Workers, Worker(w) PROVE Fault \/ NoFault
    BY <1>4 DEF Worker, QueueReserve, TryAcquireJobLock, Process, QueueReturn, Unlock,
       PipelineRead, ProcessRead, ProviderGet, ProcessTransition, Index, ReleaseTerminalHold,
       Settle, SettleCapture, RecordSettlementFailure, ExhaustedRelease, ExhaustedFail,
       MarkSettled, Recheck
  <1>5. CASE Environment
    BY <1>5 DEF Environment, MoveDueDelayed, RecoverActive, LockExpires, GoStale, ExpireHold,
       ProviderEnds, CleanupOutput, Crash, Pause
  <1>6. CASE UNCHANGED vars
    BY <1>6 DEF vars
  <1> QED
    BY <1>1, <1>2, <1>3, <1>4, <1>5, <1>6 DEF Next

\* A failed call is counted up to the bound.
LEMMA FaultType ==
  ASSUME ControlType, [Next]_vars
  PROVE  faults' \in 0..MaxFaults
  BY FaultMoves, RetriesAssumption DEF ControlType, Fault, NoFault

\* Workers are paused by a stall only, and a stall is remembered.
LEMMA StallMoves ==
  ASSUME [Next]_vars
  PROVE  (UNCHANGED stalled /\ paused' \subseteq paused) \/ stalled' = TRUE
  <1> USE DEF history
  <1>1. CASE Submit
    BY <1>1 DEF Submit, CreateBatchImageJob, SubmitReserve, CreatePendingItems, SubmitUpload,
       ProviderSubmit, SubmitLink, AbortOrphan, SubmitEnqueue, SubmitRelease,
       RecordSubmitFailure, TouchSubmitting, SubmitAt
  <1>2. CASE Client \/ Recovery
    BY <1>2 DEF Client, SubmitAgain, CancelRead, CancelAtProvider, CancelEnqueue,
       CancelTransition, CancelRelease, ClientAt, Recovery, ListStaleUnsubmitted,
       FailStaleUnsubmitted, RecoveryRelease, RecoveryEnqueue, RecoveryAt
  <1>3. ASSUME NEW w \in Workers, Worker(w)
        PROVE  UNCHANGED stalled /\ paused' \subseteq paused
    BY <1>3 DEF Worker, QueueReserve, TryAcquireJobLock, Process, QueueReturn, Unlock,
       PipelineRead, ProcessRead, ProviderGet, ProcessTransition, Index, ReleaseTerminalHold,
       Settle, SettleCapture, RecordSettlementFailure, ExhaustedRelease, ExhaustedFail,
       MarkSettled, Recheck, ProcessAt
  <1>4. CASE Environment
    BY <1>4 DEF Environment, MoveDueDelayed, RecoverActive, LockExpires, GoStale, ExpireHold,
       ProviderEnds, CleanupOutput, Crash, Pause
  <1>5. CASE UNCHANGED vars
    BY <1>5 DEF vars
  <1> QED
    BY <1>1, <1>2, <1>3, <1>4, <1>5 DEF Next

\* Whether somebody stalled is a Boolean.
LEMMA StallType ==
  ASSUME ControlType, [Next]_vars
  PROVE  stalled' \in BOOLEAN
  BY StallMoves DEF ControlType

\* The request, the client and the sweeper move themselves only.
LEMMA ClientMoves ==
  Submit \/ Client \/ Recovery =>
    UNCHANGED pc \/ \E l : Goto("submit", l) \/ Goto("client", l) \/ Goto("recovery", l)
  <1> USE DEF Transition, Billing, ReleaseHold
  <1>1. Submit => UNCHANGED pc \/ \E l : Goto("submit", l)
    BY DEF Submit, CreateBatchImageJob, SubmitReserve, CreatePendingItems, SubmitUpload,
       ProviderSubmit, SubmitLink, AbortOrphan, SubmitEnqueue, SubmitRelease,
       RecordSubmitFailure, TouchSubmitting
  <1>2. Client => \E l : Goto("client", l)
    BY DEF Client, SubmitAgain, CancelRead, CancelAtProvider, CancelEnqueue, CancelTransition,
       CancelRelease
  <1>3. Recovery => \E l : Goto("recovery", l)
    BY DEF Recovery, ListStaleUnsubmitted, FailStaleUnsubmitted, RecoveryRelease, RecoveryEnqueue
  <1> QED
    BY <1>1, <1>2, <1>3

\* A cancelled batch is one of the provider's states.
LEMMA CancelledType ==
  ASSUME ControlType PROVE CancelledBatch \in Outcomes \cup {"none", "active"}
  BY DEF ControlType, CancelledBatch, Outcomes

\* The request, the client and the sweeper leave locks and pauses alone.
LEMMA ClientControl ==
  ASSUME ControlType, Submit \/ Client \/ Recovery
  PROVE  ControlType'
  <1>0. /\ "submit" \in Processes /\ "client" \in Processes /\ "recovery" \in Processes
        /\ "submit" \notin Workers /\ "client" \notin Workers /\ "recovery" \notin Workers
    BY WorkersAssumption DEF Processes
  <1>1. UNCHANGED <<lock, paused>>
    BY DEF Submit, CreateBatchImageJob, SubmitReserve, CreatePendingItems, SubmitUpload,
       ProviderSubmit, SubmitLink, AbortOrphan, SubmitEnqueue, SubmitRelease,
       RecordSubmitFailure, TouchSubmitting, SubmitAt, Client, SubmitAgain, CancelRead,
       CancelAtProvider, CancelEnqueue, CancelTransition, CancelRelease, ClientAt, Recovery,
       ListStaleUnsubmitted, FailStaleUnsubmitted, RecoveryRelease, RecoveryEnqueue, RecoveryAt
  <1>3. provider' \in Outcomes \cup {"none", "active"}
    BY CancelledType DEF ControlType, Submit, CreateBatchImageJob, SubmitReserve,
       CreatePendingItems, SubmitUpload,
       ProviderSubmit, SubmitLink, AbortOrphan, SubmitEnqueue, SubmitRelease,
       RecordSubmitFailure, TouchSubmitting, Client, SubmitAgain, CancelRead,
       CancelAtProvider, CancelEnqueue, CancelTransition, CancelRelease, Recovery,
       ListStaleUnsubmitted, FailStaleUnsubmitted, RecoveryRelease, RecoveryEnqueue
  <1>5. DOMAIN pc' = Processes /\ paused' \subseteq Busy'
    BY <1>0, <1>1, ClientMoves, GotoType DEF ControlType, Busy
  <1> QED
    BY <1>1, <1>3, <1>5, FaultType, StallType DEF ControlType, Next

\* A worker keeps the types; it becomes idle when it has unlocked the job.
LEMMA WorkerControl ==
  ASSUME ControlType, NEW w \in Workers, Worker(w)
  PROVE  ControlType'
  <1>0. w \in Processes
    BY DEF Processes
  <1>f. faults' \in 0..MaxFaults /\ stalled' \in BOOLEAN
    BY FaultType, StallType DEF Next
  <1>1. CASE Process(w)
    <2>1. UNCHANGED <<lock, paused, provider>>
      BY <1>1 DEF Process, PipelineRead, ProcessRead, ProviderGet, ProcessTransition, Index,
         ReleaseTerminalHold, Settle, SettleCapture, RecordSettlementFailure,
         ExhaustedRelease, ExhaustedFail, MarkSettled, Recheck, ProcessAt
    <2>3. \E l : Goto(w, l) /\ l # "idle"
      <3>1. CASE Settle(w)
        BY <3>1 DEF Settle, SettleNext
      <3>2. CASE ProcessTransition(w)
        BY <3>2 DEF ProcessTransition, Transition
      <3>3. CASE RecordSettlementFailure(w)
        BY <3>3 DEF RecordSettlementFailure
      <3> QED
        BY <1>1, <3>1, <3>2, <3>3 DEF Process, PipelineRead, ProcessRead, ProviderGet, Index,
           ReleaseTerminalHold, SettleCapture, ExhaustedRelease, ExhaustedFail, MarkSettled,
           Recheck, Transition, Billing, ReleaseHold
    <2> QED
      BY <1>0, <1>f, <2>1, <2>3, GotoType DEF ControlType
  <1>2. CASE QueueReserve(w)
    BY <1>0, <1>f, <1>2, GotoType DEF QueueReserve, ControlType
  <1>3. CASE TryAcquireJobLock(w)
    BY <1>0, <1>f, <1>3, GotoType DEF TryAcquireJobLock, ControlType
  <1>4. CASE QueueReturn(w)
    BY <1>0, <1>f, <1>4, GotoType DEF QueueReturn, ControlType
  <1>5. CASE Unlock(w)
    BY <1>0, <1>f, <1>5 DEF Unlock, Goto, ControlType, Busy
  <1> QED
    BY <1>1, <1>2, <1>3, <1>4, <1>5 DEF Worker

\* Time, the provider and crashes keep the types.
LEMMA EnvironmentControl ==
  ASSUME ControlType, Environment
  PROVE  ControlType'
  <1>f. faults' \in 0..MaxFaults /\ stalled' \in BOOLEAN
    BY FaultType, StallType DEF Next
  <1>1. CASE MoveDueDelayed \/ RecoverActive \/ GoStale \/ ExpireHold \/ CleanupOutput
    BY <1>1, <1>f DEF MoveDueDelayed, RecoverActive, GoStale, ExpireHold, CleanupOutput,
       ControlType, Busy
  <1>2. CASE LockExpires
    BY <1>2, <1>f DEF LockExpires, ControlType, Busy
  <1>3. CASE ProviderEnds
    BY <1>3, <1>f DEF ProviderEnds, ControlType, Busy
  <1>4. CASE Crash
    <2>1. PICK p \in Processes :
            /\ Goto(p, IF p = "submit" THEN "done" ELSE "idle")
            /\ lock' = IF lock = p THEN "dead" ELSE lock
            /\ paused' = paused \ {p}
      BY <1>4 DEF Crash
    <2>2. DOMAIN pc' = Processes /\ paused' \subseteq Busy'
      BY <2>1 DEF Goto, ControlType, Busy
    <2> QED
      BY <1>4, <2>1, <2>2, <1>f DEF Crash, ControlType
  <1>5. ASSUME NEW w \in Workers, Pause(w) PROVE ControlType'
    BY <1>5, <1>f DEF Pause, ControlType, Busy
  <1> QED
    BY <1>1, <1>2, <1>3, <1>4, <1>5 DEF Environment

\* Types, the account's equation and the queue are kept together: an account
\* is typed because it is balanced.
BaseInv == TypeOK /\ FrozenIsOutstandingHold /\ InflightJobIsQueued

\* The job starts without row, hold and queue entry.
LEMMA BaseInit == Init => BaseInv
  <1> SUFFICES ASSUME Init PROVE BaseInv
    OBVIOUS
  <1>1. PICK b \in Balances : acct = NewAccount(b) /\ total = b + OtherFrozen
    BY DEF Init
  <1>2. b \in Int
    BY RetriesAssumption
  <1>3. acct \in AccountType /\ FrozenIsOutstandingHold
    BY <1>1, <1>2, AmountsAssumption
       DEF NewAccount, AccountType, FrozenIsOutstandingHold, Outstanding
  <1>4. job \in [status : Statuses, named : BOOLEAN, retries : Nat, stale : BOOLEAN]
    BY DEF Init, Statuses
  <1>5. queue \in QueueType /\ InflightJobIsQueued
    BY DEF Init, EmptyQueue, QueueType, InflightJobIsQueued
  <1>6. stalled \in BOOLEAN
    BY DEF Init
  <1>7. faults \in 0..MaxFaults /\ DOMAIN pc = Processes /\ paused \subseteq Busy
    BY RetriesAssumption DEF Init, Busy
  <1> QED
    BY <1>3, <1>4, <1>5, <1>6, <1>7 DEF Init, BaseInv, TypeOK

\* Every step keeps types, account and queue.
LEMMA BaseStep == BaseInv /\ [Next]_vars => BaseInv'
  <1> SUFFICES ASSUME BaseInv, [Next]_vars PROVE BaseInv'
    OBVIOUS
  <1>1. job' \in JobType
    BY JobTypeStep DEF BaseInv, TypeOK, JobType
  <1>2. acct' \in AccountType /\ Balanced(acct, total)'
    BY AccountStep, BalancedIsFrozen DEF BaseInv, TypeOK
  <1>3. queue' \in QueueType /\ InflightJobIsQueued'
    BY QueueStep DEF BaseInv, TypeOK
  <1>4. ControlType => ControlType'
    <2>1. CASE UNCHANGED vars
      BY <2>1 DEF vars, history, ControlType, Busy
    <2> QED
      BY <2>1, ClientControl, WorkerControl, EnvironmentControl DEF Next
  <1>5. FrozenIsOutstandingHold'
    <2>1. acct'.frozen \in Int
      BY <1>2, AccountFields
    <2> QED
      BY <1>2, <2>1, AmountsAssumption DEF FrozenIsOutstandingHold, Balanced
  <1> QED
    BY <1>1, <1>2, <1>3, <1>4, <1>5 DEF BaseInv, TypeOK, ControlType, JobType

\* Types, account and queue hold in every reachable state.
LEMMA BaseInvariance == Spec => []BaseInv
  BY BaseInit, BaseStep, PTL DEF Spec

\* The row, the account, the queue and the processes keep their types; in
\* particular the ready list never holds a negative number of ids.
THEOREM TypeCorrect == Spec => []TypeOK
  BY BaseInvariance, PTL DEF BaseInv

\* The user's account always adds up, however often and in whatever order the
\* hold is reserved, captured, released and refunded by time.
THEOREM FrozenSafe == Spec => []FrozenIsOutstandingHold
  BY BaseInvariance, PTL DEF BaseInv

\* A job that cannot be enqueued again because of its inflight key is in the
\* ready list, the delayed or the active set.
THEOREM InflightSafe == Spec => []InflightJobIsQueued
  BY BaseInvariance, PTL DEF BaseInv

-----------------------------------------------------------------------------
(* The inductive invariant about the row, the batch and the claims. *)

\* Where the request stands before it links the batch to the row, or when it
\* will not; the statuses before the link; the batches that have an output.
Early    == {"idle", "reserve", "items", "upload", "provider", "link"}
Unlinked == Early \cup {"releaseRecord", "release", "record", "recordRetry"}
Fresh    == {"none", "created", "uploading"}
Output   == {"good", "costly", "unreadable"}

\* The row names a batch from the request's link on; a batch is only linked to
\* a job whose hold was reserved and not released.
LinkInv ==
  /\ pc["submit"] \in Early \ {"link"} => provider = "none"
  /\ pc["submit"] \in Unlinked => ~job.named
  /\ pc["submit"] \in {"items", "upload", "provider", "link"} => "hold" \in acct.claims
  /\ job.named => "hold" \in acct.claims /\ job.status \notin Fresh
  /\ job.status \notin Fresh \cup {"failed", "cancelled"} => job.named
  /\ "release" \in acct.claims /\ pc["submit"] \in Early => job.status \notin Fresh

\* What the status of a job that names a batch says about the batch.
EndedInv ==
  job.named =>
    /\ job.status = "indexing" => provider \in Output
    /\ job.status \in {"settling", "completed", "output_deleted"} => provider \in {"good", "costly"}
    /\ job.status = "cancelled" => provider = "cancelled"
    /\ job.status = "failed" => provider \in Output \cup {"failed"}

\* What a worker has seen of the batch is still so, whoever else works on it.
WorkerInv ==
  \A w \in Workers :
    /\ pc[w] \in {"poll", "pollRunning", "toRunning"} => job.named
    /\ pc[w] \in {"toIndexing", "index"} => job.named /\ provider \in Output
    /\ pc[w] = "toSettling" => job.named /\ provider \in {"good", "costly"}
    /\ pc[w] = "toFailed" => job.named /\ provider \in Output \cup {"failed"}
    /\ pc[w] = "toCancelled" => job.named /\ provider = "cancelled"
    /\ pc[w] = "reject" => job.named /\ provider = "costly"
    /\ pc[w] \in {"capture", "captureFailed", "mark"} => job.named /\ provider = "good"
    /\ pc[w] \in {"exhausted", "exhaustedFail"} =>
         job.named /\ provider \in {"good", "costly"} /\ Exhausted(job.retries)

\* The hold of a job that names a batch is released when the batch has ended:
\* whoever is about to release it found the job failed or cancelled.
ReleaseInv ==
  /\ job.named /\ "release" \in acct.claims => provider # "active"
  /\ pc["client"] = "release" \/ pc["recovery"] = "release" => job.status \in {"failed", "cancelled"}
  /\ \A w \in Workers : pc[w] = "release" => job.status \in {"failed", "cancelled"}

\* The charge is the captured cost, a captured hold is not released, and only a
\* captured job is completed.
ChargeInv ==
  /\ "capture" \in acct.claims => /\ acct.charged = Cost /\ "release" \notin acct.claims
                                  /\ job.named /\ provider = "good"
  /\ "capture" \notin acct.claims => acct.charged = 0
  /\ job.status \in {"completed", "output_deleted"} => "capture" \in acct.claims
  /\ \A w \in Workers : pc[w] = "mark" => "capture" \in acct.claims

FlowInv == LinkInv /\ EndedInv /\ WorkerInv /\ ReleaseInv /\ ChargeInv

\* A step of one process moves that process only.
LEMMA GotoFrame ==
  ASSUME DOMAIN pc = Processes, NEW p \in Processes, NEW l, Goto(p, l)
  PROVE  pc'[p] = l /\ \A q \in Processes \ {p} : pc'[q] = pc[q]
  BY DEF Goto

\* The request, the client, the sweeper and the workers are different processes.
LEMMA Names ==
  /\ "submit" \in Processes /\ "client" \in Processes /\ "recovery" \in Processes
  /\ \A w \in Workers : w \in Processes /\ w # "submit" /\ w # "client" /\ w # "recovery"
  BY WorkersAssumption DEF Processes

\* A write of the status leaves name and retries alone.
LEMMA StatusWrite ==
  ASSUME TypeOK, NEW s, SetStatus(s)
  PROVE  job'.status = s /\ job'.named = job.named /\ job'.retries = job.retries
  BY DEF TypeOK, SetStatus

\* What a release, whether it succeeds or not, may do to claims and charge.
LEMMA ReleasedClaims ==
  ASSUME BaseInv, UNCHANGED acct \/ acct' = Release(acct)
  PROVE  /\ acct'.charged = acct.charged
         /\ \/ acct'.claims = acct.claims
            \/ "capture" \notin acct.claims /\ acct'.claims = acct.claims \cup {"release"}
  BY ReleaseAccount, BalancedIsFrozen DEF BaseInv, TypeOK

\* A job without row satisfies the invariant.
LEMMA FlowInit == Init => FlowInv
  BY Names DEF Init, NewAccount, FlowInv, LinkInv, EndedInv, WorkerInv, ReleaseInv, ChargeInv,
     Fresh, Unlinked, Early

\* A step that touches neither row, claims, batch nor processes.
LEMMA FlowStutter ==
  ASSUME FlowInv, UNCHANGED <<job, provider, pc>>,
         acct'.claims = acct.claims, acct'.charged = acct.charged
  PROVE  FlowInv'
  BY DEF FlowInv, LinkInv, EndedInv, WorkerInv, ReleaseInv, ChargeInv

\* The steps of the request that submits the job keep the invariant.
LEMMA FlowSubmit ==
  ASSUME BaseInv, FlowInv, Submit
  PROVE  FlowInv'
  <1> USE Names DEF FlowInv, LinkInv, EndedInv, WorkerInv, ReleaseInv, ChargeInv, SubmitAt, At,
      Fresh, Unlinked, Early, Output
  <1>0. DOMAIN pc = Processes /\ TypeOK
    BY DEF BaseInv, TypeOK
  <1>1. CASE CreateBatchImageJob
    BY <1>0, <1>1, GotoFrame, StatusWrite DEF CreateBatchImageJob
  <1>2. CASE SubmitReserve
    <2>1. /\ acct'.charged = acct.charged
          /\ \/ acct'.claims = acct.claims /\ pc'["submit"] = "record"
             \/ acct'.claims = acct.claims \cup {"hold"} /\ pc'["submit"] \in {"items", "record"}
          /\ \A q \in Processes \ {"submit"} : pc'[q] = pc[q]
      BY <1>0, <1>2, GotoFrame, ReserveAccount, BalancedIsFrozen
         DEF SubmitReserve, Billing, BaseInv, TypeOK
    <2> QED
      BY <1>2, <2>1 DEF SubmitReserve
  <1>3. CASE CreatePendingItems
    BY <1>0, <1>3, GotoFrame DEF CreatePendingItems
  <1>4. CASE SubmitUpload
    BY <1>0, <1>4, GotoFrame, StatusWrite DEF SubmitUpload, Transition, CanTransition, Moves
  <1>5. CASE ProviderSubmit
    BY <1>0, <1>5, GotoFrame DEF ProviderSubmit
  <1>6. CASE SubmitLink
    <2>1. CASE UNCHANGED job
      BY <1>0, <1>6, <2>1, GotoFrame DEF SubmitLink
    <2>2. CASE /\ CanTransition(job.status, "submitted")
               /\ job' = [job EXCEPT !.status = "submitted", !.named = TRUE, !.stale = FALSE]
      <3>1. job'.status = "submitted" /\ job'.named /\ job'.retries = job.retries
        BY <1>0, <2>2 DEF TypeOK
      <3>2. job.status \in Fresh
        BY <2>2 DEF CanTransition, Moves
      <3> QED
        BY <1>0, <1>6, <3>1, <3>2, GotoFrame DEF SubmitLink
    <2> QED
      BY <1>6, <2>1, <2>2 DEF SubmitLink
  <1>7. CASE AbortOrphan
    BY <1>0, <1>7, GotoFrame DEF AbortOrphan, CancelledBatch
  <1>8. CASE SubmitEnqueue
    BY <1>0, <1>8, GotoFrame DEF SubmitEnqueue
  <1>9. CASE SubmitRelease
    <2>1. UNCHANGED acct \/ acct' = Release(acct)
      BY <1>9 DEF SubmitRelease, ReleaseHold, Billing
    <2>2. /\ pc["submit"] \in {"releaseRecord", "release"}
          /\ pc'["submit"] \in {"record", "recordRetry", "done"}
          /\ \A q \in Processes \ {"submit"} : pc'[q] = pc[q]
      BY <1>0, <1>9, GotoFrame DEF SubmitRelease, ReleaseHold, Billing
    <2> QED
      BY <1>9, <2>1, <2>2, ReleasedClaims DEF SubmitRelease
  <1>10. CASE RecordSubmitFailure
    BY <1>0, <1>10, GotoFrame, StatusWrite DEF RecordSubmitFailure
  <1>11. CASE TouchSubmitting
    BY <1>0, <1>11 DEF TouchSubmitting, TypeOK
  <1> QED
    BY <1>1, <1>2, <1>3, <1>4, <1>5, <1>6, <1>7, <1>8, <1>9, <1>10, <1>11 DEF Submit

\* The steps of the client and of the sweeper keep the invariant.
LEMMA FlowClient ==
  ASSUME BaseInv, FlowInv, Client \/ Recovery
  PROVE  FlowInv'
  <1> USE Names DEF FlowInv, LinkInv, EndedInv, WorkerInv, ReleaseInv, ChargeInv,
      ClientAt, RecoveryAt, At, Fresh, Unlinked, Early, Output
  <1>0. DOMAIN pc = Processes /\ TypeOK
    BY DEF BaseInv, TypeOK
  <1>1. CASE SubmitAgain \/ CancelRead
    BY <1>0, <1>1, GotoFrame DEF SubmitAgain, CancelRead
  <1>2. CASE CancelAtProvider
    BY <1>0, <1>2, GotoFrame DEF CancelAtProvider, CancelledBatch
  <1>3. CASE CancelEnqueue \/ RecoveryEnqueue
    BY <1>0, <1>3, GotoFrame DEF CancelEnqueue, RecoveryEnqueue
  <1>4. CASE CancelTransition
    BY <1>0, <1>4, GotoFrame, StatusWrite DEF CancelTransition, Transition
  <1>5. CASE CancelRelease
    <2>1. UNCHANGED acct \/ acct' = Release(acct)
      BY <1>5 DEF CancelRelease, ReleaseHold, Billing
    <2>2. /\ pc["client"] = "release" /\ pc'["client"] \in {"idle", "enqueue"}
          /\ \A q \in Processes \ {"client"} : pc'[q] = pc[q]
      BY <1>0, <1>5, GotoFrame DEF CancelRelease, ReleaseHold, Billing
    <2> QED
      BY <1>5, <2>1, <2>2, ReleasedClaims DEF CancelRelease
  <1>6. CASE ListStaleUnsubmitted
    BY <1>0, <1>6, GotoFrame DEF ListStaleUnsubmitted
  <1>7. CASE FailStaleUnsubmitted
    BY <1>0, <1>7, GotoFrame, StatusWrite DEF FailStaleUnsubmitted, StaleUnsubmitted, Unsubmitted
  <1>8. CASE RecoveryRelease
    <2>1. UNCHANGED acct \/ acct' = Release(acct)
      BY <1>8 DEF RecoveryRelease, ReleaseHold, Billing
    <2>2. /\ pc["recovery"] = "release" /\ pc'["recovery"] \in {"idle", "enqueue"}
          /\ \A q \in Processes \ {"recovery"} : pc'[q] = pc[q]
      BY <1>0, <1>8, GotoFrame DEF RecoveryRelease, ReleaseHold, Billing
    <2> QED
      BY <1>8, <2>1, <2>2, ReleasedClaims DEF RecoveryRelease
  <1> QED
    BY <1>1, <1>2, <1>3, <1>4, <1>5, <1>6, <1>7, <1>8 DEF Client, Recovery

\* The steps of a worker keep the invariant.
LEMMA FlowWorker ==
  ASSUME BaseInv, FlowInv, NEW w \in Workers, Worker(w)
  PROVE  FlowInv'
  <1> USE Names DEF FlowInv, LinkInv, EndedInv, WorkerInv, ReleaseInv, ChargeInv,
      ProcessAt, At, Fresh, Unlinked, Early, Output
  <1>0. DOMAIN pc = Processes /\ TypeOK /\ w \in Processes
    BY DEF BaseInv, TypeOK
  <1>1. CASE QueueReserve(w) \/ TryAcquireJobLock(w) \/ QueueReturn(w) \/ Unlock(w)
    BY <1>0, <1>1, GotoFrame DEF QueueReserve, TryAcquireJobLock, QueueReturn, Unlock
  <1>2. CASE PipelineRead(w) \/ Recheck(w)
    BY <1>0, <1>2, GotoFrame DEF PipelineRead, Recheck
  <1>3. CASE ProcessRead(w)
    BY <1>0, <1>3, GotoFrame DEF ProcessRead, Terminal
  <1>4. CASE ProviderGet(w)
    BY <1>0, <1>4, GotoFrame DEF ProviderGet
  <1>5. CASE ProcessTransition(w)
    <2>1. CASE At(w, "toRunning") /\ Transition("running", Goto(w, "requeue"), Goto(w, "requeue"))
      BY <1>0, <1>5, <2>1, GotoFrame, StatusWrite
         DEF ProcessTransition, Transition, CanTransition, Moves
    <2>2. CASE At(w, "toIndexing") /\ Transition("indexing", Goto(w, "index"), Goto(w, "requeue"))
      BY <1>0, <1>5, <2>2, GotoFrame, StatusWrite
         DEF ProcessTransition, Transition, CanTransition, Moves
    <2>3. CASE At(w, "toFailed") /\ Transition("failed", Goto(w, "release"), Goto(w, "requeue"))
      BY <1>0, <1>5, <2>3, GotoFrame, StatusWrite
         DEF ProcessTransition, Transition, CanTransition, Moves, Terminal
    <2>4. CASE At(w, "toCancelled") /\ Transition("cancelled", Goto(w, "release"), Goto(w, "requeue"))
      BY <1>0, <1>5, <2>4, GotoFrame, StatusWrite
         DEF ProcessTransition, Transition, CanTransition, Moves
    <2>5. CASE At(w, "toSettling") /\ Transition("settling", Goto(w, "requeue"), Goto(w, "requeue"))
      BY <1>0, <1>5, <2>5, GotoFrame, StatusWrite
         DEF ProcessTransition, Transition, CanTransition, Moves
    <2> QED
      BY <1>5, <2>1, <2>2, <2>3, <2>4, <2>5 DEF ProcessTransition
  <1>6. CASE Index(w)
    BY <1>0, <1>6, GotoFrame DEF Index
  <1>7. CASE ReleaseTerminalHold(w)
    <2>1. UNCHANGED acct \/ acct' = Release(acct)
      BY <1>7 DEF ReleaseTerminalHold, ReleaseHold, Billing
    <2>2. /\ pc[w] = "release" /\ pc'[w] \in {"ack", "requeue"}
          /\ \A q \in Processes \ {w} : pc'[q] = pc[q]
      BY <1>0, <1>7, GotoFrame DEF ReleaseTerminalHold, ReleaseHold, Billing
    <2> QED
      BY <1>7, <2>1, <2>2, ReleasedClaims DEF ReleaseTerminalHold
  <1>8. CASE Settle(w)
    <2>1. \/ pc'[w] \in {"ack", "requeue"}
          \/ /\ job.status = "settling"
             /\ \/ Exhausted(job.retries) /\ pc'[w] = "exhausted"
                \/ provider = "costly" /\ pc'[w] = "reject"
                \/ provider # "costly" /\ pc'[w] = "capture"
      BY <1>0, <1>8, GotoFrame DEF Settle, SettleNext
    <2>2. \A q \in Processes \ {w} : pc'[q] = pc[q]
      BY <1>0, <1>8, GotoFrame DEF Settle
    <2> QED
      BY <1>8, <2>1, <2>2 DEF Settle
  <1>9. CASE SettleCapture(w)
    <2>1. /\ pc[w] = "capture" /\ UNCHANGED <<job, provider>>
          /\ \A q \in Processes \ {w} : pc'[q] = pc[q]
          /\ \/ UNCHANGED acct /\ pc'[w] = "captureFailed"
             \/ /\ CanCapture(acct) /\ acct' = Capture(acct)
                /\ pc'[w] \in {"mark", "captureFailed"}
      BY <1>0, <1>9, GotoFrame DEF SettleCapture, Billing
    <2>2. CASE UNCHANGED acct /\ pc'[w] = "captureFailed"
      BY <2>1, <2>2
    <2>3. CASE CanCapture(acct) /\ acct' = Capture(acct) /\ pc'[w] \in {"mark", "captureFailed"}
      <3>1. /\ acct'.claims = acct.claims \cup {"capture"} /\ "release" \notin acct.claims
            /\ acct'.charged = Cost
        BY <2>3, CaptureAccount, BalancedIsFrozen, AmountsAssumption
           DEF BaseInv, TypeOK, CanCapture
      <3> QED
        BY <2>1, <2>3, <3>1
    <2> QED
      BY <2>1, <2>2, <2>3
  <1>10. CASE RecordSettlementFailure(w)
    <2>1. /\ pc[w] \in {"reject", "captureFailed"} /\ UNCHANGED <<acct, provider>>
          /\ \A q \in Processes \ {w} : pc'[q] = pc[q]
          /\ \/ UNCHANGED job /\ pc'[w] \in {"requeue", "recheck"}
             \/ /\ job' = [job EXCEPT !.retries = @ + 1]
                /\ \/ pc'[w] \in {"requeue", "recheck"}
                   \/ pc'[w] = "exhausted" /\ Exhausted(job.retries + 1)
      BY <1>0, <1>10, GotoFrame DEF RecordSettlementFailure
    <2>2. CASE UNCHANGED job /\ pc'[w] \in {"requeue", "recheck"}
      BY <2>1, <2>2
    <2>3. CASE job' = [job EXCEPT !.retries = @ + 1]
      <3>1. /\ job'.status = job.status /\ job'.named = job.named
            /\ job'.retries = job.retries + 1 /\ job.retries \in Nat
        BY <1>0, <2>3 DEF TypeOK
      <3>2. /\ Exhausted(job.retries) => Exhausted(job'.retries)
            /\ Exhausted(job.retries + 1) => Exhausted(job'.retries)
        BY <3>1, RetriesAssumption DEF Exhausted
      <3> QED
        BY <2>1, <3>1, <3>2
    <2> QED
      BY <2>1, <2>2, <2>3
  <1>11. CASE ExhaustedRelease(w)
    <2>1. /\ pc[w] = "exhausted" /\ UNCHANGED provider
          /\ \A q \in Processes \ {w} : pc'[q] = pc[q]
          /\ UNCHANGED acct \/ acct' = Release(acct)
          /\ \/ UNCHANGED job /\ pc'[w] = "exhaustedFail"
             \/ job' = [job EXCEPT !.retries = @ + 1] /\ pc'[w] = "recheck"
      BY <1>0, <1>11, GotoFrame DEF ExhaustedRelease, ReleaseHold, Billing
    <2>2. /\ job'.status = job.status /\ job'.named = job.named
          /\ Exhausted(job.retries) => Exhausted(job'.retries)
      BY <1>0, <2>1, RetriesAssumption DEF TypeOK, Exhausted
    <2> QED
      BY <2>1, <2>2, ReleasedClaims
  <1>12. CASE ExhaustedFail(w)
    BY <1>0, <1>12, GotoFrame, StatusWrite DEF ExhaustedFail, Transition, CanTransition, Moves, Terminal
  <1>13. CASE MarkSettled(w)
    BY <1>0, <1>13, GotoFrame, StatusWrite DEF MarkSettled, Transition, CanTransition, Moves
  <1> QED
    BY <1>1, <1>2, <1>3, <1>4, <1>5, <1>6, <1>7, <1>8, <1>9, <1>10, <1>11, <1>12, <1>13
       DEF Worker, Process

\* Time, the provider and crashes keep the invariant.
LEMMA FlowEnvironment ==
  ASSUME BaseInv, FlowInv, Environment
  PROVE  FlowInv'
  <1>0. DOMAIN pc = Processes /\ TypeOK
    BY DEF BaseInv, TypeOK
  <1>1. CASE MoveDueDelayed \/ RecoverActive \/ LockExpires \/ \E w \in Workers : Pause(w)
    BY <1>1, FlowStutter DEF MoveDueDelayed, RecoverActive, LockExpires, Pause
  <1>2. CASE ExpireHold
    <2>1. acct'.claims = acct.claims /\ acct'.charged = acct.charged
      BY <1>2, ExpireAccount, BalancedIsFrozen DEF ExpireHold, BaseInv, TypeOK
    <2> QED
      BY <1>2, <2>1, FlowStutter DEF ExpireHold
  <1> USE Names DEF FlowInv, LinkInv, EndedInv, WorkerInv, ReleaseInv, ChargeInv,
      Fresh, Unlinked, Early, Output
  <1>3. CASE GoStale
    <2>1. job'.status = job.status /\ job'.named = job.named /\ job'.retries = job.retries
      BY <1>0, <1>3 DEF GoStale, TypeOK
    <2> QED
      BY <1>3, <2>1 DEF GoStale
  <1>4. CASE ProviderEnds
    BY <1>4 DEF ProviderEnds
  <1>5. CASE CleanupOutput
    BY <1>0, <1>5, StatusWrite DEF CleanupOutput
  <1>6. CASE Crash
    <2>1. PICK p \in Processes : Goto(p, IF p = "submit" THEN "done" ELSE "idle")
      BY <1>6 DEF Crash
    <2>2. /\ p = "submit" => pc'[p] = "done"
          /\ p # "submit" => pc'[p] = "idle"
          /\ \A q \in Processes \ {p} : pc'[q] = pc[q]
      BY <1>0, <2>1, GotoFrame
    <2> QED
      BY <1>6, <2>2 DEF Crash
  <1> QED
    BY <1>1, <1>2, <1>3, <1>4, <1>5, <1>6 DEF Environment

\* Every step keeps the invariant.
LEMMA FlowStep == BaseInv /\ FlowInv /\ [Next]_vars => FlowInv'
  <1> SUFFICES ASSUME BaseInv, FlowInv, [Next]_vars PROVE FlowInv'
    OBVIOUS
  <1>1. CASE UNCHANGED vars
    BY <1>1, FlowStutter DEF vars
  <1> QED
    BY <1>1, FlowSubmit, FlowClient, FlowWorker, FlowEnvironment DEF Next

\* The invariant holds in every reachable state.
LEMMA FlowInvariance == Spec => [](BaseInv /\ FlowInv)
  BY FlowInit, FlowStep, BaseInvariance, PTL DEF Spec

\* While the batch the row names runs at the provider nobody has released the
\* hold: not the sweeper, the client, the failing request or another worker.
THEOREM ReleaseSafe == Spec => []NoReleaseWhileProviderRuns
  <1>1. FlowInv => NoReleaseWhileProviderRuns
    BY DEF FlowInv, ReleaseInv, NoReleaseWhileProviderRuns
  <1> QED
    BY <1>1, FlowInvariance, PTL

\* A completed job, its output deleted or not, was charged exactly its cost, and
\* a cancelled one nothing, however many calls failed and workers stalled.
THEOREM CompletionSafe == Spec => []CompletedIsCharged
  <1>1. FlowInv => CompletedIsCharged
    BY DEF FlowInv, EndedInv, ChargeInv, CompletedIsCharged
  <1> QED
    BY <1>1, FlowInvariance, PTL

-----------------------------------------------------------------------------
(* Retries and the charge of a failed job. *)

\* Fewer calls fail than the settlement has retries.
FewFaults == MaxFaults < MaxRetries

\* The workers that have yet to record a failed capture.
Failing == {w \in Workers : pc[w] = "captureFailed"}

\* Of a job that could still be captured, every settlement retry is due to a
\* call that failed.
RetryInv ==
  provider # "costly" /\ "release" \notin acct.claims =>
    job.retries + Cardinality(Failing) <= faults

\* A settlement that gives up has released the hold.
GaveUpInv == \A w \in Workers : pc[w] = "exhaustedFail" => "release" \in acct.claims

\* There are finitely many workers that have a failure to record.
LEMMA FailingFinite == IsFiniteSet(Failing) /\ Cardinality(Failing) \in Nat
  BY FS_Subset, FS_CardinalityType, WorkersAssumption DEF Failing

\* Claims are never withdrawn.
LEMMA ClaimsGrow == ASSUME BaseInv, [Next]_vars PROVE acct.claims \subseteq acct'.claims
  BY AccountMoves, ReserveAccount, CaptureAccount, ReleaseAccount, ExpireAccount,
     BalancedIsFrozen DEF BaseInv, TypeOK

\* The retries grow by one in the two places that record a failed settlement.
LEMMA RetriesMoves ==
  ASSUME BaseInv, [Next]_vars
  PROVE  \/ job'.retries = job.retries
         \/ \E w \in Workers : RecordSettlementFailure(w) \/ ExhaustedRelease(w)
  <1>0. TypeOK
    BY DEF BaseInv
  <1>1. CASE Submit
    BY <1>0, <1>1, StatusWrite DEF TypeOK, Submit, CreateBatchImageJob, SubmitReserve,
       CreatePendingItems, SubmitUpload, ProviderSubmit, SubmitLink, AbortOrphan,
       SubmitEnqueue, SubmitRelease, RecordSubmitFailure, TouchSubmitting, Transition
  <1>2. CASE Client
    BY <1>0, <1>2, StatusWrite DEF Client, SubmitAgain, CancelRead, CancelAtProvider,
       CancelEnqueue, CancelTransition, CancelRelease, Transition
  <1>3. CASE Recovery
    BY <1>0, <1>3, StatusWrite DEF Recovery, ListStaleUnsubmitted, FailStaleUnsubmitted,
       RecoveryRelease, RecoveryEnqueue
  <1>4. ASSUME NEW w \in Workers, Worker(w)
        PROVE  \/ job'.retries = job.retries
               \/ RecordSettlementFailure(w) \/ ExhaustedRelease(w)
    BY <1>0, <1>4, StatusWrite DEF Worker, QueueReserve, TryAcquireJobLock, Process,
       QueueReturn, Unlock, PipelineRead, ProcessRead, ProviderGet, ProcessTransition, Index,
       ReleaseTerminalHold, Settle, SettleCapture, ExhaustedFail, MarkSettled, Recheck,
       Transition
  <1>5. CASE Environment
    BY <1>0, <1>5, StatusWrite DEF TypeOK, Environment, MoveDueDelayed, RecoverActive,
       LockExpires, GoStale, ExpireHold, ProviderEnds, CleanupOutput, Crash, Pause
  <1>6. CASE UNCHANGED vars
    BY <1>6 DEF vars
  <1> QED
    BY <1>1, <1>2, <1>3, <1>4, <1>5, <1>6 DEF Next

\* The batch changes while it runs, or when the request sends it.
LEMMA ProviderMoves ==
  ASSUME FlowInv, [Next]_vars
  PROVE  UNCHANGED provider \/ provider \in {"none", "active"}
  <1> USE DEF CancelledBatch
  <1>1. CASE Submit
    BY <1>1 DEF Submit, CreateBatchImageJob, SubmitReserve,
       CreatePendingItems, SubmitUpload, ProviderSubmit, SubmitLink, AbortOrphan,
       SubmitEnqueue, SubmitRelease, RecordSubmitFailure, TouchSubmitting, SubmitAt, At,
       FlowInv, LinkInv, Early
  <1>2. CASE Client \/ Recovery
    BY <1>2 DEF Client, SubmitAgain, CancelRead, CancelAtProvider,
       CancelEnqueue, CancelTransition, CancelRelease, Recovery, ListStaleUnsubmitted,
       FailStaleUnsubmitted, RecoveryRelease, RecoveryEnqueue
  <1>3. ASSUME NEW w \in Workers, Worker(w) PROVE UNCHANGED provider
    BY <1>3 DEF Worker, QueueReserve, TryAcquireJobLock, Process,
       QueueReturn, Unlock, PipelineRead, ProcessRead, ProviderGet, ProcessTransition, Index,
       ReleaseTerminalHold, Settle, SettleCapture, RecordSettlementFailure, ExhaustedRelease,
       ExhaustedFail, MarkSettled, Recheck, ProcessAt
  <1>4. CASE Environment
    BY <1>4 DEF Environment, MoveDueDelayed, RecoverActive,
       LockExpires, GoStale, ExpireHold, ProviderEnds, CleanupOutput, Crash, Pause
  <1>5. CASE UNCHANGED vars
    BY <1>5 DEF vars
  <1> QED
    BY <1>1, <1>2, <1>3, <1>4, <1>5 DEF Next

\* A worker gets to record a failed capture from the capture only, and to fail
\* an exhausted job from the release only.
LEMMA WorkerPlaces ==
  ASSUME BaseInv, [Next]_vars, NEW v \in Workers
  PROVE  \/ pc'[v] = pc[v]
         \/ pc'[v] \notin {"captureFailed", "exhaustedFail"}
         \/ SettleCapture(v) \/ ExhaustedRelease(v)
  <1>0. DOMAIN pc = Processes
    BY DEF BaseInv, TypeOK
  <1> USE Names
  <1>1. CASE Submit \/ Client \/ Recovery
    BY <1>0, <1>1, ClientMoves, GotoFrame
  <1>2. ASSUME NEW w \in Workers, Worker(w)
        PROVE  \/ pc'[v] = pc[v]
               \/ pc'[v] \notin {"captureFailed", "exhaustedFail"}
               \/ SettleCapture(v) \/ ExhaustedRelease(v)
    <2>1. CASE SettleCapture(w)
      BY <1>0, <2>1, GotoFrame DEF SettleCapture, Billing
    <2>2. CASE ExhaustedRelease(w)
      BY <1>0, <2>2, GotoFrame DEF ExhaustedRelease, ReleaseHold, Billing
    <2>3. CASE Settle(w)
      BY <1>0, <2>3, GotoFrame DEF Settle, SettleNext
    <2>4. CASE ProcessTransition(w)
      BY <1>0, <2>4, GotoFrame DEF ProcessTransition, Transition
    <2>5. CASE RecordSettlementFailure(w)
      BY <1>0, <2>5, GotoFrame DEF RecordSettlementFailure
    <2> QED
      BY <1>0, <1>2, <2>1, <2>2, <2>3, <2>4, <2>5, GotoFrame
         DEF Worker, QueueReserve, TryAcquireJobLock, Process, QueueReturn, Unlock,
             PipelineRead, ProcessRead, ProviderGet, Index, ReleaseTerminalHold, ExhaustedFail,
             MarkSettled, Recheck, Transition, Billing, ReleaseHold
  <1>3. CASE Environment
    BY <1>0, <1>3, GotoFrame DEF Environment, MoveDueDelayed, RecoverActive, LockExpires,
       GoStale, ExpireHold, ProviderEnds, CleanupOutput, Crash, Pause
  <1>4. CASE UNCHANGED vars
    BY <1>4 DEF vars
  <1> QED
    BY <1>1, <1>2, <1>3, <1>4 DEF Next

\* A capture of a linked job is refused only after a release.
LEMMA CaptureRefused ==
  ASSUME BaseInv, FlowInv, job.named, ~CanCapture(acct)
  PROVE  "release" \in acct.claims
  <1>1. "hold" \in acct.claims
    BY DEF FlowInv, LinkInv
  <1>2. SUFFICES ASSUME "release" \notin acct.claims, "capture" \notin acct.claims,
                        ~acct.expired
                 PROVE  acct.frozen >= Hold
    BY <1>1 DEF CanCapture
  <1>3. acct.frozen = OtherFrozen + Hold
    BY <1>1, <1>2 DEF BaseInv, FrozenIsOutstandingHold, Outstanding
  <1> QED
    BY <1>3, AmountsAssumption

\* A step in which the retries and the workers with a failure to record do not
\* grow keeps RetryInv.
LEMMA RetryQuiet ==
  ASSUME BaseInv, FlowInv, RetryInv, [Next]_vars,
         job'.retries = job.retries, Failing' \subseteq Failing
  PROVE  RetryInv'
  <1>1. faults \in Nat /\ faults' \in Nat /\ faults <= faults' /\ job.retries \in Nat
    BY FaultMoves, RetriesAssumption DEF BaseInv, TypeOK, Fault, NoFault
  <1>2. Cardinality(Failing') <= Cardinality(Failing)
    BY FailingFinite, FS_Subset
  <1>3. Cardinality(Failing') \in Nat
    BY FailingFinite, FS_Subset, FS_CardinalityType
  <1>4. provider' # "costly" /\ "release" \notin acct'.claims =>
          provider # "costly" /\ "release" \notin acct.claims
    BY ClaimsGrow, ProviderMoves
  <1> QED
    BY <1>1, <1>2, <1>3, <1>4, FailingFinite DEF RetryInv

\* Every retry of a job that could still be captured is a failed call.
LEMMA RetryStep ==
  ASSUME FewFaults, BaseInv, FlowInv, RetryInv, [Next]_vars
  PROVE  RetryInv'
  <1>0. /\ DOMAIN pc = Processes /\ TypeOK /\ job.retries \in Nat
        /\ faults \in Nat /\ faults <= MaxFaults
    BY RetriesAssumption DEF BaseInv, TypeOK
  <1>c. Cardinality(Failing) \in Nat /\ IsFiniteSet(Failing)
    BY FailingFinite
  <1>1. ASSUME NEW w \in Workers, SettleCapture(w) PROVE RetryInv'
    <2>1. /\ pc[w] = "capture" /\ UNCHANGED job
          /\ \A q \in Processes \ {w} : pc'[q] = pc[q]
      BY <1>0, <1>1, Names, GotoFrame DEF SettleCapture, Billing, ProcessAt, At
    <2>2. CASE pc'[w] # "captureFailed"
      <3>1. Failing' \subseteq Failing
        BY <2>1, <2>2, Names DEF Failing
      <3> QED
        BY <2>1, <3>1, RetryQuiet
    <2>3. CASE pc'[w] = "captureFailed"
      <3>1. Fault \/ ~CanCapture(acct)
        BY <1>0, <1>1, <2>3, Names, GotoFrame DEF SettleCapture, Billing
      <3>2. CASE ~CanCapture(acct)
        <4>1. "release" \in acct'.claims
          BY <2>1, <3>2, CaptureRefused, ClaimsGrow DEF FlowInv, WorkerInv
        <4> QED
          BY <4>1 DEF RetryInv
      <3>3. CASE Fault
        <4>1. Failing' = Failing \cup {w} /\ w \notin Failing
          BY <2>1, <2>3, Names DEF Failing
        <4>2. Cardinality(Failing') = Cardinality(Failing) + 1
          BY <1>c, <4>1, FS_AddElement
        <4>3. provider' # "costly" /\ "release" \notin acct'.claims =>
                provider # "costly" /\ "release" \notin acct.claims
          BY ClaimsGrow, ProviderMoves
        <4> QED
          BY <1>0, <1>c, <2>1, <3>3, <4>2, <4>3 DEF RetryInv, Fault
      <3> QED
        BY <3>1, <3>2, <3>3
    <2> QED
      BY <2>2, <2>3
  <1>2. ASSUME NEW w \in Workers, RecordSettlementFailure(w) PROVE RetryInv'
    <2>1. /\ pc[w] \in {"reject", "captureFailed"} /\ UNCHANGED <<acct, provider>>
          /\ pc'[w] \in {"requeue", "recheck", "exhausted"}
          /\ \A q \in Processes \ {w} : pc'[q] = pc[q]
          /\ UNCHANGED job \/ (job' = [job EXCEPT !.retries = @ + 1] /\ UNCHANGED faults)
      BY <1>0, <1>2, Names, GotoFrame DEF RecordSettlementFailure, ProcessAt, At, NoFault
    <2>2. Failing' = Failing \ {w}
      BY <2>1, Names DEF Failing
    <2>3. CASE UNCHANGED job
      BY <2>2, <2>3, RetryQuiet
    <2>4. CASE pc[w] = "reject"
      BY <2>1, <2>4 DEF FlowInv, WorkerInv, RetryInv
    <2>5. CASE pc[w] = "captureFailed" /\ job' = [job EXCEPT !.retries = @ + 1] /\ UNCHANGED faults
      <3>1. job'.retries = job.retries + 1
        BY <1>0, <2>5 DEF TypeOK
      <3>2. Cardinality(Failing') = Cardinality(Failing) - 1
        <4>1. w \in Failing
          BY <2>5 DEF Failing
        <4> QED
          BY <1>c, <2>2, <4>1, FS_RemoveElement
      <3> QED
        BY <1>0, <1>c, <2>1, <2>5, <3>1, <3>2 DEF RetryInv
    <2> QED
      BY <2>1, <2>3, <2>4, <2>5
  <1>3. ASSUME NEW w \in Workers, ExhaustedRelease(w) PROVE RetryInv'
    <2>1. pc[w] = "exhausted"
      BY <1>3 DEF ExhaustedRelease, ProcessAt, At
    <2>2. job.retries >= MaxRetries
      BY <2>1 DEF FlowInv, WorkerInv, Exhausted
    <2>3. provider = "costly" \/ "release" \in acct.claims
      BY <1>0, <1>c, <2>2, RetriesAssumption DEF RetryInv, FewFaults
    <2>4. provider' = "costly" \/ "release" \in acct'.claims
      BY <2>3, ClaimsGrow, ProviderMoves
    <2> QED
      BY <2>4 DEF RetryInv
  <1>4. CASE \A w \in Workers : ~SettleCapture(w) /\ ~RecordSettlementFailure(w) /\ ~ExhaustedRelease(w)
    <2>1. Failing' \subseteq Failing
      BY <1>4, WorkerPlaces DEF Failing
    <2> QED
      BY <1>4, <2>1, RetriesMoves, RetryQuiet
  <1> QED
    BY <1>1, <1>2, <1>3, <1>4

\* A settlement that gives up releases the hold first: it cannot have captured
\* it, since its retries are used up.
LEMMA GaveUpStep ==
  ASSUME FewFaults, BaseInv, FlowInv, RetryInv, GaveUpInv, [Next]_vars
  PROVE  GaveUpInv'
  <1>1. ASSUME NEW w \in Workers, pc'[w] = "exhaustedFail"
        PROVE  "release" \in acct'.claims
    <2>1. CASE pc[w] = "exhaustedFail"
      BY <2>1, ClaimsGrow DEF GaveUpInv
    <2>2. CASE pc[w] # "exhaustedFail" /\ ExhaustedRelease(w)
      <3>0. DOMAIN pc = Processes /\ faults \in 0..MaxFaults /\ job.retries \in Nat
        BY DEF BaseInv, TypeOK
      <3>1. acct' = Release(acct)
        BY <1>1, <2>2, <3>0, Names, GotoFrame DEF ExhaustedRelease, ReleaseHold, Billing
      <3>2. job.retries >= MaxRetries
        BY <2>2 DEF ExhaustedRelease, ProcessAt, At, FlowInv, WorkerInv, Exhausted
      <3>3. provider = "costly" \/ "release" \in acct.claims
        BY <3>0, <3>2, FailingFinite, RetriesAssumption DEF RetryInv, FewFaults
      <3>4. "capture" \notin acct.claims
        BY <3>3 DEF FlowInv, ChargeInv
      <3> QED
        BY <3>1, <3>4, ReleaseAccount, BalancedIsFrozen DEF BaseInv, TypeOK
    <2>3. ~SettleCapture(w)
      <3>1. DOMAIN pc = Processes
        BY DEF BaseInv, TypeOK
      <3>2. SettleCapture(w) => pc'[w] \in {"mark", "captureFailed"}
        BY <3>1, Names, GotoFrame DEF SettleCapture, Billing
      <3> QED
        BY <1>1, <3>2
    <2> QED
      BY <1>1, <2>1, <2>2, <2>3, WorkerPlaces
  <1> QED
    BY <1>1 DEF GaveUpInv

-----------------------------------------------------------------------------
(* Workers that keep their leases. *)

\* Where a worker works on the job it has locked; where it has found the job to
\* be settled; and where it has found that it is not.
Settling == {"reject", "capture", "captureFailed", "mark", "exhausted", "exhaustedFail"}
Polling  == {"poll", "pollRunning", "toRunning", "toIndexing", "index", "toFailed",
             "toCancelled", "toSettling"}
Locked   == {"read", "process", "release", "settle", "recheck"} \cup Settling \cup Polling

\* The worker that works on the job is the one that holds its lock.
LockInv == paused = {} /\ \A w \in Workers : pc[w] \in Locked => lock = w

\* What it has found stays so, and a captured job is not failed.
SettleInv ==
  /\ \A w \in Workers : pc[w] \in Settling => job.status = "settling"
  /\ \A w \in Workers : pc[w] \in Polling => "capture" \notin acct.claims
  /\ "capture" \in acct.claims => job.status \in {"settling", "completed", "output_deleted"}

LeaseInv == ~stalled => LockInv /\ SettleInv

\* A step of a worker that works on the job, as seen by the others.
LEMMA ProcessFrame ==
  ASSUME BaseInv, NEW w \in Workers, Process(w)
  PROVE  /\ pc[w] \in Locked /\ UNCHANGED <<lock, paused>>
         /\ \A q \in Processes \ {w} : pc'[q] = pc[q]
  <1>0. DOMAIN pc = Processes /\ w \in Processes
    BY Names DEF BaseInv, TypeOK
  <1>1. CASE Settle(w)
    BY <1>0, <1>1, GotoFrame DEF Settle, ProcessAt, At, Locked
  <1>2. CASE ProcessTransition(w)
    BY <1>0, <1>2, GotoFrame DEF ProcessTransition, Transition, ProcessAt, At, Locked, Polling
  <1>3. CASE RecordSettlementFailure(w)
    BY <1>0, <1>3, GotoFrame DEF RecordSettlementFailure, ProcessAt, At, Locked, Settling
  <1> QED
    BY <1>0, <1>1, <1>2, <1>3, GotoFrame
       DEF Process, PipelineRead, ProcessRead, ProviderGet, Index, ReleaseTerminalHold,
           SettleCapture, ExhaustedRelease, ExhaustedFail, MarkSettled, Recheck, Transition,
           Billing, ReleaseHold, ProcessAt, At, Locked, Settling, Polling

\* The request, the client, the sweeper, time and the provider move no worker,
\* except that a crash makes it idle.
LEMMA OutsidePlaces ==
  ASSUME BaseInv, Submit \/ Client \/ Recovery \/ Environment, NEW v \in Workers
  PROVE  pc'[v] = pc[v] \/ pc'[v] = "idle"
  <1>0. DOMAIN pc = Processes
    BY DEF BaseInv, TypeOK
  <1>1. CASE Submit \/ Client \/ Recovery
    BY <1>0, <1>1, Names, ClientMoves, GotoFrame
  <1>2. CASE Environment
    BY <1>0, <1>2, Names, GotoFrame DEF Environment, MoveDueDelayed, RecoverActive, LockExpires,
       GoStale, ExpireHold, ProviderEnds, CleanupOutput, Crash, Pause
  <1> QED
    BY <1>1, <1>2

\* Without pauses the lock of a worker at work is neither taken nor lost.
LEMMA LockStep ==
  ASSUME BaseInv, LockInv, [Next]_vars, paused' \subseteq paused
  PROVE  LockInv'
  <1>0. /\ DOMAIN pc = Processes /\ lock \in Workers \cup {"free", "dead"}
        /\ "free" \notin Workers /\ "dead" \notin Workers /\ paused' = {} /\ "idle" \notin Locked
    BY WorkersAssumption DEF BaseInv, TypeOK, LockInv, Locked, Settling, Polling
  <1>1. CASE Submit \/ Client \/ Recovery
    <2>1. UNCHANGED lock
      BY <1>1 DEF Submit, CreateBatchImageJob, SubmitReserve, CreatePendingItems, SubmitUpload,
         ProviderSubmit, SubmitLink, AbortOrphan, SubmitEnqueue, SubmitRelease,
         RecordSubmitFailure, TouchSubmitting, SubmitAt, Client, SubmitAgain, CancelRead,
         CancelAtProvider, CancelEnqueue, CancelTransition, CancelRelease, ClientAt, Recovery,
         ListStaleUnsubmitted, FailStaleUnsubmitted, RecoveryRelease, RecoveryEnqueue, RecoveryAt
    <2> QED
      BY <1>0, <1>1, <2>1, OutsidePlaces DEF LockInv
  <1>2. ASSUME NEW w \in Workers, Worker(w) PROVE LockInv'
    <2>1. CASE Process(w)
      BY <1>0, <2>1, ProcessFrame, Names DEF LockInv
    <2>2. CASE QueueReserve(w) \/ QueueReturn(w)
      BY <1>0, <2>2, GotoFrame, Names
         DEF QueueReserve, QueueReturn, LockInv, Locked, Settling, Polling
    <2>3. CASE TryAcquireJobLock(w)
      BY <1>0, <2>3, GotoFrame, Names
         DEF TryAcquireJobLock, LockInv, Locked, Settling, Polling
    <2>4. CASE Unlock(w)
      BY <1>0, <2>4, GotoFrame, Names DEF Unlock, At, LockInv, Locked, Settling, Polling
    <2> QED
      BY <1>2, <2>1, <2>2, <2>3, <2>4 DEF Worker
  <1>3. CASE Environment
    <2>1. CASE LockExpires
      BY <1>0, <2>1 DEF LockExpires, LockInv
    <2>2. CASE Crash
      <3>1. PICK p \in Processes : /\ Goto(p, IF p = "submit" THEN "done" ELSE "idle")
                                   /\ lock' = IF lock = p THEN "dead" ELSE lock
        BY <2>2 DEF Crash
      <3>2. \A v \in Workers : pc'[v] \in Locked => v # p /\ pc'[v] = pc[v]
        BY <1>0, <3>1, GotoFrame, Names
      <3> QED
        BY <1>0, <3>1, <3>2 DEF LockInv
    <2>3. CASE UNCHANGED lock
      BY <1>0, <1>3, <2>3, OutsidePlaces DEF LockInv
    <2> QED
      BY <1>3, <2>1, <2>2, <2>3 DEF Environment, MoveDueDelayed, RecoverActive, GoStale,
         ExpireHold, ProviderEnds, CleanupOutput, Pause
  <1>4. CASE UNCHANGED vars
    BY <1>4 DEF vars, LockInv
  <1> QED
    BY <1>1, <1>2, <1>3, <1>4 DEF Next

\* Only a worker takes a linked job out of "settling" or "completed", but for
\* the deletion of its output.
LEMMA OutsideStatus ==
  ASSUME BaseInv, FlowInv, Submit \/ Client \/ Recovery \/ Environment, job.named,
         job.status \in {"settling", "completed", "output_deleted"}
  PROVE  \/ job'.status = job.status
         \/ job.status = "completed" /\ job'.status = "output_deleted"
  <1>0. TypeOK /\ "settling" \notin Unsubmitted
    BY DEF BaseInv, Unsubmitted
  <1>1. CASE Submit
    <2>1. pc["submit"] \notin Unlinked
      BY DEF FlowInv, LinkInv
    <2>2. UNCHANGED job
      BY <1>0, <1>1, <2>1 DEF Submit, CreateBatchImageJob, SubmitReserve, CreatePendingItems,
         SubmitUpload, ProviderSubmit, SubmitLink, AbortOrphan, SubmitEnqueue, SubmitRelease,
         RecordSubmitFailure, TouchSubmitting, SubmitAt, At, Unlinked, Early
    <2> QED
      BY <2>2
  <1>2. CASE Client
    BY <1>2 DEF Client, SubmitAgain, CancelRead, CancelAtProvider, CancelEnqueue,
       CancelTransition, CancelRelease, Transition
  <1>3. CASE Recovery
    BY <1>3 DEF Recovery, ListStaleUnsubmitted, FailStaleUnsubmitted, StaleUnsubmitted,
       RecoveryRelease, RecoveryEnqueue
  <1>4. CASE Environment
    <2>1. CASE CleanupOutput
      BY <1>0, <2>1, StatusWrite DEF CleanupOutput
    <2> QED
      BY <1>4, <2>1 DEF Environment, MoveDueDelayed, RecoverActive, LockExpires, GoStale,
         Unsubmitted, ExpireHold, ProviderEnds, Crash, Pause
  <1> QED
    BY <1>1, <1>2, <1>3, <1>4

\* The hold is captured by a worker's capture only.
LEMMA CaptureMoves ==
  ASSUME BaseInv, Submit \/ Client \/ Recovery \/ Environment
  PROVE  "capture" \in acct'.claims => "capture" \in acct.claims
  <1>1. \/ UNCHANGED acct
        \/ CanReserve(acct) /\ acct' = Reserve(acct)
        \/ acct' = Release(acct)
        \/ CanExpire(acct) /\ acct' = Expire(acct)
    BY DEF Submit, CreateBatchImageJob, SubmitReserve, CreatePendingItems, SubmitUpload,
       ProviderSubmit, SubmitLink, AbortOrphan, SubmitEnqueue, SubmitRelease,
       RecordSubmitFailure, TouchSubmitting, Client, SubmitAgain, CancelRead, CancelAtProvider,
       CancelEnqueue, CancelTransition, CancelRelease, Recovery, ListStaleUnsubmitted,
       FailStaleUnsubmitted, RecoveryRelease, RecoveryEnqueue, Environment, MoveDueDelayed,
       RecoverActive, LockExpires, GoStale, ExpireHold, ProviderEnds, CleanupOutput, Crash,
       Pause, Billing, ReleaseHold
  <1> QED
    BY <1>1, ReserveAccount, ReleaseAccount, ExpireAccount, BalancedIsFrozen DEF BaseInv, TypeOK

\* The worker that holds the lock finds the job as it left it, and fails it
\* only if it was not captured.
LEMMA SettleStep ==
  ASSUME BaseInv, FlowInv, GaveUpInv, LockInv, SettleInv, [Next]_vars
  PROVE  SettleInv'
  <1>0. DOMAIN pc = Processes /\ TypeOK /\ "idle" \notin Settling \cup Polling
    BY DEF BaseInv, TypeOK, Settling, Polling
  <1>1. CASE Submit \/ Client \/ Recovery \/ Environment
    <2>1. \A w \in Workers : pc[w] \in Settling => job.named
      BY DEF FlowInv, WorkerInv, Settling
    <2>2. "capture" \in acct.claims => job.named
      BY DEF FlowInv, ChargeInv
    <2>3. \A w \in Workers : pc'[w] \in Settling \cup Polling => pc'[w] = pc[w]
      BY <1>0, <1>1, OutsidePlaces
    <2> QED
      BY <1>1, <2>1, <2>2, <2>3, CaptureMoves, OutsideStatus DEF SettleInv
  <1>2. ASSUME NEW w \in Workers, Worker(w) PROVE SettleInv'
    <2>0. w \in Processes
      BY Names
    <2>1. CASE QueueReserve(w) \/ TryAcquireJobLock(w) \/ QueueReturn(w) \/ Unlock(w)
      <3>1. /\ UNCHANGED <<job, acct>> /\ pc'[w] \notin Settling \cup Polling
            /\ \A q \in Processes \ {w} : pc'[q] = pc[q]
        BY <1>0, <2>0, <2>1, GotoFrame
           DEF QueueReserve, TryAcquireJobLock, QueueReturn, Unlock, Settling, Polling
      <3> QED
        BY <3>1, Names DEF SettleInv
    <2>2. CASE Process(w)
      <3>0. \A v \in Workers \ {w} : pc'[v] \notin Settling \cup Polling
        BY <2>2, ProcessFrame, Names DEF LockInv, Locked
      <3>s. SUFFICES /\ pc'[w] \in Settling => job'.status = "settling"
                     /\ pc'[w] \in Polling => "capture" \notin acct'.claims
                     /\ "capture" \in acct'.claims =>
                          job'.status \in {"settling", "completed", "output_deleted"}
        BY <3>0 DEF SettleInv
      <3> USE <1>0, <2>0, GotoFrame DEF SettleInv, Settling, Polling, ProcessAt, At
      <3>1. CASE PipelineRead(w) \/ Recheck(w)
        BY <3>1 DEF PipelineRead, Recheck
      <3>2. CASE ProcessRead(w)
        BY <3>2 DEF ProcessRead, Terminal
      <3>3. CASE ProviderGet(w) \/ Index(w)
        BY <3>3 DEF ProviderGet, Index
      <3>4. CASE ProcessTransition(w)
        <4>1. "capture" \notin acct'.claims /\ pc'[w] \notin Settling
          BY <3>4 DEF ProcessTransition, Transition
        <4> QED
          BY <4>1
      <3>5. CASE ReleaseTerminalHold(w)
        <4>1. UNCHANGED job /\ (UNCHANGED acct \/ acct' = Release(acct)) /\ pc'[w] \in {"ack", "requeue"}
          BY <3>5 DEF ReleaseTerminalHold, ReleaseHold, Billing
        <4> QED
          BY <4>1, ReleasedClaims
      <3>6. CASE Settle(w)
        BY <3>6 DEF Settle, SettleNext
      <3>7. CASE SettleCapture(w)
        BY <3>7 DEF SettleCapture, Billing
      <3>8. CASE RecordSettlementFailure(w)
        <4>1. /\ pc[w] \in Settling /\ pc'[w] \notin Polling /\ UNCHANGED acct
              /\ job'.status = job.status
          BY <3>8 DEF RecordSettlementFailure, TypeOK
        <4> QED
          BY <4>1
      <3>9. CASE ExhaustedRelease(w)
        <4>1. /\ UNCHANGED acct \/ acct' = Release(acct)
              /\ job'.status = job.status /\ pc[w] \in Settling /\ pc'[w] \notin Polling
          BY <3>9 DEF ExhaustedRelease, ReleaseHold, Billing, TypeOK
        <4> QED
          BY <4>1, ReleasedClaims
      <3>10. CASE ExhaustedFail(w)
        <4>1. "capture" \notin acct'.claims
          BY <3>10 DEF ExhaustedFail, GaveUpInv, FlowInv, ChargeInv
        <4>2. pc'[w] \notin Settling \cup Polling
          BY <3>10 DEF ExhaustedFail, Transition
        <4> QED
          BY <4>1, <4>2
      <3>11. CASE MarkSettled(w)
        BY <3>11, StatusWrite DEF MarkSettled, Transition
      <3> QED
        BY <2>2, <3>1, <3>2, <3>3, <3>4, <3>5, <3>6, <3>7, <3>8, <3>9, <3>10, <3>11 DEF Process
    <2> QED
      BY <1>2, <2>1, <2>2 DEF Worker
  <1>3. CASE UNCHANGED vars
    BY <1>3 DEF vars, SettleInv
  <1> QED
    BY <1>1, <1>2, <1>3 DEF Next

\* If no worker stalls past its leases, and fewer calls fail than the settlement
\* has retries, a failed job has not been charged.
THEOREM FailureSafe == ASSUME FewFaults PROVE Spec => []FailedIsUnchargedUnlessStalled
  <1>1. Init => RetryInv /\ GaveUpInv /\ LeaseInv
    <2>1. Init => Failing = {} /\ job.retries = 0 /\ faults = 0
      BY Names DEF Init, Failing
    <2>2. Init => RetryInv
      BY <2>1, FS_EmptySet DEF RetryInv
    <2>3. Init => GaveUpInv /\ LeaseInv
      BY Names DEF Init, NewAccount, GaveUpInv, LeaseInv, LockInv, SettleInv, Locked, Settling, Polling
    <2> QED
      BY <2>2, <2>3
  <1>2. BaseInv /\ FlowInv /\ RetryInv /\ GaveUpInv /\ LeaseInv /\ [Next]_vars =>
          RetryInv' /\ GaveUpInv' /\ LeaseInv'
    <2>1. ASSUME BaseInv, FlowInv, GaveUpInv, LeaseInv, [Next]_vars PROVE LeaseInv'
      BY <2>1, StallMoves, LockStep, SettleStep DEF LeaseInv
    <2> QED
      BY <2>1, RetryStep, GaveUpStep
  <1>3. FlowInv /\ LeaseInv => FailedIsUnchargedUnlessStalled
    BY DEF FlowInv, ChargeInv, LeaseInv, SettleInv, FailedIsUnchargedUnlessStalled, FailedIsUncharged
  <1> QED
    BY <1>1, <1>2, <1>3, FlowInvariance, PTL DEF Spec
=============================================================================
