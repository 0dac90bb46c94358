----------------------------- MODULE BatchImage -----------------------------
(***************************************************************************)
(* One batch image job (backend/internal/service/batch_image_*.go): the    *)
(* request that submits it, the client that retries or cancels it, the     *)
(* workers that poll the provider, index the output and settle the hold,   *)
(* the sweeper that fails jobs which never reached the provider, and the   *)
(* timed refund of old holds.  They share the job's row, the user's        *)
(* account and the Redis queue.                                            *)
(*                                                                         *)
(* A step is one database transaction, one Redis script or one call of the *)
(* provider.  A call may fail before or after it took effect (MaxFaults).  *)
(***************************************************************************)
EXTENDS FrozenBalance, BatchImageQueue, FiniteSets

CONSTANTS
  Workers,
  MaxRetries,    \* batchImageSettlementMaxRetries (5)
  Balances,      \* the balances the user may start with
  MaxFaults      \* bound on failed calls, crashes and pauses

ASSUME WorkersAssumption ==
  /\ IsFiniteSet(Workers)
  /\ {"submit", "client", "recovery", "free", "dead"} \cap Workers = {}

ASSUME RetriesAssumption ==
  MaxRetries \in Nat \ {0} /\ MaxFaults \in Nat /\ Balances \subseteq Int

VARIABLES
  job,        \* the job's row
  acct,       \* the user's account and the job's claims on it
  queue,      \* the job in Redis
  lock,       \* whose token the job lock holds
  provider,   \* the batch at the provider and, once it ended, its outcome
  pc,         \* where each process is
  paused,     \* workers whose heartbeat has been silent for the lock's TTL
  total,      \* history: the money the user started with
  stalled,    \* history: some worker has stalled for longer than its leases
  faults

history == <<total, stalled>>
vars == <<job, acct, queue, lock, provider, pc, paused, history, faults>>

Processes == Workers \cup {"submit", "client", "recovery"}

Unsubmitted == {"created", "uploading"}
Terminal    == {"completed", "failed", "cancelled", "output_deleted"}
Statuses    == {"none", "submitted", "running", "indexing", "settling"}
                 \cup Unsubmitted \cup Terminal

\* How the batch may end: with a billable output, with one the settlement
\* rejects (its cost, counts or price), with one that cannot be parsed, failed
\* or expired, or cancelled.
Outcomes == {"good", "costly", "unreadable", "failed", "cancelled"}

Init ==
  /\ job = [status |-> "none", named |-> FALSE, retries |-> 0, stale |-> FALSE]
  /\ \E b \in Balances : acct = NewAccount(b) /\ total = b + OtherFrozen
  /\ queue = EmptyQueue
  /\ lock = "free"
  /\ provider = "none"
  /\ pc = [p \in Processes |-> "idle"]
  /\ paused = {}
  /\ stalled = FALSE
  /\ faults = 0

-----------------------------------------------------------------------------
\* Statements and calls

Goto(p, l) == pc' = [pc EXCEPT ![p] = l]

Fault == faults < MaxFaults /\ faults' = faults + 1

NoFault == UNCHANGED faults

\* The forward moves of CanTransitionBatchImageJob.
Moves ==
  {<<"created", "uploading">>, <<"created", "submitted">>, <<"created", "cancelled">>,
   <<"uploading", "submitted">>, <<"uploading", "cancelled">>,
   <<"submitted", "running">>, <<"submitted", "indexing">>, <<"submitted", "cancelled">>,
   <<"running", "running">>, <<"running", "indexing">>, <<"running", "cancelled">>,
   <<"indexing", "settling">>, <<"settling", "completed">>}

\* CanTransitionBatchImageJob
CanTransition(from, to) ==
  (to = "failed" /\ from \notin Terminal) \/ <<from, to>> \in Moves

\* A write of the status refreshes updated_at.
SetStatus(s) == job' = [job EXCEPT !.status = s, !.stale = FALSE]

\* TransitionBatchImageJobStatus under the row lock, or an error that leaves
\* the row alone.  OK and Err say where the caller goes.
Transition(to, OK, Err) ==
  \/ CanTransition(job.status, to) /\ SetStatus(to) /\ OK /\ NoFault
  \/ ~CanTransition(job.status, to) /\ Err /\ NoFault /\ UNCHANGED job
  \/ CanTransition(job.status, to) /\ Fault /\ Err /\ UNCHANGED job

\* A billing call: it succeeds, is refused, or reports an error after its
\* transaction did or did not commit.
Billing(can, after, OK, Err) ==
  \/ can /\ acct' = after /\ OK /\ NoFault
  \/ ~can /\ UNCHANGED acct /\ Err /\ NoFault
  \/ Fault /\ Err /\ (UNCHANGED acct \/ (can /\ acct' = after))

ReleaseHold(OK, Err) == Billing(CanRelease(acct), Release(acct), OK, Err)

\* Queue.Enqueue; ErrBatchImageAlreadyQueued counts as success, and after
\* another error the caller goes to the same place.
TryEnqueue ==
  \/ queue' = Enqueue(queue) /\ NoFault
  \/ Fault /\ UNCHANGED queue

-----------------------------------------------------------------------------
\* Submit: the request that creates the job

At(p, l) == pc[p] = l

SubmitAt(l) == At("submit", l) /\ UNCHANGED <<lock, paused, history>>

CreateBatchImageJob ==
  /\ SubmitAt("idle")
  /\ job.status = "none"
  /\ SetStatus("created")
  /\ Goto("submit", "reserve")
  /\ UNCHANGED <<acct, queue, provider, faults>>

SubmitReserve ==
  /\ SubmitAt("reserve")
  /\ Billing(CanReserve(acct), Reserve(acct), Goto("submit", "items"), Goto("submit", "record"))
  /\ UNCHANGED <<job, queue, provider>>

CreatePendingItems ==
  /\ SubmitAt("items")
  /\ \/ Goto("submit", "upload") /\ NoFault
     \/ Goto("submit", "releaseRecord") /\ Fault
  /\ UNCHANGED <<job, acct, queue, provider>>

\* An illegal transition means that the job was cancelled or failed: its
\* status is then left as it is.
SubmitUpload ==
  /\ SubmitAt("upload")
  /\ Transition("uploading", Goto("submit", "provider"),
       Goto("submit", IF CanTransition(job.status, "uploading")
                      THEN "releaseRecord" ELSE "release"))
  /\ UNCHANGED <<acct, queue, provider>>

\* The provider accepts the batch or refuses it.  When its answer is lost the
\* request takes an accepted batch for a refused one.
ProviderSubmit ==
  /\ SubmitAt("provider")
  /\ \/ Goto("submit", "link") /\ provider' = "active" /\ NoFault
     \/ Goto("submit", "releaseRecord") /\ UNCHANGED provider /\ NoFault
     \/ Goto("submit", "releaseRecord") /\ provider' = "active" /\ Fault
  /\ UNCHANGED <<job, acct, queue>>

\* UpdateBatchImageJobProviderSubmit stores the provider's job name.
SubmitLink ==
  /\ SubmitAt("link")
  /\ \/ /\ CanTransition(job.status, "submitted")
        /\ job' = [job EXCEPT !.status = "submitted", !.named = TRUE, !.stale = FALSE]
        /\ \/ Goto("submit", "enqueue") /\ NoFault
           \/ Goto("submit", "abort") /\ Fault
     \/ /\ Goto("submit", "abort")
        /\ \/ ~CanTransition(job.status, "submitted") /\ NoFault
           \/ CanTransition(job.status, "submitted") /\ Fault
        /\ UNCHANGED job
  /\ UNCHANGED <<acct, queue, provider>>

\* provider.Cancel stops a batch that has not ended.
CancelledBatch == IF provider = "active" THEN "cancelled" ELSE provider

\* abortOrphanProviderJob
AbortOrphan ==
  /\ SubmitAt("abort")
  /\ Goto("submit", "done")
  /\ \/ provider' = CancelledBatch /\ NoFault
     \/ Fault /\ UNCHANGED provider
  /\ UNCHANGED <<job, acct, queue>>

\* Enqueue, of a submitted job or of a failed one whose release has to be
\* retried; a failure is only recorded.
SubmitEnqueue ==
  /\ SubmitAt("enqueue")
  /\ TryEnqueue
  /\ Goto("submit", "done")
  /\ UNCHANGED <<job, acct, provider>>

\* releaseFailedSubmitHold
SubmitRelease ==
  /\ \/ SubmitAt("releaseRecord") /\ ReleaseHold(Goto("submit", "record"), Goto("submit", "recordRetry"))
     \/ SubmitAt("release") /\ ReleaseHold(Goto("submit", "done"), Goto("submit", "recordRetry"))
  /\ UNCHANGED <<job, queue, provider>>

\* RecordBatchImageJobSubmitFailure writes "failed" whatever the status is; its
\* own failure is ignored.
RecordSubmitFailure ==
  /\ \/ SubmitAt("record") /\ Goto("submit", "done")
     \/ SubmitAt("recordRetry") /\ Goto("submit", "enqueue")
  /\ \/ SetStatus("failed") /\ NoFault
     \/ Fault /\ UNCHANGED job
  /\ UNCHANGED <<acct, queue, provider>>

\* The heartbeat that runs while the provider is called.
TouchSubmitting ==
  /\ SubmitAt("provider")
  /\ job.stale /\ job.status \in Unsubmitted
  /\ job' = [job EXCEPT !.stale = FALSE]
  /\ UNCHANGED <<acct, queue, provider, pc, faults>>

Submit ==
  \/ CreateBatchImageJob \/ SubmitReserve \/ CreatePendingItems \/ SubmitUpload
  \/ ProviderSubmit \/ SubmitLink \/ AbortOrphan \/ SubmitEnqueue
  \/ SubmitRelease \/ RecordSubmitFailure \/ TouchSubmitting

-----------------------------------------------------------------------------
\* The client: Submit again with the same idempotency key, or Cancel

ClientAt(l) == At("client", l) /\ UNCHANGED <<lock, paused, history>>

\* A repeated Submit finds the job and enqueues it if it is still submitted.
SubmitAgain ==
  /\ ClientAt("idle")
  /\ job.status = "submitted"
  /\ Goto("client", "enqueue")
  /\ UNCHANGED <<job, acct, queue, provider, faults>>

\* Cancel reads the job and chooses.
CancelRead ==
  /\ ClientAt("idle")
  /\ \/ job.status \in {"failed", "cancelled"} /\ Goto("client", "release")
     \/ job.status \notin Terminal \cup {"settling"} /\ job.named /\ Goto("client", "provider")
     \/ job.status = "created" /\ ~job.named /\ Goto("client", "cancel")
  /\ UNCHANGED <<job, acct, queue, provider, faults>>

CancelAtProvider ==
  /\ ClientAt("provider")
  /\ \/ provider' = CancelledBatch /\ Goto("client", "enqueue") /\ NoFault
     \/ Fault /\ Goto("client", "idle") /\ UNCHANGED provider
  /\ UNCHANGED <<job, acct, queue>>

CancelEnqueue ==
  /\ ClientAt("enqueue")
  /\ TryEnqueue
  /\ Goto("client", "idle")
  /\ UNCHANGED <<job, acct, provider>>

\* Only a job that is still "created" is cancelled here.
CancelTransition ==
  /\ ClientAt("cancel")
  /\ \/ job.status = "created" /\ Transition("cancelled", Goto("client", "release"), Goto("client", "idle"))
     \/ job.status # "created" /\ Goto("client", "idle") /\ NoFault /\ UNCHANGED job
  /\ UNCHANGED <<acct, queue, provider>>

CancelRelease ==
  /\ ClientAt("release")
  /\ ReleaseHold(Goto("client", "idle"), Goto("client", "enqueue"))
  /\ UNCHANGED <<job, queue, provider>>

Client ==
  \/ SubmitAgain \/ CancelRead \/ CancelAtProvider
  \/ CancelEnqueue \/ CancelTransition \/ CancelRelease

-----------------------------------------------------------------------------
\* The sweeper: ReleaseStaleUnsubmittedOnce

RecoveryAt(l) == At("recovery", l) /\ UNCHANGED <<lock, paused, history>>

\* Mutant: what the listing saw is not checked again.
StillUnsubmitted == TRUE

\* The condition of the listing, which FailStaleUnsubmitted repeats.
StaleUnsubmitted == job.status \in Unsubmitted /\ ~job.named /\ job.stale

ListStaleUnsubmitted ==
  /\ RecoveryAt("idle")
  /\ job.status \in Unsubmitted /\ ~job.named /\ job.stale
  /\ Goto("recovery", "fail")
  /\ UNCHANGED <<job, acct, queue, provider, faults>>

FailStaleUnsubmitted ==
  /\ RecoveryAt("fail")
  /\ \/ StaleUnsubmitted /\ SetStatus("failed") /\ Goto("recovery", "release") /\ NoFault
     \/ ~StaleUnsubmitted /\ Goto("recovery", "idle") /\ NoFault /\ UNCHANGED job
     \/ StaleUnsubmitted /\ Fault /\ Goto("recovery", "idle") /\ UNCHANGED job
  /\ UNCHANGED <<acct, queue, provider>>

RecoveryRelease ==
  /\ RecoveryAt("release")
  /\ ReleaseHold(Goto("recovery", "idle"), Goto("recovery", "enqueue"))
  /\ UNCHANGED <<job, queue, provider>>

RecoveryEnqueue ==
  /\ RecoveryAt("enqueue")
  /\ TryEnqueue
  /\ Goto("recovery", "idle")
  /\ UNCHANGED <<job, acct, provider>>

Recovery == ListStaleUnsubmitted \/ FailStaleUnsubmitted \/ RecoveryRelease \/ RecoveryEnqueue

-----------------------------------------------------------------------------
\* A worker: RunOnce around the pipeline processor

\* A step of Process changes neither the queue nor the lock nor the provider.
ProcessAt(w, l) == At(w, l) /\ UNCHANGED <<queue, lock, provider, paused, history>>

\* Mutant: the worker goes on with an empty queue.
QueueReserveEmpty(w) ==
  /\ At(w, "idle")
  /\ queue' = ReserveReady(queue)
  /\ Goto(w, "lock")
  /\ UNCHANGED <<job, acct, lock, provider, paused, history, faults>>

QueueReserve(w) ==
  /\ At(w, "idle")
  /\ queue.ready > 0
  /\ queue' = ReserveReady(queue)
  /\ Goto(w, "lock")
  /\ UNCHANGED <<job, acct, lock, provider, paused, history, faults>>

\* A job whose lock is held, or whose lock cannot be tried, is requeued.
TryAcquireJobLock(w) ==
  /\ At(w, "lock")
  /\ \/ lock = "free" /\ lock' = w /\ Goto(w, "read") /\ NoFault
     \/ lock # "free" /\ Goto(w, "requeue") /\ NoFault /\ UNCHANGED lock
     \/ Fault /\ Goto(w, "requeue") /\ UNCHANGED lock
  /\ UNCHANGED <<job, acct, queue, provider, paused, history>>

\* The pipeline reads the status, and the processor or the settlement it
\* chooses reads the row again.
PipelineRead(w) ==
  /\ ProcessAt(w, "read")
  /\ \/ Goto(w, IF job.status = "settling" THEN "settle" ELSE "process") /\ NoFault
     \/ Fault /\ Goto(w, "requeue")
  /\ UNCHANGED <<job, acct>>

ProcessRead(w) ==
  /\ ProcessAt(w, "process")
  /\ \/ job.status \in {"failed", "cancelled"} /\ Goto(w, "release")
     \/ job.status \in {"completed", "settling", "output_deleted"} /\ Goto(w, "ack")
     \/ /\ job.status \notin Terminal \cup {"settling"}
        /\ \/ ~job.named /\ Goto(w, "requeue")
           \/ job.named /\ job.status = "indexing" /\ Goto(w, "index")
           \/ job.named /\ job.status = "running" /\ Goto(w, "pollRunning")
           \/ job.named /\ job.status \notin {"indexing", "running"} /\ Goto(w, "poll")
  /\ UNCHANGED <<job, acct, faults>>

\* provider.Get; a batch that is queued at the provider, or a failed call, is
\* polled again later.
ProviderGet(w) ==
  /\ \E l \in {"poll", "pollRunning"} : ProcessAt(w, l)
  /\ \/ provider = "active" /\ Goto(w, "requeue") /\ NoFault
     \/ provider = "active" /\ pc[w] = "poll" /\ Goto(w, "toRunning") /\ NoFault
     \/ provider \in {"good", "costly", "unreadable"} /\ Goto(w, "toIndexing") /\ NoFault
     \/ provider = "failed" /\ Goto(w, "toFailed") /\ NoFault
     \/ provider = "cancelled" /\ Goto(w, "toCancelled") /\ NoFault
     \/ Fault /\ Goto(w, "requeue")
  /\ UNCHANGED <<job, acct>>

\* The transitions of the processor; each says where the worker goes next.
ProcessTransition(w) ==
  /\ \E t \in {<<"toRunning", "running", "requeue">>, <<"toIndexing", "indexing", "index">>,
               <<"toFailed", "failed", "release">>, <<"toCancelled", "cancelled", "release">>,
               <<"toSettling", "settling", "requeue">>} :
       /\ ProcessAt(w, t[1])
       /\ Transition(t[2], Goto(w, t[3]), Goto(w, "requeue"))
  /\ UNCHANGED acct

\* Index reads the output and replaces the items while the job is "indexing".
\* If the output cannot be opened the job is tried again; any other error, of
\* the output or of a call (the expected ids, the stream, the replacement of
\* the items), fails the job.
Index(w) ==
  /\ ProcessAt(w, "index")
  /\ \/ provider = "unreadable" /\ Goto(w, "toFailed") /\ NoFault
     \/ /\ provider # "unreadable"
        /\ Goto(w, IF job.status = "indexing" THEN "toSettling" ELSE "requeue") /\ NoFault
     \/ Fault /\ (Goto(w, "requeue") \/ Goto(w, "toFailed"))
  /\ UNCHANGED <<job, acct>>

\* Mutant: a failed release is acknowledged like a successful one.
ReleaseTerminalHoldOnce(w) ==
  /\ ProcessAt(w, "release")
  /\ ReleaseHold(Goto(w, "ack"), Goto(w, "ack"))
  /\ UNCHANGED job

\* releaseTerminalHold
ReleaseTerminalHold(w) ==
  /\ ProcessAt(w, "release")
  /\ ReleaseHold(Goto(w, "ack"), Goto(w, "requeue"))
  /\ UNCHANGED job

-----------------------------------------------------------------------------
\* Settlement

\* Mutant: one retry too few.
ExhaustedEarly(n) == n + 1 >= MaxRetries

\* isBatchImageSettlementRetryExhausted, of a retry count
Exhausted(n) == n >= MaxRetries

\* What Settle does with a settling job: exhausted retries come before every
\* other check.
SettleNext ==
  CASE Exhausted(job.retries) -> "exhausted"
    [] ~Exhausted(job.retries) /\ provider = "costly" -> "reject"
    [] OTHER -> "capture"

\* Settle reads the row.
Settle(w) ==
  /\ ProcessAt(w, "settle")
  /\ Goto(w, CASE job.status = "completed" -> "ack"
               [] job.status = "settling"  -> SettleNext
               [] OTHER -> "requeue")
  /\ UNCHANGED <<job, acct, faults>>

\* Mutant: the job is marked settled whatever the capture reports.
SettleCaptureUnchecked(w) ==
  /\ ProcessAt(w, "capture")
  /\ Billing(CanCapture(acct), Capture(acct), Goto(w, "mark"), Goto(w, "mark"))
  /\ UNCHANGED job

SettleCapture(w) ==
  /\ ProcessAt(w, "capture")
  /\ Billing(CanCapture(acct), Capture(acct), Goto(w, "mark"), Goto(w, "captureFailed"))
  /\ UNCHANGED job

\* recordSettlementFailure, of a rejected output or of a failed capture.
RecordSettlementFailure(w) ==
  /\ \E l \in {<<"reject", "requeue">>, <<"captureFailed", "recheck">>} :
       /\ ProcessAt(w, l[1])
       /\ \/ /\ job' = [job EXCEPT !.retries = @ + 1]
             /\ Goto(w, IF Exhausted(job.retries + 1) THEN "exhausted" ELSE l[2])
             /\ NoFault
          \/ Fault /\ Goto(w, l[2]) /\ UNCHANGED job
  /\ UNCHANGED acct

\* failExhaustedSettlement releases the hold first ...
ExhaustedRelease(w) ==
  /\ ProcessAt(w, "exhausted")
  /\ ReleaseHold(Goto(w, "exhaustedFail") /\ UNCHANGED job,
                 Goto(w, "recheck") /\ job' = [job EXCEPT !.retries = @ + 1])

\* ... and then fails the job.
ExhaustedFail(w) ==
  /\ ProcessAt(w, "exhaustedFail")
  /\ Transition("failed", Goto(w, "recheck"), Goto(w, "requeue"))
  /\ UNCHANGED acct

\* MarkBatchImageJobSettled
MarkSettled(w) ==
  /\ ProcessAt(w, "mark")
  /\ Transition("completed", Goto(w, "ack"), Goto(w, "requeue"))
  /\ UNCHANGED acct

\* After a billing failure the pipeline reads the row once more.
Recheck(w) ==
  /\ ProcessAt(w, "recheck")
  /\ Goto(w, IF job.status \in Terminal THEN "ack" ELSE "requeue")
  /\ UNCHANGED <<job, acct, faults>>

Process(w) ==
  \/ PipelineRead(w) \/ ProcessRead(w) \/ ProviderGet(w) \/ ProcessTransition(w)
  \/ Index(w) \/ ReleaseTerminalHold(w)
  \/ Settle(w) \/ SettleCapture(w) \/ RecordSettlementFailure(w)
  \/ ExhaustedRelease(w) \/ ExhaustedFail(w) \/ MarkSettled(w) \/ Recheck(w)

\* RunOnce ends with Ack or RequeueAfter; a failed call leaves the id active.
QueueReturn(w) ==
  /\ \/ At(w, "ack") /\ queue' = Ack(queue) /\ NoFault
     \/ At(w, "requeue") /\ queue' = RequeueAfter(queue) /\ NoFault
     \/ pc[w] \in {"ack", "requeue"} /\ Fault /\ UNCHANGED queue
  /\ Goto(w, "unlock")
  /\ UNCHANGED <<job, acct, lock, provider, paused, history>>

\* The deferred lock.Release compares the token.
Unlock(w) ==
  /\ At(w, "unlock")
  /\ lock' = IF lock = w THEN "free" ELSE lock
  /\ paused' = paused \ {w}
  /\ Goto(w, "idle")
  /\ UNCHANGED <<job, acct, queue, provider, history, faults>>

Worker(w) ==
  QueueReserve(w) \/ TryAcquireJobLock(w) \/ Process(w) \/ QueueReturn(w) \/ Unlock(w)

-----------------------------------------------------------------------------
\* Time, the provider and crashes

Busy == {w \in Workers : pc[w] # "idle"}

\* The delayed mover; the delay of a requeued job has passed.
MoveDueDelayed ==
  /\ queue.delayed
  /\ queue' = MoveDueDelayedToReady(queue)
  /\ UNCHANGED <<job, acct, lock, provider, pc, paused, history, faults>>

\* The recovery of ids that no worker has refreshed.
RecoverActive ==
  /\ queue.active
  /\ Busy \subseteq paused
  /\ queue' = RecoverStaleActive(queue)
  /\ UNCHANGED <<job, acct, lock, provider, pc, paused, history, faults>>

\* The lock's TTL passes.
LockExpires ==
  /\ lock \in paused \cup {"dead"}
  /\ lock' = "free"
  /\ UNCHANGED <<job, acct, queue, provider, pc, paused, history, faults>>

\* A worker or its heartbeat stalls for longer than its leases.
Pause(w) ==
  /\ w \in Busy \ paused
  /\ Fault
  /\ paused' = paused \cup {w}
  /\ stalled' = TRUE
  /\ UNCHANGED <<job, acct, queue, lock, provider, pc, total>>

\* The job has not been updated since the sweeper's cutoff: nobody works on
\* it any more, or the request that does is slow (or its heartbeat fails).
GoStale ==
  /\ job.status \in Unsubmitted /\ ~job.stale
  /\ job' = [job EXCEPT !.stale = TRUE]
  /\ UNCHANGED <<acct, queue, lock, provider, pc, paused, history, faults>>

\* The timed refund (FrozenBalanceRecovery): the hold has reached its age.
ExpireHold ==
  /\ CanExpire(acct)
  /\ acct' = Expire(acct)
  /\ UNCHANGED <<job, queue, lock, provider, pc, paused, history, faults>>

ProviderEnds ==
  /\ provider = "active"
  /\ provider' \in Outcomes
  /\ UNCHANGED <<job, acct, queue, lock, pc, paused, history, faults>>

\* MarkBatchImageOutputDeleted: the owner, or the output's age, has the output of
\* a completed job deleted.
CleanupOutput ==
  /\ job.status = "completed"
  /\ SetStatus("output_deleted")
  /\ UNCHANGED <<acct, queue, lock, provider, pc, paused, history, faults>>

\* A process dies.  The request and the calls of the client and the sweeper
\* are not resumed; a worker comes back, its lock does not.
Crash ==
  /\ Fault
  /\ \E p \in Processes :
       /\ pc[p] \notin {"idle", "done"}
       /\ Goto(p, IF p = "submit" THEN "done" ELSE "idle")
       /\ lock' = IF lock = p THEN "dead" ELSE lock
       /\ paused' = paused \ {p}
  /\ UNCHANGED <<job, acct, queue, provider, history>>

Environment ==
  \/ MoveDueDelayed \/ RecoverActive \/ LockExpires \/ GoStale \/ ExpireHold
  \/ ProviderEnds \/ CleanupOutput \/ Crash \/ \E w \in Workers : Pause(w)

Next == Submit \/ Client \/ Recovery \/ (\E w \in Workers : Worker(w)) \/ Environment

\* Workers, the mover and the recovery of active ids are loops that run as
\* long as the service does; a batch ends, and so does a dead worker's lease.
Fairness ==
  /\ \A w \in Workers : WF_vars(Worker(w))
  /\ WF_vars(MoveDueDelayed) /\ WF_vars(RecoverActive)
  /\ WF_vars(LockExpires) /\ WF_vars(ProviderEnds)

Spec == Init /\ [][Next]_vars /\ Fairness

-----------------------------------------------------------------------------
\* Properties

\* The row, the account, the Redis structures and the processes have values of
\* their types; the ready list never holds a negative number of ids.
TypeOK ==
  /\ job \in [status : Statuses, named : BOOLEAN, retries : Nat, stale : BOOLEAN]
  /\ acct \in AccountType
  /\ queue \in QueueType
  /\ lock \in Workers \cup {"free", "dead"}
  /\ provider \in Outcomes \cup {"none", "active"}
  /\ DOMAIN pc = Processes
  /\ paused \subseteq Busy
  /\ stalled \in BOOLEAN
  /\ faults \in 0..MaxFaults

\* The account always adds up, whichever of the request, the client, the
\* sweeper, the workers and the timed refund settles the hold, in whatever
\* order and however often: frozen_balance is what the other jobs hold plus
\* this job's hold while it is outstanding, and nothing is created or lost.
FrozenIsOutstandingHold ==
  /\ acct.frozen = OtherFrozen + (IF Outstanding(acct) THEN Hold ELSE 0)
  /\ acct.balance + acct.frozen + acct.charged = total

\* A completed job has been charged exactly once, even if a capture reported
\* an error after it committed, two workers settled the job at once or the
\* output was deleted since; a cancelled one has not been charged.
CompletedIsCharged ==
  /\ job.status \in {"completed", "output_deleted"} => acct.charged = Cost
  /\ job.status = "cancelled" => acct.charged = 0

\* A failed job has not been charged: neither a settlement that gave up nor an
\* index that failed while the job was being settled leaves a charge behind.
FailedIsUncharged == job.status = "failed" => acct.charged = 0

\* So it is as long as workers keep their leases and fewer calls fail than the
\* settlement has retries: captures that committed but reported an error, lost
\* releases, crashes and failed indexing included.
FailedIsUnchargedUnlessStalled == stalled \/ FailedIsUncharged

\* While the batch that the row names runs at the provider, the user does not
\* get the hold back by a release: the sweeper's release, the failed request's
\* and the client's happen only if the batch was never linked to the job.
NoReleaseWhileProviderRuns ==
  job.named /\ provider = "active" => "release" \notin acct.claims

\* As long as its inflight key keeps the job from being enqueued again, its id
\* is in a structure from which a worker will get it.
InflightJobIsQueued == queue.inflight => Queued(queue)

\* The hold of a failed or cancelled job in the queue is eventually returned,
\* however the release failed before and whoever crashed.
ReleaseIsRetried ==
  (job.status \in {"failed", "cancelled"} /\ Outstanding(acct) /\ queue.inflight)
    ~> ~Outstanding(acct)

=============================================================================
