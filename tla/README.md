# Verification of zayuapi's concurrent core

zayuapi is an AI gateway: it sells access to upstream model accounts, meters
requests and charges balances or subscriptions. This directory models the parts
whose correctness depends on the order in which requests, workers, webhooks,
administrators and failures meet: what moves money (payment orders, refunds,
the balance holds of batch image jobs), what makes a request run once
(idempotency keys, the system operation lock), what limits it (concurrency
slots) and what keeps upstream accounts usable (OAuth token refresh). TLC
checks the models, TLAPS proves their safety properties for all parameters. The
sources are under `backend/internal` (`service`, `repository`, `handler`).

## 1. The system's parts

| Part | State it keeps | Operations | What is hard |
|---|---|---|---|
| Payment orders (`payment_order*.go`) | a row of `payment_orders`: status, `paid_at`, `updated_at`, `expires_at` | CreateOrder, cancel (user, admin), expiry sweep, verification, reconcile sweep | all of them read, ask the gateway and write in separate steps, while webhooks arrive |
| Webhook handler (`payment_webhook_handler.go`) | none; the provider repeats what is not acknowledged | handleNotify | duplicate, concurrent, late deliveries; what is acknowledged is never sent again |
| Fulfillment (`payment_fulfillment.go`) | the lease (status RECHARGING + `updated_at`), audit rows | toPaid, lease, doBalance / doSub, rebate, markCompleted, markFailed, admin retry | crash between any two steps, lease take-over, two workers in one order |
| Redeem codes (`redeem_service.go`, `redeem_code_repo.go`) | one code per balance order: the idempotency record of the credit | create, lock, use, admin delete / expire / edit | the commit succeeds and a later step fails; admins edit the record |
| Refunds (`payment_refund.go`, `user_repo.go`) | refund statuses, held deduction (REFUND_PENDING audit row), REFUND_ROLLBACK_FAILED marker, balance | RequestRefund, PrepareRefund, ExecuteRefund, QueryAndFinalizeRefund | lost gateway replies, two admins, stale query results, spending between plan and deduction |
| Idempotency coordinator (`idempotency.go`, `idempotency_repo.go`) | a row per key: status, `locked_until`, `expires_at`, fingerprint, stored response | Execute: claim, replay, reclaim, mark; cleanup loop | expiry or clean-up while an execution is running, a mark that names no owner |
| System operation lock (`system_operation_lock_service.go`) | one row of the same table | acquire, renew, release | a lease that runs out under its holder |
| Concurrency slots and wait queue (`concurrency_service.go`, `concurrency_cache.go`, `gateway_helper.go`, `openai_live.go`) | Redis sorted sets of slots and live leases, wait counter, all with TTLs | acquire, release, refresh, convert a slot into a lease, queue, startup cleanup | process death, late release, a lease lost while its call goes on |
| Usage billing, frozen balances (`usage_billing*.go`, `media_billing*.go`, `frozen_balance_*.go`) | balance, frozen balance, dedup rows | charge, reserve, capture, release, timed refund | exactly-once charge, hold captured or released once |
| Batch image jobs (`batch_image_*.go`) | job row, Redis queue, job lock, hold | submit, poll, index, settle, cancel, recover, delete output | worker leases, recovery racing submission, a settlement that fails half-way |
| OAuth token refresh (`oauth_refresh_api.go`, `token_refresh_service.go`) | account credentials and state, lock in Redis, mutex per instance | refresh, connection test, administrators' edits | rotating tokens spent twice, stale whole-row writes |
| Scheduler and auth outboxes (`scheduler_*`, `auth_cache_invalidation_outbox.go`) | outbox rows, snapshots, caches | append, consume, rebuild | stale snapshots, lost events |
| Locks and pools (`leader_lock.go`, `usage_record_worker_pool.go`, `user_msg_queue_service.go`) | leases, queues | acquire, renew, release; submit, drop, drain | expiry, overflow, shutdown |

`PROJECT.json` lists all parts with their files, also those that are not
modelled (provider protocols, request and response conversion, login, ops
reporting, the web frontend).

How the modelled parts interact. Payments: CreateOrder inserts a PENDING row and asks the
gateway for a payment; the customer pays; the gateway's webhook, or a query by
verification, cancellation or a sweep, calls HandlePaymentNotification, which
moves the order to PAID and fulfills it in the same goroutine; fulfillment
credits the balance by creating and redeeming the order's own code (or extends
a subscription under a unique audit row), accrues the inviter's rebate and
completes the order. A completed order may enter the refund workflow, which
takes the credit back, asks the gateway to refund and settles the order now or,
when the outcome is unknown, on a later query.

Batch images: a submission inserts a job, freezes its price on the user's
account, starts a batch at the provider and enqueues the job; workers poll the
provider under a lock per job, index the output and settle, i.e. capture the
hold or give it back; meanwhile the client may cancel, a sweeper fails jobs that
never reached the provider, and a timed job refunds old holds.

Guards: admin and payment handlers run inside `IdempotencyCoordinator.Execute`;
update, rollback and restart run under the system operation lock, which keeps
its lease in the same table through the same repository. Slots are taken around
every gateway request. The token refresh writes the accounts that these
requests use.

## 2. The modules

| Module | Content |
|---|---|
| `PaymentOrder` | creation, webhook, verification, cancellation, expiry, fulfillment, retry, faults, admin work on codes |
| `PaymentLedger` | the promise: an order is paid, then credited, then rebated, once each |
| `PaymentRefund` | request, plan, execution and late finalization of a balance order's refund |
| `RefundLedger` | the promise: credit is taken once, given back only before the gateway paid, and the gateway pays at most once |
| `IdempotencyStore` | the statements of `idempotency_repo.go` as operators on a key's row; used by the next two |
| `Idempotency` | Execute, its failures and the cleanup loop |
| `SystemOperationLock` | acquire, renewal, release and expiry of the global lock |
| `FrozenBalance` | reserve, capture, release and timed refund of one job's hold, as operators on the account and its claims |
| `BatchImageQueue` | the scripts of the Redis queue, as operators on what Redis holds of one job |
| `BatchImage` | composes both: submission, client, workers, sweeper and timed refund of one job |
| `ConcurrencySlots` | requests, live calls and waiters of one account or user |
| `TokenRefresh` | background refreshes, connection tests and administrators at one Grok account |
| `...Proofs` | the theorems about `PaymentOrder`, `PaymentRefund`, `Idempotency`, `BatchImage`, `ConcurrencySlots`, `TokenRefresh` and `SystemOperationLock` (section 4) |
| `MC...` | constants and symmetry for TLC |

**Atomicity.** One action is one SQL statement or transaction, one Redis script,
or one call of a gateway or provider, of one worker (a goroutine). Handlers are sequences of such actions: `pc`
is where the worker is, `ord` the order, `kind` (or the plan variables) what it
carries between the steps. Anything may happen between two steps of a handler.

**Time in the payment modules.** `updated_at` is only compared for equality with a version read
earlier, and with "five minutes ago" (`paymentGraceMinutes` and
`paymentFulfillmentLeaseDuration` are both five minutes). The models keep
exactly these two facts: `lease[w]` / `version[w]` ("the `updated_at` worker w
read is still the order's") and `old[o]` ("`updated_at` is at least five minutes
ago"). ent's `UpdateDefault` moves `updated_at` on every update, so `Touch` and
`SetStatus` reset both. Two writes in the same microsecond are taken to have
different versions. `due[o]` is "`expires_at` has passed".

**State and code in `PaymentOrder`.** `status`, `paidAt` are columns. `code` is
the redeem code with the order's `recharge_code` (absent, unused, used, or
disabled/expired); for a subscription order it is the SUBSCRIPTION_ASSIGNED
audit row. `subscriptions` is the set of subscription orders (`order_type`, which
no handler writes), arbitrary at the start. `credited` and `rebate` count what the user and the inviter really
received. `gateway` is the truth at the provider: nothing, open, closed, paid in
full, or paid with another amount ("mispaid"). `notify` says that the provider
still repeats its webhook. `late` is the PAYMENT_AFTER_EXPIRY audit row. The
customer can pay once CreateOrder has saved the gateway's reply, which is also
when the reply is returned to the customer.

The Redis lock around a redemption may refuse only while another worker holds
it and may be granted even then (it expires after ten seconds; an error of Redis
counts as granted), so nothing rests on it.

**State and code in `PaymentRefund`.** Amounts are units of credit. `held` is
the deduction in the REFUND_PENDING audit row, `blocked` the
REFUND_ROLLBACK_FAILED row, `from`/`amt`/`force`/`toDeduct` the RefundPlan in a
worker's hands, `gw` and `back` the gateway's books. `taken` is what the user's
balance is currently short of because of the order's refund. `Spend` is usage
billing, which may overdraw the balance once. A gateway call ends in an explicit
rejection, a success, or "pending"; "pending" includes every lost or malformed
reply, with any truth behind it. Every write of the order's row can fail
(`WriteFails`): the handler then returns, with or without an error, and leaves
the row as it was.

**State and code in `Idempotency`.** `row` is the key's row (rows of other keys
are never touched by the same statement), `started` the `now` Execute reads
once, `seen` what it read of the row, `rid` the record it owns. `Begin` to
`MarkFailedRetryable` are Execute's statements in the code's order; `StoreFails`
is a statement that returns an error, `Crash` ends a request anywhere,
`DeleteExpired` is the cleanup loop. A clock in units drives `locked_until` and
`expires_at`. The code bounds neither the time to claim nor the time to run;
`TimeAssumption` names what it silently relies on: a request claims within
`ProcessingTimeout` (30 s) and ends within `TTL` (24 h). `until` is, for a
request that arrives while nobody works on the key, the time up to which the row
it found must protect the key. TryReclaim compares neither `expires_at` nor a
version: a request that read an expired success can reclaim a fresh one stored
since, which is why `NoRerunBeforeExpiry` speaks of such requests only.

**State and code in `SystemOperationLock`.** The row's fingerprint is the
operation id. `Renew` is a tick of `renewLoop`, which ends when
ExtendProcessingLock finds no row; `renewing` says whose loop runs. The
statements of Acquire take no time (milliseconds against a lease of 30 s).

**State and code in `BatchImage`.** `job` is the row (`named`: it holds the
provider's job name; `stale`: old enough for the sweeper; `retries`: settlement
attempts), `acct` the user's money with the job's rows in `usage_billing_dedup`
(`claims`) and `balance_hold_releases` (`expired`), `queue` and `lock` are Redis,
`provider` is the truth at the provider. The processes are the submitting
request, a client that retries or cancels, the sweeper, and the workers. A call
may fail before or after it took effect, the provider's submission included; a
worker may pause until its lock has expired, and go on (`stalled` remembers that
one did). `Index` leads to `failed` for an output that cannot be parsed and, as
in the code, for any other error of a read or write it makes, except a missing
output and a job that has left `indexing`, which are tried again. `Hold`, `Cost`, `OtherFrozen` are amounts; the user's other
jobs appear only as `OtherFrozen`, since each transaction takes the batch's
advisory lock and changes the account by deltas.

**State and code in `ConcurrencySlots`.** Members of the sorted sets carry their
age, which stops at the TTL, so the clock needs no bound. A request acquires,
waits (`waits` is the wait counter) or is refused, works and releases; a live
call gets a slot, turns it into a lease (which counts both sets in one script),
refreshes it every `RefreshInterval`, redials a broken connection and ends when
a refresh finds no lease. A slot that cannot be asked for (Redis fails) is
refused; a wait that cannot be counted is allowed, as in the code. `Start` is
the startup cleanup, which removes the slots of every other process prefix: the
limit therefore holds for one instance only. `concurrency_slots` uses one,
`slots_instances` shows what happens with two.

**State and code in `TokenRefresh`.** A credential document is identified by its
refresh token, a number. The code compares the whole document and the proxy; a
comparison that misses because of another key ends like an update that fails,
which is a fault of the model. `live` is what the provider accepts; a presented token
is spent. A caller takes the instance's mutex and the lock in Redis (it goes on
without the lock if Redis fails), reads the row again, calls the provider,
stores the result only where the row still has the credentials it read, or
marks the account only where the row still has the rejected ones. `EditRead` and
`EditWrite` are UpdateAccount, which writes the whole row. `disturbed` records
that a lock call failed or that a provider call outlasted the lease: without
either, no two callers use a token at once.

**Faults in the payment modules.** Each kind is a disturbance the code handles (or should); a run
chooses kinds and how many may happen.

| Kind | Meaning |
|---|---|
| `crash` | the process dies, or the request's context ends and every later call of the handler fails |
| `step` | one database or Redis call of the handler returns an error |
| `query` | the gateway query of a cancellation, sweep or verification fails |
| `provider` | the gateway call of CreateOrder, or saving its reply, fails |
| `swallow` | a read fails where the code then returns nil |
| `delete`, `edit` | an administrator deletes, or expires or edits, the order's redeem code |
| `rollback` | a refund's deduction cannot be given back |
| `marker` | nor can the audit row that says so be written |
| `write` | a write of the order's row during a refund fails |

The other modules have one bound, `MaxFaults`, on crashes, failed calls, pauses
and late answers of any kind.

## 3. What TLC checks

The payment runs use one order and two workers; orders share nothing in
`PaymentOrder`, and the races of the code are between two handlers of one order.
Every handler can run any number of times. `CHECK_DEADLOCK FALSE` is set where
the life of the order, key, job or operation really ends, or where a bound
(`MaxTime`, `MaxAgings`) ends the run; `ConcurrencySlots` never stops and is
checked for deadlock.

| Run | Shows |
|---|---|
| `order_safety` | orders of both types, three faults of any kind, code administration included: credited only if paid in full; rebate after credit and once; COMPLETED means credited, rebated and `paid_at` set; PENDING / EXPIRED / CANCELLED means not credited; nothing leaves COMPLETED except into the refund workflow |
| `order_liveness` | orders of both types, two crashes, failed steps or failed gateway calls: credited at most once; implements `PaymentLedger`; a paid order is credited or recorded as late; no order stays PENDING unless it was paid with a wrong amount |
| `refund_safety` | up to three attempts on an order of amount 2 with first balances 0..3, two faults, failed writes among them: one owner per REFUNDING order, an aborted refund leaves no trace, the pending row holds what was taken, a settled refund was paid once; implements `RefundLedger` |
| `refund_orphan` | the same with lost markers too: an attempt that a crash or a failed write left in REFUNDING is never acted on again |
| `idempotency_safety` | three requests with one key, one of them with another payload and one with a truncated response, one fault: one execution at a time; its owner's row is not taken or cleaned up; a replay is the response of an equal request that took effect; no second execution before expiry; a key whose owner died is freed |
| `batch_image` | one job, two workers, a balance that covers the hold and one that does not, one fault: balance + frozen + charged is constant and frozen is exactly the outstanding holds; completed means charged once, cancelled not charged, failed not charged unless a worker stalled past its leases; no release while a batch the row names runs; the queue never loses a job; a failed or cancelled job's hold is given back in the end |
| `concurrency_slots` | three requests and a live call against a limit of one and a queue of one, two faults: the limit holds, waiters stay bounded, a call without a lease ends |
| `token_refresh` | two instances, two workers and a connection test, one edit, two faults: one refresh at a time unless the lock was disturbed; a refresh never undoes a new authorization; an account is put into error only for credentials that really are dead; an expiring account is refreshed or put into error |
| `system_lock` | counterexample: an operation that reclaimed the lock row is never renewed, a second one runs beside it |
| `token_edit` | counterexample: an edit of a setting overlaps a refresh and restores the spent refresh token |
| `batch_index` | counterexample: a worker stalls while it indexes, another one captures, the first one's index error marks the charged job failed |
| `slots_instances` | counterexample: an instance starts, removes the slots of the other one's requests, and admits one more than the limit |

The counterexamples are disagreements between the code and one of its comments,
messages or tests; `findings` in `PROJECT.json` quotes both sides.

Sizes: `refund_orphan` 1,272,995 distinct states, `refund_safety` 1,031,037,
`batch_image` 606,759, `token_refresh` 556,257, `idempotency_safety` 543,921,
`order_safety` 492,637, `concurrency_slots` 234,717, `order_liveness` 188,500;
each takes about two minutes or less. The counterexamples have 34
(`batch_index`), 16 (`system_lock`), 10 (`token_edit`) and 5
(`slots_instances`) states.

**Known behaviours of the payment code.** The payment models have these
behaviours, and no property of a run excludes them:

- `adminServiceImpl.DeleteRedeemCode` deletes used codes too. With the fault
  kind `delete`, `CreditedAtMostOnce` is violated: crash after the credit, code
  deleted, retry credits again. `order_safety`, which has that kind, therefore
  does not check it, and the theorem `CreditOnce` assumes `NoCodeAdmin`.
- The lease version comes from a second read (`payment_fulfillment.go:326`), so a
  worker stalled between the two statements adopts the version of the worker
  that took over, and `lease[w]` can be true of two workers. `FulfilledIsFinal`
  and `CreditedAtMostOnce` hold nevertheless.
- A failed gateway query counts as unpaid, so a paid order can be expired, and a
  webhook later than the grace period only leaves an audit row: `PaidIsSettled`
  has to allow `late`.
- A failed read of the order in confirmPayment acknowledges the webhook. With
  the fault kind `swallow` an order can stay PAID until an administrator
  retries; `order_liveness` leaves that kind out.
- A refund whose deduction cannot be given back and whose marker cannot be
  written either becomes REFUND_FAILED and can be refunded again: with the fault
  kind `marker`, `AbortedRefundIsUndone` is violated, so only `refund_orphan`
  has that kind.
- A crash during an attempt, or a failed write of its outcome
  (`payment_refund.go:746`, `:757`, `:999` and the transaction of
  markRefundPending), leaves the order REFUNDING, which no handler takes
  further: an administrator has to find out at the gateway what happened. That
  an attempt ends is therefore not a property of this code; that nobody acts on
  one of unknown outcome is (`OrphanedRefundIsFrozen`).
- An order paid with a wrong amount is neither confirmed nor expired by any
  sweep; `PendingIsResolved` exempts it.
- Credit given back after a rejected refund goes through UpdateBalance, which
  adds it to `total_recharged`; no payment handler reads that column and the
  model leaves it out.

**Bounds.** Two faults are enough for "crash, then something fails in the
recovery"; three in `order_safety` allow crash, edit, delete. Amount 2 makes
partial refunds differ from full ones; balances 0..3 and `Spend` make the
balance too small, exact, ample, and negative at every step; three attempts let
a stale query result meet a later attempt while a third is planned.

`Idempotency`: a third request meets two that work one after the other;
`ProcessingTimeout` 2, `TTL` 4, `FailedRetryBackoff` 1 keep the order of the
defaults; seven units of time let a claim be made, expire, be cleaned up and be
made again. `BatchImage`: `MaxRetries` 2 instead of 5; a failed job
is uncharged while fewer calls fail than the settlement has retries, because a
capture that commits and reports an error every time uses them up and the job is
then marked failed although it is charged. `batch_image` has one fault, below
the bound; `batch_index` has three retries and two faults (a stall and an index
error), so its counterexample is not this one.
`OtherFrozen = Hold` lets a second, wrong release go unnoticed by the
non-negativity check of `frozen_balance`, so that the claims have to prevent it.
`ConcurrencySlots`: `SlotTTL` 3 > `LeaseTTL` 2 > `RefreshInterval` 1 as in the
code (15 min, 60 s, 20 s). `TokenRefresh`: callers of the same and of different
instances; two faults are a crash and a failed call in the recovery.

**Fairness.** `FairSpec` of `PaymentOrder`: a handler that has begun goes on
(weak fairness of `Step`: goroutines run, calls return or time out); an
unacknowledged webhook is delivered again and again (strong fairness: providers
repeat until they get a success answer, and a worker is free again and again);
the expiry sweep picks a due order again and again (it runs every minute and
takes all due orders); time passes. No fairness is assumed for customers, users,
administrators, or for the gateway deciding a pending refund; `PaymentRefund`
is checked without fairness.

In the other modules a handler that has begun goes on, time passes and leases
end, and: `Idempotency` the cleanup loop runs (a ticker in the service);
`BatchImage` workers, the mover of delayed ids and the recovery of active ids
are loops that run as long as the service does, and a batch ends at the
provider; `ConcurrencySlots` the refresh tick of a connected call runs and an
upstream that can be dialled is dialled; `TokenRefresh` cycles come round and an
administrator's request, once begun, ends. Clients, administrators, the sweeper,
the timed refund and the provider's answers get no fairness.

## 4. What is proved

Each `...Proofs` module proves theorems about the component it is named after,
for all values of the constants that the module's `ASSUME`s allow: any sets of
workers, requests or orders, any durations and amounts, any number of faults.
Every invariant, the two action properties and both refinements of the passing
runs have a theorem. Few safety properties are inductive; this section names the
strengthening each proof rests on. All strengthenings were
first checked by TLC on the instance of the component's run. The proofs have one
step per action and below it one per conjunct the action can disturb; the last
step of each theorem is temporal induction.

Where a theorem has a hypothesis, it is because the property fails without it
(section 3 and the findings say how):

| Hypothesis | Theorems | Why |
|---|---|---|
| `NoCodeAdmin` | `CreditOnce`, `LedgerRefinement` | a deleted code is created and redeemed again by a retry |
| `NoLostMarker` | `UndoneSafe`, `PendingSafe`, `SettledSafe`, `RefundRefinement` | a refund that could be neither undone nor marked is taken for undone |
| `FewFaults` | `FailureSafe` | captures that commit and report an error use up the retries; `batch_index` shows why the property also excepts stalls |
| `SingleInstance` | `WaitersSafe`, `LimitSafe` | the startup cleanup of an instance removes the slots of the others |
| `ShortOperations` | `ShortOperationsSafe` | a reclaimed lock row is not renewed |
| `TimeAssumption` | those of `Idempotency` | an assumption of the module: nothing stops a request that stalls before its claim for longer than another one's lock |

**`PaymentOrderProofs`**: `TypeCorrect`, `CreditPaid`, `RebateSafe`,
`CompletedSafe`, `AbandonedSafe`, `FulfilledStays` hold whatever administrators
do to redeem codes, and so does `SubscriptionOnce` (a subscription order is
credited at most once); `CreditOnce` and `LedgerRefinement` if they leave them
alone. `IInv` is:

- `UsedInv`: a used code (or an assignment marker) means that the benefit was
  granted, which is why a retry that finds one goes straight to the rebate.
- `PaidInv`: a recorded payment time means the gateway was paid in full, and a
  worker past the amount check works on such an order.
- `CreateInv`: while CreateOrder is talking to the gateway nobody can have paid,
  so its unconditional FAILED never hits a paid order.
- `StatusInv`: which statuses go with a recorded payment.
- `LeftInv`: an order that still can be paid has no benefit.
- `OrderInv`: no rebate without a benefit; a worker at the rebate step found or
  made the benefit, one at `complete` also the rebate, and so did a fulfilled
  order.
- `MarkerInv`: subscription orders, of which there is always the same set
  (`TypesFixed`), use the marker, never a code.

`CodeInv` adds, of the orders whose code or marker no administrator reaches,
that the benefit was granted exactly as often as the code is used. This is what makes the take-over of a lease harmless:
the lease does not protect the credit, the code does. The refinement maps `Pay`,
the redemption or assignment and the rebate to the ledger's three steps; all
others stutter.

**`PaymentRefundProofs`**: `TypeCorrect`, `OneOwner`, `UndoneSafe`,
`PendingSafe`, `SettledSafe`, `RefundRefinement`, `OrphansFrozen`.
`OneRefundOwner` is inductive with the types. `OrphansFrozen` needs no more: a
worker that does not own an order in REFUNDING neither touches nor claims it
(`OutsiderStep`), and an orphaned order has no owner. `MoneyInv` follows the money: `AttemptInv` says for each step of
an attempt what has been taken and what the gateway did, `PlanInv` that a plan
deducts no more than it refunds, `FinalInv` that what a late finalization read
is still true as long as its version of the row is current; `BooksInv`,
`UndoneInv`, `PendingInv`, `SettledInv` are the statuses' side of it.

**`IdempotencyProofs`**: `TypeCorrect`, `ExecutionSafe`, `OwnerSafe`,
`ReplaySafe`, `NoRerunSafe`. `OneExecution` cannot be shown without `ReclaimInv`:
a request about to reclaim either read another row than the owner's, or a status
the row no longer has, or its `now` lies before the end of the owner's lock.
`TimeInv` bounds the age of a request's `now`, `IdInv` says that inserted rows
have new ids, `OwnerInv` what the owner's row holds, `ResultInv` whose result is
stored, and `FreshInv` that nobody gets past reading a row that a lone request
found and that has not expired.

**`BatchImageProofs`**: `TypeCorrect`, `FrozenSafe`, `InflightSafe`,
`ReleaseSafe`, `CompletionSafe`, `FailureSafe`. `FrozenIsOutstandingHold`
follows from lemmas about the four operators of `FrozenBalance`,
`InflightJobIsQueued` from lemmas about the scripts of `BatchImageQueue`; both
are inductive with the types. The others need `FlowInv`: how the row's link, its
status and the provider's truth go together (`LinkInv`, `EndedInv`), that what a
worker saw of a batch is still so after it was paused (`WorkerInv`), who may
release (`ReleaseInv`), and that capture and release exclude each other
(`ChargeInv`). `RetryInv` counts: retries recorded, plus failures yet to be
recorded by workers, are at most the calls that failed; so under `FewFaults`
only a settlement that was never captured gives up (`GaveUpInv`). `LeaseInv`
says what the job lock is worth while nobody has stalled: the worker at work is
its holder, so nobody indexes a job that has been captured, and a captured job
is settling or completed. `CompletionSafe` needs neither.

**`ConcurrencySlotsProofs`**: `TypeCorrect`, `WaitersSafe`, `LimitSafe`.
`QueueInv`: the requests that will decrement the wait counter are at most the
counter plus the faults. `HeldInv`: a holder's member in Redis is as old as its
holder thinks, up to the TTL; `CapInv`: the live members of both sets together,
a name in both counted once, are within the limit. `CapInv` counts what the
scripts count and `HeldInv` ties it to what runs. The counting uses the
cardinality theorems of the library.

**`TokenRefreshProofs`**: `TypeCorrect`, `AuthorizationSafe`, `RefreshSafe`,
`QuarantineSafe`. `FreshInv`: credentials on their way into the row are new and
known to nobody else; `RightInv`: the compare-and-set of a refresh replaces
rightful credentials by rightful ones; `LockInv`: without disturbances whoever
deletes the lock set it; `DeadInv` and `RejectInv`: a rejection concerns
credentials that are dead and that no rival is about to replace.

**`SystemOperationLockProofs`**: `ShortOperationsSafe`, the other side of the
run `system_lock`. An operation that ends within the lease Acquire gave it is
never joined by another one, with or without renewals, crashes and failed
statements. `HoldInv`: the row of a running operation is its own, in process and
locked beyond the operation's end; `StartInv`: Acquire, whose few statements
take no time in the model, compares with the present time.

**Only model-checked.** Liveness needs fairness and ENABLED, which the prover
does not treat: `PaidIsSettled`, `PendingIsResolved`,
`AbandonedKeyIsFreed`, `ReleaseIsRetried`, `UnleasedCallEnds`,
`ExpiringIsSettled`. The four counterexamples are TLC's by nature.

## 5. Not modelled, and why

- Amount computation, provider choice, signatures, metadata matching: data, not
  control; a webhook that fails them returns an error like a mispaid one.
- Orders of other currencies, gateway fees: amounts are compared only for
  equality with the order's.
- Subscription refunds, and REFUND_PENDING rows written by releases that held no
  deduction.
- A database that commits and reports an error is modelled where the code has a
  statement after the commit (`Grant`), not for every statement.
- A gateway that first reports a refund as failed and pays it later: the code
  takes an explicit rejection for final, and so do the models.
- Idempotency: requests without a key bypass the table; metrics.
- Batch images: deletion of inputs and download of results change no status;
  `hidePreUpstreamSubmitFailure` only shapes the answer; provider protocols and
  the parsing of outputs appear as their outcomes. The charge of ordinary
  requests (`Apply`, `Reverse`), media holds and legacy token holds are not
  modelled.
- Concurrency slots: the index of active accounts, several limits taken by one
  request, the WebSocket ingress lease, unlimited accounts, the hand-over of a
  live call between controllers with its mapping store, and
  `finalizeLiveCallAfterExpiry`, where an observer ends whose store or upstream
  stays out of reach until the call expires.
- Token refresh: the other platforms, whose writes are unconditional; the
  refresh in the request path; the access token cache; gates, paging and breaker
  of a cycle, which only delay or skip an attempt.
- Scheduler snapshot and outbox, auth cache invalidation outbox, usage record
  worker pool, user message queue, leader lock, quota flusher, failover loop,
  async image tasks, websocket pool: not yet.
- Generated code (`backend/ent`), protocol transforms between model APIs,
  request/response CRUD of the admin API, and the web frontend keep no shared
  state of their own; they are most of the repository's lines.

## 6. Plan

1. `WithinLimit` and `WaitersBounded` for several instances as long as none of
   them starts while another one runs; what `SupersededStayGone` needs of edits.
2. Models still open: subscription refunds; order admission limits and the
   reconcile cursor; `Apply` and `Reverse` of usage billing; scheduler and auth
   outboxes; leader lock and worker pool.
