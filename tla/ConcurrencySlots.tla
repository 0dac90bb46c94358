-------------------------- MODULE ConcurrencySlots --------------------------
(***************************************************************************)
(* The concurrency slots of one account or user                            *)
(* (backend/internal/repository/concurrency_cache.go,                      *)
(* service/concurrency_service.go, handler/gateway_helper.go and           *)
(* service/openai_live.go): ordinary requests hold a member of the slot    *)
(* set, live calls hold a lease that they have to refresh, both sets count *)
(* against one limit, and requests that find it reached queue up behind a  *)
(* bounded counter.                                                        *)
(*                                                                         *)
(* Every script runs alone in Redis and is one step.  Members carry their  *)
(* age instead of a timestamp; ages stop at the TTL, past which they all   *)
(* behave alike, so no clock has to be bounded.  An id is reused only when *)
(* no member of that name is left, as every attempt draws a new one.       *)
(***************************************************************************)
EXTENDS Integers, FiniteSets

CONSTANTS
  Requests, Sessions,   \* ordinary requests and live calls
  Processes,            \* instances of the service
  ProcessOf,            \* the instance that serves each of them
  MaxConcurrency,
  QueueLimit,           \* how many may wait
  SlotTTL,              \* 15 min
  LeaseTTL,             \* 60 s
  RefreshInterval,      \* 20 s
  MaxFaults             \* bound on failed calls and crashes

Holders == Requests \cup Sessions

ASSUME HoldersAssumption ==
  IsFiniteSet(Holders) /\ Requests \cap Sessions = {} /\ ProcessOf \in [Holders -> Processes]

ASSUME LimitsAssumption ==
  /\ MaxConcurrency \in Nat \ {0} /\ QueueLimit \in Nat \ {0} /\ MaxFaults \in Nat
  /\ SlotTTL \in Nat \ {0} /\ LeaseTTL \in Nat /\ RefreshInterval \in Nat \ {0}
  /\ RefreshInterval < LeaseTTL

VARIABLES
  slots,    \* the regular set: the age of each member, or Absent
  leases,   \* the live set
  waits,    \* the wait counter
  pc,       \* where each request and each call is
  held,     \* time since it got its slot, or since its lease was confirmed
  due,      \* time on each call's refresh ticker
  down,     \* instances that are not running
  faults

vars == <<slots, leases, waits, pc, held, due, down, faults>>

Absent == -1

\* Time, as far as it matters: ages stop at the longer TTL.
MaxAge == IF SlotTTL > LeaseTTL THEN SlotTTL ELSE LeaseTTL
Older(age) == IF age \in 0..(MaxAge - 1) THEN age + 1 ELSE age

Init ==
  /\ slots = [h \in Holders |-> Absent]
  /\ leases = [s \in Sessions |-> Absent]
  /\ waits = 0
  /\ pc = [h \in Holders |-> "idle"]
  /\ held = [h \in Holders |-> 0]
  /\ due = [s \in Sessions |-> 0]
  /\ down = {}
  /\ faults = 0

-----------------------------------------------------------------------------
\* The scripts

\* ZREMRANGEBYSCORE up to now - ttl
Purged(set, ttl) == [m \in DOMAIN set |-> IF set[m] >= ttl THEN Absent ELSE set[m]]

Members(set) == {m \in DOMAIN set : set[m] # Absent}

With(set, m)    == [set EXCEPT ![m] = 0]
Without(set, m) == [set EXCEPT ![m] = Absent]

\* Mutant: the live leases are not counted.
InUseRegular == Cardinality(Members(Purged(slots, SlotTTL)))

\* ZCARD of both sets, after both were purged.
InUse ==
  Cardinality(Members(Purged(slots, SlotTTL))) + Cardinality(Members(Purged(leases, LeaseTTL)))

\* acquireScript adds the member if the limit allows it.
AcquireGrants == InUse < MaxConcurrency

AcquireScript(h) ==
  /\ slots' = IF AcquireGrants THEN With(Purged(slots, SlotTTL), h) ELSE Purged(slots, SlotTTL)
  /\ leases' = Purged(leases, LeaseTTL)

\* acquireLiveLeaseScript, with the allowance of one for the regular slot that
\* the lease replaces; it does not purge the regular set.
LiveGrants ==
  Cardinality(Members(slots)) + Cardinality(Members(Purged(leases, LeaseTTL)))
    < MaxConcurrency + 1

-----------------------------------------------------------------------------
Goto(h, l) == pc' = [pc EXCEPT ![h] = l]
At(h, l)   == pc[h] = l /\ ProcessOf[h] \notin down
StartTime(h) == held' = [held EXCEPT ![h] = 0]

\* At these places a request or a call was given a slot or a lease; elsewhere
\* its time stands still.
Holding == {"running", "leaveQueue", "selected", "leased", "connected", "dialing"}

Fault == faults < MaxFaults /\ faults' = faults + 1

\* An attempt to get a slot.  A call that fails may have added the member, and
\* nobody will remove it before its TTL.
TryAcquire(h, granted, refused, failed) ==
  \/ /\ AcquireScript(h)
     /\ Goto(h, IF AcquireGrants THEN granted ELSE refused)
     /\ StartTime(h)
     /\ UNCHANGED faults
  \/ /\ Fault
     /\ AcquireScript(h) \/ UNCHANGED <<slots, leases>>
     /\ Goto(h, failed)
     /\ UNCHANGED held

-----------------------------------------------------------------------------
\* A request: acquireUserSlotWithWaitTimeout, the upstream call, ReleaseFunc

Arrive(r) ==
  /\ At(r, "idle") /\ slots[r] = Absent
  /\ TryAcquire(r, "running", "queue", "idle")
  /\ UNCHANGED <<waits, due, down>>

\* Mutant: the decrement is deferred before the answer is looked at.
RefusedWaitDecrements(r) == Goto(r, "giveUp")

\* A request that finds the queue full is answered 429 and leaves the counter.
RefusedWait(r) == Goto(r, "idle")

\* IncrementWaitCount.  An error lets the request wait uncounted.
IncrementWait(r) ==
  /\ At(r, "queue")
  /\ \/ waits < QueueLimit /\ waits' = waits + 1 /\ Goto(r, "waiting") /\ UNCHANGED faults
     \/ waits >= QueueLimit /\ RefusedWait(r) /\ UNCHANGED <<waits, faults>>
     \/ Fault /\ Goto(r, "waiting") /\ UNCHANGED waits
  /\ UNCHANGED <<slots, leases, held, due, down>>

WaitAcquire(r) ==
  /\ At(r, "waiting") /\ slots[r] = Absent
  /\ TryAcquire(r, "leaveQueue", "waiting", "giveUp")
  /\ UNCHANGED <<waits, due, down>>

\* The wait's timeout, or the client is gone.
WaitTimeout(r) ==
  /\ At(r, "waiting")
  /\ Goto(r, "giveUp")
  /\ UNCHANGED <<slots, leases, waits, held, due, down, faults>>

\* Mutant: the script decrements without looking.
DecrementedBelowZero == waits - 1

\* decrementWaitScript never goes below zero.
Decremented == IF waits > 0 THEN waits - 1 ELSE waits

\* The deferred DecrementWaitCount, on every way out of the wait.
DecrementWait(r) ==
  /\ \/ At(r, "leaveQueue") /\ Goto(r, "running")
     \/ At(r, "giveUp") /\ Goto(r, "idle")
  /\ \/ waits' = Decremented /\ UNCHANGED faults
     \/ Fault /\ UNCHANGED waits
  /\ UNCHANGED <<slots, leases, held, due, down>>

\* ReleaseFunc when the request ends; a failed ZREM leaves the member.
ReleaseSlot(r) ==
  /\ At(r, "running")
  /\ Goto(r, "idle") /\ StartTime(r)
  /\ \/ slots' = Without(slots, r) /\ UNCHANGED faults
     \/ Fault /\ UNCHANGED slots
  /\ UNCHANGED <<leases, waits, due, down>>

Request(r) ==
  Arrive(r) \/ IncrementWait(r) \/ WaitAcquire(r) \/ WaitTimeout(r)
    \/ DecrementWait(r) \/ ReleaseSlot(r)

-----------------------------------------------------------------------------
\* A live call: CreateLiveCall and its observer

\* The scheduler selects the account with a regular slot.
SelectAccount(s) ==
  /\ At(s, "idle") /\ slots[s] = Absent /\ leases[s] = Absent
  /\ TryAcquire(s, "selected", "idle", "idle")
  /\ UNCHANGED <<waits, due, down>>

\* AcquireLiveLease; a refusal or an error gives the regular slot back.
AcquireLiveLease(s) ==
  /\ At(s, "selected")
  /\ \/ /\ leases' = IF LiveGrants THEN With(Purged(leases, LeaseTTL), s)
                                   ELSE Purged(leases, LeaseTTL)
        /\ Goto(s, IF LiveGrants THEN "leased" ELSE "refused")
        /\ IF LiveGrants THEN StartTime(s) ELSE UNCHANGED held
        /\ UNCHANGED faults
     \/ /\ Fault
        /\ Goto(s, "refused")
        /\ leases' = (IF LiveGrants THEN With(Purged(leases, LeaseTTL), s)
                                    ELSE Purged(leases, LeaseTTL))
           \/ UNCHANGED leases
        /\ UNCHANGED held
  /\ UNCHANGED <<slots, waits, due, down>>

\* The upstream call is created or not, and the regular slot is released: the
\* lease has taken its place.
ReplaceSlot(s) ==
  /\ \/ At(s, "refused") /\ Goto(s, "idle")
     \/ At(s, "leased") /\ (Goto(s, "connected") \/ Goto(s, "closing"))
  /\ \/ slots' = Without(slots, s) /\ UNCHANGED faults
     \/ Fault /\ UNCHANGED slots
  /\ due' = [due EXCEPT ![s] = 0]
  /\ UNCHANGED <<leases, waits, held, down>>

\* Mutant: a refresh that finds no lease is retried like a transient error.
RefreshLostGoto(s) == Goto(s, "dialing")

\* A refresh that does not confirm the lease ends the call (liveSessionEnded).
RefreshLost(s) == Goto(s, "closing")

\* RefreshLiveLease does not bring back a lease that is gone.
RefreshLiveLease(s) ==
  /\ At(s, "connected") /\ due[s] = RefreshInterval
  /\ due' = [due EXCEPT ![s] = 0]
  /\ \/ /\ Purged(leases, LeaseTTL)[s] # Absent
        /\ leases' = With(Purged(leases, LeaseTTL), s)
        /\ StartTime(s)
        /\ UNCHANGED <<pc, faults>>
     \/ /\ Purged(leases, LeaseTTL)[s] = Absent
        /\ leases' = Purged(leases, LeaseTTL)
        /\ RefreshLost(s)
        /\ UNCHANGED <<held, faults>>
     \/ Fault /\ RefreshLost(s) /\ UNCHANGED <<leases, held>>
  /\ UNCHANGED <<slots, waits, down>>

\* The control connection breaks; nobody refreshes until it is dialled again.
Disconnect(s) ==
  /\ At(s, "connected")
  /\ Goto(s, "dialing")
  /\ UNCHANGED <<slots, leases, waits, held, due, down, faults>>

Redial(s) ==
  /\ At(s, "dialing")
  /\ Goto(s, "connected")
  /\ due' = [due EXCEPT ![s] = 0]
  /\ UNCHANGED <<slots, leases, waits, held, down, faults>>

\* The call ends, or reaches its maximal duration.
CallEnds(s) ==
  /\ At(s, "connected") \/ At(s, "dialing")
  /\ Goto(s, "closing")
  /\ UNCHANGED <<slots, leases, waits, held, due, down, faults>>

\* finalizeLiveCall
ReleaseLiveLease(s) ==
  /\ At(s, "closing")
  /\ Goto(s, "idle") /\ StartTime(s)
  /\ \/ leases' = Without(leases, s) /\ UNCHANGED faults
     \/ Fault /\ UNCHANGED leases
  /\ UNCHANGED <<slots, waits, due, down>>

Session(s) ==
  SelectAccount(s) \/ AcquireLiveLease(s) \/ ReplaceSlot(s) \/ RefreshLiveLease(s)
    \/ Disconnect(s) \/ Redial(s) \/ CallEnds(s) \/ ReleaseLiveLease(s)

-----------------------------------------------------------------------------
\* Maintenance, crashes and time

\* The cleanup worker and the load queries purge what has expired.
CleanupExpired ==
  /\ slots' = Purged(slots, SlotTTL)
  /\ leases' = Purged(leases, LeaseTTL)
  /\ UNCHANGED <<waits, pc, held, due, down, faults>>

\* The wait key expires when no request has joined the queue for its TTL,
\* which is longer than a request waits.
WaitKeyExpires ==
  /\ \A r \in Requests : pc[r] \notin {"waiting", "leaveQueue", "giveUp"}
  /\ waits' = 0
  /\ UNCHANGED <<slots, leases, pc, held, due, down, faults>>

Crash(p) ==
  /\ p \notin down
  /\ Fault
  /\ down' = down \cup {p}
  /\ pc' = [h \in Holders |-> IF ProcessOf[h] = p THEN "idle" ELSE pc[h]]
  /\ held' = [h \in Holders |-> IF ProcessOf[h] = p THEN 0 ELSE held[h]]
  /\ UNCHANGED <<slots, leases, waits, due>>

\* CleanupStaleProcessSlots at the start of an instance: members whose prefix
\* is not the new process's are removed, and so is the wait key.  A failed
\* cleanup is logged.
Start(p) ==
  /\ p \in down
  /\ down' = down \ {p}
  /\ \/ /\ slots' = [h \in Holders |-> Absent]
        /\ waits' = 0
        /\ UNCHANGED faults
     \/ Fault /\ UNCHANGED <<slots, waits>>
  /\ UNCHANGED <<leases, pc, held, due>>

\* Tickers fire on time, and an account is selected and leased well within the
\* TTL of its slot.
Prompt ==
  \A s \in Sessions :
    /\ ~(pc[s] = "connected" /\ due[s] = RefreshInterval)
    /\ ~(pc[s] = "selected" /\ held[s] + 1 >= SlotTTL)

Tick ==
  /\ Prompt
  /\ slots' = [h \in Holders |-> Older(slots[h])]
  /\ leases' = [s \in Sessions |-> Older(leases[s])]
  /\ held' = [h \in Holders |-> IF pc[h] \in Holding THEN Older(held[h]) ELSE held[h]]
  /\ due' = [s \in Sessions |-> IF pc[s] = "connected" THEN due[s] + 1 ELSE due[s]]
  /\ UNCHANGED <<waits, pc, down, faults>>

Next ==
  \/ \E r \in Requests : Request(r)
  \/ \E s \in Sessions : Session(s)
  \/ \E p \in Processes : Crash(p) \/ Start(p)
  \/ CleanupExpired \/ WaitKeyExpires \/ Tick

\* Time passes, an instance that runs executes its observers, and an upstream
\* that can be dialled is dialled again.
Fairness ==
  /\ WF_vars(Tick)
  /\ \A s \in Sessions : WF_vars(RefreshLiveLease(s)) /\ WF_vars(Redial(s))

Spec == Init /\ [][Next]_vars /\ Fairness

-----------------------------------------------------------------------------
\* Properties

\* The sets, the counters and the clocks have values of their types; the wait
\* counter stays between zero and the queue's limit.
TypeOK ==
  /\ slots \in [Holders -> 0..MaxAge \cup {Absent}]
  /\ leases \in [Sessions -> 0..MaxAge \cup {Absent}]
  /\ waits \in 0..QueueLimit
  /\ held \in [Holders -> 0..MaxAge]
  /\ due \in [Sessions -> 0..RefreshInterval]
  /\ down \subseteq Processes
  /\ faults \in 0..MaxFaults

\* The requests and calls that are at work and whose slot or lease has not
\* outlived its TTL.
AtWork ==
  {h \in Holders :
     \/ pc[h] \in {"running", "leaveQueue", "selected"} /\ held[h] < SlotTTL
     \/ pc[h] \in {"leased", "connected", "dialing"} /\ held[h] < LeaseTTL}

\* The limit holds: requests and live calls that are at work within their TTL
\* are never more than max concurrency, also while a lease replaces a slot,
\* after failed calls and after a restart.  So it is with one instance; the
\* startup cleanup of a second one removes the slots of the first.
WithinLimit == Cardinality(AtWork) <= MaxConcurrency

\* The queue is bounded: each failed call and each restart lets at most one more
\* request wait, although a request that waits uncounted, because its increment
\* failed, decrements the counter as well.
WaitersBounded ==
  Cardinality({r \in Requests : pc[r] = "waiting"}) <= QueueLimit + faults

\* A call that has lost its lease, while its connection was being dialled again,
\* holds an upstream connection that no limit counts.  It does not go on like
\* that: the refresh that misses the lease ends it, unless the connection keeps
\* breaking before any refresh is due.
UnleasedCallEnds ==
  \A s \in Sessions :
    \/ []<><<Disconnect(s)>>_vars
    \/ (pc[s] \in {"connected", "dialing"} /\ leases[s] = Absent)
         ~> pc[s] \notin {"connected", "dialing"}

=============================================================================
