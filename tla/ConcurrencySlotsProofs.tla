------------------------ MODULE ConcurrencySlotsProofs ------------------------
(***************************************************************************)
(* Proofs about ConcurrencySlots, for every finite set of requests and     *)
(* live calls, every limit, queue length and TTL that LimitsAssumption     *)
(* allows.  The limits are proved for one instance of the service, because *)
(* the startup cleanup of an instance removes the slots and the wait       *)
(* counter of all the others.                                              *)
(***************************************************************************)
EXTENDS ConcurrencySlots, FiniteSetTheorems, TLAPS

-----------------------------------------------------------------------------
(* Ages and scripts. *)

Ages == 0..MaxAge \cup {Absent}

\* Both TTLs are within the ages that are told apart.
LEMMA AgeBounds ==
  /\ MaxAge \in Nat /\ SlotTTL \in Nat /\ LeaseTTL \in Nat
  /\ SlotTTL <= MaxAge /\ LeaseTTL <= MaxAge /\ 0 < SlotTTL /\ 0 < LeaseTTL
  BY LimitsAssumption DEF MaxAge

\* Growing older keeps an age an age, and a member below its TTL was below it.
LEMMA OlderAge ==
  ASSUME NEW a \in Ages
  PROVE  /\ Older(a) \in Ages /\ (a \in 0..MaxAge => Older(a) \in 0..MaxAge)
         /\ \A t \in Nat : t <= MaxAge /\ Older(a) \in 0..(t - 1) => a \in 0..(t - 1)
         /\ \A t \in Nat : t <= MaxAge /\ a \in 0..MaxAge /\ Older(a) < t => a < t
  BY AgeBounds DEF Ages, Older, Absent

\* A purge keeps what is within the TTL and nothing else.
LEMMA PurgedSet ==
  ASSUME NEW S, NEW set \in [S -> Ages], NEW ttl \in Nat
  PROVE  /\ Purged(set, ttl) \in [S -> Ages]
         /\ \A m \in S : set[m] \in 0..(ttl - 1) => Purged(set, ttl)[m] = set[m]
         /\ \A m \in S : set[m] \notin 0..(ttl - 1) => Purged(set, ttl)[m] = Absent
         /\ Members(Purged(set, ttl)) = {m \in S : set[m] \in 0..(ttl - 1)}
  <1>1. Purged(set, ttl) \in [S -> Ages]
    BY AgeBounds DEF Purged, Ages
  <1>2. /\ \A m \in S : set[m] \in 0..(ttl - 1) => Purged(set, ttl)[m] = set[m]
        /\ \A m \in S : set[m] \notin 0..(ttl - 1) => Purged(set, ttl)[m] = Absent
    BY AgeBounds DEF Purged, Ages, Absent
  <1>3. DOMAIN Purged(set, ttl) = S
    BY <1>1
  <1>4. \A m \in S : set[m] \in 0..(ttl - 1) => set[m] # Absent
    BY DEF Absent
  <1> QED
    BY <1>1, <1>2, <1>3, <1>4 DEF Members

\* Adding and removing a member.
LEMMA WithSet ==
  ASSUME NEW S, NEW set \in [S -> Ages], NEW h \in S
  PROVE  /\ With(set, h) \in [S -> Ages] /\ With(set, h)[h] = 0
         /\ Without(set, h) \in [S -> Ages] /\ Without(set, h)[h] = Absent
         /\ \A m \in S \ {h} : With(set, h)[m] = set[m] /\ Without(set, h)[m] = set[m]
  BY AgeBounds DEF With, Without, Ages

-----------------------------------------------------------------------------
(* Types and places. *)

RequestPlaces == {"idle", "queue", "waiting", "leaveQueue", "giveUp", "running"}
SessionPlaces == {"idle", "selected", "leased", "refused", "connected", "dialing", "closing"}

\* Requests and live calls each keep to their own places.
PlaceInv ==
  /\ pc \in [Holders -> RequestPlaces \cup SessionPlaces]
  /\ \A r \in Requests : pc[r] \in RequestPlaces
  /\ \A s \in Sessions : pc[s] \in SessionPlaces

\* Nothing goes on in an instance that is down.
DownInv == \A h \in Holders : ProcessOf[h] \in down => pc[h] = "idle"

BaseInv == TypeOK /\ PlaceInv /\ DownInv

\* Two empty sets and idle instances.
LEMMA BaseInit == Init => BaseInv
  <1> SUFFICES ASSUME Init PROVE BaseInv
    OBVIOUS
  <1>1. 0 \in 0..MaxAge /\ 0 \in 0..QueueLimit /\ 0 \in 0..RefreshInterval /\ 0 \in 0..MaxFaults
    BY AgeBounds, LimitsAssumption
  <1>2. TypeOK
    BY <1>1 DEF Init, TypeOK
  <1>3. PlaceInv /\ DownInv
    BY DEF Init, PlaceInv, DownInv, RequestPlaces, SessionPlaces, Holders
  <1> QED
    BY <1>2, <1>3 DEF BaseInv

\* A request or a call moves itself only.
LEMMA Frame ==
  ASSUME PlaceInv, NEW h \in Holders, NEW l, Goto(h, l)
  PROVE  pc'[h] = l /\ \A g \in Holders \ {h} : pc'[g] = pc[g]
  BY DEF PlaceInv, Goto

\* The places after a move of a running instance.
LEMMA RequestMove ==
  ASSUME PlaceInv, DownInv, NEW r \in Requests, NEW l \in RequestPlaces, Goto(r, l),
         ProcessOf[r] \notin down, UNCHANGED down
  PROVE  PlaceInv' /\ DownInv'
  <1>1. r \in Holders /\ r \notin Sessions /\ Sessions \subseteq Holders /\ Requests \subseteq Holders
    BY HoldersAssumption DEF Holders
  <1> QED
    BY <1>1 DEF PlaceInv, DownInv, Goto

\* The same of a live call.
LEMMA SessionMove ==
  ASSUME PlaceInv, DownInv, NEW s \in Sessions, NEW l \in SessionPlaces, Goto(s, l),
         ProcessOf[s] \notin down, UNCHANGED down
  PROVE  PlaceInv' /\ DownInv'
  <1>1. s \in Holders /\ s \notin Requests /\ Sessions \subseteq Holders /\ Requests \subseteq Holders
    BY HoldersAssumption DEF Holders
  <1> QED
    BY <1>1 DEF PlaceInv, DownInv, Goto

\* Everybody stays where he is and nobody goes down.
LEMMA NoMove ==
  ASSUME PlaceInv, DownInv, UNCHANGED pc, down' \subseteq down
  PROVE  PlaceInv' /\ DownInv'
  BY DEF PlaceInv, DownInv

\* Every step keeps the places.
LEMMA PlaceStep ==
  ASSUME PlaceInv, DownInv, [Next]_vars PROVE PlaceInv' /\ DownInv'
  <1>1. ASSUME NEW r \in Requests, Request(r) PROVE PlaceInv' /\ DownInv'
    <2>1. /\ \E l \in RequestPlaces : Goto(r, l)
          /\ ProcessOf[r] \notin down /\ UNCHANGED down
      BY <1>1 DEF Request, Arrive, IncrementWait, WaitAcquire, WaitTimeout, DecrementWait, ReleaseSlot,
         TryAcquire, RefusedWait, At, RequestPlaces
    <2> QED
      BY <2>1, RequestMove
  <1>2. ASSUME NEW s \in Sessions, Session(s) PROVE PlaceInv' /\ DownInv'
    <2>1. CASE UNCHANGED <<pc, down>>
      BY <2>1, NoMove
    <2>2. CASE UNCHANGED down /\ ProcessOf[s] \notin down /\ \E l \in SessionPlaces : Goto(s, l)
      BY <2>2, SessionMove
    <2> QED
      BY <1>2, <2>1, <2>2 DEF Session, SelectAccount, AcquireLiveLease, ReplaceSlot, RefreshLiveLease,
         Disconnect, Redial, CallEnds, ReleaseLiveLease, TryAcquire, RefreshLost, At, SessionPlaces
  <1>3. ASSUME NEW p \in Processes, Crash(p) PROVE PlaceInv' /\ DownInv'
    BY <1>3 DEF Crash, PlaceInv, DownInv, Holders, RequestPlaces, SessionPlaces
  <1>4. ASSUME NEW p \in Processes, Start(p) PROVE PlaceInv' /\ DownInv'
    BY <1>4, NoMove DEF Start
  <1>5. CASE CleanupExpired \/ WaitKeyExpires \/ Tick \/ UNCHANGED vars
    BY <1>5, NoMove DEF CleanupExpired, WaitKeyExpires, Tick, vars
  <1> QED
    BY <1>1, <1>2, <1>3, <1>4, <1>5 DEF Next

\* acquireScript keeps the types of both sets.
LEMMA AcquireType ==
  ASSUME TypeOK, NEW h \in Holders, AcquireScript(h) \/ UNCHANGED <<slots, leases>>
  PROVE  slots' \in [Holders -> Ages] /\ leases' \in [Sessions -> Ages]
  <1>1. slots \in [Holders -> Ages] /\ leases \in [Sessions -> Ages]
    BY DEF TypeOK, Ages
  <1>2. Purged(slots, SlotTTL) \in [Holders -> Ages] /\ Purged(leases, LeaseTTL) \in [Sessions -> Ages]
    BY <1>1, AgeBounds, PurgedSet
  <1>3. With(Purged(slots, SlotTTL), h) \in [Holders -> Ages]
    BY <1>2, WithSet
  <1> QED
    BY <1>1, <1>2, <1>3 DEF AcquireScript

\* A fault is counted.
LEMMA FaultType ==
  ASSUME TypeOK, Fault \/ UNCHANGED faults
  PROVE  faults' \in 0..MaxFaults
  BY LimitsAssumption DEF TypeOK, Fault

\* The time since a slot was given.
LEMMA HeldType ==
  ASSUME TypeOK, NEW h \in Holders, StartTime(h) \/ UNCHANGED held
  PROVE  held' \in [Holders -> 0..MaxAge]
  BY AgeBounds DEF TypeOK, StartTime

\* An attempt to get a slot keeps the types of what it sets.
LEMMA TryType ==
  ASSUME TypeOK, NEW h \in Holders, NEW a, NEW b, NEW c, TryAcquire(h, a, b, c)
  PROVE  /\ slots' \in [Holders -> Ages] /\ leases' \in [Sessions -> Ages]
         /\ faults' \in 0..MaxFaults /\ held' \in [Holders -> 0..MaxAge]
  BY AcquireType, FaultType, HeldType DEF TryAcquire

\* Every step keeps the types.
LEMMA TypeStep ==
  ASSUME TypeOK, [Next]_vars PROVE TypeOK'
  <1>0. /\ slots \in [Holders -> Ages] /\ leases \in [Sessions -> Ages]
        /\ Requests \subseteq Holders /\ Sessions \subseteq Holders
    BY DEF TypeOK, Ages, Holders
  <1>1. ASSUME NEW r \in Requests, Arrive(r) \/ WaitAcquire(r) PROVE TypeOK'
    <2>1. \E a, b, c : TryAcquire(r, a, b, c)
      BY <1>1 DEF Arrive, WaitAcquire
    <2> QED
      BY <1>0, <1>1, <2>1, TryType DEF Arrive, WaitAcquire, TypeOK, Ages
  <1>2. ASSUME NEW s \in Sessions, SelectAccount(s) PROVE TypeOK'
    <2>1. \E a, b, c : TryAcquire(s, a, b, c)
      BY <1>2 DEF SelectAccount
    <2> QED
      BY <1>0, <1>2, <2>1, TryType DEF SelectAccount, TypeOK, Ages
  <1>3. ASSUME NEW r \in Requests, IncrementWait(r) \/ DecrementWait(r) \/ WaitTimeout(r)
        PROVE  TypeOK'
    <2>1. faults' \in 0..MaxFaults
      BY <1>3, FaultType DEF IncrementWait, DecrementWait, WaitTimeout
    <2>2. waits' \in 0..QueueLimit
      BY <1>3, LimitsAssumption DEF IncrementWait, DecrementWait, WaitTimeout, Decremented, TypeOK
    <2> QED
      BY <1>3, <2>1, <2>2 DEF IncrementWait, DecrementWait, WaitTimeout, TypeOK
  <1>4. ASSUME NEW r \in Requests, ReleaseSlot(r) PROVE TypeOK'
    <2>1. slots' \in [Holders -> Ages]
      BY <1>0, <1>4, WithSet DEF ReleaseSlot
    <2>2. faults' \in 0..MaxFaults /\ held' \in [Holders -> 0..MaxAge]
      BY <1>0, <1>4, FaultType, HeldType DEF ReleaseSlot
    <2> QED
      BY <1>4, <2>1, <2>2 DEF ReleaseSlot, TypeOK, Ages
  <1>5. ASSUME NEW s \in Sessions, AcquireLiveLease(s) PROVE TypeOK'
    <2>1. Purged(leases, LeaseTTL) \in [Sessions -> Ages]
      BY <1>0, AgeBounds, PurgedSet
    <2>2. With(Purged(leases, LeaseTTL), s) \in [Sessions -> Ages]
      BY <2>1, WithSet
    <2>3. leases' \in [Sessions -> Ages]
      BY <1>0, <1>5, <2>1, <2>2 DEF AcquireLiveLease
    <2>4. faults' \in 0..MaxFaults /\ held' \in [Holders -> 0..MaxAge]
      BY <1>0, <1>5, FaultType, HeldType DEF AcquireLiveLease
    <2> QED
      BY <1>5, <2>3, <2>4 DEF AcquireLiveLease, TypeOK, Ages
  <1>6. ASSUME NEW s \in Sessions, ReplaceSlot(s) PROVE TypeOK'
    <2>1. slots' \in [Holders -> Ages]
      BY <1>0, <1>6, WithSet DEF ReplaceSlot
    <2>2. faults' \in 0..MaxFaults /\ due' \in [Sessions -> 0..RefreshInterval]
      BY <1>6, FaultType, LimitsAssumption DEF ReplaceSlot, TypeOK
    <2> QED
      BY <1>6, <2>1, <2>2 DEF ReplaceSlot, TypeOK, Ages
  <1>7. ASSUME NEW s \in Sessions, RefreshLiveLease(s) PROVE TypeOK'
    <2>1. Purged(leases, LeaseTTL) \in [Sessions -> Ages]
      BY <1>0, AgeBounds, PurgedSet
    <2>2. With(Purged(leases, LeaseTTL), s) \in [Sessions -> Ages]
      BY <2>1, WithSet
    <2>3. leases' \in [Sessions -> Ages]
      BY <1>0, <1>7, <2>1, <2>2 DEF RefreshLiveLease
    <2>4. faults' \in 0..MaxFaults /\ held' \in [Holders -> 0..MaxAge]
      BY <1>0, <1>7, FaultType, HeldType DEF RefreshLiveLease
    <2>5. due' \in [Sessions -> 0..RefreshInterval]
      BY <1>7, LimitsAssumption DEF RefreshLiveLease, TypeOK
    <2> QED
      BY <1>7, <2>3, <2>4, <2>5 DEF RefreshLiveLease, TypeOK, Ages
  <1>8. ASSUME NEW s \in Sessions, Disconnect(s) \/ Redial(s) \/ CallEnds(s) PROVE TypeOK'
    <2>1. due' \in [Sessions -> 0..RefreshInterval]
      BY <1>8, LimitsAssumption DEF Disconnect, Redial, CallEnds, TypeOK
    <2> QED
      BY <1>8, <2>1 DEF Disconnect, Redial, CallEnds, TypeOK
  <1>9. ASSUME NEW s \in Sessions, ReleaseLiveLease(s) PROVE TypeOK'
    <2>1. leases' \in [Sessions -> Ages]
      BY <1>0, <1>9, WithSet DEF ReleaseLiveLease
    <2>2. faults' \in 0..MaxFaults /\ held' \in [Holders -> 0..MaxAge]
      BY <1>0, <1>9, FaultType, HeldType DEF ReleaseLiveLease
    <2> QED
      BY <1>9, <2>1, <2>2 DEF ReleaseLiveLease, TypeOK, Ages
  <1>10. CASE CleanupExpired
    <2>1. slots' \in [Holders -> Ages] /\ leases' \in [Sessions -> Ages]
      BY <1>0, <1>10, AgeBounds, PurgedSet DEF CleanupExpired
    <2> QED
      BY <1>10, <2>1 DEF CleanupExpired, TypeOK, Ages
  <1>11. ASSUME NEW p \in Processes, Crash(p) PROVE TypeOK'
    <2>1. faults' \in 0..MaxFaults /\ held' \in [Holders -> 0..MaxAge]
      BY <1>11, FaultType, AgeBounds DEF Crash, TypeOK
    <2> QED
      BY <1>11, <2>1 DEF Crash, TypeOK
  <1>12. ASSUME NEW p \in Processes, Start(p) PROVE TypeOK'
    <2>1. faults' \in 0..MaxFaults /\ waits' \in 0..QueueLimit /\ slots' \in [Holders -> Ages]
      BY <1>0, <1>12, FaultType, LimitsAssumption DEF Start, TypeOK, Ages
    <2> QED
      BY <1>12, <2>1 DEF Start, TypeOK, Ages
  <1>13. CASE Tick
    <2>1. slots' \in [Holders -> Ages] /\ leases' \in [Sessions -> Ages]
      BY <1>0, <1>13, OlderAge DEF Tick
    <2>2. held' \in [Holders -> 0..MaxAge]
      <3>1. \A h \in Holders : held[h] \in 0..MaxAge /\ Older(held[h]) \in 0..MaxAge
        BY OlderAge DEF TypeOK, Ages
      <3> QED
        BY <1>13, <3>1 DEF Tick
    <2>3. due' \in [Sessions -> 0..RefreshInterval]
      <3>1. \A s \in Sessions :
              due[s] \in 0..RefreshInterval /\ (pc[s] = "connected" => due[s] + 1 \in 0..RefreshInterval)
        BY <1>13, LimitsAssumption DEF Tick, Prompt, TypeOK
      <3> QED
        BY <1>13, <3>1 DEF Tick
    <2> QED
      BY <1>13, <2>1, <2>2, <2>3 DEF Tick, TypeOK, Ages
  <1>14. CASE WaitKeyExpires \/ UNCHANGED vars
    BY <1>14, LimitsAssumption DEF WaitKeyExpires, vars, TypeOK
  <1> QED
    BY <1>1, <1>2, <1>3, <1>4, <1>5, <1>6, <1>7, <1>8, <1>9, <1>10, <1>11, <1>12, <1>13, <1>14
       DEF Next, Request, Session

\* Types and places hold in every reachable state.
LEMMA BaseInvariance == Spec => []BaseInv
  <1>1. BaseInv /\ [Next]_vars => BaseInv'
    BY TypeStep, PlaceStep DEF BaseInv
  <1> QED
    BY <1>1, BaseInit, PTL DEF Spec

\* Ages, clocks and counters keep their types; in particular the wait counter
\* stays between zero and the queue's limit and no refresh is missed.
THEOREM TypeCorrect == Spec => []TypeOK
  BY BaseInvariance, PTL DEF BaseInv

-----------------------------------------------------------------------------
(* One instance. *)

\* The service runs as one instance.
SingleInstance == \A p, q \in Processes : p = q

\* When the instance starts, nothing is at work: its startup cleanup removes
\* only what nobody holds.
LEMMA StartQuiet ==
  ASSUME SingleInstance, DownInv, NEW p \in Processes, Start(p)
  PROVE  \A h \in Holders : pc[h] = "idle" /\ pc'[h] = "idle"
  BY HoldersAssumption DEF SingleInstance, DownInv, Start

-----------------------------------------------------------------------------
(* The wait queue. *)

\* The requests that will decrement the wait counter.
InQueue == {r \in Requests : pc[r] \in {"waiting", "leaveQueue", "giveUp"}}

\* The counter misses at most one of them for each fault: an increment that
\* failed, or a decrement that belonged to an uncounted request.
QueueInv == Cardinality(InQueue) <= waits + faults

\* One more element.
LEMMA OneMore ==
  ASSUME NEW S, IsFiniteSet(S), NEW x
  PROVE  /\ IsFiniteSet(S \cup {x}) /\ Cardinality(S \cup {x}) \in Nat
         /\ Cardinality(S \cup {x}) <= Cardinality(S) + 1
  <1> DEFINE n == Cardinality(S \cup {x})
  <1>1. Cardinality(S) \in Nat
    BY FS_CardinalityType
  <1>2. ASSUME x \in S PROVE n \in Nat /\ n <= Cardinality(S) + 1
    <2>1. S \cup {x} = S
      BY <1>2
    <2> QED
      BY <1>1, <2>1
  <1>3. ASSUME x \notin S PROVE n \in Nat /\ n <= Cardinality(S) + 1
    <2>1. Cardinality(S \cup {x}) = Cardinality(S) + 1
      BY <1>3, FS_AddElement
    <2> QED
      BY <1>1, <2>1
  <1>4. IsFiniteSet(S \cup {x})
    BY FS_AddElement
  <1> QED
    BY <1>2, <1>3, <1>4

\* The requests are finitely many.
LEMMA QueueFinite ==
  /\ IsFiniteSet(InQueue) /\ Cardinality(InQueue) \in Nat
  /\ IsFiniteSet(InQueue') /\ Cardinality(InQueue') \in Nat
  /\ IsFiniteSet(Requests)
  <1>1. IsFiniteSet(Requests)
    BY HoldersAssumption, FS_Subset DEF Holders
  <1>2. InQueue \subseteq Requests /\ InQueue' \subseteq Requests
    BY DEF InQueue
  <1> QED
    BY <1>1, <1>2, FS_Subset, FS_CardinalityType

\* A queue that does not grow, with a counter that does not shrink.
LEMMA QueueQuiet ==
  ASSUME TypeOK, TypeOK', QueueInv, InQueue' \subseteq InQueue, waits <= waits', faults <= faults'
  PROVE  QueueInv'
  <1>1. Cardinality(InQueue') <= Cardinality(InQueue)
    BY QueueFinite, FS_Subset
  <1>2. waits \in Nat /\ waits' \in Nat /\ faults \in Nat /\ faults' \in Nat
    BY LimitsAssumption DEF TypeOK
  <1> QED
    BY <1>1, <1>2, QueueFinite DEF QueueInv

\* Every step keeps it.
LEMMA QueueStep ==
  ASSUME SingleInstance, BaseInv, QueueInv, [Next]_vars PROVE QueueInv'
  <1>0. /\ TypeOK /\ TypeOK' /\ PlaceInv /\ DownInv
        /\ Requests \subseteq Holders /\ Sessions \subseteq Holders
        /\ waits \in Nat /\ faults \in Nat /\ waits' \in Nat /\ faults' \in Nat
    <2>1. TypeOK /\ TypeOK' /\ PlaceInv /\ DownInv
      BY TypeStep DEF BaseInv
    <2> QED
      BY <2>1, LimitsAssumption DEF TypeOK, Holders
  <1>1. ASSUME NEW h \in Holders, NEW l, Goto(h, l),
               h \in Sessions \/ l \notin {"waiting", "leaveQueue", "giveUp"} \/ h \in InQueue,
               waits <= waits', faults <= faults'
        PROVE  QueueInv'
    <2>1. InQueue' \subseteq InQueue
      BY <1>0, <1>1, Frame, HoldersAssumption DEF InQueue
    <2> QED
      BY <1>0, <1>1, <2>1, QueueQuiet
  <1>2. ASSUME NEW r \in Requests, IncrementWait(r) PROVE QueueInv'
    <2>1. CASE waits >= QueueLimit /\ Goto(r, "idle") /\ UNCHANGED <<waits, faults>>
      BY <1>0, <1>1, <2>1
    <2>2. CASE /\ Goto(r, "waiting")
               /\ \/ waits' = waits + 1 /\ UNCHANGED faults
                  \/ faults' = faults + 1 /\ UNCHANGED waits
      <3>1. InQueue' \subseteq InQueue \cup {r}
        BY <1>0, <2>2, Frame DEF InQueue
      <3>2. /\ IsFiniteSet(InQueue \cup {r})
            /\ Cardinality(InQueue \cup {r}) <= Cardinality(InQueue) + 1
        BY QueueFinite, OneMore
      <3>3. /\ Cardinality(InQueue') <= Cardinality(InQueue \cup {r})
            /\ Cardinality(InQueue \cup {r}) \in Nat
        BY <3>1, <3>2, FS_Subset, FS_CardinalityType
      <3> QED
        BY <1>0, <2>2, <3>2, <3>3, QueueFinite DEF QueueInv
    <2> QED
      BY <1>2, <2>1, <2>2 DEF IncrementWait, RefusedWait, Fault
  <1>3. ASSUME NEW r \in Requests, DecrementWait(r) PROVE QueueInv'
    <2>1. /\ r \in InQueue /\ \E l \in {"running", "idle"} : Goto(r, l)
          /\ waits' \in {waits, waits - 1} /\ faults <= faults'
      BY <1>0, <1>3 DEF DecrementWait, At, InQueue, Decremented, Fault
    <2>2. InQueue' = InQueue \ {r}
      BY <1>0, <2>1, Frame DEF InQueue
    <2>3. Cardinality(InQueue') = Cardinality(InQueue) - 1
      BY <2>1, <2>2, QueueFinite, FS_RemoveElement
    <2> QED
      BY <1>0, <2>1, <2>3, QueueFinite DEF QueueInv
  <1>4. ASSUME NEW r \in Requests, Arrive(r) \/ ReleaseSlot(r) PROVE QueueInv'
    <2>1. \E l \in {"running", "queue", "idle"} : Goto(r, l)
      BY <1>4 DEF Arrive, ReleaseSlot, TryAcquire
    <2>2. waits' = waits /\ faults <= faults'
      BY <1>0, <1>4 DEF Arrive, ReleaseSlot, TryAcquire, Fault
    <2> QED
      BY <1>0, <1>1, <2>1, <2>2
  <1>5. ASSUME NEW r \in Requests, WaitAcquire(r) \/ WaitTimeout(r) PROVE QueueInv'
    <2>1. r \in InQueue /\ \E l : Goto(r, l)
      BY <1>5 DEF WaitAcquire, WaitTimeout, TryAcquire, At, InQueue
    <2>2. waits' = waits /\ faults <= faults'
      BY <1>0, <1>5 DEF WaitAcquire, WaitTimeout, TryAcquire, Fault
    <2> QED
      BY <1>0, <1>1, <2>1, <2>2
  <1>6. ASSUME NEW s \in Sessions, Session(s) PROVE QueueInv'
    <2>0. UNCHANGED waits /\ faults <= faults'
      BY <1>0, <1>6 DEF Session, SelectAccount, AcquireLiveLease, ReplaceSlot, RefreshLiveLease,
         Disconnect, Redial, CallEnds, ReleaseLiveLease, TryAcquire, Fault
    <2>1. UNCHANGED waits /\ faults <= faults' /\ (UNCHANGED pc \/ \E l : Goto(s, l))
      BY <1>6, <2>0 DEF Session, SelectAccount, AcquireLiveLease, ReplaceSlot, RefreshLiveLease,
         Disconnect, Redial, CallEnds, ReleaseLiveLease, TryAcquire, RefreshLost
    <2>2. CASE UNCHANGED pc
      BY <1>0, <2>1, <2>2, QueueQuiet DEF InQueue
    <2>3. CASE \E l : Goto(s, l)
      BY <1>0, <1>1, <2>1, <2>3
    <2> QED
      BY <2>1, <2>2, <2>3
  <1>7. ASSUME NEW p \in Processes, Crash(p) PROVE QueueInv'
    <2>1. InQueue' \subseteq InQueue /\ waits' = waits /\ faults <= faults'
      BY <1>0, <1>7 DEF Crash, InQueue, Fault
    <2> QED
      BY <1>0, <2>1, QueueQuiet
  <1>8. ASSUME NEW p \in Processes, Start(p) PROVE QueueInv'
    <2>1. InQueue' = {}
      BY <1>0, <1>8, StartQuiet DEF InQueue
    <2> QED
      BY <1>0, <2>1, FS_EmptySet DEF QueueInv
  <1>9. CASE WaitKeyExpires
    <2>1. InQueue' = {}
      BY <1>9 DEF WaitKeyExpires, InQueue
    <2> QED
      BY <1>0, <2>1, FS_EmptySet DEF QueueInv
  <1>10. CASE CleanupExpired \/ Tick \/ UNCHANGED vars
    <2>1. UNCHANGED <<pc, waits, faults>>
      BY <1>10 DEF CleanupExpired, Tick, vars
    <2> QED
      BY <1>0, <2>1, QueueQuiet DEF InQueue
  <1> QED
    BY <1>2, <1>3, <1>4, <1>5, <1>6, <1>7, <1>8, <1>9, <1>10 DEF Next, Request

\* The queue is bounded: each failed call and each restart lets at most one more
\* request wait than the limit allows.
THEOREM WaitersSafe == ASSUME SingleInstance PROVE Spec => []WaitersBounded
  <1>1. Init => QueueInv
    <2>1. Init => InQueue = {} /\ waits = 0 /\ faults = 0
      BY DEF Init, InQueue, Holders
    <2> QED
      BY <2>1, FS_EmptySet DEF QueueInv
  <1>2. BaseInv /\ QueueInv /\ [Next]_vars => QueueInv'
    BY QueueStep
  <1>3. TypeOK /\ QueueInv => WaitersBounded
    <2> SUFFICES ASSUME TypeOK, QueueInv PROVE WaitersBounded
      OBVIOUS
    <2> DEFINE W == {r \in Requests : pc[r] = "waiting"}
    <2>1. W \subseteq InQueue
      BY DEF InQueue
    <2>2. Cardinality(W) <= Cardinality(InQueue) /\ Cardinality(W) \in Nat
      BY <2>1, QueueFinite, FS_Subset, FS_CardinalityType
    <2> QED
      BY <2>2, QueueFinite, LimitsAssumption DEF QueueInv, WaitersBounded, TypeOK
  <1> QED
    BY <1>1, <1>2, <1>3, BaseInvariance, PTL DEF Spec, BaseInv

-----------------------------------------------------------------------------
(* The limit. *)

\* The members that a purge would leave.
LiveSlots  == {h \in Holders : slots[h] \in 0..(SlotTTL - 1)}
LiveLeases == {s \in Sessions : leases[s] \in 0..(LeaseTTL - 1)}

\* A holder's member is as old as its time, until the TTL; a selected account is
\* still within it.
SlotHeld(h) ==
  pc[h] \in {"running", "leaveQueue", "selected"} /\ held[h] < SlotTTL => slots[h] = held[h]
LeaseHeld(s) ==
  /\ pc[s] \in {"leased", "connected", "dialing"} /\ held[s] < LeaseTTL => leases[s] = held[s]
  /\ pc[s] = "selected" => held[s] < SlotTTL

HeldInv == (\A h \in Holders : SlotHeld(h)) /\ (\A s \in Sessions : LeaseHeld(s))

\* Names of live members are within the limit: a call that holds both a slot and
\* the lease that replaces it counts once.
CapInv == Cardinality(LiveSlots \cup LiveLeases) <= MaxConcurrency

\* Members are finitely many.
LEMMA LiveFinite ==
  /\ IsFiniteSet(LiveSlots) /\ IsFiniteSet(LiveLeases) /\ IsFiniteSet(LiveSlots \cup LiveLeases)
  /\ Cardinality(LiveSlots) \in Nat /\ Cardinality(LiveLeases) \in Nat
  /\ Cardinality(LiveSlots \cup LiveLeases) \in Nat
  /\ Cardinality(LiveSlots \cup LiveLeases) <= Cardinality(LiveSlots) + Cardinality(LiveLeases)
  <1>1. LiveSlots \subseteq Holders /\ LiveLeases \subseteq Holders
    BY DEF LiveSlots, LiveLeases, Holders
  <1>2. IsFiniteSet(LiveSlots) /\ IsFiniteSet(LiveLeases)
    BY <1>1, HoldersAssumption, FS_Subset
  <1>3. IsFiniteSet(LiveSlots \cup LiveLeases) /\ IsFiniteSet(LiveSlots \cap LiveLeases)
    BY <1>2, FS_Union, FS_Intersection
  <1>4. /\ Cardinality(LiveSlots) \in Nat /\ Cardinality(LiveLeases) \in Nat
        /\ Cardinality(LiveSlots \cup LiveLeases) \in Nat
        /\ Cardinality(LiveSlots \cap LiveLeases) \in Nat
    BY <1>2, <1>3, FS_CardinalityType
  <1>5. Cardinality(LiveSlots \cup LiveLeases)
          = Cardinality(LiveSlots) + Cardinality(LiveLeases) - Cardinality(LiveSlots \cap LiveLeases)
    BY <1>2, FS_Union
  <1> QED
    BY <1>2, <1>3, <1>4, <1>5

\* No new name.
LEMMA CapQuiet ==
  ASSUME CapInv, LiveSlots' \cup LiveLeases' \subseteq LiveSlots \cup LiveLeases
  PROVE  CapInv'
  <1>1. /\ IsFiniteSet(LiveSlots' \cup LiveLeases')
        /\ Cardinality(LiveSlots' \cup LiveLeases') <= Cardinality(LiveSlots \cup LiveLeases)
    BY LiveFinite, FS_Subset
  <1>2. Cardinality(LiveSlots' \cup LiveLeases') \in Nat
    BY <1>1, FS_CardinalityType
  <1> QED
    BY <1>1, <1>2, LiveFinite, LimitsAssumption DEF CapInv

\* What acquireScript does to the members: live ones stay, the caller's is added
\* only within the limit.
LEMMA AcquireEffect ==
  ASSUME TypeOK, CapInv, NEW h \in Holders, AcquireScript(h) \/ UNCHANGED <<slots, leases>>
  PROVE  /\ CapInv'
         /\ \A m \in Holders \ {h} : slots[m] \in 0..(SlotTTL - 1) => slots'[m] = slots[m]
         /\ \A s \in Sessions : leases[s] \in 0..(LeaseTTL - 1) => leases'[s] = leases[s]
         /\ AcquireScript(h) /\ AcquireGrants => slots'[h] = 0
  <1>0. slots \in [Holders -> Ages] /\ leases \in [Sessions -> Ages]
    BY DEF TypeOK, Ages
  <1>1. CASE UNCHANGED <<slots, leases>> /\ ~AcquireScript(h)
    BY <1>1, CapQuiet DEF LiveSlots, LiveLeases
  <1>2. CASE AcquireScript(h)
    <2> DEFINE ps == Purged(slots, SlotTTL)
               pl == Purged(leases, LeaseTTL)
    <2>1. /\ ps \in [Holders -> Ages] /\ Members(ps) = LiveSlots
          /\ \A m \in Holders : slots[m] \in 0..(SlotTTL - 1) => ps[m] = slots[m]
          /\ \A m \in Holders : slots[m] \notin 0..(SlotTTL - 1) => ps[m] = Absent
      BY <1>0, AgeBounds, PurgedSet DEF LiveSlots
    <2>2. /\ pl \in [Sessions -> Ages] /\ Members(pl) = LiveLeases
          /\ \A s \in Sessions : leases[s] \in 0..(LeaseTTL - 1) => pl[s] = leases[s]
          /\ \A s \in Sessions : leases[s] \notin 0..(LeaseTTL - 1) => pl[s] = Absent
      BY <1>0, AgeBounds, PurgedSet DEF LiveLeases
    <2>3. AcquireGrants => Cardinality(LiveSlots) + Cardinality(LiveLeases) < MaxConcurrency
      BY <2>1, <2>2 DEF AcquireGrants, InUse
    <2>4. With(ps, h)[h] = 0 /\ \A m \in Holders \ {h} : With(ps, h)[m] = ps[m]
      BY <2>1, WithSet
    <2> HIDE DEF ps, pl
    <2>5. leases' = pl /\ slots' = IF AcquireGrants THEN With(ps, h) ELSE ps
      BY <1>2 DEF AcquireScript, ps, pl
    <2>6. /\ \A m \in Holders \ {h} : slots[m] \in 0..(SlotTTL - 1) => slots'[m] = slots[m]
          /\ \A s \in Sessions : leases[s] \in 0..(LeaseTTL - 1) => leases'[s] = leases[s]
          /\ AcquireGrants => slots'[h] = 0
      BY <2>1, <2>2, <2>4, <2>5
    <2>7. LiveLeases' \subseteq LiveLeases
      BY <2>2, <2>5 DEF LiveLeases, Absent
    <2>8. CASE ~AcquireGrants
      <3>1. LiveSlots' \subseteq LiveSlots
        BY <2>1, <2>5, <2>8 DEF LiveSlots, Absent
      <3>2. CapInv'
        BY <2>7, <3>1, CapQuiet
      <3> QED
        BY <2>6, <3>2
    <2>9. CASE AcquireGrants
      <3>1. LiveSlots' \subseteq LiveSlots \cup {h}
        BY <2>1, <2>4, <2>5, <2>9 DEF LiveSlots, Absent
      <3> DEFINE L == LiveSlots \cup LiveLeases
      <3>2. LiveSlots' \cup LiveLeases' \subseteq L \cup {h}
        BY <2>7, <3>1
      <3>3. /\ IsFiniteSet(L \cup {h}) /\ Cardinality(L \cup {h}) \in Nat
            /\ Cardinality(L \cup {h}) <= Cardinality(L) + 1
        BY LiveFinite, OneMore
      <3>4. /\ Cardinality(LiveSlots' \cup LiveLeases') <= Cardinality(L \cup {h})
            /\ Cardinality(LiveSlots' \cup LiveLeases') \in Nat
        BY <3>2, <3>3, FS_Subset, FS_CardinalityType
      <3>5. CapInv'
        BY <2>3, <2>9, <3>3, <3>4, LiveFinite, LimitsAssumption DEF CapInv
      <3> QED
        BY <2>6, <3>5
    <2> QED
      BY <2>8, <2>9
  <1> QED
    BY <1>1, <1>2

\* A step of one holder that leaves the others their places and live members.
LEMMA HeldOthers ==
  ASSUME TypeOK, HeldInv, NEW h \in Holders,
         \A m \in Holders \ {h} :
           /\ pc'[m] = pc[m] /\ held'[m] = held[m]
           /\ slots[m] \in 0..(SlotTTL - 1) => slots'[m] = slots[m],
         \A s \in Sessions \ {h} : leases[s] \in 0..(LeaseTTL - 1) => leases'[s] = leases[s],
         SlotHeld(h)', h \in Sessions => LeaseHeld(h)'
  PROVE  HeldInv'
  <1>1. ASSUME NEW m \in Holders \ {h} PROVE SlotHeld(m)'
    <2>1. held[m] \in Nat
      BY DEF TypeOK
    <2>2. held[m] < SlotTTL => held[m] \in 0..(SlotTTL - 1)
      BY <2>1, AgeBounds
    <2> QED
      BY <2>2 DEF HeldInv, SlotHeld
  <1>2. ASSUME NEW s \in Sessions \ {h} PROVE LeaseHeld(s)'
    <2>1. s \in Holders /\ held[s] \in Nat
      BY DEF TypeOK, Holders
    <2>2. held[s] < LeaseTTL => held[s] \in 0..(LeaseTTL - 1)
      BY <2>1, AgeBounds
    <2> QED
      BY <2>1, <2>2 DEF HeldInv, LeaseHeld
  <1> QED
    BY <1>1, <1>2 DEF HeldInv

\* An attempt to get a slot: the member is there if it was granted.
LEMMA TryStep ==
  ASSUME BaseInv, HeldInv, CapInv, NEW h \in Holders, NEW a, NEW b, NEW c, TryAcquire(h, a, b, c),
         a \in {"running", "leaveQueue", "selected"}, h \in Sessions \/ a # "selected",
         b \in {"idle", "queue", "waiting"}, c \in {"idle", "giveUp"}
  PROVE  HeldInv' /\ CapInv'
  <1>0. TypeOK /\ PlaceInv
    BY DEF BaseInv
  <1>1. /\ CapInv'
        /\ \A m \in Holders \ {h} : slots[m] \in 0..(SlotTTL - 1) => slots'[m] = slots[m]
        /\ \A s \in Sessions : leases[s] \in 0..(LeaseTTL - 1) => leases'[s] = leases[s]
        /\ AcquireScript(h) /\ AcquireGrants => slots'[h] = 0
    <2>1. AcquireScript(h) \/ UNCHANGED <<slots, leases>>
      BY DEF TryAcquire
    <2> QED
      BY <1>0, <2>1, AcquireEffect
  <1>2. PICK l : Goto(h, l)
    BY DEF TryAcquire
  <1>3. pc'[h] = l /\ \A m \in Holders \ {h} : pc'[m] = pc[m]
    BY <1>0, <1>2, Frame
  <1>4. \A m \in Holders \ {h} : held'[m] = held[m]
    BY <1>0 DEF TryAcquire, StartTime, TypeOK
  <1>5. \/ pc'[h] = a /\ held'[h] = 0 /\ slots'[h] = 0
        \/ pc'[h] \in {b, c}
    BY <1>0, <1>1 DEF TryAcquire, StartTime, Goto, TypeOK, PlaceInv
  <1>6. SlotHeld(h)' /\ LeaseHeld(h)'
    BY <1>5, AgeBounds DEF SlotHeld, LeaseHeld
  <1> QED
    BY <1>0, <1>1, <1>3, <1>4, <1>6, HeldOthers

\* Every step of one instance keeps members and limit.
LEMMA LimitStep ==
  ASSUME SingleInstance, BaseInv, HeldInv, CapInv, [Next]_vars PROVE HeldInv' /\ CapInv'
  <1>0. /\ TypeOK /\ PlaceInv /\ DownInv
        /\ Requests \subseteq Holders /\ Sessions \subseteq Holders
        /\ slots \in [Holders -> Ages] /\ leases \in [Sessions -> Ages]
        /\ held \in [Holders -> 0..MaxAge]
    BY DEF BaseInv, TypeOK, Holders, Ages
  <1>a. \A r \in Requests : r \notin Sessions
    BY HoldersAssumption
  <1>1. ASSUME NEW r \in Requests, Arrive(r) PROVE HeldInv' /\ CapInv'
    BY <1>0, <1>1, TryStep DEF Arrive
  <1>2. ASSUME NEW r \in Requests, WaitAcquire(r) PROVE HeldInv' /\ CapInv'
    BY <1>0, <1>2, TryStep DEF WaitAcquire
  <1>3. ASSUME NEW s \in Sessions, SelectAccount(s) PROVE HeldInv' /\ CapInv'
    BY <1>0, <1>3, TryStep DEF SelectAccount
  <1>4. ASSUME NEW r \in Requests, IncrementWait(r) \/ WaitTimeout(r) \/ DecrementWait(r)
        PROVE  HeldInv' /\ CapInv'
    <2>1. UNCHANGED <<slots, leases, held>>
      BY <1>4 DEF IncrementWait, WaitTimeout, DecrementWait
    <2>2. PICK l : /\ Goto(r, l) /\ l \in RequestPlaces
                   /\ l \in {"running", "leaveQueue"} => pc[r] = "leaveQueue"
      BY <1>4 DEF IncrementWait, WaitTimeout, DecrementWait, RefusedWait, At, RequestPlaces
    <2>3. pc'[r] = l /\ \A m \in Holders \ {r} : pc'[m] = pc[m]
      BY <1>0, <2>2, Frame
    <2>4. SlotHeld(r)'
      BY <1>0, <2>1, <2>2, <2>3 DEF HeldInv, SlotHeld, RequestPlaces
    <2>5. HeldInv'
      BY <1>0, <1>a, <2>1, <2>3, <2>4, HeldOthers
    <2>6. CapInv'
      BY <2>1, CapQuiet DEF LiveSlots, LiveLeases
    <2> QED
      BY <2>5, <2>6
  <1>5. ASSUME NEW h \in Holders, NEW l \in {"idle", "connected", "closing"}, Goto(h, l),
               slots' = Without(slots, h) \/ UNCHANGED slots, UNCHANGED leases,
               StartTime(h) \/ UNCHANGED held,
               l = "connected" => pc[h] = "leased" /\ UNCHANGED held
        PROVE  HeldInv' /\ CapInv'
    <2>1. pc'[h] = l /\ \A m \in Holders \ {h} : pc'[m] = pc[m]
      BY <1>0, <1>5, Frame
    <2>2. /\ \A m \in Holders \ {h} : slots'[m] = slots[m] /\ held'[m] = held[m]
          /\ slots'[h] \in {Absent, slots[h]}
      BY <1>0, <1>5, WithSet DEF StartTime
    <2>3. SlotHeld(h)' /\ (h \in Sessions => LeaseHeld(h)')
      BY <1>5, <2>1 DEF HeldInv, SlotHeld, LeaseHeld
    <2>4. HeldInv'
      BY <1>0, <1>5, <2>1, <2>2, <2>3, HeldOthers
    <2>5. LiveSlots' \subseteq LiveSlots /\ LiveLeases' = LiveLeases
      BY <1>5, <2>2 DEF LiveSlots, LiveLeases, Absent
    <2> QED
      BY <2>4, <2>5, CapQuiet
  <1>6. ASSUME NEW r \in Requests, ReleaseSlot(r) PROVE HeldInv' /\ CapInv'
    BY <1>0, <1>5, <1>6 DEF ReleaseSlot
  <1>7. ASSUME NEW s \in Sessions, ReplaceSlot(s) PROVE HeldInv' /\ CapInv'
    BY <1>0, <1>5, <1>7 DEF ReplaceSlot, At
  <1>8. ASSUME NEW s \in Sessions, AcquireLiveLease(s) PROVE HeldInv' /\ CapInv'
    <2> DEFINE pl == Purged(leases, LeaseTTL)
    <2>0. s \in Holders /\ pc[s] = "selected" /\ UNCHANGED slots
      BY <1>0, <1>8 DEF AcquireLiveLease, At
    <2>1. /\ pl \in [Sessions -> Ages]
          /\ \A g \in Sessions : leases[g] \in 0..(LeaseTTL - 1) => pl[g] = leases[g]
          /\ \A g \in Sessions : leases[g] \notin 0..(LeaseTTL - 1) => pl[g] = Absent
      BY <1>0, AgeBounds, PurgedSet
    <2>2. With(pl, s)[s] = 0 /\ \A g \in Sessions \ {s} : With(pl, s)[g] = pl[g]
      BY <2>1, WithSet
    <2> HIDE DEF pl
    <2>3. leases' \in {With(pl, s), pl, leases}
      BY <1>8 DEF AcquireLiveLease, pl
    <2>4. \/ Goto(s, "leased") /\ StartTime(s) /\ leases' = With(pl, s)
          \/ Goto(s, "refused") /\ UNCHANGED held
      BY <1>8 DEF AcquireLiveLease, pl
    <2>5. /\ (pc'[s] = "leased" /\ held'[s] = 0 /\ leases'[s] = 0) \/ pc'[s] = "refused"
          /\ \A m \in Holders \ {s} : pc'[m] = pc[m] /\ held'[m] = held[m]
      BY <1>0, <2>0, <2>2, <2>4, Frame DEF StartTime
    <2>6. SlotHeld(s)' /\ LeaseHeld(s)'
      BY <2>5 DEF SlotHeld, LeaseHeld
    <2>7. \A g \in Sessions \ {s} : leases[g] \in 0..(LeaseTTL - 1) => leases'[g] = leases[g]
      BY <2>1, <2>2, <2>3
    <2>8. HeldInv'
      BY <1>0, <2>0, <2>5, <2>6, <2>7, HeldOthers
    <2>9. LiveLeases' \subseteq LiveLeases \cup {s} /\ LiveSlots' = LiveSlots
      BY <2>0, <2>1, <2>2, <2>3 DEF LiveLeases, LiveSlots, Absent
    <2>10. s \in LiveSlots
      BY <1>0, <2>0, AgeBounds DEF HeldInv, SlotHeld, LeaseHeld, LiveSlots
    <2> QED
      BY <2>8, <2>9, <2>10, CapQuiet
  <1>9. ASSUME NEW s \in Sessions, RefreshLiveLease(s) PROVE HeldInv' /\ CapInv'
    <2> DEFINE pl == Purged(leases, LeaseTTL)
    <2>0. s \in Holders /\ pc[s] = "connected" /\ UNCHANGED slots
      BY <1>0, <1>9 DEF RefreshLiveLease, At
    <2>1. /\ pl \in [Sessions -> Ages]
          /\ \A g \in Sessions : leases[g] \in 0..(LeaseTTL - 1) => pl[g] = leases[g]
          /\ \A g \in Sessions : leases[g] \notin 0..(LeaseTTL - 1) => pl[g] = Absent
      BY <1>0, AgeBounds, PurgedSet
    <2>2. With(pl, s)[s] = 0 /\ \A g \in Sessions \ {s} : With(pl, s)[g] = pl[g]
      BY <2>1, WithSet
    <2> HIDE DEF pl
    <2>3. \/ leases' = With(pl, s) /\ pl[s] # Absent /\ StartTime(s) /\ UNCHANGED pc
          \/ leases' \in {pl, leases} /\ Goto(s, "closing") /\ UNCHANGED held
      BY <1>9 DEF RefreshLiveLease, RefreshLost, pl
    <2>4. /\ (pc'[s] = "connected" /\ held'[s] = 0 /\ leases'[s] = 0) \/ pc'[s] = "closing"
          /\ \A m \in Holders \ {s} : pc'[m] = pc[m] /\ held'[m] = held[m]
      BY <1>0, <2>0, <2>2, <2>3, Frame DEF StartTime
    <2>5. SlotHeld(s)' /\ LeaseHeld(s)'
      BY <2>4 DEF SlotHeld, LeaseHeld
    <2>6. \A g \in Sessions \ {s} : leases[g] \in 0..(LeaseTTL - 1) => leases'[g] = leases[g]
      BY <2>1, <2>2, <2>3
    <2>7. HeldInv'
      BY <1>0, <2>0, <2>4, <2>5, <2>6, HeldOthers
    <2>8. LiveLeases' \subseteq LiveLeases /\ LiveSlots' = LiveSlots
      BY <2>0, <2>1, <2>2, <2>3 DEF LiveLeases, LiveSlots, Absent
    <2> QED
      BY <2>7, <2>8, CapQuiet
  <1>10. ASSUME NEW s \in Sessions, Disconnect(s) \/ Redial(s) \/ CallEnds(s)
         PROVE  HeldInv' /\ CapInv'
    <2>1. /\ UNCHANGED <<slots, leases, held>> /\ pc[s] \in {"connected", "dialing"}
          /\ \E l \in {"connected", "dialing", "closing"} : Goto(s, l)
      BY <1>10 DEF Disconnect, Redial, CallEnds, At
    <2>2. /\ pc'[s] \in {"connected", "dialing", "closing"}
          /\ \A m \in Holders \ {s} : pc'[m] = pc[m]
      BY <1>0, <2>1, Frame
    <2>3. SlotHeld(s)' /\ LeaseHeld(s)'
      BY <2>1, <2>2 DEF HeldInv, SlotHeld, LeaseHeld
    <2>4. HeldInv'
      BY <1>0, <2>1, <2>2, <2>3, HeldOthers
    <2>5. CapInv'
      BY <2>1, CapQuiet DEF LiveSlots, LiveLeases
    <2> QED
      BY <2>4, <2>5
  <1>11. ASSUME NEW s \in Sessions, ReleaseLiveLease(s) PROVE HeldInv' /\ CapInv'
    <2>1. /\ UNCHANGED slots
          /\ leases' = Without(leases, s) \/ UNCHANGED leases
          /\ Goto(s, "idle") /\ StartTime(s)
      BY <1>11 DEF ReleaseLiveLease
    <2>2. /\ pc'[s] = "idle"
          /\ \A m \in Holders \ {s} : pc'[m] = pc[m] /\ held'[m] = held[m]
      BY <1>0, <2>1, Frame DEF StartTime
    <2>3. \A g \in Sessions : leases'[g] = leases[g] \/ (g = s /\ leases'[g] = Absent)
      <3>1. Without(leases, s)[s] = Absent
            /\ \A g \in Sessions \ {s} : Without(leases, s)[g] = leases[g]
        BY <1>0, WithSet
      <3>2. CASE leases' = Without(leases, s)
        BY <3>1, <3>2
      <3>3. CASE UNCHANGED leases
        BY <3>3
      <3> QED
        BY <2>1, <3>2, <3>3
    <2>4. SlotHeld(s)' /\ LeaseHeld(s)'
      BY <2>2 DEF SlotHeld, LeaseHeld
    <2>5. HeldInv'
      BY <1>0, <2>1, <2>2, <2>3, <2>4, HeldOthers
    <2>6. LiveLeases' \subseteq LiveLeases /\ LiveSlots' = LiveSlots
      BY <2>1, <2>3 DEF LiveLeases, LiveSlots, Absent
    <2> QED
      BY <2>5, <2>6, CapQuiet
  <1>12. CASE CleanupExpired
    <2>1. /\ \A m \in Holders : slots[m] \in 0..(SlotTTL - 1) => slots'[m] = slots[m]
          /\ \A m \in Holders : slots[m] \notin 0..(SlotTTL - 1) => slots'[m] = Absent
      BY <1>0, <1>12, AgeBounds, PurgedSet DEF CleanupExpired
    <2>2. /\ \A s \in Sessions : leases[s] \in 0..(LeaseTTL - 1) => leases'[s] = leases[s]
          /\ \A s \in Sessions : leases[s] \notin 0..(LeaseTTL - 1) => leases'[s] = Absent
      BY <1>0, <1>12, AgeBounds, PurgedSet DEF CleanupExpired
    <2>3. UNCHANGED <<pc, held>>
      BY <1>12 DEF CleanupExpired
    <2>4. \A m \in Holders : /\ held[m] < SlotTTL => held[m] \in 0..(SlotTTL - 1)
                             /\ held[m] < LeaseTTL => held[m] \in 0..(LeaseTTL - 1)
      BY <1>0, AgeBounds
    <2>5. HeldInv'
      BY <1>0, <2>1, <2>2, <2>3, <2>4 DEF HeldInv, SlotHeld, LeaseHeld
    <2>6. LiveSlots' \subseteq LiveSlots /\ LiveLeases' \subseteq LiveLeases
      BY <2>1, <2>2 DEF LiveSlots, LiveLeases, Absent
    <2> QED
      BY <2>5, <2>6, CapQuiet
  <1>13. ASSUME NEW p \in Processes, Crash(p) PROVE HeldInv' /\ CapInv'
    <2>1. UNCHANGED <<slots, leases>>
      BY <1>13 DEF Crash
    <2>2. \A h \in Holders : pc'[h] = "idle" \/ (pc'[h] = pc[h] /\ held'[h] = held[h])
      BY <1>13 DEF Crash
    <2>3. HeldInv'
      BY <1>0, <2>1, <2>2 DEF HeldInv, SlotHeld, LeaseHeld
    <2>4. CapInv'
      BY <2>1, CapQuiet DEF LiveSlots, LiveLeases
    <2> QED
      BY <2>3, <2>4
  <1>14. ASSUME NEW p \in Processes, Start(p) PROVE HeldInv' /\ CapInv'
    <2>1. \A h \in Holders : pc'[h] = "idle"
      BY <1>0, <1>14, StartQuiet
    <2>2. HeldInv'
      BY <1>0, <2>1 DEF HeldInv, SlotHeld, LeaseHeld
    <2>3. LiveSlots' \subseteq LiveSlots /\ LiveLeases' = LiveLeases
      BY <1>14 DEF Start, LiveSlots, LiveLeases, Absent
    <2> QED
      BY <2>2, <2>3, CapQuiet
  <1>15. CASE Tick
    <2>1. /\ \A h \in Holders : slots'[h] = Older(slots[h])
          /\ \A s \in Sessions : leases'[s] = Older(leases[s])
          /\ \A h \in Holders : pc[h] \in Holding => held'[h] = Older(held[h])
          /\ UNCHANGED pc
      BY <1>15 DEF Tick
    <2>2. \A h \in Holders : /\ Older(held[h]) < SlotTTL => held[h] < SlotTTL
                             /\ Older(held[h]) < LeaseTTL => held[h] < LeaseTTL
      BY <1>0, AgeBounds, OlderAge DEF Ages
    <2>3. ASSUME NEW s \in Sessions, pc[s] = "selected" PROVE Older(held[s]) < SlotTTL
      BY <1>0, <1>15, <2>3, AgeBounds DEF Tick, Prompt, Older
    <2>4. \A h \in Holders : SlotHeld(h)'
      BY <1>0, <2>1, <2>2 DEF HeldInv, SlotHeld, Holding
    <2>5. \A s \in Sessions : LeaseHeld(s)'
      BY <1>0, <2>1, <2>2, <2>3 DEF HeldInv, LeaseHeld, Holding
    <2>6. LiveSlots' \subseteq LiveSlots /\ LiveLeases' \subseteq LiveLeases
      BY <1>0, <2>1, AgeBounds, OlderAge DEF LiveSlots, LiveLeases
    <2> QED
      BY <2>4, <2>5, <2>6, CapQuiet DEF HeldInv
  <1>16. CASE WaitKeyExpires \/ UNCHANGED vars
    <2>1. UNCHANGED <<slots, leases, pc, held>>
      BY <1>16 DEF WaitKeyExpires, vars
    <2> QED
      BY <2>1 DEF HeldInv, CapInv, SlotHeld, LeaseHeld, LiveSlots, LiveLeases
  <1> QED
    BY <1>1, <1>2, <1>3, <1>4, <1>6, <1>7, <1>8, <1>9, <1>10, <1>11, <1>12, <1>13, <1>14, <1>15,
       <1>16 DEF Next, Request, Session

\* Requests and live calls at work within their TTL are never more than the
\* limit: while a lease replaces a slot, after failed calls that added a member,
\* after releases that failed, crashes and restarts.
THEOREM LimitSafe == ASSUME SingleInstance PROVE Spec => []WithinLimit
  <1>1. Init => HeldInv /\ CapInv
    <2>1. Init => HeldInv
      BY DEF Init, HeldInv, SlotHeld, LeaseHeld, Holders
    <2>2. Init => LiveSlots \cup LiveLeases = {}
      BY DEF Init, LiveSlots, LiveLeases, Absent
    <2>3. Init => CapInv
      BY <2>2, FS_EmptySet, LimitsAssumption DEF CapInv
    <2> QED
      BY <2>1, <2>3
  <1>2. BaseInv /\ HeldInv /\ CapInv /\ [Next]_vars => (HeldInv /\ CapInv)'
    BY LimitStep
  <1>3. BaseInv /\ HeldInv /\ CapInv => WithinLimit
    <2> SUFFICES ASSUME BaseInv, HeldInv, CapInv PROVE WithinLimit
      OBVIOUS
    <2>1. \A h \in Holders : /\ held[h] < SlotTTL => held[h] \in 0..(SlotTTL - 1)
                             /\ held[h] < LeaseTTL => held[h] \in 0..(LeaseTTL - 1)
      BY AgeBounds DEF BaseInv, TypeOK
    <2>2. \A h \in Holders : pc[h] \in {"leased", "connected", "dialing"} => h \in Sessions
      BY DEF BaseInv, PlaceInv, Holders, RequestPlaces
    <2>3. AtWork \subseteq LiveSlots \cup LiveLeases
      BY <2>1, <2>2 DEF AtWork, HeldInv, SlotHeld, LeaseHeld, LiveSlots, LiveLeases
    <2>4. IsFiniteSet(AtWork) /\ Cardinality(AtWork) <= Cardinality(LiveSlots \cup LiveLeases)
      BY <2>3, LiveFinite, FS_Subset
    <2>5. Cardinality(AtWork) \in Nat
      BY <2>4, FS_CardinalityType
    <2> QED
      BY <2>4, <2>5, LiveFinite, LimitsAssumption DEF CapInv, WithinLimit
  <1> QED
    BY <1>1, <1>2, <1>3, BaseInvariance, PTL DEF Spec
=============================================================================
