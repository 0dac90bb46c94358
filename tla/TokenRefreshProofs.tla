-------------------------- MODULE TokenRefreshProofs --------------------------
(***************************************************************************)
(* Proofs about TokenRefresh, for every set of workers, tests and          *)
(* instances and for all bounds on agings, edits, retries and faults.      *)
(***************************************************************************)
EXTENDS TokenRefresh, TLAPS

\* The tokens the provider has issued.
Tokens == 1..(next - 1)

\* The places where a caller works under the lock in Redis.
Critical == {"read", "call", "persist", "invalid"}

-----------------------------------------------------------------------------
(* Types. *)

\* An update under way holds credentials that stood in the row.
EditInv ==
  /\ edit \in [kind : {"none", "setting", "authorization", "clear"}, creds : 0..(next - 1),
               active : BOOLEAN]
  /\ edit.kind \in {"setting", "authorization"} => edit.creds \in Tokens

\* Credentials that wait to be stored are new: they stand neither in the row nor
\* in an update, nobody has read them, and no other caller holds them.
FreshInv ==
  \A c \in Callers : pc[c] = "persist" =>
    /\ fresh[c] \in Tokens
    /\ fresh[c] # creds /\ fresh[c] # edit.creds
    /\ \A d \in Callers :
         fresh[c] # snap[d] /\ (d # c /\ pc[d] = "persist" => fresh[d] # fresh[c])

\* RefreshIfNeeded returns to places outside of it.
ReturnInv == \A c \in Callers : then[c] \in {"idle", "done", "reject", "failed"}

BaseInv == TypeOK /\ EditInv /\ FreshInv /\ ReturnInv

\* The account starts with the first authorization.
LEMMA BaseInit == Init => BaseInv
  <1> SUFFICES ASSUME Init PROVE BaseInv
    OBVIOUS
  <1>1. creds \in 1..(next - 1) /\ NoToken \in 0..(next - 1) /\ next \in Nat /\ 1 \in 1..MaxRetries
        /\ 0 \in 0..MaxEdits /\ 0 \in 0..MaxFaults
    BY BoundsAssumption DEF Init, NoToken
  <1>2. TypeOK
    BY <1>1 DEF Init, TypeOK, NoEdit, Places
  <1>3. EditInv /\ FreshInv /\ ReturnInv
    BY <1>1 DEF Init, EditInv, FreshInv, ReturnInv, NoEdit
  <1> QED
    BY <1>2, <1>3 DEF BaseInv

\* A caller moves itself only.
LEMMA Frame ==
  ASSUME TypeOK, NEW c \in Callers, NEW l, Goto(c, l)
  PROVE  pc'[c] = l /\ \A d \in Callers \ {c} : pc'[d] = pc[d]
  BY DEF TypeOK, Goto

\* The number of a new token is above all others.
LEMMA Issue ==
  ASSUME TypeOK, next' = next + 1
  PROVE  /\ next \in Tokens' /\ next \notin 0..(next - 1) /\ next' \in Nat
         /\ Tokens \subseteq Tokens' /\ 0..(next - 1) \subseteq 0..(next' - 1)
  BY DEF TypeOK, Tokens

\* Going somewhere and finishing keep the types of a caller's locals.
LEMMA MoveType ==
  ASSUME TypeOK, NEW c \in Callers, NEW l \in Places, Goto(c, l)
  PROVE  pc' \in [Callers -> Places]
  BY DEF TypeOK, Goto

\* The same of a return to where the caller said.
LEMMA ReturnType ==
  ASSUME TypeOK, NEW c \in Callers, NEW l \in Places, Return(c, l)
  PROVE  pc' \in [Callers -> Places] /\ then' \in [Callers -> Places]
  BY DEF TypeOK, Return, Goto, Places

\* The same of a caller that ends.
LEMMA FinishType ==
  ASSUME TypeOK, NEW c \in Callers, Finish(c), UNCHANGED next
  PROVE  /\ pc' \in [Callers -> Places] /\ then' \in [Callers -> Places]
         /\ acct' \in [Callers -> 0..(next' - 1)] /\ snap' \in [Callers -> 0..(next' - 1)]
         /\ fresh' \in [Callers -> 0..(next' - 1)] /\ attempt' \in [Callers -> 1..MaxRetries]
  <1>1. next \in Nat /\ NoToken \in 0..(next - 1) /\ 1 \in 1..MaxRetries
    BY BoundsAssumption DEF TypeOK, NoToken
  <1> QED
    BY <1>1, MoveType DEF TypeOK, Finish, Places

\* A fault is counted.
LEMMA FaultType ==
  ASSUME TypeOK, Fault \/ UNCHANGED faults
  PROVE  faults' \in 0..MaxFaults
  BY BoundsAssumption DEF TypeOK, Fault

\* Every step keeps the types.
LEMMA TypeStep ==
  ASSUME BaseInv, [Next]_vars PROVE TypeOK'
  <1>0. TypeOK
    BY DEF BaseInv
  <1>1. ASSUME NEW c \in Callers, Begin(c) PROVE TypeOK'
    <2>1. creds \in 0..(next - 1)
      BY <1>0 DEF TypeOK
    <2> QED
      BY <1>0, <1>1, <2>1, MoveType DEF Begin, TypeOK, row, world, locks, admin, Places
  <1>2. ASSUME NEW c \in Callers, LocalLock(c) PROVE TypeOK'
    <2>1. local' \in [Instances -> Callers \cup {Nobody}]
      BY <1>0, <1>2 DEF LocalLock, TypeOK
    <2> QED
      BY <1>0, <1>2, <2>1, MoveType DEF LocalLock, TypeOK, row, world, task, admin, Places
  <1>3. ASSUME NEW c \in Callers, AcquireRefreshLock(c) PROVE TypeOK'
    <2>1. pc' \in [Callers -> Places] /\ then' \in [Callers -> Places]
      BY <1>0, <1>3, MoveType, ReturnType DEF AcquireRefreshLock, TypeOK, Places
    <2>2. lock' \in Callers \cup {Nobody, Abandoned} /\ locked' \subseteq Callers
      BY <1>0, <1>3 DEF AcquireRefreshLock, TypeOK
    <2>3. faults' \in 0..MaxFaults /\ disturbed' \in BOOLEAN
      BY <1>0, <1>3, FaultType DEF AcquireRefreshLock, TypeOK
    <2> QED
      BY <1>0, <1>3, <2>1, <2>2, <2>3 DEF AcquireRefreshLock, TypeOK, row, world, admin
  <1>4. ASSUME NEW c \in Callers, ReadAccount(c) PROVE TypeOK'
    <2>1. pc' \in [Callers -> Places] /\ then' \in [Callers -> Places]
      BY <1>0, <1>4, MoveType, ReturnType DEF ReadAccount, TypeOK, Places
    <2>2. creds \in 0..(next - 1)
      BY <1>0 DEF TypeOK
    <2>3. snap' \in [Callers -> 0..(next - 1)] /\ faults' \in 0..MaxFaults
      BY <1>0, <1>4, <2>2, FaultType DEF ReadAccount, TypeOK
    <2> QED
      BY <1>0, <1>4, <2>1, <2>3 DEF ReadAccount, TypeOK, row, world, locks, admin
  <1>5. ASSUME NEW c \in Callers, Refresh(c) PROVE TypeOK'
    <2>1. pc' \in [Callers -> Places] /\ then' \in [Callers -> Places]
      BY <1>0, <1>5, MoveType, ReturnType DEF Refresh, TypeOK, Places
    <2>2. faults' \in 0..MaxFaults /\ late' \subseteq Callers
      BY <1>0, <1>5, FaultType DEF Refresh, TypeOK
    <2>3. CASE Rotate(c)
      <3>1. /\ next \in Tokens' /\ next' \in Nat
            /\ Tokens \subseteq Tokens' /\ 0..(next - 1) \subseteq 0..(next' - 1)
            /\ Tokens' \subseteq 0..(next' - 1)
        BY <1>0, <2>3, Issue DEF Rotate, Tokens
      <3>2. creds' \in Tokens' /\ old' \subseteq Tokens' /\ live' \subseteq Tokens'
            /\ rightful' \subseteq Tokens'
        BY <1>0, <1>5, <2>3, <3>1 DEF Refresh, Rotate, TypeOK, row, Tokens
      <3>3. /\ acct' \in [Callers -> 0..(next - 1)] /\ snap' \in [Callers -> 0..(next - 1)]
            /\ fresh' \in [Callers -> 0..(next' - 1)]
        BY <1>0, <1>5, <3>1 DEF Refresh, TypeOK
      <3>4. acct' \in [Callers -> 0..(next' - 1)] /\ snap' \in [Callers -> 0..(next' - 1)]
        BY <3>1, <3>3
      <3> QED
        BY <1>0, <1>5, <2>1, <2>2, <3>1, <3>2, <3>3, <3>4
           DEF Refresh, TypeOK, row, locks, admin, Tokens
    <2>4. CASE UNCHANGED <<world, rightful>>
      <3>1. acct' \in [Callers -> 0..(next - 1)]
        BY <1>0, <1>5 DEF Refresh, TypeOK
      <3>2. CASE UNCHANGED fresh
        BY <1>0, <1>5, <2>1, <2>2, <2>4, <3>1, <3>2
           DEF Refresh, TypeOK, row, world, locks, admin
      <3>3. CASE Rotate(c)
        BY <2>3, <3>3
      <3> QED
        BY <1>5, <3>2, <3>3 DEF Refresh
    <2> QED
      BY <1>5, <2>3, <2>4 DEF Refresh
  <1>6. ASSUME NEW c \in Callers, Recover(c) PROVE TypeOK'
    <2>1. pc' \in [Callers -> Places] /\ then' \in [Callers -> Places]
      BY <1>0, <1>6, ReturnType DEF Recover, Places
    <2>2. acct' \in [Callers -> 0..(next - 1)] /\ faults' \in 0..MaxFaults
      BY <1>0, <1>6, FaultType DEF Recover, TypeOK
    <2> QED
      BY <1>0, <1>6, <2>1, <2>2 DEF Recover, TypeOK, row, world, locks, admin
  <1>7. ASSUME NEW c \in Callers, Persist(c) PROVE TypeOK'
    <2>1. pc' \in [Callers -> Places] /\ then' \in [Callers -> Places]
      BY <1>0, <1>7, ReturnType DEF Persist, Places
    <2>2. creds' \in Tokens /\ rightful' \subseteq Tokens
      BY <1>0, <1>7 DEF Persist, TypeOK, BaseInv, FreshInv, Tokens
    <2>3. faults' \in 0..MaxFaults
      BY <1>0, <1>7, FaultType DEF Persist
    <2> QED
      BY <1>0, <1>7, <2>1, <2>2, <2>3 DEF Persist, TypeOK, world, locks, admin, Tokens
  <1>8. ASSUME NEW c \in Callers, Release(c) PROVE TypeOK'
    <2>1. lock' \in Callers \cup {Nobody, Abandoned} /\ locked' \subseteq Callers
      BY <1>0, <1>8 DEF Release, TypeOK, AbandonedBy
    <2>2. local' \in [Instances -> Callers \cup {Nobody}] /\ faults' \in 0..MaxFaults
      BY <1>0, <1>8, FaultType DEF Release, TypeOK
    <2>3. /\ pc' \in [Callers -> Places] /\ then' \in [Callers -> Places]
          /\ acct' \in [Callers -> 0..(next' - 1)] /\ snap' \in [Callers -> 0..(next' - 1)]
          /\ fresh' \in [Callers -> 0..(next' - 1)] /\ attempt' \in [Callers -> 1..MaxRetries]
      <3>1. UNCHANGED next /\ NoToken \in 0..(next - 1) /\ then[c] \in Places
        BY <1>0, <1>8 DEF Release, world, TypeOK, NoToken
      <3>2. CASE then[c] = "idle"
        BY <1>0, <1>8, <3>1, <3>2, FinishType DEF Release
      <3>3. CASE then[c] # "idle"
        BY <1>0, <1>8, <3>1, <3>3, MoveType DEF Release, TypeOK, Places
      <3> QED
        BY <3>2, <3>3
    <2> QED
      BY <1>0, <1>8, <2>1, <2>2, <2>3 DEF Release, TypeOK, row, world, admin
  <1>9. ASSUME NEW c \in Callers, PostRefresh(c) PROVE TypeOK'
    <2>1. UNCHANGED next /\ cooldown' \in BOOLEAN
      BY <1>0, <1>9 DEF PostRefresh, world, TypeOK
    <2> QED
      BY <1>0, <1>9, <2>1, FinishType DEF PostRefresh, TypeOK, world, locks, admin
  <1>10. ASSUME NEW c \in Callers, SetRefreshError(c) PROVE TypeOK'
    <2>1. UNCHANGED next /\ active' \in BOOLEAN /\ faults' \in 0..MaxFaults
      BY <1>0, <1>10, FaultType DEF SetRefreshError, world, TypeOK
    <2> QED
      BY <1>0, <1>10, <2>1, FinishType DEF SetRefreshError, TypeOK, world, locks, admin
  <1>11. ASSUME NEW c \in Callers, AttemptFailed(c) PROVE TypeOK'
    <2>1. UNCHANGED next /\ cooldown' \in BOOLEAN /\ faults' \in 0..MaxFaults
      BY <1>0, <1>11, FaultType DEF AttemptFailed, world, TypeOK
    <2>2. CASE Finish(c)
      BY <1>0, <1>11, <2>1, <2>2, FinishType DEF AttemptFailed, TypeOK, world, locks, admin
    <2>3. CASE /\ AttemptLeft(c) /\ attempt' = [attempt EXCEPT ![c] = attempt[c] + 1]
               /\ Goto(c, "local") /\ UNCHANGED <<then, acct, snap, fresh>>
      <3>1. attempt[c] + 1 \in 1..MaxRetries
        BY <1>0, <2>3, BoundsAssumption DEF AttemptLeft, TypeOK
      <3>2. attempt' \in [Callers -> 1..MaxRetries] /\ pc' \in [Callers -> Places]
        BY <1>0, <2>3, <3>1, MoveType DEF TypeOK, Places
      <3> QED
        BY <1>0, <1>11, <2>1, <2>3, <3>2 DEF AttemptFailed, TypeOK, world, locks, admin
    <2> QED
      BY <1>11, <2>2, <2>3 DEF AttemptFailed
  <1>12. ASSUME NEW c \in Callers, LocalTimeout(c) \/ Overrun(c) PROVE TypeOK'
    <2>1. faults' \in 0..MaxFaults
      BY <1>0, <1>12, FaultType DEF LocalTimeout, Overrun
    <2> QED
      BY <1>0, <1>12, <2>1, MoveType
         DEF LocalTimeout, Overrun, TypeOK, row, world, locks, task, admin, Places
  <1>13. CASE EditRead
    <2>1. edits' \in 0..MaxEdits
      BY <1>0, <1>13, BoundsAssumption DEF EditRead, TypeOK
    <2> QED
      BY <1>0, <1>13, <2>1 DEF EditRead, TypeOK, row, world, locks, task
  <1>14. CASE EditWrite
    <2>0. active' \in BOOLEAN /\ edit \in [kind : {"none", "setting", "authorization", "clear"},
                                           creds : 0..(next - 1), active : BOOLEAN]
      BY <1>14 DEF EditWrite, BaseInv, EditInv
    <2>1. CASE edit.kind = "setting"
      BY <1>0, <1>14, <2>0, <2>1
         DEF EditWrite, BaseInv, EditInv, TypeOK, world, locks, task, NoEdit, Tokens
    <2>2. CASE edit.kind = "authorization"
      <3>1. /\ next \in Tokens' /\ next' \in Nat
            /\ Tokens \subseteq Tokens' /\ 0..(next - 1) \subseteq 0..(next' - 1)
        BY <1>0, <1>14, <2>2, Issue DEF EditWrite
      <3>2. /\ acct' \in [Callers -> 0..(next' - 1)] /\ snap' \in [Callers -> 0..(next' - 1)]
            /\ fresh' \in [Callers -> 0..(next' - 1)]
        BY <1>0, <1>14, <3>1 DEF EditWrite, TypeOK, task
      <3>3. edit'.kind = "clear" /\ restored' \in BOOLEAN
        BY <1>0, <1>14, <2>0, <2>2 DEF EditWrite, TypeOK
      <3>4. creds' \in Tokens' /\ old' \subseteq Tokens' /\ live' \subseteq Tokens'
            /\ rightful' \subseteq Tokens'
        BY <1>0, <1>14, <2>2, <3>1 DEF EditWrite, TypeOK, Tokens
      <3> QED
        BY <1>0, <1>14, <2>0, <3>1, <3>2, <3>3, <3>4 DEF EditWrite, TypeOK, locks, task, Tokens
    <2> QED
      BY <1>14, <2>1, <2>2 DEF EditWrite
  <1>15. CASE ClearAccountError
    BY <1>0, <1>15 DEF ClearAccountError, TypeOK, world, locks, task, NoEdit
  <1>16. CASE Age \/ CooldownEnds \/ LockExpires
    BY <1>0, <1>16 DEF Age, CooldownEnds, LockExpires, TypeOK, row, world, locks, task, admin
  <1>17. ASSUME NEW i \in Instances, Crash(i) PROVE TypeOK'
    <2>1. /\ NoToken \in 0..(next - 1) /\ 1 \in 1..MaxRetries /\ "idle" \in Places
      BY <1>0, BoundsAssumption DEF TypeOK, NoToken, Places
    <2>2. /\ pc' \in [Callers -> Places] /\ then' \in [Callers -> Places]
          /\ acct' \in [Callers -> 0..(next - 1)] /\ snap' \in [Callers -> 0..(next - 1)]
          /\ fresh' \in [Callers -> 0..(next - 1)] /\ attempt' \in [Callers -> 1..MaxRetries]
      BY <1>0, <1>17, <2>1 DEF Crash, TypeOK
    <2>3. /\ local' \in [Instances -> Callers \cup {Nobody}] /\ locked' \subseteq Callers
          /\ late' \subseteq Callers /\ lock' \in Callers \cup {Nobody, Abandoned}
          /\ faults' \in 0..MaxFaults
      BY <1>0, <1>17, FaultType DEF Crash, TypeOK, AbandonedBy
    <2> QED
      BY <1>0, <1>17, <2>2, <2>3 DEF Crash, TypeOK, row, world, admin
  <1>18. CASE UNCHANGED vars
    BY <1>0, <1>18 DEF vars, TypeOK, row, world, locks, task, admin
  <1> QED
    BY <1>1, <1>2, <1>3, <1>4, <1>5, <1>6, <1>7, <1>8, <1>9, <1>10, <1>11, <1>12, <1>13, <1>14,
       <1>15, <1>16, <1>17, <1>18 DEF Next, Step

-----------------------------------------------------------------------------
(* What a step does to the callers. *)

\* A caller at work on a rejection of its credentials.
Rejecting(c) == pc[c] = "reject" \/ (pc[c] = "release" /\ then[c] = "reject")

\* The locals of the callers other than c.
Others(c) ==
  \A d \in Callers \ {c} :
    /\ pc'[d] = pc[d] /\ then'[d] = then[d]
    /\ acct'[d] = acct[d] /\ snap'[d] = snap[d] /\ fresh'[d] = fresh[d]

\* The steps of a caller that neither present a token, nor store an answer, nor
\* look into a rejection.
Plain(c) ==
  \/ Begin(c) \/ LocalLock(c) \/ LocalTimeout(c) \/ AcquireRefreshLock(c) \/ ReadAccount(c)
  \/ Overrun(c) \/ Release(c) \/ PostRefresh(c) \/ SetRefreshError(c) \/ AttemptFailed(c)

\* No step of a caller touches the locals of another one.
LEMMA OwnLocals ==
  ASSUME TypeOK, NEW c \in Callers, Plain(c) \/ Refresh(c) \/ Recover(c) \/ Persist(c)
  PROVE  Others(c)
  <1>1. CASE Begin(c) \/ LocalLock(c) \/ LocalTimeout(c) \/ AcquireRefreshLock(c) \/ ReadAccount(c)
    BY <1>1 DEF Begin, LocalLock, LocalTimeout, AcquireRefreshLock, ReadAccount, Others, TypeOK,
       task, Goto, Return
  <1>2. CASE Refresh(c) \/ Overrun(c) \/ Recover(c) \/ Persist(c)
    BY <1>2 DEF Refresh, Overrun, Recover, Persist, Others, TypeOK, task, Goto, Return
  <1>3. CASE Release(c) \/ PostRefresh(c) \/ SetRefreshError(c) \/ AttemptFailed(c)
    BY <1>3 DEF Release, PostRefresh, SetRefreshError, AttemptFailed, Others, TypeOK, Goto, Finish
  <1> QED
    BY <1>1, <1>2, <1>3 DEF Plain

\* A plain step leaves the credentials, the tokens and the update alone; only a
\* rejection of the row's credentials makes the account inactive, and only an
\* active account is read.
LEMMA PlainStep ==
  ASSUME BaseInv, NEW c \in Callers, Plain(c)
  PROVE  /\ Others(c) /\ UNCHANGED <<creds, edit, restored, next, live, rightful>>
         /\ pc'[c] \notin {"persist", "invalid"}
         /\ then'[c] \in {"idle", "done", "reject", "failed"}
         /\ Rejecting(c)' => Rejecting(c) /\ acct'[c] = acct[c]
         /\ snap'[c] \in {NoToken, snap[c]} \/ (active /\ snap'[c] = creds)
         /\ active' = active \/ (pc[c] = "reject" /\ acct[c] = creds)
  <1>0. TypeOK /\ then[c] \in {"idle", "done", "reject", "failed"}
    BY DEF BaseInv, ReturnInv
  <1>1. Others(c)
    BY <1>0, OwnLocals
  <1>2. UNCHANGED <<creds, edit, restored, next, live, rightful>>
    BY DEF Plain, Begin, LocalLock, LocalTimeout, AcquireRefreshLock, ReadAccount, Overrun, Release,
       PostRefresh, SetRefreshError, AttemptFailed, row, world, admin
  <1>3. active' = active \/ (pc[c] = "reject" /\ acct[c] = creds)
    BY DEF Plain, Begin, LocalLock, LocalTimeout, AcquireRefreshLock, ReadAccount, Overrun, Release,
       PostRefresh, SetRefreshError, AttemptFailed, row, StillFailing, Unchanged
  <1>4. /\ pc'[c] \notin {"persist", "invalid"} /\ then'[c] \in {"idle", "done", "reject", "failed"}
        /\ Rejecting(c)' => Rejecting(c) /\ acct'[c] = acct[c]
        /\ snap'[c] \in {NoToken, snap[c]} \/ (active /\ snap'[c] = creds)
    <2>1. CASE Begin(c) \/ LocalLock(c) \/ LocalTimeout(c) \/ Overrun(c)
      BY <1>0, <2>1 DEF Begin, LocalLock, LocalTimeout, Overrun, task, Goto, TypeOK, Rejecting
    <2>2. CASE AcquireRefreshLock(c) \/ ReadAccount(c)
      BY <1>0, <2>2 DEF AcquireRefreshLock, ReadAccount, Goto, Return, TypeOK, Rejecting
    <2>3. CASE Release(c)
      BY <1>0, <2>3 DEF Release, Goto, Finish, TypeOK, Rejecting
    <2>4. CASE PostRefresh(c) \/ SetRefreshError(c) \/ AttemptFailed(c)
      BY <1>0, <2>4 DEF PostRefresh, SetRefreshError, AttemptFailed, Goto, Finish, TypeOK, Rejecting
    <2> QED
      BY <2>1, <2>2, <2>3, <2>4 DEF Plain
  <1> QED
    BY <1>1, <1>2, <1>3, <1>4

\* A call of the provider: the token is exchanged for a new one, or refused, or
\* the attempt fails whether or not the token was taken.
LEMMA RefreshStep ==
  ASSUME BaseInv, NEW c \in Callers, Refresh(c)
  PROVE  /\ Others(c) /\ UNCHANGED <<creds, active, edit, restored>> /\ pc[c] = "call"
         /\ snap'[c] = snap[c] /\ then'[c] \in {"idle", "done", "reject", "failed"}
         /\ ~Rejecting(c)'
         /\ Rotate(c) \/ UNCHANGED <<next, live, rightful>>
         /\ \/ pc'[c] = "persist" /\ Rotate(c) /\ fresh'[c] = next
            \/ pc'[c] = "invalid" /\ snap[c] \notin live /\ UNCHANGED live
            \/ pc'[c] = "release"
  <1>0. TypeOK /\ then[c] \in {"idle", "done", "reject", "failed"}
    BY DEF BaseInv, ReturnInv
  <1>1. Others(c)
    BY <1>0, OwnLocals
  <1>2. UNCHANGED <<creds, active, edit, restored>> /\ pc[c] = "call" /\ snap'[c] = snap[c]
    BY DEF Refresh, row, admin
  <1>3. Rotate(c) \/ UNCHANGED <<next, live, rightful>>
    BY DEF Refresh, world
  <1>4. /\ then'[c] \in {"idle", "done", "reject", "failed"} /\ ~Rejecting(c)'
        /\ \/ pc'[c] = "persist" /\ Rotate(c) /\ fresh'[c] = next
           \/ pc'[c] = "invalid" /\ snap[c] \notin live /\ UNCHANGED live
           \/ pc'[c] = "release"
    BY <1>0 DEF Refresh, world, Goto, Return, TypeOK, Rejecting
  <1> QED
    BY <1>1, <1>2, <1>3, <1>4

\* Looking into an invalid_grant: credentials that were rejected are those used.
LEMMA RecoverStep ==
  ASSUME BaseInv, NEW c \in Callers, Recover(c)
  PROVE  /\ Others(c) /\ UNCHANGED <<creds, active, edit, restored, next, live, rightful>>
         /\ pc[c] = "invalid" /\ pc'[c] = "release" /\ snap'[c] = snap[c]
         /\ then'[c] \in {"idle", "reject"}
         /\ Rejecting(c)' => acct'[c] = snap[c]
  <1>0. TypeOK
    BY DEF BaseInv
  <1>1. Others(c)
    BY <1>0, OwnLocals
  <1> QED
    BY <1>0, <1>1 DEF Recover, row, world, admin, Return, Goto, TypeOK, Rejecting

\* Storing the answer, if the row holds what was exchanged.
LEMMA PersistStep ==
  ASSUME BaseInv, NEW c \in Callers, Persist(c)
  PROVE  /\ Others(c) /\ UNCHANGED <<active, edit, restored, next, live>>
         /\ pc[c] = "persist" /\ pc'[c] = "release" /\ snap'[c] = snap[c]
         /\ then'[c] \in {"idle", "done"}
         /\ \/ creds = snap[c] /\ creds' = fresh[c] /\ rightful' = rightful \ {snap[c]}
            \/ UNCHANGED <<creds, rightful>>
  <1>0. TypeOK
    BY DEF BaseInv
  <1>1. Others(c)
    BY <1>0, OwnLocals
  <1> QED
    BY <1>0, <1>1 DEF Persist, world, admin, Unchanged, Return, Goto, TypeOK

\* A crash forgets the locals of an instance's callers.
LEMMA CrashStep ==
  ASSUME BaseInv, NEW i \in Instances, Crash(i)
  PROVE  /\ UNCHANGED <<creds, active, edit, restored, next, live, rightful, disturbed>>
         /\ \A d \in Callers :
              \/ /\ pc'[d] = pc[d] /\ then'[d] = then[d] /\ InstanceOf[d] # i
                 /\ acct'[d] = acct[d] /\ snap'[d] = snap[d] /\ fresh'[d] = fresh[d]
              \/ /\ pc'[d] = "idle" /\ then'[d] = "idle" /\ snap'[d] = NoToken
                 /\ InstanceOf[d] = i
  BY DEF Crash, row, world, admin

\* The steps of the administrators and of time leave the callers alone.
LEMMA OutsideStep ==
  ASSUME EditRead \/ EditWrite \/ ClearAccountError \/ Age \/ CooldownEnds \/ LockExpires
           \/ UNCHANGED vars
  PROVE  UNCHANGED <<pc, then, acct, snap, fresh, late, disturbed, locked>>
  BY DEF EditRead, EditWrite, ClearAccountError, Age, CooldownEnds, LockExpires, vars, task, locks

\* Time passes, or nothing happens.
Idle == Age \/ CooldownEnds \/ LockExpires \/ UNCHANGED vars

\* Such a step leaves the account and the callers alone.
LEMMA IdleStep ==
  ASSUME Idle
  PROVE  /\ UNCHANGED <<creds, active, edit, restored, next, live, rightful>>
         /\ UNCHANGED <<pc, then, acct, snap, fresh, late, disturbed, locked>>
  BY OutsideStep DEF Idle, Age, CooldownEnds, LockExpires, vars, row, world, admin

\* The steps, by these kinds.
LEMMA Kinds ==
  ASSUME [Next]_vars
  PROVE  \/ \E c \in Callers : Plain(c) \/ Refresh(c) \/ Recover(c) \/ Persist(c)
         \/ EditRead \/ EditWrite \/ ClearAccountError \/ Idle
         \/ \E i \in Instances : Crash(i)
  BY DEF Next, Step, Plain, Idle

-----------------------------------------------------------------------------
(* Fresh credentials. *)

\* The update under way keeps its type.
LEMMA EditStep ==
  ASSUME BaseInv, [Next]_vars PROVE EditInv'
  <1>0. TypeOK /\ EditInv
    BY DEF BaseInv
  <1>1. CASE UNCHANGED edit /\ (UNCHANGED next \/ next' = next + 1)
    <2>1. Tokens \subseteq Tokens' /\ 0..(next - 1) \subseteq 0..(next' - 1)
      BY <1>0, <1>1, Issue DEF Tokens
    <2> QED
      BY <1>0, <1>1, <2>1 DEF EditInv
  <1>2. CASE EditRead
    <2>1. UNCHANGED next /\ active \in BOOLEAN /\ creds \in Tokens /\ creds \in 0..(next - 1)
      BY <1>0, <1>2 DEF EditRead, world, TypeOK, Tokens
    <2> QED
      BY <1>2, <2>1 DEF EditRead, EditInv, Tokens
  <1>3. CASE EditWrite
    <2>1. CASE edit' = NoEdit /\ UNCHANGED next
      <3>1. 0 \in 0..(next' - 1)
        BY <1>0, <2>1 DEF TypeOK
      <3> QED
        BY <2>1, <3>1 DEF EditInv, NoEdit, NoToken
    <2>2. CASE edit' = [edit EXCEPT !.kind = "clear"] /\ next' = next + 1
      <3>1. 0..(next - 1) \subseteq 0..(next' - 1)
        BY <1>0, <2>2, Issue
      <3> QED
        BY <1>0, <2>2, <3>1 DEF EditInv
    <2> QED
      BY <1>3, <2>1, <2>2 DEF EditWrite, world
  <1>4. CASE ClearAccountError
    <2>1. 0 \in 0..(next' - 1)
      BY <1>0, <1>4 DEF ClearAccountError, world, TypeOK
    <2> QED
      BY <1>4, <2>1 DEF ClearAccountError, EditInv, NoEdit, NoToken
  <1>5. ASSUME NEW c \in Callers, Plain(c) \/ Refresh(c) \/ Recover(c) \/ Persist(c) PROVE EditInv'
    BY <1>1, <1>5, PlainStep, RefreshStep, RecoverStep, PersistStep DEF Rotate
  <1>6. CASE Idle
    BY <1>1, <1>6, IdleStep
  <1>7. ASSUME NEW i \in Instances, Crash(i) PROVE EditInv'
    BY <1>1, <1>7, CrashStep
  <1> QED
    BY <1>2, <1>3, <1>4, <1>5, <1>6, <1>7, Kinds

\* RefreshIfNeeded only returns to the places it names.
LEMMA ReturnStep ==
  ASSUME BaseInv, [Next]_vars PROVE ReturnInv'
  <1>0. ReturnInv
    BY DEF BaseInv
  <1>1. ASSUME NEW c \in Callers, Plain(c) \/ Refresh(c) \/ Recover(c) \/ Persist(c)
        PROVE  ReturnInv'
    <2>1. Others(c) /\ then'[c] \in {"idle", "done", "reject", "failed"}
      BY <1>1, PlainStep, RefreshStep, RecoverStep, PersistStep
    <2> QED
      BY <1>0, <2>1 DEF ReturnInv, Others
  <1>2. CASE EditRead \/ EditWrite \/ ClearAccountError \/ Idle
    BY <1>0, <1>2, OutsideStep DEF ReturnInv, Idle
  <1>3. ASSUME NEW i \in Instances, Crash(i) PROVE ReturnInv'
    BY <1>0, <1>3, CrashStep DEF ReturnInv
  <1> QED
    BY <1>1, <1>2, <1>3, Kinds

\* Answers stay unseen while nobody gets a new one: row, update and reads only
\* take over what some of them held, or a token issued in this step.
LEMMA FreshQuiet ==
  ASSUME BaseInv, UNCHANGED next \/ next' = next + 1,
         creds' \in {creds, edit.creds, next}, edit'.creds \in {NoToken, creds, edit.creds},
         \A d \in Callers :
           /\ pc'[d] = "persist" => pc[d] = "persist" /\ fresh'[d] = fresh[d]
           /\ snap'[d] \in {NoToken, snap[d], creds}
  PROVE  FreshInv'
  <1>1. TypeOK /\ FreshInv /\ Tokens \subseteq Tokens' /\ NoToken \notin Tokens /\ next \notin Tokens
    BY Issue DEF BaseInv, Tokens, NoToken, TypeOK
  <1>2. ASSUME NEW c \in Callers, pc'[c] = "persist"
        PROVE  /\ fresh'[c] \in Tokens' /\ fresh'[c] # creds' /\ fresh'[c] # edit'.creds
               /\ \A d \in Callers : fresh'[c] # snap'[d]
    BY <1>1, <1>2 DEF FreshInv
  <1>3. ASSUME NEW c \in Callers, NEW d \in Callers, pc'[c] = "persist", pc'[d] = "persist", d # c
        PROVE  fresh'[d] # fresh'[c]
    BY <1>1, <1>3 DEF FreshInv
  <1> QED
    BY <1>2, <1>3 DEF FreshInv

\* Every step keeps what waits to be stored unseen.
LEMMA FreshStep ==
  ASSUME BaseInv, [Next]_vars PROVE FreshInv'
  <1>0. TypeOK /\ EditInv /\ FreshInv
    BY DEF BaseInv
  <1>1. ASSUME NEW c \in Callers, Plain(c) PROVE FreshInv'
    BY <1>1, PlainStep, FreshQuiet DEF Others
  <1>2. ASSUME NEW c \in Callers, Recover(c) PROVE FreshInv'
    BY <1>2, RecoverStep, FreshQuiet DEF Others
  <1>3. ASSUME NEW c \in Callers, Refresh(c) PROVE FreshInv'
    <2>1. /\ Others(c) /\ UNCHANGED <<creds, edit>> /\ snap'[c] = snap[c]
          /\ UNCHANGED next \/ next' = next + 1
      BY <1>3, RefreshStep DEF Rotate
    <2>2. CASE pc'[c] # "persist"
      BY <2>1, <2>2, FreshQuiet DEF Others
    <2>3. CASE pc'[c] = "persist"
      <3>1. fresh'[c] = next /\ next' = next + 1
        BY <1>3, <2>3, RefreshStep DEF Rotate
      <3>2. next \in Tokens' /\ next \notin 0..(next - 1) /\ Tokens \subseteq Tokens'
        BY <1>0, <3>1, Issue
      <3>3. /\ creds \in 0..(next - 1) /\ edit.creds \in 0..(next - 1)
            /\ \A d \in Callers : snap[d] \in 0..(next - 1) /\ fresh[d] \in 0..(next - 1)
        BY <1>0 DEF TypeOK, EditInv
      <3>4. \A d \in Callers \ {c} : pc'[d] = pc[d] /\ snap'[d] = snap[d] /\ fresh'[d] = fresh[d]
        BY <2>1 DEF Others
      <3> QED
        BY <1>0, <2>1, <3>1, <3>2, <3>3, <3>4 DEF FreshInv
    <2> QED
      BY <2>2, <2>3
  <1>4. ASSUME NEW c \in Callers, Persist(c) PROVE FreshInv'
    <2>1. /\ \A d \in Callers \ {c} : pc'[d] = pc[d] /\ snap'[d] = snap[d] /\ fresh'[d] = fresh[d]
          /\ UNCHANGED <<edit, next>> /\ pc[c] = "persist" /\ pc'[c] = "release"
          /\ snap'[c] = snap[c] /\ creds' \in {creds, fresh[c]}
      BY <1>4, PersistStep DEF Others
    <2> QED
      BY <1>0, <2>1 DEF FreshInv, Tokens
  <1>5. CASE EditRead \/ EditWrite \/ ClearAccountError
    <2>1. UNCHANGED <<pc, snap, fresh>>
      BY <1>5, OutsideStep
    <2>2. UNCHANGED next \/ next' = next + 1
      BY <1>5 DEF EditRead, EditWrite, ClearAccountError, world
    <2>3. creds' \in {creds, edit.creds, next}
      BY <1>5 DEF EditRead, EditWrite, ClearAccountError, row
    <2>4. edit'.creds \in {NoToken, creds, edit.creds}
      BY <1>0, <1>5 DEF EditRead, EditWrite, ClearAccountError, EditInv, NoEdit
    <2> QED
      BY <2>1, <2>2, <2>3, <2>4, FreshQuiet
  <1>6. CASE Idle
    BY <1>6, IdleStep, FreshQuiet
  <1>7. ASSUME NEW i \in Instances, Crash(i) PROVE FreshInv'
    BY <1>7, CrashStep, FreshQuiet
  <1> QED
    BY <1>1, <1>2, <1>3, <1>4, <1>5, <1>6, <1>7, Kinds

\* Types, update and answers hold in every reachable state.
LEMMA BaseInvariance == Spec => []BaseInv
  <1>1. BaseInv /\ [Next]_vars => BaseInv'
    BY TypeStep, EditStep, FreshStep, ReturnStep DEF BaseInv
  <1> QED
    BY <1>1, BaseInit, PTL DEF Spec

\* The row, the locks, the callers' locals and the update under way keep their
\* types, and no worker makes more than MaxRetries attempts.
THEOREM TypeCorrect == Spec => []TypeOK
  BY BaseInvariance, PTL DEF BaseInv

-----------------------------------------------------------------------------
(* Refreshes against authorizations. *)

\* As long as no edit has brought replaced credentials back, the row holds
\* rightful ones, and so does a caller that is about to replace them.
RightInv ==
  ~restored =>
    /\ creds \in rightful
    /\ \A c \in Callers : pc[c] = "persist" /\ snap[c] = creds => fresh[c] \in rightful

\* Every step keeps it.
LEMMA RightStep ==
  ASSUME BaseInv, RightInv, [Next]_vars PROVE RightInv'
  <1>0. TypeOK /\ EditInv /\ FreshInv
    BY DEF BaseInv
  <1>1. CASE /\ UNCHANGED <<creds, restored>> /\ rightful \subseteq rightful'
             /\ \A d \in Callers : pc'[d] = "persist" =>
                  pc[d] = "persist" /\ snap'[d] = snap[d] /\ fresh'[d] = fresh[d]
    BY <1>1 DEF RightInv
  <1>2. ASSUME NEW c \in Callers, Plain(c) \/ Recover(c) PROVE RightInv'
    BY <1>1, <1>2, PlainStep, RecoverStep DEF Others
  <1>3. ASSUME NEW c \in Callers, Refresh(c) PROVE RightInv'
    <2>1. /\ UNCHANGED <<creds, restored>> /\ snap'[c] = snap[c] /\ rightful \subseteq rightful'
          /\ \A d \in Callers \ {c} : pc'[d] = pc[d] /\ snap'[d] = snap[d] /\ fresh'[d] = fresh[d]
      BY <1>3, RefreshStep DEF Others, Rotate
    <2>2. CASE pc'[c] # "persist"
      BY <1>1, <2>1, <2>2
    <2>3. CASE pc'[c] = "persist"
      <3>1. fresh'[c] = next /\ (snap[c] \in rightful => next \in rightful')
        BY <1>3, <2>3, RefreshStep DEF Rotate
      <3> QED
        BY <2>1, <3>1 DEF RightInv
    <2> QED
      BY <2>2, <2>3
  <1>4. ASSUME NEW c \in Callers, Persist(c) PROVE RightInv'
    <2>1. /\ \A d \in Callers \ {c} : pc'[d] = pc[d] /\ snap'[d] = snap[d] /\ fresh'[d] = fresh[d]
          /\ UNCHANGED restored /\ pc[c] = "persist" /\ pc'[c] = "release"
      BY <1>4, PersistStep DEF Others
    <2>2. CASE UNCHANGED <<creds, rightful>>
      BY <1>1, <2>1, <2>2
    <2>3. CASE creds = snap[c] /\ creds' = fresh[c] /\ rightful' = rightful \ {snap[c]}
      <3>1. fresh[c] # snap[c] /\ \A d \in Callers : snap[d] # fresh[c]
        BY <1>0, <2>1 DEF FreshInv
      <3> QED
        BY <2>1, <2>3, <3>1 DEF RightInv
    <2> QED
      BY <1>4, <2>2, <2>3, PersistStep
  <1>5. CASE EditWrite
    <2>1. UNCHANGED <<pc, snap, fresh>>
      BY <1>5, OutsideStep
    <2>2. CASE edit.kind = "setting"
      BY <1>0, <1>5, <2>1, <2>2 DEF EditWrite, RightInv, TypeOK
    <2>3. CASE edit.kind = "authorization"
      <3>1. creds' = next /\ rightful' = {next} /\ \A d \in Callers : snap[d] # next
        BY <1>0, <1>5, <2>3 DEF EditWrite, TypeOK
      <3> QED
        BY <2>1, <3>1 DEF RightInv
    <2> QED
      BY <1>5, <2>2, <2>3 DEF EditWrite
  <1>6. CASE EditRead \/ ClearAccountError
    BY <1>1, <1>6, OutsideStep DEF EditRead, ClearAccountError, row
  <1>7. CASE Idle
    BY <1>1, <1>7, IdleStep
  <1>8. ASSUME NEW i \in Instances, Crash(i) PROVE RightInv'
    BY <1>1, <1>8, CrashStep
  <1> QED
    BY <1>2, <1>3, <1>4, <1>5, <1>6, <1>7, <1>8, Kinds

\* A refresh never undoes an authorization and never stores over a newer
\* refresh: whatever becomes of the lock, the conditional update alone keeps the
\* row's credentials rightful, up to a lost update of an edit.
THEOREM AuthorizationSafe == Spec => []RefreshKeepsAuthorization
  <1>1. Init => RightInv
    BY DEF Init, RightInv
  <1>2. BaseInv /\ RightInv /\ [Next]_vars => RightInv'
    BY RightStep
  <1>3. RightInv => RefreshKeepsAuthorization
    BY DEF RightInv, RefreshKeepsAuthorization
  <1> QED
    BY <1>1, <1>2, <1>3, BaseInvariance, PTL DEF Spec

-----------------------------------------------------------------------------
(* One refresh at a time. *)

\* As long as no lock call failed and no provider call was late, a caller that
\* will delete the lock is the one that set it, and whoever works under the lock
\* will delete it.
LockInv ==
  ~disturbed =>
    /\ late = {}
    /\ \A c \in locked : lock = c /\ pc[c] \in Critical \cup {"release"}
    /\ \A c \in Callers : pc[c] \in Critical => c \in locked

\* A caller that stays inside, or stays outside, and the locks as they are.
LEMMA LockQuiet ==
  ASSUME TypeOK, LockInv, NEW c \in Callers, UNCHANGED <<lock, locked>>, late' \subseteq late,
         disturbed => disturbed',
         \A d \in Callers \ {c} : pc'[d] = pc[d],
         \/ pc'[c] = pc[c]
         \/ pc[c] \in Critical /\ pc'[c] \in Critical \cup {"release"}
         \/ pc[c] \notin Critical \cup {"release"} /\ pc'[c] \notin Critical
  PROVE  LockInv'
  BY DEF TypeOK, LockInv, Critical

\* Every step keeps it: the lock is deleted without comparing its value, but only
\* by a caller that found it unset.
LEMMA LockStep ==
  ASSUME BaseInv, LockInv, [Next]_vars PROVE LockInv'
  <1>0. TypeOK /\ ReturnInv
    BY DEF BaseInv
  <1>1. ASSUME NEW c \in Callers,
               Begin(c) \/ LocalLock(c) \/ LocalTimeout(c) \/ ReadAccount(c)
        PROVE  LockInv'
    <2>1. Others(c) /\ UNCHANGED <<lock, locked, late, disturbed>>
      BY <1>0, <1>1, OwnLocals DEF Plain, Begin, LocalLock, LocalTimeout, ReadAccount, locks
    <2>2. \/ pc[c] = "read" /\ pc'[c] \in {"call", "release"}
          \/ pc[c] \in {"idle", "local"} /\ pc'[c] \in {"local", "lock", "failed"}
      BY <1>0, <1>1 DEF Begin, LocalLock, LocalTimeout, ReadAccount, Goto, Return, TypeOK
    <2> QED
      BY <1>0, <2>1, <2>2, LockQuiet DEF Others, Critical
  <1>2. ASSUME NEW c \in Callers, AcquireRefreshLock(c) PROVE LockInv'
    <2>0. Others(c) /\ pc[c] = "lock" /\ UNCHANGED late
      BY <1>0, <1>2, OwnLocals DEF Plain, AcquireRefreshLock
    <2>1. CASE disturbed'
      BY <2>1 DEF LockInv
    <2>2. CASE lock = Nobody /\ lock' = c /\ locked' = locked \cup {c} /\ pc'[c] = "read"
               /\ UNCHANGED disturbed
      <3>1. ~disturbed => locked = {}
        BY <1>0, <2>2, CallersAssumption DEF LockInv, TypeOK
      <3> QED
        BY <2>0, <2>2, <3>1 DEF LockInv, Others, Critical
    <2>3. CASE pc'[c] = "release" /\ UNCHANGED <<lock, locked, disturbed>>
      BY <1>0, <2>0, <2>3, LockQuiet DEF Others, Critical
    <2> QED
      BY <1>0, <1>2, <2>1, <2>2, <2>3 DEF AcquireRefreshLock, Goto, Return, TypeOK
  <1>3. ASSUME NEW c \in Callers, Refresh(c) \/ Recover(c) \/ Persist(c) PROVE LockInv'
    <2>1. Others(c) /\ pc[c] \in Critical /\ pc'[c] \in Critical \cup {"release"}
      BY <1>3, RefreshStep, RecoverStep, PersistStep DEF BaseInv, Critical
    <2>2. UNCHANGED <<lock, locked, disturbed>> /\ late' \subseteq late
      BY <1>3 DEF Refresh, Recover, Persist, locks
    <2> QED
      BY <1>0, <2>1, <2>2, LockQuiet DEF Others
  <1>4. ASSUME NEW c \in Callers, Overrun(c) PROVE LockInv'
    BY <1>4 DEF Overrun, LockInv
  <1>5. ASSUME NEW c \in Callers, Release(c) PROVE LockInv'
    <2>1. Others(c) /\ pc[c] = "release" /\ locked' = locked \ {c} /\ UNCHANGED <<late, disturbed>>
      BY <1>0, <1>5, OwnLocals DEF Plain, Release
    <2>2. pc'[c] \notin Critical
      BY <1>0, <1>5 DEF Release, Finish, Goto, TypeOK, ReturnInv, Critical
    <2>3. lock' = lock \/ lock = c \/ c \in locked
      BY <1>5 DEF Release, AbandonedBy, DeletesLock
    <2>4. ~disturbed => \A d \in locked' : lock' = lock
      BY <2>1, <2>3 DEF LockInv
    <2> QED
      BY <1>0, <2>1, <2>2, <2>4 DEF LockInv, Others, TypeOK
  <1>6. ASSUME NEW c \in Callers, PostRefresh(c) \/ SetRefreshError(c) \/ AttemptFailed(c)
        PROVE  LockInv'
    <2>1. Others(c) /\ UNCHANGED <<lock, locked, late, disturbed>>
      BY <1>0, <1>6, OwnLocals DEF Plain, PostRefresh, SetRefreshError, AttemptFailed, locks
    <2>2. pc[c] \in {"done", "reject", "failed"} /\ pc'[c] \in {"idle", "over", "local"}
      BY <1>0, <1>6 DEF PostRefresh, SetRefreshError, AttemptFailed, Finish, Goto, TypeOK
    <2> QED
      BY <1>0, <2>1, <2>2, LockQuiet DEF Others, Critical
  <1>7. CASE EditRead \/ EditWrite \/ ClearAccountError \/ Age \/ CooldownEnds \/ UNCHANGED vars
    <2>1. UNCHANGED <<pc, late, disturbed, locked>>
      BY <1>7, OutsideStep
    <2>2. UNCHANGED lock
      BY <1>7 DEF EditRead, EditWrite, ClearAccountError, Age, CooldownEnds, vars, locks
    <2> QED
      BY <2>1, <2>2 DEF LockInv
  <1>8. CASE LockExpires
    <2>1. UNCHANGED <<pc, late, disturbed, locked>>
      BY <1>8, OutsideStep
    <2>2. ~disturbed => locked = {}
      BY <1>0, <1>8, CallersAssumption DEF LockExpires, Lapses, LockInv, TypeOK
    <2> QED
      BY <2>1, <2>2 DEF LockInv
  <1>9. ASSUME NEW i \in Instances, Crash(i) PROVE LockInv'
    <2>1. /\ locked' = {c \in locked : InstanceOf[c] # i} /\ late' \subseteq late
          /\ lock' = lock \/ (lock \in Callers /\ InstanceOf[lock] = i)
      BY <1>0, <1>9 DEF Crash, AbandonedBy, TypeOK
    <2> QED
      BY <1>0, <1>9, <2>1, CrashStep DEF LockInv, Critical, TypeOK
  <1> QED
    BY <1>1, <1>2, <1>3, <1>4, <1>5, <1>6, <1>7, <1>8, <1>9 DEF Next, Step

\* The lock's invariant holds in every reachable state.
LEMMA LockInvariance == Spec => [](BaseInv /\ LockInv)
  <1>1. Init => LockInv
    BY DEF Init, LockInv, Critical
  <1>2. BaseInv /\ LockInv /\ [Next]_vars => LockInv'
    BY LockStep
  <1> QED
    BY <1>1, <1>2, BaseInvariance, PTL DEF Spec

\* Of two callers that work under the lock each one set it.
LEMMA Alone == LockInv => OneRefreshAtATime
  BY DEF LockInv, OneRefreshAtATime, Critical

\* Two callers never use the refresh token at the same time, unless a lock call
\* failed or a provider call outlasted the lease: crashes, failed releases and
\* expired leases do not matter.
THEOREM RefreshSafe == Spec => []OneRefreshAtATime
  BY LockInvariance, Alone, PTL

-----------------------------------------------------------------------------
(* Quarantine. *)

\* A token that was refused is not accepted later.
DeadInv ==
  \A c \in Callers :
    /\ pc[c] = "invalid" => snap[c] \notin live
    /\ Rejecting(c) => acct[c] \notin live

\* As long as the lock works: a caller with an answer for the row's credentials
\* has no rival that rejects them, so the account is active; an inactive account
\* with an accepted token is being authorized and nobody has read that token; and
\* an update that read an inactive account read refused credentials.
RejectInv ==
  ~disturbed =>
    /\ \A c, d \in Callers : pc[c] = "persist" /\ Rejecting(d) => acct[d] # snap[c]
    /\ \A c \in Callers : pc[c] = "persist" /\ snap[c] = creds => active
    /\ ~active /\ creds \in live => edit.kind = "clear" /\ \A c \in Callers : snap[c] # creds
    /\ edit.kind = "setting" /\ ~edit.active =>
         edit.creds \notin live /\ \A c \in Callers : pc[c] = "persist" => snap[c] # edit.creds

\* The provider accepts new tokens only.
LEMMA LiveStep ==
  ASSUME BaseInv, [Next]_vars PROVE live' \subseteq live \cup {next}
  <1>1. ASSUME NEW c \in Callers, Plain(c) \/ Refresh(c) \/ Recover(c) \/ Persist(c)
        PROVE  live' \subseteq live \cup {next}
    BY <1>1, PlainStep, RefreshStep, RecoverStep, PersistStep DEF Rotate
  <1>2. CASE EditRead \/ EditWrite \/ ClearAccountError
    BY <1>2 DEF EditRead, EditWrite, ClearAccountError, world
  <1>3. CASE Idle
    BY <1>3, IdleStep
  <1>4. ASSUME NEW i \in Instances, Crash(i) PROVE live' \subseteq live \cup {next}
    BY <1>4, CrashStep
  <1> QED
    BY <1>1, <1>2, <1>3, <1>4, Kinds

\* A refused token stays refused.
LEMMA DeadStep ==
  ASSUME BaseInv, DeadInv, [Next]_vars PROVE DeadInv'
  <1>0. /\ live' \subseteq live \cup {next}
        /\ \A c \in Callers : snap[c] # next /\ acct[c] # next
    BY LiveStep DEF BaseInv, TypeOK
  <1>1. CASE \A d \in Callers :
               /\ pc'[d] = "invalid" => pc[d] = "invalid" /\ snap'[d] = snap[d]
               /\ Rejecting(d)' => Rejecting(d) /\ acct'[d] = acct[d]
    BY <1>0, <1>1 DEF DeadInv
  <1>2. ASSUME NEW c \in Callers, Others(c)
        PROVE  \A d \in Callers \ {c} : /\ pc'[d] = pc[d] /\ snap'[d] = snap[d]
                                        /\ acct'[d] = acct[d] /\ Rejecting(d)' = Rejecting(d)
    BY <1>2 DEF Others, Rejecting
  <1>3. ASSUME NEW c \in Callers, Plain(c) \/ Persist(c) PROVE DeadInv'
    <2>1. Others(c) /\ pc'[c] # "invalid" /\ (Rejecting(c)' => Rejecting(c) /\ acct'[c] = acct[c])
      BY <1>3, PlainStep, PersistStep DEF Rejecting
    <2> QED
      BY <1>1, <1>2, <2>1
  <1>4. ASSUME NEW c \in Callers, Refresh(c) PROVE DeadInv'
    <2>1. /\ Others(c) /\ ~Rejecting(c)' /\ snap'[c] = snap[c]
          /\ pc'[c] = "invalid" => snap[c] \notin live'
      BY <1>4, RefreshStep
    <2> QED
      BY <1>0, <1>2, <2>1 DEF DeadInv
  <1>5. ASSUME NEW c \in Callers, Recover(c) PROVE DeadInv'
    <2>1. /\ Others(c) /\ pc'[c] # "invalid" /\ snap[c] \notin live
          /\ Rejecting(c)' => acct'[c] = snap[c]
      BY <1>5, RecoverStep DEF DeadInv
    <2> QED
      BY <1>0, <1>2, <2>1 DEF DeadInv
  <1>6. CASE EditRead \/ EditWrite \/ ClearAccountError \/ Idle
    BY <1>1, <1>6, OutsideStep DEF Idle, Rejecting
  <1>7. ASSUME NEW i \in Instances, Crash(i) PROVE DeadInv'
    BY <1>1, <1>7, CrashStep DEF Rejecting
  <1> QED
    BY <1>3, <1>4, <1>5, <1>6, <1>7, Kinds

\* A disturbance is not forgotten.
LEMMA DisturbedStep ==
  ASSUME [Next]_vars PROVE disturbed => disturbed'
  BY DEF Next, Step, Begin, LocalLock, LocalTimeout, AcquireRefreshLock, ReadAccount, Refresh, Overrun,
     Recover, Persist, Release, PostRefresh, SetRefreshError, AttemptFailed, EditRead, EditWrite,
     ClearAccountError, Age, CooldownEnds, LockExpires, Crash, vars

\* Every step keeps it.
LEMMA RejectStep ==
  ASSUME BaseInv, LockInv, DeadInv, RejectInv, [Next]_vars PROVE RejectInv'
  <1> SUFFICES ASSUME ~disturbed' PROVE RejectInv'
    BY DEF RejectInv
  <1>0. TypeOK /\ EditInv /\ FreshInv /\ ~disturbed
    BY DisturbedStep DEF BaseInv
  <1>a. /\ \A c, d \in Callers : pc[c] = "persist" /\ Rejecting(d) => acct[d] # snap[c]
        /\ \A c \in Callers : pc[c] = "persist" /\ snap[c] = creds => active
        /\ ~active /\ creds \in live => edit.kind = "clear" /\ \A c \in Callers : snap[c] # creds
        /\ edit.kind = "setting" /\ ~edit.active =>
             edit.creds \notin live /\ \A c \in Callers : pc[c] = "persist" => snap[c] # edit.creds
    BY <1>0 DEF RejectInv
  <1>b. /\ creds \in Tokens /\ creds # NoToken /\ next # creds /\ next # edit.creds
        /\ \A c \in Callers : next # snap[c] /\ next # acct[c]
    BY <1>0 DEF TypeOK, EditInv, NoToken, Tokens
  <1>c. ASSUME NEW c \in Callers, Others(c)
        PROVE  \A d \in Callers \ {c} : /\ pc'[d] = pc[d] /\ snap'[d] = snap[d]
                                        /\ acct'[d] = acct[d] /\ Rejecting(d)' = Rejecting(d)
    BY <1>c DEF Others, Rejecting
  <1>1. CASE /\ UNCHANGED <<creds, active, edit, live>>
             /\ \A d \in Callers :
                  /\ pc'[d] = "persist" => pc[d] = "persist" /\ snap'[d] = snap[d]
                  /\ snap'[d] \in {NoToken, snap[d]}
                  /\ Rejecting(d)' => Rejecting(d) /\ acct'[d] = acct[d]
    BY <1>1, <1>a, <1>b DEF RejectInv
  <1>2. ASSUME NEW c \in Callers, Plain(c) PROVE RejectInv'
    <2>1. /\ Others(c) /\ UNCHANGED <<creds, edit, live>> /\ pc'[c] # "persist"
          /\ Rejecting(c)' => Rejecting(c) /\ acct'[c] = acct[c]
          /\ snap'[c] \in {NoToken, snap[c]} \/ (active /\ snap'[c] = creds)
          /\ active' = active \/ (pc[c] = "reject" /\ acct[c] = creds)
      BY <1>2, PlainStep
    <2>2. \A d \in Callers : pc'[d] = "persist" => pc[d] = "persist" /\ snap'[d] = snap[d]
      BY <1>c, <2>1
    <2>3. \A d \in Callers : Rejecting(d)' => Rejecting(d) /\ acct'[d] = acct[d]
      BY <1>c, <2>1
    <2>4. CASE UNCHANGED active
      <3>1. ~active => \A d \in Callers : snap'[d] \in {NoToken, snap[d]}
        BY <1>c, <2>1
      <3> QED
        BY <1>a, <1>b, <2>1, <2>2, <2>3, <2>4, <3>1 DEF RejectInv
    <2>5. CASE pc[c] = "reject" /\ acct[c] = creds
      <3>1. creds \notin live /\ \A d \in Callers : pc[d] = "persist" => snap[d] # creds
        BY <1>a, <2>5 DEF DeadInv, Rejecting
      <3> QED
        BY <1>a, <2>1, <2>2, <2>3, <3>1 DEF RejectInv
    <2> QED
      BY <2>1, <2>4, <2>5
  <1>3. ASSUME NEW c \in Callers, Refresh(c) PROVE RejectInv'
    <2>1. /\ Others(c) /\ UNCHANGED <<creds, active, edit>> /\ snap'[c] = snap[c] /\ ~Rejecting(c)'
          /\ pc'[c] = "persist" => snap[c] \in live
          /\ live' \subseteq live \cup {next}
      BY <1>3, RefreshStep, LiveStep DEF Rotate
    <2>2. \A d \in Callers : snap'[d] = snap[d]
      BY <1>c, <2>1
    <2>3. \A d \in Callers : Rejecting(d)' => Rejecting(d) /\ acct'[d] = acct[d]
      BY <1>c, <2>1
    <2>4. \A d \in Callers : pc'[d] = "persist" => pc[d] = "persist" \/ snap[d] \in live
      BY <1>c, <2>1
    <2>5. \A d \in Callers : Rejecting(d) => acct[d] \notin live
      BY DEF DeadInv
    <2>6. \A d \in Callers : pc'[d] = "persist" /\ snap'[d] = creds => active
      BY <1>a, <2>2, <2>4
    <2>7. \A d, e \in Callers : pc'[d] = "persist" /\ Rejecting(e)' => acct'[e] # snap'[d]
      BY <1>a, <2>2, <2>3, <2>4, <2>5
    <2>8. edit.kind = "setting" /\ ~edit.active =>
            /\ edit.creds \notin live'
            /\ \A d \in Callers : pc'[d] = "persist" => snap'[d] # edit.creds
      BY <1>a, <1>b, <2>1, <2>2, <2>4
    <2>9. ~active /\ creds \in live' => edit.kind = "clear" /\ \A d \in Callers : snap'[d] # creds
      BY <1>a, <1>b, <2>1, <2>2
    <2> QED
      BY <2>1, <2>6, <2>7, <2>8, <2>9 DEF RejectInv
  <1>4. ASSUME NEW c \in Callers, Recover(c) PROVE RejectInv'
    <2>1. /\ Others(c) /\ UNCHANGED <<creds, active, edit, live>> /\ snap'[c] = snap[c]
          /\ pc[c] = "invalid" /\ pc'[c] = "release"
      BY <1>4, RecoverStep
    <2>2. \A d \in Callers : pc[d] # "persist"
      BY <1>0, <2>1, Alone DEF OneRefreshAtATime
    <2>3. \A d \in Callers : pc'[d] # "persist" /\ snap'[d] = snap[d]
      BY <1>c, <2>1, <2>2
    <2> QED
      BY <1>a, <2>1, <2>3 DEF RejectInv
  <1>5. ASSUME NEW c \in Callers, Persist(c) PROVE RejectInv'
    <2>1. /\ Others(c) /\ UNCHANGED <<active, edit, live>> /\ snap'[c] = snap[c]
          /\ pc[c] = "persist" /\ pc'[c] = "release" /\ ~Rejecting(c)'
          /\ (creds = snap[c] /\ creds' = fresh[c]) \/ UNCHANGED creds
      BY <1>5, PersistStep DEF Rejecting
    <2>2. CASE UNCHANGED creds
      BY <1>1, <1>c, <2>1, <2>2
    <2>3. CASE creds = snap[c] /\ creds' = fresh[c]
      <3>1. active /\ \A d \in Callers : snap[d] # fresh[c]
        BY <1>0, <1>a, <2>1, <2>3 DEF FreshInv
      <3>2. \A d \in Callers : /\ pc'[d] = "persist" => pc[d] = "persist"
                               /\ snap'[d] = snap[d]
                               /\ Rejecting(d)' => Rejecting(d) /\ acct'[d] = acct[d]
        BY <1>c, <2>1
      <3> QED
        BY <1>a, <2>1, <2>3, <3>1, <3>2 DEF RejectInv
    <2> QED
      BY <2>1, <2>2, <2>3
  <1>6. CASE EditRead
    <2>1. /\ UNCHANGED <<pc, then, acct, snap, creds, active, live>> /\ edit = NoEdit
          /\ edit'.kind # "clear" /\ edit'.creds = creds /\ edit'.active = active
      BY <1>6, OutsideStep DEF EditRead, row, world
    <2>2. \A d \in Callers : Rejecting(d)' = Rejecting(d)
      BY <2>1 DEF Rejecting
    <2>3. ~active => creds \notin live
      BY <1>a, <2>1 DEF NoEdit
    <2> QED
      BY <1>a, <2>1, <2>2, <2>3 DEF RejectInv
  <1>7. CASE EditWrite
    <2>1. UNCHANGED <<pc, then, acct, snap>> /\ active' = edit.active
      BY <1>7, OutsideStep DEF EditWrite
    <2>2. \A d \in Callers : Rejecting(d)' = Rejecting(d)
      BY <2>1 DEF Rejecting
    <2>3. CASE edit.kind = "setting"
      <3>1. creds' = edit.creds /\ UNCHANGED live /\ edit'.kind = "none"
        BY <1>7, <2>3 DEF EditWrite, world, NoEdit
      <3> QED
        BY <1>a, <2>1, <2>2, <2>3, <3>1 DEF RejectInv
    <2>4. CASE edit.kind = "authorization"
      <3>1. creds' = next /\ edit'.kind = "clear"
        BY <1>0, <1>7, <2>4 DEF EditWrite, EditInv
      <3> QED
        BY <1>a, <1>b, <2>1, <2>2, <3>1 DEF RejectInv
    <2> QED
      BY <1>7, <2>3, <2>4 DEF EditWrite
  <1>8. CASE ClearAccountError
    <2>1. UNCHANGED <<pc, then, acct, snap>> /\ active' = TRUE /\ edit'.kind = "none"
      BY <1>8, OutsideStep DEF ClearAccountError, NoEdit
    <2>2. \A d \in Callers : Rejecting(d)' = Rejecting(d)
      BY <2>1 DEF Rejecting
    <2> QED
      BY <1>a, <2>1, <2>2 DEF RejectInv
  <1>9. CASE Idle
    BY <1>1, <1>9, IdleStep DEF Rejecting
  <1>10. ASSUME NEW i \in Instances, Crash(i) PROVE RejectInv'
    BY <1>1, <1>10, CrashStep DEF Rejecting
  <1> QED
    BY <1>2, <1>3, <1>4, <1>5, <1>6, <1>7, <1>8, <1>9, <1>10, Kinds

\* The account is put into error only for credentials the provider has stopped
\* accepting: a rejection that a concurrent refresh or authorization has
\* overtaken does not reach the row, unless the lock failed.
THEOREM QuarantineSafe == Spec => []QuarantineIsDeserved
  <1>1. Init => DeadInv /\ RejectInv
    BY DEF Init, DeadInv, RejectInv, Rejecting, NoEdit
  <1>2. BaseInv /\ LockInv /\ DeadInv /\ RejectInv /\ [Next]_vars => (DeadInv /\ RejectInv)'
    BY DeadStep, RejectStep
  <1>3. RejectInv => QuarantineIsDeserved
    BY DEF RejectInv, QuarantineIsDeserved
  <1> QED
    BY <1>1, <1>2, <1>3, LockInvariance, PTL DEF Spec
=============================================================================
