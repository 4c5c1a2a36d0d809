--------------------- MODULE ThreadRunCoordinator_proof ---------------------
(***************************************************************************)
(* Theorems of ThreadRunCoordinator for any sets of threads, requests and  *)
(* mutators and any number of crashes.                                     *)
(***************************************************************************)
EXTENDS ThreadRunCoordinator, TLAPS

USE ActorsAssumption, KindsAssumption, MaxCrashesAssumption

LEMMA InitTypeOK == Init => TypeOK
  BY DEF Init, TypeOK, PCs, States, Stable, Owned, Actors

LEMMA GotoType ==
  ASSUME TypeOK, NEW a \in Actors, NEW l \in PCs, Goto(a, l)
  PROVE  pc' \in [Actors -> PCs]
  BY DEF TypeOK, Goto

LEMMA InstallType ==
  ASSUME TypeOK, NEW t \in Threads, NEW s \in States, Install(t, s)
  PROVE  state' \in [Threads -> States] /\ epoch' \in [Threads -> Nat] /\ nonce' \in Nat
  BY DEF NextNonce, TypeOK, Install

LEMMA EvictType ==
  ASSUME TypeOK, NEW t \in Threads, Evict(t)
  PROVE  state' \in [Threads -> States] /\ epoch' \in [Threads -> Nat]
  BY DEF TypeOK, Evict, States

LEMMA NotifyType ==
  ASSUME TypeOK, NotifyWaiters
  PROVE  signalled' \in [Mutators -> BOOLEAN]
  BY DEF TypeOK, NotifyWaiters

LEMMA StatesAndPCs ==
    /\ Stable \subseteq States /\ Owned \subseteq States
    /\ Stable \cap Owned = {}
    /\ {"absent", "uncalibrated"} \subseteq States \ (Stable \cup Owned)
    /\ {"idle", "calib", "read", "install", "reserve", "done", "lookup", "leased",
        "checked", "admitted", "active", "running", "dropping", "drain", "arm",
        "check", "wait", "tx", "created", "settle"} = PCs
  BY DEF States, Stable, Owned, PCs, Holding, Reserved, Draining

\* What a lifecycle operation may commit, per durable case.
Verdicts == [settles : Stable, tombstone : Stable \cup {"keep"}, drops : BOOLEAN]

LEMMA VerdictsType ==
  ASSUME NEW op, NEW exists \in BOOLEAN, NEW term \in Stable, NEW reserved
  PROVE  LifecycleVerdicts(op, exists, term, reserved) \subseteq Verdicts
<1>1. /\ Verdict(term, "keep", FALSE) \in Verdicts
      /\ Verdict("deleted", "deleted", TRUE) \in Verdicts
      /\ Verdict("archived", "archived", exists) \in Verdicts
  BY DEF Verdict, Verdicts, Stable
<1> QED BY <1>1 DEF LifecycleVerdicts

LEMMA CommitType ==
  ASSUME TypeOK, NEW t \in Threads, NEW v \in Verdicts, Commit(t, v)
  PROVE  terminal' \in [Threads -> Stable] /\ record' \in [Threads -> BOOLEAN]
  BY DEF TypeOK, Verdicts, Commit

\* TypeOK is inductive, one step per action.
LEMMA StepTypeOK == TypeOK /\ [Next]_vars => TypeOK'
<1> SUFFICES ASSUME TypeOK, [Next]_vars PROVE TypeOK'
    OBVIOUS
<1>a. Requests \subseteq Actors /\ Mutators \subseteq Actors
    BY DEF Actors
<1> USE DEF durable, entries, calib, lease, resv, const
<1>1. ASSUME NEW a \in Actors, Start(a) PROVE TypeOK'
    BY <1>1, GotoType, StatesAndPCs DEF Start, TypeOK
<1>2. ASSUME NEW a \in Actors, CalibStep(a) PROVE TypeOK'
  <2>1. CASE Calibrated(a)
    BY <2>1, GotoType, StatesAndPCs DEF Calibrated, TypeOK
  <2>2. CASE CalibBegin(a)
    <3>t. thread[a] \in Threads
      BY DEF TypeOK
    <3>1. state' \in [Threads -> States] /\ epoch' \in [Threads -> Nat] /\ nonce' \in Nat
      BY <2>2, <3>t, InstallType, StatesAndPCs DEF CalibBegin, TypeOK
    <3>2. pc' \in [Actors -> PCs]
      BY <2>2, GotoType, StatesAndPCs DEF CalibBegin
    <3>3. pending' \in [Threads -> SUBSET Actors] /\ seenEpoch' \in [Actors -> Nat]
      BY <2>2, <3>1, <3>t DEF CalibBegin, TypeOK
    <3> QED BY <2>2, <3>1, <3>2, <3>3 DEF CalibBegin, TypeOK
  <2>3. CASE CalibRead(a)
    <3>1. thread[a] \in Threads /\ terminal[thread[a]] \in Stable
      BY DEF TypeOK
    <3>2. seenTerminal' \in [Actors -> Stable \cup {"error"}]
      BY <2>3, <3>1 DEF CalibRead, TypeOK
    <3>3. pc' \in [Actors -> PCs]
      BY <2>3, GotoType, StatesAndPCs DEF CalibRead
    <3> QED BY <2>3, <3>2, <3>3 DEF CalibRead, TypeOK
  <2>4. CASE CalibInstall(a)
    <3>t. thread[a] \in Threads /\ seenTerminal[a] \in Stable \cup {"error"}
      BY DEF TypeOK
    <3>1. state' \in [Threads -> States] /\ epoch' \in [Threads -> Nat] /\ nonce' \in Nat
      BY <2>4, <3>t, InstallType, EvictType, StatesAndPCs
         DEF AfterRead, CalibInstall, TypeOK, ReadFits
    <3>2. pc' \in [Actors -> PCs]
      BY <2>4, GotoType, StatesAndPCs DEF AfterRead, CalibInstall
    <3>3. pending' \in [Threads -> SUBSET Actors]
      BY <2>4 DEF AfterRead, CalibInstall, TypeOK
    <3>4. signalled' \in [Mutators -> BOOLEAN]
      BY <2>4, NotifyType DEF AfterRead, CalibInstall
    <3> QED BY <2>4, <3>1, <3>2, <3>3, <3>4 DEF AfterRead, CalibInstall, TypeOK
  <2> QED BY <1>2, <2>1, <2>2, <2>3, <2>4 DEF CalibStep
<1>3. ASSUME NEW r \in Requests, RequestStep(r) \/ Abandon(r) \/ RunEnds(r)
      PROVE  TypeOK'
  <2>t. thread[r] \in Threads
    BY <1>a DEF TypeOK
  <2>1. CASE ReserveRequest(r)
    <3>1. pc' \in [Actors -> PCs]
      BY <2>1, <1>a, GotoType, StatesAndPCs DEF ReserveRequest
    <3>2. /\ leases' \in {leases, [leases EXCEPT ![thread[r]] = @ \cup {r}]}
          /\ valid' \in {valid, [valid EXCEPT ![r] = TRUE]}
      BY <2>1 DEF ReserveRequest
    <3>4. leases' \in [Threads -> SUBSET Requests]
      <4>1. leases \in [Threads -> SUBSET Requests]
        BY DEF TypeOK
      <4>2. [leases EXCEPT ![thread[r]] = @ \cup {r}] \in [Threads -> SUBSET Requests]
        BY <2>t, <4>1
      <4> QED BY <3>2, <4>1, <4>2
    <3>5. valid' \in [Requests -> BOOLEAN]
      BY <3>2 DEF TypeOK
    <3>3. UNCHANGED <<durable, state, epoch, owner, pending, nonce, const, calib,
                      active, resv, signalled, crashes>>
      BY <2>1 DEF ReserveRequest
    <3> QED BY <3>1, <3>3, <3>4, <3>5 DEF TypeOK
  <2>2. CASE CheckRecord(r) \/ EnsureValid(r) \/ Publish(r) \/ Abandon(r) \/ RunEnds(r)
    BY <2>2, <1>a, GotoType, StatesAndPCs
       DEF CheckRecord, EnsureValid, Publish, Abandon, RunEnds, TypeOK
  <2>3. CASE Promote(r)
    BY <2>3, <1>a, GotoType, StatesAndPCs DEF Promote, TypeOK
  <2>4. CASE ReleaseLease(r)
    <3>1. pc' \in [Actors -> PCs]
      BY <2>4, <1>a, GotoType, StatesAndPCs DEF RemoveLease, ReleaseLease
    <3>2. state' \in [Threads -> States] /\ epoch' \in [Threads -> Nat]
      <4>1. CASE Evict(thread[r])
        BY <4>1, <2>t, EvictType
      <4>2. CASE UNCHANGED <<state, epoch>>
        BY <4>2 DEF TypeOK
      <4>3. Evict(thread[r]) \/ UNCHANGED <<state, epoch>>
        BY <2>4 DEF RemoveLease, ReleaseLease
      <4> QED BY <4>1, <4>2, <4>3
    <3>3. signalled' \in [Mutators -> BOOLEAN]
      BY <2>4, NotifyType DEF RemoveLease, ReleaseLease
    <3> QED BY <2>4, <3>1, <3>2, <3>3 DEF RemoveLease, ReleaseLease, TypeOK
  <2> QED BY <1>2, <1>3, <1>a, <2>1, <2>2, <2>3, <2>4 DEF RequestStep
<1>4. ASSUME NEW m \in Mutators, MutatorStep(m) \/ AbortOwner(m) \/ CancelStoreDelete(m)
      PROVE  TypeOK'
  <2>t. thread[m] \in Threads /\ kind[m] \in Kinds /\ m \in Actors
    BY <1>a DEF TypeOK
  <2>r. ASSUME NEW s \in Owned, CanReserve(m), InstallReservation(m, s),
               NEW l \in PCs, Goto(m, l),
               valid' \in [Requests -> BOOLEAN], signalled' \in [Mutators -> BOOLEAN]
        PROVE  TypeOK'
    <3>1. state' \in [Threads -> States] /\ epoch' \in [Threads -> Nat] /\ nonce' \in Nat
      BY <2>r, <2>t, InstallType, StatesAndPCs DEF NextNonce, InstallReservation
    <3>2. pc' \in [Actors -> PCs]
      BY <2>r, <2>t, GotoType
    <3>3. state[thread[m]] \in Stable
      BY <2>r DEF CanReserve
    <3>4. /\ token' \in [Mutators -> [epoch : Nat, state : Owned]]
          /\ prior' \in [Mutators -> Stable] /\ target' \in [Mutators -> Stable]
          /\ cancelled' \in [Mutators -> BOOLEAN]
      BY <2>r, <3>3 DEF NextNonce, InstallReservation, TypeOK
    <3>5. owner' \in [Threads -> Mutators \cup {NoOwner}] /\ pending' \in [Threads -> SUBSET Actors]
      BY <2>r, <2>t DEF NextNonce, InstallReservation, TypeOK
    <3> QED BY <2>r, <3>1, <3>2, <3>4, <3>5 DEF NextNonce, InstallReservation, TypeOK
  <2>o. {"deciding", "archiving", "deleting"} = Owned
    BY DEF Owned
  <2>v. ASSUME InvalidateLeases(thread[m]) PROVE valid' \in [Requests -> BOOLEAN]
    BY <2>v DEF InvalidateLeases, TypeOK
  <2>1. CASE ReserveArchive(m)
    BY <2>1, <2>r, <2>o, <2>v, NotifyType, StatesAndPCs DEF ReserveArchive, TypeOK
  <2>2. CASE ReserveDecision(m)
    BY <2>2, <2>r, <2>o, StatesAndPCs DEF ReserveDecision, TypeOK
  <2>3. CASE ReserveDelete(m)
    BY <2>3, <2>r, <2>o, <2>v, NotifyType, StatesAndPCs DEF ReserveDelete
  <2>4. CASE ReserveCreation(m)
    BY <2>4, <2>r, <2>o, StatesAndPCs DEF ReserveCreation, TypeOK
  <2>5. CASE LookupRecord(m) \/ ReserveUnavailable(m) \/ TransactionFails(m) \/ CreationSettles(m)
    BY <2>5, <2>t, GotoType, StatesAndPCs
       DEF LookupRecord, ReserveUnavailable, TransactionFails, CreationSettles, TypeOK
  <2>6. CASE DrainStep(m)
    <3>1. ASSUME NEW r \in Requests, DrainAbort(m, r) PROVE TypeOK'
      BY <3>1, <1>a, GotoType, StatesAndPCs DEF DrainAbort, TypeOK
    <3>2. CASE DrainAborted(m) \/ DrainCheck(m) \/ DrainWait(m)
      BY <3>2, <2>t, GotoType, StatesAndPCs DEF DrainAborted, DrainCheck, DrainWait, TypeOK
    <3>3. CASE DrainArm(m)
      BY <3>3, <2>t, GotoType, StatesAndPCs DEF DrainArm, TypeOK
    <3> QED BY <2>6, <3>1, <3>2, <3>3 DEF DrainStep
  <2>7. CASE LifecycleTransaction(m)
    <3>1. PICK v \in LifecycleVerdicts(Operation(m), record[thread[m]], terminal[thread[m]],
                                       token[m].state)
                     \cup {Verdict(terminal[thread[m]], "keep", FALSE)} :
             Commit(thread[m], v) /\ target' = [target EXCEPT ![m] = v.settles]
      BY <2>7 DEF LifecycleTransaction
    <3>2. record[thread[m]] \in BOOLEAN /\ terminal[thread[m]] \in Stable
      BY <2>t DEF TypeOK
    <3>3. Verdict(terminal[thread[m]], "keep", FALSE) \in Verdicts
      BY <3>2 DEF Verdict, Verdicts
    <3>4. v \in Verdicts
      BY <3>1, <3>2, <3>3, VerdictsType
    <3>5. terminal' \in [Threads -> Stable] /\ record' \in [Threads -> BOOLEAN]
      BY <3>1, <3>4, <2>t, CommitType
    <3>6. target' \in [Mutators -> Stable]
      BY <3>1, <3>4 DEF TypeOK, Verdicts
    <3>7. pc' \in [Actors -> PCs]
      BY <2>7, <2>t, GotoType, StatesAndPCs DEF LifecycleTransaction
    <3> QED BY <2>7, <3>5, <3>6, <3>7 DEF LifecycleTransaction, TypeOK
  <2>8. CASE StoreDeleteTransaction(m)
    <3>1. PICK v \in Verdicts : Commit(thread[m], v)
      BY <2>8 DEF StoreDeleteTransaction, Verdict, Verdicts, Stable
    <3>2. terminal' \in [Threads -> Stable] /\ record' \in [Threads -> BOOLEAN]
      BY <3>1, <2>t, CommitType
    <3>3. target' \in [Mutators -> Stable]
      BY <2>8 DEF StoreDeleteTransaction, TypeOK, Stable
    <3>4. pc' \in [Actors -> PCs]
      BY <2>8, <2>t, GotoType, StatesAndPCs DEF StoreDeleteTransaction
    <3> QED BY <2>8, <3>2, <3>3, <3>4 DEF StoreDeleteTransaction, TypeOK
  <2>9. CASE CreateTransaction(m)
    BY <2>9, <2>t, GotoType, StatesAndPCs DEF CreateTransaction, TypeOK
  <2>10. CASE SettleReservation(m)
    <3>1. target[m] \in States
      BY StatesAndPCs DEF TypeOK
    <3>2. state' \in [Threads -> States] /\ epoch' \in [Threads -> Nat] /\ nonce' \in Nat
      BY <2>10, <2>t, <3>1, InstallType, EvictType DEF SettleReservation, TypeOK
    <3>3. pc' \in [Actors -> PCs]
      BY <2>10, <2>t, GotoType, StatesAndPCs DEF SettleReservation
    <3>4. signalled' \in [Mutators -> BOOLEAN]
      BY <2>10, NotifyType DEF SettleReservation
    <3>5. owner' \in [Threads -> Mutators \cup {NoOwner}] /\ pending' \in [Threads -> SUBSET Actors]
      BY <2>10, <2>t DEF SettleReservation, TypeOK
    <3> QED BY <2>10, <3>2, <3>3, <3>4, <3>5 DEF SettleReservation, TypeOK
  <2>11. CASE AbortOwner(m)
    BY <2>11 DEF AbortOwner, TypeOK
  <2>12. CASE CancelStoreDelete(m)
    <3>1. pc' \in [Actors -> PCs]
      BY <2>12, <2>t, StatesAndPCs DEF CancelStoreDelete, TypeOK, Goto
    <3> QED BY <2>12, <3>1 DEF CancelStoreDelete, TypeOK
  <2> QED BY <1>2, <1>4, <2>t, <2>1, <2>2, <2>3, <2>4, <2>5, <2>6, <2>7, <2>8, <2>9, <2>10,
             <2>11, <2>12 DEF MutatorStep
<1>5. ASSUME NEW m \in Mutators, NEW r \in Requests, TransferCreation(m, r)
      PROVE  TypeOK'
  <2>t. thread[m] \in Threads /\ m \in Actors /\ r \in Actors
    BY <1>a DEF TypeOK
  <2>1. state' \in [Threads -> States] /\ epoch' \in [Threads -> Nat] /\ nonce' \in Nat
    BY <1>5, <2>t, InstallType, StatesAndPCs DEF TransferCreation, Stable
  <2>2. signalled' \in [Mutators -> BOOLEAN]
    BY <1>5, NotifyType DEF TransferCreation
  <2>3. pc' \in [Actors -> PCs]
    BY <1>5, <2>t, StatesAndPCs DEF TransferCreation, TypeOK
  <2>4. /\ owner' \in [Threads -> Mutators \cup {NoOwner}]
        /\ pending' \in [Threads -> SUBSET Actors]
        /\ leases' \in [Threads -> SUBSET Requests] /\ valid' \in [Requests -> BOOLEAN]
    BY <1>5, <2>t DEF TransferCreation, TypeOK
  <2> QED BY <1>5, <2>1, <2>2, <2>3, <2>4 DEF TransferCreation, TypeOK
<1>6. ASSUME NEW t \in Threads, WriteRecord(t) PROVE TypeOK'
  BY <1>6 DEF WriteRecord, TypeOK
<1>7. CASE Crash
  <2>1. pc' \in [Actors -> PCs]
    BY <1>7, StatesAndPCs DEF Crash, TypeOK
  <2>2. state' \in [Threads -> States]
    BY <1>7, StatesAndPCs DEF Crash
  <2> QED BY <1>7, <2>1, <2>2 DEF Crash, TypeOK
<1>8. CASE UNCHANGED vars
  BY <1>8 DEF vars, TypeOK
<1> QED
  BY <1>1, <1>3, <1>4, <1>5, <1>6, <1>7, <1>8 DEF Next, Finished

\* Every variable keeps its type in every reachable state.
THEOREM TypeCorrect == Spec => []TypeOK
<1>1. Init => TypeOK
  BY InitTypeOK
<1>2. TypeOK /\ [Next]_vars => TypeOK'
  BY StepTypeOK
<1> QED BY <1>1, <1>2, PTL DEF Spec

-----------------------------------------------------------------------------
(* FenceInvariant is inductive.  Steps that only move an actor between two  *)
(* places the invariant tells little about are handled by three lemmas.     *)

Early == {"idle", "calib", "read", "install", "reserve", "lookup", "done"}

\* Every variable the invariant mentions but pc and seenTerminal.
shared == <<record, terminal, state, epoch, owner, leases, thread, valid, active,
            token, prior, target, kind>>

LEMMA InitFence == Init => FenceInvariant
  BY DEF Init, FenceInvariant, LeaseShape, TokenShape, LeasesFenced, CachedTombstones,
         CheckedRecord, LeasesTracked, ReservationCurrent, NoAbandonedFence,
         TombstoneExcludesRecord, NoRunOnTerminalThread, Stable, Owned, Draining,
         Reserved, Holding, Actors

LEMMA EarlyMove ==
  ASSUME TypeOK, FenceInvariant, NEW a \in Actors, pc[a] \in Early,
         NEW l \in Early, Goto(a, l), UNCHANGED shared,
         \A b \in Actors : seenTerminal'[b] \in {"archived", "deleted"}
                              => terminal[thread[b]] # "live"
  PROVE  FenceInvariant'
<1> USE DEF TypeOK, Goto, shared, Early, Actors
<1>1. LeaseShape' /\ TokenShape' /\ CheckedRecord'
  BY DEF FenceInvariant, LeaseShape, TokenShape, CheckedRecord, Draining, Operation
<1>2. LeasesFenced'
  BY DEF FenceInvariant, LeasesFenced
<1>3. CachedTombstones'
  BY DEF FenceInvariant, CachedTombstones
<1>4. LeasesTracked'
  BY DEF FenceInvariant, LeasesTracked, Holding
<1>5. ReservationCurrent' /\ NoAbandonedFence'
  BY DEF FenceInvariant, ReservationCurrent, NoAbandonedFence, Matches, Reserved, Draining
<1>6. TombstoneExcludesRecord' /\ NoRunOnTerminalThread'
  BY DEF FenceInvariant, TombstoneExcludesRecord, NoRunOnTerminalThread
<1> QED BY <1>1, <1>2, <1>3, <1>4, <1>5, <1>6 DEF FenceInvariant

LEMMA LeaseMove ==
  ASSUME TypeOK, FenceInvariant, NEW r \in Requests, pc[r] \in Holding,
         NEW l \in Holding, Goto(r, l), UNCHANGED shared, UNCHANGED seenTerminal,
         active[r] => l \in {"active", "running", "dropping"},
         l \in {"active", "running"} => active[r],
         valid[r] /\ l \in {"checked", "admitted", "active", "running"}
            => terminal[thread[r]] = "live" /\ record[thread[r]]
  PROVE  FenceInvariant'
<1> USE DEF TypeOK, Goto, shared, Actors
<1>1. LeaseShape' /\ CheckedRecord'
  BY DEF FenceInvariant, LeaseShape, CheckedRecord
<1>2. TokenShape'
  BY DEF FenceInvariant, TokenShape, Operation
<1>3. LeasesFenced'
  BY DEF FenceInvariant, LeasesFenced
<1>4. CachedTombstones'
  BY DEF FenceInvariant, CachedTombstones
<1>5. LeasesTracked'
  BY DEF FenceInvariant, LeasesTracked
<1>6. ReservationCurrent' /\ NoAbandonedFence'
  BY DEF FenceInvariant, ReservationCurrent, NoAbandonedFence, Matches
<1>7. TombstoneExcludesRecord' /\ NoRunOnTerminalThread'
  BY DEF FenceInvariant, TombstoneExcludesRecord, NoRunOnTerminalThread
<1> QED BY <1>1, <1>2, <1>3, <1>4, <1>5, <1>6, <1>7 DEF FenceInvariant

LEMMA OwnerMove ==
  ASSUME TypeOK, FenceInvariant, NEW m \in Mutators, pc[m] \in Reserved,
         NEW l \in Reserved \ {"tx"}, Goto(m, l), UNCHANGED shared, UNCHANGED seenTerminal,
         l \in Draining => token[m].state = "deleting" /\ kind[m] \in {"delete", "store_delete"}
  PROVE  FenceInvariant'
<1> USE DEF TypeOK, Goto, shared, Actors
<1>1. LeaseShape' /\ CheckedRecord'
  BY DEF FenceInvariant, LeaseShape, CheckedRecord
<1>2. TokenShape'
  BY DEF FenceInvariant, TokenShape, Operation
<1>3. LeasesFenced'
  BY DEF FenceInvariant, LeasesFenced
<1>4. CachedTombstones'
  BY DEF FenceInvariant, CachedTombstones
<1>5. LeasesTracked'
  BY DEF FenceInvariant, LeasesTracked
<1>6. ReservationCurrent' /\ NoAbandonedFence'
  BY DEF FenceInvariant, ReservationCurrent, NoAbandonedFence, Matches
<1>7. TombstoneExcludesRecord' /\ NoRunOnTerminalThread'
  BY DEF FenceInvariant, TombstoneExcludesRecord, NoRunOnTerminalThread
<1> QED BY <1>1, <1>2, <1>3, <1>4, <1>5, <1>6, <1>7 DEF FenceInvariant

LEMMA MatchedOwned ==
  ASSUME TypeOK, NEW n \in Mutators, Matches(n)
  PROVE  state[thread[n]] = token[n].state /\ state[thread[n]] \in Owned
<1>1. token[n].state \in Owned
  BY DEF TypeOK
<1> QED BY <1>1 DEF Matches

\* A step that leaves owned entries and their leases alone keeps the fence.
LEMMA FenceKept ==
  ASSUME TypeOK, FenceInvariant, UNCHANGED <<owner, token, thread>>,
         \A u \in Threads : state[u] \in Owned \/ state'[u] \in Owned =>
            /\ state'[u] = state[u] /\ epoch'[u] = epoch[u]
            /\ \A q \in leases'[u] :
                 q \in leases[u] /\ (valid'[q] => valid[q]) /\ (active'[q] => active[q]),
         \A n \in Mutators : /\ pc'[n] \in Reserved <=> pc[n] \in Reserved
                             /\ pc'[n] = "tx" <=> pc[n] = "tx"
  PROVE  LeasesFenced' /\ ReservationCurrent' /\ NoAbandonedFence'
<1> USE DEF TypeOK
<1>1. ReservationCurrent'
  <2> SUFFICES ASSUME NEW n \in Mutators, pc'[n] \in Reserved PROVE Matches(n)'
    BY DEF ReservationCurrent
  <2>1. Matches(n)
    BY DEF FenceInvariant, ReservationCurrent
  <2>2. thread[n] \in Threads /\ state[thread[n]] \in Owned
    BY <2>1, MatchedOwned, ActorsAssumption DEF Actors
  <2> QED BY <2>1, <2>2 DEF Matches
<1>2. NoAbandonedFence'
  <2> SUFFICES ASSUME NEW u \in Threads, state'[u] \in Owned
               PROVE  owner'[u] \in Mutators /\ thread'[owner'[u]] = u
                      /\ pc'[owner'[u]] \in Reserved /\ Matches(owner[u])'
    BY DEF NoAbandonedFence
  <2>1. /\ owner[u] \in Mutators /\ thread[owner[u]] = u
        /\ pc[owner[u]] \in Reserved /\ Matches(owner[u])
    BY DEF FenceInvariant, NoAbandonedFence
  <2> QED BY <2>1 DEF Matches
<1>3. LeasesFenced'
  <2>1. ASSUME NEW u \in Threads, state'[u] \in {"archiving", "deleting"}, NEW q \in leases'[u]
        PROVE  ~valid'[q] /\ (state'[u] = "archiving" => ~active'[q])
    <3>1. state[u] = state'[u] /\ state[u] \in Owned
      BY <2>1 DEF Owned
    <3>2. q \in leases[u] /\ (valid'[q] => valid[q]) /\ (active'[q] => active[q])
      BY <2>1, <3>1
    <3>3. ~valid[q] /\ (state[u] = "archiving" => ~active[q])
      BY <2>1, <3>1, <3>2 DEF FenceInvariant, LeasesFenced
    <3> QED BY <3>1, <3>2, <3>3
  <2>2. ASSUME NEW n \in Mutators, pc'[n] = "tx", token'[n].state = "deleting"
        PROVE  leases'[thread'[n]] = {}
    <3>1. pc[n] = "tx" /\ leases[thread[n]] = {}
      BY <2>2 DEF FenceInvariant, LeasesFenced
    <3>2. Matches(n)
      BY <3>1 DEF FenceInvariant, ReservationCurrent, Reserved
    <3>3. thread[n] \in Threads /\ state[thread[n]] \in Owned
      BY <3>2, MatchedOwned DEF Actors
    <3> QED BY <3>1, <3>3
  <2> QED BY <2>1, <2>2 DEF LeasesFenced
<1> QED BY <1>1, <1>2, <1>3

-----------------------------------------------------------------------------
(* The steps that change what the invariant relates. *)

\* A fresh entry is uncalibrated and owned by nobody.
LEMMA CalibrationBegins ==
  ASSUME TypeOK, FenceInvariant, NEW a \in Actors, CalibBegin(a)
  PROVE  FenceInvariant'
<1> USE DEF TypeOK, durable, entries, calib, lease, resv, const, Goto, Actors
<1>1. LeaseShape'
  BY DEF NextNonce, FenceInvariant, LeaseShape, CalibBegin, Install
<1>2. TokenShape'
  BY DEF NextNonce, FenceInvariant, TokenShape, Operation, LifecycleKinds, Draining, CalibBegin,
         Install
<1>3. LeasesFenced' /\ ReservationCurrent' /\ NoAbandonedFence'
  <2>1. \A n \in Mutators : /\ pc'[n] \in Reserved <=> pc[n] \in Reserved
                            /\ pc'[n] = "tx" <=> pc[n] = "tx"
    BY DEF NextNonce, CalibBegin, Install, Reserved, Draining
  <2>2. ASSUME NEW u \in Threads, state[u] \in Owned \/ state'[u] \in Owned
        PROVE  /\ state'[u] = state[u] /\ epoch'[u] = epoch[u]
               /\ \A q \in leases'[u] :
                    q \in leases[u] /\ (valid'[q] => valid[q]) /\ (active'[q] => active[q])
    BY <2>2 DEF NextNonce, FenceInvariant, LeasesTracked, CalibBegin, Install, Owned, Stable
  <2> QED BY <2>1, <2>2, FenceKept DEF CalibBegin
<1>4. CachedTombstones'
  BY DEF NextNonce, FenceInvariant, CachedTombstones, TombstoneExcludesRecord, Stable, CalibBegin,
         Install
<1>5. CheckedRecord'
  BY DEF NextNonce, FenceInvariant, CheckedRecord, TombstoneExcludesRecord, LeasesTracked,
         LeasesFenced, ReservationCurrent, TokenShape, Holding, Matches, Reserved,
         Draining, Operation, LifecycleKinds, CalibBegin, Install
<1>6. LeasesTracked'
  BY DEF NextNonce, FenceInvariant, LeasesTracked, Holding, CalibBegin, Install
<1>9. TombstoneExcludesRecord'
  BY DEF NextNonce, FenceInvariant, TombstoneExcludesRecord, CalibBegin, Install
<1>10. NoRunOnTerminalThread'
  BY DEF NextNonce, FenceInvariant, NoRunOnTerminalThread, CheckedRecord, LeasesFenced, LeaseShape,
         LeasesTracked, TokenShape, ReservationCurrent, TombstoneExcludesRecord, Holding,
         Matches, Reserved, Draining, Operation, LifecycleKinds, CalibBegin, Install
<1> QED BY <1>1, <1>2, <1>3, <1>4, <1>5, <1>6, <1>9, <1>10 DEF FenceInvariant

\* The read lands on an uncalibrated entry only.
LEMMA CalibrationInstalls ==
  ASSUME TypeOK, FenceInvariant, NEW a \in Actors, CalibInstall(a)
  PROVE  FenceInvariant'
<1> USE DEF TypeOK, durable, entries, calib, lease, resv, const, Goto, Actors
<1>1. LeaseShape'
  BY DEF AfterRead, NextNonce, FenceInvariant, LeaseShape, CalibInstall, Install, Evict, ReadFits,
         ReadFailedAlone
<1>2. TokenShape'
  BY DEF AfterRead, NextNonce, FenceInvariant, TokenShape, Operation, LifecycleKinds, Draining, CalibInstall,
         Install, Evict, ReadFits, ReadFailedAlone
<1>3. LeasesFenced' /\ ReservationCurrent' /\ NoAbandonedFence'
  <2>1. \A n \in Mutators : /\ pc'[n] \in Reserved <=> pc[n] \in Reserved
                            /\ pc'[n] = "tx" <=> pc[n] = "tx"
    BY DEF AfterRead, NextNonce, CalibInstall, Install, Evict, ReadFits, ReadFailedAlone, Reserved, Draining
  <2>2. ASSUME NEW u \in Threads, state[u] \in Owned \/ state'[u] \in Owned
        PROVE  /\ state'[u] = state[u] /\ epoch'[u] = epoch[u]
               /\ \A q \in leases'[u] :
                    q \in leases[u] /\ (valid'[q] => valid[q]) /\ (active'[q] => active[q])
    <3>0. thread[a] \in Threads /\ UNCHANGED <<leases, valid, active>>
      BY DEF AfterRead, CalibInstall
    <3>1. CASE ReadFits(a) \/ ReadFailedAlone(a)
      <4>1. /\ state[thread[a]] = "uncalibrated"
            /\ state' \in {[state EXCEPT ![thread[a]] = seenTerminal[a]],
                          [state EXCEPT ![thread[a]] = "absent"]}
            /\ epoch' \in {[epoch EXCEPT ![thread[a]] = nonce + 1],
                          [epoch EXCEPT ![thread[a]] = 0]}
        BY <3>1 DEF AfterRead, NextNonce, CalibInstall, Install, Evict, ReadFits, ReadFailedAlone
      <4>2. state'[thread[a]] \notin Owned
        <5>1. state'[thread[a]] = seenTerminal[a] \/ state'[thread[a]] = "absent"
          BY <3>0, <4>1
        <5>2. seenTerminal[a] \in Stable \cup {"error"}
          OBVIOUS
        <5> QED BY <5>1, <5>2 DEF Owned, Stable
      <4>3. u # thread[a]
        BY <2>2, <4>1, <4>2 DEF Owned
      <4> QED BY <3>0, <4>1, <4>3
    <3>2. CASE ~ReadFits(a) /\ ~ReadFailedAlone(a)
      BY <3>2 DEF AfterRead, CalibInstall
    <3> QED BY <3>0, <3>1, <3>2
  <2> QED BY <2>1, <2>2, FenceKept DEF AfterRead, CalibInstall
<1>4. CachedTombstones'
  BY DEF AfterRead, NextNonce, FenceInvariant, CachedTombstones, TombstoneExcludesRecord, Stable, CalibInstall,
         Install, Evict, ReadFits, ReadFailedAlone
<1>5. CheckedRecord'
  BY DEF AfterRead, NextNonce, FenceInvariant, CheckedRecord, TombstoneExcludesRecord, LeasesTracked,
         LeasesFenced, ReservationCurrent, TokenShape, Holding, Matches, Reserved,
         Draining, Operation, LifecycleKinds, CalibInstall, Install, Evict, ReadFits,
         ReadFailedAlone
<1>6. LeasesTracked'
  BY DEF AfterRead, NextNonce, FenceInvariant, LeasesTracked, Holding, CalibInstall, Install, Evict, ReadFits,
         ReadFailedAlone
<1>9. TombstoneExcludesRecord'
  BY DEF AfterRead, NextNonce, FenceInvariant, TombstoneExcludesRecord, CalibInstall, Install, Evict, ReadFits,
         ReadFailedAlone
<1>10. NoRunOnTerminalThread'
  BY DEF AfterRead, NextNonce, FenceInvariant, NoRunOnTerminalThread, CheckedRecord, LeasesFenced, LeaseShape,
         LeasesTracked, TokenShape, ReservationCurrent, TombstoneExcludesRecord, Holding,
         Matches, Reserved, Draining, Operation, LifecycleKinds, CalibInstall, Install,
         Evict, ReadFits, ReadFailedAlone
<1> QED BY <1>1, <1>2, <1>3, <1>4, <1>5, <1>6, <1>9, <1>10 DEF FenceInvariant

\* A lease is added to a live entry only.
LEMMA RequestReserves ==
  ASSUME TypeOK, FenceInvariant, NEW r \in Requests, ReserveRequest(r)
  PROVE  FenceInvariant'
<1> USE DEF TypeOK, durable, entries, calib, lease, resv, const, Goto, Actors
<1>1. LeaseShape'
  <2>1. /\ active' = active /\ pc[r] = "reserve" /\ pc'[r] \in {"leased", "done"}
        /\ \A q \in Requests \ {r} : pc'[q] = pc[q]
    BY DEF ReserveRequest
  <2>2. LeaseShape
    BY DEF FenceInvariant
  <2> QED BY <2>1, <2>2 DEF LeaseShape
<1>2. TokenShape'
  BY DEF FenceInvariant, TokenShape, Operation, LifecycleKinds, Draining, ReserveRequest
<1>3. LeasesFenced' /\ ReservationCurrent' /\ NoAbandonedFence'
  <2>1. \A n \in Mutators : /\ pc'[n] \in Reserved <=> pc[n] \in Reserved
                            /\ pc'[n] = "tx" <=> pc[n] = "tx"
    BY DEF ReserveRequest, Reserved, Draining
  <2>2. ASSUME NEW u \in Threads, state[u] \in Owned \/ state'[u] \in Owned
        PROVE  /\ state'[u] = state[u] /\ epoch'[u] = epoch[u]
               /\ \A q \in leases'[u] :
                    q \in leases[u] /\ (valid'[q] => valid[q]) /\ (active'[q] => active[q])
    <3>1. UNCHANGED <<state, epoch, active>>
      BY DEF ReserveRequest
    <3>2. u # thread[r] \/ UNCHANGED <<leases, valid>>
      BY <2>2, <3>1 DEF ReserveRequest, Owned
    <3>3. leases'[u] = leases[u] /\ \A q \in Requests \ {r} : valid'[q] = valid[q]
      BY <3>2 DEF ReserveRequest
    <3>4. u # thread[r] => r \notin leases[u]
      BY DEF FenceInvariant, LeasesTracked
    <3> QED BY <3>1, <3>2, <3>3, <3>4
  <2> QED BY <2>1, <2>2, FenceKept DEF ReserveRequest
<1>4. CachedTombstones'
  BY DEF FenceInvariant, CachedTombstones, TombstoneExcludesRecord, Stable, ReserveRequest
<1>5. CheckedRecord'
  BY SMTT(30) DEF FenceInvariant, CheckedRecord, TombstoneExcludesRecord, LeasesTracked,
         LeasesFenced, ReservationCurrent, TokenShape, Holding, Matches, Reserved,
         Draining, Operation, LifecycleKinds, ReserveRequest
<1>6. LeasesTracked'
  BY DEF FenceInvariant, LeasesTracked, Holding, ReserveRequest
<1>9. TombstoneExcludesRecord'
  BY DEF FenceInvariant, TombstoneExcludesRecord, ReserveRequest
<1>10. NoRunOnTerminalThread'
  BY DEF FenceInvariant, NoRunOnTerminalThread, CheckedRecord, LeasesFenced, LeaseShape,
         LeasesTracked, TokenShape, ReservationCurrent, TombstoneExcludesRecord, Holding,
         Matches, Reserved, Draining, Operation, LifecycleKinds, ReserveRequest
<1> QED BY <1>1, <1>2, <1>3, <1>4, <1>5, <1>6, <1>9, <1>10 DEF FenceInvariant

\* Promotion needs a valid lease of a live entry.
LEMMA PromotionPreserves ==
  ASSUME TypeOK, FenceInvariant, NEW r \in Requests, Promote(r)
  PROVE  FenceInvariant'
<1> USE DEF TypeOK, durable, entries, calib, lease, resv, const, Goto, Actors
<1>1. LeaseShape'
  <2>1. CASE Goto(r, "active") /\ active' = [active EXCEPT ![r] = TRUE]
    BY <2>1 DEF FenceInvariant, LeaseShape
  <2>2. CASE Goto(r, "dropping") /\ active' = active /\ pc[r] = "admitted"
    BY <2>2 DEF FenceInvariant, LeaseShape
  <2> QED BY <2>1, <2>2 DEF Promote
<1>2. TokenShape'
  BY DEF FenceInvariant, TokenShape, Operation, LifecycleKinds, Draining, Promote
<1>3. LeasesFenced' /\ ReservationCurrent' /\ NoAbandonedFence'
  <2>1. \A n \in Mutators : /\ pc'[n] \in Reserved <=> pc[n] \in Reserved
                            /\ pc'[n] = "tx" <=> pc[n] = "tx"
    BY DEF Promote, Reserved, Draining
  <2>2. ASSUME NEW u \in Threads, state[u] \in Owned \/ state'[u] \in Owned
        PROVE  /\ state'[u] = state[u] /\ epoch'[u] = epoch[u]
               /\ \A q \in leases'[u] :
                    q \in leases[u] /\ (valid'[q] => valid[q]) /\ (active'[q] => active[q])
    <3>1. UNCHANGED <<state, epoch, leases, valid>>
      BY DEF Promote
    <3>2. \A q \in Requests \ {r} : active'[q] = active[q]
      BY DEF Promote
    <3>3. state[thread[r]] = "live" \/ active' = active
      BY DEF Promote
    <3>4. r \in leases[u] => thread[r] = u
      BY DEF FenceInvariant, LeasesTracked
    <3>5. state[u] # "live"
      BY <2>2, <3>1 DEF Owned
    <3> QED BY <3>1, <3>2, <3>3, <3>4, <3>5
  <2> QED BY <2>1, <2>2, FenceKept DEF Promote
<1>4. CachedTombstones'
  BY DEF FenceInvariant, CachedTombstones, TombstoneExcludesRecord, Stable, Promote
<1>5. CheckedRecord'
  BY DEF FenceInvariant, CheckedRecord, TombstoneExcludesRecord, LeasesTracked,
         LeasesFenced, ReservationCurrent, TokenShape, Holding, Matches, Reserved,
         Draining, Operation, LifecycleKinds, Promote
<1>6. LeasesTracked'
  BY DEF FenceInvariant, LeasesTracked, Holding, Promote
<1>9. TombstoneExcludesRecord'
  BY DEF FenceInvariant, TombstoneExcludesRecord, Promote
<1>10. NoRunOnTerminalThread'
  <2> SUFFICES ASSUME NEW q \in Requests, active'[q]
               PROVE  terminal'[thread'[q]] = "live" /\ record'[thread'[q]]
    BY DEF NoRunOnTerminalThread
  <2>1. CASE q = r /\ pc'[r] = "active"
    <3>1. pc[r] = "admitted" /\ valid[r]
      BY <2>1 DEF Promote
    <3> QED BY <2>1, <3>1 DEF FenceInvariant, CheckedRecord, Promote
  <2>2. CASE active[q]
    BY <2>2 DEF FenceInvariant, NoRunOnTerminalThread, Promote
  <2> QED BY <2>1, <2>2 DEF Promote
<1> QED BY <1>1, <1>2, <1>3, <1>4, <1>5, <1>6, <1>9, <1>10 DEF FenceInvariant

\* A release evicts a live entry without leases.
LEMMA ReleasePreserves ==
  ASSUME TypeOK, FenceInvariant, NEW r \in Requests, ReleaseLease(r)
  PROVE  FenceInvariant'
<1> USE DEF TypeOK, durable, entries, calib, lease, resv, const, Goto, Actors
<1>1. LeaseShape'
  BY DEF RemoveLease, FenceInvariant, LeaseShape, ReleaseLease, Evict
<1>2. TokenShape'
  BY DEF RemoveLease, FenceInvariant, TokenShape, Operation, LifecycleKinds, Draining, ReleaseLease,
         Evict
<1>3. LeasesFenced' /\ ReservationCurrent' /\ NoAbandonedFence'
  <2>1. \A n \in Mutators : /\ pc'[n] \in Reserved <=> pc[n] \in Reserved
                            /\ pc'[n] = "tx" <=> pc[n] = "tx"
    BY DEF RemoveLease, ReleaseLease, Evict, Reserved, Draining
  <2>2. ASSUME NEW u \in Threads, state[u] \in Owned \/ state'[u] \in Owned
        PROVE  /\ state'[u] = state[u] /\ epoch'[u] = epoch[u]
               /\ \A q \in leases'[u] :
                    q \in leases[u] /\ (valid'[q] => valid[q]) /\ (active'[q] => active[q])
    BY <2>2 DEF RemoveLease, FenceInvariant, LeasesTracked, ReleaseLease, Evict, Owned, Stable
  <2> QED BY <2>1, <2>2, FenceKept DEF RemoveLease, ReleaseLease
<1>4. CachedTombstones'
  BY DEF RemoveLease, FenceInvariant, CachedTombstones, TombstoneExcludesRecord, Stable, ReleaseLease,
         Evict
<1>5. CheckedRecord'
  BY DEF RemoveLease, FenceInvariant, CheckedRecord, TombstoneExcludesRecord, LeasesTracked,
         LeasesFenced, ReservationCurrent, TokenShape, Holding, Matches, Reserved,
         Draining, Operation, LifecycleKinds, ReleaseLease, Evict
<1>6. LeasesTracked'
  BY DEF RemoveLease, FenceInvariant, LeasesTracked, Holding, ReleaseLease, Evict
<1>9. TombstoneExcludesRecord'
  BY DEF RemoveLease, FenceInvariant, TombstoneExcludesRecord, ReleaseLease, Evict
<1>10. NoRunOnTerminalThread'
  BY DEF RemoveLease, FenceInvariant, NoRunOnTerminalThread, CheckedRecord, LeasesFenced, LeaseShape,
         LeasesTracked, TokenShape, ReservationCurrent, TombstoneExcludesRecord, Holding,
         Matches, Reserved, Draining, Operation, LifecycleKinds, ReleaseLease, Evict
<1> QED BY <1>1, <1>2, <1>3, <1>4, <1>5, <1>6, <1>9, <1>10 DEF FenceInvariant

\* A reservation takes over an entry in a stable state.
LEMMA ReservationInstalled ==
  ASSUME TypeOK, FenceInvariant, NEW m \in Mutators, NEW s \in Owned, NEW l \in {"tx", "drain"},
         CanReserve(m), InstallReservation(m, s), Goto(m, l),
         valid' \in [Requests -> BOOLEAN], \A q \in Requests : valid'[q] => valid[q],
         s # "deciding" => \A q \in leases[thread[m]] : ~valid'[q],
         s = "archiving" => kind[m] = "archive" /\ \A q \in leases[thread[m]] : ~active[q],
         s = "deleting" <=> l = "drain",
         l = "drain" => kind[m] \in {"delete", "store_delete"},
         l = "tx" => kind[m] # "store_delete"
  PROVE  FenceInvariant'
<1> USE DEF TypeOK, durable, const, calib, Goto, Actors
<1>m. m \in Actors /\ thread[m] \in Threads /\ state[thread[m]] \in Stable
  BY DEF CanReserve
<1>o. \A u \in Threads \ {thread[m]} :
         state'[u] = state[u] /\ epoch'[u] = epoch[u] /\ owner'[u] = owner[u]
  BY DEF NextNonce, InstallReservation, Install
<1>n. \A n \in Mutators \ {m} :
         /\ pc'[n] = pc[n] /\ token'[n] = token[n]
         /\ pc[n] \in Reserved => thread[n] # thread[m]
  <2> SUFFICES ASSUME NEW n \in Mutators \ {m}
               PROVE  /\ pc'[n] = pc[n] /\ token'[n] = token[n]
                      /\ pc[n] \in Reserved => thread[n] # thread[m]
    OBVIOUS
  <2>1. pc'[n] = pc[n] /\ token'[n] = token[n]
    BY DEF NextNonce, InstallReservation
  <2>2. pc[n] \in Reserved => state[thread[n]] \in Owned
    BY MatchedOwned DEF FenceInvariant, ReservationCurrent
  <2> QED BY <2>1, <2>2, <1>m DEF Stable, Owned
<1>h. /\ state'[thread[m]] = s /\ epoch'[thread[m]] = nonce + 1 /\ owner'[thread[m]] = m
      /\ token'[m] = [epoch |-> nonce + 1, state |-> s] /\ pc'[m] = l
      /\ prior'[m] = state[thread[m]] /\ target'[m] = state[thread[m]]
  BY <1>m DEF NextNonce, InstallReservation, Install
<1>q. /\ \A q \in Requests : pc'[q] = pc[q]
      /\ UNCHANGED <<record, terminal, leases, thread, kind, active, seenTerminal>>
  BY DEF NextNonce, InstallReservation
<1>1. LeaseShape' /\ CheckedRecord' /\ LeasesTracked'
  BY <1>q DEF FenceInvariant, LeaseShape, CheckedRecord, LeasesTracked
<1>2. TokenShape'
  <2>1. \A n \in Mutators \ {m} : pc'[n] = pc[n] /\ token'[n] = token[n] /\ kind'[n] = kind[n]
    BY <1>n, <1>q
  <2>2. pc'[m] \in {"tx", "drain"} /\ token'[m].state = s
    BY <1>h
  <2> QED BY <2>1, <2>2, <1>h, <1>q
          DEF FenceInvariant, TokenShape, Operation, LifecycleKinds, Draining, Owned
<1>3. LeasesFenced'
  <2>1. ASSUME NEW u \in Threads, state'[u] \in {"archiving", "deleting"}, NEW q \in leases'[u]
        PROVE  ~valid'[q] /\ (state'[u] = "archiving" => ~active'[q])
    <3>1. CASE u = thread[m]
      BY <2>1, <3>1, <1>h, <1>q
    <3>2. CASE u # thread[m]
      BY <2>1, <3>2, <1>o, <1>q DEF FenceInvariant, LeasesFenced
    <3> QED BY <3>1, <3>2
  <2>2. ASSUME NEW n \in Mutators, pc'[n] = "tx", token'[n].state = "deleting"
        PROVE  leases'[thread'[n]] = {}
    <3>1. n # m
      BY <2>2, <1>h
    <3> QED BY <2>2, <3>1, <1>n, <1>q DEF FenceInvariant, LeasesFenced
  <2> QED BY <2>1, <2>2 DEF LeasesFenced
<1>4. CachedTombstones'
  <2>1. \A n \in Mutators \ {m} : prior'[n] = prior[n] /\ target'[n] = target[n]
    BY DEF NextNonce, InstallReservation
  <2> QED BY <2>1, <1>h, <1>o, <1>q, <1>m DEF FenceInvariant, CachedTombstones, Owned
<1>5. ReservationCurrent'
  <2> SUFFICES ASSUME NEW n \in Mutators, pc'[n] \in Reserved PROVE Matches(n)'
    BY DEF ReservationCurrent
  <2>1. CASE n = m
    BY <2>1, <1>h, <1>q DEF Matches
  <2>2. CASE n # m
    <3>1. pc[n] \in Reserved /\ Matches(n) /\ thread[n] # thread[m] /\ thread[n] \in Threads
      BY <2>2, <1>n DEF FenceInvariant, ReservationCurrent
    <3> QED BY <2>2, <3>1, <1>n, <1>o, <1>q DEF Matches
  <2> QED BY <2>1, <2>2
<1>6. NoAbandonedFence'
  <2> SUFFICES ASSUME NEW u \in Threads, state'[u] \in Owned
               PROVE  owner'[u] \in Mutators /\ thread'[owner'[u]] = u
                      /\ pc'[owner'[u]] \in Reserved /\ Matches(owner[u])'
    BY DEF NoAbandonedFence
  <2>1. CASE u = thread[m]
    BY <2>1, <1>h, <1>q DEF Matches, Reserved, Draining
  <2>2. CASE u # thread[m]
    <3>1. /\ owner[u] \in Mutators /\ thread[owner[u]] = u
          /\ pc[owner[u]] \in Reserved /\ Matches(owner[u])
      BY <2>2, <1>o DEF FenceInvariant, NoAbandonedFence
    <3>2. owner'[u] = owner[u] /\ owner[u] # m
      BY <2>2, <3>1, <1>o
    <3> QED BY <2>2, <3>1, <3>2, <1>n, <1>o, <1>q DEF Matches
  <2> QED BY <2>1, <2>2
<1>7. TombstoneExcludesRecord' /\ NoRunOnTerminalThread'
  BY <1>q DEF FenceInvariant, TombstoneExcludesRecord, NoRunOnTerminalThread
<1> QED BY <1>1, <1>2, <1>3, <1>4, <1>5, <1>6, <1>7 DEF FenceInvariant

\* No reserve operation can leave a lease of a thread it archives or deletes valid.
LEMMA ReservePreserves ==
  ASSUME TypeOK, FenceInvariant, NEW m \in Mutators,
         ReserveArchive(m) \/ ReserveDecision(m) \/ ReserveDelete(m) \/ ReserveCreation(m)
  PROVE  FenceInvariant'
<1>t. thread[m] \in Threads /\ leases[thread[m]] \subseteq Requests
  BY DEF TypeOK, Actors
<1>u. UNCHANGED valid => /\ valid' \in [Requests -> BOOLEAN]
                         /\ \A q \in Requests : valid'[q] => valid[q]
  BY DEF TypeOK
<1>v. InvalidateLeases(thread[m]) =>
        /\ valid' \in [Requests -> BOOLEAN]
        /\ \A q \in Requests : valid'[q] => valid[q]
        /\ \A q \in leases[thread[m]] : ~valid'[q]
  BY <1>t DEF TypeOK, InvalidateLeases
<1>1. CASE ReserveArchive(m)
  <2>1. CASE InstallReservation(m, "deciding") /\ UNCHANGED valid
    BY <1>1, <2>1, <1>u, ReservationInstalled DEF ReserveArchive, Owned
  <2>2. CASE /\ InvalidateLeases(thread[m]) /\ InstallReservation(m, "archiving")
             /\ ~(state[thread[m]] = "live" /\ ActiveLease(thread[m]))
    <3>1. \A q \in leases[thread[m]] : ~active[q]
      <4>1. CASE state[thread[m]] = "live"
        BY <2>2, <4>1 DEF ActiveLease
      <4>2. CASE state[thread[m]] # "live"
        <5>1. terminal[thread[m]] # "live"
          BY <1>1, <4>2, <1>t DEF FenceInvariant, CachedTombstones, ReserveArchive, CanReserve, Stable
        <5> QED BY <5>1, <1>t DEF FenceInvariant, NoRunOnTerminalThread, LeasesTracked
      <4> QED BY <4>1, <4>2
    <3> QED BY <1>1, <2>2, <3>1, <1>v, ReservationInstalled DEF ReserveArchive, Owned
  <2> QED BY <1>1, <2>1, <2>2 DEF ReserveArchive
<1>2. CASE ReserveDecision(m)
  BY <1>2, <1>u, ReservationInstalled DEF ReserveDecision, Owned
<1>3. CASE ReserveDelete(m)
  BY <1>3, <1>v, ReservationInstalled DEF ReserveDelete, Owned
<1>4. CASE ReserveCreation(m)
  BY <1>4, <1>u, ReservationInstalled DEF ReserveCreation, Owned
<1> QED BY <1>1, <1>2, <1>3, <1>4

\* A delete leaves the drain only when its thread has no lease.
LEMMA DrainPasses ==
  ASSUME TypeOK, FenceInvariant, NEW m \in Mutators, DrainCheck(m)
  PROVE  FenceInvariant'
<1> USE DEF TypeOK, durable, entries, calib, lease, resv, const, Goto, Actors
<1>t. /\ pc[m] = "check" /\ token[m].state = "deleting"
      /\ kind[m] \in {"delete", "store_delete"}
  BY DEF DrainCheck, FenceInvariant, TokenShape, Draining
<1>s. UNCHANGED shared /\ UNCHANGED seenTerminal
  BY DEF DrainCheck, shared
<1>1. CASE Goto(m, "settle") \/ Goto(m, "wait")
  BY <1>1, <1>t, <1>s, OwnerMove DEF Reserved, Draining
<1>2. CASE Goto(m, "tx") /\ leases[thread[m]] = {}
  <2>1. LeaseShape' /\ CheckedRecord' /\ LeasesTracked'
    BY <1>2, <1>s DEF FenceInvariant, LeaseShape, CheckedRecord, LeasesTracked, shared
  <2>2. TokenShape'
    BY <1>2, <1>s, <1>t DEF FenceInvariant, TokenShape, shared, Operation, Draining
  <2>3. LeasesFenced'
    <3>1. ASSUME NEW n \in Mutators, pc'[n] = "tx", token'[n].state = "deleting"
          PROVE  leases'[thread'[n]] = {}
      BY <3>1, <1>2, <1>s DEF FenceInvariant, LeasesFenced, shared
    <3> QED BY <3>1, <1>s DEF FenceInvariant, LeasesFenced, shared
  <2>4. CachedTombstones' /\ TombstoneExcludesRecord' /\ NoRunOnTerminalThread'
    BY <1>s DEF FenceInvariant, CachedTombstones, TombstoneExcludesRecord,
                NoRunOnTerminalThread, shared
  <2>5. ReservationCurrent' /\ NoAbandonedFence'
    BY <1>2, <1>s, <1>t DEF FenceInvariant, ReservationCurrent, NoAbandonedFence, Matches,
                            shared, Reserved, Draining
  <2> QED BY <2>1, <2>2, <2>3, <2>4, <2>5 DEF FenceInvariant
<1> QED BY <1>1, <1>2 DEF DrainCheck

\* The record appears under the creation reservation.
LEMMA CreationCommits ==
  ASSUME TypeOK, FenceInvariant, NEW m \in Mutators, CreateTransaction(m)
  PROVE  FenceInvariant'
<1> USE DEF TypeOK, durable, entries, calib, lease, resv, const, Goto, Actors
<1>1. LeaseShape'
  BY DEF FenceInvariant, LeaseShape, CreateTransaction
<1>2. TokenShape'
  BY DEF FenceInvariant, TokenShape, Operation, LifecycleKinds, Draining,
         CreateTransaction
<1>3. LeasesFenced'
  BY DEF FenceInvariant, LeasesFenced, ReservationCurrent, LeasesTracked, LeaseShape,
         Holding, Matches, Reserved, Draining, Stable, Owned, CreateTransaction
<1>4. CachedTombstones'
  BY DEF FenceInvariant, CachedTombstones, TombstoneExcludesRecord, Stable,
         CreateTransaction
<1>5. CheckedRecord'
  BY DEF FenceInvariant, CheckedRecord, TombstoneExcludesRecord, LeasesTracked,
         LeasesFenced, ReservationCurrent, TokenShape, Holding, Matches, Reserved,
         Draining, Operation, LifecycleKinds, CreateTransaction
<1>6. LeasesTracked'
  BY DEF FenceInvariant, LeasesTracked, Holding, CreateTransaction
<1>7. ReservationCurrent'
  BY DEF FenceInvariant, ReservationCurrent, Matches, Reserved, Draining, Stable, Owned,
         CreateTransaction
<1>8. NoAbandonedFence'
  BY DEF FenceInvariant, NoAbandonedFence, ReservationCurrent, Matches, Reserved, Draining,
         Stable, Owned, CreateTransaction
<1>9. TombstoneExcludesRecord'
  BY DEF FenceInvariant, TombstoneExcludesRecord, CreateTransaction
<1>10. NoRunOnTerminalThread'
  BY DEF FenceInvariant, NoRunOnTerminalThread, CheckedRecord, LeasesFenced, LeaseShape,
         LeasesTracked, TokenShape, ReservationCurrent, TombstoneExcludesRecord, Holding,
         Matches, Reserved, Draining, Operation, LifecycleKinds, CreateTransaction
<1> QED BY <1>1, <1>2, <1>3, <1>4, <1>5, <1>6, <1>7, <1>8, <1>9, <1>10 DEF FenceInvariant

\* Settlement replaces the state of the reservation that matches.
LEMMA SettlementPreserves ==
  ASSUME TypeOK, FenceInvariant, NEW m \in Mutators, SettleReservation(m)
  PROVE  FenceInvariant'
<1> USE DEF TypeOK, durable, entries, calib, lease, resv, const, Goto, Actors
<1>1. LeaseShape'
  BY DEF NextNonce, FenceInvariant, LeaseShape, SettleReservation, Evict, Install
<1>2. TokenShape'
  BY DEF NextNonce, FenceInvariant, TokenShape, Operation, LifecycleKinds, Draining,
         SettleReservation, Evict, Install
<1>3. LeasesFenced'
  <2>a. /\ leases' = leases /\ valid' = valid /\ active' = active
        /\ token' = token /\ thread' = thread /\ pc' = [pc EXCEPT ![m] = "done"]
    BY DEF SettleReservation
  <2>b. ASSUME NEW u \in Threads, state'[u] \in {"archiving", "deleting"}
        PROVE  state'[u] = state[u]
    <3>1. target[m] \in Stable
      OBVIOUS
    <3>2. \/ state' = state
          \/ state' = [state EXCEPT ![thread[m]] = "absent"]
          \/ state' = [state EXCEPT ![thread[m]] = target[m]]
      BY DEF SettleReservation, Evict, Install
    <3>3. state \in [Threads -> States]
      OBVIOUS
    <3> QED BY <2>b, <3>1, <3>2, <3>3 DEF Stable
  <2>c. LeasesFenced
    BY DEF FenceInvariant
  <2>1. ASSUME NEW u \in Threads, state'[u] = "archiving", NEW q \in leases'[u]
        PROVE  ~valid'[q] /\ ~active'[q]
    BY <2>1, <2>a, <2>b, <2>c DEF LeasesFenced
  <2>2. ASSUME NEW u \in Threads, state'[u] = "deleting", NEW q \in leases'[u]
        PROVE  ~valid'[q]
    BY <2>2, <2>a, <2>b, <2>c DEF LeasesFenced
  <2>3. ASSUME NEW n \in Mutators, pc'[n] = "tx", token'[n].state = "deleting"
        PROVE  leases'[thread'[n]] = {}
    BY <2>3, <2>a, <2>c DEF LeasesFenced
  <2> QED BY <2>1, <2>2, <2>3 DEF LeasesFenced
<1>4. CachedTombstones'
  BY DEF NextNonce, FenceInvariant, CachedTombstones, TombstoneExcludesRecord, Stable,
         SettleReservation, Evict, Install
<1>5. CheckedRecord'
  BY DEF NextNonce, FenceInvariant, CheckedRecord, TombstoneExcludesRecord, LeasesTracked,
         LeasesFenced, ReservationCurrent, TokenShape, Holding, Matches, Reserved,
         Draining, Operation, LifecycleKinds, SettleReservation, Evict, Install
<1>6. LeasesTracked'
  BY DEF NextNonce, FenceInvariant, LeasesTracked, Holding, SettleReservation, Evict, Install
<1>7. ReservationCurrent'
  BY DEF NextNonce, FenceInvariant, ReservationCurrent, Matches, Reserved, Draining, Stable, Owned,
         SettleReservation, Evict, Install
<1>8. NoAbandonedFence'
  <2> SUFFICES ASSUME NEW u \in Threads, state'[u] \in Owned
               PROVE  (/\ owner[u] \in Mutators /\ thread[owner[u]] = u
                       /\ pc[owner[u]] \in Reserved /\ Matches(owner[u]))'
    BY DEF NoAbandonedFence
  <2>1. Matches(m) /\ pc[m] = "settle" /\ thread[m] \in Threads
    BY DEF FenceInvariant, ReservationCurrent, Reserved, SettleReservation
  <2>2. u # thread[m]
    <3>1. target[m] \notin Owned /\ "absent" \notin Owned
      BY DEF Owned, Stable
    <3>2. state'[thread[m]] \in {"absent", target[m]}
      BY <2>1 DEF SettleReservation, Evict, Install
    <3> QED BY <3>1, <3>2
  <2>3. state'[u] = state[u] /\ owner'[u] = owner[u] /\ epoch'[u] = epoch[u]
    BY <2>1, <2>2 DEF NextNonce, SettleReservation, Evict, Install
  <2>4. /\ owner[u] \in Mutators /\ thread[owner[u]] = u
        /\ pc[owner[u]] \in Reserved /\ Matches(owner[u])
    BY <2>3 DEF FenceInvariant, NoAbandonedFence
  <2>5. owner[u] # m /\ pc'[owner[u]] = pc[owner[u]] /\ thread' = thread /\ token' = token
    BY <2>2, <2>4 DEF SettleReservation
  <2> QED BY <2>3, <2>4, <2>5 DEF Matches
<1>9. TombstoneExcludesRecord'
  BY DEF NextNonce, FenceInvariant, TombstoneExcludesRecord, SettleReservation, Evict, Install
<1>10. NoRunOnTerminalThread'
  BY DEF NextNonce, FenceInvariant, NoRunOnTerminalThread, CheckedRecord, LeasesFenced, LeaseShape,
         LeasesTracked, TokenShape, ReservationCurrent, TombstoneExcludesRecord, Holding,
         Matches, Reserved, Draining, Operation, LifecycleKinds, SettleReservation, Evict,
         Install
<1> QED BY <1>1, <1>2, <1>3, <1>4, <1>5, <1>6, <1>7, <1>8, <1>9, <1>10 DEF FenceInvariant

\* The creation becomes the lease of the first request.
LEMMA TransferPreserves ==
  ASSUME TypeOK, FenceInvariant, NEW m \in Mutators, NEW r \in Requests, TransferCreation(m, r)
  PROVE  FenceInvariant'
<1> USE DEF TypeOK, durable, entries, calib, lease, resv, const, Goto, Actors
<1>1. LeaseShape'
  BY DEF NextNonce, FenceInvariant, LeaseShape, TransferCreation, Install
<1>2. TokenShape'
  BY DEF NextNonce, FenceInvariant, TokenShape, Operation, LifecycleKinds, Draining, TransferCreation,
         Install
<1>t. /\ thread[m] \in Threads /\ state'[thread[m]] = "live" /\ pc[m] = "created" /\ Matches(m)
      /\ \A u \in Threads \ {thread[m]} :
            /\ state'[u] = state[u] /\ epoch'[u] = epoch[u] /\ owner'[u] = owner[u]
            /\ leases'[u] = leases[u]
      /\ \A q \in Requests \ {r} : valid'[q] = valid[q]
      /\ \A n \in Mutators \ {m} : pc'[n] = pc[n]
      /\ pc'[m] = "done" /\ thread[r] = thread[m]
      /\ UNCHANGED <<token, thread, active>>
  BY DEF NextNonce, TransferCreation, Install
<1>u. \A n \in Mutators \ {m} : pc[n] \in Reserved => thread[n] # thread[m]
  BY <1>t DEF FenceInvariant, ReservationCurrent, Matches
<1>r. \A u \in Threads \ {thread[m]} : r \notin leases[u]
  BY <1>t DEF FenceInvariant, LeasesTracked
<1>3. LeasesFenced'
  <2>1. ASSUME NEW u \in Threads, state'[u] \in {"archiving", "deleting"}, NEW q \in leases'[u]
        PROVE  ~valid'[q] /\ (state'[u] = "archiving" => ~active'[q])
    <3>1. u # thread[m]
      <4>1. state'[thread[m]] = "live"
        BY <1>t
      <4> QED BY <2>1, <4>1
    <3>2. q \in leases[u] /\ q \in Requests \ {r} /\ state[u] = state'[u]
      BY <2>1, <3>1, <1>t, <1>r
    <3>3. ~valid[q] /\ (state[u] = "archiving" => ~active[q])
      BY <2>1, <3>2 DEF FenceInvariant, LeasesFenced
    <3> QED BY <3>2, <3>3, <1>t
  <2>2. ASSUME NEW n \in Mutators, pc'[n] = "tx", token'[n].state = "deleting"
        PROVE  leases'[thread'[n]] = {}
    <3>1. n # m /\ pc[n] = "tx" /\ thread[n] \in Threads
      BY <2>2, <1>t
    <3>2. thread[n] # thread[m]
      BY <3>1, <1>u DEF Reserved
    <3> QED BY <2>2, <3>1, <3>2, <1>t DEF FenceInvariant, LeasesFenced
  <2> QED BY <2>1, <2>2 DEF LeasesFenced
<1>4. CachedTombstones'
  BY DEF NextNonce, FenceInvariant, CachedTombstones, TombstoneExcludesRecord, Stable,
         TransferCreation, Install
<1>5. CheckedRecord'
  BY DEF NextNonce, FenceInvariant, CheckedRecord, TombstoneExcludesRecord, LeasesTracked,
         LeasesFenced, ReservationCurrent, TokenShape, Holding, Matches, Reserved,
         Draining, Operation, LifecycleKinds, TransferCreation, Install
<1>6. LeasesTracked'
  BY DEF NextNonce, FenceInvariant, LeasesTracked, Holding, TransferCreation, Install
<1>7. ReservationCurrent'
  BY DEF NextNonce, FenceInvariant, ReservationCurrent, Matches, Reserved, Draining, Stable, Owned,
         TransferCreation, Install
<1>8. NoAbandonedFence'
  <2> SUFFICES ASSUME NEW u \in Threads, state'[u] \in Owned
               PROVE  owner'[u] \in Mutators /\ thread'[owner'[u]] = u
                      /\ pc'[owner'[u]] \in Reserved /\ Matches(owner[u])'
    BY DEF NoAbandonedFence
  <2>1. u # thread[m]
    BY <1>t DEF Owned
  <2>2. /\ owner[u] \in Mutators /\ thread[owner[u]] = u
        /\ pc[owner[u]] \in Reserved /\ Matches(owner[u])
    BY <2>1, <1>t DEF FenceInvariant, NoAbandonedFence
  <2>3. owner'[u] = owner[u] /\ owner[u] # m
    BY <2>1, <2>2, <1>t
  <2> QED BY <2>1, <2>2, <2>3, <1>t DEF Matches
<1>9. TombstoneExcludesRecord'
  BY DEF NextNonce, FenceInvariant, TombstoneExcludesRecord, TransferCreation, Install
<1>10. NoRunOnTerminalThread'
  BY DEF NextNonce, FenceInvariant, NoRunOnTerminalThread, CheckedRecord, LeasesFenced, LeaseShape,
         LeasesTracked, TokenShape, ReservationCurrent, TombstoneExcludesRecord, Holding,
         Matches, Reserved, Draining, Operation, LifecycleKinds, TransferCreation, Install
<1> QED BY <1>1, <1>2, <1>3, <1>4, <1>5, <1>6, <1>7, <1>8, <1>9, <1>10 DEF FenceInvariant

\* A dropped store delete settles to its prior state.
LEMMA CancellationPreserves ==
  ASSUME TypeOK, FenceInvariant, NEW m \in Mutators, CancelStoreDelete(m)
  PROVE  FenceInvariant'
<1> USE DEF TypeOK, durable, entries, calib, lease, resv, const, Goto, Actors
<1>1. LeaseShape'
  BY DEF FenceInvariant, LeaseShape, CancelStoreDelete
<1>2. TokenShape'
  BY DEF FenceInvariant, TokenShape, Operation, LifecycleKinds, Draining,
         CancelStoreDelete
<1>3. LeasesFenced'
  BY DEF FenceInvariant, LeasesFenced, ReservationCurrent, LeasesTracked, LeaseShape,
         Holding, Matches, Reserved, Draining, Stable, Owned, CancelStoreDelete
<1>4. CachedTombstones'
  BY DEF FenceInvariant, CachedTombstones, TombstoneExcludesRecord, Stable,
         CancelStoreDelete
<1>5. CheckedRecord'
  BY DEF FenceInvariant, CheckedRecord, TombstoneExcludesRecord, LeasesTracked,
         LeasesFenced, ReservationCurrent, TokenShape, Holding, Matches, Reserved,
         Draining, Operation, LifecycleKinds, CancelStoreDelete
<1>6. LeasesTracked'
  BY DEF FenceInvariant, LeasesTracked, Holding, CancelStoreDelete
<1>7. ReservationCurrent'
  BY DEF FenceInvariant, ReservationCurrent, Matches, Reserved, Draining, Stable, Owned,
         CancelStoreDelete
<1>8. NoAbandonedFence'
  BY DEF FenceInvariant, NoAbandonedFence, ReservationCurrent, Matches, Reserved, Draining,
         Stable, Owned, CancelStoreDelete
<1>9. TombstoneExcludesRecord'
  BY DEF FenceInvariant, TombstoneExcludesRecord, CancelStoreDelete
<1>10. NoRunOnTerminalThread'
  BY DEF FenceInvariant, NoRunOnTerminalThread, CheckedRecord, LeasesFenced, LeaseShape,
         LeasesTracked, TokenShape, ReservationCurrent, TombstoneExcludesRecord, Holding,
         Matches, Reserved, Draining, Operation, LifecycleKinds, CancelStoreDelete
<1> QED BY <1>1, <1>2, <1>3, <1>4, <1>5, <1>6, <1>7, <1>8, <1>9, <1>10 DEF FenceInvariant

\* A record is written on a live thread only.
LEMMA WritePreserves ==
  ASSUME TypeOK, FenceInvariant, NEW t \in Threads, WriteRecord(t)
  PROVE  FenceInvariant'
<1> USE DEF TypeOK, durable, entries, calib, lease, resv, const, Goto, Actors
<1>1. LeaseShape'
  BY DEF FenceInvariant, LeaseShape, WriteRecord
<1>2. TokenShape'
  BY DEF FenceInvariant, TokenShape, Operation, LifecycleKinds, Draining, WriteRecord
<1>3. LeasesFenced'
  BY DEF FenceInvariant, LeasesFenced, ReservationCurrent, LeasesTracked, LeaseShape,
         Holding, Matches, Reserved, Draining, Stable, Owned, WriteRecord
<1>4. CachedTombstones'
  BY DEF FenceInvariant, CachedTombstones, TombstoneExcludesRecord, Stable, WriteRecord
<1>5. CheckedRecord'
  BY DEF FenceInvariant, CheckedRecord, TombstoneExcludesRecord, LeasesTracked,
         LeasesFenced, ReservationCurrent, TokenShape, Holding, Matches, Reserved,
         Draining, Operation, LifecycleKinds, WriteRecord
<1>6. LeasesTracked'
  BY DEF FenceInvariant, LeasesTracked, Holding, WriteRecord
<1>7. ReservationCurrent'
  BY DEF FenceInvariant, ReservationCurrent, Matches, Reserved, Draining, Stable, Owned,
         WriteRecord
<1>8. NoAbandonedFence'
  BY DEF FenceInvariant, NoAbandonedFence, ReservationCurrent, Matches, Reserved, Draining,
         Stable, Owned, WriteRecord
<1>9. TombstoneExcludesRecord'
  BY DEF FenceInvariant, TombstoneExcludesRecord, WriteRecord
<1>10. NoRunOnTerminalThread'
  BY DEF FenceInvariant, NoRunOnTerminalThread, CheckedRecord, LeasesFenced, LeaseShape,
         LeasesTracked, TokenShape, ReservationCurrent, TombstoneExcludesRecord, Holding,
         Matches, Reserved, Draining, Operation, LifecycleKinds, WriteRecord
<1> QED BY <1>1, <1>2, <1>3, <1>4, <1>5, <1>6, <1>7, <1>8, <1>9, <1>10 DEF FenceInvariant

\* Nothing is held after a crash.
LEMMA CrashPreserves ==
  ASSUME TypeOK, FenceInvariant, Crash
  PROVE  FenceInvariant'
<1> USE DEF TypeOK, durable, entries, calib, lease, resv, const, Goto, Actors
<1>1. LeaseShape'
  BY DEF FenceInvariant, LeaseShape, Crash
<1>2. TokenShape'
  BY DEF FenceInvariant, TokenShape, Operation, LifecycleKinds, Draining, Crash
<1>3. LeasesFenced'
  BY DEF FenceInvariant, LeasesFenced, ReservationCurrent, LeasesTracked, LeaseShape,
         Holding, Matches, Reserved, Draining, Stable, Owned, Crash
<1>4. CachedTombstones'
  BY DEF FenceInvariant, CachedTombstones, TombstoneExcludesRecord, Stable, Crash
<1>5. CheckedRecord'
  BY DEF FenceInvariant, CheckedRecord, TombstoneExcludesRecord, LeasesTracked,
         LeasesFenced, ReservationCurrent, TokenShape, Holding, Matches, Reserved,
         Draining, Operation, LifecycleKinds, Crash
<1>6. LeasesTracked'
  BY DEF FenceInvariant, LeasesTracked, Holding, Crash
<1>7. ReservationCurrent'
  BY DEF FenceInvariant, ReservationCurrent, Matches, Reserved, Draining, Stable, Owned,
         Crash
<1>8. NoAbandonedFence'
  BY DEF FenceInvariant, NoAbandonedFence, ReservationCurrent, Matches, Reserved, Draining,
         Stable, Owned, Crash
<1>9. TombstoneExcludesRecord'
  BY DEF FenceInvariant, TombstoneExcludesRecord, Crash
<1>10. NoRunOnTerminalThread'
  BY DEF FenceInvariant, NoRunOnTerminalThread, CheckedRecord, LeasesFenced, LeaseShape,
         LeasesTracked, TokenShape, ReservationCurrent, TombstoneExcludesRecord, Holding,
         Matches, Reserved, Draining, Operation, LifecycleKinds, Crash
<1> QED BY <1>1, <1>2, <1>3, <1>4, <1>5, <1>6, <1>7, <1>8, <1>9, <1>10 DEF FenceInvariant

-----------------------------------------------------------------------------
(* The transactions: the only steps that write a tombstone.                 *)

\* What any lifecycle verdict guarantees about the durable rows.
Effect(v, op, exists, term, reserved) ==
    /\ v \in Verdicts
    /\ v.tombstone = "keep" => v.settles = term /\ ~v.drops
    /\ v.tombstone # "keep" =>
         /\ v.settles = v.tombstone /\ v.tombstone \in {"archived", "deleted"}
         /\ v.drops \/ ~exists
         /\ v.tombstone = "archived" => term = "live"
         /\ term # "deleted"
         /\ term = "live" /\ exists =>
              /\ reserved # "deciding"
              /\ op = "archive" => v.tombstone = "archived"
              /\ op # "archive" => v.tombstone = "deleted"

LEMMA VerdictEffect ==
  ASSUME NEW op, NEW exists \in BOOLEAN, NEW term \in Stable, NEW reserved,
         NEW v \in LifecycleVerdicts(op, exists, term, reserved)
                     \cup {Verdict(term, "keep", FALSE)}
  PROVE  Effect(v, op, exists, term, reserved)
<1> USE DEF Effect
<1> DEFINE forced == reserved = "deciding"
           keep == Verdict(term, "keep", FALSE)
           destroy == Verdict("deleted", "deleted", TRUE)
           archive == Verdict("archived", "archived", exists)
           verdicts == LifecycleVerdicts(op, exists, term, reserved)
<1>a. op = "archive" =>
        verdicts = IF term = "live" /\ ~(exists /\ forced) THEN {archive} ELSE {keep}
  BY Zenon DEF LifecycleVerdicts
<1>d. op # "archive" =>
        verdicts = IF term = "archived" THEN {destroy}
                   ELSE IF term = "live" /\ exists /\ ~forced THEN {destroy, keep} ELSE {keep}
  BY Zenon DEF LifecycleVerdicts
<1>1. CASE v = keep
  BY <1>1 DEF Verdict, Verdicts
<1>2. CASE v # keep /\ op = "archive"
  <2>1. v = archive /\ term = "live" /\ ~(exists /\ forced)
    BY <1>2, <1>a DEF Verdict
  <2> QED BY <1>2, <2>1 DEF Verdict, Verdicts, Stable
<1>3. CASE v # keep /\ op # "archive"
  <2>1. v = destroy /\ (term = "archived" \/ (term = "live" /\ exists /\ ~forced))
    BY <1>3, <1>d DEF Verdict
  <2> QED BY <1>3, <2>1 DEF Verdict, Verdicts, Stable
<1> QED BY <1>1, <1>2, <1>3

\* A tombstone over a live record is written only under an archive reservation,
\* whose leases are all dead, or a drained delete, which has none.
LEMMA CommitPreserves ==
  ASSUME TypeOK, FenceInvariant, NEW m \in Mutators, pc[m] = "tx",
         NEW v \in Verdicts, Commit(thread[m], v), Goto(m, "settle"),
         NEW s \in Stable, target' = [target EXCEPT ![m] = s],
         v.tombstone = "keep" => ~v.drops,
         v.tombstone # "keep" =>
            /\ v.tombstone \in {"archived", "deleted"}
            /\ v.drops \/ ~record[thread[m]]
            /\ terminal[thread[m]] = "live" /\ record[thread[m]]
                 => token[m].state \in {"archiving", "deleting"},
         s \in {"archived", "deleted"} => terminal'[thread[m]] # "live",
         UNCHANGED <<state, epoch, owner, leases, thread, valid, active, token, prior, kind,
                     seenTerminal>>
  PROVE  FenceInvariant'
<1> USE DEF Goto, Actors
<1>t. m \in Actors /\ thread[m] \in Threads /\ Matches(m)
  BY DEF TypeOK, FenceInvariant, ReservationCurrent, Reserved
<1>d. \A u \in Threads \ {thread[m]} : terminal'[u] = terminal[u] /\ record'[u] = record[u]
  BY DEF Commit, TypeOK
<1>k. v.tombstone = "keep" => UNCHANGED <<record, terminal>>
  BY DEF Commit
<1>w. v.tombstone # "keep" => terminal'[thread[m]] # "live" /\ ~record'[thread[m]]
  BY <1>t DEF Commit, TypeOK, Verdicts
<1>f. ASSUME NEW r \in Requests, thread[r] = thread[m], pc[r] \in Holding,
             terminal[thread[r]] = "live", record[thread[r]], v.tombstone # "keep"
      PROVE  ~valid[r] /\ ~active[r]
  <2>1. r \in leases[thread[m]]
    BY <1>f, <1>t DEF FenceInvariant, LeasesTracked
  <2>2. token[m].state = "archiving"
    <3>1. token[m].state # "deleting"
      BY <2>1 DEF FenceInvariant, LeasesFenced
    <3> QED BY <1>f, <3>1
  <2>3. state[thread[m]] = "archiving"
    BY <1>t, <2>2 DEF Matches
  <2> QED BY <1>t, <2>1, <2>3 DEF FenceInvariant, LeasesFenced
<1>p. pc' = [pc EXCEPT ![m] = "settle"] /\ \A r \in Requests : pc'[r] = pc[r]
  BY DEF TypeOK
<1>1. LeaseShape' /\ LeasesTracked'
  BY <1>p DEF FenceInvariant, LeaseShape, LeasesTracked
<1>2. TokenShape' /\ LeasesFenced'
  BY <1>p DEF FenceInvariant, TokenShape, LeasesFenced, Operation, Draining, TypeOK
<1>3. CachedTombstones'
  <2>1. \A u \in Threads : terminal[u] # "live" => terminal'[u] # "live"
    BY <1>d, <1>k, <1>w
  <2>2. \A a \in Actors : thread[a] \in Threads
    BY DEF TypeOK
  <2>3. \A n \in Mutators \ {m} : target'[n] = target[n]
    BY DEF TypeOK
  <2>4. target'[m] = s
    BY DEF TypeOK
  <2> QED BY <2>1, <2>2, <2>3, <2>4 DEF FenceInvariant, CachedTombstones
<1>4. CheckedRecord' /\ NoRunOnTerminalThread'
  <2> SUFFICES ASSUME NEW r \in Requests,
                      active[r] \/ (valid[r] /\ pc[r] \in {"checked", "admitted", "active", "running"})
               PROVE  terminal'[thread[r]] = "live" /\ record'[thread[r]]
    BY <1>p DEF CheckedRecord, NoRunOnTerminalThread
  <2>1. terminal[thread[r]] = "live" /\ record[thread[r]]
    BY DEF FenceInvariant, CheckedRecord, NoRunOnTerminalThread
  <2>2. pc[r] \in Holding /\ thread[r] \in Threads
    BY DEF FenceInvariant, LeaseShape, Holding, TypeOK
  <2>3. CASE thread[r] # thread[m]
    BY <2>1, <2>2, <2>3, <1>d
  <2>4. CASE thread[r] = thread[m]
    BY <2>1, <2>2, <2>4, <1>f, <1>k
  <2> QED BY <2>3, <2>4
<1>5. ReservationCurrent' /\ NoAbandonedFence'
  BY <1>p DEF FenceInvariant, ReservationCurrent, NoAbandonedFence, Matches, Reserved, TypeOK
<1>6. TombstoneExcludesRecord'
  BY <1>d, <1>k, <1>w DEF FenceInvariant, TombstoneExcludesRecord
<1> QED BY <1>1, <1>2, <1>3, <1>4, <1>5, <1>6 DEF FenceInvariant

\* The two transactions as instances of CommitPreserves; the verdict is named
\* for the proofs about what they destroy.
LEMMA TransactionEffect ==
  ASSUME TypeOK, FenceInvariant, NEW m \in Mutators,
         LifecycleTransaction(m) \/ StoreDeleteTransaction(m)
  PROVE  /\ thread[m] \in Threads /\ pc[m] = "tx" /\ Goto(m, "settle")
         /\ UNCHANGED <<state, epoch, owner, leases, thread, valid, active, token, prior, kind,
                        seenTerminal>>
         /\ \E v \in Verdicts, s \in Stable :
              /\ Commit(thread[m], v)
              /\ target' = [target EXCEPT ![m] = s]
              /\ v.tombstone = "keep" => ~v.drops
              /\ v.tombstone # "keep" =>
                   /\ v.tombstone \in {"archived", "deleted"}
                   /\ v.drops \/ ~record[thread[m]]
                   /\ v.tombstone = "archived" => terminal[thread[m]] = "live"
                   /\ terminal[thread[m]] # "deleted"
                   /\ terminal[thread[m]] = "live" /\ record[thread[m]]
                        => \/ v.tombstone = "archived" /\ token[m].state = "archiving"
                           \/ v.tombstone = "deleted" /\ token[m].state = "deleting"
              /\ s \in {"archived", "deleted"} => terminal'[thread[m]] # "live"
<1> USE DEF durable, entries, calib, lease, resv, const, Actors
<1>t. /\ thread[m] \in Threads /\ record[thread[m]] \in BOOLEAN
      /\ terminal[thread[m]] \in Stable /\ token[m].state \in Owned
  BY DEF TypeOK
<1>u. /\ pc[m] = "tx" /\ Goto(m, "settle")
      /\ UNCHANGED <<state, epoch, owner, leases, thread, valid, active, token, prior, kind,
                     seenTerminal>>
  BY DEF LifecycleTransaction, StoreDeleteTransaction
<1>1. CASE LifecycleTransaction(m)
  <2>1. PICK v \in LifecycleVerdicts(Operation(m), record[thread[m]], terminal[thread[m]],
                                     token[m].state)
                     \cup {Verdict(terminal[thread[m]], "keep", FALSE)} :
           Commit(thread[m], v) /\ target' = [target EXCEPT ![m] = v.settles]
    BY <1>1 DEF LifecycleTransaction
  <2>2. Effect(v, Operation(m), record[thread[m]], terminal[thread[m]], token[m].state)
    BY <1>t, <2>1, VerdictEffect
  <2>3. IF Operation(m) = "archive" THEN token[m].state \in {"deciding", "archiving"}
                                    ELSE token[m].state \in {"deciding", "deleting"}
    BY <1>1, <1>u DEF LifecycleTransaction, FenceInvariant, TokenShape
  <2>4. v.settles \in Stable
    BY <2>2 DEF Effect, Verdicts
  <2>5. v.settles \in {"archived", "deleted"} => terminal'[thread[m]] # "live"
    <3>1. CASE v.tombstone = "keep"
      BY <2>1, <2>2, <3>1 DEF Commit, Effect
    <3>2. CASE v.tombstone # "keep"
      <4>1. terminal'[thread[m]] = v.tombstone
        BY <1>t, <2>1, <3>2 DEF Commit, TypeOK
      <4> QED BY <2>2, <3>2, <4>1 DEF Effect
    <3> QED BY <3>1, <3>2
  <2> QED BY <1>t, <1>u, <2>1, <2>2, <2>3, <2>4, <2>5 DEF Effect
<1>2. CASE StoreDeleteTransaction(m)
  <2> DEFINE destroys == \/ terminal[thread[m]] = "archived"
                         \/ terminal[thread[m]] = "live" /\ record[thread[m]]
             v == IF destroys THEN Verdict("deleted", "deleted", TRUE)
                              ELSE Verdict("live", "keep", FALSE)
             s == IF cancelled[m] THEN prior[m]
                  ELSE IF (destroys /\ record[thread[m]]) \/ prior[m] # "live"
                    THEN "deleted" ELSE "live"
  <2>1. Commit(thread[m], v) /\ target' = [target EXCEPT ![m] = s]
    BY <1>2 DEF StoreDeleteTransaction
  <2>2. v \in Verdicts /\ s \in Stable
    BY DEF Verdict, Verdicts, Stable, TypeOK
  <2>3. token[m].state = "deleting"
    BY <1>2 DEF StoreDeleteTransaction, FenceInvariant, TokenShape
  <2>4. /\ v.tombstone = "keep" => ~v.drops
        /\ v.tombstone # "keep" => v.tombstone = "deleted" /\ v.drops /\ destroys
        /\ destroys => v.tombstone = "deleted"
    BY DEF Verdict
  <2>5. prior[m] # "live" => terminal[thread[m]] # "live"
    BY DEF FenceInvariant, CachedTombstones, TypeOK, Stable
  <2>6. s \in {"archived", "deleted"} => terminal'[thread[m]] # "live"
    BY <1>t, <2>1, <2>4, <2>5 DEF Commit, TypeOK
  <2> HIDE DEF v, s
  <2> QED BY <1>t, <1>u, <2>1, <2>2, <2>3, <2>4, <2>6
<1> QED BY <1>1, <1>2

LEMMA TransactionPreserves ==
  ASSUME TypeOK, FenceInvariant, NEW m \in Mutators,
         LifecycleTransaction(m) \/ StoreDeleteTransaction(m)
  PROVE  FenceInvariant'
  BY TransactionEffect, CommitPreserves

-----------------------------------------------------------------------------
(* The invariant, and what follows from it.                                 *)

LEMMA StepFence == TypeOK /\ FenceInvariant /\ [Next]_vars => FenceInvariant'
<1> SUFFICES ASSUME TypeOK, FenceInvariant, [Next]_vars PROVE FenceInvariant'
    OBVIOUS
<1>a. Requests \subseteq Actors /\ Mutators \subseteq Actors
  BY DEF Actors
<1>s. \A b \in Actors : seenTerminal[b] \in {"archived", "deleted"} => terminal[thread[b]] # "live"
  BY DEF FenceInvariant, CachedTombstones
<1> USE DEF durable, entries, calib, lease, resv, const
<1>1. ASSUME NEW a \in Actors, Start(a) \/ CalibStep(a) PROVE FenceInvariant'
  <2>1. CASE Start(a)
    BY <2>1, <1>s, EarlyMove DEF Start, shared, Early
  <2>2. CASE Calibrated(a)
    BY <2>2, <1>s, EarlyMove DEF Calibrated, shared, Early
  <2>3. CASE CalibRead(a)
    <3>1. PICK v \in {terminal[thread[a]], "error"} : seenTerminal' = [seenTerminal EXCEPT ![a] = v]
      BY <2>3 DEF CalibRead
    <3>2. \A b \in Actors : seenTerminal'[b] \in {"archived", "deleted"}
                               => terminal[thread[b]] # "live"
      BY <3>1, <1>s DEF TypeOK
    <3>3. pc[a] = "read" /\ Goto(a, "install") /\ UNCHANGED shared
      BY <2>3 DEF CalibRead, shared
    <3> QED BY <3>2, <3>3, EarlyMove DEF Early
  <2> QED BY <1>1, <2>1, <2>2, <2>3, CalibrationBegins, CalibrationInstalls DEF CalibStep
<1>2. ASSUME NEW r \in Requests, RequestStep(r) \/ Abandon(r) \/ RunEnds(r)
      PROVE  FenceInvariant'
  <2>1. CASE CheckRecord(r)
    BY <2>1, LeaseMove DEF CheckRecord, shared, Holding, FenceInvariant, LeaseShape,
                           TombstoneExcludesRecord, TypeOK, Actors
  <2>2. CASE EnsureValid(r)
    BY <2>2, LeaseMove DEF EnsureValid, shared, Holding, FenceInvariant, LeaseShape, CheckedRecord
  <2>3. CASE Publish(r)
    BY <2>3, LeaseMove DEF Publish, shared, Holding, FenceInvariant, LeaseShape, CheckedRecord
  <2>4. CASE Abandon(r) \/ RunEnds(r)
    BY <2>4, LeaseMove DEF Abandon, RunEnds, shared, Holding
  <2> QED BY <1>1, <1>2, <1>a, <2>1, <2>2, <2>3, <2>4, RequestReserves, PromotionPreserves,
             ReleasePreserves DEF RequestStep
<1>3. ASSUME NEW m \in Mutators, MutatorStep(m) \/ AbortOwner(m) \/ CancelStoreDelete(m)
      PROVE  FenceInvariant'
  <2>1. CASE LookupRecord(m) \/ ReserveUnavailable(m)
    BY <2>1, <1>a, <1>s, EarlyMove DEF LookupRecord, ReserveUnavailable, shared, Early
  <2>2. ASSUME NEW r \in Requests, DrainAbort(m, r) PROVE FenceInvariant'
    BY <2>2, LeaseMove DEF DrainAbort, shared, Holding
  <2>3. CASE DrainAborted(m) \/ DrainArm(m) \/ DrainWait(m)
    <3>1. /\ pc[m] \in Draining /\ token[m].state = "deleting"
          /\ kind[m] \in {"delete", "store_delete"}
      BY <2>3 DEF DrainAborted, DrainArm, DrainWait, Draining, FenceInvariant, TokenShape
    <3>2. PICK l \in {"settle", "arm", "check"} : Goto(m, l)
      BY <2>3 DEF DrainAborted, DrainArm, DrainWait
    <3>3. UNCHANGED shared /\ UNCHANGED seenTerminal
      BY <2>3 DEF DrainAborted, DrainArm, DrainWait, shared
    <3> QED BY <3>1, <3>2, <3>3, OwnerMove DEF Reserved, Draining
  <2>4. CASE CreationSettles(m) \/ TransactionFails(m)
    BY <2>4, OwnerMove DEF CreationSettles, TransactionFails, shared, Reserved, Draining
  <2>5. CASE AbortOwner(m)
    BY <2>5 DEF AbortOwner, FenceInvariant, LeaseShape, TokenShape, LeasesFenced,
                CachedTombstones, CheckedRecord, LeasesTracked, ReservationCurrent,
                NoAbandonedFence, TombstoneExcludesRecord, NoRunOnTerminalThread,
                Matches, Operation
  <2> QED BY <1>1, <1>3, <1>a, <2>1, <2>2, <2>3, <2>4, <2>5, ReservePreserves, DrainPasses,
             TransactionPreserves, CreationCommits, SettlementPreserves,
             CancellationPreserves DEF MutatorStep, DrainStep
<1>4. CASE UNCHANGED vars
  BY <1>4 DEF vars, FenceInvariant, LeaseShape, TokenShape, LeasesFenced, CachedTombstones,
              CheckedRecord, LeasesTracked, ReservationCurrent, NoAbandonedFence,
              TombstoneExcludesRecord, NoRunOnTerminalThread, Matches, Operation
<1> QED BY <1>1, <1>2, <1>3, <1>4, TransferPreserves, WritePreserves, CrashPreserves
        DEF Next, Finished

\* The reservation, lease and tombstone facts hold together in every reachable
\* state, for any number of concurrent operations, threads and crashes.
THEOREM FenceHolds == Spec => []FenceInvariant
<1>1. Init => TypeOK /\ FenceInvariant
  BY InitTypeOK, InitFence
<1>2. TypeOK /\ FenceInvariant /\ [Next]_vars => (TypeOK /\ FenceInvariant)'
  BY StepTypeOK, StepFence
<1> QED BY <1>1, <1>2, PTL DEF Spec

\* No promoted run ever meets a tombstone.
THEOREM RunsOnlyOnLiveThreads == Spec => []NoRunOnTerminalThread
<1>1. FenceInvariant => NoRunOnTerminalThread
  BY DEF FenceInvariant
<1> QED BY <1>1, FenceHolds, PTL

\* The coordinator's books balance: leases are tracked, reservations current,
\* fences owned, and no tombstoned thread keeps its record.
THEOREM BooksBalance ==
  Spec => [](LeasesTracked /\ ReservationCurrent /\ NoAbandonedFence /\ TombstoneExcludesRecord)
<1>1. FenceInvariant =>
        LeasesTracked /\ ReservationCurrent /\ NoAbandonedFence /\ TombstoneExcludesRecord
  BY DEF FenceInvariant
<1> QED BY <1>1, FenceHolds, PTL

-----------------------------------------------------------------------------
(* What a transaction destroys, and the refinement of RunFence.             *)

LEMMA TransactionFence ==
  ASSUME TypeOK, FenceInvariant, NEW m \in Mutators,
         LifecycleTransaction(m) \/ StoreDeleteTransaction(m)
  PROVE  LET t == thread[m] IN
         /\ t \in Threads
         /\ UNCHANGED <<leases, valid, active>>
         /\ \A u \in Threads \ {t} : terminal'[u] = terminal[u] /\ record'[u] = record[u]
         /\ \/ UNCHANGED <<record, terminal>>
            \/ /\ \E s \in {"archived", "deleted"} :
                    /\ terminal' = [terminal EXCEPT ![t] = s]
                    /\ s = "archived" => terminal[t] = "live"
                    /\ terminal[t] # "deleted"
                    /\ terminal[t] = "live" /\ record[t] /\ s = "deleted" => leases[t] = {}
               /\ \A r \in leases[t] : ~active[r]
               /\ terminal[t] = "live" /\ record[t] => \A r \in leases[t] : ~valid[r]
<1> DEFINE t == thread[m]
<1>1. PICK v \in Verdicts, s \in Stable :
        /\ Commit(t, v)
        /\ v.tombstone = "keep" => ~v.drops
        /\ v.tombstone # "keep" =>
             /\ v.tombstone \in {"archived", "deleted"}
             /\ v.tombstone = "archived" => terminal[t] = "live"
             /\ terminal[t] # "deleted"
             /\ terminal[t] = "live" /\ record[t]
                  => \/ v.tombstone = "archived" /\ token[m].state = "archiving"
                     \/ v.tombstone = "deleted" /\ token[m].state = "deleting"
  BY TransactionEffect
<1>2. t \in Threads /\ pc[m] = "tx" /\ UNCHANGED <<leases, valid, active>>
  BY TransactionEffect
<1>3. \A u \in Threads \ {t} : terminal'[u] = terminal[u] /\ record'[u] = record[u]
  BY <1>1 DEF Commit, TypeOK
<1>4. CASE v.tombstone = "keep"
  <2>1. UNCHANGED <<record, terminal>>
    BY <1>1, <1>4 DEF Commit
  <2> QED BY <1>2, <1>3, <2>1
<1>5. CASE v.tombstone # "keep"
  <2>1. terminal' = [terminal EXCEPT ![t] = v.tombstone]
    BY <1>1, <1>5 DEF Commit
  <2>2. Matches(m)
    BY <1>2 DEF FenceInvariant, ReservationCurrent, Reserved
  <2>3. token[m].state = "deleting" => leases[t] = {}
    BY <1>2 DEF FenceInvariant, LeasesFenced
  <2>4. token[m].state = "archiving" => \A r \in leases[t] : ~valid[r] /\ ~active[r]
    BY <1>2, <2>2 DEF FenceInvariant, LeasesFenced, Matches
  <2>5. ~(terminal[t] = "live" /\ record[t]) => \A r \in leases[t] : ~active[r]
    BY <1>2 DEF FenceInvariant, LeasesTracked, NoRunOnTerminalThread
  <2> QED BY <1>1, <1>2, <1>3, <1>5, <2>1, <2>3, <2>4, <2>5
<1> QED BY <1>4, <1>5

\* Only the two transactions and a record write touch the durable rows.
LEMMA DurableSteps ==
  ASSUME TypeOK, [Next]_vars
  PROVE  \/ UNCHANGED terminal /\ \A t \in Threads : record[t] => record'[t]
         \/ \E m \in Mutators : LifecycleTransaction(m) \/ StoreDeleteTransaction(m)
<1> USE DEF durable, entries, calib, lease, resv, const
<1>1. ASSUME NEW a \in Actors, Start(a) \/ CalibStep(a) PROVE UNCHANGED durable
  BY <1>1 DEF AfterRead, Start, CalibStep, Calibrated, CalibBegin, CalibRead, CalibInstall
<1>2. ASSUME NEW r \in Requests, RequestStep(r) \/ Abandon(r) \/ RunEnds(r)
      PROVE  UNCHANGED durable
  BY <1>1, <1>2 DEF RemoveLease, RequestStep, ReserveRequest, CheckRecord, EnsureValid, Promote, Publish,
                    ReleaseLease, Abandon, RunEnds, Actors
<1>3. ASSUME NEW m \in Mutators, CreateTransaction(m) \/ (\E t \in Threads : WriteRecord(t))
      PROVE  UNCHANGED terminal /\ \A t \in Threads : record[t] => record'[t]
  BY <1>3 DEF CreateTransaction, WriteRecord, TypeOK
<1>4. ASSUME NEW m \in Mutators, MutatorStep(m) \/ AbortOwner(m) \/ CancelStoreDelete(m),
             ~LifecycleTransaction(m), ~StoreDeleteTransaction(m), ~CreateTransaction(m)
      PROVE  UNCHANGED durable
  <2>1. CASE DrainStep(m)
    BY <2>1 DEF DrainStep, DrainAbort, DrainAborted, DrainArm, DrainCheck, DrainWait
  <2>2. CASE ReserveArchive(m) \/ ReserveDecision(m) \/ ReserveDelete(m) \/ ReserveCreation(m)
    BY <2>2 DEF NextNonce, ReserveArchive, ReserveDecision, ReserveDelete, ReserveCreation, InstallReservation
  <2> QED BY <1>1, <1>4, <2>1, <2>2
          DEF MutatorStep, LookupRecord, ReserveUnavailable, TransactionFails, CreationSettles,
              SettleReservation, AbortOwner, CancelStoreDelete, Actors
<1>5. ASSUME NEW t \in Threads, WriteRecord(t)
      PROVE  UNCHANGED terminal /\ \A u \in Threads : record[u] => record'[u]
  BY <1>5 DEF WriteRecord, TypeOK
<1>6. CASE Crash \/ UNCHANGED vars
  BY <1>6 DEF Crash, vars
<1>7. ASSUME NEW m \in Mutators, NEW r \in Requests, TransferCreation(m, r)
      PROVE  UNCHANGED durable
  BY <1>7 DEF TransferCreation
<1> QED BY <1>1, <1>2, <1>3, <1>4, <1>5, <1>6, <1>7 DEF Next, Finished

\* A live thread's record is destroyed by a delete only when no lease is left,
\* and by an archive only when none can run any more.
THEOREM DestroyIsFenced == Spec => DestroyFenced
<1>1. TypeOK /\ FenceInvariant /\ [Next]_vars =>
        [\A t \in Threads :
           (terminal[t] = "live" /\ record[t] /\ ~record'[t]) =>
              IF terminal'[t] = "deleted"
                THEN leases[t] = {}
                ELSE \A r \in leases[t] : ~valid[r] /\ ~active[r]]_vars
  <2> SUFFICES ASSUME TypeOK, FenceInvariant, [Next]_vars, NEW t \in Threads,
                      terminal[t] = "live", record[t], ~record'[t]
               PROVE  IF terminal'[t] = "deleted"
                        THEN leases[t] = {}
                        ELSE \A r \in leases[t] : ~valid[r] /\ ~active[r]
    OBVIOUS
  <2>1. PICK m \in Mutators : LifecycleTransaction(m) \/ StoreDeleteTransaction(m)
    BY DurableSteps
  <2>2. t = thread[m] /\ ~UNCHANGED record
    BY <2>1, TransactionFence
  <2>3. PICK s \in {"archived", "deleted"} :
           /\ terminal' = [terminal EXCEPT ![t] = s]
           /\ s = "deleted" => leases[t] = {}
    BY <2>1, <2>2, TransactionFence
  <2>4. \A r \in leases[t] : ~valid[r] /\ ~active[r]
    BY <2>1, <2>2, TransactionFence
  <2>5. terminal'[t] = s
    BY <2>3 DEF TypeOK
  <2> QED BY <2>3, <2>4, <2>5
<1> QED BY <1>1, TypeCorrect, FenceHolds, PTL DEF Spec, DestroyFenced

\* The refinement mapping: the promoted runs of each thread.
Runs == [t \in Threads |-> {r \in leases[t] : active[r]}]

LEMMA RunsKept ==
  ASSUME TypeOK, UNCHANGED terminal,
         \A t \in Threads, r \in Requests :
            r \in leases'[t] /\ active'[r] <=> r \in leases[t] /\ active[r],
         leases' \in [Threads -> SUBSET Requests]
  PROVE  UNCHANGED Fence!vars
<1>1. Runs' = Runs
  BY DEF Runs, TypeOK
<1> QED BY <1>1 DEF Runs, Fence!vars

LEMMA RunsExcept ==
  ASSUME NEW u \in Threads, NEW S, Runs'[u] = S,
         \A t \in Threads \ {u} : Runs'[t] = Runs[t]
  PROVE  Runs' = [Runs EXCEPT ![u] = S]
<1>1. /\ Runs = [t \in Threads |-> Runs[t]]
      /\ Runs' = [t \in Threads |-> Runs'[t]]
  BY DEF Runs
<1>2. [Runs EXCEPT ![u] = S] = [t \in Threads |-> IF t = u THEN S ELSE Runs[t]]
  BY <1>1
<1> QED BY <1>1, <1>2

LEMMA RefineInit == Init => Fence!Init
  BY DEF Init, Fence!Init, Stable

\* Every step of the coordinator is a step of the fence or invisible to it.
LEMMA RefineStep ==
  TypeOK /\ TypeOK' /\ FenceInvariant /\ [Next]_vars => [Fence!Next]_(Fence!vars)
<1> SUFFICES ASSUME TypeOK, TypeOK', FenceInvariant, [Next]_vars
             PROVE  [Fence!Next]_(Fence!vars)
    OBVIOUS
<1>l. leases' \in [Threads -> SUBSET Requests]
  BY DEF TypeOK
<1>k. UNCHANGED <<terminal, leases, active>> => UNCHANGED Fence!vars
  BY <1>l, RunsKept
<1> USE DEF durable, entries, calib, lease, resv, const
<1>1. ASSUME NEW a \in Actors, Start(a) \/ CalibStep(a) PROVE UNCHANGED Fence!vars
  BY <1>1, <1>k DEF AfterRead, Start, CalibStep, Calibrated, CalibBegin, CalibRead, CalibInstall
<1>2. ASSUME NEW r \in Requests, RequestStep(r) \/ Abandon(r) \/ RunEnds(r)
      PROVE  [Fence!Next]_(Fence!vars)
  <2>t. thread[r] \in Threads
    BY DEF TypeOK, Actors
  <2>1. CASE ReserveRequest(r)
    <3>1. ~active[r] /\ active' = active /\ UNCHANGED terminal
      BY <2>1 DEF ReserveRequest, FenceInvariant, LeaseShape
    <3>2. \A t \in Threads, q \in Requests \ {r} : q \in leases'[t] <=> q \in leases[t]
      BY <2>1, <2>t, SMTT(30) DEF ReserveRequest, TypeOK
    <3> QED BY <1>l, <3>1, <3>2, RunsKept
  <2>2. CASE Promote(r)
    <3>1. CASE UNCHANGED active
      BY <1>k, <2>2, <3>1 DEF Promote
    <3>2. CASE active' = [active EXCEPT ![r] = TRUE] /\ r \in leases[thread[r]] /\ valid[r]
      <4>1. terminal[thread[r]] = "live"
        BY <2>2, <3>2 DEF Promote, FenceInvariant, CheckedRecord
      <4>2. \A t \in Threads \ {thread[r]} : r \notin leases[t]
        BY DEF FenceInvariant, LeasesTracked
      <4>3. Runs' = [Runs EXCEPT ![thread[r]] = @ \cup {r}]
        <5>1. leases' = leases /\ thread' = thread
          BY <2>2 DEF Promote
        <5>2. active'[r] /\ \A q \in Requests \ {r} : active'[q] = active[q]
          BY <3>2 DEF TypeOK
        <5>3. Runs'[thread[r]] = Runs[thread[r]] \cup {r}
          BY <2>t, <3>2, <5>1, <5>2 DEF Runs, TypeOK
        <5>4. \A t \in Threads \ {thread[r]} : Runs'[t] = Runs[t]
          BY <4>2, <5>1, <5>2 DEF Runs, TypeOK
        <5> QED BY <2>t, <5>3, <5>4, RunsExcept
      <4>4. UNCHANGED terminal
        BY <2>2 DEF Promote
      <4>5. Fence!Begin(thread[r], r)
        BY <4>1, <4>3, <4>4 DEF Runs, Fence!Begin
      <4> QED BY <2>t, <4>5 DEF Fence!Next
    <3> QED BY <2>2, <3>1, <3>2 DEF Promote
  <2>3. CASE ReleaseLease(r)
    <3>1. /\ leases' = [leases EXCEPT ![thread[r]] = @ \ {r}]
          /\ active' = [active EXCEPT ![r] = FALSE] /\ UNCHANGED terminal
      BY <2>3 DEF RemoveLease, ReleaseLease
    <3>2. r \in leases[thread[r]] /\ \A t \in Threads \ {thread[r]} : r \notin leases[t]
      BY <2>3, <2>t DEF RemoveLease, ReleaseLease, FenceInvariant, LeasesTracked, Holding
    <3>3. CASE ~active[r]
      <4>1. \A t \in Threads, q \in Requests \ {r} : q \in leases'[t] <=> q \in leases[t]
        BY <3>1, <2>t DEF TypeOK
      <4>2. ~active'[r] /\ \A q \in Requests \ {r} : active'[q] = active[q]
        BY <3>1 DEF TypeOK
      <4> QED BY <1>l, <3>1, <3>3, <4>1, <4>2, RunsKept
    <3>4. CASE active[r]
      <4>1. Runs' = [Runs EXCEPT ![thread[r]] = @ \ {r}]
        <5>1. leases'[thread[r]] = leases[thread[r]] \ {r}
          BY <2>t, <3>1 DEF TypeOK
        <5>2. \A t \in Threads \ {thread[r]} : leases'[t] = leases[t]
          BY <3>1 DEF TypeOK
        <5>3. \A q \in Requests \ {r} : active'[q] = active[q]
          BY <3>1 DEF TypeOK
        <5>4. Runs'[thread[r]] = Runs[thread[r]] \ {r}
          BY <2>t, <5>1, <5>3 DEF Runs, TypeOK
        <5>5. \A t \in Threads \ {thread[r]} : Runs'[t] = Runs[t]
          BY <3>2, <5>2, <5>3 DEF Runs, TypeOK
        <5> QED BY <2>t, <5>4, <5>5, RunsExcept
      <4>2. r \in Runs[thread[r]]
        BY <2>t, <3>2, <3>4 DEF Runs
      <4>3. Fence!End(thread[r], r)
        BY <3>1, <4>1, <4>2 DEF Runs, Fence!End
      <4> QED BY <2>t, <4>3 DEF Fence!Next
    <3> QED BY <3>3, <3>4
  <2>4. CASE CheckRecord(r) \/ EnsureValid(r) \/ Publish(r) \/ Abandon(r) \/ RunEnds(r)
    BY <1>k, <2>4 DEF CheckRecord, EnsureValid, Publish, Abandon, RunEnds
  <2> QED BY <1>1, <1>2, <2>1, <2>2, <2>3, <2>4 DEF RequestStep, Actors
<1>3. ASSUME NEW m \in Mutators, LifecycleTransaction(m) \/ StoreDeleteTransaction(m)
      PROVE  [Fence!Next]_(Fence!vars)
  <2>1. thread[m] \in Threads /\ UNCHANGED <<leases, active>>
    BY <1>3, TransactionFence
  <2>2. CASE UNCHANGED <<record, terminal>>
    BY <1>k, <2>1, <2>2
  <2>3. CASE /\ \E s \in {"archived", "deleted"} :
                  /\ terminal' = [terminal EXCEPT ![thread[m]] = s]
                  /\ s = "archived" => terminal[thread[m]] = "live"
                  /\ terminal[thread[m]] # "deleted"
             /\ \A r \in leases[thread[m]] : ~active[r]
    <3>1. PICK s \in {"archived", "deleted"} :
             /\ terminal' = [terminal EXCEPT ![thread[m]] = s]
             /\ s = "archived" => terminal[thread[m]] = "live"
             /\ terminal[thread[m]] # "deleted"
      BY <2>3
    <3>2. Runs[thread[m]] = {} /\ Runs' = Runs
      BY <2>1, <2>3 DEF Runs
    <3>3. CASE s = "archived"
      <4>1. Fence!Archive(thread[m])
        BY <3>1, <3>2, <3>3 DEF Runs, Fence!Archive
      <4> QED BY <2>1, <4>1 DEF Fence!Next
    <3>4. CASE s = "deleted"
      <4>1. Fence!Delete(thread[m])
        BY <3>1, <3>2, <3>4 DEF Runs, Fence!Delete
      <4> QED BY <2>1, <4>1 DEF Fence!Next
    <3> QED BY <3>1, <3>3, <3>4
  <2> QED BY <1>3, <2>2, <2>3, TransactionFence
<1>4. ASSUME NEW m \in Mutators, MutatorStep(m) \/ AbortOwner(m) \/ CancelStoreDelete(m),
             ~LifecycleTransaction(m), ~StoreDeleteTransaction(m)
      PROVE  UNCHANGED Fence!vars
  <2>1. CASE DrainStep(m)
    BY <1>k, <2>1 DEF DrainStep, DrainAbort, DrainAborted, DrainArm, DrainCheck, DrainWait
  <2>2. CASE ReserveArchive(m) \/ ReserveDecision(m) \/ ReserveDelete(m) \/ ReserveCreation(m)
    BY <1>k, <2>2
       DEF NextNonce, ReserveArchive, ReserveDecision, ReserveDelete, ReserveCreation, InstallReservation
  <2>3. CASE CreateTransaction(m)
    BY <1>k, <2>3 DEF CreateTransaction
  <2> QED BY <1>1, <1>4, <1>k, <2>1, <2>2, <2>3
          DEF MutatorStep, LookupRecord, ReserveUnavailable, TransactionFails, CreationSettles,
              SettleReservation, AbortOwner, CancelStoreDelete, Actors
<1>5. ASSUME NEW m \in Mutators, NEW r \in Requests, TransferCreation(m, r)
      PROVE  UNCHANGED Fence!vars
  <2>1. ~active[r] /\ active' = active /\ UNCHANGED terminal
    BY <1>5 DEF TransferCreation, FenceInvariant, LeaseShape
  <2>2. \A t \in Threads, q \in Requests \ {r} : q \in leases'[t] <=> q \in leases[t]
    BY <1>5 DEF TransferCreation, TypeOK, Actors
  <2> QED BY <1>l, <2>1, <2>2, RunsKept
<1>6. ASSUME NEW t \in Threads, WriteRecord(t) PROVE UNCHANGED Fence!vars
  BY <1>6, <1>k DEF WriteRecord
<1>7. CASE Crash
  <2>1. Runs' = [t \in Threads |-> {}] /\ UNCHANGED terminal
    BY <1>7 DEF Crash, Runs
  <2>2. Fence!Crash
    BY <2>1 DEF Runs, Fence!Crash
  <2> QED BY <2>2 DEF Fence!Next
<1>8. CASE UNCHANGED vars
  BY <1>8, <1>k DEF vars
<1> QED BY <1>1, <1>2, <1>3, <1>4, <1>5, <1>6, <1>7, <1>8 DEF Next, Finished

\* The coordinator with all its callers implements the abstract fence.
THEOREM CoordinatorRefinesFence == Spec => ImplementsFence
<1>1. Spec => [](TypeOK /\ FenceInvariant)
  BY TypeCorrect, FenceHolds, PTL
<1> QED BY <1>1, RefineInit, RefineStep, PTL DEF Spec, ImplementsFence, Fence!Spec

-----------------------------------------------------------------------------
(* The cache tells the truth: CacheInvariant is inductive.                  *)

\* A read pass of one actor, and the outcome of one operation.
ReadCurrent(a) ==
    pc[a] \in {"read", "install"} =>
        /\ 0 < seenEpoch[a] /\ seenEpoch[a] <= nonce
        /\ epoch[thread[a]] = seenEpoch[a] =>
            /\ state[thread[a]] = "uncalibrated"
            /\ pc[a] = "install" => seenTerminal[a] \in {terminal[thread[a]], "error"}

OutcomeCurrent(m) ==
    /\ cancelled[m] => pc[m] \in Reserved \cup {"done"}
    /\ pc[m] \in Reserved =>
        \/ DroppedDelete(thread[m])
        \/ /\ target[m] = terminal[thread[m]]
           /\ pc[m] # "settle" => prior[m] = terminal[thread[m]]

\* An entry stays as it is, or is evicted or installed anew.
EntryKept(t) ==
    \/ /\ state'[t] = state[t] /\ epoch'[t] = epoch[t]
       /\ state[t] \in Owned \/ terminal'[t] = terminal[t]
    \/ epoch'[t] = 0 /\ state'[t] = "absent"
    \/ epoch'[t] = nonce' /\ nonce' > nonce

LEMMA DroppedKept ==
  ASSUME UNCHANGED const, \A m \in Mutators : cancelled[m] => cancelled'[m]
  PROVE  \A t \in Threads : DroppedDelete(t) => DroppedDelete(t)'
BY DEF DroppedDelete, const

LEMMA ReadsKept ==
  ASSUME TypeOK, ReadsCurrent, UNCHANGED thread, nonce' \in Nat, nonce' >= nonce,
         \A t \in Threads : EntryKept(t),
         \A a \in Actors : \/ ReadCurrent(a)'
                           \/ pc'[a] \notin {"read", "install"}
                           \/ /\ pc'[a] = pc[a] /\ seenEpoch'[a] = seenEpoch[a]
                              /\ seenTerminal'[a] = seenTerminal[a]
  PROVE  ReadsCurrent'
<1>a. /\ nonce \in Nat /\ epoch \in [Threads -> Nat] /\ seenEpoch \in [Actors -> Nat]
      /\ \A a \in Actors : thread[a] \in Threads
  BY DEF TypeOK
<1>1. ASSUME NEW t \in Threads
      PROVE  epoch'[t] <= nonce' /\ (state'[t] # "absent" => epoch'[t] > 0)
  <2>1. epoch[t] <= nonce /\ epoch[t] \in Nat /\ (state[t] # "absent" => epoch[t] > 0)
    BY <1>a DEF ReadsCurrent
  <2> QED BY <1>a, <2>1 DEF EntryKept
<1>2. ASSUME NEW a \in Actors PROVE ReadCurrent(a)'
  <2> SUFFICES ASSUME pc'[a] \in {"read", "install"}, pc'[a] = pc[a],
                      seenEpoch'[a] = seenEpoch[a], seenTerminal'[a] = seenTerminal[a]
               PROVE  ReadCurrent(a)'
    BY DEF ReadCurrent
  <2> DEFINE t == thread[a]
  <2>1. ReadCurrent(a)
    BY DEF ReadsCurrent, ReadCurrent
  <2>2. /\ t \in Threads /\ thread'[a] = t /\ epoch[t] \in Nat /\ epoch[t] <= nonce
        /\ seenEpoch[a] \in Nat /\ 0 < seenEpoch[a] /\ seenEpoch[a] <= nonce
    BY <1>a, <2>1 DEF ReadCurrent, ReadsCurrent
  <2> HIDE DEF t
  <2>3. seenEpoch'[a] <= nonce' /\ 0 < seenEpoch'[a]
    BY <1>a, <2>2
  <2>4. epoch'[t] = seenEpoch[a] =>
          /\ state'[t] = state[t] /\ epoch[t] = seenEpoch[a]
          /\ state[t] \in Owned \/ terminal'[t] = terminal[t]
    BY <1>a, <2>2 DEF EntryKept
  <2>5. epoch[t] = seenEpoch[a] =>
          /\ state[t] = "uncalibrated"
          /\ pc[a] = "install" => seenTerminal[a] \in {terminal[t], "error"}
    BY <2>1 DEF ReadCurrent, t
  <2> QED BY <2>2, <2>3, <2>4, <2>5 DEF ReadCurrent, Owned
<1> QED BY <1>1, <1>2 DEF ReadsCurrent, ReadCurrent

LEMMA OutcomesKept ==
  ASSUME TypeOK, OutcomesCurrent, UNCHANGED const,
         \A m \in Mutators : cancelled[m] => cancelled'[m],
         \A m \in Mutators :
            \/ OutcomeCurrent(m)'
            \/ /\ cancelled'[m] = cancelled[m]
               /\ pc[m] \in Reserved \cup {"done"} => pc'[m] \in Reserved \cup {"done"}
               /\ pc'[m] \in Reserved =>
                    /\ pc[m] \in Reserved
                    /\ pc[m] = "settle" => pc'[m] = "settle"
                    /\ prior'[m] = prior[m] /\ target'[m] = target[m]
                    /\ terminal'[thread[m]] = terminal[thread[m]]
  PROVE  OutcomesCurrent'
<1>1. \A m \in Mutators : OutcomeCurrent(m)
  BY DEF OutcomesCurrent, OutcomeCurrent
<1>2. \A m \in Mutators : thread'[m] = thread[m] /\ thread[m] \in Threads
  BY DEF const, TypeOK, Actors
<1>3. \A m \in Mutators : OutcomeCurrent(m)'
  BY <1>1, <1>2, DroppedKept DEF OutcomeCurrent
<1> QED BY <1>3 DEF OutcomesCurrent, OutcomeCurrent

\* Steps that write no tombstone, cancel nothing and neither begin nor finish a
\* read or a reservation.
LEMMA CacheKept ==
  ASSUME TypeOK, CacheInvariant,
         UNCHANGED <<terminal, const, cancelled, prior, target>>,
         nonce' \in Nat, nonce' >= nonce,
         \A t \in Threads : EntryKept(t) /\ (state'[t] \in Stable =>
              state'[t] = state[t] \/ state'[t] = terminal[t] \/ DroppedDelete(t)),
         \A a \in Actors : pc'[a] \in {"read", "install"} =>
              pc'[a] = pc[a] /\ seenEpoch'[a] = seenEpoch[a] /\ seenTerminal'[a] = seenTerminal[a],
         \A m \in Mutators :
            /\ pc[m] \in Reserved \cup {"done"} => pc'[m] \in Reserved \cup {"done"}
            /\ pc'[m] \in Reserved => pc[m] \in Reserved /\ (pc[m] = "settle" => pc'[m] = "settle")
  PROVE  CacheInvariant'
<1>1. CacheCoherent /\ ReadsCurrent /\ OutcomesCurrent
  BY DEF CacheInvariant
<1>2. \A t \in Threads : DroppedDelete(t) => DroppedDelete(t)'
  BY DroppedKept
<1>3. CacheCoherent'
  BY <1>1, <1>2 DEF CacheCoherent
<1>4. ReadsCurrent'
  BY <1>1, ReadsKept DEF const
<1>5. OutcomesCurrent'
  BY <1>1, OutcomesKept
<1> QED BY <1>3, <1>4, <1>5 DEF CacheInvariant

\* A calibration pass: a read that fits is installed as it was read.
LEMMA CalibrationCoherent ==
  ASSUME TypeOK, CacheInvariant, NEW a \in Actors, CalibStep(a)
  PROVE  CacheInvariant'
<1> DEFINE t == thread[a]
<1>a. /\ t \in Threads /\ nonce \in Nat /\ nonce + 1 \in Nat /\ nonce + 1 > nonce
      /\ pc \in [Actors -> PCs] /\ state \in [Threads -> States] /\ epoch \in [Threads -> Nat]
      /\ seenEpoch \in [Actors -> Nat] /\ seenTerminal \in [Actors -> Stable \cup {"error"}]
  BY DEF TypeOK
<1>b. CacheCoherent /\ ReadsCurrent /\ OutcomesCurrent
  BY DEF CacheInvariant
<1>c. \A m \in Mutators : m \in Actors
  BY DEF Actors
<1>d. pc[a] \notin Reserved \cup {"done"}
  BY DEF CalibStep, Calibrated, CalibBegin, CalibRead, CalibInstall, Reserved, Draining
<1>e. UNCHANGED <<const, terminal, cancelled, prior, target>>
  BY DEF CalibStep, Calibrated, CalibBegin, CalibRead, CalibInstall, durable, resv
<1>f. \A b \in Actors : b # a => pc'[b] = pc[b]
  BY <1>a DEF CalibStep, Calibrated, CalibBegin, CalibRead, CalibInstall, Goto
<1>1. CASE Calibrated(a)
  <2>1. pc'[a] \in {"lookup", "reserve"}
    BY <1>1, <1>a DEF Calibrated, Goto
  <2>2. UNCHANGED <<state, epoch, nonce, calib>>
    BY <1>1 DEF Calibrated, entries
  <2> QED BY <1>a, <1>c, <1>d, <1>e, <1>f, <2>1, <2>2, CacheKept
          DEF EntryKept, calib, Reserved, Draining
<1>2. CASE CalibBegin(a)
  <2>1. /\ pc'[a] = "read" /\ UNCHANGED seenTerminal
        /\ seenEpoch' = [seenEpoch EXCEPT ![a] = epoch'[t]]
    BY <1>2, <1>a DEF CalibBegin, Goto
  <2>2. \/ /\ state' = [state EXCEPT ![t] = "uncalibrated"]
           /\ epoch' = [epoch EXCEPT ![t] = nonce + 1] /\ nonce' = nonce + 1
        \/ state[t] = "uncalibrated" /\ UNCHANGED <<state, epoch, nonce>>
    BY <1>2 DEF CalibBegin, Install, NextNonce
  <2>3. state'[t] = "uncalibrated" /\ nonce' \in Nat /\ nonce' >= nonce
    BY <1>a, <2>2
  <2>4. \A u \in Threads : EntryKept(u) /\ (state'[u] \in Stable => state'[u] = state[u])
    BY <1>a, <1>e, <2>2 DEF EntryKept, Stable
  <2>5. ReadCurrent(a)'
    <3>1. epoch'[t] \in Nat /\ 0 < epoch'[t] /\ epoch'[t] <= nonce'
      BY <1>a, <1>b, <2>2 DEF ReadsCurrent
    <3>2. seenEpoch'[a] = epoch'[t] /\ thread'[a] = t
      BY <1>a, <1>e, <2>1 DEF const
    <3> QED BY <2>1, <2>3, <3>1, <3>2 DEF ReadCurrent
  <2>6. \A b \in Actors : b # a => seenEpoch'[b] = seenEpoch[b]
    BY <1>a, <2>1
  <2>7. ReadsCurrent'
    BY <1>b, <1>e, <1>f, <2>1, <2>3, <2>4, <2>5, <2>6, ReadsKept DEF const
  <2>8. OutcomesCurrent'
    BY <1>b, <1>c, <1>d, <1>e, <1>f, <2>1, OutcomesKept DEF Reserved, Draining
  <2>9. CacheCoherent'
    BY <1>b, <1>e, <2>4, DroppedKept DEF CacheCoherent
  <2> QED BY <2>7, <2>8, <2>9 DEF CacheInvariant
<1>3. CASE CalibRead(a)
  <2>1. /\ pc[a] = "read" /\ pc'[a] = "install" /\ UNCHANGED <<state, epoch, nonce, seenEpoch>>
        /\ seenTerminal'[a] \in {terminal[t], "error"}
        /\ \A b \in Actors : b # a => seenTerminal'[b] = seenTerminal[b]
    BY <1>3, <1>a DEF CalibRead, Goto, entries
  <2>2. ReadCurrent(a)
    BY <1>b DEF ReadsCurrent, ReadCurrent
  <2>3. ReadCurrent(a)'
    BY <1>e, <2>1, <2>2 DEF ReadCurrent, const
  <2>4. ReadsCurrent'
    BY <1>a, <1>b, <1>e, <1>f, <2>1, <2>3, ReadsKept DEF EntryKept, const
  <2>5. OutcomesCurrent'
    BY <1>b, <1>c, <1>d, <1>e, <1>f, <2>1, OutcomesKept DEF Reserved, Draining
  <2>6. CacheCoherent'
    BY <1>b, <1>e, <2>1, DroppedKept DEF CacheCoherent
  <2> QED BY <2>4, <2>5, <2>6 DEF CacheInvariant
<1>4. CASE CalibInstall(a)
  <2>1. pc[a] = "install" /\ pc'[a] \in {"done", "calib"} /\ UNCHANGED calib
    BY <1>4, <1>a DEF CalibInstall, Goto, AfterRead
  <2>2. ReadFits(a) => seenTerminal[a] = terminal[t]
    BY <1>b, <2>1 DEF ReadsCurrent, ReadFits
  <2>3. \/ /\ seenTerminal[a] = terminal[t]
           /\ state' = [state EXCEPT ![t] = seenTerminal[a]]
           /\ epoch' = [epoch EXCEPT ![t] = nonce + 1] /\ nonce' = nonce + 1
        \/ /\ state' = [state EXCEPT ![t] = "absent"]
           /\ epoch' = [epoch EXCEPT ![t] = 0] /\ nonce' = nonce
        \/ UNCHANGED <<state, epoch, nonce>>
    BY <1>4, <2>2 DEF CalibInstall, Install, Evict, NextNonce
  <2>4. nonce' \in Nat /\ nonce' >= nonce
    BY <1>a, <2>3
  <2>5. \A u \in Threads : EntryKept(u) /\ (state'[u] \in Stable =>
           state'[u] = state[u] \/ state'[u] = terminal[u])
    BY <1>a, <1>e, <2>3 DEF EntryKept, Stable
  <2> QED BY <1>c, <1>d, <1>e, <1>f, <2>1, <2>4, <2>5, CacheKept DEF calib, Reserved, Draining
<1> QED BY <1>1, <1>2, <1>3, <1>4 DEF CalibStep

\* The steps of a request: only the release of a lease changes the entry.
LEMMA RequestCoherent ==
  ASSUME TypeOK, CacheInvariant, NEW r \in Requests,
         \/ ReserveRequest(r) \/ CheckRecord(r) \/ EnsureValid(r) \/ Promote(r) \/ Publish(r)
         \/ ReleaseLease(r) \/ Abandon(r) \/ RunEnds(r)
  PROVE  CacheInvariant'
<1> USE DEF durable, entries, calib, lease, resv
<1>a. /\ thread[r] \in Threads /\ nonce \in Nat /\ r \in Actors
      /\ pc \in [Actors -> PCs] /\ state \in [Threads -> States] /\ epoch \in [Threads -> Nat]
  BY DEF TypeOK, Actors
<1>b. /\ pc'[r] \notin {"read", "install"}
      /\ \A b \in Actors : b # r => pc'[b] = pc[b]
  BY <1>a DEF ReserveRequest, CheckRecord, EnsureValid, Promote, Publish, ReleaseLease,
              Abandon, RunEnds, Goto
<1>c. \A m \in Mutators : m \in Actors /\ m # r
  BY ActorsAssumption DEF Actors
<1>d. /\ UNCHANGED <<terminal, const, cancelled, prior, target, seenEpoch, seenTerminal>>
      /\ UNCHANGED nonce
  BY DEF ReserveRequest, CheckRecord, EnsureValid, Promote, Publish, ReleaseLease,
         Abandon, RunEnds
<1>e. \/ UNCHANGED <<state, epoch>>
      \/ /\ state' = [state EXCEPT ![thread[r]] = "absent"]
         /\ epoch' = [epoch EXCEPT ![thread[r]] = 0]
  BY DEF ReserveRequest, CheckRecord, EnsureValid, Promote, Publish, ReleaseLease,
         Abandon, RunEnds, Evict
<1>f. \A u \in Threads : EntryKept(u) /\ (state'[u] \in Stable => state'[u] = state[u])
  BY <1>a, <1>d, <1>e DEF EntryKept, Stable
<1> QED BY <1>a, <1>b, <1>c, <1>d, <1>f, CacheKept

\* A reservation remembers the stable state it found, which is the durable one.
LEMMA ReservationCoherent ==
  ASSUME TypeOK, CacheInvariant, NEW m \in Mutators,
         ReserveArchive(m) \/ ReserveDecision(m) \/ ReserveDelete(m) \/ ReserveCreation(m)
  PROVE  CacheInvariant'
<1> DEFINE t == thread[m]
<1>a. /\ t \in Threads /\ nonce \in Nat /\ m \in Actors
      /\ pc \in [Actors -> PCs] /\ state \in [Threads -> States] /\ epoch \in [Threads -> Nat]
      /\ prior \in [Mutators -> Stable] /\ target \in [Mutators -> Stable]
      /\ cancelled \in [Mutators -> BOOLEAN]
  BY DEF TypeOK, Actors
<1>b. CacheCoherent /\ ReadsCurrent /\ OutcomesCurrent
  BY DEF CacheInvariant
<1>1. /\ pc[m] = "reserve" /\ state[t] \in Stable
      /\ \E s \in Owned : InstallReservation(m, s)
      /\ \E l \in {"tx", "drain"} : Goto(m, l)
  BY DEF ReserveArchive, ReserveDecision, ReserveDelete, ReserveCreation, CanReserve, Owned
<1>2. PICK s \in Owned : InstallReservation(m, s)
  BY <1>1
<1>3. /\ state' = [state EXCEPT ![t] = s] /\ epoch' = [epoch EXCEPT ![t] = nonce + 1]
      /\ nonce' = nonce + 1
      /\ prior' = [prior EXCEPT ![m] = state[t]] /\ target' = [target EXCEPT ![m] = state[t]]
      /\ cancelled' = [cancelled EXCEPT ![m] = FALSE]
      /\ UNCHANGED <<terminal, const, seenEpoch, seenTerminal>>
  BY <1>2 DEF InstallReservation, Install, NextNonce, durable, calib
<1>4. pc'[m] \in {"tx", "drain"} /\ \A b \in Actors : b # m => pc'[b] = pc[b]
  BY <1>1, <1>a DEF Goto
<1>5. ~cancelled[m]
  BY <1>1, <1>b DEF OutcomesCurrent, Reserved, Draining
<1>6. \A n \in Mutators : cancelled'[n] = cancelled[n]
  BY <1>3, <1>5, <1>a
<1>7. \A u \in Threads : DroppedDelete(u) => DroppedDelete(u)'
  BY <1>3, <1>6, DroppedKept
<1>8. \A u \in Threads : EntryKept(u) /\ (state'[u] \in Stable => state'[u] = state[u])
  BY <1>3, <1>a DEF EntryKept, Stable, Owned
<1>9. CacheCoherent'
  BY <1>3, <1>7, <1>8, <1>b DEF CacheCoherent
<1>10. ReadsCurrent'
  <2>1. \A a \in Actors : \/ pc'[a] \notin {"read", "install"}
                          \/ /\ pc'[a] = pc[a] /\ seenEpoch'[a] = seenEpoch[a]
                             /\ seenTerminal'[a] = seenTerminal[a]
    BY <1>3, <1>4
  <2>2. nonce' \in Nat /\ nonce' >= nonce /\ UNCHANGED thread
    BY <1>3, <1>a DEF const
  <2> QED BY <1>b, <1>8, <2>1, <2>2, ReadsKept
<1>11. OutcomeCurrent(m)'
  <2>1. state[t] = terminal[t] \/ DroppedDelete(t)
    BY <1>1, <1>a, <1>b DEF CacheCoherent
  <2>2. /\ prior'[m] = state[t] /\ target'[m] = state[t] /\ ~cancelled'[m]
        /\ thread'[m] = t /\ terminal'[t] = terminal[t]
    BY <1>3, <1>a DEF const
  <2> QED BY <1>7, <1>a, <2>1, <2>2 DEF OutcomeCurrent
<1>12. OutcomesCurrent'
  <2>1. \A n \in Mutators : n # m =>
            /\ cancelled'[n] = cancelled[n] /\ pc'[n] = pc[n]
            /\ prior'[n] = prior[n] /\ target'[n] = target[n]
            /\ terminal'[thread[n]] = terminal[thread[n]]
    BY <1>3, <1>4, <1>6, <1>a DEF Actors
  <2> QED BY <1>3, <1>6, <1>11, <1>b, <2>1, OutcomesKept
<1> QED BY <1>9, <1>10, <1>12 DEF CacheInvariant

\* A tombstone is written under a reservation, which will settle to it.
LEMMA TombstoneCoherent ==
  ASSUME TypeOK, FenceInvariant, CacheInvariant, NEW m \in Mutators, pc[m] = "tx",
         UNCHANGED <<state, epoch, nonce, const, calib, prior, cancelled>>, Goto(m, "settle"),
         \A u \in Threads : u # thread[m] => terminal'[u] = terminal[u],
         \A n \in Mutators : n # m => target'[n] = target[n],
         target'[m] = terminal'[thread[m]] \/ DroppedDelete(thread[m])
  PROVE  CacheInvariant'
<1> DEFINE t == thread[m]
<1>a. /\ t \in Threads /\ nonce \in Nat /\ m \in Actors /\ pc \in [Actors -> PCs]
      /\ \A n \in Mutators : n \in Actors
  BY DEF TypeOK, Actors
<1>b. CacheCoherent /\ ReadsCurrent /\ OutcomesCurrent
  BY DEF CacheInvariant
<1>1. Matches(m) /\ state[t] \in Owned
  <2>1. Matches(m)
    BY DEF FenceInvariant, ReservationCurrent, Reserved
  <2> QED BY <2>1, MatchedOwned
<1>2. \A n \in Mutators : n # m /\ thread[n] = t => pc[n] \notin Reserved
  BY <1>1 DEF FenceInvariant, ReservationCurrent, Matches
<1>3. pc'[m] = "settle" /\ \A b \in Actors : b # m => pc'[b] = pc[b]
  BY <1>a DEF Goto
<1>4. \A u \in Threads : DroppedDelete(u) => DroppedDelete(u)'
  BY DroppedKept
<1>5. CacheCoherent'
  <2>1. \A u \in Threads : state'[u] \in Stable => u # t
    BY <1>1 DEF Owned, Stable
  <2> QED BY <1>4, <1>b, <2>1 DEF CacheCoherent
<1>6. ReadsCurrent'
  <2>1. \A u \in Threads : EntryKept(u)
    BY <1>1 DEF EntryKept
  <2> QED BY <1>3, <1>a, <1>b, <2>1, ReadsKept DEF const, calib
<1>7. OutcomesCurrent'
  <2>1. OutcomeCurrent(m)'
    BY <1>3, <1>4, <1>a DEF OutcomeCurrent, Reserved, const
  <2>2. ASSUME NEW n \in Mutators, n # m, pc'[n] \in Reserved
        PROVE  terminal'[thread[n]] = terminal[thread[n]]
    <3>1. thread[n] # t /\ thread[n] \in Threads
      BY <1>2, <1>3, <1>a, <2>2 DEF TypeOK
    <3> QED BY <3>1
  <2> QED BY <1>3, <1>a, <1>b, <2>1, <2>2, OutcomesKept
<1> QED BY <1>5, <1>6, <1>7 DEF CacheInvariant

\* Each verdict reports the durable state it leaves behind.
LEMMA LifecycleCoherent ==
  ASSUME TypeOK, FenceInvariant, CacheInvariant, NEW m \in Mutators, LifecycleTransaction(m)
  PROVE  CacheInvariant'
<1> DEFINE t == thread[m]
<1>a. t \in Threads /\ terminal \in [Threads -> Stable] /\ target \in [Mutators -> Stable]
  BY DEF TypeOK, Actors
<1>1. PICK v \in LifecycleVerdicts(Operation(m), record[t], terminal[t], token[m].state)
                   \cup {Verdict(terminal[t], "keep", FALSE)} :
        Commit(t, v) /\ target' = [target EXCEPT ![m] = v.settles]
  BY DEF LifecycleTransaction
<1>2. v \in { Verdict("archived", "archived", record[t]), Verdict("deleted", "deleted", TRUE),
              Verdict(terminal[t], "keep", FALSE) }
  BY <1>1 DEF LifecycleVerdicts
<1>3. v.settles = IF v.tombstone = "keep" THEN terminal[t] ELSE v.tombstone
  BY <1>2 DEF Verdict
<1>4. /\ terminal'[t] = v.settles
      /\ \A u \in Threads : u # t => terminal'[u] = terminal[u]
  BY <1>1, <1>3, <1>a DEF Commit
<1>5. target'[m] = terminal'[t] /\ \A n \in Mutators : n # m => target'[n] = target[n]
  BY <1>1, <1>4, <1>a
<1> QED BY <1>4, <1>5, TombstoneCoherent DEF LifecycleTransaction, entries, calib

\* So does a store-level delete, unless its caller is gone.
LEMMA StoreDeleteCoherent ==
  ASSUME TypeOK, FenceInvariant, CacheInvariant, NEW m \in Mutators, StoreDeleteTransaction(m)
  PROVE  CacheInvariant'
<1> DEFINE t == thread[m]
           destroys == terminal[t] = "archived" \/ (terminal[t] = "live" /\ record[t])
           removed == destroys /\ record[t]
           v == IF destroys THEN Verdict("deleted", "deleted", TRUE)
                            ELSE Verdict("live", "keep", FALSE)
<1>a. /\ t \in Threads /\ terminal \in [Threads -> Stable] /\ target \in [Mutators -> Stable]
      /\ terminal[t] \in {"live", "archived", "deleted"}
  BY DEF TypeOK, Actors, Stable
<1>1. /\ Commit(t, v) /\ pc[m] = "tx" /\ kind[m] = "store_delete"
      /\ target' = [target EXCEPT ![m] =
                      IF cancelled[m] THEN prior[m]
                      ELSE IF removed \/ prior[m] # "live" THEN "deleted" ELSE "live"]
  BY DEF StoreDeleteTransaction
<1>2. /\ terminal'[t] = IF destroys THEN "deleted" ELSE terminal[t]
      /\ \A u \in Threads : u # t => terminal'[u] = terminal[u]
  BY <1>1, <1>a DEF Commit, Verdict
<1>3. /\ target'[m] = IF cancelled[m] THEN prior[m]
                      ELSE IF removed \/ prior[m] # "live" THEN "deleted" ELSE "live"
      /\ \A n \in Mutators : n # m => target'[n] = target[n]
  BY <1>1, <1>a
<1>4. DroppedDelete(t) \/ prior[m] = terminal[t]
  BY <1>1 DEF CacheInvariant, OutcomesCurrent, Reserved
<1>5. cancelled[m] => DroppedDelete(t)
  BY <1>1 DEF DroppedDelete
<1>6. target'[m] = terminal'[t] \/ DroppedDelete(t)
  BY <1>2, <1>3, <1>4, <1>5, <1>a
<1> QED BY <1>1, <1>2, <1>3, <1>6, TombstoneCoherent DEF StoreDeleteTransaction, entries, calib

\* The entry of a settled reservation shows what the reservation left behind.
LEMMA SettlementCoherent ==
  ASSUME TypeOK, CacheInvariant, NEW m \in Mutators, SettleReservation(m)
  PROVE  CacheInvariant'
<1> DEFINE t == thread[m]
<1>a. /\ t \in Threads /\ nonce \in Nat /\ m \in Actors /\ pc \in [Actors -> PCs]
      /\ state \in [Threads -> States] /\ epoch \in [Threads -> Nat]
      /\ \A n \in Mutators : n \in Actors
  BY DEF TypeOK, Actors
<1>1. pc[m] = "settle" /\ pc'[m] = "done" /\ \A b \in Actors : b # m => pc'[b] = pc[b]
  BY <1>a DEF SettleReservation, Goto
<1>2. target[m] = terminal[t] \/ DroppedDelete(t)
  BY <1>1 DEF CacheInvariant, OutcomesCurrent, Reserved
<1>3. \/ /\ state' = [state EXCEPT ![t] = target[m]]
         /\ epoch' = [epoch EXCEPT ![t] = nonce + 1] /\ nonce' = nonce + 1
      \/ /\ state' = [state EXCEPT ![t] = "absent"]
         /\ epoch' = [epoch EXCEPT ![t] = 0] /\ nonce' = nonce
      \/ UNCHANGED <<state, epoch, nonce>>
  BY DEF SettleReservation, Install, Evict, NextNonce
<1>4. UNCHANGED <<terminal, const, cancelled, prior, target, seenEpoch, seenTerminal>>
  BY DEF SettleReservation, durable, calib, resv
<1>5. nonce' \in Nat /\ nonce' >= nonce
  BY <1>3, <1>a
<1>6. \A u \in Threads : EntryKept(u) /\ (state'[u] \in Stable =>
         state'[u] = state[u] \/ state'[u] = terminal[u] \/ DroppedDelete(u))
  BY <1>2, <1>3, <1>4, <1>a DEF EntryKept, Stable
<1>7. \A b \in Actors : pc'[b] \in {"read", "install"} => b # m
  BY <1>1
<1> QED BY <1>1, <1>4, <1>5, <1>6, <1>7, <1>a, CacheKept DEF Reserved, Draining

\* A created thread is handed to its first request as a live one.
LEMMA TransferCoherent ==
  ASSUME TypeOK, CacheInvariant, NEW m \in Mutators, NEW r \in Requests, TransferCreation(m, r)
  PROVE  CacheInvariant'
<1> DEFINE t == thread[m]
<1>a. /\ t \in Threads /\ nonce \in Nat /\ m \in Actors /\ r \in Actors /\ m # r
      /\ pc \in [Actors -> PCs]
      /\ state \in [Threads -> States] /\ epoch \in [Threads -> Nat]
      /\ \A n \in Mutators : n \in Actors /\ n # r
  BY ActorsAssumption DEF TypeOK, Actors
<1>1. /\ pc[m] = "created" /\ pc'[m] = "done" /\ pc'[r] = "checked"
      /\ \A b \in Actors : b # m /\ b # r => pc'[b] = pc[b]
  BY <1>a DEF TransferCreation
<1>2. "live" = terminal[t] \/ DroppedDelete(t)
  BY <1>1 DEF TransferCreation, CacheInvariant, OutcomesCurrent, Reserved
<1>3. /\ state' = [state EXCEPT ![t] = "live"]
      /\ epoch' = [epoch EXCEPT ![t] = nonce + 1] /\ nonce' = nonce + 1
  BY DEF TransferCreation, Install, NextNonce
<1>4. UNCHANGED <<terminal, const, cancelled, prior, target, seenEpoch, seenTerminal>>
  BY DEF TransferCreation, durable, calib, resv
<1>5. nonce' \in Nat /\ nonce' >= nonce
  BY <1>3, <1>a
<1>6. \A u \in Threads : EntryKept(u) /\ (state'[u] \in Stable =>
         state'[u] = state[u] \/ state'[u] = terminal[u] \/ DroppedDelete(u))
  BY <1>2, <1>3, <1>4, <1>a DEF EntryKept, Stable
<1>7. \A b \in Actors : pc'[b] \in {"read", "install"} => b # m /\ b # r
  BY <1>1
<1> QED BY <1>1, <1>4, <1>5, <1>6, <1>7, <1>a, CacheKept DEF Reserved, Draining

\* A cancelled store-level delete is what CacheCoherent excepts; the reaper of an
\* aborted delete settles as its owner would have.
LEMMA CancellationCoherent ==
  ASSUME TypeOK, CacheInvariant, NEW m \in Mutators, AbortOwner(m) \/ CancelStoreDelete(m)
  PROVE  CacheInvariant'
<1>a. /\ m \in Actors /\ pc \in [Actors -> PCs] /\ nonce \in Nat
      /\ cancelled \in [Mutators -> BOOLEAN] /\ target \in [Mutators -> Stable]
      /\ \A n \in Mutators : n \in Actors
  BY DEF TypeOK, Actors
<1>b. CacheCoherent /\ ReadsCurrent /\ OutcomesCurrent
  BY DEF CacheInvariant
<1>1. /\ UNCHANGED <<terminal, const, state, epoch, nonce, calib, prior>>
      /\ cancelled' = [cancelled EXCEPT ![m] = TRUE]
      /\ pc[m] \in Reserved /\ pc'[m] \in Reserved
      /\ \A b \in Actors : b # m => pc'[b] = pc[b]
      /\ \A n \in Mutators : n # m => target'[n] = target[n]
  BY <1>a DEF AbortOwner, CancelStoreDelete, Goto, durable, entries, Reserved
<1>2. /\ cancelled'[m] = TRUE /\ \A n \in Mutators : n # m => cancelled'[n] = cancelled[n]
  BY <1>1, <1>a
<1>3. \A n \in Mutators : cancelled[n] => cancelled'[n]
  BY <1>2
<1>4. \A u \in Threads : DroppedDelete(u) => DroppedDelete(u)'
  BY <1>1, <1>3, DroppedKept
<1>5. CacheCoherent'
  BY <1>1, <1>4, <1>b DEF CacheCoherent
<1>6. ReadsCurrent'
  <2>1. \A u \in Threads : EntryKept(u)
    BY <1>1 DEF EntryKept
  <2>2. pc'[m] \notin {"read", "install"}
    BY <1>1 DEF Reserved, Draining
  <2> QED BY <1>1, <1>a, <1>b, <2>1, <2>2, ReadsKept DEF const, calib
<1>7. OutcomeCurrent(m)'
  <2>1. CASE AbortOwner(m)
    <3>1. pc'[m] = pc[m] /\ target'[m] = target[m] /\ thread'[m] = thread[m] /\ thread[m] \in Threads
      BY <2>1, <1>a DEF AbortOwner, const, TypeOK
    <3> QED BY <1>1, <1>4, <1>b, <3>1 DEF OutcomesCurrent, OutcomeCurrent
  <2>2. CASE CancelStoreDelete(m)
    <3>1. kind'[m] = "store_delete" /\ cancelled'[m]
      BY <2>2, <1>1, <1>2 DEF CancelStoreDelete, const
    <3>2. DroppedDelete(thread[m])'
      BY <3>1, <1>1 DEF DroppedDelete, const
    <3> QED BY <1>1, <3>2 DEF OutcomeCurrent, const
  <2> QED BY <2>1, <2>2
<1>8. OutcomesCurrent'
  BY <1>1, <1>2, <1>3, <1>7, <1>a, <1>b, OutcomesKept DEF const
<1> QED BY <1>5, <1>6, <1>8 DEF CacheInvariant

\* A process that starts again knows nothing.
LEMMA CrashCoherent ==
  ASSUME TypeOK, CacheInvariant, Crash
  PROVE  CacheInvariant'
<1>1. /\ \A t \in Threads : state'[t] = "absent" /\ epoch'[t] = 0
      /\ \A a \in Actors : pc'[a] = IF pc[a] = "idle" THEN "idle" ELSE "done"
      /\ nonce' = 0 /\ UNCHANGED cancelled
  BY DEF Crash, resv
<1>2. \A m \in Mutators : m \in Actors /\ (cancelled[m] => pc[m] # "idle")
  BY DEF CacheInvariant, OutcomesCurrent, Reserved, Draining, Actors
<1>3. CacheCoherent'
  BY <1>1 DEF CacheCoherent, Stable
<1>4. ReadsCurrent'
  BY <1>1 DEF ReadsCurrent
<1>5. OutcomesCurrent'
  BY <1>1, <1>2 DEF OutcomesCurrent, Reserved, Draining
<1> QED BY <1>3, <1>4, <1>5 DEF CacheInvariant

LEMMA InitCache == Init => CacheInvariant
BY DEF Init, CacheInvariant, CacheCoherent, ReadsCurrent, OutcomesCurrent, Stable, Reserved,
       Draining, Actors

LEMMA StepCache == TypeOK /\ FenceInvariant /\ CacheInvariant /\ [Next]_vars => CacheInvariant'
<1> SUFFICES ASSUME TypeOK, FenceInvariant, CacheInvariant, [Next]_vars
             PROVE  CacheInvariant'
  OBVIOUS
<1>a. /\ pc \in [Actors -> PCs] /\ nonce \in Nat /\ nonce >= nonce
      /\ \A m \in Mutators : m \in Actors
      /\ \A r \in Requests : r \in Actors /\ \A m \in Mutators : r # m
  BY ActorsAssumption DEF TypeOK, Actors
<1>b. ASSUME UNCHANGED <<terminal, state, epoch, nonce, const, calib, cancelled, prior, target>>,
             NEW a \in Actors, NEW l \in PCs, Goto(a, l),
             l \notin {"read", "install"},
             a \in Mutators => /\ l \in Reserved => pc[a] \in Reserved \ {"settle"}
                               /\ pc[a] \in Reserved \cup {"done"} => l \in Reserved \cup {"done"}
      PROVE  CacheInvariant'
  <2>1. pc'[a] = l /\ \A b \in Actors : b # a => pc'[b] = pc[b]
    BY <1>a, <1>b DEF Goto
  <2>2. \A t \in Threads : EntryKept(t) /\ state'[t] = state[t]
    BY <1>b DEF EntryKept
  <2> QED BY <1>a, <1>b, <2>1, <2>2, CacheKept DEF calib
<1>1. CASE \E a \in Actors : Start(a)
  <2>1. PICK a \in Actors : Start(a)
    BY <1>1
  <2>2. pc[a] = "idle" /\ Goto(a, "calib")
    BY <2>1 DEF Start
  <2> QED BY <1>b, <2>1, <2>2
          DEF Start, durable, entries, resv, PCs, Reserved, Draining
<1>2. CASE \E r \in Requests : RequestStep(r) \/ Abandon(r) \/ RunEnds(r)
  BY <1>2, <1>a, CalibrationCoherent, RequestCoherent DEF RequestStep
<1>3. CASE \E m \in Mutators : CalibStep(m)
  BY <1>3, <1>a, CalibrationCoherent
<1>4. CASE \E m \in Mutators : \/ ReserveArchive(m) \/ ReserveDecision(m)
                               \/ ReserveDelete(m) \/ ReserveCreation(m)
  BY <1>4, ReservationCoherent
<1>5. CASE \E m \in Mutators : LookupRecord(m) \/ ReserveUnavailable(m)
  <2>1. PICK m \in Mutators : LookupRecord(m) \/ ReserveUnavailable(m)
    BY <1>5
  <2>2. PICK l \in {"reserve", "done"} : Goto(m, l)
    BY <2>1 DEF LookupRecord, ReserveUnavailable
  <2>3. pc[m] \notin Reserved \cup {"done"}
    BY <2>1 DEF LookupRecord, ReserveUnavailable, Reserved, Draining
  <2>4. UNCHANGED <<terminal, state, epoch, nonce, const, calib, cancelled, prior, target>>
    BY <2>1 DEF LookupRecord, ReserveUnavailable, durable, entries, resv
  <2>5. l \in PCs /\ l \notin Reserved /\ l \notin {"read", "install"}
    BY DEF PCs, Reserved, Draining
  <2> QED BY <1>a, <1>b, <2>2, <2>3, <2>4, <2>5
<1>6. CASE \E m \in Mutators : DrainStep(m)
  <2>1. PICK m \in Mutators : DrainStep(m)
    BY <1>6
  <2>2. UNCHANGED <<terminal, state, epoch, nonce, const, calib, cancelled, prior, target>>
    BY <2>1 DEF DrainStep, DrainAbort, DrainAborted, DrainArm, DrainCheck, DrainWait,
                durable, entries, resv
  <2>3. CASE \E r \in Requests : DrainAbort(m, r)
    BY <1>a, <1>b, <2>2, <2>3 DEF DrainAbort, PCs, Holding
  <2>4. CASE DrainAborted(m) \/ DrainArm(m) \/ DrainCheck(m) \/ DrainWait(m)
    <3>1. PICK l \in {"settle", "arm", "check", "tx", "wait"} : Goto(m, l)
      BY <2>4 DEF DrainAborted, DrainArm, DrainCheck, DrainWait
    <3>2. pc[m] \in Reserved \ {"settle"}
      BY <2>4 DEF DrainAborted, DrainArm, DrainCheck, DrainWait, Reserved, Draining
    <3>3. l \in PCs /\ l \in Reserved /\ l \notin {"read", "install"}
      BY DEF PCs, Reserved, Draining
    <3> QED BY <1>a, <1>b, <2>2, <3>1, <3>2, <3>3
  <2> QED BY <2>1, <2>3, <2>4 DEF DrainStep
<1>7. CASE \E m \in Mutators : LifecycleTransaction(m) \/ StoreDeleteTransaction(m)
  BY <1>7, LifecycleCoherent, StoreDeleteCoherent
<1>8. CASE \E m \in Mutators : CreateTransaction(m) \/ TransactionFails(m) \/ CreationSettles(m)
  <2>1. PICK m \in Mutators : CreateTransaction(m) \/ TransactionFails(m) \/ CreationSettles(m)
    BY <1>8
  <2>2. PICK l \in {"created", "settle"} : Goto(m, l)
    BY <2>1 DEF CreateTransaction, TransactionFails, CreationSettles
  <2>3. pc[m] \in Reserved \ {"settle"}
    BY <2>1 DEF CreateTransaction, TransactionFails, CreationSettles, Reserved, Draining
  <2>4. UNCHANGED <<terminal, state, epoch, nonce, const, calib, cancelled, prior, target>>
    BY <2>1 DEF CreateTransaction, TransactionFails, CreationSettles, durable, entries, resv
  <2>5. l \in PCs /\ l \in Reserved /\ l \notin {"read", "install"}
    BY DEF PCs, Reserved, Draining
  <2> QED BY <1>a, <1>b, <2>2, <2>3, <2>4, <2>5
<1>9. CASE \E m \in Mutators : SettleReservation(m)
  BY <1>9, SettlementCoherent
<1>10. CASE \E m \in Mutators : AbortOwner(m) \/ CancelStoreDelete(m)
  BY <1>10, CancellationCoherent
<1>11. CASE \E m \in Mutators, r \in Requests : TransferCreation(m, r)
  BY <1>11, TransferCoherent
<1>12. CASE (\E t \in Threads : WriteRecord(t)) \/ UNCHANGED vars
  <2>1. UNCHANGED <<terminal, state, epoch, nonce, pc, const, calib, cancelled, prior, target>>
    BY <1>12 DEF WriteRecord, vars, durable, entries, resv
  <2>2. \A t \in Threads : EntryKept(t) /\ state'[t] = state[t]
    BY <2>1 DEF EntryKept
  <2> QED BY <1>a, <2>1, <2>2, CacheKept DEF calib
<1>13. CASE Crash
  BY <1>13, CrashCoherent
<1> QED
  BY <1>1, <1>2, <1>3, <1>4, <1>5, <1>6, <1>7, <1>8, <1>9, <1>10, <1>11, <1>12, <1>13
  DEF Next, MutatorStep, Finished

\* A calibration read that still fits its entry is current, and a reservation
\* settles to what its transaction left behind, whichever reads, reservations,
\* transactions, cancellations and crashes interleave.
THEOREM CacheHolds == Spec => []CacheInvariant
<1>1. Init => TypeOK /\ FenceInvariant /\ CacheInvariant
  BY InitTypeOK, InitFence, InitCache
<1>2. TypeOK /\ FenceInvariant /\ CacheInvariant /\ [Next]_vars
        => (TypeOK /\ FenceInvariant /\ CacheInvariant)'
  BY StepTypeOK, StepFence, StepCache
<1> QED BY <1>1, <1>2, PTL DEF Spec

\* So a stable state in the coordinator's cache is the durable one: no stale read
\* lands over a newer entry.  Only a store-level delete whose caller is gone is
\* excepted.
THEOREM CacheTellsTruth == Spec => []CacheCoherent
<1>1. CacheInvariant => CacheCoherent
  BY DEF CacheInvariant
<1> QED BY <1>1, CacheHolds, PTL

\* A run begins only by its publication, with the lease still valid.
LEMMA OnlyPublicationRuns ==
  ASSUME TypeOK, FenceInvariant, [Next]_vars, NEW r \in Requests,
         pc[r] # "running", pc'[r] = "running"
  PROVE  valid[r] /\ active[r] /\ pc[r] = "active"
<1>a. pc \in [Actors -> PCs] /\ r \in Actors /\ \A m \in Mutators : m \in Actors /\ m # r
  BY ActorsAssumption DEF TypeOK, Actors
<1>b. ASSUME NEW a \in Actors, NEW l, l # "running", Goto(a, l) PROVE FALSE
  BY <1>a, <1>b DEF Goto
<1>1. ~ \E a \in Actors : Start(a) \/ CalibStep(a)
  BY <1>b DEF Start, CalibStep, Calibrated, CalibBegin, CalibRead, CalibInstall, AfterRead
<1>2. ASSUME NEW q \in Requests, RequestStep(q) \/ Abandon(q) \/ RunEnds(q)
      PROVE  Publish(q) /\ q = r /\ valid[q]
  <2>1. q \in Actors
    BY DEF Actors
  <2>2. Publish(q)
    BY <1>1, <1>2, <1>b, <2>1
    DEF RequestStep, ReserveRequest, CheckRecord, EnsureValid, Promote, ReleaseLease, Abandon, RunEnds
  <2>3. q = r /\ valid[q]
    BY <2>1, <2>2, <1>a DEF Publish, Goto
  <2> QED BY <2>2, <2>3
<1>3. ASSUME NEW m \in Mutators, MutatorStep(m) \/ AbortOwner(m) \/ CancelStoreDelete(m)
      PROVE  FALSE
  <2>1. m \in Actors /\ \A q \in Requests : q \in Actors
    BY DEF Actors
  <2>2. ~ CalibStep(m)
    BY <1>1, <2>1
  <2>3. ~ DrainStep(m)
    BY <1>b, <2>1 DEF DrainStep, DrainAbort, DrainAborted, DrainArm, DrainCheck, DrainWait
  <2>4. \A l : Goto(m, l) => pc'[r] = pc[r]
    BY <1>a DEF Goto
  <2> QED BY <1>3, <2>2, <2>3, <2>4
          DEF MutatorStep, ReserveArchive, ReserveDecision, ReserveDelete, LookupRecord,
              ReserveCreation, ReserveUnavailable, LifecycleTransaction, StoreDeleteTransaction,
              CreateTransaction, TransactionFails, CreationSettles, SettleReservation,
              AbortOwner, CancelStoreDelete
<1>4. ~ \E m \in Mutators, q \in Requests : TransferCreation(m, q)
  BY <1>a DEF TransferCreation, Actors
<1>5. ~ ((\E t \in Threads : WriteRecord(t)) \/ Crash \/ UNCHANGED vars)
  BY <1>a DEF WriteRecord, Crash, vars
<1>6. PICK q \in Requests : Publish(q) /\ q = r /\ valid[q]
  BY <1>1, <1>2, <1>3, <1>4, <1>5 DEF Next, Finished
<1> QED BY <1>6 DEF Publish, FenceInvariant, LeaseShape

\* So no run begins on a thread that an archive or a delete has reserved: every
\* lease of the thread is counted, and the reservation made them all invalid.
THEOREM FencedStartsNoRun == Spec => FencedThreadStartsNoRun
<1>1. ASSUME TypeOK, FenceInvariant, [Next]_vars
      PROVE  [\A r \in Requests :
               (pc[r] # "running" /\ pc'[r] = "running") =>
                  state[thread[r]] \notin {"archiving", "deleting"}]_vars
  <2>1. SUFFICES ASSUME NEW r \in Requests, pc[r] # "running", pc'[r] = "running"
                 PROVE  state[thread[r]] \notin {"archiving", "deleting"}
    OBVIOUS
  <2>2. valid[r] /\ active[r] /\ pc[r] = "active"
    BY <1>1, <2>1, OnlyPublicationRuns
  <2>3. thread[r] \in Threads
    BY <1>1, ActorsAssumption DEF TypeOK, Actors
  <2>4. r \in leases[thread[r]]
    BY <1>1, <2>2, <2>3 DEF FenceInvariant, LeasesTracked, Holding
  <2>5. /\ state[thread[r]] = "archiving" => \A q \in leases[thread[r]] : ~valid[q] /\ ~active[q]
        /\ state[thread[r]] = "deleting" => \A q \in leases[thread[r]] : ~valid[q]
    BY <1>1, <2>3 DEF FenceInvariant, LeasesFenced
  <2> QED BY <2>2, <2>4, <2>5
<1>2. TypeOK /\ FenceInvariant /\ [Next]_vars =>
        [\A r \in Requests :
           (pc[r] # "running" /\ pc'[r] = "running") =>
              state[thread[r]] \notin {"archiving", "deleting"}]_vars
  BY <1>1
<1> QED BY <1>2, TypeCorrect, FenceHolds, PTL DEF Spec, FencedThreadStartsNoRun
=============================================================================
