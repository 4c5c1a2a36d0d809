------------------------ MODULE ThreadRunCoordinator ------------------------
(***************************************************************************)
(* garyx-router/src/run_admission.rs with the callers that drive it: the   *)
(* request path (AdmittedRun and the bridge that promotes and publishes a  *)
(* run), the lifecycle owner of garyx-gateway/src/routes/lifecycle.rs, the *)
(* store-level delete of sqlite_thread_store.rs and the create path of     *)
(* create_dispatch.rs, all over one SQLite database.                       *)
(*                                                                         *)
(* One action is one critical section of the coordinator's mutex, one      *)
(* durable read, or one SQLite transaction, so every await is a point      *)
(* where other actors move.  Each actor performs one operation on one      *)
(* thread; operations repeat by having more actors.  Lease ids, owner and  *)
(* calibration tokens are drawn from the coordinator's nonce and used only *)
(* as unique names: here they are named by the actor that holds them, and  *)
(* the nonce itself is kept for the epochs, which the code compares.       *)
(***************************************************************************)
EXTENDS Naturals, FiniteSets

CONSTANTS
    Threads,
    Requests,     \* dispatches that want to run on a thread
    Mutators,     \* lifecycle, delete and create operations
    Kinds,        \* the operations mutators may perform
    NoOwner,      \* no reservation holds the thread
    MaxCrashes    \* bound on gateway crashes

ASSUME ActorsAssumption ==
    /\ Requests \cap Mutators = {}
    /\ NoOwner \notin Mutators
ASSUME KindsAssumption ==
    Kinds \subseteq {"archive", "archive_decision", "delete", "delete_decision",
                     "store_delete", "create"}
ASSUME MaxCrashesAssumption == MaxCrashes \in Nat

Actors == Requests \cup Mutators

Stable == {"live", "archived", "deleted"}           \* StableState
Owned  == {"deciding", "archiving", "deleting"}     \* OwnedStateKind
States == Stable \cup Owned \cup {"absent", "uncalibrated"}

\* Lifecycle operations with the reservation each asks for: a delete or an
\* archive whose preflight already rejected it asks only for a decision.
LifecycleKinds == {"archive", "archive_decision", "delete", "delete_decision"}

VARIABLES
    record,       \* durable: thread_records has a row
    terminal,     \* durable: archived_threads tombstone, "live" when none
    state, epoch, owner, leases, pending,    \* the coordinator's entries
    nonce,        \* next_nonce
    pc, thread,   \* per actor: where it is, and the thread it works on
    seenEpoch, seenTerminal,   \* per actor: one calibration pass
    valid, active,             \* per request: its LeaseEntry
    kind, token, prior, target, cancelled, signalled,   \* per mutator
    crashes

durable == <<record, terminal>>
entries == <<state, epoch, owner, leases, pending, nonce>>
calib   == <<seenEpoch, seenTerminal>>
lease   == <<valid, active>>
resv    == <<token, prior, target, cancelled>>
const   == <<thread, kind>>
vars == <<durable, entries, pc, const, calib, lease, resv, signalled, crashes>>

-----------------------------------------------------------------------------
Holding == {"leased", "checked", "admitted", "active", "running", "dropping"}
Draining == {"drain", "arm", "check", "wait"}
Reserved == Draining \cup {"tx", "created", "settle"}
PCs == {"idle", "calib", "read", "install", "reserve", "done", "lookup"}
          \cup Holding \cup Reserved

TypeOK ==
    /\ record \in [Threads -> BOOLEAN]
    /\ terminal \in [Threads -> Stable]
    /\ state \in [Threads -> States]
    /\ epoch \in [Threads -> Nat]
    /\ owner \in [Threads -> Mutators \cup {NoOwner}]
    /\ leases \in [Threads -> SUBSET Requests]
    /\ pending \in [Threads -> SUBSET Actors]
    /\ nonce \in Nat
    /\ pc \in [Actors -> PCs]
    /\ thread \in [Actors -> Threads]
    /\ seenEpoch \in [Actors -> Nat]
    /\ seenTerminal \in [Actors -> Stable \cup {"error"}]
    /\ valid \in [Requests -> BOOLEAN]
    /\ active \in [Requests -> BOOLEAN]
    /\ kind \in [Mutators -> Kinds]
    /\ token \in [Mutators -> [epoch : Nat, state : Owned]]
    /\ prior \in [Mutators -> Stable]
    /\ target \in [Mutators -> Stable]
    /\ cancelled \in [Mutators -> BOOLEAN]
    /\ signalled \in [Mutators -> BOOLEAN]
    /\ crashes \in Nat

Init ==
    /\ record \in [Threads -> BOOLEAN]
    /\ terminal \in [Threads -> Stable]
    /\ \A t \in Threads : record[t] => terminal[t] = "live"
    /\ state = [t \in Threads |-> "absent"]
    /\ epoch = [t \in Threads |-> 0]
    /\ owner = [t \in Threads |-> NoOwner]
    /\ leases = [t \in Threads |-> {}]
    /\ pending = [t \in Threads |-> {}]
    /\ nonce = 0
    /\ pc = [a \in Actors |-> "idle"]
    /\ thread \in [Actors -> Threads]
    /\ seenEpoch = [a \in Actors |-> 0]
    /\ seenTerminal = [a \in Actors |-> "error"]
    /\ valid = [r \in Requests |-> FALSE]
    /\ active = [r \in Requests |-> FALSE]
    /\ kind \in [Mutators -> Kinds]
    /\ token = [m \in Mutators |-> [epoch |-> 0, state |-> "deciding"]]
    /\ prior = [m \in Mutators |-> "live"]
    /\ target = [m \in Mutators |-> "live"]
    /\ cancelled = [m \in Mutators |-> FALSE]
    /\ signalled = [m \in Mutators |-> FALSE]
    /\ crashes = 0

Goto(a, l) == pc' = [pc EXCEPT ![a] = l]

\* An operator Name_Bug is the definition Name with a bug the code could have
\* had; no specification uses one, the mutation runs put it in Name's place.

NotifyWaiters_Lost == UNCHANGED signalled

\* changed.notify_waiters(): wakes every Notified future already created, even
\* one that has not been polled yet.
NotifyWaiters ==
    signalled' = [m \in Mutators |->
                    signalled[m] \/ pc[m] \in {"check", "wait"}]

\* An entry is evicted with its epoch; the next use of the thread starts from
\* an uncalibrated entry with an epoch of its own.
Evict(t) ==
    /\ state' = [state EXCEPT ![t] = "absent"]
    /\ epoch' = [epoch EXCEPT ![t] = 0]

NextNonce == nonce + 1

\* Every state installation draws a fresh epoch.
Install(t, s) ==
    /\ state' = [state EXCEPT ![t] = s]
    /\ epoch' = [epoch EXCEPT ![t] = NextNonce]
    /\ nonce' = NextNonce

-----------------------------------------------------------------------------
(* ensure_calibrated: a two-phase durable read, shared by every operation. *)

Start(a) ==
    /\ pc[a] = "idle"
    /\ Goto(a, "calib")
    /\ UNCHANGED <<durable, entries, const, calib, lease, resv, signalled, crashes>>

\* The entry already has a state: go on with it.
Calibrated(a) ==
    /\ pc[a] = "calib"
    /\ state[thread[a]] \notin {"absent", "uncalibrated"}
    /\ Goto(a, IF a \in Mutators /\ kind[a] = "create" THEN "lookup" ELSE "reserve")
    /\ UNCHANGED <<durable, entries, const, calib, lease, resv, signalled, crashes>>

CalibBegin(a) ==
    LET t == thread[a] IN
    /\ pc[a] = "calib"
    /\ state[t] \in {"absent", "uncalibrated"}
    /\ IF state[t] = "absent"
         THEN Install(t, "uncalibrated")
         ELSE UNCHANGED <<state, epoch, nonce>>
    /\ pending' = [pending EXCEPT ![t] = @ \cup {a}]
    /\ seenEpoch' = [seenEpoch EXCEPT ![a] = epoch'[t]]
    /\ Goto(a, "read")
    /\ UNCHANGED <<durable, owner, leases, const, seenTerminal, lease, resv, signalled, crashes>>

\* store.terminal_state, which may fail.
CalibRead(a) ==
    /\ pc[a] = "read"
    /\ \E v \in {terminal[thread[a]], "error"} :
          seenTerminal' = [seenTerminal EXCEPT ![a] = v]
    /\ Goto(a, "install")
    /\ UNCHANGED <<durable, entries, const, seenEpoch, lease, resv, signalled, crashes>>

ReadFits_AnyResult(a) ==
    /\ epoch[thread[a]] = seenEpoch[a]
    /\ state[thread[a]] = "uncalibrated"

ReadFits_AnyEntry(a) == seenTerminal[a] # "error"

\* The read is installed only over the very uncalibrated entry it was made
\* for; a read that failed removes the entry nobody else needs.
ReadFits(a) ==
    /\ seenTerminal[a] # "error"
    /\ epoch[thread[a]] = seenEpoch[a]
    /\ state[thread[a]] = "uncalibrated"

ReadFailedAlone(a) ==
    /\ seenTerminal[a] = "error"
    /\ state[thread[a]] = "uncalibrated"
    /\ leases[thread[a]] = {}
    /\ pending[thread[a]] = {a}

AfterRead_Retries(a) == "calib"

AfterRead(a) == IF seenTerminal[a] = "error" THEN "done" ELSE "calib"

CalibInstall(a) ==
    LET t == thread[a] IN
    /\ pc[a] = "install"
    /\ pending' = [pending EXCEPT ![t] = @ \ {a}]
    /\ \/ ReadFits(a) /\ Install(t, seenTerminal[a])
       \/ ReadFailedAlone(a) /\ Evict(t) /\ UNCHANGED nonce
       \/ ~ReadFits(a) /\ ~ReadFailedAlone(a) /\ UNCHANGED <<state, epoch, nonce>>
    /\ NotifyWaiters
    /\ Goto(a, AfterRead(a))
    /\ UNCHANGED <<durable, owner, leases, const, calib, lease, resv, crashes>>

-----------------------------------------------------------------------------
(* A run request: AdmittedRun::thread_bound, then the bridge. *)

ReserveRequest(r) ==
    LET t == thread[r] IN
    /\ pc[r] = "reserve"
    /\ \/ /\ state[t] = "live"
          /\ leases' = [leases EXCEPT ![t] = @ \cup {r}]
          /\ valid' = [valid EXCEPT ![r] = TRUE]
          /\ Goto(r, "leased")
       \/ /\ state[t] # "live"
          /\ Goto(r, "done")
          /\ UNCHANGED <<leases, valid>>
    /\ UNCHANGED <<durable, state, epoch, owner, pending, nonce, const, calib,
                   active, resv, signalled, crashes>>

\* store.get: the record is the proof that the thread exists.
CheckRecord(r) ==
    /\ pc[r] = "leased"
    /\ \/ record[thread[r]] /\ Goto(r, "checked")
       \/ Goto(r, "dropping")             \* not found, or the read failed
    /\ UNCHANGED <<durable, entries, const, calib, lease, resv, signalled, crashes>>

EnsureValid(r) ==
    /\ pc[r] = "checked"
    /\ Goto(r, IF valid[r] THEN "admitted" ELSE "dropping")
    /\ UNCHANGED <<durable, entries, const, calib, lease, resv, signalled, crashes>>

\* promote_to_active, called by the bridge once it will start a new run.
Promote(r) ==
    /\ pc[r] = "admitted"
    /\ \/ /\ valid[r] /\ state[thread[r]] = "live" /\ r \in leases[thread[r]]
          /\ active' = [active EXCEPT ![r] = TRUE]
          /\ Goto(r, "active")
       \/ /\ ~(valid[r] /\ state[thread[r]] = "live" /\ r \in leases[thread[r]])
          /\ Goto(r, "dropping")
          /\ UNCHANGED active
    /\ UNCHANGED <<durable, entries, const, calib, valid, resv, signalled, crashes>>

\* The bridge publishes run index, persistence and task while it holds all
\* their locks, after one last look at the lease.
Publish(r) ==
    /\ pc[r] = "active"
    /\ Goto(r, IF valid[r] THEN "running" ELSE "dropping")
    /\ UNCHANGED <<durable, entries, const, calib, lease, resv, signalled, crashes>>

\* The message was queued into a running run, the dispatch failed, or its
\* future was dropped before the run was published.
Abandon(r) ==
    /\ pc[r] \in {"leased", "checked", "admitted", "active"}
    /\ Goto(r, "dropping")
    /\ UNCHANGED <<durable, entries, const, calib, lease, resv, signalled, crashes>>

RunEnds(r) ==
    /\ pc[r] = "running"
    /\ Goto(r, "dropping")
    /\ UNCHANGED <<durable, entries, const, calib, lease, resv, signalled, crashes>>

RemoveLease_Leaks(t, r) == leases


RemoveLease(t, r) == [leases EXCEPT ![t] = @ \ {r}]

\* Drop of the ThreadRunLease: an entry that holds nothing else is evicted.
ReleaseLease(r) ==
    LET t == thread[r] IN
    /\ pc[r] = "dropping"
    /\ leases' = RemoveLease(t, r)
    /\ active' = [active EXCEPT ![r] = FALSE]
    /\ IF state[t] = "live" /\ leases[t] \subseteq {r} /\ pending[t] = {}
         THEN Evict(t)
         ELSE UNCHANGED <<state, epoch>>
    /\ NotifyWaiters
    /\ Goto(r, "done")
    /\ UNCHANGED <<durable, owner, pending, nonce, const, calib, valid, resv, crashes>>

-----------------------------------------------------------------------------
(* Reservations: one operation at a time owns the thread. *)

\* ReservationToken::matches, the full-tuple comparison.
Matches(m) ==
    LET t == thread[m] IN
    epoch[t] = token[m].epoch /\ state[t] = token[m].state /\ owner[t] = m

ActiveLease_Ignored(t) == FALSE

ActiveLease(t) == \E r \in leases[t] : active[r]

InstallReservation(m, s) ==
    LET t == thread[m] IN
    /\ Install(t, s)
    /\ owner' = [owner EXCEPT ![t] = m]
    /\ pending' = [pending EXCEPT ![t] = @ \cup {m}]
    /\ token' = [token EXCEPT ![m] = [epoch |-> NextNonce, state |-> s]]
    /\ prior' = [prior EXCEPT ![m] = state[t]]
    /\ target' = [target EXCEPT ![m] = state[t]]
    /\ cancelled' = [cancelled EXCEPT ![m] = FALSE]
    /\ UNCHANGED <<durable, leases, const, calib, active, crashes>>

InvalidateLeases_Skipped(t) == UNCHANGED valid

InvalidateLeases(t) ==
    valid' = [r \in Requests |-> valid[r] /\ r \notin leases[t]]

CanReserve(m) == pc[m] = "reserve" /\ state[thread[m]] \in Stable

\* reserve_archive: a running thread gets a rejection to record, any other
\* thread loses its leases.
ReserveArchive(m) ==
    LET t == thread[m] IN
    /\ CanReserve(m) /\ kind[m] = "archive"
    /\ \/ /\ state[t] = "live" /\ ActiveLease(t)
          /\ InstallReservation(m, "deciding")
          /\ UNCHANGED <<valid, signalled>>
       \/ /\ ~(state[t] = "live" /\ ActiveLease(t))
          /\ InvalidateLeases(t)
          /\ InstallReservation(m, "archiving")
          /\ NotifyWaiters
    /\ Goto(m, "tx")

ReserveDecision(m) ==
    /\ CanReserve(m) /\ kind[m] \in {"archive_decision", "delete_decision"}
    /\ InstallReservation(m, "deciding")
    /\ Goto(m, "tx")
    /\ UNCHANGED <<valid, signalled>>

ReserveDelete(m) ==
    /\ CanReserve(m) /\ kind[m] \in {"delete", "store_delete"}
    /\ InvalidateLeases(thread[m])
    /\ InstallReservation(m, "deleting")
    /\ NotifyWaiters
    /\ Goto(m, "drain")

\* reserve_creation first looks the record up, then takes an unused thread.
LookupRecord(m) ==
    /\ pc[m] = "lookup"
    /\ \/ ~record[thread[m]] /\ Goto(m, "reserve")
       \/ Goto(m, "done")
    /\ UNCHANGED <<durable, entries, const, calib, lease, resv, signalled, crashes>>

ReserveCreation(m) ==
    LET t == thread[m] IN
    /\ CanReserve(m) /\ kind[m] = "create"
    /\ state[t] = "live" /\ leases[t] = {}
    /\ InstallReservation(m, "deciding")
    /\ Goto(m, "tx")
    /\ UNCHANGED <<valid, signalled>>

\* CoordinationError::Unavailable
ReserveUnavailable(m) ==
    LET t == thread[m] IN
    /\ pc[m] = "reserve"
    /\ \/ state[t] \notin Stable
       \/ kind[m] = "create" /\ (state[t] # "live" \/ leases[t] # {})
    /\ Goto(m, "done")
    /\ UNCHANGED <<durable, entries, const, calib, lease, resv, signalled, crashes>>

-----------------------------------------------------------------------------
(* abort_and_drain_token: abort the runs, then wait for the last lease. *)

\* The aborter cancels a published run and waits for its task.
DrainAbort(m, r) ==
    /\ pc[m] = "drain" /\ Matches(m)
    /\ thread[r] = thread[m] /\ pc[r] = "running"
    /\ Goto(r, "dropping")
    /\ UNCHANGED <<durable, entries, const, calib, lease, resv, signalled, crashes>>

\* It returns when no run is indexed and no promoted lease could still be.
DrainAborted(m) ==
    LET t == thread[m] IN
    /\ pc[m] = "drain"
    /\ \/ ~Matches(m) /\ Goto(m, "settle")
       \/ /\ Matches(m)
          /\ \A r \in Requests : thread[r] = t => pc[r] # "running"
          /\ ~ActiveLease(t)
          /\ Goto(m, "arm")
    /\ UNCHANGED <<durable, entries, const, calib, lease, resv, signalled, crashes>>

\* wait_for_no_leases creates its Notified future before it looks.
DrainArm(m) ==
    /\ pc[m] = "arm"
    /\ signalled' = [signalled EXCEPT ![m] = FALSE]
    /\ Goto(m, "check")
    /\ UNCHANGED <<durable, entries, const, calib, lease, resv, crashes>>

DrainCheck_NoWait(m) ==
    /\ pc[m] = "check"
    /\ Goto(m, IF Matches(m) /\ ~cancelled[m] THEN "tx" ELSE "settle")
    /\ UNCHANGED <<durable, entries, const, calib, lease, resv, signalled, crashes>>

DrainCheck(m) ==
    LET t == thread[m] IN
    /\ pc[m] = "check"
    /\ \/ ~Matches(m) /\ Goto(m, "settle")
       \/ Matches(m) /\ leases[t] = {} /\ Goto(m, IF cancelled[m] THEN "settle" ELSE "tx")
       \/ Matches(m) /\ leases[t] # {} /\ Goto(m, "wait")
    /\ UNCHANGED <<durable, entries, const, calib, lease, resv, signalled, crashes>>

DrainWait(m) ==
    /\ pc[m] = "wait" /\ signalled[m]
    /\ Goto(m, "arm")
    /\ UNCHANGED <<durable, entries, const, calib, lease, resv, signalled, crashes>>

-----------------------------------------------------------------------------
(* The SQLite transactions that a reservation fences. *)

\* lifecycle_matrix and the rest of execute_lifecycle_transaction: what an
\* operation may commit, "settles" being the durable state it reports.
Verdict(s, tomb, drop) == [settles |-> s, tombstone |-> tomb, drops |-> drop]

LifecycleVerdicts(op, exists, term, reserved) ==
    LET forced  == reserved = "deciding"
        keep    == Verdict(term, "keep", FALSE)
        destroy == Verdict("deleted", "deleted", TRUE)
    IN
    IF op = "archive"
      THEN IF term = "live" /\ ~(exists /\ forced)
             THEN {Verdict("archived", "archived", exists)}
             ELSE {keep}
      ELSE IF term = "archived" THEN {destroy}
      ELSE IF term = "live" /\ exists /\ ~forced
             THEN {destroy, keep}               \* kept by an enabled binding
             ELSE {keep}

Operation(m) ==
    IF kind[m] \in {"archive", "archive_decision"} THEN "archive" ELSE "delete"

\* Write the tombstone and drop the record as one transaction.
Commit(t, v) ==
    /\ terminal' = IF v.tombstone = "keep"
                     THEN terminal
                     ELSE [terminal EXCEPT ![t] = v.tombstone]
    /\ record' = IF v.drops THEN [record EXCEPT ![t] = FALSE] ELSE record

\* The child marks the commit witness before its handle is ready, so the
\* reservation settles to the committed state whether its owner lives or not.
\* An operation id that is already in the ledger changes nothing.
LifecycleTransaction(m) ==
    LET t == thread[m] IN
    /\ pc[m] = "tx" /\ kind[m] \in LifecycleKinds
    /\ \E v \in LifecycleVerdicts(Operation(m), record[t], terminal[t],
                                  token[m].state)
                  \cup {Verdict(terminal[t], "keep", FALSE)} :
          /\ Commit(t, v)
          /\ target' = [target EXCEPT ![m] = v.settles]
    /\ Goto(m, "settle")
    /\ UNCHANGED <<entries, const, calib, lease, token, prior, cancelled, signalled, crashes>>

\* delete_thread_record_with_projections. No witness is marked here: when the
\* caller's future is gone the settlement is dropped and restores the prior.
StoreDeleteTransaction(m) ==
    LET t == thread[m]
        destroys == terminal[t] = "archived" \/ (terminal[t] = "live" /\ record[t])
        removed == destroys /\ record[t]
    IN
    /\ pc[m] = "tx" /\ kind[m] = "store_delete"
    /\ Commit(t, IF destroys THEN Verdict("deleted", "deleted", TRUE)
                             ELSE Verdict("live", "keep", FALSE))
    /\ target' = [target EXCEPT ![m] =
                    IF cancelled[m] THEN prior[m]
                    ELSE IF removed \/ prior[m] # "live" THEN "deleted" ELSE "live"]
    /\ Goto(m, "settle")
    /\ UNCHANGED <<entries, const, calib, lease, token, prior, cancelled, signalled, crashes>>

\* commit_create_intent_atomic
CreateTransaction(m) ==
    LET t == thread[m] IN
    /\ pc[m] = "tx" /\ kind[m] = "create"
    /\ ~record[t] /\ terminal[t] = "live"
    /\ record' = [record EXCEPT ![t] = TRUE]
    /\ Goto(m, "created")
    /\ UNCHANGED <<terminal, entries, const, calib, lease, resv, signalled, crashes>>

\* Wrong incarnation, a database error, a refused write, a panic.
TransactionFails(m) ==
    /\ pc[m] = "tx"
    /\ Goto(m, "settle")
    /\ UNCHANGED <<durable, entries, const, calib, lease, resv, signalled, crashes>>

-----------------------------------------------------------------------------
(* Settlement, transfer, cancellation. *)

\* settle_reservation, from an explicit settle or from Drop.
SettleReservation(m) ==
    LET t == thread[m]
        unused == target[m] = "live" /\ leases[t] = {} /\ pending[t] \subseteq {m}
    IN
    /\ pc[m] = "settle"
    /\ pending' = [pending EXCEPT ![t] = @ \ {m}]
    /\ \/ /\ Matches(m)
          /\ owner' = [owner EXCEPT ![t] = NoOwner]
          /\ IF unused THEN Evict(t) /\ UNCHANGED nonce ELSE Install(t, target[m])
       \/ /\ ~Matches(m)
          /\ UNCHANGED <<owner, state, epoch, nonce>>
    /\ NotifyWaiters
    /\ Goto(m, "done")
    /\ UNCHANGED <<durable, leases, const, calib, lease, resv, crashes>>

\* The create handler settles, or fails on its way to the first run.
CreationSettles(m) ==
    /\ pc[m] = "created"
    /\ Goto(m, "settle")
    /\ UNCHANGED <<durable, entries, const, calib, lease, resv, signalled, crashes>>

\* thread_bound_from_creation: the reservation becomes the lease of the first
\* request in one critical section.
TransferCreation(m, r) ==
    LET t == thread[m] IN
    /\ pc[m] = "created" /\ pc[r] = "idle" /\ thread[r] = t
    /\ record[t] /\ Matches(m) /\ prior[m] = "live"
    /\ Install(t, "live")
    /\ owner' = [owner EXCEPT ![t] = NoOwner]
    /\ pending' = [pending EXCEPT ![t] = @ \ {m}]
    /\ leases' = [leases EXCEPT ![t] = @ \cup {r}]
    /\ valid' = [valid EXCEPT ![r] = TRUE]
    /\ NotifyWaiters
    /\ pc' = [pc EXCEPT ![m] = "done", ![r] = "checked"]
    /\ UNCHANGED <<durable, const, calib, active, resv, crashes>>

\* The owner task of a lifecycle delete is aborted while its drain child runs:
\* the reaper keeps the reservation until the child ends.
AbortOwner(m) ==
    /\ pc[m] \in Draining /\ kind[m] = "delete" /\ ~cancelled[m]
    /\ cancelled' = [cancelled EXCEPT ![m] = TRUE]
    /\ UNCHANGED <<durable, entries, pc, const, calib, lease, token, prior, target,
                   signalled, crashes>>

\* The future of ThreadStore::delete is dropped: during the drain its
\* reservation goes at once, later the blocking transaction still runs.
CancelStoreDelete(m) ==
    /\ kind[m] = "store_delete" /\ ~cancelled[m]
    /\ pc[m] \in Draining \cup {"tx", "settle"}
    /\ cancelled' = [cancelled EXCEPT ![m] = TRUE]
    /\ target' = [target EXCEPT ![m] = prior[m]]
    /\ Goto(m, IF pc[m] \in Draining THEN "settle" ELSE pc[m])
    /\ UNCHANGED <<durable, entries, const, calib, lease, token, prior, signalled, crashes>>

-----------------------------------------------------------------------------
(* The rest of the gateway. *)

\* A thread record is written outside any reservation: the write checks the
\* tombstone inside its own transaction.
WriteRecord(t) ==
    /\ terminal[t] = "live" /\ ~record[t]
    /\ record' = [record EXCEPT ![t] = TRUE]
    /\ UNCHANGED <<terminal, entries, pc, const, calib, lease, resv, signalled, crashes>>

\* Everything but SQLite is lost, and so is every operation in flight.
Crash ==
    /\ crashes < MaxCrashes
    /\ crashes' = crashes + 1
    /\ state' = [t \in Threads |-> "absent"]
    /\ epoch' = [t \in Threads |-> 0]
    /\ owner' = [t \in Threads |-> NoOwner]
    /\ leases' = [t \in Threads |-> {}]
    /\ pending' = [t \in Threads |-> {}]
    /\ nonce' = 0
    /\ pc' = [a \in Actors |-> IF pc[a] = "idle" THEN "idle" ELSE "done"]
    /\ active' = [r \in Requests |-> FALSE]
    /\ UNCHANGED <<durable, const, calib, valid, resv, signalled>>

Finished ==
    /\ \A a \in Actors : pc[a] = "done"
    /\ UNCHANGED vars

-----------------------------------------------------------------------------
CalibStep(a) == Calibrated(a) \/ CalibBegin(a) \/ CalibRead(a) \/ CalibInstall(a)

RequestStep(r) ==
    \/ CalibStep(r)
    \/ ReserveRequest(r) \/ CheckRecord(r) \/ EnsureValid(r)
    \/ Promote(r) \/ Publish(r) \/ ReleaseLease(r)

DrainStep(m) ==
    \/ \E r \in Requests : DrainAbort(m, r)
    \/ DrainAborted(m) \/ DrainArm(m) \/ DrainCheck(m) \/ DrainWait(m)

MutatorStep(m) ==
    \/ CalibStep(m)
    \/ ReserveArchive(m) \/ ReserveDecision(m) \/ ReserveDelete(m)
    \/ LookupRecord(m) \/ ReserveCreation(m) \/ ReserveUnavailable(m)
    \/ DrainStep(m)
    \/ LifecycleTransaction(m) \/ StoreDeleteTransaction(m) \/ CreateTransaction(m)
    \/ TransactionFails(m)
    \/ CreationSettles(m) \/ SettleReservation(m)

Next ==
    \/ \E a \in Actors : Start(a)
    \/ \E r \in Requests : RequestStep(r) \/ Abandon(r) \/ RunEnds(r)
    \/ \E m \in Mutators : MutatorStep(m) \/ AbortOwner(m) \/ CancelStoreDelete(m)
    \/ \E m \in Mutators, r \in Requests : TransferCreation(m, r)
    \/ \E t \in Threads : WriteRecord(t)
    \/ Crash
    \/ Finished

Spec == Init /\ [][Next]_vars

\* Tokio keeps polling a task that can move.  A provider run may go on for
\* ever, a future need not be dropped, and nobody has to start an operation.
FairSpec ==
    /\ Spec
    /\ \A r \in Requests : WF_vars(RequestStep(r))
    /\ \A m \in Mutators : WF_vars(MutatorStep(m))

-----------------------------------------------------------------------------
(* Safety *)

\* A run that was promoted and has not given its lease back executes on a
\* thread that has a record and no tombstone: no interleaving of archive,
\* delete, decision, create, cancellation and failed transactions lets a
\* tombstone be committed under a run, or a run be promoted over a tombstone.
NoRunOnTerminalThread ==
    \A r \in Requests : active[r] => terminal[thread[r]] = "live" /\ record[thread[r]]

\* Every lease a request still holds is counted by its thread's entry, and an
\* entry counts no lease but those: eviction never forgets a live lease, so a
\* drain waits for all of them and for nothing else.
LeasesTracked ==
    \A t \in Threads :
        leases[t] = {r \in Requests : thread[r] = t /\ pc[r] \in Holding}

\* The full-tuple comparison of a reservation that is not settled always
\* succeeds: nobody replaces the state of a thread another operation owns.
ReservationCurrent == \A m \in Mutators : pc[m] \in Reserved => Matches(m)

\* A thread is fenced only while an operation that will settle it is in
\* flight: no error path, cancellation or eviction leaves it fenced for good.
NoAbandonedFence ==
    \A t \in Threads : state[t] \in Owned =>
        /\ owner[t] \in Mutators
        /\ thread[owner[t]] = t
        /\ pc[owner[t]] \in Reserved
        /\ Matches(owner[t])

\* A store-level delete whose caller was cancelled left its thread's entry to
\* the prior state, whatever the transaction did.
DroppedDelete(t) ==
    \E m \in Mutators : kind[m] = "store_delete" /\ cancelled[m] /\ thread[m] = t

\* Tombstones are the only truth: a stable state in the coordinator's cache is
\* the durable one, and no stale two-phase read ever lands over a newer state.
\* The exception is the cancelled store-level delete, whose settlement marks no
\* commit witness.
CacheCoherent ==
    \A t \in Threads :
        state[t] \in Stable => state[t] = terminal[t] \/ DroppedDelete(t)

\* The two durable tables agree: no write, create or archive race resurrects
\* the record of a tombstoned thread.
TombstoneExcludesRecord == \A t \in Threads : record[t] => terminal[t] = "live"

\* A live thread's record is destroyed by a delete only after every lease on
\* it was given back, and by an archive only when no lease on it can still
\* become a run.
DestroyFenced ==
    [][\A t \in Threads :
         (terminal[t] = "live" /\ record[t] /\ ~record'[t]) =>
            IF terminal'[t] = "deleted"
              THEN leases[t] = {}
              ELSE \A r \in leases[t] : ~valid[r] /\ ~active[r]]_vars

\* No run begins on a thread that an archive or a delete has reserved: a dispatch
\* that was promoted just before finds its lease invalid at its last look.  The
\* abort sweep of a drain has nothing behind it but the runs it found.
FencedThreadStartsNoRun ==
    [][\A r \in Requests :
         (pc[r] # "running" /\ pc'[r] = "running") =>
            state[thread[r]] \notin {"archiving", "deleting"}]_vars

-----------------------------------------------------------------------------
(* The inductive strengthening of NoRunOnTerminalThread. *)

\* A lease is active exactly from its promotion to its release.
LeaseShape ==
    \A r \in Requests :
        /\ active[r] => pc[r] \in {"active", "running", "dropping"}
        /\ pc[r] \in {"active", "running"} => active[r]

\* The owned state an operation reserved fits the transaction it will run.
TokenShape ==
    \A m \in Mutators :
        /\ pc[m] \in Draining \/ (pc[m] = "tx" /\ kind[m] = "store_delete")
             => token[m].state = "deleting"
        /\ pc[m] \in Draining => kind[m] \in {"delete", "store_delete"}
        /\ (pc[m] = "tx" /\ kind[m] \in LifecycleKinds) =>
             IF Operation(m) = "archive" THEN token[m].state \in {"deciding", "archiving"}
                                         ELSE token[m].state \in {"deciding", "deleting"}

\* What each reservation has done to the leases of its thread.
LeasesFenced ==
    /\ \A t \in Threads :
        /\ state[t] = "archiving" => \A r \in leases[t] : ~valid[r] /\ ~active[r]
        /\ state[t] = "deleting" => \A r \in leases[t] : ~valid[r]
    /\ \A m \in Mutators :
        pc[m] = "tx" /\ token[m].state = "deleting" => leases[thread[m]] = {}

\* A terminal state the coordinator has seen or cached is durably terminal.
CachedTombstones ==
    LET Terminal == {"archived", "deleted"} IN
    /\ \A t \in Threads : state[t] \in Terminal => terminal[t] # "live"
    /\ \A a \in Actors : seenTerminal[a] \in Terminal => terminal[thread[a]] # "live"
    /\ \A m \in Mutators :
        prior[m] \in Terminal \/ target[m] \in Terminal => terminal[thread[m]] # "live"

\* A lease that passed the record check and is still valid has its record.
CheckedRecord ==
    \A r \in Requests :
        valid[r] /\ pc[r] \in {"checked", "admitted", "active", "running"}
            => terminal[thread[r]] = "live" /\ record[thread[r]]

\* Inductive: every step of the system preserves this conjunction, and with it
\* the fact that no run meets a tombstone.
FenceInvariant ==
    /\ LeaseShape /\ TokenShape /\ LeasesFenced /\ CachedTombstones /\ CheckedRecord
    /\ LeasesTracked /\ ReservationCurrent /\ NoAbandonedFence
    /\ TombstoneExcludesRecord /\ NoRunOnTerminalThread

\* The inductive strengthening of CacheCoherent.  A two-phase read that still
\* fits its entry is current: a tombstone is written only under a reservation,
\* and every entry after it has another epoch.
ReadsCurrent ==
    /\ \A t \in Threads : epoch[t] <= nonce /\ (state[t] # "absent" => epoch[t] > 0)
    /\ \A a \in Actors : pc[a] \in {"read", "install"} =>
        /\ 0 < seenEpoch[a] /\ seenEpoch[a] <= nonce
        /\ epoch[thread[a]] = seenEpoch[a] =>
            /\ state[thread[a]] = "uncalibrated"
            /\ pc[a] = "install" => seenTerminal[a] \in {terminal[thread[a]], "error"}

\* What a reservation will settle to is what its transaction left behind.
OutcomesCurrent ==
    \A m \in Mutators :
        /\ cancelled[m] => pc[m] \in Reserved \cup {"done"}
        /\ pc[m] \in Reserved =>
            \/ DroppedDelete(thread[m])
            \/ /\ target[m] = terminal[thread[m]]
               /\ pc[m] # "settle" => prior[m] = terminal[thread[m]]

\* What is cached is what is stored, what a calibration still may install is what
\* is stored, and what a reservation will settle to is what its transaction left:
\* the cache of ensure_calibrated and settle_reservation never tells a dispatch
\* that a destroyed thread is free, nor that a live one is gone.
CacheInvariant == CacheCoherent /\ ReadsCurrent /\ OutcomesCurrent

-----------------------------------------------------------------------------
(* Refinement and liveness *)

Fence == INSTANCE RunFence WITH
            runs <- [t \in Threads |-> {r \in leases[t] : active[r]}]

\* The coordinator implements the fence it promises: runs begin only on live
\* threads, a thread turns terminal only without runs, and never turns back.
ImplementsFence == Fence!Spec

\* Every lifecycle, delete or create operation that started comes to an end.
MutationsEnd ==
    \A m \in Mutators : pc[m] = "calib" ~> pc[m] = "done"

\* Every dispatch that started gets a run or an answer, whatever lifecycle
\* operations run against its thread.
DispatchesAnswered ==
    \A r \in Requests : pc[r] = "calib" ~> pc[r] \in {"running", "done"}
=============================================================================
