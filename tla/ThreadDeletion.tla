--------------------------- MODULE ThreadDeletion ---------------------------
(***************************************************************************)
(* The end of a thread and what it leaves behind: the lifecycle requests   *)
(* with their registry and supervisor (routes/lifecycle.rs,                *)
(* thread_lifecycle.rs), the freeze of a deleted thread's bindings and the *)
(* mutator that moves a channel endpoint from thread to thread             *)
(* (endpoint_binding_mutator.rs), the router's map of endpoints            *)
(* (router/threading), and the cleanup outbox with its worker.             *)
(*                                                                         *)
(* The coordinator appears as the reservation of a thread and the fact that*)
(* a run holds a lease; ThreadRunCoordinator models it.                    *)
(***************************************************************************)
EXTENDS Naturals, Sequences, FiniteSets

CONSTANTS
    Threads, Endpoints,
    Operations,     \* operation ids of lifecycle requests
    NoOne,          \* no thread, no operation
    MaxFaults       \* bound on storage errors, failed cleanup steps, dying owners
                    \* and restarts

ASSUME BoundsAssumption == MaxFaults \in Nat
ASSUME NoOneAssumption == NoOne \notin Threads \cup Operations /\ IsFiniteSet(Endpoints)

\* What a thread leaves outside its record, each removed by the step of that name.
Residue == {"session", "transcript", "log", "attachments"}

Requests == [kind : {"archive", "delete"}, thread : Threads, keys : SUBSET Endpoints]

\* snap: the endpoints of enabled accounts in the preflight's config snapshot.
\* orphan: the owner task is gone and the reaper waits for its child.
Owners == [pc : {"none", "lookup", "archive", "refuse", "frozen", "drain", "decide",
                 "commit", "settle"},
           snap : SUBSET Endpoints, orphan : BOOLEAN]
NoOwner == [pc |-> "none", snap |-> {}, orphan |-> FALSE]

Jobs == [thread : Threads, step : Residue \cup {"invalidate"}, endpoint : Endpoints \cup {NoOne},
         done : BOOLEAN, backoff : BOOLEAN]

\* The holder of the mutation lock between its reads and its write.
Mutations == [by : {"bind", "detach", "move"}, endpoint : Endpoints,
              target : Threads \cup {NoOne}, previous : Threads \cup {NoOne}]
NoMutation == [by |-> "none"]

Routers == [pc : {"idle", "bind", "detach", "publish", "purge", "found"},
            endpoint : Endpoints \cup {NoOne}, thread : Threads \cup {NoOne}]

VARIABLES
    record,      \* durable: "absent", "live", "archived" or "deleted"
    bound,       \* durable: the endpoints in the thread's record
    owner,       \* durable: thread_channel_endpoints, the projection of the records
    ledger,      \* durable: lifecycle_operations
    outbox,      \* durable: cleanup_outbox
    residue,     \* what is left of a thread
    request,     \* the request that each operation id stands for
    op,          \* the registered owner of an operation id
    freeze,      \* binding_freezes
    reserved,    \* the coordinator's lifecycle reservation
    running,     \* a run of the thread holds a lease
    mutation,    \* the mutation lock
    router,      \* the router lock and the task that holds it
    route,       \* endpoint_thread_map
    worker,      \* the outbox worker
    faults

threads == <<record, bound, owner>>
cleanup == <<outbox, residue, worker>>
operations == <<request, ledger, op, freeze, reserved>>
routing == <<mutation, router, route>>
vars == <<threads, cleanup, operations, running, routing, faults>>

TypeOK ==
    /\ record \in [Threads -> {"absent", "live", "archived", "deleted"}]
    /\ bound \in [Threads -> SUBSET Endpoints]
    /\ owner \in [Endpoints -> Threads \cup {NoOne}]
    /\ ledger \in [Operations -> {"none", "applied", "rejected"}]
    /\ outbox \in Seq(Jobs)
    /\ residue \in [Threads -> SUBSET Residue]
    /\ request \in [Operations -> Requests]
    /\ op \in [Operations -> Owners]
    /\ freeze \in [Threads -> Operations \cup {NoOne}]
    /\ reserved \in [Threads -> Operations \cup {NoOne}]
    /\ running \in [Threads -> BOOLEAN]
    /\ mutation \in Mutations \cup {NoMutation}
    /\ router \in Routers
    /\ route \in [Endpoints -> Threads \cup {NoOne}]
    /\ worker \in [pc : {"poll", "execute", "purge", "mark", "retry", "sleep"}, job : Nat]
    /\ faults \in Nat

Polling == [pc |-> "poll", job |-> 0]
IdleRouter == [pc |-> "idle", endpoint |-> NoOne, thread |-> NoOne]

\* A thread that was archived before, and cleaned up, still has its attachments.
Init ==
    /\ record \in [Threads -> {"absent", "live", "archived"}]
    /\ bound = [t \in Threads |-> {}] /\ owner = [e \in Endpoints |-> NoOne]
    /\ ledger = [o \in Operations |-> "none"]
    /\ outbox = <<>>
    /\ residue = [t \in Threads |-> IF record[t] = "archived" THEN {"attachments"} ELSE {}]
    /\ request \in [Operations -> {r \in Requests : r.kind = "delete" => r.keys = {}}]
    /\ op = [o \in Operations |-> NoOwner]
    /\ freeze = [t \in Threads |-> NoOne] /\ reserved = [t \in Threads |-> NoOne]
    /\ running = [t \in Threads |-> FALSE]
    /\ mutation = NoMutation
    /\ router = IdleRouter /\ route = [e \in Endpoints |-> NoOne]
    /\ worker = Polling
    /\ faults = 0

Live(t) == t # NoOne /\ record[t] = "live"
Dead(t) == t # NoOne /\ record[t] \in {"archived", "deleted"}
Fail == faults < MaxFaults /\ faults' = faults + 1

-----------------------------------------------------------------------------
(* Endpoint bindings: the mutator, and the router that publishes its result. *)

RouterStarts ==
    /\ router.pc = "idle"
    /\ \E e \in Endpoints, t \in Threads :
          \/ router' = [pc |-> "bind", endpoint |-> e, thread |-> t]
          \/ router' = [pc |-> "detach", endpoint |-> e, thread |-> NoOne]
    /\ UNCHANGED <<threads, cleanup, operations, running, mutation, route, faults>>

\* bind_endpoint reads under the lock: the target must be live and not frozen.
MayBind(t) == Live(t) /\ freeze[t] = NoOne

\* bind_endpoint and detach_endpoint as the router calls them
RouterMutates ==
    LET e == router.endpoint
        t == router.thread
    IN
    /\ mutation = NoMutation
    /\ \/ /\ router.pc = "bind" /\ MayBind(t)
          /\ mutation' = [by |-> "bind", endpoint |-> e, target |-> t, previous |-> owner[e]]
          /\ UNCHANGED router
       \/ /\ router.pc = "detach" /\ owner[e] # NoOne
          /\ mutation' = [by |-> "detach", endpoint |-> e, target |-> NoOne, previous |-> owner[e]]
          /\ UNCHANGED router
       \/ /\ router.pc = "bind" /\ ~MayBind(t)
          /\ router' = IdleRouter
          /\ UNCHANGED mutation
       \/ /\ router.pc = "detach" /\ owner[e] = NoOne
          /\ router' = [router EXCEPT !.pc = "purge"]
          /\ UNCHANGED mutation
    /\ UNCHANGED <<threads, cleanup, operations, running, route, faults>>

\* A dispatch or a creation that moves an endpoint: the router has no part in it.
DispatchMoves ==
    /\ mutation = NoMutation
    /\ \E e \in Endpoints, t \in Threads :
          /\ record[t] = "absent" \/ MayBind(t)
          /\ mutation' = [by |-> "move", endpoint |-> e, target |-> t, previous |-> owner[e]]
    /\ UNCHANGED <<threads, cleanup, operations, running, router, route, faults>>

\* write_thread_records_with_projections_atomic: every record must still be there.
Writable(m) ==
    /\ m.target # NoOne => ~Dead(m.target)
    /\ m.previous \in Threads \ {m.target} => Live(m.previous)

Write(m) ==
    /\ bound' = [t \in Threads |->
                    IF t = m.target THEN bound[t] \cup {m.endpoint}
                    ELSE IF t = m.previous THEN bound[t] \ {m.endpoint} ELSE bound[t]]
    /\ owner' = [owner EXCEPT ![m.endpoint] = m.target]
    /\ record' = IF m.target = NoOne THEN record ELSE [record EXCEPT ![m.target] = "live"]

MutationCommits ==
    /\ mutation # NoMutation
    /\ mutation' = NoMutation
    /\ \/ /\ Writable(mutation) /\ Write(mutation)
          /\ router' = IF mutation.by = "move" THEN router
                       ELSE [router EXCEPT !.pc = IF @ = "bind" THEN "publish" ELSE "purge"]
          /\ UNCHANGED faults
       \/ /\ (~Writable(mutation) /\ UNCHANGED faults) \/ Fail
          /\ router' = IF mutation.by = "move" THEN router ELSE IdleRouter
          /\ UNCHANGED threads
    /\ UNCHANGED <<cleanup, operations, running, route>>

\* The end of bind_endpoint_runtime and detach_endpoint_runtime
RouterPublishes ==
    /\ router.pc \in {"publish", "purge"}
    /\ route' = [route EXCEPT ![router.endpoint] =
                    IF router.pc = "publish" THEN router.thread ELSE NoOne]
    /\ router' = IdleRouter
    /\ UNCHANGED <<threads, cleanup, operations, running, mutation, faults>>

\* resolve_endpoint_thread_id: a route to a thread that exists answers at once;
\* else the projection is read, and then the thread looked up.
Resolve ==
    /\ router.pc = "idle"
    /\ \E e \in Endpoints :
          /\ ~Live(route[e])
          /\ route' = [route EXCEPT ![e] = NoOne]
          /\ router' = IF owner[e] = NoOne THEN IdleRouter
                       ELSE [pc |-> "found", endpoint |-> e, thread |-> owner[e]]
    /\ UNCHANGED <<threads, cleanup, operations, running, mutation, faults>>

Resolved ==
    /\ router.pc = "found"
    /\ \/ Live(router.thread) /\ route' = [route EXCEPT ![router.endpoint] = router.thread]
       \/ ~Live(router.thread) /\ UNCHANGED route
    /\ router' = IdleRouter
    /\ UNCHANGED <<threads, cleanup, operations, running, mutation, faults>>

-----------------------------------------------------------------------------
(* Runs, as far as they leave something behind: those of the threads that *)
(* some request is about, since nothing below looks at the others'.       *)

RunStarts(t) ==
    /\ Live(t) /\ reserved[t] = NoOne /\ ~running[t]
    /\ running' = [running EXCEPT ![t] = TRUE]
    /\ UNCHANGED <<threads, cleanup, operations, routing, faults>>

RunWrites(t) ==
    /\ running[t]
    /\ residue' = [residue EXCEPT ![t] = Residue]
    /\ UNCHANGED <<threads, outbox, worker, operations, running, routing, faults>>

RunEnds(t) ==
    /\ running[t]
    /\ running' = [running EXCEPT ![t] = FALSE]
    /\ UNCHANGED <<threads, cleanup, operations, routing, faults>>

-----------------------------------------------------------------------------
(* Lifecycle operations. *)

Thread(o) == request[o].thread
Goto(o, s) == op' = [op EXCEPT ![o].pc = s]

\* The guards of an owner: its cell, its freeze, its reservation.  They are
\* dropped one after the other; a request between two drops is told that the
\* operation is in progress, as one before the first is.
DropGuards(o) ==
    /\ op' = [op EXCEPT ![o] = NoOwner]
    /\ freeze' = [t \in Threads |-> IF freeze[t] = o THEN NoOne ELSE freeze[t]]
    /\ reserved' = [t \in Threads |-> IF reserved[t] = o THEN NoOne ELSE reserved[t]]

\* handle_lifecycle_request: the lookup found nothing, now or a while ago, and
\* no owner is registered.  (A request that finds one joins it.)
Request(o) ==
    /\ op[o].pc = "none"
    /\ Goto(o, "lookup")
    /\ UNCHANGED <<threads, cleanup, request, ledger, freeze, reserved, running, routing, faults>>

\* run_lifecycle_owner_inner: the second lookup, then an archive checks the
\* automations and a delete the bindings.
OwnerLookup(o) ==
    /\ op[o].pc = "lookup"
    /\ \/ /\ ledger[o] # "none" /\ op' = [op EXCEPT ![o] = NoOwner]
          /\ UNCHANGED <<freeze, faults>>
       \/ /\ Fail /\ op' = [op EXCEPT ![o] = NoOwner]
          /\ UNCHANGED freeze
       \/ /\ ledger[o] = "none" /\ request[o].kind = "archive"
          /\ Goto(o, "archive") \/ (Live(Thread(o)) /\ Goto(o, "refuse"))
          /\ UNCHANGED <<freeze, faults>>
       \/ /\ ledger[o] = "none" /\ request[o].kind = "delete"
          /\ mutation = NoMutation
          /\ \/ /\ freeze[Thread(o)] # NoOne
                /\ op' = [op EXCEPT ![o] = NoOwner]
                /\ UNCHANGED freeze
             \/ /\ freeze[Thread(o)] = NoOne /\ bound[Thread(o)] # {}
                /\ Goto(o, "refuse")
                /\ UNCHANGED freeze
             \/ /\ freeze[Thread(o)] = NoOne
                /\ \E enabled \in SUBSET (Endpoints \ bound[Thread(o)]) :
                      op' = [op EXCEPT ![o].pc = "frozen", ![o].snap = enabled]
                /\ freeze' = [freeze EXCEPT ![Thread(o)] = o]
          /\ UNCHANGED faults
    /\ UNCHANGED <<threads, cleanup, request, ledger, reserved, running, routing>>

\* reserve_archive, reserve_decision and reserve_delete
Reserve(o) ==
    /\ op[o].pc \in {"archive", "refuse", "frozen"}
    /\ \/ /\ reserved[Thread(o)] # NoOne
          /\ DropGuards(o)
       \/ /\ reserved[Thread(o)] = NoOne
          /\ reserved' = [reserved EXCEPT ![Thread(o)] = o]
          /\ Goto(o, CASE op[o].pc = "frozen" -> "drain"
                       [] op[o].pc = "refuse" -> "decide"
                       [] op[o].pc = "archive" -> IF running[Thread(o)] THEN "decide" ELSE "commit")
          /\ UNCHANGED freeze
    /\ UNCHANGED <<threads, cleanup, request, ledger, running, routing, faults>>

\* abort_and_drain_future; when its owner is gone nobody goes on after it.
Drain(o) ==
    /\ op[o].pc = "drain"
    /\ \/ /\ running' = [running EXCEPT ![Thread(o)] = FALSE]
          /\ Goto(o, IF op[o].orphan THEN "settle" ELSE "commit")
          /\ UNCHANGED faults
       \/ /\ Fail /\ Goto(o, "settle")
          /\ UNCHANGED running
    /\ UNCHANGED <<threads, cleanup, request, ledger, freeze, reserved, routing>>

Job(t, s, e) == [thread |-> t, step |-> s, endpoint |-> e, done |-> FALSE, backoff |-> FALSE]

\* An order of the endpoints, as the query's ORDER BY gives one.
Ordered(s) == CHOOSE q \in [1 .. Cardinality(s) -> s] : \A e \in s : \E i \in DOMAIN q : q[i] = e

CleanupJobs(o) ==
    LET t == Thread(o)
        keys == Ordered({e \in Endpoints : owner[e] = t} \cup
                        IF request[o].kind = "archive" THEN request[o].keys ELSE {})
    IN  [i \in DOMAIN keys |-> Job(t, "invalidate", keys[i])]
        \o <<Job(t, "session", NoOne), Job(t, "transcript", NoOne), Job(t, "log", NoOne)>>
        \o IF request[o].kind = "delete" THEN <<Job(t, "attachments", NoOne)>> ELSE <<>>

\* lifecycle_matrix, for a transaction that may change the thread: the verdict
\* and, where it is applied to something that exists, the cleanup.
Applies(o) ==
    \/ Live(Thread(o))
    \/ record[Thread(o)] = "archived" /\ request[o].kind = "delete"
Noop(o) == record[Thread(o)] = (IF request[o].kind = "archive" THEN "archived" ELSE "deleted")

EnabledBinding(o) == Live(Thread(o)) /\ bound[Thread(o)] \cap op[o].snap # {}

\* execute_lifecycle_transaction
Commit(o) ==
    LET t == Thread(o)
        terminal == IF request[o].kind = "archive" THEN "archived" ELSE "deleted"
    IN
    /\ op[o].pc \in {"decide", "commit"}
    /\ \/ /\ op[o].pc = "commit" \/ ~Live(t)
          /\ Applies(o) /\ ~EnabledBinding(o)
          /\ ledger' = [ledger EXCEPT ![o] = "applied"]
          /\ record' = [record EXCEPT ![t] = terminal]
          /\ bound' = [bound EXCEPT ![t] = {}]
          /\ owner' = [e \in Endpoints |-> IF owner[e] = t THEN NoOne ELSE owner[e]]
          /\ outbox' = outbox \o CleanupJobs(o)
          /\ UNCHANGED faults
       \/ /\ ~Applies(o) \/ EnabledBinding(o) \/ (op[o].pc = "decide" /\ Live(t))
          /\ ledger' = [ledger EXCEPT ![o] =
                           IF Noop(o) \/ (record[t] = "absent" /\ request[o].kind = "archive")
                           THEN "applied" ELSE "rejected"]
          /\ record' = IF record[t] = "absent" /\ request[o].kind = "archive"
                       THEN [record EXCEPT ![t] = "archived"] ELSE record
          /\ UNCHANGED <<bound, owner, outbox, faults>>
       \/ /\ faults < MaxFaults /\ faults' = faults + 1
          /\ UNCHANGED <<ledger, threads, outbox>>
    /\ Goto(o, "settle")
    /\ UNCHANGED <<residue, worker, request, freeze, reserved, running, routing>>

\* settle_committed, settle_decision or settle_transient, publish, wake_outbox
Settle(o) ==
    /\ op[o].pc = "settle"
    /\ DropGuards(o)
    /\ worker' = IF worker.pc = "sleep" THEN Polling ELSE worker
    /\ UNCHANGED <<threads, outbox, residue, request, ledger, running, routing, faults>>

\* The owner task dies.  While it waits for its child the reaper takes over the
\* child and the guards; else the guards are dropped.
HasChild(o) == op[o].pc \in {"drain", "decide", "commit"}

OwnerDies_GuardsToo(o) ==
    /\ op[o].pc # "none" /\ ~op[o].orphan
    /\ Fail
    /\ op' = [op EXCEPT ![o] = IF HasChild(o) THEN [@ EXCEPT !.orphan = TRUE] ELSE NoOwner]
    /\ freeze' = [t \in Threads |-> IF freeze[t] = o THEN NoOne ELSE freeze[t]]
    /\ reserved' = [t \in Threads |-> IF reserved[t] = o THEN NoOne ELSE reserved[t]]
    /\ UNCHANGED <<threads, cleanup, request, ledger, running, routing>>

OwnerDies(o) ==
    /\ op[o].pc # "none" /\ ~op[o].orphan
    /\ Fail
    /\ \/ ~HasChild(o) /\ DropGuards(o)
       \/ /\ HasChild(o)
          /\ op' = [op EXCEPT ![o].orphan = TRUE]
          /\ UNCHANGED <<freeze, reserved>>
    /\ UNCHANGED <<threads, cleanup, request, ledger, running, routing>>

-----------------------------------------------------------------------------
(* The cleanup outbox. *)

\* next_cleanup_outbox_job: the jobs of a thread are done in their order.
Ready == {j \in DOMAIN outbox :
            /\ ~outbox[j].done /\ ~outbox[j].backoff
            /\ \A i \in 1 .. j - 1 : outbox[i].thread = outbox[j].thread => outbox[i].done}

WorkerGoto(s) == worker' = [worker EXCEPT !.pc = s]
theJob == outbox[worker.job]

Poll ==
    /\ worker.pc = "poll"
    /\ \/ /\ Ready # {}
          /\ worker' = [pc |-> "execute", job |-> CHOOSE j \in Ready : \A i \in Ready : j <= i]
          /\ UNCHANGED faults
       \/ Ready = {} /\ WorkerGoto("sleep") /\ UNCHANGED faults
       \/ Fail /\ WorkerGoto("sleep")
    /\ UNCHANGED <<threads, outbox, residue, operations, running, routing>>

Awake_OnlyNotified ==
    /\ worker.pc = "sleep" /\ FALSE
    /\ UNCHANGED vars

\* Notified, or after OUTBOX_IDLE_POLL.
Awake ==
    /\ worker.pc = "sleep"
    /\ worker' = Polling
    /\ UNCHANGED <<threads, outbox, residue, operations, running, routing, faults>>

PurgeIfOwned_Always(e, t) == [route EXCEPT ![e] = NoOne]
PurgeIfOwned(e, t) == IF route[e] = t THEN [route EXCEPT ![e] = NoOne] ELSE route

\* execute_step.  The routes are changed under the router lock.
Execute ==
    /\ worker.pc = "execute"
    /\ \/ /\ theJob.step = "invalidate" /\ router.pc = "idle"
          /\ route' = PurgeIfOwned(theJob.endpoint, theJob.thread)
          /\ WorkerGoto("mark")
          /\ UNCHANGED <<residue, faults>>
       \/ /\ theJob.step \in Residue
          /\ residue' = [residue EXCEPT ![theJob.thread] = @ \ {theJob.step}]
          /\ WorkerGoto(IF theJob.step = "session" THEN "purge" ELSE "mark")
          /\ UNCHANGED <<route, faults>>
       \/ /\ theJob.step \in Residue /\ Fail
          /\ WorkerGoto("retry")
          /\ UNCHANGED <<residue, route>>
    /\ UNCHANGED <<threads, outbox, operations, running, mutation, router>>

\* The second half of a runtime teardown: drop_thread_state, then
\* purge_thread_from_indexes.
ExecutePurge ==
    /\ worker.pc = "purge" /\ router.pc = "idle"
    /\ route' = [e \in Endpoints |-> IF route[e] = theJob.thread THEN NoOne ELSE route[e]]
    /\ WorkerGoto("mark")
    /\ UNCHANGED <<threads, outbox, residue, operations, running, mutation, router, faults>>

Mark ==
    /\ worker.pc \in {"mark", "retry"}
    /\ \/ /\ outbox' = IF worker.pc = "mark" THEN [outbox EXCEPT ![worker.job].done = TRUE]
                       ELSE [outbox EXCEPT ![worker.job].backoff = TRUE]
          /\ worker' = Polling
          /\ UNCHANGED faults
       \/ Fail /\ WorkerGoto("sleep") /\ UNCHANGED outbox
    /\ UNCHANGED <<threads, residue, operations, running, routing>>

BackoffEnds ==
    /\ \E j \in DOMAIN outbox : outbox[j].backoff /\ outbox' = [outbox EXCEPT ![j].backoff = FALSE]
    /\ UNCHANGED <<threads, residue, worker, operations, running, routing, faults>>

\* Only the tables survive, and what is on disk.
Restart ==
    /\ Fail
    /\ op' = [o \in Operations |-> NoOwner]
    /\ freeze' = [t \in Threads |-> NoOne] /\ reserved' = [t \in Threads |-> NoOne]
    /\ running' = [t \in Threads |-> FALSE]
    /\ residue' = [t \in Threads |-> residue[t] \ {"session"}]
    /\ mutation' = NoMutation
    /\ router' = IdleRouter /\ route' = [e \in Endpoints |-> NoOne]
    /\ worker' = Polling
    /\ UNCHANGED <<threads, outbox, request, ledger>>

Bindings == \/ RouterStarts \/ RouterMutates \/ DispatchMoves \/ MutationCommits
            \/ RouterPublishes \/ Resolve \/ Resolved
Work == Poll \/ Awake \/ Execute \/ ExecutePurge \/ Mark
Owner(o) == OwnerLookup(o) \/ Reserve(o) \/ Drain(o) \/ Commit(o) \/ Settle(o)

Next ==
    \/ Bindings \/ Work \/ BackoffEnds \/ Restart
    \/ \E t \in {Thread(o) : o \in Operations} : RunStarts(t) \/ RunWrites(t) \/ RunEnds(t)
    \/ \E o \in Operations : Request(o) \/ Owner(o) \/ OwnerDies(o)

Spec == Init /\ [][Next]_vars

\* The worker's task and the reapers run, a router task that holds the lock goes
\* on, and a backoff ends.
Fairness ==
    /\ WF_vars(Poll \/ Awake \/ Mark)
    /\ SF_vars(Execute \/ ExecutePurge) /\ SF_vars(RouterMutates)
    /\ WF_vars(MutationCommits) /\ WF_vars(RouterPublishes \/ Resolved)
    /\ WF_vars(BackoffEnds)

FairSpec == Spec /\ Fairness

-----------------------------------------------------------------------------
(* Properties *)

\* An endpoint is bound in the record of one thread, and the projection names it.
OneHolder == \A t \in Threads : \A e \in bound[t] : owner[e] = t

\* While the transaction of a delete may still happen, its thread is frozen and
\* reserved by it, also when the task that asked for it is gone.
GuardsOutliveChild ==
    \A o \in Operations :
        /\ HasChild(o) => reserved[Thread(o)] = o
        /\ HasChild(o) /\ request[o].kind = "delete" /\ op[o].pc # "decide" => freeze[Thread(o)] = o

\* A route to a thread that is gone is about to be purged: the routes are filled
\* from reads that a deletion may have overtaken.
Pending(t, s) == \E j \in DOMAIN outbox : outbox[j].thread = t /\ outbox[j].step = s /\ ~outbox[j].done
StaleRouteIsPurged == \A e \in Endpoints : Dead(route[e]) => Pending(route[e], "session")

\* What was cleaned stays clean: no run of the thread outlives its deletion and
\* writes its files again.
CleanedStaysClean ==
    \A t \in Threads, s \in Residue :
        record[t] = "deleted" /\ s \in residue[t] => Pending(t, s)

\* What holds between any two steps of deletions, bindings and cleanup.
DeletionInvariant ==
    TypeOK /\ OneHolder /\ GuardsOutliveChild /\ StaleRouteIsPurged /\ CleanedStaysClean

\* A cleanup that comes late, or again, leaves the endpoint of another thread
\* alone, and a deletion that was frozen takes no bot away from the user.
SparesTheLiving ==
    [][/\ Work => \A e \in Endpoints : route'[e] # route[e] => Dead(route[e])
       /\ \A o \in Operations :
             request[o].kind = "delete" /\ ledger[o] = "none" /\ ledger'[o] = "applied" =>
                bound[Thread(o)] \cap op[o].snap = {}]_vars

\* Once a deletion is committed, all of the thread goes, whatever fails or dies
\* in between.
Cleaned ==
    \A t \in Threads :
        record[t] = "deleted" ~> residue[t] = {} /\ \A e \in Endpoints : route[e] # t

\* composition/app_state.rs: "the router's endpoint routing map is a lazy
\* per-endpoint cache over the SQL endpoint projection": when nothing is under way,
\* a route is to the thread that owns the endpoint.
RouteMatchesOwner ==
    router.pc = "idle" /\ mutation = NoMutation =>
        \A e \in Endpoints : Live(route[e]) => route[e] = owner[e]
=============================================================================
