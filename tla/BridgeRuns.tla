----------------------------- MODULE BridgeRuns -----------------------------
(***************************************************************************)
(* The runs of one thread in the provider bridge                           *)
(* (garyx-bridge/multi_provider/run_management.rs): dispatches that queue  *)
(* into the active run, replace it or start their own; the task of a run   *)
(* with its three tables (run index, active tasks, persistence handle);    *)
(* the worker that writes what the run streams; and the requests that      *)
(* abort runs, one at a time or until the thread is drained.               *)
(*                                                                         *)
(* The provider is external: it takes follow-up input while its run is on, *)
(* acknowledges it or not, and ends the run when it likes.  The lease of a *)
(* dispatch is the coordinator's; a drain has reserved the thread, which   *)
(* makes every lease invalid.                                              *)
(***************************************************************************)
EXTENDS Naturals, Sequences, FiniteSets

CONSTANTS
    Dispatches,     \* run ids; a dispatch that is queued is the input of that name
    NoRun,
    Durables,       \* the sets of dispatches that may have a durable plan
    MaxStops,       \* bound on interrupt requests of the user
    MaxDrops        \* bound on requests that are dropped

ASSUME RunAssumption ==
    /\ NoRun \notin Dispatches /\ {"stop", "drain"} \cap Dispatches = {}
    /\ MaxStops \in Nat /\ MaxDrops \in Nat /\ Durables \subseteq SUBSET Dispatches

Runs == Dispatches
Commands == [do : {"queue", "drop", "ack"}, input : Dispatches]
            \cup [do : {"abort", "finish"}]

Workers == [pc : {"none", "open", "finish", "done"},
            queue : Seq(Commands), pending : SUBSET Dispatches]

\* The requests that abort: the user's interrupt, a deletion's drain, and a
\* dispatch that replaces the active run.
Aborters == Dispatches \cup {"stop", "drain"}
Aborts == [pc : {"off", "pick", "detach", "kill", "await", "unindex", "ack"},
           run : Runs \cup {NoRun}, left : SUBSET Runs, acks : BOOLEAN, any : BOOLEAN]
NoAbort == [pc |-> "off", run |-> NoRun, left |-> {}, acks |-> FALSE, any |-> FALSE]

VARIABLES
    mode,       \* a legacy dispatch, or one with a durable plan
    pc,         \* where a dispatch is
    aim,        \* the run that it is planned for, or replaces
    tag,        \* bridge_run_id of its pending input: the run that it was offered to
    guard,      \* the thread's dispatch guard
    lease,      \* of a dispatch: "none", "held", "active"
    drain,      \* the deletion's drain: "none", "on", "swept", "done"
    index,      \* active_runs and run_sessions
    tasks,      \* active_tasks
    handle,     \* active_thread_persistence of the thread
    task,       \* the spawned task of a run
    killed,     \* tasks whose abort was requested
    inbox,      \* inputs that the provider of a run took and has not acknowledged
    worker,     \* the persistence worker of a run
    record,     \* pending_user_inputs of the thread record
    users,      \* user rows of acknowledged inputs in the transcript
    abort, stops, drops,
    stuck       \* history: runs whose abort was dropped before it unindexed them

dispatches == <<mode, pc, aim, tag, guard, lease>>
tables == <<index, tasks, handle>>
runtime == <<task, killed, inbox>>
storage == <<worker, record, users>>
limits == <<stops, drops, stuck>>
aborts == <<abort, drain, limits>>
vars == <<dispatches, tables, runtime, storage, aborts>>

Executing == {"provider", "join", "persist", "unindex", "untrack"}

TypeOK ==
    /\ mode \in [Dispatches -> {"legacy", "durable"}]
    /\ pc \in [Dispatches -> {"new", "plan", "offer", "asked", "replace", "abort", "wait",
                              "permit", "publish", "started", "queued", "refused"}]
    /\ aim \in [Dispatches -> Runs \cup {NoRun}] /\ tag \in [Dispatches -> Runs \cup {NoRun}]
    /\ guard \in Dispatches \cup {NoRun}
    /\ lease \in [Dispatches -> {"none", "held", "active"}]
    /\ drain \in {"none", "on", "swept", "done"}
    /\ index \subseteq Runs /\ tasks \subseteq Runs /\ handle \in Runs \cup {NoRun}
    /\ task \in [Runs -> Executing \cup {"none", "done", "dead"}]
    /\ killed \subseteq Runs
    /\ inbox \in [Runs -> SUBSET Dispatches]
    /\ worker \in [Runs -> Workers]
    /\ record \in [Dispatches -> {"none", "queued", "abandoned"}]
    /\ users \subseteq Dispatches
    /\ abort \in [Aborters -> Aborts] /\ stops \in Nat
    /\ drops \in 0 .. MaxDrops /\ stuck \subseteq Runs \cup {NoRun}

NoWorker == [pc |-> "none", queue |-> <<>>, pending |-> {}]

Init ==
    /\ \E D \in Durables :
          mode = [d \in Dispatches |-> IF d \in D THEN "durable" ELSE "legacy"]
    /\ pc = [d \in Dispatches |-> "new"]
    /\ aim = [d \in Dispatches |-> NoRun] /\ tag = aim
    /\ guard = NoRun /\ lease = [d \in Dispatches |-> "none"] /\ drain = "none"
    /\ index = {} /\ tasks = {} /\ handle = NoRun
    /\ task = [r \in Runs |-> "none"] /\ killed = {} /\ inbox = [r \in Runs |-> {}]
    /\ worker = [r \in Runs |-> NoWorker]
    /\ record = [d \in Dispatches |-> "none"] /\ users = {}
    /\ abort = [p \in Aborters |-> NoAbort] /\ stops = 0
    /\ drops = 0 /\ stuck = {}

-----------------------------------------------------------------------------
(* Dispatches.                                                             *)

Valid == drain = "none"
Goto(d, s) == pc' = [pc EXCEPT ![d] = s]
Leave(d, s) ==
    /\ Goto(d, s)
    /\ guard' = IF guard = d THEN NoRun ELSE guard
    /\ lease' = [lease EXCEPT ![d] = "none"]

\* A command to a worker that is gone is lost.
Send(r, c) == IF r = NoRun \/ worker[r].pc \notin {"open", "finish"} THEN worker
              ELSE [worker EXCEPT ![r].queue = Append(@, c)]

\* planned_active_run_id_for_thread: the run of the handle, else one of the index.
Planned == IF handle # NoRun THEN {handle} ELSE IF index # {} THEN index ELSE {NoRun}

\* AdmittedRun, then start_admitted_run or prepare_durable_dispatch
Lock(d) ==
    /\ pc[d] = "new"
    /\ \/ /\ Valid /\ guard = NoRun
          /\ guard' = d /\ lease' = [lease EXCEPT ![d] = "held"]
          /\ Goto(d, IF mode[d] = "durable" THEN "plan" ELSE "offer")
       \/ /\ ~Valid
          /\ Goto(d, "refused") /\ UNCHANGED <<guard, lease>>
    /\ UNCHANGED <<mode, aim, tag, tables, runtime, storage, aborts>>

\* durable_active_run_plan, and execute_durable_dispatch after the ledger commit
Plan(d) ==
    /\ pc[d] = "plan"
    /\ \E r \in Planned :
          /\ aim' = [aim EXCEPT ![d] = r]
          /\ IF r = NoRun THEN Goto(d, "permit") ELSE Goto(d, "offer") \/ Goto(d, "replace")
    /\ UNCHANGED <<mode, tag, guard, lease, tables, runtime, storage, aborts>>

\* add_streaming_input_with_metadata_mode: the handle is read, the input is marked
\* with its run and the worker told ...
Offer(d) ==
    /\ pc[d] = "offer"
    /\ IF Valid
       THEN /\ worker' = Send(handle, [do |-> "queue", input |-> d])
            /\ \E r \in Planned : tag' = [tag EXCEPT ![d] = r]
            /\ Goto(d, "asked") /\ UNCHANGED <<guard, lease>>
       ELSE Leave(d, "refused") /\ UNCHANGED <<worker, tag>>
    /\ UNCHANGED <<mode, aim, tables, runtime, record, users, aborts>>

\* ... before the provider is asked.  A durable dispatch asks once, does not take
\* the record back, and fails if the input is not marked with the planned run.
Answered(d) ==
    /\ pc[d] = "asked"
    /\ \/ \E r \in Runs :
             /\ task[r] = "provider"
             /\ inbox' = [inbox EXCEPT ![r] = @ \cup {d}]
             /\ Leave(d, IF Valid /\ (mode[d] = "durable" => tag[d] = aim[d]) THEN "queued" ELSE "refused")
             /\ UNCHANGED worker
       \/ /\ mode[d] = "durable"
          /\ Leave(d, "refused") /\ UNCHANGED <<inbox, worker>>
       \/ /\ mode[d] = "legacy"
          /\ worker' = Send(tag[d], [do |-> "drop", input |-> d])
          /\ Goto(d, "replace") /\ UNCHANGED <<guard, lease, inbox>>
    /\ UNCHANGED <<mode, aim, tag, tables, task, killed, record, users, aborts>>

\* The active run is interrupted by its provider, else aborted; a durable plan
\* replaces no other run than the planned one.
Replace(d) ==
    /\ pc[d] = "replace"
    /\ \E r \in Planned :
          \/ /\ r = NoRun
             /\ Goto(d, "permit") /\ UNCHANGED <<aim, guard, lease, abort>>
          \/ /\ r # NoRun /\ mode[d] = "durable" /\ r # aim[d]
             /\ Leave(d, "refused") /\ UNCHANGED <<aim, abort>>
          \/ /\ r # NoRun /\ (mode[d] = "durable" => r = aim[d])
             /\ aim' = [aim EXCEPT ![d] = r]
             /\ \/ Goto(d, "wait") /\ UNCHANGED <<guard, lease, abort>>
                \/ /\ Goto(d, "abort")
                   /\ abort' = [abort EXCEPT ![d] = [NoAbort EXCEPT !.pc = "pick", !.left = index]]
                   /\ UNCHANGED <<guard, lease>>
    /\ UNCHANGED <<mode, tag, tables, runtime, storage, drain, limits>>

\* A task was cancelled, or the provider says that it aborted something.
Replaced(d) ==
    /\ pc[d] = "abort" /\ abort[d].pc = "off"
    /\ \/ Goto(d, "wait") /\ UNCHANGED <<guard, lease>>
       \/ ~abort[d].any /\ Leave(d, "refused")
    /\ UNCHANGED <<mode, aim, tag, tables, runtime, storage, aborts>>

\* wait_for_thread_to_become_idle, or the timeout
Wait(d) ==
    /\ pc[d] = "wait"
    /\ \/ index = {} /\ handle = NoRun /\ Goto(d, "permit") /\ UNCHANGED <<guard, lease>>
       \/ ~(index = {} /\ handle = NoRun) /\ Leave(d, "refused")
    /\ UNCHANGED <<mode, aim, tag, tables, runtime, storage, aborts>>

\* run_limiter, which all threads share, and promote_to_active.  The guard is
\* free before the run is published.
Permit(d) ==
    /\ pc[d] = "permit"
    /\ \/ /\ Valid
          /\ lease' = [lease EXCEPT ![d] = "active"]
          /\ guard' = NoRun
          /\ Goto(d, "publish")
       \/ Leave(d, "refused")
    /\ UNCHANGED <<mode, aim, tag, tables, runtime, storage, aborts>>

\* All locks are held from the last look at the lease to the spawned task.
Publish(d) ==
    /\ pc[d] = "publish"
    /\ IF Valid
       THEN /\ index' = index \cup {d} /\ tasks' = tasks \cup {d} /\ handle' = d
            /\ task' = [task EXCEPT ![d] = "provider"]
            /\ worker' = [worker EXCEPT ![d].pc = "open"]
            /\ Goto(d, "started") /\ UNCHANGED <<guard, lease>>
       ELSE Leave(d, "refused") /\ UNCHANGED <<tables, task, worker>>
    /\ UNCHANGED <<mode, aim, tag, killed, inbox, record, users, aborts>>

-----------------------------------------------------------------------------
(* The task of a run.                                                      *)

Detach_Any(r) == handle' = NoRun

Detach(r) == handle' = IF handle = r THEN NoRun ELSE handle
At(r, s) == task' = [task EXCEPT ![r] = s]

ProviderAcks(r) ==
    /\ task[r] = "provider"
    /\ \E i \in inbox[r] :
          /\ inbox' = [inbox EXCEPT ![r] = @ \ {i}]
          /\ worker' = Send(r, [do |-> "ack", input |-> i])
    /\ UNCHANGED <<dispatches, tables, task, killed, record, users, aborts>>

TaskFinalizes_Keeps(r) ==
    /\ task[r] = "provider"
    /\ worker' = Send(r, [do |-> "finish"])
    /\ At(r, "join")
    /\ inbox' = [inbox EXCEPT ![r] = {}]
    /\ UNCHANGED <<dispatches, tables, killed, record, users, aborts>>

\* execute_agent_run returns; finalize_partial_persistence
TaskFinalizes(r) ==
    /\ task[r] = "provider"
    /\ Detach(r)
    /\ worker' = Send(r, [do |-> "finish"])
    /\ At(r, "join")
    /\ inbox' = [inbox EXCEPT ![r] = {}]
    /\ UNCHANGED <<dispatches, index, tasks, killed, record, users, aborts>>

TaskJoins(r) ==
    /\ task[r] = "join" /\ worker[r].pc = "done"
    /\ Detach(r)
    /\ At(r, "persist")
    /\ UNCHANGED <<dispatches, index, tasks, killed, inbox, storage, aborts>>

\* What a save of run r leaves in the record of the inputs: of those marked with
\* r its own as given, and none that an earlier run abandoned.
Saved(r, own, status) ==
    [i \in Dispatches |->
        IF i \in own THEN status
        ELSE IF record[i] = "abandoned" \/ tag[i] = r THEN "none" ELSE record[i]]

\* persist_terminal_success or persist_terminal_failure
TaskPersists(r) ==
    /\ task[r] = "persist"
    /\ record' = Saved(r, {}, "none")
    /\ At(r, "unindex")
    /\ UNCHANGED <<dispatches, tables, killed, inbox, worker, users, aborts>>

TaskUnindexes(r) ==
    /\ task[r] = "unindex"
    /\ index' = index \ {r}
    /\ At(r, "untrack")
    /\ UNCHANGED <<dispatches, tasks, handle, killed, inbox, storage, aborts>>

TaskUntracks(r) ==
    /\ task[r] = "untrack"
    /\ Detach(r)
    /\ tasks' = tasks \ {r}
    /\ At(r, "done")
    /\ lease' = [lease EXCEPT ![r] = "none"]
    /\ UNCHANGED <<mode, pc, aim, tag, guard, index, killed, inbox, storage, aborts>>

\* An aborted task stops at one of its awaits.
TaskDies(r) ==
    /\ r \in killed /\ task[r] \in Executing
    /\ At(r, "dead")
    /\ lease' = [lease EXCEPT ![r] = "none"]
    /\ inbox' = [inbox EXCEPT ![r] = {}]
    /\ UNCHANGED <<mode, pc, aim, tag, guard, tables, killed, storage, aborts>>

-----------------------------------------------------------------------------
(* The persistence worker: it handles what it is sent, in order, and saves.*)

\* take_pending_input_for_ack: the acknowledged input, or the first one if the
\* worker does not know it.
Taken(c, pending) ==
    CASE c.do = "drop" -> {pending \cap {c.input}}
      [] c.do = "ack" /\ c.input \in pending -> {{c.input}}
      [] c.do = "ack" /\ c.input \notin pending /\ pending # {} -> {{i} : i \in pending}
      [] OTHER -> {{}}

Left_Keeps(c, taken, pending) ==
    CASE c.do = "queue" -> pending \cup {c.input}
      [] c.do = "drop" -> pending \ taken
      [] OTHER -> pending

Left(c, taken, pending) == IF c.do = "queue" THEN pending \cup {c.input} ELSE pending \ taken

\* process_thread_persistence_command, and the save when something has changed
WorkerTakes(r) ==
    LET w == worker[r]
        c == Head(w.queue)
    IN
    /\ w.pc \in {"open", "finish"} /\ w.queue # <<>>
    /\ \E taken \in Taken(c, w.pending) :
          LET pending == Left(c, taken, w.pending) IN
          /\ worker' = [worker EXCEPT ![r] =
                           [pc |-> IF c.do \in {"abort", "finish"} THEN "finish" ELSE w.pc,
                            queue |-> Tail(w.queue), pending |-> pending]]
          /\ users' = IF c.do = "ack" THEN users \cup taken ELSE users
          /\ record' = IF c.do = "finish" \/ (c.do = "drop" /\ taken = {}) THEN record
                       ELSE Saved(r, pending, "queued")
    /\ UNCHANGED <<dispatches, tables, runtime, aborts>>

\* Nobody can send to the worker of r any more.
Unreachable(r) ==
    /\ task[r] \in {"done", "dead"} /\ handle # r
    /\ \A p \in Aborters : abort[p].run = r => abort[p].pc \notin {"kill", "await", "unindex"}

WorkerCloses(r) ==
    /\ worker[r].queue = <<>>
    /\ worker[r].pc = "finish" \/ (worker[r].pc = "open" /\ Unreachable(r))
    /\ worker' = [worker EXCEPT ![r] = [NoWorker EXCEPT !.pc = "done"]]
    /\ record' = Saved(r, worker[r].pending, "abandoned")
    /\ UNCHANGED <<dispatches, tables, runtime, users, aborts>>

-----------------------------------------------------------------------------
(* Aborts.                                                                 *)

AbortGoto(p, s) == abort' = [abort EXCEPT ![p].pc = s]

\* execute_chat_interrupt, or abort_all_active_runs on shutdown
Stop ==
    /\ stops < MaxStops /\ stops' = stops + 1
    /\ abort["stop"].pc = "off"
    /\ abort' = [abort EXCEPT !["stop"] = [NoAbort EXCEPT !.pc = "pick", !.left = index]]
    /\ UNCHANGED <<dispatches, tables, runtime, storage, drain, drops, stuck>>

\* abort_and_drain_delete, whose reservation is what makes the leases invalid
DrainStarts ==
    /\ drain = "none" /\ drain' = "on"
    /\ UNCHANGED <<dispatches, tables, runtime, storage, abort, limits>>

\* abort_thread_runs_and_wait: again, until no run is indexed and no lease active
Idle == index = {} /\ \A d \in Dispatches : lease[d] # "active"

DrainSweeps ==
    /\ drain = "on" /\ abort["drain"].pc = "off" /\ ~Idle
    /\ abort' = [abort EXCEPT !["drain"] = [NoAbort EXCEPT !.pc = "pick", !.left = index]]
    /\ UNCHANGED <<dispatches, tables, runtime, storage, drain, limits>>

DrainEnds ==
    /\ drain = "on" /\ abort["drain"].pc = "off" /\ Idle
    /\ drain' = "swept"
    /\ UNCHANGED <<dispatches, tables, runtime, storage, abort, limits>>

\* wait_for_no_leases
DrainWaits ==
    /\ drain = "swept" /\ \A d \in Dispatches : lease[d] = "none"
    /\ drain' = "done"
    /\ UNCHANGED <<dispatches, tables, runtime, storage, abort, limits>>

\* abort_run.  A run that is indexed without a task is left alone.
Picked(p, r) ==
    [pc |-> IF r \notin index THEN "kill" ELSE IF r \in tasks THEN "detach" ELSE "pick",
     run |-> r, left |-> abort[p].left \ {r}, acks |-> FALSE, any |-> abort[p].any]

AbortPicks(p) ==
    /\ abort[p].pc = "pick"
    /\ \/ /\ abort[p].left = {}
          /\ abort' = [abort EXCEPT ![p] = [NoAbort EXCEPT !.any = p \in Dispatches /\ abort[p].any]]
       \/ \E r \in abort[p].left : abort' = [abort EXCEPT ![p] = Picked(p, r)]
    /\ UNCHANGED <<dispatches, tables, runtime, storage, drain, limits>>

AbortDetaches(p) ==
    LET r == abort[p].run IN
    /\ abort[p].pc = "detach"
    /\ Detach(r)
    /\ worker' = IF handle = r THEN Send(r, [do |-> "abort"]) ELSE worker
    /\ abort' = [abort EXCEPT ![p].pc = "kill", ![p].acks = handle = r]
    /\ UNCHANGED <<dispatches, index, tasks, runtime, record, users, drain, limits>>

AbortKills(p) ==
    LET r == abort[p].run IN
    /\ abort[p].pc = "kill"
    /\ IF r \in tasks
       THEN /\ tasks' = tasks \ {r} /\ killed' = killed \cup {r}
            /\ abort' = [abort EXCEPT ![p].pc = "await", ![p].any = TRUE]
       ELSE /\ UNCHANGED <<tasks, killed>>
            /\ abort' = [abort EXCEPT ![p].pc = "unindex"]
    /\ UNCHANGED <<dispatches, index, handle, task, inbox, storage, drain, limits>>

AbortAwaits(p) ==
    /\ abort[p].pc = "await" /\ task[abort[p].run] \in {"done", "dead"}
    /\ AbortGoto(p, "unindex")
    /\ UNCHANGED <<dispatches, tables, runtime, storage, drain, limits>>

AbortUnindexes_Forgets(p) ==
    /\ abort[p].pc = "unindex"
    /\ AbortGoto(p, IF abort[p].acks THEN "ack" ELSE "pick")
    /\ UNCHANGED <<dispatches, tables, runtime, storage, drain, limits>>

AbortUnindexes(p) ==
    /\ abort[p].pc = "unindex"
    /\ index' = index \ {abort[p].run}
    /\ AbortGoto(p, IF abort[p].acks THEN "ack" ELSE "pick")
    /\ UNCHANGED <<dispatches, tasks, handle, runtime, storage, drain, limits>>

AbortAcked(p) ==
    /\ abort[p].pc = "ack" /\ worker[abort[p].run].pc = "done"
    /\ AbortGoto(p, "pick")
    /\ UNCHANGED <<dispatches, tables, runtime, storage, drain, limits>>

\* A request that the client gave up is dropped at one of its awaits, and its
\* abort with it: a run that it took out of the task table stays in the index.
AbortDropped(p) ==
    /\ drops < MaxDrops /\ drops' = drops + 1
    /\ abort' = [abort EXCEPT ![p] = NoAbort]
    /\ stuck' = IF abort[p].pc \in {"await", "unindex"} THEN stuck \cup {abort[p].run} ELSE stuck

StopDropped ==
    /\ abort["stop"].pc # "off" /\ AbortDropped("stop")
    /\ UNCHANGED <<dispatches, tables, runtime, storage, drain, stops>>

\* A durable dispatch runs in a task of its own, which outlives the request.
Dropped(d) ==
    /\ mode[d] = "legacy" /\ pc[d] \notin {"new", "started", "queued", "refused"}
    /\ AbortDropped(d)
    /\ Leave(d, "refused")
    /\ UNCHANGED <<mode, aim, tag, tables, runtime, storage, drain, stops>>

Dispatch(d) == Lock(d) \/ Plan(d) \/ Offer(d) \/ Answered(d) \/ Replace(d) \/ Replaced(d)
               \/ Wait(d) \/ Permit(d) \/ Publish(d)
Task(r) == TaskJoins(r) \/ TaskPersists(r) \/ TaskUnindexes(r) \/ TaskUntracks(r) \/ TaskDies(r)
Worker(r) == WorkerTakes(r) \/ WorkerCloses(r)
Abort(p) == AbortPicks(p) \/ AbortDetaches(p) \/ AbortKills(p) \/ AbortAwaits(p)
            \/ AbortUnindexes(p) \/ AbortAcked(p)

Next ==
    \/ \E d \in Dispatches :
          Dispatch(d) \/ Dropped(d) \/ Task(d) \/ Worker(d) \/ ProviderAcks(d) \/ TaskFinalizes(d)
    \/ Stop \/ StopDropped \/ DrainStarts \/ DrainSweeps \/ DrainEnds \/ DrainWaits
    \/ \E p \in Aborters : Abort(p)

Spec == Init /\ [][Next]_vars

\* Every task of the runtime that can go on does, and so does a request that is
\* not dropped; whether the provider ends its run, and whether the user interrupts
\* it or gives a request up, is their business.
Fairness ==
    /\ \A d \in Dispatches : WF_vars(pc[d] # "new" /\ Dispatch(d)) /\ WF_vars(Task(d)) /\ WF_vars(Worker(d))
    /\ \A p \in Aborters : WF_vars(Abort(p))
    /\ WF_vars(DrainSweeps \/ DrainEnds \/ DrainWaits)

FairSpec == Spec /\ Fairness

-----------------------------------------------------------------------------
(* Properties.                                                             *)

Alive(r) == task[r] \in Executing

\* A run that the index shows can be aborted: its task is in the table, or an
\* abort that took it out is about to take the run out of the index, unless the
\* request that the abort belonged to was dropped just then.
IndexedHasTask ==
    \A r \in index : \/ r \in tasks \/ r \in stuck
                     \/ \E p \in Aborters : abort[p].run = r /\ abort[p].pc \in {"await", "unindex"}

\* The handle of the thread, through which follow-up input is recorded, is never
\* that of a worker that has stopped listening, or been told to.
HandleRecords ==
    handle # NoRun =>
        /\ worker[handle].pc = "open"
        /\ \A k \in DOMAIN worker[handle].queue :
              worker[handle].queue[k].do \notin {"abort", "finish"}

\* No task of a run escapes: it is in the table or its abort was requested.
TaskIsTracked == \A r \in Runs : Alive(r) => r \in tasks \/ r \in killed

\* When the drain of a deletion returns, no task of the thread runs, no dispatch
\* holds a lease, and none can begin another.
DrainedIsQuiet ==
    drain = "done" => \A r \in Runs : ~Alive(r) /\ lease[r] = "none"

\* A run has a task, a worker and an active lease only as its dispatch got that far,
\* a dispatch aborts only for itself, and the index is left before the task table.
RunsMatch ==
    /\ \A r \in Runs :
          /\ pc[r] # "started" => task[r] = "none" /\ worker[r] = NoWorker
          /\ pc[r] = "publish" \/ Alive(r) => lease[r] = "active"
          /\ abort[r].pc # "off" => pc[r] = "abort"
          /\ task[r] \in {"none", "untrack", "done"} => r \notin index

\* An input goes to one worker, that of the run it is marked with, once: it waits
\* for it to be taken, is pending with it, or is acknowledged.
Awaited(r, i) ==
    {k \in DOMAIN worker[r].queue : worker[r].queue[k] = [do |-> "queue", input |-> i]}
InputsMatch ==
    \A i \in Dispatches :
        /\ \A r \in Runs :
              /\ i \in worker[r].pending \/ Awaited(r, i) # {} =>
                    tag[i] = r /\ pc[i] \notin {"new", "plan", "offer"}
              /\ Awaited(r, i) # {} => i \notin users /\ i \notin worker[r].pending
              /\ \A k, l \in Awaited(r, i) : k = l
              /\ i \in users => i \notin worker[r].pending
        /\ i \in users => pc[i] \notin {"new", "plan", "offer"}

\* The tables, the tasks, the drain and the inputs agree in every state: what
\* abort_run and the cleanup of a task that ends at the same time rely on.
BridgeInvariant ==
    /\ TypeOK
    /\ RunsMatch /\ IndexedHasTask /\ HandleRecords /\ TaskIsTracked /\ DrainedIsQuiet
    /\ InputsMatch

\* Follow-up input whose user row is in the transcript is not pending in the
\* thread record as well, whichever workers save the record in which order:
\* a reader of both never shows it twice.
NoGhostInput == \A d \in Dispatches : d \in users => record[d] = "none"

\* A run loses the handle only because it ends, is aborted, or a later run takes
\* it over: the end of a predecessor never takes the handle of its successor.
HandleStays ==
    [][\A r \in Runs :
          handle = r /\ handle' = NoRun =>
             task'[r] # "provider" \/ \E p \in Aborters : abort'[p].run = r]_vars

\* abort_thread_runs_and_wait returns whatever the dispatches, the provider and
\* the user do meanwhile, and so does the wait for the leases: the loop has no
\* bound of its own.  It goes on for ever only for a run that is still in the
\* index although nobody has its task, because its abort was dropped midway.
Drained == drain = "on" ~> (drain = "done" \/ stuck \cap index # {})
=============================================================================
