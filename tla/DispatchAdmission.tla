-------------------------- MODULE DispatchAdmission --------------------------
(***************************************************************************)
(* The durable dispatch path of the gateway: the ledger of                 *)
(* garyx_db/dispatch_admission.rs, the create claims of create_intent.rs,  *)
(* the operation cells of conversation_admission.rs, the owner tasks of    *)
(* chat.rs (chat_start), application/chat/control.rs (stream_input) and    *)
(* create_dispatch.rs (a chat start whose thread is still to be created),  *)
(* the bridge's plan and execution as far as they decide an outcome, and   *)
(* gateway restarts.                                                       *)
(*                                                                         *)
(* A client sends one message under one key (scope, thread, kind and       *)
(* client intent id) with one request fingerprint, and sends it again      *)
(* whenever it likes.  A request runs in its own task; the operation runs  *)
(* in an owner task, named here by the client whose request spawned it,    *)
(* which outlives the request.  The run a key starts is named by the key:  *)
(* the run id of a message is in its ledger row and a replay takes it from *)
(* there.  A message of kind "create" has no thread until its claim is     *)
(* committed, and its row with it; then it is a chat start like any other. *)
(*                                                                         *)
(* A message may name no thread but a bot or an account of the API: then   *)
(* each request looks up the thread of the endpoint, and it is that thread *)
(* that makes the key.  A message that is sent again after the endpoint    *)
(* went to another thread is another client here, with another key and the *)
(* same intent.  There is one endpoint.                                    *)
(***************************************************************************)
EXTENDS Naturals, FiniteSets

CONSTANTS
    Keys,         \* DispatchAdmissionKeys
    Clients,      \* senders, each of one message
    Prints,       \* request fingerprints
    OtherRuns,    \* runs that other dispatchers start
    Threads,
    Thread,       \* the thread of a key or of another run
    Intent,       \* the client intent id of a key
    Means,        \* how the clients name the thread
    NoClient, NoRun, NoThread,
    MaxCells,     \* MAX_OPERATION_CELLS
    MaxRestarts,  \* bound on gateway restarts
    MaxFailures,  \* bound on owner tasks that fail
    MaxMoves      \* bound on requests that move the endpoint

ASSUME KeysAssumption == Keys \cap OtherRuns = {} /\ NoRun \notin Keys \cup OtherRuns
ASSUME ClientsAssumption == NoClient \notin Clients
ASSUME PrintsAssumption == Prints # {}
ASSUME BoundsAssumption ==
    MaxCells \in Nat /\ MaxRestarts \in Nat /\ MaxFailures \in Nat /\ MaxMoves \in Nat
ASSUME ThreadsAssumption ==
    /\ Thread \in [Keys \cup OtherRuns -> Threads] /\ NoThread \notin Threads
    /\ Means \subseteq {"thread", "create", "bot", "api"}

Runs == Keys \cup OtherRuns

Kinds == {"chat_start", "stream_input", "create"}

\* AdmissionOperationKey: one operation dispatches a message, another creates its
\* thread and then dispatches it.
Operations == {"dispatch", "create"} \X Keys

Settled == {"accepted", "ambiguous", "not_dispatched"}
RowStates == Settled \cup {"none", "admitted", "handoff_started"}
Rows == [state : RowStates, outcome : {"none", "started", "queued", "no_active"},
         run : Runs \cup {NoRun}, print : Prints, attempt : Nat]
Claims == [state : {"none", "reserved", "preparing", "committed", "failed"}, print : Prints]
Plans == [type : {"start", "queue", "replace"}, run : Runs \cup {NoRun}]
Answers == [says : {"none", "accepted", "ambiguous", "pending", "no_active", "error"},
            run : Runs \cup {NoRun}]

VARIABLES
    key, print, kind,    \* what each client sends, and the kind of each key
    means,               \* it names the thread or a create claim, or a bot or an account
    claim,               \* durable: thread_create_intents
    row,                 \* durable: dispatch_admissions
    delivered,           \* how often a provider was given each message
    cell,                \* AdmissionRegistryInner.cells: the owner of each operation
    request,             \* per client: its request
    task,                \* per client: the owner task it spawned
    guard,               \* the dispatch guard of each thread
    live, started,       \* runs in the run index; other runs that were started
    endpoint,            \* durable: the thread that has the endpoint, or NoThread
    moves,               \* history: how often a thread lost the endpoint
    restarts, failures

message == <<key, print, kind, means>>
bridge == <<guard, live, started>>
binding == <<endpoint, moves>>
bounds == <<restarts, failures>>
ledger == <<claim, row>>
vars == <<message, ledger, delivered, cell, request, task, bridge, binding, bounds>>

\* How a request gets to its operation: with the thread's key, or with a create
\* claim that is still to be committed or that was.
Routes == {"dispatch", "create", "resume"}
Operation(k, via) == <<IF via = "dispatch" THEN "dispatch" ELSE "create", k>>

Requests ==
    [pc : {"idle", "reserve", "register", "waiting", "readback", "answered"},
     via : Routes,
     join : Clients \cup {NoClient},        \* whose result it waits for
     got : {"none", "ready", "failed"},     \* the result that was published
     answer : Answers]

Tasks ==
    [step : {"none", "prepare", "commit", "resume", "read", "plan", "insert", "handoff",
             "execute", "publish", "settle"},
     via : Routes,
     seen : Rows,                           \* the row it read at the beginning
     plan : Plans,
     verdict : {"accepted", "ambiguous"}]

TypeOK ==
    /\ key \in [Clients -> Keys]
    /\ print \in [Clients -> Prints]
    /\ kind \in [Keys -> Kinds]
    /\ claim \in [Keys -> Claims]
    /\ row \in [Keys -> Rows]
    /\ delivered \in [Keys -> Nat]
    /\ cell \in [Operations -> Clients \cup {NoClient}]
    /\ request \in [Clients -> Requests]
    /\ task \in [Clients -> Tasks]
    /\ means \in [Clients -> Means]
    /\ guard \in [Threads -> Clients \cup {NoClient}]
    /\ live \in SUBSET Runs
    /\ started \in SUBSET OtherRuns
    /\ endpoint \in Threads \cup {NoThread}
    /\ moves \in Nat
    /\ restarts \in Nat
    /\ failures \in Nat

NoAnswer == [says |-> "none", run |-> NoRun]
ErrorAnswer == [says |-> "error", run |-> NoRun]
StartPlan == [type |-> "start", run |-> NoRun]
NoPrint == CHOOSE p \in Prints : TRUE
NoRow == [state |-> "none", outcome |-> "none", run |-> NoRun, print |-> NoPrint, attempt |-> 0]
NoClaim == [state |-> "none", print |-> NoPrint]
IsEmpty(r) == r.state = "none"
NoRequest == [pc |-> "idle", via |-> "dispatch", join |-> NoClient, got |-> "none",
              answer |-> NoAnswer]
NoTask == [step |-> "none", via |-> "dispatch", seen |-> NoRow, plan |-> StartPlan,
           verdict |-> "ambiguous"]

\* A message that creates the thread has one when its row is there; the others
\* find it then.
IsThreadless(k) == kind[k] = "create" /\ IsEmpty(row[k])
ThreadExists(t) == \A k \in Keys : Thread[k] = t => ~IsThreadless(k)

\* Keys of one intent and one thread differ in their kind, and a message that
\* creates a thread is of the kind of a chat start.  A claim is for one thread.
ChatKinds == {"chat_start", "create"}
KindsFit(f) ==
    \A j, k \in Keys : j # k =>
        /\ Intent[j] = Intent[k] /\ Thread[j] = Thread[k] =>
              f[j] # f[k] /\ ~(f[j] \in ChatKinds /\ f[k] \in ChatKinds)
        /\ f[j] = "create" /\ f[k] = "create" => Intent[j] # Intent[k] /\ Thread[j] # Thread[k]

\* Only a chat start finds its thread by an endpoint, only one that creates its
\* thread has a claim, and no client names a thread that nobody creates.
MeansFit(c) ==
    /\ means[c] \in {"bot", "api"} => kind[key[c]] \in ChatKinds
    /\ means[c] = "create" => kind[key[c]] = "create"
    /\ means[c] = "thread" /\ kind[key[c]] = "create" =>
          \E d \in Clients : key[d] = key[c] /\ means[d] # "thread"

Init ==
    /\ key \in [Clients -> Keys]
    /\ print \in [Clients -> Prints]
    /\ kind \in {f \in [Keys -> Kinds] : KindsFit(f)}
    /\ means \in [Clients -> Means] /\ \A c \in Clients : MeansFit(c)
    /\ claim = [k \in Keys |-> NoClaim]
    /\ row = [k \in Keys |-> NoRow]
    /\ delivered = [k \in Keys |-> 0]
    /\ cell = [o \in Operations |-> NoClient]
    /\ request = [c \in Clients |-> NoRequest]
    /\ task = [c \in Clients |-> NoTask]
    /\ guard = [t \in Threads |-> NoClient]
    /\ live = {}
    /\ started = {}
    /\ endpoint \in {NoThread} \cup {t \in Threads : ThreadExists(t)}
    /\ moves = 0
    /\ restarts = 0
    /\ failures = 0

Fail == failures < MaxFailures /\ failures' = failures + 1

-----------------------------------------------------------------------------
(* A request: start_chat_run_with_context, execute_chat_stream_input. *)

\* start_response_from_record, stream_input_response_from_record
RecordAnswer(r) ==
    [says |-> CASE r.state = "accepted" -> "accepted"
                [] r.state = "not_dispatched" -> "no_active"
                [] r.state \in {"ambiguous", "handoff_started"} -> "ambiguous"
                [] r.state = "admitted" -> "pending"
                [] r.state = "none" -> "error",
     run |-> r.run]

Answer(c, a) == request' = [request EXCEPT ![c].answer = a, ![c].pc = "answered"]

\* Whether a row lets the request that carries `p` go on, in the first read and
\* in the owner's: it is not there, or it is this request's and not handed off.
Conflicts(r, p) == ~IsEmpty(r) /\ r.print # p
Proceeds(r, p) == IsEmpty(r) \/ (r.print = p /\ r.state = "admitted")
IsDone_Anyones(r, p) == ~IsEmpty(r) /\ r.state # "admitted"
IsDone(r, p) == ~IsEmpty(r) /\ r.print = p /\ r.state # "admitted"

\* resolve_threadless_correlation_target: a message that names no thread goes to
\* the thread of the endpoint ...
Routed(c) == means[c] \in {"bot", "api"}
Resolves(c) == ~IsThreadless(key[c]) /\ (Routed(c) => endpoint = Thread[key[c]])

\* The first durable read replays what is settled or in flight.
ReadFirst(c) ==
    LET r == row[key[c]] IN
    /\ request[c].pc = "idle" /\ means[c] # "create" /\ Resolves(c)
    /\ \/ /\ Conflicts(r, print[c])
          /\ Answer(c, ErrorAnswer)
          /\ UNCHANGED failures
       \/ /\ IsDone(r, print[c])
          /\ Answer(c, RecordAnswer(r))
          /\ UNCHANGED failures
       \/ /\ Proceeds(r, print[c])
          /\ request' = [request EXCEPT ![c].pc = "register"]
          /\ UNCHANGED failures
       \/ Fail /\ Answer(c, ErrorAnswer)
    /\ UNCHANGED <<message, ledger, delivered, cell, task, bridge, binding, restarts>>

\* ... or, if it has none, needs a thread, as one that brings its own claim does.
ResolveCreate(c) ==
    /\ request[c].pc = "idle" /\ kind[key[c]] = "create"
    /\ means[c] = "create" \/ (Routed(c) /\ endpoint = NoThread)
    /\ request' = [request EXCEPT ![c].pc = "reserve"]
    /\ UNCHANGED <<message, ledger, delivered, cell, task, bridge, binding, bounds>>

\* execute_create_and_dispatch: reserve the claim, or find it reserved, and go on
\* with it.  What it committed may have been handed off already.
ReserveClaim(c) ==
    LET k == key[c]
        Enter(via) == request' = [request EXCEPT ![c].pc = "register", ![c].via = via]
    IN
    /\ request[c].pc = "reserve"
    /\ claim' = [claim EXCEPT ![k] =
                    IF @.state = "none" THEN [state |-> "reserved", print |-> print[c]] ELSE @]
    /\ \/ claim'[k].print # print[c] /\ Answer(c, ErrorAnswer)
       \/ claim'[k].print = print[c] /\ claim'[k].state = "failed" /\ Answer(c, ErrorAnswer)
       \/ /\ claim'[k].print = print[c] /\ claim'[k].state \in {"reserved", "preparing"}
          /\ Enter("create")
       \/ /\ claim'[k].print = print[c] /\ claim'[k].state = "committed"
          /\ IF row[k].state = "admitted" THEN Enter("resume") ELSE Answer(c, RecordAnswer(row[k]))
    /\ UNCHANGED <<message, row, delivered, cell, task, bridge, binding, bounds>>

FirstStep(via) ==
    CASE via = "dispatch" -> "read" [] via = "create" -> "prepare" [] via = "resume" -> "resume"

IsFree_Always(op) == TRUE
IsFree(op) == cell[op] = NoClient

\* register_operation: one owner per key, everybody else joins it.
Register(c) ==
    LET op == Operation(key[c], request[c].via)
        o == cell[op]
        full == Cardinality({x \in Operations : cell[x] # NoClient}) >= MaxCells
        Wait(d) == request' = [request EXCEPT ![c].pc = "waiting", ![c].join = d]
    IN
    /\ request[c].pc = "register"
    /\ \/ /\ IsFree(op) /\ ~full /\ task[c].step = "none"
          /\ cell' = [cell EXCEPT ![op] = c]
          /\ Wait(c)
          /\ task' = [task EXCEPT ![c].step = FirstStep(request[c].via),
                                  ![c].via = request[c].via]
       \/ /\ o # NoClient /\ print[o] = print[c]
          /\ Wait(o)
          /\ UNCHANGED <<cell, task>>
       \/ /\ (o = NoClient /\ full) \/ (o # NoClient /\ print[o] # print[c])
          /\ Answer(c, ErrorAnswer)
          /\ UNCHANGED <<cell, task>>
    /\ UNCHANGED <<message, ledger, delivered, bridge, binding, bounds>>

Receive(c) ==
    /\ request[c].pc = "waiting"
    /\ \/ /\ request[c].got = "ready"
          /\ request' = [request EXCEPT ![c].pc = "readback"]
       \/ /\ request[c].got = "failed"
          /\ Answer(c, ErrorAnswer)
    /\ UNCHANGED <<message, ledger, delivered, cell, task, bridge, binding, bounds>>

ReadBack(c) ==
    /\ request[c].pc = "readback"
    /\ \/ Answer(c, RecordAnswer(row[key[c]])) /\ UNCHANGED failures
       \/ Fail /\ Answer(c, ErrorAnswer)
    /\ UNCHANGED <<message, ledger, delivered, cell, task, bridge, binding, restarts>>

\* The client sends again when it has its answer,
SendAgain(c) ==
    /\ request[c].pc = "answered"
    /\ request' = [request EXCEPT ![c] = NoRequest]
    /\ UNCHANGED <<message, ledger, delivered, cell, task, bridge, binding, bounds>>

\* or before, when it gives up or loses its connection: the task of the
\* request is dropped, the owner task is not.
Disconnect(c) ==
    /\ request[c].pc \in {"reserve", "register", "waiting", "readback"}
    /\ request' = [request EXCEPT ![c] = NoRequest]
    /\ UNCHANGED <<message, ledger, delivered, cell, task, bridge, binding, bounds>>

-----------------------------------------------------------------------------
(* The owner task: run_create_and_dispatch, resume_committed_create_dispatch, *)
(* run_durable_chat_start, run_durable_stream_input.                         *)

Goto(c, s) == task' = [task EXCEPT ![c].step = s]

Drop(c) == guard' = [guard EXCEPT ![Thread[key[c]]] = IF @ = c THEN NoClient ELSE @]

Inform_OwnerOnly(c, result) ==
    request' = [request EXCEPT ![c].got = IF request[c].join = c /\ @ = "none" THEN result ELSE @]
\* AdmissionOperationCell::publish
Inform(c, result) ==
    request' = [d \in Clients |->
                  IF request[d].join = c /\ request[d].got = "none"
                  THEN [request[d] EXCEPT !.got = result] ELSE request[d]]

\* remove_if_current
RemoveCell(c) ==
    cell' = [cell EXCEPT ![Operation(key[c], task[c].via)] = IF @ = c THEN NoClient ELSE @]

\* publish: everyone who joined learns the result, and the cell is removed (a
\* request that joins in between has the result at once).  Dropping the owner
\* guard does the same with a failure.  The task's locals die with it, and the
\* dispatch guard with its plan.
Finish(c, result) ==
    /\ task' = [task EXCEPT ![c] = NoTask]
    /\ Inform(c, result)
    /\ RemoveCell(c)
    /\ Drop(c)

\* insert_dispatch_admission_tx keeps a row that is there.
Insert(k, r) == row' = [row EXCEPT ![k] = IF IsEmpty(@) THEN r ELSE @]

SetClaim(k, s) == claim' = [claim EXCEPT ![k].state = s]

\* mark_create_intent_preparing
CreatePrepares(c) ==
    LET k == key[c] IN
    /\ task[c].step = "prepare"
    /\ \/ /\ claim[k].state = "reserved"
          /\ SetClaim(k, "preparing")
          /\ Goto(c, "commit")
          /\ UNCHANGED <<request, cell, guard>>
       \/ /\ claim[k].state # "reserved"
          /\ Finish(c, "failed")
          /\ UNCHANGED claim
    /\ UNCHANGED <<message, row, delivered, live, started, binding, bounds>>

\* The endpoint goes to a thread, whoever had it.
TakesEndpoint(t) ==
    /\ endpoint' = t
    /\ moves' = IF endpoint \in {t, NoThread} THEN moves ELSE moves + 1

Binds_IfFree(c) ==
    IF endpoint = NoThread THEN TakesEndpoint(Thread[key[c]]) ELSE UNCHANGED binding

\* commit_created_thread_with_binding: a thread that a request created for the
\* endpoint takes it, one that brought its own claim may.
Binds(c) == TakesEndpoint(Thread[key[c]]) \/ (~Routed(c) /\ UNCHANGED binding)

\* commit_create_intent_records: thread, row, claim and endpoint in one transaction.  A
\* transient failure of the preparation gives the claim back, a definitive one
\* fails it; an attachment or an endpoint that cannot be read does neither.
CreateCommits(c) ==
    LET k == key[c]
        started_row == [state |-> "admitted", outcome |-> "started", run |-> k,
                        print |-> print[c], attempt |-> 0]
    IN
    /\ task[c].step = "commit"
    /\ \/ /\ claim[k].state \in {"reserved", "preparing"}
          /\ SetClaim(k, "committed")
          /\ Insert(k, started_row)
          /\ Binds(c)
          /\ Goto(c, "plan")
          /\ UNCHANGED <<request, cell, guard, failures>>
       \/ /\ Fail
          /\ claim[k].state = "preparing"
          /\ SetClaim(k, "reserved") \/ SetClaim(k, "failed") \/ UNCHANGED claim
          /\ Finish(c, "failed")
          /\ UNCHANGED <<row, binding>>
    /\ UNCHANGED <<message, delivered, live, started, restarts>>

CreateResumes(c) ==
    LET r == row[key[c]] IN
    /\ task[c].step = "resume"
    /\ \/ r.state # "admitted" /\ Finish(c, "ready")
       \/ r.state = "admitted" /\ Goto(c, "plan") /\ UNCHANGED <<request, cell, guard>>
    /\ UNCHANGED <<message, ledger, delivered, live, started, binding, bounds>>

\* prepare_durable_chat_request finds the thread of the key: the bot is looked up
\* once more, an account is not and fails, wherever its endpoint is.
Prepares(c) ==
    LET k == key[c] IN
    \/ kind[k] = "stream_input"
    \/ ThreadExists(Thread[k]) /\ means[c] # "api" /\ (means[c] = "bot" => endpoint = Thread[k])

OwnerReads(c) ==
    LET r == row[key[c]] IN
    /\ task[c].step = "read"
    /\ \/ Conflicts(r, print[c]) /\ Finish(c, "failed")
       \/ IsDone(r, print[c]) /\ Finish(c, "ready")
       \/ Proceeds(r, print[c]) /\ ~Prepares(c) /\ Finish(c, "failed")
       \/ /\ Proceeds(r, print[c]) /\ Prepares(c)
          /\ task' = [task EXCEPT ![c].step = "plan", ![c].seen = r]
          /\ UNCHANGED <<request, cell, guard>>
    /\ UNCHANGED <<message, ledger, delivered, live, started, binding, bounds>>

GuardIsFree(c) == guard[Thread[key[c]]] = NoClient
Live(c) == {r \in live : Thread[r] = Thread[key[c]]}

\* Under the thread's dispatch guard: queue into an active run whose provider
\* takes input, replace one whose provider does not, or start a run.
OwnerPlans(c) ==
    LET chat == kind[key[c]] # "stream_input" IN
    /\ task[c].step = "plan" /\ GuardIsFree(c)
    /\ guard' = [guard EXCEPT ![Thread[key[c]]] = c]
    /\ \E p \in Plans :
          /\ p \in CASE Live(c) = {} -> {StartPlan}
                    [] Live(c) # {} /\ chat -> [type : {"queue", "replace"}, run : Live(c)]
                    [] Live(c) # {} /\ ~chat -> [type : {"queue"}, run : Live(c)] \cup {StartPlan}
          /\ task' = [task EXCEPT ![c].step = "insert", ![c].plan = p]
    /\ UNCHANGED <<message, ledger, delivered, cell, request, live, started, binding, bounds>>

\* The row that a plan asks for.
Planned(c) ==
    LET queue == task[c].plan.type = "queue" IN
    [state |-> "admitted", outcome |-> IF queue THEN "queued" ELSE "started",
     run |-> IF queue THEN task[c].plan.run ELSE key[c], print |-> print[c], attempt |-> 0]

\* admission_plan_matches
Matches(r, s) == r.outcome = s.outcome /\ r.run = s.run

\* A chat start that names its thread may take the endpoint there with its row.
Rebinds(c) ==
    \/ means[c] = "thread" /\ kind[key[c]] # "stream_input" /\ TakesEndpoint(Thread[key[c]])
    \/ UNCHANGED binding

\* The row, read when the operation began or inserted now, must ask for the
\* very plan that the guard still protects.
OwnerAdmits(c) ==
    LET k == key[c]
        new == IsEmpty(task[c].seen)
    IN
    /\ task[c].step = "insert" /\ task[c].via = "dispatch"
    /\ kind[k] = "stream_input" => task[c].plan.type = "queue"
    /\ IF new THEN Insert(k, Planned(c)) /\ Rebinds(c) ELSE UNCHANGED <<row, binding>>
    /\ LET r == IF new THEN row'[k] ELSE task[c].seen IN
       \/ IsDone(r, print[c]) /\ Finish(c, "ready")
       \/ /\ Conflicts(r, print[c]) \/ (r.state = "admitted" /\ ~Matches(r, Planned(c)))
          /\ Finish(c, "failed")
       \/ /\ r.state = "admitted" /\ r.print = print[c] /\ Matches(r, Planned(c))
          /\ Goto(c, "handoff")
          /\ UNCHANGED <<request, cell, guard>>
    /\ UNCHANGED <<message, claim, delivered, live, started, bounds>>

\* The row of a created thread is there, and asks for a run.
CreateConfirms(c) ==
    /\ task[c].step = "insert" /\ task[c].via # "dispatch"
    /\ \/ task[c].plan.type = "queue" /\ Finish(c, "failed")
       \/ task[c].plan.type # "queue" /\ Goto(c, "handoff") /\ UNCHANGED <<request, cell, guard>>
    /\ UNCHANGED <<message, ledger, delivered, live, started, binding, bounds>>

\* A stream input without an active run is settled at once.
OwnerDeclines(c) ==
    LET k == key[c]
        new == IsEmpty(task[c].seen)
        declined == [state |-> "not_dispatched", outcome |-> "no_active", run |-> NoRun,
                     print |-> print[c], attempt |-> 0]
    IN
    /\ task[c].step = "insert" /\ kind[k] = "stream_input" /\ task[c].plan.type = "start"
    /\ IF new THEN Insert(k, declined) ELSE UNCHANGED row
    /\ Finish(c, IF new /\ row'[k].print = print[c] THEN "ready" ELSE "failed")
    /\ UNCHANGED <<message, claim, delivered, live, started, binding, bounds>>

CanCross_Again(k) == row[k].state \in {"admitted", "handoff_started"}
CanCross(k) == row[k].state = "admitted"

\* start_dispatch_handoff: the gate.  It may be crossed and then not be read.
OwnerCrosses(c) ==
    LET k == key[c] IN
    /\ task[c].step = "handoff"
    /\ \/ /\ CanCross(k)
          /\ row' = [row EXCEPT ![k].state = "handoff_started", ![k].attempt = @ + 1]
          /\ \/ Goto(c, "execute") /\ UNCHANGED <<request, cell, guard, failures>>
             \/ Fail /\ Finish(c, "failed")
       \/ /\ ~CanCross(k)
          /\ Finish(c, "ready")
          /\ UNCHANGED <<row, failures>>
    /\ UNCHANGED <<message, claim, delivered, live, started, binding, restarts>>

Deliver(k) == delivered' = [delivered EXCEPT ![k] = @ + 1]

Judge(c, v) == task' = [task EXCEPT ![c].step = "settle", ![c].verdict = v]

\* The planned run takes the message as input.  Any other answer of the
\* provider, or another run's, leaves open whether the message arrived.
OwnerQueues(c) ==
    /\ task[c].step = "execute" /\ task[c].plan.type = "queue"
    /\ \/ task[c].plan.run \in live /\ Deliver(key[c]) /\ Judge(c, "accepted")
       \/ (Deliver(key[c]) \/ UNCHANGED delivered) /\ Judge(c, "ambiguous")
    /\ Drop(c)
    /\ UNCHANGED <<message, ledger, cell, request, live, started, binding, bounds>>

\* A new run is accepted and the dispatch guard dropped, after the active run
\* it replaces has ended; or the dispatch fails (no permit, a stale lease, a
\* timeout, another active run).
OwnerStarts(c) ==
    /\ task[c].step = "execute" /\ task[c].plan.type # "queue"
    /\ \/ (task[c].plan.type = "replace" => Live(c) = {}) /\ Goto(c, "publish")
       \/ Judge(c, "ambiguous")
    /\ Drop(c)
    /\ UNCHANGED <<message, ledger, delivered, cell, request, live, started, binding, bounds>>

\* The run is indexed and its task spawned, if the lease is still valid.
OwnerPublishesRun(c) ==
    /\ task[c].step = "publish"
    /\ \/ live' = live \cup {key[c]} /\ Deliver(key[c]) /\ Judge(c, "accepted")
       \/ Judge(c, "ambiguous") /\ UNCHANGED <<live, delivered>>
    /\ UNCHANGED <<message, ledger, cell, request, guard, started, binding, bounds>>

\* settle_dispatch_admission, from handoff_started only.
OwnerSettles(c) ==
    LET k == key[c] IN
    /\ task[c].step = "settle"
    /\ \/ /\ row[k].state = "handoff_started"
          /\ row' = [row EXCEPT ![k].state = task[c].verdict]
          /\ Finish(c, "ready")
       \/ /\ row[k].state # "handoff_started"
          /\ Finish(c, "failed")
          /\ UNCHANGED row
    /\ UNCHANGED <<message, claim, delivered, live, started, binding, bounds>>

\* An error before the gate, a database error, or a panic of the owner task.
OwnerFails(c) ==
    /\ task[c].step # "none"
    /\ Fail
    /\ Finish(c, "failed")
    /\ UNCHANGED <<message, ledger, delivered, live, started, binding, restarts>>

-----------------------------------------------------------------------------
(* The other runs of the threads, restarts, and the endpoint. *)

\* Another dispatcher's run: it planned under the guard and drops the guard
\* before its run is indexed.
OtherRunStarts(r) ==
    /\ r \notin started
    /\ started' = started \cup {r}
    /\ live' = live \cup {r}
    /\ UNCHANGED <<message, ledger, delivered, cell, request, task, guard, binding, bounds>>

RunEnds(r) ==
    /\ r \in live
    /\ live' = live \ {r}
    /\ UNCHANGED <<message, ledger, delivered, cell, request, task, guard, started, binding, bounds>>

Recovered_Retries(r) == IF r.state = "handoff_started" THEN [r EXCEPT !.state = "admitted"] ELSE r
Recovered_Accepted(r) ==
    IF r.state \in {"handoff_started", "accepted"} THEN [r EXCEPT !.state = "ambiguous"] ELSE r

\* recover_stale_create_intents, recover_stale_dispatch_admissions, before the gateway listens again.
Recovered(r) == IF r.state = "handoff_started" THEN [r EXCEPT !.state = "ambiguous"] ELSE r
Reclaimed(q) == IF q.state = "preparing" THEN [q EXCEPT !.state = "reserved"] ELSE q

\* The process dies with its tasks, cells and runs; clients send again.
Restart ==
    /\ restarts < MaxRestarts
    /\ restarts' = restarts + 1
    /\ claim' = [k \in Keys |-> Reclaimed(claim[k])]
    /\ row' = [k \in Keys |-> Recovered(row[k])]
    /\ cell' = [o \in Operations |-> NoClient]
    /\ request' = [c \in Clients |-> NoRequest]
    /\ task' = [c \in Clients |-> NoTask]
    /\ guard' = [t \in Threads |-> NoClient]
    /\ live' = {}
    /\ UNCHANGED <<message, delivered, started, binding, failures>>

\* The endpoint is bound to a thread or detached by a request of its own.
Rebind(t) ==
    /\ moves < MaxMoves /\ t # endpoint /\ (t # NoThread => ThreadExists(t))
    /\ TakesEndpoint(t)
    /\ UNCHANGED <<message, ledger, delivered, cell, request, task, bridge, bounds>>

-----------------------------------------------------------------------------
RequestStep(c) ==
    \/ ReadFirst(c) \/ ResolveCreate(c) \/ ReserveClaim(c) \/ Register(c)
    \/ Receive(c) \/ ReadBack(c)

OwnerStep(c) ==
    \/ CreatePrepares(c) \/ CreateCommits(c) \/ CreateResumes(c) \/ CreateConfirms(c)
    \/ OwnerReads(c) \/ OwnerAdmits(c) \/ OwnerDeclines(c) \/ OwnerCrosses(c)
    \/ OwnerQueues(c) \/ OwnerStarts(c) \/ OwnerPublishesRun(c) \/ OwnerSettles(c)

Next ==
    \/ \E c \in Clients :
          RequestStep(c) \/ SendAgain(c) \/ OwnerPlans(c) \/ OwnerStep(c) \/ OwnerFails(c) \/ Disconnect(c)
    \/ \E r \in OtherRuns : OtherRunStarts(r)
    \/ \E r \in Runs : RunEnds(r)
    \/ \E t \in Threads \cup {NoThread} : Rebind(t)
    \/ Restart

Spec == Init /\ [][Next]_vars

\* Tokio polls every task that can move, and its mutex hands the dispatch guard
\* out in the order it was asked for.
Fairness ==
    \A c \in Clients : WF_vars(RequestStep(c)) /\ WF_vars(OwnerStep(c)) /\ SF_vars(OwnerPlans(c))

FairSpec == Spec /\ Fairness

-----------------------------------------------------------------------------
(* Safety *)

\* "Once the provider handoff gate for that identity has been crossed, a replay
\* never crosses it again": over duplicates, joins, lost owners and restarts, a
\* provider is given a message at most once under one key, and the ledger never
\* claims what did not happen: a row that was not handed off was never delivered,
\* an accepted one was.
LedgerTruthful ==
    \A k \in Keys :
        /\ delivered[k] <= 1
        /\ row[k].state \in {"none", "admitted", "not_dispatched"} => delivered[k] = 0
        /\ row[k].state = "accepted" => delivered[k] = 1

\* A request that is answered with a result is answered with the final result
\* of the very message it carries, whichever request's owner obtained it.
AnswersFinal ==
    \A c \in Clients :
        LET r == row[key[c]]
            a == request[c].answer
        IN
        a.says \in {"accepted", "no_active"} =>
            /\ r.print = print[c] /\ r.run = a.run
            /\ r.state = IF a.says = "accepted" THEN "accepted" ELSE "not_dispatched"

\* No request waits for a result nobody will publish.
JoinedOwnerLives ==
    \A c \in Clients :
        request[c].pc = "waiting" /\ request[c].got = "none" =>
            request[c].join # NoClient /\ task[request[c].join].step # "none"

\* The dispatch guard is held by an owner that is between plan and execution,
\* so the plan it committed is the plan it executes.
Guarded == {"insert", "handoff", "execute"}
GuardHeld ==
    \A c \in Clients, t \in Threads :
        (guard[t] = c) <=> t = Thread[key[c]] /\ task[c].step \in Guarded

\* Operations and owners name each other.
CellsMatch ==
    /\ \A c \in Clients :
          task[c].step # "none" => cell[Operation(key[c], task[c].via)] = c
    /\ \A o \in Operations :
          cell[o] # NoClient => /\ task[cell[o]].step # "none"
                                /\ o = Operation(key[cell[o]], task[cell[o]].via)

\* A request joined an owner that carries the same message.
JoinsMatch ==
    \A c \in Clients :
        request[c].join # NoClient =>
            /\ key[request[c].join] = key[c]
            /\ print[request[c].join] = print[c]

OwnersInvariant == CellsMatch /\ JoinsMatch /\ JoinedOwnerLives /\ GuardHeld

PastGate == {"execute", "publish", "settle"}

\* The row is that of the very message the client sends.
Mine(c) == ~IsEmpty(row[key[c]]) /\ row[key[c]].print = print[c]
Committed(k) == claim[k].state = "committed"

\* What a request or an owner on a route relies on, and nothing may take away.
Entitled(c, via) ==
    LET k == key[c] IN
    /\ via = "dispatch" => ~IsThreadless(k) /\ means[c] # "create"
    /\ via # "dispatch" => kind[k] = "create" /\ claim[k].state # "none" /\ claim[k].print = print[c]
    /\ via = "resume" => Committed(k)

\* A claim is committed with its row, and a message that creates has no other row.
ClaimsMatch ==
    \A k \in Keys :
        /\ Committed(k) => ~IsEmpty(row[k]) /\ row[k].print = claim[k].print
        /\ kind[k] = "create" /\ ~Committed(k) => IsEmpty(row[k])

RequestEntitled(c) ==
    /\ request[c].pc \in {"idle", "reserve"} => request[c].via = "dispatch"
    /\ request[c].pc = "reserve" => kind[key[c]] = "create"
    /\ request[c].pc = "register" => Entitled(c, request[c].via)

\* Where the owner of each route may be.
RouteKept(c) ==
    LET s == task[c].step
        via == task[c].via
    IN
    /\ s = "read" => via = "dispatch"
    /\ s \in {"prepare", "commit"} => via = "create"
    /\ s = "resume" => via = "resume"
    /\ via # "dispatch" /\ s \notin {"none", "prepare", "commit"} => Committed(key[c])

\* A dispatching owner remembers its own row, or that there was none.
SeenKept(c) ==
    LET r == task[c].seen IN
    task[c].via = "dispatch" /\ task[c].step \in {"plan", "insert"} =>
        /\ ~IsEmpty(r) => Mine(c) /\ r.print = print[c] /\ r.state = "admitted"
        /\ kind[key[c]] = "create" => ~IsEmpty(r)

OwnerEntitled(c) ==
    /\ task[c].step # "none" => Entitled(c, task[c].via)
    /\ RouteKept(c) /\ SeenKept(c)
    /\ task[c].step \in {"handoff"} \cup PastGate => Mine(c)

ClaimsInvariant == ClaimsMatch /\ \A c \in Clients : RequestEntitled(c) /\ OwnerEntitled(c)

\* Of the two operations that may own a message, dispatch and create, only one
\* is past the gate, and its row says so.
GateHeld ==
    /\ \A c \in Clients : task[c].step \in PastGate => row[key[c]].state = "handoff_started"
    /\ \A c, d \in Clients :
          key[c] = key[d] /\ task[c].step \in PastGate /\ task[d].step \in PastGate => c = d

\* An owner past the gate knows whether it delivered.
DeliveryKnown ==
    \A c \in Clients :
        /\ task[c].step \in {"execute", "publish"} => delivered[key[c]] = 0
        /\ task[c].step = "settle" /\ task[c].verdict = "accepted" => delivered[key[c]] = 1

\* A result that was published is that of the message it is read for.
ResultsMatch ==
    \A c \in Clients :
        /\ request[c].got = "ready" => Mine(c)
        /\ request[c].pc = "readback" => request[c].got = "ready"

\* The cells, their owners, those that wait for them and the dispatch guard
\* agree in every state, every request and owner is entitled to the route it is
\* on, and one owner per message is past the gate: what every answer to a
\* duplicate relies on.  With LedgerTruthful and AnswersFinal it is inductive.
DispatchInvariant ==
    TypeOK /\ OwnersInvariant /\ ClaimsInvariant /\ GateHeld /\ DeliveryKnown /\ ResultsMatch

\* What the ledger has settled, and what it promised a run or an answer for,
\* is never rewritten, nor a claim that is committed or failed.
SettledForever ==
    [][\A k \in Keys :
          /\ row[k].state \in Settled => row'[k] = row[k]
          /\ ~IsEmpty(row[k]) => /\ row'[k].print = row[k].print
                                 /\ row'[k].run = row[k].run
          /\ claim[k].state \in {"committed", "failed"} => claim'[k] = claim[k]]_vars

Ledger == INSTANCE AtMostOnceHandoff WITH
              phase <- [k \in Keys |-> row[k].state],
              seen <- {k \in Keys : delivered[k] # 0}

\* The ledger with its owners and restarts implements at-most-once handoff.
ImplementsAtMostOnce == Ledger!Spec

-----------------------------------------------------------------------------
(* The messages that name no thread *)

\* Keys that only such messages have.
IsRouted(k) == \A c \in Clients : key[c] = k => Routed(c)

\* A message that is sent again to a bot or an account is given to a provider at
\* most once, though each request looks the thread up anew and another create may
\* be on its way for the same endpoint, as long as no thread loses the endpoint.
MessageOnce ==
    \A j, k \in Keys :
        j # k /\ Intent[j] = Intent[k] /\ IsRouted(j) /\ IsRouted(k)
            /\ delivered[j] > 0 /\ delivered[k] > 0 => moves > 0

-----------------------------------------------------------------------------
(* Liveness *)

\* Every request that waits for an operation is answered, or sent again.
RequestsAnswered == \A c \in Clients : request[c].pc = "waiting" ~> request[c].pc # "waiting"
=============================================================================
