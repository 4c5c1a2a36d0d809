---------------------------- MODULE QuotaRecovery ----------------------------
(***************************************************************************)
(* The recovery of a thread whose run stopped at the provider's quota:     *)
(* quota_resend.rs (event projection, worker, repair, manual and provider  *)
(* wakes), garyx_db/quota_recovery.rs (the job table), quota_auto_switch.rs*)
(* as far as it wakes jobs, the quota path through run_durable_chat_start  *)
(* (chat.rs) and insert_dispatch_admission_with_records (the claim and the *)
(* superseding by user turns), and gateway restarts.                       *)
(*                                                                         *)
(* One thread.  Its runs are numbered in the order they start, one at a    *)
(* time; the control records of its transcript are the start and the end   *)
(* of each.  A run that ends "limited" is a generation: the number of the  *)
(* run is its blocked_run_id and, as runs are numbered in transcript       *)
(* order, its blocked_seq.  A recovery starts one more run, the generation's*)
(* "continue".                                                             *)
(***************************************************************************)
EXTENDS Naturals, Sequences, FiniteSets

CONSTANTS
    Senders,      \* each sends the thread one message
    MaxBlocked,   \* bound on the runs that stop at the quota
    MaxRestarts,  \* bound on gateway restarts
    MaxFailures   \* bound on storage and provider errors

ASSUME BoundsAssumption ==
    MaxBlocked \in Nat /\ MaxRestarts \in Nat /\ MaxFailures \in Nat
ASSUME SendersAssumption == {"worker", "free"} \cap Senders = {} /\ IsFiniteSet(Senders)

\* After the first, every message starts one run at most, and so does every
\* generation.
MaxRuns == 1 + Cardinality(Senders) + MaxBlocked
Generations == 1 .. MaxRuns
Active == {"waiting", "claimed"}
Settled == {"delivered", "superseded"}

Run == [by : {"user", "other", "continue"}, of : 0 .. MaxRuns,
        status : {"live", "done", "limited", "limited_unarmed"}]

\* due_at against now; "never" is NO_AUTOMATIC_DUE_AT.  The token of a claim is
\* named by the attempt that made it.
Job == [state : {"none", "waiting", "claimed", "delivered", "superseded"},
        due : {"never", "later", "now"}, token : Nat, attempts : Nat]

Worker == [pc : {"scan", "sleep", "check", "read", "plan", "insert", "handoff",
                 "execute", "account", "settle"},
           gen : 0 .. MaxRuns, token : Nat,
           verdict : {"deliver", "supersede", "retry"}]

\* A turn is planned, then admitted, then executed.
Plans == {"start", "queue", "replace"}
TurnSteps == [step : {"idle", "planned", "admitted", "done"}, plan : Plans]
Idle == [step |-> "idle", plan |-> "start"]
Done == [Idle EXCEPT !.step = "done"]

VARIABLES
    runs,        \* durable: the runs of the thread, as its transcript tells them
    job,         \* durable: quota_recovery_jobs
    admission,   \* durable: the dispatch_admissions row of each generation's intent
    events,      \* committed rate_limited terminals in the projection's receiver
    history,     \* EventStreamHub.history: those of this process
    lost,        \* generations whose event the receiver lost for good, or whose
                 \* repair at the start failed
    pruned,      \* generations whose settled row the last start deleted
    worker,      \* run_recovery_worker
    notify,      \* quota_recovery_notify: a stored permit
    timer,       \* whether the worker sleeps with a deadline, or could not read it
    guard,       \* the thread's dispatch guard
    turn,        \* the message of each sender
    restarts, failures

durable == <<runs, job, admission>>
projection == <<events, history, lost>>
sleeping == <<notify, timer>>
bounds == <<restarts, failures>>
vars == <<durable, projection, pruned, worker, sleeping, guard, turn, bounds>>

TypeOK ==
    /\ runs \in Seq(Run) /\ Len(runs) <= MaxRuns
    /\ job \in [Generations -> Job]
    /\ admission \in [Generations -> {"none", "admitted", "handoff_started", "accepted", "ambiguous"}]
    /\ events \in Seq(Generations) /\ history \in Seq(Generations) /\ lost \subseteq Generations
    /\ pruned \subseteq Generations
    /\ worker \in Worker
    /\ notify \in BOOLEAN /\ timer \in {"off", "on", "unread"}
    /\ guard \in Senders \cup {"worker", "free"}
    /\ turn \in [Senders -> TurnSteps]
    /\ restarts \in Nat /\ failures \in Nat

NoJob == [state |-> "none", due |-> "never", token |-> 0, attempts |-> 0]
Scanning == [pc |-> "scan", gen |-> 0, token |-> 0, verdict |-> "retry"]

Init ==
    /\ runs = <<[by |-> "other", of |-> 0, status |-> "live"]>>
    /\ job = [n \in Generations |-> NoJob]
    /\ admission = [n \in Generations |-> "none"]
    /\ events = <<>> /\ history = <<>> /\ lost = {} /\ pruned = {}
    /\ worker = Scanning
    /\ notify = FALSE /\ timer = "off"
    /\ guard = "free"
    /\ turn = [u \in Senders |-> Idle]
    /\ restarts = 0 /\ failures = 0

Fail == failures < MaxFailures /\ failures' = failures + 1

Limited == {"limited", "limited_unarmed"}
Newest == Len(runs)
IsLive == runs[Newest].status = "live"
LimitedRuns == {n \in 1 .. Newest : runs[n].status \in Limited}

\* latest_rate_limited_plan: the generation that the last control record is.
\* A live run, or one that ended otherwise, hides those before it.
Blocked == IF runs[Newest].status \in Limited THEN Newest ELSE 0

-----------------------------------------------------------------------------
(* The job table. *)

Closed(state, j) == [j EXCEPT !.state = state, !.due = "never", !.token = 0]

Supersede(jobs) ==
    [n \in Generations |->
        IF jobs[n].state \in Active THEN Closed("superseded", jobs[n])
        ELSE jobs[n]]

Registered_AnyOrder(n, jobs) ==
    IF jobs[n].state # "none" THEN jobs
    ELSE [Supersede(jobs) EXCEPT
            ![n] = [NoJob EXCEPT !.state = "waiting",
                                 !.due = IF runs[n].status = "limited" THEN "later" ELSE "never"]]

\* register_quota_recovery_job: a generation is registered once, and only if
\* none that is newer was.
Registered(n, jobs) ==
    IF \E m \in Generations : m >= n /\ jobs[m].state # "none" THEN jobs
    ELSE [Supersede(jobs) EXCEPT
            ![n] = [NoJob EXCEPT !.state = "waiting",
                                 !.due = IF runs[n].status = "limited" THEN "later" ELSE "never"]]

\* expedite_quota_recovery_provider, _thread and (for one) _generation
Expedited(gens, jobs) ==
    [n \in Generations |->
        IF n \in gens /\ jobs[n].state = "waiting" THEN [jobs[n] EXCEPT !.due = "now"] ELSE jobs[n]]

\* reconcile_transcript_recovery_jobs
Repaired(jobs) == IF Blocked = 0 THEN jobs ELSE Registered(Blocked, jobs)

\* next_quota_recovery_due_at: the rows that a deadline exists for.
Deadlines == {n \in Generations : job[n].state = "waiting" /\ job[n].due # "never"}

Elapse(n) ==
    /\ job[n].state = "waiting" /\ job[n].due = "later"
    /\ job' = [job EXCEPT ![n].due = "now"]
    /\ UNCHANGED <<runs, admission, projection, worker, sleeping, guard, turn, bounds, pruned>>

-----------------------------------------------------------------------------
(* run_event_projection and the auto switch. *)

Project_Silent ==
    /\ events # <<>>
    /\ events' = Tail(events)
    /\ job' = Registered(Head(events), job)
    /\ notify' = notify
    /\ UNCHANGED <<runs, admission, history, lost, worker, timer, guard, turn, bounds, pruned>>

\* register_plan; an error loses the event.
Project ==
    /\ events # <<>>
    /\ events' = Tail(events)
    /\ \/ /\ job' = Registered(Head(events), job)
          /\ notify' = TRUE
          /\ UNCHANGED <<lost, failures>>
       \/ /\ Fail
          /\ lost' = lost \cup {Head(events)}
          /\ UNCHANGED <<job, notify>>
    /\ UNCHANGED <<runs, admission, history, worker, timer, guard, turn, restarts, pruned>>

\* The receiver lags: what it dropped comes again from the history, before what
\* it still holds, unless the history does not reach back that far.
Lag ==
    /\ events # <<>>
    /\ Fail
    /\ \/ events' = history \o events /\ UNCHANGED lost
       \/ events' = Tail(events) /\ lost' = lost \cup {Head(events)}
    /\ UNCHANGED <<durable, history, worker, sleeping, guard, turn, restarts, pruned>>

\* evaluate: the auto switch may wake this very generation if it still waits.
WakeGeneration(n) ==
    /\ job[n].state = "waiting"
    /\ job' = Expedited({n}, job)
    /\ notify' = TRUE
    /\ UNCHANGED <<runs, admission, projection, worker, timer, guard, turn, bounds, pruned>>

\* spawn_claude_account_switch_effects: when the account changes, by the user or
\* the auto switch, a detached task makes a pass over the rows, repairs the
\* projection and makes a second pass.  The passes of several switches overlap,
\* so each of them may come at any time.
Switch ==
    /\ \/ /\ job' = Expedited(Generations, job)
          /\ notify' = (notify \/ \E n \in Generations : job[n].state = "waiting")
       \/ /\ Blocked # 0
          /\ job' = Repaired(job)
          /\ notify' = TRUE
    /\ UNCHANGED <<runs, admission, projection, worker, timer, guard, turn, bounds, pruned>>

\* expedite_thread_manual: a thread without an active row gets one from its
\* transcript first.
Retry ==
    LET hasActive == \E n \in Generations : job[n].state \in Active IN
    /\ job' = Expedited(Generations, IF hasActive THEN job ELSE Repaired(job))
    /\ notify' = (notify \/ hasActive \/ Blocked # 0)
    /\ UNCHANGED <<runs, admission, projection, worker, timer, guard, turn, bounds, pruned>>

-----------------------------------------------------------------------------
(* Runs that are not recoveries. *)

Started(by, of) == Append(runs, [by |-> by, of |-> of, status |-> "live"])
Aborted == [runs EXCEPT ![Newest].status = "done"]

\* The run ends, and its terminal record is committed and broadcast.
RunEnds ==
    /\ IsLive
    /\ \E s \in {"done"} \cup Limited :
          /\ s \in Limited => Cardinality(LimitedRuns) < MaxBlocked
          /\ runs' = [runs EXCEPT ![Newest].status = s]
          /\ IF s \in Limited
             THEN events' = Append(events, Newest) /\ history' = Append(history, Newest)
             ELSE UNCHANGED <<events, history>>
    /\ UNCHANGED <<job, admission, lost, worker, sleeping, guard, turn, bounds, pruned>>

\* prepare_durable_dispatch of a user's message
TurnPlans(u) ==
    /\ turn[u] = Idle /\ guard = "free"
    /\ guard' = u
    /\ \E p \in IF IsLive THEN {"queue", "replace"} ELSE {"start"} :
          turn' = [turn EXCEPT ![u] = [step |-> "planned", plan |-> p]]
    /\ UNCHANGED <<durable, projection, worker, sleeping, bounds, pruned>>

\* insert_dispatch_admission_with_records: the admission of a user's turn
\* supersedes the thread's recovery in the same transaction.
TurnAdmits(u) ==
    /\ turn[u].step = "planned"
    /\ \/ /\ turn' = [turn EXCEPT ![u].step = "admitted"]
          /\ job' = Supersede(job)
          /\ UNCHANGED <<guard, failures>>
       \/ /\ Fail
          /\ turn' = [turn EXCEPT ![u] = Done]
          /\ guard' = "free"
          /\ UNCHANGED job
    /\ UNCHANGED <<runs, admission, projection, worker, sleeping, restarts, pruned>>

\* execute_durable_dispatch: a queued message joins the run, if it still lives.
TurnRuns(u) ==
    /\ turn[u].step = "admitted"
    /\ turn' = [turn EXCEPT ![u] = Done]
    /\ guard' = "free"
    /\ runs' = CASE turn[u].plan = "start" -> Started("user", 0)
                 [] turn[u].plan = "queue" -> runs
                 [] turn[u].plan = "replace" ->
                      Append(IF IsLive THEN Aborted ELSE runs, [by |-> "user", of |-> 0, status |-> "live"])
    /\ UNCHANGED <<job, admission, projection, worker, sleeping, bounds, pruned>>

\* A dispatch that has no admission row: it takes the guard and starts its run
\* or replaces the live one; it leaves the recovery alone.
OtherStarts(u) ==
    /\ turn[u] = Idle /\ guard = "free"
    /\ turn' = [turn EXCEPT ![u] = Done]
    /\ runs' = Append(IF IsLive THEN Aborted ELSE runs, [by |-> "other", of |-> 0, status |-> "live"])
    /\ UNCHANGED <<job, admission, projection, worker, sleeping, guard, bounds, pruned>>

-----------------------------------------------------------------------------
(* run_recovery_worker, process_claimed_job and the chat start it asks for. *)

Due == {n \in Deadlines : job[n].due = "now"}

\* claim_next_due_quota_recovery
Claim ==
    /\ worker.pc = "scan"
    /\ \E n \in Due :
          /\ job' = [job EXCEPT ![n].state = "claimed", ![n].attempts = @ + 1,
                                ![n].token = job[n].attempts + 1]
          /\ worker' = [Scanning EXCEPT !.pc = "check", !.gen = n, !.token = job[n].attempts + 1]
    /\ UNCHANGED <<runs, admission, projection, sleeping, guard, turn, bounds, pruned>>

\* Nothing is due, or the claim failed.  The worker sleeps until the next
\* deadline; when that cannot be read, until it is notified.
Sleep ==
    /\ worker.pc = "scan"
    /\ \E claimFails, unread \in BOOLEAN :
          LET One(b) == IF b THEN 1 ELSE 0 IN
          /\ Due = {} \/ claimFails
          /\ failures' = failures + One(claimFails) + One(unread)
          /\ failures' <= MaxFailures
          /\ timer' = CASE unread -> "unread"
                        [] ~unread /\ Deadlines # {} -> "on"
                        [] OTHER -> "off"
    /\ worker' = [worker EXCEPT !.pc = "sleep"]
    /\ UNCHANGED <<durable, projection, pruned, notify, guard, turn, restarts>>

Wake ==
    /\ worker.pc = "sleep"
    /\ \/ notify /\ notify' = FALSE
       \/ timer = "on" /\ UNCHANGED notify
    /\ worker' = Scanning
    /\ UNCHANGED <<durable, projection, pruned, timer, guard, turn, bounds>>

Goto(s) == worker' = [worker EXCEPT !.pc = s]
Conclude(v) == worker' = [worker EXCEPT !.pc = "settle", !.verdict = v]

\* The generation must be the last thing the transcript tells.
Check ==
    /\ worker.pc = "check"
    /\ \/ Blocked = worker.gen /\ Goto("read") /\ UNCHANGED failures
       \/ Blocked # worker.gen /\ Conclude("supersede") /\ UNCHANGED failures
       \/ Fail /\ Conclude("retry")
    /\ UNCHANGED <<durable, projection, sleeping, guard, turn, restarts, pruned>>

\* The ledger answers for an intent that was handed off before.
Read ==
    LET a == admission[worker.gen] IN
    /\ worker.pc = "read"
    /\ \/ a \in {"none", "admitted"} /\ Goto("plan") /\ UNCHANGED failures
       \/ a = "accepted" /\ Conclude("deliver") /\ UNCHANGED failures
       \/ a \in {"handoff_started", "ambiguous"} /\ Conclude("supersede") /\ UNCHANGED failures
       \/ Fail /\ Conclude("retry")
    /\ UNCHANGED <<durable, projection, sleeping, guard, turn, restarts, pruned>>

HoldsClaim_Assumed == TRUE
HoldsClaim == job[worker.gen].state = "claimed" /\ job[worker.gen].token = worker.token

\* prepare_durable_dispatch: a run that is live supersedes the recovery.
Plan ==
    /\ worker.pc = "plan" /\ guard = "free"
    /\ \/ /\ IsLive
          /\ job' = IF HoldsClaim
                    THEN [job EXCEPT ![worker.gen] = Closed("superseded", @)]
                    ELSE job
          /\ Conclude("supersede")
          /\ UNCHANGED guard
       \/ /\ ~IsLive
          /\ guard' = "worker"
          /\ Goto("insert")
          /\ UNCHANGED job
    /\ UNCHANGED <<runs, admission, projection, sleeping, turn, bounds, pruned>>

GiveUp == Conclude("retry") /\ guard' = "free"

\* A row that was inserted earlier is used as it is; a new one needs the claim.
Insert ==
    /\ worker.pc = "insert"
    /\ \/ /\ admission[worker.gen] = "admitted" \/ HoldsClaim
          /\ admission' = [admission EXCEPT ![worker.gen] = "admitted"]
          /\ Goto("handoff")
          /\ UNCHANGED <<guard, failures>>
       \/ /\ admission[worker.gen] = "none" /\ ~HoldsClaim
          /\ GiveUp
          /\ UNCHANGED <<admission, failures>>
       \/ /\ Fail /\ GiveUp
          /\ UNCHANGED admission
    /\ UNCHANGED <<runs, job, projection, sleeping, turn, restarts, pruned>>

\* start_dispatch_handoff
Handoff ==
    /\ worker.pc = "handoff"
    /\ \/ /\ admission' = [admission EXCEPT ![worker.gen] = "handoff_started"]
          /\ Goto("execute")
          /\ UNCHANGED <<guard, failures>>
       \/ /\ Fail /\ GiveUp
          /\ UNCHANGED admission
    /\ UNCHANGED <<runs, job, projection, sleeping, turn, restarts, pruned>>

\* execute_durable_dispatch: the continue runs, or nobody knows.
Execute ==
    /\ worker.pc = "execute"
    /\ guard' = "free"
    /\ \/ /\ runs' = Started("continue", worker.gen)
          /\ Goto("account")
          /\ UNCHANGED <<admission, failures>>
       \/ /\ Fail
          /\ \/ /\ admission' = [admission EXCEPT ![worker.gen] = "ambiguous"]
                /\ Conclude("supersede")
             \/ Conclude("retry") /\ UNCHANGED admission
          /\ UNCHANGED runs
    /\ UNCHANGED <<job, projection, sleeping, turn, restarts, pruned>>

\* settle_dispatch_admission
Account ==
    /\ worker.pc = "account"
    /\ \/ /\ admission' = [admission EXCEPT ![worker.gen] = "accepted"]
          /\ Conclude("deliver")
          /\ UNCHANGED failures
       \/ /\ Fail /\ Conclude("retry")
          /\ UNCHANGED admission
    /\ UNCHANGED <<runs, job, projection, sleeping, guard, turn, restarts, pruned>>

\* deliver_, supersede_ and retry_claimed_quota_recovery: only with the claim.
\* When the write fails the row stays claimed.
Outcome(v, j) ==
    CASE v = "deliver" -> Closed("delivered", j)
      [] v = "supersede" -> Closed("superseded", j)
      [] v = "retry" -> [Closed("waiting", j) EXCEPT !.due = "later"]

Settle ==
    /\ worker.pc = "settle"
    /\ worker' = Scanning
    /\ \/ /\ job' = IF HoldsClaim THEN [job EXCEPT ![worker.gen] = Outcome(worker.verdict, @)] ELSE job
          /\ notify' = (notify \/ (worker.verdict = "retry" /\ HoldsClaim))
          /\ UNCHANGED failures
       \/ /\ Fail
          /\ UNCHANGED <<job, notify>>
    /\ UNCHANGED <<runs, admission, projection, timer, guard, turn, restarts, pruned>>

-----------------------------------------------------------------------------
\* The process dies and starts again: recover_stale_dispatch_admissions,
\* recover_stale_quota_recovery_claims, prune_settled_quota_recovery_jobs and
\* reconcile_transcript_recovery_jobs, which passes over a thread it cannot read.
Reclaimed(jobs) ==
    [n \in Generations |->
        IF jobs[n].state = "claimed"
        THEN [jobs[n] EXCEPT !.state = "waiting", !.due = "now", !.token = 0] ELSE jobs[n]]

\* prune_settled_quota_recovery_jobs: of those that have been settled for long
Pruned(gens, jobs) == [n \in Generations |-> IF n \in gens THEN NoJob ELSE jobs[n]]

Restart ==
    /\ restarts < MaxRestarts
    /\ restarts' = restarts + 1
    /\ runs' = IF IsLive THEN Aborted ELSE runs
    /\ admission' = [n \in Generations |->
                        IF admission[n] = "handoff_started" THEN "ambiguous" ELSE admission[n]]
    /\ pruned' \in SUBSET {n \in Generations : job[n].state \in Settled}
    /\ LET kept == Pruned(pruned', Reclaimed(job)) IN
       \/ job' = Repaired(kept) /\ lost' = {} /\ UNCHANGED failures
       \/ Fail /\ job' = kept /\ lost' = {Blocked} \cap Generations
    /\ events' = <<>> /\ history' = <<>>
    /\ worker' = Scanning /\ notify' = FALSE /\ timer' = "off"
    /\ guard' = "free"
    /\ turn' = [u \in Senders |-> IF turn[u] = Idle THEN Idle ELSE Done]

Work == \/ Claim \/ Sleep \/ Wake \/ Check \/ Read \/ Plan \/ Insert \/ Handoff
        \/ Execute \/ Account \/ Settle

Next ==
    \/ Project \/ Lag \/ Switch \/ Retry \/ RunEnds \/ Work \/ Restart
    \/ \E n \in Generations : Elapse(n) \/ WakeGeneration(n)
    \/ \E u \in Senders : TurnPlans(u) \/ TurnAdmits(u) \/ TurnRuns(u) \/ OtherStarts(u)

Spec == Init /\ [][Next]_vars

\* The reactor's tasks run, a turn that was planned goes on, time passes.
Fairness ==
    /\ WF_vars(Project) /\ WF_vars(Work)
    /\ \A n \in Generations : WF_vars(Elapse(n))
    /\ \A u \in Senders : WF_vars(TurnAdmits(u) \/ TurnRuns(u))

FairSpec == Spec /\ Fairness

-----------------------------------------------------------------------------
(* Properties *)

\* A blocked thread is continued once per generation, whatever repeats: the
\* event, the claim after a restart, a retry, a wake by the timer, the user and
\* an account switch.
OneContinue ==
    \A i, j \in 1 .. Newest :
        runs[i].by = "continue" /\ runs[j].by = "continue" /\ runs[i].of = runs[j].of => i = j

\* The thread has one active job, and it is that of its newest generation.
OneActiveJob ==
    \A m, n \in Generations : job[m].state # "none" /\ job[n].state \in Active => m <= n

\* The worker is at work on a claimed row, unless a write of its outcome failed.
Orphaned(n) == job[n].state = "claimed" /\ ~(worker.gen = n /\ worker.token = job[n].token)
ClaimIsHeld == \A n \in Generations : Orphaned(n) => failures > 0

\* What the worker has read and written of its generation still holds at its next
\* step: nobody else writes the row of its intent, and its run has ended for good.
WorkerKnows ==
    LET a == admission[worker.gen] IN
    /\ (worker.gen = 0) <=> (worker.pc \in {"scan", "sleep"})
    /\ worker.pc \in {"read", "plan", "insert", "handoff", "execute", "account"} =>
          worker.gen \in LimitedRuns
    /\ worker.pc \in {"plan", "insert"} => a \in {"none", "admitted"}
    /\ worker.pc = "handoff" => a = "admitted"
    /\ worker.pc \in {"execute", "account"} => a = "handoff_started"

\* A continue is of a run that stopped at the quota, and its row tells that it may
\* have been handed off; the worker never stands before a second one.
ContinueIsTold ==
    \A i \in 1 .. Newest :
        runs[i].by = "continue" =>
            /\ runs[i].of \in LimitedRuns
            /\ admission[runs[i].of] \in {"handoff_started", "accepted", "ambiguous"}
            /\ worker.pc = "execute" => runs[i].of # worker.gen

\* Every run after the first is that of a sender, or the continue of a generation.
SendersDone == {u \in Senders : turn[u].step = "done"}
Continued == {n \in LimitedRuns : \E i \in 1 .. Newest : runs[i].by = "continue" /\ runs[i].of = n}
RunsCounted ==
    /\ Newest > 0 /\ Newest <= 1 + Cardinality(SendersDone) + Cardinality(Continued)
    /\ Cardinality(LimitedRuns) <= MaxBlocked

\* What holds between any two steps of the recovery: its types, one continue per
\* generation, one active job per thread, no claim without its worker, and what
\* the worker and the rows know of each other.
QuotaInvariant == /\ TypeOK /\ OneContinue /\ OneActiveJob /\ ClaimIsHeld
                  /\ WorkerKnows /\ ContinueIsTold /\ RunsCounted

\* A generation that a message of the user or a newer generation superseded is
\* over: no retry, restart, wake or late event of it makes it active again, and a
\* continue it had not admitted by then is never admitted.  Only a start that
\* deletes its row as an old one may find it in the transcript again.
SettledIsFinal ==
    [][\A n \in Generations :
          job[n].state \in Settled =>
              \/ restarts' # restarts /\ n \in pruned'
              \/ /\ job'[n].state = job[n].state
                 /\ admission[n] = "none" => admission'[n] = "none"]_vars

\* A row without a deadline waits for the user or for another account.
Parked(n) == job[n].state = "waiting" /\ job[n].due = "never"

\* The worker could not read its next deadline and nothing has notified it since.
Deaf == worker.pc = "sleep" /\ timer = "unread" /\ ~notify

\* No event of the generation will come, and no row of it was written.
Missed(n) == n \in lost /\ job[n].state = "none"

\* A blocked thread is not forgotten: its terminal gets a row, though the event is
\* repeated, overtaken by the repair or dropped with the process, and the row is
\* claimed when its time comes and tried again until it is settled.  These wait
\* for somebody else: an event lost for good, or a repair that failed, for a
\* restart or a switch; a claim whose outcome could not be written for a restart;
\* a worker that could not read its deadline for the next notification.
NotForgotten ==
    Blocked # 0 ~>
        \/ Blocked = 0
        \/ job[Blocked].state \in Settled
        \/ Parked(Blocked) \/ Orphaned(Blocked) \/ Missed(Blocked) \/ Deaf
=============================================================================
