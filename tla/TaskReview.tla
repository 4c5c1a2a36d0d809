----------------------------- MODULE TaskReview -----------------------------
(***************************************************************************)
(* Tasks, their runs and their reviews: the task of a thread record        *)
(* (garyx-router/tasks.rs), the run of its thread that moves it to review  *)
(* when it ends (garyx-bridge, task_hooks.rs), the requests of users, and  *)
(* the callback by which a finished subtask wakes the thread that waits    *)
(* for it (garyx-gateway/task_notifications.rs).                           *)
(*                                                                         *)
(* A task is named by its thread.  The bridge is abstracted to one run per *)
(* thread: what a dispatch meets there is modelled in BridgeRuns.          *)
(***************************************************************************)
EXTENDS Naturals, FiniteSets

CONSTANTS
    Tasks,
    NoTask,
    Target,         \* the thread that a task notifies, or NoTask
    MaxActs,        \* bound on requests of users
    MaxFaults       \* bound on requests, writes and runs that fail, lost events, restarts

ASSUME TaskAssumption ==
    /\ NoTask \notin Tasks
    /\ Target \in [Tasks -> Tasks \cup {NoTask}] /\ \A t \in Tasks : Target[t] # t
    /\ MaxActs \in Nat /\ MaxFaults \in Nat

Statuses == {"todo", "in_progress", "in_review", "done"}

VARIABLES
    status,     \* of the task: "unborn" and "deleted" if the record has none
    agent,      \* whether an agent is assigned
    start,      \* the automatic dispatch: "none", "written", "spawned", "checked"
    run,        \* the run of the thread, see Runs
    callback,   \* events of the task's reviews that are not delivered yet
    halting,    \* requests that interrupted the thread and have not written yet
    acts, faults,
    opened,     \* history: how often a task was made to be in progress
    reported,   \* history: how often its review was announced
    excused     \* history: tasks that may be left in progress without a run

\* A run is at its provider, has ended with or without an answer, has read what
\* it needs under the lock of the task, has written, or is about to be removed.
Runs == {"none", "working", "answered", "failed", "reviewing", "reviewed", "closing"}

task == <<status, agent, opened>>
work == <<start, run>>
history == <<reported, excused>>
bounds == <<acts, faults>>
vars == <<task, work, callback, halting, bounds, history>>

Waiting(t) == {c \in Tasks : Target[c] = t}

TypeOK ==
    /\ status \in [Tasks -> Statuses \cup {"unborn", "deleted"}]
    /\ agent \in [Tasks -> BOOLEAN]
    /\ start \in [Tasks -> {"none", "written", "spawned", "checked"}]
    /\ run \in [Tasks -> Runs]
    /\ callback \in [Tasks -> Nat]
    /\ halting \in [Tasks -> {"none", "stop", "delete"}]
    /\ acts \in 0 .. MaxActs /\ faults \in 0 .. MaxFaults
    /\ opened \in [Tasks -> Nat] /\ reported \in [Tasks -> Nat]
    /\ excused \subseteq Tasks

\* The tasks that notify nobody were just created with an agent; the others are
\* yet to be.
Init ==
    /\ status = [t \in Tasks |-> IF Target[t] = NoTask THEN "in_progress" ELSE "unborn"]
    /\ agent = [t \in Tasks |-> Target[t] = NoTask]
    /\ start = [t \in Tasks |-> IF Target[t] = NoTask THEN "written" ELSE "none"]
    /\ run = [t \in Tasks |-> "none"]
    /\ callback = [t \in Tasks |-> 0] /\ halting = [t \in Tasks |-> "none"]
    /\ acts = 0 /\ faults = 0
    /\ opened = [t \in Tasks |-> IF Target[t] = NoTask THEN 1 ELSE 0]
    /\ reported = [t \in Tasks |-> 0] /\ excused = {}

-----------------------------------------------------------------------------
(* The record.  Every writer of a task holds the lock of its thread from   *)
(* the read to the write.                                                  *)

Unlocked(t) == run[t] # "reviewing"
HasTask(t) == status[t] \in Statuses

Set(t, s) ==
    /\ status' = [status EXCEPT ![t] = s]
    /\ opened' = [opened EXCEPT ![t] = IF s = "in_progress" /\ status[t] # s THEN @ + 1 ELSE @]

\* A subtask that leaves progress by other means than its own run calls nobody.
Leaves(t, s) == IF status[t] = "in_progress" /\ s # "in_progress" THEN {Target[t]} \cap Tasks ELSE {}

Asks == acts < MaxActs /\ acts' = acts + 1
Slips == faults < MaxFaults /\ faults' = faults + 1
Act == Asks /\ UNCHANGED faults
Fault == Slips /\ UNCHANGED acts

-----------------------------------------------------------------------------
(* A message reaches a thread.  A run is started, or takes the message as  *)
(* input, or is replaced; a run that is just ending may be aborted wherever*)
(* it is, or may leave nothing to abort, which refuses the message.        *)

Ending == {"answered", "failed", "reviewing", "reviewed", "closing"}

\* The review of a run that is killed before it announces it stays untold.
Untold(t) == IF run[t] = "reviewed" THEN {Target[t]} \cap Tasks ELSE {}

\* Only a message that is not internal takes a finished task up again, and only
\* when it starts a run.
Wakes_Always(t, internal) == run[t] # "working" /\ status[t] \in {"in_review", "done"}

Wakes(t, internal) == ~internal /\ run[t] # "working" /\ status[t] \in {"in_review", "done"}

Reaches(t, internal) ==
    /\ run' = [run EXCEPT ![t] = "working"]
    /\ IF Wakes(t, internal) THEN Set(t, "in_progress") ELSE UNCHANGED <<status, opened>>
    /\ excused' = (excused \cup Untold(t)) \ {t}

Refused(t) == run[t] \in Ending /\ UNCHANGED <<run, status, opened>>

\* The dispatch fails or is dropped on its way: what it replaces may be aborted
\* by then, and the task, which is woken before the run is published, be awake.
Stalls(t, internal) ==
    /\ \E r \in {run[t], "none"} : run' = [run EXCEPT ![t] = r]
    /\ \/ UNCHANGED <<status, opened>>
       \/ Wakes(t, internal) /\ Set(t, "in_progress")
    /\ excused' = excused \cup {t} \cup Untold(t)

\* The run starts, but the write that wakes the task fails, which is only logged.
Unwoken(t) ==
    /\ Wakes(t, FALSE)
    /\ run' = [run EXCEPT ![t] = "working"] /\ UNCHANGED <<status, opened>>
    /\ excused' = (excused \cup Untold(t)) \ {t}

-----------------------------------------------------------------------------
(* Creation and the automatic dispatch.                                    *)

\* A run creates a subtask that starts at once and calls back its thread: the
\* task is written ...
Create(t) ==
    /\ status[t] = "unborn" /\ run[Target[t]] = "working"
    /\ Set(t, "in_progress")
    /\ agent' = [agent EXCEPT ![t] = TRUE]
    /\ start' = [start EXCEPT ![t] = "written"]
    /\ UNCHANGED <<run, callback, halting, bounds, history>>

\* ... and after the provider of the thread is checked, its dispatch is spawned.
Spawn(t) ==
    /\ start[t] = "written"
    /\ start' = [start EXCEPT ![t] = "spawned"]
    /\ UNCHANGED <<task, run, callback, halting, bounds, history>>

\* The check fails, or the request is dropped between the write and the spawn.
Unspawned(t) ==
    /\ start[t] = "written" /\ Fault
    /\ start' = [start EXCEPT ![t] = "none"]
    /\ excused' = excused \cup {t}
    /\ UNCHANGED <<task, run, callback, halting, reported>>

\* task_auto_dispatch_still_current
AutoCheck(t) ==
    /\ start[t] = "spawned"
    /\ start' = [start EXCEPT ![t] = IF status[t] = "in_progress" /\ agent[t] THEN "checked" ELSE "none"]
    /\ excused' = IF start'[t] = "none" THEN excused \cup {t} ELSE excused
    /\ UNCHANGED <<task, run, callback, halting, bounds, reported>>

AutoSend(t) ==
    /\ start[t] = "checked"
    /\ start' = [start EXCEPT ![t] = "none"]
    /\ \/ Reaches(t, TRUE) /\ UNCHANGED bounds
       \/ Refused(t) /\ excused' = excused \cup {t} /\ UNCHANGED bounds
       \/ Stalls(t, TRUE) /\ Fault
    /\ UNCHANGED <<agent, callback, halting, reported>>

-----------------------------------------------------------------------------
(* The end of a run.                                                       *)

RunAnswers(t) ==
    /\ run[t] = "working"
    /\ run' = [run EXCEPT ![t] = "answered"]
    /\ UNCHANGED <<task, start, callback, halting, bounds, history>>

\* It fails, or ends without a final response.
RunFails(t) ==
    /\ run[t] = "working" /\ Fault
    /\ run' = [run EXCEPT ![t] = "failed"]
    /\ UNCHANGED <<task, start, callback, halting, history>>

Running == {t \in Tasks : status[t] = "in_progress"}

Unfinished_OrReviewed(t) == {c \in Waiting(t) : status[c] \in {"in_progress", "in_review"}}

Unfinished(t) == Waiting(t) \cap Running

\* has_running_subtask_targeting
Reviewable_Finished(t) == HasTask(t) /\ Unfinished(t) = {}

Reviewable(t) == status[t] = "in_progress" /\ Unfinished(t) = {}

\* mark_thread_task_in_review_if_in_progress: the lock, the record, the subtasks ...
MarkReads(t) ==
    /\ run[t] = "answered"
    /\ run' = [run EXCEPT ![t] = IF Reviewable(t) THEN "reviewing" ELSE "closing"]
    /\ UNCHANGED <<task, start, callback, halting, bounds, history>>

\* ... and the write
MarkWrites(t) ==
    /\ run[t] = "reviewing"
    /\ Set(t, "in_review")
    /\ run' = [run EXCEPT ![t] = "reviewed"]
    /\ UNCHANGED <<agent, start, callback, halting, bounds, history>>

\* The store fails to read or to write: the error is logged, and that is all.
MarkFails(t) ==
    /\ run[t] \in {"answered", "reviewing"} /\ Fault
    /\ run' = [run EXCEPT ![t] = "closing"]
    /\ excused' = excused \cup {t}
    /\ UNCHANGED <<task, start, callback, halting, reported>>

\* emit_task_ready_for_review_event
Emit(t) ==
    /\ run[t] = "reviewed"
    /\ callback' = [callback EXCEPT ![t] = @ + 1]
    /\ reported' = [reported EXCEPT ![t] = @ + 1]
    /\ run' = [run EXCEPT ![t] = "closing"]
    /\ UNCHANGED <<task, start, halting, bounds, excused>>

\* The task of a run that failed stays in progress, for a retry.
Close(t) ==
    /\ run[t] \in {"failed", "closing"}
    /\ run' = [run EXCEPT ![t] = "none"]
    /\ excused' = IF run[t] = "failed" THEN excused \cup {t} ELSE excused
    /\ UNCHANGED <<task, start, callback, halting, bounds, reported>>

-----------------------------------------------------------------------------
(* The listener: deliver_task_review_handoff.                              *)

Deliver(t) ==
    /\ callback[t] > 0
    /\ callback' = [callback EXCEPT ![t] = @ - 1]
    /\ \/ HasTask(t) /\ Target[t] # NoTask /\ Reaches(Target[t], TRUE)
       \/ /\ HasTask(t) /\ Target[t] # NoTask => Refused(Target[t])
          /\ excused' = excused \cup ({Target[t]} \cap Tasks)
          /\ UNCHANGED <<run, status, opened>>
    /\ UNCHANGED <<agent, start, halting, bounds, reported>>

\* The subscription lags and the event is gone, or the dispatch fails.
Lose(t) ==
    /\ callback[t] > 0 /\ Fault
    /\ callback' = [callback EXCEPT ![t] = @ - 1]
    /\ \/ excused' = excused \cup ({Target[t]} \cap Tasks) /\ UNCHANGED <<run, status, opened>>
       \/ HasTask(t) /\ Target[t] # NoTask /\ Stalls(Target[t], TRUE)
    /\ UNCHANGED <<agent, start, halting, reported>>

-----------------------------------------------------------------------------
(* Users.                                                                  *)

\* A message in the thread of the task.
Message(t) ==
    /\ status[t] # "unborn" /\ Asks
    /\ \/ Reaches(t, FALSE) /\ UNCHANGED faults
       \/ Refused(t) /\ UNCHANGED <<excused, faults>>
       \/ (Stalls(t, FALSE) \/ Unwoken(t)) /\ Slips
    /\ UNCHANGED <<agent, start, callback, halting, reported>>

\* assign_task: no dispatch for an agent that claims the task itself.
Assign(t) ==
    /\ HasTask(t) /\ Unlocked(t) /\ Act
    /\ agent' = [agent EXCEPT ![t] = TRUE]
    /\ Set(t, IF status[t] = "todo" THEN "in_progress" ELSE status[t])
    /\ \/ start[t] = "none" /\ status'[t] = "in_progress"
          /\ start' = [start EXCEPT ![t] = "written"] /\ UNCHANGED excused
       \/ excused' = excused \cup {t} /\ UNCHANGED start
    /\ UNCHANGED <<run, callback, halting, reported>>

Unassign(t) ==
    /\ HasTask(t) /\ Unlocked(t) /\ Act
    /\ agent[t] /\ agent' = [agent EXCEPT ![t] = FALSE]
    /\ UNCHANGED <<status, opened, work, callback, halting, history>>

\* is_allowed_transition
Allowed ==
    {<<"todo", "in_progress">>, <<"in_progress", "todo">>, <<"in_progress", "in_review">>,
     <<"in_review", "in_progress">>, <<"in_review", "done">>, <<"done", "in_progress">>,
     <<"done", "todo">>}

UpdateStatus(t) ==
    /\ HasTask(t) /\ Unlocked(t) /\ Act
    /\ \E s \in Statuses, force \in BOOLEAN :
          /\ s # status[t] /\ (force \/ <<status[t], s>> \in Allowed)
          /\ Set(t, s)
          /\ excused' = excused \cup Leaves(t, s) \cup {t}
    /\ UNCHANGED <<agent, work, callback, halting, reported>>

\* stop_task and delete_task interrupt the thread first: its provider ends the
\* run, or the run is aborted ...
Halt(t) ==
    /\ HasTask(t) /\ halting[t] = "none" /\ Act
    /\ \E h \in {"stop", "delete"} : halting' = [halting EXCEPT ![t] = h]
    /\ \/ UNCHANGED <<run, excused>>
       \/ /\ run[t] = "working"
          /\ \E r \in {"answered", "failed"} : run' = [run EXCEPT ![t] = r]
          /\ UNCHANGED excused
       \/ /\ run[t] # "none"
          /\ run' = [run EXCEPT ![t] = "none"]
          /\ excused' = excused \cup {t} \cup Untold(t)
    /\ UNCHANGED <<task, start, callback, reported>>

\* ... and write then.
Halted(t) ==
    /\ halting[t] # "none" /\ Unlocked(t)
    /\ halting' = [halting EXCEPT ![t] = "none"]
    /\ IF HasTask(t)
       THEN LET s == CASE halting[t] = "delete" -> "deleted"
                       [] status[t] = "in_progress" -> "todo"
                       [] OTHER -> status[t] IN
            /\ Set(t, s)
            /\ excused' = excused \cup Leaves(t, s)
            /\ agent' = [agent EXCEPT ![t] = FALSE]
       ELSE UNCHANGED <<task, excused>>
    /\ UNCHANGED <<work, callback, bounds, reported>>

\* The gateway dies: runs, dispatches and events are gone, the records are not.
Restart ==
    /\ Fault
    /\ run' = [t \in Tasks |-> "none"] /\ start' = [t \in Tasks |-> "none"]
    /\ callback' = [t \in Tasks |-> 0] /\ halting' = [t \in Tasks |-> "none"]
    /\ excused' = Tasks
    /\ UNCHANGED <<task, reported>>

Next ==
    \/ \E t \in Tasks :
          \/ Create(t) \/ Spawn(t) \/ Unspawned(t) \/ AutoCheck(t) \/ AutoSend(t)
          \/ RunAnswers(t) \/ RunFails(t) \/ MarkReads(t) \/ MarkWrites(t) \/ MarkFails(t)
          \/ Emit(t) \/ Close(t)
          \/ Deliver(t) \/ Lose(t)
          \/ Message(t) \/ Assign(t) \/ Unassign(t) \/ UpdateStatus(t) \/ Halt(t) \/ Halted(t)
    \/ Restart

Spec == Init /\ [][Next]_vars
-----------------------------------------------------------------------------
(* Properties.                                                             *)

\* A thread reports each time that its task was taken up at most once, however
\* its runs, its callbacks and the requests of users interleave.
ReportedOnce == \A t \in Tasks : reported[t] <= opened[t]

\* What a run read under the lock of its task still holds when it writes.
LockHolds == \A t \in Tasks : run[t] = "reviewing" => status[t] = "in_progress"

\* The counters and the lock agree with the records.
TaskInvariant == TypeOK /\ ReportedOnce /\ LockHolds

\* A task that is in progress has somebody who takes it further: its own run, a
\* dispatch, or a subtask that runs or calls back.  What may leave it alone is a
\* run that failed or was stopped, a callback that got lost on the way, a request
\* or a dispatch that ended after the task was written and before its run was
\* there, a review that the store did not take, a user who moved a task by hand,
\* or a restart.
NotStranded ==
    \A t \in Running \ excused :
        \/ run[t] # "none" \/ start[t] # "none"
        \/ \E c \in Waiting(t) : status[c] = "in_progress" \/ callback[c] > 0 \/ run[c] = "reviewed"

\* A callback or a dispatch that arrives late does not reopen a task that is in
\* review or done; only a request of a user does.
NotReopened ==
    [][\A t \in Tasks :
          status[t] \in {"in_review", "done"} /\ status'[t] = "in_progress" => acts' = acts + 1]_vars
=============================================================================
