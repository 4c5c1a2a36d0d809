--------------------------- MODULE AutomationJobs ---------------------------
(***************************************************************************)
(* One scheduled job of the automation engine (garyx-gateway,              *)
(* automation/engine): the scheduler's tick and the requests that run it   *)
(* now claim it, dispatch its prompt and settle it, while users edit and   *)
(* delete it and the gateway dies and loads it again.                      *)
(*                                                                         *)
(* Jobs share the loop of the scheduler and nothing else.  The job runs a  *)
(* prompt; the thread that may be generated for a run, its association row *)
(* and the list of run records are written and never read by an executor,  *)
(* and are left out, as are jobs that the configuration file adds.         *)
(***************************************************************************)
EXTENDS Naturals, FiniteSets

CONSTANTS
    Kinds,          \* kinds of schedule the job may have
    Requests,       \* requests to run the job now, numbered as they arrive
    Editors,        \* requests that edit the job
    Deleters,       \* requests that delete it
    MaxTime,        \* bound on the clock
    MaxFaults       \* bound on dispatches that fail, dropped requests and restarts

ASSUME AutomationAssumption ==
    /\ Kinds \subseteq {"interval", "once", "once_deleted"}
    /\ Requests \subseteq Nat \ {0}
    /\ MaxTime \in Nat \ {0} /\ MaxFaults \in Nat

\* The loop of the scheduler is an executor, too.
tick == 0
Executors == Requests \cup {tick}

Gone == [status |-> "gone"]
Job == [enabled : BOOLEAN, valid : BOOLEAN, next : Nat,
        status : {"never", "running", "success", "failed"}]

VARIABLES
    kind,       \* the schedule, and whether the job is deleted after its run
    clock,
    job,        \* the job in memory, or Gone
    disk,       \* its file, or Gone
    active,     \* the run that its entry in active_agent_runs names: "none", "live", "dead" (over)
    run,        \* the run that an executor started and has not entered yet, likewise
    loose,      \* live runs of the job that no entry names and no executor will enter
    ready,      \* whether the provider runtime has started
    ex,         \* what an executor does, see Phases
    copy,       \* the job as an executor, or an editor, took it out of the lock
    want,       \* whether the job that an editor builds is enabled
    edit,       \* what an editor does: "new", "read", "applied", "done"
    remove,     \* what a deleter does: "new", "removed", "done"
    faults,
    fired,      \* history: how often the prompt of a one-shot job was dispatched
    chances,    \* history: how often the job was given a dispatch, see FiredOnce
    raced,      \* history: executors that were choosing while another one settled
    dropped,    \* history: a request was dropped while it held the claim
    misjudged,  \* history: a claimed job was settled as invalid
    lost        \* history: a live run lost its entry to a late clear, or to the entry of another run

\* An executor has nothing to do, has picked the job, found its last run to be
\* over, looks at the entry, saw no entry, holds the claim ("claimed" and has to
\* save it, "saved", "prepared", "started" and has to enter its run, "succeeded",
\* "failed"), deletes the file of a job that is done, or found the job invalid.  A request ends as "done".
Choosing == {"clearing", "looking", "claiming"}
Holding == {"claimed", "saved", "prepared", "started", "succeeded", "failed"}
Phases == {"idle", "picked", "finishing", "refusing", "done"} \cup Choosing \cup Holding

stored == <<job, disk>>
runs == <<active, run, loose>>
users == <<edit, want, remove>>
history == <<fired, chances, raced, dropped, misjudged, lost>>
vars == <<kind, clock, stored, runs, ready, ex, copy, users, faults, history>>

RunStates == {"none", "live", "dead"}

TypeOK ==
    /\ kind \in Kinds /\ clock \in 0 .. MaxTime
    /\ job \in Job \cup {Gone} /\ disk \in Job \cup {Gone}
    /\ active \in RunStates /\ run \in [Executors -> RunStates] /\ loose \in Nat
    /\ ready \in BOOLEAN
    /\ ex \in [Executors -> Phases]
    /\ copy \in [Executors \cup Editors -> Job \cup {Gone}]
    /\ want \in [Editors -> BOOLEAN]
    /\ edit \in [Editors -> {"new", "read", "applied", "done"}]
    /\ remove \in [Deleters -> {"new", "removed", "done"}]
    /\ faults \in 0 .. MaxFaults
    /\ fired \in Nat /\ chances \in Nat
    /\ raced \subseteq Executors
    /\ dropped \in BOOLEAN /\ misjudged \in BOOLEAN /\ lost \in BOOLEAN

\* The time of a one-shot job, and a time that never comes.
At == 1
Never == MaxTime + 1

\* A file that an older version wrote may hold a job that is not valid.
Init ==
    /\ kind \in Kinds /\ clock = 0
    /\ \E valid \in BOOLEAN :
          job = [enabled |-> TRUE, valid |-> valid, next |-> At, status |-> "never"]
    /\ disk = job
    /\ active = "none" /\ run = [e \in Executors |-> "none"] /\ loose = 0
    /\ ready = FALSE
    /\ ex = [e \in Executors |-> "idle"]
    /\ copy = [e \in Executors \cup Editors |-> Gone]
    /\ edit = [u \in Editors |-> "new"] /\ want = [u \in Editors |-> FALSE]
    /\ remove = [d \in Deleters |-> "new"]
    /\ faults = 0 /\ fired = 0 /\ chances = 1
    /\ raced = {} /\ dropped = FALSE /\ misjudged = FALSE /\ lost = FALSE

-----------------------------------------------------------------------------
(* The job.                                                                *)

\* compute_next_run
NextRun == IF kind = "interval" THEN clock + 1 ELSE At

IsDue == job # Gone /\ job.enabled /\ clock >= job.next

\* advance: a one-shot job disables itself.
Advanced(j) ==
    IF kind = "interval"
    THEN [j EXCEPT !.next = NextRun]
    ELSE [j EXCEPT !.enabled = FALSE, !.next = Never]

\* settle_after_run, and whether the job has to be deleted.
Settled(j, success) ==
    IF success THEN Advanced([j EXCEPT !.status = "success"])
    ELSE [j EXCEPT !.status = "failed"]

ShouldDelete(success) == kind = "once_deleted" /\ success

Fault == faults < MaxFaults /\ faults' = faults + 1

Goes(e, phase) == ex' = [ex EXCEPT ![e] = phase]

\* The tick goes on with its list, a request answers.
Ends(e) == Goes(e, IF e = tick THEN "idle" ELSE "done")

-----------------------------------------------------------------------------
(* Picking the job.  The tick does not look at the time again when it has  *)
(* come to the job in its list.                                            *)

Due ==
    /\ ex[tick] = "idle" /\ IsDue /\ job.valid
    /\ Goes(tick, "picked")
    /\ raced' = raced \ {tick}
    /\ UNCHANGED <<kind, clock, stored, runs, ready, copy, users, faults, fired, chances,
                   dropped, misjudged, lost>>

RunNow(r) ==
    /\ ex[r] = "idle" /\ \A s \in Requests : s < r => ex[s] # "idle"
    /\ CASE job = Gone -> Ends(r)
         [] job # Gone /\ ~job.valid -> Goes(r, "refusing")
         [] OTHER -> Goes(r, "picked")
    /\ UNCHANGED <<kind, clock, stored, runs, ready, copy, users, faults, history>>

\* The record of the refusal settles the job, whatever it has become.
Refuse(r) ==
    /\ ex[r] = "refusing"
    /\ IF job = Gone THEN UNCHANGED <<stored, chances, misjudged>>
       ELSE /\ job' = Settled(job, FALSE) /\ disk' = job'
            /\ misjudged' = (misjudged \/ job.status = "running")
            /\ chances' = IF job.status = "running" THEN chances + 1 ELSE chances
    /\ Ends(r)
    /\ UNCHANGED <<kind, clock, runs, ready, copy, users, faults, fired, raced, dropped, lost>>

-----------------------------------------------------------------------------
(* claim_job_for_execution.                                                *)

\* clear_inactive_agent_run reads the entry and asks the bridge ...
Look(e) ==
    /\ ex[e] = "picked"
    /\ CASE ~ready -> Ends(e)
         [] ready /\ active = "dead" -> Goes(e, "clearing")
         [] OTHER -> Goes(e, "looking")
    /\ UNCHANGED <<kind, clock, stored, runs, ready, copy, users, faults, history>>

\* ... and removes whatever the entry of the job is by then.
Named == IF active = "live" THEN 1 ELSE 0

Clear_Skipped(e) ==
    /\ ex[e] = "clearing" /\ Goes(e, "looking")
    /\ UNCHANGED <<kind, clock, stored, runs, ready, copy, users, faults, history>>

Clear(e) ==
    /\ ex[e] = "clearing" /\ Goes(e, "looking")
    /\ active' = "none" /\ loose' = loose + Named
    /\ lost' = (lost \/ active = "live")
    /\ UNCHANGED <<kind, clock, stored, run, ready, copy, users, faults, fired, chances, raced,
                   dropped, misjudged>>

SeeActive_Ignored(e) ==
    /\ ex[e] = "looking" /\ Goes(e, "claiming")
    /\ UNCHANGED <<kind, clock, stored, runs, ready, copy, users, faults, history>>

SeeActive(e) ==
    /\ ex[e] = "looking"
    /\ IF active # "none" THEN Ends(e) /\ raced' = raced \ {e}
       ELSE Goes(e, "claiming") /\ UNCHANGED raced
    /\ UNCHANGED <<kind, clock, stored, runs, ready, copy, users, faults, fired, chances,
                   dropped, misjudged, lost>>

Claimable_Anytime == job # Gone /\ job.valid /\ job.enabled

Claimable == job # Gone /\ job.valid /\ job.enabled /\ job.status # "running"

Claim(e) ==
    /\ ex[e] = "claiming"
    /\ IF Claimable
       THEN /\ job' = [job EXCEPT !.status = "running"]
            /\ copy' = [copy EXCEPT ![e] = job']
            /\ Goes(e, "claimed")
       ELSE Ends(e) /\ UNCHANGED <<job, copy>>
    /\ raced' = IF Claimable THEN raced ELSE raced \ {e}
    /\ UNCHANGED <<kind, clock, disk, runs, ready, users, faults, fired, chances,
                   dropped, misjudged, lost>>

\* The claim is saved after the lock is gone.
SaveClaim(e) ==
    /\ ex[e] = "claimed" /\ Goes(e, "saved")
    /\ disk' = copy[e]
    /\ copy' = [copy EXCEPT ![e] = Gone]
    /\ UNCHANGED <<kind, clock, job, runs, ready, users, faults, history>>

-----------------------------------------------------------------------------
(* Execution.                                                              *)

\* prepare_job_for_execution: the job may be gone, or its thread not be made.
Prepare(e) ==
    /\ ex[e] = "saved"
    /\ \/ job # Gone /\ Goes(e, "prepared") /\ UNCHANGED faults
       \/ job = Gone /\ Goes(e, "failed") /\ UNCHANGED faults
       \/ job # Gone /\ Goes(e, "failed") /\ Fault
    /\ UNCHANGED <<kind, clock, stored, runs, ready, copy, users, history>>

\* dispatch_agent_turn: a run takes the prompt, or there is none ...
Dispatch(e) ==
    /\ ex[e] = "prepared"
    /\ \/ /\ Goes(e, "started")
          /\ run' = [run EXCEPT ![e] = "live"]
          /\ fired' = IF kind = "interval" THEN fired ELSE fired + 1
          /\ UNCHANGED faults
       \/ Goes(e, "failed") /\ Fault /\ UNCHANGED <<run, fired>>
    /\ raced' = raced \ {e}
    /\ UNCHANGED <<kind, clock, stored, active, loose, ready, copy, users, chances, dropped,
                   misjudged, lost>>

\* ... and is entered under the lock of the entries, whatever was there.
Enter(e) ==
    /\ ex[e] = "started" /\ Goes(e, "succeeded")
    /\ active' = run[e] /\ run' = [run EXCEPT ![e] = "none"]
    /\ loose' = loose + Named
    /\ lost' = (lost \/ active = "live")
    /\ UNCHANGED <<kind, clock, stored, ready, copy, users, faults, fired, chances, raced,
                   dropped, misjudged>>

\* The lock is held over the save, not over the removal of the file.
Settle(e) ==
    /\ ex[e] \in {"succeeded", "failed"}
    /\ LET success == ex[e] = "succeeded"
           delete == job # Gone /\ ShouldDelete(success) IN
       /\ CASE job = Gone -> UNCHANGED stored
            [] delete -> job' = Gone /\ UNCHANGED disk
            [] OTHER -> job' = Settled(job, success) /\ disk' = job'
       /\ IF delete THEN Goes(e, "finishing") ELSE Ends(e)
    /\ raced' = raced \cup {x \in Executors : ex[x] \in Choosing}
    /\ UNCHANGED <<kind, clock, runs, ready, copy, users, faults, fired, chances,
                   dropped, misjudged, lost>>

DeleteFinished(e) ==
    /\ ex[e] = "finishing" /\ Ends(e)
    /\ disk' = Gone
    /\ UNCHANGED <<kind, clock, job, runs, ready, copy, users, faults, history>>

\* The client hangs up and the handler of its request is dropped.
Drop(r) ==
    /\ ex[r] \in Phases \ {"idle", "done"} /\ Fault
    /\ Goes(r, "done")
    /\ copy' = [copy EXCEPT ![r] = Gone]
    /\ dropped' = (dropped \/ ex[r] \in Holding)
    /\ raced' = raced \ {r}
    /\ run' = [run EXCEPT ![r] = "none"]
    /\ loose' = IF run[r] = "live" THEN loose + 1 ELSE loose
    /\ UNCHANGED <<kind, clock, stored, active, ready, users, fired, chances,
                   misjudged, lost>>

-----------------------------------------------------------------------------
(* Users.                                                                  *)

\* update_automation reads the job and builds the new one from it ...
EditReads(u) ==
    /\ edit[u] = "new"
    /\ IF job = Gone THEN edit' = [edit EXCEPT ![u] = "done"] /\ UNCHANGED want
       ELSE /\ edit' = [edit EXCEPT ![u] = "read"]
            /\ \E enabled \in {job.enabled, TRUE, FALSE} : want' = [want EXCEPT ![u] = enabled]
    /\ UNCHANGED <<kind, clock, stored, runs, ready, ex, copy, remove, faults, history>>

\* ... update writes its fields over those of the job ...
EditApplies(u) ==
    /\ edit[u] = "read"
    /\ want' = [want EXCEPT ![u] = FALSE]
    /\ IF job = Gone
       THEN edit' = [edit EXCEPT ![u] = "done"] /\ UNCHANGED <<job, copy, chances>>
       ELSE /\ edit' = [edit EXCEPT ![u] = "applied"]
            /\ job' = [job EXCEPT !.enabled = want[u], !.valid = TRUE, !.next = NextRun]
            /\ copy' = [copy EXCEPT ![u] = job']
            /\ chances' = IF want[u] THEN chances + 1 ELSE chances
    /\ UNCHANGED <<kind, clock, disk, runs, ready, ex, remove, faults, fired, raced, dropped,
                   misjudged, lost>>

\* ... and saves what it wrote when the lock is gone.
EditSaves(u) ==
    /\ edit[u] = "applied"
    /\ edit' = [edit EXCEPT ![u] = "done"]
    /\ disk' = copy[u]
    /\ copy' = [copy EXCEPT ![u] = Gone]
    /\ UNCHANGED <<kind, clock, job, runs, ready, ex, want, remove, faults, history>>

Delete(d) ==
    /\ remove[d] = "new" /\ job # Gone
    /\ remove' = [remove EXCEPT ![d] = "removed"]
    /\ job' = Gone
    /\ active' = "none" /\ loose' = loose + Named
    /\ UNCHANGED <<kind, clock, disk, run, ready, ex, copy, edit, want, faults, history>>

DeleteFile(d) ==
    /\ remove[d] = "removed"
    /\ remove' = [remove EXCEPT ![d] = "done"]
    /\ disk' = Gone
    /\ UNCHANGED <<kind, clock, job, runs, ready, ex, copy, edit, want, faults, history>>

-----------------------------------------------------------------------------
(* The world.                                                              *)

RunEnds ==
    /\ \/ active = "live" /\ active' = "dead" /\ UNCHANGED <<run, loose>>
       \/ \E e \in Executors :
             run[e] = "live" /\ run' = [run EXCEPT ![e] = "dead"] /\ UNCHANGED <<active, loose>>
       \/ loose > 0 /\ loose' = loose - 1 /\ UNCHANGED <<active, run>>
    /\ UNCHANGED <<kind, clock, stored, ready, ex, copy, users, faults, history>>

Ready ==
    /\ ~ready /\ ready' = TRUE
    /\ UNCHANGED <<kind, clock, stored, runs, ex, copy, users, faults, history>>

\* Only the time of a one-shot job matters to it.
Time ==
    /\ clock < (IF kind = "interval" THEN MaxTime ELSE At) /\ clock' = clock + 1
    /\ UNCHANGED <<kind, stored, runs, ready, ex, copy, users, faults, history>>

\* load: a claim that the last process left in the file is a failure.
Loaded_Unreset(j) == j

Loaded(j) == IF j # Gone /\ j.status = "running" THEN [j EXCEPT !.status = "failed"] ELSE j

\* The gateway dies, and every request with it.
Restart ==
    /\ Fault
    /\ job' = Loaded(disk) /\ disk' = job'
    /\ active' = "none" /\ run' = [e \in Executors |-> "none"] /\ loose' = 0
    /\ ready' = FALSE
    /\ ex' = [e \in Executors |-> IF e = tick \/ ex[e] = "idle" THEN "idle" ELSE "done"]
    /\ copy' = [e \in DOMAIN copy |-> Gone]
    /\ edit' = [u \in Editors |-> IF edit[u] = "new" THEN "new" ELSE "done"]
    /\ want' = [u \in Editors |-> FALSE]
    /\ remove' = [d \in Deleters |-> IF remove[d] = "new" THEN "new" ELSE "done"]
    /\ chances' = chances + 1
    /\ raced' = {} /\ dropped' = FALSE /\ misjudged' = FALSE /\ lost' = FALSE
    /\ UNCHANGED <<kind, clock, fired>>

Execute(e) ==
    \/ Look(e) \/ Clear(e) \/ SeeActive(e) \/ Claim(e) \/ SaveClaim(e) \/ Prepare(e)
    \/ Dispatch(e) \/ Enter(e) \/ Settle(e) \/ DeleteFinished(e)

Next ==
    \/ Due
    \/ \E e \in Executors : Execute(e)
    \/ \E r \in Requests : RunNow(r) \/ Refuse(r) \/ Drop(r)
    \/ \E u \in Editors : EditReads(u) \/ EditApplies(u) \/ EditSaves(u)
    \/ \E d \in Deleters : Delete(d) \/ DeleteFile(d)
    \/ RunEnds \/ Ready \/ Time \/ Restart

\* The loop ticks, a request that was begun goes on, a run ends, the runtime starts.
Fairness ==
    /\ WF_vars(Due) /\ WF_vars(RunEnds) /\ WF_vars(Ready)
    /\ \A e \in Executors : WF_vars(Execute(e))

Spec == Init /\ [][Next]_vars /\ Fairness
-----------------------------------------------------------------------------
(* Properties.                                                             *)

Holders == {e \in Executors : ex[e] \in Holding}

\* The scheduler and the requests never execute the job at the same time, except
\* when one of them settled a claimed job that it had found invalid before.
OneExecutor == misjudged \/ \A e, f \in Holders : e = f

\* A job is marked as running exactly while somebody executes it; only a request
\* that was dropped leaves the mark behind, and a restart takes it away.
RunningIsHeld ==
    job # Gone =>
        /\ job.status = "running" => Holders # {} \/ dropped
        /\ Holders # {} => job.status = "running" \/ misjudged

\* A one-shot job is dispatched once for each chance it was given: when it was
\* made, by an edit that leaves it enabled, by a restart that may find it not
\* settled, and by a request that settles it as invalid while it is executed.
\* What is not spent is with the job, or with an executor that may dispatch it.
Chance == IF job # Gone /\ job.enabled /\ job.status # "running" THEN 1 ELSE 0

Spending == {e \in Executors : ex[e] \in {"claimed", "saved", "prepared", "failed"}}

FiredOnce == kind # "interval" => fired + Chance + Cardinality(Spending) <= chances

\* Whoever claims or dispatches the job has seen that its entry names no live run,
\* unless it was choosing when the executor before it settled.
SawNoRun ==
    ~misjudged =>
        \A e \in Executors \ raced :
            /\ ex[e] = "claiming" => active # "live" \/ job = Gone \/ job.status = "running"
            /\ ex[e] \in {"claimed", "saved", "prepared"} => active # "live"

\* The claim excludes, is visible, and spends a one-shot job.
AutomationInvariant == TypeOK /\ OneExecutor /\ RunningIsHeld /\ FiredOnce /\ SawNoRun

\* The job is not dispatched while a run it was dispatched to before is live, entered
\* or not, unless the executor was choosing when the one before it settled; a live run
\* that its entry no longer names stops nobody once a late clear, or the entry of
\* another run, took that entry away.  A deletion, or a request that is dropped before
\* it enters its run, leaves a live run without an entry, but no way to dispatch again.
NoOverlap ==
    [][\A e \in Executors :
          ex[e] = "prepared" /\ ex'[e] = "started" =>
              \/ e \in raced \/ misjudged
              \/ /\ active # "live" /\ \A f \in Executors : run[f] # "live"
                 /\ loose = 0 \/ lost]_vars

\* A job that is due, enabled and valid is run, unless a dropped request has left
\* its claim behind.
DueFires == IsDue /\ job.valid ~> (~(IsDue /\ job.valid) \/ dropped)
=============================================================================
