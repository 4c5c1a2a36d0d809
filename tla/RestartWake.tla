---------------------------- MODULE RestartWake ----------------------------
(***************************************************************************)
(* The wake of the threads that a restart interrupted                      *)
(* (garyx-gateway/restart_wake.rs): a file lists them in order, a drain    *)
(* claims the file by renaming it, dispatches to one thread after another, *)
(* and writes after each what remains.                                     *)
(*                                                                         *)
(* The drains of one process are the one of its start and those that an    *)
(* overloaded bridge made it put off; the wakes of other restarts start    *)
(* drains, too.  What is left of a list is always an end of it, so a file  *)
(* is given by the number of its first thread.  A write goes to another    *)
(* file that is renamed then, and is one step.                             *)
(*                                                                         *)
(* Names that TaskReview has as well begin with Wake here, so that one     *)
(* module can extend both.                                                 *)
(***************************************************************************)
EXTENDS Naturals, FiniteSets

CONSTANTS
    N,              \* how many threads are to be woken
    Drains,         \* drains that may be at work at the same time
    MaxAttempts,    \* MAX_RESTART_WAKE_ALL_ATTEMPTS
    MaxDeaths,      \* bound on the deaths of the gateway
    MaxAges         \* bound on how often a claim becomes stale, and on drains of others

ASSUME WakeAssumption ==
    /\ N \in Nat \ {0} /\ IsFiniteSet(Drains)
    /\ MaxAttempts \in Nat /\ MaxDeaths \in Nat /\ MaxAges \in Nat

Targets == 1 .. N

NoFile == [from |-> 0, attempt |-> 0]
Wake == [from : 1 .. N + 1, attempt : 0 .. MaxAttempts]

Remaining(w) == IF w = NoFile THEN {} ELSE w.from .. N

VARIABLES
    fresh,          \* <id>.json, or NoFile
    processing,     \* <id>.processing.json, or NoFile
    old,            \* whether the claim, if there is one, counts as stale
    failed,         \* the threads that <id>.failed.json lists
    first,          \* the first drain of the process: "due", "begun", "skipped"
    pc,             \* what a drain does
    wake,           \* the list as a drain goes through it
    failures,       \* the threads whose dispatch it saw refused
    delayed,        \* drains that sleep
    deaths, ages,
    sent,           \* history: how often a thread was dispatched to, 2 for more than once
    givenUp,        \* history: threads that were refused or written to the failed file
    recovered       \* history: whether a claim was taken for stale

files == <<fresh, processing, old, failed>>
drains == <<first, pc, wake, failures, delayed>>
limits == <<deaths, ages>>
woken == <<sent, givenUp, recovered>>
wakeVars == <<files, drains, limits, woken>>

WakeTypeOK ==
    /\ fresh \in Wake \cup {NoFile} /\ processing \in Wake \cup {NoFile}
    /\ old \in BOOLEAN /\ failed \subseteq Targets
    /\ first \in {"due", "begun", "skipped"}
    /\ pc \in [Drains -> {"idle", "listing", "claiming", "reading", "sending", "sent",
                          "overloaded", "requeueing", "ending", "broken"}]
    /\ wake \in [Drains -> Wake \cup {NoFile}]
    /\ failures \in [Drains -> SUBSET Targets]
    /\ delayed \in Nat
    /\ deaths \in 0 .. MaxDeaths /\ ages \in 0 .. MaxAges
    /\ sent \in [Targets -> 0 .. 2] /\ givenUp \subseteq Targets /\ recovered \in BOOLEAN

\* The command that restarts the gateway has written the file.
WakeInit ==
    /\ fresh = [from |-> 1, attempt |-> 0] /\ processing = NoFile
    /\ old = FALSE /\ failed = {}
    /\ first = "due"
    /\ pc = [d \in Drains |-> "idle"] /\ wake = [d \in Drains |-> NoFile]
    /\ failures = [d \in Drains |-> {}]
    /\ delayed = 0 /\ deaths = 0 /\ ages = 0
    /\ sent = [t \in Targets |-> 0] /\ givenUp = {} /\ recovered = FALSE

Goes(d, step) == pc' = [pc EXCEPT ![d] = step]

\* A drain goes on with another file, and is of no interest any more.
LeavesFile(d) ==
    /\ Goes(d, "idle")
    /\ wake' = [wake EXCEPT ![d] = NoFile] /\ failures' = [failures EXCEPT ![d] = {}]

Breaks(d) == Goes(d, "broken") /\ UNCHANGED <<wake, failures>>

Saves(w) == processing' = w /\ old' = FALSE

-----------------------------------------------------------------------------
(* The start of a drain.                                                   *)

Startup(d) ==
    /\ first = "due" /\ first' = "begun"
    /\ pc[d] = "idle" /\ Goes(d, "listing")
    /\ UNCHANGED <<files, wake, failures, delayed, limits, woken>>

\* The provider runtime could not be started.
Skip ==
    /\ first = "due" /\ first' = "skipped"
    /\ UNCHANGED <<files, pc, wake, failures, delayed, limits, woken>>

\* The sleep of a delayed drain is over.
Delayed(d) ==
    /\ delayed > 0 /\ delayed' = delayed - 1
    /\ pc[d] = "idle" /\ Goes(d, "listing")
    /\ UNCHANGED <<files, first, wake, failures, limits, woken>>

\* Another wake, that was put off, starts one.
OtherDrain(d) ==
    /\ first = "begun" /\ ages < MaxAges /\ ages' = ages + 1
    /\ pc[d] = "idle" /\ Goes(d, "listing")
    /\ UNCHANGED <<files, first, wake, failures, delayed, deaths, woken>>

\* recover_stale_processing_wakes, and then the directory is listed.
Stale == processing # NoFile /\ old /\ fresh = NoFile

List(d) ==
    /\ pc[d] = "listing"
    /\ IF Stale
       THEN /\ fresh' = processing /\ processing' = NoFile
            /\ recovered' = TRUE
       ELSE UNCHANGED <<fresh, processing, recovered>>
    /\ Goes(d, IF fresh' # NoFile THEN "claiming" ELSE "idle")
    /\ UNCHANGED <<old, failed, first, wake, failures, delayed, limits, sent, givenUp>>

-----------------------------------------------------------------------------
(* drain_pending_restart_wake_file.                                        *)

\* A file that is not there any more was claimed by another drain.
Claim(d) ==
    /\ pc[d] = "claiming"
    /\ IF fresh = NoFile
       THEN Goes(d, "idle") /\ UNCHANGED <<fresh, processing>>
       ELSE /\ processing' = fresh /\ fresh' = NoFile
            /\ Goes(d, "reading")
    /\ UNCHANGED <<old, failed, first, wake, failures, delayed, limits, woken>>

\* An empty list is removed, another one is written back at once.
Read(d) ==
    /\ pc[d] = "reading"
    /\ CASE processing = NoFile -> Breaks(d) /\ UNCHANGED <<processing, old>>
         [] processing # NoFile /\ Remaining(processing) = {} ->
              LeavesFile(d) /\ processing' = NoFile /\ UNCHANGED old
         [] OTHER ->
              /\ wake' = [wake EXCEPT ![d] = processing]
              /\ Saves(processing)
              /\ Goes(d, "sending") /\ UNCHANGED failures
    /\ UNCHANGED <<fresh, failed, first, delayed, limits, woken>>

-----------------------------------------------------------------------------
(* drain_pending_restart_wake_all_file.                                    *)

\* dispatch_restart_wake_to_thread
Send(d) ==
    /\ pc[d] = "sending"
    /\ LET t == wake[d].from IN
       \/ /\ sent' = [sent EXCEPT ![t] = IF @ = 2 THEN 2 ELSE @ + 1]
          /\ Goes(d, "sent") /\ UNCHANGED <<failures, givenUp>>
       \/ /\ failures' = [failures EXCEPT ![d] = @ \cup {t}]
          /\ givenUp' = givenUp \cup {t}
          /\ Goes(d, "sent") /\ UNCHANGED sent
       \/ Goes(d, "overloaded") /\ UNCHANGED <<failures, sent, givenUp>>
    /\ UNCHANGED <<files, first, wake, delayed, limits, recovered>>

\* wake_for_remaining_targets after the target, and for another attempt at it.
Rest(w) == [w EXCEPT !.from = @ + 1]

Again_Skips(w) == [from |-> w.from + 1, attempt |-> w.attempt + 1]

Again(w) == [w EXCEPT !.attempt = @ + 1]

Persist(d) ==
    /\ pc[d] = "sent"
    /\ wake' = [wake EXCEPT ![d] = Rest(wake[d])]
    /\ Saves(wake'[d])
    /\ Goes(d, IF Remaining(wake'[d]) = {} THEN "ending" ELSE "sending")
    /\ UNCHANGED <<fresh, failed, first, failures, delayed, limits, woken>>

\* write_wake_all_failures: it writes over what an attempt before it wrote.
Fails(ts) ==
    /\ failed' = IF ts = {} THEN failed ELSE ts
    /\ givenUp' = givenUp \cup ts

\* The file of the claim is removed, if it is still there.
Removes(d) ==
    IF processing = NoFile THEN Breaks(d) /\ UNCHANGED processing
    ELSE LeavesFile(d) /\ processing' = NoFile

End(d) ==
    /\ pc[d] = "ending"
    /\ Fails(failures[d]) /\ Removes(d)
    /\ UNCHANGED <<fresh, old, first, delayed, limits, sent, recovered>>

Overloaded(d) ==
    /\ pc[d] = "overloaded"
    /\ IF wake[d].attempt >= MaxAttempts
       THEN /\ Fails(failures[d] \cup Remaining(wake[d])) /\ Removes(d)
            /\ UNCHANGED old
       ELSE /\ Fails(failures[d])
            /\ Saves(Again(wake[d]))
            /\ Goes(d, "requeueing") /\ UNCHANGED <<wake, failures>>
    /\ UNCHANGED <<fresh, first, delayed, limits, sent, recovered>>

Requeue_Unscheduled(d) ==
    /\ pc[d] = "requeueing"
    /\ IF processing = NoFile
       THEN Breaks(d) /\ UNCHANGED <<fresh, processing>>
       ELSE fresh' = processing /\ processing' = NoFile /\ LeavesFile(d)
    /\ UNCHANGED <<old, failed, first, delayed, limits, woken>>

\* ... and schedule_delayed_restart_wake_drain
Requeue(d) ==
    /\ pc[d] = "requeueing"
    /\ IF processing = NoFile
       THEN Breaks(d) /\ UNCHANGED <<fresh, processing, delayed>>
       ELSE /\ fresh' = processing /\ processing' = NoFile
            /\ delayed' = delayed + 1
            /\ LeavesFile(d)
    /\ UNCHANGED <<old, failed, first, limits, woken>>

\* move_pending_wake_to_failed, whoever put the file there.
MoveToFailed(d) ==
    /\ pc[d] = "broken" /\ LeavesFile(d)
    /\ LET w == IF fresh # NoFile THEN fresh ELSE processing IN
       /\ failed' = IF w = NoFile THEN failed ELSE Remaining(w)
       /\ givenUp' = givenUp \cup Remaining(w)
    /\ fresh' = NoFile
    /\ processing' = IF fresh # NoFile THEN processing ELSE NoFile
    /\ UNCHANGED <<old, first, delayed, limits, sent, recovered>>

-----------------------------------------------------------------------------
(* The world.                                                              *)

\* The file was not written for STALE_PROCESSING_WAKE_AGE.
Age ==
    /\ ~old /\ old' = TRUE
    /\ ages < MaxAges /\ ages' = ages + 1
    /\ UNCHANGED <<fresh, processing, failed, drains, deaths, woken>>

\* The gateway dies and starts again.
GatewayDies ==
    /\ deaths < MaxDeaths /\ deaths' = deaths + 1
    /\ first' = "due" /\ delayed' = 0
    /\ pc' = [d \in Drains |-> "idle"] /\ wake' = [d \in Drains |-> NoFile]
    /\ failures' = [d \in Drains |-> {}]
    /\ UNCHANGED <<files, ages, woken>>

Drain(d) ==
    \/ List(d) \/ Claim(d) \/ Read(d) \/ Send(d) \/ Persist(d) \/ End(d) \/ Overloaded(d)
    \/ Requeue(d) \/ MoveToFailed(d)

WakeNext ==
    \/ \E d \in Drains : Startup(d) \/ Delayed(d) \/ OtherDrain(d) \/ Drain(d)
    \/ Skip \/ Age \/ GatewayDies

\* A process begins its first drain and wakes those that sleep, a drain goes on,
\* and a dispatch comes back.
WakeFairness ==
    /\ WF_wakeVars(\E d \in Drains : Startup(d)) /\ WF_wakeVars(\E d \in Drains : Delayed(d))
    /\ \A d \in Drains : WF_wakeVars(Drain(d))

WakeSpec == WakeInit /\ [][WakeNext]_wakeVars /\ WakeFairness
-----------------------------------------------------------------------------
(* Properties.                                                             *)

\* No thread is lost, wherever the gateway dies and however drains overlap: it
\* was dispatched to, given up, or is still listed in a file.
NothingLost ==
    \A t \in Targets :
        sent[t] > 0 \/ t \in givenUp \cup Remaining(fresh) \cup Remaining(processing)

\* However often the bridge is overloaded and the gateway dies, a thread is woken
\* at most once, as long as no claim is taken for stale because its process died
\* or its drain was slow.
SentOnce == ~recovered => \A t \in Targets : sent[t] <= 1

\* What the files and the drains agree on.
WakeInvariant == WakeTypeOK /\ NothingLost /\ SentOnce

\* A file that waits is claimed in the end, by the first drain of the process or
\* by the one that was put off with it, unless the process skipped its first drain.
Drained == fresh # NoFile ~> (fresh = NoFile \/ first = "skipped")
=============================================================================
