---------------------------- MODULE Waking_proof ----------------------------
(***************************************************************************)
(* Theorems of the two components that wake threads: TaskReview, whose     *)
(* callbacks wake the thread that waits for a task, for any tasks, wiring  *)
(* of the tasks, requests of users, failed runs, lost events and restarts; *)
(* and RestartWake, which wakes the threads that a restart interrupted,    *)
(* for any number of threads, drains, attempts, deaths of the gateway and  *)
(* stale claims.                                                           *)
(***************************************************************************)
EXTENDS TaskReview, RestartWake, TLAPS

-----------------------------------------------------------------------------
(* Tasks, runs and reviews. *)

USE TaskAssumption

States == Statuses \cup {"unborn", "deleted"}

LEMMA InitTypeOK == Init => TypeOK
  BY DEF Init, TypeOK, Statuses, Runs

LEMMA SetType ==
  ASSUME TypeOK, NEW t \in Tasks, NEW s \in States, Set(t, s)
  PROVE  status' \in [Tasks -> States] /\ opened' \in [Tasks -> Nat]
<1>1. status' \in [Tasks -> States]
  BY DEF TypeOK, States, Set
<1>2. opened' \in [Tasks -> Nat]
  BY DEF TypeOK, Set
<1> QED BY <1>1, <1>2

LEMMA ReachesType ==
  ASSUME TypeOK, NEW t \in Tasks, NEW internal \in BOOLEAN, Reaches(t, internal)
  PROVE  /\ run' \in [Tasks -> Runs]
         /\ status' \in [Tasks -> States] /\ opened' \in [Tasks -> Nat]
         /\ excused' \subseteq Tasks
<1>1. run' \in [Tasks -> Runs]
  BY DEF TypeOK, Reaches, Runs
<1>2. status' \in [Tasks -> States] /\ opened' \in [Tasks -> Nat]
  BY SetType DEF TypeOK, Reaches, States, Statuses
<1>3. excused' \subseteq Tasks
  BY DEF TypeOK, Reaches, Untold
<1> QED BY <1>1, <1>2, <1>3

LEMMA StallsType ==
  ASSUME TypeOK, NEW t \in Tasks, NEW internal \in BOOLEAN, Stalls(t, internal)
  PROVE  /\ run' \in [Tasks -> Runs]
         /\ status' \in [Tasks -> States] /\ opened' \in [Tasks -> Nat]
         /\ excused' \subseteq Tasks
<1>1. run' \in [Tasks -> Runs]
  BY DEF TypeOK, Stalls, Runs
<1>2. ASSUME UNCHANGED <<status, opened>>
      PROVE  status' \in [Tasks -> States] /\ opened' \in [Tasks -> Nat]
  BY <1>2 DEF TypeOK, States
<1>3. ASSUME Set(t, "in_progress")
      PROVE  status' \in [Tasks -> States] /\ opened' \in [Tasks -> Nat]
  BY <1>3, SetType DEF States, Statuses
<1>4. excused' \subseteq Tasks
  BY DEF TypeOK, Stalls, Untold
<1> QED BY <1>1, <1>2, <1>3, <1>4 DEF Stalls

LEMMA UnwokenType ==
  ASSUME TypeOK, NEW t \in Tasks, Unwoken(t)
  PROVE  /\ run' \in [Tasks -> Runs]
         /\ status' \in [Tasks -> States] /\ opened' \in [Tasks -> Nat]
         /\ excused' \subseteq Tasks
<1>1. run' \in [Tasks -> Runs]
  BY DEF TypeOK, Unwoken, Runs
<1>2. excused' \subseteq Tasks
  BY DEF TypeOK, Unwoken, Untold
<1> QED BY <1>1, <1>2 DEF TypeOK, Unwoken, States

LEMMA AskType ==
  ASSUME TypeOK
  PROVE  /\ Asks => acts' \in 0 .. MaxActs
         /\ Slips => faults' \in 0 .. MaxFaults
  BY DEF TypeOK, Asks, Slips

\* TypeOK is inductive, one step per action.
LEMMA StepTypeOK == TypeOK /\ [Next]_vars => TypeOK'
<1> SUFFICES ASSUME TypeOK, [Next]_vars PROVE TypeOK'
  OBVIOUS
<1> USE DEF task, work, history, bounds
<1>1. ASSUME NEW t \in Tasks, Create(t) PROVE TypeOK'
  <2>1. status' \in [Tasks -> States] /\ opened' \in [Tasks -> Nat]
    BY <1>1, SetType DEF Create, States, Statuses
  <2> QED BY <1>1, <2>1 DEF TypeOK, Create, States
<1>2. ASSUME NEW t \in Tasks, Spawn(t) \/ Unspawned(t) \/ AutoCheck(t) PROVE TypeOK'
  <2>1. start' \in [Tasks -> {"none", "written", "spawned", "checked"}] /\ excused' \subseteq Tasks
    BY <1>2 DEF TypeOK, Spawn, Unspawned, AutoCheck
  <2>2. acts' \in 0 .. MaxActs /\ faults' \in 0 .. MaxFaults
    BY <1>2, AskType DEF TypeOK, Spawn, Unspawned, AutoCheck, Fault
  <2> QED BY <1>2, <2>1, <2>2 DEF TypeOK, Spawn, Unspawned, AutoCheck
<1>3. ASSUME NEW t \in Tasks, AutoSend(t) PROVE TypeOK'
  <2>1. /\ run' \in [Tasks -> Runs] /\ status' \in [Tasks -> States]
        /\ opened' \in [Tasks -> Nat] /\ excused' \subseteq Tasks
    BY <1>3, ReachesType, StallsType DEF TypeOK, AutoSend, Refused, States
  <2>2. acts' \in 0 .. MaxActs /\ faults' \in 0 .. MaxFaults
    BY <1>3, AskType DEF TypeOK, AutoSend, Fault
  <2> QED BY <1>3, <2>1, <2>2 DEF TypeOK, AutoSend, States
<1>4. ASSUME NEW t \in Tasks, RunAnswers(t) \/ RunFails(t) \/ MarkReads(t) \/ MarkFails(t)
      PROVE  TypeOK'
  <2>1. run' \in [Tasks -> Runs] /\ excused' \subseteq Tasks
    BY <1>4 DEF TypeOK, RunAnswers, RunFails, MarkReads, MarkFails, Runs
  <2>2. acts' \in 0 .. MaxActs /\ faults' \in 0 .. MaxFaults
    BY <1>4, AskType DEF TypeOK, RunAnswers, RunFails, MarkReads, MarkFails, Fault
  <2> QED BY <1>4, <2>1, <2>2 DEF TypeOK, RunAnswers, RunFails, MarkReads, MarkFails
<1>5. ASSUME NEW t \in Tasks, MarkWrites(t) PROVE TypeOK'
  <2>1. status' \in [Tasks -> States] /\ opened' \in [Tasks -> Nat]
    BY <1>5, SetType DEF MarkWrites, States, Statuses
  <2> QED BY <1>5, <2>1 DEF TypeOK, MarkWrites, States, Runs
<1>6. ASSUME NEW t \in Tasks, Emit(t) \/ Close(t) PROVE TypeOK'
  BY <1>6 DEF TypeOK, Emit, Close, Runs
<1>7. ASSUME NEW t \in Tasks, Deliver(t) PROVE TypeOK'
  <2>1. callback' \in [Tasks -> Nat]
    BY <1>7 DEF TypeOK, Deliver
  <2>2. Target[t] # NoTask => Target[t] \in Tasks
    OBVIOUS
  <2>3. /\ run' \in [Tasks -> Runs] /\ status' \in [Tasks -> States]
        /\ opened' \in [Tasks -> Nat] /\ excused' \subseteq Tasks
    BY <1>7, <2>2, ReachesType DEF TypeOK, Deliver, States
  <2> QED BY <1>7, <2>1, <2>3 DEF TypeOK, Deliver, States
<1>8. ASSUME NEW t \in Tasks, Lose(t) PROVE TypeOK'
  <2>1. callback' \in [Tasks -> Nat]
    BY <1>8 DEF TypeOK, Lose
  <2>2. Target[t] # NoTask => Target[t] \in Tasks
    OBVIOUS
  <2>3. /\ run' \in [Tasks -> Runs] /\ status' \in [Tasks -> States]
        /\ opened' \in [Tasks -> Nat] /\ excused' \subseteq Tasks
    BY <1>8, <2>2, StallsType DEF TypeOK, Lose, States
  <2>4. faults' \in 0 .. MaxFaults /\ acts' = acts
    BY <1>8, AskType DEF Lose, Fault
  <2> QED BY <1>8, <2>1, <2>3, <2>4 DEF TypeOK, Lose, States
<1>9. ASSUME NEW t \in Tasks, Message(t) PROVE TypeOK'
  <2>1. /\ run' \in [Tasks -> Runs] /\ status' \in [Tasks -> States]
        /\ opened' \in [Tasks -> Nat] /\ excused' \subseteq Tasks
    BY <1>9, ReachesType, StallsType, UnwokenType DEF TypeOK, Message, Refused, States
  <2>2. acts' \in 0 .. MaxActs /\ faults' \in 0 .. MaxFaults
    BY <1>9, AskType DEF TypeOK, Message
  <2> QED BY <1>9, <2>1, <2>2 DEF TypeOK, Message, States
<1>10. ASSUME NEW t \in Tasks, Assign(t) PROVE TypeOK'
  <2>1. status[t] \in States /\ "in_progress" \in States
    BY DEF TypeOK, States, Statuses
  <2>2. status' \in [Tasks -> States] /\ opened' \in [Tasks -> Nat]
    BY <1>10, <2>1, SetType DEF Assign
  <2>3. /\ start' \in [Tasks -> {"none", "written", "spawned", "checked"}]
        /\ agent' \in [Tasks -> BOOLEAN] /\ excused' \subseteq Tasks
    BY <1>10 DEF TypeOK, Assign
  <2>4. acts' \in 0 .. MaxActs /\ faults' = faults
    BY <1>10, AskType DEF Assign, Act
  <2> QED BY <1>10, <2>2, <2>3, <2>4 DEF TypeOK, Assign, States
<1>11. ASSUME NEW t \in Tasks, Unassign(t) PROVE TypeOK'
  <2>1. acts' \in 0 .. MaxActs /\ faults' = faults
    BY <1>11, AskType DEF Unassign, Act
  <2> QED BY <1>11, <2>1 DEF TypeOK, Unassign
<1>12. ASSUME NEW t \in Tasks, UpdateStatus(t) PROVE TypeOK'
  <2>1. status' \in [Tasks -> States] /\ opened' \in [Tasks -> Nat]
    BY <1>12, SetType DEF UpdateStatus, States
  <2>2. excused' \subseteq Tasks
    BY <1>12 DEF TypeOK, UpdateStatus, Leaves
  <2>3. acts' \in 0 .. MaxActs /\ faults' = faults
    BY <1>12, AskType DEF UpdateStatus, Act
  <2> QED BY <1>12, <2>1, <2>2, <2>3 DEF TypeOK, UpdateStatus, States
<1>13. ASSUME NEW t \in Tasks, Halt(t) PROVE TypeOK'
  <2>1. run' \in [Tasks -> Runs] /\ excused' \subseteq Tasks
    BY <1>13 DEF TypeOK, Halt, Runs, Untold
  <2>2. halting' \in [Tasks -> {"none", "stop", "delete"}]
    BY <1>13 DEF TypeOK, Halt
  <2>3. acts' \in 0 .. MaxActs /\ faults' = faults
    BY <1>13, AskType DEF Halt, Act
  <2> QED BY <1>13, <2>1, <2>2, <2>3 DEF TypeOK, Halt
<1>14. ASSUME NEW t \in Tasks, Halted(t) PROVE TypeOK'
  <2>1. PICK s \in States :
           \/ Set(t, s) /\ excused' = excused \cup Leaves(t, s) /\ agent' = [agent EXCEPT ![t] = FALSE]
           \/ UNCHANGED <<task, excused>>
    BY <1>14 DEF TypeOK, Halted, States, Statuses
  <2>2. status' \in [Tasks -> States] /\ opened' \in [Tasks -> Nat]
    BY <2>1, SetType DEF TypeOK, States
  <2>3. agent' \in [Tasks -> BOOLEAN] /\ excused' \subseteq Tasks
    BY <2>1 DEF TypeOK, Leaves
  <2> QED BY <1>14, <2>2, <2>3 DEF TypeOK, Halted, States
<1>15. CASE Restart
  <2>1. faults' \in 0 .. MaxFaults /\ acts' = acts
    BY <1>15, AskType DEF Restart, Fault
  <2> QED BY <1>15, <2>1 DEF TypeOK, Restart, Runs
<1>16. CASE UNCHANGED vars
  BY <1>16 DEF TypeOK, vars
<1> QED
  BY <1>1, <1>2, <1>3, <1>4, <1>5, <1>6, <1>7, <1>8, <1>9, <1>10, <1>11, <1>12, <1>13, <1>14,
     <1>15, <1>16 DEF Next

\* Every reachable state is well typed: no status, run phase or counter takes a
\* value that the code does not have.
THEOREM TypeCorrect == Spec => []TypeOK
  BY InitTypeOK, StepTypeOK, PTL DEF Spec

-----------------------------------------------------------------------------
(* A task was taken up at least as often as it was announced, plus once if *)
(* it is in progress, plus once if it is in review and about to be         *)
(* announced.                                                              *)

Open(t) == IF status[t] = "in_progress" THEN 1 ELSE 0
Told(t) == IF run[t] = "reviewed" THEN 1 ELSE 0
Accounted == \A t \in Tasks : reported[t] + Open(t) + Told(t) <= opened[t]

ReviewInvariant == Accounted /\ LockHolds

LEMMA InitReview == Init => ReviewInvariant
  BY DEF Init, ReviewInvariant, Accounted, LockHolds, Open, Told

\* A status may be set whenever the lock is free, or it is what the run of the
\* task announces next.
LEMMA SetAccounted ==
  ASSUME TypeOK, ReviewInvariant, NEW t \in Tasks, NEW s \in States, Set(t, s),
         reported' = reported,
         \A u \in Tasks : run'[u] # "reviewing" \/ (run[u] = "reviewing" /\ u # t),
         \A u \in Tasks : run'[u] # "reviewed" \/ run[u] = "reviewed"
                             \/ (u = t /\ status[t] = "in_progress" /\ s # "in_progress")
  PROVE  ReviewInvariant'
<1>1. ASSUME NEW u \in Tasks, u # t
      PROVE  status'[u] = status[u] /\ opened'[u] = opened[u]
  BY <1>1 DEF TypeOK, Set
<1>2. status'[t] = s /\ opened'[t] = IF s = "in_progress" /\ status[t] # s THEN opened[t] + 1 ELSE opened[t]
  BY DEF TypeOK, Set
<1>3. ASSUME NEW u \in Tasks PROVE (reported[u] + Open(u) + Told(u) <= opened[u])'
  <2>0. /\ reported[u] \in Nat /\ opened[u] \in Nat
        /\ reported[u] + Open(u) + Told(u) <= opened[u]
    BY DEF TypeOK, ReviewInvariant, Accounted
  <2>1. CASE u # t
    BY <1>1, <2>0, <2>1 DEF Open, Told
  <2>2. CASE u = t
    BY <1>2, <2>0, <2>2 DEF Open, Told
  <2> QED BY <2>1, <2>2
<1>4. LockHolds'
  BY <1>1 DEF ReviewInvariant, LockHolds
<1> QED BY <1>3, <1>4 DEF ReviewInvariant, Accounted

\* Nothing that leaves the statuses alone, and neither locks nor announces, counts.
LEMMA QuietAccounted ==
  ASSUME TypeOK, ReviewInvariant, UNCHANGED <<status, opened, reported>>,
         \A u \in Tasks : run'[u] \in {"reviewing", "reviewed"} => run'[u] = run[u]
  PROVE  ReviewInvariant'
<1>1. ASSUME NEW u \in Tasks PROVE (reported[u] + Open(u) + Told(u) <= opened[u])'
  <2>0. /\ reported[u] \in Nat /\ opened[u] \in Nat
        /\ reported[u] + Open(u) + Told(u) <= opened[u]
    BY DEF TypeOK, ReviewInvariant, Accounted
  <2> QED BY <2>0 DEF Open, Told
<1>2. LockHolds'
  BY DEF ReviewInvariant, LockHolds
<1> QED BY <1>1, <1>2 DEF ReviewInvariant, Accounted

LEMMA ReachesAccounted ==
  ASSUME TypeOK, ReviewInvariant, NEW t \in Tasks, NEW internal \in BOOLEAN,
         Reaches(t, internal), reported' = reported
  PROVE  ReviewInvariant'
<1>1. \A u \in Tasks : run'[u] = IF u = t THEN "working" ELSE run[u]
  BY DEF TypeOK, Reaches
<1>2. CASE Wakes(t, internal)
  BY <1>1, <1>2, SetAccounted DEF Reaches, States, Statuses
<1>3. CASE ~Wakes(t, internal)
  BY <1>1, <1>3, QuietAccounted DEF Reaches
<1> QED BY <1>2, <1>3

\* A dispatch that fails may have woken the task, which a run cannot be reading.
LEMMA StallsAccounted ==
  ASSUME TypeOK, ReviewInvariant, NEW t \in Tasks, NEW internal \in BOOLEAN,
         Stalls(t, internal), reported' = reported
  PROVE  ReviewInvariant'
<1>1. \A u \in Tasks : run'[u] = run[u] \/ (u = t /\ run'[u] = "none")
  BY DEF TypeOK, Stalls
<1>2. CASE UNCHANGED <<status, opened>>
  BY <1>1, <1>2, QuietAccounted
<1>3. CASE Wakes(t, internal) /\ Set(t, "in_progress")
  <2>1. run[t] # "reviewing"
    BY <1>3 DEF Wakes, ReviewInvariant, LockHolds
  <2> QED BY <1>1, <1>3, <2>1, SetAccounted DEF States, Statuses
<1> QED BY <1>2, <1>3 DEF Stalls

LEMMA UnwokenAccounted ==
  ASSUME TypeOK, ReviewInvariant, NEW t \in Tasks, Unwoken(t), reported' = reported
  PROVE  ReviewInvariant'
<1>1. \A u \in Tasks : run'[u] = IF u = t THEN "working" ELSE run[u]
  BY DEF TypeOK, Unwoken
<1> QED BY <1>1, QuietAccounted DEF Unwoken

LEMMA StepReview == TypeOK /\ ReviewInvariant /\ [Next]_vars => ReviewInvariant'
<1> SUFFICES ASSUME TypeOK, ReviewInvariant, [Next]_vars PROVE ReviewInvariant'
  OBVIOUS
<1> USE DEF task, work, history, bounds
<1>1. ASSUME NEW t \in Tasks, Create(t) PROVE ReviewInvariant'
  <2>1. run[t] # "reviewing"
    BY <1>1 DEF Create, ReviewInvariant, LockHolds
  <2> QED BY <1>1, <2>1, SetAccounted DEF Create, States, Statuses
<1>2. ASSUME NEW t \in Tasks,
             \/ Spawn(t) \/ Unspawned(t) \/ AutoCheck(t) \/ RunAnswers(t) \/ RunFails(t)
             \/ MarkFails(t) \/ Close(t) \/ Unassign(t) \/ Halt(t)
      PROVE  ReviewInvariant'
  BY <1>2, QuietAccounted
     DEF Spawn, Unspawned, AutoCheck, RunAnswers, RunFails, MarkFails, Close, Unassign, Halt, TypeOK
<1>3. ASSUME NEW t \in Tasks, AutoSend(t) PROVE ReviewInvariant'
  <2>1. CASE Reaches(t, TRUE)
    BY <1>3, <2>1, ReachesAccounted DEF AutoSend
  <2>2. CASE Refused(t)
    BY <1>3, <2>2, QuietAccounted DEF AutoSend, Refused
  <2>3. CASE Stalls(t, TRUE)
    BY <1>3, <2>3, StallsAccounted DEF AutoSend
  <2> QED BY <1>3, <2>1, <2>2, <2>3 DEF AutoSend
<1>4. ASSUME NEW t \in Tasks, MarkReads(t) PROVE ReviewInvariant'
  <2>1. \A u \in Tasks : run'[u] = IF u # t THEN run[u] ELSE IF Reviewable(t) THEN "reviewing" ELSE "closing"
    BY <1>4 DEF TypeOK, MarkReads
  <2>2. LockHolds'
    BY <1>4, <2>1 DEF MarkReads, ReviewInvariant, LockHolds, Reviewable
  <2>3. ASSUME NEW u \in Tasks PROVE (reported[u] + Open(u) + Told(u) <= opened[u])'
    <3>1. /\ reported[u] \in Nat /\ opened[u] \in Nat
          /\ reported[u] + Open(u) + Told(u) <= opened[u]
      BY DEF TypeOK, ReviewInvariant, Accounted
    <3> QED BY <1>4, <2>1, <3>1 DEF MarkReads, Open, Told
  <2> QED BY <2>2, <2>3 DEF ReviewInvariant, Accounted
<1>5. ASSUME NEW t \in Tasks, MarkWrites(t) PROVE ReviewInvariant'
  <2>1. status[t] = "in_progress"
    BY <1>5 DEF MarkWrites, ReviewInvariant, LockHolds
  <2>2. \A u \in Tasks : run'[u] = IF u = t THEN "reviewed" ELSE run[u]
    BY <1>5 DEF TypeOK, MarkWrites
  <2> QED BY <1>5, <2>1, <2>2, SetAccounted DEF MarkWrites, States, Statuses
<1>6. ASSUME NEW t \in Tasks, Emit(t) PROVE ReviewInvariant'
  <2>1. \A u \in Tasks : /\ run'[u] = IF u = t THEN "closing" ELSE run[u]
                         /\ reported'[u] = IF u = t THEN reported[u] + 1 ELSE reported[u]
    BY <1>6 DEF TypeOK, Emit
  <2>2. LockHolds'
    BY <1>6, <2>1 DEF Emit, ReviewInvariant, LockHolds
  <2>3. ASSUME NEW u \in Tasks PROVE (reported[u] + Open(u) + Told(u) <= opened[u])'
    <3>1. /\ reported[u] \in Nat /\ opened[u] \in Nat
          /\ reported[u] + Open(u) + Told(u) <= opened[u]
      BY DEF TypeOK, ReviewInvariant, Accounted
    <3> QED BY <1>6, <2>1, <3>1 DEF Emit, Open, Told
  <2> QED BY <2>2, <2>3 DEF ReviewInvariant, Accounted
<1>7. ASSUME NEW t \in Tasks, Deliver(t) PROVE ReviewInvariant'
  <2>1. Target[t] # NoTask => Target[t] \in Tasks
    OBVIOUS
  <2> QED BY <1>7, <2>1, ReachesAccounted, QuietAccounted DEF Deliver
<1>8. ASSUME NEW t \in Tasks, Message(t) PROVE ReviewInvariant'
  <2>1. CASE Reaches(t, FALSE)
    BY <1>8, <2>1, ReachesAccounted DEF Message
  <2>2. CASE Refused(t)
    BY <1>8, <2>2, QuietAccounted DEF Message, Refused
  <2>3. CASE Stalls(t, FALSE)
    BY <1>8, <2>3, StallsAccounted DEF Message
  <2>4. CASE Unwoken(t)
    BY <1>8, <2>4, UnwokenAccounted DEF Message
  <2> QED BY <1>8, <2>1, <2>2, <2>3, <2>4 DEF Message
<1>9. ASSUME NEW t \in Tasks, Assign(t) PROVE ReviewInvariant'
  <2>1. status[t] \in States /\ "in_progress" \in States
    BY DEF TypeOK, States, Statuses
  <2> QED BY <1>9, <2>1, SetAccounted DEF Assign, Unlocked
<1>10. ASSUME NEW t \in Tasks, UpdateStatus(t) PROVE ReviewInvariant'
  BY <1>10, SetAccounted DEF UpdateStatus, Unlocked, States
<1>11. ASSUME NEW t \in Tasks, Halted(t) PROVE ReviewInvariant'
  <2>1. PICK s \in States : Set(t, s) \/ UNCHANGED task
    BY <1>11 DEF TypeOK, Halted, States, Statuses
  <2> QED BY <1>11, <2>1, SetAccounted, QuietAccounted DEF Halted, Unlocked
<1>12. CASE Restart
  BY <1>12, QuietAccounted DEF Restart
<1>13. CASE UNCHANGED vars
  BY <1>13, QuietAccounted DEF vars
<1>14. ASSUME NEW t \in Tasks, Lose(t) PROVE ReviewInvariant'
  <2>1. CASE UNCHANGED <<run, status, opened>>
    BY <1>14, <2>1, QuietAccounted DEF Lose
  <2>2. CASE Target[t] \in Tasks /\ Stalls(Target[t], TRUE)
    BY <1>14, <2>2, StallsAccounted DEF Lose
  <2> QED BY <1>14, <2>1, <2>2 DEF Lose
<1> QED
  BY <1>1, <1>2, <1>3, <1>4, <1>5, <1>6, <1>7, <1>8, <1>9, <1>10, <1>11, <1>12, <1>13, <1>14 DEF Next

LEMMA AccountedReported == TypeOK /\ ReviewInvariant => ReportedOnce
<1> SUFFICES ASSUME TypeOK, ReviewInvariant, NEW t \in Tasks PROVE reported[t] <= opened[t]
  BY DEF ReportedOnce
<1>1. reported[t] \in Nat /\ opened[t] \in Nat /\ reported[t] + Open(t) + Told(t) <= opened[t]
  BY DEF TypeOK, ReviewInvariant, Accounted
<1> QED BY <1>1 DEF Open, Told

\* No task is announced more often than it was taken up, and what a run read under
\* the lock of its task still holds when it writes the review.
THEOREM ReviewsAreSound == Spec => []TaskInvariant
<1>1. TypeOK /\ ReviewInvariant => TaskInvariant
  BY AccountedReported DEF ReviewInvariant, TaskInvariant
<1> QED BY <1>1, InitTypeOK, StepTypeOK, InitReview, StepReview, PTL DEF Spec

-----------------------------------------------------------------------------
(* Only a request takes a finished task up again.                          *)

Finished == {"in_review", "done"}
Reopened(t) == status[t] \in Finished /\ status'[t] = "in_progress"

\* An internal message, such as a callback or an automatic dispatch, changes no
\* status.
LEMMA InternalKeeps ==
  ASSUME NEW t \in Tasks, Reaches(t, TRUE) \/ Stalls(t, TRUE)
  PROVE  status' = status
  BY DEF Reaches, Stalls, Wakes

LEMMA StepReopens ==
  ASSUME TypeOK, [Next]_vars, NEW u \in Tasks, Reopened(u)
  PROVE  acts' = acts + 1
<1> USE DEF task, work, history, bounds, Reopened, Finished
<1>1. ASSUME NEW t \in Tasks, Create(t) PROVE status[u] = "unborn" \/ status'[u] = status[u]
  BY <1>1 DEF TypeOK, Create, Set
<1>2. ASSUME NEW t \in Tasks,
             \/ Spawn(t) \/ Unspawned(t) \/ AutoCheck(t) \/ AutoSend(t) \/ RunAnswers(t)
             \/ RunFails(t) \/ MarkReads(t) \/ MarkFails(t) \/ Emit(t) \/ Close(t)
      PROVE  status' = status
  BY <1>2, InternalKeeps
     DEF Spawn, Unspawned, AutoCheck, AutoSend, RunAnswers, RunFails, MarkReads, MarkFails,
         Emit, Close, Refused
<1>3. ASSUME NEW t \in Tasks, Deliver(t) \/ Lose(t) PROVE status' = status
  <2>1. Target[t] # NoTask => Target[t] \in Tasks
    OBVIOUS
  <2> QED BY <1>3, <2>1, InternalKeeps DEF Deliver, Lose
<1>4. ASSUME NEW t \in Tasks, MarkWrites(t) PROVE status'[u] # "in_progress" \/ status'[u] = status[u]
  BY <1>4 DEF TypeOK, MarkWrites, Set
<1>5. ASSUME NEW t \in Tasks, Halted(t) PROVE status'[u] # "in_progress" \/ status'[u] = status[u]
  BY <1>5 DEF TypeOK, Halted, Set
<1>6. ASSUME NEW t \in Tasks,
             Message(t) \/ Assign(t) \/ Unassign(t) \/ UpdateStatus(t) \/ Halt(t)
      PROVE  acts' = acts + 1
  BY <1>6 DEF Message, Assign, Unassign, UpdateStatus, Halt, Act, Asks
<1>7. CASE Restart
  BY <1>7 DEF Restart
<1>8. CASE UNCHANGED vars
  BY <1>8 DEF vars
<1> QED BY <1>1, <1>2, <1>3, <1>4, <1>5, <1>6, <1>7, <1>8 DEF Next

\* A callback or a dispatch that arrives late never reopens a task that is in
\* review or done.
THEOREM OnlyUsersReopen == Spec => NotReopened
<1>1. TypeOK /\ [Next]_vars =>
        [\A t \in Tasks :
            status[t] \in {"in_review", "done"} /\ status'[t] = "in_progress" => acts' = acts + 1]_vars
  BY StepReopens DEF Reopened, Finished
<1> QED BY <1>1, TypeCorrect, PTL DEF Spec, NotReopened

-----------------------------------------------------------------------------
(* A task in progress is attended: by a run that has not decided yet what  *)
(* becomes of the task, by a dispatch, or by a subtask that runs or calls  *)
(* back.  A run that is about to be removed attends to nothing any more,   *)
(* which is what makes the property inductive.                             *)

Busy == {"working", "answered", "failed", "reviewing"}
Calls(c) == status[c] = "in_progress" \/ callback[c] > 0 \/ run[c] = "reviewed"
Attended(t) == run[t] \in Busy \/ start[t] # "none" \/ \E c \in Waiting(t) : Calls(c)
AllAttended == \A t \in Running \ excused : Attended(t)

LEMMA InitAttended == Init => AllAttended
  BY DEF Init, AllAttended, Attended, Running

\* It is enough that each task which loses its run or its dispatch is excused,
\* and that whoever waits for a subtask that stops calling is excused or runs.
LEMMA KeepsAttended ==
  ASSUME AllAttended,
         \A u \in Running' \ excused' :
             \/ Attended(u)'
             \/ /\ u \in Running \ excused
                /\ run[u] \in Busy => run'[u] \in Busy
                /\ start[u] # "none" => start'[u] # "none",
         \A c \in Tasks :
             \/ Calls(c) => Calls(c)'
             \/ Target[c] \notin Tasks
             \/ Target[c] \in excused'
             \/ run'[Target[c]] \in Busy
  PROVE  AllAttended'
<1> SUFFICES ASSUME NEW u \in Running' \ excused', ~Attended(u)' PROVE FALSE
  BY DEF AllAttended
<1>1. /\ u \in Running \ excused
      /\ run[u] \in Busy => run'[u] \in Busy
      /\ start[u] # "none" => start'[u] # "none"
  OBVIOUS
<1>2. run'[u] \notin Busy /\ start'[u] = "none" /\ u \in Tasks
  BY DEF Attended, Running
<1>3. PICK c \in Waiting(u) : Calls(c)
  BY <1>1, <1>2 DEF AllAttended, Attended
<1>4. c \in Tasks /\ Target[c] = u
  BY DEF Waiting
<1>5. Calls(c)'
  BY <1>2, <1>3, <1>4
<1>6. c \in Waiting(u)'
  BY <1>4 DEF Waiting
<1> QED BY <1>5, <1>6 DEF Attended

\* Whoever is reached has a run; whoever waits for its replaced run is excused.
LEMMA ReachesAttended ==
  ASSUME TypeOK, AllAttended, NEW t \in Tasks, NEW internal \in BOOLEAN, Reaches(t, internal),
         \A u \in Tasks : u # t => start'[u] = start[u],
         \A c \in Tasks : callback'[c] = callback[c] \/ Target[c] = t
  PROVE  AllAttended'
<1>1. \A u \in Tasks : run'[u] = IF u = t THEN "working" ELSE run[u]
  BY DEF TypeOK, Reaches
<1>2. \A u \in Tasks : status'[u] = IF u = t /\ Wakes(t, internal) THEN "in_progress" ELSE status[u]
  BY DEF TypeOK, Reaches, Set
<1>3. excused' = (excused \cup Untold(t)) \ {t}
  BY DEF Reaches
<1>4. \A u \in Running' \ excused' : Attended(u)' \/ (u \in Running \ excused /\ run'[u] = run[u] /\ start'[u] = start[u])
  BY <1>1, <1>2, <1>3 DEF Running, Attended, Busy
<1>5. ASSUME NEW c \in Tasks, Target[c] \in Tasks, Target[c] # t, Calls(c), ~Calls(c)'
      PROVE  Target[c] \in excused'
  <2>1. callback'[c] = callback[c]
    BY <1>5
  <2>2. c = t /\ run[c] = "reviewed"
    BY <1>1, <1>2, <1>5, <2>1 DEF Calls, Wakes
  <2> QED BY <1>3, <1>5, <2>2 DEF Untold
<1>6. run'[t] \in Busy
  BY <1>1 DEF Busy
<1>7. \A c \in Tasks : \/ Calls(c) => Calls(c)'
                       \/ Target[c] \notin Tasks
                       \/ Target[c] \in excused'
                       \/ run'[Target[c]] \in Busy
  BY <1>5, <1>6
<1> QED BY <1>4, <1>7, KeepsAttended

\* A thread whose dispatch fails is excused, and so is who waits for the run that
\* the dispatch may have aborted.
LEMMA StallsAttended ==
  ASSUME TypeOK, AllAttended, NEW t \in Tasks, NEW internal \in BOOLEAN, Stalls(t, internal),
         \A u \in Tasks : u # t => start'[u] = start[u],
         \A c \in Tasks : callback'[c] = callback[c] \/ Target[c] = t
  PROVE  AllAttended'
<1>1. \A u \in Tasks : run'[u] = run[u] \/ (u = t /\ run'[u] = "none")
  BY DEF TypeOK, Stalls
<1>2. \A u \in Tasks : \/ status'[u] = status[u]
                       \/ u = t /\ status[u] # "in_progress" /\ status'[u] = "in_progress"
  BY DEF TypeOK, Stalls, Wakes, Set
<1>3. excused' = excused \cup {t} \cup Untold(t)
  BY DEF Stalls
<1>4. \A u \in Running' \ excused' : u \in Running \ excused /\ run'[u] = run[u] /\ start'[u] = start[u]
  BY <1>1, <1>2, <1>3 DEF Running
<1>5. ASSUME NEW c \in Tasks, Target[c] \in Tasks, Target[c] # t, Calls(c), ~Calls(c)'
      PROVE  Target[c] \in excused'
  <2>1. callback'[c] = callback[c]
    BY <1>5
  <2>2. c = t /\ run[c] = "reviewed"
    BY <1>1, <1>2, <1>5, <2>1 DEF Calls
  <2> QED BY <1>3, <1>5, <2>2 DEF Untold
<1>6. \A c \in Tasks : \/ Calls(c) => Calls(c)'
                       \/ Target[c] \notin Tasks
                       \/ Target[c] \in excused'
  BY <1>3, <1>5
<1> QED BY <1>4, <1>6, KeepsAttended

\* A run has started even if the write that wakes its task has failed.
LEMMA UnwokenAttended ==
  ASSUME TypeOK, AllAttended, NEW t \in Tasks, Unwoken(t), UNCHANGED <<start, callback>>
  PROVE  AllAttended'
<1>1. \A u \in Tasks : run'[u] = IF u = t THEN "working" ELSE run[u]
  BY DEF TypeOK, Unwoken
<1>2. status' = status /\ excused' = (excused \cup Untold(t)) \ {t}
  BY DEF Unwoken
<1>3. \A u \in Running' \ excused' : Attended(u)' \/ (u \in Running \ excused /\ run'[u] = run[u])
  BY <1>1, <1>2 DEF Running, Attended, Busy
<1>4. ASSUME NEW c \in Tasks, Target[c] \in Tasks, Target[c] # t, Calls(c), ~Calls(c)'
      PROVE  Target[c] \in excused'
  <2>1. c = t /\ run[c] = "reviewed"
    BY <1>1, <1>2, <1>4 DEF Calls
  <2> QED BY <1>2, <1>4, <2>1 DEF Untold
<1>5. run'[t] \in Busy
  BY <1>1 DEF Busy
<1>6. \A c \in Tasks : \/ Calls(c) => Calls(c)'
                       \/ Target[c] \notin Tasks
                       \/ Target[c] \in excused'
                       \/ run'[Target[c]] \in Busy
  BY <1>4, <1>5
<1> QED BY <1>3, <1>6, KeepsAttended

\* A status that is set by hand: a task that leaves progress excuses who waits.
LEMMA SetAttended ==
  ASSUME TypeOK, AllAttended, NEW t \in Tasks, NEW s \in States, Set(t, s),
         UNCHANGED <<run, callback>>, \A u \in Tasks : start[u] # "none" => start'[u] # "none",
         excused \cup Leaves(t, s) \subseteq excused',
         \/ s # "in_progress" \/ s = status[t] \/ t \in excused' \/ start'[t] # "none"
  PROVE  AllAttended'
<1>1. \A u \in Tasks : status'[u] = IF u = t THEN s ELSE status[u]
  BY DEF TypeOK, Set
<1>2. \A u \in Running' \ excused' :
          Attended(u)' \/ (u \in Running \ excused /\ run'[u] = run[u] /\ (start[u] # "none" => start'[u] # "none"))
  BY <1>1 DEF Running, Attended
<1>3. \A c \in Tasks : (Calls(c) => Calls(c)') \/ Target[c] \notin Tasks \/ Target[c] \in excused'
  BY <1>1 DEF Calls, Leaves
<1> QED BY <1>2, <1>3, KeepsAttended

LEMMA StepAttended == TypeOK /\ ReviewInvariant /\ AllAttended /\ [Next]_vars => AllAttended'
<1> SUFFICES ASSUME TypeOK, ReviewInvariant, AllAttended, [Next]_vars PROVE AllAttended'
  OBVIOUS
<1> USE DEF task, work, history, bounds
<1>1. ASSUME NEW t \in Tasks, Create(t) PROVE AllAttended'
  <2>1. start'[t] # "none" /\ \A u \in Tasks : u # t => start'[u] = start[u]
    BY <1>1 DEF TypeOK, Create
  <2>2. Leaves(t, "in_progress") = {}
    BY DEF Leaves
  <2> QED BY <1>1, <2>1, <2>2, SetAttended DEF Create, States, Statuses
<1>2. ASSUME NEW t \in Tasks, Spawn(t) \/ Unspawned(t) \/ AutoCheck(t) PROVE AllAttended'
  <2>1. excused \subseteq excused' /\ (start'[t] = "none" => t \in excused')
    BY <1>2 DEF TypeOK, Spawn, Unspawned, AutoCheck
  <2>2. \A u \in Tasks : u # t => start'[u] = start[u]
    BY <1>2 DEF TypeOK, Spawn, Unspawned, AutoCheck
  <2>3. status' = status /\ run' = run /\ callback' = callback
    BY <1>2 DEF Spawn, Unspawned, AutoCheck
  <2>4. \A u \in Running' \ excused' : u \in Running \ excused /\ (start[u] # "none" => start'[u] # "none")
    BY <2>1, <2>2, <2>3 DEF Running
  <2>5. \A c \in Tasks : Calls(c) => Calls(c)'
    BY <2>3 DEF Calls
  <2> QED BY <2>3, <2>4, <2>5, KeepsAttended
<1>3. ASSUME NEW t \in Tasks, AutoSend(t) PROVE AllAttended'
  <2>1. \A u \in Tasks : u # t => start'[u] = start[u]
    BY <1>3 DEF TypeOK, AutoSend
  <2>2. CASE Reaches(t, TRUE)
    BY <1>3, <2>1, <2>2, ReachesAttended DEF AutoSend
  <2>3. CASE Refused(t) /\ excused' = excused \cup {t}
    <3>1. status' = status /\ run' = run /\ callback' = callback
      BY <1>3, <2>3 DEF AutoSend, Refused
    <3>2. \A u \in Running' \ excused' : u \in Running \ excused /\ start'[u] = start[u]
      BY <2>1, <2>3, <3>1 DEF Running
    <3>3. \A c \in Tasks : Calls(c) => Calls(c)'
      BY <3>1 DEF Calls
    <3> QED BY <3>1, <3>2, <3>3, KeepsAttended
  <2>4. CASE Stalls(t, TRUE)
    BY <1>3, <2>1, <2>4, StallsAttended DEF AutoSend
  <2> QED BY <1>3, <2>2, <2>3, <2>4 DEF AutoSend
<1>4. ASSUME NEW t \in Tasks, RunAnswers(t) \/ RunFails(t) PROVE AllAttended'
  <2>1. \A u \in Tasks : run'[u] = run[u] \/ (run[u] = "working" /\ run'[u] \in {"answered", "failed"})
    BY <1>4 DEF TypeOK, RunAnswers, RunFails
  <2>2. UNCHANGED <<status, start, callback, excused>>
    BY <1>4 DEF RunAnswers, RunFails
  <2>3. \A u \in Running' \ excused' : u \in Running \ excused /\ (run[u] \in Busy => run'[u] \in Busy)
    BY <2>1, <2>2 DEF Running, Busy
  <2>4. \A c \in Tasks : Calls(c) => Calls(c)'
    BY <2>1, <2>2 DEF Calls
  <2> QED BY <2>2, <2>3, <2>4, KeepsAttended
<1>5. ASSUME NEW t \in Tasks, MarkReads(t) PROVE AllAttended'
  <2>1. run[t] = "answered"
        /\ \A u \in Tasks : run'[u] = IF u # t THEN run[u] ELSE IF Reviewable(t) THEN "reviewing" ELSE "closing"
    BY <1>5 DEF TypeOK, MarkReads
  <2>2. UNCHANGED <<status, start, callback, excused>>
    BY <1>5 DEF MarkReads
  <2>3. ASSUME t \in Running, ~Reviewable(t) PROVE Attended(t)'
    <3>1. PICK c \in Waiting(t) : status[c] = "in_progress"
      BY <2>3 DEF Reviewable, Unfinished, Running
    <3> QED BY <2>2, <3>1 DEF Attended, Calls, Waiting
  <2>4. \A u \in Running' \ excused' :
            Attended(u)' \/ (u \in Running \ excused /\ (run[u] \in Busy => run'[u] \in Busy))
    BY <2>1, <2>2, <2>3 DEF Running, Busy
  <2>5. \A c \in Tasks : Calls(c) => Calls(c)'
    BY <2>1, <2>2 DEF Calls
  <2> QED BY <2>2, <2>4, <2>5, KeepsAttended
<1>6. ASSUME NEW t \in Tasks, MarkWrites(t) PROVE AllAttended'
  <2>1. \A u \in Tasks : /\ run'[u] = IF u = t THEN "reviewed" ELSE run[u]
                         /\ status'[u] = IF u = t THEN "in_review" ELSE status[u]
    BY <1>6 DEF TypeOK, MarkWrites, Set
  <2>2. UNCHANGED <<start, callback, excused>>
    BY <1>6 DEF MarkWrites
  <2>3. \A u \in Running' \ excused' : u \in Running \ excused /\ run'[u] = run[u]
    BY <2>1, <2>2 DEF Running
  <2>4. \A c \in Tasks : Calls(c) => Calls(c)'
    BY <2>1, <2>2 DEF Calls
  <2> QED BY <2>2, <2>3, <2>4, KeepsAttended
<1>7. ASSUME NEW t \in Tasks, Emit(t) PROVE AllAttended'
  <2>1. \A u \in Tasks : /\ run'[u] = IF u = t THEN "closing" ELSE run[u]
                         /\ callback'[u] = IF u = t THEN callback[u] + 1 ELSE callback[u]
    BY <1>7 DEF TypeOK, Emit
  <2>2. run[t] = "reviewed" /\ UNCHANGED <<status, start, excused>> /\ callback[t] \in Nat
    BY <1>7 DEF Emit, TypeOK
  <2>3. \A u \in Running' \ excused' : u \in Running \ excused /\ (run[u] \in Busy => run'[u] \in Busy)
    BY <2>1, <2>2 DEF Running, Busy
  <2>4. \A c \in Tasks : Calls(c) => Calls(c)'
    BY <2>1, <2>2 DEF Calls
  <2> QED BY <2>2, <2>3, <2>4, KeepsAttended
<1>8. ASSUME NEW t \in Tasks, Close(t) PROVE AllAttended'
  <2>1. \A u \in Tasks : run'[u] = IF u = t THEN "none" ELSE run[u]
    BY <1>8 DEF TypeOK, Close
  <2>2. run[t] \in {"failed", "closing"} /\ UNCHANGED <<status, start, callback>>
    BY <1>8 DEF Close
  <2>3. excused \subseteq excused' /\ (run[t] = "failed" => t \in excused')
    BY <1>8 DEF Close
  <2>4. \A u \in Running' \ excused' : u \in Running \ excused /\ (run[u] \in Busy => run'[u] \in Busy)
    BY <2>1, <2>2, <2>3 DEF Running, Busy
  <2>5. \A c \in Tasks : Calls(c) => Calls(c)'
    BY <2>1, <2>2 DEF Calls
  <2> QED BY <2>2, <2>4, <2>5, KeepsAttended
<1>9. ASSUME NEW t \in Tasks, Deliver(t) \/ Lose(t) PROVE AllAttended'
  <2>1. \A c \in Tasks : c # t => callback'[c] = callback[c]
    BY <1>9 DEF TypeOK, Deliver, Lose
  <2>2. UNCHANGED start
    BY <1>9 DEF Deliver, Lose
  <2>3. CASE Target[t] \in Tasks /\ Reaches(Target[t], TRUE)
    BY <2>1, <2>2, <2>3, ReachesAttended
  <2>4. CASE excused' = excused \cup ({Target[t]} \cap Tasks) /\ UNCHANGED <<run, status>>
    <3>1. \A u \in Running' \ excused' : u \in Running \ excused
      BY <2>4 DEF Running
    <3>2. \A c \in Tasks : (Calls(c) => Calls(c)') \/ Target[c] \notin Tasks \/ Target[c] \in excused'
      BY <2>1, <2>4 DEF Calls
    <3> QED BY <2>2, <2>4, <3>1, <3>2, KeepsAttended
  <2>5. CASE Target[t] \in Tasks /\ Stalls(Target[t], TRUE)
    BY <2>1, <2>2, <2>5, StallsAttended
  <2> QED BY <1>9, <2>3, <2>4, <2>5 DEF Deliver, Lose
<1>10. ASSUME NEW t \in Tasks, Message(t) PROVE AllAttended'
  <2>1. UNCHANGED <<start, callback>>
    BY <1>10 DEF Message
  <2>2. CASE Reaches(t, FALSE)
    BY <2>1, <2>2, ReachesAttended
  <2>3. CASE UNCHANGED <<run, status, excused>>
    BY <2>1, <2>3, KeepsAttended DEF Running, Calls
  <2>4. CASE Stalls(t, FALSE)
    BY <2>1, <2>4, StallsAttended
  <2>5. CASE Unwoken(t)
    BY <2>1, <2>5, UnwokenAttended
  <2> QED BY <1>10, <2>2, <2>3, <2>4, <2>5 DEF Message, Refused
<1>11. ASSUME NEW t \in Tasks, Assign(t) PROVE AllAttended'
  <2> DEFINE s == IF status[t] = "todo" THEN "in_progress" ELSE status[t]
  <2>1. s \in States /\ Set(t, s) /\ UNCHANGED <<run, callback>>
    BY <1>11 DEF TypeOK, Assign, States, Statuses
  <2>2. Leaves(t, s) = {}
    BY DEF Leaves
  <2>3. /\ \A u \in Tasks : start[u] # "none" => start'[u] # "none"
        /\ excused \subseteq excused'
        /\ t \in excused' \/ start'[t] # "none"
    BY <1>11 DEF TypeOK, Assign
  <2> HIDE DEF s
  <2> QED BY <2>1, <2>2, <2>3, SetAttended
<1>12. ASSUME NEW t \in Tasks, Unassign(t) PROVE AllAttended'
  <2>1. UNCHANGED <<status, run, start, callback, excused>>
    BY <1>12 DEF Unassign
  <2> QED BY <2>1, KeepsAttended DEF Running, Calls
<1>13. ASSUME NEW t \in Tasks, UpdateStatus(t) PROVE AllAttended'
  <2>1. PICK s \in Statuses : Set(t, s) /\ excused' = excused \cup Leaves(t, s) \cup {t}
    BY <1>13 DEF UpdateStatus
  <2>2. s \in States /\ UNCHANGED <<run, start, callback>>
    BY <1>13 DEF UpdateStatus, States
  <2> QED BY <2>1, <2>2, SetAttended
<1>14. ASSUME NEW t \in Tasks, Halt(t) PROVE AllAttended'
  <2>1. UNCHANGED <<status, start, callback>>
    BY <1>14 DEF Halt
  <2>2. CASE UNCHANGED <<run, excused>>
    BY <2>1, <2>2, KeepsAttended DEF Running, Calls
  <2>3. CASE run[t] = "working" /\ (\E r \in {"answered", "failed"} : run' = [run EXCEPT ![t] = r]) /\ UNCHANGED excused
    <3>1. \A u \in Tasks : run'[u] = run[u] \/ (run[u] = "working" /\ run'[u] \in {"answered", "failed"})
      BY <2>3 DEF TypeOK
    <3>2. \A u \in Running' \ excused' : u \in Running \ excused /\ (run[u] \in Busy => run'[u] \in Busy)
      BY <2>1, <2>3, <3>1 DEF Running, Busy
    <3>3. \A c \in Tasks : Calls(c) => Calls(c)'
      BY <2>1, <3>1 DEF Calls
    <3> QED BY <2>1, <3>2, <3>3, KeepsAttended
  <2>4. CASE run' = [run EXCEPT ![t] = "none"] /\ excused' = excused \cup {t} \cup Untold(t)
    <3>1. \A u \in Tasks : run'[u] = IF u = t THEN "none" ELSE run[u]
      BY <2>4 DEF TypeOK
    <3>2. \A u \in Running' \ excused' : u \in Running \ excused /\ run'[u] = run[u]
      BY <2>1, <2>4, <3>1 DEF Running
    <3>3. \A c \in Tasks : (Calls(c) => Calls(c)') \/ Target[c] \notin Tasks \/ Target[c] \in excused'
      BY <2>1, <2>4, <3>1 DEF Calls, Untold
    <3> QED BY <2>1, <3>2, <3>3, KeepsAttended
  <2> QED BY <1>14, <2>2, <2>3, <2>4 DEF Halt
<1>15. ASSUME NEW t \in Tasks, Halted(t) PROVE AllAttended'
  <2>1. UNCHANGED <<run, start, callback>>
    BY <1>15 DEF Halted
  <2>2. CASE HasTask(t)
    <3> DEFINE s == CASE halting[t] = "delete" -> "deleted"
                      [] status[t] = "in_progress" -> "todo"
                      [] OTHER -> status[t]
    <3>1. s \in States /\ (s = "in_progress" => s = status[t])
      BY <2>2 DEF TypeOK, HasTask, States, Statuses
    <3>2. Set(t, s) /\ excused' = excused \cup Leaves(t, s)
      BY <1>15, <2>2 DEF Halted
    <3> HIDE DEF s
    <3> QED BY <2>1, <3>1, <3>2, SetAttended
  <2>3. CASE ~HasTask(t)
    <3>1. UNCHANGED <<status, excused>>
      BY <1>15, <2>3 DEF Halted
    <3> QED BY <2>1, <3>1, KeepsAttended DEF Running, Calls
  <2> QED BY <2>2, <2>3
<1>16. CASE Restart
  <2>1. Running' \ excused' = {}
    BY <1>16 DEF Restart, Running
  <2> QED BY <2>1 DEF AllAttended
<1>17. CASE UNCHANGED vars
  <2>1. UNCHANGED <<status, run, start, callback, excused>>
    BY <1>17 DEF vars
  <2> QED BY <2>1, KeepsAttended DEF Running, Calls
<1>18. ASSUME NEW t \in Tasks, MarkFails(t) PROVE AllAttended'
  <2>1. \A u \in Tasks : run'[u] = IF u = t THEN "closing" ELSE run[u]
    BY <1>18 DEF TypeOK, MarkFails
  <2>2. run[t] # "reviewed" /\ UNCHANGED <<status, start, callback>> /\ excused' = excused \cup {t}
    BY <1>18 DEF MarkFails
  <2>3. \A u \in Running' \ excused' : u \in Running \ excused /\ run'[u] = run[u]
    BY <2>1, <2>2 DEF Running
  <2>4. \A c \in Tasks : Calls(c) => Calls(c)'
    BY <2>1, <2>2 DEF Calls
  <2> QED BY <2>2, <2>3, <2>4, KeepsAttended
<1> QED
  BY <1>1, <1>2, <1>3, <1>4, <1>5, <1>6, <1>7, <1>8, <1>9, <1>10, <1>11, <1>12, <1>13, <1>14,
     <1>15, <1>16, <1>17, <1>18 DEF Next

LEMMA AttendedNotStranded == AllAttended => NotStranded
  BY DEF AllAttended, Attended, Calls, Busy, NotStranded

\* A task in progress is never left with nobody to take it further, unless its run
\* failed or was stopped, a callback was lost, the request or the dispatch that put
\* it there ended before its run was published, the store failed to take its review,
\* a user moved it or the gateway restarted.
THEOREM NeverStranded == Spec => []NotStranded
  BY InitTypeOK, StepTypeOK, InitReview, StepReview, InitAttended, StepAttended,
     AttendedNotStranded, PTL DEF Spec

HIDE TaskAssumption

-----------------------------------------------------------------------------
(* The wake after a restart. *)

USE WakeAssumption

\* A drain that has the claim, in one of these steps, goes on from its own list or
\* from the file; one that is at work on a thread has a list with a thread in it.
Working == {"sending", "sent", "overloaded"}
Holds(d) == pc[d] \in Working \cup {"reading", "requeueing", "ending"}

HasList ==
    \A d \in Drains :
        /\ pc[d] \in Working => wake[d] \in Wake /\ wake[d].from <= N
        /\ pc[d] = "ending" => wake[d] \in Wake /\ wake[d].from = N + 1

Typed == WakeTypeOK /\ HasList

LEMMA NoFileIsNoWake == NoFile \notin Wake
  BY DEF NoFile, Wake

LEMMA WakeFields ==
  ASSUME NEW w \in Wake
  PROVE  /\ w.from \in 1 .. N + 1 /\ w.attempt \in 0 .. MaxAttempts
         /\ w # NoFile /\ Remaining(w) = w.from .. N
  BY DEF Wake, NoFile, Remaining

LEMMA RestType ==
  ASSUME NEW w \in Wake, w.from <= N
  PROVE  Rest(w) \in Wake /\ Rest(w).from = w.from + 1
  BY DEF Wake, Rest

LEMMA AgainType ==
  ASSUME NEW w \in Wake, w.attempt < MaxAttempts
  PROVE  Again(w) \in Wake /\ Again(w).from = w.from
  BY DEF Wake, Again

LEMMA InitTyped == WakeInit => Typed
<1> SUFFICES ASSUME WakeInit PROVE Typed
  OBVIOUS
<1>1. fresh \in Wake
  BY DEF WakeInit, Wake
<1>2. HasList
  BY DEF WakeInit, HasList, Working
<1>3. delayed \in Nat /\ deaths \in 0 .. MaxDeaths /\ ages \in 0 .. MaxAges
  BY DEF WakeInit
<1>4. sent \in [Targets -> 0 .. 2]
  BY DEF WakeInit
<1>5. WakeTypeOK
  BY <1>1, <1>3, <1>4 DEF WakeInit, WakeTypeOK
<1> QED BY <1>2, <1>5 DEF Typed

\* Where a drain goes is all that changes of the drains.
LEMMA GoesTyped ==
  ASSUME Typed, NEW d \in Drains,
         NEW s \in {"idle", "listing", "claiming", "reading", "requeueing", "broken"},
         pc' = [pc EXCEPT ![d] = s],
         \A e \in Drains \ {d} : wake'[e] = wake[e]
  PROVE  /\ pc' \in [Drains -> {"idle", "listing", "claiming", "reading", "sending", "sent",
                                "overloaded", "requeueing", "ending", "broken"}]
         /\ HasList'
  BY DEF Typed, WakeTypeOK, HasList, Working

LEMMA StepTyped == Typed /\ [WakeNext]_wakeVars => Typed'
<1> SUFFICES ASSUME Typed, [WakeNext]_wakeVars PROVE Typed'
  OBVIOUS
<1> USE DEF files, drains, limits, woken
<1>1. ASSUME NEW d \in Drains, Startup(d) \/ Delayed(d) \/ OtherDrain(d) PROVE Typed'
  <2>1. HasList'
    BY <1>1, GoesTyped DEF Startup, Delayed, OtherDrain, Goes
  <2>2. delayed' \in Nat
    BY <1>1 DEF Typed, WakeTypeOK, Startup, Delayed, OtherDrain
  <2>3. ages' \in 0 .. MaxAges
    BY <1>1 DEF Typed, WakeTypeOK, Startup, Delayed, OtherDrain
  <2>4. first' \in {"due", "begun", "skipped"}
    BY <1>1 DEF Typed, WakeTypeOK, Startup, Delayed, OtherDrain
  <2> QED BY <1>1, <2>1, <2>2, <2>3, <2>4 DEF Typed, WakeTypeOK, Startup, Delayed, OtherDrain, Goes
<1>2. ASSUME NEW d \in Drains, List(d) \/ Claim(d) \/ Requeue(d) PROVE Typed'
  <2>1. HasList'
    BY <1>2, GoesTyped DEF List, Claim, Requeue, Goes, LeavesFile, Breaks, Typed, WakeTypeOK
  <2>2. delayed' \in Nat
    BY <1>2 DEF Typed, WakeTypeOK, List, Claim, Requeue
  <2>3. recovered' \in BOOLEAN
    BY <1>2 DEF Typed, WakeTypeOK, List, Claim, Requeue
  <2>4. fresh' \in Wake \cup {NoFile} /\ processing' \in Wake \cup {NoFile}
    BY <1>2 DEF Typed, WakeTypeOK, List, Claim, Requeue
  <2>5. /\ pc' \in [Drains -> {"idle", "listing", "claiming", "reading", "sending", "sent",
                               "overloaded", "requeueing", "ending", "broken"}]
        /\ wake' \in [Drains -> Wake \cup {NoFile}] /\ failures' \in [Drains -> SUBSET Targets]
    BY <1>2 DEF Typed, WakeTypeOK, List, Claim, Requeue, Goes, LeavesFile, Breaks
  <2> QED BY <1>2, <2>1, <2>2, <2>3, <2>4, <2>5 DEF Typed, WakeTypeOK, List, Claim, Requeue
<1>3. ASSUME NEW d \in Drains, Read(d) PROVE Typed'
  <2>1. CASE processing = NoFile \/ Remaining(processing) = {}
    <3>1. HasList'
      BY <1>3, <2>1, GoesTyped DEF Read, Goes, LeavesFile, Breaks, Typed, WakeTypeOK, Remaining
    <3> QED BY <1>3, <2>1, <3>1 DEF Typed, WakeTypeOK, Read, Goes, LeavesFile, Breaks, Remaining
  <2>2. CASE processing # NoFile /\ Remaining(processing) # {}
    <3>1. /\ wake' = [wake EXCEPT ![d] = processing] /\ Saves(processing)
          /\ Goes(d, "sending") /\ UNCHANGED failures
      BY <1>3, <2>2 DEF Read
    <3>2. processing \in Wake /\ processing.from <= N
      BY <2>2, WakeFields DEF Typed, WakeTypeOK
    <3>3. HasList'
      BY <3>1, <3>2 DEF Typed, WakeTypeOK, HasList, Goes, Working
    <3> QED BY <1>3, <3>1, <3>2, <3>3 DEF Typed, WakeTypeOK, Read, Goes, Saves
  <2> QED BY <2>1, <2>2
<1>4. ASSUME NEW d \in Drains, Send(d) PROVE Typed'
  <2>1. wake[d] \in Wake /\ wake[d].from \in Targets
    BY <1>4, WakeFields DEF Send, Typed, HasList, Working, Targets
  <2>2. HasList'
    BY <1>4 DEF Typed, WakeTypeOK, HasList, Send, Goes, Working
  <2>3. sent' \in [Targets -> 0 .. 2]
    BY <1>4, <2>1 DEF Typed, WakeTypeOK, Send
  <2>4. failures' \in [Drains -> SUBSET Targets] /\ givenUp' \subseteq Targets
    BY <1>4, <2>1 DEF Typed, WakeTypeOK, Send
  <2> QED BY <1>4, <2>2, <2>3, <2>4 DEF Typed, WakeTypeOK, Send, Goes
<1>5. ASSUME NEW d \in Drains, Persist(d) PROVE Typed'
  <2>1. Rest(wake[d]) \in Wake /\ Rest(wake[d]).from = wake[d].from + 1 /\ wake[d].from \in 1 .. N
    BY <1>5, RestType, WakeFields DEF Persist, Typed, HasList, Working
  <2>2. wake'[d] = Rest(wake[d]) /\ processing' = Rest(wake[d])
    BY <1>5 DEF Persist, Saves, Typed, WakeTypeOK
  <2>3. Remaining(wake'[d]) = {} <=> wake'[d].from = N + 1
    BY <2>1, <2>2, WakeFields
  <2>4. HasList'
    BY <1>5, <2>1, <2>2, <2>3 DEF Persist, Goes, Typed, WakeTypeOK, HasList, Working
  <2> QED BY <1>5, <2>1, <2>2, <2>4 DEF Typed, WakeTypeOK, Persist, Goes, Saves
<1>6. ASSUME NEW d \in Drains, End(d) \/ MoveToFailed(d) PROVE Typed'
  <2>1. HasList'
    BY <1>6, GoesTyped DEF End, MoveToFailed, Removes, Goes, LeavesFile, Breaks, Typed, WakeTypeOK
  <2>2. \A w \in Wake \cup {NoFile} : Remaining(w) \subseteq Targets
    BY WakeFields DEF Remaining, Targets
  <2>3. failed' \subseteq Targets /\ givenUp' \subseteq Targets
    BY <1>6, <2>2 DEF Typed, WakeTypeOK, End, MoveToFailed, Fails
  <2> QED BY <1>6, <2>1, <2>3 DEF Typed, WakeTypeOK, End, MoveToFailed, Removes, Goes, LeavesFile, Breaks, NoFile
<1>7. ASSUME NEW d \in Drains, Overloaded(d) PROVE Typed'
  <2>1. wake[d] \in Wake
    BY <1>7 DEF Overloaded, Typed, HasList, Working
  <2>2. Remaining(wake[d]) \subseteq Targets
    BY <2>1, WakeFields DEF Targets
  <2>3. failed' \subseteq Targets /\ givenUp' \subseteq Targets
    BY <1>7, <2>2 DEF Typed, WakeTypeOK, Overloaded, Fails
  <2>4. PICK s \in {"idle", "requeueing", "broken"} :
           /\ pc' = [pc EXCEPT ![d] = s]
           /\ \/ UNCHANGED <<wake, failures>>
              \/ /\ wake' = [wake EXCEPT ![d] = NoFile]
                 /\ failures' = [failures EXCEPT ![d] = {}]
    BY <1>7 DEF Overloaded, Removes, Goes, LeavesFile, Breaks
  <2>4a. HasList'
    BY <2>4, GoesTyped DEF Typed, WakeTypeOK
  <2>4b. wake' \in [Drains -> Wake \cup {NoFile}] /\ failures' \in [Drains -> SUBSET Targets]
    BY <2>4 DEF Typed, WakeTypeOK
  <2>5. old' \in BOOLEAN
    BY <1>7 DEF Typed, WakeTypeOK, Overloaded, Saves
  <2>6. wake[d].attempt < MaxAttempts => Again(wake[d]) \in Wake
    BY <2>1, AgainType
  <2>7. processing' \in {processing, NoFile}
           \/ (wake[d].attempt < MaxAttempts /\ processing' = Again(wake[d]))
    BY <1>7, <2>1, WakeFields DEF Overloaded, Removes, Saves
  <2>8. processing' \in Wake \cup {NoFile}
    BY <2>6, <2>7 DEF Typed, WakeTypeOK
  <2> QED BY <1>7, <2>3, <2>4, <2>4a, <2>4b, <2>5, <2>8 DEF Typed, WakeTypeOK, Overloaded
<1>8. CASE Skip \/ Age
  <2>1. ages' \in 0 .. MaxAges
    BY <1>8 DEF Typed, WakeTypeOK, Skip, Age
  <2>2. HasList'
    BY <1>8 DEF Typed, HasList, Skip, Age
  <2> QED BY <1>8, <2>1, <2>2 DEF Typed, WakeTypeOK, Skip, Age
<1>9. CASE GatewayDies
  BY <1>9 DEF Typed, WakeTypeOK, HasList, GatewayDies, Working
<1>10. CASE UNCHANGED wakeVars
  BY <1>10 DEF Typed, WakeTypeOK, HasList, wakeVars
<1> QED BY <1>1, <1>2, <1>3, <1>4, <1>5, <1>6, <1>7, <1>8, <1>9, <1>10 DEF WakeNext, Drain

\* Every reachable state is well typed, and a drain at work has a thread to wake.
THEOREM WakeTypeCorrect == WakeSpec => [](WakeTypeOK /\ HasList)
<1>1. WakeInit => WakeTypeOK /\ HasList
  BY InitTyped DEF Typed
<1>2. WakeTypeOK /\ HasList /\ [WakeNext]_wakeVars => WakeTypeOK' /\ HasList'
  BY StepTyped DEF Typed
<1> QED BY <1>1, <1>2, PTL DEF WakeSpec

-----------------------------------------------------------------------------
(* A list, in a file or in the hands of a drain, may be behind others, but *)
(* what comes before it is done with, whoever writes it where: this is why *)
(* a drain may write over the file of another one.                         *)

Done(t) == sent[t] > 0 \/ t \in givenUp
Prefix(w) == w # NoFile => \A t \in Targets : t < w.from => Done(t)

ListsBehind ==
    /\ Prefix(fresh) /\ Prefix(processing)
    /\ \A d \in Drains :
          /\ pc[d] \in Working \cup {"ending"} => Prefix(wake[d])
          /\ pc[d] = "sent" => Done(wake[d].from)

FileOrDone == fresh # NoFile \/ processing # NoFile \/ \A t \in Targets : Done(t)

Kept == ListsBehind /\ FileOrDone

LEMMA KeptNothingLost == Typed /\ Kept => NothingLost
<1> SUFFICES ASSUME Typed, Kept, NEW t \in Targets
             PROVE  sent[t] > 0 \/ t \in givenUp \cup Remaining(fresh) \cup Remaining(processing)
  BY DEF NothingLost
<1>1. ASSUME NEW w \in Wake, Prefix(w) PROVE Done(t) \/ t \in Remaining(w)
  BY <1>1, WakeFields DEF Prefix, Targets
<1>2. CASE fresh # NoFile
  BY <1>1, <1>2 DEF Typed, WakeTypeOK, Kept, ListsBehind, Done
<1>3. CASE processing # NoFile
  BY <1>1, <1>3 DEF Typed, WakeTypeOK, Kept, ListsBehind, Done
<1>4. CASE \A u \in Targets : Done(u)
  BY <1>4 DEF Done
<1> QED BY <1>2, <1>3, <1>4 DEF Kept, FileOrDone

\* A thread that is done with stays so.
LEMMA DoneStays ==
  ASSUME Typed, [WakeNext]_wakeVars, NEW t \in Targets, Done(t)
  PROVE  Done(t)'
<1> USE DEF files, drains, limits, woken
<1>1. ASSUME NEW d \in Drains, Send(d) PROVE Done(t)'
  <2>1. sent[t] \in 0 .. 2
    BY DEF Typed, WakeTypeOK
  <2> QED BY <1>1, <2>1 DEF Send, Done, Typed, WakeTypeOK
<1>2. ASSUME NEW d \in Drains,
             Startup(d) \/ Delayed(d) \/ OtherDrain(d) \/ List(d) \/ Claim(d) \/ Read(d)
                \/ Persist(d) \/ Requeue(d)
      PROVE  Done(t)'
  BY <1>2 DEF Startup, Delayed, OtherDrain, List, Claim, Read, Persist, Requeue, Done
<1>3. ASSUME NEW d \in Drains, End(d) \/ Overloaded(d) \/ MoveToFailed(d) PROVE Done(t)'
  BY <1>3 DEF End, Overloaded, MoveToFailed, Fails, Done
<1>4. CASE Skip \/ Age \/ GatewayDies \/ UNCHANGED wakeVars
  BY <1>4 DEF Skip, Age, GatewayDies, wakeVars, Done
<1> QED BY <1>1, <1>2, <1>3, <1>4 DEF WakeNext, Drain

LEMMA PrefixStays ==
  ASSUME Typed, [WakeNext]_wakeVars, NEW w, Prefix(w)
  PROVE  w # NoFile => \A t \in Targets : t < w.from => Done(t)'
  BY DoneStays DEF Prefix

LEMMA InitKept == WakeInit => Kept
<1> SUFFICES ASSUME WakeInit PROVE Kept
  OBVIOUS
<1>1. fresh.from = 1 /\ processing = NoFile /\ fresh # NoFile
  BY DEF WakeInit, NoFile
<1>2. \A d \in Drains : pc[d] = "idle"
  BY DEF WakeInit
<1> QED BY <1>1, <1>2 DEF Kept, ListsBehind, FileOrDone, Prefix, Targets, Working

LEMMA StepKept == Typed /\ Kept /\ [WakeNext]_wakeVars => Kept'
<1> SUFFICES ASSUME Typed, Kept, [WakeNext]_wakeVars PROVE Kept'
  OBVIOUS
<1> USE DEF files, drains, limits, woken
<1> DEFINE Behind(w) == w # NoFile => \A t \in Targets : t < w.from => Done(t)'
           Past(w) == \A t \in Targets : t = w.from => Done(t)'
           AllDone == \A t \in Targets : Done(t)'
<1>a. \A w : Prefix(w) => Behind(w)
  BY PrefixStays
<1>b. /\ Behind(fresh) /\ Behind(processing) /\ Behind(NoFile)
      /\ \A d \in Drains : pc[d] \in Working \cup {"ending"} => Behind(wake[d])
      /\ \A d \in Drains : pc[d] = "sent" => Past(wake[d])
      /\ fresh # NoFile \/ processing # NoFile \/ AllDone
  BY <1>a, DoneStays DEF Kept, ListsBehind, FileOrDone
<1>c. SUFFICES /\ Behind(fresh') /\ Behind(processing')
               /\ \A d \in Drains : pc'[d] \in Working \cup {"ending"} => Behind(wake'[d])
               /\ \A d \in Drains : pc'[d] = "sent" => Past(wake'[d])
               /\ fresh' # NoFile \/ processing' # NoFile \/ AllDone
  <2>1. \A d \in Drains : pc'[d] = "sent" => wake'[d].from \in Targets
    BY StepTyped, WakeFields DEF Typed, HasList, Working, Targets
  <2> QED BY <2>1 DEF Kept, ListsBehind, FileOrDone, Prefix, Done
<1> DEFINE Goal == /\ Behind(fresh') /\ Behind(processing')
                   /\ \A d \in Drains : pc'[d] \in Working \cup {"ending"} => Behind(wake'[d])
                   /\ \A d \in Drains : pc'[d] = "sent" => Past(wake'[d])
                   /\ fresh' # NoFile \/ processing' # NoFile \/ AllDone
           \* No drain gets a list or goes past a thread.
           Calm == \A d \in Drains : pc'[d] \in Working \cup {"ending"} => pc'[d] = pc[d] /\ wake'[d] = wake[d]
<1>d. SUFFICES Goal
  BY <1>c
<1> HIDE DEF Behind, Past, AllDone
<1>e. ASSUME Calm
      PROVE  /\ \A d \in Drains : pc'[d] \in Working \cup {"ending"} => Behind(wake'[d])
             /\ \A d \in Drains : pc'[d] = "sent" => Past(wake'[d])
  BY <1>b, <1>e DEF Working
<1>1. ASSUME NEW d \in Drains, Startup(d) \/ Delayed(d) \/ OtherDrain(d) PROVE Goal
  <2>1. Calm
    BY <1>1 DEF Typed, WakeTypeOK, Startup, Delayed, OtherDrain, Goes, Working
  <2> QED BY <1>1, <1>b, <1>e, <2>1 DEF Startup, Delayed, OtherDrain
<1>2. ASSUME NEW d \in Drains, List(d) \/ Claim(d) \/ Requeue(d) PROVE Goal
  <2>1. Calm
    BY <1>2 DEF Typed, WakeTypeOK, List, Claim, Requeue, Goes, LeavesFile, Breaks, Working
  <2>2. /\ fresh' \in {fresh, processing, NoFile} /\ processing' \in {fresh, processing, NoFile}
        /\ fresh # NoFile \/ processing # NoFile => fresh' # NoFile \/ processing' # NoFile
    BY <1>2 DEF List, Stale, Claim, Requeue
  <2> QED BY <1>b, <1>e, <2>1, <2>2
<1>3. ASSUME NEW d \in Drains, Read(d) PROVE Goal
  <2>1. CASE processing = NoFile
    <3>1. Calm
      BY <1>3, <2>1 DEF Typed, WakeTypeOK, Read, Goes, Breaks, Working
    <3> QED BY <1>3, <1>b, <1>e, <2>1, <3>1 DEF Read
  <2>2. CASE processing # NoFile /\ Remaining(processing) = {}
    <3>1. LeavesFile(d) /\ processing' = NoFile /\ fresh' = fresh
      BY <1>3, <2>2 DEF Read
    <3>2. Calm
      BY <3>1 DEF Typed, WakeTypeOK, Goes, LeavesFile, Working
    <3>3. processing \in Wake /\ processing.from \in 1 .. N + 1
      BY <2>2, WakeFields DEF Typed, WakeTypeOK
    <3>4. ~(processing.from <= N)
      <4>1. Remaining(processing) = processing.from .. N
        BY <3>3, WakeFields
      <4> QED BY <2>2, <3>3, <4>1
    <3>4a. \A t \in Targets : t < processing.from
      BY <3>3, <3>4 DEF Targets
    <3>5. AllDone
      BY <1>b, <2>2, <3>4a DEF Behind, AllDone
    <3> QED BY <1>b, <1>e, <3>1, <3>2, <3>5
  <2>3. CASE processing # NoFile /\ Remaining(processing) # {}
    <3>1. /\ wake' = [wake EXCEPT ![d] = processing] /\ processing' = processing
          /\ pc' = [pc EXCEPT ![d] = "sending"] /\ fresh' = fresh
      BY <1>3, <2>3 DEF Read, Saves, Goes
    <3>2. \A e \in Drains : /\ pc'[e] = IF e = d THEN "sending" ELSE pc[e]
                            /\ wake'[e] = IF e = d THEN processing ELSE wake[e]
      BY <3>1 DEF Typed, WakeTypeOK
    <3> QED BY <1>b, <2>3, <3>1, <3>2 DEF Working
  <2> QED BY <2>1, <2>2, <2>3
<1>4. ASSUME NEW d \in Drains, Send(d) PROVE Goal
  <2>1. wake[d] \in Wake /\ wake[d].from \in Targets
    BY <1>4, WakeFields DEF Send, Typed, HasList, Working, Targets
  <2>2. PICK s \in {"sent", "overloaded"} :
           /\ pc' = [pc EXCEPT ![d] = s]
           /\ s = "sent" => \/ sent'[wake[d].from] > 0
                            \/ wake[d].from \in givenUp'
    <3>1. sent[wake[d].from] \in 0 .. 2
      BY <2>1 DEF Typed, WakeTypeOK
    <3> QED BY <1>4, <2>1, <3>1 DEF Send, Goes, Typed, WakeTypeOK
  <2>3. \A e \in Drains : pc'[e] = IF e = d THEN s ELSE pc[e]
    BY <2>2 DEF Typed, WakeTypeOK
  <2>4. s = "sent" => Past(wake[d])
    BY <2>2 DEF Past, Done
  <2> QED BY <1>4, <1>b, <2>3, <2>4 DEF Send, Working
<1>5. ASSUME NEW d \in Drains, Persist(d) PROVE Goal
  <2>1. Rest(wake[d]) \in Wake /\ Rest(wake[d]).from = wake[d].from + 1 /\ wake[d].from \in 1 .. N
    BY <1>5, RestType, WakeFields DEF Persist, Typed, HasList, Working
  <2>2. /\ wake' = [wake EXCEPT ![d] = Rest(wake[d])] /\ processing' = Rest(wake[d])
        /\ \E s \in {"ending", "sending"} : pc' = [pc EXCEPT ![d] = s]
    BY <1>5 DEF Persist, Saves, Goes, Typed, WakeTypeOK
  <2>3. \A t \in Targets : t < Rest(wake[d]).from => t < wake[d].from \/ t = wake[d].from
    BY <2>1 DEF Targets
  <2>4. Behind(Rest(wake[d]))
    <3>1. wake[d] # NoFile
      BY <1>5, WakeFields DEF Persist, Typed, HasList, Working
    <3> QED BY <1>5, <1>b, <2>3, <3>1 DEF Persist, Behind, Past, Working
  <2>5. \A e \in Drains : /\ wake'[e] = IF e = d THEN Rest(wake[d]) ELSE wake[e]
                          /\ e # d => pc'[e] = pc[e]
                          /\ pc'[d] # "sent"
    BY <2>2 DEF Typed, WakeTypeOK
  <2>6. processing' # NoFile
    BY <2>1, <2>2, WakeFields
  <2> QED BY <1>5, <1>b, <2>2, <2>4, <2>5, <2>6 DEF Persist
<1>6. ASSUME NEW d \in Drains, End(d) PROVE Goal
  <2>1. Calm
    BY <1>6 DEF Typed, WakeTypeOK, End, Removes, Goes, LeavesFile, Breaks, Working
  <2>2. wake[d] \in Wake /\ wake[d].from = N + 1
    BY <1>6 DEF End, Typed, HasList
  <2>3. \A t \in Targets : t < wake[d].from
    BY <2>2 DEF Targets
  <2>4. wake[d] # NoFile
    BY <2>2, WakeFields
  <2>5. AllDone
    BY <1>6, <1>b, <2>3, <2>4 DEF End, Behind, AllDone
  <2> QED BY <1>6, <1>b, <1>e, <2>1, <2>5 DEF End, Removes
<1>7. ASSUME NEW d \in Drains, Overloaded(d) PROVE Goal
  <2>1. wake[d] \in Wake /\ wake[d] # NoFile /\ Behind(wake[d])
    BY <1>7, <1>b, WakeFields DEF Overloaded, Typed, HasList, Working
  <2>2. Calm
    BY <1>7 DEF Typed, WakeTypeOK, Overloaded, Removes, Goes, LeavesFile, Breaks, Working
  <2>3. CASE wake[d].attempt >= MaxAttempts
    <3>1. \A t \in Targets : t < wake[d].from \/ t \in Remaining(wake[d])
      BY <2>1, WakeFields DEF Targets
    <3>2. \A t \in Remaining(wake[d]) : t \in givenUp'
      BY <1>7, <2>3 DEF Overloaded, Fails
    <3>3. AllDone
      BY <2>1, <3>1, <3>2 DEF Behind, AllDone, Done
    <3> QED BY <1>7, <1>b, <1>e, <2>2, <2>3, <3>3 DEF Overloaded, Removes
  <2>4. CASE ~(wake[d].attempt >= MaxAttempts)
    <3>1. processing' = Again(wake[d]) /\ fresh' = fresh
      BY <1>7, <2>4 DEF Overloaded, Saves
    <3>2. Again(wake[d]) \in Wake /\ Again(wake[d]).from = wake[d].from
      BY <2>1, <2>4, AgainType, WakeFields
    <3>3. Behind(Again(wake[d])) /\ Again(wake[d]) # NoFile
      BY <2>1, <3>2, WakeFields DEF Behind
    <3> QED BY <1>b, <1>e, <2>2, <3>1, <3>3
  <2> QED BY <2>3, <2>4
<1>8. ASSUME NEW d \in Drains, MoveToFailed(d) PROVE Goal
  <2>1. Calm
    BY <1>8 DEF Typed, WakeTypeOK, MoveToFailed, Goes, LeavesFile, Working
  <2> DEFINE w == IF fresh # NoFile THEN fresh ELSE processing
  <2>2. w # NoFile => AllDone
    <3>1. \A t \in Remaining(w) : t \in givenUp'
      BY <1>8 DEF MoveToFailed
    <3> SUFFICES ASSUME w # NoFile PROVE AllDone
      OBVIOUS
    <3>2. w \in Wake /\ Behind(w)
      BY <1>b DEF Typed, WakeTypeOK
    <3> HIDE DEF w
    <3>3. \A t \in Targets : t < w.from \/ t \in Remaining(w)
      BY <3>2, WakeFields DEF Targets
    <3> QED BY <3>1, <3>2, <3>3 DEF Behind, AllDone, Done
  <2>3. fresh' = NoFile /\ processing' \in {processing, NoFile}
    BY <1>8 DEF MoveToFailed
  <2> QED BY <1>b, <1>e, <2>1, <2>2, <2>3
<1>9. CASE GatewayDies
  BY <1>9, <1>b DEF GatewayDies, Working
<1>10. CASE Skip \/ Age \/ UNCHANGED wakeVars
  BY <1>10, <1>b DEF Skip, Age, wakeVars
<1> QED BY <1>1, <1>2, <1>3, <1>4, <1>5, <1>6, <1>7, <1>8, <1>9, <1>10 DEF WakeNext, Drain

\* No thread is lost, wherever the gateway dies and however drains overlap.
THEOREM NoThreadIsLost == WakeSpec => []NothingLost
<1>1. WakeInit => Typed /\ Kept
  BY InitTyped, InitKept
<1>2. Typed /\ Kept /\ [WakeNext]_wakeVars => Typed' /\ Kept'
  BY StepTyped, StepKept
<1> QED BY <1>1, <1>2, KeptNothingLost, PTL DEF WakeSpec

-----------------------------------------------------------------------------
(* While no claim is taken for stale, one drain at most has the claim, and *)
(* then no file waits; what it has still to send, nobody has sent.         *)

Unsent(n) == \A t \in Targets : t >= n => sent[t] = 0

Sole ==
    /\ \A d, e \in Drains : Holds(d) /\ Holds(e) => d = e
    /\ \A d \in Drains : Holds(d) => fresh = NoFile
    /\ \A t \in Targets : sent[t] <= 1
    /\ fresh # NoFile => Unsent(fresh.from)
    /\ \A d \in Drains :
          /\ pc[d] \in {"reading", "requeueing"} /\ processing # NoFile => Unsent(processing.from)
          /\ pc[d] \in {"sending", "overloaded"} => Unsent(wake[d].from)
          /\ pc[d] = "sent" => Unsent(wake[d].from + 1)

Exclusive == ~recovered => Sole

LEMMA InitExclusive == WakeInit => Exclusive
  BY DEF WakeInit, Exclusive, Sole, Holds, Working, Unsent

\* A step that gives nobody the claim and sends nothing.
LEMMA CalmExclusive ==
  ASSUME Typed, Sole, sent' = sent, fresh' \in {fresh, NoFile}, processing' \in {processing, NoFile},
         \A d \in Drains : Holds(d)' => pc'[d] = pc[d] /\ wake'[d] = wake[d]
  PROVE  Sole'
<1>1. \A d \in Drains : Holds(d)' => Holds(d)
  BY DEF Holds
<1>2. \A n : Unsent(n)' <=> Unsent(n)
  BY DEF Unsent
<1>3. \A d \in Drains : pc'[d] \in Working \cup {"reading", "requeueing"} =>
         Holds(d)' /\ pc'[d] = pc[d] /\ wake'[d] = wake[d]
  BY DEF Holds
<1> QED BY <1>1, <1>2, <1>3 DEF Sole, Unsent, Working

LEMMA StepExclusive == Typed /\ Exclusive /\ [WakeNext]_wakeVars => Exclusive'
<1> SUFFICES ASSUME Typed, Exclusive, [WakeNext]_wakeVars, ~recovered' PROVE Sole'
  BY DEF Exclusive
<1> USE DEF files, drains, limits, woken
<1>a. ~recovered /\ Sole
  <2>1. recovered => recovered'
    BY DEF WakeNext, Drain, wakeVars, Startup, Delayed, OtherDrain, List, Claim, Read, Send, Persist, End,
           Overloaded, Requeue, MoveToFailed, Skip, Age, GatewayDies
  <2> QED BY <2>1 DEF Exclusive
<1>1. ASSUME NEW d \in Drains, Startup(d) \/ Delayed(d) \/ OtherDrain(d) PROVE Sole'
  <2>1. \A e \in Drains : Holds(e)' => pc'[e] = pc[e] /\ wake'[e] = wake[e]
    BY <1>1 DEF Typed, WakeTypeOK, Startup, Delayed, OtherDrain, Goes, Holds, Working
  <2> QED BY <1>1, <1>a, <2>1, CalmExclusive DEF Startup, Delayed, OtherDrain
<1>2. ASSUME NEW d \in Drains, List(d) PROVE Sole'
  <2>1. UNCHANGED <<fresh, processing>>
    BY <1>2, <1>a DEF List
  <2>2. \A e \in Drains : Holds(e)' => pc'[e] = pc[e] /\ wake'[e] = wake[e]
    BY <1>2 DEF Typed, WakeTypeOK, List, Goes, Holds, Working
  <2> QED BY <1>2, <1>a, <2>1, <2>2, CalmExclusive DEF List
<1>3. ASSUME NEW d \in Drains, Claim(d) PROVE Sole'
  <2>1. CASE fresh = NoFile
    <3>1. \A e \in Drains : Holds(e)' => pc'[e] = pc[e] /\ wake'[e] = wake[e]
      BY <1>3, <2>1 DEF Typed, WakeTypeOK, Claim, Goes, Holds, Working
    <3> QED BY <1>3, <1>a, <2>1, <3>1, CalmExclusive DEF Claim
  <2>2. CASE fresh # NoFile
    <3>1. /\ processing' = fresh /\ fresh' = NoFile /\ sent' = sent
          /\ \A e \in Drains : pc'[e] = IF e = d THEN "reading" ELSE pc[e]
      BY <1>3, <2>2 DEF Typed, WakeTypeOK, Claim, Goes
    <3>2. \A e \in Drains : ~Holds(e)
      BY <1>a, <2>2 DEF Sole
    <3>3. \A e \in Drains : Holds(e)' => e = d
      BY <3>1, <3>2 DEF Holds
    <3>4. Unsent(processing.from)'
      BY <1>a, <2>2, <3>1 DEF Sole, Unsent
    <3>5. \A e \in Drains : pc'[e] \notin Working
      BY <3>1, <3>2 DEF Holds, Working
    <3> QED BY <1>a, <3>1, <3>3, <3>4, <3>5 DEF Sole, Working
  <2> QED BY <2>1, <2>2
<1>4. ASSUME NEW d \in Drains, Read(d) PROVE Sole'
  <2>1. CASE processing = NoFile \/ Remaining(processing) = {}
    <3>1. \A e \in Drains : Holds(e)' => pc'[e] = pc[e] /\ wake'[e] = wake[e]
      BY <1>4, <2>1 DEF Typed, WakeTypeOK, Read, Goes, LeavesFile, Breaks, Holds, Working, Remaining
    <3> QED BY <1>4, <1>a, <2>1, <3>1, CalmExclusive DEF Read, LeavesFile, Breaks, Remaining
  <2>2. CASE processing # NoFile /\ Remaining(processing) # {}
    <3>1. /\ processing' = processing /\ fresh' = fresh /\ sent' = sent /\ pc[d] = "reading"
          /\ \A e \in Drains : /\ pc'[e] = IF e = d THEN "sending" ELSE pc[e]
                               /\ wake'[e] = IF e = d THEN processing ELSE wake[e]
      BY <1>4, <2>2 DEF Typed, WakeTypeOK, Read, Goes, Saves
    <3>2. \A e \in Drains : Holds(e)' <=> Holds(e)
      BY <3>1 DEF Holds, Working
    <3>3. \A n : Unsent(n)' <=> Unsent(n)
      BY <3>1 DEF Unsent
    <3>4. Unsent(processing.from)
      BY <1>a, <2>2, <3>1 DEF Sole
    <3> QED BY <1>a, <3>1, <3>2, <3>3, <3>4 DEF Sole, Unsent
  <2> QED BY <2>1, <2>2
<1>5. ASSUME NEW d \in Drains, Send(d) PROVE Sole'
  <2>1. wake[d] \in Wake /\ wake[d].from \in Targets /\ pc[d] = "sending" /\ Holds(d)
    BY <1>5, WakeFields DEF Send, Typed, HasList, Working, Targets, Holds
  <2>2. \A e \in Drains : Holds(e) => e = d
    BY <1>a, <2>1 DEF Sole
  <2>3. UNCHANGED <<fresh, processing, wake>>
    BY <1>5 DEF Send
  <2>4. fresh = NoFile
    BY <1>a, <2>1 DEF Sole
  <2>5. Unsent(wake[d].from)
    BY <1>a, <2>1 DEF Sole
  <2>6. PICK s \in {"sent", "overloaded"} :
           /\ \A e \in Drains : pc'[e] = IF e = d THEN s ELSE pc[e]
           /\ \A t \in Targets : t # wake[d].from => sent'[t] = sent[t]
           /\ sent'[wake[d].from] \in {0, 1}
           /\ s = "overloaded" => sent' = sent
    <3>1. sent[wake[d].from] = 0
      BY <2>1, <2>5 DEF Unsent, Targets
    <3> QED BY <1>5, <2>1, <3>1 DEF Send, Goes, Typed, WakeTypeOK
  <2>7. \A e \in Drains : Holds(e)' => e = d
    BY <2>2, <2>6 DEF Holds
  <2>8. \A e \in Drains : pc'[e] \in Working \cup {"reading", "requeueing"} => e = d
    BY <2>7 DEF Holds
  <2>9. \A t \in Targets : sent'[t] <= 1
    BY <1>a, <2>6 DEF Sole
  <2>10. s = "sent" => Unsent(wake[d].from + 1)'
    BY <2>1, <2>3, <2>5, <2>6 DEF Unsent, Targets
  <2>11. s = "overloaded" => Unsent(wake[d].from)'
    BY <2>3, <2>5, <2>6 DEF Unsent
  <2> QED BY <2>3, <2>4, <2>6, <2>7, <2>8, <2>9, <2>10, <2>11 DEF Sole, Working
<1>6. ASSUME NEW d \in Drains, Persist(d) PROVE Sole'
  <2>1. /\ Rest(wake[d]).from = wake[d].from + 1 /\ pc[d] = "sent" /\ Holds(d)
    BY <1>6, RestType DEF Persist, Typed, HasList, Working, Holds
  <2>2. /\ wake'[d] = Rest(wake[d]) /\ fresh' = fresh /\ sent' = sent
        /\ \A e \in Drains : e # d => pc'[e] = pc[e]
        /\ pc'[d] \in {"ending", "sending"}
    BY <1>6 DEF Persist, Saves, Goes, Typed, WakeTypeOK
  <2>3. \A e \in Drains : Holds(e) => e = d
    BY <1>a, <2>1 DEF Sole
  <2>4. \A e \in Drains : Holds(e)' => e = d
    BY <2>2, <2>3 DEF Holds
  <2>5. \A e \in Drains : pc'[e] \in Working \cup {"reading", "requeueing"} => e = d
    BY <2>4 DEF Holds
  <2>6. fresh' = NoFile /\ Unsent(wake[d].from)'
    BY <1>a, <2>1, <2>2 DEF Sole, Unsent
  <2>7. \A t \in Targets : sent'[t] <= 1
    BY <1>a, <2>2 DEF Sole
  <2> QED BY <2>2, <2>4, <2>5, <2>6, <2>7 DEF Sole, Working
<1>7. ASSUME NEW d \in Drains, End(d) \/ MoveToFailed(d) PROVE Sole'
  <2>1. \A e \in Drains : Holds(e)' => pc'[e] = pc[e] /\ wake'[e] = wake[e]
    BY <1>7 DEF Typed, WakeTypeOK, End, MoveToFailed, Removes, Goes, LeavesFile, Breaks, Holds, Working
  <2>2. fresh' \in {fresh, NoFile} /\ processing' \in {processing, NoFile} /\ sent' = sent
    BY <1>7 DEF End, MoveToFailed, Removes
  <2> QED BY <1>a, <2>1, <2>2, CalmExclusive
<1>8. ASSUME NEW d \in Drains, Overloaded(d) PROVE Sole'
  <2>1. CASE wake[d].attempt >= MaxAttempts
    <3>1. \A e \in Drains : Holds(e)' => pc'[e] = pc[e] /\ wake'[e] = wake[e]
      BY <1>8, <2>1 DEF Typed, WakeTypeOK, Overloaded, Removes, Goes, LeavesFile, Breaks, Holds, Working
    <3> QED BY <1>8, <1>a, <2>1, <3>1, CalmExclusive DEF Overloaded, Removes
  <2>2. CASE ~(wake[d].attempt >= MaxAttempts)
    <3>1. wake[d] \in Wake /\ pc[d] = "overloaded" /\ Holds(d)
      BY <1>8 DEF Overloaded, Typed, HasList, Working, Holds
    <3>2. /\ processing' = Again(wake[d]) /\ UNCHANGED <<fresh, wake, sent>>
          /\ \A e \in Drains : pc'[e] = IF e = d THEN "requeueing" ELSE pc[e]
      BY <1>8, <2>2 DEF Overloaded, Saves, Goes, Typed, WakeTypeOK
    <3>3. Again(wake[d]).from = wake[d].from
      BY <2>2, <3>1, AgainType, WakeFields
    <3>4. \A e \in Drains : Holds(e) => e = d
      BY <1>a, <3>1 DEF Sole
    <3>5. \A e \in Drains : Holds(e)' => e = d
      BY <3>2, <3>4 DEF Holds
    <3>6. \A e \in Drains : pc'[e] \in Working \cup {"reading", "requeueing"} => e = d
      BY <3>5 DEF Holds
    <3>7. fresh' = NoFile /\ Unsent(processing.from)' /\ \A t \in Targets : sent'[t] <= 1
      BY <1>a, <3>1, <3>2, <3>3 DEF Sole, Unsent
    <3> QED BY <3>2, <3>5, <3>6, <3>7 DEF Sole, Working
  <2> QED BY <2>1, <2>2
<1>9. ASSUME NEW d \in Drains, Requeue(d) PROVE Sole'
  <2>1. \A e \in Drains : Holds(e)' => pc'[e] = pc[e] /\ wake'[e] = wake[e] /\ e # d
    BY <1>9 DEF Typed, WakeTypeOK, Requeue, Goes, LeavesFile, Breaks, Holds, Working
  <2>2. CASE processing = NoFile
    BY <1>9, <1>a, <2>1, <2>2, CalmExclusive DEF Requeue
  <2>3. CASE processing # NoFile
    <3>1. fresh' = processing /\ processing' = NoFile /\ sent' = sent /\ pc[d] = "requeueing" /\ Holds(d)
      BY <1>9, <2>3 DEF Requeue, Holds
    <3>2. \A e \in Drains : ~Holds(e)'
      BY <1>a, <2>1, <3>1 DEF Sole, Holds
    <3>3. Unsent(fresh.from)' /\ \A t \in Targets : sent'[t] <= 1
      BY <1>a, <2>3, <3>1 DEF Sole, Unsent
    <3>4. \A e \in Drains : pc'[e] \notin Working \cup {"reading", "requeueing"}
      BY <3>2 DEF Holds
    <3> QED BY <3>2, <3>3, <3>4 DEF Sole, Working
  <2> QED BY <2>2, <2>3
<1>10. CASE GatewayDies
  <2>1. \A d \in Drains : ~Holds(d)'
    BY <1>10 DEF GatewayDies, Holds, Working
  <2> QED BY <1>10, <1>a, <2>1, CalmExclusive DEF GatewayDies
<1>11. CASE Skip \/ Age \/ UNCHANGED wakeVars
  BY <1>11, <1>a, CalmExclusive DEF Skip, Age, wakeVars
<1> QED BY <1>1, <1>2, <1>3, <1>4, <1>5, <1>6, <1>7, <1>8, <1>9, <1>10, <1>11 DEF WakeNext, Drain

\* No thread is lost; and while no claim is taken for stale, however often the
\* bridge is overloaded and the gateway dies, none is woken twice.
THEOREM WakesAreSound == WakeSpec => []WakeInvariant
<1>1. WakeInit => Typed /\ Kept /\ Exclusive
  BY InitTyped, InitKept, InitExclusive
<1>2. Typed /\ Kept /\ Exclusive /\ [WakeNext]_wakeVars => Typed' /\ Kept' /\ Exclusive'
  BY StepTyped, StepKept, StepExclusive
<1>3. Typed /\ Kept /\ Exclusive => WakeInvariant
  BY KeptNothingLost DEF Typed, Exclusive, Sole, SentOnce, WakeInvariant
<1> QED BY <1>1, <1>2, <1>3, PTL DEF WakeSpec
=============================================================================
