------------------------ MODULE AutomationJobs_proof ------------------------
(***************************************************************************)
(* Proofs about AutomationJobs: one executor at a time, one dispatch for   *)
(* each chance of a one-shot job, and no dispatch over a live run, for any *)
(* number of requests, editors and deleters.                               *)
(***************************************************************************)
EXTENDS AutomationJobs, FiniteSetTheorems, TLAPS

-----------------------------------------------------------------------------
(* The values of the job.                                                  *)

\* A job is a record, and Gone is not one of them.
LEMMA JobIsNotGone == Gone \notin Job
<1>1. \A j \in Job : j.status # Gone.status
  BY DEF Job, Gone
<1> QED BY <1>1

\* What can be written over a job leaves a job.
LEMMA JobExcept ==
    ASSUME NEW j \in Job, NEW enabled \in BOOLEAN, NEW next \in Nat,
           NEW status \in {"never", "running", "success", "failed"}
    PROVE  /\ [j EXCEPT !.status = status] \in Job
           /\ [j EXCEPT !.status = status].status = status
           /\ [j EXCEPT !.status = status].enabled = j.enabled
           /\ [j EXCEPT !.next = next] \in Job
           /\ [j EXCEPT !.next = next].status = j.status
           /\ [j EXCEPT !.next = next].enabled = j.enabled
           /\ [j EXCEPT !.enabled = enabled, !.next = next] \in Job
           /\ [j EXCEPT !.enabled = enabled, !.next = next].status = j.status
           /\ [j EXCEPT !.enabled = enabled, !.next = next].enabled = enabled
           /\ [j EXCEPT !.enabled = enabled, !.valid = TRUE, !.next = next] \in Job
           /\ [j EXCEPT !.enabled = enabled, !.valid = TRUE, !.next = next].status = j.status
           /\ [j EXCEPT !.enabled = enabled, !.valid = TRUE, !.next = next].enabled = enabled
BY DEF Job

\* The next time of a schedule is a time.
LEMMA NextRunIsTime == ASSUME TypeOK PROVE NextRun \in Nat /\ Never \in Nat
BY AutomationAssumption DEF TypeOK, NextRun, At, Never

\* A settled job is not marked as running, and a one-shot job that succeeded is
\* not enabled any more.
LEMMA SettledIsOver ==
    ASSUME TypeOK, NEW j \in Job, NEW success \in BOOLEAN
    PROVE  /\ Settled(j, success) \in Job
           /\ Settled(j, success).status # "running"
           /\ kind # "interval" /\ success => ~Settled(j, success).enabled
<1>1. CASE success
  <2> DEFINE k == [j EXCEPT !.status = "success"]
  <2>1. k \in Job /\ k.status = "success"
    BY JobExcept
  <2>2. Settled(j, success) = Advanced(k)
    BY <1>1 DEF Settled
  <2> HIDE DEF k
  <2>3. /\ [k EXCEPT !.next = NextRun] \in Job
        /\ [k EXCEPT !.next = NextRun].status = "success"
    <3>1. NextRun \in Nat
      BY NextRunIsTime
    <3> QED BY <2>1, <3>1 DEF Job
  <2>4. /\ [k EXCEPT !.enabled = FALSE, !.next = Never] \in Job
        /\ [k EXCEPT !.enabled = FALSE, !.next = Never].status = "success"
        /\ [k EXCEPT !.enabled = FALSE, !.next = Never].enabled = FALSE
    <3>1. Never \in Nat
      BY NextRunIsTime
    <3> QED BY <2>1, <3>1 DEF Job
  <2>5. Advanced(k) \in Job /\ Advanced(k).status = "success"
    <3>1. \/ Advanced(k) = [k EXCEPT !.next = NextRun]
          \/ Advanced(k) = [k EXCEPT !.enabled = FALSE, !.next = Never]
      BY DEF Advanced
    <3> QED BY <2>3, <2>4, <3>1
  <2>6. kind # "interval" => ~Advanced(k).enabled
    BY <2>4 DEF Advanced
  <2> QED BY <2>2, <2>5, <2>6
<1>2. CASE ~success
  <2>1. Settled(j, success) = [j EXCEPT !.status = "failed"]
    BY <1>2 DEF Settled
  <2>2. /\ [j EXCEPT !.status = "failed"] \in Job
        /\ [j EXCEPT !.status = "failed"].status = "failed"
    BY JobExcept
  <2> QED BY <1>2, <2>1, <2>2
<1> QED BY <1>1, <1>2

\* A job that is loaded is not marked as running.
LEMMA LoadedIsNotRunning ==
    ASSUME NEW j \in Job \cup {Gone}
    PROVE  /\ Loaded(j) \in Job \cup {Gone}
           /\ Loaded(j) # Gone => Loaded(j).status # "running"
BY JobExcept DEF Loaded

-----------------------------------------------------------------------------
(* What a step of one executor changes.                                    *)

\* One executor changes its phase: the holders and those that may still dispatch
\* gain it or lose it.
LEMMA Moves ==
    ASSUME TypeOK, NEW e \in Executors, NEW phase \in Phases, Goes(e, phase)
    PROVE  /\ ex' \in [Executors -> Phases]
           /\ ex'[e] = phase
           /\ \A x \in Executors : x # e => ex'[x] = ex[x]
           /\ phase \in Holding => Holders' = Holders \cup {e}
           /\ phase \notin Holding => Holders' = Holders \ {e}
BY DEF TypeOK, Goes, Holders

\* What an executor that may still dispatch holds of the chances.
Share(phase) == IF phase \in {"claimed", "saved", "prepared", "failed"} THEN 1 ELSE 0

\* The chances that executors hold change by what the step takes or gives up.
LEMMA SharesMove ==
    ASSUME TypeOK, IsFiniteSet(Spending),
           NEW e \in Executors, NEW phase \in Phases, Goes(e, phase)
    PROVE  /\ IsFiniteSet(Spending')
           /\ Cardinality(Spending) \in Nat /\ Cardinality(Spending') \in Nat
           /\ Cardinality(Spending') + Share(ex[e]) = Cardinality(Spending) + Share(phase)
<1> DEFINE S == {"claimed", "saved", "prepared", "failed"}
<1>1. phase \in S => Spending' = Spending \cup {e}
  BY DEF TypeOK, Goes, Spending
<1>2. phase \notin S => Spending' = Spending \ {e}
  BY DEF TypeOK, Goes, Spending
<1>3. e \in Spending <=> ex[e] \in S
  BY DEF Spending
<1>4. /\ IsFiniteSet(Spending \cup {e})
      /\ Cardinality(Spending \cup {e}) =
            IF e \in Spending THEN Cardinality(Spending) ELSE Cardinality(Spending) + 1
  BY FS_AddElement
<1>5. /\ IsFiniteSet(Spending \ {e})
      /\ Cardinality(Spending \ {e}) =
            IF e \in Spending THEN Cardinality(Spending) - 1 ELSE Cardinality(Spending)
  BY FS_RemoveElement
<1>6. Cardinality(Spending) \in Nat
  BY FS_CardinalityType
<1>7. IsFiniteSet(Spending') /\ Cardinality(Spending') \in Nat
  <2>1. IsFiniteSet(Spending')
    BY <1>1, <1>2, <1>4, <1>5
  <2> QED BY <2>1, FS_CardinalityType
<1>8. CASE phase \in S
  BY <1>1, <1>3, <1>4, <1>6, <1>7, <1>8 DEF Share
<1>9. CASE phase \notin S
  <2>1. Cardinality(Spending') =
           IF e \in Spending THEN Cardinality(Spending) - 1 ELSE Cardinality(Spending)
    BY <1>2, <1>5, <1>9
  <2>2. Share(phase) = 0 /\ Share(ex[e]) = IF e \in Spending THEN 1 ELSE 0
    BY <1>3, <1>9 DEF Share
  <2> QED BY <1>6, <1>7, <2>1, <2>2
<1> QED BY <1>6, <1>7, <1>8, <1>9

-----------------------------------------------------------------------------
(* Types.                                                                  *)

\* An executor's phase changes to a phase.
LEMMA GoesType ==
    ASSUME TypeOK, NEW e \in Executors, NEW phase \in Phases, Goes(e, phase)
    PROVE  ex' \in [Executors -> Phases]
BY DEF TypeOK, Goes

\* So it does when the executor ends.
LEMMA EndsGoes ==
    ASSUME NEW e \in Executors, Ends(e)
    PROVE  Goes(e, IF e = tick THEN "idle" ELSE "done")
BY DEF Ends

\* A fault is one of those that are bounded.
LEMMA FaultType == ASSUME TypeOK, Fault PROVE faults' \in 0 .. MaxFaults
BY AutomationAssumption DEF TypeOK, Fault

\* The loop is an executor, and so is every request.
LEMMA ExecutorsAre == tick \in Executors /\ Requests \subseteq Executors
BY DEF Executors

\* Every step keeps the types.
LEMMA TypeStep == ASSUME TypeOK, [Next]_vars PROVE TypeOK'
<1> USE DEF stored, runs, users, history
<1>a. {"idle", "done"} \subseteq Phases
  BY DEF Phases
<1>b. \A e \in Executors : Ends(e) => ex' \in [Executors -> Phases]
  BY <1>a, GoesType DEF Ends
<1>c. \A e \in Executors :
         \A phase \in Phases : Goes(e, phase) => ex' \in [Executors -> Phases]
  BY GoesType
<1>d. /\ {"picked", "finishing", "refusing", "clearing", "looking", "claiming"} \subseteq Phases
      /\ {"claimed", "saved", "prepared", "started", "succeeded", "failed"} \subseteq Phases
  BY DEF Phases, Choosing, Holding
<1>1. CASE Due
  BY <1>1, <1>c, <1>d, ExecutorsAre DEF TypeOK, Due
<1>2. ASSUME NEW r \in Requests, RunNow(r) PROVE TypeOK'
  <2>1. ex' \in [Executors -> Phases]
    BY <1>2, <1>b, <1>c, <1>d, ExecutorsAre DEF RunNow
  <2> QED BY <1>2, <2>1 DEF TypeOK, RunNow
<1>3. ASSUME NEW r \in Requests, Refuse(r) PROVE TypeOK'
  <2>1. ex' \in [Executors -> Phases]
    BY <1>3, <1>b, ExecutorsAre DEF Refuse
  <2>2. job' \in Job \cup {Gone} /\ disk' \in Job \cup {Gone}
    BY <1>3, SettledIsOver DEF Refuse, TypeOK
  <2>3. chances' \in Nat /\ misjudged' \in BOOLEAN
    <3>1. chances' = chances \/ chances' = chances + 1
      BY <1>3 DEF Refuse
    <3>2. misjudged' = misjudged \/ misjudged' = (misjudged \/ job.status = "running")
      BY <1>3 DEF Refuse
    <3>3. (misjudged \/ job.status = "running") \in BOOLEAN
      OBVIOUS
    <3>4. chances' \in Nat
      BY <3>1 DEF TypeOK
    <3> QED BY <3>2, <3>3, <3>4, Zenon DEF TypeOK
  <2> QED BY <1>3, <2>1, <2>2, <2>3 DEF TypeOK, Refuse
<1>4. ASSUME NEW e \in Executors, Look(e) PROVE TypeOK'
  <2>1. ex' \in [Executors -> Phases]
    BY <1>4, <1>b, <1>c, <1>d DEF Look
  <2> QED BY <1>4, <2>1 DEF TypeOK, Look
<1>5. ASSUME NEW e \in Executors, Clear(e) PROVE TypeOK'
  <2>1. ex' \in [Executors -> Phases]
    BY <1>5, <1>c, <1>d DEF Clear
  <2>2. loose' \in Nat /\ lost' \in BOOLEAN
    BY <1>5 DEF Clear, Named, TypeOK
  <2> QED BY <1>5, <2>1, <2>2 DEF TypeOK, Clear, RunStates
<1>6. ASSUME NEW e \in Executors, SeeActive(e) PROVE TypeOK'
  <2>1. ex' \in [Executors -> Phases]
    BY <1>6, <1>b, <1>c, <1>d DEF SeeActive
  <2>2. raced' \subseteq Executors
    BY <1>6 DEF SeeActive, TypeOK
  <2> QED BY <1>6, <2>1, <2>2 DEF TypeOK, SeeActive
<1>7. ASSUME NEW e \in Executors, Claim(e) PROVE TypeOK'
  <2>1. ex' \in [Executors -> Phases]
    BY <1>7, <1>b, <1>c, <1>d DEF Claim
  <2>2. job' \in Job \cup {Gone}
    <3>1. CASE Claimable
      <4>1. job \in Job /\ job' = [job EXCEPT !.status = "running"]
        BY <1>7, <3>1 DEF Claim, Claimable, TypeOK
      <4> QED BY <4>1, JobExcept
    <3>2. CASE ~Claimable
      BY <1>7, <3>2 DEF Claim, TypeOK
    <3> QED BY <3>1, <3>2
  <2>3. copy' \in [Executors \cup Editors -> Job \cup {Gone}]
    BY <1>7, <2>2 DEF Claim, TypeOK
  <2>4. raced' \subseteq Executors
    BY <1>7 DEF Claim, TypeOK
  <2> QED BY <1>7, <2>1, <2>2, <2>3, <2>4 DEF TypeOK, Claim
<1>8. ASSUME NEW e \in Executors, SaveClaim(e) PROVE TypeOK'
  <2>1. ex' \in [Executors -> Phases]
    BY <1>8, <1>c, <1>d DEF SaveClaim
  <2> QED BY <1>8, <2>1 DEF TypeOK, SaveClaim
<1>9. ASSUME NEW e \in Executors, Prepare(e) PROVE TypeOK'
  <2>1. ex' \in [Executors -> Phases]
    BY <1>9, <1>c, <1>d DEF Prepare
  <2>2. faults' \in 0 .. MaxFaults
    BY <1>9, FaultType DEF Prepare, TypeOK
  <2> QED BY <1>9, <2>1, <2>2 DEF TypeOK, Prepare
<1>10. ASSUME NEW e \in Executors, Dispatch(e) PROVE TypeOK'
  <2>1. ex' \in [Executors -> Phases]
    BY <1>10, <1>c, <1>d DEF Dispatch
  <2>2. faults' \in 0 .. MaxFaults
    BY <1>10, FaultType DEF Dispatch, TypeOK
  <2>3. run' \in [Executors -> RunStates] /\ fired' \in Nat
    BY <1>10 DEF Dispatch, TypeOK, RunStates
  <2> QED BY <1>10, <2>1, <2>2, <2>3 DEF TypeOK, Dispatch
<1>11. ASSUME NEW e \in Executors, Settle(e) PROVE TypeOK'
  <2>1. ex' \in [Executors -> Phases]
    BY <1>11, <1>b, <1>c, <1>d DEF Settle
  <2>2. job' \in Job \cup {Gone} /\ disk' \in Job \cup {Gone}
    BY <1>11, SettledIsOver DEF Settle, TypeOK
  <2>3. raced' \subseteq Executors
    BY <1>11 DEF Settle, TypeOK
  <2> QED BY <1>11, <2>1, <2>2, <2>3 DEF TypeOK, Settle
<1>12. ASSUME NEW e \in Executors, DeleteFinished(e) PROVE TypeOK'
  <2>1. ex' \in [Executors -> Phases]
    BY <1>12, <1>b DEF DeleteFinished
  <2> QED BY <1>12, <2>1 DEF TypeOK, DeleteFinished
<1>13. ASSUME NEW r \in Requests, Drop(r) PROVE TypeOK'
  <2>1. ex' \in [Executors -> Phases]
    BY <1>13, <1>a, <1>c, ExecutorsAre DEF Drop
  <2>2. faults' \in 0 .. MaxFaults
    BY <1>13, FaultType DEF Drop
  <2>3. copy' \in [Executors \cup Editors -> Job \cup {Gone}] /\ dropped' \in BOOLEAN
    BY <1>13 DEF Drop, TypeOK
  <2>4. run' \in [Executors -> RunStates]
    BY <1>13 DEF Drop, TypeOK, RunStates
  <2>5. loose' \in Nat /\ raced' \subseteq Executors
    <3>1. loose' = loose \/ loose' = loose + 1
      BY <1>13 DEF Drop
    <3> QED BY <1>13, <3>1 DEF Drop, TypeOK
  <2> QED BY <1>13, <2>1, <2>2, <2>3, <2>4, <2>5 DEF TypeOK, Drop
<1>14. ASSUME NEW u \in Editors, EditReads(u) PROVE TypeOK'
  <2>1. CASE job = Gone
    BY <1>14, <2>1 DEF TypeOK, EditReads
  <2>2. CASE job # Gone
    <3>1. job.enabled \in BOOLEAN
      BY <2>2 DEF TypeOK, Job
    <3>2. PICK enabled \in {job.enabled, TRUE, FALSE} : want' = [want EXCEPT ![u] = enabled]
      BY <1>14, <2>2 DEF EditReads
    <3>3. want' \in [Editors -> BOOLEAN]
      BY <3>1, <3>2 DEF TypeOK
    <3> QED BY <1>14, <2>2, <3>3 DEF TypeOK, EditReads
  <2> QED BY <2>1, <2>2
<1>15. ASSUME NEW u \in Editors, EditApplies(u) PROVE TypeOK'
  <2>1. job' \in Job \cup {Gone}
    <3>1. CASE job = Gone
      BY <1>15, <3>1 DEF EditApplies, TypeOK
    <3>2. CASE job # Gone
      <4>1. job \in Job /\ want[u] \in BOOLEAN
        BY <3>2 DEF TypeOK
      <4>2. job' = [job EXCEPT !.enabled = want[u], !.valid = TRUE, !.next = NextRun]
        BY <1>15, <3>2 DEF EditApplies
      <4> QED BY <4>1, <4>2, JobExcept, NextRunIsTime
    <3> QED BY <3>1, <3>2
  <2>2. copy' \in [Executors \cup Editors -> Job \cup {Gone}]
    BY <1>15, <2>1 DEF EditApplies, TypeOK
  <2>3. chances' \in Nat
    BY <1>15 DEF EditApplies, TypeOK
  <2> QED BY <1>15, <2>1, <2>2, <2>3 DEF TypeOK, EditApplies
<1>16. ASSUME NEW u \in Editors, EditSaves(u) PROVE TypeOK'
  BY <1>16 DEF TypeOK, EditSaves
<1>17. ASSUME NEW d \in Deleters, Delete(d) PROVE TypeOK'
  <2>1. loose' \in Nat
    BY <1>17 DEF Delete, Named, TypeOK
  <2> QED BY <1>17, <2>1 DEF TypeOK, Delete, RunStates
<1>18. ASSUME NEW d \in Deleters, DeleteFile(d) PROVE TypeOK'
  BY <1>18 DEF TypeOK, DeleteFile
<1>19. CASE RunEnds
  <2>1. active' \in RunStates /\ run' \in [Executors -> RunStates] /\ loose' \in Nat
    BY <1>19 DEF TypeOK, RunEnds, RunStates
  <2> QED BY <1>19, <2>1 DEF TypeOK, RunEnds
<1>20. CASE Ready
  BY <1>20 DEF TypeOK, Ready
<1>21. CASE Time
  <2>1. clock' \in 0 .. MaxTime
    BY <1>21, AutomationAssumption DEF TypeOK, Time, At
  <2> QED BY <1>21, <2>1 DEF TypeOK, Time
<1>22. CASE Restart
  <2>1. job' \in Job \cup {Gone} /\ disk' \in Job \cup {Gone}
    BY <1>22, LoadedIsNotRunning DEF Restart, TypeOK
  <2>2. ex' \in [Executors -> Phases]
    BY <1>22, <1>a DEF Restart, TypeOK
  <2>3. faults' \in 0 .. MaxFaults
    BY <1>22, FaultType DEF Restart
  <2>4. copy' \in [Executors \cup Editors -> Job \cup {Gone}]
    BY <1>22 DEF Restart, TypeOK
  <2>5. /\ edit' \in [Editors -> {"new", "read", "applied", "done"}]
        /\ want' \in [Editors -> BOOLEAN]
        /\ remove' \in [Deleters -> {"new", "removed", "done"}]
    BY <1>22 DEF Restart, TypeOK
  <2>6. chances' \in Nat /\ raced' \subseteq Executors
    BY <1>22 DEF Restart, TypeOK
  <2>7. /\ ready' \in BOOLEAN /\ dropped' \in BOOLEAN /\ misjudged' \in BOOLEAN
        /\ lost' \in BOOLEAN
    BY <1>22 DEF Restart
  <2>8. active' \in RunStates /\ run' \in [Executors -> RunStates] /\ loose' \in Nat
    BY <1>22 DEF Restart, RunStates
  <2> QED BY <1>22, <2>1, <2>2, <2>3, <2>4, <2>5, <2>6, <2>7, <2>8 DEF TypeOK, Restart
<1>23. CASE UNCHANGED vars
  BY <1>23 DEF TypeOK, vars
<1>25. ASSUME NEW e \in Executors, Enter(e) PROVE TypeOK'
  <2>1. ex' \in [Executors -> Phases]
    BY <1>25, <1>c, <1>d DEF Enter
  <2>2. loose' \in Nat /\ lost' \in BOOLEAN
    BY <1>25 DEF Enter, Named, TypeOK
  <2>3. active' \in RunStates /\ run' \in [Executors -> RunStates]
    BY <1>25 DEF Enter, TypeOK, RunStates
  <2> QED BY <1>25, <2>1, <2>2, <2>3 DEF TypeOK, Enter
<1>24. ASSUME NEW e \in Executors, Execute(e) PROVE TypeOK'
  BY <1>4, <1>5, <1>6, <1>7, <1>8, <1>9, <1>10, <1>11, <1>12, <1>24, <1>25 DEF Execute
<1> QED
  BY <1>1, <1>2, <1>3, <1>13, <1>14, <1>15, <1>16, <1>17, <1>18, <1>19, <1>20, <1>21, <1>22,
     <1>23, <1>24 DEF Next

\* The types hold at the beginning.
LEMMA InitType == ASSUME Init PROVE TypeOK
<1>1. job \in Job
  BY DEF Init, Job, At
<1>2. ex \in [Executors -> Phases]
  BY DEF Init, Phases
<1>3. copy \in [Executors \cup Editors -> Job \cup {Gone}]
  BY DEF Init
<1>4. clock \in 0 .. MaxTime /\ faults \in 0 .. MaxFaults
  BY AutomationAssumption DEF Init
<1>5. /\ ready \in BOOLEAN /\ dropped \in BOOLEAN /\ misjudged \in BOOLEAN /\ lost \in BOOLEAN
      /\ active \in RunStates /\ run \in [Executors -> RunStates] /\ loose \in Nat
  BY DEF Init, RunStates
<1>6. disk \in Job
  BY <1>1 DEF Init
<1> QED BY <1>1, <1>2, <1>3, <1>4, <1>5, <1>6 DEF Init, TypeOK

\* The types hold in every state of the specification.
THEOREM TypeCorrect == Spec => []TypeOK
<1>1. Init => TypeOK
  BY InitType
<1>2. TypeOK /\ [Next]_vars => TypeOK'
  BY TypeStep
<1> QED BY <1>1, <1>2, PTL DEF Spec

-----------------------------------------------------------------------------
(* The claim.                                                              *)

\* A step that leaves the holders and the mark on the job alone.
Calm ==
    /\ Holders' = Holders
    /\ job' = Gone \/ (job # Gone /\ job' # Gone /\ job'.status = job.status)
    /\ UNCHANGED <<dropped, misjudged>>

\* An executor that holds nothing, and goes where nothing is held, leaves the
\* holders alone.
LEMMA HoldersStay ==
    ASSUME TypeOK, NEW e \in Executors, NEW phase \in Phases, Goes(e, phase),
           ex[e] \in Holding <=> phase \in Holding
    PROVE  Holders' = Holders
<1>1. CASE phase \in Holding
  BY <1>1, Moves DEF Holders
<1>2. CASE phase \notin Holding
  BY <1>2, Moves DEF Holders
<1> QED BY <1>1, <1>2

\* So does one that holds nothing and ends.
LEMMA HoldersStayAtEnd ==
    ASSUME TypeOK, NEW e \in Executors, Ends(e), ex[e] \notin Holding
    PROVE  Holders' = Holders
<1> DEFINE phase == IF e = tick THEN "idle" ELSE "done"
<1>1. Goes(e, phase) /\ phase \in Phases /\ phase \notin Holding
  BY EndsGoes DEF Phases, Holding
<1> HIDE DEF phase
<1> QED BY <1>1, HoldersStay

\* All the steps but those that claim, settle and drop, and a restart, are calm.
LEMMA CalmSteps ==
    ASSUME TypeOK
    PROVE  /\ Due => Calm
           /\ \A r \in Requests : RunNow(r) => Calm
           /\ \A e \in Executors :
                 Look(e) \/ Clear(e) \/ SeeActive(e) \/ SaveClaim(e) \/ Prepare(e)
                    \/ Dispatch(e) \/ Enter(e) \/ DeleteFinished(e) => Calm
           /\ \A u \in Editors : EditReads(u) \/ EditApplies(u) \/ EditSaves(u) => Calm
           /\ \A d \in Deleters : Delete(d) \/ DeleteFile(d) => Calm
           /\ RunEnds \/ Ready \/ Time \/ UNCHANGED vars => Calm
<1> USE DEF stored, runs, users, history
<1>a. /\ {"picked", "finishing", "refusing", "clearing", "looking", "claiming", "idle"} \subseteq Phases
      /\ {"claimed", "saved", "prepared", "started", "succeeded", "failed"} \subseteq Phases
  BY DEF Phases, Choosing, Holding
<1>b. ex' = ex => Holders' = Holders
  BY DEF Holders
<1>c. UNCHANGED <<job, dropped, misjudged>> /\ Holders' = Holders => Calm
  BY DEF Calm
<1>1. ASSUME Due PROVE Calm
  BY <1>1, <1>a, <1>c, HoldersStay, ExecutorsAre DEF Due, Holding
<1>2. ASSUME NEW r \in Requests, RunNow(r) PROVE Calm
  <2>1. Holders' = Holders
    BY <1>2, <1>a, HoldersStay, HoldersStayAtEnd, ExecutorsAre DEF RunNow, Holding
  <2> QED BY <1>2, <1>c, <2>1 DEF RunNow
<1>3. ASSUME NEW e \in Executors, Look(e) PROVE Calm
  <2>1. Holders' = Holders
    BY <1>3, <1>a, HoldersStay, HoldersStayAtEnd DEF Look, Holding
  <2> QED BY <1>3, <1>c, <2>1 DEF Look
<1>4. ASSUME NEW e \in Executors, Clear(e) PROVE Calm
  BY <1>4, <1>a, <1>c, HoldersStay DEF Clear, Holding
<1>5. ASSUME NEW e \in Executors, SeeActive(e) PROVE Calm
  <2>1. Holders' = Holders
    BY <1>5, <1>a, HoldersStay, HoldersStayAtEnd DEF SeeActive, Holding
  <2> QED BY <1>5, <1>c, <2>1 DEF SeeActive
<1>6. ASSUME NEW e \in Executors, SaveClaim(e) PROVE Calm
  BY <1>6, <1>a, <1>c, HoldersStay DEF SaveClaim, Holding
<1>7. ASSUME NEW e \in Executors, Prepare(e) PROVE Calm
  <2>1. Holders' = Holders
    BY <1>7, <1>a, HoldersStay DEF Prepare, Holding
  <2> QED BY <1>7, <1>c, <2>1 DEF Prepare
<1>8. ASSUME NEW e \in Executors, Dispatch(e) PROVE Calm
  <2>1. Holders' = Holders
    BY <1>8, <1>a, HoldersStay DEF Dispatch, Holding
  <2> QED BY <1>8, <1>c, <2>1 DEF Dispatch
<1>16. ASSUME NEW e \in Executors, Enter(e) PROVE Calm
  BY <1>16, <1>a, <1>c, HoldersStay DEF Enter, Holding
<1>9. ASSUME NEW e \in Executors, DeleteFinished(e) PROVE Calm
  BY <1>9, <1>c, HoldersStayAtEnd DEF DeleteFinished, Holding
<1>10. ASSUME NEW u \in Editors, EditReads(u) PROVE Calm
  BY <1>10, <1>b, <1>c DEF EditReads
<1>11. ASSUME NEW u \in Editors, EditApplies(u) PROVE Calm
  <2>1. CASE job = Gone
    BY <1>11, <1>b, <2>1 DEF EditApplies, Calm
  <2>2. CASE job # Gone
    <3>1. job \in Job /\ want[u] \in BOOLEAN
      BY <2>2 DEF TypeOK
    <3>2. job' = [job EXCEPT !.enabled = want[u], !.valid = TRUE, !.next = NextRun]
      BY <1>11, <2>2 DEF EditApplies
    <3> DEFINE edited == [job EXCEPT !.enabled = want[u], !.valid = TRUE, !.next = NextRun]
    <3>3. edited \in Job
      BY <3>1, JobExcept, NextRunIsTime
    <3>5. edited.status = job.status
      BY <3>1, NextRunIsTime DEF Job
    <3> HIDE DEF edited
    <3>4. job' # Gone /\ job'.status = job.status
      BY <3>2, <3>3, <3>5, JobIsNotGone DEF edited
    <3> QED BY <1>11, <1>b, <2>2, <3>4 DEF EditApplies, Calm
  <2> QED BY <2>1, <2>2
<1>12. ASSUME NEW u \in Editors, EditSaves(u) PROVE Calm
  BY <1>12, <1>b, <1>c DEF EditSaves
<1>13. ASSUME NEW d \in Deleters, Delete(d) PROVE Calm
  BY <1>13, <1>b DEF Delete, Calm
<1>14. ASSUME NEW d \in Deleters, DeleteFile(d) PROVE Calm
  BY <1>14, <1>b, <1>c DEF DeleteFile
<1>15. ASSUME RunEnds \/ Ready \/ Time \/ UNCHANGED vars PROVE Calm
  BY <1>15, <1>b, <1>c DEF RunEnds, Ready, Time, vars
<1> QED
  BY <1>1, <1>2, <1>3, <1>4, <1>5, <1>6, <1>7, <1>8, <1>9, <1>10, <1>11, <1>12, <1>13, <1>14,
     <1>15, <1>16

\* A calm step keeps the claim exclusive and visible.
LEMMA CalmKeepsClaim ==
    ASSUME OneExecutor, RunningIsHeld, Calm
    PROVE  OneExecutor' /\ RunningIsHeld'
BY DEF OneExecutor, RunningIsHeld, Calm

\* Every step keeps the claim exclusive and visible.
LEMMA ClaimStep ==
    ASSUME TypeOK, OneExecutor, RunningIsHeld, [Next]_vars
    PROVE  OneExecutor' /\ RunningIsHeld'
<1> USE DEF stored, runs, users, history
<1>1. ASSUME NEW e \in Executors, Claim(e) PROVE OneExecutor' /\ RunningIsHeld'
  <2>1. CASE Claimable
    <3>1. Goes(e, "claimed") /\ job' = [job EXCEPT !.status = "running"]
      BY <1>1, <2>1 DEF Claim
    <3>2. Holders' = Holders \cup {e}
      BY <3>1, Moves DEF Phases, Holding
    <3>3. job # Gone /\ job \in Job /\ job.status # "running"
      BY <2>1 DEF Claimable, TypeOK
    <3>4. job'.status = "running"
      BY <3>1, <3>3, JobExcept
    <3>5. misjudged' = misjudged /\ (misjudged \/ Holders = {})
      BY <1>1, <3>3 DEF Claim, RunningIsHeld
    <3> QED BY <3>2, <3>4, <3>5 DEF OneExecutor, RunningIsHeld
  <2>2. CASE ~Claimable
    <3>1. Holders' = Holders
      BY <1>1, <2>2, HoldersStayAtEnd DEF Claim, Holding
    <3>2. Calm
      BY <1>1, <2>2, <3>1 DEF Claim, Calm
    <3> QED BY <3>2, CalmKeepsClaim
  <2> QED BY <2>1, <2>2
<1>2. ASSUME NEW e \in Executors, Settle(e) PROVE OneExecutor' /\ RunningIsHeld'
  <2> DEFINE success == ex[e] = "succeeded"
             delete == job # Gone /\ ShouldDelete(success)
  <2>1. Holders' = Holders \ {e}
    <3>1. CASE delete
      BY <1>2, <3>1, Moves DEF Settle, Phases, Choosing, Holding
    <3>2. CASE ~delete
      <4>1. Ends(e)
        BY <1>2, <3>2 DEF Settle
      <4> QED BY <4>1, EndsGoes, Moves DEF Phases, Holding
    <3> QED BY <3>1, <3>2
  <2>2. e \in Holders
    BY <1>2 DEF Settle, Holders, Holding
  <2>3. job' = Gone \/ job'.status # "running"
    <3>1. CASE job = Gone
      BY <1>2, <3>1 DEF Settle
    <3>2. CASE delete
      BY <1>2, <3>2 DEF Settle
    <3>3. CASE job # Gone /\ ~delete
      <4>1. job' = Settled(job, success) /\ job \in Job
        BY <1>2, <3>3 DEF Settle, TypeOK
      <4>2. Settled(job, success).status # "running"
        BY <4>1, SettledIsOver
      <4> QED BY <4>1, <4>2
    <3> QED BY <3>1, <3>2, <3>3
  <2>4. misjudged' = misjudged
    BY <1>2 DEF Settle
  <2> QED BY <2>1, <2>2, <2>3, <2>4 DEF OneExecutor, RunningIsHeld
<1>3. ASSUME NEW r \in Requests, Drop(r) PROVE OneExecutor' /\ RunningIsHeld'
  <2>1. Holders' = Holders \ {r}
    BY <1>3, Moves, ExecutorsAre DEF Drop, Phases, Holding
  <2>2. r \in Holders => dropped'
    BY <1>3 DEF Drop, Holders
  <2>3. dropped => dropped'
    BY <1>3 DEF Drop
  <2>4. misjudged' = misjudged /\ job' = job
    BY <1>3 DEF Drop
  <2>5. OneExecutor'
    BY <2>1, <2>4 DEF OneExecutor
  <2>6. job' # Gone /\ job'.status = "running" => Holders' # {} \/ dropped'
    BY <2>1, <2>2, <2>3, <2>4 DEF RunningIsHeld
  <2>7. job' # Gone /\ Holders' # {} => job'.status = "running" \/ misjudged'
    BY <2>1, <2>4 DEF RunningIsHeld
  <2> QED BY <2>5, <2>6, <2>7 DEF RunningIsHeld
<1>4. ASSUME NEW r \in Requests, Refuse(r) PROVE OneExecutor' /\ RunningIsHeld'
  <2>1. Holders' = Holders
    BY <1>4, HoldersStayAtEnd, ExecutorsAre DEF Refuse, Holding
  <2>2. CASE job = Gone
    BY <1>4, <2>1, <2>2, CalmKeepsClaim DEF Refuse, Calm
  <2>3. CASE job # Gone
    <3>1. job' = Settled(job, FALSE) /\ job \in Job
      BY <1>4, <2>3 DEF Refuse, TypeOK
    <3>2. Settled(job, FALSE).status # "running"
      BY <3>1, SettledIsOver
    <3>3. misjudged' <=> misjudged \/ job.status = "running"
      BY <1>4, <2>3 DEF Refuse
    <3>4. OneExecutor'
      BY <2>1, <3>3 DEF OneExecutor
    <3> QED BY <2>1, <2>3, <3>1, <3>2, <3>3, <3>4 DEF RunningIsHeld
  <2> QED BY <2>2, <2>3
<1>5. CASE Restart
  <2>1. Holders' = {}
    BY <1>5 DEF Restart, Holders, Holding
  <2>2. job' = Gone \/ job'.status # "running"
    BY <1>5, LoadedIsNotRunning DEF Restart, TypeOK
  <2> QED BY <2>1, <2>2 DEF OneExecutor, RunningIsHeld
<1>6. ASSUME NEW e \in Executors, Execute(e) PROVE OneExecutor' /\ RunningIsHeld'
  BY <1>1, <1>2, <1>6, CalmSteps, CalmKeepsClaim DEF Execute
<1>7. ASSUME NEW r \in Requests, RunNow(r) \/ Refuse(r) \/ Drop(r)
      PROVE  OneExecutor' /\ RunningIsHeld'
  BY <1>3, <1>4, <1>7, CalmSteps, CalmKeepsClaim
<1> QED BY <1>5, <1>6, <1>7, CalmSteps, CalmKeepsClaim DEF Next

-----------------------------------------------------------------------------
(* The chances.                                                            *)

\* The job holds at most one chance.
LEMMA ChanceIsOne == Chance \in {0, 1}
BY DEF Chance

\* A chance that is given covers the one that the job may come to hold.
LEMMA OneMoreChance ==
    ASSUME NEW m \in Nat, NEW n \in Nat, NEW k \in Nat,
           NEW c \in {0, 1}, NEW d \in {0, 1}, m + c + k <= n
    PROVE  m + d <= n + 1
<1>1. c \in Nat /\ d \in Nat /\ d <= 1
  OBVIOUS
<1> QED BY <1>1

\* A step that leaves the job and its chances alone, and lets nobody gain one.
Thrifty ==
    /\ IsFiniteSet(Spending') /\ Cardinality(Spending') = Cardinality(Spending)
    /\ UNCHANGED <<kind, job, fired, chances>>

\* An executor that goes where it holds as much as before gains nothing.
LEMMA SharesStay ==
    ASSUME TypeOK, IsFiniteSet(Spending),
           NEW e \in Executors, NEW phase \in Phases, Goes(e, phase),
           Share(ex[e]) = Share(phase)
    PROVE  IsFiniteSet(Spending') /\ Cardinality(Spending') = Cardinality(Spending)
<1>1. Share(phase) \in {0, 1}
  BY DEF Share
<1> QED BY <1>1, SharesMove

\* An executor that ends gives up what it held.
LEMMA SharesEnd ==
    ASSUME TypeOK, IsFiniteSet(Spending), NEW e \in Executors, Ends(e)
    PROVE  /\ IsFiniteSet(Spending')
           /\ Cardinality(Spending) \in Nat /\ Cardinality(Spending') \in Nat
           /\ Cardinality(Spending') + Share(ex[e]) = Cardinality(Spending)
<1> DEFINE phase == IF e = tick THEN "idle" ELSE "done"
<1>1. Goes(e, phase) /\ phase \in Phases /\ Share(phase) = 0
  BY EndsGoes DEF Phases, Share
<1> HIDE DEF phase
<1>2. /\ IsFiniteSet(Spending')
      /\ Cardinality(Spending) \in Nat /\ Cardinality(Spending') \in Nat
      /\ Cardinality(Spending') + Share(ex[e]) = Cardinality(Spending) + 0
  BY <1>1, SharesMove
<1> QED BY <1>2

\* All the steps but those that claim, dispatch, settle, drop, edit or delete, and a
\* restart, are thrifty.
LEMMA ThriftySteps ==
    ASSUME TypeOK, IsFiniteSet(Spending)
    PROVE  /\ Due => Thrifty
           /\ \A r \in Requests : RunNow(r) => Thrifty
           /\ \A e \in Executors :
                 Look(e) \/ Clear(e) \/ SeeActive(e) \/ SaveClaim(e) \/ Prepare(e)
                    \/ Enter(e) \/ DeleteFinished(e) => Thrifty
           /\ \A u \in Editors : EditReads(u) \/ EditSaves(u) => Thrifty
           /\ \A d \in Deleters : DeleteFile(d) => Thrifty
           /\ RunEnds \/ Ready \/ Time \/ UNCHANGED vars => Thrifty
<1> USE DEF stored, runs, users, history
<1>a. /\ {"picked", "finishing", "refusing", "clearing", "looking", "claiming", "idle"} \subseteq Phases
      /\ {"claimed", "saved", "prepared", "started", "succeeded", "failed"} \subseteq Phases
  BY DEF Phases, Choosing, Holding
<1>b. ex' = ex => IsFiniteSet(Spending') /\ Cardinality(Spending') = Cardinality(Spending)
  <2>1. ex' = ex => Spending' = Spending
    BY DEF Spending
  <2> QED BY <2>1
<1>c. ASSUME NEW e \in Executors, Ends(e), Share(ex[e]) = 0
      PROVE  IsFiniteSet(Spending') /\ Cardinality(Spending') = Cardinality(Spending)
  <2>1. /\ IsFiniteSet(Spending')
        /\ Cardinality(Spending) \in Nat /\ Cardinality(Spending') \in Nat
        /\ Cardinality(Spending') + 0 = Cardinality(Spending)
    BY <1>c, SharesEnd
  <2> QED BY <2>1
<1>1. ASSUME Due PROVE Thrifty
  BY <1>1, <1>a, SharesStay, ExecutorsAre DEF Due, Share, Thrifty
<1>2. ASSUME NEW r \in Requests, RunNow(r) PROVE Thrifty
  <2>1. IsFiniteSet(Spending') /\ Cardinality(Spending') = Cardinality(Spending)
    BY <1>2, <1>a, <1>c, SharesStay, ExecutorsAre DEF RunNow, Share
  <2> QED BY <1>2, <2>1 DEF RunNow, Thrifty
<1>3. ASSUME NEW e \in Executors, Look(e) PROVE Thrifty
  <2>1. IsFiniteSet(Spending') /\ Cardinality(Spending') = Cardinality(Spending)
    BY <1>3, <1>a, <1>c, SharesStay DEF Look, Share
  <2> QED BY <1>3, <2>1 DEF Look, Thrifty
<1>4. ASSUME NEW e \in Executors, Clear(e) PROVE Thrifty
  BY <1>4, <1>a, SharesStay DEF Clear, Share, Thrifty
<1>5. ASSUME NEW e \in Executors, SeeActive(e) PROVE Thrifty
  <2>1. IsFiniteSet(Spending') /\ Cardinality(Spending') = Cardinality(Spending)
    BY <1>5, <1>a, <1>c, SharesStay DEF SeeActive, Share
  <2> QED BY <1>5, <2>1 DEF SeeActive, Thrifty
<1>6. ASSUME NEW e \in Executors, SaveClaim(e) PROVE Thrifty
  BY <1>6, <1>a, SharesStay DEF SaveClaim, Share, Thrifty
<1>7. ASSUME NEW e \in Executors, Prepare(e) PROVE Thrifty
  <2>1. IsFiniteSet(Spending') /\ Cardinality(Spending') = Cardinality(Spending)
    BY <1>7, <1>a, SharesStay DEF Prepare, Share
  <2> QED BY <1>7, <2>1 DEF Prepare, Thrifty
<1>13. ASSUME NEW e \in Executors, Enter(e) PROVE Thrifty
  BY <1>13, <1>a, SharesStay DEF Enter, Share, Thrifty
<1>8. ASSUME NEW e \in Executors, DeleteFinished(e) PROVE Thrifty
  BY <1>8, <1>c DEF DeleteFinished, Share, Thrifty
<1>9. ASSUME NEW u \in Editors, EditReads(u) PROVE Thrifty
  BY <1>9, <1>b DEF EditReads, Thrifty
<1>10. ASSUME NEW u \in Editors, EditSaves(u) PROVE Thrifty
  BY <1>10, <1>b DEF EditSaves, Thrifty
<1>11. ASSUME NEW d \in Deleters, DeleteFile(d) PROVE Thrifty
  BY <1>11, <1>b DEF DeleteFile, Thrifty
<1>12. ASSUME RunEnds \/ Ready \/ Time \/ UNCHANGED vars PROVE Thrifty
  BY <1>12, <1>b DEF RunEnds, Ready, Time, vars, Thrifty
<1> QED
  BY <1>1, <1>2, <1>3, <1>4, <1>5, <1>6, <1>7, <1>8, <1>9, <1>10, <1>11, <1>12, <1>13

\* Every step keeps the chances.
LEMMA ChanceStep ==
    ASSUME TypeOK, IsFiniteSet(Spending), FiredOnce, [Next]_vars
    PROVE  IsFiniteSet(Spending') /\ FiredOnce'
<1> USE DEF stored, runs, users, history
<1> DEFINE Kept == IsFiniteSet(Spending') /\ FiredOnce'
<1>a. fired \in Nat /\ chances \in Nat /\ Chance \in {0, 1} /\ Cardinality(Spending) \in Nat
  BY ChanceIsOne, FS_CardinalityType DEF TypeOK
<1>b. job' = job => Chance' = Chance
  BY DEF Chance
<1>c. job' = Gone => Chance' = 0
  BY DEF Chance
<1>d. Chance' \in {0, 1}
  BY DEF Chance
<1>e. ex' = ex => Spending' = Spending
  BY DEF Spending
<1>f. Thrifty => Kept
  BY <1>b DEF Thrifty, FiredOnce
<1>1. ASSUME NEW e \in Executors, Claim(e) PROVE Kept
  <2>1. CASE Claimable
    <3>1. Goes(e, "claimed") /\ job' = [job EXCEPT !.status = "running"]
      BY <1>1, <2>1 DEF Claim
    <3>2. /\ IsFiniteSet(Spending') /\ Cardinality(Spending') \in Nat
          /\ Cardinality(Spending') + 0 = Cardinality(Spending) + 1
      BY <1>1, <3>1, SharesMove DEF Claim, Share, Phases, Holding
    <3>3. job # Gone /\ job \in Job /\ Chance = 1
      BY <2>1 DEF Claimable, TypeOK, Chance
    <3>4. job'.status = "running"
      BY <3>1, <3>3, JobExcept
    <3>5. Chance' = 0
      BY <3>4 DEF Chance
    <3>6. kind' = kind /\ fired' = fired /\ chances' = chances
      BY <1>1 DEF Claim
    <3> QED BY <1>a, <3>2, <3>3, <3>5, <3>6 DEF FiredOnce
  <2>2. CASE ~Claimable
    <3>1. /\ IsFiniteSet(Spending') /\ Cardinality(Spending') \in Nat
          /\ Cardinality(Spending') + 0 = Cardinality(Spending)
      BY <1>1, <2>2, SharesEnd DEF Claim, Share
    <3>2. Thrifty
      BY <1>1, <1>a, <2>2, <3>1 DEF Claim, Thrifty
    <3> QED BY <1>f, <3>2
  <2> QED BY <2>1, <2>2
<1>2. ASSUME NEW e \in Executors, Dispatch(e) PROVE Kept
  <2>1. kind' = kind /\ chances' = chances /\ Chance' = Chance
    BY <1>2, <1>b DEF Dispatch
  <2>2. CASE Goes(e, "started") /\ fired' = IF kind = "interval" THEN fired ELSE fired + 1
    <3>1. /\ IsFiniteSet(Spending') /\ Cardinality(Spending') \in Nat
          /\ Cardinality(Spending') + 1 = Cardinality(Spending) + 0
      BY <1>2, <2>2, SharesMove DEF Dispatch, Share, Phases, Holding
    <3> QED BY <1>a, <2>1, <2>2, <3>1 DEF FiredOnce
  <2>3. CASE Goes(e, "failed") /\ fired' = fired
    <3>1. IsFiniteSet(Spending') /\ Cardinality(Spending') = Cardinality(Spending)
      BY <1>2, <2>3, SharesStay DEF Dispatch, Share, Phases, Holding
    <3> QED BY <1>a, <2>1, <2>3, <3>1 DEF FiredOnce
  <2> QED BY <1>2, <2>2, <2>3 DEF Dispatch
<1>3. ASSUME NEW e \in Executors, Settle(e) PROVE Kept
  <2> DEFINE success == ex[e] = "succeeded"
             delete == job # Gone /\ ShouldDelete(success)
  <2>1. kind' = kind /\ chances' = chances /\ fired' = fired
    BY <1>3 DEF Settle
  <2>2. /\ IsFiniteSet(Spending') /\ Cardinality(Spending') \in Nat
        /\ Cardinality(Spending') + Share(ex[e]) = Cardinality(Spending)
    <3>1. CASE delete
      <4>1. Goes(e, "finishing") /\ Share("finishing") = 0 /\ Share(ex[e]) \in {0, 1}
        BY <1>3, <3>1 DEF Settle, Share
      <4>2. /\ IsFiniteSet(Spending') /\ Cardinality(Spending') \in Nat
            /\ Cardinality(Spending') + Share(ex[e]) = Cardinality(Spending) + 0
        BY <4>1, SharesMove DEF Phases
      <4> QED BY <1>a, <4>2
    <3>2. CASE ~delete
      <4>1. Ends(e)
        BY <1>3, <3>2 DEF Settle
      <4> QED BY <4>1, SharesEnd
    <3> QED BY <3>1, <3>2
  <2>3. CASE success
    <3>1. Share(ex[e]) = 0
      BY <2>3 DEF Share
    <3>2. kind # "interval" => Chance' = 0
      <4>1. CASE job = Gone
        BY <1>3, <1>c, <4>1 DEF Settle
      <4>2. CASE delete
        BY <1>3, <1>c, <4>2 DEF Settle
      <4>3. CASE job # Gone /\ ~delete
        <5>1. job' = Settled(job, success) /\ job \in Job
          BY <1>3, <4>3 DEF Settle, TypeOK
        <5>2. kind # "interval" => ~Settled(job, success).enabled
          BY <2>3, <5>1, SettledIsOver
        <5> QED BY <5>1, <5>2 DEF Chance
      <4> QED BY <4>1, <4>2, <4>3
    <3> QED BY <1>a, <2>1, <2>2, <3>1, <3>2 DEF FiredOnce
  <2>4. CASE ~success
    <3>1. Share(ex[e]) = 1
      BY <1>3, <2>4 DEF Settle, Share
    <3> QED BY <1>a, <1>d, <2>1, <2>2, <3>1 DEF FiredOnce
  <2> QED BY <2>3, <2>4
<1>4. ASSUME NEW r \in Requests, Drop(r) PROVE Kept
  <2>1. kind' = kind /\ chances' = chances /\ fired' = fired /\ Chance' = Chance
    BY <1>4, <1>b DEF Drop
  <2>2. Share("done") = 0 /\ Share(ex[r]) \in {0, 1} /\ "done" \in Phases
    BY DEF Share, Phases
  <2>3. /\ IsFiniteSet(Spending') /\ Cardinality(Spending') \in Nat
        /\ Cardinality(Spending') + Share(ex[r]) = Cardinality(Spending) + 0
    BY <1>4, <2>2, SharesMove, ExecutorsAre DEF Drop
  <2> QED BY <1>a, <2>1, <2>2, <2>3 DEF FiredOnce
<1>5. ASSUME NEW r \in Requests, Refuse(r) PROVE Kept
  <2>1. /\ IsFiniteSet(Spending') /\ Cardinality(Spending') \in Nat
        /\ Cardinality(Spending') + 0 = Cardinality(Spending)
    BY <1>5, SharesEnd, ExecutorsAre DEF Refuse, Share
  <2>2. kind' = kind /\ fired' = fired
    BY <1>5 DEF Refuse
  <2>3. CASE job = Gone
    BY <1>5, <1>a, <1>b, <2>1, <2>2, <2>3 DEF Refuse, FiredOnce
  <2>4. CASE job # Gone /\ job.status = "running"
    <3>1. chances' = chances + 1 /\ Chance = 0
      BY <1>5, <2>4 DEF Refuse, Chance
    <3> QED BY <1>a, <1>d, <2>1, <2>2, <3>1 DEF FiredOnce
  <2>5. CASE job # Gone /\ job.status # "running"
    <3>1. job \in Job /\ job' = [job EXCEPT !.status = "failed"] /\ chances' = chances
      BY <1>5, <2>5 DEF Refuse, Settled, TypeOK
    <3>2. job'.enabled = job.enabled
      BY <3>1, JobExcept
    <3>3. Chance' = 1 => Chance = 1
      BY <2>5, <3>2 DEF Chance
    <3> QED BY <1>a, <1>d, <2>1, <2>2, <3>1, <3>3 DEF FiredOnce
  <2> QED BY <2>3, <2>4, <2>5
<1>6. ASSUME NEW u \in Editors, EditApplies(u) PROVE Kept
  <2>1. kind' = kind /\ fired' = fired /\ Spending' = Spending
    BY <1>6, <1>e DEF EditApplies
  <2>2. CASE job = Gone
    <3>1. Thrifty
      BY <1>6, <2>1, <2>2 DEF EditApplies, Thrifty
    <3> QED BY <1>f, <3>1
  <2>3. CASE job # Gone
    <3>1. job \in Job /\ want[u] \in BOOLEAN
      BY <2>3 DEF TypeOK
    <3>2. job' = [job EXCEPT !.enabled = want[u], !.valid = TRUE, !.next = NextRun]
      BY <1>6, <2>3 DEF EditApplies
    <3>3. CASE want[u]
      <4>1. chances' = chances + 1
        BY <1>6, <2>3, <3>3 DEF EditApplies
      <4> QED BY <1>a, <1>d, <2>1, <4>1 DEF FiredOnce
    <3>4. CASE ~want[u]
      <4>1. chances' = chances
        BY <1>6, <2>3, <3>4 DEF EditApplies
      <4>2. ~job'.enabled
        BY <3>1, <3>2, <3>4 DEF Job
      <4>3. Chance' = 0
        BY <4>2 DEF Chance
      <4> QED BY <1>a, <2>1, <4>1, <4>3 DEF FiredOnce
    <3> QED BY <3>3, <3>4
  <2> QED BY <2>2, <2>3
<1>7. ASSUME NEW d \in Deleters, Delete(d) PROVE Kept
  <2>1. kind' = kind /\ fired' = fired /\ chances' = chances /\ Spending' = Spending
    BY <1>7, <1>e DEF Delete
  <2>2. Chance' = 0
    BY <1>7, <1>c DEF Delete
  <2> QED BY <1>a, <2>1, <2>2 DEF FiredOnce
<1>8. ASSUME Restart PROVE Kept
  <2>1. Spending' = {}
    BY <1>8 DEF Restart, Spending
  <2>2. IsFiniteSet(Spending') /\ Cardinality(Spending') = 0
    BY <2>1, FS_EmptySet
  <2>3. kind' = kind /\ fired' = fired /\ chances' = chances + 1
    BY <1>8 DEF Restart
  <2>4. CASE kind # "interval"
    <3>1. fired + Chance + Cardinality(Spending) <= chances
      BY <2>4 DEF FiredOnce
    <3>2. PICK k \in Nat : k = Cardinality(Spending)
      BY <1>a
    <3>3. PICK c \in {0, 1} : c = Chance
      BY <1>a
    <3>4. PICK d \in {0, 1} : d = Chance'
      BY <1>d
    <3>5. fired + c + k <= chances
      BY <3>1, <3>2, <3>3
    <3>6. fired + d <= chances + 1
      BY <1>a, <3>5, OneMoreChance
    <3>7. fired' + d + 0 <= chances'
      BY <1>a, <2>3, <3>6
    <3> QED BY <2>2, <3>4, <3>7 DEF FiredOnce
  <2>5. CASE kind = "interval"
    BY <2>2, <2>3, <2>5 DEF FiredOnce
  <2> QED BY <2>4, <2>5
<1>9. ASSUME NEW e \in Executors, Execute(e) PROVE Kept
  BY <1>1, <1>2, <1>3, <1>9, <1>f, ThriftySteps DEF Execute
<1>10. ASSUME NEW r \in Requests, RunNow(r) \/ Refuse(r) \/ Drop(r) PROVE Kept
  BY <1>4, <1>5, <1>10, <1>f, ThriftySteps
<1>11. ASSUME NEW u \in Editors, EditReads(u) \/ EditApplies(u) \/ EditSaves(u) PROVE Kept
  BY <1>6, <1>11, <1>f, ThriftySteps
<1>12. ASSUME NEW d \in Deleters, Delete(d) \/ DeleteFile(d) PROVE Kept
  BY <1>7, <1>12, <1>f, ThriftySteps
<1> HIDE DEF Kept
<1>13. ASSUME Due \/ RunEnds \/ Ready \/ Time \/ UNCHANGED vars PROVE Kept
  BY <1>13, <1>f, ThriftySteps
<1>14. Kept
  BY <1>8, <1>9, <1>10, <1>11, <1>12, <1>13 DEF Next
<1> QED BY <1>14 DEF Kept

-----------------------------------------------------------------------------
(* What an executor has seen.                                              *)

\* What a phase relies on: nothing, that no run is active while the job is not
\* claimed, or that no run is active.
Sight(phase) ==
    IF phase = "claiming" THEN 1 ELSE IF phase \in {"claimed", "saved", "prepared"} THEN 2 ELSE 0

\* A step after which everybody relies on nothing, or on what it relied on before.
Blind ==
    \A x \in Executors :
        Sight(ex'[x]) = 0 \/ (Sight(ex'[x]) = Sight(ex[x]) /\ (x \in raced => x \in raced'))

\* One executor's move is such a step, when it comes to rely on nothing new.
LEMMA BlindMove ==
    ASSUME TypeOK, NEW e \in Executors, NEW phase \in Phases, Goes(e, phase),
           Sight(phase) \in {0, Sight(ex[e])},
           raced \subseteq raced' \cup {e},
           Sight(phase) = 0 \/ raced \subseteq raced'
    PROVE  Blind
BY Moves DEF Blind

\* So is the move of one that ends.
LEMMA BlindEnd ==
    ASSUME TypeOK, NEW e \in Executors, Ends(e), raced \subseteq raced' \cup {e}
    PROVE  Blind
<1> DEFINE phase == IF e = tick THEN "idle" ELSE "done"
<1>1. Goes(e, phase) /\ phase \in Phases /\ Sight(phase) = 0
  BY EndsGoes DEF Phases, Sight
<1> HIDE DEF phase
<1> QED BY <1>1, BlindMove

\* Nobody sees less when the mark on the job stays and no run begins.
LEMMA BlindKeepsSight ==
    ASSUME SawNoRun, Blind, misjudged' = misjudged,
           job' = Gone \/ (job # Gone /\ job' # Gone /\ job'.status = job.status),
           active' = "live" => active = "live"
    PROVE  SawNoRun'
<1> SUFFICES ASSUME ~misjudged', NEW x \in Executors, x \notin raced'
             PROVE  /\ ex'[x] = "claiming" =>
                          active' # "live" \/ job' = Gone \/ job'.status = "running"
                    /\ ex'[x] \in {"claimed", "saved", "prepared"} => active' # "live"
  BY DEF SawNoRun
<1>1. CASE ex'[x] = "claiming"
  <2>1. Sight(ex'[x]) = 1
    BY <1>1 DEF Sight
  <2>2. Sight(ex[x]) = 1 /\ x \notin raced
    BY <2>1 DEF Blind
  <2>3. ex[x] = "claiming"
    BY <2>2 DEF Sight
  <2> QED BY <1>1, <2>2, <2>3 DEF SawNoRun
<1>2. CASE ex'[x] \in {"claimed", "saved", "prepared"}
  <2>1. Sight(ex'[x]) = 2
    BY <1>2 DEF Sight
  <2>2. Sight(ex[x]) = 2 /\ x \notin raced
    BY <2>1 DEF Blind
  <2>3. ex[x] \in {"claimed", "saved", "prepared"}
    BY <2>2 DEF Sight
  <2> QED BY <1>2, <2>2, <2>3 DEF SawNoRun
<1> QED BY <1>1, <1>2

\* Every step but those that see no entry, claim, settle and restart is such a step.
LEMMA BlindSteps ==
    ASSUME TypeOK
    PROVE  /\ Due => Blind
           /\ \A r \in Requests : RunNow(r) \/ Refuse(r) \/ Drop(r) => Blind
           /\ \A e \in Executors :
                 Look(e) \/ Clear(e) \/ SaveClaim(e) \/ Prepare(e) \/ Dispatch(e)
                    \/ Enter(e) \/ DeleteFinished(e) => Blind
           /\ \A u \in Editors : EditReads(u) \/ EditApplies(u) \/ EditSaves(u) => Blind
           /\ \A d \in Deleters : Delete(d) \/ DeleteFile(d) => Blind
           /\ RunEnds \/ Ready \/ Time \/ UNCHANGED vars => Blind
<1> USE DEF stored, runs, users, history
<1>a. /\ {"picked", "finishing", "refusing", "clearing", "looking", "claiming", "idle", "done"} \subseteq Phases
      /\ {"claimed", "saved", "prepared", "started", "succeeded", "failed"} \subseteq Phases
  BY DEF Phases, Choosing, Holding
<1>c. ex' = ex /\ raced' = raced => Blind
  BY DEF Blind
<1>1. ASSUME Due PROVE Blind
  BY <1>1, <1>a, BlindMove, ExecutorsAre DEF Due, Sight
<1>2. ASSUME NEW r \in Requests, RunNow(r) PROVE Blind
  BY <1>2, <1>a, BlindMove, BlindEnd, ExecutorsAre DEF RunNow, Sight
<1>3. ASSUME NEW r \in Requests, Refuse(r) PROVE Blind
  BY <1>3, BlindEnd, ExecutorsAre DEF Refuse
<1>4. ASSUME NEW e \in Executors, Look(e) PROVE Blind
  BY <1>4, <1>a, BlindMove, BlindEnd DEF Look, Sight
<1>5. ASSUME NEW e \in Executors, Clear(e) PROVE Blind
  BY <1>5, <1>a, BlindMove DEF Clear, Sight
<1>6. ASSUME NEW e \in Executors, SaveClaim(e) PROVE Blind
  BY <1>6, <1>a, BlindMove DEF SaveClaim, Sight
<1>7. ASSUME NEW e \in Executors, Prepare(e) PROVE Blind
  BY <1>7, <1>a, BlindMove DEF Prepare, Sight
<1>8. ASSUME NEW e \in Executors, Dispatch(e) PROVE Blind
  BY <1>8, <1>a, BlindMove DEF Dispatch, Sight
<1>9. ASSUME NEW e \in Executors, Enter(e) PROVE Blind
  BY <1>9, <1>a, BlindMove DEF Enter, Sight
<1>10. ASSUME NEW e \in Executors, DeleteFinished(e) PROVE Blind
  BY <1>10, BlindEnd DEF DeleteFinished
<1>11. ASSUME NEW r \in Requests, Drop(r) PROVE Blind
  BY <1>11, <1>a, BlindMove, ExecutorsAre DEF Drop, Sight
<1>12. ASSUME NEW u \in Editors, EditReads(u) \/ EditApplies(u) \/ EditSaves(u) PROVE Blind
  BY <1>12, <1>c DEF EditReads, EditApplies, EditSaves
<1>13. ASSUME NEW d \in Deleters, Delete(d) \/ DeleteFile(d) PROVE Blind
  BY <1>13, <1>c DEF Delete, DeleteFile
<1>14. ASSUME RunEnds \/ Ready \/ Time \/ UNCHANGED vars PROVE Blind
  BY <1>14, <1>c DEF RunEnds, Ready, Time, vars
<1> QED
  BY <1>1, <1>2, <1>3, <1>4, <1>5, <1>6, <1>7, <1>8, <1>9, <1>10, <1>11, <1>12, <1>13, <1>14

\* Every step keeps what an executor has seen.
LEMMA SightStep ==
    ASSUME TypeOK, OneExecutor, RunningIsHeld, SawNoRun, [Next]_vars
    PROVE  SawNoRun'
<1> USE DEF stored, runs, users, history
<1>a. /\ {"picked", "finishing", "refusing", "clearing", "looking", "claiming", "idle", "done"} \subseteq Phases
      /\ {"claimed", "saved", "prepared", "started", "succeeded", "failed"} \subseteq Phases
  BY DEF Phases, Choosing, Holding
<1>b. Calm /\ Blind /\ (active' = "live" => active = "live") => SawNoRun'
  BY BlindKeepsSight DEF Calm
<1>1. CASE Due
  BY <1>1, <1>b, BlindSteps, CalmSteps DEF Due
<1>2. ASSUME NEW r \in Requests, RunNow(r) PROVE SawNoRun'
  BY <1>2, <1>b, BlindSteps, CalmSteps DEF RunNow
<1>3. ASSUME NEW r \in Requests, Refuse(r) PROVE SawNoRun'
  <2>1. Blind
    BY <1>3, BlindSteps
  <2>2. CASE job = Gone
    BY <1>3, <2>1, <2>2, BlindKeepsSight DEF Refuse
  <2>3. CASE job # Gone /\ job.status = "running"
    BY <1>3, <2>3 DEF Refuse, SawNoRun
  <2>4. CASE job # Gone /\ job.status # "running"
    <3>1. misjudged' <=> misjudged
      BY <1>3, <2>4 DEF Refuse
    <3> SUFFICES ASSUME ~misjudged', NEW x \in Executors, x \notin raced'
                 PROVE  /\ ex'[x] = "claiming" => active' # "live"
                        /\ ex'[x] \in {"claimed", "saved", "prepared"} => active' # "live"
      BY DEF SawNoRun
    <3>2. Sight(ex'[x]) = 0 \/ (Sight(ex'[x]) = Sight(ex[x]) /\ x \notin raced)
      BY <2>1 DEF Blind
    <3>3. active' = active
      BY <1>3 DEF Refuse
    <3> QED BY <2>4, <3>1, <3>2, <3>3 DEF SawNoRun, Sight
  <2> QED BY <2>2, <2>3, <2>4
<1>4. ASSUME NEW e \in Executors, Look(e) PROVE SawNoRun'
  <2>1. Blind
    BY <1>4, BlindSteps
  <2>2. Calm
    BY <1>4, CalmSteps
  <2> QED BY <1>4, <1>b, <2>1, <2>2 DEF Look
<1>5. ASSUME NEW e \in Executors, Clear(e) PROVE SawNoRun'
  <2>1. Blind
    BY <1>5, BlindSteps
  <2>2. Calm
    BY <1>5, CalmSteps
  <2> QED BY <1>5, <1>b, <2>1, <2>2 DEF Clear
<1>6. ASSUME NEW e \in Executors, SeeActive(e) PROVE SawNoRun'
  <2>1. CASE active # "none"
    <3>1. Blind
      BY <1>6, <2>1, BlindEnd DEF SeeActive
    <3> QED BY <1>6, <1>b, <3>1, CalmSteps DEF SeeActive
  <2>2. CASE active = "none"
    BY <1>6, <2>2 DEF SeeActive, SawNoRun
  <2> QED BY <2>1, <2>2
<1>7. ASSUME NEW e \in Executors, Claim(e) PROVE SawNoRun'
  <2>1. CASE Claimable
    <3>1. Goes(e, "claimed") /\ raced' = raced /\ active' = active /\ misjudged' = misjudged
      BY <1>7, <2>1 DEF Claim
    <3>2. job # Gone /\ job \in Job /\ job.status # "running" /\ ex[e] = "claiming"
      BY <1>7, <2>1 DEF Claim, Claimable, TypeOK
    <3>3. job' = [job EXCEPT !.status = "running"]
      BY <1>7, <2>1 DEF Claim
    <3>4. job'.status = "running"
      BY <3>2, <3>3, JobExcept
    <3>5. /\ ex'[e] = "claimed"
          /\ \A x \in Executors : x # e => ex'[x] = ex[x]
      BY <1>a, <3>1, Moves
    <3>6. ASSUME ~misjudged', NEW x \in Executors, x \notin raced',
                 ex'[x] \in {"claimed", "saved", "prepared"}
          PROVE  active' # "live"
      BY <3>1, <3>2, <3>5, <3>6 DEF SawNoRun
    <3> QED BY <3>4, <3>6 DEF SawNoRun
  <2>2. CASE ~Claimable
    <3>1. Blind
      BY <1>7, <2>2, BlindEnd DEF Claim
    <3> QED BY <1>7, <2>2, <3>1, BlindKeepsSight DEF Claim
  <2> QED BY <2>1, <2>2
<1>8. ASSUME NEW e \in Executors, SaveClaim(e) PROVE SawNoRun'
  <2>1. Blind
    BY <1>8, BlindSteps
  <2>2. Calm
    BY <1>8, CalmSteps
  <2> QED BY <1>8, <1>b, <2>1, <2>2 DEF SaveClaim
<1>9. ASSUME NEW e \in Executors, Prepare(e) PROVE SawNoRun'
  <2>1. Blind
    BY <1>9, BlindSteps
  <2>2. Calm
    BY <1>9, CalmSteps
  <2> QED BY <1>9, <1>b, <2>1, <2>2 DEF Prepare
<1>10. ASSUME NEW e \in Executors, Dispatch(e) PROVE SawNoRun'
  <2>1. Blind
    BY <1>10, BlindSteps
  <2>2. Calm
    BY <1>10, CalmSteps
  <2> QED BY <1>10, <1>b, <2>1, <2>2 DEF Dispatch
<1>19. ASSUME NEW e \in Executors, Enter(e) PROVE SawNoRun'
  <2>1. /\ ex'[e] = "succeeded"
        /\ \A x \in Executors : x # e => ex'[x] = ex[x]
    BY <1>19, <1>a, Moves DEF Enter
  <2>2. e \in Holders
    BY <1>19 DEF Enter, Holders, Holding
  <2>3. misjudged' = misjudged /\ job' = job
    BY <1>19 DEF Enter
  <2> SUFFICES ASSUME ~misjudged', NEW x \in Executors
               PROVE  /\ ex'[x] = "claiming" => job' = Gone \/ job'.status = "running"
                      /\ ex'[x] \notin {"claimed", "saved", "prepared"}
    BY DEF SawNoRun
  <2>4. x # e => ex[x] \notin Holding
    BY <2>2, <2>3 DEF OneExecutor, Holders
  <2>5. ex'[x] \notin {"claimed", "saved", "prepared"}
    BY <2>1, <2>4 DEF Holding
  <2>6. job = Gone \/ job.status = "running"
    BY <2>2, <2>3 DEF RunningIsHeld
  <2> QED BY <2>3, <2>5, <2>6
<1>11. ASSUME NEW e \in Executors, Settle(e) PROVE SawNoRun'
  <2>1. ASSUME NEW x \in Executors PROVE x = e \/ ex'[x] = ex[x]
    BY <1>11, Moves, EndsGoes DEF Settle, Phases, Choosing, Holding
  <2>2. ex'[e] \in {"finishing", "idle", "done"}
    BY <1>11, Moves, EndsGoes DEF Settle, Phases, Choosing, Holding
  <2>3. /\ raced' = raced \cup {x \in Executors : ex[x] \in Choosing}
        /\ active' = active /\ misjudged' = misjudged
    BY <1>11 DEF Settle
  <2> SUFFICES ASSUME ~misjudged', NEW x \in Executors, x \notin raced'
               PROVE  /\ ex'[x] # "claiming"
                      /\ ex'[x] \in {"claimed", "saved", "prepared"} => active' # "live"
    BY DEF SawNoRun
  <2> QED BY <2>1, <2>2, <2>3 DEF SawNoRun, Choosing
<1>12. ASSUME NEW e \in Executors, DeleteFinished(e) PROVE SawNoRun'
  <2>1. Blind
    BY <1>12, BlindSteps
  <2>2. Calm
    BY <1>12, CalmSteps
  <2> QED BY <1>12, <1>b, <2>1, <2>2 DEF DeleteFinished
<1>13. ASSUME NEW r \in Requests, Drop(r) PROVE SawNoRun'
  BY <1>13, BlindSteps, BlindKeepsSight DEF Drop
<1>14. ASSUME NEW u \in Editors, EditReads(u) \/ EditApplies(u) \/ EditSaves(u)
       PROVE  SawNoRun'
  BY <1>14, <1>b, BlindSteps, CalmSteps DEF EditReads, EditApplies, EditSaves
<1>15. ASSUME NEW d \in Deleters, Delete(d) \/ DeleteFile(d) PROVE SawNoRun'
  BY <1>15, <1>b, BlindSteps, CalmSteps DEF Delete, DeleteFile
<1>16. ASSUME RunEnds \/ Ready \/ Time \/ UNCHANGED vars PROVE SawNoRun'
  BY <1>16, <1>b, BlindSteps, CalmSteps DEF RunEnds, Ready, Time, vars
<1>17. CASE Restart
  BY <1>17 DEF Restart, SawNoRun
<1>18. ASSUME NEW e \in Executors, Execute(e) PROVE SawNoRun'
  BY <1>4, <1>5, <1>6, <1>7, <1>8, <1>9, <1>10, <1>11, <1>12, <1>18, <1>19
  DEF Execute
<1> QED BY <1>1, <1>2, <1>3, <1>13, <1>14, <1>15, <1>16, <1>17, <1>18 DEF Next

-----------------------------------------------------------------------------
(* The runs that no entry names.                                           *)

\* A run that is not entered yet is with the executor that started it.
RunHeld == \A x \in Executors : run[x] = "live" => ex[x] = "started"

\* Every step keeps it so.
LEMMA RunStep ==
    ASSUME TypeOK, RunHeld, [Next]_vars
    PROVE  RunHeld'
<1> USE DEF stored, runs, users, history
<1>a. /\ {"picked", "finishing", "refusing", "clearing", "looking", "claiming", "idle", "done"} \subseteq Phases
      /\ {"claimed", "saved", "prepared", "started", "succeeded", "failed"} \subseteq Phases
  BY DEF Phases, Choosing, Holding
<1>b. ASSUME NEW e \in Executors, NEW phase \in Phases, Goes(e, phase), ex[e] # "started", run' = run
      PROVE  RunHeld'
  BY <1>b, Moves DEF RunHeld
<1>c. ASSUME NEW e \in Executors, Ends(e), ex[e] # "started", run' = run
      PROVE  RunHeld'
  BY <1>a, <1>b, <1>c DEF Ends
<1>d. ex' = ex /\ run' = run => RunHeld'
  BY DEF RunHeld
<1>1. CASE Due
  BY <1>1, <1>a, <1>b, ExecutorsAre DEF Due
<1>2. ASSUME NEW r \in Requests, RunNow(r) PROVE RunHeld'
  BY <1>2, <1>a, <1>b, <1>c, ExecutorsAre DEF RunNow
<1>3. ASSUME NEW r \in Requests, Refuse(r) PROVE RunHeld'
  BY <1>3, <1>c, ExecutorsAre DEF Refuse
<1>4. ASSUME NEW r \in Requests, Drop(r) PROVE RunHeld'
  <2>1. \A x \in Executors : x # r => ex'[x] = ex[x] /\ run'[x] = run[x]
    BY <1>4, <1>a, Moves, ExecutorsAre DEF Drop, TypeOK
  <2>2. run'[r] = "none"
    BY <1>4, ExecutorsAre DEF Drop, TypeOK
  <2> QED BY <2>1, <2>2 DEF RunHeld
<1>5. ASSUME NEW e \in Executors, Look(e) \/ Clear(e) PROVE RunHeld'
  BY <1>5, <1>a, <1>b, <1>c DEF Look, Clear
<1>6. ASSUME NEW e \in Executors, SeeActive(e) \/ Claim(e) PROVE RunHeld'
  BY <1>6, <1>a, <1>b, <1>c DEF SeeActive, Claim
<1>7. ASSUME NEW e \in Executors, SaveClaim(e) \/ Prepare(e) PROVE RunHeld'
  BY <1>7, <1>a, <1>b DEF SaveClaim, Prepare
<1>8. ASSUME NEW e \in Executors, Dispatch(e) PROVE RunHeld'
  <2>1. CASE Goes(e, "started") /\ run' = [run EXCEPT ![e] = "live"]
    <3>1. ex'[e] = "started" /\ \A x \in Executors : x # e => ex'[x] = ex[x]
      BY <1>a, <2>1, Moves
    <3>2. \A x \in Executors : x # e => run'[x] = run[x]
      BY <2>1 DEF TypeOK
    <3> QED BY <3>1, <3>2 DEF RunHeld
  <2>2. CASE Goes(e, "failed") /\ run' = run
    BY <1>8, <1>a, <1>b, <2>2 DEF Dispatch
  <2> QED BY <1>8, <2>1, <2>2 DEF Dispatch
<1>9. ASSUME NEW e \in Executors, Enter(e) PROVE RunHeld'
  <2>1. \A x \in Executors : x # e => ex'[x] = ex[x] /\ run'[x] = run[x]
    BY <1>9, <1>a, Moves DEF Enter, TypeOK
  <2>2. run'[e] = "none"
    BY <1>9 DEF Enter, TypeOK
  <2> QED BY <2>1, <2>2 DEF RunHeld
<1>10. ASSUME NEW e \in Executors, Settle(e) PROVE RunHeld'
  BY <1>10, <1>a, <1>b, <1>c DEF Settle
<1>11. ASSUME NEW e \in Executors, DeleteFinished(e) PROVE RunHeld'
  BY <1>11, <1>c DEF DeleteFinished
<1>12. ASSUME NEW u \in Editors, EditReads(u) \/ EditApplies(u) \/ EditSaves(u) PROVE RunHeld'
  BY <1>12, <1>d DEF EditReads, EditApplies, EditSaves
<1>13. ASSUME NEW d \in Deleters, Delete(d) \/ DeleteFile(d) PROVE RunHeld'
  BY <1>13, <1>d DEF Delete, DeleteFile
<1>14. CASE RunEnds
  <2>1. ex' = ex /\ \A x \in Executors : run'[x] = "live" => run[x] = "live"
    BY <1>14 DEF RunEnds, TypeOK
  <2> QED BY <2>1 DEF RunHeld
<1>15. CASE Ready \/ Time \/ UNCHANGED vars
  BY <1>15, <1>d DEF Ready, Time, vars
<1>16. CASE Restart
  BY <1>16 DEF Restart, RunHeld
<1>17. ASSUME NEW e \in Executors, Execute(e) PROVE RunHeld'
  BY <1>5, <1>6, <1>7, <1>8, <1>9, <1>10, <1>11, <1>17 DEF Execute
<1> QED BY <1>1, <1>2, <1>3, <1>4, <1>12, <1>13, <1>14, <1>15, <1>16, <1>17 DEF Next

\* Those that may still dispatch.
Sure == {"claimed", "saved", "prepared"}

\* A live run that no entry names, and that lost none, has left the job out of reach:
\* it is deleted, or keeps the mark of a request that was dropped; and nobody who may
\* still dispatch was ahead of it.
NoStray ==
    ~lost /\ ~misjudged /\ loose > 0 =>
        /\ job = Gone \/ (job.status = "running" /\ Holders = {})
        /\ \A x \in Executors \ raced : ex[x] \notin Sure

\* A calm step after which nobody new may dispatch keeps it so.
LEMMA StrayKept ==
    ASSUME NoStray, Calm, lost' = lost, loose' > 0 => loose > 0,
           \A x \in Executors \ raced' : ex'[x] \in Sure => x \notin raced /\ ex[x] \in Sure
    PROVE  NoStray'
<1> SUFFICES ASSUME ~lost', ~misjudged', loose' > 0
             PROVE  /\ job' = Gone \/ (job'.status = "running" /\ Holders' = {})
                    /\ \A x \in Executors \ raced' : ex'[x] \notin Sure
  BY DEF NoStray
<1>1. /\ job = Gone \/ (job.status = "running" /\ Holders = {})
      /\ \A x \in Executors \ raced : ex[x] \notin Sure
  BY DEF NoStray, Calm
<1>2. job' = Gone \/ (job'.status = "running" /\ Holders' = {})
  BY <1>1 DEF Calm
<1> QED BY <1>1, <1>2

\* So does one that is blind as well.
LEMMA BlindKeepsStray ==
    ASSUME NoStray, Calm, Blind, lost' = lost, loose' > 0 => loose > 0
    PROVE  NoStray'
<1>1. ASSUME NEW x \in Executors \ raced', ex'[x] \in Sure
      PROVE  x \notin raced /\ ex[x] \in Sure
  <2>1. Sight(ex'[x]) = 2
    BY <1>1 DEF Sight, Sure
  <2>2. Sight(ex[x]) = 2 /\ x \notin raced
    BY <2>1 DEF Blind
  <2> QED BY <2>2 DEF Sight, Sure
<1> QED BY <1>1, StrayKept

\* Every step keeps it so.
LEMMA StrayStep ==
    ASSUME TypeOK, OneExecutor, RunningIsHeld, SawNoRun, RunHeld, NoStray, [Next]_vars
    PROVE  NoStray'
<1> USE DEF stored, runs, users, history
<1>a. loose \in Nat /\ Named \in {0, 1} /\ (active # "live" => Named = 0)
  BY DEF TypeOK, Named
<1>b. Calm /\ Blind /\ lost' = lost /\ (loose' > 0 => loose > 0) => NoStray'
  BY BlindKeepsStray
<1>c. ASSUME lost' = (lost \/ active = "live"), loose' = loose + Named, Calm, Blind PROVE NoStray'
  <2>1. CASE active = "live"
    BY <1>c, <2>1 DEF NoStray
  <2>2. CASE active # "live"
    <3>1. lost' = lost /\ loose' = loose
      BY <1>a, <1>c, <2>2 DEF TypeOK
    <3> QED BY <1>b, <1>c, <3>1
  <2> QED BY <2>1, <2>2
<1>1. CASE Due
  BY <1>1, <1>b, BlindSteps, CalmSteps DEF Due
<1>2. ASSUME NEW r \in Requests, RunNow(r) PROVE NoStray'
  BY <1>2, <1>b, BlindSteps, CalmSteps DEF RunNow
<1>3. ASSUME NEW r \in Requests, Refuse(r) PROVE NoStray'
  <2>1. lost' = lost /\ loose' = loose
    BY <1>3 DEF Refuse
  <2>2. CASE job = Gone
    <3>1. Holders' = Holders
      BY <1>3, HoldersStayAtEnd, ExecutorsAre DEF Refuse, Holding
    <3>2. Calm
      BY <1>3, <2>2, <3>1 DEF Refuse, Calm
    <3> QED BY <1>3, <1>b, <2>1, <3>2, BlindSteps
  <2>3. CASE job # Gone /\ job.status = "running"
    <3>1. misjudged'
      BY <1>3, <2>3 DEF Refuse
    <3> QED BY <3>1 DEF NoStray
  <2>4. CASE job # Gone /\ job.status # "running"
    <3>1. misjudged' <=> misjudged
      BY <1>3, <2>4 DEF Refuse
    <3> QED BY <2>1, <2>4, <3>1 DEF NoStray
  <2> QED BY <2>2, <2>3, <2>4
<1>4. ASSUME NEW r \in Requests, Drop(r) PROVE NoStray'
  <2>0. r \in Executors /\ Blind
    BY <1>4, BlindSteps, ExecutorsAre
  <2>1. Holders' = Holders \ {r}
    BY <1>4, <2>0, Moves DEF Drop, Phases, Holding
  <2>2. lost' = lost /\ misjudged' = misjudged /\ job' = job
    BY <1>4 DEF Drop
  <2>3. ASSUME ~lost', ~misjudged', loose' > 0, run[r] = "live"
        PROVE  /\ job' = Gone \/ (job'.status = "running" /\ Holders' = {})
               /\ \A x \in Executors \ raced' : ex'[x] \notin Sure
    <3>1. ex[r] = "started" /\ r \in Holders
      BY <2>0, <2>3 DEF RunHeld, Holders, Holding
    <3>2. Holders' = {}
      BY <2>1, <2>2, <2>3, <3>1 DEF OneExecutor
    <3>3. job = Gone \/ job.status = "running"
      BY <2>2, <2>3, <3>1 DEF RunningIsHeld
    <3> QED BY <2>2, <3>2, <3>3 DEF Holders, Holding, Sure
  <2>4. ASSUME ~lost', ~misjudged', loose' > 0, run[r] # "live"
        PROVE  /\ job' = Gone \/ (job'.status = "running" /\ Holders' = {})
               /\ \A x \in Executors \ raced' : ex'[x] \notin Sure
    <3>1. loose' = loose
      BY <1>4, <2>4 DEF Drop
    <3>2. /\ job = Gone \/ (job.status = "running" /\ Holders = {})
          /\ \A x \in Executors \ raced : ex[x] \notin Sure
      BY <2>2, <2>4, <3>1 DEF NoStray
    <3>3. ASSUME NEW x \in Executors \ raced' PROVE ex'[x] \notin Sure
      <4>1. Sight(ex'[x]) = 0 \/ (Sight(ex'[x]) = Sight(ex[x]) /\ x \notin raced)
        BY <2>0 DEF Blind
      <4> QED BY <3>2, <4>1 DEF Sight, Sure
    <3> QED BY <2>1, <2>2, <3>2, <3>3
  <2> QED BY <2>3, <2>4 DEF NoStray
<1>5. ASSUME NEW e \in Executors, Look(e) \/ SaveClaim(e) \/ Prepare(e) \/ Dispatch(e) \/ DeleteFinished(e)
      PROVE  NoStray'
  <2>1. lost' = lost /\ loose' = loose
    BY <1>5 DEF Look, SaveClaim, Prepare, Dispatch, DeleteFinished
  <2>2. Blind
    BY <1>5, BlindSteps
  <2>3. Calm
    BY <1>5, CalmSteps
  <2> QED BY <1>b, <2>1, <2>2, <2>3
<1>6. ASSUME NEW e \in Executors, Clear(e) \/ Enter(e) PROVE NoStray'
  <2>1. lost' = (lost \/ active = "live") /\ loose' = loose + Named
    BY <1>6 DEF Clear, Enter
  <2>2. Blind
    BY <1>6, BlindSteps
  <2>3. Calm
    BY <1>6, CalmSteps
  <2> QED BY <1>c, <2>1, <2>2, <2>3
<1>7. ASSUME NEW e \in Executors, SeeActive(e) PROVE NoStray'
  <2>1. \A x \in Executors \ raced' : ex'[x] \in Sure => x \notin raced /\ ex[x] \in Sure
    <3>1. Goes(e, "claiming") \/ Ends(e)
      BY <1>7 DEF SeeActive
    <3>2. ex'[e] \notin Sure /\ \A x \in Executors : x # e => ex'[x] = ex[x]
      BY <3>1, EndsGoes, Moves DEF Phases, Choosing, Holding, Sure
    <3>3. raced \subseteq raced' \cup {e}
      BY <1>7 DEF SeeActive
    <3> QED BY <3>2, <3>3
  <2>2. lost' = lost /\ loose' = loose
    BY <1>7 DEF SeeActive
  <2> QED BY <1>7, <2>1, <2>2, CalmSteps, StrayKept
<1>8. ASSUME NEW e \in Executors, Claim(e) PROVE NoStray'
  <2>1. UNCHANGED <<lost, loose, misjudged>>
    BY <1>8 DEF Claim
  <2>2. CASE Claimable
    BY <2>1, <2>2 DEF Claimable, NoStray
  <2>3. CASE ~Claimable
    <3>1. Blind
      BY <1>8, <2>3, BlindEnd DEF Claim
    <3>2. Holders' = Holders
      BY <1>8, <2>3, HoldersStayAtEnd DEF Claim, Holding
    <3>3. Calm
      BY <1>8, <2>3, <3>2 DEF Claim, Calm
    <3> QED BY <1>b, <2>1, <3>1, <3>3
  <2> QED BY <2>2, <2>3
<1>9. ASSUME NEW e \in Executors, Settle(e) PROVE NoStray'
  <2>1. e \in Holders /\ UNCHANGED <<lost, loose, misjudged>> /\ raced \subseteq raced'
    BY <1>9 DEF Settle, Holders, Holding
  <2>2. ASSUME NEW x \in Executors PROVE x = e \/ ex'[x] = ex[x]
    BY <1>9, Moves, EndsGoes DEF Settle, Phases, Choosing, Holding
  <2>3. ex'[e] \in {"finishing", "idle", "done"}
    BY <1>9, Moves, EndsGoes DEF Settle, Phases, Choosing, Holding
  <2>4. job = Gone => job' = Gone
    BY <1>9 DEF Settle
  <2> SUFFICES ASSUME ~lost', ~misjudged', loose' > 0
               PROVE  job' = Gone /\ \A x \in Executors \ raced' : ex'[x] \notin Sure
    BY DEF NoStray
  <2>5. job = Gone /\ \A x \in Executors \ raced : ex[x] \notin Sure
    BY <2>1 DEF NoStray
  <2> QED BY <2>1, <2>2, <2>3, <2>4, <2>5 DEF Sure
<1>10. ASSUME NEW u \in Editors, EditReads(u) \/ EditApplies(u) \/ EditSaves(u) PROVE NoStray'
  <2>1. lost' = lost /\ loose' = loose
    BY <1>10 DEF EditReads, EditApplies, EditSaves
  <2> QED BY <1>10, <1>b, <2>1, BlindSteps, CalmSteps
<1>11. ASSUME NEW d \in Deleters, Delete(d) PROVE NoStray'
  <2>1. job' = Gone /\ loose' = loose + Named /\ UNCHANGED <<lost, misjudged, ex, raced>>
    BY <1>11 DEF Delete
  <2>2. CASE active = "live"
    BY <2>1, <2>2 DEF NoStray, SawNoRun, Sure
  <2>3. CASE active # "live"
    <3>1. loose' = loose
      BY <1>a, <2>1, <2>3
    <3> QED BY <1>11, <1>b, <2>1, <3>1, BlindSteps, CalmSteps
  <2> QED BY <2>2, <2>3
<1>12. ASSUME NEW d \in Deleters, DeleteFile(d) PROVE NoStray'
  BY <1>12, <1>b, BlindSteps, CalmSteps DEF DeleteFile
<1>13. ASSUME RunEnds \/ Ready \/ Time \/ UNCHANGED vars PROVE NoStray'
  <2>1. lost' = lost /\ (loose' > 0 => loose > 0)
    BY <1>13, <1>a DEF RunEnds, Ready, Time, vars
  <2> QED BY <1>13, <1>b, <2>1, BlindSteps, CalmSteps
<1>14. CASE Restart
  BY <1>14 DEF Restart, NoStray
<1>15. ASSUME NEW e \in Executors, Execute(e) PROVE NoStray'
  BY <1>5, <1>6, <1>7, <1>8, <1>9, <1>15 DEF Execute
<1> QED BY <1>1, <1>2, <1>3, <1>4, <1>10, <1>11, <1>12, <1>13, <1>14, <1>15 DEF Next

-----------------------------------------------------------------------------
(* The theorems.                                                           *)

\* The invariant, that those who may still dispatch can be counted, and where the runs
\* are that no entry names.
Sound == AutomationInvariant /\ IsFiniteSet(Spending) /\ RunHeld /\ NoStray

\* It holds at the beginning, and every step keeps it.
LEMMA SoundAlways == Spec => []Sound
<1>1. Init => Sound
  <2> SUFFICES ASSUME Init PROVE Sound
    OBVIOUS
  <2>1. TypeOK
    BY InitType
  <2>2. Holders = {} /\ Spending = {}
    BY DEF Init, Holders, Spending, Holding
  <2>3. IsFiniteSet(Spending) /\ Cardinality(Spending) = 0
    BY <2>2, FS_EmptySet
  <2>4. OneExecutor /\ RunningIsHeld /\ SawNoRun
    BY <2>2 DEF Init, OneExecutor, RunningIsHeld, SawNoRun
  <2>5. fired = 0 /\ chances = 1 /\ Chance \in {0, 1}
    BY ChanceIsOne DEF Init
  <2>6. FiredOnce
    BY <2>3, <2>5 DEF FiredOnce
  <2>7. RunHeld /\ NoStray
    BY DEF Init, RunHeld, NoStray
  <2> QED BY <2>1, <2>3, <2>4, <2>6, <2>7 DEF Sound, AutomationInvariant
<1>2. Sound /\ [Next]_vars => Sound'
  BY TypeStep, ClaimStep, ChanceStep, SightStep, RunStep, StrayStep
  DEF Sound, AutomationInvariant
<1> QED BY <1>1, <1>2, PTL DEF Spec

\* The scheduler and the requests to run the job now claim it one at a time, the
\* mark on it is there while somebody executes it, a one-shot job is dispatched no
\* more often than it was given a chance, and whoever claims it has seen no run.
THEOREM AutomationHolds == Spec => []AutomationInvariant
<1>1. Sound => AutomationInvariant
  BY DEF Sound
<1> QED BY <1>1, SoundAlways, PTL

\* No job is dispatched over a live run that it was dispatched to before, whether or
\* not its entry still names that run, but by an executor that was between its look at
\* the entry and its claim while another one settled, or when a late clear, or a later
\* entry, took the entry of a live run away.
THEOREM NeverOverlaps == Spec => NoOverlap
<1> DEFINE Alone(e) == /\ active # "live" /\ \A f \in Executors : run[f] # "live"
                       /\ loose = 0 \/ lost
<1>1. ASSUME Sound, NEW e \in Executors, ex[e] = "prepared", e \notin raced, ~misjudged
      PROVE  Alone(e)
  <2>1. active # "live"
    BY <1>1 DEF Sound, AutomationInvariant, SawNoRun
  <2>2. ASSUME NEW f \in Executors, run[f] = "live"
        PROVE  FALSE
    <3>1. f \in Holders /\ e \in Holders /\ f # e
      BY <1>1, <2>2 DEF Sound, RunHeld, Holders, Holding
    <3> QED BY <1>1, <3>1 DEF Sound, AutomationInvariant, OneExecutor
  <2>3. loose = 0 \/ lost
    <3>1. loose \in Nat
      BY <1>1 DEF Sound, AutomationInvariant, TypeOK
    <3> QED BY <1>1, <3>1 DEF Sound, NoStray, Sure
  <2> QED BY <2>1, <2>2, <2>3
<1>2. Sound /\ [Next]_vars =>
         [\A e \in Executors :
             ex[e] = "prepared" /\ ex'[e] = "started" =>
                 \/ e \in raced \/ misjudged
                 \/ /\ active # "live" /\ \A f \in Executors : run[f] # "live"
                    /\ loose = 0 \/ lost]_vars
  BY <1>1
<1> QED BY <1>2, SoundAlways, PTL DEF Spec, NoOverlap
=============================================================================
