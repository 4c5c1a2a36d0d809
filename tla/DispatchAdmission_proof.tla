----------------------- MODULE DispatchAdmission_proof -----------------------
(***************************************************************************)
(* Theorems of DispatchAdmission for any messages, clients, fingerprints,  *)
(* threads and runs, any size of the table of cells, and any number of     *)
(* restarts, failures and moves of the endpoint.                           *)
(***************************************************************************)
EXTENDS DispatchAdmission, TLAPS

USE KeysAssumption, ClientsAssumption, PrintsAssumption, BoundsAssumption, ThreadsAssumption

Steps == {"none", "prepare", "commit", "resume", "read", "plan", "insert", "handoff",
          "execute", "publish", "settle"}
PCs == {"idle", "reserve", "register", "waiting", "readback", "answered"}

LEMMA Constants ==
    /\ NoPrint \in Prints
    /\ NoRow \in Rows /\ NoClaim \in Claims
    /\ NoAnswer \in Answers /\ ErrorAnswer \in Answers
    /\ StartPlan \in Plans
    /\ NoRequest \in Requests /\ NoTask \in Tasks
<1>1. NoPrint \in Prints
  BY DEF NoPrint
<1>2. NoRow \in Rows /\ NoClaim \in Claims
  BY <1>1 DEF NoRow, Rows, RowStates, Settled, NoClaim, Claims
<1>3. NoAnswer \in Answers /\ ErrorAnswer \in Answers /\ StartPlan \in Plans
  BY DEF NoAnswer, ErrorAnswer, Answers, StartPlan, Plans
<1>4. NoRequest \in Requests
  BY <1>3 DEF NoRequest, Requests, Routes
<1>5. NoTask \in Tasks
  BY <1>2, <1>3 DEF NoTask, Tasks, Routes
<1> QED BY <1>1, <1>2, <1>3, <1>4, <1>5

LEMMA InitTypeOK == Init => TypeOK
  BY Constants DEF Init, TypeOK

LEMMA RecordAnswerType ==
  ASSUME NEW r \in Rows
  PROVE  RecordAnswer(r) \in Answers
<1>1. r.state \in RowStates /\ r.run \in Runs \cup {NoRun}
  BY DEF Rows
<1>2. \A says \in {"none", "accepted", "ambiguous", "pending", "no_active", "error"} :
         [says |-> says, run |-> r.run] \in Answers
  BY <1>1 DEF Answers
<1>3. CASE r.state \in {"accepted", "not_dispatched"}
  BY <1>2, <1>3 DEF RecordAnswer
<1>4. CASE r.state \in {"ambiguous", "handoff_started"}
  BY <1>2, <1>4 DEF RecordAnswer
<1>5. CASE r.state \in {"none", "admitted"}
  BY <1>2, <1>5 DEF RecordAnswer
<1> QED BY <1>1, <1>3, <1>4, <1>5 DEF RowStates, Settled

LEMMA AnswerType ==
  ASSUME TypeOK, NEW c \in Clients, NEW a \in Answers, Answer(c, a)
  PROVE  request' \in [Clients -> Requests]
<1>1. request'[c] = [request[c] EXCEPT !.answer = a, !.pc = "answered"] /\ request[c] \in Requests
  BY DEF Answer, TypeOK
<1>2. request'[c] \in Requests
  <2>1. \A q \in Requests : [q EXCEPT !.answer = a, !.pc = "answered"] \in Requests
    BY DEF Requests
  <2> QED BY <1>1, <2>1
<1>3. \A d \in Clients : d # c => request'[d] = request[d]
  BY DEF Answer, TypeOK
<1> QED BY <1>2, <1>3 DEF Answer, TypeOK

LEMMA RequestExcept ==
  ASSUME NEW r \in Requests
  PROVE  /\ \A via \in Routes : [r EXCEPT !.pc = "register", !.via = via] \in Requests
         /\ \A d \in Clients : [r EXCEPT !.pc = "waiting", !.join = d] \in Requests
  BY DEF Requests

LEMMA RowExcept ==
  ASSUME NEW r \in Rows
  PROVE  [r EXCEPT !.state = "handoff_started", !.attempt = @ + 1] \in Rows
<1>1. r.attempt + 1 \in Nat /\ "handoff_started" \in RowStates
  BY DEF Rows, RowStates
<1>2. \A s \in RowStates, n \in Nat : [r EXCEPT !.state = s, !.attempt = n] \in Rows
  BY DEF Rows
<1>3. [r EXCEPT !.state = "handoff_started", !.attempt = @ + 1] = [r EXCEPT !.state = "handoff_started", !.attempt = r.attempt + 1]
  BY DEF Rows
<1> QED BY <1>1, <1>2, <1>3

LEMMA TaskExcept ==
  ASSUME NEW t \in Tasks
  PROVE  /\ \A s \in Steps : [t EXCEPT !.step = s] \in Tasks
         /\ \A s \in Steps, via \in Routes : [t EXCEPT !.step = s, !.via = via] \in Tasks
         /\ \A p \in Plans : [t EXCEPT !.step = "insert", !.plan = p] \in Tasks
         /\ \A v \in {"accepted", "ambiguous"} : [t EXCEPT !.step = "settle", !.verdict = v] \in Tasks
  BY DEF Tasks, Steps

LEMMA GotoType ==
  ASSUME TypeOK, NEW c \in Clients, NEW s \in Steps, Goto(c, s)
  PROVE  task' \in [Clients -> Tasks]
<1>1. [task[c] EXCEPT !.step = s] \in Tasks
  BY TaskExcept DEF TypeOK
<1> QED BY <1>1 DEF Goto, TypeOK

LEMMA FinishType ==
  ASSUME TypeOK, NEW c \in Clients, NEW result \in {"ready", "failed"}, Finish(c, result)
  PROVE  /\ task' \in [Clients -> Tasks]
         /\ request' \in [Clients -> Requests]
         /\ cell' \in [Operations -> Clients \cup {NoClient}]
         /\ guard' \in [Threads -> Clients \cup {NoClient}]
<1>1. task' \in [Clients -> Tasks]
  BY Constants DEF Finish, TypeOK
<1>2. request' \in [Clients -> Requests]
  <2>1. \A q \in Requests : [q EXCEPT !.got = result] \in Requests
    BY DEF Requests
  <2>2. \A d \in Clients : request[d] \in Requests /\ [request[d] EXCEPT !.got = result] \in Requests
    BY <2>1 DEF TypeOK
  <2> QED BY <2>2 DEF Finish, Inform
<1>3. cell' \in [Operations -> Clients \cup {NoClient}]
  BY DEF Finish, RemoveCell, TypeOK
<1>4. guard' \in [Threads -> Clients \cup {NoClient}]
  BY DEF Finish, Drop, TypeOK
<1> QED BY <1>1, <1>2, <1>3, <1>4

LEMMA InsertType ==
  ASSUME TypeOK, NEW k \in Keys, NEW r \in Rows, Insert(k, r)
  PROVE  row' \in [Keys -> Rows]
  BY DEF Insert, TypeOK

LEMMA SetClaimType ==
  ASSUME TypeOK, NEW k \in Keys, NEW s \in {"reserved", "preparing", "committed", "failed"},
         SetClaim(k, s)
  PROVE  claim' \in [Keys -> Claims]
<1>1. [claim[k] EXCEPT !.state = s] \in Claims
  BY DEF TypeOK, Claims
<1> QED BY <1>1 DEF SetClaim, TypeOK

LEMMA JudgeType ==
  ASSUME TypeOK, NEW c \in Clients, NEW v \in {"accepted", "ambiguous"}, Judge(c, v)
  PROVE  task' \in [Clients -> Tasks]
<1>1. [task[c] EXCEPT !.step = "settle", !.verdict = v] \in Tasks
  BY TaskExcept DEF TypeOK
<1>2. task' = [task EXCEPT ![c] = [task[c] EXCEPT !.step = "settle", !.verdict = v]]
  BY DEF Judge, TypeOK
<1> QED BY <1>1, <1>2 DEF TypeOK

LEMMA DeliverType ==
  ASSUME TypeOK, NEW k \in Keys, Deliver(k)
  PROVE  delivered' \in [Keys -> Nat]
  BY DEF Deliver, TypeOK

LEMMA MessageType ==
  ASSUME TypeOK, NEW c \in Clients
  PROVE  key[c] \in Keys /\ print[c] \in Prints /\ row[key[c]] \in Rows /\ kind[key[c]] \in Kinds
         /\ claim[key[c]] \in Claims /\ request[c] \in Requests /\ task[c] \in Tasks
  BY DEF TypeOK

LEMMA BindingType ==
  ASSUME TypeOK, NEW t \in Threads \cup {NoThread}, TakesEndpoint(t)
  PROVE  endpoint' \in Threads \cup {NoThread} /\ moves' \in Nat
  BY DEF TypeOK, TakesEndpoint

LEMMA ThreadType ==
  ASSUME TypeOK, NEW c \in Clients
  PROVE  Thread[key[c]] \in Threads
  BY MessageType

\* Each request step keeps every variable in its type.
LEMMA RequestTypeOK ==
  ASSUME TypeOK, NEW c \in Clients,
         RequestStep(c) \/ SendAgain(c) \/ Disconnect(c)
  PROVE  TypeOK'
<1> USE DEF message, ledger, bridge, binding, bounds
<1>m. /\ key[c] \in Keys /\ print[c] \in Prints /\ row[key[c]] \in Rows
      /\ RecordAnswer(row[key[c]]) \in Answers /\ ErrorAnswer \in Answers
  BY MessageType, RecordAnswerType, Constants
<1>f. ASSUME Fail PROVE failures' \in Nat
  BY <1>f DEF Fail, TypeOK
<1>1. CASE ReadFirst(c)
  <2>1. CASE \E a \in Answers : Answer(c, a)
    <3>1. request' \in [Clients -> Requests]
      BY <2>1, AnswerType
    <3> QED BY <1>1, <1>f, <3>1 DEF ReadFirst, TypeOK
  <2>2. CASE request' = [request EXCEPT ![c].pc = "register"]
    <3>1. request' \in [Clients -> Requests]
      BY <2>2 DEF TypeOK, Requests
    <3> QED BY <1>1, <1>f, <3>1 DEF ReadFirst, TypeOK
  <2> QED BY <1>1, <1>m, <2>1, <2>2 DEF ReadFirst
<1>2. CASE ResolveCreate(c)
  <2>1. request' \in [Clients -> Requests]
    BY <1>2 DEF ResolveCreate, TypeOK, Requests
  <2> QED BY <1>2, <2>1 DEF ResolveCreate, TypeOK
<1>3. CASE ReserveClaim(c)
  <2>1. claim' \in [Keys -> Claims]
    BY <1>3, <1>m DEF ReserveClaim, TypeOK, Claims
  <2>2. request' \in [Clients -> Requests]
    <3>1. CASE \E a \in Answers : Answer(c, a)
      BY <3>1, AnswerType
    <3>2. CASE \E via \in Routes : request' = [request EXCEPT ![c].pc = "register", ![c].via = via]
      <4>1. PICK via \in Routes : request' = [request EXCEPT ![c].pc = "register", ![c].via = via]
        BY <3>2
      <4>2. [request[c] EXCEPT !.pc = "register", !.via = via] \in Requests
        BY RequestExcept DEF TypeOK
      <4>3. request' = [request EXCEPT ![c] = [request[c] EXCEPT !.pc = "register", !.via = via]]
        BY <4>1 DEF TypeOK
      <4> QED BY <4>2, <4>3 DEF TypeOK
    <3> QED BY <1>3, <1>m, <3>1, <3>2 DEF ReserveClaim, Routes
  <2> QED BY <1>3, <2>1, <2>2 DEF ReserveClaim, TypeOK
<1>4. CASE Register(c)
  <2>1. request' \in [Clients -> Requests]
    <3>1. CASE \E a \in Answers : Answer(c, a)
      BY <3>1, AnswerType
    <3>2. CASE \E d \in Clients : request' = [request EXCEPT ![c].pc = "waiting", ![c].join = d]
      <4>1. PICK d \in Clients : request' = [request EXCEPT ![c].pc = "waiting", ![c].join = d]
        BY <3>2
      <4>2. [request[c] EXCEPT !.pc = "waiting", !.join = d] \in Requests
        BY RequestExcept DEF TypeOK
      <4>3. request' = [request EXCEPT ![c] = [request[c] EXCEPT !.pc = "waiting", !.join = d]]
        BY <4>1 DEF TypeOK
      <4> QED BY <4>2, <4>3 DEF TypeOK
    <3>3. Operation(key[c], request[c].via) \in Operations
      BY <1>m DEF Operation, Operations
    <3> QED BY <1>4, <1>m, <3>1, <3>2, <3>3 DEF Register, TypeOK
  <2>2. cell' \in [Operations -> Clients \cup {NoClient}]
    BY <1>4 DEF Register, TypeOK
  <2>3. task' \in [Clients -> Tasks]
    <3>1. CASE task' = [task EXCEPT ![c].step = FirstStep(request[c].via), ![c].via = request[c].via]
      <4>1. request[c].via \in Routes /\ FirstStep(request[c].via) \in Steps
        BY DEF TypeOK, Requests, Routes, FirstStep, Steps
      <4>2. [task[c] EXCEPT !.step = FirstStep(request[c].via), !.via = request[c].via] \in Tasks
        BY <4>1, TaskExcept DEF TypeOK
      <4>3. task' = [task EXCEPT ![c] = [task[c] EXCEPT !.step = FirstStep(request[c].via), !.via = request[c].via]]
        BY <3>1 DEF TypeOK
      <4> QED BY <4>2, <4>3 DEF TypeOK
    <3>2. CASE UNCHANGED task
      BY <3>2 DEF TypeOK
    <3> QED BY <1>4, <3>1, <3>2 DEF Register
  <2> QED BY <1>4, <2>1, <2>2, <2>3 DEF Register, TypeOK
<1>5. CASE Receive(c)
  <2>1. request' \in [Clients -> Requests]
    <3>1. CASE Answer(c, ErrorAnswer)
      BY <1>m, <3>1, AnswerType
    <3>2. CASE request' = [request EXCEPT ![c].pc = "readback"]
      BY <3>2 DEF TypeOK, Requests
    <3> QED BY <1>5, <3>1, <3>2 DEF Receive
  <2> QED BY <1>5, <2>1 DEF Receive, TypeOK
<1>6. CASE ReadBack(c)
  <2>1. request' \in [Clients -> Requests]
    BY <1>6, <1>m, AnswerType DEF ReadBack
  <2> QED BY <1>6, <1>f, <2>1 DEF ReadBack, TypeOK
<1>7. CASE SendAgain(c) \/ Disconnect(c)
  <2>1. request' \in [Clients -> Requests]
    BY <1>7, Constants DEF SendAgain, Disconnect, TypeOK
  <2> QED BY <1>7, <2>1 DEF SendAgain, Disconnect, TypeOK
<1> QED BY <1>1, <1>2, <1>3, <1>4, <1>5, <1>6, <1>7 DEF RequestStep

\* So does each step of an owner.
LEMMA OwnerTypeOK ==
  ASSUME TypeOK, NEW c \in Clients, OwnerStep(c) \/ OwnerPlans(c) \/ OwnerFails(c)
  PROVE  TypeOK'
<1> USE DEF message, ledger, bridge, binding, bounds
<1>m. /\ key[c] \in Keys /\ print[c] \in Prints /\ row[key[c]] \in Rows
      /\ task[c] \in Tasks
  BY MessageType
<1>f. ASSUME Fail PROVE failures' \in Nat
  BY <1>f DEF Fail, TypeOK
<1>l. /\ live \in SUBSET Runs /\ started \in SUBSET OtherRuns
  BY DEF TypeOK
<1>t. ASSUME \/ \E result \in {"ready", "failed"} : Finish(c, result)
             \/ \E s \in Steps : Goto(c, s) /\ UNCHANGED <<request, cell, guard>>
      PROVE  /\ task' \in [Clients -> Tasks] /\ request' \in [Clients -> Requests]
             /\ cell' \in [Operations -> Clients \cup {NoClient}]
             /\ guard' \in [Threads -> Clients \cup {NoClient}]
  BY <1>t, FinishType, GotoType DEF TypeOK
<1>k. ASSUME UNCHANGED claim PROVE claim' \in [Keys -> Claims]
  BY <1>k DEF TypeOK
<1>b. ASSUME TakesEndpoint(Thread[key[c]]) \/ UNCHANGED binding
      PROVE  endpoint' \in Threads \cup {NoThread} /\ moves' \in Nat
  <2>1. Thread[key[c]] \in Threads
    BY ThreadType
  <2> QED BY <1>b, <2>1, BindingType DEF TypeOK
<1>1. CASE CreatePrepares(c)
  <2>1. claim' \in [Keys -> Claims]
    BY <1>1, <1>k, <1>m, SetClaimType DEF CreatePrepares
  <2> QED BY <1>1, <1>t, <2>1 DEF CreatePrepares, Steps, TypeOK
<1>2. CASE CreateCommits(c)
  <2>1. claim' \in [Keys -> Claims]
    BY <1>2, <1>k, <1>m, SetClaimType DEF CreateCommits
  <2>2. row' \in [Keys -> Rows]
    <3>1. [state |-> "admitted", outcome |-> "started", run |-> key[c],
           print |-> print[c], attempt |-> 0] \in Rows
      BY <1>m DEF Rows, RowStates, Settled, Runs
    <3>2. CASE UNCHANGED row
      BY <3>2 DEF TypeOK
    <3> QED BY <1>2, <1>m, <3>1, <3>2, InsertType DEF CreateCommits
  <2>3. endpoint' \in Threads \cup {NoThread} /\ moves' \in Nat
    BY <1>2, <1>b DEF CreateCommits, Binds
  <2> HIDE DEF binding
  <2> QED BY <1>2, <1>t, <1>f, <2>1, <2>2, <2>3 DEF CreateCommits, Steps, TypeOK
<1>3. CASE CreateResumes(c) \/ CreateConfirms(c)
  BY <1>3, <1>t DEF CreateResumes, CreateConfirms, Steps, TypeOK
<1>4. CASE OwnerReads(c)
  <2>1. CASE task' = [task EXCEPT ![c].step = "plan", ![c].seen = row[key[c]]]
             /\ UNCHANGED <<request, cell, guard>>
    <3>1. [task[c] EXCEPT !.step = "plan", !.seen = row[key[c]]] \in Tasks
      BY <1>m DEF Tasks
    <3>2. task' \in [Clients -> Tasks]
      BY <2>1, <3>1 DEF TypeOK
    <3> QED BY <1>4, <2>1, <3>2 DEF OwnerReads, TypeOK
  <2>2. CASE \E result \in {"ready", "failed"} : Finish(c, result)
    BY <1>4, <1>t, <2>2 DEF OwnerReads, TypeOK
  <2> QED BY <1>4, <2>1, <2>2 DEF OwnerReads
<1>5. CASE OwnerPlans(c)
  <2>1. PICK p \in Plans : task' = [task EXCEPT ![c].step = "insert", ![c].plan = p]
    BY <1>5 DEF OwnerPlans
  <2>2. [task[c] EXCEPT !.step = "insert", !.plan = p] \in Tasks
    BY <1>m, TaskExcept
  <2>3. task' = [task EXCEPT ![c] = [task[c] EXCEPT !.step = "insert", !.plan = p]]
    BY <2>1 DEF TypeOK
  <2>4. task' \in [Clients -> Tasks]
    BY <2>2, <2>3 DEF TypeOK
  <2> QED BY <1>5, <2>4 DEF OwnerPlans, TypeOK
<1>6. CASE OwnerAdmits(c)
  <2>1. Planned(c) \in Rows
    <3>1. task[c].plan.run \in Runs \cup {NoRun} /\ key[c] \in Runs
      BY <1>m DEF Tasks, Plans, Runs
    <3> QED BY <1>m, <3>1 DEF Planned, Rows, RowStates, Settled
  <2>2. row' \in [Keys -> Rows]
    BY <1>6, <1>m, <2>1, InsertType DEF OwnerAdmits, TypeOK
  <2>3. endpoint' \in Threads \cup {NoThread} /\ moves' \in Nat
    BY <1>6, <1>b DEF OwnerAdmits, Rebinds
  <2> HIDE DEF binding
  <2> QED BY <1>6, <1>t, <2>2, <2>3 DEF OwnerAdmits, Steps, TypeOK
<1>7. CASE OwnerDeclines(c)
  <2>1. [state |-> "not_dispatched", outcome |-> "no_active", run |-> NoRun,
         print |-> print[c], attempt |-> 0] \in Rows
    BY <1>m DEF Rows, RowStates, Settled
  <2>2. row' \in [Keys -> Rows]
    BY <1>7, <1>m, <2>1, InsertType DEF OwnerDeclines, TypeOK
  <2> QED BY <1>7, <1>t, <2>2 DEF OwnerDeclines, TypeOK
<1>8. CASE OwnerCrosses(c)
  <2>1. [row[key[c]] EXCEPT !.state = "handoff_started", !.attempt = @ + 1] \in Rows
    BY <1>m, RowExcept
  <2>2. \/ UNCHANGED row
        \/ row' = [row EXCEPT ![key[c]] = [row[key[c]] EXCEPT !.state = "handoff_started", !.attempt = @ + 1]]
    BY <1>8, <1>m DEF OwnerCrosses, TypeOK
  <2>3. row' \in [Keys -> Rows]
    BY <1>m, <2>1, <2>2 DEF TypeOK
  <2> QED BY <1>8, <1>t, <1>f, <2>3 DEF OwnerCrosses, Steps, TypeOK
<1>9. CASE OwnerQueues(c)
  <2>1. task' \in [Clients -> Tasks]
    BY <1>9, JudgeType DEF OwnerQueues
  <2>2. delivered' \in [Keys -> Nat]
    BY <1>9, <1>m, DeliverType DEF OwnerQueues, TypeOK
  <2>3. guard' \in [Threads -> Clients \cup {NoClient}]
    BY <1>9 DEF OwnerQueues, Drop, TypeOK
  <2> QED BY <1>9, <2>1, <2>2, <2>3 DEF OwnerQueues, TypeOK
<1>10. CASE OwnerStarts(c)
  <2>1. task' \in [Clients -> Tasks]
    BY <1>10, JudgeType, GotoType DEF OwnerStarts, Steps
  <2>3. guard' \in [Threads -> Clients \cup {NoClient}]
    BY <1>10 DEF OwnerStarts, Drop, TypeOK
  <2> QED BY <1>10, <2>1, <2>3 DEF OwnerStarts, TypeOK
<1>11. CASE OwnerPublishesRun(c)
  <2>1. task' \in [Clients -> Tasks]
    BY <1>11, JudgeType DEF OwnerPublishesRun
  <2>2. delivered' \in [Keys -> Nat]
    BY <1>11, <1>m, DeliverType DEF OwnerPublishesRun, TypeOK
  <2>3. live' \in SUBSET Runs
    BY <1>11, <1>m, <1>l DEF OwnerPublishesRun, Runs
  <2> QED BY <1>11, <2>1, <2>2, <2>3 DEF OwnerPublishesRun, TypeOK
<1>12. CASE OwnerSettles(c)
  <2>1. [row[key[c]] EXCEPT !.state = task[c].verdict] \in Rows
    BY <1>m DEF Rows, RowStates, Settled, Tasks
  <2>2. row' \in [Keys -> Rows]
    BY <1>12, <2>1 DEF OwnerSettles, TypeOK
  <2> QED BY <1>12, <1>t, <2>2 DEF OwnerSettles, TypeOK
<1>13. CASE OwnerFails(c)
  BY <1>13, <1>t, <1>f DEF OwnerFails, TypeOK
<1> QED BY <1>1, <1>2, <1>3, <1>4, <1>5, <1>6, <1>7, <1>8, <1>9, <1>10, <1>11, <1>12, <1>13
        DEF OwnerStep

\* TypeOK is inductive.
LEMMA StepTypeOK == TypeOK /\ [Next]_vars => TypeOK'
<1> SUFFICES ASSUME TypeOK, [Next]_vars PROVE TypeOK'
  OBVIOUS
<1>1. ASSUME NEW r \in OtherRuns, OtherRunStarts(r) PROVE TypeOK'
  BY <1>1 DEF OtherRunStarts, TypeOK, Runs, message, ledger, binding, bounds
<1>2. ASSUME NEW r \in Runs, RunEnds(r) PROVE TypeOK'
  BY <1>2 DEF RunEnds, TypeOK, message, ledger, binding, bounds
<1>3. CASE Restart
  <2>1. \A r \in Rows : Recovered(r) \in Rows
    BY DEF Recovered, Rows, RowStates, Settled
  <2>2. \A q \in Claims : Reclaimed(q) \in Claims
    BY DEF Reclaimed, Claims
  <2>3. row' \in [Keys -> Rows] /\ claim' \in [Keys -> Claims]
    BY <1>3, <2>1, <2>2 DEF Restart, TypeOK
  <2> QED BY <1>3, <2>3, Constants DEF Restart, TypeOK, message, binding
<1>4. CASE UNCHANGED vars
  BY <1>4 DEF TypeOK, vars, message, ledger, bridge, binding, bounds
<1>5. ASSUME NEW t \in Threads \cup {NoThread}, Rebind(t) PROVE TypeOK'
  BY <1>5, BindingType DEF Rebind, TypeOK, message, ledger, bridge, bounds
<1> QED BY <1>1, <1>2, <1>3, <1>4, <1>5, RequestTypeOK, OwnerTypeOK DEF Next

\* Every reachable state is well typed: no row, claim, request or owner task is
\* in a phase the code does not have.
THEOREM TypeCorrect == Spec => []TypeOK
  BY InitTypeOK, StepTypeOK, PTL DEF Spec

-----------------------------------------------------------------------------
(* Owners: cells, owner tasks, those that joined them and the guard agree. *)

Locks(c) == guard' = [guard EXCEPT ![Thread[key[c]]] = c]

\* An owner goes on to another step.
Moves(c) ==
    /\ task[c].step # "none" /\ task'[c].step # "none" /\ task'[c].via = task[c].via
    /\ \A d \in Clients \ {c} : task'[d] = task[d]
    /\ UNCHANGED <<request, cell>>
    /\ \/ guard' = guard /\ (task[c].step \in Guarded <=> task'[c].step \in Guarded)
       \/ GuardIsFree(c) /\ Locks(c) /\ task'[c].step \in Guarded
       \/ Drop(c) /\ task'[c].step \notin Guarded

\* What Finish does, variable by variable.
LEMMA FinishEffect ==
  ASSUME TypeOK, NEW c \in Clients, NEW result, Finish(c, result)
  PROVE  /\ task'[c] = NoTask
         /\ \A d \in Clients \ {c} : task'[d] = task[d]
         /\ \A d \in Clients :
               /\ request'[d].pc = request[d].pc /\ request'[d].via = request[d].via
               /\ request'[d].join = request[d].join /\ request'[d].answer = request[d].answer
               /\ request'[d].got = IF request[d].join = c /\ request[d].got = "none"
                                    THEN result ELSE request[d].got
         /\ \A o \in Operations :
               cell'[o] = IF o = Operation(key[c], task[c].via) /\ cell[o] = c
                          THEN NoClient ELSE cell[o]
         /\ \A t \in Threads :
               guard'[t] = IF t = Thread[key[c]] /\ guard[t] = c THEN NoClient ELSE guard[t]
<1>1. task'[c] = NoTask /\ \A d \in Clients \ {c} : task'[d] = task[d]
  BY DEF Finish, TypeOK
<1>2. ASSUME NEW d \in Clients
      PROVE  /\ request'[d].pc = request[d].pc /\ request'[d].via = request[d].via
             /\ request'[d].join = request[d].join /\ request'[d].answer = request[d].answer
             /\ request'[d].got = IF request[d].join = c /\ request[d].got = "none"
                                  THEN result ELSE request[d].got
  <2>1. request'[d] = IF request[d].join = c /\ request[d].got = "none"
                      THEN [request[d] EXCEPT !.got = result] ELSE request[d]
    BY DEF Finish, Inform
  <2>2. request[d] \in Requests
    BY DEF TypeOK
  <2> QED BY <2>1, <2>2 DEF Requests
<1>3. \A o \in Operations :
         cell'[o] = IF o = Operation(key[c], task[c].via) /\ cell[o] = c
                    THEN NoClient ELSE cell[o]
  BY DEF Finish, RemoveCell, TypeOK
<1>4. \A t \in Threads :
         guard'[t] = IF t = Thread[key[c]] /\ guard[t] = c THEN NoClient ELSE guard[t]
  BY DEF Finish, Drop, TypeOK
<1> QED BY <1>1, <1>2, <1>3, <1>4

LEMMA GotoEffect ==
  ASSUME TypeOK, NEW c \in Clients, NEW s, Goto(c, s)
  PROVE  /\ task'[c] = [task[c] EXCEPT !.step = s]
         /\ task'[c].step = s /\ task'[c].via = task[c].via /\ task'[c].seen = task[c].seen
         /\ task'[c].plan = task[c].plan /\ task'[c].verdict = task[c].verdict
         /\ \A d \in Clients \ {c} : task'[d] = task[d]
<1>1. task'[c] = [task[c] EXCEPT !.step = s] /\ task[c] \in Tasks
  BY DEF Goto, TypeOK
<1>2. \A d \in Clients \ {c} : task'[d] = task[d]
  BY DEF Goto, TypeOK
<1> QED BY <1>1, <1>2 DEF Tasks

LEMMA JudgeEffect ==
  ASSUME TypeOK, NEW c \in Clients, NEW v, Judge(c, v)
  PROVE  /\ task'[c].step = "settle" /\ task'[c].verdict = v /\ task'[c].via = task[c].via
         /\ \A d \in Clients \ {c} : task'[d] = task[d]
<1>1. task'[c] = [task[c] EXCEPT !.step = "settle", !.verdict = v] /\ task[c] \in Tasks
  BY DEF Judge, TypeOK
<1>2. \A d \in Clients \ {c} : task'[d] = task[d]
  BY DEF Judge, TypeOK
<1> QED BY <1>1, <1>2 DEF Tasks

LEMMA ReadsEffect ==
  ASSUME TypeOK, NEW c \in Clients, NEW r,
         task' = [task EXCEPT ![c].step = "plan", ![c].seen = r]
  PROVE  /\ task'[c].step = "plan" /\ task'[c].seen = r /\ task'[c].via = task[c].via
         /\ \A d \in Clients \ {c} : task'[d] = task[d]
<1>1. task'[c] = [task[c] EXCEPT !.step = "plan", !.seen = r] /\ task[c] \in Tasks
  BY DEF TypeOK
<1>2. \A d \in Clients \ {c} : task'[d] = task[d]
  BY DEF TypeOK
<1>3. task'[c].step = "plan" /\ task'[c].seen = r /\ task'[c].via = task[c].via
  <2>1. task[c] = [step |-> task[c].step, via |-> task[c].via, seen |-> task[c].seen,
                   plan |-> task[c].plan, verdict |-> task[c].verdict]
    BY <1>1 DEF Tasks
  <2> QED BY <1>1, <2>1
<1> QED BY <1>2, <1>3

LEMMA PlansEffect ==
  ASSUME TypeOK, NEW c \in Clients, OwnerPlans(c)
  PROVE  /\ task[c].step = "plan" /\ task'[c].step = "insert"
         /\ task'[c].seen = task[c].seen /\ task'[c].via = task[c].via
         /\ \A d \in Clients \ {c} : task'[d] = task[d]
         /\ GuardIsFree(c) /\ Locks(c)
<1>1. PICK p \in Plans : task' = [task EXCEPT ![c].step = "insert", ![c].plan = p]
  BY DEF OwnerPlans
<1>2. task'[c] = [task[c] EXCEPT !.step = "insert", !.plan = p] /\ task[c] \in Tasks
  BY <1>1 DEF TypeOK
<1>3. \A d \in Clients \ {c} : task'[d] = task[d]
  BY <1>1 DEF TypeOK
<1> QED BY <1>2, <1>3 DEF Tasks, OwnerPlans, Locks

\* Every step of an owner moves it or finishes it.
LEMMA OwnerEffect ==
  ASSUME TypeOK, NEW c \in Clients, OwnerStep(c) \/ OwnerPlans(c) \/ OwnerFails(c)
  PROVE  /\ UNCHANGED message /\ task[c].step # "none"
         /\ Moves(c) \/ \E result \in {"ready", "failed"} : Finish(c, result)
<1>g. ASSUME NEW s \in Steps, Goto(c, s), UNCHANGED <<request, cell, guard>>, task[c].step # "none",
             s # "none", task[c].step \in Guarded <=> s \in Guarded
      PROVE  Moves(c)
  BY <1>g, GotoEffect DEF Moves
<1>1. CASE CreatePrepares(c)
  BY <1>1, <1>g DEF CreatePrepares, Steps, Guarded
<1>2. CASE CreateCommits(c)
  BY <1>2, <1>g DEF CreateCommits, Steps, Guarded
<1>3. CASE CreateResumes(c)
  BY <1>3, <1>g DEF CreateResumes, Steps, Guarded
<1>4. CASE CreateConfirms(c)
  BY <1>4, <1>g DEF CreateConfirms, Steps, Guarded
<1>5. CASE OwnerReads(c)
  BY <1>5, ReadsEffect DEF OwnerReads, Moves, Guarded
<1>6. CASE OwnerPlans(c)
  BY <1>6, PlansEffect DEF OwnerPlans, Moves, Guarded
<1>7. CASE OwnerAdmits(c)
  BY <1>7, <1>g DEF OwnerAdmits, Steps, Guarded
<1>8. CASE OwnerDeclines(c)
  BY <1>8 DEF OwnerDeclines
<1>9. CASE OwnerCrosses(c)
  BY <1>9, <1>g DEF OwnerCrosses, Steps, Guarded
<1>10. CASE OwnerQueues(c)
  BY <1>10, JudgeEffect DEF OwnerQueues, Moves, Guarded
<1>11. CASE OwnerStarts(c)
  <2>1. task'[c].step \in {"publish", "settle"} /\ task'[c].via = task[c].via
        /\ \A d \in Clients \ {c} : task'[d] = task[d]
    BY <1>11, JudgeEffect, GotoEffect DEF OwnerStarts
  <2> QED BY <1>11, <2>1 DEF OwnerStarts, Moves, Guarded
<1>12. CASE OwnerPublishesRun(c)
  BY <1>12, JudgeEffect DEF OwnerPublishesRun, Moves, Guarded
<1>13. CASE OwnerSettles(c)
  BY <1>13 DEF OwnerSettles
<1>14. CASE OwnerFails(c)
  BY <1>14 DEF OwnerFails
<1> QED BY <1>1, <1>2, <1>3, <1>4, <1>5, <1>6, <1>7, <1>8, <1>9, <1>10, <1>11, <1>12, <1>13, <1>14
        DEF OwnerStep

LEMMA OperationType ==
  ASSUME TypeOK, NEW c \in Clients, NEW via
  PROVE  Operation(key[c], via) \in Operations
  BY DEF TypeOK, Operation, Operations

LEMMA InitOwners == Init => OwnersInvariant
  BY DEF Init, OwnersInvariant, CellsMatch, JoinsMatch, JoinedOwnerLives, GuardHeld, NoTask, Guarded,
         NoRequest

LEMMA MovesOwners ==
  ASSUME TypeOK, OwnersInvariant, NEW c \in Clients, Moves(c), UNCHANGED message
  PROVE  OwnersInvariant'
<1> USE DEF message
<1>1. \A d \in Clients : /\ task'[d].step # "none" <=> task[d].step # "none"
                         /\ task'[d].via = task[d].via
  BY DEF Moves
<1>2. CellsMatch'
  BY <1>1 DEF Moves, OwnersInvariant, CellsMatch, Operation, TypeOK
<1>3. JoinsMatch'
  BY DEF Moves, OwnersInvariant, JoinsMatch
<1>4. JoinedOwnerLives'
  BY <1>1 DEF Moves, OwnersInvariant, JoinedOwnerLives, TypeOK, Requests
<1>5. GuardHeld'
  <2>1. ASSUME NEW d \in Clients, NEW t \in Threads
        PROVE  (guard'[t] = d) <=> t = Thread[key[d]] /\ task'[d].step \in Guarded
    <3>1. (guard[t] = d) <=> t = Thread[key[d]] /\ task[d].step \in Guarded
      BY DEF OwnersInvariant, GuardHeld
    <3>2. guard \in [Threads -> Clients \cup {NoClient}] /\ (d # c => task'[d] = task[d])
      BY DEF TypeOK, Moves
    <3>3. CASE guard' = guard /\ (task[c].step \in Guarded <=> task'[c].step \in Guarded)
      BY <3>1, <3>2, <3>3
    <3>4. CASE GuardIsFree(c) /\ Locks(c) /\ task'[c].step \in Guarded
      BY <3>1, <3>2, <3>4 DEF GuardIsFree, Locks
    <3>5. CASE Drop(c) /\ task'[c].step \notin Guarded
      BY <3>1, <3>2, <3>5 DEF Drop
    <3> QED BY <3>3, <3>4, <3>5 DEF Moves
  <2> QED BY <2>1 DEF GuardHeld, Guarded
<1> QED BY <1>2, <1>3, <1>4, <1>5 DEF OwnersInvariant

LEMMA FinishOwners ==
  ASSUME TypeOK, OwnersInvariant, NEW c \in Clients, NEW result \in {"ready", "failed"},
         Finish(c, result), task[c].step # "none", UNCHANGED message
  PROVE  OwnersInvariant'
<1> USE DEF message
<1>t. task'[c].step = "none" /\ \A d \in Clients \ {c} : task'[d] = task[d]
  BY FinishEffect DEF NoTask
<1>c. \A o \in Operations :
         cell'[o] = IF o = Operation(key[c], task[c].via) /\ cell[o] = c THEN NoClient ELSE cell[o]
  BY FinishEffect
<1>2. CellsMatch'
  <2>1. ASSUME NEW d \in Clients, task'[d].step # "none"
        PROVE  cell'[Operation(key[d], task'[d].via)] = d
    <3>1. d # c /\ task'[d] = task[d] /\ cell[Operation(key[d], task[d].via)] = d
      BY <1>t, <2>1 DEF OwnersInvariant, CellsMatch
    <3> QED BY <3>1, <1>c, OperationType
  <2>2. ASSUME NEW o \in Operations, cell'[o] # NoClient
        PROVE  task'[cell'[o]].step # "none" /\ o = Operation(key[cell'[o]], task'[cell'[o]].via)
    <3>1. cell'[o] = cell[o] /\ cell[o] \in Clients
      BY <1>c, <2>2 DEF TypeOK
    <3>2. task[cell[o]].step # "none" /\ o = Operation(key[cell[o]], task[cell[o]].via)
      BY <2>2, <3>1 DEF OwnersInvariant, CellsMatch
    <3>3. cell[o] # c
      BY <1>c, <2>2, <3>1, <3>2
    <3> QED BY <1>t, <3>1, <3>2, <3>3
  <2> QED BY <2>1, <2>2 DEF CellsMatch, Operation
<1>3. JoinsMatch'
  BY FinishEffect DEF OwnersInvariant, JoinsMatch
<1>4. JoinedOwnerLives'
  <2>1. ASSUME NEW d \in Clients, request'[d].pc = "waiting", request'[d].got = "none"
        PROVE  request'[d].join # NoClient /\ task'[request'[d].join].step # "none"
    <3>1. /\ request[d].pc = "waiting" /\ request[d].got = "none"
          /\ request'[d].join = request[d].join /\ request[d].join # c
      BY <2>1, FinishEffect
    <3>2. request[d].join # NoClient /\ task[request[d].join].step # "none"
      BY <3>1 DEF OwnersInvariant, JoinedOwnerLives
    <3>3. request[d].join \in Clients
      BY <3>2 DEF TypeOK, Requests
    <3> QED BY <1>t, <3>1, <3>2, <3>3
  <2> QED BY <2>1 DEF JoinedOwnerLives
<1>5. GuardHeld'
  <2>1. \A t \in Threads :
           guard'[t] = IF t = Thread[key[c]] /\ guard[t] = c THEN NoClient ELSE guard[t]
    BY FinishEffect
  <2>2. ASSUME NEW d \in Clients, NEW t \in Threads
        PROVE  (guard'[t] = d) <=> t = Thread[key[d]] /\ task'[d].step \in Guarded
    BY <1>t, <2>1 DEF OwnersInvariant, GuardHeld, Guarded
  <2> QED BY <2>2 DEF GuardHeld, Guarded
<1> QED BY <1>2, <1>3, <1>4, <1>5 DEF OwnersInvariant

\* What a step does to its own request, and that it touches no other.
LEMMA AnswerEffect ==
  ASSUME TypeOK, NEW c \in Clients, NEW a, Answer(c, a)
  PROVE  /\ request'[c].pc = "answered" /\ request'[c].answer = a
         /\ request'[c].via = request[c].via /\ request'[c].join = request[c].join
         /\ request'[c].got = request[c].got
         /\ \A d \in Clients \ {c} : request'[d] = request[d]
<1>1. request'[c] = [request[c] EXCEPT !.answer = a, !.pc = "answered"] /\ request[c] \in Requests
  BY DEF Answer, TypeOK
<1>2. \A d \in Clients \ {c} : request'[d] = request[d]
  BY DEF Answer, TypeOK
<1> QED BY <1>1, <1>2 DEF Requests

LEMMA EnterEffect ==
  ASSUME TypeOK, NEW c \in Clients, NEW via,
         request' = [request EXCEPT ![c].pc = "register", ![c].via = via]
  PROVE  /\ request'[c].pc = "register" /\ request'[c].answer = request[c].answer
         /\ request'[c].via = via /\ request'[c].join = request[c].join
         /\ request'[c].got = request[c].got
         /\ \A d \in Clients \ {c} : request'[d] = request[d]
<1>1. request'[c] = [request[c] EXCEPT !.pc = "register", !.via = via] /\ request[c] \in Requests
  BY DEF TypeOK
<1>2. \A d \in Clients \ {c} : request'[d] = request[d]
  BY DEF TypeOK
<1>3. /\ request'[c].pc = "register" /\ request'[c].answer = request[c].answer
      /\ request'[c].via = via /\ request'[c].join = request[c].join
      /\ request'[c].got = request[c].got
  <2>1. request[c] = [pc |-> request[c].pc, via |-> request[c].via, join |-> request[c].join,
                      got |-> request[c].got, answer |-> request[c].answer]
    BY <1>1 DEF Requests
  <2> QED BY <1>1, <2>1
<1> QED BY <1>2, <1>3

LEMMA PcEffect ==
  ASSUME TypeOK, NEW c \in Clients, NEW l, request' = [request EXCEPT ![c].pc = l]
  PROVE  /\ request'[c].pc = l /\ request'[c].answer = request[c].answer
         /\ request'[c].via = request[c].via /\ request'[c].join = request[c].join
         /\ request'[c].got = request[c].got
         /\ \A d \in Clients \ {c} : request'[d] = request[d]
<1>1. request'[c] = [request[c] EXCEPT !.pc = l] /\ request[c] \in Requests
  BY DEF TypeOK
<1>2. \A d \in Clients \ {c} : request'[d] = request[d]
  BY DEF TypeOK
<1> QED BY <1>1, <1>2 DEF Requests

LEMMA WaitEffect ==
  ASSUME TypeOK, NEW c \in Clients, NEW o, request' = [request EXCEPT ![c].pc = "waiting", ![c].join = o]
  PROVE  /\ request'[c].pc = "waiting" /\ request'[c].answer = request[c].answer
         /\ request'[c].via = request[c].via /\ request'[c].join = o
         /\ request'[c].got = request[c].got
         /\ \A d \in Clients \ {c} : request'[d] = request[d]
<1>1. request'[c] = [request[c] EXCEPT !.pc = "waiting", !.join = o] /\ request[c] \in Requests
  BY DEF TypeOK
<1>2. \A d \in Clients \ {c} : request'[d] = request[d]
  BY DEF TypeOK
<1>3. \A r \in Requests :
         LET q == [r EXCEPT !.pc = "waiting", !.join = o] IN
         q.pc = "waiting" /\ q.answer = r.answer /\ q.via = r.via /\ q.join = o /\ q.got = r.got
  BY DEF Requests
<1> QED BY <1>1, <1>2, <1>3

LEMMA ResetEffect ==
  ASSUME TypeOK, NEW c \in Clients, SendAgain(c) \/ Disconnect(c)
  PROVE  request'[c] = NoRequest /\ \A d \in Clients \ {c} : request'[d] = request[d]
  BY DEF SendAgain, Disconnect, TypeOK

\* The new owner of a free operation.
LEMMA SpawnEffect ==
  ASSUME TypeOK, NEW c \in Clients,
         task' = [task EXCEPT ![c].step = FirstStep(request[c].via), ![c].via = request[c].via]
  PROVE  /\ task'[c].step = FirstStep(request[c].via) /\ task'[c].via = request[c].via
         /\ task'[c].step \in {"read", "prepare", "resume"}
         /\ \A d \in Clients \ {c} : task'[d] = task[d]
<1>1. /\ task'[c] = [task[c] EXCEPT !.step = FirstStep(request[c].via), !.via = request[c].via]
      /\ task[c] \in Tasks
  BY DEF TypeOK
<1>2. \A d \in Clients \ {c} : task'[d] = task[d]
  BY DEF TypeOK
<1>3. FirstStep(request[c].via) \in {"read", "prepare", "resume"}
  BY DEF TypeOK, Requests, Routes, FirstStep
<1>4. task'[c].step = FirstStep(request[c].via) /\ task'[c].via = request[c].via
  <2> DEFINE s == FirstStep(request[c].via)
             via == request[c].via
  <2>1. task'[c] = [task[c] EXCEPT !.step = s, !.via = via] /\ task[c] \in Tasks
    BY <1>1
  <2> HIDE DEF s, via
  <2>2. task'[c].step = s /\ task'[c].via = via
    BY <2>1 DEF Tasks
  <2> QED BY <2>2 DEF s, via
<1> QED BY <1>2, <1>3, <1>4

\* A request that is not about to wait, and joins nobody new, disturbs no owner.
LEMMA QuietOwners ==
  ASSUME TypeOK, OwnersInvariant, NEW c \in Clients, UNCHANGED <<message, task, cell, guard>>,
         request'[c].pc # "waiting",
         request'[c].join \in {request[c].join, NoClient},
         \A d \in Clients \ {c} : request'[d] = request[d]
  PROVE  OwnersInvariant'
<1> USE DEF message
<1>1. CellsMatch' /\ GuardHeld'
  BY DEF OwnersInvariant, CellsMatch, GuardHeld, Operation
<1>2. JoinsMatch'
  BY DEF OwnersInvariant, JoinsMatch
<1>3. JoinedOwnerLives'
  BY DEF OwnersInvariant, JoinedOwnerLives
<1> QED BY <1>1, <1>2, <1>3 DEF OwnersInvariant

LEMMA RegisterOwners ==
  ASSUME TypeOK, OwnersInvariant, NEW c \in Clients, Register(c)
  PROVE  OwnersInvariant'
<1> DEFINE op == Operation(key[c], request[c].via)
           o == cell[op]
<1> USE DEF message
<1>k. UNCHANGED message /\ UNCHANGED guard /\ op \in Operations
  BY OperationType DEF Register, bridge
<1>1. CASE /\ o = NoClient /\ task[c].step = "none"
           /\ cell' = [cell EXCEPT ![op] = c]
           /\ request' = [request EXCEPT ![c].pc = "waiting", ![c].join = c]
           /\ task' = [task EXCEPT ![c].step = FirstStep(request[c].via), ![c].via = request[c].via]
  <2>1. /\ task'[c].step \in {"read", "prepare", "resume"} /\ task'[c].via = request[c].via
        /\ \A d \in Clients \ {c} : task'[d] = task[d]
    BY <1>1, SpawnEffect
  <2>2. cell'[op] = c /\ \A x \in Operations \ {op} : cell'[x] = cell[x]
    BY <1>1, <1>k DEF TypeOK
  <2>3. /\ request'[c].pc = "waiting" /\ request'[c].join = c
        /\ \A d \in Clients \ {c} : request'[d] = request[d]
    BY <1>1, WaitEffect
  <2>4. CellsMatch'
    <3>1. ASSUME NEW d \in Clients, task'[d].step # "none"
          PROVE  cell'[Operation(key[d], task'[d].via)] = d
      <4>1. CASE d = c
        BY <2>1, <2>2, <4>1
      <4>2. CASE d # c
        <5>1. cell[Operation(key[d], task[d].via)] = d
          BY <2>1, <3>1, <4>2 DEF OwnersInvariant, CellsMatch
        <5>2. Operation(key[d], task[d].via) \in Operations
          BY OperationType
        <5>3. task'[d] = task[d] /\ Operation(key[d], task[d].via) # op
          BY <1>1, <2>1, <4>2, <5>1
        <5> QED BY <2>2, <5>1, <5>2, <5>3
      <4> QED BY <4>1, <4>2
    <3>2. ASSUME NEW x \in Operations, cell'[x] # NoClient
          PROVE  task'[cell'[x]].step # "none" /\ x = Operation(key[cell'[x]], task'[cell'[x]].via)
      <4>1. CASE x = op
        BY <2>1, <2>2, <4>1
      <4>2. CASE x # op
        <5>1. /\ cell'[x] = cell[x] /\ cell[x] \in Clients
              /\ task[cell[x]].step # "none" /\ x = Operation(key[cell[x]], task[cell[x]].via)
          BY <2>2, <3>2, <4>2 DEF OwnersInvariant, CellsMatch, TypeOK
        <5> QED BY <1>1, <2>1, <5>1
      <4> QED BY <4>1, <4>2
    <3> QED BY <1>k, <3>1, <3>2 DEF CellsMatch, Operation
  <2>5. JoinsMatch'
    BY <1>k, <2>3 DEF OwnersInvariant, JoinsMatch
  <2>6. JoinedOwnerLives'
    BY <1>1, <2>1, <2>3 DEF OwnersInvariant, JoinedOwnerLives, TypeOK, Requests
  <2>7. GuardHeld'
    <3>1. \A d \in Clients : task'[d].step \in Guarded <=> task[d].step \in Guarded
      BY <1>1, <2>1 DEF Guarded
    <3>2. UNCHANGED <<guard, key>>
      BY <1>k
    <3> QED BY <3>1, <3>2 DEF OwnersInvariant, GuardHeld, Guarded
  <2> QED BY <2>4, <2>5, <2>6, <2>7 DEF OwnersInvariant
<1>2. CASE /\ o # NoClient /\ print[o] = print[c]
           /\ request' = [request EXCEPT ![c].pc = "waiting", ![c].join = o]
           /\ UNCHANGED <<cell, task>>
  <2>1. /\ request'[c].pc = "waiting" /\ request'[c].join = o
        /\ \A d \in Clients \ {c} : request'[d] = request[d]
    BY <1>2, WaitEffect
  <2>2. task[o].step # "none" /\ op = Operation(key[o], task[o].via)
    BY <1>2, <1>k DEF OwnersInvariant, CellsMatch
  <2>3. key[o] = key[c]
    BY <2>2 DEF Operation
  <2>4. CellsMatch' /\ GuardHeld'
    <3>1. UNCHANGED <<key, cell, task, guard>>
      BY <1>2, <1>k
    <3> QED BY <3>1 DEF OwnersInvariant, CellsMatch, GuardHeld, Operation
  <2>5. JoinsMatch'
    <3>1. UNCHANGED <<key, print>> /\ print[o] = print[c] /\ JoinsMatch
      BY <1>2, <1>k DEF OwnersInvariant
    <3> QED BY <2>1, <2>3, <3>1 DEF JoinsMatch
  <2>6. JoinedOwnerLives'
    <3>1. JoinedOwnerLives /\ task' = task /\ o # NoClient
      BY <1>2 DEF OwnersInvariant
    <3>2. ASSUME NEW d \in Clients, request'[d].pc = "waiting", request'[d].got = "none"
          PROVE  request'[d].join # NoClient /\ task'[request'[d].join].step # "none"
      <4>1. CASE d = c
        BY <2>1, <2>2, <3>1, <4>1
      <4>2. CASE d # c
        <5>1. request'[d] = request[d]
          BY <2>1, <4>2
        <5> QED BY <3>1, <3>2, <5>1 DEF JoinedOwnerLives
      <4> QED BY <4>1, <4>2
    <3> QED BY <3>2 DEF JoinedOwnerLives
  <2> QED BY <2>4, <2>5, <2>6 DEF OwnersInvariant
<1>3. CASE Answer(c, ErrorAnswer) /\ UNCHANGED <<cell, task>>
  BY <1>3, <1>k, AnswerEffect, QuietOwners
<1> QED BY <1>1, <1>2, <1>3 DEF Register, IsFree

LEMMA RequestOwners ==
  ASSUME TypeOK, OwnersInvariant, NEW c \in Clients,
         RequestStep(c) \/ SendAgain(c) \/ Disconnect(c)
  PROVE  OwnersInvariant'
<1> USE DEF bridge
<1>1. CASE ReadFirst(c)
  <2>1. /\ request'[c].pc # "waiting" /\ request'[c].join = request[c].join
        /\ \A d \in Clients \ {c} : request'[d] = request[d]
    BY <1>1, AnswerEffect, PcEffect DEF ReadFirst
  <2>2. UNCHANGED <<message, task, cell, guard>>
    BY <1>1 DEF ReadFirst
  <2> QED BY <2>1, <2>2, QuietOwners
<1>2. CASE ResolveCreate(c)
  BY <1>2, PcEffect, QuietOwners DEF ResolveCreate
<1>3. CASE ReserveClaim(c)
  BY <1>3, AnswerEffect, EnterEffect, QuietOwners DEF ReserveClaim
<1>4. CASE Receive(c)
  BY <1>4, AnswerEffect, PcEffect, QuietOwners DEF Receive
<1>5. CASE ReadBack(c)
  BY <1>5, AnswerEffect, QuietOwners DEF ReadBack
<1>6. CASE SendAgain(c) \/ Disconnect(c)
  <2>1. request'[c].pc = "idle" /\ request'[c].join = NoClient
    BY <1>6, ResetEffect DEF NoRequest
  <2> QED BY <1>6, <2>1, ResetEffect, QuietOwners DEF SendAgain, Disconnect
<1> QED BY <1>1, <1>2, <1>3, <1>4, <1>5, <1>6, RegisterOwners DEF RequestStep

LEMMA StepOwners == TypeOK /\ OwnersInvariant /\ [Next]_vars => OwnersInvariant'
<1> SUFFICES ASSUME TypeOK, OwnersInvariant, [Next]_vars PROVE OwnersInvariant'
  OBVIOUS
<1>1. ASSUME NEW c \in Clients, OwnerStep(c) \/ OwnerPlans(c) \/ OwnerFails(c)
      PROVE  OwnersInvariant'
  BY <1>1, OwnerEffect, MovesOwners, FinishOwners
<1> USE DEF message, OwnersInvariant, CellsMatch, JoinsMatch, JoinedOwnerLives, GuardHeld, Operation
<1>2. ASSUME NEW r, OtherRunStarts(r) \/ RunEnds(r) \/ Rebind(r) PROVE OwnersInvariant'
  BY <1>2 DEF OtherRunStarts, RunEnds, Rebind, bridge
<1>3. CASE Restart
  BY <1>3 DEF Restart, NoTask, NoRequest, Guarded
<1>4. CASE UNCHANGED vars
  BY <1>4 DEF vars, bridge
<1> QED BY <1>1, <1>2, <1>3, <1>4, RequestOwners DEF Next

\* The cells, their owners, the requests that joined them and the dispatch
\* guard agree in every state.
THEOREM OwnersAgree == Spec => []OwnersInvariant
<1>1. Spec => []TypeOK
  BY TypeCorrect
<1> QED BY <1>1, InitOwners, StepOwners, PTL DEF Spec

-----------------------------------------------------------------------------
(* The ledger: how a row and a claim may change in one step. *)

Keeps(k) == row'[k].print = row[k].print /\ row'[k].run = row[k].run

RowAdvances(k) ==
    \/ row'[k] = row[k]
    \/ IsEmpty(row[k]) /\ row'[k].state \in {"admitted", "not_dispatched"}
    \/ row[k].state = "admitted" /\ row'[k].state = "handoff_started" /\ Keeps(k)
    \/ row[k].state = "handoff_started" /\ row'[k].state \in {"accepted", "ambiguous"} /\ Keeps(k)

ClaimAdvances(k) ==
    \/ claim'[k] = claim[k]
    \/ claim[k].state = "none" /\ claim'[k].state = "reserved"
    \/ /\ claim[k].state \in {"reserved", "preparing"} /\ claim'[k].state # "none"
       /\ claim'[k].print = claim[k].print

\* An owner writes no row but its message's.
LEMMA InsertAdvances ==
  ASSUME TypeOK, NEW j \in Keys, NEW r \in Rows, r.state \in {"admitted", "not_dispatched"},
         Insert(j, r)
  PROVE  /\ \A k \in Keys \ {j} : row'[k] = row[k]
         /\ row'[j] = IF IsEmpty(row[j]) THEN r ELSE row[j]
         /\ \A k \in Keys : RowAdvances(k)
<1>1. \A k \in Keys \ {j} : row'[k] = row[k]
  BY DEF Insert, TypeOK
<1>2. row'[j] = IF IsEmpty(row[j]) THEN r ELSE row[j]
  BY DEF Insert, TypeOK
<1>3. \A k \in Keys : RowAdvances(k)
  BY <1>1, <1>2 DEF RowAdvances
<1> QED BY <1>1, <1>2, <1>3

LEMMA SetClaimEffect ==
  ASSUME TypeOK, NEW k \in Keys, NEW s, SetClaim(k, s)
  PROVE  /\ claim'[k].state = s /\ claim'[k].print = claim[k].print
         /\ \A j \in Keys \ {k} : claim'[j] = claim[j]
<1>1. claim'[k] = [claim[k] EXCEPT !.state = s] /\ claim[k] \in Claims
  BY DEF SetClaim, TypeOK
<1>2. \A j \in Keys \ {k} : claim'[j] = claim[j]
  BY DEF SetClaim, TypeOK
<1> QED BY <1>1, <1>2 DEF Claims

LEMMA PlannedType ==
  ASSUME TypeOK, NEW c \in Clients
  PROVE  /\ Planned(c) \in Rows /\ Planned(c).state = "admitted" /\ Planned(c).print = print[c]
<1>1. task[c].plan.run \in Runs \cup {NoRun} /\ key[c] \in Runs /\ print[c] \in Prints
  BY DEF TypeOK, Tasks, Plans, Runs
<1> QED BY <1>1 DEF Planned, Rows, RowStates, Settled

\* The rows that a committed claim and a declined input ask for.
Started(c) == [state |-> "admitted", outcome |-> "started", run |-> key[c],
               print |-> print[c], attempt |-> 0]
Declined(c) == [state |-> "not_dispatched", outcome |-> "no_active", run |-> NoRun,
                print |-> print[c], attempt |-> 0]

LEMMA StartedType ==
  ASSUME TypeOK, NEW c \in Clients
  PROVE  /\ Started(c) \in Rows /\ Started(c).state = "admitted" /\ Started(c).print = print[c]
         /\ Declined(c) \in Rows /\ Declined(c).state = "not_dispatched"
         /\ Declined(c).print = print[c]
<1>1. key[c] \in Runs /\ print[c] \in Prints
  BY DEF TypeOK, Runs
<1> QED BY <1>1 DEF Started, Declined, Rows, RowStates, Settled

LEMMA CrossesEffect ==
  ASSUME TypeOK, NEW k \in Keys,
         row' = [row EXCEPT ![k].state = "handoff_started", ![k].attempt = @ + 1]
  PROVE  /\ row'[k].state = "handoff_started" /\ Keeps(k)
         /\ \A j \in Keys \ {k} : row'[j] = row[j]
<1>1. \A j \in Keys \ {k} : row'[j] = row[j]
  BY DEF TypeOK
<1>2. row'[k] = [row[k] EXCEPT !.state = "handoff_started", !.attempt = @ + 1] /\ row[k] \in Rows
  BY DEF TypeOK
<1>3. /\ row'[k].state = "handoff_started"
      /\ row'[k].print = row[k].print /\ row'[k].run = row[k].run
  <2>1. row[k] = [state |-> row[k].state, outcome |-> row[k].outcome, run |-> row[k].run,
                  print |-> row[k].print, attempt |-> row[k].attempt]
    BY <1>2 DEF Rows
  <2> QED BY <1>2, <2>1
<1> QED BY <1>1, <1>3 DEF Keeps

LEMMA SettlesEffect ==
  ASSUME TypeOK, NEW k \in Keys, NEW v, row' = [row EXCEPT ![k].state = v]
  PROVE  /\ row'[k].state = v /\ Keeps(k)
         /\ \A j \in Keys \ {k} : row'[j] = row[j]
<1>1. row'[k] = [row[k] EXCEPT !.state = v] /\ row[k] \in Rows
  BY DEF TypeOK
<1>2. \A j \in Keys \ {k} : row'[j] = row[j]
  BY DEF TypeOK
<1> QED BY <1>1, <1>2 DEF Rows, Keeps

LEMMA RecoveredAdvances ==
  ASSUME TypeOK, Restart
  PROVE  \A k \in Keys : RowAdvances(k) /\ ClaimAdvances(k)
<1> TAKE k \in Keys
<1>1. row'[k] = Recovered(row[k]) /\ row[k] \in Rows
  BY DEF Restart, TypeOK
<1>2. RowAdvances(k)
  BY <1>1 DEF RowAdvances, Recovered, Rows, Keeps
<1>3. claim'[k] = Reclaimed(claim[k]) /\ claim[k] \in Claims
  BY DEF Restart, TypeOK
<1>4. ClaimAdvances(k)
  BY <1>3 DEF ClaimAdvances, Reclaimed, Claims
<1> QED BY <1>2, <1>4

LEMMA OwnerAdvances ==
  ASSUME TypeOK, NEW c \in Clients, OwnerStep(c) \/ OwnerPlans(c) \/ OwnerFails(c)
  PROVE  \A k \in Keys : RowAdvances(k) /\ ClaimAdvances(k)
<1>m. key[c] \in Keys
  BY DEF TypeOK
<1>r. ASSUME UNCHANGED row PROVE \A k \in Keys : RowAdvances(k)
  BY <1>r DEF RowAdvances
<1>c. ASSUME UNCHANGED claim PROVE \A k \in Keys : ClaimAdvances(k)
  BY <1>c DEF ClaimAdvances
<1>s. ASSUME NEW s \in {"reserved", "preparing", "committed", "failed"}, SetClaim(key[c], s),
             claim[key[c]].state \in {"reserved", "preparing"}
      PROVE  \A k \in Keys : ClaimAdvances(k)
  BY <1>s, <1>m, SetClaimEffect DEF ClaimAdvances
<1>1. CASE CreatePrepares(c)
  BY <1>1, <1>r, <1>c, <1>s DEF CreatePrepares
<1>2. CASE CreateCommits(c)
  <2>1. \A k \in Keys : RowAdvances(k)
    BY <1>2, <1>r, <1>m, InsertAdvances, StartedType DEF CreateCommits, Started
  <2>2. \A k \in Keys : ClaimAdvances(k)
    BY <1>2, <1>c, <1>s DEF CreateCommits
  <2> QED BY <2>1, <2>2
<1>3. CASE OwnerAdmits(c)
  <2>1. \A k \in Keys : RowAdvances(k)
    BY <1>3, <1>r, <1>m, InsertAdvances, PlannedType DEF OwnerAdmits
  <2> QED BY <1>3, <1>c, <2>1 DEF OwnerAdmits
<1>4. CASE OwnerDeclines(c)
  <2>1. \A k \in Keys : RowAdvances(k)
    BY <1>4, <1>r, <1>m, InsertAdvances, StartedType DEF OwnerDeclines, Declined
  <2> QED BY <1>4, <1>c, <2>1 DEF OwnerDeclines
<1>5. CASE OwnerCrosses(c)
  <2>1. \A k \in Keys : RowAdvances(k)
    BY <1>5, <1>r, <1>m, CrossesEffect DEF OwnerCrosses, CanCross, RowAdvances
  <2> QED BY <1>5, <1>c, <2>1 DEF OwnerCrosses
<1>6. CASE OwnerSettles(c)
  <2>0. task[c].verdict \in {"accepted", "ambiguous"}
    BY DEF TypeOK, Tasks
  <2>1. \A k \in Keys : RowAdvances(k)
    BY <1>6, <1>r, <1>m, <2>0, SettlesEffect DEF OwnerSettles, RowAdvances
  <2> QED BY <1>6, <1>c, <2>1 DEF OwnerSettles
<1>7. CASE CreateResumes(c) \/ CreateConfirms(c) \/ OwnerReads(c) \/ OwnerQueues(c) \/ OwnerStarts(c)
           \/ OwnerPublishesRun(c) \/ OwnerPlans(c) \/ OwnerFails(c)
  BY <1>7, <1>r, <1>c
     DEF CreateResumes, CreateConfirms, OwnerReads, OwnerQueues, OwnerStarts, OwnerPublishesRun,
         OwnerPlans, OwnerFails, ledger
<1> QED BY <1>1, <1>2, <1>3, <1>4, <1>5, <1>6, <1>7 DEF OwnerStep

\* A row goes from admitted over the gate to its result, and a claim to
\* committed or failed; neither ever goes back.
LEMMA LedgerAdvances ==
  ASSUME TypeOK, [Next]_vars
  PROVE  /\ UNCHANGED message
         /\ \A k \in Keys : RowAdvances(k) /\ ClaimAdvances(k)
<1>u. ASSUME UNCHANGED ledger PROVE \A k \in Keys : RowAdvances(k) /\ ClaimAdvances(k)
  BY <1>u DEF ledger, RowAdvances, ClaimAdvances
<1>1. ASSUME NEW c \in Clients, RequestStep(c) \/ SendAgain(c) \/ Disconnect(c)
      PROVE  UNCHANGED message /\ \A k \in Keys : RowAdvances(k) /\ ClaimAdvances(k)
  <2>1. CASE ReserveClaim(c)
    <3>1. key[c] \in Keys
      BY DEF TypeOK
    <3>2. \A k \in Keys : ClaimAdvances(k)
      BY <2>1, <3>1 DEF ReserveClaim, ClaimAdvances, TypeOK
    <3> QED BY <2>1, <3>2 DEF ReserveClaim, RowAdvances
  <2> QED BY <1>1, <1>u, <2>1 DEF RequestStep, ReadFirst, ResolveCreate, Register, Receive, ReadBack,
          SendAgain, Disconnect
<1>2. ASSUME NEW c \in Clients, OwnerStep(c) \/ OwnerPlans(c) \/ OwnerFails(c)
      PROVE  UNCHANGED message /\ \A k \in Keys : RowAdvances(k) /\ ClaimAdvances(k)
  BY <1>2, OwnerEffect, OwnerAdvances
<1>3. ASSUME NEW r, OtherRunStarts(r) \/ RunEnds(r) \/ Rebind(r)
      PROVE  UNCHANGED message /\ \A k \in Keys : RowAdvances(k) /\ ClaimAdvances(k)
  BY <1>3, <1>u DEF OtherRunStarts, RunEnds, Rebind
<1>4. CASE Restart
  BY <1>4, RecoveredAdvances DEF Restart
<1>5. CASE UNCHANGED vars
  BY <1>5, <1>u DEF vars
<1> QED BY <1>1, <1>2, <1>3, <1>4, <1>5 DEF Next

\* What the ledger has settled, what it promised a run or an answer for, and a
\* claim that is committed or failed is never rewritten.
THEOREM LedgerNeverRewritten == Spec => SettledForever
<1>1. ASSUME TypeOK, [Next]_vars
      PROVE  \A k \in Keys :
               /\ row[k].state \in Settled => row'[k] = row[k]
               /\ ~IsEmpty(row[k]) => /\ row'[k].print = row[k].print
                                      /\ row'[k].run = row[k].run
               /\ claim[k].state \in {"committed", "failed"} => claim'[k] = claim[k]
  BY <1>1, LedgerAdvances DEF RowAdvances, ClaimAdvances, Keeps, IsEmpty, Settled
<1> QED BY <1>1, TypeCorrect, PTL DEF Spec, SettledForever

-----------------------------------------------------------------------------
(* Claims: what entitles a request, and then its owner, to the route it    *)
(* takes, and what the row of the message is when it takes it.             *)

LEMMA InitClaims == Init => ClaimsInvariant
  BY DEF Init, ClaimsInvariant, ClaimsMatch, RequestEntitled, OwnerEntitled, RouteKept, SeenKept,
         Entitled, Committed, NoClaim, NoRow, NoRequest, NoTask, IsEmpty, PastGate

\* A row once there stays the same message's, and a claim once reserved or
\* committed stays so.
LEMMA LedgerStays ==
  ASSUME TypeOK, [Next]_vars, NEW c \in Clients
  PROVE  /\ key' = key /\ print' = print /\ kind' = kind /\ means' = means /\ key[c] \in Keys
         /\ row[key[c]].state # "none" =>
               row'[key[c]].state # "none" /\ row'[key[c]].print = row[key[c]].print
         /\ claim[key[c]].state # "none" =>
               claim'[key[c]].state # "none" /\ claim'[key[c]].print = claim[key[c]].print
         /\ claim[key[c]].state = "committed" => claim'[key[c]].state = "committed"
<1>1. UNCHANGED message /\ key[c] \in Keys /\ RowAdvances(key[c]) /\ ClaimAdvances(key[c])
  BY LedgerAdvances DEF TypeOK
<1> QED BY <1>1 DEF message, IsEmpty, RowAdvances, ClaimAdvances, Keeps

LEMMA RequestStays ==
  ASSUME TypeOK, [Next]_vars, NEW c \in Clients, RequestEntitled(c),
         request'[c].pc = request[c].pc, request'[c].via = request[c].via
  PROVE  RequestEntitled(c)'
  BY LedgerStays DEF RequestEntitled, Entitled, IsThreadless, IsEmpty, Committed

LEMMA OwnerStays ==
  ASSUME TypeOK, [Next]_vars, NEW c \in Clients, OwnerEntitled(c), task'[c] = task[c]
  PROVE  OwnerEntitled(c)'
<1> USE DEF IsThreadless, IsEmpty, Committed, Mine
<1>1. (task[c].step # "none" => Entitled(c, task[c].via))'
  BY LedgerStays DEF OwnerEntitled, Entitled
<1>2. RouteKept(c)'
  BY LedgerStays DEF OwnerEntitled, RouteKept
<1>3. SeenKept(c)'
  BY LedgerStays DEF OwnerEntitled, SeenKept
<1>4. (task[c].step \in {"handoff"} \cup PastGate => Mine(c))'
  BY LedgerStays DEF OwnerEntitled
<1> QED BY <1>1, <1>2, <1>3, <1>4 DEF OwnerEntitled

\* Only an insertion and a commit can part a claim from its row.
LEMMA ClaimStays ==
  ASSUME TypeOK, ClaimsMatch, [Next]_vars, NEW k \in Keys,
         row'[k].state # "none" <=> row[k].state # "none",
         claim'[k].state = "committed" <=> claim[k].state = "committed"
  PROVE  /\ claim'[k].state = "committed" => row'[k].state # "none" /\ row'[k].print = claim'[k].print
         /\ kind'[k] = "create" /\ claim'[k].state # "committed" => row'[k].state = "none"
<1>1. UNCHANGED message /\ RowAdvances(k) /\ ClaimAdvances(k)
  BY LedgerAdvances
<1> QED BY <1>1 DEF ClaimsMatch, RowAdvances, ClaimAdvances, Keeps, IsEmpty, Committed, message

LEMMA OwnerClaims ==
  ASSUME TypeOK, ClaimsInvariant, [Next]_vars, NEW c \in Clients,
         OwnerStep(c) \/ OwnerPlans(c) \/ OwnerFails(c)
  PROVE  ClaimsMatch'
<1> DEFINE k == key[c]
           ClaimOk(j) == /\ claim'[j].state = "committed" =>
                               row'[j].state # "none" /\ row'[j].print = claim'[j].print
                         /\ kind'[j] = "create" /\ claim'[j].state # "committed" =>
                               row'[j].state = "none"
<1>k. k \in Keys /\ kind' = kind
  BY LedgerStays
<1>o. ClaimsMatch /\ OwnerEntitled(c)
  BY DEF ClaimsInvariant
<1>s. SUFFICES \A j \in Keys : ClaimOk(j)
  BY DEF ClaimsMatch, Committed, IsEmpty
<1>1. ASSUME UNCHANGED row, \A j \in Keys : claim'[j].state = "committed" <=> claim[j].state = "committed"
      PROVE  \A j \in Keys : ClaimOk(j)
  BY <1>1, <1>o, ClaimStays
<1>2. CASE CreatePrepares(c)
  <2>1. UNCHANGED row /\ \A j \in Keys : claim'[j].state = "committed" <=> claim[j].state = "committed"
    BY <1>2, <1>k, SetClaimEffect DEF CreatePrepares
  <2> QED BY <1>1, <2>1
<1>3. CASE CreateCommits(c)
  <2>1. CASE /\ claim[k].state \in {"reserved", "preparing"}
             /\ SetClaim(k, "committed") /\ Insert(k, Started(c))
    <3>1. /\ claim'[k].state = "committed" /\ claim'[k].print = claim[k].print
          /\ \A j \in Keys \ {k} : claim'[j] = claim[j]
      BY <1>k, <2>1, SetClaimEffect
    <3>2. task[c].step = "commit" /\ task[c].via = "create"
      BY <1>3, <1>o DEF CreateCommits, OwnerEntitled, RouteKept
    <3>3. kind[k] = "create" /\ claim[k].print = print[c]
      BY <3>2, <1>o DEF OwnerEntitled, Entitled
    <3>4. IsEmpty(row[k])
      BY <1>k, <1>o, <2>1, <3>3 DEF ClaimsMatch, Committed
    <3>5. row'[k] = Started(c) /\ \A j \in Keys \ {k} : row'[j] = row[j]
      BY <1>k, <2>1, <3>4, StartedType, InsertAdvances
    <3>6. ClaimOk(k)
      BY <3>1, <3>3, <3>5, StartedType
    <3>7. \A j \in Keys \ {k} : ClaimOk(j)
      BY <1>o, <3>1, <3>5, ClaimStays
    <3> QED BY <3>6, <3>7
  <2>2. CASE UNCHANGED row /\ claim[k].state = "preparing"
             /\ (SetClaim(k, "reserved") \/ SetClaim(k, "failed") \/ UNCHANGED claim)
    <3>1. \A j \in Keys : claim'[j].state = "committed" <=> claim[j].state = "committed"
      BY <1>k, <2>2, SetClaimEffect
    <3> QED BY <1>1, <2>2, <3>1
  <2> QED BY <1>3, <2>1, <2>2 DEF CreateCommits, Started
<1>4. ASSUME UNCHANGED claim, kind[k] # "create", NEW r \in Rows, Insert(k, r),
             r.state \in {"admitted", "not_dispatched"}
      PROVE  \A j \in Keys : ClaimOk(j)
  <2>1. /\ row'[k] = IF IsEmpty(row[k]) THEN r ELSE row[k]
        /\ \A j \in Keys \ {k} : row'[j] = row[j]
    BY <1>k, <1>4, InsertAdvances
  <2>2. ClaimOk(k)
    BY <1>k, <1>o, <1>4, <2>1 DEF ClaimsMatch, Committed, IsEmpty
  <2>3. \A j \in Keys \ {k} : ClaimOk(j)
    BY <1>o, <1>4, <2>1, ClaimStays
  <2> QED BY <2>2, <2>3
<1>5. CASE OwnerAdmits(c)
  <2>1. CASE UNCHANGED row
    BY <1>1, <1>5, <2>1 DEF OwnerAdmits
  <2>2. CASE IsEmpty(task[c].seen) /\ Insert(k, Planned(c))
    <3>1. kind[k] # "create"
      BY <1>5, <1>o, <2>2 DEF OwnerAdmits, OwnerEntitled, SeenKept
    <3> QED BY <1>4, <1>5, <2>2, <3>1, PlannedType DEF OwnerAdmits
  <2> QED BY <1>5, <2>1, <2>2 DEF OwnerAdmits
<1>6. CASE OwnerDeclines(c)
  <2>1. CASE UNCHANGED row
    BY <1>1, <1>6, <2>1 DEF OwnerDeclines
  <2>2. CASE Insert(k, Declined(c))
    BY <1>4, <1>6, <2>2, StartedType DEF OwnerDeclines
  <2> QED BY <1>6, <2>1, <2>2 DEF OwnerDeclines, Declined
<1>7. CASE OwnerCrosses(c) \/ OwnerSettles(c)
  <2>1. /\ UNCHANGED claim
        /\ \A j \in Keys : row'[j].state # "none" <=> row[j].state # "none"
    <3>1. task[c].verdict \in {"accepted", "ambiguous"}
      BY DEF TypeOK, Tasks
    <3>2. CASE OwnerCrosses(c)
      BY <1>k, <3>2, CrossesEffect DEF OwnerCrosses, CanCross
    <3>3. CASE OwnerSettles(c)
      BY <1>k, <3>1, <3>3, SettlesEffect DEF OwnerSettles
    <3> QED BY <1>7, <3>2, <3>3
  <2> QED BY <1>o, <2>1, ClaimStays
<1>8. CASE CreateResumes(c) \/ CreateConfirms(c) \/ OwnerReads(c) \/ OwnerQueues(c) \/ OwnerStarts(c)
           \/ OwnerPublishesRun(c) \/ OwnerPlans(c) \/ OwnerFails(c)
  BY <1>1, <1>8
     DEF CreateResumes, CreateConfirms, OwnerReads, OwnerQueues, OwnerStarts, OwnerPublishesRun,
         OwnerPlans, OwnerFails, ledger
<1> QED BY <1>2, <1>3, <1>5, <1>6, <1>7, <1>8 DEF OwnerStep

LEMMA LedgerClaims ==
  ASSUME TypeOK, ClaimsInvariant, [Next]_vars
  PROVE  ClaimsMatch'
<1>s. ASSUME \A j \in Keys : /\ row'[j].state # "none" <=> row[j].state # "none"
                             /\ claim'[j].state = "committed" <=> claim[j].state = "committed"
      PROVE  ClaimsMatch'
  BY <1>s, ClaimStays DEF ClaimsInvariant, ClaimsMatch, Committed, IsEmpty
<1>u. ASSUME UNCHANGED ledger PROVE ClaimsMatch'
  BY <1>s, <1>u DEF ledger
<1>1. ASSUME NEW c \in Clients, RequestStep(c) \/ SendAgain(c) \/ Disconnect(c) PROVE ClaimsMatch'
  <2>1. CASE ReserveClaim(c)
    <3>1. key[c] \in Keys
      BY DEF TypeOK
    <3>2. \A j \in Keys : claim'[j].state = "committed" <=> claim[j].state = "committed"
      BY <2>1, <3>1 DEF ReserveClaim, TypeOK
    <3> QED BY <1>s, <2>1, <3>2 DEF ReserveClaim
  <2> QED BY <1>1, <1>u, <2>1 DEF RequestStep, ReadFirst, ResolveCreate, Register, Receive, ReadBack,
          SendAgain, Disconnect
<1>2. ASSUME NEW r, OtherRunStarts(r) \/ RunEnds(r) \/ Rebind(r) PROVE ClaimsMatch'
  BY <1>2, <1>u DEF OtherRunStarts, RunEnds, Rebind
<1>3. CASE Restart
  <2>1. ASSUME NEW j \in Keys
        PROVE  /\ row'[j].state # "none" <=> row[j].state # "none"
               /\ claim'[j].state = "committed" <=> claim[j].state = "committed"
    <3>1. row'[j] = Recovered(row[j]) /\ row[j] \in Rows
      BY <1>3 DEF Restart, TypeOK
    <3>2. claim'[j] = Reclaimed(claim[j]) /\ claim[j] \in Claims
      BY <1>3 DEF Restart, TypeOK
    <3> QED BY <3>1, <3>2 DEF Recovered, Reclaimed, Rows, Claims
  <2> QED BY <1>s, <2>1
<1>4. CASE UNCHANGED vars
  BY <1>4, <1>u DEF vars
<1> QED BY <1>1, <1>2, <1>3, <1>4, OwnerClaims DEF Next

LEMMA EndedEntitled ==
  ASSUME NEW c \in Clients, task'[c].step = "none"
  PROVE  OwnerEntitled(c)'
  BY DEF OwnerEntitled, RouteKept, SeenKept, PastGate

\* An owner that goes on from a step past the claim and the first read.
LEMMA LaterEntitled ==
  ASSUME TypeOK, [Next]_vars, NEW c \in Clients, OwnerEntitled(c),
         task[c].step \notin {"none", "prepare", "commit"}, task'[c].via = task[c].via,
         task'[c].step \in {"handoff"} \cup PastGate, Mine(c)'
  PROVE  OwnerEntitled(c)'
<1> USE DEF IsThreadless, IsEmpty, Committed, PastGate
<1>1. (task[c].step # "none" => Entitled(c, task[c].via))'
  BY LedgerStays DEF OwnerEntitled, Entitled
<1>2. RouteKept(c)' /\ SeenKept(c)'
  BY LedgerStays DEF OwnerEntitled, RouteKept, SeenKept
<1> QED BY <1>1, <1>2 DEF OwnerEntitled

LEMMA OwnerStepEntitled ==
  ASSUME TypeOK, ClaimsInvariant, [Next]_vars, NEW c \in Clients,
         OwnerStep(c) \/ OwnerPlans(c) \/ OwnerFails(c)
  PROVE  OwnerEntitled(c)'
<1> DEFINE k == key[c]
<1>k. k \in Keys /\ key' = key /\ print' = print /\ kind' = kind
  BY LedgerStays
<1>o. ClaimsMatch /\ OwnerEntitled(c)
  BY DEF ClaimsInvariant
<1>f. ASSUME NEW result, Finish(c, result) PROVE OwnerEntitled(c)'
  BY <1>f, FinishEffect, EndedEntitled DEF NoTask
<1>h. ASSUME task[c].step \in {"handoff"} \cup PastGate,
             task'[c].step \in PastGate, task'[c].via = task[c].via
      PROVE  OwnerEntitled(c)'
  <2>1. Mine(c)'
    BY <1>h, <1>o, LedgerStays DEF OwnerEntitled, Mine, IsEmpty
  <2> QED BY <1>h, <1>o, <2>1, LaterEntitled DEF PastGate
<1>1. CASE CreatePrepares(c)
  <2>1. CASE task[c].step = "prepare" /\ Goto(c, "commit")
    <3>1. task'[c].step = "commit" /\ task'[c].via = "create" /\ task[c].via = "create"
      BY <1>o, <2>1, GotoEffect DEF OwnerEntitled, RouteKept
    <3>2. (task[c].step # "none" => Entitled(c, task[c].via))'
      BY <1>o, <2>1, <3>1, LedgerStays DEF OwnerEntitled, Entitled
    <3> QED BY <3>1, <3>2 DEF OwnerEntitled, RouteKept, SeenKept, PastGate
  <2> QED BY <1>1, <1>f, <2>1 DEF CreatePrepares
<1>2. CASE CreateCommits(c)
  <2>1. CASE task[c].step = "commit" /\ SetClaim(k, "committed") /\ Goto(c, "plan")
    <3>1. task'[c].step = "plan" /\ task'[c].via = "create" /\ task[c].via = "create"
      BY <1>o, <2>1, GotoEffect DEF OwnerEntitled, RouteKept
    <3>2. (task[c].step # "none" => Entitled(c, task[c].via))'
      BY <1>o, <2>1, <3>1, LedgerStays DEF OwnerEntitled, Entitled
    <3>3. Committed(key[c])'
      BY <1>k, <2>1, SetClaimEffect DEF Committed
    <3> QED BY <3>1, <3>2, <3>3 DEF OwnerEntitled, RouteKept, SeenKept, PastGate
  <2> QED BY <1>2, <1>f, <2>1 DEF CreateCommits
<1>3. CASE CreateResumes(c)
  <2>1. CASE task[c].step = "resume" /\ Goto(c, "plan")
    <3>1. task'[c].step = "plan" /\ task'[c].via = "resume" /\ task[c].via = "resume"
      BY <1>o, <2>1, GotoEffect DEF OwnerEntitled, RouteKept
    <3>2. (task[c].step # "none" => Entitled(c, task[c].via))'
      BY <1>o, <2>1, <3>1, LedgerStays DEF OwnerEntitled, Entitled, Committed
    <3>3. Committed(key[c])'
      BY <1>o, <2>1, <3>1, LedgerStays DEF OwnerEntitled, Entitled, Committed
    <3> QED BY <3>1, <3>2, <3>3 DEF OwnerEntitled, RouteKept, SeenKept, PastGate
  <2> QED BY <1>3, <1>f, <2>1 DEF CreateResumes
<1>4. CASE OwnerReads(c)
  <2>1. CASE task[c].step = "read" /\ Proceeds(row[k], print[c])
             /\ task' = [task EXCEPT ![c].step = "plan", ![c].seen = row[k]]
    <3>1. /\ task'[c].step = "plan" /\ task'[c].via = "dispatch" /\ task[c].via = "dispatch"
          /\ task'[c].seen = row[k]
      BY <1>o, <2>1, ReadsEffect DEF OwnerEntitled, RouteKept
    <3>2. (task[c].step # "none" => Entitled(c, task[c].via))'
      BY <1>o, <2>1, <3>1, LedgerStays DEF OwnerEntitled, Entitled, IsThreadless, IsEmpty
    <3>3. SeenKept(c)'
      <4>1. kind[k] = "create" => ~IsEmpty(row[k])
        BY <1>o, <2>1, <3>1 DEF OwnerEntitled, Entitled, IsThreadless
      <4>2. ~IsEmpty(row[k]) => row[k].print = print[c] /\ row[k].state = "admitted"
        BY <2>1 DEF Proceeds
      <4> QED BY <1>k, <3>1, <4>1, <4>2, LedgerStays DEF SeenKept, Mine, IsEmpty
    <3> QED BY <3>1, <3>2, <3>3 DEF OwnerEntitled, RouteKept, PastGate
  <2> QED BY <1>4, <1>f, <2>1 DEF OwnerReads
<1>5. CASE OwnerPlans(c)
  <2>1. /\ task[c].step = "plan" /\ task'[c].step = "insert"
        /\ task'[c].seen = task[c].seen /\ task'[c].via = task[c].via
    BY <1>5, PlansEffect
  <2>2. (task[c].step # "none" => Entitled(c, task[c].via))'
    BY <1>o, <2>1, LedgerStays DEF OwnerEntitled, Entitled, IsThreadless, IsEmpty, Committed
  <2>3. RouteKept(c)' /\ SeenKept(c)'
    BY <1>o, <2>1, LedgerStays DEF OwnerEntitled, RouteKept, SeenKept, Mine, IsEmpty, Committed
  <2> QED BY <2>1, <2>2, <2>3 DEF OwnerEntitled, PastGate
<1>6. CASE OwnerAdmits(c)
  <2>1. CASE /\ task[c].step = "insert" /\ task[c].via = "dispatch" /\ Goto(c, "handoff")
             /\ IF IsEmpty(task[c].seen) THEN Insert(k, Planned(c)) ELSE UNCHANGED row
             /\ LET r == IF IsEmpty(task[c].seen) THEN row'[k] ELSE task[c].seen IN
                r.state = "admitted" /\ r.print = print[c]
    <3>1. task'[c].step = "handoff" /\ task'[c].via = task[c].via
      BY <2>1, GotoEffect
    <3>2. Mine(c)'
      <4>1. CASE IsEmpty(task[c].seen)
        BY <1>k, <2>1, <4>1 DEF Mine, IsEmpty
      <4>2. CASE ~IsEmpty(task[c].seen)
        BY <1>k, <1>o, <2>1, <4>2, LedgerStays DEF OwnerEntitled, SeenKept, Mine, IsEmpty
      <4> QED BY <4>1, <4>2
    <3> QED BY <1>o, <2>1, <3>1, <3>2, LaterEntitled
  <2> QED BY <1>6, <1>f, <2>1 DEF OwnerAdmits
<1>7. CASE CreateConfirms(c)
  <2>1. CASE task[c].step = "insert" /\ task[c].via # "dispatch" /\ Goto(c, "handoff")
    <3>1. task'[c].step = "handoff" /\ task'[c].via = task[c].via
      BY <2>1, GotoEffect
    <3>2. Committed(k) /\ claim[k].print = print[c]
      BY <1>o, <2>1 DEF OwnerEntitled, RouteKept, Entitled
    <3>3. Mine(c)
      BY <1>k, <1>o, <3>2 DEF ClaimsMatch, Mine
    <3>4. Mine(c)'
      BY <3>3, LedgerStays DEF Mine, IsEmpty
    <3> QED BY <1>o, <2>1, <3>1, <3>4, LaterEntitled
  <2> QED BY <1>7, <1>f, <2>1 DEF CreateConfirms
<1>8. CASE OwnerDeclines(c)
  BY <1>8, <1>f DEF OwnerDeclines
<1>9. CASE OwnerCrosses(c)
  <2>1. CASE task[c].step = "handoff" /\ Goto(c, "execute")
    BY <1>h, <2>1, GotoEffect DEF PastGate
  <2> QED BY <1>9, <1>f, <2>1 DEF OwnerCrosses
<1>10. CASE OwnerQueues(c) \/ OwnerPublishesRun(c)
  BY <1>10, <1>h, JudgeEffect DEF OwnerQueues, OwnerPublishesRun, PastGate
<1>11. CASE OwnerStarts(c)
  <2>1. task'[c].step \in PastGate /\ task'[c].via = task[c].via /\ task[c].step \in PastGate
    BY <1>11, JudgeEffect, GotoEffect DEF OwnerStarts, PastGate
  <2> QED BY <1>h, <2>1
<1>12. CASE OwnerSettles(c) \/ OwnerFails(c)
  BY <1>12, <1>f DEF OwnerSettles, OwnerFails
<1> QED BY <1>1, <1>2, <1>3, <1>4, <1>5, <1>6, <1>7, <1>8, <1>9, <1>10, <1>11, <1>12 DEF OwnerStep

\* What a request may do, with the route it then has.
LEMMA RequestStepEntitled ==
  ASSUME TypeOK, ClaimsInvariant, [Next]_vars, NEW c \in Clients,
         RequestStep(c) \/ SendAgain(c) \/ Disconnect(c)
  PROVE  /\ \A d \in Clients : RequestEntitled(d)'
         /\ \A d \in Clients : OwnerEntitled(d)'
<1> DEFINE k == key[c]
<1> USE DEF ledger
<1>k. k \in Keys /\ key' = key /\ print' = print /\ kind' = kind
  BY LedgerStays
<1>o. ClaimsMatch /\ RequestEntitled(c) /\ OwnerEntitled(c)
  BY DEF ClaimsInvariant
<1>a. ASSUME request'[c].pc \notin {"idle", "reserve", "register"} PROVE RequestEntitled(c)'
  BY <1>a DEF RequestEntitled
<1>t. ASSUME UNCHANGED task PROVE \A d \in Clients : OwnerEntitled(d)'
  BY <1>t, OwnerStays DEF ClaimsInvariant
<1>r. ASSUME RequestEntitled(c)', \A d \in Clients \ {c} : request'[d] = request[d]
      PROVE  \A d \in Clients : RequestEntitled(d)'
  BY <1>r, RequestStays DEF ClaimsInvariant
<1>1. CASE ReadFirst(c)
  <2>1. CASE \E a : Answer(c, a)
    <3>1. request'[c].pc = "answered" /\ \A d \in Clients \ {c} : request'[d] = request[d]
      BY <2>1, AnswerEffect
    <3> QED BY <1>1, <1>a, <1>r, <1>t, <3>1 DEF ReadFirst
  <2>2. CASE request' = [request EXCEPT ![c].pc = "register"]
    <3>1. /\ request'[c].pc = "register" /\ request'[c].via = "dispatch"
          /\ \A d \in Clients \ {c} : request'[d] = request[d]
      BY <1>1, <1>o, <2>2, PcEffect DEF ReadFirst, RequestEntitled
    <3>2. RequestEntitled(c)'
      <4>1. ~IsThreadless(k) /\ means[c] # "create" /\ UNCHANGED <<row, kind, key, means>>
        BY <1>1 DEF ReadFirst, Resolves, message
      <4>2. Entitled(c, "dispatch")'
        BY <4>1 DEF Entitled, IsThreadless, IsEmpty
      <4> QED BY <3>1, <4>2 DEF RequestEntitled
    <3> QED BY <1>1, <1>r, <1>t, <3>1, <3>2 DEF ReadFirst
  <2> QED BY <1>1, <2>1, <2>2 DEF ReadFirst
<1>2. CASE ResolveCreate(c)
  <2>1. /\ request'[c].pc = "reserve" /\ request'[c].via = "dispatch"
        /\ \A d \in Clients \ {c} : request'[d] = request[d]
    BY <1>2, <1>o, PcEffect DEF ResolveCreate, RequestEntitled
  <2>2. RequestEntitled(c)'
    BY <1>2, <1>k, <2>1 DEF ResolveCreate, RequestEntitled, IsThreadless
  <2> QED BY <1>2, <1>r, <1>t, <2>1, <2>2 DEF ResolveCreate
<1>3. CASE ReserveClaim(c)
  <2>1. CASE \E a : Answer(c, a)
    <3>1. request'[c].pc = "answered" /\ \A d \in Clients \ {c} : request'[d] = request[d]
      BY <2>1, AnswerEffect
    <3> QED BY <1>3, <1>a, <1>r, <1>t, <3>1 DEF ReserveClaim
  <2>2. ASSUME NEW via \in {"create", "resume"},
               request' = [request EXCEPT ![c].pc = "register", ![c].via = via],
               claim'[k].print = print[c], claim'[k].state # "none",
               via = "resume" => claim'[k].state = "committed"
        PROVE  /\ \A d \in Clients : RequestEntitled(d)'
               /\ \A d \in Clients : OwnerEntitled(d)'
    <3>1. /\ request'[c].pc = "register" /\ request'[c].via = via
          /\ \A d \in Clients \ {c} : request'[d] = request[d]
      <4>1. request' = [request EXCEPT ![c].pc = "register", ![c].via = via]
        BY <2>2
      <4> QED BY <4>1, EnterEffect
    <3>2. kind[k] = "create"
      BY <1>3, <1>o DEF ReserveClaim, RequestEntitled
    <3>3. RequestEntitled(c)'
      BY <1>k, <2>2, <3>1, <3>2 DEF RequestEntitled, Entitled, Committed
    <3> QED BY <1>3, <1>r, <1>t, <3>1, <3>3 DEF ReserveClaim
  <2> QED BY <1>3, <2>1, <2>2 DEF ReserveClaim
<1>4. CASE Register(c)
  <2>1. \A d \in Clients : RequestEntitled(d)'
    <3>1. /\ request'[c].pc \in {"waiting", "answered"}
          /\ \A d \in Clients \ {c} : request'[d] = request[d]
      BY <1>4, WaitEffect, AnswerEffect DEF Register
    <3> QED BY <1>a, <1>r, <3>1
  <2>2. CASE request[c].pc = "register"
             /\ task' = [task EXCEPT ![c].step = FirstStep(request[c].via), ![c].via = request[c].via]
    <3>1. /\ task'[c].step = FirstStep(request[c].via) /\ task'[c].via = request[c].via
          /\ request[c].via \in Routes /\ \A d \in Clients \ {c} : task'[d] = task[d]
      BY <2>2, SpawnEffect DEF TypeOK, Requests
    <3>2. (task[c].step # "none" => Entitled(c, task[c].via))'
      BY <1>o, <2>2, <3>1, LedgerStays DEF RequestEntitled, Entitled, IsThreadless, IsEmpty, Committed
    <3>4. task'[c].step \in {"read", "prepare", "resume"}
      BY <3>1 DEF FirstStep, Routes
    <3>7. /\ task'[c].step = "read" => task'[c].via = "dispatch"
          /\ task'[c].step = "prepare" => task'[c].via = "create"
          /\ task'[c].step = "resume" => task'[c].via = "resume"
      BY <3>1 DEF FirstStep, Routes
    <3>8. task'[c].via = "resume" => Committed(key[c])'
      BY <1>o, <2>2, <3>1, LedgerStays DEF RequestEntitled, Entitled, Committed
    <3>3. RouteKept(c)' /\ SeenKept(c)'
      BY <3>4, <3>7, <3>8 DEF RouteKept, SeenKept
    <3>5. OwnerEntitled(c)'
      BY <3>2, <3>3, <3>4 DEF OwnerEntitled, PastGate
    <3>6. \A d \in Clients \ {c} : OwnerEntitled(d)'
      BY <3>1, OwnerStays DEF ClaimsInvariant
    <3> QED BY <2>1, <3>5, <3>6
  <2> QED BY <1>4, <1>t, <2>1, <2>2 DEF Register
<1>5. CASE Receive(c) \/ ReadBack(c)
  <2>1. /\ request'[c].pc \in {"readback", "answered"}
        /\ \A d \in Clients \ {c} : request'[d] = request[d]
    BY <1>5, PcEffect, AnswerEffect DEF Receive, ReadBack
  <2> QED BY <1>5, <1>a, <1>r, <1>t, <2>1 DEF Receive, ReadBack
<1>6. CASE SendAgain(c) \/ Disconnect(c)
  <2>1. /\ request'[c].pc = "idle" /\ request'[c].via = "dispatch"
        /\ \A d \in Clients \ {c} : request'[d] = request[d]
    BY <1>6, ResetEffect DEF NoRequest
  <2>2. RequestEntitled(c)'
    BY <2>1 DEF RequestEntitled
  <2> QED BY <1>6, <1>r, <1>t, <2>1, <2>2 DEF SendAgain, Disconnect
<1> QED BY <1>1, <1>2, <1>3, <1>4, <1>5, <1>6 DEF RequestStep

LEMMA StepClaims == TypeOK /\ ClaimsInvariant /\ [Next]_vars => ClaimsInvariant'
<1> SUFFICES ASSUME TypeOK, ClaimsInvariant, [Next]_vars
             PROVE  \A d \in Clients : RequestEntitled(d)' /\ OwnerEntitled(d)'
  BY LedgerClaims DEF ClaimsInvariant
<1>1. ASSUME NEW c \in Clients, OwnerStep(c) \/ OwnerPlans(c) \/ OwnerFails(c)
      PROVE  \A d \in Clients : RequestEntitled(d)' /\ OwnerEntitled(d)'
  <2>1. \A d \in Clients : request'[d].pc = request[d].pc /\ request'[d].via = request[d].via
    BY <1>1, OwnerEffect, FinishEffect DEF Moves
  <2>2. \A d \in Clients \ {c} : task'[d] = task[d]
    BY <1>1, OwnerEffect, FinishEffect DEF Moves
  <2> QED BY <1>1, <2>1, <2>2, RequestStays, OwnerStays, OwnerStepEntitled DEF ClaimsInvariant
<1>2. ASSUME UNCHANGED <<request, task>>
      PROVE  \A d \in Clients : RequestEntitled(d)' /\ OwnerEntitled(d)'
  BY <1>2, RequestStays, OwnerStays DEF ClaimsInvariant
<1>3. ASSUME NEW r, OtherRunStarts(r) \/ RunEnds(r) \/ Rebind(r) PROVE UNCHANGED <<request, task>>
  BY <1>3 DEF OtherRunStarts, RunEnds, Rebind
<1>4. CASE Restart
  <2>1. \A d \in Clients : request'[d] = NoRequest /\ task'[d] = NoTask
    BY <1>4 DEF Restart
  <2> QED BY <2>1, EndedEntitled DEF RequestEntitled, NoRequest, NoTask
<1>5. CASE UNCHANGED vars
  BY <1>2, <1>5 DEF vars
<1> QED BY <1>1, <1>2, <1>3, <1>4, <1>5, RequestStepEntitled DEF Next

\* Every request and every owner is entitled to the route it is on.
THEOREM RoutesEntitled == Spec => []ClaimsInvariant
<1>1. Spec => []TypeOK
  BY TypeCorrect
<1> QED BY <1>1, InitClaims, StepClaims, PTL DEF Spec

-----------------------------------------------------------------------------
(* The gate: one owner per message is past it, and knows what it delivered. *)

GateInvariant == GateHeld /\ DeliveryKnown /\ LedgerTruthful

LEMMA InitGate == Init => GateInvariant
  BY DEF Init, GateInvariant, GateHeld, DeliveryKnown, LedgerTruthful, NoRow, NoTask, PastGate

\* A step of an owner before the gate, or at its end, that changes no row but
\* an empty one.
LEMMA QuietGate ==
  ASSUME TypeOK, GateInvariant, NEW c \in Clients, UNCHANGED <<key, delivered>>,
         task'[c].step \notin PastGate, \A d \in Clients \ {c} : task'[d] = task[d],
         \A j \in Keys : \/ row'[j] = row[j]
                         \/ row[j].state = "none" /\ row'[j].state \in {"admitted", "not_dispatched"}
  PROVE  GateInvariant'
<1>1. GateHeld'
  BY DEF GateInvariant, GateHeld, TypeOK
<1>2. DeliveryKnown'
  BY DEF GateInvariant, DeliveryKnown, PastGate
<1>3. LedgerTruthful'
  BY DEF GateInvariant, LedgerTruthful
<1> QED BY <1>1, <1>2, <1>3 DEF GateInvariant

\* The owner stays past the gate, with what it delivered.
LEMMA PastGateStep ==
  ASSUME TypeOK, GateInvariant, NEW c \in Clients, UNCHANGED <<key, row>>,
         task[c].step \in {"execute", "publish"}, task'[c].step \in {"publish", "settle"},
         \A d \in Clients \ {c} : task'[d] = task[d],
         \/ UNCHANGED delivered /\ (task'[c].step = "settle" => task'[c].verdict = "ambiguous")
         \/ Deliver(key[c]) /\ task'[c].step = "settle"
  PROVE  GateInvariant'
<1> DEFINE k == key[c]
<1>k. k \in Keys
  BY DEF TypeOK
<1>1. row[k].state = "handoff_started" /\ delivered[k] = 0
  BY DEF GateInvariant, GateHeld, DeliveryKnown, PastGate
<1>2. GateHeld'
  BY <1>1 DEF GateInvariant, GateHeld, PastGate
<1>3. \A d \in Clients \ {c} : task[d].step \in PastGate => key[d] # k
  BY DEF GateInvariant, GateHeld, PastGate
<1>4. \A j \in Keys \ {k} : delivered'[j] = delivered[j]
  BY DEF Deliver, TypeOK
<1>5. \/ delivered'[k] = 0 /\ (task'[c].step = "settle" => task'[c].verdict = "ambiguous")
      \/ delivered'[k] = 1 /\ task'[c].step = "settle"
  BY <1>k, <1>1 DEF Deliver, TypeOK
<1>6. DeliveryKnown'
  <2>1. ASSUME NEW d \in Clients
        PROVE  /\ task'[d].step \in {"execute", "publish"} => delivered'[key'[d]] = 0
               /\ task'[d].step = "settle" /\ task'[d].verdict = "accepted" => delivered'[key'[d]] = 1
    <3>1. CASE d = c
      BY <1>5, <3>1
    <3>2. CASE d # c
      BY <1>3, <1>4, <3>2 DEF GateInvariant, DeliveryKnown, PastGate, TypeOK
    <3> QED BY <3>1, <3>2
  <2> QED BY <2>1 DEF DeliveryKnown
<1>7. LedgerTruthful'
  BY <1>1, <1>4, <1>5 DEF GateInvariant, LedgerTruthful
<1> QED BY <1>2, <1>6, <1>7 DEF GateInvariant

LEMMA OwnerGate ==
  ASSUME TypeOK, GateInvariant, NEW c \in Clients,
         OwnerStep(c) \/ OwnerPlans(c) \/ OwnerFails(c)
  PROVE  GateInvariant'
<1> DEFINE k == key[c]
<1> USE DEF message
<1>k. k \in Keys /\ UNCHANGED message
  BY OwnerEffect DEF TypeOK
<1>q. ASSUME UNCHANGED delivered,
             \/ \E result : Finish(c, result)
             \/ \E s \in {"commit", "plan", "handoff"} : Goto(c, s)
             \/ task'[c].step \in {"plan", "insert"} /\ \A d \in Clients \ {c} : task'[d] = task[d],
             \/ UNCHANGED row
             \/ \E r \in Rows : Insert(k, r) /\ r.state \in {"admitted", "not_dispatched"}
      PROVE  GateInvariant'
  <2>1. task'[c].step \notin PastGate /\ \A d \in Clients \ {c} : task'[d] = task[d]
    <3>1. CASE \E result : Finish(c, result)
      BY <3>1, FinishEffect DEF NoTask, PastGate
    <3>2. CASE \E s \in {"commit", "plan", "handoff"} : Goto(c, s)
      BY <3>2, GotoEffect DEF PastGate
    <3> QED BY <1>q, <3>1, <3>2 DEF PastGate
  <2>2. \A j \in Keys : \/ row'[j] = row[j]
                        \/ row[j].state = "none" /\ row'[j].state \in {"admitted", "not_dispatched"}
    BY <1>k, <1>q, InsertAdvances DEF IsEmpty
  <2> QED BY <1>k, <1>q, <2>1, <2>2, QuietGate
<1>1. CASE CreatePrepares(c) \/ CreateResumes(c) \/ CreateConfirms(c) \/ OwnerFails(c)
  BY <1>1, <1>q DEF CreatePrepares, CreateResumes, CreateConfirms, OwnerFails, ledger
<1>2. CASE CreateCommits(c)
  BY <1>2, <1>q, StartedType DEF CreateCommits, Started
<1>3. CASE OwnerReads(c) \/ OwnerPlans(c)
  BY <1>3, <1>q, ReadsEffect, PlansEffect DEF OwnerReads, OwnerPlans, ledger
<1>4. CASE OwnerAdmits(c)
  BY <1>4, <1>q, PlannedType DEF OwnerAdmits
<1>5. CASE OwnerDeclines(c)
  BY <1>5, <1>q, StartedType DEF OwnerDeclines, Declined
<1>6. CASE OwnerCrosses(c)
  <2>1. CASE ~CanCross(k)
    BY <1>6, <1>q, <2>1 DEF OwnerCrosses
  <2>2. CASE CanCross(k)
    <3>1. /\ row'[k].state = "handoff_started" /\ \A j \in Keys \ {k} : row'[j] = row[j]
          /\ row[k].state = "admitted" /\ UNCHANGED delivered
      BY <1>6, <1>k, <2>2, CrossesEffect DEF OwnerCrosses, CanCross
    <3>2. /\ task'[c].step \in {"none", "execute"} /\ \A d \in Clients \ {c} : task'[d] = task[d]
      <4>1. CASE \E result : Finish(c, result)
        BY <4>1, FinishEffect DEF NoTask
      <4>2. CASE Goto(c, "execute")
        BY <4>2, GotoEffect
      <4> QED BY <1>6, <2>2, <4>1, <4>2 DEF OwnerCrosses
    <3>3. \A d \in Clients : task[d].step \in PastGate => key[d] # k
      BY <3>1 DEF GateInvariant, GateHeld
    <3>4. delivered[k] = 0
      BY <1>k, <3>1 DEF GateInvariant, LedgerTruthful
    <3>5. GateHeld'
      BY <1>k, <3>1, <3>2, <3>3 DEF GateInvariant, GateHeld, PastGate, TypeOK
    <3>6. DeliveryKnown'
      BY <1>k, <3>1, <3>2, <3>4 DEF GateInvariant, DeliveryKnown
    <3>7. LedgerTruthful'
      BY <3>1, <3>4 DEF GateInvariant, LedgerTruthful
    <3> QED BY <3>5, <3>6, <3>7 DEF GateInvariant
  <2> QED BY <2>1, <2>2
<1>7. CASE OwnerQueues(c) \/ OwnerPublishesRun(c)
  <2>1. /\ task'[c].step = "settle" /\ \A d \in Clients \ {c} : task'[d] = task[d]
        /\ task[c].step \in {"execute", "publish"} /\ UNCHANGED row
        /\ \/ UNCHANGED delivered /\ task'[c].verdict = "ambiguous"
           \/ Deliver(k)
    BY <1>7, JudgeEffect DEF OwnerQueues, OwnerPublishesRun, ledger
  <2> QED BY <1>k, <2>1, PastGateStep
<1>8. CASE OwnerStarts(c)
  <2>1. /\ \/ task'[c].step = "publish"
           \/ task'[c].step = "settle" /\ task'[c].verdict = "ambiguous"
        /\ \A d \in Clients \ {c} : task'[d] = task[d]
        /\ task[c].step = "execute" /\ UNCHANGED row /\ UNCHANGED delivered
    <3>0. task[c].step = "execute" /\ UNCHANGED row /\ UNCHANGED delivered
      BY <1>8 DEF OwnerStarts, ledger
    <3>1. CASE Judge(c, "ambiguous")
      BY <3>0, <3>1, JudgeEffect
    <3>2. CASE Goto(c, "publish")
      <4>1. task'[c].step = "publish" /\ \A d \in Clients \ {c} : task'[d] = task[d]
        BY <3>2, GotoEffect
      <4> QED BY <3>0, <4>1
    <3> QED BY <1>8, <3>1, <3>2 DEF OwnerStarts
  <2> QED BY <1>k, <2>1, PastGateStep
<1>9. CASE OwnerSettles(c)
  <2>1. CASE row[k].state # "handoff_started"
    BY <1>9, <1>q, <2>1 DEF OwnerSettles
  <2>2. CASE row[k].state = "handoff_started"
    <3>1. /\ row'[k].state = task[c].verdict /\ \A j \in Keys \ {k} : row'[j] = row[j]
          /\ UNCHANGED delivered /\ task[c].step = "settle"
      BY <1>9, <1>k, <2>2, SettlesEffect DEF OwnerSettles
    <3>2. task'[c].step = "none" /\ \A d \in Clients \ {c} : task'[d] = task[d]
      BY <1>9, <2>2, FinishEffect DEF OwnerSettles, NoTask
    <3>3. \A d \in Clients \ {c} : task[d].step \in PastGate => key[d] # k
      BY <3>1 DEF GateInvariant, GateHeld, PastGate
    <3>4. GateHeld'
      BY <1>k, <3>1, <3>2, <3>3 DEF GateInvariant, GateHeld, PastGate, TypeOK
    <3>5. DeliveryKnown'
      BY <1>k, <3>1, <3>2 DEF GateInvariant, DeliveryKnown
    <3>6. LedgerTruthful'
      <4>1. task[c].verdict \in {"accepted", "ambiguous"}
        BY DEF TypeOK, Tasks
      <4>2. task[c].verdict = "accepted" => delivered[k] = 1
        BY <3>1 DEF GateInvariant, DeliveryKnown
      <4> QED BY <3>1, <4>1, <4>2 DEF GateInvariant, LedgerTruthful
    <3> QED BY <3>4, <3>5, <3>6 DEF GateInvariant
  <2> QED BY <2>1, <2>2
<1> QED BY <1>1, <1>2, <1>3, <1>4, <1>5, <1>6, <1>7, <1>8, <1>9 DEF OwnerStep

LEMMA StepGate == TypeOK /\ GateInvariant /\ [Next]_vars => GateInvariant'
<1> SUFFICES ASSUME TypeOK, GateInvariant, [Next]_vars PROVE GateInvariant'
  OBVIOUS
<1> USE DEF message, ledger
<1>u. ASSUME UNCHANGED <<key, row, delivered, task>> PROVE GateInvariant'
  BY <1>u DEF GateInvariant, GateHeld, DeliveryKnown, LedgerTruthful
<1>1. ASSUME NEW c \in Clients, RequestStep(c) \/ SendAgain(c) \/ Disconnect(c) PROVE GateInvariant'
  <2>1. CASE Register(c)
    <3>1. UNCHANGED <<key, row, delivered>>
      BY <2>1 DEF Register
    <3>2. CASE UNCHANGED task
      BY <1>u, <3>1, <3>2
    <3>3. CASE task' = [task EXCEPT ![c].step = FirstStep(request[c].via), ![c].via = request[c].via]
      <4>1. task'[c].step \notin PastGate /\ \A d \in Clients \ {c} : task'[d] = task[d]
        BY <3>3, SpawnEffect DEF PastGate
      <4> QED BY <3>1, <4>1, QuietGate
    <3> QED BY <2>1, <3>2, <3>3 DEF Register
  <2> QED BY <1>1, <1>u, <2>1 DEF RequestStep, ReadFirst, ResolveCreate, ReserveClaim, Receive,
          ReadBack, SendAgain, Disconnect
<1>2. ASSUME NEW r, OtherRunStarts(r) \/ RunEnds(r) \/ Rebind(r) PROVE GateInvariant'
  BY <1>2, <1>u DEF OtherRunStarts, RunEnds, Rebind
<1>3. CASE Restart
  <2>1. UNCHANGED <<key, delivered>> /\ \A d \in Clients : task'[d] = NoTask
    BY <1>3 DEF Restart
  <2>2. \A k \in Keys : \/ row'[k].state = row[k].state
                        \/ row[k].state = "handoff_started" /\ row'[k].state = "ambiguous"
    <3> TAKE k \in Keys
    <3>1. row'[k] = Recovered(row[k]) /\ row[k] \in Rows
      BY <1>3 DEF Restart, TypeOK
    <3> QED BY <3>1 DEF Recovered, Rows
  <2>3. GateHeld' /\ DeliveryKnown'
    BY <2>1 DEF GateHeld, DeliveryKnown, NoTask, PastGate
  <2>4. LedgerTruthful'
    BY <2>1, <2>2 DEF GateInvariant, LedgerTruthful
  <2> QED BY <2>3, <2>4 DEF GateInvariant
<1>4. CASE UNCHANGED vars
  BY <1>4, <1>u DEF vars
<1> QED BY <1>1, <1>2, <1>3, <1>4, OwnerGate DEF Next

\* One owner per message is past the gate, the row says so, and it has
\* delivered what its verdict says.
THEOREM GateHolds == Spec => []GateInvariant
<1>1. Spec => []TypeOK
  BY TypeCorrect
<1> QED BY <1>1, InitGate, StepGate, PTL DEF Spec

\* A message reaches a provider at most once, and the ledger never claims what
\* did not happen, over duplicates, joins, lost owners and restarts.
THEOREM LedgerIsTruthful == Spec => []LedgerTruthful
<1>1. GateInvariant => LedgerTruthful
  BY DEF GateInvariant
<1> QED BY <1>1, GateHolds, PTL

-----------------------------------------------------------------------------
(* Answers: what is published is the result of the message it is read for. *)

AnswersInvariant == ResultsMatch /\ AnswersFinal

LEMMA InitAnswers == Init => AnswersInvariant
  BY DEF Init, AnswersInvariant, ResultsMatch, AnswersFinal, NoRequest, NoAnswer

\* Answers stay final when the request only moves or learns its result.
LEMMA QuietAnswers ==
  ASSUME TypeOK, AnswersInvariant, [Next]_vars,
         \A d \in Clients :
            /\ \/ request'[d].answer = request[d].answer
               \/ request'[d].answer.says \notin {"accepted", "no_active"}
               \/ /\ request'[d].answer = RecordAnswer(row[key[d]]) /\ Mine(d)
                  /\ row'[key[d]] = row[key[d]]
            /\ request'[d].got = "ready" => request[d].got = "ready" \/ Mine(d)'
            /\ request'[d].pc = "readback" =>
                  request[d].pc = "readback" \/ request[d].got = "ready"
            /\ request[d].got = "ready" =>
                  request'[d].got = "ready" \/ request'[d].pc # "readback"
  PROVE  AnswersInvariant'
<1>1. ASSUME NEW d \in Clients
      PROVE  /\ request'[d].got = "ready" => Mine(d)'
             /\ request'[d].pc = "readback" => request'[d].got = "ready"
  <2>1. Mine(d) => Mine(d)'
    BY LedgerStays DEF Mine, IsEmpty
  <2> QED BY <2>1 DEF AnswersInvariant, ResultsMatch
<1>2. ASSUME NEW d \in Clients, request'[d].answer.says \in {"accepted", "no_active"}
      PROVE  LET r == row'[key'[d]]
                 a == request'[d].answer
             IN
             /\ r.print = print'[d] /\ r.run = a.run
             /\ r.state = IF a.says = "accepted" THEN "accepted" ELSE "not_dispatched"
  <2>0. key' = key /\ print' = print /\ key[d] \in Keys
    BY LedgerStays
  <2>1. CASE request'[d].answer = request[d].answer
    <3>1. LET r == row[key[d]]
              a == request[d].answer
          IN
          /\ r.print = print[d] /\ r.run = a.run
          /\ r.state = IF a.says = "accepted" THEN "accepted" ELSE "not_dispatched"
      BY <1>2, <2>1 DEF AnswersInvariant, AnswersFinal
    <3>2. row'[key[d]] = row[key[d]]
      BY <2>0, <3>1, LedgerAdvances DEF RowAdvances, IsEmpty
    <3> QED BY <2>0, <2>1, <3>1, <3>2
  <2>2. CASE /\ request'[d].answer = RecordAnswer(row[key[d]]) /\ Mine(d)
             /\ row'[key[d]] = row[key[d]]
    <3>1. row[key[d]].state \in RowStates
      BY <2>0 DEF TypeOK, Rows
    <3>2. /\ RecordAnswer(row[key[d]]).run = row[key[d]].run
          /\ RecordAnswer(row[key[d]]).says = "accepted" => row[key[d]].state = "accepted"
          /\ RecordAnswer(row[key[d]]).says = "no_active" => row[key[d]].state = "not_dispatched"
      BY <3>1 DEF RecordAnswer, RowStates, Settled
    <3> QED BY <1>2, <2>0, <2>2, <3>2 DEF Mine
  <2> QED BY <1>2, <2>1, <2>2
<1> QED BY <1>1, <1>2 DEF AnswersInvariant, ResultsMatch, AnswersFinal

\* An owner publishes a result when the row is that of its message.
LEMMA FinishReady ==
  ASSUME TypeOK, ClaimsInvariant, [Next]_vars, NEW c \in Clients,
         OwnerStep(c) \/ OwnerPlans(c) \/ OwnerFails(c)
  PROVE  \/ Finish(c, "ready") /\ Mine(c)'
         \/ Finish(c, "failed")
         \/ UNCHANGED request
<1> DEFINE k == key[c]
<1>k. k \in Keys /\ key' = key /\ print' = print
  BY LedgerStays
<1>o. ClaimsMatch /\ OwnerEntitled(c)
  BY DEF ClaimsInvariant
<1>m. Mine(c) => Mine(c)'
  BY LedgerStays DEF Mine, IsEmpty
<1>1. CASE CreatePrepares(c) \/ CreateCommits(c) \/ CreateConfirms(c) \/ OwnerPlans(c) \/ OwnerQueues(c)
           \/ OwnerStarts(c) \/ OwnerPublishesRun(c) \/ OwnerFails(c)
  BY <1>1 DEF CreatePrepares, CreateCommits, CreateConfirms, OwnerPlans, OwnerQueues, OwnerStarts,
              OwnerPublishesRun, OwnerFails
<1>2. CASE CreateResumes(c)
  <2>1. task[c].step = "resume" => Mine(c)
    <3>1. ASSUME task[c].step = "resume" PROVE Committed(k) /\ claim[k].print = print[c]
      BY <1>o, <3>1 DEF OwnerEntitled, RouteKept, Entitled
    <3> QED BY <1>k, <1>o, <3>1 DEF ClaimsMatch, Mine
  <2> QED BY <1>2, <1>m, <2>1 DEF CreateResumes
<1>3. CASE OwnerReads(c)
  BY <1>3, <1>m DEF OwnerReads, IsDone, Mine
<1>4. CASE OwnerAdmits(c)
  <2>1. CASE ~Finish(c, "ready")
    BY <1>4, <2>1 DEF OwnerAdmits
  <2>2. ASSUME LET r == IF IsEmpty(task[c].seen) THEN row'[k] ELSE task[c].seen IN
               IsDone(r, print[c])
        PROVE  Mine(c)'
    <3>1. CASE IsEmpty(task[c].seen)
      BY <1>k, <2>2, <3>1 DEF IsDone, Mine, IsEmpty
    <3>2. CASE ~IsEmpty(task[c].seen)
      BY <1>4, <1>m, <1>o, <3>2 DEF OwnerAdmits, OwnerEntitled, SeenKept
    <3> QED BY <3>1, <3>2
  <2>3. Finish(c, "ready") /\ ~Finish(c, "failed") =>
           LET r == IF IsEmpty(task[c].seen) THEN row'[k] ELSE task[c].seen IN
           IsDone(r, print[c]) \/ UNCHANGED request
    BY <1>4 DEF OwnerAdmits
  <2> QED BY <1>4, <2>1, <2>2, <2>3
<1>5. CASE OwnerDeclines(c)
  <2>1. CASE IsEmpty(task[c].seen) /\ row'[k].print = print[c]
    <3>1. Insert(k, Declined(c))
      BY <1>5, <2>1 DEF OwnerDeclines, Declined
    <3>2. Mine(c)'
      BY <1>k, <2>1, <3>1, InsertAdvances, StartedType DEF Mine, IsEmpty
    <3> QED BY <1>5, <2>1, <3>2 DEF OwnerDeclines
  <2>2. CASE ~(IsEmpty(task[c].seen) /\ row'[k].print = print[c])
    BY <1>5, <2>2 DEF OwnerDeclines
  <2> QED BY <2>1, <2>2
<1>6. CASE OwnerCrosses(c) \/ OwnerSettles(c)
  BY <1>6, <1>m, <1>o DEF OwnerCrosses, OwnerSettles, OwnerEntitled, PastGate
<1> QED BY <1>1, <1>2, <1>3, <1>4, <1>5, <1>6 DEF OwnerStep

LEMMA OwnerAnswers ==
  ASSUME TypeOK, OwnersInvariant, ClaimsInvariant, AnswersInvariant, [Next]_vars, NEW c \in Clients,
         OwnerStep(c) \/ OwnerPlans(c) \/ OwnerFails(c)
  PROVE  AnswersInvariant'
<1>1. ASSUME NEW result \in {"ready", "failed"}, Finish(c, result), result = "ready" => Mine(c)'
      PROVE  AnswersInvariant'
  <2>1. ASSUME NEW d \in Clients, request[d].join = c, Mine(c)' PROVE Mine(d)'
    <3>1. key[d] = key[c] /\ print[d] = print[c] /\ key' = key /\ print' = print
      BY <2>1, LedgerStays DEF OwnersInvariant, JoinsMatch
    <3> QED BY <2>1, <3>1 DEF Mine
  <2>2. \A d \in Clients :
           /\ request'[d].answer = request[d].answer /\ request'[d].pc = request[d].pc
           /\ request'[d].got = "ready" => request[d].got = "ready" \/ Mine(d)'
           /\ request[d].got = "ready" => request'[d].got = "ready"
    BY <1>1, <2>1, FinishEffect
  <2> QED BY <2>2, QuietAnswers
<1>2. CASE UNCHANGED request
  BY <1>2, QuietAnswers
<1> QED BY <1>1, <1>2, FinishReady

LEMMA RequestAnswers ==
  ASSUME TypeOK, ClaimsInvariant, AnswersInvariant, [Next]_vars, NEW c \in Clients,
         RequestStep(c) \/ SendAgain(c) \/ Disconnect(c)
  PROVE  AnswersInvariant'
<1> DEFINE k == key[c]
<1> USE DEF ledger
<1>k. k \in Keys
  BY DEF TypeOK
<1>r. /\ \A d \in Clients \ {c} : request'[d] = request[d]
      /\ request'[c].got \in {request[c].got, "none"}
      /\ request'[c].got # request[c].got => request'[c].pc # "readback"
      /\ request'[c].pc = "readback" => request[c].got = "ready"
  <2>1. CASE ReadFirst(c)
    BY <2>1, AnswerEffect, PcEffect DEF ReadFirst
  <2>2. CASE ResolveCreate(c)
    BY <2>2, PcEffect DEF ResolveCreate
  <2>3. CASE ReserveClaim(c)
    <3>1. CASE \E via : request' = [request EXCEPT ![c].pc = "register", ![c].via = via]
      BY <3>1, EnterEffect
    <3>2. CASE Answer(c, ErrorAnswer) \/ Answer(c, RecordAnswer(row[k]))
      BY <3>2, AnswerEffect
    <3> QED BY <2>3, <3>1, <3>2, Zenon DEF ReserveClaim
  <2>4. CASE Register(c)
    <3>1. CASE \E d : request' = [request EXCEPT ![c].pc = "waiting", ![c].join = d]
      BY <3>1, WaitEffect
    <3>2. CASE Answer(c, ErrorAnswer)
      BY <3>2, AnswerEffect
    <3> QED BY <2>4, <3>1, <3>2, Zenon DEF Register
  <2>5. CASE Receive(c)
    <3>1. CASE request' = [request EXCEPT ![c].pc = "readback"] /\ request[c].got = "ready"
      BY <3>1, PcEffect
    <3>2. CASE Answer(c, ErrorAnswer)
      BY <3>2, AnswerEffect
    <3> QED BY <2>5, <3>1, <3>2, Zenon DEF Receive
  <2>6. CASE ReadBack(c)
    BY <2>6, AnswerEffect DEF ReadBack
  <2>7. CASE SendAgain(c) \/ Disconnect(c)
    BY <2>7, ResetEffect DEF NoRequest
  <2> QED BY <2>1, <2>2, <2>3, <2>4, <2>5, <2>6, <2>7 DEF RequestStep
<1>q. ASSUME \/ request'[c].answer = request[c].answer
             \/ request'[c].answer.says \notin {"accepted", "no_active"}
             \/ /\ request'[c].answer = RecordAnswer(row[k]) /\ Mine(c)
                /\ row'[k] = row[k]
      PROVE  AnswersInvariant'
  BY <1>q, <1>r, QuietAnswers
<1>e. ErrorAnswer.says \notin {"accepted", "no_active"} /\ NoAnswer.says \notin {"accepted", "no_active"}
  BY DEF ErrorAnswer, NoAnswer
<1>1. CASE ReadFirst(c)
  BY <1>1, <1>q, <1>e, AnswerEffect, PcEffect DEF ReadFirst, IsDone, Mine
<1>2. CASE ResolveCreate(c)
  BY <1>2, <1>q, PcEffect DEF ResolveCreate
<1>3. CASE ReserveClaim(c)
  <2>1. CASE Answer(c, ErrorAnswer)
    BY <1>q, <1>e, <2>1, AnswerEffect
  <2>2. CASE \E via : request' = [request EXCEPT ![c].pc = "register", ![c].via = via]
    BY <1>q, <2>2, EnterEffect
  <2>3. CASE /\ Answer(c, RecordAnswer(row[k])) /\ claim'[k].state = "committed"
             /\ claim'[k].print = print[c]
    <3>1. claim'[k] = IF claim[k].state = "none" THEN [state |-> "reserved", print |-> print[c]]
                      ELSE claim[k]
      BY <1>3, <1>k DEF ReserveClaim, TypeOK
    <3>2. Committed(k) /\ claim[k].print = print[c]
      BY <2>3, <3>1 DEF Committed
    <3>3. Mine(c)
      BY <1>k, <3>2 DEF ClaimsInvariant, ClaimsMatch, Mine
    <3> QED BY <1>3, <1>q, <2>3, <3>3, AnswerEffect DEF ReserveClaim
  <2> QED BY <1>3, <2>1, <2>2, <2>3 DEF ReserveClaim
<1>4. CASE Register(c)
  <2>1. CASE \E d : request' = [request EXCEPT ![c].pc = "waiting", ![c].join = d]
    BY <1>q, <2>1, WaitEffect
  <2>2. CASE Answer(c, ErrorAnswer)
    BY <1>q, <1>e, <2>2, AnswerEffect
  <2> QED BY <1>4, <2>1, <2>2, Zenon DEF Register
<1>5. CASE Receive(c)
  BY <1>5, <1>q, <1>e, AnswerEffect, PcEffect DEF Receive
<1>6. CASE ReadBack(c)
  <2>1. Mine(c)
    BY <1>6 DEF ReadBack, AnswersInvariant, ResultsMatch
  <2> QED BY <1>6, <1>q, <1>e, <2>1, AnswerEffect DEF ReadBack
<1>7. CASE SendAgain(c) \/ Disconnect(c)
  BY <1>7, <1>q, <1>e, ResetEffect DEF NoRequest
<1> QED BY <1>1, <1>2, <1>3, <1>4, <1>5, <1>6, <1>7 DEF RequestStep

LEMMA StepAnswers ==
  TypeOK /\ OwnersInvariant /\ ClaimsInvariant /\ AnswersInvariant /\ [Next]_vars => AnswersInvariant'
<1> SUFFICES ASSUME TypeOK, OwnersInvariant, ClaimsInvariant, AnswersInvariant, [Next]_vars
             PROVE  AnswersInvariant'
  OBVIOUS
<1>1. CASE UNCHANGED request
  BY <1>1, QuietAnswers
<1>2. ASSUME NEW r, OtherRunStarts(r) \/ RunEnds(r) \/ Rebind(r) PROVE UNCHANGED request
  BY <1>2 DEF OtherRunStarts, RunEnds, Rebind
<1>3. CASE Restart
  <2>1. \A d \in Clients : request'[d] = NoRequest
    BY <1>3 DEF Restart
  <2>2. \A d \in Clients : /\ request'[d].answer.says \notin {"accepted", "no_active"}
                           /\ request'[d].got = "none" /\ request'[d].pc = "idle"
    BY <2>1 DEF NoRequest, NoAnswer
  <2> QED BY <2>2, QuietAnswers
<1>4. CASE UNCHANGED vars
  BY <1>1, <1>4 DEF vars
<1> QED BY <1>1, <1>2, <1>3, <1>4, RequestAnswers, OwnerAnswers DEF Next

\* A result that was published, and every answer given, is that of the message.
THEOREM AnswersHold == Spec => []AnswersInvariant
<1>1. Spec => [](TypeOK /\ OwnersInvariant /\ ClaimsInvariant)
  BY TypeCorrect, OwnersAgree, RoutesEntitled, PTL
<1> QED BY <1>1, InitAnswers, StepAnswers, PTL DEF Spec

\* A request that is answered with a result is answered with the final result
\* of the very message it carries, whichever request's owner obtained it.
THEOREM AnswersAreFinal == Spec => []AnswersFinal
<1>1. AnswersInvariant => AnswersFinal
  BY DEF AnswersInvariant
<1> QED BY <1>1, AnswersHold, PTL

\* The cells, their owners, those that wait for them and the dispatch guard
\* agree in every state, every request and owner is entitled to the route it is
\* on, and one owner per message is past the gate.
THEOREM DispatchAgrees == Spec => []DispatchInvariant
<1>1. TypeOK /\ OwnersInvariant /\ ClaimsInvariant /\ GateInvariant /\ AnswersInvariant
         => DispatchInvariant
  BY DEF GateInvariant, AnswersInvariant, DispatchInvariant
<1> QED BY <1>1, TypeCorrect, OwnersAgree, RoutesEntitled, GateHolds, AnswersHold, PTL

-----------------------------------------------------------------------------
(* The ledger with its owners, joins and restarts is at-most-once handoff. *)

Phase == [k \in Keys |-> row[k].state]
Seen == {k \in Keys : delivered[k] # 0}

LEMMA RefineInit == Init => Ledger!Init
  BY DEF Init, Ledger!Init, NoRow

LEMMA PhaseKept ==
  ASSUME UNCHANGED <<row, delivered>>
  PROVE  UNCHANGED Ledger!vars
  BY DEF Ledger!vars

\* What a step writes to one row.
LEMMA PhaseMoves ==
  ASSUME NEW k \in Keys, \A j \in Keys \ {k} : row'[j] = row[j]
  PROVE  Phase' = [Phase EXCEPT ![k] = row'[k].state]
  BY DEF Phase

LEMMA PhaseSettles ==
  ASSUME TypeOK, NEW k \in Keys, NEW v, row' = [row EXCEPT ![k].state = v]
  PROVE  Phase' = [Phase EXCEPT ![k] = v]
<1>1. row'[k].state = v /\ \A j \in Keys \ {k} : row'[j] = row[j]
  BY SettlesEffect
<1>2. Phase' = [Phase EXCEPT ![k] = row'[k].state]
  BY <1>1, PhaseMoves
<1> QED BY <1>1, <1>2

LEMMA SeenStays ==
  ASSUME UNCHANGED delivered
  PROVE  Seen' = Seen
  BY DEF Seen

LEMMA LedgerSteps ==
  ASSUME NEW j \in Keys,
         Ledger!Admit(j) \/ Ledger!OpenGate(j) \/ Ledger!Deliver(j) \/ Ledger!Settle(j)
  PROVE  [Ledger!Next]_(Ledger!vars)
  BY DEF Ledger!Next

LEMMA RefineOwner ==
  ASSUME TypeOK, GateInvariant, NEW c \in Clients,
         OwnerStep(c) \/ OwnerPlans(c) \/ OwnerFails(c)
  PROVE  [Ledger!Next]_(Ledger!vars)
<1> SUFFICES ASSUME NEW k \in Keys, k = key[c]
             PROVE  [Ledger!Next]_(Ledger!vars)
  BY DEF TypeOK
<1>u. ASSUME UNCHANGED <<row, delivered>> PROVE [Ledger!Next]_(Ledger!vars)
  BY <1>u, PhaseKept
<1>i. ASSUME NEW r \in Rows, r.state \in {"admitted", "not_dispatched"}, Insert(k, r), UNCHANGED delivered
      PROVE  [Ledger!Next]_(Ledger!vars)
  <2>1. /\ row'[k] = IF IsEmpty(row[k]) THEN r ELSE row[k]
        /\ \A j \in Keys \ {k} : row'[j] = row[j]
    BY <1>i, InsertAdvances
  <2>2. Phase' = [Phase EXCEPT ![k] = row'[k].state] /\ Seen' = Seen
    BY <1>i, <2>1, PhaseMoves, SeenStays
  <2>3. CASE IsEmpty(row[k])
    <3>1. Ledger!Admit(k)
      BY <1>i, <2>1, <2>2, <2>3 DEF Ledger!Admit, Ledger!Move, Phase, Seen, IsEmpty
    <3> QED BY <3>1, LedgerSteps
  <2>4. CASE ~IsEmpty(row[k])
    <3>1. Phase' = Phase
      BY <2>1, <2>4 DEF Phase
    <3> QED BY <2>2, <3>1 DEF Ledger!vars, Phase, Seen
  <2> QED BY <2>3, <2>4
<1>d. ASSUME Deliver(k), UNCHANGED row, task[c].step \in {"execute", "publish"}
      PROVE  [Ledger!Next]_(Ledger!vars)
  <2>1. row[k].state = "handoff_started" /\ delivered[k] = 0
    BY <1>d DEF GateInvariant, GateHeld, DeliveryKnown, PastGate
  <2>2. delivered' = [delivered EXCEPT ![k] = 1]
    BY <1>d, <2>1 DEF Deliver, TypeOK
  <2>3. Seen' = Seen \cup {k} /\ Phase' = Phase
    <3>1. delivered'[k] = 1 /\ \A j \in Keys \ {k} : delivered'[j] = delivered[j]
      BY <2>2 DEF TypeOK
    <3> QED BY <1>d, <3>1 DEF Seen, Phase
  <2>4. Ledger!Deliver(k)
    BY <2>1, <2>3 DEF Ledger!Deliver, Seen, Phase
  <2> QED BY <2>4, LedgerSteps
<1>1. CASE CreateCommits(c)
  BY <1>1, <1>u, <1>i, StartedType DEF CreateCommits, Started
<1>2. CASE OwnerAdmits(c)
  BY <1>2, <1>u, <1>i, PlannedType DEF OwnerAdmits
<1>3. CASE OwnerDeclines(c)
  BY <1>3, <1>u, <1>i, StartedType DEF OwnerDeclines, Declined
<1>4. CASE OwnerCrosses(c)
  <2>1. CASE UNCHANGED row
    BY <1>4, <1>u, <2>1 DEF OwnerCrosses
  <2>2. CASE CanCross(k) /\ row' = [row EXCEPT ![k].state = "handoff_started", ![k].attempt = @ + 1]
    <3>1. Phase' = [Phase EXCEPT ![k] = "handoff_started"] /\ Seen' = Seen
      BY <1>4, <2>2, CrossesEffect, PhaseMoves, SeenStays DEF OwnerCrosses
    <3>2. Ledger!OpenGate(k)
      BY <2>2, <3>1 DEF Ledger!OpenGate, Ledger!Move, Phase, Seen, CanCross
    <3> QED BY <3>2, LedgerSteps
  <2> QED BY <1>4, <2>1, <2>2 DEF OwnerCrosses
<1>5. CASE OwnerQueues(c) \/ OwnerPublishesRun(c)
  BY <1>5, <1>u, <1>d DEF OwnerQueues, OwnerPublishesRun, ledger
<1>6. CASE OwnerSettles(c)
  <2>1. CASE UNCHANGED row
    BY <1>6, <1>u, <2>1 DEF OwnerSettles
  <2>2. CASE row[k].state = "handoff_started" /\ row' = [row EXCEPT ![k].state = task[c].verdict]
    <3>1. Phase' = [Phase EXCEPT ![k] = task[c].verdict] /\ Seen' = Seen
      <4>1. Phase' = [Phase EXCEPT ![k] = task[c].verdict]
        BY <2>2, PhaseSettles
      <4>2. Seen' = Seen
        BY <1>6, SeenStays DEF OwnerSettles
      <4> QED BY <4>1, <4>2
    <3>2. /\ task[c].verdict \in {"accepted", "ambiguous"}
          /\ task[c].verdict = "accepted" => k \in Seen
      BY <1>6 DEF OwnerSettles, TypeOK, Tasks, GateInvariant, DeliveryKnown, Seen
    <3>3. Ledger!Settle(k)
      BY <2>2, <3>1, <3>2 DEF Ledger!Settle, Ledger!Move, Phase, Seen
    <3> QED BY <3>3, LedgerSteps
  <2> QED BY <1>6, <2>1, <2>2 DEF OwnerSettles
<1>7. CASE CreatePrepares(c) \/ CreateResumes(c) \/ CreateConfirms(c) \/ OwnerReads(c) \/ OwnerStarts(c)
           \/ OwnerPlans(c) \/ OwnerFails(c)
  BY <1>7, <1>u DEF CreatePrepares, CreateResumes, CreateConfirms, OwnerReads, OwnerStarts,
                    OwnerPlans, OwnerFails, ledger
<1> QED BY <1>1, <1>2, <1>3, <1>4, <1>5, <1>6, <1>7 DEF OwnerStep

\* Every step of the detailed ledger is a step of the abstract one, or none.
LEMMA RefineStep == TypeOK /\ GateInvariant /\ [Next]_vars => [Ledger!Next]_(Ledger!vars)
<1> SUFFICES ASSUME TypeOK, GateInvariant, [Next]_vars PROVE [Ledger!Next]_(Ledger!vars)
  OBVIOUS
<1> USE DEF ledger
<1>u. ASSUME UNCHANGED <<row, delivered>> PROVE [Ledger!Next]_(Ledger!vars)
  BY <1>u, PhaseKept
<1>1. ASSUME NEW c \in Clients, RequestStep(c) \/ SendAgain(c) \/ Disconnect(c)
      PROVE  [Ledger!Next]_(Ledger!vars)
  BY <1>1, <1>u DEF RequestStep, ReadFirst, ResolveCreate, ReserveClaim, Register, Receive, ReadBack,
                    SendAgain, Disconnect
<1>2. ASSUME NEW r, OtherRunStarts(r) \/ RunEnds(r) \/ Rebind(r) PROVE [Ledger!Next]_(Ledger!vars)
  BY <1>2, <1>u DEF OtherRunStarts, RunEnds, Rebind
<1>3. CASE Restart
  <2>1. \A k \in Keys : row'[k].state = IF row[k].state = "handoff_started" THEN "ambiguous"
                                        ELSE row[k].state
    <3> TAKE k \in Keys
    <3>1. row'[k] = Recovered(row[k]) /\ row[k] \in Rows
      BY <1>3 DEF Restart, TypeOK
    <3> QED BY <3>1 DEF Recovered, Rows
  <2>2. Ledger!Restart
    BY <1>3, <2>1 DEF Restart, Ledger!Restart
  <2> QED BY <2>2 DEF Ledger!Next
<1>4. CASE UNCHANGED vars
  BY <1>4, <1>u DEF vars
<1> QED BY <1>1, <1>2, <1>3, <1>4, RefineOwner DEF Next

\* The ledger with its owners and restarts implements at-most-once handoff.
THEOREM LedgerRefinesHandoff == Spec => ImplementsAtMostOnce
<1>1. Spec => [](TypeOK /\ GateInvariant)
  BY TypeCorrect, GateHolds, PTL
<1> QED BY <1>1, RefineInit, RefineStep, PTL DEF Spec, ImplementsAtMostOnce, Ledger!Spec

-----------------------------------------------------------------------------
(* The messages that name no thread: as long as no thread loses the        *)
(* endpoint, it is where every such message is carried, committed or was   *)
(* delivered, so that two keys of one message cannot both be delivered.    *)

\* An owner that found the thread of its message.
Carries(c, k) ==
    /\ key[c] = k /\ task[c].via = "dispatch"
    /\ task[c].step \in {"plan", "insert", "handoff"} \cup PastGate

Bound(k) == endpoint = Thread[k] /\ kind[k] \in ChatKinds

Reached(k) == Committed(k) \/ delivered[k] > 0 \/ \E c \in Clients : Carries(c, k)

EndpointHolds == moves = 0 => \A k \in Keys : IsRouted(k) /\ Reached(k) => Bound(k)

SendersFit == KindsFit(kind) /\ \A c \in Clients : MeansFit(c)

LEMMA InitEndpoint == Init => EndpointHolds /\ SendersFit
  BY DEF Init, EndpointHolds, SendersFit, Reached, Committed, Carries, NoClaim, NoTask, PastGate

LEMMA StepSenders == TypeOK /\ SendersFit /\ [Next]_vars => SendersFit'
  BY LedgerAdvances DEF SendersFit, KindsFit, MeansFit, message

\* The endpoint leaves a thread only by a move.
LEMMA EndpointStep ==
  ASSUME TypeOK, [Next]_vars, moves' = 0
  PROVE  moves = 0 /\ (endpoint # NoThread => endpoint' = endpoint)
<1>1. ASSUME NEW t, TakesEndpoint(t) PROVE moves = 0 /\ (endpoint # NoThread => endpoint' = endpoint)
  BY <1>1 DEF TakesEndpoint, TypeOK
<1>2. ASSUME UNCHANGED binding PROVE moves = 0 /\ (endpoint # NoThread => endpoint' = endpoint)
  BY <1>2 DEF binding
<1>3. ASSUME NEW c \in Clients, RequestStep(c) \/ SendAgain(c) \/ Disconnect(c) PROVE UNCHANGED binding
  BY <1>3 DEF RequestStep, ReadFirst, ResolveCreate, ReserveClaim, Register, Receive, ReadBack,
              SendAgain, Disconnect
<1>4. ASSUME NEW c \in Clients, OwnerStep(c) \/ OwnerPlans(c) \/ OwnerFails(c)
      PROVE  TakesEndpoint(Thread[key[c]]) \/ UNCHANGED binding
  BY <1>4 DEF OwnerStep, OwnerPlans, OwnerFails, CreatePrepares, CreateCommits, CreateResumes,
              CreateConfirms, OwnerReads, OwnerAdmits, OwnerDeclines, OwnerCrosses, OwnerQueues,
              OwnerStarts, OwnerPublishesRun, OwnerSettles, Binds, Rebinds
<1>5. ASSUME NEW r, OtherRunStarts(r) \/ RunEnds(r) PROVE UNCHANGED binding
  BY <1>5 DEF OtherRunStarts, RunEnds
<1>6. ASSUME NEW t, Rebind(t) PROVE TakesEndpoint(t)
  BY <1>6 DEF Rebind
<1>7. Restart \/ UNCHANGED vars => UNCHANGED binding
  BY DEF Restart, vars
<1> QED BY <1>1, <1>2, <1>3, <1>4, <1>5, <1>6, <1>7 DEF Next

\* A claim is committed by an owner that gives the endpoint to the new thread.
LEMMA CommitBinds ==
  ASSUME TypeOK, ClaimsInvariant, [Next]_vars, NEW k \in Keys, Committed(k)', ~Committed(k)
  PROVE  \E c \in Clients : key[c] = k /\ kind[k] = "create" /\ Binds(c)
<1>u. claim'[k] # claim[k]
  BY DEF Committed
<1>1. ASSUME NEW c \in Clients, RequestStep(c) \/ SendAgain(c) \/ Disconnect(c) PROVE FALSE
  <2>1. CASE ReserveClaim(c)
    <3>1. key[c] \in Keys
      BY DEF TypeOK
    <3> QED BY <1>u, <2>1, <3>1 DEF ReserveClaim, Committed, TypeOK
  <2> QED BY <1>1, <1>u, <2>1 DEF RequestStep, ReadFirst, ResolveCreate, Register, Receive, ReadBack,
          SendAgain, Disconnect, ledger
<1>2. ASSUME NEW c \in Clients, OwnerStep(c) \/ OwnerPlans(c) \/ OwnerFails(c)
      PROVE  key[c] = k /\ kind[k] = "create" /\ Binds(c)
  <2>m. key[c] \in Keys
    BY DEF TypeOK
  <2>1. CASE CreatePrepares(c)
    BY <1>u, <2>m, <2>1, SetClaimEffect DEF CreatePrepares, Committed
  <2>2. CASE CreateCommits(c)
    <3>1. task[c].step = "commit" /\ RouteKept(c) /\ (task[c].step # "none" => Entitled(c, task[c].via))
      BY <2>2 DEF CreateCommits, ClaimsInvariant, OwnerEntitled
    <3>2. kind[key[c]] = "create"
      BY <3>1 DEF RouteKept, Entitled
    <3>3. SetClaim(key[c], "committed") => Binds(c)
      <4>1. ASSUME SetClaim(key[c], "committed"), SetClaim(key[c], "reserved") \/ SetClaim(key[c], "failed")
            PROVE  FALSE
        BY <2>m, <4>1, SetClaimEffect
      <4>2. ASSUME SetClaim(key[c], "committed"), UNCHANGED claim, claim[key[c]].state = "preparing"
            PROVE  FALSE
        BY <2>m, <4>2, SetClaimEffect
      <4> QED BY <2>2, <4>1, <4>2 DEF CreateCommits
    <3>4. claim'[k].state = "committed" /\ k # key[c] => FALSE
      BY <1>u, <2>2, <2>m, SetClaimEffect DEF CreateCommits
    <3>5. SetClaim(key[c], "committed")
      BY <1>u, <2>2, <2>m, SetClaimEffect DEF CreateCommits, Committed
    <3> QED BY <3>2, <3>3, <3>4, <3>5 DEF Committed
  <2>3. CASE UNCHANGED claim
    BY <1>u, <2>3
  <2> QED BY <1>2, <2>1, <2>2, <2>3
          DEF OwnerStep, OwnerPlans, OwnerFails, CreateResumes, CreateConfirms, OwnerReads, OwnerAdmits,
              OwnerDeclines, OwnerCrosses, OwnerQueues, OwnerStarts, OwnerPublishesRun, OwnerSettles, ledger
<1>3. ASSUME NEW r, OtherRunStarts(r) \/ RunEnds(r) \/ Rebind(r) PROVE FALSE
  BY <1>3, <1>u DEF OtherRunStarts, RunEnds, Rebind, ledger
<1>4. CASE Restart
  <2>1. claim'[k] = Reclaimed(claim[k]) /\ claim[k] \in Claims
    BY <1>4 DEF Restart, TypeOK
  <2> QED BY <2>1 DEF Reclaimed, Claims, Committed
<1>5. CASE UNCHANGED vars
  BY <1>5, <1>u DEF vars, ledger
<1> QED BY <1>1, <1>2, <1>3, <1>4, <1>5 DEF Next

\* Only an owner that carries its message, or whose claim is committed, delivers.
LEMMA DeliveryReached ==
  ASSUME TypeOK, ClaimsInvariant, [Next]_vars, NEW k \in Keys, delivered'[k] # delivered[k]
  PROVE  Committed(k) \/ \E c \in Clients : Carries(c, k)
<1>1. ASSUME NEW c \in Clients, OwnerStep(c) \/ OwnerPlans(c) \/ OwnerFails(c)
      PROVE  Committed(k) \/ Carries(c, k)
  <2>1. key[c] = k /\ task[c].step \in {"execute", "publish"}
    BY <1>1 DEF OwnerStep, OwnerPlans, OwnerFails, CreatePrepares, CreateCommits, CreateResumes,
                CreateConfirms, OwnerReads, OwnerAdmits, OwnerDeclines, OwnerCrosses, OwnerQueues,
                OwnerStarts, OwnerPublishesRun, OwnerSettles, Deliver, TypeOK
  <2> QED BY <2>1 DEF ClaimsInvariant, OwnerEntitled, RouteKept, Carries, PastGate
<1>2. ASSUME NEW c \in Clients, RequestStep(c) \/ SendAgain(c) \/ Disconnect(c) PROVE UNCHANGED delivered
  BY <1>2 DEF RequestStep, ReadFirst, ResolveCreate, ReserveClaim, Register, Receive, ReadBack,
              SendAgain, Disconnect
<1>3. ASSUME NEW r, OtherRunStarts(r) \/ RunEnds(r) \/ Rebind(r) PROVE UNCHANGED delivered
  BY <1>3 DEF OtherRunStarts, RunEnds, Rebind
<1>4. Restart \/ UNCHANGED vars => UNCHANGED delivered
  BY DEF Restart, vars
<1> QED BY <1>1, <1>2, <1>3, <1>4 DEF Next

\* An owner carries its message from the read that found the thread.
LEMMA ReadCarries ==
  ASSUME TypeOK, ClaimsInvariant, [Next]_vars, NEW k \in Keys, NEW c \in Clients,
         Carries(c, k)', ~Carries(c, k)
  PROVE  key[c] = k /\ Prepares(c) /\ UNCHANGED endpoint
<1>k. key' = key /\ key[c] = k
  BY LedgerStays DEF Carries
<1>l. task'[c].via = "dispatch" /\ task'[c].step \in {"plan", "insert", "handoff"} \cup PastGate
  BY DEF Carries
<1>1. CASE OwnerStep(c) \/ OwnerPlans(c) \/ OwnerFails(c)
  <2>1. CASE \E result \in {"ready", "failed"} : Finish(c, result)
    BY <1>l, <2>1, FinishEffect DEF NoTask, PastGate
  <2>2. CASE Moves(c) /\ ~(\E result \in {"ready", "failed"} : Finish(c, result))
    <3>1. task[c].via = "dispatch" /\ task[c].step # "none" /\ RouteKept(c)
      BY <1>l, <2>2 DEF Moves, ClaimsInvariant, OwnerEntitled
    <3>2. task[c].step = "read"
      BY <1>k, <3>1 DEF RouteKept, Carries, PastGate, TypeOK, Tasks
    <3>3. OwnerReads(c)
      BY <1>1, <2>2, <3>2 DEF OwnerStep, OwnerPlans, OwnerFails, CreatePrepares, CreateCommits,
             CreateResumes, CreateConfirms, OwnerAdmits, OwnerDeclines, OwnerCrosses, OwnerQueues,
             OwnerStarts, OwnerPublishesRun, OwnerSettles
    <3> QED BY <1>k, <2>2, <3>3 DEF OwnerReads, binding
  <2> QED BY <1>1, <2>1, <2>2, OwnerEffect
<1>2. CASE task'[c] = task[c]
  BY <1>k, <1>l, <1>2 DEF Carries
<1>3. ASSUME NEW d \in Clients, d # c, OwnerStep(d) \/ OwnerPlans(d) \/ OwnerFails(d)
      PROVE  task'[c] = task[c]
  BY <1>3, OwnerEffect, FinishEffect DEF Moves
<1>4. ASSUME NEW d \in Clients, RequestStep(d) \/ SendAgain(d) \/ Disconnect(d)
      PROVE  task'[c] = task[c]
  <2>1. CASE Register(d)
    <3>1. CASE UNCHANGED task
      BY <3>1
    <3>2. CASE task' = [task EXCEPT ![d].step = FirstStep(request[d].via), ![d].via = request[d].via]
      <4>1. task'[d].step \in {"read", "prepare", "resume"} /\ \A e \in Clients \ {d} : task'[e] = task[e]
        BY <3>2, SpawnEffect
      <4> QED BY <1>l, <4>1 DEF PastGate
    <3> QED BY <2>1, <3>1, <3>2 DEF Register
  <2> QED BY <1>4, <2>1 DEF RequestStep, ReadFirst, ResolveCreate, ReserveClaim, Receive, ReadBack,
          SendAgain, Disconnect
<1>5. ASSUME NEW r, OtherRunStarts(r) \/ RunEnds(r) \/ Rebind(r) PROVE task'[c] = task[c]
  BY <1>5 DEF OtherRunStarts, RunEnds, Rebind
<1>6. CASE Restart
  <2>1. task'[c] = NoTask
    BY <1>6 DEF Restart
  <2> QED BY <1>l, <2>1 DEF NoTask, PastGate
<1>7. UNCHANGED vars => task'[c] = task[c]
  BY DEF vars
<1> QED BY <1>1, <1>2, <1>3, <1>4, <1>5, <1>6, <1>7 DEF Next

LEMMA StepEndpoint ==
  TypeOK /\ ClaimsInvariant /\ SendersFit /\ EndpointHolds /\ [Next]_vars => EndpointHolds'
<1> SUFFICES ASSUME TypeOK, ClaimsInvariant, SendersFit, EndpointHolds, [Next]_vars,
                    moves' = 0, NEW k \in Keys, IsRouted(k)', Reached(k)'
             PROVE  Bound(k)'
  BY DEF EndpointHolds
<1>1. UNCHANGED <<key, kind, means>> /\ IsRouted(k)
  BY LedgerAdvances DEF message, IsRouted, Routed
<1>2. moves = 0 /\ (endpoint # NoThread => endpoint' = endpoint)
  BY EndpointStep
<1>3. Thread[k] \in Threads /\ Thread[k] # NoThread
  OBVIOUS
<1>4. CASE Reached(k)
  <2>1. Bound(k)
    BY <1>1, <1>2, <1>4 DEF EndpointHolds
  <2> QED BY <1>1, <1>2, <1>3, <2>1 DEF Bound
<1>5. CASE ~Reached(k) /\ Committed(k)'
  <2>1. PICK c \in Clients : key[c] = k /\ kind[k] = "create" /\ Binds(c)
    BY <1>5, CommitBinds DEF Reached
  <2>2. Routed(c)
    BY <1>1, <2>1 DEF IsRouted
  <2> QED BY <1>1, <2>1, <2>2 DEF Binds, TakesEndpoint, Bound, ChatKinds
<1>6. CASE ~Reached(k) /\ delivered'[k] > 0
  <2>1. delivered'[k] = delivered[k]
    BY <1>6, DeliveryReached DEF Reached
  <2> QED BY <1>6, <2>1 DEF Reached
<1>7. CASE ~Reached(k) /\ \E c \in Clients : Carries(c, k)'
  <2>1. PICK c \in Clients : key[c] = k /\ Prepares(c) /\ UNCHANGED endpoint
    BY <1>7, ReadCarries DEF Reached
  <2>2. Routed(c) /\ MeansFit(c)
    BY <1>1, <2>1 DEF IsRouted, SendersFit
  <2>3. kind[k] \in ChatKinds
    BY <2>1, <2>2 DEF Routed, MeansFit
  <2>4. endpoint = Thread[k]
    BY <2>1, <2>2, <2>3 DEF Prepares, Routed, ChatKinds
  <2> QED BY <1>1, <2>1, <2>3, <2>4 DEF Bound
<1> QED BY <1>4, <1>5, <1>6, <1>7 DEF Reached

\* A message that is sent again to a bot or an account, and finds another thread or
\* creates one, is given to a provider at most once over all its keys, unless a
\* thread lost the endpoint in between.
THEOREM SentAgainOnce == Spec => []MessageOnce
<1>1. TypeOK /\ SendersFit /\ EndpointHolds => MessageOnce
  <2> SUFFICES ASSUME TypeOK, SendersFit, EndpointHolds, moves = 0,
                      NEW j \in Keys, NEW k \in Keys, j # k, Intent[j] = Intent[k],
                      IsRouted(j), IsRouted(k), delivered[j] > 0, delivered[k] > 0
               PROVE  FALSE
    BY DEF MessageOnce, TypeOK
  <2>1. Bound(j) /\ Bound(k)
    BY DEF EndpointHolds, Reached
  <2>2. Thread[j] = Thread[k] /\ kind[j] \in ChatKinds /\ kind[k] \in ChatKinds
    BY <2>1 DEF Bound
  <2> QED BY <2>2 DEF SendersFit, KindsFit
<1>2. Spec => [](TypeOK /\ ClaimsInvariant)
  BY TypeCorrect, RoutesEntitled, PTL
<1> QED BY <1>1, <1>2, InitEndpoint, StepSenders, StepEndpoint, PTL DEF Spec
=============================================================================
