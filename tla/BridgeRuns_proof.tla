-------------------------- MODULE BridgeRuns_proof --------------------------
(***************************************************************************)
(* Proofs about BridgeRuns: the tables of the bridge, its tasks, its       *)
(* workers and its drain agree, and acknowledged input is not pending, for *)
(* any number of dispatches.                                               *)
(***************************************************************************)
EXTENDS BridgeRuns, SequenceTheorems, TLAPS

-----------------------------------------------------------------------------
(* Workers, their queues, and aborts.                                      *)

\* The commands that are sent are commands.
LEMMA CommandsAre ==
    /\ \A d \in Dispatches :
          /\ [do |-> "queue", input |-> d] \in Commands
          /\ [do |-> "drop", input |-> d] \in Commands
          /\ [do |-> "ack", input |-> d] \in Commands
    /\ [do |-> "abort"] \in Commands
    /\ [do |-> "finish"] \in Commands
BY DEF Commands

\* The commands about an input name one.
LEMMA CommandInput ==
    ASSUME NEW c \in Commands, c.do \in {"queue", "drop", "ack"}
    PROVE  c.input \in Dispatches /\ c = [do |-> c.do, input |-> c.input]
BY DEF Commands

\* A worker that has got a command more, or is about to be closed.
LEMMA WorkerExcept ==
    ASSUME NEW w \in Workers, NEW c \in Commands
    PROVE  /\ [w EXCEPT !.queue = Append(@, c)] \in Workers
           /\ [w EXCEPT !.queue = Append(@, c)].pc = w.pc
           /\ [w EXCEPT !.queue = Append(@, c)].pending = w.pending
           /\ [w EXCEPT !.queue = Append(@, c)].queue = Append(w.queue, c)
           /\ [w EXCEPT !.pc = "open"] \in Workers
           /\ [w EXCEPT !.pc = "open"].pc = "open"
           /\ [w EXCEPT !.pc = "open"].queue = w.queue
           /\ [w EXCEPT !.pc = "open"].pending = w.pending
<1>1. Append(w.queue, c) \in Seq(Commands)
  BY DEF Workers
<1> QED BY <1>1 DEF Workers

\* A worker without commands is one.
LEMMA NoWorkerIs ==
    /\ NoWorker \in Workers
    /\ NoWorker.pc = "none" /\ NoWorker.queue = <<>> /\ NoWorker.pending = {}
    /\ [NoWorker EXCEPT !.pc = "done"] \in Workers
    /\ [NoWorker EXCEPT !.pc = "done"].pc = "done"
    /\ [NoWorker EXCEPT !.pc = "done"].queue = <<>>
    /\ [NoWorker EXCEPT !.pc = "done"].pending = {}
<1>1. <<>> \in Seq(Commands)
  OBVIOUS
<1> QED BY <1>1 DEF NoWorker, Workers

\* A queue that has got the command c more, at its end n.
Told(q, more, c) ==
    /\ more \in Seq(Commands)
    /\ \E n : /\ n \notin DOMAIN q /\ DOMAIN more = DOMAIN q \cup {n} /\ more[n] = c
             /\ \A k \in DOMAIN q : more[k] = q[k]

\* A command is put at the end of the queue.
LEMMA Appended ==
    ASSUME NEW q \in Seq(Commands), NEW c \in Commands
    PROVE  Told(q, Append(q, c), c)
<1>1. /\ Append(q, c) \in Seq(Commands)
      /\ DOMAIN Append(q, c) = DOMAIN q \cup {Len(q) + 1}
      /\ Len(q) + 1 \notin DOMAIN q
      /\ \A k \in DOMAIN q : Append(q, c)[k] = q[k]
      /\ Append(q, c)[Len(q) + 1] = c
  OBVIOUS
<1> QED BY <1>1, Zenon DEF Told

\* What a command that is sent changes: the queue of a worker that listens.
LEMMA SendEffect ==
    ASSUME TypeOK, NEW r \in Runs \cup {NoRun}, NEW c \in Commands
    PROVE  /\ Send(r, c) \in [Runs -> Workers]
           /\ \A x \in Runs : /\ Send(r, c)[x].pc = worker[x].pc
                              /\ Send(r, c)[x].pending = worker[x].pending
                              /\ \/ Send(r, c)[x] = worker[x]
                                 \/ /\ x = r /\ worker[x].pc \in {"open", "finish"}
                                    /\ Told(worker[x].queue, Send(r, c)[x].queue, c)
<1>1. CASE r = NoRun \/ worker[r].pc \notin {"open", "finish"}
  BY <1>1 DEF Send, TypeOK
<1>2. CASE r # NoRun /\ worker[r].pc \in {"open", "finish"}
  <2>1. r \in Runs /\ worker[r] \in Workers
    BY <1>2 DEF TypeOK
  <2> DEFINE told == [worker[r] EXCEPT !.queue = Append(@, c)]
  <2>2. Send(r, c) = [worker EXCEPT ![r] = told]
    BY <1>2, <2>1 DEF Send, TypeOK
  <2>3. /\ told \in Workers /\ told.pc = worker[r].pc /\ told.pending = worker[r].pending
        /\ Told(worker[r].queue, told.queue, c)
    <3>1. /\ told \in Workers /\ told.pc = worker[r].pc /\ told.pending = worker[r].pending
          /\ told.queue = Append(worker[r].queue, c)
      BY <2>1, WorkerExcept
    <3>2. worker[r].queue \in Seq(Commands)
      BY <2>1 DEF Workers
    <3> QED BY <3>1, <3>2, Appended
  <2> HIDE DEF told
  <2> QED BY <1>2, <2>1, <2>2, <2>3 DEF TypeOK
<1> QED BY <1>1, <1>2

\* A queue without its first command.
LEMMA Shortened ==
    ASSUME NEW q \in Seq(Commands), q # <<>>
    PROVE  /\ Head(q) \in Commands /\ 1 \in DOMAIN q /\ q[1] = Head(q)
           /\ Tail(q) \in Seq(Commands)
           /\ \A k \in DOMAIN Tail(q) :
                 k + 1 \in DOMAIN q /\ k + 1 # 1 /\ k \in Nat /\ Tail(q)[k] = q[k + 1]
OBVIOUS

\* An abort's record with its steps.
LEMMA AbortExcept ==
    ASSUME NEW a \in Aborts, NEW s \in {"off", "pick", "detach", "kill", "await", "unindex", "ack"},
           NEW b \in BOOLEAN
    PROVE  /\ [a EXCEPT !.pc = s] \in Aborts
           /\ [a EXCEPT !.pc = s].pc = s /\ [a EXCEPT !.pc = s].run = a.run
           /\ [a EXCEPT !.pc = s, !.acks = b] \in Aborts
           /\ [a EXCEPT !.pc = s, !.acks = b].pc = s
           /\ [a EXCEPT !.pc = s, !.acks = b].run = a.run
           /\ [a EXCEPT !.pc = s, !.any = TRUE] \in Aborts
           /\ [a EXCEPT !.pc = s, !.any = TRUE].pc = s
           /\ [a EXCEPT !.pc = s, !.any = TRUE].run = a.run
BY DEF Aborts

\* An abort that begins, and one that is over.
LEMMA NoAbortExcept ==
    ASSUME NEW runs \in SUBSET Runs, NEW b \in BOOLEAN
    PROVE  /\ NoAbort \in Aborts /\ NoAbort.pc = "off"
           /\ [NoAbort EXCEPT !.pc = "pick", !.left = runs] \in Aborts
           /\ [NoAbort EXCEPT !.pc = "pick", !.left = runs].pc = "pick"
           /\ [NoAbort EXCEPT !.any = b] \in Aborts
           /\ [NoAbort EXCEPT !.any = b].pc = "off"
BY DEF NoAbort, Aborts

\* An abort that has picked a run.
LEMMA PickedEffect ==
    ASSUME TypeOK, NEW q \in Aborters, NEW r \in abort[q].left
    PROVE  /\ r \in Runs
           /\ Picked(q, r) \in Aborts
           /\ Picked(q, r).run = r
           /\ Picked(q, r).pc \in {"pick", "detach", "kill"}
           /\ Picked(q, r).pc = "detach" => r \in index /\ r \in tasks
           /\ Picked(q, r).pc = "kill" => r \notin index
<1>1. abort[q] \in Aborts
  BY DEF TypeOK
<1> QED BY <1>1 DEF Aborts, Picked

-----------------------------------------------------------------------------
(* Types.                                                                  *)

Places == {"new", "plan", "offer", "asked", "replace", "abort", "wait", "permit", "publish",
           "started", "queued", "refused"}

\* A dispatch goes on.
LEMMA GotoEffect ==
    ASSUME TypeOK, NEW d \in Dispatches, NEW s \in Places, Goto(d, s)
    PROVE  /\ pc' \in [Dispatches -> Places]
           /\ pc'[d] = s
           /\ \A x \in Dispatches : x # d => pc'[x] = pc[x]
BY DEF TypeOK, Goto, Places

\* A dispatch lets go of the thread.
LEMMA LeaveEffect ==
    ASSUME TypeOK, NEW d \in Dispatches, NEW s \in Places, Leave(d, s)
    PROVE  /\ pc' \in [Dispatches -> Places]
           /\ pc'[d] = s
           /\ \A x \in Dispatches : x # d => pc'[x] = pc[x]
           /\ guard' \in Dispatches \cup {NoRun}
           /\ lease' \in [Dispatches -> {"none", "held", "active"}]
           /\ lease'[d] = "none"
           /\ \A x \in Dispatches : x # d => lease'[x] = lease[x]
BY GotoEffect DEF TypeOK, Leave

\* The planned run is one, or none.
LEMMA PlannedIsRun == ASSUME TypeOK, NEW r \in Planned PROVE r \in Runs \cup {NoRun}
BY DEF TypeOK, Planned, Runs

\* The steps of a dispatch keep the types.
LEMMA DispatchType ==
    ASSUME TypeOK, NEW d \in Dispatches, Dispatch(d)
    PROVE  TypeOK'
<1> USE DEF dispatches, tables, runtime, storage, aborts, limits
<1>a. {"new", "plan", "offer", "asked", "replace", "abort", "wait", "permit", "publish",
       "started", "queued", "refused"} = Places
  BY DEF Places
<1>1. CASE Lock(d)
  <2>1. pc' \in [Dispatches -> Places]
    BY <1>1, GotoEffect DEF Lock, Places
  <2> QED BY <1>1, <1>a, <2>1 DEF TypeOK, Lock
<1>2. CASE Plan(d)
  <2>1. PICK r \in Planned :
           /\ aim' = [aim EXCEPT ![d] = r]
           /\ IF r = NoRun THEN Goto(d, "permit") ELSE Goto(d, "offer") \/ Goto(d, "replace")
    BY <1>2 DEF Plan
  <2>2. pc' \in [Dispatches -> Places]
    BY <2>1, GotoEffect DEF Places
  <2>3. aim' \in [Dispatches -> Runs \cup {NoRun}]
    BY <2>1, PlannedIsRun DEF TypeOK
  <2> QED BY <1>2, <1>a, <2>2, <2>3 DEF TypeOK, Plan
<1>3. CASE Offer(d)
  <2>1. CASE Valid
    <3>1. pc' \in [Dispatches -> Places]
      BY <1>3, <2>1, GotoEffect DEF Offer, Places
    <3>2. worker' \in [Runs -> Workers]
      <4>1. handle \in Runs \cup {NoRun} /\ [do |-> "queue", input |-> d] \in Commands
        BY CommandsAre DEF TypeOK
      <4>2. worker' = Send(handle, [do |-> "queue", input |-> d])
        BY <1>3, <2>1 DEF Offer
      <4> QED BY <4>1, <4>2, SendEffect
    <3>3. tag' \in [Dispatches -> Runs \cup {NoRun}]
      BY <1>3, <2>1, PlannedIsRun DEF Offer, TypeOK
    <3> QED BY <1>3, <1>a, <2>1, <3>1, <3>2, <3>3 DEF TypeOK, Offer
  <2>2. CASE ~Valid
    BY <1>3, <1>a, <2>2, LeaveEffect DEF TypeOK, Offer
  <2> QED BY <2>1, <2>2
<1>4. CASE Answered(d)
  <2>1. ASSUME NEW r \in Runs, task[r] = "provider",
               inbox' = [inbox EXCEPT ![r] = @ \cup {d}],
               Leave(d, IF Valid /\ (mode[d] = "durable" => tag[d] = aim[d]) THEN "queued" ELSE "refused"),
               UNCHANGED worker
        PROVE  TypeOK'
    <3>1. inbox' \in [Runs -> SUBSET Dispatches]
      BY <2>1 DEF TypeOK
    <3>2. /\ pc' \in [Dispatches -> Places] /\ guard' \in Dispatches \cup {NoRun}
          /\ lease' \in [Dispatches -> {"none", "held", "active"}]
      BY <2>1, <1>a, LeaveEffect
    <3> QED BY <1>4, <1>a, <2>1, <3>1, <3>2 DEF TypeOK, Answered
  <2>2. CASE Leave(d, "refused") /\ UNCHANGED <<inbox, worker>>
    BY <1>4, <1>a, <2>2, LeaveEffect DEF TypeOK, Answered
  <2>3. CASE /\ worker' = Send(tag[d], [do |-> "drop", input |-> d])
             /\ Goto(d, "replace") /\ UNCHANGED <<guard, lease, inbox>>
    <3>1. pc' \in [Dispatches -> Places]
      BY <2>3, <1>a, GotoEffect
    <3>2. tag[d] \in Runs \cup {NoRun}
      BY DEF TypeOK
    <3>3. worker' \in [Runs -> Workers]
      BY <2>3, <3>2, SendEffect, CommandsAre
    <3> QED BY <1>4, <1>a, <2>3, <3>1, <3>3 DEF TypeOK, Answered
  <2> QED BY <1>4, <2>1, <2>2, <2>3 DEF Answered
<1>5. CASE Replace(d)
  <2>1. PICK r \in Planned :
          \/ /\ r = NoRun
             /\ Goto(d, "permit") /\ UNCHANGED <<aim, guard, lease, abort>>
          \/ /\ r # NoRun /\ mode[d] = "durable" /\ r # aim[d]
             /\ Leave(d, "refused") /\ UNCHANGED <<aim, abort>>
          \/ /\ r # NoRun /\ (mode[d] = "durable" => r = aim[d])
             /\ aim' = [aim EXCEPT ![d] = r]
             /\ \/ Goto(d, "wait") /\ UNCHANGED <<guard, lease, abort>>
                \/ /\ Goto(d, "abort")
                   /\ abort' = [abort EXCEPT ![d] = [NoAbort EXCEPT !.pc = "pick", !.left = index]]
                   /\ UNCHANGED <<guard, lease>>
    BY <1>5 DEF Replace
  <2>2. /\ pc' \in [Dispatches -> Places] /\ guard' \in Dispatches \cup {NoRun}
        /\ lease' \in [Dispatches -> {"none", "held", "active"}]
    <3>1. guard \in Dispatches \cup {NoRun} /\ lease \in [Dispatches -> {"none", "held", "active"}]
      BY DEF TypeOK
    <3> QED BY <2>1, <3>1, <1>a, GotoEffect, LeaveEffect
  <2>3. aim' \in [Dispatches -> Runs \cup {NoRun}]
    BY <2>1, PlannedIsRun DEF TypeOK
  <2>4. abort' \in [Aborters -> Aborts]
    <3>1. [NoAbort EXCEPT !.pc = "pick", !.left = index] \in Aborts
      BY NoAbortExcept DEF TypeOK
    <3> QED BY <2>1, <3>1 DEF TypeOK
  <2> QED BY <1>5, <1>a, <2>2, <2>3, <2>4 DEF TypeOK, Replace
<1>6. CASE Replaced(d)
  BY <1>6, <1>a, GotoEffect, LeaveEffect DEF TypeOK, Replaced
<1>7. CASE Wait(d)
  BY <1>7, <1>a, GotoEffect, LeaveEffect DEF TypeOK, Wait
<1>8. CASE Permit(d)
  BY <1>8, <1>a, GotoEffect, LeaveEffect DEF TypeOK, Permit
<1>9. CASE Publish(d)
  <2>1. CASE Valid
    <3>1. pc' \in [Dispatches -> Places]
      BY <1>9, <2>1, <1>a, GotoEffect DEF Publish
    <3>2. worker' = [worker EXCEPT ![d] = [worker[d] EXCEPT !.pc = "open"]] /\ worker[d] \in Workers
      BY <1>9, <2>1 DEF Publish, TypeOK, Runs
    <3>3. [worker[d] EXCEPT !.pc = "open"] \in Workers
      BY <3>2, WorkerExcept, CommandsAre
    <3>4. worker' \in [Runs -> Workers]
      BY <3>2, <3>3 DEF TypeOK
    <3> QED BY <1>9, <1>a, <2>1, <3>1, <3>4 DEF TypeOK, Publish, Runs, Executing
  <2>2. CASE ~Valid
    BY <1>9, <1>a, <2>2, LeaveEffect DEF TypeOK, Publish
  <2> QED BY <2>1, <2>2
<1> QED BY <1>1, <1>2, <1>3, <1>4, <1>5, <1>6, <1>7, <1>8, <1>9 DEF Dispatch

\* A task goes on.
LEMMA AtEffect ==
    ASSUME TypeOK, NEW r \in Runs, NEW s \in Executing \cup {"none", "done", "dead"}, At(r, s)
    PROVE  /\ task' \in [Runs -> Executing \cup {"none", "done", "dead"}]
           /\ task'[r] = s
           /\ \A x \in Runs : x # r => task'[x] = task[x]
BY DEF TypeOK, At

\* A run gives up the handle.
LEMMA DetachEffect ==
    ASSUME TypeOK, NEW r \in Runs, Detach(r)
    PROVE  /\ handle' \in Runs \cup {NoRun} /\ handle' # r
           /\ handle' = handle \/ (handle = r /\ handle' = NoRun)
BY RunAssumption DEF TypeOK, Detach, Runs

\* What a save leaves is a record.
LEMMA SavedType ==
    ASSUME TypeOK, NEW r, NEW own, NEW status \in {"none", "queued", "abandoned"}
    PROVE  Saved(r, own, status) \in [Dispatches -> {"none", "queued", "abandoned"}]
BY DEF TypeOK, Saved

\* What a command takes from the pending inputs, and what it leaves of them.
LEMMA TakenType ==
    ASSUME NEW c \in Commands, NEW pending \in SUBSET Dispatches, NEW taken \in Taken(c, pending)
    PROVE  /\ taken \subseteq pending
           /\ Left(c, taken, pending) \subseteq Dispatches
<1>1. taken \subseteq pending
  BY DEF Taken
<1>2. c.do = "queue" => c.input \in Dispatches
  BY CommandInput
<1> QED BY <1>1, <1>2 DEF Left

\* The steps of a run keep the types: its provider, its task and its worker.
LEMMA RunType ==
    ASSUME TypeOK, NEW r \in Runs,
           Task(r) \/ Worker(r) \/ ProviderAcks(r) \/ TaskFinalizes(r)
    PROVE  TypeOK'
<1> USE DEF dispatches, tables, runtime, storage, aborts, limits
<1>a. Executing = {"provider", "join", "persist", "unindex", "untrack"}
  BY DEF Executing
<1>1. CASE ProviderAcks(r)
  <2>1. PICK i \in inbox[r] :
          /\ inbox' = [inbox EXCEPT ![r] = @ \ {i}]
          /\ worker' = Send(r, [do |-> "ack", input |-> i])
    BY <1>1 DEF ProviderAcks
  <2>2. i \in Dispatches
    BY DEF TypeOK
  <2>3. worker' \in [Runs -> Workers]
    BY <2>1, <2>2, SendEffect, CommandsAre
  <2>4. inbox' \in [Runs -> SUBSET Dispatches]
    BY <2>1 DEF TypeOK
  <2> QED BY <1>1, <2>3, <2>4 DEF TypeOK, ProviderAcks
<1>2. CASE TaskFinalizes(r)
  <2>1. worker' \in [Runs -> Workers]
    BY <1>2, SendEffect, CommandsAre DEF TaskFinalizes
  <2>2. task' \in [Runs -> Executing \cup {"none", "done", "dead"}]
    BY <1>2, <1>a, AtEffect DEF TaskFinalizes
  <2>3. inbox' \in [Runs -> SUBSET Dispatches]
    BY <1>2 DEF TypeOK, TaskFinalizes
  <2> QED BY <1>2, <2>1, <2>2, <2>3, DetachEffect DEF TypeOK, TaskFinalizes
<1>3. CASE TaskJoins(r)
  BY <1>3, <1>a, AtEffect, DetachEffect DEF TypeOK, TaskJoins
<1>4. CASE TaskPersists(r)
  BY <1>4, <1>a, AtEffect, SavedType DEF TypeOK, TaskPersists
<1>5. CASE TaskUnindexes(r)
  BY <1>5, <1>a, AtEffect DEF TypeOK, TaskUnindexes
<1>6. CASE TaskUntracks(r)
  BY <1>6, <1>a, AtEffect, DetachEffect DEF TypeOK, TaskUntracks
<1>7. CASE TaskDies(r)
  BY <1>7, <1>a, AtEffect DEF TypeOK, TaskDies
<1>8. CASE WorkerTakes(r)
  <2> DEFINE w == worker[r]
             c == Head(w.queue)
  <2>1. w \in Workers /\ w.queue # <<>> /\ w.pc \in {"open", "finish"}
    BY <1>8 DEF TypeOK, WorkerTakes
  <2>2. w.queue \in Seq(Commands) /\ w.pending \in SUBSET Dispatches
    BY <2>1 DEF Workers
  <2>3. c \in Commands /\ Tail(w.queue) \in Seq(Commands)
    BY <2>1, <2>2, Shortened
  <2>4. PICK taken \in Taken(c, w.pending) :
          LET pending == Left(c, taken, w.pending) IN
          /\ worker' = [worker EXCEPT ![r] =
                           [pc |-> IF c.do \in {"abort", "finish"} THEN "finish" ELSE w.pc,
                            queue |-> Tail(w.queue), pending |-> pending]]
          /\ users' = IF c.do = "ack" THEN users \cup taken ELSE users
          /\ record' = IF c.do = "finish" \/ (c.do = "drop" /\ taken = {}) THEN record
                       ELSE Saved(r, pending, "queued")
    BY <1>8 DEF WorkerTakes
  <2> DEFINE next == [pc |-> IF c.do \in {"abort", "finish"} THEN "finish" ELSE w.pc,
                      queue |-> Tail(w.queue), pending |-> Left(c, taken, w.pending)]
  <2>5. taken \subseteq Dispatches /\ Left(c, taken, w.pending) \subseteq Dispatches
    BY <2>2, <2>3, TakenType
  <2>6. next \in Workers
    BY <2>1, <2>3, <2>5 DEF Workers
  <2>7. worker' = [worker EXCEPT ![r] = next]
    BY <2>4
  <2>8. users' \subseteq Dispatches
    BY <2>4, <2>5 DEF TypeOK
  <2>9. record' \in [Dispatches -> {"none", "queued", "abandoned"}]
    BY <2>4, SavedType DEF TypeOK
  <2> HIDE DEF next
  <2>10. worker' \in [Runs -> Workers]
    BY <2>6, <2>7 DEF TypeOK
  <2> QED BY <1>8, <2>8, <2>9, <2>10 DEF TypeOK, WorkerTakes
<1>9. CASE WorkerCloses(r)
  <2>1. worker' \in [Runs -> Workers]
    BY <1>9, NoWorkerIs DEF TypeOK, WorkerCloses
  <2> QED BY <1>9, <2>1, SavedType DEF TypeOK, WorkerCloses
<1> QED BY <1>1, <1>2, <1>3, <1>4, <1>5, <1>6, <1>7, <1>8, <1>9 DEF Task, Worker

\* What a step of an abort changes: its own record.
LEMMA AbortEffect ==
    ASSUME TypeOK, NEW p \in Aborters, Abort(p)
    PROVE  /\ abort' \in [Aborters -> Aborts]
           /\ \A x \in Aborters : x # p => abort'[x] = abort[x]
           /\ abort[p].pc # "off"
<1>a. abort[p] \in Aborts /\ abort[p].any \in BOOLEAN
  BY DEF TypeOK, Aborts
<1>1. CASE AbortPicks(p)
  <2>1. CASE abort' = [abort EXCEPT ![p] = [NoAbort EXCEPT !.any = p \in Dispatches /\ abort[p].any]]
    <3>1. [NoAbort EXCEPT !.any = p \in Dispatches /\ abort[p].any] \in Aborts
      BY <1>a, NoAbortExcept
    <3> QED BY <1>1, <2>1, <3>1 DEF AbortPicks, TypeOK
  <2>2. ASSUME NEW r \in abort[p].left, abort' = [abort EXCEPT ![p] = Picked(p, r)]
        PROVE  /\ abort' \in [Aborters -> Aborts]
               /\ \A x \in Aborters : x # p => abort'[x] = abort[x]
    BY <2>2, PickedEffect DEF TypeOK
  <2> QED BY <1>1, <2>1, <2>2 DEF AbortPicks
<1>2. CASE AbortDetaches(p)
  <2> DEFINE b == handle = abort[p].run
             next == [abort[p] EXCEPT !.pc = "kill", !.acks = b]
  <2>1. abort' = [abort EXCEPT ![p] = next]
    BY <1>2 DEF AbortDetaches, TypeOK
  <2>2. next \in Aborts
    BY <1>a, AbortExcept
  <2> HIDE DEF next
  <2>3. abort' \in [Aborters -> Aborts] /\ \A x \in Aborters : x # p => abort'[x] = abort[x]
    BY <2>1, <2>2 DEF TypeOK
  <2> QED BY <1>2, <2>3 DEF AbortDetaches
<1>3. CASE AbortKills(p)
  <2>1. CASE abort' = [abort EXCEPT ![p].pc = "await", ![p].any = TRUE]
    <3>1. abort' = [abort EXCEPT ![p] = [abort[p] EXCEPT !.pc = "await", !.any = TRUE]]
      BY <2>1 DEF TypeOK
    <3>2. [abort[p] EXCEPT !.pc = "await", !.any = TRUE] \in Aborts
      BY <1>a, AbortExcept
    <3> QED BY <1>3, <3>1, <3>2 DEF TypeOK, AbortKills
  <2>2. CASE abort' = [abort EXCEPT ![p].pc = "unindex"]
    <3>1. abort' = [abort EXCEPT ![p] = [abort[p] EXCEPT !.pc = "unindex"]]
      BY <2>2 DEF TypeOK
    <3>2. [abort[p] EXCEPT !.pc = "unindex"] \in Aborts
      BY <1>a, AbortExcept
    <3> QED BY <1>3, <3>1, <3>2 DEF TypeOK, AbortKills
  <2>3. \/ abort' = [abort EXCEPT ![p].pc = "await", ![p].any = TRUE]
        \/ abort' = [abort EXCEPT ![p].pc = "unindex"]
    BY <1>3, Zenon DEF AbortKills
  <2> QED BY <2>1, <2>2, <2>3
<1>4. ASSUME NEW s \in {"pick", "unindex", "ack"}, AbortGoto(p, s)
      PROVE  /\ abort' \in [Aborters -> Aborts]
             /\ \A x \in Aborters : x # p => abort'[x] = abort[x]
  <2>1. abort' = [abort EXCEPT ![p] = [abort[p] EXCEPT !.pc = s]]
    BY <1>4 DEF AbortGoto, TypeOK
  <2>2. [abort[p] EXCEPT !.pc = s] \in Aborts
    BY <1>a DEF Aborts
  <2> QED BY <2>1, <2>2 DEF TypeOK
<1>5. CASE AbortAwaits(p)
  BY <1>4, <1>5 DEF AbortAwaits
<1>6. CASE AbortUnindexes(p)
  BY <1>4, <1>6 DEF AbortUnindexes
<1>7. CASE AbortAcked(p)
  BY <1>4, <1>7 DEF AbortAcked
<1> QED BY <1>1, <1>2, <1>3, <1>5, <1>6, <1>7 DEF Abort

\* The run of an abort that has picked one is a run.
LEMMA AbortRun ==
    ASSUME TypeOK, NEW p \in Aborters
    PROVE  abort[p] \in Aborts /\ abort[p].run \in Runs \cup {NoRun}
BY DEF TypeOK, Aborts

\* The steps of an abort keep the types.
LEMMA AbortType ==
    ASSUME TypeOK, NEW p \in Aborters, Abort(p)
    PROVE  TypeOK'
<1> USE DEF dispatches, tables, runtime, storage, aborts, limits
<1>a. abort' \in [Aborters -> Aborts]
  BY AbortEffect
<1>1. CASE AbortPicks(p)
  BY <1>a, <1>1 DEF TypeOK, AbortPicks
<1>2. CASE AbortDetaches(p)
  <2>1. handle' \in Runs \cup {NoRun}
    BY <1>2 DEF TypeOK, AbortDetaches, Detach
  <2>2. worker' \in [Runs -> Workers]
    <3>1. abort[p].run \in Runs \cup {NoRun}
      BY AbortRun
    <3>2. Send(abort[p].run, [do |-> "abort"]) \in [Runs -> Workers]
      BY <3>1, SendEffect, CommandsAre
    <3> QED BY <1>2, <3>2 DEF TypeOK, AbortDetaches
  <2> QED BY <1>a, <1>2, <2>1, <2>2 DEF TypeOK, AbortDetaches
<1>3. CASE AbortKills(p)
  BY <1>a, <1>3, AbortRun DEF TypeOK, AbortKills
<1>4. CASE AbortAwaits(p)
  BY <1>a, <1>4 DEF TypeOK, AbortAwaits
<1>5. CASE AbortUnindexes(p)
  BY <1>a, <1>5 DEF TypeOK, AbortUnindexes
<1>6. CASE AbortAcked(p)
  BY <1>a, <1>6 DEF TypeOK, AbortAcked
<1> QED BY <1>1, <1>2, <1>3, <1>4, <1>5, <1>6 DEF Abort

\* The requests that abort begin with a sweep over the index.
LEMMA SweepEffect ==
    ASSUME TypeOK, NEW p \in Aborters,
           abort' = [abort EXCEPT ![p] = [NoAbort EXCEPT !.pc = "pick", !.left = index]]
    PROVE  /\ abort' \in [Aborters -> Aborts]
           /\ \A x \in Aborters : x # p => abort'[x] = abort[x]
           /\ abort'[p].pc = "pick"
<1>1. /\ [NoAbort EXCEPT !.pc = "pick", !.left = index] \in Aborts
      /\ [NoAbort EXCEPT !.pc = "pick", !.left = index].pc = "pick"
  BY NoAbortExcept DEF TypeOK
<1> QED BY <1>1 DEF TypeOK

\* A request is dropped, and its abort with it.
Drop == StopDropped \/ \E d \in Dispatches : Dropped(d)

LEMMA DropType ==
    ASSUME TypeOK, Drop
    PROVE  TypeOK'
<1> USE DEF dispatches, tables, runtime, storage, aborts, limits
<1>1. ASSUME NEW p \in Aborters, AbortDropped(p)
      PROVE  /\ abort' \in [Aborters -> Aborts]
             /\ drops' \in 0 .. MaxDrops /\ stuck' \subseteq Runs \cup {NoRun}
  <2>1. abort[p].run \in Runs \cup {NoRun}
    BY AbortRun
  <2>2. NoAbort \in Aborts
    BY NoAbortExcept
  <2>3. abort' \in [Aborters -> Aborts]
    BY <1>1, <2>2 DEF AbortDropped, TypeOK
  <2>4. drops' \in 0 .. MaxDrops
    BY <1>1, RunAssumption DEF AbortDropped, TypeOK
  <2> QED BY <1>1, <2>1, <2>3, <2>4 DEF AbortDropped, TypeOK
<1>2. CASE StopDropped
  <2>1. "stop" \in Aborters
    BY DEF Aborters
  <2> QED BY <1>1, <1>2, <2>1 DEF StopDropped, TypeOK
<1>3. ASSUME NEW d \in Dispatches, Dropped(d)
      PROVE  TypeOK'
  <2>1. d \in Aborters /\ "refused" \in Places
    BY DEF Aborters, Places
  <2>2. /\ pc' \in [Dispatches -> Places] /\ guard' \in Dispatches \cup {NoRun}
        /\ lease' \in [Dispatches -> {"none", "held", "active"}]
    BY <1>3, <2>1, LeaveEffect DEF Dropped
  <2>3. /\ abort' \in [Aborters -> Aborts]
        /\ drops' \in 0 .. MaxDrops /\ stuck' \subseteq Runs \cup {NoRun}
    BY <1>1, <1>3, <2>1 DEF Dropped
  <2> QED BY <1>3, <2>2, <2>3 DEF Dropped, TypeOK, Places
<1> QED BY <1>2, <1>3 DEF Drop

\* Every step keeps the types.
LEMMA TypeStep == ASSUME TypeOK, [Next]_vars PROVE TypeOK'
<1> USE DEF dispatches, tables, runtime, storage, aborts, limits
<1>1. CASE Stop
  <2>1. abort' \in [Aborters -> Aborts]
    <3>1. "stop" \in Aborters
      BY DEF Aborters
    <3> QED BY <1>1, <3>1, SweepEffect DEF Stop
  <2>2. stops' \in Nat
    BY <1>1 DEF TypeOK, Stop
  <2> QED BY <1>1, <2>1, <2>2 DEF TypeOK, Stop
<1>2. CASE DrainStarts
  BY <1>2 DEF TypeOK, DrainStarts
<1>3. CASE DrainSweeps
  BY <1>3, SweepEffect DEF TypeOK, DrainSweeps, Aborters
<1>4. CASE DrainEnds
  BY <1>4 DEF TypeOK, DrainEnds
<1>5. CASE DrainWaits
  BY <1>5 DEF TypeOK, DrainWaits
<1>6. CASE UNCHANGED vars
  BY <1>6 DEF TypeOK, vars
<1> QED
  BY <1>1, <1>2, <1>3, <1>4, <1>5, <1>6, DispatchType, DropType, RunType, AbortType
  DEF Next, Drop, Runs

\* The types hold initially.
LEMMA InitType == ASSUME Init PROVE TypeOK
<1>1. mode \in [Dispatches -> {"legacy", "durable"}]
  BY DEF Init
<1>2. /\ worker \in [Runs -> Workers] /\ abort \in [Aborters -> Aborts]
  BY NoWorkerIs, NoAbortExcept DEF Init
<1>3. 0 \in 0 .. MaxDrops
  BY RunAssumption
<1> QED BY <1>1, <1>2, <1>3 DEF Init, TypeOK

\* Every variable of the bridge keeps its type: the tables hold runs, the handle
\* is that of a run, the workers' queues hold commands.
THEOREM TypeCorrect == Spec => []TypeOK
BY InitType, TypeStep, PTL DEF Spec

-----------------------------------------------------------------------------
(* What the steps change.                                                  *)

\* A dispatch publishes its run.
Starts(d) ==
    /\ pc[d] = "publish" /\ Valid
    /\ index' = index \cup {d} /\ tasks' = tasks \cup {d} /\ handle' = d
    /\ task' = [task EXCEPT ![d] = "provider"]
    /\ worker' = [worker EXCEPT ![d].pc = "open"]
    /\ pc'[d] = "started" /\ UNCHANGED <<lease, tag, abort>>

\* A dispatch asks the worker of the handle to keep its input.
Queues(d) ==
    /\ pc[d] = "offer" /\ pc'[d] = "asked"
    /\ worker' = Send(handle, [do |-> "queue", input |-> d])
    /\ tag'[d] \in Planned
    /\ UNCHANGED abort

\* A dispatch takes its input back.
Drops(d) ==
    /\ pc[d] = "asked" /\ pc'[d] = "replace"
    /\ worker' = Send(tag[d], [do |-> "drop", input |-> d])
    /\ UNCHANGED <<tag, abort>>

\* A dispatch does none of these; it may begin to abort the runs that it replaces.
Moves(d) ==
    /\ UNCHANGED <<worker, tag>>
    /\ pc'[d] # "started" /\ (pc'[d] = "publish" => lease'[d] = "active")
    /\ pc[d] \notin {"new", "plan"} => pc'[d] \notin {"new", "plan", "offer"}
    /\ \/ UNCHANGED abort /\ (pc[d] = "abort" => abort[d].pc = "off")
       \/ /\ abort' = [abort EXCEPT ![d] = [NoAbort EXCEPT !.pc = "pick", !.left = index]]
          /\ pc[d] = "replace" /\ pc'[d] = "abort"

\* What a step of a dispatch changes.
LEMMA DispatchEffect ==
    ASSUME TypeOK, NEW d \in Dispatches, Dispatch(d)
    PROVE  /\ pc[d] \notin {"started", "queued", "refused"}
           /\ \A x \in Dispatches : x # d => /\ pc'[x] = pc[x] /\ lease'[x] = lease[x]
                                             /\ tag'[x] = tag[x] /\ task'[x] = task[x]
           /\ UNCHANGED <<killed, record, users, drain, stuck>>
           /\ ~Valid => lease'[d] \in {lease[d], "none"}
           /\ \/ Starts(d)
              \/ UNCHANGED <<index, tasks, handle, task>> /\ (Queues(d) \/ Drops(d) \/ Moves(d))
<1> USE DEF tables, runtime, storage, aborts, limits
<1>1. CASE Lock(d)
  <2>1. CASE Valid
    <3>1. /\ pc[d] = "new" /\ lease' = [lease EXCEPT ![d] = "held"]
          /\ Goto(d, IF mode[d] = "durable" THEN "plan" ELSE "offer")
      BY <1>1, <2>1 DEF Lock
    <3>2. pc'[d] \in {"plan", "offer"} /\ \A x \in Dispatches : x # d => pc'[x] = pc[x]
      BY <3>1, GotoEffect DEF Places
    <3> QED BY <1>1, <2>1, <3>1, <3>2 DEF Lock, Moves, TypeOK
  <2>2. CASE ~Valid
    <3>1. pc'[d] = "refused" /\ \A x \in Dispatches : x # d => pc'[x] = pc[x]
      BY <1>1, <2>2, GotoEffect DEF Places, Lock
    <3> QED BY <1>1, <2>2, <3>1 DEF Lock, Moves
  <2> QED BY <2>1, <2>2
<1>2. CASE Plan(d)
  <2>1. /\ pc'[d] \in {"permit", "offer", "replace"}
        /\ \A x \in Dispatches : x # d => pc'[x] = pc[x]
    BY <1>2, GotoEffect DEF Places, Plan
  <2> QED BY <1>2, <2>1 DEF Plan, Moves
<1>3. CASE Offer(d)
  <2>1. CASE Valid
    <3>1. pc'[d] = "asked" /\ \A x \in Dispatches : x # d => pc'[x] = pc[x]
      BY <1>3, <2>1, GotoEffect DEF Places, Offer
    <3>2. PICK r \in Planned : tag' = [tag EXCEPT ![d] = r]
      BY <1>3, <2>1 DEF Offer
    <3>3. tag'[d] = r /\ \A x \in Dispatches : x # d => tag'[x] = tag[x]
      BY <3>2 DEF TypeOK
    <3> QED BY <1>3, <2>1, <3>1, <3>3 DEF Offer, Queues
  <2>2. CASE ~Valid
    <3>1. Leave(d, "refused")
      BY <1>3, <2>2 DEF Offer
    <3>2. /\ pc'[d] = "refused" /\ lease'[d] = "none"
          /\ \A x \in Dispatches : x # d => pc'[x] = pc[x] /\ lease'[x] = lease[x]
      BY <3>1, LeaveEffect DEF Places
    <3> QED BY <1>3, <2>2, <3>2 DEF Offer, Moves
  <2> QED BY <2>1, <2>2
<1>4. CASE Answered(d)
  <2>1. ASSUME NEW s \in {"queued", "refused"}, Leave(d, s), UNCHANGED worker
        PROVE  /\ Moves(d)
               /\ lease'[d] = "none"
               /\ \A x \in Dispatches : x # d => pc'[x] = pc[x] /\ lease'[x] = lease[x]
    <3>1. /\ pc'[d] = s /\ lease'[d] = "none"
          /\ \A x \in Dispatches : x # d => pc'[x] = pc[x] /\ lease'[x] = lease[x]
      BY <2>1, LeaveEffect DEF Places
    <3> QED BY <1>4, <2>1, <3>1 DEF Answered, Moves
  <2>2. CASE \E s \in {"queued", "refused"} : Leave(d, s) /\ UNCHANGED worker
    BY <1>4, <2>1, <2>2 DEF Answered
  <2>3. CASE /\ worker' = Send(tag[d], [do |-> "drop", input |-> d])
             /\ Goto(d, "replace") /\ UNCHANGED <<guard, lease, inbox>>
    <3>1. pc'[d] = "replace" /\ \A x \in Dispatches : x # d => pc'[x] = pc[x]
      BY <2>3, GotoEffect DEF Places
    <3> QED BY <1>4, <2>3, <3>1 DEF Answered, Drops
  <2> QED BY <1>4, <2>2, <2>3 DEF Answered
<1>5. CASE Replace(d)
  <2>1. CASE Leave(d, "refused") /\ UNCHANGED abort
    <3>1. /\ pc'[d] = "refused" /\ lease'[d] = "none"
          /\ \A x \in Dispatches : x # d => pc'[x] = pc[x] /\ lease'[x] = lease[x]
      BY <2>1, LeaveEffect DEF Places
    <3> QED BY <1>5, <2>1, <3>1 DEF Replace, Moves
  <2>2. CASE (Goto(d, "permit") \/ Goto(d, "wait")) /\ UNCHANGED <<guard, lease, abort>>
    <3>1. /\ pc'[d] \in {"permit", "wait"}
          /\ \A x \in Dispatches : x # d => pc'[x] = pc[x]
      BY <2>2, GotoEffect DEF Places
    <3> QED BY <1>5, <2>2, <3>1 DEF Replace, Moves
  <2>3. CASE /\ Goto(d, "abort")
             /\ abort' = [abort EXCEPT ![d] = [NoAbort EXCEPT !.pc = "pick", !.left = index]]
             /\ UNCHANGED <<guard, lease>>
    <3>1. pc'[d] = "abort" /\ \A x \in Dispatches : x # d => pc'[x] = pc[x]
      BY <2>3, GotoEffect DEF Places
    <3> QED BY <1>5, <2>3, <3>1 DEF Replace, Moves
  <2> QED BY <1>5, <2>1, <2>2, <2>3 DEF Replace
<1>6. CASE Replaced(d)
  <2>1. /\ pc'[d] \in {"wait", "refused"} /\ lease'[d] \in {lease[d], "none"}
        /\ \A x \in Dispatches : x # d => pc'[x] = pc[x] /\ lease'[x] = lease[x]
    BY <1>6, GotoEffect, LeaveEffect DEF Places, Replaced
  <2> QED BY <1>6, <2>1 DEF Replaced, Moves
<1>7. CASE Wait(d)
  <2>1. /\ pc'[d] \in {"permit", "refused"} /\ lease'[d] \in {lease[d], "none"}
        /\ \A x \in Dispatches : x # d => pc'[x] = pc[x] /\ lease'[x] = lease[x]
    BY <1>7, GotoEffect, LeaveEffect DEF Places, Wait
  <2> QED BY <1>7, <2>1 DEF Wait, Moves
<1>8. CASE Permit(d)
  <2>1. CASE Valid /\ lease' = [lease EXCEPT ![d] = "active"] /\ Goto(d, "publish")
    <3>1. /\ pc'[d] = "publish" /\ lease'[d] = "active"
          /\ \A x \in Dispatches : x # d => pc'[x] = pc[x] /\ lease'[x] = lease[x]
      BY <2>1, GotoEffect DEF Places, TypeOK
    <3> QED BY <1>8, <2>1, <3>1 DEF Permit, Moves
  <2>2. CASE Leave(d, "refused")
    <3>1. /\ pc'[d] = "refused" /\ lease'[d] = "none"
          /\ \A x \in Dispatches : x # d => pc'[x] = pc[x] /\ lease'[x] = lease[x]
      BY <2>2, LeaveEffect DEF Places
    <3> QED BY <1>8, <2>2, <3>1 DEF Permit, Moves
  <2> QED BY <1>8, <2>1, <2>2 DEF Permit
<1>9. CASE Publish(d)
  <2>1. CASE Valid
    <3>1. pc'[d] = "started" /\ \A x \in Dispatches : x # d => pc'[x] = pc[x]
      BY <1>9, <2>1, GotoEffect DEF Places, Publish
    <3> QED BY <1>9, <2>1, <3>1 DEF Publish, Starts, TypeOK, Runs
  <2>2. CASE ~Valid
    <3>1. /\ pc'[d] = "refused" /\ lease'[d] = "none"
          /\ \A x \in Dispatches : x # d => pc'[x] = pc[x] /\ lease'[x] = lease[x]
      BY <1>9, <2>2, LeaveEffect DEF Places, Publish
    <3> QED BY <1>9, <2>2, <3>1 DEF Publish, Moves
  <2> QED BY <2>1, <2>2
<1> QED BY <1>1, <1>2, <1>3, <1>4, <1>5, <1>6, <1>7, <1>8, <1>9 DEF Dispatch

\* What a step of a run changes besides its worker and the record: its own entries.
LEMMA RunEffect ==
    ASSUME TypeOK, NEW r \in Runs,
           Task(r) \/ Worker(r) \/ ProviderAcks(r) \/ TaskFinalizes(r)
    PROVE  /\ UNCHANGED <<pc, tag, drain, abort, stuck, killed>>
           /\ \A x \in Runs : x # r => task'[x] = task[x] /\ lease'[x] = lease[x]
           /\ task'[r] = task[r] \/ (task[r] \in Executing /\ task'[r] \notin {"none", "provider"})
           /\ lease'[r] = lease[r] \/ (lease'[r] = "none" /\ task'[r] \in {"done", "dead"})
           /\ tasks' = tasks \/ (tasks' = tasks \ {r} /\ task[r] = "untrack" /\ task'[r] = "done")
           /\ index' = index \/ index' = index \ {r}
           /\ task'[r] \in {"none", "untrack", "done"} =>
                 r \notin index' \/ task[r] \in {"none", "untrack", "done"}
           /\ handle' = handle \/ (handle = r /\ handle' = NoRun /\ task'[r] # "provider")
<1> USE DEF dispatches, tables, runtime, storage, aborts, limits, Executing
<1>1. CASE ProviderAcks(r)
  BY <1>1 DEF ProviderAcks
<1>2. CASE TaskFinalizes(r)
  BY <1>2, AtEffect, DetachEffect DEF TaskFinalizes
<1>3. CASE TaskJoins(r)
  BY <1>3, AtEffect, DetachEffect DEF TaskJoins
<1>4. CASE TaskPersists(r)
  BY <1>4, AtEffect DEF TaskPersists
<1>5. CASE TaskUnindexes(r)
  BY <1>5, AtEffect DEF TaskUnindexes
<1>6. CASE TaskUntracks(r)
  BY <1>6, AtEffect, DetachEffect DEF TaskUntracks, TypeOK, Runs
<1>7. CASE TaskDies(r)
  BY <1>7, AtEffect DEF TaskDies, TypeOK, Runs
<1>8. CASE Worker(r)
  BY <1>8 DEF Worker, WorkerTakes, WorkerCloses
<1> QED BY <1>1, <1>2, <1>3, <1>4, <1>5, <1>6, <1>7, <1>8 DEF Task

\* What a step of a run does to the workers and the record.
LEMMA RunWorkerEffect ==
    ASSUME TypeOK, NEW r \in Runs,
           Task(r) \/ Worker(r) \/ ProviderAcks(r) \/ TaskFinalizes(r)
    PROVE  \/ UNCHANGED storage
           \/ /\ \E i \in Dispatches : worker' = Send(r, [do |-> "ack", input |-> i])
              /\ task[r] = "provider" /\ UNCHANGED <<record, users>>
           \/ /\ worker' = Send(r, [do |-> "finish"])
              /\ task[r] = "provider" /\ handle' # r /\ UNCHANGED <<record, users>>
           \/ record' = Saved(r, {}, "none") /\ UNCHANGED <<worker, users>>
           \/ WorkerTakes(r) \/ WorkerCloses(r)
<1> USE DEF storage
<1>1. CASE ProviderAcks(r)
  BY <1>1 DEF ProviderAcks, TypeOK
<1>2. CASE TaskFinalizes(r)
  BY <1>2, DetachEffect DEF TaskFinalizes
<1> QED
  BY <1>1, <1>2
  DEF Task, Worker, TaskJoins, TaskPersists, TaskUnindexes, TaskUntracks, TaskDies

\* What a step of an abort changes: its own entry, and those of the run that it aborts.
LEMMA AbortRunEffect ==
    ASSUME TypeOK, NEW p \in Aborters, Abort(p)
    PROVE  /\ UNCHANGED <<pc, tag, lease, drain, stuck, task, record, users>>
           /\ index' = index \/ index' = index \ {abort[p].run}
           /\ abort[p].pc = "unindex" => index' = index \ {abort[p].run}
           /\ abort[p].pc = "await" => abort'[p].pc = "unindex" /\ abort'[p].run = abort[p].run
           /\ \/ UNCHANGED <<tasks, killed>>
              \/ /\ tasks' = tasks \ {abort[p].run} /\ killed' = killed \cup {abort[p].run}
                 /\ abort'[p].pc = "await" /\ abort'[p].run = abort[p].run
           /\ \/ UNCHANGED <<handle, worker>>
              \/ /\ handle = abort[p].run /\ handle' = NoRun /\ abort'[p].run = abort[p].run
                 /\ worker' = Send(handle, [do |-> "abort"])
<1> USE DEF dispatches, tables, runtime, storage, aborts, limits
<1>a. abort[p] \in Aborts /\ abort[p].any \in BOOLEAN
  BY DEF TypeOK, Aborts
<1>1. CASE AbortPicks(p)
  BY <1>1 DEF AbortPicks
<1>2. CASE AbortDetaches(p)
  <2>1. CASE handle = abort[p].run
    <3> DEFINE next == [abort[p] EXCEPT !.pc = "kill", !.acks = (handle = abort[p].run)]
    <3>1. abort' = [abort EXCEPT ![p] = next]
      BY <1>2 DEF AbortDetaches, TypeOK
    <3>2. next.run = abort[p].run
      BY <1>a DEF Aborts
    <3> HIDE DEF next
    <3>3. abort'[p].run = abort[p].run
      BY <3>1, <3>2 DEF TypeOK
    <3> QED BY <1>2, <2>1, <3>3 DEF AbortDetaches, Detach
  <2>2. CASE handle # abort[p].run
    BY <1>2, <2>2 DEF AbortDetaches, Detach
  <2> QED BY <2>1, <2>2
<1>3. CASE AbortKills(p)
  <2>1. CASE abort[p].run \in tasks
    <3>1. abort' = [abort EXCEPT ![p] = [abort[p] EXCEPT !.pc = "await", !.any = TRUE]]
      BY <1>3, <2>1 DEF TypeOK, AbortKills
    <3>2. /\ [abort[p] EXCEPT !.pc = "await", !.any = TRUE].pc = "await"
          /\ [abort[p] EXCEPT !.pc = "await", !.any = TRUE].run = abort[p].run
      BY <1>a, AbortExcept
    <3>3. abort'[p].pc = "await" /\ abort'[p].run = abort[p].run
      BY <3>1, <3>2 DEF TypeOK
    <3> QED BY <1>3, <2>1, <3>3 DEF AbortKills
  <2>2. CASE abort[p].run \notin tasks
    BY <1>3, <2>2 DEF AbortKills
  <2> QED BY <2>1, <2>2
<1>4. CASE AbortAwaits(p)
  <2>1. abort' = [abort EXCEPT ![p] = [abort[p] EXCEPT !.pc = "unindex"]]
    BY <1>4 DEF TypeOK, AbortAwaits, AbortGoto
  <2>2. /\ [abort[p] EXCEPT !.pc = "unindex"].pc = "unindex"
        /\ [abort[p] EXCEPT !.pc = "unindex"].run = abort[p].run
    BY <1>a, AbortExcept
  <2>3. abort'[p].pc = "unindex" /\ abort'[p].run = abort[p].run
    BY <2>1, <2>2 DEF TypeOK
  <2> QED BY <1>4, <2>3 DEF AbortAwaits
<1>5. CASE AbortUnindexes(p)
  BY <1>5 DEF AbortUnindexes
<1>6. CASE AbortAcked(p)
  BY <1>6 DEF AbortAcked
<1> QED BY <1>1, <1>2, <1>3, <1>4, <1>5, <1>6 DEF Abort

\* What the requests of the user and of a deletion change.
LEMMA RequestEffect ==
    ASSUME TypeOK, Stop \/ DrainStarts \/ DrainSweeps \/ DrainEnds \/ DrainWaits
    PROVE  /\ UNCHANGED <<dispatches, tables, runtime, storage, stuck>>
           /\ \A x \in Aborters : abort[x].pc # "off" => abort'[x] = abort[x]
           /\ \A x \in Dispatches : abort'[x] = abort[x]
           /\ drain' = "done" =>
                 drain = "done" \/ \A d \in Dispatches : lease[d] = "none"
<1>1. \A x \in Dispatches : x \in Aborters /\ x # "stop" /\ x # "drain"
  BY RunAssumption DEF Aborters
<1>2. "stop" \in Aborters /\ "drain" \in Aborters
  BY DEF Aborters
<1>3. CASE Stop
  <2>1. \A x \in Aborters : x # "stop" => abort'[x] = abort[x]
    BY <1>2, <1>3, SweepEffect DEF Stop
  <2> QED BY <1>1, <1>3, <2>1 DEF Stop
<1>4. CASE DrainSweeps
  <2>1. \A x \in Aborters : x # "drain" => abort'[x] = abort[x]
    BY <1>2, <1>4, SweepEffect DEF DrainSweeps
  <2> QED BY <1>1, <1>4, <2>1 DEF DrainSweeps, limits
<1> QED BY <1>3, <1>4 DEF DrainStarts, DrainEnds, DrainWaits, aborts, limits

\* What a dropped request changes: its own dispatch and its own abort, whose run
\* is remembered if it had left the task table.
LEMMA DropEffect ==
    ASSUME TypeOK, Drop
    PROVE  /\ UNCHANGED <<tag, tables, runtime, storage, drain>>
           /\ \A x \in Dispatches :
                 \/ pc'[x] = pc[x] /\ lease'[x] = lease[x] /\ abort'[x] = abort[x]
                 \/ /\ pc[x] \notin {"new", "started", "queued", "refused"}
                    /\ pc'[x] = "refused" /\ lease'[x] = "none" /\ abort'[x].pc = "off"
           /\ \A x \in Aborters :
                 \/ abort'[x] = abort[x]
                 \/ abort[x].pc \in {"await", "unindex"} => abort[x].run \in stuck'
           /\ stuck \subseteq stuck'
<1> USE DEF tables, runtime, storage
<1>1. ASSUME NEW p \in Aborters, AbortDropped(p)
      PROVE  /\ abort'[p].pc = "off" /\ \A x \in Aborters : x # p => abort'[x] = abort[x]
             /\ abort[p].pc \in {"await", "unindex"} => abort[p].run \in stuck'
             /\ stuck \subseteq stuck'
  <2>1. NoAbort.pc = "off"
    BY NoAbortExcept
  <2> QED BY <1>1, <2>1 DEF AbortDropped, TypeOK
<1>2. \A x \in Dispatches : x \in Aborters /\ x # "stop"
  BY RunAssumption DEF Aborters
<1>3. CASE StopDropped
  <2>1. "stop" \in Aborters
    BY DEF Aborters
  <2> QED BY <1>1, <1>2, <1>3, <2>1 DEF StopDropped, dispatches
<1>4. ASSUME NEW d \in Dispatches, Dropped(d)
      PROVE  /\ UNCHANGED <<tag, tables, runtime, storage, drain>>
             /\ pc[d] \notin {"new", "started", "queued", "refused"}
             /\ pc'[d] = "refused" /\ lease'[d] = "none" /\ AbortDropped(d)
             /\ \A x \in Dispatches : x # d => pc'[x] = pc[x] /\ lease'[x] = lease[x]
  <2>1. "refused" \in Places
    BY DEF Places
  <2> QED BY <1>4, <2>1, LeaveEffect DEF Dropped
<1>5. ASSUME NEW d \in Dispatches, Dropped(d)
      PROVE  /\ UNCHANGED <<tag, tables, runtime, storage, drain>>
             /\ \A x \in Dispatches :
                   \/ pc'[x] = pc[x] /\ lease'[x] = lease[x] /\ abort'[x] = abort[x]
                   \/ /\ pc[x] \notin {"new", "started", "queued", "refused"}
                      /\ pc'[x] = "refused" /\ lease'[x] = "none" /\ abort'[x].pc = "off"
             /\ \A x \in Aborters :
                   \/ abort'[x] = abort[x]
                   \/ abort[x].pc \in {"await", "unindex"} => abort[x].run \in stuck'
             /\ stuck \subseteq stuck'
  <2>1. d \in Aborters /\ AbortDropped(d)
    BY <1>2, <1>4, <1>5
  <2> QED BY <1>1, <1>2, <1>4, <1>5, <2>1
<1> QED BY <1>3, <1>5 DEF Drop

-----------------------------------------------------------------------------
(* The tables, the tasks and the drain.                                    *)

\* A message changes nothing of a worker that does not exist yet.
LEMMA SendSpares ==
    ASSUME TypeOK, NEW r \in Runs \cup {NoRun}, NEW c \in Commands, NEW x \in Runs,
           worker[x] = NoWorker
    PROVE  Send(r, c)[x] = NoWorker
<1>1. Send(r, c)[x] = worker[x] \/ worker[x].pc \in {"open", "finish"}
  BY SendEffect
<1> QED BY <1>1, NoWorkerIs

\* A run has a task, a worker and an active lease only as its dispatch got that far.
LEMMA RunsStep ==
    ASSUME TypeOK, RunsMatch, [Next]_vars
    PROVE  RunsMatch'
<1> USE DEF Runs
<1>a. Aborters = Dispatches \cup {"stop", "drain"}
  BY DEF Aborters
<1>1. ASSUME NEW d \in Dispatches, Dispatch(d) PROVE RunsMatch'
  <2>0. /\ pc[d] \notin {"started", "queued", "refused"}
        /\ \A x \in Dispatches : x # d => /\ pc'[x] = pc[x] /\ lease'[x] = lease[x]
                                          /\ tag'[x] = tag[x] /\ task'[x] = task[x]
        /\ \/ Starts(d)
           \/ UNCHANGED <<index, tasks, handle, task>> /\ (Queues(d) \/ Drops(d) \/ Moves(d))
    BY <1>1, DispatchEffect
  <2>1. task[d] = "none" /\ worker[d] = NoWorker /\ d \notin index /\ ~Alive(d)
    BY <2>0 DEF RunsMatch, Alive, Executing
  <2>2. CASE Starts(d)
    <3>1. /\ task'[d] = "provider"
          /\ \A x \in Runs : x # d => worker'[x] = worker[x]
          /\ lease'[d] = "active" /\ abort' = abort /\ abort[d].pc = "off"
      BY <2>2 DEF Starts, TypeOK, RunsMatch
    <3> QED BY <2>0, <2>2, <3>1 DEF Starts, RunsMatch, Alive
  <2>3. ASSUME UNCHANGED <<index, task, abort>>, pc'[d] # "started",
               pc'[d] = "publish" => lease'[d] = "active", pc[d] = "abort" => abort[d].pc = "off",
               NEW r \in Runs \cup {NoRun}, NEW c \in Commands,
               worker' = worker \/ worker' = Send(r, c)
        PROVE  RunsMatch'
    <3>1. \A x \in Runs : worker[x] = NoWorker => worker'[x] = NoWorker
      BY <2>3, SendSpares
    <3>2. abort[d].pc = "off"
      BY <2>3 DEF RunsMatch
    <3>3. ~Alive(d)' /\ task'[d] = "none" /\ worker'[d] = NoWorker
      BY <2>1, <2>3, <3>1 DEF Alive, Executing
    <3> QED BY <2>0, <2>1, <2>3, <3>1, <3>2, <3>3 DEF RunsMatch, Alive
  <2>4. CASE UNCHANGED <<index, tasks, handle, task>> /\ Queues(d)
    BY <2>3, <2>4, CommandsAre DEF Queues, TypeOK
  <2>5. CASE UNCHANGED <<index, tasks, handle, task>> /\ Drops(d)
    <3>1. tag[d] \in Runs \cup {NoRun}
      BY DEF TypeOK
    <3> QED BY <2>3, <2>5, <3>1, CommandsAre DEF Drops
  <2>6. CASE UNCHANGED <<index, tasks, handle, task>> /\ Moves(d)
    <3>1. CASE UNCHANGED abort
      BY <2>3, <2>6, <3>1, CommandsAre DEF Moves
    <3>2. CASE ~UNCHANGED abort
      <4>1. pc'[d] = "abort" /\ UNCHANGED worker
            /\ abort' = [abort EXCEPT ![d] = [NoAbort EXCEPT !.pc = "pick", !.left = index]]
        BY <2>6, <3>2 DEF Moves
      <4>2. \A x \in Dispatches : x # d => abort'[x] = abort[x]
        BY <1>a, <4>1, SweepEffect
      <4>3. ~Alive(d)'
        BY <2>1, <2>6 DEF Alive
      <4> QED BY <2>0, <2>1, <2>6, <4>1, <4>2, <4>3 DEF RunsMatch, Alive
    <3> QED BY <3>1, <3>2
  <2> QED BY <2>0, <2>2, <2>4, <2>5, <2>6
<1>2. ASSUME NEW r \in Runs, Task(r) \/ Worker(r) \/ ProviderAcks(r) \/ TaskFinalizes(r)
      PROVE  RunsMatch'
  <2>0. /\ UNCHANGED <<pc, tag, drain, abort, stuck, killed>>
        /\ \A x \in Runs : x # r => task'[x] = task[x] /\ lease'[x] = lease[x]
        /\ task'[r] = task[r] \/ (task[r] \in Executing /\ task'[r] \notin {"none", "provider"})
        /\ lease'[r] = lease[r] \/ (lease'[r] = "none" /\ task'[r] \in {"done", "dead"})
        /\ index' = index \/ index' = index \ {r}
        /\ task'[r] \in {"none", "untrack", "done"} =>
              r \notin index' \/ task[r] \in {"none", "untrack", "done"}
    BY <1>2, RunEffect
  <2>1. pc[r] = "started"
    <3>1. task[r] # "none" \/ worker[r].pc # "none"
      BY <1>2
      DEF Task, Worker, ProviderAcks, TaskFinalizes, TaskJoins, TaskPersists, TaskUnindexes,
          TaskUntracks, TaskDies, WorkerTakes, WorkerCloses, Executing
    <3> QED BY <3>1, NoWorkerIs DEF RunsMatch
  <2>2. \A x \in Runs : x # r /\ worker[x] = NoWorker => worker'[x] = NoWorker
    <3>1. \/ UNCHANGED worker
          \/ \E c \in Commands : worker' = Send(r, c)
          \/ WorkerTakes(r) \/ WorkerCloses(r)
      BY <1>2, RunWorkerEffect, CommandsAre DEF storage
    <3>2. WorkerTakes(r) \/ WorkerCloses(r) => \A x \in Runs : x # r => worker'[x] = worker[x]
      BY DEF WorkerTakes, WorkerCloses, TypeOK
    <3> QED BY <3>1, <3>2, SendSpares
  <2>3. Alive(r)' => Alive(r) /\ lease'[r] = lease[r]
    BY <2>0 DEF Alive, Executing
  <2> QED BY <2>0, <2>1, <2>2, <2>3 DEF RunsMatch, Alive
<1>3. ASSUME NEW p \in Aborters, Abort(p) PROVE RunsMatch'
  <2>0. /\ UNCHANGED <<pc, tag, lease, drain, stuck, task, record, users>>
        /\ index' = index \/ index' = index \ {abort[p].run}
        /\ UNCHANGED <<handle, worker>> \/ worker' = Send(handle, [do |-> "abort"])
    BY <1>3, AbortRunEffect
  <2>1. \A x \in Runs : worker[x] = NoWorker => worker'[x] = NoWorker
    <3>1. handle \in Runs \cup {NoRun}
      BY DEF TypeOK
    <3> QED BY <2>0, <3>1, SendSpares, CommandsAre
  <2>2. \A x \in Aborters : abort'[x].pc # "off" => abort[x].pc # "off"
    BY <1>3, AbortEffect
  <2> QED BY <1>a, <2>0, <2>1, <2>2 DEF RunsMatch, Alive
<1>4. CASE Stop \/ DrainStarts \/ DrainSweeps \/ DrainEnds \/ DrainWaits
  BY <1>4, RequestEffect DEF RunsMatch, Alive, dispatches, tables, runtime, storage
<1>5. CASE UNCHANGED vars
  BY <1>5 DEF vars, RunsMatch, Alive, dispatches, tables, runtime, storage, aborts, limits
<1>6. CASE Drop
  BY <1>6, DropEffect DEF RunsMatch, Alive, Executing, tables, runtime, storage
<1> QED BY <1>1, <1>2, <1>3, <1>4, <1>5, <1>6 DEF Next, Drop

\* A run that the index shows can be aborted.
LEMMA IndexStep ==
    ASSUME TypeOK, RunsMatch, IndexedHasTask, [Next]_vars
    PROVE  IndexedHasTask'
<1> USE DEF Runs
<1>a. Aborters = Dispatches \cup {"stop", "drain"}
  BY DEF Aborters
<1>1. ASSUME NEW d \in Dispatches, Dispatch(d) PROVE IndexedHasTask'
  <2>0. UNCHANGED stuck
    BY <1>1, DispatchEffect
  <2>1. CASE UNCHANGED abort /\ (UNCHANGED <<index, tasks>> \/ Starts(d))
    BY <2>0, <2>1 DEF Starts, IndexedHasTask
  <2>2. CASE UNCHANGED <<index, tasks>> /\ Moves(d) /\ ~UNCHANGED abort
    <3>1. abort[d].pc = "off" /\ \A x \in Aborters : x # d => abort'[x] = abort[x]
      BY <1>a, <2>2, SweepEffect DEF Moves, RunsMatch
    <3> QED BY <2>0, <2>2, <3>1 DEF IndexedHasTask
  <2> QED BY <1>1, <2>1, <2>2, DispatchEffect DEF Queues, Drops, Starts
<1>2. ASSUME NEW r \in Runs, Task(r) \/ Worker(r) \/ ProviderAcks(r) \/ TaskFinalizes(r)
      PROVE  IndexedHasTask'
  <2>1. /\ UNCHANGED <<abort, stuck>>
        /\ tasks' = tasks \/ (tasks' = tasks \ {r} /\ task[r] = "untrack")
        /\ index' = index \/ index' = index \ {r}
    BY <1>2, RunEffect
  <2> QED BY <2>1 DEF RunsMatch, IndexedHasTask
<1>3. ASSUME NEW p \in Aborters, Abort(p) PROVE IndexedHasTask'
  BY <1>3, AbortEffect, AbortRunEffect DEF IndexedHasTask
<1>4. CASE Stop \/ DrainStarts \/ DrainSweeps \/ DrainEnds \/ DrainWaits
  BY <1>4, RequestEffect DEF IndexedHasTask, tables
<1>5. CASE UNCHANGED vars
  BY <1>5 DEF vars, IndexedHasTask, tables, aborts, limits
<1>6. CASE Drop
  BY <1>6, DropEffect DEF IndexedHasTask, tables
<1> QED BY <1>1, <1>2, <1>3, <1>4, <1>5, <1>6 DEF Next, Drop

\* No task of a run escapes.
LEMMA TrackedStep ==
    ASSUME TypeOK, TaskIsTracked, [Next]_vars
    PROVE  TaskIsTracked'
<1> USE DEF Runs
<1>1. ASSUME NEW d \in Dispatches, Dispatch(d) PROVE TaskIsTracked'
  <2>1. CASE Starts(d)
    <3>1. \A x \in Runs : x # d => task'[x] = task[x]
      BY <2>1 DEF Starts, TypeOK
    <3> QED BY <1>1, <2>1, <3>1, DispatchEffect DEF Starts, TaskIsTracked, Alive
  <2> QED BY <1>1, <2>1, DispatchEffect DEF TaskIsTracked, Alive
<1>2. ASSUME NEW r \in Runs, Task(r) \/ Worker(r) \/ ProviderAcks(r) \/ TaskFinalizes(r)
      PROVE  TaskIsTracked'
  BY <1>2, RunEffect DEF TaskIsTracked, Alive, Executing
<1>3. ASSUME NEW p \in Aborters, Abort(p) PROVE TaskIsTracked'
  BY <1>3, AbortRunEffect DEF TaskIsTracked, Alive
<1>4. CASE Stop \/ DrainStarts \/ DrainSweeps \/ DrainEnds \/ DrainWaits
  BY <1>4, RequestEffect DEF TaskIsTracked, Alive, tables, runtime
<1>5. CASE UNCHANGED vars
  BY <1>5 DEF vars, TaskIsTracked, Alive, tables, runtime
<1>6. CASE Drop
  BY <1>6, DropEffect DEF TaskIsTracked, Alive, tables, runtime
<1> QED BY <1>1, <1>2, <1>3, <1>4, <1>5, <1>6 DEF Next, Drop

\* When the drain has returned nothing of the thread runs, and nothing begins.
LEMMA QuietStep ==
    ASSUME TypeOK, RunsMatch, DrainedIsQuiet, [Next]_vars
    PROVE  DrainedIsQuiet'
<1> USE DEF Runs
<1>1. ASSUME NEW d \in Dispatches, Dispatch(d) PROVE DrainedIsQuiet'
  <2> SUFFICES ASSUME drain' = "done"
               PROVE  \A r \in Runs : ~Alive(r)' /\ lease'[r] = "none"
    BY DEF DrainedIsQuiet
  <2>1. drain = "done" /\ ~Valid
    BY <1>1, DispatchEffect DEF Valid
  <2>2. UNCHANGED task /\ lease'[d] \in {lease[d], "none"}
    BY <1>1, <2>1, DispatchEffect DEF Starts
  <2> QED BY <1>1, <2>1, <2>2, DispatchEffect DEF DrainedIsQuiet, Alive
<1>2. ASSUME NEW r \in Runs, Task(r) \/ Worker(r) \/ ProviderAcks(r) \/ TaskFinalizes(r)
      PROVE  DrainedIsQuiet'
  BY <1>2, RunEffect DEF DrainedIsQuiet, Alive, Executing
<1>3. ASSUME NEW p \in Aborters, Abort(p) PROVE DrainedIsQuiet'
  BY <1>3, AbortRunEffect DEF DrainedIsQuiet, Alive
<1>4. CASE Stop \/ DrainStarts \/ DrainSweeps \/ DrainEnds \/ DrainWaits
  BY <1>4, RequestEffect DEF DrainedIsQuiet, RunsMatch, Alive, dispatches, runtime
<1>5. CASE UNCHANGED vars
  BY <1>5 DEF vars, DrainedIsQuiet, Alive, dispatches, runtime, aborts, limits
<1>6. CASE Drop
  BY <1>6, DropEffect DEF DrainedIsQuiet, Alive, runtime
<1> QED BY <1>1, <1>2, <1>3, <1>4, <1>5, <1>6 DEF Next, Drop

-----------------------------------------------------------------------------
(* The handle and the inputs.                                              *)

\* What the worker of a run changes when it takes a command.
LEMMA TakesEffect ==
    ASSUME TypeOK, NEW r \in Runs, WorkerTakes(r)
    PROVE  LET q == worker[r].queue
               c == Head(q)
               pending == worker[r].pending
           IN /\ q \in Seq(Commands) /\ q # <<>> /\ worker[r].pc \in {"open", "finish"}
              /\ pending \subseteq Dispatches
              /\ \A x \in Runs : x # r => worker'[x] = worker[x]
              /\ worker'[r].queue = Tail(q)
              /\ worker'[r].pc = IF c.do \in {"abort", "finish"} THEN "finish" ELSE worker[r].pc
              /\ UNCHANGED <<dispatches, tables, runtime, aborts>>
              /\ \E taken \in Taken(c, pending) :
                    /\ worker'[r].pending = Left(c, taken, pending)
                    /\ users' = IF c.do = "ack" THEN users \cup taken ELSE users
                    /\ record' = IF c.do = "finish" \/ (c.do = "drop" /\ taken = {}) THEN record
                                 ELSE Saved(r, worker'[r].pending, "queued")
<1> DEFINE w == worker[r]
           c == Head(w.queue)
<1>1. w \in Workers /\ w.queue # <<>> /\ w.pc \in {"open", "finish"}
  BY DEF TypeOK, WorkerTakes
<1>2. w.queue \in Seq(Commands) /\ w.pending \in SUBSET Dispatches
  BY <1>1 DEF Workers
<1>3. PICK taken \in Taken(c, w.pending) :
        LET pending == Left(c, taken, w.pending) IN
        /\ worker' = [worker EXCEPT ![r] =
                         [pc |-> IF c.do \in {"abort", "finish"} THEN "finish" ELSE w.pc,
                          queue |-> Tail(w.queue), pending |-> pending]]
        /\ users' = IF c.do = "ack" THEN users \cup taken ELSE users
        /\ record' = IF c.do = "finish" \/ (c.do = "drop" /\ taken = {}) THEN record
                     ELSE Saved(r, pending, "queued")
  BY DEF WorkerTakes
<1> DEFINE next == [pc |-> IF c.do \in {"abort", "finish"} THEN "finish" ELSE w.pc,
                    queue |-> Tail(w.queue), pending |-> Left(c, taken, w.pending)]
<1>4. /\ next.pc = IF c.do \in {"abort", "finish"} THEN "finish" ELSE w.pc
      /\ next.queue = Tail(w.queue) /\ next.pending = Left(c, taken, w.pending)
  OBVIOUS
<1>5. worker' = [worker EXCEPT ![r] = next]
  BY <1>3
<1> HIDE DEF next
<1>6. worker'[r] = next /\ \A x \in Runs : x # r => worker'[x] = worker[x]
  BY <1>5 DEF TypeOK
<1>7. UNCHANGED <<dispatches, tables, runtime, aborts>>
  BY DEF WorkerTakes
<1> QED BY <1>1, <1>2, <1>3, <1>4, <1>6, <1>7

\* What the worker of a run changes when it closes.
LEMMA ClosesEffect ==
    ASSUME TypeOK, NEW r \in Runs, WorkerCloses(r)
    PROVE  /\ \A x \in Runs : x # r => worker'[x] = worker[x]
           /\ worker'[r].queue = <<>> /\ worker'[r].pending = {}
           /\ worker[r].queue = <<>>
           /\ worker[r].pc = "finish" \/ handle # r
           /\ record' = Saved(r, worker[r].pending, "abandoned")
           /\ UNCHANGED <<dispatches, tables, runtime, users, aborts>>
BY NoWorkerIs DEF TypeOK, WorkerCloses, Unreachable

\* What publishing a run does to its worker.
LEMMA StartsEffect ==
    ASSUME TypeOK, RunsMatch, NEW d \in Dispatches, Starts(d)
    PROVE  /\ \A x \in Runs : x # d => worker'[x] = worker[x]
           /\ worker'[d].pc = "open" /\ worker'[d].queue = <<>> /\ worker'[d].pending = {}
           /\ worker[d].queue = <<>> /\ worker[d].pending = {}
<1>1. worker[d] = NoWorker
  BY DEF RunsMatch, Starts, Runs
<1>2. worker' = [worker EXCEPT ![d] = [worker[d] EXCEPT !.pc = "open"]]
  BY DEF Starts, TypeOK, Runs
<1>3. /\ [NoWorker EXCEPT !.pc = "open"].pc = "open"
      /\ [NoWorker EXCEPT !.pc = "open"].queue = <<>>
      /\ [NoWorker EXCEPT !.pc = "open"].pending = {}
  BY NoWorkerIs, WorkerExcept, CommandsAre
<1> QED BY <1>1, <1>2, <1>3, NoWorkerIs DEF TypeOK, Runs

\* The handle stays that of a worker that listens while nobody tells it to stop.
LEMMA HandleSent ==
    ASSUME TypeOK, HandleRecords, NEW r \in Runs \cup {NoRun}, NEW c \in Commands,
           worker' = Send(r, c), handle' \in {handle, NoRun},
           handle' = r => c.do \notin {"abort", "finish"}
    PROVE  HandleRecords'
<1> SUFFICES ASSUME handle' # NoRun
             PROVE  /\ worker'[handle].pc = "open"
                    /\ \A k \in DOMAIN worker'[handle].queue :
                          worker'[handle].queue[k].do \notin {"abort", "finish"}
  BY DEF HandleRecords
<1>1. /\ handle \in Runs /\ handle' = handle
      /\ worker[handle].pc = "open" /\ worker[handle].queue \in Seq(Commands)
      /\ \A k \in DOMAIN worker[handle].queue :
            worker[handle].queue[k].do \notin {"abort", "finish"}
  BY DEF HandleRecords, TypeOK, Workers
<1>2. /\ worker'[handle].pc = "open"
      /\ \/ worker'[handle] = worker[handle]
         \/ handle = r /\ Told(worker[handle].queue, worker'[handle].queue, c)
  <2>1. handle \in Runs
    BY <1>1
  <2>2. /\ Send(r, c)[handle].pc = worker[handle].pc
        /\ \/ Send(r, c)[handle] = worker[handle]
           \/ handle = r /\ Told(worker[handle].queue, Send(r, c)[handle].queue, c)
    BY <2>1, SendEffect
  <2> QED BY <1>1, <2>2, Zenon
<1>3. CASE worker'[handle] = worker[handle]
  BY <1>1, <1>3
<1>4. CASE handle = r /\ Told(worker[handle].queue, worker'[handle].queue, c)
  BY <1>1, <1>2, <1>4 DEF Told
<1> QED BY <1>2, <1>3, <1>4

\* The handle is never that of a worker that has stopped listening.
LEMMA HandleStep ==
    ASSUME TypeOK, RunsMatch, HandleRecords, [Next]_vars
    PROVE  HandleRecords'
<1> USE DEF Runs
<1>a. \A r \in Runs : worker[r].queue \in Seq(Commands)
  BY DEF TypeOK, Workers
<1>b. handle \in Runs \cup {NoRun} /\ NoRun \notin Runs
  BY RunAssumption DEF TypeOK
<1>1. ASSUME NEW d \in Dispatches, Dispatch(d) PROVE HandleRecords'
  <2>1. CASE Starts(d)
    <3>1. handle' = d /\ worker'[d].pc = "open" /\ worker'[d].queue = <<>>
      BY <2>1, StartsEffect DEF Starts
    <3>2. \A k \in DOMAIN worker'[d].queue : worker'[d].queue[k].do \notin {"abort", "finish"}
      BY <3>1
    <3> QED BY <3>1, <3>2 DEF HandleRecords
  <2>2. CASE handle' = handle /\ Queues(d)
    <3> DEFINE c == [do |-> "queue", input |-> d]
    <3>1. c \in Commands /\ c.do = "queue" /\ worker' = Send(handle, c)
      BY <2>2, CommandsAre DEF Queues
    <3> HIDE DEF c
    <3> QED BY <1>b, <2>2, <3>1, HandleSent
  <2>3. CASE handle' = handle /\ Drops(d)
    <3>1. tag[d] \in Runs \cup {NoRun}
      BY DEF TypeOK
    <3> QED BY <2>3, <3>1, HandleSent, CommandsAre DEF Drops
  <2>4. CASE handle' = handle /\ Moves(d)
    BY <2>4 DEF Moves, HandleRecords
  <2> QED BY <1>1, <2>1, <2>2, <2>3, <2>4, DispatchEffect
<1>2. ASSUME NEW r \in Runs, Task(r) \/ Worker(r) \/ ProviderAcks(r) \/ TaskFinalizes(r)
      PROVE  HandleRecords'
  <2>1. handle' \in {handle, NoRun}
    BY <1>2, RunEffect
  <2>2. CASE UNCHANGED worker
    BY <2>1, <2>2 DEF HandleRecords
  <2>3. CASE \E i \in Dispatches : worker' = Send(r, [do |-> "ack", input |-> i])
    BY <2>1, <2>3, HandleSent, CommandsAre
  <2>4. CASE worker' = Send(r, [do |-> "finish"]) /\ handle' # r
    BY <2>1, <2>4, HandleSent, CommandsAre
  <2>5. CASE WorkerTakes(r)
    <3>1. CASE handle = r
      <4> DEFINE q == worker[r].queue
      <4>1. q \in Seq(Commands) /\ q # <<>> /\ worker'[r].queue = Tail(q) /\ handle' = r
        BY <2>5, <3>1, TakesEffect DEF tables
      <4>2. worker[r].pc = "open" /\ \A k \in DOMAIN q : q[k].do \notin {"abort", "finish"}
        BY <1>b, <3>1 DEF HandleRecords
      <4>3. Head(q).do \notin {"abort", "finish"}
        BY <4>1, <4>2, Shortened
      <4>4. worker'[r].pc = "open"
        BY <2>5, <4>2, <4>3, TakesEffect
      <4>5. \A k \in DOMAIN Tail(q) : Tail(q)[k].do \notin {"abort", "finish"}
        BY <4>1, <4>2, Shortened
      <4> QED BY <4>1, <4>4, <4>5 DEF HandleRecords
    <3>2. CASE handle # r
      BY <1>b, <2>5, <3>2, TakesEffect DEF HandleRecords, tables
    <3> QED BY <3>1, <3>2
  <2>6. CASE WorkerCloses(r)
    <3>1. handle' = handle /\ handle # r
      <4>1. handle = r => worker[r].pc = "open"
        BY <1>b DEF HandleRecords
      <4> QED BY <2>6, <4>1, ClosesEffect DEF tables
    <3> QED BY <1>b, <2>6, <3>1, ClosesEffect DEF HandleRecords
  <2> QED BY <1>2, <2>2, <2>3, <2>4, <2>5, <2>6, RunWorkerEffect DEF storage
<1>3. ASSUME NEW p \in Aborters, Abort(p) PROVE HandleRecords'
  BY <1>3, AbortRunEffect DEF HandleRecords
<1>4. CASE Stop \/ DrainStarts \/ DrainSweeps \/ DrainEnds \/ DrainWaits
  BY <1>4, RequestEffect DEF HandleRecords, tables, storage
<1>5. CASE UNCHANGED vars
  BY <1>5 DEF vars, HandleRecords, tables, storage
<1>6. CASE Drop
  BY <1>6, DropEffect DEF HandleRecords, tables, storage
<1> QED BY <1>1, <1>2, <1>3, <1>4, <1>5, <1>6 DEF Next, Drop

\* What InputsMatch says of one input and one run.
InputMatches(r, i) ==
    /\ i \in worker[r].pending \/ Awaited(r, i) # {} =>
          tag[i] = r /\ pc[i] \notin {"new", "plan", "offer"}
    /\ Awaited(r, i) # {} => i \notin users /\ i \notin worker[r].pending
    /\ \A k, l \in Awaited(r, i) : k = l
    /\ i \in users => i \notin worker[r].pending

\* InputsMatch, input by input and run by run.
LEMMA InputsByRun ==
    InputsMatch <=> \A i \in Dispatches :
                        /\ \A r \in Runs : InputMatches(r, i)
                        /\ i \in users => pc[i] \notin {"new", "plan", "offer"}
BY DEF InputsMatch, InputMatches

\* A worker that stays as it is keeps its inputs.
LEMMA InputKept ==
    ASSUME NEW r \in Runs, NEW i \in Dispatches, InputMatches(r, i), worker'[r] = worker[r],
           i \in users' => i \in users \/ (i \notin worker[r].pending /\ Awaited(r, i) = {}),
           tag'[i] = tag[i] \/ pc[i] \in {"new", "plan", "offer"},
           pc[i] \notin {"new", "plan", "offer"} => pc'[i] \notin {"new", "plan", "offer"}
    PROVE  InputMatches(r, i)'
<1>1. Awaited(r, i)' = Awaited(r, i)
  BY DEF Awaited
<1> QED BY <1>1 DEF InputMatches

\* A message that is not about a new input changes none that is awaited.
LEMMA AwaitedKept ==
    ASSUME TypeOK, NEW r \in Runs, NEW i, NEW c \in Commands, c # [do |-> "queue", input |-> i],
           Told(worker[r].queue, worker'[r].queue, c)
    PROVE  Awaited(r, i)' = Awaited(r, i)
<1> DEFINE q == worker[r].queue
           more == worker'[r].queue
<1>1. PICK n : /\ n \notin DOMAIN q /\ DOMAIN more = DOMAIN q \cup {n} /\ more[n] = c
               /\ \A k \in DOMAIN q : more[k] = q[k]
  BY DEF Told
<1>2. /\ Awaited(r, i) = {k \in DOMAIN q : q[k] = [do |-> "queue", input |-> i]}
      /\ Awaited(r, i)' = {k \in DOMAIN more : more[k] = [do |-> "queue", input |-> i]}
  BY DEF Awaited
<1> HIDE DEF q, more
<1> QED BY <1>1, <1>2

\* A message to a worker keeps its inputs, and an input that is offered for the first
\* time is awaited by the worker of the run that it is marked with.
LEMMA InputSent ==
    ASSUME TypeOK, NEW s \in Runs \cup {NoRun}, NEW c \in Commands, worker' = Send(s, c),
           NEW r \in Runs, NEW i \in Dispatches, InputMatches(r, i),
           UNCHANGED users, i \in users => pc[i] \notin {"new", "plan", "offer"},
           \/ /\ c # [do |-> "queue", input |-> i]
              /\ tag'[i] = tag[i]
              /\ pc[i] \notin {"new", "plan", "offer"} => pc'[i] \notin {"new", "plan", "offer"}
           \/ /\ c = [do |-> "queue", input |-> i] /\ pc[i] = "offer" /\ pc'[i] = "asked"
              /\ s # NoRun => tag'[i] = s
    PROVE  InputMatches(r, i)'
<1>1. /\ worker'[r].pending = worker[r].pending
      /\ worker'[r] = worker[r] \/ (r = s /\ Told(worker[r].queue, worker'[r].queue, c))
  BY SendEffect
<1>2. CASE worker'[r] = worker[r]
  BY <1>2, InputKept
<1>3. CASE r = s /\ Told(worker[r].queue, worker'[r].queue, c) /\ c # [do |-> "queue", input |-> i]
  <2>1. Awaited(r, i)' = Awaited(r, i)
    BY <1>3, AwaitedKept
  <2> QED BY <1>1, <1>3, <2>1 DEF InputMatches
<1>4. CASE r = s /\ Told(worker[r].queue, worker'[r].queue, c) /\ c = [do |-> "queue", input |-> i]
  <2> DEFINE q == worker[r].queue
             more == worker'[r].queue
  <2>1. PICK n : /\ n \notin DOMAIN q /\ DOMAIN more = DOMAIN q \cup {n} /\ more[n] = c
                 /\ \A k \in DOMAIN q : more[k] = q[k]
    BY <1>4 DEF Told
  <2>2. i \notin worker[r].pending /\ Awaited(r, i) = {} /\ i \notin users
    BY <1>4 DEF InputMatches
  <2>3. \A k \in DOMAIN q : q[k] # c
    BY <1>4, <2>2 DEF Awaited
  <2>4. \A k \in DOMAIN more : more[k] = c => k = n
    BY <2>1, <2>3
  <2>5. Awaited(r, i)' = {k \in DOMAIN more : more[k] = c}
    BY <1>4 DEF Awaited
  <2>6. tag'[i] = r /\ pc'[i] = "asked"
    <3>1. r # NoRun
      BY RunAssumption DEF Runs
    <3> QED BY <1>4, <3>1
  <2> HIDE DEF q, more
  <2> QED BY <1>1, <2>2, <2>4, <2>5, <2>6 DEF InputMatches
<1> QED BY <1>1, <1>2, <1>3, <1>4

\* What a worker takes from its pending inputs and what it leaves, by command.
LEMMA TakenEffect ==
    ASSUME NEW c \in Commands, NEW pending, NEW taken \in Taken(c, pending)
    PROVE  /\ taken \subseteq pending
           /\ c.do \in {"queue", "finish", "abort"} => taken = {}
           /\ c.do = "queue" => Left(c, taken, pending) = pending \cup {c.input}
           /\ c.do # "queue" => Left(c, taken, pending) = pending \ taken
BY DEF Taken, Left

\* A worker that takes a command keeps its own inputs matched.
LEMMA InputTaken ==
    ASSUME TypeOK, NEW r \in Runs, WorkerTakes(r), NEW i \in Dispatches, InputMatches(r, i)
    PROVE  InputMatches(r, i)'
<1> DEFINE q == worker[r].queue
           c == Head(q)
           pending == worker[r].pending
           this == [do |-> "queue", input |-> i]
<1>1. /\ q \in Seq(Commands) /\ q # <<>>
      /\ worker'[r].queue = Tail(q) /\ UNCHANGED <<pc, tag>>
  BY TakesEffect DEF dispatches
<1>2. PICK taken \in Taken(c, pending) :
        /\ worker'[r].pending = Left(c, taken, pending)
        /\ users' = IF c.do = "ack" THEN users \cup taken ELSE users
  BY TakesEffect
<1>3. /\ c \in Commands /\ 1 \in DOMAIN q /\ q[1] = c
      /\ \A k \in DOMAIN Tail(q) :
            k + 1 \in DOMAIN q /\ k + 1 # 1 /\ k \in Nat /\ Tail(q)[k] = q[k + 1]
  BY <1>1, Shortened
<1>4. /\ Awaited(r, i) = {k \in DOMAIN q : q[k] = this}
      /\ Awaited(r, i)' = {k \in DOMAIN Tail(q) : Tail(q)[k] = this}
  BY <1>1 DEF Awaited
<1>5. \A k, l \in Awaited(r, i)' : k + 1 \in Awaited(r, i) /\ k + 1 # 1 /\ k = l
  <2> SUFFICES ASSUME NEW k \in Awaited(r, i)', NEW l \in Awaited(r, i)'
               PROVE  k + 1 \in Awaited(r, i) /\ k + 1 # 1 /\ k = l
    OBVIOUS
  <2> HIDE DEF q, c, this
  <2>1. /\ k + 1 \in Awaited(r, i) /\ k + 1 # 1 /\ k \in Nat
        /\ l + 1 \in Awaited(r, i) /\ l \in Nat
    BY <1>3, <1>4
  <2>2. k + 1 = l + 1
    BY <2>1 DEF InputMatches
  <2> QED BY <2>1, <2>2
<1>6. /\ taken \subseteq pending
      /\ c.do \in {"queue", "finish", "abort"} => taken = {}
      /\ c.do = "queue" => Left(c, taken, pending) = pending \cup {c.input}
      /\ c.do # "queue" => Left(c, taken, pending) = pending \ taken
  BY <1>3, TakenEffect
<1>7. CASE c = this
  <2>1. 1 \in Awaited(r, i) /\ c.do = "queue" /\ c.input = i
    BY <1>3, <1>4, <1>7
  <2> HIDE DEF q, c, this, pending
  <2>2. Awaited(r, i)' = {}
    BY <1>5, <2>1 DEF InputMatches
  <2>3. i \notin users' /\ tag'[i] = r /\ pc'[i] \notin {"new", "plan", "offer"}
    BY <1>1, <1>2, <2>1 DEF InputMatches
  <2> QED BY <2>2, <2>3 DEF InputMatches
<1>8. CASE c # this
  <2>1. c.do = "queue" => c.input # i
    BY <1>3, <1>8, CommandInput
  <2> HIDE DEF q, c, this
  <2>2. i \in worker'[r].pending => i \in pending /\ i \notin taken
    BY <1>2, <1>6, <2>1
  <2>3. Awaited(r, i)' # {} => Awaited(r, i) # {}
    BY <1>5
  <2>4. i \in users' => i \in users \/ i \in taken
    BY <1>2
  <2> QED BY <1>1, <1>5, <1>6, <2>2, <2>3, <2>4 DEF InputMatches
<1> QED BY <1>7, <1>8

\* An input goes to one worker, once.
LEMMA InputsStep ==
    ASSUME TypeOK, RunsMatch, InputsMatch, [Next]_vars
    PROVE  InputsMatch'
<1> USE DEF Runs
<1> DEFINE Early == {"new", "plan", "offer"}
<1>a. \A i \in Dispatches : /\ \A r \in Runs : InputMatches(r, i)
                            /\ i \in users => pc[i] \notin Early
  BY InputsByRun
<1>b. (\A i \in Dispatches : (\A r \in Runs : InputMatches(r, i)') /\ (i \in users' => pc'[i] \notin Early))
         => InputsMatch'
  BY DEF InputsMatch, InputMatches
<1>c. NoRun \notin Runs /\ handle \in Runs \cup {NoRun} /\ tag \in [Dispatches -> Runs \cup {NoRun}]
  BY RunAssumption DEF TypeOK
<1>d. ASSUME UNCHANGED <<worker, users, tag, pc>> PROVE InputsMatch'
  BY <1>d DEF InputsMatch, Awaited
<1>1. ASSUME NEW d \in Dispatches, Dispatch(d) PROVE InputsMatch'
  <2>0. /\ pc[d] \notin {"started", "queued", "refused"}
        /\ \A x \in Dispatches : x # d => pc'[x] = pc[x] /\ tag'[x] = tag[x]
        /\ UNCHANGED <<record, users>>
        /\ \/ Starts(d)
           \/ UNCHANGED <<index, tasks, handle, task>> /\ (Queues(d) \/ Drops(d) \/ Moves(d))
    BY <1>1, DispatchEffect
  <2>1. \A i \in Dispatches : pc[i] \notin Early => pc'[i] \notin Early
    BY <2>0 DEF Starts, Queues, Drops, Moves
  <2>2. \A i \in Dispatches : i \in users' => pc'[i] \notin Early
    BY <1>a, <2>0, <2>1
  <2>3. CASE Starts(d)
    <3>1. /\ \A x \in Runs : x # d => worker'[x] = worker[x]
          /\ worker'[d].queue = <<>> /\ worker'[d].pending = {}
      BY <2>3, StartsEffect
    <3>2. ASSUME NEW i \in Dispatches, NEW r \in Runs PROVE InputMatches(r, i)'
      <4>1. CASE r = d
        <5>1. Awaited(r, i)' = {} /\ worker'[r].pending = {}
          BY <3>1, <4>1 DEF Awaited
        <5> QED BY <5>1 DEF InputMatches
      <4>2. CASE r # d
        BY <1>a, <2>0, <2>1, <2>3, <3>1, <4>2, InputKept DEF Starts
      <4> QED BY <4>1, <4>2
    <3> QED BY <1>b, <2>2, <3>2
  <2>4. CASE Queues(d)
    <3> DEFINE c == [do |-> "queue", input |-> d]
    <3>1. c \in Commands /\ c.input = d /\ worker' = Send(handle, c)
          /\ pc[d] = "offer" /\ pc'[d] = "asked" /\ tag'[d] \in Planned
      BY <2>4, CommandsAre DEF Queues
    <3>2. handle # NoRun => tag'[d] = handle
      BY <3>1 DEF Planned
    <3>3. ASSUME NEW i \in Dispatches, NEW r \in Runs PROVE InputMatches(r, i)'
      <4>1. InputMatches(r, i) /\ (i \in users => pc[i] \notin Early)
        BY <1>a
      <4>2. CASE i = d
        <5> HIDE <3>2, <2>1
        <5>1. c = [do |-> "queue", input |-> i] /\ pc[i] = "offer" /\ pc'[i] = "asked"
              /\ (handle # NoRun => tag'[i] = handle)
          BY <3>1, <3>2, <4>2
        <5> QED BY <1>c, <2>0, <3>1, <4>1, <5>1, InputSent
      <4>3. CASE i # d
        <5>1. /\ c # [do |-> "queue", input |-> i] /\ tag'[i] = tag[i]
              /\ pc[i] \notin Early => pc'[i] \notin Early
          BY <2>0, <3>1, <4>3
        <5> HIDE DEF c
        <5> QED BY <1>c, <2>0, <3>1, <4>1, <5>1, InputSent
      <4> QED BY <4>2, <4>3
    <3> QED BY <1>b, <2>2, <3>3
  <2>5. CASE Drops(d)
    <3> DEFINE c == [do |-> "drop", input |-> d]
    <3>1. c \in Commands /\ c.do = "drop" /\ worker' = Send(tag[d], c) /\ UNCHANGED tag
      BY <2>5, CommandsAre DEF Drops
    <3>2. tag[d] \in Runs \cup {NoRun} /\ \A i : c # [do |-> "queue", input |-> i]
      BY <1>c
    <3>3. ASSUME NEW i \in Dispatches, NEW r \in Runs PROVE InputMatches(r, i)'
      <4>1. InputMatches(r, i) /\ (i \in users => pc[i] \notin Early)
        BY <1>a
      <4> HIDE DEF c
      <4> QED BY <2>0, <2>1, <3>1, <3>2, <4>1, InputSent
    <3> QED BY <1>b, <2>2, <3>3
  <2>6. CASE Moves(d)
    <3>1. ASSUME NEW i \in Dispatches, NEW r \in Runs PROVE InputMatches(r, i)'
      BY <1>a, <2>0, <2>1, <2>6, InputKept DEF Moves
    <3> QED BY <1>b, <2>2, <3>1
  <2> QED BY <2>0, <2>3, <2>4, <2>5, <2>6
<1>2. ASSUME NEW r \in Runs, Task(r) \/ Worker(r) \/ ProviderAcks(r) \/ TaskFinalizes(r)
      PROVE  InputsMatch'
  <2>0. UNCHANGED <<pc, tag>>
    BY <1>2, RunEffect
  <2>1. CASE UNCHANGED <<worker, users>>
    BY <1>d, <2>0, <2>1
  <2>2. ASSUME NEW c \in Commands, c.do # "queue", worker' = Send(r, c), UNCHANGED users
        PROVE  InputsMatch'
    <3>1. ASSUME NEW i \in Dispatches, NEW x \in Runs PROVE InputMatches(x, i)'
      <4>1. InputMatches(x, i) /\ (i \in users => pc[i] \notin Early)
        BY <1>a
      <4>2. c # [do |-> "queue", input |-> i]
        BY <2>2
      <4> QED BY <2>0, <2>2, <4>1, <4>2, InputSent
    <3> QED BY <1>a, <1>b, <2>0, <2>2, <3>1
  <2>3. CASE \E i \in Dispatches : worker' = Send(r, [do |-> "ack", input |-> i]) /\ UNCHANGED users
    <3>1. PICK i \in Dispatches : worker' = Send(r, [do |-> "ack", input |-> i]) /\ UNCHANGED users
      BY <2>3
    <3>2. [do |-> "ack", input |-> i] \in Commands /\ [do |-> "ack", input |-> i].do # "queue"
      BY CommandsAre
    <3> QED BY <2>2, <3>1, <3>2
  <2>4. CASE worker' = Send(r, [do |-> "finish"]) /\ UNCHANGED users
    <3>1. [do |-> "finish"] \in Commands /\ [do |-> "finish"].do # "queue"
      BY CommandsAre
    <3> QED BY <2>2, <2>4, <3>1
  <2>5. CASE WorkerTakes(r)
    <3>1. /\ \A x \in Runs : x # r => worker'[x] = worker[x]
          /\ \A i \in Dispatches : i \in users' => i \in users \/ i \in worker[r].pending
      <4>1. worker[r].queue \in Seq(Commands) /\ worker[r].queue # <<>>
        BY <2>5, TakesEffect
      <4>2. Head(worker[r].queue) \in Commands
        BY <4>1, Shortened
      <4>3. \A x \in Runs : x # r => worker'[x] = worker[x]
        BY <2>5, TakesEffect
      <4>4. PICK taken \in Taken(Head(worker[r].queue), worker[r].pending) :
              users' = IF Head(worker[r].queue).do = "ack" THEN users \cup taken ELSE users
        BY <2>5, TakesEffect
      <4>5. taken \subseteq worker[r].pending
        BY <4>2, TakenEffect
      <4> QED BY <4>3, <4>4, <4>5
    <3>2. ASSUME NEW i \in Dispatches, NEW x \in Runs PROVE InputMatches(x, i)'
      <4>1. CASE x = r
        BY <1>a, <2>5, <4>1, InputTaken
      <4>2. CASE x # r
        <5>1. i \in users' => i \in users \/ (i \notin worker[x].pending /\ Awaited(x, i) = {})
          BY <1>a, <3>1, <4>2 DEF InputMatches
        <5> QED BY <1>a, <2>0, <3>1, <4>2, <5>1, InputKept
      <4> QED BY <4>1, <4>2
    <3>3. \A i \in Dispatches : i \in users' => pc'[i] \notin Early
      BY <1>a, <2>0, <3>1 DEF InputMatches
    <3> QED BY <1>b, <3>2, <3>3
  <2>6. CASE WorkerCloses(r)
    <3>1. /\ \A x \in Runs : x # r => worker'[x] = worker[x]
          /\ worker'[r].queue = <<>> /\ worker'[r].pending = {} /\ UNCHANGED users
      BY <2>6, ClosesEffect
    <3>2. ASSUME NEW i \in Dispatches, NEW x \in Runs PROVE InputMatches(x, i)'
      <4>1. CASE x = r
        <5>1. Awaited(x, i)' = {} /\ worker'[x].pending = {}
          BY <3>1, <4>1 DEF Awaited
        <5> QED BY <5>1 DEF InputMatches
      <4>2. CASE x # r
        BY <1>a, <2>0, <3>1, <4>2, InputKept
      <4> QED BY <4>1, <4>2
    <3> QED BY <1>a, <1>b, <2>0, <3>1, <3>2
  <2> QED BY <1>2, <2>1, <2>3, <2>4, <2>5, <2>6, RunWorkerEffect DEF storage
<1>3. ASSUME NEW p \in Aborters, Abort(p) PROVE InputsMatch'
  <2>0. /\ UNCHANGED <<pc, tag, users>>
        /\ UNCHANGED <<handle, worker>> \/ worker' = Send(handle, [do |-> "abort"])
    BY <1>3, AbortRunEffect
  <2>1. CASE worker' = Send(handle, [do |-> "abort"])
    <3> DEFINE c == [do |-> "abort"]
    <3>1. c \in Commands /\ \A i : c # [do |-> "queue", input |-> i]
      <4>1. c.do = "abort"
        OBVIOUS
      <4> HIDE DEF c
      <4>2. \A i : c # [do |-> "queue", input |-> i]
        BY <4>1
      <4> QED BY <4>2, CommandsAre DEF c
    <3>2. ASSUME NEW i \in Dispatches, NEW x \in Runs PROVE InputMatches(x, i)'
      <4>1. InputMatches(x, i) /\ (i \in users => pc[i] \notin Early)
        BY <1>a
      <4> HIDE DEF c
      <4> QED BY <1>c, <2>0, <2>1, <3>1, <4>1, InputSent DEF c
    <3> QED BY <1>a, <1>b, <2>0, <3>2
  <2>2. CASE UNCHANGED worker
    BY <1>d, <2>0, <2>2
  <2> QED BY <2>0, <2>1, <2>2
<1>4. CASE Stop \/ DrainStarts \/ DrainSweeps \/ DrainEnds \/ DrainWaits
  BY <1>4, <1>d, RequestEffect DEF dispatches, storage
<1>5. CASE UNCHANGED vars
  BY <1>5, <1>d DEF vars, dispatches, storage
<1>6. CASE Drop
  <2>1. UNCHANGED <<worker, users, tag>> /\ \A i \in Dispatches : pc[i] \notin Early => pc'[i] \notin Early
    BY <1>6, DropEffect DEF storage
  <2>2. ASSUME NEW i \in Dispatches, NEW r \in Runs PROVE InputMatches(r, i)'
    BY <1>a, <2>1, <2>2, InputKept
  <2> QED BY <1>a, <1>b, <2>1, <2>2
<1> QED BY <1>1, <1>2, <1>3, <1>4, <1>5, <1>6 DEF Next, Drop

\* Acknowledged input is not pending, whichever worker saves the record.
LEMMA GhostStep ==
    ASSUME TypeOK, InputsMatch, InputsMatch', NoGhostInput, [Next]_vars
    PROVE  NoGhostInput'
<1> USE DEF Runs
<1>a. ASSUME UNCHANGED <<record, users>> PROVE NoGhostInput'
  BY <1>a DEF NoGhostInput
<1>1. ASSUME NEW d \in Dispatches, Dispatch(d) PROVE NoGhostInput'
  BY <1>1, <1>a, DispatchEffect
<1>2. ASSUME NEW r \in Runs, Task(r) \/ Worker(r) \/ ProviderAcks(r) \/ TaskFinalizes(r)
      PROVE  NoGhostInput'
  <2>1. CASE UNCHANGED <<record, users>>
    BY <1>a, <2>1
  <2>2. CASE record' = Saved(r, {}, "none") /\ UNCHANGED users
    BY <2>2 DEF Saved, NoGhostInput
  <2>3. CASE WorkerTakes(r)
    <3> DEFINE c == Head(worker[r].queue)
               pending == worker[r].pending
    <3>1. c \in Commands
      <4>1. worker[r].queue \in Seq(Commands) /\ worker[r].queue # <<>>
        BY <2>3, TakesEffect
      <4> QED BY <4>1, Shortened
    <3>2. PICK taken \in Taken(c, pending) :
            /\ users' = IF c.do = "ack" THEN users \cup taken ELSE users
            /\ record' = IF c.do = "finish" \/ (c.do = "drop" /\ taken = {}) THEN record
                         ELSE Saved(r, worker'[r].pending, "queued")
      BY <2>3, TakesEffect
    <3>3. taken \subseteq pending
      BY <3>1, TakenEffect
    <3> SUFFICES ASSUME NEW i \in Dispatches, i \in users'
                 PROVE  record'[i] = "none"
      BY DEF NoGhostInput
    <3>4. i \in users => record[i] = "none"
      BY DEF NoGhostInput
    <3>5. i \notin worker'[r].pending
      BY DEF InputsMatch
    <3>6. i \notin users => i \in pending /\ c.do = "ack"
      BY <3>2, <3>3
    <3>7. i \notin users => tag[i] = r
      BY <3>6 DEF InputsMatch
    <3> HIDE DEF c, pending
    <3>8. CASE c.do = "finish" \/ (c.do = "drop" /\ taken = {})
      BY <3>2, <3>4, <3>6, <3>8
    <3>9. CASE ~(c.do = "finish" \/ (c.do = "drop" /\ taken = {}))
      <4>1. record' = Saved(r, worker'[r].pending, "queued")
        BY <3>2, <3>9
      <4> QED BY <3>4, <3>5, <3>7, <4>1 DEF Saved
    <3> QED BY <3>8, <3>9
  <2>4. CASE WorkerCloses(r)
    <3>1. record' = Saved(r, worker[r].pending, "abandoned") /\ UNCHANGED users
      BY <2>4, ClosesEffect
    <3> SUFFICES ASSUME NEW i \in Dispatches, i \in users
                 PROVE  record'[i] = "none"
      BY <3>1 DEF NoGhostInput
    <3>2. record[i] = "none" /\ i \notin worker[r].pending
      BY DEF NoGhostInput, InputsMatch
    <3> QED BY <3>1, <3>2 DEF Saved
  <2> QED BY <1>2, <2>1, <2>2, <2>3, <2>4, RunWorkerEffect DEF storage
<1>3. ASSUME NEW p \in Aborters, Abort(p) PROVE NoGhostInput'
  BY <1>3, <1>a, AbortRunEffect
<1>4. CASE Stop \/ DrainStarts \/ DrainSweeps \/ DrainEnds \/ DrainWaits
  BY <1>4, <1>a, RequestEffect DEF storage
<1>5. CASE UNCHANGED vars
  BY <1>5, <1>a DEF vars, storage
<1>6. CASE Drop
  BY <1>6, <1>a, DropEffect DEF storage
<1> QED BY <1>1, <1>2, <1>3, <1>4, <1>5, <1>6 DEF Next, Drop

\* A run loses the handle only because it ends or is aborted.
LEMMA HandleStaysStep ==
    ASSUME TypeOK, [Next]_vars, NEW r \in Runs, handle = r, handle' = NoRun
    PROVE  task'[r] # "provider" \/ \E p \in Aborters : abort'[p].run = r
<1> USE DEF Runs
<1>a. r # NoRun
  BY RunAssumption
<1>1. ASSUME NEW d \in Dispatches PROVE ~Dispatch(d)
  BY <1>a, RunAssumption, DispatchEffect DEF Starts
<1>2. ASSUME NEW x \in Runs, Task(x) \/ Worker(x) \/ ProviderAcks(x) \/ TaskFinalizes(x)
      PROVE  task'[r] # "provider"
  BY <1>2, <1>a, RunEffect
<1>3. ASSUME NEW p \in Aborters, Abort(p) PROVE abort'[p].run = r
  BY <1>3, <1>a, AbortRunEffect
<1>4. ~(Stop \/ DrainStarts \/ DrainSweeps \/ DrainEnds \/ DrainWaits)
  BY <1>a, RequestEffect DEF tables
<1>5. ~UNCHANGED vars
  BY <1>a DEF vars, tables
<1>6. ~Drop
  BY <1>a, DropEffect DEF tables
<1> QED BY <1>1, <1>2, <1>3, <1>4, <1>5, <1>6 DEF Next, Drop

-----------------------------------------------------------------------------
(* Theorems.                                                               *)

\* The invariant holds initially.
LEMMA InitInvariant == ASSUME Init PROVE BridgeInvariant /\ NoGhostInput
<1>1. \A r \in Runs : worker[r] = NoWorker /\ worker[r].queue = <<>> /\ worker[r].pending = {}
  BY NoWorkerIs DEF Init
<1>2. RunsMatch
  BY <1>1, NoAbortExcept DEF Init, RunsMatch, Alive, Executing, Runs, Aborters
<1>3. InputsMatch
  BY <1>1 DEF Init, InputsMatch, Awaited
<1> QED
  BY <1>2, <1>3, InitType
  DEF Init, BridgeInvariant, IndexedHasTask, HandleRecords, TaskIsTracked, DrainedIsQuiet,
      Alive, Executing, NoGhostInput

\* Every step keeps the invariant.
LEMMA InvariantStep ==
    ASSUME BridgeInvariant, NoGhostInput, [Next]_vars
    PROVE  BridgeInvariant' /\ NoGhostInput'
<1> USE DEF BridgeInvariant
<1>1. InputsMatch'
  BY InputsStep
<1> QED
  BY <1>1, TypeStep, RunsStep, IndexStep, HandleStep, TrackedStep, QuietStep, GhostStep

\* The tables, the tasks, the drain, the handle and the inputs of the bridge agree in
\* every state: an indexed run can be aborted, no task escapes its table, and the drain
\* of a deletion returns only when nothing of the thread runs or can begin.
THEOREM BridgeAgrees == Spec => []BridgeInvariant
<1>1. BridgeInvariant /\ NoGhostInput /\ [Next]_vars => (BridgeInvariant /\ NoGhostInput)'
  BY InvariantStep
<1> QED BY <1>1, InitInvariant, PTL DEF Spec

\* Input that the transcript shows as a user row is not pending in the thread record as
\* well, whichever of the workers of the thread saves it in which order.
THEOREM AcknowledgedNotPending == Spec => []NoGhostInput
<1>1. BridgeInvariant /\ NoGhostInput /\ [Next]_vars => (BridgeInvariant /\ NoGhostInput)'
  BY InvariantStep
<1> QED BY <1>1, InitInvariant, PTL DEF Spec

\* The handle of a run is taken away only by its own end, its abort, or a successor.
THEOREM HandleIsKept == Spec => HandleStays
<1>1. TypeOK /\ [Next]_vars =>
        [\A r \in Runs :
            handle = r /\ handle' = NoRun =>
               task'[r] # "provider" \/ \E p \in Aborters : abort'[p].run = r]_vars
  BY HandleStaysStep
<1> QED BY <1>1, TypeCorrect, PTL DEF Spec, HandleStays
=============================================================================
