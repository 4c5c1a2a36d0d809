------------------------- MODULE QuotaRecovery_proof -------------------------
(***************************************************************************)
(* Proofs about QuotaRecovery: a generation is continued at most once, one *)
(* job is active, and a settled job stays settled, for any senders and any *)
(* number of blocked runs, restarts and errors.                            *)
(***************************************************************************)
EXTENDS QuotaRecovery, FiniteSetTheorems, SequenceTheorems, TLAPS

-----------------------------------------------------------------------------
(* The job table.                                                          *)

\* One active job, that of the newest generation, of a table.
OneActive(jobs) ==
    \A m, n \in Generations : jobs[m].state # "none" /\ jobs[n].state \in Active => m <= n

\* What every write of the job table but a claim keeps.
Kept(jobs, next) ==
    /\ next \in [Generations -> Job]
    /\ \A n \in Generations :
          /\ jobs[n].state \in {"delivered", "superseded"} => next[n].state = jobs[n].state
          /\ next[n].state = "claimed" => jobs[n].state = "claimed" /\ next[n].token = jobs[n].token
    /\ OneActive(jobs) => OneActive(next)

\* The number of runs is a number.
LEMMA MaxRunsIs == MaxRuns \in Nat /\ Cardinality(Senders) \in Nat
<1>1. Cardinality(Senders) \in Nat
  BY SendersAssumption, FS_CardinalityType
<1> QED BY <1>1, BoundsAssumption DEF MaxRuns

\* A job that is closed, retried or registered is a job.
LEMMA JobIs ==
    ASSUME NEW j \in Job
    PROVE  /\ NoJob \in Job /\ NoJob.state = "none"
           /\ \A s \in {"delivered", "superseded", "waiting"} :
                 Closed(s, j) \in Job /\ Closed(s, j).state = s
           /\ \A v \in {"deliver", "supersede", "retry"} :
                 /\ Outcome(v, j) \in Job
                 /\ Outcome(v, j).state \in {"delivered", "superseded", "waiting"}
           /\ \A t \in {"never", "later", "now"} :
                 /\ [NoJob EXCEPT !.state = "waiting", !.due = t] \in Job
                 /\ [NoJob EXCEPT !.state = "waiting", !.due = t].state = "waiting"
                 /\ [j EXCEPT !.due = t] \in Job /\ [j EXCEPT !.due = t].state = j.state
BY DEF Job, NoJob, Closed, Outcome

\* So is a job that is claimed.
LEMMA JobClaimed ==
    ASSUME NEW j \in Job
    PROVE  LET c == [j EXCEPT !.state = "claimed", !.attempts = @ + 1, !.token = j.attempts + 1] IN
           c \in Job /\ c.state = "claimed" /\ c.token = j.attempts + 1
<1> DEFINE a == [j EXCEPT !.state = "claimed"]
           b == [a EXCEPT !.attempts = @ + 1]
           c == [b EXCEPT !.token = j.attempts + 1]
<1>1. a \in Job /\ a.state = "claimed" /\ a.attempts = j.attempts /\ j.attempts \in Nat
  BY DEF Job
<1>2. c = [j EXCEPT !.state = "claimed", !.attempts = @ + 1, !.token = j.attempts + 1]
  OBVIOUS
<1> HIDE DEF a
<1>3. b \in Job /\ b.state = "claimed"
  BY <1>1 DEF Job
<1> HIDE DEF b
<1>4. c \in Job /\ c.state = "claimed" /\ c.token = j.attempts + 1
  BY <1>1, <1>3 DEF Job
<1> HIDE DEF c
<1> QED BY <1>2, <1>4

\* Writes follow one another.
LEMMA KeptKept ==
    ASSUME NEW a, NEW b, NEW c, Kept(a, b), Kept(b, c)
    PROVE  Kept(a, c)
BY DEF Kept

\* Nothing is written.
LEMMA KeptSame == ASSUME NEW jobs \in [Generations -> Job] PROVE Kept(jobs, jobs)
BY DEF Kept

\* A message or a newer generation supersedes what is active.
LEMMA SupersedeKept ==
    ASSUME NEW jobs \in [Generations -> Job]
    PROVE  /\ Kept(jobs, Supersede(jobs))
           /\ \A n \in Generations : /\ Supersede(jobs)[n].state \notin Active
                                     /\ Supersede(jobs)[n].state = "none" => jobs[n].state = "none"
                                     /\ jobs[n].state = "none" => Supersede(jobs)[n] = jobs[n]
<1>1. \A n \in Generations :
        /\ Closed("superseded", jobs[n]) \in Job
        /\ Closed("superseded", jobs[n]).state = "superseded"
  <2>1. ASSUME NEW n \in Generations PROVE jobs[n] \in Job
    OBVIOUS
  <2>2. \A j \in Job : Closed("superseded", j) \in Job /\ Closed("superseded", j).state = "superseded"
    BY JobIs
  <2> QED BY <2>1, <2>2
<1> QED BY <1>1 DEF Kept, OneActive, Supersede, Active

\* A generation is registered once, and only if none that is newer was.
LEMMA RegisteredKept ==
    ASSUME NEW jobs \in [Generations -> Job], NEW n \in Generations
    PROVE  Kept(jobs, Registered(n, jobs))
<1>1. CASE \E m \in Generations : m >= n /\ jobs[m].state # "none"
  BY <1>1, KeptSame DEF Registered
<1>2. CASE ~ \E m \in Generations : m >= n /\ jobs[m].state # "none"
  <2> DEFINE new == [NoJob EXCEPT !.state = "waiting",
                                  !.due = IF runs[n].status = "limited" THEN "later" ELSE "never"]
             old == Supersede(jobs)
  <2>1. new \in Job /\ new.state = "waiting"
    BY JobIs
  <2>2. /\ old \in [Generations -> Job]
        /\ \A k \in Generations :
              /\ jobs[k].state \in {"delivered", "superseded"} => old[k].state = jobs[k].state
              /\ old[k].state \notin Active
              /\ jobs[k].state = "none" => old[k].state = "none"
    BY SupersedeKept DEF Kept
  <2>3. Registered(n, jobs) = [old EXCEPT ![n] = new]
    BY <1>2 DEF Registered
  <2>4. jobs[n].state = "none" /\ n \in Int
    BY <1>2, MaxRunsIs DEF Generations
  <2>5. \A k \in Generations : k \in Int /\ (k >= n => jobs[k].state = "none")
    BY <1>2, MaxRunsIs DEF Generations
  <2> HIDE DEF new, old
  <2>6. /\ Registered(n, jobs) \in [Generations -> Job]
        /\ Registered(n, jobs)[n] = new
        /\ \A k \in Generations : k # n => Registered(n, jobs)[k] = old[k]
    BY <2>1, <2>2, <2>3
  <2>7. OneActive(Registered(n, jobs))
    <3> SUFFICES ASSUME NEW k \in Generations, NEW l \in Generations,
                        Registered(n, jobs)[k].state # "none",
                        Registered(n, jobs)[l].state \in Active
                 PROVE  k <= l
      BY DEF OneActive
    <3>1. l = n
      BY <2>2, <2>6
    <3>2. k = n \/ jobs[k].state # "none"
      BY <2>2, <2>6
    <3> QED BY <2>4, <2>5, <3>1, <3>2
  <2> QED BY <2>1, <2>2, <2>4, <2>6, <2>7 DEF Kept, Active
<1> QED BY <1>1, <1>2

\* A job that waits is due at once.
LEMMA ExpeditedKept ==
    ASSUME NEW jobs \in [Generations -> Job], NEW gens
    PROVE  Kept(jobs, Expedited(gens, jobs))
<1>1. \A n \in Generations :
        /\ [jobs[n] EXCEPT !.due = "now"] \in Job
        /\ [jobs[n] EXCEPT !.due = "now"].state = jobs[n].state
  BY JobIs
<1>2. \A n \in Generations :
        /\ Expedited(gens, jobs)[n] \in Job
        /\ Expedited(gens, jobs)[n].state = jobs[n].state
        /\ jobs[n].state = "claimed" => Expedited(gens, jobs)[n] = jobs[n]
  BY <1>1 DEF Expedited
<1>3. Expedited(gens, jobs) \in [Generations -> Job]
  BY <1>2 DEF Expedited
<1> QED BY <1>2, <1>3 DEF Kept, OneActive

\* The time of a job comes.
LEMMA ElapsedKept ==
    ASSUME NEW jobs \in [Generations -> Job], NEW n \in Generations, jobs[n].state = "waiting"
    PROVE  Kept(jobs, [jobs EXCEPT ![n].due = "now"])
<1> DEFINE j == [jobs[n] EXCEPT !.due = "now"]
<1>1. j \in Job /\ j.state = "waiting"
  BY JobIs
<1>2. [jobs EXCEPT ![n].due = "now"] = [jobs EXCEPT ![n] = j]
  OBVIOUS
<1> HIDE DEF j
<1> QED BY <1>1, <1>2 DEF Kept, OneActive, Active

\* A claimed job is closed, or waits again.
LEMMA UnclaimedKept ==
    ASSUME NEW jobs \in [Generations -> Job], NEW n \in Generations, jobs[n].state = "claimed",
           NEW j \in Job, j.state \in {"delivered", "superseded", "waiting"}
    PROVE  Kept(jobs, [jobs EXCEPT ![n] = j])
BY DEF Kept, OneActive, Active

\* The claims of a process that died wait again.
LEMMA ReclaimedKept ==
    ASSUME NEW jobs \in [Generations -> Job]
    PROVE  /\ Kept(jobs, Reclaimed(jobs))
           /\ \A n \in Generations : Reclaimed(jobs)[n].state # "claimed"
<1>1. \A n \in Generations :
        /\ [jobs[n] EXCEPT !.state = "waiting", !.due = "now", !.token = 0] \in Job
        /\ [jobs[n] EXCEPT !.state = "waiting", !.due = "now", !.token = 0].state = "waiting"
  BY DEF Job
<1>2. \A n \in Generations :
        /\ Reclaimed(jobs)[n] \in Job
        /\ jobs[n].state = "claimed" => Reclaimed(jobs)[n].state = "waiting"
        /\ jobs[n].state # "claimed" => Reclaimed(jobs)[n] = jobs[n]
  BY <1>1 DEF Reclaimed
<1>3. Reclaimed(jobs) \in [Generations -> Job]
  BY <1>2 DEF Reclaimed
<1> HIDE DEF Reclaimed
<1> QED BY <1>2, <1>3 DEF Kept, OneActive, Active

\* What a start keeps: all but the settled rows that it deletes.
KeptBut(gens, jobs, next) ==
    /\ next \in [Generations -> Job]
    /\ \A n \in Generations : n \notin gens /\ jobs[n].state \in Settled => next[n].state = jobs[n].state
    /\ OneActive(jobs) => OneActive(next)

\* Settled rows are deleted.
LEMMA PrunedKept ==
    ASSUME NEW jobs \in [Generations -> Job], NEW gens
    PROVE  /\ KeptBut(gens, jobs, Pruned(gens, jobs))
           /\ \A n \in Generations : jobs[n].state # "claimed" => Pruned(gens, jobs)[n].state # "claimed"
<1>1. \A n \in Generations :
        /\ Pruned(gens, jobs)[n] \in Job
        /\ Pruned(gens, jobs)[n].state = "none" \/ Pruned(gens, jobs)[n] = jobs[n]
        /\ n \notin gens => Pruned(gens, jobs)[n] = jobs[n]
  <2> SUFFICES ASSUME NEW n \in Generations
               PROVE  /\ Pruned(gens, jobs)[n] \in Job
                      /\ Pruned(gens, jobs)[n].state = "none" \/ Pruned(gens, jobs)[n] = jobs[n]
                      /\ n \notin gens => Pruned(gens, jobs)[n] = jobs[n]
    OBVIOUS
  <2>1. Pruned(gens, jobs)[n] = IF n \in gens THEN NoJob ELSE jobs[n]
    BY DEF Pruned
  <2>2. NoJob \in Job /\ NoJob.state = "none" /\ jobs[n] \in Job
    BY DEF NoJob, Job
  <2> QED BY <2>1, <2>2
<1>2. Pruned(gens, jobs) \in [Generations -> Job]
  BY <1>1 DEF Pruned
<1> HIDE DEF Pruned
<1> QED BY <1>1, <1>2 DEF KeptBut, OneActive, Active

-----------------------------------------------------------------------------
(* The runs of the thread.                                                 *)

\* b tells what a tells: every run, who started it, and how it ended.
Tells(a, b) ==
    /\ b \in Seq(Run) /\ Len(b) >= Len(a)
    /\ \A i \in 1 .. Len(a) : /\ b[i].by = a[i].by /\ b[i].of = a[i].of
                              /\ a[i].status # "live" => b[i].status = a[i].status

\* The runs of a transcript that stopped at the quota.
LimitedIn(a) == {n \in 1 .. Len(a) : a[n].status \in Limited}

\* One run of them is written.
LEMMA RunWritten ==
    ASSUME NEW a \in Seq(Run), NEW n \in 1 .. Len(a), NEW r \in Run
    PROVE  /\ [a EXCEPT ![n] = r] \in Seq(Run) /\ Len([a EXCEPT ![n] = r]) = Len(a)
           /\ [a EXCEPT ![n] = r][n] = r
           /\ \A i \in 1 .. Len(a) : i # n => [a EXCEPT ![n] = r][i] = a[i]
BY ExceptSeq

\* A run that is live ends.
LEMMA EndedTells ==
    ASSUME NEW a \in Seq(Run), Len(a) > 0, a[Len(a)].status = "live",
           NEW s \in {"done", "limited", "limited_unarmed"}
    PROVE  LET b == [a EXCEPT ![Len(a)].status = s] IN
           /\ Tells(a, b) /\ Len(b) = Len(a)
           /\ LimitedIn(b) = IF s \in Limited THEN LimitedIn(a) \cup {Len(a)} ELSE LimitedIn(a)
<1>1. PICK n \in 1 .. Len(a) : n = Len(a)
  OBVIOUS
<1>a. a[n] \in Run
  BY <1>1
<1> DEFINE r == [a[n] EXCEPT !.status = s]
           b == [a EXCEPT ![n] = r]
<1>2. r \in Run /\ r.by = a[n].by /\ r.of = a[n].of /\ r.status = s
  BY <1>a DEF Run
<1>3. [a EXCEPT ![Len(a)].status = s] = b
  BY <1>1
<1> HIDE DEF r
<1>4. /\ b \in Seq(Run) /\ Len(b) = Len(a) /\ b[n] = r
      /\ \A i \in 1 .. Len(a) : i # n => b[i] = a[i]
  BY <1>2, RunWritten
<1> HIDE DEF b
<1>5. Tells(a, b)
  BY <1>1, <1>2, <1>4 DEF Tells
<1>6. LimitedIn(b) = IF s \in Limited THEN LimitedIn(a) \cup {n} ELSE LimitedIn(a)
  <2>1. a[n].status \notin Limited
    BY <1>1 DEF Limited
  <2> QED BY <1>2, <1>4, <2>1 DEF LimitedIn
<1> QED BY <1>1, <1>3, <1>4, <1>5, <1>6

\* A run starts.
LEMMA StartedTells ==
    ASSUME NEW a \in Seq(Run), NEW r \in Run, r.status = "live"
    PROVE  LET b == Append(a, r) IN
           /\ Tells(a, b) /\ Len(b) = Len(a) + 1 /\ b[Len(b)] = r
           /\ LimitedIn(b) = LimitedIn(a)
<1> DEFINE b == Append(a, r)
<1>1. /\ b \in Seq(Run) /\ Len(b) = Len(a) + 1 /\ b[Len(b)] = r /\ Len(a) \in Nat
      /\ \A i \in 1 .. Len(a) : b[i] = a[i]
  OBVIOUS
<1> HIDE DEF b
<1>2. Tells(a, b)
  BY <1>1 DEF Tells
<1>3. LimitedIn(b) = LimitedIn(a)
  <2>1. r.status \notin Limited
    BY DEF Limited
  <2> QED BY <1>1, <2>1 DEF LimitedIn
<1> QED BY <1>1, <1>2, <1>3 DEF b

\* What is told stays told.
LEMMA TellsTells ==
    ASSUME NEW a \in Seq(Run), NEW b, NEW c, Tells(a, b), Tells(b, c)
    PROVE  Tells(a, c)
<1>1. Len(a) \in Nat /\ Len(b) \in Nat /\ Len(c) \in Nat
  BY DEF Tells
<1> QED BY <1>1 DEF Tells

\* What a step does to the runs: none, the last one ends, a sender's starts after
\* it, or the continue of the worker's generation does.
LEMMA RunsEffect ==
    ASSUME TypeOK, WorkerKnows, Newest > 0, [Next]_vars
    PROVE  /\ Tells(runs, runs')
           /\ \/ /\ Newest' = Newest
                 /\ \/ LimitedIn(runs') = LimitedIn(runs)
                    \/ /\ LimitedIn(runs') = LimitedIn(runs) \cup {Newest}
                       /\ Cardinality(LimitedRuns) < MaxBlocked
              \/ /\ Newest' = Newest + 1 /\ LimitedIn(runs') = LimitedIn(runs)
                 /\ \/ /\ runs'[Newest'].by # "continue"
                       /\ SendersDone' # SendersDone
                    \/ /\ Execute /\ worker'.pc = "account"
                       /\ runs'[Newest'].by = "continue" /\ runs'[Newest'].of = worker.gen
           /\ SendersDone \subseteq SendersDone'
<1>a. runs \in Seq(Run) /\ Newest = Len(runs) /\ MaxRuns \in Nat
  BY MaxRunsIs DEF TypeOK, Newest
<1>b. Tells(runs, runs)
  BY <1>a DEF Tells
<1>c. IsLive => Tells(runs, Aborted) /\ Len(Aborted) = Len(runs) /\ LimitedIn(Aborted) = LimitedIn(runs)
  BY <1>a, EndedTells DEF IsLive, Aborted, Newest, Limited
<1>d. \A by \in {"user", "other"} : [by |-> by, of |-> 0, status |-> "live"] \in Run
  BY <1>a DEF Run
<1>e. ASSUME UNCHANGED runs, SendersDone \subseteq SendersDone'
      PROVE  /\ Tells(runs, runs') /\ Newest' = Newest /\ LimitedIn(runs') = LimitedIn(runs)
             /\ SendersDone \subseteq SendersDone'
  BY <1>b, <1>e DEF Newest
<1>f. UNCHANGED turn => SendersDone' = SendersDone
  BY DEF SendersDone
<1>g. ASSUME NEW u \in Senders, turn[u].step # "done", turn' = [turn EXCEPT ![u] = Done]
      PROVE  SendersDone \subseteq SendersDone' /\ SendersDone' # SendersDone
  <2>1. turn'[u].step = "done" /\ \A v \in Senders : v # u => turn'[v] = turn[v]
    BY <1>g DEF TypeOK, Done, Idle
  <2> QED BY <1>g, <2>1 DEF SendersDone
<1>h. ASSUME NEW u \in Senders, turn[u].step # "done", turn' = [turn EXCEPT ![u] = Done],
             NEW by \in {"user", "other"}, NEW base \in {runs, Aborted}, base = runs \/ IsLive,
             runs' = Append(base, [by |-> by, of |-> 0, status |-> "live"])
      PROVE  /\ Tells(runs, runs') /\ Newest' = Newest + 1 /\ LimitedIn(runs') = LimitedIn(runs)
             /\ runs'[Newest'].by # "continue"
             /\ SendersDone \subseteq SendersDone' /\ SendersDone' # SendersDone
  <2> DEFINE r == [by |-> by, of |-> 0, status |-> "live"]
  <2>1. r \in Run /\ r.status = "live" /\ r.by # "continue"
    BY <1>d
  <2>2. /\ base \in Seq(Run) /\ Tells(runs, base) /\ Len(base) = Len(runs)
        /\ LimitedIn(base) = LimitedIn(runs)
    BY <1>a, <1>b, <1>c, <1>h DEF Tells
  <2>3. runs' = Append(base, r)
    BY <1>h
  <2> HIDE DEF r
  <2>4. /\ Tells(base, runs') /\ Len(runs') = Len(base) + 1 /\ runs'[Len(runs')] = r
        /\ LimitedIn(runs') = LimitedIn(base)
    BY <2>1, <2>2, <2>3, StartedTells
  <2>5. Tells(runs, runs')
    BY <1>a, <2>2, <2>4, TellsTells
  <2> QED BY <1>g, <1>h, <2>1, <2>2, <2>4, <2>5 DEF Newest
<1>1. CASE RunEnds
  <2>1. PICK s \in {"done"} \cup Limited :
          /\ s \in Limited => Cardinality(LimitedRuns) < MaxBlocked
          /\ runs' = [runs EXCEPT ![Newest].status = s]
    BY <1>1 DEF RunEnds
  <2>2. s \in {"done", "limited", "limited_unarmed"} /\ runs[Len(runs)].status = "live" /\ Len(runs) > 0
    BY <1>1 DEF RunEnds, Limited, IsLive, Newest
  <2>3. runs' = [runs EXCEPT ![Len(runs)].status = s]
    BY <2>1 DEF Newest
  <2>4. /\ Tells(runs, runs') /\ Len(runs') = Len(runs)
        /\ LimitedIn(runs') = IF s \in Limited THEN LimitedIn(runs) \cup {Len(runs)} ELSE LimitedIn(runs)
    BY <1>a, <2>2, <2>3, EndedTells
  <2>5. SendersDone' = SendersDone
    BY <1>1, <1>f DEF RunEnds
  <2> QED BY <2>1, <2>4, <2>5 DEF Newest
<1>2. CASE \E u \in Senders : TurnPlans(u)
  <2>1. PICK u \in Senders : TurnPlans(u)
    BY <1>2
  <2>2. turn[u].step = "idle" /\ \A v \in Senders : v # u => turn'[v] = turn[v]
    BY <2>1 DEF TurnPlans, TypeOK, Idle
  <2>3. SendersDone \subseteq SendersDone'
    BY <2>2 DEF SendersDone
  <2> QED BY <1>e, <2>1, <2>3 DEF TurnPlans, durable
<1>3. CASE \E u \in Senders : TurnAdmits(u)
  <2>1. PICK u \in Senders : TurnAdmits(u)
    BY <1>3
  <2>2. turn[u].step = "planned" /\ \A v \in Senders : v # u => turn'[v] = turn[v]
    BY <2>1 DEF TurnAdmits, TypeOK
  <2>3. SendersDone \subseteq SendersDone'
    BY <2>2 DEF SendersDone
  <2> QED BY <1>e, <2>1, <2>3 DEF TurnAdmits
<1>4. CASE \E u \in Senders : TurnRuns(u)
  <2>1. PICK u \in Senders : TurnRuns(u)
    BY <1>4
  <2>2. turn[u].step # "done" /\ turn' = [turn EXCEPT ![u] = Done] /\ turn[u].plan \in Plans
    BY <2>1 DEF TurnRuns, TypeOK, TurnSteps
  <2>3. CASE turn[u].plan = "start"
    <3>1. runs' = Append(runs, [by |-> "user", of |-> 0, status |-> "live"])
      BY <2>1, <2>3 DEF TurnRuns, Started
    <3> QED BY <1>h, <2>2, <3>1
  <2>4. CASE turn[u].plan = "queue"
    BY <1>e, <1>g, <2>1, <2>2, <2>4 DEF TurnRuns
  <2>5. CASE turn[u].plan = "replace"
    <3>1. runs' = Append(IF IsLive THEN Aborted ELSE runs, [by |-> "user", of |-> 0, status |-> "live"])
      BY <2>1, <2>5 DEF TurnRuns
    <3> QED BY <1>h, <2>2, <3>1
  <2> QED BY <2>2, <2>3, <2>4, <2>5 DEF Plans
<1>5. CASE \E u \in Senders : OtherStarts(u)
  <2>1. PICK u \in Senders : OtherStarts(u)
    BY <1>5
  <2>2. turn[u].step # "done" /\ turn' = [turn EXCEPT ![u] = Done]
    BY <2>1 DEF OtherStarts, Idle
  <2>3. runs' = Append(IF IsLive THEN Aborted ELSE runs, [by |-> "other", of |-> 0, status |-> "live"])
    BY <2>1 DEF OtherStarts
  <2> QED BY <1>h, <2>2, <2>3
<1>6. CASE Execute
  <2>1. CASE UNCHANGED runs
    BY <1>6, <1>e, <1>f, <2>1 DEF Execute
  <2>2. CASE runs' = Started("continue", worker.gen) /\ Goto("account")
    <3> DEFINE r == [by |-> "continue", of |-> worker.gen, status |-> "live"]
    <3>1. r \in Run /\ r.status = "live" /\ r.by = "continue" /\ r.of = worker.gen
      BY <1>a DEF TypeOK, Worker, Run
    <3>2. runs' = Append(runs, r)
      BY <2>2 DEF Started
    <3> HIDE DEF r
    <3>3. /\ Tells(runs, runs') /\ Len(runs') = Len(runs) + 1 /\ runs'[Len(runs')] = r
          /\ LimitedIn(runs') = LimitedIn(runs)
      BY <1>a, <3>1, <3>2, StartedTells
    <3>4. worker'.pc = "account"
      BY <2>2 DEF Goto, TypeOK, Worker
    <3> QED BY <1>6, <1>f, <3>1, <3>3, <3>4 DEF Execute, Newest
  <2> QED BY <1>6, <2>1, <2>2 DEF Execute
<1>7. CASE Restart
  <2>1. Tells(runs, runs') /\ Len(runs') = Len(runs) /\ LimitedIn(runs') = LimitedIn(runs)
    BY <1>7, <1>b, <1>c DEF Restart
  <2>2. SendersDone \subseteq SendersDone'
    BY <1>7 DEF Restart, SendersDone, Idle, Done
  <2> QED BY <2>1, <2>2 DEF Newest
<1>8. ASSUME UNCHANGED <<runs, turn>>
      PROVE  /\ Tells(runs, runs') /\ Newest' = Newest /\ LimitedIn(runs') = LimitedIn(runs)
             /\ SendersDone \subseteq SendersDone'
  BY <1>8, <1>e, <1>f
<1>9. CASE \/ Project \/ Lag \/ Switch \/ Retry \/ UNCHANGED vars
           \/ \E n \in Generations : Elapse(n) \/ WakeGeneration(n)
  BY <1>8, <1>9
  DEF Project, Lag, Switch, Retry, Elapse, WakeGeneration, vars, durable
<1>10. CASE Claim \/ Sleep \/ Wake \/ Check \/ Read \/ Plan \/ Insert \/ Handoff \/ Account \/ Settle
  BY <1>8, <1>10
  DEF Claim, Sleep, Wake, Check, Read, Plan, Insert, Handoff, Account, Settle, durable
<1> QED
  BY <1>1, <1>2, <1>3, <1>4, <1>5, <1>6, <1>7, <1>9, <1>10 DEF Next, Work

-----------------------------------------------------------------------------
(* What a step does to the other tables.                                   *)

\* The newest run is a number, and a generation if there is one.
LEMMA NewestIs ==
    ASSUME TypeOK
    PROVE  /\ Newest \in 0 .. MaxRuns /\ MaxRuns \in Nat
           /\ Newest > 0 => Newest \in Generations
           /\ Blocked # 0 => Blocked = Newest
           /\ Blocked \in LimitedRuns \cup {0}
<1>1. Newest \in Nat /\ Newest <= MaxRuns /\ MaxRuns \in Nat
  BY MaxRunsIs DEF TypeOK, Newest
<1>2. Blocked # 0 => Newest # 0
  BY DEF Blocked
<1>3. CASE Newest = 0
  <2>1. Blocked \in {0, Newest}
    BY DEF Blocked
  <2> QED BY <1>1, <1>3, <2>1
<1>4. CASE Newest # 0
  BY <1>1, <1>4 DEF Blocked, LimitedRuns, Generations
<1> QED BY <1>3, <1>4

\* The repair of the projection is a registration.
LEMMA RepairedKept ==
    ASSUME TypeOK, NEW jobs \in [Generations -> Job]
    PROVE  Kept(jobs, Repaired(jobs))
<1>1. CASE Blocked = 0
  BY <1>1, KeptSame DEF Repaired
<1>2. CASE Blocked # 0
  <2>1. Blocked \in Generations
    BY <1>2, NewestIs DEF Generations
  <2> QED BY <1>2, <2>1, RegisteredKept DEF Repaired
<1> QED BY <1>1, <1>2

\* A start takes the claims back, deletes old rows and repairs the projection.
LEMMA RestartKept ==
    ASSUME TypeOK, Restart
    PROVE  /\ KeptBut(pruned', job, job') /\ pruned' \subseteq Generations
           /\ \A n \in Generations : job'[n].state # "claimed"
<1> DEFINE back == Reclaimed(job)
           kept == Pruned(pruned', back)
<1>1. job \in [Generations -> Job]
  BY DEF TypeOK
<1>2. Kept(job, back) /\ \A n \in Generations : back[n].state # "claimed"
  BY <1>1, ReclaimedKept
<1>3. back \in [Generations -> Job]
  BY <1>2 DEF Kept
<1>4. job' = Repaired(kept) \/ job' = kept
  BY DEF Restart
<1>5. pruned' \subseteq Generations
  BY DEF Restart
<1> HIDE DEF back
<1>6. KeptBut(pruned', back, kept) /\ \A n \in Generations : kept[n].state # "claimed"
  BY <1>2, <1>3, PrunedKept
<1>7. kept \in [Generations -> Job]
  BY <1>6 DEF KeptBut
<1> HIDE DEF kept
<1>8. Kept(kept, job')
  BY <1>4, <1>7, KeptSame, RepairedKept
<1>9. KeptBut(pruned', job, job')
  BY <1>2, <1>6, <1>8 DEF Kept, KeptBut, Settled
<1>10. \A n \in Generations : job'[n].state # "claimed"
  BY <1>6, <1>8 DEF Kept
<1> QED BY <1>5, <1>9, <1>10

\* The job that the worker takes up.
Taken(n) ==
    /\ worker.pc = "scan" /\ worker'.gen = n
    /\ job[n].state = "waiting" /\ job'[n].state = "claimed" /\ worker'.token = job'[n].token
    /\ job' \in [Generations -> Job]
    /\ \A m \in Generations : m # n => job'[m] = job[m]

\* A claim takes up a job that waits.
LEMMA ClaimTakes ==
    ASSUME TypeOK, Claim
    PROVE  /\ \E n \in Generations : Taken(n)
           /\ OneActive(job) => OneActive(job')
<1>1. PICK n \in Due :
        /\ job' = [job EXCEPT ![n].state = "claimed", ![n].attempts = @ + 1,
                              ![n].token = job[n].attempts + 1]
        /\ worker' = [Scanning EXCEPT !.pc = "check", !.gen = n, !.token = job[n].attempts + 1]
  BY DEF Claim
<1>2. n \in Generations /\ job[n].state = "waiting"
  BY DEF Due, Deadlines
<1> DEFINE j == [job[n] EXCEPT !.state = "claimed", !.attempts = @ + 1,
                           !.token = job[n].attempts + 1]
<1>3. job[n] \in Job
  BY <1>2 DEF TypeOK
<1>4. j \in Job /\ j.state = "claimed" /\ j.token = job[n].attempts + 1
  BY <1>3, JobClaimed
<1>5. job' = [job EXCEPT ![n] = j]
  BY <1>1
<1>6. worker'.gen = n /\ worker'.token = job[n].attempts + 1
  BY <1>1 DEF Scanning
<1> HIDE DEF j
<1>7. /\ job' \in [Generations -> Job] /\ job'[n] = j
      /\ \A m \in Generations : m # n => job'[m] = job[m]
  BY <1>2, <1>4, <1>5 DEF TypeOK
<1>8. Taken(n)
  BY <1>2, <1>4, <1>6, <1>7 DEF Taken, Claim
<1>9. ASSUME OneActive(job) PROVE OneActive(job')
  BY <1>2, <1>4, <1>7, <1>9 DEF OneActive, Active
<1> QED BY <1>2, <1>8, <1>9

\* A step claims a job, or starts the process again, or keeps what is settled and
\* claimed.
LEMMA JobsEffect ==
    ASSUME TypeOK, WorkerKnows, [Next]_vars
    PROVE  /\ job' \in [Generations -> Job]
           /\ OneActive(job) => OneActive(job')
           /\ Kept(job, job') \/ Restart \/ \E n \in Generations : Taken(n)
<1>a. job \in [Generations -> Job]
  BY DEF TypeOK
<1>b. Kept(job, job') => /\ job' \in [Generations -> Job]
                         /\ OneActive(job) => OneActive(job')
  BY DEF Kept
<1>c. UNCHANGED job => Kept(job, job')
  BY <1>a, KeptSame
<1>1. CASE Claim
  BY <1>1, ClaimTakes DEF Taken
<1>2. CASE Project
  <2>1. Head(events) \in Generations
    BY <1>2 DEF Project, TypeOK
  <2> QED BY <1>2, <1>a, <1>b, <1>c, <2>1, RegisteredKept DEF Project
<1>3. CASE Switch
  BY <1>3, <1>a, <1>b, ExpeditedKept, RepairedKept DEF Switch
<1>4. CASE Retry
  <2>1. PICK jobs \in {job, Repaired(job)} : job' = Expedited(Generations, jobs)
    BY <1>4 DEF Retry
  <2>2. Kept(job, jobs)
    BY <1>a, KeptSame, RepairedKept
  <2>3. jobs \in [Generations -> Job]
    BY <2>2 DEF Kept
  <2>4. Kept(jobs, job')
    BY <2>1, <2>3, ExpeditedKept
  <2> QED BY <1>b, <2>2, <2>4, KeptKept
<1>5. CASE \E n \in Generations : Elapse(n)
  BY <1>5, <1>a, <1>b, ElapsedKept DEF Elapse
<1>6. CASE \E n \in Generations : WakeGeneration(n)
  BY <1>6, <1>a, <1>b, ExpeditedKept DEF WakeGeneration
<1>7. CASE \E u \in Senders : TurnAdmits(u)
  <2>1. Kept(job, Supersede(job))
    BY <1>a, SupersedeKept
  <2> QED BY <1>7, <1>b, <1>c, <2>1 DEF TurnAdmits
<1>8. ASSUME NEW j \in Job, j.state \in {"delivered", "superseded", "waiting"},
             worker.gen \in Generations, HoldsClaim, job' = [job EXCEPT ![worker.gen] = j]
      PROVE  Kept(job, job')
  BY <1>8, <1>a, UnclaimedKept DEF HoldsClaim
<1>d. worker.pc \notin {"scan", "sleep"} =>
        worker.gen \in Generations /\ job[worker.gen] \in Job
  <2>1. worker.gen \in 0 .. MaxRuns
    BY DEF TypeOK, Worker
  <2> QED BY <1>a, <2>1, MaxRunsIs DEF WorkerKnows, Generations
<1>9. CASE Plan
  <2>1. CASE UNCHANGED job
    BY <1>b, <1>c, <2>1
  <2>2. CASE HoldsClaim /\ job' = [job EXCEPT ![worker.gen] = Closed("superseded", @)]
    <3>1. worker.gen \in Generations /\ job[worker.gen] \in Job
      BY <1>9, <1>d DEF Plan
    <3> DEFINE j == Closed("superseded", job[worker.gen])
    <3>2. j \in Job /\ j.state = "superseded"
      BY <3>1, JobIs
    <3>3. job' = [job EXCEPT ![worker.gen] = j]
      BY <2>2
    <3> HIDE DEF j
    <3> QED BY <1>8, <1>b, <2>2, <3>1, <3>2, <3>3
  <2> QED BY <1>9, <2>1, <2>2 DEF Plan
<1>10. CASE Settle
  <2>1. CASE UNCHANGED job
    BY <1>b, <1>c, <2>1
  <2>2. CASE HoldsClaim /\ job' = [job EXCEPT ![worker.gen] = Outcome(worker.verdict, @)]
    <3>1. /\ worker.gen \in Generations /\ job[worker.gen] \in Job
          /\ worker.verdict \in {"deliver", "supersede", "retry"}
      BY <1>10, <1>d DEF Settle, TypeOK, Worker
    <3> DEFINE j == Outcome(worker.verdict, job[worker.gen])
    <3>2. j \in Job /\ j.state \in {"delivered", "superseded", "waiting"}
      BY <3>1, JobIs
    <3>3. job' = [job EXCEPT ![worker.gen] = j]
      BY <2>2
    <3> HIDE DEF j
    <3> QED BY <1>8, <1>b, <2>2, <3>1, <3>2, <3>3
  <2> QED BY <1>10, <2>1, <2>2 DEF Settle
<1>11. CASE Restart
  BY <1>11, RestartKept DEF KeptBut
<1>12. CASE Lag \/ RunEnds \/ UNCHANGED vars
            \/ \E u \in Senders : TurnPlans(u) \/ TurnRuns(u) \/ OtherStarts(u)
  BY <1>12, <1>b, <1>c DEF Lag, RunEnds, TurnPlans, TurnRuns, OtherStarts, vars, durable
<1>13. CASE Sleep \/ Wake \/ Check \/ Read \/ Insert \/ Handoff \/ Execute \/ Account
  BY <1>13, <1>b, <1>c
  DEF Sleep, Wake, Check, Read, Insert, Handoff, Execute, Account, durable
<1> QED
  BY <1>1, <1>2, <1>3, <1>4, <1>5, <1>6, <1>7, <1>9, <1>10, <1>11, <1>12, <1>13 DEF Next, Work

\* The row of an intent tells that it may have been handed off.
ToldAs == {"handoff_started", "accepted", "ambiguous"}

\* The worker keeps its generation and its claim, unless it has none yet, settles
\* it or dies.
LEMMA WorkerEffect ==
    ASSUME TypeOK, WorkerKnows, [Next]_vars
    PROVE  /\ failures' \in Nat /\ failures' >= failures
           /\ \/ worker'.gen = worker.gen /\ worker'.token = worker.token
              \/ worker.gen = 0
              \/ Settle
              \/ Restart
<1>a. worker \in Worker /\ failures \in Nat
  BY DEF TypeOK
<1>b. Fail => failures' \in Nat /\ failures' >= failures
  BY <1>a DEF Fail
<1>c. UNCHANGED failures => failures' \in Nat /\ failures' >= failures
  BY <1>a
<1>d. \A s : Goto(s) => worker'.gen = worker.gen /\ worker'.token = worker.token
  BY <1>a DEF Goto, Worker
<1>e. \A v : Conclude(v) => worker'.gen = worker.gen /\ worker'.token = worker.token
  BY <1>a DEF Conclude, Worker
<1>1. CASE Claim \/ Wake
  BY <1>1, <1>c DEF Claim, Wake, WorkerKnows, bounds
<1>2. CASE Sleep
  <2>1. PICK x \in {0, 1}, y \in {0, 1} : failures' = failures + x + y
    BY <1>2 DEF Sleep
  <2>2. worker'.gen = worker.gen /\ worker'.token = worker.token
    BY <1>2, <1>a DEF Sleep, Worker
  <2> QED BY <1>a, <2>1, <2>2
<1>3. CASE Check
  BY <1>3, <1>b, <1>c, <1>d, <1>e DEF Check
<1>4. CASE Read
  BY <1>4, <1>b, <1>c, <1>d, <1>e DEF Read
<1>5. CASE Plan
  BY <1>5, <1>c, <1>d, <1>e DEF Plan, bounds
<1>6. CASE Insert
  BY <1>6, <1>b, <1>c, <1>d, <1>e DEF Insert, GiveUp
<1>7. CASE Handoff
  BY <1>7, <1>b, <1>c, <1>d, <1>e DEF Handoff, GiveUp
<1>8. CASE Execute
  BY <1>8, <1>b, <1>c, <1>d, <1>e DEF Execute
<1>9. CASE Account
  BY <1>9, <1>b, <1>c, <1>d, <1>e DEF Account
<1>10. CASE Settle
  BY <1>10, <1>b, <1>c DEF Settle
<1>11. CASE Restart
  BY <1>11, <1>b, <1>c DEF Restart
<1>12. CASE Project \/ Lag
  BY <1>12, <1>b, <1>c DEF Project, Lag
<1>13. CASE \/ Switch \/ Retry \/ RunEnds \/ UNCHANGED vars
            \/ \E n \in Generations : Elapse(n) \/ WakeGeneration(n)
            \/ \E u \in Senders : TurnPlans(u) \/ TurnRuns(u) \/ OtherStarts(u)
  BY <1>13, <1>c
  DEF Switch, Retry, RunEnds, Elapse, WakeGeneration, TurnPlans, TurnRuns, OtherStarts,
      vars, durable, bounds
<1>14. CASE \E u \in Senders : TurnAdmits(u)
  BY <1>14, <1>b, <1>c DEF TurnAdmits
<1> QED
  BY <1>1, <1>2, <1>3, <1>4, <1>5, <1>6, <1>7, <1>8, <1>9, <1>10, <1>11, <1>12, <1>13, <1>14
  DEF Next, Work

\* A step of the others leaves the rows of the intents and the worker alone.
LEMMA OthersEffect ==
    ASSUME [Next]_vars
    PROVE  Work \/ Restart \/ UNCHANGED <<admission, worker>>
BY DEF Next, Work, Project, Lag, Switch, Retry, RunEnds, Elapse, WakeGeneration, TurnPlans,
       TurnAdmits, TurnRuns, OtherStarts, vars, durable

\* What has stopped at the quota stays so.
LEMMA LimitedGrows ==
    ASSUME TypeOK, WorkerKnows, Newest > 0, [Next]_vars
    PROVE  /\ LimitedRuns \subseteq LimitedRuns'
           /\ LimitedRuns = LimitedIn(runs) /\ LimitedRuns' = LimitedIn(runs')
<1>1. LimitedRuns = LimitedIn(runs) /\ LimitedRuns' = LimitedIn(runs')
  BY DEF LimitedRuns, LimitedIn, Newest
<1>2. LimitedIn(runs) \subseteq LimitedIn(runs')
  BY RunsEffect
<1> QED BY <1>1, <1>2

-----------------------------------------------------------------------------
(* The parts of the invariant, step by step.                               *)

\* What the worker knows of its generation still holds after every step.
LEMMA WorkerStep ==
    ASSUME TypeOK, WorkerKnows, Newest > 0, [Next]_vars
    PROVE  WorkerKnows'
<1> DEFINE g == worker.gen
<1>a. /\ worker \in Worker /\ LimitedRuns \subseteq LimitedRuns'
      /\ g \in 0 .. MaxRuns /\ MaxRuns \in Nat
  BY LimitedGrows, MaxRunsIs DEF TypeOK, Worker
<1>b. worker.pc \notin {"scan", "sleep"} => g # 0 /\ g \in Generations
  BY <1>a DEF WorkerKnows, Generations
<1>c. \A s : Goto(s) => worker'.pc = s /\ worker'.gen = g
  BY <1>a DEF Goto, Worker
<1>d. \A v : Conclude(v) => worker'.pc = "settle" /\ worker'.gen = g
  BY <1>a DEF Conclude, Worker
<1>e. g \in Generations =>
        \A a : admission' = [admission EXCEPT ![g] = a] => admission'[g] = a
  BY DEF TypeOK
<1>f. worker.pc \notin {"scan", "sleep"} /\ worker'.pc = "settle" /\ worker'.gen = g => WorkerKnows'
  BY <1>b DEF WorkerKnows
<1>g. worker' = Scanning => WorkerKnows'
  BY DEF Scanning, WorkerKnows
<1>1. CASE Claim
  <2>1. PICK n \in Generations : worker' = [Scanning EXCEPT !.pc = "check", !.gen = n, !.token = job[n].attempts + 1]
    BY <1>1 DEF Claim, Due, Deadlines
  <2>2. worker'.pc = "check" /\ worker'.gen = n /\ n # 0
    BY <2>1, <1>a DEF Scanning, Generations
  <2> QED BY <2>2 DEF WorkerKnows
<1>2. CASE Sleep
  <2>1. g = 0 /\ worker'.pc = "sleep" /\ worker'.gen = g
    BY <1>2, <1>a DEF Sleep, WorkerKnows, Worker
  <2> QED BY <2>1 DEF WorkerKnows
<1>3. CASE Wake \/ Settle \/ Restart
  BY <1>3, <1>g DEF Wake, Settle, Restart
<1>4. CASE Check
  <2>1. g # 0 /\ worker.pc \notin {"scan", "sleep"}
    BY <1>4, <1>b DEF Check
  <2>2. CASE Blocked = g /\ Goto("read")
    <3>1. g \in LimitedRuns'
      BY <2>1, <2>2, <1>a, NewestIs
    <3>2. worker'.pc = "read" /\ worker'.gen = g
      BY <2>2, <1>c
    <3> QED BY <2>1, <3>1, <3>2 DEF WorkerKnows
  <2>3. CASE \E v : Conclude(v)
    BY <2>1, <2>3, <1>d, <1>f
  <2> QED BY <1>4, <2>2, <2>3 DEF Check
<1>5. CASE Read
  <2>1. g # 0 /\ g \in LimitedRuns' /\ UNCHANGED admission
    BY <1>5, <1>a, <1>b DEF Read, WorkerKnows, durable
  <2>2. CASE admission[g] \in {"none", "admitted"} /\ Goto("plan")
    <3>1. worker'.pc = "plan" /\ worker'.gen = g
      BY <2>2, <1>c
    <3> QED BY <2>1, <2>2, <3>1 DEF WorkerKnows
  <2>3. CASE \E v : Conclude(v)
    BY <1>5, <2>3, <1>d, <1>f DEF Read
  <2> QED BY <1>5, <2>2, <2>3 DEF Read
<1>6. CASE Plan
  <2>1. /\ g # 0 /\ g \in LimitedRuns' /\ UNCHANGED admission
        /\ admission[g] \in {"none", "admitted"}
    BY <1>6, <1>a, <1>b DEF Plan, WorkerKnows
  <2>2. CASE Goto("insert")
    <3>1. worker'.pc = "insert" /\ worker'.gen = g
      BY <2>2, <1>c
    <3> QED BY <2>1, <3>1 DEF WorkerKnows
  <2>3. CASE \E v : Conclude(v)
    BY <1>6, <2>3, <1>d, <1>f DEF Plan
  <2> QED BY <1>6, <2>2, <2>3 DEF Plan
<1>7. CASE Insert
  <2>1. g # 0 /\ g \in LimitedRuns' /\ g \in Generations
    BY <1>7, <1>a, <1>b DEF Insert, WorkerKnows
  <2>2. CASE admission' = [admission EXCEPT ![g] = "admitted"] /\ Goto("handoff")
    <3>1. worker'.pc = "handoff" /\ worker'.gen = g /\ admission'[g] = "admitted"
      BY <2>1, <2>2, <1>c, <1>e
    <3> QED BY <2>1, <3>1 DEF WorkerKnows
  <2>3. CASE \E v : Conclude(v)
    BY <1>7, <2>3, <1>d, <1>f DEF Insert
  <2> QED BY <1>7, <2>2, <2>3 DEF Insert, GiveUp
<1>8. CASE Handoff
  <2>1. g # 0 /\ g \in LimitedRuns' /\ g \in Generations
    BY <1>8, <1>a, <1>b DEF Handoff, WorkerKnows
  <2>2. CASE admission' = [admission EXCEPT ![g] = "handoff_started"] /\ Goto("execute")
    <3>1. worker'.pc = "execute" /\ worker'.gen = g /\ admission'[g] = "handoff_started"
      BY <2>1, <2>2, <1>c, <1>e
    <3> QED BY <2>1, <3>1 DEF WorkerKnows
  <2>3. CASE \E v : Conclude(v)
    BY <1>8, <2>3, <1>d, <1>f DEF Handoff
  <2> QED BY <1>8, <2>2, <2>3 DEF Handoff, GiveUp
<1>9. CASE Execute
  <2>1. g # 0 /\ g \in LimitedRuns' /\ admission[g] = "handoff_started"
    BY <1>9, <1>a, <1>b DEF Execute, WorkerKnows
  <2>2. CASE UNCHANGED admission /\ Goto("account")
    <3>1. worker'.pc = "account" /\ worker'.gen = g
      BY <2>2, <1>c
    <3> QED BY <2>1, <2>2, <3>1 DEF WorkerKnows
  <2>3. CASE \E v : Conclude(v)
    BY <1>9, <2>3, <1>d, <1>f DEF Execute
  <2> QED BY <1>9, <2>2, <2>3 DEF Execute
<1>10. CASE Account
  <2>1. PICK v : Conclude(v)
    BY <1>10 DEF Account
  <2> QED BY <1>10, <2>1, <1>d, <1>f DEF Account
<1>11. CASE UNCHANGED <<admission, worker>>
  BY <1>11, <1>a DEF WorkerKnows
<1> QED
  BY <1>1, <1>2, <1>3, <1>4, <1>5, <1>6, <1>7, <1>8, <1>9, <1>10, <1>11, OthersEffect DEF Work

\* The rows of the intents tell what they told, and the worker executes only what
\* was not told.
LEMMA AdmissionEffect ==
    ASSUME TypeOK, WorkerKnows, Newest > 0, [Next]_vars
    PROVE  /\ \A n \in Generations : admission[n] \in ToldAs => admission'[n] \in ToldAs
           /\ worker'.pc = "execute" =>
                 \/ worker'.gen = worker.gen /\ worker.pc = "execute"
                 \/ /\ worker'.gen \in Generations
                    /\ admission[worker'.gen] \notin ToldAs
           /\ \A n \in Generations :
                 admission[n] = "none" /\ admission'[n] # "none" =>
                    Insert /\ n = worker.gen /\ HoldsClaim
<1> DEFINE g == worker.gen
<1>a. /\ worker \in Worker /\ g \in 0 .. MaxRuns /\ MaxRuns \in Nat
      /\ DOMAIN admission = Generations
  BY MaxRunsIs DEF TypeOK, Worker
<1>b. worker.pc \notin {"scan", "sleep"} => g # 0 /\ g \in Generations
  BY <1>a DEF WorkerKnows, Generations
<1>c. \A s : Goto(s) => worker'.pc = s /\ worker'.gen = g
  BY <1>a DEF Goto, Worker
<1>d. \A v : Conclude(v) => worker'.pc = "settle" /\ worker'.gen = g
  BY <1>a DEF Conclude, Worker
<1>1. CASE Claim \/ Sleep \/ Wake \/ Settle
  <2>1. UNCHANGED admission
    BY <1>1 DEF Claim, Sleep, Wake, Settle, durable
  <2>2. CASE Claim
    <3>1. PICK n : worker' = [Scanning EXCEPT !.pc = "check", !.gen = n, !.token = job[n].attempts + 1]
      BY <2>2 DEF Claim
    <3>2. worker'.pc = "check"
      BY <3>1 DEF Scanning
    <3> QED BY <1>a, <2>1, <3>2
  <2>3. CASE Sleep
    <3>1. worker'.pc = "sleep"
      BY <2>3, <1>a DEF Sleep, Worker
    <3> QED BY <1>a, <2>1, <3>1
  <2>4. CASE Wake \/ Settle
    <3>1. worker'.pc = "scan"
      BY <2>4 DEF Wake, Settle, Scanning
    <3> QED BY <1>a, <2>1, <3>1
  <2> QED BY <1>1, <2>2, <2>3, <2>4
<1>2. CASE Check \/ Read \/ Plan
  <2>1. UNCHANGED admission
    BY <1>2 DEF Check, Read, Plan, durable
  <2>2. worker'.pc # "execute"
    BY <1>2, <1>c, <1>d DEF Check, Read, Plan
  <2> QED BY <1>a, <2>1, <2>2
<1>3. CASE Insert
  <2>1. admission[g] \in {"none", "admitted"} /\ g \in Generations
    BY <1>3, <1>b DEF Insert, WorkerKnows
  <2>2. worker'.pc # "execute"
    BY <1>3, <1>c, <1>d DEF Insert, GiveUp
  <2>3. \/ UNCHANGED admission
        \/ /\ admission' = [admission EXCEPT ![g] = "admitted"]
           /\ admission[g] = "admitted" \/ HoldsClaim
    BY <1>3 DEF Insert
  <2> QED BY <1>3, <1>a, <2>1, <2>2, <2>3 DEF ToldAs
<1>4. CASE Handoff
  <2>1. admission[g] = "admitted" /\ g \in Generations
    BY <1>4, <1>b DEF Handoff, WorkerKnows
  <2>2. worker'.pc = "execute" => worker'.gen = g
    BY <1>4, <1>c, <1>d DEF Handoff, GiveUp
  <2>3. UNCHANGED admission \/ admission' = [admission EXCEPT ![g] = "handoff_started"]
    BY <1>4 DEF Handoff
  <2> QED BY <1>a, <2>1, <2>2, <2>3 DEF ToldAs
<1>5. CASE Execute
  <2>1. admission[g] = "handoff_started"
    BY <1>5, <1>b DEF Execute, WorkerKnows
  <2>2. worker'.pc # "execute"
    BY <1>5, <1>c, <1>d DEF Execute
  <2>3. UNCHANGED admission \/ admission' = [admission EXCEPT ![g] = "ambiguous"]
    BY <1>5 DEF Execute
  <2> QED BY <1>a, <2>1, <2>2, <2>3 DEF ToldAs
<1>6. CASE Account
  <2>1. admission[g] = "handoff_started"
    BY <1>6, <1>b DEF Account, WorkerKnows
  <2>2. worker'.pc # "execute"
    BY <1>6, <1>d DEF Account
  <2>3. UNCHANGED admission \/ admission' = [admission EXCEPT ![g] = "accepted"]
    BY <1>6 DEF Account
  <2> QED BY <1>a, <2>1, <2>2, <2>3 DEF ToldAs
<1>7. CASE Restart
  BY <1>7 DEF Restart, Scanning, ToldAs
<1>8. CASE UNCHANGED <<admission, worker>>
  BY <1>8
<1> QED
  BY <1>1, <1>2, <1>3, <1>4, <1>5, <1>6, <1>7, <1>8, OthersEffect DEF Work

\* A claimed job has its worker, unless a write failed.
LEMMA ClaimStep ==
    ASSUME TypeOK, WorkerKnows, ClaimIsHeld, [Next]_vars
    PROVE  ClaimIsHeld'
<1>a. failures \in Nat /\ failures' \in Nat /\ failures' >= failures
  BY WorkerEffect DEF TypeOK
<1> SUFFICES ASSUME NEW n \in Generations, Orphaned(n)'
             PROVE  failures' > 0
  BY DEF ClaimIsHeld
<1>b. job'[n].state = "claimed" /\ ~(worker'.gen = n /\ worker'.token = job'[n].token)
  BY DEF Orphaned
<1>c. n # 0
  BY MaxRunsIs DEF Generations
<1>d. Orphaned(n) => failures' > 0
  BY <1>a DEF ClaimIsHeld
<1>1. CASE Kept(job, job')
  <2>1. job[n].state = "claimed" /\ job'[n].token = job[n].token
    BY <1>1, <1>b DEF Kept
  <2>2. CASE (worker'.gen = worker.gen /\ worker'.token = worker.token) \/ worker.gen = 0
    BY <1>b, <1>c, <1>d, <2>1, <2>2 DEF Orphaned
  <2>3. CASE Settle /\ worker.gen = n /\ worker.token = job[n].token
    <3>1. CASE Fail
      BY <3>1, <1>a DEF Fail
    <3>2. CASE job' = IF HoldsClaim THEN [job EXCEPT ![worker.gen] = Outcome(worker.verdict, @)] ELSE job
      <4>1. HoldsClaim
        BY <2>1, <2>3 DEF HoldsClaim
      <4>2. job[n] \in Job /\ worker.verdict \in {"deliver", "supersede", "retry"} /\ DOMAIN job = Generations
        BY DEF TypeOK, Worker
      <4>3. job'[n] = Outcome(worker.verdict, job[n])
        BY <2>3, <3>2, <4>1, <4>2
      <4>4. job'[n].state # "claimed"
        BY <4>2, <4>3, JobIs
      <4> QED BY <4>4, <1>b
    <3> QED BY <2>3, <3>1, <3>2 DEF Settle
  <2>4. CASE Restart
    BY <1>b, <2>4, RestartKept
  <2>5. Settle => (worker.gen = n /\ worker.token = job[n].token) \/ failures' > 0
    BY <1>d, <2>1 DEF Orphaned
  <2> QED BY <2>2, <2>3, <2>4, <2>5, WorkerEffect
<1>2. CASE \E m \in Generations : Taken(m)
  <2>1. PICK m \in Generations : Taken(m)
    BY <1>2
  <2>2. m # n
    BY <1>b, <2>1 DEF Taken
  <2>3. job'[n] = job[n] /\ worker.gen = 0
    BY <2>1, <2>2 DEF Taken, WorkerKnows
  <2> QED BY <1>b, <1>c, <1>d, <2>3 DEF Orphaned
<1>3. CASE Restart
  BY <1>b, <1>3, RestartKept
<1> QED BY <1>1, <1>2, <1>3, JobsEffect

\* No second continue, and each is told.
LEMMA ContinueStep ==
    ASSUME TypeOK, WorkerKnows, ContinueIsTold, OneContinue, Newest > 0, [Next]_vars
    PROVE  ContinueIsTold' /\ OneContinue'
<1>a. /\ Newest \in Nat /\ LimitedRuns \subseteq LimitedRuns'
      /\ LimitedRuns \subseteq Generations
  <2>1. Newest \in 0 .. MaxRuns /\ MaxRuns \in Nat
    BY NewestIs
  <2> QED BY <2>1, LimitedGrows DEF LimitedRuns, Generations
<1>b. \A i \in 1 .. Newest : runs'[i].by = runs[i].by /\ runs'[i].of = runs[i].of
  BY RunsEffect DEF Tells, Newest
<1>c. ContinueIsTold = \A i \in 1 .. Newest :
        runs[i].by = "continue" =>
            /\ runs[i].of \in LimitedRuns
            /\ admission[runs[i].of] \in ToldAs
            /\ worker.pc = "execute" => runs[i].of # worker.gen
  BY DEF ContinueIsTold, ToldAs
<1>d. ASSUME NEW i \in 1 .. Newest, runs'[i].by = "continue"
      PROVE  /\ runs'[i].of \in LimitedRuns'
             /\ admission'[runs'[i].of] \in ToldAs
             /\ worker'.pc = "execute" => runs'[i].of # worker'.gen
  <2>1. /\ runs[i].by = "continue" /\ runs'[i].of = runs[i].of
        /\ runs[i].of \in LimitedRuns /\ runs[i].of \in Generations
        /\ admission[runs[i].of] \in ToldAs
        /\ worker.pc = "execute" => runs[i].of # worker.gen
    BY <1>a, <1>b, <1>c, <1>d
  <2>2. admission'[runs[i].of] \in ToldAs
    BY <2>1, AdmissionEffect
  <2>3. worker'.pc = "execute" => runs[i].of # worker'.gen
    BY <2>1, AdmissionEffect
  <2> QED BY <1>a, <2>1, <2>2, <2>3
<1>e. \A i, j \in 1 .. Newest :
        runs'[i].by = "continue" /\ runs'[j].by = "continue" /\ runs'[i].of = runs'[j].of => i = j
  BY <1>b DEF OneContinue
<1>1. CASE Newest' = Newest \/ (Newest' = Newest + 1 /\ runs'[Newest'].by # "continue")
  <2>1. \A i \in 1 .. Newest' : runs'[i].by = "continue" => i \in 1 .. Newest
    BY <1>1, <1>a
  <2>2. OneContinue'
    BY <2>1, <1>e DEF OneContinue
  <2>3. ContinueIsTold'
    BY <2>1, <1>d DEF ContinueIsTold, ToldAs
  <2> QED BY <2>2, <2>3
<1>2. CASE /\ Newest' = Newest + 1
           /\ Execute /\ worker'.pc = "account"
           /\ runs'[Newest'].by = "continue" /\ runs'[Newest'].of = worker.gen
  <2>1. worker.gen \in LimitedRuns /\ admission[worker.gen] \in ToldAs /\ worker.gen \in Generations
    BY <1>2, <1>a DEF Execute, WorkerKnows, ToldAs
  <2>2. worker.gen \in LimitedRuns' /\ admission'[worker.gen] \in ToldAs
    BY <1>a, <2>1, AdmissionEffect
  <2>3. \A i \in 1 .. Newest : runs'[i].by = "continue" => runs'[i].of # worker.gen
    BY <1>2, <1>b, <1>c DEF Execute
  <2>4. \A i \in 1 .. Newest' : i \in 1 .. Newest \/ i = Newest'
    BY <1>2, <1>a
  <2>5. OneContinue'
    BY <1>2, <1>e, <2>3, <2>4 DEF OneContinue
  <2>6. ContinueIsTold'
    BY <1>2, <1>d, <2>2, <2>4 DEF ContinueIsTold, ToldAs
  <2> QED BY <2>5, <2>6
<1> QED BY <1>1, <1>2, RunsEffect

\* The sets that bound the runs are finite.
LEMMA CountsFinite ==
    ASSUME NEW l \in Nat, NEW S \in SUBSET Senders, NEW L \in SUBSET (1 .. l), NEW C \in SUBSET L
    PROVE  /\ IsFiniteSet(S) /\ Cardinality(S) \in Nat
           /\ Cardinality(S) <= Cardinality(Senders)
           /\ IsFiniteSet(L) /\ Cardinality(L) \in Nat
           /\ IsFiniteSet(C) /\ Cardinality(C) \in Nat
           /\ Cardinality(C) <= Cardinality(L)
<1>1. IsFiniteSet(1 .. l)
  BY FS_Interval
<1>2. IsFiniteSet(L) /\ IsFiniteSet(S) /\ Cardinality(S) <= Cardinality(Senders)
  BY <1>1, SendersAssumption, FS_Subset
<1>3. IsFiniteSet(C) /\ Cardinality(C) <= Cardinality(L)
  BY <1>2, FS_Subset
<1> QED BY <1>2, <1>3, FS_CardinalityType

\* One more of them stays within the bound.
LEMMA OneMore ==
    ASSUME NEW S, NEW x, IsFiniteSet(S), NEW m \in Nat, Cardinality(S) < m
    PROVE  Cardinality(S \cup {x}) <= m
<1>1. Cardinality(S) \in Nat
  BY FS_CardinalityType
<1>2. Cardinality(S \cup {x}) = IF x \in S THEN Cardinality(S) ELSE Cardinality(S) + 1
  BY FS_AddElement, Zenon
<1> QED BY <1>1, <1>2

\* Every run has its cause.
LEMMA CountStep ==
    ASSUME TypeOK, WorkerKnows, ContinueIsTold, RunsCounted, [Next]_vars
    PROVE  RunsCounted'
<1>a. Newest > 0 /\ Newest \in Nat /\ Newest' \in Nat
  <2>1. Newest > 0 /\ Newest \in 0 .. MaxRuns /\ MaxRuns \in Nat
    BY NewestIs DEF RunsCounted
  <2>2. Newest' = Newest \/ Newest' = Newest + 1
    BY <2>1, RunsEffect
  <2> QED BY <2>1, <2>2
<1>b. /\ IsFiniteSet(SendersDone) /\ Cardinality(SendersDone) \in Nat
      /\ IsFiniteSet(LimitedRuns) /\ Cardinality(LimitedRuns) \in Nat
      /\ IsFiniteSet(Continued) /\ Cardinality(Continued) \in Nat
  <2>1. SendersDone \subseteq Senders /\ Continued \subseteq LimitedRuns
        /\ LimitedRuns \subseteq 1 .. Newest
    BY DEF SendersDone, Continued, LimitedRuns
  <2> QED BY <1>a, <2>1, CountsFinite
<1>c. /\ IsFiniteSet(SendersDone') /\ Cardinality(SendersDone') \in Nat
      /\ IsFiniteSet(LimitedRuns') /\ Cardinality(LimitedRuns') \in Nat
      /\ IsFiniteSet(Continued') /\ Cardinality(Continued') \in Nat
  <2>1. SendersDone' \subseteq Senders /\ Continued' \subseteq LimitedRuns'
        /\ LimitedRuns' \subseteq 1 .. Newest'
    BY DEF SendersDone, Continued, LimitedRuns
  <2> QED BY <1>a, <2>1, CountsFinite
<1>d. /\ LimitedRuns \subseteq LimitedRuns'
      /\ LimitedRuns = LimitedIn(runs) /\ LimitedRuns' = LimitedIn(runs')
  BY <1>a, LimitedGrows
<1>e. \A i \in 1 .. Newest : /\ i \in 1 .. Newest'
                             /\ runs'[i].by = runs[i].by /\ runs'[i].of = runs[i].of
  BY <1>a, RunsEffect DEF Tells, Newest
<1>1. Cardinality(SendersDone) <= Cardinality(SendersDone')
  <2>1. SendersDone \subseteq SendersDone'
    BY <1>a, RunsEffect
  <2> QED BY <1>c, <2>1, FS_Subset
<1>2. Continued \subseteq Continued'
  <2> SUFFICES ASSUME NEW n \in Continued PROVE n \in Continued'
    OBVIOUS
  <2>1. PICK i \in 1 .. Newest : runs[i].by = "continue" /\ runs[i].of = n
    BY DEF Continued
  <2>2. n \in LimitedRuns'
    BY <1>d DEF Continued
  <2>3. i \in 1 .. Newest' /\ runs'[i].by = "continue" /\ runs'[i].of = n
    BY <1>e, <2>1
  <2> QED BY <2>2, <2>3 DEF Continued
<1>3. Cardinality(Continued) <= Cardinality(Continued')
  BY <1>c, <1>2, FS_Subset
<1>4. Cardinality(LimitedRuns') <= MaxBlocked
  <2>1. CASE LimitedRuns' = LimitedRuns
    BY <2>1 DEF RunsCounted
  <2>2. CASE LimitedRuns' = LimitedRuns \cup {Newest} /\ Cardinality(LimitedRuns) < MaxBlocked
    <3>1. Cardinality(LimitedRuns \cup {Newest}) <= MaxBlocked
      BY <1>b, <2>2, OneMore, BoundsAssumption
    <3> QED BY <2>2, <3>1
  <2> QED BY <1>a, <1>d, <2>1, <2>2, RunsEffect
<1>5. CASE Newest' = Newest
  <2>1. Newest' <= 1 + Cardinality(SendersDone') + Cardinality(Continued')
    BY <1>5, <1>a, <1>b, <1>c, <1>1, <1>3 DEF RunsCounted
  <2>2. Newest' > 0
    BY <1>5, <1>a
  <2> QED BY <1>4, <2>1, <2>2 DEF RunsCounted
<1>6. CASE Newest' = Newest + 1 /\ SendersDone' # SendersDone
  <2>1. SendersDone \subseteq SendersDone'
    BY <1>a, RunsEffect
  <2>2. Cardinality(SendersDone) < Cardinality(SendersDone')
    BY <1>6, <1>b, <1>c, <2>1, FS_Subset
  <2>3. Newest' <= 1 + Cardinality(SendersDone') + Cardinality(Continued')
    BY <1>6, <1>a, <1>b, <1>c, <1>3, <2>2 DEF RunsCounted
  <2>4. Newest' > 0
    BY <1>6, <1>a
  <2> QED BY <1>4, <2>3, <2>4 DEF RunsCounted
<1>7. CASE /\ Newest' = Newest + 1
           /\ Execute /\ worker'.pc = "account"
           /\ runs'[Newest'].by = "continue" /\ runs'[Newest'].of = worker.gen
  <2>1. worker.gen \in LimitedRuns'
    BY <1>7, <1>d DEF Execute, WorkerKnows
  <2>2. Newest' \in 1 .. Newest'
    BY <1>7, <1>a
  <2>3. worker.gen \in Continued'
    BY <1>7, <2>1, <2>2 DEF Continued
  <2>4. worker.gen \notin Continued
    BY <1>7 DEF Execute, ContinueIsTold, Continued
  <2>5. Cardinality(Continued) < Cardinality(Continued')
    BY <1>2, <1>b, <1>c, <2>3, <2>4, FS_Subset
  <2>6. Newest' <= 1 + Cardinality(SendersDone') + Cardinality(Continued')
    BY <1>7, <1>a, <1>b, <1>c, <1>1, <2>5 DEF RunsCounted
  <2>7. Newest' > 0
    BY <1>7, <1>a
  <2> QED BY <1>4, <2>6, <2>7 DEF RunsCounted
<1> QED BY <1>a, <1>5, <1>6, <1>7, RunsEffect

\* The events are of generations.
LEMMA EventsStep ==
    ASSUME TypeOK, Newest > 0, [Next]_vars
    PROVE  /\ events' \in Seq(Generations) /\ history' \in Seq(Generations)
           /\ lost' \subseteq Generations /\ pruned' \subseteq Generations
<1>a. /\ events \in Seq(Generations) /\ history \in Seq(Generations) /\ lost \subseteq Generations
      /\ Newest \in Generations /\ pruned \subseteq Generations
  BY NewestIs DEF TypeOK
<1>b. events # <<>> => Head(events) \in Generations /\ Tail(events) \in Seq(Generations)
  BY <1>a
<1>1. CASE Project
  BY <1>1, <1>a, <1>b DEF Project
<1>2. CASE Lag
  <2>1. history \o events \in Seq(Generations)
    BY <1>a
  <2> QED BY <1>2, <1>a, <1>b, <2>1 DEF Lag
<1>3. CASE RunEnds
  <2>1. Append(events, Newest) \in Seq(Generations) /\ Append(history, Newest) \in Seq(Generations)
    BY <1>a
  <2>2. /\ \/ events' = Append(events, Newest) /\ history' = Append(history, Newest)
           \/ UNCHANGED <<events, history>>
        /\ UNCHANGED <<lost, pruned>>
    BY <1>3 DEF RunEnds
  <2> QED BY <1>a, <2>1, <2>2
<1>4. CASE Restart
  BY <1>4 DEF Restart
<1>5. CASE \/ Switch \/ Retry \/ UNCHANGED vars
           \/ \E n \in Generations : Elapse(n) \/ WakeGeneration(n)
           \/ \E u \in Senders : TurnPlans(u) \/ TurnAdmits(u) \/ TurnRuns(u) \/ OtherStarts(u)
  BY <1>5, <1>a
  DEF Switch, Retry, Elapse, WakeGeneration, TurnPlans, TurnAdmits, TurnRuns, OtherStarts,
      vars, projection
<1>6. CASE Work
  BY <1>6, <1>a
  DEF Work, Claim, Sleep, Wake, Check, Read, Plan, Insert, Handoff, Execute, Account, Settle,
      projection
<1> QED BY <1>1, <1>2, <1>3, <1>4, <1>5, <1>6 DEF Next

Timers == {"off", "on", "unread"}

\* The guard, the messages and the bounds keep their types.
LEMMA TurnStep ==
    ASSUME TypeOK, [Next]_vars
    PROVE  /\ guard' \in Senders \cup {"worker", "free"} /\ turn' \in [Senders -> TurnSteps]
           /\ notify' \in BOOLEAN /\ timer' \in Timers /\ restarts' \in Nat
<1>a. /\ guard \in Senders \cup {"worker", "free"} /\ turn \in [Senders -> TurnSteps]
      /\ notify \in BOOLEAN /\ timer \in Timers /\ restarts \in Nat
  BY DEF TypeOK, Timers
<1>b. Idle \in TurnSteps /\ Done \in TurnSteps
  BY DEF TurnSteps, Plans, Idle, Done
<1>1. CASE \E u \in Senders : TurnPlans(u)
  <2>1. PICK u \in Senders : TurnPlans(u)
    BY <1>1
  <2>2. PICK p \in Plans : turn' = [turn EXCEPT ![u] = [step |-> "planned", plan |-> p]]
    BY <2>1 DEF TurnPlans, Plans
  <2>3. [step |-> "planned", plan |-> p] \in TurnSteps
    BY DEF TurnSteps
  <2>4. turn' \in [Senders -> TurnSteps]
    BY <1>a, <2>2, <2>3
  <2> QED BY <1>a, <2>1, <2>4 DEF TurnPlans, sleeping, bounds
<1>2. CASE \E u \in Senders : TurnAdmits(u)
  <2>1. PICK u \in Senders : TurnAdmits(u)
    BY <1>2
  <2>2. [turn[u] EXCEPT !.step = "admitted"] \in TurnSteps
    BY <1>a DEF TurnSteps
  <2>3. \/ turn' = [turn EXCEPT ![u] = [turn[u] EXCEPT !.step = "admitted"]]
        \/ turn' = [turn EXCEPT ![u] = Done]
    BY <2>1 DEF TurnAdmits
  <2>4. turn' \in [Senders -> TurnSteps]
    BY <1>a, <1>b, <2>2, <2>3
  <2> QED BY <1>a, <2>1, <2>4 DEF TurnAdmits, sleeping
<1>3. CASE \E u \in Senders : TurnRuns(u) \/ OtherStarts(u)
  <2>1. turn' \in [Senders -> TurnSteps]
    BY <1>3, <1>a, <1>b DEF TurnRuns, OtherStarts
  <2> QED BY <1>3, <1>a, <2>1 DEF TurnRuns, OtherStarts, sleeping, bounds
<1>4. CASE Restart
  <2>1. turn' \in [Senders -> TurnSteps]
    BY <1>4, <1>b DEF Restart
  <2>2. guard' = "free" /\ notify' = FALSE /\ timer' = "off" /\ restarts' = restarts + 1
    BY <1>4 DEF Restart
  <2>3. restarts' \in Nat
    BY <1>a, <2>2
  <2>4. notify' \in BOOLEAN /\ timer' \in Timers
    BY <2>2, Zenon DEF Timers
  <2> QED BY <2>1, <2>2, <2>3, <2>4
<1>5. CASE \/ Project \/ Lag \/ Switch \/ Retry \/ RunEnds \/ UNCHANGED vars
           \/ \E n \in Generations : Elapse(n) \/ WakeGeneration(n)
  BY <1>5, <1>a
  DEF Project, Lag, Switch, Retry, RunEnds, Elapse, WakeGeneration, vars, sleeping, bounds
<1>8. CASE Sleep
  <2>1. PICK unread \in BOOLEAN :
           timer' = CASE unread -> "unread"
                      [] ~unread /\ Deadlines # {} -> "on"
                      [] OTHER -> "off"
    BY <1>8 DEF Sleep
  <2>2. timer' \in Timers
    BY <2>1 DEF Timers
  <2> QED BY <1>8, <1>a, <2>2 DEF Sleep
<1>6. CASE Claim \/ Wake \/ Check \/ Read \/ Settle
  BY <1>6, <1>a DEF Claim, Wake, Check, Read, Settle, sleeping, bounds
<1>7. CASE Plan \/ Insert \/ Handoff \/ Execute \/ Account
  BY <1>7, <1>a DEF Plan, Insert, Handoff, Execute, Account, GiveUp, sleeping, bounds
<1> QED BY <1>1, <1>2, <1>3, <1>4, <1>5, <1>6, <1>7, <1>8 DEF Next, Work

\* The worker and the rows of the intents keep their types.
LEMMA WorkerTypeStep ==
    ASSUME TypeOK, [Next]_vars
    PROVE  /\ worker' \in Worker
           /\ admission' \in [Generations -> {"none", "admitted", "handoff_started", "accepted", "ambiguous"}]
<1>a. /\ worker \in Worker /\ MaxRuns \in Nat
      /\ admission \in [Generations -> {"none", "admitted", "handoff_started", "accepted", "ambiguous"}]
  BY MaxRunsIs DEF TypeOK
<1>b. Scanning \in Worker
  BY <1>a DEF Scanning, Worker
<1>c. \A s \in {"sleep", "read", "plan", "insert", "handoff", "execute", "account"} :
        Goto(s) => worker' \in Worker
  BY <1>a DEF Goto, Worker
<1>d. \A v \in {"deliver", "supersede", "retry"} : Conclude(v) => worker' \in Worker
  BY <1>a DEF Conclude, Worker
<1>1. CASE Claim
  <2>1. PICK n \in Generations : worker' = [Scanning EXCEPT !.pc = "check", !.gen = n, !.token = job[n].attempts + 1]
    BY <1>1 DEF Claim, Due, Deadlines
  <2>2. job[n].attempts + 1 \in Nat
    BY DEF TypeOK, Job
  <2>3. n \in 0 .. MaxRuns
    BY <1>a DEF Generations
  <2>4. \A t \in Nat : [Scanning EXCEPT !.pc = "check", !.gen = n, !.token = t] \in Worker
    BY <2>3 DEF Scanning, Worker
  <2>5. worker' \in Worker
    BY <2>1, <2>2, <2>4
  <2> QED BY <1>1, <1>a, <2>5 DEF Claim
<1>2. CASE Sleep
  <2>1. worker' \in Worker
    BY <1>2, <1>a DEF Sleep, Worker
  <2> QED BY <1>2, <1>a, <2>1 DEF Sleep, durable
<1>3. CASE Wake \/ Settle
  BY <1>3, <1>a, <1>b DEF Wake, Settle, durable
<1>4. CASE Check \/ Read \/ Plan
  BY <1>4, <1>a, <1>c, <1>d DEF Check, Read, Plan, durable
<1>5. CASE Insert \/ Handoff \/ Execute \/ Account
  BY <1>5, <1>a, <1>c, <1>d DEF Insert, Handoff, Execute, Account, GiveUp
<1>6. CASE Restart
  BY <1>6, <1>a, <1>b DEF Restart
<1>7. CASE UNCHANGED <<admission, worker>>
  BY <1>7, <1>a
<1> QED BY <1>1, <1>2, <1>3, <1>4, <1>5, <1>6, <1>7, OthersEffect DEF Work

\* All keep their types: the runs are as many as were counted.
LEMMA TypeStep ==
    ASSUME TypeOK, WorkerKnows, ContinueIsTold, RunsCounted, [Next]_vars
    PROVE  TypeOK'
<1>1. Newest > 0
  BY DEF RunsCounted
<1>2. runs' \in Seq(Run) /\ Newest' = Len(runs')
  BY <1>1, RunsEffect DEF Tells, Newest
<1>3. Newest' \in Nat
  BY <1>2
<1>4. Newest' <= MaxRuns
  <2>1. SendersDone' \subseteq Senders /\ Continued' \subseteq LimitedRuns'
        /\ LimitedRuns' \subseteq 1 .. Newest'
    BY DEF SendersDone, Continued, LimitedRuns
  <2>2. /\ Cardinality(SendersDone') \in Nat /\ Cardinality(SendersDone') <= Cardinality(Senders)
        /\ Cardinality(LimitedRuns') \in Nat /\ Cardinality(Continued') \in Nat
        /\ Cardinality(Continued') <= Cardinality(LimitedRuns')
    BY <1>3, <2>1, CountsFinite
  <2>3. /\ Newest' <= 1 + Cardinality(SendersDone') + Cardinality(Continued')
        /\ Cardinality(LimitedRuns') <= MaxBlocked
    BY CountStep DEF RunsCounted
  <2> QED BY <1>3, <2>2, <2>3, MaxRunsIs, BoundsAssumption DEF MaxRuns
<1>5. job' \in [Generations -> Job]
  BY JobsEffect
<1>6. failures' \in Nat
  BY WorkerEffect
<1> QED BY <1>1, <1>2, <1>4, <1>5, <1>6, EventsStep, TurnStep, WorkerTypeStep DEF TypeOK, Timers

-----------------------------------------------------------------------------
(* The theorems.                                                           *)

LEMMA InitInvariant == Init => QuotaInvariant
<1> SUFFICES ASSUME Init PROVE QuotaInvariant
  OBVIOUS
<1> DEFINE r == [by |-> "other", of |-> 0, status |-> "live"]
<1>a. MaxRuns \in Nat /\ MaxRuns >= 1
  BY MaxRunsIs, BoundsAssumption DEF MaxRuns
<1>b. r \in Run /\ r.by = "other" /\ r.status = "live" /\ runs = <<r>>
  BY <1>a DEF Run, Init
<1> HIDE DEF r
<1>c. runs \in Seq(Run) /\ Newest = 1 /\ runs[1] = r
  BY <1>b DEF Newest
<1>d. LimitedRuns = {} /\ Continued = {} /\ SendersDone = {}
  BY <1>b, <1>c DEF LimitedRuns, Continued, SendersDone, Limited, Init, Idle
<1>1. TypeOK
  <2>1. NoJob \in Job
    BY DEF NoJob, Job
  <2>2. Scanning \in Worker
    BY <1>a DEF Scanning, Worker
  <2>3. Idle \in TurnSteps
    BY DEF Idle, TurnSteps, Plans
  <2>4. Len(runs) <= MaxRuns
    BY <1>a, <1>c DEF Newest
  <2>5. notify \in BOOLEAN /\ timer \in {"off", "on", "unread"}
    BY Zenon DEF Init
  <2>6. /\ events \in Seq(Generations) /\ history \in Seq(Generations) /\ lost \subseteq Generations
        /\ pruned \subseteq Generations
    BY DEF Init
  <2>7. /\ guard \in Senders \cup {"worker", "free"} /\ restarts \in Nat /\ failures \in Nat
        /\ job \in [Generations -> Job] /\ turn \in [Senders -> TurnSteps] /\ worker \in Worker
        /\ admission \in [Generations -> {"none", "admitted", "handoff_started", "accepted", "ambiguous"}]
    BY <2>1, <2>2, <2>3 DEF Init
  <2> QED BY <1>c, <2>4, <2>5, <2>6, <2>7 DEF TypeOK
<1>2. OneContinue /\ ContinueIsTold
  BY <1>b, <1>c DEF OneContinue, ContinueIsTold
<1>3. OneActiveJob /\ ClaimIsHeld
  BY DEF Init, NoJob, OneActiveJob, ClaimIsHeld, Orphaned, Active
<1>4. WorkerKnows
  BY DEF Init, Scanning, WorkerKnows
<1>5. RunsCounted
  <2>1. Cardinality({}) = 0
    BY FS_EmptySet
  <2>2. Cardinality(SendersDone) = 0 /\ Cardinality(Continued) = 0 /\ Cardinality(LimitedRuns) = 0
    BY <1>d, <2>1
  <2> QED BY <1>c, <2>2, BoundsAssumption DEF RunsCounted
<1> QED BY <1>1, <1>2, <1>3, <1>4, <1>5 DEF QuotaInvariant

LEMMA NextInvariant == QuotaInvariant /\ [Next]_vars => QuotaInvariant'
<1> SUFFICES ASSUME QuotaInvariant, [Next]_vars PROVE QuotaInvariant'
  OBVIOUS
<1>1. /\ TypeOK /\ OneContinue /\ OneActiveJob /\ ClaimIsHeld
      /\ WorkerKnows /\ ContinueIsTold /\ RunsCounted /\ Newest > 0
  BY DEF QuotaInvariant, RunsCounted
<1>2. OneActiveJob'
  <2>1. OneActive(job)
    BY <1>1 DEF OneActiveJob, OneActive
  <2>2. OneActive(job')
    BY <1>1, <2>1, JobsEffect
  <2> QED BY <2>2 DEF OneActiveJob, OneActive
<1> QED BY <1>1, <1>2, TypeStep, WorkerStep, ClaimStep, ContinueStep, CountStep DEF QuotaInvariant

\* Between any two steps of the recovery, whatever repeats, fails or dies, a
\* generation has at most one continue, the thread one active job, of its newest
\* generation, and every claim a worker, unless a write of its outcome failed.
THEOREM RecoveryHolds == Spec => []QuotaInvariant
BY InitInvariant, NextInvariant, PTL DEF Spec

\* The tables, the worker and the messages keep their types; the thread has no
\* more runs than its senders and its generations account for.
THEOREM TypeCorrect == Spec => []TypeOK
<1>1. QuotaInvariant => TypeOK
  BY DEF QuotaInvariant
<1> QED BY <1>1, RecoveryHolds, PTL

\* The event, the claim after a restart, a retry and the wakes by the timer, the
\* user and an account switch continue a blocked run once between them.
THEOREM ContinuedOnce == Spec => []OneContinue
<1>1. QuotaInvariant => OneContinue
  BY DEF QuotaInvariant
<1> QED BY <1>1, RecoveryHolds, PTL

\* A job that was delivered or superseded stays so, and a continue that was not
\* admitted by then never is: no write of the table, late event, wake, repair or
\* stale worker brings it back, except that a start deletes rows that are old.
THEOREM SettledStays == Spec => SettledIsFinal
<1> DEFINE Stays(n) ==
      \/ restarts' # restarts /\ n \in pruned'
      \/ /\ job'[n].state = job[n].state
         /\ admission[n] = "none" => admission'[n] = "none"
<1>1. ASSUME QuotaInvariant, [Next]_vars, NEW n \in Generations, job[n].state \in Settled
      PROVE  Stays(n)
  <2>1. TypeOK /\ WorkerKnows /\ Newest > 0
    BY <1>1 DEF QuotaInvariant, RunsCounted
  <2>2. Kept(job, job') => job'[n].state = job[n].state
    BY <1>1 DEF Kept, Settled
  <2>3. (\E m \in Generations : Taken(m)) => job'[n].state = job[n].state
    BY <1>1 DEF Taken, Settled
  <2>4. admission[n] = "none" => admission'[n] = "none"
    <3>1. n = worker.gen => ~HoldsClaim
      BY <1>1 DEF HoldsClaim, Settled
    <3> QED BY <1>1, <2>1, <3>1, AdmissionEffect
  <2>5. Restart => Stays(n)
    <3> SUFFICES ASSUME Restart PROVE Stays(n)
      OBVIOUS
    <3>1. n \notin pruned' => job'[n].state = job[n].state
      BY <1>1, <2>1, RestartKept DEF KeptBut
    <3>2. restarts' # restarts
      BY <2>1 DEF Restart, TypeOK
    <3> QED BY <2>4, <3>1, <3>2
  <2> QED BY <1>1, <2>1, <2>2, <2>3, <2>4, <2>5, JobsEffect
<1>2. QuotaInvariant /\ [Next]_vars => [\A n \in Generations : job[n].state \in Settled => Stays(n)]_vars
  BY <1>1
<1> QED BY <1>2, RecoveryHolds, PTL DEF Spec, SettledIsFinal
=============================================================================
