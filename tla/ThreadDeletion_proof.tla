------------------------ MODULE ThreadDeletion_proof ------------------------
(***************************************************************************)
(* Theorems of ThreadDeletion for any number of threads, endpoints,        *)
(* lifecycle operations, storage errors, dying owners and restarts.        *)
(***************************************************************************)
EXTENDS ThreadDeletion, FiniteSetTheorems, SequenceTheorems, WellFoundedInduction,
        TLAPS

USE BoundsAssumption, NoOneAssumption

-----------------------------------------------------------------------------
(* The cleanup of a thread. *)

\* The order of the endpoints that the query gives exists.
LEMMA OrderedType ==
  ASSUME NEW S \in SUBSET Endpoints
  PROVE  Ordered(S) \in Seq(Endpoints)
<1>1. IsFiniteSet(S)
  BY FS_Subset
<1>2. Cardinality(S) \in Nat /\ ExistsBijection(1 .. Cardinality(S), S)
  BY <1>1, FS_CardinalityType
<1>3. PICK q : q \in Bijection(1 .. Cardinality(S), S)
  BY <1>2 DEF ExistsBijection
<1>4. q \in [1 .. Cardinality(S) -> S] /\ \A e \in S : \E i \in DOMAIN q : q[i] = e
  BY <1>3 DEF Bijection, Surjection
<1>5. Ordered(S) \in [1 .. Cardinality(S) -> S]
  BY <1>4 DEF Ordered
<1> QED BY <1>2, <1>5, IsASeq

\* The jobs of a committed deletion: all of its thread, none of them done, the
\* runtime's among them and, after a delete, one for each thing a thread leaves.
Cleans(q, o) ==
    /\ q \in Seq(Jobs)
    /\ \A i \in DOMAIN q : q[i].thread = Thread(o) /\ ~q[i].done
    /\ \E i \in DOMAIN q : q[i].step = "session"
    /\ request[o].kind = "delete" => \A s \in Residue : \E i \in DOMAIN q : q[i].step = s

LEMMA JobType ==
  ASSUME NEW t \in Threads, NEW s \in Residue \cup {"invalidate"}, NEW e \in Endpoints \cup {NoOne}
  PROVE  /\ Job(t, s, e) \in Jobs
         /\ Job(t, s, e).thread = t /\ Job(t, s, e).step = s /\ ~Job(t, s, e).done
  BY DEF Job, Jobs

\* What a concatenation holds, and where.
Join(p, q, pq) ==
    /\ pq \in Seq(Jobs) /\ Len(p) \in Nat
    /\ \A i \in DOMAIN p : i \in DOMAIN pq /\ pq[i] = p[i]
    /\ \A i \in DOMAIN q : Len(p) + i \in DOMAIN pq /\ pq[Len(p) + i] = q[i]
    /\ \A i \in DOMAIN pq : \/ i \in DOMAIN p /\ pq[i] = p[i]
                            \/ i - Len(p) \in DOMAIN q /\ pq[i] = q[i - Len(p)]

LEMMA Joined ==
  ASSUME NEW p \in Seq(Jobs), NEW q \in Seq(Jobs)
  PROVE  Join(p, q, p \o q)
<1>1. /\ p \o q \in Seq(Jobs) /\ Len(p \o q) = Len(p) + Len(q)
      /\ \A i \in 1 .. Len(p) + Len(q) :
            (p \o q)[i] = IF i <= Len(p) THEN p[i] ELSE q[i - Len(p)]
  BY ConcatProperties
<1>2. /\ Len(p) \in Nat /\ DOMAIN p = 1 .. Len(p) /\ Len(q) \in Nat /\ DOMAIN q = 1 .. Len(q)
      /\ DOMAIN (p \o q) = 1 .. Len(p) + Len(q)
  BY <1>1, LenProperties
<1> DEFINE pq == p \o q
<1> HIDE DEF pq
<1>3. \A i \in 1 .. Len(p) + Len(q) : pq[i] = IF i <= Len(p) THEN p[i] ELSE q[i - Len(p)]
  BY <1>1 DEF pq
<1>4. DOMAIN pq = 1 .. Len(p) + Len(q)
  BY <1>2 DEF pq
<1>5. \A i \in DOMAIN p : i \in DOMAIN pq /\ pq[i] = p[i]
  BY <1>2, <1>3, <1>4
<1>6. \A i \in DOMAIN q : Len(p) + i \in DOMAIN pq /\ pq[Len(p) + i] = q[i]
  <2> SUFFICES ASSUME NEW i \in DOMAIN q
               PROVE  Len(p) + i \in DOMAIN pq /\ pq[Len(p) + i] = q[i]
    OBVIOUS
  <2>1. Len(p) + i \in 1 .. Len(p) + Len(q) /\ ~(Len(p) + i <= Len(p)) /\ (Len(p) + i) - Len(p) = i
    BY <1>2
  <2> QED BY <1>3, <1>4, <2>1
<1>7. \A i \in DOMAIN pq : \/ i \in DOMAIN p /\ pq[i] = p[i]
                           \/ i - Len(p) \in DOMAIN q /\ pq[i] = q[i - Len(p)]
  BY <1>2, <1>3, <1>4
<1> QED BY <1>1, <1>2, <1>5, <1>6, <1>7 DEF pq, Join

\* The outbox of a deletion misses nothing that the thread leaves.
LEMMA CleanupClean ==
  ASSUME TypeOK, NEW o \in Operations
  PROVE  Cleans(CleanupJobs(o), o)
<1> DEFINE t == Thread(o)
           S == {e \in Endpoints : owner[e] = t} \cup
                     (IF request[o].kind = "archive" THEN request[o].keys ELSE {})
           keys == Ordered(S)
           a == [i \in DOMAIN keys |-> Job(t, "invalidate", keys[i])]
           b == <<Job(t, "session", NoOne), Job(t, "transcript", NoOne), Job(t, "log", NoOne)>>
           c == IF request[o].kind = "delete" THEN <<Job(t, "attachments", NoOne)>> ELSE <<>>
<1>1. t \in Threads /\ S \in SUBSET Endpoints
  BY DEF TypeOK, Thread, Requests
<1>2. keys \in Seq(Endpoints)
  BY <1>1, OrderedType
<1> HIDE DEF S, keys
<1>3. a \in Seq(Jobs) /\ \A i \in DOMAIN a : a[i].thread = t /\ ~a[i].done
  <2>1. \A i \in DOMAIN keys : keys[i] \in Endpoints
    BY <1>2
  <2>2. \A i \in DOMAIN a : a[i] \in Jobs /\ a[i].thread = t /\ ~a[i].done
    BY <1>1, <2>1, JobType
  <2>3. DOMAIN a = 1 .. Len(keys) /\ Len(keys) \in Nat
    BY <1>2
  <2> QED BY <2>2, <2>3, IsASeq
<1>4. /\ b \in Seq(Jobs) /\ Len(b) = 3 /\ \A i \in 1 .. 3 : b[i].thread = t /\ ~b[i].done
      /\ b[1].step = "session" /\ b[2].step = "transcript" /\ b[3].step = "log"
  BY <1>1, JobType DEF Residue
<1>5. /\ c \in Seq(Jobs) /\ \A i \in DOMAIN c : c[i].thread = t /\ ~c[i].done
      /\ request[o].kind = "delete" => Len(c) = 1 /\ c[1].step = "attachments"
  BY <1>1, JobType DEF Residue
<1> HIDE DEF a, b, c, t
<1> DEFINE ab == a \o b
           q == ab \o c
<1> HIDE DEF ab
<1>6. /\ ab \in Seq(Jobs) /\ \A i \in DOMAIN ab : ab[i].thread = t /\ ~ab[i].done
      /\ \A i \in DOMAIN b : \E k \in DOMAIN ab : ab[k].step = b[i].step
  <2>1. Join(a, b, ab)
    BY <1>3, <1>4, Joined DEF ab
  <2>2. \A i \in DOMAIN b : b[i].thread = t /\ ~b[i].done
    BY <1>4
  <2>3. \A i \in DOMAIN ab : ab[i].thread = t /\ ~ab[i].done
    BY <1>3, <2>1, <2>2 DEF Join
  <2>4. \A i \in DOMAIN b : \E k \in DOMAIN ab : ab[k].step = b[i].step
    BY <2>1 DEF Join
  <2> QED BY <2>1, <2>3, <2>4 DEF Join
<1> HIDE DEF q
<1>7. /\ q \in Seq(Jobs) /\ \A i \in DOMAIN q : q[i].thread = t /\ ~q[i].done
      /\ \A i \in DOMAIN ab : \E k \in DOMAIN q : q[k].step = ab[i].step
      /\ \A i \in DOMAIN c : \E k \in DOMAIN q : q[k].step = c[i].step
  <2>1. Join(ab, c, q)
    BY <1>5, <1>6, Joined DEF q
  <2>2. /\ \A i \in DOMAIN ab : ab[i].thread = t /\ ~ab[i].done
        /\ \A i \in DOMAIN c : c[i].thread = t /\ ~c[i].done
    BY <1>5, <1>6
  <2>3. q \in Seq(Jobs) /\ \A i \in DOMAIN q : q[i].thread = t /\ ~q[i].done
    BY <2>1, <2>2 DEF Join
  <2>4. \A i \in DOMAIN ab : \E k \in DOMAIN q : q[k].step = ab[i].step
    BY <2>1 DEF Join
  <2>5. \A i \in DOMAIN c : \E k \in DOMAIN q : q[k].step = c[i].step
    BY <2>1 DEF Join
  <2> QED BY <2>3, <2>4, <2>5
<1>8. \A i \in 1 .. 3 : \E k \in DOMAIN q : q[k].step = b[i].step
  BY <1>4, <1>6, <1>7
<1>9. \A s \in Residue \ {"attachments"} : \E k \in DOMAIN q : q[k].step = s
  BY <1>4, <1>8 DEF Residue
<1>10. request[o].kind = "delete" => \E k \in DOMAIN q : q[k].step = "attachments"
  BY <1>5, <1>7
<1>11. q = CleanupJobs(o)
  BY DEF q, ab, a, b, c, keys, S, t, CleanupJobs
<1>12. \E i \in DOMAIN q : q[i].step = "session"
  BY <1>9 DEF Residue
<1>13. request[o].kind = "delete" => \A s \in Residue : \E i \in DOMAIN q : q[i].step = s
  BY <1>9, <1>10
<1> QED BY <1>7, <1>11, <1>12, <1>13 DEF Cleans, t
-----------------------------------------------------------------------------
(* Types *)

\* The task that holds the router lock is about an endpoint, and waits for the
\* mutation that it asked for.
RouterTask ==
    /\ router.pc # "idle" => router.endpoint \in Endpoints
    /\ mutation.by \in {"bind", "detach"} => router.pc = mutation.by

Typed == TypeOK /\ RouterTask

LEMMA InitTyped == Init => Typed
<1> SUFFICES ASSUME Init PROVE Typed
  OBVIOUS
<1> USE DEF Init
<1>1. op \in [Operations -> Owners]
  BY DEF Owners, NoOwner
<1>2. router \in Routers /\ worker \in [pc : {"poll", "execute", "purge", "mark", "retry", "sleep"}, job : Nat]
  BY DEF Routers, IdleRouter, Polling
<1>3. outbox \in Seq(Jobs) /\ request \in [Operations -> Requests]
  OBVIOUS
<1>4. residue \in [Threads -> SUBSET Residue]
  BY DEF Residue
<1> QED BY <1>1, <1>2, <1>3, <1>4 DEF Typed, TypeOK, RouterTask, IdleRouter, NoMutation

\* The bindings' steps change the lock, the router, the routes and the records.
LEMMA BindingsTyped == Typed /\ Bindings => Typed'
<1> SUFFICES ASSUME Typed, Bindings PROVE Typed'
  OBVIOUS
<1> USE DEF Typed, RouterTask, threads, cleanup, operations, routing
<1>1. CASE RouterStarts
  <2>1. router' \in Routers /\ router'.endpoint \in Endpoints
    BY <1>1 DEF RouterStarts, Routers
  <2> QED BY <1>1, <2>1 DEF RouterStarts, TypeOK
<1>2. CASE RouterMutates
  <2>1. /\ router' \in Routers /\ (router'.pc # "idle" => router'.endpoint \in Endpoints)
    BY <1>2 DEF RouterMutates, Routers, IdleRouter, TypeOK
  <2>2. mutation' \in Mutations \cup {NoMutation}
    BY <1>2 DEF RouterMutates, Mutations, TypeOK, Routers
  <2>3. mutation'.by \in {"bind", "detach"} => router'.pc = mutation'.by
    BY <1>2 DEF RouterMutates, NoMutation
  <2> QED BY <1>2, <2>1, <2>2, <2>3 DEF RouterMutates, TypeOK
<1>3. CASE DispatchMoves
  <2>1. mutation' \in Mutations \cup {NoMutation}
    BY <1>3 DEF DispatchMoves, Mutations, TypeOK
  <2> QED BY <1>3, <2>1 DEF DispatchMoves, TypeOK
<1>4. CASE MutationCommits
  <2>0. mutation' = NoMutation /\ NoMutation.by \notin {"bind", "detach"}
    BY <1>4 DEF MutationCommits, NoMutation
  <2>1. mutation \in Mutations
    BY <1>4 DEF MutationCommits, TypeOK
  <2>2. /\ mutation.endpoint \in Endpoints /\ mutation.target \in Threads \cup {NoOne}
    BY <2>1 DEF Mutations
  <2>3. /\ router' \in Routers /\ (router'.pc # "idle" => router'.endpoint \in Endpoints)
    <3>1. \A s \in {"publish", "purge"} : [router EXCEPT !.pc = s] \in Routers
      BY DEF TypeOK, Routers
    <3>2. IdleRouter \in Routers /\ IdleRouter.pc = "idle"
      BY DEF Routers, IdleRouter
    <3>3. CASE router' = router \/ router' = IdleRouter
      BY <3>2, <3>3 DEF TypeOK
    <3>4. CASE router' = [router EXCEPT !.pc = IF @ = "bind" THEN "publish" ELSE "purge"] /\ mutation.by # "move"
      <4>1. router.pc # "idle"
        BY <2>1, <3>4 DEF Mutations
      <4> QED BY <3>1, <3>4, <4>1 DEF TypeOK, Routers
    <3> QED BY <1>4, <3>3, <3>4 DEF MutationCommits
  <2>4. /\ record' \in [Threads -> {"absent", "live", "archived", "deleted"}]
        /\ bound' \in [Threads -> SUBSET Endpoints] /\ owner' \in [Endpoints -> Threads \cup {NoOne}]
    <3>1. CASE Write(mutation)
      <4>1. \A t \in Threads : (bound'[t] \in SUBSET Endpoints)
        BY <2>2, <3>1 DEF Write, TypeOK
      <4>2. bound' \in [Threads -> SUBSET Endpoints]
        BY <3>1, <4>1 DEF Write
      <4> QED BY <2>2, <3>1, <4>2 DEF Write, TypeOK
    <3>2. CASE UNCHANGED threads
      BY <3>2 DEF TypeOK
    <3> QED BY <1>4, <3>1, <3>2 DEF MutationCommits
  <2>5. faults' \in Nat /\ mutation' = NoMutation
    BY <1>4 DEF MutationCommits, Fail, TypeOK
  <2> QED BY <1>4, <2>0, <2>3, <2>4, <2>5 DEF MutationCommits, TypeOK
<1>5. CASE RouterPublishes \/ Resolve \/ Resolved
  <2>1. /\ router' \in Routers /\ (router'.pc # "idle" => router'.endpoint \in Endpoints)
    BY <1>5 DEF RouterPublishes, Resolve, Resolved, Routers, IdleRouter, TypeOK
  <2>2. route' \in [Endpoints -> Threads \cup {NoOne}]
    BY <1>5 DEF RouterPublishes, Resolve, Resolved, Routers, TypeOK
  <2> QED BY <1>5, <2>1, <2>2 DEF RouterPublishes, Resolve, Resolved, TypeOK
<1> QED BY <1>1, <1>2, <1>3, <1>4, <1>5 DEF Bindings

\* The first of some numbers.
LEMMA FirstOf ==
  ASSUME NEW S \in SUBSET Nat, S # {}
  PROVE  \E m \in S : \A q \in S : m <= q
<1> DEFINE Below(x) == {q \in S : q < x}
<1>1. ASSUME NEW x \in S PROVE Below(x) \in FiniteSubsetsOf(S)
  BY FS_BoundedSetOfNaturals DEF FiniteSubsetsOf
<1> DEFINE F == {Below(x) : x \in S}
<1>2. F \subseteq FiniteSubsetsOf(S) /\ F # {}
  BY <1>1
<1>3. PICK b \in F : \A c \in F : ~ (<<c, b>> \in StrictSubsetOrdering(S))
  <2> HIDE DEF F
  <2>1. IsWellFoundedOn(StrictSubsetOrdering(S), FiniteSubsetsOf(S))
    BY FS_StrictSubsetOrderingWellFounded
  <2> QED BY <1>2, <2>1, WFMin, Zenon
<1>4. PICK m \in S : b = Below(m)
  OBVIOUS
<1>5. ASSUME NEW q \in S PROVE m <= q
  <2>1. SUFFICES ASSUME q < m PROVE FALSE
    BY <1>4
  <2>0. m \in Nat /\ q \in Nat /\ \A x \in S : x \in Nat
    BY <1>4
  <2>2. Below(q) \subseteq Below(m) /\ q \in Below(m) /\ q \notin Below(q)
    <3>1. \A x \in Below(q) : x \in Below(m)
      BY <2>0, <2>1
    <3>2. q \in Below(m)
      BY <2>1
    <3>3. q \notin Below(q)
      BY <2>0
    <3> QED BY <3>1, <3>2, <3>3
  <2>3. <<Below(q), Below(m)>> \in StrictSubsetOrdering(S)
    BY <2>2 DEF StrictSubsetOrdering
  <2> QED BY <1>3, <1>4, <2>3
<1> QED BY <1>4, <1>5

\* A job that is marked or put off, or whose backoff ends.
LEMMA OutboxMarked ==
  ASSUME outbox \in Seq(Jobs), NEW j, NEW b \in BOOLEAN
  PROVE  /\ [outbox EXCEPT ![j].done = b] \in Seq(Jobs)
         /\ [outbox EXCEPT ![j].backoff = b] \in Seq(Jobs)
<1>1. ASSUME j \in DOMAIN outbox
      PROVE  /\ outbox[j] \in Jobs
             /\ [outbox[j] EXCEPT !.done = b] \in Jobs /\ [outbox[j] EXCEPT !.backoff = b] \in Jobs
  <2>1. outbox[j] \in Jobs
    BY <1>1
  <2> QED BY <2>1 DEF Jobs
<1>2. CASE j \in DOMAIN outbox
  BY <1>1, <1>2, ExceptSeq
<1>3. CASE j \notin DOMAIN outbox
  <2>1. [outbox EXCEPT ![j].done = b] = outbox /\ [outbox EXCEPT ![j].backoff = b] = outbox
    BY <1>3
  <2> QED BY <2>1
<1> QED BY <1>2, <1>3

LEMMA ReadyJob ==
  ASSUME TypeOK, Ready # {}
  PROVE  /\ (CHOOSE j \in Ready : \A i \in Ready : j <= i) \in Ready
         /\ Ready \subseteq DOMAIN outbox /\ DOMAIN outbox \subseteq Nat
<1>1. DOMAIN outbox \subseteq Nat /\ Ready \subseteq DOMAIN outbox
  BY DEF TypeOK, Ready
<1>2. \E j \in Ready : \A i \in Ready : j <= i
  BY <1>1, FirstOf
<1> QED BY <1>1, <1>2

\* The worker changes its job, its own state, the routes and what threads leave.
LEMMA WorkTyped == Typed /\ (Work \/ BackoffEnds) => Typed'
<1> SUFFICES ASSUME Typed, Work \/ BackoffEnds PROVE Typed'
  OBVIOUS
<1> USE DEF Typed, RouterTask, threads, cleanup, operations, routing
<1> DEFINE Workers == [pc : {"poll", "execute", "purge", "mark", "retry", "sleep"}, job : Nat]
<1>0. worker \in Workers /\ faults \in Nat
  BY DEF TypeOK
<1>1. CASE Poll
  <2>1. worker' \in Workers
    <3>1. CASE Ready # {} /\ worker' = [pc |-> "execute", job |-> CHOOSE j \in Ready : \A i \in Ready : j <= i]
      BY <3>1, ReadyJob
    <3>2. CASE worker' = [worker EXCEPT !.pc = "sleep"]
      BY <1>0, <3>2
    <3> QED BY <1>1, <3>1, <3>2 DEF Poll, WorkerGoto
  <2> QED BY <1>1, <2>1 DEF Poll, Fail, TypeOK
<1>2. CASE Awake
  BY <1>2 DEF Awake, Polling, TypeOK
<1>3. CASE Execute
  <2>1. worker' \in Workers
    BY <1>0, <1>3 DEF Execute, WorkerGoto
  <2>2. route' \in [Endpoints -> Threads \cup {NoOne}]
    BY <1>3 DEF Execute, PurgeIfOwned, TypeOK
  <2>3. residue' \in [Threads -> SUBSET Residue]
    BY <1>3 DEF Execute, TypeOK
  <2> QED BY <1>3, <2>1, <2>2, <2>3 DEF Execute, Fail, TypeOK
<1>4. CASE ExecutePurge
  <2>1. worker' \in Workers
    BY <1>0, <1>4 DEF ExecutePurge, WorkerGoto
  <2>2. route' \in [Endpoints -> Threads \cup {NoOne}]
    BY <1>4 DEF ExecutePurge, TypeOK
  <2> QED BY <1>4, <2>1, <2>2 DEF ExecutePurge, TypeOK
<1>5. CASE Mark
  <2>1. worker' \in Workers
    BY <1>0, <1>5 DEF Mark, WorkerGoto, Polling
  <2>2. outbox' \in Seq(Jobs)
    <3>1. \A j : [outbox EXCEPT ![j].done = TRUE] \in Seq(Jobs)
                  /\ [outbox EXCEPT ![j].backoff = TRUE] \in Seq(Jobs)
      BY OutboxMarked DEF TypeOK
    <3>2. \/ outbox' = outbox \/ outbox' = [outbox EXCEPT ![worker.job].done = TRUE]
          \/ outbox' = [outbox EXCEPT ![worker.job].backoff = TRUE]
      BY <1>5 DEF Mark
    <3>3. outbox \in Seq(Jobs)
      BY DEF TypeOK
    <3> QED BY <3>1, <3>2, <3>3, Zenon
  <2> QED BY <1>5, <2>1, <2>2 DEF Mark, Fail, TypeOK
<1>6. CASE BackoffEnds
  <2>1. outbox' \in Seq(Jobs)
    <3>1. \A j : [outbox EXCEPT ![j].backoff = FALSE] \in Seq(Jobs)
      BY OutboxMarked DEF TypeOK
    <3> QED BY <1>6, <3>1 DEF BackoffEnds
  <2> QED BY <1>6, <2>1 DEF BackoffEnds, TypeOK
<1> QED BY <1>1, <1>2, <1>3, <1>4, <1>5, <1>6 DEF Work

\* An owner goes on, is gone, or leaves its child behind.
LEMMA OwnersType ==
  ASSUME TypeOK, NEW o \in Operations
  PROVE  /\ Thread(o) \in Threads
         /\ [op EXCEPT ![o] = NoOwner] \in [Operations -> Owners]
         /\ [op EXCEPT ![o].orphan = TRUE] \in [Operations -> Owners]
         /\ \A s \in {"lookup", "archive", "refuse", "drain", "decide", "commit", "settle"} :
               [op EXCEPT ![o].pc = s] \in [Operations -> Owners]
         /\ \A e \in SUBSET Endpoints :
               [op EXCEPT ![o].pc = "frozen", ![o].snap = e] \in [Operations -> Owners]
<1>1. op \in [Operations -> Owners] /\ op[o] \in Owners
  BY DEF TypeOK
<1>2. Thread(o) \in Threads
  BY DEF TypeOK, Thread, Requests
<1>3. NoOwner \in Owners /\ [op[o] EXCEPT !.orphan = TRUE] \in Owners
  BY <1>1 DEF Owners, NoOwner
<1>4. \A s \in {"lookup", "archive", "refuse", "drain", "decide", "commit", "settle"} :
         [op[o] EXCEPT !.pc = s] \in Owners
  BY <1>1 DEF Owners
<1>5. \A e \in SUBSET Endpoints : [[op[o] EXCEPT !.pc = "frozen"] EXCEPT !.snap = e] \in Owners
  BY <1>1 DEF Owners
<1>6. ASSUME NEW e \in SUBSET Endpoints
      PROVE  [op EXCEPT ![o].pc = "frozen", ![o].snap = e] \in [Operations -> Owners]
  <2>1. [op EXCEPT ![o].pc = "frozen", ![o].snap = e]
          = [op EXCEPT ![o] = [[op[o] EXCEPT !.pc = "frozen"] EXCEPT !.snap = e]]
    BY <1>1
  <2> QED BY <1>1, <1>5, <2>1
<1> QED BY <1>1, <1>2, <1>3, <1>4, <1>6

\* The steps of an operation change its owner, the guards, the records and the outbox.
LEMMA OperationTyped ==
  ASSUME Typed, NEW o \in Operations, Request(o) \/ Owner(o) \/ OwnerDies(o)
  PROVE  Typed'
<1> USE DEF Typed, RouterTask, threads, cleanup, operations, routing
<1>0. /\ Thread(o) \in Threads
      /\ [op EXCEPT ![o] = NoOwner] \in [Operations -> Owners]
      /\ [op EXCEPT ![o].orphan = TRUE] \in [Operations -> Owners]
      /\ \A s \in {"lookup", "archive", "refuse", "drain", "decide", "commit", "settle"} :
            [op EXCEPT ![o].pc = s] \in [Operations -> Owners]
      /\ \A e \in SUBSET Endpoints :
            [op EXCEPT ![o].pc = "frozen", ![o].snap = e] \in [Operations -> Owners]
  BY OwnersType
<1>1. CASE Request(o)
  BY <1>1, OwnersType DEF Request, Goto, TypeOK
<1>2. CASE OwnerLookup(o)
  <2>1. op' \in [Operations -> Owners]
    <3>1. CASE \E e \in SUBSET (Endpoints \ bound[Thread(o)]) :
                  op' = [op EXCEPT ![o].pc = "frozen", ![o].snap = e]
      <4>1. PICK e \in SUBSET Endpoints : op' = [op EXCEPT ![o].pc = "frozen", ![o].snap = e]
        BY <3>1
      <4>2. [op EXCEPT ![o].pc = "frozen", ![o].snap = e] \in [Operations -> Owners]
        BY <1>0
      <4> QED BY <4>1, <4>2
    <3>2. CASE \/ op' = [op EXCEPT ![o] = NoOwner]
               \/ op' = [op EXCEPT ![o].pc = "archive"] \/ op' = [op EXCEPT ![o].pc = "refuse"]
      <4>1. /\ [op EXCEPT ![o] = NoOwner] \in [Operations -> Owners]
            /\ [op EXCEPT ![o].pc = "archive"] \in [Operations -> Owners]
            /\ [op EXCEPT ![o].pc = "refuse"] \in [Operations -> Owners]
        BY <1>0
      <4> QED BY <3>2, <4>1
    <3>3. \/ \E e \in SUBSET (Endpoints \ bound[Thread(o)]) :
                op' = [op EXCEPT ![o].pc = "frozen", ![o].snap = e]
          \/ op' = [op EXCEPT ![o] = NoOwner]
          \/ op' = [op EXCEPT ![o].pc = "archive"] \/ op' = [op EXCEPT ![o].pc = "refuse"]
      BY <1>2, Zenon DEF OwnerLookup, Goto
    <3> QED BY <3>1, <3>2, <3>3
  <2>2. freeze' \in [Threads -> Operations \cup {NoOne}]
    <3>1. freeze' = freeze \/ freeze' = [freeze EXCEPT ![Thread(o)] = o]
      BY <1>2 DEF OwnerLookup
    <3> QED BY <3>1 DEF TypeOK
  <2>3. faults' \in Nat
    <3>1. faults' = faults \/ faults' = faults + 1
      BY <1>2, Zenon DEF OwnerLookup, Fail
    <3> QED BY <3>1 DEF TypeOK
  <2>4. UNCHANGED <<threads, cleanup, request, ledger, reserved, running, routing>>
    BY <1>2 DEF OwnerLookup
  <2> QED BY <2>1, <2>2, <2>3, <2>4 DEF TypeOK
<1>3. CASE Reserve(o)
  <2>1. op' \in [Operations -> Owners]
    <3>1. \/ op' = [op EXCEPT ![o] = NoOwner] \/ op' = [op EXCEPT ![o].pc = "drain"]
          \/ op' = [op EXCEPT ![o].pc = "decide"] \/ op' = [op EXCEPT ![o].pc = "commit"]
      BY <1>3 DEF Reserve, DropGuards, Goto
    <3> QED BY <1>0, <3>1
  <2>2. /\ reserved' \in [Threads -> Operations \cup {NoOne}]
        /\ freeze' \in [Threads -> Operations \cup {NoOne}]
    BY <1>3 DEF Reserve, DropGuards, TypeOK
  <2> QED BY <1>3, <2>1, <2>2 DEF Reserve, TypeOK
<1>4. CASE Drain(o)
  <2>1. op' \in [Operations -> Owners]
    <3>1. op' = [op EXCEPT ![o].pc = "commit"] \/ op' = [op EXCEPT ![o].pc = "settle"]
      BY <1>4 DEF Drain, Goto
    <3>2. /\ [op EXCEPT ![o].pc = "commit"] \in [Operations -> Owners]
          /\ [op EXCEPT ![o].pc = "settle"] \in [Operations -> Owners]
      BY <1>0
    <3> QED BY <3>1, <3>2
  <2>2. running' = [running EXCEPT ![Thread(o)] = FALSE] \/ running' = running
    BY <1>4 DEF Drain
  <2>3. running' \in [Threads -> BOOLEAN]
    BY <2>2, Zenon DEF TypeOK
  <2>4. faults' \in Nat
    BY <1>4 DEF Drain, Fail, TypeOK
  <2>5. UNCHANGED <<threads, cleanup, request, ledger, freeze, reserved, routing>>
    BY <1>4 DEF Drain
  <2> QED BY <2>1, <2>3, <2>4, <2>5 DEF TypeOK
<1>5. CASE Commit(o)
  <2>1. op' \in [Operations -> Owners]
    BY <1>5, OwnersType DEF Commit, Goto
  <2>2. outbox' \in Seq(Jobs)
    <3>1. CleanupJobs(o) \in Seq(Jobs) /\ outbox \in Seq(Jobs)
      BY CleanupClean DEF Cleans, TypeOK
    <3>2. outbox \o CleanupJobs(o) \in Seq(Jobs)
      BY <3>1, ConcatProperties
    <3>3. outbox' = outbox \/ outbox' = outbox \o CleanupJobs(o)
      BY <1>5 DEF Commit
    <3> QED BY <3>1, <3>2, <3>3
  <2>3. /\ ledger' \in [Operations -> {"none", "applied", "rejected"}] /\ faults' \in Nat
    BY <1>5 DEF Commit, TypeOK
  <2>4. record' \in [Threads -> {"absent", "live", "archived", "deleted"}]
    BY <1>5 DEF Commit, TypeOK
  <2>5. bound' \in [Threads -> SUBSET Endpoints]
    BY <1>5 DEF Commit, TypeOK
  <2>6. owner' \in [Endpoints -> Threads \cup {NoOne}]
    BY <1>5 DEF Commit, TypeOK
  <2> QED BY <1>5, <2>1, <2>2, <2>3, <2>4, <2>5, <2>6 DEF Commit, TypeOK
<1>6. CASE Settle(o)
  <2>1. op' \in [Operations -> Owners]
    BY <1>6, OwnersType DEF Settle, DropGuards
  <2>2. /\ reserved' \in [Threads -> Operations \cup {NoOne}]
        /\ freeze' \in [Threads -> Operations \cup {NoOne}]
    BY <1>6 DEF Settle, DropGuards, TypeOK
  <2>3. worker' \in [pc : {"poll", "execute", "purge", "mark", "retry", "sleep"}, job : Nat]
    BY <1>6 DEF Settle, Polling, TypeOK
  <2> QED BY <1>6, <2>1, <2>2, <2>3 DEF Settle, TypeOK
<1>7. CASE OwnerDies(o)
  <2>1. op' \in [Operations -> Owners]
    <3>1. op' = [op EXCEPT ![o] = NoOwner] \/ op' = [op EXCEPT ![o].orphan = TRUE]
      BY <1>7 DEF OwnerDies, DropGuards
    <3> QED BY <1>0, <3>1
  <2>2. /\ reserved' \in [Threads -> Operations \cup {NoOne}]
        /\ freeze' \in [Threads -> Operations \cup {NoOne}]
    BY <1>7 DEF OwnerDies, DropGuards, TypeOK
  <2> QED BY <1>7, <2>1, <2>2 DEF OwnerDies, Fail, TypeOK
<1> QED BY <1>1, <1>2, <1>3, <1>4, <1>5, <1>6, <1>7 DEF Owner

LEMMA StepTyped == Typed /\ [Next]_vars => Typed'
<1> SUFFICES ASSUME Typed, [Next]_vars PROVE Typed'
  OBVIOUS
<1>1. CASE Restart
  <2>1. /\ op' \in [Operations -> Owners] /\ router' \in Routers /\ router'.pc = "idle"
        /\ worker' \in [pc : {"poll", "execute", "purge", "mark", "retry", "sleep"}, job : Nat]
    BY <1>1 DEF Restart, Owners, NoOwner, Routers, IdleRouter, Polling
  <2>2. residue' \in [Threads -> SUBSET Residue]
    BY <1>1 DEF Restart, Typed, TypeOK
  <2> QED BY <1>1, <2>1, <2>2 DEF Restart, Fail, Typed, TypeOK, RouterTask, NoMutation, threads
<1>2. ASSUME NEW t \in Threads, RunStarts(t) \/ RunWrites(t) \/ RunEnds(t) PROVE Typed'
  <2>1. running' \in [Threads -> BOOLEAN] /\ residue' \in [Threads -> SUBSET Residue]
    <3>1. \/ running' = [running EXCEPT ![t] = TRUE] \/ running' = running
          \/ running' = [running EXCEPT ![t] = FALSE]
      BY <1>2 DEF RunStarts, RunWrites, RunEnds
    <3>2. running' \in [Threads -> BOOLEAN]
      BY <3>1, Zenon DEF Typed, TypeOK
    <3>3. residue' \in [Threads -> SUBSET Residue]
      BY <1>2 DEF RunStarts, RunWrites, RunEnds, Typed, TypeOK, cleanup
    <3> QED BY <3>2, <3>3
  <2> QED BY <1>2, <2>1 DEF RunStarts, RunWrites, RunEnds, Typed, TypeOK, RouterTask, threads,
                            cleanup, operations, routing
<1>3. \A o \in Operations : Thread(o) \in Threads
  BY DEF Typed, TypeOK, Thread, Requests
<1>4. CASE UNCHANGED vars
  BY <1>4 DEF Typed, TypeOK, RouterTask, vars, threads, cleanup, operations, routing
<1> QED BY <1>1, <1>2, <1>3, <1>4, BindingsTyped, WorkTyped, OperationTyped DEF Next

\* Every reachable state is well typed: no record, guard, job or holder of a lock takes
\* a value that the code does not have.
THEOREM TypeCorrect == Spec => []TypeOK
<1>1. Typed => TypeOK
  BY DEF Typed
<1> QED BY <1>1, InitTyped, StepTyped, PTL DEF Spec

-----------------------------------------------------------------------------
(* Who holds an endpoint *)

\* The projection is that of the records, in both directions, and only the living
\* are bound.
Projected ==
    \A t \in Threads : \A e \in Endpoints :
        /\ e \in bound[t] <=> owner[e] = t
        /\ e \in bound[t] => record[t] = "live"

\* What the holder of the mutation lock has read still holds, but for a deletion
\* of the thread that had the endpoint.
LockView ==
    mutation # NoMutation =>
        /\ \/ owner[mutation.endpoint] = mutation.previous
           \/ owner[mutation.endpoint] = NoOne /\ Dead(mutation.previous)
        /\ mutation.by = "bind" => router.thread = mutation.target /\ mutation.target # NoOne

\* What the transaction of an operation does: the thread goes with its bindings
\* and its cleanup is queued; or only a thread that was not there is archived.
Ends(o) ==
    /\ op[o].pc = "commit" \/ ~Live(Thread(o))
    /\ record'[Thread(o)] = (IF request[o].kind = "archive" THEN "archived" ELSE "deleted")
    /\ bound'[Thread(o)] = {}
    /\ \A e \in Endpoints : owner'[e] = IF owner[e] = Thread(o) THEN NoOne ELSE owner[e]
    /\ outbox' = outbox \o CleanupJobs(o)
Spares(o) ==
    /\ UNCHANGED <<bound, owner, outbox>>
    /\ \/ record' = record
       \/ record[Thread(o)] = "absent" /\ record'[Thread(o)] = "archived"

\* A transaction does one or the other.
LEMMA CommitEffect ==
  ASSUME TypeOK, NEW o \in Operations, Commit(o)
  PROVE  /\ Thread(o) \in Threads
         /\ \A t \in Threads \ {Thread(o)} : record'[t] = record[t] /\ bound'[t] = bound[t]
         /\ Ends(o) \/ Spares(o)
         /\ UNCHANGED <<residue, worker, request, freeze, reserved, running, routing>>
<1>1. /\ Thread(o) \in Threads /\ record \in [Threads -> {"absent", "live", "archived", "deleted"}]
      /\ bound \in [Threads -> SUBSET Endpoints] /\ owner \in [Endpoints -> Threads \cup {NoOne}]
  BY DEF TypeOK, Thread, Requests
<1>2. CASE outbox' = outbox \o CleanupJobs(o) /\ bound' = [bound EXCEPT ![Thread(o)] = {}]
  <2>1. Ends(o) \/ Spares(o)
    BY <1>1 DEF Commit, Ends, Spares, threads
  <2>2. \A t \in Threads \ {Thread(o)} : record'[t] = record[t] /\ bound'[t] = bound[t]
    BY <1>1 DEF Commit, threads
  <2> QED BY <1>1, <2>1, <2>2 DEF Commit
<1>3. CASE UNCHANGED <<bound, owner, outbox>>
  <2>1. Ends(o) \/ Spares(o)
    BY <1>1 DEF Commit, Ends, Spares, threads
  <2>2. \A t \in Threads \ {Thread(o)} : record'[t] = record[t] /\ bound'[t] = bound[t]
    BY <1>1 DEF Commit, threads
  <2> QED BY <1>1, <2>1, <2>2 DEF Commit
<1> QED BY <1>2, <1>3 DEF Commit, threads

\* A write of a mutation moves the endpoint to its target, if there is one.
LEMMA WriteEffect ==
  ASSUME TypeOK, Projected, LockView, mutation # NoMutation, Writable(mutation), Write(mutation)
  PROVE  /\ mutation.endpoint \in Endpoints /\ mutation.target \in Threads \cup {NoOne}
         /\ \A t \in Threads : record'[t] = IF t = mutation.target THEN "live" ELSE record[t]
         /\ \A t \in Threads : bound'[t] = IF t = mutation.target THEN bound[t] \cup {mutation.endpoint}
                                           ELSE bound[t] \ {mutation.endpoint}
         /\ \A e \in Endpoints : owner'[e] = IF e = mutation.endpoint THEN mutation.target ELSE owner[e]
         /\ mutation.target # NoOne => record[mutation.target] \in {"absent", "live"}
<1> DEFINE m == mutation
<1>1. /\ m.endpoint \in Endpoints /\ m.target \in Threads \cup {NoOne}
      /\ m.previous \in Threads \cup {NoOne}
  BY DEF TypeOK, Mutations
<1>2. /\ record \in [Threads -> {"absent", "live", "archived", "deleted"}]
      /\ bound \in [Threads -> SUBSET Endpoints] /\ owner \in [Endpoints -> Threads \cup {NoOne}]
  BY DEF TypeOK
<1>3. m.target # NoOne => record[m.target] \in {"absent", "live"}
  BY <1>1, <1>2 DEF Writable, Dead
<1>4. \/ owner[m.endpoint] = m.previous
      \/ owner[m.endpoint] = NoOne
  BY DEF LockView
<1>5. \A t \in Threads : t # m.target /\ t # m.previous => m.endpoint \notin bound[t]
  BY <1>1, <1>4 DEF Projected
<1>6. \A t \in Threads : bound'[t] = IF t = m.target THEN bound[t] \cup {m.endpoint}
                                     ELSE bound[t] \ {m.endpoint}
  BY <1>2, <1>5 DEF Write
<1>7. \A t \in Threads : record'[t] = IF t = m.target THEN "live" ELSE record[t]
  BY <1>1, <1>2 DEF Write
<1>8. \A e \in Endpoints : owner'[e] = IF e = m.endpoint THEN m.target ELSE owner[e]
  BY <1>2 DEF Write
<1> QED BY <1>1, <1>3, <1>6, <1>7, <1>8

\* Only these steps write the records.
LEMMA ThreadsChange ==
  [Next]_vars => MutationCommits \/ (\E o \in Operations : Commit(o)) \/ UNCHANGED threads
<1> SUFFICES ASSUME [Next]_vars, ~MutationCommits, ~\E o \in Operations : Commit(o)
             PROVE  UNCHANGED threads
  OBVIOUS
<1>1. CASE Bindings
  BY <1>1 DEF Bindings, RouterStarts, RouterMutates, DispatchMoves, RouterPublishes, Resolve, Resolved
<1>2. CASE Work \/ BackoffEnds \/ Restart
  BY <1>2 DEF Work, Poll, Awake, Execute, ExecutePurge, Mark, BackoffEnds, Restart
<1>3. ASSUME NEW t, RunStarts(t) \/ RunWrites(t) \/ RunEnds(t) PROVE UNCHANGED threads
  BY <1>3 DEF RunStarts, RunWrites, RunEnds
<1>4. ASSUME NEW o \in Operations, Request(o) \/ Owner(o) \/ OwnerDies(o) PROVE UNCHANGED threads
  BY <1>4 DEF Request, Owner, OwnerLookup, Reserve, Drain, Settle, OwnerDies
<1> QED BY <1>1, <1>2, <1>3, <1>4 DEF Next, vars

\* Only these steps change the mutation lock or the router's task.
LEMMA LockChange ==
  [Next]_vars =>
     \/ Bindings \/ Restart \/ (\E o \in Operations : Commit(o))
     \/ UNCHANGED <<threads, mutation, router>>
<1> SUFFICES ASSUME [Next]_vars, ~Bindings, ~Restart, ~\E o \in Operations : Commit(o)
             PROVE  UNCHANGED <<threads, mutation, router>>
  OBVIOUS
<1> USE DEF routing
<1>2. CASE Work \/ BackoffEnds
  BY <1>2 DEF Work, Poll, Awake, Execute, ExecutePurge, Mark, BackoffEnds
<1>3. ASSUME NEW t, RunStarts(t) \/ RunWrites(t) \/ RunEnds(t)
      PROVE  UNCHANGED <<threads, mutation, router>>
  BY <1>3 DEF RunStarts, RunWrites, RunEnds
<1>4. ASSUME NEW o \in Operations, Request(o) \/ Owner(o) \/ OwnerDies(o)
      PROVE  UNCHANGED <<threads, mutation, router>>
  BY <1>4 DEF Request, Owner, OwnerLookup, Reserve, Drain, Settle, OwnerDies
<1> QED BY <1>2, <1>3, <1>4 DEF Next, vars

\* A write moves the endpoint in the records and in the projection at once.
LEMMA StepProjected == Typed /\ Projected /\ LockView /\ [Next]_vars => Projected'
<1> SUFFICES ASSUME Typed, Projected, LockView, [Next]_vars PROVE Projected'
  OBVIOUS
<1>1. CASE MutationCommits
  <2>1. CASE UNCHANGED threads
    BY <2>1 DEF Projected, threads
  <2>2. CASE Writable(mutation) /\ Write(mutation)
    <3>1. ASSUME NEW t \in Threads, NEW e \in Endpoints
          PROVE  /\ e \in bound'[t] <=> owner'[e] = t
                 /\ e \in bound'[t] => record'[t] = "live"
      <4>1. mutation # NoMutation
        BY <1>1 DEF MutationCommits
      <4>2. /\ record'[t] = IF t = mutation.target THEN "live" ELSE record[t]
            /\ bound'[t] = IF t = mutation.target THEN bound[t] \cup {mutation.endpoint}
                           ELSE bound[t] \ {mutation.endpoint}
            /\ owner'[e] = IF e = mutation.endpoint THEN mutation.target ELSE owner[e]
        BY <2>2, <4>1, WriteEffect DEF Typed
      <4>3. (e \in bound[t] <=> owner[e] = t) /\ (e \in bound[t] => record[t] = "live")
        BY DEF Projected
      <4> QED BY <4>2, <4>3
    <3> QED BY <3>1 DEF Projected
  <2> QED BY <1>1, <2>1, <2>2 DEF MutationCommits
<1>2. ASSUME NEW o \in Operations, Commit(o) PROVE Projected'
  <2>1. /\ \A t \in Threads \ {Thread(o)} : record'[t] = record[t] /\ bound'[t] = bound[t]
        /\ Ends(o) \/ Spares(o)
    BY <1>2, CommitEffect DEF Typed
  <2>2. ASSUME NEW t \in Threads, NEW e \in Endpoints
        PROVE  /\ e \in bound'[t] <=> owner'[e] = t
               /\ e \in bound'[t] => record'[t] = "live"
    <3>1. CASE Ends(o)
      BY <2>1, <3>1, NoOneAssumption DEF Ends, Projected
    <3>2. CASE Spares(o)
      BY <2>1, <3>2 DEF Spares, Projected
    <3> QED BY <2>1, <3>1, <3>2
  <2> QED BY <2>2 DEF Projected
<1>3. CASE UNCHANGED threads
  BY <1>3 DEF Projected, threads
<1> QED BY <1>1, <1>2, <1>3, ThreadsChange

\* Only these steps change what LockView is about.
LEMMA StepLockView == Typed /\ Projected /\ LockView /\ [Next]_vars => LockView'
<1> SUFFICES ASSUME Typed, Projected, LockView, [Next]_vars PROVE LockView'
  OBVIOUS
<1> USE DEF Typed, RouterTask, routing
<1>1. CASE RouterStarts \/ RouterPublishes \/ Resolve \/ Resolved
  <2>1. mutation.by # "bind" /\ UNCHANGED <<threads, mutation>>
    BY <1>1 DEF RouterStarts, RouterPublishes, Resolve, Resolved
  <2> QED BY <2>1 DEF LockView, Dead, threads
<1>2. CASE RouterMutates \/ DispatchMoves
  <2>1. CASE mutation' = mutation
    BY <1>2, <2>1 DEF RouterMutates, DispatchMoves, LockView, Dead, threads
  <2>2. CASE mutation' # mutation
    <3>1. /\ owner' = owner /\ owner[mutation'.endpoint] = mutation'.previous
          /\ mutation'.by = "bind" => router'.thread = mutation'.target /\ mutation'.target # NoOne
      BY <1>2, <2>2 DEF RouterMutates, DispatchMoves, MayBind, Live, threads
    <3> QED BY <3>1 DEF LockView
  <2> QED BY <2>1, <2>2
<1>3. CASE MutationCommits \/ Restart
  BY <1>3 DEF MutationCommits, Restart, LockView
<1>4. ASSUME NEW o \in Operations, Commit(o) PROVE LockView'
  <2>1. /\ \A t \in Threads \ {Thread(o)} : record'[t] = record[t]
        /\ Ends(o) \/ Spares(o)
        /\ UNCHANGED <<mutation, router>>
    BY <1>4, CommitEffect
  <2>2. mutation # NoMutation => /\ mutation.endpoint \in Endpoints
                                 /\ mutation.previous \in Threads \cup {NoOne}
    BY DEF TypeOK, Mutations
  <2>3. CASE Ends(o)
    BY <2>1, <2>2, <2>3 DEF LockView, Ends, Dead
  <2>4. CASE Spares(o)
    BY <2>1, <2>2, <2>4 DEF LockView, Spares, Dead
  <2> QED BY <2>1, <2>3, <2>4
<1>5. CASE UNCHANGED <<threads, mutation, router>>
  BY <1>5 DEF LockView, Dead, threads
<1> QED BY <1>1, <1>2, <1>3, <1>4, <1>5, LockChange DEF Bindings
-----------------------------------------------------------------------------
(* What an operation holds *)

\* The guards of an operation, by how far it has come; and nothing runs on the
\* thread of one that is about to commit.
Guarded(o) ==
    /\ op[o].pc \in {"drain", "decide", "commit"} => reserved[Thread(o)] = o
    /\ op[o].pc \in {"frozen", "drain", "commit"} /\ request[o].kind = "delete" =>
          freeze[Thread(o)] = o
    /\ op[o].pc = "archive" => request[o].kind = "archive"
    /\ op[o].pc = "commit" => ~running[Thread(o)]
Guards == \A o \in Operations : Guarded(o)

\* Another operation's step leaves what this one holds.
HeldBy(o) ==
    /\ op'[o] = op[o] \/ op'[o] = [op[o] EXCEPT !.orphan = TRUE]
    /\ request' = request
    /\ reserved[Thread(o)] = o => reserved'[Thread(o)] = o
    /\ freeze[Thread(o)] = o => freeze'[Thread(o)] = o
    /\ ~running[Thread(o)] /\ reserved[Thread(o)] = o => ~running'[Thread(o)]

LEMMA StillGuarded ==
  ASSUME TypeOK, NEW o \in Operations, Guarded(o), HeldBy(o)
  PROVE  Guarded(o)'
<1>1. op[o] \in Owners
  BY DEF TypeOK
<1>2. op'[o].pc = op[o].pc
  BY <1>1 DEF HeldBy, Owners
<1>3. Thread(o)' = Thread(o) /\ request'[o] = request[o]
  BY DEF HeldBy, Thread
<1> QED BY <1>2, <1>3 DEF Guarded, HeldBy

\* An owner gives up its own guards only.
LEMMA DropSpares ==
  ASSUME TypeOK, NEW o \in Operations, NEW p \in Operations \ {o}, DropGuards(p)
  PROVE  /\ op'[o] = op[o]
         /\ reserved[Thread(o)] = o => reserved'[Thread(o)] = o
         /\ freeze[Thread(o)] = o => freeze'[Thread(o)] = o
<1>1. Thread(o) \in Threads /\ op'[o] = op[o]
  BY DEF TypeOK, Thread, Requests, DropGuards
<1> QED BY <1>1 DEF DropGuards

\* An owner's own step, and what it means for another operation.
LEMMA OthersHold ==
  ASSUME TypeOK, NEW o \in Operations, NEW p \in Operations \ {o},
         Request(p) \/ Owner(p) \/ OwnerDies(p)
  PROVE  HeldBy(o)
<1> USE DEF operations, Goto
<1>0. /\ op \in [Operations -> Owners] /\ Thread(o) \in Threads /\ Thread(p) \in Threads
      /\ reserved \in [Threads -> Operations \cup {NoOne}]
      /\ freeze \in [Threads -> Operations \cup {NoOne}]
      /\ NoOne \notin Operations
  BY NoOneAssumption DEF TypeOK, Thread, Requests
<1>1. CASE Request(p)
  BY <1>0, <1>1 DEF Request, HeldBy
<1>2. CASE OwnerLookup(p)
  <2>1. op'[o] = op[o]
    BY <1>0, <1>2 DEF OwnerLookup
  <2> QED BY <1>0, <1>2, <2>1 DEF OwnerLookup, HeldBy
<1>3. CASE Reserve(p)
  <2>1. CASE DropGuards(p)
    BY <1>3, <2>1, DropSpares DEF Reserve, HeldBy
  <2>2. CASE ~DropGuards(p)
    BY <1>0, <1>3, <2>2 DEF Reserve, HeldBy
  <2> QED BY <2>1, <2>2
<1>4. CASE Drain(p)
  <2>1. op'[o] = op[o]
    BY <1>0, <1>4 DEF Drain
  <2>2. ~running[Thread(o)] => ~running'[Thread(o)]
    BY <1>0, <1>4 DEF Drain, TypeOK
  <2> QED BY <1>0, <1>4, <2>1, <2>2 DEF Drain, HeldBy
<1>5. CASE Commit(p)
  BY <1>0, <1>5 DEF Commit, HeldBy
<1>6. CASE Settle(p)
  BY <1>6, DropSpares DEF Settle, HeldBy
<1>7. CASE OwnerDies(p)
  <2>1. CASE DropGuards(p)
    BY <1>7, <2>1, DropSpares DEF OwnerDies, HeldBy
  <2>2. CASE ~DropGuards(p)
    BY <1>0, <1>7, <2>2 DEF OwnerDies, HeldBy
  <2> QED BY <2>1, <2>2
<1> QED BY <1>1, <1>2, <1>3, <1>4, <1>5, <1>6, <1>7 DEF Owner

\* An owner has what its next step needs.
LEMMA OwnHolds ==
  ASSUME TypeOK, NEW o \in Operations, Guarded(o), Request(o) \/ Owner(o) \/ OwnerDies(o)
  PROVE  Guarded(o)'
<1> USE DEF operations, Goto
<1>0. /\ op \in [Operations -> Owners] /\ op[o] \in Owners /\ Thread(o) \in Threads
      /\ Thread(o)' = request'[o].thread /\ request' = request
      /\ reserved \in [Threads -> Operations \cup {NoOne}]
      /\ freeze \in [Threads -> Operations \cup {NoOne}]
  <2>1. request' = request
    BY DEF Request, Owner, OwnerLookup, Reserve, Drain, Commit, Settle, OwnerDies
  <2> QED BY <2>1 DEF TypeOK, Thread, Requests
<1>1. Thread(o)' = Thread(o)
  BY <1>0 DEF Thread
<1>2. CASE Request(o) \/ Settle(o) \/ DropGuards(o)
  <2>1. op'[o].pc \in {"lookup", "none"}
    BY <1>0, <1>2 DEF Request, Settle, DropGuards, NoOwner, Owners
  <2> QED BY <2>1 DEF Guarded
<1>3. CASE OwnerLookup(o)
  <2>1. \/ op'[o].pc \in {"none", "refuse"}
        \/ op'[o].pc = "archive" /\ request[o].kind = "archive"
        \/ op'[o].pc = "frozen" /\ freeze'[Thread(o)] = o
    BY <1>0, <1>3 DEF OwnerLookup, NoOwner, Owners
  <2> QED BY <1>0, <1>1, <2>1 DEF Guarded
<1>4. CASE Reserve(o) /\ ~DropGuards(o)
  <2>1. reserved'[Thread(o)] = o /\ freeze' = freeze /\ running' = running
    BY <1>0, <1>4 DEF Reserve
  <2>2. CASE op[o].pc = "frozen"
    <3>1. op'[o].pc = "drain"
      BY <1>0, <1>4, <2>2 DEF Reserve, Owners
    <3> QED BY <1>0, <1>1, <2>1, <2>2, <3>1 DEF Guarded
  <2>3. CASE op[o].pc = "refuse"
    <3>1. op'[o].pc = "decide"
      BY <1>0, <1>4, <2>3 DEF Reserve, Owners
    <3> QED BY <1>0, <1>1, <2>1, <3>1 DEF Guarded
  <2>4. CASE op[o].pc = "archive"
    <3>1. op'[o].pc = "decide" \/ (op'[o].pc = "commit" /\ ~running[Thread(o)])
      <4>1. op' = [op EXCEPT ![o].pc = IF running[Thread(o)] THEN "decide" ELSE "commit"]
        BY <1>4, <2>4 DEF Reserve
      <4>2. CASE running[Thread(o)]
        <5>1. op' = [op EXCEPT ![o].pc = "decide"]
          BY <4>1, <4>2, Zenon
        <5> QED BY <1>0, <5>1
      <4>3. CASE ~running[Thread(o)]
        <5>1. op' = [op EXCEPT ![o].pc = "commit"]
          BY <4>1, <4>3, Zenon
        <5> QED BY <1>0, <4>3, <5>1
      <4> QED BY <4>2, <4>3
    <3> QED BY <1>0, <1>1, <2>1, <2>4, <3>1 DEF Guarded
  <2> QED BY <1>4, <2>2, <2>3, <2>4 DEF Reserve
<1>5. CASE Drain(o)
  <2>1. /\ reserved' = reserved /\ freeze' = freeze /\ op[o].pc = "drain"
        /\ op'[o].pc = "settle" \/ (op'[o].pc = "commit" /\ ~running'[Thread(o)])
    BY <1>0, <1>5 DEF Drain, Owners, TypeOK
  <2> QED BY <1>0, <1>1, <2>1 DEF Guarded
<1>6. CASE Commit(o)
  <2>1. op'[o].pc = "settle"
    BY <1>0, <1>6 DEF Commit, Owners
  <2> QED BY <2>1 DEF Guarded
<1>7. CASE OwnerDies(o) /\ ~DropGuards(o)
  <2>1. op'[o].pc = op[o].pc /\ UNCHANGED <<freeze, reserved, running>>
    BY <1>0, <1>7 DEF OwnerDies, Owners
  <2> QED BY <1>0, <1>1, <2>1 DEF Guarded
<1> QED BY <1>2, <1>3, <1>4, <1>5, <1>6, <1>7 DEF Owner

LEMMA StepGuards == Typed /\ Guards /\ [Next]_vars => Guards'
<1> SUFFICES ASSUME Typed, Guards, [Next]_vars, NEW o \in Operations PROVE Guarded(o)'
  BY DEF Guards
<1>0. /\ TypeOK /\ Guarded(o) /\ Thread(o) \in Threads /\ NoOne \notin Operations
  BY NoOneAssumption DEF Typed, TypeOK, Guards, Thread, Requests
<1>1. CASE UNCHANGED <<operations, running>>
  BY <1>1 DEF Guarded, Thread, operations, Guards
<1>2. CASE Restart
  <2>1. op'[o].pc = "none"
    BY <1>2 DEF Restart, NoOwner
  <2> QED BY <2>1 DEF Guarded
<1>3. ASSUME NEW t \in Threads, RunStarts(t) \/ RunWrites(t) \/ RunEnds(t) PROVE Guarded(o)'
  <2>1. UNCHANGED operations
    BY <1>3 DEF RunStarts, RunWrites, RunEnds
  <2>2. ~running[Thread(o)] /\ reserved[Thread(o)] = o => ~running'[Thread(o)]
    BY <1>0, <1>3 DEF RunStarts, RunWrites, RunEnds, TypeOK
  <2> QED BY <1>0, <2>1, <2>2, StillGuarded DEF HeldBy, operations
<1>4. ASSUME NEW p \in Operations, Request(p) \/ Owner(p) \/ OwnerDies(p) PROVE Guarded(o)'
  <2>1. CASE p = o
    BY <1>0, <1>4, <2>1, OwnHolds
  <2>2. CASE p # o
    BY <1>0, <1>4, <2>2, OthersHold, StillGuarded
  <2> QED BY <2>1, <2>2
<1>5. Bindings \/ Work \/ BackoffEnds \/ UNCHANGED vars => UNCHANGED <<operations, running>>
  BY DEF Bindings, RouterStarts, RouterMutates, DispatchMoves, MutationCommits, RouterPublishes,
         Resolve, Resolved, Work, Poll, Awake, Execute, ExecutePurge, Mark, BackoffEnds, vars
<1>6. \A p \in Operations : Thread(p) \in Threads
  BY <1>0 DEF TypeOK, Thread, Requests
<1> QED BY <1>1, <1>2, <1>3, <1>4, <1>5, <1>6 DEF Next

-----------------------------------------------------------------------------
(* Runs and jobs *)

RunningIsLive == \A t \in Threads : running[t] => record[t] = "live"

JobsOfDead == \A j \in DOMAIN outbox : record[outbox[j].thread] \in {"archived", "deleted"}

\* A thread is alive until its deletion ends it, and dead from then on.
LEMMA LifeEnds ==
  ASSUME Typed, Projected, LockView, [Next]_vars, NEW t \in Threads
  PROVE  /\ record[t] \in {"archived", "deleted"} => record'[t] \in {"archived", "deleted"}
         /\ \/ record[t] = "live" => record'[t] = "live"
            \/ \E o \in Operations : Commit(o) /\ Ends(o) /\ Thread(o) = t
<1>1. CASE MutationCommits
  <2>1. CASE Writable(mutation) /\ Write(mutation)
    <3>1. mutation # NoMutation
      BY <1>1 DEF MutationCommits
    <3>2. /\ record'[t] = IF t = mutation.target THEN "live" ELSE record[t]
          /\ mutation.target # NoOne => record[mutation.target] \in {"absent", "live"}
      BY <2>1, <3>1, WriteEffect DEF Typed
    <3> QED BY <3>2, NoOneAssumption
  <2>2. CASE UNCHANGED threads
    BY <2>2 DEF threads
  <2> QED BY <1>1, <2>1, <2>2 DEF MutationCommits
<1>2. ASSUME NEW o \in Operations, Commit(o)
      PROVE  /\ record[t] \in {"archived", "deleted"} => record'[t] \in {"archived", "deleted"}
             /\ \/ record[t] = "live" => record'[t] = "live"
                \/ Ends(o) /\ Thread(o) = t
  <2>1. /\ \A u \in Threads \ {Thread(o)} : record'[u] = record[u]
        /\ Ends(o) \/ Spares(o)
    BY <1>2, CommitEffect DEF Typed
  <2> QED BY <2>1 DEF Ends, Spares
<1>3. CASE UNCHANGED threads
  BY <1>3 DEF threads
<1> QED BY <1>1, <1>2, <1>3, ThreadsChange

\* Only these steps change which runs hold a lease.
LEMMA RunsChange ==
  [Next]_vars =>
     \/ \E o \in Operations : RunStarts(Thread(o)) \/ RunEnds(Thread(o)) \/ Drain(o)
     \/ Restart \/ running' = running
<1> SUFFICES ASSUME [Next]_vars, ~Restart,
                    ~\E o \in Operations : RunStarts(Thread(o)) \/ RunEnds(Thread(o)) \/ Drain(o)
             PROVE  running' = running
  OBVIOUS
<1>1. CASE Bindings \/ Work \/ BackoffEnds \/ UNCHANGED vars
  BY <1>1 DEF Bindings, RouterStarts, RouterMutates, DispatchMoves, MutationCommits,
         RouterPublishes, Resolve, Resolved, Work, Poll, Awake, Execute, ExecutePurge, Mark,
         BackoffEnds, vars
<1>2. ASSUME NEW t, RunWrites(t) PROVE running' = running
  BY <1>2 DEF RunWrites
<1>3. ASSUME NEW o \in Operations, ~Drain(o), Request(o) \/ Owner(o) \/ OwnerDies(o)
      PROVE  running' = running
  BY <1>3 DEF Request, Owner, OwnerLookup, Reserve, Commit, Settle, OwnerDies
<1> QED BY <1>1, <1>2, <1>3 DEF Next

\* A run has a lease when it starts, and a deletion waits until none has.
LEMMA StepRunningIsLive ==
  Typed /\ Projected /\ LockView /\ Guards /\ RunningIsLive /\ [Next]_vars => RunningIsLive'
<1> SUFFICES ASSUME Typed, Projected, LockView, Guards, RunningIsLive, [Next]_vars,
                    NEW t \in Threads, running'[t]
             PROVE  record'[t] = "live"
  BY DEF RunningIsLive
<1>0. TypeOK /\ (running[t] => record[t] = "live")
  BY DEF Typed, RunningIsLive
<1>1. running[t] \/ (record[t] = "live" /\ record' = record)
  <2>1. CASE running' = running
    BY <2>1
  <2>2. ASSUME NEW u \in Threads, RunStarts(u) PROVE running[t] \/ (record[t] = "live" /\ record' = record)
    BY <1>0, <2>2 DEF RunStarts, Live, TypeOK, threads
  <2>3. ASSUME NEW u \in Threads, RunEnds(u) PROVE running[t]
    BY <1>0, <2>3 DEF RunEnds, TypeOK
  <2>4. CASE Restart
    BY <2>4 DEF Restart
  <2>5. ASSUME NEW o \in Operations, Drain(o) PROVE running[t]
    <3>1. Thread(o) \in Threads
      BY <1>0 DEF TypeOK, Thread, Requests
    <3> QED BY <1>0, <2>5, <3>1 DEF Drain, TypeOK
  <2>6. \A o \in Operations : Thread(o) \in Threads
    BY <1>0 DEF TypeOK, Thread, Requests
  <2> QED BY <2>1, <2>2, <2>3, <2>4, <2>5, <2>6, RunsChange
<1>2. CASE record[t] = "live" /\ record' = record
  BY <1>2
<1>3. CASE running[t]
  <2>1. ASSUME NEW o \in Operations, Commit(o), Ends(o), Thread(o) = t PROVE FALSE
    <3>1. op[o].pc = "commit" \/ ~Live(t)
      BY <2>1 DEF Ends
    <3>2. op[o].pc = "commit" => ~running[t]
      BY <2>1 DEF Guards, Guarded
    <3> QED BY <1>0, <1>3, <3>1, <3>2, NoOneAssumption DEF Live
  <2> QED BY <1>0, <1>3, <2>1, LifeEnds
<1> QED BY <1>1, <1>2, <1>3
-----------------------------------------------------------------------------
(* The outbox *)

\* The worker marks a step of a thread's cleanup as done.
Marks(j) == Mark /\ worker.pc = "mark" /\ worker.job = j /\ worker' = Polling

\* A job stays what it is, and is done when the worker marks it.
Keeps(j) ==
    /\ j \in DOMAIN outbox'
    /\ outbox'[j].thread = outbox[j].thread /\ outbox'[j].step = outbox[j].step
    /\ outbox'[j].done = outbox[j].done \/ Marks(j)

Deletes(o, t) == Commit(o) /\ Ends(o) /\ Thread(o) = t

\* Only these steps write the outbox.
LEMMA OutboxChange ==
  [Next]_vars =>
     \/ outbox' = outbox \/ Mark \/ BackoffEnds
     \/ \E o \in Operations : Commit(o)
<1> SUFFICES ASSUME [Next]_vars, ~Mark, ~BackoffEnds, ~\E o \in Operations : Commit(o)
             PROVE  outbox' = outbox
  OBVIOUS
<1> USE DEF cleanup
<1>1. CASE Bindings \/ UNCHANGED vars
  BY <1>1 DEF Bindings, RouterStarts, RouterMutates, DispatchMoves, MutationCommits,
              RouterPublishes, Resolve, Resolved, vars
<1>2. CASE Work \/ Restart
  BY <1>2 DEF Work, Poll, Awake, Execute, ExecutePurge, Restart
<1>3. ASSUME NEW t, RunStarts(t) \/ RunWrites(t) \/ RunEnds(t) PROVE outbox' = outbox
  BY <1>3 DEF RunStarts, RunWrites, RunEnds
<1>4. ASSUME NEW o \in Operations, Request(o) \/ Owner(o) \/ OwnerDies(o) PROVE outbox' = outbox
  BY <1>4 DEF Request, Owner, OwnerLookup, Reserve, Drain, Settle, OwnerDies
<1> QED BY <1>1, <1>2, <1>3, <1>4 DEF Next

LEMMA ExceptKeeps ==
  ASSUME TypeOK, NEW k, NEW j \in DOMAIN outbox
  PROVE  /\ outbox[j] \in Jobs
         /\ LET q == [outbox EXCEPT ![k].backoff = TRUE]
            IN  DOMAIN q = DOMAIN outbox /\ q[j].thread = outbox[j].thread
                /\ q[j].step = outbox[j].step /\ q[j].done = outbox[j].done
         /\ LET q == [outbox EXCEPT ![k].backoff = FALSE]
            IN  DOMAIN q = DOMAIN outbox /\ q[j].thread = outbox[j].thread
                /\ q[j].step = outbox[j].step /\ q[j].done = outbox[j].done
         /\ LET q == [outbox EXCEPT ![k].done = TRUE]
            IN  DOMAIN q = DOMAIN outbox /\ q[j].thread = outbox[j].thread
                /\ q[j].step = outbox[j].step /\ (q[j].done = outbox[j].done \/ j = k)
<1>1. outbox[j] \in Jobs
  BY DEF TypeOK
<1> QED BY <1>1 DEF Jobs

\* A job stays in the outbox, and what is done stays done.
LEMMA JobsKept ==
  ASSUME Typed, [Next]_vars, NEW j \in DOMAIN outbox
  PROVE  Keeps(j)
<1> USE DEF Typed
<1>1. CASE outbox' = outbox
  BY <1>1 DEF Keeps
<1>2. CASE Mark /\ outbox' # outbox
  <2>1. \/ worker.pc = "mark" /\ worker' = Polling /\ outbox' = [outbox EXCEPT ![worker.job].done = TRUE]
        \/ outbox' = [outbox EXCEPT ![worker.job].backoff = TRUE]
    BY <1>2 DEF Mark
  <2>2. CASE worker.pc = "mark" /\ worker' = Polling /\ outbox' = [outbox EXCEPT ![worker.job].done = TRUE]
    BY <1>2, <2>2, ExceptKeeps DEF Keeps, Marks
  <2>3. CASE outbox' = [outbox EXCEPT ![worker.job].backoff = TRUE]
    BY <2>3, ExceptKeeps DEF Keeps
  <2> QED BY <2>1, <2>2, <2>3
<1>3. CASE BackoffEnds
  <2>1. PICK k \in DOMAIN outbox : outbox' = [outbox EXCEPT ![k].backoff = FALSE]
    BY <1>3 DEF BackoffEnds
  <2> QED BY <2>1, ExceptKeeps DEF Keeps
<1>4. ASSUME NEW o \in Operations, Commit(o) PROVE Keeps(j)
  <2>1. Ends(o) \/ Spares(o)
    BY <1>4, CommitEffect
  <2>2. CASE Spares(o)
    BY <2>2 DEF Spares, Keeps
  <2>3. CASE Ends(o)
    <3>1. outbox \in Seq(Jobs) /\ CleanupJobs(o) \in Seq(Jobs)
      BY CleanupClean DEF Cleans, TypeOK
    <3>2. Join(outbox, CleanupJobs(o), outbox')
      BY <2>3, <3>1, Joined DEF Ends
    <3> QED BY <3>2 DEF Join, Keeps
  <2> QED BY <2>1, <2>2, <2>3
<1> QED BY <1>1, <1>2, <1>3, <1>4, OutboxChange

\* A new job is of a thread that has just been deleted.
LEMMA NewJobs ==
  ASSUME Typed, [Next]_vars, NEW j \in DOMAIN outbox'
  PROVE  \/ j \in DOMAIN outbox
         \/ \E o \in Operations : Deletes(o, outbox'[j].thread)
<1> USE DEF Typed
<1>1. CASE outbox' = outbox
  BY <1>1
<1>2. CASE Mark \/ BackoffEnds
  BY <1>2 DEF Mark, BackoffEnds
<1>3. ASSUME NEW o \in Operations, Commit(o)
      PROVE  j \in DOMAIN outbox \/ Deletes(o, outbox'[j].thread)
  <2>1. Ends(o) \/ Spares(o)
    BY <1>3, CommitEffect
  <2>2. CASE Spares(o)
    BY <2>2 DEF Spares
  <2>3. CASE Ends(o)
    <3>1. outbox \in Seq(Jobs) /\ Cleans(CleanupJobs(o), o)
      BY CleanupClean DEF TypeOK
    <3>2. Join(outbox, CleanupJobs(o), outbox')
      BY <2>3, <3>1, Joined DEF Ends, Cleans
    <3>3. j \in DOMAIN outbox \/ outbox'[j].thread = Thread(o)
      BY <3>1, <3>2 DEF Join, Cleans
    <3> QED BY <1>3, <2>3, <3>3 DEF Deletes
  <2> QED BY <2>1, <2>2, <2>3
<1> QED BY <1>1, <1>2, <1>3, OutboxChange

\* A committed deletion queues what it takes to clean up after the thread.
LEMMA DeletionQueues ==
  ASSUME Typed, NEW o \in Operations, NEW t, Deletes(o, t)
  PROVE  /\ Pending(t, "session")'
         /\ request[o].kind = "delete" => \A s \in Residue : Pending(t, s)'
<1>1. outbox \in Seq(Jobs) /\ Cleans(CleanupJobs(o), o)
  BY CleanupClean DEF Typed, TypeOK
<1>2. Join(outbox, CleanupJobs(o), outbox')
  BY <1>1, Joined DEF Deletes, Ends, Cleans
<1>3. ASSUME NEW s, \E i \in DOMAIN CleanupJobs(o) : CleanupJobs(o)[i].step = s
      PROVE  Pending(t, s)'
  <2>1. PICK i \in DOMAIN CleanupJobs(o) : CleanupJobs(o)[i].step = s
    BY <1>3
  <2>2. CleanupJobs(o)[i].thread = t /\ ~CleanupJobs(o)[i].done
    BY <1>1, <2>1 DEF Cleans, Deletes
  <2>3. Len(outbox) + i \in DOMAIN outbox' /\ outbox'[Len(outbox) + i] = CleanupJobs(o)[i]
    BY <1>2, <2>1 DEF Join
  <2> QED BY <2>1, <2>2, <2>3 DEF Pending
<1> QED BY <1>1, <1>3 DEF Cleans

\* What is pending stays so until the worker marks it.
MarksStep(t, s) ==
    Mark /\ worker.pc = "mark" /\ theJob.thread = t /\ theJob.step = s /\ worker' = Polling

\* A job stays pending until the worker marks it done.
LEMMA PendingStays ==
  ASSUME Typed, [Next]_vars, NEW t, NEW s, Pending(t, s)
  PROVE  Pending(t, s)' \/ MarksStep(t, s)
<1>1. PICK j \in DOMAIN outbox : outbox[j].thread = t /\ outbox[j].step = s /\ ~outbox[j].done
  BY DEF Pending
<1>2. Keeps(j)
  BY <1>1, JobsKept
<1>3. CASE Marks(j)
  BY <1>1, <1>3 DEF Marks, MarksStep, theJob
<1>4. CASE outbox'[j].done = outbox[j].done
  BY <1>1, <1>2, <1>4 DEF Keeps, Pending
<1> QED BY <1>2, <1>3, <1>4 DEF Keeps

\* No deleted thread comes to life again, so that its jobs stay those of the dead.
LEMMA StepJobsOfDead ==
  Typed /\ Projected /\ LockView /\ JobsOfDead /\ [Next]_vars => JobsOfDead'
<1> SUFFICES ASSUME Typed, Projected, LockView, JobsOfDead, [Next]_vars, NEW j \in DOMAIN outbox'
             PROVE  record'[outbox'[j].thread] \in {"archived", "deleted"}
  BY DEF JobsOfDead
<1>1. CASE j \in DOMAIN outbox
  <2>1. outbox'[j].thread = outbox[j].thread
    BY <1>1, JobsKept DEF Keeps
  <2>2. outbox[j].thread \in Threads
    BY <1>1, ExceptKeeps DEF Typed, Jobs
  <2> QED BY <1>1, <2>1, <2>2, LifeEnds DEF JobsOfDead
<1>2. ASSUME NEW o \in Operations, Deletes(o, outbox'[j].thread)
      PROVE  record'[outbox'[j].thread] \in {"archived", "deleted"}
  BY <1>2 DEF Deletes, Ends
<1> QED BY <1>1, <1>2, NewJobs

-----------------------------------------------------------------------------
(* What a thread leaves behind *)

\* The router is about to publish a thread.
Publishing == router.pc \in {"publish", "found"}

\* The job the worker is at is not done, and is marked when it has been cleaned.
AtWork ==
    /\ worker.pc \in {"execute", "purge", "mark", "retry"} =>
          worker.job \in DOMAIN outbox /\ ~theJob.done
    /\ worker.pc = "purge" => theJob.step = "session"
    /\ worker.pc \in {"purge", "mark"} => theJob.step \notin residue[theJob.thread]
    /\ worker.pc = "mark" /\ theJob.step = "session" =>
          /\ \A e \in Endpoints : route[e] # theJob.thread
          /\ Publishing => router.thread # theJob.thread

\* Only these steps change what is left of the threads.
LEMMA ResidueChange ==
  [Next]_vars => Execute \/ (\E t : RunWrites(t)) \/ Restart \/ residue' = residue
<1> SUFFICES ASSUME [Next]_vars,
                    ~Execute, ~(\E t : RunWrites(t)), ~Restart
             PROVE  residue' = residue
  OBVIOUS
<1> USE DEF cleanup
<1>1. CASE Bindings \/ UNCHANGED vars
  BY <1>1 DEF Bindings, RouterStarts, RouterMutates, DispatchMoves, MutationCommits, RouterPublishes, Resolve, Resolved, vars
<1>2. CASE Work \/ BackoffEnds \/ Restart
  BY <1>2 DEF Work, Poll, Awake, ExecutePurge, Mark, BackoffEnds
<1>3. ASSUME NEW t, RunStarts(t) \/ RunWrites(t) \/ RunEnds(t) PROVE residue' = residue
  BY <1>3 DEF RunStarts, RunEnds
<1>4. ASSUME NEW o \in Operations, Request(o) \/ Owner(o) \/ OwnerDies(o) PROVE residue' = residue
  BY <1>4 DEF Request, Owner, OwnerLookup, Reserve, Drain, Commit, Settle, OwnerDies
<1> QED BY <1>1, <1>2, <1>3, <1>4 DEF Next

\* Only the run of a living thread leaves something.
LEMMA ResidueStays ==
  ASSUME Typed, RunningIsLive, [Next]_vars, NEW t \in Threads, NEW s \in residue'[t]
  PROVE  s \in residue[t] \/ (record[t] = "live" /\ record' = record)
<1>0. residue \in [Threads -> SUBSET Residue]
  BY DEF Typed, TypeOK
<1>1. CASE residue' = residue
  BY <1>1
<1>2. CASE Execute
  BY <1>0, <1>2 DEF Execute
<1>3. CASE Restart
  BY <1>0, <1>3 DEF Restart
<1>4. ASSUME NEW u, RunWrites(u) PROVE s \in residue[t] \/ (record[t] = "live" /\ record' = record)
  BY <1>0, <1>4 DEF RunWrites, RunningIsLive, threads
<1> QED BY <1>1, <1>2, <1>3, <1>4, ResidueChange

\* A thread is deleted by the operation that deletes it.
LEMMA DeletedNow ==
  ASSUME Typed, Projected, LockView, [Next]_vars, NEW t \in Threads,
         record[t] # "deleted", record'[t] = "deleted"
  PROVE  \E o \in Operations : Deletes(o, t) /\ request[o].kind = "delete"
<1>1. CASE MutationCommits
  <2>1. CASE Writable(mutation) /\ Write(mutation)
    <3>1. mutation # NoMutation
      BY <1>1 DEF MutationCommits
    <3>2. record'[t] = IF t = mutation.target THEN "live" ELSE record[t]
      BY <2>1, <3>1, WriteEffect DEF Typed
    <3> QED BY <3>2
  <2>2. CASE UNCHANGED threads
    BY <2>2 DEF threads
  <2> QED BY <1>1, <2>1, <2>2 DEF MutationCommits
<1>2. ASSUME NEW o \in Operations, Commit(o)
      PROVE  Deletes(o, t) /\ request[o].kind = "delete"
  <2>1. /\ \A u \in Threads \ {Thread(o)} : record'[u] = record[u]
        /\ Ends(o) \/ Spares(o)
    BY <1>2, CommitEffect DEF Typed
  <2>2. request[o].kind \in {"archive", "delete"}
    BY DEF Typed, TypeOK, Requests
  <2> QED BY <1>2, <2>1, <2>2 DEF Ends, Spares, Deletes
<1>3. CASE UNCHANGED threads
  BY <1>3 DEF threads
<1> QED BY <1>1, <1>2, <1>3, ThreadsChange

\* A deletion queues a job for all that is left, and what a job removes does not come back.
LEMMA StepCleaned ==
  /\ Typed /\ Projected /\ LockView /\ RunningIsLive /\ AtWork /\ CleanedStaysClean
  /\ [Next]_vars
  => CleanedStaysClean'
<1> SUFFICES ASSUME Typed, Projected, LockView, RunningIsLive, AtWork, CleanedStaysClean, [Next]_vars,
                    NEW t \in Threads, NEW s \in Residue,
                    record'[t] = "deleted", s \in residue'[t]
             PROVE  Pending(t, s)'
  BY DEF CleanedStaysClean
<1>1. s \in residue[t]
  BY ResidueStays
<1>2. CASE record[t] = "deleted"
  <2>1. Pending(t, s)
    BY <1>1, <1>2 DEF CleanedStaysClean
  <2>2. ~MarksStep(t, s)
    BY <1>1 DEF MarksStep, AtWork
  <2> QED BY <2>1, <2>2, PendingStays
<1>3. CASE record[t] # "deleted"
  <2>1. PICK o \in Operations : Deletes(o, t) /\ request[o].kind = "delete"
    BY <1>3, DeletedNow
  <2> QED BY <2>1, DeletionQueues
<1> QED BY <1>2, <1>3

-----------------------------------------------------------------------------
(* Routes *)

\* A route, or a thread about to be one, is alive or about to be purged.
Known(t) == record[t] = "live" \/ Pending(t, "session")
Named(t) == (\E e \in Endpoints : route[e] = t) \/ (Publishing /\ router.thread = t)
Routed ==
    /\ Publishing => router.thread \in Threads
    /\ \A t \in Threads : Named(t) => Known(t)

LEMMA KnownStays ==
  ASSUME Typed, Projected, LockView, [Next]_vars, NEW t \in Threads, Known(t)
  PROVE  Known(t)' \/ MarksStep(t, "session")
<1>1. CASE record[t] = "live"
  <2>1. CASE record'[t] = "live"
    BY <2>1 DEF Known
  <2>2. ASSUME NEW o \in Operations, Commit(o), Ends(o), Thread(o) = t PROVE Known(t)'
    BY <2>2, DeletionQueues DEF Deletes, Known
  <2> QED BY <1>1, <2>1, <2>2, LifeEnds
<1>2. CASE Pending(t, "session")
  BY <1>2, PendingStays DEF Known
<1> QED BY <1>1, <1>2 DEF Known

\* Only these steps change the routes.
LEMMA RoutesChange ==
  [Next]_vars => RouterPublishes \/ Resolve \/ Resolved \/ Execute \/ ExecutePurge \/ Restart \/ route' = route
<1> SUFFICES ASSUME [Next]_vars,
                    ~RouterPublishes, ~Resolve, ~Resolved, ~Execute, ~ExecutePurge, ~Restart
             PROVE  route' = route
  OBVIOUS
<1> USE DEF routing
<1>1. CASE Bindings \/ UNCHANGED vars
  BY <1>1 DEF Bindings, RouterStarts, RouterMutates, DispatchMoves, MutationCommits, vars
<1>2. CASE Work \/ BackoffEnds \/ Restart
  BY <1>2 DEF Work, Poll, Awake, Mark, BackoffEnds
<1>3. ASSUME NEW t, RunStarts(t) \/ RunWrites(t) \/ RunEnds(t) PROVE route' = route
  BY <1>3 DEF RunStarts, RunWrites, RunEnds
<1>4. ASSUME NEW o \in Operations, Request(o) \/ Owner(o) \/ OwnerDies(o) PROVE route' = route
  BY <1>4 DEF Request, Owner, OwnerLookup, Reserve, Drain, Commit, Settle, OwnerDies
<1> QED BY <1>1, <1>2, <1>3, <1>4 DEF Next

\* A new route is to the thread that was about to be one.
LEMMA RouteSteps ==
  ASSUME Typed, [Next]_vars, NEW e \in Endpoints
  PROVE  route'[e] \in {route[e], NoOne} \/ (Publishing /\ route'[e] = router.thread)
<1>0. route \in [Endpoints -> Threads \cup {NoOne}]
  BY DEF Typed, TypeOK
<1>1. CASE route' = route
  BY <1>1
<1>2. CASE RouterPublishes \/ Resolve \/ Resolved
  BY <1>0, <1>2 DEF RouterPublishes, Resolve, Resolved, Publishing
<1>3. CASE Execute \/ ExecutePurge \/ Restart
  BY <1>0, <1>3 DEF Execute, ExecutePurge, Restart, PurgeIfOwned
<1> QED BY <1>1, <1>2, <1>3, RoutesChange

\* Only these steps change the task that holds the router lock.
LEMMA RouterChange ==
  [Next]_vars => RouterStarts \/ RouterMutates \/ MutationCommits \/ RouterPublishes \/ Resolve \/ Resolved \/ Restart \/ router' = router
<1> SUFFICES ASSUME [Next]_vars,
                    ~RouterStarts, ~RouterMutates, ~MutationCommits, ~RouterPublishes, ~Resolve, ~Resolved, ~Restart
             PROVE  router' = router
  OBVIOUS
<1> USE DEF routing
<1>1. CASE Bindings \/ UNCHANGED vars
  BY <1>1 DEF Bindings, DispatchMoves, vars
<1>2. CASE Work \/ BackoffEnds \/ Restart
  BY <1>2 DEF Work, Poll, Awake, Execute, ExecutePurge, Mark, BackoffEnds
<1>3. ASSUME NEW t, RunStarts(t) \/ RunWrites(t) \/ RunEnds(t) PROVE router' = router
  BY <1>3 DEF RunStarts, RunWrites, RunEnds
<1>4. ASSUME NEW o \in Operations, Request(o) \/ Owner(o) \/ OwnerDies(o) PROVE router' = router
  BY <1>4 DEF Request, Owner, OwnerLookup, Reserve, Drain, Commit, Settle, OwnerDies
<1> QED BY <1>1, <1>2, <1>3, <1>4 DEF Next

\* A thread that comes to be about to be routed to is alive.
LEMMA PublishSteps ==
  ASSUME Typed, Projected, LockView, [Next]_vars, Publishing'
  PROVE  \/ Publishing /\ router' = router
         \/ router'.thread \in Threads /\ record'[router'.thread] = "live"
<1> USE DEF Typed
<1>0. TypeOK /\ router \in Routers
  BY DEF TypeOK
<1>1. CASE router' = router
  BY <1>1 DEF Publishing
<1>2. CASE MutationCommits /\ router' # router
  <2>1. router' # IdleRouter
    BY DEF Publishing, IdleRouter
  <2>2. /\ mutation # NoMutation /\ Writable(mutation) /\ Write(mutation) /\ mutation.by # "move"
        /\ router' = [router EXCEPT !.pc = IF @ = "bind" THEN "publish" ELSE "purge"]
    BY <1>2, <2>1 DEF MutationCommits
  <2>3. router.pc = "bind" /\ mutation.by = "bind"
    BY <1>0, <2>2 DEF Publishing, Routers, RouterTask, TypeOK, Mutations
  <2>4. router'.thread = mutation.target /\ mutation.target # NoOne
    BY <1>0, <2>2, <2>3 DEF LockView, Routers
  <2> QED BY <1>0, <2>2, <2>4, WriteEffect
<1>3. CASE Resolve
  <2>1. PICK e \in Endpoints : router' = IF owner[e] = NoOne THEN IdleRouter
                                         ELSE [pc |-> "found", endpoint |-> e, thread |-> owner[e]]
    BY <1>3 DEF Resolve
  <2>2. owner[e] # NoOne /\ router'.thread = owner[e]
    BY <2>1 DEF Publishing, IdleRouter
  <2>3. owner[e] \in Threads /\ record' = record
    BY <1>0, <1>3, <2>2 DEF TypeOK, Resolve, threads
  <2> QED BY <2>2, <2>3 DEF Projected
<1>4. CASE RouterStarts \/ RouterMutates \/ RouterPublishes \/ Resolved \/ Restart
  BY <1>0, <1>4 DEF RouterStarts, RouterMutates, RouterPublishes, Resolved, Restart, Publishing,
                    IdleRouter, Routers
<1> QED BY <1>1, <1>2, <1>3, <1>4, RouterChange

\* A route is made to a living thread, and a deletion queues its purge.
LEMMA StepRouted ==
  Typed /\ Projected /\ LockView /\ Routed /\ AtWork /\ [Next]_vars => Routed'
<1> SUFFICES ASSUME Typed, Projected, LockView, Routed, AtWork, [Next]_vars PROVE Routed'
  OBVIOUS
<1>1. Publishing' => router'.thread \in Threads
  BY PublishSteps DEF Routed
<1>2. ASSUME NEW t \in Threads, Named(t)' PROVE Known(t)'
  <2>1. CASE Named(t)
    <3>1. Known(t) /\ ~MarksStep(t, "session")
      BY <2>1 DEF Routed, Named, MarksStep, AtWork
    <3> QED BY <3>1, KnownStays
  <2>2. CASE ~Named(t)
    <3>1. \A e \in Endpoints : route'[e] # t
      BY <2>2, RouteSteps, NoOneAssumption DEF Named
    <3>2. Publishing' /\ router'.thread = t
      BY <1>2, <3>1 DEF Named
    <3>3. record'[t] = "live"
      BY <2>2, <3>2, PublishSteps DEF Named
    <3> QED BY <3>3 DEF Known
  <2> QED BY <2>1, <2>2
<1> QED BY <1>1, <1>2 DEF Routed

-----------------------------------------------------------------------------
(* The worker *)

\* Only these steps change what the worker is at, or it polls or sleeps after them.
LEMMA WorkerChange ==
  Typed /\ [Next]_vars =>
     Poll \/ Execute \/ ExecutePurge \/ worker' = worker \/ worker'.pc \in {"poll", "sleep"}
<1> SUFFICES ASSUME Typed, [Next]_vars, ~Poll, ~Execute, ~ExecutePurge, worker' # worker
             PROVE  worker'.pc \in {"poll", "sleep"}
  OBVIOUS
<1> USE DEF cleanup, Polling
<1>1. CASE Bindings \/ UNCHANGED vars
  BY <1>1 DEF Bindings, RouterStarts, RouterMutates, DispatchMoves, MutationCommits,
              RouterPublishes, Resolve, Resolved, vars
<1>2. CASE Work \/ BackoffEnds \/ Restart
  <2>1. CASE Mark
    <3>1. worker' = Polling \/ worker' = [worker EXCEPT !.pc = "sleep"]
      BY <2>1 DEF Mark, WorkerGoto
    <3>2. "pc" \in DOMAIN worker
      BY DEF Typed, TypeOK
    <3> QED BY <3>1, <3>2
  <2> QED BY <1>2, <2>1 DEF Work, Awake, BackoffEnds, Restart
<1>3. ASSUME NEW t, RunStarts(t) \/ RunWrites(t) \/ RunEnds(t) PROVE worker' = worker
  BY <1>3 DEF RunStarts, RunWrites, RunEnds
<1>4. ASSUME NEW o \in Operations, Request(o) \/ Owner(o) \/ OwnerDies(o)
      PROVE  worker'.pc \in {"poll", "sleep"}
  BY <1>4 DEF Request, Owner, OwnerLookup, Reserve, Drain, Commit, Settle, OwnerDies
<1> QED BY <1>1, <1>2, <1>3, <1>4 DEF Next

\* Nobody else is at the job of the worker, and nothing it removed is written again.
LEMMA StepAtWork ==
  Typed /\ Projected /\ LockView /\ RunningIsLive /\ JobsOfDead /\ AtWork /\ [Next]_vars => AtWork'
<1> SUFFICES ASSUME Typed, Projected, LockView, RunningIsLive, JobsOfDead, AtWork, [Next]_vars
             PROVE  AtWork'
  OBVIOUS
<1>0. TypeOK
  BY DEF Typed
<1>1. ASSUME worker' = worker, worker.pc \in {"execute", "purge", "mark", "retry"}
      PROVE  AtWork'
  <2>1. worker.job \in DOMAIN outbox /\ ~theJob.done
    BY <1>1 DEF AtWork
  <2>2. Keeps(worker.job) /\ ~Marks(worker.job)
    BY <1>1, <2>1, JobsKept DEF Marks, Polling
  <2>3. /\ worker.job \in DOMAIN outbox' /\ ~theJob'.done
        /\ theJob'.thread = theJob.thread /\ theJob'.step = theJob.step
    BY <1>1, <2>1, <2>2 DEF Keeps, theJob
  <2>4. theJob.thread \in Threads /\ record[theJob.thread] \in {"archived", "deleted"}
    BY <1>0, <2>1, ExceptKeeps DEF Jobs, JobsOfDead, theJob
  <2>5. theJob.step \notin residue[theJob.thread] => theJob.step \notin residue'[theJob.thread]
    BY <2>4, ResidueStays
  <2>6. ASSUME worker.pc = "mark", theJob.step = "session"
        PROVE  /\ \A e \in Endpoints : route'[e] # theJob.thread
               /\ Publishing' => router'.thread # theJob.thread
    <3>1. \A e \in Endpoints : route'[e] # theJob.thread
      BY <2>4, <2>6, RouteSteps, NoOneAssumption DEF AtWork
    <3>2. record'[theJob.thread] # "live"
      BY <2>4, LifeEnds
    <3> QED BY <2>6, <3>1, <3>2, PublishSteps DEF AtWork
  <2> QED BY <1>1, <2>3, <2>5, <2>6 DEF AtWork
<1>2. ASSUME worker'.pc \in {"poll", "sleep"} PROVE AtWork'
  BY <1>2 DEF AtWork
<1>3. CASE Poll /\ worker'.pc \notin {"poll", "sleep"}
  <2>1. worker' = [pc |-> "execute", job |-> CHOOSE j \in Ready : \A i \in Ready : j <= i]
        /\ Ready # {} /\ outbox' = outbox
    BY <1>0, <1>3 DEF Poll, WorkerGoto, TypeOK
  <2>2. worker'.pc = "execute" /\ worker'.job \in Ready
    BY <1>0, <2>1, ReadyJob
  <2> QED BY <2>1, <2>2 DEF Ready, AtWork, theJob
<1>4. CASE Execute
  <2>1. /\ worker.job \in DOMAIN outbox /\ ~theJob.done /\ worker.pc = "execute"
        /\ outbox' = outbox /\ router' = router
    BY <1>4 DEF AtWork, Execute
  <2>2. worker'.job = worker.job /\ theJob' = theJob /\ theJob.thread \in Threads
    <3>1. worker' = [worker EXCEPT !.pc = worker'.pc]
      BY <1>0, <1>4 DEF Execute, WorkerGoto, TypeOK
    <3>2. worker'.job = worker.job
      BY <1>0, <3>1 DEF TypeOK
    <3>3. outbox[worker.job] \in Jobs
      BY <1>0, <2>1, ExceptKeeps
    <3> QED BY <2>1, <3>2, <3>3 DEF theJob, Jobs
  <2>3. CASE worker'.pc = "retry"
    BY <2>1, <2>2, <2>3 DEF AtWork
  <2>4. CASE theJob.step = "invalidate" /\ worker'.pc = "mark" /\ residue' = residue
    BY <1>0, <2>1, <2>2, <2>4 DEF AtWork, TypeOK, Residue
  <2>5. CASE /\ theJob.step \in Residue
             /\ residue' = [residue EXCEPT ![theJob.thread] = @ \ {theJob.step}]
             /\ worker'.pc = IF theJob.step = "session" THEN "purge" ELSE "mark"
    <3>1. theJob.step \notin residue'[theJob.thread]
      BY <1>0, <2>2, <2>5 DEF TypeOK
    <3> QED BY <2>1, <2>2, <2>5, <3>1 DEF AtWork
  <2> QED BY <1>0, <1>4, <2>3, <2>4, <2>5 DEF Execute, WorkerGoto, TypeOK
<1>5. CASE ExecutePurge
  <2>1. /\ worker.job \in DOMAIN outbox /\ ~theJob.done /\ worker.pc = "purge"
        /\ theJob.step = "session" /\ theJob.step \notin residue[theJob.thread]
        /\ UNCHANGED <<outbox, residue, router>> /\ router.pc = "idle"
    BY <1>5 DEF AtWork, ExecutePurge
  <2>2. /\ worker'.job = worker.job /\ worker'.pc = "mark" /\ theJob' = theJob
        /\ theJob.thread \in Threads
    BY <1>0, <1>5, <2>1, ExceptKeeps DEF ExecutePurge, WorkerGoto, TypeOK, theJob, Jobs
  <2>3. \A e \in Endpoints : route'[e] # theJob.thread
    BY <1>5, <2>2, NoOneAssumption DEF ExecutePurge
  <2>4. outbox' = outbox /\ residue' = residue /\ router' = router
    BY <2>1
  <2>5. worker'.job \in DOMAIN outbox' /\ ~theJob'.done /\ theJob'.step = "session"
    BY <2>1, <2>2, <2>4
  <2>6. theJob'.step \notin residue'[theJob'.thread]
    BY <2>1, <2>2, <2>4
  <2>7. (\A e \in Endpoints : route'[e] # theJob'.thread) /\ ~Publishing'
    BY <2>1, <2>2, <2>3, <2>4 DEF Publishing
  <2> QED BY <2>2, <2>5, <2>6, <2>7 DEF AtWork
<1>6. worker.pc \in {"poll", "execute", "purge", "mark", "retry", "sleep"}
  BY <1>0 DEF TypeOK
<1> QED BY <1>1, <1>2, <1>3, <1>4, <1>5, <1>6, WorkerChange

-----------------------------------------------------------------------------
(* The inductive invariant, and what follows from it. *)

IInv ==
    Typed /\ Projected /\ LockView /\ Guards /\ RunningIsLive /\ JobsOfDead
    /\ Routed /\ AtWork /\ CleanedStaysClean

LEMMA InitInv == Init => IInv
<1> SUFFICES ASSUME Init PROVE IInv
  OBVIOUS
<1>1. /\ router.pc = "idle" /\ worker.pc = "poll" /\ DOMAIN outbox = {}
      /\ mutation = NoMutation
  BY DEF Init, IdleRouter, Polling
<1>2. Typed
  BY InitTyped
<1>3. Projected /\ RunningIsLive
  BY NoOneAssumption DEF Init, Projected, RunningIsLive
<1>4. Guards
  <2>1. \A o \in Operations : op[o].pc = "none"
    BY DEF Init, NoOwner
  <2> QED BY <2>1 DEF Guards, Guarded
<1>5. JobsOfDead /\ LockView /\ AtWork
  BY <1>1 DEF JobsOfDead, LockView, AtWork
<1>6. Routed
  BY <1>1, NoOneAssumption DEF Init, Routed, Named, Publishing
<1>7. CleanedStaysClean
  BY DEF Init, CleanedStaysClean
<1> QED BY <1>2, <1>3, <1>4, <1>5, <1>6, <1>7 DEF IInv

LEMMA StepInv == IInv /\ [Next]_vars => IInv'
  BY StepTyped, StepProjected, StepLockView, StepGuards, StepRunningIsLive, StepJobsOfDead,
     StepRouted, StepAtWork, StepCleaned DEF IInv

LEMMA ImpliesInvariant == IInv => DeletionInvariant
<1> SUFFICES ASSUME IInv PROVE DeletionInvariant
  OBVIOUS
<1> USE DEF IInv
<1>1. TypeOK /\ CleanedStaysClean
  BY DEF Typed
<1>2. OneHolder
  BY <1>1 DEF OneHolder, Projected, TypeOK
<1>3. GuardsOutliveChild
  BY DEF Guards, Guarded, GuardsOutliveChild, HasChild
<1>4. StaleRouteIsPurged
  <2> SUFFICES ASSUME NEW e \in Endpoints, Dead(route[e]) PROVE Pending(route[e], "session")
    BY DEF StaleRouteIsPurged
  <2>1. route[e] \in Threads /\ record[route[e]] # "live"
    BY <1>1 DEF TypeOK, Dead
  <2>2. Known(route[e])
    BY <2>1 DEF Routed, Named
  <2> QED BY <2>1, <2>2 DEF Known
<1> QED BY <1>1, <1>2, <1>3, <1>4 DEF DeletionInvariant

\* Whatever is interleaved, fails, dies or is restarted: an endpoint has one holder,
\* the guards of a delete outlive the task that asked for it, a route to a thread
\* that is gone is about to be purged, and what was cleaned stays clean.
THEOREM Deletion == Spec => []DeletionInvariant
  BY InitInv, StepInv, ImpliesInvariant, PTL DEF Spec

\* The worker changes the routes of the dead only.
LEMMA WorkSparesTheLiving ==
  ASSUME IInv, Work, NEW e \in Endpoints, route'[e] # route[e]
  PROVE  Dead(route[e])
<1>1. TypeOK /\ JobsOfDead /\ AtWork
  BY DEF IInv, Typed
<1>2. route \in [Endpoints -> Threads \cup {NoOne}]
  BY <1>1 DEF TypeOK
<1>3. Execute \/ ExecutePurge
  BY DEF Work, Poll, Awake, Mark, routing
<1>4. theJob.thread \in Threads /\ record[theJob.thread] \in {"archived", "deleted"}
  <2>1. worker.job \in DOMAIN outbox
    BY <1>1, <1>3 DEF AtWork, Execute, ExecutePurge
  <2> QED BY <1>1, <2>1, ExceptKeeps DEF JobsOfDead, theJob, Jobs
<1>5. route[e] = theJob.thread
  <2>1. CASE Execute
    BY <1>2, <2>1 DEF Execute, PurgeIfOwned
  <2>2. CASE ExecutePurge
    BY <1>2, <2>2 DEF ExecutePurge
  <2> QED BY <1>3, <2>1, <2>2
<1> QED BY <1>4, <1>5, NoOneAssumption DEF Dead

\* Only the transaction of an operation writes the ledger.
LEMMA LedgerChange ==
  [Next]_vars => (\E o \in Operations : Commit(o)) \/ ledger' = ledger
<1> SUFFICES ASSUME [Next]_vars, ~(\E o \in Operations : Commit(o)) PROVE ledger' = ledger
  OBVIOUS
<1> USE DEF operations
<1>1. CASE Bindings \/ UNCHANGED vars
  BY <1>1 DEF Bindings, RouterStarts, RouterMutates, DispatchMoves, MutationCommits,
              RouterPublishes, Resolve, Resolved, vars
<1>2. CASE Work \/ BackoffEnds \/ Restart
  BY <1>2 DEF Work, Poll, Awake, Execute, ExecutePurge, Mark, BackoffEnds, Restart
<1>3. ASSUME NEW t, RunStarts(t) \/ RunWrites(t) \/ RunEnds(t) PROVE ledger' = ledger
  BY <1>3 DEF RunStarts, RunWrites, RunEnds
<1>4. ASSUME NEW o \in Operations, Request(o) \/ Owner(o) \/ OwnerDies(o) PROVE ledger' = ledger
  BY <1>4 DEF Request, Owner, OwnerLookup, Reserve, Drain, Settle, OwnerDies
<1> QED BY <1>1, <1>2, <1>3, <1>4 DEF Next

\* A delete that is applied takes no enabled binding away.
LEMMA DeleteSparesTheBound ==
  ASSUME IInv, [Next]_vars, NEW o \in Operations,
         request[o].kind = "delete", ledger[o] = "none", ledger'[o] = "applied"
  PROVE  bound[Thread(o)] \cap op[o].snap = {}
<1>1. TypeOK /\ Projected /\ Thread(o) \in Threads /\ bound[Thread(o)] \subseteq Endpoints
  BY DEF IInv, Typed, TypeOK, Thread, Requests
<1>2. Commit(o)
  <2>1. ledger' = ledger \/ \E p \in Operations : Commit(p)
    BY LedgerChange
  <2>2. ASSUME NEW p \in Operations \ {o}, Commit(p) PROVE FALSE
    <3>1. ledger'[o] = ledger[o]
      BY <1>1, <2>2 DEF Commit, TypeOK
    <3> QED BY <3>1
  <2> QED BY <2>1, <2>2
<1>3. CASE record[Thread(o)] = "live"
  <2>1. ~EnabledBinding(o)
    BY <1>1, <1>2, <1>3 DEF Commit, Noop, TypeOK
  <2> QED BY <1>1, <1>3, <2>1, NoOneAssumption DEF EnabledBinding, Live
<1>4. CASE record[Thread(o)] # "live"
  BY <1>1, <1>4 DEF Projected
<1> QED BY <1>3, <1>4

\* A cleanup that comes late, or again, leaves the endpoint of another thread
\* alone, and a deletion that was frozen takes no bot away from the user.
THEOREM Sparing == Spec => SparesTheLiving
<1>1. IInv /\ [Next]_vars =>
         [/\ Work => \A e \in Endpoints : route'[e] # route[e] => Dead(route[e])
          /\ \A o \in Operations :
                request[o].kind = "delete" /\ ledger[o] = "none" /\ ledger'[o] = "applied" =>
                   bound[Thread(o)] \cap op[o].snap = {}]_vars
  BY WorkSparesTheLiving, DeleteSparesTheBound
<1> QED BY <1>1, InitInv, StepInv, PTL DEF Spec, SparesTheLiving

=============================================================================
