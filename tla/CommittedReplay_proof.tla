------------------------ MODULE CommittedReplay_proof ------------------------
(***************************************************************************)
(* Theorems of CommittedReplay for any runs, bus, page size and number of  *)
(* failed reads: what the replay hands over is in order, without a hole,   *)
(* in versions that advance, complete at the end and flushed once; it      *)
(* implements OrderedDelivery.                                             *)
(***************************************************************************)
EXTENDS CommittedReplay, FiniteSetTheorems, SequenceTheorems, WellFoundedInduction, TLAPS

USE RunsAssumption, CapacityAssumption

-----------------------------------------------------------------------------
(* Smallest and largest elements.                                          *)

LEMMA MinExists ==
  ASSUME NEW S \in SUBSET Nat, S # {}
  PROVE  \E m \in S : \A q \in S : m <= q
<1> DEFINE Below(x) == {q \in S : q < x}
<1>1. ASSUME NEW x \in S PROVE Below(x) \in FiniteSubsetsOf(S)
  BY FS_BoundedSetOfNaturals DEF FiniteSubsetsOf
<1> DEFINE F == {Below(x) : x \in S}
<1>2. F \subseteq FiniteSubsetsOf(S) /\ F # {}
  <2> HIDE DEF Below
  <2>1. PICK x \in S : TRUE
    OBVIOUS
  <2>2. Below(x) \in F
    BY <2>1
  <2> QED BY <1>1, <2>2
<1>3. PICK b \in F : \A c \in F : ~ (<<c, b>> \in StrictSubsetOrdering(S))
  <2> HIDE DEF F
  <2>1. IsWellFoundedOn(StrictSubsetOrdering(S), FiniteSubsetsOf(S))
    BY FS_StrictSubsetOrderingWellFounded
  <2> QED BY <1>2, <2>1, WFMin, Zenon
<1>4. PICK m \in S : b = Below(m)
  OBVIOUS
<1>5. ASSUME NEW q \in S PROVE m <= q
  <2>1. SUFFICES ASSUME q < m PROVE FALSE
    BY <1>4
  <2>0. m \in Nat /\ q \in Nat /\ \A x \in S : x \in Nat
    BY <1>4
  <2>2. Below(q) \subseteq Below(m) /\ q \in Below(m) /\ q \notin Below(q)
    <3>1. \A x \in Below(q) : x \in Below(m)
      BY <2>0, <2>1
    <3>2. q \in Below(m)
      BY <2>1
    <3>3. q \notin Below(q)
      BY <2>0
    <3> QED BY <3>1, <3>2, <3>3
  <2>3. <<Below(q), Below(m)>> \in StrictSubsetOrdering(S)
    BY <2>2 DEF StrictSubsetOrdering
  <2> QED BY <1>3, <1>4, <2>3
<1> QED BY <1>4, <1>5

LEMMA MaxExists ==
  ASSUME NEW S \in SUBSET Nat, S # {}, NEW n \in Nat, \A s \in S : s <= n
  PROVE  \E m \in S : \A q \in S : q <= m
<1> DEFINE T == {n - s : s \in S}
<1>0. \A s \in S : n - s \in Nat
  OBVIOUS
<1>1. T \in SUBSET Nat /\ T # {}
  BY <1>0
<1>2. PICK k \in T : \A q \in T : k <= q
  BY <1>1, MinExists
<1>3. PICK m \in S : k = n - m
  OBVIOUS
<1>4. ASSUME NEW q \in S PROVE q <= m
  <2>1. n - q \in T
    OBVIOUS
  <2>2. k <= n - q
    BY <1>2, <2>1
  <2> QED BY <1>3, <2>2
<1> QED BY <1>4

-----------------------------------------------------------------------------
(* Sequences by their elements.                                            *)

LEMMA PopElements ==
  ASSUME NEW S, NEW s \in Seq(S), s # <<>>
  PROVE  /\ Head(s) = s[1] /\ Head(s) \in S /\ 1 \in DOMAIN s
         /\ Tail(s) \in Seq(S) /\ Len(Tail(s)) = Len(s) - 1 /\ Len(s) \in Nat
         /\ DOMAIN s = 1 .. Len(s) /\ DOMAIN Tail(s) = 1 .. (Len(s) - 1)
         /\ \A i \in DOMAIN Tail(s) : i + 1 \in DOMAIN s /\ Tail(s)[i] = s[i + 1]
<1>1. /\ Tail(s) \in Seq(S) /\ Len(Tail(s)) = Len(s) - 1 /\ Head(s) \in S
      /\ \A i \in 1 .. Len(Tail(s)) : Tail(s)[i] = s[i + 1]
  BY HeadTailProperties
<1>2. DOMAIN s = 1 .. Len(s) /\ DOMAIN Tail(s) = 1 .. Len(Tail(s)) /\ Len(s) \in Nat
  BY <1>1, LenProperties
<1>3. Len(s) # 0
  BY EmptySeq
<1>4. Head(s) = s[1]
  BY SMT
<1> QED BY <1>1, <1>2, <1>3, <1>4

\* A sequence with something in it is not the empty one.
LEMMA LongNotEmpty ==
  ASSUME NEW q, Len(q) # 0
  PROVE  q # <<>>
  OBVIOUS

LEMMA AppendElements ==
  ASSUME NEW S, NEW s \in Seq(S), NEW e \in S
  PROVE  /\ Append(s, e) \in Seq(S) /\ Len(s) \in Nat /\ Len(Append(s, e)) = Len(s) + 1
         /\ DOMAIN s = 1 .. Len(s) /\ DOMAIN Append(s, e) = 1 .. (Len(s) + 1)
         /\ \A i \in DOMAIN Append(s, e) : Append(s, e)[i] = IF i <= Len(s) THEN s[i] ELSE e
<1>1. /\ Append(s, e) \in Seq(S) /\ Len(Append(s, e)) = Len(s) + 1
      /\ \A i \in 1 .. Len(s) : Append(s, e)[i] = s[i]
      /\ Append(s, e)[Len(s) + 1] = e
  BY AppendProperties
<1>2. DOMAIN s = 1 .. Len(s) /\ DOMAIN Append(s, e) = 1 .. Len(Append(s, e)) /\ Len(s) \in Nat
  BY <1>1, LenProperties
<1> QED BY <1>1, <1>2

-----------------------------------------------------------------------------
(* What is pushed comes last; a full bus loses its first line.             *)

LEMMA PushElements ==
  ASSUME TypeOK, NEW m \in Messages, Push(m), pc \notin Ended
  PROVE  /\ queue' \in Seq(Messages) /\ Len(queue') <= BusCapacity
         /\ \E k \in {0, 1} :
               /\ missed' = (missed \/ k = 1)
               /\ DOMAIN queue' = 1 .. (Len(queue) + 1 - k)
               /\ k <= Len(queue)
               /\ \A i \in DOMAIN queue' :
                     queue'[i] = IF i + k <= Len(queue) THEN queue[i + k] ELSE m
<1>0. queue \in Seq(Messages) /\ Len(queue) <= BusCapacity /\ missed \in BOOLEAN
  BY DEF TypeOK
<1> DEFINE Lost(k) ==
      /\ missed' = (missed \/ k = 1)
      /\ DOMAIN queue' = 1 .. (Len(queue) + 1 - k)
      /\ k <= Len(queue)
      /\ \A i \in DOMAIN queue' :
            queue'[i] = IF i + k <= Len(queue) THEN queue[i + k] ELSE m
<1>1. CASE Len(queue) = BusCapacity
  <2>1. queue # <<>>
    BY <1>0, <1>1, EmptySeq
  <2>2. queue' = Append(Tail(queue), m) /\ missed' = TRUE
    BY <1>0, <1>1 DEF Push
  <2>3. /\ Tail(queue) \in Seq(Messages) /\ Len(Tail(queue)) = Len(queue) - 1 /\ Len(queue) \in Nat
        /\ \A i \in 1 .. (Len(queue) - 1) : Tail(queue)[i] = queue[i + 1]
        /\ 1 \in 1 .. Len(queue)
    BY <1>0, <2>1, PopElements
  <2>4. /\ queue' \in Seq(Messages) /\ Len(queue') = Len(Tail(queue)) + 1
        /\ DOMAIN queue' = 1 .. (Len(Tail(queue)) + 1)
        /\ \A i \in DOMAIN queue' : queue'[i] = IF i <= Len(Tail(queue)) THEN Tail(queue)[i] ELSE m
    BY <2>2, <2>3, AppendElements
  <2>5. Len(queue') = Len(queue) /\ DOMAIN queue' = 1 .. Len(queue)
    BY <2>3, <2>4
  <2>6. \A i \in 1 .. Len(queue) : queue'[i] = IF i + 1 <= Len(queue) THEN queue[i + 1] ELSE m
    BY <2>3, <2>4, <2>5
  <2>7. Len(queue) + 1 - 1 = Len(queue) /\ 1 <= Len(queue)
    BY <2>3
  <2>8. Lost(1)
    BY <2>2, <2>5, <2>6, <2>7
  <2> HIDE DEF Lost
  <2>9. \E k \in {0, 1} : Lost(k)
    BY <2>8
  <2> QED BY <1>0, <1>1, <2>4, <2>5, <2>9 DEF Lost
<1>2. CASE Len(queue) # BusCapacity
  <2>1. queue' = Append(queue, m) /\ missed' = missed
    BY <1>0, <1>2 DEF Push
  <2>2. /\ queue' \in Seq(Messages) /\ Len(queue') = Len(queue) + 1 /\ Len(queue) \in Nat
        /\ DOMAIN queue' = 1 .. (Len(queue) + 1)
        /\ \A i \in DOMAIN queue' : queue'[i] = IF i <= Len(queue) THEN queue[i] ELSE m
    BY <1>0, <2>1, AppendElements
  <2>3. Len(queue) + 1 <= BusCapacity
    BY <1>0, <1>2, <2>2
  <2>4. Lost(0)
    BY <1>0, <2>1, <2>2
  <2> HIDE DEF Lost
  <2>5. \E k \in {0, 1} : Lost(k)
    BY <2>4
  <2> QED BY <2>2, <2>3, <2>5 DEF Lost
<1> QED BY <1>1, <1>2

-----------------------------------------------------------------------------
(* The inductive invariant.                                                *)

\* A line of the run speaks of a row of the run, in a version it has had.
Fits(m) ==
    m.run = Mine =>
        m.seq \in Own /\ m.kind = transcript[m.seq].kind /\ m.ver <= transcript[m.seq].ver

\* A run that writes no more.
Over == {"saved", "closed"}

\* The last row of a run ends it and is not its first; a row is rewritten only
\* before a later one.
RowsSound ==
    /\ \A s \in Own : transcript[s].kind = "complete" => phase[Mine] \in Over /\ \E q \in Own : q < s
    /\ Own # {} <=> phase[Mine] # "none"
    /\ \A s \in DOMAIN transcript : transcript[s].ver = 2 =>
          transcript[s].kind = "text" /\ (transcript[s].run = Mine => \E q \in Own : s < q)
    /\ ~open => \A r \in Runs : phase[r] # "open" /\ unsent[r] = <<>>

LinesSound ==
    /\ \A i \in DOMAIN queue : Fits(queue[i])
    /\ \A r \in Runs : \A i \in DOMAIN unsent[r] : unsent[r][i].run = r /\ Fits(unsent[r][i])

\* A newer version of a row is announced after an older one.
InOrder(m, n) == m.run = Mine /\ n.run = Mine /\ m.seq = n.seq => m.ver <= n.ver

VersionsInOrder ==
    /\ \A i, j \in DOMAIN queue : i < j => InOrder(queue[i], queue[j])
    /\ \A i \in DOMAIN queue, j \in DOMAIN unsent[Mine] : InOrder(queue[i], unsent[Mine][j])
    /\ \A i, j \in DOMAIN unsent[Mine] : i < j => InOrder(unsent[Mine][i], unsent[Mine][j])

\* As long as nothing was handed over and nothing was dropped, the first row of the
\* run is announced before the others, and each is until the run is over; then one is.
Fresh == pc = "recv" /\ frontier = 0 /\ ~lagged /\ ~missed
IsLine(m, s) == m.run = Mine /\ m.seq = s
Queued(s) == \E i \in DOMAIN queue : IsLine(queue[i], s)
ToSend(s) == \E i \in DOMAIN unsent[Mine] : IsLine(unsent[Mine][i], s)

FirstComesFirst ==
    Fresh =>
        /\ phase[Mine] \notin Over => \A s \in Own : Queued(s) \/ ToSend(s)
        /\ phase[Mine] \in Over => \E s \in Own : Queued(s)
        /\ \A i \in DOMAIN queue, s \in Own : queue[i].run = Mine /\ s < queue[i].seq =>
              \E k \in DOMAIN queue : k < i /\ IsLine(queue[k], s)
        /\ \A i \in DOMAIN unsent[Mine], s \in Own : s < unsent[Mine][i].seq =>
              \/ Queued(s)
              \/ \E k \in DOMAIN unsent[Mine] : k < i /\ IsLine(unsent[Mine][k], s)

\* The frontier is the last row that was handed over.
HandedSound ==
    /\ \A s \in Handed : s \in DOMAIN transcript /\ s <= frontier
    /\ frontier <= Len(transcript)
    /\ frontier # 0 => /\ threadKnown /\ frontier \in Handed
                       /\ payload = out[frontier][Len(out[frontier])]
    /\ done <=> \E s \in Handed : transcript[s].kind = "done"

\* The task finishes only when the run writes no more.  It reads a tail before
\* anything was handed over only after a lag, or when there is nothing.
LoopSound ==
    /\ pc = "recv" => ~finishing
    /\ pc = "ended" => finishing
    /\ finishing => phase[Mine] \in Over \/ ~open
    /\ pc = "tail" /\ frontier = 0 /\ ~lagged => finishing /\ Own = {} /\ ~open
    /\ pc = "pages" => threadKnown /\ (frontier = 0 => lagged)
    /\ ownDone <=> pc = "ended" /\ ~done

\* A row that was handed over in its final form has no older line left.
NoOldLine ==
    failedReads = 0 /\ pc = "recv" /\ frontier # 0 /\ payload = 2 =>
        /\ \A i \in DOMAIN queue : IsLine(queue[i], frontier) => queue[i].ver = 2
        /\ \A i \in DOMAIN unsent[Mine] : IsLine(unsent[Mine][i], frontier) => unsent[Mine][i].ver = 2

HandedInvariant == NoHole /\ OwnTextOnly /\ VersionsAdvance /\ HandedSound
LineInvariant == RowsSound /\ LinesSound /\ VersionsInOrder /\ FirstComesFirst
LoopInvariant == LoopSound /\ NoOldLine /\ CompleteAtEnd
Inv == TypeOK /\ HandedInvariant /\ LineInvariant /\ LoopInvariant

LEMMA InitInv == Init => Inv
<1> SUFFICES ASSUME Init PROVE Inv
  OBVIOUS
<1>1. TypeOK
  <2>1. <<>> \in Seq(Rows) /\ <<>> \in Seq(Messages) /\ <<>> \in Seq({1, 2}) /\ Len(<<>>) = 0
    OBVIOUS
  <2>2. /\ transcript \in Seq(Rows) /\ Len(transcript) <= MaxRows
        /\ queue \in Seq(Messages) /\ Len(queue) <= BusCapacity
    BY <2>1 DEF Init
  <2>3. unsent \in [Runs -> Seq(Messages)] /\ out \in [Seqs -> Seq({1, 2})] /\ mute \subseteq Nat
    BY <2>1 DEF Init
  <2>4. phase \in [Runs -> {"none", "open", "saved", "closed"}]
    BY DEF Init
  <2>5. frontier \in 0 .. MaxRows /\ payload \in 0 .. 2 /\ failedReads \in Nat
    BY DEF Init
  <2>6. /\ missed \in BOOLEAN /\ open \in BOOLEAN /\ threadKnown \in BOOLEAN /\ lagged \in BOOLEAN
        /\ done \in BOOLEAN /\ finishing \in BOOLEAN /\ ownDone \in BOOLEAN /\ readFailed \in BOOLEAN
        /\ pc \in {"recv", "tail", "pages"} \cup Ended
    BY DEF Init
  <2> QED BY <2>2, <2>3, <2>4, <2>5, <2>6, Zenon DEF TypeOK
<1>2. Handed = {} /\ Own = {} /\ DOMAIN queue = {} /\ DOMAIN transcript = {} /\ Len(transcript) = 0
  BY DEF Init, Handed, Own
<1>3. \A r \in Runs : unsent[r] = <<>> /\ DOMAIN unsent[r] = {}
  BY DEF Init
<1>4. Mine \in Runs
  BY DEF Runs
<1>5. HandedInvariant
  BY <1>2 DEF Init, HandedInvariant, NoHole, OwnTextOnly, VersionsAdvance, HandedSound
<1>6. LineInvariant
  <2>1. RowsSound
    BY <1>2, <1>4 DEF Init, RowsSound
  <2>2. LinesSound
    BY <1>2, <1>3 DEF LinesSound
  <2>3. VersionsInOrder
    BY <1>2, <1>3, <1>4 DEF VersionsInOrder
  <2>4. FirstComesFirst
    <3>1. phase[Mine] \notin Over
      BY <1>4 DEF Init, Over
    <3> QED BY <1>2, <1>3, <1>4, <3>1 DEF FirstComesFirst
  <2> QED BY <2>1, <2>2, <2>3, <2>4 DEF LineInvariant
<1>7. LoopInvariant
  BY <1>2 DEF Init, LoopInvariant, LoopSound, NoOldLine, CompleteAtEnd
<1> QED BY <1>1, <1>5, <1>6, <1>7 DEF Inv

-----------------------------------------------------------------------------
(* What a run writes.                                                      *)

OldRows == 1 .. Len(transcript)
NewRows == (Len(transcript) + 1) .. Len(transcript')

\* m announces a new row.
Writ(m, r, s, kind) == m.run = r /\ m.seq = s /\ m.kind = kind /\ m.ver = 1

\* The rows and the lines that an append leaves.
Appended(r, base, before, kinds) ==
    /\ transcript' \in Seq(Rows) /\ Len(transcript') = Len(transcript) + Len(kinds)
    /\ Len(transcript') <= MaxRows
    /\ \A s \in OldRows : transcript'[s] = base[s]
    /\ \A s \in NewRows :
          /\ transcript'[s].run = r /\ transcript'[s].ver = 1
          /\ transcript'[s].kind = kinds[s - Len(transcript)]
    /\ unsent' \in [Runs -> Seq(Messages)]
    /\ \A q \in Runs \ {r} : unsent'[q] = unsent[q]
    /\ DOMAIN unsent'[r] = 1 .. (Len(before) + Len(kinds))
    /\ \A j \in 1 .. Len(before) : unsent'[r][j] = before[j]
    /\ \A i \in 1 .. Len(kinds) : Writ(unsent'[r][Len(before) + i], r, Len(transcript) + i, kinds[i])

\* What a concatenation of two sequences holds, and where.
Concat(S, p, q) ==
    /\ p \o q \in Seq(S) /\ Len(p \o q) = Len(p) + Len(q)
    /\ \A i \in 1 .. (Len(p) + Len(q)) :
          (p \o q)[i] = IF i <= Len(p) THEN p[i] ELSE q[i - Len(p)]

LEMMA Concatenated ==
  ASSUME NEW S, NEW p \in Seq(S), NEW q \in Seq(S)
  PROVE  Concat(S, p, q)
  BY ConcatProperties DEF Concat

LEMMA AppendFacts ==
  ASSUME TypeOK, NEW r \in Runs, NEW base \in Seq(Rows), Len(base) = Len(transcript),
         NEW before \in Seq(Messages), NEW kinds \in Seq(Kinds), AppendRows(r, base, before, kinds)
  PROVE  Appended(r, base, before, kinds)
<1> DEFINE n == Len(transcript)
           k == Len(kinds)
           new == [i \in DOMAIN kinds |-> [run |-> r, kind |-> kinds[i], ver |-> 1]]
           lines == [i \in DOMAIN kinds |-> Message(n + i, new[i])]
<1>1. /\ n \in Nat /\ k \in Nat /\ DOMAIN kinds = 1 .. k /\ Len(before) \in Nat
      /\ \A i \in 1 .. k : kinds[i] \in Kinds
  BY LenProperties, ElementOfSeq DEF TypeOK
<1>2. \A i \in 1 .. k : new[i] = [run |-> r, kind |-> kinds[i], ver |-> 1] /\ new[i] \in Rows
  BY <1>1 DEF Rows
<1>3. \A i \in 1 .. k : /\ lines[i] = [run |-> r, seq |-> n + i, kind |-> kinds[i], ver |-> 1]
                        /\ lines[i] \in Messages
  BY <1>1, <1>2 DEF Message, Messages
<1>4. new \in Seq(Rows) /\ Len(new) = k
  <2>1. new \in [1 .. k -> Rows]
    BY <1>1, <1>2
  <2>2. new \in Seq(Rows)
    BY <1>1, <2>1, SeqDef
  <2>3. DOMAIN new = 1 .. k /\ DOMAIN new = 1 .. Len(new) /\ Len(new) \in Nat
    BY <2>1, <2>2, LenProperties
  <2> HIDE DEF new
  <2> QED BY <1>1, <2>2, <2>3
<1>5. lines \in Seq(Messages) /\ Len(lines) = k
  <2>1. lines \in [1 .. k -> Messages]
    BY <1>1, <1>3
  <2>2. lines \in Seq(Messages)
    BY <1>1, <2>1, SeqDef
  <2>3. DOMAIN lines = 1 .. k /\ DOMAIN lines = 1 .. Len(lines) /\ Len(lines) \in Nat
    BY <2>1, <2>2, LenProperties
  <2> HIDE DEF lines
  <2> QED BY <1>1, <2>2, <2>3
<1>6. /\ n + k <= MaxRows /\ transcript' = base \o new
      /\ unsent' = [unsent EXCEPT ![r] = before \o lines]
  BY DEF AppendRows
<1> HIDE DEF new, lines
<1>7. /\ transcript' \in Seq(Rows) /\ Len(transcript') = n + k
      /\ \A i \in 1 .. (n + k) : transcript'[i] = IF i <= n THEN base[i] ELSE new[i - n]
  <2>1. /\ base \o new \in Seq(Rows) /\ Len(base \o new) = Len(base) + Len(new)
        /\ \A i \in 1 .. (Len(base) + Len(new)) :
              (base \o new)[i] = IF i <= Len(base) THEN base[i] ELSE new[i - Len(base)]
    <3>1. Concat(Rows, base, new)
      BY <1>4, Concatenated
    <3> QED BY <3>1, Zenon DEF Concat
  <2>2. Len(base) = n /\ Len(new) = k
    BY <1>4
  <2> DEFINE all == base \o new
  <2> HIDE DEF n, k, all
  <2>3. /\ all \in Seq(Rows) /\ Len(all) = n + k
        /\ \A i \in 1 .. (n + k) : all[i] = IF i <= n THEN base[i] ELSE new[i - n]
    BY <2>1, <2>2 DEF all
  <2>4. transcript' = all
    BY <1>6 DEF all
  <2> QED BY <2>3, <2>4
<1>8. /\ before \o lines \in Seq(Messages) /\ Len(before \o lines) = Len(before) + k
      /\ \A i \in 1 .. (Len(before) + k) :
            (before \o lines)[i] = IF i <= Len(before) THEN before[i] ELSE lines[i - Len(before)]
  <2>1. /\ before \o lines \in Seq(Messages) /\ Len(before \o lines) = Len(before) + Len(lines)
        /\ \A i \in 1 .. (Len(before) + Len(lines)) :
              (before \o lines)[i] = IF i <= Len(before) THEN before[i] ELSE lines[i - Len(before)]
    <3>1. Concat(Messages, before, lines)
      BY <1>5, Concatenated
    <3> QED BY <3>1, Zenon DEF Concat
  <2>2. Len(lines) = k
    BY <1>5
  <2> HIDE DEF k
  <2> QED BY <2>1, <2>2
<1>9. DOMAIN (before \o lines) = 1 .. (Len(before) + k)
  BY <1>8, LenProperties
<1>10. unsent' \in [Runs -> Seq(Messages)] /\ unsent'[r] = before \o lines
       /\ \A q \in Runs \ {r} : unsent'[q] = unsent[q]
  BY <1>6, <1>8 DEF TypeOK
<1>11. \A s \in OldRows : transcript'[s] = base[s]
  BY <1>1, <1>7 DEF OldRows
<1>12. ASSUME NEW s \in NewRows
       PROVE  transcript'[s].run = r /\ transcript'[s].ver = 1 /\ transcript'[s].kind = kinds[s - n]
  <2>1. s \in 1 .. (n + k) /\ ~(s <= n) /\ s - n \in 1 .. k
    BY <1>1, <1>7 DEF NewRows
  <2>2. transcript'[s] = [run |-> r, kind |-> kinds[s - n], ver |-> 1]
    BY <1>2, <1>7, <2>1
  <2> QED BY <2>2
<1>13. \A j \in 1 .. Len(before) : unsent'[r][j] = before[j]
  BY <1>1, <1>8, <1>10
<1>14. ASSUME NEW i \in 1 .. k PROVE Writ(unsent'[r][Len(before) + i], r, n + i, kinds[i])
  <2>1. /\ Len(before) + i \in 1 .. (Len(before) + k) /\ ~(Len(before) + i <= Len(before))
        /\ (Len(before) + i) - Len(before) = i
    BY <1>1
  <2>2. unsent'[r][Len(before) + i] = lines[i]
    BY <1>8, <1>10, <2>1
  <2>3. lines[i] = [run |-> r, seq |-> n + i, kind |-> kinds[i], ver |-> 1]
    BY <1>3
  <2> QED BY <2>2, <2>3 DEF Writ
<1> QED BY <1>6, <1>7, <1>9, <1>10, <1>11, <1>12, <1>13, <1>14 DEF Appended

\* What a write leaves of the transcript and of the lines to announce, whichever
\* of the run's writes it is.
Grown(r) ==
    /\ transcript' \in Seq(Rows) /\ Len(transcript) < Len(transcript') /\ Len(transcript') <= MaxRows
    /\ \A s \in OldRows :
          /\ transcript'[s].run = transcript[s].run /\ transcript'[s].kind = transcript[s].kind
          /\ transcript[s].ver <= transcript'[s].ver
          /\ transcript'[s] # transcript[s] => transcript[s].run = r /\ transcript[s].kind = "text"
    /\ \A s \in NewRows : transcript'[s].run = r /\ transcript'[s].ver = 1

\* m announces a row of r as it is, and a row that was there before in its new form.
Announces(m, r) ==
    /\ m.seq \in 1 .. Len(transcript') /\ m.run = r /\ transcript'[m.seq].run = r
    /\ m.kind = transcript'[m.seq].kind /\ m.ver = transcript'[m.seq].ver
    /\ m.seq \in OldRows => m.ver = 2

Announced(r) ==
    /\ unsent[r] = <<>>
    /\ unsent' \in [Runs -> Seq(Messages)] /\ \A q \in Runs \ {r} : unsent'[q] = unsent[q]
    /\ \A j \in DOMAIN unsent'[r] : Announces(unsent'[r][j], r)
    /\ \A i, j \in DOMAIN unsent'[r] : i < j => unsent'[r][i].seq < unsent'[r][j].seq
    /\ \A s \in NewRows : \E j \in DOMAIN unsent'[r] : unsent'[r][j].seq = s

Phased(r) ==
    /\ open
    /\ phase' \in [Runs -> {"none", "open", "saved", "closed"}] /\ \A q \in Runs \ {r} : phase'[q] = phase[q]
    /\ phase[r] \notin Over /\ phase'[r] # "none" /\ (phase[r] # "open" => phase'[r] \notin Over)
    /\ \A s \in NewRows : transcript'[s].kind = "complete" => phase[r] = "open" /\ phase'[r] \in Over

Writes(r) ==
    /\ Grown(r) /\ Announced(r) /\ Phased(r)
    /\ UNCHANGED <<mute, bus, state, pc, finishing, given, reads>>

\* The place of a row among the ones appended after the n-th.
LEMMA Shift ==
  ASSUME NEW n \in Nat, NEW k \in Nat, NEW s \in n + 1 .. n + k
  PROVE  s - n \in 1 .. k /\ n + (s - n) = s /\ 1 + (s - n) \in 1 .. (1 + k)
OBVIOUS

\* Rows that are appended, with nothing rewritten.
LEMMA PlainAppend ==
  ASSUME TypeOK, NEW r \in Runs, NEW kinds \in Seq(Kinds), Len(kinds) > 0, MayWrite(r),
         AppendRows(r, transcript, <<>>, kinds)
  PROVE  /\ Grown(r) /\ Announced(r)
         /\ \A s \in NewRows : \E i \in 1 .. Len(kinds) : transcript'[s].kind = kinds[i]
<1> DEFINE n == Len(transcript)
           k == Len(kinds)
<1>1. transcript \in Seq(Rows) /\ <<>> \in Seq(Messages) /\ Len(<<>>) = 0
  BY DEF TypeOK
<1>2. n \in Nat /\ k \in Nat /\ DOMAIN kinds = 1 .. k /\ \A i \in 1 .. k : kinds[i] \in Kinds
  BY <1>1, LenProperties, ElementOfSeq
<1> DEFINE none == <<>>
<1>3. none \in Seq(Messages) /\ Len(none) = 0 /\ AppendRows(r, transcript, none, kinds)
  BY <1>1
<1> HIDE DEF none
<1>4. /\ transcript' \in Seq(Rows) /\ Len(transcript') = n + k /\ Len(transcript') <= MaxRows
      /\ \A s \in OldRows : transcript'[s] = transcript[s]
      /\ \A s \in NewRows :
            transcript'[s].run = r /\ transcript'[s].ver = 1 /\ transcript'[s].kind = kinds[s - n]
      /\ unsent' \in [Runs -> Seq(Messages)] /\ \A q \in Runs \ {r} : unsent'[q] = unsent[q]
      /\ DOMAIN unsent'[r] = 1 .. (Len(none) + k)
      /\ \A i \in 1 .. k : Writ(unsent'[r][Len(none) + i], r, n + i, kinds[i])
  <2>1. Appended(r, transcript, none, kinds)
    BY <1>1, <1>3, AppendFacts
  <2> QED BY <2>1 DEF Appended
<1>5. DOMAIN unsent'[r] = 1 .. k /\ \A i \in 1 .. k : Writ(unsent'[r][i], r, n + i, kinds[i])
  BY <1>2, <1>3, <1>4
<1>6. Grown(r)
  <2>1. ASSUME NEW s \in OldRows PROVE transcript[s].ver <= transcript[s].ver
    <3>1. transcript[s] \in Rows
      BY <1>1, ElementOfSeq DEF OldRows
    <3> QED BY <3>1 DEF Rows
  <2>2. \A s \in NewRows : transcript'[s].run = r /\ transcript'[s].ver = 1
    BY <1>4
  <2>3. Len(transcript) < Len(transcript')
    BY <1>2, <1>4
  <2> QED BY <1>4, <2>1, <2>2, <2>3 DEF Grown
<1>7. Announced(r)
  <2>1. ASSUME NEW j \in 1 .. k PROVE Announces(unsent'[r][j], r)
    <3>1. n + j \in NewRows /\ (n + j) - n = j /\ n + j \in 1 .. Len(transcript') /\ n + j \notin OldRows
      BY <1>2, <1>4 DEF NewRows, OldRows
    <3>2. transcript'[n + j].run = r /\ transcript'[n + j].kind = kinds[j] /\ transcript'[n + j].ver = 1
      BY <1>4, <3>1
    <3>3. Writ(unsent'[r][j], r, n + j, kinds[j])
      BY <1>5
    <3> HIDE DEF n
    <3> QED BY <3>1, <3>2, <3>3 DEF Announces, Writ
  <2>2. ASSUME NEW i \in 1 .. k, NEW j \in 1 .. k, i < j PROVE unsent'[r][i].seq < unsent'[r][j].seq
    <3>1. unsent'[r][i].seq = n + i /\ unsent'[r][j].seq = n + j
      BY <1>5 DEF Writ
    <3> QED BY <1>2, <2>2, <3>1
  <2>3. ASSUME NEW s \in NewRows PROVE \E j \in DOMAIN unsent'[r] : unsent'[r][j].seq = s
    <3>1. s - n \in 1 .. k /\ n + (s - n) = s
      BY <1>2, <1>4 DEF NewRows
    <3>2. unsent'[r][s - n].seq = n + (s - n)
      BY <1>5, <3>1 DEF Writ
    <3> QED BY <1>5, <3>1, <3>2
  <2>4. unsent[r] = <<>>
    BY DEF MayWrite
  <2> QED BY <1>4, <1>5, <2>1, <2>2, <2>3, <2>4 DEF Announced
<1>8. ASSUME NEW s \in NewRows PROVE \E i \in 1 .. k : transcript'[s].kind = kinds[i]
  <2>1. s - n \in 1 .. k
    BY <1>2, <1>4 DEF NewRows
  <2> QED BY <1>4, <2>1
<1> QED BY <1>6, <1>7, <1>8

\* A text of the run is rewritten, and announced before the new rows.
LEMMA RewritingAppend ==
  ASSUME TypeOK, NEW r \in Runs, NEW kinds \in Seq(Kinds), Len(kinds) > 0, MayWrite(r),
         NEW t \in DOMAIN transcript, transcript[t].run = r, transcript[t].kind = "text",
         AppendRows(r, [transcript EXCEPT ![t].ver = 2],
                    <<Message(t, [transcript EXCEPT ![t].ver = 2][t])>>, kinds)
  PROVE  /\ Grown(r) /\ Announced(r)
         /\ \A s \in NewRows : \E i \in 1 .. Len(kinds) : transcript'[s].kind = kinds[i]
<1> DEFINE n == Len(transcript)
           k == Len(kinds)
           final == [transcript EXCEPT ![t].ver = 2]
           line == Message(t, final[t])
<1>1. /\ transcript \in Seq(Rows) /\ n \in Nat /\ k \in Nat /\ DOMAIN transcript = 1 .. n
      /\ DOMAIN kinds = 1 .. k /\ \A i \in 1 .. k : kinds[i] \in Kinds
      /\ \A s \in 1 .. n : transcript[s] \in Rows
  BY LenProperties, ElementOfSeq DEF TypeOK
<1>2. /\ final[t] = [run |-> r, kind |-> "text", ver |-> 2] /\ final[t] \in Rows
      /\ \A s \in 1 .. n : s # t => final[s] = transcript[s]
  BY <1>1 DEF Rows, Kinds
<1>3. final \in Seq(Rows) /\ Len(final) = n
  <2>1. final \in [1 .. n -> Rows]
    BY <1>1, <1>2
  <2>2. final \in Seq(Rows)
    BY <1>1, <2>1, SeqDef
  <2>3. DOMAIN final = 1 .. n /\ DOMAIN final = 1 .. Len(final) /\ Len(final) \in Nat
    BY <2>1, <2>2, LenProperties
  <2> HIDE DEF final
  <2> QED BY <1>1, <2>2, <2>3
<1>4. line = [run |-> r, seq |-> t, kind |-> "text", ver |-> 2] /\ line \in Messages
  BY <1>1, <1>2 DEF Message, Messages, Kinds
<1>5. <<line>> \in Seq(Messages) /\ Len(<<line>>) = 1 /\ <<line>>[1] = line
  BY <1>4
<1>6. AppendRows(r, final, <<line>>, kinds)
  OBVIOUS
<1> HIDE DEF final, line
<1>7. /\ transcript' \in Seq(Rows) /\ Len(transcript') = n + k /\ Len(transcript') <= MaxRows
      /\ \A s \in OldRows : transcript'[s] = final[s]
      /\ \A s \in NewRows :
            transcript'[s].run = r /\ transcript'[s].ver = 1 /\ transcript'[s].kind = kinds[s - n]
      /\ unsent' \in [Runs -> Seq(Messages)] /\ \A q \in Runs \ {r} : unsent'[q] = unsent[q]
      /\ DOMAIN unsent'[r] = 1 .. (Len(<<line>>) + k)
      /\ \A j \in 1 .. Len(<<line>>) : unsent'[r][j] = <<line>>[j]
      /\ \A i \in 1 .. k : Writ(unsent'[r][Len(<<line>>) + i], r, n + i, kinds[i])
  <2>1. Appended(r, final, <<line>>, kinds)
    BY <1>3, <1>5, <1>6, AppendFacts
  <2> QED BY <2>1 DEF Appended
<1>8. /\ DOMAIN unsent'[r] = 1 .. (1 + k) /\ unsent'[r][1] = line
      /\ \A i \in 1 .. k : Writ(unsent'[r][1 + i], r, n + i, kinds[i])
  BY <1>1, <1>5, <1>7
<1>9. Grown(r)
  <2>1. ASSUME NEW s \in OldRows
        PROVE  /\ transcript'[s].run = transcript[s].run /\ transcript'[s].kind = transcript[s].kind
               /\ transcript[s].ver <= transcript'[s].ver
               /\ transcript'[s] # transcript[s] => transcript[s].run = r /\ transcript[s].kind = "text"
    <3>1. s \in 1 .. n /\ transcript'[s] = final[s] /\ transcript[s] \in Rows
      BY <1>1, <1>7 DEF OldRows
    <3>2. transcript[s].ver \in {1, 2}
      BY <3>1 DEF Rows
    <3>3. CASE s = t
      BY <1>2, <3>1, <3>2, <3>3
    <3>4. CASE s # t
      <4>1. transcript'[s] = transcript[s]
        BY <1>2, <3>1, <3>4
      <4> QED BY <3>2, <4>1
    <3> QED BY <3>3, <3>4
  <2>2. \A s \in NewRows : transcript'[s].run = r /\ transcript'[s].ver = 1
    BY <1>7
  <2>3. Len(transcript) < Len(transcript')
    BY <1>1, <1>7
  <2> QED BY <1>7, <2>1, <2>2, <2>3 DEF Grown
<1>10. Announced(r)
  <2>1. Announces(line, r)
    <3>1. t \in OldRows /\ t \in 1 .. Len(transcript')
      BY <1>1, <1>7 DEF OldRows
    <3>2. transcript'[t] = final[t]
      BY <1>7, <3>1
    <3> QED BY <1>2, <1>4, <3>1, <3>2 DEF Announces
  <2>2. ASSUME NEW i \in 1 .. k PROVE Announces(unsent'[r][1 + i], r)
    <3>0. Len(transcript') = n + k
      BY <1>7
    <3>1. n + i \in NewRows /\ (n + i) - n = i /\ n + i \in 1 .. Len(transcript') /\ n + i \notin OldRows
      BY <1>1, <3>0 DEF NewRows, OldRows
    <3>2. transcript'[n + i].run = r /\ transcript'[n + i].kind = kinds[i] /\ transcript'[n + i].ver = 1
      BY <1>7, <3>1
    <3>3. Writ(unsent'[r][1 + i], r, n + i, kinds[i])
      BY <1>8
    <3> HIDE DEF n
    <3> QED BY <3>1, <3>2, <3>3 DEF Announces, Writ
  <2>3. ASSUME NEW j \in DOMAIN unsent'[r] PROVE j = 1 \/ (j - 1 \in 1 .. k /\ 1 + (j - 1) = j)
    BY <1>1, <1>8
  <2>4. \A j \in DOMAIN unsent'[r] : Announces(unsent'[r][j], r)
    <3> SUFFICES ASSUME NEW j \in DOMAIN unsent'[r] PROVE Announces(unsent'[r][j], r)
      OBVIOUS
    <3>1. CASE j = 1
      BY <1>8, <2>1, <3>1
    <3>2. CASE j - 1 \in 1 .. k /\ 1 + (j - 1) = j
      <4>1. Announces(unsent'[r][1 + (j - 1)], r)
        BY <2>2, <3>2
      <4> QED BY <3>2, <4>1
    <3> QED BY <2>3, <3>1, <3>2
  <2>5. ASSUME NEW i \in DOMAIN unsent'[r], NEW j \in DOMAIN unsent'[r], i < j
        PROVE  unsent'[r][i].seq < unsent'[r][j].seq
    <3>0. DOMAIN unsent'[r] = 1 .. (1 + k) /\ k \in Nat
      BY <1>1, <1>8
    <3>1. j - 1 \in 1 .. k /\ 1 + (j - 1) = j
      BY <2>5, <3>0
    <3>2. unsent'[r][j].seq = n + (j - 1)
      <4>1. Writ(unsent'[r][1 + (j - 1)], r, n + (j - 1), kinds[j - 1])
        BY <1>8, <3>1
      <4> QED BY <3>1, <4>1 DEF Writ
    <3>3. CASE i = 1
      <4>1. unsent'[r][i].seq = t /\ t \in 1 .. n
        BY <1>1, <1>4, <1>8, <3>3
      <4> QED BY <1>1, <3>1, <3>2, <4>1
    <3>4. CASE i - 1 \in 1 .. k /\ 1 + (i - 1) = i
      <4>1. Writ(unsent'[r][1 + (i - 1)], r, n + (i - 1), kinds[i - 1])
        BY <1>8, <3>4
      <4>2. unsent'[r][i].seq = n + (i - 1)
        BY <3>4, <4>1 DEF Writ
      <4>3. i \in Int /\ j \in Int
        BY <1>1, <1>8
      <4> QED BY <1>1, <2>5, <3>2, <4>2, <4>3
    <3> QED BY <2>3, <3>3, <3>4
  <2>6. ASSUME NEW s \in NewRows PROVE \E j \in DOMAIN unsent'[r] : unsent'[r][j].seq = s
    <3>0. s \in n + 1 .. n + k
      BY <1>7 DEF NewRows
    <3>1. n \in Nat /\ k \in Nat
      BY <1>1
    <3> HIDE DEF n, k
    <3>2. s - n \in 1 .. k /\ n + (s - n) = s /\ 1 + (s - n) \in 1 .. (1 + k)
      BY <3>0, <3>1, Shift
    <3> USE DEF n, k
    <3>3. unsent'[r][1 + (s - n)].seq = n + (s - n)
      BY <1>8, <3>2 DEF Writ
    <3> QED BY <1>8, <3>2, <3>3
  <2>7. unsent[r] = <<>>
    BY DEF MayWrite
  <2> QED BY <1>7, <2>4, <2>5, <2>6, <2>7 DEF Announced
<1>11. ASSUME NEW s \in NewRows PROVE \E i \in 1 .. k : transcript'[s].kind = kinds[i]
  <2>1. s - n \in 1 .. k
    BY <1>1, <1>7 DEF NewRows
  <2> QED BY <1>7, <2>1
<1> QED BY <1>9, <1>10, <1>11

LEMMA StartWrites ==
  ASSUME Inv, NEW r \in Runs, RunStarts(r)
  PROVE  Writes(r)
<1> DEFINE kinds == <<"note">>
<1>1. kinds \in Seq(Kinds) /\ Len(kinds) = 1 /\ kinds[1] = "note"
  <2>1. "note" \in Kinds
    BY DEF Kinds, Controls
  <2> QED BY <2>1
<1>2. AppendRows(r, transcript, <<>>, kinds) /\ MayWrite(r) /\ TypeOK
  BY DEF RunStarts, Inv
<1> HIDE DEF kinds
<1> DEFINE Grows(ks) ==
      /\ Grown(r) /\ Announced(r)
      /\ \A s \in NewRows : \E i \in 1 .. Len(ks) : transcript'[s].kind = ks[i]
<1>k. Len(kinds) > 0
  BY <1>1
<1>3. Grows(kinds)
  <2>1. \A ks \in Seq(Kinds) :
          Len(ks) > 0 /\ AppendRows(r, transcript, <<>>, ks) => Grows(ks)
    BY <1>2, PlainAppend
  <2> HIDE DEF Grows
  <2> QED BY <1>1, <1>2, <1>k, <2>1
<1>4. \A s \in NewRows : transcript'[s].kind = "note"
  BY <1>1, <1>3
<1>5. Phased(r)
  BY <1>2, <1>4 DEF RunStarts, Phased, TypeOK, Over
<1>6. UNCHANGED <<mute, bus, state, pc, finishing, given, reads>>
  BY DEF RunStarts
<1> QED BY <1>3, <1>5, <1>6 DEF Writes

LEMMA FlushWrites ==
  ASSUME Inv, NEW r \in Runs, Flush(r)
  PROVE  Writes(r)
<1>1. PICK kinds \in Batches : AppendRows(r, transcript, <<>>, kinds)
  BY DEF Flush
<1>2. kinds \in Seq(Kinds) /\ Len(kinds) > 0 /\ \A i \in 1 .. Len(kinds) : kinds[i] # "complete"
  <2>1. CASE kinds = <<"text">>
    BY <2>1 DEF Kinds, Controls
  <2>2. CASE kinds = <<"boundary">>
    BY <2>2 DEF Kinds, Controls
  <2>3. CASE kinds = <<"text", "done">>
    BY <2>3 DEF Kinds, Controls
  <2> QED BY <2>1, <2>2, <2>3 DEF Batches
<1>3. MayWrite(r) /\ TypeOK
  BY DEF Flush, Inv
<1>4. Grown(r) /\ Announced(r) /\ \A s \in NewRows : \E i \in 1 .. Len(kinds) : transcript'[s].kind = kinds[i]
  BY <1>1, <1>2, <1>3, PlainAppend
<1>5. \A s \in NewRows : transcript'[s].kind # "complete"
  BY <1>2, <1>4
<1>6. open
  BY <1>3 DEF Flush, Inv, LineInvariant, RowsSound, TypeOK
<1>7. Phased(r)
  BY <1>3, <1>5, <1>6 DEF Flush, Phased, TypeOK, Over
<1>8. UNCHANGED <<mute, bus, state, pc, finishing, given, reads>>
  BY DEF Flush
<1> QED BY <1>4, <1>7, <1>8 DEF Writes

LEMMA EndWrites ==
  ASSUME Inv, NEW r \in Runs, RunEnds(r)
  PROVE  Writes(r)
<1>1. MayWrite(r) /\ TypeOK
  BY DEF RunEnds, Inv
<1>2. Grown(r) /\ Announced(r)
  <2>1. CASE AppendRows(r, transcript, <<>>, <<"complete">>)
    <3> DEFINE kinds == <<"complete">>
    <3>1. kinds \in Seq(Kinds) /\ Len(kinds) > 0
      BY DEF Kinds, Controls
    <3>2. AppendRows(r, transcript, <<>>, kinds)
      BY <2>1
    <3> HIDE DEF kinds
    <3> QED BY <1>1, <3>1, <3>2, PlainAppend
  <2>2. CASE \E t \in DOMAIN transcript :
                /\ transcript[t].run = r /\ transcript[t].kind = "text"
                /\ AppendRows(r, [transcript EXCEPT ![t].ver = 2],
                              <<Message(t, [transcript EXCEPT ![t].ver = 2][t])>>, <<"complete", "note">>)
    <3> DEFINE kinds == <<"complete", "note">>
    <3>1. kinds \in Seq(Kinds) /\ Len(kinds) > 0
      BY DEF Kinds, Controls
    <3>2. PICK t \in DOMAIN transcript :
                /\ transcript[t].run = r /\ transcript[t].kind = "text"
                /\ AppendRows(r, [transcript EXCEPT ![t].ver = 2],
                              <<Message(t, [transcript EXCEPT ![t].ver = 2][t])>>, kinds)
      BY <2>2
    <3> HIDE DEF kinds
    <3> QED BY <1>1, <3>1, <3>2, RewritingAppend
  <2> QED BY <2>1, <2>2 DEF RunEnds
<1>3. Phased(r)
  <2>1. open
    BY <1>1 DEF RunEnds, Inv, LineInvariant, RowsSound, TypeOK
  <2> QED BY <1>1, <2>1 DEF RunEnds, Phased, TypeOK, Over
<1>4. UNCHANGED <<mute, bus, state, pc, finishing, given, reads>>
  BY DEF RunEnds
<1> QED BY <1>2, <1>3, <1>4 DEF Writes

\* The worker of an aborted run writes its terminal row, or is gone.
LEMMA AbortedWrites ==
  ASSUME Inv, NEW r \in Runs, RunAborted(r), ~ UNCHANGED <<transcript, unsent>>
  PROVE  Writes(r)
<1> DEFINE kinds == <<"complete">>
<1>1. MayWrite(r) /\ TypeOK /\ AppendRows(r, transcript, <<>>, kinds)
  BY DEF RunAborted, Inv
<1>2. kinds \in Seq(Kinds) /\ Len(kinds) > 0
  BY DEF Kinds, Controls
<1> HIDE DEF kinds
<1>3. Grown(r) /\ Announced(r)
  BY <1>1, <1>2, PlainAppend
<1>4. open
  BY <1>1 DEF RunAborted, Inv, LineInvariant, RowsSound, TypeOK
<1>5. Phased(r)
  BY <1>1, <1>4 DEF RunAborted, Phased, TypeOK, Over
<1>6. UNCHANGED <<mute, bus, state, pc, finishing, given, reads>>
  BY DEF RunAborted
<1> QED BY <1>3, <1>5, <1>6 DEF Writes

-----------------------------------------------------------------------------
(* A write keeps the invariant.                                            *)

LEMMA TypeFacts ==
  ASSUME TypeOK
  PROVE  /\ Len(transcript) \in Nat /\ DOMAIN transcript = OldRows /\ OldRows \subseteq Seqs
         /\ \A s \in OldRows : transcript[s] \in Rows
         /\ \A i \in DOMAIN queue : queue[i] \in Messages
         /\ \A r \in Runs : \A i \in DOMAIN unsent[r] : unsent[r][i] \in Messages
         /\ \A s \in OldRows : transcript[s].ver \in {1, 2} /\ transcript[s].run \in Runs /\ transcript[s].kind \in Kinds
         /\ \A m \in Messages : m.ver \in {1, 2} /\ m.seq \in Nat
         /\ Mine \in Runs
<1>1. Len(transcript) \in Nat /\ DOMAIN transcript = OldRows /\ Len(transcript) <= MaxRows
  BY LenProperties DEF TypeOK, OldRows
<1>2. OldRows \subseteq Seqs
  BY <1>1 DEF OldRows, Seqs
<1>3. \A s \in OldRows : transcript[s] \in Rows
  BY ElementOfSeq DEF TypeOK, OldRows
<1>4. \A i \in DOMAIN queue : queue[i] \in Messages
  BY ElementOfSeq, LenProperties DEF TypeOK
<1>5. ASSUME NEW r \in Runs, NEW i \in DOMAIN unsent[r] PROVE unsent[r][i] \in Messages
  <2>1. unsent[r] \in Seq(Messages)
    BY DEF TypeOK
  <2> QED BY <2>1, ElementOfSeq, LenProperties
<1>6. \A s \in OldRows : transcript[s].ver \in {1, 2} /\ transcript[s].run \in Runs /\ transcript[s].kind \in Kinds
  BY <1>3 DEF Rows
<1>7. \A m \in Messages : m.ver \in {1, 2} /\ m.seq \in Nat
  BY DEF Messages
<1>8. Mine \in Runs
  BY DEF Runs
<1> QED BY <1>1, <1>2, <1>3, <1>4, <1>5, <1>6, <1>7, <1>8

\* The rows of the run after a write: those there were, and the new ones if it wrote.
LEMMA OwnGrows ==
  ASSUME Inv, NEW r \in Runs, Writes(r)
  PROVE  /\ DOMAIN transcript' = OldRows \cup NewRows
         /\ Len(transcript) \in Nat /\ Len(transcript') \in Nat /\ Len(transcript) < Len(transcript')
         /\ Len(transcript) + 1 \in NewRows
         /\ \A s \in NewRows : s \notin OldRows /\ Len(transcript) < s
         /\ Own \subseteq OldRows
         /\ \A s \in Own' : s \in Own \/ (s \in NewRows /\ r = Mine)
         /\ Own \subseteq Own'
         /\ r = Mine => NewRows \subseteq Own'
<1>1. /\ Len(transcript) \in Nat /\ DOMAIN transcript = OldRows
      /\ transcript' \in Seq(Rows) /\ Len(transcript) < Len(transcript')
  BY TypeFacts DEF Inv, Writes, Grown
<1>2. Len(transcript') \in Nat /\ DOMAIN transcript' = 1 .. Len(transcript')
  BY <1>1, LenProperties
<1>3. /\ 1 .. Len(transcript') = OldRows \cup NewRows
      /\ Len(transcript) + 1 \in NewRows
      /\ \A s \in NewRows : s \notin OldRows /\ Len(transcript) < s
  BY <1>1, <1>2 DEF OldRows, NewRows
<1>4. /\ \A s \in OldRows : transcript'[s].run = transcript[s].run
      /\ \A s \in NewRows : transcript'[s].run = r
  BY DEF Writes, Grown
<1> QED BY <1>1, <1>2, <1>3, <1>4 DEF Own

LEMMA WriteType ==
  ASSUME Inv, NEW r \in Runs, Writes(r)
  PROVE  TypeOK'
<1>1. /\ TypeOK /\ transcript' \in Seq(Rows) /\ Len(transcript') <= MaxRows
      /\ unsent' \in [Runs -> Seq(Messages)]
      /\ phase' \in [Runs -> {"none", "open", "saved", "closed"}]
      /\ UNCHANGED <<mute, bus, state, pc, finishing, given, reads>>
  BY DEF Inv, Writes, Grown, Announced, Phased
<1> QED BY <1>1 DEF TypeOK, bus, state, given, reads

LEMMA WriteHanded ==
  ASSUME Inv, NEW r \in Runs, Writes(r)
  PROVE  HandedInvariant'
<1> USE DEF Inv, HandedInvariant
<1>1. UNCHANGED <<state, given, reads>> /\ Handed' = Handed /\ UNCHANGED <<frontier, out, payload, done, threadKnown, failedReads>>
  BY DEF Writes, Handed, state, given, reads
<1>2. \A s \in Handed : s \in OldRows /\ s <= frontier
  BY TypeFacts DEF HandedSound
<1>3. frontier \in Nat /\ frontier <= Len(transcript)
  BY DEF HandedSound, TypeOK
<1>4. NoHole'
  <2> SUFFICES ASSUME NEW s \in Own', s <= frontier PROVE s \in Handed
    BY <1>1 DEF NoHole
  <2>1. s \notin NewRows
    BY <1>3, OwnGrows DEF NewRows
  <2> QED BY <2>1, OwnGrows DEF NoHole
<1>5. OwnTextOnly'
  <2> SUFFICES ASSUME NEW s \in Handed, transcript'[s].kind = "text" PROVE transcript'[s].run = Mine
    BY <1>1 DEF OwnTextOnly
  <2> QED BY <1>2 DEF OwnTextOnly, Writes, Grown
<1>6. VersionsAdvance'
  <2> SUFFICES ASSUME failedReads = 0, NEW s \in Handed
               PROVE  /\ \A i, j \in DOMAIN out[s] : i < j => out[s][i] < out[s][j]
                      /\ s \in DOMAIN transcript' /\ out[s][Len(out[s])] <= transcript'[s].ver
    BY <1>1 DEF VersionsAdvance
  <2>1. /\ \A i, j \in DOMAIN out[s] : i < j => out[s][i] < out[s][j]
        /\ out[s][Len(out[s])] <= transcript[s].ver
    BY DEF VersionsAdvance
  <2>2. out[s][Len(out[s])] \in {1, 2}
    <3>1. s \in Seqs /\ out[s] # <<>>
      BY DEF Handed
    <3>2. out[s] \in Seq({1, 2})
      BY <3>1 DEF TypeOK
    <3>3. Len(out[s]) \in 1 .. Len(out[s])
      BY <3>1, <3>2, EmptySeq, LenProperties
    <3> QED BY <3>2, <3>3, ElementOfSeq
  <2>3. transcript[s].ver \in {1, 2} /\ transcript[s].ver <= transcript'[s].ver
    BY <1>2, TypeFacts DEF Writes, Grown
  <2>4. s \in DOMAIN transcript' /\ transcript'[s].ver \in Int
    <3>1. s \in DOMAIN transcript'
      BY <1>2, OwnGrows
    <3>2. transcript'[s] \in Rows
      BY <3>1, ElementOfSeq, LenProperties DEF Writes, Grown
    <3> QED BY <3>1, <3>2 DEF Rows
  <2> QED BY <2>1, <2>2, <2>3, <2>4
<1>7. HandedSound'
  <2>1. \A s \in Handed : s \in DOMAIN transcript'
    BY <1>2, OwnGrows
  <2>2. frontier <= Len(transcript')
    BY <1>3, OwnGrows
  <2>3. \A s \in Handed : transcript'[s].kind = transcript[s].kind
    BY <1>2 DEF Writes, Grown
  <2> QED BY <1>1, <2>1, <2>2, <2>3 DEF HandedSound
<1> QED BY <1>4, <1>5, <1>6, <1>7

LEMMA WriteRows ==
  ASSUME Inv, NEW r \in Runs, Writes(r)
  PROVE  RowsSound'
<1> USE DEF Inv, LineInvariant
<1>1. /\ TypeOK /\ RowsSound /\ Mine \in Runs
      /\ \A s \in OldRows : transcript'[s].kind = transcript[s].kind
      /\ \A s \in NewRows : transcript'[s].ver = 1 /\ transcript'[s].run = r
  BY TypeFacts DEF Writes, Grown
<1>2. ASSUME NEW s \in Own', transcript'[s].kind = "complete"
      PROVE  phase'[Mine] \in Over /\ \E q \in Own' : q < s
  <2>1. CASE s \in Own
    <3>1. phase[Mine] \in Over /\ \E q \in Own : q < s
      BY <1>1, <1>2, <2>1, OwnGrows DEF RowsSound
    <3>2. r # Mine
      BY <3>1 DEF Writes, Phased
    <3> QED BY <1>1, <3>1, <3>2, OwnGrows DEF Writes, Phased
  <2>2. CASE s \in NewRows /\ r = Mine
    <3>1. phase[Mine] = "open" /\ phase'[Mine] \in Over
      BY <1>2, <2>2 DEF Writes, Phased
    <3>2. PICK q \in Own' : q \in OldRows
      <4>1. Own # {}
        BY <1>1, <3>1 DEF RowsSound
      <4> QED BY <4>1, OwnGrows
    <3>3. q < s
      BY <2>2, <3>2, OwnGrows DEF OldRows
    <3> QED BY <3>1, <3>3
  <2> QED BY <1>2, <2>1, <2>2, OwnGrows
<1>3. Own' # {} <=> phase'[Mine] # "none"
  <2>1. CASE r = Mine
    BY <2>1, OwnGrows DEF Writes, Phased
  <2>2. CASE r # Mine
    <3>1. Own' = Own
      BY <2>2, OwnGrows
    <3>2. phase'[Mine] = phase[Mine]
      BY <1>1, <2>2 DEF Writes, Phased
    <3> QED BY <1>1, <3>1, <3>2 DEF RowsSound
  <2> QED BY <2>1, <2>2
<1>4. ASSUME NEW s \in DOMAIN transcript', transcript'[s].ver = 2
      PROVE  transcript'[s].kind = "text" /\ (transcript'[s].run = Mine => \E q \in Own' : s < q)
  <2>1. s \in OldRows
    BY <1>1, <1>4, OwnGrows
  <2>2. CASE transcript'[s] = transcript[s]
    BY <1>1, <1>4, <2>1, <2>2, OwnGrows, TypeFacts DEF RowsSound
  <2>3. CASE transcript'[s] # transcript[s]
    <3>1. transcript[s].run = r /\ transcript[s].kind = "text" /\ transcript'[s].run = r
      BY <2>1, <2>3 DEF Writes, Grown
    <3>2. s < Len(transcript) + 1
      BY <2>1, OwnGrows DEF OldRows
    <3> QED BY <1>1, <2>1, <3>1, <3>2, OwnGrows
  <2> QED BY <2>2, <2>3
<1>5. open' = open /\ open
  BY DEF Writes, Phased, bus
<1> QED BY <1>2, <1>3, <1>4, <1>5 DEF RowsSound

\* A line that is there before a step fits after it.
StillFits(m) ==
    m.run = Mine =>
        m.seq \in Own' /\ m.kind = transcript'[m.seq].kind /\ m.ver <= transcript'[m.seq].ver

LEMMA LinesFit ==
  ASSUME \A i \in DOMAIN queue' : StillFits(queue'[i]),
         \A r \in Runs : \A i \in DOMAIN unsent'[r] : unsent'[r][i].run = r /\ StillFits(unsent'[r][i])
  PROVE  LinesSound'
BY DEF LinesSound, Fits, StillFits

LEMMA WriteLines ==
  ASSUME Inv, NEW r \in Runs, Writes(r)
  PROVE  LinesSound'
<1> USE DEF Inv, LineInvariant
<1>1. TypeOK /\ LinesSound
  OBVIOUS
<1>2. ASSUME NEW m \in Messages, Fits(m) PROVE StillFits(m)
  <2> SUFFICES ASSUME m.run = Mine
               PROVE  m.seq \in Own' /\ m.kind = transcript'[m.seq].kind /\ m.ver <= transcript'[m.seq].ver
    BY DEF StillFits
  <2>1. m.seq \in Own /\ m.seq \in OldRows /\ m.kind = transcript[m.seq].kind /\ m.ver <= transcript[m.seq].ver
    BY <1>2, OwnGrows DEF Fits
  <2>2. m.ver \in {1, 2} /\ transcript[m.seq].ver \in {1, 2}
    BY <1>1, <2>1, TypeFacts
  <2>3. m.seq \in DOMAIN transcript' /\ transcript'[m.seq] \in Rows
    BY <2>1, OwnGrows, ElementOfSeq, LenProperties DEF Writes, Grown
  <2>4. transcript'[m.seq].ver \in {1, 2}
    BY <2>3 DEF Rows
  <2>5. transcript'[m.seq].kind = transcript[m.seq].kind /\ transcript[m.seq].ver <= transcript'[m.seq].ver
    BY <2>1 DEF Writes, Grown
  <2> QED BY <2>1, <2>2, <2>4, <2>5, OwnGrows
<1>3. \A i \in DOMAIN queue : StillFits(queue[i])
  BY <1>1, <1>2, TypeFacts DEF LinesSound
<1>4. ASSUME NEW q \in Runs, NEW j \in DOMAIN unsent'[q]
      PROVE  unsent'[q][j].run = q /\ StillFits(unsent'[q][j])
  <2>1. CASE q # r
    <3>1. unsent'[q] = unsent[q]
      BY <2>1 DEF Writes, Announced
    <3>2. unsent[q][j] \in Messages /\ unsent[q][j].run = q /\ Fits(unsent[q][j])
      BY <1>1, <1>4, <3>1, TypeFacts DEF LinesSound
    <3> QED BY <1>2, <3>1, <3>2
  <2>2. CASE q = r
    <3>1. Announces(unsent'[r][j], r)
      BY <1>4, <2>2 DEF Writes, Announced
    <3> DEFINE m == unsent'[r][j]
    <3>2. /\ m.seq \in 1 .. Len(transcript') /\ m.run = r /\ transcript'[m.seq].run = r
          /\ m.kind = transcript'[m.seq].kind /\ m.ver = transcript'[m.seq].ver
      BY <3>1 DEF Announces
    <3>3. m.seq \in DOMAIN transcript' /\ transcript'[m.seq] \in Rows
      BY <3>2, ElementOfSeq, LenProperties DEF Writes, Grown
    <3>4. transcript'[m.seq].ver \in {1, 2}
      BY <3>3 DEF Rows
    <3>5. m.run = Mine => m.seq \in Own'
      BY <3>2, <3>3 DEF Own
    <3> HIDE DEF m
    <3>6. m.run = r /\ StillFits(m)
      BY <3>2, <3>4, <3>5 DEF StillFits
    <3> QED BY <2>2, <3>6 DEF m
  <2> QED BY <2>1, <2>2
<1>5. queue' = queue
  BY DEF Writes, bus
<1> QED BY <1>3, <1>4, <1>5, LinesFit

LEMMA WriteOrder ==
  ASSUME Inv, NEW r \in Runs, Writes(r)
  PROVE  VersionsInOrder'
<1> USE DEF Inv, LineInvariant
<1>1. TypeOK /\ LinesSound /\ VersionsInOrder /\ Mine \in Runs /\ queue' = queue
  BY TypeFacts DEF Writes, bus
<1>2. CASE r # Mine
  <2>1. unsent'[Mine] = unsent[Mine]
    BY <1>1, <1>2 DEF Writes, Announced
  <2> QED BY <1>1, <2>1 DEF VersionsInOrder, InOrder
<1>3. CASE r = Mine
  <2>1. ASSUME NEW i \in DOMAIN queue, NEW j \in DOMAIN unsent'[Mine] PROVE InOrder(queue[i], unsent'[Mine][j])
    <3> SUFFICES ASSUME queue[i].run = Mine, queue[i].seq = unsent'[Mine][j].seq
                 PROVE  queue[i].ver <= unsent'[Mine][j].ver
      BY DEF InOrder
    <3>1. queue[i].seq \in OldRows
      BY <1>1, OwnGrows DEF LinesSound, Fits
    <3>2. unsent'[Mine][j].ver = 2
      BY <1>3, <3>1 DEF Writes, Announced, Announces
    <3>3. queue[i].ver \in {1, 2}
      BY <1>1, TypeFacts
    <3> QED BY <3>2, <3>3
  <2>2. ASSUME NEW i \in DOMAIN unsent'[Mine], NEW j \in DOMAIN unsent'[Mine], i < j
        PROVE  InOrder(unsent'[Mine][i], unsent'[Mine][j])
    <3>1. unsent'[Mine][i].seq < unsent'[Mine][j].seq
      BY <1>3, <2>2 DEF Writes, Announced
    <3>2. unsent'[Mine][i].seq \in 1 .. Len(transcript')
      BY <1>3 DEF Writes, Announced, Announces
    <3>3. unsent'[Mine][i].seq # unsent'[Mine][j].seq
      BY <3>1, <3>2, OwnGrows
    <3> QED BY <3>3 DEF InOrder
  <2> QED BY <1>1, <2>1, <2>2 DEF VersionsInOrder
<1> QED BY <1>2, <1>3

LEMMA WriteFirst ==
  ASSUME Inv, NEW r \in Runs, Writes(r)
  PROVE  FirstComesFirst'
<1> USE DEF Inv, LineInvariant
<1>1. TypeOK /\ LinesSound /\ FirstComesFirst /\ Mine \in Runs
  BY TypeFacts
<1>2. queue' = queue /\ Fresh' = Fresh
  BY DEF Writes, bus, state, Fresh
<1> SUFFICES ASSUME Fresh
             PROVE  /\ phase'[Mine] \notin Over => \A s \in Own' : Queued(s)' \/ ToSend(s)'
                    /\ phase'[Mine] \in Over => \E s \in Own' : Queued(s)'
                    /\ \A i \in DOMAIN queue, s \in Own' : queue[i].run = Mine /\ s < queue[i].seq =>
                          \E k \in DOMAIN queue : k < i /\ IsLine(queue[k], s)
                    /\ \A i \in DOMAIN unsent'[Mine], s \in Own' : s < unsent'[Mine][i].seq =>
                          \/ Queued(s)'
                          \/ \E k \in DOMAIN unsent'[Mine] : k < i /\ IsLine(unsent'[Mine][k], s)
  BY <1>2 DEF FirstComesFirst, IsLine
<1>3. \A s : Queued(s)' <=> Queued(s)
  BY <1>2 DEF Queued, IsLine
<1>4. ASSUME NEW i \in DOMAIN queue, NEW s \in Own', queue[i].run = Mine, s < queue[i].seq
      PROVE  \E k \in DOMAIN queue : k < i /\ IsLine(queue[k], s)
  <2>1. queue[i].seq \in OldRows
    BY <1>1, <1>4, OwnGrows DEF LinesSound, Fits
  <2>2. s \notin NewRows
    BY <1>4, <2>1, OwnGrows DEF OldRows, NewRows
  <2>3. s \in Own
    BY <2>2, OwnGrows
  <2> QED BY <1>1, <1>4, <2>3 DEF FirstComesFirst
<1>5. CASE r # Mine
  <2>1. unsent'[Mine] = unsent[Mine] /\ Own' = Own
    BY <1>1, <1>5, OwnGrows DEF Writes, Announced
  <2>2. \A s : ToSend(s)' <=> ToSend(s)
    BY <2>1 DEF ToSend, IsLine
  <2>3. phase'[Mine] = phase[Mine]
    BY <1>1, <1>5 DEF Writes, Phased
  <2> QED BY <1>1, <1>3, <1>4, <2>1, <2>2, <2>3 DEF FirstComesFirst
<1>6. CASE r = Mine
  <2>1. \A s \in Own : Queued(s)
    <3>1. DOMAIN unsent[Mine] = {} /\ phase[Mine] \notin Over
      BY <1>6 DEF Writes, Announced, Phased
    <3> QED BY <1>1, <3>1 DEF FirstComesFirst, ToSend
  <2>5. phase'[Mine] \in Over => \E s \in Own' : Queued(s)'
    <3> SUFFICES ASSUME phase'[Mine] \in Over PROVE \E s \in Own : Queued(s)
      BY <1>3, OwnGrows
    <3>1. phase[Mine] = "open"
      BY <1>6 DEF Writes, Phased
    <3> QED BY <2>1, <3>1 DEF RowsSound
  <2>2. ASSUME NEW s \in NewRows PROVE \E j \in DOMAIN unsent'[Mine] : unsent'[Mine][j].seq = s /\ IsLine(unsent'[Mine][j], s)
    <3>1. PICK j \in DOMAIN unsent'[Mine] : unsent'[Mine][j].seq = s
      BY <1>6 DEF Writes, Announced
    <3>2. unsent'[Mine][j].run = Mine
      BY <1>6 DEF Writes, Announced, Announces
    <3> QED BY <3>1, <3>2 DEF IsLine
  <2>3. \A s \in Own' : Queued(s)' \/ ToSend(s)'
    <3>1. \A s \in NewRows : ToSend(s)'
      BY <2>2 DEF ToSend, IsLine
    <3> QED BY <1>3, <2>1, <3>1, OwnGrows
  <2>4. ASSUME NEW i \in DOMAIN unsent'[Mine], NEW s \in Own', s < unsent'[Mine][i].seq
        PROVE  Queued(s)' \/ \E k \in DOMAIN unsent'[Mine] : k < i /\ IsLine(unsent'[Mine][k], s)
    <3>1. CASE s \in Own
      BY <1>3, <2>1, <3>1
    <3>2. CASE s \in NewRows
      <4>1. PICK j \in DOMAIN unsent'[Mine] : unsent'[Mine][j].seq = s /\ IsLine(unsent'[Mine][j], s)
        BY <2>2, <3>2
      <4>2. i # j /\ ~(i < j)
        <5>1. s \in Int /\ unsent'[Mine][i].seq \in Int
          BY <1>6, <3>2, OwnGrows DEF Writes, Announced, Announces, NewRows
        <5> QED BY <1>6, <2>4, <4>1, <5>1 DEF Writes, Announced
      <4>3. i \in Int /\ j \in Int
        <5>1. unsent'[Mine] \in Seq(Messages)
          BY <1>1 DEF Writes, Announced
        <5>2. DOMAIN unsent'[Mine] = 1 .. Len(unsent'[Mine])
          BY <5>1, LenProperties
        <5> QED BY <5>2
      <4> QED BY <4>1, <4>2, <4>3
    <3> QED BY <3>1, <3>2, OwnGrows
  <2> QED BY <1>4, <2>3, <2>4, <2>5
<1> QED BY <1>5, <1>6

LEMMA WriteLoop ==
  ASSUME Inv, NEW r \in Runs, Writes(r)
  PROVE  LoopInvariant'
<1> USE DEF Inv, LoopInvariant
<1>1. /\ TypeOK /\ LoopSound /\ HandedSound /\ Mine \in Runs
      /\ UNCHANGED <<pc, finishing, frontier, lagged, open, threadKnown, ownDone, done, payload,
                     failedReads, readFailed, queue, out>>
  BY TypeFacts DEF Writes, bus, state, given, reads, HandedInvariant
<1>2. open
  BY DEF Writes, Phased
\* Once the task finishes the run writes no more.
<1>3. finishing => r # Mine
  BY <1>1, <1>2 DEF LoopSound, Writes, Phased
<1>4. r # Mine => Own' = Own /\ phase'[Mine] = phase[Mine] /\ unsent'[Mine] = unsent[Mine]
  BY <1>1, OwnGrows DEF Writes, Phased, Announced
<1>5. LoopSound'
  BY <1>1, <1>2, <1>3, <1>4 DEF LoopSound
<1>6. NoOldLine'
  <2> SUFFICES ASSUME failedReads = 0, pc = "recv", frontier # 0, payload = 2
               PROVE  /\ \A i \in DOMAIN queue : IsLine(queue[i], frontier) => queue[i].ver = 2
                      /\ \A i \in DOMAIN unsent'[Mine] :
                            IsLine(unsent'[Mine][i], frontier) => unsent'[Mine][i].ver = 2
    BY <1>1 DEF NoOldLine, IsLine
  <2>1. CASE r # Mine
    BY <1>4, <2>1 DEF NoOldLine
  <2>2. CASE r = Mine
    <3>1. frontier \in OldRows
      BY <1>1, TypeFacts DEF HandedSound
    <3>2. \A i \in DOMAIN unsent'[Mine] : IsLine(unsent'[Mine][i], frontier) => unsent'[Mine][i].ver = 2
      BY <2>2, <3>1 DEF Writes, Announced, Announces, IsLine
    <3> QED BY <3>2 DEF NoOldLine
  <2> QED BY <2>1, <2>2
<1>7. CompleteAtEnd'
  <2>1. Handed' = Handed
    BY <1>1 DEF Handed
  <2>2. pc = "ended" => Own' = Own
    BY <1>1, <1>3, <1>4 DEF LoopSound
  <2> QED BY <1>1, <2>1, <2>2 DEF CompleteAtEnd
<1> QED BY <1>5, <1>6, <1>7

LEMMA WriteInv ==
  ASSUME Inv, NEW r \in Runs, Writes(r)
  PROVE  Inv'
BY WriteType, WriteHanded, WriteRows, WriteLines, WriteOrder, WriteFirst, WriteLoop
   DEF Inv, LineInvariant

-----------------------------------------------------------------------------
(* An announcement, and the bus's other users, keep the invariant.         *)

\* A run that is over stays so, and none is over by a step that only announces.
SameStage == (phase'[Mine] \in Over <=> phase[Mine] \in Over) /\ (phase'[Mine] = "none" <=> phase[Mine] = "none")

LEMMA SameHanded ==
  ASSUME HandedInvariant,
         UNCHANGED <<transcript, out, frontier, payload, done, threadKnown, failedReads>>
  PROVE  HandedInvariant'
BY DEF HandedInvariant, NoHole, OwnTextOnly, VersionsAdvance, HandedSound, Own, Handed

LEMMA SameLoop ==
  ASSUME LoopSound, CompleteAtEnd,
         UNCHANGED <<transcript, open, pc, finishing, frontier, lagged, threadKnown, done,
                     ownDone, readFailed, out>>,
         phase[Mine] \in Over => phase'[Mine] \in Over
  PROVE  LoopSound' /\ CompleteAtEnd'
BY DEF LoopSound, CompleteAtEnd, Own, Handed

\* What leaves a queue at its head and what enters it at its end.
Shifted(k, m) ==
    /\ k \in {0, 1} /\ k <= Len(queue) /\ Len(queue) \in Nat
    /\ missed' = (missed \/ k = 1)
    /\ DOMAIN queue = 1 .. Len(queue)
    /\ DOMAIN queue' = 1 .. (Len(queue) + 1 - k)
    /\ \A i \in DOMAIN queue' : queue'[i] = IF i + k <= Len(queue) THEN queue[i + k] ELSE m

LEMMA PushShifts ==
  ASSUME TypeOK, NEW m \in Messages, Push(m), pc \notin Ended
  PROVE  /\ queue' \in Seq(Messages) /\ Len(queue') <= BusCapacity
         /\ \E k \in {0, 1} : Shifted(k, m)
<1>1. DOMAIN queue = 1 .. Len(queue) /\ Len(queue) \in Nat
  BY LenProperties DEF TypeOK
<1> QED BY <1>1, PushElements DEF Shifted

\* A line that is not of this run goes by.
LEMMA QuietPush ==
  ASSUME Inv, NEW m \in Messages, m.run # Mine, NEW k, Shifted(k, m),
         unsent'[Mine] = unsent[Mine], SameStage,
         UNCHANGED <<transcript, pc, frontier, lagged, payload, failedReads>>
  PROVE  /\ \A i \in DOMAIN queue' : StillFits(queue'[i])
         /\ VersionsInOrder' /\ FirstComesFirst' /\ NoOldLine'
<1> USE DEF Inv, LineInvariant, LoopInvariant
<1>0. TypeOK /\ LinesSound /\ VersionsInOrder /\ FirstComesFirst /\ NoOldLine
  OBVIOUS
<1>1. ASSUME NEW i \in DOMAIN queue'
      PROVE  \/ i + k \in DOMAIN queue /\ queue'[i] = queue[i + k]
             \/ i + k = Len(queue) + 1 /\ queue'[i] = m
  BY DEF Shifted
<1>2. \A i \in DOMAIN queue' : i \in Int
  BY DEF Shifted
<1>3. k \in Int
  BY DEF Shifted
<1>4. ASSUME NEW i \in DOMAIN queue' PROVE StillFits(queue'[i])
  <2>1. CASE queue'[i] = m
    BY <2>1 DEF StillFits
  <2>2. CASE i + k \in DOMAIN queue /\ queue'[i] = queue[i + k]
    BY <1>0, <2>2 DEF LinesSound, StillFits, Fits, Own
  <2> QED BY <1>1, <2>1, <2>2
<1>5. VersionsInOrder'
  <2>1. ASSUME NEW i \in DOMAIN queue', NEW j \in DOMAIN queue', i < j PROVE InOrder(queue'[i], queue'[j])
    <3>1. CASE queue'[i] = m \/ queue'[j] = m
      BY <3>1 DEF InOrder
    <3>2. CASE /\ i + k \in DOMAIN queue /\ queue'[i] = queue[i + k]
               /\ j + k \in DOMAIN queue /\ queue'[j] = queue[j + k]
      <4>1. i + k < j + k
        BY <1>2, <1>3, <2>1
      <4> QED BY <1>0, <3>2, <4>1 DEF VersionsInOrder
    <3> QED BY <1>1, <3>1, <3>2
  <2>2. ASSUME NEW i \in DOMAIN queue', NEW j \in DOMAIN unsent[Mine] PROVE InOrder(queue'[i], unsent[Mine][j])
    <3>1. CASE queue'[i] = m
      BY <3>1 DEF InOrder
    <3>2. CASE i + k \in DOMAIN queue /\ queue'[i] = queue[i + k]
      BY <1>0, <3>2 DEF VersionsInOrder
    <3> QED BY <1>1, <3>1, <3>2
  <2> QED BY <1>0, <2>1, <2>2 DEF VersionsInOrder, InOrder
<1>6. FirstComesFirst'
  <2>1. SUFFICES ASSUME Fresh' PROVE FirstComesFirst'
    BY DEF FirstComesFirst
  <2>2. Fresh /\ k = 0
    BY <2>1 DEF Fresh, Shifted
  <2>3. \A i \in DOMAIN queue : i \in DOMAIN queue' /\ queue'[i] = queue[i]
    BY <2>2 DEF Shifted
  <2>4. \A i \in DOMAIN queue' : queue'[i].run = Mine => i \in DOMAIN queue /\ queue'[i] = queue[i]
    BY <1>1, <1>2, <2>2
  <2>5. Own' = Own
    BY DEF Own
  <2>6. \A s : Queued(s)' <=> Queued(s)
    BY <2>3, <2>4 DEF Queued, IsLine
  <2>7. \A s : ToSend(s)' <=> ToSend(s)
    BY DEF ToSend, IsLine
  <2>8. ASSUME NEW i \in DOMAIN queue', NEW s \in Own, queue'[i].run = Mine, s < queue'[i].seq
        PROVE  \E j \in DOMAIN queue' : j < i /\ IsLine(queue'[j], s)
    <3>1. PICK j \in DOMAIN queue : j < i /\ IsLine(queue[j], s)
      BY <1>0, <2>2, <2>4, <2>8 DEF FirstComesFirst
    <3> QED BY <2>3, <3>1
  <2>9. \A i \in DOMAIN unsent[Mine], s \in Own : s < unsent[Mine][i].seq =>
           Queued(s) \/ \E j \in DOMAIN unsent[Mine] : j < i /\ IsLine(unsent[Mine][j], s)
    BY <1>0, <2>2 DEF FirstComesFirst
  <2>10. /\ phase'[Mine] \notin Over => \A s \in Own : Queued(s) \/ ToSend(s)
         /\ phase'[Mine] \in Over => \E s \in Own : Queued(s)
    BY <1>0, <2>2 DEF FirstComesFirst, SameStage
  <2> QED BY <2>5, <2>6, <2>7, <2>8, <2>9, <2>10 DEF FirstComesFirst, IsLine
<1>7. NoOldLine'
  <2>1. \A i \in DOMAIN queue' : queue'[i].run = Mine => i + k \in DOMAIN queue /\ queue'[i] = queue[i + k]
    BY <1>1
  <2> QED BY <1>0, <2>1 DEF NoOldLine, IsLine
<1> QED BY <1>4, <1>5, <1>6, <1>7

\* The run's next line moves from its worker to the bus.
LEMMA OwnPush ==
  ASSUME Inv, NEW m, NEW k, Shifted(k, m), unsent[Mine] # <<>>, m = Head(unsent[Mine]),
         unsent'[Mine] = Tail(unsent[Mine]), SameStage,
         UNCHANGED <<transcript, pc, frontier, lagged, payload, failedReads>>
  PROVE  /\ \A i \in DOMAIN queue' : StillFits(queue'[i])
         /\ VersionsInOrder' /\ FirstComesFirst' /\ NoOldLine'
<1> USE DEF Inv, LineInvariant, LoopInvariant
<1> DEFINE U == unsent[Mine]
<1>0. TypeOK /\ LinesSound /\ VersionsInOrder /\ FirstComesFirst /\ NoOldLine /\ Mine \in Runs
  BY TypeFacts
<1>1. ASSUME NEW i \in DOMAIN queue'
      PROVE  \/ i + k \in DOMAIN queue /\ queue'[i] = queue[i + k]
             \/ i + k = Len(queue) + 1 /\ queue'[i] = m
  BY DEF Shifted
<1>2. \A i \in DOMAIN queue' : i \in Int
  BY DEF Shifted
<1>3. k \in Int
  BY DEF Shifted
<1>4. /\ m = U[1] /\ 1 \in DOMAIN U /\ Len(U) \in Nat /\ DOMAIN U = 1 .. Len(U)
      /\ DOMAIN unsent'[Mine] = 1 .. (Len(U) - 1)
      /\ \A i \in DOMAIN unsent'[Mine] : i + 1 \in DOMAIN U /\ unsent'[Mine][i] = U[i + 1]
  <2>1. U \in Seq(Messages) /\ U # <<>>
    BY <1>0 DEF TypeOK
  <2> HIDE DEF U
  <2> QED BY <2>1, PopElements DEF U
<1>5. m.run = Mine /\ Fits(m)
  BY <1>0, <1>4 DEF LinesSound
<1>6. ASSUME NEW i \in DOMAIN queue' PROVE StillFits(queue'[i])
  <2>1. CASE queue'[i] = m
    BY <1>5, <2>1 DEF StillFits, Fits, Own
  <2>2. CASE i + k \in DOMAIN queue /\ queue'[i] = queue[i + k]
    BY <1>0, <2>2 DEF LinesSound, StillFits, Fits, Own
  <2> QED BY <1>1, <2>1, <2>2
<1>7. VersionsInOrder'
  <2>1. ASSUME NEW i \in DOMAIN queue', NEW j \in DOMAIN queue', i < j PROVE InOrder(queue'[i], queue'[j])
    <3>1. i + k \in DOMAIN queue /\ queue'[i] = queue[i + k]
      BY <1>1, <1>2, <1>3, <2>1 DEF Shifted
    <3>2. CASE queue'[j] = m
      BY <1>0, <1>4, <3>1, <3>2 DEF VersionsInOrder
    <3>3. CASE j + k \in DOMAIN queue /\ queue'[j] = queue[j + k]
      <4>1. i + k < j + k
        BY <1>2, <1>3, <2>1
      <4> QED BY <1>0, <3>1, <3>3, <4>1 DEF VersionsInOrder
    <3> QED BY <1>1, <3>2, <3>3
  <2>2. ASSUME NEW i \in DOMAIN queue', NEW j \in DOMAIN unsent'[Mine] PROVE InOrder(queue'[i], unsent'[Mine][j])
    <3>1. CASE queue'[i] = m
      <4>1. 1 < j + 1
        BY <1>4
      <4> QED BY <1>0, <1>4, <3>1, <4>1 DEF VersionsInOrder
    <3>2. CASE i + k \in DOMAIN queue /\ queue'[i] = queue[i + k]
      BY <1>0, <1>4, <3>2 DEF VersionsInOrder
    <3> QED BY <1>1, <3>1, <3>2
  <2>3. ASSUME NEW i \in DOMAIN unsent'[Mine], NEW j \in DOMAIN unsent'[Mine], i < j
        PROVE  InOrder(unsent'[Mine][i], unsent'[Mine][j])
    <3>1. i + 1 < j + 1
      BY <1>4, <2>3
    <3> QED BY <1>0, <1>4, <3>1 DEF VersionsInOrder
  <2> QED BY <2>1, <2>2, <2>3 DEF VersionsInOrder, InOrder
<1>8. FirstComesFirst'
  <2>1. SUFFICES ASSUME Fresh' PROVE FirstComesFirst'
    BY DEF FirstComesFirst
  <2>2. Fresh /\ k = 0
    BY <2>1 DEF Fresh, Shifted
  <2>3. \A i \in DOMAIN queue : i \in DOMAIN queue' /\ queue'[i] = queue[i] /\ i \in Int /\ i <= Len(queue)
    BY <2>2 DEF Shifted
  <2>4. Len(queue) + 1 \in DOMAIN queue' /\ queue'[Len(queue) + 1] = m /\ Len(queue) \in Nat
    BY <2>2 DEF Shifted
  <2>5. Own' = Own
    BY DEF Own
  <2>6. \A s : Queued(s) \/ IsLine(m, s) => Queued(s)'
    BY <2>3, <2>4 DEF Queued, IsLine
  <2>7. ASSUME NEW s \in Own, phase'[Mine] \notin Over PROVE Queued(s)' \/ ToSend(s)'
    <3>1. CASE Queued(s)
      BY <2>6, <3>1
    <3>2. CASE ToSend(s)
      <4>1. PICK i \in DOMAIN U : IsLine(U[i], s)
        BY <3>2 DEF ToSend
      <4>2. CASE i = 1
        BY <1>4, <2>6, <4>1, <4>2
      <4>3. CASE i # 1
        <5>1. i - 1 \in DOMAIN unsent'[Mine] /\ unsent'[Mine][i - 1] = U[i]
          BY <1>4, <4>3
        <5> QED BY <4>1, <5>1 DEF ToSend, IsLine
      <4> QED BY <4>2, <4>3
    <3> QED BY <1>0, <2>2, <2>7, <3>1, <3>2 DEF FirstComesFirst, SameStage
  <2>8. ASSUME NEW i \in DOMAIN queue', NEW s \in Own, queue'[i].run = Mine, s < queue'[i].seq
        PROVE  \E j \in DOMAIN queue' : j < i /\ IsLine(queue'[j], s)
    <3>1. CASE i \in DOMAIN queue
      <4>1. PICK j \in DOMAIN queue : j < i /\ IsLine(queue[j], s)
        BY <1>0, <2>2, <2>3, <2>8, <3>1 DEF FirstComesFirst
      <4> QED BY <2>3, <4>1
    <3>2. CASE i = Len(queue) + 1
      <4>1. Queued(s) \/ \E j \in DOMAIN U : j < 1 /\ IsLine(U[j], s)
        BY <1>0, <1>4, <2>2, <2>4, <2>8, <3>2 DEF FirstComesFirst
      <4>2. PICK j \in DOMAIN queue : IsLine(queue[j], s)
        BY <1>4, <4>1 DEF Queued
      <4> QED BY <2>3, <2>4, <3>2, <4>2
    <3> QED BY <1>1, <1>2, <2>2, <3>1, <3>2 DEF Shifted
  <2>9. ASSUME NEW i \in DOMAIN unsent'[Mine], NEW s \in Own, s < unsent'[Mine][i].seq
        PROVE  Queued(s)' \/ \E j \in DOMAIN unsent'[Mine] : j < i /\ IsLine(unsent'[Mine][j], s)
    <3>1. Queued(s) \/ \E j \in DOMAIN U : j < i + 1 /\ IsLine(U[j], s)
      BY <1>0, <1>4, <2>2, <2>9 DEF FirstComesFirst
    <3>2. CASE Queued(s)
      BY <2>6, <3>2
    <3>3. CASE \E j \in DOMAIN U : j < i + 1 /\ IsLine(U[j], s)
      <4>1. PICK j \in DOMAIN U : j < i + 1 /\ IsLine(U[j], s)
        BY <3>3
      <4>2. CASE j = 1
        BY <1>4, <2>6, <4>1, <4>2
      <4>3. CASE j # 1
        <5>1. DOMAIN U = 1 .. Len(U) /\ DOMAIN unsent'[Mine] = 1 .. (Len(U) - 1) /\ Len(U) \in Nat
          BY <1>4
        <5>2. j - 1 \in DOMAIN unsent'[Mine] /\ (j - 1) + 1 = j /\ j - 1 < i
          BY <2>9, <4>1, <4>3, <5>1
        <5>3. unsent'[Mine][j - 1] = U[j]
          BY <1>4, <5>2
        <5> QED BY <4>1, <5>2, <5>3
      <4> QED BY <4>2, <4>3
    <3> QED BY <3>1, <3>2, <3>3
  <2>10. phase'[Mine] \in Over => \E s \in Own : Queued(s)'
    BY <1>0, <2>2, <2>6 DEF FirstComesFirst, SameStage
  <2> QED BY <2>5, <2>7, <2>8, <2>9, <2>10 DEF FirstComesFirst, IsLine
<1>9. NoOldLine'
  <2> SUFFICES ASSUME failedReads = 0, pc = "recv", frontier # 0, payload = 2
               PROVE  /\ \A i \in DOMAIN queue' : IsLine(queue'[i], frontier) => queue'[i].ver = 2
                      /\ \A i \in DOMAIN unsent'[Mine] :
                            IsLine(unsent'[Mine][i], frontier) => unsent'[Mine][i].ver = 2
    BY DEF NoOldLine, IsLine
  <2>1. /\ \A i \in DOMAIN queue : IsLine(queue[i], frontier) => queue[i].ver = 2
        /\ \A i \in DOMAIN U : IsLine(U[i], frontier) => U[i].ver = 2
    BY <1>0 DEF NoOldLine
  <2> QED BY <1>1, <1>4, <2>1
<1> QED BY <1>6, <1>7, <1>8, <1>9

LEMMA EmitInv ==
  ASSUME Inv, NEW r \in Runs, Emit(r)
  PROVE  Inv'
<1> USE DEF Inv, LineInvariant, LoopInvariant
<1> DEFINE m == Head(unsent[r])
<1>1. /\ TypeOK /\ HandedInvariant /\ RowsSound /\ LinesSound /\ VersionsInOrder /\ LoopSound /\ CompleteAtEnd
      /\ Mine \in Runs /\ unsent[r] \in Seq(Messages) /\ unsent[r] # <<>> /\ Push(m)
  BY TypeFacts DEF Emit, TypeOK
<1>2. UNCHANGED <<transcript, mute, open, threadKnown, frontier, payload, lagged, done, pc, finishing,
                  out, ownDone, readFailed, failedReads>>
  BY DEF Emit, state, given, reads
<1>p. /\ phase' \in [Runs -> {"none", "open", "saved", "closed"}] /\ SameStage
      /\ \A q \in Runs : phase'[q] = "open" => phase[q] = "open"
  BY <1>1 DEF Emit, TypeOK, SameStage, Over
<1>3. /\ m \in Messages /\ m = unsent[r][1] /\ 1 \in DOMAIN unsent[r] /\ Tail(unsent[r]) \in Seq(Messages)
      /\ \A i \in DOMAIN Tail(unsent[r]) : i + 1 \in DOMAIN unsent[r] /\ Tail(unsent[r])[i] = unsent[r][i + 1]
      /\ DOMAIN Tail(unsent[r]) = 1 .. (Len(unsent[r]) - 1)
  BY <1>1, PopElements
<1>4. /\ unsent' \in [Runs -> Seq(Messages)] /\ unsent'[r] = Tail(unsent[r])
      /\ \A q \in Runs \ {r} : unsent'[q] = unsent[q]
  BY <1>1, <1>3 DEF Emit, TypeOK
<1> HIDE DEF m
<1>5. m.run = r
  BY <1>1, <1>3 DEF LinesSound
<1>6. ASSUME NEW q \in Runs, NEW i \in DOMAIN unsent'[q]
      PROVE  unsent'[q][i].run = q /\ StillFits(unsent'[q][i])
  <2>1. PICK j \in DOMAIN unsent[q] : unsent'[q][i] = unsent[q][j]
    BY <1>3, <1>4
  <2> QED BY <1>1, <1>2, <2>1 DEF LinesSound, Fits, StillFits, Own
<1>7. RowsSound'
  <2>1. open
    BY <1>1 DEF RowsSound
  <2> QED BY <1>1, <1>2, <1>p, <2>1 DEF RowsSound, Own, SameStage
<1>8. HandedInvariant'
  BY <1>1, <1>2, SameHanded
<1>9. LoopSound' /\ CompleteAtEnd'
  BY <1>1, <1>2, <1>p, SameLoop DEF SameStage
<1>10. CASE pc \in Ended
  <2>1. queue' = queue /\ missed' = missed
    BY <1>1, <1>10 DEF Push
  <2>2. TypeOK'
    BY <1>1, <1>2, <1>4, <1>p, <2>1 DEF TypeOK
  <2>3. pc # "recv"
    BY <1>10 DEF Ended
  <2>4. FirstComesFirst' /\ NoOldLine'
    BY <1>2, <2>3 DEF FirstComesFirst, Fresh, NoOldLine
  <2>5. LinesSound'
    <3>1. \A i \in DOMAIN queue' : StillFits(queue'[i])
      BY <1>1, <1>2, <2>1 DEF LinesSound, Fits, StillFits, Own
    <3> QED BY <1>6, <3>1, LinesFit
  <2>6. VersionsInOrder'
    <3>1. CASE r # Mine
      BY <1>1, <1>4, <2>1, <3>1 DEF VersionsInOrder, InOrder
    <3>2. CASE r = Mine
      <4>1. \A i \in DOMAIN queue, j \in DOMAIN unsent'[Mine] : InOrder(queue[i], unsent'[Mine][j])
        BY <1>1, <1>3, <1>4, <3>2 DEF VersionsInOrder
      <4>2. ASSUME NEW i \in DOMAIN unsent'[Mine], NEW j \in DOMAIN unsent'[Mine], i < j
            PROVE  InOrder(unsent'[Mine][i], unsent'[Mine][j])
        <5>1. /\ i \in DOMAIN Tail(unsent[Mine]) /\ j \in DOMAIN Tail(unsent[Mine])
              /\ unsent'[Mine] = Tail(unsent[Mine])
          BY <1>4, <3>2, <4>2
        <5>2. /\ i + 1 \in DOMAIN unsent[Mine] /\ unsent'[Mine][i] = unsent[Mine][i + 1]
              /\ j + 1 \in DOMAIN unsent[Mine] /\ unsent'[Mine][j] = unsent[Mine][j + 1]
          BY <1>3, <3>2, <5>1
        <5>3. i \in Int /\ j \in Int
          BY <1>3, <3>2, <5>1
        <5>4. i + 1 < j + 1
          BY <4>2, <5>3
        <5>5. \A a, b \in DOMAIN unsent[Mine] : a < b => InOrder(unsent[Mine][a], unsent[Mine][b])
          BY <1>1 DEF VersionsInOrder
        <5>6. InOrder(unsent[Mine][i + 1], unsent[Mine][j + 1])
          BY <5>2, <5>4, <5>5
        <5> QED BY <5>2, <5>6
      <4> QED BY <1>1, <2>1, <4>1, <4>2 DEF VersionsInOrder, InOrder
    <3> QED BY <3>1, <3>2
  <2> QED BY <1>7, <1>8, <1>9, <2>2, <2>4, <2>5, <2>6
<1>11. CASE pc \notin Ended
  <2>1. queue' \in Seq(Messages) /\ Len(queue') <= BusCapacity /\ \E k \in {0, 1} : Shifted(k, m)
    BY <1>1, <1>3, <1>11, PushShifts
  <2>2. PICK k \in {0, 1} : Shifted(k, m)
    BY <2>1
  <2>3. missed' \in BOOLEAN
    BY <2>2 DEF Shifted
  <2>4. TypeOK'
    BY <1>1, <1>2, <1>4, <1>p, <2>1, <2>3 DEF TypeOK
  <2>5. (\A i \in DOMAIN queue' : StillFits(queue'[i])) /\ VersionsInOrder' /\ FirstComesFirst' /\ NoOldLine'
    <3>1. CASE r = Mine
      <4>1. unsent'[Mine] = Tail(unsent[Mine]) /\ m = Head(unsent[Mine]) /\ unsent[Mine] # <<>>
        BY <1>1, <1>4, <3>1 DEF m
      <4> QED BY <1>2, <1>p, <2>2, <4>1, OwnPush
    <3>2. CASE r # Mine
      <4>1. unsent'[Mine] = unsent[Mine] /\ m.run # Mine
        BY <1>1, <1>4, <1>5, <3>2
      <4> QED BY <1>2, <1>3, <1>p, <2>2, <4>1, QuietPush
    <3> QED BY <3>1, <3>2
  <2>6. LinesSound'
    BY <1>6, <2>5, LinesFit
  <2> QED BY <1>7, <1>8, <1>9, <2>4, <2>5, <2>6
<1> QED BY <1>10, <1>11

\* A run that ends and announces nothing, or nothing more.
EndsQuietly(r) ==
    /\ phase[r] \in {"open", "saved"} /\ (phase[r] = "open" => unsent[r] = <<>>)
    /\ phase' = [phase EXCEPT ![r] = "closed"]
    /\ unsent' = [unsent EXCEPT ![r] = <<>>] /\ mute' \subseteq Nat
    /\ UNCHANGED <<transcript, bus, state, pc, finishing, given, reads>>

LEMMA KilledQuietly ==
  ASSUME Inv, NEW r \in Runs, Killed(r)
  PROVE  EndsQuietly(r)
<1>1. \A i \in DOMAIN unsent[r] : unsent[r][i].seq \in Nat
  BY TypeFacts DEF Inv
<1>2. mute' \subseteq Nat
  BY <1>1 DEF Killed, Inv, TypeOK
<1> QED BY <1>2 DEF Killed, EndsQuietly

LEMMA AbortedQuietly ==
  ASSUME Inv, NEW r \in Runs, RunAborted(r), UNCHANGED <<transcript, unsent>>
  PROVE  EndsQuietly(r)
<1>1. unsent[r] = <<>> /\ unsent \in [Runs -> Seq(Messages)]
  BY DEF RunAborted, MayWrite, Inv, TypeOK
<1>2. unsent' = [unsent EXCEPT ![r] = <<>>]
  BY <1>1
<1> QED BY <1>1, <1>2 DEF RunAborted, EndsQuietly, Inv, TypeOK

LEMMA EndsQuietlyInv ==
  ASSUME Inv, NEW r \in Runs, EndsQuietly(r)
  PROVE  Inv'
<1> USE DEF Inv, LineInvariant, LoopInvariant
<1>1. /\ TypeOK /\ HandedInvariant /\ RowsSound /\ LinesSound /\ VersionsInOrder /\ FirstComesFirst
      /\ NoOldLine /\ LoopSound /\ CompleteAtEnd /\ Mine \in Runs
  BY TypeFacts
<1>2. UNCHANGED <<transcript, queue, missed, open, threadKnown, frontier, payload, lagged, done,
                  pc, finishing, out, ownDone, readFailed, failedReads>>
  BY DEF EndsQuietly, bus, state, given, reads
<1>3. /\ phase' \in [Runs -> {"none", "open", "saved", "closed"}] /\ phase'[r] = "closed"
      /\ \A q \in Runs \ {r} : phase'[q] = phase[q]
      /\ phase[r] \in {"open", "saved"}
  BY <1>1 DEF EndsQuietly, TypeOK
<1>4. /\ unsent' \in [Runs -> Seq(Messages)] /\ unsent'[r] = <<>> /\ DOMAIN unsent'[r] = {}
      /\ \A q \in Runs \ {r} : unsent'[q] = unsent[q]
  <2>1. <<>> \in Seq(Messages)
    OBVIOUS
  <2> QED BY <1>1, <2>1 DEF EndsQuietly, TypeOK
<1>5. TypeOK'
  BY <1>1, <1>2, <1>3, <1>4 DEF TypeOK, EndsQuietly
<1>6. HandedInvariant'
  BY <1>1, <1>2, SameHanded
<1>7. phase[Mine] \in Over => phase'[Mine] \in Over
  BY <1>1, <1>3 DEF Over
<1>8. RowsSound'
  <2>1. Own' = Own
    BY <1>2 DEF Own
  <2>2. phase'[Mine] = "none" <=> phase[Mine] = "none"
    BY <1>1, <1>3
  <2>3. ~open' => \A q \in Runs : phase'[q] # "open" /\ unsent'[q] = <<>>
    BY <1>1, <1>2, <1>3, <1>4 DEF RowsSound
  <2> QED BY <1>1, <1>2, <1>7, <2>1, <2>2, <2>3 DEF RowsSound
<1>9. LinesSound' /\ VersionsInOrder'
  <2>1. \A q \in Runs : \A i \in DOMAIN unsent'[q] : i \in DOMAIN unsent[q] /\ unsent'[q] = unsent[q]
    BY <1>4
  <2>2. LinesSound'
    BY <1>1, <1>2, <2>1 DEF LinesSound, Fits, Own
  <2>3. VersionsInOrder'
    BY <1>1, <1>2, <2>1 DEF VersionsInOrder, InOrder
  <2> QED BY <2>2, <2>3
<1>10. CASE r # Mine
  <2>1. unsent'[Mine] = unsent[Mine] /\ phase'[Mine] = phase[Mine]
    BY <1>1, <1>3, <1>4, <1>10
  <2>2. FirstComesFirst' /\ NoOldLine'
    BY <1>1, <1>2, <2>1 DEF FirstComesFirst, Fresh, Own, Queued, ToSend, IsLine, NoOldLine
  <2>3. LoopSound' /\ CompleteAtEnd'
    BY <1>1, <1>2, <1>7, SameLoop
  <2> QED BY <1>5, <1>6, <1>8, <1>9, <2>2, <2>3
<1>11. CASE r = Mine
  <2>1. DOMAIN unsent'[Mine] = {} /\ phase'[Mine] \in Over
    BY <1>3, <1>4, <1>11 DEF Over
  \* All it wrote before its end is announced.
  <2>2. Fresh => \E s \in Own : Queued(s)
    <3> SUFFICES ASSUME Fresh PROVE \E s \in Own : Queued(s)
      OBVIOUS
    <3>1. CASE phase[Mine] \in Over
      BY <1>1, <3>1 DEF FirstComesFirst
    <3>2. CASE phase[Mine] \notin Over
      <4>1. phase[Mine] = "open" /\ DOMAIN unsent[Mine] = {}
        BY <1>3, <1>11, <3>2 DEF Over, EndsQuietly
      <4>2. Own # {} /\ \A s \in Own : Queued(s)
        BY <1>1, <3>2, <4>1 DEF FirstComesFirst, ToSend, RowsSound
      <4> QED BY <4>2
    <3> QED BY <3>1, <3>2
  <2>3. FirstComesFirst'
    <3>1. Fresh' = Fresh /\ Own' = Own /\ \A s : Queued(s)' = Queued(s)
      BY <1>2 DEF Fresh, Own, Queued, IsLine
    <3> QED BY <1>1, <1>2, <2>1, <2>2, <3>1 DEF FirstComesFirst, IsLine
  <2>4. NoOldLine'
    BY <1>1, <1>2, <2>1 DEF NoOldLine, IsLine
  <2>5. LoopSound' /\ CompleteAtEnd'
    BY <1>1, <1>2, <1>7, SameLoop
  <2> QED BY <1>5, <1>6, <1>8, <1>9, <2>3, <2>4, <2>5
<1> QED BY <1>10, <1>11

LEMMA OtherTrafficInv ==
  ASSUME Inv, OtherTraffic
  PROVE  Inv'
<1> USE DEF Inv, LineInvariant, LoopInvariant
<1>1. /\ TypeOK /\ HandedInvariant /\ RowsSound /\ LinesSound /\ LoopSound /\ CompleteAtEnd
      /\ Push(Traffic) /\ pc \notin Ended
  BY DEF OtherTraffic
<1>2. UNCHANGED <<transcript, phase, unsent, mute, open, threadKnown, frontier, payload, lagged, done, pc,
                  finishing, out, ownDone, readFailed, failedReads>>
  BY DEF OtherTraffic, writer, state, given, reads
<1>3. Traffic \in Messages /\ Traffic.run # Mine
  BY DEF Traffic, Messages, Kinds
<1>4. queue' \in Seq(Messages) /\ Len(queue') <= BusCapacity /\ \E k \in {0, 1} : Shifted(k, Traffic)
  BY <1>1, <1>3, PushShifts
<1>5. PICK k \in {0, 1} : Shifted(k, Traffic)
  BY <1>4
<1>6. TypeOK'
  <2>1. missed' \in BOOLEAN
    BY <1>5 DEF Shifted
  <2> QED BY <1>1, <1>2, <1>4, <2>1 DEF TypeOK
<1>7. (\A i \in DOMAIN queue' : StillFits(queue'[i])) /\ VersionsInOrder' /\ FirstComesFirst' /\ NoOldLine'
  BY <1>2, <1>3, <1>5, QuietPush DEF SameStage
<1>8. LinesSound'
  <2>1. \A q \in Runs : \A i \in DOMAIN unsent'[q] : unsent'[q][i].run = q /\ StillFits(unsent'[q][i])
    BY <1>1, <1>2 DEF LinesSound, Fits, StillFits, Own
  <2> QED BY <1>7, <2>1, LinesFit
<1>9. RowsSound' /\ HandedInvariant' /\ LoopSound' /\ CompleteAtEnd'
  <2>1. RowsSound'
    BY <1>1, <1>2 DEF RowsSound, Own
  <2>2. HandedInvariant'
    BY <1>1, <1>2, SameHanded
  <2>3. LoopSound' /\ CompleteAtEnd'
    BY <1>1, <1>2, SameLoop
  <2> QED BY <2>1, <2>2, <2>3
<1> QED BY <1>6, <1>7, <1>8, <1>9

LEMMA BusClosesInv ==
  ASSUME Inv, BusCloses
  PROVE  Inv'
<1> USE DEF Inv, LineInvariant, LoopInvariant
<1>1. UNCHANGED <<transcript, phase, unsent, mute, queue, missed, threadKnown, frontier, payload, lagged, done,
                  pc, finishing, out, ownDone, readFailed, failedReads>>
  BY DEF BusCloses, writer, state, given, reads
<1>2. open /\ open' = FALSE /\ \A r \in Runs : phase[r] # "open" /\ unsent[r] = <<>>
  BY DEF BusCloses, MayWrite
<1>3. TypeOK'
  BY <1>1, <1>2 DEF TypeOK
<1>4. HandedInvariant'
  BY <1>1, SameHanded
<1>5. RowsSound'
  BY <1>1, <1>2 DEF RowsSound, Own
<1>6. LinesSound' /\ VersionsInOrder'
  BY <1>1 DEF LinesSound, Fits, Own, VersionsInOrder, InOrder
<1>7. FirstComesFirst' /\ NoOldLine'
  BY <1>1 DEF FirstComesFirst, Fresh, Own, Queued, ToSend, IsLine, NoOldLine
<1>8. LoopSound'
  BY <1>1, <1>2 DEF LoopSound, Own
<1>9. CompleteAtEnd'
  BY <1>1 DEF CompleteAtEnd, Own, Handed
<1> QED BY <1>3, <1>4, <1>5, <1>6, <1>7, <1>8, <1>9

LEMMA AbortInv ==
  ASSUME Inv, Abort
  PROVE  Inv'
<1> USE DEF Inv, LineInvariant, LoopInvariant
<1>1. UNCHANGED <<transcript, phase, unsent, mute, open, threadKnown, frontier, payload, lagged, done,
                  finishing, out, ownDone, readFailed, failedReads>>
  BY DEF Abort, writer, state, given, reads
<1>2. pc \notin Ended /\ pc' = "aborted" /\ queue' = <<>> /\ missed' = FALSE
  BY DEF Abort
<1>3. queue' \in Seq(Messages) /\ Len(queue') = 0 /\ DOMAIN queue' = {}
  BY <1>2
<1>4. TypeOK'
  <2>1. queue' \in Seq(Messages) /\ Len(queue') <= BusCapacity
    BY <1>3
  <2>2. pc' \in {"recv", "tail", "pages"} \cup Ended /\ missed' \in BOOLEAN
    BY <1>2 DEF Ended
  <2> QED BY <1>1, <2>1, <2>2 DEF TypeOK
<1>5. HandedInvariant'
  BY <1>1, SameHanded
<1>6. RowsSound'
  BY <1>1 DEF RowsSound, Own
<1>7. LinesSound' /\ VersionsInOrder'
  <2>1. LinesSound'
    BY <1>1, <1>3 DEF LinesSound, Fits, Own
  <2>2. VersionsInOrder'
    BY <1>1, <1>3 DEF VersionsInOrder, InOrder
  <2> QED BY <2>1, <2>2
<1>8. FirstComesFirst' /\ NoOldLine' /\ CompleteAtEnd'
  BY <1>2 DEF FirstComesFirst, Fresh, NoOldLine, CompleteAtEnd
<1>9. LoopSound'
  BY <1>1, <1>2 DEF LoopSound, Own, Ended
<1> QED BY <1>4, <1>5, <1>6, <1>7, <1>8, <1>9

LEMMA StutterInv ==
  ASSUME Inv, UNCHANGED vars
  PROVE  Inv'
<1>1. UNCHANGED <<transcript, phase, unsent, mute, queue, missed, open, threadKnown, frontier, payload, lagged,
                  done, pc, finishing, out, ownDone, readFailed, failedReads>>
  BY DEF vars, writer, bus, state, given, reads
<1>2. TypeOK'
  BY <1>1 DEF Inv, TypeOK
<1>3. HandedInvariant'
  BY <1>1, SameHanded DEF Inv
<1>4. RowsSound' /\ LinesSound' /\ VersionsInOrder'
  <2>1. RowsSound'
    BY <1>1 DEF Inv, LineInvariant, RowsSound, Own
  <2>2. LinesSound'
    BY <1>1 DEF Inv, LineInvariant, LinesSound, Fits, Own
  <2>3. VersionsInOrder'
    BY <1>1 DEF Inv, LineInvariant, VersionsInOrder, InOrder
  <2> QED BY <2>1, <2>2, <2>3
<1>5. FirstComesFirst' /\ NoOldLine'
  BY <1>1 DEF Inv, LineInvariant, LoopInvariant, FirstComesFirst, Fresh, Own, Queued, ToSend, IsLine, NoOldLine
<1>6. LoopSound' /\ CompleteAtEnd'
  BY <1>1, SameLoop DEF Inv, LoopInvariant
<1> QED BY <1>2, <1>3, <1>4, <1>5, <1>6 DEF Inv, LineInvariant, LoopInvariant

-----------------------------------------------------------------------------
(* What a delivery hands over.                                             *)

\* The rows `seqs` were handed over, in the versions and of the kinds of `rows`.
Delivered(seqs, rows) ==
    /\ frontier' \in seqs /\ \A q \in seqs : q <= frontier'
    /\ payload' = rows[frontier'].ver
    /\ out' \in [Seqs -> Seq({1, 2})]
    /\ \A s \in seqs : out'[s] = Append(out[s], rows[s].ver)
    /\ \A s \in Seqs \ seqs : out'[s] = out[s]
    /\ Handed' = Handed \cup seqs
    /\ done' = (done \/ \E s \in seqs : rows[s].kind = "done")

LEMMA DeliverFacts ==
  ASSUME TypeOK, NEW seqs, seqs \subseteq Seqs, seqs # {}, NEW rows, DOMAIN rows = seqs,
         \A s \in seqs : rows[s].ver \in {1, 2}, Deliver(rows)
  PROVE  Delivered(seqs, rows)
<1>1. /\ out' = [s \in Seqs |-> IF s \in seqs THEN Append(out[s], rows[s].ver) ELSE out[s]]
      /\ frontier' = CHOOSE s \in seqs : \A q \in seqs : q <= s
      /\ payload' = rows[frontier'].ver
      /\ done' = (done \/ \E s \in seqs : rows[s].kind = "done")
  BY DEF Deliver
<1>2. frontier' \in seqs /\ \A q \in seqs : q <= frontier'
  <2>1. seqs \in SUBSET Nat /\ MaxRows \in Nat /\ \A s \in seqs : s <= MaxRows
    BY DEF Seqs
  <2>2. \E s \in seqs : \A q \in seqs : q <= s
    BY <2>1, MaxExists
  <2> QED BY <1>1, <2>2
<1>3. ASSUME NEW s \in Seqs
      PROVE  /\ s \in seqs => out'[s] = Append(out[s], rows[s].ver)
             /\ s \notin seqs => out'[s] = out[s]
             /\ out'[s] \in Seq({1, 2})
             /\ out'[s] # <<>> <=> out[s] # <<>> \/ s \in seqs
  <2>1. out[s] \in Seq({1, 2})
    BY DEF TypeOK
  <2>2. CASE s \in seqs
    <3>1. out'[s] = Append(out[s], rows[s].ver)
      BY <1>1, <2>2
    <3>2. rows[s].ver \in {1, 2}
      BY <2>2
    <3>3. Append(out[s], rows[s].ver) \in Seq({1, 2}) /\ Len(Append(out[s], rows[s].ver)) = Len(out[s]) + 1
          /\ Len(out[s]) \in Nat
      BY <2>1, <3>2, AppendElements
    <3>4. Append(out[s], rows[s].ver) # <<>>
      <4>1. Len(Append(out[s], rows[s].ver)) # 0
        BY <3>3
      <4> QED BY <4>1, LongNotEmpty, Zenon
    <3>5. out'[s] \in Seq({1, 2}) /\ out'[s] # <<>>
      BY <3>1, <3>3, <3>4
    <3> QED BY <2>2, <3>1, <3>5
  <2>3. CASE s \notin seqs
    BY <1>1, <2>1, <2>3
  <2> QED BY <2>2, <2>3
<1>4. out' \in [Seqs -> Seq({1, 2})]
  BY <1>1, <1>3
<1>5. Handed' = Handed \cup seqs
  BY <1>3 DEF Handed
<1> QED BY <1>1, <1>2, <1>3, <1>4, <1>5 DEF Delivered

\* The versions a row was handed over in.
LEMMA HandedVersions ==
  ASSUME TypeOK, NEW s \in Handed
  PROVE  /\ s \in Seqs /\ out[s] \in Seq({1, 2}) /\ Len(out[s]) \in 1 .. Len(out[s]) /\ Len(out[s]) \in Nat
         /\ DOMAIN out[s] = 1 .. Len(out[s]) /\ \A i \in DOMAIN out[s] : out[s][i] \in {1, 2}
<1>1. s \in Seqs /\ out[s] # <<>> /\ out[s] \in Seq({1, 2})
  BY DEF Handed, TypeOK
<1>2. DOMAIN out[s] = 1 .. Len(out[s]) /\ Len(out[s]) \in Nat /\ Len(out[s]) # 0
  BY <1>1, EmptySeq, LenProperties
<1>3. \A i \in 1 .. Len(out[s]) : out[s][i] \in {1, 2}
  BY <1>1, ElementOfSeq
<1> QED BY <1>1, <1>2, <1>3

\* What is handed over keeps the promises: rows behind the frontier without a hole,
\* or the row of the frontier again in a newer version.
Faithful(seqs, rows) ==
    /\ seqs \subseteq OldRows /\ DOMAIN rows = seqs
    /\ \A s \in seqs :
          /\ Accepts(transcript[s]) /\ rows[s].kind = transcript[s].kind
          /\ rows[s].ver \in {1, 2} /\ rows[s].ver <= transcript[s].ver
          /\ \/ frontier < s
             \/ s = frontier /\ (failedReads = 0 => payload < rows[s].ver)
    /\ \A s \in Own, t \in seqs : frontier < s /\ s <= t => s \in seqs

LEMMA DeliverKeeps ==
  ASSUME Inv, NEW seqs, NEW rows, Faithful(seqs, rows), Delivered(seqs, rows),
         transcript' = transcript, threadKnown', failedReads' = 0 => failedReads = 0
  PROVE  HandedInvariant' /\ frontier <= frontier' /\ frontier' \in 1 .. MaxRows /\ payload' \in {1, 2}
<1> USE DEF Inv, HandedInvariant
<1>1. /\ TypeOK /\ NoHole /\ OwnTextOnly /\ VersionsAdvance /\ HandedSound
      /\ Len(transcript) \in Nat /\ DOMAIN transcript = OldRows /\ OldRows \subseteq Seqs /\ seqs \subseteq OldRows
      /\ \A s \in OldRows : transcript[s].ver \in {1, 2}
  BY TypeFacts DEF Faithful
<1>2. frontier' \in seqs /\ (\A q \in seqs : q <= frontier') /\ Handed' = Handed \cup seqs
  BY DEF Delivered
<1>3. /\ frontier \in Nat /\ frontier' \in Nat /\ frontier <= frontier' /\ frontier' \in 1 .. Len(transcript)
      /\ \A s \in Handed : s <= frontier /\ s \in DOMAIN transcript
  <2>1. frontier \in Nat /\ frontier' \in OldRows
    BY <1>1, <1>2 DEF TypeOK
  <2>2. frontier <= frontier'
    BY <1>2, <2>1 DEF Faithful, OldRows
  <2> QED BY <1>1, <2>1, <2>2 DEF OldRows, HandedSound
<1>4. Own' = Own
  BY DEF Own
<1>5. NoHole'
  <2> SUFFICES ASSUME NEW s \in Own, s <= frontier' PROVE s \in Handed \cup seqs
    BY <1>2, <1>4 DEF NoHole
  <2>1. s \in Nat
    BY <1>1 DEF Own, OldRows
  <2>2. CASE s <= frontier
    BY <1>1, <2>2 DEF NoHole
  <2>3. CASE frontier < s
    BY <1>2, <2>3 DEF Faithful
  <2> QED BY <1>3, <2>1, <2>2, <2>3
<1>6. OwnTextOnly'
  <2>1. ASSUME NEW s \in seqs, transcript[s].kind = "text" PROVE transcript[s].run = Mine
    BY <2>1 DEF Faithful, Accepts, Controls
  <2> QED BY <1>1, <1>2, <2>1 DEF OwnTextOnly
<1>7. ASSUME NEW s \in seqs
      PROVE  /\ out'[s] = Append(out[s], rows[s].ver) /\ rows[s].ver \in {1, 2}
             /\ out[s] \in Seq({1, 2}) /\ out'[s] \in Seq({1, 2})
             /\ Len(out[s]) \in Nat /\ Len(out'[s]) = Len(out[s]) + 1
             /\ DOMAIN out[s] = 1 .. Len(out[s]) /\ DOMAIN out'[s] = 1 .. (Len(out[s]) + 1)
             /\ \A i \in DOMAIN out'[s] : out'[s][i] = IF i <= Len(out[s]) THEN out[s][i] ELSE rows[s].ver
             /\ out'[s][Len(out'[s])] = rows[s].ver
  <2>1. s \in Seqs /\ out[s] \in Seq({1, 2}) /\ rows[s].ver \in {1, 2}
    BY <1>1 DEF TypeOK, Faithful
  <2>2. out'[s] = Append(out[s], rows[s].ver)
    BY DEF Delivered
  <2>3. /\ out'[s] \in Seq({1, 2}) /\ Len(out[s]) \in Nat /\ Len(out'[s]) = Len(out[s]) + 1
        /\ DOMAIN out[s] = 1 .. Len(out[s]) /\ DOMAIN out'[s] = 1 .. (Len(out[s]) + 1)
        /\ \A i \in DOMAIN out'[s] : out'[s][i] = IF i <= Len(out[s]) THEN out[s][i] ELSE rows[s].ver
    BY <2>1, <2>2, AppendElements
  <2>4. out'[s][Len(out'[s])] = rows[s].ver
    BY <2>3
  <2> QED BY <2>1, <2>2, <2>3, <2>4
<1>8. VersionsAdvance'
  <2> SUFFICES ASSUME failedReads' = 0, failedReads = 0, NEW s \in Handed \cup seqs
               PROVE  /\ \A i, j \in DOMAIN out'[s] : i < j => out'[s][i] < out'[s][j]
                      /\ s \in DOMAIN transcript /\ out'[s][Len(out'[s])] <= transcript[s].ver
    BY <1>2 DEF VersionsAdvance
  <2>1. CASE s \notin seqs
    <3>1. s \in Handed /\ s \in Seqs /\ out'[s] = out[s]
      BY <2>1 DEF Delivered, Handed
    <3> QED BY <1>1, <3>1 DEF VersionsAdvance
  <2>2. CASE s \in seqs
    <3>1. s \in DOMAIN transcript /\ out'[s][Len(out'[s])] <= transcript[s].ver
      BY <1>1, <1>7, <2>2 DEF Faithful
    <3>2. ASSUME NEW i \in DOMAIN out'[s], NEW j \in DOMAIN out'[s], i < j PROVE out'[s][i] < out'[s][j]
      <4>1. i \in DOMAIN out[s] /\ out'[s][i] = out[s][i] /\ out[s] # <<>>
        <5>1. i \in DOMAIN out[s] /\ i <= Len(out[s])
          BY <1>7, <2>2, <3>2
        <5>2. out[s] # <<>>
          BY <5>1
        <5> QED BY <1>7, <2>2, <5>1, <5>2
      <4>2. s \in Handed
        BY <1>1, <2>2, <4>1 DEF Handed
      <4>3. s = frontier /\ payload < rows[s].ver /\ payload = out[s][Len(out[s])]
        <5>1. s = frontier /\ payload < rows[s].ver
          BY <1>1, <1>3, <2>2, <4>2 DEF Faithful, OldRows
        <5>2. frontier # 0
          BY <1>1, <2>2, <5>1 DEF OldRows
        <5> QED BY <1>1, <5>1, <5>2 DEF HandedSound
      <4>4. \A a, b \in DOMAIN out[s] : a < b => out[s][a] < out[s][b]
        BY <1>1, <4>2 DEF VersionsAdvance
      <4>5. \A a \in DOMAIN out[s] : out[s][a] \in {1, 2}
        BY <1>1, <4>2, HandedVersions
      <4>6. CASE j \in DOMAIN out[s]
        <5>1. out'[s][j] = out[s][j]
          BY <1>7, <2>2, <4>6
        <5> QED BY <3>2, <4>1, <4>4, <4>6, <5>1
      <4>7. CASE j \notin DOMAIN out[s]
        <5>1. out'[s][j] = rows[s].ver
          BY <1>7, <2>2, <4>7
        <5>2. Len(out[s]) \in DOMAIN out[s] /\ i <= Len(out[s]) /\ i \in Int
          BY <1>7, <2>2, <4>1
        <5>3. i = Len(out[s]) \/ out[s][i] < out[s][Len(out[s])]
          BY <1>7, <2>2, <4>1, <4>4, <5>2
        <5> QED BY <1>7, <2>2, <4>1, <4>3, <4>5, <5>1, <5>2, <5>3
      <4> QED BY <4>6, <4>7
    <3> QED BY <3>1, <3>2
  <2> QED BY <2>1, <2>2
<1>9. HandedSound'
  <2>1. \A s \in Handed' : s \in DOMAIN transcript' /\ s <= frontier'
    <3>1. \A s \in Handed : s <= frontier'
      BY <1>1, <1>3 DEF OldRows
    <3> QED BY <1>1, <1>2, <1>3, <3>1
  <2>2. frontier' <= Len(transcript') /\ frontier' \in Handed'
    BY <1>2, <1>3
  <2>3. payload' = out'[frontier'][Len(out'[frontier'])]
    BY <1>2, <1>7 DEF Delivered
  <2>4. done' <=> \E s \in Handed' : transcript'[s].kind = "done"
    <3>1. \A s \in seqs : rows[s].kind = transcript[s].kind
      BY DEF Faithful
    <3>2. done <=> \E s \in Handed : transcript[s].kind = "done"
      BY <1>1 DEF HandedSound
    <3>3. done' = (done \/ \E s \in seqs : rows[s].kind = "done")
      BY DEF Delivered
    <3> QED BY <1>2, <3>1, <3>2, <3>3
  <2> QED BY <2>1, <2>2, <2>3, <2>4 DEF HandedSound
<1>10. frontier' \in 1 .. MaxRows /\ payload' \in {1, 2}
  <2>1. frontier' \in Seqs
    BY <1>1, <1>2
  <2> QED BY <1>2, <2>1 DEF Seqs, Delivered, Faithful
<1> QED BY <1>3, <1>5, <1>6, <1>8, <1>9, <1>10

\* What a step of the task leaves of the rows it hands over.
HandsOn ==
    /\ HandedInvariant'
    /\ frontier <= frontier' /\ frontier' \in 0 .. MaxRows /\ payload' \in 0 .. 2
    /\ out' \in [Seqs -> Seq({1, 2})] /\ done' \in BOOLEAN

LEMMA HandsNothing ==
  ASSUME Inv, UNCHANGED <<transcript, out, frontier, payload, done>>, threadKnown => threadKnown',
         failedReads' = 0 => failedReads = 0
  PROVE  HandsOn
<1> USE DEF Inv, HandedInvariant
<1>1. NoHole' /\ OwnTextOnly'
  BY DEF NoHole, OwnTextOnly, Own, Handed
<1>2. VersionsAdvance'
  BY DEF VersionsAdvance, Handed
<1>3. HandedSound'
  BY DEF HandedSound, Handed
<1>4. frontier <= frontier'
  BY DEF TypeOK
<1> QED BY <1>1, <1>2, <1>3, <1>4 DEF HandsOn, TypeOK

LEMMA HandsRows ==
  ASSUME Inv, NEW seqs, seqs \subseteq Seqs, seqs # {}, NEW rows, Faithful(seqs, rows), Deliver(rows),
         transcript' = transcript, threadKnown', failedReads' = 0 => failedReads = 0
  PROVE  HandsOn /\ frontier' # 0 /\ Delivered(seqs, rows)
<1>1. Delivered(seqs, rows)
  <2>1. DOMAIN rows = seqs /\ \A s \in seqs : rows[s].ver \in {1, 2}
    BY DEF Faithful
  <2> QED BY <2>1, DeliverFacts DEF Inv
<1>2. HandedInvariant' /\ frontier <= frontier' /\ frontier' \in 1 .. MaxRows /\ payload' \in {1, 2}
  BY <1>1, DeliverKeeps
<1>3. out' \in [Seqs -> Seq({1, 2})] /\ done' \in BOOLEAN
  BY <1>1 DEF Delivered, Inv, TypeOK
<1> QED BY <1>1, <1>2, <1>3 DEF HandsOn

LEMMA HandsRecords ==
  ASSUME Inv, NEW seqs, seqs \subseteq After(frontier), \A s \in seqs : Accepts(transcript[s]),
         \A s \in Own, t \in seqs : frontier < s /\ s <= t => s \in seqs,
         DeliverRecords(seqs), transcript' = transcript, threadKnown, threadKnown',
         failedReads' = 0 => failedReads = 0
  PROVE  HandsOn /\ \A s \in seqs : s <= frontier'
<1>1. CASE seqs = {}
  <2>1. UNCHANGED <<out, frontier, payload, done>>
    BY <1>1 DEF DeliverRecords
  <2> QED BY <1>1, <2>1, HandsNothing
<1>2. CASE seqs # {}
  <2> DEFINE rows == [s \in seqs |-> transcript[s]]
  <2>1. Deliver(rows)
    BY <1>2 DEF DeliverRecords
  <2>2. seqs \subseteq OldRows /\ OldRows \subseteq Seqs /\ \A s \in seqs : frontier < s
    <3>1. \A s \in OldRows : s > frontier => frontier < s
      BY DEF OldRows, Inv, TypeOK
    <3> QED BY <3>1, TypeFacts DEF After, Inv
  <2>3. \A s \in seqs : transcript[s].ver \in {1, 2} /\ transcript[s].ver <= transcript[s].ver
    BY <2>2, TypeFacts DEF Inv
  <2>4. DOMAIN rows = seqs /\ \A s \in seqs : rows[s] = transcript[s]
    OBVIOUS
  <2> HIDE DEF rows
  <2>5. Faithful(seqs, rows)
    BY <2>2, <2>3, <2>4 DEF Faithful
  <2>6. HandsOn /\ Delivered(seqs, rows)
    BY <1>2, <2>1, <2>2, <2>5, HandsRows
  <2> QED BY <2>6 DEF Delivered
<1> QED BY <1>1, <1>2

\* The task takes lines from the head of the queue, or drops the queue.
QueueCut == queue' = queue \/ (queue # <<>> /\ queue' = Tail(queue)) \/ queue' = <<>>

LEMMA CutKeepsLines ==
  ASSUME Inv, QueueCut, UNCHANGED <<transcript, phase, unsent, mute, open>>
  PROVE  /\ queue' \in Seq(Messages) /\ Len(queue') <= BusCapacity
         /\ RowsSound' /\ LinesSound' /\ VersionsInOrder'
<1> USE DEF Inv, LineInvariant
<1>0. TypeOK /\ RowsSound /\ LinesSound /\ VersionsInOrder /\ queue \in Seq(Messages) /\ Len(queue) <= BusCapacity
  BY DEF TypeOK
<1>1. /\ queue' \in Seq(Messages) /\ Len(queue') <= BusCapacity
      /\ \E d \in {0, 1} : \A i \in DOMAIN queue' : i \in Int /\ i + d \in DOMAIN queue /\ queue'[i] = queue[i + d]
  <2>1. CASE queue' = queue
    <3>1. \A i \in DOMAIN queue : i \in Int /\ i + 0 = i
      BY <1>0, LenProperties
    <3> QED BY <1>0, <2>1, <3>1
  <2>2. CASE queue # <<>> /\ queue' = Tail(queue)
    <3>1. /\ Tail(queue) \in Seq(Messages) /\ Len(Tail(queue)) = Len(queue) - 1 /\ Len(queue) \in Nat
          /\ DOMAIN Tail(queue) = 1 .. (Len(queue) - 1)
          /\ \A i \in DOMAIN Tail(queue) : i + 1 \in DOMAIN queue /\ Tail(queue)[i] = queue[i + 1]
      BY <1>0, <2>2, PopElements
    <3>2. Len(Tail(queue)) <= BusCapacity
      BY <1>0, <3>1
    <3> QED BY <2>2, <3>1, <3>2
  <2>3. CASE queue' = <<>>
    <3>1. queue' \in Seq(Messages) /\ Len(queue') = 0 /\ DOMAIN queue' = {}
      BY <2>3
    <3>2. Len(queue') <= BusCapacity
      BY <3>1
    <3> QED BY <3>1, <3>2
  <2> QED BY <2>1, <2>2, <2>3 DEF QueueCut
<1>2. PICK d \in {0, 1} : \A i \in DOMAIN queue' : i \in Int /\ i + d \in DOMAIN queue /\ queue'[i] = queue[i + d]
  BY <1>1
<1>3. RowsSound'
  BY <1>0 DEF RowsSound, Own
<1>4. LinesSound'
  <2>1. LinesSound /\ UNCHANGED <<transcript, phase, unsent>>
    BY <1>0
  <2> QED BY <1>2, <2>1 DEF LinesSound, Fits, Own
<1>5. VersionsInOrder'
  <2>1. ASSUME NEW i \in DOMAIN queue', NEW j \in DOMAIN queue', i < j PROVE InOrder(queue'[i], queue'[j])
    <3>1. i + d < j + d
      BY <1>2, <2>1
    <3> QED BY <1>0, <1>2, <3>1 DEF VersionsInOrder
  <2>2. \A i \in DOMAIN queue', j \in DOMAIN unsent[Mine] : InOrder(queue'[i], unsent[Mine][j])
    BY <1>0, <1>2 DEF VersionsInOrder
  <2> QED BY <1>0, <2>1, <2>2 DEF VersionsInOrder, InOrder
<1> QED BY <1>1, <1>3, <1>4, <1>5

-----------------------------------------------------------------------------
(* Reading the bus keeps the invariant.                                    *)

\* The line that is read next.
LEMMA HeadFacts ==
  ASSUME Inv, queue # <<>>, NEW m, m = Head(queue)
  PROVE  /\ 1 \in DOMAIN queue /\ m = queue[1] /\ m \in Messages /\ Fits(m)
         /\ m.ver \in {1, 2} /\ m.seq \in Nat
         /\ \A i \in DOMAIN Tail(queue) :
               i \in Int /\ i + 1 \in DOMAIN queue /\ 1 < i + 1 /\ Tail(queue)[i] = queue[i + 1]
         /\ \A i \in DOMAIN queue : i \in Int /\ ~(i < 1) /\ (i # 1 => i - 1 \in DOMAIN Tail(queue))
<1>1. queue \in Seq(Messages) /\ LinesSound
  BY DEF Inv, LineInvariant, TypeOK
<1>2. /\ m = queue[1] /\ m \in Messages /\ 1 \in DOMAIN queue /\ Len(queue) \in Nat
      /\ DOMAIN queue = 1 .. Len(queue) /\ DOMAIN Tail(queue) = 1 .. (Len(queue) - 1)
      /\ \A i \in DOMAIN Tail(queue) : i + 1 \in DOMAIN queue /\ Tail(queue)[i] = queue[i + 1]
  BY <1>1, PopElements
<1>3. Fits(m)
  BY <1>1, <1>2 DEF LinesSound
<1>4. m.ver \in {1, 2} /\ m.seq \in Nat
  BY <1>2 DEF Messages
<1> QED BY <1>2, <1>3, <1>4

\* The first line of the run that a task reads, with nothing dropped, is its
\* first row, and the run does not end with it.
LEMMA FirstLine ==
  ASSUME Inv, Fresh, queue # <<>>, NEW m, m = Head(queue), m.run = Mine
  PROVE  m.kind # "complete" /\ \A s \in Own : m.seq <= s
<1>1. 1 \in DOMAIN queue /\ m = queue[1] /\ Fits(m) /\ m.seq \in Nat /\ \A i \in DOMAIN queue : ~(i < 1)
  BY HeadFacts
<1>2. FirstComesFirst /\ RowsSound
  BY DEF Inv, LineInvariant
<1>3. \A s \in Own : s \in Nat
  BY TypeFacts DEF Inv, Own, OldRows
<1>4. ASSUME NEW s \in Own PROVE ~(s < m.seq)
  BY <1>1, <1>2 DEF FirstComesFirst
<1>5. \A s \in Own : m.seq <= s
  BY <1>1, <1>3, <1>4
<1>6. m.kind # "complete"
  <2>1. m.seq \in Own /\ m.kind = transcript[m.seq].kind
    BY <1>1 DEF Fits
  <2> QED BY <1>2, <1>4, <2>1 DEF RowsSound
<1> QED BY <1>5, <1>6

\* A line that is handed over is the row behind the frontier, or the frontier's row
\* in a newer version.
LEMMA LineIsFaithful ==
  ASSUME Inv, pc = "recv", ~missed, queue # <<>>, NEW m, m = Head(queue), m.run = Mine,
         IsNext(m) \/ IsOverwrite(m)
  PROVE  Faithful({m.seq}, [s \in {m.seq} |-> m]) /\ m.seq \in Seqs
<1> USE DEF Inv, HandedInvariant, LoopInvariant
<1>1. /\ 1 \in DOMAIN queue /\ m = queue[1] /\ m.ver \in {1, 2} /\ m.seq \in Own
      /\ m.kind = transcript[m.seq].kind /\ m.ver <= transcript[m.seq].ver
  BY HeadFacts DEF Fits
<1>2. /\ m.seq \in OldRows /\ OldRows \subseteq Seqs /\ m.seq \in Nat /\ 0 < m.seq /\ frontier \in Nat
      /\ \A s \in Own : s \in Nat
  BY <1>1, TypeFacts DEF Own, OldRows, TypeOK
<1>3. Accepts(transcript[m.seq])
  BY <1>1 DEF Accepts, Own
<1>4. CASE frontier = 0 /\ ~lagged
  <2>1. Fresh
    BY <1>4 DEF Fresh
  <2>2. \A s \in Own : m.seq <= s
    BY <2>1, FirstLine
  <2>3. \A s \in Own, t \in {m.seq} : frontier < s /\ s <= t => s \in {m.seq}
    BY <1>2, <2>2
  <2> QED BY <1>1, <1>2, <1>3, <1>4, <2>3 DEF Faithful
<1>5. CASE frontier # 0 /\ m.seq = frontier + 1
  <2>1. \A s \in Own, t \in {m.seq} : frontier < s /\ s <= t => s \in {m.seq}
    BY <1>2, <1>5
  <2> QED BY <1>1, <1>2, <1>3, <1>5, <2>1 DEF Faithful
<1>6. CASE frontier # 0 /\ m.seq = frontier /\ m.ver # payload
  <2>1. \A s \in Own, t \in {m.seq} : frontier < s /\ s <= t => s \in {m.seq}
    BY <1>2, <1>6
  <2>2. payload \in {1, 2}
    BY <1>6, HandedVersions DEF HandedSound
  <2>3. failedReads = 0 => payload < m.ver
    <3>1. failedReads = 0 /\ payload = 2 => m.ver = 2
      BY <1>1, <1>6 DEF NoOldLine, IsLine
    <3> QED BY <1>1, <1>6, <2>2, <3>1
  <2> QED BY <1>1, <1>2, <1>3, <1>6, <2>1, <2>3 DEF Faithful
<1> QED BY <1>4, <1>5, <1>6 DEF IsNext, IsOverwrite

LEMMA ReadLineInv ==
  ASSUME Inv, ReadLine
  PROVE  Inv' /\ transcript' = transcript /\ frontier <= frontier'
<1> USE DEF Inv, LineInvariant, HandedInvariant, LoopInvariant
<1> DEFINE m == Head(queue)
<1>1. /\ pc = "recv" /\ ~missed /\ queue # <<>> /\ queue' = Tail(queue)
      /\ threadKnown' = (threadKnown \/ m.run = Mine)
      /\ UNCHANGED <<transcript, phase, unsent, mute, missed, open, lagged, ownDone, readFailed, failedReads>>
  BY DEF ReadLine, writer, reads
<1>2. \/ /\ m.run = Mine /\ m.kind = "complete"
         /\ pc' = "tail" /\ finishing' = TRUE
         /\ UNCHANGED <<out, frontier, payload, done>>
      \/ /\ m.run = Mine /\ m.kind # "complete" /\ (IsNext(m) \/ IsOverwrite(m))
         /\ DeliverLine(m)
         /\ UNCHANGED <<pc, finishing>>
      \/ /\ m.run = Mine /\ m.kind # "complete" /\ IsGap(m)
         /\ pc' = "tail"
         /\ UNCHANGED <<finishing, out, frontier, payload, done>>
      \/ /\ m.run # Mine \/ (~IsNext(m) /\ ~IsOverwrite(m) /\ ~IsGap(m))
         /\ UNCHANGED <<pc, finishing, out, frontier, payload, done>>
  BY DEF ReadLine
<1>3. /\ 1 \in DOMAIN queue /\ m = queue[1] /\ Fits(m) /\ m.ver \in {1, 2} /\ m.seq \in Nat
      /\ \A i \in DOMAIN Tail(queue) :
            i \in Int /\ i + 1 \in DOMAIN queue /\ 1 < i + 1 /\ Tail(queue)[i] = queue[i + 1]
      /\ \A i \in DOMAIN queue : i \in Int /\ ~(i < 1) /\ (i # 1 => i - 1 \in DOMAIN Tail(queue))
  BY <1>1, HeadFacts
<1> HIDE DEF m
<1>4. /\ queue' \in Seq(Messages) /\ Len(queue') <= BusCapacity
      /\ RowsSound' /\ LinesSound' /\ VersionsInOrder'
  <2>1. QueueCut
    BY <1>1 DEF QueueCut
  <2> QED BY <1>1, <2>1, CutKeepsLines
<1>5. m = Head(queue)
  BY DEF m
\* What is handed over.
<1>6. /\ HandsOn
      /\ \/ UNCHANGED <<out, frontier, payload, done>>
         \/ /\ m.run = Mine /\ m.kind # "complete" /\ pc' = "recv" /\ finishing' = finishing
            /\ frontier' = m.seq /\ payload' = m.ver /\ frontier' # 0
      /\ m.run = Mine /\ m.kind # "complete" /\ IsNext(m) => frontier' # 0 \/ pc' = "tail"
  <2>1. CASE /\ UNCHANGED <<out, frontier, payload, done>>
             /\ m.run = Mine /\ m.kind # "complete" /\ IsNext(m) => pc' = "tail"
    BY <1>1, <2>1, HandsNothing
  <2>2. CASE /\ m.run = Mine /\ m.kind # "complete" /\ (IsNext(m) \/ IsOverwrite(m))
             /\ DeliverLine(m) /\ UNCHANGED <<pc, finishing>>
    <3> DEFINE rows == [s \in {m.seq} |-> m]
    <3>1. Faithful({m.seq}, rows) /\ m.seq \in Seqs
      BY <1>1, <1>5, <2>2, LineIsFaithful
    <3>2. Deliver(rows)
      BY <2>2 DEF DeliverLine
    <3>3. rows[m.seq] = m
      OBVIOUS
    <3> HIDE DEF rows
    <3>4. HandsOn /\ frontier' # 0 /\ Delivered({m.seq}, rows)
      BY <1>1, <2>2, <3>1, <3>2, HandsRows
    <3>5. frontier' = m.seq /\ payload' = m.ver
      BY <3>3, <3>4 DEF Delivered
    <3> QED BY <1>1, <2>2, <3>4, <3>5
  <2> QED BY <1>2, <2>1, <2>2
<1>7. TypeOK'
  <2>1. pc' \in {"recv", "tail", "pages"} \cup Ended /\ finishing' \in BOOLEAN
    BY <1>1, <1>2 DEF TypeOK
  <2>2. threadKnown' \in BOOLEAN
    BY <1>1 DEF TypeOK
  <2> QED BY <1>1, <1>4, <1>6, <2>1, <2>2 DEF TypeOK, HandsOn
<1>8. FirstComesFirst'
  <2> SUFFICES ASSUME Fresh' PROVE FirstComesFirst'
    BY DEF FirstComesFirst
  <2>1. Fresh /\ pc' = "recv" /\ frontier' = 0 /\ frontier = 0
    BY <1>1, <1>6 DEF Fresh, HandsOn, TypeOK
  <2>2. m.run # Mine
    <3>1. m.run = Mine => m.kind # "complete"
      BY <1>1, <1>5, <2>1, FirstLine
    <3>2. IsNext(m)
      BY <2>1 DEF IsNext, Fresh
    <3> QED BY <1>2, <1>6, <2>1, <3>1, <3>2
  <2>3. Own' = Own
    BY <1>1 DEF Own
  <2>4. FirstComesFirst
    OBVIOUS
  <2>5. ASSUME NEW i \in DOMAIN queue, queue[i].run = Mine
        PROVE  i - 1 \in DOMAIN queue' /\ queue'[i - 1] = queue[i]
    <3>1. i # 1 /\ i - 1 \in DOMAIN Tail(queue) /\ (i - 1) + 1 = i
      BY <1>3, <2>2, <2>5
    <3> QED BY <1>1, <1>3, <3>1
  <2>6. \A s : Queued(s) => Queued(s)'
    BY <2>5 DEF Queued, IsLine
  <2>7. \A s : ToSend(s) => ToSend(s)'
    BY <1>1 DEF ToSend, IsLine
  <2>8. ASSUME NEW i \in DOMAIN queue', NEW s \in Own, queue'[i].run = Mine, s < queue'[i].seq
        PROVE  \E k \in DOMAIN queue' : k < i /\ IsLine(queue'[k], s)
    <3>1. i \in Int /\ i + 1 \in DOMAIN queue /\ queue'[i] = queue[i + 1]
      BY <1>1, <1>3
    <3>2. PICK k \in DOMAIN queue : k < i + 1 /\ IsLine(queue[k], s)
      BY <2>1, <2>4, <2>8, <3>1 DEF FirstComesFirst
    <3>3. k - 1 \in DOMAIN queue' /\ queue'[k - 1] = queue[k] /\ k - 1 < i
      BY <1>3, <2>5, <3>1, <3>2 DEF IsLine
    <3> QED BY <3>2, <3>3
  <2>9. \A i \in DOMAIN unsent[Mine], s \in Own : s < unsent[Mine][i].seq =>
           Queued(s) \/ \E k \in DOMAIN unsent[Mine] : k < i /\ IsLine(unsent[Mine][k], s)
    BY <2>1, <2>4 DEF FirstComesFirst
  <2>10. /\ phase[Mine] \notin Over => \A s \in Own : Queued(s) \/ ToSend(s)
         /\ phase[Mine] \in Over => \E s \in Own : Queued(s)
    BY <2>1, <2>4 DEF FirstComesFirst
  <2> QED BY <1>1, <2>3, <2>6, <2>7, <2>8, <2>9, <2>10 DEF FirstComesFirst, IsLine
<1>9. LoopSound'
  <2>1. ~finishing /\ ~ownDone
    BY <1>1 DEF LoopSound, TypeOK
  <2>2. (pc' = "recv" \/ pc' = "tail") /\ (pc' = "recv" => ~finishing')
    BY <1>1, <1>2, <2>1
  <2>3. finishing' => phase[Mine] \in Over
    <3>1. finishing' => m.run = Mine /\ m.kind = "complete"
      BY <1>2, <2>1
    <3> QED BY <1>3, <3>1 DEF Fits, RowsSound
  <2>4. ~(pc' = "tail" /\ frontier' = 0 /\ ~lagged)
    <3> SUFFICES ASSUME pc' = "tail", frontier' = 0, ~lagged PROVE FALSE
      OBVIOUS
    <3>1. frontier = 0 /\ Fresh
      BY <1>1, <1>6 DEF Fresh
    <3>2. m.run = Mine => m.kind # "complete"
      BY <1>1, <1>5, <3>1, FirstLine
    <3>3. ~IsGap(m)
      BY <3>1 DEF IsGap
    <3> QED BY <1>1, <1>2, <3>2, <3>3
  <2> QED BY <1>1, <2>1, <2>2, <2>3, <2>4 DEF LoopSound
<1>10. NoOldLine'
  <2> SUFFICES ASSUME failedReads = 0, pc' = "recv", frontier' # 0, payload' = 2
               PROVE  /\ \A i \in DOMAIN queue' : IsLine(queue'[i], frontier') => queue'[i].ver = 2
                      /\ \A i \in DOMAIN unsent[Mine] :
                            IsLine(unsent[Mine][i], frontier') => unsent[Mine][i].ver = 2
    BY <1>1 DEF NoOldLine, IsLine
  <2>1. \A i \in DOMAIN queue' : i + 1 \in DOMAIN queue /\ 1 < i + 1 /\ queue'[i] = queue[i + 1]
    BY <1>1, <1>3
  <2>2. CASE UNCHANGED <<out, frontier, payload, done>>
    BY <1>1, <2>1, <2>2 DEF NoOldLine
  <2>3. CASE m.run = Mine /\ frontier' = m.seq /\ payload' = m.ver
    <3>1. VersionsInOrder /\ m = queue[1] /\ 1 \in DOMAIN queue /\ IsLine(m, frontier') /\ m.ver = 2
      BY <1>3, <2>3 DEF IsLine
    <3>2. ASSUME NEW i \in DOMAIN queue', IsLine(queue'[i], frontier') PROVE queue'[i].ver = 2
      <4>1. queue'[i].ver \in {1, 2}
        BY <2>1, TypeFacts DEF Messages
      <4>2. InOrder(m, queue'[i])
        BY <2>1, <3>1 DEF VersionsInOrder
      <4> QED BY <3>1, <3>2, <4>1, <4>2 DEF InOrder, IsLine
    <3>3. ASSUME NEW i \in DOMAIN unsent[Mine], IsLine(unsent[Mine][i], frontier') PROVE unsent[Mine][i].ver = 2
      <4>1. unsent[Mine][i].ver \in {1, 2}
        BY TypeFacts DEF Messages
      <4>2. InOrder(m, unsent[Mine][i])
        BY <3>1 DEF VersionsInOrder
      <4> QED BY <3>1, <3>3, <4>1, <4>2 DEF InOrder, IsLine
    <3> QED BY <3>2, <3>3
  <2> QED BY <1>6, <2>2, <2>3
<1>11. CompleteAtEnd'
  <2>1. pc' # "ended"
    BY <1>1, <1>2
  <2> QED BY <2>1 DEF CompleteAtEnd
<1> QED BY <1>1, <1>4, <1>6, <1>7, <1>8, <1>9, <1>10, <1>11 DEF HandsOn

LEMMA LagsInv ==
  ASSUME Inv, Lags
  PROVE  Inv' /\ transcript' = transcript /\ frontier <= frontier'
<1> USE DEF Inv, LineInvariant, HandedInvariant, LoopInvariant
<1>1. /\ pc = "recv" /\ missed' = FALSE /\ lagged' = (lagged \/ frontier = 0) /\ pc' = "tail"
      /\ UNCHANGED <<transcript, phase, unsent, mute, queue, open, threadKnown, frontier, payload, done,
                     finishing, out, ownDone, readFailed, failedReads>>
  BY DEF Lags, NoteLag, writer, given, reads
<1>2. HandsOn
  BY <1>1, HandsNothing
<1>3. RowsSound' /\ LinesSound' /\ VersionsInOrder'
  <2>1. QueueCut
    BY <1>1 DEF QueueCut
  <2> QED BY <1>1, <2>1, CutKeepsLines
<1>4. TypeOK'
  BY <1>1 DEF TypeOK
<1>5. FirstComesFirst' /\ NoOldLine' /\ CompleteAtEnd'
  BY <1>1 DEF FirstComesFirst, Fresh, NoOldLine, CompleteAtEnd
<1>6. LoopSound'
  BY <1>1 DEF LoopSound
<1> QED BY <1>1, <1>2, <1>3, <1>4, <1>5, <1>6 DEF HandsOn

LEMMA SeesClosedInv ==
  ASSUME Inv, SeesClosed
  PROVE  Inv' /\ transcript' = transcript /\ frontier <= frontier'
<1> USE DEF Inv, LineInvariant, HandedInvariant, LoopInvariant
<1>1. /\ pc = "recv" /\ ~missed /\ queue = <<>> /\ ~open /\ pc' = "tail" /\ finishing' = TRUE
      /\ UNCHANGED <<transcript, phase, unsent, mute, queue, missed, open, threadKnown, frontier, payload, lagged,
                     done, out, ownDone, readFailed, failedReads>>
  BY DEF SeesClosed, writer, bus, state, given, reads
<1>2. HandsOn
  BY <1>1, HandsNothing
<1>3. RowsSound' /\ LinesSound' /\ VersionsInOrder'
  <2>1. QueueCut
    BY <1>1 DEF QueueCut
  <2> QED BY <1>1, <2>1, CutKeepsLines
<1>4. TypeOK'
  BY <1>1 DEF TypeOK
<1>5. FirstComesFirst' /\ NoOldLine' /\ CompleteAtEnd'
  BY <1>1 DEF FirstComesFirst, Fresh, NoOldLine, CompleteAtEnd
<1>6. LoopSound'
  \* Whoever has read everything, with nothing dropped, has read a row of the run.
  <2>1. frontier = 0 /\ ~lagged => Own = {}
    <3> SUFFICES ASSUME frontier = 0, ~lagged PROVE Own = {}
      OBVIOUS
    <3>1. Fresh
      BY <1>1 DEF Fresh
    <3>2. ~ \E s \in Own : Queued(s)
      BY <1>1 DEF Queued
    <3>3. phase[Mine] # "open" /\ phase[Mine] \in {"none", "open", "saved", "closed"}
      BY <1>1, TypeFacts DEF RowsSound, TypeOK
    <3>4. phase[Mine] = "none"
      BY <3>1, <3>2, <3>3 DEF FirstComesFirst, Over
    <3> QED BY <3>4 DEF RowsSound
  <2>2. Own' = Own
    BY <1>1 DEF Own
  <2> QED BY <1>1, <2>1, <2>2 DEF LoopSound
<1> QED BY <1>1, <1>2, <1>3, <1>4, <1>5, <1>6 DEF HandsOn

-----------------------------------------------------------------------------
(* A backfill keeps the invariant.                                         *)

\* Back in the loop, or at its end, a task that could read has caught up with the
\* rows of the run.
CaughtUp == threadKnown /\ (~readFailed' \/ failedReads' = 0) => \A s \in Own : s <= frontier'

LEMMA BackToLoopInv ==
  ASSUME Inv, pc \in {"tail", "pages"}, HandsOn, BackToLoop, CaughtUp,
         UNCHANGED <<transcript, phase, unsent, mute, open, threadKnown, lagged, finishing>>,
         readFailed' \in BOOLEAN, failedReads' \in Nat
  PROVE  Inv'
<1> USE DEF Inv, LineInvariant, HandedInvariant, LoopInvariant
<1>1. /\ ownDone' = (finishing /\ ~done')
      /\ pc' = IF finishing THEN "ended" ELSE "recv"
      /\ queue' = IF finishing THEN <<>> ELSE queue
      /\ missed' = (missed /\ ~finishing)
  BY DEF BackToLoop, OwnDone
<1>2. /\ queue' \in Seq(Messages) /\ Len(queue') <= BusCapacity
      /\ RowsSound' /\ LinesSound' /\ VersionsInOrder'
  <2>1. QueueCut
    BY <1>1 DEF QueueCut
  <2> QED BY <2>1, CutKeepsLines
<1>3. TypeOK'
  <2>1. pc' \in {"recv", "tail", "pages"} \cup Ended /\ ownDone' \in BOOLEAN /\ missed' \in BOOLEAN
    BY <1>1 DEF TypeOK, Ended
  <2> QED BY <1>2, <2>1 DEF TypeOK, HandsOn
<1>4. HandedInvariant' /\ frontier <= frontier' /\ frontier \in Nat /\ frontier' \in Nat
  BY DEF HandsOn, TypeOK
<1>5. Own' = Own
  BY DEF Own
<1>6. FirstComesFirst'
  <2>1. ~Fresh'
    <3> SUFFICES ASSUME pc' = "recv", frontier' = 0, ~lagged PROVE FALSE
      BY DEF Fresh
    <3>1. frontier = 0 /\ ~finishing
      BY <1>1, <1>4
    <3> QED BY <3>1 DEF LoopSound
  <2> QED BY <2>1 DEF FirstComesFirst
<1>7. LoopSound'
  <2>1. (pc' = "ended" <=> finishing) /\ (pc' = "recv" <=> ~finishing) /\ pc' # "tail" /\ pc' # "pages"
    BY <1>1
  <2>2. finishing => phase[Mine] \in Over \/ ~open
    BY DEF LoopSound
  <2> QED BY <1>1, <2>1, <2>2 DEF LoopSound
\* A row in its final form is never the last one.
<1>8. NoOldLine'
  <2> SUFFICES ASSUME failedReads' = 0, pc' = "recv", frontier' # 0, payload' = 2 PROVE frontier' \notin Own
    <3>1. \A i \in DOMAIN queue' : IsLine(queue'[i], frontier') => frontier' \in Own
      BY <1>2, <1>5 DEF LinesSound, Fits, IsLine
    <3>2. \A i \in DOMAIN unsent'[Mine] : IsLine(unsent'[Mine][i], frontier') => frontier' \in Own
      BY <1>2, <1>5, TypeFacts DEF LinesSound, Fits, IsLine
    <3> QED BY <3>1, <3>2 DEF NoOldLine
  <2>1. threadKnown /\ frontier' \in Handed' /\ payload' = out'[frontier'][Len(out'[frontier'])]
    BY <1>4 DEF HandedSound
  <2>2. frontier' \in DOMAIN transcript /\ 2 <= transcript[frontier'].ver
    BY <1>4, <2>1 DEF VersionsAdvance
  <2>3. transcript[frontier'].ver = 2
    BY <2>2, TypeFacts
  <2>4. \A s \in Own : s <= frontier'
    BY <2>1 DEF CaughtUp
  <2>5. \A s \in Own : s \in Nat
    BY TypeFacts DEF Own, OldRows
  <2> QED BY <1>4, <2>2, <2>3, <2>4, <2>5 DEF RowsSound, Own
<1>9. CompleteAtEnd'
  <2> SUFFICES ASSUME threadKnown, ~readFailed', NEW s \in Own PROVE s \in Handed'
    BY <1>5 DEF CompleteAtEnd
  <2>1. s <= frontier'
    BY DEF CaughtUp
  <2> QED BY <1>4, <1>5, <2>1 DEF NoHole
<1> QED BY <1>2, <1>3, <1>4, <1>6, <1>7, <1>8, <1>9

\* The task goes on to read the run's rows in pages.
LEMMA ToPagesInv ==
  ASSUME Inv, pc \in {"tail", "pages"}, pc' = "pages", HandsOn, threadKnown, frontier' = 0 => lagged,
         UNCHANGED <<transcript, phase, unsent, mute, queue, missed, open, threadKnown, lagged, finishing, ownDone>>,
         readFailed' \in BOOLEAN, failedReads' \in Nat
  PROVE  Inv'
<1> USE DEF Inv, LineInvariant, HandedInvariant, LoopInvariant
<1>1. /\ queue' \in Seq(Messages) /\ Len(queue') <= BusCapacity
      /\ RowsSound' /\ LinesSound' /\ VersionsInOrder'
  <2>1. QueueCut
    BY DEF QueueCut
  <2> QED BY <2>1, CutKeepsLines
<1>2. TypeOK'
  BY <1>1 DEF TypeOK, HandsOn
<1>3. HandedInvariant'
  BY DEF HandsOn
<1>4. FirstComesFirst' /\ NoOldLine' /\ CompleteAtEnd'
  BY DEF FirstComesFirst, Fresh, NoOldLine, CompleteAtEnd
<1>5. LoopSound'
  BY DEF LoopSound
<1> QED BY <1>1, <1>2, <1>3, <1>4, <1>5

\* A read that succeeds returns everything it was asked for.
LEMMA ReadFacts ==
  ASSUME TypeOK, NEW result, NEW ok, Reads(result, ok)
  PROVE  /\ readFailed' \in BOOLEAN /\ failedReads' \in Nat /\ (failedReads' = 0 => failedReads = 0)
         /\ (~readFailed' \/ failedReads' = 0) => ok = result
         /\ ok = {} \/ ok = result
<1>1. failedReads \in Nat
  BY DEF TypeOK
<1>2. CASE ok = result /\ readFailed' = FALSE /\ failedReads' = failedReads
  BY <1>1, <1>2
<1>3. CASE ok = {} /\ readFailed' = TRUE /\ failedReads' = failedReads + 1
  <2>1. failedReads' \in Nat /\ failedReads' # 0
    BY <1>1, <1>3
  <2> QED BY <1>3, <2>1
<1> QED BY <1>2, <1>3 DEF Reads

LEMMA BackfillInv ==
  ASSUME Inv, Backfill
  PROVE  Inv' /\ transcript' = transcript /\ frontier <= frontier'
<1> USE DEF Inv, LoopInvariant
<1>1. /\ pc = "tail"
      /\ UNCHANGED <<transcript, phase, unsent, mute, open, threadKnown, lagged, finishing>>
      /\ TypeOK /\ LoopSound /\ frontier \in Nat
  BY DEF Backfill, writer, TypeOK
<1>2. CASE /\ ~threadKnown
           /\ UNCHANGED <<out, frontier, payload, done, reads>>
           /\ BackToLoop
  <2>1. HandsOn
    BY <1>1, <1>2, HandsNothing DEF reads
  <2>2. CaughtUp
    BY <1>2 DEF CaughtUp
  <2>3. Inv'
    BY <1>1, <1>2, <2>1, <2>2, BackToLoopInv DEF reads, TypeOK
  <2> QED BY <1>1, <2>1, <2>3 DEF HandsOn
<1>3. CASE /\ threadKnown
           /\ \E tail \in SUBSET TailRows :
                 /\ Reads(TailRows, tail)
                 /\ IF NeedsRunPages(tail)
                      THEN /\ pc' = "pages"
                           /\ UNCHANGED <<queue, missed, given, frontier, payload, done>>
                      ELSE /\ DeliverRecords({s \in tail : Accepts(transcript[s])})
                           /\ BackToLoop
  <2>1. PICK tail \in SUBSET TailRows :
           /\ Reads(TailRows, tail)
           /\ IF NeedsRunPages(tail)
                THEN /\ pc' = "pages"
                     /\ UNCHANGED <<queue, missed, given, frontier, payload, done>>
                ELSE /\ DeliverRecords({s \in tail : Accepts(transcript[s])})
                     /\ BackToLoop
    BY <1>3
  <2>2. /\ readFailed' \in BOOLEAN /\ failedReads' \in Nat /\ (failedReads' = 0 => failedReads = 0)
        /\ (~readFailed' \/ failedReads' = 0) => tail = TailRows
        /\ tail = {} \/ tail = TailRows
    <3>1. Reads(TailRows, tail)
      BY <2>1
    <3> QED BY <1>1, <3>1, ReadFacts
  <2>3. CASE NeedsRunPages(tail)
    <3>1. pc' = "pages" /\ UNCHANGED <<queue, missed, out, ownDone, frontier, payload, done>>
      BY <2>1, <2>3 DEF given
    <3>2. HandsOn
      BY <1>1, <2>2, <3>1, HandsNothing
    <3>3. frontier' = 0 => lagged
      BY <2>3, <3>1 DEF NeedsRunPages
    <3>4. Inv'
      BY <1>1, <1>3, <2>2, <3>1, <3>2, <3>3, ToPagesInv
    <3> QED BY <1>1, <3>2, <3>4 DEF HandsOn
  <2>4. CASE ~NeedsRunPages(tail)
    <3> DEFINE seqs == {s \in tail : Accepts(transcript[s])}
    <3>1. DeliverRecords(seqs) /\ BackToLoop
      BY <2>1, <2>4
    <3>2. \A s \in Own : s \in OldRows /\ s \in Nat /\ Accepts(transcript[s])
      BY <1>1, TypeFacts DEF Own, OldRows, Accepts
    \* A tail that is not empty starts right behind the frontier.
    <3>3. ASSUME tail # {} \/ tail = TailRows, NEW s \in Own, frontier < s PROVE s \in seqs
      <4>1. frontier # 0
        BY <1>1, <2>4, <3>3 DEF LoopSound, NeedsRunPages
      <4>2. s \in After(frontier) /\ s <= Len(transcript) /\ Len(transcript) \in Nat /\ DOMAIN transcript = OldRows
        BY <1>1, <3>2, <3>3, TypeFacts DEF After, OldRows
      <4>3. tail = TailRows
        BY <2>2, <3>3
      <4>4. Len(transcript) \in TailRows
        <5>1. Len(transcript) \in OldRows /\ Len(transcript) > frontier
          BY <1>1, <3>2, <3>3, <4>2 DEF OldRows
        <5> QED BY <4>2, <5>1 DEF TailRows, After
      <4>5. frontier + 1 \in TailRows
        BY <2>4, <4>1, <4>3, <4>4 DEF NeedsRunPages
      <4>6. s \in TailRows
        BY <1>1, <3>2, <3>3, <4>2, <4>5 DEF TailRows
      <4> QED BY <3>2, <4>3, <4>6
    <3>4. seqs \subseteq After(frontier) /\ (\A s \in seqs : Accepts(transcript[s])) /\ (tail = {} => seqs = {})
      BY DEF TailRows
    <3> HIDE DEF seqs
    <3>5. HandsOn /\ \A s \in seqs : s <= frontier'
      <4>1. \A s \in Own, t \in seqs : frontier < s /\ s <= t => s \in seqs
        BY <3>3, <3>4
      <4> QED BY <1>1, <1>3, <2>2, <3>1, <3>4, <4>1, HandsRecords
    <3>6. CaughtUp
      <4> SUFFICES ASSUME ~readFailed' \/ failedReads' = 0, NEW s \in Own PROVE s <= frontier'
        BY DEF CaughtUp
      <4>1. frontier < s => s \in seqs
        BY <2>2, <3>3
      <4>2. frontier' \in Nat /\ frontier <= frontier'
        BY <3>5 DEF HandsOn
      <4> QED BY <1>1, <3>2, <3>5, <4>1, <4>2
    <3>7. Inv'
      BY <1>1, <2>2, <3>1, <3>5, <3>6, BackToLoopInv
    <3> QED BY <1>1, <3>5, <3>7 DEF HandsOn
  <2> QED BY <2>3, <2>4
<1> QED BY <1>2, <1>3 DEF Backfill

\* The rows of the run behind the frontier, and the page of the oldest ones.
Ahead == {s \in After(frontier) : transcript[s].run = Mine}

LEMMA PageFacts ==
  ASSUME TypeOK
  PROVE  /\ RunPage \subseteq Ahead
         /\ \A s \in Ahead, t \in RunPage : s <= t => s \in RunPage
         /\ Cardinality(RunPage) < PageCap => RunPage = Ahead
<1> DEFINE Before(s) == {q \in Ahead : q < s}
<1>1. \A s : s \in RunPage <=> s \in Ahead /\ Cardinality(Before(s)) < PageCap
  BY DEF RunPage, Ahead
<1>2. \A s, q : q \in Before(s) <=> q \in Ahead /\ q < s
  OBVIOUS
<1> HIDE DEF Before
<1>3. /\ Ahead \subseteq OldRows /\ Ahead \in SUBSET Nat /\ \A s \in Ahead : s \in Nat
      /\ IsFiniteSet(Ahead)
  <2>1. Len(transcript) \in Nat /\ DOMAIN transcript = OldRows
    BY TypeFacts
  <2>2. IsFiniteSet(OldRows)
    BY <2>1, FS_Interval DEF OldRows
  <2>3. Ahead \subseteq OldRows
    BY <2>1 DEF Ahead, After
  <2>4. IsFiniteSet(Ahead)
    BY <2>2, <2>3, FS_Subset
  <2> QED BY <2>3, <2>4 DEF OldRows
<1>4. ASSUME NEW S \in SUBSET Ahead, NEW T \in SUBSET S
      PROVE  Cardinality(T) <= Cardinality(S) /\ Cardinality(T) \in Nat /\ Cardinality(S) \in Nat
  <2>1. IsFiniteSet(S) /\ IsFiniteSet(T)
    BY <1>3, FS_Subset
  <2> QED BY <2>1, FS_Subset, FS_CardinalityType
<1>5. PageCap \in Nat
  OBVIOUS
<1>6. ASSUME NEW s \in Ahead, NEW t \in RunPage, s <= t PROVE s \in RunPage
  <2>1. t \in Ahead /\ Cardinality(Before(t)) < PageCap
    BY <1>1
  <2>2. Before(t) \in SUBSET Ahead /\ Before(s) \in SUBSET Before(t)
    <3>1. \A q : q \in Before(t) => q \in Ahead
      BY <1>2
    <3>2. ASSUME NEW q \in Before(s) PROVE q \in Before(t)
      <4>1. q \in Ahead /\ q < s
        BY <1>2
      <4>2. q \in Nat /\ s \in Nat /\ t \in Nat
        BY <1>3, <2>1, <4>1
      <4>3. q < t
        BY <1>6, <4>1, <4>2
      <4> QED BY <1>2, <4>1, <4>3
    <3> QED BY <3>1, <3>2
  <2>3. Cardinality(Before(s)) < PageCap
    BY <1>4, <1>5, <2>1, <2>2
  <2> QED BY <1>1, <2>3
<1>7. ASSUME Cardinality(RunPage) < PageCap PROVE RunPage = Ahead
  <2> DEFINE Rest == Ahead \ RunPage
  <2>1. SUFFICES ASSUME Rest # {} PROVE FALSE
    BY <1>1
  <2>2. PICK s \in Rest : \A q \in Rest : s <= q
    <3>1. Rest \in SUBSET Nat
      BY <1>3
    <3> HIDE DEF Rest
    <3> QED BY <2>1, <3>1, MinExists
  <2>3. Before(s) \in SUBSET RunPage
    <3>1. ASSUME NEW q \in Before(s) PROVE q \in RunPage
      <4>1. q \in Ahead /\ q < s /\ q \in Nat /\ s \in Nat
        BY <1>3, <1>2, <2>2
      <4>2. q \notin Rest
        BY <2>2, <4>1
      <4> QED BY <4>1, <4>2
    <3> QED BY <3>1
  <2>4. RunPage \in SUBSET Ahead
    BY <1>1
  <2>5. Cardinality(Before(s)) < PageCap
    BY <1>4, <1>5, <1>7, <2>3, <2>4
  <2> QED BY <1>1, <2>2, <2>5
<1>8. RunPage \subseteq Ahead
  BY <1>1
<1> QED BY <1>6, <1>7, <1>8

LEMMA BackfillPageInv ==
  ASSUME Inv, BackfillPage
  PROVE  Inv' /\ transcript' = transcript /\ frontier <= frontier'
<1> USE DEF Inv, LoopInvariant
<1>1. /\ pc = "pages" /\ threadKnown /\ (frontier = 0 => lagged)
      /\ UNCHANGED <<transcript, phase, unsent, mute, open, threadKnown, lagged, finishing>>
      /\ TypeOK /\ LoopSound /\ frontier \in Nat
  BY DEF BackfillPage, writer, TypeOK, LoopSound
<1>2. PICK page \in SUBSET RunPage :
         /\ Reads(RunPage, page)
         /\ DeliverRecords(page)
         /\ IF IsLastPage(page) THEN BackToLoop ELSE UNCHANGED <<pc, queue, missed, ownDone>>
  BY DEF BackfillPage
<1>3. /\ readFailed' \in BOOLEAN /\ failedReads' \in Nat /\ (failedReads' = 0 => failedReads = 0)
      /\ (~readFailed' \/ failedReads' = 0) => page = RunPage
      /\ page = {} \/ page = RunPage
  <2>1. Reads(RunPage, page)
    BY <1>2
  <2> QED BY <1>1, <2>1, ReadFacts
<1>4. \A s \in Own : s \in Nat /\ (frontier < s => s \in Ahead)
  <2>1. \A s \in OldRows : s \in Nat /\ (frontier < s => s > frontier)
    BY <1>1 DEF OldRows
  <2> QED BY <1>1, <2>1, TypeFacts DEF Own, Ahead, After
<1>5. page \subseteq After(frontier) /\ \A s \in page : Accepts(transcript[s])
  BY <1>1, PageFacts DEF Ahead, Accepts
<1>6. HandsOn /\ \A s \in page : s <= frontier'
  <2>1. \A s \in Own, t \in page : frontier < s /\ s <= t => s \in page
    BY <1>1, <1>3, <1>4, PageFacts
  <2> QED BY <1>1, <1>2, <1>3, <1>5, <2>1, HandsRecords
<1>7. frontier <= frontier' /\ frontier' \in Nat
  BY <1>6 DEF HandsOn
<1>8. CASE IsLastPage(page)
  <2>1. CaughtUp
    <3> SUFFICES ASSUME ~readFailed' \/ failedReads' = 0, NEW s \in Own PROVE s <= frontier'
      BY DEF CaughtUp
    <3>1. page = Ahead
      BY <1>1, <1>3, <1>8, PageFacts DEF IsLastPage
    <3> QED BY <1>1, <1>4, <1>6, <1>7, <3>1
  <2>2. Inv'
    BY <1>1, <1>2, <1>3, <1>6, <1>8, <2>1, BackToLoopInv
  <2> QED BY <1>1, <1>7, <2>2
<1>9. CASE ~IsLastPage(page)
  <2>1. UNCHANGED <<pc, queue, missed, ownDone>>
    BY <1>2, <1>9
  <2>2. frontier' = 0 => lagged
    BY <1>1, <1>7
  <2>3. Inv'
    BY <1>1, <1>3, <1>6, <2>1, <2>2, ToPagesInv
  <2> QED BY <1>1, <1>7, <2>3
<1> QED BY <1>8, <1>9

-----------------------------------------------------------------------------
(* Every step keeps the invariant.                                         *)

\* A run writes, or the rows stay and the frontier does not move back.
Moves == (\E r \in Runs : Writes(r)) \/ (transcript' = transcript /\ frontier <= frontier')

LEMMA StepInv ==
  ASSUME Inv, [Next]_vars
  PROVE  Inv' /\ Moves
<1>0. frontier \in Nat
  BY DEF Inv, TypeOK
<1>1. ASSUME NEW r \in Runs, RunStarts(r) \/ Flush(r) \/ RunEnds(r) PROVE Inv' /\ Moves
  <2>1. Writes(r)
    BY <1>1, StartWrites, FlushWrites, EndWrites
  <2> QED BY <2>1, WriteInv DEF Moves
<1>a. ASSUME NEW r \in Runs, RunAborted(r) \/ Killed(r) PROVE Inv' /\ Moves
  <2>1. CASE RunAborted(r) /\ ~ UNCHANGED <<transcript, unsent>>
    BY <2>1, AbortedWrites, WriteInv DEF Moves
  <2>2. CASE (RunAborted(r) /\ UNCHANGED <<transcript, unsent>>) \/ Killed(r)
    <3>1. EndsQuietly(r)
      BY <2>2, AbortedQuietly, KilledQuietly
    <3>2. transcript' = transcript /\ frontier' = frontier
      BY <3>1 DEF EndsQuietly, state
    <3> QED BY <1>0, <3>1, <3>2, EndsQuietlyInv DEF Moves
  <2> QED BY <1>a, <2>1, <2>2
<1>2. ASSUME NEW r \in Runs, Emit(r) PROVE Inv' /\ Moves
  <2>1. transcript' = transcript /\ frontier' = frontier
    BY <1>2 DEF Emit, state
  <2> QED BY <1>0, <1>2, <2>1, EmitInv DEF Moves
<1>3. CASE OtherTraffic
  <2>1. transcript' = transcript /\ frontier' = frontier
    BY <1>3 DEF OtherTraffic, writer, state
  <2> QED BY <1>0, <1>3, <2>1, OtherTrafficInv DEF Moves
<1>4. CASE BusCloses
  <2>1. transcript' = transcript /\ frontier' = frontier
    BY <1>4 DEF BusCloses, writer, state
  <2> QED BY <1>0, <1>4, <2>1, BusClosesInv DEF Moves
<1>5. CASE ReplayStep
  BY <1>5, ReadLineInv, LagsInv, SeesClosedInv, BackfillInv, BackfillPageInv DEF ReplayStep, Moves
<1>6. CASE Abort
  <2>1. transcript' = transcript /\ frontier' = frontier
    BY <1>6 DEF Abort, writer, state
  <2> QED BY <1>0, <1>6, <2>1, AbortInv DEF Moves
<1>7. CASE UNCHANGED vars
  <2>1. transcript' = transcript /\ frontier' = frontier
    BY <1>7 DEF vars, writer, state
  <2> QED BY <1>0, <1>7, <2>1, StutterInv DEF Moves
<1> QED BY <1>1, <1>a, <1>2, <1>3, <1>4, <1>5, <1>6, <1>7 DEF Next, WriterStep

LEMMA Invariance == Spec => []Inv
<1>1. Inv /\ [Next]_vars => Inv'
  BY StepInv
<1> QED BY <1>1, InitInv, PTL DEF Spec

-----------------------------------------------------------------------------
(* Theorems                                                                *)

\* Whatever is dropped, lagged, paged or not read: every row of the run up to the
\* frontier was handed over, and no text of another run.
THEOREM ReplayHolds == Spec => []ReplayInvariant
<1>1. Inv => ReplayInvariant
  BY DEF Inv, HandedInvariant, ReplayInvariant
<1> QED BY <1>1, Invariance, PTL

\* As long as no read fails, a row is handed over again only in a newer version,
\* and never in one that the transcript has not.
THEOREM VersionsHold == Spec => []VersionsAdvance
<1>1. Inv => VersionsAdvance
  BY DEF Inv, HandedInvariant
<1> QED BY <1>1, Invariance, PTL

\* A task that has ended, and whose last read did not fail, has handed over every
\* row of its run.
THEOREM CompleteHolds == Spec => []CompleteAtEnd
<1>1. Inv => CompleteAtEnd
  BY DEF Inv, LoopInvariant
<1> QED BY <1>1, Invariance, PTL

\* A task that has ended has let its consumer flush: by a Done of the run that it
\* handed over, or else by one of its own.
THEOREM FlushedHolds == Spec => []FlushedOnce
<1>1. Inv => FlushedOnce
  BY DEF Inv, HandedInvariant, LoopInvariant, HandedSound, LoopSound, FlushedOnce
<1> QED BY <1>1, Invariance, PTL

LEMMA StreamInit == Init => Stream!Init
<1> SUFFICES ASSUME Init PROVE Own = {} /\ Own \cap Handed = {}
  BY DEF Stream!Init
<1> QED BY DEF Init, Own

\* What the consumer of the run was given are its rows up to the frontier.
LEMMA StreamStep == Inv /\ Inv' /\ [Next]_vars => [Stream!Next]_(Stream!vars)
<1> SUFFICES ASSUME Inv, Inv', [Next]_vars PROVE [Stream!Next]_(Stream!vars)
  OBVIOUS
<1> DEFINE Given == Own \cap Handed
<1>1. Given = {s \in Own : s <= frontier} /\ Given' = {s \in Own' : s <= frontier'}
  BY DEF Inv, HandedInvariant, NoHole, HandedSound
<1>2. frontier \in Nat /\ frontier' \in 0 .. MaxRows /\ Own \subseteq Seqs /\ Own' \subseteq Seqs
  <2>1. Own \subseteq OldRows /\ OldRows \subseteq Seqs
    BY TypeFacts DEF Inv, Own
  <2>2. Own' \subseteq Seqs
    <3>1. Len(transcript') <= MaxRows /\ Len(transcript') \in Nat /\ DOMAIN transcript' = 1 .. Len(transcript')
      BY LenProperties DEF Inv, TypeOK
    <3> QED BY <3>1 DEF Own, Seqs
  <2> QED BY <2>1, <2>2 DEF Inv, TypeOK
<1>3. ASSUME NEW r \in Runs, Writes(r) PROVE Stream!Write
  <2> DEFINE new == Own' \ Own
  <2>1. Own \subseteq Own' /\ new \subseteq NewRows /\ Own \subseteq OldRows
    BY <1>3, OwnGrows
  <2>2. \A n \in new, s \in Own : s < n
    BY <2>1, OwnGrows DEF OldRows, NewRows
  <2>3. Given' = Given
    <3>1. frontier' = frontier /\ frontier <= Len(transcript) /\ Len(transcript) \in Nat
      BY <1>3, TypeFacts DEF Writes, state, Inv, HandedInvariant, HandedSound
    <3>2. \A n \in new : ~(n <= frontier)
      BY <1>2, <2>1, <3>1 DEF NewRows
    <3>3. \A s \in Own' : s <= frontier => s \in Own
      BY <3>2
    <3> QED BY <1>1, <2>1, <3>1, <3>3
  <2>4. new \in SUBSET (Seqs \ Own) /\ Own' = Own \cup new
    BY <1>2, <2>1
  <2> HIDE DEF new
  <2> QED BY <2>2, <2>3, <2>4 DEF Stream!Write
<1>4. ASSUME transcript' = transcript, frontier <= frontier' PROVE Stream!Deliver \/ UNCHANGED Stream!vars
  <2>1. Own' = Own /\ \A s \in Own : s \in Nat
    BY <1>2, <1>4 DEF Own, Seqs
  <2>2. Given \subseteq Given'
    BY <1>1, <1>2, <1>4, <2>1
  <2>3. CASE frontier' = 0
    <3>1. frontier = 0
      BY <1>2, <1>4, <2>3
    <3> QED BY <1>1, <2>1, <2>3, <3>1 DEF Stream!vars
  <2>4. CASE frontier' # 0
    <3>1. frontier' \in Seqs
      BY <1>2, <2>4 DEF Seqs
    <3> QED BY <1>1, <2>1, <2>2, <3>1 DEF Stream!Deliver
  <2> QED BY <2>3, <2>4
<1>5. Moves
  BY StepInv
<1> QED BY <1>3, <1>4, <1>5 DEF Moves, Stream!Next

\* With every lag, drop, page and failed read, the replay implements the ordered
\* delivery of the run's rows without a hole.
THEOREM ReplayRefinesDelivery == Spec => ImplementsOrderedDelivery
<1>1. Inv /\ Inv' /\ [Next]_vars => [Stream!Next]_(Stream!vars)
  BY StreamStep
<1> QED BY <1>1, Invariance, StreamInit, PTL DEF Spec, ImplementsOrderedDelivery, Stream!Spec
=============================================================================
