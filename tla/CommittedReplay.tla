--------------------------- MODULE CommittedReplay ---------------------------
(***************************************************************************)
(* garyx-channels/src/committed_replay.rs: one task that feeds the rows of *)
(* one run to a channel, with the transcript it backfills from, the        *)
(* persistence workers that write rows and announce them, and the          *)
(* broadcast bus in between, which drops what a slow receiver has not      *)
(* read.  A row is named by its seq, its index in the transcript.          *)
(*                                                                         *)
(* The subscription exists before the run starts.  The runs of a thread    *)
(* write one after the other.                                              *)
(***************************************************************************)
EXTENDS Naturals, Sequences, FiniteSets

CONSTANTS
    Mine,             \* the run that is replayed
    Others,           \* other runs of its thread
    NoRun,            \* what a line of another thread belongs to
    OtherThreads,     \* whether there are lines of other threads
    BusCapacity,      \* capacity of the broadcast channel
    PageCap,          \* THREAD_TRANSCRIPT_REPLAY_CAP
    MaxRows,          \* bound on the transcript
    MaxFailedReads    \* bound on transcript reads that fail

ASSUME RunsAssumption == Mine \notin Others /\ NoRun \notin Others \cup {Mine}
ASSUME CapacityAssumption ==
    /\ BusCapacity \in Nat \ {0} /\ PageCap \in Nat \ {0}
    /\ MaxRows \in Nat /\ MaxFailedReads \in Nat /\ OtherThreads \in BOOLEAN

Runs == {Mine} \cup Others
Seqs == 1..MaxRows

\* What a row means to the replay; "note" stands for controls that map to no
\* event (run_start, range_rewrite).
Controls == {"note", "boundary", "done", "complete"}
Kinds == Controls \cup {"text"}
Rows == [run : Runs, kind : Kinds, ver : {1, 2}]
Messages == [run : Runs \cup {NoRun}, seq : Nat, kind : Kinds, ver : {1, 2}]

VARIABLES
    transcript,     \* durable: the rows of the thread
    phase, unsent,  \* per run: where it is, and rows it has not announced yet
    mute,           \* rows whose announcement was dropped with the run's task
    queue, missed,  \* the receiver's side of the bus: unread lines, and whether it lags
    open,           \* the bus has senders
    threadKnown, frontier, payload, lagged, done,   \* CommittedReplayState
    pc, finishing,  \* where the task is; it ends after this backfill
    out,            \* per row: the versions the consumer was handed
    ownDone,        \* the task handed over a Done of its own
    readFailed, failedReads   \* the last read failed; how many have

writer == <<transcript, phase, unsent, mute>>
bus == <<queue, missed, open>>
reads == <<readFailed, failedReads>>
state == <<threadKnown, frontier, payload, lagged, done>>
given == <<out, ownDone>>
vars == <<writer, bus, state, pc, finishing, given, reads>>

Ended == {"ended", "aborted"}

TypeOK ==
    /\ transcript \in Seq(Rows) /\ Len(transcript) <= MaxRows
    /\ phase \in [Runs -> {"none", "open", "saved", "closed"}]
    /\ unsent \in [Runs -> Seq(Messages)] /\ mute \subseteq Nat
    /\ queue \in Seq(Messages) /\ Len(queue) <= BusCapacity
    /\ missed \in BOOLEAN /\ open \in BOOLEAN
    /\ threadKnown \in BOOLEAN /\ lagged \in BOOLEAN /\ done \in BOOLEAN
    /\ frontier \in 0..MaxRows /\ payload \in 0..2
    /\ pc \in {"recv", "tail", "pages"} \cup Ended
    /\ finishing \in BOOLEAN
    /\ out \in [Seqs -> Seq({1, 2})] /\ ownDone \in BOOLEAN
    /\ readFailed \in BOOLEAN /\ failedReads \in Nat

\* Bound delivery knows its thread, an inbound channel does not.
Init ==
    /\ transcript = <<>>
    /\ phase = [r \in Runs |-> "none"]
    /\ unsent = [r \in Runs |-> <<>>] /\ mute = {}
    /\ queue = <<>> /\ missed = FALSE /\ open = TRUE
    /\ threadKnown \in BOOLEAN
    /\ frontier = 0 /\ payload = 0 /\ lagged = FALSE /\ done = FALSE
    /\ pc = "recv" /\ finishing = FALSE
    /\ out = [s \in Seqs |-> <<>>] /\ ownDone = FALSE
    /\ readFailed = FALSE /\ failedReads = 0

-----------------------------------------------------------------------------
(* The runs: write, then announce. *)

Message(s, row) == [run |-> row.run, seq |-> s, kind |-> row.kind, ver |-> row.ver]
Traffic == [run |-> NoRun, seq |-> 0, kind |-> "text", ver |-> 1]

\* Rows `kinds` of run r are appended and wait to be announced, after those that
\* were announced again (`before`).
AppendRows(r, base, before, kinds) ==
    LET new == [i \in DOMAIN kinds |-> [run |-> r, kind |-> kinds[i], ver |-> 1]]
        at == Len(base)
    IN
    /\ at + Len(kinds) <= MaxRows
    /\ transcript' = base \o new
    /\ unsent' = [unsent EXCEPT ![r] = before \o [i \in DOMAIN kinds |-> Message(at + i, new[i])]]

\* A worker announces a flush before it writes the next.
MayWrite(r) == unsent[r] = <<>>

RunStarts(r) ==
    /\ open /\ phase[r] = "none" /\ \A q \in Runs : phase[q] # "open" /\ MayWrite(q)
    /\ phase' = [phase EXCEPT ![r] = "open"]
    /\ AppendRows(r, transcript, <<>>, <<"note">>)
    /\ UNCHANGED <<mute, bus, state, pc, finishing, given, reads>>

Batches == {<<"text">>, <<"boundary">>, <<"text", "done">>}

Flush(r) ==
    /\ phase[r] = "open" /\ MayWrite(r)
    /\ \E kinds \in Batches : AppendRows(r, transcript, <<>>, kinds)
    /\ UNCHANGED <<phase, mute, bus, state, pc, finishing, given, reads>>

\* save_thread_messages_with_session_update, in the run's own task: the terminal
\* row, and the run's rows whose final form differs from what was streamed, in
\* place, in one write.
RunEnds(r) ==
    LET texts == {s \in DOMAIN transcript : transcript[s].run = r /\ transcript[s].kind = "text"} IN
    /\ phase[r] = "open" /\ MayWrite(r)
    /\ phase' = [phase EXCEPT ![r] = "saved"]
    /\ \/ AppendRows(r, transcript, <<>>, <<"complete">>)
       \/ \E s \in texts :
             LET final == [transcript EXCEPT ![s].ver = 2] IN
             AppendRows(r, final, <<Message(s, final[s])>>, <<"complete", "note">>)
    /\ UNCHANGED <<mute, bus, state, pc, finishing, given, reads>>

\* The run is aborted: its worker writes the terminal row, if it still runs.
RunAborted(r) ==
    /\ phase[r] = "open" /\ MayWrite(r)
    /\ phase' = [phase EXCEPT ![r] = "closed"]
    /\ \/ AppendRows(r, transcript, <<>>, <<"complete">>)
       \/ UNCHANGED <<transcript, unsent>>
    /\ UNCHANGED <<mute, bus, state, pc, finishing, given, reads>>

\* The run's task is aborted in its final save, behind the write: nothing of it
\* is announced.
Killed(r) ==
    /\ phase[r] = "saved"
    /\ phase' = [phase EXCEPT ![r] = "closed"]
    /\ mute' = mute \cup {unsent[r][i].seq : i \in {j \in DOMAIN unsent[r] : unsent[r][j].ver = 1}}
    /\ unsent' = [unsent EXCEPT ![r] = <<>>]
    /\ UNCHANGED <<transcript, bus, state, pc, finishing, given, reads>>

Push_Keeps(m) ==
    /\ queue' = IF pc \in Ended \/ Len(queue) = BusCapacity THEN queue ELSE Append(queue, m)
    /\ UNCHANGED missed

\* A full bus drops the oldest line; the receiver learns that it lags.
Push(m) ==
    LET full == Len(queue) = BusCapacity IN
    IF pc \in Ended THEN UNCHANGED <<queue, missed>>
    ELSE /\ queue' = Append(IF full THEN Tail(queue) ELSE queue, m)
         /\ missed' = (missed \/ full)

\* emit_committed_records, one line after the other without an await in between
Emit(r) ==
    /\ unsent[r] # <<>>
    /\ phase' = [phase EXCEPT ![r] = IF @ = "saved" THEN "closed" ELSE @]
    /\ Push(Head(unsent[r]))
    /\ unsent' = [unsent EXCEPT ![r] = Tail(@)]
    /\ UNCHANGED <<transcript, mute, open, state, pc, finishing, given, reads>>

OtherTraffic ==
    /\ OtherThreads /\ open /\ pc \notin Ended
    /\ Push(Traffic)
    /\ UNCHANGED <<writer, open, state, pc, finishing, given, reads>>

\* Shutdown: the last sender is dropped.
BusCloses ==
    /\ open /\ \A r \in Runs : phase[r] # "open" /\ MayWrite(r)
    /\ open' = FALSE
    /\ UNCHANGED <<writer, queue, missed, state, pc, finishing, given, reads>>

-----------------------------------------------------------------------------
(* The replay task. *)

\* deliver_record, for `rows` (seq |-> row) in the order of their seqs.
Deliver(rows) ==
    LET seqs == DOMAIN rows IN
    /\ out' = [s \in Seqs |-> IF s \in seqs THEN Append(out[s], rows[s].ver) ELSE out[s]]
    /\ frontier' = CHOOSE s \in seqs : \A q \in seqs : q <= s
    /\ payload' = rows[frontier'].ver
    /\ done' = (done \/ \E s \in seqs : rows[s].kind = "done")

DeliverLine(m) == Deliver([s \in {m.seq} |-> m])

DeliverRecords(seqs) ==
    IF seqs = {} THEN UNCHANGED <<out, frontier, payload, done>>
                 ELSE Deliver([s \in seqs |-> transcript[s]])

IsNext_Ahead(m) == IF frontier = 0 THEN ~lagged ELSE m.seq > frontier
\* on_bus_message: the first row without a lag, or the one behind the frontier.
IsNext(m) == IF frontier = 0 THEN ~lagged ELSE m.seq = frontier + 1

IsOverwrite_Any(m) == frontier # 0 /\ m.seq = frontier
IsOverwrite(m) == frontier # 0 /\ m.seq = frontier /\ m.ver # payload

IsGap(m) == IF frontier = 0 THEN lagged ELSE m.seq > frontier + 1

\* on_bus_message
ReadLine ==
    LET m == Head(queue)
        own == m.run = Mine
        terminal == m.kind = "complete"
    IN
    /\ pc = "recv" /\ ~missed /\ queue # <<>>
    /\ queue' = Tail(queue)
    /\ threadKnown' = (threadKnown \/ own)
    /\ \/ /\ own /\ terminal
          /\ pc' = "tail" /\ finishing' = TRUE
          /\ UNCHANGED <<out, frontier, payload, done>>
       \/ /\ own /\ ~terminal /\ (IsNext(m) \/ IsOverwrite(m))
          /\ DeliverLine(m)
          /\ UNCHANGED <<pc, finishing>>
       \/ /\ own /\ ~terminal /\ IsGap(m)
          /\ pc' = "tail"
          /\ UNCHANGED <<finishing, out, frontier, payload, done>>
       \/ /\ ~own \/ (~terminal /\ ~IsNext(m) /\ ~IsOverwrite(m) /\ ~IsGap(m))
          /\ UNCHANGED <<pc, finishing, out, frontier, payload, done>>
    /\ UNCHANGED <<writer, missed, open, lagged, ownDone, reads>>

NoteLag_Forgets == UNCHANGED lagged
\* note_lag
NoteLag == lagged' = (lagged \/ frontier = 0)

\* RecvError::Lagged
Lags ==
    /\ pc = "recv" /\ missed
    /\ missed' = FALSE
    /\ NoteLag
    /\ pc' = "tail"
    /\ UNCHANGED <<writer, queue, open, threadKnown, frontier, payload, done, finishing, given, reads>>

\* RecvError::Closed
SeesClosed ==
    /\ pc = "recv" /\ ~missed /\ queue = <<>> /\ ~open
    /\ pc' = "tail" /\ finishing' = TRUE
    /\ UNCHANGED <<writer, bus, state, given, reads>>

OwnDone_Early == ownDone' = (finishing /\ ~done)

\* synthetic_done, after the rows of the backfill
OwnDone == ownDone' = (finishing /\ ~done')

\* After a backfill: the loop goes on, or the task ends with a Done of its own if
\* the run had none.
BackToLoop ==
    /\ OwnDone
    /\ pc' = IF finishing THEN "ended" ELSE "recv"
    /\ queue' = IF finishing THEN <<>> ELSE queue
    /\ missed' = (missed /\ ~finishing)

\* A read that fails reads nothing.
Reads(result, ok) ==
    \/ ok = result /\ readFailed' = FALSE /\ UNCHANGED failedReads
    \/ /\ ok = {} /\ failedReads < MaxFailedReads
       /\ readFailed' = TRUE /\ failedReads' = failedReads + 1

After(s) == {q \in DOMAIN transcript : q > s}

\* records_after_seq: the newest PageCap rows behind the frontier.
TailRows == {s \in After(frontier) : s > Len(transcript) - PageCap}

NeedsRunPages_LagOnly(tail) == frontier = 0 /\ lagged

\* needs_run_scoped_page
NeedsRunPages(tail) ==
    \/ frontier = 0 /\ lagged
    \/ frontier # 0 /\ tail # {} /\ frontier + 1 \notin tail

\* reconcile_from_records: rows of the run, and controls of any run.
Accepts(row) == row.run = Mine \/ row.kind \in Controls

\* backfill
Backfill ==
    /\ pc = "tail"
    /\ \/ /\ ~threadKnown
          /\ UNCHANGED <<out, frontier, payload, done, reads>>
          /\ BackToLoop
       \/ /\ threadKnown
          /\ \E tail \in SUBSET TailRows :
                /\ Reads(TailRows, tail)
                /\ IF NeedsRunPages(tail)
                     THEN /\ pc' = "pages"
                          /\ UNCHANGED <<queue, missed, given, frontier, payload, done>>
                     ELSE /\ DeliverRecords({s \in tail : Accepts(transcript[s])})
                          /\ BackToLoop
    /\ UNCHANGED <<writer, open, threadKnown, lagged, finishing>>

\* records_for_run_after_seq: the oldest PageCap rows of the run behind the frontier.
RunPage ==
    LET own == {s \in After(frontier) : transcript[s].run = Mine} IN
    {s \in own : Cardinality({q \in own : q < s}) < PageCap}

IsLastPage_First(page) == TRUE
IsLastPage(page) == Cardinality(page) < PageCap

\* backfill_run_pages
BackfillPage ==
    /\ pc = "pages"
    /\ \E page \in SUBSET RunPage :
          /\ Reads(RunPage, page)
          /\ DeliverRecords(page)
          /\ IF IsLastPage(page) THEN BackToLoop ELSE UNCHANGED <<pc, queue, missed, ownDone>>
    /\ UNCHANGED <<writer, open, threadKnown, lagged, finishing>>

\* The subscription is aborted: the dispatch failed, or replied locally.
Abort ==
    /\ pc \notin Ended
    /\ pc' = "aborted" /\ queue' = <<>> /\ missed' = FALSE
    /\ UNCHANGED <<writer, open, state, finishing, given, reads>>

-----------------------------------------------------------------------------
WriterStep(r) ==
    RunStarts(r) \/ Flush(r) \/ RunEnds(r) \/ RunAborted(r) \/ Killed(r) \/ Emit(r)

ReplayStep == ReadLine \/ Lags \/ SeesClosed \/ Backfill \/ BackfillPage

Next ==
    \/ \E r \in Runs : WriterStep(r)
    \/ OtherTraffic \/ BusCloses
    \/ ReplayStep \/ Abort

Spec == Init /\ [][Next]_vars

\* The task is polled.  Between a write and its announcement the worker, which
\* nobody aborts, awaits the record's read and patch, and they return; the run's
\* task does too, unless it is killed there.
FairSpec == Spec /\ WF_vars(ReplayStep) /\ \A r \in Runs : WF_vars(Emit(r))

-----------------------------------------------------------------------------
(* Properties *)

Own == {s \in DOMAIN transcript : transcript[s].run = Mine}
Handed == {s \in Seqs : out[s] # <<>>}

\* "The cursor is a contiguous frontier": every row of the run up to the
\* frontier was handed over, whatever was dropped, lagged, paged or not read.
NoHole == \A s \in Own : s <= frontier => s \in Handed

\* "A same-seq overwrite still flows; an exact duplicate is dropped": a row is
\* handed over again only in a newer version, and never in one that the
\* transcript has not.  (A read that fails between two pages lets an older line
\* of the bus through, before the newer one.)
VersionsAdvance ==
    failedReads = 0 => \A s \in Handed :
        /\ \A i, j \in DOMAIN out[s] : i < j => out[s][i] < out[s][j]
        /\ s \in DOMAIN transcript /\ out[s][Len(out[s])] <= transcript[s].ver

\* The text of another run never reaches the channel of this one.
OwnTextOnly == \A s \in Handed : transcript[s].kind = "text" => transcript[s].run = Mine

\* What the consumer has been given so far is a faithful prefix of its run.
ReplayInvariant == TypeOK /\ NoHole /\ OwnTextOnly

\* "The final whole message stays complete": when the task has ended, unless the
\* last read failed, every row of the run was handed over.
CompleteAtEnd == pc = "ended" /\ threadKnown /\ ~readFailed => Own \subseteq Handed

\* "A synthetic terminal Done for runs that ended without a done control": when
\* the task has ended the consumer has a Done to flush at, one that it was handed
\* or else, and only then, the task's own.
FlushedOnce ==
    pc = "ended" => (ownDone <=> \A s \in Handed : transcript[s].kind # "done")

Stream == INSTANCE OrderedDelivery WITH
              written <- Own,
              given <- Own \cap Handed

\* The replay hands the rows of its run over in order and without a hole.
ImplementsOrderedDelivery == Stream!Spec

-----------------------------------------------------------------------------
(* Liveness *)

\* "Holes are backfilled ... on a broadcast Lagged (a drop always raises one)":
\* a row of the run that is in the transcript reaches the consumer of a task
\* that knows its thread, or the task ends, or a read failed.  Not a row of the
\* final save of a run that was aborted between its write and its announcement:
\* it waits in the transcript for another reason to read.
RowsDelivered ==
    \A s \in Seqs :
        threadKnown /\ s \in Own ~> s \in Handed \/ pc \in Ended \/ failedReads > 0 \/ s \in mute
=============================================================================
