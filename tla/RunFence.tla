------------------------------ MODULE RunFence ------------------------------
(***************************************************************************)
(* What the run coordinator promises its callers, with the coordinator     *)
(* itself left out: a thread is live, archived or deleted; runs execute    *)
(* only on a live thread; a thread becomes terminal only while it has no   *)
(* run, and a terminal thread never comes back.  ThreadRunCoordinator is   *)
(* shown to implement this module.                                         *)
(***************************************************************************)
CONSTANTS Threads, Requests

VARIABLES
    terminal,   \* durable lifecycle state of each thread
    runs        \* the requests that hold a promoted run on each thread

vars == <<terminal, runs>>

TypeOK ==
    /\ terminal \in [Threads -> {"live", "archived", "deleted"}]
    /\ runs \in [Threads -> SUBSET Requests]

\* The durable state a gateway starts from is whatever an earlier one left.
Init ==
    /\ terminal \in [Threads -> {"live", "archived", "deleted"}]
    /\ runs = [t \in Threads |-> {}]

Begin(t, r) ==
    /\ terminal[t] = "live"
    /\ runs' = [runs EXCEPT ![t] = @ \cup {r}]
    /\ UNCHANGED terminal

End(t, r) ==
    /\ r \in runs[t]
    /\ runs' = [runs EXCEPT ![t] = @ \ {r}]
    /\ UNCHANGED terminal

Archive(t) ==
    /\ terminal[t] = "live"
    /\ runs[t] = {}
    /\ terminal' = [terminal EXCEPT ![t] = "archived"]
    /\ UNCHANGED runs

Delete(t) ==
    /\ terminal[t] # "deleted"
    /\ runs[t] = {}
    /\ terminal' = [terminal EXCEPT ![t] = "deleted"]
    /\ UNCHANGED runs

\* The gateway process dies: its runs die with it, tombstones do not.
Crash ==
    /\ runs' = [t \in Threads |-> {}]
    /\ UNCHANGED terminal

Next ==
    \/ \E t \in Threads, r \in Requests : Begin(t, r) \/ End(t, r)
    \/ \E t \in Threads : Archive(t) \/ Delete(t)
    \/ Crash

Spec == Init /\ [][Next]_vars

\* A promoted run and a tombstone never meet on one thread.
NoRunOnTerminalThread ==
    \A t \in Threads : runs[t] # {} => terminal[t] = "live"
=============================================================================
