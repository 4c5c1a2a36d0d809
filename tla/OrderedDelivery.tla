--------------------------- MODULE OrderedDelivery ---------------------------
(***************************************************************************)
(* What the committed replay promises the consumer of a run: the run's     *)
(* rows, which are written in order, are handed over in that order and     *)
(* without a hole.  It promises no row: the consumer may lag for ever.     *)
(* CommittedReplay implements this module.                                 *)
(***************************************************************************)
EXTENDS Naturals

CONSTANT Seqs

VARIABLES
    written,   \* the rows of the run in the transcript
    given      \* those the consumer was handed

vars == <<written, given>>

Init == written = {} /\ given = {}

\* Rows of the run are appended behind all that there are.
Write ==
    /\ \E new \in SUBSET (Seqs \ written) :
          /\ \A n \in new, s \in written : s < n
          /\ written' = written \cup new
    /\ UNCHANGED given

\* The consumer catches up to some row.
Deliver ==
    /\ \E n \in Seqs : given' = {s \in written : s <= n}
    /\ given \subseteq given'
    /\ UNCHANGED written

Next == Write \/ Deliver

Spec == Init /\ [][Next]_vars
=============================================================================
