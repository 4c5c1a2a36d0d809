------------------------ MODULE MCDispatchAdmission ------------------------
\* Instances of DispatchAdmission for TLC: messages of one thread, or one message
\* under keys of several threads, which are named by the keys.
EXTENDS DispatchAdmission, TLC

MCOneThread == [r \in Keys \cup OtherRuns |-> CHOOSE t \in Threads : TRUE]
MCOwnIntents == [k \in Keys |-> k]

MCOwnThreads == [k \in Keys |-> k]
MCOneIntent == [k \in Keys |-> "intent"]

\* Used only where safety alone is checked, and never with threads named by keys.
Symmetry ==
    Permutations(Clients) \cup Permutations(Keys) \cup Permutations(Prints)
=============================================================================
