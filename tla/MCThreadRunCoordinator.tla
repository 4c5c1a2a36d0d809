----------------------- MODULE MCThreadRunCoordinator -----------------------
\* Instances of ThreadRunCoordinator for TLC.
EXTENDS ThreadRunCoordinator, TLC

\* Requests are interchangeable, and so are mutators (each one's kind is
\* chosen in Init); used only where safety alone is checked.
Symmetry == Permutations(Requests) \cup Permutations(Mutators)
=============================================================================
