------------------------- MODULE MCCommittedReplay -------------------------
\* Instances of CommittedReplay for TLC.
EXTENDS CommittedReplay
=============================================================================
