--------------------------- MODULE MCRestartWake ---------------------------
(* The instance that RestartWake.cfg checks.                               *)
EXTENDS RestartWake
=============================================================================
