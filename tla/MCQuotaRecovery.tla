--------------------------- MODULE MCQuotaRecovery ---------------------------
(* The instance that QuotaRecovery.cfg checks.                              *)
EXTENDS QuotaRecovery
=============================================================================
