-------------------------- MODULE MCThreadDeletion --------------------------
(* The instances that ThreadDeletion.cfg and StaleRoute.cfg check.         *)
EXTENDS ThreadDeletion
=============================================================================
