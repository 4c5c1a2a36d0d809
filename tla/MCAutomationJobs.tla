------------------------- MODULE MCAutomationJobs -------------------------
(* One job of each kind, the scheduler and two requests that run it now.   *)
EXTENDS AutomationJobs
=============================================================================
