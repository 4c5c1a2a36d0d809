---------------------------- MODULE MCBridgeRuns ----------------------------
(* Two dispatches, of which one is durable.                                *)
EXTENDS BridgeRuns

CONSTANTS d1, d2

MCDispatches == {d1, d2}
MCDurables == {{d1}}
=============================================================================
