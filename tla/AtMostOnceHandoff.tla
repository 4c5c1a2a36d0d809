-------------------------- MODULE AtMostOnceHandoff --------------------------
(***************************************************************************)
(* What the dispatch admission ledger promises: a message under one        *)
(* identity (scope, thread, kind and client intent id) reaches a provider  *)
(* at most once, through a gate that opens once, and what the ledger       *)
(* finally says of it never changes.  The code promises no delivery: a     *)
(* message may end up ambiguous without having been seen by a provider.    *)
(* DispatchAdmission implements this module.                               *)
(***************************************************************************)
CONSTANT Keys

VARIABLES
    phase,   \* what the ledger says of each identity
    seen     \* the identities a provider has been given a message of

vars == <<phase, seen>>

Settled == {"accepted", "ambiguous", "not_dispatched"}

TypeOK ==
    /\ phase \in [Keys -> Settled \cup {"none", "admitted", "handoff_started"}]
    /\ seen \subseteq Keys

Init ==
    /\ phase = [k \in Keys |-> "none"]
    /\ seen = {}

Move(k, from, to) == phase[k] = from /\ phase' = [phase EXCEPT ![k] = to]

Admit(k) ==
    /\ \E p \in {"admitted", "not_dispatched"} : Move(k, "none", p)
    /\ UNCHANGED seen

OpenGate(k) == Move(k, "admitted", "handoff_started") /\ UNCHANGED seen

Deliver(k) ==
    /\ phase[k] = "handoff_started" /\ k \notin seen
    /\ seen' = seen \cup {k}
    /\ UNCHANGED phase

Settle(k) ==
    /\ \E p \in {"accepted", "ambiguous"} :
          Move(k, "handoff_started", p) /\ (p = "accepted" => k \in seen)
    /\ UNCHANGED seen

\* The gateway restarts: handoffs it left open are never known to have failed.
Restart ==
    /\ phase' = [k \in Keys |->
                    IF phase[k] = "handoff_started" THEN "ambiguous" ELSE phase[k]]
    /\ UNCHANGED seen

Next == Restart \/ \E k \in Keys : Admit(k) \/ OpenGate(k) \/ Deliver(k) \/ Settle(k)

Spec == Init /\ [][Next]_vars
=============================================================================
