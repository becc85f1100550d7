----------------------------- MODULE AsyncCall -----------------------------
(***************************************************************************)
(* What `co_await f()` promises: it is a call.  The callee starts when it  *)
(* is awaited, its outcome is decided once, and the caller goes on once,   *)
(* later, with that outcome.                                               *)
(***************************************************************************)
CONSTANTS Calls, Outcomes

VARIABLES phase, outcome, delivered

Init ==
    /\ phase = [c \in Calls |-> "idle"]
    /\ outcome = [c \in Calls |-> "none"]
    /\ delivered = [c \in Calls |-> "none"]

Invoke(c) ==
    /\ phase[c] = "idle"
    /\ phase' = [phase EXCEPT ![c] = "pending"]
    /\ UNCHANGED <<outcome, delivered>>

Complete(c, r) ==
    /\ phase[c] = "pending"
    /\ phase' = [phase EXCEPT ![c] = "complete"]
    /\ outcome' = [outcome EXCEPT ![c] = r]
    /\ UNCHANGED delivered

Deliver(c) ==
    /\ phase[c] = "complete"
    /\ phase' = [phase EXCEPT ![c] = "delivered"]
    /\ delivered' = [delivered EXCEPT ![c] = outcome[c]]
    /\ UNCHANGED outcome

Next == \E c \in Calls : Invoke(c) \/ Deliver(c) \/ \E r \in Outcomes : Complete(c, r)

Spec == Init /\ [][Next]_<<phase, outcome, delivered>>
=============================================================================
