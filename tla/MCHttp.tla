------------------------------- MODULE MCHttp -------------------------------
(***************************************************************************)
(* Small instances, for TLC, of the two halves of an http request: the     *)
(* resolver, and the client, which awaits its answer.  Each behaviour      *)
(* exercises one of them, the other stays as it began.                     *)
(***************************************************************************)
EXTENDS Resolver, MCHttpClient

VARIABLE part

PInit == part \in {"resolver", "client"} /\ Init /\ ReqInit

PNext ==
    \/ part = "resolver" /\ Next /\ UNCHANGED <<part, reqvars>>
    \/ part = "client" /\ ReqNext /\ UNCHANGED <<part, vars>>

PSpec ==
    /\ PInit /\ [][PNext]_<<part, vars, reqvars>>
    /\ (part = "resolver" /\ Fairness) \/ (part = "client" /\ ReqFairness)
=============================================================================
