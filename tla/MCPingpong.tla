----------------------------- MODULE MCPingpong -----------------------------
(***************************************************************************)
(* Small instances, for TLC, of the pingpong example: its server and its   *)
(* clients, and when_all, with which start_all_conn waits for the clients. *)
(* Each behaviour exercises one of the two, the other stays as it began.   *)
(***************************************************************************)
EXTENDS WhenAll, Echo

VARIABLE part

pvars == <<part, vars, evars>>

PInit ==
    /\ part \in {"when_all", "echo"}
    /\ Init /\ EInit
    /\ part # "when_all" => threading = "one"

PNext ==
    \/ part = "when_all" /\ Next /\ UNCHANGED <<part, evars>>
    \/ part = "echo" /\ ENext /\ UNCHANGED <<part, vars>>

\* the fairness of the part that runs: of Next or of ENext
PSpec == PInit /\ [][PNext]_pvars /\ WF_pvars(PNext)

\* On one thread when_all returns once its tasks have ended (when_all.hpp:52-53,
\* 83, 102).
TasksAwaited == part = "when_all" => WhenAllReturns

\* Unless the assertion of server.cpp:24 ends the process, the example stops its
\* loop and closes every socket but the acceptor's (client.cpp:22-49,
\* server.cpp:12-45).
SocketsReleased == part = "echo" => AllReleased
=============================================================================
