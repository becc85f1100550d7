----------------------------- MODULE MCBlocking -----------------------------
(***************************************************************************)
(* Small instances, for TLC, of what blocks a thread: sync_wait, and the   *)
(* atomic_wait it blocks in.  Each behaviour exercises one of the two, the *)
(* other stays as it began.                                                *)
(***************************************************************************)
EXTENDS SyncWait, AtomicWait

VARIABLE part

PInit ==
    /\ part \in {"sync_wait", "atomic_wait"}
    /\ SyncInit /\ AInit
    /\ part # "sync_wait" => home = "promise"
    /\ part # "atomic_wait" => strategy = "backoff" /\ all

PNext ==
    \/ part = "sync_wait" /\ SyncNext /\ UNCHANGED <<part, avars>>
    \/ part = "atomic_wait" /\ ANext /\ UNCHANGED <<part, swvars>>

PSpec ==
    /\ PInit /\ [][PNext]_<<part, swvars, avars>>
    /\ (part = "sync_wait" /\ SyncFairness) \/ (part = "atomic_wait" /\ AFairness)

\* A call of sync_wait returns (sync_wait.hpp:37-48), once what the coroutine
\* waits for has happened.
CallReturns == part = "sync_wait" => SyncWaitReturns
=============================================================================
