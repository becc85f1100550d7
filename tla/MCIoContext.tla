---------------------------- MODULE MCIoContext ----------------------------
(* Small instances of IoContext for TLC. *)
EXTENDS IoContext, TLC

RemoteSymmetry == Permutations(Remotes)
=============================================================================
