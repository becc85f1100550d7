----------------------------- MODULE ByteQueue -----------------------------
(***************************************************************************)
(* What a stream buffer promises: bytes come out in the order they went    *)
(* in, each once.  A step adds bytes at the end or takes some off the      *)
(* front.                                                                  *)
(***************************************************************************)
EXTENDS SequencesExt

VARIABLE q

Init == q = <<>>

Put == IsPrefix(q, q')
Take == IsSuffix(q', q)

Spec == Init /\ [][Put \/ Take]_q
=============================================================================
