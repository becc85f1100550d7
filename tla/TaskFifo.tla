------------------------------ MODULE TaskFifo ------------------------------
(***************************************************************************)
(* What a work queue of io_context promises its callers: items leave it    *)
(* one at a time, in the order in which they were handed over, and nothing *)
(* else happens to it.                                                     *)
(***************************************************************************)
EXTENDS Sequences

CONSTANT Elems
VARIABLE q

Init == q = <<>>

Put == \E x \in Elems : q' = Append(q, x)
Take == q # <<>> /\ q' = Tail(q)

Next == Put \/ Take

Spec == Init /\ [][Next]_q
=============================================================================
