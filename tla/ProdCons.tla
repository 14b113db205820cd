------------------------------ MODULE ProdCons ------------------------------
(***************************************************************************)
(* What the producer/consumer programs of src/t3 and src/t4 promise: the   *)
(* buffer changes only by whole operations, each made by a thread of a     *)
(* kind whose condition holds at that moment.                              *)
(***************************************************************************)
EXTENDS Buffer

CONSTANT Present  \* the kinds of thread the chosen scenario starts, a subset of Kinds

VARIABLE buffer

Init == buffer = <<>>

Use(k) == Can(k, buffer) /\ buffer' = After(k, buffer)

Next == \E k \in Present : Use(k)

Spec == Init /\ [][Next]_buffer
=============================================================================
