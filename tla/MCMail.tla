------------------------------- MODULE MCMail -------------------------------
(* One message.  Two racing writers, an alias that moves and a body that is  *)
(* deleted each multiply the states of the others, so an instance has two of *)
(* the three at most.                                                        *)
EXTENDS Mail

Bounds(n, move, delete, crash) ==
    [callers |-> CHOOSE C \in SUBSET Callers : Cardinality(C) = n,
     moves |-> move, deletions |-> delete, crashes |-> crash]
MCLimits == {Bounds(2, 0, 0, 1), Bounds(1, 1, 0, 1), Bounds(1, 0, 1, 1)}
=============================================================================
