------------------------------ MODULE MCStudio ------------------------------
(***************************************************************************)
(* Two cameras. They are not symmetric for the operator's Cut, but nothing *)
(* in the specification names one of them, so they may be permuted. At the *)
(* start they are both connected, or neither is; the other cases are       *)
(* reached as a camera comes or goes.                                      *)
(***************************************************************************)
EXTENDS Studio, TLC

Symmetry == Permutations(Camera)
MCInit   == Init /\ present \in {{}, Camera}
MCSpec   == MCInit /\ [][Next]_vars
=============================================================================
