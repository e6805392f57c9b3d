----------------------------- MODULE MCDispatch -----------------------------
(* Dispatch on small instances; drivers and requests are interchangeable.   *)
EXTENDS Dispatch, TLC

Symmetry == Permutations(Drivers) \cup Permutations(Requests) \cup Permutations(Deliveries)
=============================================================================
