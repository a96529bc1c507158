----------------------------- MODULE MCDispatch -----------------------------
(* Instances of Dispatch for TLC. *)
EXTENDS Dispatch, TLC

\* Drivers run the same code, and no property names one of them.
DriverSymmetry == Permutations(Drivers)
=============================================================================
