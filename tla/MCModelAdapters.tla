-------------------------- MODULE MCModelAdapters --------------------------
(* Instances of ModelAdapters for TLC.                                     *)
EXTENDS ModelAdapters, TLC

\* Deliveries are interchangeable.
Symmetry == Permutations(Deliveries)
=============================================================================
