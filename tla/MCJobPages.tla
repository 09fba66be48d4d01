----------------------------- MODULE MCJobPages -----------------------------
(* Instances of JobPages for TLC. *)
EXTENDS JobPages, TLC

\* Jobs and slots of requests are interchangeable; used by runs of invariants only.
Symmetric == Permutations(Jobs) \cup Permutations(Calls)

=============================================================================
