---------------------------- MODULE MCJobQueries ----------------------------
(* Instances of JobQueries for TLC. *)
EXTENDS JobQueries, TLC

=============================================================================
