----------------------------- MODULE MCListPages -----------------------------
(* Instances of ListPages for TLC. *)
EXTENDS ListPages, TLC
=============================================================================
