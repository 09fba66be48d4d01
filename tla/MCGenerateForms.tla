--------------------------- MODULE MCGenerateForms ---------------------------
(* Instances of GenerateForms for TLC. *)
EXTENDS GenerateForms, TLC
=============================================================================
