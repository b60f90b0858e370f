---------------------------- MODULE MCFnTable ------------------------------
(* The instance of FnTable that TLC checks. *)
EXTENDS FnTable

Names == Permutations(Name)
=============================================================================
