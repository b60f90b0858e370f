------------------------------- MODULE MCDict -------------------------------
(* The instance of Dict that TLC checks. *)
EXTENDS Dict

CONSTANTS A1, A2, B

SomeContents == (A1 :> "a") @@ (A2 :> "a") @@ (B :> "b")

EqualStrings == Permutations(KeyString)
=============================================================================
