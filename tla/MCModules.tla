----------------------------- MODULE MCModules ------------------------------
(* The instances of Modules that TLC checks. *)
EXTENDS Modules

SomeWants == <<{"fn", "const"}, {"fn", "class"}>>
SomeExports == {{"fn", "class", "const"}, {"fn", "class"}, {"fn"}, {"const"}}

Files == Permutations(Path)
=============================================================================
