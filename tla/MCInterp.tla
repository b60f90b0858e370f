------------------------------ MODULE MCInterp ------------------------------
(* The instances of Interp that TLC checks. *)
EXTENDS Interp

(* Every instruction that counts what it stores. *)
CountedOps == AllOps \ UncountedOps

(* Calls of native functions, with what a program needs to pass a constant. *)
NativeOps == {"MOV", "LOAD_CONST", "CALL_NATIVE"}

Addresses == Permutations(Obj)
=============================================================================
