---------------------------- MODULE MCOperators -----------------------------
(* The instance of Operators that TLC checks. *)
EXTENDS Operators

SomeInts == MinInt .. MaxInt
SomeFractions == {<<-1, 1>>, <<-1, 2>>, <<0, 1>>, <<1, 2>>, <<1, 1>>, <<3, 1>>}
SomeStrings == {<<>>, <<1>>, <<2>>, <<1, 1>>}
=============================================================================
