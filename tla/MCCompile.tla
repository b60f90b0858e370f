------------------------------ MODULE MCCompile ------------------------------
EXTENDS Compile

ParamsXY == <<"x", "y">>
=============================================================================
