------------------------------ MODULE MCEngine ------------------------------
(* Three backends: a request can meet two dead ones and a live one.        *)
EXTENDS Engine
CONSTANT k1
=============================================================================
