------------------------------ MODULE MCLBaaSv2 -------------------------------
(* Model-checking instance of LBaaSv2.                                      *)
EXTENDS LBaaSv2
=============================================================================
