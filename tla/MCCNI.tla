-------------------------------- MODULE MCCNI ---------------------------------
(* Model-checking instance of CNI.                                          *)
EXTENDS CNI
=============================================================================
