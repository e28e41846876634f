------------------------------ MODULE MCPodVIF -------------------------------
(* Model-checking instances of PodVIF.                                      *)
EXTENDS PodVIF
=============================================================================
