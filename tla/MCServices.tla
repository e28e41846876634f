------------------------------ MODULE MCServices ------------------------------
(* Model-checking instances of Services.                                    *)
EXTENDS Services

\* Two ports, each with a target port of its own.
MCPortSpecs  == {[name |-> "http", port |-> 80], [name |-> "admin", port |-> 81]}
MCTargetPort == [n \in {"http", "admin"} |-> IF n = "http" THEN 8080 ELSE 8081]
=============================================================================
