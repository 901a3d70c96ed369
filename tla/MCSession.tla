------------------------------ MODULE MCSession ------------------------------
(* Constants of Session for TLC. *)
EXTENDS Session

AllFaults == Children \cup {"spawn", "port"}
=============================================================================
