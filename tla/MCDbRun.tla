------------------------------- MODULE MCDbRun -------------------------------
(* DbRun for TLC: every combination of verb, statement, flags and engine. *)
EXTENDS DbRun
===============================================================================
