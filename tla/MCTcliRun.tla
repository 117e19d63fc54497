------------------------------ MODULE MCTcliRun ------------------------------
(* TLC's instance of TcliRun: the bounds are given in TcliRun.cfg. *)
EXTENDS TcliRun
=============================================================================
