------------------------------- MODULE MCLogCli -------------------------------
(* TLC's instance of LogCli: the bounds are given in its .cfg files. *)
EXTENDS LogCli
===============================================================================
