--------------------------- MODULE MCJenkinsDeploy ---------------------------
(* TLC's instance of JenkinsDeploy: the bounds are given in its .cfg files. *)
EXTENDS JenkinsDeploy
===============================================================================
