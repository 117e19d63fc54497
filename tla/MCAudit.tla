------------------------------- MODULE MCAudit -------------------------------
(* Audit for TLC: symmetric processes, and as many inodes as two lines of    *)
(* every process can create, so that MaxInodes never stops a process.        *)
EXTENDS Audit, TLC

Symmetry == Permutations(Procs)
===============================================================================
