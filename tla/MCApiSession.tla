----------------------------- MODULE MCApiSession -----------------------------
EXTENDS ApiSession, TLC

Symmetry == Permutations(Procs)

\* Bounds of what is asked.  Where no body goes to a file, predicates on bodies
\* are given what they look at as those on the status are; and a call without
\* side effects differs from one with them in its first audit line only, so
\* that it need not have the output file as well.
MCInit ==
    /\ Init
    /\ app.signal = "body" => \E p \in Procs : req[p].sink = "file"
    /\ \A p \in Procs : req[p].sink = "file" => req[p].unsafe

MCSpec == MCInit /\ [][Next]_vars
===============================================================================
