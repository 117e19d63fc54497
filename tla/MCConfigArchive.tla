--------------------------- MODULE MCConfigArchive ---------------------------
EXTENDS ConfigArchive, TLC
Symmetry == Permutations(Procs)
===============================================================================
