---------------------------- MODULE MCFdTracing ----------------------------
EXTENDS FdTracing, TLC

Symmetry == Permutations(Pid) \cup Permutations(Fd)
============================================================================
