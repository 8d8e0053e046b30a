------------------------------ MODULE MCPipes -------------------------------
EXTENDS Pipes, TLC

ProcSymmetry == Permutations(Procs)
=============================================================================
