-------------------------- MODULE MCKernelContext --------------------------
EXTENDS KernelContext, TLC
Symmetry == Permutations(Threads)
=============================================================================
