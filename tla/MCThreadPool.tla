----------------------------- MODULE MCThreadPool -----------------------------
EXTENDS ThreadPool, TLC

Symmetry == Permutations(Callers)
===============================================================================
