---- MODULE MCCPURuntime ----
(* Finite instances of CPURuntime. *)
EXTENDS CPURuntime, TLC
Symmetry == Permutations(Runtimes)
====
