------------------------------ MODULE MCKernel ------------------------------
(* Kernel on small sets of objects. *)
EXTENDS Kernel, TLC

Symmetry == Permutations(Threads)

=============================================================================
