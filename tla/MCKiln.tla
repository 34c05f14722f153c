------------------------------ MODULE MCKiln ------------------------------
(* Instances of Kiln for TLC: the processes are interchangeable. *)
EXTENDS Kiln, TLC

Symmetry == Permutations(Procs)
=============================================================================
