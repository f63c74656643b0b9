------------------------------ MODULE MCBackends ------------------------------
(* Symmetry of Backends: nothing tells two addresses, or two runs, apart,   *)
(* and only safety is checked.                                              *)
EXTENDS Backends, TLC

Symmetry == Permutations(Ips) \cup Permutations(Procs)
===============================================================================
