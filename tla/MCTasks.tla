------------------------------ MODULE MCTasks -------------------------------
(* Instances of CMTasks for TLC.                                            *)
EXTENDS CMTasks, TLC
Symmetric == Permutations(Addrs)
=============================================================================
