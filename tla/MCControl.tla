----------------------------- MODULE MCControl -----------------------------
(* Small instances of CMControl: the application threads are interchangeable. *)
EXTENDS CMControl, TLC

CONSTANTS a1, a2, k1

AppSymmetry == Permutations({a1, a2})
=============================================================================
