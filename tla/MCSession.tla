----------------------------- MODULE MCSession -----------------------------
(* Small instances of Session for TLC.                                     *)
EXTENDS SessionProps
CONSTANTS c1, c2, get, push
Symmetry == Permutations(Callers)
=============================================================================
