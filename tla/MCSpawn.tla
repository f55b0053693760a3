------------------------------ MODULE MCSpawn ------------------------------
(* Constants for model checking Spawn: pids and symbols are interchangeable. *)
EXTENDS Spawn, TLC

CONSTANTS p1, p2, p3, s1, s2

TwoPids   == {p1, p2}
ThreePids == {p1, p2, p3}
OneSym    == {s1}
TwoSyms   == {s1, s2}

Symmetry == Permutations(Pids) \cup Permutations(Syms)
=============================================================================
