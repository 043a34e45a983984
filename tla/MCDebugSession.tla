-------------------------- MODULE MCDebugSession --------------------------
(* DebugSession for TLC: the application threads are interchangeable. *)
EXTENDS DebugSession

Symmetry == Permutations(AppThreads)
===========================================================================
