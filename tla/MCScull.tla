------------------------------ MODULE MCScull -------------------------------
(***************************************************************************)
(* Scull instantiated for TLC.  Tasks are interchangeable only when none   *)
(* of them is an administrator; files always are.                          *)
(***************************************************************************)
EXTENDS Scull, TLC

CONSTANTS t1, t2, f1, f2, b1, b2, Junk

FileSymmetry == Permutations(Files)
Symmetry == FileSymmetry \cup Permutations(Tasks)

BackAndForth == {-1, 2}
=============================================================================
