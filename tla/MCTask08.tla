------------------------------ MODULE MCTask08 ------------------------------
(* Task08 instantiated for TLC: two open files, a page of two bytes, an id  *)
(* of two bytes.                                                            *)
EXTENDS Task08, TLC

CONSTANTS t1, t2, f1, f2, x, y, nul

Symmetry == Permutations(Tasks) \cup Permutations(Files)

Id == <<x, y>>

\* Nothing, a part, the id, the id terminated, continued, and a wrong one.
SmallTexts ==
  {<<>>, <<x>>, <<x, y>>, <<x, y, nul>>, <<x, y, x>>, <<x, y, nul, y>>, <<y, y>>}
=============================================================================
