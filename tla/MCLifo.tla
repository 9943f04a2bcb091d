------------------------------- MODULE MCLifo -------------------------------
(* Lifo instantiated for TLC. *)
EXTENDS Lifo

CONSTANTS t1, t2, n1, n2, n3, b1, b2

SmallWrites == {<<b1>>, <<b1, b2>>}
SingleBytes == {<<b1>>, <<b2>>}
=============================================================================
