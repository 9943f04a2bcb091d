---------------------------- MODULE MCScullIoctl ----------------------------
(* ScullIoctl on its own, for TLC: a user task and up to two administrators. *)
EXTENDS ScullIoctl

CONSTANTS user, root1, root2
=============================================================================
