---------------------------- MODULE MCStacksCaller ----------------------------
(* The caller against a node that holds two calls.                         *)
EXTENDS StacksCaller
=============================================================================
