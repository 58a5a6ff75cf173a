------------------------------ MODULE MCEnforcer ----------------------------
(* A small instance of Enforcer for TLC: two hooks at a time; the reminder   *)
(* is due at the second tool call instead of the fifth.                      *)
EXTENDS Enforcer
=============================================================================
