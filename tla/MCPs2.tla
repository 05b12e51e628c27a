------------------------------- MODULE MCPs2 -------------------------------
(* Two packets and two keys may wait.                                      *)
EXTENDS Ps2
=============================================================================
