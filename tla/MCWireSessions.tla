-------------------------- MODULE MCWireSessions --------------------------
(***************************************************************************)
(* Two sessions over shared admission.  Nothing tells the sessions apart.  *)
(***************************************************************************)
EXTENDS WireSessions, TLC

Symmetry == Permutations(Session)
============================================================================
