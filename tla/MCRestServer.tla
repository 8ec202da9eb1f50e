---------------------------- MODULE MCRestServer ----------------------------
(* RestServer for TLC: connections are interchangeable. *)
EXTENDS RestServer, TLC

Symmetry == Permutations(Conns)
=============================================================================
