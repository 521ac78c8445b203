------------------------------ MODULE MCProxy ------------------------------
(* Proxy for TLC.  Connections are interchangeable. *)
EXTENDS Proxy, TLC

Symmetry == Permutations(Conn)
=============================================================================
