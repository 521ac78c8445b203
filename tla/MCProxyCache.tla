---------------------------- MODULE MCProxyCache ----------------------------
(***************************************************************************)
(* ProxyCache for TLC.  Connections are interchangeable, and so are uris.  *)
(***************************************************************************)
EXTENDS ProxyCache, TLC

Symmetry == Permutations(Thread) \cup Permutations(Uri)
=============================================================================
