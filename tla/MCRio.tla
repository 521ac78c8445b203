------------------------------- MODULE MCRio -------------------------------
(* Rio for TLC. *)
EXTENDS Rio

MCCall ==
  [fn : {"rio_readn", "rio_readnb"}, n : {1, 3}] \cup [fn : {"rio_readlineb"}, n : {2, 4}]
=============================================================================
