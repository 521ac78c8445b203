---------------------------- MODULE MCParseLine ----------------------------
(* Short command lines for TLC. *)
EXTENDS ParseLine
=============================================================================
