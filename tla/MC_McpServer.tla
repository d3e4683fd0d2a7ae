---------------------------- MODULE MC_McpServer ----------------------------
(* A small instance of McpServer for TLC: see the README for the bounds.   *)
EXTENDS McpServer, TLC

CONSTANTS ana, r1

MCAge == ana :> 30
MCNationality == ana :> "DE"
MCProfile == r1 :> "minimal"
MCKeyOf == r1 :> "a fresh key"
=============================================================================
