---------------------------- MODULE MCMcpServer ----------------------------
(***************************************************************************)
(* Small instances of McpServer for TLC: a daemon's session, with one      *)
(* workspace besides its own.                                              *)
(***************************************************************************)
EXTENDS McpServer

CONSTANTS home, other
=============================================================================
