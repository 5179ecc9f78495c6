----------------------------- MODULE MCPauseMacros -----------------------------
(* Small instances of the macros around a print. *)
EXTENDS PauseMacros
==============================================================================
