---------------------------- MODULE MCDelayedGcode ----------------------------
(* Three delayed G-codes, two clients and the print job's handler.         *)
EXTENDS DelayedGcode, TLC
=============================================================================
