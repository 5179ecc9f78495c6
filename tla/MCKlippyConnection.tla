--------------------------- MODULE MCKlippyConnection ---------------------------
(* The module has no parameter and its state space is finite.              *)
EXTENDS KlippyConnection
=============================================================================
