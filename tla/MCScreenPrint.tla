----------------------------- MODULE MCScreenPrint -----------------------------
(* The instance is given in the configurations.                            *)
EXTENDS ScreenPrint
=============================================================================
