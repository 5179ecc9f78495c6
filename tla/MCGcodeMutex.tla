---------------------------- MODULE MCGcodeMutex ----------------------------
(* The mutex with a few greenlets: scripts of two clients, a sensor, the   *)
(* SD card handler and a delayed G-code are all greenlets to it.           *)
EXTENDS GcodeMutex, TLC
=============================================================================
