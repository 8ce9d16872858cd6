---------------------------- MODULE MCBeeLogger ----------------------------
(* Instances of BeeLogger for TLC.                                           *)
EXTENDS BeeLogger, TLC
=============================================================================
