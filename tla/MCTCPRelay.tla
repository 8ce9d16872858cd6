----------------------------- MODULE MCTCPRelay -----------------------------
(* Instances of TCPRelay for TLC. *)
EXTENDS TCPRelay, TLC

CONSTANTS c1, x1

OneSession == c1 :> x1
=============================================================================
