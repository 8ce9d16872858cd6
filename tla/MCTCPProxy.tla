----------------------------- MODULE MCTCPProxy -----------------------------
(* Instances of TCPProxy for TLC. *)
EXTENDS TCPProxy, TLC

CONSTANTS c1, c2

\* No definition of TCPProxy orders the connections.
Symmetric == Permutations({c1, c2})
=============================================================================
