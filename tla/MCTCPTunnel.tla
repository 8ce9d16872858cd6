---------------------------- MODULE MCTCPTunnel -----------------------------
(* Instances of TCPTunnel for TLC. *)
EXTENDS TCPTunnel, TLC

CONSTANTS c1, c2, x1

OneSession == c1 :> x1 @@ c2 :> x1

\* No definition orders the streams or the connections.
Symmetric == Permutations(Stream) \cup Permutations(Conn)
=============================================================================
