----------------------------- MODULE MCUDPProxy -----------------------------
(* Instances of UDPProxy for TLC. *)
EXTENDS UDPProxy, TLC

CONSTANTS s1, s2, s3, c1, c2

\* No definition of UDPProxy orders senders or sockets.
Symmetric == Permutations({s1, s2, s3}) \cup Permutations({c1, c2})
=============================================================================
