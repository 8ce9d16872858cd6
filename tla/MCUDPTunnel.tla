---------------------------- MODULE MCUDPTunnel -----------------------------
(* Instances of UDPTunnel for TLC. *)
EXTENDS UDPTunnel, TLC

CONSTANTS f1, f2, s1, s2, s3, x1, x2

OneFlow == f1 :> x1
OneSession == (f1 :> x1) @@ (f2 :> x1)
TwoSessions == (f1 :> x1) @@ (f2 :> x2)

\* No definition orders the streams.
Symmetric == Permutations({s1, s2})

\* Where liveness is checked the streams are opened in order instead, which no
\* fairness condition is about.
InOrder == Opened(s2) => Opened(s1)
LiveSpec == Init /\ [][Next /\ InOrder']_vars /\ Fairness
=============================================================================
