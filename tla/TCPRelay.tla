------------------------------ MODULE TCPRelay ------------------------------
(***************************************************************************)
(* A public tcp connection from end to end: TCPProxy, TCPForward and       *)
(* ClientRelay.  The backend of TCPProxy is forwardTCP, and the front of   *)
(* TCPForward is doProxy: `front' and `conn' are the two ends of the       *)
(* connection between them, inside the server.                             *)
(***************************************************************************)
EXTENDS TCPTunnel

VARIABLES lis, loop, recycler, peer, reset, inconn, at, table, inward, outward

proxyVars == <<lis, loop, recycler, peer, reset, inconn, at, table, inward, outward>>
relayVars == <<vars, proxyVars>>

P == INSTANCE TCPProxy WITH sess <- table

R_Init == Init /\ P!P_Init
-----------------------------------------------------------------------------
(* Steps of both ends of the inner connection *)

\* doProxy dials, forwardTCP's listener accepts.
Dials(c) == P!DialTo(c) /\ Accept(c) /\ UNCHANGED C_vars

\* doProxy returns, forwardTCP sees its connection end.
Finishes(c) == P!Finish(c) /\ FrontCloses(c) /\ UNCHANGED C_vars

\* What the public peer sends goes through doProxy to the stream.
PeerSends(c) ==
  /\ c \in inward /\ P!Public(c)
  /\ CopyUp(c) \/ UpwardFails(c)
  /\ UNCHANGED <<C_vars, proxyVars>>

\* What the stream brings goes through doProxy to the public peer, if that is there;
\* it is lost if the peer has closed, and fails once the connection was reset.
PeerReceives(c) ==
  /\ c \in outward /\ CopyDown(c)
  /\ IF P!Refuses(c) THEN P!OutwardFails(c) ELSE UNCHANGED proxyVars
  /\ UNCHANGED C_vars
-----------------------------------------------------------------------------
(* Steps of one of them *)

Copies(c) == (P!InwardEnds(c) \/ P!OutwardEnds(c)) /\ UNCHANGED vars
Starts(c) == (P!StoreConn(c) \/ P!DialFails(c)) /\ UNCHANGED vars

Proxy ==
  /\ \/ P!Loop \/ P!AcceptFails \/ P!Recycler \/ P!StopProxy
     \/ \E c \in Conn : P!AcceptConn(c) \/ P!InwardFails(c) \/ P!PeerCloses(c) \/ P!PeerResets(c)
  /\ UNCHANGED vars

Tunnel ==
  /\ \/ Sessions /\ UNCHANGED C_vars
     \/ \E c \in Conn : ForwardTCP(c) /\ UNCHANGED C_vars
     \/ ClientSteps
     \/ Links
  /\ UNCHANGED proxyVars

R_Next ==
  \/ Proxy \/ Tunnel
  \/ \E c \in Conn : \/ Starts(c) \/ Dials(c) \/ Copies(c) \/ Finishes(c)
                     \/ PeerSends(c) \/ PeerReceives(c)

R_Spec == R_Init /\ [][R_Next]_relayVars

\* The fairness of the tunnel and of doProxy.  A peer that is gone does not
\* hold up what it is sent: the write takes it, or fails.
R_Fairness ==
  /\ Fairness
  /\ \A c \in Conn : /\ WF_relayVars(Starts(c) \/ Dials(c))
                     /\ WF_relayVars(Copies(c)) /\ WF_relayVars(Finishes(c))
                     /\ WF_relayVars(c \notin peer /\ PeerReceives(c))

R_FairSpec == R_Spec /\ R_Fairness
-----------------------------------------------------------------------------
(* Properties *)

\* The whole relay of a connection is gone, at the server and at the client.
RelayEnded(c) == at[c] = "ended" /\ c \notin front \cup inconn /\ Ended(c)

\* When the public peer is gone and its kernel has said so (the first answer after
\* it closed is lost and provokes the reset), the next answer is enough to take the
\* whole relay down, up to the local service's socket (tcpproxy.go:107-113,
\* tcpforward.go:119-132), unless the session is lost.
AnswerEnds ==
  \A c \in Conn :
    (/\ at[c] = "copy" /\ P!Refuses(c) /\ c \notin peer
     /\ main[c] = "copy" /\ inbox["server"][streamOf[c]] # <<>>)
      ~> (RelayEnded(c) \/ <<"server", Vip[c]>> \notin up)

\* Claimed at tcpforward.go:129-130 (a session costs two goroutines and their
\* buffers) and by the tests under opennotrd/test/tcpecho, which close both
\* ends of every connection: when both are closed, the relay ends, the
\* session being as well as ever.
BothClosedEnds ==
  \A c \in Conn :
    (at[c] = "copy" /\ c \notin peer /\ main[c] = "copy"
       /\ <<"client", streamOf[c]>> \in closed)
      ~> (at[c] = "ended" \/ <<"server", Vip[c]>> \notin up)
=============================================================================
