--------------------------- MODULE TCPRelayProofs ---------------------------
(***************************************************************************)
(* Proofs about TCPTunnel and TCPRelay, for every set of sessions, streams *)
(* and connections and every window.                                       *)
(***************************************************************************)
EXTENDS TCPRelay, ClientRelayProofs

PProofs == INSTANCE TCPProxyProofs WITH sess <- table
-----------------------------------------------------------------------------
(* The tunnel (TCPTunnel). *)

USE DEF S_vars, T_vars, C_vars, copyVars

\* The initial state satisfies the invariant.
LEMMA InitInv == Init => Inv
<1> SUFFICES ASSUME Init PROVE Inv
  OBVIOUS
<1>1. S_TypeOK
  <2>1. [s \in Stream |-> <<>>] \in [Stream -> Seq(Frame)]
    OBVIOUS
  <2> QED
    BY <2>1 DEF Init, S_Init, S_TypeOK
<1>2. T_TypeOK /\ C_TypeOK
  BY DEF Init, T_Init, C_Init, T_TypeOK, C_TypeOK
<1>3. StreamPerConn /\ NothingLeft
  BY ConnAssumption DEF Init, T_Init, StreamPerConn, NothingLeft
<1> QED
  BY <1>1, <1>2, <1>3 DEF Inv, TypeOK

\* Nothing but its own forwardTCP changes what it holds; ends of streams are
\* never opened again.
LEMMA Undisturbed ==
  ASSUME Inv, S_TypeOK', C_TypeOK', UNCHANGED sess, closed \subseteq closed',
         UNCHANGED <<front, conn, main, upward, streamOf>>,
         registered' \in SUBSET Session
  PROVE  Inv'
BY DEF Inv, TypeOK, T_TypeOK, StreamPerConn, NothingLeft, Opened

\* Steps of one forwardTCP and of the front it serves.
LEMMA ForwardInv ==
  ASSUME Inv, NEW c \in Conn,
         Accept(c) \/ ForwardTCP(c) \/ Traffic(c) \/ FrontCloses(c), UNCHANGED C_vars
  PROVE  Inv'
<1>0. C_TypeOK' /\ "server" \in Side /\ "tcp" \in Frame /\ "data" \in Frame
  BY DEF Inv, TypeOK, C_TypeOK, Side, Frame, Header
<1> USE SmuxAssumption, ConnAssumption, <1>0
    DEF Inv, TypeOK, T_TypeOK, StreamPerConn, NothingLeft, GoesTo, Opened
<1>1. CASE Accept(c)
  BY <1>1 DEF Accept, S_TypeOK
<1>2. CASE GetSession(c)
  BY <1>2 DEF GetSession, S_TypeOK
<1>3. CASE NoRoute(c) \/ OpenFails(c)
  BY <1>3 DEF NoRoute, OpenFails, Refuse, S_TypeOK
<1>4. ASSUME NEW s \in Stream, OpenForConn(c, s) PROVE Inv'
  <2>1. S_TypeOK' /\ UNCHANGED closed /\ sess[s] = NoSession
        /\ sess' = [sess EXCEPT ![s] = Vip[c]]
    BY <1>4, OpenStep DEF OpenForConn
  <2>2. \A d \in Conn : streamOf[d] # s
    BY <2>1
  <2>3. /\ UNCHANGED <<registered, front, conn, upward>> /\ main[c] = "open"
        /\ main' = [main EXCEPT ![c] = "header"]
        /\ streamOf' = [streamOf EXCEPT ![c] = s]
    BY <1>4 DEF OpenForConn
  <2>4. StreamPerConn' /\ NothingLeft'
    BY <2>1, <2>2, <2>3 DEF S_TypeOK
  <2> QED BY <2>1, <2>3, <2>4
<1>5. CASE WriteHeader(c) \/ HeaderLate(c)
  <2>1. S_TypeOK' /\ UNCHANGED <<sess, closed>>
    BY <1>5, WriteStep DEF WriteHeader, HeaderLate
  <2> QED BY <1>5, <2>1 DEF WriteHeader, HeaderLate
<1>6. CASE HeaderFails(c) \/ Waited(c)
  <2>1. /\ S_TypeOK' /\ UNCHANGED sess
        /\ closed' = closed \cup {<<"server", streamOf[c]>>}
    BY <1>6, CloseStep DEF HeaderFails, Waited, Returns
  <2> QED BY <1>6, <2>1 DEF HeaderFails, Waited, Returns
<1>7. CASE UpwardEnds(c) \/ UpwardFails(c)
  <2>1. /\ S_TypeOK' /\ UNCHANGED sess
        /\ closed' = closed \cup {<<"server", streamOf[c]>>}
    BY <1>7, CloseStep DEF UpwardEnds, UpwardFails, UpwardStops
  <2> QED BY <1>7, <2>1 DEF UpwardEnds, UpwardFails, UpwardStops
<1>8. CASE CopyUp(c)
  <2>1. S_TypeOK' /\ UNCHANGED <<sess, closed>>
    BY <1>8, WriteStep DEF CopyUp
  <2> QED BY <1>8, <2>1 DEF CopyUp
<1>9. CASE CopyDown(c) \/ DownLost(c)
  <2>1. S_TypeOK' /\ UNCHANGED <<sess, closed>>
    BY <1>9, ReadStep DEF CopyDown, DownLost
  <2> QED BY <1>9, <2>1 DEF CopyDown, DownLost
<1>10. CASE DownEnds(c)
  BY <1>10 DEF DownEnds, S_TypeOK
<1>11. CASE FrontCloses(c)
  BY <1>11 DEF FrontCloses, S_TypeOK
<1> QED
  BY <1>1, <1>2, <1>3, <1>4, <1>5, <1>6, <1>7, <1>8, <1>9, <1>10, <1>11
     DEF ForwardTCP, Traffic

\* The inductive invariant: streams belong to one connection each, and a
\* forwardTCP that has returned left nothing open (tcpforward.go:86-133).
THEOREM TCPTunnelInvariant == Spec => []Inv
<1>1. ASSUME Inv, [Next]_vars PROVE Inv'
  <2>1. CASE ServerSteps
    <3>1. CASE Sessions
      <4>1. S_TypeOK' /\ C_TypeOK' /\ UNCHANGED <<sess, closed>>
        BY <1>1, <2>1, <3>1
           DEF ServerSteps, Sessions, AddSession, RemoveSession, Inv, TypeOK, S_TypeOK, C_TypeOK
      <4>2. registered' \in SUBSET Session
        BY <1>1, <3>1 DEF Sessions, AddSession, RemoveSession, Inv, TypeOK, T_TypeOK
      <4> QED BY <1>1, <3>1, <4>1, <4>2, Undisturbed DEF Sessions
    <3> QED BY <1>1, <2>1, <3>1, ForwardInv DEF ServerSteps
  <2>2. CASE ClientSteps
    <3>1. PICK s \in Stream : HandleStream(s) \/ LocalService(s)
      BY <2>2 DEF ClientSteps
    <3>2. S_TypeOK' /\ C_TypeOK' /\ UNCHANGED sess /\ closed \subseteq closed'
      BY <1>1, <3>1, ClientStep DEF Inv, TypeOK
    <3> QED BY <1>1, <2>2, <3>2, Undisturbed DEF ClientSteps, Inv, TypeOK, T_TypeOK
  <2>3. CASE Links \/ UNCHANGED vars
    <3>1. S_TypeOK' /\ C_TypeOK' /\ UNCHANGED <<sess, closed, T_vars>>
      BY <1>1, <2>3 DEF Links, EndFails, vars, Inv, TypeOK, S_TypeOK, C_TypeOK
    <3> QED BY <1>1, <3>1, Undisturbed DEF Inv, TypeOK, T_TypeOK
  <2> QED
    BY <1>1, <2>1, <2>2, <2>3 DEF Next
<1> QED
  BY InitInv, <1>1, PTL DEF Spec

\* A forwardTCP that has returned left no goroutine, connection or stream.
THEOREM ForwardLeavesNothing == Spec => []NothingLeft
<1>1. Inv => NothingLeft
  BY DEF Inv
<1> QED
  BY TCPTunnelInvariant, <1>1, PTL
-----------------------------------------------------------------------------
(* The whole relay (TCPRelay). *)

\* What a step of a forwardTCP, or of what it copies, is for the proxy in front:
\* nothing, or its backend closes.
LEMMA BackendView ==
  ASSUME NEW c \in Conn,
         ForwardTCP(c) \/ CopyUp(c) \/ UpwardFails(c) \/ CopyDown(c),
         UNCHANGED proxyVars
  PROVE  P!BackendCloses(c) \/ UNCHANGED P!P_vars
<1>1. UNCHANGED front /\ (UNCHANGED conn \/ conn' = conn \ {c})
  BY DEF ForwardTCP, GetSession, NoRoute, OpenFails, Refuse, WriteHeader, HeaderFails,
     HeaderLate, Returns,
         OpenForConn, UpwardEnds, UpwardStops, DownEnds, Waited, CopyUp, UpwardFails,
         CopyDown, DownLost
<1>2. UNCHANGED <<lis, loop, recycler, peer, reset, inconn, at, table, inward, outward>>
  BY DEF proxyVars
<1>3. CASE UNCHANGED conn
  BY <1>1, <1>2, <1>3 DEF P!P_vars, P!loopVars, P!ends
<1>4. CASE conn' = conn \ {c} /\ c \in conn
  BY <1>1, <1>2, <1>4 DEF P!BackendCloses, P!loopVars
<1>5. CASE conn' = conn \ {c} /\ c \notin conn
  <2>1. conn' = conn
    BY <1>5
  <2> QED
    BY <1>3, <2>1
<1> QED
  BY <1>1, <1>3, <1>4, <1>5

\* A step of the relay is one of the proxy, and one of the tunnel, or leaves it
\* alone.
LEMMA RelayStep ==
  ASSUME [R_Next]_relayVars
  PROVE  [P!P_Next]_(P!P_vars) /\ [Next]_vars
<1> DEFINE ProxyStep == P!P_Next \/ UNCHANGED P!P_vars
           TunnelStep == Next \/ UNCHANGED vars
<1>0. SUFFICES ProxyStep /\ TunnelStep
  OBVIOUS
<1>1. CASE UNCHANGED relayVars
  BY <1>1 DEF relayVars, proxyVars, vars, P!P_vars, P!loopVars, P!ends
<1>2. CASE Proxy
  BY <1>2 DEF Proxy, P!P_Next
<1>3. CASE Tunnel
  <2>1. CASE Sessions /\ UNCHANGED C_vars
    BY <1>3, <2>1 DEF Tunnel, Sessions, Next, ServerSteps, proxyVars, P!P_vars, P!loopVars,
       P!ends
  <2>2. ASSUME NEW c \in Conn, ForwardTCP(c), UNCHANGED C_vars PROVE ProxyStep /\ TunnelStep
    <3>1. UNCHANGED proxyVars
      BY <1>3 DEF Tunnel
    <3> QED
      BY <2>2, <3>1, BackendView DEF P!P_Next, Next, ServerSteps
  <2>3. CASE ClientSteps
    BY <1>3, <2>3 DEF Tunnel, ClientSteps, Next, proxyVars, P!P_vars, P!loopVars, P!ends
  <2>4. CASE Links
    BY <1>3, <2>4 DEF Tunnel, Links, Next, proxyVars, P!P_vars, P!loopVars, P!ends
  <2> QED
    BY <1>3, <2>1, <2>2, <2>3, <2>4 DEF Tunnel
<1>4. ASSUME NEW c \in Conn, Starts(c) \/ Copies(c) PROVE ProxyStep /\ TunnelStep
  BY <1>4 DEF Starts, Copies, P!P_Next, P!DoProxy, P!Copies
<1>5. ASSUME NEW c \in Conn, Dials(c) PROVE ProxyStep /\ TunnelStep
  BY <1>5 DEF Dials, P!P_Next, Next, ServerSteps
<1>6. ASSUME NEW c \in Conn, Finishes(c) PROVE ProxyStep /\ TunnelStep
  BY <1>6 DEF Finishes, P!P_Next, P!DoProxy, P!Copies, Next, ServerSteps
<1>7. ASSUME NEW c \in Conn, PeerSends(c) PROVE ProxyStep /\ TunnelStep
  <2>1. (CopyUp(c) \/ UpwardFails(c)) /\ UNCHANGED C_vars /\ UNCHANGED proxyVars
    BY <1>7 DEF PeerSends
  <2> QED
    BY <2>1, BackendView DEF P!P_Next, Next, ServerSteps, Traffic
<1>8. ASSUME NEW c \in Conn, PeerReceives(c) PROVE ProxyStep /\ TunnelStep
  <2>1. CopyDown(c) /\ UNCHANGED C_vars /\ (UNCHANGED proxyVars \/ P!OutwardFails(c))
    BY <1>8 DEF PeerReceives
  <2> QED
    BY <2>1, BackendView DEF P!P_Next, Next, ServerSteps, Traffic
<1> QED
  BY <1>1, <1>2, <1>3, <1>4, <1>5, <1>6, <1>7, <1>8 DEF R_Next

\* Inside the relay, the proxy (tcpproxy.go:37-135) and the tunnel
\* (tcpforward.go:86-165) take only steps they take alone, so what is proved of
\* each holds of both together.
THEOREM RelayImplementsBoth == R_Spec => Spec /\ P!P_Spec
<1>1. R_Init => Init /\ P!P_Init
  BY DEF R_Init
<1>2. [R_Next]_relayVars => [P!P_Next]_(P!P_vars) /\ [Next]_vars
  BY RelayStep
<1> QED
  BY <1>1, <1>2, PTL DEF R_Spec, Spec, P!P_Spec

\* A connection has a forwardTCP from the moment its doProxy has dialled: neither
\* of the two is ever in the other's way.
Joined ==
  \A c \in Conn : /\ at[c] \in {"none", "accepted", "dial"} => main[c] = "none"
                  /\ at[c] = "copy" => main[c] # "none"

\* A forwardTCP that has not begun takes no step.
LEMMA ForwardGoesOn ==
  ASSUME T_TypeOK, NEW c \in Conn, ForwardTCP(c) \/ Traffic(c) \/ FrontCloses(c)
  PROVE  /\ \A d \in Conn : main[d] = "none" <=> main'[d] = "none"
<1> USE DEF T_TypeOK, GoesTo
<1>1. CASE GetSession(c) \/ NoRoute(c) \/ OpenFails(c)
  BY <1>1 DEF GetSession, NoRoute, OpenFails, Refuse
<1>2. CASE \/ WriteHeader(c) \/ HeaderFails(c) \/ HeaderLate(c)
           \/ \E s \in Stream : OpenForConn(c, s)
  BY <1>2 DEF WriteHeader, HeaderFails, HeaderLate, Returns, OpenForConn
<1>3. CASE UpwardEnds(c) \/ DownLost(c) \/ DownEnds(c) \/ Waited(c)
  BY <1>3 DEF UpwardEnds, UpwardStops, DownLost, DownEnds, Waited, Returns
<1>4. CASE Traffic(c) \/ FrontCloses(c)
  BY <1>4 DEF Traffic, CopyUp, UpwardFails, UpwardStops, CopyDown, FrontCloses
<1> QED
  BY <1>1, <1>2, <1>3, <1>4 DEF ForwardTCP

LEMMA JoinedStep ==
  ASSUME Inv, P!P_Inv, Joined, [R_Next]_relayVars
  PROVE  Joined'
<1>0. T_TypeOK /\ at \in [Conn -> {"none", "accepted", "dial", "copy", "ended"}]
  BY DEF Inv, TypeOK, P!P_Inv, P!P_TypeOK
<1>1. ASSUME UNCHANGED at, \A d \in Conn : main[d] = "none" <=> main'[d] = "none"
      PROVE  Joined'
  BY <1>1 DEF Joined
<1>2. CASE UNCHANGED relayVars
  BY <1>1, <1>2 DEF relayVars, vars, proxyVars
<1>3. CASE Proxy
  <2>1. CASE \E c \in Conn : P!AcceptConn(c)
    <3>1. PICK c \in Conn : at[c] = "none" /\ at' = [at EXCEPT ![c] = "accepted"]
      BY <2>1 DEF P!AcceptConn, P!At
    <3>2. UNCHANGED main
      BY <1>3 DEF Proxy, vars
    <3> QED
      BY <1>0, <3>1, <3>2 DEF Joined
  <2>2. CASE UNCHANGED at
    <3>1. UNCHANGED main
      BY <1>3 DEF Proxy, vars
    <3> QED
      BY <1>1, <2>2, <3>1
  <2> QED
    BY <1>3, <2>1, <2>2 DEF Proxy, P!Loop, P!AcceptFails, P!AcceptEnds, P!AcceptStops,
       P!EndLoop,
       P!Recycler, P!RecyclerSelects, P!RecyclerCloses, P!StopProxy, P!InwardFails,
       P!InwardStops,
       P!PeerCloses, P!PeerResets
<1>4. CASE Tunnel
  <2>1. UNCHANGED at
    BY <1>4 DEF Tunnel, proxyVars
  <2>2. CASE \E c \in Conn : ForwardTCP(c)
    BY <1>0, <1>1, <2>1, <2>2, ForwardGoesOn
  <2>3. CASE UNCHANGED main
    BY <1>1, <2>1, <2>3
  <2> QED
    BY <1>4, <2>2, <2>3 DEF Tunnel, Sessions, ClientSteps, Links
<1>5. ASSUME NEW c \in Conn, Starts(c) PROVE Joined'
  BY <1>0, <1>5 DEF Starts, P!StoreConn, P!DialFails, P!At, vars, Joined
<1>6. ASSUME NEW c \in Conn, Dials(c) PROVE Joined'
  BY <1>0, <1>6 DEF Dials, P!DialTo, P!At, Accept, GoesTo, T_TypeOK, Joined
<1>7. ASSUME NEW c \in Conn, Copies(c) PROVE Joined'
  BY <1>1, <1>7 DEF Copies, P!InwardEnds, P!OutwardEnds, P!InwardStops, P!OutwardStops, vars
<1>8. ASSUME NEW c \in Conn, Finishes(c) PROVE Joined'
  BY <1>0, <1>8 DEF Finishes, P!Finish, P!At, FrontCloses, Joined
<1>9. ASSUME NEW c \in Conn, PeerSends(c) \/ PeerReceives(c) PROVE Joined'
  <2>1. UNCHANGED at /\ Traffic(c)
    BY <1>9 DEF PeerSends, PeerReceives, proxyVars, Traffic, P!OutwardFails, P!OutwardStops
  <2> QED
    BY <1>0, <1>1, <2>1, ForwardGoesOn
<1> QED
  BY <1>2, <1>3, <1>4, <1>5, <1>6, <1>7, <1>8, <1>9 DEF R_Next

\* The proxy of the relay is the one TCPProxyProofs is about.
LEMMA SameProxy ==
  /\ P!P_Spec <=> P!P_Init /\ [][PProofs!P_Next]_(PProofs!P_vars)
  /\ P!P_Init <=> PProofs!P_Init
  /\ P!P_Inv <=> PProofs!P_Inv
<1>1. [P!P_Next]_(P!P_vars) <=> [PProofs!P_Next]_(PProofs!P_vars)
  BY ONLY TRUE
     DEF P!AcceptConn, P!AcceptStops, P!AcceptEnds, P!AcceptFails, P!EndLoop,
         P!RecyclerSelects, P!StopProxy, P!RecyclerCloses, P!StoreConn, P!DialFails,
         P!DialTo, P!Public, P!Refuses, P!InwardStops, P!OutwardStops, P!InwardEnds,
         P!InwardFails,
         P!OutwardEnds, P!OutwardFails, P!Finish, P!PeerCloses, P!PeerResets,
         P!BackendCloses, P!Loop,
         P!Recycler, P!Copies, P!DoProxy, P!At, P!P_Next, P!loopVars, P!ends, P!P_vars,
         PProofs!AcceptConn, PProofs!AcceptStops, PProofs!AcceptEnds,
         PProofs!AcceptFails, PProofs!EndLoop, PProofs!RecyclerSelects,
         PProofs!StopProxy, PProofs!RecyclerCloses, PProofs!StoreConn, PProofs!DialFails,
         PProofs!DialTo, PProofs!Public, PProofs!Refuses, PProofs!InwardStops,
         PProofs!OutwardStops,
         PProofs!InwardEnds, PProofs!InwardFails, PProofs!OutwardEnds,
         PProofs!OutwardFails, PProofs!Finish, PProofs!PeerCloses, PProofs!PeerResets,
         PProofs!BackendCloses,
         PProofs!Loop, PProofs!Recycler, PProofs!Copies, PProofs!DoProxy, PProofs!At,
         PProofs!P_Next, PProofs!loopVars, PProofs!ends, PProofs!P_vars
<1>2. P!P_Init <=> PProofs!P_Init
  BY DEF P!P_Init, PProofs!P_Init
<1>3. P!P_Inv <=> PProofs!P_Inv
  BY DEF P!P_Inv, P!P_TypeOK, P!SocketsHeld, PProofs!P_Inv, PProofs!P_TypeOK,
     PProofs!SocketsHeld
<1> QED
  BY <1>1, <1>2, <1>3, PTL DEF P!P_Spec

\* Both parts keep their invariants in the relay, and every connection the proxy
\* has dialled has its forwardTCP (tcpproxy.go:96-113, tcpforward.go:75-133).
THEOREM RelayInvariant == R_Spec => [](Inv /\ P!P_Inv /\ Joined)
<1>1. R_Init => Joined
  BY DEF R_Init, Init, T_Init, P!P_Init, Joined
<1>2. Inv /\ P!P_Inv /\ Joined /\ [R_Next]_relayVars => Joined'
  BY JoinedStep
<1>3. P!P_Spec => []P!P_Inv
  BY SameProxy, PProofs!TCPProxyInvariant, PTL DEF PProofs!P_Spec
<1> QED
  BY <1>1, <1>2, <1>3, RelayImplementsBoth, TCPTunnelInvariant, PTL DEF R_Spec
=============================================================================
