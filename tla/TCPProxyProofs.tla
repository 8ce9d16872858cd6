--------------------------- MODULE TCPProxyProofs ---------------------------
(***************************************************************************)
(* Proofs about TCPProxy, for every set of connections.                    *)
(***************************************************************************)
EXTENDS TCPProxy, TLAPS

USE DEF P_vars, loopVars, ends

\* The sockets of a connection are held by its doProxy (tcpproxy.go:88-113)
\* from the accept to the deferred closes, and the table knows them.
THEOREM TCPProxyInvariant == P_Spec => []P_Inv
<1>1. P_Init => P_Inv
  BY DEF P_Init, P_Inv, P_TypeOK, SocketsHeld
<1>2. P_Inv /\ [P_Next]_P_vars => P_Inv'
  <2> SUFFICES ASSUME P_Inv, [P_Next]_P_vars PROVE P_Inv'
    OBVIOUS
  <2> USE DEF P_Inv, P_TypeOK, SocketsHeld, At
  <2>1. CASE UNCHANGED P_vars
    BY <2>1
  <2>2. CASE Loop \/ AcceptFails
    BY <2>2 DEF Loop, AcceptEnds, AcceptFails, AcceptStops, EndLoop
  <2>3. CASE Recycler \/ StopProxy
    BY <2>3 DEF Recycler, RecyclerSelects, RecyclerCloses, StopProxy
  <2>4. ASSUME NEW c \in Conn, AcceptConn(c) PROVE P_Inv'
    BY <2>4 DEF AcceptConn
  <2>5. ASSUME NEW c \in Conn, StoreConn(c) PROVE P_Inv'
    BY <2>5 DEF StoreConn
  <2>6. ASSUME NEW c \in Conn, DialFails(c) PROVE P_Inv'
    BY <2>6 DEF DialFails
  <2>7. ASSUME NEW c \in Conn, DialTo(c) PROVE P_Inv'
    BY <2>7 DEF DialTo
  <2>8. ASSUME NEW c \in Conn, InwardStops(c) \/ OutwardStops(c) PROVE P_Inv'
    BY <2>8 DEF InwardStops, OutwardStops
  <2>9. ASSUME NEW c \in Conn, Finish(c) PROVE P_Inv'
    BY <2>9 DEF Finish
  <2>10. ASSUME NEW c \in Conn, PeerCloses(c) \/ PeerResets(c) \/ BackendCloses(c)
         PROVE  P_Inv'
    BY <2>10 DEF PeerCloses, PeerResets, BackendCloses
  <2> QED
    BY <2>1, <2>2, <2>3, <2>4, <2>5, <2>6, <2>7, <2>8, <2>9, <2>10
       DEF P_Next, DoProxy, Copies, InwardEnds, InwardFails, OutwardEnds, OutwardFails
<1> QED
  BY <1>1, <1>2, PTL DEF P_Spec

\* Every step of a tcp proxy (tcpproxy.go:22-86) is one the plugin manager's
\* model allows its listeners.
THEOREM ListenerImplemented == P_Spec => ImplementsListener
<1>1. [P_Next]_P_vars => [PM!Goroutines \/ PM!StopListener(Item)]_(PM!goroutineVars)
  <2> SUFFICES ASSUME P_Next
               PROVE  PM!Goroutines \/ PM!StopListener(Item) \/ UNCHANGED PM!goroutineVars
    BY DEF PM!goroutineVars, Just
  <2>1. CASE UNCHANGED <<lis, recycler>> /\ loop # "ended" /\ loop' # "ended"
    BY <2>1 DEF PM!goroutineVars, Just
  <2>2. CASE UNCHANGED loopVars
    BY <2>2 DEF PM!goroutineVars, Just
  <2>3. CASE EndLoop
    <3>1. CASE lis
      BY <2>3, <3>1 DEF EndLoop, PM!Goroutines, PM!LoopFails, PM!LoopEnds,
           PM!gatewayVars, Just
    <3>2. CASE ~lis
      BY <2>3, <3>2 DEF EndLoop, PM!Goroutines, PM!LoopEndsOnClose, PM!LoopEnds,
           PM!gatewayVars, Just
    <3> QED BY <3>1, <3>2
  <2>4. CASE RecyclerSelects
    BY <2>4 DEF RecyclerSelects, PM!Goroutines, PM!RecyclerSelects, PM!gatewayVars, Just
  <2>5. CASE RecyclerCloses
    BY <2>5 DEF RecyclerCloses, PM!Goroutines, PM!RecyclerCloses, PM!gatewayVars, Just
  <2>6. CASE StopProxy
    BY <2>6 DEF StopProxy, PM!StopListener, PM!Listening, PM!gatewayVars, Just, Item
  <2> QED
    BY <2>1, <2>2, <2>3, <2>4, <2>5, <2>6
       DEF P_Next, Loop, Recycler, AcceptEnds, AcceptFails, AcceptStops, AcceptConn,
           StoreConn, DialFails, DialTo, DoProxy, Copies, Finish, InwardStops, OutwardStops,
           InwardEnds, InwardFails, OutwardEnds, OutwardFails, PeerCloses, PeerResets,
           BackendCloses
<1> QED
  BY <1>1, PTL DEF P_Spec, ImplementsListener
=============================================================================
