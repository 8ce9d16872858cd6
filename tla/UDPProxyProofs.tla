--------------------------- MODULE UDPProxyProofs ---------------------------
(***************************************************************************)
(* Proofs about UDPProxy, for every set of senders and of sockets.         *)
(***************************************************************************)
EXTENDS UDPProxy, TLAPS

USE DEF loopVars, socketVars

\* The initial state satisfies the inductive invariant.
LEMMA U_InitInv == U_Init => U_Inv
BY SocketAssumption DEF U_Init, U_Inv, U_TypeOK, InHand, OwnSocket, NoSocketLost

\* Types, for every step.
LEMMA U_StepType == U_Inv /\ [U_Next]_U_vars => U_TypeOK'
<1> SUFFICES ASSUME U_Inv, [U_Next]_U_vars PROVE U_TypeOK'
  OBVIOUS
<1> USE DEF U_Inv, U_TypeOK, InHand
<1>1. CASE ReadFails \/ DialFails \/ LoadMisses \/ WriteBackend \/ EndLoop
  BY <1>1 DEF ReadFails, DialFails, LoadMisses, WriteBackend, EndLoop
<1>2. ASSUME NEW s \in Socket, DialUDP(s) PROVE U_TypeOK'
  BY <1>2 DEF DialUDP
<1>3. CASE StoreSession \/ StampSession \/ LoadSession
  BY <1>3 DEF StoreSession, StampSession, LoadSession
<1>4. CASE Recycler \/ StopProxy
  BY <1>4 DEF Recycler, RecyclerSelects, RecyclerCloses, StopProxy
<1>5. CASE Expire
  BY <1>5 DEF Expire
<1>6. ASSUME NEW c \in Client, ReadFromUDP(c) \/ Ages(c) \/ Judge(c) PROVE U_TypeOK'
  BY <1>6 DEF ReadFromUDP, Ages, Judge
<1>7. ASSUME NEW s \in Socket, CopyEnds(s) \/ CopyFails(s) PROVE U_TypeOK'
  BY <1>7 DEF CopyEnds, CopyFails, CopyStops
<1>8. CASE UNCHANGED U_vars
  BY <1>8 DEF U_vars
<1> QED
  BY <1>1, <1>2, <1>3, <1>4, <1>5, <1>6, <1>7, <1>8 DEF U_Next, Loop

\* The loop holds a datagram exactly where it works on one.
LEMMA U_StepInHand == U_Inv /\ [U_Next]_U_vars => InHand'
<1> SUFFICES ASSUME U_Inv, [U_Next]_U_vars PROVE InHand'
  OBVIOUS
<1> USE SocketAssumption DEF U_Inv, U_TypeOK, InHand
<1>1. CASE ReadFails \/ DialFails \/ LoadMisses \/ WriteBackend \/ EndLoop
  BY <1>1 DEF ReadFails, DialFails, LoadMisses, WriteBackend, EndLoop
<1>2. ASSUME NEW s \in Socket, DialUDP(s) PROVE InHand'
  BY <1>2 DEF DialUDP
<1>3. CASE StoreSession \/ StampSession \/ LoadSession
  BY <1>3 DEF StoreSession, StampSession, LoadSession
<1>4. CASE Recycler \/ StopProxy \/ Expire
  BY <1>4 DEF Recycler, RecyclerSelects, RecyclerCloses, StopProxy, Expire
<1>5. ASSUME NEW c \in Client, ReadFromUDP(c) \/ Ages(c) \/ Judge(c) PROVE InHand'
  BY <1>5 DEF ReadFromUDP, Ages, Judge
<1>6. ASSUME NEW s \in Socket, CopyEnds(s) \/ CopyFails(s) PROVE InHand'
  BY <1>6 DEF CopyEnds, CopyFails, CopyStops
<1>7. CASE UNCHANGED U_vars
  BY <1>7 DEF U_vars
<1> QED
  BY <1>1, <1>2, <1>3, <1>4, <1>5, <1>6, <1>7 DEF U_Next, Loop

\* Only three steps disturb who owns which socket: a dial gives a socket that
\* no entry refers to a new owner, a store enters it under its owner, and a
\* load takes it from there.
LEMMA U_StepOwnSocket == U_Inv /\ [U_Next]_U_vars => OwnSocket'
<1> SUFFICES ASSUME U_Inv, [U_Next]_U_vars PROVE OwnSocket'
  OBVIOUS
<1> USE SocketAssumption DEF U_Inv, U_TypeOK, InHand, OwnSocket
<1>1. CASE ReadFails \/ DialFails \/ LoadMisses \/ WriteBackend \/ EndLoop
  BY <1>1 DEF ReadFails, DialFails, LoadMisses, WriteBackend, EndLoop
<1>2. ASSUME NEW s \in Socket, DialUDP(s) PROVE OwnSocket'
  <2>1. \A c \in Client : sess[c] # s
    BY <1>2 DEF DialUDP, Unreferenced, InTable
  <2> QED
    BY <1>2, <2>1 DEF DialUDP
<1>3. CASE StoreSession
  BY <1>3 DEF StoreSession
<1>4. CASE StampSession \/ LoadSession
  BY <1>4 DEF StampSession, LoadSession
<1>5. CASE Recycler \/ StopProxy
  BY <1>5 DEF Recycler, RecyclerSelects, RecyclerCloses, StopProxy
<1>6. CASE Expire
  BY <1>6 DEF Expire
<1>7. ASSUME NEW c \in Client, ReadFromUDP(c) \/ Ages(c) \/ Judge(c) PROVE OwnSocket'
  BY <1>7 DEF ReadFromUDP, Ages, Judge
<1>8. ASSUME NEW s \in Socket, CopyEnds(s) \/ CopyFails(s) PROVE OwnSocket'
  BY <1>8 DEF CopyEnds, CopyFails, CopyStops
<1>9. CASE UNCHANGED U_vars
  BY <1>9 DEF U_vars
<1> QED
  BY <1>1, <1>2, <1>3, <1>4, <1>5, <1>6, <1>7, <1>8, <1>9 DEF U_Next, Loop

\* A socket is opened while it is in hand, handed to its udpCopy before it
\* leaves the hand, and closed by whatever ends that udpCopy.
LEMMA U_StepNoSocketLost == U_Inv /\ [U_Next]_U_vars => NoSocketLost'
<1> SUFFICES ASSUME U_Inv, [U_Next]_U_vars PROVE NoSocketLost'
  OBVIOUS
<1> USE SocketAssumption DEF U_Inv, U_TypeOK, InHand, NoSocketLost
<1>1. CASE ReadFails \/ DialFails \/ LoadMisses \/ WriteBackend \/ EndLoop
  BY <1>1 DEF ReadFails, DialFails, LoadMisses, WriteBackend, EndLoop
<1>2. ASSUME NEW s \in Socket, DialUDP(s) PROVE NoSocketLost'
  BY <1>2 DEF DialUDP
<1>3. CASE StoreSession \/ StampSession \/ LoadSession
  BY <1>3 DEF StoreSession, StampSession, LoadSession
<1>4. CASE Recycler \/ StopProxy \/ Expire
  BY <1>4 DEF Recycler, RecyclerSelects, RecyclerCloses, StopProxy, Expire
<1>5. ASSUME NEW c \in Client, ReadFromUDP(c) \/ Ages(c) \/ Judge(c) PROVE NoSocketLost'
  BY <1>5 DEF ReadFromUDP, Ages, Judge
<1>6. ASSUME NEW s \in Socket, CopyEnds(s) \/ CopyFails(s) PROVE NoSocketLost'
  BY <1>6 DEF CopyEnds, CopyFails, CopyStops
<1>7. CASE UNCHANGED U_vars
  BY <1>7 DEF U_vars
<1> QED
  BY <1>1, <1>2, <1>3, <1>4, <1>5, <1>6, <1>7 DEF U_Next, Loop

\* The inductive invariant holds in every reachable state.
THEOREM UDPProxyInvariant == U_Spec => []U_Inv
<1>1. U_Inv /\ [U_Next]_U_vars => U_Inv'
  BY U_StepType, U_StepInHand, U_StepOwnSocket, U_StepNoSocketLost DEF U_Inv
<1> QED
  BY U_InitInv, <1>1, PTL DEF U_Spec

\* The read loop writes to sockets that answer its sender only, and every
\* open socket has a goroutine that will close it.
THEOREM OwnSockets == U_Spec => [](OwnSocket /\ NoSocketLost)
<1>1. U_Inv => OwnSocket /\ NoSocketLost
  BY DEF U_Inv
<1> QED
  BY UDPProxyInvariant, <1>1, PTL

\* Every step of a udp proxy is one the plugin manager's model allows its
\* listeners.
THEOREM ListenerImplemented == U_Spec => ImplementsListener
<1>1. [U_Next]_U_vars => [PM!Goroutines \/ PM!StopListener(Item)]_(PM!goroutineVars)
  <2> SUFFICES ASSUME U_Next
               PROVE  PM!Goroutines \/ PM!StopListener(Item) \/ UNCHANGED PM!goroutineVars
    BY DEF U_vars, PM!goroutineVars, Just
  <2>1. CASE pc' = pc /\ UNCHANGED <<listening, recycler>>
    BY <2>1 DEF PM!goroutineVars, Just
  <2>2. CASE UNCHANGED <<listening, recycler>> /\ pc # "ended" /\ pc' # "ended"
    BY <2>2 DEF PM!goroutineVars, Just
  <2>3. CASE EndLoop
    <3>1. CASE listening
      BY <2>3, <3>1 DEF EndLoop, PM!Goroutines, PM!LoopFails, PM!LoopEnds,
           PM!gatewayVars, Just
    <3>2. CASE ~listening
      BY <2>3, <3>2 DEF EndLoop, PM!Goroutines, PM!LoopEndsOnClose, PM!LoopEnds,
           PM!gatewayVars, Just
    <3> QED BY <3>1, <3>2
  <2>4. CASE RecyclerSelects
    BY <2>4 DEF RecyclerSelects, PM!Goroutines, PM!RecyclerSelects, PM!gatewayVars, Just
  <2>5. CASE RecyclerCloses
    BY <2>5 DEF RecyclerCloses, PM!Goroutines, PM!RecyclerCloses, PM!gatewayVars, Just
  <2>6. CASE StopProxy
    BY <2>6 DEF StopProxy, PM!StopListener, PM!Listening, PM!gatewayVars, Just, Item
  <2> QED
    BY <2>1, <2>2, <2>3, <2>4, <2>5, <2>6 DEF U_Next, Loop, Recycler, ReadFails,
       DialFails, DialUDP, StoreSession, StampSession, LoadMisses, LoadSession,
       WriteBackend, Expire, ReadFromUDP, Ages, Judge, CopyEnds, CopyFails, CopyStops
<1> QED
  BY <1>1, PTL DEF U_Spec, ImplementsListener
=============================================================================
