----------------------------- MODULE TCPTunnel ------------------------------
(***************************************************************************)
(* The tcp data path behind a virtual address: TCPForward on the server    *)
(* and ClientRelay on the clients, over Smux.  The fronts are external:    *)
(* they close when they like, and when they see the connection closed.     *)
(***************************************************************************)
EXTENDS TCPForward, ClientRelay

vars == <<S_vars, T_vars, C_vars>>

Init == S_Init /\ T_Init /\ C_Init

Sessions ==
  /\ \E x \in Session : AddSession(x) \/ RemoveSession(x)
  /\ UNCHANGED <<front, conn, main, upward, streamOf>>

ClientSteps ==
  /\ \E s \in Stream : HandleStream(s) \/ LocalService(s)
  /\ UNCHANGED T_vars

Links ==
  /\ \E side \in Side, x \in Session : EndFails(side, x)
  /\ UNCHANGED <<T_vars, C_vars>>

ServerSteps ==
  /\ \/ Sessions
     \/ \E c \in Conn : Accept(c) \/ ForwardTCP(c) \/ Traffic(c) \/ FrontCloses(c)
  /\ UNCHANGED C_vars

Next == ServerSteps \/ ClientSteps \/ Links

Spec == Init /\ [][Next]_vars

\* Weak fairness of the goroutines at both ends, and of an end of a session
\* that can notice the loss of the other.  The end of a stream arrives behind
\* everything sent before it, when there is room in the receive buffer: other
\* streams may fill that buffer again and again, and yet its turn comes, hence
\* strong fairness.  Local services are assumed to take what they are sent;
\* nothing else is assumed of them or of the fronts, which need not send, take
\* or close.
Arrived(side, s) == AtEOF(side, s) => Room(side, sess[s])

ForwardStep(c) ==
  /\ main[c] = "copy" => Arrived("server", streamOf[c])
  /\ ForwardTCP(c) /\ UNCHANGED C_vars
UpwardStep(c) == UpwardEnds(c) /\ UNCHANGED C_vars
HandleStep(s) == Arrived("client", s) /\ HandleStream(s) /\ UNCHANGED T_vars
EndStep(s) == AtEOF("client", s) /\ HandleStep(s)
NoticeStep(side, x) == EndNotices(side, x) /\ UNCHANGED <<T_vars, C_vars>>

Fairness ==
  /\ \A c \in Conn : WF_vars(ForwardStep(c)) /\ WF_vars(UpwardStep(c))
  /\ \A s \in Stream : WF_vars(HandleStep(s)) /\ SF_vars(EndStep(s))
  /\ \A side \in Side, x \in Session : WF_vars(NoticeStep(side, x))

FairSpec == Spec /\ Fairness
-----------------------------------------------------------------------------
(* Properties *)

TypeOK == S_TypeOK /\ T_TypeOK /\ C_TypeOK

\* A forwardTCP that has returned has left nothing behind, whatever ended it:
\* no goroutine, no connection, no stream.
NothingLeft ==
  \A c \in Conn : main[c] = "ended" =>
    /\ c \notin conn \cup upward
    /\ streamOf[c] # NoStream => <<"server", streamOf[c]>> \in closed

\* Streams belong to one connection each, and the second goroutine runs only
\* while forwardTCP copies or waits for it.
StreamPerConn ==
  /\ \A c, d \in Conn : streamOf[c] = streamOf[d] /\ streamOf[c] # NoStream => c = d
  /\ \A c \in Conn : /\ main[c] \in {"header", "copy", "wait"} =>
                          streamOf[c] # NoStream /\ Opened(streamOf[c])
                     /\ c \in upward => main[c] \in {"copy", "wait"}
                     /\ main[c] \in {"none", "session", "open"} => streamOf[c] = NoStream
                     /\ streamOf[c] # NoStream => Opened(streamOf[c])

\* The inductive invariant.
Inv == TypeOK /\ StreamPerConn /\ NothingLeft

\* When the front closes, everything up to the local service's socket closes,
\* at the server and at the client.
Ended(c) ==
  /\ main[c] = "ended"
  /\ streamOf[c] \notin toLocal \cup fromLocal \cup remoteConn
FrontCloseEnds ==
  \A c \in Conn : (main[c] = "copy" /\ c \notin front) ~> Ended(c)
=============================================================================
