---------------------------- MODULE ClientRelay -----------------------------
(***************************************************************************)
(* The client's side of a stream (opennotr/client.go): Run accepts it and  *)
(* starts handleStream, which reads the header, dials the local service    *)
(* and copies in both directions with one goroutine each, tcpProxy or      *)
(* udpProxy.  Whichever ends first closes the stream and the socket.       *)
(***************************************************************************)
EXTENDS Smux

VARIABLES
  handler,    \* stream -> where its handleStream is
  toLocal,    \* streams whose goroutine copies to the local service
  fromLocal,  \* streams whose goroutine copies from the local service
  remoteConn  \* streams whose socket to the local service is open

C_vars == <<handler, toLocal, fromLocal, remoteConn>>
copyVars == <<toLocal, fromLocal, remoteConn>>

\* "dropped": handleStream returned without closing the stream.
C_TypeOK ==
  /\ handler \in [Stream -> {"none", "header", "relay", "dropped", "gone"} \cup Header]
  /\ toLocal \in SUBSET Stream
  /\ fromLocal \in SUBSET Stream
  /\ remoteConn \in SUBSET Stream

C_Init ==
  /\ handler = [s \in Stream |-> "none"]
  /\ toLocal = {} /\ fromLocal = {} /\ remoteConn = {}

AcceptStream(s) ==
  /\ Opened(s) /\ <<"client", sess[s]>> \in up
  /\ handler[s] = "none"
  /\ handler' = [handler EXCEPT ![s] = "header"]
  /\ UNCHANGED <<S_vars, copyVars>>

ReadHeader(s) ==
  /\ handler[s] = "header"
  /\ \E protocol \in Header : /\ Read("client", s, protocol)
                              /\ handler' = [handler EXCEPT ![s] = protocol]
  /\ UNCHANGED copyVars

\* What comes first is a datagram: it does not parse and the stream is dropped, or it
\* is JSON and names a protocol, or it names none that there is.
ReadGarbage(s) ==
  /\ handler[s] = "header"
  /\ Read("client", s, "data")
  /\ \E h \in {"dropped"} \cup Header : handler' = [handler EXCEPT ![s] = h]
  /\ UNCHANGED copyVars

HeaderEnds(s) ==
  /\ handler[s] = "header"
  /\ AtEOF("client", s) \/ ~Usable("client", s)
  /\ Close("client", s)
  /\ handler' = [handler EXCEPT ![s] = "gone"]
  /\ UNCHANGED copyVars

Dial(s) ==
  /\ handler[s] \in Header
  /\ handler' = [handler EXCEPT ![s] = "relay"]
  /\ toLocal' = toLocal \cup {s}
  /\ fromLocal' = fromLocal \cup {s}
  /\ remoteConn' = remoteConn \cup {s}
  /\ UNCHANGED S_vars

\* Mutant: the stream is not closed.
DialFails_KeepsStream(s) ==
  /\ handler[s] \in Header
  /\ handler' = [handler EXCEPT ![s] = "gone"]
  /\ UNCHANGED <<S_vars, copyVars>>

\* Dialling tcp, or resolving for udp, fails: the stream is closed.
DialFails(s) ==
  /\ handler[s] \in Header
  /\ Close("client", s)
  /\ handler' = [handler EXCEPT ![s] = "gone"]
  /\ UNCHANGED copyVars

\* Dialling udp fails: it is not.
DialUDPFails(s) ==
  /\ handler[s] = "udp"
  /\ handler' = [handler EXCEPT ![s] = "dropped"]
  /\ UNCHANGED <<S_vars, copyVars>>

CopyToLocal(s) ==
  /\ s \in toLocal
  /\ Read("client", s, "data")
  /\ UNCHANGED C_vars

\* Mutant: the copy to the local service leaves the socket open.
ToLocalEnds_KeepsConn(s) ==
  /\ s \in toLocal
  /\ AtEOF("client", s) \/ ~Usable("client", s)
  /\ toLocal' = toLocal \ {s}
  /\ Close("client", s)
  /\ UNCHANGED <<handler, fromLocal, remoteConn>>

\* The stream ends: its socket is closed with it.
ToLocalEnds(s) ==
  /\ s \in toLocal
  /\ AtEOF("client", s) \/ ~Usable("client", s)
  /\ toLocal' = toLocal \ {s}
  /\ Close("client", s)
  /\ remoteConn' = remoteConn \ {s}
  /\ UNCHANGED <<handler, fromLocal>>

\* The copy has no deadline: it waits until the server's end takes the frame.
CopyFromLocal(s) ==
  /\ s \in fromLocal \cap remoteConn
  /\ Write("client", s, "data")
  /\ UNCHANGED C_vars

FromLocalStops(s) ==
  /\ fromLocal' = fromLocal \ {s}
  /\ Close("client", s)
  /\ remoteConn' = remoteConn \ {s}
  /\ UNCHANGED <<handler, toLocal>>

\* The other copy closed the socket.
FromLocalEnds(s) == s \in fromLocal \ remoteConn /\ FromLocalStops(s)

\* The local service ends the connection, or refuses the datagrams, or its
\* answer meets a stream that is closed.
LocalEnds(s) == s \in fromLocal \cap remoteConn /\ FromLocalStops(s)

\* What a stream's goroutines do by themselves.
HandleStream(s) ==
  \/ AcceptStream(s) \/ ReadHeader(s) \/ ReadGarbage(s) \/ HeaderEnds(s)
  \/ Dial(s) \/ DialFails(s) \/ DialUDPFails(s)
  \/ CopyToLocal(s) \/ ToLocalEnds(s) \/ FromLocalEnds(s)

LocalService(s) == CopyFromLocal(s) \/ LocalEnds(s)
=============================================================================
