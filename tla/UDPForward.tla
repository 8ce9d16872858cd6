----------------------------- MODULE UDPForward -----------------------------
(***************************************************************************)
(* The transparent UDP socket of the server (opennotrd/core/udpforward.go):*)
(* one goroutine, Serve, reads datagrams for virtual addresses and writes  *)
(* each to the stream of its flow, opening one when there is none; one     *)
(* goroutine per stream, forwardUDP, carries the answers back; and one     *)
(* forgets the flows that were idle.  They share the map udpSessions under *)
(* a lock, which none of them holds from one step to the next.             *)
(*                                                                         *)
(* A flow is (source, virtual address): the map's key.                     *)
(***************************************************************************)
EXTENDS SessionManager

CONSTANTS
  Flow,
  Dip,       \* flow -> the session whose virtual address it is sent to
  NoFlow,
  NoStream

ASSUME FlowAssumption ==
  /\ Dip \in [Flow -> Session]
  /\ NoFlow \notin Flow /\ NoStream \notin Stream

VARIABLES
  udpSessions,  \* flow -> its stream
  idle,         \* flows with an entry whose lastActive is older than the session timeout
  pc,           \* where Serve is
  flow,         \* the flow of the datagram in hand
  stream,       \* the stream in hand
  reader,       \* stream -> where its forwardUDP is
  sessionKey    \* stream -> the flow it was opened for

serveVars == <<pc, flow, stream>>
F_vars == <<registered, udpSessions, idle, serveVars, reader, sessionKey>>

\* "unstarted": the header could not be written and forwardUDP never runs.
ReaderState == {"none", "unstarted", "read", "touch", "delete", "close", "ended"}

F_TypeOK ==
  /\ registered \in SUBSET Session
  /\ udpSessions \in [Flow -> Stream \cup {NoStream}]
  /\ idle \in SUBSET Flow
  /\ pc \in {"read", "session", "open", "store", "header", "go", "write"}
  /\ flow \in Flow \cup {NoFlow}
  /\ stream \in Stream \cup {NoStream}
  /\ reader \in [Stream -> ReaderState]
  /\ sessionKey \in [Stream -> Flow \cup {NoFlow}]

F_Init ==
  /\ registered = {}
  /\ udpSessions = [f \in Flow |-> NoStream]
  /\ idle = {}
  /\ pc = "read" /\ flow = NoFlow /\ stream = NoStream
  /\ reader = [s \in Stream |-> "none"]
  /\ sessionKey = [s \in Stream |-> NoFlow]
-----------------------------------------------------------------------------
(* Serve *)

\* ReadMsgUDP, then the lookup under the lock.
ReadMsgUDP(f) ==
  /\ pc = "read"
  /\ flow' = f
  /\ \/ /\ udpSessions[f] # NoStream
        /\ idle' = idle \ {f}
        /\ stream' = udpSessions[f]
        /\ pc' = "write"
     \/ /\ udpSessions[f] = NoStream
        /\ pc' = "session"
        /\ UNCHANGED <<idle, stream>>
  /\ UNCHANGED <<S_vars, registered, udpSessions, reader, sessionKey>>

NextDatagram == pc' = "read" /\ flow' = NoFlow /\ stream' = NoStream

GetSession ==
  /\ pc = "session"
  /\ IF Dip[flow] \in registered THEN pc' = "open" /\ UNCHANGED <<flow, stream>>
                                 ELSE NextDatagram
  /\ UNCHANGED <<S_vars, registered, udpSessions, idle, reader, sessionKey>>

OpenForFlow(s) ==
  /\ pc = "open"
  /\ OpenStream(s, Dip[flow])
  /\ sessionKey' = [sessionKey EXCEPT ![s] = flow]
  /\ stream' = s
  /\ pc' = "store"
  /\ UNCHANGED <<flow, registered, udpSessions, idle, reader>>

\* The session found a moment ago is closed, or does not take the stream.
OpenFails ==
  /\ pc = "open"
  /\ NextDatagram
  /\ UNCHANGED <<S_vars, registered, udpSessions, idle, reader, sessionKey>>

\* Mutant: no header is written.
StoreSession_NoHeader ==
  /\ pc = "store"
  /\ udpSessions' = [udpSessions EXCEPT ![flow] = stream]
  /\ idle' = idle \ {flow}
  /\ pc' = "go"
  /\ UNCHANGED <<S_vars, registered, flow, stream, reader, sessionKey>>

StoreSession ==
  /\ pc = "store"
  /\ udpSessions' = [udpSessions EXCEPT ![flow] = stream]
  /\ idle' = idle \ {flow}
  /\ pc' = "header"
  /\ UNCHANGED <<S_vars, registered, flow, stream, reader, sessionKey>>

\* Mutant: the goroutine of the stream is not started.
WriteHeader_NoReader ==
  /\ pc = "header"
  /\ Write("server", stream, "udp")
  /\ pc' = "write"
  /\ UNCHANGED <<registered, udpSessions, idle, flow, stream, reader, sessionKey>>

WriteHeader ==
  /\ pc = "header"
  /\ Write("server", stream, "udp")
  /\ pc' = "go"
  /\ UNCHANGED <<registered, udpSessions, idle, flow, stream, reader, sessionKey>>

\* A write that fails: the stream or its session is closed, or the deadline
\* passes, with the frame sent or not.
WriteFails(frame) == UNCHANGED S_vars \/ Write("server", stream, frame)

\* The entry stays in the map, without a forwardUDP.
HeaderFails ==
  /\ pc = "header"
  /\ WriteFails("udp")
  /\ reader' = [reader EXCEPT ![stream] = "unstarted"]
  /\ NextDatagram
  /\ UNCHANGED <<registered, udpSessions, idle, sessionKey>>

StartForward ==
  /\ pc = "go"
  /\ reader' = [reader EXCEPT ![stream] = "read"]
  /\ pc' = "write"
  /\ UNCHANGED <<S_vars, registered, udpSessions, idle, flow, stream, sessionKey>>

\* The datagram is written, or the error is logged.
WriteDatagram ==
  /\ pc = "write"
  /\ Write("server", stream, "data") \/ WriteFails("data")
  /\ NextDatagram
  /\ UNCHANGED <<registered, udpSessions, idle, reader, sessionKey>>

Serve ==
  \/ GetSession \/ OpenFails \/ (\E s \in Stream : OpenForFlow(s))
  \/ StoreSession \/ WriteHeader \/ HeaderFails \/ StartForward \/ WriteDatagram
-----------------------------------------------------------------------------
(* forwardUDP *)

\* An answer is read and sent through the raw socket.
ReadAnswer(s) ==
  /\ reader[s] = "read"
  /\ Read("server", s, "data")
  /\ reader' = [reader EXCEPT ![s] = "touch"]
  /\ UNCHANGED <<registered, udpSessions, idle, serveVars, sessionKey>>

\* lastActive of whatever is stored under the key.
TouchSession(s) ==
  /\ reader[s] = "touch"
  /\ reader' = [reader EXCEPT ![s] = "read"]
  /\ idle' = idle \ {sessionKey[s]}
  /\ UNCHANGED <<S_vars, registered, udpSessions, serveVars, sessionKey>>

StopsReading(s) ==
  /\ reader[s] = "read"
  /\ reader' = [reader EXCEPT ![s] = "delete"]
  /\ UNCHANGED <<S_vars, registered, udpSessions, idle, serveVars, sessionKey>>

ReadEOF(s) == AtEOF("server", s) /\ StopsReading(s)
ReadFails(s) == ~Usable("server", s) /\ StopsReading(s)

\* The rest of an answer misses the read deadline.
BodyLate(s) ==
  /\ reader[s] = "read"
  /\ Read("server", s, "data")
  /\ reader' = [reader EXCEPT ![s] = "delete"]
  /\ UNCHANGED <<registered, udpSessions, idle, serveVars, sessionKey>>

\* Mutant: the goroutine leaves its entry behind.
DeleteSession_Kept(s) ==
  /\ reader[s] = "delete"
  /\ reader' = [reader EXCEPT ![s] = "close"]
  /\ UNCHANGED <<S_vars, registered, udpSessions, idle, serveVars, sessionKey>>

\* The deferred delete, by key: the entry may be a later stream's by now.
DeleteSession(s) ==
  /\ reader[s] = "delete"
  /\ udpSessions' = [udpSessions EXCEPT ![sessionKey[s]] = NoStream]
  /\ idle' = idle \ {sessionKey[s]}
  /\ reader' = [reader EXCEPT ![s] = "close"]
  /\ UNCHANGED <<S_vars, registered, serveVars, sessionKey>>

CloseStream(s) ==
  /\ reader[s] = "close"
  /\ Close("server", s)
  /\ reader' = [reader EXCEPT ![s] = "ended"]
  /\ UNCHANGED <<registered, udpSessions, idle, serveVars, sessionKey>>

ForwardUDP(s) ==
  \/ ReadAnswer(s) \/ TouchSession(s) \/ ReadEOF(s) \/ ReadFails(s) \/ BodyLate(s)
  \/ DeleteSession(s) \/ CloseStream(s)
-----------------------------------------------------------------------------
(* recyeleSession, and what happens around the server *)

BecomesIdle(f) ==
  /\ udpSessions[f] # NoStream /\ f \notin idle
  /\ idle' = idle \cup {f}
  /\ UNCHANGED <<S_vars, registered, udpSessions, serveVars, reader, sessionKey>>

\* The entry is forgotten; its stream and its forwardUDP go on.
Recycle(f) ==
  /\ udpSessions[f] # NoStream /\ f \in idle
  /\ udpSessions' = [udpSessions EXCEPT ![f] = NoStream]
  /\ idle' = idle \ {f}
  /\ UNCHANGED <<S_vars, registered, serveVars, reader, sessionKey>>

Environment ==
  \/ \E f \in Flow : ReadMsgUDP(f) \/ BecomesIdle(f)
  \/ /\ \E x \in Session : AddSession(x) \/ RemoveSession(x)
     /\ UNCHANGED <<udpSessions, idle, serveVars, reader, sessionKey>>
=============================================================================
