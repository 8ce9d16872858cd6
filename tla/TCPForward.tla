----------------------------- MODULE TCPForward -----------------------------
(***************************************************************************)
(* The transparent TCP socket of the server (opennotrd/core/tcpforward.go):*)
(* one forwardTCP per connection to a virtual address.  It opens a stream  *)
(* on the session of the address and copies in both directions, from the   *)
(* stream by itself and to the stream with a second goroutine.             *)
(*                                                                         *)
(* The other end of the connection, its `front', is a tcpproxy or the HTTP *)
(* gateway.  What is in the buffers of the kernel is left out: a frame is  *)
(* copied when the front sends, or takes, it.                              *)
(***************************************************************************)
EXTENDS SessionManager

CONSTANTS
  Conn,      \* connections to virtual addresses
  Vip,       \* connection -> the session whose address it is made to
  NoStream

ASSUME ConnAssumption == Vip \in [Conn -> Session] /\ NoStream \notin Stream

VARIABLES
  front,     \* connections whose front has not closed its end
  conn,      \* connections forwardTCP has not closed
  main,      \* connection -> where its forwardTCP is
  upward,    \* connections whose second goroutine runs
  streamOf   \* connection -> its stream

T_vars == <<registered, front, conn, main, upward, streamOf>>

T_TypeOK ==
  /\ registered \in SUBSET Session
  /\ front \in SUBSET Conn
  /\ conn \in SUBSET Conn
  /\ main \in [Conn -> {"none", "session", "open", "header", "copy", "wait", "ended"}]
  /\ upward \in SUBSET Conn
  /\ streamOf \in [Conn -> Stream \cup {NoStream}]

T_Init ==
  /\ registered = {}
  /\ front = {} /\ conn = {} /\ upward = {}
  /\ main = [c \in Conn |-> "none"]
  /\ streamOf = [c \in Conn |-> NoStream]

GoesTo(c, step) == main' = [main EXCEPT ![c] = step]
-----------------------------------------------------------------------------
Accept(c) ==
  /\ main[c] = "none"
  /\ front' = front \cup {c}
  /\ conn' = conn \cup {c}
  /\ GoesTo(c, "session")
  /\ UNCHANGED <<S_vars, registered, upward, streamOf>>

\* The deferred conn.Close, before there is a stream.
Refuse(c) ==
  /\ conn' = conn \ {c}
  /\ GoesTo(c, "ended")
  /\ UNCHANGED <<S_vars, registered, front, upward, streamOf>>

GetSession(c) ==
  /\ main[c] = "session" /\ Vip[c] \in registered
  /\ GoesTo(c, "open")
  /\ UNCHANGED <<S_vars, registered, front, conn, upward, streamOf>>

NoRoute(c) == main[c] = "session" /\ Vip[c] \notin registered /\ Refuse(c)

OpenForConn(c, s) ==
  /\ main[c] = "open"
  /\ OpenStream(s, Vip[c])
  /\ streamOf' = [streamOf EXCEPT ![c] = s]
  /\ GoesTo(c, "header")
  /\ UNCHANGED <<registered, front, conn, upward>>

OpenFails(c) == main[c] = "open" /\ Refuse(c)

\* The deferred calls at the end: stream.Close, conn.Close.
Returns(c) ==
  /\ Close("server", streamOf[c])
  /\ conn' = conn \ {c}
  /\ GoesTo(c, "ended")
  /\ UNCHANGED <<registered, front, upward, streamOf>>

\* The header is written and the second goroutine started.
WriteHeader(c) ==
  /\ main[c] = "header"
  /\ Write("server", streamOf[c], "tcp")
  /\ upward' = upward \cup {c}
  /\ GoesTo(c, "copy")
  /\ UNCHANGED <<registered, front, conn, streamOf>>

\* Mutant: the stream is left open.
HeaderFails_KeepsStream(c) == main[c] = "header" /\ Refuse(c)

\* The stream does not work, or the deadline passes.
HeaderFails(c) == main[c] = "header" /\ Returns(c)

\* The deadline passes, and yet the header was sent.
HeaderLate(c) ==
  /\ main[c] = "header"
  /\ Write("server", streamOf[c], "tcp")
  /\ GoesTo(c, "wait")
  /\ UNCHANGED <<registered, front, conn, upward, streamOf>>

\* The front sends; the copy has no deadline and waits for room.
CopyUp(c) ==
  /\ c \in upward \cap front \cap conn
  /\ Write("server", streamOf[c], "data")
  /\ UNCHANGED T_vars

\* Mutant: the stream is left to the other copy.
UpwardStops_KeepsStream(c) ==
  /\ upward' = upward \ {c}
  /\ conn' = conn \ {c}
  /\ UNCHANGED <<S_vars, registered, front, main, streamOf>>

\* Deferred: conn.Close, stream.Close, wg.Done.
UpwardStops(c) ==
  /\ upward' = upward \ {c}
  /\ Close("server", streamOf[c])
  /\ conn' = conn \ {c}
  /\ UNCHANGED <<registered, front, main, streamOf>>

UpwardEnds(c) == c \in upward /\ c \notin front \cap conn /\ UpwardStops(c)

\* The front sends, and the stream does not take it.
UpwardFails(c) ==
  /\ c \in upward \cap front \cap conn
  /\ ~Usable("server", streamOf[c])
  /\ UpwardStops(c)

\* The front takes a frame.
CopyDown(c) ==
  /\ main[c] = "copy" /\ c \in front \cap conn
  /\ Read("server", streamOf[c], "data")
  /\ UNCHANGED T_vars

\* The front has closed, which is not known here yet: what is written is lost.
DownLost(c) ==
  /\ main[c] = "copy" /\ c \in conn \ front
  /\ Read("server", streamOf[c], "data")
  /\ UNCHANGED T_vars

\* The stream ends, or the connection does not take what it brought.  Then
\* wg.Wait: nothing is closed before the other goroutine has ended.
DownEnds(c) ==
  /\ main[c] = "copy"
  /\ \/ AtEOF("server", streamOf[c])
     \/ ~Usable("server", streamOf[c])
     \/ c \notin front \cap conn /\ inbox["server"][streamOf[c]] # <<>>
  /\ GoesTo(c, "wait")
  /\ UNCHANGED <<S_vars, registered, front, conn, upward, streamOf>>

Waited(c) == main[c] = "wait" /\ c \notin upward /\ Returns(c)

FrontCloses(c) ==
  /\ c \in front
  /\ front' = front \ {c}
  /\ UNCHANGED <<S_vars, registered, conn, main, upward, streamOf>>

\* What forwardTCP does by itself.
ForwardTCP(c) ==
  \/ GetSession(c) \/ NoRoute(c) \/ OpenFails(c) \/ WriteHeader(c) \/ HeaderFails(c)
  \/ HeaderLate(c) \/ (\E s \in Stream : OpenForConn(c, s))
  \/ UpwardEnds(c) \/ DownLost(c) \/ DownEnds(c) \/ Waited(c)

\* What it does when the front sends, or takes, something.
Traffic(c) == CopyUp(c) \/ UpwardFails(c) \/ CopyDown(c)
=============================================================================
