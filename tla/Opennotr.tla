------------------------------ MODULE Opennotr ------------------------------
(* A client that connects and connects again (opennotr/client.go, Client.Run),
   composed with the server that serves it (Server): one connection after the
   other, each a Conn of Server, while the server may still be serving an older
   one the end of which it has not noticed.

   Time is in one place: the client waits three seconds between two attempts, and
   the server's multiplexer gives a dead connection up after its keepalive
   timeout; so that at most Retries attempts meet a connection that is dead.  (An
   older connection with a full receive buffer meets more of them; they fail like
   the first ones and are left out.)  *)
EXTENDS Server

CONSTANTS
  Retries,     \* attempts within a keepalive timeout (ten in the code)
  MaxTroubles  \* bound: links that die and dials that fail

ASSUME OpennotrAssumption ==
  /\ IsFiniteSet(Conn) /\ Conn = 1..Cardinality(Conn)
  /\ Retries \in Nat /\ MaxTroubles \in Nat /\ ~HasResolver

VARIABLES
  run,       \* where Run is: "dial" (or asleep before it), "write", "read", "accept",
             \* or "full": in AcceptStream, the receive buffer of its session full
  cur,       \* the connection it uses, or the last one it used
  tries,     \* attempts since all older connections were over
  troubles

clientVars == <<run, cur, tries, troubles>>
O_vars == <<vars, clientVars>>

O_Init == Init /\ run = "dial" /\ cur = 0 /\ tries = 0 /\ troubles = 0
-----------------------------------------------------------------------------
(* The client *)

\* The server has nothing left of older connections, recyclers included.
Reclaimed == (\A c \in Conn : pc[c] \in {"idle", "closed"}) /\ signalled = {}

Dial ==
  /\ run = "dial" /\ (Reclaimed \/ tries < Retries)
  /\ cur + 1 \in Conn /\ Accept(cur + 1)
  /\ cur' = cur + 1
  /\ run' = "write"
  /\ tries' = IF Reclaimed THEN 0 ELSE tries + 1
  /\ UNCHANGED troubles

DialFails ==
  /\ run = "dial" /\ troubles < MaxTroubles
  /\ troubles' = troubles + 1
  /\ UNCHANGED <<vars, run, cur, tries>>

\* A write to a dead connection may succeed.
WriteAuth ==
  /\ run = "write" /\ run' = "read"
  /\ UNCHANGED <<vars, cur, tries, troubles>>

ReadReply ==
  /\ run = "read" /\ link[cur] = "up" /\ pc[cur] \in {"mux", "serve"}
  /\ run' = "accept"
  /\ UNCHANGED <<vars, cur, tries, troubles>>

\* The client's own receive buffer, full of what the service behind it does not
\* take: a tunnelled stream is copied with no deadline (client.go:177-180).
OwnBufferFills ==
  /\ run = "accept" /\ link[cur] = "up"
  /\ run' = "full"
  /\ UNCHANGED <<vars, cur, tries, troubles>>

OwnBufferDrains ==
  /\ run = "full" /\ run' = "accept"
  /\ UNCHANGED <<vars, cur, tries, troubles>>

\* Every error leads to a new attempt: of a write, of the reading of a reply (the
\* server has closed the connection, or it is dead, which TCP's keepalive finds
\* out), of accepting streams (client.go:94), which no error ends while smux does
\* not read and does not give the session up, its buffer being full.
Fails ==
  /\ run \in {"write", "read", "accept"} /\ link[cur] = "down"
  /\ run' = "dial"
  /\ UNCHANGED <<vars, cur, tries, troubles>>

ClientRun == Dial \/ WriteAuth \/ ReadReply \/ Fails
-----------------------------------------------------------------------------
(* The server and the network.  The client's request is well-formed, so that
   only the end of the connection makes the server refuse to read it.        *)

Serves(c) ==
  /\ \/ c = cur /\ run = "read" /\ ReadAuth(c)
     \/ link[c] = "down" /\ AuthFails(c)
     \/ Progress(c)
     \/ KeepaliveExpires(c)
  /\ UNCHANGED clientVars

\* The network, or the client's process, which is started again.
LinkFails(c) ==
  /\ troubles < MaxTroubles
  /\ LinkDies(c)
  /\ troubles' = troubles + 1
  /\ UNCHANGED <<run, cur, tries>>

\* What public peers and the client's service take, and when, is theirs.
Peers ==
  \/ OwnBufferFills \/ OwnBufferDrains
  \/ (\E c \in Conn : BufferFills(c) \/ BufferDrains(c)) /\ UNCHANGED clientVars

\* The goroutines of the plugins' listeners.  Left out is what a client that
\* connects again does not meet: an Accept that fails, requests to the gateway;
\* and crashes of the server, after which nothing is left of older connections.
Selects == (\E i \in spawned : RecyclerSelects(i)) /\ UNCHANGED <<D_vars, serverVars, clientVars>>
Closes == (\E i \in signalled : RecyclerCloses(i)) /\ UNCHANGED <<D_vars, serverVars, clientVars>>
LoopsEnd == (\E i \in accepting : LoopEndsOnClose(i)) /\ UNCHANGED <<D_vars, serverVars, clientVars>>
Listeners == Selects \/ Closes \/ LoopsEnd

O_Next ==
  \/ ClientRun \/ DialFails
  \/ \E c \in Conn : Serves(c) \/ LinkFails(c)
  \/ Peers
  \/ Listeners

\* Both programs' goroutines are scheduled and timers fire, as in Server.
\* Nothing is assumed of the network and of the peers.
O_Spec ==
  /\ O_Init /\ [][O_Next]_O_vars
  /\ WF_O_vars(ClientRun)
  /\ \A c \in Conn : WF_O_vars(Serves(c))
  /\ WF_O_vars(Selects) /\ WF_O_vars(Closes) /\ WF_O_vars(LoopsEnd)
-----------------------------------------------------------------------------
Served == run \in {"accept", "full"} /\ pc[cur] = "serve" /\ link[cur] = "up"

\* A public port nobody will ever free: StopProxy's signal was dropped.
Lost == \E i \in listening \ (routes \cup signalled) : i.From # AnyPort

\* A peer that takes nothing holds a dead session open: the client in AcceptStream
\* for ever (client.go:94), or the server's polling loop, with the old routes.
Stalled ==
  \/ run = "full" /\ link[cur] = "down"
  \/ \E c \in Conn : mux[c] = "full" /\ link[c] = "down"

\* Whenever its connection dies, the client is served again, its own old
\* connection and the routes that one holds notwithstanding, as long as there are
\* addresses, unless the server has lost one of its ports or a full receive buffer
\* at either end keeps the dead session from being given up (client.go:45-106 and
\* 177-180, server.go:168-175, plugin.go:117-119).
ComesBack == []<>(Served \/ Lost \/ Stalled)
=============================================================================
