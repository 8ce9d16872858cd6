------------------------------ MODULE UDPProxy ------------------------------
(***************************************************************************)
(* One udp proxy after RunProxy (opennotrd/plugin/udpproxy/udpproxy.go):   *)
(* the read loop doProxy, its recycler, the expiry goroutine and one       *)
(* udpCopy per backend socket.  They share the listening socket and two    *)
(* sync.Maps, whose calls are atomic one by one and not together.          *)
(*                                                                         *)
(* A socket that nothing refers to any more is a new one when it is        *)
(* dialled again.                                                          *)
(***************************************************************************)
EXTENDS Naturals

CONSTANTS
  Client,    \* addresses that send to the proxy
  Socket,    \* backend sockets
  NoSocket,
  NoClient

ASSUME SocketAssumption == NoSocket \notin Socket /\ NoClient \notin Client

VARIABLES
  listening,       \* lis is open
  pc,              \* where the read loop is
  raddr,           \* sender of the datagram in hand
  backendConn,     \* the socket in hand: just dialled, or loaded from sess
  sess,            \* sender -> its backend socket
  sessionTimeout,  \* sender -> how long ago it was active
  judged,          \* the sender the expiry goroutine is about to delete
  open,            \* backend sockets that are open
  toaddr,          \* backend socket -> the sender its udpCopy answers
  copying,         \* backend sockets whose udpCopy runs
  recycler,        \* the goroutine that waits for the recycle signal
  forgotten        \* history: open sockets that expiry took out of sess while the loop ran

loopVars == <<pc, raddr, backendConn>>
socketVars == <<open, toaddr, copying, forgotten>>
U_vars == <<listening, loopVars, sess, sessionTimeout, judged, socketVars, recycler>>

U_TypeOK ==
  /\ listening \in BOOLEAN
  /\ pc \in {"read", "dial", "store", "stamp", "load", "write", "exit", "ended"}
  /\ raddr \in Client \cup {NoClient}
  /\ backendConn \in Socket \cup {NoSocket}
  /\ sess \in [Client -> Socket \cup {NoSocket}]
  /\ sessionTimeout \in [Client -> {"never", "recent", "old"}]
  /\ judged \in Client \cup {NoClient}
  /\ open \in SUBSET Socket
  /\ toaddr \in [Socket -> Client \cup {NoClient}]
  /\ copying \in SUBSET Socket
  /\ recycler \in {"spawned", "parked", "signalled", "ended"}
  /\ forgotten \in SUBSET Socket

U_Init ==
  /\ listening = TRUE
  /\ pc = "read" /\ raddr = NoClient /\ backendConn = NoSocket
  /\ sess = [c \in Client |-> NoSocket]
  /\ sessionTimeout = [c \in Client |-> "never"]
  /\ judged = NoClient
  /\ open = {} /\ copying = {}
  /\ toaddr = [s \in Socket |-> NoClient]
  /\ recycler = "spawned"
  /\ forgotten = {}

InTable(s) == \E c \in Client : sess[c] = s
Unreferenced(s) == s \notin open \cup copying \cup {backendConn} /\ ~InTable(s)
-----------------------------------------------------------------------------
(* doProxy: the read loop *)

\* ReadFromUDP and the first Load.
ReadFromUDP(c) ==
  /\ pc = "read" /\ listening
  /\ raddr' = c
  /\ pc' = IF sess[c] = NoSocket THEN "dial" ELSE "load"
  /\ UNCHANGED <<listening, backendConn, sess, sessionTimeout, judged, socketVars, recycler>>

ReadFails ==
  /\ pc = "read" /\ ~listening
  /\ pc' = "exit"
  /\ UNCHANGED <<listening, raddr, backendConn, sess, sessionTimeout, judged, socketVars, recycler>>

DialUDP(s) ==
  /\ pc = "dial"
  /\ Unreferenced(s)
  /\ backendConn' = s
  /\ open' = open \cup {s}
  /\ toaddr' = [toaddr EXCEPT ![s] = raddr]
  /\ forgotten' = forgotten \ {s}
  /\ pc' = "store"
  /\ UNCHANGED <<listening, raddr, sess, sessionTimeout, judged, copying, recycler>>

\* The backend cannot be resolved or dialled: the whole proxy ends.
DialFails ==
  /\ pc = "dial"
  /\ pc' = "exit"
  /\ UNCHANGED <<listening, raddr, backendConn, sess, sessionTimeout, judged, socketVars, recycler>>

\* Mutant: the table is keyed by the sender's IP address, shared by all.
StoreSession_ByHost ==
  /\ pc = "store"
  /\ sess' = [c \in Client |-> backendConn]
  /\ pc' = "stamp"
  /\ UNCHANGED <<listening, raddr, backendConn, sessionTimeout, judged, socketVars, recycler>>

StoreSession ==
  /\ pc = "store"
  /\ sess' = [sess EXCEPT ![raddr] = backendConn]
  /\ pc' = "stamp"
  /\ UNCHANGED <<listening, raddr, backendConn, sessionTimeout, judged, socketVars, recycler>>

\* sessionTimeout.Store and the start of udpCopy.
StampSession ==
  /\ pc = "stamp"
  /\ sessionTimeout' = [sessionTimeout EXCEPT ![raddr] = "recent"]
  /\ copying' = copying \cup {backendConn}
  /\ backendConn' = NoSocket
  /\ pc' = "load"
  /\ UNCHANGED <<listening, raddr, sess, judged, open, toaddr, recycler, forgotten>>

\* The second Load misses: the datagram is dropped.
LoadMisses ==
  /\ pc = "load" /\ sess[raddr] = NoSocket
  /\ pc' = "read" /\ raddr' = NoClient
  /\ UNCHANGED <<listening, backendConn, sess, sessionTimeout, judged, socketVars, recycler>>

LoadSession ==
  /\ pc = "load" /\ sess[raddr] # NoSocket
  /\ backendConn' = sess[raddr]
  /\ sessionTimeout' = [sessionTimeout EXCEPT ![raddr] = "recent"]
  /\ pc' = "write"
  /\ UNCHANGED <<listening, raddr, sess, judged, socketVars, recycler>>

\* An error of Write (the socket may be closed) is not looked at.
WriteBackend ==
  /\ pc = "write"
  /\ pc' = "read" /\ raddr' = NoClient /\ backendConn' = NoSocket
  /\ UNCHANGED <<listening, sess, sessionTimeout, judged, socketVars, recycler>>

\* Mutant: the backend sockets are not closed on the way out.
EndLoop_KeepsSockets ==
  /\ pc = "exit"
  /\ listening' = FALSE
  /\ recycler' = IF recycler = "parked" THEN "ended" ELSE recycler
  /\ pc' = "ended"
  /\ UNCHANGED <<raddr, backendConn, sess, sessionTimeout, judged, socketVars>>

\* The deferred calls: every socket in the table is closed, ctx is cancelled
\* (which ends a waiting recycler), lis is closed.
EndLoop ==
  /\ pc = "exit"
  /\ open' = {s \in open : ~InTable(s)}
  /\ recycler' = IF recycler = "parked" THEN "ended" ELSE recycler
  /\ listening' = FALSE
  /\ pc' = "ended"
  /\ UNCHANGED <<raddr, backendConn, sess, sessionTimeout, judged, toaddr, copying, forgotten>>
-----------------------------------------------------------------------------
(* The other goroutines *)

\* Time passes.
Ages(c) ==
  /\ sessionTimeout[c] = "recent"
  /\ sessionTimeout' = [sessionTimeout EXCEPT ![c] = "old"]
  /\ UNCHANGED <<listening, loopVars, sess, judged, socketVars, recycler>>

\* The expiry goroutine, which nothing ever ends: Range reads a time, and a
\* step later the session is deleted.  Its socket stays open.
Judge(c) ==
  /\ judged = NoClient
  /\ sessionTimeout[c] = "old"
  /\ judged' = c
  /\ UNCHANGED <<listening, loopVars, sess, sessionTimeout, socketVars, recycler>>

Expire ==
  /\ judged # NoClient
  /\ sess' = [sess EXCEPT ![judged] = NoSocket]
  /\ judged' = NoClient
  /\ forgotten' = forgotten \cup {s \in open : s = sess[judged] /\ pc # "ended"}
  /\ UNCHANGED <<listening, loopVars, sessionTimeout, open, toaddr, copying,
                 recycler>>

\* Mutant: udpCopy returns without closing its socket.
CopyStops_KeepsSocket(s) ==
  /\ copying' = copying \ {s}
  /\ UNCHANGED <<listening, loopVars, sess, sessionTimeout, judged, open, toaddr, recycler, forgotten>>

CopyStops(s) ==
  /\ copying' = copying \ {s}
  /\ open' = open \ {s}
  /\ UNCHANGED <<listening, loopVars, sess, sessionTimeout, judged, toaddr, recycler, forgotten>>

\* udpCopy reads from a socket that was closed under it.
CopyEnds(s) == s \in copying \ open /\ CopyStops(s)

\* The backend refuses, or it answers and the sender cannot be written to.
CopyFails(s) == s \in copying \cap open /\ CopyStops(s)

RecyclerSelects ==
  /\ recycler = "spawned"
  /\ recycler' = IF pc = "ended" THEN "ended" ELSE "parked"
  /\ UNCHANGED <<listening, loopVars, sess, sessionTimeout, judged, socketVars>>

\* Mutant: StopProxy closes the socket itself.
StopProxy_Closes ==
  /\ recycler = "parked"
  /\ recycler' = "signalled"
  /\ listening' = FALSE
  /\ UNCHANGED <<loopVars, sess, sessionTimeout, judged, socketVars>>

\* A non-blocking send: dropped unless the recycler waits.
StopProxy ==
  /\ recycler = "parked"
  /\ recycler' = "signalled"
  /\ UNCHANGED <<listening, loopVars, sess, sessionTimeout, judged, socketVars>>

RecyclerCloses ==
  /\ recycler = "signalled"
  /\ listening' = FALSE
  /\ recycler' = "ended"
  /\ UNCHANGED <<loopVars, sess, sessionTimeout, judged, socketVars>>
-----------------------------------------------------------------------------
Loop ==
  \/ ReadFails \/ DialFails \/ (\E s \in Socket : DialUDP(s))
  \/ StoreSession \/ StampSession \/ LoadMisses \/ LoadSession
  \/ WriteBackend \/ EndLoop

Recycler == RecyclerSelects \/ RecyclerCloses

U_Next ==
  \/ Loop \/ Recycler \/ StopProxy \/ Expire
  \/ \E c \in Client : ReadFromUDP(c) \/ Ages(c) \/ Judge(c)
  \/ \E s \in Socket : CopyEnds(s) \/ CopyFails(s)

U_Spec == U_Init /\ [][U_Next]_U_vars

\* The Go scheduler runs what can run.  Nothing is assumed of time (so a session
\* need not expire), of senders and backends, nor of StopProxy.
U_FairSpec ==
  /\ U_Spec
  /\ WF_U_vars(Loop) /\ WF_U_vars(Recycler)
  /\ \A s \in Socket : WF_U_vars(CopyEnds(s))
-----------------------------------------------------------------------------
(* Properties *)

\* A datagram is written only to a backend socket whose answers go back to
\* its sender, however sessions expire and are opened again between the two
\* loads: no sender receives another one's answers.
OwnSocket ==
  /\ \A c \in Client : sess[c] # NoSocket => toaddr[sess[c]] = c
  /\ backendConn # NoSocket => toaddr[backendConn] = raddr

\* Only udpCopy closes a socket for good, so every open socket has one, but
\* for the socket the loop has just dialled.
NoSocketLost ==
  \A s \in open : s \in copying \/ (pc \in {"store", "stamp"} /\ backendConn = s)

\* The loop has a datagram in hand exactly while it works on one.
InHand ==
  /\ pc \in {"store", "stamp", "write"} <=> backendConn # NoSocket
  /\ pc \in {"dial", "store", "stamp", "load", "write"} => raddr # NoClient

\* The inductive invariant.
U_Inv == U_TypeOK /\ InHand /\ OwnSocket /\ NoSocketLost

\* Once the public socket is closed, by the recycler or by the loop, the loop
\* ends and so does every udpCopy, whatever the goroutines do meanwhile and although
\* nothing expires any more, but for those of sessions that had expired before: the
\* loop closes the sockets it finds in the table (udpproxy.go:104-113).
WindsDown == ~listening ~> pc = "ended" /\ copying \subseteq forgotten

\* The plugin manager's view of this proxy: the sockets and goroutines of
\* PluginManager, for one item.
Item == [conn |-> 0, Protocol |-> "udp", From |-> 53, To |-> <<0, "53">>, Domain |-> "a"]
Just(p) == IF p THEN {Item} ELSE {}
PM == INSTANCE PluginManager WITH
  Conn <- {0}, DomainName <- {"a"}, Protocol <- {"udp"}, Port <- {0, 53},
  AnyPort <- 0, LocalPort <- {"53"}, BadLocalPort <- {}, ForeignPorts <- {},
  routes <- {},
  listening <- Just(listening), accepting <- Just(pc # "ended"),
  spawned <- Just(recycler = "spawned"), parked <- Just(recycler = "parked"),
  signalled <- Just(recycler = "signalled"),
  upstream <- {}, posts <- {}, deletes <- {}

\* Every step of the real proxy is one PluginManager allows its listeners:
\* the sockets and goroutines it abstracts behave as it assumes.
ImplementsListener == [][PM!Goroutines \/ PM!StopListener(Item)]_(PM!goroutineVars)

\* Claimed at udpproxy.go:82-84: closing the listener ends the loop, closes
\* all sockets and ends every udpCopy.
CopiesEnd == ~listening ~> copying = {}
=============================================================================
