------------------------------ MODULE TCPProxy ------------------------------
(***************************************************************************)
(* One tcp proxy after RunProxy (opennotrd/plugin/tcpproxy/tcpproxy.go):   *)
(* the accept loop, its recycler, and a doProxy for each connection with   *)
(* one copying goroutine per direction.                                    *)
(*                                                                         *)
(* The far end of a connection to the backend is external here: it accepts,*)
(* closes, and sends as it likes.  A peer closes both directions at once,  *)
(* and no two connections have the same remote address.                    *)
(***************************************************************************)
EXTENDS Naturals

CONSTANT Conn   \* public connections

VARIABLES
  lis,        \* the listening socket is open
  loop,       \* where the accept loop is
  recycler,   \* the goroutine that waits for the recycle signal
  peer,       \* connections whose public peer has not closed
  reset,      \* connections its kernel has reset, after it closed
  inconn,     \* connections whose public socket is open
  at,         \* connection -> where its goroutine is
  sess,       \* connections in the table
  inward,     \* connections whose copy towards the backend runs
  outward,    \* connections whose copy towards the public peer runs
  front,      \* connections whose backend socket, toconn, is open
  conn        \* connections whose backend has not closed

loopVars == <<lis, loop, recycler>>
ends == <<peer, reset, front, conn>>
P_vars == <<loopVars, inconn, at, sess, inward, outward, ends>>

P_TypeOK ==
  /\ lis \in BOOLEAN
  /\ loop \in {"accept", "exit", "ended"}
  /\ recycler \in {"spawned", "parked", "signalled", "ended"}
  /\ at \in [Conn -> {"none", "accepted", "dial", "copy", "ended"}]
  /\ \A set \in {peer, reset, inconn, sess, inward, outward, front, conn} : set \subseteq Conn

P_Init ==
  /\ lis = TRUE /\ loop = "accept" /\ recycler = "spawned"
  /\ at = [c \in Conn |-> "none"]
  /\ peer = {} /\ reset = {} /\ inconn = {} /\ sess = {}
  /\ inward = {} /\ outward = {}
  /\ front = {} /\ conn = {}

At(c, step) == at' = [at EXCEPT ![c] = step]
-----------------------------------------------------------------------------
(* The accept loop and the recycler *)

AcceptConn(c) ==
  /\ loop = "accept" /\ lis
  /\ at[c] = "none"
  /\ At(c, "accepted")
  /\ peer' = peer \cup {c}
  /\ inconn' = inconn \cup {c}
  /\ UNCHANGED <<loopVars, sess, inward, outward, reset, front, conn>>

AcceptStops ==
  /\ loop = "accept"
  /\ loop' = "exit"
  /\ UNCHANGED <<lis, recycler, inconn, at, sess, inward, outward, ends>>

\* The listener was closed.
AcceptEnds == ~lis /\ AcceptStops

\* Accept fails by itself.
AcceptFails == lis /\ AcceptStops

\* The deferred calls: the sockets in the table are closed, fin is closed
\* (which ends a waiting recycler), the listener is closed.
EndLoop ==
  /\ loop = "exit"
  /\ inconn' = inconn \ sess
  /\ recycler' = IF recycler = "parked" THEN "ended" ELSE recycler
  /\ lis' = FALSE
  /\ loop' = "ended"
  /\ UNCHANGED <<at, sess, inward, outward, ends>>

RecyclerSelects ==
  /\ recycler = "spawned"
  /\ recycler' = IF loop = "ended" THEN "ended" ELSE "parked"
  /\ UNCHANGED <<lis, loop, inconn, at, sess, inward, outward, ends>>

\* Mutant: StopProxy closes the listener itself.
StopProxy_Closes ==
  /\ recycler = "parked"
  /\ recycler' = "signalled"
  /\ lis' = FALSE
  /\ UNCHANGED <<loop, inconn, at, sess, inward, outward, ends>>

\* A non-blocking send: dropped unless the recycler waits.
StopProxy ==
  /\ recycler = "parked"
  /\ recycler' = "signalled"
  /\ UNCHANGED <<lis, loop, inconn, at, sess, inward, outward, ends>>

RecyclerCloses ==
  /\ recycler = "signalled"
  /\ lis' = FALSE
  /\ recycler' = "ended"
  /\ UNCHANGED <<loop, inconn, at, sess, inward, outward, ends>>
-----------------------------------------------------------------------------
(* doProxy *)

\* It may be late: the table may have been emptied by then.
StoreConn(c) ==
  /\ at[c] = "accepted"
  /\ sess' = sess \cup {c}
  /\ At(c, "dial")
  /\ UNCHANGED <<loopVars, inconn, inward, outward, ends>>

\* Mutant: the connection is left open when doProxy returns.
DialFails_KeepsConn(c) ==
  /\ at[c] = "dial"
  /\ sess' = sess \ {c}
  /\ At(c, "ended")
  /\ UNCHANGED <<loopVars, inconn, inward, outward, ends>>

DialFails(c) ==
  /\ at[c] = "dial"
  /\ inconn' = inconn \ {c}
  /\ sess' = sess \ {c}
  /\ At(c, "ended")
  /\ UNCHANGED <<loopVars, inward, outward, ends>>

DialTo(c) ==
  /\ at[c] = "dial"
  /\ front' = front \cup {c}
  /\ conn' = conn \cup {c}
  /\ inward' = inward \cup {c}
  /\ outward' = outward \cup {c}
  /\ At(c, "copy")
  /\ UNCHANGED <<loopVars, inconn, sess, peer, reset>>

\* Whether the public connection can be read, and whether a write to it fails: what
\* is written after the peer closed is taken and lost, until a reset has come back.
Public(c) == c \in peer \cap inconn
Refuses(c) == c \notin inconn \/ c \in reset

InwardStops(c) ==
  /\ inward' = inward \ {c}
  /\ UNCHANGED <<loopVars, inconn, at, sess, outward, ends>>
OutwardStops(c) ==
  /\ outward' = outward \ {c}
  /\ UNCHANGED <<loopVars, inconn, at, sess, inward, ends>>

\* Mutant: the end of the public connection is taken for a pause.
InwardEnds_IgnoresEOF(c) == c \in inward /\ c \notin inconn /\ InwardStops(c)

InwardEnds(c) == c \in inward /\ ~Public(c) /\ InwardStops(c)

\* The peer sends something that the backend does not take.
InwardFails(c) == c \in inward \ conn /\ Public(c) /\ InwardStops(c)

OutwardEnds(c) == c \in outward \ conn /\ OutwardStops(c)

\* Mutant: an error of writing to the peer is not looked at.
OutwardFails_Ignored(c) == c \in outward \cap conn /\ Refuses(c) /\ UNCHANGED P_vars

\* The backend sends something that the peer does not take.
OutwardFails(c) == c \in outward \cap conn /\ Refuses(c) /\ OutwardStops(c)

\* wg.Wait returns; toconn.Close, conn.Close, sess.Delete.
Finish(c) ==
  /\ at[c] = "copy" /\ c \notin inward \cup outward
  /\ front' = front \ {c}
  /\ inconn' = inconn \ {c}
  /\ sess' = sess \ {c}
  /\ At(c, "ended")
  /\ UNCHANGED <<loopVars, inward, outward, peer, reset, conn>>

PeerCloses(c) ==
  /\ c \in peer
  /\ peer' = peer \ {c}
  /\ UNCHANGED <<loopVars, inconn, at, sess, inward, outward, reset, front, conn>>

PeerResets(c) ==
  /\ c \in inconn \ (peer \cup reset)
  /\ reset' = reset \cup {c}
  /\ UNCHANGED <<loopVars, inconn, at, sess, inward, outward, peer, front, conn>>

BackendCloses(c) ==
  /\ c \in conn
  /\ conn' = conn \ {c}
  /\ UNCHANGED <<loopVars, inconn, at, sess, inward, outward, peer, reset, front>>
-----------------------------------------------------------------------------
Loop == AcceptEnds \/ EndLoop
Recycler == RecyclerSelects \/ RecyclerCloses

\* What the goroutines of a connection do by themselves, the dial apart.
Copies(c) == InwardEnds(c) \/ OutwardEnds(c) \/ Finish(c)
DoProxy(c) == StoreConn(c) \/ DialFails(c) \/ Copies(c)

P_Next ==
  \/ Loop \/ AcceptFails \/ Recycler \/ StopProxy
  \/ \E c \in Conn : \/ AcceptConn(c) \/ DoProxy(c) \/ DialTo(c)
                     \/ InwardFails(c) \/ OutwardFails(c)
                     \/ PeerCloses(c) \/ PeerResets(c) \/ BackendCloses(c)

P_Spec == P_Init /\ [][P_Next]_P_vars

\* The Go scheduler runs what can run, and a dial ends one way or the other.
\* Peers, backends and StopProxy need not do anything.
P_FairSpec ==
  /\ P_Spec
  /\ WF_P_vars(Loop) /\ WF_P_vars(Recycler)
  /\ \A c \in Conn : WF_P_vars(DoProxy(c) \/ DialTo(c))
-----------------------------------------------------------------------------
(* Properties *)

\* The sockets of a connection belong to its doProxy: it holds them from the
\* accept, and the dial, until it returns, and is in the table in between.
\* Only the end of the accept loop takes the public socket from it.
SocketsHeld ==
  \A c \in Conn :
    /\ c \in inconn => at[c] \in {"accepted", "dial", "copy"}
    /\ at[c] \in {"accepted", "dial", "copy"} /\ loop # "ended" => c \in inconn
    /\ c \in sess <=> at[c] \in {"dial", "copy"}
    /\ c \in front <=> at[c] = "copy"
    /\ c \in inward \cup outward => at[c] = "copy"

\* The inductive invariant.
P_Inv == P_TypeOK /\ SocketsHeld

\* Once both ends of a connection have closed, both sockets are closed.
BothEndsRelease ==
  \A c \in Conn :
    (at[c] = "copy" /\ c \notin peer /\ c \notin conn) ~> c \notin front \cup inconn

\* The plugin manager's view of this proxy: the sockets and goroutines of
\* PluginManager, for one item.
Item == [conn |-> 0, Protocol |-> "tcp", From |-> 22, To |-> <<0, "22">>, Domain |-> "a"]
Just(p) == IF p THEN {Item} ELSE {}
PM == INSTANCE PluginManager WITH
  Conn <- {0}, DomainName <- {"a"}, Protocol <- {"tcp"}, Port <- {0, 22},
  AnyPort <- 0, LocalPort <- {"22"}, BadLocalPort <- {}, ForeignPorts <- {},
  routes <- {},
  listening <- Just(lis), accepting <- Just(loop # "ended"),
  spawned <- Just(recycler = "spawned"), parked <- Just(recycler = "parked"),
  signalled <- Just(recycler = "signalled"),
  upstream <- {}, posts <- {}, deletes <- {}

\* Every step of the real proxy is one PluginManager allows its listeners.
ImplementsListener == [][PM!Goroutines \/ PM!StopListener(Item)]_(PM!goroutineVars)
=============================================================================
