------------------------------ MODULE MCClient ------------------------------
(* Two instances that share no state, in one run: the client that connects again
   (Opennotr), and one public tcp connection from end to end (TCPRelay), up to
   the client's local service.  A behavior is one of one of them, `part', and
   the other stays in its initial state, where TCPRelay has no step it must take. *)
EXTENDS Opennotr, TLC

CONSTANTS c1, x1, s1, NoSession, NoStream

VARIABLES
  part,
  up, sess, closed, inbox, registered, front, conn, main, upward, streamOf,
  handler, toLocal, fromLocal, remoteConn,
  lis, loop, recycler, peer, reset, inconn, at, table, inward, outward

R == INSTANCE TCPRelay WITH
       Session <- {x1}, Stream <- {s1}, Conn <- {c1}, Vip <- c1 :> x1, Window <- 1


relayVars == <<up, sess, closed, inbox, registered, front, conn, main, upward, streamOf,
               handler, toLocal, fromLocal, remoteConn,
               lis, loop, recycler, peer, reset, inconn, at, table, inward, outward>>
bothVars == <<part, O_vars, relayVars>>

\* Three addresses for clients: what three attempts need.
Vips == {[ip |-> <<1, 0, 0, 3>>, one |-> 5]}

\* A client with two public ports, of which the kernel chooses one.
ClientRequests ==
  {[Domain |-> "a", Forward |->
      <<[Protocol |-> "tcp", Ports |-> {<<0, "8080">>, <<80, "8080">>}]>>]}

BothInit == part \in {"client", "relay"} /\ O_Init /\ R!R_Init

BothNext ==
  \/ part = "client" /\ O_Next /\ UNCHANGED <<part, relayVars>>
  \/ part = "relay" /\ R!R_Next /\ UNCHANGED <<part, O_vars>>

Fair(A) == part = "client" /\ A /\ UNCHANGED <<part, relayVars>>

BothSpec ==
  /\ BothInit /\ [][BothNext]_bothVars
  /\ WF_bothVars(Fair(ClientRun))
  /\ \A c \in Conn : WF_bothVars(Fair(Serves(c)))
  /\ WF_bothVars(Fair(Selects)) /\ WF_bothVars(Fair(Closes)) /\ WF_bothVars(Fair(LoopsEnd))
  /\ R!R_Fairness
-----------------------------------------------------------------------------
\* The client is served again (client.go:45-106).
ClientComesBack == part = "client" => ComesBack

\* An answer takes a relay whose public peer is gone and has reset the connection
\* down, up to the local service (tcpproxy.go:98-113, tcpforward.go:115-132).
AnswerEnds == R!AnswerEnds
=============================================================================
