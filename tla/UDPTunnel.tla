----------------------------- MODULE UDPTunnel ------------------------------
(***************************************************************************)
(* The udp data path behind a virtual address: UDPForward on the server    *)
(* and ClientRelay on the clients, over Smux.                              *)
(***************************************************************************)
EXTENDS UDPForward, ClientRelay

vars == <<S_vars, F_vars, C_vars>>

Init == S_Init /\ F_Init /\ C_Init

ServerSteps ==
  /\ \/ Serve \/ Environment
     \/ \E s \in Stream : ForwardUDP(s)
     \/ \E f \in Flow : Recycle(f)
  /\ UNCHANGED C_vars

ClientSteps ==
  /\ \E s \in Stream : HandleStream(s) \/ LocalService(s)
  /\ UNCHANGED F_vars

Links ==
  /\ \E side \in Side, x \in Session : EndFails(side, x)
  /\ UNCHANGED <<F_vars, C_vars>>

Next == ServerSteps \/ ClientSteps \/ Links

Spec == Init /\ [][Next]_vars

\* Weak fairness of the goroutines that serve a stream, and of an end of a
\* session that can notice the loss of the other.  A step that waits for what
\* the other end sent last also waits for room in the receive buffer.
\* Nothing is assumed of Serve, the senders, the local services or of time.
Arrived(side, s) == AtEOF(side, s) => Room(side, sess[s])

ForwardStep(s) == Arrived("server", s) /\ ForwardUDP(s) /\ UNCHANGED C_vars
HandleStep(s) == Arrived("client", s) /\ HandleStream(s) /\ UNCHANGED F_vars
NoticeStep(side, x) == EndNotices(side, x) /\ UNCHANGED <<F_vars, C_vars>>

Fairness ==
  /\ \A s \in Stream : WF_vars(ForwardStep(s)) /\ WF_vars(HandleStep(s))
  /\ \A side \in Side, x \in Session : WF_vars(NoticeStep(side, x))

FairSpec == Spec /\ Fairness
-----------------------------------------------------------------------------
(* Properties *)

TypeOK == S_TypeOK /\ F_TypeOK /\ C_TypeOK

\* What is in the map can be answered: the stream stored under a flow was
\* opened for it, and its forwardUDP runs or is about to.  The exception is
\* the header that could not be written: that entry has no reader, and stays
\* for as long as datagrams of the flow refresh it.
EntryServed ==
  \A f \in Flow : LET s == udpSessions[f] IN
    s # NoStream =>
      /\ Opened(s) /\ sessionKey[s] = f
      /\ \/ reader[s] \in {"read", "touch", "delete", "unstarted"}
         \/ reader[s] = "none" /\ pc \in {"header", "go"} /\ stream = s

\* A stream that its own goroutine is closing is in nobody's hands: only
\* Serve, with a datagram in hand, may still write to it, and loses that one.
ClosedForgotten ==
  \A s \in Stream :
    (reader[s] \in {"close", "ended"} \/ <<"server", s>> \in closed)
      => \A f \in Flow : udpSessions[f] # s

\* What Serve has in hand while it opens a stream: nobody else knows it.
InHand ==
  /\ pc \in {"session", "open", "store", "header", "go", "write"} => flow \in Flow
  /\ pc \in {"store", "header", "go", "write"} => stream \in Stream
  /\ pc \in {"store", "header", "go"} =>
       Opened(stream) /\ reader[stream] = "none" /\ sessionKey[stream] = flow

\* Only its forwardUDP closes a stream at the server, and does so last.
ClosedLast ==
  \A s \in Stream :
    /\ <<"server", s>> \in closed <=> reader[s] = "ended"
    /\ reader[s] # "none" => Opened(s) /\ sessionKey[s] \in Flow

\* The inductive invariant.
Inv == TypeOK /\ InHand /\ ClosedLast /\ EntryServed /\ ClosedForgotten

\* The client learns where a stream leads before anything else arrives on
\* it, whatever is lost or late, unless the header itself was: then Serve goes
\* on writing datagrams to the stream it has stored.
HeaderFirst ==
  \A s \in Stream :
    handler[s] \in {"none", "header"} /\ inbox["client"][s] # <<>>
      => Head(inbox["client"][s]) \in Header \/ reader[s] = "unstarted"

\* When the server's end of a session is gone, every forwardUDP of its streams
\* ends and takes its entry along (udpforward.go:202-218), also one that Serve
\* starts later, on a stream it opened a moment before.
DeadSessionForgotten ==
  \A x \in Session :
    <<"server", x>> \notin up ~>
      \A s \in Stream : sess[s] = x =>
        /\ reader[s] \in {"none", "unstarted", "ended"}
        /\ reader[s] = "ended" => \A f \in Flow : udpSessions[f] # s

\* A stream's two copies at the client end together, with the socket, whoever ends
\* the stream (client.go:182-233): no stream stays with a part of them.
HalfEnded(s) ==
  s \notin toLocal \cap fromLocal /\ s \in toLocal \cup fromLocal \cup remoteConn
CopiesEndTogether == []<>(\A s \in Stream : ~HalfEnded(s))

\* The streams of a session share one receive buffer per end (udpforward.go:163,
\* client.go:94).  Whatever fills it is read, also while the copies of other streams
\* wait for room at the other end, until there is room again or nothing is left in it
\* but what came on streams that nobody reads: those of which the client neither
\* reads nor closes its end (client.go:128, 177), and those without a forwardUDP.
Neglected(side, s) ==
  IF side = "server" THEN reader[s] \in {"none", "unstarted"}
                     ELSE handler[s] = "dropped"
BufferDrains ==
  \A side \in Side, x \in Session :
    ~Room(side, x) ~>
      \/ Room(side, x) \/ <<side, x>> \notin up
      \/ \A s \in Stream : sess[s] = x /\ inbox[side][s] # <<>> => Neglected(side, s)
=============================================================================
