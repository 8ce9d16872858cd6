-------------------------- MODULE UDPTunnelProofs ---------------------------
(***************************************************************************)
(* Proofs about UDPTunnel, for every set of sessions, streams and flows,   *)
(* every window, and with or without writes that miss their deadline.      *)
(***************************************************************************)
EXTENDS UDPTunnel, ClientRelayProofs, SequenceTheorems

\* The invariant without the client's part of the types.
ServerInv ==
  /\ S_TypeOK /\ F_TypeOK
  /\ InHand /\ ClosedLast /\ EntryServed /\ ClosedForgotten

USE DEF S_vars, F_vars, C_vars, serveVars, copyVars

\* The initial state satisfies the invariant.
LEMMA InitInv == Init => Inv
<1> SUFFICES ASSUME Init PROVE Inv
  OBVIOUS
<1>1. S_TypeOK
  <2>1. [s \in Stream |-> <<>>] \in [Stream -> Seq(Frame)]
    OBVIOUS
  <2> QED
    BY <2>1 DEF Init, S_Init, S_TypeOK
<1>2. F_TypeOK /\ C_TypeOK
  BY DEF Init, F_Init, C_Init, F_TypeOK, C_TypeOK, ReaderState
<1>3. InHand /\ ClosedLast /\ ClosedForgotten /\ EntryServed
  BY FlowAssumption DEF Init, S_Init, F_Init, InHand, ClosedLast, EntryServed, ClosedForgotten
<1> QED
  BY <1>1, <1>2, <1>3 DEF Inv, TypeOK
-----------------------------------------------------------------------------
\* Nothing but its own forwardUDP closes the server's end of a stream.
LEMMA Undisturbed ==
  ASSUME ServerInv, S_TypeOK', UNCHANGED <<F_vars, sess>>,
         \A s \in Stream : <<"server", s>> \in closed' <=> <<"server", s>> \in closed
  PROVE  ServerInv'
BY DEF ServerInv, F_TypeOK, InHand, ClosedLast, EntryServed, ClosedForgotten, Opened
-----------------------------------------------------------------------------
(* Steps of the server *)

\* Steps of Serve.
LEMMA ServeInv == ServerInv /\ Serve => ServerInv'
<1> SUFFICES ASSUME ServerInv, Serve PROVE ServerInv'
  OBVIOUS
<1> USE SmuxAssumption, FlowAssumption
    DEF ServerInv, F_TypeOK, InHand, ClosedLast, EntryServed, ClosedForgotten,
        ReaderState, Opened, NextDatagram
<1>0. "server" \in Side /\ "udp" \in Frame /\ "data" \in Frame
  BY DEF Side, Frame, Header
<1>1. CASE GetSession
  BY <1>1 DEF GetSession, S_TypeOK
<1>2. CASE OpenFails
  BY <1>2 DEF OpenFails, S_TypeOK
<1>3. ASSUME NEW s \in Stream, OpenForFlow(s) PROVE ServerInv'
  <2>1. Dip[flow] \in Session
    BY <1>3 DEF OpenForFlow
  <2>2. S_TypeOK' /\ UNCHANGED closed
    BY <1>3, <2>1 DEF OpenForFlow, OpenStream, S_TypeOK
  <2>3. sess[s] = NoSession /\ sess' = [sess EXCEPT ![s] = Dip[flow]]
    BY <1>3 DEF OpenForFlow, OpenStream
  <2>4. reader[s] = "none" /\ \A f \in Flow : udpSessions[f] # s
    <3>1. reader[s] = "none"
      BY <2>3
    <3>2. ASSUME NEW f \in Flow, udpSessions[f] = s PROVE FALSE
      <4>1. s # NoStream
        OBVIOUS
      <4>2. Opened(s)
        BY <3>2, <4>1
      <4> QED BY <2>3, <4>2
    <3> QED BY <3>1, <3>2
  <2> QED
    BY <1>3, <2>1, <2>2, <2>3, <2>4 DEF OpenForFlow, S_TypeOK
<1>4. CASE StoreSession
  <2>1. S_TypeOK' /\ F_TypeOK' /\ InHand' /\ ClosedLast'
    BY <1>4 DEF StoreSession, S_TypeOK
  <2>2. UNCHANGED <<sess, closed, reader, sessionKey>> /\ pc' = "header" /\ stream' = stream
    BY <1>4 DEF StoreSession
  <2>3. ASSUME NEW f \in Flow, udpSessions'[f] # NoStream
        PROVE  udpSessions'[f] = udpSessions[f] \/ (f = flow /\ udpSessions'[f] = stream)
    BY <1>4, <2>3 DEF StoreSession
  <2>4. pc = "store"
    BY <1>4 DEF StoreSession
  <2>5. EntryServed'
    BY <2>2, <2>3, <2>4
  <2>6. ClosedForgotten'
    BY <2>2, <2>3, <2>4
  <2> QED BY <2>1, <2>5, <2>6
<1>5. CASE WriteHeader
  <2>1. S_TypeOK' /\ UNCHANGED <<sess, closed>>
    BY <1>0, <1>5, WriteStep DEF WriteHeader
  <2> QED
    BY <1>5, <2>1 DEF WriteHeader
<1>6. CASE HeaderFails
  <2>1. S_TypeOK' /\ UNCHANGED <<sess, closed>>
    BY <1>0, <1>6, WriteStep DEF HeaderFails, WriteFails, S_TypeOK
  <2> QED
    BY <1>6, <2>1 DEF HeaderFails
<1>7. CASE StartForward
  BY <1>7 DEF StartForward, S_TypeOK
<1>8. CASE WriteDatagram
  <2>1. S_TypeOK' /\ UNCHANGED <<sess, closed>>
    BY <1>0, <1>8, WriteStep DEF WriteDatagram, WriteFails, S_TypeOK
  <2> QED
    BY <1>8, <2>1 DEF WriteDatagram
<1> QED
  BY <1>1, <1>2, <1>3, <1>4, <1>5, <1>6, <1>7, <1>8 DEF Serve

\* Steps of one forwardUDP.
LEMMA ForwardInv ==
  ASSUME ServerInv, NEW s \in Stream, ForwardUDP(s)
  PROVE  ServerInv'
<1> USE SmuxAssumption, FlowAssumption
    DEF ServerInv, F_TypeOK, InHand, ClosedLast, EntryServed, ClosedForgotten,
        ReaderState, Opened
<1>0. "server" \in Side
  BY DEF Side
<1>1. CASE ReadAnswer(s) \/ BodyLate(s)
  <2>1. S_TypeOK' /\ UNCHANGED <<sess, closed>>
    BY <1>0, <1>1, ReadStep DEF ReadAnswer, BodyLate
  <2> QED
    BY <1>1, <2>1 DEF ReadAnswer, BodyLate
<1>2. CASE TouchSession(s)
  BY <1>2 DEF TouchSession, S_TypeOK
<1>3. CASE ReadEOF(s) \/ ReadFails(s)
  <2>1. StopsReading(s)
    BY <1>3 DEF ReadEOF, ReadFails
  <2> QED
    BY <2>1 DEF StopsReading, S_TypeOK
<1>4. CASE DeleteSession(s)
  <2>1. UNCHANGED <<sess, closed, sessionKey, pc, flow, stream>> /\ reader[s] = "delete"
    BY <1>4 DEF DeleteSession
  <2>2. reader' = [reader EXCEPT ![s] = "close"]
    BY <1>4 DEF DeleteSession
  <2>3. S_TypeOK' /\ F_TypeOK' /\ InHand' /\ ClosedLast'
    <3>1. S_TypeOK'
      BY <1>4 DEF DeleteSession, S_TypeOK
    <3>2. F_TypeOK'
      BY <1>4 DEF DeleteSession
    <3>3. InHand'
      <4>1. ASSUME pc \in {"store", "header", "go"} PROVE reader'[stream] = "none"
        <5>1. stream \in Stream /\ reader[stream] = "none"
          BY <4>1
        <5> QED BY <2>1, <2>2, <5>1
      <4> QED BY <2>1, <4>1
    <3>4. ClosedLast'
      <4>1. \A t \in Stream : /\ reader'[t] = "ended" <=> reader[t] = "ended"
                              /\ reader'[t] # "none" <=> reader[t] # "none"
        BY <2>1, <2>2
      <4> QED BY <2>1, <4>1
    <3> QED BY <3>1, <3>2, <3>3, <3>4
  <2>4. ASSUME NEW f \in Flow, udpSessions'[f] # NoStream
        PROVE  udpSessions'[f] = udpSessions[f] /\ f # sessionKey[s]
    BY <1>4, <2>4 DEF DeleteSession
  <2>5. ASSUME NEW f \in Flow PROVE udpSessions'[f] # s
    BY <2>4
  <2>6. EntryServed'
    BY <2>1, <2>2, <2>4, <2>5
  <2>7. ClosedForgotten'
    BY <2>1, <2>2, <2>4, <2>5
  <2> QED BY <2>3, <2>6, <2>7
<1>5. CASE CloseStream(s)
  <2>1. S_TypeOK' /\ UNCHANGED sess /\ closed' = closed \cup {<<"server", s>>}
    BY <1>0, <1>5, CloseStep DEF CloseStream
  <2>2. \A f \in Flow : udpSessions[f] # s
    BY <1>5 DEF CloseStream
  <2> QED
    BY <1>5, <2>1, <2>2 DEF CloseStream
<1> QED
  BY <1>1, <1>2, <1>3, <1>4, <1>5 DEF ForwardUDP

\* Steps of the recycler, of time, and of those who use the server.
LEMMA EnvironmentInv ==
  ServerInv /\ (Environment \/ \E f \in Flow : Recycle(f)) => ServerInv'
<1> SUFFICES ASSUME ServerInv, Environment \/ \E f \in Flow : Recycle(f)
             PROVE  ServerInv'
  OBVIOUS
<1> USE SmuxAssumption, FlowAssumption
    DEF ServerInv, S_TypeOK, F_TypeOK, InHand, ClosedLast, EntryServed, ClosedForgotten,
        Opened
<1>1. ASSUME NEW f \in Flow, ReadMsgUDP(f) PROVE ServerInv'
  BY <1>1 DEF ReadMsgUDP
<1>2. ASSUME NEW f \in Flow, BecomesIdle(f) PROVE ServerInv'
  BY <1>2 DEF BecomesIdle
<1>4. ASSUME NEW f \in Flow, Recycle(f) PROVE ServerInv'
  <2>1. S_TypeOK' /\ F_TypeOK' /\ InHand' /\ ClosedLast'
    BY <1>4 DEF Recycle
  <2>2. UNCHANGED <<sess, closed, sessionKey, reader, pc, stream>>
    BY <1>4 DEF Recycle
  <2>3. ASSUME NEW g \in Flow, udpSessions'[g] # NoStream
        PROVE  udpSessions'[g] = udpSessions[g]
    BY <1>4, <2>3 DEF Recycle
  <2>4. EntryServed'
    BY <2>2, <2>3
  <2>5. ClosedForgotten'
    BY <2>2, <2>3
  <2> QED BY <2>1, <2>4, <2>5
<1>3. ASSUME NEW x \in Session, AddSession(x) \/ RemoveSession(x),
             UNCHANGED <<udpSessions, idle, pc, flow, stream, reader, sessionKey>>
      PROVE  ServerInv'
  BY <1>3 DEF AddSession, RemoveSession
<1> QED
  BY <1>1, <1>2, <1>3, <1>4 DEF Environment
-----------------------------------------------------------------------------
(* Steps of the client and of the links *)

\* A client's step does not disturb the server.
LEMMA ClientInv ==
  ASSUME Inv, NEW s \in Stream, HandleStream(s) \/ LocalService(s), UNCHANGED F_vars
  PROVE  Inv'
<1>1. /\ S_TypeOK' /\ C_TypeOK' /\ UNCHANGED sess
      /\ closed' \in {closed, closed \cup {<<"client", s>>}}
  BY ClientStep DEF Inv, TypeOK
<1>2. ServerInv'
  BY <1>1, Undisturbed DEF ServerInv, Inv, TypeOK
<1> QED
  BY <1>1, <1>2 DEF ServerInv, Inv, TypeOK

\* The invariant is inductive.
LEMMA StepInv ==
  ASSUME Inv, [Next]_vars
  PROVE  Inv'
<1>1. ServerInv
  BY DEF Inv, TypeOK, ServerInv
<1>2. CASE ServerSteps
  <2>1. ServerInv'
    BY <1>1, <1>2, ServeInv, ForwardInv, EnvironmentInv DEF ServerSteps
  <2>2. C_TypeOK'
    BY <1>2 DEF ServerSteps, Inv, TypeOK, C_TypeOK
  <2> QED BY <2>1, <2>2 DEF ServerInv, Inv, TypeOK
<1>3. CASE ClientSteps
  BY <1>3, ClientInv DEF ClientSteps
<1>4. CASE Links
  <2>1. S_TypeOK' /\ UNCHANGED <<F_vars, C_vars, sess, closed>>
    BY <1>4 DEF Links, EndFails, Inv, TypeOK, S_TypeOK
  <2>2. ServerInv'
    BY <1>1, <2>1, Undisturbed
  <2> QED BY <2>1, <2>2 DEF ServerInv, Inv, TypeOK, C_TypeOK
<1>5. CASE UNCHANGED vars
  <2>1. S_TypeOK' /\ UNCHANGED <<F_vars, C_vars, sess, closed>>
    BY <1>5 DEF vars, Inv, TypeOK, S_TypeOK
  <2>2. ServerInv'
    BY <1>1, <2>1, Undisturbed
  <2> QED BY <2>1, <2>2 DEF ServerInv, Inv, TypeOK, C_TypeOK
<1> QED
  BY <1>2, <1>3, <1>4, <1>5 DEF Next

\* The inductive invariant holds in every reachable state.
THEOREM TunnelInvariant == Spec => []Inv
<1>1. Inv /\ [Next]_vars => Inv'
  BY StepInv
<1> QED
  BY InitInv, <1>1, PTL DEF Spec

\* Every stream in the map was opened for the flow it is stored under and has
\* a running forwardUDP, or its header could not be written.
THEOREM EntriesServed == Spec => []EntryServed
<1>1. Inv => EntryServed
  BY DEF Inv
<1> QED
  BY TunnelInvariant, <1>1, PTL

\* No closed stream is in the map.
THEOREM ClosedStreamsForgotten == Spec => []ClosedForgotten
<1>1. Inv => ClosedForgotten
  BY DEF Inv
<1> QED
  BY TunnelInvariant, <1>1, PTL
-----------------------------------------------------------------------------
(* The header comes first                                                   *)

\* The header of a stream was written, and its client has not read it.
Told(s) == reader[s] \notin {"none", "unstarted"} \/ (pc = "go" /\ stream = s)
Untold(s) == handler[s] \in {"none", "header"}

\* Nothing is sent before the header.  Once it was written it waits at the
\* client's end, unless that end takes nothing any more; whatever follows
\* queues up behind it.
Prefaced(s) ==
  LET arrived == inbox["client"][s] IN
  /\ reader[s] = "none" /\ ~(pc = "go" /\ stream = s) => arrived = <<>>
  /\ Told(s) /\ Untold(s) => arrived # <<>> \/ ~Usable("client", s)
  /\ Untold(s) /\ arrived # <<>> => Head(arrived) \in Header \/ reader[s] = "unstarted"
  /\ s \in toLocal \cup fromLocal => handler[s] = "relay"

HInv ==
  /\ Inv
  /\ \A s \in Stream : Prefaced(s)
  /\ pc = "write" => reader[stream] # "none"

\* A stream is disturbed only by a step that concerns it: an end that takes
\* nothing any more never takes anything again.
LEMMA NotConcerned ==
  ASSUME NEW s \in Stream, Prefaced(s),
         UNCHANGED <<inbox["client"][s], reader[s], handler[s]>>,
         toLocal' \subseteq toLocal \cup {t \in Stream : t # s},
         fromLocal' \subseteq fromLocal \cup {t \in Stream : t # s},
         (pc = "go" /\ stream = s)' <=> (pc = "go" /\ stream = s),
         Told(s) /\ Usable("client", s)' => Usable("client", s)
  PROVE  Prefaced(s)'
BY DEF Prefaced, Told, Untold

\* A stream that was told was opened.
LEMMA ToldOpened ==
  ASSUME Inv, NEW s \in Stream, Told(s)
  PROVE  Opened(s)
BY DEF Inv, InHand, ClosedLast, Told

\* An end that cannot be used stays so.
LEMMA StaysUnusable ==
  ASSUME NEW s \in Stream, closed \subseteq closed', up' \subseteq up,
         sess'[s] = sess[s], Usable("client", s)'
  PROVE  Usable("client", s)
BY DEF Usable

\* What a frame from the server finds at the client's end, and leaves there.
LEMMA ServerWrites ==
  ASSUME S_TypeOK, NEW s \in Stream, NEW frame \in Frame, Write("server", s, frame)
  PROVE  /\ UNCHANGED <<up, sess, closed>>
         /\ \A t \in Stream : t # s => inbox'["client"][t] = inbox["client"][t]
         /\ Usable("client", s) =>
              /\ inbox'["client"][s] # <<>>
              /\ IF inbox["client"][s] = <<>> THEN Head(inbox'["client"][s]) = frame
                 ELSE Head(inbox'["client"][s]) = Head(inbox["client"][s])
         /\ ~Usable("client", s) => inbox'["client"][s] = inbox["client"][s]
<1>1. "client" \in Side /\ Peer("server") = "client"
  BY DEF Side, Peer
<1>2. inbox["client"][s] \in Seq(Frame)
  BY <1>1 DEF S_TypeOK
<1>3. CASE Usable("client", s)
  <2>1. inbox' = [inbox EXCEPT !["client"][s] = Append(@, frame)]
    BY <1>1, <1>3 DEF Write, Deliver
  <2>2. /\ inbox'["client"][s] = Append(inbox["client"][s], frame)
        /\ \A t \in Stream : t # s => inbox'["client"][t] = inbox["client"][t]
    BY <1>1, <2>1 DEF S_TypeOK
  <2>3. /\ Append(inbox["client"][s], frame) # <<>>
        /\ IF inbox["client"][s] = <<>> THEN Head(Append(inbox["client"][s], frame)) = frame
           ELSE Head(Append(inbox["client"][s], frame)) = Head(inbox["client"][s])
    BY <1>2, AppendProperties, HeadTailAppend
  <2> QED
    BY <1>3, <2>2, <2>3 DEF Write
<1>4. CASE ~Usable("client", s)
  BY <1>1, <1>4 DEF Write, Deliver
<1> QED
  BY <1>3, <1>4
\* Calls of the server but writes do not reach the client's end.
LEMMA ServerQuiet ==
  ASSUME S_TypeOK, NEW s \in Stream,
         \/ UNCHANGED S_vars
         \/ Close("server", s)
         \/ \E frame \in Frame : Read("server", s, frame)
         \/ \E x \in Session : OpenStream(s, x)
  PROVE  /\ closed \subseteq closed' /\ UNCHANGED up
         /\ \A t \in Stream : inbox'["client"][t] = inbox["client"][t]
         /\ \A t \in Stream : Opened(t) => sess'[t] = sess[t]
<1>1. "client" \in Side /\ "server" \in Side
  BY DEF Side
<1> QED
  BY <1>1 DEF Close, Read, OpenStream, Opened, S_TypeOK

\* Steps of Serve that write nothing.
LEMMA ServeQuietPrefaced ==
  ASSUME HInv, \/ GetSession \/ OpenFails \/ StoreSession \/ StartForward
               \/ \E s \in Stream : OpenForFlow(s),
         UNCHANGED C_vars, NEW t \in Stream
  PROVE  Prefaced(t)'
<1>1. Prefaced(t) /\ S_TypeOK /\ F_TypeOK
  BY DEF HInv, Inv, TypeOK
<1>2. /\ closed \subseteq closed' /\ UNCHANGED up
      /\ inbox'["client"][t] = inbox["client"][t]
      /\ Opened(t) => sess'[t] = sess[t]
  <2>1. CASE GetSession \/ OpenFails \/ StoreSession \/ StartForward
    <3>1. UNCHANGED S_vars
      BY <2>1 DEF GetSession, OpenFails, StoreSession, StartForward
    <3> QED BY <3>1
  <2>2. ASSUME NEW s \in Stream, OpenForFlow(s)
        PROVE  /\ closed \subseteq closed' /\ UNCHANGED up
               /\ inbox'["client"][t] = inbox["client"][t]
               /\ Opened(t) => sess'[t] = sess[t]
    <3>1. Dip[flow] \in Session
      BY <2>2, FlowAssumption DEF OpenForFlow, HInv, Inv, InHand
    <3>2. \E x \in Session : OpenStream(s, x)
      BY <2>2, <3>1 DEF OpenForFlow
    <3> QED BY <1>1, <3>2, ServerQuiet
  <2> QED BY <2>1, <2>2
<1>3. Told(t) /\ Usable("client", t)' => Usable("client", t)
  BY <1>2, StaysUnusable, ToldOpened DEF HInv
<1>4. CASE GetSession \/ OpenFails \/ StoreSession \/ \E s \in Stream : OpenForFlow(s)
  <2>1. UNCHANGED reader /\ pc # "go" /\ pc' # "go"
    BY <1>4 DEF GetSession, OpenFails, StoreSession, OpenForFlow, NextDatagram
  <2> QED BY <1>1, <1>2, <1>3, <2>1, NotConcerned
<1>5. CASE StartForward
  <2>1. /\ pc = "go" /\ pc' = "write" /\ UNCHANGED <<stream, C_vars>>
        /\ stream \in Stream /\ reader[stream] = "none"
        /\ reader' = [reader EXCEPT ![stream] = "read"]
    BY <1>5 DEF StartForward, HInv, Inv, InHand
  <2>2. CASE t # stream
    BY <1>1, <1>2, <1>3, <2>1, <2>2, NotConcerned DEF F_TypeOK
  <2>3. CASE t = stream
    <3>1. reader'[t] = "read" /\ Told(t)
      BY <1>1, <2>1, <2>3 DEF F_TypeOK, Told
    <3> QED
      BY <1>1, <1>2, <1>3, <2>1, <3>1 DEF Prefaced, Untold
  <2> QED BY <2>2, <2>3
<1> QED
  BY <1>4, <1>5

\* Steps of Serve that write.
LEMMA ServeWritesPrefaced ==
  ASSUME HInv, WriteHeader \/ HeaderFails \/ WriteDatagram,
         UNCHANGED C_vars, NEW t \in Stream
  PROVE  Prefaced(t)'
<1>1. Prefaced(t) /\ S_TypeOK /\ F_TypeOK /\ stream \in Stream /\ Prefaced(stream)
  BY DEF HInv, Inv, TypeOK, InHand, WriteHeader, HeaderFails, WriteDatagram
<1>2. "udp" \in Frame /\ "data" \in Frame /\ "udp" \in Header
  BY DEF Frame, Header
<1>3. /\ pc \in {"header", "write"}
      /\ pc' = "go" => pc = "header" /\ stream' = stream
      /\ \A u \in Stream : u # stream => reader'[u] = reader[u]
  BY <1>1 DEF WriteHeader, HeaderFails, WriteDatagram, NextDatagram, F_TypeOK
<1>4. \/ UNCHANGED S_vars
      \/ Write("server", stream, "udp") \/ Write("server", stream, "data")
  BY DEF WriteHeader, HeaderFails, WriteDatagram, WriteFails
<1>5. /\ UNCHANGED <<up, sess, closed>>
      /\ \A u \in Stream : u # stream => inbox'["client"][u] = inbox["client"][u]
  BY <1>1, <1>2, <1>4, ServerWrites
<1>6. \A u \in Stream : Usable("client", u)' <=> Usable("client", u)
  BY <1>5 DEF Usable
<1>7. CASE t # stream
  BY <1>1, <1>3, <1>5, <1>6, <1>7, NotConcerned
<1>8. CASE t = stream /\ WriteHeader
  <2>1. reader[t] = "none" /\ UNCHANGED reader /\ pc = "header"
    BY <1>8 DEF WriteHeader, HInv, Inv, InHand
  <2>2. inbox["client"][t] = <<>>
    BY <1>1, <2>1 DEF Prefaced
  <2>3. Write("server", t, "udp") /\ pc' = "go" /\ stream' = t
    BY <1>8 DEF WriteHeader
  <2>4. /\ Usable("client", t) => /\ inbox'["client"][t] # <<>>
                                  /\ Head(inbox'["client"][t]) = "udp"
        /\ ~Usable("client", t) => inbox'["client"][t] = <<>>
    BY <1>1, <1>2, <2>2, <2>3, ServerWrites
  <2> QED
    BY <1>1, <1>2, <1>6, <2>1, <2>3, <2>4 DEF Prefaced
<1>9. CASE t = stream /\ HeaderFails
  <2>1. reader'[t] = "unstarted" /\ pc' = "read"
    BY <1>1, <1>9 DEF HeaderFails, NextDatagram, F_TypeOK
  <2> QED
    BY <1>1, <2>1 DEF Prefaced, Told
<1>10. CASE t = stream /\ WriteDatagram
  <2>1. reader[t] # "none" /\ UNCHANGED reader /\ pc' = "read" /\ pc = "write"
    BY <1>10 DEF WriteDatagram, NextDatagram, HInv
  <2>2. UNCHANGED S_vars \/ Write("server", t, "data")
    BY <1>10 DEF WriteDatagram, WriteFails
  <2>3. CASE UNCHANGED S_vars
    BY <1>1, <1>6, <2>1, <2>3 DEF Prefaced, Told, Untold
  <2>4. CASE Write("server", t, "data")
    <3>1. /\ Usable("client", t) =>
               /\ inbox'["client"][t] # <<>>
               /\ inbox["client"][t] # <<>> =>
                    Head(inbox'["client"][t]) = Head(inbox["client"][t])
          /\ ~Usable("client", t) => inbox'["client"][t] = inbox["client"][t]
      BY <1>1, <1>2, <2>4, ServerWrites
    <3>2. Told(t) \/ reader[t] = "unstarted"
      BY <2>1 DEF Told
    <3> QED
      BY <1>1, <1>6, <2>1, <3>1, <3>2 DEF Prefaced, Told, Untold
  <2> QED BY <2>2, <2>3, <2>4
<1> QED
  BY <1>7, <1>8, <1>9, <1>10
\* Steps of a forwardUDP, of time, of the recycler and of the sessions' table
\* and of the links send nothing to a client.
LEMMA OthersPrefaced ==
  ASSUME HInv,
         \/ (\E s \in Stream : ForwardUDP(s)) /\ UNCHANGED C_vars
         \/ (Environment \/ \E f \in Flow : Recycle(f)) /\ UNCHANGED C_vars
         \/ Links
         \/ UNCHANGED vars,
         NEW t \in Stream
  PROVE  Prefaced(t)'
<1>1. Prefaced(t) /\ S_TypeOK /\ F_TypeOK
  BY DEF HInv, Inv, TypeOK
<1>2. ASSUME NEW s \in Stream, ForwardUDP(s), UNCHANGED C_vars PROVE Prefaced(t)'
  <2>1. \/ UNCHANGED S_vars \/ Close("server", s)
        \/ \E frame \in Frame : Read("server", s, frame)
    BY <1>2 DEF ForwardUDP, ReadAnswer, TouchSession, ReadEOF, ReadFails, BodyLate,
       StopsReading,
                DeleteSession, CloseStream, Frame
  <2>2. /\ closed \subseteq closed' /\ UNCHANGED <<up, sess>>
        /\ inbox'["client"][t] = inbox["client"][t]
    <3>1. UNCHANGED sess
      BY <2>1 DEF Close, Read
    <3> QED BY <1>1, <2>1, <3>1, ServerQuiet
  <2>3. Usable("client", t)' => Usable("client", t)
    BY <2>2, StaysUnusable
  <2>4. /\ UNCHANGED <<pc, stream>>
        /\ reader[s] \notin {"none", "unstarted"} /\ reader'[s] \notin {"none", "unstarted"}
        /\ \A u \in Stream : u # s => reader'[u] = reader[u]
    BY <1>1, <1>2 DEF ForwardUDP, ReadAnswer, TouchSession, ReadEOF, ReadFails, BodyLate,
       StopsReading,
                      DeleteSession, CloseStream, F_TypeOK
  <2>5. CASE t # s
    BY <1>1, <1>2, <2>2, <2>3, <2>4, <2>5, NotConcerned
  <2>6. CASE t = s
    BY <1>1, <1>2, <2>2, <2>3, <2>4, <2>6 DEF Prefaced, Told, Untold
  <2> QED BY <2>5, <2>6
<1>3. ASSUME (Environment \/ \E f \in Flow : Recycle(f)) /\ UNCHANGED C_vars
      PROVE  Prefaced(t)'
  <2>1. UNCHANGED <<S_vars, reader>>
    BY <1>3 DEF Environment, Recycle, ReadMsgUDP, BecomesIdle, AddSession, RemoveSession
  <2>2. (pc = "go" /\ stream = t)' <=> (pc = "go" /\ stream = t)
    BY <1>3 DEF Environment, Recycle, ReadMsgUDP, BecomesIdle
  <2>3. Usable("client", t)' <=> Usable("client", t)
    BY <2>1 DEF Usable
  <2> QED BY <1>1, <1>3, <2>1, <2>2, <2>3, NotConcerned
<1>4. ASSUME Links \/ UNCHANGED vars PROVE Prefaced(t)'
  <2>1. /\ UNCHANGED <<F_vars, C_vars, sess, closed, inbox>> /\ up' \subseteq up
    BY <1>4 DEF Links, EndFails, vars
  <2>2. Usable("client", t)' => Usable("client", t)
    BY <2>1, StaysUnusable
  <2> QED BY <1>1, <2>1, <2>2, NotConcerned
<1> QED
  BY <1>2, <1>3, <1>4

\* A client that reads or closes its end of a stream leaves the header's
\* place to the copies of that stream only.
LEMMA ClientPrefaced ==
  ASSUME HInv, NEW s \in Stream, HandleStream(s) \/ LocalService(s), UNCHANGED F_vars,
         NEW t \in Stream
  PROVE  Prefaced(t)'
<1>1. Prefaced(t) /\ S_TypeOK /\ F_TypeOK /\ C_TypeOK
  BY DEF HInv, Inv, TypeOK
<1>2. "client" \in Side /\ "server" \in Side /\ Peer("client") = "server"
  BY DEF Side, Peer
<1>3. \/ UNCHANGED S_vars \/ Close("client", s)
      \/ (\E frame \in Frame : Read("client", s, frame)) \/ Write("client", s, "data")
  BY DEF HandleStream, LocalService, AcceptStream, ReadHeader, ReadGarbage, HeaderEnds, Dial,
         DialFails, DialUDPFails, CopyToLocal, ToLocalEnds, FromLocalEnds, LocalEnds,
         FromLocalStops, CopyFromLocal, Frame
<1>4. /\ closed \subseteq closed' /\ UNCHANGED <<up, sess>>
      /\ t # s => inbox'["client"][t] = inbox["client"][t]
  <2>1. CASE UNCHANGED S_vars
    BY <2>1
  <2>2. CASE Close("client", s)
    BY <1>1, <1>2, <2>2 DEF Close, S_TypeOK
  <2>3. CASE \E frame \in Frame : Read("client", s, frame)
    BY <1>1, <1>2, <2>3 DEF Read, S_TypeOK
  <2>4. CASE Write("client", s, "data")
    BY <1>1, <1>2, <2>4 DEF Write, Deliver, S_TypeOK
  <2> QED BY <1>3, <2>1, <2>2, <2>3, <2>4
<1>5. Usable("client", t)' => Usable("client", t)
  BY <1>4, StaysUnusable
<1>6. CASE t # s
  <2>1. /\ handler'[t] = handler[t]
        /\ toLocal' \subseteq toLocal \cup {u \in Stream : u # t}
        /\ fromLocal' \subseteq fromLocal \cup {u \in Stream : u # t}
    BY <1>1, <1>6
       DEF HandleStream, LocalService, AcceptStream, ReadHeader, ReadGarbage, HeaderEnds, Dial,
           DialFails, DialUDPFails, CopyToLocal, ToLocalEnds, FromLocalEnds, LocalEnds,
           FromLocalStops, CopyFromLocal, C_TypeOK
  <2> QED BY <1>1, <1>4, <1>5, <1>6, <2>1, NotConcerned
<1>7. CASE t = s
  <2> USE DEF Prefaced, Untold, Told, C_TypeOK, Header
  <2>1. CASE AcceptStream(s) \/ Dial(s) \/ DialUDPFails(s)
    BY <1>1, <1>5, <1>7, <2>1 DEF AcceptStream, Dial, DialUDPFails
  <2>2. CASE ReadHeader(s) \/ ReadGarbage(s) \/ CopyToLocal(s)
    <3>1. inbox["client"][s] # <<>>
      BY <2>2 DEF ReadHeader, ReadGarbage, CopyToLocal, Read
    <3>2. handler'[s] \notin {"none", "header"}
      BY <1>1, <1>7, <2>2 DEF ReadHeader, ReadGarbage, CopyToLocal
    <3>3. s \in toLocal' \cup fromLocal' => handler'[s] = "relay"
      BY <1>1, <1>7, <2>2 DEF ReadHeader, ReadGarbage, CopyToLocal
    <3> QED BY <1>1, <1>7, <3>1, <3>2, <3>3
  <2>3. CASE HeaderEnds(s) \/ DialFails(s) \/ ToLocalEnds(s) \/ FromLocalEnds(s) \/ LocalEnds(s)
    <3>1. inbox'["client"][s] = <<>>
      BY <1>1, <1>2, <2>3
         DEF HeaderEnds, DialFails, ToLocalEnds, FromLocalEnds, LocalEnds, FromLocalStops,
             Close, S_TypeOK
    <3>2. handler'[s] \notin {"none", "header"}
      BY <1>1, <1>7, <2>3
         DEF HeaderEnds, DialFails, ToLocalEnds, FromLocalEnds, LocalEnds, FromLocalStops
    <3>3. s \in toLocal' \cup fromLocal' => handler'[s] = "relay"
      BY <1>1, <1>7, <2>3
         DEF HeaderEnds, DialFails, ToLocalEnds, FromLocalEnds, LocalEnds, FromLocalStops
    <3> QED BY <1>7, <3>1, <3>2, <3>3
  <2>4. CASE CopyFromLocal(s)
    <3>1. inbox'["client"][s] = inbox["client"][s]
      BY <1>1, <1>2, <2>4 DEF CopyFromLocal, Write, Deliver, S_TypeOK
    <3> QED BY <1>1, <1>5, <1>7, <2>4, <3>1 DEF CopyFromLocal
  <2> QED
    BY <2>1, <2>2, <2>3, <2>4 DEF HandleStream, LocalService
<1> QED
  BY <1>6, <1>7

\* HInv is inductive.
LEMMA PrefacedStep ==
  ASSUME HInv, [Next]_vars, Inv'
  PROVE  HInv'
<1>1. ASSUME NEW t \in Stream PROVE Prefaced(t)'
  <2>1. CASE ServerSteps
    BY <2>1, ServeQuietPrefaced, ServeWritesPrefaced, OthersPrefaced DEF ServerSteps, Serve
  <2>2. CASE ClientSteps
    BY <2>2, ClientPrefaced DEF ClientSteps
  <2>3. CASE Links \/ UNCHANGED vars
    BY <2>3, OthersPrefaced
  <2> QED BY <2>1, <2>2, <2>3 DEF Next
<1>2. ASSUME pc' = "write" PROVE reader'[stream'] # "none"
  <2>1. S_TypeOK /\ F_TypeOK /\ InHand /\ EntryServed /\ (pc = "write" => stream \in Stream)
    BY DEF HInv, Inv, TypeOK, InHand
  <2>2. CASE Serve /\ UNCHANGED C_vars
    BY <1>2, <2>1, <2>2
       DEF Serve, GetSession, OpenFails, OpenForFlow, StoreSession, WriteHeader, HeaderFails,
           StartForward, WriteDatagram, NextDatagram, F_TypeOK, InHand
  <2>3. ASSUME NEW f \in Flow, ReadMsgUDP(f) PROVE reader'[stream'] # "none"
    BY <1>2, <2>1, <2>3 DEF ReadMsgUDP, EntryServed
  <2>4. ASSUME NEW s \in Stream, ForwardUDP(s) PROVE reader'[stream'] # "none"
    <3>1. UNCHANGED <<pc, stream>> /\ reader' \in [Stream -> ReaderState]
          /\ \A u \in Stream : reader'[u] = "none" => reader[u] = "none"
      BY <2>1, <2>4 DEF ForwardUDP, ReadAnswer, TouchSession, ReadEOF, ReadFails, BodyLate,
         StopsReading,
                        DeleteSession, CloseStream, F_TypeOK, ReaderState
    <3> QED BY <1>2, <2>1, <3>1 DEF HInv
  <2>5. CASE UNCHANGED <<pc, stream, reader>>
    BY <1>2, <2>5 DEF HInv
  <2> QED
    BY <2>2, <2>3, <2>4, <2>5
       DEF Next, ServerSteps, ClientSteps, Links, Environment, BecomesIdle, Recycle, vars
<1> QED
  BY <1>1, <1>2 DEF HInv

\* The client learns where a stream leads before anything else arrives on it,
\* or the header was not written (udpforward.go:170-196, client.go:108-127).
THEOREM HeaderComesFirst == Spec => []HeaderFirst
<1>1. Init => HInv
  BY InitInv DEF Init, S_Init, F_Init, C_Init, HInv, Prefaced, Told, Untold, Side
<1>2. Inv /\ [Next]_vars => Inv'
  BY StepInv
<1>3. HInv /\ [Next]_vars => HInv'
  BY <1>2, PrefacedStep DEF HInv
<1>4. HInv => HeaderFirst
  BY DEF HInv, Prefaced, Untold, HeaderFirst
<1> QED
  BY <1>1, <1>3, <1>4, PTL DEF Spec
=============================================================================
