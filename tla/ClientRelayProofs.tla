-------------------------- MODULE ClientRelayProofs -------------------------
(***************************************************************************)
(* What the calls of Smux and the steps of a client preserve, for every    *)
(* set of sessions and streams and every window; for the proofs of the     *)
(* modules that are composed of them.                                      *)
(***************************************************************************)
EXTENDS ClientRelay, TLAPS

\* Reading a frame keeps the types and touches one inbox only.
LEMMA ReadStep ==
  ASSUME S_TypeOK, NEW side \in Side, NEW s \in Stream, NEW frame, Read(side, s, frame)
  PROVE  S_TypeOK' /\ UNCHANGED <<up, sess, closed>>
<1>1. inbox[side][s] \in Seq(Frame) /\ inbox[side][s] # <<>>
  BY DEF Read, S_TypeOK
<1>2. Tail(inbox[side][s]) \in Seq(Frame)
  BY <1>1
<1> QED
  BY <1>2 DEF Read, S_TypeOK

\* So does writing one.
LEMMA WriteStep ==
  ASSUME S_TypeOK, NEW side \in Side, NEW s \in Stream, NEW frame \in Frame,
         Write(side, s, frame)
  PROVE  S_TypeOK' /\ UNCHANGED <<up, sess, closed>>
<1>1. Peer(side) \in Side
  BY DEF Peer, Side
<1>2. Append(inbox[Peer(side)][s], frame) \in Seq(Frame)
  BY <1>1 DEF S_TypeOK
<1> QED
  BY <1>1, <1>2 DEF Write, Deliver, S_TypeOK

\* Closing one end of a stream says nothing about the other end.
LEMMA CloseStep ==
  ASSUME S_TypeOK, NEW side \in Side, NEW s \in Stream, Close(side, s)
  PROVE  /\ S_TypeOK' /\ UNCHANGED <<up, sess>>
         /\ closed' = closed \cup {<<side, s>>}
<1>1. <<>> \in Seq(Frame)
  OBVIOUS
<1> QED
  BY <1>1 DEF Close, S_TypeOK

\* So does opening a stream.
LEMMA OpenStep ==
  ASSUME S_TypeOK, NEW s \in Stream, NEW x \in Session, OpenStream(s, x)
  PROVE  /\ S_TypeOK' /\ UNCHANGED <<up, closed, inbox>>
         /\ sess[s] = NoSession /\ sess' = [sess EXCEPT ![s] = x]
BY DEF OpenStream, Opened, S_TypeOK
-----------------------------------------------------------------------------
\* A client's step keeps the types, opens nothing, and closes no end but its
\* own (client.go:108-224).
THEOREM ClientStep ==
  ASSUME S_TypeOK, C_TypeOK, NEW s \in Stream, HandleStream(s) \/ LocalService(s)
  PROVE  /\ S_TypeOK' /\ C_TypeOK' /\ UNCHANGED sess
         /\ closed' \in {closed, closed \cup {<<"client", s>>}}
<1> DEFINE Quiet == /\ S_TypeOK' /\ UNCHANGED sess
                    /\ closed' \in {closed, closed \cup {<<"client", s>>}}
<1>0. "client" \in Side /\ "data" \in Frame
  BY DEF Side, Frame
<1> USE DEF C_TypeOK, S_vars, C_vars, copyVars
<1>1. CASE AcceptStream(s) \/ Dial(s) \/ DialUDPFails(s)
  <2>1. Quiet
    BY <1>1 DEF AcceptStream, Dial, DialUDPFails, S_TypeOK
  <2>2. C_TypeOK'
    BY <1>1 DEF AcceptStream, Dial, DialUDPFails
  <2> QED BY <2>1, <2>2
<1>2. CASE ReadHeader(s) \/ ReadGarbage(s) \/ CopyToLocal(s)
  <2>1. Quiet
    BY <1>0, <1>2, ReadStep DEF ReadHeader, ReadGarbage, CopyToLocal
  <2>2. C_TypeOK'
    BY <1>2 DEF ReadHeader, ReadGarbage, CopyToLocal
  <2> QED BY <2>1, <2>2
<1>3. CASE HeaderEnds(s) \/ DialFails(s) \/ ToLocalEnds(s) \/ FromLocalEnds(s) \/ LocalEnds(s)
  <2>1. Quiet
    BY <1>0, <1>3, CloseStep
       DEF HeaderEnds, DialFails, ToLocalEnds, FromLocalEnds, LocalEnds, FromLocalStops
  <2>2. C_TypeOK'
    BY <1>3 DEF HeaderEnds, DialFails, ToLocalEnds, FromLocalEnds, LocalEnds, FromLocalStops
  <2> QED BY <2>1, <2>2
<1>4. CASE CopyFromLocal(s)
  <2>1. Quiet
    BY <1>0, <1>4, WriteStep DEF CopyFromLocal
  <2>2. C_TypeOK'
    BY <1>4 DEF CopyFromLocal
  <2> QED BY <2>1, <2>2
<1> QED
  BY <1>1, <1>2, <1>3, <1>4 DEF HandleStream, LocalService
=============================================================================
