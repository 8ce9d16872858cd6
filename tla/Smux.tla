-------------------------------- MODULE Smux --------------------------------
(***************************************************************************)
(* External: the multiplexer xtaci/smux, as opennotr uses it.  A session   *)
(* has two ends, the server's and the client's; the server opens streams   *)
(* on it, each a pair of pipes that keep order and lose nothing while both *)
(* ends work.                                                              *)
(*                                                                         *)
(* All streams of a session share one receive buffer per end, of Window    *)
(* frames.  While it is full nothing more is received at that end, on any  *)
(* stream, and the end's keepalive does not expire.  A closed stream gives *)
(* back what it had not read, and what arrives for it later is discarded.  *)
(* A write to a stream that only the other end has closed succeeds.        *)
(***************************************************************************)
EXTENDS Naturals, Sequences, FiniteSets

CONSTANTS
  Session,    \* connections between a client and the server
  Stream,
  NoSession,
  Window      \* frames an end buffers for a session, network included

ASSUME SmuxAssumption == NoSession \notin Session /\ Window \in Nat \ {0}

Side == {"server", "client"}
Peer(side) == IF side = "server" THEN "client" ELSE "server"

\* The first frame of a stream names the protocol and the addresses; the
\* others carry a datagram, or a piece of a byte stream, each.
Header == {"tcp", "udp"}
Frame == Header \cup {"data"}

VARIABLES
  up,      \* <<side, session>>: the ends that work
  sess,    \* stream -> the session it was opened on
  closed,  \* <<side, stream>>: the ends of streams that were closed
  inbox    \* side -> stream -> the frames received and not read

S_vars == <<up, sess, closed, inbox>>

S_TypeOK ==
  /\ up \in SUBSET (Side \X Session)
  /\ sess \in [Stream -> Session \cup {NoSession}]
  /\ closed \in SUBSET (Side \X Stream)
  /\ inbox \in [Side -> [Stream -> Seq(Frame)]]

S_Init ==
  /\ up = Side \X Session
  /\ sess = [s \in Stream |-> NoSession]
  /\ closed = {}
  /\ inbox = [side \in Side |-> [s \in Stream |-> <<>>]]

Opened(s) == sess[s] # NoSession
Buffered(side, x) ==
  UNION {{s} \X DOMAIN inbox[side][s] : s \in {t \in Stream : sess[t] = x}}
Room(side, x) == Cardinality(Buffered(side, x)) < Window

\* Whether a call on one end of a stream can succeed.
Usable(side, s) == <<side, s>> \notin closed /\ <<side, sess[s]>> \in up
AtEOF(side, s) ==
  /\ Usable(side, s)
  /\ inbox[side][s] = <<>>
  /\ <<Peer(side), s>> \in closed

OpenStream(s, x) ==
  /\ ~Opened(s)
  /\ <<"server", x>> \in up
  /\ sess' = [sess EXCEPT ![s] = x]
  /\ UNCHANGED <<up, closed, inbox>>

\* The frame is buffered at the other end, or discarded if that is gone.
Deliver(side, s, frame) ==
  inbox' = IF Usable(Peer(side), s)
           THEN [inbox EXCEPT ![Peer(side)][s] = Append(@, frame)]
           ELSE inbox

Write(side, s, frame) ==
  /\ Usable(side, s)
  /\ Usable(Peer(side), s) => Room(Peer(side), sess[s])
  /\ Deliver(side, s, frame)
  /\ UNCHANGED <<up, sess, closed>>

Read(side, s, frame) ==
  /\ <<side, s>> \notin closed
  /\ inbox[side][s] # <<>> /\ Head(inbox[side][s]) = frame
  /\ inbox' = [inbox EXCEPT ![side][s] = Tail(@)]
  /\ UNCHANGED <<up, sess, closed>>

Close(side, s) ==
  /\ closed' = closed \cup {<<side, s>>}
  /\ inbox' = [inbox EXCEPT ![side][s] = <<>>]
  /\ UNCHANGED <<up, sess>>

\* An end of a session fails: its process dies, its connection breaks, or its
\* keepalive expires.
EndFails(side, x) ==
  /\ <<side, x>> \in up
  /\ up' = up \ {<<side, x>>}
  /\ UNCHANGED <<sess, closed, inbox>>

\* The part of it that is bound to happen: one end is gone and the other is
\* not stuck on a full buffer.
EndNotices(side, x) ==
  /\ <<Peer(side), x>> \notin up
  /\ Room(side, x)
  /\ EndFails(side, x)
=============================================================================
