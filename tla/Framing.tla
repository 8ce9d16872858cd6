------------------------------ MODULE Framing ------------------------------
(* How messages are divided on a stream of octets (cs.go, net.go, client.go,
   udpforward.go): on the control connection a header of version, command and the
   length of the body in two octets; on the stream of a tunnel the length only, from
   the server to the client and for the answers back.  One side writes, the other
   reads; TCP delivers in segments of any size, smux in the frames that Write made.
   The length is truncated to two octets.

   An octet has Base values, 256 in the code.                                *)
EXTENDS Integers, Sequences, SequencesExt

CONSTANTS
    Base,
    Bodies,       \* the bodies that are written
    Cmds,
    MaxFrameSize, \* external: the longest smux frame
    MaxWrites     \* bound: calls of Write

\* A frame holds the first length of a tunnel.
ASSUME WireConstants ==
    /\ Base \in Nat /\ Base > 1
    /\ Bodies \subseteq Seq(0..(Base - 1)) /\ Cmds \subseteq 0..(Base - 1)
    /\ MaxFrameSize \in Nat /\ MaxFrameSize > 1

VARIABLES
    channel,  \* "control", "tunnel" or "answers"
    buffers,  \* the frames written and not yet read
    ended,    \* the writer writes no more
    reader,   \* see Header
    messages, \* the messages [cmd, body] the stream carries, up to the shift
    received, \* those the reader has made out
    shifted,  \* what follows `messages' on the stream does not begin with a header
              \* that tells its length: a body longer than two octets can tell, or a
              \* message of which Write sent a part, with others to come
    writes    \* counts the calls of Write

wireVars == <<channel, buffers, ended, reader, messages, received, shifted, writes>>

Octets == 0..(Base - 1)
Width == Base * Base

\* What is read now, the octets still missing, and those read.
HeaderLen == IF channel = "control" THEN 4 ELSE 2
Header(first) == [part |-> "header", need |-> HeaderLen, got |-> <<>>, cmd |-> 0, first |-> first]

WireInit ==
    /\ channel \in {"control", "tunnel", "answers"}
    /\ buffers = <<>> /\ ended = FALSE
    /\ reader = Header(TRUE)
    /\ messages = <<>> /\ received = <<>> /\ shifted = FALSE /\ writes = 0

\* binary.BigEndian.PutUint16(uint16(n)) and Uint16.
PutUint16(n) == <<(n % Width) \div Base, n % Base>>
Uint16(o) == o[1] * Base + o[2]

encode(m) ==
    IF channel = "control" THEN <<1, m.cmd>> \o PutUint16(Len(m.body)) \o m.body
                           ELSE PutUint16(Len(m.body)) \o m.body

\* smux divides a Write into frames; TCP keeps no boundaries.
frames(octets) ==
    IF channel = "control" THEN <<octets>>
    ELSE [i \in 1..((Len(octets) + MaxFrameSize - 1) \div MaxFrameSize) |->
             SubSeq(octets, (i - 1) * MaxFrameSize + 1,
                    IF i * MaxFrameSize < Len(octets) THEN i * MaxFrameSize ELSE Len(octets))]

\* A tunnel's first message is the proxy protocol, a JSON object; datagrams are
\* shorter than two octets can tell.
Messages ==
    IF channel = "control" THEN [cmd : Cmds, body : Bodies]
    ELSE [cmd : {0}, body : {b \in Bodies : /\ Len(b) < Width
                                            /\ channel = "tunnel" /\ writes = 0 => b # <<>>}]

\* Header and body go into one Write.
WriteMessage(m) ==
    /\ ~ended /\ writes < MaxWrites /\ writes' = writes + 1
    /\ buffers' = buffers \o frames(encode(m))
    /\ shifted' = (shifted \/ Len(m.body) >= Width)
    /\ messages' = IF shifted' THEN messages ELSE Append(messages, m)
    /\ UNCHANGED <<channel, ended, reader, received>>

\* A Write fails with nothing, a part or all of the message sent, of smux whole
\* frames.  The writer gives up, but Serve logs the error, a missed deadline perhaps,
\* and goes on writing on the stream.
WriteMessageFails(m) ==
    /\ ~ended /\ writes < MaxWrites /\ writes' = writes + 1
    /\ \E n \in 0..Len(encode(m)) :
          /\ channel # "control" => n % MaxFrameSize = 0 \/ n = Len(encode(m))
          /\ buffers' = IF n = 0 THEN buffers ELSE buffers \o frames(SubSeq(encode(m), 1, n))
          /\ shifted' = (\/ shifted \/ Len(m.body) >= Width
                         \/ channel = "tunnel" /\ n \in 1..(Len(encode(m)) - 1))
          /\ messages' = IF shifted' \/ n < Len(encode(m)) THEN messages ELSE Append(messages, m)
    /\ ended' = (channel # "tunnel")
    /\ UNCHANGED <<channel, reader, received>>

CloseStream ==
    /\ ~ended /\ ended' = TRUE
    /\ UNCHANGED <<channel, buffers, reader, messages, received, shifted, writes>>

----------------------------------------------------------------------------
(* The reader.                                                               *)

\* One Read: from the first frame only, and from a TCP connection any part.
CanRead(n) ==
    /\ buffers # <<>> /\ n \in 1..Len(Head(buffers)) /\ n <= reader.need
    /\ channel # "control" => n = Len(Head(buffers)) \/ n = reader.need
Rest(n) ==
    IF n = Len(Head(buffers)) THEN Tail(buffers)
    ELSE <<SubSeq(Head(buffers), n + 1, Len(Head(buffers)))>> \o Tail(buffers)

\* A whole header has been read: no body is no read, but no proxy protocol either.
HeaderRead(octets) ==
    LET cmd == IF channel = "control" THEN octets[2] ELSE 0
        bodylen == Uint16(SubSeq(octets, HeaderLen - 1, HeaderLen))
    IN  IF bodylen = 0 /\ channel = "tunnel" /\ reader.first
        THEN reader' = [reader EXCEPT !.part = "failed"] /\ UNCHANGED received
        ELSE IF bodylen = 0
        THEN /\ received' = Append(received, [cmd |-> cmd, body |-> <<>>])
             /\ reader' = Header(FALSE)
        ELSE /\ reader' = [part |-> "body", need |-> bodylen, got |-> <<>>, cmd |-> cmd, first |-> FALSE]
             /\ UNCHANGED received

\* The client reads the first header of a tunnel by one Read, whatever it returns,
\* into zeroed octets; the server reads every header of the answers by one, and drops
\* a single octet; everything else is read in full.
ReadHeader ==
    /\ reader.part = "header"
    /\ \E n \in 1..HeaderLen :
          LET got == reader.got \o SubSeq(Head(buffers), 1, n) IN
          /\ CanRead(n)
          /\ buffers' = Rest(n)
          /\ IF n = reader.need THEN HeaderRead(got)
             ELSE IF channel = "tunnel" /\ reader.first THEN HeaderRead(Append(got, 0))
             ELSE IF channel = "answers" THEN UNCHANGED <<reader, received>>
             ELSE reader' = [reader EXCEPT !.got = got, !.need = @ - n] /\ UNCHANGED received
    /\ UNCHANGED <<channel, ended, messages, shifted, writes>>

\* Mutant: one Read instead of io.ReadFull.
ReadBody_Once ==
    /\ reader.part = "body"
    /\ \E n \in 1..reader.need :
          /\ CanRead(n)
          /\ buffers' = Rest(n)
          /\ received' = Append(received, [cmd |-> reader.cmd, body |-> SubSeq(Head(buffers), 1, n)])
          /\ reader' = Header(FALSE)
    /\ UNCHANGED <<channel, ended, messages, shifted, writes>>

ReadBody ==
    /\ reader.part = "body"
    /\ \E n \in 1..reader.need :
          LET got == reader.got \o SubSeq(Head(buffers), 1, n) IN
          /\ CanRead(n)
          /\ buffers' = Rest(n)
          /\ IF n = reader.need
             THEN /\ received' = Append(received, [cmd |-> reader.cmd, body |-> got])
                  /\ reader' = Header(FALSE)
             ELSE reader' = [reader EXCEPT !.got = got, !.need = @ - n] /\ UNCHANGED received
    /\ UNCHANGED <<channel, ended, messages, shifted, writes>>

\* The stream ends: between two messages that is io.EOF.
ReadEnds ==
    /\ reader.part \in {"header", "body"} /\ buffers = <<>> /\ ended
    /\ reader' = [reader EXCEPT !.part = IF @ = "header" /\ reader.got = <<>> THEN "eof" ELSE "failed"]
    /\ UNCHANGED <<channel, buffers, ended, messages, received, shifted, writes>>

\* A Read fails: the connection is lost, or the deadline of a body passes.
ReadBreaks ==
    /\ reader.part \in {"header", "body"}
    /\ reader' = [reader EXCEPT !.part = "failed"]
    /\ UNCHANGED <<channel, buffers, ended, messages, received, shifted, writes>>

WireNext ==
    \/ \E m \in Messages : WriteMessage(m) \/ WriteMessageFails(m)
    \/ CloseStream \/ ReadHeader \/ ReadBody \/ ReadEnds \/ ReadBreaks

WireSpec == WireInit /\ [][WireNext]_wireVars

----------------------------------------------------------------------------
(* Properties.                                                               *)

\* The reader gets the messages that were written, in their order, none in part and
\* none twice, however the stream is divided and wherever it breaks (cs.go:82-115,
\* net.go:81-86, client.go:108-126, 186-220, udpforward.go:177-195, 211-231).  Behind a
\* body too long for its length, or a datagram that a missed deadline cut after a
\* frame, it may take anything for a message, but only after all those before it.
ReadAsWritten ==
    IsPrefix(received, messages) \/ (shifted /\ IsPrefix(messages, received))

\* A reader that sees the stream end between two messages has read all of them
\* (cs.go:84-97, client.go:188-199).
NothingLeftBehind == reader.part = "eof" => IsPrefix(messages, received)

\* The stream of messages, while it goes on and when it ends (cs.go:82-123).
WireInv == ReadAsWritten /\ NothingLeftBehind

=============================================================================
