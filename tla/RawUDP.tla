------------------------------- MODULE RawUDP -------------------------------
(* The packets the server sends by a raw socket, so that a reply comes from the
   address the client talked to (net.go): an IP header of 20 octets, a UDP header
   of 8, the payload, with their checksums; lengths are computed in a word of two
   octets.  The receiver is external, as the standards have it: it drops a packet
   whose lengths or checksums are wrong.

   An octet has ByteSize values, 256 in the code; the other octets of the headers
   are constants below it.                                                   *)
EXTENDS Integers, Sequences

CONSTANTS
    ByteSize,
    Addrs,    \* <<IP, port>>: of four octets and of two
    Payloads,
    UDP       \* the protocol's number

ASSUME PacketConstants ==
    /\ ByteSize \in Nat /\ ByteSize > 6 /\ UDP \in 0..(ByteSize - 1)
    /\ \A addr \in Addrs :
           /\ addr[1] \in Seq(0..(ByteSize - 1)) /\ Len(addr[1]) = 4
           /\ addr[2] \in Seq(0..(ByteSize - 1)) /\ Len(addr[2]) = 2
           /\ addr = <<addr[1], addr[2]>>
    /\ \A payload \in Payloads :   \* its length came in a word (udpforward.go:223)
           payload \in Seq(0..(ByteSize - 1)) /\ Len(payload) < ByteSize * ByteSize

VARIABLES
    sent,     \* what was to be sent: [src, dst, payload]
    result,   \* "none", "sent", "too big", "panicked"
    packet    \* the packet

rawVars == <<sent, result, packet>>

Word == ByteSize * ByteSize
uint16(n) == n % Word
uint32(n) == n % (Word * Word)
High(n) == n \div ByteSize
Low(n) == n % ByteSize

\* Mutant: the last of an odd number of octets is added as a low one.
checksumAdd_OddLow(buf, seed) ==
    LET word(i) == IF i = Len(buf) THEN buf[i] ELSE buf[i] * ByteSize + buf[i + 1]
        sum[n \in 0..Len(buf)] == IF n = 0 THEN seed
                                  ELSE IF n % 2 = 1 THEN uint32(sum[n - 1] + word(n)) ELSE sum[n - 1]
    IN  sum[Len(buf)]

\* The sum of the words of buf, the last of an odd number of octets a high one.
checksumAdd(buf, seed) ==
    LET word(i) == IF i = Len(buf) THEN buf[i] * ByteSize ELSE buf[i] * ByteSize + buf[i + 1]
        sum[n \in 0..Len(buf)] == IF n = 0 THEN seed
                                  ELSE IF n % 2 = 1 THEN uint32(sum[n - 1] + word(n)) ELSE sum[n - 1]
    IN  sum[Len(buf)]

\* The carries are added until none is left.
carried[sum \in 0..(Word * Word - 1)] ==
    IF sum < Word THEN sum ELSE carried[(sum \div Word) + (sum % Word)]

checksumWrapper(seed) ==
    LET csum == Word - 1 - carried[seed]
    IN  IF csum = 0 THEN Word - 1 ELSE csum

CheckSum(buf) == checksumWrapper(checksumAdd(buf, 0))

\* buf with the octets from position at (from 0) on replaced.
copy(buf, at, octets) ==
    [i \in DOMAIN buf |-> IF i \in (at + 1)..(at + Len(octets)) THEN octets[i - at] ELSE buf[i]]

udpPart(src, dst, ulen, payload) ==
    <<0, UDP, 0, 0>> \o src[1] \o dst[1] \o src[2] \o dst[2] \o <<High(ulen), Low(ulen), 0, 0>> \o payload

\* The fields the UDP checksum covers are filled in first, where they belong in
\* the packet; then the checksum, the IP header and its checksum.
Built(src, dst, payload) ==
    LET iplen == uint16(28 + Len(payload))
        ulen == uint16(8 + Len(payload))
        data == [i \in 1..8 |-> 0] \o udpPart(src, dst, ulen, payload)
        uc == checksumWrapper(checksumAdd(data, ulen))
        udp == copy(data, 26, <<High(uc), Low(uc)>>)
        ip == copy(udp, 0, <<5, 0, High(iplen), Low(iplen), 0, 0, 4, 0, 6>>)
        ipc == CheckSum(SubSeq(ip, 1, 20))
    IN  copy(ip, 10, <<High(ipc), Low(ipc)>>)

\* The length is compared after it has wrapped: a packet that is too long is too
\* short for its own header.
sendUDPViaRaw(src, dst, payload) ==
    LET iplen == uint16(28 + Len(payload)) IN
    /\ sent' = [src |-> src, dst |-> dst, payload |-> payload]
    /\ result' = IF iplen > Word - 1 THEN "too big"
                 ELSE IF iplen < 28 THEN "panicked" ELSE "sent"
    /\ packet' = IF result' = "sent" THEN Built(src, dst, payload) ELSE <<>>

RawInit == sent = <<>> /\ result = "none" /\ packet = <<>>
\* Bound: one packet; none depends on those before.
RawNext ==
    /\ result = "none"
    /\ \E src, dst \in Addrs, payload \in Payloads : sendUDPViaRaw(src, dst, payload)
RawSpec == RawInit /\ [][RawNext]_rawVars

----------------------------------------------------------------------------
(* The receiver, by the standard's arithmetic: the words, an odd last octet the
   high one of its word, add up to a multiple of Word - 1.                   *)

weight(n) == IF n % 2 = 1 THEN ByteSize ELSE 1
Right(octets) ==
    LET sum[n \in 0..Len(octets)] == IF n = 0 THEN 0 ELSE sum[n - 1] + octets[n] * weight(n)
    IN  sum[Len(octets)] % (Word - 1) = 0
At(from, n) == SubSeq(packet, from + 1, from + n)

\* Every packet that is sent is accepted by its receiver, lengths and checksums,
\* as what was to be sent, whatever the sums come to (net.go:13-79): of odd
\* length, with carries, and where the checksum comes to zero, which in UDP means
\* that there is none.
Accepted ==
    result = "sent" =>
        LET total == packet[3] * ByteSize + packet[4]
            ulen == packet[25] * ByteSize + packet[26]
        IN  /\ total = Len(packet) /\ ulen = total - 20
            /\ Right(At(0, 20))
            /\ packet[10] = UDP
            /\ At(26, 2) # <<0, 0>>
            /\ Right(At(12, 8) \o <<0, UDP, packet[25], packet[26]>> \o At(20, ulen))
            /\ <<At(12, 4), At(20, 2)>> = sent.src /\ <<At(16, 4), At(22, 2)>> = sent.dst
            /\ At(28, ulen - 8) = sent.payload

\* A payload that fits a packet is sent, and only a longer one stops the program
\* (net.go:45-51).
SentIfFits == result \in {"panicked", "too big"} => Len(sent.payload) > Word - 1 - 28

\* A payload that fits is sent, and its packet accepted (net.go:13-79).
RawInv == Accepted /\ SentIfFits

=============================================================================
