------------------------------- MODULE MCParts -------------------------------
(* The parts that share no state with any other, checked in one run: a behavior
   is one of one part, `part', and the others stay as they are.  DHCP has every
   block of a four-bit address space: octets of one bit.                     *)
EXTENDS DHCP, FileLog, AnsiColor, AliLog, ConnWriter, Framing, RawUDP

VARIABLE part

MCCidrs == [ip : Address, one : 0 .. WordBits]

\* Logs rotated by the day, of everything and of errors, written by the logger's
\* goroutine; one log written by that or by two goroutines, that may hold one line
\* a file; one written by two, on days of 24 hours, after one of 25 and before one
\* of 23.
Conf(max, separate, async) ==
    [MaxLines |-> max, Separate |-> separate, Async |-> async, Back |-> {}, Forward |-> {}]
MCConfigs ==
    {Conf(0, {"error"}, TRUE), Conf(1, {}, TRUE), Conf(1, {}, FALSE), Conf(0, {}, FALSE),
     [Conf(0, {}, FALSE) EXCEPT !.Back = {0}], [Conf(0, {}, FALSE) EXCEPT !.Forward = {1}]}

\* The text between escape sequences: a letter that is in none.
MCText == {otherChar}

\* Octets of one bit: a length is below 4, and one body is longer.
MCBodies == {<<>>, <<1>>, <<0, 1>>, <<1, 0, 1>>, <<1, 1, 1, 1, 0>>}

\* Octets of three bits: a packet has less than 64.  Every word as a payload, odd
\* lengths, and the lengths around the limit.
MCAddrs == {<<<<1, 0, 0, 1>>, <<0, 7>>>>, <<<<7, 0, 7, 7>>, <<5, 3>>>>}
MCPayloads == UNION {[1..n -> {0, 1, 6, 7}] : n \in 0..3} \cup [1..2 -> 0..7]
              \cup {[i \in 1..n |-> i % 8] : n \in 34..38}

Parts == {"dhcp", "file", "color", "ali", "conn", "wire", "raw"}

\* A part that rests has one initial state.
PartsInit ==
    /\ part \in Parts
    /\ NewDHCP /\ (part # "dhcp" => cidr = [ip |-> <<0, 0, 0, 0>>, one |-> 0])
    /\ Init /\ (part # "file" => config = Conf(0, {}, FALSE))
    /\ ColorInit /\ (part # "color" => mode = "Output" /\ console = "yes")
    /\ AliInit
    /\ ConnInit /\ (part # "conn" => ~ReconnectOnMsg /\ ~Reconnect /\ alone)
    /\ WireInit /\ (part # "wire" => channel = "control")
    /\ RawInit

Only(p) ==
    /\ part = p /\ UNCHANGED part
    /\ p # "dhcp" => UNCHANGED D_vars
    /\ p # "file" => UNCHANGED vars
    /\ p # "color" => UNCHANGED colorVars
    /\ p # "ali" => UNCHANGED aliVars
    /\ p # "conn" => UNCHANGED connVars
    /\ p # "wire" => UNCHANGED wireVars
    /\ p # "raw" => UNCHANGED rawVars

PartsNext ==
    \/ Only("dhcp") /\ D_Next
    \/ Only("file") /\ Next
    \/ Only("color") /\ ColorNext
    \/ Only("ali") /\ AliNext
    \/ Only("conn") /\ ConnNext
    \/ Only("wire") /\ WireNext
    \/ Only("raw") /\ RawNext

allVars == <<part, D_vars, vars, colorVars, aliVars, connVars, wireVars, rawVars>>
PartsSpec == PartsInit /\ [][PartsNext]_allVars

=============================================================================
