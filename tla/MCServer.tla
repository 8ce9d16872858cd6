------------------------------ MODULE MCServer ------------------------------
(***************************************************************************)
(* Instances of Server for TLC: octets of two bits, so that a block of six *)
(* network bits has two host bits, and the requests of a few clients.      *)
(***************************************************************************)
EXTENDS Server, TLC

UdpPort80 == {<<"udp", 80>>}

Symmetry == Permutations(Conn)

\* Blocks with two addresses for clients (one is the server's own, the first
\* is skipped and the last is the broadcast), and with one.
TwoVips == {[ip |-> <<1, 0, 0, 0>>, one |-> 6]}
OneVip == {[ip |-> <<1, 0, 0, 1>>, one |-> 6]}
FewVips == TwoVips \cup OneVip

Forward(protocol, from) == [Protocol |-> protocol, Ports |-> {<<from, "8080">>}]

\* Clients that compete for tcp port 80, hold a second listener, or lose one
\* to another process of the host (ForeignPorts).
ListenerRequests ==
  { [Domain |-> "a", Forward |-> <<Forward("udp", 0), Forward("tcp", 80)>>],
    [Domain |-> "b", Forward |-> <<Forward("tcp", 80)>>],
    [Domain |-> "b", Forward |-> <<Forward("udp", 0), Forward("udp", 80)>>] }

\* Clients that reach the gateway: twice the same route, the same host through
\* another port, another host, a local port that does not parse.
GatewayRequests ==
  { [Domain |-> "a", Forward |-> <<Forward("http", 0)>>],
    [Domain |-> "a", Forward |-> <<Forward("http", 80)>>],
    [Domain |-> "b", Forward |-> <<Forward("http", 0)>>],
    [Domain |-> "b", Forward |->
       <<[Protocol |-> "http", Ports |-> {<<0, "8080">>, <<80, ":8080">>}]>>] }

\* A forward without ports, a protocol nobody registered, and a client without
\* a domain.
OddRequests ==
  { [Domain |-> "", Forward |->
       <<[Protocol |-> "tcp", Ports |-> {}], Forward("tcp", 80)>>],
    [Domain |-> "a", Forward |-> <<Forward("dummy", 0), Forward("sctp", 0)>>] }

TrafficRequests == ListenerRequests \cup GatewayRequests \cup OddRequests

\* Listeners that may be refused, alone or after another proxy was added.
LeaseRequests ==
  { [Domain |-> "a", Forward |-> <<Forward("tcp", 80)>>],
    [Domain |-> "b", Forward |-> <<Forward("dummy", 0), Forward("tcp", 80)>>],
    [Domain |-> "a", Forward |-> <<Forward("dummy", 0), Forward("sctp", 0)>>] }
=============================================================================
